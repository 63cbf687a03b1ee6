--------------------------- MODULE MCPacketMetrics ---------------------------
(* PacketMetrics on small instances.  The payload sizes differ from one      *)
(* another and from 1, so that a packet counted twice, skipped, or added to  *)
(* the wrong counter changes a number; MCMaxU64 leaves room for the total.   *)
EXTENDS PacketMetrics, FiniteSetsExt

MCPayloads   == <<3, 2>>
MCPayloadOne == <<3>>
MCMaxU64     == 90

\* Weight is the sum it stands for.
ASSUME WeightIsASum ==
    \A f \in Fields, S \in SUBSET Packets :
        Weight(S, f) = MapThenSumSet(LAMBDA p : Amount(p, f), S)
=============================================================================
