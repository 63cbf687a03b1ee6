--------------------------- MODULE Vp8PayloadScanner ---------------------------
(* src/simd_packet_hotpath.rs: counts the VP8 payloads that start a keyframe *)
(* frame.  Payloads with a one-byte descriptor are collected in lanes; full  *)
(* lanes are counted at once, and those left at the end one by one.  A       *)
(* payload with an extended descriptor goes to the production parser at once *)
(* and passes by the ones that wait in the lanes.                            *)
(*                                                                           *)
(* Descriptor and payload header keep their bits as numbers, because the     *)
(* three predicates test them in different ways.                             *)
(*                                                                           *)
(* A definition marked "Mutant" is a plausible bug in the definition that    *)
(* follows it; it is no part of the model and shows what a property catches. *)
EXTENDS SimdScan

CONSTANT PayloadCounts   \* the payload counts new() is called with

ASSUME Vp8Assumption == PayloadCounts \subseteq Nat

VARIABLES
    payload_count,
    descriptors,       \* lane -> descriptor byte
    payload_headers,   \* lane -> first byte after the descriptor
    batch_len,         \* the lanes filled since the last count
    tail               \* the lanes counted one by one, once no payload is left

vp8Lanes == <<descriptors, payload_headers>>
vp8Vars  == <<payload_count, vp8Lanes, batch_len, tail>>

-----------------------------------------------------------------------------

\* new(): the first two bytes, and the first byte behind the descriptor.
Descriptor(i) ==
    LET kind == i % 8
    IN  IF kind <= 3 THEN 16        \* 0x10: S, partition 0
        ELSE IF kind = 4 THEN 0     \* 0x00: not the start of a partition
        ELSE IF kind = 5 THEN 17    \* 0x11: partition 1
        ELSE 144                    \* 0x90: X, S, partition 0

Second(i) ==
    IF i % 8 \in {2, 3} THEN 1 ELSE IF i % 8 \in {6, 7} THEN 128 ELSE 0

Header(i) == IF i % 8 \in {2, 3, 7} THEN 1 ELSE 0

Extended(i) == Descriptor(i) \div 128 = 1

\* vp8::payload_starts_keyframe of the o_sfu_rfc crate: the frame starts in
\* this payload and is no interframe, behind a descriptor of any length.
PayloadStartsKeyframe(i) ==
    /\ Descriptor(i) \div 16 % 2 = 1
    /\ Descriptor(i) % 16 = 0
    /\ Header(i) % 2 = 0

\* Mutant: the partition is not tested.
AnyPartition(descriptor, header) == descriptor \div 16 % 2 = 1 /\ header % 2 = 0

\* vp8_simple_payload_starts_keyframe: S bit, partition 0, no interframe.
SimpleStartsKeyframe(descriptor, header) ==
    /\ descriptor \div 16 % 2 = 1
    /\ descriptor % 16 = 0
    /\ header % 2 = 0

\* vp8_simple_keyframe_count_simd: the mask S | partition compared with S, in
\* all lanes at once.
KeyframeCountSimd(ds, hs) ==
    Cardinality({l \in Lanes : ds[l] % 32 = 16 /\ hs[l] % 2 = 0})

Vp8Init ==
    /\ payload_count \in PayloadCounts
    /\ descriptors = [l \in Lanes |-> 0]
    /\ payload_headers = [l \in Lanes |-> 0]
    /\ batch_len = 0
    /\ tail = 0

\* One iteration of scalar_cycle.
ScanScalarVp8 ==
    /\ fixture = "vp8" /\ cycle = "scalar" /\ index < payload_count
    /\ Verdict(PayloadStartsKeyframe(index))
    /\ UNCHANGED vp8Vars

\* A payload with the X bit does not enter the lanes.
ScanExtended ==
    /\ fixture = "vp8" /\ cycle = "simd"
    /\ index < payload_count /\ Extended(index)
    /\ Verdict(PayloadStartsKeyframe(index))
    /\ UNCHANGED vp8Vars

\* Any other payload takes the next lane; full lanes are counted and reused.
ScanSimple ==
    LET ds   == [descriptors EXCEPT ![batch_len] = Descriptor(index)]
        hs   == [payload_headers EXCEPT ![batch_len] = Second(index)]
        full == batch_len + 1 = LaneCount
    IN  /\ fixture = "vp8" /\ cycle = "simd"
        /\ index < payload_count /\ ~Extended(index)
        /\ descriptors' = ds
        /\ payload_headers' = hs
        /\ batch_len' = IF full THEN 0 ELSE batch_len + 1
        /\ detected' = detected + (IF full THEN KeyframeCountSimd(ds, hs) ELSE 0)
        /\ index' = index + 1
        /\ UNCHANGED <<fixture, cycle, payload_count, tail>>

\* The lanes that were not filled up are counted one by one.
CountTail ==
    /\ fixture = "vp8" /\ index = payload_count /\ tail < batch_len
    /\ detected' = detected
         + One(SimpleStartsKeyframe(descriptors[tail], payload_headers[tail]))
    /\ tail' = tail + 1
    /\ UNCHANGED <<fixture, cycle, index, payload_count, vp8Lanes, batch_len>>

\* A cycle has returned; the next one has new lanes.
Vp8Return ==
    /\ fixture = "vp8" /\ index = payload_count /\ tail = batch_len
    /\ CallAgain
    /\ descriptors' = [l \in Lanes |-> 0]
    /\ payload_headers' = [l \in Lanes |-> 0]
    /\ batch_len' = 0
    /\ tail' = 0
    /\ UNCHANGED payload_count

Vp8Next == ScanScalarVp8 \/ ScanExtended \/ ScanSimple \/ CountTail \/ Vp8Return

-----------------------------------------------------------------------------
(* Properties. *)

\* The keyframes counted and those that wait in the lanes are together the
\* keyframes among the payloads read, although those with an extended descriptor
\* overtake the others and lanes keep what an earlier batch left in them; and
\* there is a lane for the next payload.  When none waits any more, the sum is
\* what the test expects of simd_batch_cycle.
NoneLost ==
    fixture = "vp8" =>
        /\ batch_len < LaneCount
        /\ detected + Cardinality({l \in tail .. batch_len - 1 :
                            descriptors[l] % 32 = 16 /\ payload_headers[l] % 2 = 0})
           = Cardinality({i \in 0 .. index - 1 : PayloadStartsKeyframe(i)})
=============================================================================
