------------------------- MODULE PerformanceHardening -------------------------
(* src/performance_hardening.rs: four fixtures, each with a loop that is     *)
(* called over and over.  KeyframeCoalescing has one; this module adds the   *)
(* wakes of the source policy worker (sort, remove neighbours that are       *)
(* equal, mark a dirty flag for each that remains and take it), the planning *)
(* of routes (every packet against the gate of every destination) and the    *)
(* fanout to local destinations (a reused list of the active ones).          *)
(*                                                                           *)
(* A behaviour has one fixture.  Its cycle, loop index, buffer and result    *)
(* are in the variables of KeyframeCoalescing, whichever fixture it is.      *)
(*                                                                           *)
(* A definition marked "Mutant" is a plausible bug in the definition that    *)
(* follows it; it is no part of the model and shows what a property catches. *)
EXTENDS KeyframeCoalescing

CONSTANTS
    MarkCounts,          \* SourcePolicyWakeBenchmarkFixture::new
    PacketCounts,        \* RoutePlanningBenchmarkFixture::new: its first argument
    DestinationCounts    \* its second, and LocalEgressFanoutBenchmarkFixture::new

ASSUME SizesAssumption ==
    MarkCounts \cup PacketCounts \cup DestinationCounts \subseteq Nat

Fixtures == {"keyframes", "wake", "planning", "egress"}

VARIABLES
    fixture,
    mark_count, packet_count, destination_count,
    dirty,         \* SourcePolicyDirtyState
    route_count

sizes == <<fixture, mark_count, packet_count, destination_count>>
own   == <<sizes, dirty, route_count>>
rest  == <<request_count, current_request, coalesced_count, coalesced>>
vars  == <<keyframeVars, own>>

-----------------------------------------------------------------------------
(* What the fixtures are made of. *)

ChannelIds == [k \in 1 .. mark_count |-> (k - 1) % 8]

\* RoutePlanningBenchmarkFixture::new, for the packet or destination at an index.
Active(destination) == destination % 7 # 0

\* PacketGate::permits: an open gate, or the gate of one rid.
Permits(destination, packet) ==
    destination % 4 = 0 \/ destination % 3 = packet % 3

\* slice::dedup: of equal neighbours the first is kept.
Dedup(ids) ==
    LET kept == {k \in DOMAIN ids : k = 1 \/ ids[k - 1] # ids[k]}
    IN  [n \in 1 .. Cardinality(kept) |-> ids[StableOrder(kept, [k \in kept |-> k])[n]]]

\* Mutant: the neighbours are compared before the ids are in order.
CoalescedUnsorted == Ascending(Dedup(ChannelIds))

\* The buffer of the wake cycle: clear, extend, sort, dedup.
CoalescedChannels == Dedup(Ascending(ChannelIds))

-----------------------------------------------------------------------------
(* The cycles. *)

Init ==
    /\ KeyframeInit
    /\ fixture \in Fixtures
    /\ mark_count \in IF fixture = "wake" THEN MarkCounts ELSE {0}
    /\ packet_count \in IF fixture = "planning" THEN PacketCounts ELSE {0}
    /\ destination_count \in
           IF fixture \in {"planning", "egress"} THEN DestinationCounts ELSE {0}
    /\ fixture # "keyframes" => request_count = 0
    /\ dirty = FALSE
    /\ route_count = 0

\* A cycle of a fixture is called with what its buffer is then.
Call(f, buffer) ==
    /\ fixture = f /\ cycle = "none"
    /\ cycle' = f
    /\ scratch' = buffer
    /\ next' = 0
    /\ route_count' = 0
    /\ UNCHANGED <<rest, result, sizes, dirty>>

Runs(f) == cycle = f /\ next' = next + 1 /\ UNCHANGED <<rest, cycle, result, sizes>>

Return(f, value) ==
    /\ cycle = f /\ cycle' = "none"
    /\ result' = value
    /\ UNCHANGED <<rest, scratch, next, sizes, route_count>>

\* coalesced_worker_buffer_cycle
CallWake == Call("wake", CoalescedChannels)

MarkNext ==
    /\ Runs("wake") /\ next < Len(scratch)
    /\ dirty' = TRUE
    /\ UNCHANGED <<scratch, route_count>>

\* take_dirty: the flag is read and cleared.
ReturnWake ==
    /\ next = Len(scratch)
    /\ Return("wake", Len(scratch) + (IF dirty THEN 1 ELSE 0))
    /\ dirty' = FALSE

\* destination_gate_cycle
CallPlanning == Call("planning", scratch)

PlanNext ==
    /\ Runs("planning") /\ next < packet_count
    /\ route_count' = route_count
         + Cardinality({d \in 0 .. destination_count - 1 : Active(d) /\ Permits(d, next)})
    /\ UNCHANGED <<scratch, dirty>>

ReturnPlanning ==
    next = packet_count /\ Return("planning", route_count) /\ UNCHANGED dirty

\* shared_payload_planning_cycle
CallEgress == Call("egress", <<>>)

FanOutNext ==
    /\ Runs("egress") /\ next < destination_count
    /\ scratch' = IF Active(next) THEN Append(scratch, next) ELSE scratch
    /\ UNCHANGED <<dirty, route_count>>

ReturnEgress ==
    next = destination_count /\ Return("egress", Len(scratch)) /\ UNCHANGED dirty

Next ==
    \/ fixture = "keyframes" /\ KeyframeNext /\ UNCHANGED own
    \/ CallWake \/ MarkNext \/ ReturnWake
    \/ CallPlanning \/ PlanNext \/ ReturnPlanning
    \/ CallEgress \/ FanOutNext \/ ReturnEgress

Spec == Init /\ [][Next]_vars

-----------------------------------------------------------------------------
(* Properties; GroupsExact is in KeyframeCoalescing. *)

Least(a, b) == IF a < b THEN a ELSE b

\* coalesced_worker_buffer_cycle: a channel wakes the worker once however often
\* it was marked, no channel is missed, and no flag is left for the next cycle.
WakesOnce ==
    /\ cycle = "wake" =>
        /\ {scratch[k] : k \in DOMAIN scratch} = {ChannelIds[k] : k \in DOMAIN ChannelIds}
        /\ \A j, k \in DOMAIN scratch : j # k => scratch[j] # scratch[k]
    /\ dirty <=> cycle = "wake" /\ next > 0

\* The cycles of a fixture return, each time and in any order, what follows from
\* its sizes alone: the sources that were asked for a keyframe; the channels that
\* were marked, at most eight, and one wake if there are any; every pair of a
\* packet and a destination that lets it pass; all destinations but every seventh.
ResultExact ==
    cycle = "none" /\ result # -1 =>
        CASE fixture = "keyframes" -> result = Cardinality(Sources)
          [] fixture = "wake" ->
               result = Least(mark_count, 8) + Least(mark_count, 1)
          [] fixture = "planning" ->
               result = Cardinality({pair \in (0 .. packet_count - 1)
                                               \X (0 .. destination_count - 1) :
                           /\ pair[2] % 7 # 0
                           /\ pair[2] % 4 # 0 => pair[2] % 3 = pair[1] % 3})
          [] fixture = "egress" ->
               result = destination_count - (destination_count + 6) \div 7
=============================================================================
