--------------------------- MODULE PacketGateBatch ---------------------------
(* src/consumer_packet_gate.rs: the batch fixture sends one gate update to   *)
(* every destination of a route, in the reverse of the route's order.  Three *)
(* cycles differ in how an update finds its destination: a linear search, a  *)
(* map from media id to position, a map from identity to position.  A cycle  *)
(* returns how many destinations changed plus, when one did, the aggregate   *)
(* of the gates of the active ones.                                          *)
(*                                                                           *)
(* Keys are numbers as in the code: media id and connection id are computed  *)
(* from the index a destination was made from.                               *)
(*                                                                           *)
(* A definition marked "Mutant" is a plausible bug in the definition that    *)
(* follows it; it is no part of the model and shows what a property catches. *)
EXTENDS ConsumerPacketGate, FiniteSets

CONSTANTS
    Counts,   \* the destination counts new() is called with
    NoGate    \* pending_gate when it is None

ASSUME CountsAssumption == Counts \subseteq Nat

Strategies == {"linear", "media_id", "identity"}

\* The gates of the fixture: Rid(1) is the only Rid.
Gates == {"Open", "Rid", "Block"}

VARIABLES
    next_gate_is_open,   \* the gate of the last cycle was Open
    strategy,            \* the cycle that runs, or the last one that ran
    update,              \* the destination whose update is next, -1 after the last
    changed_count,
    failed_count,
    result,              \* what the last cycle returned
    before               \* history: destinations when the cycle was called

loop == <<strategy, update, changed_count, failed_count, before>>
batchVars == <<destinations, next_gate_is_open, loop, result>>

-----------------------------------------------------------------------------

Positions == DOMAIN destinations
Count     == Cardinality(Positions)

\* benchmark_destination and benchmark_session_key.
MediaId(index)      == 1000 + index
ConnectionId(index) == index + 1
Identity(index)     == <<ConnectionId(index), MediaId(index)>>
Active(index)       == index % 7 # 0

Fresh(index) ==
    [gate |-> IF index % 11 = 0 THEN "Block" ELSE "Open", pending_gate |-> NoGate]

\* media_id_index and identity_index: collect() keeps the last of equal keys.
Latest(found) == {p \in found : \A q \in found : q <= p}
IndexedByMediaId(media_id) == Latest({p \in Positions : MediaId(p) = media_id})
IndexedByIdentity(identity) == Latest({p \in Positions : Identity(p) = identity})

\* The position an update finds, as a set with at most one element.
Found(u) ==
    CASE strategy = "linear" ->
           {p \in Positions : /\ Identity(p) = Identity(u)
                              /\ \A q \in 0 .. p - 1 : Identity(q) # Identity(u)}
      [] strategy = "media_id" ->
           {p \in IndexedByMediaId(MediaId(u)) : ConnectionId(p) = ConnectionId(u)}
      [] strategy = "identity" -> IndexedByIdentity(Identity(u))

\* Mutant: a gate that is not pending any more stays pending.
PendingKept(destination, gate) ==
    [gate |-> gate,
     pending_gate |-> IF gate = "Rid" THEN gate ELSE destination.pending_gate]

\* update_destination_gate: what the destination becomes.
Updated(destination, gate) ==
    [gate |-> gate, pending_gate |-> IF gate = "Rid" THEN gate ELSE NoGate]

\* The gate that next_gate gave the running cycle.
CycleGate == IF next_gate_is_open THEN "Open" ELSE "Rid"

\* Mutant: an inactive destination counts too.
AggregateWithInactive ==
    Cardinality({p \in Positions : destinations[p].gate \in {"Open", "Rid"}})

\* source_gate_aggregate: the active destinations whose gate lets packets pass.
SourceGateAggregate ==
    Cardinality({p \in Positions : Active(p) /\ destinations[p].gate \in {"Open", "Rid"}})

-----------------------------------------------------------------------------

BatchInit ==
    /\ \E count \in Counts : destinations = [p \in 0 .. count - 1 |-> Fresh(p)]
    /\ next_gate_is_open = FALSE
    /\ strategy \in Strategies
    /\ update = -1
    /\ changed_count = 0
    /\ failed_count = 0
    /\ result = 0
    /\ before = destinations

\* A cycle is called when none runs; it computes the next gate first.
Idle == update = -1 /\ result >= 0

Running == ~Idle

Call ==
    /\ Idle
    /\ strategy' \in Strategies
    /\ next_gate_is_open' = ~next_gate_is_open
    /\ update' = Count - 1
    /\ changed_count' = 0
    /\ failed_count' = 0
    /\ result' = -1
    /\ before' = destinations
    /\ UNCHANGED destinations

\* One iteration of the loop over the updates.  An update that finds nothing
\* is counted as failed.
ApplyUpdate ==
    /\ Running /\ update >= 0
    /\ IF Found(update) = {}
       THEN /\ failed_count' = failed_count + 1
            /\ UNCHANGED <<destinations, changed_count>>
       ELSE \E p \in Found(update) :
              LET updated == Updated(destinations[p], CycleGate)
              IN  /\ destinations' = [destinations EXCEPT ![p] = updated]
                  /\ changed_count' = changed_count
                       + (IF destinations[p] = updated THEN 0 ELSE 1)
                  /\ UNCHANGED failed_count
    /\ update' = update - 1
    /\ UNCHANGED <<next_gate_is_open, strategy, result, before>>

\* The end of the loop: the aggregate is computed only when a gate changed.
Return ==
    /\ Running /\ update = -1
    /\ result' = changed_count + failed_count
                 + (IF changed_count = 0 THEN 0 ELSE SourceGateAggregate)
    /\ UNCHANGED <<destinations, next_gate_is_open, loop>>

BatchNext == Call \/ ApplyUpdate \/ Return

BatchSpec == BatchInit /\ [][BatchNext]_batchVars

-----------------------------------------------------------------------------
(* Properties. *)

Destinations == [gate : Gates, pending_gate : {"Rid", NoGate}]

\* Whatever the lookup, the updates reach the destinations in reverse order and
\* none is missed: those behind the loop have the gate of this cycle, with Rid
\* and nothing else pending, and those before it are as the last cycle left
\* them.  An update fails in no cycle.
UpdatesLand ==
    /\ failed_count = 0
    /\ Running =>
        \A p \in Positions :
            destinations[p] =
                IF p > update
                THEN [gate |-> CycleGate,
                      pending_gate |-> IF CycleGate = "Rid" THEN "Rid" ELSE NoGate]
                ELSE before[p]

\* All three cycles return the same: the destinations that differ from what the
\* cycle found and, if there is one, the active destinations that are not
\* blocked.
ResultCounts ==
    Idle => LET changed == {p \in Positions : before[p] # destinations[p]}
                passing == {p \in Positions : Active(p) /\ destinations[p].gate # "Block"}
            IN  result = IF changed = {} THEN 0
                         ELSE Cardinality(changed) + Cardinality(passing)
=============================================================================
