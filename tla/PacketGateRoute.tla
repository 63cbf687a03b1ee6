--------------------------- MODULE PacketGateRoute ---------------------------
(* src/consumer_packet_gate.rs: the route-maintenance fixture keeps a Vec of *)
(* destinations and a map from media id to position.  Three cycles replace   *)
(* one destination by a fresh one: the linear one searches the Vec and does  *)
(* not touch the map, the two indexed ones use the map and have to repair it *)
(* after swap_remove or after the shift of a stable remove.                  *)
(*                                                                           *)
(* A destination is the index it was made from: benchmark_destination(index) *)
(* gives each index a media id and a session of its own.  Every cycle that   *)
(* removes also pushes, so the Vec always has DestinationCount elements, and *)
(* the removal cursor, of which only cursor % len is used, is kept modulo    *)
(* that length.                                                              *)
(*                                                                           *)
(* A definition marked "Mutant" is a plausible bug in the definition that    *)
(* follows it; it is no part of the model and shows what a property catches. *)
EXTENDS ConsumerPacketGate

CONSTANTS
    DestinationCount,   \* length of the route, the argument of new()
    MaxIndex,           \* bound: the last destination index that is made
    Usages,             \* the sets of cycles a caller runs on one fixture
    Absent              \* a media id without an entry in the map

RoutePositions == 0 .. DestinationCount - 1
Media     == 0 .. MaxIndex
LastPos   == DestinationCount - 1

ASSUME ConstantsAssumption ==
    /\ DestinationCount \in Nat \ {0}
    /\ MaxIndex \in Nat
    /\ DestinationCount <= MaxIndex + 1
    /\ Usages \subseteq SUBSET {"linear", "swap", "stable"}
    /\ Absent \notin Int

VARIABLES
    usage,                    \* the cycles called on this fixture
    media_id_index,           \* media id -> position
    removal_cursor,           \* position of the next destination to remove
    next_destination_index    \* the next destination to make

routeVars == <<usage, destinations, media_id_index, removal_cursor, next_destination_index>>

-----------------------------------------------------------------------------

RouteInit ==
    /\ usage \in Usages
    /\ destinations = [p \in RoutePositions |-> p]
    /\ media_id_index = [m \in Media |-> IF m < DestinationCount THEN m ELSE Absent]
    /\ removal_cursor = 0
    /\ next_destination_index = DestinationCount

\* next_removal_target: the destination under the cursor, which moves on.
Target == destinations[removal_cursor]

AdvanceCursor ==
    removal_cursor' = IF removal_cursor = LastPos THEN 0 ELSE removal_cursor + 1

\* Vec::remove(position) and push: the later destinations move up by one.
RemoveAndPush(position) ==
    [p \in RoutePositions |->
        IF p < position THEN destinations[p]
        ELSE IF p < LastPos THEN destinations[p + 1]
        ELSE next_destination_index]

\* Vec::swap_remove(position) and push: the last destination fills the gap.
SwapRemoveAndPush(position) ==
    [destinations EXCEPT ![position] = destinations[LastPos],
                         ![LastPos] = next_destination_index]

\* benchmark_destination(next_destination_index) and the increment after it.
PushFresh ==
    /\ next_destination_index <= MaxIndex
    /\ next_destination_index' = next_destination_index + 1

\* current_linear_remove_add_cycle.  The target was read from the Vec, so the
\* search finds it; the first destination with its media id is removed.
CurrentLinearRemoveAdd ==
    \E position \in RoutePositions :
        /\ "linear" \in usage
        /\ destinations[position] = Target
        /\ \A p \in RoutePositions : p < position => destinations[p] # Target
        /\ destinations' = RemoveAndPush(position)
        /\ AdvanceCursor
        /\ PushFresh
        /\ UNCHANGED <<usage, media_id_index>>

\* Mutant: the destination that fills the gap keeps its old position in the map.
SwapKeepsOldPosition ==
    LET position == media_id_index[Target]
    IN  /\ "swap" \in usage
        /\ position # Absent
        /\ destinations' = SwapRemoveAndPush(position)
        /\ media_id_index' = [m \in Media |->
               IF m = next_destination_index THEN LastPos
               ELSE IF m = Target THEN Absent
               ELSE media_id_index[m]]
        /\ AdvanceCursor
        /\ PushFresh
        /\ UNCHANGED usage

\* Mutant: the new position is taken from the length before the removal.
SwapPositionOffByOne ==
    LET position == media_id_index[Target]
    IN  /\ "swap" \in usage
        /\ position # Absent
        /\ destinations' = SwapRemoveAndPush(position)
        /\ media_id_index' = [m \in Media |->
               IF m = next_destination_index THEN DestinationCount
               ELSE IF position < LastPos /\ m = destinations[LastPos] THEN position
               ELSE IF m = Target THEN Absent
               ELSE media_id_index[m]]
        /\ AdvanceCursor
        /\ PushFresh
        /\ UNCHANGED usage

\* Mutant: the fresh destination is entered at the last position before the push.
SwapEntersFreshEarly ==
    LET position == media_id_index[Target]
        moved    == SwapRemoveAndPush(position)
    IN  /\ "swap" \in usage
        /\ position # Absent
        /\ destinations' = moved
        /\ media_id_index' = [m \in Media |->
               IF m = next_destination_index THEN LastPos - 1
               ELSE IF position < LastPos /\ m = moved[position] THEN position
               ELSE IF m = Target THEN Absent
               ELSE media_id_index[m]]
        /\ AdvanceCursor
        /\ PushFresh
        /\ UNCHANGED usage

\* media_id_indexed_swap_remove_add_cycle: the target's entry is removed, the
\* destination that was moved into the gap gets its new position, the fresh
\* one is entered last.
MediaIdIndexedSwapRemoveAdd ==
    LET position == media_id_index[Target]
        moved    == SwapRemoveAndPush(position)
    IN  /\ "swap" \in usage
        /\ position # Absent
        /\ destinations' = moved
        /\ media_id_index' = [m \in Media |->
               IF m = next_destination_index THEN LastPos
               ELSE IF position < LastPos /\ m = moved[position] THEN position
               ELSE IF m = Target THEN Absent
               ELSE media_id_index[m]]
        /\ AdvanceCursor
        /\ PushFresh
        /\ UNCHANGED usage

\* Mutant: the positions after the gap are not renumbered.
StableWithoutShift ==
    LET position == media_id_index[Target]
    IN  /\ "stable" \in usage
        /\ position # Absent
        /\ destinations' = RemoveAndPush(position)
        /\ media_id_index' = [m \in Media |->
               IF m = next_destination_index THEN LastPos
               ELSE IF m = Target THEN Absent
               ELSE media_id_index[m]]
        /\ AdvanceCursor
        /\ PushFresh
        /\ UNCHANGED usage

\* Mutant: the stable cycle fills the gap with the last destination.
StableBySwap ==
    LET position == media_id_index[Target]
        moved    == SwapRemoveAndPush(position)
    IN  /\ "stable" \in usage
        /\ position # Absent
        /\ destinations' = moved
        /\ media_id_index' = [m \in Media |->
               IF \E p \in RoutePositions : moved[p] = m
               THEN CHOOSE p \in RoutePositions : moved[p] = m
               ELSE Absent]
        /\ AdvanceCursor
        /\ PushFresh
        /\ UNCHANGED usage

\* media_id_indexed_stable_remove_add_cycle: the target's entry is removed,
\* every shifted destination gets its new position, the fresh one comes last.
\* (No destination is in the Vec twice, so the order of the inserts is free.)
MediaIdIndexedStableRemoveAdd ==
    LET position == media_id_index[Target]
        shifted  == RemoveAndPush(position)
    IN  /\ "stable" \in usage
        /\ position # Absent
        /\ destinations' = shifted
        /\ media_id_index' = [m \in Media |->
               IF \E p \in position .. LastPos : shifted[p] = m
               THEN CHOOSE p \in position .. LastPos : shifted[p] = m
               ELSE IF m = Target THEN Absent
               ELSE media_id_index[m]]
        /\ AdvanceCursor
        /\ PushFresh
        /\ UNCHANGED usage

\* Both indexed cycles return 0 when the map does not know the target; the
\* cursor has moved on all the same.
TargetNotIndexed ==
    /\ usage \cap {"swap", "stable"} # {}
    /\ media_id_index[Target] = Absent
    /\ AdvanceCursor
    /\ UNCHANGED <<usage, destinations, media_id_index, next_destination_index>>

\* The bound of the model, not of the code, where the index goes on growing.
BoundReached ==
    /\ next_destination_index > MaxIndex
    /\ UNCHANGED routeVars

RouteNext ==
    \/ CurrentLinearRemoveAdd
    \/ MediaIdIndexedSwapRemoveAdd
    \/ MediaIdIndexedStableRemoveAdd
    \/ TargetNotIndexed
    \/ BoundReached

RouteSpec == RouteInit /\ [][RouteNext]_routeVars

-----------------------------------------------------------------------------
(* Properties. *)

\* A position in the map is always inside the Vec, also when the linear cycle
\* has left the map behind: remove and swap_remove never panic.
TypeOK ==
    /\ usage \in Usages
    /\ destinations \in [RoutePositions -> Media]
    /\ media_id_index \in [Media -> RoutePositions \cup {Absent}]
    /\ removal_cursor \in RoutePositions
    /\ next_destination_index \in DestinationCount .. MaxIndex + 1

\* As long as the cycle that ignores the map is not called, the map is the
\* inverse of the Vec, also when the two indexed cycles alternate.
IndexExact ==
    "linear" \notin usage =>
        \A m \in Media, p \in RoutePositions : media_id_index[m] = p <=> destinations[p] = m

\* Without swap_remove the route stays in the order the destinations joined.
JoinOrderKept ==
    "swap" \notin usage =>
        \A p, q \in RoutePositions : p < q => destinations[p] < destinations[q]

Route == {destinations[p] : p \in RoutePositions}

\* The linear cycle has the fixture to itself, as in the benches.
Unmixed == "linear" \in usage => usage = {"linear"}

\* In an unmixed use each cycle takes out the destination under the cursor, and
\* no other, and adds the fresh one.
TargetReplaced ==
    [][Unmixed => Route' = (Route \ {Target}) \cup {next_destination_index}]_routeVars

\* Whatever cycles are mixed, a step that changes the route takes out one
\* destination, at the cursor or behind it, and adds the fresh one; those before
\* it keep their places.  The linear cycle leaves positions in the map that are
\* too high, never too low: a stale one makes an indexed cycle remove a later
\* destination in the place of its target, but not one it has passed.
EarlierKept ==
    [][destinations' # destinations =>
           \E position \in removal_cursor .. LastPos :
               /\ Route' = (Route \ {destinations[position]}) \cup {next_destination_index}
               /\ \A p \in RoutePositions : p < position => destinations'[p] = destinations[p]
      ]_routeVars
=============================================================================
