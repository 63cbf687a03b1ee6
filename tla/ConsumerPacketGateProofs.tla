----------------------- MODULE ConsumerPacketGateProofs -----------------------
(* The two fixtures of consumer_packet_gate.rs.  Route maintenance, for any  *)
(* number of destinations and of replacements; the batch cycles, for a route *)
(* of any number of destinations: in whichever way a cycle looks up the      *)
(* destination of an update, every update lands.                             *)
EXTENDS PacketGateRoute, PacketGateBatch, FiniteSetTheorems, TLAPS

-----------------------------------------------------------------------------
(* Route maintenance. *)

\* Every destination in the route was made before the next one will be.
Joined == \A p \in RoutePositions : destinations[p] < next_destination_index

\* No destination is in the route twice, whatever cycles are mixed.
DestinationsDistinct ==
    \A p, q \in RoutePositions : destinations[p] = destinations[q] => p = q

RouteInv ==
    /\ TypeOK
    /\ Joined
    /\ DestinationsDistinct
    /\ IndexExact
    /\ JoinOrderKept

-----------------------------------------------------------------------------
(* The two ways of removing from a Vec, at any position.                     *)

LEMMA PositionsFacts ==
    /\ LastPos \in RoutePositions
    /\ RoutePositions \subseteq Int
    /\ Absent \notin RoutePositions
    /\ \A p \in RoutePositions : p <= LastPos /\ 0 <= p /\ (p # LastPos => p + 1 \in RoutePositions)
BY ConstantsAssumption DEF RoutePositions, LastPos

LEMMA FreshFacts ==
    ASSUME RouteInv, PushFresh
    PROVE  /\ next_destination_index \in Media /\ next_destination_index \in Int
           /\ next_destination_index' \in DestinationCount .. MaxIndex + 1
           /\ \A p \in RoutePositions : destinations[p] \in Media
           /\ \A p \in RoutePositions : destinations[p] < next_destination_index
BY ConstantsAssumption DEF RouteInv, PushFresh, TypeOK, Joined, Media

LEMMA RemoveFacts ==
    ASSUME RouteInv, PushFresh, NEW position \in RoutePositions
    PROVE  LET new == RemoveAndPush(position) IN
           /\ new \in [RoutePositions -> Media]
           /\ \A p \in RoutePositions : new[p] < next_destination_index + 1
           /\ \A p, q \in RoutePositions : new[p] = new[q] => p = q
           /\ "swap" \notin usage =>
                  \A p, q \in RoutePositions : p < q => new[p] < new[q]
<1> DEFINE new == RemoveAndPush(position)
<1>1. \A p \in RoutePositions :
          \/ p < position /\ new[p] = destinations[p]
          \/ /\ p >= position /\ p < LastPos /\ p + 1 \in RoutePositions
             /\ new[p] = destinations[p + 1]
          \/ p = LastPos /\ new[p] = next_destination_index
    BY PositionsFacts DEF RemoveAndPush
<1>2. new = [p \in RoutePositions |-> new[p]]
    BY DEF RemoveAndPush
<1> HIDE DEF new
<1>3. \A p \in RoutePositions : new[p] \in Media /\ new[p] < next_destination_index + 1
    BY <1>1, FreshFacts DEF Media
<1>4. \A p, q \in RoutePositions : new[p] = new[q] => p = q
    <2> SUFFICES ASSUME NEW p \in RoutePositions, NEW q \in RoutePositions, new[p] = new[q]
                 PROVE  p = q
        OBVIOUS
    <2>1. \A r, s \in RoutePositions : destinations[r] = destinations[s] => r = s
        BY DEF RouteInv, DestinationsDistinct
    <2> QED
        BY <1>1, <2>1, FreshFacts, PositionsFacts
<1>5. ASSUME "swap" \notin usage, NEW p \in RoutePositions, NEW q \in RoutePositions, p < q
      PROVE  new[p] < new[q]
    <2>1. \A r, s \in RoutePositions : r < s => destinations[r] < destinations[s]
        BY <1>5 DEF RouteInv, JoinOrderKept
    <2> QED
        BY <1>1, <1>5, <2>1, FreshFacts, PositionsFacts
<1>6. new \in [RoutePositions -> Media]
    BY <1>2, <1>3
<1> QED
    BY <1>3, <1>4, <1>5, <1>6 DEF new

LEMMA SwapFacts ==
    ASSUME RouteInv, PushFresh, NEW position \in RoutePositions
    PROVE  LET new == SwapRemoveAndPush(position) IN
           /\ new \in [RoutePositions -> Media]
           /\ \A p \in RoutePositions : new[p] = IF p = LastPos THEN next_destination_index
                                            ELSE IF p = position THEN destinations[LastPos]
                                            ELSE destinations[p]
           /\ \A p \in RoutePositions : new[p] < next_destination_index + 1
           /\ \A p, q \in RoutePositions : new[p] = new[q] => p = q
<1> DEFINE new == SwapRemoveAndPush(position)
<1>1. new \in [RoutePositions -> Media]
    BY FreshFacts, PositionsFacts DEF SwapRemoveAndPush, RouteInv, TypeOK
<1>2. \A p \in RoutePositions : new[p] = IF p = LastPos THEN next_destination_index
                                    ELSE IF p = position THEN destinations[LastPos]
                                    ELSE destinations[p]
    BY PositionsFacts DEF SwapRemoveAndPush, RouteInv, TypeOK
<1> HIDE DEF new
<1>3. \A p \in RoutePositions : new[p] < next_destination_index + 1
    BY <1>2, FreshFacts, PositionsFacts DEF Media
<1>4. \A p, q \in RoutePositions : new[p] = new[q] => p = q
    <2>1. \A r, s \in RoutePositions : destinations[r] = destinations[s] => r = s
        BY DEF RouteInv, DestinationsDistinct
    <2> QED
        BY <1>2, <2>1, FreshFacts, PositionsFacts DEF Media
<1> QED
    BY <1>1, <1>2, <1>3, <1>4 DEF new

\* While the map is exact, it knows the target and where it is.
LEMMA TargetFacts ==
    ASSUME RouteInv
    PROVE  /\ removal_cursor \in RoutePositions /\ Target \in Media
           /\ destinations[removal_cursor] = Target
           /\ media_id_index[Target] \in RoutePositions \cup {Absent}
           /\ "linear" \notin usage => media_id_index[Target] = removal_cursor
BY DEF RouteInv, TypeOK, Target, IndexExact

LEMMA CursorFacts ==
    ASSUME RouteInv, AdvanceCursor
    PROVE  removal_cursor' \in RoutePositions
BY PositionsFacts DEF RouteInv, TypeOK, AdvanceCursor, RoutePositions, LastPos

-----------------------------------------------------------------------------

LEMMA RouteInvInit == RouteInit => RouteInv
<1> SUFFICES ASSUME RouteInit PROVE RouteInv
    OBVIOUS
<1>1. TypeOK
    BY ConstantsAssumption DEF RouteInit, TypeOK, RoutePositions, Media
<1>2. Joined /\ DestinationsDistinct /\ JoinOrderKept
    BY ConstantsAssumption DEF RouteInit, Joined, DestinationsDistinct, JoinOrderKept, RoutePositions
<1>3. IndexExact
    BY ConstantsAssumption DEF RouteInit, IndexExact, RoutePositions, Media
<1> QED
    BY <1>1, <1>2, <1>3 DEF RouteInv

LEMMA LinearStep == RouteInv /\ CurrentLinearRemoveAdd => RouteInv'
<1> SUFFICES ASSUME RouteInv, CurrentLinearRemoveAdd PROVE RouteInv'
    OBVIOUS
<1>1. PICK position \in RoutePositions :
          destinations[position] = Target /\ destinations' = RemoveAndPush(position)
    BY DEF CurrentLinearRemoveAdd
<1>2. /\ PushFresh /\ AdvanceCursor /\ "linear" \in usage
      /\ usage' = usage /\ media_id_index' = media_id_index
      /\ next_destination_index' = next_destination_index + 1
    BY DEF CurrentLinearRemoveAdd, PushFresh
<1>3. TypeOK'
    BY <1>1, <1>2, RemoveFacts, FreshFacts, CursorFacts DEF RouteInv, TypeOK
<1>4. Joined' /\ DestinationsDistinct' /\ JoinOrderKept'
    BY <1>1, <1>2, RemoveFacts DEF Joined, DestinationsDistinct, JoinOrderKept
<1>5. IndexExact'
    BY <1>2 DEF IndexExact
<1> QED
    BY <1>3, <1>4, <1>5 DEF RouteInv

LEMMA SwapStep == RouteInv /\ MediaIdIndexedSwapRemoveAdd => RouteInv'
<1> SUFFICES ASSUME RouteInv, MediaIdIndexedSwapRemoveAdd PROVE RouteInv'
    OBVIOUS
<1> DEFINE position == media_id_index[Target]
           moved    == SwapRemoveAndPush(position)
<1>1. /\ PushFresh /\ AdvanceCursor /\ "swap" \in usage /\ position # Absent
      /\ usage' = usage /\ destinations' = moved
      /\ next_destination_index' = next_destination_index + 1
      /\ media_id_index' = [m \in Media |->
               IF m = next_destination_index THEN LastPos
               ELSE IF position < LastPos /\ m = moved[position] THEN position
               ELSE IF m = Target THEN Absent
               ELSE media_id_index[m]]
    BY DEF MediaIdIndexedSwapRemoveAdd, PushFresh
<1>2. position \in RoutePositions
    BY <1>1, TargetFacts
<1>3. /\ moved \in [RoutePositions -> Media]
      /\ \A p \in RoutePositions : moved[p] = IF p = LastPos THEN next_destination_index
                                          ELSE IF p = position THEN destinations[LastPos]
                                          ELSE destinations[p]
      /\ \A p \in RoutePositions : moved[p] < next_destination_index + 1
      /\ \A p, q \in RoutePositions : moved[p] = moved[q] => p = q
    BY <1>1, <1>2, SwapFacts
<1> HIDE DEF moved, position
<1>4. media_id_index' \in [Media -> RoutePositions \cup {Absent}]
    BY <1>1, <1>2, PositionsFacts DEF RouteInv, TypeOK
<1>5. TypeOK'
    BY <1>1, <1>3, <1>4, FreshFacts, CursorFacts DEF RouteInv, TypeOK
<1>6. Joined' /\ DestinationsDistinct' /\ JoinOrderKept'
    BY <1>1, <1>3 DEF Joined, DestinationsDistinct, JoinOrderKept
<1>7. IndexExact'
    <2> SUFFICES ASSUME "linear" \notin usage, NEW m \in Media, NEW p \in RoutePositions
                 PROVE  media_id_index'[m] = p <=> moved[p] = m
        BY <1>1 DEF IndexExact
    <2>1. \A l \in Media, q \in RoutePositions : media_id_index[l] = q <=> destinations[q] = l
        BY DEF RouteInv, IndexExact
    <2>2. destinations[position] = Target
        BY <1>2, <2>1, TargetFacts DEF position
    <2>3. \A r, s \in RoutePositions : destinations[r] = destinations[s] => r = s
        BY DEF RouteInv, DestinationsDistinct
    <2>4. CASE m = next_destination_index
        <3>1. media_id_index'[m] = LastPos
            BY <1>1, <2>4
        <3> QED
            BY <1>1, <1>3, <2>4, <3>1, FreshFacts, PositionsFacts
    <2>5. CASE m # next_destination_index /\ position < LastPos /\ m = moved[position]
        <3>1. media_id_index'[m] = position
            BY <1>1, <2>5
        <3> QED
            BY <1>2, <1>3, <2>5, <3>1
    <2>6. CASE /\ m # next_destination_index /\ ~(position < LastPos /\ m = moved[position])
               /\ m = Target
        <3>1. media_id_index'[m] = Absent
            BY <1>1, <2>6
        <3>2. moved[p] # m
            BY <1>2, <1>3, <2>2, <2>3, <2>6, PositionsFacts
        <3> QED
            BY <3>1, <3>2, PositionsFacts
    <2>7. CASE /\ m # next_destination_index /\ ~(position < LastPos /\ m = moved[position])
               /\ m # Target
        <3>1. media_id_index'[m] = media_id_index[m]
            BY <1>1, <2>7
        <3>2. destinations[p] = m <=> moved[p] = m
            BY <1>2, <1>3, <2>2, <2>3, <2>7, PositionsFacts
        <3> QED
            BY <2>1, <3>1, <3>2
    <2> QED
        BY <2>4, <2>5, <2>6, <2>7
<1> QED
    BY <1>5, <1>6, <1>7 DEF RouteInv

LEMMA StableStep == RouteInv /\ MediaIdIndexedStableRemoveAdd => RouteInv'
<1> SUFFICES ASSUME RouteInv, MediaIdIndexedStableRemoveAdd PROVE RouteInv'
    OBVIOUS
<1> DEFINE position == media_id_index[Target]
           shifted  == RemoveAndPush(position)
<1>1. /\ PushFresh /\ AdvanceCursor /\ "stable" \in usage /\ position # Absent
      /\ usage' = usage /\ destinations' = shifted
      /\ next_destination_index' = next_destination_index + 1
      /\ media_id_index' = [m \in Media |->
               IF \E p \in position .. LastPos : shifted[p] = m
               THEN CHOOSE p \in position .. LastPos : shifted[p] = m
               ELSE IF m = Target THEN Absent
               ELSE media_id_index[m]]
    BY DEF MediaIdIndexedStableRemoveAdd, PushFresh
<1>2. position \in RoutePositions /\ position .. LastPos \subseteq RoutePositions
    BY <1>1, TargetFacts, ConstantsAssumption DEF RoutePositions, LastPos
<1>3. /\ shifted \in [RoutePositions -> Media]
      /\ \A p \in RoutePositions : shifted[p] < next_destination_index + 1
      /\ \A p, q \in RoutePositions : shifted[p] = shifted[q] => p = q
      /\ "swap" \notin usage =>
             \A p, q \in RoutePositions : p < q => shifted[p] < shifted[q]
    BY <1>1, <1>2, RemoveFacts
<1> HIDE DEF position
<1>4. \A p \in RoutePositions :
          \/ p < position /\ shifted[p] = destinations[p]
          \/ /\ p >= position /\ p < LastPos /\ p + 1 \in RoutePositions
             /\ shifted[p] = destinations[p + 1]
          \/ p = LastPos /\ shifted[p] = next_destination_index
    BY PositionsFacts, <1>2 DEF RemoveAndPush
<1> HIDE DEF shifted
<1>5. ASSUME NEW m \in Media, NEW q \in position .. LastPos, shifted[q] = m
      PROVE  media_id_index'[m] = q
    BY <1>1, <1>2, <1>3, <1>5
<1>6. ASSUME NEW m \in Media, \A q \in position .. LastPos : shifted[q] # m
      PROVE  media_id_index'[m] = IF m = Target THEN Absent ELSE media_id_index[m]
    BY <1>1, <1>6
<1>7. media_id_index' \in [Media -> RoutePositions \cup {Absent}]
    <2>1. \A m \in Media : media_id_index'[m] \in RoutePositions \cup {Absent}
        BY <1>2, <1>5, <1>6 DEF RouteInv, TypeOK
    <2> QED
        BY <1>1, <2>1
<1>8. TypeOK'
    BY <1>1, <1>3, <1>7, FreshFacts, CursorFacts DEF RouteInv, TypeOK
<1>9. Joined' /\ DestinationsDistinct' /\ JoinOrderKept'
    BY <1>1, <1>3 DEF Joined, DestinationsDistinct, JoinOrderKept
<1>10. IndexExact'
    <2> SUFFICES ASSUME "linear" \notin usage, NEW m \in Media, NEW p \in RoutePositions
                 PROVE  media_id_index'[m] = p <=> shifted[p] = m
        BY <1>1 DEF IndexExact
    <2>1. \A l \in Media, q \in RoutePositions : media_id_index[l] = q <=> destinations[q] = l
        BY DEF RouteInv, IndexExact
    <2>2. destinations[position] = Target
        BY <1>2, <2>1, TargetFacts DEF position
    <2>3. \A r, s \in RoutePositions : destinations[r] = destinations[s] => r = s
        BY DEF RouteInv, DestinationsDistinct
    <2>4. CASE \E q \in position .. LastPos : shifted[q] = m
        BY <1>2, <1>3, <1>5, <2>4
    <2>5. CASE \A q \in position .. LastPos : shifted[q] # m
        <3>1. p < position \/ p \in position .. LastPos
            BY <1>2, PositionsFacts
        <3>2. shifted[p] = m <=> p < position /\ destinations[p] = m
            BY <1>2, <1>4, <2>5, <3>1, PositionsFacts
        <3>3. p > position => destinations[p] # m
            <4> SUFFICES ASSUME p > position PROVE destinations[p] # m
                OBVIOUS
            <4>1. p - 1 \in position .. LastPos /\ p - 1 \in RoutePositions /\ p - 1 < LastPos
                BY <1>2, PositionsFacts
            <4>2. shifted[p - 1] = destinations[p]
                BY <1>2, <1>4, <4>1, PositionsFacts
            <4> QED
                BY <2>5, <4>1, <4>2
        <3>4. CASE m = Target
            <4>1. media_id_index'[m] = Absent
                BY <1>6, <2>5, <3>4
            <4>2. destinations[p] = m => p = position
                BY <1>2, <2>2, <2>3, <3>4
            <4> QED
                BY <1>2, <3>2, <4>1, <4>2, PositionsFacts
        <3>5. CASE m # Target
            <4>1. media_id_index'[m] = media_id_index[m]
                BY <1>6, <2>5, <3>5
            <4> QED
                BY <1>2, <2>1, <2>2, <3>2, <3>3, <3>5, <4>1, PositionsFacts
        <3> QED
            BY <3>4, <3>5
    <2> QED
        BY <2>4, <2>5
<1> QED
    BY <1>8, <1>9, <1>10 DEF RouteInv

LEMMA RouteInvStep == RouteInv /\ [RouteNext]_routeVars => RouteInv'
<1> SUFFICES ASSUME RouteInv, [RouteNext]_routeVars PROVE RouteInv'
    OBVIOUS
<1>1. CASE TargetNotIndexed
    BY <1>1, CursorFacts DEF TargetNotIndexed, RouteInv, TypeOK, Joined,
                             DestinationsDistinct, IndexExact, JoinOrderKept
<1>2. CASE UNCHANGED routeVars
    BY <1>2 DEF routeVars, RouteInv, TypeOK, Joined, DestinationsDistinct, IndexExact, JoinOrderKept
<1> QED
    BY <1>1, <1>2, LinearStep, SwapStep, StableStep DEF RouteNext, BoundReached

\* Positions in the map stay inside the Vec in every use of the fixture.
THEOREM TypeCorrect == RouteSpec => []TypeOK
<1>1. RouteInv => TypeOK
    BY DEF RouteInv
<1> QED
    BY <1>1, RouteInvInit, RouteInvStep, PTL DEF RouteSpec

\* The map stays the inverse of the Vec until the linear cycle is called.
THEOREM IndexCorrect == RouteSpec => []IndexExact
<1>1. RouteInv => IndexExact
    BY DEF RouteInv
<1> QED
    BY <1>1, RouteInvInit, RouteInvStep, PTL DEF RouteSpec

\* Only swap_remove disturbs the order in which destinations joined.
THEOREM OrderCorrect == RouteSpec => []JoinOrderKept
<1>1. RouteInv => JoinOrderKept
    BY DEF RouteInv
<1> QED
    BY <1>1, RouteInvInit, RouteInvStep, PTL DEF RouteSpec

-----------------------------------------------------------------------------
(* Which destination leaves. *)

LEMMA RemoveRoute ==
    ASSUME RouteInv, PushFresh, NEW position \in RoutePositions,
           destinations' = RemoveAndPush(position)
    PROVE  Route' = (Route \ {destinations[position]}) \cup {next_destination_index}
<1>1. \A p \in RoutePositions :
          \/ p < position /\ destinations'[p] = destinations[p]
          \/ /\ p >= position /\ p < LastPos /\ p + 1 \in RoutePositions
             /\ destinations'[p] = destinations[p + 1]
          \/ p = LastPos /\ destinations'[p] = next_destination_index
    BY PositionsFacts DEF RemoveAndPush
<1>2. \A r, s \in RoutePositions : destinations[r] = destinations[s] => r = s
    BY DEF RouteInv, DestinationsDistinct
<1>3. \A p \in RoutePositions : destinations'[p] \in (Route \ {destinations[position]}) \cup {next_destination_index}
    BY <1>1, <1>2, PositionsFacts DEF Route
<1>4. destinations'[LastPos] = next_destination_index /\ LastPos \in RoutePositions
    BY PositionsFacts DEF RemoveAndPush
<1>5. ASSUME NEW p \in RoutePositions, destinations[p] # destinations[position]
      PROVE  \E q \in RoutePositions : destinations'[q] = destinations[p]
    <2>1. CASE p < position
        <3>1. destinations'[p] = destinations[p]
            BY <1>1, <2>1, PositionsFacts
        <3> QED
            BY <3>1
    <2>2. CASE p > position
        <3>1. p - 1 \in RoutePositions /\ p - 1 >= position /\ p - 1 < LastPos
            BY <2>2, PositionsFacts DEF RoutePositions, LastPos
        <3>2. destinations'[p - 1] = destinations[p]
            BY <1>1, <3>1, PositionsFacts
        <3> QED
            BY <3>1, <3>2
    <2>3. p # position
        BY <1>5
    <2>4. p \in Int /\ position \in Int
        BY PositionsFacts
    <2>5. p < position \/ p > position
        BY <2>3, <2>4
    <2> QED
        BY <2>1, <2>2, <2>5
<1>6. Route' = {destinations'[p] : p \in RoutePositions}
    BY DEF Route
<1> QED
    BY <1>3, <1>4, <1>5, <1>6 DEF Route

LEMMA SwapRoute ==
    ASSUME RouteInv, PushFresh, NEW position \in RoutePositions,
           destinations' = SwapRemoveAndPush(position)
    PROVE  Route' = (Route \ {destinations[position]}) \cup {next_destination_index}
<1>1. \A p \in RoutePositions : destinations'[p] = IF p = LastPos THEN next_destination_index
                                             ELSE IF p = position THEN destinations[LastPos]
                                             ELSE destinations[p]
    BY SwapFacts
<1>2. \A r, s \in RoutePositions : destinations[r] = destinations[s] => r = s
    BY DEF RouteInv, DestinationsDistinct
<1>3. \A p \in RoutePositions : destinations'[p] \in (Route \ {destinations[position]}) \cup {next_destination_index}
    BY <1>1, <1>2, PositionsFacts DEF Route
<1>4. destinations'[LastPos] = next_destination_index /\ LastPos \in RoutePositions
    BY <1>1, PositionsFacts
<1>5. ASSUME NEW p \in RoutePositions, destinations[p] # destinations[position]
      PROVE  \E q \in RoutePositions : destinations'[q] = destinations[p]
    <2>1. CASE p # LastPos
        BY <1>1, <1>5, <2>1
    <2>2. CASE p = LastPos
        BY <1>1, <1>5, <2>2
    <2> QED
        BY <2>1, <2>2
<1>6. Route' = {destinations'[p] : p \in RoutePositions}
    BY DEF Route
<1> QED
    BY <1>3, <1>4, <1>5, <1>6 DEF Route

\* A caller that does not mix the linear cycle with the others always gets the
\* destination under the cursor replaced, and no other.
THEOREM TargetCorrect == RouteSpec => TargetReplaced
<1>1. RouteInv /\ [RouteNext]_routeVars
          => [Unmixed => Route' = (Route \ {Target}) \cup {next_destination_index}]_routeVars
    <2> SUFFICES ASSUME RouteInv, RouteNext, Unmixed, ~UNCHANGED routeVars
                 PROVE  Route' = (Route \ {Target}) \cup {next_destination_index}
        OBVIOUS
    <2>2. CASE CurrentLinearRemoveAdd
        BY <2>2, RemoveRoute DEF CurrentLinearRemoveAdd
    <2>3. CASE usage \cap {"swap", "stable"} # {}
        <3>1. "linear" \notin usage
            BY <2>3 DEF Unmixed
        <3>2. /\ media_id_index[Target] \in RoutePositions
              /\ media_id_index[Target] # Absent
              /\ destinations[media_id_index[Target]] = Target
            BY <3>1, TargetFacts, PositionsFacts
        <3>3. CASE MediaIdIndexedSwapRemoveAdd
            BY <3>2, <3>3, SwapRoute DEF MediaIdIndexedSwapRemoveAdd
        <3>4. CASE MediaIdIndexedStableRemoveAdd
            BY <3>2, <3>4, RemoveRoute DEF MediaIdIndexedStableRemoveAdd
        <3>5. ~TargetNotIndexed
            BY <3>2 DEF TargetNotIndexed
        <3> QED
            BY <2>2, <3>3, <3>4, <3>5 DEF RouteNext, BoundReached
    <2> QED
        BY <2>2, <2>3 DEF RouteNext, MediaIdIndexedSwapRemoveAdd, MediaIdIndexedStableRemoveAdd,
                          TargetNotIndexed, BoundReached
<1> QED
    BY <1>1, RouteInvInit, RouteInvStep, PTL DEF RouteSpec, TargetReplaced

-----------------------------------------------------------------------------
(* What is left of the map when cycles are mixed. *)

\* The linear cycle moves destinations forward and leaves their entries behind.
NotTooLow ==
    \A p \in RoutePositions :
        media_id_index[destinations[p]] = Absent \/ media_id_index[destinations[p]] >= p

\* The map does not know a destination that is not made yet.
NotEntered ==
    \A m \in Media : m >= next_destination_index => media_id_index[m] = Absent

StaleInv == RouteInv /\ NotTooLow /\ NotEntered

\* The position an indexed cycle finds is the cursor or a later one.
LEMMA FoundFacts ==
    ASSUME StaleInv, media_id_index[Target] # Absent
    PROVE  /\ media_id_index[Target] \in RoutePositions
           /\ media_id_index[Target] \in removal_cursor .. LastPos
<1>1. removal_cursor \in RoutePositions /\ destinations[removal_cursor] = Target
    BY TargetFacts DEF StaleInv
<1>2. media_id_index[Target] >= removal_cursor
    BY <1>1 DEF StaleInv, NotTooLow
<1>3. media_id_index[Target] \in RoutePositions
    BY TargetFacts DEF StaleInv
<1> DEFINE position == media_id_index[Target]
<1>4. position >= removal_cursor /\ position \in RoutePositions
    BY <1>2, <1>3
<1> HIDE DEF position
<1>5. position \in removal_cursor .. LastPos
    BY <1>1, <1>4, PositionsFacts
<1> QED
    BY <1>4, <1>5 DEF position

LEMMA StaleInvInit == RouteInit => StaleInv
<1> SUFFICES ASSUME RouteInit PROVE NotTooLow /\ NotEntered
    BY RouteInvInit DEF StaleInv
<1>1. \A p \in RoutePositions : p \in Media /\ p < DestinationCount /\ destinations[p] = p
    BY ConstantsAssumption DEF RouteInit, RoutePositions, Media
<1>2. \A m \in Media : media_id_index[m] = IF m < DestinationCount THEN m ELSE Absent
    BY DEF RouteInit
<1>3. NotTooLow
    BY <1>1, <1>2, PositionsFacts DEF NotTooLow
<1>4. NotEntered
    BY <1>2, ConstantsAssumption DEF NotEntered, RouteInit, Media
<1> QED
    BY <1>3, <1>4

\* Every destination but the fresh one stays where it is or moves forward.
LEMMA StaleLinear ==
    ASSUME StaleInv, CurrentLinearRemoveAdd PROVE NotTooLow' /\ NotEntered'
<1>1. PICK position \in RoutePositions : destinations' = RemoveAndPush(position)
    BY DEF CurrentLinearRemoveAdd
<1>2. /\ PushFresh /\ RouteInv /\ media_id_index' = media_id_index
      /\ next_destination_index' = next_destination_index + 1
    BY DEF CurrentLinearRemoveAdd, PushFresh, StaleInv
<1>3. \A p \in RoutePositions :
          \/ destinations'[p] = destinations[p]
          \/ p + 1 \in RoutePositions /\ destinations'[p] = destinations[p + 1]
          \/ destinations'[p] = next_destination_index
    BY <1>1, PositionsFacts DEF RemoveAndPush
<1>4. media_id_index[next_destination_index] = Absent
    BY <1>2, FreshFacts DEF StaleInv, NotEntered
<1>5. \A p \in RoutePositions : /\ destinations[p] \in Media
                               /\ media_id_index[destinations[p]] \in RoutePositions \cup {Absent}
    BY <1>2 DEF RouteInv, TypeOK
<1>6. ASSUME NEW p \in RoutePositions
      PROVE  media_id_index[destinations'[p]] = Absent \/ media_id_index[destinations'[p]] >= p
    <2>1. CASE destinations'[p] = destinations[p]
        BY <2>1 DEF StaleInv, NotTooLow
    <2>2. CASE p + 1 \in RoutePositions /\ destinations'[p] = destinations[p + 1]
        <3> DEFINE entry == media_id_index[destinations'[p]]
        <3>1. entry = Absent \/ entry >= p + 1
            BY <2>2 DEF StaleInv, NotTooLow
        <3>2. entry \in RoutePositions \cup {Absent}
            BY <1>5, <2>2
        <3> HIDE DEF entry
        <3>3. entry = Absent \/ entry >= p
            BY <3>1, <3>2, PositionsFacts
        <3> QED
            BY <3>3 DEF entry
    <2>3. CASE destinations'[p] = next_destination_index
        BY <1>4, <2>3
    <2> QED
        BY <1>3, <2>1, <2>2, <2>3
<1>7. NotTooLow'
    BY <1>2, <1>6 DEF NotTooLow
<1>8. NotEntered'
    BY <1>2, FreshFacts DEF StaleInv, NotEntered, Media
<1> QED
    BY <1>7, <1>8

\* The destination that fills the gap gets the position of the gap.
LEMMA StaleSwap ==
    ASSUME StaleInv, MediaIdIndexedSwapRemoveAdd PROVE NotTooLow' /\ NotEntered'
<1> DEFINE position == media_id_index[Target]
           moved    == SwapRemoveAndPush(position)
<1>1. /\ PushFresh /\ RouteInv /\ position # Absent /\ destinations' = moved
      /\ next_destination_index' = next_destination_index + 1
      /\ media_id_index' = [m \in Media |->
               IF m = next_destination_index THEN LastPos
               ELSE IF position < LastPos /\ m = moved[position] THEN position
               ELSE IF m = Target THEN Absent
               ELSE media_id_index[m]]
    BY DEF MediaIdIndexedSwapRemoveAdd, PushFresh, StaleInv
<1>2. position \in RoutePositions
    BY <1>1, FoundFacts
<1>3. /\ moved \in [RoutePositions -> Media]
      /\ \A p \in RoutePositions : moved[p] = IF p = LastPos THEN next_destination_index
                                          ELSE IF p = position THEN destinations[LastPos]
                                          ELSE destinations[p]
    BY <1>1, <1>2, SwapFacts
<1> HIDE DEF moved, position
<1>4. \A p \in RoutePositions : media_id_index[destinations[p]] = Absent
                               \/ media_id_index[destinations[p]] >= p
    BY DEF StaleInv, NotTooLow
<1>5. ASSUME NEW p \in RoutePositions
      PROVE  media_id_index'[moved[p]] = Absent \/ media_id_index'[moved[p]] >= p
    <2>1. moved[p] \in Media
        BY <1>3
    <2>2. CASE p = LastPos
        BY <1>1, <1>3, <2>1, <2>2, PositionsFacts
    <2>3. CASE p # LastPos /\ p = position
        <3>1. position < LastPos
            BY <1>2, <2>3, PositionsFacts
        <3>2. media_id_index'[moved[p]] \in {LastPos, position}
            BY <1>1, <2>1, <2>3, <3>1
        <3> QED
            BY <2>3, <3>1, <3>2, PositionsFacts
    <2>4. CASE p # LastPos /\ p # position
        <3>1. moved[p] = destinations[p]
            BY <1>3, <2>4
        <3>2. moved[p] # moved[position]
            BY <1>1, <1>2, <2>4, SwapFacts DEF moved
        <3>3. media_id_index'[moved[p]] \in {LastPos, Absent, media_id_index[moved[p]]}
            BY <1>1, <2>1, <3>2
        <3> QED
            BY <1>4, <3>1, <3>3, PositionsFacts
    <2> QED
        BY <2>2, <2>3, <2>4
<1>6. NotTooLow'
    BY <1>1, <1>5 DEF NotTooLow
<1>7. NotEntered'
    <2>1. moved[position] < next_destination_index + 1
        BY <1>1, <1>2, SwapFacts DEF moved
    <2> SUFFICES ASSUME NEW m \in Media, m >= next_destination_index + 1
                 PROVE  media_id_index'[m] = Absent
        BY <1>1 DEF NotEntered
    <2>2. m # next_destination_index /\ m # moved[position] /\ m >= next_destination_index
        BY <1>1, <1>2, <1>3, <2>1, FreshFacts DEF Media
    <2> QED
        BY <1>1, <2>2 DEF StaleInv, NotEntered
<1> QED
    BY <1>6, <1>7

\* From the gap on the map is exact again, before it nothing moves.
LEMMA StaleStable ==
    ASSUME StaleInv, MediaIdIndexedStableRemoveAdd PROVE NotTooLow' /\ NotEntered'
<1> DEFINE position == media_id_index[Target]
           shifted  == RemoveAndPush(position)
<1>1. /\ PushFresh /\ RouteInv /\ position # Absent /\ destinations' = shifted
      /\ next_destination_index' = next_destination_index + 1
      /\ media_id_index' = [m \in Media |->
               IF \E p \in position .. LastPos : shifted[p] = m
               THEN CHOOSE p \in position .. LastPos : shifted[p] = m
               ELSE IF m = Target THEN Absent
               ELSE media_id_index[m]]
    BY DEF MediaIdIndexedStableRemoveAdd, PushFresh, StaleInv
<1>2. position \in RoutePositions /\ position .. LastPos \subseteq RoutePositions
    BY <1>1, FoundFacts, ConstantsAssumption DEF RoutePositions, LastPos
<1>3. /\ shifted \in [RoutePositions -> Media]
      /\ \A p \in RoutePositions : shifted[p] < next_destination_index + 1
      /\ \A p, q \in RoutePositions : shifted[p] = shifted[q] => p = q
    BY <1>1, <1>2, RemoveFacts
<1>4. \A p \in RoutePositions : p < position => shifted[p] = destinations[p]
    BY DEF RemoveAndPush
<1> HIDE DEF position, shifted
<1>5. \A p \in RoutePositions : media_id_index[destinations[p]] = Absent
                               \/ media_id_index[destinations[p]] >= p
    BY DEF StaleInv, NotTooLow
<1>6. ASSUME NEW p \in RoutePositions
      PROVE  media_id_index'[shifted[p]] = Absent \/ media_id_index'[shifted[p]] >= p
    <2>1. shifted[p] \in Media
        BY <1>3
    <2>2. p < position \/ p \in position .. LastPos
        BY <1>2, PositionsFacts
    <2>3. CASE p \in position .. LastPos
        <3>1. \A q \in position .. LastPos : shifted[q] = shifted[p] <=> q = p
            BY <1>2, <1>3
        <3>2. media_id_index'[shifted[p]] = CHOOSE q \in position .. LastPos : shifted[q] = shifted[p]
            BY <1>1, <2>1, <2>3
        <3>3. media_id_index'[shifted[p]] = p
            BY <2>3, <3>1, <3>2
        <3> QED
            BY <3>3, PositionsFacts
    <2>4. CASE p < position
        <3>1. \A q \in position .. LastPos : shifted[q] # shifted[p]
            BY <1>2, <1>3, <2>4, PositionsFacts
        <3>2. media_id_index'[shifted[p]] \in {Absent, media_id_index[shifted[p]]}
            BY <1>1, <2>1, <3>1
        <3> QED
            BY <1>4, <1>5, <2>4, <3>2
    <2> QED
        BY <2>2, <2>3, <2>4
<1>7. NotTooLow'
    BY <1>1, <1>6 DEF NotTooLow
<1>8. NotEntered'
    <2> SUFFICES ASSUME NEW m \in Media, m >= next_destination_index + 1
                 PROVE  media_id_index'[m] = Absent
        BY <1>1 DEF NotEntered
    <2>1. \A p \in position .. LastPos : shifted[p] # m
        BY <1>1, <1>2, <1>3, FreshFacts DEF Media
    <2>2. media_id_index[m] = Absent
        BY <1>1, FreshFacts DEF StaleInv, NotEntered, Media
    <2> QED
        BY <1>1, <2>1, <2>2
<1> QED
    BY <1>7, <1>8

LEMMA StaleInvStep == StaleInv /\ [RouteNext]_routeVars => StaleInv'
<1> SUFFICES ASSUME StaleInv, [RouteNext]_routeVars PROVE NotTooLow' /\ NotEntered'
    BY RouteInvStep DEF StaleInv
<1>1. CASE TargetNotIndexed
    BY <1>1 DEF TargetNotIndexed, StaleInv, NotTooLow, NotEntered
<1>2. CASE UNCHANGED routeVars
    BY <1>2 DEF routeVars, StaleInv, NotTooLow, NotEntered
<1> QED
    BY <1>1, <1>2, StaleLinear, StaleSwap, StaleStable DEF RouteNext, BoundReached

\* In every use of the fixture, mixed ones included, a cycle removes at most one
\* destination, and none that stands before the cursor.
THEOREM EarlierCorrect == RouteSpec => EarlierKept
<1> DEFINE OneOut ==
        \E position \in removal_cursor .. LastPos :
            /\ Route' = (Route \ {destinations[position]}) \cup {next_destination_index}
            /\ \A p \in RoutePositions : p < position => destinations'[p] = destinations[p]
<1>1. StaleInv /\ [RouteNext]_routeVars => [destinations' # destinations => OneOut]_routeVars
    <2> SUFFICES ASSUME StaleInv, RouteNext, destinations' # destinations PROVE OneOut
        OBVIOUS
    <2>1. RouteInv
        BY DEF StaleInv
    <2>2. CASE CurrentLinearRemoveAdd
        <3>1. PushFresh
            BY <2>2 DEF CurrentLinearRemoveAdd
        <3>2. PICK position \in RoutePositions :
                  destinations[position] = Target /\ destinations' = RemoveAndPush(position)
            BY <2>2 DEF CurrentLinearRemoveAdd
        <3>3. position = removal_cursor
            BY <2>1, <3>2, TargetFacts DEF RouteInv, DestinationsDistinct
        <3>4. Route' = (Route \ {destinations[position]}) \cup {next_destination_index}
            BY <2>1, <3>1, <3>2, RemoveRoute
        <3>5. \A p \in RoutePositions : p < position => destinations'[p] = destinations[p]
            BY <3>2 DEF RemoveAndPush
        <3>6. position \in removal_cursor .. LastPos
            BY <3>2, <3>3, PositionsFacts
        <3> QED
            BY <3>4, <3>5, <3>6
    <2>3. CASE MediaIdIndexedSwapRemoveAdd
        <3> DEFINE position == media_id_index[Target]
        <3>1. PushFresh /\ position # Absent /\ destinations' = SwapRemoveAndPush(position)
            BY <2>3 DEF MediaIdIndexedSwapRemoveAdd
        <3>2. position \in RoutePositions /\ position \in removal_cursor .. LastPos
            BY <3>1, FoundFacts
        <3> HIDE DEF position
        <3>3. Route' = (Route \ {destinations[position]}) \cup {next_destination_index}
            BY <2>1, <3>1, <3>2, SwapRoute
        <3>4. \A p \in RoutePositions : p < position => destinations'[p] = destinations[p]
            BY <2>1, <3>1, <3>2, SwapFacts, PositionsFacts
        <3> QED
            BY <3>2, <3>3, <3>4
    <2>4. CASE MediaIdIndexedStableRemoveAdd
        <3> DEFINE position == media_id_index[Target]
        <3>1. PushFresh /\ position # Absent /\ destinations' = RemoveAndPush(position)
            BY <2>4 DEF MediaIdIndexedStableRemoveAdd
        <3>2. position \in RoutePositions /\ position \in removal_cursor .. LastPos
            BY <3>1, FoundFacts
        <3> HIDE DEF position
        <3>3. Route' = (Route \ {destinations[position]}) \cup {next_destination_index}
            BY <2>1, <3>1, <3>2, RemoveRoute
        <3>4. \A p \in RoutePositions : p < position => destinations'[p] = destinations[p]
            BY <3>1 DEF RemoveAndPush
        <3> QED
            BY <3>2, <3>3, <3>4
    <2>5. ~TargetNotIndexed /\ ~BoundReached
        BY DEF TargetNotIndexed, BoundReached, routeVars
    <2> QED
        BY <2>2, <2>3, <2>4, <2>5 DEF RouteNext
<1> QED
    BY <1>1, StaleInvInit, StaleInvStep, PTL DEF RouteSpec, EarlierKept

-----------------------------------------------------------------------------
(* The batch cycles. *)

\* The destinations the loop has passed that differ from what the cycle found.
Changed == {p \in Positions : p > update /\ before[p] # destinations[p]}

\* The route has a destination for every position, before the cycle and now.
RouteOK ==
    \E n \in Nat :
        /\ destinations \in [0 .. n - 1 -> Destinations]
        /\ before \in [0 .. n - 1 -> Destinations]
        /\ update \in -1 .. n - 1

ControlOK ==
    /\ strategy \in Strategies
    /\ changed_count = Cardinality(Changed)
    /\ result \in Int
    /\ update >= 0 => result < 0

BatchInv == RouteOK /\ ControlOK /\ UpdatesLand /\ ResultCounts

-----------------------------------------------------------------------------
(* The route. *)

LEMMA RouteFacts ==
    ASSUME RouteOK
    PROVE  \E n \in Nat :
             /\ Positions = 0 .. n - 1 /\ Count = n /\ IsFiniteSet(Positions)
             /\ destinations \in [0 .. n - 1 -> Destinations]
             /\ before \in [0 .. n - 1 -> Destinations]
             /\ update \in -1 .. n - 1
<1>1. PICK n \in Nat :
        /\ destinations \in [0 .. n - 1 -> Destinations]
        /\ before \in [0 .. n - 1 -> Destinations]
        /\ update \in -1 .. n - 1
  BY DEF RouteOK
<1>2. Positions = 0 .. n - 1
  BY <1>1 DEF Positions
<1>3. IsFiniteSet(0 .. n - 1) /\ Cardinality(0 .. n - 1) = n
  BY FS_Interval
<1>4. Count = n
  BY <1>2, <1>3 DEF Count
<1> QED BY <1>1, <1>2, <1>3, <1>4

\* The three lookups find the destination that the update was made for.
LEMMA FoundExact ==
    ASSUME NEW n \in Nat, Positions = 0 .. n - 1, strategy \in Strategies,
           NEW u \in 0 .. n - 1
    PROVE  Found(u) = {u}
<1>1. \A p \in Positions : (Identity(p) = Identity(u)) <=> p = u
  BY DEF Identity, ConnectionId, MediaId
<1>2. CASE strategy = "linear"
  <2>1. \A q \in 0 .. u - 1 : Identity(q) # Identity(u)
    BY DEF Identity, ConnectionId, MediaId
  <2> QED BY <1>1, <1>2, <2>1 DEF Found
<1>3. CASE strategy = "media_id"
  <2>1. {p \in Positions : MediaId(p) = MediaId(u)} = {u}
    BY DEF MediaId
  <2>2. IndexedByMediaId(MediaId(u)) = {u}
    BY <2>1 DEF IndexedByMediaId, Latest
  <2> QED BY <1>3, <2>2 DEF Found
<1>4. CASE strategy = "identity"
  <2>1. {p \in Positions : Identity(p) = Identity(u)} = {u}
    BY <1>1
  <2>2. IndexedByIdentity(Identity(u)) = {u}
    BY <2>1 DEF IndexedByIdentity, Latest
  <2> QED BY <1>4, <2>2 DEF Found
<1> QED BY <1>2, <1>3, <1>4 DEF Strategies

LEMMA UpdatedType ==
    ASSUME NEW d PROVE Updated(d, CycleGate) \in Destinations
BY DEF Updated, CycleGate, Destinations, Gates

-----------------------------------------------------------------------------
(* The steps. *)

LEMMA InitBatch == BatchInit => BatchInv
<1> SUFFICES ASSUME BatchInit PROVE BatchInv
  OBVIOUS
<1>1. PICK n \in Counts : destinations = [p \in 0 .. n - 1 |-> Fresh(p)]
  BY DEF BatchInit
<1>2. n \in Nat /\ \A p \in 0 .. n - 1 : Fresh(p) \in Destinations
  BY CountsAssumption DEF Fresh, Destinations, Gates
<1>3. RouteOK
  <2>1. destinations \in [0 .. n - 1 -> Destinations]
    BY <1>1, <1>2
  <2>2. before = destinations /\ update = -1
    BY DEF BatchInit
  <2>3. before \in [0 .. n - 1 -> Destinations]
    BY <2>1, <2>2
  <2>4. update \in -1 .. n - 1
    BY <1>2, <2>2
  <2> QED BY <1>2, <2>1, <2>3, <2>4 DEF RouteOK
<1>4. Changed = {} /\ {p \in Positions : before[p] # destinations[p]} = {}
  BY DEF BatchInit, Changed
<1>5. Idle
  BY DEF BatchInit, Idle
<1>6. ControlOK
  BY <1>4, FS_EmptySet DEF BatchInit, ControlOK
<1>7. UpdatesLand
  BY <1>5 DEF BatchInit, UpdatesLand, Running
<1>8. ResultCounts
  BY <1>4 DEF BatchInit, ResultCounts
<1> QED BY <1>3, <1>6, <1>7, <1>8 DEF BatchInv

\* A cycle starts behind the last destination, with nothing changed.
LEMMA CallStep ==
    ASSUME BatchInv, Call PROVE BatchInv'
<1>1. PICK n \in Nat :
        /\ Positions = 0 .. n - 1 /\ Count = n
        /\ destinations \in [0 .. n - 1 -> Destinations]
  BY RouteFacts DEF BatchInv
<1>2. /\ update' = n - 1 /\ result' = -1 /\ before' = destinations
      /\ destinations' = destinations /\ changed_count' = 0 /\ failed_count' = 0
      /\ strategy' \in Strategies
  BY <1>1 DEF Call
<1>3. RouteOK'
  BY <1>1, <1>2 DEF RouteOK
<1>4. Changed' = {}
  BY <1>2 DEF Changed
<1>5. ControlOK'
  BY <1>2, <1>4, FS_EmptySet DEF ControlOK
<1>6. UpdatesLand'
  <2>1. \A p \in Positions' : ~(p > update')
    BY <1>1, <1>2 DEF Positions
  <2> QED BY <1>2, <2>1 DEF UpdatesLand
<1>7. ResultCounts'
  BY <1>2 DEF ResultCounts, Idle
<1> QED BY <1>3, <1>5, <1>6, <1>7 DEF BatchInv

\* An update changes its own destination only, and is counted if it does.
LEMMA ApplyStep ==
    ASSUME BatchInv, ApplyUpdate PROVE BatchInv'
<1>1. PICK n \in Nat :
        /\ Positions = 0 .. n - 1 /\ Count = n /\ IsFiniteSet(Positions)
        /\ destinations \in [0 .. n - 1 -> Destinations]
        /\ before \in [0 .. n - 1 -> Destinations]
        /\ update \in -1 .. n - 1
  BY RouteFacts DEF BatchInv
<1>2. update \in 0 .. n - 1 /\ Running /\ strategy \in Strategies
  BY <1>1 DEF ApplyUpdate, BatchInv, ControlOK
<1>3. Found(update) = {update}
  BY <1>1, <1>2, FoundExact
<1> DEFINE updated == Updated(destinations[update], CycleGate)
<1>4. /\ destinations' = [destinations EXCEPT ![update] = updated]
      /\ changed_count' = changed_count
           + (IF destinations[update] = updated THEN 0 ELSE 1)
      /\ failed_count' = failed_count
      /\ update' = update - 1
      /\ UNCHANGED <<next_gate_is_open, strategy, result, before>>
  BY <1>3 DEF ApplyUpdate
<1>5. updated \in Destinations
  BY UpdatedType
<1>6. updated = [gate |-> CycleGate,
                 pending_gate |-> IF CycleGate = "Rid" THEN "Rid" ELSE NoGate]
  BY DEF Updated
<1> HIDE DEF updated
<1>7. /\ destinations' \in [0 .. n - 1 -> Destinations]
      /\ destinations'[update] = updated
      /\ \A p \in 0 .. n - 1 : p # update => destinations'[p] = destinations[p]
  BY <1>1, <1>2, <1>4, <1>5
<1>8. Positions' = Positions
  BY <1>1, <1>7 DEF Positions
<1>9. RouteOK'
  BY <1>1, <1>2, <1>4, <1>7 DEF RouteOK
<1>10. before[update] = destinations[update]
  BY <1>1, <1>2 DEF BatchInv, UpdatesLand
<1>11. changed_count' = Cardinality(Changed')
  <2>1. IsFiniteSet(Changed) /\ Cardinality(Changed) \in Nat /\ update \notin Changed
    BY <1>1, <1>2, FS_Subset, FS_CardinalityType DEF Changed
  <2>2. CASE destinations[update] = updated
    <3>1. Changed' = Changed
      BY <1>1, <1>2, <1>4, <1>7, <1>8, <1>10, <2>2 DEF Changed
    <3> QED BY <1>4, <2>2, <2>1, <3>1 DEF BatchInv, ControlOK
  <2>3. CASE destinations[update] # updated
    <3>1. Changed' = Changed \cup {update}
      BY <1>1, <1>2, <1>4, <1>7, <1>8, <1>10, <2>3 DEF Changed
    <3>2. Cardinality(Changed \cup {update}) = Cardinality(Changed) + 1
      BY <2>1, FS_AddElement
    <3> QED BY <1>4, <2>3, <3>1, <3>2 DEF BatchInv, ControlOK
  <2> QED BY <2>2, <2>3
<1>12. ControlOK'
  BY <1>1, <1>2, <1>4, <1>11 DEF BatchInv, ControlOK
<1>13. UpdatesLand'
  <2>1. failed_count' = 0 /\ CycleGate' = CycleGate
    BY <1>4 DEF BatchInv, UpdatesLand, CycleGate
  <2>2. ASSUME NEW p \in 0 .. n - 1
        PROVE  destinations'[p] =
                 IF p > update'
                 THEN [gate |-> CycleGate,
                       pending_gate |-> IF CycleGate = "Rid" THEN "Rid" ELSE NoGate]
                 ELSE before'[p]
    <3>1. CASE p = update
      BY <1>2, <1>4, <1>6, <1>7, <3>1
    <3>2. CASE p # update
      <4>1. (p > update') <=> (p > update)
        BY <1>2, <1>4, <3>2
      <4> QED BY <1>1, <1>2, <1>4, <1>7, <3>2, <4>1 DEF BatchInv, UpdatesLand
    <3> QED BY <3>1, <3>2
  <2> QED BY <1>1, <1>8, <2>1, <2>2 DEF UpdatesLand
<1>14. ResultCounts'
  <2>1. result < 0
    BY <1>2 DEF BatchInv, ControlOK
  <2> QED BY <1>4, <2>1 DEF ResultCounts, Idle, BatchInv, ControlOK
<1> QED BY <1>9, <1>12, <1>13, <1>14 DEF BatchInv

\* The end of the loop: all destinations are passed.
LEMMA ReturnStep ==
    ASSUME BatchInv, Return PROVE BatchInv'
<1>1. PICK n \in Nat :
        /\ Positions = 0 .. n - 1 /\ IsFiniteSet(Positions)
        /\ destinations \in [0 .. n - 1 -> Destinations]
        /\ before \in [0 .. n - 1 -> Destinations]
  BY RouteFacts DEF BatchInv
<1> DEFINE different == {p \in Positions : before[p] # destinations[p]}
           passing   == {p \in Positions : Active(p) /\ destinations[p].gate # "Block"}
<1>2. /\ update = -1 /\ update' = -1 /\ failed_count = 0
      /\ result' = changed_count + failed_count
                    + (IF changed_count = 0 THEN 0 ELSE SourceGateAggregate)
      /\ UNCHANGED <<destinations, before, strategy, changed_count, failed_count,
                     next_gate_is_open>>
  BY DEF Return, loop, BatchInv, UpdatesLand
<1>3. Changed = different
  BY <1>1, <1>2 DEF Changed
<1>4. IsFiniteSet(different) /\ IsFiniteSet(passing)
  BY <1>1, FS_Subset
<1>5. /\ Cardinality(different) \in Nat /\ Cardinality(passing) \in Nat
      /\ Cardinality(different) = 0 <=> different = {}
  BY <1>4, FS_CardinalityType, FS_EmptySet
<1>6. SourceGateAggregate = Cardinality(passing)
  <2>1. \A p \in Positions : destinations[p].gate \in Gates
    BY <1>1 DEF Destinations
  <2>2. passing = {p \in Positions : Active(p) /\ destinations[p].gate \in {"Open", "Rid"}}
    BY <2>1 DEF Gates
  <2> QED BY <2>2 DEF SourceGateAggregate
<1>7. changed_count = Cardinality(different)
  BY <1>3 DEF BatchInv, ControlOK
<1> HIDE DEF different, passing
<1>8. /\ result' \in Nat
      /\ result' = IF different = {} THEN 0
                   ELSE Cardinality(different) + Cardinality(passing)
  BY <1>2, <1>5, <1>6, <1>7
<1>9. RouteOK'
  BY <1>2 DEF BatchInv, RouteOK
<1>10. ControlOK'
  BY <1>2, <1>8 DEF BatchInv, ControlOK, Changed, Positions
<1>11. UpdatesLand'
  BY <1>2, <1>8 DEF BatchInv, UpdatesLand, Running, Idle
<1>12. ResultCounts'
  <2>1. different' = different /\ passing' = passing
    BY <1>2 DEF different, passing, Positions
  <2> QED BY <1>8, <2>1 DEF ResultCounts, different, passing
<1> QED BY <1>9, <1>10, <1>11, <1>12 DEF BatchInv

LEMMA StepBatch == BatchInv /\ [BatchNext]_batchVars => BatchInv'
<1> SUFFICES ASSUME BatchInv, [BatchNext]_batchVars PROVE BatchInv'
  OBVIOUS
<1>1. CASE UNCHANGED batchVars
  <2>1. RouteOK' /\ ControlOK'
    BY <1>1 DEF batchVars, loop, BatchInv, RouteOK, ControlOK, Changed, Positions
  <2>2. UpdatesLand'
    BY <1>1 DEF batchVars, loop, BatchInv, UpdatesLand, Running, Idle, CycleGate, Positions
  <2>3. ResultCounts'
    BY <1>1 DEF batchVars, loop, BatchInv, ResultCounts, Idle, Positions
  <2> QED BY <2>1, <2>2, <2>3 DEF BatchInv
<1> QED BY <1>1, CallStep, ApplyStep, ReturnStep DEF BatchNext

-----------------------------------------------------------------------------

\* No update is missed and none reaches another destination, by any lookup.
THEOREM UpdatesLandCorrect == BatchSpec => []UpdatesLand
<1>1. BatchInv => UpdatesLand
  BY DEF BatchInv
<1> QED BY <1>1, InitBatch, StepBatch, PTL DEF BatchSpec

\* All three cycles return what the changed and the passing gates add up to.
THEOREM ResultCountsCorrect == BatchSpec => []ResultCounts
<1>1. BatchInv => ResultCounts
  BY DEF BatchInv
<1> QED BY <1>1, InitBatch, StepBatch, PTL DEF BatchSpec
=============================================================================
