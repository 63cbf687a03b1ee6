------------------------- MODULE SourcePolicyRefresh -------------------------
(* src/source_policy_refresh.rs: every user receives the sources of all the  *)
(* others, and a refresh chooses an encoding for each of these routes.  The  *)
(* rebuild cycle sorts the ladders of all sources anew and copies one into   *)
(* every route; the other cycle uses the ladders that new() has cached.  A   *)
(* cycle returns a score: its routes, the receivers that are sent more than  *)
(* their bandwidth and, in the rebuild cycle only, the routes whose source   *)
(* has an even index.                                                        *)
(*                                                                           *)
(* Nothing that the cycles read changes after new(), all routes and sources  *)
(* are active: what a cycle collects before its loop over the receivers is   *)
(* here an operator, and a route is found by its place in the receiver's     *)
(* list.  The bitrates stay far below the width of u64.                      *)
(*                                                                           *)
(* A definition marked "Mutant" is a plausible bug in the definition that    *)
(* follows it; it is no part of the model and shows what a property catches. *)
EXTENDS Integers, Sequences, FiniteSets, StableSort

CONSTANTS UserCounts, SourceCounts   \* the arguments new() is called with

ASSUME CountsAssumption == UserCounts \subseteq Nat /\ SourceCounts \subseteq Nat

Cycles == {"rebuild", "cached"}

VARIABLES
    user_count, sources_per_user,
    cycle,                  \* the cycle that runs, or "none"
    receiver,               \* the receiver that is planned
    planned,                \* how many of its routes are
    selected_bitrate_bps,   \* what they add up to
    action_score,
    plans,                  \* history: cycle -> what its receivers are sent
    result                  \* history: cycle -> what it returned last, -1 before

sizes       == <<user_count, sources_per_user>>
refreshVars == <<sizes, cycle, receiver, planned, selected_bitrate_bps,
                 action_score, plans, result>>

-----------------------------------------------------------------------------

SourceCount     == user_count * sources_per_user
Owner(source)   == source \div sources_per_user
Offset(source)  == source % sources_per_user

\* benchmark_encodings: seed is far below the moduli of the code.
Encodings(source) ==
    LET seed == Owner(source) + Offset(source)
    IN  <<180000 + (seed % 32000), 540000 + (seed % 64000), 1400000 + (seed % 128000)>>

\* selectable_encoding_ladder
SelectableEncodingLadder(source) == Ascending(Encodings(source))

\* cached_ladders: an element for every source, in their order.
CachedLadder(source) == SelectableEncodingLadder(source)

Bandwidth(user) == 1200000 + (user % 8) * 180000

\* active_speaker_source_owners: the first four users.
Featured(source) == Owner(source) < 4

\* The sources a receiver sees: those of all the others.  A user without routes
\* is no key of routes_by_receiver.
VisibleCount == SourceCount - sources_per_user
Receivers    == IF VisibleCount > 0 THEN user_count ELSE 0

\* The source of the receiver's n-th route, counted from 0: its own are left out.
RouteSource(consumer, n) ==
    IF n < consumer * sources_per_user THEN n ELSE n + sources_per_user

CurrentSelector(consumer, source) == (consumer + source) % 3

Least(a, b) == IF a < b THEN a ELSE b

\* Mutant: a crowded receiver gets the least encoding of a featured source, too.
CrowdedFirst(encodings, current_selector, featured) ==
    CASE VisibleCount > 9 -> 1
      [] VisibleCount <= 9 /\ featured -> Len(encodings)
      [] OTHER -> 1 + Least(current_selector, Len(encodings) - 1)

\* selected_encoding_index, counted from 1; a ladder of the fixture is not empty.
SelectedEncoding(encodings, current_selector, featured) ==
    CASE featured -> Len(encodings)
      [] ~featured /\ VisibleCount > 9 -> 1
      [] OTHER -> 1 + Least(current_selector, Len(encodings) - 1)

-----------------------------------------------------------------------------

RefreshInit ==
    /\ user_count \in UserCounts /\ sources_per_user \in SourceCounts
    /\ cycle = "none"
    /\ receiver = 0
    /\ planned = 0
    /\ selected_bitrate_bps = 0
    /\ action_score = 0
    /\ plans = [c \in Cycles |-> <<>>]
    /\ result = [c \in Cycles |-> -1]

Call(c) ==
    /\ cycle = "none" /\ cycle' = c
    /\ receiver' = 0 /\ planned' = 0
    /\ selected_bitrate_bps' = 0
    /\ action_score' = 0
    /\ plans' = [plans EXCEPT ![c] = <<>>]
    /\ UNCHANGED <<sizes, result>>

\* The two loops over the routes of a receiver are written twice in the code, and
\* here.  plan_current_routes: a route has its own copy of the ladder sorted anew.
RebuildPlansRoute ==
    LET source    == RouteSource(receiver, planned)
        encodings == SelectableEncodingLadder(source)
        selector  == SelectedEncoding(encodings, CurrentSelector(receiver, source),
                                      Featured(source))
    IN  /\ cycle = "rebuild" /\ receiver < Receivers /\ planned < VisibleCount
        /\ selected_bitrate_bps' = selected_bitrate_bps + encodings[selector]
        /\ planned' = planned + 1
        /\ UNCHANGED <<sizes, cycle, receiver, action_score, plans, result>>

\* Mutant: the cached loop asks whether the receiver is a featured owner.
CachedAsksReceiver ==
    LET source    == RouteSource(receiver, planned)
        encodings == CachedLadder(source)
        selector  == SelectedEncoding(encodings, CurrentSelector(receiver, source),
                                      receiver < 4)
    IN  /\ cycle = "cached" /\ receiver < Receivers /\ planned < VisibleCount
        /\ selected_bitrate_bps' = selected_bitrate_bps + encodings[selector]
        /\ planned' = planned + 1
        /\ UNCHANGED <<sizes, cycle, receiver, action_score, plans, result>>

\* cached_ladder_cycle: a route finds its ladder by the position of its source.
CachedPlansRoute ==
    LET source    == RouteSource(receiver, planned)
        encodings == CachedLadder(source)
        selector  == SelectedEncoding(encodings, CurrentSelector(receiver, source),
                                      Featured(source))
    IN  /\ cycle = "cached" /\ receiver < Receivers /\ planned < VisibleCount
        /\ selected_bitrate_bps' = selected_bitrate_bps + encodings[selector]
        /\ planned' = planned + 1
        /\ UNCHANGED <<sizes, cycle, receiver, action_score, plans, result>>

OverBudget == IF selected_bitrate_bps > Bandwidth(receiver) THEN 1 ELSE 0

\* plan_current_routes: the routes of a receiver whose source has an even index.
EvenRoutes ==
    Cardinality({n \in 0 .. VisibleCount - 1 : RouteSource(receiver, n) % 2 = 0})

\* The next receiver, when all the routes of this one are planned.
NextReceiver ==
    /\ receiver < Receivers /\ planned = VisibleCount
    /\ plans' = [plans EXCEPT ![cycle] = Append(@, selected_bitrate_bps)]
    /\ receiver' = receiver + 1
    /\ planned' = 0
    /\ selected_bitrate_bps' = 0
    /\ UNCHANGED <<sizes, cycle, result>>

\* The rebuild cycle scores the length of the list and the even sources in it,
\* the cached one the routes it has counted.
RebuildFinishesReceiver ==
    /\ cycle = "rebuild" /\ NextReceiver
    /\ action_score' = action_score + VisibleCount + OverBudget + EvenRoutes

CachedFinishesReceiver ==
    /\ cycle = "cached" /\ NextReceiver
    /\ action_score' = action_score + planned + OverBudget

Return ==
    /\ cycle # "none" /\ receiver = Receivers
    /\ result' = [result EXCEPT ![cycle] = action_score]
    /\ cycle' = "none"
    /\ UNCHANGED <<sizes, receiver, planned, selected_bitrate_bps, action_score, plans>>

RefreshNext ==
    \/ \E c \in Cycles : Call(c)
    \/ RebuildPlansRoute \/ RebuildFinishesReceiver
    \/ CachedPlansRoute \/ CachedFinishesReceiver
    \/ Return

RefreshSpec == RefreshInit /\ [][RefreshNext]_refreshVars

-----------------------------------------------------------------------------
(* Properties. *)

\* The two loops, one with fresh ladders and one with those of new(), plan the same:
\* as far as both cycles have come, every receiver is sent as much by either.  No
\* caller could see a difference, because the scores differ in any case.
SamePlan ==
    LET both == Least(Len(plans["rebuild"]), Len(plans["cached"]))
    IN  SubSeq(plans["rebuild"], 1, both) = SubSeq(plans["cached"], 1, both)

\* What the cycles return: a point for each route and, as featured sources always
\* overrun it, one for the budget of each receiver.  The rebuild cycle counts
\* every second source once more for each of its viewers, so the scores of the
\* two cycles can be compared only with this difference in mind.
ResultExact ==
    LET routes  == user_count * VisibleCount
        even    == (SourceCount + 1) \div 2
        viewers == IF user_count > 0 THEN user_count - 1 ELSE 0
    IN  /\ result["cached"] \in {-1, routes + Receivers}
        /\ result["rebuild"] \in {-1, routes + Receivers + even * viewers}
=============================================================================
