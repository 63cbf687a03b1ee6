-------------------------- MODULE KeyframeCoalescing --------------------------
(* src/performance_hardening.rs: keyframe requests for the same source are   *)
(* coalesced into one.  One cycle copies the requests into a reused buffer,  *)
(* sorts it by source and merges neighbours; the other enters them in a map, *)
(* in the order they came.  Both return how many requests remain.            *)
(*                                                                           *)
(* A definition marked "Mutant" is a plausible bug in the definition that    *)
(* follows it; it is no part of the model and shows what a property catches. *)
EXTENDS Integers, Sequences, FiniteSets, StableSort

CONSTANTS
    Counts,   \* the request counts new() is called with
    NoRid,    \* the rid of a request for every encoding: None
    Nothing   \* no request: current_request is None, a source is not in the map

ASSUME CountsAssumption ==
    /\ Counts \subseteq Nat
    /\ NoRid \notin Nat
    /\ Nothing \notin [source_media_id : Nat, rid : Nat \cup {NoRid}, kind : {"Fir", "Pli"}]

VARIABLES
    request_count,
    cycle,             \* the cycle that runs, or "none"
    scratch,           \* the buffer, as indices of requests, which a cycle leaves filled
    next,              \* how many requests the loop has handled
    current_request,   \* the group that is being merged
    coalesced_count,   \* the groups that are complete
    coalesced,         \* the map: source -> request; history: the complete groups
    result             \* what the last cycle returned, -1 before

keyframeVars == <<request_count, cycle, scratch, next, current_request, coalesced_count,
          coalesced, result>>

-----------------------------------------------------------------------------

\* new(): the request at an index.
Request(index) ==
    [source_media_id |-> index % 16,
     rid             |-> IF index % 3 = 0 THEN index % 4 ELSE NoRid,
     kind            |-> IF index % 11 = 0 THEN "Fir" ELSE "Pli"]

Requests == 0 .. request_count - 1
Sources  == {Request(index).source_media_id : index \in Requests}

\* Mutant: the later request decides.
CoalesceLatest(current, request) ==
    [current EXCEPT !.rid  = IF request.rid # NoRid THEN request.rid ELSE @,
                    !.kind = request.kind]

\* CoalescedKeyframeRequest::coalesce: the first rid, Fir if either is Fir.
Coalesce(current, request) ==
    [current EXCEPT !.rid  = IF @ # NoRid THEN @ ELSE request.rid,
                    !.kind = IF "Fir" \in {@, request.kind} THEN "Fir" ELSE "Pli"]

\* sort_by_key is stable: requests for one source stay in the order they came.
Sorted == StableOrder(Requests, [i \in Requests |-> Request(i).source_media_id])

-----------------------------------------------------------------------------

KeyframeInit ==
    /\ request_count \in Counts
    /\ cycle = "none"
    /\ scratch = <<>>
    /\ next = 0
    /\ current_request = Nothing
    /\ coalesced_count = 0
    /\ coalesced = [s \in 0 .. 15 |-> Nothing]
    /\ result = -1

\* The locals of a cycle when it is called.
Fresh ==
    /\ next' = 0
    /\ current_request' = Nothing
    /\ coalesced_count' = 0
    /\ coalesced' = [s \in 0 .. 15 |-> Nothing]
    /\ UNCHANGED <<request_count, result>>

\* reusable_vec_coalescing_cycle: clear, extend, sort.
CallReusableVec ==
    /\ cycle = "none"
    /\ cycle' = "reusable_vec"
    /\ scratch' = Sorted
    /\ Fresh

CallFreshBtree ==
    /\ cycle = "none"
    /\ cycle' = "fresh_btree"
    /\ Fresh
    /\ UNCHANGED scratch

\* A group is complete: only its count is kept by the code.
Complete(group) ==
    /\ coalesced_count' = coalesced_count + 1
    /\ coalesced' = [coalesced EXCEPT ![group.source_media_id] = group]

\* One iteration of the loop over the sorted buffer.
GroupNext ==
    /\ cycle = "reusable_vec" /\ next < request_count
    /\ LET request == Request(scratch[next + 1])
       IN  IF current_request = Nothing
           THEN /\ current_request' = request
                /\ UNCHANGED <<coalesced_count, coalesced>>
           ELSE IF current_request.source_media_id = request.source_media_id
           THEN /\ current_request' = Coalesce(current_request, request)
                /\ UNCHANGED <<coalesced_count, coalesced>>
           ELSE /\ current_request' = request
                /\ Complete(current_request)
    /\ next' = next + 1
    /\ UNCHANGED <<request_count, cycle, scratch, result>>

\* Mutant: the count is returned without the last group.
ReturnWithoutLast ==
    /\ cycle = "reusable_vec" /\ next = request_count
    /\ IF current_request = Nothing
       THEN UNCHANGED <<coalesced_count, coalesced>>
       ELSE Complete(current_request)
    /\ result' = coalesced_count
    /\ cycle' = "none"
    /\ UNCHANGED <<request_count, scratch, next, current_request>>

\* After the loop the last group, if there is one, is complete as well.
ReturnGroups ==
    /\ cycle = "reusable_vec" /\ next = request_count
    /\ IF current_request = Nothing
       THEN UNCHANGED <<coalesced_count, coalesced>>
       ELSE Complete(current_request)
    /\ result' = coalesced_count'
    /\ cycle' = "none"
    /\ UNCHANGED <<request_count, scratch, next, current_request>>

\* One iteration of the loop over the requests: entry, and_modify, or_insert.
EnterNext ==
    /\ cycle = "fresh_btree" /\ next < request_count
    /\ LET request == Request(next)
       IN  coalesced' = [coalesced EXCEPT ![request.source_media_id] =
                            IF @ = Nothing THEN request ELSE Coalesce(@, request)]
    /\ next' = next + 1
    /\ UNCHANGED <<request_count, cycle, scratch, current_request, coalesced_count, result>>

ReturnEntries ==
    /\ cycle = "fresh_btree" /\ next = request_count
    /\ result' = Cardinality({s \in 0 .. 15 : coalesced[s] # Nothing})
    /\ cycle' = "none"
    /\ UNCHANGED <<request_count, scratch, next, current_request, coalesced_count, coalesced>>

KeyframeNext ==
    \/ CallReusableVec \/ GroupNext \/ ReturnGroups
    \/ CallFreshBtree \/ EnterNext \/ ReturnEntries

-----------------------------------------------------------------------------
(* Properties; what the cycles return is in PerformanceHardening. *)

\* What one request for a source must ask for, given the requests for it: the
\* first rid named, and Fir if any of them asks for it.
MergedOf(of, source) ==
    LET named == {i \in of : Request(i).rid # NoRid}
    IN  [source_media_id |-> source,
         rid  |-> IF named = {} THEN NoRid
                  ELSE Request(CHOOSE i \in named : \A j \in named : i <= j).rid,
         kind |-> IF \E i \in of : Request(i).kind = "Fir" THEN "Fir" ELSE "Pli"]

Of(requests, source) == {i \in requests : Request(i).source_media_id = source}

Merged(source) == MergedOf(Of(Requests, source), source)

\* Sorting and merging neighbours gives the same requests as the map: one per
\* source, merged from all the requests for that source and no others.  A group
\* that the sorted loop has left is never met again.
GroupsExact ==
    /\ cycle = "reusable_vec" =>
        \A s \in 0 .. 15 : coalesced[s] # Nothing => coalesced[s] = Merged(s)
    /\ cycle = "none" /\ next = request_count =>
        \A s \in 0 .. 15 : coalesced[s] = IF s \in Sources THEN Merged(s) ELSE Nothing
=============================================================================
