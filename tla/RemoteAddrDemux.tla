--------------------------- MODULE RemoteAddrDemux ---------------------------
(* src/rtc_udp_demux.rs: BenchmarkRemoteAddrDemux keeps two relations        *)
(* between remote addresses and sessions, each one twice: as an index from   *)
(* the address, which the cached lookups read, and as a list per session,    *)
(* which the linear scans read.  The operations have to keep the two         *)
(* representations of each relation in step.                                 *)
(*                                                                           *)
(* The calls come in any order with any arguments: this is the contract of   *)
(* the type.  The two fixtures make a fixed sequence of these calls.         *)
(*                                                                           *)
(* A Vec is the number of times each element is in it: its order is never    *)
(* looked at, its repetitions are (a repeated candidate is stored twice).  A *)
(* map is a function into Absent or the stored value, so that an entry with  *)
(* an empty Vec and no entry remain two things.                              *)
(*                                                                           *)
(* A definition marked "Mutant" is a plausible bug in the definition that    *)
(* follows it; it is no part of the model and shows what a property catches. *)
EXTENDS Naturals

CONSTANTS
    Addrs,       \* remote socket addresses
    Sessions,    \* transport session keys
    Absent,      \* a key without an entry
    MaxRepeat    \* bound: how often one announcement may name one address

ASSUME ConstantsAssumption ==
    /\ MaxRepeat \in Nat
    /\ Absent \notin Sessions
    /\ \A v \in [Addrs -> 0 .. MaxRepeat] \cup [Addrs -> {0, 1}] : v # Absent
    /\ \A v \in [Sessions -> {0, 1}] : v # Absent

VARIABLES
    remote_addr_index,                   \* address -> the session it is bound to
    remote_addrs_by_session,             \* session -> Vec of bound addresses
    remote_candidate_addr_index,         \* address -> Vec of sessions
    remote_candidate_addrs_by_session    \* session -> Vec of announced addresses

bindingVars   == <<remote_addr_index, remote_addrs_by_session>>
candidateVars == <<remote_candidate_addr_index, remote_candidate_addrs_by_session>>
vars          == <<bindingVars, candidateVars>>

-----------------------------------------------------------------------------
(* Vec and map entry operations; X is the set the elements come from.        *)

NewVec(X) == [x \in X |-> 0]

Contains(v, x) == v # Absent /\ v[x] > 0

\* Mutant: push without looking whether it is there.
PushAlways(v, x, X, n) ==
    IF n = 0 THEN v
    ELSE [w \in X |-> (IF v = Absent THEN 0 ELSE v[w]) + (IF w = x THEN n ELSE 0)]

\* n times: entry(..).or_default(), then push unless it is there already.
PushNew(v, x, X, n) ==
    IF n = 0 \/ Contains(v, x) THEN v
    ELSE [w \in X |-> IF w = x THEN 1 ELSE IF v = Absent THEN 0 ELSE v[w]]

\* Mutant: the entry of an emptied Vec is kept.
RetainEmpty(v, x, X) ==
    IF v = Absent THEN Absent ELSE [v EXCEPT ![x] = 0]

\* Mutant: the whole entry is removed, whoever else is in it.
RetainNothing(v, x, X) == Absent

\* Mutant: nothing is removed.
RetainAll(v, x, X) == v

\* retain(|y| y != x), then remove the entry if nothing is left in it.
Retain(v, x, X) ==
    IF v = Absent THEN Absent
    ELSE LET kept == [v EXCEPT ![x] = 0]
         IN  IF kept = NewVec(X) THEN Absent ELSE kept

-----------------------------------------------------------------------------

Init ==
    /\ remote_addr_index = [a \in Addrs |-> Absent]
    /\ remote_addrs_by_session = [s \in Sessions |-> Absent]
    /\ remote_candidate_addr_index = [a \in Addrs |-> Absent]
    /\ remote_candidate_addrs_by_session = [s \in Sessions |-> Absent]

\* Mutant: the list of the previous session is forgotten.
RememberWithoutRelease(a, s) ==
    /\ remote_addr_index[a] # s
    /\ remote_addr_index' = [remote_addr_index EXCEPT ![a] = s]
    /\ remote_addrs_by_session' =
           [remote_addrs_by_session EXCEPT ![s] = PushNew(@, a, Addrs, 1)]
    /\ UNCHANGED candidateVars

\* Mutant: insert only when the address is new, as entry().or_insert() does.
RememberFirstOnly(a, s) ==
    LET previous == remote_addr_index[a]
        released == IF previous = Absent THEN remote_addrs_by_session
                    ELSE [remote_addrs_by_session EXCEPT ![previous] = Retain(@, a, Addrs)]
    IN  /\ previous # s
        /\ remote_addr_index' = [remote_addr_index EXCEPT
                                    ![a] = IF previous = Absent THEN s ELSE previous]
        /\ remote_addrs_by_session' = [released EXCEPT ![s] = PushNew(@, a, Addrs, 1)]
        /\ UNCHANGED candidateVars

\* remember_remote_addr.  An address that is bound to s already is the early
\* return, which changes nothing.
RememberRemoteAddr(a, s) ==
    LET previous == remote_addr_index[a]
        released == IF previous = Absent THEN remote_addrs_by_session
                    ELSE [remote_addrs_by_session EXCEPT ![previous] = Retain(@, a, Addrs)]
    IN  /\ previous # s
        /\ remote_addr_index' = [remote_addr_index EXCEPT ![a] = s]
        /\ remote_addrs_by_session' = [released EXCEPT ![s] = PushNew(@, a, Addrs, 1)]
        /\ UNCHANGED candidateVars

\* replace_session_remote_candidate_addrs: addrs is the announced Vec.
ReplaceSessionRemoteCandidateAddrs(s, addrs) ==
    LET previous == remote_candidate_addrs_by_session[s]
        withdrawn == [a \in Addrs |->
                        IF Contains(previous, a)
                        THEN Retain(remote_candidate_addr_index[a], s, Sessions)
                        ELSE remote_candidate_addr_index[a]]
    IN  /\ remote_candidate_addr_index' =
               [a \in Addrs |-> PushNew(withdrawn[a], s, Sessions, addrs[a])]
        /\ remote_candidate_addrs_by_session' =
               [remote_candidate_addrs_by_session EXCEPT ![s] = addrs]
        /\ UNCHANGED bindingVars

Next ==
    \/ \E a \in Addrs, s \in Sessions : RememberRemoteAddr(a, s)
    \/ \E s \in Sessions, addrs \in [Addrs -> 0 .. MaxRepeat] :
           ReplaceSessionRemoteCandidateAddrs(s, addrs)

Spec == Init /\ [][Next]_vars

-----------------------------------------------------------------------------
(* The lookups of the four cycles, for one probed address.                   *)

\* RtcUdpDemuxBenchmarkFixture::cached_lookup_cycle
CachedHit(a, live) == remote_addr_index[a] # Absent /\ remote_addr_index[a] \in live

\* RtcUdpDemuxBenchmarkFixture::linear_scan_cycle
ScanHit(a, live) ==
    \E s \in Sessions : s \in live /\ Contains(remote_addrs_by_session[s], a)

\* RtcUnknownSourceRecoveryBenchmarkFixture::indexed_lookup_cycle
IndexedCandidateHit(a) ==
    /\ remote_candidate_addr_index[a] # Absent
    /\ remote_candidate_addr_index[a] # NewVec(Sessions)

\* RtcUnknownSourceRecoveryBenchmarkFixture::linear_scan_cycle, over what the
\* sessions announced
ScanCandidateHit(a) ==
    \E s \in Sessions : Contains(remote_candidate_addrs_by_session[s], a)

-----------------------------------------------------------------------------
(* Properties. *)

\* The Vecs that push looks through first hold no element twice.
TypeOK ==
    /\ remote_addr_index \in [Addrs -> Sessions \cup {Absent}]
    /\ remote_addrs_by_session \in [Sessions -> [Addrs -> {0, 1}] \cup {Absent}]
    /\ remote_candidate_addr_index \in [Addrs -> [Sessions -> {0, 1}] \cup {Absent}]
    /\ remote_candidate_addrs_by_session \in
           [Sessions -> [Addrs -> 0 .. MaxRepeat] \cup {Absent}]

\* remember_remote_addr moves an address out of the list of the session it was
\* bound to: at all times the index and the lists are the same relation, so no
\* address is in the lists of two sessions.
IndexMatchesLists ==
    \A a \in Addrs, s \in Sessions :
        remote_addr_index[a] = s <=> Contains(remote_addrs_by_session[s], a)

\* remove_remote_addr_from_session and remove_candidate_session drop an entry
\* with its last element, so the maps do not grow with sessions and addresses
\* that are gone.  (A session may announce no address; that entry is kept.)
NoEmptyEntries ==
    /\ \A s \in Sessions : remote_addrs_by_session[s] # NewVec(Addrs)
    /\ \A a \in Addrs : remote_candidate_addr_index[a] # NewVec(Sessions)

\* After any sequence of announcements, repeated addresses and overlapping
\* ones included, a session is a candidate for exactly the addresses of its
\* own latest announcement.
CandidatesMatchLists ==
    \A a \in Addrs, s \in Sessions :
        Contains(remote_candidate_addr_index[a], s)
            <=> Contains(remote_candidate_addrs_by_session[s], a)

\* The two ways of looking up a source address count the same hits, whatever
\* the set of live sessions.
CachedAgreesWithScan ==
    \A a \in Addrs, live \in SUBSET Sessions : CachedHit(a, live) <=> ScanHit(a, live)

\* The two ways of recovering an unknown source count the same hits.
IndexedAgreesWithScan ==
    \A a \in Addrs : IndexedCandidateHit(a) <=> ScanCandidateHit(a)

Book == INSTANCE AddressBook WITH
    bindings   <- {b \in Addrs \X Sessions : Contains(remote_addrs_by_session[b[2]], b[1])},
    candidates <- {c \in Addrs \X Sessions : Contains(remote_candidate_addr_index[c[1]], c[2])}

\* Seen through the session lists for the bindings and through the address
\* index for the candidates, the demultiplexer is an address book: binding an
\* address takes it from its previous session, an announcement replaces the
\* session's earlier one and touches no other session.
ImplementsAddressBook == Book!Spec
=============================================================================
