------------------------ MODULE RemoteAddrDemuxProofs ------------------------
(* What the TLA+ proof system proves about RemoteAddrDemux, for any sets of  *)
(* addresses and sessions and any number of repetitions in an announcement,  *)
(* and at the end about RemoteAddrDemuxFixtures, for every number of         *)
(* sessions and of ports: the fixtures use the demultiplexer as its contract *)
(* allows, so all that is proved of it holds in them, and both ways of       *)
(* looking up find everything.                                               *)
EXTENDS RemoteAddrDemuxFixtures, TLAPS

\* The two representations are in step: the invariant all results rest on.
DemuxInv ==
    /\ TypeOK
    /\ IndexMatchesLists
    /\ NoEmptyEntries
    /\ CandidatesMatchLists

-----------------------------------------------------------------------------
(* The Vec operations, stated through Contains.                              *)

\* X has Vecs without repetition, and none of them is the missing entry.
SetVecs(X) == [X -> {0, 1}]

\* retain removes x and nothing else, and leaves no empty entry behind.
LEMMA RetainFacts ==
    ASSUME NEW X, \A v \in SetVecs(X) : v # Absent,
           NEW v \in SetVecs(X) \cup {Absent}, v # NewVec(X), NEW x \in X
    PROVE  /\ Retain(v, x, X) \in SetVecs(X) \cup {Absent}
           /\ Retain(v, x, X) # NewVec(X)
           /\ \A y \in X : Contains(Retain(v, x, X), y) <=> Contains(v, y) /\ y # x
<1>1. NewVec(X) \in SetVecs(X)
    BY DEF NewVec, SetVecs
<1>2. CASE v = Absent
    BY <1>1, <1>2 DEF Retain, Contains
<1>3. CASE v # Absent
    <2> DEFINE kept == [v EXCEPT ![x] = 0]
    <2>1. kept \in SetVecs(X) /\ v \in SetVecs(X)
        BY <1>3 DEF SetVecs
    <2>2. kept[x] = 0 /\ \A y \in X : y # x => kept[y] = v[y]
        BY <2>1 DEF SetVecs
    <2>3. CASE kept = NewVec(X)
        <3>1. \A y \in X : kept[y] = 0
            BY <2>3 DEF NewVec
        <3>2. Retain(v, x, X) = Absent
            BY <1>3, <2>3 DEF Retain
        <3> QED
            BY <1>1, <2>2, <3>1, <3>2 DEF Contains
    <2>4. CASE kept # NewVec(X)
        <3>1. Retain(v, x, X) = kept
            BY <1>3, <2>4 DEF Retain
        <3> HIDE DEF kept
        <3> QED
            BY <1>3, <2>1, <2>2, <2>4, <3>1 DEF Contains
    <2> QED
        BY <2>3, <2>4
<1> QED
    BY <1>2, <1>3

\* Pushing x, at least once, adds x and nothing else, once.
LEMMA PushFacts ==
    ASSUME NEW X, \A v \in SetVecs(X) : v # Absent,
           NEW v \in SetVecs(X) \cup {Absent}, v # NewVec(X), NEW x \in X, NEW n \in Nat
    PROVE  /\ PushNew(v, x, X, n) \in SetVecs(X) \cup {Absent}
           /\ PushNew(v, x, X, n) # NewVec(X)
           /\ \A y \in X : Contains(PushNew(v, x, X, n), y)
                               <=> Contains(v, y) \/ (y = x /\ n > 0)
<1>1. CASE n = 0 \/ Contains(v, x)
    BY <1>1 DEF PushNew
<1>2. CASE ~(n = 0 \/ Contains(v, x))
    <2> DEFINE pushed == [w \in X |-> IF w = x THEN 1 ELSE IF v = Absent THEN 0 ELSE v[w]]
    <2>1. PushNew(v, x, X, n) = pushed
        BY <1>2 DEF PushNew
    <2>2. pushed \in SetVecs(X)
        BY DEF SetVecs
    <2>3. pushed # NewVec(X)
        BY DEF NewVec
    <2>4. \A y \in X : pushed[y] > 0 <=> (v # Absent /\ v[y] > 0) \/ y = x
        BY DEF SetVecs
    <2> HIDE DEF pushed
    <2> QED
        BY <1>2, <2>1, <2>2, <2>3, <2>4 DEF Contains
<1> QED
    BY <1>1, <1>2

-----------------------------------------------------------------------------

LEMMA DemuxInit == Init => DemuxInv
<1>1. NewVec(Addrs) \in SetVecs(Addrs) /\ NewVec(Sessions) \in SetVecs(Sessions)
    BY DEF NewVec, SetVecs
<1> QED
    BY <1>1, ConstantsAssumption
       DEF Init, DemuxInv, TypeOK, IndexMatchesLists, NoEmptyEntries,
           CandidatesMatchLists, Contains, SetVecs

\* Binding an address moves it from one session's list to another's.
LEMMA RememberStep ==
    ASSUME DemuxInv, NEW a \in Addrs, NEW s \in Sessions, RememberRemoteAddr(a, s)
    PROVE  /\ DemuxInv'
           /\ \A b \in Addrs, t \in Sessions :
                 Contains(remote_addrs_by_session'[t], b)
                     <=> IF b = a THEN t = s ELSE Contains(remote_addrs_by_session[t], b)
<1> DEFINE lists    == remote_addrs_by_session
           previous == remote_addr_index[a]
           released == IF previous = Absent THEN lists
                       ELSE [lists EXCEPT ![previous] = Retain(@, a, Addrs)]
           Entry    == (SetVecs(Addrs) \cup {Absent}) \ {NewVec(Addrs)}
<1>1. \A v \in SetVecs(Addrs) : v # Absent
    BY ConstantsAssumption DEF SetVecs
<1>2. lists \in [Sessions -> Entry]
    BY DEF DemuxInv, TypeOK, NoEmptyEntries, SetVecs
<1>3. previous \in Sessions \cup {Absent} /\ previous # s
    BY DEF DemuxInv, TypeOK, RememberRemoteAddr
<1>4. released \in [Sessions -> Entry]
    <2>1. CASE previous = Absent
        BY <1>2, <2>1
    <2>2. CASE previous # Absent
        <3>1. previous \in Sessions /\ lists[previous] \in Entry
            BY <1>2, <1>3, <2>2
        <3>2. Retain(lists[previous], a, Addrs) \in Entry
            BY <1>1, <3>1, RetainFacts
        <3> HIDE DEF Entry
        <3> QED
            BY <1>2, <2>2, <3>1, <3>2
    <2> QED
        BY <2>1, <2>2
<1>5. \A b \in Addrs, t \in Sessions :
          Contains(released[t], b) <=> Contains(lists[t], b) /\ b # a
    <2> SUFFICES ASSUME NEW b \in Addrs, NEW t \in Sessions
                 PROVE  Contains(released[t], b) <=> Contains(lists[t], b) /\ b # a
        OBVIOUS
    <2>1. CASE t = previous
        <3>1. released[t] = Retain(lists[t], a, Addrs)
            BY <1>2, <2>1, ConstantsAssumption
        <3> QED
            BY <1>1, <1>2, <3>1, RetainFacts
    <2>2. CASE t # previous
        <3>1. released[t] = lists[t]
            BY <1>2, <2>2
        <3>2. ~Contains(lists[t], a)
            BY <2>2 DEF DemuxInv, IndexMatchesLists
        <3> QED
            BY <3>1, <3>2
    <2> QED
        BY <2>1, <2>2
<1>6. remote_addrs_by_session' = [released EXCEPT ![s] = PushNew(@, a, Addrs, 1)]
    BY DEF RememberRemoteAddr
<1> HIDE DEF released, previous
<1>7. PushNew(released[s], a, Addrs, 1) \in Entry
    BY <1>1, <1>4, PushFacts
<1>8. remote_addrs_by_session' \in [Sessions -> Entry]
    <2> HIDE DEF Entry
    <2> QED
        BY <1>4, <1>6, <1>7
<1>9. \A b \in Addrs, t \in Sessions :
          Contains(remote_addrs_by_session'[t], b)
              <=> IF b = a THEN t = s ELSE Contains(remote_addrs_by_session[t], b)
    <2> SUFFICES ASSUME NEW b \in Addrs, NEW t \in Sessions
                 PROVE  Contains(remote_addrs_by_session'[t], b)
                            <=> IF b = a THEN t = s ELSE Contains(lists[t], b)
        OBVIOUS
    <2>1. CASE t = s
        <3>1. remote_addrs_by_session'[t] = PushNew(released[t], a, Addrs, 1)
            BY <1>4, <1>6, <2>1
        <3>2. Contains(remote_addrs_by_session'[t], b) <=> Contains(released[t], b) \/ b = a
            BY <1>1, <1>4, <3>1, PushFacts
        <3> QED
            BY <1>5, <2>1, <3>2
    <2>2. CASE t # s
        <3>1. remote_addrs_by_session'[t] = released[t]
            BY <1>4, <1>6, <2>2
        <3> QED
            BY <1>5, <2>2, <3>1
    <2> QED
        BY <2>1, <2>2
<1>10. remote_addr_index' = [remote_addr_index EXCEPT ![a] = s] /\ UNCHANGED candidateVars
    BY DEF RememberRemoteAddr
<1>11. TypeOK' /\ NoEmptyEntries' /\ CandidatesMatchLists'
    BY <1>8, <1>10 DEF DemuxInv, TypeOK, NoEmptyEntries, CandidatesMatchLists,
                       candidateVars, SetVecs
<1>12. IndexMatchesLists'
    BY <1>9, <1>10 DEF DemuxInv, TypeOK, IndexMatchesLists
<1> QED
    BY <1>9, <1>11, <1>12 DEF DemuxInv

\* An announcement replaces the session's candidates and no other session's.
LEMMA ReplaceStep ==
    ASSUME DemuxInv, NEW s \in Sessions, NEW addrs \in [Addrs -> 0 .. MaxRepeat],
           ReplaceSessionRemoteCandidateAddrs(s, addrs)
    PROVE  /\ DemuxInv'
           /\ \A a \in Addrs, t \in Sessions :
                 Contains(remote_candidate_addr_index'[a], t)
                     <=> IF t = s THEN addrs[a] > 0
                                  ELSE Contains(remote_candidate_addr_index[a], t)
<1> DEFINE index     == remote_candidate_addr_index
           lists     == remote_candidate_addrs_by_session
           withdrawn == [a \in Addrs |-> IF Contains(lists[s], a)
                                         THEN Retain(index[a], s, Sessions) ELSE index[a]]
           Entry     == (SetVecs(Sessions) \cup {Absent}) \ {NewVec(Sessions)}
<1>1. \A v \in SetVecs(Sessions) : v # Absent
    BY ConstantsAssumption DEF SetVecs
<1>2. \A a \in Addrs : index[a] \in Entry
    BY DEF DemuxInv, TypeOK, NoEmptyEntries, SetVecs
<1>3. \A a \in Addrs : /\ withdrawn[a] \in Entry
                       /\ \A t \in Sessions :
                             Contains(withdrawn[a], t) <=> Contains(index[a], t) /\ t # s
    <2> SUFFICES ASSUME NEW a \in Addrs
                 PROVE  /\ withdrawn[a] \in Entry
                        /\ \A t \in Sessions :
                              Contains(withdrawn[a], t) <=> Contains(index[a], t) /\ t # s
        OBVIOUS
    <2>1. CASE Contains(lists[s], a)
        <3>1. withdrawn[a] = Retain(index[a], s, Sessions)
            BY <2>1
        <3> HIDE DEF withdrawn
        <3> QED
            BY <1>1, <1>2, <3>1, RetainFacts
    <2>2. CASE ~Contains(lists[s], a)
        <3>1. withdrawn[a] = index[a] /\ ~Contains(index[a], s)
            BY <2>2 DEF DemuxInv, CandidatesMatchLists
        <3> HIDE DEF withdrawn
        <3> QED
            BY <1>2, <3>1
    <2> QED
        BY <2>1, <2>2
<1>4. index' = [a \in Addrs |-> PushNew(withdrawn[a], s, Sessions, addrs[a])]
    BY DEF ReplaceSessionRemoteCandidateAddrs
<1> HIDE DEF withdrawn
<1>5. \A a \in Addrs : /\ index'[a] \in Entry
                       /\ \A t \in Sessions :
                             Contains(index'[a], t)
                                 <=> Contains(withdrawn[a], t) \/ (t = s /\ addrs[a] > 0)
    <2> SUFFICES ASSUME NEW a \in Addrs
                 PROVE  /\ index'[a] \in Entry
                        /\ \A t \in Sessions :
                              Contains(index'[a], t)
                                  <=> Contains(withdrawn[a], t) \/ (t = s /\ addrs[a] > 0)
        OBVIOUS
    <2>1. addrs[a] \in Nat /\ index'[a] = PushNew(withdrawn[a], s, Sessions, addrs[a])
        BY <1>4, ConstantsAssumption
    <2> QED
        BY <1>1, <1>3, <2>1, PushFacts
<1>6. \A a \in Addrs, t \in Sessions :
          Contains(index'[a], t) <=> IF t = s THEN addrs[a] > 0 ELSE Contains(index[a], t)
    BY <1>3, <1>5
<1>7. lists' = [lists EXCEPT ![s] = addrs] /\ UNCHANGED bindingVars
    BY DEF ReplaceSessionRemoteCandidateAddrs
<1>8. index' \in [Addrs -> Entry]
    <2> HIDE DEF Entry
    <2> QED
        BY <1>4, <1>5
<1>9. lists' \in [Sessions -> [Addrs -> 0 .. MaxRepeat] \cup {Absent}]
    BY <1>7 DEF DemuxInv, TypeOK
<1>10. TypeOK' /\ NoEmptyEntries' /\ IndexMatchesLists'
    BY <1>7, <1>8, <1>9 DEF DemuxInv, TypeOK, NoEmptyEntries, IndexMatchesLists,
                            bindingVars, SetVecs
<1>11. CandidatesMatchLists'
    <2> SUFFICES ASSUME NEW a \in Addrs, NEW t \in Sessions
                 PROVE  Contains(index'[a], t) <=> Contains(lists'[t], a)
        BY DEF CandidatesMatchLists
    <2>1. CASE t = s
        <3>1. lists'[t] = addrs /\ addrs # Absent
            BY <1>7, <2>1, ConstantsAssumption DEF DemuxInv, TypeOK
        <3> QED
            BY <1>6, <2>1, <3>1 DEF Contains
    <2>2. CASE t # s
        <3>1. lists'[t] = lists[t]
            BY <1>7, <2>2 DEF DemuxInv, TypeOK
        <3> QED
            BY <1>6, <2>2, <3>1 DEF DemuxInv, CandidatesMatchLists
    <2> QED
        BY <2>1, <2>2
<1> QED
    BY <1>6, <1>10, <1>11 DEF DemuxInv

LEMMA DemuxStep == DemuxInv /\ [Next]_vars => DemuxInv'
<1> SUFFICES ASSUME DemuxInv, [Next]_vars PROVE DemuxInv'
    OBVIOUS
<1>1. CASE UNCHANGED vars
    BY <1>1 DEF vars, bindingVars, candidateVars, DemuxInv, TypeOK, IndexMatchesLists,
                NoEmptyEntries, CandidatesMatchLists
<1> QED
    BY <1>1, RememberStep, ReplaceStep DEF Next

\* Every Vec and every map entry keeps its type; no Vec guarded by contains()
\* ever holds an element twice.
THEOREM TypeCorrect == Spec => []TypeOK
<1>1. DemuxInv => TypeOK
    BY DEF DemuxInv
<1> QED
    BY <1>1, DemuxInit, DemuxStep, PTL DEF Spec

\* The address index and the session lists are the same relation.
THEOREM IndexCorrect == Spec => []IndexMatchesLists
<1>1. DemuxInv => IndexMatchesLists
    BY DEF DemuxInv
<1> QED
    BY <1>1, DemuxInit, DemuxStep, PTL DEF Spec

\* No entry outlives its last element.
THEOREM NoLeftovers == Spec => []NoEmptyEntries
<1>1. DemuxInv => NoEmptyEntries
    BY DEF DemuxInv
<1> QED
    BY <1>1, DemuxInit, DemuxStep, PTL DEF Spec

\* A session is a candidate for the addresses of its latest announcement only.
THEOREM CandidatesCorrect == Spec => []CandidatesMatchLists
<1>1. DemuxInv => CandidatesMatchLists
    BY DEF DemuxInv
<1> QED
    BY <1>1, DemuxInit, DemuxStep, PTL DEF Spec

\* The cached lookup hits exactly when the linear scan does.
THEOREM CachedCorrect == Spec => []CachedAgreesWithScan
<1>1. DemuxInv => CachedAgreesWithScan
    <2> SUFFICES ASSUME DemuxInv, NEW a \in Addrs, NEW live \in SUBSET Sessions
                 PROVE  CachedHit(a, live) <=> ScanHit(a, live)
        BY DEF CachedAgreesWithScan
    <2>1. \A s \in Sessions : remote_addr_index[a] = s <=> Contains(remote_addrs_by_session[s], a)
        BY DEF DemuxInv, IndexMatchesLists
    <2> QED
        BY <2>1, ConstantsAssumption DEF CachedHit, ScanHit
<1> QED
    BY <1>1, DemuxInit, DemuxStep, PTL DEF Spec

\* The indexed recovery of an unknown source hits exactly when the scan does.
THEOREM IndexedCorrect == Spec => []IndexedAgreesWithScan
<1>1. DemuxInv => IndexedAgreesWithScan
    <2> SUFFICES ASSUME DemuxInv, NEW a \in Addrs
                 PROVE  IndexedCandidateHit(a) <=> ScanCandidateHit(a)
        BY DEF IndexedAgreesWithScan
    <2> DEFINE v == remote_candidate_addr_index[a]
    <2>1. v \in [Sessions -> {0, 1}] \cup {Absent} /\ v # NewVec(Sessions)
        BY DEF DemuxInv, TypeOK, NoEmptyEntries
    <2>2. v # Absent => \E s \in Sessions : v[s] > 0
        <3> SUFFICES ASSUME v # Absent, \A s \in Sessions : ~(v[s] > 0)
                     PROVE  FALSE
            OBVIOUS
        <3>1. v \in [Sessions -> {0, 1}] /\ \A s \in Sessions : v[s] = 0
            BY <2>1
        <3>2. v = NewVec(Sessions)
            BY <3>1 DEF NewVec
        <3> QED
            BY <2>1, <3>2
    <2>3. IndexedCandidateHit(a) <=> v # Absent
        BY <2>1 DEF IndexedCandidateHit
    <2>4. v # Absent <=> \E s \in Sessions : Contains(v, s)
        BY <2>2 DEF Contains
    <2> QED
        BY <2>3, <2>4 DEF DemuxInv, CandidatesMatchLists, ScanCandidateHit
<1> QED
    BY <1>1, DemuxInit, DemuxStep, PTL DEF Spec

-----------------------------------------------------------------------------
(* The demultiplexer implements the address book.                            *)

LEMMA BookInit == Init => Book!Init
BY DEF Init, Book!Init, Contains

LEMMA BookStep == DemuxInv /\ [Next]_vars => [Book!Next]_(Book!vars)
<1> SUFFICES ASSUME DemuxInv, [Next]_vars PROVE Book!Next \/ UNCHANGED Book!vars
    OBVIOUS
<1> DEFINE Bindings   == {b \in Addrs \X Sessions :
                              Contains(remote_addrs_by_session[b[2]], b[1])}
           Candidates == {c \in Addrs \X Sessions :
                              Contains(remote_candidate_addr_index[c[1]], c[2])}
<1>1. ASSUME NEW a \in Addrs, NEW s \in Sessions, RememberRemoteAddr(a, s)
      PROVE  Book!Next
    <2>1. Candidates' = Candidates
        BY <1>1 DEF RememberRemoteAddr, candidateVars
    <2>2. \A b \in Addrs \X Sessions : b \in Bindings' <=>
              IF b[1] = a THEN b[2] = s ELSE b \in Bindings
        BY <1>1, RememberStep
    <2>3. Bindings' = {b \in Bindings : b[1] # a} \cup {<<a, s>>}
        <3>1. \A b \in Bindings' : b \in {c \in Bindings : c[1] # a} \cup {<<a, s>>}
            BY <2>2
        <3>2. \A b \in {c \in Bindings : c[1] # a} \cup {<<a, s>>} : b \in Bindings'
            BY <2>2
        <3> QED
            BY <3>1, <3>2
    <2>4. Book!Bind(a, s)
        BY <2>1, <2>3 DEF Book!Bind
    <2> QED
        BY <2>4 DEF Book!Next
<1>2. ASSUME NEW s \in Sessions, NEW addrs \in [Addrs -> 0 .. MaxRepeat],
             ReplaceSessionRemoteCandidateAddrs(s, addrs)
      PROVE  Book!Next
    <2> DEFINE A == {a \in Addrs : addrs[a] > 0}
               New == {<<a, s>> : a \in A}
    <2>1. Bindings' = Bindings
        BY <1>2 DEF ReplaceSessionRemoteCandidateAddrs, bindingVars
    <2>2. \A c \in Addrs \X Sessions : c \in Candidates' <=>
              IF c[2] = s THEN addrs[c[1]] > 0 ELSE c \in Candidates
        BY <1>2, ReplaceStep
    <2>3. Candidates' = {c \in Candidates : c[2] # s} \cup New
        <3>1. \A c \in Candidates' : c \in {d \in Candidates : d[2] # s} \cup New
            BY <2>2
        <3>2. \A c \in {d \in Candidates : d[2] # s} \cup New : c \in Candidates'
            BY <2>2
        <3> QED
            BY <3>1, <3>2
    <2>4. Book!Announce(s, A)
        BY <2>1, <2>3 DEF Book!Announce
    <2> QED
        BY <2>4 DEF Book!Next
<1>3. CASE UNCHANGED vars
    BY <1>3 DEF vars, bindingVars, candidateVars, Book!vars
<1> QED
    BY <1>1, <1>2, <1>3 DEF Next

\* Any sequence of calls behaves like operations on two plain relations.
THEOREM Refinement == Spec => ImplementsAddressBook
BY DemuxInit, DemuxStep, BookInit, BookStep, PTL
   DEF Spec, ImplementsAddressBook, Book!Spec

-----------------------------------------------------------------------------
(* The fixtures.                                                             *)

\* The sessions added so far, one per probe address.
Added == 1 .. Len(probe_addrs)

AddrsOK ==
    /\ fixture \in {"demux", "recovery"} /\ session_count \in Counts
    /\ probe_addrs \in Seq(Nat) /\ Len(probe_addrs) <= session_count
    /\ \A k \in Added : /\ probe_addrs[k] = FirstRemotePort + (k - 1)
                        /\ probe_addrs[k] <= MaxPort

BoundOK ==
    fixture = "demux" =>
        \A k \in Added : remote_addr_index[probe_addrs[k]] = k - 1 /\ k - 1 \in live_sessions

AnnouncedOK ==
    fixture = "recovery" =>
        /\ session_candidate_addrs \in Seq(Nat \X Nat)
        /\ Len(session_candidate_addrs) = Len(probe_addrs)
        /\ \A k \in Added :
             /\ session_candidate_addrs[k] = <<k - 1, probe_addrs[k]>>
             /\ Contains(remote_candidate_addr_index[probe_addrs[k]], k - 1)

PhaseOK ==
    /\ phase \in {"new", "built", "none"}
    /\ phase = "none" => session_count = 0 \/ session_count > MaxPort + 1 - FirstRemotePort
    /\ phase = "built" => session_count > 0 /\ Len(probe_addrs) = session_count

\* Every address probed so far was a hit.
CycleOK ==
    /\ probed \in Nat /\ hits \in Nat
    /\ cycle # "none" => /\ phase = "built" /\ cycle \in CyclesOf(fixture)
                         /\ probed <= Len(probe_addrs) /\ hits = probed
    /\ result # -1 => phase = "built" /\ result = session_count

FixtureInv == DemuxInv /\ AddrsOK /\ BoundOK /\ AnnouncedOK /\ PhaseOK /\ CycleOK

-----------------------------------------------------------------------------

LEMMA FixtureInitOK == FixtureInit => FixtureInv
<1> SUFFICES ASSUME FixtureInit PROVE FixtureInv
    OBVIOUS
<1> USE FixtureAssumption
<1>1. DemuxInv
    BY DemuxInit DEF FixtureInit
<1>2. AddrsOK /\ BoundOK
    BY DEF FixtureInit, AddrsOK, BoundOK, Added
<1>3. AnnouncedOK
    BY DEF FixtureInit, AnnouncedOK, Added
<1>4. PhaseOK /\ CycleOK
    BY DEF FixtureInit, PhaseOK, CycleOK
<1> QED
    BY <1>1, <1>2, <1>3, <1>4 DEF FixtureInv

\* What an iteration of new() asks of the demultiplexer.
LEMMA AddSessionCalls ==
    ASSUME FixtureInv, AddSession
    PROVE  /\ Next
           /\ Idx \in Sessions /\ BenchmarkRemoteAddr(Idx) \in Addrs
           /\ BenchmarkRemoteAddr(Idx) = FirstRemotePort + Idx
<1> USE FixtureAssumption
<1> DEFINE addr   == BenchmarkRemoteAddr(Idx)
           vector == [a \in Addrs |-> IF a = addr THEN 1 ELSE 0]
<1>1. Idx \in Nat /\ session_count \in Nat /\ Idx < session_count /\ addr # None
    BY DEF FixtureInv, AddrsOK, AddSession, Idx
<1>2. Idx \in Sessions
    BY <1>1 DEF FixtureInv, AddrsOK
<1>3. addr = FirstRemotePort + Idx /\ addr \in Addrs
    BY <1>1 DEF BenchmarkRemoteAddr
<1>4. Next
    <2>1. CASE fixture = "demux"
        <3>1. RememberRemoteAddr(addr, Idx)
            BY <2>1 DEF AddSession
        <3> QED
            BY <1>2, <1>3, <3>1 DEF Next
    <2>2. CASE fixture # "demux"
        <3>1. ReplaceSessionRemoteCandidateAddrs(Idx, vector)
            BY <2>2 DEF AddSession
        <3>2. vector \in [Addrs -> 0 .. MaxRepeat]
            BY ConstantsAssumption
        <3> QED
            BY <1>2, <3>1, <3>2 DEF Next
    <2> QED
        BY <2>1, <2>2
<1> QED
    BY <1>2, <1>3, <1>4

LEMMA AddSessionStep == FixtureInv /\ AddSession => FixtureInv'
<1> SUFFICES ASSUME FixtureInv, AddSession PROVE FixtureInv'
    OBVIOUS
<1> USE FixtureAssumption
<1> DEFINE addr   == BenchmarkRemoteAddr(Idx)
           vector == [a \in Addrs |-> IF a = addr THEN 1 ELSE 0]
<1>1. /\ phase = "new" /\ Idx < session_count /\ probe_addrs' = Append(probe_addrs, addr)
      /\ fixture' = fixture /\ session_count' = session_count /\ UNCHANGED <<phase, cycleVars>>
    BY DEF AddSession
<1>2. Next /\ Idx \in Sessions /\ addr \in Addrs /\ addr = FirstRemotePort + Idx
    BY AddSessionCalls
<1> HIDE DEF addr
<1>3. DemuxInv'
    BY <1>2, DemuxStep DEF FixtureInv
<1>4. /\ AddrsOK /\ Idx \in Nat /\ Idx = Len(probe_addrs) /\ addr \in Nat /\ addr <= MaxPort
      /\ session_count \in Nat
    BY <1>2 DEF FixtureInv, AddrsOK, Idx
<1>5. /\ Added' = Added \cup {Idx + 1} /\ probe_addrs'[Idx + 1] = addr
      /\ Len(probe_addrs') = Idx + 1
      /\ \A k \in Added : probe_addrs'[k] = probe_addrs[k]
    BY <1>1, <1>4 DEF AddrsOK, Added
<1>6. AddrsOK'
    <2>1. \A k \in Added' : probe_addrs'[k] = FirstRemotePort + (k - 1) /\ probe_addrs'[k] <= MaxPort
        BY <1>2, <1>4, <1>5 DEF AddrsOK
    <2>2. probe_addrs' \in Seq(Nat) /\ Len(probe_addrs') <= session_count
        BY <1>1, <1>4, <1>5 DEF AddrsOK
    <2> QED
        BY <1>1, <1>4, <2>1, <2>2 DEF AddrsOK
<1>7. \A k \in Added : probe_addrs[k] \in Addrs /\ probe_addrs[k] # addr /\ k - 1 \in Nat /\ k - 1 # Idx
    BY <1>2, <1>4 DEF AddrsOK, Added
<1>8. BoundOK'
    <2>1. CASE fixture = "demux"
        <3>1. RememberRemoteAddr(addr, Idx) /\ live_sessions' = live_sessions \cup {Idx}
            BY <2>1 DEF AddSession, addr, Live
        <3>2. /\ remote_addr_index' = [remote_addr_index EXCEPT ![addr] = Idx]
              /\ remote_addr_index \in [Addrs -> Sessions \cup {Absent}]
            BY <3>1 DEF RememberRemoteAddr, FixtureInv, DemuxInv, TypeOK
        <3>3. \A k \in Added : remote_addr_index[probe_addrs[k]] = k - 1 /\ k - 1 \in live_sessions
            BY <2>1 DEF FixtureInv, BoundOK
        <3>4. \A k \in Added' : remote_addr_index'[probe_addrs'[k]] = k - 1 /\ k - 1 \in live_sessions'
            <4>1. ASSUME NEW k \in Added
                  PROVE  remote_addr_index'[probe_addrs'[k]] = k - 1 /\ k - 1 \in live_sessions'
                BY <1>2, <1>5, <1>7, <3>1, <3>2, <3>3
            <4>2. remote_addr_index'[probe_addrs'[Idx + 1]] = (Idx + 1) - 1 /\ (Idx + 1) - 1 \in live_sessions'
                BY <1>2, <1>4, <1>5, <3>1, <3>2
            <4> QED
                BY <1>5, <4>1, <4>2
        <3> QED
            BY <3>4 DEF BoundOK
    <2>2. CASE fixture # "demux"
        BY <1>1, <2>2 DEF BoundOK
    <2> QED
        BY <2>1, <2>2
<1>9. AnnouncedOK'
    <2>1. CASE fixture # "demux"
        <3>1. /\ ReplaceSessionRemoteCandidateAddrs(Idx, vector)
              /\ session_candidate_addrs' = Append(session_candidate_addrs, <<Idx, addr>>)
            BY <2>1 DEF AddSession, addr
        <3>2. vector \in [Addrs -> 0 .. MaxRepeat]
            BY ConstantsAssumption
        <3>3. \A a \in Addrs, t \in Sessions :
                  Contains(remote_candidate_addr_index'[a], t)
                      <=> IF t = Idx THEN vector[a] > 0
                                     ELSE Contains(remote_candidate_addr_index[a], t)
            BY <1>2, <3>1, <3>2, ReplaceStep DEF FixtureInv
        <3>4. /\ session_candidate_addrs \in Seq(Nat \X Nat)
              /\ Len(session_candidate_addrs) = Idx
              /\ \A k \in Added : /\ session_candidate_addrs[k] = <<k - 1, probe_addrs[k]>>
                                  /\ Contains(remote_candidate_addr_index[probe_addrs[k]], k - 1)
            BY <1>4, <2>1 DEF FixtureInv, AddrsOK, AnnouncedOK
        <3>5. /\ session_candidate_addrs' \in Seq(Nat \X Nat)
              /\ Len(session_candidate_addrs') = Idx + 1
              /\ session_candidate_addrs'[Idx + 1] = <<Idx, addr>>
              /\ \A k \in Added : session_candidate_addrs'[k] = session_candidate_addrs[k]
            BY <1>4, <3>1, <3>4 DEF Added
        <3>6. ASSUME NEW k \in Added
              PROVE  /\ session_candidate_addrs'[k] = <<k - 1, probe_addrs'[k]>>
                     /\ Contains(remote_candidate_addr_index'[probe_addrs'[k]], k - 1)
            <4>1. k - 1 \in Sessions
                BY <1>1, <1>4 DEF AddrsOK, Added
            <4> QED
                BY <1>5, <1>7, <3>3, <3>4, <3>5, <4>1
        <3>7. /\ session_candidate_addrs'[Idx + 1] = <<(Idx + 1) - 1, probe_addrs'[Idx + 1]>>
              /\ Contains(remote_candidate_addr_index'[probe_addrs'[Idx + 1]], (Idx + 1) - 1)
            <4>1. vector[addr] = 1 /\ (Idx + 1) - 1 = Idx
                BY <1>2, <1>4
            <4>2. Contains(remote_candidate_addr_index'[addr], Idx)
                BY <1>2, <3>3, <4>1
            <4> QED
                BY <1>5, <3>5, <4>1, <4>2
        <3>8. \A k \in Added' :
                 /\ session_candidate_addrs'[k] = <<k - 1, probe_addrs'[k]>>
                 /\ Contains(remote_candidate_addr_index'[probe_addrs'[k]], k - 1)
            BY <1>5, <3>6, <3>7
        <3> QED
            BY <1>5, <3>5, <3>8 DEF AnnouncedOK, Contains
    <2>2. CASE fixture = "demux"
        BY <1>1, <2>2 DEF AnnouncedOK
    <2> QED
        BY <2>1, <2>2
<1>10. PhaseOK' /\ CycleOK'
    BY <1>1 DEF FixtureInv, PhaseOK, CycleOK, cycleVars
<1> QED
    BY <1>3, <1>6, <1>8, <1>9, <1>10 DEF FixtureInv

\* Every address is found by every cycle of its fixture.
LEMMA ProbeHits ==
    ASSUME FixtureInv, cycle # "none", NEW k \in Added
    PROVE  Hit(probe_addrs[k])
<1> USE FixtureAssumption
<1> DEFINE addr == probe_addrs[k]
<1>1. addr \in Addrs /\ k - 1 \in Sessions
    BY DEF FixtureInv, AddrsOK, Added
<1>2. cycle \in CyclesOf(fixture)
    BY DEF FixtureInv, CycleOK
<1>3. CASE fixture = "demux"
    <2>1. remote_addr_index[addr] = k - 1 /\ k - 1 \in live_sessions
        BY <1>3 DEF FixtureInv, BoundOK
    <2>2. Contains(remote_addrs_by_session[k - 1], addr)
        BY <1>1, <2>1 DEF FixtureInv, DemuxInv, IndexMatchesLists
    <2>3. CachedHit(addr, live_sessions) /\ ScanHit(addr, live_sessions)
        BY <1>1, <2>1, <2>2, ConstantsAssumption DEF CachedHit, ScanHit
    <2>4. cycle \in {"cached_lookup", "linear_scan"}
        BY <1>2, <1>3 DEF CyclesOf
    <2> QED
        BY <2>3, <2>4 DEF Hit
<1>4. CASE fixture # "demux"
    <2>1. /\ session_candidate_addrs[k] = <<k - 1, addr>> /\ k \in 1 .. Len(session_candidate_addrs)
          /\ Contains(remote_candidate_addr_index[addr], k - 1)
        BY <1>4 DEF FixtureInv, AddrsOK, AnnouncedOK, Added
    <2>2. AnnouncedHit(addr)
        BY <2>1 DEF AnnouncedHit
    <2>3. IndexedCandidateHit(addr)
        BY <1>1, <2>1 DEF IndexedCandidateHit, Contains, NewVec
    <2>4. cycle \in {"indexed_lookup", "candidate_scan"}
        BY <1>2, <1>4 DEF CyclesOf
    <2> QED
        BY <2>2, <2>3, <2>4 DEF Hit
<1> QED
    BY <1>3, <1>4

\* A step after new() leaves what it has built.
LEMMA BuiltUnchanged ==
    ASSUME FixtureInv, UNCHANGED <<demuxVars, builtVars>>
    PROVE  DemuxInv' /\ AddrsOK' /\ BoundOK' /\ AnnouncedOK'
<1>1. DemuxInv'
    BY DemuxStep DEF FixtureInv, demuxVars, vars
<1>2. AddrsOK'
    BY DEF FixtureInv, AddrsOK, Added, builtVars
<1>3. BoundOK'
    BY DEF FixtureInv, BoundOK, Added, builtVars, demuxVars, bindingVars
<1>4. AnnouncedOK'
    BY DEF FixtureInv, AnnouncedOK, Added, Contains, builtVars, demuxVars, candidateVars
<1> QED
    BY <1>1, <1>2, <1>3, <1>4

LEMMA FixtureStep == FixtureInv /\ [FixtureNext]_fixtureVars => FixtureInv'
<1> SUFFICES ASSUME FixtureInv, [FixtureNext]_fixtureVars, ~AddSession PROVE FixtureInv'
    BY AddSessionStep
<1> USE FixtureAssumption
<1>1. UNCHANGED <<demuxVars, builtVars>>
    BY DEF FixtureNext, GiveUp, Built, Call, Probe, Return, fixtureVars
<1>2. DemuxInv' /\ AddrsOK' /\ BoundOK' /\ AnnouncedOK'
    BY <1>1, BuiltUnchanged
<1>3. /\ fixture' = fixture /\ session_count' = session_count /\ probe_addrs' = probe_addrs
      /\ session_count \in Nat /\ Len(probe_addrs) \in Nat
    BY <1>1 DEF builtVars, FixtureInv, AddrsOK
<1>4. PhaseOK /\ CycleOK /\ AddrsOK
    BY DEF FixtureInv
<1>5. PhaseOK' /\ CycleOK'
    <2>1. CASE GiveUp
        <3>1. CASE session_count = 0
            BY <1>3, <1>4, <2>1, <3>1 DEF GiveUp, PhaseOK, CycleOK, cycleVars
        <3>2. CASE Idx < session_count /\ BenchmarkRemoteAddr(Idx) = None
            <4>1. Idx \in Nat /\ FirstRemotePort + Idx > MaxPort
                BY <1>3, <3>2 DEF BenchmarkRemoteAddr, Idx
            <4>2. session_count > MaxPort + 1 - FirstRemotePort
                BY <1>3, <3>2, <4>1
            <4> QED
                BY <1>3, <1>4, <2>1, <4>2 DEF GiveUp, PhaseOK, CycleOK, cycleVars
        <3> QED
            BY <2>1, <3>1, <3>2 DEF GiveUp
    <2>2. CASE Built
        BY <1>3, <1>4, <2>2 DEF Built, PhaseOK, CycleOK, cycleVars, Idx
    <2>3. ASSUME NEW c \in CyclesOf(fixture), Call(c) PROVE PhaseOK' /\ CycleOK'
        BY <1>3, <1>4, <2>3 DEF Call, PhaseOK, CycleOK
    <2>4. CASE Probe
        <3>1. probed + 1 \in Added
            BY <1>3, <1>4, <2>4 DEF Probe, CycleOK, Added
        <3>2. Hit(probe_addrs[probed + 1])
            BY <2>4, <3>1, ProbeHits DEF Probe
        <3> QED
            BY <1>3, <1>4, <2>4, <3>2 DEF Probe, PhaseOK, CycleOK
    <2>5. CASE Return
        BY <1>3, <1>4, <2>5 DEF Return, PhaseOK, CycleOK
    <2>6. CASE UNCHANGED fixtureVars
        BY <1>3, <1>4, <2>6 DEF fixtureVars, cycleVars, PhaseOK, CycleOK
    <2> QED
        BY <2>1, <2>2, <2>3, <2>4, <2>5, <2>6 DEF FixtureNext
<1> QED
    BY <1>2, <1>5 DEF FixtureInv

-----------------------------------------------------------------------------

\* new() makes calls the demultiplexer allows, and nothing else touches it:
\* its invariants and its refinement of the address book hold in the fixtures.
THEOREM FixturesUseDemux == FixtureSpec => Spec
<1>1. FixtureInit => Init
    BY DEF FixtureInit
<1>2. FixtureInv /\ [FixtureNext]_fixtureVars => [Next]_vars
    BY AddSessionCalls DEF FixtureNext, GiveUp, Built, Call, Probe, Return, fixtureVars, demuxVars, vars
<1> QED
    BY <1>1, <1>2, FixtureInitOK, FixtureStep, PTL DEF Spec, FixtureSpec

\* For every number of sessions, new() builds one session per port, or gives up
\* because there is none or because the ports do not suffice.
THEOREM BuiltCorrect == FixtureSpec => []BuiltExact
<1>1. FixtureInv => BuiltExact
    <2> SUFFICES ASSUME FixtureInv PROVE BuiltExact
        OBVIOUS
    <2>1. CASE phase = "built"
        <3>1. session_count \in Nat /\ session_count > 0 /\ Len(probe_addrs) = session_count
            BY <2>1, FixtureAssumption DEF FixtureInv, PhaseOK, AddrsOK
        <3>2. \A k \in 1 .. session_count :
                 probe_addrs[k] = FirstRemotePort + (k - 1) /\ probe_addrs[k] <= MaxPort
            BY <3>1 DEF FixtureInv, AddrsOK, Added
        <3>3. session_count \in 1 .. MaxPort + 1 - FirstRemotePort
            BY <3>1, <3>2, FixtureAssumption
        <3> QED
            BY <2>1, <3>1, <3>2, <3>3
               DEF FixtureInv, AddrsOK, BoundOK, AnnouncedOK, Added, BuiltExact
    <2>2. CASE phase # "built"
        BY <2>2 DEF FixtureInv, PhaseOK, BuiltExact
    <2> QED
        BY <2>1, <2>2
<1> QED
    BY <1>1, FixtureInitOK, FixtureStep, PTL DEF FixtureSpec

\* For every number of sessions, all four cycles count one hit per session.
THEOREM EveryProbeCorrect == FixtureSpec => []EveryProbeHits
<1>1. FixtureInv => EveryProbeHits
    BY DEF FixtureInv, CycleOK, EveryProbeHits
<1> QED
    BY <1>1, FixtureInitOK, FixtureStep, PTL DEF FixtureSpec
=============================================================================
