---------------------- MODULE PerformanceHardeningProofs ----------------------
(* The four loops of performance_hardening.rs, for every number of requests, *)
(* marks, packets and destinations: merging the neighbours of a sorted list  *)
(* gives the requests a map gives, a channel is woken once, and every cycle  *)
(* returns what its sizes demand.                                            *)
EXTENDS PerformanceHardening, FiniteSetTheorems, TLAPS

-----------------------------------------------------------------------------
(* Sorting. *)

\* A stable sort is a bijection that respects the keys, and among equal keys the
\* order there was.
LEMMA StableOrderFacts ==
    ASSUME NEW S, \A i \in S : i \in Int, IsFiniteSet(S),
           NEW key, \A i \in S : key[i] \in Int
    PROVE  LET n == Cardinality(S)
               o == StableOrder(S, key)
           IN  /\ n \in Nat
               /\ o \in [1 .. n -> S]
               /\ \A i \in S : \E k \in 1 .. n : o[k] = i
               /\ \A j, k \in 1 .. n : j < k =>
                    \/ key[o[j]] < key[o[k]]
                    \/ key[o[j]] = key[o[k]] /\ o[j] < o[k]
<1> DEFINE n == Cardinality(S)
           o == StableOrder(S, key)
           before(j, i) == key[j] < key[i] \/ (key[j] = key[i] /\ j < i)
           B(i) == {j \in S : before(j, i)}
           rank(i) == Cardinality(B(i))
<1>1. n \in Nat
  BY FS_CardinalityType
<1>2. \A i, j \in S : i # j => before(i, j) \/ before(j, i)
  OBVIOUS
<1>3. \A i \in S : ~ before(i, i)
  OBVIOUS
<1>4. \A i, j, k \in S : before(i, j) /\ before(j, k) => before(i, k)
  OBVIOUS
<1>o. o = [k \in 1 .. n |-> CHOOSE i \in S : rank(i) = k - 1]
  BY DEF StableOrder
<1> HIDE DEF before, o, n
<1>5. \A i \in S : /\ IsFiniteSet(B(i)) /\ rank(i) \in Nat /\ i \notin B(i)
                   /\ B(i) \in SUBSET S
  BY <1>3, FS_Subset, FS_CardinalityType
<1>6. ASSUME NEW i \in S PROVE rank(i) + 1 <= n
  <2>1. /\ B(i) \cup {i} \in SUBSET S
        /\ Cardinality(B(i) \cup {i}) = rank(i) + 1
    BY <1>5, FS_AddElement
  <2> QED BY <2>1, FS_Subset DEF n
<1>7. ASSUME NEW i \in S, NEW j \in S, before(j, i) PROVE rank(j) < rank(i)
  <2>1. /\ B(j) \cup {j} \in SUBSET B(i)
        /\ Cardinality(B(j) \cup {j}) = rank(j) + 1
    BY <1>4, <1>5, <1>7, FS_AddElement
  <2>2. IsFiniteSet(B(i)) /\ rank(j) \in Nat /\ rank(i) \in Nat
    BY <1>5
  <2> HIDE DEF B
  <2>3. Cardinality(B(j) \cup {j}) <= Cardinality(B(i))
    BY <2>1, <2>2, FS_Subset
  <2> QED BY <2>1, <2>2, <2>3
<1> HIDE DEF B
<1>8. \A i, j \in S : rank(i) = rank(j) => i = j
  BY <1>2, <1>5, <1>7
<1>9. \A k \in 1 .. n : \E i \in S : rank(i) = k - 1
  <2> DEFINE f == [i \in S |-> rank(i) + 1]
  <2>1. f \in [S -> 1 .. n]
    BY <1>1, <1>5, <1>6
  <2>2. f \in Injection(S, 1 .. n)
    BY <1>5, <1>8, <2>1 DEF Injection, IsInjective
  <2>3. IsFiniteSet(1 .. n) /\ Cardinality(1 .. n) = n
    BY <1>1, FS_Interval
  <2>4. f \in Surjection(S, 1 .. n)
    BY <2>2, <2>3, FS_Injection DEF n
  <2>5. \A k \in 1 .. n : \E i \in S : f[i] = k
    BY <2>4 DEF Surjection
  <2> QED BY <1>5, <2>5
<1>10. \A k \in 1 .. n : o[k] \in S /\ rank(o[k]) = k - 1
  BY <1>9, <1>o
<1>11. o \in [1 .. n -> S]
  BY <1>10, <1>o
<1>12. ASSUME NEW i \in S PROVE \E k \in 1 .. n : o[k] = i
  <2>1. rank(i) + 1 \in 1 .. n
    BY <1>1, <1>5, <1>6
  <2>2. rank(o[rank(i) + 1]) = rank(i) /\ o[rank(i) + 1] \in S
    BY <1>5, <1>10, <2>1
  <2> QED BY <1>8, <2>1, <2>2
<1>13. ASSUME NEW j \in 1 .. n, NEW k \in 1 .. n, j < k PROVE before(o[j], o[k])
  <2>1. o[j] \in S /\ o[k] \in S /\ rank(o[j]) < rank(o[k])
    BY <1>1, <1>10, <1>13
  <2>2. rank(o[j]) \in Nat /\ rank(o[k]) \in Nat
    BY <1>5, <2>1
  <2>3. o[j] # o[k]
    BY <2>1, <2>2
  <2>4. ~ before(o[k], o[j])
    <3>1. ASSUME before(o[k], o[j]) PROVE FALSE
      <4>1. rank(o[k]) < rank(o[j])
        BY <1>7, <2>1, <3>1
      <4> QED BY <2>1, <2>2, <4>1
    <3> QED BY <3>1
  <2> QED BY <1>2, <2>1, <2>3, <2>4
<1>14. \A j, k \in 1 .. n : j < k => before(o[j], o[k])
  BY <1>13
<1> QED BY <1>1, <1>11, <1>12, <1>14 DEF before, o, n

\* What comes first in the order of the integers themselves is the least.
LEMMA LeastExists ==
    ASSUME NEW S, \A i \in S : i \in Int, IsFiniteSet(S), S # {}
    PROVE  \E m \in S : \A i \in S : m <= i
<1> DEFINE key == [i \in S |-> i]
           n == Cardinality(S)
           o == StableOrder(S, key)
<1>1. \A i \in S : key[i] = i
  OBVIOUS
<1> HIDE DEF key
<1>2. /\ n \in Nat /\ o \in [1 .. n -> S]
      /\ \A i \in S : \E k \in 1 .. n : o[k] = i
      /\ \A j, k \in 1 .. n : j < k =>
           key[o[j]] < key[o[k]] \/ (key[o[j]] = key[o[k]] /\ o[j] < o[k])
  <2>1. \A i \in S : key[i] \in Int
    BY <1>1
  <2> QED BY <2>1, StableOrderFacts
<1> HIDE DEF o, n
<1>3. 1 \in 1 .. n
  BY <1>2
<1>4. \A k \in 1 .. n : o[1] <= o[k]
  BY <1>1, <1>2, <1>3
<1> QED BY <1>2, <1>3, <1>4

LEMMA AscendingFacts ==
    ASSUME NEW m \in Nat, NEW ids \in [1 .. m -> Nat]
    PROVE  /\ Ascending(ids) \in [1 .. m -> Nat]
           /\ \A i \in 1 .. m : \E k \in 1 .. m : Ascending(ids)[k] = ids[i]
           /\ \A k \in 1 .. m : \E i \in 1 .. m : Ascending(ids)[k] = ids[i]
           /\ \A j, k \in 1 .. m : j < k => Ascending(ids)[j] <= Ascending(ids)[k]
<1> DEFINE S == 1 .. m
           key == ids
           n == Cardinality(S)
           o == StableOrder(S, key)
<1>0. (\A i \in S : i \in Int) /\ \A i \in S : key[i] \in Int
  OBVIOUS
<1>1. IsFiniteSet(S)
  BY FS_Interval
<1>2. n = m
  BY FS_Interval
<1>3. Ascending(ids) = [k \in S |-> key[o[k]]]
  BY DEF Ascending
<1>4. \A i \in 1 .. m : key[i] = ids[i] /\ ids[i] \in Nat
  OBVIOUS
<1> HIDE DEF S, key
<1>5. /\ n \in Nat /\ o \in [1 .. n -> S]
      /\ \A i \in S : \E k \in 1 .. n : o[k] = i
      /\ \A j, k \in 1 .. n : j < k =>
           key[o[j]] < key[o[k]] \/ (key[o[j]] = key[o[k]] /\ o[j] < o[k])
  BY <1>0, <1>1, StableOrderFacts
<1> HIDE DEF o, n
<1>6. /\ o \in [1 .. m -> 1 .. m]
      /\ \A i \in 1 .. m : \E k \in 1 .. m : o[k] = i
      /\ \A j, k \in 1 .. m : j < k =>
           key[o[j]] < key[o[k]] \/ (key[o[j]] = key[o[k]] /\ o[j] < o[k])
  BY <1>2, <1>5 DEF S
<1>7. Ascending(ids) = [k \in 1 .. m |-> ids[o[k]]]
  BY <1>3, <1>4, <1>6 DEF S
<1>8. \A j, k \in 1 .. m : j < k => ids[o[j]] <= ids[o[k]]
  <2> SUFFICES ASSUME NEW j \in 1 .. m, NEW k \in 1 .. m, j < k PROVE ids[o[j]] <= ids[o[k]]
    OBVIOUS
  <2>1. o[j] \in 1 .. m /\ o[k] \in 1 .. m
    BY <1>6
  <2>2. key[o[j]] = ids[o[j]] /\ key[o[k]] = ids[o[k]] /\ ids[o[j]] \in Nat /\ ids[o[k]] \in Nat
    BY <1>4, <2>1
  <2>3. key[o[j]] < key[o[k]] \/ key[o[j]] = key[o[k]]
    BY <1>6
  <2> QED BY <2>2, <2>3
<1> DEFINE sorted == Ascending(ids)
<1>9. \A k \in 1 .. m : sorted[k] = ids[o[k]] /\ o[k] \in 1 .. m
  BY <1>6, <1>7
<1>10. sorted \in [1 .. m -> Nat]
  BY <1>4, <1>7, <1>6
<1> HIDE DEF sorted
<1>11. ASSUME NEW i \in 1 .. m PROVE \E k \in 1 .. m : sorted[k] = ids[i]
  <2>1. PICK k \in 1 .. m : o[k] = i
    BY <1>6
  <2>2. sorted[k] = ids[i]
    BY <1>9, <2>1
  <2> QED BY <2>2
<1>12. \A k \in 1 .. m : \E i \in 1 .. m : sorted[k] = ids[i]
  BY <1>9
<1>13. \A j, k \in 1 .. m : j < k => sorted[j] <= sorted[k]
  BY <1>8, <1>9
<1> QED BY <1>10, <1>11, <1>12, <1>13 DEF sorted

\* Removing equal neighbours from a sorted list leaves each value once.
LEMMA DedupFacts ==
    ASSUME NEW m \in Nat, NEW ids \in [1 .. m -> Nat],
           \A j, k \in 1 .. m : j < k => ids[j] <= ids[k]
    PROVE  /\ Dedup(ids) \in Seq(Nat)
           /\ \A i \in 1 .. m : \E k \in DOMAIN Dedup(ids) : Dedup(ids)[k] = ids[i]
           /\ \A k \in DOMAIN Dedup(ids) : \E i \in 1 .. m : Dedup(ids)[k] = ids[i]
           /\ \A j, k \in DOMAIN Dedup(ids) : j # k => Dedup(ids)[j] # Dedup(ids)[k]
<1> DEFINE kept == {k \in 1 .. m : k = 1 \/ ids[k - 1] # ids[k]}
           key == [k \in kept |-> k]
           c == Cardinality(kept)
           o == StableOrder(kept, key)
<1>1. IsFiniteSet(1 .. m)
  BY FS_Interval
<1>2. (\A k \in kept : k \in 1 .. m) /\ IsFiniteSet(kept)
  BY <1>1, FS_Subset
<1>3. /\ c \in Nat /\ o \in [1 .. c -> kept]
      /\ \A i \in kept : \E k \in 1 .. c : o[k] = i
      /\ \A j, k \in 1 .. c : j < k => o[j] < o[k]
  <2>1. \A i \in kept : key[i] = i
    OBVIOUS
  <2> HIDE DEF key, kept
  <2>2. (\A i \in kept : i \in Int) /\ \A i \in kept : key[i] \in Int
    BY <1>2, <2>1
  <2>3. /\ c \in Nat /\ o \in [1 .. c -> kept]
        /\ \A i \in kept : \E k \in 1 .. c : o[k] = i
        /\ \A j, k \in 1 .. c : j < k =>
             key[o[j]] < key[o[k]] \/ (key[o[j]] = key[o[k]] /\ o[j] < o[k])
    BY <1>2, <2>2, StableOrderFacts
  <2> QED BY <2>1, <2>3
<1>4. Dedup(ids) = [n \in 1 .. c |-> ids[o[n]]]
  BY DEF Dedup
<1> HIDE DEF o, c, key
<1>5. \A j, k \in kept : j < k => ids[j] # ids[k]
  <2> SUFFICES ASSUME NEW j \in kept, NEW k \in kept, j < k PROVE ids[j] # ids[k]
    OBVIOUS
  <2>1. k - 1 \in 1 .. m /\ ids[k - 1] # ids[k]
    OBVIOUS
  <2>2. ids[k - 1] < ids[k]
    BY <2>1
  <2>3. ids[j] <= ids[k - 1]
    BY <2>1
  <2> QED BY <2>1, <2>2, <2>3
<1>6. ASSUME NEW i \in 1 .. m PROVE \E k \in kept : ids[k] = ids[i]
  <2> DEFINE same == {k \in 1 .. m : ids[k] = ids[i]}
  <2>1. (\A k \in same : k \in Int) /\ IsFiniteSet(same) /\ same # {}
    BY <1>1, FS_Subset
  <2>2. PICK k \in same : \A l \in same : k <= l
    BY <2>1, LeastExists
  <2>3. k \in kept
    <3>1. CASE k = 1
      BY <3>1
    <3>2. CASE k # 1
      <4>1. k - 1 \in 1 .. m /\ k - 1 \notin same
        BY <2>2, <3>2
      <4> QED BY <4>1
    <3> QED BY <3>1, <3>2
  <2> QED BY <2>3
<1> HIDE DEF kept
<1>7. Dedup(ids) \in [1 .. c -> Nat]
  BY <1>2, <1>3, <1>4
<1>8. \A j, k \in 1 .. c : j # k => Dedup(ids)[j] # Dedup(ids)[k]
  <2>1. \A j, k \in 1 .. c : j < k => Dedup(ids)[j] # Dedup(ids)[k]
    BY <1>3, <1>4, <1>5
  <2> QED BY <2>1, <1>3
<1>9. \A i \in 1 .. m : \E k \in 1 .. c : Dedup(ids)[k] = ids[i]
  <2> SUFFICES ASSUME NEW i \in 1 .. m PROVE \E k \in 1 .. c : Dedup(ids)[k] = ids[i]
    OBVIOUS
  <2>1. PICK l \in kept : ids[l] = ids[i]
    BY <1>6
  <2>2. PICK k \in 1 .. c : o[k] = l
    BY <1>3
  <2> QED BY <1>4, <2>1, <2>2
<1>10. \A k \in 1 .. c : \E i \in 1 .. m : Dedup(ids)[k] = ids[i]
  BY <1>2, <1>3, <1>4
<1>11. Dedup(ids) \in Seq(Nat) /\ DOMAIN Dedup(ids) = 1 .. c
  BY <1>3, <1>7
<1> QED BY <1>8, <1>9, <1>10, <1>11

-----------------------------------------------------------------------------
(* Merging requests. *)

RequestType ==
    [source_media_id : Nat, rid : Nat \cup {NoRid}, kind : {"Fir", "Pli"}]

LEMMA RequestTyped ==
    ASSUME NEW i \in Nat
    PROVE  /\ Request(i) \in RequestType
           /\ Request(i).source_media_id \in 0 .. 15
           /\ Request(i) # Nothing
<1>1. i % 16 \in 0 .. 15 /\ i % 4 \in Nat
  OBVIOUS
<1>2. Request(i) \in RequestType /\ Request(i).source_media_id \in 0 .. 15
  BY <1>1 DEF Request, RequestType
<1> QED BY <1>2, CountsAssumption DEF RequestType

LEMMA FirstNamed ==
    ASSUME NEW named, \A i \in named : i \in Nat, IsFiniteSet(named), named # {}
    PROVE  LET first == CHOOSE i \in named : \A j \in named : i <= j
           IN  first \in named /\ \A j \in named : first <= j
<1>1. \A i \in named : i \in Int
  OBVIOUS
<1>2. \E m \in named : \A j \in named : m <= j
  BY <1>1, LeastExists
<1> QED BY <1>2

LEMMA MergedTyped ==
    ASSUME NEW of, \A i \in of : i \in Nat, IsFiniteSet(of), NEW s \in Nat
    PROVE  MergedOf(of, s) \in RequestType /\ MergedOf(of, s) # Nothing
<1> DEFINE named == {i \in of : Request(i).rid # NoRid}
           first == CHOOSE i \in named : \A j \in named : i <= j
           rid   == IF named = {} THEN NoRid ELSE Request(first).rid
           kind  == IF \E i \in of : Request(i).kind = "Fir" THEN "Fir" ELSE "Pli"
<1>1. MergedOf(of, s) = [source_media_id |-> s, rid |-> rid, kind |-> kind]
  BY DEF MergedOf
<1>2. rid \in Nat \cup {NoRid}
  <2>1. CASE named = {}
    BY <2>1
  <2>2. CASE named # {}
    <3>1. IsFiniteSet(named) /\ \A i \in named : i \in Nat
      BY FS_Subset
    <3> HIDE DEF named
    <3>2. first \in named
      BY <2>2, <3>1, FirstNamed
    <3>3. Request(first) \in RequestType
      BY <3>1, <3>2, RequestTyped
    <3> QED BY <2>2, <3>3 DEF RequestType
  <2> QED BY <2>1, <2>2
<1>3. kind \in {"Fir", "Pli"}
  OBVIOUS
<1> HIDE DEF rid, kind
<1>4. MergedOf(of, s) \in RequestType
  BY <1>1, <1>2, <1>3 DEF RequestType
<1> QED BY <1>4, CountsAssumption DEF RequestType

\* One request for a source is its own group.
LEMMA MergeOne ==
    ASSUME NEW r \in Nat
    PROVE  MergedOf({r}, Request(r).source_media_id) = Request(r)
<1> DEFINE named == {i \in {r} : Request(i).rid # NoRid}
           first == CHOOSE i \in named : \A j \in named : i <= j
           rid   == IF named = {} THEN NoRid ELSE Request(first).rid
           kind  == IF \E i \in {r} : Request(i).kind = "Fir" THEN "Fir" ELSE "Pli"
<1>1. Request(r) \in RequestType
  BY RequestTyped
<1>2. kind = Request(r).kind
  BY <1>1 DEF RequestType
<1>3. rid = Request(r).rid
  <2>1. CASE Request(r).rid = NoRid
    BY <2>1
  <2>2. CASE Request(r).rid # NoRid
    <3>1. named = {r}
      BY <2>2
    <3> HIDE DEF named
    <3>2. first = r
      BY <3>1
    <3> QED BY <3>1, <3>2
  <2> QED BY <2>1, <2>2
<1>4. MergedOf({r}, Request(r).source_media_id)
        = [source_media_id |-> Request(r).source_media_id, rid |-> rid, kind |-> kind]
  BY DEF MergedOf
<1> HIDE DEF rid, kind
<1> QED BY <1>1, <1>2, <1>3, <1>4 DEF RequestType

\* One more request, that came after those of the group, is merged into it.
LEMMA MergeNext ==
    ASSUME NEW of, \A i \in of : i \in Nat, IsFiniteSet(of), NEW s \in Nat,
           NEW r \in Nat, \A i \in of : i < r
    PROVE  Coalesce(MergedOf(of, s), Request(r)) = MergedOf(of \cup {r}, s)
<1> DEFINE named == {i \in of : Request(i).rid # NoRid}
           first == CHOOSE i \in named : \A j \in named : i <= j
           rid   == IF named = {} THEN NoRid ELSE Request(first).rid
           kind  == IF \E i \in of : Request(i).kind = "Fir" THEN "Fir" ELSE "Pli"
           more  == of \cup {r}
           named2 == {i \in more : Request(i).rid # NoRid}
           first2 == CHOOSE i \in named2 : \A j \in named2 : i <= j
           rid2   == IF named2 = {} THEN NoRid ELSE Request(first2).rid
           kind2  == IF \E i \in more : Request(i).kind = "Fir" THEN "Fir" ELSE "Pli"
<1>1. MergedOf(of, s) = [source_media_id |-> s, rid |-> rid, kind |-> kind]
  BY DEF MergedOf
<1>2. MergedOf(more, s) = [source_media_id |-> s, rid |-> rid2, kind |-> kind2]
  BY DEF MergedOf
<1>3. kind2 = IF "Fir" \in {kind, Request(r).kind} THEN "Fir" ELSE "Pli"
  OBVIOUS
<1>4. IsFiniteSet(named) /\ \A i \in named : i \in Nat /\ i < r /\ Request(i).rid # NoRid
  BY FS_Subset
<1>5. named2 = IF Request(r).rid # NoRid THEN named \cup {r} ELSE named
  OBVIOUS
<1> HIDE DEF named, named2, kind, kind2, more
<1>6. rid2 = IF rid # NoRid THEN rid ELSE Request(r).rid
  <2>1. CASE named = {} /\ Request(r).rid = NoRid
    BY <1>5, <2>1
  <2>2. CASE named = {} /\ Request(r).rid # NoRid
    <3>1. named2 = {r}
      BY <1>5, <2>2
    <3>2. first2 = r
      BY <3>1
    <3> QED BY <2>2, <3>1, <3>2
  <2>3. CASE named # {}
    <3>1. first \in named /\ \A j \in named : first <= j
      BY <1>4, <2>3, FirstNamed
    <3>2. IsFiniteSet(named2) /\ named2 # {} /\ \A i \in named2 : i \in Nat
      BY <1>4, <1>5, <2>3, FS_AddElement
    <3>3. first2 \in named2 /\ \A j \in named2 : first2 <= j
      BY <3>2, FirstNamed
    <3> HIDE DEF first, first2
    <3>4. first2 = first
      <4>1. first \in named2 /\ first2 <= first /\ first < r /\ first \in Nat
        BY <1>4, <1>5, <3>1, <3>3
      <4>2. first2 \in Nat /\ first2 # r
        BY <3>2, <3>3, <4>1
      <4>3. first2 \in named
        BY <1>5, <3>3, <4>2
      <4>4. first <= first2
        BY <3>1, <4>3
      <4> QED BY <4>1, <4>2, <4>4
    <3>5. Request(first).rid # NoRid /\ named2 # {}
      BY <1>4, <3>1, <3>2
    <3> QED BY <2>3, <3>4, <3>5
  <2> QED BY <2>1, <2>2, <2>3
<1> HIDE DEF rid, rid2
<1>7. Coalesce(MergedOf(of, s), Request(r))
        = [source_media_id |-> s,
           rid  |-> IF rid # NoRid THEN rid ELSE Request(r).rid,
           kind |-> IF "Fir" \in {kind, Request(r).kind} THEN "Fir" ELSE "Pli"]
  <2> DEFINE group == MergedOf(of, s)
             q == Request(r)
  <2>1. Coalesce(group, q)
          = [group EXCEPT !.rid  = IF group.rid # NoRid THEN group.rid ELSE q.rid,
                          !.kind = IF "Fir" \in {group.kind, q.kind} THEN "Fir" ELSE "Pli"]
    BY DEF Coalesce
  <2>2. group = [source_media_id |-> s, rid |-> rid, kind |-> kind]
    BY <1>1
  <2>3. group.rid = rid /\ group.kind = kind
    BY <2>2
  <2> HIDE DEF group, q
  <2>4. Coalesce(group, q)
          = [group EXCEPT !.rid  = IF rid # NoRid THEN rid ELSE q.rid,
                          !.kind = IF "Fir" \in {kind, q.kind} THEN "Fir" ELSE "Pli"]
    BY <2>1, <2>3
  <2> DEFINE a == IF rid # NoRid THEN rid ELSE q.rid
             b == IF "Fir" \in {kind, q.kind} THEN "Fir" ELSE "Pli"
  <2> HIDE DEF a, b
  <2>5. [group EXCEPT !.rid = a, !.kind = b] = [source_media_id |-> s, rid |-> a, kind |-> b]
    <3> DEFINE renamed == [group EXCEPT !.rid = a]
    <3>1. renamed = [source_media_id |-> s, rid |-> a, kind |-> kind]
      BY <2>2
    <3>2. [group EXCEPT !.rid = a, !.kind = b] = [renamed EXCEPT !.kind = b]
      OBVIOUS
    <3> HIDE DEF renamed
    <3> QED BY <3>1, <3>2
  <2> QED BY <2>4, <2>5 DEF a, b, group, q
<1> QED BY <1>2, <1>3, <1>6, <1>7 DEF more

\* What a map holds for a source when these requests have been entered.
Grouped(requests, source) ==
    IF Of(requests, source) = {} THEN Nothing ELSE MergedOf(Of(requests, source), source)

LEMMA GroupedNothing ==
    ASSUME NEW P, \A i \in P : i \in Nat, IsFiniteSet(P), NEW t \in Nat
    PROVE  Grouped(P, t) = Nothing <=> Of(P, t) = {}
<1>1. IsFiniteSet(Of(P, t)) /\ \A i \in Of(P, t) : i \in Nat
  BY FS_Subset DEF Of
<1> QED BY <1>1, MergedTyped DEF Grouped

\* Entering a request touches the group of its source and no other.
LEMMA GroupedNext ==
    ASSUME NEW P, \A i \in P : i \in Nat, IsFiniteSet(P), NEW r \in Nat,
           \A i \in Of(P, Request(r).source_media_id) : i < r
    PROVE  LET s == Request(r).source_media_id
           IN  /\ Grouped(P \cup {r}, s) = IF Grouped(P, s) = Nothing THEN Request(r)
                                           ELSE Coalesce(Grouped(P, s), Request(r))
               /\ \A t : t # s => Grouped(P \cup {r}, t) = Grouped(P, t)
<1> DEFINE s == Request(r).source_media_id
           of == Of(P, s)
<1>1. s \in Nat
  BY RequestTyped
<1>2. IsFiniteSet(of) /\ \A i \in of : i \in Nat /\ i < r
  BY FS_Subset DEF Of
<1>3. Of(P \cup {r}, s) = of \cup {r}
  BY DEF Of
<1>4. \A t : t # s => Of(P \cup {r}, t) = Of(P, t)
  BY DEF Of
<1>5. \A t : t # s => Grouped(P \cup {r}, t) = Grouped(P, t)
  BY <1>4 DEF Grouped
<1>6. Grouped(P, s) = Nothing <=> of = {}
  BY <1>1, GroupedNothing
<1>7. Grouped(P \cup {r}, s) = MergedOf(of \cup {r}, s)
  BY <1>3 DEF Grouped
<1>8. MergedOf({r}, s) = Request(r)
  BY MergeOne
<1>9. of # {} => Grouped(P, s) = MergedOf(of, s)
  BY DEF Grouped
<1> HIDE DEF of
<1>10. MergedOf(of \cup {r}, s) = Coalesce(MergedOf(of, s), Request(r))
  <2> HIDE DEF s
  <2> QED BY <1>1, <1>2, MergeNext
<1>11. CASE of = {}
  <2>1. of \cup {r} = {r}
    BY <1>11
  <2> QED BY <1>5, <1>6, <1>7, <1>8, <1>11, <2>1
<1>12. CASE of # {}
  BY <1>5, <1>6, <1>7, <1>9, <1>10, <1>12
<1> QED BY <1>11, <1>12

\* The buffer of the sorted cycle: every request once, those of a source together
\* and in the order they came.
LEMMA SortedFacts ==
    ASSUME request_count \in Nat
    PROVE  /\ Sorted \in [1 .. request_count -> Requests]
           /\ \A i \in Requests : \E k \in 1 .. request_count : Sorted[k] = i
           /\ \A j, k \in 1 .. request_count : j < k =>
                \/ Request(Sorted[j]).source_media_id < Request(Sorted[k]).source_media_id
                \/ /\ Request(Sorted[j]).source_media_id = Request(Sorted[k]).source_media_id
                   /\ Sorted[j] < Sorted[k]
<1> DEFINE S == Requests
           key == [i \in S |-> Request(i).source_media_id]
           n == Cardinality(S)
           o == StableOrder(S, key)
<1>1. (\A i \in S : i \in Int) /\ \A i \in S : key[i] = Request(i).source_media_id
  BY DEF Requests
<1>2. \A i \in S : i \in Nat
  BY DEF Requests
<1>3. IsFiniteSet(S)
  BY FS_Interval DEF Requests
<1>4. n = request_count
  BY FS_Interval DEF Requests
<1>5. Sorted = o
  BY DEF Sorted
<1> HIDE DEF S, key
<1>6. \A i \in S : key[i] \in Int
  BY <1>1, <1>2, RequestTyped
<1>7. /\ n \in Nat /\ o \in [1 .. n -> S]
      /\ \A i \in S : \E k \in 1 .. n : o[k] = i
      /\ \A j, k \in 1 .. n : j < k =>
           key[o[j]] < key[o[k]] \/ (key[o[j]] = key[o[k]] /\ o[j] < o[k])
  BY <1>1, <1>3, <1>6, StableOrderFacts
<1> HIDE DEF n, o
<1>8. \A k \in 1 .. n : o[k] \in S /\ key[o[k]] = Request(o[k]).source_media_id
  BY <1>1, <1>7
<1>9. \A j, k \in 1 .. n : j < k =>
        \/ Request(o[j]).source_media_id < Request(o[k]).source_media_id
        \/ /\ Request(o[j]).source_media_id = Request(o[k]).source_media_id
           /\ o[j] < o[k]
  BY <1>7, <1>8
<1> QED BY <1>4, <1>5, <1>7, <1>9 DEF S

-----------------------------------------------------------------------------
(* The inductive invariant. *)

Entered == {t \in 0 .. 15 : coalesced[t] # Nothing}

\* The requests that the loop over the sorted buffer has met.
Met == {scratch[k] : k \in 1 .. next}

\* The source of the request at a position of the buffer.
SourceAt(k) == Request(scratch[k]).source_media_id

SizesInv ==
    /\ fixture \in Fixtures
    /\ request_count \in Nat /\ mark_count \in Nat
    /\ packet_count \in Nat /\ destination_count \in Nat
    /\ fixture # "keyframes" => request_count = 0 /\ cycle \in {"none", fixture}
    /\ fixture = "keyframes" => cycle \in {"none", "reusable_vec", "fresh_btree"}
    /\ next \in Nat
    /\ DOMAIN coalesced = 0 .. 15

\* The group that is being merged is the one of the last request met, and it is
\* in no other place; every other source that was met is complete.
SortedInv ==
    cycle = "reusable_vec" =>
        /\ scratch = Sorted /\ next <= request_count
        /\ next = 0 => current_request = Nothing
        /\ next > 0 => current_request = Grouped(Met, SourceAt(next))
        /\ \A t \in 0 .. 15 :
              coalesced[t] = IF next > 0 /\ t = SourceAt(next) THEN Nothing
                             ELSE Grouped(Met, t)
        /\ coalesced_count = Cardinality(Entered)

MapInv ==
    cycle = "fresh_btree" =>
        /\ next <= request_count
        /\ \A t \in 0 .. 15 : coalesced[t] = Grouped(0 .. next - 1, t)

\* Between two cycles the groups are complete, and those of no other fixture are touched.
IdleInv ==
    /\ cycle = "none" /\ next = request_count =>
          \A t \in 0 .. 15 : coalesced[t] = Grouped(Requests, t)
    /\ fixture # "keyframes" => \A t \in 0 .. 15 : coalesced[t] = Nothing

WakeInv ==
    /\ cycle = "wake" => scratch = CoalescedChannels /\ next <= Len(scratch)
    /\ dirty \in BOOLEAN
    /\ dirty <=> cycle = "wake" /\ next > 0

\* The destinations a packet is planned for, and the pairs of the packets so far.
Row(packet) == {d \in 0 .. destination_count - 1 : Active(d) /\ Permits(d, packet)}
Planned(packets) ==
    {pair \in (0 .. packets - 1) \X (0 .. destination_count - 1) :
        Active(pair[2]) /\ Permits(pair[2], pair[1])}

PlanningInv ==
    cycle = "planning" => next <= packet_count /\ route_count = Cardinality(Planned(next))

EgressInv ==
    cycle = "egress" =>
        /\ next <= destination_count
        /\ scratch \in Seq(Nat) /\ Len(scratch) = next - (next + 6) \div 7

IInv == /\ SizesInv /\ SortedInv /\ MapInv /\ IdleInv
        /\ WakeInv /\ PlanningInv /\ EgressInv /\ ResultExact

\* Nothing has been entered.
LEMMA GroupedEmpty == \A t : Grouped({}, t) = Nothing
BY DEF Grouped, Of

LEMMA InvInit == Init => IInv
<1> SUFFICES ASSUME Init PROVE IInv
  OBVIOUS
<1> USE DEF Init, KeyframeInit
<1>1. SizesInv
  BY CountsAssumption, SizesAssumption DEF SizesInv, Fixtures
<1>2. \A t \in 0 .. 15 : coalesced[t] = Nothing
  OBVIOUS
<1>3. IdleInv
  <2>1. next = request_count => Requests = {}
    BY DEF Requests
  <2> QED BY <1>2, <2>1, GroupedEmpty DEF IdleInv
<1>4. SortedInv /\ MapInv /\ WakeInv /\ PlanningInv /\ EgressInv /\ ResultExact
  BY DEF SortedInv, MapInv, WakeInv, PlanningInv, EgressInv, ResultExact
<1> QED BY <1>1, <1>3, <1>4 DEF IInv

LEMMA SizesStep == SizesInv /\ [Next]_vars => SizesInv'
<1> SUFFICES ASSUME SizesInv, [Next]_vars PROVE SizesInv'
  OBVIOUS
<1> USE DEF SizesInv
<1>1. CASE fixture = "keyframes" /\ KeyframeNext /\ UNCHANGED own
  <2> USE DEF own, sizes
  <2>1. CASE CallReusableVec
    BY <1>1, <2>1 DEF CallReusableVec, Fresh
  <2>2. CASE CallFreshBtree
    BY <1>1, <2>2 DEF CallFreshBtree, Fresh
  <2>3. CASE GroupNext
    <3>1. DOMAIN coalesced' = 0 .. 15
      BY <2>3 DEF GroupNext, Complete
    <3> QED BY <1>1, <2>3, <3>1 DEF GroupNext
  <2>4. CASE ReturnGroups
    <3>1. DOMAIN coalesced' = 0 .. 15
      BY <2>4 DEF ReturnGroups, Complete
    <3> QED BY <1>1, <2>4, <3>1 DEF ReturnGroups
  <2>5. CASE EnterNext
    BY <1>1, <2>5 DEF EnterNext
  <2>6. CASE ReturnEntries
    BY <1>1, <2>6 DEF ReturnEntries
  <2> QED BY <1>1, <2>1, <2>2, <2>3, <2>4, <2>5, <2>6 DEF KeyframeNext
<1> USE DEF sizes, rest, Call, Runs, Return
<1>2. CASE CallWake \/ CallPlanning \/ CallEgress
  BY <1>2 DEF CallWake, CallPlanning, CallEgress
<1>3. CASE MarkNext \/ PlanNext \/ FanOutNext
  BY <1>3 DEF MarkNext, PlanNext, FanOutNext
<1>4. CASE ReturnWake \/ ReturnPlanning \/ ReturnEgress
  BY <1>4 DEF ReturnWake, ReturnPlanning, ReturnEgress
<1>5. CASE UNCHANGED vars
  BY <1>5 DEF vars, keyframeVars, own
<1> QED BY <1>1, <1>2, <1>3, <1>4, <1>5 DEF Next

LEMMA EnteredFinite == IsFiniteSet(Entered)
<1>1. Entered \in SUBSET Nat /\ \A t \in Entered : t <= 15
  BY DEF Entered
<1>2. 15 \in Nat
  OBVIOUS
<1> QED BY <1>1, <1>2, FS_BoundedSetOfNaturals

\* The buffer while the sorted loop runs, and the requests it has met.
LEMMA BufferFacts ==
    ASSUME SizesInv, SortedInv, cycle = "reusable_vec"
    PROVE  /\ request_count \in Nat /\ next \in 0 .. request_count
           /\ scratch \in [1 .. request_count -> Requests]
           /\ \A i \in Requests : \E k \in 1 .. request_count : scratch[k] = i
           /\ \A i, j \in 1 .. request_count : i < j =>
                \/ SourceAt(i) < SourceAt(j)
                \/ SourceAt(i) = SourceAt(j) /\ scratch[i] < scratch[j]
           /\ \A k \in 1 .. request_count : SourceAt(k) \in 0 .. 15
           /\ Met \in SUBSET Requests /\ (\A i \in Requests : i \in Nat)
           /\ IsFiniteSet(Requests) /\ IsFiniteSet(Met)
<1>1. scratch = Sorted /\ request_count \in Nat /\ next \in 0 .. request_count
  BY DEF SizesInv, SortedInv
<1>2. /\ scratch \in [1 .. request_count -> Requests]
      /\ \A i \in Requests : \E k \in 1 .. request_count : scratch[k] = i
      /\ \A i, j \in 1 .. request_count : i < j =>
            \/ SourceAt(i) < SourceAt(j)
            \/ SourceAt(i) = SourceAt(j) /\ scratch[i] < scratch[j]
  BY <1>1, SortedFacts DEF SourceAt
<1>3. IsFiniteSet(Requests)
  BY <1>1, FS_Interval DEF Requests
<1>4. Met \in SUBSET Requests /\ \A i \in Requests : i \in Nat
  BY <1>1, <1>2 DEF Met, Requests
<1>5. \A k \in 1 .. request_count : SourceAt(k) \in 0 .. 15
  BY <1>2, <1>4, RequestTyped DEF SourceAt
<1>6. IsFiniteSet(Met)
  BY <1>3, <1>4, FS_Subset
<1> QED BY <1>1, <1>2, <1>3, <1>4, <1>5, <1>6

\* The group that is being merged, and what its completion makes of the history.
LEMMA LastGroup ==
    ASSUME SizesInv, SortedInv, cycle = "reusable_vec", next > 0
    PROVE  /\ current_request = Grouped(Met, SourceAt(next))
           /\ current_request # Nothing
           /\ current_request.source_media_id = SourceAt(next)
           /\ Complete(current_request) =>
                /\ \A t \in 0 .. 15 : coalesced'[t] = Grouped(Met, t)
                /\ coalesced_count' = Cardinality(Entered')
<1> DEFINE last == SourceAt(next)
<1>1. /\ next \in 1 .. request_count /\ last \in 0 .. 15 /\ scratch[next] \in Met
      /\ IsFiniteSet(Met) /\ \A i \in Met : i \in Nat
  BY BufferFacts DEF Met
<1>2. Of(Met, last) # {}
  BY <1>1 DEF Of, SourceAt
<1>3. current_request = Grouped(Met, last)
  BY DEF SortedInv
<1>4. Grouped(Met, last) # Nothing
  BY <1>1, <1>2, GroupedNothing
<1>5. Grouped(Met, last).source_media_id = last
  BY <1>2 DEF Grouped, MergedOf
<1>6. ASSUME Complete(current_request)
      PROVE  /\ \A t \in 0 .. 15 : coalesced'[t] = Grouped(Met, t)
             /\ coalesced_count' = Cardinality(Entered')
  <2>1. /\ coalesced_count' = coalesced_count + 1
        /\ coalesced' = [coalesced EXCEPT ![last] = current_request]
    BY <1>3, <1>5, <1>6 DEF Complete
  <2>2. \A t \in 0 .. 15 : coalesced'[t] = IF t = last THEN current_request ELSE coalesced[t]
    BY <2>1 DEF SizesInv
  <2>3. /\ coalesced[last] = Nothing /\ coalesced_count = Cardinality(Entered)
        /\ \A t \in 0 .. 15 : t # last => coalesced[t] = Grouped(Met, t)
    BY <1>1 DEF SortedInv
  <2>4. Entered' = Entered \cup {last} /\ last \notin Entered
    BY <1>1, <1>3, <1>4, <2>2, <2>3 DEF Entered
  <2>5. Cardinality(Entered') = coalesced_count + 1
    BY <2>3, <2>4, EnteredFinite, FS_AddElement
  <2> QED BY <1>3, <2>1, <2>2, <2>3, <2>5
<1> QED BY <1>3, <1>4, <1>5, <1>6

\* The loop over the sorted buffer.  A source that it has left is not met again,
\* since the buffer is in the order of the sources.
LEMMA GroupNextKeeps ==
    ASSUME SizesInv, SortedInv, GroupNext PROVE SortedInv'
<1> DEFINE P    == Met
           n    == request_count
           k    == next + 1
           r    == scratch[k]
           s    == Request(r).source_media_id
           last == SourceAt(next)
<1>1. /\ cycle = "reusable_vec" /\ scratch = Sorted /\ next \in 0 .. n - 1 /\ n \in Nat
      /\ scratch' = scratch /\ next' = k /\ request_count' = n
      /\ \A t \in 0 .. 15 : coalesced[t] = IF next > 0 /\ t = last THEN Nothing
                                           ELSE Grouped(P, t)
      /\ coalesced_count = Cardinality(Entered)
  BY DEF SizesInv, SortedInv, GroupNext
<1>2. /\ scratch \in [1 .. n -> Requests] /\ scratch[k] \in Requests
      /\ \A i, j \in 1 .. n : i < j =>
            \/ SourceAt(i) < SourceAt(j)
            \/ SourceAt(i) = SourceAt(j) /\ scratch[i] < scratch[j]
  <2>1. scratch \in [1 .. n -> Requests]
    BY <1>1, BufferFacts
  <2>2. \A i, j \in 1 .. n : i < j =>
          \/ SourceAt(i) < SourceAt(j)
          \/ SourceAt(i) = SourceAt(j) /\ scratch[i] < scratch[j]
    BY <1>1, BufferFacts
  <2>3. k \in 1 .. n
    BY <1>1
  <2> HIDE DEF n, k
  <2> QED BY <2>1, <2>2, <2>3
<1>3. Sorted' = Sorted
  BY <1>1 DEF Sorted, Requests
<1>4. Met' = P \cup {r}
  <2>1. Met' = {scratch[i] : i \in 1 .. k}
    BY <1>1 DEF Met
  <2>2. 1 .. k = (1 .. next) \cup {k}
    BY <1>1
  <2> QED BY <2>1, <2>2 DEF Met
<1>5. r \in Nat /\ (\A i \in P : i \in Nat) /\ IsFiniteSet(P)
  BY <1>1, <1>2, BufferFacts
<1>6. s \in 0 .. 15 /\ s = SourceAt(k)
  BY <1>5, RequestTyped DEF SourceAt
<1>7. \A i \in Of(P, s) : i < r
  <2> SUFFICES ASSUME NEW i \in Of(P, s) PROVE i < r
    OBVIOUS
  <2>1. PICK j \in 1 .. next : scratch[j] = i /\ SourceAt(j) = s
    BY DEF Met, Of, SourceAt
  <2>2. j \in 1 .. n /\ k \in 1 .. n /\ j < k
    BY <1>1
  <2> QED BY <1>2, <1>6, <2>1, <2>2
<1>8. /\ Grouped(P \cup {r}, s) = IF Grouped(P, s) = Nothing THEN Request(r)
                                  ELSE Coalesce(Grouped(P, s), Request(r))
      /\ \A t : t # s => Grouped(P \cup {r}, t) = Grouped(P, t)
  BY <1>5, <1>7, GroupedNext
<1>9. SourceAt(next)' = s
  BY <1>1 DEF SourceAt
<1>10. CASE next = 0
  <2>1. P = {} /\ current_request = Nothing
    BY <1>1, <1>10 DEF Met, SortedInv
  <2>2. current_request' = Request(r) /\ UNCHANGED <<coalesced, coalesced_count>>
    BY <2>1 DEF GroupNext
  <2>3. \A t : Grouped(P, t) = Nothing
    BY <2>1, GroupedEmpty
  <2>4. Entered' = Entered
    BY <2>2 DEF Entered
  <2> HIDE DEF P, r, s
  <2> QED BY <1>1, <1>3, <1>4, <1>8, <1>9, <1>10, <2>2, <2>3, <2>4 DEF SortedInv
<1>11. CASE next > 0
  <2>1. next \in 1 .. n /\ last \in 0 .. 15
    BY <1>1, <1>11, BufferFacts
  <2>2. /\ current_request = Grouped(P, last) /\ current_request # Nothing
        /\ current_request.source_media_id = last
    BY <1>1, <1>11, LastGroup
  <2>3. CASE s = last
    <3>1. /\ current_request' = Coalesce(current_request, Request(r))
          /\ UNCHANGED <<coalesced, coalesced_count>>
      BY <2>2, <2>3 DEF GroupNext
    <3>2. Entered' = Entered
      BY <3>1 DEF Entered
    <3> HIDE DEF P, r, s, last
    <3>3. current_request' = Grouped(P \cup {r}, s)
      BY <1>8, <2>2, <2>3, <3>1
    <3>4. \A t \in 0 .. 15 : coalesced'[t] = IF t = s THEN Nothing ELSE Grouped(P \cup {r}, t)
      BY <1>1, <1>8, <1>11, <2>3, <3>1
    <3> QED BY <1>1, <1>3, <1>4, <1>9, <3>1, <3>2, <3>3, <3>4 DEF SortedInv
  <2>4. CASE s # last
    <3>1. current_request' = Request(r) /\ Complete(current_request)
      BY <2>2, <2>4 DEF GroupNext
    <3>2. Of(P, s) = {}
      <4>1. ASSUME NEW i \in Of(P, s) PROVE FALSE
        <5>1. PICK j \in 1 .. next : SourceAt(j) = s
          BY DEF Met, Of, SourceAt
        <5>2. j \in 1 .. n /\ k \in 1 .. n /\ next \in 1 .. n /\ j < next /\ next < k
          BY <1>1, <2>1, <2>4, <5>1
        <5>3. SourceAt(j) < SourceAt(next) \/ SourceAt(j) = SourceAt(next)
          BY <1>2, <5>2
        <5>4. SourceAt(next) < SourceAt(k) \/ SourceAt(next) = SourceAt(k)
          BY <1>2, <5>2
        <5> HIDE DEF s, last, k
        <5> QED BY <1>6, <2>1, <2>4, <5>1, <5>3, <5>4 DEF last
      <4> QED BY <4>1
    <3>3. Grouped(P, s) = Nothing
      BY <3>2 DEF Grouped
    <3>4. /\ \A t \in 0 .. 15 : coalesced'[t] = Grouped(P, t)
          /\ coalesced_count' = Cardinality(Entered')
      BY <1>1, <1>11, <3>1, LastGroup
    <3>5. \A t \in 0 .. 15 : coalesced'[t] = IF t = s THEN Nothing ELSE Grouped(P \cup {r}, t)
      BY <1>8, <3>3, <3>4
    <3> HIDE DEF P, r, s, last
    <3> QED BY <1>1, <1>3, <1>4, <1>8, <1>9, <3>1, <3>3, <3>4, <3>5 DEF SortedInv
  <2> QED BY <2>3, <2>4
<1> QED BY <1>1, <1>10, <1>11

LEMMA SortedStep == SizesInv /\ SortedInv /\ [Next]_vars => SortedInv'
<1> SUFFICES ASSUME SizesInv, SortedInv, [Next]_vars PROVE SortedInv'
  OBVIOUS
<1>1. CASE CallReusableVec
  <2>1. /\ scratch' = Sorted /\ next' = 0 /\ current_request' = Nothing
        /\ request_count' = request_count /\ request_count \in Nat
        /\ coalesced_count' = 0 /\ coalesced' = [s \in 0 .. 15 |-> Nothing]
    BY <1>1 DEF CallReusableVec, Fresh, SizesInv
  <2>2. Sorted' = Sorted
    BY <2>1 DEF Sorted, Requests
  <2>3. Met' = {} /\ Entered' = {}
    BY <2>1 DEF Met, Entered
  <2>4. \A t \in 0 .. 15 : coalesced'[t] = Grouped(Met', t)
    BY <2>1, <2>3, GroupedEmpty
  <2> QED BY <2>1, <2>2, <2>3, <2>4, FS_EmptySet DEF SortedInv
<1>2. CASE GroupNext
  BY <1>2, GroupNextKeeps
<1>3. CASE UNCHANGED vars
  <2>1. UNCHANGED <<Met, Entered, Sorted, SourceAt(next)>>
    BY <1>3 DEF vars, keyframeVars, Met, Entered, Sorted, Requests, SourceAt
  <2> QED BY <1>3, <2>1 DEF vars, keyframeVars, SortedInv
<1>4. CASE cycle' # "reusable_vec"
  BY <1>4 DEF SortedInv
<1>5. CASE CallFreshBtree \/ EnterNext \/ ReturnGroups \/ ReturnEntries
  BY <1>4, <1>5 DEF CallFreshBtree, EnterNext, ReturnGroups, ReturnEntries
<1>6. CASE \/ CallWake \/ MarkNext \/ ReturnWake
           \/ CallPlanning \/ PlanNext \/ ReturnPlanning
           \/ CallEgress \/ FanOutNext \/ ReturnEgress
  BY <1>4, <1>6
     DEF CallWake, MarkNext, ReturnWake, CallPlanning, PlanNext, ReturnPlanning,
         CallEgress, FanOutNext, ReturnEgress, Call, Runs, Return
<1> QED BY <1>1, <1>2, <1>3, <1>5, <1>6 DEF Next, KeyframeNext

LEMMA MapStep == SizesInv /\ MapInv /\ [Next]_vars => MapInv'
<1> SUFFICES ASSUME SizesInv, MapInv, [Next]_vars PROVE MapInv'
  OBVIOUS
<1>1. CASE CallFreshBtree
  <2>1. /\ next' = 0 /\ request_count' \in Nat
        /\ coalesced' = [s \in 0 .. 15 |-> Nothing]
    BY <1>1 DEF CallFreshBtree, Fresh, SizesInv
  <2>2. 0 .. next' - 1 = {}
    BY <2>1
  <2>3. \A t \in 0 .. 15 : coalesced'[t] = Grouped(0 .. next' - 1, t)
    BY <2>1, <2>2, GroupedEmpty
  <2> QED BY <2>1, <2>3 DEF MapInv
<1>2. CASE EnterNext
  <2> DEFINE P == 0 .. next - 1
             s == Request(next).source_media_id
  <2>1. /\ next \in Nat /\ next < request_count /\ next' = next + 1 /\ request_count \in Nat
        /\ request_count' = request_count
        /\ DOMAIN coalesced = 0 .. 15 /\ \A t \in 0 .. 15 : coalesced[t] = Grouped(P, t)
        /\ coalesced' = [coalesced EXCEPT ![s] =
                            IF coalesced[s] = Nothing THEN Request(next)
                            ELSE Coalesce(coalesced[s], Request(next))]
    BY <1>2 DEF EnterNext, SizesInv, MapInv
  <2>2. 0 .. next' - 1 = P \cup {next}
    BY <2>1
  <2>3. s \in 0 .. 15
    BY <2>1, RequestTyped
  <2>4. /\ \A i \in P : i \in Nat
        /\ IsFiniteSet(P)
        /\ \A i \in Of(P, s) : i < next
    BY <2>1, FS_Interval DEF Of
  <2>5. /\ Grouped(P \cup {next}, s) = IF Grouped(P, s) = Nothing THEN Request(next)
                                       ELSE Coalesce(Grouped(P, s), Request(next))
        /\ \A t : t # s => Grouped(P \cup {next}, t) = Grouped(P, t)
    BY <2>1, <2>4, GroupedNext
  <2>6. \A t \in 0 .. 15 : coalesced'[t] = Grouped(P \cup {next}, t)
    <3> HIDE DEF P, s
    <3> QED BY <2>1, <2>3, <2>5
  <2>7. next' <= request_count'
    BY <2>1
  <2> HIDE DEF P
  <2> QED BY <2>2, <2>6, <2>7 DEF MapInv
<1>3. CASE UNCHANGED vars
  BY <1>3 DEF vars, keyframeVars, MapInv
<1>4. CASE cycle' # "fresh_btree"
  BY <1>4 DEF MapInv
<1>5. CASE CallReusableVec \/ GroupNext \/ ReturnGroups \/ ReturnEntries
  BY <1>4, <1>5 DEF CallReusableVec, GroupNext, ReturnGroups, ReturnEntries
<1>6. CASE \/ CallWake \/ MarkNext \/ ReturnWake
           \/ CallPlanning \/ PlanNext \/ ReturnPlanning
           \/ CallEgress \/ FanOutNext \/ ReturnEgress
  BY <1>4, <1>6
     DEF CallWake, MarkNext, ReturnWake, CallPlanning, PlanNext, ReturnPlanning,
         CallEgress, FanOutNext, ReturnEgress, Call, Runs, Return
<1> QED BY <1>1, <1>2, <1>3, <1>5, <1>6 DEF Next, KeyframeNext

\* The sources that were asked for a keyframe are those that have a group.
LEMMA SourcesGrouped ==
    ASSUME request_count \in Nat
    PROVE  Sources = {t \in 0 .. 15 : Grouped(Requests, t) # Nothing}
<1>1. IsFiniteSet(Requests) /\ \A i \in Requests : i \in Nat
  BY FS_Interval DEF Requests
<1>2. \A i \in Requests : Request(i).source_media_id \in 0 .. 15
  BY <1>1, RequestTyped
<1>3. \A t \in 0 .. 15 : Grouped(Requests, t) # Nothing <=> Of(Requests, t) # {}
  BY <1>1, GroupedNothing
<1>4. \A t \in 0 .. 15 : t \in Sources <=> Of(Requests, t) # {}
  BY DEF Sources, Of
<1>5. \A t \in Sources : t \in 0 .. 15
  BY <1>2 DEF Sources
<1> QED BY <1>3, <1>4, <1>5

\* What either cycle has at its end: the groups of the map, and their number.
AllGrouped(groups, count) ==
    /\ \A t \in 0 .. 15 : groups[t] = Grouped(Requests, t)
    /\ count = Cardinality(Sources)

LEMMA GroupsReturned ==
    ASSUME SizesInv, SortedInv, ReturnGroups PROVE AllGrouped(coalesced', result')
<1>1. cycle = "reusable_vec" /\ next = request_count /\ result' = coalesced_count'
  BY DEF ReturnGroups
<1>2. Met = Requests
  <2>1. \A i \in Requests : i \in Met
    BY <1>1, BufferFacts DEF Met
  <2> QED BY <1>1, <2>1, BufferFacts
<1>3. request_count \in Nat /\ next \in Nat
  BY DEF SizesInv
<1>4. /\ \A t \in 0 .. 15 : coalesced'[t] = Grouped(Requests, t)
      /\ coalesced_count' = Cardinality(Entered')
  <2>1. CASE next = 0
    <3>1. current_request = Nothing
      BY <1>1, <2>1 DEF SortedInv
    <3>2. UNCHANGED <<coalesced, coalesced_count>>
      BY <3>1 DEF ReturnGroups
    <3>3. Entered' = Entered
      BY <3>2 DEF Entered
    <3> QED BY <1>1, <1>2, <2>1, <3>2, <3>3 DEF SortedInv
  <2>2. CASE next > 0
    <3>1. Complete(current_request)
      BY <1>1, <2>2, LastGroup DEF ReturnGroups
    <3> QED BY <1>1, <1>2, <2>2, <3>1, LastGroup
  <2> QED BY <1>3, <2>1, <2>2
<1>5. Entered' = Sources
  BY <1>3, <1>4, SourcesGrouped DEF Entered
<1> QED BY <1>1, <1>4, <1>5 DEF AllGrouped

LEMMA EntriesReturned ==
    ASSUME SizesInv, MapInv, ReturnEntries PROVE AllGrouped(coalesced', result')
<1>1. /\ request_count \in Nat /\ coalesced' = coalesced
      /\ result' = Cardinality({s \in 0 .. 15 : coalesced[s] # Nothing})
      /\ \A t \in 0 .. 15 : coalesced[t] = Grouped(Requests, t)
  BY DEF ReturnEntries, SizesInv, MapInv, Requests
<1>2. {s \in 0 .. 15 : coalesced[s] # Nothing} = Sources
  BY <1>1, SourcesGrouped
<1> QED BY <1>1, <1>2 DEF AllGrouped

LEMMA IdleStep ==
    SizesInv /\ SortedInv /\ MapInv /\ IdleInv /\ [Next]_vars => IdleInv'
<1> SUFFICES ASSUME SizesInv, SortedInv, MapInv, IdleInv, [Next]_vars PROVE IdleInv'
  OBVIOUS
<1>1. CASE fixture = "keyframes" /\ KeyframeNext /\ UNCHANGED own
  <2>1. fixture' = "keyframes"
    BY <1>1 DEF own, sizes
  <2>2. CASE ReturnGroups
    <3>1. Requests' = Requests
      BY <2>2 DEF ReturnGroups, Requests
    <3> QED BY <2>1, <2>2, <3>1, GroupsReturned DEF AllGrouped, IdleInv
  <2>3. CASE ReturnEntries
    <3>1. Requests' = Requests
      BY <2>3 DEF ReturnEntries, Requests
    <3> QED BY <2>1, <2>3, <3>1, EntriesReturned DEF AllGrouped, IdleInv
  <2>4. CASE CallReusableVec \/ CallFreshBtree \/ GroupNext \/ EnterNext
    <3>1. cycle' # "none"
      BY <2>4 DEF CallReusableVec, CallFreshBtree, GroupNext, EnterNext
    <3> QED BY <2>1, <3>1 DEF IdleInv
  <2> QED BY <1>1, <2>2, <2>3, <2>4 DEF KeyframeNext
<1>2. CASE UNCHANGED vars
  <2>1. Requests' = Requests
    BY <1>2 DEF vars, keyframeVars, Requests
  <2> QED BY <1>2, <2>1 DEF vars, keyframeVars, own, sizes, IdleInv
<1>3. CASE \/ CallWake \/ MarkNext \/ ReturnWake
           \/ CallPlanning \/ PlanNext \/ ReturnPlanning
           \/ CallEgress \/ FanOutNext \/ ReturnEgress
  <2>1. fixture # "keyframes" /\ UNCHANGED <<fixture, coalesced, request_count>>
    BY <1>3
       DEF CallWake, MarkNext, ReturnWake, CallPlanning, PlanNext, ReturnPlanning,
           CallEgress, FanOutNext, ReturnEgress, Call, Runs, Return, rest, sizes, SizesInv
  <2>2. Requests' = {}
    BY <2>1 DEF SizesInv, Requests
  <2>3. \A t \in 0 .. 15 : coalesced'[t] = Nothing
    BY <2>1 DEF IdleInv
  <2> QED BY <2>2, <2>3, GroupedEmpty DEF IdleInv
<1> QED BY <1>1, <1>2, <1>3 DEF Next

-----------------------------------------------------------------------------
(* The wakes. *)

\* The buffer of the wake cycle has every channel that was marked, once.
LEMMA ChannelFacts ==
    ASSUME mark_count \in Nat
    PROVE  /\ CoalescedChannels \in Seq(Nat)
           /\ {CoalescedChannels[k] : k \in DOMAIN CoalescedChannels}
                = {ChannelIds[k] : k \in DOMAIN ChannelIds}
           /\ \A j, k \in DOMAIN CoalescedChannels :
                j # k => CoalescedChannels[j] # CoalescedChannels[k]
           /\ Len(CoalescedChannels) = Least(mark_count, 8)
<1> DEFINE m   == mark_count
           ids == ChannelIds
           up  == Ascending(ids)
           c   == CoalescedChannels
           T   == 0 .. Least(m, 8) - 1
<1>1. ids \in [1 .. m -> Nat] /\ \A k \in 1 .. m : ids[k] = (k - 1) % 8
  BY DEF ChannelIds
<1>2. c = Dedup(up)
  BY DEF CoalescedChannels
<1>3. {ids[k] : k \in 1 .. m} = T
  <2>1. ASSUME NEW k \in 1 .. m PROVE ids[k] \in T
    <3>1. (k - 1) % 8 \in 0 .. 7 /\ (k - 1) % 8 <= k - 1
      OBVIOUS
    <3>2. (k - 1) % 8 \in Nat /\ (k - 1) % 8 < m /\ (k - 1) % 8 < 8
      BY <3>1
    <3> QED BY <1>1, <3>2 DEF Least
  <2>2. ASSUME NEW t \in T PROVE \E k \in 1 .. m : ids[k] = t
    <3>1. t \in 0 .. 7 /\ t + 1 \in 1 .. m
      BY DEF Least
    <3>2. t % 8 = t /\ (t + 1) - 1 = t
      BY <3>1
    <3>3. ids[t + 1] = t
      BY <1>1, <3>1, <3>2
    <3> QED BY <3>1, <3>3
  <2> HIDE DEF ids, T
  <2> QED BY <2>1, <2>2
<1>4. T \in SUBSET Nat /\ IsFiniteSet(T) /\ Cardinality(T) = Least(m, 8)
  <2>1. PICK l \in Nat : l = Least(m, 8)
    BY DEF Least
  <2>2. IsFiniteSet(0 .. l - 1) /\ Cardinality(0 .. l - 1) = l
    BY FS_Interval
  <2>3. T = 0 .. l - 1
    BY <2>1
  <2> HIDE DEF T
  <2> QED BY <2>1, <2>2, <2>3
<1>5. DOMAIN ids = 1 .. m
  BY <1>1
<1> HIDE DEF ids, m, T
<1>6. /\ up \in [1 .. m -> Nat]
      /\ \A i \in 1 .. m : \E k \in 1 .. m : up[k] = ids[i]
      /\ \A k \in 1 .. m : \E i \in 1 .. m : up[k] = ids[i]
      /\ \A j, k \in 1 .. m : j < k => up[j] <= up[k]
  BY <1>1, AscendingFacts DEF m
<1> HIDE DEF up
<1>7. /\ Dedup(up) \in Seq(Nat)
      /\ \A i \in 1 .. m : \E k \in DOMAIN Dedup(up) : Dedup(up)[k] = up[i]
      /\ \A k \in DOMAIN Dedup(up) : \E i \in 1 .. m : Dedup(up)[k] = up[i]
      /\ \A j, k \in DOMAIN Dedup(up) : j # k => Dedup(up)[j] # Dedup(up)[k]
  BY <1>6, DedupFacts DEF m
<1> HIDE DEF c
<1>8. \A k \in DOMAIN c : \E i \in 1 .. m : c[k] = ids[i]
  <2> SUFFICES ASSUME NEW k \in DOMAIN c PROVE \E i \in 1 .. m : c[k] = ids[i]
    OBVIOUS
  <2>1. PICK j \in 1 .. m : c[k] = up[j]
    BY <1>2, <1>7
  <2> QED BY <1>6, <2>1
<1>9. \A i \in 1 .. m : \E k \in DOMAIN c : c[k] = ids[i]
  <2> SUFFICES ASSUME NEW i \in 1 .. m PROVE \E k \in DOMAIN c : c[k] = ids[i]
    OBVIOUS
  <2>1. PICK j \in 1 .. m : up[j] = ids[i]
    BY <1>6
  <2> QED BY <1>2, <1>7, <2>1
<1>10. {c[k] : k \in DOMAIN c} = {ids[k] : k \in 1 .. m}
  BY <1>8, <1>9
<1>11. c \in Seq(Nat) /\ \A j, k \in DOMAIN c : j # k => c[j] # c[k]
  BY <1>2, <1>7
<1>12. Len(c) = Least(m, 8)
  <2>1. PICK l \in Nat : l = Len(c) /\ DOMAIN c = 1 .. l
    BY <1>11
  <2>2. IsFiniteSet(1 .. l) /\ Cardinality(1 .. l) = l
    BY FS_Interval
  <2>3. {c[k] : k \in 1 .. l} = T
    BY <1>3, <1>10, <2>1
  <2>4. c \in [1 .. l -> T]
    BY <1>11, <2>1, <2>3
  <2>5. c \in Surjection(1 .. l, T)
    BY <2>3, <2>4 DEF Surjection
  <2>6. c \in Injection(1 .. l, T)
    BY <1>11, <2>1, <2>4 DEF Injection, IsInjective
  <2>7. Cardinality(T) = Cardinality(1 .. l)
    BY <2>2, <2>5, <2>6, FS_Surjection
  <2> QED BY <1>4, <2>1, <2>2, <2>7
<1> QED BY <1>5, <1>10, <1>11, <1>12 DEF c, ids, m

LEMMA WakeStep == SizesInv /\ WakeInv /\ [Next]_vars => WakeInv'
<1> SUFFICES ASSUME SizesInv, WakeInv, [Next]_vars PROVE WakeInv'
  OBVIOUS
<1>1. mark_count' = mark_count => CoalescedChannels' = CoalescedChannels
  BY DEF CoalescedChannels, ChannelIds
<1>2. CASE fixture = "keyframes" /\ KeyframeNext /\ UNCHANGED own
  <2>1. cycle # "wake" /\ cycle' # "wake" /\ dirty' = dirty
    BY <1>2 DEF SizesInv, KeyframeNext, CallReusableVec, GroupNext, ReturnGroups,
                CallFreshBtree, EnterNext, ReturnEntries, own
  <2> QED BY <2>1 DEF WakeInv
<1>3. CASE UNCHANGED vars
  BY <1>1, <1>3 DEF vars, keyframeVars, own, sizes, WakeInv
<1>4. CASE CallWake
  <2>1. /\ cycle = "none" /\ cycle' = "wake" /\ scratch' = CoalescedChannels /\ next' = 0
        /\ mark_count' = mark_count /\ dirty' = dirty /\ mark_count \in Nat
    BY <1>4 DEF CallWake, Call, sizes, SizesInv
  <2>2. Len(CoalescedChannels) \in Nat
    BY <2>1, ChannelFacts DEF Least
  <2> QED BY <1>1, <2>1, <2>2 DEF WakeInv
<1>5. CASE MarkNext
  <2>1. /\ cycle = "wake" /\ cycle' = "wake" /\ scratch' = scratch /\ next' = next + 1
        /\ next < Len(scratch) /\ mark_count' = mark_count /\ dirty' = TRUE
        /\ mark_count \in Nat /\ next \in Nat /\ scratch = CoalescedChannels
    BY <1>5 DEF MarkNext, Runs, sizes, SizesInv, WakeInv
  <2>2. Len(scratch) \in Nat
    BY <2>1, ChannelFacts DEF Least
  <2> QED BY <1>1, <2>1, <2>2 DEF WakeInv
<1>6. CASE ReturnWake
  BY <1>6 DEF ReturnWake, Return, WakeInv
<1>7. CASE \/ CallPlanning \/ PlanNext \/ ReturnPlanning
           \/ CallEgress \/ FanOutNext \/ ReturnEgress
  <2>1. cycle # "wake" /\ cycle' # "wake" /\ dirty' = dirty
    BY <1>7 DEF CallPlanning, PlanNext, ReturnPlanning, CallEgress, FanOutNext, ReturnEgress,
                Call, Runs, Return
  <2> QED BY <2>1 DEF WakeInv
<1> QED BY <1>2, <1>3, <1>4, <1>5, <1>6, <1>7 DEF Next

-----------------------------------------------------------------------------
(* The plans and the fanout. *)

\* Planning one more packet adds a pair for every destination that lets it pass.
LEMMA PlannedNext ==
    ASSUME destination_count \in Nat, NEW p \in Nat
    PROVE  Cardinality(Planned(p + 1)) = Cardinality(Planned(p)) + Cardinality(Row(p))
<1> DEFINE dests == 0 .. destination_count - 1
           added == {p} \X Row(p)
<1>1. IsFiniteSet(dests) /\ IsFiniteSet(0 .. p - 1)
  BY FS_Interval
<1>2. IsFiniteSet(Row(p))
  BY <1>1, FS_Subset DEF Row
<1>3. IsFiniteSet(Planned(p))
  <2>1. Planned(p) \in SUBSET ((0 .. p - 1) \X dests)
    BY DEF Planned
  <2> HIDE DEF dests
  <2> QED BY <1>1, <2>1, FS_Product, FS_Subset
<1>4. Planned(p + 1) = Planned(p) \cup added
  <2>1. 0 .. (p + 1) - 1 = (0 .. p - 1) \cup {p}
    OBVIOUS
  <2>2. ASSUME NEW pair \in Planned(p + 1) PROVE pair \in Planned(p) \cup added
    BY <2>1, <2>2 DEF Planned, Row
  <2>3. ASSUME NEW pair \in Planned(p) \cup added PROVE pair \in Planned(p + 1)
    BY <2>1, <2>3 DEF Planned, Row
  <2> QED BY <2>2, <2>3
<1>5. Planned(p) \cap added = {}
  BY DEF Planned
<1>6. IsFiniteSet({p}) /\ Cardinality({p}) = 1
  BY FS_Singleton
<1>7. IsFiniteSet(added) /\ Cardinality(added) = 1 * Cardinality(Row(p))
  BY <1>2, <1>6, FS_Product
<1>8. Cardinality(Planned(p) \cap added) = 0
  BY <1>5, FS_EmptySet
<1>9. Cardinality(Planned(p)) \in Nat /\ Cardinality(Row(p)) \in Nat
  BY <1>2, <1>3, FS_CardinalityType
<1> HIDE DEF added
<1>10. Cardinality(Planned(p) \cup added)
         = Cardinality(Planned(p)) + Cardinality(added) - 0
  BY <1>3, <1>7, <1>8, FS_Union
<1>11. 1 * Cardinality(Row(p)) = Cardinality(Row(p))
  BY <1>9
<1>12. Cardinality(added) = Cardinality(Row(p))
  BY <1>7, <1>11
<1>13. Cardinality(Planned(p)) + Cardinality(Row(p)) - 0
         = Cardinality(Planned(p)) + Cardinality(Row(p))
  BY <1>9
<1> QED BY <1>4, <1>10, <1>12, <1>13

LEMMA PlanningStep == SizesInv /\ PlanningInv /\ [Next]_vars => PlanningInv'
<1> SUFFICES ASSUME SizesInv, PlanningInv, [Next]_vars PROVE PlanningInv'
  OBVIOUS
<1>1. CASE CallPlanning
  <2>1. /\ next' = 0 /\ route_count' = 0 /\ packet_count' = packet_count /\ packet_count \in Nat
    BY <1>1 DEF CallPlanning, Call, sizes, SizesInv
  <2>2. Planned(next)' = {}
    BY <2>1 DEF Planned
  <2> QED BY <2>1, <2>2, FS_EmptySet DEF PlanningInv
<1>2. CASE PlanNext
  <2>1. /\ next \in Nat /\ next < packet_count /\ next' = next + 1 /\ packet_count \in Nat
        /\ packet_count' = packet_count /\ destination_count' = destination_count
        /\ destination_count \in Nat
        /\ route_count = Cardinality(Planned(next))
        /\ route_count' = route_count + Cardinality(Row(next))
    BY <1>2 DEF PlanNext, Runs, sizes, SizesInv, PlanningInv, Row
  <2>2. Planned(next)' = Planned(next + 1)
    BY <2>1 DEF Planned
  <2>3. route_count' = Cardinality(Planned(next + 1))
    BY <2>1, PlannedNext
  <2>4. next' <= packet_count'
    BY <2>1
  <2> QED BY <2>2, <2>3, <2>4 DEF PlanningInv
<1>3. CASE UNCHANGED vars
  <2>1. Planned(next)' = Planned(next)
    BY <1>3 DEF vars, keyframeVars, own, sizes, Planned
  <2> QED BY <1>3, <2>1 DEF vars, keyframeVars, own, sizes, PlanningInv
<1>4. CASE cycle' # "planning"
  BY <1>4 DEF PlanningInv
<1>5. CASE KeyframeNext
  <2>1. cycle' # "planning"
    BY <1>5 DEF KeyframeNext, CallReusableVec, GroupNext, ReturnGroups,
                CallFreshBtree, EnterNext, ReturnEntries
  <2> QED BY <1>4, <2>1
<1>6. CASE \/ CallWake \/ MarkNext \/ ReturnWake \/ ReturnPlanning
           \/ CallEgress \/ FanOutNext \/ ReturnEgress
  BY <1>4, <1>6 DEF CallWake, MarkNext, ReturnWake, ReturnPlanning,
                    CallEgress, FanOutNext, ReturnEgress, Call, Runs, Return
<1> QED BY <1>1, <1>2, <1>3, <1>5, <1>6 DEF Next

\* Every seventh index, from 0 on, is inactive.
LEMMA SevenNext ==
    ASSUME NEW n \in Nat
    PROVE  /\ (n + 6) \div 7 \in Nat /\ (n + 6) \div 7 <= n
           /\ (n + 1 + 6) \div 7 = (n + 6) \div 7 + (IF n % 7 = 0 THEN 1 ELSE 0)
  OBVIOUS

LEMMA EgressStep == SizesInv /\ EgressInv /\ [Next]_vars => EgressInv'
<1> SUFFICES ASSUME SizesInv, EgressInv, [Next]_vars PROVE EgressInv'
  OBVIOUS
<1>1. CASE CallEgress
  <2>1. /\ next' = 0 /\ scratch' = <<>> /\ destination_count' = destination_count
        /\ destination_count \in Nat
    BY <1>1 DEF CallEgress, Call, sizes, SizesInv
  <2>2. (0 + 6) \div 7 = 0
    OBVIOUS
  <2>3. <<>> \in Seq(Nat) /\ Len(<<>>) = 0
    OBVIOUS
  <2> QED BY <2>1, <2>2, <2>3 DEF EgressInv
<1>2. CASE FanOutNext
  <2> DEFINE q == (next + 6) \div 7
             later == (next' + 6) \div 7
  <2>1. /\ next \in Nat /\ next < destination_count /\ next' = next + 1
        /\ destination_count' = destination_count /\ destination_count \in Nat
        /\ scratch' = IF next % 7 # 0 THEN Append(scratch, next) ELSE scratch
        /\ scratch \in Seq(Nat)
    BY <1>2 DEF FanOutNext, Runs, sizes, SizesInv, EgressInv, Active
  <2>0. next \in Nat /\ next' = next + 1 /\ Len(scratch) = next - q
    BY <1>2 DEF FanOutNext, Runs, SizesInv, EgressInv
  <2>2. q \in Nat /\ later = q + (IF next % 7 = 0 THEN 1 ELSE 0)
    BY <2>1, SevenNext
  <2> HIDE DEF q, later
  <2>3. /\ scratch' \in Seq(Nat)
        /\ Len(scratch') = Len(scratch) + (IF next % 7 # 0 THEN 1 ELSE 0)
    BY <2>1
  <2>4. Len(scratch') = next' - later
    BY <2>0, <2>2, <2>3
  <2>5. next' <= destination_count'
    BY <2>1
  <2> QED BY <2>3, <2>4, <2>5 DEF EgressInv, later
<1>3. CASE UNCHANGED vars
  BY <1>3 DEF vars, keyframeVars, own, sizes, EgressInv
<1>4. CASE cycle' # "egress"
  BY <1>4 DEF EgressInv
<1>5. CASE KeyframeNext
  <2>1. cycle' # "egress"
    BY <1>5 DEF KeyframeNext, CallReusableVec, GroupNext, ReturnGroups,
                CallFreshBtree, EnterNext, ReturnEntries
  <2> QED BY <1>4, <2>1
<1>6. CASE \/ CallWake \/ MarkNext \/ ReturnWake
           \/ CallPlanning \/ PlanNext \/ ReturnPlanning \/ ReturnEgress
  BY <1>4, <1>6 DEF CallWake, MarkNext, ReturnWake, CallPlanning, PlanNext, ReturnPlanning,
                    ReturnEgress, Call, Runs, Return
<1> QED BY <1>1, <1>2, <1>3, <1>5, <1>6 DEF Next

-----------------------------------------------------------------------------
(* What the cycles return. *)

LEMMA ResultStep == IInv /\ [Next]_vars => ResultExact'
<1> SUFFICES ASSUME IInv, [Next]_vars PROVE ResultExact'
  OBVIOUS
<1> USE DEF IInv
<1>1. CASE cycle' # "none"
  BY <1>1 DEF ResultExact
<1>2. CASE UNCHANGED vars
  <2>1. Sources' = Sources
    BY <1>2 DEF vars, keyframeVars, Sources, Requests
  <2> QED BY <1>2, <2>1 DEF vars, keyframeVars, own, sizes, ResultExact, Least
<1>3. CASE fixture = "keyframes" /\ KeyframeNext /\ UNCHANGED own
  <2>1. fixture' = "keyframes"
    BY <1>3 DEF own, sizes
  <2>2. CASE ReturnGroups
    <3>1. Sources' = Sources
      BY <2>2 DEF ReturnGroups, Sources, Requests
    <3>2. result' = Cardinality(Sources)
      BY <2>2, GroupsReturned DEF AllGrouped
    <3> QED BY <2>1, <3>1, <3>2 DEF ResultExact
  <2>3. CASE ReturnEntries
    <3>1. Sources' = Sources
      BY <2>3 DEF ReturnEntries, Sources, Requests
    <3>2. result' = Cardinality(Sources)
      BY <2>3, EntriesReturned DEF AllGrouped
    <3> QED BY <2>1, <3>1, <3>2 DEF ResultExact
  <2>4. CASE CallReusableVec \/ CallFreshBtree \/ GroupNext \/ EnterNext
    BY <1>1, <2>4 DEF CallReusableVec, CallFreshBtree, GroupNext, EnterNext
  <2> QED BY <1>3, <2>2, <2>3, <2>4 DEF KeyframeNext
<1>4. CASE ReturnWake
  <2>1. /\ cycle = "wake" /\ next = Len(scratch) /\ scratch = CoalescedChannels
        /\ result' = Len(scratch) + (IF dirty THEN 1 ELSE 0)
        /\ mark_count' = mark_count /\ mark_count \in Nat /\ (dirty <=> next > 0)
        /\ fixture' = "wake"
    BY <1>4 DEF ReturnWake, Return, sizes, WakeInv, SizesInv
  <2>2. Len(scratch) = Least(mark_count, 8)
    BY <2>1, ChannelFacts
  <2>3. result' = Least(mark_count, 8) + Least(mark_count, 1)
    <3>1. CASE mark_count = 0
      <4>1. Len(scratch) = 0 /\ ~ dirty
        BY <2>1, <2>2, <3>1 DEF Least
      <4> QED BY <2>1, <3>1, <4>1 DEF Least
    <3>2. CASE mark_count > 0
      <4>1. Least(mark_count, 8) \in Nat \ {0} /\ Least(mark_count, 1) = 1
        BY <2>1, <3>2 DEF Least
      <4>2. dirty
        BY <2>1, <2>2, <4>1
      <4> QED BY <2>1, <2>2, <4>1, <4>2
    <3> QED BY <2>1, <3>1, <3>2
  <2> QED BY <2>1, <2>3 DEF ResultExact, Least
<1>5. CASE ReturnPlanning
  <2>1. /\ cycle = "planning" /\ next = packet_count /\ result' = Cardinality(Planned(next))
        /\ packet_count' = packet_count /\ destination_count' = destination_count
        /\ fixture' = "planning" /\ packet_count \in Nat
    BY <1>5 DEF ReturnPlanning, Return, sizes, PlanningInv, SizesInv
  <2>2. Planned(packet_count) = {pair \in (0 .. packet_count - 1)
                                             \X (0 .. destination_count - 1) :
                           /\ pair[2] % 7 # 0
                           /\ pair[2] % 4 # 0 => pair[2] % 3 = pair[1] % 3}
    BY DEF Planned, Active, Permits
  <2> QED BY <2>1, <2>2 DEF ResultExact
<1>6. CASE ReturnEgress
  <2>1. /\ cycle = "egress" /\ next = destination_count /\ result' = Len(scratch)
        /\ destination_count' = destination_count /\ fixture' = "egress"
        /\ Len(scratch) = next - (next + 6) \div 7
    BY <1>6 DEF ReturnEgress, Return, sizes, EgressInv, SizesInv
  <2> QED BY <2>1 DEF ResultExact
<1>7. CASE CallWake \/ MarkNext \/ CallPlanning \/ PlanNext \/ CallEgress \/ FanOutNext
  BY <1>1, <1>7 DEF CallWake, MarkNext, CallPlanning, PlanNext, CallEgress, FanOutNext,
                    Call, Runs
<1> QED BY <1>2, <1>3, <1>4, <1>5, <1>6, <1>7 DEF Next

LEMMA InvStep == IInv /\ [Next]_vars => IInv'
BY SizesStep, SortedStep, MapStep, IdleStep, WakeStep, PlanningStep, EgressStep, ResultStep
   DEF IInv

LEMMA Invariant == Spec => []IInv
BY InvInit, InvStep, PTL DEF Spec

-----------------------------------------------------------------------------
(* The theorems. *)

\* A group that the sorted loop has completed is merged from every request for
\* its source, those still ahead in the buffer included: there are none.
LEMMA GroupsHold == IInv => GroupsExact
<1> SUFFICES ASSUME IInv PROVE GroupsExact
  OBVIOUS
<1> USE DEF IInv
<1>1. ASSUME cycle = "reusable_vec", NEW s \in 0 .. 15, coalesced[s] # Nothing
      PROVE  coalesced[s] = Merged(s)
  <2> DEFINE last == SourceAt(next)
  <2>1. ~ (next > 0 /\ s = last) /\ coalesced[s] = Grouped(Met, s)
    BY <1>1 DEF SortedInv
  <2>2. Of(Met, s) # {}
    BY <1>1, <2>1 DEF Grouped
  <2>3. PICK j \in 1 .. next : SourceAt(j) = s
    BY <2>2 DEF Met, Of, SourceAt
  <2>4. next \in 1 .. request_count /\ j \in 1 .. request_count /\ j < next
    BY <1>1, <2>1, <2>3, BufferFacts
  <2>5. ASSUME NEW i \in Of(Requests, s) PROVE i \in Met
    <3>1. PICK k \in 1 .. request_count : scratch[k] = i
      BY <1>1, BufferFacts DEF Of
    <3>2. SourceAt(k) = s
      BY <3>1 DEF Of, SourceAt
    <3>3. CASE k <= next
      BY <3>1, <3>3 DEF Met
    <3>4. CASE k > next
      <4>1. SourceAt(j) < SourceAt(next) \/ SourceAt(j) = SourceAt(next)
        BY <1>1, <2>4, BufferFacts
      <4>2. SourceAt(next) < SourceAt(k) \/ SourceAt(next) = SourceAt(k)
        BY <1>1, <2>4, <3>4, BufferFacts
      <4>3. last \in 0 .. 15
        BY <1>1, <2>4, BufferFacts
      <4> QED BY <2>1, <2>3, <2>4, <3>2, <4>1, <4>2, <4>3
    <3> QED BY <2>4, <3>3, <3>4
  <2>6. Of(Met, s) = Of(Requests, s)
    BY <1>1, <2>5, BufferFacts DEF Of
  <2> QED BY <2>1, <2>2, <2>6 DEF Grouped, Merged
<1>2. ASSUME cycle = "none", next = request_count, NEW s \in 0 .. 15
      PROVE  coalesced[s] = IF s \in Sources THEN Merged(s) ELSE Nothing
  <2>1. coalesced[s] = Grouped(Requests, s)
    BY <1>2 DEF IdleInv
  <2>2. s \in Sources <=> Of(Requests, s) # {}
    BY DEF Sources, Of
  <2> QED BY <2>1, <2>2 DEF Grouped, Merged
<1> QED BY <1>1, <1>2 DEF GroupsExact

\* Sorting the requests and merging neighbours gives, whatever their number, one
\* request per source, merged from all the requests for it, as the map does.
THEOREM GroupsCorrect == Spec => []GroupsExact
BY Invariant, GroupsHold, PTL

\* A channel wakes the worker once in a cycle, however often it was marked, and
\* the dirty flag is down whenever no cycle runs.
THEOREM WakesCorrect == Spec => []WakesOnce
<1>1. IInv => WakesOnce
  BY ChannelFacts DEF IInv, WakeInv, SizesInv, WakesOnce
<1> QED BY <1>1, Invariant, PTL

\* Every cycle returns what follows from the sizes of its fixture, each time.
THEOREM ResultsCorrect == Spec => []ResultExact
<1>1. IInv => ResultExact
  BY DEF IInv
<1> QED BY <1>1, Invariant, PTL
=============================================================================
