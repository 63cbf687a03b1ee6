------------------------- MODULE PacketMetricsProofs -------------------------
(* What the TLA+ proof system proves about PacketMetrics, for every number   *)
(* of threads, every payload vector and every counter width that holds the   *)
(* total.                                                                    *)
EXTENDS PacketMetrics, FiniteSetTheorems, TLAPS

-----------------------------------------------------------------------------
(* Facts about Weight, the sum of Amount over a set of packets.  The rest of *)
(* the module uses these facts and never the definition.                     *)

\* One addition to a counter adds a u64.
LEMMA AmountType ==
    ASSUME NEW p \in Packets, NEW f \in Fields
    PROVE  Amount(p, f) \in 0 .. MaxU64
<1>1. p[1] \in Nat /\ p[2] \in 1 .. Operations
    BY ConstantsAssumption DEF Packets, Workers
<1>2. Payloads[p[2]] \in 0 .. MaxU64
    BY <1>1, ConstantsAssumption
<1> QED
    BY <1>1, <1>2, ConstantsAssumption DEF Amount, SatAdd

LEMMA PacketsFinite == IsFiniteSet(Packets)
<1>1. IsFiniteSet(Workers)
    BY FS_Interval, ConstantsAssumption DEF Workers
<1>2. IsFiniteSet(1 .. Operations)
    BY FS_Interval, ConstantsAssumption
<1> QED
    BY <1>1, <1>2, FS_Product DEF Packets

LEMMA UnitsFinite ==
    ASSUME NEW S, NEW f
    PROVE  IsFiniteSet(Units(S, f))
<1>1. IsFiniteSet(1 .. MaxU64)
    BY FS_Interval, ConstantsAssumption
<1>2. IsFiniteSet(Packets \X (1 .. MaxU64))
    BY <1>1, PacketsFinite, FS_Product
<1>3. Units(S, f) \in SUBSET (Packets \X (1 .. MaxU64))
    BY DEF Units
<1> QED
    BY <1>2, <1>3, FS_Subset

LEMMA WeightType ==
    ASSUME NEW S, NEW f
    PROVE  Weight(S, f) \in Nat
BY UnitsFinite, FS_CardinalityType DEF Weight

\* The sum over no packets.
LEMMA WeightEmpty ==
    ASSUME NEW f
    PROVE  Weight({}, f) = 0
<1>1. Units({}, f) = {}
    BY DEF Units
<1> QED
    BY <1>1, FS_EmptySet DEF Weight

\* More packets weigh no less.
LEMMA WeightMonotone ==
    ASSUME NEW S, NEW T, S \subseteq T, NEW f
    PROVE  Weight(S, f) <= Weight(T, f)
<1>1. Units(S, f) \in SUBSET Units(T, f)
    BY DEF Units
<1> QED
    BY <1>1, UnitsFinite, FS_Subset DEF Weight

\* The sum over two sets with no packet in common.
LEMMA WeightUnion ==
    ASSUME NEW S, NEW T, S \cap T = {}, NEW f
    PROVE  Weight(S \cup T, f) = Weight(S, f) + Weight(T, f)
<1>1. Units(S \cup T, f) = Units(S, f) \cup Units(T, f)
    BY DEF Units
<1>2. Units(S, f) \cap Units(T, f) = {}
    BY DEF Units
<1>3. Cardinality(Units(S, f) \cap Units(T, f)) = 0
    BY <1>2, FS_EmptySet
<1>4. Weight(S \cup T, f) = Weight(S, f) + Weight(T, f) - 0
    BY <1>1, <1>3, UnitsFinite, FS_Union DEF Weight
<1> QED
    BY <1>4, WeightType

\* The sum over one packet.
LEMMA WeightSingleton ==
    ASSUME NEW p \in Packets, NEW f \in Fields
    PROVE  Weight({p}, f) = Amount(p, f)
<1> DEFINE a == Amount(p, f)
<1>1. a \in 0 .. MaxU64
    BY AmountType
<1>2. Units({p}, f) = {p} \X (1 .. a)
    BY <1>1, ConstantsAssumption DEF Units
<1>3. IsFiniteSet(1 .. a) /\ Cardinality(1 .. a) = a
    BY <1>1, FS_Interval, ConstantsAssumption
<1>4. IsFiniteSet({p}) /\ Cardinality({p}) = 1
    BY FS_Singleton
<1> HIDE DEF a
<1>5. Cardinality({p} \X (1 .. a)) = 1 * a
    <2> DEFINE P == {p}
               U == 1 .. a
    <2>1. IsFiniteSet(P) /\ Cardinality(P) = 1 /\ IsFiniteSet(U) /\ Cardinality(U) = a
        BY <1>3, <1>4
    <2> HIDE DEF P, U
    <2>2. Cardinality(P \X U) = Cardinality(P) * Cardinality(U)
        BY <2>1, FS_Product
    <2> QED BY <2>1, <2>2 DEF P, U
<1>6. Weight({p}, f) = 1 * a
    BY <1>2, <1>5 DEF Weight
<1>7. 1 * a = a
    BY <1>1, ConstantsAssumption
<1> QED
    BY <1>6, <1>7 DEF a

\* Counting one more packet adds its amount.
LEMMA WeightAdd ==
    ASSUME NEW S, NEW p \in Packets, p \notin S, NEW f \in Fields
    PROVE  Weight(S \cup {p}, f) = Weight(S, f) + Amount(p, f)
<1>1. S \cap {p} = {}
    OBVIOUS
<1>2. Weight(S \cup {p}, f) = Weight(S, f) + Weight({p}, f)
    BY <1>1, WeightUnion
<1> QED
    BY <1>2, WeightSingleton

\* No set of packets weighs more than all of them, in one counter or in six.
LEMMA WeightFits ==
    ASSUME NEW S \in SUBSET Packets
    PROVE  /\ TotalWeight(S) \in 0 .. MaxU64
           /\ \A f \in Fields : Weight(S, f) \in 0 .. MaxU64
<1>1. \A f : Weight(S, f) \in Nat /\ Weight(Packets, f) \in Nat
    BY WeightType
<1>2. \A f : Weight(S, f) <= Weight(Packets, f)
    BY WeightMonotone
<1>3. \A f \in Fields : Weight(S, f) <= TotalWeight(S)
    BY <1>1 DEF TotalWeight, Fields
<1>4. TotalWeight(S) <= Expected /\ TotalWeight(S) \in Nat
    BY <1>1, <1>2 DEF TotalWeight, Expected
<1>5. Expected \in Nat
    BY <1>1 DEF TotalWeight, Expected
<1>6. TotalWeight(S) \in 0 .. MaxU64
    BY <1>4, <1>5, TotalFits, ConstantsAssumption
<1> QED
    BY <1>1, <1>3, <1>6, ConstantsAssumption

-----------------------------------------------------------------------------
(* Where the threads can be, whatever the counters hold: the invariant behind *)
(* BarrierHolds, NoPartialResult and the joins.                              *)

\* Threads are spawned in order, one per worker.
SpawnOrder == \A w \in Workers : pc[w] = "absent" <=> w >= spawned

\* The caller joins after the last spawn, unwinds before it, and returns after
\* the last join.
PhaseSpawned ==
    /\ phase = "returned" => \A w \in Workers : pc[w] = "finished"
    /\ phase \in {"joining", "returned"} => spawned = WorkerCount
    /\ phase \in {"unwinding", "panicked"} => spawned < WorkerCount
    /\ phase # "returned" => result = NoResult

\* The payload loop starts at zero and ends after the last payload.
LoopBounds ==
    \A w \in Workers :
        /\ pc[w] \in {"absent", "entering", "waiting"} => idx[w] = 0 /\ field[w] = 0
        /\ idx[w] = Operations => field[w] = 0
        /\ pc[w] = "finished" => idx[w] = Operations

Waiting == {w \in Workers : pc[w] = "waiting"}

\* Before it opens, the barrier counts the threads blocked in it and nobody is
\* past it; after it has opened, nobody is still on the way.
BarrierCounts ==
    /\ barrier_generation = 0 =>
          /\ barrier_count = Cardinality(Waiting)
          /\ \A w \in Workers : pc[w] \notin {"recording", "finished"}
    /\ barrier_generation # 0 =>
          \A w \in Workers : pc[w] \notin {"absent", "entering"}

\* Only totals of finished threads have been added up.
CollectedFinished == \A w \in Workers : w < collected => pc[w] = "finished"

ControlInv ==
    /\ TypeOK
    /\ SpawnOrder
    /\ PhaseSpawned
    /\ LoopBounds
    /\ BarrierCounts
    /\ CollectedFinished

LEMMA WorkersFinite == IsFiniteSet(Workers) /\ Cardinality(Workers) = WorkerCount
<1>1. IsFiniteSet(Workers) /\ Cardinality(Workers) =
          IF 0 > WorkerCount - 1 THEN 0 ELSE WorkerCount - 1 - 0 + 1
    BY FS_Interval, ConstantsAssumption DEF Workers
<1> QED
    BY <1>1, ConstantsAssumption

\* u64 additions stay u64.
LEMMA AddType ==
    ASSUME NEW a \in 0 .. MaxU64, NEW b \in 0 .. MaxU64
    PROVE  /\ SatAdd(a, b) \in 0 .. MaxU64
           /\ WrapAdd(a, b) \in 0 .. MaxU64
           /\ Add(a, b) \in 0 .. MaxU64
BY ConstantsAssumption DEF SatAdd, WrapAdd, Add

LEMMA TotalType ==
    ASSUME TypeOK, NEW c \in Cells
    PROVE  Total(c) \in 0 .. MaxU64
<1> DEFINE s1 == SatAdd(counters[c][0], counters[c][1])
           s2 == SatAdd(s1, counters[c][2])
           s3 == SatAdd(s2, counters[c][3])
           s4 == SatAdd(s3, counters[c][4])
<1>1. \A f \in Fields : counters[c][f] \in 0 .. MaxU64
    BY DEF TypeOK
<1>2. /\ counters[c][0] \in 0 .. MaxU64
      /\ counters[c][1] \in 0 .. MaxU64
      /\ counters[c][2] \in 0 .. MaxU64
      /\ counters[c][3] \in 0 .. MaxU64
      /\ counters[c][4] \in 0 .. MaxU64
      /\ counters[c][5] \in 0 .. MaxU64
    BY <1>1 DEF Fields
<1>3. s1 \in 0 .. MaxU64
    BY <1>2, AddType
<1> HIDE DEF s1
<1>4. s2 \in 0 .. MaxU64
    BY <1>2, <1>3, AddType
<1> HIDE DEF s2
<1>5. s3 \in 0 .. MaxU64
    BY <1>2, <1>4, AddType
<1> HIDE DEF s3
<1>6. s4 \in 0 .. MaxU64
    BY <1>2, <1>5, AddType
<1> HIDE DEF s4
<1>7. SatAdd(s4, counters[c][5]) \in 0 .. MaxU64
    BY <1>2, <1>6, AddType
<1> QED
    BY <1>7 DEF Total, s1, s2, s3, s4

LEMMA HomeType ==
    ASSUME NEW w \in Workers
    PROVE  Home(w) \in Cells
BY DEF Home, Cells

LEMMA ControlInit == Init => ControlInv
<1> SUFFICES ASSUME Init PROVE ControlInv
    OBVIOUS
<1> USE ConstantsAssumption DEF Init
<1>1. TypeOK
    BY DEF TypeOK, Fields, Workers
<1>2. SpawnOrder /\ PhaseSpawned /\ LoopBounds /\ CollectedFinished
    BY DEF SpawnOrder, PhaseSpawned, LoopBounds, CollectedFinished, Workers
<1>3. BarrierCounts
    <2>1. Waiting = {}
        BY DEF Waiting
    <2> QED
        BY <2>1, FS_EmptySet DEF BarrierCounts
<1> QED
    BY <1>1, <1>2, <1>3 DEF ControlInv

LEMMA WaitingFinite == IsFiniteSet(Waiting)
BY WorkersFinite, FS_Subset, Waiting \in SUBSET Workers DEF Waiting

LEMMA ControlStep == ControlInv /\ [Next]_vars => ControlInv'
<1> SUFFICES ASSUME ControlInv, [Next]_vars PROVE ControlInv'
    OBVIOUS
<1> USE ConstantsAssumption DEF ControlInv
<1> USE DEF threadVars, mainVars
<1>1. CASE Spawn
    <2>1. TypeOK'
        BY <1>1 DEF Spawn, TypeOK, Workers
    <2>2. SpawnOrder' /\ PhaseSpawned' /\ LoopBounds' /\ CollectedFinished'
        BY <1>1 DEF Spawn, TypeOK, SpawnOrder, PhaseSpawned, LoopBounds,
                    CollectedFinished, Workers
    <2>3. Waiting' = Waiting
        BY <1>1 DEF Spawn, TypeOK, SpawnOrder, Waiting, Workers
    <2>4. BarrierCounts'
        BY <1>1, <2>3 DEF Spawn, TypeOK, SpawnOrder, BarrierCounts, Workers
    <2> QED
        BY <2>1, <2>2, <2>4
<1>2. CASE SpawnFails \/ EndSpawn \/ Unwind
    <2>1. UNCHANGED threadVars /\ UNCHANGED <<spawned, collected, acc, result, strategy>>
        BY <1>2 DEF SpawnFails, EndSpawn, Unwind
    <2>2. TypeOK'
        BY <1>2 DEF SpawnFails, EndSpawn, Unwind, TypeOK
    <2>3. PhaseSpawned'
        BY <1>2 DEF SpawnFails, EndSpawn, Unwind, PhaseSpawned
    <2>4. SpawnOrder' /\ LoopBounds' /\ BarrierCounts' /\ CollectedFinished'
        BY <2>1 DEF SpawnOrder, LoopBounds, BarrierCounts, CollectedFinished, Waiting
    <2> QED
        BY <2>2, <2>3, <2>4
<1>3. CASE Collect
    <2>1. collected \in Workers /\ collected \in Cells
        BY <1>3 DEF Collect, TypeOK, Workers, Cells
    <2>2. WrapAdd(acc, Total(collected)) \in 0 .. MaxU64
        BY <2>1, TotalType, AddType DEF TypeOK
    <2>3. TypeOK'
        BY <1>3, <2>2 DEF Collect, TypeOK
    <2>4. SpawnOrder' /\ PhaseSpawned' /\ LoopBounds' /\ BarrierCounts'
        BY <1>3 DEF Collect, SpawnOrder, PhaseSpawned, LoopBounds, BarrierCounts, Waiting
    <2>5. CollectedFinished'
        <3>1. pc[collected] = "finished" /\ pc' = pc /\ collected' = collected + 1
            BY <1>3, <2>1 DEF Collect, AllFinished
        <3>2. \A w \in Workers : w < collected + 1 => w < collected \/ w = collected
            BY DEF Workers, TypeOK
        <3> QED
            BY <3>1, <3>2 DEF CollectedFinished
    <2> QED
        BY <2>3, <2>4, <2>5
<1>4. CASE Return
    <2>1. Total(Shared) \in 0 .. MaxU64
        BY TotalType DEF Cells
    <2>2. TypeOK'
        BY <1>4, <2>1 DEF Return, TypeOK
    <2>3. SpawnOrder' /\ LoopBounds' /\ BarrierCounts' /\ CollectedFinished'
        BY <1>4 DEF Return, SpawnOrder, LoopBounds, BarrierCounts, CollectedFinished, Waiting
    <2>4. PhaseSpawned'
        BY <1>4 DEF Return, PhaseSpawned, AllFinished
    <2> QED
        BY <2>2, <2>3, <2>4
<1>5. ASSUME NEW w \in Workers, Arrive(w)
      PROVE  ControlInv'
    <2>1. TypeOK'
        BY <1>5 DEF Arrive, TypeOK
    <2>2. SpawnOrder' /\ PhaseSpawned' /\ LoopBounds' /\ CollectedFinished'
        BY <1>5 DEF Arrive, TypeOK, SpawnOrder, PhaseSpawned, LoopBounds, CollectedFinished
    <2>3. Waiting' = Waiting \cup {w} /\ w \notin Waiting
        BY <1>5 DEF Arrive, TypeOK, Waiting
    <2>4. Cardinality(Waiting') = Cardinality(Waiting) + 1
        BY <2>3, WaitingFinite, FS_AddElement
    <2>5. BarrierCounts'
        BY <1>5, <2>4 DEF Arrive, TypeOK, BarrierCounts
    <2> QED
        BY <2>1, <2>2, <2>5
<1>6. ASSUME NEW w \in Workers, Release(w)
      PROVE  ControlInv'
    <2>1. barrier_generation = 0 /\ barrier_count = Cardinality(Waiting)
        BY <1>6 DEF Release, BarrierCounts, TypeOK
    <2>2. TypeOK'
        BY <1>6, <2>1 DEF Release, TypeOK
    <2>3. SpawnOrder' /\ PhaseSpawned' /\ LoopBounds' /\ CollectedFinished'
        BY <1>6 DEF Release, TypeOK, SpawnOrder, PhaseSpawned, LoopBounds, CollectedFinished
    <2>4. Waiting \cup {w} = Workers
        <3>1. w \notin Waiting /\ Waiting \cup {w} \in SUBSET Workers
            BY <1>6 DEF Release, Waiting
        <3>2. Cardinality(Waiting \cup {w}) = Cardinality(Waiting) + 1
            BY <3>1, WaitingFinite, FS_AddElement
        <3>3. Cardinality(Waiting \cup {w}) >= WorkerCount
            BY <1>6, <2>1, <3>2 DEF Release
        <3>4. Cardinality(Waiting \cup {w}) <= WorkerCount
            BY <3>1, WorkersFinite, FS_Subset
        <3>5. Cardinality(Waiting \cup {w}) = Cardinality(Workers)
            BY <3>2, <3>3, <3>4, WaitingFinite, FS_CardinalityType, WorkersFinite
        <3> QED
            BY <3>1, <3>5, WorkersFinite, FS_Subset
    <2>5. BarrierCounts'
        BY <1>6, <2>1, <2>4 DEF Release, TypeOK, BarrierCounts, Waiting
    <2> QED
        BY <2>2, <2>3, <2>5
<1>7. ASSUME NEW w \in Workers, Pass(w)
      PROVE  ControlInv'
    <2>1. TypeOK'
        BY <1>7 DEF Pass, TypeOK
    <2>2. SpawnOrder' /\ PhaseSpawned' /\ LoopBounds' /\ CollectedFinished'
        BY <1>7 DEF Pass, TypeOK, SpawnOrder, PhaseSpawned, LoopBounds, CollectedFinished
    <2>3. BarrierCounts'
        BY <1>7 DEF Pass, TypeOK, BarrierCounts
    <2> QED
        BY <2>1, <2>2, <2>3
<1>8. ASSUME NEW w \in Workers, Bump(w)
      PROVE  ControlInv'
    <2>1. Home(w) \in Cells /\ field[w] \in Fields
        BY HomeType DEF TypeOK
    <2>2. <<w, idx[w] + 1>> \in Packets
        BY <1>8 DEF Bump, Packets, TypeOK
    <2>3. Amount(<<w, idx[w] + 1>>, field[w]) \in 0 .. MaxU64
        BY <2>1, <2>2, AmountType
    <2>4. Add(counters[Home(w)][field[w]], Amount(<<w, idx[w] + 1>>, field[w])) \in 0 .. MaxU64
        <3>1. counters[Home(w)][field[w]] \in 0 .. MaxU64
            BY <2>1 DEF TypeOK
        <3> QED
            BY <3>1, <2>3, AddType
    <2>5. counters' \in [Cells -> [Fields -> 0 .. MaxU64]]
        BY <1>8, <2>1, <2>4 DEF Bump, TypeOK
    <2>6. idx' \in [Workers -> 0 .. Operations] /\ field' \in [Workers -> Fields]
        <3>1. idx[w] + 1 \in 0 .. Operations
            BY <1>8 DEF Bump, TypeOK
        <3>2. field[w] < 5 => field[w] + 1 \in Fields
            BY <2>1 DEF Fields
        <3>3. 0 \in Fields
            BY DEF Fields
        <3>4. idx' = idx \/ idx' = [idx EXCEPT ![w] = idx[w] + 1]
            BY <1>8 DEF Bump
        <3>5. \/ field[w] < 5 /\ field' = [field EXCEPT ![w] = field[w] + 1]
              \/ field' = [field EXCEPT ![w] = 0]
            BY <1>8 DEF Bump
        <3>6. idx' \in [Workers -> 0 .. Operations]
            BY <3>1, <3>4 DEF TypeOK
        <3>7. field' \in [Workers -> Fields]
            BY <3>2, <3>3, <3>5 DEF TypeOK
        <3> QED
            BY <3>6, <3>7
    <2>7. TypeOK'
        BY <1>8, <2>5, <2>6 DEF Bump, TypeOK
    <2>8. SpawnOrder' /\ PhaseSpawned' /\ CollectedFinished' /\ BarrierCounts'
        BY <1>8 DEF Bump, SpawnOrder, PhaseSpawned, CollectedFinished, BarrierCounts, Waiting
    <2>9. LoopBounds'
        BY <1>8 DEF Bump, TypeOK, LoopBounds
    <2> QED
        BY <2>7, <2>8, <2>9
<1>9. ASSUME NEW w \in Workers, Finish(w)
      PROVE  ControlInv'
    <2>1. TypeOK'
        BY <1>9 DEF Finish, TypeOK
    <2>2. SpawnOrder' /\ PhaseSpawned' /\ LoopBounds' /\ CollectedFinished'
        BY <1>9 DEF Finish, TypeOK, SpawnOrder, PhaseSpawned, LoopBounds, CollectedFinished
    <2>3. BarrierCounts'
        BY <1>9 DEF Finish, TypeOK, BarrierCounts
    <2> QED
        BY <2>1, <2>2, <2>3
<1>10. CASE UNCHANGED vars
    BY <1>10 DEF vars, TypeOK, SpawnOrder, PhaseSpawned, LoopBounds, BarrierCounts,
                 CollectedFinished, Waiting
<1> QED
    BY <1>1, <1>2, <1>3, <1>4, <1>5, <1>6, <1>7, <1>8, <1>9, <1>10
       DEF Next, Main, Worker, Terminated

\* PacketMetrics keeps every variable in its range: no counter, running total or
\* barrier count leaves its type in any interleaving.
THEOREM TypeCorrect == Spec => []TypeOK
<1>1. Init => ControlInv
    BY ControlInit
<1>2. ControlInv /\ [Next]_vars => ControlInv'
    BY ControlStep
<1>3. ControlInv => TypeOK
    BY DEF ControlInv
<1> QED
    BY <1>1, <1>2, <1>3, PTL DEF Spec

\* No thread counts before all have been spawned and have met at the barrier.
THEOREM BarrierSafe == Spec => []BarrierHolds
<1>1. ControlInv => BarrierHolds
    BY DEF ControlInv, TypeOK, BarrierCounts, BarrierHolds
<1> QED
    BY <1>1, ControlInit, ControlStep, PTL DEF Spec

\* After a failed spawn, no thread counts and no total is returned.
THEOREM FailureYieldsNothing == Spec => []NoPartialResult
<1>1. ControlInv => NoPartialResult
    <2> SUFFICES ASSUME ControlInv, phase \in {"unwinding", "panicked"}
                 PROVE  /\ result = NoResult
                        /\ \A w \in Workers : pc[w] \in {"absent", "entering", "waiting"}
        BY DEF NoPartialResult
    <2>1. spawned \in Workers /\ pc[spawned] = "absent"
        BY ConstantsAssumption DEF ControlInv, TypeOK, PhaseSpawned, SpawnOrder, Workers
    <2>2. barrier_generation = 0
        BY <2>1 DEF ControlInv, BarrierCounts
    <2> QED
        BY <2>2 DEF ControlInv, TypeOK, PhaseSpawned, BarrierCounts
<1> QED
    BY <1>1, ControlInit, ControlStep, PTL DEF Spec

\* Once a later spawn has failed, the caller never leaves the scope.
THEOREM FailureStrands == Spec => StrandedForever
<1>1. ControlInv /\ [Next]_vars
          => [phase = "unwinding" /\ spawned > 0 => phase' = "unwinding"]_vars
    <2> SUFFICES ASSUME ControlInv, Next, phase = "unwinding", spawned > 0
                 PROVE  phase' = "unwinding"
        OBVIOUS
    <2>1. 0 \in Workers /\ 0 < spawned
        BY ConstantsAssumption DEF ControlInv, TypeOK, PhaseSpawned, Workers
    <2>2. spawned \in Workers /\ pc[spawned] = "absent"
        BY ConstantsAssumption DEF ControlInv, TypeOK, PhaseSpawned, SpawnOrder, Workers
    <2>3. pc[0] # "finished"
        BY <2>1, <2>2 DEF ControlInv, BarrierCounts
    <2>4. ~Unwind
        BY <2>1, <2>3 DEF Unwind
    <2>5. CASE Main
        BY <2>4, <2>5 DEF Main, Spawn, SpawnFails, EndSpawn, Collect, Return
    <2>6. ASSUME NEW w \in Workers, Worker(w)
          PROVE  phase' = phase
        BY <2>6 DEF Worker, Arrive, Release, Pass, Bump, Finish, mainVars
    <2>7. CASE Terminated
        BY <2>7 DEF Terminated
    <2> QED
        BY <2>5, <2>6, <2>7 DEF Next
<1> QED
    BY <1>1, ControlInit, ControlStep, PTL DEF Spec, StrandedForever

-----------------------------------------------------------------------------
(* What the counters hold.                                                   *)

PacketsBelow(n) == {p \in Packets : p[1] < n}

\* The caller's running total is the total of the threads added up so far.
AccExact ==
    strategy # "shared_global" => acc = TotalWeight(PacketsBelow(collected))

ExactInv ==
    /\ CountersExact
    /\ AccExact
    /\ ResultExact

\* The counters hold sums that fit a u64, so the saturating total is exact.
LEMMA TotalExact ==
    ASSUME CountersExact, NEW c \in Cells,
           NEW S \in SUBSET Packets, \A f \in Fields : CountedIn(c, f) = S
    PROVE  Total(c) = TotalWeight(S)
<1>1. TotalWeight(S) \in 0 .. MaxU64
    BY WeightFits
<1>2. \A f \in Fields : counters[c][f] = Weight(S, f)
    BY DEF CountersExact
<1>3. /\ counters[c][0] = Weight(S, 0)
      /\ counters[c][1] = Weight(S, 1)
      /\ counters[c][2] = Weight(S, 2)
      /\ counters[c][3] = Weight(S, 3)
      /\ counters[c][4] = Weight(S, 4)
      /\ counters[c][5] = Weight(S, 5)
    BY <1>2 DEF Fields
<1>4. \A f : Weight(S, f) \in Nat
    BY WeightType
<1> HIDE DEF TotalWeight
<1>5. Weight(S, 0) + Weight(S, 1) + Weight(S, 2)
        + Weight(S, 3) + Weight(S, 4) + Weight(S, 5) <= MaxU64
    BY <1>1, <1>4, ConstantsAssumption DEF TotalWeight
<1>6. \A a, b \in Nat : a + b <= MaxU64 => SatAdd(a, b) = a + b
    BY ConstantsAssumption DEF SatAdd
<1> DEFINE w(f) == Weight(S, f)
<1>7. \A f : w(f) \in Nat
    BY <1>4
<1>8. Total(c) = SatAdd(SatAdd(SatAdd(SatAdd(SatAdd(w(0), w(1)), w(2)), w(3)), w(4)), w(5))
    BY <1>3 DEF Total
<1>9. w(0) + w(1) + w(2) + w(3) + w(4) + w(5) <= MaxU64
    BY <1>5
<1> HIDE DEF w
<1>10. Total(c) = w(0) + w(1) + w(2) + w(3) + w(4) + w(5)
    <2>1. MaxU64 \in Nat
        BY ConstantsAssumption
    <2> DEFINE u == w(0) + w(1)
               v == u + w(2)
               x == v + w(3)
               y == x + w(4)
    <2>2. u \in Nat /\ v \in Nat /\ x \in Nat /\ y \in Nat
        BY <1>7
    <2>3. u <= MaxU64 /\ v <= MaxU64 /\ x <= MaxU64 /\ y <= MaxU64
        BY <1>7, <1>9, <2>1
    <2>4. SatAdd(w(0), w(1)) = u
        BY <1>6, <1>7, <2>3
    <2>5. y + w(5) <= MaxU64
        BY <1>9
    <2> HIDE DEF y
    <2>6. SatAdd(y, w(5)) = y + w(5)
        BY <1>6, <1>7, <2>2, <2>5
    <2>7. SatAdd(x, w(4)) = y
        <3> HIDE DEF x
        <3> QED BY <1>6, <1>7, <2>2, <2>3 DEF y
    <2> HIDE DEF x
    <2>8. SatAdd(v, w(3)) = x
        <3> HIDE DEF v
        <3> QED BY <1>6, <1>7, <2>2, <2>3 DEF x
    <2> HIDE DEF v
    <2>9. SatAdd(u, w(2)) = v
        <3> HIDE DEF u
        <3> QED BY <1>6, <1>7, <2>2, <2>3 DEF v
    <2> QED BY <1>8, <2>4, <2>6, <2>7, <2>8, <2>9 DEF v, x, y
<1> QED
    BY <1>10 DEF w, TotalWeight

\* A worker that has finished has counted all its packets in every counter.
LEMMA FinishedCounted ==
    ASSUME ControlInv, NEW p \in Packets, pc[p[1]] = "finished", NEW f \in Fields
    PROVE  Counted(p, f)
<1>1. p[1] \in Workers /\ p[2] \in 1 .. Operations
    BY DEF Packets
<1>2. idx[p[1]] = Operations
    BY <1>1 DEF ControlInv, LoopBounds
<1> QED
    BY <1>1, <1>2, ConstantsAssumption DEF Counted

LEMMA ExactInit == Init => ExactInv
<1> SUFFICES ASSUME Init PROVE ExactInv
    OBVIOUS
<1>1. ASSUME NEW c \in Cells, NEW f \in Fields
      PROVE  counters[c][f] = Weight(CountedIn(c, f), f)
    <2>1. \A p \in Packets : ~Counted(p, f)
        BY ConstantsAssumption DEF Init, Counted, Packets, Fields
    <2>2. CountedIn(c, f) = {}
        BY <2>1 DEF CountedIn
    <2> QED
        BY <2>2, WeightEmpty DEF Init
<1>2. AccExact
    <2>1. PacketsBelow(collected) = {}
        BY ConstantsAssumption DEF Init, PacketsBelow, Packets, Workers
    <2>2. \A f : Weight(PacketsBelow(collected), f) = 0
        BY <2>1, WeightEmpty
    <2> QED
        BY <2>2 DEF Init, AccExact, TotalWeight
<1>3. ResultExact
    BY DEF Init, ResultExact
<1> QED
    BY <1>1, <1>2, <1>3 DEF ExactInv, CountersExact

\* A step that leaves the counters and the threads' progress alone.
LEMMA CountersUntouched ==
    ASSUME CountersExact, UNCHANGED <<strategy, idx, field, counters>>
    PROVE  CountersExact'
BY DEF CountersExact, CountedIn, Counted, Home

\* One addition takes one packet past one counter, and no other.
LEMMA BumpCounts ==
    ASSUME ControlInv, NEW w \in Workers, Bump(w), NEW c, NEW f \in Fields
    PROVE  LET p == <<w, idx[w] + 1>> IN
           /\ p \in Packets
           /\ p \notin CountedIn(Home(w), field[w])
           /\ CountedIn(c, f)' = IF c = Home(w) /\ f = field[w]
                                 THEN CountedIn(c, f) \cup {p}
                                 ELSE CountedIn(c, f)
<1> DEFINE p == <<w, idx[w] + 1>>
<1>1. /\ idx \in [Workers -> 0 .. Operations] /\ field \in [Workers -> Fields]
      /\ idx[w] < Operations /\ strategy' = strategy
    BY DEF ControlInv, TypeOK, Bump, mainVars
<1>2. p \in Packets
    BY <1>1, ConstantsAssumption DEF Packets
<1>3. \/ /\ field[w] < 5
         /\ field' = [field EXCEPT ![w] = field[w] + 1]
         /\ idx' = idx
      \/ /\ field[w] = 5
         /\ field' = [field EXCEPT ![w] = 0]
         /\ idx' = [idx EXCEPT ![w] = idx[w] + 1]
    BY <1>1 DEF Bump, Fields
<1>4. ASSUME NEW q \in Packets
      PROVE  Counted(q, f)' <=> Counted(q, f) \/ (q = p /\ f = field[w])
    <2>1. q[1] \in Workers /\ q[2] \in Nat \ {0} /\ q = <<q[1], q[2]>>
        BY ConstantsAssumption DEF Packets
    <2>2. CASE q[1] # w
        <3>1. idx'[q[1]] = idx[q[1]] /\ field'[q[1]] = field[q[1]]
            BY <1>1, <1>3, <2>1, <2>2
        <3> QED
            BY <3>1, <2>2 DEF Counted
    <2>3. CASE q[1] = w /\ field[w] < 5
        <3>1. idx'[w] = idx[w] /\ field'[w] = field[w] + 1
            BY <1>1, <1>3, <2>3
        <3> QED
            BY <3>1, <2>1, <2>3, <1>1 DEF Counted, Fields
    <2>4. CASE q[1] = w /\ field[w] = 5
        <3>1. idx'[w] = idx[w] + 1 /\ field'[w] = 0
            BY <1>1, <1>3, <2>4
        <3> QED
            BY <3>1, <2>1, <2>4, <1>1 DEF Counted, Fields
    <2> QED
        BY <1>1, <2>2, <2>3, <2>4 DEF Fields
<1>5. ~Counted(p, field[w])
    BY <1>1 DEF Counted, Fields
<1>6. \A x : Home(x)' = Home(x)
    BY <1>1 DEF Home
<1>7. CountedIn(c, f)' = {q \in Packets :
            Home(q[1]) = c /\ (Counted(q, f) \/ (q = p /\ f = field[w]))}
    BY <1>4, <1>6 DEF CountedIn
<1> HIDE DEF p
<1>8. CountedIn(c, f)' = IF c = Home(p[1]) /\ f = field[w]
                         THEN CountedIn(c, f) \cup {p}
                         ELSE CountedIn(c, f)
    BY <1>2, <1>7 DEF CountedIn
<1> QED
    BY <1>2, <1>5, <1>8 DEF CountedIn, p

LEMMA ExactStep == ControlInv /\ ExactInv /\ [Next]_vars => ExactInv'
<1> SUFFICES ASSUME ControlInv, ExactInv, [Next]_vars PROVE ExactInv'
    OBVIOUS
<1> USE DEF ExactInv, mainVars, threadVars
<1>1. CASE Spawn \/ SpawnFails \/ EndSpawn \/ Unwind
    <2>1. UNCHANGED <<strategy, idx, field, counters, collected, acc, result>> /\ phase' # "returned"
        BY <1>1 DEF Spawn, SpawnFails, EndSpawn, Unwind
    <2>2. CountersExact'
        BY <2>1, CountersUntouched
    <2> QED
        BY <2>1, <2>2 DEF AccExact, ResultExact, PacketsBelow
<1>2. CASE Collect
    <2> DEFINE S == {p \in Packets : p[1] = collected}
    <2>1. collected \in Workers /\ collected \in Cells /\ collected \in Nat
        BY <1>2, ConstantsAssumption DEF Collect, ControlInv, TypeOK, Workers, Cells
    <2>2. pc[collected] = "finished"
        BY <1>2, <2>1 DEF Collect, AllFinished
    <2>3. \A f \in Fields : CountedIn(collected, f) = S
        <3>1. \A p \in Packets : Home(p[1]) = p[1]
            BY <1>2 DEF Collect, Home
        <3> QED
            BY <2>2, <3>1, FinishedCounted DEF CountedIn
    <2>4. Total(collected) = TotalWeight(S)
        BY <2>1, <2>3, TotalExact
    <2>5. \A p \in Packets : p[1] \in Int
        BY DEF Packets, Workers
    <2>6. PacketsBelow(collected + 1) = PacketsBelow(collected) \cup S
        BY <2>1, <2>5 DEF PacketsBelow
    <2>7. PacketsBelow(collected) \cap S = {}
        BY <2>1, <2>5 DEF PacketsBelow
    <2>8. \A f : Weight(PacketsBelow(collected + 1), f)
                  = Weight(PacketsBelow(collected), f) + Weight(S, f)
        BY <2>6, <2>7, WeightUnion
    <2>9. \A f : /\ Weight(PacketsBelow(collected), f) \in Nat
                 /\ Weight(S, f) \in Nat
        BY WeightType
    <2>10. TotalWeight(PacketsBelow(collected + 1))
               = TotalWeight(PacketsBelow(collected)) + TotalWeight(S)
        <3> HIDE DEF S
        <3> QED
            BY <2>8, <2>9 DEF TotalWeight
    <2>11. TotalWeight(PacketsBelow(collected + 1)) \in 0 .. MaxU64
        <3>1. PacketsBelow(collected + 1) \in SUBSET Packets
            BY DEF PacketsBelow
        <3> QED
            BY <3>1, WeightFits
    <2>12. acc = TotalWeight(PacketsBelow(collected))
        BY <1>2 DEF Collect, AccExact
    <2>13. acc' = TotalWeight(PacketsBelow(collected + 1))
        <3>1. acc' = WrapAdd(acc, TotalWeight(S))
            BY <1>2, <2>4 DEF Collect
        <3> HIDE DEF S
        <3>2. TotalWeight(S) \in Nat /\ acc \in Nat
            BY <2>9, <2>12 DEF TotalWeight
        <3> QED
            BY <3>1, <3>2, <2>10, <2>11, <2>12, ConstantsAssumption DEF WrapAdd
    <2>14. CountersExact'
        BY <1>2, CountersUntouched DEF Collect
    <2> QED
        BY <1>2, <2>13, <2>14 DEF Collect, AccExact, ResultExact, PacketsBelow
<1>3. CASE Return
    <2>1. CountersExact'
        BY <1>3, CountersUntouched DEF Return
    <2>2. AccExact'
        BY <1>3 DEF Return, AccExact, PacketsBelow
    <2>3. result' = Expected
        <3>1. CASE strategy = "shared_global"
            <4>1. \A p \in Packets : Home(p[1]) = Shared /\ pc[p[1]] = "finished"
                BY <1>3, <3>1 DEF Return, AllFinished, Home, Packets
            <4>2. \A f \in Fields : CountedIn(Shared, f) = Packets
                BY <4>1, FinishedCounted DEF CountedIn
            <4>3. Total(Shared) = TotalWeight(Packets)
                BY <4>2, TotalExact DEF Cells
            <4> QED
                BY <1>3, <3>1, <4>3 DEF Return, Expected
        <3>2. CASE strategy # "shared_global"
            <4>1. collected = WorkerCount /\ result' = acc
                BY <1>3, <3>2 DEF Return
            <4>2. PacketsBelow(WorkerCount) = Packets
                BY ConstantsAssumption DEF PacketsBelow, Packets, Workers
            <4> QED
                BY <3>2, <4>1, <4>2 DEF AccExact, Expected
        <3> QED
            BY <3>1, <3>2
    <2>4. Expected' = Expected
        BY DEF Expected
    <2> QED
        BY <2>1, <2>2, <2>3, <2>4 DEF ResultExact
<1>4. ASSUME NEW w \in Workers, Arrive(w) \/ Release(w) \/ Pass(w) \/ Finish(w)
      PROVE  ExactInv'
    <2>1. UNCHANGED mainVars /\ UNCHANGED <<idx, field, counters>>
        BY <1>4 DEF Arrive, Release, Pass, Finish
    <2>2. CountersExact'
        BY <2>1, CountersUntouched
    <2> QED
        BY <2>1, <2>2 DEF AccExact, ResultExact, PacketsBelow
<1>5. ASSUME NEW w \in Workers, Bump(w)
      PROVE  ExactInv'
    <2> DEFINE p == <<w, idx[w] + 1>>
               c0 == Home(w)
               f0 == field[w]
               S  == CountedIn(c0, f0)
    <2>1. c0 \in Cells /\ f0 \in Fields
        BY HomeType DEF ControlInv, TypeOK
    <2>2. p \in Packets /\ p \notin S
        BY <1>5, <2>1, BumpCounts
    <2>3. Weight(S \cup {p}, f0) = Weight(S, f0) + Amount(p, f0)
        BY <2>1, <2>2, WeightAdd
    <2>4. Weight(S \cup {p}, f0) \in 0 .. MaxU64
        <3>1. S \cup {p} \in SUBSET Packets
            BY <2>2 DEF CountedIn
        <3> QED
            BY <3>1, <2>1, WeightFits
    <2>5. counters[c0][f0] = Weight(S, f0)
        BY <2>1 DEF CountersExact
    <2>6. Add(counters[c0][f0], Amount(p, f0)) = Weight(S \cup {p}, f0)
        <3>1. Weight(S, f0) \in Nat /\ Amount(p, f0) \in Nat
            BY WeightType, AmountType, <2>1, <2>2, ConstantsAssumption
        <3> HIDE DEF S, p
        <3> QED
            BY <3>1, <2>3, <2>4, <2>5, ConstantsAssumption DEF Add, SatAdd, WrapAdd
    <2>7. counters' = [counters EXCEPT ![c0][f0] = Weight(S \cup {p}, f0)]
        BY <1>5, <2>6 DEF Bump
    <2>8. ASSUME NEW c \in Cells, NEW f \in Fields
          PROVE  counters'[c][f] = Weight(CountedIn(c, f)', f)
        <3>1. CASE c = c0 /\ f = f0
            <4>1. CountedIn(c, f)' = S \cup {p}
                BY <1>5, <3>1, <2>1, BumpCounts
            <4>2. counters'[c][f] = Weight(S \cup {p}, f0)
                BY <2>1, <2>7, <3>1 DEF ControlInv, TypeOK
            <4> QED
                BY <4>1, <4>2, <3>1
        <3>2. CASE ~(c = c0 /\ f = f0)
            <4>1. CountedIn(c, f)' = CountedIn(c, f)
                BY <1>5, <3>2, BumpCounts
            <4>2. counters'[c][f] = counters[c][f]
                BY <2>1, <2>7, <3>2 DEF ControlInv, TypeOK
            <4> QED
                BY <4>1, <4>2 DEF CountersExact
        <3> QED
            BY <3>1, <3>2
    <2>9. CountersExact'
        BY <2>8 DEF CountersExact
    <2>10. UNCHANGED <<strategy, phase, collected, acc, result>>
        BY <1>5 DEF Bump
    <2> QED
        BY <2>9, <2>10 DEF AccExact, ResultExact, PacketsBelow
<1>6. CASE UNCHANGED vars
    <2>1. CountersExact'
        BY <1>6, CountersUntouched DEF vars
    <2> QED
        BY <1>6, <2>1 DEF vars, AccExact, ResultExact, PacketsBelow
<1> QED
    BY <1>1, <1>2, <1>3, <1>4, <1>5, <1>6 DEF Next, Main, Worker, Terminated

\* No interleaving loses, repeats or misplaces an addition.
THEOREM CountersCorrect == Spec => []CountersExact
<1>1. Init => ControlInv /\ ExactInv
    BY ControlInit, ExactInit
<1>2. ControlInv /\ ExactInv /\ [Next]_vars => (ControlInv /\ ExactInv)'
    BY ControlStep, ExactStep
<1>3. ExactInv => CountersExact
    BY DEF ExactInv
<1> QED
    BY <1>1, <1>2, <1>3, PTL DEF Spec

\* Whichever of the three layouts counts, the cycle returns the same total.
THEOREM ResultCorrect == Spec => []ResultExact
<1>1. Init => ControlInv /\ ExactInv
    BY ControlInit, ExactInit
<1>2. ControlInv /\ ExactInv /\ [Next]_vars => (ControlInv /\ ExactInv)'
    BY ControlStep, ExactStep
<1>3. ExactInv => ResultExact
    BY DEF ExactInv
<1> QED
    BY <1>1, <1>2, <1>3, PTL DEF Spec

-----------------------------------------------------------------------------
(* The threads, the barrier and the counters implement the ledger.           *)

LEMMA LedgerInit == Init => Ledger!Init
<1> SUFFICES ASSUME Init PROVE Ledger!Init
    OBVIOUS
<1>1. \A p \in Packets : ~(p[2] <= idx[p[1]])
    BY ConstantsAssumption DEF Init, Packets
<1> QED
    BY <1>1 DEF Init, Ledger!Init

LEMMA LedgerStep == ControlInv /\ ExactInv /\ ExactInv' /\ [Next]_vars => [Ledger!Next]_(Ledger!vars)
<1> SUFFICES ASSUME ControlInv, ExactInv', [Next]_vars
             PROVE  Ledger!Next \/ UNCHANGED Ledger!vars
    OBVIOUS
<1> DEFINE Recorded == {p \in Packets : p[2] <= idx[p[1]]}
<1> USE DEF mainVars, threadVars
<1>1. ASSUME UNCHANGED <<idx, result>>
      PROVE  UNCHANGED Ledger!vars
    BY <1>1 DEF Ledger!vars
<1>2. CASE Spawn \/ SpawnFails \/ EndSpawn \/ Collect \/ Unwind
    BY <1>1, <1>2 DEF Spawn, SpawnFails, EndSpawn, Collect, Unwind
<1>3. CASE Return
    <2>1. AllFinished /\ phase # "returned" /\ phase' = "returned" /\ idx' = idx
        BY <1>3 DEF Return
    <2>2. result = NoResult
        BY <2>1 DEF ControlInv, PhaseSpawned
    <2>3. Recorded = Packets
        BY <2>1, ConstantsAssumption DEF AllFinished, ControlInv, LoopBounds, Packets
    <2>4. result' = Expected
        BY <2>1 DEF ExactInv, ResultExact, Expected
    <2>5. Ledger!Return
        BY <2>1, <2>2, <2>3, <2>4 DEF Ledger!Return
    <2> QED
        BY <2>5 DEF Ledger!Next
<1>4. ASSUME NEW w \in Workers, Arrive(w) \/ Release(w) \/ Pass(w) \/ Finish(w)
      PROVE  UNCHANGED Ledger!vars
    BY <1>1, <1>4 DEF Arrive, Release, Pass, Finish
<1>5. ASSUME NEW w \in Workers, Bump(w)
      PROVE  Ledger!Next \/ UNCHANGED Ledger!vars
    <2> DEFINE p == <<w, idx[w] + 1>>
    <2>1. idx \in [Workers -> 0 .. Operations] /\ idx[w] < Operations /\ result' = result
        BY <1>5 DEF Bump, ControlInv, TypeOK
    <2>2. CASE field[w] < 5
        BY <1>1, <1>5, <2>1, <2>2 DEF Bump
    <2>3. CASE ~(field[w] < 5)
        <3>1. idx' = [idx EXCEPT ![w] = idx[w] + 1]
            BY <1>5, <2>3 DEF Bump
        <3>2. p \in Packets /\ p \notin Recorded
            BY <2>1, ConstantsAssumption DEF Packets
        <3>3. ASSUME NEW q \in Packets
              PROVE  q[2] <= idx'[q[1]] <=> q[2] <= idx[q[1]] \/ q = p
            <4>1. q[1] \in Workers /\ q[2] \in Nat /\ q = <<q[1], q[2]>>
                BY ConstantsAssumption DEF Packets
            <4>2. CASE q[1] = w
                BY <2>1, <3>1, <4>1, <4>2
            <4>3. CASE q[1] # w
                BY <2>1, <3>1, <4>1, <4>3
            <4> QED
                BY <4>2, <4>3
        <3> HIDE DEF p
        <3>4. Recorded' = Recorded \cup {p}
            BY <3>2, <3>3
        <3>5. result = NoResult
            BY <1>5 DEF Bump, ControlInv, PhaseSpawned
        <3> HIDE DEF Recorded
        <3>6. \E q \in Packets : /\ result = NoResult
                                 /\ q \notin Recorded
                                 /\ Recorded' = Recorded \cup {q}
                                 /\ result' = result
            BY <2>1, <3>2, <3>4, <3>5
        <3>7. \E q \in Packets : Ledger!Record(q)
            BY <3>6 DEF Ledger!Record, Recorded
        <3> QED
            BY <3>7 DEF Ledger!Next
    <2> QED
        BY <2>2, <2>3
<1>6. CASE UNCHANGED vars
    BY <1>1, <1>6 DEF vars
<1> QED
    BY <1>2, <1>3, <1>4, <1>5, <1>6 DEF Next, Main, Worker, Terminated, vars

\* Every cycle is a ledger: each packet enters once, the answer comes last and
\* is the total.
THEOREM Refinement == Spec => ImplementsLedger
<1>1. Init => ControlInv /\ ExactInv
    BY ControlInit, ExactInit
<1>2. ControlInv /\ ExactInv /\ [Next]_vars => (ControlInv /\ ExactInv)'
    BY ControlStep, ExactStep
<1> QED
    BY <1>1, <1>2, LedgerInit, LedgerStep, PTL DEF Spec, ImplementsLedger, Ledger!Spec
=============================================================================
