------------------------- MODULE BitrateCounterProofs -------------------------
(* The six cycles of the bitrate counter return what their payloads sum up   *)
(* to, for every operation count whose total fits a u64.                     *)
EXTENDS BitrateCounter, TLAPS

\* What the control of a cycle keeps, and what each piece of state may hold.
Control ==
    /\ operation_count \in Counts
    /\ bytes_in_window \in Nat
    /\ observed \in BOOLEAN
    /\ way \in Ways /\ recording \in BOOLEAN
    /\ running \in BOOLEAN
    /\ next \in 0 .. operation_count
    /\ first_observations \in Nat

\* A record cycle has observed the source once, with its first payload.
ObservedOnce ==
    running =>
        /\ first_observations = IF recording /\ next > 0 THEN 1 ELSE 0
        /\ recording => (observed <=> next > 0)

CounterInv == Control /\ ObservedOnce /\ RunningTotal /\ ResultExact

-----------------------------------------------------------------------------

\* The closed form is the sum of payload_bytes: one more payload, one more
\* summand.
LEMMA TotalStep ==
    ASSUME NEW n \in Nat
    PROVE  /\ Total(0) = 0
           /\ Total(n) \in Nat
           /\ PayloadBytes(n) \in Nat
           /\ Total(n + 1) = Total(n) + PayloadBytes(n)
<1> DEFINE q == n \div 1229
           r == n % 1229
           half(k) == (k * (k - 1)) \div 2
<1>1. q \in Nat /\ r \in 0 .. 1228 /\ n = 1229 * q + r
  BY SMT
<1>2. half(r + 1) = half(r) + r
  <2>1. (r + 1) * r = r * (r - 1) + 2 * r
    BY SMT, <1>1
  <2>2. \A x, y \in Int : (x + 2 * y) \div 2 = x \div 2 + y
    BY SMT
  <2> HIDE DEF r
  <2>3. (r + 1) - 1 = r /\ r * (r - 1) \in Int
    BY SMT, <1>1
  <2> QED BY SMT, <2>1, <2>2, <2>3, <1>1
<1>3. half(r) \in Nat
  <2>1. r * (r - 1) \in Nat
    <3>1. CASE r = 0  BY SMT, <3>1
    <3>2. CASE r > 0  BY SMT, <3>2, <1>1
    <3> QED BY SMT, <3>1, <3>2, <1>1
  <2>2. \A x \in Nat : x \div 2 \in Nat
    BY SMT
  <2> QED BY SMT, <2>1, <2>2
<1>4. CASE r < 1228
  <2>1. (n + 1) \div 1229 = q /\ (n + 1) % 1229 = r + 1
    BY SMT, <1>1, <1>4
  <2> HIDE DEF q, r
  <2> QED BY SMT, <1>1, <1>2, <1>3, <2>1 DEF Total, PayloadBytes, q, r
<1>5. CASE r = 1228
  <2>1. (n + 1) \div 1229 = q + 1 /\ (n + 1) % 1229 = 0
    BY SMT, <1>1, <1>5
  <2>2. half(1228) = 753378
    BY SMT
  <2> QED BY SMT, <1>1, <1>3, <1>5, <2>1, <2>2 DEF Total, PayloadBytes
<1> QED BY SMT, <1>1, <1>4, <1>5

-----------------------------------------------------------------------------
(* The loop. *)

LEMMA InitCounter == Init => CounterInv
<1> SUFFICES ASSUME Init PROVE CounterInv
  OBVIOUS
<1>1. operation_count \in Nat /\ 0 \in 0 .. operation_count
  BY TotalFits DEF Init
<1>2. Control /\ ObservedOnce
  BY <1>1 DEF Init, Control, ObservedOnce
<1>3. RunningTotal /\ ResultExact
  BY DEF Init, RunningTotal, ResultExact
<1> QED BY <1>2, <1>3 DEF CounterInv

\* A window that starts at 0 is never over, so an addition starts from what has
\* been counted, and no sum reaches the largest u64.
LEMMA SumExact ==
    ASSUME CounterInv, running, next < operation_count
    PROVE  /\ ~Expired
           /\ next \in Nat /\ next + 1 \in 0 .. operation_count
           /\ SaturatingAdd(Current, PayloadBytes(next)) = Total(next + 1)
           /\ WrappingAdd(Current, PayloadBytes(next)) = Total(next + 1)
           /\ Total(next + 1) \in Nat
<1>1. ~Expired
  BY SMT DEF CounterInv, RunningTotal, Expired, SaturatingSub, SameWindowNanos, BitrateWindowNanos
<1>2. operation_count \in Counts /\ operation_count \in Nat
  BY TotalFits DEF CounterInv, Control
<1>3. next \in Nat /\ next + 1 \in 0 .. operation_count
  BY <1>2 DEF CounterInv, Control
<1>4. Total(next + 1) < MaxU64 /\ MaxU64 \in Nat
  BY <1>2, <1>3, TotalFits
<1>5. /\ Total(next) \in Nat /\ PayloadBytes(next) \in Nat
      /\ Total(next + 1) = Total(next) + PayloadBytes(next)
  BY <1>3, TotalStep
<1>6. Current = Total(next)
  BY <1>1 DEF Current, CounterInv, RunningTotal
<1>7. \A x \in Nat : x < MaxU64 => x % (MaxU64 + 1) = x
  BY <1>4
<1> HIDE DEF Total, PayloadBytes
<1> QED BY <1>1, <1>3, <1>4, <1>5, <1>6, <1>7 DEF SaturatingAdd, WrappingAdd

\* One payload, whichever way it is added.
LEMMA CountKeeps ==
    ASSUME CounterInv, NEW sum, Count(sum), sum = Total(next + 1)
    PROVE  CounterInv'
<1>1. running /\ next < operation_count
  BY DEF Count
<1>2. ~Expired /\ next \in Nat /\ next + 1 \in 0 .. operation_count /\ sum \in Nat
  BY <1>1, SumExact
<1>3. Control'
  BY <1>1, <1>2 DEF Count, CounterInv, Control
<1>4. ObservedOnce'
  BY <1>1, <1>2 DEF Count, CounterInv, Control, ObservedOnce
<1>5. RunningTotal'
  BY <1>1, <1>2 DEF Count, CounterInv, RunningTotal, Total
<1>6. ResultExact'
  BY <1>1 DEF Count, ResultExact
<1> QED BY <1>3, <1>4, <1>5, <1>6 DEF CounterInv

LEMMA StepCounter == CounterInv /\ [Next]_vars => CounterInv'
<1> SUFFICES ASSUME CounterInv, [Next]_vars PROVE CounterInv'
  OBVIOUS
<1> USE DEF CounterInv
<1>1. ASSUME NEW w \in Ways, NEW record \in BOOLEAN, Call(w, record)
      PROVE  CounterInv'
  <2>1. Total(0) = 0 /\ 0 \in 0 .. operation_count
    BY TotalStep, TotalFits DEF Control
  <2>2. Control'
    BY <1>1, <2>1 DEF Call, Reset, Control
  <2>3. ObservedOnce'
    BY <1>1, <2>1 DEF Call, Reset, Control, ObservedOnce
  <2>4. RunningTotal'
    BY SMT, <1>1, <2>1 DEF Call, Reset, RunningTotal, Total
  <2>5. ResultExact'
    BY <1>1 DEF Call, ResultExact
  <2> QED BY <2>2, <2>3, <2>4, <2>5
<1>2. CASE FetchUpdate
  BY <1>2, SumExact, CountKeeps DEF FetchUpdate, Count
<1>3. CASE FetchAdd
  BY <1>3, SumExact, CountKeeps DEF FetchAdd, Count
<1>4. CASE LoadStore
  BY <1>4, SumExact, CountKeeps DEF LoadStore, Count
<1>5. CASE Return
  <2>1. operation_count \in Nat /\ MaxU64 \in Nat /\ Total(operation_count) < MaxU64
    BY TotalFits DEF Control
  <2>2. Total(operation_count) \in Nat
    BY <2>1, TotalStep
  <2>3. /\ bytes_in_window = Total(operation_count)
        /\ first_observations = IF recording /\ operation_count > 0 THEN 1 ELSE 0
    BY <1>5 DEF Return, RunningTotal, ObservedOnce
  <2>4. result' = Total(operation_count) + first_observations
    BY <1>5, <2>1, <2>2, <2>3 DEF Return, SaturatingAdd
  <2>5. ResultExact'
    BY <1>5, <2>3, <2>4 DEF Return, ResultExact, Total
  <2>6. (Control /\ ObservedOnce /\ RunningTotal)'
    BY <1>5 DEF Return, atomics, Control, ObservedOnce, RunningTotal
  <2> QED BY <2>5, <2>6
<1>6. CASE UNCHANGED vars
  BY <1>6 DEF vars, atomics, Control, ObservedOnce, RunningTotal, ResultExact, Total
<1> QED BY <1>1, <1>2, <1>3, <1>4, <1>5, <1>6 DEF Next

-----------------------------------------------------------------------------
(* The theorems. *)

\* The counter holds what the running cycle has added, and the window of a
\* record cycle is never restarted.
THEOREM RunningCorrect == Spec => []RunningTotal
<1>1. CounterInv => RunningTotal
  BY DEF CounterInv
<1> QED BY <1>1, InitCounter, StepCounter, PTL DEF Spec

\* All six cycles return the same sum, whatever ran before them.
THEOREM ResultCorrect == Spec => []ResultExact
<1>1. CounterInv => ResultExact
  BY DEF CounterInv
<1> QED BY <1>1, InitCounter, StepCounter, PTL DEF Spec
=============================================================================
