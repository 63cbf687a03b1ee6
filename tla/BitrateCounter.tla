---------------------------- MODULE BitrateCounter ----------------------------
(* src/bitrate_counter.rs: the bytes a source sent in the current window are *)
(* counted in an atomic, in three ways: a saturating fetch_update, a         *)
(* wrapping fetch_add, and a load and a saturating store.  A write cycle     *)
(* only adds; a record cycle also restarts a window that is over and counts  *)
(* how often the source is observed for the first time.  The atomics belong  *)
(* to the fixture and outlive a cycle.                                       *)
(*                                                                           *)
(* One thread calls the cycles, in any order: the load and the store of the  *)
(* third way are one step, as nobody can come between them.                  *)
(*                                                                           *)
(* A definition marked "Mutant" is a plausible bug in the definition that    *)
(* follows it; it is no part of the model and shows what a property catches. *)
EXTENDS Integers

CONSTANTS
    Counts,    \* the operation counts new() is called with
    MaxU64,    \* u64::MAX
    NoResult   \* before the first cycle has returned

BitrateWindowNanos == 1000000000
SameWindowNanos    == 123456789

Ways == {"fetch_update", "fetch_add", "load_store"}

VARIABLES
    operation_count,
    bytes_in_window,
    window_start_nanos,
    observed,
    way,                  \* of the cycle that runs or ran last
    recording,            \* it is a record cycle
    running,
    next,                 \* the payload the loop is at
    first_observations,
    result                \* what the last cycle returned

atomics == <<bytes_in_window, window_start_nanos, observed>>
vars    == <<operation_count, atomics, way, recording, running, next,
             first_observations, result>>

-----------------------------------------------------------------------------

PayloadBytes(index) == 172 + (index % 1229)

\* The sum of the first n payloads, in closed form.
Total(n) ==
    LET whole == n \div 1229
        rest  == n % 1229
    IN  whole * 965994 + 172 * rest + (rest * (rest - 1)) \div 2

\* Every running total fits a u64, with room for one first observation.
ASSUME TotalFits ==
    /\ Counts \subseteq Nat /\ MaxU64 \in Nat
    /\ \A count \in Counts : \A n \in 0 .. count : Total(n) < MaxU64
    /\ NoResult \notin Nat

SaturatingAdd(a, b) == IF a + b > MaxU64 THEN MaxU64 ELSE a + b
WrappingAdd(a, b)   == (a + b) % (MaxU64 + 1)
SaturatingSub(a, b) == IF a > b THEN a - b ELSE 0

\* Mutant: the window is taken for microseconds.
ExpiredMicros == SaturatingSub(SameWindowNanos, window_start_nanos) >= 1000000

\* reset_expired_window, whose clock stands still at SAME_WINDOW_NANOS.
Expired == SaturatingSub(SameWindowNanos, window_start_nanos) >= BitrateWindowNanos

-----------------------------------------------------------------------------

Init ==
    /\ operation_count \in Counts
    /\ bytes_in_window = 0
    /\ window_start_nanos = 0
    /\ observed = FALSE
    /\ way \in Ways /\ recording \in BOOLEAN
    /\ running = FALSE
    /\ next = 0
    /\ first_observations = 0
    /\ result = NoResult

\* Mutant: the flag is not cleared.
ResetKeepsObserved(w, record) ==
    /\ bytes_in_window' = 0
    /\ window_start_nanos' = IF record THEN 0 ELSE window_start_nanos
    /\ UNCHANGED observed

\* reset_bytes for a write cycle, reset_record for a record cycle.
Reset(w, record) ==
    /\ bytes_in_window' = 0
    /\ window_start_nanos' = IF record THEN 0 ELSE window_start_nanos
    /\ observed' = IF record THEN FALSE ELSE observed

Call(w, record) ==
    /\ ~running /\ running' = TRUE
    /\ way' = w /\ recording' = record
    /\ Reset(w, record)
    /\ next' = 0
    /\ first_observations' = 0
    /\ UNCHANGED <<operation_count, result>>

\* The bytes an addition starts from: a window that is over is emptied first.
Current == IF recording /\ Expired THEN 0 ELSE bytes_in_window

\* One payload: the sum is stored, and a record observes the source.
Count(sum) ==
    /\ running /\ next < operation_count
    /\ bytes_in_window' = sum
    /\ window_start_nanos' =
           IF recording /\ Expired THEN SameWindowNanos ELSE window_start_nanos
    /\ observed' = (observed \/ recording)
    /\ first_observations' =
           first_observations + (IF recording /\ ~observed THEN 1 ELSE 0)
    /\ next' = next + 1
    /\ UNCHANGED <<operation_count, way, recording, running, result>>

FetchUpdate ==
    way = "fetch_update" /\ Count(SaturatingAdd(Current, PayloadBytes(next)))

FetchAdd ==
    way = "fetch_add" /\ Count(WrappingAdd(Current, PayloadBytes(next)))

LoadStore ==
    way = "load_store" /\ Count(SaturatingAdd(Current, PayloadBytes(next)))

Return ==
    /\ running /\ next = operation_count
    /\ running' = FALSE
    /\ result' = SaturatingAdd(bytes_in_window, first_observations)
    /\ UNCHANGED <<operation_count, atomics, way, recording, next, first_observations>>

Next ==
    \/ \E w \in Ways, record \in BOOLEAN : Call(w, record)
    \/ FetchUpdate \/ FetchAdd \/ LoadStore
    \/ Return

Spec == Init /\ [][Next]_vars

-----------------------------------------------------------------------------
(* Properties. *)

\* reset_bytes, reset_expired_window: inside a cycle the counter holds exactly
\* the payloads this cycle has added.  Nothing is left from the cycle before,
\* whichever it was, and a record cycle stays in one window, so that no record
\* throws away what an earlier one counted.
RunningTotal ==
    /\ running => bytes_in_window = Total(next)
    /\ window_start_nanos = 0

\* All six cycles return the sum of the payloads, a record cycle one more for
\* its single first observation (none without payloads), in any order on one
\* fixture: saturating and wrapping addition cannot be told apart.
ResultExact ==
    ~running /\ result # NoResult =>
        result = Total(operation_count)
                 + (IF recording /\ operation_count > 0 THEN 1 ELSE 0)
=============================================================================
