---------------------------- MODULE PacketMetrics ----------------------------
(* src/packet_metrics.rs: the three cycles that count the same packets in    *)
(* three counter layouts.  The calling thread opens a thread scope, spawns   *)
(* WorkerCount threads which meet at a std::sync::Barrier and then count     *)
(* every payload in six counters; the caller joins them and adds up.         *)
(*                                                                           *)
(*   "shared_global"  one GlobalCounters, bumped by every thread             *)
(*   "per_worker"     one WorkerCounters per thread, read after the scope    *)
(*   "thread_local"   one LocalCounters per thread, its total returned       *)
(*                    through the join handle                                *)
(*                                                                           *)
(* The six counters are numbered in the order the code bumps them: ingress   *)
(* packets, ingress bytes, egress packets, egress bytes, forwarded packets,  *)
(* forwarded bytes.  Each fetch_add is one step, so the threads interleave   *)
(* between any two of them.                                                  *)
(*                                                                           *)
(* A definition marked "Mutant" is a plausible bug in the definition that    *)
(* follows it; it is no part of the model and shows what a property catches. *)
EXTENDS Integers, FiniteSets

CONSTANTS
    WorkerCount,     \* threads of one cycle, the argument of new()
    Operations,      \* OPERATIONS_PER_WORKER, the length of the payload vector
    Payloads,        \* payload size of each operation
    MaxU64,          \* the largest u64
    SpawnMayFail,    \* whether the operating system may refuse a thread
    Shared,          \* the owner of the one GlobalCounters
    NoResult         \* the result of a cycle that has not returned

Workers    == 0 .. WorkerCount - 1
Fields     == 0 .. 5
Cells      == Workers \cup {Shared}
Packets    == Workers \X (1 .. Operations)
Strategies == {"shared_global", "per_worker", "thread_local"}

ASSUME ConstantsAssumption ==
    /\ WorkerCount \in Nat
    /\ Operations \in Nat
    /\ MaxU64 \in Nat \ {0}
    /\ Payloads \in [1 .. Operations -> 0 .. MaxU64]
    /\ SpawnMayFail \in BOOLEAN
    /\ Shared \notin Workers
    /\ NoResult \notin Nat

VARIABLES
    strategy,             \* which of the three cycles was called
    phase,                \* where the calling thread is
    spawned,              \* threads spawned so far
    pc,                   \* where each worker thread is
    barrier_count,        \* std::sync::Barrier: threads waiting in this generation
    barrier_generation,   \* std::sync::Barrier: how often it has released
    idx,                  \* payloads each worker has fully counted
    field,                \* the next counter each worker bumps for its payload
    counters,             \* the value of every counter
    collected,            \* worker totals the caller has added up
    acc,                  \* the sum of those totals
    result                \* what the cycle returned

mainVars   == <<strategy, phase, spawned, collected, acc, result>>
threadVars == <<pc, barrier_count, barrier_generation, idx, field, counters>>
vars       == <<mainVars, threadVars>>

-----------------------------------------------------------------------------
(* u64 arithmetic, on operands that are u64 themselves.                      *)

SatAdd(a, b)  == IF a + b > MaxU64 THEN MaxU64 ELSE a + b

WrapAdd(a, b) == IF a + b > MaxU64 THEN a + b - (MaxU64 + 1) ELSE a + b

\* LocalCounters::record saturates, AtomicU64::fetch_add wraps.
Add(a, b) == IF strategy = "thread_local" THEN SatAdd(a, b) ELSE WrapAdd(a, b)

\* What counter f gains for packet p = <<worker, operation>>.
Amount(p, f) == IF f \in {0, 2, 4} THEN 1 ELSE SatAdd(Payloads[p[2]], p[1])

\* The counters worker w bumps.
Home(w) == IF strategy = "shared_global" THEN Shared ELSE w

Total(c) ==
    SatAdd(SatAdd(SatAdd(SatAdd(SatAdd(
        counters[c][0], counters[c][1]), counters[c][2]),
        counters[c][3]), counters[c][4]), counters[c][5])

AllFinished == \A w \in Workers : pc[w] = "finished"

-----------------------------------------------------------------------------

Init ==
    /\ strategy \in Strategies
    /\ phase = "spawning"
    /\ spawned = 0
    /\ pc = [w \in Workers |-> "absent"]
    /\ barrier_count = 0
    /\ barrier_generation = 0
    /\ idx = [w \in Workers |-> 0]
    /\ field = [w \in Workers |-> 0]
    /\ counters = [c \in Cells |-> [f \in Fields |-> 0]]
    /\ collected = 0
    /\ acc = 0
    /\ result = NoResult

(* The calling thread. *)

Spawn ==
    /\ phase = "spawning"
    /\ spawned < WorkerCount
    /\ pc' = [pc EXCEPT ![spawned] = "entering"]
    /\ spawned' = spawned + 1
    /\ UNCHANGED <<strategy, phase, barrier_count, barrier_generation, idx,
                   field, counters, collected, acc, result>>

\* Scope::spawn panics when the thread cannot be created.  The panic leaves
\* the closure, and the scope still joins the threads that were started.
SpawnFails ==
    /\ SpawnMayFail
    /\ phase = "spawning"
    /\ spawned < WorkerCount
    /\ phase' = "unwinding"
    /\ UNCHANGED <<strategy, spawned, collected, acc, result, threadVars>>

EndSpawn ==
    /\ phase = "spawning"
    /\ spawned = WorkerCount
    /\ phase' = "joining"
    /\ UNCHANGED <<strategy, spawned, collected, acc, result, threadVars>>

\* Mutant: per_worker adds up the counters while threads still run.
CollectBeforeJoin ==
    /\ phase = "joining"
    /\ strategy # "shared_global"
    /\ collected < WorkerCount
    /\ strategy = "thread_local" => pc[collected] = "finished"
    /\ acc' = WrapAdd(acc, Total(collected))
    /\ collected' = collected + 1
    /\ UNCHANGED <<strategy, phase, spawned, result, threadVars>>

\* thread_local joins handle by handle, in spawn order; per_worker reads the
\* counters only after the scope has joined every thread.
Collect ==
    /\ phase = "joining"
    /\ strategy # "shared_global"
    /\ collected < WorkerCount
    /\ IF strategy = "thread_local" THEN pc[collected] = "finished" ELSE AllFinished
    /\ acc' = WrapAdd(acc, Total(collected))
    /\ collected' = collected + 1
    /\ UNCHANGED <<strategy, phase, spawned, result, threadVars>>

\* Mutant: the shared counters are read before the scope has joined.
ReturnBeforeJoin ==
    /\ phase = "joining"
    /\ \/ strategy = "shared_global" /\ result' = Total(Shared)
       \/ strategy # "shared_global" /\ collected = WorkerCount /\ result' = acc
    /\ phase' = "returned"
    /\ UNCHANGED <<strategy, spawned, collected, acc, threadVars>>

Return ==
    /\ phase = "joining"
    /\ AllFinished
    /\ \/ strategy = "shared_global" /\ result' = Total(Shared)
       \/ strategy # "shared_global" /\ collected = WorkerCount /\ result' = acc
    /\ phase' = "returned"
    /\ UNCHANGED <<strategy, spawned, collected, acc, threadVars>>

\* Mutant: the panic is delivered without joining.
UnwindWithoutJoin ==
    /\ phase = "unwinding"
    /\ phase' = "panicked"
    /\ UNCHANGED <<strategy, spawned, collected, acc, result, threadVars>>

\* Mutant: the scope also joins the thread it could not start.
UnwindJoinsOneTooMany ==
    /\ phase = "unwinding"
    /\ \A w \in Workers : w <= spawned => pc[w] = "finished"
    /\ phase' = "panicked"
    /\ UNCHANGED <<strategy, spawned, collected, acc, result, threadVars>>

\* The scope has joined what was started: the panic reaches the caller.
Unwind ==
    /\ phase = "unwinding"
    /\ \A w \in Workers : w < spawned => pc[w] = "finished"
    /\ phase' = "panicked"
    /\ UNCHANGED <<strategy, spawned, collected, acc, result, threadVars>>

(* Worker thread w. *)

\* Barrier::wait of a thread that is not the last one: it blocks.
Arrive(w) ==
    /\ pc[w] = "entering"
    /\ barrier_count + 1 < WorkerCount
    /\ barrier_count' = barrier_count + 1
    /\ pc' = [pc EXCEPT ![w] = "waiting"]
    /\ UNCHANGED <<mainVars, barrier_generation, idx, field, counters>>

\* Mutant: the barrier opens one thread early.
ReleaseOneEarly(w) ==
    /\ pc[w] = "entering"
    /\ barrier_count + 2 >= WorkerCount
    /\ barrier_count' = 0
    /\ barrier_generation' = 1
    /\ pc' = [pc EXCEPT ![w] = "recording"]
    /\ UNCHANGED <<mainVars, idx, field, counters>>

\* Mutant: the last thread goes on without ending the generation.
ReleaseSilently(w) ==
    /\ pc[w] = "entering"
    /\ barrier_count + 1 >= WorkerCount
    /\ barrier_count' = 0
    /\ pc' = [pc EXCEPT ![w] = "recording"]
    /\ UNCHANGED <<mainVars, barrier_generation, idx, field, counters>>

\* Barrier::wait of the last thread: it opens the barrier and goes on.
Release(w) ==
    /\ pc[w] = "entering"
    /\ barrier_count + 1 >= WorkerCount
    /\ barrier_count' = 0
    /\ barrier_generation' = barrier_generation + 1
    /\ pc' = [pc EXCEPT ![w] = "recording"]
    /\ UNCHANGED <<mainVars, idx, field, counters>>

\* Mutant: a woken thread does not check the generation again.
PassUnchecked(w) ==
    /\ pc[w] = "waiting"
    /\ pc' = [pc EXCEPT ![w] = "recording"]
    /\ UNCHANGED <<mainVars, barrier_count, barrier_generation, idx, field, counters>>

\* A blocked thread wakes once the generation it arrived in is over.
Pass(w) ==
    /\ pc[w] = "waiting"
    /\ barrier_generation # 0
    /\ pc' = [pc EXCEPT ![w] = "recording"]
    /\ UNCHANGED <<mainVars, barrier_count, barrier_generation, idx, field, counters>>

\* Mutant: the forwarded-bytes addition is forgotten.
BumpFiveOfSix(w) ==
    /\ pc[w] = "recording"
    /\ idx[w] < Operations
    /\ counters' = [counters EXCEPT ![Home(w)][field[w]] =
                        Add(@, Amount(<<w, idx[w] + 1>>, field[w]))]
    /\ IF field[w] < 4
       THEN field' = [field EXCEPT ![w] = @ + 1] /\ UNCHANGED idx
       ELSE field' = [field EXCEPT ![w] = 0] /\ idx' = [idx EXCEPT ![w] = @ + 1]
    /\ UNCHANGED <<mainVars, pc, barrier_count, barrier_generation>>

\* One of the six additions of record_global, record_worker or record.
Bump(w) ==
    /\ pc[w] = "recording"
    /\ idx[w] < Operations
    /\ counters' = [counters EXCEPT ![Home(w)][field[w]] =
                        Add(@, Amount(<<w, idx[w] + 1>>, field[w]))]
    /\ IF field[w] < 5
       THEN field' = [field EXCEPT ![w] = @ + 1] /\ UNCHANGED idx
       ELSE field' = [field EXCEPT ![w] = 0] /\ idx' = [idx EXCEPT ![w] = @ + 1]
    /\ UNCHANGED <<mainVars, pc, barrier_count, barrier_generation>>

Finish(w) ==
    /\ pc[w] = "recording"
    /\ idx[w] = Operations
    /\ pc' = [pc EXCEPT ![w] = "finished"]
    /\ UNCHANGED <<mainVars, barrier_count, barrier_generation, idx, field, counters>>

-----------------------------------------------------------------------------

Main == Spawn \/ SpawnFails \/ EndSpawn \/ Collect \/ Return \/ Unwind

Worker(w) == Arrive(w) \/ Release(w) \/ Pass(w) \/ Bump(w) \/ Finish(w)

\* The caller has its answer, or its panic: nothing is left to do.
Terminated ==
    /\ phase \in {"returned", "panicked"}
    /\ UNCHANGED vars

Next == Main \/ (\E w \in Workers : Worker(w)) \/ Terminated

Spec == Init /\ [][Next]_vars

\* Every thread is scheduled by the operating system, and none is blocked
\* except where the model says so.
FairSpec == Spec /\ WF_vars(Main) /\ \A w \in Workers : WF_vars(Worker(w))

-----------------------------------------------------------------------------
(* The sum of Amount(p, f) over a set S of packets, written as the number of *)
(* units of the packets in S: unit k of p exists for k up to Amount(p, f).   *)

Units(S, f) == {u \in Packets \X (1 .. MaxU64) :
                    u[1] \in S /\ u[2] <= Amount(u[1], f)}

Weight(S, f) == Cardinality(Units(S, f))

TotalWeight(S) == Weight(S, 0) + Weight(S, 1) + Weight(S, 2)
                + Weight(S, 3) + Weight(S, 4) + Weight(S, 5)

\* What every cycle has to return.
Expected == TotalWeight(Packets)

\* The total fits a u64.  The code counts 262_144 packets of at most 1_400 bytes
\* (plus the worker's number) per thread, some 2^30.5 units in each direction:
\* no number of threads a machine can run comes near 2^64.
ASSUME TotalFits == Expected <= MaxU64

\* Packet p has been added to counter f of its worker.
Counted(p, f) == \/ p[2] <= idx[p[1]]
                 \/ p[2] = idx[p[1]] + 1 /\ f < field[p[1]]

CountedIn(c, f) == {p \in Packets : Home(p[1]) = c /\ Counted(p, f)}

-----------------------------------------------------------------------------
(* Properties. *)

TypeOK ==
    /\ strategy \in Strategies
    /\ phase \in {"spawning", "joining", "unwinding", "returned", "panicked"}
    /\ spawned \in 0 .. WorkerCount
    /\ pc \in [Workers -> {"absent", "entering", "waiting", "recording", "finished"}]
    /\ barrier_count \in 0 .. WorkerCount
    /\ barrier_generation \in {0, 1}
    /\ idx \in [Workers -> 0 .. Operations]
    /\ field \in [Workers -> Fields]
    /\ counters \in [Cells -> [Fields -> 0 .. MaxU64]]
    /\ collected \in 0 .. WorkerCount
    /\ acc \in 0 .. MaxU64
    /\ result \in (0 .. MaxU64) \cup {NoResult}

\* However the threads interleave their additions, every counter holds the
\* sum over exactly the packets its threads have taken it past: no update is
\* lost, none is counted twice, none lands in another thread's counters.
CountersExact ==
    \A c \in Cells, f \in Fields : counters[c][f] = Weight(CountedIn(c, f), f)

\* No thread counts a packet before every thread of the cycle has been
\* spawned and has reached the barrier (barrier.wait() ahead of each loop).
BarrierHolds ==
    (\E w \in Workers : pc[w] \in {"recording", "finished"})
        => \A w \in Workers : pc[w] \notin {"absent", "entering"}

\* A cycle that returns, returns the same number in all three layouts: the
\* total over all packets, although the two atomic layouts wrap, the local one
\* saturates, and each joins its threads at a different point.
ResultExact == phase = "returned" => result = Expected

\* After a failed spawn no thread gets past the barrier and the caller gets
\* no result: there is no partial total.
NoPartialResult ==
    phase \in {"unwinding", "panicked"} =>
        /\ result = NoResult
        /\ \A w \in Workers : pc[w] \in {"absent", "entering", "waiting"}

\* A spawn that fails after an earlier one succeeded leaves the caller joining
\* threads that wait for a barrier of WorkerCount: the panic is never
\* delivered and the cycle hangs.
StrandedForever ==
    [][phase = "unwinding" /\ spawned > 0 => phase' = "unwinding"]_vars

\* Only the very first spawn fails cleanly: nothing to join, the caller sees
\* the panic.
FirstSpawnFailurePanics ==
    (phase = "unwinding" /\ spawned = 0) ~> (phase = "panicked")

\* When no spawn fails, the barrier opens, every thread finishes, and the
\* cycle returns.
CycleReturns == <>(phase = "returned")

Ledger == INSTANCE PacketLedger WITH
    recorded   <- {p \in Packets : p[2] <= idx[p[1]]},
    answer     <- result,
    GrandTotal <- Expected

\* Each cycle implements the ledger: packets enter it one at a time, each
\* once, and the answer is given only when all are in.
ImplementsLedger == Ledger!Spec

=============================================================================
