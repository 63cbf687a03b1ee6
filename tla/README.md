# o-sfu-benchmarks: models, checks and proofs

`o-sfu-benchmarks` holds benchmark fixtures for the hot paths of the `o-sfu`
media server. Every fixture keeps a piece of server-like state and offers two or
three *cycles* that do the same work in different ways; Criterion measures the
cycles. The comparison means something only if the cycles really do the same
work, and if a fixture that has run one cycle is fit for the next. That is what
this directory states, model-checks with TLC and proves with TLAPS.

All paths below are relative to the crate (`src/packet_metrics.rs` is the file in
its `src/` directory). `PROJECT.json` lists, for every definition that models
code, the lines it stands for.

## 1. Inventory

| component | state it keeps | operations | how it interacts |
|---|---|---|---|
| packet metrics contention, `src/packet_metrics.rs` | payload sizes; six counters, global, per thread or local; a barrier | `shared_global_atomic_cycle`, `per_worker_atomic_cycle`, `thread_local_cycle` | a scope of threads, a `std::sync::Barrier`, relaxed atomics, join handles |
| remote address demultiplexer, `src/rtc_udp_demux.rs` | two relations between addresses and sessions, each as an index and as lists; in the fixtures the probe addresses and the live sessions | `remember_remote_addr`, `replace_session_remote_candidate_addrs`; `new` of two fixtures; four lookup cycles | the fixtures fill it, the cycles read it through either representation |
| consumer packet gate, route maintenance, `src/consumer_packet_gate.rs` | a `Vec` of destinations, a map from media id to position, a cursor | three remove-and-add cycles | the linear cycle ignores the map that the other two trust |
| consumer packet gate, batch, same file | destinations with a gate and a pending gate, two indexes, a list of updates, the last gate | three batch cycles | one fixture, the gate alternates from call to call |
| keyframe request coalescing, `src/performance_hardening.rs` | requests, a reused buffer | a sorting and a map cycle | none |
| source policy wake, route planning, local egress fanout, same file | lists that never change, two reused buffers, a dirty flag of `o_sfu_core` | one cycle each | the wake cycle marks the flag and takes it |
| packet fingerprint, `src/simd_packet_hotpath.rs` and `src/routing_miss_fingerprint.rs` | packets | scalar and SIMD, scalar and production cycle | the production side is `o_sfu_core` |
| H.264 and VP8 payload scanners, `src/simd_packet_hotpath.rs` | payloads; inside a call the lanes and the number of them in use | scalar and SIMD cycle each | the scalar side is `o_sfu_rfc` |
| local VP8 fanout, `src/local_vp8_fanout.rs` | a base payload, a shared payload, rewrite values | two cycles | the last destination takes the shared payload away |
| packet loop cold path, `src/packet_loop_cold_path.rs` | events, packets, destinations; an accounting per call | inline and cold cycle for three fixtures | none |
| bitrate counter, `src/bitrate_counter.rs` | three atomics, which outlive a cycle | three write and three record cycles | `&self`, but called by one thread |
| source policy refresh, `src/source_policy_refresh.rs` | sources, routes, cached ladders; never changed | rebuild and cached cycle | the cached cycle looks a ladder up by the position of its source |
| Criterion targets, `benches/` | none | build a fixture, call a cycle repeatedly | the only callers in the repository |

`o_sfu_core`, `o_sfu_rfc` and Criterion are dependencies that are not in the tree.

### What is hard here

* **Threads.** `packet_metrics.rs` is the one place where threads run: additions
  of several threads to the same counters interleave, totals are read with relaxed
  loads and are right only because of where each layout joins, and a spawn that
  fails leaves threads behind a barrier that will never open.
* **Two representations of one thing.** The demultiplexer keeps each relation
  twice, the route keeps positions beside a `Vec` from which elements are removed
  in two ways. Any operation can leave one behind the other, and a lookup then
  answers from stale state.
* **State that outlives a cycle.** Gates pending from the last cycle, buffers that
  are reused, a payload that was taken, lanes that are not cleared, atomics that
  another kind of cycle resets only in part, a dirty flag.
* **Boundaries.** Full and nearly full lanes, unchecked vector loads at the end of a
  packet, an empty or one-element route, the last group of a sorted list, the last
  port. (Saturating and wrapping additions stand side by side, but no count of the
  fixtures comes near the edge of a `u64`; the models say so as an assumption.)
* **Code written twice.** Every cycle has a twin; nothing but a few tests in the
  SIMD modules compares the two.

For each component the property that makes it correct is therefore of the same
kind: *the cycles implement one specification, from every state in which a
fixture can be*. Section 4 lists the properties one by one. Where the twins do not
agree, the property says by how much: `SourcePolicyRefresh.ResultExact` gives the
difference between the two scores of a refresh, `PacketFingerprint.ValueExact` the
packet counts at which every fingerprint cycle returns 0.

## 2. Modules

| module | models | abstract specification |
|---|---|---|
| `PacketLedger` | what a counting cycle promises: each packet recorded once, the answer only when all are in | |
| `PacketMetrics`, `MCPacketMetrics` | the three counting cycles | refines `PacketLedger` |
| `PacketMetricsProofs` | proofs about it | |
| `AddressBook` | what the demultiplexer promises: two plain relations | |
| `RemoteAddrDemux` | the four maps and their operations | refines `AddressBook` |
| `RemoteAddrDemuxFixtures` | the two fixtures: what `new` makes of it, and the four cycles | refines `RemoteAddrDemux` |
| `RemoteAddrDemuxProofs` | proofs about both, the refinements among them | |
| `ConsumerPacketGate` | what the two fixtures of the file share: a `Vec` of destinations | |
| `PacketGateRoute`, `PacketGateBatch` | route maintenance, the batch cycles | |
| `ConsumerPacketGateProofs` | proofs about both | |
| `StableSort` | `sort_by_key` and `sort_unstable` of the standard library, by ranks | |
| `KeyframeCoalescing` | the two coalescing cycles | |
| `PerformanceHardening` | composes it with the three other fixtures of the file | |
| `PerformanceHardeningProofs` | proofs about both | |
| `SimdScan` | the loop that the fixtures of the SIMD file have in common | |
| `PacketFingerprint`, `H264PayloadScanner`, `Vp8PayloadScanner` | these fixtures | |
| `SimdPacketHotpath`, `SimdPacketHotpathProofs` | their composition | |
| `LocalVp8Fanout`, `LocalVp8FanoutProofs` | the two fanout cycles | |
| `PacketLoopColdPath` | the three inline and cold loops, in step | |
| `BitrateCounter`, `BitrateCounterProofs` | the six counting cycles of a source | |
| `SourcePolicyRefresh` | the two refresh plans | |
| `TwinCyclesProofs` | proofs about `PacketLoopColdPath` and `SourcePolicyRefresh` | |

`PacketLedger` and `AddressBook` come in through `INSTANCE ... WITH` and a
refinement mapping. `RemoteAddrDemuxFixtures` extends the demultiplexer it calls: an
iteration of `new` conjoins the action of the demultiplexer with what the fixture
does. The other components do not call one another; the fixtures of one source file
are composed as alternatives, so that a run covers the file. A proof module with two
components (`ConsumerPacketGateProofs`, `TwinCyclesProofs`) proves about each of their
specifications separately. In every module a
definition whose comment begins with "Mutant" is a plausible bug in the definition
that follows it. Mutants are not part of the models; each shows that one property
can fail.

### How state and actions correspond to the code

**PacketMetrics.** `phase`, `spawned`, `collected`, `acc` and `result` are the
calling thread: `Spawn` is one `scope.spawn`, `SpawnFails` the panic when the
operating system refuses a thread, `Unwind` the scope joining before the panic
leaves it, `Collect` one `join` and addition (in spawn order for the local layout,
after the scope for the per-worker one), `Return` the final sum. `pc`, `idx` and
`field` are the worker threads; `Bump` is a single `fetch_add` (or saturating add
of a local counter), so threads interleave between any two of the six additions
for one packet. `Arrive`, `Release` and `Pass` are `std::sync::Barrier` with its
count and generation. Atomics are sequentially consistent steps although the code
uses `Relaxed`: each counter is only ever changed by read-modify-write operations,
whose order on a single location is total, and it is read only after the joins,
which order every addition before the read.

**RemoteAddrDemux.** A `Vec` is a multiplicity function, because its order is never
looked at while repetitions in an announcement are stored; a `BTreeMap` is a
function into `Absent` or a value, so that "no entry" and "an entry with an empty
Vec" are different states. `RememberRemoteAddr` and
`ReplaceSessionRemoteCandidateAddrs` are the whole operations with the helper calls
they make; the four lookups are operators over the state. The operations come in
any order with any arguments, which is the contract of the type.

**RemoteAddrDemuxFixtures.** `AddSession` is one iteration of the loop in `new` of
either fixture, `GiveUp` its `None` (no session, or `benchmark_remote_addr` has no
port left), `Built` its `Some`. `Call`, `Probe` and `Return` are a cycle with one
lookup per address. An address is its port and a session key its index, since both
are injective functions of it. The scan of the recovery fixture reads a list of its
own (`session_candidate_addrs`) and not the demultiplexer.

**PacketGateRoute.** A destination is the index it was made from, because media id
and session are injective functions of it. Each cycle is one action: cursor,
search or map lookup, removal, repair of the map, insertion. `TargetNotIndexed` is
the early return of an indexed cycle; it happens only when the linear cycle has
been called on the same fixture. `usage` fixes which cycles a behaviour calls.
Nothing in the code forbids to mix the linear cycle with the others, and then an
indexed cycle may remove another destination than its target; `TargetReplaced` is
for the unmixed uses, `EarlierKept` says what is left of it in the others.

**PacketGateBatch.** `Call` is `next_gate` and the locals, `ApplyUpdate` one
iteration of the loop over the updates with the lookup of the running strategy,
`Return` the aggregate. A caller may change the strategy from cycle to cycle.
`before` is history: the destinations when the cycle began.

**KeyframeCoalescing.** `CallReusableVec` copies and sorts, `GroupNext` merges with
the group or completes it, `ReturnGroups` completes the last one; `EnterNext` is
`entry().and_modify().or_insert()`. The code drops the merged requests and returns
their number only; the model keeps them in `coalesced`. The sort is `StableOrder`: the
k-th element is the one with k - 1 others before it, by key and then by place.

**PerformanceHardening.** The three other fixtures of the file share the loop
variables of `KeyframeCoalescing`; a behaviour has one fixture. `CoalescedChannels` is
clear, extend, sort and dedup of the wake cycle, `MarkNext` one mark, `ReturnWake`
`take_dirty` and the sum. `PlanNext` is a packet against every destination,
`FanOutNext` a destination of the reused list.

**PacketFingerprint.** `FingerprintPacket` is one iteration of a cycle. A byte is its
position and a word the position in each of its eight slots: `LoadPadded` is the
scalar copy, `Vectors` the two unchecked loads with the halves that are taken and the
positions they touch (`loaded`), `vector_build` the `cfg` of the architecture. The
xor is the set of the fingerprints that went in an odd number of times. The mix of
lengths is generated as in the code, group by group.

**H264PayloadScanner, Vp8PayloadScanner.** One action per NAL or payload, with the
lanes, the number in use and the payloads of the fixtures. H.264 NALs are their
types; VP8 descriptors keep their bits, since the scalar test, the SIMD mask and
the X bit look at different ones.

**LocalVp8Fanout.** One action per destination; `TakesPayload` is the
`mem::take`, everything else a clone. A payload is its length and the two fields
that are rewritten. `sent` is history.

**PacketLoopColdPath.** One action per event, attempt or packet, which applies both
versions of the loop body to the two accountings. A checksum is kept as a plain
sum per kind of word (rotation or operands of the xor) with a number in place of
a fingerprint: a missing, doubled or exchanged word shows, a collision of 64-bit
sums does not.

**BitrateCounter.** `Call` is the reset of the cycle (bytes only for a write, bytes,
window and flag for a record), `FetchUpdate`, `FetchAdd` and `LoadStore` one payload
with `reset_expired_window` before and the observation after it, `Return` the sum.
One thread calls the cycles, so the load and the store are one step.

**SourcePolicyRefresh.** `RebuildPlansRoute` and `CachedPlansRoute` are one route of a
receiver, `RebuildFinishesReceiver` and `CachedFinishesReceiver` its end, where only
the rebuild cycle scores the routes of even sources. The code writes the two loops
out, and so does the model, so that `SamePlan` compares them; they share
`selected_encoding_index` there and here. Nothing the cycles read changes after `new`,
the cached ladders included, so what they collect beforehand is an operator and not a
variable: a ladder can be the wrong one, but it cannot become stale. `plans` and
`result` are history.

## 3. What was left out

* The arms of `stap_a_contains_idr_simd` and `h264_payload_starts_idr_simd` for an empty
  payload, a malformed NAL length and FU-A: `new` makes no such payload, and only
  its payloads reach these functions, in the module test too. The scanner is therefore "partly".
* `build_current_linear_route` and `build_media_id_indexed_route`: they fill a `Vec`
  (and a map) as `new` of the maintenance fixture does and drop it. The packet gate is
  "partly" for this reason.
* `removal_cursor % destinations.len()` panics on a route without destinations. The
  benches build none; `DestinationCount > 0` is an assumption.
* Two callers of one bitrate counter. The methods take `&self`, so threads could share
  the fixture and would then lose additions between `load` and `store`, but none in
  the repository does.
* Inactive sources or routes and empty ladders in `source_policy_refresh.rs`: `new`
  makes none. The window of the bitrate counter never expires either
  (`SAME_WINDOW_NANOS` is below `BITRATE_WINDOW_NANOS`), but this is modelled and proved.
* The bits of a fingerprint: two different packets of one fixture never collide in
  the model, as 64-bit words might.
* The production parsers and fingerprint of the dependencies, modelled as what the
  code that calls them and the tests rely on, and marked external.
* `handle.join().unwrap_or(0)` in `packet_metrics.rs`: a worker closure cannot panic,
  so the 0 is never used.
* `black_box`, allocation capacities, timing, and everything in `benches/`.

## 4. Runs

Each run takes from a second to about a minute with two workers. Deadlock is checked
everywhere but in `metrics_spawn_failure`, where the caller really hangs, and in
`demux_fixtures`, where nothing is left to call after `new` has returned `None`.

| run | bounds | shows |
|---|---|---|
| `metrics` | 3 threads, 2 payloads of sizes 3 and 2 | under every interleaving: counters hold exactly the packets counted (`CountersExact`), nobody counts before all have met (`BarrierHolds`), the three layouts return the same total (`ResultExact`), the cycle refines the ledger (`ImplementsLedger`) and returns (`CycleReturns`) |
| `metrics_spawn_failure` | 3 threads, 1 payload, any spawn may fail | after a failed spawn there is no partial total (`NoPartialResult`); unless it was the first spawn the caller is stuck for ever behind threads that wait at the barrier (`StrandedForever`); a failed first spawn panics cleanly (`FirstSpawnFailurePanics`) |
| `demux` | 3 addresses, 2 sessions, an address named up to twice | index and lists are the same relation at all times, entries vanish with their last element, both kinds of lookup agree, the whole refines the address book |
| `demux_fixtures` | 0 to 9 sessions for 5 ports | `new` gives up exactly without sessions or ports and else has every address once (`BuiltExact`); all four cycles find them all (`EveryProbeHits`) |
| `route` | 4 destinations, 8 replacements; each cycle alone, the two indexed ones, all three | the map is the inverse of the `Vec` unless the linear cycle is called (`IndexExact`); with all mixed positions stay in bounds (`TypeOK`), and one destination at or behind the cursor goes, not always the target (`EarlierKept`); an unmixed cycle replaces exactly the one under the cursor (`TargetReplaced`); only `swap_remove` disturbs the order (`JoinOrderKept`) |
| `gate_batch` | routes of 0, 1, 2, 8 and 12 destinations, any order of strategies | every update lands, gate and pending gate (`UpdatesLand`), and the result counts what changed (`ResultCounts`) |
| `hardening` | 0 to 34 keyframe requests over 16 sources; 0 to 64 marks of 8 channels; 5 packets, 30 destinations | sorted merge and map yield the same requests (`GroupsExact`); a channel wakes once and no flag is left behind (`WakesOnce`); every cycle returns what its sizes demand (`ResultExact`) |
| `simd` | 16 lanes; packets of 0 to 1200 bytes, the mix twice; aggregates of 0 to 64 NALs; up to 129 VP8 payloads | vector and scalar words are the same bytes and no load leaves the packet (`WordsExact`), the xor is that of the packets (`ValueExact`); lanes never overflow and stale ones never matter (`LanesExact`), exactly the payloads with an IDR are found (`DetectedExact`); no keyframe is lost or counted twice while extended payloads overtake (`NoneLost`) |
| `vp8_fanout` | 0 to 300 destinations | each destination gets a whole payload with its own rewrite (`EachItsOwn`); bytes and parses add up (`ResultExact`) |
| `cold_path` | 1024 events, 3 x 128 attempts, 1024 packets | inline and cold loops account alike (`SameAccounting`) and for each packet once (`AccountedOnce`) |
| `bitrate` | 0 to 1300 payloads, six cycles in any order | the counter holds what the running cycle added, in one window (`RunningTotal`); all cycles return the same sum (`ResultExact`) |
| `refresh` | up to 16 users with up to 3 sources each | the loops with cached and with rebuilt ladders send every receiver the same (`SamePlan`); the scores of the cycles and their difference (`ResultExact`) |

### Why the bounds are enough

* `metrics`: three threads are the fewest with a first, a middle and a last one at the
  barrier and in the joins; two payloads of different size make a packet that is
  skipped, doubled or misplaced change a number. `MCMaxU64` leaves room for the total,
  as `u64` does. The proofs cover all other values.
* `demux`: an address that moves between sessions, an announcement that overlaps,
  repeats or empties another, and a third address that must not be touched.
* `route`: eight replacements are two rounds of the cursor over four positions, so that
  destinations made by a cycle are themselves removed. `BoundReached` is the bound.
* `gate_batch`: indices 7 and 11 are the second inactive and the second blocked one; the
  gate alternates, so the state space closes by itself without a bound on the cycles.
* `demux_fixtures`: the ports scaled down to 3 .. 7; as many sessions as ports, one
  more, and more than an index fits.
* `hardening`: 16 sources repeat from request 16 on, 34 requests give three to some;
  channels repeat from mark 8 on; 28 is the first destination after 0 that is open and
  inactive at once.
* `simd`: below, at and above one and several sets of lanes, with the lane count of the
  code; every length at which a load or a padding changes its form; the counts used by
  the module tests are among them. `BytePeriod` is 4 for the 256 of the code: packets
  that repeat an odd and an even number of times occur either way.
* `vp8_fanout`: 300 is beyond the wrap of the TL0 index at 256.
* `cold_path`: past the largest divisor that selects a rare branch (997, 97, 1021).
* `bitrate`: 1300 is past the 1229 payload sizes; the edge `MaxU64` is the least that
  `TotalFits` admits, one above the largest total.
* `refresh`: receivers at and above 9 routes, sources past the four featured owners,
  budgets past their period of 8.

### Fairness

Only `PacketMetrics` has liveness. `FairSpec` assumes weak fairness for the calling
thread and for each worker: the operating system schedules every runnable thread,
and a thread is not runnable only while it waits for a join or for the barrier, as
the guards say. Nothing else is assumed; in particular a failed spawn is possible,
not fair.

## 5. Proofs

Every theorem is checked by `tlapm` for all values of the constants that satisfy
the assumptions of the module, and TLC evaluates these assumptions in the runs.

**PacketMetrics.** `TypeCorrect`, `BarrierSafe`, `FailureYieldsNothing`,
`FailureStrands`, `CountersCorrect`, `ResultCorrect`, `Refinement`. Two inductive
invariants carry them. `ControlInv` is about threads: which have been spawned
(`SpawnOrder`, `PhaseSpawned`), where in the loop each may be (`LoopBounds`), and,
the crux, that the barrier's count is the number of threads blocked in the current
generation (`BarrierCounts`); a cardinality argument then shows that it opens only
with the last thread. `BarrierHolds` alone is not inductive, because a step of
`Release` says nothing about the others unless the count is tied to them. `ExactInv`
is about numbers: each counter equals the weight of the packets its threads have
passed, and so does the running sum. The sum over a set of packets is written as the
cardinality of a set of units (`Weight`), so that additivity is a fact about finite
sets and no recursion is needed; `MCPacketMetrics` checks that it is the sum it
stands for. Saturating and wrapping addition agree because of the assumption
`TotalFits`: the grand total fits a `u64`. For 262144 packets of at most 1400 bytes
per thread this holds for every number of threads a machine can run.

**RemoteAddrDemux.** `TypeCorrect`, `IndexCorrect`, `NoLeftovers`,
`CandidatesCorrect`, `CachedCorrect`, `IndexedCorrect`, `Refinement`. The inductive
invariant `DemuxInv` is the conjunction of the type invariant and the three facts
that index and lists agree and hold no empty entry; none is inductive alone, since
withdrawing an announcement goes through the lists to find the index entries to
change. `RetainFacts` and `PushFacts` say what the `Vec` operations do in terms of
membership; the rest of the proof does not look inside them.

**RemoteAddrDemuxFixtures.** `FixturesUseDemux`: `FixtureSpec => Spec`, so everything
proved of the demultiplexer holds inside the fixtures. `BuiltCorrect` and
`EveryProbeCorrect`, for any number of sessions and ports. `FixtureInv` adds to
`DemuxInv` that the bindings or announcements are those of the sessions added so far
(`BoundOK`, `AnnouncedOK`) and that a running cycle has had a hit at each address it
has probed (`CycleOK`); without the latter a returned count means nothing.

**PacketGateRoute** (`ConsumerPacketGateProofs`). `TypeCorrect`, `IndexCorrect`,
`OrderCorrect`, `TargetCorrect`, `EarlierCorrect`. `RouteInv` adds to the properties that
no destination is in the route twice (`DestinationsDistinct`), and that every one was
made before the next one (`Joined`), without which a fresh destination might be in the
route already. `RemoveFacts` and `SwapFacts` describe the
two removals at an arbitrary position, also a stale one, so the theorems hold when
cycles are mixed as far as they can. For `EarlierCorrect`, `StaleInv` adds how a stale
map is wrong: the linear cycle moves destinations forward and leaves their entries, so
a known destination stands at its entry or before it (`NotTooLow`), and one that is not
made yet has none (`NotEntered`), which keeps a destination that the linear cycle
pushes unknown.

**PacketGateBatch** (`ConsumerPacketGateProofs`). `UpdatesLandCorrect`,
`ResultCountsCorrect`, for every route. That all three lookups find the position of the
update, and only it, is a lemma and rests on the injectivity of the keys. `ControlOK`
adds that the changed destinations counted are those behind the loop that differ from
`before`: the count is a cardinality of a set that grows by at most one destination per
step.

**KeyframeCoalescing, PerformanceHardening** (`PerformanceHardeningProofs`).
`GroupsCorrect`, `WakesCorrect`, `ResultsCorrect`, for any number of requests, marks,
packets and destinations. `StableOrderFacts` shows that an order by ranks is a
permutation that respects the keys and, among equal keys, the places; `DedupFacts` that
of a sorted list one element of each value remains. Neither needs an induction, because
sorting and dedup are defined by cardinalities. The merge is `SortedInv`: the group being
merged is made of all the requests of the last source that the loop has met and is in no
other place, and every other source it has met is complete. Because the buffer is sorted,
a source that has been left is not met again, which is what `GroupsExact` needs and,
speaking of complete groups only, does not carry itself; because the sort is stable, the
group names the first rid (`MergeOne`). `MapInv` says the same of the map over a prefix
of the requests, `IdleInv` of both when a cycle has returned. `WakeInv`, `PlanningInv`
and `EgressInv` give what the other loops have counted so far, as a cardinality or a
closed form.

**SimdPacketHotpath.** `WordsCorrect`, `LanesCorrect`, `DetectedCorrect`,
`NoneLostCorrect`, for every packet length, number of lanes, NALs and payloads. The
inductive invariant `HotpathInv` adds to the properties where each loop may be
(`LoopOK`, `H264OK`, `Vp8OK`) and what a lane can hold. `LanesExact` and `NoneLost`
carry the rest themselves, because they speak of the unfilled lanes and of the waiting
payloads as well: `DetectedExact` alone would not survive the comparison of full
lanes. The lemmas on counting (`CountIdr`, `CountKeyframes`) say that
one more payload adds one or nothing to the cardinality; `WaitingLanes` that a new
lane adds its own keyframe to those waiting. `ValueCorrect` is about the xor over all
packets: `ValueInv` says that the prints in it are those of the packets that occur an odd
number of times so far (`Odd`), in the scalar and in the SIMD cycle, and since contents
repeat with the period of the generator, `PeriodCount` says when none is left.

**LocalVp8Fanout.** `EachItsOwnCorrect`, `FanoutResultCorrect`, for every number of
destinations. `FanoutInv` adds that the counters are those of the destinations served
and that the descriptor parsed once is still there (`Counted`).

**BitrateCounter.** `RunningCorrect`, `ResultCorrect`, for every number of operations
for which the total fits a `u64` (`TotalFits`). `CounterInv` adds that a record cycle
has seen the first observation exactly when it has counted a payload
(`ObservedOnce`). `TotalStep` shows that the closed form `Total` is the sum of
`PayloadBytes`.

**PacketLoopColdPath** (`TwinCyclesProofs`). `ColdPathSame`, `ColdPathOnce`, for any
number of events, packets and destinations. The two properties are inductive together
with the types of the accountings (`ColdPathInv`); the work is in the loop bodies.
`SameAdd` and `SameCount` carry the equality through every counter and word that both
accountings get; `SameRoute` is the one place where the words differ and only their sum
is kept. `IngressCounts`, `RouteCounts` and `StatsCounts` say which counters a packet
moves and are what `AccountedOnce` needs; `EventsNext` and `FirstNext` count the
packets of a kind.

**SourcePolicyRefresh** (`TwinCyclesProofs`). `CachedLaddersPlanTheSame`,
`ScoresExact`, for any number of users and sources. One cycle runs at a time, so that a
cycle's plan can be compared with the other's only through something that is not state:
`SelectedInv` and `PlansInv` give what a receiver has been sent after `n` routes as
`Sent(u, s, r, n)`, a function of the sizes and the place, again a cardinality in place
of a sum. That the encodings are in order already (`AscendingOfOrdered`) makes a ladder
computable. `BudgetInv` is why every receiver overruns its budget: its first route is
featured, and from the third receiver on its second, too (`FirstRoutesFeatured`,
`BandwidthBounds`). `ScoreInv` keeps the score in closed form at every receiver: the
even sources of those before it, minus the even ones among its predecessors' own
(`EvenRoutesCount`). None of this is in `ResultExact`, which speaks only of returned
scores.

Model-checked only: liveness (`CycleReturns`, `FirstSpawnFailurePanics`), which
needs fairness and `ENABLED`, out of the prover's reach. Every other property of every
run is the statement of a theorem.

## 6. What is left

1. An abstract batch update that the three strategies of `PacketGateBatch` refine, in
   place of the two invariants that say so now.
2. The two route builders of the packet gate.
