------------------------------- MODULE SimdScan -------------------------------
(* src/simd_packet_hotpath.rs: what its fixtures have in common.  A    *)
(* cycle is a loop over the packets or payloads of its fixture, which new()  *)
(* has made and nothing changes; a scalar cycle looks at one byte or one     *)
(* payload at a time, a simd cycle at a vector of them.  A behaviour has one *)
(* fixture, whose cycles are called over and over.                           *)
EXTENDS Integers, FiniteSets

CONSTANT LaneCount   \* the bytes of a vector, 16 in the code

ASSUME LaneAssumption == LaneCount \in Nat \ {0}

Lanes == 0 .. LaneCount - 1

Fixtures == {"fingerprint", "routing_miss", "miss_gate_mix", "h264", "vp8"}
Cycles   == {"scalar", "simd"}

VARIABLES
    fixture,
    cycle,      \* the cycle that runs
    index,      \* the packet or payload it is at
    detected    \* what it has counted

loop == <<fixture, cycle, index, detected>>

One(counted) == IF counted THEN 1 ELSE 0

LoopInit(f) ==
    /\ fixture = f
    /\ cycle \in Cycles
    /\ index = 0
    /\ detected = 0

\* The loop goes on with the next payload.
Verdict(counted) ==
    /\ detected' = detected + One(counted)
    /\ index' = index + 1
    /\ UNCHANGED <<fixture, cycle>>

\* The cycle has returned; the fixture can be scanned again, in either way.
CallAgain ==
    /\ cycle' \in Cycles
    /\ index' = 0
    /\ detected' = 0
    /\ UNCHANGED fixture
=============================================================================
