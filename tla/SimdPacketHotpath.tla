--------------------------- MODULE SimdPacketHotpath ---------------------------
(* src/simd_packet_hotpath.rs as a whole, and the fixtures of                *)
(* src/routing_miss_fingerprint.rs, which fingerprint packets in the same    *)
(* way.  A behaviour has one fixture; the state of the others rests at the   *)
(* least of their arguments.                                                 *)
EXTENDS PacketFingerprint, H264PayloadScanner, Vp8PayloadScanner

vars == <<loop, fingerprintVars, h264Vars, vp8Vars>>

IsLeast(n, S) == \A m \in S : n <= m

Init ==
    /\ \E f \in Fixtures : LoopInit(f)
    /\ FingerprintInit /\ H264Init /\ Vp8Init
    /\ fixture \in Fingerprinted \/
           (IsLeast(packet_count, PacketCounts) /\ ~vector_build)
    /\ fixture \in {"fingerprint", "routing_miss"} \/ IsLeast(packet_len, PacketLengths)
    /\ fixture = "h264" \/ IsLeast(stap_a_nal_count, NalCounts)
    /\ fixture = "vp8" \/ IsLeast(payload_count, PayloadCounts)

Next ==
    \/ FingerprintNext /\ UNCHANGED <<h264Vars, vp8Vars>>
    \/ H264Next /\ UNCHANGED <<fingerprintVars, vp8Vars>>
    \/ Vp8Next /\ UNCHANGED <<fingerprintVars, h264Vars>>

Spec == Init /\ [][Next]_vars
=============================================================================
