------------------------ MODULE SimdPacketHotpathProofs ------------------------
(* The vectors of the packet hot path find what the scalar code finds: for   *)
(* every packet length, every number of NALs and payloads, and every number  *)
(* of lanes.                                                                 *)
EXTENDS SimdPacketHotpath, FiniteSetTheorems, TLAPS

LoopOK ==
    /\ fixture \in Fixtures /\ cycle \in Cycles
    /\ index \in Nat /\ detected \in Nat
    /\ packet_len \in Nat

\* The lanes of the H.264 scanner; only a scan inside an aggregate uses them.
H264OK ==
    /\ stap_a_nal_count \in Nat /\ aggregate \in BOOLEAN
    /\ nal \in Nat /\ nal_type_count \in Nat
    /\ nal_types \in [Lanes -> {0, Other, Idr}]
    /\ aggregate =>
         /\ fixture = "h264" /\ cycle = "simd" /\ index < PayloadCount
         /\ IsAggregate(index) /\ nal <= stap_a_nal_count

\* The lanes of the VP8 scanner; the tail is counted after the last payload.
Vp8OK ==
    /\ payload_count \in Nat
    /\ descriptors \in [Lanes -> {0, 16, 17}] /\ payload_headers \in [Lanes -> {0, 1}]
    /\ batch_len \in Lanes /\ tail \in 0 .. batch_len
    /\ fixture = "vp8" => index <= payload_count /\ (index < payload_count => tail = 0)

HotpathInv ==
    /\ LoopOK /\ H264OK /\ Vp8OK
    /\ WordsExact /\ LanesExact /\ DetectedExact /\ NoneLost

-----------------------------------------------------------------------------
(* Fingerprints. *)

\* Every place in the mix belongs to one of the lengths.
LEMMA MixGroupType == ASSUME NEW n \in Nat PROVE MixLengths[MixGroup(n)] \in Nat
<1> DEFINE r == n % 100
<1>1. MixStart[14] = 100 /\ r \in 0 .. 99
  BY DEF MixStart
<1>2. \E g \in 1 .. 13 : r >= MixStart[g] /\ r < MixStart[g + 1]
  <2> HIDE DEF r
  <2>1. CASE r < 4
    <3>1. MixStart[1] = 0 /\ MixStart[2] = 1 /\ MixStart[3] = 2 /\ MixStart[4] = 3 /\ MixStart[5] = 4
      BY DEF MixStart
    <3> QED BY <1>1, <2>1, <3>1
  <2>2. CASE r >= 4 /\ r < 43
    <3>1. MixStart[5] = 4 /\ MixStart[6] = 5 /\ MixStart[7] = 17 /\ MixStart[8] = 31 /\ MixStart[9] = 43
      BY DEF MixStart
    <3> QED BY <1>1, <2>2, <3>1
  <2>3. CASE r >= 43
    <3>1. /\ MixStart[9] = 43 /\ MixStart[10] = 61 /\ MixStart[11] = 71
          /\ MixStart[12] = 79 /\ MixStart[13] = 89 /\ MixStart[14] = 100
      BY DEF MixStart
    <3> QED BY <1>1, <2>3, <3>1
  <2> QED BY <1>1, <2>1, <2>2, <2>3
<1>3. MixGroup(n) \in 1 .. 13
  BY <1>1, <1>2 DEF MixGroup
<1>4. \A g \in 1 .. 13 : MixLengths[g] \in Nat
  BY DEF MixLengths
<1> QED BY <1>3, <1>4

LEMMA PacketLengthType ==
    ASSUME packet_len \in Nat, NEW n \in Nat PROVE PacketLength(n) \in Nat
BY MixGroupType DEF PacketLength

\* What the scalar code and the vectors make of a packet, compared with its bytes.
LEMMA WordsOfPacket ==
    ASSUME NEW len \in Nat
    PROVE  LET w == Words(len)
           IN  /\ w.loaded \subseteq 0 .. len - 1
               /\ \A s \in Slots :
                    /\ w.prefix[s] = IF s < len THEN s ELSE Padding
                    /\ w.suffix[s] = IF len >= 8 THEN len - 8 + s ELSE w.prefix[s]
<1> DEFINE Exact(w) ==
      /\ w.loaded \subseteq 0 .. len - 1
      /\ \A s \in Slots :
           /\ w.prefix[s] = IF s < len THEN s ELSE Padding
           /\ w.suffix[s] = IF len >= 8 THEN len - 8 + s ELSE w.prefix[s]
<1>1. Exact(Scalar(len))
  <2>1. \A s \in Slots : LoadPadded(len, 0)[s] = IF s < len THEN s ELSE Padding
    BY DEF LoadPadded, Slots
  <2>2. ASSUME NEW s \in Slots
        PROVE  LoadPadded(len, SaturatingSub(len, 8))[s] =
                 IF len >= 8 THEN len - 8 + s ELSE LoadPadded(len, 0)[s]
    <3>1. CASE len >= 8
      <4>1. SaturatingSub(len, 8) = len - 8
        BY <3>1 DEF SaturatingSub
      <4>2. s \in 0 .. 7 /\ len - 8 + s < len
        BY <3>1 DEF Slots
      <4> QED BY <3>1, <4>1, <4>2 DEF LoadPadded
    <3>2. CASE ~(len >= 8)
      <4>1. SaturatingSub(len, 8) = 0
        BY <3>2 DEF SaturatingSub
      <4> QED BY <3>2, <4>1
    <3> QED BY <3>1, <3>2
  <2> QED BY <2>1, <2>2 DEF Scalar
<1>2. ASSUME len >= 16 PROVE Exact(Vectors(len))
  <2>1. CASE ~vector_build
    BY <1>1, <2>1 DEF Vectors
  <2>2. CASE vector_build
    <3>1. (0 .. 15 \cup (len - 16) .. len - 1) \subseteq 0 .. len - 1
      BY <1>2
    <3>2. \A s \in Slots : s < len /\ (len - 16) + (8 + s) = len - 8 + s
      BY <1>2 DEF Slots
    <3> QED BY <1>2, <2>2, <3>1, <3>2 DEF Vectors
  <2> QED BY <2>1, <2>2
<1> HIDE DEF Exact
<1>3. Exact(Simd(len))
  BY <1>1, <1>2 DEF Simd
<1>4. Exact(Words(len))
  BY <1>1, <1>3 DEF Words, Production
<1> QED BY <1>4 DEF Exact

-----------------------------------------------------------------------------
(* Counting: one more payload, one more or none. *)

LEMMA CountIdr ==
    ASSUME NEW n \in Nat
    PROVE  LET S(k) == {i \in 0 .. k - 1 : PayloadStartsIdr(i)}
           IN  /\ Cardinality(S(0)) = 0 /\ Cardinality(S(n)) \in Nat
               /\ Cardinality(S(n + 1)) = Cardinality(S(n)) + One(PayloadStartsIdr(n))
<1> DEFINE S(k) == {i \in 0 .. k - 1 : PayloadStartsIdr(i)}
<1>1. IsFiniteSet(S(n)) /\ Cardinality(S(n)) \in Nat /\ n \notin S(n)
  <2>1. IsFiniteSet(0 .. n - 1)
    BY FS_Interval
  <2>2. IsFiniteSet(S(n))
    BY <2>1, FS_Subset
  <2>3. n \notin S(n)
    OBVIOUS
  <2> QED BY <2>2, <2>3, FS_CardinalityType
<1>2. S(0) = {}
  OBVIOUS
<1>3. S(n + 1) = IF PayloadStartsIdr(n) THEN S(n) \cup {n} ELSE S(n)
  OBVIOUS
<1>4. Cardinality(S(n) \cup {n}) = Cardinality(S(n)) + 1
  BY <1>1, FS_AddElement
<1> HIDE DEF S
<1>5. /\ Cardinality(S(0)) = 0 /\ Cardinality(S(n)) \in Nat
      /\ Cardinality(S(n + 1)) = Cardinality(S(n)) + One(PayloadStartsIdr(n))
  BY <1>1, <1>2, <1>3, <1>4, FS_EmptySet DEF One
<1> QED BY <1>5 DEF S

LEMMA CountKeyframes ==
    ASSUME NEW n \in Nat
    PROVE  LET S(k) == {i \in 0 .. k - 1 : PayloadStartsKeyframe(i)}
           IN  /\ Cardinality(S(0)) = 0 /\ Cardinality(S(n)) \in Nat
               /\ Cardinality(S(n + 1)) = Cardinality(S(n)) + One(PayloadStartsKeyframe(n))
<1> DEFINE S(k) == {i \in 0 .. k - 1 : PayloadStartsKeyframe(i)}
<1>1. IsFiniteSet(S(n)) /\ Cardinality(S(n)) \in Nat /\ n \notin S(n)
  <2>1. IsFiniteSet(0 .. n - 1)
    BY FS_Interval
  <2>2. IsFiniteSet(S(n))
    BY <2>1, FS_Subset
  <2>3. n \notin S(n)
    OBVIOUS
  <2> QED BY <2>2, <2>3, FS_CardinalityType
<1>2. S(0) = {}
  OBVIOUS
<1>3. S(n + 1) = IF PayloadStartsKeyframe(n) THEN S(n) \cup {n} ELSE S(n)
  OBVIOUS
<1>4. Cardinality(S(n) \cup {n}) = Cardinality(S(n)) + 1
  BY <1>1, FS_AddElement
<1> HIDE DEF S
<1>5. /\ Cardinality(S(0)) = 0 /\ Cardinality(S(n)) \in Nat
      /\ Cardinality(S(n + 1)) = Cardinality(S(n)) + One(PayloadStartsKeyframe(n))
  BY <1>1, <1>2, <1>3, <1>4, FS_EmptySet DEF One
<1> QED BY <1>5 DEF S
-----------------------------------------------------------------------------
(* Initial states and fingerprint steps. *)

LEMMA InitHotpath == Init => HotpathInv
<1> SUFFICES ASSUME Init PROVE HotpathInv
  OBVIOUS
<1> USE FingerprintAssumption, H264Assumption, Vp8Assumption, LaneAssumption
<1>1. LoopOK
  BY DEF Init, LoopInit, FingerprintInit, LoopOK
<1>2. H264OK
  BY DEF Init, H264Init, H264OK
<1>3. Vp8OK
  <2>1. 0 \in Lanes
    BY DEF Lanes
  <2> QED BY <2>1 DEF Init, LoopInit, Vp8Init, Vp8OK
<1>4. WordsExact /\ LanesExact
  BY DEF Init, LoopInit, H264Init, WordsExact, LanesExact
<1>5. DetectedExact
  BY CountIdr DEF Init, LoopInit, DetectedExact
<1>6. NoneLost
  <2> DEFINE Waiting == {l \in tail .. batch_len - 1 :
                           descriptors[l] % 32 = 16 /\ payload_headers[l] % 2 = 0}
             Keyframes == {i \in 0 .. index - 1 : PayloadStartsKeyframe(i)}
  <2>1. Waiting = {} /\ Keyframes = {}
    BY DEF Init, LoopInit, Vp8Init
  <2>2. detected = 0 /\ batch_len < LaneCount
    BY DEF Init, LoopInit, Vp8Init
  <2>3. Cardinality({}) = 0
    BY FS_EmptySet
  <2> HIDE DEF Waiting, Keyframes
  <2>4. detected + Cardinality(Waiting) = Cardinality(Keyframes)
    BY <2>1, <2>2, <2>3
  <2> QED BY <2>2, <2>4 DEF NoneLost, Waiting, Keyframes
<1> QED BY <1>1, <1>2, <1>3, <1>4, <1>5, <1>6 DEF HotpathInv

\* The scanners rest while packets are fingerprinted.
LEMMA FingerprintStep ==
    HotpathInv /\ FingerprintNext /\ UNCHANGED <<h264Vars, vp8Vars>> => HotpathInv'
<1> SUFFICES ASSUME HotpathInv, FingerprintNext, UNCHANGED <<h264Vars, vp8Vars>>
             PROVE  HotpathInv'
  OBVIOUS
<1> USE DEF HotpathInv
<1>1. /\ fixture \in Fingerprinted /\ fixture' = fixture /\ packet_len' = packet_len
      /\ cycle' \in Cycles /\ index' \in Nat /\ detected' \in Nat
  BY DEF FingerprintNext, FingerprintPacket, FingerprintReturn, CallAgain, LoopOK,
         fingerprintFixture
<1>2. LoopOK'
  BY <1>1 DEF LoopOK
<1>3. ~aggregate /\ fixture # "vp8" /\ fixture # "h264"
  BY <1>1 DEF H264OK, Fingerprinted
<1>4. H264OK' /\ LanesExact' /\ DetectedExact'
  BY <1>1, <1>3 DEF H264OK, LanesExact, DetectedExact, h264Vars, h264Lanes
<1>5. Vp8OK' /\ NoneLost'
  BY <1>1, <1>3 DEF Vp8OK, NoneLost, vp8Vars, vp8Lanes
<1>6. WordsExact'
  <2>1. CASE FingerprintPacket
    <3>1. index' = index + 1 /\ words' = Words(PacketLength(index))
      BY <2>1 DEF FingerprintPacket
    <3>2. index' - 1 = index
      BY <3>1 DEF LoopOK
    <3>3. PacketLength(index - 1)' = PacketLength(index)
      BY <1>1, <3>2 DEF PacketLength
    <3>4. PacketLength(index) \in Nat
      BY PacketLengthType DEF LoopOK
    <3> HIDE DEF HotpathInv
    <3>5. /\ words'.loaded \subseteq 0 .. PacketLength(index) - 1
          /\ \A s \in Slots :
               /\ words'.prefix[s] = IF s < PacketLength(index) THEN s ELSE Padding
               /\ words'.suffix[s] = IF PacketLength(index) >= 8 THEN PacketLength(index) - 8 + s
                                      ELSE words'.prefix[s]
      BY <3>1, <3>4, WordsOfPacket
    <3> QED BY <3>3, <3>5 DEF WordsExact
  <2>2. CASE FingerprintReturn
    BY <2>2 DEF FingerprintReturn, CallAgain, WordsExact
  <2> QED BY <2>1, <2>2 DEF FingerprintNext
<1> QED BY <1>2, <1>4, <1>5, <1>6

-----------------------------------------------------------------------------
(* The H.264 scanner. *)

\* A NAL that has been read decides nothing but the payload it is in.
LEMMA H264Frame ==
    HotpathInv /\ H264Next /\ UNCHANGED <<fingerprintVars, vp8Vars>> =>
        /\ fixture = "h264" /\ fixture' = fixture /\ packet_len' = packet_len
        /\ stap_a_nal_count' = stap_a_nal_count
        /\ cycle' \in Cycles /\ index' \in Nat /\ detected' \in Nat
        /\ \A i : PayloadStartsIdr(i)' <=> PayloadStartsIdr(i)
<1> SUFFICES ASSUME HotpathInv, H264Next, UNCHANGED <<fingerprintVars, vp8Vars>>
             PROVE  /\ fixture = "h264" /\ fixture' = fixture /\ packet_len' = packet_len
                    /\ stap_a_nal_count' = stap_a_nal_count
                    /\ cycle' \in Cycles /\ index' \in Nat /\ detected' \in Nat
                    /\ \A i : PayloadStartsIdr(i)' <=> PayloadStartsIdr(i)
  OBVIOUS
<1>1. fixture = "h264" /\ stap_a_nal_count' = stap_a_nal_count
  BY DEF HotpathInv, H264OK, H264Next, ScanScalarH264, ScanSingle, EnterAggregate, NextNal,
         FinishAggregate, H264Return, h264Vars
<1>2. fixture' = fixture /\ cycle' \in Cycles /\ index' \in Nat /\ detected' \in Nat
  BY DEF HotpathInv, LoopOK, H264Next, ScanScalarH264, ScanSingle, EnterAggregate, NextNal,
         FinishAggregate, H264Return, Verdict, One, CallAgain, loop
<1>3. packet_len' = packet_len
  BY DEF fingerprintVars, fingerprintFixture
<1>4. \A i, n : NalType(i, n)' = NalType(i, n) /\ NalCount(i)' = NalCount(i)
  BY <1>1 DEF NalType, NalCount
<1>5. \A i : PayloadStartsIdr(i)' <=> PayloadStartsIdr(i)
  BY <1>4 DEF PayloadStartsIdr
<1> QED BY <1>1, <1>2, <1>3, <1>5

\* The sum after a verdict that is right.
LEMMA RightVerdict ==
    ASSUME HotpathInv, fixture = "h264", fixture' = fixture,
           \A i : PayloadStartsIdr(i)' <=> PayloadStartsIdr(i),
           Verdict(PayloadStartsIdr(index))
    PROVE  DetectedExact'
<1>1. {i \in 0 .. index - 1 : PayloadStartsIdr(i)}' = {i \in 0 .. (index + 1) - 1 : PayloadStartsIdr(i)}
  BY DEF Verdict
<1>2. detected' = detected + One(PayloadStartsIdr(index))
  BY DEF Verdict
<1>3. index \in Nat /\ detected = Cardinality({i \in 0 .. index - 1 : PayloadStartsIdr(i)})
  BY DEF HotpathInv, LoopOK, DetectedExact
<1>4. Cardinality({i \in 0 .. (index + 1) - 1 : PayloadStartsIdr(i)}) = detected'
  BY <1>2, <1>3, CountIdr
<1> QED BY <1>1, <1>4 DEF DetectedExact

\* No verdict, no payload.
LEMMA NoVerdict ==
    ASSUME HotpathInv, UNCHANGED loop,
           \A i : PayloadStartsIdr(i)' <=> PayloadStartsIdr(i)
    PROVE  DetectedExact'
<1>1. DetectedExact
  BY DEF HotpathInv
<1> QED BY <1>1 DEF DetectedExact, loop

\* What has been read of an aggregate, in its lanes and in the next one.
LEMMA FilledLanes ==
    ASSUME HotpathInv, NextNal,
           NEW filled, filled = [nal_types EXCEPT ![nal_type_count] = NalType(index, nal)]
    PROVE  /\ aggregate /\ nal \in 0 .. stap_a_nal_count - 1 /\ nal_type_count \in Lanes
           /\ filled \in [Lanes -> {0, Other, Idr}]
           /\ (\E l \in 0 .. nal_type_count : filled[l] = Idr)
                 <=> (\E n \in 0 .. nal : NalType(index, n) = Idr)
           /\ \A l \in nal_type_count + 1 .. LaneCount - 1 : filled[l] # Idr
<1> USE LaneAssumption
<1>1. aggregate /\ nal \in 0 .. stap_a_nal_count - 1
  BY DEF NextNal, HotpathInv, H264OK
<1>2. LanesExact
  BY DEF HotpathInv
<1>3. nal_type_count \in Lanes
  BY <1>1, <1>2 DEF LanesExact, HotpathInv, H264OK, Lanes
<1>4. NalType(index, nal) \in {Other, Idr} /\ nal_types \in [Lanes -> {0, Other, Idr}]
  BY DEF NalType, HotpathInv, H264OK
<1>5. /\ filled \in [Lanes -> {0, Other, Idr}]
      /\ filled[nal_type_count] = NalType(index, nal)
      /\ \A l \in Lanes : l # nal_type_count => filled[l] = nal_types[l]
  BY <1>3, <1>4
<1>6. \A l \in 0 .. nal_type_count - 1 : l \in Lanes /\ l # nal_type_count
  BY <1>3 DEF Lanes
<1>7. \A l \in nal_type_count + 1 .. LaneCount - 1 :
          l \in Lanes /\ l # nal_type_count /\ l \in nal_type_count .. LaneCount - 1
  BY <1>3 DEF Lanes
<1>8. \A l \in 0 .. nal_type_count : l = nal_type_count \/ l \in 0 .. nal_type_count - 1
  BY <1>3 DEF Lanes
<1>9. \A n \in 0 .. nal : n = nal \/ n \in 0 .. nal - 1
  BY <1>1
<1>10. (\E l \in 0 .. nal_type_count - 1 : filled[l] = Idr)
          <=> (\E n \in 0 .. nal - 1 : NalType(index, n) = Idr)
  BY <1>1, <1>2, <1>5, <1>6 DEF LanesExact
<1>11. nal_type_count \in 0 .. nal_type_count /\ nal \in 0 .. nal
  BY <1>1, <1>3 DEF Lanes
<1>12. /\ \A l \in 0 .. nal_type_count - 1 : l \in 0 .. nal_type_count
       /\ \A n \in 0 .. nal - 1 : n \in 0 .. nal
  BY <1>1, <1>3 DEF Lanes
<1>13. (\E l \in 0 .. nal_type_count : filled[l] = Idr)
          <=> (\E n \in 0 .. nal : NalType(index, n) = Idr)
  BY <1>5, <1>8, <1>9, <1>10, <1>11, <1>12
<1>14. \A l \in nal_type_count + 1 .. LaneCount - 1 : filled[l] # Idr
  BY <1>1, <1>2, <1>5, <1>7 DEF LanesExact
<1> QED BY <1>1, <1>3, <1>5, <1>13, <1>14

LEMMA NextNalStep ==
    ASSUME HotpathInv, NextNal, fixture = "h264", fixture' = fixture,
           \A i : PayloadStartsIdr(i)' <=> PayloadStartsIdr(i)
    PROVE  H264OK' /\ LanesExact' /\ DetectedExact'
<1> USE LaneAssumption
<1> DEFINE filled == [nal_types EXCEPT ![nal_type_count] = NalType(index, nal)]
           full   == nal_type_count + 1 = LaneCount
<1>1. /\ nal' = nal + 1 /\ nal_types' = filled /\ stap_a_nal_count' = stap_a_nal_count
      /\ nal_type_count' = IF full THEN 0 ELSE nal_type_count + 1
      /\ full /\ AnyLaneIsIdr(filled) => Verdict(TRUE) /\ aggregate' = FALSE
      /\ ~(full /\ AnyLaneIsIdr(filled)) => UNCHANGED loop /\ aggregate' = aggregate
  BY DEF NextNal
<1>2. /\ aggregate /\ nal \in 0 .. stap_a_nal_count - 1 /\ nal_type_count \in Lanes
      /\ filled \in [Lanes -> {0, Other, Idr}]
      /\ (\E l \in 0 .. nal_type_count : filled[l] = Idr)
            <=> (\E n \in 0 .. nal : NalType(index, n) = Idr)
      /\ \A l \in nal_type_count + 1 .. LaneCount - 1 : filled[l] # Idr
  BY FilledLanes
<1> HIDE DEF filled
<1>3. H264OK /\ index \in Nat
  BY DEF HotpathInv, LoopOK
<1>4. IsAggregate(index) /\ NalCount(index) = stap_a_nal_count
  BY <1>2, <1>3 DEF H264OK, NalCount
<1>5. CASE full /\ AnyLaneIsIdr(filled)
  <2>1. H264OK'
    <3>1. nal' \in Nat /\ nal_type_count' \in Nat /\ stap_a_nal_count' \in Nat
      BY <1>1, <1>2, <1>3, <1>5 DEF H264OK
    <3>2. aggregate' = FALSE /\ nal_types' \in [Lanes -> {0, Other, Idr}]
      BY <1>1, <1>2, <1>5
    <3> QED BY <3>1, <3>2 DEF H264OK
  <2>2. LanesExact'
    BY <1>1, <1>5 DEF LanesExact
  <2>3. Lanes = 0 .. nal_type_count
    BY <1>2, <1>5 DEF Lanes
  <2>4. \E n \in 0 .. nal : NalType(index, n) = Idr
    BY <1>2, <1>5, <2>3 DEF AnyLaneIsIdr
  <2>5. PayloadStartsIdr(index)
    BY <1>2, <1>3, <1>4, <2>4 DEF PayloadStartsIdr, H264OK
  <2>6. Verdict(PayloadStartsIdr(index))
    BY <1>1, <1>5, <2>5 DEF Verdict, One
  <2>7. DetectedExact'
    BY <2>6, RightVerdict
  <2> QED BY <2>1, <2>2, <2>7
<1>6. CASE ~(full /\ AnyLaneIsIdr(filled))
  <2>1. H264OK'
    BY <1>1, <1>2, <1>3, <1>6 DEF H264OK, Lanes, loop
  <2>2. DetectedExact'
    BY <1>1, <1>6, NoVerdict
  <2>3. \A n : NalType(index, n)' = NalType(index, n)
    BY <1>1, <1>6 DEF NalType, loop
  <2>4. 0 .. nal' - 1 = 0 .. nal
    BY <1>1, <1>2
  <2>5. CASE full
    <3>1. Lanes = 0 .. nal_type_count /\ \A l \in Lanes : filled[l] # Idr
      BY <1>2, <1>6, <2>5 DEF Lanes, AnyLaneIsIdr
    <3>2. nal_type_count' = 0 /\ nal_types' = filled
      BY <1>1, <2>5
    <3>3. \A n \in 0 .. nal : NalType(index, n) # Idr
      BY <1>2, <3>1
    <3>4. 0 .. nal_type_count' - 1 = {} /\ nal_type_count' .. LaneCount - 1 = Lanes
      BY <3>2 DEF Lanes
    <3>5. (~\E l \in 0 .. nal_type_count - 1 : nal_types[l] = Idr)'
      BY <3>4
    <3>6. (~\E n \in 0 .. nal - 1 : NalType(index, n) = Idr)'
      BY <3>3, <2>3, <2>4
    <3>7. (\A l \in nal_type_count .. LaneCount - 1 : nal_types[l] # Idr)'
      BY <3>1, <3>2, <3>4
    <3>8. LanesExact'
      BY <3>2, <3>5, <3>6, <3>7 DEF LanesExact
    <3> QED BY <2>1, <2>2, <3>8
  <2>6. CASE ~full
    <3>1. /\ nal_type_count' = nal_type_count + 1 /\ nal_type_count' < LaneCount
          /\ nal_types' = filled
      BY <1>1, <1>2, <2>6 DEF Lanes
    <3>2. 0 .. nal_type_count' - 1 = 0 .. nal_type_count
      BY <1>2, <3>1 DEF Lanes
    <3>3. ((\E l \in 0 .. nal_type_count - 1 : nal_types[l] = Idr)
             <=> (\E n \in 0 .. nal - 1 : NalType(index, n) = Idr))'
      BY <1>2, <3>1, <3>2, <2>3, <2>4
    <3>4. (\A l \in nal_type_count .. LaneCount - 1 : nal_types[l] # Idr)'
      BY <1>2, <3>1
    <3>5. LanesExact'
      BY <3>1, <3>3, <3>4 DEF LanesExact
    <3> QED BY <2>1, <2>2, <3>5
  <2> QED BY <2>1, <2>2, <2>5, <2>6
<1> QED BY <1>5, <1>6

LEMMA FinishAggregateStep ==
    ASSUME HotpathInv, FinishAggregate, fixture = "h264", fixture' = fixture,
           \A i : PayloadStartsIdr(i)' <=> PayloadStartsIdr(i)
    PROVE  DetectedExact'
<1>1. H264OK /\ LanesExact /\ aggregate /\ nal = stap_a_nal_count
  BY DEF HotpathInv, FinishAggregate
<1>2. NalCount(index) = nal
  BY <1>1 DEF H264OK, NalCount
<1>3. (\E l \in 0 .. nal_type_count - 1 : nal_types[l] = Idr) <=> PayloadStartsIdr(index)
  BY <1>1, <1>2 DEF LanesExact, PayloadStartsIdr
<1>4. Verdict(\E l \in 0 .. nal_type_count - 1 : nal_types[l] = Idr)
  BY DEF FinishAggregate
<1>5. Verdict(PayloadStartsIdr(index))
  BY <1>3, <1>4 DEF Verdict, One
<1> QED BY <1>5, RightVerdict

LEMMA H264Step ==
    HotpathInv /\ H264Next /\ UNCHANGED <<fingerprintVars, vp8Vars>> => HotpathInv'
<1> SUFFICES ASSUME HotpathInv, H264Next, UNCHANGED <<fingerprintVars, vp8Vars>>
             PROVE  HotpathInv'
  OBVIOUS
<1> USE LaneAssumption
<1>1. /\ fixture = "h264" /\ fixture' = fixture /\ packet_len' = packet_len
      /\ stap_a_nal_count' = stap_a_nal_count
      /\ cycle' \in Cycles /\ index' \in Nat /\ detected' \in Nat
      /\ \A i : PayloadStartsIdr(i)' <=> PayloadStartsIdr(i)
  BY H264Frame
<1>2. LoopOK /\ H264OK /\ LanesExact /\ Vp8OK
  BY DEF HotpathInv
<1>3. LoopOK'
  BY <1>1, <1>2 DEF LoopOK
<1>4. Vp8OK' /\ WordsExact' /\ NoneLost'
  <2>1. fixture' # "vp8" /\ fixture' \notin Fingerprinted
    BY <1>1 DEF Fingerprinted
  <2> QED BY <1>2, <2>1 DEF Vp8OK, WordsExact, NoneLost, vp8Vars, vp8Lanes
<1>5. H264OK' /\ LanesExact' /\ DetectedExact'
  <2>1. CASE ScanScalarH264
    <3>1. ~aggregate
      BY <1>2, <2>1 DEF ScanScalarH264, H264OK
    <3>2. H264OK' /\ LanesExact'
      BY <1>2, <2>1, <3>1 DEF ScanScalarH264, H264OK, LanesExact, h264Vars, h264Lanes
    <3>3. DetectedExact'
      BY <1>1, <2>1, RightVerdict DEF ScanScalarH264
    <3> QED BY <3>2, <3>3
  <2>2. CASE ScanSingle
    <3>1. ~aggregate /\ ~IsAggregate(index)
      BY <1>2, <2>2 DEF ScanSingle, H264OK
    <3>2. H264OK' /\ LanesExact'
      BY <1>2, <2>2, <3>1 DEF ScanSingle, H264OK, LanesExact, h264Vars, h264Lanes
    <3>3. PayloadStartsIdr(index) <=> NalType(index, 0) = Idr
      BY <3>1 DEF PayloadStartsIdr, NalCount
    <3>4. Verdict(PayloadStartsIdr(index))
      BY <2>2, <3>3 DEF ScanSingle, Verdict, One
    <3> QED BY <1>1, <3>2, <3>4, RightVerdict
  <2>3. CASE EnterAggregate
    <3>1. H264OK' /\ LanesExact'
      BY <1>2, <2>3 DEF EnterAggregate, H264OK, LanesExact, loop, Lanes, IsAggregate, Idr
    <3> QED BY <1>1, <2>3, <3>1, NoVerdict DEF EnterAggregate
  <2>4. CASE NextNal
    BY <1>1, <2>4, NextNalStep
  <2>5. CASE FinishAggregate
    <3>1. H264OK' /\ LanesExact'
      BY <1>2, <2>5 DEF FinishAggregate, H264OK, LanesExact, h264Lanes
    <3> QED BY <1>1, <2>5, <3>1, FinishAggregateStep
  <2>6. CASE H264Return
    <3>1. ~aggregate
      BY <1>2, <2>6, H264Assumption DEF H264Return, H264OK, LoopOK
    <3>2. H264OK' /\ LanesExact'
      BY <1>2, <2>6, <3>1 DEF H264Return, H264OK, LanesExact, h264Vars, h264Lanes
    <3>3. index' = 0 /\ detected' = 0
      BY <2>6 DEF H264Return, CallAgain
    <3>4. {i \in 0 .. index - 1 : PayloadStartsIdr(i)}' = {i \in 0 .. 0 - 1 : PayloadStartsIdr(i)}
      BY <3>3
    <3>5. Cardinality({i \in 0 .. 0 - 1 : PayloadStartsIdr(i)}) = 0
      BY CountIdr
    <3> QED BY <3>2, <3>3, <3>4, <3>5 DEF DetectedExact
  <2> QED BY <2>1, <2>2, <2>3, <2>4, <2>5, <2>6 DEF H264Next
<1> QED BY <1>3, <1>4, <1>5 DEF HotpathInv

-----------------------------------------------------------------------------
(* The VP8 scanner. *)

\* What the vector compares, on the bytes of a payload in the lanes.
Starts(descriptor, header) == descriptor % 32 = 16 /\ header % 2 = 0

\* The payloads that wait in the lanes and start a keyframe.
Waiting(from, to, ds, hs) == {l \in from .. to - 1 : Starts(ds[l], hs[l])}

\* Without the X bit the two bytes in the lanes decide: the masked comparison,
\* the three tests of the tail and the production parser agree.
LEMMA SimpleBytes ==
    ASSUME NEW i \in Nat, ~Extended(i)
    PROVE  /\ Descriptor(i) \in {0, 16, 17} /\ Second(i) \in {0, 1}
           /\ Starts(Descriptor(i), Second(i)) <=> PayloadStartsKeyframe(i)
<1> DEFINE kind == i % 8
<1>1. kind \in 0 .. 7
  OBVIOUS
<1>2. kind \notin {5, 6, 7} \/ kind = 5
  BY <1>1 DEF Extended, Descriptor
<1> HIDE DEF kind
<1>3. CASE kind \in {0, 1}
  BY <1>3 DEF kind, Descriptor, Second, Header, Starts, PayloadStartsKeyframe
<1>4. CASE kind \in {2, 3}
  BY <1>4 DEF kind, Descriptor, Second, Header, Starts, PayloadStartsKeyframe
<1>5. CASE kind = 4
  BY <1>5 DEF kind, Descriptor, Second, Header, Starts, PayloadStartsKeyframe
<1>6. CASE kind = 5
  BY <1>6 DEF kind, Descriptor, Second, Header, Starts, PayloadStartsKeyframe
<1> QED BY <1>1, <1>2, <1>3, <1>4, <1>5, <1>6

LEMMA TailTest ==
    ASSUME NEW d \in {0, 16, 17}, NEW h \in {0, 1}
    PROVE  SimpleStartsKeyframe(d, h) <=> Starts(d, h)
BY DEF SimpleStartsKeyframe, Starts

\* One more lane at the end, one less at the beginning.
LEMMA WaitingLanes ==
    ASSUME NEW from \in Nat, NEW to \in Nat, NEW ds, NEW hs
    PROVE  /\ IsFiniteSet(Waiting(from, to, ds, hs))
           /\ Cardinality(Waiting(from, to, ds, hs)) \in Nat
           /\ from <= to => Cardinality(Waiting(from, to + 1, ds, hs))
                              = Cardinality(Waiting(from, to, ds, hs)) + One(Starts(ds[to], hs[to]))
           /\ from < to => Cardinality(Waiting(from, to, ds, hs))
                              = Cardinality(Waiting(from + 1, to, ds, hs)) + One(Starts(ds[from], hs[from]))
<1>1. \A a, b \in Nat : /\ IsFiniteSet(Waiting(a, b, ds, hs))
                        /\ Cardinality(Waiting(a, b, ds, hs)) \in Nat
  <2> TAKE a, b \in Nat
  <2>1. IsFiniteSet(a .. b - 1)
    BY FS_Interval
  <2>2. Waiting(a, b, ds, hs) \subseteq a .. b - 1
    BY DEF Waiting
  <2> QED BY <2>1, <2>2, FS_Subset, FS_CardinalityType
<1>2. ASSUME from <= to
      PROVE  Cardinality(Waiting(from, to + 1, ds, hs))
               = Cardinality(Waiting(from, to, ds, hs)) + One(Starts(ds[to], hs[to]))
  <2>1. /\ to \notin Waiting(from, to, ds, hs)
        /\ Waiting(from, to + 1, ds, hs) =
             IF Starts(ds[to], hs[to]) THEN Waiting(from, to, ds, hs) \cup {to}
             ELSE Waiting(from, to, ds, hs)
    BY <1>2 DEF Waiting
  <2>2. Cardinality(Waiting(from, to, ds, hs) \cup {to}) = Cardinality(Waiting(from, to, ds, hs)) + 1
    BY <1>1, <2>1, FS_AddElement
  <2>3. Cardinality(Waiting(from, to, ds, hs)) \in Nat
    BY <1>1
  <2>4. CASE Starts(ds[to], hs[to])
    BY <2>1, <2>2, <2>4 DEF One
  <2>5. CASE ~Starts(ds[to], hs[to])
    BY <2>1, <2>3, <2>5 DEF One
  <2> QED BY <2>4, <2>5
<1>3. ASSUME from < to
      PROVE  Cardinality(Waiting(from, to, ds, hs))
               = Cardinality(Waiting(from + 1, to, ds, hs)) + One(Starts(ds[from], hs[from]))
  <2>1. /\ from \notin Waiting(from + 1, to, ds, hs)
        /\ Waiting(from, to, ds, hs) =
             IF Starts(ds[from], hs[from]) THEN Waiting(from + 1, to, ds, hs) \cup {from}
             ELSE Waiting(from + 1, to, ds, hs)
    BY <1>3 DEF Waiting
  <2>2. IsFiniteSet(Waiting(from + 1, to, ds, hs)) /\ Cardinality(Waiting(from + 1, to, ds, hs)) \in Nat
    BY <1>1
  <2>3. Cardinality(Waiting(from + 1, to, ds, hs) \cup {from}) = Cardinality(Waiting(from + 1, to, ds, hs)) + 1
    BY <2>1, <2>2, FS_AddElement
  <2> QED BY <2>1, <2>2, <2>3 DEF One
<1> QED BY <1>1, <1>2, <1>3

\* The sum of NoneLost, with its two sets named.
Keyframes(k) == {i \in 0 .. k - 1 : PayloadStartsKeyframe(i)}

Balance ==
    /\ batch_len < LaneCount
    /\ detected + Cardinality(Waiting(tail, batch_len, descriptors, payload_headers))
         = Cardinality(Keyframes(index))

LEMMA NoneLostIsBalance == NoneLost <=> (fixture = "vp8" => Balance)
BY DEF NoneLost, Balance, Waiting, Starts, Keyframes

LEMMA KeyframesGrow ==
    ASSUME NEW n \in Nat
    PROVE  /\ Cardinality(Keyframes(0)) = 0 /\ Cardinality(Keyframes(n)) \in Nat
           /\ Cardinality(Keyframes(n + 1))
                = Cardinality(Keyframes(n)) + One(PayloadStartsKeyframe(n))
BY CountKeyframes DEF Keyframes

LEMMA ScanSimpleStep ==
    ASSUME HotpathInv, ScanSimple, fixture = "vp8"
    PROVE  Vp8OK' /\ Balance'
<1> USE LaneAssumption
<1> DEFINE ds   == [descriptors EXCEPT ![batch_len] = Descriptor(index)]
           hs   == [payload_headers EXCEPT ![batch_len] = Second(index)]
           full == batch_len + 1 = LaneCount
           wait == Waiting(0, batch_len, descriptors, payload_headers)
<1>1. /\ index < payload_count /\ ~Extended(index)
      /\ descriptors' = ds /\ payload_headers' = hs
      /\ batch_len' = IF full THEN 0 ELSE batch_len + 1
      /\ detected' = detected + (IF full THEN KeyframeCountSimd(ds, hs) ELSE 0)
      /\ index' = index + 1 /\ tail' = tail /\ payload_count' = payload_count
      /\ fixture' = fixture
  BY DEF ScanSimple
<1>2. index \in Nat /\ detected \in Nat /\ payload_count \in Nat /\ batch_len \in Lanes /\ tail = 0
  BY <1>1 DEF HotpathInv, LoopOK, Vp8OK
<1>3. detected + Cardinality(wait) = Cardinality(Keyframes(index)) /\ batch_len < LaneCount
  BY <1>2, NoneLostIsBalance DEF HotpathInv, Balance
<1>4. /\ Descriptor(index) \in {0, 16, 17} /\ Second(index) \in {0, 1}
      /\ Starts(Descriptor(index), Second(index)) <=> PayloadStartsKeyframe(index)
  BY <1>1, <1>2, SimpleBytes
<1>5. /\ ds \in [Lanes -> {0, 16, 17}] /\ hs \in [Lanes -> {0, 1}]
      /\ ds[batch_len] = Descriptor(index) /\ hs[batch_len] = Second(index)
      /\ \A l \in Lanes : l # batch_len => ds[l] = descriptors[l] /\ hs[l] = payload_headers[l]
  BY <1>2, <1>4 DEF HotpathInv, Vp8OK
<1> HIDE DEF ds, hs
<1>6. Waiting(0, batch_len, ds, hs) = wait
  <2>1. \A l \in 0 .. batch_len - 1 : l \in Lanes /\ l # batch_len
    BY <1>2 DEF Lanes
  <2> QED BY <1>5, <2>1 DEF Waiting
<1>7. Cardinality(Waiting(0, batch_len + 1, ds, hs))
        = Cardinality(wait) + One(PayloadStartsKeyframe(index))
  <2>1. batch_len \in Nat
    BY <1>2 DEF Lanes
  <2>2. Cardinality(Waiting(0, batch_len + 1, ds, hs))
          = Cardinality(Waiting(0, batch_len, ds, hs)) + One(Starts(ds[batch_len], hs[batch_len]))
    BY <2>1, WaitingLanes
  <2> QED BY <1>4, <1>5, <1>6, <2>2 DEF One
<1>8. Cardinality(wait) \in Nat
  BY <1>2, WaitingLanes DEF Lanes
<1>9. detected + Cardinality(Waiting(0, batch_len + 1, ds, hs)) = Cardinality(Keyframes(index + 1))
  BY <1>2, <1>3, <1>7, <1>8, KeyframesGrow DEF One
<1>10. batch_len' \in Lanes /\ batch_len' < LaneCount
  BY <1>1, <1>2 DEF Lanes
<1>11. Vp8OK'
  BY <1>1, <1>2, <1>5, <1>10 DEF Vp8OK, Lanes
<1>12. CASE full
  <2>1. Waiting(0, 0, ds, hs) = {} /\ Cardinality({}) = 0
    BY FS_EmptySet DEF Waiting
  <2>2. KeyframeCountSimd(ds, hs) = Cardinality(Waiting(0, batch_len + 1, ds, hs))
    BY <1>12 DEF KeyframeCountSimd, Waiting, Starts, Lanes
  <2>3. Cardinality(Waiting(tail', batch_len', descriptors', payload_headers')) = 0
    BY <1>1, <1>2, <1>12, <2>1
  <2>4. detected' \in Nat /\ detected' = Cardinality(Keyframes(index'))
    BY <1>1, <1>2, <1>7, <1>8, <1>9, <1>12, <2>2 DEF One
  <2> QED BY <1>10, <1>11, <2>3, <2>4 DEF Balance
<1>13. CASE ~full
  <2>1. Cardinality(Waiting(tail', batch_len', descriptors', payload_headers'))
          = Cardinality(Waiting(0, batch_len + 1, ds, hs))
    BY <1>1, <1>2, <1>13
  <2>2. detected' = detected
    BY <1>1, <1>2, <1>13
  <2> QED BY <1>1, <1>9, <1>10, <1>11, <2>1, <2>2 DEF Balance
<1> QED BY <1>12, <1>13

LEMMA CountTailStep ==
    ASSUME HotpathInv, CountTail, fixture = "vp8"
    PROVE  Vp8OK' /\ Balance'
<1> USE LaneAssumption
<1> DEFINE new == SimpleStartsKeyframe(descriptors[tail], payload_headers[tail])
<1>1. /\ index = payload_count /\ tail < batch_len /\ tail' = tail + 1
      /\ detected' = detected + One(new)
      /\ fixture' = fixture /\ index' = index /\ payload_count' = payload_count
      /\ batch_len' = batch_len /\ descriptors' = descriptors /\ payload_headers' = payload_headers
  BY DEF CountTail, vp8Lanes
<1>2. /\ Vp8OK /\ index \in Nat /\ detected \in Nat /\ batch_len \in Nat /\ tail \in Nat
      /\ tail \in Lanes
  BY <1>1 DEF HotpathInv, LoopOK, Vp8OK, Lanes
<1>3. batch_len < LaneCount
      /\ detected + Cardinality(Waiting(tail, batch_len, descriptors, payload_headers))
           = Cardinality(Keyframes(index))
  BY NoneLostIsBalance DEF HotpathInv, Balance
<1>4. new <=> Starts(descriptors[tail], payload_headers[tail])
  BY <1>2, TailTest DEF Vp8OK
<1>5. /\ Cardinality(Waiting(tail, batch_len, descriptors, payload_headers))
           = Cardinality(Waiting(tail + 1, batch_len, descriptors, payload_headers)) + One(new)
      /\ Cardinality(Waiting(tail + 1, batch_len, descriptors, payload_headers)) \in Nat
  BY <1>1, <1>2, <1>4, WaitingLanes DEF One
<1>6. Vp8OK'
  BY <1>1, <1>2 DEF Vp8OK
<1>7. detected' + Cardinality(Waiting(tail + 1, batch_len, descriptors, payload_headers))
        = Cardinality(Keyframes(index))
  BY <1>1, <1>2, <1>3, <1>5 DEF One
<1> QED BY <1>1, <1>3, <1>6, <1>7 DEF Balance

\* A payload that does not enter the lanes is added to the sum at once.
LEMMA PassedBy ==
    ASSUME HotpathInv, fixture = "vp8", index < payload_count, UNCHANGED vp8Vars,
           Verdict(PayloadStartsKeyframe(index))
    PROVE  Vp8OK' /\ Balance'
<1> USE LaneAssumption
<1>1. /\ index' = index + 1 /\ detected' = detected + One(PayloadStartsKeyframe(index))
      /\ fixture' = fixture /\ tail' = tail /\ payload_count' = payload_count
      /\ batch_len' = batch_len /\ descriptors' = descriptors /\ payload_headers' = payload_headers
  BY DEF Verdict, vp8Vars, vp8Lanes
<1>2. /\ Vp8OK /\ index \in Nat /\ detected \in Nat /\ batch_len \in Nat /\ tail \in Nat
      /\ payload_count \in Nat
  BY DEF HotpathInv, LoopOK, Vp8OK, Lanes
<1>3. batch_len < LaneCount
      /\ detected + Cardinality(Waiting(tail, batch_len, descriptors, payload_headers))
           = Cardinality(Keyframes(index))
  BY NoneLostIsBalance DEF HotpathInv, Balance
<1>4. Cardinality(Waiting(tail, batch_len, descriptors, payload_headers)) \in Nat
  BY <1>2, WaitingLanes
<1>5. detected' + Cardinality(Waiting(tail, batch_len, descriptors, payload_headers))
        = Cardinality(Keyframes(index + 1))
  BY <1>1, <1>2, <1>3, <1>4, KeyframesGrow DEF One
<1>6. Vp8OK'
  BY <1>1, <1>2 DEF Vp8OK
<1> QED BY <1>1, <1>3, <1>5, <1>6 DEF Balance

LEMMA Vp8Step ==
    HotpathInv /\ Vp8Next /\ UNCHANGED <<fingerprintVars, h264Vars>> => HotpathInv'
<1> SUFFICES ASSUME HotpathInv, Vp8Next, UNCHANGED <<fingerprintVars, h264Vars>>
             PROVE  HotpathInv'
  OBVIOUS
<1> USE LaneAssumption
<1>1. /\ fixture = "vp8" /\ fixture' = fixture /\ packet_len' = packet_len
  BY DEF Vp8Next, ScanScalarVp8, ScanExtended, ScanSimple, CountTail, Vp8Return, Verdict,
         CallAgain, fingerprintVars, fingerprintFixture
<1>2. LoopOK /\ H264OK /\ Vp8OK
  BY DEF HotpathInv
<1>3. ~aggregate /\ H264OK' /\ LanesExact' /\ DetectedExact' /\ WordsExact'
  <2>1. ~aggregate
    BY <1>1, <1>2 DEF H264OK
  <2>2. H264OK' /\ LanesExact'
    BY <1>2, <2>1 DEF H264OK, LanesExact, h264Vars, h264Lanes
  <2>3. fixture' # "h264" /\ fixture' \notin Fingerprinted
    BY <1>1 DEF Fingerprinted
  <2> QED BY <2>1, <2>2, <2>3 DEF DetectedExact, WordsExact
<1>4. Vp8OK' /\ Balance'
  <2>1. CASE ScanScalarVp8
    BY <1>1, <2>1, PassedBy DEF ScanScalarVp8
  <2>2. CASE ScanExtended
    BY <1>1, <2>2, PassedBy DEF ScanExtended
  <2>3. CASE ScanSimple
    BY <1>1, <2>3, ScanSimpleStep
  <2>4. CASE CountTail
    BY <1>1, <2>4, CountTailStep
  <2>5. CASE Vp8Return
    <3>1. /\ index' = 0 /\ detected' = 0 /\ batch_len' = 0 /\ tail' = 0
          /\ payload_count' = payload_count
          /\ descriptors' = [l \in Lanes |-> 0] /\ payload_headers' = [l \in Lanes |-> 0]
      BY <2>5 DEF Vp8Return, CallAgain
    <3>2. Vp8OK'
      BY <1>2, <3>1 DEF Vp8OK, Lanes
    <3>3. Waiting(0, 0, descriptors', payload_headers') = {} /\ Cardinality({}) = 0
      BY FS_EmptySet DEF Waiting
    <3>4. Cardinality(Keyframes(0)) = 0
      BY KeyframesGrow
    <3> QED BY <3>1, <3>2, <3>3, <3>4 DEF Balance
  <2> QED BY <2>1, <2>2, <2>3, <2>4, <2>5 DEF Vp8Next
<1>5. LoopOK'
  <2>1. cycle' \in Cycles /\ index' \in Nat
    BY <1>2 DEF LoopOK, Vp8Next, ScanScalarVp8, ScanExtended, ScanSimple, CountTail, Vp8Return,
                Verdict, CallAgain
  <2>2. detected' \in Nat
    <3>1. CASE ScanSimple
      <4>1. IsFiniteSet(Lanes)
        BY FS_Interval DEF Lanes
      <4>2. \A ds, hs : KeyframeCountSimd(ds, hs) \in Nat
        <5>1. \A ds, hs : {l \in Lanes : ds[l] % 32 = 16 /\ hs[l] % 2 = 0} \subseteq Lanes
          OBVIOUS
        <5> QED BY <4>1, <5>1, FS_Subset, FS_CardinalityType DEF KeyframeCountSimd
      <4> QED BY <1>2, <3>1, <4>2 DEF LoopOK, ScanSimple
    <3>2. CASE ~ScanSimple
      BY <1>2, <3>2 DEF LoopOK, Vp8Next, ScanScalarVp8, ScanExtended, CountTail, Vp8Return,
                        Verdict, CallAgain, One
    <3> QED BY <3>1, <3>2
  <2> QED BY <1>1, <1>2, <2>1, <2>2 DEF LoopOK
<1>6. NoneLost'
  BY <1>4, NoneLostIsBalance DEF NoneLost, Balance, Waiting, Starts, Keyframes
<1> QED BY <1>3, <1>4, <1>5, <1>6 DEF HotpathInv

-----------------------------------------------------------------------------

LEMMA HotpathCorrect == Spec => []HotpathInv
<1>1. HotpathInv /\ [Next]_vars => HotpathInv'
  <2> SUFFICES ASSUME HotpathInv, [Next]_vars PROVE HotpathInv'
    OBVIOUS
  <2>1. CASE UNCHANGED vars
    <3>1. LoopOK' /\ H264OK' /\ Vp8OK'
      BY <2>1 DEF HotpathInv, LoopOK, H264OK, Vp8OK, vars, loop, fingerprintVars,
             fingerprintFixture, h264Vars, h264Lanes, vp8Vars, vp8Lanes
    <3>2. WordsExact'
      BY <2>1 DEF HotpathInv, WordsExact, PacketLength, vars, loop, fingerprintVars,
             fingerprintFixture
    <3>3. LanesExact'
      BY <2>1 DEF HotpathInv, LanesExact, NalType, vars, loop, h264Vars, h264Lanes
    <3>4. \A i : PayloadStartsIdr(i)' <=> PayloadStartsIdr(i)
      BY <2>1 DEF PayloadStartsIdr, NalCount, NalType, vars, h264Vars
    <3>5. DetectedExact'
      BY <2>1, <3>4, NoVerdict DEF vars
    <3>6. NoneLost'
      BY <2>1 DEF HotpathInv, NoneLost, vars, loop, vp8Vars, vp8Lanes
    <3> QED BY <3>1, <3>2, <3>3, <3>5, <3>6 DEF HotpathInv
  <2>2. CASE Next
    BY <2>2, FingerprintStep, H264Step, Vp8Step DEF Next
  <2> QED BY <2>1, <2>2
<1> QED BY InitHotpath, <1>1, PTL DEF Spec

\* For every packet length, and with or without vectors, the words of a
\* fingerprint hold the first and the last eight bytes of the packet, and an
\* unchecked load stays within it.
THEOREM WordsCorrect == Spec => []WordsExact
<1>1. HotpathInv => WordsExact
  BY DEF HotpathInv
<1> QED BY <1>1, HotpathCorrect, PTL

\* For every number of NALs and of lanes, the filled lanes know of every IDR
\* that has been read of an aggregate.
THEOREM LanesCorrect == Spec => []LanesExact
<1>1. HotpathInv => LanesExact
  BY DEF HotpathInv
<1> QED BY <1>1, HotpathCorrect, PTL

\* Both cycles of the H.264 fixture count the payloads with an IDR, however
\* many payloads there are and however many NALs an aggregate has.
THEOREM DetectedCorrect == Spec => []DetectedExact
<1>1. HotpathInv => DetectedExact
  BY DEF HotpathInv
<1> QED BY <1>1, HotpathCorrect, PTL

\* The VP8 scanner loses no keyframe, for every number of payloads and of lanes.
THEOREM NoneLostCorrect == Spec => []NoneLost
<1>1. HotpathInv => NoneLost
  BY DEF HotpathInv
<1> QED BY <1>1, HotpathCorrect, PTL

-----------------------------------------------------------------------------
(* The xor over the packets. *)

\* What of a packet goes into its fingerprint, and the fingerprint it must have,
\* whichever way the words are loaded.
Packet(n) == <<Content(n), PacketLength(n)>>

Prefix(len) == [s \in Slots |-> IF s < len THEN s ELSE Padding]
Suffix(len) == [s \in Slots |-> IF len >= 8 THEN len - 8 + s ELSE Prefix(len)[s]]
PrintOf(p)  == [content |-> p[1], len |-> p[2], prefix |-> Prefix(p[2]), suffix |-> Suffix(p[2])]

\* How often a packet is among the first k, and those that occur an odd number of times.
Times(k, p) == Cardinality({n \in 0 .. k - 1 : Packet(n) = p})
Odd(k)      == {p \in {Packet(n) : n \in 0 .. k - 1} : Times(k, p) % 2 = 1}

ValueInv ==
    /\ packet_count \in Nat
    /\ fixture \in Fingerprinted => value = {PrintOf(p) : p \in Odd(index)}

\* The words of a packet are functions of its length alone.
LEMMA WordsShape ==
    ASSUME NEW len \in Nat
    PROVE  Words(len).prefix = Prefix(len) /\ Words(len).suffix = Suffix(len)
<1> DEFINE w == Words(len)
           Shaped(v) == v.prefix = [s \in Slots |-> v.prefix[s]]
                        /\ v.suffix = [s \in Slots |-> v.suffix[s]]
<1>1. Shaped(Scalar(len)) /\ Shaped(Vectors(len))
  BY DEF Scalar, Vectors, LoadPadded
<1> HIDE DEF Shaped
<1>2. Shaped(Simd(len))
  BY <1>1 DEF Simd
<1>3. Shaped(w)
  BY <1>1, <1>2 DEF Words, Production
<1>4. \A s \in Slots : /\ w.prefix[s] = IF s < len THEN s ELSE Padding
                       /\ w.suffix[s] = IF len >= 8 THEN len - 8 + s ELSE w.prefix[s]
  BY WordsOfPacket
<1> HIDE DEF w
<1>5. w.prefix = Prefix(len)
  BY <1>3, <1>4 DEF Shaped, Prefix
<1>6. w.suffix = Suffix(len)
  BY <1>3, <1>4, <1>5 DEF Shaped, Suffix
<1> QED BY <1>5, <1>6 DEF w

LEMMA PrintOfPacket ==
    ASSUME packet_len \in Nat, NEW n \in Nat
    PROVE  Fingerprint(n, Words(PacketLength(n))) = PrintOf(Packet(n))
BY PacketLengthType, WordsShape DEF Fingerprint, PrintOf, Packet

LEMMA TimesNext ==
    ASSUME NEW k \in Nat, NEW p
    PROVE  /\ Times(k, p) \in Nat
           /\ Times(k + 1, p) = Times(k, p) + (IF Packet(k) = p THEN 1 ELSE 0)
           /\ p \notin {Packet(n) : n \in 0 .. k - 1} => Times(k, p) = 0
<1> DEFINE S == {n \in 0 .. k - 1 : Packet(n) = p}
           S1 == {n \in 0 .. (k + 1) - 1 : Packet(n) = p}
<1>1. IsFiniteSet(0 .. k - 1)
  BY FS_Interval
<1>2. IsFiniteSet(S) /\ k \notin S
  BY <1>1, FS_Subset
<1>3. S1 = IF Packet(k) = p THEN S \cup {k} ELSE S
  OBVIOUS
<1>4. p \notin {Packet(n) : n \in 0 .. k - 1} => S = {}
  OBVIOUS
<1>5. Times(k, p) = Cardinality(S) /\ Times(k + 1, p) = Cardinality(S1)
  BY DEF Times
<1> HIDE DEF S, S1
<1>6. Cardinality(S) \in Nat
  BY <1>2, FS_CardinalityType
<1>7. Cardinality(S \cup {k}) = Cardinality(S) + 1
  BY <1>2, FS_AddElement
<1>8. S = {} => Cardinality(S) = 0
  BY FS_EmptySet
<1>9. Cardinality(S1) = Cardinality(S) + (IF Packet(k) = p THEN 1 ELSE 0)
  <2>1. CASE Packet(k) = p
    BY <1>3, <1>7, <2>1
  <2>2. CASE Packet(k) # p
    BY <1>3, <1>6, <2>2
  <2> QED BY <2>1, <2>2
<1> QED BY <1>4, <1>5, <1>6, <1>8, <1>9

\* One more packet changes sides, and no other does.
LEMMA OddNext ==
    ASSUME NEW k \in Nat
    PROVE  Odd(k + 1) = IF Packet(k) \in Odd(k) THEN Odd(k) \ {Packet(k)}
                        ELSE Odd(k) \cup {Packet(k)}
<1> DEFINE Passed(j) == {Packet(n) : n \in 0 .. j - 1}
<1>1. Passed(k + 1) = Passed(k) \cup {Packet(k)}
  <2>1. 0 .. (k + 1) - 1 = (0 .. k - 1) \cup {k}
    OBVIOUS
  <2> QED BY <2>1
<1>2. \A p : p \in Odd(k) <=> p \in Passed(k) /\ Times(k, p) % 2 = 1
  BY DEF Odd
<1>3. \A p : p \in Odd(k + 1) <=> p \in Passed(k + 1) /\ Times(k + 1, p) % 2 = 1
  BY DEF Odd
<1>4. \A p : p \notin Passed(k) => Times(k, p) = 0
  BY TimesNext
<1> HIDE DEF Passed
<1>5. ASSUME NEW p, p # Packet(k) PROVE p \in Odd(k + 1) <=> p \in Odd(k)
  <2>1. Times(k + 1, p) = Times(k, p)
    BY <1>5, TimesNext
  <2>2. p \in Passed(k + 1) <=> p \in Passed(k)
    BY <1>1, <1>5
  <2> QED BY <1>2, <1>3, <2>1, <2>2
<1>6. Packet(k) \in Odd(k + 1) <=> Packet(k) \notin Odd(k)
  <2> DEFINE p == Packet(k)
             t == Times(k, p)
  <2>1. t \in Nat /\ Times(k + 1, p) = t + 1
    BY TimesNext
  <2>2. (t + 1) % 2 = 1 <=> ~ (t % 2 = 1)
    BY <2>1
  <2>3. p \in Passed(k + 1)
    BY <1>1
  <2>4. p \notin Passed(k) => ~ (t % 2 = 1)
    <3>1. ASSUME p \notin Passed(k) PROVE t % 2 = 0
      BY <1>4, <3>1
    <3> QED BY <3>1
  <2> QED BY <1>2, <1>3, <2>1, <2>2, <2>3, <2>4
<1> QED BY <1>5, <1>6

LEMMA ValueInit == Init => ValueInv
<1> SUFFICES ASSUME Init PROVE ValueInv
  OBVIOUS
<1>1. packet_count \in Nat
  <2>1. MixStart[14] = 100
    BY DEF MixStart
  <2> QED BY <2>1, FingerprintAssumption DEF Init, FingerprintInit
<1>2. index = 0 /\ value = {}
  BY DEF Init, LoopInit, FingerprintInit
<1>3. Odd(index) = {}
  BY <1>2 DEF Odd
<1> QED BY <1>1, <1>2, <1>3 DEF ValueInv

LEMMA ValueStep == HotpathInv /\ ValueInv /\ [Next]_vars => ValueInv'
<1> SUFFICES ASSUME HotpathInv, ValueInv, [Next]_vars PROVE ValueInv'
  OBVIOUS
<1>1. ASSUME fixture' = fixture, packet_len' = packet_len
      PROVE  \A n : Packet(n)' = Packet(n)
  BY <1>1 DEF Packet, Content, PacketLength, PacketIndex
<1>2. ASSUME fixture' = fixture, packet_len' = packet_len
      PROVE  \A k : Odd(k)' = Odd(k)
  BY <1>1, <1>2 DEF Odd, Times
<1>3. CASE UNCHANGED vars
  <2>1. fixture' = fixture /\ packet_len' = packet_len /\ index' = index /\ value' = value
        /\ packet_count' = packet_count
    BY <1>3 DEF vars, loop, fingerprintVars, fingerprintFixture
  <2>2. Odd(index)' = Odd(index)
    BY <1>2, <2>1
  <2> QED BY <2>1, <2>2 DEF ValueInv
<1>4. CASE FingerprintPacket
  <2> DEFINE p == Packet(index)
  <2>1. /\ fixture \in Fingerprinted /\ fixture' = fixture /\ packet_len' = packet_len
        /\ packet_count' = packet_count /\ index' = index + 1
        /\ index \in Nat /\ packet_len \in Nat
        /\ value' = Xored(Fingerprint(index, Words(PacketLength(index))))
    BY <1>4 DEF FingerprintPacket, fingerprintFixture, HotpathInv, LoopOK
  <2>2. value' = Xored(PrintOf(p))
    BY <2>1, PrintOfPacket
  <2>3. Odd(index)' = Odd(index + 1)
    BY <1>2, <2>1
  <2>4. Odd(index + 1) = IF p \in Odd(index) THEN Odd(index) \ {p} ELSE Odd(index) \cup {p}
    BY <2>1, OddNext
  <2>5. value = {PrintOf(q) : q \in Odd(index)}
    BY <2>1 DEF ValueInv
  <2>6. \A q \in Odd(index) : PrintOf(q) = PrintOf(p) => q = p
    BY DEF Odd, PrintOf, Packet
  <2> HIDE DEF p
  <2>7. PrintOf(p) \in value <=> p \in Odd(index)
    BY <2>5, <2>6
  <2>8. value' = {PrintOf(q) : q \in Odd(index + 1)}
    BY <2>2, <2>4, <2>5, <2>6, <2>7 DEF Xored
  <2> QED BY <2>1, <2>3, <2>8 DEF ValueInv
<1>5. CASE FingerprintReturn
  <2>1. /\ value' = {} /\ index' = 0 /\ packet_count' = packet_count
    BY <1>5 DEF FingerprintReturn, CallAgain, fingerprintFixture
  <2>2. Odd(index)' = {}
    BY <2>1 DEF Odd
  <2> QED BY <2>1, <2>2 DEF ValueInv
<1>6. CASE H264Next /\ UNCHANGED <<fingerprintVars, vp8Vars>>
  <2>1. fixture = "h264" /\ fixture' = fixture
    BY <1>6, H264Frame
  <2> QED BY <1>6, <2>1 DEF ValueInv, fingerprintVars, fingerprintFixture, Fingerprinted
<1>7. CASE Vp8Next /\ UNCHANGED <<fingerprintVars, h264Vars>>
  <2>1. fixture = "vp8" /\ fixture' = fixture
    BY <1>7 DEF Vp8Next, ScanScalarVp8, ScanExtended, ScanSimple, CountTail, Vp8Return, Verdict,
                CallAgain
  <2> QED BY <1>7, <2>1 DEF ValueInv, fingerprintVars, fingerprintFixture, Fingerprinted
<1> QED BY <1>3, <1>4, <1>5, <1>6, <1>7 DEF Next, FingerprintNext

LEMMA Euclid ==
    ASSUME NEW b \in Nat, b > 0, NEW n \in Nat, NEW q \in Nat, NEW r \in Nat,
           q = n \div b, r = n % b
    PROVE  n = b * q + r
  OBVIOUS

\* A content occurs as often as the contents come round.
LEMMA PeriodCount ==
    ASSUME NEW b \in Nat, b > 0, NEW q \in Nat, NEW c \in 0 .. b - 1
    PROVE  LET S == {n \in 0 .. b * q - 1 : n % b = c}
           IN  IsFiniteSet(S) /\ Cardinality(S) = q
<1> DEFINE S == {n \in 0 .. b * q - 1 : n % b = c}
           f == [k \in 1 .. q |-> c + b * (k - 1)]
<1>1. ASSUME NEW k \in 1 .. q PROVE f[k] \in S
  <2>1. PICK d \in Nat : q = (k - 1) + 1 + d
    <3>1. q - k \in Nat /\ q = (k - 1) + 1 + (q - k)
      OBVIOUS
    <3> QED BY <3>1
  <2>2. b * d \in Nat /\ b * (k - 1) \in Nat
    BY <2>1
  <2>3. b * q = b * (k - 1) + b + b * d
    BY <2>1
  <2>4. c + b * (k - 1) \in 0 .. b * q - 1
    BY <2>2, <2>3
  <2>5. (c + b * (k - 1)) % b = c
    <3>1. k - 1 \in Nat
      OBVIOUS
    <3> QED BY <3>1
  <2> QED BY <2>4, <2>5
<1>2. f \in [1 .. q -> S]
  BY <1>1
<1>3. ASSUME NEW j \in 1 .. q, NEW k \in 1 .. q, f[j] = f[k] PROVE j = k
  <2>1. b * (j - 1) = b * (k - 1)
    BY <1>3
  <2> QED BY <2>1
<1>4. ASSUME NEW n \in S PROVE \E k \in 1 .. q : f[k] = n
  <2>1. PICK m \in Nat : m = n \div b
    OBVIOUS
  <2>2. n \in Nat /\ n < b * q /\ n % b = c
    OBVIOUS
  <2>3. n = b * m + c
    BY <2>1, <2>2
  <2>4. m < q
    <3>1. ASSUME m >= q PROVE FALSE
      <4>1. b * m >= b * q
        BY <3>1
      <4> QED BY <2>2, <2>3, <4>1
    <3> QED BY <3>1
  <2>5. m + 1 \in 1 .. q /\ f[m + 1] = c + b * ((m + 1) - 1)
    BY <2>4
  <2>6. (m + 1) - 1 = m
    OBVIOUS
  <2> QED BY <2>3, <2>5, <2>6
<1> HIDE DEF f, S
<1>5. f \in Bijection(1 .. q, S)
  BY <1>2, <1>3, <1>4 DEF Bijection, Injection, Surjection, IsInjective
<1>6. IsFiniteSet(1 .. q) /\ Cardinality(1 .. q) = q
  BY FS_Interval
<1>7. IsFiniteSet(S) /\ Cardinality(S) = q
  BY <1>5, <1>6, FS_Bijection DEF ExistsBijection
<1> QED BY <1>7 DEF S

\* With twice as many packets as contents, or a multiple of that, each of them
\* occurs an even number of times.
LEMMA NoneOdd ==
    ASSUME fixture # "miss_gate_mix", packet_len \in Nat, NEW k \in Nat,
           k % (2 * BytePeriod) = 0
    PROVE  Odd(k) = {}
<1> DEFINE b == BytePeriod
<1>1. b \in Nat /\ b > 0
  BY FingerprintAssumption
<1>2. PICK q \in Nat : q = k \div (2 * b)
  BY <1>1
<1>3. k = (2 * b) * q
  <2>1. PICK t \in Nat : t = 2 * b /\ t > 0
    BY <1>1
  <2>2. k % t = 0 /\ q = k \div t
    BY <1>2, <2>1
  <2>3. PICK r \in Nat : r = k % t
    BY <2>1, <2>2
  <2>4. k = t * q + r
    BY <2>1, <2>2, <2>3, Euclid
  <2>5. r = 0
    BY <2>2, <2>3
  <2> QED BY <2>1, <2>4, <2>5
<1>4. \A n \in 0 .. k - 1 : Packet(n) = <<IF packet_len = 0 THEN 0 ELSE n % b, packet_len>>
  BY DEF Packet, Content, PacketLength, PacketIndex
<1>5. ASSUME NEW p \in {Packet(n) : n \in 0 .. k - 1} PROVE Times(k, p) % 2 = 0
  <2> DEFINE S == {n \in 0 .. k - 1 : Packet(n) = p}
  <2>1. PICK m \in 0 .. k - 1 : p = Packet(m)
    BY <1>5
  <2>2. CASE packet_len = 0
    <3>1. S = 0 .. k - 1
      BY <1>4, <2>1, <2>2
    <3>2. Cardinality(0 .. k - 1) = k
      BY FS_Interval
    <3>3. Times(k, p) = k
      BY <3>1, <3>2 DEF Times
    <3>4. PICK h \in Nat : h = b * q
      BY <1>1, <1>2
    <3>5. k = 2 * h
      BY <1>1, <1>2, <1>3, <3>4
    <3>6. k % 2 = 0
      BY <3>5
    <3> QED BY <3>3, <3>6
  <2>3. CASE packet_len # 0
    <3> DEFINE c == m % b
    <3>1. c \in 0 .. b - 1
      BY <1>1, <2>1
    <3>2. PICK r \in Nat : r = 2 * q
      BY <1>2
    <3>3. k = b * r
      BY <1>1, <1>2, <1>3, <3>2
    <3>4. S = {n \in 0 .. b * r - 1 : n % b = c}
      BY <1>4, <2>1, <2>3, <3>3
    <3> HIDE DEF c, b, S
    <3>5. Cardinality(S) = r
      BY <1>1, <3>1, <3>4, PeriodCount
    <3>6. Times(k, p) = r
      BY <3>5 DEF Times, S
    <3>7. r % 2 = 0
      BY <1>2, <3>2
    <3> QED BY <3>6, <3>7
  <2> QED BY <2>2, <2>3
<1>6. 0 # 1
  OBVIOUS
<1> QED BY <1>5, <1>6 DEF Odd

\* Whichever way the words are loaded, a cycle has the fingerprints of the packets
\* that occur an odd number of times, and none at all when the packets are a
\* multiple of twice the contents.
THEOREM ValueCorrect == Spec => []ValueExact
<1>1. HotpathInv /\ ValueInv => ValueExact
  <2> SUFFICES ASSUME HotpathInv, ValueInv, fixture \in Fingerprinted, index = packet_count
               PROVE  /\ {<<f.content, f.len>> : f \in value} = Odd(packet_count)
                      /\ fixture # "miss_gate_mix" /\ packet_count % (2 * BytePeriod) = 0 =>
                           value = {}
    BY DEF ValueExact, Odd, Times, Packet
  <2>1. packet_count \in Nat /\ packet_len \in Nat
    BY DEF HotpathInv, LoopOK, ValueInv
  <2>2. value = {PrintOf(p) : p \in Odd(packet_count)}
    BY DEF ValueInv
  <2>3. \A p \in Odd(packet_count) : <<PrintOf(p).content, PrintOf(p).len>> = p
    BY DEF Odd, PrintOf, Packet
  <2>4. {<<f.content, f.len>> : f \in value} = Odd(packet_count)
    BY <2>2, <2>3
  <2>5. fixture # "miss_gate_mix" /\ packet_count % (2 * BytePeriod) = 0 => value = {}
    BY <2>1, <2>2, NoneOdd
  <2> QED BY <2>4, <2>5
<1> QED BY <1>1, ValueInit, ValueStep, HotpathCorrect, PTL DEF Spec
=============================================================================
