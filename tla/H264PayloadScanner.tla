-------------------------- MODULE H264PayloadScanner --------------------------
(* src/simd_packet_hotpath.rs: counts the H.264 payloads that start an IDR   *)
(* picture.  The headers of an aggregated payload (STAP-A) are collected in  *)
(* lanes, which are compared all at once when they are full; what is left in *)
(* them after the last header is compared one by one.  The lanes are not     *)
(* cleared in between.                                                       *)
(*                                                                           *)
(* A NAL is its type.  The payloads are those the fixture makes: a single    *)
(* IDR, a single other NAL, an aggregate with an IDR in the middle and one   *)
(* without.  All their lengths are right and none is fragmented, so the      *)
(* arms for a malformed length and for FU-A are not taken.                   *)
(*                                                                           *)
(* A definition marked "Mutant" is a plausible bug in the definition that    *)
(* follows it; it is no part of the model and shows what a property catches. *)
EXTENDS SimdScan

CONSTANTS
    PayloadCount,   \* payload_count, the first argument of new()
    NalCounts       \* the values of stap_a_nal_count, the second one

ASSUME H264Assumption == PayloadCount \in Nat /\ NalCounts \subseteq Nat

\* nal_unit_type: other is the 1 of a NAL that is no IDR.
Other == 1
Idr   == 5

VARIABLES
    stap_a_nal_count,
    aggregate,         \* the scan is inside a STAP-A
    nal,               \* the NALs of it that have been read
    nal_types,         \* the lanes
    nal_type_count     \* the lanes filled since the last comparison

h264Lanes == <<nal_types, nal_type_count>>
h264Vars  == <<stap_a_nal_count, aggregate, nal, h264Lanes>>

-----------------------------------------------------------------------------

\* new() and stap_a_payload: what the payload at an index holds.
IsAggregate(i) == i % 4 \in {2, 3}

NalCount(i) == IF IsAggregate(i) THEN stap_a_nal_count ELSE 1

NalType(i, n) ==
    IF i % 4 = 0 \/ (i % 4 = 2 /\ n = stap_a_nal_count \div 2) THEN Idr ELSE Other

\* simd_any_eq_u8x16: all lanes, whether they were filled or not.
AnyLaneIsIdr(lanes) == \E l \in Lanes : lanes[l] = Idr

\* h264::payload_starts_idr of the o_sfu_rfc crate: an IDR in any place.
PayloadStartsIdr(i) == \E n \in 0 .. NalCount(i) - 1 : NalType(i, n) = Idr

H264Init ==
    /\ stap_a_nal_count \in NalCounts
    /\ aggregate = FALSE
    /\ nal = 0
    /\ nal_types = [l \in Lanes |-> 0]
    /\ nal_type_count = 0

\* One iteration of scalar_cycle.
ScanScalarH264 ==
    /\ fixture = "h264" /\ cycle = "scalar" /\ index < PayloadCount
    /\ Verdict(PayloadStartsIdr(index))
    /\ UNCHANGED h264Vars

\* A payload with one NAL is decided by its type.
ScanSingle ==
    /\ fixture = "h264" /\ cycle = "simd"
    /\ index < PayloadCount /\ ~IsAggregate(index)
    /\ Verdict(NalType(index, 0) = Idr)
    /\ UNCHANGED h264Vars

\* stap_a_contains_idr_simd is called with lanes of its own.
EnterAggregate ==
    /\ fixture = "h264" /\ cycle = "simd"
    /\ index < PayloadCount /\ IsAggregate(index) /\ ~aggregate
    /\ aggregate' = TRUE
    /\ nal' = 0
    /\ nal_types' = [l \in Lanes |-> 0]
    /\ nal_type_count' = 0
    /\ UNCHANGED <<loop, stap_a_nal_count>>

\* Mutant: full lanes are reused without having been compared.
NextNalWithoutCompare ==
    /\ aggregate /\ nal < stap_a_nal_count
    /\ nal' = nal + 1
    /\ nal_types' = [nal_types EXCEPT ![nal_type_count] = NalType(index, nal)]
    /\ nal_type_count' = (nal_type_count + 1) % LaneCount
    /\ UNCHANGED <<loop, stap_a_nal_count, aggregate>>

\* One iteration of the loop over the NALs.  Full lanes that hold an IDR end it.
NextNal ==
    LET filled == [nal_types EXCEPT ![nal_type_count] = NalType(index, nal)]
        full   == nal_type_count + 1 = LaneCount
    IN  /\ aggregate /\ nal < stap_a_nal_count
        /\ nal' = nal + 1
        /\ nal_types' = filled
        /\ nal_type_count' = IF full THEN 0 ELSE nal_type_count + 1
        /\ IF full /\ AnyLaneIsIdr(filled)
           THEN Verdict(TRUE) /\ aggregate' = FALSE
           ELSE UNCHANGED <<loop, aggregate>>
        /\ UNCHANGED stap_a_nal_count

\* Mutant: headers that do not fill the lanes are not looked at.
FinishWithoutTail ==
    /\ aggregate /\ nal = stap_a_nal_count
    /\ Verdict(FALSE)
    /\ aggregate' = FALSE
    /\ UNCHANGED <<stap_a_nal_count, nal, h264Lanes>>

\* After the last NAL only the lanes filled since the last comparison count.
FinishAggregate ==
    /\ aggregate /\ nal = stap_a_nal_count
    /\ Verdict(\E l \in 0 .. nal_type_count - 1 : nal_types[l] = Idr)
    /\ aggregate' = FALSE
    /\ UNCHANGED <<stap_a_nal_count, nal, h264Lanes>>

H264Return ==
    /\ fixture = "h264" /\ index = PayloadCount
    /\ CallAgain
    /\ UNCHANGED h264Vars

H264Next ==
    ScanScalarH264 \/ ScanSingle \/ EnterAggregate \/ NextNal \/ FinishAggregate \/ H264Return

-----------------------------------------------------------------------------
(* Properties. *)

\* While an aggregate is scanned there is a lane for its next header, and the
\* filled lanes alone know whether an IDR has been read: comparing full lanes
\* loses none, and a lane that is left from an earlier comparison and not filled
\* again holds none.
LanesExact ==
    aggregate =>
        /\ nal_type_count < LaneCount
        /\ (\E l \in 0 .. nal_type_count - 1 : nal_types[l] = Idr)
              <=> (\E n \in 0 .. nal - 1 : NalType(index, n) = Idr)
        /\ \A l \in nal_type_count .. LaneCount - 1 : nal_types[l] # Idr

\* The scanner finds exactly the payloads with an IDR in any place, as the
\* production scanner it is compared with in the tests does.
DetectedExact ==
    fixture = "h264" =>
        detected = Cardinality({i \in 0 .. index - 1 : PayloadStartsIdr(i)})
=============================================================================
