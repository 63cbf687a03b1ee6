-------------------------- MODULE LocalVp8FanoutProofs --------------------------
(* Every destination of the VP8 fanout gets the whole payload with its own   *)
(* indices, in every cycle and for every number of destinations.             *)
EXTENDS LocalVp8Fanout, TLAPS

\* What a cycle has counted after index destinations, and that the descriptor
\* which the cached cycle parsed is there.
Counted ==
    /\ written_bytes = 1200 * index
    /\ descriptor_count = IF cycle = "current_parse" \/ index = 0 THEN index ELSE 1
    /\ running /\ cycle = "cached_descriptor" => descriptor # None

FanoutInv == TypeOK /\ EachItsOwn /\ Counted /\ ResultExact

-----------------------------------------------------------------------------

LEMMA BaseFacts ==
    /\ Base \in Frames /\ Base # Empty
    /\ Base.len = 1200
    /\ \A i \in Nat : [picture_id |-> i % 32768, tl0_pic_idx |-> i % 256, len |-> 1200]
                          \in Frames
<1>1. Base \in Frames /\ Base.len = 1200
  BY DEF Base, Frames
<1>2. ASSUME NEW i \in Nat
      PROVE  [picture_id |-> i % 32768, tl0_pic_idx |-> i % 256, len |-> 1200] \in Frames
  BY SMTT(30) DEF Frames
<1> QED BY <1>1, <1>2, ConstantsAssumption

LEMMA InitFanout == Init => FanoutInv
<1> SUFFICES ASSUME Init PROVE FanoutInv
  OBVIOUS
<1>1. destination_count \in Nat
  BY ConstantsAssumption DEF Init
<1>2. TypeOK
  <2>1. sent \in Seq(Frames) /\ Len(sent) = 0
    BY DEF Init
  <2>2. shared_payload \in Payloads /\ running \in BOOLEAN
    BY DEF Init, Payloads
  <2>3. written_bytes = 1200 * Len(sent) /\ result \in Nat
    BY <2>1 DEF Init
  <2>4. index \in 0 .. destination_count /\ descriptor_count \in 0 .. index
    BY <1>1 DEF Init
  <2> QED BY <2>1, <2>2, <2>3, <2>4 DEF Init, TypeOK
<1>3. EachItsOwn
  BY <1>1 DEF Init, EachItsOwn
<1>4. Counted
  BY DEF Init, Counted
<1>5. ResultExact
  BY <1>1 DEF Init, ResultExact
<1> QED BY <1>2, <1>3, <1>4, <1>5 DEF FanoutInv

\* A new cycle starts from a payload that has been reset.
LEMMA CallStep ==
    ASSUME FanoutInv, Call PROVE FanoutInv'
<1>1. destination_count \in Nat /\ destination_count' = destination_count
  BY ConstantsAssumption DEF FanoutInv, TypeOK, Call
<1>2. /\ shared_payload' = Base /\ index' = 0 /\ sent' = <<>> /\ running' = TRUE
      /\ written_bytes' = 0 /\ descriptor_count' = 0 /\ cycle' \in Cycles
      /\ result' = result
  BY DEF Call
<1>3. /\ descriptor' \in {"descriptor", None}
      /\ cycle' = "cached_descriptor" => descriptor' # None
  BY <1>2, BaseFacts, ConstantsAssumption DEF Call, PayloadDescriptor
<1>4. TypeOK'
  BY <1>1, <1>2, <1>3, BaseFacts DEF FanoutInv, TypeOK, Payloads
<1>5. EachItsOwn' /\ Counted' /\ ResultExact'
  BY <1>1, <1>2, <1>3 DEF EachItsOwn, Counted, ResultExact
<1> QED BY <1>4, <1>5 DEF FanoutInv

\* A destination whose turn it is gets the payload, whichever cycle sends it.
LEMMA SendStep ==
    ASSUME FanoutInv, running, index < destination_count, Send,
           index' = index + 1,
           UNCHANGED <<destination_count, cycle, running, descriptor, result>>,
           descriptor_count' = IF cycle = "current_parse" THEN descriptor_count + 1 ELSE 1
    PROVE  FanoutInv'
<1> DEFINE Frame(i) == [picture_id |-> i % 32768, tl0_pic_idx |-> i % 256, len |-> 1200]
<1>1. /\ destination_count \in Nat /\ index \in Nat /\ index + 1 <= destination_count
      /\ cycle \in Cycles
  BY ConstantsAssumption DEF FanoutInv, TypeOK
<1>2. shared_payload = Base /\ Len(sent) = index /\ sent \in Seq(Frames)
  BY DEF FanoutInv, EachItsOwn, TypeOK
<1>3. Rewritten(shared_payload, index) = Frame(index) /\ Length(shared_payload) = 1200
  BY <1>2, BaseFacts DEF Rewritten, Length
<1>4. Frame(index) \in Frames
  BY <1>1, BaseFacts
<1> HIDE DEF Frame
<1>5. sent' = Append(sent, Frame(index)) /\ written_bytes' = written_bytes + 1200
  BY <1>3 DEF Send
<1>6. /\ sent' \in Seq(Frames) /\ Len(sent') = index + 1
      /\ \A i \in 1 .. index : sent'[i] = sent[i]
      /\ sent'[index + 1] = Frame(index)
  BY <1>1, <1>2, <1>4, <1>5
<1>7. written_bytes' = 1200 * (index + 1)
  BY <1>1, <1>5 DEF FanoutInv, Counted
<1>8. shared_payload' = IF index + 1 = destination_count THEN Empty ELSE Base
  BY <1>2 DEF Send, TakesPayload
<1>9. Counted'
  BY <1>1, <1>7 DEF FanoutInv, Counted, Cycles
<1>10. TypeOK'
  <2>1. shared_payload' \in Payloads
    BY <1>8, BaseFacts DEF Payloads
  <2>2. descriptor_count' \in 0 .. index'
    BY <1>1, <1>9 DEF Counted
  <2> QED BY <1>1, <1>6, <1>7, <2>1, <2>2 DEF FanoutInv, TypeOK
<1>11. EachItsOwn'
  <2>1. ASSUME NEW i \in 1 .. index + 1 PROVE sent'[i] = Frame(i - 1)
    <3>1. CASE i = index + 1
      BY <1>1, <1>6, <3>1
    <3>2. CASE i \in 1 .. index
      BY <1>6, <3>2 DEF FanoutInv, EachItsOwn, Frame
    <3> QED BY <1>1, <3>1, <3>2
  <2> QED BY <1>1, <1>6, <1>8, <2>1 DEF EachItsOwn, Frame
<1>12. ResultExact'
  BY DEF ResultExact
<1> QED BY <1>9, <1>10, <1>11, <1>12 DEF FanoutInv

LEMMA StepFanout == FanoutInv /\ [Next]_vars => FanoutInv'
<1> SUFFICES ASSUME FanoutInv, [Next]_vars PROVE FanoutInv'
  OBVIOUS
<1>1. CASE Call
  BY <1>1, CallStep
<1>2. CASE CurrentParse
  <2>1. PayloadDescriptor(shared_payload) # None
    BY <1>2, BaseFacts, ConstantsAssumption
    DEF CurrentParse, FanoutInv, EachItsOwn, PayloadDescriptor
  <2> QED BY <1>2, <2>1, SendStep DEF CurrentParse
<1>3. CASE CachedDescriptor
  <2>1. descriptor # None
    BY <1>3 DEF CachedDescriptor, FanoutInv, Counted
  <2> QED BY <1>3, <2>1, SendStep DEF CachedDescriptor
<1>4. CASE Return
  <2>1. destination_count \in Nat /\ index = destination_count /\ cycle \in Cycles
    BY <1>4, ConstantsAssumption DEF FanoutInv, TypeOK, Return
  <2>2. result' = written_bytes + descriptor_count /\ running' = FALSE
    BY <1>4 DEF Return
  <2>3. UNCHANGED <<destination_count, shared_payload, cycle, index, descriptor,
                    descriptor_count, written_bytes, sent>>
    BY <1>4 DEF Return
  <2>4. Counted' /\ EachItsOwn'
    BY <2>2, <2>3 DEF FanoutInv, Counted, EachItsOwn
  <2>5. result' \in Nat /\ ResultExact'
    BY <2>1, <2>2, <2>3 DEF FanoutInv, Counted, ResultExact, Cycles
  <2>6. TypeOK'
    <3>1. /\ (destination_count \in Counts)' /\ (shared_payload \in Payloads)'
          /\ (cycle \in Cycles)' /\ (index \in 0 .. destination_count)'
          /\ (descriptor \in {"descriptor", None})' /\ (descriptor_count \in 0 .. index)'
      BY <2>3 DEF FanoutInv, TypeOK
    <3>2. (written_bytes = 1200 * Len(sent))' /\ (sent \in Seq(Frames))'
      BY <2>3 DEF FanoutInv, TypeOK
    <3>3. (running \in BOOLEAN)' /\ (result \in Nat)'
      BY <2>2, <2>5
    <3> QED BY <3>1, <3>2, <3>3 DEF TypeOK
  <2> QED BY <2>4, <2>5, <2>6 DEF FanoutInv
<1>5. CASE UNCHANGED vars
  <2>1. TypeOK' /\ EachItsOwn'
    BY <1>5 DEF vars, FanoutInv, TypeOK, EachItsOwn
  <2>2. Counted' /\ ResultExact'
    BY <1>5 DEF vars, FanoutInv, Counted, ResultExact
  <2> QED BY <2>1, <2>2 DEF FanoutInv
<1> QED BY <1>1, <1>2, <1>3, <1>4, <1>5 DEF Next

-----------------------------------------------------------------------------

\* Every destination gets the whole payload with its own picture id and TL0
\* index, however many there are.
THEOREM EachItsOwnCorrect == Spec => []EachItsOwn
<1>1. FanoutInv => EachItsOwn
  BY DEF FanoutInv
<1> QED BY <1>1, InitFanout, StepFanout, PTL DEF Spec

\* Both cycles return the bytes they sent and the descriptors they parsed.
THEOREM FanoutResultCorrect == Spec => []ResultExact
<1>1. FanoutInv => ResultExact
  BY DEF FanoutInv
<1> QED BY <1>1, InitFanout, StepFanout, PTL DEF Spec
=============================================================================
