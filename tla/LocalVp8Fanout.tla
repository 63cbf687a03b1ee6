---------------------------- MODULE LocalVp8Fanout ----------------------------
(* src/local_vp8_fanout.rs: one VP8 payload is sent to every local           *)
(* destination, each with a picture id and a TL0 index of its own.  All but  *)
(* the last destination get a clone of the shared payload; the last takes    *)
(* the payload itself and leaves it empty until the next cycle resets it.    *)
(* One cycle parses the descriptor for each destination, the other once.     *)
(*                                                                           *)
(* Of a payload the model keeps its length and the two fields that are       *)
(* rewritten.                                                                *)
(*                                                                           *)
(* A definition marked "Mutant" is a plausible bug in the definition that    *)
(* follows it; it is no part of the model and shows what a property catches. *)
EXTENDS Integers, Sequences

CONSTANTS
    Counts,   \* the destination counts new() is called with
    Empty,    \* a payload without bytes
    None      \* no descriptor

\* vp8_payload_with_rid_metadata(1_200): picture id 0x0031, TL0 index 5.
Base == [picture_id |-> 49, tl0_pic_idx |-> 5, len |-> 1200]

Cycles == {"current_parse", "cached_descriptor"}

\* The payloads that have bytes.
Frames == [picture_id : 0 .. 32767, tl0_pic_idx : 0 .. 255, len : {1200}]

ASSUME ConstantsAssumption ==
    Counts \subseteq Nat /\ Empty \notin Frames /\ None # "descriptor"

VARIABLES
    destination_count,
    shared_payload,
    cycle,              \* the cycle that runs, or the last one that ran
    running,
    index,              \* the next destination
    descriptor,         \* what the cached cycle parsed before its loop
    descriptor_count,
    written_bytes,
    sent,               \* history: the payloads that the destinations got
    result              \* what the last cycle returned

vars == <<destination_count, shared_payload, cycle, running, index, descriptor,
          descriptor_count, written_bytes, sent, result>>

-----------------------------------------------------------------------------

Length(payload) == IF payload = Empty THEN 0 ELSE payload.len

\* vp8::payload_descriptor of the o_sfu_rfc crate: an empty payload has none.
PayloadDescriptor(payload) == IF payload = Empty THEN None ELSE "descriptor"

\* vp8::rewrite_payload_descriptor: in place, the length does not change.
Rewritten(payload, i) ==
    IF payload = Empty THEN Empty
    ELSE [picture_id |-> i % 32768, tl0_pic_idx |-> i % 256, len |-> payload.len]

Init ==
    /\ destination_count \in Counts
    /\ shared_payload = Empty
    /\ cycle \in Cycles
    /\ running = FALSE
    /\ index = 0
    /\ descriptor = None
    /\ descriptor_count = 0
    /\ written_bytes = 0
    /\ sent = <<>>
    /\ result = 0

\* A cycle is called: reset_shared_payload, and the cached one parses the
\* descriptor before its loop.
Call ==
    /\ ~running
    /\ running' = TRUE
    /\ cycle' \in Cycles
    /\ shared_payload' = Base
    /\ descriptor' = IF cycle' = "cached_descriptor"
                     THEN PayloadDescriptor(shared_payload') ELSE None
    /\ index' = 0
    /\ descriptor_count' = 0
    /\ written_bytes' = 0
    /\ sent' = <<>>
    /\ UNCHANGED <<destination_count, result>>

\* Mutant: the payload is taken one destination too early.
TakenEarly == index + 2 >= destination_count

\* write_payload_for_destination: the last destination takes the payload.
TakesPayload == index + 1 = destination_count

\* The payload goes to a destination whose descriptor was parsed.
Send ==
    /\ sent' = Append(sent, Rewritten(shared_payload, index))
    /\ written_bytes' = written_bytes + Length(shared_payload)
    /\ shared_payload' = IF TakesPayload THEN Empty ELSE shared_payload

\* One iteration of current_parse_per_destination_cycle.
CurrentParse ==
    /\ running /\ cycle = "current_parse" /\ index < destination_count
    /\ IF PayloadDescriptor(shared_payload) = None
       THEN UNCHANGED <<descriptor_count, written_bytes, sent, shared_payload>>
       ELSE descriptor_count' = descriptor_count + 1 /\ Send
    /\ index' = index + 1
    /\ UNCHANGED <<destination_count, cycle, running, descriptor, result>>

\* Mutant: every destination counts a descriptor.
CachedDescriptorCountsAll ==
    /\ running /\ cycle = "cached_descriptor" /\ index < destination_count
    /\ IF descriptor = None
       THEN UNCHANGED <<descriptor_count, written_bytes, sent, shared_payload>>
       ELSE descriptor_count' = descriptor_count + 1 /\ Send
    /\ index' = index + 1
    /\ UNCHANGED <<destination_count, cycle, running, descriptor, result>>

\* One iteration of cached_descriptor_cycle.
CachedDescriptor ==
    /\ running /\ cycle = "cached_descriptor" /\ index < destination_count
    /\ IF descriptor = None
       THEN UNCHANGED <<descriptor_count, written_bytes, sent, shared_payload>>
       ELSE descriptor_count' = 1 /\ Send
    /\ index' = index + 1
    /\ UNCHANGED <<destination_count, cycle, running, descriptor, result>>

Return ==
    /\ running /\ index = destination_count
    /\ running' = FALSE
    /\ result' = written_bytes + descriptor_count
    /\ UNCHANGED <<destination_count, shared_payload, cycle, index, descriptor,
                   descriptor_count, written_bytes, sent>>

Next == Call \/ CurrentParse \/ CachedDescriptor \/ Return

Spec == Init /\ [][Next]_vars

-----------------------------------------------------------------------------
(* Properties. *)

Payloads == Frames \cup {Empty}

\* The payload is empty only before the first cycle and when the last
\* destination has taken it.
TypeOK ==
    /\ destination_count \in Counts
    /\ shared_payload \in Payloads
    /\ cycle \in Cycles
    /\ running \in BOOLEAN
    /\ index \in 0 .. destination_count
    /\ descriptor \in {"descriptor", None}
    /\ descriptor_count \in 0 .. index
    /\ written_bytes = 1200 * Len(sent)
    /\ sent \in Seq(Frames)
    /\ result \in Nat

\* Every destination the loop has passed got the whole payload with its own
\* picture id and TL0 index: the rewrites go to clones and never show in what a
\* later destination gets, and the payload is not gone before its turn.  The
\* last one is reached in every cycle, although the one before left it empty.
EachItsOwn ==
    /\ Len(sent) = index
    /\ \A i \in 1 .. index :
         sent[i] = [picture_id |-> (i - 1) % 32768, tl0_pic_idx |-> (i - 1) % 256,
                    len |-> 1200]
    /\ running /\ index < destination_count => shared_payload = Base

\* A cycle returns the bytes of one payload for each destination, and the number
\* of parses it made: one for each destination, or one if there are any.
ResultExact ==
    ~running /\ index = destination_count =>
        result = IF destination_count = 0 THEN 0
                 ELSE 1200 * destination_count
                      + (IF cycle = "current_parse" THEN destination_count ELSE 1)
=============================================================================
