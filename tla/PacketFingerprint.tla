--------------------------- MODULE PacketFingerprint ---------------------------
(* src/simd_packet_hotpath.rs and src/routing_miss_fingerprint.rs: the       *)
(* fingerprint of a packet is made from its length, its first and its last   *)
(* eight bytes; a cycle returns the xor over all packets.  The scalar code   *)
(* copies the bytes one by one and pads with zeros, the simd code loads      *)
(* sixteen bytes at either end, without a check, and takes half of them.     *)
(*                                                                           *)
(* A byte is its position in the packet, a word the position in each of its  *)
(* slots, and the rotations keep the three words apart.  Packets with the    *)
(* same length and the same content have the same fingerprint; the xor is    *)
(* the set of the fingerprints that are in it an odd number of times.        *)
(*                                                                           *)
(* A definition marked "Mutant" is a plausible bug in the definition that    *)
(* follows it; it is no part of the model and shows what a property catches. *)
EXTENDS SimdScan

CONSTANTS
    PacketCounts, PacketLengths,   \* the arguments of new()
    MixCycles,                     \* cycle_count, the argument of miss_gate_mix()
    BytePeriod,                    \* deterministic_byte repeats, after 256 packets
    Padding                        \* the zero in a slot without a byte

ASSUME FingerprintAssumption ==
    /\ PacketCounts \cup PacketLengths \cup MixCycles \subseteq Nat
    /\ BytePeriod \in Nat \ {0}
    /\ Padding \notin Int

VARIABLES
    packet_count, packet_len,   \* the packets; of the mix each has its own length
    vector_build,               \* target_arch has vectors: x86_64 or aarch64
    words,                      \* what was made of the last packet
    value                       \* the xor

fingerprintFixture == <<packet_count, packet_len, vector_build>>
fingerprintVars    == <<fingerprintFixture, words, value>>

-----------------------------------------------------------------------------
(* The packets. *)

\* MISS_GATE_PACKET_LENGTH_WEIGHTS
MixLengths == <<1, 8, 15, 16, 17, 32, 64, 96, 160, 256, 512, 900, 1200>>
MixWeights == <<1, 1, 1, 1, 1, 12, 14, 12, 18, 10, 8, 10, 11>>

\* The place of the first packet with the g-th length; the last one ends the cycle.
MixStart == <<0, 1, 2, 3, 4, 5, 17, 31, 43, 61, 71, 79, 89, 100>>

ASSUME MixAssumption == \A g \in 1 .. 13 : MixStart[g + 1] - MixStart[g] = MixWeights[g]

MixGroup(n) ==
    CHOOSE g \in 1 .. 13 :
        n % MixStart[14] >= MixStart[g] /\ n % MixStart[14] < MixStart[g + 1]

PacketLength(n) ==
    IF fixture = "miss_gate_mix" THEN MixLengths[MixGroup(n)] ELSE packet_len

\* packet_index; the mix adds its cycle and the place among equal lengths.
PacketIndex(n) ==
    IF fixture = "miss_gate_mix"
    THEN n + (n \div MixStart[14]) + ((n % MixStart[14]) - MixStart[MixGroup(n)])
    ELSE n

\* deterministic_byte: what tells two packets of the same length apart.
Content(n) == IF PacketLength(n) = 0 THEN 0 ELSE PacketIndex(n) % BytePeriod

-----------------------------------------------------------------------------
(* The words. *)

Slots == 0 .. 7

\* load_u64_padded, from the position from on.
LoadPadded(len, from) ==
    [s \in Slots |-> IF from + s < len THEN from + s ELSE Padding]

SaturatingSub(a, b) == IF a > b THEN a - b ELSE 0

\* packet_fingerprint_scalar: every byte comes from the packet by its iterator.
Scalar(len) ==
    [prefix |-> LoadPadded(len, 0),
     suffix |-> LoadPadded(len, SaturatingSub(len, 8)),
     loaded |-> {}]

\* simd_first_u64 and simd_last_u64: the low half of one vector, the high half
\* of the other.  Without vectors they are the scalar loads.
Vectors(len) ==
    IF ~vector_build THEN Scalar(len)
    ELSE [prefix |-> [s \in Slots |-> s],
          suffix |-> [s \in Slots |-> (len - 16) + (8 + s)],
          loaded |-> 0 .. 15 \cup (len - 16) .. len - 1]

\* Mutant: a packet that fills one word is enough.
SimdFromOneWord(len) == IF len < 8 THEN Scalar(len) ELSE Vectors(len)

\* packet_fingerprint_simd: shorter packets than a vector take the scalar code.
Simd(len) == IF len < 16 THEN Scalar(len) ELSE Vectors(len)

\* routing_miss_packet_fingerprint of o_sfu_core: what
\* assert_production_matches_scalar asserts of it.
Production(len) == Scalar(len)

Words(len) ==
    CASE cycle = "scalar" -> Scalar(len)
      [] cycle = "simd" /\ fixture = "fingerprint" -> Simd(len)
      [] OTHER -> Production(len)

\* len.rotate_left(17) ^ prefix.rotate_left(29) ^ suffix.rotate_left(43)
Fingerprint(n, w) ==
    [content |-> Content(n), len |-> PacketLength(n), prefix |-> w.prefix, suffix |-> w.suffix]

\* Mutant: the bits are collected.
CollectedBits(fingerprint) == value \cup {fingerprint}

\* value ^= fingerprint
Xored(fingerprint) ==
    IF fingerprint \in value THEN value \ {fingerprint} ELSE value \cup {fingerprint}

-----------------------------------------------------------------------------
(* The cycles. *)

NoWords == [prefix |-> LoadPadded(0, 0), suffix |-> LoadPadded(0, 0), loaded |-> {}]

FingerprintInit ==
    /\ packet_count \in
           IF fixture = "miss_gate_mix" THEN {MixStart[14] * c : c \in MixCycles}
           ELSE PacketCounts
    /\ packet_len \in PacketLengths
    /\ vector_build \in BOOLEAN
    /\ words = NoWords
    /\ value = {}

\* The fixtures whose packets are fingerprinted.
Fingerprinted == {"fingerprint", "routing_miss", "miss_gate_mix"}

FingerprintPacket ==
    /\ fixture \in Fingerprinted /\ index < packet_count
    /\ words' = Words(PacketLength(index))
    /\ value' = Xored(Fingerprint(index, words'))
    /\ index' = index + 1
    /\ UNCHANGED <<fixture, cycle, detected, fingerprintFixture>>

FingerprintReturn ==
    /\ fixture \in Fingerprinted /\ index = packet_count
    /\ CallAgain
    /\ words' = NoWords
    /\ value' = {}
    /\ UNCHANGED fingerprintFixture

FingerprintNext == FingerprintPacket \/ FingerprintReturn

-----------------------------------------------------------------------------
(* Properties. *)

\* packet_fingerprint_simd, its SAFETY comments and its test: for every length
\* and on every architecture the words hold the first and the last eight bytes
\* in their order, zeros only behind a packet that is shorter, and a load
\* without a check stays within the packet.
WordsExact ==
    fixture \in Fingerprinted /\ index > 0 =>
        LET len == PacketLength(index - 1)
        IN  /\ words.loaded \subseteq 0 .. len - 1
            /\ \A s \in Slots :
                 /\ words.prefix[s] = IF s < len THEN s ELSE Padding
                 /\ words.suffix[s] = IF len >= 8 THEN len - 8 + s ELSE words.prefix[s]

\* scalar_cycle, simd_cycle, production_cycle: whichever way the words are
\* loaded, a cycle has the xor of the packets it has passed, in which equal
\* packets cancel.  With twice as many packets as there are contents, as the
\* benches have, no cycle returns anything that tells it from another.
ValueExact ==
    fixture \in Fingerprinted /\ index = packet_count =>
        LET packet(n)  == <<Content(n), PacketLength(n)>>
            times(p)   == Cardinality({n \in 0 .. packet_count - 1 : packet(n) = p})
        IN  /\ {<<f.content, f.len>> : f \in value} =
                 {p \in {packet(n) : n \in 0 .. packet_count - 1} : times(p) % 2 = 1}
            /\ fixture # "miss_gate_mix" /\ packet_count % (2 * BytePeriod) = 0 =>
                 value = {}
=============================================================================
