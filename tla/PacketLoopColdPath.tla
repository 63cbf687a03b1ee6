-------------------------- MODULE PacketLoopColdPath --------------------------
(* src/packet_loop_cold_path.rs: three loops over packets, each written      *)
(* twice: with its rare branches inline, and with them moved to cold helper  *)
(* functions.  The benchmark compares their times, which says something only *)
(* if the two account for the packets in the same way.  The model runs the   *)
(* two in step over the packets the fixtures make.                           *)
(*                                                                           *)
(* Counters are numbers.  A checksum is a wrapping sum of 64-bit words; the  *)
(* model keeps a plain sum for each kind of word that is added, with a       *)
(* number in the place of a fingerprint, so that a word that is missing,     *)
(* doubled or of another kind shows.                                         *)
(*                                                                           *)
(* A definition marked "Mutant" is a plausible bug in the definition that    *)
(* follows it; it is no part of the model and shows what a property catches. *)
EXTENDS Integers, FiniteSets

CONSTANTS
    EventCount,         \* the events of the ingress fixture
    RoutePacketCount,   \* the packets and
    DestinationCount,   \* the destinations of the route planning fixture
    StatsPacketCount    \* the packets of the incoming stats fixture

ASSUME ConstantsAssumption ==
    {EventCount, RoutePacketCount, DestinationCount, StatsPacketCount} \subseteq Nat

VARIABLES
    fixture,   \* the fixture whose cycles run
    step,      \* the iterations both loops have made
    inline,    \* the accounting of the inline cycle
    cold       \* the accounting of the cold cycle

vars == <<fixture, step, inline, cold>>

-----------------------------------------------------------------------------

\* The counters of the three accountings, and the kinds of words in their
\* checksums.  A word for a rejected route is named for what is mixed into it.
Counters ==
    {"routed", "dropped", "recovered", "planned", "rejected", "bytes",
     "dirty_rooms", "keyframes"}
RejectWords == {"rid", "media_id", "media_id_rid"}
Words ==
    {"cached_route", "malformed", "recent_miss", "rate_limited", "recovery_miss",
     "planned_route", "room_slot", "payload_len"} \cup RejectWords

NoAccounting == [c \in Counters \cup Words |-> 0]

Count(accounting, counter)   == [accounting EXCEPT ![counter] = @ + 1]
Add(accounting, what, value) == [accounting EXCEPT ![what] = @ + value]

-----------------------------------------------------------------------------
(* Ingress. *)

\* new(): the first divisor that fits decides.
EventKind(i) ==
    IF i % 997 = 0 THEN "Malformed"
    ELSE IF i % 761 = 0 THEN "SourceRateLimited"
    ELSE IF i % 509 = 0 THEN "RecoveryMiss"
    ELSE IF i % 251 = 0 THEN "RecoveryHit"
    ELSE IF i % 193 = 0 THEN "RecentMiss"
    ELSE "CachedRoute"

Fingerprint(i) == i + 1

\* Mutant: the packet is not counted, only mixed into the checksum.
MixCachedRoute(accounting, i) == Add(accounting, "cached_route", Fingerprint(i))

\* account_cached_route, which both cycles inline.
AccountCachedRoute(accounting, i) ==
    Add(Count(accounting, "routed"), "cached_route", Fingerprint(i))

\* inline_rare_branch_cycle: the event at i.
InlineIngress(accounting, i) ==
    CASE EventKind(i) = "CachedRoute" -> AccountCachedRoute(accounting, i)
      [] EventKind(i) = "Malformed" ->
           Add(Count(accounting, "dropped"), "malformed", Fingerprint(i))
      [] EventKind(i) = "RecentMiss" ->
           Add(Count(accounting, "dropped"), "recent_miss", Fingerprint(i))
      [] EventKind(i) = "SourceRateLimited" ->
           Add(Count(accounting, "dropped"), "rate_limited", Fingerprint(i))
      [] EventKind(i) = "RecoveryMiss" ->
           Add(Count(accounting, "dropped"), "recovery_miss", Fingerprint(i))
      [] EventKind(i) = "RecoveryHit" ->
           AccountCachedRoute(Count(accounting, "recovered"), i)

\* account_malformed_datagram, account_recent_miss_drop,
\* account_source_rate_limited_drop and account_recovery_miss_drop differ in
\* the rotation only.
AccountDrop(accounting, i, rotation) ==
    Add(Count(accounting, "dropped"), rotation, Fingerprint(i))

\* account_recovery_hit: counted, then routed.
AccountRecoveryHit(accounting, i) ==
    AccountCachedRoute(Count(accounting, "recovered"), i)

\* cold_rare_branch_cycle: the event at i.
ColdIngress(accounting, i) ==
    CASE EventKind(i) = "CachedRoute"       -> AccountCachedRoute(accounting, i)
      [] EventKind(i) = "Malformed"         -> AccountDrop(accounting, i, "malformed")
      [] EventKind(i) = "RecentMiss"        -> AccountDrop(accounting, i, "recent_miss")
      [] EventKind(i) = "SourceRateLimited" -> AccountDrop(accounting, i, "rate_limited")
      [] EventKind(i) = "RecoveryMiss"      -> AccountDrop(accounting, i, "recovery_miss")
      [] EventKind(i) = "RecoveryHit"       -> AccountRecoveryHit(accounting, i)

-----------------------------------------------------------------------------
(* Route planning.  A route that is not planned adds a word that is not the  *)
(* same in the two cycles.                                                   *)

PacketRid(p) == p % 3
Active(d)    == d % 97 # 0

\* RouteDestination gate: the rid it lets pass, or -1 for Open.
Gate(d) == IF d % 43 = 0 THEN 7 ELSE IF d % 11 = 0 THEN d % 3 ELSE -1

Permits(d, rid) == Gate(d) = -1 \/ Gate(d) = rid

\* The word for a route, whatever is mixed into it.
RouteWord(p, d) == (p * DestinationCount) + d + 1

AccountPlannedRoute(accounting, p, d) ==
    Add(Count(accounting, "planned"), "planned_route", RouteWord(p, d))

Reject(accounting, p, d, word) ==
    Add(Count(accounting, "rejected"), word, RouteWord(p, d))

\* Mutant: the continue after the first reject is missing.
InlineRouteFallsThrough(accounting, p, d) ==
    LET first == IF Active(d) THEN accounting ELSE Reject(accounting, p, d, "rid")
    IN  IF ~Permits(d, PacketRid(p)) THEN Reject(first, p, d, "media_id")
        ELSE IF Active(d) THEN AccountPlannedRoute(first, p, d)
        ELSE first

\* inline_reject_branch_cycle: packet p for destination d.
InlineRoute(accounting, p, d) ==
    IF ~Active(d) THEN Reject(accounting, p, d, "rid")
    ELSE IF ~Permits(d, PacketRid(p)) THEN Reject(accounting, p, d, "media_id")
    ELSE AccountPlannedRoute(accounting, p, d)

\* cold_reject_branch_cycle: packet p for destination d.
ColdRoute(accounting, p, d) ==
    IF Active(d) /\ Permits(d, PacketRid(p))
    THEN AccountPlannedRoute(accounting, p, d)
    ELSE Reject(accounting, p, d, "media_id_rid")

-----------------------------------------------------------------------------
(* Incoming stats. *)

PayloadLen(i)           == 120 + (i % 1180)
RoomSlot(i)             == i % 64
FirstIngress(i)         == i % 1021 = 0
AudioPolicyChanged(i)   == i % 173 = 0
SelectedRidActivated(i) == i % 17 = 0
VideoSource(i)          == i % 5 # 0

\* inline_observation_cycle: the packet at i.
InlineStats(accounting, i) ==
    LET counted == Add(accounting, "bytes", PayloadLen(i))
        audio   == IF AudioPolicyChanged(i)
                   THEN Add(Count(counted, "dirty_rooms"), "room_slot", RoomSlot(i))
                   ELSE counted
        first   == IF FirstIngress(i)
                   THEN Add(audio, "payload_len", PayloadLen(i)) ELSE audio
    IN  IF FirstIngress(i) /\ VideoSource(i) /\ ~SelectedRidActivated(i)
        THEN Count(first, "keyframes")
        ELSE first

AccountAudioPolicyChange(accounting, i) ==
    Add(Count(accounting, "dirty_rooms"), "room_slot", RoomSlot(i))

AccountFirstIngress(accounting, i) ==
    LET mixed == Add(accounting, "payload_len", PayloadLen(i))
    IN  IF VideoSource(i) /\ ~SelectedRidActivated(i)
        THEN Count(mixed, "keyframes") ELSE mixed

\* cold_observation_cycle: the packet at i.
ColdStats(accounting, i) ==
    LET counted == Add(accounting, "bytes", PayloadLen(i))
        audio   == IF AudioPolicyChanged(i)
                   THEN AccountAudioPolicyChange(counted, i) ELSE counted
    IN  IF FirstIngress(i) THEN AccountFirstIngress(audio, i) ELSE audio

-----------------------------------------------------------------------------

Steps ==
    [ingress |-> EventCount,
     route   |-> RoutePacketCount * DestinationCount,
     stats   |-> StatsPacketCount]

Init ==
    /\ fixture \in DOMAIN Steps
    /\ step = 0
    /\ inline = NoAccounting
    /\ cold = NoAccounting

Advance(name) ==
    /\ fixture = name
    /\ step < Steps[name]
    /\ step' = step + 1
    /\ UNCHANGED fixture

IngressEvent ==
    /\ Advance("ingress")
    /\ inline' = InlineIngress(inline, step)
    /\ cold' = ColdIngress(cold, step)

\* Packets in the outer loop, destinations in the inner one.
RouteAttempt ==
    LET p == step \div DestinationCount
        d == step % DestinationCount
    IN  /\ Advance("route")
        /\ inline' = InlineRoute(inline, p, d)
        /\ cold' = ColdRoute(cold, p, d)

StatsPacket ==
    /\ Advance("stats")
    /\ inline' = InlineStats(inline, step)
    /\ cold' = ColdStats(cold, step)

\* The cycles have returned; they are called again with a fresh accounting.
Done ==
    /\ step = Steps[fixture]
    /\ step' = 0
    /\ inline' = NoAccounting
    /\ cold' = NoAccounting
    /\ UNCHANGED fixture

Next == IngressEvent \/ RouteAttempt \/ StatsPacket \/ Done

Spec == Init /\ [][Next]_vars

-----------------------------------------------------------------------------
(* Properties. *)

\* Moving a rare branch out of line changes no counter and no word of a
\* checksum, after any number of packets, but for what is mixed into the word of
\* a rejected route: each such route adds one in both cycles.
SameAccounting ==
    /\ \A c \in Counters \cup (Words \ RejectWords) : inline[c] = cold[c]
    /\ inline["rid"] + inline["media_id"] = cold["media_id_rid"]

Of(kind) == Cardinality({i \in 0 .. step - 1 : EventKind(i) = kind})

\* Every event is either routed or dropped, also the one that is recovered;
\* every attempt is planned or rejected, also when both reject branches apply; a
\* keyframe is asked for at most once for a first packet.
AccountedOnce ==
    /\ fixture = "ingress" =>
        /\ inline["routed"] + inline["dropped"] = step
        /\ inline["recovered"] = Of("RecoveryHit")
        /\ inline["routed"] = Of("CachedRoute") + inline["recovered"]
    /\ fixture = "route" => inline["planned"] + inline["rejected"] = step
    /\ fixture = "stats" =>
        inline["keyframes"] <= Cardinality({i \in 0 .. step - 1 : FirstIngress(i)})
=============================================================================
