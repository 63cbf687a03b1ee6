--------------------------- MODULE TwinCyclesProofs ---------------------------
(* Two fixtures that write the same work twice and compare the times.        *)
(* packet_loop_cold_path.rs: for any number of packets, the loop with its    *)
(* rare branches inline and the one with cold helpers keep the same          *)
(* accounting, and neither counts a packet twice.  source_policy_refresh.rs: *)
(* for any number of users and sources, fresh and cached ladders plan the    *)
(* same, and the scores are the closed forms of the model.                   *)
EXTENDS PacketLoopColdPath, SourcePolicyRefresh, FiniteSetTheorems, TLAPS

-----------------------------------------------------------------------------
(* Accountings. *)

Keys        == Counters \cup Words
Accountings == [Keys -> Int]

\* What SameAccounting says of the accountings a and b.
Same(a, b) ==
    /\ \A c \in Counters \cup (Words \ RejectWords) : a[c] = b[c]
    /\ a["rid"] + a["media_id"] = b["media_id_rid"]

LEMMA Names ==
    /\ \A c \in Counters : c \in Keys
    /\ \A w \in Words : w \in Keys
    /\ \A c \in Counters \cup (Words \ RejectWords) : c \in Keys /\ c \notin RejectWords
    /\ \A w \in RejectWords : w \in Keys /\ w \notin Counters
BY DEF Keys, Counters, Words, RejectWords

LEMMA AddFacts ==
    ASSUME NEW a \in Accountings, NEW what \in Keys, NEW value \in Int
    PROVE  /\ Add(a, what, value) \in Accountings
           /\ Add(a, what, value)[what] = a[what] + value
           /\ \A c \in Keys \ {what} : Add(a, what, value)[c] = a[c]
BY DEF Add, Accountings

LEMMA CountFacts ==
    ASSUME NEW a \in Accountings, NEW counter \in Keys
    PROVE  /\ Count(a, counter) \in Accountings
           /\ Count(a, counter)[counter] = a[counter] + 1
           /\ \A c \in Keys \ {counter} : Count(a, counter)[c] = a[c]
BY DEF Count, Accountings

\* A word or a count that both accountings get keeps them the same.
LEMMA SameAdd ==
    ASSUME NEW a \in Accountings, NEW b \in Accountings, Same(a, b),
           NEW what \in Counters \cup (Words \ RejectWords), NEW value \in Int
    PROVE  Same(Add(a, what, value), Add(b, what, value))
<1>1. what \in Keys /\ what \notin RejectWords
  BY Names
<1>2. \A c \in Counters \cup (Words \ RejectWords) :
        Add(a, what, value)[c] = Add(b, what, value)[c]
  BY <1>1, AddFacts, Names DEF Same
<1>3. \A w \in RejectWords : w \in Keys \ {what}
  BY <1>1, Names
<1>4. "rid" \in RejectWords /\ "media_id" \in RejectWords /\ "media_id_rid" \in RejectWords
  BY DEF RejectWords
<1>5. /\ Add(a, what, value)["rid"] = a["rid"]
      /\ Add(a, what, value)["media_id"] = a["media_id"]
      /\ Add(b, what, value)["media_id_rid"] = b["media_id_rid"]
  BY <1>1, <1>3, <1>4, AddFacts
<1> QED BY <1>2, <1>5 DEF Same

LEMMA SameCount ==
    ASSUME NEW a \in Accountings, NEW b \in Accountings, Same(a, b),
           NEW counter \in Counters
    PROVE  Same(Count(a, counter), Count(b, counter))
<1>1. Count(a, counter) = Add(a, counter, 1) /\ Count(b, counter) = Add(b, counter, 1)
  BY DEF Count, Add
<1>2. Same(Add(a, counter, 1), Add(b, counter, 1))
  BY SameAdd
<1> QED BY <1>1, <1>2

LEMMA CountThenAdd ==
    ASSUME NEW a \in Accountings, NEW counter \in Counters,
           NEW what \in Words, NEW value \in Int
    PROVE  /\ Add(Count(a, counter), what, value) \in Accountings
           /\ Add(Count(a, counter), what, value)[counter] = a[counter] + 1
           /\ \A c \in Counters \ {counter} : Add(Count(a, counter), what, value)[c] = a[c]
<1>1. what \notin Counters
  BY DEF Counters, Words, RejectWords
<1>2. counter \in Keys /\ what \in Keys /\ counter # what
  BY <1>1, Names
<1>3. Count(a, counter) \in Accountings
  BY <1>2, CountFacts
<1> DEFINE counted == Count(a, counter)
<1>4. /\ counted \in Accountings
      /\ counted[counter] = a[counter] + 1
      /\ \A c \in Keys \ {counter} : counted[c] = a[c]
  BY <1>2, CountFacts
<1> HIDE DEF counted
<1>5. /\ Add(counted, what, value) \in Accountings
      /\ \A c \in Keys \ {what} : Add(counted, what, value)[c] = counted[c]
  BY <1>2, <1>4, AddFacts
<1>6. Add(counted, what, value)[counter] = a[counter] + 1
  BY <1>2, <1>4, <1>5
<1>7. \A c \in Counters \ {counter} : Add(counted, what, value)[c] = a[c]
  BY <1>1, <1>4, <1>5, Names
<1> QED BY <1>5, <1>6, <1>7 DEF counted

LEMMA SameCountThenAdd ==
    ASSUME NEW a \in Accountings, NEW b \in Accountings, Same(a, b),
           NEW counter \in Counters, NEW what \in Words \ RejectWords, NEW value \in Int
    PROVE  Same(Add(Count(a, counter), what, value), Add(Count(b, counter), what, value))
<1>1. counter \in Keys
  BY Names
<1>2. Count(a, counter) \in Accountings /\ Count(b, counter) \in Accountings
  BY <1>1, CountFacts
<1>3. Same(Count(a, counter), Count(b, counter))
  BY SameCount
<1> QED BY <1>2, <1>3, SameAdd

-----------------------------------------------------------------------------
(* Ingress. *)

LEMMA Kinds ==
    ASSUME NEW i \in Nat
    PROVE  /\ EventKind(i) \in {"Malformed", "SourceRateLimited", "RecoveryMiss",
                                "RecoveryHit", "RecentMiss", "CachedRoute"}
           /\ Fingerprint(i) \in Int
BY DEF EventKind, Fingerprint

\* What the inline loop counts for an event.
LEMMA IngressCounts ==
    ASSUME NEW a \in Accountings, NEW i \in Nat
    PROVE  LET after  == InlineIngress(a, i)
               routed == EventKind(i) \in {"CachedRoute", "RecoveryHit"}
           IN  /\ after \in Accountings
               /\ after["routed"] = a["routed"] + (IF routed THEN 1 ELSE 0)
               /\ after["dropped"] = a["dropped"] + (IF routed THEN 0 ELSE 1)
               /\ after["recovered"]
                    = a["recovered"] + (IF EventKind(i) = "RecoveryHit" THEN 1 ELSE 0)
<1> DEFINE after == InlineIngress(a, i)
           f     == Fingerprint(i)
           kind  == EventKind(i)
<1>1. f \in Int /\ kind \in {"Malformed", "SourceRateLimited", "RecoveryMiss",
                             "RecoveryHit", "RecentMiss", "CachedRoute"}
  BY Kinds
<1>2. /\ "routed" \in Counters /\ "dropped" \in Counters /\ "recovered" \in Counters
      /\ "malformed" \in Words /\ "recent_miss" \in Words /\ "rate_limited" \in Words
      /\ "recovery_miss" \in Words /\ "cached_route" \in Words
  BY DEF Counters, Words
<1>3. \A c \in {"routed", "dropped", "recovered"} : a[c] \in Int
  BY <1>2, Names DEF Accountings
<1>4. /\ kind = "CachedRoute" => after = Add(Count(a, "routed"), "cached_route", f)
      /\ kind = "Malformed" => after = Add(Count(a, "dropped"), "malformed", f)
      /\ kind = "RecentMiss" => after = Add(Count(a, "dropped"), "recent_miss", f)
      /\ kind = "SourceRateLimited" => after = Add(Count(a, "dropped"), "rate_limited", f)
      /\ kind = "RecoveryMiss" => after = Add(Count(a, "dropped"), "recovery_miss", f)
      /\ kind = "RecoveryHit" =>
           after = Add(Count(Count(a, "recovered"), "routed"), "cached_route", f)
  BY DEF InlineIngress, AccountCachedRoute
<1> HIDE DEF after, f, kind
<1>5. CASE kind = "CachedRoute"
  <2> DEFINE routed == Add(Count(a, "routed"), "cached_route", f)
  <2>1. /\ routed \in Accountings
        /\ routed["routed"] = a["routed"] + 1
        /\ \A c \in Counters \ {"routed"} : routed[c] = a[c]
    BY <1>1, <1>2, CountThenAdd
  <2>2. after = routed
    BY <1>4, <1>5
  <2> HIDE DEF routed
  <2> QED BY <1>2, <1>3, <1>5, <2>1, <2>2 DEF after, kind
<1>6. CASE kind \in {"Malformed", "RecentMiss", "SourceRateLimited", "RecoveryMiss"}
  <2>1. PICK w \in Words : after = Add(Count(a, "dropped"), w, f)
    BY <1>2, <1>4, <1>6
  <2> DEFINE dropped == Add(Count(a, "dropped"), w, f)
  <2>2. /\ dropped \in Accountings
        /\ dropped["dropped"] = a["dropped"] + 1
        /\ \A c \in Counters \ {"dropped"} : dropped[c] = a[c]
    BY <1>1, <1>2, CountThenAdd
  <2> HIDE DEF dropped
  <2> QED BY <1>2, <1>3, <1>6, <2>1, <2>2 DEF after, kind, dropped
<1>7. CASE kind = "RecoveryHit"
  <2> DEFINE recovered == Count(a, "recovered")
  <2>1. /\ recovered \in Accountings
        /\ recovered["recovered"] = a["recovered"] + 1
        /\ \A c \in Keys \ {"recovered"} : recovered[c] = a[c]
    BY <1>2, Names, CountFacts
  <2> DEFINE routed == Add(Count(recovered, "routed"), "cached_route", f)
  <2>2. after = routed
    BY <1>4, <1>7
  <2> HIDE DEF recovered
  <2>r. /\ routed \in Accountings
        /\ routed["routed"] = recovered["routed"] + 1
        /\ \A c \in Counters \ {"routed"} : routed[c] = recovered[c]
    <3>1. recovered \in Accountings /\ "routed" \in Counters
      BY <1>2, <2>1
    <3>2. "cached_route" \in Words /\ f \in Int
      BY <1>1, <1>2
    <3> QED BY <3>1, <3>2, CountThenAdd
  <2> HIDE DEF routed
  <2>3. /\ after \in Accountings
        /\ after["routed"] = recovered["routed"] + 1
        /\ \A c \in Counters \ {"routed"} : after[c] = recovered[c]
    BY <2>2, <2>r
  <2>4. /\ after["routed"] = a["routed"] + 1
        /\ after["recovered"] = a["recovered"] + 1
        /\ after["dropped"] = a["dropped"]
    BY <1>2, <2>1, <2>3, Names
  <2> QED BY <1>3, <1>7, <2>3, <2>4 DEF after, kind
<1> QED BY <1>1, <1>5, <1>6, <1>7

LEMMA SameIngress ==
    ASSUME NEW a \in Accountings, NEW b \in Accountings, Same(a, b), NEW i \in Nat
    PROVE  /\ ColdIngress(b, i) \in Accountings
           /\ Same(InlineIngress(a, i), ColdIngress(b, i))
<1> DEFINE f    == Fingerprint(i)
           kind == EventKind(i)
<1>1. ColdIngress(b, i) = InlineIngress(b, i)
  BY DEF ColdIngress, InlineIngress, AccountDrop, AccountRecoveryHit
<1>2. ColdIngress(b, i) \in Accountings
  BY <1>1, IngressCounts
<1>3. f \in Int /\ kind \in {"Malformed", "SourceRateLimited", "RecoveryMiss",
                             "RecoveryHit", "RecentMiss", "CachedRoute"}
  BY Kinds
<1>4. /\ "routed" \in Counters /\ "dropped" \in Counters /\ "recovered" \in Counters
      /\ \A w \in {"malformed", "recent_miss", "rate_limited", "recovery_miss",
                   "cached_route"} : w \in Words \ RejectWords
  BY DEF Counters, Words, RejectWords
<1>5. CASE kind = "RecoveryHit"
  <2>1. /\ Count(a, "recovered") \in Accountings /\ Count(b, "recovered") \in Accountings
        /\ Same(Count(a, "recovered"), Count(b, "recovered"))
    BY <1>4, CountFacts, SameCount, Names
  <2>2. Same(Add(Count(Count(a, "recovered"), "routed"), "cached_route", f),
             Add(Count(Count(b, "recovered"), "routed"), "cached_route", f))
    BY <1>3, <1>4, <2>1, SameCountThenAdd
  <2>3. \A x : InlineIngress(x, i)
                 = Add(Count(Count(x, "recovered"), "routed"), "cached_route", f)
    BY <1>5 DEF InlineIngress, AccountCachedRoute
  <2> QED BY <1>1, <1>2, <2>2, <2>3
<1>6. CASE kind # "RecoveryHit"
  <2>1. PICK counter \in Counters, w \in Words \ RejectWords :
          \A x : InlineIngress(x, i) = Add(Count(x, counter), w, f)
    BY <1>3, <1>4, <1>6 DEF InlineIngress, AccountCachedRoute
  <2>2. Same(Add(Count(a, counter), w, f), Add(Count(b, counter), w, f))
    BY <1>3, SameCountThenAdd
  <2> QED BY <1>1, <1>2, <2>1, <2>2
<1> QED BY <1>5, <1>6

-----------------------------------------------------------------------------
(* Route planning. *)

LEMMA PlannedNames ==
    /\ "planned" \in Counters /\ "rejected" \in Counters /\ "planned_route" \in Words
    /\ "planned_route" \notin RejectWords
    /\ \A w \in RejectWords : w \in Words
BY DEF Counters, Words, RejectWords

LEMMA RejectFacts ==
    ASSUME NEW a \in Accountings, NEW p \in Int, NEW d \in Int, RouteWord(p, d) \in Int,
           NEW word \in RejectWords
    PROVE  LET after == Reject(a, p, d, word)
           IN  /\ after \in Accountings
               /\ after["rejected"] = a["rejected"] + 1
               /\ after[word] = a[word] + RouteWord(p, d)
               /\ \A c \in Keys \ {"rejected", word} : after[c] = a[c]
<1> DEFINE counted == Count(a, "rejected")
           value   == RouteWord(p, d)
           after   == Add(counted, word, value)
<1>1. "rejected" \in Keys /\ word \in Keys /\ word # "rejected"
  BY PlannedNames, Names
<1>2. /\ counted \in Accountings
      /\ counted["rejected"] = a["rejected"] + 1
      /\ \A c \in Keys \ {"rejected"} : counted[c] = a[c]
  BY <1>1, CountFacts
<1> HIDE DEF counted, value
<1>3. /\ after \in Accountings
      /\ after[word] = counted[word] + value
      /\ \A c \in Keys \ {word} : after[c] = counted[c]
  BY <1>1, <1>2, AddFacts DEF value
<1>4. Reject(a, p, d, word) = after
  BY DEF Reject, counted, value
<1> HIDE DEF after
<1>5. /\ after["rejected"] = a["rejected"] + 1
      /\ after[word] = a[word] + value
      /\ \A c \in Keys \ {"rejected", word} : after[c] = a[c]
  BY <1>1, <1>2, <1>3
<1> QED BY <1>3, <1>4, <1>5 DEF value

\* What the inline loop counts for an attempt.
LEMMA RouteCounts ==
    ASSUME NEW a \in Accountings, NEW p \in Int, NEW d \in Int, RouteWord(p, d) \in Int
    PROVE  LET after == InlineRoute(a, p, d)
           IN  /\ after \in Accountings
               /\ after["planned"] + after["rejected"] = a["planned"] + a["rejected"] + 1
<1> DEFINE after   == InlineRoute(a, p, d)
           planned_after == AccountPlannedRoute(a, p, d)
<1>1. /\ "planned" \in Keys /\ "rejected" \in Keys /\ "rid" \in RejectWords
      /\ "media_id" \in RejectWords
  BY PlannedNames, Names DEF RejectWords
<1>2. a["planned"] \in Int /\ a["rejected"] \in Int
  BY <1>1 DEF Accountings
<1>3. CASE Active(d) /\ Permits(d, PacketRid(p))
  <2>1. after = planned_after
    BY <1>3 DEF InlineRoute
  <2>2. /\ planned_after \in Accountings
        /\ planned_after["planned"] = a["planned"] + 1
        /\ \A c \in Counters \ {"planned"} : planned_after[c] = a[c]
    BY PlannedNames, CountThenAdd DEF AccountPlannedRoute
  <2> HIDE DEF planned_after, after
  <2> QED BY <1>2, <2>1, <2>2, PlannedNames DEF after
<1>4. CASE ~(Active(d) /\ Permits(d, PacketRid(p)))
  <2>1. PICK word \in {"rid", "media_id"} : after = Reject(a, p, d, word)
    BY <1>4 DEF InlineRoute
  <2> DEFINE rejected_after == Reject(a, p, d, word)
  <2>2. word \in RejectWords
    BY DEF RejectWords
  <2>3. /\ rejected_after \in Accountings
        /\ rejected_after["rejected"] = a["rejected"] + 1
        /\ \A c \in Keys \ {"rejected", word} : rejected_after[c] = a[c]
    BY <2>2, RejectFacts
  <2>4. after = rejected_after
    BY <2>1
  <2> HIDE DEF rejected_after, after
  <2>5. after["planned"] = a["planned"]
    BY <1>1, <2>3, <2>4
  <2> QED BY <1>2, <2>3, <2>4, <2>5 DEF after
<1> QED BY <1>3, <1>4

LEMMA SameRoute ==
    ASSUME NEW a \in Accountings, NEW b \in Accountings, Same(a, b),
           NEW p \in Int, NEW d \in Int, RouteWord(p, d) \in Int
    PROVE  /\ ColdRoute(b, p, d) \in Accountings
           /\ Same(InlineRoute(a, p, d), ColdRoute(b, p, d))
<1>1. CASE Active(d) /\ Permits(d, PacketRid(p))
  <2>1. /\ InlineRoute(a, p, d) = Add(Count(a, "planned"), "planned_route", RouteWord(p, d))
        /\ ColdRoute(b, p, d) = Add(Count(b, "planned"), "planned_route", RouteWord(p, d))
    BY <1>1 DEF InlineRoute, ColdRoute, AccountPlannedRoute
  <2>2. Same(Add(Count(a, "planned"), "planned_route", RouteWord(p, d)),
             Add(Count(b, "planned"), "planned_route", RouteWord(p, d)))
    BY PlannedNames, SameCountThenAdd
  <2>3. Add(Count(b, "planned"), "planned_route", RouteWord(p, d)) \in Accountings
    BY PlannedNames, CountThenAdd
  <2> QED BY <2>1, <2>2, <2>3
<1>2. CASE ~(Active(d) /\ Permits(d, PacketRid(p)))
  <2>1. PICK word \in {"rid", "media_id"} : InlineRoute(a, p, d) = Reject(a, p, d, word)
    BY <1>2 DEF InlineRoute
  <2> DEFINE x == Reject(a, p, d, word)
             y == Reject(b, p, d, "media_id_rid")
  <2>2. InlineRoute(a, p, d) = x /\ ColdRoute(b, p, d) = y
    BY <1>2, <2>1 DEF ColdRoute
  <2>3. word \in RejectWords /\ "media_id_rid" \in RejectWords
    BY DEF RejectWords
  <2>4. /\ x["rejected"] = a["rejected"] + 1
        /\ x[word] = a[word] + RouteWord(p, d)
        /\ \A c \in Keys \ {"rejected", word} : x[c] = a[c]
    BY <2>3, RejectFacts
  <2>5. /\ y \in Accountings
        /\ y["rejected"] = b["rejected"] + 1
        /\ y["media_id_rid"] = b["media_id_rid"] + RouteWord(p, d)
        /\ \A c \in Keys \ {"rejected", "media_id_rid"} : y[c] = b[c]
    BY <2>3, RejectFacts
  <2>6. "rid" \in Keys /\ "media_id" \in Keys
    BY Names DEF RejectWords
  <2>7. a["rid"] \in Int /\ a["media_id"] \in Int
    BY <2>6 DEF Accountings
  <2> HIDE DEF x, y
  <2>8. \A c \in Counters \cup (Words \ RejectWords) : x[c] = y[c]
    <3> TAKE c \in Counters \cup (Words \ RejectWords)
    <3>1. a[c] = b[c] /\ c \in Keys /\ c \notin RejectWords
      BY Names DEF Same
    <3>2. CASE c = "rejected"
      BY <3>1, <3>2, <2>4, <2>5
    <3>3. CASE c # "rejected"
      BY <3>1, <3>3, <2>3, <2>4, <2>5
    <3> QED BY <3>2, <3>3
  <2>9. x["rid"] + x["media_id"] = a["rid"] + a["media_id"] + RouteWord(p, d)
    BY <2>4, <2>6, <2>7
  <2> QED BY <2>2, <2>5, <2>8, <2>9 DEF Same
<1> QED BY <1>1, <1>2

-----------------------------------------------------------------------------
(* Incoming stats. *)

LEMMA StatsNames ==
    /\ "bytes" \in Counters /\ "dirty_rooms" \in Counters /\ "keyframes" \in Counters
    /\ "room_slot" \in Words \ RejectWords /\ "payload_len" \in Words \ RejectWords
    /\ "room_slot" # "keyframes" /\ "payload_len" # "keyframes"
BY DEF Counters, Words, RejectWords

LEMMA StatsValues ==
    ASSUME NEW i \in Nat
    PROVE  PayloadLen(i) \in Int /\ RoomSlot(i) \in Int
BY DEF PayloadLen, RoomSlot

\* The stats of a packet in three steps: bytes, audio policy, first ingress.
Bytes(a, i) == Add(a, "bytes", PayloadLen(i))
Audio(a, i) == IF AudioPolicyChanged(i)
               THEN Add(Count(a, "dirty_rooms"), "room_slot", RoomSlot(i)) ELSE a
Asks(i)     == FirstIngress(i) /\ VideoSource(i) /\ ~SelectedRidActivated(i)
First(a, i) == IF FirstIngress(i) THEN Add(a, "payload_len", PayloadLen(i)) ELSE a
Asked(a, i) == IF Asks(i) THEN Count(a, "keyframes") ELSE a

LEMMA StatsSteps ==
    ASSUME NEW a, NEW i
    PROVE  /\ InlineStats(a, i) = Asked(First(Audio(Bytes(a, i), i), i), i)
           /\ ColdStats(a, i) = Asked(First(Audio(Bytes(a, i), i), i), i)
BY DEF InlineStats, ColdStats, AccountAudioPolicyChange, AccountFirstIngress,
       Bytes, Audio, First, Asked, Asks

LEMMA BytesKeep ==
    ASSUME NEW a \in Accountings, NEW i \in Nat
    PROVE  Bytes(a, i) \in Accountings /\ Bytes(a, i)["keyframes"] = a["keyframes"]
BY AddFacts, Names, StatsNames, StatsValues DEF Bytes

LEMMA AudioKeep ==
    ASSUME NEW a \in Accountings, NEW i \in Nat
    PROVE  Audio(a, i) \in Accountings /\ Audio(a, i)["keyframes"] = a["keyframes"]
<1> DEFINE changed == Add(Count(a, "dirty_rooms"), "room_slot", RoomSlot(i))
<1>1. /\ changed \in Accountings
      /\ \A c \in Counters \ {"dirty_rooms"} : changed[c] = a[c]
  BY CountThenAdd, StatsNames, StatsValues
<1>2. Audio(a, i) \in {a, changed}
  BY DEF Audio
<1> HIDE DEF changed
<1> QED BY <1>1, <1>2, StatsNames

LEMMA FirstKeep ==
    ASSUME NEW a \in Accountings, NEW i \in Nat
    PROVE  First(a, i) \in Accountings /\ First(a, i)["keyframes"] = a["keyframes"]
<1> DEFINE mixed == Add(a, "payload_len", PayloadLen(i))
<1>1. "payload_len" \in Keys /\ "keyframes" \in Keys \ {"payload_len"}
  BY Names, StatsNames
<1>2. mixed \in Accountings /\ \A c \in Keys \ {"payload_len"} : mixed[c] = a[c]
  BY <1>1, StatsValues, AddFacts
<1>3. First(a, i) \in {a, mixed}
  BY DEF First
<1> HIDE DEF mixed
<1> QED BY <1>1, <1>2, <1>3

LEMMA AskedCounts ==
    ASSUME NEW a \in Accountings, NEW i \in Nat
    PROVE  /\ Asked(a, i) \in Accountings
           /\ Asked(a, i)["keyframes"] = a["keyframes"] + (IF Asks(i) THEN 1 ELSE 0)
<1>1. "keyframes" \in Keys /\ a["keyframes"] \in Int
  BY Names, StatsNames DEF Accountings
<1> QED BY <1>1, CountFacts DEF Asked

LEMMA StatsCounts ==
    ASSUME NEW a \in Accountings, NEW i \in Nat
    PROVE  /\ InlineStats(a, i) \in Accountings
           /\ InlineStats(a, i)["keyframes"] = a["keyframes"] + (IF Asks(i) THEN 1 ELSE 0)
<1> DEFINE x == Bytes(a, i)
           y == Audio(x, i)
           z == First(y, i)
<1>1. x \in Accountings /\ x["keyframes"] = a["keyframes"]
  BY BytesKeep
<1>2. y \in Accountings /\ y["keyframes"] = x["keyframes"]
  BY <1>1, AudioKeep
<1>3. z \in Accountings /\ z["keyframes"] = y["keyframes"]
  BY <1>2, FirstKeep
<1>4. /\ Asked(z, i) \in Accountings
      /\ Asked(z, i)["keyframes"] = z["keyframes"] + (IF Asks(i) THEN 1 ELSE 0)
  BY <1>3, AskedCounts
<1>5. InlineStats(a, i) = Asked(z, i)
  BY StatsSteps
<1> QED BY <1>1, <1>2, <1>3, <1>4, <1>5

LEMMA SameStats ==
    ASSUME NEW a \in Accountings, NEW b \in Accountings, Same(a, b), NEW i \in Nat
    PROVE  /\ ColdStats(b, i) \in Accountings
           /\ Same(InlineStats(a, i), ColdStats(b, i))
<1>1. PayloadLen(i) \in Int /\ RoomSlot(i) \in Int
  BY StatsValues
<1> DEFINE x(e) == Bytes(e, i)
           y(e) == Audio(x(e), i)
           z(e) == First(y(e), i)
<1>2. \A e \in {a, b} : x(e) \in Accountings
  BY BytesKeep
<1>3. \A e \in {a, b} : y(e) \in Accountings
  BY <1>2, AudioKeep
<1>4. \A e \in {a, b} : z(e) \in Accountings
  BY <1>3, FirstKeep
<1>5. Same(x(a), x(b))
  BY <1>1, StatsNames, SameAdd DEF Bytes
<1> HIDE DEF x
<1>6. Same(y(a), y(b))
  <2>1. Same(Add(Count(x(a), "dirty_rooms"), "room_slot", RoomSlot(i)),
             Add(Count(x(b), "dirty_rooms"), "room_slot", RoomSlot(i)))
    BY <1>1, <1>2, <1>5, StatsNames, SameCountThenAdd
  <2> QED BY <1>5, <2>1 DEF Audio
<1> HIDE DEF y
<1>7. Same(z(a), z(b))
  <2>1. Same(Add(y(a), "payload_len", PayloadLen(i)), Add(y(b), "payload_len", PayloadLen(i)))
    BY <1>1, <1>3, <1>6, StatsNames, SameAdd
  <2> QED BY <1>6, <2>1 DEF First
<1> HIDE DEF z
<1>8. Same(Asked(z(a), i), Asked(z(b), i))
  <2>1. Same(Count(z(a), "keyframes"), Count(z(b), "keyframes"))
    BY <1>4, <1>7, StatsNames, SameCount
  <2> QED BY <1>7, <2>1 DEF Asked
<1>9. Asked(z(b), i) \in Accountings
  BY <1>4, AskedCounts
<1> QED BY <1>8, <1>9, StatsSteps DEF x, y, z

-----------------------------------------------------------------------------
(* The steps of the three loops. *)

\* The events before n of a kind, and the first ingresses before n.
EventsBefore(n, kind) == {i \in 0 .. n - 1 : EventKind(i) = kind}
FirstBefore(n)        == {i \in 0 .. n - 1 : FirstIngress(i)}

LEMMA BeforeNone ==
    /\ \A kind : Cardinality(EventsBefore(0, kind)) = 0
    /\ Cardinality(FirstBefore(0)) = 0
<1>1. \A kind : EventsBefore(0, kind) = {}
  BY DEF EventsBefore
<1>2. FirstBefore(0) = {}
  BY DEF FirstBefore
<1> QED BY <1>1, <1>2, FS_EmptySet

LEMMA EventsNext ==
    ASSUME NEW n \in Nat, NEW kind
    PROVE  /\ Cardinality(EventsBefore(n, kind)) \in Nat
           /\ Cardinality(EventsBefore(n + 1, kind))
                = Cardinality(EventsBefore(n, kind)) + (IF EventKind(n) = kind THEN 1 ELSE 0)
<1> DEFINE S == EventsBefore(n, kind)
           T == EventsBefore(n + 1, kind)
<1>1. IsFiniteSet(0 .. n - 1)
  BY FS_Interval
<1>2. IsFiniteSet(S)
  BY <1>1, FS_Subset DEF EventsBefore
<1>3. Cardinality(S) \in Nat
  BY <1>2, FS_CardinalityType
<1>4. n \notin S
  BY DEF EventsBefore
<1>5. T = IF EventKind(n) = kind THEN S \cup {n} ELSE S
  BY DEF EventsBefore
<1> HIDE DEF S, T
<1>6. Cardinality(S \cup {n}) = Cardinality(S) + 1
  BY <1>2, <1>4, FS_AddElement
<1>7. Cardinality(T) = Cardinality(S) + (IF EventKind(n) = kind THEN 1 ELSE 0)
  BY <1>3, <1>5, <1>6
<1> QED BY <1>3, <1>7 DEF S, T

LEMMA FirstNext ==
    ASSUME NEW n \in Nat
    PROVE  /\ Cardinality(FirstBefore(n)) \in Nat
           /\ Cardinality(FirstBefore(n + 1))
                = Cardinality(FirstBefore(n)) + (IF FirstIngress(n) THEN 1 ELSE 0)
<1> DEFINE S == FirstBefore(n)
           T == FirstBefore(n + 1)
<1>1. IsFiniteSet(0 .. n - 1)
  BY FS_Interval
<1>2. IsFiniteSet(S)
  BY <1>1, FS_Subset DEF FirstBefore
<1>3. Cardinality(S) \in Nat
  BY <1>2, FS_CardinalityType
<1>4. n \notin S
  BY DEF FirstBefore
<1>5. T = IF FirstIngress(n) THEN S \cup {n} ELSE S
  BY DEF FirstBefore
<1> HIDE DEF S, T
<1>6. Cardinality(S \cup {n}) = Cardinality(S) + 1
  BY <1>2, <1>4, FS_AddElement
<1>7. Cardinality(T) = Cardinality(S) + (IF FirstIngress(n) THEN 1 ELSE 0)
  BY <1>3, <1>5, <1>6
<1> QED BY <1>3, <1>7 DEF S, T

ColdPathTypeOK ==
    /\ fixture \in {"ingress", "route", "stats"}
    /\ step \in Nat
    /\ inline \in Accountings
    /\ cold \in Accountings

ColdPathInv == ColdPathTypeOK /\ SameAccounting /\ AccountedOnce

LEMMA SameIs == SameAccounting <=> Same(inline, cold)
BY DEF SameAccounting, Same

\* A state of the three loops with nothing accounted for.
LEMMA FreshAccounting ==
    ASSUME step = 0, inline = NoAccounting, cold = NoAccounting
    PROVE  inline \in Accountings /\ cold \in Accountings /\ SameAccounting /\ AccountedOnce
<1>1. NoAccounting \in Accountings /\ \A c \in Keys : NoAccounting[c] = 0
  BY DEF NoAccounting, Accountings, Keys
<1>2. /\ "rid" \in Keys /\ "media_id" \in Keys /\ "media_id_rid" \in Keys
      /\ "routed" \in Keys /\ "dropped" \in Keys /\ "recovered" \in Keys
      /\ "planned" \in Keys /\ "rejected" \in Keys /\ "keyframes" \in Keys
  BY DEF Keys, Counters, Words, RejectWords
<1>3. SameAccounting
  BY <1>1, <1>2 DEF SameAccounting
<1>4. \A kind : Of(kind) = 0
  BY BeforeNone DEF Of, EventsBefore
<1>5. Cardinality({i \in 0 .. step - 1 : FirstIngress(i)}) = 0
  BY BeforeNone DEF FirstBefore
<1>6. AccountedOnce
  BY <1>1, <1>2, <1>4, <1>5 DEF AccountedOnce
<1> QED BY <1>1, <1>3, <1>6

LEMMA ColdPathSizes ==
    /\ EventCount \in Nat /\ RoutePacketCount \in Nat
    /\ DestinationCount \in Nat /\ StatsPacketCount \in Nat
BY ConstantsAssumption

LEMMA ColdPathStep == ColdPathInv /\ [Next]_vars => ColdPathInv'
<1> SUFFICES ASSUME ColdPathInv, [Next]_vars PROVE ColdPathInv'
  OBVIOUS
<1>0. ColdPathTypeOK /\ Same(inline, cold) /\ AccountedOnce
  BY SameIs DEF ColdPathInv
<1>1. CASE UNCHANGED vars
  BY <1>1 DEF vars, ColdPathInv, ColdPathTypeOK, SameAccounting, AccountedOnce, Of
<1>2. CASE IngressEvent
  <2>1. /\ fixture = "ingress" /\ fixture' = fixture /\ step' = step + 1
        /\ inline' = InlineIngress(inline, step) /\ cold' = ColdIngress(cold, step)
    BY <1>2 DEF IngressEvent, Advance
  <2>2. step \in Nat /\ inline \in Accountings /\ cold \in Accountings
    BY <1>0 DEF ColdPathTypeOK
  <2>3. cold' \in Accountings /\ Same(inline', cold')
    BY <1>0, <2>1, <2>2, SameIngress
  <2> DEFINE kind == EventKind(step)
             routed == kind \in {"CachedRoute", "RecoveryHit"}
  <2>4. /\ inline' \in Accountings
        /\ inline'["routed"] = inline["routed"] + (IF routed THEN 1 ELSE 0)
        /\ inline'["dropped"] = inline["dropped"] + (IF routed THEN 0 ELSE 1)
        /\ inline'["recovered"]
             = inline["recovered"] + (IF kind = "RecoveryHit" THEN 1 ELSE 0)
    BY <2>1, <2>2, IngressCounts
  <2>5. \A k : /\ Of(k) \in Nat
               /\ Of(k)' = Of(k) + (IF kind = k THEN 1 ELSE 0)
    <3> TAKE k
    <3>1. Of(k) = Cardinality(EventsBefore(step, k))
      BY DEF Of, EventsBefore
    <3>2. Of(k)' = Cardinality(EventsBefore(step + 1, k))
      BY <2>1 DEF Of, EventsBefore
    <3> QED BY <2>2, <3>1, <3>2, EventsNext
  <2> DEFINE cached == Of("CachedRoute")
             hits   == Of("RecoveryHit")
  <2>6. /\ cached \in Nat /\ hits \in Nat
        /\ cached' = cached + (IF kind = "CachedRoute" THEN 1 ELSE 0)
        /\ hits' = hits + (IF kind = "RecoveryHit" THEN 1 ELSE 0)
    BY <2>5
  <2>7. /\ inline["routed"] + inline["dropped"] = step
        /\ inline["recovered"] = hits
        /\ inline["routed"] = cached + inline["recovered"]
    BY <1>0, <2>1 DEF AccountedOnce
  <2>8. inline["routed"] \in Int /\ inline["dropped"] \in Int /\ inline["recovered"] \in Int
    BY <2>2 DEF Accountings, Keys, Counters
  <2> HIDE DEF cached, hits, kind
  <2>9. /\ inline'["routed"] + inline'["dropped"] = step'
        /\ inline'["recovered"] = hits'
        /\ inline'["routed"] = cached' + inline'["recovered"]
    BY <2>1, <2>2, <2>4, <2>6, <2>7, <2>8
  <2>10. AccountedOnce'
    BY <2>1, <2>9 DEF AccountedOnce, cached, hits
  <2> QED BY <1>0, <2>1, <2>2, <2>3, <2>4, <2>10
          DEF ColdPathInv, ColdPathTypeOK, SameAccounting, Same
<1>3. CASE RouteAttempt
  <2> DEFINE p == step \div DestinationCount
             d == step % DestinationCount
  <2>1. /\ fixture = "route" /\ fixture' = fixture /\ step' = step + 1
        /\ inline' = InlineRoute(inline, p, d) /\ cold' = ColdRoute(cold, p, d)
    BY <1>3 DEF RouteAttempt, Advance
  <2>2. step \in Nat /\ inline \in Accountings /\ cold \in Accountings
    BY <1>0 DEF ColdPathTypeOK
  <2>3. step < RoutePacketCount * DestinationCount
    BY <1>3 DEF RouteAttempt, Advance, Steps
  <2>4. DestinationCount \in Nat \ {0}
    BY <2>2, <2>3, ColdPathSizes
  <2>5. p \in Int /\ d \in Int
    BY <2>2, <2>4
  <2> HIDE DEF p, d
  <2>6. RouteWord(p, d) \in Int
    BY <2>4, <2>5 DEF RouteWord
  <2>7. cold' \in Accountings /\ Same(inline', cold')
    BY <1>0, <2>1, <2>2, <2>5, <2>6, SameRoute
  <2>8. /\ inline' \in Accountings
        /\ inline'["planned"] + inline'["rejected"] = inline["planned"] + inline["rejected"] + 1
    BY <2>1, <2>2, <2>5, <2>6, RouteCounts
  <2>9. inline["planned"] + inline["rejected"] = step
    BY <1>0, <2>1 DEF AccountedOnce
  <2>10. AccountedOnce'
    BY <2>1, <2>8, <2>9 DEF AccountedOnce
  <2> QED BY <1>0, <2>1, <2>2, <2>7, <2>8, <2>10
          DEF ColdPathInv, ColdPathTypeOK, SameAccounting, Same
<1>4. CASE StatsPacket
  <2>1. /\ fixture = "stats" /\ fixture' = fixture /\ step' = step + 1
        /\ inline' = InlineStats(inline, step) /\ cold' = ColdStats(cold, step)
    BY <1>4 DEF StatsPacket, Advance
  <2>2. step \in Nat /\ inline \in Accountings /\ cold \in Accountings
    BY <1>0 DEF ColdPathTypeOK
  <2>3. cold' \in Accountings /\ Same(inline', cold')
    BY <1>0, <2>1, <2>2, SameStats
  <2>4. /\ inline' \in Accountings
        /\ inline'["keyframes"] = inline["keyframes"] + (IF Asks(step) THEN 1 ELSE 0)
    BY <2>1, <2>2, StatsCounts
  <2>5. /\ Cardinality(FirstBefore(step)) \in Nat
        /\ Cardinality(FirstBefore(step + 1))
             = Cardinality(FirstBefore(step)) + (IF FirstIngress(step) THEN 1 ELSE 0)
    BY <2>2, FirstNext
  <2>6. inline["keyframes"] <= Cardinality(FirstBefore(step))
    BY <1>0, <2>1 DEF AccountedOnce, FirstBefore
  <2>7. Asks(step) => FirstIngress(step)
    BY DEF Asks
  <2>8. inline["keyframes"] \in Int
    BY <2>2 DEF Accountings, Keys, Counters
  <2>9. inline'["keyframes"] <= Cardinality(FirstBefore(step + 1))
    BY <2>4, <2>5, <2>6, <2>7, <2>8
  <2>10. AccountedOnce'
    BY <2>1, <2>9 DEF AccountedOnce, FirstBefore
  <2> QED BY <1>0, <2>1, <2>2, <2>3, <2>4, <2>10
          DEF ColdPathInv, ColdPathTypeOK, SameAccounting, Same
<1>5. CASE Done
  <2>1. step' = 0 /\ inline' = NoAccounting /\ cold' = NoAccounting /\ fixture' = fixture
    BY <1>5 DEF Done
  <2>2. (step = 0 /\ inline = NoAccounting /\ cold = NoAccounting
           => inline \in Accountings /\ cold \in Accountings /\ SameAccounting /\ AccountedOnce)'
    BY FreshAccounting, PTL
  <2> QED BY <1>0, <2>1, <2>2 DEF ColdPathInv, ColdPathTypeOK
<1> QED BY <1>1, <1>2, <1>3, <1>4, <1>5 DEF Next

LEMMA ColdPathInit == Init => ColdPathInv
BY FreshAccounting DEF Init, Steps, ColdPathInv, ColdPathTypeOK

\* The invariant of the three loops, from which the next two theorems follow.
LEMMA ColdPathInvariant == Spec => []ColdPathInv
BY ColdPathInit, ColdPathStep, PTL DEF Spec

\* The cold helpers of packet_loop_cold_path.rs account for any number of packets
\* as the inline branches do, but for what is mixed into a rejected route's word.
THEOREM ColdPathSame == Spec => []SameAccounting
<1>1. ColdPathInv => SameAccounting
  BY DEF ColdPathInv
<1> QED BY <1>1, ColdPathInvariant, PTL

\* Whatever branch a packet takes, it is counted once: an event is routed or
\* dropped, an attempt planned or rejected, a first packet asks for at most one
\* keyframe.
THEOREM ColdPathOnce == Spec => []AccountedOnce
<1>1. ColdPathInv => AccountedOnce
  BY DEF ColdPathInv
<1> QED BY <1>1, ColdPathInvariant, PTL

-----------------------------------------------------------------------------
(* Source policy refresh: the encodings are in order, so that sorting them   *)
(* changes nothing, and what a route is sent is Rate.                        *)

\* Sorting three integers that are in order already.
LEMMA AscendingOfOrdered ==
    ASSUME NEW a \in Int, NEW b \in Int, NEW c \in Int, a < b, b < c
    PROVE  Ascending(<<a, b, c>>) = <<a, b, c>>
<1> DEFINE s == <<a, b, c>>
           S == {1, 2, 3}
           before(i) == {j \in S : s[j] < s[i] \/ (s[j] = s[i] /\ j < i)}
<1>0. \A n \in Nat : Cardinality(1 .. n) = n
  <2> TAKE n \in Nat
  <2> QED BY FS_Interval
<1>1. DOMAIN s = S /\ Cardinality(S) = 3
  <2>1. 1 .. 3 = S
    OBVIOUS
  <2>2. Cardinality(1 .. 3) = 3
    BY <1>0
  <2> QED BY <2>1, <2>2
<1>2. before(1) = {} /\ before(2) = {1} /\ before(3) = 1 .. 2
  OBVIOUS
<1>3. /\ Cardinality(before(1)) = 0
      /\ Cardinality(before(2)) = 1
      /\ Cardinality(before(3)) = 2
  <2>1. Cardinality({}) = 0 /\ Cardinality({1}) = 1
    BY FS_EmptySet, FS_Singleton
  <2>2. Cardinality(1 .. 2) = 2
    BY <1>0
  <2> QED BY <1>2, <2>1, <2>2
<1> DEFINE o == StableOrder(S, s)
<1>4. o = [k \in 1 .. 3 |-> CHOOSE i \in S : Cardinality(before(i)) = k - 1]
  BY <1>1 DEF StableOrder
<1> HIDE DEF before, o
<1>5. \A k \in S : o[k] = k
  <2>1. \A k \in S : k \in 1 .. 3 /\ o[k] = CHOOSE i \in S : Cardinality(before(i)) = k - 1
    BY <1>4
  <2>2. \A i, k \in S : Cardinality(before(i)) = k - 1 <=> i = k
    BY <1>3
  <2> QED BY <2>1, <2>2
<1>6. Ascending(s) = [k \in S |-> s[o[k]]]
  BY <1>1 DEF Ascending, o
<1>7. Ascending(s) = [k \in S |-> s[k]]
  BY <1>5, <1>6
<1>8. s = [k \in S |-> s[k]]
  BY <1>1
<1> QED BY <1>7, <1>8

\* No encoding is above MaxRate, the greatest one of a source is TopRate at least.
MaxRate == 1600000
TopRate == 1400000

\* The encodings of a source by its owner and its place with the owner.
EncodingsOf(owner, offset) ==
    <<180000 + ((owner + offset) % 32000),
      540000 + ((owner + offset) % 64000),
      1400000 + ((owner + offset) % 128000)>>

\* What receiver r is sent on its n-th route, of u users with s sources each.
Rate(u, s, r, n) ==
    LET source   == IF n < r * s THEN n ELSE n + s
        owner    == source \div s
        selector == (r + source) % 3
        rank     == IF owner < 4 THEN 3
                    ELSE IF u * s - s > 9 THEN 1
                    ELSE 1 + Least(selector, 2)
    IN  EncodingsOf(owner, source % s)[rank]

\* The numerals are for the SMT solver only.
LEMMA EncodingValues ==
    ASSUME NEW owner \in Nat, NEW offset \in Nat
    PROVE  \E x, y, z \in Int :
               /\ EncodingsOf(owner, offset) = <<x, y, z>>
               /\ 0 <= x /\ x < y /\ y < z /\ z <= MaxRate
               /\ TopRate <= z
<1>1. owner + offset \in Nat
  OBVIOUS
<1>2. PICK seed \in Nat : seed = owner + offset
  BY <1>1
<1>3. PICK p \in Int : p = seed % 32000 /\ 0 <= p /\ p < 32000
  BY SMT
<1>4. PICK q \in Int : q = seed % 64000 /\ 0 <= q /\ q < 64000
  BY SMT
<1>5. PICK t \in Int : t = seed % 128000 /\ 0 <= t /\ t < 128000
  BY SMT
<1>6. EncodingsOf(owner, offset) = <<180000 + p, 540000 + q, 1400000 + t>>
  BY <1>2, <1>3, <1>4, <1>5, SMT DEF EncodingsOf
<1>7. /\ 180000 + p \in Int /\ 540000 + q \in Int /\ 1400000 + t \in Int
      /\ 0 <= 180000 + p /\ 180000 + p < 540000 + q /\ 540000 + q < 1400000 + t
      /\ 1400000 + t <= MaxRate /\ TopRate <= 1400000 + t
  BY <1>3, <1>4, <1>5, SMT DEF MaxRate, TopRate
<1> QED BY <1>6, <1>7, SMT

LEMMA EncodingsOfFacts ==
    ASSUME NEW owner \in Nat, NEW offset \in Nat
    PROVE  LET e == EncodingsOf(owner, offset)
           IN  /\ \A k \in {1, 2, 3} : e[k] \in 0 .. MaxRate
               /\ e[3] >= TopRate
               /\ Ascending(e) = e
               /\ Len(e) = 3
<1>1. PICK x, y, z \in Int :
        /\ EncodingsOf(owner, offset) = <<x, y, z>>
        /\ 0 <= x /\ x < y /\ y < z /\ z <= MaxRate
        /\ TopRate <= z
  BY EncodingValues
<1> DEFINE e == <<x, y, z>>
<1>2. Ascending(e) = e
  BY <1>1, AscendingOfOrdered
<1>3. e[1] = x /\ e[2] = y /\ e[3] = z /\ Len(e) = 3
  OBVIOUS
<1>4. MaxRate \in Int /\ TopRate \in Int
  BY SMT DEF MaxRate, TopRate
<1> HIDE DEF e
<1>5. \A k \in {1, 2, 3} : e[k] \in 0 .. MaxRate
  BY <1>1, <1>3, <1>4
<1>6. e[3] >= TopRate
  BY <1>1, <1>3, <1>4
<1> QED BY <1>1, <1>2, <1>3, <1>5, <1>6 DEF e

\* Ranks and sources of a route.
LEMMA RouteFacts ==
    ASSUME NEW s \in Nat, s > 0, NEW r \in Nat, NEW n \in Nat
    PROVE  LET source == IF n < r * s THEN n ELSE n + s
           IN  /\ source \in Nat
               /\ source \div s \in Nat
               /\ source % s \in Nat
               /\ (r + source) % 3 \in {0, 1, 2}
<1>1. r * s \in Nat
  OBVIOUS
<1>2. PICK source \in Nat : source = IF n < r * s THEN n ELSE n + s
  BY <1>1
<1>3. source \div s \in Nat /\ source % s \in Nat /\ (r + source) % 3 \in {0, 1, 2}
  OBVIOUS
<1> QED BY <1>2, <1>3

LEMMA RateType ==
    ASSUME NEW u \in Nat, NEW s \in Nat, s > 0, NEW r \in Nat, NEW n \in Nat
    PROVE  Rate(u, s, r, n) \in 0 .. MaxRate
<1> DEFINE source == IF n < r * s THEN n ELSE n + s
           owner    == source \div s
           offset   == source % s
           selector == (r + source) % 3
           rank     == IF owner < 4 THEN 3
                       ELSE IF u * s - s > 9 THEN 1
                       ELSE 1 + Least(selector, 2)
<1>1. owner \in Nat /\ offset \in Nat /\ selector \in {0, 1, 2}
  BY RouteFacts
<1>2. Rate(u, s, r, n) = EncodingsOf(owner, offset)[rank]
  BY DEF Rate
<1> HIDE DEF selector
<1>3. rank \in {1, 2, 3}
  BY <1>1 DEF Least
<1> HIDE DEF owner, offset, rank
<1> QED BY <1>1, <1>2, <1>3, EncodingsOfFacts

\* A route of a featured source is sent the greatest encoding.
LEMMA FeaturedRate ==
    ASSUME NEW u \in Nat, NEW s \in Nat, s > 0, NEW r \in Nat, NEW n \in Nat,
           (IF n < r * s THEN n ELSE n + s) \div s < 4
    PROVE  Rate(u, s, r, n) >= TopRate
<1> DEFINE source == IF n < r * s THEN n ELSE n + s
           owner    == source \div s
           offset   == source % s
<1>1. owner \in Nat /\ offset \in Nat
  BY RouteFacts
<1>2. Rate(u, s, r, n) = EncodingsOf(owner, offset)[3]
  BY DEF Rate
<1> HIDE DEF owner, offset
<1> QED BY <1>1, <1>2, EncodingsOfFacts

\* What a route with this ladder is sent, and the step of a cycle that plans it so.
Selected(encodings, consumer, source) ==
    encodings[SelectedEncoding(encodings, CurrentSelector(consumer, source),
                               Featured(source))]

PlanRoute(encodings, source) ==
    /\ receiver < Receivers /\ planned < VisibleCount
    /\ selected_bitrate_bps' =
           selected_bitrate_bps + Selected(encodings, receiver, source)
    /\ planned' = planned + 1
    /\ UNCHANGED <<sizes, cycle, receiver, action_score, plans, result>>

\* What either cycle selects for the next route is its Rate.
LEMMA SelectedRate ==
    ASSUME user_count \in Nat, sources_per_user \in Nat, sources_per_user > 0,
           NEW r \in Nat, NEW n \in Nat
    PROVE  Selected(SelectableEncodingLadder(RouteSource(r, n)), r, RouteSource(r, n))
             = Rate(user_count, sources_per_user, r, n)
<1> DEFINE u == user_count
           s == sources_per_user
           source   == IF n < r * s THEN n ELSE n + s
           owner    == source \div s
           offset   == source % s
           selector == (r + source) % 3
           e        == EncodingsOf(owner, offset)
<1>1. owner \in Nat /\ offset \in Nat /\ selector \in {0, 1, 2}
  BY RouteFacts
<1>2. RouteSource(r, n) = source
  BY DEF RouteSource
<1>3. Owner(source) = owner /\ Offset(source) = offset
  BY DEF Owner, Offset
<1>4. Encodings(source) = e
  BY <1>3 DEF Encodings, EncodingsOf
<1>5. Len(e) = 3 /\ Ascending(e) = e
  BY <1>1, EncodingsOfFacts
<1>6. SelectableEncodingLadder(source) = e
  BY <1>4, <1>5 DEF SelectableEncodingLadder
<1>7. CurrentSelector(r, source) = selector
  BY DEF CurrentSelector
<1>8. Featured(source) <=> owner < 4
  BY <1>3 DEF Featured
<1>9. VisibleCount = u * s - s
  BY DEF VisibleCount, SourceCount
<1> DEFINE rank == IF owner < 4 THEN 3
                   ELSE IF u * s - s > 9 THEN 1
                   ELSE 1 + Least(selector, 2)
<1>10. SelectedEncoding(e, selector, Featured(source)) = rank
  <2> HIDE DEF e, owner, selector, source
  <2>1. SelectedEncoding(e, selector, Featured(source))
          = IF owner < 4 THEN Len(e)
            ELSE IF u * s - s > 9 THEN 1 ELSE 1 + Least(selector, Len(e) - 1)
    BY <1>8, <1>9 DEF SelectedEncoding
  <2>2. Len(e) - 1 = 2
    BY <1>5
  <2> QED BY <1>5, <2>1, <2>2
<1>11. Selected(e, r, source) = e[rank]
  BY <1>7, <1>10 DEF Selected
<1>12. Rate(u, s, r, n) = e[rank]
  BY DEF Rate
<1> QED BY <1>2, <1>6, <1>11, <1>12

-----------------------------------------------------------------------------
(* What the first n routes of a receiver add up to, as the cardinality of a  *)
(* set with Rate many elements for each route: a sum without recursion.      *)

Units(u, s, r, n) ==
    {x \in (0 .. n - 1) \X (1 .. MaxRate) : x[2] <= Rate(u, s, r, x[1])}

Sent(u, s, r, n) == Cardinality(Units(u, s, r, n))

LEMMA SentNone ==
    ASSUME NEW u, NEW s, NEW r
    PROVE  Sent(u, s, r, 0) = 0
<1>1. 0 .. 0 - 1 = {}
  OBVIOUS
<1>2. Units(u, s, r, 0) = {}
  BY <1>1 DEF Units
<1> QED BY <1>2, FS_EmptySet DEF Sent

LEMMA SentNext ==
    ASSUME NEW u \in Nat, NEW s \in Nat, s > 0, NEW r \in Nat, NEW n \in Nat
    PROVE  /\ Sent(u, s, r, n) \in Nat
           /\ Sent(u, s, r, n + 1) = Sent(u, s, r, n) + Rate(u, s, r, n)
<1>0. MaxRate \in Nat
  BY SMT DEF MaxRate
<1>1. PICK rate \in 0 .. MaxRate : rate = Rate(u, s, r, n)
  BY RateType
<1> DEFINE S == Units(u, s, r, n)
           T == Units(u, s, r, n + 1)
           U == {n} \X (1 .. rate)
<1>2. IsFiniteSet(0 .. n - 1) /\ IsFiniteSet(1 .. MaxRate)
  BY <1>0, FS_Interval
<1>3. IsFiniteSet((0 .. n - 1) \X (1 .. MaxRate))
  BY <1>2, FS_Product
<1>4. IsFiniteSet(S)
  BY <1>3, FS_Subset DEF Units
<1>5. Cardinality(S) \in Nat
  BY <1>4, FS_CardinalityType
<1>6. IsFiniteSet(1 .. rate) /\ Cardinality(1 .. rate) = rate
  <2>1. rate \in Nat
    BY <1>0, <1>1
  <2> QED BY <2>1, FS_Interval
<1>7. IsFiniteSet({n}) /\ Cardinality({n}) = 1
  BY FS_Singleton
<1>8. IsFiniteSet(U) /\ Cardinality(U) = 1 * rate
  <2> DEFINE N == {n}
             R == 1 .. rate
  <2>1. IsFiniteSet(N) /\ Cardinality(N) = 1 /\ IsFiniteSet(R) /\ Cardinality(R) = rate
    BY <1>6, <1>7
  <2> HIDE DEF N, R
  <2>2. IsFiniteSet(N \X R) /\ Cardinality(N \X R) = Cardinality(N) * Cardinality(R)
    BY <2>1, FS_Product
  <2> QED BY <2>1, <2>2 DEF N, R
<1>9. S \cap U = {}
  BY DEF Units
<1>10. T = S \cup U
  <2>1. ASSUME NEW x PROVE x \in T <=> x \in S \cup U
    <3>1. x \in T <=> /\ x \in (0 .. n + 1 - 1) \X (1 .. MaxRate)
                      /\ x[2] <= Rate(u, s, r, x[1])
      BY DEF Units
    <3>2. x \in S <=> /\ x \in (0 .. n - 1) \X (1 .. MaxRate)
                      /\ x[2] <= Rate(u, s, r, x[1])
      BY DEF Units
    <3>3. x \in U <=> /\ x \in {n} \X (1 .. MaxRate)
                      /\ x[2] <= Rate(u, s, r, x[1])
      BY <1>0, <1>1
    <3>4. 0 .. n + 1 - 1 = (0 .. n - 1) \cup {n}
      OBVIOUS
    <3>5. x \in (0 .. n + 1 - 1) \X (1 .. MaxRate)
            <=> x \in (0 .. n - 1) \X (1 .. MaxRate) \/ x \in {n} \X (1 .. MaxRate)
      BY <3>4
    <3> HIDE DEF S, T, U
    <3> QED BY <3>1, <3>2, <3>3, <3>5
  <2> HIDE DEF S, T, U
  <2> QED BY <2>1
<1> HIDE DEF S, T, U
<1>11. Cardinality(T) = Cardinality(S) + Cardinality(U) - Cardinality(S \cap U)
  BY <1>4, <1>8, <1>10, FS_Union
<1>12. Cardinality(S \cap U) = 0
  BY <1>9, FS_EmptySet
<1>13. rate \in Nat
  BY <1>0, <1>1
<1>14. Cardinality(T) = Cardinality(S) + rate
  BY <1>5, <1>8, <1>11, <1>12, <1>13
<1> QED BY <1>1, <1>5, <1>14 DEF S, T, Sent

-----------------------------------------------------------------------------
(* How many routes of a receiver have a source with an even index: the even  *)
(* sources but its own ones.                                                 *)

Half(m)  == (m + 1) \div 2
Evens(m) == {x \in 0 .. m - 1 : x % 2 = 0}

LEMMA HalfFacts ==
    ASSUME NEW m \in Nat
    PROVE  /\ Half(m) \in Nat
           /\ \A k \in Int : k < Half(m) <=> 2 * k < m
BY DEF Half

LEMMA EvensCount ==
    ASSUME NEW m \in Nat
    PROVE  IsFiniteSet(Evens(m)) /\ Cardinality(Evens(m)) = Half(m)
<1> DEFINE h == Half(m)
           S == 1 .. h
           f == [k \in S |-> 2 * (k - 1)]
<1>1. h \in Nat /\ \A k \in Int : k < h <=> 2 * k < m
  BY HalfFacts
<1> HIDE DEF h
<1>2. \A k \in S : f[k] \in Evens(m)
  BY <1>1 DEF Evens
<1>3. f \in [S -> Evens(m)]
  BY <1>2
<1>4. \A j, k \in S : f[j] = f[k] => j = k
  BY <1>1
<1>5. ASSUME NEW x \in Evens(m) PROVE \E k \in S : f[k] = x
  <2>1. x \in Nat /\ x < m /\ x % 2 = 0
    BY DEF Evens
  <2>2. PICK k \in Nat : x = 2 * k
    BY <2>1
  <2>3. k < h
    BY <1>1, <2>1, <2>2
  <2>4. k + 1 \in S /\ f[k + 1] = x
    BY <1>1, <2>2, <2>3
  <2> QED BY <2>4
<1>6. ExistsBijection(S, Evens(m))
  <2>1. f \in Bijection(S, Evens(m))
    BY <1>3, <1>4, <1>5 DEF Bijection, Injection, Surjection, IsInjective
  <2> QED BY <2>1 DEF ExistsBijection
<1>7. IsFiniteSet(S) /\ Cardinality(S) = h
  BY <1>1, FS_Interval
<1> QED BY <1>6, <1>7, FS_Bijection DEF h

\* With t sources, of which s from the p-th on are the receiver's own.
LEMMA EvenRoutesCount ==
    ASSUME NEW t \in Nat, NEW s \in Nat, NEW p \in Nat, p + s <= t
    PROVE  Cardinality({n \in 0 .. t - s - 1 : (IF n < p THEN n ELSE n + s) % 2 = 0})
             = Half(t) - (Half(p + s) - Half(p))
<1> DEFINE src(n) == IF n < p THEN n ELSE n + s
           R   == {n \in 0 .. t - s - 1 : src(n) % 2 = 0}
           Own == Evens(p + s) \ Evens(p)
           T   == Evens(t) \ Own
           f   == [n \in R |-> src(n)]
<1>1. \A x : x \in Own <=> x \in p .. p + s - 1 /\ x % 2 = 0
  BY DEF Evens
<1>2. \A x : x \in T <=> x \in 0 .. t - 1 /\ x % 2 = 0 /\ x \notin p .. p + s - 1
  BY <1>1 DEF Evens
<1>3. \A n \in R : f[n] = src(n) /\ src(n) \in T
  BY <1>2
<1> HIDE DEF T, Own
<1>4. f \in [R -> T]
  BY <1>3
<1>5. \A m, n \in R : f[m] = f[n] => m = n
  OBVIOUS
<1>6. ASSUME NEW x \in T PROVE \E n \in R : f[n] = x
  <2>1. CASE x < p
    <3>1. x \in R /\ src(x) = x
      BY <1>2, <2>1
    <3> QED BY <3>1
  <2>2. CASE ~(x < p)
    <3>1. x - s \in R /\ src(x - s) = x
      BY <1>2, <2>2
    <3> QED BY <3>1
  <2> QED BY <2>1, <2>2
<1>7. ExistsBijection(R, T)
  <2>1. f \in Bijection(R, T)
    BY <1>4, <1>5, <1>6 DEF Bijection, Injection, Surjection, IsInjective
  <2> QED BY <2>1 DEF ExistsBijection
<1>8. IsFiniteSet(R)
  <2>1. IsFiniteSet(0 .. t - s - 1)
    BY FS_Interval
  <2> QED BY <2>1, FS_Subset
<1>9. Cardinality(T) = Cardinality(R)
  BY <1>7, <1>8, FS_Bijection
<1>10. /\ IsFiniteSet(Evens(t)) /\ Cardinality(Evens(t)) = Half(t)
       /\ IsFiniteSet(Evens(p + s)) /\ Cardinality(Evens(p + s)) = Half(p + s)
       /\ IsFiniteSet(Evens(p)) /\ Cardinality(Evens(p)) = Half(p)
  BY EvensCount
<1>11. Evens(p + s) \cap Evens(p) = Evens(p) /\ Evens(t) \cap Own = Own
  BY DEF Evens, Own
<1>12. Cardinality(Own) = Half(p + s) - Half(p)
  <2>1. Cardinality(Evens(p + s) \ Evens(p))
          = Cardinality(Evens(p + s)) - Cardinality(Evens(p + s) \cap Evens(p))
    BY <1>10, FS_Difference
  <2> QED BY <1>10, <1>11, <2>1 DEF Own
<1>13. Cardinality(T) = Half(t) - Cardinality(Own)
  <2>1. Cardinality(Evens(t) \ Own)
          = Cardinality(Evens(t)) - Cardinality(Evens(t) \cap Own)
    BY <1>10, FS_Difference
  <2> QED BY <1>10, <1>11, <2>1 DEF T
<1> QED BY <1>9, <1>12, <1>13

-----------------------------------------------------------------------------
(* The invariant of the refresh cycles. *)

RefreshTypeOK ==
    /\ user_count \in Nat /\ sources_per_user \in Nat
    /\ cycle \in Cycles \cup {"none"}
    /\ receiver \in Nat /\ receiver <= Receivers
    /\ planned \in Nat
    /\ planned > 0 => receiver < Receivers /\ planned <= VisibleCount
    /\ action_score \in Int
    /\ plans \in [Cycles -> Seq(Int)]
    /\ result \in [Cycles -> Int]

\* What has been selected is a function of the place that the cycle has reached.
SelectedInv ==
    selected_bitrate_bps = Sent(user_count, sources_per_user, receiver, planned)

\* The sources that come first are featured: the first route of a receiver, and
\* from the third receiver on the second one, too.  This overruns every budget.
BudgetInv ==
    /\ planned >= 1 => selected_bitrate_bps >= TopRate
    /\ planned >= 2 /\ receiver >= 2 => selected_bitrate_bps >= 2 * TopRate

\* The score of the receivers done: the even sources of each but its own, which
\* are all those before the receiver's.
ScoreInv ==
    cycle # "none" =>
        action_score = receiver * (VisibleCount + 1)
                       + (IF cycle = "rebuild"
                          THEN receiver * Half(SourceCount) - Half(receiver * sources_per_user)
                          ELSE 0)

\* What a receiver has been sent does not depend on the cycle.
PlansInv ==
    \A c \in Cycles :
        /\ cycle = c => Len(plans[c]) = receiver
        /\ \A k \in 1 .. Len(plans[c]) :
             plans[c][k] = Sent(user_count, sources_per_user, k - 1, VisibleCount)

RefreshInv ==
    /\ RefreshTypeOK
    /\ SelectedInv
    /\ BudgetInv
    /\ ScoreInv
    /\ PlansInv
    /\ ResultExact

\* While a receiver is planned there are two users at least.
LEMMA PlanningFacts ==
    ASSUME user_count \in Nat, sources_per_user \in Nat,
           receiver \in Nat, receiver < Receivers
    PROVE  /\ Receivers = user_count /\ receiver < user_count
           /\ sources_per_user > 0
           /\ VisibleCount \in Nat /\ VisibleCount > 0
           /\ receiver >= 2 => VisibleCount >= 2
           /\ SourceCount \in Nat
           /\ VisibleCount = SourceCount - sources_per_user
           /\ receiver * sources_per_user \in Nat
           /\ receiver * sources_per_user + sources_per_user <= SourceCount
           /\ (receiver + 1) * sources_per_user
                = receiver * sources_per_user + sources_per_user
<1> DEFINE u == user_count
           s == sources_per_user
           r == receiver
<1>1. VisibleCount = u * s - s /\ SourceCount = u * s
  BY DEF VisibleCount, SourceCount
<1>2. u * s \in Nat /\ r * s \in Nat
  OBVIOUS
<1>3. VisibleCount > 0 /\ Receivers = u /\ r < u
  BY DEF Receivers
<1>4. s > 0
  <2>1. CASE s = 0
    <3>1. u * s = 0
      BY <2>1
    <3> QED BY <1>1, <1>3, <2>1, <3>1
  <2> QED BY <2>1
<1>5. (r + 1) * s = r * s + s
  OBVIOUS
<1>6. r * s + s <= u * s
  <2>1. PICK d \in Nat : u = r + 1 + d
    <3>1. u - r - 1 \in Nat /\ u = r + 1 + (u - r - 1)
      BY <1>3
    <3> QED BY <3>1
  <2>2. u * s = (r + 1) * s + d * s
    BY <2>1
  <2>3. d * s \in Nat
    BY <2>1
  <2> QED BY <1>2, <1>5, <2>2, <2>3
<1>7. r >= 2 => u * s - s >= 2
  <2> SUFFICES ASSUME r >= 2 PROVE u * s - s >= 2
    OBVIOUS
  <2>1. PICK d \in Nat : r = 2 + d
    <3>1. r - 2 \in Nat /\ r = 2 + (r - 2)
      OBVIOUS
    <3> QED BY <3>1
  <2>2. r * s = 2 * s + d * s
    BY <2>1
  <2>3. d * s \in Nat
    BY <2>1
  <2> QED BY <1>2, <1>4, <1>6, <2>2, <2>3
<1> QED BY <1>1, <1>2, <1>3, <1>4, <1>5, <1>6, <1>7

\* The first route of a receiver, and the second from the third receiver on.
LEMMA FirstRoutesFeatured ==
    ASSUME NEW u \in Nat, NEW s \in Nat, s > 0, NEW r \in Nat,
           NEW n \in {0, 1}, n = 1 => r >= 2
    PROVE  Rate(u, s, r, n) >= TopRate
<1>1. r * s \in Nat
  OBVIOUS
<1>2. CASE r = 0
  <2>1. r * s = 0 /\ n = 0
    BY <1>2
  <2>2. (IF n < r * s THEN n ELSE n + s) = s
    BY <2>1
  <2>3. s \div s < 4
    OBVIOUS
  <2> QED BY <2>2, <2>3, FeaturedRate
<1>3. CASE r > 0
  <2>1. n < r * s
    <3>1. PICK d \in Nat : r = n + 1 + d
      <4>1. r - n - 1 \in Nat /\ r = n + 1 + (r - n - 1)
        BY <1>3
      <4> QED BY <4>1
    <3>2. r * s = n * s + s + d * s
      BY <3>1
    <3>3. d * s \in Nat /\ n * s >= n
      BY <3>1
    <3> QED BY <3>2, <3>3
  <2>2. (IF n < r * s THEN n ELSE n + s) = n
    BY <2>1
  <2>3. n \div s < 4
    OBVIOUS
  <2> QED BY <2>2, <2>3, FeaturedRate
<1> QED BY <1>2, <1>3

\* The budget of the first two users is below one featured encoding, every
\* budget below two.
LEMMA BandwidthBounds ==
    ASSUME NEW r \in Nat
    PROVE  /\ Bandwidth(r) \in Int
           /\ r < 2 => Bandwidth(r) < TopRate
           /\ Bandwidth(r) < 2 * TopRate
<1>1. PICK m \in Int : m = r % 8 /\ 0 <= m /\ m < 8 /\ (r < 2 => m < 2)
  BY SMT
<1>2. Bandwidth(r) = 1200000 + m * 180000
  BY <1>1, SMT DEF Bandwidth
<1> QED BY <1>1, <1>2, SMT DEF TopRate

-----------------------------------------------------------------------------
(* The steps of the refresh cycles. *)

LEMMA ReceiversNat ==
    ASSUME user_count \in Nat PROVE Receivers \in Nat
BY DEF Receivers

LEMMA HalfOfNone == Half(0) = 0
BY DEF Half

LEMMA SizesKept ==
    ASSUME UNCHANGED sizes
    PROVE  /\ user_count' = user_count /\ sources_per_user' = sources_per_user
           /\ SourceCount' = SourceCount
           /\ VisibleCount' = VisibleCount
           /\ Receivers' = Receivers
BY DEF sizes, SourceCount, VisibleCount, Receivers

LEMMA RefreshInvInit == RefreshInit => RefreshInv
<1> SUFFICES ASSUME RefreshInit PROVE RefreshInv
  OBVIOUS
<1>1. user_count \in Nat /\ sources_per_user \in Nat
  BY CountsAssumption DEF RefreshInit
<1>2. /\ cycle = "none" /\ receiver = 0 /\ planned = 0
      /\ selected_bitrate_bps = 0 /\ action_score = 0
      /\ plans = [c \in Cycles |-> <<>>] /\ result = [c \in Cycles |-> -1]
  BY DEF RefreshInit
<1>3. RefreshTypeOK
  BY <1>1, <1>2, ReceiversNat DEF RefreshTypeOK
<1>4. SelectedInv
  BY <1>2, SentNone DEF SelectedInv
<1>5. BudgetInv /\ ScoreInv
  BY <1>2 DEF BudgetInv, ScoreInv
<1>6. PlansInv
  BY <1>2 DEF PlansInv, Cycles
<1>7. ResultExact
  BY <1>2 DEF ResultExact, Cycles
<1> QED BY <1>3, <1>4, <1>5, <1>6, <1>7 DEF RefreshInv

LEMMA CallKeeps ==
    ASSUME RefreshInv, NEW c \in Cycles, Call(c)
    PROVE  RefreshInv'
<1>1. /\ cycle = "none" /\ cycle' = c /\ receiver' = 0 /\ planned' = 0
      /\ selected_bitrate_bps' = 0 /\ action_score' = 0
      /\ plans' = [plans EXCEPT ![c] = <<>>] /\ result' = result
  BY DEF Call
<1>2. UNCHANGED sizes
  BY DEF Call
<1>3. /\ user_count' = user_count /\ sources_per_user' = sources_per_user
      /\ SourceCount' = SourceCount /\ VisibleCount' = VisibleCount /\ Receivers' = Receivers
  BY <1>2, SizesKept
<1>4. /\ user_count \in Nat /\ sources_per_user \in Nat
      /\ plans \in [Cycles -> Seq(Int)] /\ result \in [Cycles -> Int]
  BY DEF RefreshInv, RefreshTypeOK
<1>5. RefreshTypeOK'
  <2>1. Receivers \in Nat
    BY <1>4, ReceiversNat
  <2>2. plans' \in [Cycles -> Seq(Int)]
    <3>1. <<>> \in Seq(Int)
      OBVIOUS
    <3> QED BY <1>1, <1>4, <3>1
  <2> QED BY <1>1, <1>3, <1>4, <2>1, <2>2 DEF RefreshTypeOK
<1>6. SelectedInv'
  BY <1>1, <1>3, SentNone DEF SelectedInv
<1>7. BudgetInv'
  BY <1>1 DEF BudgetInv
<1>8. ScoreInv'
  <2>1. 0 * (VisibleCount + 1) = 0 /\ 0 * Half(SourceCount) = 0 /\ 0 * sources_per_user = 0
    <3>1. SourceCount \in Nat /\ VisibleCount \in Int
      BY <1>4 DEF SourceCount, VisibleCount
    <3> QED BY <1>4, <3>1, HalfFacts
  <2> QED BY <1>1, <1>3, <2>1, HalfOfNone DEF ScoreInv
<1>9. PlansInv'
  <2>1. PlansInv
    BY DEF RefreshInv
  <2> SUFFICES ASSUME NEW d \in Cycles
               PROVE  /\ cycle' = d => Len(plans'[d]) = receiver'
                      /\ \A k \in 1 .. Len(plans'[d]) :
                           plans'[d][k]
                             = Sent(user_count, sources_per_user, k - 1, VisibleCount)
    BY <1>3 DEF PlansInv
  <2>2. CASE d = c
    <3>1. plans'[d] = <<>>
      BY <1>1, <1>4, <2>2
    <3>2. Len(<<>>) = 0 /\ 1 .. 0 = {}
      OBVIOUS
    <3> QED BY <1>1, <3>1, <3>2
  <2>3. CASE d # c
    BY <1>1, <1>4, <2>1, <2>3 DEF PlansInv
  <2> QED BY <2>2, <2>3
<1>10. ResultExact'
  BY <1>1, <1>3 DEF RefreshInv, ResultExact
<1> QED BY <1>5, <1>6, <1>7, <1>8, <1>9, <1>10 DEF RefreshInv

\* A route, planned with whatever list of encodings: both loops plan it so.
LEMMA PlanRouteKeeps ==
    ASSUME RefreshInv, NEW encodings,
           encodings = SelectableEncodingLadder(RouteSource(receiver, planned)),
           PlanRoute(encodings, RouteSource(receiver, planned))
    PROVE  RefreshInv'
<1> DEFINE u == user_count
           s == sources_per_user
           rate == Rate(u, s, receiver, planned)
<1>1. /\ receiver < Receivers /\ planned < VisibleCount
      /\ selected_bitrate_bps' =
           selected_bitrate_bps + Selected(encodings, receiver, RouteSource(receiver, planned))
      /\ planned' = planned + 1 /\ UNCHANGED sizes
      /\ cycle' = cycle /\ receiver' = receiver /\ action_score' = action_score
      /\ plans' = plans /\ result' = result
  BY DEF PlanRoute
<1>2. /\ user_count' = user_count /\ sources_per_user' = sources_per_user
      /\ SourceCount' = SourceCount /\ VisibleCount' = VisibleCount /\ Receivers' = Receivers
  BY <1>1, SizesKept
<1>3. RefreshTypeOK /\ u \in Nat /\ s \in Nat /\ receiver \in Nat /\ planned \in Nat
  BY DEF RefreshInv, RefreshTypeOK
<1>4. s > 0 /\ VisibleCount \in Nat
  BY <1>1, <1>3, PlanningFacts
<1>5. selected_bitrate_bps' = selected_bitrate_bps + rate
  BY <1>1, <1>3, <1>4, SelectedRate
<1>6. MaxRate \in Int /\ TopRate \in Int /\ TopRate >= 0
  BY SMT DEF MaxRate, TopRate
<1>7. rate \in 0 .. MaxRate
  BY <1>3, <1>4, RateType
<1>8. SelectedInv /\ selected_bitrate_bps \in Nat
  <2>1. SelectedInv
    BY DEF RefreshInv
  <2> QED BY <1>3, <1>4, <2>1, SentNext DEF SelectedInv
<1>9. (planned = 0 => rate >= TopRate) /\ (planned = 1 /\ receiver >= 2 => rate >= TopRate)
  BY <1>3, <1>4, FirstRoutesFeatured
<1>10. RefreshTypeOK'
  BY <1>1, <1>2, <1>3, <1>4 DEF RefreshTypeOK
<1>11. SelectedInv'
  <2>1. Sent(u, s, receiver, planned + 1) = Sent(u, s, receiver, planned) + rate
    BY <1>3, <1>4, SentNext
  <2> HIDE DEF rate
  <2> QED BY <1>1, <1>2, <1>5, <1>8, <2>1 DEF SelectedInv
<1>12. BudgetInv'
  <2>1. BudgetInv
    BY DEF RefreshInv
  <2> HIDE DEF rate
  <2>2. planned' >= 1 => selected_bitrate_bps' >= TopRate
    BY <1>1, <1>3, <1>5, <1>6, <1>7, <1>8, <1>9, <2>1 DEF BudgetInv
  <2>3. planned' >= 2 /\ receiver' >= 2 => selected_bitrate_bps' >= 2 * TopRate
    BY <1>1, <1>3, <1>5, <1>6, <1>7, <1>8, <1>9, <2>1 DEF BudgetInv
  <2> QED BY <2>2, <2>3 DEF BudgetInv
<1>13. ScoreInv'
  BY <1>1, <1>2 DEF RefreshInv, ScoreInv
<1>14. PlansInv'
  BY <1>1, <1>2 DEF RefreshInv, PlansInv
<1>15. ResultExact'
  BY <1>1, <1>2 DEF RefreshInv, ResultExact
<1> QED BY <1>10, <1>11, <1>12, <1>13, <1>14, <1>15 DEF RefreshInv

\* A receiver is finished: it overruns its budget, whoever it is.
LEMMA FinishReceiverKeeps ==
    ASSUME RefreshInv, NextReceiver, cycle \in Cycles,
           NEW extra \in Int, action_score' = action_score + planned + OverBudget + extra,
           cycle = "rebuild" => extra = EvenRoutes,
           cycle = "cached" => extra = 0
    PROVE  RefreshInv'
<1> DEFINE u == user_count
           s == sources_per_user
           r == receiver
           V == VisibleCount
<1>1. /\ r < Receivers /\ planned = V
      /\ action_score' = action_score + planned + OverBudget + extra
      /\ plans' = [plans EXCEPT ![cycle] = Append(@, selected_bitrate_bps)]
      /\ r' = r + 1 /\ planned' = 0 /\ selected_bitrate_bps' = 0
      /\ UNCHANGED sizes /\ cycle' = cycle /\ result' = result
  BY DEF NextReceiver
<1>2. /\ user_count' = user_count /\ sources_per_user' = sources_per_user
      /\ SourceCount' = SourceCount /\ VisibleCount' = VisibleCount /\ Receivers' = Receivers
  BY <1>1, SizesKept
<1>3. /\ RefreshTypeOK /\ u \in Nat /\ s \in Nat /\ r \in Nat /\ planned \in Nat
      /\ action_score \in Int /\ plans \in [Cycles -> Seq(Int)] /\ result \in [Cycles -> Int]
  BY DEF RefreshInv, RefreshTypeOK
<1>4. /\ Receivers = u /\ r < u /\ s > 0 /\ V \in Nat /\ V > 0 /\ (r >= 2 => V >= 2)
      /\ SourceCount \in Nat /\ V = SourceCount - s
      /\ r * s \in Nat /\ r * s + s <= SourceCount /\ (r + 1) * s = r * s + s
  BY <1>1, <1>3, PlanningFacts
<1>5. selected_bitrate_bps = Sent(u, s, r, V) /\ selected_bitrate_bps \in Nat
  <2>1. selected_bitrate_bps = Sent(u, s, r, V)
    BY <1>1 DEF RefreshInv, SelectedInv
  <2> QED BY <1>3, <1>4, <2>1, SentNext
<1>6. OverBudget = 1
  <2>1. BudgetInv
    BY DEF RefreshInv
  <2>2. TopRate \in Int /\ Bandwidth(r) \in Int
    BY <1>3, BandwidthBounds, SMT DEF TopRate
  <2>3. CASE r < 2
    BY <1>1, <1>3, <1>4, <1>5, <2>1, <2>2, <2>3, BandwidthBounds DEF BudgetInv, OverBudget
  <2>4. CASE r >= 2
    BY <1>1, <1>3, <1>4, <1>5, <2>1, <2>2, <2>4, BandwidthBounds DEF BudgetInv, OverBudget
  <2> QED BY <1>3, <2>3, <2>4
<1>7. EvenRoutes = Half(SourceCount) - (Half(r * s + s) - Half(r * s))
  <2>1. \A n : RouteSource(r, n) = IF n < r * s THEN n ELSE n + s
    BY DEF RouteSource
  <2> DEFINE p == r * s
             t == SourceCount
  <2>2. p \in Nat /\ t \in Nat /\ p + s <= t
    BY <1>4
  <2>3. EvenRoutes
          = Cardinality({n \in 0 .. t - s - 1 : (IF n < p THEN n ELSE n + s) % 2 = 0})
    BY <1>4, <2>1 DEF EvenRoutes
  <2>s. s \in Nat
    BY <1>3
  <2> HIDE DEF p, t, s
  <2>e. Cardinality({n \in 0 .. t - s - 1 : (IF n < p THEN n ELSE n + s) % 2 = 0})
          = Half(t) - (Half(p + s) - Half(p))
    BY <2>s, <2>2, EvenRoutesCount
  <2>4. EvenRoutes = Half(t) - (Half(p + s) - Half(p))
    BY <2>3, <2>e
  <2> QED BY <2>4 DEF p, t, s
<1>8. RefreshTypeOK'
  <2>1. plans' \in [Cycles -> Seq(Int)]
    <3>1. plans[cycle] \in Seq(Int)
      BY <1>3
    <3>2. Append(plans[cycle], selected_bitrate_bps) \in Seq(Int)
      BY <1>5, <3>1
    <3> QED BY <1>1, <1>3, <3>2
  <2>2. action_score' \in Int
    BY <1>1, <1>3, <1>6
  <2> QED BY <1>1, <1>2, <1>3, <1>4, <2>1, <2>2 DEF RefreshTypeOK
<1>9. SelectedInv'
  BY <1>1, <1>2, SentNone DEF SelectedInv
<1>10. BudgetInv'
  BY <1>1 DEF BudgetInv
<1>11. ScoreInv'
  <2> DEFINE H == Half(SourceCount)
             A == Half(r * s)
             B == Half(r * s + s)
  <2>1. H \in Nat /\ A \in Nat /\ B \in Nat
    BY <1>3, <1>4, HalfFacts
  <2>2. action_score = r * (V + 1) + (IF cycle = "rebuild" THEN r * H - A ELSE 0)
    BY DEF RefreshInv, ScoreInv, Cycles
  <2>3. action_score' = action_score + V + 1 + extra
    BY <1>1, <1>6
  <2>4. cycle = "rebuild" => extra = H - (B - A)
    BY <1>7
  <2>5. Half(r' * s) = B
    BY <1>1, <1>4
  <2> HIDE DEF H, A, B
  <2>6. (r + 1) * (V + 1) = r * (V + 1) + V + 1 /\ (r + 1) * H = r * H + H
    BY <1>3, <1>4, <2>1
  <2>7. r * (V + 1) \in Int /\ r * H \in Int
    BY <1>3, <1>4, <2>1
  <2>8. CASE cycle = "rebuild"
    <3>1. action_score' = (r + 1) * (V + 1) + ((r + 1) * H - B)
      BY <1>4, <2>1, <2>2, <2>3, <2>4, <2>6, <2>7, <2>8
    <3> QED BY <1>1, <1>2, <2>5, <2>8, <3>1 DEF ScoreInv, H
  <2>9. CASE cycle = "cached"
    <3>1. action_score' = (r + 1) * (V + 1) + 0
      BY <1>4, <2>2, <2>3, <2>6, <2>7, <2>9
    <3> QED BY <1>1, <1>2, <2>9, <3>1 DEF ScoreInv
  <2> QED BY <2>8, <2>9 DEF Cycles
<1>12. PlansInv'
  <2>1. PlansInv
    BY DEF RefreshInv
  <2> SUFFICES ASSUME NEW d \in Cycles
               PROVE  /\ cycle' = d => Len(plans'[d]) = receiver'
                      /\ \A k \in 1 .. Len(plans'[d]) :
                           plans'[d][k]
                             = Sent(user_count, sources_per_user, k - 1, VisibleCount)
    BY <1>2 DEF PlansInv
  <2>2. CASE d = cycle
    <3> DEFINE q == plans[d]
               x == selected_bitrate_bps
    <3>1. q \in Seq(Int) /\ Len(q) = r /\ x \in Int
      BY <1>3, <1>5, <2>1, <2>2 DEF PlansInv
    <3>2. plans'[d] = Append(q, x)
      BY <1>1, <1>3, <2>2
    <3>3. \A k \in 1 .. Len(q) : q[k] = Sent(user_count, sources_per_user, k - 1, VisibleCount)
      BY <2>1 DEF PlansInv
    <3>4. x = Sent(user_count, sources_per_user, r, VisibleCount)
      BY <1>5
    <3> HIDE DEF q, x
    <3>5. /\ Len(Append(q, x)) = r + 1
          /\ Append(q, x)[r + 1] = x
          /\ \A k \in 1 .. r : Append(q, x)[k] = q[k]
      BY <3>1
    <3>6. \A k \in 1 .. r + 1 : k \in 1 .. r \/ (k = r + 1 /\ k - 1 = r)
      BY <1>3
    <3> QED BY <1>1, <3>1, <3>2, <3>3, <3>4, <3>5, <3>6
  <2>3. CASE d # cycle
    BY <1>1, <1>3, <2>1, <2>3 DEF PlansInv
  <2> QED BY <2>2, <2>3
<1>13. ResultExact'
  BY <1>1, <1>2 DEF RefreshInv, ResultExact
<1> QED BY <1>8, <1>9, <1>10, <1>11, <1>12, <1>13 DEF RefreshInv

\* A cycle returns: the closed form of its score is that of ResultExact.
LEMMA ReturnKeeps ==
    ASSUME RefreshInv, Return
    PROVE  RefreshInv'
<1> DEFINE u == user_count
           s == sources_per_user
           V == VisibleCount
           T == SourceCount
           H == Half(SourceCount)
           viewers == IF u > 0 THEN u - 1 ELSE 0
<1>1. /\ cycle # "none" /\ receiver = Receivers
      /\ result' = [result EXCEPT ![cycle] = action_score] /\ cycle' = "none"
      /\ UNCHANGED sizes /\ receiver' = receiver /\ planned' = planned
      /\ selected_bitrate_bps' = selected_bitrate_bps /\ action_score' = action_score
      /\ plans' = plans
  BY DEF Return
<1>2. /\ user_count' = user_count /\ sources_per_user' = sources_per_user
      /\ SourceCount' = SourceCount /\ VisibleCount' = VisibleCount /\ Receivers' = Receivers
  BY <1>1, SizesKept
<1>3. /\ RefreshTypeOK /\ u \in Nat /\ s \in Nat /\ cycle \in Cycles
      /\ action_score \in Int /\ result \in [Cycles -> Int]
  BY <1>1 DEF RefreshInv, RefreshTypeOK
<1>4. T = u * s /\ V = T - s /\ T \in Nat /\ V \in Int
  BY <1>3 DEF SourceCount, VisibleCount
<1>5. H \in Nat /\ H = (T + 1) \div 2
  BY <1>4, HalfFacts DEF Half
<1>6. action_score = receiver * (V + 1)
                     + (IF cycle = "rebuild" THEN receiver * H - Half(receiver * s) ELSE 0)
  BY <1>1 DEF RefreshInv, ScoreInv
<1> HIDE DEF H
<1>7. action_score = u * V + Receivers + (IF cycle = "rebuild" THEN H * viewers ELSE 0)
  <2>1. CASE V > 0
    <3>1. Receivers = u
      BY <2>1 DEF Receivers
    <3>2. u > 0
      <4>1. CASE u = 0
        BY <1>3, <1>4, <2>1, <4>1
      <4> QED BY <1>3, <4>1
    <3>3. Half(receiver * s) = H
      BY <1>1, <1>4, <3>1 DEF H
    <3>4. u * (V + 1) = u * V + u
      BY <1>3, <1>4
    <3>5. H * viewers = u * H - H
      BY <1>3, <1>5, <3>2
    <3>6. receiver * (V + 1) = u * V + u /\ receiver * H = u * H
      BY <1>1, <3>1, <3>4
    <3>7. u * V \in Int /\ u * H \in Int
      BY <1>3, <1>4, <1>5
    <3> HIDE DEF viewers, V
    <3> QED BY <1>3, <1>5, <1>6, <3>1, <3>3, <3>5, <3>6, <3>7
  <2>2. CASE ~(V > 0)
    <3>1. receiver = 0 /\ Receivers = 0
      BY <1>1, <2>2 DEF Receivers
    <3>2. 0 * (V + 1) = 0 /\ 0 * H = 0 /\ 0 * s = 0
      BY <1>3, <1>4, <1>5
    <3>3. action_score = 0
      <4> HIDE DEF V
      <4> QED BY <1>6, <3>1, <3>2, HalfOfNone
    <3>4. u = 0 \/ u = 1 \/ s = 0
      <4> SUFFICES ASSUME u >= 2, s > 0 PROVE FALSE
        BY <1>3
      <4>1. PICK d \in Nat : u = 2 + d
        <5>1. u - 2 \in Nat /\ u = 2 + (u - 2)
          BY <1>3
        <5> QED BY <5>1
      <4>2. u * s = 2 * s + d * s
        BY <1>3, <4>1
      <4>3. d * s \in Nat
        BY <1>3, <4>1
      <4> QED BY <1>3, <1>4, <2>2, <4>2, <4>3
    <3>5. u * V = 0 /\ H * viewers = 0
      <4>1. CASE u = 0
        BY <1>4, <1>5, <4>1
      <4>2. CASE u = 1
        <5>1. V = 0 /\ viewers = 0
          BY <1>3, <1>4, <4>2
        <5> QED BY <1>3, <1>5, <5>1
      <4>3. CASE s = 0
        <5>1. T = 0 /\ V = 0
          BY <1>3, <1>4, <4>3
        <5>2. H = 0
          BY <5>1, HalfOfNone DEF H
        <5> QED BY <1>3, <5>1, <5>2
      <4> QED BY <3>4, <4>1, <4>2, <4>3
    <3> HIDE DEF V, viewers
    <3> QED BY <3>1, <3>3, <3>5
  <2> QED BY <2>1, <2>2
<1>8. ResultExact'
  <2> DEFINE exact == [c \in Cycles |->
                         u * V + Receivers + (IF c = "rebuild" THEN H * viewers ELSE 0)]
  <2>1. ResultExact <=> \A c \in Cycles : result[c] \in {-1, exact[c]}
    <3>1. exact["cached"] = u * V + Receivers + 0
      BY DEF Cycles
    <3>2. exact["rebuild"] = u * V + Receivers + H * viewers
      BY DEF Cycles
    <3>3. u * V + Receivers + 0 = u * V + Receivers
      BY <1>3, <1>4, ReceiversNat
    <3> QED BY <1>5, <3>1, <3>2, <3>3 DEF ResultExact, Cycles
  <2>2. ResultExact' <=> \A c \in Cycles : result'[c] \in {-1, exact[c]}
    <3>1. exact["cached"] = u * V + Receivers + 0
      BY DEF Cycles
    <3>2. exact["rebuild"] = u * V + Receivers + H * viewers
      BY DEF Cycles
    <3>3. u * V + Receivers + 0 = u * V + Receivers
      BY <1>3, <1>4, ReceiversNat
    <3> QED BY <1>2, <1>5, <3>1, <3>2, <3>3 DEF ResultExact, Cycles
  <2>3. exact[cycle] = action_score
    BY <1>3, <1>7
  <2> HIDE DEF exact
  <2>4. ResultExact
    BY DEF RefreshInv
  <2> QED BY <1>1, <1>3, <2>1, <2>2, <2>3, <2>4
<1>9. RefreshTypeOK'
  BY <1>1, <1>2, <1>3 DEF RefreshTypeOK
<1>10. SelectedInv' /\ BudgetInv' /\ ScoreInv'
  BY <1>1, <1>2 DEF RefreshInv, SelectedInv, BudgetInv, ScoreInv
<1>11. PlansInv'
  BY <1>1, <1>2 DEF RefreshInv, PlansInv, Cycles
<1> QED BY <1>8, <1>9, <1>10, <1>11 DEF RefreshInv

LEMMA RefreshInvStep == RefreshInv /\ [RefreshNext]_refreshVars => RefreshInv'
<1> SUFFICES ASSUME RefreshInv, [RefreshNext]_refreshVars PROVE RefreshInv'
  OBVIOUS
<1>1. CASE UNCHANGED refreshVars
  <2>1. UNCHANGED <<sizes, cycle, receiver, planned, selected_bitrate_bps,
                    action_score, plans, result>>
    BY <1>1 DEF refreshVars
  <2>2. /\ user_count' = user_count /\ sources_per_user' = sources_per_user
        /\ SourceCount' = SourceCount /\ VisibleCount' = VisibleCount
        /\ Receivers' = Receivers
    BY <2>1, SizesKept
  <2>3. RefreshTypeOK' /\ SelectedInv' /\ BudgetInv' /\ ScoreInv'
    BY <2>1, <2>2 DEF RefreshInv, RefreshTypeOK, SelectedInv, BudgetInv, ScoreInv
  <2>4. PlansInv' /\ ResultExact'
    BY <2>1, <2>2 DEF RefreshInv, PlansInv, ResultExact
  <2> QED BY <2>3, <2>4 DEF RefreshInv
<1>2. ASSUME NEW c \in Cycles, Call(c) PROVE RefreshInv'
  BY <1>2, CallKeeps
<1>3. CASE RebuildPlansRoute
  <2>1. PlanRoute(SelectableEncodingLadder(RouteSource(receiver, planned)),
                  RouteSource(receiver, planned))
    BY <1>3 DEF RebuildPlansRoute, PlanRoute, Selected
  <2> QED BY <2>1, PlanRouteKeeps
<1>4. CASE CachedPlansRoute
  <2>1. PlanRoute(SelectableEncodingLadder(RouteSource(receiver, planned)),
                  RouteSource(receiver, planned))
    BY <1>4 DEF CachedPlansRoute, CachedLadder, PlanRoute, Selected
  <2> QED BY <2>1, PlanRouteKeeps
<1>5. CASE RebuildFinishesReceiver
  <2>1. /\ NextReceiver /\ cycle = "rebuild" /\ cycle \in Cycles
        /\ action_score' = action_score + planned + OverBudget + EvenRoutes
    BY <1>5 DEF RebuildFinishesReceiver, NextReceiver, Cycles
  <2>2. EvenRoutes \in Int
    <3>1. VisibleCount \in Int
      BY DEF RefreshInv, RefreshTypeOK, VisibleCount, SourceCount
    <3>2. IsFiniteSet(0 .. VisibleCount - 1)
      BY <3>1, FS_Interval
    <3>3. IsFiniteSet({n \in 0 .. VisibleCount - 1 : RouteSource(receiver, n) % 2 = 0})
      BY <3>2, FS_Subset
    <3> QED BY <3>3, FS_CardinalityType DEF EvenRoutes
  <2> QED BY <2>1, <2>2, FinishReceiverKeeps
<1>6. CASE CachedFinishesReceiver
  <2>1. NextReceiver /\ cycle = "cached" /\ cycle \in Cycles
    BY <1>6 DEF CachedFinishesReceiver, Cycles
  <2>2. action_score' = action_score + planned + OverBudget + 0
    <3>1. action_score \in Int /\ planned \in Nat /\ OverBudget \in {0, 1}
      BY DEF RefreshInv, RefreshTypeOK, OverBudget
    <3>2. action_score' = action_score + planned + OverBudget
      BY <1>6 DEF CachedFinishesReceiver
    <3> QED BY <3>1, <3>2
  <2> QED BY <2>1, <2>2, FinishReceiverKeeps
<1>7. CASE Return
  BY <1>7, ReturnKeeps
<1> QED BY <1>1, <1>2, <1>3, <1>4, <1>5, <1>6, <1>7 DEF RefreshNext

\* The invariant of the refresh cycles, from which the next two theorems follow.
LEMMA RefreshInvariant == RefreshSpec => []RefreshInv
BY RefreshInvInit, RefreshInvStep, PTL DEF RefreshSpec

\* For any number of users and sources, the ladders that new() has cached plan
\* what the ladders sorted anew do, as far as both cycles have come.
THEOREM CachedLaddersPlanTheSame == RefreshSpec => []SamePlan
<1>1. RefreshInv => SamePlan
  <2> SUFFICES ASSUME RefreshInv PROVE SamePlan
    OBVIOUS
  <2> DEFINE p == plans["rebuild"]
             q == plans["cached"]
             both == Least(Len(p), Len(q))
  <2>1. p \in Seq(Int) /\ q \in Seq(Int)
    BY DEF RefreshInv, RefreshTypeOK, Cycles
  <2>2. /\ \A k \in 1 .. Len(p) :
              p[k] = Sent(user_count, sources_per_user, k - 1, VisibleCount)
        /\ \A k \in 1 .. Len(q) :
              q[k] = Sent(user_count, sources_per_user, k - 1, VisibleCount)
    BY DEF RefreshInv, PlansInv, Cycles
  <2> HIDE DEF p, q
  <2>3. both \in Nat /\ both <= Len(p) /\ both <= Len(q)
    BY <2>1 DEF Least
  <2> HIDE DEF both
  <2>4. \A k \in 1 .. both : p[k] = q[k]
    <3> TAKE k \in 1 .. both
    <3>1. k \in 1 .. Len(p) /\ k \in 1 .. Len(q)
      BY <2>1, <2>3
    <3> QED BY <2>2, <3>1
  <2>5. SubSeq(p, 1, both) = SubSeq(q, 1, both)
    BY <2>1, <2>3, <2>4
  <2> QED BY <2>5 DEF SamePlan, p, q, both
<1> QED BY <1>1, RefreshInvariant, PTL

\* What the two cycles return, for any number of users and sources: every receiver
\* overruns its budget, and the rebuild cycle counts each even source once more
\* for each of its viewers.
THEOREM ScoresExact == RefreshSpec => []ResultExact
<1>1. RefreshInv => ResultExact
  BY DEF RefreshInv
<1> QED BY <1>1, RefreshInvariant, PTL
=============================================================================
