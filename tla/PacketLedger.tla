---------------------------- MODULE PacketLedger ----------------------------
(* What one benchmark cycle of packet_metrics.rs promises its caller,        *)
(* whichever counter layout it uses: every packet of every worker is         *)
(* accounted for once, and the number handed back is the total over all of   *)
(* them.  Threads, barrier and counters are absent from this description.    *)

CONSTANTS
    Packets,      \* the packets one cycle accounts for
    GrandTotal,   \* the total over all packets and all six counters
    NoResult      \* the result before the cycle has returned

VARIABLES
    recorded,     \* the packets accounted for so far
    answer        \* what the cycle has returned

vars == <<recorded, answer>>

Init ==
    /\ recorded = {}
    /\ answer = NoResult

Record(p) ==
    /\ answer = NoResult
    /\ p \notin recorded
    /\ recorded' = recorded \cup {p}
    /\ UNCHANGED answer

Return ==
    /\ answer = NoResult
    /\ recorded = Packets
    /\ answer' = GrandTotal
    /\ UNCHANGED recorded

Next ==
    \/ \E p \in Packets : Record(p)
    \/ Return

Spec == Init /\ [][Next]_vars
=============================================================================
