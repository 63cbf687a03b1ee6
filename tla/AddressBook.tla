----------------------------- MODULE AddressBook -----------------------------
(* What the remote-address demultiplexer of rtc_udp_demux.rs promises: an    *)
(* address is bound to at most one session, and a session's candidate        *)
(* addresses are those of its latest announcement.  Two plain relations, no  *)
(* index and no per-session list.                                            *)

CONSTANTS Addrs, Sessions

VARIABLES
    bindings,     \* <<address, session>>: packets from address go to session
    candidates    \* <<address, session>>: session may send from address

vars == <<bindings, candidates>>

Init ==
    /\ bindings = {}
    /\ candidates = {}

Bind(a, s) ==
    /\ bindings' = {b \in bindings : b[1] # a} \cup {<<a, s>>}
    /\ UNCHANGED candidates

Announce(s, A) ==
    /\ candidates' = {c \in candidates : c[2] # s} \cup {<<a, s>> : a \in A}
    /\ UNCHANGED bindings

Next ==
    \/ \E a \in Addrs, s \in Sessions : Bind(a, s)
    \/ \E s \in Sessions, A \in SUBSET Addrs : Announce(s, A)

Spec == Init /\ [][Next]_vars
=============================================================================
