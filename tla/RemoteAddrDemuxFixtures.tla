----------------------- MODULE RemoteAddrDemuxFixtures -----------------------
(* src/rtc_udp_demux.rs: the two fixtures around BenchmarkRemoteAddrDemux.   *)
(* new() gives each session a port of its own, one after the other from the  *)
(* first remote port on, and returns nothing without sessions or when the    *)
(* ports run out.  One fixture binds the addresses, the other announces      *)
(* them; the cycles of each probe all the addresses, by index or by scan.    *)
(*                                                                           *)
(* An address is its port, a session key the index it was made from.  The    *)
(* scan of the recovery fixture reads a list of its own, not the demux.      *)
(*                                                                           *)
(* A definition marked "Mutant" is a plausible bug in the definition that    *)
(* follows it; it is no part of the model and shows what a property catches. *)
EXTENDS RemoteAddrDemux, Integers, Sequences

CONSTANTS
    Counts,             \* the session counts new() is called with
    FirstRemotePort,    \* BENCHMARK_FIRST_REMOTE_PORT
    MaxPort,            \* u16::MAX
    None                \* no address

ASSUME FixtureAssumption ==
    /\ Counts \subseteq Nat /\ FirstRemotePort \in Nat /\ MaxPort \in Nat
    /\ Addrs = 0 .. MaxPort /\ MaxRepeat > 0
    /\ \A count \in Counts : 0 .. count - 1 \subseteq Sessions
    /\ None \notin Nat

\* The cycles of each fixture.
CyclesOf(f) == IF f = "demux" THEN {"cached_lookup", "linear_scan"}
               ELSE {"indexed_lookup", "candidate_scan"}

VARIABLES
    fixture, session_count,
    phase,                      \* new() runs, has built the fixture, or gave up
    probe_addrs,
    live_sessions,              \* of the demux fixture
    session_candidate_addrs,    \* of the recovery fixture: <<session, address>>
    cycle,                      \* the cycle that runs, or "none"
    probed,                     \* how many addresses it has looked up
    hits,
    result                      \* what the last cycle returned, -1 before

demuxVars == <<bindingVars, candidateVars>>
builtVars == <<fixture, session_count, probe_addrs, live_sessions, session_candidate_addrs>>
cycleVars == <<cycle, probed, hits, result>>
fixtureVars == <<demuxVars, builtVars, phase, cycleVars>>

-----------------------------------------------------------------------------

\* Mutant: the port wraps around.
WrappingRemoteAddr(idx) == (FirstRemotePort + idx) % (MaxPort + 1)

\* benchmark_remote_addr: the index does not fit a u16, or the sum does not.
BenchmarkRemoteAddr(idx) ==
    IF idx > MaxPort \/ FirstRemotePort + idx > MaxPort THEN None
    ELSE FirstRemotePort + idx

FixtureInit ==
    /\ Init
    /\ fixture \in {"demux", "recovery"} /\ session_count \in Counts
    /\ phase = "new"
    /\ probe_addrs = <<>>
    /\ live_sessions = {}
    /\ session_candidate_addrs = <<>>
    /\ cycle = "none" /\ probed = 0 /\ hits = 0 /\ result = -1

\* The session whose turn it is in the loop of new().
Idx == Len(probe_addrs)

\* Mutant: the set has the last session only.
LiveLast(session) == {session}

Live(session) == live_sessions \cup {session}

\* One iteration of new(), for either fixture.
AddSession ==
    LET addr == BenchmarkRemoteAddr(Idx)
    IN  /\ phase = "new" /\ Idx < session_count /\ addr # None
        /\ probe_addrs' = Append(probe_addrs, addr)
        /\ IF fixture = "demux"
           THEN /\ RememberRemoteAddr(addr, Idx)
                /\ live_sessions' = Live(Idx)
                /\ UNCHANGED session_candidate_addrs
           ELSE /\ ReplaceSessionRemoteCandidateAddrs(Idx,
                       [a \in Addrs |-> IF a = addr THEN 1 ELSE 0])
                /\ session_candidate_addrs' =
                       Append(session_candidate_addrs, <<Idx, addr>>)
                /\ UNCHANGED live_sessions
        /\ UNCHANGED <<fixture, session_count, phase, cycleVars>>

\* new() returns None: no session, or no port for the next one.
GiveUp ==
    /\ phase = "new"
    /\ session_count = 0 \/ (Idx < session_count /\ BenchmarkRemoteAddr(Idx) = None)
    /\ phase' = "none"
    /\ UNCHANGED <<demuxVars, builtVars, cycleVars>>

Built ==
    /\ phase = "new" /\ session_count > 0 /\ Idx = session_count
    /\ phase' = "built"
    /\ UNCHANGED <<demuxVars, builtVars, cycleVars>>

Call(c) ==
    /\ phase = "built" /\ cycle = "none" /\ c \in CyclesOf(fixture)
    /\ cycle' = c
    /\ probed' = 0 /\ hits' = 0
    /\ UNCHANGED <<demuxVars, builtVars, phase, result>>

\* The recovery fixture scans session_candidate_addrs.
AnnouncedHit(a) ==
    \E k \in 1 .. Len(session_candidate_addrs) : session_candidate_addrs[k][2] = a

Hit(a) ==
    CASE cycle = "cached_lookup"  -> CachedHit(a, live_sessions)
      [] cycle = "linear_scan"    -> ScanHit(a, live_sessions)
      [] cycle = "indexed_lookup" -> IndexedCandidateHit(a)
      [] cycle = "candidate_scan" -> AnnouncedHit(a)

Probe ==
    /\ cycle # "none" /\ probed < Len(probe_addrs)
    /\ hits' = hits + (IF Hit(probe_addrs[probed + 1]) THEN 1 ELSE 0)
    /\ probed' = probed + 1
    /\ UNCHANGED <<demuxVars, builtVars, phase, cycle, result>>

Return ==
    /\ cycle # "none" /\ probed = Len(probe_addrs)
    /\ result' = hits
    /\ cycle' = "none"
    /\ UNCHANGED <<demuxVars, builtVars, phase, probed, hits>>

FixtureNext ==
    \/ AddSession \/ GiveUp \/ Built
    \/ \E c \in CyclesOf(fixture) : Call(c)
    \/ Probe \/ Return

FixtureSpec == FixtureInit /\ [][FixtureNext]_fixtureVars

-----------------------------------------------------------------------------
(* Properties. *)

\* new() gives up exactly without sessions and when they are more than there are
\* ports; what it builds has every address once, bound or announced by the
\* session it was made for.
BuiltExact ==
    /\ phase = "none" =>
         session_count = 0 \/ session_count > MaxPort + 1 - FirstRemotePort
    /\ phase = "built" =>
         /\ session_count \in 1 .. MaxPort + 1 - FirstRemotePort
         /\ Len(probe_addrs) = session_count
         /\ \A k \in 1 .. session_count :
              /\ probe_addrs[k] = FirstRemotePort + (k - 1)
              /\ IF fixture = "demux"
                 THEN remote_addr_index[probe_addrs[k]] = k - 1
                 ELSE /\ Contains(remote_candidate_addr_index[probe_addrs[k]], k - 1)
                      /\ session_candidate_addrs[k] = <<k - 1, probe_addrs[k]>>

\* Every cycle, cached or scanning, bound or announced, finds every address.
EveryProbeHits == result # -1 => result = session_count
=============================================================================
