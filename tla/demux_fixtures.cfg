\* The ports scaled down: five of eight are left from the first one on.  No
\* session, one, some, as many as ports, one more, and more than a u16 counts.
CONSTANTS
    Addrs           = {0, 1, 2, 3, 4, 5, 6, 7}
    Sessions        = {0, 1, 2, 3, 4, 5, 6, 7, 8}
    Absent          = Absent
    MaxRepeat       = 1
    Counts          = {0, 1, 3, 5, 6, 9}
    FirstRemotePort = 3
    MaxPort         = 7
    None            = None
\* After None there is no fixture and nothing left to call.
CHECK_DEADLOCK FALSE
SPECIFICATION FixtureSpec
INVARIANTS
    BuiltExact
    EveryProbeHits
