\* Three addresses, two sessions, announcements that repeat an address.
CONSTANTS
    Addrs     = {a1, a2, a3}
    Sessions  = {s1, s2}
    Absent    = Absent
    MaxRepeat = 2
SPECIFICATION Spec
INVARIANTS
    TypeOK
    IndexMatchesLists
    NoEmptyEntries
    CandidatesMatchLists
    CachedAgreesWithScan
    IndexedAgreesWithScan
PROPERTY ImplementsAddressBook
