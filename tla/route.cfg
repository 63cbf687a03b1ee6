\* Each cycle alone, the two indexed ones in any order, and all three mixed.
CONSTANTS
    DestinationCount = 4
    MaxIndex         = 11
    Usages           = {{"linear"}, {"swap"}, {"stable"}, {"swap", "stable"},
                        {"linear", "swap", "stable"}}
    Absent           = Absent
SPECIFICATION RouteSpec
INVARIANTS
    TypeOK
    IndexExact
    JoinOrderKept
PROPERTIES
    TargetReplaced
    EarlierKept
