\* Each fixture past the first index at which every rare branch is taken: 997
\* for ingress, 97 and 43 destinations for route planning, 1021 for stats.
CONSTANTS
    EventCount       = 1024
    RoutePacketCount = 3
    DestinationCount = 128
    StatsPacketCount = 1024
SPECIFICATION Spec
INVARIANTS
    SameAccounting
    AccountedOnce
