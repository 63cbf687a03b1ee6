\* Keyframes: no request, one, one per source, one more, and several for every
\* source, as in the smallest bench; 12, 23 and 34 end with a request of kind Fir.
\* Wakes: the eight channels not all, once, and again, as in the smallest bench.
\* Routes: past the destinations that are open and inactive at once (28).
CONSTANTS
    Counts            = {0, 1, 12, 16, 17, 23, 32, 34}
    NoRid             = NoRid
    Nothing           = Nothing
    MarkCounts        = {0, 1, 5, 8, 9, 64}
    PacketCounts      = {0, 1, 2, 5}
    DestinationCounts = {0, 1, 2, 8, 30}
SPECIFICATION Spec
INVARIANTS
    GroupsExact
    WakesOnce
    ResultExact
