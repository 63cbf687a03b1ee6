\* Routes without a destination, with a blocked inactive one only, and past
\* the second inactive (7) and the second blocked (11) destination.
CONSTANTS
    Counts = {0, 1, 2, 8, 12}
    NoGate = NoGate
SPECIFICATION BatchSpec
INVARIANTS
    UpdatesLand
    ResultCounts
