\* No payload, one, some, and past the 1229 different payload sizes; the largest
\* total and its first observation just fit MaxU64.
CONSTANTS
    Counts   = {0, 1, 2, 40, 1300}
    MaxU64   = 980692
    NoResult = NoResult
SPECIFICATION Spec
INVARIANTS
    RunningTotal
    ResultExact
