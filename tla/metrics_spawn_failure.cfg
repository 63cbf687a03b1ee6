\* Three threads, any spawn may fail.  The cycle really can hang then.
CONSTANTS
    WorkerCount  = 3
    Operations   = 1
    Payloads     <- MCPayloadOne
    MaxU64       <- MCMaxU64
    SpawnMayFail = TRUE
    Shared       = Shared
    NoResult     = NoResult
SPECIFICATION FairSpec
INVARIANT NoPartialResult
PROPERTIES
    StrandedForever
    FirstSpawnFailurePanics
CHECK_DEADLOCK FALSE
