\* Three threads, two payloads, every spawn succeeds.
CONSTANTS
    WorkerCount  = 3
    Operations   = 2
    Payloads     <- MCPayloads
    MaxU64       <- MCMaxU64
    SpawnMayFail = FALSE
    Shared       = Shared
    NoResult     = NoResult
SPECIFICATION FairSpec
INVARIANTS
    CountersExact
    BarrierHolds
    ResultExact
PROPERTIES
    ImplementsLedger
    CycleReturns
