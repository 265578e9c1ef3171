SPECIFICATION RunningSpec

CONSTANTS
    Calls <- Pair
    RequestOf <- PairRequests
    Nodes <- TwoNodes
    Offline <- NoNode
    Home <- PairHome
    Free <- MCFree
    BatchSize = 2
    MaxCrashes = 2
    LocksExpire = FALSE
    MaxFailures = 0

INVARIANTS
    OneWorkerAtATime
    InOrder

PROPERTIES
    LockComesBack

CHECK_DEADLOCK FALSE
