SPECIFICATION Spec

CONSTANTS
    Calls <- Pair
    RequestOf <- PairRequests
    Nodes <- TwoNodes
    Offline <- NoNode
    Home <- PairHome
    Free <- MCFree
    BatchSize = 2
    MaxCrashes = 0
    LocksExpire = FALSE
    MaxFailures = 0

INVARIANTS
    WaitingIsListed

CHECK_DEADLOCK FALSE
