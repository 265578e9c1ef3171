SPECIFICATION RunningSpec

CONSTANTS
    Calls <- WithRetry
    RequestOf <- RetryRequests
    Nodes <- TwoNodes
    Offline <- SecondNode
    Home <- RetryHome
    Free <- MCFree
    BatchSize = 2
    MaxCrashes = 1
    LocksExpire = TRUE
    MaxFailures = 1

INVARIANTS
    QueueInv
    TradedOnce
    FilledIsTraded

PROPERTIES
    InlineMovesOn

CHECK_DEADLOCK FALSE
