SPECIFICATION Spec
CONSTANTS
    Parts = {"Reconciliation", "Deadlines", "PriceFeed", "LedgerAudit"}
    Processes = {"api", "worker"}
    MaxVersions = 3
    Accounts = {"a", "b"}
    MaxPosts = 1
    MaxRecons = 1
    Window = 2
    Attempts = 2
    MaxLosses = 1
    MaxCrashes = 2
    Horizon = 5
    MaxTrades = 3
    MaxClock = 2
    MaxFaults = 1
    Traders = {"u1", "u2"}
    Posters = {"p1", "p2"}
    Balance = 1
    MaxRuns = 1
    MaxUpdates = 3
CHECK_DEADLOCK FALSE
INVARIANT
    AuditIsTrue
PROPERTIES
    ConfigHolds
    WindowsHaveJobs
    ScreenCatchesUp
