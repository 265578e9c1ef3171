SPECIFICATION Spec
CONSTANTS
    Hands = {h1, h2}
    Topics = {politics, sport}
    Staff = {"ann", "ben", "cat"}
    MoneyRole = {"ann", "ben"}
    Ids = {"p1"}
    Users = {"uche"}
    MaxRuns = 2
    MinTier = 0
    Stakers = {"r1", "r2", "r3"}
    Markets = {"m1", "m2"}
    MarketOf <- MarketOfStake
    Contributions = {"r3"}
    Changes = {"c1"}
    Balance = 1
    PlatformStake = 1
    PlatformLoss = 2
    MaxCoolOff = 1
    MaxDays = 1
    Accounts = {"a"}
    Nodes = {"n1"}
    Points = 2
    AddressPoints = 3
    Duration = 2
    Block = 2
    LimitHorizon = 3
    User = "uche"
    Desk = {"s1", "s2"}
    Sla = 1
    MaxReplies = 3
    Horizon = 3
    Tokens = {"t1", "t2"}
    MaxMoves = 2
    Drafts = {"d1", "d2"}
    MarketIds = {1, 2}
    Size = 1
SYMMETRY Alike
CHECK_DEADLOCK FALSE
INVARIANTS
    FourEyes
    OnlyTogether
    BurstBound
    WhoseTurn
    DutiesApart
    ShelfHolds
