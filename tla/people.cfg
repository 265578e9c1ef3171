SPECIFICATION Spec
CONSTANTS
    Parts = {
        "Verification", "Sessions", "SecondFactor", "AbuseDesk", "CreatorLadder", "Nudges",
        "Threads", "Challenges", "Opportunities", "Leaderboard", "Following",
        "TradeSheet", "CreateForm"}
    Hands = {h1, h2}
    Outcomes = {"yes", "no"}
    Reviewers = {"v1"}
    Signups = {"s1", "s2"}
    MaxAttempts = 2
    MaxCodes = 2
    TokenLife = 2
    EntryLife = 3
    SessionHorizon = 4
    MaxSecrets = 3
    Sweepers = {"w1"}
    Others = {"o1"}
    WashWindow = 0
    WashCycles = 1
    Flood = 2
    Cluster = 2
    MaxTrades = 3
    AbuseHorizon = 2
    Markets = {m1, m2}
    Level2Clean = 1
    Level3Clean = 1
    Level3Volume = 0
    Level3Rate = 90
    MaxLive <- LiveByLevel
    Demotion = TRUE
    WindowCloses = 1
    EventAt = 1
    ProposalHours = 1
    MinHours = 1
    Floor = 1
    NudgeHorizon = 3
    Authors = {"ann"}
    Reporters = {"ben", "cat"}
    Comments = {"k1"}
    Threshold = 2
    PerHour = 2
    Winner = "yes"
    People = {"p1", "p2", "p3"}
    MaxOpens = 1
    MinSearchers = 2
    Creators = {"c1", "c2"}
    Ttl = 2
    GapHorizon = 3
    Players = {1, 2, 3}
    Seeder = 1
    BoardMarkets = {"m1"}
    Weeks = {1, 2}
    MinSettled = 1
    MinTier = 1
    BoardSweeps = {"s1"}
    Fans = {"f1", "f2"}
    MaxToggles = 4
    Presses = {1, 2}
    MaxOpened = 2
    Contents = {0, 1, 2, 3}
    MaxSends = 2
SYMMETRY Alike
CHECK_DEADLOCK FALSE
INVARIANTS
    ContactHolds
    EndedStaysEnded
    ConfirmedWasProved
    LadderHolds
    NudgesKeepTime
    HeldUntilPublished
    StandingsHold
    CountIsRows
PROPERTIES
    FlagsAreFair
    OffersStand
    
