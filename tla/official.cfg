SPECIFICATION Spec

CONSTANTS
    Outcomes <- MCOutcomes
    Cost <- MCCost
    SetPrice <- MCSetPrice
    MaxShares = 3
    BpsBase = 4
    FeeBps = 2
    CreatorBps = 1
    ExitFeeBps = 1
    Creator <- MCCreator
    Traders <- TwoTraders
    House <- MCHouse
    Staff <- TwoStaff
    Approvers <- NoOne
    Nobody <- MCNobody
    Exiters <- OneTrader
    MaxDrift = 2
    Disputants <- NoOne
    Endowment <- MCEndowment
    BondAmount = 0
    MinSeed = 1
    MaxSeed = 1
    MinContribution = 1
    MaxSponsors = 2
    OrganiserBps = 1
    FloorUsers = 1
    MinPool = 1
    MinBackers = 1
    Openings <- OnlyOfficial
    RoundsOpen = FALSE

INVARIANTS
    BooksAgree
    PotIdentity

PROPERTIES
    PayoutIsThePot

CHECK_DEADLOCK FALSE
