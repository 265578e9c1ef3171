SPECIFICATION Spec

CONSTANTS
    Outcomes <- MCOutcomes
    Cost <- MCCost
    SetPrice <- MCSetPrice
    MaxShares = 3
    BpsBase = 4
    FeeBps = 2
    CreatorBps = 1
    ExitFeeBps = 1
    Creator <- MCCreator
    Traders <- TwoTraders
    House <- MCHouse
    Staff <- OneStaff
    Approvers <- NoOne
    Nobody <- MCNobody
    Exiters <- NoOne
    MaxDrift = 2
    Disputants <- NoOne
    Endowment <- CreatorPurse
    BondAmount = 1
    MinSeed = 2
    MaxSeed = 2
    MinContribution = 1
    MaxSponsors = 2
    OrganiserBps = 1
    FloorUsers = 1
    MinPool = 1
    MinBackers = 1
    Openings <- OnlySeeded
    RoundsOpen = TRUE

INVARIANTS
    FailedRoundRefunds

CHECK_DEADLOCK FALSE
