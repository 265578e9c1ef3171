------------------------------ MODULE Windows ------------------------------
(***************************************************************************)
(* CommunityService and the opening half of OfficialMarketService: how a   *)
(* market comes to exist, and what happens when its window runs out.       *)
(***************************************************************************)
EXTENDS Settlement

\* CommunityService.create. The bond is escrowed with the market's row; an
\* organic market opens its funding window, a seeded one waits in draft.
CreateCommunity(how) ==
    /\ state = "absent"
    /\ shelf' = "community" /\ path' = how
    /\ state' = IF how = "organic" THEN "funding" ELSE "draft"
    /\ window' = (how = "organic")
    /\ IF BondAmount > 0
       THEN Hold(Creator, BondAmount) /\ bond' = "held"
       ELSE UNCHANGED <<avail, esc, bond>>
    /\ UNCHANGED <<started, bookVars, fees, issued, roundVars, flowVars, jobVars, settled>>

\* OfficialMarketService.openFromDraft, up to the seed.
CreateOfficial ==
    /\ state = "absent"
    /\ shelf' = "official" /\ state' = "draft"
    /\ UNCHANGED <<path, window, started, bookVars, moneyVars, bond, roundVars, flowVars, jobVars,
                   settled>>

\* decideActivation in `per_outcome` mode. No stake can leave a market that
\* is still funding, so a pool is what the outcome's stake says.
DecideActivation ==
    /\ Cardinality(Outcomes) >= 2
    /\ \E o \in Outcomes : Cardinality(Backers(o)) >= MinBackers
    /\ \A o \in Outcomes : staked[o] >= MinPool

\* A mutant that skips a market nobody has staked on.
FundingDueIfStaked == path = "organic" /\ state = "funding" /\ trades # {}

FundingDue == path = "organic" /\ state = "funding"

\* closeFundingWindow
CloseFundingWindow ==
    /\ FundingDue
    /\ IF DecideActivation
       THEN /\ state' = "active" /\ window' = FALSE
            /\ UNCHANGED <<shelf, path, started, bookVars, moneyVars, bond, roundVars, flowVars,
                           settled>>
       ELSE VoidAndRefund
    /\ UNCHANGED jobVars

DistinctBackers == UNION {Backers(o) : o \in Outcomes}

\* A mutant that counts the seeders as a crowd.
FloorMetWithSeeds ==
    Cardinality({u \in Accounts : Traded(u)}) >= FloorUsers

FloorMet == Cardinality(DistinctBackers) >= FloorUsers

\* closeParticipationWindow: a seed is not a crowd.
CloseParticipationWindow ==
    /\ path = "seeded"
    /\ state = "active" /\ window
    /\ IF FloorMet
       THEN /\ window' = FALSE
            /\ UNCHANGED <<state, shelf, path, started, bookVars, moneyVars, bond, roundVars,
                           flowVars, settled>>
       ELSE VoidAndRefund
    /\ UNCHANGED jobVars
=============================================================================
