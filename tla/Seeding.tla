------------------------------ MODULE Seeding ------------------------------
(***************************************************************************)
(* SeedService: the creator's solo seed, the house's official seed, and    *)
(* the seeding round a syndicate fills. Every method takes the row lock.   *)
(* Seeds and contributions are counted in full sets, so a sponsor's share  *)
(* of every outcome is what the sponsor paid for.                          *)
(***************************************************************************)
EXTENDS Settlement

\* lockSeedable
Seedable(states, onShelf) ==
    /\ state \in states
    /\ shelf = onShelf
    /\ ~HasTraded

BeforeOpening == {"draft", "funding", "seeding"}

\* The engine seeds flat prices only; MaxShares bounds the model.
SeedAccepted(k) ==
    /\ k \in 1 .. MaxShares
    /\ \A o, p \in Outcomes : q[o] = q[p]
    /\ Shift(q, k) \in ShareVectors

\* An equal part in each pool, the last pool carrying the remainder.
LastOutcome == CHOOSE o \in Outcomes : TRUE

SeedStake(k, o) ==
    LET part == (k * SetPrice) \div Cardinality(Outcomes)
    IN  IF o = LastOutcome THEN k * SetPrice - part * (Cardinality(Outcomes) - 1) ELSE part

(***************************************************************************)
(* applySeed: k sets of shares, given[u] of them to u.                     *)
(***************************************************************************)
ApplySeed(k, given) ==
    /\ SeedAccepted(k)
    /\ q' = Shift(q, k)
    /\ staked' = [o \in Outcomes |-> staked[o] + SeedStake(k, o)]
    /\ pot' = pot + k * SetPrice
    /\ pos' = [u \in Accounts |-> Shift(pos[u], given[u])]
    /\ trades' = trades \cup {<<u, "seed", o>> : u \in {v \in Accounts : given[v] > 0},
                                                 o \in Outcomes}

Only(u, k) == [v \in Accounts |-> IF v = u THEN k ELSE 0]

\* Open for trading, with a fresh participation window.
Activate == state' = "active" /\ path' = "seeded" /\ window' = TRUE

\* seedSolo. It looks at the market, and not at an open round.
SeedSolo(k) ==
    /\ k >= MinSeed
    /\ Seedable(BeforeOpening, "community")
    /\ Hold(Creator, k * SetPrice)
    /\ ApplySeed(k, Only(Creator, k))
    /\ Activate
    /\ UNCHANGED <<shelf, started, fees, issued, bond, roundVars, flowVars, jobVars, settled>>

\* seedOfficial: issued to the house and escrowed in one transaction.
SeedOfficial(k) ==
    /\ k >= 1
    /\ Seedable({"draft"}, "official")
    /\ issued' = issued + k * SetPrice
    /\ esc' = Add(esc, House, k * SetPrice)
    /\ ApplySeed(k, Only(House, k))
    /\ state' = "active" /\ path' = "seeded"
    /\ UNCHANGED <<shelf, window, started, avail, fees, bond, roundVars, flowVars, jobVars,
                   settled>>

\* openSeedingRound: one round per market, ever.
OpenSeedingRound ==
    /\ Seedable(BeforeOpening, "community")
    /\ syn = "none"
    /\ syn' = "open" /\ roundOver' = FALSE
    /\ state' = "seeding" /\ path' = "seeded"
    /\ UNCHANGED <<shelf, window, started, bookVars, moneyVars, bond, contrib, flowVars, jobVars,
                   settled>>

\* The clock passes roundEndsAt.
RoundEnds ==
    /\ syn = "open" /\ ~roundOver
    /\ roundOver' = TRUE
    /\ UNCHANGED <<lifeVars, bookVars, moneyVars, bond, syn, contrib, flowVars, jobVars, settled>>

Sponsors(c) == {u \in People : c[u] > 0}

MinTotal == MinSeed

\* A mutant that seeds the minimum and leaves the surplus in escrow.
FillMinimum(c) ==
    /\ ApplySeed(MinTotal, [u \in Accounts |-> IF u \in People THEN c[u] ELSE 0])
    /\ syn' = "filled"
    /\ Activate

\* fill: the whole of what was contributed is the seed.
Fill(c) ==
    /\ ApplySeed(Total(c), [u \in Accounts |-> IF u \in People THEN c[u] ELSE 0])
    /\ syn' = "filled"
    /\ Activate

\* A mutant that fills the round one contribution late.
RoundReachedLate(total) == total > MinTotal

RoundReached(total) == total >= MinTotal

\* contribute: the money is escrowed, and the contribution that reaches the
\* minimum fills the round in the same transaction.
Contribute(u, k) ==
    /\ Seedable({"seeding"}, "community")
    /\ syn = "open" /\ ~roundOver
    /\ k >= MinContribution
    /\ u \in Sponsors(contrib) \/ Cardinality(Sponsors(contrib)) < MaxSponsors
    /\ Hold(u, k * SetPrice)
    /\ contrib' = Add(contrib, u, k)
    /\ IF RoundReached(Total(contrib'))
       THEN Fill(contrib')
       ELSE UNCHANGED <<state, path, window, bookVars, syn>>
    /\ UNCHANGED <<shelf, started, fees, issued, bond, roundOver, flowVars, jobVars, settled>>

RoundDue == syn = "open" /\ roundOver

\* closeSeedingRound, at the deadline: the round is still open, so refund
\* (or fill, were the minimum reached). The market's own state is not read.
CloseSeedingRound ==
    /\ RoundDue
    /\ IF RoundReached(Contributions)
       THEN /\ Fill(contrib)
            /\ UNCHANGED <<shelf, started, moneyVars, bond, contrib, roundOver, flowVars, settled>>
       ELSE VoidAndRefund
    /\ UNCHANGED jobVars
=============================================================================
