------------------------------- MODULE Market -------------------------------
(***************************************************************************)
(* The life of one market, from its creation to the payout or the refund:  *)
(* every service that locks, reads or writes the market's row, composed.   *)
(* The properties below are about what those services do to one another.   *)
(***************************************************************************)
EXTENDS Trading, Seeding, Windows, ResolutionFlow

CONSTANTS
    Openings,     \* the ways the market may be opened in this instance
    RoundsOpen    \* whether the creator may ask for a seeding round

ASSUME OpeningsAssumption ==
    Openings \subseteq {"organic", "seeded", "official"} /\ RoundsOpen \in BOOLEAN

Opening ==
    \/ \E how \in Openings \ {"official"} : CreateCommunity(how)
    \/ "official" \in Openings /\ CreateOfficial

SeedingStep ==
    \/ \E k \in MinSeed .. MaxSeed : SeedSolo(k)
    \/ \E k \in 1 .. MaxSeed : SeedOfficial(k)
    \/ RoundsOpen /\ OpenSeedingRound
    \/ \E u \in People, k \in 1 .. MaxSeed : Contribute(u, k)

TradingStep ==
    \/ \E u \in People, o \in Outcomes, s \in 1 .. MaxShares : Buy(u, o, s)
    \/ \E u \in Exiters, o \in Outcomes, s \in 1 .. MaxShares : Sell(u, o, s)

Deadlines ==
    \/ RoundEnds
    \/ CloseSeedingRound
    \/ CloseFundingWindow
    \/ CloseParticipationWindow
    \/ EventStarts
    \/ SweepRead
    \/ SweepWrite
    \/ DisputeWindowEnds

ResolutionStep ==
    \/ \E p \in Staff \cup {Creator} : Propose(p)
    \/ \E u \in Disputants : FileDispute(u)
    \/ \E s \in Staff, u \in Disputants : DecideRead(s, u)
    \/ \E s \in Staff, verdict \in {"upheld", "rejected"} : DecideWrite(s, verdict)
    \/ \E s \in Staff, w \in Outcomes : FinalizeCheck(s, w)
    \/ \E s \in Staff : FinalizePay(s) \/ FinalizeFail(s) \/ FinalizeTidy(s)

ApprovalStep ==
    \/ VoidAfterActivation
    \/ \E a \in Approvers : ForfeitRead(a) \/ ForfeitCommit(a)

Next == Opening \/ SeedingStep \/ TradingStep \/ Deadlines \/ ResolutionStep \/ ApprovalStep

Spec == Init /\ [][Next]_vars

(***************************************************************************)
(* FundingWindowWorker retries a deadline job and re-arms every open       *)
(* deadline from the database on boot, and the sweep repeats: a deadline   *)
(* that stays due is met. Nobody else has to act.                          *)
(***************************************************************************)
Punctual ==
    /\ WF_vars(RoundEnds) /\ WF_vars(CloseSeedingRound)
    /\ WF_vars(CloseFundingWindow) /\ WF_vars(CloseParticipationWindow)
    /\ WF_vars(EventStarts) /\ WF_vars(SweepRead) /\ WF_vars(SweepWrite)

PunctualSpec == Spec /\ Punctual

(***************************************************************************)
(* Conservation.                                                           *)
(***************************************************************************)

\* LedgerService posts only balanced movements: whatever buys, exits, seeds,
\* payouts, refunds and forfeits do in which order, the balances and the fees
\* add up to what was there and what was issued.
MoneyConserved ==
    Total(avail) + Total(esc) + fees = Total(Endowment) + issued

BondInEscrow == IF bond = "held" THEN BondAmount ELSE 0

RoundInEscrow == IF syn = "open" THEN Contributions * SetPrice ELSE 0

\* Until the pot is paid or refunded, escrow holds exactly the pot, the
\* conduct bond and the contributions of an open seeding round. The nightly
\* LedgerAuditService.escrowMatchesOpenMarkets compares it with the first two.
EscrowBacksPot ==
    settled = "none" => Total(esc) = pot + BondInEscrow + RoundInEscrow

\* The engine's pot identity on the stored rows: pot = C(q) - C(q0), through
\* buys, exits with their fee, and seeds (assertInvariants).
PotIdentity == settled = "none" => pot = Cost(q) - Cost(Empty)

\* Stakes per outcome sum to the pot to the digit (stakedMatchesPot), though
\* a single one may be negative.
StakedIsPot ==
    settled # "paid" => Total(staked) = pot

\* Every outstanding share is somebody's position. ResolutionService cannot
\* pay a market for which this fails: the engine refuses it.
PositionsAreShares == \A o \in Outcomes : SharesHeld(o) = q[o]

(***************************************************************************)
(* Settlement.                                                             *)
(***************************************************************************)

Exited(u) == \E o \in Outcomes : <<u, "sell", o>> \in trades

\* A settled market keeps nothing: no escrow is positive, and a user who
\* never sold is at zero, whether stake, seed, contribution or bond.
NothingLeftBehind ==
    settled # "none" =>
        /\ bond # "held"
        /\ \A u \in Accounts : esc[u] <= 0 /\ (Exited(u) \/ esc[u] = 0)

\* A void returns every naira: where nobody has sold, everybody's balance is
\* back to where it was, the house's with the issued seed and the creator's
\* without a bond that was forfeited.
VoidMakesWhole ==
    (settled = "refunded" /\ ~\E u \in Accounts : Exited(u)) =>
        \A u \in Accounts :
            avail[u] = Endowment[u]
                       + (IF u = House THEN issued ELSE 0)
                       - (IF u = Creator /\ bond = "forfeited" THEN BondAmount ELSE 0)

\* A seeding round that is still open is short of its minimum: `contribute`
\* fills in the transaction that reaches it, so closeSeedingRound's second
\* look never finds a full round (its "belt and braces" branch).
OpenRoundIsShort == syn = "open" => ~(Contributions >= MinTotal)

\* The creator of a market that trades holds as much of one outcome as of
\* any other: the symmetric seed takes no side.
CreatorTakesNoSide ==
    ~Exited(Creator) => \A o, p \in Outcomes : pos[Creator][o] = pos[Creator][p]

\* What a backer of somebody else's question is promised: it costs nothing if
\* the market is called off, and its creator has no side in it.
FairToBackers == VoidMakesWhole /\ CreatorTakesNoSide

\* The money is all there, the escrow backs the pot, and the four places a
\* trade is written to, the pot, the outcome, its shares and the position,
\* tell the same story at every commit; a market that closed keeps nothing.
BooksAgree ==
    /\ MoneyConserved
    /\ EscrowBacksPot
    /\ StakedIsPot
    /\ PositionsAreShares
    /\ NothingLeftBehind

\* The money of a settled market moves once: no balance changes after the
\* payout or the refund, whatever jobs, votes and finalisations come late.
NoSecondSettlement == [][settled # "none" => UNCHANGED avail]_vars

\* Nobody's sales have eaten into another's escrow, or into the bond.
NobodyOwes == \A u \in Accounts : esc[u] >= BondLeg(u)

\* A payout empties the pot and the held bond into balances and fees,
\* exactly, when no round is open and nobody has sold at a profit.
PayoutIsThePot ==
    [][(settled = "none" /\ settled' = "paid" /\ syn # "open" /\ NobodyOwes) =>
        Total(avail') + fees' = Total(avail) + fees + pot + BondInEscrow]_vars

(***************************************************************************)
(* The market's services keep the promise made about the money: settled    *)
(* once, emptied by it, untouched afterwards.                              *)
(***************************************************************************)
Promise == INSTANCE EscrowPromise WITH
    phase <- IF settled = "none" THEN "open" ELSE settled,
    held <- Total(esc),
    free <- Total(avail) + fees

\* While nobody sells at another's expense, whatever the services do to one
\* another is a deposit, a withdrawal, one closing or no movement at all.
KeepsThePromise == Promise!PromiseSpec

(***************************************************************************)
(* Procedure.                                                              *)
(***************************************************************************)

\* Money is paid by a member of staff who did not propose the result, after
\* the window has run out or a dispute was heard: finalize's checks, still
\* true when the payout commits several reads later.
PayoutIsReviewed ==
    [][(settled = "none" /\ settled' = "paid") =>
        \E s \in Staff :
            /\ finalizing[s] \in Outcomes /\ finalizing'[s] = "tidy"
            /\ proposer \notin {s, Nobody}
            /\ dispClock = "over" \/ \E u \in Disputants : disputes[u] # "none"]_vars

\* Trading closes at the event: positions and shares outstanding are those
\* of the start, until a seed opens the market late or a void clears it.
BookClosesAtEvent ==
    [][started => trades' \ trades \subseteq Accounts \X {"seed"} \X Outcomes]_vars

\* A seeded market whose window was confirmed had its crowd: at least the
\* floor's number of people, the creator and the seed not among them.
FloorIsACrowd ==
    [][(state = "active" /\ path = "seeded" /\ window /\ state' = "active" /\ ~window') =>
        Cardinality({u \in Traders : \E o \in Outcomes : <<u, "buy", o>> \in trades})
            >= FloorUsers]_vars

\* What the clock decides is decided by the clock: trading ends at the event,
\* and a market is confirmed at its deadline by the people who came.
ClockRules == BookClosesAtEvent /\ FloorIsACrowd

(***************************************************************************)
(* The invariant behind them: what no two services can leave behind.       *)
(***************************************************************************)

\* A round that was never opened has no contributions, and one that is open
\* is short of its minimum.
RoundsAreShort ==
    /\ syn = "none" => \A u \in People : contrib[u] = 0
    /\ OpenRoundIsShort

\* A settled market has no pot, no held bond and nothing to release: there
\* is no state it can be swept or proposed into from which money moves.
SettledIsClosed ==
    settled # "none" =>
        /\ pot = 0 /\ bond # "held"
        /\ state \in {"pending_resolution", "dispute_window", "resolved", "voided"}
        /\ \A u \in Accounts : esc[u] <= 0

\* What a finaliser has checked stays true until somebody pays, and the
\* update that follows a payout finds the market paid.
ChecksHold ==
    \A s \in Staff :
        /\ finalizing[s] = "tidy" => settled # "none"
        /\ (finalizing[s] \in Outcomes /\ settled = "none") =>
              /\ proposer \notin {s, Nobody}
              /\ WindowServed

MarketInv == TypeOK /\ PotIdentity /\ RoundsAreShort /\ SettledIsClosed /\ ChecksHold

(***************************************************************************)
(* Progress, under Punctual.                                               *)
(***************************************************************************)

\* A seeding round does not stay open.
RoundsClose == syn = "open" ~> syn # "open"

\* A funding window does not stay open, and a seeded market does not trade
\* forever on an unmeasured floor.
WindowsClose ==
    /\ state = "funding" ~> state # "funding"
    /\ (state = "active" /\ path = "seeded" /\ window) ~> (state # "active" \/ ~window)

\* Every market stops showing as open for trading once its event has begun.
EventsFreeze == (state = "active" /\ started) ~> state # "active"

\* Rounds, windows and trading all come to their end.
DeadlinesComeTrue == RoundsClose /\ WindowsClose /\ EventsFreeze

(***************************************************************************)
(* What the documents say and the code does not keep.                      *)
(***************************************************************************)

\* A resolution "pays winners only from each market's escrowed pot".
PaysOnlyFromThePot ==
    [][(settled = "none" /\ settled' = "paid" /\ syn # "open") =>
        Total(avail') + fees' <= Total(avail) + fees + pot + BondInEscrow]_vars

\* The freeze sweep only closes trading: "it is the state catching up with
\* the control". A market in review or settled is not taken back.
SweepOnlyFreezes ==
    [][(state \in {"dispute_window", "resolved", "voided"}) => state' # "pending_resolution"]_vars

\* "a round that fails refunds from escrow": a sponsor whose round was not
\* filled, and who never traded, has the contribution back.
FailedRoundRefunds ==
    syn = "refunded" => \A u \in Traders : Traded(u) \/ avail[u] = Endowment[u]

\* "this bond is already refunded" (approvals.service.ts:277): a bond that went
\* back to its creator is not forfeited afterwards.
BondLeavesOnce == [][bond = "refunded" => bond' = "refunded"]_vars
=============================================================================
