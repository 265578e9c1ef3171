----------------------------- MODULE Settlement -----------------------------
(***************************************************************************)
(* The two ways money leaves a market's escrow for good, and the bond's    *)
(* third: ResolutionService.resolve, MarketVoidService.voidAndRefund and   *)
(* the bond.forfeit executor of ApprovalsService.                          *)
(***************************************************************************)
EXTENDS MarketState

(***************************************************************************)
(* ResolutionService.resolve. The escrow of every user is read off the     *)
(* ledger, and a balance that is not positive is skipped.                  *)
(***************************************************************************)

\* The bond leaves escrow as a leg of its own.
BondLeg(u) == IF bond = "held" /\ u = Creator /\ esc[u] > 0 THEN BondAmount ELSE 0

\* A mutant that releases the escrow of those who still hold shares.
ReleasedToHolders(u) ==
    IF \A o \in Outcomes : pos[u][o] = 0 THEN 0 ELSE AtLeastZero(esc[u] - BondLeg(u))

Released(u) == IF esc[u] <= 0 THEN 0 ELSE AtLeastZero(esc[u] - BondLeg(u))

Losing(w) == LosingPool(pot, staked[w])

CreatorShare == IF shelf = "community" THEN CreatorCut ELSE 0

CreatorPart(w) == IF shelf = "community" THEN CreatorFee(Losing(w)) ELSE 0

\* creatorFeeLegs: the organiser's cut, then sponsors pro-rata to money in
FeeLeg(u, w) ==
    IF u \notin People \/ CreatorPart(w) = 0 THEN 0
    ELSE IF syn # "filled" THEN IF u = Creator THEN CreatorPart(w) ELSE 0
    ELSE (IF u = Creator THEN (CreatorPart(w) * OrganiserBps) \div BpsBase ELSE 0)
         + (CreatorPart(w) * (BpsBase - OrganiserBps) * contrib[u])
               \div (BpsBase * Contributions)

Payout(u, w) == ProRataPayout(pot, Losing(w), pos[u][w], q[w])

PlatformPart(w) == PlatformFee(Losing(w), CreatorShare)

\* What the postings sum to before balanceOnLargestPayout.
Residual(w) ==
    Total([u \in Accounts |-> Payout(u, w) + FeeLeg(u, w) - Released(u)]) + PlatformPart(w)

\* balanceOnLargestPayout: the smallest payout absorbs the residual.
PayoutLegs(w) == {u \in Accounts : Payout(u, w) > 0}

Absorbers(w) == {u \in PayoutLegs(w) : \A v \in PayoutLegs(w) : Payout(u, w) <= Payout(v, w)}

\* The engine's two refusals: every winning share is attributed, and a pot
\* with no winning share outstanding cannot be paid to anybody.
EngineAccepts(w) ==
    /\ SharesHeld(w) = q[w]
    /\ q[w] <= 0 => pot * BpsBase = Losing(w) * FeeBps

Paid(u, w, t) ==
    BondLeg(u) + FeeLeg(u, w) + Payout(u, w) - (IF u = t THEN Residual(w) ELSE 0)

\* assertBalanced: two or more legs, each finite and none of zero, summing
\* to zero.
Postable(w, t) ==
    /\ \A u \in Accounts : Paid(u, w, t) \in Int
    /\ Residual(w) # 0 => t \in Absorbers(w) /\ Payout(t, w) # Residual(w)
    /\ \/ PlatformPart(w) > 0
       \/ \E u \in Accounts :
             Released(u) > 0 \/ BondLeg(u) > 0 \/ FeeLeg(u, w) > 0 \/ Payout(u, w) > 0

\* A mutant that releases stakes and leaves the bond where it is.
EscrowAfterStakes(u) == esc[u] - Released(u)

EscrowAfter(u) == esc[u] - Released(u) - BondLeg(u)

\* Only a market that is not settled yet is resolved.
MayResolve == state \notin {"resolved", "voided"}

CanResolve(w) == MayResolve /\ EngineAccepts(w) /\ \E t \in Accounts : Postable(w, t)

Resolve(w) ==
    /\ MayResolve
    /\ EngineAccepts(w)
    /\ \E t \in Accounts :
          /\ Postable(w, t)
          /\ avail' = [u \in Accounts |-> avail[u] + Paid(u, w, t)]
    /\ esc' = [u \in Accounts |-> EscrowAfter(u)]
    /\ fees' = fees + PlatformPart(w)
    /\ state' = "resolved"
    /\ pot' = 0
    /\ bond' = IF bond = "held" THEN "refunded" ELSE bond
    /\ proposer' = Nobody
    /\ Settle("paid")
    /\ UNCHANGED <<shelf, path, window, started, q, staked, pos, trades, issued, roundVars,
                   dispClock, disputes>>

(***************************************************************************)
(* MarketVoidService.voidAndRefund, called under the row lock.             *)
(***************************************************************************)

\* A mutant that refunds stakes and keeps the bond back.
RefundStakes(u) == AtLeastZero(esc[u] - BondLeg(u))

\* Everything a user has in escrow, whichever way it got there.
Refund(u) == AtLeastZero(esc[u])

VoidAndRefund ==
    /\ avail' = [u \in Accounts |-> avail[u] + Refund(u)]
    /\ esc' = [u \in Accounts |-> esc[u] - Refund(u)]
    /\ bond' = IF bond = "held" THEN "refunded" ELSE bond
    /\ syn' = IF syn = "open" THEN "refunded" ELSE syn
    /\ state' = "voided" /\ window' = FALSE
    /\ pot' = 0 /\ staked' = Empty /\ q' = Empty
    /\ pos' = [u \in Accounts |-> Empty]
    /\ Settle("refunded")
    /\ UNCHANGED <<shelf, path, started, trades, fees, issued, contrib, roundOver, flowVars>>

\* The market.void_after_activation executor: two admins, under the lock.
VoidAfterActivation ==
    /\ state \notin {"absent", "resolved", "voided"}
    /\ VoidAndRefund
    /\ UNCHANGED jobVars

(***************************************************************************)
(* The bond.forfeit executor reads the bond without a lock. Its postings   *)
(* wait for whoever holds the market's row, and are written whatever that  *)
(* transaction did to the bond.                                            *)
(***************************************************************************)

ForfeitRead(a) ==
    /\ ~forfeiting[a]
    /\ bond = "held"
    /\ forfeiting' = [forfeiting EXCEPT ![a] = TRUE]
    /\ UNCHANGED <<lifeVars, bookVars, moneyVars, bond, roundVars, flowVars, sweep, deciding,
                   finalizing, settled>>

ForfeitLegs ==
    /\ esc' = Add(esc, Creator, -BondAmount)
    /\ fees' = fees + BondAmount
    /\ UNCHANGED avail

ForfeitCommit(a) ==
    /\ forfeiting[a]
    /\ forfeiting' = [forfeiting EXCEPT ![a] = FALSE]
    /\ ForfeitLegs
    /\ bond' = "forfeited"
    /\ UNCHANGED <<lifeVars, bookVars, issued, roundVars, flowVars, sweep, deciding,
                   finalizing, settled>>
=============================================================================
