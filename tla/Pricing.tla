------------------------------ MODULE Pricing ------------------------------
(***************************************************************************)
(* The arithmetic of the engine package (packages/engine/src): what a      *)
(* trade costs, what an exit refunds, what a resolution pays.              *)
(*                                                                         *)
(* Money and shares are whole numbers of the smallest storable unit. The   *)
(* logarithmic cost curve is a parameter: what the engine and the services *)
(* rely on is that it is monotone in every outcome and that one share of   *)
(* every outcome together always costs one full set, SetPrice. Divisions   *)
(* round down, as every posting does on its way into Decimal(38,18).       *)
(***************************************************************************)
EXTENDS Integers, FiniteSets, Functions

CONSTANTS
    Outcomes,     \* the outcomes of the market
    Cost(_),      \* C(q): money in the pot for the share vector q, up to C(0)
    SetPrice,     \* money one share of every outcome costs: 1 SPC
    MaxShares,    \* bound: shares outstanding of one outcome
    BpsBase,      \* 100% in the unit of the rates below (10,000 bps)
    FeeBps,       \* market.feeBps, charged on the losing pool
    CreatorBps,   \* market.creatorBps, the creator's part of FeeBps
    ExitFeeBps    \* exit_fee_rate, withheld from a seller

ShareVectors == [Outcomes -> 0 .. MaxShares]

Empty == [o \in Outcomes |-> 0]

\* k more shares of every outcome
Shift(f, k) == [o \in Outcomes |-> f[o] + k]

\* s more shares of outcome o (s < 0: fewer)
Move(f, o, s) == [f EXCEPT ![o] = @ + s]

ASSUME OutcomesAssumption == IsFiniteSet(Outcomes) /\ Outcomes # {}

ASSUME RatesAssumption ==
    /\ SetPrice \in Nat \ {0} /\ MaxShares \in Nat /\ BpsBase \in Nat \ {0}
    /\ FeeBps \in 1 .. BpsBase /\ ExitFeeBps \in 0 .. BpsBase /\ CreatorBps \in Nat

ASSUME CostAssumption ==
    /\ \A f \in ShareVectors : Cost(f) \in Nat
    /\ \A f \in ShareVectors, k \in 0 .. MaxShares :
          Shift(f, k) \in ShareVectors => Cost(Shift(f, k)) = Cost(f) + k * SetPrice
    /\ \A f \in ShareVectors, o \in Outcomes, s \in 1 .. MaxShares :
          Move(f, o, s) \in ShareVectors => Cost(f) < Cost(Move(f, o, s))

(***************************************************************************)
(* Trades. A buyer names an amount and the engine grants the shares it     *)
(* buys; the model names the shares, which have exactly one price.         *)
(***************************************************************************)

BuyCost(f, o, s) == Cost(Move(f, o, s)) - Cost(f)

SellRefund(f, o, s) == Cost(f) - Cost(Move(f, o, -s))

ExitFee(refund) == (refund * ExitFeeBps) \div BpsBase

(***************************************************************************)
(* Resolution. The losing pool is the fee's basis: the pot less what was   *)
(* staked on the winner, clamped into the pot because net stakes can be    *)
(* negative. Fee legs and payouts are rounded down one by one.             *)
(***************************************************************************)

AtLeastZero(n) == IF n < 0 THEN 0 ELSE n

Smaller(m, n) == IF m < n THEN m ELSE n

LosingPool(money, onWinner) == Smaller(AtLeastZero(money - onWinner), AtLeastZero(money))

\* A creator share above the market's own fee is clamped to it.
CreatorCut == Smaller(CreatorBps, FeeBps)

CreatorFee(losing) == (losing * CreatorCut) \div BpsBase

PlatformFee(losing, creatorShare) == (losing * (FeeBps - creatorShare)) \div BpsBase

\* distributable * shares / outstanding, rounded down
ProRataPayout(money, losing, shares, outstanding) ==
    IF outstanding <= 0 THEN 0
    ELSE ((money * BpsBase - losing * FeeBps) * shares) \div (BpsBase * outstanding)
=============================================================================
