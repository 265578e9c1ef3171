------------------------------ MODULE Trading ------------------------------
(***************************************************************************)
(* TradeService: buy and sell, each one transaction under the market's     *)
(* row lock. A request id is replayed before anything else happens, so a   *)
(* retry changes nothing here; TradeQueue models the retries.              *)
(***************************************************************************)
EXTENDS MarketState

\* The mutant trusts the flag and not the clock.
TradingOpenByFlag == state = "active"

\* lockAndLoad: the state and the clock, checked under the lock
TradingOpen == state = "active" /\ ~started

\* Neither the creator nor staff may buy; a sale has no such check.
MayBuy == Traders

Record(u, side, o) == trades' = trades \cup {<<u, side, o>>}

\* A mutant that prices a trade but moves the pot only by the seller's net.
PersistNet(u, o, s, money) ==
    /\ q' = Move(q, o, s)
    /\ staked' = Add(staked, o, money)
    /\ pot' = IF s < 0 THEN pot + money + ExitFee(-money) ELSE pot + money
    /\ pos' = [pos EXCEPT ![u][o] = @ + s]

(***************************************************************************)
(* persist and updatePosition: the outcome's shares and stake, the pot and *)
(* the user's position move together.                                      *)
(***************************************************************************)
Persist(u, o, s, money) ==
    /\ q' = Move(q, o, s)
    /\ staked' = Add(staked, o, money)
    /\ pot' = pot + money
    /\ pos' = [pos EXCEPT ![u][o] = @ + s]

Buy(u, o, s) ==
    /\ TradingOpen
    /\ u \in MayBuy
    /\ q[o] + s <= MaxShares
    /\ Hold(u, BuyCost(q, o, s))
    /\ Persist(u, o, s, BuyCost(q, o, s))
    /\ Record(u, "buy", o)
    /\ UNCHANGED <<lifeVars, fees, issued, bond, roundVars, flowVars, jobVars, settled>>

(***************************************************************************)
(* The seller's escrow gives up the full refund, whatever it held, and the *)
(* exit fee is taken from what arrived.                                    *)
(***************************************************************************)
SellLegs(u, refund) ==
    /\ esc' = Add(esc, u, -refund)
    /\ avail' = Add(avail, u, refund - ExitFee(refund))
    /\ fees' = fees + ExitFee(refund)

\* The position covers the sale; the engine asks the same of the outcome.
MaySell(u, o, s) == pos[u][o] >= s /\ q[o] >= s

\* Bound: MaxDrift.
Sell(u, o, s) ==
    /\ TradingOpen
    /\ u \in Exiters
    /\ MaySell(u, o, s)
    /\ SellRefund(q, o, s) > 0
    /\ staked[o] - SellRefund(q, o, s) >= -MaxDrift
    /\ SellLegs(u, SellRefund(q, o, s))
    /\ Persist(u, o, -s, -SellRefund(q, o, s))
    /\ Record(u, "sell", o)
    /\ UNCHANGED <<lifeVars, issued, bond, roundVars, flowVars, jobVars, settled>>
=============================================================================
