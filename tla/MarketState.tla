---------------------------- MODULE MarketState ----------------------------
(***************************************************************************)
(* One market: its row and everything the services keep about it (schema   *)
(* models Market, Outcome, Position, Trade, Bond, Syndicate, Resolution,   *)
(* Dispute), the users' balances, and the jobs that read it in one step    *)
(* and write it in a later one. Each service is a module over this state.  *)
(*                                                                         *)
(* A service method that takes the market's row lock (SELECT ... FOR       *)
(* UPDATE) is one action: nothing else that locks the row can fall between *)
(* its reads and its commit. A method that reads without the lock is two   *)
(* actions, and what it read is kept in one of the job variables.          *)
(***************************************************************************)
EXTENDS Pricing

CONSTANTS
    Creator,          \* the community market's creator
    Traders,          \* users with role `user`
    House,            \* sys_platform
    Staff,            \* resolvers and admins: propose, decide, finalise
    Approvers,        \* admins who may sign a bond.forfeit
    Nobody,           \* no user, no outcome
    Exiters,          \* users who may sell before the event
    MaxDrift,         \* bound: how far exits may take an outcome's stake below zero
    Disputants,       \* users who may dispute
    Endowment,        \* each account's available balance at the start
    BondAmount,       \* conduct_bond_spc, after the creator's multiplier
    MinSeed,          \* sets: symmetric_seed_per_outcome_spc over all pools
    MaxSeed,          \* bound: sets in one seed or one contribution
    MinContribution,  \* sets: syndicate_min_contribution_spc
    MaxSponsors,      \* syndicate_max_sponsors
    OrganiserBps,     \* the organiser's cut of the syndicate fee
    FloorUsers,       \* participation_floor_users
    MinPool,          \* community_activation_pool_spc
    MinBackers        \* community_activation_backers

VARIABLES
    state,       \* market.state; "absent" before the row exists
    shelf,       \* market.shelf
    path,        \* market.activationPath
    window,      \* market.fundingClosesAt is set
    started,     \* the clock has passed market.eventDate
    q,           \* outcome.sharesOutstanding
    staked,      \* outcome.stakedTotal, which exits can make negative
    pot,         \* market.potTotal
    pos,         \* position.shares of every user and outcome
    trades,      \* trade rows, as <<user, side, outcome>>
    avail,       \* user_available of every account
    esc,         \* user_escrow of every account in this market
    fees,        \* platform_fees
    issued,      \* SPC issued to the house
    bond,        \* bond.state; "none" without a row
    syn,         \* syndicate.state; "none" without a row
    contrib,     \* syndicateMember.contribution, in sets
    roundOver,   \* the clock has passed syndicate.roundEndsAt
    proposer,    \* proposedBy of the open resolution row, or Nobody
    dispClock,   \* market.disputeClosesAt: "none", "running" or "over"
    disputes,    \* dispute.state of each disputant; "none" without a row
    sweep,       \* the freeze sweep holds this market in its list
    deciding,    \* the dispute a staff member has read as open
    finalizing,  \* the outcome a staff member has checked and will pay
    forfeiting,  \* an approver has read the bond as held
    settled      \* history: how the pot left escrow, the first time

People == Traders \cup {Creator}
Accounts == People \cup {House}

lifeVars  == <<state, shelf, path, window, started>>
bookVars  == <<q, staked, pot, pos, trades>>
moneyVars == <<avail, esc, fees, issued>>
roundVars == <<syn, contrib, roundOver>>
flowVars  == <<proposer, dispClock, disputes>>
jobVars   == <<sweep, deciding, finalizing, forfeiting>>
vars == <<lifeVars, bookVars, moneyVars, bond, roundVars, flowVars, jobVars, settled>>

States == {"absent", "draft", "seeding", "funding", "active", "frozen",
           "pending_resolution", "dispute_window", "resolved", "voided"}

ASSUME PeopleAssumption ==
    /\ IsFiniteSet(Traders) /\ Creator \notin Traders
    /\ House \notin People /\ Nobody \notin Accounts \cup Staff \cup Outcomes
    /\ Staff \cap Accounts = {} /\ "tidy" \notin Outcomes \cup {Nobody}
    /\ Exiters \subseteq People /\ Disputants \subseteq People

ASSUME AmountsAssumption ==
    /\ Endowment \in [Accounts -> Nat]
    /\ BondAmount \in Nat /\ MinSeed \in Nat \ {0} /\ MaxSeed \in Nat
    /\ MinContribution \in Nat \ {0} /\ MaxSponsors \in Nat
    /\ OrganiserBps \in 0 .. BpsBase
    /\ MaxDrift \in Nat /\ FloorUsers \in Nat /\ MinPool \in Nat /\ MinBackers \in Nat

(***************************************************************************)
(* Sums over the rows of a table.                                          *)
(***************************************************************************)

\* A reduce over no movement is its initial zero.
Total(f) == IF \A x \in DOMAIN f : f[x] = 0 THEN 0 ELSE SumFunction(f)

SharesHeld(o) == Total([u \in Accounts |-> pos[u][o]])

Contributions == Total(contrib)

\* "traded" of SeedService.lockSeedable: any trade that is not a seed
HasTraded == \E t \in trades : t[2] # "seed"

Traded(u) == \E t \in trades : t[1] = u

Backers(o) == {u \in Accounts \ {Creator} : <<u, "buy", o>> \in trades}

(***************************************************************************)
(* Ledger movements. Every caller posts balanced legs; a movement between  *)
(* the two balances of one user is a Hold (negative: a release).           *)
(***************************************************************************)

Add(f, u, n) == [f EXCEPT ![u] = @ + n]

\* WalletService.escrow: the balance is checked, then moved into escrow.
Hold(u, n) ==
    /\ n > 0
    /\ avail[u] >= n
    /\ avail' = Add(avail, u, -n)
    /\ esc' = Add(esc, u, n)

Settle(how) == settled' = IF settled = "none" THEN how ELSE settled

Init ==
    /\ state = "absent" /\ shelf = "none" /\ path = "none"
    /\ window = FALSE /\ started = FALSE
    /\ q = Empty /\ staked = Empty /\ pot = 0
    /\ pos = [u \in Accounts |-> Empty] /\ trades = {}
    /\ avail = Endowment /\ esc = [u \in Accounts |-> 0]
    /\ fees = 0 /\ issued = 0
    /\ bond = "none"
    /\ syn = "none" /\ contrib = [u \in People |-> 0] /\ roundOver = FALSE
    /\ proposer = Nobody /\ dispClock = "none"
    /\ disputes = [u \in Disputants |-> "none"]
    /\ sweep = "idle"
    /\ deciding = [s \in Staff |-> Nobody]
    /\ finalizing = [s \in Staff |-> Nobody]
    /\ forfeiting = [a \in Approvers |-> FALSE]
    /\ settled = "none"

LifeType ==
    /\ state \in States
    /\ shelf \in {"none", "community", "official"}
    /\ path \in {"none", "organic", "seeded"}
    /\ window \in BOOLEAN /\ started \in BOOLEAN
    /\ settled \in {"none", "paid", "refunded"}

BookType ==
    /\ q \in ShareVectors
    /\ staked \in [Outcomes -> Int] /\ pot \in Int
    /\ pos \in [Accounts -> [Outcomes -> Int]]
    /\ trades \in SUBSET (Accounts \X {"seed", "buy", "sell"} \X Outcomes)

MoneyType ==
    /\ avail \in [Accounts -> Int] /\ esc \in [Accounts -> Int]
    /\ fees \in Int /\ issued \in Int
    /\ bond \in {"none", "held", "refunded", "forfeited"}

RoundType ==
    /\ syn \in {"none", "open", "filled", "refunded"}
    /\ contrib \in [People -> Nat]
    /\ roundOver \in BOOLEAN

FlowType ==
    /\ proposer \in {Creator, Nobody} \cup Staff
    /\ dispClock \in {"none", "running", "over"}
    /\ disputes \in [Disputants -> {"none", "open", "upheld", "rejected"}]

JobType ==
    /\ sweep \in {"idle", "due"}
    /\ deciding \in [Staff -> Disputants \cup {Nobody}]
    /\ finalizing \in [Staff -> Outcomes \cup {"tidy", Nobody}]
    /\ forfeiting \in [Approvers -> BOOLEAN]

TypeOK == LifeType /\ BookType /\ MoneyType /\ RoundType /\ FlowType /\ JobType
=============================================================================
