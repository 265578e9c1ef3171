------------------------------ MODULE MCStaff -------------------------------
(***************************************************************************)
(* The desks of the staff and the limits around a request, side by side:   *)
(* they share no variable, so that a behaviour moves one of them and what  *)
(* TLC finds of the whole holds of each.  Amounts, hours and budgets are   *)
(* the smallest under which a limit is reached and passed.                 *)
(***************************************************************************)
EXTENDS Integers, FiniteSets, TLC

CONSTANTS
    Hands,          \* requests under way at once, at the approvals desk and the shelf's
    Topics,         \* of questions
    \* Approvals
    Staff, MoneyRole, Ids, Users, MaxRuns, MinTier,
    \* Stakes
    Stakers, Markets, MarketOf, Contributions, Changes, Balance, PlatformStake,
    PlatformLoss, MaxCoolOff, MaxDays,
    \* RateLimits
    Accounts, Nodes, Points, AddressPoints, Duration, Block, LimitHorizon,
    \* Support
    User, Desk, Sla, MaxReplies, Horizon,
    \* Access
    Tokens, MaxMoves,
    \* Shelf
    Drafts, MarketIds, Size

ASSUME PeopleAssumption == IsFiniteSet(Staff)

ASSUME LimitsAssumption == Balance \in Nat /\ PlatformStake \in Nat

ASSUME BudgetAssumption ==
    /\ Points \in Nat \ {0} /\ AddressPoints \in Nat
    /\ Duration \in Nat \ {0} /\ Block \in Nat /\ LimitHorizon \in Nat
    /\ IsFiniteSet(Nodes) /\ "address" \notin Accounts

ASSUME ShelfAssumption ==
    /\ IsFiniteSet(Drafts) /\ IsFiniteSet(MarketIds) /\ Size \in Nat
    /\ "none" \notin Drafts

\* Two stakes and a contribution: the contribution shares a market with one.
MarketOfStake == [r \in Stakers |-> IF r = "r2" THEN "m2" ELSE "m1"]

Alike == Permutations(Hands) \cup Permutations(Topics)

VARIABLES
    part,           \* the one that moves in this behaviour
    \* Approvals
    approvals, desk, executions, approvedTogether, run, drawn, paid, told, tier,
    \* Stakes
    available, escrowed, staked, lost, settings, change, request, day, together,
    \* RateLimits
    counter, reachable, now, accepted, sharedOnly,
    \* Support
    ticket, lastWord, replying, sweep, replies, hour, crossed,
    \* Access
    role, token, enrolled, moves, done, held,
    \* Shelf
    drafts, shelf, counterRequest, met, refilled

Eyes == INSTANCE Approvals WITH Requests <- Hands, together <- approvedTogether

Money == INSTANCE Stakes WITH Requests <- Stakers

Budget == INSTANCE RateLimits WITH Horizon <- LimitHorizon

Tickets == INSTANCE Support

Doors == INSTANCE Access

Queue == INSTANCE Shelf WITH Staff <- Hands, counter <- counterRequest

eyes == <<approvals, desk, executions, approvedTogether, run, drawn, paid, told, tier>>

money == <<available, escrowed, staked, lost, settings, change, request, day, together>>

budget == <<counter, reachable, now, accepted, sharedOnly>>

tickets == <<ticket, lastWord, replying, sweep, replies, hour, crossed>>

doors == <<role, token, enrolled, moves, done, held>>

queue == <<drafts, shelf, counterRequest, met, refilled>>

vars == <<part, eyes, money, budget, tickets, doors, queue>>

Parts == {
    "Approvals", "Stakes", "RateLimits", "Support", "Access", "Shelf"}

\* Whoever does not move starts in one state only.
Init ==
    /\ part \in Parts
    /\ Eyes!Init
    /\ part # "Approvals" => tier = [u \in Users |-> 1]
    /\ Money!Init
    /\ Budget!Init
    /\ Tickets!Init
    /\ Doors!Init
    /\ part # "Access" => role = "user"
    /\ Queue!Init

Next ==
    /\ UNCHANGED part
    /\ IF part = "Approvals" THEN Eyes!Next ELSE UNCHANGED eyes
    /\ IF part = "Stakes" THEN Money!Next ELSE UNCHANGED money
    /\ IF part = "RateLimits" THEN Budget!Next ELSE UNCHANGED budget
    /\ IF part = "Support" THEN Tickets!Next ELSE UNCHANGED tickets
    /\ IF part = "Access" THEN Doors!Next ELSE UNCHANGED doors
    /\ IF part = "Shelf" THEN Queue!Next ELSE UNCHANGED queue

Spec == Init /\ [][Next]_vars

-----------------------------------------------------------------------------

\* What a proposal executes was approved by somebody else, and once.
FourEyes == Eyes!FourEyes

\* Balances and caps are passed only by stakes that met.
OnlyTogether == Money!OnlyTogether

\* A budget bounds what gets through in any window.
BurstBound == Budget!BurstBound

\* The state of a ticket says who has to answer.
WhoseTurn == Tickets!WhoseTurn

\* Nobody does what their role leaves to another.
DutiesApart == Doors!DutiesApart

\* Whoever answers tickets sees nothing of the ledger.
TicketsNotLedger == Doors!TicketsNotLedger

\* A draft is one market, and the shelf has a size.
ShelfHolds == Queue!ShelfHolds
=============================================================================
