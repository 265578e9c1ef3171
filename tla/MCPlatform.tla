----------------------------- MODULE MCPlatform -----------------------------
(***************************************************************************)
(* The machinery behind the markets, side by side: configuration with      *)
(* the reconciliation that writes it, deadline jobs, the price feed and the*)
(* ledger audit.  They share no variable; a behaviour moves one of them, and*)
(* each has the fairness its own module states.                            *)
(***************************************************************************)
EXTENDS Integers, FiniteSets

CONSTANTS
    Parts,              \* the modules that move
    \* Reconciliation
    Processes, MaxVersions, Accounts, MaxPosts, MaxRecons,
    \* Deadlines
    Window, Attempts, MaxLosses, MaxCrashes, Horizon,
    \* PriceFeed
    MaxTrades, MaxClock, MaxFaults,
    \* LedgerAudit
    Traders, Posters, Balance, MaxRuns, MaxUpdates

\* A window lasts, and a job is tried before it has failed.
ASSUME DeadlinesAssumption == Window \in Nat \ {0} /\ Attempts \in Nat \ {0}

ASSUME PurseAssumption == Balance \in Nat /\ IsFiniteSet(Traders)

ASSUME AccountsAssumption == IsFiniteSet(Accounts)

VARIABLES
    part,           \* the one that moves in this behaviour
    \* Reconciliation
    ledger, wallet, posts, recon, versions, due, process,
    \* Deadlines
    row, job, toAdd, up, hours, faults, adrift, moved,
    \* PriceFeed
    begun, open, price, committed, sending, cache, linked, pending, rendered, watching,
    screen, clock, feedFaults, lost, crossed,
    \* LedgerAudit
    state, pot, staked, holders, bond, round, available, escrow, fees,
    audit, runs, incident, posting, tablesMoved, updatesCrossed

Books == INSTANCE Reconciliation WITH
    Values <- {TRUE, FALSE}, Initial <- FALSE, rows <- versions

Jobs == INSTANCE Deadlines

Feed == INSTANCE PriceFeed WITH row <- price, faults <- feedFaults

Auditor == INSTANCE LedgerAudit WITH
    moved <- tablesMoved, crossed <- updatesCrossed

books == <<ledger, wallet, posts, recon, versions, due, process>>

jobs == <<row, job, toAdd, up, hours, faults, adrift, moved>>

feed == <<
    begun, open, price, committed, sending, cache, linked, pending, rendered, watching,
    screen, clock, feedFaults, lost, crossed>>

auditor == <<
    state, pot, staked, holders, bond, round, available, escrow, fees,
    audit, runs, incident, posting, tablesMoved, updatesCrossed>>

vars == <<part, books, jobs, feed, auditor>>

\* Whoever does not move starts in one state only.
Init ==
    /\ part \in Parts
    /\ Books!Init
    /\ Jobs!Init
    /\ Feed!Init
    /\ Auditor!Init

Next ==
    /\ UNCHANGED part
    /\ IF part = "Reconciliation" THEN Books!Next ELSE UNCHANGED books
    /\ IF part = "Deadlines" THEN Jobs!Next ELSE UNCHANGED jobs
    /\ IF part = "PriceFeed" THEN Feed!Next ELSE UNCHANGED feed
    /\ IF part = "LedgerAudit" THEN Auditor!Next ELSE UNCHANGED auditor

\* The fairness of each module, for the behaviours in which it moves.
Fairness ==
    /\ \A p \in Processes : WF_books(part = "Reconciliation" /\ Books!Serve(p))
    /\ WF_jobs(part = "Deadlines" /\ Jobs!Schedule)
    /\ WF_jobs(part = "Deadlines" /\ Jobs!Start)
    /\ WF_jobs(part = "Deadlines" /\ (Jobs!Handle \/ Jobs!Fail))
    /\ WF_jobs(part = "Deadlines" /\ \E rearmed \in BOOLEAN : Jobs!Boot(rearmed))
    /\ WF_feed(part = "PriceFeed" /\ (Feed!Commit \/ Feed!RollBack))
    /\ WF_feed(part = "PriceFeed" /\ \E t \in committed : Feed!Broadcast(t))
    /\ WF_feed(part = "PriceFeed" /\
           \E tick \in sending : Feed!Publish(tick) \/ Feed!LosePublish(tick))
    /\ WF_feed(part = "PriceFeed" /\ Feed!Flush)

Spec == Init /\ [][Next]_vars /\ Fairness

-----------------------------------------------------------------------------

\* A verdict is about the wallets it read, and an approved change arrives, but
\* not before its date.
ConfigHolds ==
    [](Books!VerdictIsRight /\ Books!ServedIsDue) /\ Books!ChangesArrive

\* A window that waits has its job, which closes it, and not before its time.
WindowsHaveJobs == []Jobs!DeadlineIsArmed /\ Jobs!ClosesOnTime /\ Jobs!DueJobsClose

\* An open page ends up with the price in the row.
ScreenCatchesUp == Feed!ScreenCatchesUp

\* A page that has joined its room shows the price in the row.
PageGoesLive == Feed!PageGoesLive

\* The audit reports what an open round or an exit leaves behind and nothing
\* else, and an incident shows its last word.
AuditIsTrue == Auditor!AuditIsTrue

\* An open seeding round is no alarm.
RoundIsNoAlarm == Auditor!RoundIsNoAlarm

\* An exit is no alarm.
ExitIsNoAlarm == Auditor!ExitIsNoAlarm
=============================================================================
