----------------------------- MODULE Deadlines -----------------------------
(***************************************************************************)
(* The deadline of one market as a row and as a delayed job.  The row has  *)
(* the time the window closes; the job is what closes it.  The job's id is *)
(* the market's, so adding a second one does nothing while any job with    *)
(* that id is kept, whether it waits, runs, is done or has failed for      *)
(* good.  Redis may lose the job; a booting process re-arms from the rows. *)
(***************************************************************************)
EXTENDS Integers

CONSTANTS
    Window,         \* funding_window_hours
    Attempts,       \* attempts of a job before it has failed for good
    MaxLosses,      \* bound: times that Redis loses its data
    MaxCrashes,     \* bound: times that the process dies
    Horizon         \* bound on the time

VARIABLES
    row,            \* the market: state, activation path, closing time (0: none)
    job,            \* the job with the market's id
    toAdd,          \* the closing time a request has yet to schedule, 0 when none
    up,             \* the process runs
    hours,
    faults,         \* [losses, crashes]
    adrift,         \* history: a job was lost since the last re-arming
    moved           \* history: a closing time was set over a job of an earlier one

vars == <<row, job, toAdd, up, hours, faults, adrift, moved>>

NoJob == [state |-> "none", at |-> 0, tries |-> 0, path |-> "none"]

Init ==
    /\ row = [state |-> "draft", path |-> "organic", closes |-> 0]
    /\ job = NoJob
    /\ toAdd = 0
    /\ up = TRUE
    /\ hours = 0
    /\ faults = [losses |-> 0, crashes |-> 0]
    /\ adrift = FALSE
    /\ moved = FALSE

Delayed(at) == [NoJob EXCEPT !.state = "delayed", !.at = at]

---------------------------------------------------------------------------
(* The market: a request commits, and schedules afterwards.                *)

Promise(state, path) ==
    /\ up /\ toAdd = 0
    /\ row' = [state |-> state, path |-> path, closes |-> hours + Window]
    /\ toAdd' = hours + Window
    /\ moved' = (moved \/ job # NoJob)
    /\ UNCHANGED <<job, up, hours, faults, adrift>>

OpenFunding == row.state = "draft" /\ Promise("funding", "organic")

\* A creator may seed alone over a funding window or a round.
Seed == row.state \in {"draft", "funding", "seeding"} /\ Promise("active", "seeded")

\* The contribution that fills a round opens the market.
FillRound == row.state = "seeding" /\ Promise("active", "seeded")

\* A round opened over a funding window leaves its closing time on the row.
OpenRound ==
    /\ row.state \in {"draft", "funding"}
    /\ row' = [row EXCEPT !.state = "seeding", !.path = "seeded"]
    /\ UNCHANGED <<job, toAdd, up, hours, faults, adrift, moved>>

\* Resolved or voided some other way.
Settle ==
    /\ row.state \in {"funding", "seeding", "active"}
    /\ row' = [row EXCEPT !.state = "settled"]
    /\ UNCHANGED <<job, toAdd, up, hours, faults, adrift, moved>>

\* A mutant that counts the delay an hour short.
EnqueueShort(at) == IF job = NoJob THEN Delayed(at - 1) ELSE job

\* queue.add with a job id.
Enqueue(at) == IF job = NoJob THEN Delayed(at) ELSE job

Schedule ==
    /\ up /\ toAdd # 0
    /\ job' = Enqueue(toAdd)
    /\ toAdd' = 0
    /\ UNCHANGED <<row, up, hours, faults, adrift, moved>>

---------------------------------------------------------------------------
(* The job.                                                                *)

\* closeWindow first reads which way the market opened.
Start ==
    /\ up
    /\ job.state = "delayed"
    /\ job.at <= hours
    /\ job' = [job EXCEPT !.state = "running", !.path = row.path]
    /\ UNCHANGED <<row, toAdd, up, hours, faults, adrift, moved>>

\* What the handler of that path acts on; neither looks at the clock.
Acts ==
    IF job.path = "organic" THEN row.state = "funding"
    ELSE row.state = "active" /\ row.closes # 0

\* Activated or confirmed, or voided with everything refunded.
Handle ==
    /\ up
    /\ job.state = "running"
    /\ job' = [job EXCEPT !.state = "completed"]
    /\ \/ Acts /\ row' = [row EXCEPT !.state = "active", !.closes = 0]
       \/ Acts /\ row' = [row EXCEPT !.state = "settled"]
       \/ ~Acts /\ row' = row
    /\ UNCHANGED <<toAdd, up, hours, faults, adrift, moved>>

Fail ==
    /\ up
    /\ job.state = "running"
    /\ job' = [job EXCEPT !.tries = @ + 1,
                          !.state = IF job.tries + 1 = Attempts THEN "failed" ELSE "delayed"]
    /\ UNCHANGED <<row, toAdd, up, hours, faults, adrift, moved>>

---------------------------------------------------------------------------
(* Faults.                                                                 *)

\* The request that was about to schedule dies with the process.
Crash ==
    /\ up
    /\ faults.crashes < MaxCrashes
    /\ up' = FALSE
    /\ toAdd' = 0
    /\ adrift' = (adrift \/ toAdd # 0)
    /\ faults' = [faults EXCEPT !.crashes = @ + 1]
    /\ UNCHANGED <<row, job, hours, moved>>

LoseRedis ==
    /\ job # NoJob
    /\ faults.losses < MaxLosses
    /\ job' = NoJob
    /\ adrift' = TRUE
    /\ faults' = [faults EXCEPT !.losses = @ + 1]
    /\ UNCHANGED <<row, toAdd, up, hours, moved>>

\* A closing time is still on the row, whichever path it took.
Waiting == row.state \in {"funding", "active"} /\ row.closes # 0

\* A job that was running when the process died is stalled and waits again.
Recovered == IF job.state = "running" THEN [job EXCEPT !.state = "delayed"] ELSE job

\* rearmOpenWindows: the rows say what is scheduled, an id that is taken stays.
Rearm == IF Waiting /\ job = NoJob THEN Delayed(row.closes) ELSE Recovered

\* onModuleInit; re-arming may fail without stopping the process.
Boot(rearmed) ==
    /\ ~up
    /\ up' = TRUE
    /\ job' = IF rearmed THEN Rearm ELSE Recovered
    /\ adrift' = (adrift /\ ~rearmed)
    /\ UNCHANGED <<row, toAdd, hours, faults, moved>>

Tick ==
    /\ hours < Horizon
    /\ hours' = hours + 1
    /\ UNCHANGED <<row, job, toAdd, up, faults, adrift, moved>>

Next ==
    \/ OpenFunding \/ Seed \/ FillRound \/ OpenRound \/ Settle \/ Schedule
    \/ Start \/ Handle \/ Fail
    \/ Crash \/ LoseRedis \/ (\E rearmed \in BOOLEAN : Boot(rearmed))
    \/ Tick

\* The worker takes what is due and a dead process is started again.
Fairness ==
    /\ WF_vars(Schedule)
    /\ WF_vars(Start)
    /\ WF_vars(Handle \/ Fail)
    /\ WF_vars(\E rearmed \in BOOLEAN : Boot(rearmed))

Spec == Init /\ [][Next]_vars /\ Fairness

---------------------------------------------------------------------------

\* A closing time that somebody was promised and that has not come.
Open == row.state \in {"funding", "active"} /\ row.closes # 0

\* A market that waits for its deadline has a job that will close it, unless
\* Redis or a crash lost it since the last re-arming, it failed for good, or
\* the id was taken by a job of an earlier closing time (rearmOpenWindows).
DeadlineIsArmed ==
    Open /\ toAdd = 0 /\ ~adrift /\ ~moved => job.state \in {"delayed", "running", "failed"}

\* No window closes before its time, unless the job is one of an earlier
\* closing time (enqueue, closeWindow).
ClosesOnTime == [][
    Open /\ job'.state = "completed" /\ row' # row /\ ~moved
        => hours >= row.closes]_<<row, job>>

\* A job that is due closes its window, unless it fails for good, is lost, or
\* is one of an earlier closing time (handle).
DueJobsClose ==
    (Open /\ job.state \in {"delayed", "running"} /\ job.at <= hours)
        ~> (~Open \/ job.state \in {"failed", "none"} \/ moved)
=============================================================================
