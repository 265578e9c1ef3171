------------------------------- MODULE Nudges -------------------------------
(***************************************************************************)
(* The hourly sweep that prompts the creator of a market: what the market  *)
(* warrants, most urgent first, and the throttle, which reads the log of   *)
(* the messages sent.  Sweeps may overlap; the clock is in hours.          *)
(***************************************************************************)
EXTENDS Integers, Sequences, SequencesExt, FiniteSets

CONSTANTS
    Sweeps,         \* sweeps that may be under way at once
    WindowCloses,   \* the hours of its deadlines
    EventAt,
    ProposalHours,  \* resolution_proposal_hours, which is urgentHours too
    MinHours,       \* nudge_min_hours_between
    Floor,          \* participation_floor_users
    Horizon         \* bound on the clock

VARIABLES
    path,           \* its activation path
    state,          \* markets.state
    pools,          \* staked per outcome
    stakers,        \* distinct backers other than the creator
    lopsided,       \* the leading price is past settledPrice
    viewed,         \* enough views for a concern
    proposed,       \* a resolution row exists
    muted,          \* the creator turned both channels off
    hour,
    swept,          \* the sweep of this hour has started
    sweep,          \* sweep[s]: the nudge s is about to send
    log,            \* notifications of type creator_nudge
    overlapped,     \* history: two sweeps were under way at once
    warranted       \* history: this hour's sweep found something to say

vars == <<path, state, pools, stakers, lopsided, viewed, proposed, muted, hour, swept, sweep, log,
          overlapped, warranted>>

market == <<path, state, pools, stakers, lopsided, viewed, proposed>>

Idle == [at |-> "idle", kind |-> "none"]

Init ==
    /\ path \in {"organic", "seeded"}
    /\ state = IF path = "organic" THEN "funding" ELSE "active"
    /\ pools = <<0, 0>>
    /\ stakers = 0
    /\ lopsided = FALSE /\ viewed = FALSE /\ proposed = FALSE
    /\ muted = FALSE
    /\ hour = 0
    /\ swept = FALSE
    /\ sweep = [s \in Sweeps |-> Idle]
    /\ log = {}
    /\ overlapped = FALSE /\ warranted = FALSE

---------------------------------------------------------------------------
(* nudgesFor.                                                              *)

Urgency(deadline) == IF deadline - hour <= ProposalHours THEN "now" ELSE "soon"

Nudge(cond, kind, urgency) == IF cond THEN << [kind |-> kind, urgency |-> urgency] >> ELSE <<>>

Best == IF pools[1] > pools[2] THEN pools[1] ELSE pools[2]

\* The deadline's job voids a market that is short, whenever it runs, and a
\* market that is not short gets no such nudge.
WindowOpen == state = "active" /\ path = "seeded"

Overdue == hour >= EventAt + ProposalHours

\* In the order of the rules.
Found ==
    Nudge(state = "funding" /\ Best = 0, "funding_quiet", Urgency(WindowCloses))
    \o Nudge(state = "funding" /\ \E i \in 1 .. 2 : 2 * pools[i] < Best,
             "funding_lopsided", Urgency(WindowCloses))
    \o Nudge(WindowOpen /\ stakers < Floor,
             "participation_short", Urgency(WindowCloses))
    \o Nudge(state = "active" /\ lopsided, "price_settled", "fyi")
    \o Nudge(state = "active" /\ stakers = 0 /\ viewed, "views_no_stakes", "soon")
    \o Nudge(~proposed /\ state \in {"active", "frozen"} /\ hour >= EventAt,
             IF Overdue THEN "resolution_overdue" ELSE "resolution_due", "now")

Rank == [now |-> 0, soon |-> 1, fyi |-> 2]

\* The first of the most urgent.
Top == CHOOSE n \in ToSet(Found) :
    \E i \in DOMAIN Found :
        /\ Found[i] = n
        /\ \A j \in DOMAIN Found : Rank[Found[j].urgency] >= Rank[n.urgency]
        /\ \A j \in 1 .. i - 1 : Rank[Found[j].urgency] > Rank[n.urgency]

---------------------------------------------------------------------------
(* NudgeService.                                                           *)

\* Nothing writes "frozen": the freeze at the event writes pending_resolution.
Actionable == state \in {"funding", "active", "frozen"}

\* The snapshot and what it warrants.
Consider(s) ==
    /\ sweep[s] = Idle
    /\ ~swept
    /\ swept' = TRUE
    /\ warranted' = (Actionable /\ Found # <<>>)
    /\ sweep' = [sweep EXCEPT ![s] =
           IF warranted' THEN [at |-> "throttle", kind |-> Top.kind] ELSE Idle]
    /\ overlapped' = (overlapped \/ \E q \in Sweeps : sweep[q] # Idle)
    /\ UNCHANGED <<market, muted, hour, log>>

\* A mutant that asks whether this kind was sent before.
QuietPerKind(s) == \A n \in log : n.hour < hour - MinHours \/ n.kind # sweep[s].kind

Quiet(s) == \A n \in log : n.hour < hour - MinHours

Throttle(s) ==
    /\ sweep[s].at = "throttle"
    /\ sweep' = [sweep EXCEPT ![s] = IF Quiet(s) THEN [@ EXCEPT !.at = "send"] ELSE Idle]
    /\ UNCHANGED <<market, muted, hour, swept, log, overlapped, warranted>>

\* notify: a row for every channel the creator has not turned off.
Send(s) ==
    /\ sweep[s].at = "send"
    /\ log' = IF muted THEN log ELSE log \cup {[hour |-> hour, kind |-> sweep[s].kind]}
    /\ sweep' = [sweep EXCEPT ![s] = Idle]
    /\ UNCHANGED <<market, muted, hour, swept, overlapped, warranted>>

---------------------------------------------------------------------------
(* The market and its creator.                                             *)

Stake(i) ==
    /\ state \in {"funding", "active"}
    /\ pools[i] < 1
    /\ pools' = [pools EXCEPT ![i] = @ + 1]
    /\ stakers' = IF stakers < Floor THEN stakers + 1 ELSE stakers
    /\ lopsided' \in BOOLEAN
    /\ viewed' = TRUE
    /\ UNCHANGED <<path, state, proposed, muted, hour, swept, sweep, log, overlapped, warranted>>

View ==
    /\ ~viewed
    /\ viewed' = TRUE
    /\ UNCHANGED <<path, state, pools, stakers, lopsided, proposed, muted, hour, swept, sweep, log,
                   overlapped, warranted>>

\* Activation, the freeze at the event, the proposal, and a void: by its deadline
\* or, at any time, by two of the staff.
Move(to) ==
    /\ to = "active" => state = "funding"
    /\ to = "pending_resolution" => state = "active" /\ hour >= EventAt
    /\ to = "dispute_window" => state \in {"active", "frozen", "pending_resolution"}
    /\ state # "voided"
    /\ state # to
    /\ state' = to
    /\ proposed' = (proposed \/ to = "dispute_window")
    /\ UNCHANGED <<path, pools, stakers, lopsided, viewed, muted, hour, swept, sweep, log,
                   overlapped, warranted>>

Mute ==
    /\ ~muted
    /\ muted' = TRUE
    /\ UNCHANGED <<market, hour, swept, sweep, log, overlapped, warranted>>

\* A sweep may still be under way when the hour turns, but the next one waits
\* for its job: no hour passes without one.
Hour ==
    /\ hour < Horizon
    /\ swept
    /\ hour' = hour + 1
    /\ swept' = FALSE
    /\ UNCHANGED <<market, muted, sweep, log, overlapped, warranted>>

Next ==
    \/ \E s \in Sweeps : Consider(s) \/ Throttle(s) \/ Send(s)
    \/ \E i \in 1 .. 2 : Stake(i)
    \/ View
    \/ \E to \in {"active", "pending_resolution", "dispute_window", "voided"} : Move(to)
    \/ Mute
    \/ Hour

Spec == Init /\ [][Next]_vars

---------------------------------------------------------------------------

\* A creator hears about a market at most once in the throttle's hours, unless
\* two sweeps were under way at once (NudgeService.nudge).
Spaced == ~overlapped => \A m, n \in log : m # n => m.hour - n.hour \notin 0 .. MinHours

\* When the sweep of the hour is over, a creator whose market warranted a nudge
\* and who listens has heard one within the throttle's hours: what keeps messages
\* apart silences none that is due, whatever sweeps overlap and whenever the hour
\* turns under one (NudgeService.nudge: "at most one nudge per market per
\* nudge_min_hours_between").
HeardWhenDue ==
    swept /\ warranted /\ ~muted /\ (\A s \in Sweeps : sweep[s] = Idle)
        => \E n \in log : n.hour \in hour - MinHours .. hour

NudgesKeepTime == Spaced /\ HeardWhenDue

\* What NudgeService says of the states it acts on, "Market states a creator can
\* still do something about", and the test of nudgesFor of the event's day, "asks
\* for the resolution once the event has happened": a market that still waits for
\* its proposal, after its event and the throttle's hours, has been asked for it.
AwaitedIsAsked ==
    /\ state = "pending_resolution" /\ ~proposed /\ ~muted
    /\ hour > EventAt + MinHours /\ swept /\ \A s \in Sweeps : sweep[s] = Idle
    => \E n \in log : n.kind \in {"resolution_due", "resolution_overdue"}

\* What NudgeService says of its throttle: "never the same kind twice in a row".
NeverTwiceInARow == \A m, n \in log :
    m.kind = n.kind /\ m.hour < n.hour =>
        \E k \in log : k.kind # m.kind /\ k.hour \in m.hour .. n.hour
=============================================================================
