----------------------------- MODULE AbuseDesk -----------------------------
(***************************************************************************)
(* The abuse queue for one account and one kind of finding: the rules that *)
(* read its trades and its device, the sweeps that file the flag under a   *)
(* unique key, and the reviewers who freeze, clear or unfreeze.  Findings  *)
(* of other kinds have keys of their own.  Times are in hours.             *)
(***************************************************************************)
EXTENDS Integers, Sequences, FiniteSets, SequencesExt, FiniteSetsExt

CONSTANTS
    Sweepers,       \* sweeps that may be under way at once
    Reviewers,
    Others,         \* accounts that may turn out to share the device
    WashWindow,     \* abuse_wash_window_minutes
    WashCycles,     \* abuse_wash_cycles
    Flood,          \* abuse_flood_trades_per_hour
    Cluster,        \* abuse_cluster_accounts
    MaxTrades,      \* bound on the trades
    Horizon         \* bound on the time

VARIABLES
    kind,           \* the kind of finding this behaviour is about
    trades,         \* the account's trades on one market, in time order
    device,         \* the other accounts seen on its device
    flag,           \* the row under the finding's key
    sweep,          \* sweep[w]: what w has read and found
    status,         \* users.status
    decision,       \* decision[v]: what reviewer v has read
    now,
    crossed         \* history: sweeps the flag was decided under

vars == <<kind, trades, device, flag, sweep, status, decision, now, crossed>>

Kinds == {"wash_trading", "stake_flood", "multi_account"}

Hour == 1

NoFlag == [state |-> "none", evidence |-> 0]

Idle == [at |-> "rest", evidence |-> 0]

Undecided == [what |-> "none", was |-> "active"]

Init ==
    /\ kind \in Kinds
    /\ trades = <<>>
    /\ device = {}
    /\ flag = NoFlag
    /\ sweep = [w \in Sweepers |-> Idle]
    /\ status = "active"
    /\ decision = [v \in Reviewers |-> Undecided]
    /\ now = 0
    /\ crossed = {}

---------------------------------------------------------------------------
\* The rules.

\* washTrading: a buy opens, the next sell closes, a buy on top does nothing.
Churn(acc, t) ==
    IF t.side = "buy" THEN IF acc.opened = -1 THEN [acc EXCEPT !.opened = t.at] ELSE acc
    ELSE IF acc.opened = -1 THEN acc
    ELSE [opened |-> -1,
          cycles |-> IF t.at - acc.opened <= WashWindow THEN acc.cycles + 1
                                                        ELSE acc.cycles]

RoundTrips(ts) == FoldLeft(Churn, [opened |-> -1, cycles |-> 0], ts).cycles

\* The first trade not before the window's start that is within the hour.
Slide(ts, start, end) ==
    Min({s \in start..end : ts[end].at - ts[s].at <= Hour})

\* stakeFlood: the busiest sliding hour, with two pointers.
Peak(ts) ==
    LET Move(acc, end) == LET s == Slide(ts, acc.start, end)
                          IN  [start |-> s, worst |-> Max({acc.worst, end - s + 1})]
    IN  FoldLeft(Move, [start |-> 1, worst |-> 0], [i \in 1..Len(ts) |-> i]).worst

\* multiAccount counts everybody on the device.
Evidence == CASE kind = "wash_trading" -> RoundTrips(trades)
              [] kind = "stake_flood" -> Peak(trades)
              [] OTHER -> Cardinality(device) + 1

ThresholdOf == CASE kind = "wash_trading" -> WashCycles
               [] kind = "stake_flood" -> Flood
               [] OTHER -> Cluster

---------------------------------------------------------------------------

\* Only what the finding is about moves.
Trade(side) ==
    /\ kind # "multi_account"
    /\ Len(trades) < MaxTrades
    /\ trades' = Append(trades, [side |-> side, at |-> now])
    /\ UNCHANGED <<kind, device, flag, sweep, status, decision, now, crossed>>

RecordDevice(a) ==
    /\ kind = "multi_account"
    /\ a \notin device
    /\ device' = device \cup {a}
    /\ UNCHANGED <<kind, trades, flag, sweep, status, decision, now, crossed>>

\* sweep, the reads and the rules.
Detect(w) ==
    /\ sweep[w].at = "rest"
    /\ Evidence >= ThresholdOf
    /\ sweep' = [sweep EXCEPT ![w] = [at |-> "look", evidence |-> Evidence]]
    /\ UNCHANGED <<kind, trades, device, flag, status, decision, now, crossed>>

\* A mutant that passes over what was acted on instead.
PassesActioned(f) == f.state = "actioned"

\* A flag a reviewer cleared is passed over.
PassedOver(f) == f.state = "cleared"

\* findUnique.
Look(w) ==
    /\ sweep[w].at = "look"
    /\ sweep' = IF PassedOver(flag) THEN [sweep EXCEPT ![w] = Idle]
                ELSE [sweep EXCEPT ![w].at = IF flag = NoFlag THEN "create" ELSE "update"]
    /\ crossed' = crossed \ {w}
    /\ UNCHANGED <<kind, trades, device, flag, status, decision, now>>

\* update: the evidence, never the state.
Update(w) ==
    /\ sweep[w].at = "update"
    /\ flag' = [flag EXCEPT !.evidence = sweep[w].evidence]
    /\ sweep' = [sweep EXCEPT ![w] = Idle]
    /\ UNCHANGED <<kind, trades, device, status, decision, now, crossed>>

\* create: the unique key refuses a second one, and the sweep dies of it.
Create(w) ==
    /\ sweep[w].at = "create"
    /\ flag' = IF flag = NoFlag
               THEN [state |-> "open", evidence |-> sweep[w].evidence]
               ELSE flag
    /\ sweep' = [sweep EXCEPT ![w] = Idle]
    /\ UNCHANGED <<kind, trades, device, status, decision, now, crossed>>

\* decide, the reads of the flag and of the account.
Consider(v, what) ==
    /\ decision[v] = Undecided
    /\ flag # NoFlag
    /\ decision' = [decision EXCEPT ![v] = [what |-> what, was |-> status]]
    /\ UNCHANGED <<kind, trades, device, flag, sweep, status, now, crossed>>

\* decide, the transaction: the account only when its status is to change.
Decide(v) ==
    /\ decision[v] # Undecided
    /\ LET d == decision[v]
           to == CASE d.what = "freeze" -> "frozen"
                   [] d.what = "unfreeze" -> "active"
                   [] OTHER -> d.was
       IN  /\ status' = IF to # d.was THEN to ELSE status
           /\ flag' = [flag EXCEPT !.state =
                           IF d.what = "clear" THEN "cleared" ELSE "actioned"]
    /\ decision' = [decision EXCEPT ![v] = Undecided]
    /\ crossed' = Sweepers
    /\ UNCHANGED <<kind, trades, device, sweep, now>>

Tick ==
    /\ now < Horizon
    /\ now' = now + 1
    /\ UNCHANGED <<kind, trades, device, flag, sweep, status, decision, crossed>>

Next ==
    \/ \E side \in {"buy", "sell"} : Trade(side)
    \/ \E a \in Others : RecordDevice(a)
    \/ \E w \in Sweepers :
          Detect(w) \/ Look(w) \/ Update(w) \/ Create(w)
    \/ \E v \in Reviewers :
          \/ \E what \in {"freeze", "clear", "unfreeze"} : Consider(v, what)
          \/ Decide(v)
    \/ Tick

Spec == Init /\ [][Next]_vars

---------------------------------------------------------------------------

\* What a reviewer cleared stays as they saw it: no sweep rewrites it or
\* raises it again, except one that had looked before they decided
\* (AbuseService.sweep: "a flag a reviewer has already cleared is not raised
\* again").
ClearedIsLeft == [][
    flag.state = "cleared" =>
        \/ \E v \in Reviewers : decision'[v] = Undecided /\ decision[v] # Undecided
        \/ \E w \in crossed : sweep[w].at = "update" /\ sweep'[w] = Idle
    ]_flag

\* The peak the flood rule counts with its two pointers is the number of
\* trades in the busiest hour that ends with a trade (stakeFlood: "the busiest
\* sliding hour, not the calendar hour").
PeakIsBusiestHour ==
    Peak(trades) = Max({0} \cup {Cardinality({j \in 1..i : trades[i].at - trades[j].at <= Hour})
                                  : i \in DOMAIN trades})

FlagsAreFair == ClearedIsLeft /\ []PeakIsBusiestHour
=============================================================================
