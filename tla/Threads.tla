------------------------------ MODULE Threads ------------------------------
(***************************************************************************)
(* The argument under one market: takes posted with a badge of the         *)
(* position held at the time, reports, the moderators' queue, the receipts *)
(* stamped at settlement.  Every request reads first and writes later, and *)
(* nothing locks a comment.  The run is one hour long.                     *)
(***************************************************************************)
EXTENDS Integers, FiniteSets

CONSTANTS
    Authors,        \* people who post
    Reporters,      \* people who report
    Comments,       \* comment ids
    Threshold,      \* comment_reports_to_flag
    PerHour,        \* comment_rate_per_hour
    Outcomes,
    Winner          \* the outcome the market resolves to

VARIABLES
    market,         \* markets.state
    open,           \* who may comment: active, tier 1, not excluded
    comment,        \* comment[c]: the row
    reports,        \* reports[c]: who reported c
    request,        \* request[u]: what u's request has read
    recent,         \* who has posted within comment_min_seconds_between
    published,      \* history: comments a moderator put up
    crossed         \* history: comments moderated while a report was on its way

Users == Authors \cup Reporters

vars == <<market, open, comment, reports, request, recent, published, crossed>>

NoOne == "nobody"

NoComment == [state |-> "none", by |-> NoOne, badge |-> "none", parent |-> "none",
              hard |-> FALSE, called |-> "unstamped"]

Rest == [at |-> "rest", on |-> "none", saw |-> "none"]

Init ==
    /\ market = "active"
    /\ open = Authors
    /\ comment = [c \in Comments |-> NoComment]
    /\ reports = [c \in Comments |-> {}]
    /\ request = [u \in Users |-> Rest]
    /\ recent = {}
    /\ published = {}
    /\ crossed = {}

history == <<published, crossed>>

Leave(u) == request' = [request EXCEPT ![u] = Rest]

Posted == {c \in Comments : comment[c].state # "none"}

---------------------------------------------------------------------------
(* Posting.                                                                *)

\* Where the market may be argued about, and who may.
MayComment(u) ==
    /\ market \in {"active", "resolved"}
    /\ u \in open
    /\ u \notin recent
    /\ Cardinality({c \in Posted : comment[c].by = u}) < PerHour

\* The gate, and the parent, which has to be live.
PostRead(u, c, parent) ==
    /\ request[u] = Rest
    /\ comment[c].state = "none"
    /\ \A v \in Users : request[v].on # c
    /\ MayComment(u)
    /\ parent # "none" => comment[parent].state = "live"
    /\ request' = [request EXCEPT ![u] = [at |-> "post", on |-> c, saw |-> parent]]
    /\ UNCHANGED <<market, open, comment, reports, recent, history>>

\* The rules decide what becomes of it; the badge is what the person holds
\* most of by then.
Verdict(flags) == IF flags = "none" THEN "live" ELSE IF flags = "hard" THEN "held" ELSE "flagged"

PostWrite(u, flags, badge) ==
    LET r == request[u]
    IN /\ r.at = "post"
       /\ comment' = [comment EXCEPT ![r.on] =
              [state |-> Verdict(flags), by |-> u, badge |-> badge, parent |-> r.saw,
               hard |-> flags = "hard", called |-> "unstamped"]]
       /\ recent' = recent \cup {u}
       /\ Leave(u)
       /\ UNCHANGED <<market, open, reports, history>>

---------------------------------------------------------------------------
(* Reports and moderation.                                                 *)

ReportRead(u, c) ==
    /\ request[u] = Rest
    /\ c \in Posted
    /\ comment[c].by # u
    /\ request' = [request EXCEPT ![u] = [at |-> "report", on |-> c, saw |-> comment[c].state]]
    /\ UNCHANGED <<market, open, comment, reports, recent, history>>

\* One report per person: a second one only counts what there is.
ReportWrite(u) ==
    LET r == request[u]
    IN /\ r.at = "report"
       /\ reports' = [reports EXCEPT ![r.on] = @ \cup {u}]
       /\ request' = [request EXCEPT ![u] =
              IF u \in reports[r.on] THEN Rest ELSE [r EXCEPT !.at = "count"]]
       /\ UNCHANGED <<market, open, comment, recent, history>>

\* A mutant that flags whatever was reported, not only what was live.
PullsAnything(r) == Cardinality(reports[r.on]) >= Threshold

\* The state asked about is the one read before the report was written.
Pulls(r) == Cardinality(reports[r.on]) >= Threshold /\ r.saw = "live"

ReportCount(u) ==
    LET r == request[u]
    IN /\ r.at = "count"
       /\ comment' = IF Pulls(r) THEN [comment EXCEPT ![r.on].state = "flagged"] ELSE comment
       /\ Leave(u)
       /\ UNCHANGED <<market, open, reports, recent, history>>

ReportOnItsWay(c) == \E u \in Users : request[u].at \in {"report", "count"} /\ request[u].on = c

Moderate(c, decision) ==
    /\ c \in Posted
    /\ comment' = [comment EXCEPT ![c].state = IF decision = "publish" THEN "live" ELSE "removed"]
    /\ published' = IF decision = "publish" THEN published \cup {c} ELSE published \ {c}
    /\ crossed' = IF ReportOnItsWay(c) THEN crossed \cup {c} ELSE crossed
    /\ UNCHANGED <<market, open, reports, request, recent>>

---------------------------------------------------------------------------
(* The market settles; the receipts are stamped one at a time.             *)

Resolve ==
    /\ market = "active"
    /\ market' = "resolved"
    /\ UNCHANGED <<open, comment, reports, request, recent, history>>

CalledIt(badge) == IF badge = Winner THEN "right" ELSE "wrong"

Stamp(c) ==
    /\ market = "resolved"
    /\ c \in Posted
    /\ comment[c].called = "unstamped"
    /\ comment[c].badge # "none"
    /\ comment' = [comment EXCEPT ![c].called = CalledIt(comment[c].badge)]
    /\ UNCHANGED <<market, open, reports, request, recent, history>>

---------------------------------------------------------------------------
(* Reading.                                                                *)

\* thread: a held take is there for its author alone, and a removed one
\* leaves its place without its text.
Reads(u, c) ==
    /\ comment[c].state \in {"live", "flagged"} \/ comment[c].by = u
    /\ comment[c].state # "removed"

---------------------------------------------------------------------------
(* The people.                                                             *)

\* A freeze, a self-exclusion, a cool-off.
Shut(u) ==
    /\ u \in open
    /\ open' = open \ {u}
    /\ UNCHANGED <<market, comment, reports, request, recent, history>>

GapPasses(u) ==
    /\ u \in recent
    /\ recent' = recent \ {u}
    /\ UNCHANGED <<market, open, comment, reports, request, history>>

\* The badge of a position: the outcome most of the shares are on, or none.
Badges == Outcomes \cup {"none"}

\* POST markets/:id/thread.
Post(u) ==
    \/ \E c \in Comments, parent \in Comments \cup {"none"} : PostRead(u, c, parent)
    \/ \E flags \in {"none", "soft", "hard"}, badge \in Badges : PostWrite(u, flags, badge)

\* POST comments/:id/report.
Report(u) == (\E c \in Comments : ReportRead(u, c)) \/ ReportWrite(u) \/ ReportCount(u)

Next ==
    \/ \E u \in Authors : Post(u) \/ Shut(u) \/ GapPasses(u)
    \/ \E u \in Reporters : Report(u)
    \/ \E c \in Comments, decision \in {"publish", "remove"} : Moderate(c, decision)
    \/ Resolve
    \/ \E c \in Comments : Stamp(c)

Spec == Init /\ [][Next]_vars

---------------------------------------------------------------------------

\* A take that tripped a hard rule is read by nobody but its author before a
\* moderator put it up, however many people report it (ThreadService.report,
\* thread, verdictFor).
HeldUntilPublished == \A c \in Comments, u \in Users :
    comment[c].hard /\ Reads(u, c)
        => u = comment[c].by \/ c \in published \/ c \in crossed
=============================================================================
