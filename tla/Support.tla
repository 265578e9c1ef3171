------------------------------ MODULE Support ------------------------------
(***************************************************************************)
(* One support ticket: the conversation, the state that says whose turn it *)
(* is, the clock of the category's SLA, and the sweep that escalates what  *)
(* is overdue.  A reply is two commits, the message and then the ticket,   *)
(* and the sweep reads before it writes.                                   *)
(***************************************************************************)
EXTENDS Integers

CONSTANTS
    User,           \* the ticket's owner
    Desk,           \* support, trust & safety and admins
    Sla,            \* support_sla_hours of the category
    MaxReplies,     \* bound on the messages
    Horizon         \* bound on the hours

VARIABLES
    ticket,         \* state and slaDue
    lastWord,       \* who wrote the latest message both sides see
    replying,       \* people whose message is in and whose update is not
    sweep,          \* "rest", or "found" when it has read the ticket overdue
    replies,
    hour,
    crossed         \* history: a write landed on what another had changed

vars == <<ticket, lastWord, replying, sweep, replies, hour, crossed>>

People == {User} \cup Desk

Init ==
    /\ ticket = [state |-> "none", due |-> 0]
    /\ lastWord = "nobody"
    /\ replying = {}
    /\ sweep = "rest"
    /\ replies = 0
    /\ hour = 0
    /\ crossed = FALSE

\* open: the ticket and its first message in one transaction.
Open ==
    /\ ticket.state = "none"
    /\ ticket' = [state |-> "open", due |-> hour + Sla]
    /\ lastWord' = User
    /\ UNCHANGED <<replying, sweep, replies, hour, crossed>>

\* reply, up to the message.
Write(p) ==
    /\ ticket.state \notin {"none", "closed"}
    /\ p \notin replying
    /\ replies < MaxReplies
    /\ replies' = replies + 1
    /\ lastWord' = p
    /\ replying' = replying \cup {p}
    /\ crossed' = (crossed \/ replying # {} \/ sweep = "found")
    /\ UNCHANGED <<ticket, sweep, hour>>

\* A mutant whose user reply restarts the clock and leaves the turn alone.
ClockOnly(t, p) ==
    IF p = User THEN [t EXCEPT !.due = hour + Sla]
    ELSE [t EXCEPT !.state = "waiting_on_user"]

\* A staff reply stops the clock, a user's starts it again: from now, and
\* whatever state the ticket was in.
Answered(t, p) ==
    IF p = User THEN [state |-> "open", due |-> hour + Sla]
    ELSE [t EXCEPT !.state = "waiting_on_user"]

\* reply, the update.  A note for the staff ends after its message.
Update(p) ==
    /\ p \in replying
    /\ replying' = replying \ {p}
    /\ ticket' = Answered(ticket, p)
    /\ UNCHANGED <<lastWord, sweep, replies, hour, crossed>>

\* resolve: unconditional.
Resolve ==
    /\ ticket.state # "none"
    /\ ticket' = [ticket EXCEPT !.state = "resolved"]
    /\ crossed' = (crossed \/ replying # {} \/ sweep = "found")
    /\ UNCHANGED <<lastWord, replying, sweep, replies, hour>>

Overdue == ticket.state = "open" /\ ticket.due <= hour

\* escalateOverdue: finds the overdue, then writes by id alone.
SweepRead ==
    /\ sweep = "rest"
    /\ Overdue
    /\ sweep' = "found"
    /\ crossed' = (crossed \/ replying # {})
    /\ UNCHANGED <<ticket, lastWord, replying, replies, hour>>

SweepWrite ==
    /\ sweep = "found"
    /\ sweep' = "rest"
    /\ ticket' = [ticket EXCEPT !.state = "escalated"]
    /\ UNCHANGED <<lastWord, replying, replies, hour, crossed>>

Hour ==
    /\ hour < Horizon
    /\ hour' = hour + 1
    /\ UNCHANGED <<ticket, lastWord, replying, sweep, replies, crossed>>

\* POST tickets/:id/reply, of the owner and of the desk.
Reply(p) == Write(p) \/ Update(p)

Next ==
    \/ Open \/ Resolve \/ SweepRead \/ SweepWrite \/ Hour
    \/ \E p \in People : Reply(p)

Spec == Init /\ [][Next]_vars

---------------------------------------------------------------------------

\* A conversation whose last word is the user's is on the desk's clock or
\* escalated, and one the desk has answered is neither, unless the desk closed
\* it or two writes crossed (SupportService.reply, escalateOverdue: "lateness
\* should mean the team has not answered").
WhoseTurn ==
    ticket.state \notin {"none", "resolved"} /\ replying = {} /\ ~crossed
        => (ticket.state \in {"open", "escalated"} <=> lastWord = User)
=============================================================================
