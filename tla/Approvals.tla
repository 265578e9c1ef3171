----------------------------- MODULE Approvals -----------------------------
(***************************************************************************)
(* Four eyes: a member of staff files a proposal, a second one approves it *)
(* and the approval executes the action in the same transaction.  The      *)
(* actions modelled are a ledger correction, the release of a withdrawal   *)
(* (registered, never executable) and the payment of a prize run, whose    *)
(* own life (drawn up, submitted, paid, cancelled, drawn up again) belongs *)
(* to the same desk.  A request of a member of staff takes several steps:  *)
(* what it read is kept in "desk", and nothing locks the rows it read.     *)
(***************************************************************************)
EXTENDS Integers, FiniteSetsExt

CONSTANTS
    Staff,          \* people with a role on the approvals routes
    MoneyRole,      \* those of them whose role is finance or admin
    Ids,            \* approval ids, one per proposal
    Users,          \* the people on the published board
    MaxRuns,        \* bound: prize runs drawn up for the period and board
    Requests,       \* bound: requests of the staff under way at once
    MinTier         \* leaderboard_min_tier

\* What a proposal is about: 0 a ledger correction, -1 a withdrawal, n > 0 the
\* prize run with that id.
Subjects == -1 .. MaxRuns

Correction == 0
Withdrawal == -1

VARIABLES
    approvals,      \* approvals[i]: the row, state "none" before it is filed
    desk,           \* desk[q]: where the request q is, and whose it is
    executions,     \* executions[i][s]: times s executed proposal i
    together,       \* history: proposals two requests were approving at once
    run,            \* the row of the period and board; id 0 when there is none
    drawn,          \* runs drawn up so far: the next id is drawn + 1
    paid,           \* paid[n][u]: prize postings of run n to u
    told,           \* people told that their prize is in their balance
    tier            \* tier[u], raised by contact verification

vars == <<approvals, desk, executions, together, run, drawn, paid, told, tier>>

NotFiled == [state |-> "none", by |-> "none", about |-> 0, approver |-> "none"]

NoRun == [id |-> 0, state |-> "none", awards |-> {}]

Unread == [id |-> 0, awards |-> {}]

AtRest == [at |-> "rest", who |-> "none", on |-> "none", saw |-> Unread]

Init ==
    /\ approvals = [i \in Ids |-> NotFiled]
    /\ desk = [q \in Requests |-> AtRest]
    /\ executions = [i \in Ids |-> [s \in Staff |-> 0]]
    /\ together = {}
    /\ run = NoRun
    /\ drawn = 0
    /\ paid = [n \in 1 .. MaxRuns |-> [u \in Users |-> 0]]
    /\ told = {}
    /\ tier \in [Users -> {0, 1}]

\* A request of s starts; the same person may send several.
Enter(q, s, at, i, saw) ==
    /\ desk[q] = AtRest
    /\ desk' = [desk EXCEPT ![q] = [at |-> at, who |-> s, on |-> i, saw |-> saw]]

Leave(q) == desk' = [desk EXCEPT ![q] = AtRest]

---------------------------------------------------------------------------
(* Proposals.                                                              *)

\* The row is created pending.  A run named in the payload need not be the
\* current one: nothing looks at it before the approval executes.
File(s, i, about) == approvals' = [approvals EXCEPT ![i] =
    [state |-> "pending", by |-> s, about |-> about, approver |-> "none"]]

Propose(s, i, about) ==
    /\ approvals[i].state = "none"
    /\ about <= drawn
    /\ File(s, i, about)
    /\ UNCHANGED <<desk, executions, together, run, drawn, paid, told, tier>>

\* The prize desk files the proposal and then marks its run, by a read of its
\* own and a write of its own.
SubmitRun(q, s, i) ==
    /\ approvals[i].state = "none"
    /\ run.id # 0
    /\ File(s, i, run.id)
    /\ Enter(q, s, "submit", i, Unread)
    /\ UNCHANGED <<executions, together, run, drawn, paid, told, tier>>

SubmitRead(q) ==
    LET mine == run.id = approvals[desk[q].on].about /\ run.state = "draft"
    IN /\ desk[q].at = "submit"
       /\ desk' = IF mine THEN [desk EXCEPT ![q].at = "mark"] ELSE [desk EXCEPT ![q] = AtRest]
       /\ UNCHANGED <<approvals, executions, together, run, drawn, paid, told, tier>>

SubmitWrite(q) ==
    LET about == approvals[desk[q].on].about
    IN /\ desk[q].at = "mark"
       /\ run' = IF run.id = about THEN [run EXCEPT !.state = "pending_approval"] ELSE run
       /\ Leave(q)
       /\ UNCHANGED <<approvals, executions, together, drawn, paid, told, tier>>

\* A mutant that does not look at who asked.
MayApproveOwn(s, i) ==
    /\ approvals[i].state = "pending"
    /\ s \in MoneyRole

MayApprove(s, i) ==
    /\ approvals[i].state = "pending"
    /\ approvals[i].by # s
    /\ s \in MoneyRole

Approving(i) == {q \in Requests : desk[q].on = i /\ desk[q].at \in {"approve", "execute"}}

\* The transaction reads the row without a lock and asks its questions.
ApproveRead(q, s, i) ==
    /\ MayApprove(s, i)
    /\ Enter(q, s, "approve", i, Unread)
    /\ together' = IF Approving(i) # {} THEN together \cup {i} ELSE together
    /\ UNCHANGED <<approvals, executions, run, drawn, paid, told, tier>>

\* Whoever a run was drawn for and is verified when the executor reads it.
Winners(row) == {u \in row.awards : tier[u] >= 1}

Payable(row) == row.state \notin {"paid", "cancelled"}

\* The executor reads what it acts on.  A correction has nothing to read, a
\* withdrawal throws, a prize run must exist and be neither paid nor cancelled.
ExecuteRead(q) ==
    LET about == approvals[desk[q].on].about
        able == about = Correction \/ (about > 0 /\ run.id = about /\ Payable(run))
    IN /\ desk[q].at = "approve"
       /\ desk' = IF able THEN [desk EXCEPT ![q].at = "execute", ![q].saw.awards = Winners(run)]
                          ELSE [desk EXCEPT ![q] = AtRest]
       /\ UNCHANGED <<approvals, executions, together, run, drawn, paid, told, tier>>

Approved(i, s) == [approvals EXCEPT ![i].state = "approved", ![i].approver = s]

\* The postings, the run's new state and the approval's row commit together.
\* The run is updated by its id: a run that is gone rolls everything back.
ExecuteCommit(q) ==
    LET i == desk[q].on
        s == desk[q].who
        about == approvals[i].about
        gone == about > 0 /\ run.id # about
    IN /\ desk[q].at = "execute"
       /\ approvals' = IF gone THEN approvals ELSE Approved(i, s)
       /\ executions' = IF gone THEN executions
                        ELSE [executions EXCEPT ![i][s] = @ + 1]
       /\ run' = IF about > 0 /\ ~gone THEN [run EXCEPT !.state = "paid"] ELSE run
       /\ paid' = IF about > 0 /\ ~gone
                  THEN [paid EXCEPT ![about] = [u \in Users |->
                           IF u \in desk[q].saw.awards THEN @[u] + 1 ELSE @[u]]]
                  ELSE paid
       /\ Leave(q)
       /\ UNCHANGED <<together, drawn, told, tier>>

\* Anybody may refuse, the proposer included; the row is read first.
RejectRead(q, s, i) ==
    /\ approvals[i].state = "pending"
    /\ Enter(q, s, "reject", i, Unread)
    /\ UNCHANGED <<approvals, executions, together, run, drawn, paid, told, tier>>

RejectWrite(q) ==
    /\ desk[q].at = "reject"
    /\ approvals' = [approvals EXCEPT ![desk[q].on].state = "rejected",
                                      ![desk[q].on].approver = desk[q].who]
    /\ Leave(q)
    /\ UNCHANGED <<executions, together, run, drawn, paid, told, tier>>

---------------------------------------------------------------------------
(* The prize desk.                                                         *)

\* draft reads the existing row and the board's verified winners, and then
\* replaces a cancelled row in a transaction of its own.
DraftRead(q, s) ==
    /\ run.id = 0 \/ run.state = "cancelled"
    /\ LET winners == {u \in Users : tier[u] >= MinTier}
       IN /\ winners # {}
          /\ Enter(q, s, "draft", "none", [id |-> run.id, awards |-> winners])
    /\ UNCHANGED <<approvals, executions, together, run, drawn, paid, told, tier>>

\* A row that appeared meanwhile breaks the unique key, a row that vanished
\* breaks the delete: either rolls the transaction back.
DraftWrite(q) ==
    /\ desk[q].at = "draft"
    /\ drawn < MaxRuns
    /\ IF run.id = desk[q].saw.id
       THEN /\ drawn' = drawn + 1
            /\ run' = [id |-> drawn + 1, state |-> "draft", awards |-> desk[q].saw.awards]
       ELSE UNCHANGED <<drawn, run>>
    /\ Leave(q)
    /\ UNCHANGED <<approvals, executions, together, paid, told, tier>>

CancelRead(q, s) ==
    /\ run.id # 0
    /\ run.state # "paid"
    /\ Enter(q, s, "cancel", "none", [id |-> run.id, awards |-> {}])
    /\ UNCHANGED <<approvals, executions, together, run, drawn, paid, told, tier>>

CancelWrite(q) ==
    /\ desk[q].at = "cancel"
    /\ run' = IF run.id = desk[q].saw.id THEN [run EXCEPT !.state = "cancelled"] ELSE run
    /\ Leave(q)
    /\ UNCHANGED <<approvals, executions, together, drawn, paid, told, tier>>

\* Every award of a paid run is told that the money is in the balance.
Announce ==
    /\ run.state = "paid"
    /\ told' = told \cup run.awards
    /\ UNCHANGED <<approvals, desk, executions, together, run, drawn, paid, tier>>

\* A contact verification: the only thing that changes a tier, and it raises it.
Verify(u) ==
    /\ tier[u] = 0
    /\ tier' = [tier EXCEPT ![u] = 1]
    /\ UNCHANGED <<approvals, desk, executions, together, run, drawn, paid, told>>

Next ==
    \/ \E i \in Ids, s \in Staff, about \in Subjects : Propose(s, i, about)
    \/ \E q \in Requests :
          \/ \E s \in Staff :
                \/ \E i \in Ids : SubmitRun(q, s, i) \/ ApproveRead(q, s, i) \/ RejectRead(q, s, i)
                \/ DraftRead(q, s)
                \/ CancelRead(q, s)
          \/ SubmitRead(q)
          \/ SubmitWrite(q)
          \/ ExecuteRead(q)
          \/ ExecuteCommit(q)
          \/ RejectWrite(q)
          \/ DraftWrite(q)
          \/ CancelWrite(q)
    \/ Announce
    \/ \E u \in Users : Verify(u)

Spec == Init /\ [][Next]_vars

---------------------------------------------------------------------------

\* Whoever executes a proposal is not who filed it, whatever was read when
\* (ApprovalsService.approve: "the same pair of eyes").
TwoPeople == \A i \in Ids, s \in Staff : executions[i][s] > 0 => s # approvals[i].by

\* A proposal is executed a second time only where two requests to approve it
\* overlapped: the row is read without a lock and updated by its id.
OnceUnlessTogether == \A i \in Ids :
    MapThenSumSet(LAMBDA s : executions[i][s], Staff) > 1 => i \in together

\* An approved proposal was executed by the person it names, or by one whom
\* another overtook.
ApprovedIsExecuted == \A i \in Ids :
    approvals[i].state = "approved" => executions[i][approvals[i].approver] > 0

FourEyes == TwoPeople /\ OnceUnlessTogether /\ ApprovedIsExecuted
=============================================================================
