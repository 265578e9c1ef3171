----------------------------- MODULE StaffProofs -----------------------------
(***************************************************************************)
(* The six invariants of MCStaff in every behaviour, for any numbers of    *)
(* requests, people, ids, accounts, nodes and drafts.  A step of the whole *)
(* is a step of one part or leaves it alone, so that each part has its own *)
(* inductive invariant: DeskInv and OneApproval for the approvals,         *)
(* StakesInv for the wallet and its limits, TurnInv for a ticket, DutyInv  *)
(* for the guarded routes, BudgetInv for the rate limits, and ShelfType,   *)
(* DraftsInv and RoomInv for the drafts and the shelf.                     *)
(***************************************************************************)
EXTENDS MCStaff, SumLemmas

\* What the whole does, the approvals do or do not notice.
LEMMA EyesStep == [Next]_vars => [Eyes!Next]_(Eyes!vars)
BY DEF Next, vars, eyes, Eyes!vars

DeskPeople == Staff \cup {"none"}

ProposalStates == {"none", "pending", "approved", "rejected"}

Proposals == [state : ProposalStates, by : DeskPeople, about : Int, approver : DeskPeople]

DeskPlaces == {"rest", "submit", "mark", "approve", "execute", "reject", "draft", "cancel"}

RunsSeen == [id : Int, awards : SUBSET Users]

DeskTargets == Ids \cup {"none"}

DeskRows == [at : DeskPlaces, who : DeskPeople, on : DeskTargets, saw : RunsSeen]

RunStates == {"none", "draft", "pending_approval", "paid", "cancelled"}

RunRows == [id : Int, state : RunStates, awards : SUBSET Users]

DeskType ==
    /\ approvals \in [Ids -> Proposals]
    /\ desk \in [Hands -> DeskRows]
    /\ executions \in [Ids -> [Staff -> Nat]]
    /\ run \in RunRows
    /\ drawn \in Int

\* A request on its way to executing was let through by the question who
\* filed the proposal.
PastTheQuestion == \A q \in Hands :
    desk[q].at \in {"approve", "execute"} =>
        /\ desk[q].on \in Ids
        /\ desk[q].who \in Staff
        /\ approvals[desk[q].on].state # "none"
        /\ approvals[desk[q].on].by # desk[q].who

\* What was executed had been filed, and by somebody else.
ExecutedByAnother == \A i \in Ids, s \in Staff :
    executions[i][s] > 0 => approvals[i].state # "none" /\ s # approvals[i].by

ApproverExecuted == \A i \in Ids :
    approvals[i].state = "approved" =>
        approvals[i].approver \in Staff /\ executions[i][approvals[i].approver] > 0

DeskInv == DeskType /\ PastTheQuestion /\ ExecutedByAnother /\ ApproverExecuted

---------------------------------------------------------------------------

\* A proposal that has been filed keeps its proposer, and none becomes
\* approved.
ProposersStay == \A i \in Ids :
    /\ approvals[i].state # "none" =>
           approvals'[i].state # "none" /\ approvals'[i].by = approvals[i].by
    /\ approvals'[i].state = "approved" => approvals'[i] = approvals[i]

\* Filing takes an id that nothing was filed under.
LEMMA FilingIsNew ==
    ASSUME DeskInv, NEW i \in Ids, NEW s \in Staff, NEW about \in Int,
           approvals[i].state = "none", Eyes!File(s, i, about)
    PROVE  approvals' \in [Ids -> Proposals] /\ ProposersStay
BY DEF DeskInv, DeskType, Eyes!File, Proposals, ProposalStates, DeskPeople, ProposersStay

\* A request that does not go on to approve or execute disturbs nothing, as
\* long as proposers stay.
LEMMA DeskElsewhere ==
    ASSUME DeskInv, NEW q \in Hands, NEW row \in DeskRows,
           row.at \notin {"approve", "execute"},
           desk' = [desk EXCEPT ![q] = row],
           approvals' \in [Ids -> Proposals], ProposersStay,
           executions' = executions
    PROVE  PastTheQuestion' /\ ExecutedByAnother' /\ ApproverExecuted'
                /\ desk' \in [Hands -> DeskRows]
<1>1. desk' \in [Hands -> DeskRows]
  BY DEF DeskInv, DeskType
<1>2. \A p \in Hands : desk'[p] = IF p = q THEN row ELSE desk[p]
  BY DEF DeskInv, DeskType
<1>3. PastTheQuestion'
  BY <1>2 DEF DeskInv, PastTheQuestion, ProposersStay
<1>4. ExecutedByAnother'
  BY DEF DeskInv, ExecutedByAnother, ProposersStay
<1>5. ApproverExecuted'
  BY DEF DeskInv, ApproverExecuted, ProposersStay
<1>6. QED  BY <1>1, <1>3, <1>4, <1>5

\* A request that is nowhere.
LEMMA RestIsARow == Eyes!AtRest \in DeskRows /\ Eyes!AtRest.at = "rest"
BY DEF Eyes!AtRest, DeskRows, DeskTargets, DeskPlaces, DeskPeople, RunsSeen, Eyes!Unread

\* What a request begins with, at whichever desk.
LEMMA EnterRow ==
    ASSUME NEW q, NEW s \in Staff, NEW at \in DeskPlaces, NEW i \in DeskTargets,
           NEW saw \in RunsSeen, Eyes!Enter(q, s, at, i, saw)
    PROVE  \E row \in DeskRows : row.at = at /\ row.on = i /\ row.who = s
                                 /\ desk' = [desk EXCEPT ![q] = row]
BY DEF Eyes!Enter, DeskRows, DeskPeople

---------------------------------------------------------------------------

\* An empty desk.
LEMMA DeskStarts == Eyes!Init => DeskInv
<1> SUFFICES ASSUME Eyes!Init PROVE DeskInv
  OBVIOUS
<1>1. /\ approvals = [i \in Ids |-> Eyes!NotFiled]
      /\ desk = [q \in Hands |-> Eyes!AtRest]
      /\ executions = [i \in Ids |-> [s \in Staff |-> 0]]
      /\ run = Eyes!NoRun
      /\ drawn = 0
  BY DEF Eyes!Init
<1>2. Eyes!NotFiled \in Proposals /\ Eyes!NotFiled.state = "none"
  BY DEF Eyes!NotFiled, Proposals, ProposalStates, DeskPeople
<1>3. DeskType
  BY <1>1, <1>2, RestIsARow DEF DeskType, Eyes!NoRun, RunRows, RunStates
<1>4. PastTheQuestion
  BY <1>1, RestIsARow DEF PastTheQuestion
<1>5. ExecutedByAnother /\ ApproverExecuted
  BY <1>1, <1>2 DEF ExecutedByAnother, ApproverExecuted
<1>6. QED  BY <1>3, <1>4, <1>5 DEF DeskInv

\* No step of a proposal, a run or a tier change breaks the desk.
LEMMA DeskKeeps == DeskInv /\ [Eyes!Next]_(Eyes!vars) => DeskInv'
<1> SUFFICES ASSUME DeskInv, [Eyes!Next]_(Eyes!vars) PROVE DeskInv'
  OBVIOUS
<1> USE DEF DeskInv
<1>0. Eyes!Unread \in RunsSeen
  BY DEF Eyes!Unread, RunsSeen
<1>1. ASSUME NEW i \in Ids, NEW s \in Staff, NEW about \in Eyes!Subjects, Eyes!Propose(s, i, about)
      PROVE  DeskInv'
  <2>1. about \in Int
    BY DEF Eyes!Subjects
  <2>2. approvals' \in [Ids -> Proposals] /\ ProposersStay
    BY <1>1, <2>1, FilingIsNew DEF Eyes!Propose
  <2>3. UNCHANGED <<desk, executions, run, drawn>>
    BY <1>1 DEF Eyes!Propose
  <2>4. DeskType'
    BY <2>2, <2>3 DEF DeskType
  <2>5. PastTheQuestion' /\ ExecutedByAnother' /\ ApproverExecuted'
    BY <2>2, <2>3 DEF PastTheQuestion, ExecutedByAnother, ApproverExecuted, ProposersStay
  <2>6. QED  BY <2>4, <2>5
<1>2. ASSUME NEW q \in Hands, NEW s \in Staff, NEW i \in Ids, Eyes!SubmitRun(q, s, i)
      PROVE  DeskInv'
  <2>1. run.id \in Int
    BY DEF DeskType, RunRows
  <2>2. approvals' \in [Ids -> Proposals] /\ ProposersStay
    BY <1>2, <2>1, FilingIsNew DEF Eyes!SubmitRun
  <2>3. PICK row \in DeskRows : row.at = "submit" /\ row.on = i /\ row.who = s
                                /\ desk' = [desk EXCEPT ![q] = row]
    BY <1>0, <1>2, EnterRow DEF Eyes!SubmitRun, DeskPlaces, DeskTargets
  <2>4. UNCHANGED <<executions, run, drawn>>
    BY <1>2 DEF Eyes!SubmitRun
  <2>5. row.at \notin {"approve", "execute"}
    BY <2>3
  <2>6. PastTheQuestion' /\ ExecutedByAnother' /\ ApproverExecuted'
           /\ desk' \in [Hands -> DeskRows]
    BY <2>2, <2>3, <2>4, <2>5, DeskElsewhere
  <2>7. QED  BY <2>2, <2>4, <2>6 DEF DeskType
<1>3. ASSUME NEW q \in Hands, NEW row \in DeskRows, row.at \notin {"approve", "execute"},
             desk' = [desk EXCEPT ![q] = row], UNCHANGED <<approvals, executions>>,
             run' \in RunRows, drawn' \in Int
      PROVE  DeskInv'
  <2>1. approvals' \in [Ids -> Proposals] /\ ProposersStay
    BY <1>3 DEF DeskType, ProposersStay
  <2>2. PastTheQuestion' /\ ExecutedByAnother' /\ ApproverExecuted'
           /\ desk' \in [Hands -> DeskRows]
    BY <1>3, <2>1, DeskElsewhere
  <2>3. QED  BY <1>3, <2>1, <2>2 DEF DeskType
<1>4. ASSUME NEW q \in Hands, Eyes!SubmitRead(q) PROVE DeskInv'
  <2>1. UNCHANGED <<approvals, executions, run, drawn>>
    BY <1>4 DEF Eyes!SubmitRead
  <2>2. desk' = [desk EXCEPT ![q].at = "mark"] \/ desk' = [desk EXCEPT ![q] = Eyes!AtRest]
    BY <1>4 DEF Eyes!SubmitRead
  <2>3. [desk[q] EXCEPT !.at = "mark"] \in DeskRows
    BY DEF DeskType, DeskRows, DeskPlaces
  <2>4. [desk[q] EXCEPT !.at = "mark"].at = "mark"
    BY DEF DeskType, DeskRows
  <2>5. QED
    BY <1>3, <2>1, <2>2, <2>3, <2>4, RestIsARow DEF DeskType
<1>5. ASSUME NEW q \in Hands, Eyes!SubmitWrite(q) PROVE DeskInv'
  <2>1. UNCHANGED <<approvals, executions, drawn>> /\ Eyes!Leave(q)
    BY <1>5 DEF Eyes!SubmitWrite
  <2>2. run' \in RunRows
    BY <1>5 DEF Eyes!SubmitWrite, DeskType, RunRows, RunStates
  <2>3. QED
    BY <1>3, <2>1, <2>2, RestIsARow DEF Eyes!Leave, DeskType
<1>6. ASSUME NEW q \in Hands, NEW s \in Staff, NEW i \in Ids, Eyes!ApproveRead(q, s, i)
      PROVE  DeskInv'
  <2>1. approvals[i].state = "pending" /\ approvals[i].by # s
    BY <1>6 DEF Eyes!ApproveRead, Eyes!MayApprove
  <2>2. PICK row \in DeskRows : row.at = "approve" /\ row.on = i /\ row.who = s
                                /\ desk' = [desk EXCEPT ![q] = row]
    BY <1>0, <1>6, EnterRow DEF Eyes!ApproveRead, DeskPlaces, DeskTargets
  <2>3. UNCHANGED <<approvals, executions, run, drawn>>
    BY <1>6 DEF Eyes!ApproveRead
  <2>4. \A p \in Hands : desk'[p] = IF p = q THEN row ELSE desk[p]
    BY <2>2 DEF DeskType
  <2>5. PastTheQuestion'
    BY <2>1, <2>2, <2>3, <2>4 DEF PastTheQuestion
  <2>6. DeskType' /\ ExecutedByAnother' /\ ApproverExecuted'
    BY <2>2, <2>3 DEF DeskType, ExecutedByAnother, ApproverExecuted
  <2>7. QED  BY <2>5, <2>6
<1>7. ASSUME NEW q \in Hands, Eyes!ExecuteRead(q) PROVE DeskInv'
  <2> DEFINE found == [desk[q] EXCEPT !.at = "execute", !.saw.awards = Eyes!Winners(run)]
  <2>1. UNCHANGED <<approvals, executions, run, drawn>> /\ desk[q].at = "approve"
    BY <1>7 DEF Eyes!ExecuteRead
  <2>2. desk' = [desk EXCEPT ![q] = found] \/ desk' = [desk EXCEPT ![q] = Eyes!AtRest]
    BY <1>7 DEF Eyes!ExecuteRead
  <2>3. Eyes!Winners(run) \in SUBSET Users
    BY DEF DeskType, RunRows, Eyes!Winners
  <2>4. found \in DeskRows /\ found.on = desk[q].on /\ found.who = desk[q].who
    <3> DEFINE read == [desk[q].saw EXCEPT !.awards = Eyes!Winners(run)]
    <3>1. desk[q] \in DeskRows
      BY DEF DeskType
    <3>2. read \in RunsSeen
      BY <2>3, <3>1 DEF DeskRows, RunsSeen
    <3>3. found = [desk[q] EXCEPT !.at = "execute", !.saw = read]
      BY <3>1 DEF DeskRows, RunsSeen
    <3> HIDE DEF read, found
    <3>4. QED  BY <3>1, <3>2, <3>3 DEF DeskRows, DeskPlaces
  <2>5. CASE desk' = [desk EXCEPT ![q] = Eyes!AtRest]
    BY <1>3, <2>1, <2>5, RestIsARow DEF DeskType
  <2>6. CASE desk' = [desk EXCEPT ![q] = found]
    <3> HIDE DEF found
    <3>1. \A p \in Hands : desk'[p] = IF p = q THEN found ELSE desk[p]
      BY <2>6 DEF DeskType
    <3>2. PastTheQuestion'
      BY <2>1, <2>4, <3>1 DEF PastTheQuestion
    <3>3. DeskType' /\ ExecutedByAnother' /\ ApproverExecuted'
      BY <2>1, <2>4, <2>6 DEF DeskType, ExecutedByAnother, ApproverExecuted
    <3>4. QED  BY <3>2, <3>3
  <2>7. QED  BY <2>2, <2>5, <2>6
<1>8. ASSUME NEW q \in Hands, Eyes!ExecuteCommit(q) PROVE DeskInv'
  <2> DEFINE i == desk[q].on
  <2> DEFINE s == desk[q].who
  <2>1. /\ i \in Ids /\ s \in Staff
        /\ approvals[i].state # "none" /\ approvals[i].by # s
    BY <1>8 DEF Eyes!ExecuteCommit, PastTheQuestion
  <2>2. desk' = [desk EXCEPT ![q] = Eyes!AtRest] /\ drawn' = drawn
    BY <1>8 DEF Eyes!ExecuteCommit, Eyes!Leave
  <2>3. run' \in RunRows
    BY <1>8 DEF Eyes!ExecuteCommit, DeskType, RunRows, RunStates
  <2>4. \/ UNCHANGED <<approvals, executions>>
        \/ /\ approvals' = [approvals EXCEPT ![i].state = "approved", ![i].approver = s]
           /\ executions' = [executions EXCEPT ![i][s] = @ + 1]
    BY <1>8 DEF Eyes!ExecuteCommit, Eyes!Approved
  <2>5. CASE UNCHANGED <<approvals, executions>>
    BY <1>3, <2>2, <2>3, <2>5, RestIsARow DEF DeskType
  <2>6. CASE /\ approvals' = [approvals EXCEPT ![i].state = "approved", ![i].approver = s]
             /\ executions' = [executions EXCEPT ![i][s] = @ + 1]
    <3> HIDE DEF i, s
    <3>1. DeskType'
      <4>1. approvals' \in [Ids -> Proposals]
        <5>1. approvals \in [Ids -> Proposals] /\ approvals[i] \in Proposals
          BY <2>1 DEF DeskType
        <5>2. PICK r : r = [approvals[i] EXCEPT !.state = "approved", !.approver = s]
          OBVIOUS
        <5>3. r \in Proposals
          BY <2>1, <5>1, <5>2 DEF Proposals, ProposalStates, DeskPeople
        <5>4. approvals' = [approvals EXCEPT ![i] = r]
          BY <2>1, <2>6, <5>1, <5>2
        <5>5. QED  BY <5>1, <5>3, <5>4
      <4>2. executions' \in [Ids -> [Staff -> Nat]]
        <5>1. /\ executions \in [Ids -> [Staff -> Nat]]
              /\ executions[i] \in [Staff -> Nat]
              /\ executions[i][s] + 1 \in Nat
          BY <2>1 DEF DeskType
        <5>2. [executions[i] EXCEPT ![s] = @ + 1] \in [Staff -> Nat]
          BY <5>1
        <5>3. executions' = [executions EXCEPT ![i] = [executions[i] EXCEPT ![s] = @ + 1]]
          BY <2>1, <2>6, <5>1
        <5>4. QED  BY <5>1, <5>2, <5>3
      <4>3. desk' \in [Hands -> DeskRows]
        BY <2>2, RestIsARow DEF DeskType
      <4>4. QED  BY <2>2, <2>3, <4>1, <4>2, <4>3 DEF DeskType
    <3>2. \A j \in Ids :
              /\ approvals'[j].by = approvals[j].by
              /\ approvals'[j].state = IF j = i THEN "approved" ELSE approvals[j].state
              /\ approvals'[j].approver = IF j = i THEN s ELSE approvals[j].approver
      BY <2>6 DEF DeskType, Proposals
    <3>3. \A j \in Ids, t \in Staff :
              executions'[j][t] = IF j = i /\ t = s THEN executions[j][t] + 1
                                  ELSE executions[j][t]
      BY <2>6 DEF DeskType
    <3>4. \A p \in Hands : desk'[p] = IF p = q THEN Eyes!AtRest ELSE desk[p]
      BY <2>2 DEF DeskType
    <3>5. PastTheQuestion'
      BY <3>2, <3>4, RestIsARow DEF PastTheQuestion
    <3>6. ExecutedByAnother'
      BY <2>1, <3>2, <3>3 DEF ExecutedByAnother
    <3>7. ApproverExecuted'
      BY <2>1, <3>2, <3>3 DEF ApproverExecuted, DeskType
    <3>8. QED  BY <3>1, <3>5, <3>6, <3>7
  <2>7. QED  BY <2>4, <2>5, <2>6
<1>9. ASSUME NEW q \in Hands, NEW s \in Staff, NEW i \in Ids, Eyes!RejectRead(q, s, i)
      PROVE  DeskInv'
  <2>1. PICK row \in DeskRows : row.at = "reject" /\ row.on = i /\ row.who = s
                                /\ desk' = [desk EXCEPT ![q] = row]
    BY <1>0, <1>9, EnterRow DEF Eyes!RejectRead, DeskPlaces, DeskTargets
  <2>2. UNCHANGED <<approvals, executions, run, drawn>>
    BY <1>9 DEF Eyes!RejectRead
  <2>3. QED  BY <1>3, <2>1, <2>2 DEF DeskType
<1>10. ASSUME NEW q \in Hands, Eyes!RejectWrite(q) PROVE DeskInv'
  <2>1. UNCHANGED <<executions, run, drawn>> /\ Eyes!Leave(q)
    BY <1>10 DEF Eyes!RejectWrite
  <2>2. approvals' = [approvals EXCEPT ![desk[q].on].state = "rejected",
                                       ![desk[q].on].approver = desk[q].who]
    BY <1>10 DEF Eyes!RejectWrite
  <2>3. desk[q].who \in DeskPeople
    BY DEF DeskType, DeskRows
  <2>4. approvals' \in [Ids -> Proposals]
    BY <2>2, <2>3 DEF DeskType, Proposals, ProposalStates
  <2>5. ProposersStay
    BY <2>2 DEF DeskType, Proposals, ProposersStay
  <2>6. PastTheQuestion' /\ ExecutedByAnother' /\ ApproverExecuted'
           /\ desk' \in [Hands -> DeskRows]
    BY <2>1, <2>4, <2>5, RestIsARow, DeskElsewhere DEF Eyes!Leave
  <2>7. QED  BY <2>1, <2>4, <2>6 DEF DeskType
<1>11. ASSUME NEW q \in Hands, NEW s \in Staff, Eyes!DraftRead(q, s) PROVE DeskInv'
  <2>1. {u \in Users : tier[u] >= MinTier} \in SUBSET Users /\ run.id \in Int
    BY DEF DeskType, RunRows
  <2>2. PICK saw \in RunsSeen :
            saw = [id |-> run.id, awards |-> {u \in Users : tier[u] >= MinTier}]
    BY <2>1 DEF RunsSeen
  <2>3. /\ Eyes!Enter(q, s, "draft", "none", saw)
        /\ UNCHANGED <<approvals, executions, run, drawn>>
    BY <1>11, <2>2 DEF Eyes!DraftRead
  <2>4. "draft" \in DeskPlaces /\ "none" \in DeskTargets
    BY DEF DeskPlaces, DeskTargets
  <2>5. PICK row \in DeskRows : row.at = "draft" /\ row.on = "none" /\ row.who = s
                                /\ desk' = [desk EXCEPT ![q] = row]
    BY <2>3, <2>4, EnterRow
  <2>6. row.at = "draft"
    BY <2>5
  <2>7. run' \in RunRows /\ drawn' \in Int
    BY <2>3 DEF DeskType
  <2>8. QED  BY <1>3, <2>3, <2>5, <2>6, <2>7
<1>12. ASSUME NEW q \in Hands, Eyes!DraftWrite(q) PROVE DeskInv'
  <2>1. UNCHANGED <<approvals, executions>> /\ Eyes!Leave(q)
    BY <1>12 DEF Eyes!DraftWrite
  <2>2. desk[q].saw.awards \in SUBSET Users
    BY DEF DeskType, DeskRows, RunsSeen
  <2>3. run' \in RunRows /\ drawn' \in Int
    BY <1>12, <2>2 DEF Eyes!DraftWrite, DeskType, RunRows, RunStates
  <2>4. QED  BY <1>3, <2>1, <2>3, RestIsARow DEF Eyes!Leave
<1>13. ASSUME NEW q \in Hands, NEW s \in Staff, Eyes!CancelRead(q, s) PROVE DeskInv'
  <2> DEFINE saw == [id |-> run.id, awards |-> {}]
  <2>1. saw \in RunsSeen /\ "none" \in DeskTargets
    BY DEF DeskType, RunsSeen, RunRows, DeskTargets
  <2>2. Eyes!Enter(q, s, "cancel", "none", saw) /\ UNCHANGED <<approvals, executions, run, drawn>>
    BY <1>13 DEF Eyes!CancelRead
  <2> HIDE DEF saw
  <2>3. PICK row \in DeskRows : row.at = "cancel" /\ row.on = "none" /\ row.who = s
                                /\ desk' = [desk EXCEPT ![q] = row]
    <3>1. "cancel" \in DeskPlaces
      BY DEF DeskPlaces
    <3>2. QED  BY <2>1, <2>2, <3>1, EnterRow
  <2>4. QED  BY <1>3, <2>2, <2>3 DEF DeskType
<1>14. ASSUME NEW q \in Hands, Eyes!CancelWrite(q) PROVE DeskInv'
  <2>1. UNCHANGED <<approvals, executions, drawn>> /\ Eyes!Leave(q)
    BY <1>14 DEF Eyes!CancelWrite
  <2>2. run' \in RunRows
    BY <1>14 DEF Eyes!CancelWrite, DeskType, RunRows, RunStates
  <2>3. QED  BY <1>3, <2>1, <2>2, RestIsARow DEF Eyes!Leave, DeskType
<1>15. ASSUME UNCHANGED <<approvals, desk, executions, run, drawn>> PROVE DeskInv'
  BY <1>15 DEF DeskType, PastTheQuestion, ExecutedByAnother, ApproverExecuted
<1>16. ASSUME Eyes!Announce PROVE DeskInv'
  BY <1>15, <1>16 DEF Eyes!Announce
<1>17. ASSUME NEW u \in Users, Eyes!Verify(u) PROVE DeskInv'
  BY <1>15, <1>17 DEF Eyes!Verify
<1>18. CASE UNCHANGED Eyes!vars
  BY <1>15, <1>18 DEF Eyes!vars
<1>19. QED
  BY <1>1, <1>2, <1>4, <1>5, <1>6, <1>7, <1>8, <1>9, <1>10, <1>11, <1>12, <1>13, <1>14,
     <1>16, <1>17, <1>18 DEF Eyes!Next


---------------------------------------------------------------------------
\* How often a proposal is executed.

Quiet(i) == \A s \in Staff : executions[i][s] = 0

ExecutedOnce(i) == \E s \in Staff :
    executions[i][s] = 1 /\ \A t \in Staff \ {s} : executions[i][t] = 0

\* Until two requests to approve a proposal have met, one of them is under way
\* at a time, and none once it was executed.
OneApproval == \A i \in Ids :
    /\ approvals[i].state \in {"none", "pending"} => Quiet(i)
    /\ i \notin approvedTogether =>
           /\ \A p, q \in Eyes!Approving(i) : p = q
           /\ Eyes!Approving(i) # {} => Quiet(i)
           /\ Quiet(i) \/ ExecutedOnce(i)

\* What the fold of a proposal's executions adds up to.
LEMMA TotalExecutions ==
    ASSUME NEW i
    PROVE  Eyes!MapThenSumSet(LAMBDA s : executions[i][s], Staff)
               = SumFunctionOnSet(executions[i], Staff)
<1>1. Eyes!MapThenSumSet(LAMBDA s : executions[i][s], Staff)
          = PartialSum(executions[i], Staff)[Staff]
  BY DEF Eyes!MapThenSumSet, Eyes!MapThenFoldSet, PartialSum, Pick
<1> QED BY <1>1, SumIsPartialSum

\* Nobody's executions come to none.
LEMMA NoneAddsUp ==
    ASSUME NEW f, \A s \in Staff : f[s] = 0
    PROVE  SumFunctionOnSet(f, Staff) = 0
<1>1. PICK z : z = 0
  OBVIOUS
<1>2. z \in Int /\ \A s \in Staff : f[s] = z
  BY <1>1
<1>3. SumFunctionOnSet(f, Staff) = z * Cardinality(Staff)
  BY <1>2, PeopleAssumption, SumConstant
<1>4. Cardinality(Staff) \in Nat
  BY PeopleAssumption, FS_CardinalityType
<1> QED BY <1>1, <1>3, <1>4

\* One execution by one person adds up to one.
LEMMA OnceAddsUp ==
    ASSUME DeskInv, NEW i \in Ids, Quiet(i) \/ ExecutedOnce(i)
    PROVE  SumFunctionOnSet(executions[i], Staff) <= 1
<1>1. CASE Quiet(i)
  <2>1. \A s \in Staff : executions[i][s] = 0
    BY <1>1 DEF Quiet
  <2> QED BY <2>1, NoneAddsUp
<1>2. CASE ExecutedOnce(i)
  <2>1. PICK s \in Staff : executions[i][s] = 1 /\ \A t \in Staff \ {s} : executions[i][t] = 0
    BY <1>2 DEF ExecutedOnce
  <2>2. PICK none : none = [t \in Staff |-> 0]
    OBVIOUS
  <2>3. none[s] = 0 /\ \A t \in Staff : none[t] = 0
    BY <2>2
  <2>4. SumFunctionOnSet(none, Staff) = 0
    BY <2>3, NoneAddsUp
  <2>5. PICK mine : mine = executions[i]
    OBVIOUS
  <2>6. mine[s] \in Int /\ \A t \in Staff : none[t] \in Int /\ (t # s => mine[t] = none[t])
    BY <2>1, <2>3, <2>5
  <2>7. SumFunctionOnSet(mine, Staff) = SumFunctionOnSet(none, Staff) - none[s] + mine[s]
    BY <2>6, PeopleAssumption, SumOneChange
  <2> QED BY <2>1, <2>3, <2>4, <2>5, <2>7
<1> QED BY <1>1, <1>2

\* A step that executes nothing, begins no approval and files no old proposal
\* again keeps it.
LEMMA NoNewApproval ==
    ASSUME OneApproval, executions' = executions, approvedTogether \subseteq approvedTogether',
           \A i \in Ids : /\ Eyes!Approving(i)' \subseteq Eyes!Approving(i)
                          /\ approvals'[i].state \in {"none", "pending"} =>
                                 approvals[i].state \in {"none", "pending"}
    PROVE  OneApproval'
BY DEF OneApproval, Quiet, ExecutedOnce

\* A request that goes anywhere but to an approval begins none.
LEMMA ElsewhereApprovesNothing ==
    ASSUME DeskInv, NEW q \in Hands, NEW row, desk' = [desk EXCEPT ![q] = row],
           row.at \notin {"approve", "execute"}
    PROVE  \A i \in Ids : Eyes!Approving(i)' \subseteq Eyes!Approving(i) \ {q}
BY DEF DeskInv, DeskType, Eyes!Approving

\* Nothing is filed yet.
LEMMA ApprovalsStart == Eyes!Init => OneApproval
BY DEF Eyes!Init, OneApproval, Quiet, Eyes!Approving, Eyes!AtRest

\* A second execution needs two approvals past the question together.
LEMMA ApprovalsKeep == DeskInv /\ OneApproval /\ [Eyes!Next]_(Eyes!vars) => OneApproval'
<1> SUFFICES ASSUME DeskInv, OneApproval, [Eyes!Next]_(Eyes!vars) PROVE OneApproval'
  OBVIOUS
<1>0. /\ approvals \in [Ids -> Proposals]
      /\ desk \in [Hands -> DeskRows]
      /\ executions \in [Ids -> [Staff -> Nat]]
  BY DEF DeskInv, DeskType
<1>1. ASSUME NEW q \in Hands, NEW row, row.at \notin {"approve", "execute"},
             desk' = [desk EXCEPT ![q] = row], UNCHANGED <<executions, approvedTogether>>,
             \A i \in Ids : approvals'[i].state \in {"none", "pending"} =>
                 approvals[i].state \in {"none", "pending"}
      PROVE  OneApproval'
  BY <1>1, ElsewhereApprovesNothing, NoNewApproval
<1>2. ASSUME NEW i \in Ids, NEW s, NEW about, approvals[i].state = "none", Eyes!File(s, i, about)
      PROVE  \A j \in Ids : approvals'[j].state \in {"none", "pending"} =>
                 approvals[j].state \in {"none", "pending"}
  BY <1>0, <1>2 DEF Eyes!File
<1>3. ASSUME NEW i \in Ids, NEW s \in Staff, NEW about \in Eyes!Subjects, Eyes!Propose(s, i, about)
      PROVE  OneApproval'
  <2>1. UNCHANGED <<desk, executions, approvedTogether>>
    BY <1>3 DEF Eyes!Propose
  <2>2. \A j \in Ids : approvals'[j].state \in {"none", "pending"} =>
            approvals[j].state \in {"none", "pending"}
    BY <1>2, <1>3 DEF Eyes!Propose
  <2> QED BY <2>1, <2>2, NoNewApproval DEF Eyes!Approving
<1>4. ASSUME NEW q \in Hands, NEW s \in Staff, NEW i \in Ids, Eyes!SubmitRun(q, s, i)
      PROVE  OneApproval'
  <2>1. /\ approvals[i].state = "none" /\ Eyes!File(s, i, run.id)
        /\ Eyes!Enter(q, s, "submit", i, Eyes!Unread)
        /\ UNCHANGED <<executions, approvedTogether>>
    BY <1>4 DEF Eyes!SubmitRun
  <2>2. PICK row : row.at = "submit" /\ desk' = [desk EXCEPT ![q] = row]
    BY <2>1 DEF Eyes!Enter
  <2> QED BY <1>1, <1>2, <2>1, <2>2
<1>5. ASSUME NEW q \in Hands, Eyes!SubmitRead(q) PROVE OneApproval'
  <2>1. UNCHANGED <<approvals, executions, approvedTogether>> /\ desk[q] \in DeskRows
    BY <1>0, <1>5 DEF Eyes!SubmitRead
  <2>2. PICK row : /\ row.at \in {"mark", "rest"}
                   /\ desk' = [desk EXCEPT ![q] = row]
    <3>1. PICK mark : mark = [desk[q] EXCEPT !.at = "mark"]
      OBVIOUS
    <3>2. mark.at = "mark" /\ Eyes!AtRest.at = "rest"
      BY <2>1, <3>1 DEF DeskRows, Eyes!AtRest
    <3>3. desk' = [desk EXCEPT ![q] = mark] \/ desk' = [desk EXCEPT ![q] = Eyes!AtRest]
      BY <1>5, <3>1 DEF Eyes!SubmitRead
    <3> QED BY <3>2, <3>3
  <2> QED BY <1>1, <2>1, <2>2
<1>6. ASSUME NEW q \in Hands,
             Eyes!SubmitWrite(q) \/ Eyes!RejectWrite(q) \/ Eyes!DraftWrite(q) \/ Eyes!CancelWrite(q)
      PROVE  OneApproval'
  <2>1. /\ desk' = [desk EXCEPT ![q] = Eyes!AtRest] /\ Eyes!AtRest.at = "rest"
        /\ UNCHANGED <<executions, approvedTogether>>
    BY <1>6 DEF Eyes!SubmitWrite, Eyes!RejectWrite, Eyes!DraftWrite, Eyes!CancelWrite,
                Eyes!Leave, Eyes!AtRest
  <2>2. \A j \in Ids : approvals'[j].state \in {"none", "pending"} =>
            approvals[j].state \in {"none", "pending"}
    <3>1. CASE UNCHANGED approvals
      BY <3>1
    <3>2. CASE Eyes!RejectWrite(q)
      BY <1>0, <3>2 DEF Eyes!RejectWrite, Proposals
    <3> QED BY <1>6, <3>1, <3>2 DEF Eyes!SubmitWrite, Eyes!DraftWrite, Eyes!CancelWrite
  <2> QED BY <1>1, <2>1, <2>2
<1>7. ASSUME NEW q \in Hands, NEW s \in Staff, NEW i,
             Eyes!RejectRead(q, s, i) \/ Eyes!DraftRead(q, s) \/ Eyes!CancelRead(q, s)
      PROVE  OneApproval'
  <2>1. UNCHANGED <<approvals, executions, approvedTogether>>
    BY <1>7 DEF Eyes!RejectRead, Eyes!DraftRead, Eyes!CancelRead
  <2>2. ASSUME NEW at, at \notin {"approve", "execute"}, NEW on, NEW saw,
               Eyes!Enter(q, s, at, on, saw)
        PROVE  OneApproval'
    <3>1. PICK row : row = [at |-> at, who |-> s, on |-> on, saw |-> saw]
      OBVIOUS
    <3>2. desk' = [desk EXCEPT ![q] = row] /\ row.at = at
      BY <2>2, <3>1 DEF Eyes!Enter
    <3>3. row.at \notin {"approve", "execute"}
      BY <2>2, <3>2
    <3> QED BY <1>1, <2>1, <3>2, <3>3
  <2>3. CASE Eyes!RejectRead(q, s, i)
    BY <2>2, <2>3 DEF Eyes!RejectRead
  <2>4. CASE Eyes!DraftRead(q, s)
    <3>1. PICK saw : Eyes!Enter(q, s, "draft", "none", saw)
      BY <2>4 DEF Eyes!DraftRead
    <3> QED BY <2>2, <3>1
  <2>5. CASE Eyes!CancelRead(q, s)
    <3>1. PICK saw : Eyes!Enter(q, s, "cancel", "none", saw)
      BY <2>5 DEF Eyes!CancelRead
    <3> QED BY <2>2, <3>1
  <2> QED BY <1>7, <2>3, <2>4, <2>5
<1>8. ASSUME NEW q \in Hands, NEW s \in Staff, NEW i \in Ids, Eyes!ApproveRead(q, s, i)
      PROVE  OneApproval'
  <2>1. /\ approvals[i].state = "pending"
        /\ approvedTogether' = IF Eyes!Approving(i) # {} THEN approvedTogether \cup {i}
                               ELSE approvedTogether
        /\ UNCHANGED <<approvals, executions>>
    BY <1>8 DEF Eyes!ApproveRead, Eyes!MayApprove
  <2>2. PICK row : row.at = "approve" /\ row.on = i /\ desk' = [desk EXCEPT ![q] = row]
    BY <1>8 DEF Eyes!ApproveRead, Eyes!Enter
  <2>3. \A j \in Ids : Eyes!Approving(j)' \subseteq
            IF j = i THEN Eyes!Approving(j) \cup {q} ELSE Eyes!Approving(j)
    BY <1>0, <2>2 DEF Eyes!Approving
  <2>4. \A j \in Ids : Quiet(j)' = Quiet(j) /\ ExecutedOnce(j)' = ExecutedOnce(j)
    BY <2>1 DEF Quiet, ExecutedOnce
  <2> QED BY <2>1, <2>3, <2>4 DEF OneApproval
<1>9. ASSUME NEW q \in Hands, Eyes!ExecuteRead(q) PROVE OneApproval'
  <2>1. UNCHANGED <<approvals, executions, approvedTogether>> /\ desk[q].at = "approve"
    BY <1>9 DEF Eyes!ExecuteRead
  <2>2. PICK row : /\ row.at = "rest" \/ row.on = desk[q].on
                   /\ desk' = [desk EXCEPT ![q] = row]
    <3>1. PICK found :
              found = [desk[q] EXCEPT !.at = "execute", !.saw.awards = Eyes!Winners(run)]
      OBVIOUS
    <3>2. found.on = desk[q].on /\ Eyes!AtRest.at = "rest"
      BY <1>0, <3>1 DEF DeskRows, Eyes!AtRest
    <3>3. desk' = [desk EXCEPT ![q] = found] \/ desk' = [desk EXCEPT ![q] = Eyes!AtRest]
      BY <1>9, <3>1 DEF Eyes!ExecuteRead
    <3> QED BY <3>2, <3>3
  <2>3. \A j \in Ids : Eyes!Approving(j)' \subseteq Eyes!Approving(j)
    BY <1>0, <2>1, <2>2 DEF Eyes!Approving
  <2> QED BY <2>1, <2>3, NoNewApproval
<1>10. ASSUME NEW q \in Hands, Eyes!ExecuteCommit(q) PROVE OneApproval'
  <2>0. PICK i, s : i = desk[q].on /\ s = desk[q].who
    OBVIOUS
  <2>1. /\ i \in Ids /\ s \in Staff /\ desk[q].at = "execute" /\ q \in Eyes!Approving(i)
    BY <2>0, <1>10 DEF Eyes!ExecuteCommit, DeskInv, PastTheQuestion, Eyes!Approving
  <2>2. /\ desk' = [desk EXCEPT ![q] = Eyes!AtRest] /\ Eyes!AtRest.at = "rest"
        /\ approvedTogether' = approvedTogether
    BY <1>10 DEF Eyes!ExecuteCommit, Eyes!Leave, Eyes!AtRest
  <2>3. \/ UNCHANGED <<approvals, executions>>
        \/ /\ approvals' = [approvals EXCEPT ![i].state = "approved", ![i].approver = s]
           /\ executions' = [executions EXCEPT ![i][s] = @ + 1]
    BY <1>10, <2>0 DEF Eyes!ExecuteCommit, Eyes!Approved
  <2>4. CASE UNCHANGED <<approvals, executions>>
    BY <1>1, <2>2, <2>4
  <2>5. CASE /\ approvals' = [approvals EXCEPT ![i].state = "approved", ![i].approver = s]
             /\ executions' = [executions EXCEPT ![i][s] = @ + 1]
    <3>1. \A j \in Ids : Eyes!Approving(j)' \subseteq Eyes!Approving(j) \ {q}
      BY <2>2, ElsewhereApprovesNothing
    <3>2. \A j \in Ids : approvals'[j].state =
              IF j = i THEN "approved" ELSE approvals[j].state
      BY <1>0, <2>5 DEF Proposals
    <3>3. \A j \in Ids, t \in Staff : executions'[j][t] =
              IF j = i /\ t = s THEN executions[j][t] + 1 ELSE executions[j][t]
      BY <1>0, <2>5
    <3>4. \A j \in Ids \ {i} : (Quiet(j) => Quiet(j)') /\ (ExecutedOnce(j) => ExecutedOnce(j)')
      BY <3>3 DEF Quiet, ExecutedOnce
    <3>5. ASSUME i \notin approvedTogether
          PROVE  ExecutedOnce(i)' /\ Eyes!Approving(i)' = {}
      <4>1. Quiet(i) /\ \A p \in Eyes!Approving(i) : p = q
        BY <2>1, <3>5 DEF OneApproval
      <4>2. Eyes!Approving(i)' = {}
        BY <2>1, <3>1, <4>1
      <4>3. executions'[i][s] = 1 /\ \A u \in Staff \ {s} : executions'[i][u] = 0
        BY <2>1, <3>3, <4>1 DEF Quiet
      <4> QED BY <2>1, <4>2, <4>3 DEF ExecutedOnce
    <3>6. SUFFICES ASSUME NEW j \in Ids
                   PROVE  /\ approvals'[j].state \in {"none", "pending"} => Quiet(j)'
                          /\ j \notin approvedTogether' =>
                                 /\ \A p, r \in Eyes!Approving(j)' : p = r
                                 /\ Eyes!Approving(j)' # {} => Quiet(j)'
                                 /\ Quiet(j)' \/ ExecutedOnce(j)'
      BY DEF OneApproval
    <3>7. CASE j = i
      BY <2>2, <3>2, <3>5, <3>7
    <3>8. CASE j # i
      BY <2>2, <3>1, <3>2, <3>4, <3>8 DEF OneApproval
    <3> QED BY <3>7, <3>8
  <2> QED BY <2>3, <2>4, <2>5
<1>11. ASSUME UNCHANGED <<approvals, desk, executions, approvedTogether>> PROVE OneApproval'
  BY <1>11 DEF OneApproval, Quiet, ExecutedOnce, Eyes!Approving
<1>12. CASE Eyes!Announce \/ (\E u \in Users : Eyes!Verify(u)) \/ UNCHANGED Eyes!vars
  BY <1>11, <1>12 DEF Eyes!Announce, Eyes!Verify, Eyes!vars
<1> QED
  BY <1>3, <1>4, <1>5, <1>6, <1>7, <1>8, <1>9, <1>10, <1>12 DEF Eyes!Next

\* Nobody executes what they filed, nothing is executed a second time unless two
\* requests to approve it overlapped, and what says approved was executed by the
\* person it names (ApprovalsService.approve).
THEOREM FourEyesHold == Spec => []FourEyes
<1>1. DeskInv /\ OneApproval => FourEyes
  <2> SUFFICES ASSUME DeskInv, OneApproval PROVE FourEyes
    OBVIOUS
  <2>1. Eyes!TwoPeople
    BY DEF DeskInv, ExecutedByAnother, Eyes!TwoPeople
  <2>2. Eyes!ApprovedIsExecuted
    BY DEF DeskInv, ApproverExecuted, Eyes!ApprovedIsExecuted
  <2>3. ASSUME NEW i \in Ids, Eyes!MapThenSumSet(LAMBDA s : executions[i][s], Staff) > 1
        PROVE  i \in approvedTogether
    <3>1. SumFunctionOnSet(executions[i], Staff) > 1
      BY <2>3, TotalExecutions
    <3>2. ~(SumFunctionOnSet(executions[i], Staff) <= 1)
      <4>1. SumFunctionOnSet(executions[i], Staff) \in Int
        BY PeopleAssumption, SumRemove DEF DeskInv, DeskType
      <4> QED BY <3>1, <4>1
    <3> QED BY <3>2, OnceAddsUp DEF OneApproval
  <2>4. Eyes!OnceUnlessTogether
    BY <2>3 DEF Eyes!OnceUnlessTogether
  <2> QED BY <2>1, <2>2, <2>4 DEF FourEyes, Eyes!FourEyes
<1>2. Init => DeskInv /\ OneApproval
  BY DeskStarts, ApprovalsStart DEF Init
<1>3. DeskInv /\ OneApproval /\ [Next]_vars => DeskInv' /\ OneApproval'
  BY DeskKeeps, ApprovalsKeep, EyesStep
<1>4. QED
  BY <1>1, <1>2, <1>3, PTL DEF Spec

---------------------------------------------------------------------------
(* Stakes.                                                                 *)

StakeStates == {"new", "locked", "allowed", "refused", "funded", "staked"}

PastTheReads == {"allowed", "funded"}

StakesType ==
    /\ available \in Int
    /\ staked \in Nat
    /\ request \in [Stakers -> StakeStates]
    /\ "stakeLimit" \in DOMAIN settings /\ settings.stakeLimit \in Int

\* Until two stakes have been past their reads at once, one is at a time, and
\* what it has read still holds when it commits.
OneStake == ~together =>
    /\ available >= 0 /\ staked <= PlatformStake
    /\ \A q, r \in Stakers : request[q] \in PastTheReads /\ request[r] \in PastTheReads => q = r
    /\ \A r \in Stakers : request[r] = "funded" => available >= 1
    /\ \A r \in Stakers \ Contributions :
           request[r] \in PastTheReads => staked + 1 <= PlatformStake

StakesInv == StakesType /\ OneStake

\* What the whole does, the stakes do or do not notice.
LEMMA MoneyStep == [Next]_vars => [Money!Next]_(Money!vars)
BY DEF Next, vars, money, Money!vars

\* Nothing is staked yet.
LEMMA StakesStart == Money!Init => StakesInv
BY LimitsAssumption
   DEF Money!Init, Money!Open, Money!Unset, StakesInv, StakesType, OneStake, StakeStates,
       PastTheReads

\* A stake moves on, and money and settings stay.
LEMMA StakeMoves ==
    ASSUME StakesInv, NEW r \in Stakers, NEW to \in StakeStates,
           request' = [request EXCEPT ![r] = to],
           UNCHANGED <<available, staked, settings>>,
           together => together',
           to \in PastTheReads /\ ~together' =>
               /\ \A q \in Stakers \ {r} : request[q] \notin PastTheReads
               /\ to = "funded" => available >= 1
               /\ r \notin Contributions => staked + 1 <= PlatformStake
    PROVE  StakesInv'
<1>1. \A q \in Stakers : request'[q] = IF q = r THEN to ELSE request[q]
  BY DEF StakesInv, StakesType
<1>2. StakesType'
  BY DEF StakesInv, StakesType
<1>3. OneStake'
  <2>1. SUFFICES ASSUME ~together'
                 PROVE  /\ available' >= 0 /\ staked' <= PlatformStake
                        /\ \A q, p \in Stakers :
                               request'[q] \in PastTheReads /\ request'[p] \in PastTheReads => q = p
                        /\ \A q \in Stakers : request'[q] = "funded" => available' >= 1
                        /\ \A q \in Stakers \ Contributions :
                               request'[q] \in PastTheReads => staked' + 1 <= PlatformStake
    BY DEF OneStake
  <2>2. ~together
    BY <2>1
  <2>3. "funded" \in PastTheReads
    BY DEF PastTheReads
  <2> QED BY <1>1, <2>1, <2>2, <2>3 DEF StakesInv, OneStake
<1> QED BY <1>2, <1>3 DEF StakesInv

\* Settings change, and a limit stays a number.
LEMMA SettingsChange ==
    ASSUME StakesInv, UNCHANGED <<available, staked, request, together>>,
           "stakeLimit" \in DOMAIN settings', settings'.stakeLimit \in Int
    PROVE  StakesInv'
BY DEF StakesInv, StakesType, OneStake

\* No step of a stake, a setting or a day breaks the wallet's invariant.
LEMMA StakesKeep == StakesInv /\ [Money!Next]_(Money!vars) => StakesInv'
<1> SUFFICES ASSUME StakesInv, [Money!Next]_(Money!vars) PROVE StakesInv'
  OBVIOUS
<1>1. ASSUME NEW r \in Stakers, Money!Lock(r) PROVE StakesInv'
  <2>1. /\ request' = [request EXCEPT ![r] = "locked"]
        /\ UNCHANGED <<available, staked, settings, together>>
    BY <1>1 DEF Money!Lock, Money!money
  <2>2. "locked" \in StakeStates /\ "locked" \notin PastTheReads
    BY DEF StakeStates, PastTheReads
  <2> QED BY <2>1, <2>2, StakeMoves
<1>2. ASSUME NEW r \in Stakers, Money!Ask(r) PROVE StakesInv'
  <2>1. PICK to \in {"allowed", "refused"} :
            /\ request' = [request EXCEPT ![r] = to]
            /\ to = "allowed" => r \in Contributions \/ Money!MayStake
    BY <1>2 DEF Money!Ask
  <2>2. /\ UNCHANGED <<available, staked, settings>>
        /\ together' = (together \/ \E q \in Stakers \ {r} : request[q] \in PastTheReads)
    BY <1>2 DEF Money!Ask, Money!money, PastTheReads
  <2>3. Money!MayStake => staked + 1 <= PlatformStake
    BY LimitsAssumption
       DEF Money!MayStake, Money!StakeLimit, Money!Lesser, StakesInv, StakesType
  <2>4. to \in StakeStates /\ to # "funded"
    BY DEF StakeStates
  <2>5. to \in PastTheReads => to = "allowed"
    BY DEF PastTheReads
  <2>6. together => together'
    BY <2>2
  <2>7. to \in PastTheReads /\ ~together' =>
            /\ \A q \in Stakers \ {r} : request[q] \notin PastTheReads
            /\ to = "funded" => available >= 1
            /\ r \notin Contributions => staked + 1 <= PlatformStake
    BY <2>1, <2>2, <2>3, <2>4, <2>5
  <2> QED BY <2>1, <2>2, <2>4, <2>6, <2>7, StakeMoves
<1>3. ASSUME NEW r \in Stakers, Money!ReadBalance(r) PROVE StakesInv'
  <2>1. PICK to \in {"funded", "refused"} :
            /\ request' = [request EXCEPT ![r] = to]
            /\ to = "funded" => available >= 1
    BY <1>3 DEF Money!ReadBalance, Money!Affords
  <2>2. request[r] = "allowed" /\ UNCHANGED <<available, staked, settings, together>>
    BY <1>3 DEF Money!ReadBalance, Money!money
  <2> QED BY <2>1, <2>2, StakeMoves DEF StakesInv, OneStake, StakeStates, PastTheReads
<1>4. ASSUME NEW r \in Stakers, Money!Commit(r) PROVE StakesInv'
  <2>1. /\ request[r] = "funded"
        /\ request' = [request EXCEPT ![r] = "staked"]
        /\ available' = available - 1
        /\ staked' = IF r \in Contributions THEN staked ELSE staked + 1
        /\ UNCHANGED <<settings, together>>
    BY <1>4 DEF Money!Commit
  <2>2. \A q \in Stakers : request'[q] = IF q = r THEN "staked" ELSE request[q]
    BY <2>1 DEF StakesInv, StakesType
  <2>3. StakesType'
    BY <2>1 DEF StakesInv, StakesType, StakeStates
  <2>4. OneStake'
    BY <2>1, <2>2, LimitsAssumption DEF StakesInv, StakesType, OneStake, PastTheReads
  <2> QED BY <2>3, <2>4 DEF StakesInv
<1>5. CASE Money!PayBack
  BY <1>5 DEF Money!PayBack, StakesInv, StakesType, OneStake
<1>6. ASSUME NEW c \in Changes, Money!PostLimits(c) PROVE StakesInv'
  <2>1. ASSUME NEW limit \in Money!Limits, Money!SetLimits(c, limit) PROVE StakesInv'
    <3>1. limit \in Int
      BY DEF Money!Limits, Money!Unset
    <3>2. "stakeLimit" \in DOMAIN settings' /\ settings'.stakeLimit \in Int
      BY <2>1, <3>1 DEF Money!SetLimits, StakesInv, StakesType
    <3> QED BY <2>1, <3>2, SettingsChange DEF Money!SetLimits, Money!money
  <2>2. ASSUME NEW kind, Money!StartChange(c, kind) PROVE StakesInv'
    BY <2>2, SettingsChange DEF Money!StartChange, Money!money, StakesInv, StakesType
  <2> QED BY <1>6, <2>1, <2>2 DEF Money!PostLimits
<1>7. ASSUME NEW c \in Changes, Money!PostCoolOff(c) PROVE StakesInv'
  <2>1. ASSUME NEW days, Money!CoolOff(c, days) PROVE StakesInv'
    <3>1. "stakeLimit" \in DOMAIN settings' /\ settings'.stakeLimit \in Int
      BY <2>1 DEF Money!CoolOff, StakesInv, StakesType
    <3> QED BY <2>1, <3>1, SettingsChange DEF Money!CoolOff, Money!money
  <2>2. ASSUME NEW kind, Money!StartChange(c, kind) PROVE StakesInv'
    BY <2>2, SettingsChange DEF Money!StartChange, Money!money, StakesInv, StakesType
  <2> QED BY <1>7, <2>1, <2>2 DEF Money!PostCoolOff
<1>8. CASE Money!SelfExclude
  <2>1. "stakeLimit" \in DOMAIN settings' /\ settings'.stakeLimit \in Int
    BY <1>8 DEF Money!SelfExclude, StakesInv, StakesType
  <2> QED BY <1>8, <2>1, SettingsChange DEF Money!SelfExclude, Money!money
<1>9. CASE Money!NextDay
  <2>1. /\ staked' = 0 /\ UNCHANGED <<available, settings, request, together>>
        /\ \A r \in Stakers : request[r] \notin PastTheReads
    BY <1>9 DEF Money!NextDay, Money!Holding, PastTheReads
  <2> QED BY <2>1, LimitsAssumption DEF StakesInv, StakesType, OneStake
<1>10. CASE UNCHANGED Money!vars
  BY <1>10 DEF Money!vars, StakesInv, StakesType, OneStake
<1> QED
  BY <1>1, <1>2, <1>3, <1>4, <1>5, <1>6, <1>7, <1>8, <1>9, <1>10 DEF Money!Next

\* The wallet is overdrawn, and the platform's cap on a day's stakes passed, only
\* by two stakes on different markets that were past the questions at once
\* (WalletService.escrow, RgService.assertMayStake).
THEOREM OnlyTogetherHolds == Spec => []OnlyTogether
<1>1. StakesInv => OnlyTogether
  BY LimitsAssumption DEF StakesInv, StakesType, OneStake, OnlyTogether, Money!OnlyTogether
<1>2. Init => StakesInv
  BY StakesStart DEF Init
<1>3. StakesInv /\ [Next]_vars => StakesInv'
  BY StakesKeep, MoneyStep
<1> QED BY <1>1, <1>2, <1>3, PTL DEF Spec

---------------------------------------------------------------------------
(* Support.                                                                *)

\* Until two writes have crossed, one reply is under way at a time and it is
\* the last word, the sweep acts on what it found, and the state tells whose
\* turn it is whenever nothing is half way.
TurnInv ==
    /\ ticket = [state |-> ticket.state, due |-> ticket.due]
    /\ ticket.state \in {"none", "open", "waiting_on_user", "escalated", "resolved"}
    /\ sweep \in {"rest", "found"}
    /\ ticket.state = "none" => replying = {} /\ sweep = "rest"
    /\ ~crossed =>
           /\ replying = {} \/ (replying = {lastWord} /\ sweep = "rest")
           /\ sweep = "found" => ticket.state = "open" /\ lastWord = User
           /\ replying = {} /\ ticket.state \notin {"none", "resolved"} =>
                  (ticket.state \in {"open", "escalated"} <=> lastWord = User)

\* What the whole does, the tickets do or do not notice.
LEMMA TicketsStep == [Next]_vars => [Tickets!Next]_(Tickets!vars)
BY DEF Next, vars, tickets, Tickets!vars

\* No ticket is open yet.
LEMMA TicketsStart == Tickets!Init => TurnInv
BY DEF Tickets!Init, TurnInv

\* No message, answer, sweep or tick breaks the invariant of a ticket.
LEMMA TicketsKeep == TurnInv /\ [Tickets!Next]_(Tickets!vars) => TurnInv'
<1> SUFFICES ASSUME TurnInv, [Tickets!Next]_(Tickets!vars) PROVE TurnInv'
  OBVIOUS
<1> USE DEF TurnInv
<1>1. CASE Tickets!Open
  BY <1>1 DEF Tickets!Open
<1>2. ASSUME NEW p \in Tickets!People, Tickets!Write(p) PROVE TurnInv'
  <2>1. /\ ticket.state # "none"
        /\ lastWord' = p /\ replying' = replying \cup {p}
        /\ UNCHANGED <<ticket, sweep>>
        /\ ~crossed' => ~crossed /\ replying = {} /\ sweep # "found"
    BY <1>2 DEF Tickets!Write
  <2>2. ~crossed' => replying' = {lastWord'} /\ replying' # {} /\ sweep' # "found"
    BY <2>1
  <2> QED BY <2>1, <2>2
<1>3. ASSUME NEW p \in Tickets!People, Tickets!Update(p) PROVE TurnInv'
  BY <1>3 DEF Tickets!Update, Tickets!Answered
<1>4. CASE Tickets!Resolve
  BY <1>4 DEF Tickets!Resolve
<1>5. CASE Tickets!SweepRead
  BY <1>5 DEF Tickets!SweepRead, Tickets!Overdue
<1>6. CASE Tickets!SweepWrite
  BY <1>6 DEF Tickets!SweepWrite
<1>7. CASE Tickets!Hour \/ UNCHANGED Tickets!vars
  BY <1>7 DEF Tickets!Hour, Tickets!vars
<1> QED BY <1>1, <1>2, <1>3, <1>4, <1>5, <1>6, <1>7 DEF Tickets!Next, Tickets!Reply

\* A conversation whose last word is the user's is on the desk's clock or
\* escalated, and one the desk has answered is neither, unless the desk closed it
\* or two writes crossed (SupportService.reply, resolve, escalateOverdue).
THEOREM WhoseTurnHolds == Spec => []WhoseTurn
<1>1. TurnInv => WhoseTurn
  BY DEF TurnInv, WhoseTurn, Tickets!WhoseTurn
<1>2. Init => TurnInv
  BY TicketsStart DEF Init
<1>3. TurnInv /\ [Next]_vars => TurnInv'
  BY TicketsKeep, TicketsStep
<1> QED BY <1>1, <1>2, <1>3, PTL DEF Spec

---------------------------------------------------------------------------
(* Access.                                                                 *)

\* The roles that carry out each of the separated duties.
Carriers(duty) ==
    CASE duty = "settle" -> {"resolver", "admin"}
      [] duty = "approve money" -> {"finance", "admin"}
      [] duty = "answer ticket" -> {"support", "trust_safety", "admin"}
      [] duty = "read ledger" -> {"finance", "admin"}
      [] duty \in {"read account", "run audit"} -> {"trust_safety", "finance", "admin"}
      [] OTHER -> Doors!Roles

\* Tokens are of roles the person has had, and who has had one role has done
\* what that role may.
DutyInv ==
    /\ held \subseteq Doors!Roles /\ IsFiniteSet(held)
    /\ role \in held
    /\ token \in [Tokens -> held \cup {"unused", "ended"}]
    /\ done \subseteq Doors!Separated
    /\ Cardinality(held) > 1 \/ (held = {role} /\ \A d \in done : role \in Carriers(d))

\* What the whole does, the guarded routes do or do not notice.
LEMMA DoorsStep == [Next]_vars => [Doors!Next]_(Doors!vars)
BY DEF Next, vars, doors, Doors!vars

\* A route that serves one of five of the duties names its carriers.
NamesCarriers(route) ==
    /\ route.duty = "settle" => route.roles = {"resolver", "admin"}
    /\ route.duty = "answer ticket" => route.roles = {"support", "trust_safety", "admin"}
    /\ route.duty = "read ledger" => route.roles = {"finance", "admin"}
    /\ route.duty \in {"read account", "run audit"} =>
           route.roles = {"trust_safety", "finance", "admin"}

\* A route made by Route names its duty's carriers if its roles are theirs.
LEMMA RouteNames ==
    ASSUME NEW duty, NEW roles,
           duty = "settle" => roles = {"resolver", "admin"},
           duty = "answer ticket" => roles = {"support", "trust_safety", "admin"},
           duty = "read ledger" => roles = {"finance", "admin"},
           duty \in {"read account", "run audit"} => roles = {"trust_safety", "finance", "admin"}
    PROVE  NamesCarriers(Doors!Route(duty, roles))
BY DEF NamesCarriers, Doors!Route

\* Every route of the table does.
LEMMA RoutesNameCarriers == \A route \in Doors!Routes : NamesCarriers(route)
<1>1. \A route \in Doors!BookScreens : NamesCarriers(route)
  BY RouteNames DEF Doors!BookScreens, Doors!MoneyRoles
<1>2. \A route \in Doors!ApprovalDesk : NamesCarriers(route)
  BY RouteNames DEF Doors!ApprovalDesk
<1>3. \A route \in Doors!ResolutionDesk : NamesCarriers(route)
  BY RouteNames DEF Doors!ResolutionDesk
<1>4. \A route \in Doors!DraftDesk : NamesCarriers(route)
  BY RouteNames DEF Doors!DraftDesk
<1>5. \A route \in Doors!SupportDesk : NamesCarriers(route)
  BY RouteNames DEF Doors!SupportDesk
<1>6. \A route \in Doors!SafetyDesk : NamesCarriers(route)
  BY RouteNames DEF Doors!SafetyDesk
<1>7. \A route \in Doors!PrizeDesk : NamesCarriers(route)
  BY RouteNames DEF Doors!PrizeDesk, Doors!MoneyRoles
<1>8. \A route \in Doors!OpenRoutes : NamesCarriers(route)
  BY RouteNames DEF Doors!OpenRoutes
<1> QED BY <1>1, <1>2, <1>3, <1>4, <1>5, <1>6, <1>7, <1>8 DEF Doors!Routes

\* The routes and the services behind them leave each duty to its carriers.
LEMMA RoutesKeepDuties ==
    ASSUME NEW route \in Doors!Routes, NEW as \in Doors!Roles,
           Doors!Guarded(route, as), Doors!Asked(route.duty, as),
           route.duty \in Doors!Separated
    PROVE  as \in Carriers(route.duty)
<1>1. CASE route.duty = "approve money"
  BY <1>1 DEF Doors!Asked, Doors!MoneyRoles, Carriers
<1>2. CASE route.duty = "settle"
  BY <1>2, RoutesNameCarriers DEF NamesCarriers, Doors!Guarded, Carriers
<1>3. CASE route.duty = "answer ticket"
  BY <1>3, RoutesNameCarriers DEF NamesCarriers, Doors!Guarded, Carriers
<1>4. CASE route.duty = "read ledger"
  BY <1>4, RoutesNameCarriers DEF NamesCarriers, Doors!Guarded, Carriers
<1>5. CASE route.duty \in {"read account", "run audit"}
  BY <1>5, RoutesNameCarriers DEF NamesCarriers, Doors!Guarded, Carriers
<1>6. CASE route.duty = "read sums"
  BY <1>6 DEF Carriers
<1> QED BY <1>1, <1>2, <1>3, <1>4, <1>5, <1>6 DEF Doors!Separated

\* Nobody has done anything yet.
LEMMA DoorsStart == Doors!Init => DutyInv
BY FS_Singleton DEF Doors!Init, DutyInv

\* No sign-in, change of role or use of a route breaks the duties.
LEMMA DoorsKeep == DutyInv /\ [Doors!Next]_(Doors!vars) => DutyInv'
<1> SUFFICES ASSUME DutyInv, [Doors!Next]_(Doors!vars) PROVE DutyInv'
  OBVIOUS
<1> USE DEF DutyInv
<1>0. "unused" \notin Doors!Roles /\ "ended" \notin Doors!Roles
  BY DEF Doors!Roles, Doors!StaffRoles
<1>1. ASSUME NEW t \in Tokens, Doors!Login(t) PROVE DutyInv'
  BY <1>1 DEF Doors!Login
<1>2. ASSUME NEW t \in Tokens, Doors!End(t) PROVE DutyInv'
  BY <1>2 DEF Doors!End
<1>3. CASE Doors!Enrol \/ UNCHANGED Doors!vars
  BY <1>3 DEF Doors!Enrol, Doors!vars
<1>4. ASSUME NEW r \in Doors!Roles, Doors!ChangeRole(r) PROVE DutyInv'
  <2>1. /\ r # role /\ role' = r /\ held' = held \cup {r}
        /\ UNCHANGED <<token, done>>
    BY <1>4 DEF Doors!ChangeRole
  <2>2. IsFiniteSet(held') /\ Cardinality(held') > 1
    <3>0. IsFiniteSet(held \cup {r})
      BY FS_AddElement
    <3>1. Cardinality(held \cup {r}) = IF r \in held THEN Cardinality(held)
                                       ELSE Cardinality(held) + 1
      BY FS_AddElement
    <3>2. Cardinality(held) \in Nat
      BY FS_CardinalityType
    <3>3. CASE Cardinality(held) > 1
      BY <2>1, <3>0, <3>1, <3>2, <3>3
    <3>4. CASE held = {role}
      <4>1. Cardinality(held) = 1 /\ r \notin held
        BY <2>1, <3>4, FS_Singleton
      <4> QED BY <2>1, <3>0, <3>1, <4>1
    <3> QED BY <3>3, <3>4
  <2>3. token' \in [Tokens -> held' \cup {"unused", "ended"}]
    BY <2>1
  <2> QED BY <2>1, <2>2, <2>3
<1>5. ASSUME NEW t \in Tokens, NEW route \in Doors!Routes, Doors!Call(t, route) PROVE DutyInv'
  <2>1. /\ token[t] \in Doors!Roles
        /\ done' = done \cup ({route.duty} \cap Doors!Separated)
        /\ UNCHANGED <<role, token, held>>
    BY <1>5 DEF Doors!Call
  <2>2. token[t] \in held
    BY <1>0, <2>1
  <2>3. route.duty \in Doors!Separated => token[t] \in Carriers(route.duty)
    BY <1>5, <2>1, RoutesKeepDuties DEF Doors!Call
  <2> QED BY <2>1, <2>2, <2>3
<1> QED BY <1>1, <1>2, <1>3, <1>4, <1>5 DEF Doors!Next

\* Whoever has worked in one role that is not admin's and settled markets or
\* answered tickets has not moved money or read the ledger's entries, nor done
\* both, and has not settled and looked at an account, whichever routes they came
\* by (RolesGuard, ApprovalsService.approve).
THEOREM DutiesStayApart == Spec => []DutiesApart
<1>1. DutyInv => DutiesApart
  <2> SUFFICES ASSUME DutyInv, Cardinality(held) = 1, "admin" \notin held
               PROVE  /\ done \cap {"settle", "answer ticket"} # {} =>
                             done \cap {"approve money", "read ledger"} = {}
                      /\ "settle" \in done =>
                             done \cap {"answer ticket", "read account", "run audit"} = {}
    <3>1. Doors!Cardinality(held) = Cardinality(held)
      BY DEF Doors!Cardinality, Cardinality
    <3> QED BY <3>1 DEF DutiesApart, Doors!DutiesApart, Doors!OneRole
  <2>1. role # "admin" /\ \A d \in done : role \in Carriers(d)
    BY DEF DutyInv
  <2>2. \A d \in done \cap {"settle", "answer ticket"} : role \notin {"finance", "admin"}
    BY <2>1 DEF Carriers
  <2>3. \A d \in done \cap {"approve money", "read ledger"} : role \in {"finance", "admin"}
    BY <2>1 DEF Carriers
  <2>4. "settle" \in done => role = "resolver"
    BY <2>1 DEF Carriers
  <2>5. \A d \in done \cap {"answer ticket", "read account", "run audit"} : role # "resolver"
    BY <2>1 DEF Carriers
  <2> QED BY <2>2, <2>3, <2>4, <2>5
<1>2. Init => DutyInv
  BY DoorsStart DEF Init
<1>3. DutyInv /\ [Next]_vars => DutyInv'
  BY DoorsKeep, DoorsStep
<1> QED BY <1>1, <1>2, <1>3, PTL DEF Spec

----------------------------------------------------------------------------
(* The rate limits.                                                        *)
(*                                                                         *)
(* A store keeps one number of used points and one end per account, and    *)
(* its window starts wherever a request finds the last one lapsed: nothing *)
(* in the state says what got through in the Duration before now.  The     *)
(* invariant therefore says that the history of accepted requests can be   *)
(* split between the stores, and gives each share a start of its window:   *)
(* from there on it counts no more than the points used, after its first   *)
(* tick one less, and in the Duration before it less than a budget.  That  *)
(* last part needs a window not to end early, and a block no shorter than  *)
(* the window is what guarantees it.                                       *)

Ticks == 0 .. LimitHorizon

Histories == [Ticks -> Nat]

\* What f counts after lo and up to hi.
Part(f, lo, hi) == [t \in Ticks |-> IF lo < t /\ t <= hi THEN f[t] ELSE 0]

Within(f, lo, hi) == SumFunctionOnSet(Part(f, lo, hi), Ticks)

\* The ticks can be summed over.
LEMMA TicksFinite == IsFiniteSet(Ticks)
BY BudgetAssumption, FS_Interval DEF Ticks

\* The values of a part, and that what it counts is a number.
LEMMA PartOf ==
    ASSUME NEW f \in Histories, NEW lo \in Int, NEW hi \in Int
    PROVE  /\ \A t \in Ticks : /\ Part(f, lo, hi)[t] = IF lo < t /\ t <= hi THEN f[t] ELSE 0
                               /\ Part(f, lo, hi)[t] \in Nat
           /\ Within(f, lo, hi) \in Int
<1>1. \A t \in Ticks : /\ Part(f, lo, hi)[t] = IF lo < t /\ t <= hi THEN f[t] ELSE 0
                       /\ Part(f, lo, hi)[t] \in Nat
  BY DEF Part, Histories
<1>2. \A t \in Ticks : Part(f, lo, hi)[t] \in Int
  BY <1>1
<1>3. Within(f, lo, hi) \in Int
  BY <1>2, TicksFinite, SumRemove DEF Within
<1> QED BY <1>1, <1>3

\* A stretch that two others cover counts no more than they do.
LEMMA WithinCovered ==
    ASSUME NEW f \in Histories, NEW a \in Int, NEW b \in Int, NEW c \in Int, NEW d \in Int,
           NEW e \in Int, NEW g \in Int,
           \A t \in Ticks : a < t /\ t <= b =>
               (c < t /\ t <= d) \/ (e < t /\ t <= g) \/ f[t] = 0
    PROVE  Within(f, a, b) <= Within(f, c, d) + Within(f, e, g)
<1>1. PICK x, y, z : x = Part(f, a, b) /\ y = Part(f, c, d) /\ z = Part(f, e, g)
  OBVIOUS
<1>2. PICK s : s = [t \in Ticks |-> y[t] + z[t]]
  OBVIOUS
<1>3. \A t \in Ticks : x[t] \in Int /\ y[t] \in Int /\ z[t] \in Int /\ s[t] = y[t] + z[t]
                       /\ s[t] \in Int /\ x[t] <= s[t]
  BY <1>1, <1>2, PartOf DEF Histories
<1>4. SumFunctionOnSet(s, Ticks) = SumFunctionOnSet(y, Ticks) + SumFunctionOnSet(z, Ticks)
  BY <1>3, TicksFinite, SumAddsUp
<1>5. SumFunctionOnSet(x, Ticks) <= SumFunctionOnSet(s, Ticks)
  BY <1>3, TicksFinite, SumMonotonic
<1> QED BY <1>1, <1>4, <1>5 DEF Within

\* A stretch in which nothing is counted.
LEMMA WithinNothing ==
    ASSUME NEW f \in Histories, NEW a \in Int, NEW b \in Int,
           \A t \in Ticks : a < t /\ t <= b => f[t] = 0
    PROVE  Within(f, a, b) = 0
<1>1. PICK x, z : x = Part(f, a, b) /\ z = 0
  OBVIOUS
<1>2. \A t \in Ticks : x[t] = z
  BY <1>1, PartOf
<1>3. SumFunctionOnSet(x, Ticks) = z * Cardinality(Ticks)
  BY <1>1, <1>2, TicksFinite, SumConstant
<1>4. Cardinality(Ticks) \in Nat
  BY TicksFinite, FS_CardinalityType
<1> QED BY <1>1, <1>3, <1>4 DEF Within

\* The same for one stretch.
LEMMA WithinCoveredByOne ==
    ASSUME NEW f \in Histories, NEW a \in Int, NEW b \in Int, NEW c \in Int, NEW d \in Int,
           \A t \in Ticks : a < t /\ t <= b => (c < t /\ t <= d) \/ f[t] = 0
    PROVE  Within(f, a, b) <= Within(f, c, d)
<1>0. \A t \in Ticks : ~(0 < t /\ t <= 0)
  BY BudgetAssumption DEF Ticks
<1>1. Within(f, 0, 0) = 0
  BY <1>0, WithinNothing
<1>2. Within(f, a, b) <= Within(f, c, d) + Within(f, 0, 0)
  BY WithinCovered
<1>3. Within(f, a, b) \in Int /\ Within(f, c, d) \in Int
  BY PartOf
<1> QED BY <1>1, <1>2, <1>3

\* One more at n.
CountAt(f, n) == [f EXCEPT ![n] = @ + 1]

\* It is counted in the stretches that hold n.
LEMMA WithinOneMore ==
    ASSUME NEW f \in Histories, NEW n \in Ticks, NEW a \in Int, NEW b \in Int
    PROVE  /\ CountAt(f, n) \in Histories
           /\ Within(CountAt(f, n), a, b) = Within(f, a, b) + (IF a < n /\ n <= b THEN 1 ELSE 0)
<1>1. CountAt(f, n) \in Histories
  BY DEF CountAt, Histories
<1>2. PICK g \in Histories : /\ g = CountAt(f, n)
                             /\ \A t \in Ticks : g[t] = IF t = n THEN f[t] + 1 ELSE f[t]
  BY <1>1 DEF CountAt, Histories
<1>3. PICK x, y : x = Part(f, a, b) /\ y = Part(g, a, b)
  OBVIOUS
<1>4. /\ \A t \in Ticks : x[t] = IF a < t /\ t <= b THEN f[t] ELSE 0
      /\ \A t \in Ticks : y[t] = IF a < t /\ t <= b THEN g[t] ELSE 0
      /\ \A t \in Ticks : x[t] \in Int /\ y[t] \in Int /\ f[t] \in Int
  BY <1>2, <1>3, PartOf DEF Histories
<1>5. SumFunctionOnSet(y, Ticks) = SumFunctionOnSet(x, Ticks) - x[n] + y[n]
  <2>1. \A t \in Ticks : x[t] \in Int /\ (t # n => y[t] = x[t])
    BY <1>2, <1>4
  <2> QED BY <1>4, <2>1, TicksFinite, SumOneChange
<1>6. y[n] = x[n] + (IF a < n /\ n <= b THEN 1 ELSE 0)
  BY <1>2, <1>4
<1>7. SumFunctionOnSet(x, Ticks) \in Int
  BY <1>3, PartOf DEF Within
<1> QED BY <1>1, <1>2, <1>3, <1>4, <1>5, <1>6, <1>7 DEF Within

\* One counter of an account: c as the store has it, f what it has let through,
\* w the start of its window, n the time.
Lesser(used) == IF used <= Points THEN used ELSE Points

Slot(c, f, w, n) ==
    /\ c.used \in Nat /\ c.ends \in Int /\ w \in Int /\ f \in Histories
    /\ \A t \in Ticks : f[t] = 0 \/ (t <= n /\ t < c.ends)
    /\ c.used = 0 => c.ends = 0
    /\ c.used > 0 =>
        /\ w <= n /\ w + Duration <= c.ends
        /\ Within(f, w - 1, LimitHorizon) <= Lesser(c.used)
        /\ Within(f, w, LimitHorizon) <= Lesser(c.used) - 1
        /\ Within(f, w - Duration, w - 1) <= Points - 1

\* Spend at n.
SpendAt(c, n) ==
    LET used == IF n >= c.ends THEN 1 ELSE IF c.used > Points THEN Points + 2 ELSE c.used + 1
    IN [used |-> used,
        ends |-> IF used = 1 THEN n + Duration
                 ELSE IF used = Points + 1 THEN n + Block
                 ELSE c.ends]

\* What a slot allows in any stretch of the window's length.
LEMMA SlotBound ==
    ASSUME NEW c, NEW f, NEW w, NEW n \in Ticks, Slot(c, f, w, n)
    PROVE  Within(f, n - Duration, n) <= 2 * Points - 1
<1>1. /\ w \in Int /\ f \in Histories /\ n \in Int /\ c.used \in Nat /\ c.ends \in Int
      /\ Duration \in Nat /\ Points \in Nat /\ Points > 0 /\ LimitHorizon \in Nat
      /\ Duration > 0 /\ n <= LimitHorizon /\ 0 <= n
  BY BudgetAssumption DEF Slot, Ticks
<1>2. CASE c.used = 0
  <2>1. \A t \in Ticks : f[t] = 0
    BY <1>1, <1>2 DEF Slot, Ticks
  <2>2. Within(f, n - Duration, n) = 0
    BY <1>1, <2>1, WithinNothing
  <2> QED BY <2>2, <1>1
<1>3. CASE c.used > 0
  <2>1. /\ w <= n /\ Within(f, w - 1, LimitHorizon) <= Lesser(c.used)
        /\ Within(f, w, LimitHorizon) <= Lesser(c.used) - 1
        /\ Within(f, w - Duration, w - 1) <= Points - 1
        /\ Lesser(c.used) <= Points
    BY <1>1, <1>3 DEF Slot, Lesser
  <2>2. PICK a, b, e : a = n - Duration /\ b = w - 1 /\ e = w - Duration
                       /\ a \in Int /\ b \in Int /\ e \in Int
    BY <1>1
  <2>3. /\ Within(f, a, n) \in Int /\ Within(f, b, LimitHorizon) \in Int
        /\ Within(f, w, LimitHorizon) \in Int /\ Within(f, e, b) \in Int
    BY <1>1, <2>2, PartOf
  <2>4. \A t \in Ticks : t \in Int
    BY DEF Ticks
  <2>5. Within(f, a, n) <= Within(f, e, b) + Within(f, b, LimitHorizon)
    <3>1. \A t \in Ticks : a < t /\ t <= n =>
             (e < t /\ t <= b) \/ (b < t /\ t <= LimitHorizon) \/ f[t] = 0
      BY <1>1, <2>1, <2>2, <2>4
    <3> QED BY <1>1, <2>2, <3>1, WithinCovered
  <2>6. Lesser(c.used) \in Int
    BY <1>1 DEF Lesser
  <2>7. Within(f, e, b) <= Points - 1 /\ Within(f, b, LimitHorizon) <= Points
    BY <1>1, <2>1, <2>2, <2>3, <2>6
  <2>8. Within(f, a, n) <= 2 * Points - 1
    BY <1>1, <2>3, <2>5, <2>7
  <2> QED BY <2>2, <2>8
<1> QED BY <1>1, <1>2, <1>3

\* A window that has lapsed starts again.
LEMMA SlotRestarts ==
    ASSUME NEW c, NEW f, NEW w, NEW n \in Ticks, Slot(c, f, w, n), n >= c.ends,
           NEW g \in {f, CountAt(f, n)}
    PROVE  Slot(SpendAt(c, n), g, n, n)
<1>1. /\ w \in Int /\ f \in Histories /\ n \in Int /\ c.used \in Nat /\ c.ends \in Int
      /\ Duration \in Nat /\ Points \in Nat /\ Points > 0 /\ LimitHorizon \in Nat
      /\ Duration > 0 /\ n <= LimitHorizon /\ 0 <= n
      /\ \A t \in Ticks : t \in Int /\ 0 <= t /\ t <= LimitHorizon
      /\ \A t \in Ticks : f[t] \in Nat
      /\ \A t \in Ticks : f[t] = 0 \/ (t <= n /\ t < c.ends)
  BY BudgetAssumption DEF Slot, Ticks, Histories
<1>2. PICK r : r = SpendAt(c, n)
  OBVIOUS
<1>3. r.used = 1 /\ r.ends = n + Duration
  BY <1>2 DEF SpendAt
<1>4. PICK a, b : a = n - 1 /\ b = n - Duration /\ a \in Int /\ b \in Int
  BY <1>1
<1>5. Within(f, a, LimitHorizon) = 0 /\ Within(f, n, LimitHorizon) = 0
  <2>1. \A t \in Ticks : a < t /\ t <= LimitHorizon => f[t] = 0
    BY <1>1, <1>4
  <2>2. \A t \in Ticks : n < t /\ t <= LimitHorizon => f[t] = 0
    BY <1>1
  <2> QED BY <1>1, <1>4, <2>1, <2>2, WithinNothing
<1>6. Within(f, b, a) <= Points - 1 /\ Within(f, b, a) \in Int
  <2>1. CASE c.used = 0
    <3>1. \A t \in Ticks : b < t /\ t <= a => f[t] = 0
      BY <1>1, <1>4, <2>1 DEF Slot
    <3>2. Within(f, b, a) = 0
      BY <1>1, <1>4, <3>1, WithinNothing
    <3> QED BY <1>1, <3>2
  <2>2. CASE c.used > 0
    <3>1. w + Duration <= c.ends /\ Within(f, w, LimitHorizon) <= Lesser(c.used) - 1
          /\ Lesser(c.used) <= Points /\ Lesser(c.used) \in Int
      BY <1>1, <2>2 DEF Slot, Lesser
    <3>2. w <= b
      BY <1>1, <1>4, <3>1
    <3>3. \A t \in Ticks : b < t /\ t <= a => (w < t /\ t <= LimitHorizon) \/ f[t] = 0
      BY <1>1, <1>4, <3>2
    <3>4. Within(f, b, a) <= Within(f, w, LimitHorizon)
      BY <1>1, <1>4, <3>3, WithinCoveredByOne
    <3>5. Within(f, b, a) \in Int /\ Within(f, w, LimitHorizon) \in Int
      BY <1>1, <1>4, PartOf
    <3> QED BY <1>1, <3>1, <3>4, <3>5
  <2> QED BY <1>1, <2>1, <2>2
<1>7. /\ g \in Histories
      /\ Within(g, a, LimitHorizon) <= 1
      /\ Within(g, n, LimitHorizon) <= 0
      /\ Within(g, b, a) <= Points - 1
      /\ \A t \in Ticks : g[t] = 0 \/ t <= n
  <2>1. CASE g = f
    BY <1>1, <1>5, <1>6, <2>1
  <2>2. CASE g = CountAt(f, n)
    <3>1. /\ CountAt(f, n) \in Histories
          /\ Within(CountAt(f, n), a, LimitHorizon) = Within(f, a, LimitHorizon)
                 + (IF a < n /\ n <= LimitHorizon THEN 1 ELSE 0)
          /\ Within(CountAt(f, n), n, LimitHorizon) = Within(f, n, LimitHorizon)
                 + (IF n < n /\ n <= LimitHorizon THEN 1 ELSE 0)
          /\ Within(CountAt(f, n), b, a) = Within(f, b, a)
                 + (IF b < n /\ n <= a THEN 1 ELSE 0)
      BY <1>1, <1>4, WithinOneMore
    <3>2. \A t \in Ticks : CountAt(f, n)[t] = 0 \/ t <= n
      BY <1>1 DEF CountAt, Histories
    <3> QED BY <1>1, <1>4, <1>5, <1>6, <2>2, <3>1, <3>2
  <2> QED BY <2>1, <2>2
<1>8. Lesser(1) = 1
  BY <1>1 DEF Lesser
<1>9. \A t \in Ticks : g[t] = 0 \/ (t <= n /\ t < r.ends)
  BY <1>1, <1>3, <1>7
<1>10. /\ Within(g, n - 1, LimitHorizon) <= Lesser(r.used)
       /\ Within(g, n, LimitHorizon) <= Lesser(r.used) - 1
       /\ Within(g, n - Duration, n - 1) <= Points - 1
  BY <1>3, <1>4, <1>7, <1>8
<1>11. /\ r.used \in Nat /\ r.ends \in Int /\ ~(r.used = 0) /\ n <= n
       /\ n + Duration <= r.ends
  BY <1>1, <1>3
<1> QED BY <1>1, <1>2, <1>7, <1>9, <1>10, <1>11 DEF Slot

\* A window that runs counts on, or blocks for no less than its length.
LEMMA SlotCounts ==
    ASSUME NEW c, NEW f, NEW w, NEW n \in Ticks, Slot(c, f, w, n), n < c.ends,
           Duration <= Block, NEW g \in {f, CountAt(f, n)},
           g = f \/ SpendAt(c, n).used <= Points
    PROVE  Slot(SpendAt(c, n), g, w, n)
<1>1. /\ w \in Int /\ f \in Histories /\ n \in Int /\ c.used \in Nat /\ c.ends \in Int
      /\ Duration \in Nat /\ Points \in Nat /\ Points > 0 /\ LimitHorizon \in Nat
      /\ Duration > 0 /\ n <= LimitHorizon /\ 0 <= n /\ Block \in Nat
      /\ \A t \in Ticks : t \in Int /\ 0 <= t /\ t <= LimitHorizon
      /\ \A t \in Ticks : f[t] \in Nat
      /\ \A t \in Ticks : f[t] = 0 \/ (t <= n /\ t < c.ends)
  BY BudgetAssumption DEF Slot, Ticks, Histories
<1>2. c.used > 0
  BY <1>1 DEF Slot
<1>3. /\ w <= n /\ w + Duration <= c.ends
      /\ Within(f, w - 1, LimitHorizon) <= Lesser(c.used)
      /\ Within(f, w, LimitHorizon) <= Lesser(c.used) - 1
      /\ Within(f, w - Duration, w - 1) <= Points - 1
  BY <1>2 DEF Slot
<1>4. PICK a, b : a = w - 1 /\ b = w - Duration /\ a \in Int /\ b \in Int
  BY <1>1
<1>5. PICK r : r = SpendAt(c, n)
  OBVIOUS
<1>6. /\ r.used = IF c.used > Points THEN Points + 2 ELSE c.used + 1
      /\ r.used \in Nat /\ r.used > 1 /\ r.ends \in Int /\ w + Duration <= r.ends /\ n < r.ends
  BY <1>1, <1>2, <1>3, <1>5 DEF SpendAt
<1>7. /\ Lesser(c.used) \in Int /\ Lesser(r.used) \in Int
      /\ Lesser(c.used) <= Lesser(r.used)
      /\ r.used <= Points => Lesser(r.used) = Lesser(c.used) + 1
  BY <1>1, <1>6 DEF Lesser
<1>8. /\ Within(f, a, LimitHorizon) \in Int /\ Within(f, w, LimitHorizon) \in Int
      /\ Within(f, b, a) \in Int
  BY <1>1, <1>4, PartOf
<1>9. /\ g \in Histories
      /\ Within(g, a, LimitHorizon) <= Lesser(r.used)
      /\ Within(g, w, LimitHorizon) <= Lesser(r.used) - 1
      /\ Within(g, b, a) <= Points - 1
      /\ \A t \in Ticks : g[t] = 0 \/ t <= n
  <2>1. CASE g = f
    BY <1>1, <1>3, <1>4, <1>7, <1>8, <2>1
  <2>2. CASE g = CountAt(f, n) /\ g # f
    <3>0. r.used <= Points
      BY <1>5, <2>2
    <3>1. /\ CountAt(f, n) \in Histories
          /\ Within(CountAt(f, n), a, LimitHorizon) = Within(f, a, LimitHorizon)
                 + (IF a < n /\ n <= LimitHorizon THEN 1 ELSE 0)
          /\ Within(CountAt(f, n), w, LimitHorizon) = Within(f, w, LimitHorizon)
                 + (IF w < n /\ n <= LimitHorizon THEN 1 ELSE 0)
          /\ Within(CountAt(f, n), b, a) = Within(f, b, a)
                 + (IF b < n /\ n <= a THEN 1 ELSE 0)
      BY <1>1, <1>4, WithinOneMore
    <3>2. \A t \in Ticks : CountAt(f, n)[t] = 0 \/ t <= n
      BY <1>1 DEF CountAt, Histories
    <3> QED BY <1>1, <1>3, <1>4, <1>7, <1>8, <2>2, <3>0, <3>1, <3>2
  <2> QED BY <2>1, <2>2
<1>10. \A t \in Ticks : g[t] = 0 \/ (t <= n /\ t < r.ends)
  BY <1>1, <1>6, <1>9
<1>11. /\ Within(g, w - 1, LimitHorizon) <= Lesser(r.used)
       /\ Within(g, w, LimitHorizon) <= Lesser(r.used) - 1
       /\ Within(g, w - Duration, w - 1) <= Points - 1
  BY <1>4, <1>9
<1>12. ~(r.used = 0)
  BY <1>6
<1> QED BY <1>1, <1>3, <1>5, <1>6, <1>9, <1>10, <1>11, <1>12 DEF Slot

\* Time passes over a slot.
LEMMA SlotWaits ==
    ASSUME NEW c, NEW f, NEW w, NEW n \in Ticks, NEW m \in Ticks, n <= m, Slot(c, f, w, n)
    PROVE  Slot(c, f, w, m)
<1>1. /\ n \in Int /\ m \in Int /\ w \in Int /\ \A t \in Ticks : t \in Int
  BY DEF Ticks, Slot
<1> QED BY <1>1 DEF Slot

Stores == Nodes \cup {"redis"}

Counters == [used : Nat, ends : Int]

\* What each store has let through, account by account, and what it adds up to.
Told(h, a, t) == [s \in Stores |-> h[s][a][t]]

Split(h, w, c, n, acc, alone) ==
    /\ h \in [Stores -> [Accounts -> Histories]]
    /\ w \in [Stores -> [Accounts -> Int]]
    /\ \A s \in Stores, a \in Accounts : Slot(c[s][a], h[s][a], w[s][a], n)
    /\ \A a \in Accounts, t \in Ticks : acc[a][t] = SumFunctionOnSet(Told(h, a, t), Stores)
    /\ alone => \A s \in Stores \ {"redis"}, a \in Accounts, t \in Ticks : h[s][a][t] = 0

BudgetInv ==
    /\ now \in Ticks /\ reachable \in BOOLEAN /\ sharedOnly \in BOOLEAN
    /\ counter \in [Stores -> [Budget!Keys -> Counters]]
    /\ accepted \in [Accounts -> Histories]
    /\ \E h, w : Split(h, w, counter, now, accepted, sharedOnly)

\* What the whole does, the budgets do or do not notice.
LEMMA BudgetStep == [Next]_vars => [Budget!Next]_(Budget!vars)
BY DEF Next, vars, budget, Budget!vars

\* The stores are the nodes and Redis, and can be summed over.
LEMMA StoresFinite == IsFiniteSet(Stores) /\ Stores = Budget!Stores /\ "redis" = Budget!Redis
BY BudgetAssumption, FS_AddElement DEF Stores, Budget!Stores, Budget!Redis

\* The address has a budget of its own.
LEMMA AccountsAreKeys ==
    \A a \in Accounts : a \in Budget!Keys /\ a # Budget!Address /\ Budget!Budget(a) = Points
BY BudgetAssumption DEF Budget!Keys, Budget!Address, Budget!Budget

\* Nothing is counted and nothing has got through.
LEMMA BudgetStarts == Budget!Init => BudgetInv
<1>1. SUFFICES ASSUME Budget!Init PROVE BudgetInv
  OBVIOUS
<1>2. PICK c, acc : c = counter /\ acc = accepted
  OBVIOUS
<1>3. /\ now = 0 /\ reachable = TRUE /\ sharedOnly = TRUE /\ 0 \in Ticks
      /\ c = [s \in Stores |-> [k \in Budget!Keys |-> [used |-> 0, ends |-> 0]]]
      /\ acc = [a \in Accounts |-> [t \in Ticks |-> 0]]
  BY <1>1, <1>2, StoresFinite, BudgetAssumption DEF Budget!Init, Ticks
<1>4. PICK f : f = [t \in Ticks |-> 0]
  OBVIOUS
<1>5. f \in Histories /\ \A t \in Ticks : f[t] = 0
  BY <1>4 DEF Histories
<1>6. PICK h, w : /\ h = [s \in Stores |-> [a \in Accounts |-> f]]
                  /\ w = [s \in Stores |-> [a \in Accounts |-> 0]]
  OBVIOUS
<1>7. /\ h \in [Stores -> [Accounts -> Histories]]
      /\ w \in [Stores -> [Accounts -> Int]]
  BY <1>5, <1>6
<1>8. ASSUME NEW s \in Stores, NEW a \in Accounts
      PROVE  Slot(c[s][a], h[s][a], w[s][a], 0)
  <2>1. c[s][a].used = 0 /\ c[s][a].ends = 0 /\ h[s][a] = f /\ w[s][a] = 0
    BY <1>3, <1>6, AccountsAreKeys
  <2> QED BY <1>5, <2>1 DEF Slot
<1>9. ASSUME NEW a \in Accounts, NEW t \in Ticks
      PROVE  acc[a][t] = SumFunctionOnSet(Told(h, a, t), Stores)
  <2>1. PICK g, z : g = Told(h, a, t) /\ z = 0
    OBVIOUS
  <2>2. \A s \in Stores : g[s] = z
    BY <1>5, <1>6, <2>1 DEF Told
  <2>3. z \in Int /\ Cardinality(Stores) \in Nat
    BY <2>1, StoresFinite, FS_CardinalityType
  <2>4. SumFunctionOnSet(g, Stores) = z * Cardinality(Stores)
    BY <2>2, <2>3, StoresFinite, SumConstant
  <2> QED BY <1>3, <2>1, <2>3, <2>4
<1>10. \A s \in Stores \ {"redis"}, a \in Accounts, t \in Ticks : h[s][a][t] = 0
  BY <1>5, <1>6
<1>11. Split(h, w, c, 0, acc, TRUE)
  BY <1>7, <1>8, <1>9, <1>10 DEF Split
<1>12. /\ c \in [Stores -> [Budget!Keys -> Counters]]
       /\ acc \in [Accounts -> Histories]
  BY <1>3, <1>4, <1>5 DEF Counters
<1> QED BY <1>2, <1>3, <1>11, <1>12 DEF BudgetInv

\* A spent point leaves every account's slot in order, whichever store counts it.
LEMMA ConsumeKeeps ==
    ASSUME Duration <= Block, BudgetInv, NEW m \in Nodes, NEW b \in Accounts,
           Budget!Consume(m, b)
    PROVE  BudgetInv'
<1>1. PICK h, w : Split(h, w, counter, now, accepted, sharedOnly)
  BY DEF BudgetInv
<1>2. PICK p : p = Budget!Store(m)
  OBVIOUS
<1>3. /\ p \in Stores
      /\ now \in Ticks /\ now \in Int /\ reachable \in BOOLEAN /\ sharedOnly \in BOOLEAN
      /\ counter \in [Stores -> [Budget!Keys -> Counters]]
      /\ accepted \in [Accounts -> Histories]
      /\ sharedOnly' = (sharedOnly /\ reachable) /\ now' = now /\ reachable' = reachable
      /\ reachable => p = "redis"
  BY <1>2, StoresFinite DEF BudgetInv, Budget!Consume, Budget!Store, Stores, Ticks
<1>4. PICK k : k = Budget!Spent(p, b)
  OBVIOUS
<1>5. /\ counter' = [counter EXCEPT ![p] = k]
      /\ accepted' = IF Budget!Passes(p, b)
                     THEN [accepted EXCEPT ![b][now] = @ + 1] ELSE accepted
  BY <1>2, <1>4 DEF Budget!Consume
<1>6. PICK old, new : old = counter[p][b] /\ new = SpendAt(old, now)
  OBVIOUS
<1>7. /\ k[b] = new
      /\ \A a \in Accounts : a # b => k[a] = counter[p][a]
  BY <1>4, <1>6, AccountsAreKeys DEF Budget!Spent, Budget!Spend, SpendAt
<1>8. Budget!Passes(p, b) => new.used <= Points
  BY <1>4, <1>7, AccountsAreKeys DEF Budget!Passes
<1>9. k \in [Budget!Keys -> Counters]
  <2>1. ASSUME NEW key \in Budget!Keys PROVE k[key] \in Counters
    <3>1. PICK c : c = counter[p][key]
      OBVIOUS
    <3>2. c \in Counters /\ c.used \in Nat /\ c.ends \in Int
      BY <1>3, <3>1 DEF Counters
    <3>3. Budget!Budget(key) \in Nat
      BY BudgetAssumption DEF Budget!Budget
    <3>4. PICK z \in Nat : z = Budget!Budget(key)
      BY <3>3
    <3>5. Budget!Spend(c, z) \in Counters
      BY <1>3, <3>2, BudgetAssumption DEF Budget!Spend, Counters
    <3> QED BY <1>4, <3>1, <3>2, <3>4, <3>5 DEF Budget!Spent
  <2>2. k = [key \in Budget!Keys |-> k[key]]
    BY <1>4 DEF Budget!Spent
  <2> QED BY <2>1, <2>2
<1>10. counter' \in [Stores -> [Budget!Keys -> Counters]]
  BY <1>3, <1>5, <1>9
<1>11. PICK f, v : f = h[p][b] /\ v = w[p][b]
  OBVIOUS
<1>12. /\ f \in Histories /\ v \in Int /\ Slot(old, f, v, now)
       /\ h \in [Stores -> [Accounts -> Histories]]
       /\ w \in [Stores -> [Accounts -> Int]]
  BY <1>1, <1>3, <1>6, <1>11 DEF Split
<1>13. PICK g : g = IF Budget!Passes(p, b) THEN CountAt(f, now) ELSE f
  OBVIOUS
<1>14. /\ g \in {f, CountAt(f, now)} /\ (g = f \/ new.used <= Points)
       /\ g \in Histories
  BY <1>3, <1>8, <1>12, <1>13 DEF CountAt, Histories
<1>15. PICK x : x = IF now >= old.ends THEN now ELSE v
  OBVIOUS
<1>16. x \in Int /\ Slot(new, g, x, now)
  <2>1. old.ends \in Int
    BY <1>12 DEF Slot
  <2>2. CASE now >= old.ends
    BY <1>3, <1>6, <1>12, <1>14, <1>15, <2>2, SlotRestarts
  <2>3. CASE now < old.ends
    <3>1. x = v
      BY <1>3, <1>15, <2>1, <2>3
    <3> QED BY <1>3, <1>6, <1>12, <1>14, <2>3, <3>1, SlotCounts
  <2> QED BY <1>3, <2>1, <2>2, <2>3
<1>17. PICK i, j : /\ i = [h EXCEPT ![p] = [h[p] EXCEPT ![b] = g]]
                   /\ j = [w EXCEPT ![p] = [w[p] EXCEPT ![b] = x]]
  OBVIOUS
<1>18. /\ i \in [Stores -> [Accounts -> Histories]]
       /\ j \in [Stores -> [Accounts -> Int]]
       /\ \A s \in Stores, a \in Accounts :
            /\ i[s][a] = IF s = p /\ a = b THEN g ELSE h[s][a]
            /\ j[s][a] = IF s = p /\ a = b THEN x ELSE w[s][a]
  BY <1>3, <1>12, <1>14, <1>16, <1>17
<1>19. ASSUME NEW s \in Stores, NEW a \in Accounts
       PROVE  Slot(counter'[s][a], i[s][a], j[s][a], now')
  <2>1. counter'[s][a] = IF s = p THEN k[a] ELSE counter[s][a]
    BY <1>3, <1>5
  <2>2. CASE s = p /\ a = b
    BY <1>3, <1>7, <1>16, <1>18, <2>1, <2>2
  <2>3. CASE ~(s = p /\ a = b)
    <3>1. counter'[s][a] = counter[s][a] /\ i[s][a] = h[s][a] /\ j[s][a] = w[s][a]
      BY <1>7, <1>18, <2>1, <2>3
    <3> QED BY <1>1, <1>3, <3>1 DEF Split
  <2> QED BY <2>2, <2>3
<1>20. ASSUME NEW a \in Accounts, NEW t \in Ticks
       PROVE  accepted'[a][t] = SumFunctionOnSet(Told(i, a, t), Stores)
  <2>1. PICK r, q : r = Told(h, a, t) /\ q = Told(i, a, t)
    OBVIOUS
  <2>2. \A s \in Stores : /\ r[s] = h[s][a][t] /\ q[s] = i[s][a][t]
                          /\ r[s] \in Int /\ q[s] \in Int
                          /\ (s # p => q[s] = r[s])
    BY <1>12, <1>18, <2>1 DEF Told, Histories
  <2>3. /\ SumFunctionOnSet(r, Stores) \in Int
        /\ SumFunctionOnSet(q, Stores) = SumFunctionOnSet(r, Stores) - r[p] + q[p]
    <3>1. /\ \A s \in Stores : r[s] \in Int /\ (s # p => q[s] = r[s])
          /\ \A s \in Stores : r[s] \in Int
          /\ q[p] \in Int /\ p \in Stores /\ IsFiniteSet(Stores)
      BY <1>3, <2>2, StoresFinite
    <3>2. SumFunctionOnSet(q, Stores) = SumFunctionOnSet(r, Stores) - r[p] + q[p]
      BY <3>1, SumOneChange
    <3> QED BY <3>1, <3>2, SumRemove
  <2>4. accepted[a][t] = SumFunctionOnSet(r, Stores)
    BY <1>1, <2>1 DEF Split
  <2>5. q[p] - r[p] = IF Budget!Passes(p, b) /\ a = b /\ t = now THEN 1 ELSE 0
    <3>1. r[p] = h[p][a][t] /\ q[p] = i[p][a][t] /\ r[p] \in Int
      BY <1>3, <2>2
    <3>2. CASE a = b
      <4>1. r[p] = f[t] /\ q[p] = g[t]
        BY <1>3, <1>11, <1>18, <3>1, <3>2
      <4>2. g[t] = IF Budget!Passes(p, b) /\ t = now THEN f[t] + 1 ELSE f[t]
        BY <1>3, <1>12, <1>13 DEF CountAt, Histories
      <4> QED BY <3>1, <3>2, <4>1, <4>2
    <3>3. CASE a # b
      <4>1. q[p] = r[p]
        BY <1>3, <1>18, <3>1, <3>3
      <4> QED BY <3>1, <3>3, <4>1
    <3> QED BY <3>2, <3>3
  <2>6. accepted'[a][t] = accepted[a][t]
            + (IF Budget!Passes(p, b) /\ a = b /\ t = now THEN 1 ELSE 0)
    <3>1. accepted[a][t] \in Int
      BY <1>3 DEF Histories
    <3> QED BY <1>3, <1>5, <3>1 DEF Histories
  <2>7. r[p] \in Int /\ q[p] \in Int
    BY <1>3, <2>2
  <2> QED BY <2>1, <2>3, <2>4, <2>5, <2>6, <2>7
<1>21. ASSUME sharedOnly', NEW s \in Stores \ {"redis"}, NEW a \in Accounts, NEW t \in Ticks
       PROVE  i[s][a][t] = 0
  <2>1. sharedOnly /\ p = "redis"
    BY <1>3, <1>21
  <2>2. i[s][a] = h[s][a]
    BY <1>18, <2>1
  <2> QED BY <1>1, <2>1, <2>2 DEF Split
<1>22. Split(i, j, counter', now', accepted', sharedOnly')
  BY <1>18, <1>19, <1>20, <1>21 DEF Split
<1>23. accepted' \in [Accounts -> Histories]
  <2>1. accepted[b] \in [Ticks -> Nat] /\ accepted[b][now] + 1 \in Nat
    BY <1>3 DEF Histories
  <2>2. [accepted[b] EXCEPT ![now] = @ + 1] \in Histories
    BY <2>1 DEF Histories
  <2>3. accepted' = accepted \/ accepted' = [accepted EXCEPT ![b] = [accepted[b] EXCEPT ![now] = @ + 1]]
    BY <1>3, <1>5
  <2> QED BY <1>3, <2>2, <2>3
<1> QED BY <1>3, <1>10, <1>22, <1>23 DEF BudgetInv

\* No request, outage or tick breaks the invariant of the budgets.
LEMMA BudgetKeeps ==
    Duration <= Block /\ BudgetInv /\ [Budget!Next]_(Budget!vars) => BudgetInv'
<1>1. SUFFICES ASSUME Duration <= Block, BudgetInv, [Budget!Next]_(Budget!vars)
               PROVE  BudgetInv'
  OBVIOUS
<1>2. CASE \E m \in Nodes, b \in Accounts : Budget!Consume(m, b)
  BY <1>1, <1>2, ConsumeKeeps
<1>3. CASE Budget!Outage
  <2>1. UNCHANGED <<counter, now, accepted, sharedOnly>> /\ reachable' \in BOOLEAN
    BY <1>3 DEF Budget!Outage
  <2> QED BY <1>1, <2>1 DEF BudgetInv
<1>4. CASE Budget!Tick
  <2>1. /\ UNCHANGED <<counter, reachable, accepted, sharedOnly>>
        /\ now \in Ticks /\ now' \in Ticks /\ now <= now'
    BY <1>1, <1>4, BudgetAssumption DEF Budget!Tick, BudgetInv, Ticks
  <2>2. PICK h, w : Split(h, w, counter, now, accepted, sharedOnly)
    BY <1>1 DEF BudgetInv
  <2>3. \A s \in Stores, a \in Accounts : Slot(counter[s][a], h[s][a], w[s][a], now')
    BY <2>1, <2>2, SlotWaits DEF Split
  <2>4. Split(h, w, counter, now', accepted, sharedOnly)
    BY <2>2, <2>3 DEF Split
  <2> QED BY <1>1, <2>1, <2>4 DEF BudgetInv
<1>5. CASE UNCHANGED Budget!vars
  BY <1>1, <1>5 DEF Budget!vars, BudgetInv
<1> QED BY <1>1, <1>2, <1>3, <1>4, <1>5 DEF Budget!Next

\* Recent is a sum over a stretch of an account's history.
LEMMA RecentIsWithin ==
    ASSUME BudgetInv, NEW a \in Accounts
    PROVE  Budget!Recent(a) = Within(accepted[a], now - Duration, now)
<1>1. PICK f, T : f = accepted[a] /\ T = {t \in Ticks : t > now - Duration /\ t <= now}
  OBVIOUS
<1>2. Budget!Recent(a) = PartialSum(f, T)[T]
  BY <1>1 DEF Budget!Recent, Budget!MapThenSumSet, Budget!MapThenFoldSet, PartialSum, Pick, Ticks
<1>3. Budget!Recent(a) = SumFunctionOnSet(f, T)
  BY <1>2, SumIsPartialSum
<1>4. f \in Histories /\ now \in Int /\ Duration \in Int /\ now - Duration \in Int
      /\ \A t \in Ticks : t \in Int
  BY <1>1, BudgetAssumption DEF BudgetInv, Ticks
<1>5. PICK g : g = Part(f, now - Duration, now)
  OBVIOUS
<1>6. \A t \in Ticks : f[t] \in Int /\ g[t] = IF t \in T THEN f[t] ELSE 0
  BY <1>1, <1>4, <1>5 DEF Part, Histories
<1>7. T \in SUBSET Ticks
  BY <1>1
<1>8. SumFunctionOnSet(f, T) = SumFunctionOnSet(g, Ticks)
  BY <1>6, <1>7, TicksFinite, SumMasked
<1> QED BY <1>1, <1>3, <1>5, <1>8 DEF Within

\* What the account got through in a stretch is what each store let through.
LEMMA WithinSplits ==
    ASSUME NEW F \in [Stores -> Histories], NEW f \in Histories, NEW lo \in Int, NEW hi \in Int,
           \A t \in Ticks : f[t] = SumFunctionOnSet([s \in Stores |-> F[s][t]], Stores)
    PROVE  Within(f, lo, hi) =
               SumFunctionOnSet([s \in Stores |-> Within(F[s], lo, hi)], Stores)
<1>1. PICK G : G = [s \in Stores |-> Part(F[s], lo, hi)]
  OBVIOUS
<1>2. \A s \in Stores : \A t \in Ticks :
         /\ F[s][t] \in Nat /\ G[s][t] \in Int
         /\ G[s][t] = IF lo < t /\ t <= hi THEN F[s][t] ELSE 0
  BY <1>1 DEF Part, Histories
<1>3. SumFunctionOnSet(ColumnSums(G, Stores, Ticks), Ticks) =
      SumFunctionOnSet(RowSums(G, Stores, Ticks), Stores)
  BY <1>2, StoresFinite, TicksFinite, SumExchanged
<1>4. RowSums(G, Stores, Ticks) = [s \in Stores |-> Within(F[s], lo, hi)]
  <2>1. ASSUME NEW s \in Stores PROVE Row(G, s, Ticks) = Part(F[s], lo, hi)
    BY <1>1 DEF Row, Part
  <2> QED BY <2>1 DEF RowSums, Within
<1>5. ColumnSums(G, Stores, Ticks) = Part(f, lo, hi)
  <2>1. ASSUME NEW t \in Ticks
        PROVE  SumFunctionOnSet(Column(G, Stores, t), Stores) =
                  IF lo < t /\ t <= hi THEN f[t] ELSE 0
    <3>1. CASE lo < t /\ t <= hi
      <4>1. Column(G, Stores, t) = [s \in Stores |-> F[s][t]]
        BY <1>2, <3>1 DEF Column
      <4> QED BY <3>1, <4>1
    <3>2. CASE ~(lo < t /\ t <= hi)
      <4>1. PICK g, z : g = Column(G, Stores, t) /\ z = 0
        OBVIOUS
      <4>2. \A s \in Stores : g[s] = z
        BY <1>2, <3>2, <4>1 DEF Column
      <4>3. z \in Int /\ Cardinality(Stores) \in Nat
        BY <4>1, StoresFinite, FS_CardinalityType
      <4>4. SumFunctionOnSet(g, Stores) = z * Cardinality(Stores)
        BY <4>2, <4>3, StoresFinite, SumConstant
      <4> QED BY <3>2, <4>1, <4>3, <4>4
    <3> QED BY <3>1, <3>2
  <2> QED BY <2>1 DEF ColumnSums, Part
<1> QED BY <1>3, <1>4, <1>5 DEF Within

\* The invariant bounds what got through in a window's length.
LEMMA BudgetBounds == BudgetInv => BurstBound
<1>1. SUFFICES ASSUME BudgetInv, NEW a \in Accounts
               PROVE  Budget!Recent(a) <= (2 * Points - 1) *
                        (IF sharedOnly THEN 1 ELSE Budget!Cardinality(Budget!Stores))
  BY DEF BurstBound, Budget!BurstBound
<1>2. PICK h, w : Split(h, w, counter, now, accepted, sharedOnly)
  BY <1>1 DEF BudgetInv
<1>3. PICK F, f, lo, hi : /\ F = [s \in Stores |-> h[s][a]] /\ f = accepted[a]
                          /\ lo = now - Duration /\ hi = now
  OBVIOUS
<1>4. /\ F \in [Stores -> Histories] /\ f \in Histories /\ hi \in Ticks
      /\ lo \in Int /\ hi \in Int /\ lo = hi - Duration
      /\ \A t \in Ticks : f[t] = SumFunctionOnSet([s \in Stores |-> F[s][t]], Stores)
  <2>1. ASSUME NEW t \in Ticks
        PROVE  f[t] = SumFunctionOnSet([s \in Stores |-> F[s][t]], Stores)
    <3>1. Told(h, a, t) = [s \in Stores |-> F[s][t]]
      BY <1>3 DEF Told
    <3> QED BY <1>2, <1>3, <3>1 DEF Split
  <2> QED BY <1>1, <1>2, <1>3, <2>1, BudgetAssumption DEF Split, BudgetInv, Ticks
<1>5. PICK e : e = [s \in Stores |-> Within(F[s], lo, hi)]
  OBVIOUS
<1>6. Within(f, lo, hi) = SumFunctionOnSet(e, Stores)
  BY <1>4, <1>5, WithinSplits
<1>7. Budget!Recent(a) = SumFunctionOnSet(e, Stores)
  BY <1>1, <1>3, <1>6, RecentIsWithin
<1>8. PICK top : top = 2 * Points - 1 /\ top \in Int
  BY BudgetAssumption
<1>9. \A s \in Stores : e[s] \in Int /\ e[s] <= top
  <2>1. SUFFICES ASSUME NEW s \in Stores
                 PROVE  Within(F[s], lo, hi) \in Int /\ Within(F[s], lo, hi) <= top
    BY <1>5
  <2>2. Slot(counter[s][a], F[s], w[s][a], hi)
    BY <1>2, <1>3 DEF Split
  <2>3. Within(F[s], hi - Duration, hi) <= top
    BY <1>4, <1>8, <2>2, SlotBound
  <2> QED BY <1>4, <2>3, PartOf
<1>10. CASE sharedOnly
  <2>1. PICK r : r = "redis" /\ r \in Stores
    BY DEF Stores
  <2>2. ASSUME NEW s \in Stores, s # r PROVE e[s] = 0
    <3>1. \A t \in Ticks : F[s][t] = 0
      BY <1>2, <1>3, <1>10, <2>1, <2>2 DEF Split
    <3>2. F[s] \in Histories
      BY <1>4
    <3>3. Within(F[s], lo, hi) = 0
      BY <1>4, <3>1, <3>2, WithinNothing
    <3> QED BY <1>5, <3>3
  <2>3. SumFunctionOnSet(e, Stores) = e[r]
    BY <1>9, <2>1, <2>2, StoresFinite, SumAlone
  <2>4. e[r] <= top
    BY <1>9, <2>1
  <2>5. (2 * Points - 1) * 1 = top
    BY <1>8
  <2> QED BY <1>7, <1>10, <2>3, <2>4, <2>5
<1>11. CASE ~sharedOnly
  <2>1. PICK u, n : u = [s \in Stores |-> top] /\ n = Cardinality(Stores)
    OBVIOUS
  <2>2. \A s \in Stores : u[s] = top
    BY <2>1
  <2>3. SumFunctionOnSet(u, Stores) = top * n
    BY <1>8, <2>1, <2>2, StoresFinite, SumConstant
  <2>4. \A s \in Stores : e[s] \in Int /\ u[s] \in Int /\ e[s] <= u[s]
    BY <1>8, <1>9, <2>2
  <2>5. SumFunctionOnSet(e, Stores) <= SumFunctionOnSet(u, Stores)
    BY <2>4, StoresFinite, SumMonotonic
  <2>6. Budget!Cardinality(Budget!Stores) = n
    BY <2>1, StoresFinite DEF Budget!Cardinality, Cardinality
  <2> QED BY <1>7, <1>8, <1>11, <2>3, <2>5, <2>6
<1> QED BY <1>10, <1>11

\* BurstBound (RateLimitService): with a block no shorter than the window, an
\* account gets less than two budgets through in any window's length, and less
\* than two per store once an outage has sent it to a node's own memory.  The
\* hypothesis is what the trade, auth and share_card classes of rate-limits.ts
\* have; market_create, comment and read block for less than their window, which
\* ends it early, and the bound is not theirs.
THEOREM BurstsAreBounded ==
    ASSUME Duration <= Block PROVE Spec => []BurstBound
<1>1. BudgetInv => BurstBound
  BY BudgetBounds
<1>2. Init => BudgetInv
  BY BudgetStarts DEF Init
<1>3. BudgetInv /\ [Next]_vars => BudgetInv'
  BY BudgetKeeps, BudgetStep
<1> QED BY <1>1, <1>2, <1>3, PTL DEF Spec

----------------------------------------------------------------------------
(* The shelf.                                                              *)

DraftRows == [state : {"none", "suggested", "rejected", "approved"},
              source : {"none", "ai", "community"}, topic : Topics \cup {"none"}]

MarketRows == [state : {"none", "draft", "active", "closed"}, from : Drafts \cup {"none"}]

CounterRows == [at : {"rest", "generate", "create", "seed", "mark", "refuse"},
                on : Drafts \cup {"none"}, opened : MarketIds \cup {"none"},
                live : SUBSET (Topics \cup {"none"}), places : Nat]

ShelfType ==
    /\ drafts \in [Drafts -> DraftRows]
    /\ shelf \in [MarketIds -> MarketRows]
    /\ counterRequest \in [Hands -> CounterRows]
    /\ met \in SUBSET Drafts /\ refilled \in BOOLEAN

\* Where a request is past the question of its draft's state.
Middle == {"create", "seed", "mark", "refuse"}

Busy(c, d) == c.at \in Middle /\ c.on = d

\* It is about a draft, and the market it holds is that draft's.
Holds(c, S) ==
    /\ c.at \in Middle => c.on \in Drafts
    /\ c.at \in {"seed", "mark"} => c.opened \in MarketIds /\ S[c.opened].from = c.on

\* The one market of d is m.
OnlyMarket(S, d, m) == m \in MarketIds /\ \A k \in MarketIds : S[k].from = d <=> k = m

NoMarketOf(S, d) == \A k \in MarketIds : S[k].from # d

\* What a request in the middle of d has made of it so far.
InHand(row, d, S, c) ==
    /\ row.state = "suggested"
    /\ c.at \in {"create", "refuse"} => NoMarketOf(S, d)
    /\ c.at = "seed" =>
        row.source = "ai" /\ OnlyMarket(S, d, c.opened) /\ S[c.opened].state = "draft"
    /\ c.at = "mark" =>
        OnlyMarket(S, d, c.opened) /\ S[c.opened].state \in {"active", "closed"}

\* What d is while no request is in the middle of it.
AtPeace(row, d, S) ==
    IF row.state = "approved"
    THEN \E m \in MarketIds : OnlyMarket(S, d, m) /\ S[m].state \in {"active", "closed"}
    ELSE NoMarketOf(S, d)

Tidy(d, row, S, C) ==
    /\ \A s \in Hands, t \in Hands : Busy(C[s], d) /\ Busy(C[t], d) => s = t
    /\ \A s \in Hands : Busy(C[s], d) => InHand(row, d, S, C[s])
    /\ (\A s \in Hands : ~Busy(C[s], d)) => AtPeace(row, d, S)

DraftsInv ==
    /\ \A s \in Hands : Holds(counterRequest[s], shelf)
    /\ \A d \in Drafts \ met : Tidy(d, drafts[d], shelf, counterRequest)

\* What the whole does, the shelf does or does not notice.
LEMMA QueueStep == [Next]_vars => [Queue!Next]_(Queue!vars)
BY DEF Next, vars, queue, Queue!vars

\* What no request and no market of d notices.
LEMMA TidyElsewhere ==
    ASSUME NEW d, NEW row, NEW S, NEW T, NEW C, NEW D,
           \A k \in MarketIds : (S[k].from = d <=> T[k].from = d) /\
                                (S[k].from = d => T[k].state = S[k].state),
           \A s \in Hands : (Busy(C[s], d) <=> Busy(D[s], d)) /\
                            (Busy(C[s], d) => D[s] = C[s]),
           Tidy(d, row, S, C)
    PROVE  Tidy(d, row, T, D)
<1>1. /\ NoMarketOf(S, d) <=> NoMarketOf(T, d)
      /\ \A m : OnlyMarket(S, d, m) <=> OnlyMarket(T, d, m)
      /\ \A m : OnlyMarket(S, d, m) => T[m].state = S[m].state
  BY DEF NoMarketOf, OnlyMarket
<1>2. \A s \in Hands, t \in Hands : Busy(D[s], d) /\ Busy(D[t], d) => s = t
  BY DEF Tidy
<1>3. ASSUME NEW s \in Hands, Busy(D[s], d) PROVE InHand(row, d, T, D[s])
  <2>1. D[s] = C[s] /\ InHand(row, d, S, C[s])
    BY <1>3 DEF Tidy
  <2> QED BY <1>1, <2>1 DEF InHand
<1>4. ASSUME \A s \in Hands : ~Busy(D[s], d) PROVE AtPeace(row, d, T)
  <2>1. AtPeace(row, d, S)
    BY <1>4 DEF Tidy
  <2> QED BY <1>1, <2>1 DEF AtPeace
<1> QED BY <1>2, <1>3, <1>4 DEF Tidy

\* A request that is nowhere is in the middle of nothing.
LEMMA RestIsACounter ==
    /\ Queue!AtRest \in CounterRows
    /\ \A d : ~Busy(Queue!AtRest, d)
    /\ Queue!AtRest.at = "rest" /\ Queue!AtRest.places = 0 /\ "rest" \notin Middle
    /\ \A S : Holds(Queue!AtRest, S)
BY DEF Queue!AtRest, Queue!Nothing, CounterRows, Busy, Middle, Holds

\* An id that is not used yet.
LEMMA FreshIsFree ==
    ASSUME NEW rows, NEW none, Queue!Free(rows, none) # {}
    PROVE  /\ Queue!Fresh(rows, none) \in DOMAIN rows
           /\ rows[Queue!Fresh(rows, none)] = none
<1>1. Queue!Fresh(rows, none) \in Queue!Free(rows, none)
  BY DEF Queue!Fresh
<1> QED BY <1>1 DEF Queue!Free

\* No draft and no market yet.
LEMMA ShelfStarts == Queue!Init => ShelfType /\ DraftsInv
<1>1. SUFFICES ASSUME Queue!Init PROVE ShelfType /\ DraftsInv
  OBVIOUS
<1>2. /\ drafts = [d \in Drafts |-> Queue!NoDraft]
      /\ shelf = [m \in MarketIds |-> Queue!NoMarket]
      /\ counterRequest = [s \in Hands |-> Queue!AtRest]
      /\ met = {} /\ refilled = FALSE
  BY <1>1 DEF Queue!Init
<1>3. ShelfType
  BY <1>2, RestIsACounter
     DEF ShelfType, Queue!NoDraft, Queue!NoMarket, Queue!Nothing, DraftRows, MarketRows
<1>4. ASSUME NEW d \in Drafts PROVE Tidy(d, drafts[d], shelf, counterRequest)
  <2>1. \A s \in Hands : ~Busy(counterRequest[s], d)
    BY <1>2, RestIsACounter
  <2>2. \A k \in MarketIds : shelf[k].from = "none"
    BY <1>2 DEF Queue!NoMarket, Queue!Nothing
  <2>3. NoMarketOf(shelf, d)
    BY <2>2, ShelfAssumption DEF NoMarketOf
  <2>4. drafts[d].state = "none"
    BY <1>2 DEF Queue!NoDraft, Queue!Nothing
  <2> QED BY <2>1, <2>3, <2>4 DEF Tidy, AtPeace
<1>5. \A s \in Hands : Holds(counterRequest[s], shelf)
  BY <1>2, RestIsACounter
<1> QED BY <1>3, <1>4, <1>5 DEF DraftsInv

\* A request that is in the middle of no draft comes, moves on or goes.
LEMMA OffTheDrafts ==
    ASSUME ShelfType, DraftsInv, NEW s \in Hands, NEW row \in CounterRows,
           counterRequest[s].at \notin Middle, row.at \notin Middle,
           counterRequest' = [counterRequest EXCEPT ![s] = row],
           UNCHANGED <<drafts, shelf, met>>, refilled' \in BOOLEAN
    PROVE  ShelfType' /\ DraftsInv'
<1>1. \A t \in Hands : counterRequest'[t] = IF t = s THEN row ELSE counterRequest[t]
  BY DEF ShelfType
<1>2. ShelfType'
  BY DEF ShelfType
<1>3. ASSUME NEW d \in Drafts \ met PROVE Tidy(d, drafts[d], shelf, counterRequest')
  <2>1. Tidy(d, drafts[d], shelf, counterRequest)
    BY DEF DraftsInv
  <2>2. \A t \in Hands : /\ Busy(counterRequest[t], d) <=> Busy(counterRequest'[t], d)
                         /\ Busy(counterRequest[t], d) => counterRequest'[t] = counterRequest[t]
    BY <1>1 DEF Busy
  <2> QED BY <2>1, <2>2, TidyElsewhere
<1>4. \A t \in Hands : Holds(counterRequest'[t], shelf)
  BY <1>1 DEF DraftsInv, Holds, Middle
<1> QED BY <1>2, <1>3, <1>4 DEF DraftsInv

\* A row is added to the drafts.
LEMMA DraftAdded ==
    ASSUME ShelfType, DraftsInv, NEW row \in DraftRows,
           row.state \in {"suggested", "rejected"},
           Queue!Free(drafts, Queue!NoDraft) # {},
           drafts' = [drafts EXCEPT ![Queue!Fresh(drafts, Queue!NoDraft)] = row],
           UNCHANGED <<shelf, met, refilled>>,
           counterRequest' \in [Hands -> CounterRows],
           \A t \in Hands : /\ counterRequest'[t].at = counterRequest[t].at
                            /\ counterRequest[t].at \in Middle =>
                                   counterRequest'[t] = counterRequest[t]
    PROVE  ShelfType' /\ DraftsInv'
<1>1. PICK e : e = Queue!Fresh(drafts, Queue!NoDraft)
  OBVIOUS
<1>2. e \in Drafts /\ drafts[e] = Queue!NoDraft
  BY <1>1, FreshIsFree DEF ShelfType
<1>3. drafts[e].state = "none"
  BY <1>2 DEF Queue!NoDraft, Queue!Nothing
<1>4. \A d \in Drafts : drafts'[d] = IF d = e THEN row ELSE drafts[d]
  BY <1>1 DEF ShelfType
<1>5. ShelfType'
  BY DEF ShelfType
<1>6. ASSUME NEW d \in Drafts \ met PROVE Tidy(d, drafts'[d], shelf, counterRequest')
  <2>1. Tidy(d, drafts[d], shelf, counterRequest)
    BY DEF DraftsInv
  <2>2. Tidy(d, drafts[d], shelf, counterRequest')
    <3>1. \A t \in Hands : /\ Busy(counterRequest[t], d) <=> Busy(counterRequest'[t], d)
                           /\ Busy(counterRequest[t], d) => counterRequest'[t] = counterRequest[t]
      BY DEF Busy
    <3> QED BY <2>1, <3>1, TidyElsewhere
  <2>3. CASE d = e
    <3>1. \A t \in Hands : ~Busy(counterRequest'[t], d)
      BY <1>3, <2>2, <2>3 DEF Tidy, InHand
    <3>2. NoMarketOf(shelf, d)
      BY <1>3, <2>2, <2>3, <3>1 DEF Tidy, AtPeace
    <3> QED BY <1>4, <2>3, <3>1, <3>2 DEF Tidy, AtPeace
  <2>4. CASE d # e
    BY <1>4, <2>2, <2>4
  <2> QED BY <2>3, <2>4
<1>7. \A t \in Hands : Holds(counterRequest'[t], shelf)
  BY DEF DraftsInv, Holds, Middle
<1> QED BY <1>5, <1>6, <1>7 DEF DraftsInv

\* The request s is past the question of state of d, moves on and does to d and
\* its markets what is left to do.
LEMMA InTheMiddle ==
    ASSUME ShelfType, DraftsInv, NEW s \in Hands, NEW d \in Drafts,
           Busy(counterRequest[s], d), NEW row \in CounterRows, Holds(row, shelf'),
           row.at \in Middle => row.on = d,
           counterRequest' = [counterRequest EXCEPT ![s] = row],
           drafts' \in [Drafts -> DraftRows], shelf' \in [MarketIds -> MarketRows],
           met' \in SUBSET Drafts, met \subseteq met', refilled' = refilled,
           \A e \in Drafts : e # d => drafts'[e] = drafts[e],
           \A k \in MarketIds : shelf'[k] # shelf[k] =>
               shelf[k].from \in {d, "none"} /\ shelf'[k].from = d,
           d \notin met' =>
               IF Busy(row, d) THEN InHand(drafts'[d], d, shelf', row)
                               ELSE AtPeace(drafts'[d], d, shelf')
    PROVE  ShelfType' /\ DraftsInv'
<1>1. \A t \in Hands : counterRequest'[t] = IF t = s THEN row ELSE counterRequest[t]
  BY DEF ShelfType
<1>2. ShelfType'
  BY DEF ShelfType
<1>3. ASSUME NEW e \in Drafts \ met' PROVE Tidy(e, drafts'[e], shelf', counterRequest')
  <2>1. Tidy(e, drafts[e], shelf, counterRequest)
    BY DEF DraftsInv
  <2>2. CASE e = d
    <3>1. \A t \in Hands : t # s => ~Busy(counterRequest'[t], d)
      BY <1>1, <2>1, <2>2 DEF Tidy
    <3> QED BY <1>1, <2>2, <3>1 DEF Tidy
  <2>3. CASE e # d
    <3>1. PICK r, S, T, C, D : /\ r = drafts[e] /\ S = shelf /\ T = shelf'
                               /\ C = counterRequest /\ D = counterRequest'
      OBVIOUS
    <3>2. \A t \in Hands : /\ Busy(C[t], e) <=> Busy(D[t], e)
                           /\ Busy(C[t], e) => D[t] = C[t]
      BY <1>1, <2>3, <3>1 DEF Busy
    <3>3. \A k \in MarketIds : /\ S[k].from = e <=> T[k].from = e
                               /\ S[k].from = e => T[k].state = S[k].state
      BY <2>3, <3>1, ShelfAssumption
    <3>4. Tidy(e, r, S, C)
      BY <2>1, <3>1
    <3>5. Tidy(e, r, T, D)
      BY <3>2, <3>3, <3>4, TidyElsewhere
    <3>6. drafts'[e] = r
      BY <2>3, <3>1
    <3> QED BY <3>1, <3>5, <3>6
  <2> QED BY <2>2, <2>3
<1>4. ASSUME NEW t \in Hands PROVE Holds(counterRequest'[t], shelf')
  <2>1. CASE t = s
    BY <1>1, <2>1
  <2>2. CASE t # s
    <3>1. Holds(counterRequest[t], shelf)
      BY DEF DraftsInv
    <3>2. \A k \in MarketIds : shelf[k].from \in Drafts => shelf'[k].from = shelf[k].from
      BY ShelfAssumption
    <3> QED BY <1>1, <2>2, <3>1, <3>2 DEF Holds, Middle
  <2> QED BY <2>1, <2>2
<1> QED BY <1>2, <1>3, <1>4 DEF DraftsInv

\* No cycle, submission, opening, refusal, crash or closing breaks the drafts.
LEMMA ShelfKeeps ==
    ShelfType /\ DraftsInv /\ [Queue!Next]_(Queue!vars) => ShelfType' /\ DraftsInv'
<1>1. SUFFICES ASSUME ShelfType, DraftsInv, [Queue!Next]_(Queue!vars)
               PROVE  ShelfType' /\ DraftsInv'
  OBVIOUS
<1>2. ASSUME NEW s \in Hands, Queue!Generate(s) PROVE ShelfType' /\ DraftsInv'
  <2>1. /\ counterRequest[s] = Queue!AtRest /\ UNCHANGED <<drafts, shelf, met>>
        /\ refilled' = (refilled \/ Queue!Outstanding)
        /\ counterRequest' = [counterRequest EXCEPT ![s] = [Queue!AtRest EXCEPT
              !.at = "generate", !.live = Queue!TopicsOf(Queue!Live), !.places = Queue!FreePlaces]]
    BY <1>2 DEF Queue!Generate
  <2>2. PICK live, places : live = Queue!TopicsOf(Queue!Live) /\ places = Queue!FreePlaces
    OBVIOUS
  <2>3. live \in SUBSET (Topics \cup {"none"})
    <3>1. ASSUME NEW m \in Queue!Live PROVE drafts[shelf[m].from].topic \in Topics \cup {"none"}
      <4>1. m \in MarketIds /\ shelf[m].from # "none"
        BY <3>1 DEF Queue!Live, Queue!Official, Queue!Nothing
      <4>2. shelf[m].from \in Drafts
        BY <1>1, <4>1 DEF ShelfType, MarketRows
      <4> QED BY <1>1, <4>2 DEF ShelfType, DraftRows
    <3> QED BY <2>2, <3>1 DEF Queue!TopicsOf
  <2>4. places \in Nat
    <3>1. Queue!Cardinality(Queue!Live) \in Nat
      <4>1. Queue!Live \subseteq MarketIds
        BY DEF Queue!Live
      <4>2. IsFiniteSet(Queue!Live) /\ Cardinality(Queue!Live) \in Nat
        BY <4>1, ShelfAssumption, FS_Subset, FS_CardinalityType
      <4> QED BY <4>2 DEF Queue!Cardinality, Cardinality
    <3> QED BY <2>2, <3>1, ShelfAssumption DEF Queue!FreePlaces
  <2>5. PICK row : row = [Queue!AtRest EXCEPT !.at = "generate", !.live = live,
                                              !.places = places]
    OBVIOUS
  <2>6. counterRequest[s].at \notin Middle /\ row.at \notin Middle
    BY <2>1, <2>5, RestIsACounter DEF Middle, Queue!AtRest
  <2>7. refilled' \in BOOLEAN
    BY <2>1
  <2>8. counterRequest' = [counterRequest EXCEPT ![s] = row]
    BY <2>1, <2>2, <2>5
  <2>9. row \in CounterRows
    BY <2>3, <2>4, <2>5, RestIsACounter DEF CounterRows
  <2> QED BY <1>1, <2>1, <2>6, <2>7, <2>8, <2>9, OffTheDrafts
<1>3. ASSUME NEW s \in Hands, NEW topic \in Topics, NEW sound \in BOOLEAN,
             Queue!FileProposal(s, topic, sound)
      PROVE  ShelfType' /\ DraftsInv'
  <2>1. PICK row : row = [state |-> Queue!Gate(sound, topic, counterRequest[s].live),
                          source |-> "ai", topic |-> topic]
    OBVIOUS
  <2>2. row \in DraftRows /\ row.state \in {"suggested", "rejected"}
    BY <2>1 DEF Queue!Gate, DraftRows
  <2>3. /\ counterRequest[s].at = "generate" /\ counterRequest[s].places > 0
        /\ Queue!Free(drafts, Queue!NoDraft) # {}
        /\ drafts' = [drafts EXCEPT ![Queue!Fresh(drafts, Queue!NoDraft)] = row]
        /\ counterRequest' = [counterRequest EXCEPT ![s].places = @ - 1]
        /\ UNCHANGED <<shelf, met, refilled>>
    BY <1>3, <2>1 DEF Queue!FileProposal
  <2>4. PICK c : c = [counterRequest[s] EXCEPT !.places = @ - 1]
    OBVIOUS
  <2>5. c \in CounterRows /\ c.at = "generate"
    BY <1>1, <2>3, <2>4 DEF ShelfType, CounterRows
  <2>6. /\ counterRequest' \in [Hands -> CounterRows]
        /\ \A t \in Hands : counterRequest'[t] = IF t = s THEN c ELSE counterRequest[t]
    BY <1>1, <2>3, <2>4, <2>5 DEF ShelfType
  <2>7. \A t \in Hands : /\ counterRequest'[t].at = counterRequest[t].at
                         /\ counterRequest[t].at \in Middle =>
                                counterRequest'[t] = counterRequest[t]
    BY <2>3, <2>5, <2>6 DEF Middle
  <2> QED BY <1>1, <2>2, <2>3, <2>6, <2>7, DraftAdded
<1>4. ASSUME NEW topic \in Topics, NEW sound \in BOOLEAN, Queue!Submit(topic, sound)
      PROVE  ShelfType' /\ DraftsInv'
  <2>1. PICK row : row = [state |-> Queue!Gate(sound, topic, {}),
                          source |-> "community", topic |-> topic]
    OBVIOUS
  <2>2. row \in DraftRows /\ row.state \in {"suggested", "rejected"}
    BY <2>1 DEF Queue!Gate, DraftRows
  <2>3. /\ Queue!Free(drafts, Queue!NoDraft) # {}
        /\ drafts' = [drafts EXCEPT ![Queue!Fresh(drafts, Queue!NoDraft)] = row]
        /\ UNCHANGED <<shelf, counterRequest, met, refilled>>
    BY <1>4, <2>1 DEF Queue!Submit
  <2>4. counterRequest' \in [Hands -> CounterRows]
    BY <1>1, <2>3 DEF ShelfType
  <2> QED BY <1>1, <2>2, <2>3, <2>4, DraftAdded
<1>5. ASSUME NEW s \in Hands, Queue!EndCycle(s) PROVE ShelfType' /\ DraftsInv'
  <2>1. /\ counterRequest[s].at = "generate" /\ UNCHANGED <<drafts, shelf, met, refilled>>
        /\ counterRequest' = [counterRequest EXCEPT ![s] = Queue!AtRest]
    BY <1>5 DEF Queue!EndCycle, Queue!Leave
  <2>2. counterRequest[s].at \notin Middle /\ Queue!AtRest.at \notin Middle
    BY <2>1, RestIsACounter DEF Middle
  <2>3. refilled' \in BOOLEAN
    BY <1>1, <2>1 DEF ShelfType
  <2> QED BY <1>1, <2>1, <2>2, <2>3, OffTheDrafts, RestIsACounter
<1>6. ASSUME NEW s \in Hands, NEW d \in Drafts, NEW what \in {"create", "refuse"},
             Queue!Read(s, d, what)
      PROVE  ShelfType' /\ DraftsInv'
  <2>1. /\ counterRequest[s] = Queue!AtRest /\ drafts[d].state = "suggested"
        /\ UNCHANGED <<drafts, shelf, refilled>>
        /\ met' = IF Queue!Halfway(d) # {} THEN met \cup {d} ELSE met
    BY <1>6 DEF Queue!Read
  <2>2. PICK row \in CounterRows : /\ row.at = what /\ row.on = d
                                   /\ counterRequest' = [counterRequest EXCEPT ![s] = row]
    <3>1. [Queue!AtRest EXCEPT !.at = what, !.on = d] \in CounterRows
      BY DEF Queue!AtRest, Queue!Nothing, CounterRows
    <3> QED BY <1>6, <3>1 DEF Queue!Read, Queue!AtRest
  <2>3. \A t \in Hands : counterRequest'[t] = IF t = s THEN row ELSE counterRequest[t]
    BY <1>1, <2>2 DEF ShelfType
  <2>4. ShelfType'
    BY <1>1, <2>1, <2>2 DEF ShelfType
  <2>5. ASSUME NEW e \in Drafts \ met' PROVE Tidy(e, drafts[e], shelf, counterRequest')
    <3>1. e \notin met /\ Tidy(e, drafts[e], shelf, counterRequest)
      BY <1>1, <2>1 DEF DraftsInv
    <3>2. CASE e # d
      <4>1. \A t \in Hands : /\ Busy(counterRequest[t], e) <=> Busy(counterRequest'[t], e)
                             /\ Busy(counterRequest[t], e) => counterRequest'[t] = counterRequest[t]
        BY <2>1, <2>2, <2>3, <3>2, RestIsACounter DEF Busy
      <4> QED BY <3>1, <4>1, TidyElsewhere
    <3>3. CASE e = d
      <4>1. \A t \in Hands : ~Busy(counterRequest[t], d)
        BY <2>1, <3>3 DEF Queue!Halfway, Queue!At, Busy, Middle
      <4>2. NoMarketOf(shelf, d)
        BY <2>1, <3>1, <3>3, <4>1 DEF Tidy, AtPeace
      <4>3. \A t \in Hands : Busy(counterRequest'[t], d) => t = s
        BY <2>3, <4>1
      <4>4. InHand(drafts[d], d, shelf, row) /\ Busy(row, d)
        BY <2>1, <2>2, <4>2 DEF InHand, Busy, Middle
      <4> QED BY <2>3, <3>3, <4>3, <4>4 DEF Tidy
    <3> QED BY <3>2, <3>3
  <2>6. \A t \in Hands : Holds(counterRequest'[t], shelf)
    BY <1>1, <2>2, <2>3 DEF DraftsInv, Holds, Middle
  <2> QED BY <2>1, <2>4, <2>5, <2>6 DEF DraftsInv
<1>7. ASSUME NEW s \in Hands, Queue!CreateMarket(s) PROVE ShelfType' /\ DraftsInv'
  <2>1. PICK c, d, m : /\ c = counterRequest[s] /\ d = c.on
                       /\ m = Queue!Fresh(shelf, Queue!NoMarket)
    OBVIOUS
  <2>2. /\ c \in CounterRows /\ c.at = "create" /\ Queue!Free(shelf, Queue!NoMarket) # {}
        /\ UNCHANGED <<drafts, met, refilled>>
    BY <1>1, <1>7, <2>1 DEF Queue!CreateMarket, ShelfType
  <2>3. m \in MarketIds /\ shelf[m].from = "none"
    BY <1>1, <2>1, <2>2, FreshIsFree DEF ShelfType, Queue!NoMarket, Queue!Nothing
  <2>4. d \in Drafts /\ Busy(c, d) /\ \A k \in MarketIds : shelf[k] \in MarketRows
    BY <1>1, <2>1, <2>2 DEF DraftsInv, Holds, Middle, Busy, ShelfType
  <2>5. PICK state, place : /\ state = IF drafts[d].source = "ai" THEN "draft" ELSE "active"
                            /\ place = IF drafts[d].source = "ai" THEN "seed" ELSE "mark"
    OBVIOUS
  <2>6. PICK market, row : /\ market = [state |-> state, from |-> d]
                           /\ row = [c EXCEPT !.at = place, !.opened = m]
    OBVIOUS
  <2>7. market \in MarketRows /\ market.state = state /\ market.from = d
    BY <2>4, <2>5, <2>6 DEF MarketRows
  <2>8. row \in CounterRows /\ row.at = place /\ row.opened = m /\ row.on = d
    BY <2>1, <2>2, <2>3, <2>5, <2>6 DEF CounterRows
  <2>9. /\ shelf' = [shelf EXCEPT ![m] = market]
        /\ counterRequest' = [counterRequest EXCEPT ![s] = row]
    <3>1. counterRequest' = [counterRequest EXCEPT ![s].at = place, ![s].opened = m]
      BY <1>7, <2>1, <2>5 DEF Queue!CreateMarket
    <3>2. counterRequest' = [counterRequest EXCEPT ![s] = row]
      BY <1>1, <2>1, <2>6, <3>1 DEF ShelfType
    <3> QED BY <1>7, <2>1, <2>5, <2>6, <3>2 DEF Queue!CreateMarket
  <2>10. \A k \in MarketIds : shelf'[k] = IF k = m THEN market ELSE shelf[k]
    BY <1>1, <2>9 DEF ShelfType
  <2>11. shelf' \in [MarketIds -> MarketRows]
    BY <1>1, <2>7, <2>9 DEF ShelfType
  <2>12. Busy(row, d) /\ Holds(row, shelf') /\ (row.at \in Middle => row.on = d)
    BY <2>3, <2>4, <2>5, <2>7, <2>8, <2>10 DEF Holds, Middle, Busy
  <2>13. d \notin met => InHand(drafts[d], d, shelf', row)
    <3>1. SUFFICES ASSUME d \notin met PROVE InHand(drafts[d], d, shelf', row)
      OBVIOUS
    <3>2. drafts[d].state = "suggested" /\ NoMarketOf(shelf, d)
      BY <1>1, <2>1, <2>2, <2>4, <3>1 DEF DraftsInv, Tidy, InHand
    <3>3. OnlyMarket(shelf', d, m)
      BY <2>3, <2>7, <2>10, <3>2 DEF OnlyMarket, NoMarketOf
    <3> QED BY <2>3, <2>5, <2>7, <2>8, <2>10, <3>2, <3>3 DEF InHand
  <2>14. \A k \in MarketIds : shelf'[k] # shelf[k] =>
            shelf[k].from \in {d, "none"} /\ shelf'[k].from = d
    BY <2>3, <2>7, <2>10
  <2>15. drafts' = drafts /\ met' = met /\ refilled' = refilled
         /\ drafts \in [Drafts -> DraftRows] /\ met \in SUBSET Drafts
    BY <1>1, <2>2 DEF ShelfType
  <2> QED BY <1>1, <2>1, <2>4, <2>8, <2>9, <2>11, <2>12, <2>13, <2>14, <2>15, InTheMiddle
<1>8. ASSUME NEW s \in Hands, Queue!SeedMarket(s) PROVE ShelfType' /\ DraftsInv'
  <2>1. PICK c, d, m : c = counterRequest[s] /\ d = c.on /\ m = c.opened
    OBVIOUS
  <2>2. /\ c \in CounterRows /\ c.at = "seed" /\ Holds(c, shelf)
        /\ UNCHANGED <<drafts, met, refilled>>
    BY <1>1, <1>8, <2>1 DEF Queue!SeedMarket, ShelfType, DraftsInv
  <2>3. /\ d \in Drafts /\ Busy(c, d) /\ m \in MarketIds /\ shelf[m].from = d
        /\ \A k \in MarketIds : shelf[k] \in MarketRows
    BY <1>1, <2>1, <2>2 DEF Holds, Middle, Busy, ShelfType
  <2>4. PICK market, row : /\ market = [shelf[m] EXCEPT !.state = "active"]
                           /\ row = [c EXCEPT !.at = "mark"]
    OBVIOUS
  <2>5. market \in MarketRows /\ market.state = "active" /\ market.from = d
    BY <2>3, <2>4 DEF MarketRows
  <2>6. row \in CounterRows /\ row.at = "mark" /\ row.opened = m /\ row.on = d
    BY <2>1, <2>2, <2>4 DEF CounterRows
  <2>7. /\ shelf' = [shelf EXCEPT ![m] = market]
        /\ counterRequest' = [counterRequest EXCEPT ![s] = row]
    BY <1>8, <2>1, <2>4 DEF Queue!SeedMarket
  <2>8. \A k \in MarketIds : shelf'[k] = IF k = m THEN market ELSE shelf[k]
    BY <1>1, <2>7 DEF ShelfType
  <2>9. shelf' \in [MarketIds -> MarketRows]
    BY <1>1, <2>5, <2>7 DEF ShelfType
  <2>10. Busy(row, d) /\ Holds(row, shelf') /\ (row.at \in Middle => row.on = d)
    BY <2>3, <2>5, <2>6, <2>8 DEF Holds, Middle, Busy
  <2>11. d \notin met => InHand(drafts[d], d, shelf', row)
    <3>1. SUFFICES ASSUME d \notin met PROVE InHand(drafts[d], d, shelf', row)
      OBVIOUS
    <3>2. drafts[d].state = "suggested" /\ OnlyMarket(shelf, d, m)
      BY <1>1, <2>1, <2>2, <2>3, <3>1 DEF DraftsInv, Tidy, InHand
    <3>3. OnlyMarket(shelf', d, m)
      BY <2>3, <2>5, <2>8, <3>2 DEF OnlyMarket
    <3> QED BY <2>3, <2>5, <2>6, <2>8, <3>2, <3>3 DEF InHand
  <2>12. \A k \in MarketIds : shelf'[k] # shelf[k] =>
            shelf[k].from \in {d, "none"} /\ shelf'[k].from = d
    BY <2>3, <2>5, <2>8
  <2>13. drafts' = drafts /\ met' = met /\ refilled' = refilled
         /\ drafts \in [Drafts -> DraftRows] /\ met \in SUBSET Drafts
    BY <1>1, <2>2 DEF ShelfType
  <2> QED BY <1>1, <2>1, <2>3, <2>6, <2>7, <2>9, <2>10, <2>11, <2>12, <2>13, InTheMiddle
<1>9. ASSUME NEW s \in Hands, NEW state \in {"approved", "rejected"},
             counterRequest[s].at = (IF state = "approved" THEN "mark" ELSE "refuse"),
             drafts' = [drafts EXCEPT ![counterRequest[s].on].state = state],
             Queue!Leave(s), UNCHANGED <<shelf, met, refilled>>
      PROVE  ShelfType' /\ DraftsInv'
  <2>1. PICK c, d : c = counterRequest[s] /\ d = c.on
    OBVIOUS
  <2>2. /\ c \in CounterRows /\ Holds(c, shelf) /\ d \in Drafts /\ Busy(c, d)
        /\ counterRequest' = [counterRequest EXCEPT ![s] = Queue!AtRest]
    BY <1>1, <1>9, <2>1 DEF Queue!Leave, ShelfType, DraftsInv, Holds, Middle, Busy
  <2>3. PICK row : row = [drafts[d] EXCEPT !.state = state]
    OBVIOUS
  <2>4. row \in DraftRows /\ row.state = state
    BY <1>1, <2>2, <2>3 DEF ShelfType, DraftRows
  <2>5. drafts' = [drafts EXCEPT ![d] = row]
    BY <1>9, <2>1, <2>3
  <2>6. /\ drafts' \in [Drafts -> DraftRows]
        /\ \A e \in Drafts : drafts'[e] = IF e = d THEN row ELSE drafts[e]
    BY <1>1, <2>4, <2>5 DEF ShelfType
  <2>7. d \notin met => AtPeace(row, d, shelf)
    <3>1. SUFFICES ASSUME d \notin met PROVE AtPeace(row, d, shelf)
      OBVIOUS
    <3>2. InHand(drafts[d], d, shelf, c)
      BY <1>1, <2>1, <2>2, <3>1 DEF DraftsInv, Tidy
    <3> QED BY <1>9, <2>1, <2>4, <3>2 DEF InHand, AtPeace, OnlyMarket
  <2>8. shelf' = shelf /\ met' = met /\ refilled' = refilled
        /\ shelf \in [MarketIds -> MarketRows] /\ met \in SUBSET Drafts
    BY <1>1, <1>9 DEF ShelfType
  <2>9. drafts'[d] = row /\ ~Busy(Queue!AtRest, d) /\ Holds(Queue!AtRest, shelf)
        /\ Queue!AtRest.at \notin Middle /\ Queue!AtRest \in CounterRows
    BY <2>2, <2>6, RestIsACounter
  <2> QED BY <1>1, <2>1, <2>2, <2>6, <2>7, <2>8, <2>9, InTheMiddle
<1>10. ASSUME NEW s \in Hands, Queue!Mark(s) PROVE ShelfType' /\ DraftsInv'
  <2>1. /\ "approved" \in {"approved", "rejected"} /\ Queue!Leave(s)
        /\ counterRequest[s].at = "mark" /\ UNCHANGED <<shelf, met, refilled>>
        /\ drafts' = [drafts EXCEPT ![counterRequest[s].on].state = "approved"]
    BY <1>10 DEF Queue!Mark
  <2> QED BY <1>9, <2>1
<1>11. ASSUME NEW s \in Hands, Queue!Refuse(s) PROVE ShelfType' /\ DraftsInv'
  <2>1. /\ "rejected" \in {"approved", "rejected"} /\ Queue!Leave(s)
        /\ counterRequest[s].at = "refuse" /\ UNCHANGED <<shelf, met, refilled>>
        /\ drafts' = [drafts EXCEPT ![counterRequest[s].on].state = "rejected"]
    BY <1>11 DEF Queue!Refuse
  <2> QED BY <1>9, <2>1
<1>12. ASSUME NEW s \in Hands, Queue!Crash(s) PROVE ShelfType' /\ DraftsInv'
  <2>1. PICK d : d = counterRequest[s].on
    OBVIOUS
  <2>2. /\ counterRequest[s].at \in Middle /\ met' = met \cup {d}
        /\ counterRequest' = [counterRequest EXCEPT ![s] = Queue!AtRest]
        /\ drafts' = drafts /\ shelf' = shelf /\ refilled' = refilled
    BY <1>12, <2>1 DEF Queue!Crash, Queue!Leave, Middle
  <2>3. d \in Drafts /\ Busy(counterRequest[s], d)
    BY <1>1, <2>1, <2>2 DEF DraftsInv, Holds, Busy
  <2>4. /\ drafts \in [Drafts -> DraftRows] /\ shelf \in [MarketIds -> MarketRows]
        /\ met' \in SUBSET Drafts /\ met \subseteq met' /\ d \in met'
    BY <1>1, <2>2, <2>3 DEF ShelfType
  <2>5. Holds(Queue!AtRest, shelf) /\ Queue!AtRest.at \notin Middle
        /\ Queue!AtRest \in CounterRows
    BY RestIsACounter
  <2> QED BY <1>1, <2>2, <2>3, <2>4, <2>5, InTheMiddle
<1>13. ASSUME NEW m \in MarketIds, Queue!Close(m) PROVE ShelfType' /\ DraftsInv'
  <2>1. PICK market : market = [shelf[m] EXCEPT !.state = "closed"]
    OBVIOUS
  <2>2. /\ shelf[m].state = "active" /\ shelf' = [shelf EXCEPT ![m] = market]
        /\ UNCHANGED <<drafts, counterRequest, met, refilled>>
    BY <1>13, <2>1 DEF Queue!Close
  <2>3. market \in MarketRows /\ market.state = "closed" /\ market.from = shelf[m].from
    BY <1>1, <2>1 DEF ShelfType, MarketRows
  <2>4. /\ shelf' \in [MarketIds -> MarketRows]
        /\ \A k \in MarketIds : shelf'[k] = IF k = m THEN market ELSE shelf[k]
    BY <1>1, <2>2, <2>3 DEF ShelfType
  <2>5. /\ \A k \in MarketIds : shelf'[k].from = shelf[k].from
        /\ \A k \in MarketIds : shelf[k].state \in {"active", "closed"} =>
                                shelf'[k].state \in {"active", "closed"}
        /\ \A k \in MarketIds : shelf[k].state = "draft" => shelf'[k].state = "draft"
    BY <2>2, <2>3, <2>4
  <2>6. ASSUME NEW d \in Drafts \ met PROVE Tidy(d, drafts[d], shelf', counterRequest)
    <3>1. PICK r, S, T, C : r = drafts[d] /\ S = shelf /\ T = shelf' /\ C = counterRequest
      OBVIOUS
    <3>2. Tidy(d, r, S, C)
      BY <1>1, <3>1 DEF DraftsInv
    <3>3. /\ NoMarketOf(S, d) => NoMarketOf(T, d)
          /\ \A k : OnlyMarket(S, d, k) => OnlyMarket(T, d, k)
      BY <2>5, <3>1 DEF NoMarketOf, OnlyMarket
    <3>4. ASSUME NEW s \in Hands, Busy(C[s], d) PROVE InHand(r, d, T, C[s])
      <4>1. InHand(r, d, S, C[s])
        BY <3>2, <3>4 DEF Tidy
      <4>2. \A k : OnlyMarket(S, d, k) => k \in MarketIds
        BY DEF OnlyMarket
      <4> QED BY <2>5, <3>1, <3>3, <4>1, <4>2 DEF InHand
    <3>5. ASSUME \A s \in Hands : ~Busy(C[s], d) PROVE AtPeace(r, d, T)
      <4>1. AtPeace(r, d, S)
        BY <3>2, <3>5 DEF Tidy
      <4> QED BY <2>5, <3>1, <3>3, <4>1 DEF AtPeace
    <3>6. Tidy(d, r, T, C)
      BY <3>2, <3>4, <3>5 DEF Tidy
    <3> QED BY <3>1, <3>6
  <2>7. \A s \in Hands : Holds(counterRequest[s], shelf')
    BY <1>1, <2>5 DEF DraftsInv, Holds
  <2>8. counterRequest' = counterRequest /\ drafts' = drafts /\ met' = met
    BY <2>2
  <2>9. ShelfType'
    BY <1>1, <2>2, <2>4 DEF ShelfType
  <2> QED BY <2>6, <2>7, <2>8, <2>9 DEF DraftsInv
<1>14. CASE UNCHANGED Queue!vars
  BY <1>1, <1>14 DEF Queue!vars, ShelfType, DraftsInv
<1> QED
  BY <1>1, <1>2, <1>3, <1>4, <1>5, <1>6, <1>7, <1>8, <1>10, <1>11, <1>12, <1>13, <1>14
     DEF Queue!Next

\* A draft the requests have not met on has one market or none.
LEMMA NoneOrOne ==
    ASSUME ShelfType, DraftsInv, NEW d \in Drafts \ met
    PROVE  /\ NoMarketOf(shelf, d) \/ \E m \in MarketIds : OnlyMarket(shelf, d, m)
           /\ drafts[d].state # "suggested" => AtPeace(drafts[d], d, shelf)
<1>1. Tidy(d, drafts[d], shelf, counterRequest)
  BY DEF DraftsInv
<1>2. CASE \E s \in Hands : Busy(counterRequest[s], d)
  <2>1. PICK s \in Hands : Busy(counterRequest[s], d)
    BY <1>2
  <2>2. InHand(drafts[d], d, shelf, counterRequest[s])
    BY <1>1, <2>1 DEF Tidy
  <2> QED BY <2>1, <2>2 DEF InHand, Busy, Middle, OnlyMarket
<1>3. CASE ~\E s \in Hands : Busy(counterRequest[s], d)
  <2>1. AtPeace(drafts[d], d, shelf)
    BY <1>1, <1>3 DEF Tidy
  <2> QED BY <2>1 DEF AtPeace
<1> QED BY <1>2, <1>3

\* The invariant of the drafts gives the first half of ShelfHolds.
LEMMA OneMarketEach == ShelfType /\ DraftsInv => Queue!OneMarketPerDraft
<1>1. SUFFICES ASSUME ShelfType, DraftsInv, NEW d \in Drafts \ met
               PROVE  /\ Queue!Cardinality(Queue!From(d)) <= 1
                      /\ drafts[d].state = "approved" =>
                             \E m \in Queue!From(d) : shelf[m].state # "draft"
                      /\ drafts[d].state = "rejected" => Queue!From(d) = {}
  BY DEF Queue!OneMarketPerDraft
<1>2. /\ NoMarketOf(shelf, d) \/ \E m \in MarketIds : OnlyMarket(shelf, d, m)
      /\ drafts[d].state # "suggested" => AtPeace(drafts[d], d, shelf)
  BY <1>1, NoneOrOne
<1>3. NoMarketOf(shelf, d) => Queue!From(d) = {}
  BY DEF NoMarketOf, Queue!From
<1>4. \A m \in MarketIds : OnlyMarket(shelf, d, m) => Queue!From(d) = {m}
  BY DEF OnlyMarket, Queue!From
<1>5. Cardinality(Queue!From(d)) <= 1
  <2>1. CASE NoMarketOf(shelf, d)
    <3>1. Cardinality(Queue!From(d)) = 0
      BY <1>3, <2>1, FS_EmptySet
    <3> QED BY <3>1
  <2>2. CASE \E m \in MarketIds : OnlyMarket(shelf, d, m)
    <3>1. PICK m \in MarketIds : Queue!From(d) = {m}
      BY <1>4, <2>2
    <3>2. Cardinality({m}) = 1
      BY FS_Singleton
    <3> QED BY <3>1, <3>2
  <2> QED BY <1>2, <2>1, <2>2
<1>6. Queue!Cardinality(Queue!From(d)) <= 1
  BY <1>5 DEF Queue!Cardinality, Cardinality
<1>7. drafts[d].state = "approved" => \E m \in Queue!From(d) : shelf[m].state # "draft"
  BY <1>2, <1>4 DEF AtPeace
<1>8. drafts[d].state = "rejected" => Queue!From(d) = {}
  BY <1>2, <1>3 DEF AtPeace
<1> QED BY <1>6, <1>7, <1>8

----------------------------------------------------------------------------

\* d has a place of the shelf, or may still get one.
Occupies(row, d, S) ==
    /\ row.source = "ai"
    /\ row.state = "suggested"
       \/ \E m \in MarketIds : S[m].from = d /\ S[m].state \in {"draft", "active"}

Occupied(D, S, M) == {d \in Drafts \ M : Occupies(D[d], d, S)}

\* What is occupied and what a cycle may still file fit the shelf, and there is
\* one cycle.
Spare(D, S, C, M) ==
    /\ Cardinality(Occupied(D, S, M)) <= Size
    /\ \A s \in Hands : C[s].at = "generate" =>
           Cardinality(Occupied(D, S, M)) + C[s].places <= Size
    /\ \A s \in Hands, t \in Hands : C[s].at = "generate" /\ C[t].at = "generate" => s = t

RoomInv == refilled \/ Spare(drafts, shelf, counterRequest, met)

\* An injection does not lead into a smaller set.
LEMMA OneToOne ==
    ASSUME NEW S, IsFiniteSet(S), NEW T, IsFiniteSet(T), NEW f \in [S -> T],
           \A x \in S, y \in S : f[x] = f[y] => x = y
    PROVE  Cardinality(S) <= Cardinality(T)
<1>1. Cardinality(S) \in Nat /\ Cardinality(T) \in Nat
  BY FS_CardinalityType
<1>2. ~(Cardinality(T) < Cardinality(S))
  BY FS_PigeonHole
<1> QED BY <1>1, <1>2

\* What is occupied can be counted.
LEMMA OccupiedFinite ==
    ASSUME NEW D, NEW S, NEW M
    PROVE  IsFiniteSet(Occupied(D, S, M)) /\ Cardinality(Occupied(D, S, M)) \in Nat
BY ShelfAssumption, FS_Subset, FS_CardinalityType DEF Occupied

\* Less occupied and no more cycles leave the room they found.
LEMMA SpareShrinks ==
    ASSUME NEW D, NEW S, NEW C, NEW M, NEW E, NEW T, NEW B, NEW N,
           Spare(D, S, C, M), C \in [Hands -> CounterRows],
           Occupied(E, T, N) \subseteq Occupied(D, S, M),
           \A s \in Hands : B[s].at = "generate" => B[s] = C[s]
    PROVE  Spare(E, T, B, N)
<1>1. PICK x, y : x = Occupied(D, S, M) /\ y = Occupied(E, T, N)
  OBVIOUS
<1>2. IsFiniteSet(x) /\ Cardinality(x) \in Nat /\ Cardinality(y) \in Nat /\ y \subseteq x
  BY <1>1, OccupiedFinite
<1>3. Cardinality(y) <= Cardinality(x)
  BY <1>2, FS_Subset
<1>4. \A s \in Hands : C[s].places \in Nat
  BY DEF CounterRows
<1>5. Cardinality(y) <= Size
  BY <1>1, <1>2, <1>3, ShelfAssumption DEF Spare
<1>6. ASSUME NEW s \in Hands, B[s].at = "generate" PROVE Cardinality(y) + B[s].places <= Size
  <2>1. PICK n \in Nat : n = C[s].places /\ n = B[s].places
    BY <1>4, <1>6
  <2>2. Cardinality(x) + n <= Size
    BY <1>1, <1>6, <2>1 DEF Spare
  <2> QED BY <1>2, <1>3, <2>1, <2>2, ShelfAssumption
<1>7. \A s \in Hands, t \in Hands : B[s].at = "generate" /\ B[t].at = "generate" => s = t
  BY DEF Spare
<1> QED BY <1>1, <1>5, <1>6, <1>7 DEF Spare

\* With no suggestion pending and no market being seeded, every place that is
\* occupied is a live market's.
LEMMA OccupiedIsLive ==
    ASSUME ShelfType, DraftsInv, ~Queue!Outstanding
    PROVE  Cardinality(Occupied(drafts, shelf, met)) <= Cardinality(Queue!Live)
<1>1. PICK O, L : O = Occupied(drafts, shelf, met) /\ L = Queue!Live
  OBVIOUS
<1>2. ASSUME NEW d \in O PROVE \E m \in L : shelf[m].from = d
  <2>1. d \in Drafts \ met /\ Occupies(drafts[d], d, shelf)
    BY <1>1, <1>2 DEF Occupied
  <2>2. drafts[d].source = "ai" /\ drafts[d].state # "suggested"
    BY <2>1 DEF Occupies, Queue!Outstanding, Queue!Pending
  <2>3. PICK m \in MarketIds : shelf[m].from = d
    BY <2>1, <2>2 DEF Occupies
  <2>4. shelf[m].state \in {"draft", "active"} /\ AtPeace(drafts[d], d, shelf)
    <3>1. AtPeace(drafts[d], d, shelf)
      BY <2>1, <2>2, NoneOrOne
    <3>2. PICK k \in MarketIds : OnlyMarket(shelf, d, k)
      BY <2>3, <3>1 DEF AtPeace, NoMarketOf
    <3>3. PICK j \in MarketIds : shelf[j].from = d /\ shelf[j].state \in {"draft", "active"}
      BY <2>1, <2>2 DEF Occupies
    <3>4. j = m
      BY <2>3, <3>2, <3>3 DEF OnlyMarket
    <3> QED BY <3>1, <3>3, <3>4
  <2>5. shelf[m].state = "active"
    BY <2>3, <2>4 DEF AtPeace, NoMarketOf, OnlyMarket
  <2>6. m \in L
    BY <1>1, <2>1, <2>2, <2>3, <2>5, ShelfAssumption
       DEF Queue!Live, Queue!Official, Queue!Nothing
  <2> QED BY <2>3, <2>6
<1>3. PICK f : f = [d \in O |-> CHOOSE m \in L : shelf[m].from = d]
  OBVIOUS
<1>4. \A d \in O : f[d] \in L /\ shelf[f[d]].from = d
  BY <1>2, <1>3
<1>5. f \in [O -> L] /\ \A d \in O, e \in O : f[d] = f[e] => d = e
  BY <1>3, <1>4
<1>6. IsFiniteSet(O) /\ IsFiniteSet(L)
  <2>1. L \subseteq MarketIds
    BY <1>1 DEF Queue!Live
  <2> QED BY <1>1, <2>1, OccupiedFinite, ShelfAssumption, FS_Subset
<1> QED BY <1>1, <1>5, <1>6, OneToOne

\* A live market that no two requests met on has a place of its own.
LEMMA LiveIsOccupied ==
    ASSUME ShelfType, DraftsInv, \A m \in Queue!Live : shelf[m].from \notin met
    PROVE  Cardinality(Queue!Live) <= Cardinality(Occupied(drafts, shelf, met))
<1>1. PICK O, L : O = Occupied(drafts, shelf, met) /\ L = Queue!Live
  OBVIOUS
<1>2. PICK f : f = [m \in L |-> shelf[m].from]
  OBVIOUS
<1>3. ASSUME NEW m \in L
      PROVE  /\ m \in MarketIds /\ f[m] \in O /\ f[m] = shelf[m].from
             /\ OnlyMarket(shelf, f[m], m)
  <2>1. PICK d : d = shelf[m].from
    OBVIOUS
  <2>2. /\ m \in MarketIds /\ d # "none" /\ drafts[d].source = "ai"
        /\ shelf[m].state = "active"
    BY <1>1, <1>3, <2>1 DEF Queue!Live, Queue!Official, Queue!Nothing
  <2>3. d \in Drafts \ met
    BY <1>1, <1>3, <2>1, <2>2 DEF ShelfType, MarketRows
  <2>4. d \in O
    BY <1>1, <2>1, <2>2, <2>3 DEF Occupied, Occupies
  <2>5. OnlyMarket(shelf, d, m)
    BY <2>1, <2>2, <2>3, NoneOrOne DEF NoMarketOf, OnlyMarket
  <2> QED BY <1>2, <2>1, <2>2, <2>4, <2>5
<1>4. f \in [L -> O] /\ \A m \in L, k \in L : f[m] = f[k] => m = k
  BY <1>2, <1>3 DEF OnlyMarket
<1>5. IsFiniteSet(O) /\ IsFiniteSet(L)
  <2>1. L \subseteq MarketIds
    BY <1>1 DEF Queue!Live
  <2> QED BY <1>1, <2>1, OccupiedFinite, ShelfAssumption, FS_Subset
<1> QED BY <1>1, <1>4, <1>5, OneToOne

\* The room that is kept gives the second half of ShelfHolds.
LEMMA ShelfFits == ShelfType /\ DraftsInv /\ RoomInv => Queue!ShelfIsABudget
<1>1. SUFFICES ASSUME ShelfType, DraftsInv, RoomInv, ~refilled,
                      \A m \in Queue!Live : shelf[m].from \notin met
               PROVE  ~(Queue!Cardinality(Queue!Live) > Size)
  BY DEF Queue!ShelfIsABudget
<1>2. Cardinality(Queue!Live) <= Cardinality(Occupied(drafts, shelf, met))
  BY <1>1, LiveIsOccupied
<1>3. Cardinality(Occupied(drafts, shelf, met)) <= Size
  BY <1>1 DEF RoomInv, Spare
<1>4. Queue!Live \subseteq MarketIds
  BY DEF Queue!Live
<1>5. Cardinality(Queue!Live) \in Nat /\ Cardinality(Occupied(drafts, shelf, met)) \in Nat
  BY <1>4, OccupiedFinite, ShelfAssumption, FS_Subset, FS_CardinalityType
<1>6. PICK a, b : a = Cardinality(Queue!Live) /\ b = Cardinality(Occupied(drafts, shelf, met))
  OBVIOUS
<1>7. ~(a > Size)
  BY <1>2, <1>3, <1>5, <1>6, ShelfAssumption
<1> QED BY <1>6, <1>7 DEF Queue!Cardinality, Cardinality

\* An empty shelf has room.
LEMMA RoomStarts == Queue!Init => RoomInv
<1>1. SUFFICES ASSUME Queue!Init PROVE Spare(drafts, shelf, counterRequest, met)
  BY DEF RoomInv
<1>2. \A d \in Drafts : drafts[d].source = "none"
  BY <1>1 DEF Queue!Init, Queue!NoDraft, Queue!Nothing
<1>3. Occupied(drafts, shelf, met) = {}
  BY <1>2 DEF Occupied, Occupies
<1>4. Cardinality(Occupied(drafts, shelf, met)) = 0
  BY <1>3, FS_EmptySet
<1>5. \A s \in Hands : counterRequest[s].at = "rest"
  BY <1>1, RestIsACounter DEF Queue!Init
<1> QED BY <1>4, <1>5, ShelfAssumption DEF Spare

\* Only a cycle and its proposals take places.
LEMMA RoomShrinks ==
    ASSUME ShelfType, RoomInv, refilled' = refilled, met \subseteq met',
           \A d \in Drafts \ met' :
               Occupies(drafts'[d], d, shelf') => Occupies(drafts[d], d, shelf),
           \A s \in Hands : counterRequest'[s].at = "generate" =>
                            counterRequest'[s] = counterRequest[s]
    PROVE  RoomInv'
<1>1. SUFFICES ASSUME ~refilled PROVE Spare(drafts', shelf', counterRequest', met')
  BY DEF RoomInv
<1>2. PICK E, T, B, N : E = drafts' /\ T = shelf' /\ B = counterRequest' /\ N = met'
  OBVIOUS
<1>3. Occupied(E, T, N) \subseteq Occupied(drafts, shelf, met)
  BY <1>2 DEF Occupied
<1>4. counterRequest \in [Hands -> CounterRows]
  BY DEF ShelfType
<1>5. Spare(drafts, shelf, counterRequest, met)
  BY <1>1 DEF RoomInv
<1>6. \A s \in Hands : B[s].at = "generate" => B[s] = counterRequest[s]
  BY <1>2
<1>7. Spare(E, T, B, N)
  BY <1>3, <1>4, <1>5, <1>6, SpareShrinks
<1> QED BY <1>2, <1>7

\* The row of a request that leaves, or that is put elsewhere than in a cycle.
LEMMA OutOfTheCycle ==
    ASSUME ShelfType, NEW s \in Hands, NEW row, row.at # "generate",
           counterRequest' = [counterRequest EXCEPT ![s] = row]
    PROVE  \A t \in Hands : counterRequest'[t].at = "generate" =>
                            counterRequest'[t] = counterRequest[t]
BY DEF ShelfType

\* A cycle promises only the places it saw free; nothing else takes one.
LEMMA RoomKeeps ==
    ShelfType /\ DraftsInv /\ RoomInv /\ [Queue!Next]_(Queue!vars) => RoomInv'
<1>1. SUFFICES ASSUME ShelfType, DraftsInv, RoomInv, [Queue!Next]_(Queue!vars) PROVE RoomInv'
  OBVIOUS
<1>2. ASSUME NEW s \in Hands, Queue!Generate(s) PROVE RoomInv'
  <2>1. SUFFICES ASSUME ~refilled' PROVE Spare(drafts', shelf', counterRequest', met')
    BY DEF RoomInv
  <2>2. /\ ~refilled /\ ~Queue!Outstanding /\ UNCHANGED <<drafts, shelf, met>>
        /\ counterRequest' = [counterRequest EXCEPT ![s] = [Queue!AtRest EXCEPT
              !.at = "generate", !.live = Queue!TopicsOf(Queue!Live), !.places = Queue!FreePlaces]]
    BY <1>2, <2>1 DEF Queue!Generate
  <2>3. PICK row, places : /\ places = Queue!FreePlaces
                           /\ row = [Queue!AtRest EXCEPT !.at = "generate",
                                 !.live = Queue!TopicsOf(Queue!Live), !.places = places]
    OBVIOUS
  <2>4. row.places = places
    BY <2>3 DEF Queue!AtRest
  <2>5. \A t \in Hands : counterRequest'[t] = IF t = s THEN row ELSE counterRequest[t]
    BY <1>1, <2>2, <2>3 DEF ShelfType
  <2>6. \A t \in Hands : counterRequest[t].at # "generate"
    BY <2>2 DEF Queue!Outstanding
  <2>7. Spare(drafts, shelf, counterRequest, met)
    BY <1>1, <2>2 DEF RoomInv
  <2>8. PICK x, n : x = Cardinality(Occupied(drafts, shelf, met)) /\ n = Cardinality(Queue!Live)
    OBVIOUS
  <2>9. x \in Nat /\ n \in Nat /\ x <= n /\ x <= Size
    <3>1. Queue!Live \subseteq MarketIds
      BY DEF Queue!Live
    <3>2. x \in Nat /\ n \in Nat
      BY <2>8, <3>1, OccupiedFinite, ShelfAssumption, FS_Subset, FS_CardinalityType
    <3> QED BY <1>1, <2>2, <2>7, <2>8, <3>2, OccupiedIsLive DEF Spare
  <2>10. places = IF Size > n THEN Size - n ELSE 0
    <3>1. Queue!Cardinality(Queue!Live) = n
      BY <2>8 DEF Queue!Cardinality, Cardinality
    <3> QED BY <2>3, <3>1 DEF Queue!FreePlaces
  <2>11. x + places <= Size
    BY <2>9, <2>10, ShelfAssumption
  <2>12. Occupied(drafts', shelf', met') = Occupied(drafts, shelf, met)
    BY <2>2
  <2> QED BY <2>4, <2>5, <2>6, <2>8, <2>9, <2>11, <2>12 DEF Spare
<1>3. ASSUME NEW s \in Hands, NEW topic \in Topics, NEW sound \in BOOLEAN,
             Queue!FileProposal(s, topic, sound)
      PROVE  RoomInv'
  <2>1. SUFFICES ASSUME ~refilled' PROVE Spare(drafts', shelf', counterRequest', met')
    BY DEF RoomInv
  <2>2. PICK e, c : /\ e = Queue!Fresh(drafts, Queue!NoDraft)
                    /\ c = [counterRequest[s] EXCEPT !.places = @ - 1]
    OBVIOUS
  <2>3. /\ counterRequest[s].at = "generate" /\ counterRequest[s].places > 0
        /\ counterRequest' = [counterRequest EXCEPT ![s] = c]
        /\ \A d \in Drafts : d # e => drafts'[d] = drafts[d]
        /\ UNCHANGED <<shelf, met>> /\ ~refilled
    BY <1>1, <1>3, <2>1, <2>2 DEF Queue!FileProposal, ShelfType
  <2>4. PICK n : n = counterRequest[s].places /\ n \in Nat
    BY <1>1 DEF ShelfType, CounterRows
  <2>5. c.at = "generate" /\ c.places = n - 1
    BY <1>1, <2>2, <2>3, <2>4 DEF ShelfType, CounterRows
  <2>6. \A t \in Hands : counterRequest'[t] = IF t = s THEN c ELSE counterRequest[t]
    BY <1>1, <2>3 DEF ShelfType
  <2>7. Spare(drafts, shelf, counterRequest, met)
    BY <1>1, <2>3 DEF RoomInv
  <2>8. \A t \in Hands : counterRequest[t].at = "generate" => t = s
    BY <2>3, <2>7 DEF Spare
  <2>9. PICK O, P : /\ O = Occupied(drafts, shelf, met)
                    /\ P = Occupied(drafts', shelf', met')
    OBVIOUS
  <2>10. P \subseteq O \cup {e}
    BY <2>3, <2>9 DEF Occupied
  <2>11. Cardinality(P) <= Cardinality(O) + 1
    <3>1. IsFiniteSet(O) /\ Cardinality(O) \in Nat
      BY <2>9, OccupiedFinite
    <3>2. IsFiniteSet(O \cup {e}) /\ Cardinality(O \cup {e}) <= Cardinality(O) + 1
      <4>1. /\ IsFiniteSet(O \cup {e})
            /\ Cardinality(O \cup {e}) = Cardinality(O) \/ Cardinality(O \cup {e}) = Cardinality(O) + 1
        BY <3>1, FS_AddElement
      <4> QED BY <3>1, <4>1
    <3>3. Cardinality(P) <= Cardinality(O \cup {e})
      BY <2>10, <3>2, FS_Subset
    <3>4. Cardinality(P) \in Nat /\ Cardinality(O \cup {e}) \in Nat
      BY <2>10, <3>2, FS_Subset, FS_CardinalityType
    <3> QED BY <3>1, <3>2, <3>3, <3>4
  <2>12. PICK x, y : x = Cardinality(O) /\ y = Cardinality(P)
    OBVIOUS
  <2>13. x \in Nat /\ y \in Nat /\ y <= x + 1 /\ x + n <= Size
    <3>1. x \in Nat
      BY <2>9, <2>12, OccupiedFinite
    <3>2. P \subseteq Drafts
      BY <2>9 DEF Occupied
    <3>3. y \in Nat
      BY <2>12, <3>2, ShelfAssumption, FS_Subset, FS_CardinalityType
    <3> QED BY <2>3, <2>4, <2>7, <2>9, <2>11, <2>12, <3>1, <3>3 DEF Spare
  <2>14. n > 0
    BY <2>3, <2>4
  <2>15. y <= Size /\ y + (n - 1) <= Size
    BY <2>4, <2>13, <2>14, ShelfAssumption
  <2>16. \A t \in Hands : counterRequest'[t].at = "generate" => t = s
    BY <2>6, <2>8
  <2>17. counterRequest'[s].places = n - 1
    BY <2>5, <2>6
  <2> QED BY <2>9, <2>12, <2>15, <2>16, <2>17 DEF Spare
<1>4. ASSUME NEW topic \in Topics, NEW sound \in BOOLEAN, Queue!Submit(topic, sound)
      PROVE  RoomInv'
  <2>1. PICK e : e = Queue!Fresh(drafts, Queue!NoDraft)
    OBVIOUS
  <2>2. /\ UNCHANGED <<shelf, counterRequest, met, refilled>>
        /\ \A d \in Drafts : d # e => drafts'[d] = drafts[d]
        /\ e \in Drafts => drafts'[e].source = "community"
    BY <1>1, <1>4, <2>1 DEF Queue!Submit, ShelfType
  <2>3. \A d \in Drafts \ met' :
           Occupies(drafts'[d], d, shelf') => Occupies(drafts[d], d, shelf)
    BY <2>2 DEF Occupies
  <2> QED BY <1>1, <2>2, <2>3, RoomShrinks
<1>5. ASSUME NEW s \in Hands, Queue!EndCycle(s) PROVE RoomInv'
  <2>1. /\ UNCHANGED <<drafts, shelf, met, refilled>>
        /\ counterRequest' = [counterRequest EXCEPT ![s] = Queue!AtRest]
    BY <1>5 DEF Queue!EndCycle, Queue!Leave
  <2>2. \A t \in Hands : counterRequest'[t].at = "generate" =>
                         counterRequest'[t] = counterRequest[t]
    BY <1>1, <2>1, RestIsACounter, OutOfTheCycle
  <2> QED BY <1>1, <2>1, <2>2, RoomShrinks
<1>6. ASSUME NEW s \in Hands, NEW d \in Drafts, NEW what \in {"create", "refuse"},
             Queue!Read(s, d, what)
      PROVE  RoomInv'
  <2>1. /\ UNCHANGED <<drafts, shelf, refilled>> /\ met \subseteq met'
        /\ counterRequest' = [counterRequest EXCEPT ![s] =
               [Queue!AtRest EXCEPT !.at = what, !.on = d]]
    BY <1>6 DEF Queue!Read
  <2>2. PICK row : row = [Queue!AtRest EXCEPT !.at = what, !.on = d]
    OBVIOUS
  <2>3. row.at # "generate"
    BY <2>2 DEF Queue!AtRest
  <2>4. \A t \in Hands : counterRequest'[t].at = "generate" =>
                         counterRequest'[t] = counterRequest[t]
    BY <1>1, <2>1, <2>2, <2>3, OutOfTheCycle
  <2> QED BY <1>1, <2>1, <2>4, RoomShrinks
<1>7. ASSUME NEW s \in Hands, Queue!CreateMarket(s) PROVE RoomInv'
  <2>1. PICK c, d, m : /\ c = counterRequest[s] /\ d = c.on
                       /\ m = Queue!Fresh(shelf, Queue!NoMarket)
    OBVIOUS
  <2>2. /\ c \in CounterRows /\ c.at = "create" /\ Holds(c, shelf)
        /\ UNCHANGED <<drafts, met, refilled>>
        /\ \A k \in MarketIds : k # m => shelf'[k] = shelf[k]
        /\ m \in MarketIds => shelf'[m].from = d
    BY <1>1, <1>7, <2>1 DEF Queue!CreateMarket, ShelfType, DraftsInv
  <2>3. d \in Drafts /\ Busy(c, d)
    BY <2>1, <2>2 DEF Holds, Busy, Middle
  <2>4. d \notin met => drafts[d].state = "suggested"
    BY <1>1, <2>1, <2>2, <2>3 DEF DraftsInv, Tidy, InHand
  <2>5. \A e \in Drafts \ met' :
           Occupies(drafts'[e], e, shelf') => Occupies(drafts[e], e, shelf)
    BY <2>2, <2>4 DEF Occupies
  <2>6. \A t \in Hands : counterRequest'[t].at = "generate" =>
                         counterRequest'[t] = counterRequest[t]
    <3>1. PICK row : row = [c EXCEPT !.at = IF drafts[d].source = "ai" THEN "seed" ELSE "mark",
                                     !.opened = m]
      OBVIOUS
    <3>2. counterRequest' = [counterRequest EXCEPT ![s] = row]
      <4>1. counterRequest' = [counterRequest EXCEPT
               ![s].at = IF drafts[d].source = "ai" THEN "seed" ELSE "mark", ![s].opened = m]
        BY <1>7, <2>1 DEF Queue!CreateMarket
      <4> QED BY <1>1, <2>1, <3>1, <4>1 DEF ShelfType
    <3>3. row.at # "generate"
      BY <2>2, <3>1 DEF CounterRows
    <3> QED BY <1>1, <3>2, <3>3, OutOfTheCycle
  <2>7. met \subseteq met'
    BY <2>2
  <2> QED BY <1>1, <2>2, <2>5, <2>6, <2>7, RoomShrinks
<1>8. ASSUME NEW s \in Hands, Queue!SeedMarket(s) PROVE RoomInv'
  <2>1. PICK c, d, m : c = counterRequest[s] /\ d = c.on /\ m = c.opened
    OBVIOUS
  <2>2. /\ c \in CounterRows /\ c.at = "seed" /\ Holds(c, shelf)
        /\ UNCHANGED <<drafts, met, refilled>>
        /\ shelf' = [shelf EXCEPT ![m].state = "active"]
        /\ counterRequest' = [counterRequest EXCEPT ![s].at = "mark"]
    BY <1>1, <1>8, <2>1 DEF Queue!SeedMarket, ShelfType, DraftsInv
  <2>3. d \in Drafts /\ Busy(c, d) /\ m \in MarketIds /\ shelf[m].from = d
        /\ \A k \in MarketIds : shelf[k] \in MarketRows
    BY <1>1, <2>1, <2>2 DEF Holds, Busy, Middle, ShelfType
  <2>4. /\ \A k \in MarketIds : k # m => shelf'[k] = shelf[k]
        /\ shelf'[m].from = d
    BY <1>1, <2>2, <2>3 DEF ShelfType, MarketRows
  <2>5. d \notin met => drafts[d].state = "suggested"
    BY <1>1, <2>1, <2>2, <2>3 DEF DraftsInv, Tidy, InHand
  <2>6. \A e \in Drafts \ met' :
           Occupies(drafts'[e], e, shelf') => Occupies(drafts[e], e, shelf)
    BY <2>2, <2>4, <2>5 DEF Occupies
  <2>7. \A t \in Hands : counterRequest'[t].at = "generate" =>
                         counterRequest'[t] = counterRequest[t]
    <3>1. PICK row : row = [c EXCEPT !.at = "mark"]
      OBVIOUS
    <3>2. counterRequest' = [counterRequest EXCEPT ![s] = row] /\ row.at # "generate"
      BY <2>1, <2>2, <3>1 DEF CounterRows
    <3> QED BY <1>1, <3>2, OutOfTheCycle
  <2>8. met \subseteq met'
    BY <2>2
  <2> QED BY <1>1, <2>2, <2>6, <2>7, <2>8, RoomShrinks
<1>9. ASSUME NEW s \in Hands, NEW state \in {"approved", "rejected"},
             drafts' = [drafts EXCEPT ![counterRequest[s].on].state = state],
             Queue!Leave(s), UNCHANGED <<shelf, met, refilled>>
      PROVE  RoomInv'
  <2>1. PICK d : d = counterRequest[s].on
    OBVIOUS
  <2>2. \A e \in Drafts : drafts'[e].source = drafts[e].source
                          /\ (drafts'[e].state = "suggested" => drafts[e].state = "suggested")
    BY <1>1, <1>9 DEF ShelfType, DraftRows
  <2>3. \A e \in Drafts \ met' :
           Occupies(drafts'[e], e, shelf') => Occupies(drafts[e], e, shelf)
    BY <1>9, <2>2 DEF Occupies
  <2>4. \A t \in Hands : counterRequest'[t].at = "generate" =>
                         counterRequest'[t] = counterRequest[t]
    BY <1>1, <1>9, RestIsACounter, OutOfTheCycle DEF Queue!Leave
  <2>5. met \subseteq met' /\ refilled' = refilled
    BY <1>9
  <2> QED BY <1>1, <2>3, <2>4, <2>5, RoomShrinks
<1>10. ASSUME NEW s \in Hands, Queue!Mark(s) PROVE RoomInv'
  BY <1>9, <1>10 DEF Queue!Mark
<1>11. ASSUME NEW s \in Hands, Queue!Refuse(s) PROVE RoomInv'
  BY <1>9, <1>11 DEF Queue!Refuse
<1>12. ASSUME NEW s \in Hands, Queue!Crash(s) PROVE RoomInv'
  <2>1. /\ UNCHANGED <<drafts, shelf, refilled>> /\ met \subseteq met'
        /\ counterRequest' = [counterRequest EXCEPT ![s] = Queue!AtRest]
    BY <1>12 DEF Queue!Crash, Queue!Leave
  <2>2. \A t \in Hands : counterRequest'[t].at = "generate" =>
                         counterRequest'[t] = counterRequest[t]
    BY <1>1, <2>1, RestIsACounter, OutOfTheCycle
  <2> QED BY <1>1, <2>1, <2>2, RoomShrinks
<1>13. ASSUME NEW m \in MarketIds, Queue!Close(m) PROVE RoomInv'
  <2>1. /\ UNCHANGED <<drafts, counterRequest, met, refilled>>
        /\ shelf' = [shelf EXCEPT ![m].state = "closed"]
    BY <1>13 DEF Queue!Close
  <2>2. /\ \A k \in MarketIds : k # m => shelf'[k] = shelf[k]
        /\ shelf'[m].state = "closed"
    BY <1>1, <2>1 DEF ShelfType, MarketRows
  <2>3. \A e \in Drafts \ met' :
           Occupies(drafts'[e], e, shelf') => Occupies(drafts[e], e, shelf)
    BY <2>1, <2>2 DEF Occupies
  <2> QED BY <1>1, <2>1, <2>3, RoomShrinks
<1>14. CASE UNCHANGED Queue!vars
  BY <1>1, <1>14 DEF Queue!vars, RoomInv
<1> QED
  BY <1>1, <1>2, <1>3, <1>4, <1>5, <1>6, <1>7, <1>8, <1>10, <1>11, <1>12, <1>13, <1>14
     DEF Queue!Next

\* ShelfHolds (Shelf, openFromDraft and freeSlots): a draft the requests did not
\* meet on becomes one market or none, and no more official questions are live
\* than the shelf has places unless a cycle began over pending suggestions.
THEOREM TheShelfHolds == Spec => []ShelfHolds
<1> DEFINE Inv == ShelfType /\ DraftsInv /\ RoomInv
<1>1. Inv => ShelfHolds
  BY OneMarketEach, ShelfFits DEF ShelfHolds, Queue!ShelfHolds
<1>2. Init => Inv
  BY ShelfStarts, RoomStarts DEF Init
<1>3. Inv /\ [Next]_vars => Inv'
  BY ShelfKeeps, RoomKeeps, QueueStep
<1> QED BY <1>1, <1>2, <1>3, PTL DEF Spec
=============================================================================
