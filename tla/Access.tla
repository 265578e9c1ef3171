------------------------------- MODULE Access -------------------------------
(***************************************************************************)
(* Which staff screen answers whom: one member of staff, the role in their *)
(* row and the role their token was signed with, the guards in front of    *)
(* each route, and the checks a service makes behind them.  What a handler *)
(* goes on to do is in the module of its service.                          *)
(***************************************************************************)
EXTENDS Integers, FiniteSets

CONSTANTS
    Tokens,         \* bound on the logins
    MaxMoves        \* bound on the changes of role

VARIABLES
    role,           \* users.role
    token,          \* token[t]: the role t was signed with, or a state of its own
    enrolled,       \* two-factor is confirmed
    moves,
    done,           \* history: duties of Separated carried out
    held            \* history: roles the person has had

vars == <<role, token, enrolled, moves, done, held>>

StaffRoles == {"support", "resolver", "trust_safety", "finance", "admin"}

MoneyRoles == {"finance", "admin"}

Roles == StaffRoles \cup {"user"}

\* The duties the roles are there to keep apart, and what they may be kept from
\* seeing: the entries, the sums over them, and one account's two balances.
Separated == {"settle", "approve money", "answer ticket",
              "read ledger", "read sums", "read account", "run audit"}

---------------------------------------------------------------------------
\* The matrix: a route's duty and the roles its decorator names.

Route(duty, roles) == [duty |-> duty, roles |-> roles]

\* The dashboard: liabilities, fund classes, escrow, fees and the last difference
\* found.  Reserves, ledger, reconciliation.
BookScreens == {Route("read sums", StaffRoles), Route("read ledger", MoneyRoles)}

\* List, propose, approve and reject are open to all staff.
ApprovalDesk == {Route("propose action", StaffRoles), Route("approve money", StaffRoles),
                 Route("approve other", StaffRoles), Route("reject", StaffRoles)}

\* Queue, propose, finalize, decide.
ResolutionDesk == {Route("propose result", {"resolver", "admin"}),
                   Route("settle", {"resolver", "admin"})}

\* List and reject; generate and open; open one that a creator handed in.
DraftDesk == {Route("review drafts", {"resolver", "admin"}), Route("open draft", {"admin"}),
              Route("open creator draft", {"resolver", "admin"})}

\* Tickets, and one account's page.
SupportDesk == {Route("answer ticket", {"support", "trust_safety", "admin"}),
                Route("read account", {"trust_safety", "finance", "admin"})}

\* The abuse queue, held comments, and the audit on demand.
SafetyDesk == {Route("decide flag", {"trust_safety", "admin"}),
               Route("restore comment", {"trust_safety", "admin"}),
               Route("run audit", {"finance", "admin", "trust_safety"})}

PrizeDesk == {Route("preview prizes", {"admin", "finance", "support"}),
              Route("draft prizes", MoneyRoles),
              Route("read analytics", {"admin", "finance", "support"})}

\* The creators' own route takes a result from any of the staff.
OpenRoutes == {Route("propose result", {}), Route("open incident", {"admin"})}

Routes == UNION {BookScreens, ApprovalDesk, ResolutionDesk, DraftDesk,
                 SupportDesk, SafetyDesk, PrizeDesk, OpenRoutes}

---------------------------------------------------------------------------

Init ==
    /\ role \in Roles
    /\ token = [t \in Tokens |-> "unused"]
    /\ enrolled = FALSE
    /\ moves = 0
    /\ done = {}
    /\ held = {role}

\* login signs the role of the row into the token.
Login(t) ==
    /\ token[t] = "unused"
    /\ token' = [token EXCEPT ![t] = role]
    /\ UNCHANGED <<role, enrolled, moves, done, held>>

\* logout, or the account's cutoff: JwtGuard refuses the token from then on.
End(t) ==
    /\ token[t] \in Roles
    /\ token' = [token EXCEPT ![t] = "ended"]
    /\ UNCHANGED <<role, enrolled, moves, done, held>>

Enrol ==
    /\ ~enrolled
    /\ role \in StaffRoles
    /\ enrolled' = TRUE
    /\ UNCHANGED <<role, token, moves, done, held>>

\* No route changes a role: it is done on the row, and no token is ended.
ChangeRole(r) ==
    /\ r # role
    /\ moves < MaxMoves
    /\ moves' = moves + 1
    /\ role' = r
    /\ held' = held \cup {r}
    /\ UNCHANGED <<token, enrolled, done>>

\* RolesGuard: a route that names no roles is open to whoever is signed in.
Guarded(route, as) == route.roles = {} \/ as \in route.roles

\* A mutant that leaves it to the route.
AsksNothing(duty, as) == TRUE

\* What the service behind the route asks of the role it is handed: approvals
\* a second factor, and a money role where the action moves money;
\* resolutions somebody of the staff.
Asked(duty, as) ==
    CASE duty = "approve money" -> enrolled /\ as \in MoneyRoles
      [] duty = "approve other" -> enrolled
      [] duty = "propose result" -> as \in StaffRoles
      [] OTHER -> TRUE

Call(t, route) ==
    /\ token[t] \in Roles
    /\ Guarded(route, token[t])
    /\ Asked(route.duty, token[t])
    /\ done' = done \cup ({route.duty} \cap Separated)
    /\ UNCHANGED <<role, token, enrolled, moves, held>>

Next ==
    \/ \E t \in Tokens :
          \/ Login(t) \/ End(t)
          \/ \E route \in Routes : Call(t, route)
    \/ Enrol
    \/ \E r \in Roles : ChangeRole(r)

Spec == Init /\ [][Next]_vars

---------------------------------------------------------------------------

OneRole == Cardinality(held) = 1 /\ "admin" \notin held

\* Nobody but an admin, or who has worked in two roles, settles markets or
\* answers tickets and also moves money or reads the ledger's entries, does both
\* of the first two, or settles and looks at one account's balances, whichever of
\* the routes they come by (RolesGuard, ApprovalsService.approve: "resolvers can
\* resolve but not adjust balances").  The sums on the dashboard are everybody's,
\* and who answers tickets in trust_safety's role sees balances too: see below.
DutiesApart ==
    OneRole =>
        /\ done \cap {"settle", "answer ticket"} # {} =>
               done \cap {"approve money", "read ledger"} = {}
        /\ "settle" \in done => done \cap {"answer ticket", "read account", "run audit"} = {}

\* What the guard's comment says, of every screen that shows figures of the
\* ledger: "Support staff can read tickets but not the ledger" (roles.guard.ts).
TicketsNotLedger ==
    OneRole /\ "answer ticket" \in done =>
        done \cap {"read ledger", "read sums", "read account", "run audit"} = {}
=============================================================================
