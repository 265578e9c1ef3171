--------------------------- MODULE PlatformConfig ---------------------------
(***************************************************************************)
(* One key of platform_config: its versions, the approved changes that     *)
(* wait for their effective date, and the processes that promote them and  *)
(* serve a cached value.  A refresh is several statements: it lists the    *)
(* changes that are due, promotes them one transaction at a time, and then *)
(* loads the active row.                                                   *)
(***************************************************************************)
EXTENDS Integers, Sequences

CONSTANTS
    Values,         \* what the key may hold
    Initial,        \* the seeded value, version 1
    Processes,      \* API and worker processes, each with a cache
    MaxVersions     \* bound on the versions of the key

VARIABLES
    rows,           \* rows[v]: version v; the primary key is (key, version)
    due,            \* versions whose effective date has come
    process         \* process[p]: where its refresh is, what it serves

configVars == <<rows, due, process>>

ConfigInit ==
    /\ rows = << [value |-> Initial, state |-> "active"] >>
    /\ due = {1}
    /\ process = [p \in Processes |-> [at |-> "serving", list |-> {}, cache |-> Initial]]

Versions == DOMAIN rows

Active == {v \in Versions : rows[v].state = "active"}

Pending == {v \in Versions : rows[v].state = "pending"}

\* An approved config.change: the next version, pending until its date.
Change(value) ==
    /\ Len(rows) < MaxVersions
    /\ rows' = Append(rows, [value |-> value, state |-> "pending"])
    /\ UNCHANGED <<due, process>>

\* The clock: every change waits the same delay, so dates come in order.
EffectiveDate(v) ==
    /\ v \in Pending \ due
    /\ \A w \in Pending \ due : v <= w
    /\ due' = due \cup {v}
    /\ UNCHANGED <<rows, process>>

\* A mutant that goes for the newest only.
NewestDue == {v \in Pending \cap due : v = Len(rows)}

DueList == Pending \cap due

\* get() with a cache older than its time to live: list what is due.
RefreshStart(p) ==
    /\ process[p].at = "serving"
    /\ process' = [process EXCEPT ![p].at = "promoting", ![p].list = DueList]
    /\ UNCHANGED <<rows, due>>

\* Whatever is active is superseded, and the listed version becomes active,
\* whatever has become of it since it was listed.
Promote(rs, v) == [w \in DOMAIN rs |->
    IF w = v THEN [rs[w] EXCEPT !.state = "active"]
    ELSE IF rs[w].state = "active" THEN [rs[w] EXCEPT !.state = "superseded"]
    ELSE rs[w]]

\* In the order of their versions.
ActivateDue(p) ==
    /\ process[p].at = "promoting"
    /\ \E v \in process[p].list :
          /\ \A w \in process[p].list : v <= w
          /\ rows' = Promote(rows, v)
          /\ process' = [process EXCEPT ![p].list = @ \ {v}]
    /\ UNCHANGED due

Load(p) ==
    /\ process[p].at = "promoting"
    /\ process[p].list = {}
    /\ \E v \in Active : process' = [process EXCEPT ![p].at = "serving", ![p].cache = rows[v].value]
    /\ UNCHANGED <<rows, due>>

Refresh(p) == RefreshStart(p) \/ ActivateDue(p) \/ Load(p)

---------------------------------------------------------------------------

\* However many processes promote at once, one version is active, and no
\* process serves a change whose date has not come (activateDue: "after a
\* visible delay", "and never retroactively").
ServedIsDue ==
    /\ \E v \in due : Active = {v}
    /\ \A p \in Processes : \E v \in due : process[p].cache = rows[v].value
=============================================================================
