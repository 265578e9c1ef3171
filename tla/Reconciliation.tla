--------------------------- MODULE Reconciliation ---------------------------
(***************************************************************************)
(* The nightly run that derives every balance from the ledger, compares it *)
(* with the wallets and freezes withdrawals when they differ, beside the   *)
(* postings that go on meanwhile and the changes people make to the same   *)
(* key.  The run reads the ledger and the wallets in two statements.       *)
(***************************************************************************)
EXTENDS PlatformConfig, FiniteSetsExt

CONSTANTS
    Accounts,       \* users and house accounts with a wallet
    MaxPosts,       \* bound on the postings
    MaxRecons       \* bound on the runs

VARIABLES
    ledger,         \* ledger[a]: the sum of a's entries
    wallet,         \* wallet[a]: the cached balance
    posts,          \* postings made
    recon           \* the run under way

vars == <<configVars, ledger, wallet, posts, recon>>

\* "moved": a posting was committed between the run's two reads; "drifted":
\* some wallet was off when the run began.
NoRecon == [at |-> "rest", done |-> 0, sums |-> [a \in Accounts |-> 0],
            verdict |-> "none", current |-> 0, moved |-> FALSE, drifted |-> FALSE]

Init ==
    /\ ConfigInit
    /\ ledger = [a \in Accounts |-> 0]
    /\ wallet = ledger
    /\ posts = 0
    /\ recon = NoRecon

Drift == {a \in Accounts : wallet[a] # ledger[a]}

\* LedgerService.post: the entries and the wallets they imply, in one commit.
Post(a, b) ==
    /\ posts < MaxPosts
    /\ a # b
    /\ ledger' = [ledger EXCEPT ![a] = @ - 1, ![b] = @ + 1]
    /\ wallet' = [wallet EXCEPT ![a] = @ - 1, ![b] = @ + 1]
    /\ posts' = posts + 1
    /\ recon' = [recon EXCEPT !.moved = @ \/ recon.at = "wallets"]
    /\ UNCHANGED configVars

\* What the run exists to catch: a balance edited without an entry.
Tamper(a) ==
    /\ Drift = {}
    /\ wallet' = [wallet EXCEPT ![a] = @ + 1]
    /\ UNCHANGED <<configVars, ledger, posts, recon>>

ReadLedger ==
    /\ recon.at = "rest"
    /\ recon.done < MaxRecons
    /\ recon' = [recon EXCEPT !.at = "wallets", !.sums = ledger, !.moved = FALSE,
                              !.drifted = Drift # {}, !.verdict = "none"]
    /\ UNCHANGED <<configVars, ledger, wallet, posts>>

Total(f) == MapThenSumSet(LAMBDA a : f[a], Accounts)

\* Tolerance zero: any account that differs, or any difference of the totals.
Clean == recon.sums = wallet /\ Total(recon.sums) = Total(wallet)

ReadWallets ==
    /\ recon.at = "wallets"
    /\ recon' = IF Clean
                THEN [recon EXCEPT !.at = "rest", !.done = @ + 1, !.verdict = "clean"]
                ELSE [recon EXCEPT !.at = "exception", !.verdict = "exception"]
    /\ UNCHANGED <<configVars, ledger, wallet, posts>>

Finish == recon' = [recon EXCEPT !.at = "rest", !.done = @ + 1]

\* freezeWithdrawals reads the active row outside its transaction.
FreezeRead ==
    /\ recon.at = "exception"
    /\ \E v \in Active :
          IF rows[v].value = TRUE THEN Finish
          ELSE recon' = [recon EXCEPT !.at = "freeze", !.current = v]
    /\ UNCHANGED <<configVars, ledger, wallet, posts>>

\* The row read is superseded and its successor's number taken, active at
\* once.  A version with that number, or another active row, breaks a unique
\* key: the transaction rolls back and the run ends in an error.
FreezeWrite ==
    LET v == recon.current
    IN /\ recon.at = "freeze"
       /\ rows' = IF v + 1 \in Versions \/ Active # {v} THEN rows
                  ELSE Append([rows EXCEPT ![v].state = "superseded"],
                              [value |-> TRUE, state |-> "active"])
       /\ due' = IF rows' = rows THEN due ELSE due \cup {v + 1}
       /\ Finish
       /\ UNCHANGED <<process, ledger, wallet, posts>>

Staff ==
    /\ \/ \E value \in Values : Change(value)
       \/ \E v \in Versions : EffectiveDate(v)
    /\ UNCHANGED <<ledger, wallet, posts, recon>>

Serve(p) == Refresh(p) /\ UNCHANGED <<ledger, wallet, posts, recon>>

Next ==
    \/ Staff
    \/ \E p \in Processes : Serve(p)
    \/ \E a, b \in Accounts : Post(a, b)
    \/ \E a \in Accounts : Tamper(a)
    \/ ReadLedger \/ ReadWallets \/ FreezeRead \/ FreezeWrite

\* A process that is asked for a value refreshes what is stale.
Fairness == \A p \in Processes : WF_vars(Serve(p))

Spec == Init /\ [][Next]_vars /\ Fairness

---------------------------------------------------------------------------

\* A run that passed found no wallet off when it began, and an exception is a
\* wallet that was, or a posting between its two reads (ReconciliationService:
\* "tolerance zero").
VerdictIsRight ==
    /\ recon.verdict = "clean" => ~recon.drifted
    /\ recon.verdict = "exception" => recon.drifted \/ recon.moved \/ Drift # {}

\* An approved change whose date has come does not stay pending, and every
\* process ends up serving the active row (PlatformConfigService.get).
ChangesArrive ==
    /\ \A v \in 1 .. MaxVersions : (v \in Versions /\ v \in Pending \cap due) ~> v \notin Pending
    /\ \A p \in Processes : <>[](\A v \in Active : process[p].cache = rows[v].value)
=============================================================================
