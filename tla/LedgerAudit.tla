---------------------------- MODULE LedgerAudit ----------------------------
(***************************************************************************)
(* The daily audit of the platform's own rows for one market, and the      *)
(* incident it opens on the status page.  The market's services commit     *)
(* whole; the audit reads the tables one query after another, in no        *)
(* transaction, and an update of an incident is two commits.               *)
(***************************************************************************)
EXTENDS Integers, Sequences, SequencesExt

CONSTANTS
    Traders,
    Posters,        \* staff updating the incident
    Balance,        \* what each trader starts with
    MaxRuns,        \* bound on the audits
    MaxUpdates      \* bound on the updates of an incident

VARIABLES
    state,          \* of the market; "none" before the row exists
    pot,            \* potTotal
    staked,         \* the outcomes' stakedTotal, added up
    holders,        \* who has bought
    bond,           \* the conduct bond held, 0 or 1
    round,          \* contributions to a seeding round not yet in the pot
    available,      \* user_available of each trader
    escrow,         \* user_escrow of each trader
    fees,           \* platform_fees
    audit,          \* the step of the audit, and what it has read
    runs,
    incident,       \* the incident's state and its timeline
    posting,        \* posting[p]: the state p's update has put on the timeline
    moved,          \* history: rows committed under the audit under way
    crossed         \* history: two updates were under way at once

rows == <<state, pot, staked, holders, bond, round, available, escrow, fees>>

status == <<incident, posting, crossed>>

vars == <<rows, audit, runs, moved, status>>

Audited == {"seeding", "funding", "active", "frozen", "dispute_window"}

Progress == {"identified", "monitoring", "resolved"}

NoIncident == [state |-> "none", timeline |-> <<>>]

Rest == [at |-> "rest", pot |-> 0, held |-> 0, bad |-> {}]

Total(amounts) == SumFunctionOnSet(amounts, Traders)

Init ==
    /\ state = "none"
    /\ pot = 0 /\ staked = 0 /\ holders = {} /\ bond = 0 /\ round = 0
    /\ available = [u \in Traders |-> Balance]
    /\ escrow = [u \in Traders |-> 0]
    /\ fees = 0
    /\ audit = Rest
    /\ runs = 0
    /\ incident = NoIncident
    /\ posting = [p \in Posters |-> "none"]
    /\ moved = FALSE /\ crossed = FALSE

---------------------------------------------------------------------------
\* What the market's services commit.  Amounts are one unit but for an exit.

Commits ==
    /\ moved' = (audit.at # "rest")
    /\ UNCHANGED <<audit, runs, status>>

\* The postings of hold and release.
Hold(u, n) ==
    /\ available[u] >= n
    /\ available' = [available EXCEPT ![u] = @ - n]
    /\ escrow' = [escrow EXCEPT ![u] = @ + n]

Release(u, n) ==
    /\ available' = [available EXCEPT ![u] = @ + n]
    /\ escrow' = [escrow EXCEPT ![u] = @ - n]

\* createMarket, with the creator's bond where the rules ask for one.
Open(u, asked, to) ==
    /\ state = "none"
    /\ state' = to
    /\ bond' = asked
    /\ Hold(u, asked)
    /\ Commits
    /\ UNCHANGED <<pot, staked, holders, round, fees>>

OpenRound ==
    /\ state \in {"draft", "funding"}
    /\ state' = "seeding"
    /\ Commits
    /\ UNCHANGED <<pot, staked, holders, bond, round, available, escrow, fees>>

\* contribute: the money is in escrow, and in the pot only once the round fills.
Contribute(u, fills) ==
    /\ state = "seeding"
    /\ Hold(u, 1)
    /\ IF fills
       THEN /\ state' = "active" /\ round' = 0
            /\ pot' = pot + round + 1 /\ staked' = staked + round + 1
       ELSE round' = round + 1 /\ UNCHANGED <<state, pot, staked>>
    /\ Commits
    /\ UNCHANGED <<holders, bond, fees>>

\* seedSolo, an open round or not.
Seed(u) ==
    /\ state \in {"draft", "funding", "seeding"}
    /\ Hold(u, 1)
    /\ state' = "active"
    /\ pot' = pot + 1 /\ staked' = staked + 1
    /\ Commits
    /\ UNCHANGED <<holders, bond, round, fees>>

Buy(u) ==
    /\ state = "active"
    /\ Hold(u, 1)
    /\ pot' = pot + 1 /\ staked' = staked + 1
    /\ holders' = holders \cup {u}
    /\ Commits
    /\ UNCHANGED <<state, bond, round, fees>>

\* sell: the curve's refund leaves the seller's escrow, whatever that held.
Exit(u, refund) ==
    /\ state = "active"
    /\ u \in holders
    /\ Release(u, refund)
    /\ pot' = pot - refund /\ staked' = staked - refund
    /\ Commits
    /\ UNCHANGED <<state, holders, bond, round, fees>>

\* freezeDueMarkets.
Freeze ==
    /\ state = "active"
    /\ state' = "pending_resolution"
    /\ Commits
    /\ UNCHANGED <<pot, staked, holders, bond, round, available, escrow, fees>>

Propose ==
    /\ state \in {"active", "pending_resolution"}
    /\ state' = "dispute_window"
    /\ Commits
    /\ UNCHANGED <<pot, staked, holders, bond, round, available, escrow, fees>>

\* What each holds in escrow; below zero is skipped.
Held == [u \in Traders |-> IF escrow[u] > 0 THEN escrow[u] ELSE 0]

\* All of it leaves escrow, less a fee, to whom credit says.
Distribute(credit, fee) ==
    /\ Total(credit) = Total(Held) - fee
    /\ available' = [u \in Traders |-> available[u] + credit[u]]
    /\ escrow' = [u \in Traders |-> escrow[u] - Held[u]]
    /\ fees' = fees + fee
    /\ pot' = 0 /\ bond' = 0 /\ round' = 0

\* resolve: the payouts, whoever they go to.
PayOut(credit) ==
    /\ state = "dispute_window"
    /\ state' = "resolved"
    /\ Distribute(credit, IF pot > 1 THEN 1 ELSE 0)
    /\ Commits
    /\ UNCHANGED <<staked, holders>>

\* voidAndRefund: to each what was theirs.
Void ==
    /\ state \notin {"none", "resolved", "voided"}
    /\ state' = "voided"
    /\ Distribute(Held, 0)
    /\ staked' = 0
    /\ Commits
    /\ UNCHANGED holders

---------------------------------------------------------------------------
\* The checks, in the order run calls them.

Reads(next) ==
    /\ audit' = next
    /\ UNCHANGED <<rows, status>>

\* everyPostingSumsToZero: what everybody holds is what was issued.
SumRows ==
    /\ audit.at = "rest"
    /\ runs < MaxRuns
    /\ runs' = runs + 1
    /\ moved' = FALSE
    /\ Reads([Rest EXCEPT !.at = "market",
                 !.bad = IF Total(available) + Total(escrow) + fees
                                # Total([u \in Traders |-> Balance])
                         THEN {"double_entry"} ELSE {}])

\* escrowMatchesOpenMarkets: the open markets and their pots first ...
ReadMarket ==
    /\ audit.at = "market"
    /\ Reads(IF state \in Audited
             THEN [audit EXCEPT !.at = "escrow", !.pot = pot]
             ELSE [audit EXCEPT !.at = "balances"])
    /\ UNCHANGED <<runs, moved>>

\* ... then the escrow and the bonds held, asked for together.
ReadEscrow ==
    /\ audit.at = "escrow"
    /\ Reads([audit EXCEPT !.at = "bond", !.held = Total(escrow)])
    /\ UNCHANGED <<runs, moved>>

\* A mutant that forgets that bonds live in escrow.
ExpectPot(inPot, held) == inPot

Expected(inPot, held) == inPot + held

ReadBond ==
    /\ audit.at = "bond"
    /\ Reads([audit EXCEPT !.at = "balances",
                 !.bad = IF audit.held # Expected(audit.pot, bond)
                         THEN @ \cup {"escrow_matches_pot"} ELSE @])
    /\ UNCHANGED <<runs, moved>>

Overdrawn == \E u \in Traders : available[u] < 0 \/ escrow[u] < 0

\* noNegativeUserBalances.
ReadBalances ==
    /\ audit.at = "balances"
    /\ Reads([audit EXCEPT !.at = "staked",
                 !.bad = IF Overdrawn THEN @ \cup {"no_negative_balances"} ELSE @])
    /\ UNCHANGED <<runs, moved>>

\* stakedMatchesPot: the markets and, by a second query, their outcomes.
ReadPot ==
    /\ audit.at = "staked"
    /\ Reads(IF state \in Audited
             THEN [audit EXCEPT !.at = "outcomes", !.pot = pot]
             ELSE [audit EXCEPT !.at = "report"])
    /\ UNCHANGED <<runs, moved>>

ReadStaked ==
    /\ audit.at = "outcomes"
    /\ Reads([audit EXCEPT !.at = "report",
                 !.bad = IF audit.pot # staked
                         THEN @ \cup {"staked_matches_pot"} ELSE @])
    /\ UNCHANGED <<runs, moved>>

\* The report: anything found opens an incident of its own, however many are
\* open (one is kept here).
Report ==
    /\ audit.at = "report"
    /\ audit' = Rest
    /\ moved' = FALSE
    /\ incident' = IF audit.bad # {} /\ incident = NoIncident
                   THEN [state |-> "investigating", timeline |-> <<"investigating">>]
                   ELSE incident
    /\ UNCHANGED <<rows, runs, posting, crossed>>

---------------------------------------------------------------------------
\* StatusService.

\* Staff may open one too.
OpenIncident ==
    /\ incident = NoIncident
    /\ incident' = [state |-> "investigating", timeline |-> <<"investigating">>]
    /\ UNCHANGED <<rows, audit, runs, moved, posting, crossed>>

\* update: the line of the timeline ...
Post(p, news) ==
    /\ incident # NoIncident
    /\ posting[p] = "none"
    /\ Len(incident.timeline) < MaxUpdates
    /\ incident' = [incident EXCEPT !.timeline = Append(@, news)]
    /\ posting' = [posting EXCEPT ![p] = news]
    /\ crossed' = (crossed \/ \E q \in Posters : posting[q] # "none")
    /\ UNCHANGED <<rows, audit, runs, moved>>

\* ... and then the incident's own state.
Stamp(p) ==
    /\ posting[p] # "none"
    /\ incident' = [incident EXCEPT !.state = posting[p]]
    /\ posting' = [posting EXCEPT ![p] = "none"]
    /\ UNCHANGED <<rows, audit, runs, moved, crossed>>

Next ==
    \/ \E u \in Traders :
          \/ \E asked \in {0, 1} : \E to \in {"draft", "funding"} : Open(u, asked, to)
          \/ \E fills \in BOOLEAN : Contribute(u, fills)
          \/ Seed(u)
          \/ Buy(u)
          \/ \E refund \in 1..pot : Exit(u, refund)
    \/ OpenRound \/ Freeze \/ Propose \/ Void
    \/ \E credit \in [Traders -> 0..Total(Held)] : PayOut(credit)
    \/ SumRows \/ ReadMarket \/ ReadEscrow \/ ReadBond \/ ReadBalances
    \/ ReadPot \/ ReadStaked \/ Report
    \/ OpenIncident
    \/ \E p \in Posters : Stamp(p) \/ \E news \in Progress : Post(p, news)

Spec == Init /\ [][Next]_vars

---------------------------------------------------------------------------

\* The rows have stayed as they are under an audit about to report.
Undisturbed == audit.at = "report" /\ ~moved

\* The checks that healthy rows do not pass: contributions of a round are in
\* escrow and in no pot, and an exit at a profit takes more out of the seller's
\* escrow than it put in.
Ordinary ==
    (IF round # 0 /\ state \in Audited THEN {"escrow_matches_pot"} ELSE {})
    \cup (IF Overdrawn THEN {"no_negative_balances"} ELSE {})

\* Undisturbed, the audit reports the contributions of an open round and an
\* escrow below zero, which the services leave behind, and nothing else: through
\* bonds, seeds, rounds, exits, payouts and refunds escrow is the pot, the bond
\* and the round, the pot is what is staked, and no posting makes money
\* (LedgerAuditService.run).
NoOtherAlarm == Undisturbed => audit.bad = Ordinary

\* An open seeding round is no alarm (ledger-audit.service.ts: "any violation is a
\* bug in the platform").  It is one.
RoundIsNoAlarm == Undisturbed => "escrow_matches_pot" \notin audit.bad

\* Balances below zero mean "something wrote around" the wallet
\* (ledger-audit.service.ts), and nothing here does.  An exit is enough.
ExitIsNoAlarm == Undisturbed => "no_negative_balances" \notin audit.bad

\* The public state of an incident is the last word of its timeline, unless
\* two people updated it at once (StatusService.update).
StateIsLastWord ==
    (\A p \in Posters : posting[p] = "none") /\ incident # NoIncident /\ ~crossed
        => incident.state = Last(incident.timeline)

AuditIsTrue == NoOtherAlarm /\ StateIsLastWord
=============================================================================
