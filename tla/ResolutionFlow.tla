--------------------------- MODULE ResolutionFlow ---------------------------
(***************************************************************************)
(* ResolutionFlowService: propose, dispute, decide, finalise, and the      *)
(* sweep that freezes markets whose event has started. Proposing and       *)
(* disputing take the row lock. Deciding, the checks before a payout and   *)
(* the sweep read first and write later.                                   *)
(***************************************************************************)
EXTENDS Settlement

\* The clock passes eventDate.
EventStarts ==
    /\ state # "absent" /\ ~started
    /\ started' = TRUE
    /\ UNCHANGED <<state, shelf, path, window, bookVars, moneyVars, bond, roundVars, flowVars,
                   jobVars, settled>>

Resolvable == {"active", "frozen", "pending_resolution"}

\* The creator proposes on a community market, staff on any.
MayPropose(p) == p \in Staff \/ (p = Creator /\ shelf = "community")

ProposalUnchecked == TRUE

\* One open proposal per market.
NoOpenProposal == proposer = Nobody

Propose(p) ==
    /\ state \in Resolvable
    /\ MayPropose(p)
    /\ NoOpenProposal
    /\ proposer' = p
    /\ state' = "dispute_window" /\ dispClock' = "running"
    /\ UNCHANGED <<shelf, path, window, started, bookVars, moneyVars, bond, roundVars, disputes,
                   jobVars, settled>>

\* The clock passes disputeClosesAt.
DisputeWindowEnds ==
    /\ dispClock = "running"
    /\ dispClock' = "over"
    /\ UNCHANGED <<lifeVars, bookVars, moneyVars, bond, roundVars, proposer, disputes, jobVars,
                   settled>>

\* fileDispute. Bound: one dispute per user and market.
FileDispute(u) ==
    /\ state = "dispute_window"
    /\ dispClock # "over"
    /\ Traded(u)
    /\ disputes[u] = "none"
    /\ disputes' = [disputes EXCEPT ![u] = "open"]
    /\ UNCHANGED <<lifeVars, bookVars, moneyVars, bond, roundVars, proposer, dispClock, jobVars,
                   settled>>

\* decideDispute: the row is read as open,
DecideRead(s, u) ==
    /\ deciding[s] = Nobody
    /\ disputes[u] = "open"
    /\ deciding' = [deciding EXCEPT ![s] = u]
    /\ UNCHANGED <<lifeVars, bookVars, moneyVars, bond, roundVars, flowVars, sweep, finalizing,
                   forfeiting, settled>>

\* and updated by its id, whatever happened to it meanwhile.
DecideWrite(s, verdict) ==
    /\ deciding[s] # Nobody
    /\ disputes' = [disputes EXCEPT ![deciding[s]] = verdict]
    /\ deciding' = [deciding EXCEPT ![s] = Nobody]
    /\ UNCHANGED <<lifeVars, bookVars, moneyVars, bond, roundVars, proposer, dispClock, sweep,
                   finalizing, forfeiting, settled>>

\* Four eyes: the finaliser is not the proposer.
SecondPair(s) == proposer # s

\* Every dispute is decided, and the window is over unless there were some.
DisputesSettled == \A u \in Disputants : disputes[u] # "open"

WindowServed == dispClock = "over" \/ \E u \in Disputants : disputes[u] # "none"

\* finalize: the checks, made on unlocked reads,
FinalizeCheck(s, w) ==
    /\ finalizing[s] = Nobody
    /\ state = "dispute_window"
    /\ proposer # Nobody /\ SecondPair(s)
    /\ DisputesSettled /\ WindowServed
    /\ finalizing' = [finalizing EXCEPT ![s] = w]
    /\ UNCHANGED <<lifeVars, bookVars, moneyVars, bond, roundVars, flowVars, sweep, deciding,
                   forfeiting, settled>>

\* the payout transaction,
FinalizePay(s) ==
    /\ finalizing[s] \in Outcomes
    /\ Resolve(finalizing[s])
    /\ finalizing' = [finalizing EXCEPT ![s] = "tidy"]
    /\ UNCHANGED <<sweep, deciding, forfeiting>>

\* or its refusal,
FinalizeFail(s) ==
    /\ finalizing[s] \in Outcomes
    /\ ~CanResolve(finalizing[s])
    /\ finalizing' = [finalizing EXCEPT ![s] = Nobody]
    /\ UNCHANGED <<lifeVars, bookVars, moneyVars, bond, roundVars, flowVars, sweep, deciding,
                   forfeiting, settled>>

\* and, after it, the update that clears disputeClosesAt.
FinalizeTidy(s) ==
    /\ finalizing[s] = "tidy"
    /\ dispClock' = "none"
    /\ finalizing' = [finalizing EXCEPT ![s] = Nobody]
    /\ UNCHANGED <<lifeVars, bookVars, moneyVars, bond, roundVars, proposer, disputes, sweep,
                   deciding, forfeiting, settled>>

SweepDue == state = "active" /\ started

\* freezeDueMarkets: the list of due markets is read,
SweepRead ==
    /\ sweep = "idle"
    /\ SweepDue
    /\ sweep' = "due"
    /\ UNCHANGED <<lifeVars, bookVars, moneyVars, bond, roundVars, flowVars, deciding, finalizing,
                   forfeiting, settled>>

\* and each market on it is updated without another look.
SweepWrite ==
    /\ sweep = "due"
    /\ sweep' = "idle"
    /\ state' = "pending_resolution"
    /\ UNCHANGED <<shelf, path, window, started, bookVars, moneyVars, bond, roundVars, flowVars,
                   deciding, finalizing, forfeiting, settled>>
=============================================================================
