--------------------------- MODULE Opportunities ---------------------------
(***************************************************************************)
(* The opportunity feed for one search nobody found a market for: the      *)
(* hourly sweep that counts who searched and looks for a market that       *)
(* already answers, the entry it keeps under one key, the creator who      *)
(* claims it for a market of theirs, and the entry's expiry.               *)
(***************************************************************************)
EXTENDS Integers, FiniteSets

CONSTANTS
    Searchers,      \* distinct people who search
    MinSearchers,   \* opportunity_min_searchers
    Creators,
    Ttl,            \* opportunity_ttl_days
    Horizon         \* bound on the days

VARIABLES
    searched,       \* who has searched in the last week and found nothing
    entry,          \* the opportunities row with this key
    markets,        \* markets[c]: the state of c's market for the search
    sweep,          \* what the sweep under way has read
    day,
    surfaced        \* history: days on which the sweep put the entry up

vars == <<searched, entry, markets, sweep, day, surfaced>>

NoEntry == [there |-> FALSE, claimedBy |-> "nobody", expires |-> 0, score |-> 0]

Init ==
    /\ searched = {}
    /\ entry = NoEntry
    /\ markets = [c \in Creators |-> "none"]
    /\ sweep = "rest"
    /\ day = 0
    /\ surfaced = {}

LiveStates == {"funding", "active"}

Served == \E c \in Creators : markets[c] \in LiveStates

\* GET markets/search/q, over the markets that are live.
FindsNothing == ~Served

\* A search that found nothing leaves a row of the log.
Search(s) ==
    /\ FindsNothing
    /\ s \notin searched
    /\ searched' = searched \cup {s}
    /\ UNCHANGED <<entry, markets, sweep, day, surfaced>>

\* The empty searches of the week, counted in people.
EmptySearches == Cardinality(searched)

\* detectSearchGaps: distinct people, and no live market that answers.
SweepRead ==
    /\ sweep = "rest"
    /\ EmptySearches >= MinSearchers
    /\ ~Served
    /\ sweep' = "gap"
    /\ UNCHANGED <<searched, entry, markets, day, surfaced>>

\* The update of the upsert leaves a claim alone.
Refreshed(e) == [there |-> TRUE, claimedBy |-> e.claimedBy,
                 expires |-> day + Ttl, score |-> EmptySearches]

Upsert ==
    /\ sweep = "gap"
    /\ entry' = Refreshed(entry)
    /\ sweep' = "rest"
    /\ surfaced' = surfaced \cup {day}
    /\ UNCHANGED <<searched, markets, day>>

\* expire, and the feed: unclaimed entries past their day are dropped.
Expire ==
    /\ entry.there
    /\ entry.claimedBy = "nobody"
    /\ entry.expires <= day
    /\ entry' = NoEntry
    /\ UNCHANGED <<searched, markets, sweep, day, surfaced>>

OnFeed == entry.there /\ entry.claimedBy = "nobody" /\ entry.expires > day

\* A creator opens a market, from the feed or not.
OpenMarket(c) ==
    /\ markets[c] = "none"
    /\ markets' = [markets EXCEPT ![c] = "funding"]
    /\ UNCHANGED <<searched, entry, sweep, day, surfaced>>

\* POST opportunities/:id/claim takes a market of the claimer's own.
OwnMarket(c) == markets[c] # "none"

\* claim: one statement, conditional on nobody having claimed.  An entry that
\* has expired may still be claimed.
Claim(c) ==
    /\ OwnMarket(c)
    /\ entry.there
    /\ entry.claimedBy = "nobody"
    /\ entry' = [entry EXCEPT !.claimedBy = c]
    /\ UNCHANGED <<searched, markets, sweep, day, surfaced>>

Activate(c) ==
    /\ markets[c] = "funding"
    /\ markets' = [markets EXCEPT ![c] = "active"]
    /\ UNCHANGED <<searched, entry, sweep, day, surfaced>>

\* Resolved or voided: nothing gives the entry back.
CloseMarket(c) ==
    /\ markets[c] \in LiveStates
    /\ markets' = [markets EXCEPT ![c] = "closed"]
    /\ UNCHANGED <<searched, entry, sweep, day, surfaced>>

Day ==
    /\ day < Horizon
    /\ day' = day + 1
    /\ UNCHANGED <<searched, entry, markets, sweep, surfaced>>

Next ==
    \/ \E s \in Searchers : Search(s)
    \/ SweepRead \/ Upsert \/ Expire
    \/ \E c \in Creators : OpenMarket(c) \/ Claim(c) \/ Activate(c) \/ CloseMarket(c)
    \/ Day

Spec == Init /\ [][Next]_vars

---------------------------------------------------------------------------

\* The first to claim keeps the claim: no later sweep, claim or expiry takes
\* it away or hands it to another (OpportunityService.claim, upsert, expire).
ClaimStands == [][entry.claimedBy # "nobody" => entry'.claimedBy = entry.claimedBy]_entry
=============================================================================
