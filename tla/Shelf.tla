------------------------------- MODULE Shelf -------------------------------
(***************************************************************************)
(* The drafts queue and the shelves it feeds.  A generation cycle reads    *)
(* the live shelf once and files one suggestion per free place; a creator  *)
(* submits a market of their own; staff open a suggestion as a market or   *)
(* refuse it.  Opening reads the draft, creates the market, seeds it and   *)
(* marks the draft, each a commit of its own, and nothing holds the draft. *)
(***************************************************************************)
EXTENDS Integers, FiniteSets

CONSTANTS
    Drafts,         \* draft ids
    MarketIds,      \* market ids
    Topics,         \* what a question is about: the same topic is a restatement
    Staff,          \* requests of resolvers and admins under way at once
    Size            \* official_shelf_slots

VARIABLES
    drafts,         \* drafts[d]: the row
    shelf,          \* shelf[m]: the market and the draft it came from
    counter,        \* counter[s]: the request s is in the middle of
    met,            \* history: drafts with two requests past the question of
                    \* state, or with one that died on the way
    refilled        \* history: a cycle began with suggestions still pending

vars == <<drafts, shelf, counter, met, refilled>>

Nothing == "none"

NoDraft == [state |-> Nothing, source |-> Nothing, topic |-> Nothing]

NoMarket == [state |-> Nothing, from |-> Nothing]

AtRest == [at |-> "rest", on |-> Nothing, opened |-> Nothing, live |-> {}, places |-> 0]

Init ==
    /\ drafts = [d \in Drafts |-> NoDraft]
    /\ shelf = [m \in MarketIds |-> NoMarket]
    /\ counter = [s \in Staff |-> AtRest]
    /\ met = {}
    /\ refilled = FALSE

\* The ids not used yet, and the one the next row gets.
Free(rows, none) == {k \in DOMAIN rows : rows[k] = none}

Fresh(rows, none) == CHOOSE k \in Free(rows, none) : TRUE

Leave(s) == counter' = [counter EXCEPT ![s] = AtRest]

Official(m) == shelf[m].from # Nothing /\ drafts[shelf[m].from].source = "ai"

Live == {m \in MarketIds : Official(m) /\ shelf[m].state = "active"}

TopicsOf(ms) == {drafts[shelf[m].from].topic : m \in ms}

Pending == {d \in Drafts : drafts[d].source = "ai" /\ drafts[d].state = "suggested"}

---------------------------------------------------------------------------
(* Suggestions.                                                            *)

\* A mutant that counts every place of the shelf as free.
FreePlacesOfAll == Size

FreePlaces == IF Size > Cardinality(Live) THEN Size - Cardinality(Live) ELSE 0

\* A market being opened still counts as pending; so does another cycle.
Outstanding == Pending # {} \/ \E s \in Staff : counter[s].at \in {"generate", "seed"}

Generate(s) ==
    /\ counter[s] = AtRest
    /\ counter' = [counter EXCEPT ![s] =
           [AtRest EXCEPT !.at = "generate", !.live = TopicsOf(Live), !.places = FreePlaces]]
    /\ refilled' = (refilled \/ Outstanding)
    /\ UNCHANGED <<drafts, shelf, met>>

\* The rules, the band and the live questions read at the start decide.
Gate(sound, topic, live) == IF sound /\ topic \notin live THEN "suggested" ELSE "rejected"

FileProposal(s, topic, sound) ==
    /\ counter[s].at = "generate"
    /\ counter[s].places > 0
    /\ Free(drafts, NoDraft) # {}
    /\ drafts' = [drafts EXCEPT ![Fresh(drafts, NoDraft)] =
           [state |-> Gate(sound, topic, counter[s].live), source |-> "ai", topic |-> topic]]
    /\ counter' = [counter EXCEPT ![s].places = @ - 1]
    /\ UNCHANGED <<shelf, met, refilled>>

\* The cycle is over, or the model failed for the places that are left.
EndCycle(s) ==
    /\ counter[s].at = "generate"
    /\ Leave(s)
    /\ UNCHANGED <<drafts, shelf, met, refilled>>

\* screen: a creator's submission; live markets are not looked at.
Submit(topic, sound) ==
    /\ Free(drafts, NoDraft) # {}
    /\ drafts' = [drafts EXCEPT ![Fresh(drafts, NoDraft)] =
           [state |-> Gate(sound, topic, {}), source |-> "community", topic |-> topic]]
    /\ UNCHANGED <<shelf, counter, met, refilled>>

---------------------------------------------------------------------------
(* Opening and refusing.                                                   *)

At(steps, d) == {s \in Staff : counter[s].at \in steps /\ counter[s].on = d}

Halfway(d) == At({"create", "seed", "mark", "refuse"}, d)

\* Neither the size of the shelf nor the live questions are looked at again.
Read(s, d, what) ==
    /\ counter[s] = AtRest
    /\ drafts[d].state = "suggested"
    /\ counter' = [counter EXCEPT ![s] = [AtRest EXCEPT !.at = what, !.on = d]]
    /\ met' = IF Halfway(d) # {} THEN met \cup {d} ELSE met
    /\ UNCHANGED <<drafts, shelf, refilled>>

\* An official market waits in draft for its seed, a community one is open to
\* its creator at once.
CreateMarket(s) ==
    LET d == counter[s].on
        m == Fresh(shelf, NoMarket)
        official == drafts[d].source = "ai"
    IN /\ counter[s].at = "create"
       /\ Free(shelf, NoMarket) # {}
       /\ shelf' = [shelf EXCEPT ![m] =
              [state |-> IF official THEN "draft" ELSE "active", from |-> d]]
       /\ counter' = [counter EXCEPT ![s].at = IF official THEN "seed" ELSE "mark",
                                     ![s].opened = m]
       /\ UNCHANGED <<drafts, met, refilled>>

SeedMarket(s) ==
    /\ counter[s].at = "seed"
    /\ shelf' = [shelf EXCEPT ![counter[s].opened].state = "active"]
    /\ counter' = [counter EXCEPT ![s].at = "mark"]
    /\ UNCHANGED <<drafts, met, refilled>>

Mark(s) ==
    /\ counter[s].at = "mark"
    /\ drafts' = [drafts EXCEPT ![counter[s].on].state = "approved"]
    /\ Leave(s)
    /\ UNCHANGED <<shelf, met, refilled>>

Refuse(s) ==
    /\ counter[s].at = "refuse"
    /\ drafts' = [drafts EXCEPT ![counter[s].on].state = "rejected"]
    /\ Leave(s)
    /\ UNCHANGED <<shelf, met, refilled>>

Crash(s) ==
    /\ counter[s].at \in {"create", "seed", "mark", "refuse"}
    /\ met' = met \cup {counter[s].on}
    /\ Leave(s)
    /\ UNCHANGED <<drafts, shelf, refilled>>

\* Resolved or voided: the place is free again.
Close(m) ==
    /\ shelf[m].state = "active"
    /\ shelf' = [shelf EXCEPT ![m].state = "closed"]
    /\ UNCHANGED <<drafts, counter, met, refilled>>

Next ==
    \/ \E s \in Staff :
          \/ Generate(s)
          \/ \E topic \in Topics, sound \in BOOLEAN : FileProposal(s, topic, sound)
          \/ EndCycle(s)
          \/ \E d \in Drafts, what \in {"create", "refuse"} : Read(s, d, what)
          \/ CreateMarket(s)
          \/ SeedMarket(s)
          \/ Mark(s)
          \/ Refuse(s)
          \/ Crash(s)
    \/ \E topic \in Topics, sound \in BOOLEAN : Submit(topic, sound)
    \/ \E m \in MarketIds : Close(m)

Spec == Init /\ [][Next]_vars

---------------------------------------------------------------------------

From(d) == {m \in MarketIds : shelf[m].from = d}

\* A draft becomes one market or none, and the draft and the market agree:
\* approved once the market is open, refused only without one.  Only requests
\* that met on the draft, or died on it, break this (openFromDraft, approve,
\* rejectDraft).
OneMarketPerDraft == \A d \in Drafts \ met :
    /\ Cardinality(From(d)) <= 1
    /\ drafts[d].state = "approved" => \E m \in From(d) : shelf[m].state # "draft"
    /\ drafts[d].state = "rejected" => From(d) = {}

\* The official shelf is a budget: no more questions are live than it has
\* places, as long as no cycle began over suggestions still pending and no draft
\* was opened twice (freeSlots).
ShelfIsABudget == Cardinality(Live) > Size =>
    refilled \/ \E m \in Live : shelf[m].from \in met

ShelfHolds == OneMarketPerDraft /\ ShelfIsABudget
=============================================================================
