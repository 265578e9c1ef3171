----------------------------- MODULE Following -----------------------------
(***************************************************************************)
(* The followers of one creator, kept twice: a row per follower and a      *)
(* count on the profile.  Each operation is one transaction at read        *)
(* committed, so its statements are the steps; announcements go to the     *)
(* followers who asked for them.  Following somebody again is free.        *)
(***************************************************************************)
EXTENDS Integers, FiniteSets

CONSTANTS
    Fans,           \* people who are not the creator
    MaxToggles      \* bound on the follows and unfollows begun

VARIABLES
    rows,           \* follower rows
    asks,           \* followers with notify set
    count,          \* creatorProfile.followerCount
    step,           \* step[f]: what f's request has done inside its transaction
    toggles,
    told,           \* followers notified of the creator's market
    crossed         \* history: the count changed under a read that was used

vars == <<rows, asks, count, step, toggles, told, crossed>>

Rest == [at |-> "rest", read |-> 0, notify |-> FALSE]

Init ==
    /\ rows = {} /\ asks = {}
    /\ count = 0
    /\ step = [f \in Fans |-> Rest]
    /\ toggles = 0
    /\ told = {}
    /\ crossed = {}

\* A mutant that counts a second follow.
FollowTwice(f, notify) ==
    /\ step[f].at = "rest"
    /\ f \in rows
    /\ count < MaxToggles
    /\ count' = count + 1
    /\ asks' = IF notify THEN asks \cup {f} ELSE asks \ {f}
    /\ UNCHANGED <<rows, step, toggles, told, crossed>>

\* follow by somebody who already does only moves notify.
FollowAgain(f, notify) ==
    /\ step[f].at = "rest"
    /\ f \in rows
    /\ asks' = IF notify THEN asks \cup {f} ELSE asks \ {f}
    /\ UNCHANGED <<rows, count, step, toggles, told, crossed>>

\* follow: no row found, so the row and then the count, committed together.
Follow(f, notify) ==
    /\ step[f].at = "rest"
    /\ f \notin rows
    /\ toggles < MaxToggles
    /\ toggles' = toggles + 1
    /\ step' = [step EXCEPT ![f] = [at |-> "followed", read |-> 0, notify |-> notify]]
    /\ UNCHANGED <<rows, asks, count, told, crossed>>

\* Whoever has read the count and not yet written it holds an old one once
\* somebody else writes.
Stale(f) == {g \in Fans \ {f} : step[g].at = "unfollowed"}

\* The row, and increment: 1, evaluated on the profile as it is.
Increment(f) ==
    /\ step[f].at = "followed"
    /\ rows' = rows \cup {f}
    /\ asks' = IF step[f].notify THEN asks \cup {f} ELSE asks
    /\ count' = count + 1
    /\ step' = [step EXCEPT ![f] = Rest]
    /\ crossed' = crossed \cup Stale(f)
    /\ UNCHANGED <<toggles, told>>

\* unfollow: deletes the row, reads the count ...
Unfollow(f) ==
    /\ step[f].at = "rest"
    /\ f \in rows
    /\ toggles < MaxToggles
    /\ toggles' = toggles + 1
    /\ step' = [step EXCEPT ![f] = [at |-> "unfollowed", read |-> count, notify |-> FALSE]]
    /\ UNCHANGED <<rows, asks, count, told, crossed>>

\* ... and writes one less than it read, never below zero.
Decrement(f) ==
    /\ step[f].at = "unfollowed"
    /\ rows' = rows \ {f}
    /\ asks' = asks \ {f}
    /\ count' = IF step[f].read = 0 THEN 0 ELSE step[f].read - 1
    /\ step' = [step EXCEPT ![f] = Rest]
    /\ crossed' = crossed \cup Stale(f)
    /\ UNCHANGED <<toggles, told>>

\* announceMarket: one read of who asked.
Announce ==
    /\ told = {}
    /\ told' = asks
    /\ UNCHANGED <<rows, asks, count, step, toggles, crossed>>

\* POST creators/:id/follow.
PostFollow(f) ==
    \/ \E notify \in BOOLEAN : Follow(f, notify) \/ FollowAgain(f, notify)
    \/ Increment(f)

\* DELETE creators/:id/follow.
DeleteFollow(f) == Unfollow(f) \/ Decrement(f)

Next ==
    \/ \E f \in Fans : PostFollow(f) \/ DeleteFollow(f)
    \/ Announce

Spec == Init /\ [][Next]_vars

---------------------------------------------------------------------------

Quiet == \A f \in Fans : step[f] = Rest

\* Between operations the count on the profile is the number of follower
\* rows, unless an unfollow wrote over what another had written after it read
\* (CreatorService.follow, unfollow: "a count that drifts from the rows is a
\* number nobody can trust").
CountIsRows == Quiet /\ crossed = {} => count = Cardinality(rows)
=============================================================================
