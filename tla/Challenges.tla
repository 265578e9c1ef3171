----------------------------- MODULE Challenges -----------------------------
(***************************************************************************)
(* A "prove me wrong" link on one market: minted from a position, opened   *)
(* by anybody, answered by one person on the other side.  The answer looks *)
(* at the position first and takes the link in one conditional statement.  *)
(***************************************************************************)
EXTENDS Integers

CONSTANTS
    People,
    Outcomes,
    MaxOpens        \* bound on the opens

VARIABLES
    side,           \* side[p]: the outcome p holds most of
    challenge,      \* the row, by "nobody" before it is minted
    answering,      \* people whose position has been looked at
    crossed         \* history: positions changed after they were looked at

vars == <<side, challenge, answering, crossed>>

NoOne == "nobody"

NotMinted == [by |-> NoOne, badge |-> "none", answered |-> NoOne, opens |-> 0]

Init ==
    /\ side = [p \in People |-> "none"]
    /\ challenge = NotMinted
    /\ answering = {}
    /\ crossed = {}

\* create: refused to somebody who holds nothing.
Create(p) ==
    /\ challenge = NotMinted
    /\ side[p] # "none"
    /\ challenge' = [NotMinted EXCEPT !.by = p, !.badge = side[p]]
    /\ UNCHANGED <<side, answering, crossed>>

Open ==
    /\ challenge.by # NoOne
    /\ challenge.opens < MaxOpens
    /\ challenge' = [challenge EXCEPT !.opens = @ + 1]
    /\ UNCHANGED <<side, answering, crossed>>

\* accept: not the challenger, holding something, and not the challenger's
\* side.
AcceptRead(p) ==
    /\ challenge.by \notin {NoOne, p}
    /\ side[p] \notin {"none", challenge.badge}
    /\ answering' = answering \cup {p}
    /\ UNCHANGED <<side, challenge, crossed>>

\* A mutant that writes whatever the row says by now.
TakeAnyway(c, p) == [c EXCEPT !.answered = p]

\* WHERE acceptedBy IS NULL.
Take(c, p) == IF c.answered = NoOne THEN [c EXCEPT !.answered = p] ELSE c

AcceptWrite(p) ==
    /\ p \in answering
    /\ answering' = answering \ {p}
    /\ challenge' = Take(challenge, p)
    /\ UNCHANGED <<side, crossed>>

\* A trade moves the position, whatever is being looked at.
Trade(p, o) ==
    /\ side[p] # o
    /\ side' = [side EXCEPT ![p] = o]
    /\ crossed' = IF p \in answering THEN crossed \cup {p} ELSE crossed
    /\ UNCHANGED <<challenge, answering>>

\* POST challenges/:token/accept.
Accept(p) == AcceptRead(p) \/ AcceptWrite(p)

Next ==
    \/ \E p \in People :
          \/ Create(p)
          \/ Accept(p)
          \/ \E o \in Outcomes \cup {"none"} : Trade(p, o)
    \/ Open

Spec == Init /\ [][Next]_vars

---------------------------------------------------------------------------

\* Whoever answered first stays the one who answered, and took the other side
\* when it was written, unless a trade of theirs came in between
\* (ChallengeService.accept).
AnswerStands == [][
    IF challenge.answered # NoOne THEN challenge'.answered = challenge.answered
    ELSE \A p \in People : challenge'.answered = p =>
            p # challenge.by /\ (side[p] \notin {"none", challenge.badge} \/ p \in crossed)
    ]_challenge
=============================================================================
