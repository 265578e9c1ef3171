---------------------------- MODULE Leaderboard ----------------------------
(***************************************************************************)
(* The boards: a sweep computes the running week and the all-time board    *)
(* from the markets settled so far, ranks what it found and replaces the   *)
(* published rows.  A week that is over is never swept again.  Money is in *)
(* units that a payout divides evenly.                                     *)
(***************************************************************************)
EXTENDS Integers, Sequences, FiniteSets, FiniteSetsExt

CONSTANTS
    People,         \* ordered: the last tie-break is the user id
    Creator,        \* one of them: seeds every market
    Markets,
    Weeks,          \* 1 .. n
    MinSettled,     \* leaderboard_min_markets_accuracy
    MinTier,        \* leaderboard_min_tier
    Sweeps          \* sweeps that may be under way at once

Sides == {"yes", "no"}

Boards == {"profit", "accuracy"}

\* The all-time board's key.
AllTime == 0

Periods == Weeks \cup {AllTime}

\* A stake, and what the price had moved by when somebody left.
Unit == 6
Move == 3

VARIABLES
    side,           \* side[p][m]: the outcome p holds; "none" for no stake, "cut" or
                    \* "cashed" for one sold whole at a loss or at a gain
    grade,          \* grade[p]: users.tier
    settled,        \* the markets resolved, in order, with week and outcome
    week,
    published,      \* published[period][board]: the snapshot rows, in order
    sweeping        \* sweeping[s]: what the sweep has computed

vars == <<side, grade, settled, week, published, sweeping>>

NoSweep == [at |-> "rest", period |-> 0, board |-> "profit", rows |-> <<>>]

\* Shares of the winning outcome; the seed holds one of each.
Holders(m, o) == {p \in People : side[p][m] = o}

Stakers(m) == {p \in People : side[p][m] # "none"}

\* A refund is the price of the day: it leaves the pot whole, its fee is the
\* seller's and of another type.
Refund(p, m) ==
    IF side[p][m] = "cut" THEN Unit - Move
    ELSE IF side[p][m] = "cashed" THEN Unit + Move ELSE 0

Pot(m) ==
    Unit * (Cardinality(Stakers(m)) + Cardinality(Sides))
      - (Unit - Move) * Cardinality(Holders(m, "cut"))
      - (Unit + Move) * Cardinality(Holders(m, "cashed"))

\* One winning share is worth an even part of the pot.
PerShare(m, o) == Pot(m) \div (Cardinality(Holders(m, o)) + 1)

\* Escrow below zero is not released with the rest: what gains took out beyond
\* the stakes is released over the pot.
Excess(m) == Move * Cardinality(Holders(m, "cashed"))

\* The creator seeds and takes no side; what is left after the refunds pays.
Init ==
    /\ side \in [People -> [Markets -> Sides \cup {"none", "cut", "cashed"}]]
    /\ \A m \in Markets : side[Creator][m] = "none" /\ \A o \in Sides : PerShare(m, o) > 0
    /\ grade \in [People -> {0, 1}]
    /\ settled = <<>>
    /\ week = 1
    /\ published = [t \in Periods |-> [b \in Boards |-> <<>>]]
    /\ sweeping = [s \in Sweeps |-> NoSweep]

---------------------------------------------------------------------------
(* records: what each person put in and got back on settled markets.       *)

InPeriod(t) == {i \in DOMAIN settled : t = AllTime \/ settled[i].week = t}

\* trade_buy only: a seed is not a stake, though its payout is a return.
StakedBy(p, t) == Unit * Cardinality({i \in InPeriod(t) : side[p][settled[i].market] # "none"})

Shares(p, i) == (IF side[p][settled[i].market] = settled[i].outcome THEN 1 ELSE 0)
                + (IF p = Creator THEN 1 ELSE 0)

\* The smallest payout absorbs the excess, of equal ones that of the least id.
Absorbs(p, i) ==
    LET paid == Holders(settled[i].market, settled[i].outcome) \cup {Creator}
    IN p \in paid /\ \A q \in paid : p <= q

\* Exits and payouts, whatever the outcome was.
Received(p, i) ==
    LET m == settled[i].market
    IN Shares(p, i) * PerShare(m, settled[i].outcome) + Refund(p, m)
         + (IF Absorbs(p, i) THEN Excess(m) ELSE 0)

ReturnedTo(p, t) == MapThenSumSet(LAMBDA i : Received(p, i), InPeriod(t))

\* Markets with a position left, and those where it was the winning one; a seed
\* is a position on every outcome, what was sold is none.
SettledOf(p, t) == {i \in InPeriod(t) : p = Creator \/ side[p][settled[i].market] \in Sides}

WonBy(p, t) == {i \in SettledOf(p, t) : Shares(p, i) > 0}

Score(p, t, b) ==
    IF b = "profit" THEN ReturnedTo(p, t) - StakedBy(p, t)
    ELSE IF SettledOf(p, t) = {} THEN 0
    ELSE (60 * Cardinality(WonBy(p, t))) \div Cardinality(SettledOf(p, t))

Eligible(p, t, b) ==
    /\ grade[p] >= MinTier
    /\ b = "accuracy" => Cardinality(SettledOf(p, t)) >= MinSettled
    /\ b = "profit" => StakedBy(p, t) > 0

Other(b) == IF b = "profit" THEN "accuracy" ELSE "profit"

\* By score, then by the other board's score, then by id.
Before(p, q, t, b) ==
    \/ Score(p, t, b) > Score(q, t, b)
    \/ /\ Score(p, t, b) = Score(q, t, b)
       /\ \/ Score(p, t, Other(b)) > Score(q, t, Other(b))
          \/ Score(p, t, Other(b)) = Score(q, t, Other(b)) /\ p < q

\* Sorted by that: whoever has i - 1 others ahead is the i-th.
Listed(t, b) == {p \in People : Eligible(p, t, b)}

Ahead(p, t, b) == {q \in Listed(t, b) : Before(q, p, t, b)}

Order(t, b) == [i \in 1 .. Cardinality(Listed(t, b)) |->
    CHOOSE p \in Listed(t, b) : Cardinality(Ahead(p, t, b)) = i - 1]

\* A mutant that counts distinct scores: 1, 2, 2, 3.
DensePlaces(order, t, b) ==
    LET place[i \in DOMAIN order] ==
            IF i = 1 THEN 1
            ELSE place[i - 1] + (IF Score(order[i], t, b) = Score(order[i - 1], t, b) THEN 0 ELSE 1)
    IN place

\* Equal scores share a place: 1, 2, 2, 4.
Places(order, t, b) ==
    LET place[i \in DOMAIN order] ==
            IF i > 1 /\ Score(order[i], t, b) = Score(order[i - 1], t, b) THEN place[i - 1] ELSE i
    IN place

Ranked(t, b) ==
    LET order == Order(t, b)
    IN [i \in DOMAIN order |->
           [who |-> order[i], score |-> Score(order[i], t, b), rank |-> Places(order, t, b)[i]]]

---------------------------------------------------------------------------

\* finalize: a market nobody holds the winning side of still pays its seed.
Resolve(m, o) ==
    /\ \A i \in DOMAIN settled : settled[i].market # m
    /\ settled' = Append(settled, [market |-> m, week |-> week, outcome |-> o])
    /\ UNCHANGED <<side, grade, week, published, sweeping>>

\* The running week and the all-time board, nothing else.
Swept(t) == t = AllTime \/ t = week

Compute(s, t, b) ==
    /\ sweeping[s] = NoSweep
    /\ Swept(t)
    /\ sweeping' = [sweeping EXCEPT ![s] =
           [at |-> "computed", period |-> t, board |-> b, rows |-> Ranked(t, b)]]
    /\ UNCHANGED <<side, grade, settled, week, published>>

\* Replaced wholesale, in one transaction.
Publish(s) ==
    LET w == sweeping[s]
    IN /\ w.at = "computed"
       /\ published' = [published EXCEPT ![w.period][w.board] = w.rows]
       /\ sweeping' = [sweeping EXCEPT ![s] = NoSweep]
       /\ UNCHANGED <<side, grade, settled, week>>

NextWeek ==
    /\ week + 1 \in Weeks
    /\ week' = week + 1
    /\ UNCHANGED <<side, grade, settled, published, sweeping>>

Next ==
    \/ \E m \in Markets, o \in Sides : Resolve(m, o)
    \/ \E s \in Sweeps :
          \/ \E t \in Periods, b \in Boards : Compute(s, t, b)
          \/ Publish(s)
    \/ NextWeek

Spec == Init /\ [][Next]_vars

---------------------------------------------------------------------------

\* On every published board a place is one more than the number of people who
\* did strictly better, and better scores come first (rank).
PlacesAreStanding == \A t \in Periods, b \in Boards :
    LET rows == published[t][b]
    IN \A i \in DOMAIN rows :
          /\ rows[i].rank = 1 + Cardinality({j \in DOMAIN rows : rows[j].score > rows[i].score})
          /\ i > 1 => rows[i - 1].score >= rows[i].score

\* What people made on a period's markets is what others lost on them, the
\* seeds that came back beside the payouts, and what left with those who sold
\* at a gain, which the payout of the market pays a second time; never more
\* (records, profitOf; balanceOnLargestPayout).
ProfitIsSomebodysLoss == \A t \in Periods :
    MapThenSumSet(LAMBDA p : Score(p, t, "profit"), People)
        <= MapThenSumSet(LAMBDA i : Unit * Cardinality(Sides) + Excess(settled[i].market),
                         InPeriod(t))

\* Nobody is on a board for a week without what settled in it: the published
\* rows of a week that is over are those of all its markets (snapshotAll).
WeeksAreWhole == \A t \in Weeks, b \in Boards :
    t < week /\ (\A s \in Sweeps : sweeping[s] = NoSweep) /\ published[t][b] # <<>> =>
        published[t][b] = Ranked(t, b)
=============================================================================
