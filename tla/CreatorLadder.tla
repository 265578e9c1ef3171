--------------------------- MODULE CreatorLadder ---------------------------
(***************************************************************************)
(* The standing of one creator: markets opened under the cap of a level,   *)
(* the ways a market closes, the review written after some of them, the    *)
(* counters that the review moves and the level recomputed from them.  The *)
(* close, the review, the count and the level are commits of their own,    *)
(* and requests about different markets interleave between them.           *)
(***************************************************************************)
EXTENDS Integers, FiniteSets

CONSTANTS
    Markets,        \* the markets the creator may open
    Requests,       \* requests under way at once
    Level2Clean,    \* creator_level2_clean_resolutions
    Level3Clean,    \* creator_level3_clean_resolutions
    Level3Volume,   \* creator_level3_volume_spc, in markets' worth of stakes
    Level3Rate,     \* creator_level3_clean_rate, in percent
    MaxLive,        \* creator_max_live_markets, by level
    Demotion        \* creator_demotion_enabled

VARIABLES
    market,         \* market[m]: its state
    activated,      \* markets that were ever open for trading
    staked,         \* markets whose pot holds stakes (market.potTotal)
    rounds,         \* markets with an open seeding round (syndicates)
    listed,         \* markets that a sweep is about to freeze
    upheld,         \* markets with a dispute upheld
    reviews,        \* market_autopsies: the markets that have a row
    record,         \* the counters of creator_profiles
    level,          \* creator_profiles.level
    work,           \* work[r]: where the request is and what it read
    missed,         \* history: closes whose process died before the count
    bypassed,       \* history: closes that no review follows
    undone,         \* history: a late sweep or round wrote over a closed market
    overlap         \* history: two requests were between a read and its write

settling == <<market, activated, staked, rounds, listed, upheld, bypassed, undone>>

vars == <<settling, reviews, record, level, work, missed, overlap>>

Kinds == {"clean", "disputed", "voided", "none"}

NoRecord == [clean |-> 0, disputed |-> 0, voided |-> 0, volume |-> 0]

\* Nothing read yet.
Unread == [NoRecord EXCEPT !.volume = -1]

Rest == [at |-> "rest", on |-> "none", kind |-> "none", cap |-> 0,
         level |-> 0, record |-> Unread]

Init ==
    /\ market = [m \in Markets |-> "none"]
    /\ activated = {}
    /\ staked = {}
    /\ rounds = {}
    /\ listed = {}
    /\ upheld = {}
    /\ reviews = {}
    /\ record = NoRecord
    /\ level = 1
    /\ work = [r \in Requests |-> Rest]
    /\ missed = {}
    /\ bypassed = {}
    /\ undone = FALSE
    /\ overlap = FALSE

Closed == {m \in Markets : market[m] \in {"resolved", "voided"}}

\* What the count of an opening takes for live.
Live == {m \in Markets :
            market[m] \in {"draft", "seeding", "funding", "active", "dispute_window"}}

\* Two requests past the same kind of read.
Overlapping(r, steps) == overlap' = (overlap \/ \E q \in Requests \ {r} : work[q].at \in steps)

---------------------------------------------------------------------------
(* Opening a market.                                                       *)

Ask(r, m) ==
    /\ work[r] = Rest
    /\ market[m] = "none"
    /\ \A q \in Requests : work[q].at = "rest" \/ work[q].on # m
    /\ work' = [work EXCEPT ![r] = [Rest EXCEPT !.at = "count", !.on = m, !.cap = MaxLive[level]]]
    /\ UNCHANGED <<settling, reviews, record, level, missed, overlap>>

CountLive(r) ==
    /\ work[r].at = "count"
    /\ work' = [work EXCEPT ![r] =
           IF Cardinality(Live) >= @.cap THEN Rest ELSE [@ EXCEPT !.at = "open"]]
    /\ Overlapping(r, {"open"})
    /\ UNCHANGED <<settling, reviews, record, level, missed>>

\* Path A waits in its funding window, path B for its seed.
Open(r, path) ==
    /\ work[r].at = "open"
    /\ market' = [market EXCEPT ![work[r].on] = IF path = "organic" THEN "funding" ELSE "draft"]
    /\ work' = [work EXCEPT ![r] = Rest]
    /\ UNCHANGED <<activated, staked, rounds, listed, upheld, bypassed, undone>>
    /\ UNCHANGED <<reviews, record, level, missed, overlap>>

---------------------------------------------------------------------------
(* A market's way to its close.  Nothing here touches the record.          *)

standing == <<reviews, record, level, work, missed, overlap>>

\* One round for a market, ever.
OpenRound(m) ==
    /\ market[m] \in {"draft", "funding"}
    /\ market' = [market EXCEPT ![m] = "seeding"]
    /\ rounds' = rounds \cup {m}
    /\ UNCHANGED <<activated, staked, listed, upheld, bypassed, undone, standing>>

\* The window or the round filled, or the creator's own seed landed; the last
\* leaves an open round open.
Activate(m, filled) ==
    /\ market[m] \in {"draft", "seeding", "funding"}
    /\ filled => m \in rounds
    /\ market' = [market EXCEPT ![m] = "active"]
    /\ rounds' = IF filled THEN rounds \ {m} ELSE rounds
    /\ activated' = activated \cup {m}
    /\ staked' = staked \cup {m}
    /\ UNCHANGED <<listed, upheld, bypassed, undone, standing>>

\* The sweep lists what is active and past its event ...
ListDue(m) ==
    /\ market[m] = "active"
    /\ m \notin listed
    /\ listed' = listed \cup {m}
    /\ UNCHANGED <<market, activated, staked, rounds, upheld, bypassed, undone, standing>>

\* ... and freezes it by its id, whatever it is by then.
Freeze(m) ==
    /\ m \in listed
    /\ listed' = listed \ {m}
    /\ market' = [market EXCEPT ![m] = "pending_resolution"]
    /\ undone' = (undone \/ m \in Closed)
    /\ UNCHANGED <<activated, staked, rounds, upheld, bypassed, standing>>

Propose(m) ==
    /\ market[m] \in {"active", "pending_resolution"}
    /\ market' = [market EXCEPT ![m] = "dispute_window"]
    /\ UNCHANGED <<activated, staked, rounds, listed, upheld, bypassed, undone, standing>>

\* A void returns the pot and closes the round; no review follows here.
VoidUnreviewed(m) ==
    /\ market' = [market EXCEPT ![m] = "voided"]
    /\ staked' = staked \ {m}
    /\ rounds' = rounds \ {m}
    /\ bypassed' = bypassed \cup {m}
    /\ UNCHANGED <<activated, listed, upheld, standing>>

\* Four eyes void a market.
VoidByApproval(m) ==
    /\ market[m] \notin {"none", "resolved", "voided"}
    /\ VoidUnreviewed(m)
    /\ UNCHANGED undone

\* A round that did not fill voids its market, whatever that is by then.
CloseRound(m) ==
    /\ m \in rounds
    /\ VoidUnreviewed(m)
    /\ undone' = (undone \/ m \in Closed)

---------------------------------------------------------------------------
(* Closing one with a review, which follows in the same request.           *)

Close(r, m, to) ==
    /\ work[r] = Rest
    /\ market' = [market EXCEPT ![m] = to]
    /\ staked' = staked \ {m}
    /\ rounds' = IF to = "voided" THEN rounds \ {m} ELSE rounds
    /\ work' = [work EXCEPT ![r] = [Rest EXCEPT !.at = "review", !.on = m, !.kind = to]]
    /\ UNCHANGED <<activated, listed, bypassed, undone>>
    /\ UNCHANGED <<reviews, record, level, missed, overlap>>

\* finalize pays out, after whatever disputes were decided.
Resolve(r, m, disputed) ==
    /\ market[m] = "dispute_window"
    /\ Close(r, m, "resolved")
    /\ upheld' = IF disputed THEN upheld \cup {m} ELSE upheld

\* A funding window that did not fill, or a floor of backers not met.
VoidAtDeadline(r, m) ==
    /\ market[m] \in {"funding", "active"}
    /\ Close(r, m, "voided")
    /\ UNCHANGED upheld

\* A mutant that forgets the disputes.
KindOfResolved(m, kind) ==
    IF kind = "resolved" THEN "clean"
    ELSE IF market[m] \notin {"funding", "draft"} THEN "voided" ELSE "none"

\* The caller says how it closed, the row what it was: by now, what the close
\* has left.
KindOf(m, kind) ==
    IF kind = "resolved" THEN IF m \in upheld THEN "disputed" ELSE "clean"
    ELSE IF market[m] \notin {"funding", "draft"} THEN "voided" ELSE "none"

\* AutopsyService.record: one row per market, then the record.
Review(r) ==
    LET m == work[r].on
    IN /\ work[r].at = "review"
       /\ reviews' = reviews \cup {m}
       /\ work' = [work EXCEPT ![r] =
              IF m \in reviews THEN Rest
              ELSE [@ EXCEPT !.at = "add", !.kind = KindOf(m, work[r].kind)]]
       /\ UNCHANGED <<settling, record, level, missed, overlap>>

\* recordSettlement: the database increments, by the pot that the review read.
Counted(rec, kind, pot) ==
    [k \in DOMAIN rec |->
        IF k = "volume" THEN rec[k] + pot ELSE IF k = kind THEN rec[k] + 1 ELSE rec[k]]

AddToRecord(r) ==
    /\ work[r].at = "add"
    /\ record' = Counted(record, work[r].kind, IF work[r].on \in staked THEN 1 ELSE 0)
    /\ work' = [work EXCEPT ![r] = [@ EXCEPT !.at = "recompute"]]
    /\ UNCHANGED <<settling, reviews, level, missed, overlap>>

Settled(rec) == rec.clean + rec.disputed + rec.voided

EarnedLevel(rec) ==
    IF /\ rec.clean >= Level3Clean
       /\ rec.volume >= Level3Volume
       /\ Settled(rec) # 0
       /\ rec.clean * 100 >= Level3Rate * Settled(rec)
    THEN 3
    ELSE IF rec.clean >= Level2Clean THEN 2 ELSE 1

NextLevel(current, rec) ==
    IF Demotion \/ EarnedLevel(rec) > current THEN EarnedLevel(rec) ELSE current

\* recomputeLevel asks for the level and the counters at once, in two queries.
ReadLevel(r) ==
    /\ work[r].at = "recompute"
    /\ work[r].level = 0
    /\ work' = [work EXCEPT ![r].level = level]
    /\ Overlapping(r, {"recompute"})
    /\ UNCHANGED <<settling, reviews, record, level, missed>>

ReadRecord(r) ==
    /\ work[r].at = "recompute"
    /\ work[r].record = Unread
    /\ work' = [work EXCEPT ![r].record = record]
    /\ Overlapping(r, {"recompute"})
    /\ UNCHANGED <<settling, reviews, record, level, missed>>

Adjust(r) ==
    LET w == work[r]
        to == NextLevel(w.level, w.record)
    IN /\ w.at = "recompute"
       /\ w.level # 0
       /\ w.record # Unread
       /\ level' = IF to = w.level THEN level ELSE to
       /\ work' = [work EXCEPT ![r] = Rest]
       /\ UNCHANGED <<settling, reviews, record, missed, overlap>>

\* The process dies: nothing takes up what the request had left to do.
Crash(r) ==
    /\ work[r].at \in {"review", "add", "recompute"}
    /\ missed' = IF work[r].at = "recompute" THEN missed ELSE missed \cup {work[r].on}
    /\ overlap' = (overlap \/ work[r].at = "recompute")
    /\ work' = [work EXCEPT ![r] = Rest]
    /\ UNCHANGED <<settling, reviews, record, level>>

Next ==
    \/ \E r \in Requests :
          \/ \E m \in Markets :
                \/ Ask(r, m)
                \/ \E disputed \in BOOLEAN : Resolve(r, m, disputed)
                \/ VoidAtDeadline(r, m)
          \/ CountLive(r)
          \/ \E path \in {"organic", "seeded"} : Open(r, path)
          \/ Review(r)
          \/ AddToRecord(r)
          \/ ReadLevel(r)
          \/ ReadRecord(r)
          \/ Adjust(r)
          \/ Crash(r)
    \/ \E m \in Markets :
          \/ OpenRound(m)
          \/ \E filled \in BOOLEAN : Activate(m, filled)
          \/ ListDue(m)
          \/ Freeze(m)
          \/ Propose(m)
          \/ VoidByApproval(m)
          \/ CloseRound(m)

Spec == Init /\ [][Next]_vars

---------------------------------------------------------------------------

\* Closed, and its request has not got as far as the counters.
Uncounted == {work[r].on : r \in {q \in Requests : work[q].at \in {"review", "add"}}}

\* What the record stands for.
Reviewed == Closed \ (Uncounted \cup missed \cup bypassed)

\* Every close that a review follows is in the record once and as what it was,
\* except those whose process died first, and until a late sweep or round
\* writes over a closed market (AutopsyService.record).
RecordCountsCloses == ~undone =>
    /\ record.clean = Cardinality({m \in Reviewed : market[m] = "resolved"} \ upheld)
    /\ record.disputed = Cardinality(Reviewed \cap upheld)
    /\ record.voided = Cardinality({m \in Reviewed : market[m] = "voided"})

\* With no request half way, the level is the one the record earns, unless two
\* recomputations overlapped or one never ran (CreatorService.recomputeLevel).
LevelFollowsRecord ==
    Demotion /\ ~overlap /\ (\A r \in Requests : work[r].at # "recompute")
        => level = EarnedLevel(record)

\* Markets that take, or wait to take, stakes.
Trading == {m \in Markets : market[m] \in {"draft", "seeding", "funding", "active"}}

\* The cap of the best level there is holds of everybody's markets up to their
\* freeze, unless two openings were past the count at once
\* (CommunityService.create).
TradingWithinCap == Cardinality(Trading) > MaxLive[3] => overlap

LadderHolds == RecordCountsCloses /\ LevelFollowsRecord /\ TradingWithinCap

\* "can run N markets at a time - settle one before opening another"
\* (community.service.ts:87-90): the count itself stays within the cap.
LiveWithinCap == Cardinality(Live) > MaxLive[3] => overlap

\* "a voided market still hosted the stakes" (creator.service.ts:261-263): once a
\* market that traded is in the record, some volume is.
VolumeIsHosted == ~undone /\ Reviewed \cap activated # {} => record.volume > 0

\* "A market that voided before it ever activated is not held against the
\* creator" (autopsy.service.ts:112-115).
EarlyVoidIsForgiven ==
    ~undone => record.voided <= Cardinality({m \in activated : market[m] = "voided"})

\* "the autopsy covers every close" (community.service.ts:261): a closed market
\* has its review, or the request that writes it, or that request's death.
EveryCloseIsReviewed == Closed \subseteq reviews \cup Uncounted \cup missed
=============================================================================
