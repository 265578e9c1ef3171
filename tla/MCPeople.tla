------------------------------ MODULE MCPeople ------------------------------
(***************************************************************************)
(* Accounts, creators and the community around the markets, side by side:  *)
(* they share no variable, so that a behaviour moves one of them and what  *)
(* TLC finds of the whole holds of each.  Thresholds and lifetimes are the *)
(* smallest that can be reached, passed and missed.                        *)
(***************************************************************************)
EXTENDS Integers, FiniteSets, TLC

CONSTANTS
    Parts,          \* those that may be the one that moves
    Hands,          \* requests, sweeps, logins and searchers of whichever part it is
    Outcomes,       \* of the market under a thread, and under a challenge
    Reviewers,      \* of the account's flags, and of what they freeze
    \* Verification
    Signups, MaxAttempts, MaxCodes,
    \* Sessions
    TokenLife, EntryLife, SessionHorizon,
    \* SecondFactor
    MaxSecrets,
    \* AbuseDesk
    Sweepers, Others, WashWindow, WashCycles, Flood, Cluster, MaxTrades, AbuseHorizon,
    \* CreatorLadder
    Markets, Level2Clean, Level3Clean, Level3Volume, Level3Rate, MaxLive, Demotion,
    \* Nudges
    WindowCloses, EventAt, ProposalHours, MinHours, Floor, NudgeHorizon,
    \* Threads
    Authors, Reporters, Comments, Threshold, PerHour, Winner,
    \* Challenges
    People, MaxOpens,
    \* Opportunities
    MinSearchers, Creators, Ttl, GapHorizon,
    \* Leaderboard
    Players, Seeder, BoardMarkets, Weeks, MinSettled, MinTier, BoardSweeps,
    \* Following
    Fans, MaxToggles,
    \* TradeSheet
    Presses, MaxOpened,
    \* CreateForm
    Contents, MaxSends

ASSUME HandsAssumption == IsFiniteSet(Hands) /\ Hands # {}

ASSUME GuessesAssumption == MaxAttempts \in Nat

\* The entry of an account outlives every token it is for.
ASSUME LivesAssumption == TokenLife \in Int /\ EntryLife \in Int /\ TokenLife <= EntryLife

\* Levels are earned, and a better one allows more markets.
ASSUME LadderAssumption ==
    /\ IsFiniteSet(Markets)
    /\ Level2Clean \in Nat \ {0} /\ Level3Clean \in Nat
    /\ Level3Volume \in Nat /\ Level3Rate \in Nat
    /\ \A l \in 1 .. 3 : MaxLive[l] \in Nat /\ MaxLive[l] <= MaxLive[3]

\* There is an hour in which a market can be proposed.
ASSUME HoursAssumption ==
    /\ WindowCloses \in Nat /\ EventAt \in Nat /\ MinHours \in Nat
    /\ ProposalHours \in Nat \ {0} /\ Floor \in Nat /\ NudgeHorizon \in Nat

ASSUME NamesAssumption == "nobody" \notin People /\ "none" \notin Comments

\* Request ids are numbered in the order they are made up.
ASSUME PressesAssumption == Presses \subseteq Nat

\* The last tie-break is an order on ids, and whoever seeds has one.
ASSUME PlayersAssumption ==
    IsFiniteSet(Players) /\ Players \subseteq Int /\ Seeder \in Players

\* One market at a time, on every level.
LiveByLevel == <<1, 1, 1>>

Alike == Permutations(Hands) \cup Permutations(Markets)

VARIABLES
    part,           \* the one that moves in this behaviour
    \* Verification
    owners, verified, bonuses, otp, cooling, issued, sender, confirm, wrong,
    confirmedTogether,
    \* Sessions
    status, iat, login, denied, cutoff, reachable, decision, now, over,
    \* SecondFactor
    secret, sealed, confirmed, generated, work, proved, enrolledTogether,
    \* AbuseDesk
    kind, trades, device, flag, sweep, traderStatus, review, tradeTime, reviewCrossed,
    \* CreatorLadder
    market, activated, staked, rounds, listed, upheld, reviews, record, level, closing, missed,
    bypassed, undone, overlap,
    \* Nudges
    path, state, pools, stakers, lopsided, viewed, proposed, muted, hour, swept, nudge,
    log, overlapped, warranted,
    \* Threads
    threadMarket, open, comment, reports, request, recent, published, moderatedCrossed,
    \* Challenges
    side, challenge, answering, answeredCrossed,
    \* Opportunities
    searched, entry, markets, gapSweep, day, surfaced,
    \* Leaderboard
    backed, grade, settled, week, snapshot, sweeping,
    \* Following
    rows, asks, count, following, toggles, fansTold, countCrossed,
    \* TradeSheet
    opened, showing, entered, typed, submitting, queued, error, press, placed, unsure,
    \* CreateForm
    content, formPath, thinking, question, meter, formError, sending, submitted, drafts,
    sends, chosen, edited, sentTwice

Contact == INSTANCE Verification WITH Confirms <- Hands, together <- confirmedTogether

SignIn == INSTANCE Sessions WITH Tokens <- Hands, Horizon <- SessionHorizon

Factor == INSTANCE SecondFactor WITH Requests <- Hands, together <- enrolledTogether

Abuse == INSTANCE AbuseDesk WITH
    Horizon <- AbuseHorizon, status <- traderStatus, decision <- review, now <- tradeTime,
    crossed <- reviewCrossed

Ladder == INSTANCE CreatorLadder WITH Requests <- Hands, work <- closing

Prompt == INSTANCE Nudges WITH Sweeps <- Hands, Horizon <- NudgeHorizon, sweep <- nudge

Talk == INSTANCE Threads WITH market <- threadMarket, crossed <- moderatedCrossed

Dare == INSTANCE Challenges WITH crossed <- answeredCrossed

Gap == INSTANCE Opportunities WITH
    Searchers <- Hands, Horizon <- GapHorizon, sweep <- gapSweep

Board == INSTANCE Leaderboard WITH
    People <- Players, Creator <- Seeder, Markets <- BoardMarkets, Sweeps <- BoardSweeps,
    side <- backed, published <- snapshot

Fan == INSTANCE Following WITH step <- following, told <- fansTold, crossed <- countCrossed

Sheet == INSTANCE TradeSheet WITH trade <- placed

Form == INSTANCE CreateForm WITH path <- formPath, error <- formError, unsure <- sentTwice

contact == <<
    owners, verified, bonuses, otp, cooling, issued, sender, confirm, wrong,
    confirmedTogether>>

signin == <<status, iat, login, denied, cutoff, reachable, decision, now, over>>

factor == <<secret, sealed, confirmed, generated, work, proved, enrolledTogether>>

abuse == <<
    kind, trades, device, flag, sweep, traderStatus, review, tradeTime, reviewCrossed>>

ladder == <<
    market, activated, staked, rounds, listed, upheld, reviews, record, level, closing, missed,
    bypassed, undone, overlap>>

prompt == <<
    path, state, pools, stakers, lopsided, viewed, proposed, muted, hour, swept, nudge,
    log, overlapped, warranted>>

talk == <<
    threadMarket, open, comment, reports, request, recent, published, moderatedCrossed>>

dare == <<side, challenge, answering, answeredCrossed>>

gap == <<searched, entry, markets, gapSweep, day, surfaced>>

board == <<backed, grade, settled, week, snapshot, sweeping>>

fan == <<rows, asks, count, following, toggles, fansTold, countCrossed>>

sheet == <<
    opened, showing, entered, typed, submitting, queued, error, press, placed, unsure>>

form == <<
    content, formPath, thinking, question, meter, formError, sending, submitted, drafts,
    sends, chosen, edited, sentTwice>>

vars == <<
    part, contact, signin, factor, abuse, ladder, prompt, talk, dare, gap, board, fan, sheet,
    form>>

\* Whoever does not move starts in one state only.
Init ==
    /\ part \in Parts
    /\ Contact!Init
    /\ SignIn!Init
    /\ Factor!Init
    /\ part # "SecondFactor" => secret = 0
    /\ Abuse!Init
    /\ part # "AbuseDesk" => kind = "wash_trading"
    /\ Ladder!Init
    /\ Prompt!Init
    /\ part # "Nudges" => path = "seeded"
    /\ Talk!Init
    /\ Dare!Init
    /\ Gap!Init
    /\ Board!Init
    /\ Cardinality({p \in Players : grade[p] < MinTier}) <= 1
    /\ part # "Leaderboard" =>
           /\ grade = [p \in Players |-> 1]
           /\ backed = [p \in Players |-> [m \in BoardMarkets |-> "none"]]
    /\ Fan!Init
    /\ Sheet!Init
    /\ Form!Init

Next ==
    /\ UNCHANGED part
    /\ IF part = "Verification" THEN Contact!Next ELSE UNCHANGED contact
    /\ IF part = "Sessions" THEN SignIn!Next ELSE UNCHANGED signin
    /\ IF part = "SecondFactor" THEN Factor!Next ELSE UNCHANGED factor
    /\ IF part = "AbuseDesk" THEN Abuse!Next ELSE UNCHANGED abuse
    /\ IF part = "CreatorLadder" THEN Ladder!Next ELSE UNCHANGED ladder
    /\ IF part = "Nudges" THEN Prompt!Next ELSE UNCHANGED prompt
    /\ IF part = "Threads" THEN Talk!Next ELSE UNCHANGED talk
    /\ IF part = "Challenges" THEN Dare!Next ELSE UNCHANGED dare
    /\ IF part = "Opportunities" THEN Gap!Next ELSE UNCHANGED gap
    /\ IF part = "Leaderboard" THEN Board!Next ELSE UNCHANGED board
    /\ IF part = "Following" THEN Fan!Next ELSE UNCHANGED fan
    /\ IF part = "TradeSheet" THEN Sheet!Next ELSE UNCHANGED sheet
    /\ IF part = "CreateForm" THEN Form!Next ELSE UNCHANGED form

Spec == Init /\ [][Next]_vars

-----------------------------------------------------------------------------

\* One bonus per contact, and a capped number of guesses.
ContactHolds == Contact!ContactHolds

\* A session that was ended lets nobody in again.
EndedStaysEnded == SignIn!EndedStaysEnded

\* A confirmed second factor is one that a code proved.
ConfirmedWasProved == Factor!ConfirmedWasProved

\* A cleared flag is left alone, and a flood is counted right.
FlagsAreFair == Abuse!FlagsAreFair

\* The record counts every close, and the level follows it.
LadderHolds == Ladder!LadderHolds

\* Live markets, as the count of an opening takes them, stay within the cap.
LiveWithinCap == Ladder!LiveWithinCap

\* A market that traded counts as hosted volume.
VolumeIsHosted == Ladder!VolumeIsHosted

\* A void before the activation is not in the record.
EarlyVoidIsForgiven == Ladder!EarlyVoidIsForgiven

\* Every close has its review.
EveryCloseIsReviewed == Ladder!EveryCloseIsReviewed

\* Creators are told when there is something to say, and not too often.
NudgesKeepTime == Prompt!NudgesKeepTime

\* A market that waits for its result has asked for it.
AwaitedIsAsked == Prompt!AwaitedIsAsked

\* No creator hears the same thing twice in a row.
NeverTwiceInARow == Prompt!NeverTwiceInARow

\* A held take is read by nobody before a moderator puts it up.
HeldUntilPublished == Talk!HeldUntilPublished

\* The public count of followers is the number of them.
CountIsRows == Fan!CountIsRows

\* A place on the board is where its owner stands, and what one makes another
\* has lost.
StandingsHold == Board!PlacesAreStanding /\ Board!ProfitIsSomebodysLoss

\* The board of a week that is over has all that settled in it.
WeeksAreWhole == Board!WeeksAreWhole

\* A challenge is taken once and by the other side, an opportunity that a
\* creator has claimed stays claimed.
OffersStand == Dare!AnswerStands /\ Gap!ClaimStands

\* A second press of the button makes no second trade.
RetryNeverDoubles == Sheet!RetryNeverDoubles

\* What the sheet says was refused is never made.
RefusalStands == Sheet!RefusalStands

\* What the two pages tell their reader is what the API made of the request.
PagesTell == []Sheet!SheetTells /\ Form!FormTells
=============================================================================
