# StakePot in TLA+

StakePot is a prediction market: users stake virtual currency (SPC) on the
outcomes of a question, a cost curve prices the shares, and when the result is
known the pot is paid to the holders of the winning outcome. The API
(`src/apps/api`) keeps everything in Postgres, defers deadlines to bullmq and
orders trades through Redis streams; the arithmetic is a package of its own
(`src/packages/engine`), and a web client (`src/apps/web`) shows prices as they
move.

This directory holds TLA+ modules translated from that code, TLC
configurations that check them on small instances, and TLAPS proofs of the
results that matter most. Parts 1 to 3 are the inventory and the plan, parts 4
to 8 what is modelled, checked and proved, part 9 how to run it.

Paths below are relative to `src/apps/api/src` unless they start with `docs/`,
`packages/` or `web/` (`src/apps/web/src`).

## 1. Components

| Component | State it keeps | Operations that change it | What makes it correct | Module |
|---|---|---|---|---|
| **Engine** `packages/engine/src` | none; functions of a share vector | `buy`, `sell`, `seed`, `resolve` | pot = C(q) - C(q0); payouts and fees never exceed the pot | `Pricing` |
| **Trading** `trade/trade.service.ts` | shares, stakes, pot, positions, trade rows | `buy`, `sell`, under the market's row lock | four tables move together; nobody trades after the event | `Trading` |
| **Trade queue** `trade/trade-queue.service.ts` | a Redis stream, lock and list entry per market; announcements; an in-process inline chain | `submit`, `drain`, `drainAll`, `executeInline`, `outcomeOf` | each request once, in order, by one worker, answered truthfully | `TradeQueue` |
| **Seeding** `community/seed.service.ts` | syndicates, contributions | `seedSolo`, `seedOfficial`, `openSeedingRound`, `contribute`, `closeSeedingRound` | a round fills in time or refunds everybody | `Seeding` |
| **Windows** `community/community.service.ts`, `community/activation.ts` | market row, its deadlines | `create`, `closeWindow` | a market trades only with its crowd, else everything goes back | `Windows` |
| **Settlement** `trade/resolution.service.ts`, `community/void.service.ts` | escrow, fees, bonds | `resolve`, `voidAndRefund` | money leaves escrow once, to the digit, and nothing stays | `Settlement` |
| **Resolution flow** `resolution/resolution-flow.service.ts` | resolution rows, disputes | `propose`, `fileDispute`, `decideDispute`, `finalize`, `freezeDueMarkets` | four eyes, the dispute window | `ResolutionFlow` |
| **Approvals, prizes** `approvals`, `leaderboard/prize.service.ts` | approvals, prize runs | `propose`, `approve`, `reject`; `draft`, `submit`, `cancel`, the executors | a second person, executed once | `Approvals` |
| **Wallet, responsible gaming** `wallet`, `rg` | balance; limits, cool-offs, exclusions | `escrow`, `release`; `setLimits`, `coolOff`, `selfExclude`, `assertMayStake` | nobody overdraws or passes a limit | `Stakes` |
| **Question engine, official markets** `community/question-engine.service.ts`, `market/official-market.service.ts` | drafts, the shelf | `generate`, `openFromDraft`, `reject` | a place is filled once, a draft becomes one market | `Shelf` |
| **Deadline jobs** `community/funding-window.worker.ts` | bullmq jobs, one id per kind and market | `schedule*`, `rearmOpenWindows`, `handle` | a deadline in the database is met, whatever happens to Redis | `Deadlines` |
| **Platform config** `platform-config` | versioned values | `refresh`, `activateDue`, `get` | an approved change arrives, in one version at a time | `PlatformConfig` |
| **Reconciliation** `reconciliation` | runs, the withdrawal freeze | `run` | a verdict is about the wallets it read | `Reconciliation` |
| **Ledger audit, status** `hardening/ledger-audit.service.ts`, `status` | incidents and their updates | `run`, `open`, `update` | reports what the services leave behind and nothing else | `LedgerAudit` |
| **Auth** `auth` | users, codes, TOTP secrets, revocations | `signup`, `issue`, `verify`, `login`, `revoke`, `beginEnrolment`, `confirmEnrolment` | one bonus per contact; an ended session stays ended; a confirmed factor was proved | `Verification`, `Sessions`, `SecondFactor` |
| **Guards and routes** `auth/*.guard.ts`, `http` | none of their own | every staff route | nobody does what their role leaves to another | `Access` |
| **Hardening** `hardening` | rate-limit counters, abuse flags | `consume`; `sweep`, `review` | a budget bounds every window; a cleared flag is left alone | `RateLimits`, `AbuseDesk` |
| **Support** `support` | tickets, messages | `open`, `reply`, `resolve`, `escalateOverdue` | the state says whose turn it is | `Support` |
| **Creator platform** `creator` | profile counters, autopsies, nudges, opportunities, followers | `record`, `recordSettlement`, `recomputeLevel`, sweeps, `claim`, `follow`, `unfollow` | the record counts each close it is told of once; nudges keep time; a claim stands; the count is the rows | `CreatorLadder`, `Nudges`, `Opportunities`, `Following` |
| **Community layer** `community-layer` | comments, reports, challenges, receipts | `post`, `report`, `moderate`, `open`, `accept` | a held take is unread; a challenge is taken by one person | `Threads`, `Challenges` |
| **Leaderboards** `leaderboard/leaderboard.service.ts` | snapshots | `snapshotAll` | a place is its owner's standing | `Leaderboard` |
| **Realtime** `realtime`, `web/store`, `web/hooks` | last tick in Redis, pending ticks, the page's store | `broadcast`, `publish`, flush, `apply` | an open page ends up with the price in the row | `PriceFeed` |
| **Trade sheet, create form** `web/components/trade-sheet.tsx`, `web/app/create/page.tsx` | one page's state and the request under way | press, poll, edit, check, submit | what the page says is what the API made of the request | `TradeSheet`, `CreateForm` |
| **Analytics, admin reads, audit log, integrations, infrastructure, design tokens** | append-only rows, configuration | - | - | none |

## 2. How they interact, and what is hard

One market is where everything meets. Trades, seeds, contributions, proposals,
disputes, voids and payouts take the market's row lock (`SELECT ... FOR
UPDATE`) and are serial. Around them are actors that read first and write later
without it: the freeze sweep, `finalize`'s checks, `decideDispute`, the bond
forfeit's executor. Deadlines are delivered at least once and possibly late, to
a market that may have been filled, traded, resolved or voided meanwhile. Money
arrives in one user's escrow for four reasons (stake, seed, contribution, bond)
and leaves it by one of three doors (payout, refund, forfeit) that each must
know about the other reasons. Exits are priced by today's book and paid from
escrow that was filled at yesterday's price.

The trade queue is concurrent in the usual sense: several API processes, a lock
with an expiry, at-most-once delivery within a consumer group, a retry that may
reach another node, a Redis command that fails after it was executed, a process
that dies with entries in its hands.

Nearly everything else is one pattern: a request reads rows at read committed,
decides, and writes by id a few awaits later, with nothing locked in between.
What differs is what the write is conditional on: a unique key (`AbuseDesk`,
`Leaderboard`, the prize run), an `updateMany` with the old state in its
`where` (`Challenges`, `Opportunities`), an increment (`CreatorLadder`,
`Following`'s follow), or nothing. The modules keep the read and the write
apart so that this difference is what decides each property, and several
properties say "unless two of them overlapped", with a history variable for the
overlap, where the code excludes everything else but not that.

`PROJECT.json` lists every hazard at its line with the properties that cover
it, or the reason none does.

## 3. Plan

Done first: `Pricing`, `MarketState`, `Trading`, `Settlement`, `Seeding`,
`Windows`, `ResolutionFlow`, their composition `Market`, the abstract
`EscrowPromise` it implements, and `TradeQueue`, with their proofs. Done next:
the modules around them, in the order jobs and configuration, money and staff,
accounts, creators and community, pages. Then the proofs about all of these: the
market's money and its promise, the queue's order, and the safety of the
components beside the market. Every property a passing run checks is now stated
by a theorem, but for those of liveness.

What is left, in order of worth:

1. `Shelf` composed with `Windows` and `Seeding`, so that an opening's crashes
   meet the real market and not a row.
2. `Stakes` composed with two copies of `Market`: the overdraft across markets
   together with what it does to a payout.

## 4. Modules

| Module | What it is |
|---|---|
| `Pricing` | The engine: cost, refund, fees, payouts. The curve is the constant `Cost(_)` with assumptions. |
| `MarketState` | One market's rows, the users' balances, and the jobs that hold something they have read. `TypeOK`. |
| `Trading`, `Settlement`, `Seeding`, `Windows`, `ResolutionFlow` | The services of one market, an action per method or per half of one. |
| `Market` | All of them composed; every property of the market; `PunctualSpec`. |
| `EscrowPromise` | Abstract: deposits and withdrawals while open, one closing that empties the escrow, nothing after it. |
| `TradeQueue` | One market's queue over several nodes; `RunningSpec`. |
| `Approvals` | The four-eyes queue with requests that overlap, and the prize runs it pays. |
| `Stakes` | One wallet and its limits over several markets. |
| `RateLimits` | Two budgets, in Redis and in the processes. |
| `Support`, `Shelf` | The ticket desk; the drafts queue and the shelf. |
| `Access` | Every guarded route as a door: what its guards and its service ask for, against a role that changes under a token. |
| `Verification`, `Sessions`, `SecondFactor` | Accounts: contact, sessions, second factor. |
| `AbuseDesk` | The detectors over trades and devices, the sweep, the review. |
| `CreatorLadder`, `Nudges`, `Opportunities`, `Following` | A creator's markets from opening to close under the states the services write, with limits, reviews and record; prompts; the search-gap feed; followers. |
| `Threads`, `Challenges`, `Leaderboard` | Comments and moderation, challenges, the boards. |
| `TradeSheet`, `CreateForm` | The two pages that keep a request under way; a trade may be handed to the stream's worker, to an inline execution, or to both. |
| `PlatformConfig` | Versions of one key; the cached value of several processes. |
| `Reconciliation` | EXTENDS `PlatformConfig`: the nightly run freezes through the same key. |
| `Deadlines` | One deadline as a row and as a job. |
| `PriceFeed` | A price from the commit to the page: rendered on the server, hydrated, in its room, each a step of its own. |
| `LedgerAudit` | The audit's reads beside every service that moves one market's money, and the incident. |
| `MCMarket`, `MCTradeQueue` | Values of the constants for TLC. |
| `MCStaff`, `MCPeople`, `MCPlatform` | Components side by side (part 5); their constants, with what the proofs assume of them. |
| `SumLemmas` | What sums over a finite set do, for every proof about money and counts. |
| `MarketSafety`, `MarketBooks` | Theorems about the market: its rows and settlement; its money, and that it implements `EscrowPromise`. |
| `TradeQueueProofs`, `StaffProofs`, `PeopleProofs`, `PlatformProofs` | Theorems about the queue and about the components of each MC module. |

Definitions whose comment begins "A mutant" are not part of any specification:
each is the wrong form of its neighbour which shows that a property would
notice.

### Correspondence

*Rows to variables.* `state`, `shelf`, `path`, `window` are columns of `Market`;
`q` and `staked` of `Outcome`; `pos`, `trades`, `bond`, `syn`/`contrib`,
`proposer`, `disputes` the rows of the tables of those names; `avail`, `esc`,
`fees`, `issued` the ledger's balances of the fund classes, for this market.
`started`, `roundOver`, `dispClock` say that the clock has passed a column.
`sweep`, `deciding`, `finalizing`, `forfeiting` are what a method has read and
not yet acted on. `settled` is a history variable. In the other modules each
variable's comment names its column; history variables say so.

*Methods to actions.* A method that takes the row lock is one action, with
everything it calls: `contribute` that reaches the minimum fills, seeds and
activates in the same step; `resolve` posts payouts, fees, bond and residual
and closes the proposal in one. A method that reads without a lock is two
actions or more, `...Read` and `...Write`; one that commits twice
(`SupportService.reply`, `AutopsyService`'s record and counters,
`openFromDraft`) is an action per commit, with a crash possible between. In the
queue every await is an action of its own.

*Abstractions.* Money and shares are whole units; divisions round down one by
one as postings do, so residuals exist and `balanceOnLargestPayout` is modelled
by what it does (its smallest payout takes the residual). A buyer names shares
and not an amount. Seeds and contributions are whole sets. `FinalizeCheck` takes
`finalize`'s three unlocked reads (277-316) as one step. A sponsor's fee is its
rounded share, the last sponsor's remainder being equal to it up to rounding
that the residual absorbs. One dispute per user, one seeding round per market.
Staff contribute to no round, `ledger.adjust` is not used.
In the queue a node runs one drain at a time, the poll's reading of the list and
its taking of the lock are one step (a stale list only causes an empty drain),
and a command that fails may or may not have been executed.
In `TradeSheet` and `CreateForm` what the form holds is a number that changes
with each edit, since only whether an answer is about the present contents
matters. A trade that the sheet places is handed to the stream's worker, to an
inline execution, or to both, since a command of `submit` may fail after it was
executed; each ends with a fill, a refusal or an error of its own. An error of
the worker is announced as a refusal, a commit whose acknowledgement was lost
included, and any announcement may be lost. That the Redis client resends a
command by itself is not modelled. In `Threads` a text is the verdict of the moderation rules on it. In
`PriceFeed` a price is the number of the trade that set it, and a clock stamp
may be equal for two trades; the server's read, the hydration and the joining of
the room are three steps, and what is flushed to a page between the first and
the last is in `lost`. `Approvals` executes the kinds whose executor
checks or moves something; the market's own executors are in `Settlement`.

`CreatorLadder` has the states that the services write, the sweep's two halves
included. `finalize`'s checks and its commit are one step there, and an active
market may be voided at its floor whichever path it took: both allow more than
the code. `Nudges` leaves out that a sweep takes 500 markets at most.
`Leaderboard` has whole exits only, at a loss or at a gain; their fee, and the
creator's share, are entries of other types, which the board does not read.
`LedgerAudit` moves one unit at a time, a payout is any split of what was held,
and an exit takes any refund up to the pot from somebody who has bought: a
superset of what the curve gives, so that what the audit does not report there
it does not report of the code. The exit's fee moves between two balances that
the checks add up and is left out; a solo seed does not ask whether somebody
has traded, and a void comes from any state.

Small departures that change no state a property sees: a version is promoted
serially in `PlatformConfig`, where two promotions at once let the second run
into `platform_config_one_active_per_key` and `refresh()` throw
(`platform-config/platform-config.service.ts:58-67`); one wallet at a time
drifts in `Reconciliation`; `TradeQueue` leaves out a consumer group that cannot
be made (`trade/trade-queue.service.ts:289`, `393-401`) and a lock whose `SET NX`
failed after it was executed (285), which is a lock nobody frees before it
expires.

## 5. Runs

| Run | Instance | Shows |
|---|---|---|
| `official` | official market, two traders, one may exit, two staff | `BooksAgree`: conservation, escrow = pot, stakes and positions against the outcome rows, with exits; the pot identity; the payout is exactly the pot, unless an exit at a profit has left a debt |
| `community` | both paths, bond, a round with three possible sponsors, fair deadlines | `FairToBackers`: refunds are whole, bonds and contributions included, and the creator takes no side; an open round is short; settlement happens once; the abstract promise is kept; `ClockRules`: no trade after the event, the floor is a crowd; `DeadlinesComeTrue`: rounds, windows and started markets do not stay open |
| `review` | creator's market, two staff, one disputant, one approver | `finalize`'s unlocked checks hold when the payout commits; bond forfeits lose no money; the inductive invariant of the proofs |
| `queue` | two users, two nodes, two crashes | One worker, order, a lock that comes back |
| `queue_faults` | a request, its retry and another call; a node without Redis; crash, failed command, expired locks | The request is traded once; a fill is announced only for a trade; inline chains move on; the inductive invariant |
| `staff` | `Approvals`, `Stakes`, `RateLimits`, `Support`, `Access`, `Shelf` | Two people and one execution per proposal; overdrafts and passed limits only by stakes that met; a bound on every window of a budget; whose turn a ticket is; separation of duties over all routes; one market per draft and a shelf with a size |
| `people` | `Verification` ... `Leaderboard`, `TradeSheet`, `CreateForm`: thirteen components | One bonus per contact and capped guesses; ended sessions; proved second factors; cleared flags and the flood's two pointers; the creator's record, level and cap; nudges in time and apart; held takes; challenges and claims; standings and profits; the follower count; what the pages tell of a request, whatever was lost, pressed again, executed twice or typed meanwhile |
| `platform` | `Reconciliation` with `PlatformConfig`, `Deadlines`, `PriceFeed`, `LedgerAudit` | Verdicts; approved changes, which arrive and not before their date; every open window has its job, which closes it and not early; the screen catches up with the row, unless the tick of that row was lost or two crossed; an audit under which nothing moves reports an open round's contributions and an escrow below zero, and nothing else; an incident's state is its last word |
| `payout_beyond_pot`, `late_sweep`, `round_swallowed`, `queue_stranded` | one market; the queue | Four sentences of the documents that the code does not keep (part 7) |

*Side by side.* `MCStaff`, `MCPeople` and `MCPlatform` put components in one
specification that share no variable: the constant variable `part` chooses which
of them moves in a behaviour, the others stay in their initial state. The state
graph is the disjoint union of the components' graphs, so a property of one is
checked exactly as it would be alone, and a failure names its component. They
are not compositions. Components that do share state are composed: `Market`
from five services, `Reconciliation` with `PlatformConfig`, `Approvals` with
the prize desk. The constant `Parts` names the components of a run.

`CHECK_DEADLOCK FALSE` because a settled market, a queue whose calls have all
been answered, and a component whose bounded clock or requests are used up,
stop.

### Bounds, and why they are enough

- *Market.* Two outcomes; at most three shares outstanding of each. The test
  curve `MCCost` charges 3 for a share of the leading outcome, 1 for one that
  trails and 4 for a set: the smallest whole curve with the assumed properties
  in which an exit can win or lose, and payouts leave residuals. The proofs need
  no such bound. Rates are quarters (`BpsBase` = 4), so each fee is positive for
  some amounts and rounds to zero for others.
- Two traders: one to move the price against the other, or to be the crowd the
  creator is not. A third sponsor (`MaxSponsors` = 2) meets the cap. `MinSeed` =
  2 sets against contributions of 1 or 2: a round is short, exact or overshot.
  `MaxDrift` bounds how far exits push an outcome's stake below zero; -2
  includes stakes whose pot less stake exceeds the pot, which the fee's clamp is
  for. `Endowment` bounds how much is traded.
- `MinPool` = `MinBackers` = 0 in `community`, because a funding market takes no
  stakes (part 7): with positive thresholds its activation is dead code, with
  zero it is checked.
- *Queue.* `BatchSize` 2 against at most three entries, so a drain reads full,
  partial and empty batches; `MaxCrashes` and `MaxFailures` of one or two allow
  a fault at each await, and a crash of the node that repairs one.
  `LocksExpire` separates what needs drains shorter than 30 seconds (`queue`)
  from what does not (`queue_faults`).
- *Staff.* Two requests under way (`Hands`) are what every overlap needs; two
  prize runs, so that a proposal can name a run that was replaced; three stakes
  on two markets, two of which share a row lock; budgets of two and three points
  over a window of two ticks, so that the double burst across a window's edge
  and an outage both happen; an SLA of one hour against a horizon of three;
  two drafts, two topics and a shelf of one place.
- *People.* Two markets for a creator and a cap of one at every level: enough to
  reach the third level and lose it again, to open past the cap while the first
  is frozen, and for every way of closing beside another; a horizon one past the last deadline in
  `Nudges` and `Opportunities`; three trades and two identities for the
  detectors' thresholds; two presses and two openings of the sheet. `Threads` has one
  comment: replies to another comment, and the hourly limit on posts, are
  modelled but do not occur in the run.
- *Platform.* Three versions of one key and two processes; one run of the
  reconciliation over two accounts and a posting in between; two attempts
  instead of five, a loss of Redis and two crashes; three trades, one lost message
  and a clock of two stamps, so that equal stamps occur.
- *Leaderboard.* Three people on one market: the creator, whose seed counts
  as a position, beside a winner, a loser or somebody who sold, at a loss or at a
  gain; a tie for a place above or below another.
- *Audit.* Two traders with a unit each: a creator with a bond beside a sponsor, a
  buyer beside a seller at a profit; three lines of an incident, which two updates
  that cross need.

### Fairness

`Punctual` (market): weak fairness of the deadline handlers, of the passing of
the clock and of both halves of the sweep, and of nothing users or staff do. A
deadline job is retried five times, kept when it fails and re-armed from the
database on boot (`community/funding-window.worker.ts:99-111`,
`171-184`, `193-240`); the sweep repeats every five minutes. What this assumes is
the subject of `Deadlines`, which shows when it fails: a job that failed for
good keeps its id and is not re-armed, a job of an earlier deadline keeps the
id of the later one, and a crash between commit and scheduling leaves nothing
until the next boot.

`Running` (queue): weak fairness per node of its drain and its poll (a 50 ms
interval), per call of its inline execution, and of the lock's expiry, which is
Redis's. Submissions, crashes and failures are not fair.

`Deadlines`: weak fairness of adding the job after the commit, of bullmq
starting what is due and ending what it runs (by success or failure), and of a
process that is down booting again. `PriceFeed`: a trade that began ends by
commit or rollback, a tick that was committed is broadcast and published or
lost, and a pending tick is flushed by the gateway's timer; the reader, and
losses, are not fair. `PlatformConfig`: each process serves, since every request
reads the configuration. The other modules state safety only.

## 6. Proofs

All constants are arbitrary within the named assumptions: any finite set of
outcomes and traders, any curve that is natural-valued, strictly monotone and
charges `SetPrice` for a set, any rates, amounts, requests, nodes and bounds.
`MCStaff`, `MCPeople` and `MCPlatform` keep their constants, with assumptions of
their own, and only the `.cfg` gives them values; TLC evaluates each assumption
on the run of its module.

| Theorem | Statement |
|---|---|
| `MarketSafety!TypeCorrect` | `Spec => []TypeOK` |
| `MarketSafety!PotIdentityHolds` | `Spec => []PotIdentity` |
| `MarketSafety!RoundsStayShort` | `Spec => []OpenRoundIsShort` |
| `MarketSafety!SettledOnce` | `Spec => NoSecondSettlement` |
| `MarketSafety!PayoutsAreReviewed` | `Spec => PayoutIsReviewed` |
| `MarketSafety!MarketInvariant` | `Spec => []MarketInv` |
| `MarketBooks!MoneyIsConserved` | `Spec => []MoneyConserved` |
| `MarketBooks!BookIsConsistent` | `Spec => [](StakedIsPot /\ PositionsAreShares)` |
| `MarketBooks!BooksAlwaysAgree` | `Spec /\ NoStaleForfeit => []BooksAgree` |
| `MarketBooks!BackersAreSafe` | `Spec /\ NoStaleForfeit => []FairToBackers` |
| `MarketBooks!PayoutsAreThePot` | `Spec /\ NoStaleForfeit => PayoutIsThePot` |
| `MarketBooks!BooksWithoutForfeits` | `Approvers = {}` and `Spec` give `[]BooksAgree`, `[]FairToBackers` and `PayoutIsThePot` |
| `MarketBooks!ClockRulesHold` | `Spec => ClockRules` |
| `MarketBooks!PromiseIsKept` | `Spec`, `NoStaleForfeit` and `[](settled = "none" => NobodyOwes)` give `KeepsThePromise`: every step is a step of `EscrowPromise` or a stutter |
| `MarketBooks!PromiseIsKeptWithoutExits` | `Exiters = {}`, `Spec` and `NoStaleForfeit` give `KeepsThePromise` |
| `TradeQueueProofs!QueueInvariant` | `Spec => []QueueInv` |
| `TradeQueueProofs!RequestsTradeOnce` | `Spec => []TradedOnce` |
| `TradeQueueProofs!FillsAreReal` | `Spec => []FilledIsTraded` |
| `TradeQueueProofs!OneWorker` | `~LocksExpire` and `Spec` give `[]OneWorkerAtATime` |
| `TradeQueueProofs!StreamInOrder` | `~LocksExpire` and `Spec` give `[]InOrder` |
| `StaffProofs!FourEyesHold` | `Spec => []FourEyes` |
| `StaffProofs!OnlyTogetherHolds` | `Spec => []OnlyTogether` |
| `StaffProofs!WhoseTurnHolds` | `Spec => []WhoseTurn` |
| `StaffProofs!DutiesStayApart` | `Spec => []DutiesApart` |
| `StaffProofs!BurstsAreBounded` | `Duration <= Block` and `Spec` give `[]BurstBound` |
| `StaffProofs!TheShelfHolds` | `Spec => []ShelfHolds` |
| `PeopleProofs!ContactsHold` | `Spec => []ContactHolds` |
| `PeopleProofs!SessionsStayEnded` | `Spec => []EndedStaysEnded`, with `LivesAssumption` |
| `PeopleProofs!ConfirmedIsProved` | `Spec => []ConfirmedWasProved` |
| `PeopleProofs!TheLadderHolds` | `Spec => []LadderHolds`, with `LadderAssumption` |
| `PeopleProofs!CreatorsAreTold` | `Spec => []NudgesKeepTime`, with `HoursAssumption` |
| `PeopleProofs!TakesAreHeld` | `Spec => []HeldUntilPublished` |
| `PeopleProofs!OffersStandFirm` | `Spec => OffersStand` |
| `PeopleProofs!TheCountIsTheRows` | `Spec => []CountIsRows` |
| `PeopleProofs!PagesTellTrue` | `Spec => PagesTell` |
| `PeopleProofs!PlacesAndProfits` | `Spec => []StandingsHold`, with `PlayersAssumption` |
| `PeopleProofs!FlagsStayFair` | `Spec => FlagsAreFair` |
| `PlatformProofs!TheAuditIsTrue` | `Spec => []AuditIsTrue` |
| `PlatformProofs!DeadlinesAreArmed`, `WindowsCloseOnTime` | `Spec => []Jobs!DeadlineIsArmed`, `Spec => Jobs!ClosesOnTime`: the two safety halves of what `platform` checks of `Deadlines` |
| `PlatformProofs!VerdictsAreRight` | `Spec => []Books!VerdictIsRight`: a safety half of `ConfigHolds` |
| `PlatformProofs!ChangesWaitForTheirDate` | `Spec => []Books!ServedIsDue`: the other |
| `PlatformProofs!RestingScreensAreRight` | `Spec => []Feed!ScreenIsRightAtRest`: the safety that `ScreenCatchesUp` rests on, of every moment and not only of the end |

`SumLemmas` holds what a sum over a finite set does (adding an index, changing
one value, adding two functions, exchanging two sums), which the community
modules define by a recursive function and state nothing about. An induction
theorem takes an operator as a parameter, which no installed prover can
instantiate; `SumLemmas` makes the induction on a set instead: a set that holds
0 and the successor of each member is `Nat`. A recursive function, or a fold, is
a `CHOOSE` of whatever solves its equation; the proofs show that a solution
exists, by the same induction on partial ones, and what every solution is.

*Market, by its rows* (`MarketSafety`). `PotIdentity` is inductive on the type
invariant: a trade moves the pot by a difference of two costs, a seed by `k`
sets, and a seed is accepted on flat books only. `OpenRoundIsShort` needs that
an unopened round has no contributions (`RoundsAreShort`), since opening does
not reset them. `NoSecondSettlement` is not about the state column, which the
sweep can write back to `pending_resolution` after a settlement. What holds is
`SettledIsClosed`: a settled market has no pot, no held bond and no positive
escrow, so a second `resolve` has less than the two legs a posting needs and is
refused, a second void moves nothing, and no seed, purchase or contribution is
possible. `PayoutIsReviewed` needs `ChecksHold`: what a finaliser has checked
stays true until somebody pays, because a proposal is only closed by a payout
and a served window is only cleared after one.

*Market, by its money* (`MarketBooks`). `MoneyInv` says that balances, escrow
and fees less what was issued are constant, and that a filled round is full; it
holds of every step, the payout's rounding included, because the smallest
payout takes up the residual. `BookAgrees` (stakes sum to the pot, positions to
the shares) is kept by every trade and seed and is what makes a payout find all
its winners. `EscrowInv` is the strengthening for the escrow: it is exactly
pot, bond and open round (`EscrowBacksPot`), only somebody who sold can be in
debt to it (`NoDebts`), and whoever never sold holds what they put in (`Whole`).
It is not inductive by itself: an approved forfeit that read the bond as held
and commits after a payout or a void took it takes a second bond out of an
escrow that has none (`ForfeitRead`, `ForfeitCommit`). So the theorems that rest on it carry
`NoStaleForfeit`, that this one race does not happen, as an action formula
beside `Spec`. Where nobody approves forfeits it holds by itself
(`BooksWithoutForfeits`); the other theorems need no such condition, and the
race loses no money (`MoneyIsConserved`). `EscrowPromise` is implemented while
`NobodyOwes`: an exit at a profit makes an escrow negative (part 7), and a
payout then is not what the abstract market does. Where nobody may exit, this
is no condition.

*Queue.* `TradedOnce` alone is inductive because the insert checks uniqueness;
`QueueInv` adds what makes the rest of a step meaningful: a drain that executes
has an entry in hand, an inline execution is in its node's chain and runs at its
head only. `FilledInv` says that whoever is about to announce a fill has seen
the row. `OneWorkerAtATime` needs `WorkerHoldsLock`: a node that drains is the
lock's holder - which an unlock by another node would break, so it holds only as
long as no lock expires under its drain. `OrderInv` builds on it: the batch in
hand is the last piece of the stream that was delivered, everything traded is
before the rest of it, and no entry is delivered twice.

*Staff.* `TwoPeople` and `ApprovedIsExecuted` hold of any number of overlapping
approvals, because who filed a proposal never changes once it is filed
(`DeskInv`); that a proposal is executed once needs `OneApproval`, that until
two approvals meet one request at most has passed the question. `StakesInv` is
that a stake not `together` with another is alone between its questions and its
commit. `TurnInv` follows a ticket through a reply's two commits. `DutyInv`
bounds what was done by the roles that were held, tokens included. `BudgetInv`
cuts every window into the fixed window it began in and the next, for each
store: this is where the block has to last as long as the window (part 7).
`DraftsInv` and `RoomInv` say what each request under way on a draft will find,
and that the cycle's count of free places is covered by what was live.

*People.* `ContactInv` counts the confirmations that are past the guess count.
`EndedStaysEnded` speaks of one moment; what is inductive is `Covered`: each
ended token has an entry, its own or the account's, that lasts as long as it
could be presented. It needs that no token is signed twice and none is from the
future, and that the 24 hours of an account's entry
(`auth/token-revocation.service.ts:48`) are not shorter than a token's life,
which is configuration. A confirmed factor is proved because until two enrolment
requests overlap at most one is under way (`Alone`), and sealing writes back
what was proved when it was read (`ResealsProved`). The ladder's record is a
`Tally` of the closes that a review follows, neither missed nor still on their
way, until a late sweep or round writes over a closed market; the level
(`LevelInv`) is known to a recomputation that has begun, and a market let past
the count finds room (`CapInv`), which counts markets up to their freeze.
Of the nudges, until two sweeps met, one is under way and what it found quiet is
quiet when it sends (`SweepsAlone`), and what a swept hour warranted has been
said within the throttle's hours or is in a sweep's hands (`HeardOrUnderWay`).
`TalkInv`
bounds what a report may have read of a take; `DareInv` says that an answer is
written only where none was; `FanInv` ties the count to the rows through the
request of each fan. `TradesInv` says that one press is under way, that an
opening which is not `unsure` has one press that is a trade or may still become
one, and that what the sheet says of a request is what one of its executions,
of which there are at most two, came to (`PlacedOf`); `FormInv` counts the drafts
against what the page was told, and ties the question that is away to the form.

*Boards.* `BoardInv` says that every row, published or computed by a sweep that
has not published yet, was ranked on the scores of one moment; the rest is about
functions of that moment, which a step cannot disturb. `OrderIsSorted` needs that
`Before` is a strict order, its last tie-break being the id
(`PlayersAssumption`); `EveryPlaceIsTaken` then counts: in a strict order of `n`
people, for each `i` in `1 .. n` somebody has `i - 1` others before them, because
the number of predecessors is an injection into `0 .. n - 1`. `Order` is written
that way, and not as a sort of the community modules, whose definition the
provers do not see. The ranks are a recursion; `PlacesExist` gives it the
solution "one more than the number who did better", which is the property.
`ProfitsAddUp` turns the profit of each person, a sum over markets, into a sum
over markets of what all persons made on each; on one market that is its payouts
less its stakes, which the engine's division keeps to the pot, the seeds' part
included, and to what exits at a gain took beyond the pot
(`MarketOverpaysBySeeds`).

*Abuse desk.* `FlagInv` says that a sweep about to update, with no decision since
it looked, saw a flag that was not cleared and still is not. `DealsInv` keeps the
trades in the order of time; for such a sequence `PointersKeepCount` follows
the fold of the flood rule: after `k` trades the first pointer is at the earliest
trade of the hour that ends with the `k`-th, from which it never needs to go back
(`PointerGoesOn`), and the count is the best of the hours so far.

*Platform.* `RowsInv` says what the services leave behind: an escrow that is
pot, bond and open round until the market closes, stakes that sum to the pot,
postings of two sides. `ReadsInv` says that an audit under which nothing
committed has read rows that are still so, and so has found what an open round
and an exit leave behind, and nothing else; `NewsInv` that the update under way
has written the newest line. `JobInv` follows the row's deadline into
the job of the same id. `RunInv` ties what a reconciliation has read of the
ledger to what it is now, and `OneOff` says that the wallets add up to nothing
until one of them drifts. `ConfigInv` says that one version is active and that
what a process has listed or serves is of versions that were due, which a
promotion of a stale list does not break, since a version once due stays so.
`FeedInv` says, as long as none passed another, that the price in the row is
lost, the last that arrived or still under way (`RowIsNewest`), and that a page
holds a price no older than the last that arrived, unless that one was lost on
its way or waits for the gateway's window (`KeepsUp`); the stamps are in it
because the store drops what its stamp says is older.

*Model-checked only.* Liveness (`DeadlinesComeTrue`, `LockComesBack`,
`InlineMovesOn`, `ChangesArrive`, `DueJobsClose`, and that a page catches up
once trading stops) is out of the prover's reach.

## 7. Where the code and its documents disagree

Four disagreements have a run of their own, in which TLC shows the behaviour, and
an entry in `PROJECT.json` with the sentence it contradicts.

- **`payout_beyond_pot`** - an exit at a profit makes the seller's escrow
  negative; the payout skips it, pays more than the pot, and the difference is
  taken from the smallest winner and called rounding.
- **`late_sweep`** - the freeze sweep writes `pending_resolution` over a market
  that was proposed, paid or voided since it was listed.
- **`round_swallowed`** - a solo seed over an open round strands the sponsors'
  contributions, which the payout then gives to others.
- **`queue_stranded`** - an entry listed between a drain's `XLEN` and its `SREM`
  waits for somebody else's trade.

The models contain more behaviours that contradict a sentence of the code or its
documents. The sentence is then a formula of its own, which no run lists because
it is false: added to the configuration named here as an `INVARIANT` (the first as a
`PROPERTY`), TLC shows the behaviour.

| Formula | Configuration | Sentence | What happens |
|---|---|---|---|
| `BondLeavesOnce` | `review` | "this bond is already ${bond.state}", `approvals/approvals.service.ts:277` | a bond that a payout or a void gave back is forfeited as well, by an executor that read it as held, and leaves escrow twice |
| `TicketsNotLedger` | `staff` | "Support staff can read tickets but not the ledger", `auth/roles.guard.ts:19`; `docs/platform-architecture.md:511` | the dashboard, the user page and the ledger audit show sums of the ledger to staff who answer tickets (`http/admin.controller.ts:124-192`, `622-648`) |
| `LiveWithinCap` | `people` | "settle one before opening another", `community/community.service.ts:86-90` | a frozen market is not counted as live; another is opened, and the proposal makes it two |
| `EveryCloseIsReviewed` | `people` | "autopsy covers every close", `community/community.service.ts:261` | a round that did not fill, and a void by four eyes, are followed by no review |
| `EarlyVoidIsForgiven` | `people` | a void before activation "is not held against the creator", `creator/autopsy.service.ts:113-115` | the review reads the state after the void wrote it, and holds it against them |
| `VolumeIsHosted` | `people` | "a voided market still hosted the stakes", `creator/creator.service.ts:261-263` | the review reads the pot after it was emptied: no market adds to the hosted volume |
| `AwaitedIsAsked` | `people` | "states a creator can still do something about", `creator/nudge.service.ts:15` | a frozen market is in none of them; its creator is not asked to resolve it |
| `NeverTwiceInARow` | `people` | "never the same kind twice in a row", `creator/nudge.service.ts:23-25` | the throttle compares hours and no kinds |
| `RetryNeverDoubles` | `people` | "A retry must never double-fill", `web/components/trade-sheet.tsx:178` | a press after a lost answer is a request of its own, and both are filled |
| `RefusalStands` | `people` | "A refusal is an answer", `trade/trade-queue.service.ts:343` | a request put in the stream by a call that failed (151-160) is refused inline and filled by the worker later |
| `PageGoesLive` | `platform` | "then goes live in the browser", `web/app/market/[id]/page.tsx:76-77` | a tick flushed after the server rendered the page and before it joined the room reaches nobody |
| `RoundIsNoAlarm` | `platform` | "any violation is a bug in the platform", `hardening/ledger-audit.service.ts:19-21` | every seeding round under way is reported |
| `ExitIsNoAlarm` | `platform` | "something wrote around it", `hardening/ledger-audit.service.ts:185-186` | an escrow that an exit at a profit made negative is reported, for good |
| `WeeksAreWhole` | `people`, with two players and two markets | a market counts "on the day it resolves", `leaderboard/leaderboard.service.ts:28-29` | what settles after a week's last sweep is on no board of that week |

*What the passing properties except.* The properties that hold state the
exception that the code makes, and say nothing of it. Two kinds reach across the
project.

- `BooksAgree`, `FairToBackers`, `PayoutIsThePot` and the promise are checked where
  nobody approves forfeits and proved under `NoStaleForfeit`; `NoSecondSettlement`
  is about what settlements move, and not the forfeit after one. A stale forfeit
  is what `BondLeavesOnce` finds; no passing property would notice another.
- A history variable (`crossed`, `together`, `over`, `overlap` and the like) records
  that two requests passed the same read, or that an action overtook another.
  Where a property holds *unless* it is set, the property shows that nothing but
  that one race can break the rule, and the race itself does break it. This is so
  of the single execution in `FourEyes`, `OnlyTogether` (two markets against one
  balance), `WhoseTurn`, `ShelfHolds` (two people or a crash on one draft), the
  bonus of `ContactHolds`, `ConfirmedWasProved`, the level and the cap in
  `LadderHolds`, the spacing in `NudgesKeepTime`, `HeldUntilPublished`, the side
  a challenger is read to hold in `OffersStand`, `CountIsRows`, an incident's
  last word in `AuditIsTrue`, and the screen for ticks that crossed.

Met while modelling, without a formula of their own; the models have the behaviour,
and the properties that hold state the exception it makes.

*One market.* A dispute filed during `finalize`'s reads is open when everybody
is paid. A funding market takes no stakes
(`trade/trade.service.ts:240-242`), so with positive thresholds the organic path
always voids. Two staff deciding one dispute overwrite each other.

*Queue.* Entries handed to a worker that died are claimed by nobody. A retry
whose first entry is still pending gets a second one, although the comment at
`trade/trade-queue.service.ts:143` says there must not be one (it is harmless
unless the first is refused and the second filled).

*Rate limits.* A block replaces the window it was earned in
(`hardening/rate-limit.service.ts:75`), so where it is shorter than the window it
ends it early. `market_create` (3600/600), `comment` (3600/300) and `read`
(60/30) are such (`hardening/rate-limits.ts:71`, `:85`, `:101`): a person who
posts on gets about twenty comments per five minutes of block and not, as the
comment at `:86-87` has it, twenty an hour. `BurstsAreBounded` needs
`Duration <= Block` for this reason, which the classes `trade`, `auth` and
`share_card` meet and the instance of `staff` has; with two points, a window of
three and a block of one, TLC lets four requests through in two ticks.

*Money and staff.* Racing approvals, or a double click, execute a proposal
twice, a prize included, though `leaderboard/prize.service.ts:185` calls the
payment idempotent by its state; a cancellation in flight overwrites `paid`.
Everybody on the board's list is told they won, also those whose missing
verification kept them from being paid. Stakes on two markets at once overdraw
one balance, and two cool-offs set at once may keep the shorter; exclusion is
not asked for seeds and contributions. A user's message on an escalated ticket
reopens it with a fresh deadline, and a sweep escalates by id what was answered
meanwhile. `RolesGuard` admits a route without `@Roles`, where its own comment
(`auth/roles.guard.ts:20-23`) says it denies, and a role in a token outlives its
change. Opening a draft is several commits: two people, or a crash, can make two
markets of one draft, and the cycle counts places without the suggestions that
are still pending.

*Jobs, configuration, audits.* A job's id is its kind and market, so that a
deadline set again before the first job ran adds nothing; a job that failed for
good is kept and blocks its re-arming; a participation close does not look at
the clock. A process that promotes a list of due versions read earlier can
re-activate a superseded one, and the reconciliation's freeze fails if a version
of its key is pending. Its two reads, and the audit's five, are of different
moments and report differences that were never there; the audit leaves out
markets in `pending_resolution` and opens a new incident for each failed run.

*Accounts, creators, community.* Two confirmations with one code pay the bonus
twice. A market activated after its event is told overdue first. A claimed
opportunity is refreshed with the others, which the comment at
`creator/opportunity.service.ts:147-148` says must not happen; its claim is not
released when the claimer's market voids, and an expired one can still be
claimed. A report flags by id what it read as live, and
makes a take readable that was held in between. An unfollow writes the follower
count it read less one. Payouts to seed positions count as returns on the board
while seeds are not stakes.

*Pages.* An error or a pending answer outlives the reopening of the sheet. A
trade that filled is answered with a failure when the count that follows it
fails (`http/trades.controller.ts:100`).
The co-pilot's answer overwrites what was typed since it was asked; a second
press on the create form after a lost answer files a second draft. A page that
returns to a market shows the store's old entry until the next trade, and the
gateway keeps the tick that came last, not the newest.

## 8. What is not modelled

Draft fields, wording, the inbox and its channels, receipts' layout and
everything that only reads. Floating-point evaluation of the logarithmic curve:
`Cost` is assumed monotone and exact on sets. Two drains of one process side by
side. Currencies other than SPC. Password hashing, the encryption of secrets and
the signing of tokens. What the language model writes (a choice) and the scores
that order feeds and drafts. Deposit limits, which nothing reads. The pages that
only render what they fetched. Analytics, admin reads, the audit log's rows,
integrations, infrastructure and design tokens: `not_modelled` in
`PROJECT.json`, each with its reason; a component marked `partly` says what is
left out of it.

## 9. Running

    tlc -workers 2 -config official.cfg MCMarket.tla
    tlc -workers 2 -config queue.cfg MCTradeQueue.tla
    tlc -workers 2 -config people.cfg MCPeople.tla
    tlapm MarketBooks.tla

The modules to give `tlapm` are `SumLemmas`, `MarketSafety`, `MarketBooks`,
`TradeQueueProofs`, `StaffProofs`, `PeopleProofs` and `PlatformProofs`; each
proves its own theorems, from the lemmas of those it extends. The longest,
`PeopleProofs`, takes about a quarter of an hour.

The largest runs are `people` (1.4 million states, under three minutes with two
workers) and `platform` (830,000, with liveness, over two); `staff` (550,000),
`official` and `review` (about 300,000) take under one. The others take seconds.
