------------------------------- MODULE Stakes -------------------------------
(***************************************************************************)
(* One person's money and limits across several markets.  A stake locks    *)
(* its own market's row, asks the responsible-gambling rules, reads the    *)
(* balance and posts; nothing locks the wallet or the settings, so stakes  *)
(* on different markets and changes of the settings interleave between     *)
(* those reads.  Every amount is one unit.                                 *)
(***************************************************************************)
EXTENDS Integers, FiniteSets

CONSTANTS
    Markets,
    Requests,       \* stakes sent by the person, each used once
    MarketOf,       \* MarketOf[r]
    Contributions,  \* those of them that go into a sponsors' round
    Changes,        \* changes of the settings under way at once
    Balance,        \* what the person starts with
    PlatformStake,  \* rg_platform_stake_limit_spc
    PlatformLoss,   \* rg_platform_loss_limit_spc
    MaxCoolOff,     \* rg_cooloff_max_days
    MaxDays         \* bound on the days that pass

VARIABLES
    available,      \* the wallet row
    escrowed,
    staked,         \* trades of kind buy today: what stakedToday sums
    lost,           \* net of today's postings on user_available, negated
    settings,       \* the rg_settings row
    change,         \* change[c]: a setLimits or coolOff between read and write
    request,        \* request[r]: where the stake is
    day,
    together        \* history: two stakes were past their reads at once

vars == <<available, escrowed, staked, lost, settings, change, request, day, together>>

\* No limit of one's own.
Unset == 99

Limits == {0, 1, Unset}

Open == [excluded |-> FALSE, until |-> 0, stakeLimit |-> Unset, lossLimit |-> Unset]

Idle == [at |-> "idle", saw |-> Open]

Init ==
    /\ available = Balance
    /\ escrowed = 0
    /\ staked = 0
    /\ lost = 0
    /\ settings = Open
    /\ change = [c \in Changes |-> Idle]
    /\ request = [r \in Requests |-> "new"]
    /\ day = 0
    /\ together = FALSE

Lesser(a, b) == IF a < b THEN a ELSE b

Later(a, b) == IF a > b THEN a ELSE b

money == <<available, escrowed, staked, lost>>

---------------------------------------------------------------------------
(* A stake.                                                                *)

Holding == {r \in Requests : request[r] \in {"locked", "allowed", "funded"}}

\* SELECT ... FOR UPDATE on the market: one stake of a market at a time.
Lock(r) ==
    /\ request[r] = "new"
    /\ \A q \in Holding : MarketOf[q] # MarketOf[r]
    /\ request' = [request EXCEPT ![r] = "locked"]
    /\ UNCHANGED <<money, settings, change, day, together>>

CoolingOff(s) == s.until > day

StakeLimit == Lesser(settings.stakeLimit, PlatformStake)

LossLimit == Lesser(settings.lossLimit, PlatformLoss)

LostToday == Later(lost, 0)

\* assertMayStake, on a connection of its own.
MayStake ==
    /\ ~settings.excluded
    /\ ~CoolingOff(settings)
    /\ staked + 1 <= StakeLimit
    /\ LostToday < LossLimit

\* A trade asks the rules; a contribution to a round never does.
Ask(r) ==
    /\ request[r] = "locked"
    /\ request' = [request EXCEPT ![r] =
           IF r \in Contributions \/ MayStake THEN "allowed" ELSE "refused"]
    /\ together' = (together \/ \E q \in Requests \ {r} : request[q] \in {"allowed", "funded"})
    /\ UNCHANGED <<money, settings, change, day>>

\* A mutant that looks at what is escrowed too.
Covers(n) == available + escrowed >= n

\* assertAffordable.
Affords(n) == available >= n

\* WalletService.escrow reads the balance.
ReadBalance(r) ==
    /\ request[r] = "allowed"
    /\ request' = [request EXCEPT ![r] = IF Affords(1) THEN "funded" ELSE "refused"]
    /\ UNCHANGED <<money, settings, change, day, together>>

\* The postings increment the wallet, whatever it holds by now.
Commit(r) ==
    /\ request[r] = "funded"
    /\ request' = [request EXCEPT ![r] = "staked"]
    /\ available' = available - 1
    /\ escrowed' = escrowed + 1
    /\ staked' = IF r \in Contributions THEN staked ELSE staked + 1
    /\ lost' = lost + 1
    /\ UNCHANGED <<settings, change, day, together>>

\* A settled market: part of the escrow comes back as a payout.
PayBack ==
    /\ escrowed > 0
    /\ escrowed' = escrowed - 1
    /\ available' = available + 1
    /\ lost' = lost - 1
    /\ UNCHANGED <<staked, settings, change, request, day, together>>

---------------------------------------------------------------------------
(* The settings.                                                           *)

StartChange(c, kind) ==
    /\ change[c].at = "idle"
    /\ change' = [change EXCEPT ![c] = [at |-> kind, saw |-> settings]]
    /\ UNCHANGED <<money, settings, request, day, together>>

\* Looser than what the row held when it was read: during a cool-off, taking
\* a limit away or setting one where there was none counts as loosening.
Loosens(saw, next) == next = Unset \/ saw.stakeLimit = Unset \/ next > saw.stakeLimit

\* Only the fields named are written.
SetLimits(c, limit) ==
    LET saw == change[c].saw
        refused == saw.excluded \/ (CoolingOff(saw) /\ Loosens(saw, limit))
    IN /\ change[c].at = "limits"
       /\ settings' = IF refused THEN settings ELSE [settings EXCEPT !.stakeLimit = limit]
       /\ change' = [change EXCEPT ![c] = Idle]
       /\ UNCHANGED <<money, request, day, together>>

\* Extended, never shortened: the later of what was read and what is asked.
CoolOff(c, days) ==
    /\ change[c].at = "cooloff"
    /\ settings' = [settings EXCEPT !.until = Later(change[c].saw.until, day + days)]
    /\ change' = [change EXCEPT ![c] = Idle]
    /\ UNCHANGED <<money, request, day, together>>

\* POST account/limits, and a limit may be cleared.
PostLimits(c) == StartChange(c, "limits") \/ \E limit \in Limits : SetLimits(c, limit)

\* POST account/cool-off.
PostCoolOff(c) ==
    StartChange(c, "cooloff") \/ \E days \in 1 .. MaxCoolOff : CoolOff(c, days)

SelfExclude ==
    /\ ~settings.excluded
    /\ settings' = [settings EXCEPT !.excluded = TRUE]
    /\ UNCHANGED <<money, change, request, day, together>>

\* The day's sums are over the last 24 hours.
NextDay ==
    /\ day < MaxDays
    /\ Holding = {}
    /\ day' = day + 1
    /\ staked' = 0
    /\ lost' = 0
    /\ UNCHANGED <<available, escrowed, settings, change, request, together>>

Next ==
    \/ \E r \in Requests : Lock(r) \/ Ask(r) \/ ReadBalance(r) \/ Commit(r)
    \/ PayBack
    \/ \E c \in Changes : PostLimits(c) \/ PostCoolOff(c)
    \/ SelfExclude
    \/ NextDay

Spec == Init /\ [][Next]_vars

---------------------------------------------------------------------------

\* The wallet goes below zero, and the day's stakes pass the platform's cap,
\* only through two stakes on different markets that were both past the
\* questions at once (WalletService.escrow, RgService.assertMayStake).
OnlyTogether == available < 0 \/ staked > PlatformStake => together
=============================================================================
