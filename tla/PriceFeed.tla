----------------------------- MODULE PriceFeed -----------------------------
(***************************************************************************)
(* One market's price on its way to one browser: trades commit under the   *)
(* market's lock and are broadcast afterwards, Redis keeps the last tick   *)
(* and tells the gateway, the gateway holds the newest one for its window, *)
(* and the browser, which joins the room some time after the server read   *)
(* the row for it, keeps what its clock stamp says is newer.  A price is   *)
(* the number of the trade that set it.                                    *)
(***************************************************************************)
EXTENDS Integers, FiniteSets

CONSTANTS
    MaxTrades,      \* bound on the trades
    MaxClock,       \* bound on the stamps
    MaxFaults       \* bound on lost ticks and dropped links

VARIABLES
    begun,          \* trades begun so far; the last may be open
    open,           \* the last trade is inside its transaction
    row,            \* the price in the market's row
    committed,      \* committed trades not yet stamped
    sending,        \* ticks on their way to Redis
    cache,          \* the tick kept under the market's key
    linked,         \* the gateway's subscriber is connected
    pending,        \* the tick waiting for the window to close
    rendered,       \* what the server read for a page not yet hydrated
    watching,       \* the page is open and in the market's room
    screen,         \* the store's entry for the market
    clock,
    faults,
    lost,           \* history: the trades whose tick never reached the page
    crossed         \* history: ticks, or their stamps, passed each other

vars == <<begun, open, row, committed, sending, cache, linked, pending,
          rendered, watching, screen, clock, faults, lost, crossed>>

NoTick == [trade |-> 0, at |-> -1]

Tick(t) == [trade |-> t, at |-> clock]

Init ==
    /\ begun = 0 /\ open = FALSE /\ row = 0
    /\ committed = {} /\ sending = {}
    /\ cache = NoTick
    /\ linked = TRUE
    /\ pending = NoTick
    /\ rendered = NoTick
    /\ watching = FALSE
    /\ screen = NoTick
    /\ clock = 1
    /\ faults = 0
    /\ lost = {} /\ crossed = FALSE

\* buy and sell, up to the commit.
Begin ==
    /\ ~open
    /\ begun < MaxTrades
    /\ begun' = begun + 1
    /\ open' = TRUE
    /\ UNCHANGED <<row, committed, sending, cache, linked, pending, rendered,
                   watching, screen, clock, faults, lost, crossed>>

Commit ==
    /\ open
    /\ open' = FALSE
    /\ row' = begun
    /\ committed' = committed \cup {begun}
    /\ UNCHANGED <<begun, sending, cache, linked, pending, rendered, watching,
                   screen, clock, faults, lost, crossed>>

RollBack ==
    /\ open
    /\ open' = FALSE
    /\ UNCHANGED <<begun, row, committed, sending, cache, linked, pending,
                   rendered, watching, screen, clock, faults, lost, crossed>>

\* broadcast: the stamp is taken when publish is called.
Broadcast(t) ==
    /\ t \in committed
    /\ committed' = committed \ {t}
    /\ sending' = sending \cup {Tick(t)}
    /\ UNCHANGED <<begun, open, row, cache, linked, pending, rendered, watching,
                   screen, clock, faults, lost, crossed>>

\* A mutant that keeps the first tick of the window.
HoldFirst(tick) == IF pending # NoTick THEN pending ELSE tick

\* enqueue: last write wins, whatever the stamps say.
Hold(tick) == tick

\* publish, one MULTI: the key and the channel.  A subscriber that is away
\* never gets the message.
Publish(tick) ==
    /\ tick \in sending
    /\ sending' = sending \ {tick}
    /\ cache' = tick
    /\ crossed' = (crossed \/ tick.trade < cache.trade \/ tick.at < cache.at
                           \/ \E other \in sending : other.trade < tick.trade
                           \/ \E t \in committed : t < tick.trade)
    /\ IF linked
       THEN pending' = Hold(tick) /\ UNCHANGED lost
       ELSE lost' = lost \cup {tick.trade} /\ UNCHANGED pending
    /\ UNCHANGED <<begun, open, row, committed, linked, rendered, watching,
                   screen, clock, faults>>

\* publish rejects, and broadcast swallows it.
LosePublish(tick) ==
    /\ tick \in sending
    /\ faults < MaxFaults
    /\ faults' = faults + 1
    /\ sending' = sending \ {tick}
    /\ lost' = lost \cup {tick.trade}
    /\ UNCHANGED <<begun, open, row, committed, cache, linked, pending,
                   rendered, watching, screen, clock, crossed>>

\* The store's apply.
Newer(current, tick) == IF current.at > tick.at THEN current ELSE tick

\* The window closes: whoever is in the room gets the tick.  A page that has
\* its price already and is not there does not.
Flush ==
    /\ pending # NoTick
    /\ pending' = NoTick
    /\ IF watching
       THEN screen' = Newer(screen, pending) /\ UNCHANGED lost
       ELSE /\ lost' = IF rendered # NoTick \/ screen # NoTick
                       THEN lost \cup {pending.trade} ELSE lost
            /\ UNCHANGED screen
    /\ UNCHANGED <<begun, open, row, committed, sending, cache, linked,
                   rendered, watching, clock, faults, crossed>>

\* The server renders the page from GET markets/:id, a price older than every
\* tick.
Render ==
    /\ ~watching
    /\ rendered = NoTick
    /\ rendered' = [trade |-> row, at |-> 0]
    /\ UNCHANGED <<begun, open, row, committed, sending, cache, linked,
                   pending, watching, screen, clock, faults, lost, crossed>>

\* The page runs its effects; seed does nothing when the store still has an
\* entry from an earlier visit.
Hydrate ==
    /\ rendered # NoTick
    /\ rendered' = NoTick
    /\ screen' = IF screen = NoTick THEN rendered ELSE screen
    /\ UNCHANGED <<begun, open, row, committed, sending, cache, linked,
                   pending, watching, clock, faults, lost, crossed>>

\* The socket connects, or connects again, and the page joins the room.
Join ==
    /\ ~watching
    /\ rendered = NoTick
    /\ screen # NoTick
    /\ watching' = TRUE
    /\ UNCHANGED <<begun, open, row, committed, sending, cache, linked,
                   pending, rendered, screen, clock, faults, lost, crossed>>

\* The page is left, or its socket drops; the store keeps its entry.
Leave ==
    /\ watching
    /\ faults < MaxFaults
    /\ faults' = faults + 1
    /\ watching' = FALSE
    /\ UNCHANGED <<begun, open, row, committed, sending, cache, linked,
                   pending, rendered, screen, clock, lost, crossed>>

LinkDrops ==
    /\ linked
    /\ faults < MaxFaults
    /\ faults' = faults + 1
    /\ linked' = FALSE
    /\ UNCHANGED <<begun, open, row, committed, sending, cache, pending,
                   rendered, watching, screen, clock, lost, crossed>>

\* Subscribed again; nothing missed is sent again.
LinkReturns ==
    /\ ~linked
    /\ linked' = TRUE
    /\ UNCHANGED <<begun, open, row, committed, sending, cache, pending,
                   rendered, watching, screen, clock, faults, lost, crossed>>

Clock ==
    /\ clock < MaxClock
    /\ clock' = clock + 1
    /\ UNCHANGED <<begun, open, row, committed, sending, cache, linked,
                   pending, rendered, watching, screen, faults, lost, crossed>>

Next ==
    \/ Begin \/ Commit \/ RollBack
    \/ \E t \in committed : Broadcast(t)
    \/ \E tick \in sending : Publish(tick) \/ LosePublish(tick)
    \/ Flush \/ Render \/ Hydrate \/ Join \/ Leave \/ LinkDrops \/ LinkReturns \/ Clock

\* A transaction ends, a broadcast is called after the commit, a command
\* reaches Redis or fails, and the window's timer fires.
Fairness ==
    /\ WF_vars(Commit \/ RollBack)
    /\ WF_vars(\E t \in committed : Broadcast(t))
    /\ WF_vars(\E tick \in sending : Publish(tick) \/ LosePublish(tick))
    /\ WF_vars(Flush)

Spec == Init /\ [][Next]_vars /\ Fairness

---------------------------------------------------------------------------

Shows(n) == screen.trade = n

\* Trades and ticks have come to rest.
AtRest == committed = {} /\ sending = {} /\ pending = NoTick

\* Once trading stops, the open page shows the price in the row for good, unless
\* the tick of the very trade that set that price never reached the page or two
\* ticks passed each other: whatever was lost before, "the next trade corrects
\* it" (TradeService.broadcast, PriceCacheService.publish, RealtimeGateway.enqueue
\* and the store's apply and seed).
ScreenCatchesUp == <>[](watching => Shows(row) \/ row \in lost \/ crossed)

\* The same of every moment, trading or not, at which no tick is on its way: the
\* safety that ScreenCatchesUp rests on.
ScreenIsRightAtRest ==
    AtRest /\ watching => Shows(row) \/ row \in lost \/ crossed

\* With every tick delivered, in order, the page that "goes live in the browser"
\* (market/[id]/page.tsx) shows the price in the row.  Not so: a tick sent
\* between the server's read and the room's join is not sent again.
PageGoesLive == AtRest /\ watching => Shows(row) \/ crossed
=============================================================================
