----------------------------- MODULE RateLimits -----------------------------
(***************************************************************************)
(* The budget of one class of endpoints.  A request spends one point of    *)
(* the account's budget and, where the class has one, one of the address's *)
(* budget; both are spent at once and either refuses it.  The counters are *)
(* in Redis; a node that cannot reach it counts in its own memory.         *)
(***************************************************************************)
EXTENDS Integers, FiniteSetsExt, FiniteSets

CONSTANTS
    Accounts,       \* authenticated callers, all behind one address
    Nodes,          \* API nodes
    Points,         \* perUser.points
    AddressPoints,  \* perIp.points, 0 when the class has no address budget
    Duration,       \* the window of either
    Block,          \* blockDuration
    Horizon         \* bound on the time

Address == "address"

Keys == Accounts \cup (IF AddressPoints = 0 THEN {} ELSE {Address})

Budget(k) == IF k = Address THEN AddressPoints ELSE Points

Redis == "redis"

Stores == Nodes \cup {Redis}

VARIABLES
    counter,        \* counter[store][key]: points used, and when they lapse
    reachable,      \* Redis answers
    now,
    accepted,       \* history: accepted[a][t], requests let through at t
    sharedOnly      \* history: Redis has answered every request so far

vars == <<counter, reachable, now, accepted, sharedOnly>>

Init ==
    /\ counter = [s \in Stores |-> [k \in Keys |-> [used |-> 0, ends |-> 0]]]
    /\ reachable = TRUE
    /\ now = 0
    /\ accepted = [a \in Accounts |-> [t \in 0 .. Horizon |-> 0]]
    /\ sharedOnly = TRUE

\* A mutant that blocks nobody and lets the block's worth through.
SpendLate(c, points) ==
    LET used == IF now >= c.ends THEN 1 ELSE IF c.used > points THEN points + 2 ELSE c.used
    IN [used |-> used, ends |-> IF used = 1 THEN now + Duration ELSE c.ends]

\* consume() of the limiter library: a lapsed window starts again at this
\* request, and the first request over the budget blocks the key.  What comes
\* after that one is counted no further.
Spend(c, points) ==
    LET used == IF now >= c.ends THEN 1 ELSE IF c.used > points THEN points + 2 ELSE c.used + 1
    IN [used |-> used,
        ends |-> IF used = 1 THEN now + Duration
                 ELSE IF used = points + 1 THEN now + Block
                 ELSE c.ends]

\* The insurance limiter of the node stands in for Redis.
Store(n) == IF reachable THEN Redis ELSE n

Spent(s, a) == [k \in Keys |->
    IF k \in {a, Address} THEN Spend(counter[s][k], Budget(k)) ELSE counter[s][k]]

Passes(s, a) == \A k \in Keys \cap {a, Address} : Spent(s, a)[k].used <= Budget(k)

Consume(n, a) ==
    LET s == Store(n)
    IN /\ counter' = [counter EXCEPT ![s] = Spent(s, a)]
       /\ accepted' = IF Passes(s, a) THEN [accepted EXCEPT ![a][now] = @ + 1] ELSE accepted
       /\ sharedOnly' = (sharedOnly /\ reachable)
       /\ UNCHANGED <<reachable, now>>

Outage == reachable' = ~reachable /\ UNCHANGED <<counter, now, accepted, sharedOnly>>

Tick ==
    /\ now < Horizon
    /\ now' = now + 1
    /\ UNCHANGED <<counter, reachable, accepted, sharedOnly>>

Next ==
    \/ \E n \in Nodes, a \in Accounts : Consume(n, a)
    \/ Outage
    \/ Tick

Spec == Init /\ [][Next]_vars

\* The requests of a let through in the last Duration ticks.
Recent(a) == MapThenSumSet(LAMBDA t : accepted[a][t],
    {t \in 0 .. Horizon : t > now - Duration /\ t <= now})

\* A fixed window lets at most one point less than two budgets through in any
\* stretch of its length, and so does each store an outage sends the account
\* to (RateLimitService.limiterFor).
BurstBound == \A a \in Accounts :
    Recent(a) <= (2 * Points - 1) * (IF sharedOnly THEN 1 ELSE Cardinality(Stores))
=============================================================================
