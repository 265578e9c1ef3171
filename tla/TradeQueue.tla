----------------------------- MODULE TradeQueue -----------------------------
(***************************************************************************)
(* TradeQueueService for one market: submissions append to the market's    *)
(* Redis stream, one drain at a time executes the entries in order, and    *)
(* the waiting caller reads the announcement. When Redis does not answer a *)
(* submission is executed in the caller's own process instead.             *)
(*                                                                         *)
(* Every await is a step of its own. An entry is named by the call that    *)
(* appended it. Redis and Postgres survive the crash of a node. The five   *)
(* minutes an announcement lives are longer than any caller waits.         *)
(***************************************************************************)
EXTENDS Naturals, Sequences, FiniteSets

CONSTANTS
    Calls,         \* invocations of submit
    RequestOf,     \* the request id each of them carries: a retry repeats it
    Nodes,         \* API processes; each may drain the market, one drain at a time
    Offline,       \* nodes that could not reach Redis when they started
    Home,          \* the node a call arrives at
    Free,          \* nobody holds the lock
    BatchSize,     \* COUNT of xreadgroup
    MaxCrashes,    \* bound: crashes of nodes
    LocksExpire,   \* whether a drain may outlive the 30 seconds of its lock
    MaxFailures    \* bound: commands Redis fails, having executed them or not

VARIABLES
    stream,        \* every entry ever appended, in order
    handed,        \* how many of them the consumer group has handed out
    deleted,       \* those of them that were deleted
    listed,        \* the market is in ACTIVE_MARKETS
    lock,          \* holder of the market's lock
    drain,         \* what each node's drain will do next
    batch,         \* entries it was handed and has not finished
    trades,        \* trade rows in the order of their commits
    filledKeys,    \* announcements, by request
    rejectedKeys,
    call,          \* what each submission will do next, or its answer
    chain,         \* inlineTail: each node's inline executions, in order
    crashes, failures

redisVars == <<stream, handed, deleted, listed, lock, filledKeys, rejectedKeys>>
nodeVars  == <<drain, batch, chain>>
faultVars == <<crashes, failures>>
vars == <<redisVars, nodeVars, trades, call, faultVars>>

Requests == {RequestOf[c] : c \in Calls}

DrainSteps == {"idle", "read", "replay", "commit", "tell_filled", "tell_rejected", "remove",
               "length", "unlist", "unlock"}

Answers == {"filled", "rejected", "queued", "failed", "lost"}

CallSteps == Answers \cup {"new", "append", "list", "nudge", "wait", "inline", "running"}

ASSUME QueueAssumption ==
    /\ IsFiniteSet(Calls) /\ IsFiniteSet(Nodes) /\ Nodes # {}
    /\ DOMAIN RequestOf = Calls
    /\ Offline \subseteq Nodes /\ Home \in [Calls -> Nodes]
    /\ Free \notin Nodes
    /\ BatchSize \in Nat \ {0} /\ MaxCrashes \in Nat
    /\ LocksExpire \in BOOLEAN /\ MaxFailures \in Nat

Init ==
    /\ stream = <<>> /\ handed = 0 /\ deleted = {}
    /\ listed = FALSE /\ lock = Free
    /\ drain = [n \in Nodes |-> "idle"] /\ batch = [n \in Nodes |-> <<>>]
    /\ trades = <<>> /\ filledKeys = {} /\ rejectedKeys = {}
    /\ call = [c \in Calls |-> "new"] /\ chain = [n \in Nodes |-> <<>>]
    /\ crashes = 0 /\ failures = 0

TypeOK ==
    /\ stream \in Seq(Calls) /\ handed \in 0 .. Len(stream) /\ deleted \subseteq Calls
    /\ listed \in BOOLEAN /\ lock \in Nodes \cup {Free}
    /\ drain \in [Nodes -> DrainSteps] /\ batch \in [Nodes -> Seq(Calls)]
    /\ trades \in Seq([call : Calls, by : {"worker", "inline"}])
    /\ filledKeys \subseteq Requests /\ rejectedKeys \subseteq Requests
    /\ call \in [Calls -> CallSteps] /\ chain \in [Nodes -> Seq(Calls)]
    /\ crashes \in 0 .. MaxCrashes /\ failures \in 0 .. MaxFailures

(***************************************************************************)
(* The trades table, as TradeService.buy and sell see it: replay reads it  *)
(* before the market's lock is taken, and the unique request id is checked *)
(* by the insert.                                                          *)
(***************************************************************************)

Traded(r) == \E i \in DOMAIN trades : RequestOf[trades[i].call] = r

\* A mutant of the schema: request ids are not unique.
InsertAny(r) == TRUE

\* Trade.requestId is @unique: a second insert fails, as an error that is no refusal.
InsertAllowed(r) == ~Traded(r)

Insert(c, by) ==
    /\ InsertAllowed(RequestOf[c])
    /\ trades' = Append(trades, [call |-> c, by |-> by])

(***************************************************************************)
(* submit.                                                                 *)
(***************************************************************************)

\* A command fails, which the model counts.
RedisFails == failures < MaxFailures /\ failures' = failures + 1

Goes(c, step) == call' = [call EXCEPT ![c] = step]

\* Idempotency, before anything is enqueued.
Check(c) ==
    /\ call[c] = "new" /\ Home[c] \notin Offline
    /\ Goes(c, IF Traded(RequestOf[c]) THEN "filled" ELSE "append")
    /\ UNCHANGED <<redisVars, nodeVars, trades, faultVars>>

\* executeInline: behind the node's other inline executions.
JoinChain(c) ==
    /\ Goes(c, "inline")
    /\ chain' = [chain EXCEPT ![Home[c]] = Append(@, c)]

\* redis === null: straight to the inline path.
WithoutRedis(c) ==
    /\ call[c] = "new" /\ Home[c] \in Offline
    /\ JoinChain(c)
    /\ UNCHANGED <<redisVars, drain, batch, trades, faultVars>>

XAdd(c) == stream' = Append(stream, c)

Enqueue(c) ==
    /\ call[c] = "append"
    /\ XAdd(c)
    /\ Goes(c, "list")
    /\ UNCHANGED <<handed, deleted, listed, lock, filledKeys, rejectedKeys, nodeVars, trades,
                   faultVars>>

\* The command fails, with or without its effect.
EnqueueFails(c) ==
    /\ RedisFails
    /\ call[c] = "append"
    /\ XAdd(c) \/ UNCHANGED stream
    /\ JoinChain(c)
    /\ UNCHANGED <<handed, deleted, listed, lock, filledKeys, rejectedKeys, drain, batch, trades,
                   crashes>>

List(c) ==
    /\ call[c] = "list"
    /\ listed' = TRUE
    /\ Goes(c, "nudge")
    /\ UNCHANGED <<stream, handed, deleted, lock, filledKeys, rejectedKeys, nodeVars, trades,
                   faultVars>>

ListFails(c) ==
    /\ RedisFails
    /\ call[c] = "list"
    /\ listed' \in {listed, TRUE}
    /\ JoinChain(c)
    /\ UNCHANGED <<stream, handed, deleted, lock, filledKeys, rejectedKeys, drain, batch, trades,
                   crashes>>

\* A mutant whose lock is taken with no NX.
MayDrainAnyway(n) == n \notin Offline /\ drain[n] = "idle"

\* SET lock name EX 30 NX
MayDrain(n) == n \notin Offline /\ drain[n] = "idle" /\ lock = Free

StartDrain(n) == lock' = n /\ drain' = [drain EXCEPT ![n] = "read"]

\* The nudge is one attempt: if somebody is draining, it is over.
Nudge(c) ==
    /\ call[c] = "nudge"
    /\ Goes(c, "wait")
    /\ IF MayDrain(Home[c]) THEN StartDrain(Home[c]) ELSE UNCHANGED <<lock, drain>>
    /\ UNCHANGED <<stream, handed, deleted, listed, filledKeys, rejectedKeys, batch, chain,
                   trades, faultVars>>

\* The waiter finds an announcement; a fill is looked up in the database.
Told(c) ==
    /\ call[c] = "wait"
    /\ \/ RequestOf[c] \in filledKeys /\ Traded(RequestOf[c]) /\ Goes(c, "filled")
       \/ /\ ~(RequestOf[c] \in filledKeys /\ Traded(RequestOf[c]))
          /\ RequestOf[c] \in rejectedKeys /\ Goes(c, "rejected")
    /\ UNCHANGED <<redisVars, nodeVars, trades, faultVars>>

\* Or its patience ends, and it takes a last look.
StopWaiting(c) ==
    /\ call[c] = "wait"
    /\ Goes(c, IF Traded(RequestOf[c]) THEN "filled" ELSE "queued")
    /\ UNCHANGED <<redisVars, nodeVars, trades, faultVars>>

(***************************************************************************)
(* runInline: the node's first inline execution, then the next.            *)
(***************************************************************************)

InlineReplay(c) ==
    /\ call[c] = "inline"
    /\ Head(chain[Home[c]]) = c
    /\ IF Traded(RequestOf[c])
       THEN Goes(c, "filled") /\ chain' = [chain EXCEPT ![Home[c]] = Tail(@)]
       ELSE Goes(c, "running") /\ UNCHANGED chain
    /\ UNCHANGED <<redisVars, drain, batch, trades, faultVars>>

\* A mutant whose chain stops at the first failure.
UnblocksOnSuccess(c, answer) ==
    chain' = IF answer = "filled" THEN [chain EXCEPT ![Home[c]] = Tail(@)] ELSE chain

\* The tail swallows success and failure alike.
Unblocks(c, answer) == chain' = [chain EXCEPT ![Home[c]] = Tail(@)]

\* The trade commits, is refused, or fails.
InlineCommit(c) ==
    /\ call[c] = "running"
    /\ \/ Insert(c, "inline") /\ Goes(c, "filled") /\ Unblocks(c, "filled")
       \/ \E answer \in {"rejected", "failed"} :
             Goes(c, answer) /\ Unblocks(c, answer) /\ UNCHANGED trades
    /\ UNCHANGED <<redisVars, drain, batch, faultVars>>

(***************************************************************************)
(* drain.                                                                  *)
(***************************************************************************)

Steps(n, step) == drain' = [drain EXCEPT ![n] = step]

\* drainAll, every 50 ms, over the listed markets.
Poll(n) ==
    /\ listed
    /\ MayDrain(n)
    /\ StartDrain(n)
    /\ UNCHANGED <<stream, handed, deleted, listed, filledKeys, rejectedKeys, batch, chain,
                   trades, call, faultVars>>

\* What '>' reads from: the first entry no consumer of the group was handed.
NextEntry == handed + 1

LastEntry == IF Len(stream) < handed + BatchSize THEN Len(stream) ELSE handed + BatchSize

Handed == SubSeq(stream, NextEntry, LastEntry)

Read(n) ==
    /\ drain[n] = "read"
    /\ handed' = LastEntry
    /\ batch' = [batch EXCEPT ![n] = Handed]
    /\ Steps(n, IF Handed = <<>> THEN "length" ELSE "replay")
    /\ UNCHANGED <<stream, deleted, listed, lock, filledKeys, rejectedKeys, chain, trades, call,
                   faultVars>>

\* A failed read counts as an empty one, even if the entries were handed out.
ReadFails(n) ==
    /\ RedisFails
    /\ drain[n] = "read"
    /\ handed' \in {handed, LastEntry}
    /\ Steps(n, "length")
    /\ UNCHANGED <<stream, deleted, listed, lock, filledKeys, rejectedKeys, batch, chain, trades,
                   call, crashes>>

\* A mutant that keys announcements by entry and not by request.
ExecutingEntry(n) == Head(batch[n])

\* The request of the entry in hand.
Executing(n) == RequestOf[Head(batch[n])]

\* execute: the request is replayed from the trades table,
Replay(n) ==
    /\ drain[n] = "replay"
    /\ Steps(n, IF Traded(Executing(n)) THEN "tell_filled" ELSE "commit")
    /\ UNCHANGED <<redisVars, batch, chain, trades, call, faultVars>>

\* A mutant that announces whatever happened as a fill.
CommitToldFilled(n) ==
    /\ drain[n] = "commit"
    /\ \/ Insert(Head(batch[n]), "worker") /\ Steps(n, "tell_filled")
       \/ Steps(n, "tell_filled") /\ UNCHANGED trades
    /\ UNCHANGED <<redisVars, batch, chain, call, faultVars>>

\* or executed: it commits, or it is refused or fails, which is announced alike.
Commit(n) ==
    /\ drain[n] = "commit"
    /\ \/ Insert(Head(batch[n]), "worker") /\ Steps(n, "tell_filled")
       \/ Steps(n, "tell_rejected") /\ UNCHANGED trades
    /\ UNCHANGED <<redisVars, batch, chain, call, faultVars>>

\* The announcement, which Redis may lose.
TellFilled(n) ==
    /\ drain[n] = "tell_filled"
    /\ \/ filledKeys' = filledKeys \cup {Executing(n)} /\ UNCHANGED failures
       \/ RedisFails /\ UNCHANGED filledKeys
    /\ Steps(n, "remove")
    /\ UNCHANGED <<stream, handed, deleted, listed, lock, rejectedKeys, batch, chain, trades,
                   call, crashes>>

TellRejected(n) ==
    /\ drain[n] = "tell_rejected"
    /\ \/ rejectedKeys' = rejectedKeys \cup {Executing(n)} /\ UNCHANGED failures
       \/ RedisFails /\ UNCHANGED rejectedKeys
    /\ Steps(n, "remove")
    /\ UNCHANGED <<stream, handed, deleted, listed, lock, filledKeys, batch, chain, trades,
                   call, crashes>>

\* XACK and XDEL. A lost XDEL leaves an entry nobody is handed again.
Remove(n) ==
    /\ drain[n] = "remove"
    /\ \/ deleted' = deleted \cup {Head(batch[n])} /\ UNCHANGED failures
       \/ RedisFails /\ UNCHANGED deleted
    /\ batch' = [batch EXCEPT ![n] = Tail(@)]
    /\ Steps(n, IF Len(batch[n]) = 1 THEN "read" ELSE "replay")
    /\ UNCHANGED <<stream, handed, listed, lock, filledKeys, rejectedKeys, chain, trades, call,
                   crashes>>

\* What XLEN counts is nothing.
AllDeleted == \A i \in DOMAIN stream : stream[i] \in deleted

\* XLEN, and in another step SREM.
Length(n) ==
    /\ drain[n] = "length"
    /\ \/ Steps(n, IF AllDeleted THEN "unlist" ELSE "unlock") /\ UNCHANGED failures
       \/ RedisFails /\ Steps(n, "unlock")
    /\ UNCHANGED <<redisVars, batch, chain, trades, call, crashes>>

Unlist(n) ==
    /\ drain[n] = "unlist"
    /\ \/ listed' = FALSE /\ UNCHANGED failures
       \/ RedisFails /\ UNCHANGED listed
    /\ Steps(n, "unlock")
    /\ UNCHANGED <<stream, handed, deleted, lock, filledKeys, rejectedKeys, batch, chain, trades,
                   call, crashes>>

\* DEL, whoever holds the lock by now.
Unlock(n) ==
    /\ drain[n] = "unlock"
    /\ \/ lock' = Free /\ UNCHANGED failures
       \/ RedisFails /\ UNCHANGED lock
    /\ Steps(n, "idle")
    /\ UNCHANGED <<stream, handed, deleted, listed, filledKeys, rejectedKeys, batch, chain,
                   trades, call, crashes>>

\* A mutant that sets the lock with no EX.
NeverExpires == FALSE

\* The lock's 30 seconds are over: its holder is dead, or slow.
ExpiryDue == lock # Free /\ (LocksExpire \/ drain[lock] = "idle")

Expire ==
    /\ ExpiryDue
    /\ lock' = Free
    /\ UNCHANGED <<stream, handed, deleted, listed, filledKeys, rejectedKeys, nodeVars, trades,
                   call, faultVars>>

(***************************************************************************)
(* A node dies: its drain, its inline chain and the calls it was serving.  *)
(* What Redis handed it stays handed. It is back at once.                  *)
(***************************************************************************)
Crash(n) ==
    /\ crashes < MaxCrashes
    /\ crashes' = crashes + 1
    /\ Steps(n, "idle")
    /\ batch' = [batch EXCEPT ![n] = <<>>]
    /\ chain' = [chain EXCEPT ![n] = <<>>]
    /\ call' = [c \in Calls |->
                  IF Home[c] = n /\ call[c] \notin Answers \cup {"new"} THEN "lost" ELSE call[c]]
    /\ UNCHANGED <<redisVars, trades, failures>>

CallStep(c) ==
    \/ Check(c) \/ WithoutRedis(c)
    \/ Enqueue(c) \/ EnqueueFails(c) \/ List(c) \/ ListFails(c) \/ Nudge(c)
    \/ Told(c) \/ StopWaiting(c)
    \/ InlineReplay(c) \/ InlineCommit(c)

DrainStep(n) ==
    \/ Read(n) \/ ReadFails(n)
    \/ Replay(n) \/ Commit(n) \/ TellFilled(n) \/ TellRejected(n) \/ Remove(n)
    \/ Length(n) \/ Unlist(n) \/ Unlock(n)

Next ==
    \/ \E c \in Calls : CallStep(c)
    \/ \E n \in Nodes : Poll(n) \/ DrainStep(n) \/ Crash(n)
    \/ Expire

Spec == Init /\ [][Next]_vars

(***************************************************************************)
(* A drain and a submission that have started run on: their process is     *)
(* scheduled. The lock's expiry is the server's.                           *)
(***************************************************************************)
Running ==
    /\ \A n \in Nodes : WF_vars(DrainStep(n)) /\ WF_vars(Poll(n))
    /\ \A c \in Calls : WF_vars(InlineReplay(c)) /\ WF_vars(InlineCommit(c))
    /\ WF_vars(Expire)

RunningSpec == Spec /\ Running

(***************************************************************************)
(* Safety.                                                                 *)
(***************************************************************************)

\* outcomeOf
Status(r) ==
    IF Traded(r) THEN "filled" ELSE IF r \in rejectedKeys THEN "rejected" ELSE "queued"

\* "Retries, double-taps, and network flaps can never double-charge": a
\* request is executed once, however often it is sent, and whichever drains,
\* inline executions and crashes overlap.
TradedOnce ==
    \A i, j \in DOMAIN trades :
        RequestOf[trades[i].call] = RequestOf[trades[j].call] => i = j

\* "Exactly one Trade Worker at a time": no two nodes drain the market, even
\* when one has crashed in the middle. It needs drains shorter than the lock.
OneWorkerAtATime ==
    \A m, n \in Nodes : drain[m] # "idle" /\ drain[n] # "idle" => m = n

Arrived(c) == CHOOSE i \in DOMAIN stream : stream[i] = c

\* "Consumed in order": the trades of the stream commit in the order in which
\* their requests were accepted, across nodes, batches and crashes.
InOrder ==
    \A i, j \in DOMAIN trades :
        (i < j /\ trades[i].by = "worker" /\ trades[j].by = "worker") =>
            Arrived(trades[i].call) < Arrived(trades[j].call)

\* An inline caller is told "filled" or replayed only for a trade that exists,
\* and the announcement of a fill follows its commit.
FilledIsTraded ==
    /\ \A r \in filledKeys : Traded(r)
    /\ \A c \in Calls : call[c] = "filled" => Traded(RequestOf[c])

(***************************************************************************)
(* The invariant behind TradedOnce: what is executed is in hand.           *)
(***************************************************************************)

Executes == {"replay", "commit", "tell_filled", "tell_rejected", "remove"}

\* A drain that executes has an entry to execute.
WorkersHaveWork == \A n \in Nodes : drain[n] \in Executes => batch[n] # <<>>

\* An inline execution has its place in its node's chain, and runs when the
\* place is the first.
ChainsHold ==
    \A c \in Calls :
        /\ call[c] \in {"inline", "running"} =>
              \E i \in DOMAIN chain[Home[c]] : chain[Home[c]][i] = c
        /\ call[c] = "running" => chain[Home[c]][1] = c

QueueInv == TypeOK /\ WorkersHaveWork /\ ChainsHold /\ TradedOnce

(***************************************************************************)
(* Progress, under Running.                                                *)
(***************************************************************************)

\* "A worker that dies mid-drain must not wedge a market": the lock always
\* comes back.
LockComesBack == []<>(lock = Free)

\* Inline executions are answered in their turn, whatever became of the one
\* before.
InlineMovesOn == \A c \in Calls : call[c] = "inline" ~> call[c] # "inline"

(***************************************************************************)
(* What the comments say and the code does not keep.                       *)
(***************************************************************************)

\* "Drain every market that has anything waiting": where an entry is waiting
\* and nobody is on the way to it, the poll has the market on its list.
WaitingIsListed ==
    (handed < Len(stream) /\ lock = Free
     /\ \A n \in Nodes : drain[n] = "idle"
     /\ \A c \in Calls : call[c] \notin {"list", "nudge"}) => listed
=============================================================================
