-------------------------- MODULE TradeQueueProofs --------------------------
(***************************************************************************)
(* What holds of a market's trade queue for every number of nodes, calls,  *)
(* retries, crashes and failing commands: its types, that no request is    *)
(* executed twice and no fill announced without a trade; and, as long as   *)
(* no drain outlives its lock, that no two nodes drain the market together *)
(* and that trades follow the stream.                                      *)
(***************************************************************************)
EXTENDS TradeQueue, SequenceTheorems, TLAPS

Rows == [call : Calls, by : {"worker", "inline"}]

(***************************************************************************)
(* The operators of the actions keep their types.                          *)
(***************************************************************************)

\* A call's request is one of the requests.
LEMMA RequestType ==
    ASSUME NEW c \in Calls
    PROVE  RequestOf[c] \in Requests
BY DEF Requests

\* A call that joins its node's chain is the last in it, and moves nobody.
LEMMA JoinType ==
    ASSUME TypeOK, ChainsHold, NEW c \in Calls, JoinChain(c),
           call[c] \in {"new", "append", "list"}
    PROVE  /\ call' \in [Calls -> CallSteps]
           /\ chain' \in [Nodes -> Seq(Calls)]
           /\ ChainsHold'
<1>1. Home[c] \in Nodes
  BY QueueAssumption
<1>2. chain[Home[c]] \in Seq(Calls)
  BY <1>1 DEF TypeOK
<1> DEFINE longer == Append(chain[Home[c]], c)
<1>3. /\ longer \in Seq(Calls)
      /\ Len(longer) = Len(chain[Home[c]]) + 1
      /\ \A i \in 1 .. Len(chain[Home[c]]) : longer[i] = chain[Home[c]][i]
      /\ longer[Len(longer)] = c
  BY <1>2, AppendProperties
<1>4. chain' = [chain EXCEPT ![Home[c]] = longer]
  BY DEF JoinChain
<1> HIDE DEF longer
<1>5. call' \in [Calls -> CallSteps] /\ chain' \in [Nodes -> Seq(Calls)]
  <2>1. call' \in [Calls -> CallSteps]
    BY DEF JoinChain, Goes, TypeOK, CallSteps
  <2>2. chain' \in [Nodes -> Seq(Calls)]
    BY <1>3, <1>4 DEF TypeOK
  <2> QED BY <2>1, <2>2
<1>6. ASSUME NEW b \in Calls, call'[b] \in {"inline", "running"}
      PROVE  /\ \E i \in DOMAIN chain'[Home[b]] : chain'[Home[b]][i] = b
             /\ call'[b] = "running" => chain'[Home[b]][1] = b
  <2>1. Home[b] \in Nodes /\ chain[Home[b]] \in Seq(Calls)
    BY QueueAssumption DEF TypeOK
  <2>2. CASE b = c
    <3>1. call'[b] = "inline"
      BY <2>2 DEF JoinChain, Goes, TypeOK
    <3>2. chain'[Home[b]] = longer
      BY <1>1, <1>4, <2>2 DEF TypeOK
    <3>3. Len(longer) \in DOMAIN longer
      BY <1>2, <1>3, LenProperties
    <3> QED BY <2>2, <3>1, <3>2, <3>3, <1>3
  <2>3. CASE b # c
    <3>1. call[b] = call'[b]
      BY <2>3 DEF JoinChain, Goes, TypeOK
    <3>2. /\ \E i \in DOMAIN chain[Home[b]] : chain[Home[b]][i] = b
          /\ call[b] = "running" => chain[Home[b]][1] = b
      BY <3>1, <1>6 DEF ChainsHold
    <3>3. CASE Home[b] # Home[c]
      BY <3>1, <3>2, <3>3, <2>1, <1>4 DEF TypeOK
    <3>4. CASE Home[b] = Home[c]
      <4>1. chain'[Home[b]] = longer
        BY <1>1, <1>4, <3>4 DEF TypeOK
      <4>2. PICK i \in DOMAIN chain[Home[b]] : chain[Home[b]][i] = b
        BY <3>2
      <4>3. i \in 1 .. Len(chain[Home[c]]) /\ Len(chain[Home[c]]) \in Nat
        BY <4>2, <3>4, <1>2, LenProperties
      <4>4. longer[i] = b /\ i \in DOMAIN longer
        BY <4>2, <4>3, <3>4, <1>3, LenProperties
      <4>5. call[b] = "running" => longer[1] = b
        BY <3>2, <3>4, <4>3, <1>3
      <4> QED BY <4>1, <4>4, <4>5, <3>1
    <3> QED BY <3>3, <3>4
  <2> QED BY <2>2, <2>3
<1> QED BY <1>5, <1>6 DEF ChainsHold

\* A call that ends at the head of its chain leaves the others their places.
LEMMA LeaveType ==
    ASSUME TypeOK, ChainsHold, NEW c \in Calls, NEW answer \in Answers,
           call[c] \in {"inline", "running"}, chain[Home[c]][1] = c,
           Goes(c, answer), chain' = [chain EXCEPT ![Home[c]] = Tail(@)]
    PROVE  /\ call' \in [Calls -> CallSteps]
           /\ chain' \in [Nodes -> Seq(Calls)]
           /\ \A b \in Calls : call'[b] = "running" => Home[b] # Home[c]
           /\ ChainsHold'
<1>1. Home[c] \in Nodes /\ chain[Home[c]] \in Seq(Calls)
  BY QueueAssumption DEF TypeOK
<1>2. chain[Home[c]] # <<>>
  BY <1>1, LenProperties DEF ChainsHold
<1> DEFINE shorter == Tail(chain[Home[c]])
<1>3. /\ shorter \in Seq(Calls)
      /\ Len(shorter) = Len(chain[Home[c]]) - 1
      /\ \A i \in 1 .. Len(shorter) : shorter[i] = chain[Home[c]][i + 1]
  BY <1>1, <1>2, HeadTailProperties
<1>4. chain' = [chain EXCEPT ![Home[c]] = shorter]
  OBVIOUS
<1> HIDE DEF shorter
<1>5. call' \in [Calls -> CallSteps] /\ chain' \in [Nodes -> Seq(Calls)]
  BY <1>3, <1>4 DEF Goes, TypeOK, CallSteps
<1>6. ASSUME NEW b \in Calls, call'[b] \in {"inline", "running"}
      PROVE  b # c /\ call[b] = call'[b]
  BY <1>6 DEF Goes, TypeOK, Answers
<1>7. ASSUME NEW b \in Calls, call'[b] = "running"
      PROVE  Home[b] # Home[c]
  BY <1>6, <1>7 DEF ChainsHold
<1>8. ASSUME NEW b \in Calls, call'[b] \in {"inline", "running"}
      PROVE  /\ \E i \in DOMAIN chain'[Home[b]] : chain'[Home[b]][i] = b
             /\ call'[b] = "running" => chain'[Home[b]][1] = b
  <2>1. Home[b] \in Nodes /\ chain[Home[b]] \in Seq(Calls)
    BY QueueAssumption DEF TypeOK
  <2>2. /\ \E i \in DOMAIN chain[Home[b]] : chain[Home[b]][i] = b
        /\ call[b] = "running" => chain[Home[b]][1] = b
    BY <1>6, <1>8 DEF ChainsHold
  <2>3. CASE Home[b] # Home[c]
    BY <2>1, <2>2, <2>3, <1>4, <1>6, <1>8 DEF TypeOK
  <2>4. CASE Home[b] = Home[c]
    <3>1. PICK i \in DOMAIN chain[Home[c]] : chain[Home[c]][i] = b
      BY <2>2, <2>4
    <3>2. i \in 1 .. Len(chain[Home[c]]) /\ i # 1 /\ Len(chain[Home[c]]) \in Nat
      BY <3>1, <1>1, <1>6, <1>8, LenProperties
    <3>3. i - 1 \in 1 .. Len(shorter) /\ shorter[i - 1] = b
      BY <3>1, <3>2, <1>3
    <3>4. i - 1 \in DOMAIN shorter
      BY <3>3, <1>3, LenProperties
    <3>5. chain'[Home[b]] = shorter
      BY <1>1, <1>4, <2>4 DEF TypeOK
    <3>6. call'[b] # "running"
      BY <1>7, <2>4
    <3> QED BY <3>3, <3>4, <3>5, <3>6
  <2> QED BY <2>3, <2>4
<1> QED BY <1>5, <1>7, <1>8 DEF ChainsHold

\* A row is inserted for a request that has none.
LEMMA InsertOnce ==
    ASSUME TypeOK, TradedOnce, NEW c \in Calls, NEW by \in {"worker", "inline"}, Insert(c, by)
    PROVE  trades' \in Seq(Rows) /\ TradedOnce'
<1> DEFINE row == [call |-> c, by |-> by]
<1>1. row \in Rows /\ trades \in Seq(Rows)
  BY DEF TypeOK, Rows
<1>2. trades' = Append(trades, row)
  BY DEF Insert
<1>3. /\ trades' \in Seq(Rows)
      /\ Len(trades') = Len(trades) + 1
      /\ \A i \in 1 .. Len(trades) : trades'[i] = trades[i]
      /\ trades'[Len(trades) + 1] = row
  BY <1>1, <1>2, AppendProperties
<1>4. DOMAIN trades = 1 .. Len(trades) /\ DOMAIN trades' = 1 .. Len(trades') /\ Len(trades) \in Nat
  BY <1>1, <1>3, LenProperties
<1>5. \A i \in DOMAIN trades : RequestOf[trades[i].call] # RequestOf[c]
  BY DEF Insert, InsertAllowed, Traded
<1>6. row.call = c
  OBVIOUS
<1> HIDE DEF row
<1> QED BY <1>3, <1>4, <1>5, <1>6 DEF TradedOnce

\* The drain is started at a node whose drain is idle.
LEMMA StartType ==
    ASSUME TypeOK, WorkersHaveWork, NEW n \in Nodes, StartDrain(n), UNCHANGED batch
    PROVE  /\ lock' \in Nodes \cup {Free} /\ drain' \in [Nodes -> DrainSteps]
           /\ WorkersHaveWork'
<1>1. lock' \in Nodes \cup {Free} /\ drain' \in [Nodes -> DrainSteps]
  BY DEF StartDrain, TypeOK, DrainSteps
<1>2. WorkersHaveWork'
  BY DEF StartDrain, TypeOK, WorkersHaveWork, Executes
<1> QED BY <1>1, <1>2

\* A drain that executes has an entry in hand, appended by some call.
LEMMA InHand ==
    ASSUME TypeOK, WorkersHaveWork, NEW n \in Nodes, drain[n] \in Executes
    PROVE  /\ batch[n] # <<>> /\ batch[n] \in Seq(Calls)
           /\ Head(batch[n]) \in Calls
           /\ Executing(n) \in Requests
<1>1. batch[n] # <<>> /\ batch[n] \in Seq(Calls)
  BY DEF WorkersHaveWork, TypeOK
<1>2. Head(batch[n]) \in Calls
  BY <1>1, HeadTailProperties
<1> QED BY <1>1, <1>2, RequestType DEF Executing

\* What a read hands out are calls, and at least one if the drain goes on.
LEMMA HandedType ==
    ASSUME TypeOK
    PROVE  /\ LastEntry \in 0 .. Len(stream)
           /\ Handed \in Seq(Calls)
<1>1. /\ stream \in Seq(Calls) /\ Len(stream) \in Nat /\ handed \in 0 .. Len(stream)
      /\ \A i \in 1 .. Len(stream) : stream[i] \in Calls
  BY LenProperties, ElementOfSeq DEF TypeOK
<1>2. LastEntry \in 0 .. Len(stream)
  BY <1>1, QueueAssumption DEF LastEntry
<1>3. \A i \in NextEntry .. LastEntry : stream[i] \in Calls
  BY <1>1, <1>2 DEF NextEntry
<1>4. NextEntry \in Int /\ LastEntry \in Int
  BY <1>1, <1>2 DEF NextEntry
<1> QED BY <1>2, <1>3, <1>4, SubSeqProperties DEF Handed

(***************************************************************************)
(* One lemma per side of the queue: a submission's steps, a drain's steps, *)
(* and what happens to both from outside.                                  *)
(***************************************************************************)

\* The first state has nothing in hand and no rows.
LEMMA QueueInit == Init => QueueInv
<1> SUFFICES ASSUME Init PROVE QueueInv
  OBVIOUS
<1>1. TypeOK
  <2>1. \A S : <<>> \in Seq(S)
    BY EmptySeq
  <2>2. stream \in Seq(Calls) /\ trades \in Seq([call : Calls, by : {"worker", "inline"}])
    BY <2>1 DEF Init
  <2>3. handed \in 0 .. Len(stream)
    BY DEF Init
  <2>4. /\ deleted \subseteq Calls /\ listed \in BOOLEAN /\ lock \in Nodes \cup {Free}
        /\ filledKeys \subseteq Requests /\ rejectedKeys \subseteq Requests
    BY DEF Init
  <2>5. drain \in [Nodes -> DrainSteps] /\ call \in [Calls -> CallSteps]
    BY DEF Init, DrainSteps, CallSteps
  <2>6. batch \in [Nodes -> Seq(Calls)] /\ chain \in [Nodes -> Seq(Calls)]
    BY <2>1 DEF Init
  <2>7. crashes \in 0 .. MaxCrashes /\ failures \in 0 .. MaxFailures
    BY QueueAssumption DEF Init
  <2> QED BY <2>2, <2>3, <2>4, <2>5, <2>6, <2>7 DEF TypeOK
<1>2. WorkersHaveWork
  BY DEF Init, WorkersHaveWork, Executes
<1>3. ChainsHold
  BY DEF Init, ChainsHold
<1>4. TradedOnce
  BY DEF Init, TradedOnce
<1> QED BY <1>1, <1>2, <1>3, <1>4 DEF QueueInv

\* A call that only changes its own step, and not into an inline one, leaves
\* every chain as it is.
LEMMA GoesType ==
    ASSUME TypeOK, ChainsHold, NEW c \in Calls,
           NEW step \in CallSteps \ {"inline", "running"}, Goes(c, step), UNCHANGED chain
    PROVE  call' \in [Calls -> CallSteps] /\ ChainsHold'
<1>1. call' \in [Calls -> CallSteps]
  BY DEF Goes, TypeOK
<1>2. ChainsHold'
  BY DEF Goes, TypeOK, ChainsHold
<1> QED BY <1>1, <1>2

\* The stream grows by calls.
LEMMA XAddType ==
    ASSUME TypeOK, NEW c \in Calls, XAdd(c) \/ UNCHANGED stream
    PROVE  stream' \in Seq(Calls) /\ handed \in 0 .. Len(stream')
<1>1. stream \in Seq(Calls) /\ handed \in 0 .. Len(stream) /\ Len(stream) \in Nat
  BY LenProperties DEF TypeOK
<1>2. CASE UNCHANGED stream
  BY <1>1, <1>2
<1>3. CASE XAdd(c)
  <2>1. stream' \in Seq(Calls) /\ Len(stream') = Len(stream) + 1
    BY <1>1, <1>3, AppendProperties DEF XAdd
  <2> QED BY <1>1, <2>1
<1> QED BY <1>2, <1>3

\* A call that Redis fails is counted.
LEMMA FailureCounted ==
    ASSUME TypeOK, UNCHANGED failures \/ RedisFails PROVE failures' \in 0 .. MaxFailures
<1>1. failures \in 0 .. MaxFailures
  BY DEF TypeOK
<1>2. CASE RedisFails
  BY <1>1, <1>2, QueueAssumption DEF RedisFails
<1> QED BY <1>1, <1>2

\* A submission keeps the invariant: what it executes itself is at the head
\* of its node's chain, and inserts a row where there is none.
LEMMA CallStepKeeps ==
    ASSUME QueueInv, NEW c \in Calls, CallStep(c)
    PROVE  QueueInv'
<1> USE DEF QueueInv
<1>1. ASSUME Check(c) PROVE QueueInv'
  <2>1. PICK step \in {"filled", "append"} : Goes(c, step)
    BY <1>1 DEF Check
  <2>2. call' \in [Calls -> CallSteps] /\ ChainsHold'
    BY <1>1, <2>1, GoesType DEF Check, nodeVars, CallSteps, Answers
  <2> QED BY <1>1, <2>2 DEF Check, redisVars, nodeVars, faultVars, TypeOK, WorkersHaveWork, TradedOnce
<1>2. ASSUME WithoutRedis(c) PROVE QueueInv'
  <2>1. call' \in [Calls -> CallSteps] /\ chain' \in [Nodes -> Seq(Calls)] /\ ChainsHold'
    BY <1>2, JoinType DEF WithoutRedis
  <2> QED BY <1>2, <2>1 DEF WithoutRedis, redisVars, faultVars, TypeOK, WorkersHaveWork, TradedOnce
<1>3. ASSUME Enqueue(c) PROVE QueueInv'
  <2>1. call' \in [Calls -> CallSteps] /\ ChainsHold'
    BY <1>3, GoesType DEF Enqueue, nodeVars, CallSteps
  <2>2. stream' \in Seq(Calls) /\ handed \in 0 .. Len(stream')
    BY <1>3, XAddType DEF Enqueue
  <2> QED BY <1>3, <2>1, <2>2 DEF Enqueue, nodeVars, faultVars, TypeOK, WorkersHaveWork, TradedOnce
<1>4. ASSUME EnqueueFails(c) PROVE QueueInv'
  <2>1. call' \in [Calls -> CallSteps] /\ chain' \in [Nodes -> Seq(Calls)] /\ ChainsHold'
    BY <1>4, JoinType DEF EnqueueFails
  <2>2. stream' \in Seq(Calls) /\ handed \in 0 .. Len(stream')
    BY <1>4, XAddType DEF EnqueueFails
  <2>3. failures' \in 0 .. MaxFailures
    BY <1>4, FailureCounted DEF EnqueueFails
  <2> QED BY <1>4, <2>1, <2>2, <2>3 DEF EnqueueFails, TypeOK, WorkersHaveWork, TradedOnce
<1>5. ASSUME List(c) PROVE QueueInv'
  <2>1. call' \in [Calls -> CallSteps] /\ ChainsHold'
    BY <1>5, GoesType DEF List, nodeVars, CallSteps
  <2> QED BY <1>5, <2>1 DEF List, nodeVars, faultVars, TypeOK, WorkersHaveWork, TradedOnce
<1>6. ASSUME ListFails(c) PROVE QueueInv'
  <2>1. call' \in [Calls -> CallSteps] /\ chain' \in [Nodes -> Seq(Calls)] /\ ChainsHold'
    BY <1>6, JoinType DEF ListFails
  <2>2. failures' \in 0 .. MaxFailures
    BY <1>6, FailureCounted DEF ListFails
  <2>3. listed' \in BOOLEAN
    BY <1>6, Zenon DEF ListFails, TypeOK
  <2> QED BY <1>6, <2>1, <2>2, <2>3 DEF ListFails, TypeOK, WorkersHaveWork, TradedOnce
<1>7. ASSUME Nudge(c) PROVE QueueInv'
  <2>1. call' \in [Calls -> CallSteps] /\ ChainsHold'
    BY <1>7, GoesType DEF Nudge, CallSteps
  <2>2. Home[c] \in Nodes
    BY QueueAssumption
  <2>3. /\ lock' \in Nodes \cup {Free} /\ drain' \in [Nodes -> DrainSteps]
        /\ WorkersHaveWork'
    BY <1>7, <2>2, StartType DEF Nudge, TypeOK, WorkersHaveWork
  <2> QED BY <1>7, <2>1, <2>3 DEF Nudge, faultVars, TypeOK, TradedOnce
<1>8. ASSUME Told(c) \/ StopWaiting(c) PROVE QueueInv'
  <2>1. PICK step \in {"filled", "rejected", "queued"} : Goes(c, step)
    BY <1>8 DEF Told, StopWaiting
  <2>2. UNCHANGED <<redisVars, nodeVars, trades, faultVars>>
    BY <1>8 DEF Told, StopWaiting
  <2>3. call' \in [Calls -> CallSteps] /\ ChainsHold'
    BY <2>1, <2>2, GoesType DEF nodeVars, CallSteps, Answers
  <2> QED BY <2>2, <2>3 DEF redisVars, nodeVars, faultVars, TypeOK, WorkersHaveWork, TradedOnce
<1>9. ASSUME InlineReplay(c) PROVE QueueInv'
  <2>1. UNCHANGED <<redisVars, drain, batch, trades, faultVars>>
    BY <1>9 DEF InlineReplay
  <2>2. Home[c] \in Nodes /\ chain[Home[c]] \in Seq(Calls)
    BY QueueAssumption DEF TypeOK
  <2>3. chain[Home[c]][1] = c
    BY <1>9, <2>2 DEF InlineReplay
  <2>4. CASE Traded(RequestOf[c])
    <3>1. Goes(c, "filled") /\ chain' = [chain EXCEPT ![Home[c]] = Tail(@)] /\ call[c] = "inline"
      BY <1>9, <2>4 DEF InlineReplay
    <3>2. call' \in [Calls -> CallSteps] /\ chain' \in [Nodes -> Seq(Calls)] /\ ChainsHold'
      BY <3>1, <2>3, LeaveType DEF Answers
    <3> QED BY <3>2, <2>1 DEF redisVars, faultVars, TypeOK, WorkersHaveWork, TradedOnce
  <2>5. CASE ~Traded(RequestOf[c])
    <3>1. Goes(c, "running") /\ UNCHANGED chain /\ call[c] = "inline"
      BY <1>9, <2>5 DEF InlineReplay
    <3>2. call' \in [Calls -> CallSteps]
      BY <3>1 DEF Goes, TypeOK, CallSteps
    <3>3. ChainsHold'
      BY <3>1, <2>3 DEF Goes, TypeOK, ChainsHold
    <3> QED BY <3>1, <3>2, <3>3, <2>1 DEF redisVars, faultVars, TypeOK, WorkersHaveWork, TradedOnce
  <2> QED BY <2>4, <2>5
<1>10. ASSUME InlineCommit(c) PROVE QueueInv'
  <2>1. UNCHANGED <<redisVars, drain, batch, faultVars>> /\ call[c] = "running"
    BY <1>10 DEF InlineCommit
  <2>2. chain[Home[c]][1] = c
    BY <2>1 DEF ChainsHold
  <2>3. PICK answer \in {"filled", "rejected", "failed"} : Goes(c, answer) /\ Unblocks(c, answer)
    BY <1>10 DEF InlineCommit
  <2>4. call' \in [Calls -> CallSteps] /\ chain' \in [Nodes -> Seq(Calls)] /\ ChainsHold'
    BY <2>1, <2>2, <2>3, LeaveType DEF Answers, Unblocks
  <2>5. trades' \in Seq(Rows) /\ TradedOnce'
    <3>1. CASE Insert(c, "inline")
      BY <3>1, InsertOnce
    <3>2. CASE UNCHANGED trades
      BY <3>2 DEF TypeOK, TradedOnce, Rows
    <3> QED BY <1>10, <3>1, <3>2 DEF InlineCommit
  <2> QED BY <2>1, <2>4, <2>5 DEF redisVars, faultVars, TypeOK, WorkersHaveWork, Rows
<1> QED BY <1>1, <1>2, <1>3, <1>4, <1>5, <1>6, <1>7, <1>8, <1>9, <1>10 DEF CallStep

\* A drain keeps the invariant: it executes only what it was handed.
LEMMA DrainStepKeeps ==
    ASSUME QueueInv, NEW n \in Nodes, DrainStep(n)
    PROVE  QueueInv'
<1> USE DEF QueueInv
<1>1. ASSUME Read(n) PROVE QueueInv'
  <2>1. LastEntry \in 0 .. Len(stream) /\ Handed \in Seq(Calls)
    BY HandedType
  <2>2. drain' \in [Nodes -> DrainSteps]
    BY <1>1 DEF Read, Steps, TypeOK, DrainSteps
  <2>3. batch' \in [Nodes -> Seq(Calls)]
    BY <1>1, <2>1 DEF Read, TypeOK
  <2>4. WorkersHaveWork'
    BY <1>1 DEF Read, Steps, TypeOK, WorkersHaveWork, Executes
  <2> QED BY <1>1, <2>1, <2>2, <2>3, <2>4 DEF Read, faultVars, TypeOK, ChainsHold, TradedOnce
<1>2. ASSUME ReadFails(n) PROVE QueueInv'
  <2>1. handed' \in 0 .. Len(stream)
    BY <1>2, HandedType DEF ReadFails, TypeOK
  <2>2. drain' \in [Nodes -> DrainSteps] /\ failures' \in 0 .. MaxFailures
    BY <1>2, FailureCounted DEF ReadFails, Steps, TypeOK, DrainSteps
  <2>3. WorkersHaveWork'
    BY <1>2 DEF ReadFails, Steps, TypeOK, WorkersHaveWork, Executes
  <2> QED BY <1>2, <2>1, <2>2, <2>3 DEF ReadFails, TypeOK, ChainsHold, TradedOnce
<1>3. ASSUME Replay(n) PROVE QueueInv'
  <2>1. drain' \in [Nodes -> DrainSteps]
    BY <1>3 DEF Replay, Steps, TypeOK, DrainSteps
  <2>2. WorkersHaveWork'
    BY <1>3 DEF Replay, Steps, TypeOK, WorkersHaveWork, Executes
  <2> QED BY <1>3, <2>1, <2>2 DEF Replay, redisVars, faultVars, TypeOK, ChainsHold, TradedOnce
<1>4. ASSUME Commit(n) PROVE QueueInv'
  <2>1. Head(batch[n]) \in Calls
    BY <1>4, InHand DEF Commit, Executes
  <2>2. drain' \in [Nodes -> DrainSteps]
    BY <1>4 DEF Commit, Steps, TypeOK, DrainSteps
  <2>3. WorkersHaveWork'
    BY <1>4 DEF Commit, Steps, TypeOK, WorkersHaveWork, Executes
  <2>4. trades' \in Seq(Rows) /\ TradedOnce'
    <3>1. CASE Insert(Head(batch[n]), "worker")
      BY <2>1, <3>1, InsertOnce
    <3>2. CASE UNCHANGED trades
      BY <3>2 DEF TypeOK, TradedOnce, Rows
    <3> QED BY <1>4, <3>1, <3>2 DEF Commit
  <2> QED BY <1>4, <2>2, <2>3, <2>4 DEF Commit, redisVars, faultVars, TypeOK, ChainsHold, Rows
<1>5. ASSUME TellFilled(n) \/ TellRejected(n) PROVE QueueInv'
  <2>1. Executing(n) \in Requests
    BY <1>5, InHand DEF TellFilled, TellRejected, Executes
  <2>2. filledKeys' \subseteq Requests /\ rejectedKeys' \subseteq Requests
    BY <1>5, <2>1 DEF TellFilled, TellRejected, TypeOK
  <2>3. drain' \in [Nodes -> DrainSteps]
    BY <1>5 DEF TellFilled, TellRejected, Steps, TypeOK, DrainSteps
  <2>4. failures' \in 0 .. MaxFailures
    BY <1>5, FailureCounted DEF TellFilled, TellRejected
  <2>5. WorkersHaveWork'
    BY <1>5 DEF TellFilled, TellRejected, Steps, TypeOK, WorkersHaveWork, Executes
  <2>6. UNCHANGED <<stream, handed, deleted, listed, lock, batch, chain, trades, call, crashes>>
    BY <1>5 DEF TellFilled, TellRejected
  <2> QED BY <2>2, <2>3, <2>4, <2>5, <2>6 DEF TypeOK, ChainsHold, TradedOnce
<1>6. ASSUME Remove(n) PROVE QueueInv'
  <2>1. batch[n] # <<>> /\ batch[n] \in Seq(Calls) /\ Head(batch[n]) \in Calls
    BY <1>6, InHand DEF Remove, Executes
  <2>2. Tail(batch[n]) \in Seq(Calls) /\ Len(Tail(batch[n])) = Len(batch[n]) - 1
    BY <2>1, HeadTailProperties
  <2>3. deleted' \subseteq Calls
    BY <1>6, <2>1 DEF Remove, TypeOK
  <2>4. drain' \in [Nodes -> DrainSteps]
    BY <1>6 DEF Remove, Steps, TypeOK, DrainSteps
  <2>5. batch' \in [Nodes -> Seq(Calls)]
    BY <1>6, <2>2 DEF Remove, TypeOK
  <2>6. failures' \in 0 .. MaxFailures
    BY <1>6, FailureCounted DEF Remove
  <2>7. WorkersHaveWork'
    <3> SUFFICES ASSUME NEW m \in Nodes, drain'[m] \in Executes PROVE batch'[m] # <<>>
      BY DEF WorkersHaveWork
    <3>1. CASE m = n
      <4>1. Len(batch[n]) # 1
        BY <1>6, <3>1 DEF Remove, Steps, TypeOK, Executes
      <4>2. Len(Tail(batch[n])) # 0
        BY <2>1, <2>2, <4>1, LenProperties
      <4>3. Tail(batch[n]) # <<>>
        BY <2>2, <4>2, EmptySeq
      <4> QED BY <1>6, <3>1, <4>3 DEF Remove, TypeOK
    <3>2. CASE m # n
      BY <1>6, <3>2 DEF Remove, Steps, TypeOK, WorkersHaveWork
    <3> QED BY <3>1, <3>2
  <2> QED BY <1>6, <2>3, <2>4, <2>5, <2>6, <2>7 DEF Remove, TypeOK, ChainsHold, TradedOnce
<1>7. ASSUME Length(n) \/ Unlist(n) \/ Unlock(n) PROVE QueueInv'
  <2>1. drain' \in [Nodes -> DrainSteps] /\ listed' \in BOOLEAN /\ lock' \in Nodes \cup {Free}
    BY <1>7 DEF Length, Unlist, Unlock, redisVars, Steps, TypeOK, DrainSteps
  <2>2. failures' \in 0 .. MaxFailures
    <3>1. UNCHANGED failures \/ RedisFails
      BY <1>7 DEF Length, Unlist, Unlock
    <3> QED BY <3>1, FailureCounted
  <2>3. UNCHANGED <<stream, handed, deleted, filledKeys, rejectedKeys, batch, chain, trades, call,
                    crashes>>
    BY <1>7 DEF Length, Unlist, Unlock, redisVars
  <2>4. WorkersHaveWork'
    BY <1>7, <2>3 DEF Length, Unlist, Unlock, Steps, TypeOK, WorkersHaveWork, Executes
  <2> QED BY <2>1, <2>2, <2>3, <2>4 DEF TypeOK, ChainsHold, TradedOnce
<1> QED BY <1>1, <1>2, <1>3, <1>4, <1>5, <1>6, <1>7 DEF DrainStep

\* A poll, an expiry and a crash keep the invariant.
LEMMA OutsideKeeps ==
    ASSUME QueueInv, NEW n \in Nodes, Poll(n) \/ Crash(n) \/ Expire
    PROVE  QueueInv'
<1> USE DEF QueueInv
<1>1. ASSUME Poll(n) PROVE QueueInv'
  <2>1. /\ lock' \in Nodes \cup {Free} /\ drain' \in [Nodes -> DrainSteps]
        /\ WorkersHaveWork'
    BY <1>1, StartType DEF Poll
  <2> QED BY <1>1, <2>1 DEF Poll, faultVars, TypeOK, ChainsHold, TradedOnce
<1>2. ASSUME Crash(n) PROVE QueueInv'
  <2>1. /\ drain' \in [Nodes -> DrainSteps] /\ batch' \in [Nodes -> Seq(Calls)]
        /\ chain' \in [Nodes -> Seq(Calls)]
    BY <1>2, EmptySeq DEF Crash, Steps, TypeOK, DrainSteps
  <2>2. call' \in [Calls -> CallSteps] /\ crashes' \in 0 .. MaxCrashes
    <3>1. \A c \in Calls : call[c] \in CallSteps /\ "lost" \in CallSteps
      BY DEF TypeOK, CallSteps, Answers
    <3>2. call' \in [Calls -> CallSteps]
      BY <1>2, <3>1 DEF Crash
    <3>3. crashes \in 0 .. MaxCrashes /\ crashes < MaxCrashes /\ crashes' = crashes + 1
      BY <1>2 DEF Crash, TypeOK
    <3> QED BY <3>2, <3>3, QueueAssumption
  <2>3. WorkersHaveWork'
    BY <1>2 DEF Crash, Steps, TypeOK, WorkersHaveWork, Executes
  <2>4. ChainsHold'
    <3> SUFFICES ASSUME NEW c \in Calls, call'[c] \in {"inline", "running"}
                 PROVE  /\ \E i \in DOMAIN chain'[Home[c]] : chain'[Home[c]][i] = c
                        /\ call'[c] = "running" => chain'[Home[c]][1] = c
      BY DEF ChainsHold
    <3>1. Home[c] \in Nodes /\ Home[c] # n /\ call'[c] = call[c]
      BY <1>2, QueueAssumption DEF Crash, Answers
    <3>2. chain'[Home[c]] = chain[Home[c]]
      BY <1>2, <3>1 DEF Crash, TypeOK
    <3> QED BY <3>1, <3>2 DEF ChainsHold
  <2> QED BY <1>2, <2>1, <2>2, <2>3, <2>4 DEF Crash, redisVars, TypeOK, TradedOnce
<1>3. ASSUME Expire PROVE QueueInv'
  BY <1>3 DEF Expire, nodeVars, faultVars, TypeOK, WorkersHaveWork, ChainsHold, TradedOnce
<1> QED BY <1>1, <1>2, <1>3

\* The invariant is inductive.
LEMMA QueueNext == QueueInv /\ [Next]_vars => QueueInv'
<1> SUFFICES ASSUME QueueInv, [Next]_vars PROVE QueueInv'
  OBVIOUS
<1>1. CASE UNCHANGED vars
  BY <1>1 DEF QueueInv, vars, redisVars, nodeVars, faultVars, TypeOK, WorkersHaveWork, ChainsHold,
              TradedOnce
<1>2. CASE \E c \in Calls : CallStep(c)
  BY <1>2, CallStepKeeps
<1>3. CASE \E n \in Nodes : DrainStep(n)
  BY <1>3, DrainStepKeeps
<1>4. CASE Expire \/ \E n \in Nodes : Poll(n) \/ Crash(n)
  <2>1. PICK n \in Nodes : Poll(n) \/ Crash(n) \/ Expire
    BY <1>4, QueueAssumption
  <2> QED BY <2>1, OutsideKeeps
<1> QED BY <1>1, <1>2, <1>3, <1>4 DEF Next

\* In every behaviour of the queue every row, key, lock and step has its type,
\* drains execute what they were handed, and inline executions run in turn.
THEOREM QueueInvariant == Spec => []QueueInv
BY QueueInit, QueueNext, PTL DEF Spec

\* "Retries, double-taps, and network flaps can never double-charge": whatever
\* drains overlap, however often a request is sent, on the stream or inline,
\* and wherever nodes crash, it trades at most once.
THEOREM RequestsTradeOnce == Spec => []TradedOnce
<1>1. QueueInv => TradedOnce
  BY DEF QueueInv
<1> QED BY <1>1, QueueInvariant, PTL

(***************************************************************************)
(* The lock.                                                               *)
(***************************************************************************)

\* A node that drains holds the lock.
WorkerHoldsLock == \A n \in Nodes : drain[n] # "idle" => lock = n

\* Taking the lock only when it is free, giving it up at the end and losing
\* it only when dead keeps every drain its lock.
LEMMA LockNext ==
    ASSUME ~LocksExpire, TypeOK, WorkerHoldsLock, [Next]_vars
    PROVE  WorkerHoldsLock'
<1>1. CASE UNCHANGED vars
  BY <1>1 DEF vars, redisVars, nodeVars, WorkerHoldsLock
<1>2. ASSUME NEW n \in Nodes, MayDrain(n), StartDrain(n) PROVE WorkerHoldsLock'
  BY <1>2, QueueAssumption DEF MayDrain, StartDrain, WorkerHoldsLock, TypeOK
<1>3. ASSUME NEW c \in Calls, CallStep(c) PROVE WorkerHoldsLock'
  <2>1. CASE Nudge(c)
    <3>1. Home[c] \in Nodes
      BY QueueAssumption
    <3>2. CASE MayDrain(Home[c])
      BY <2>1, <3>1, <3>2, <1>2 DEF Nudge
    <3>3. CASE ~MayDrain(Home[c])
      BY <2>1, <3>3 DEF Nudge, WorkerHoldsLock
    <3> QED BY <3>2, <3>3
  <2>2. CASE ~Nudge(c)
    <3>1. UNCHANGED <<lock, drain>>
      BY <1>3, <2>2 DEF CallStep, Check, WithoutRedis, Enqueue, EnqueueFails, List, ListFails, Told,
                        StopWaiting, InlineReplay, InlineCommit, redisVars, nodeVars
    <3> QED BY <3>1 DEF WorkerHoldsLock
  <2> QED BY <2>1, <2>2
<1>4. ASSUME NEW n \in Nodes, Poll(n) PROVE WorkerHoldsLock'
  BY <1>4, <1>2 DEF Poll
<1>5. ASSUME NEW n \in Nodes, Unlock(n) PROVE WorkerHoldsLock'
  BY <1>5 DEF Unlock, Steps, WorkerHoldsLock, TypeOK
<1>6. ASSUME NEW n \in Nodes, DrainStep(n), ~Unlock(n) PROVE WorkerHoldsLock'
  <2>1. UNCHANGED lock /\ drain[n] # "idle"
    BY <1>6 DEF DrainStep, Read, ReadFails, Replay, Commit, TellFilled, TellRejected, Remove, Length,
                Unlist, redisVars
  <2>2. \E step \in DrainSteps : drain' = [drain EXCEPT ![n] = step]
    BY <1>6 DEF DrainStep, Read, ReadFails, Replay, Commit, TellFilled, TellRejected, Remove, Length,
                Unlist, Steps, DrainSteps
  <2> QED BY <2>1, <2>2 DEF WorkerHoldsLock, TypeOK
<1>7. ASSUME NEW n \in Nodes, Crash(n) PROVE WorkerHoldsLock'
  BY <1>7 DEF Crash, Steps, redisVars, WorkerHoldsLock, TypeOK
<1>8. ASSUME Expire PROVE WorkerHoldsLock'
  <2>1. lock \in Nodes /\ drain[lock] = "idle" /\ UNCHANGED drain
    BY <1>8 DEF Expire, ExpiryDue, nodeVars, TypeOK
  <2> QED BY <2>1 DEF WorkerHoldsLock
<1> QED BY <1>1, <1>3, <1>4, <1>5, <1>6, <1>7, <1>8 DEF Next

\* "Exactly one Trade Worker at a time", across nodes that crash with the lock
\* in hand, provided no drain outlives its lock.
THEOREM OneWorker ==
    ASSUME ~LocksExpire
    PROVE  Spec => []OneWorkerAtATime
<1>1. Init => WorkerHoldsLock
  BY DEF Init, WorkerHoldsLock
<1>2. QueueInv => TypeOK
  BY DEF QueueInv
<1>3. TypeOK /\ WorkerHoldsLock /\ [Next]_vars => WorkerHoldsLock'
  BY LockNext
<1>4. WorkerHoldsLock => OneWorkerAtATime
  BY DEF WorkerHoldsLock, OneWorkerAtATime
<1> QED BY <1>1, <1>2, <1>3, <1>4, QueueInvariant, PTL DEF Spec

(***************************************************************************)
(* Announcements and answers.                                              *)
(***************************************************************************)

\* A drain that is about to announce a fill has seen the row.
FilledInv ==
    /\ FilledIsTraded
    /\ \A n \in Nodes : drain[n] = "tell_filled" => Traded(Executing(n))

\* Rows are added and never removed.
LEMMA TradedStays ==
    ASSUME TypeOK,
           \/ UNCHANGED trades
           \/ \E c \in Calls, by \in {"worker", "inline"} : Insert(c, by)
    PROVE  \A r : Traded(r) => Traded(r)'
<1>1. CASE UNCHANGED trades
  BY <1>1 DEF Traded
<1>2. ASSUME NEW c \in Calls, NEW by \in {"worker", "inline"}, Insert(c, by)
      PROVE  \A r : Traded(r) => Traded(r)'
  <2>1. trades \in Seq(Rows) /\ [call |-> c, by |-> by] \in Rows
    BY DEF TypeOK, Rows
  <2>2. /\ trades' \in Seq(Rows) /\ Len(trades') = Len(trades) + 1
        /\ \A i \in 1 .. Len(trades) : trades'[i] = trades[i]
    BY <1>2, <2>1, AppendProperties DEF Insert
  <2>3. DOMAIN trades = 1 .. Len(trades) /\ DOMAIN trades' = 1 .. Len(trades') /\ Len(trades) \in Nat
    BY <2>1, <2>2, LenProperties
  <2>4. DOMAIN trades \subseteq DOMAIN trades' /\ \A i \in DOMAIN trades : trades'[i] = trades[i]
    BY <2>2, <2>3
  <2> QED BY <2>4 DEF Traded
<1> QED BY <1>1, <1>2

\* The row that is inserted is the request's.
LEMMA InsertTrades ==
    ASSUME TypeOK, NEW c \in Calls, NEW by \in {"worker", "inline"}, Insert(c, by)
    PROVE  Traded(RequestOf[c])'
<1> DEFINE row == [call |-> c, by |-> by]
<1>1. trades \in Seq(Rows) /\ row \in Rows
  BY DEF TypeOK, Rows
<1>2. /\ trades' = Append(trades, row) /\ trades' \in Seq(Rows)
      /\ Len(trades') = Len(trades) + 1 /\ trades'[Len(trades) + 1] = row
  BY <1>1, AppendProperties DEF Insert
<1>3. Len(trades) + 1 \in DOMAIN trades'
  BY <1>1, <1>2, LenProperties
<1>4. trades'[Len(trades) + 1].call = c
  BY <1>2
<1> QED BY <1>3, <1>4 DEF Traded

LEMMA InHandTraded ==
    ASSUME NEW n \in Nodes, NEW r, Traded(r)', Executing(n)' = r
    PROVE  Traded(Executing(n))'
BY DEF Traded

\* A step keeps the invariant that announces nothing and answers nobody
\* "filled" but for a row.
LEMMA FilledKept ==
    ASSUME FilledInv, \A r : Traded(r) => Traded(r)',
           \A r \in filledKeys' \ filledKeys : Traded(r)',
           \A c \in Calls : call'[c] = "filled" => call[c] = "filled" \/ Traded(RequestOf[c])',
           \A n \in Nodes : drain'[n] = "tell_filled" =>
               \/ drain[n] = "tell_filled" /\ batch'[n] = batch[n]
               \/ Traded(Executing(n))'
    PROVE  FilledInv'
<1>1. FilledIsTraded'
  BY DEF FilledInv, FilledIsTraded
<1>2. ASSUME NEW n \in Nodes, drain'[n] = "tell_filled" PROVE Traded(Executing(n))'
  <2>1. CASE drain[n] = "tell_filled" /\ batch'[n] = batch[n]
    <3>1. PICK r : r = Executing(n)
      OBVIOUS
    <3>2. Executing(n)' = r
      BY <2>1, <3>1 DEF Executing
    <3>3. Traded(r)'
      BY <2>1, <3>1 DEF FilledInv
    <3> QED BY <3>2, <3>3, InHandTraded
  <2> QED BY <1>2, <2>1
<1> QED BY <1>1, <1>2 DEF FilledInv

LEMMA FilledNext == QueueInv /\ FilledInv /\ [Next]_vars => FilledInv'
<1> SUFFICES ASSUME QueueInv, FilledInv, [Next]_vars PROVE FilledInv'
  OBVIOUS
<1>0. TypeOK
  BY DEF QueueInv
<1>1. \A r : Traded(r) => Traded(r)'
  <2>1. \/ UNCHANGED trades
        \/ \E c \in Calls, by \in {"worker", "inline"} : Insert(c, by)
    <3>1. ASSUME NEW n \in Nodes, Commit(n)
          PROVE  UNCHANGED trades \/ \E c \in Calls : Insert(c, "worker")
      BY <3>1, InHand DEF QueueInv, Commit, Executes
    <3>2. CASE UNCHANGED vars
      BY <3>2 DEF vars
    <3>3. ASSUME NEW c \in Calls, CallStep(c)
          PROVE  UNCHANGED trades \/ Insert(c, "inline")
      BY <3>3 DEF CallStep, Check, WithoutRedis, Enqueue, EnqueueFails, List, ListFails, Nudge,
                  Told, StopWaiting, InlineReplay, InlineCommit
    <3>4. ASSUME NEW n \in Nodes, DrainStep(n), ~Commit(n) PROVE UNCHANGED trades
      BY <3>4 DEF DrainStep, Read, ReadFails, Replay, TellFilled, TellRejected, Remove, Length,
                  Unlist, Unlock
    <3>5. ASSUME NEW n \in Nodes, Poll(n) \/ Crash(n) PROVE UNCHANGED trades
      BY <3>5 DEF Poll, Crash
    <3>6. CASE Expire
      BY <3>6 DEF Expire
    <3> QED BY <3>1, <3>2, <3>3, <3>4, <3>5, <3>6 DEF Next
  <2> QED BY <1>0, <2>1, TradedStays
<1>2. ASSUME NEW c \in Calls, NEW step, Goes(c, step),
             step = "filled" => Traded(RequestOf[c])',
             UNCHANGED <<filledKeys, batch>>,
             \A n \in Nodes : drain'[n] = "tell_filled" => drain[n] = "tell_filled"
      PROVE  FilledInv'
  <2>1. \A b \in Calls : call'[b] = "filled" => call[b] = "filled" \/ Traded(RequestOf[b])'
    BY <1>0, <1>2 DEF Goes, TypeOK
  <2> QED BY <1>1, <1>2, <2>1, FilledKept
<1>3. ASSUME NEW c \in Calls, CallStep(c) PROVE FilledInv'
  <2>1. CASE Check(c) \/ StopWaiting(c)
    <3>1. PICK step : Goes(c, step) /\ (step = "filled" => Traded(RequestOf[c]))
      BY <2>1 DEF Check, StopWaiting
    <3>2. UNCHANGED <<filledKeys, batch, drain>>
      BY <2>1 DEF Check, StopWaiting, redisVars, nodeVars
    <3> QED BY <1>1, <1>2, <3>1, <3>2
  <2>2. CASE WithoutRedis(c) \/ EnqueueFails(c) \/ ListFails(c)
    <3>1. Goes(c, "inline") /\ UNCHANGED <<filledKeys, batch, drain>>
      BY <2>2 DEF WithoutRedis, EnqueueFails, ListFails, JoinChain, redisVars
    <3> QED BY <1>2, <3>1
  <2>3. CASE Enqueue(c) \/ List(c)
    <3>1. PICK step \in {"list", "nudge"} : Goes(c, step)
      BY <2>3 DEF Enqueue, List
    <3>2. UNCHANGED <<filledKeys, batch, drain>>
      BY <2>3 DEF Enqueue, List, nodeVars
    <3> QED BY <1>2, <3>1, <3>2
  <2>4. CASE Nudge(c)
    <3>1. Goes(c, "wait") /\ UNCHANGED <<filledKeys, batch>>
      BY <2>4 DEF Nudge
    <3>2. \A n \in Nodes : drain'[n] = "tell_filled" => drain[n] = "tell_filled"
      BY <1>0, <2>4 DEF Nudge, StartDrain, TypeOK
    <3> QED BY <1>2, <3>1, <3>2
  <2>5. CASE Told(c)
    <3>1. \/ Goes(c, "filled") /\ Traded(RequestOf[c])
          \/ Goes(c, "rejected")
      BY <2>5 DEF Told
    <3>2. UNCHANGED <<filledKeys, batch, drain>>
      BY <2>5 DEF Told, redisVars, nodeVars
    <3> QED BY <1>1, <1>2, <3>1, <3>2
  <2>6. CASE InlineReplay(c)
    <3>1. \/ Goes(c, "filled") /\ Traded(RequestOf[c])
          \/ Goes(c, "running")
      BY <2>6 DEF InlineReplay
    <3>2. UNCHANGED <<filledKeys, batch, drain>>
      BY <2>6 DEF InlineReplay, redisVars
    <3> QED BY <1>1, <1>2, <3>1, <3>2
  <2>7. CASE InlineCommit(c)
    <3>1. \/ Goes(c, "filled") /\ Insert(c, "inline")
          \/ \E answer \in {"rejected", "failed"} : Goes(c, answer)
      BY <2>7 DEF InlineCommit
    <3>2. UNCHANGED <<filledKeys, batch, drain>>
      BY <2>7 DEF InlineCommit, redisVars
    <3>3. Insert(c, "inline") => Traded(RequestOf[c])'
      BY <1>0, InsertTrades
    <3>4. CASE Goes(c, "filled") /\ Insert(c, "inline")
      BY <1>2, <3>2, <3>3, <3>4
    <3>5. ASSUME NEW answer \in {"rejected", "failed"}, Goes(c, answer) PROVE FilledInv'
      BY <1>2, <3>2, <3>5
    <3> QED BY <3>1, <3>4, <3>5
  <2> QED BY <1>3, <2>1, <2>2, <2>3, <2>4, <2>5, <2>6, <2>7 DEF CallStep
<1>4. ASSUME NEW n \in Nodes, NEW step, Steps(n, step), UNCHANGED call,
             \A m \in Nodes \ {n} : batch'[m] = batch[m],
             \A r \in filledKeys' \ filledKeys : Traded(r)',
             step = "tell_filled" => Traded(Executing(n))'
      PROVE  FilledInv'
  <2>1. \A m \in Nodes : drain'[m] = "tell_filled" =>
               \/ drain[m] = "tell_filled" /\ batch'[m] = batch[m]
               \/ Traded(Executing(m))'
    BY <1>0, <1>4 DEF Steps, TypeOK
  <2> QED BY <1>1, <1>4, <2>1, FilledKept
<1>5. ASSUME NEW n \in Nodes, DrainStep(n) PROVE FilledInv'
  <2>1. CASE Read(n) \/ ReadFails(n)
    <3>1. PICK step \in {"length", "replay"} : Steps(n, step)
      BY <2>1 DEF Read, ReadFails
    <3>2. UNCHANGED <<call, filledKeys>> /\ \A m \in Nodes \ {n} : batch'[m] = batch[m]
      BY <1>0, <2>1 DEF Read, ReadFails, TypeOK
    <3> QED BY <1>4, <3>1, <3>2
  <2>2. CASE Replay(n)
    <3>1. PICK step \in {"tell_filled", "commit"} :
             Steps(n, step) /\ (step = "tell_filled" => Traded(Executing(n)))
      BY <2>2 DEF Replay
    <3>2. UNCHANGED <<call, filledKeys, batch>>
      BY <2>2 DEF Replay, redisVars
    <3>3. step = "tell_filled" => Traded(Executing(n))'
      <4>1. PICK r : r = Executing(n)
        OBVIOUS
      <4>2. Executing(n)' = r
        BY <3>2, <4>1 DEF Executing
      <4>3. step = "tell_filled" => Traded(r)'
        BY <1>1, <3>1, <4>1
      <4> QED BY <4>2, <4>3, InHandTraded
    <3> QED BY <1>4, <3>1, <3>2, <3>3
  <2>3. CASE Commit(n)
    <3>1. UNCHANGED <<call, filledKeys, batch>>
      BY <2>3 DEF Commit, redisVars
    <3>2. \/ Insert(Head(batch[n]), "worker") /\ Steps(n, "tell_filled")
          \/ Steps(n, "tell_rejected")
      BY <2>3 DEF Commit
    <3>3. CASE Insert(Head(batch[n]), "worker") /\ Steps(n, "tell_filled")
      <4>1. PICK c \in Calls : c = Head(batch[n])
        BY <2>3, InHand DEF QueueInv, Commit, Executes
      <4>2. Traded(RequestOf[c])'
        BY <1>0, <3>3, <4>1, InsertTrades
      <4>3. Executing(n)' = RequestOf[c]
        BY <3>1, <4>1 DEF Executing
      <4>4. Traded(Executing(n))'
        BY <4>2, <4>3, InHandTraded
      <4> QED BY <1>4, <3>1, <3>3, <4>4
    <3>4. CASE Steps(n, "tell_rejected")
      BY <1>4, <3>1, <3>4
    <3> QED BY <3>2, <3>3, <3>4
  <2>4. CASE TellFilled(n)
    <3>1. /\ Steps(n, "remove") /\ UNCHANGED <<call, batch>>
          /\ filledKeys' \subseteq filledKeys \cup {Executing(n)}
          /\ drain[n] = "tell_filled"
      BY <2>4 DEF TellFilled
    <3>2. \A r \in filledKeys' \ filledKeys : Traded(r)'
      BY <1>1, <3>1 DEF FilledInv
    <3> QED BY <1>4, <3>1, <3>2
  <2>5. CASE TellRejected(n)
    <3>1. Steps(n, "remove") /\ UNCHANGED <<call, batch, filledKeys>>
      BY <2>5 DEF TellRejected
    <3> QED BY <1>4, <3>1
  <2>6. CASE Remove(n)
    <3>1. PICK step \in {"read", "replay"} : Steps(n, step)
      BY <2>6 DEF Remove
    <3>2. UNCHANGED <<call, filledKeys>> /\ \A m \in Nodes \ {n} : batch'[m] = batch[m]
      BY <1>0, <2>6 DEF Remove, TypeOK
    <3> QED BY <1>4, <3>1, <3>2
  <2>7. CASE Length(n) \/ Unlist(n) \/ Unlock(n)
    <3>1. PICK step \in {"unlist", "unlock", "idle"} : Steps(n, step)
      BY <2>7 DEF Length, Unlist, Unlock
    <3>2. UNCHANGED <<call, filledKeys, batch>>
      BY <2>7 DEF Length, Unlist, Unlock, redisVars
    <3> QED BY <1>4, <3>1, <3>2
  <2> QED BY <1>5, <2>1, <2>2, <2>3, <2>4, <2>5, <2>6, <2>7 DEF DrainStep
<1>6. ASSUME NEW n \in Nodes, Poll(n) PROVE FilledInv'
  <2>1. UNCHANGED <<call, filledKeys, batch>>
    BY <1>6 DEF Poll
  <2>2. Steps(n, "read")
    BY <1>6 DEF Poll, StartDrain, Steps
  <2> QED BY <1>4, <2>1, <2>2
<1>7. ASSUME NEW n \in Nodes, Crash(n) PROVE FilledInv'
  <2>1. UNCHANGED filledKeys
    BY <1>7 DEF Crash, redisVars
  <2>2. \A c \in Calls : call'[c] = "filled" => call[c] = "filled"
    BY <1>7 DEF Crash
  <2>3. \A m \in Nodes : drain'[m] = "tell_filled" => drain[m] = "tell_filled" /\ batch'[m] = batch[m]
    BY <1>0, <1>7 DEF Crash, Steps, TypeOK
  <2> QED BY <1>1, <2>1, <2>2, <2>3, FilledKept
<1>8. CASE Expire
  BY <1>1, <1>8, FilledKept DEF Expire, nodeVars
<1>9. CASE UNCHANGED vars
  BY <1>1, <1>9, FilledKept DEF vars, redisVars, nodeVars
<1> QED BY <1>3, <1>5, <1>6, <1>7, <1>8, <1>9 DEF Next

\* A caller is told "filled", and a fill is announced, only for a request that
\* has its row, whatever Redis loses and wherever nodes crash.
THEOREM FillsAreReal == Spec => []FilledIsTraded
<1>1. Init => FilledInv
  BY DEF Init, FilledInv, FilledIsTraded
<1>2. FilledInv => FilledIsTraded
  BY DEF FilledInv
<1> QED BY <1>1, <1>2, FilledNext, QueueInvariant, PTL DEF Spec

(***************************************************************************)
(* The order of the stream.                                                *)
(***************************************************************************)

\* A call is appended once.
Fresh ==
    /\ \A i, j \in 1 .. Len(stream) : stream[i] = stream[j] => i = j
    /\ \A c \in Calls : call[c] \in {"new", "append"} =>
          \A i \in 1 .. Len(stream) : stream[i] # c

\* How many entries come before the one that the node has in hand.
Passed(n) == handed - Len(batch[n])

\* Only a drain that executes has entries in hand, and they are the last that
\* were handed out.
BatchesAreLast == \A n \in Nodes :
    /\ batch[n] # <<>> => drain[n] \in Executes
    /\ Len(batch[n]) <= handed
    /\ \A i \in 1 .. Len(batch[n]) : batch[n][i] = stream[Passed(n) + i]

\* What was executed is behind whoever executes, or is in their hand and done.
TradesAreBehind == \A i \in 1 .. Len(trades) : trades[i].by = "worker" =>
    \E k \in 1 .. handed :
        /\ stream[k] = trades[i].call
        /\ \A n \in Nodes : drain[n] \in Executes =>
              \/ k <= Passed(n)
              \/ k = Passed(n) + 1 /\ drain[n] \in {"tell_filled", "remove"}

TradesInOrder == \A i, j \in 1 .. Len(trades) :
    (i < j /\ trades[i].by = "worker" /\ trades[j].by = "worker") =>
        \A k, l \in 1 .. Len(stream) :
            stream[k] = trades[i].call /\ stream[l] = trades[j].call => k < l

OrderInv == Fresh /\ BatchesAreLast /\ TradesAreBehind /\ TradesInOrder

LEMMA LengthsType ==
    ASSUME TypeOK
    PROVE  /\ stream \in Seq(Calls) /\ Len(stream) \in Nat /\ DOMAIN stream = 1 .. Len(stream)
           /\ trades \in Seq(Rows) /\ Len(trades) \in Nat /\ DOMAIN trades = 1 .. Len(trades)
           /\ handed \in Nat /\ handed <= Len(stream)
           /\ \A n \in Nodes : batch[n] \in Seq(Calls) /\ Len(batch[n]) \in Nat /\ Passed(n) \in Int
           /\ \A i \in 1 .. Len(stream) : stream[i] \in Calls
<1>1. stream \in Seq(Calls) /\ trades \in Seq(Rows) /\ handed \in 0 .. Len(stream)
  BY DEF TypeOK, Rows
<1>2. \A n \in Nodes : batch[n] \in Seq(Calls)
  BY DEF TypeOK
<1>3. /\ Len(stream) \in Nat /\ DOMAIN stream = 1 .. Len(stream)
      /\ Len(trades) \in Nat /\ DOMAIN trades = 1 .. Len(trades)
      /\ \A n \in Nodes : Len(batch[n]) \in Nat
  BY <1>1, <1>2, LenProperties
<1>4. \A i \in 1 .. Len(stream) : stream[i] \in Calls
  BY <1>1, <1>3, ElementOfSeq
<1> QED BY <1>1, <1>2, <1>3, <1>4 DEF Passed

\* Where an entry stands in the stream is where its call arrived.
LEMMA ArrivedThere ==
    ASSUME TypeOK, Fresh, NEW k \in 1 .. Len(stream)
    PROVE  Arrived(stream[k]) = k
<1>1. DOMAIN stream = 1 .. Len(stream)
  BY LengthsType
<1>2. \A i \in DOMAIN stream : stream[i] = stream[k] <=> i = k
  BY <1>1 DEF Fresh
<1> QED BY <1>1, <1>2 DEF Arrived

LEMMA OrderIsArrival == TypeOK /\ OrderInv => InOrder
<1> SUFFICES ASSUME TypeOK, OrderInv,
                    NEW i \in DOMAIN trades, NEW j \in DOMAIN trades,
                    i < j, trades[i].by = "worker", trades[j].by = "worker"
             PROVE  Arrived(trades[i].call) < Arrived(trades[j].call)
  BY DEF InOrder
<1>1. i \in 1 .. Len(trades) /\ j \in 1 .. Len(trades)
  BY LengthsType
<1>2. PICK k \in 1 .. Len(stream) : stream[k] = trades[i].call
  BY <1>1, LengthsType DEF OrderInv, TradesAreBehind
<1>3. PICK l \in 1 .. Len(stream) : stream[l] = trades[j].call
  BY <1>1, LengthsType DEF OrderInv, TradesAreBehind
<1>4. k < l
  BY <1>1, <1>2, <1>3 DEF OrderInv, TradesInOrder
<1>5. Arrived(trades[i].call) = k /\ Arrived(trades[j].call) = l
  BY <1>2, <1>3, ArrivedThere DEF OrderInv
<1> QED BY <1>4, <1>5

\* A step that hands out, executes and drops nothing.
LEMMA OrderQuiet ==
    ASSUME OrderInv, UNCHANGED <<stream, handed, batch, trades>>,
           \A c \in Calls : call'[c] \in {"new", "append"} => call[c] \in {"new", "append"},
           \A n \in Nodes : drain'[n] \in Executes <=> drain[n] \in Executes,
           \A n \in Nodes : drain[n] \in {"tell_filled", "remove"}
                            => drain'[n] \in {"tell_filled", "remove"}
    PROVE  OrderInv'
<1>1. Fresh'
  BY DEF OrderInv, Fresh
<1>2. BatchesAreLast'
  BY DEF OrderInv, BatchesAreLast, Passed
<1>3. TradesAreBehind'
  BY DEF OrderInv, TradesAreBehind, Passed
<1>4. TradesInOrder'
  BY DEF OrderInv, TradesInOrder
<1> QED BY <1>1, <1>2, <1>3, <1>4 DEF OrderInv

\* The stream grows by a call that was not in it.
LEMMA OrderGrows ==
    ASSUME TypeOK, OrderInv, NEW c \in Calls, XAdd(c), call[c] = "append",
           NEW step, Goes(c, step), step \notin {"new", "append"},
           UNCHANGED <<handed, batch, trades, drain>>
    PROVE  OrderInv'
<1>1. /\ stream' \in Seq(Calls) /\ Len(stream') = Len(stream) + 1
      /\ \A i \in 1 .. Len(stream) : stream'[i] = stream[i]
      /\ stream'[Len(stream) + 1] = c
  BY LengthsType, AppendProperties DEF XAdd
<1>2. \A i \in 1 .. Len(stream) : stream[i] # c
  BY DEF OrderInv, Fresh
<1>3. call'[c] \notin {"new", "append"} /\ \A b \in Calls \ {c} : call'[b] = call[b]
  BY DEF Goes, TypeOK
<1>4. Fresh'
  <2>1. \A i, j \in 1 .. Len(stream') : stream'[i] = stream'[j] => i = j
    BY <1>1, <1>2, LengthsType DEF OrderInv, Fresh
  <2>2. ASSUME NEW b \in Calls, call'[b] \in {"new", "append"}, NEW i \in 1 .. Len(stream')
        PROVE  stream'[i] # b
    BY <1>1, <1>3, <2>2, LengthsType DEF OrderInv, Fresh
  <2> QED BY <2>1, <2>2 DEF Fresh
<1>5. BatchesAreLast'
  <2>1. ASSUME NEW n \in Nodes, NEW i \in 1 .. Len(batch[n])
        PROVE  batch[n][i] = stream'[Passed(n) + i]
    <3>1. Len(batch[n]) <= handed /\ batch[n][i] = stream[Passed(n) + i]
      BY DEF OrderInv, BatchesAreLast
    <3>2. Passed(n) + i \in 1 .. Len(stream)
      <4>1. PICK b, s : b = Len(batch[n]) /\ s = Len(stream)
        OBVIOUS
      <4>2. b \in Nat /\ s \in Nat /\ handed \in Nat /\ handed <= s /\ b <= handed /\ i \in 1 .. b
        BY <3>1, <4>1, LengthsType
      <4>3. handed - b + i \in 1 .. s
        BY <4>2
      <4> QED BY <4>1, <4>3 DEF Passed
    <3> QED BY <1>1, <3>1, <3>2
  <2>2. \A n \in Nodes : Passed(n)' = Passed(n)
    BY DEF Passed
  <2> QED BY <2>1, <2>2 DEF OrderInv, BatchesAreLast
<1>6. TradesAreBehind'
  <2>1. \A k \in 1 .. handed : stream'[k] = stream[k]
    BY <1>1, LengthsType
  <2> QED BY <2>1 DEF OrderInv, TradesAreBehind, Passed
<1>7. TradesInOrder'
  <2> SUFFICES ASSUME NEW i \in 1 .. Len(trades), NEW j \in 1 .. Len(trades), i < j,
                      trades[i].by = "worker", trades[j].by = "worker",
                      NEW k \in 1 .. Len(stream'), NEW l \in 1 .. Len(stream'),
                      stream'[k] = trades[i].call, stream'[l] = trades[j].call
               PROVE  k < l
    BY DEF TradesInOrder
  <2>1. trades[i].call # c /\ trades[j].call # c
    <3>1. ASSUME NEW m \in 1 .. Len(trades), trades[m].by = "worker" PROVE trades[m].call # c
      <4>1. PICK r \in 1 .. handed : stream[r] = trades[m].call
        BY <3>1 DEF OrderInv, TradesAreBehind
      <4>2. r \in 1 .. Len(stream)
        BY <4>1, LengthsType
      <4> QED BY <1>2, <4>1, <4>2
    <3> QED BY <3>1
  <2>2. k \in 1 .. Len(stream) /\ l \in 1 .. Len(stream)
    BY <1>1, <2>1, LengthsType
  <2>3. stream[k] = trades[i].call /\ stream[l] = trades[j].call
    BY <1>1, <2>2
  <2> QED BY <2>2, <2>3 DEF OrderInv, TradesInOrder
<1> QED BY <1>4, <1>5, <1>6, <1>7 DEF OrderInv

\* A row that no drain executed.
LEMMA OrderInline ==
    ASSUME TypeOK, OrderInv, NEW c \in Calls, Insert(c, "inline"),
           UNCHANGED <<stream, handed, batch, drain>>,
           \A b \in Calls : call'[b] \in {"new", "append"} => call[b] \in {"new", "append"}
    PROVE  OrderInv'
<1>1. [call |-> c, by |-> "inline"] \in Rows
  BY DEF Rows
<1>2. /\ Len(trades') = Len(trades) + 1
      /\ \A i \in 1 .. Len(trades) : trades'[i] = trades[i]
      /\ trades'[Len(trades) + 1].by = "inline"
  BY <1>1, LengthsType, AppendProperties DEF Insert
<1>3. \A i \in 1 .. Len(trades') : trades'[i].by = "worker" =>
         i \in 1 .. Len(trades) /\ trades'[i] = trades[i]
  BY <1>2, LengthsType
<1>4. Fresh'
  BY DEF OrderInv, Fresh
<1>5. BatchesAreLast'
  BY DEF OrderInv, BatchesAreLast, Passed
<1>6. TradesAreBehind'
  BY <1>3 DEF OrderInv, TradesAreBehind, Passed
<1>7. TradesInOrder'
  BY <1>3 DEF OrderInv, TradesInOrder
<1> QED BY <1>4, <1>5, <1>6, <1>7 DEF OrderInv

\* One drain at a time executes the entry in its hand, which stands behind all
\* that were executed before.
LEMMA OrderCommits ==
    ASSUME TypeOK, OrderInv, WorkersHaveWork, OneWorkerAtATime, NEW n \in Nodes,
           drain[n] = "commit", Insert(Head(batch[n]), "worker"), Steps(n, "tell_filled"),
           UNCHANGED <<stream, handed, batch, call>>
    PROVE  OrderInv'
<1>1. batch[n] # <<>> /\ batch[n] \in Seq(Calls) /\ Len(batch[n]) \in Nat /\ Len(batch[n]) # 0
  BY LengthsType, EmptySeq DEF WorkersHaveWork, Executes
<1>2. PICK c \in Calls : c = Head(batch[n])
  BY <1>1, HeadTailProperties
<1>3. PICK p \in 1 .. handed : p = Passed(n) + 1 /\ stream[p] = c
  <2>1. Head(batch[n]) = batch[n][1]
    BY <1>1
  <2>2. batch[n][1] = stream[Passed(n) + 1] /\ Len(batch[n]) <= handed
    BY <1>1 DEF OrderInv, BatchesAreLast
  <2>3. Passed(n) + 1 \in 1 .. handed
    BY <1>1, <2>2, LengthsType DEF Passed
  <2> QED BY <1>2, <2>1, <2>2, <2>3
<1>4. [call |-> c, by |-> "worker"] \in Rows
  BY DEF Rows
<1>5. /\ Len(trades') = Len(trades) + 1
      /\ \A i \in 1 .. Len(trades) : trades'[i] = trades[i]
      /\ trades'[Len(trades) + 1] = [call |-> c, by |-> "worker"]
  BY <1>2, <1>4, LengthsType, AppendProperties DEF Insert
<1>6. /\ drain'[n] = "tell_filled"
      /\ \A m \in Nodes \ {n} : drain'[m] = drain[m] /\ drain[m] \notin Executes
  BY DEF Steps, TypeOK, OneWorkerAtATime, Executes
<1>7. Fresh'
  BY DEF OrderInv, Fresh
<1>8. BatchesAreLast'
  BY <1>6 DEF OrderInv, BatchesAreLast, Passed, Executes
<1>9. \A i \in 1 .. Len(trades) : trades[i].by = "worker" =>
         \E k \in 1 .. handed : stream[k] = trades[i].call /\ k <= Passed(n)
  BY DEF OrderInv, TradesAreBehind, Executes
<1>10. TradesAreBehind'
  <2> SUFFICES ASSUME NEW i \in 1 .. Len(trades'), trades'[i].by = "worker"
               PROVE  \E k \in 1 .. handed :
                         /\ stream[k] = trades'[i].call
                         /\ k <= Passed(n) \/ k = Passed(n) + 1
    BY <1>6 DEF TradesAreBehind, Passed
  <2>1. CASE i \in 1 .. Len(trades)
    BY <1>5, <1>9, <2>1
  <2>2. CASE i = Len(trades) + 1
    BY <1>3, <1>5, <2>2
  <2> QED BY <1>5, <2>1, <2>2, LengthsType
<1>11. TradesInOrder'
  <2> SUFFICES ASSUME NEW i \in 1 .. Len(trades'), NEW j \in 1 .. Len(trades'), i < j,
                      trades'[i].by = "worker", trades'[j].by = "worker",
                      NEW k \in 1 .. Len(stream), NEW l \in 1 .. Len(stream),
                      stream[k] = trades'[i].call, stream[l] = trades'[j].call
               PROVE  k < l
    BY DEF TradesInOrder
  <2>1. i \in 1 .. Len(trades)
    BY <1>5, LengthsType
  <2>2. CASE j \in 1 .. Len(trades)
    BY <1>5, <2>1, <2>2 DEF OrderInv, TradesInOrder
  <2>3. CASE j = Len(trades) + 1
    <3>1. PICK k2 \in 1 .. handed : stream[k2] = trades[i].call /\ k2 <= Passed(n)
      BY <1>5, <1>9, <2>1
    <3>2. k2 = k
      BY <1>5, <2>1, <3>1, LengthsType DEF OrderInv, Fresh
    <3>3. stream[l] = c
      BY <1>5, <2>3
    <3>4. l = p
      BY <1>3, <3>3, LengthsType DEF OrderInv, Fresh
    <3>5. Passed(n) \in Int
      BY LengthsType
    <3> QED BY <1>3, <3>1, <3>2, <3>4, <3>5
  <2>4. j \in 1 .. Len(trades) + 1 /\ Len(trades) \in Nat
    BY <1>5, LengthsType
  <2>5. j \in 1 .. Len(trades) \/ j = Len(trades) + 1
    BY <2>4
  <2> QED BY <2>2, <2>3, <2>5
<1> QED BY <1>7, <1>8, <1>10, <1>11 DEF OrderInv

\* What a read hands out comes after all that was handed out before, and
\* nobody has any of that in hand.
LEMMA OrderReads ==
    ASSUME TypeOK, OrderInv, OneWorkerAtATime, NEW n \in Nodes, Read(n) \/ ReadFails(n)
    PROVE  OrderInv'
<1>1. /\ drain[n] = "read"
      /\ UNCHANGED <<stream, trades, call>>
      /\ handed' \in {handed, LastEntry}
      /\ \E step \in {"length", "replay"} : Steps(n, step)
  BY DEF Read, ReadFails
<1>2. /\ drain'[n] \in {"length", "replay"}
      /\ \A m \in Nodes \ {n} : drain'[m] = drain[m] /\ drain[m] = "idle"
  BY <1>1 DEF Steps, TypeOK, OneWorkerAtATime
<1>3. \A m \in Nodes : batch[m] = <<>>
  BY <1>1, <1>2 DEF OrderInv, BatchesAreLast, Executes
<1>4. handed' \in Nat /\ handed <= handed'
  <2>1. LastEntry \in 0 .. Len(stream)
    BY HandedType
  <2>2. handed <= LastEntry
    BY LengthsType, QueueAssumption DEF LastEntry
  <2> QED BY <1>1, <2>1, <2>2, LengthsType
<1>5. Fresh'
  BY <1>1 DEF OrderInv, Fresh
<1>6. TradesInOrder'
  BY <1>1 DEF OrderInv, TradesInOrder
<1>7. CASE ReadFails(n)
  <2>1. \A m \in Nodes : batch'[m] = <<>> /\ drain'[m] \notin Executes
    BY <1>2, <1>3, <1>7 DEF ReadFails, Steps, TypeOK, Executes
  <2>2. BatchesAreLast'
    BY <1>4, <2>1, EmptySeq DEF BatchesAreLast
  <2>3. TradesAreBehind'
    <3>1. \A k \in 1 .. handed : k \in 1 .. handed'
      BY <1>4, LengthsType
    <3> QED BY <1>1, <2>1, <3>1 DEF OrderInv, TradesAreBehind
  <2> QED BY <1>5, <1>6, <2>2, <2>3 DEF OrderInv
<1>8. CASE Read(n)
  <2>1. /\ batch' = [batch EXCEPT ![n] = Handed] /\ handed' = LastEntry
        /\ Steps(n, IF Handed = <<>> THEN "length" ELSE "replay")
    BY <1>8 DEF Read
  <2>2. /\ batch'[n] = Handed /\ \A m \in Nodes \ {n} : batch'[m] = <<>>
        /\ Handed # <<>> => drain'[n] = "replay"
    BY <1>3, <2>1 DEF Steps, TypeOK
  <2>3. /\ Len(Handed) = handed' - handed
        /\ \A i \in 1 .. Len(Handed) : Handed[i] = stream[handed + i]
    <3>1. /\ handed + 1 \in Int /\ LastEntry \in Int /\ handed + 1 >= 1 /\ LastEntry <= Len(stream)
          /\ LastEntry >= handed
      BY <1>4, <2>1, HandedType, LengthsType
    <3>2. Handed = SubSeq(stream, handed + 1, LastEntry)
      BY DEF Handed, NextEntry
    <3>3. \A k \in handed + 1 .. LastEntry : stream[k] \in Calls
      BY <3>1, LengthsType
    <3>4. PICK last \in Int : last = LastEntry
      BY <3>1
    <3>5. PICK next \in Int : next = handed + 1
      BY <3>1
    <3>6. Handed = SubSeq(stream, next, last) /\ \A k \in next .. last : stream[k] \in Calls
      BY <3>2, <3>3, <3>4, <3>5
    <3>7. /\ Len(Handed) = IF next <= last THEN last - next + 1 ELSE 0
          /\ \A i \in 1 .. last - next + 1 : Handed[i] = stream[next + i - 1]
      BY <3>6, SubSeqProperties
    <3>8. handed \in Nat /\ last - next + 1 = last - handed /\ last >= handed
      BY <3>1, <3>4, <3>5, LengthsType
    <3>9. Len(Handed) = last - handed
      BY <3>5, <3>7, <3>8
    <3>10. \A i \in 1 .. Len(Handed) : Handed[i] = stream[handed + i]
      <4> SUFFICES ASSUME NEW i \in 1 .. last - handed PROVE Handed[i] = stream[handed + i]
        BY <3>9
      <4>1. Handed[i] = stream[next + i - 1]
        BY <3>7, <3>8
      <4>2. next + i - 1 = handed + i
        BY <3>5, <3>8
      <4> QED BY <4>1, <4>2
    <3> QED BY <2>1, <3>4, <3>9, <3>10
  <2>4. Passed(n)' = handed
    BY <2>2, <2>3, <1>4, LengthsType DEF Passed
  <2>5. BatchesAreLast'
    <3>1. ASSUME NEW m \in Nodes \ {n}
          PROVE  /\ batch'[m] = <<>> /\ Len(batch'[m]) <= handed'
                 /\ \A i \in 1 .. Len(batch'[m]) : FALSE
      BY <1>4, <2>2, EmptySeq
    <3>2. /\ batch'[n] # <<>> => drain'[n] \in Executes
          /\ Len(batch'[n]) <= handed'
          /\ \A i \in 1 .. Len(batch'[n]) : batch'[n][i] = stream'[Passed(n)' + i]
      <4>1. batch'[n] # <<>> => drain'[n] \in Executes
        BY <2>2 DEF Executes
      <4>2. Len(batch'[n]) <= handed'
        BY <1>4, <2>2, <2>3, LengthsType
      <4>3. \A i \in 1 .. Len(batch'[n]) : batch'[n][i] = stream'[Passed(n)' + i]
        BY <1>1, <2>2, <2>3, <2>4
      <4> QED BY <4>1, <4>2, <4>3
    <3> QED BY <3>1, <3>2 DEF BatchesAreLast
  <2>6. TradesAreBehind'
    <3>1. ASSUME NEW i \in 1 .. Len(trades), trades[i].by = "worker"
          PROVE  \E k \in 1 .. handed' : stream[k] = trades[i].call /\ k <= handed
      BY <1>4, <3>1, LengthsType DEF OrderInv, TradesAreBehind
    <3>2. \A m \in Nodes : drain'[m] \in Executes => m = n
      BY <1>2 DEF Executes
    <3> QED BY <1>1, <2>4, <3>1, <3>2 DEF TradesAreBehind
  <2> QED BY <1>5, <1>6, <2>5, <2>6 DEF OrderInv
<1> QED BY <1>7, <1>8

\* The entry that is removed has been executed, or never will be.
LEMMA OrderRemoves ==
    ASSUME TypeOK, OrderInv, WorkersHaveWork, NEW n \in Nodes, Remove(n)
    PROVE  OrderInv'
<1>1. batch[n] # <<>> /\ batch[n] \in Seq(Calls) /\ Len(batch[n]) \in Nat /\ Len(batch[n]) # 0
  BY LengthsType, EmptySeq DEF WorkersHaveWork, Remove, Executes
<1>2. /\ drain[n] = "remove" /\ batch' = [batch EXCEPT ![n] = Tail(batch[n])]
      /\ Steps(n, IF Len(batch[n]) = 1 THEN "read" ELSE "replay")
      /\ UNCHANGED <<stream, handed, trades, call>>
  BY DEF Remove, TypeOK
<1>3. /\ Len(Tail(batch[n])) = Len(batch[n]) - 1
      /\ \A i \in 1 .. Len(Tail(batch[n])) : Tail(batch[n])[i] = batch[n][i + 1]
      /\ Tail(batch[n]) \in Seq(Calls)
  BY <1>1, HeadTailProperties
<1>4. /\ batch'[n] = Tail(batch[n])
      /\ \A m \in Nodes \ {n} : batch'[m] = batch[m] /\ drain'[m] = drain[m]
      /\ drain'[n] = IF Len(batch[n]) = 1 THEN "read" ELSE "replay"
  BY <1>2 DEF Steps, TypeOK
<1>5. Passed(n)' = Passed(n) + 1 /\ \A m \in Nodes \ {n} : Passed(m)' = Passed(m)
  <2>1. PICK len \in Nat : len = Len(batch[n])
    BY <1>1
  <2>2. Len(batch'[n]) = len - 1
    BY <1>3, <1>4, <2>1
  <2>3. handed \in Nat /\ handed' = handed
    BY <1>2, LengthsType
  <2>4. handed - (len - 1) = (handed - len) + 1
    BY <2>1, <2>3
  <2>5. Passed(n)' = Passed(n) + 1
    BY <2>1, <2>2, <2>3, <2>4 DEF Passed
  <2>6. \A m \in Nodes \ {n} : Passed(m)' = Passed(m)
    BY <1>4, <2>3 DEF Passed
  <2> QED BY <2>5, <2>6
<1>6. Fresh'
  BY <1>2 DEF OrderInv, Fresh
<1>7. TradesInOrder'
  BY <1>2 DEF OrderInv, TradesInOrder
<1>8. BatchesAreLast'
  <2>1. batch'[n] # <<>> => drain'[n] \in Executes
    <3>1. PICK t \in Seq(Calls) : t = Tail(batch[n])
      BY <1>3
    <3>2. t # <<>> => Len(t) # 0
      BY EmptySeq
    <3>3. t # <<>> => Len(batch[n]) # 1
      BY <1>1, <1>3, <3>1, <3>2
    <3> QED BY <1>4, <3>1, <3>3 DEF Executes
  <2>2. Len(batch'[n]) <= handed'
    BY <1>1, <1>2, <1>3, <1>4, LengthsType DEF OrderInv, BatchesAreLast
  <2>3. ASSUME NEW i \in 1 .. Len(batch'[n]) PROVE batch'[n][i] = stream'[Passed(n)' + i]
    <3>1. batch'[n][i] = batch[n][i + 1] /\ i + 1 \in 1 .. Len(batch[n])
      BY <1>1, <1>3, <1>4
    <3>2. batch[n][i + 1] = stream[Passed(n) + (i + 1)]
      BY <3>1 DEF OrderInv, BatchesAreLast
    <3>3. Passed(n) + (i + 1) = Passed(n)' + i
      BY <1>1, <1>3, <1>4, <1>5, LengthsType
    <3> QED BY <1>2, <3>1, <3>2, <3>3
  <2>4. ASSUME NEW m \in Nodes \ {n}
        PROVE  /\ batch'[m] # <<>> => drain'[m] \in Executes
               /\ Len(batch'[m]) <= handed'
               /\ \A i \in 1 .. Len(batch'[m]) : batch'[m][i] = stream'[Passed(m)' + i]
    BY <1>2, <1>4, <1>5 DEF OrderInv, BatchesAreLast
  <2> QED BY <2>1, <2>2, <2>3, <2>4 DEF BatchesAreLast
<1>9. TradesAreBehind'
  <2> SUFFICES ASSUME NEW i \in 1 .. Len(trades), trades[i].by = "worker"
               PROVE  \E k \in 1 .. handed :
                         /\ stream[k] = trades[i].call
                         /\ \A m \in Nodes : drain'[m] \in Executes =>
                               \/ k <= Passed(m)'
                               \/ k = Passed(m)' + 1 /\ drain'[m] \in {"tell_filled", "remove"}
    BY <1>2 DEF TradesAreBehind
  <2>1. PICK k \in 1 .. handed :
           /\ stream[k] = trades[i].call
           /\ \A m \in Nodes : drain[m] \in Executes =>
                 \/ k <= Passed(m)
                 \/ k = Passed(m) + 1 /\ drain[m] \in {"tell_filled", "remove"}
    BY DEF OrderInv, TradesAreBehind
  <2>2. k <= Passed(n)'
    BY <1>2, <1>5, <2>1, LengthsType DEF Executes
  <2> QED BY <1>4, <1>5, <2>1, <2>2
<1> QED BY <1>6, <1>7, <1>8, <1>9 DEF OrderInv

\* What a dead node had in hand is handed to nobody.
LEMMA OrderCrashes ==
    ASSUME TypeOK, OrderInv, NEW n \in Nodes, Crash(n)
    PROVE  OrderInv'
<1>1. /\ UNCHANGED <<stream, handed, trades>>
      /\ drain'[n] = "idle" /\ batch'[n] = <<>>
      /\ \A m \in Nodes \ {n} : batch'[m] = batch[m] /\ drain'[m] = drain[m]
  BY DEF Crash, Steps, redisVars, TypeOK
<1>2. \A c \in Calls : call'[c] \in {"new", "append"} => call[c] \in {"new", "append"}
  BY DEF Crash
<1>3. \A m \in Nodes \ {n} : Passed(m)' = Passed(m)
  BY <1>1 DEF Passed
<1>4. Fresh'
  BY <1>1, <1>2 DEF OrderInv, Fresh
<1>5. BatchesAreLast'
  <2>1. Len(batch'[n]) = 0 /\ Len(batch'[n]) <= handed'
    BY <1>1, EmptySeq, LengthsType
  <2> QED BY <1>1, <1>3, <2>1 DEF OrderInv, BatchesAreLast
<1>6. TradesAreBehind'
  <2>1. \A m \in Nodes : drain'[m] \in Executes => m # n
    BY <1>1 DEF Executes
  <2> QED BY <1>1, <1>3, <2>1 DEF OrderInv, TradesAreBehind
<1>7. TradesInOrder'
  BY <1>1 DEF OrderInv, TradesInOrder
<1> QED BY <1>4, <1>5, <1>6, <1>7 DEF OrderInv

LEMMA OrderNext ==
    ASSUME QueueInv, OneWorkerAtATime, OrderInv, [Next]_vars
    PROVE  OrderInv'
<1>1. TypeOK /\ WorkersHaveWork
  BY DEF QueueInv
<1>2. ASSUME NEW c \in Calls, NEW step, Goes(c, step), step = "append" => call[c] = "new",
             step # "new", UNCHANGED <<stream, handed, batch, trades>>,
             \A n \in Nodes : drain'[n] = drain[n] \/ (drain[n] = "idle" /\ drain'[n] = "read")
      PROVE  OrderInv'
  <2>1. \A b \in Calls : call'[b] \in {"new", "append"} => call[b] \in {"new", "append"}
    BY <1>1, <1>2 DEF Goes, TypeOK
  <2> QED BY <1>2, <2>1, OrderQuiet DEF Executes
<1>3. ASSUME NEW c \in Calls, CallStep(c) PROVE OrderInv'
  <2>1. CASE Check(c) \/ Told(c) \/ StopWaiting(c)
    <3>1. PICK step \in {"append", "filled", "rejected", "queued"} :
             Goes(c, step) /\ (step = "append" => call[c] = "new")
      BY <2>1 DEF Check, Told, StopWaiting
    <3>2. UNCHANGED <<stream, handed, batch, trades, drain>>
      BY <2>1 DEF Check, Told, StopWaiting, redisVars, nodeVars
    <3> QED BY <1>2, <3>1, <3>2
  <2>2. CASE WithoutRedis(c) \/ ListFails(c)
    <3>1. Goes(c, "inline") /\ UNCHANGED <<stream, handed, batch, trades, drain>>
      BY <2>2 DEF WithoutRedis, ListFails, JoinChain, redisVars
    <3> QED BY <1>2, <3>1
  <2>3. CASE Enqueue(c)
    <3>1. UNCHANGED <<handed, batch, trades, drain>>
      BY <2>3 DEF Enqueue, nodeVars
    <3> QED BY <1>1, <2>3, <3>1, OrderGrows DEF Enqueue
  <2>4. CASE EnqueueFails(c)
    <3>1. /\ UNCHANGED <<handed, batch, trades, drain>> /\ Goes(c, "inline")
          /\ call[c] = "append" /\ (XAdd(c) \/ UNCHANGED stream)
      BY <2>4 DEF EnqueueFails, JoinChain
    <3>2. CASE XAdd(c)
      BY <1>1, <3>1, <3>2, OrderGrows
    <3>3. CASE UNCHANGED stream
      BY <1>2, <3>1, <3>3
    <3> QED BY <3>1, <3>2, <3>3
  <2>5. CASE List(c)
    <3>1. Goes(c, "nudge") /\ UNCHANGED <<stream, handed, batch, trades, drain>>
      BY <2>5 DEF List, nodeVars
    <3> QED BY <1>2, <3>1
  <2>6. CASE Nudge(c)
    <3>1. Goes(c, "wait") /\ UNCHANGED <<stream, handed, batch, trades>>
      BY <2>6 DEF Nudge
    <3>2. \A n \in Nodes : drain'[n] = drain[n] \/ (drain[n] = "idle" /\ drain'[n] = "read")
      BY <1>1, <2>6 DEF Nudge, StartDrain, MayDrain, TypeOK
    <3> QED BY <1>2, <3>1, <3>2
  <2>7. CASE InlineReplay(c)
    <3>1. PICK step \in {"filled", "running"} : Goes(c, step)
      BY <2>7 DEF InlineReplay
    <3>2. UNCHANGED <<stream, handed, batch, trades, drain>>
      BY <2>7 DEF InlineReplay, redisVars
    <3> QED BY <1>2, <3>1, <3>2
  <2>8. CASE InlineCommit(c)
    <3>1. UNCHANGED <<stream, handed, batch, drain>>
      BY <2>8 DEF InlineCommit, redisVars
    <3>2. PICK step \in {"filled", "rejected", "failed"} :
             Goes(c, step) /\ (Insert(c, "inline") \/ UNCHANGED trades)
      BY <2>8 DEF InlineCommit
    <3>3. \A b \in Calls : call'[b] \in {"new", "append"} => call[b] \in {"new", "append"}
      BY <1>1, <3>2 DEF Goes, TypeOK
    <3>4. CASE Insert(c, "inline")
      BY <1>1, <3>1, <3>3, <3>4, OrderInline
    <3>5. CASE UNCHANGED trades
      BY <1>2, <3>1, <3>2, <3>5
    <3> QED BY <3>2, <3>4, <3>5
  <2> QED BY <1>3, <2>1, <2>2, <2>3, <2>4, <2>5, <2>6, <2>7, <2>8 DEF CallStep
<1>4. ASSUME NEW n \in Nodes, NEW step, Steps(n, step),
             UNCHANGED <<stream, handed, batch, trades, call>>,
             step \in Executes <=> drain[n] \in Executes,
             drain[n] \in {"tell_filled", "remove"} => step \in {"tell_filled", "remove"}
      PROVE  OrderInv'
  <2>1. drain'[n] = step /\ \A m \in Nodes \ {n} : drain'[m] = drain[m]
    BY <1>1, <1>4 DEF Steps, TypeOK
  <2> QED BY <1>4, <2>1, OrderQuiet
<1>5. ASSUME NEW n \in Nodes, DrainStep(n) PROVE OrderInv'
  <2>1. CASE Read(n) \/ ReadFails(n)
    BY <1>1, <2>1, OrderReads
  <2>2. CASE Replay(n)
    <3>1. PICK step \in {"tell_filled", "commit"} : Steps(n, step)
      BY <2>2 DEF Replay
    <3>2. drain[n] = "replay" /\ UNCHANGED <<stream, handed, batch, trades, call>>
      BY <2>2 DEF Replay, redisVars
    <3> QED BY <1>4, <3>1, <3>2 DEF Executes
  <2>3. CASE Commit(n)
    <3>1. drain[n] = "commit" /\ UNCHANGED <<stream, handed, batch, call>>
      BY <2>3 DEF Commit, redisVars
    <3>2. \/ Insert(Head(batch[n]), "worker") /\ Steps(n, "tell_filled")
          \/ Steps(n, "tell_rejected") /\ UNCHANGED trades
      BY <2>3 DEF Commit
    <3>3. CASE Insert(Head(batch[n]), "worker") /\ Steps(n, "tell_filled")
      BY <1>1, <3>1, <3>3, OrderCommits
    <3>4. CASE Steps(n, "tell_rejected") /\ UNCHANGED trades
      BY <1>4, <3>1, <3>4 DEF Executes
    <3> QED BY <3>2, <3>3, <3>4
  <2>4. CASE TellFilled(n) \/ TellRejected(n)
    <3>1. /\ drain[n] \in {"tell_filled", "tell_rejected"} /\ Steps(n, "remove")
          /\ UNCHANGED <<stream, handed, batch, trades, call>>
      BY <2>4 DEF TellFilled, TellRejected
    <3> QED BY <1>4, <3>1 DEF Executes
  <2>5. CASE Remove(n)
    BY <1>1, <2>5, OrderRemoves
  <2>6. CASE Length(n) \/ Unlist(n) \/ Unlock(n)
    <3>1. PICK step \in {"unlist", "unlock", "idle"} : Steps(n, step)
      BY <2>6 DEF Length, Unlist, Unlock
    <3>2. /\ drain[n] \in {"length", "unlist", "unlock"}
          /\ UNCHANGED <<stream, handed, batch, trades, call>>
      BY <2>6 DEF Length, Unlist, Unlock, redisVars
    <3> QED BY <1>4, <3>1, <3>2 DEF Executes
  <2> QED BY <1>5, <2>1, <2>2, <2>3, <2>4, <2>5, <2>6 DEF DrainStep
<1>6. ASSUME NEW n \in Nodes, Poll(n) PROVE OrderInv'
  <2>1. UNCHANGED <<stream, handed, batch, trades, call>> /\ drain[n] = "idle"
    BY <1>6 DEF Poll, MayDrain
  <2>2. Steps(n, "read")
    BY <1>6 DEF Poll, StartDrain, Steps
  <2> QED BY <1>4, <2>1, <2>2 DEF Executes
<1>7. ASSUME NEW n \in Nodes, Crash(n) PROVE OrderInv'
  BY <1>1, <1>7, OrderCrashes
<1>8. CASE Expire
  BY <1>8, OrderQuiet DEF Expire, nodeVars
<1>9. CASE UNCHANGED vars
  BY <1>9, OrderQuiet DEF vars, redisVars, nodeVars
<1> QED BY <1>3, <1>5, <1>6, <1>7, <1>8, <1>9 DEF Next

\* "Consumed in order": what the workers execute commits in the order in which
\* it was appended, across nodes, batches, failing commands and crashes,
\* provided no drain outlives its lock.
THEOREM StreamInOrder ==
    ASSUME ~LocksExpire
    PROVE  Spec => []InOrder
<1>1. Init => OrderInv
  <2> SUFFICES ASSUME Init PROVE OrderInv
    OBVIOUS
  <2>1. /\ Len(stream) = 0 /\ Len(trades) = 0 /\ handed = 0
        /\ \A n \in Nodes : batch[n] = <<>> /\ Len(batch[n]) = 0
    BY EmptySeq DEF Init
  <2> QED BY <2>1 DEF OrderInv, Fresh, BatchesAreLast, TradesAreBehind, TradesInOrder
<1>2. QueueInv /\ OneWorkerAtATime /\ OrderInv /\ [Next]_vars => OrderInv'
  BY OrderNext
<1>3. QueueInv /\ OrderInv => InOrder
  BY OrderIsArrival DEF QueueInv
<1>4. Spec => []OneWorkerAtATime
  BY OneWorker
<1> QED BY <1>1, <1>2, <1>3, <1>4, QueueInvariant, PTL DEF Spec
=============================================================================
