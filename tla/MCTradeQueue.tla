---------------------------- MODULE MCTradeQueue ----------------------------
(***************************************************************************)
(* Small instances of TradeQueue for TLC: two users at two nodes, or a     *)
(* retry that takes the inline path beside the stream.                     *)
(***************************************************************************)
EXTENDS TradeQueue

Pair == {"first", "second"}

PairRequests == [c \in Pair |-> IF c = "first" THEN "r1" ELSE "r2"]

PairHome == [c \in Pair |-> IF c = "first" THEN "n1" ELSE "n2"]

\* A retry that reaches a node without Redis, and somebody else's call there.
WithRetry == {"first", "retry", "other"}

RetryRequests == [c \in WithRetry |-> IF c = "other" THEN "r2" ELSE "r1"]

RetryHome == [c \in WithRetry |-> IF c = "first" THEN "n1" ELSE "n2"]

TwoNodes == {"n1", "n2"}

NoNode == {}

SecondNode == {"n2"}

MCFree == "free"
=============================================================================
