------------------------------ MODULE MCMarket ------------------------------
(***************************************************************************)
(* Small instances of Market for TLC. The cost curve is the smallest whole *)
(* one with the properties the engine's has: a share of the outcome that   *)
(* leads costs 3, a share of one that trails costs 1, a full set costs 4.  *)
(* The price of an outcome therefore moves with the book, and a seller can *)
(* win or lose against what was paid.                                      *)
(***************************************************************************)
EXTENDS Market

MCOutcomes == {"yes", "no"}

MCCost(f) == f["yes"] + f["no"] + 2 * (IF f["yes"] > f["no"] THEN f["yes"] ELSE f["no"])

MCSetPrice == 4

MCCreator == "creator"

MCHouse == "sys_platform"

MCNobody == "nobody"

NoOne == {}

OneTrader == {"ada"}

TwoTraders == {"ada", "bola"}

OneStaff == {"resolver"}

TwoStaff == {"resolver", "admin"}

OneApprover == {"approver"}

OnlyOfficial == {"official"}

OnlySeeded == {"seeded"}

Community == {"organic", "seeded"}

\* What an account may put in: the bound on how much anybody trades.
Purse == 6

MCEndowment == [u \in Accounts |-> IF u = House THEN 0 ELSE Purse]

CreatorPurse == [u \in Accounts |-> IF u = House THEN 0 ELSE IF u = Creator THEN 10 ELSE 4]
=============================================================================
