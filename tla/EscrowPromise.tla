--------------------------- MODULE EscrowPromise ---------------------------
(***************************************************************************)
(* What the platform promises about the money of one market, whatever its  *)
(* shelf, its path and its resolution: money is put into escrow and taken  *)
(* out of it while the market is open; the market is settled once, which   *)
(* empties the escrow; and nothing moves after that.                       *)
(***************************************************************************)
EXTENDS Integers

VARIABLES
    phase,   \* "open", "paid" or "refunded"
    held,    \* everything in the market's escrow
    free     \* everything outside it, the platform's fees included

promise == <<phase, held, free>>

PromiseInit == phase = "open" /\ held = 0 /\ free \in Nat

\* A stake, a bond, a seed or a contribution; an issued seed is money the
\* house did not have before.
Deposit ==
    /\ phase = "open"
    /\ held' > held
    /\ free' \in {free, free - (held' - held)}
    /\ free' >= 0
    /\ UNCHANGED phase

\* An exit, or a forfeited bond.
Withdraw ==
    /\ phase = "open"
    /\ held' >= 0 /\ held' < held
    /\ free' = free + (held - held')
    /\ UNCHANGED phase

\* The payout or the refund, of everything.
Close ==
    /\ phase = "open"
    /\ phase' \in {"paid", "refunded"}
    /\ held' = 0
    /\ free' = free + held

PromiseSpec == PromiseInit /\ [][Deposit \/ Withdraw \/ Close]_promise
=============================================================================
