---------------------------- MODULE Verification ----------------------------
(***************************************************************************)
(* Signing up and proving the contact: the one-time code in Redis, the     *)
(* delivery that may fail, the confirmation that reads the code and then   *)
(* promotes the account and pays the bonus in a transaction of its own.    *)
(***************************************************************************)
EXTENDS Integers, FiniteSets

CONSTANTS
    Signups,        \* signup requests that name the contact
    Confirms,       \* confirmation requests under way at once
    MaxAttempts,    \* otp_max_attempts
    MaxCodes        \* bound on the codes issued

VARIABLES
    owners,         \* accounts that hold the contact
    verified,       \* users.contactVerified, and with it tier 1
    bonuses,        \* signup bonuses posted
    otp,            \* the Redis hash; code 0 when it holds no code
    cooling,        \* the last code is younger than the resend cooldown
    issued,         \* codes issued
    sender,         \* the code on its way out, 0 when none
    confirm,        \* confirm[c]: where the confirmation is
    wrong,          \* history: wrong guesses at the outstanding code
    together        \* history: two confirmations got past the same question

vars == <<owners, verified, bonuses, otp, cooling, issued, sender, confirm, wrong, together>>

NoCode == [code |-> 0, attempts |-> 0]

Idle == [at |-> "idle", code |-> 0, right |-> FALSE]

Init ==
    /\ owners = {}
    /\ verified = FALSE
    /\ bonuses = 0
    /\ otp = NoCode
    /\ cooling = FALSE
    /\ issued = 0
    /\ sender = 0
    /\ confirm = [c \in Confirms |-> Idle]
    /\ wrong = 0
    /\ together = FALSE

\* The row and the starter balance in one transaction; a contact that is taken
\* breaks the unique index and becomes a refusal.
Signup(s) ==
    /\ owners = {}
    /\ owners' = {s}
    /\ UNCHANGED <<verified, bonuses, otp, cooling, issued, sender, confirm, wrong, together>>

\* issue(): refused within the cooldown, else a code in place of any other.
IssueCode ==
    /\ owners # {}
    /\ ~verified
    /\ sender = 0
    /\ issued < MaxCodes
    /\ otp.code # 0 => ~cooling
    /\ issued' = issued + 1
    /\ otp' = [code |-> issued + 1, attempts |-> 0]
    /\ cooling' = TRUE
    /\ sender' = issued + 1
    /\ wrong' = 0
    /\ UNCHANGED <<owners, verified, bonuses, confirm, together>>

\* notify() says which channels took it; a code that reached nobody is thrown
\* away so that it holds no cooldown.
Deliver(took) ==
    /\ sender # 0
    /\ sender' = 0
    /\ otp' = IF took THEN otp ELSE NoCode
    /\ UNCHANGED <<owners, verified, bonuses, cooling, issued, confirm, wrong, together>>

\* The key's time to live, and the cooldown, run out.
Lapse ==
    /\ otp.code # 0
    /\ otp' = NoCode
    /\ UNCHANGED <<owners, verified, bonuses, cooling, issued, sender, confirm, wrong, together>>

CoolDown ==
    /\ cooling
    /\ cooling' = FALSE
    /\ UNCHANGED <<owners, verified, bonuses, otp, issued, sender, confirm, wrong, together>>

---------------------------------------------------------------------------

\* The account and the hash are read; a spent one is deleted.
ConfirmRead(c, right) ==
    /\ confirm[c].at = "idle"
    /\ owners # {} /\ ~verified
    /\ otp.code # 0
    /\ IF otp.attempts >= MaxAttempts
       THEN otp' = NoCode /\ UNCHANGED confirm
       ELSE /\ confirm' = [confirm EXCEPT ![c] =
                   [at |-> "read", code |-> otp.code, right |-> right]]
            /\ UNCHANGED otp
    /\ UNCHANGED <<owners, verified, bonuses, cooling, issued, sender, wrong, together>>

\* A wrong guess increments whatever hash is there by now, a right one deletes
\* it.
Compare(c) ==
    /\ confirm[c].at = "read"
    /\ confirm' = [confirm EXCEPT ![c] = IF @.right THEN [@ EXCEPT !.at = "matched"] ELSE Idle]
    /\ otp' = IF confirm[c].right THEN NoCode ELSE [otp EXCEPT !.attempts = @ + 1]
    /\ wrong' = IF ~confirm[c].right /\ confirm[c].code = otp.code THEN wrong + 1 ELSE wrong
    /\ UNCHANGED <<owners, verified, bonuses, cooling, issued, sender, together>>

\* A mutant that does not ask whether the account is verified.
PromoteAnyway(c) ==
    /\ confirm[c].at = "matched"
    /\ confirm' = [confirm EXCEPT ![c].at = "promoting"]
    /\ together' = (together \/ \E d \in Confirms : confirm[d].at = "promoting")
    /\ UNCHANGED <<owners, verified, bonuses, otp, cooling, issued, sender, wrong>>

\* markContactVerified reads the account without a lock ...
PromoteRead(c) ==
    /\ confirm[c].at = "matched"
    /\ confirm' = [confirm EXCEPT ![c] = IF verified THEN Idle ELSE [@ EXCEPT !.at = "promoting"]]
    /\ together' = (together \/ (~verified /\ \E d \in Confirms : confirm[d].at = "promoting"))
    /\ UNCHANGED <<owners, verified, bonuses, otp, cooling, issued, sender, wrong>>

\* ... and promotes and pays in the same transaction.
PromoteCommit(c) ==
    /\ confirm[c].at = "promoting"
    /\ verified' = TRUE
    /\ bonuses' = bonuses + 1
    /\ confirm' = [confirm EXCEPT ![c] = Idle]
    /\ UNCHANGED <<owners, otp, cooling, issued, sender, wrong, together>>

\* The process dies between the code and the promotion.
Crash(c) ==
    /\ confirm[c].at # "idle"
    /\ confirm' = [confirm EXCEPT ![c] = Idle]
    /\ UNCHANGED <<owners, verified, bonuses, otp, cooling, issued, sender, wrong, together>>

Next ==
    \/ \E s \in Signups : Signup(s)
    \/ IssueCode
    \/ \E took \in BOOLEAN : Deliver(took)
    \/ Lapse
    \/ CoolDown
    \/ \E c \in Confirms :
          \/ \E right \in BOOLEAN : ConfirmRead(c, right)
          \/ Compare(c)
          \/ PromoteRead(c)
          \/ PromoteCommit(c)
          \/ Crash(c)

Spec == Init /\ [][Next]_vars

---------------------------------------------------------------------------

\* The bonus is paid once, and comes with the tier: only two confirmations
\* that both found the account unverified pay it twice (markContactVerified).
BonusPaidOnce ==
    /\ verified <=> bonuses > 0
    /\ bonuses > 1 => together

\* A code takes no more wrong guesses than the cap, and one more for each
\* other confirmation that was already past the count (OtpService.verify).
GuessesCapped == wrong <= MaxAttempts + Cardinality(Confirms) - 1

\* Neither the money nor the guesses of a contact run past their bound.
ContactHolds == BonusPaidOnce /\ GuessesCapped
=============================================================================
