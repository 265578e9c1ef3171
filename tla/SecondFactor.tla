---------------------------- MODULE SecondFactor ----------------------------
(***************************************************************************)
(* The second factor of a staff account: enrolment writes a secret, a code *)
(* from it confirms, and the step-up in front of a sensitive action checks *)
(* a code against the confirmed secret.  Each request reads the row first  *)
(* and writes it later; a secret written before encryption existed is      *)
(* sealed when it is next proved.                                          *)
(***************************************************************************)
EXTENDS Integers, FiniteSets

CONSTANTS
    Requests,       \* requests of the account under way at once
    MaxSecrets      \* bound on the secrets generated

VARIABLES
    secret,         \* users.totpSecret: 0 for none
    sealed,         \* it is stored encrypted
    confirmed,      \* totpConfirmedAt is set
    generated,      \* secrets generated so far; each is on some authenticator
    work,           \* work[r]: what the request read
    proved,         \* history: secrets a code proved
    together        \* history: two enrolment requests overlapped

vars == <<secret, sealed, confirmed, generated, work, proved, together>>

Rest == [at |-> "rest", saw |-> 0, sealed |-> TRUE]

\* A staff account that is not enrolled, or one enrolled before encryption.
Init ==
    /\ \/ secret = 0 /\ confirmed = FALSE /\ generated = 0 /\ proved = {} /\ sealed = TRUE
       \/ secret = 1 /\ confirmed = TRUE /\ generated = 1 /\ proved = {1} /\ sealed = FALSE
    /\ work = [r \in Requests |-> Rest]
    /\ together = FALSE

Overlaps(r) == \E q \in Requests \ {r} : work[q].at \in {"enrol", "confirm"}

Read(r, what) ==
    /\ work[r].at = "rest"
    /\ work' = [work EXCEPT ![r] = [at |-> what, saw |-> secret, sealed |-> sealed]]
    /\ together' = (together \/ (what # "reseal" /\ Overlaps(r)))
    /\ UNCHANGED <<secret, sealed, confirmed, generated, proved>>

\* A mutant that lets a confirmed account start again.
EnrolAgain(r) == Read(r, "enrol")

\* beginEnrolment: refused once confirmed.
EnrolRead(r) == ~confirmed /\ Read(r, "enrol")

EnrolWrite(r) ==
    /\ work[r].at = "enrol"
    /\ generated < MaxSecrets
    /\ generated' = generated + 1
    /\ secret' = generated + 1
    /\ sealed' = TRUE
    /\ work' = [work EXCEPT ![r] = Rest]
    /\ UNCHANGED <<confirmed, proved, together>>

\* confirmEnrolment: the code is checked against the secret that was read,
\* and the update writes that same secret back with the confirmation.
ConfirmRead(r) == secret # 0 /\ ~confirmed /\ Read(r, "confirm")

ConfirmWrite(r) ==
    /\ work[r].at = "confirm"
    /\ confirmed' = TRUE
    /\ secret' = work[r].saw
    /\ sealed' = TRUE
    /\ proved' = proved \cup {work[r].saw}
    /\ work' = [work EXCEPT ![r] = Rest]
    /\ UNCHANGED <<generated, together>>

\* assertStepUp with a right code; an old row is sealed afterwards.
StepUp(r) ==
    /\ confirmed
    /\ secret # 0
    /\ IF sealed THEN UNCHANGED <<work, together>> /\ work[r].at = "rest"
       ELSE Read(r, "reseal")
    /\ UNCHANGED <<secret, sealed, confirmed, generated, proved>>

Reseal(r) ==
    /\ work[r].at = "reseal"
    /\ secret' = work[r].saw
    /\ sealed' = TRUE
    /\ work' = [work EXCEPT ![r] = Rest]
    /\ UNCHANGED <<confirmed, generated, proved, together>>

\* POST account/2fa/enrol and account/2fa/confirm.
Enrol(r) == EnrolRead(r) \/ EnrolWrite(r)
Confirm(r) == ConfirmRead(r) \/ ConfirmWrite(r)

Next == \E r \in Requests : Enrol(r) \/ Confirm(r) \/ StepUp(r) \/ Reseal(r)

Spec == Init /\ [][Next]_vars

\* A confirmed account holds a secret that a code proved, so nobody is locked
\* out by a setup they mistyped, unless two of its enrolments overlapped
\* (TotpService).
ConfirmedWasProved == confirmed => secret \in proved \/ together
=============================================================================
