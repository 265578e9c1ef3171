------------------------------ MODULE Sessions ------------------------------
(***************************************************************************)
(* The sessions of one account: stateless tokens, the revocations kept in  *)
(* Redis that end them early, and the reviewer's decision on an abuse flag *)
(* that freezes the account.  Time is in the seconds that "iat" counts.    *)
(***************************************************************************)
EXTENDS Integers, FiniteSets

CONSTANTS
    Tokens,         \* token ids, one per login
    Reviewers,      \* staff deciding on the account's flags
    TokenLife,      \* JWT_EXPIRES_IN
    EntryLife,      \* MAX_TOKEN_LIFETIME_SECONDS
    Horizon         \* bound on the time

VARIABLES
    status,         \* users.status
    iat,            \* iat[t]: when token t was issued
    login,          \* logins past the question of status, not yet signed
    denied,         \* denied[t]: when the entry of a logged-out token lapses
    cutoff,         \* the account's cutoff entry: [at, ends]
    reachable,      \* Redis answers
    decision,       \* decision[v]: what reviewer v is half way through
    now,
    over            \* history: tokens whose end was recorded

vars == <<status, iat, login, denied, cutoff, reachable, decision, now, over>>

\* Not issued, not cut off.
Never == -1

NoDecision == [at |-> "rest", was |-> "active", to |-> "active"]

Init ==
    /\ status = "active"
    /\ iat = [t \in Tokens |-> Never]
    /\ login = {}
    /\ denied = [t \in Tokens |-> 0]
    /\ cutoff = [at |-> Never, ends |-> 0]
    /\ reachable = TRUE
    /\ decision = [v \in Reviewers |-> NoDecision]
    /\ now = 0
    /\ over = {}

Issued == {t \in Tokens : iat[t] # Never}

Valid(t) == t \in Issued /\ now < iat[t] + TokenLife

\* isRevoked: by the token's own entry or by the account's cutoff; it fails
\* open when Redis does not answer.
Revoked(t) ==
    /\ reachable
    /\ \/ now < denied[t]
       \/ now < cutoff.ends /\ iat[t] <= cutoff.at

\* JwtGuard.
Admitted(t) == Valid(t) /\ ~Revoked(t)

---------------------------------------------------------------------------

\* The password takes a while to check after the account has been read.
LoginRead(t) ==
    /\ t \notin Issued \cup login
    /\ status = "active"
    /\ login' = login \cup {t}
    /\ UNCHANGED <<status, iat, denied, cutoff, reachable, decision, now, over>>

LoginSign(t) ==
    /\ t \in login
    /\ login' = login \ {t}
    /\ iat' = [iat EXCEPT ![t] = now]
    /\ UNCHANGED <<status, denied, cutoff, reachable, decision, now, over>>

\* A mutant whose entry lives for a token's life from its logout less one.
DeniedShortly(t) == [denied EXCEPT ![t] = now + 1]

Denied(t) == [denied EXCEPT ![t] = iat[t] + TokenLife]

\* revokeToken: denied for as long as the token could still be presented.
Logout(t) ==
    /\ Admitted(t)
    /\ denied' = IF reachable THEN Denied(t) ELSE denied
    /\ over' = IF reachable THEN over \cup {t} ELSE over
    /\ UNCHANGED <<status, iat, login, cutoff, reachable, decision, now>>

\* A reviewer's decision reads the status, writes it with the flag, and only
\* then ends the sessions, when this decision is the one that froze.
DecideRead(v, to) ==
    /\ decision[v].at = "rest"
    /\ decision' = [decision EXCEPT ![v] = [at |-> "read", was |-> status, to |-> to]]
    /\ UNCHANGED <<status, iat, login, denied, cutoff, reachable, now, over>>

DecideWrite(v) ==
    LET d == decision[v]
        freezes == d.to = "frozen" /\ d.was # "frozen"
    IN /\ d.at = "read"
       /\ status' = IF d.to # d.was THEN d.to ELSE status
       /\ decision' = [decision EXCEPT ![v] =
              IF freezes THEN [d EXCEPT !.at = "revoke"] ELSE NoDecision]
       /\ UNCHANGED <<iat, login, denied, cutoff, reachable, now, over>>

\* revokeUser: every token issued up to this second; lost with a log line
\* when Redis does not answer.
RevokeUser(v) ==
    /\ decision[v].at = "revoke"
    /\ cutoff' = IF reachable THEN [at |-> now, ends |-> now + EntryLife] ELSE cutoff
    /\ over' = IF reachable THEN over \cup Issued ELSE over
    /\ decision' = [decision EXCEPT ![v] = NoDecision]
    /\ UNCHANGED <<status, iat, login, denied, reachable, now>>

Outage ==
    /\ reachable' = ~reachable
    /\ UNCHANGED <<status, iat, login, denied, cutoff, decision, now, over>>

Tick ==
    /\ now < Horizon
    /\ now' = now + 1
    /\ UNCHANGED <<status, iat, login, denied, cutoff, reachable, decision, over>>

\* POST auth/login.
Login(t) == LoginRead(t) \/ LoginSign(t)

Next ==
    \/ \E t \in Tokens : Login(t) \/ Logout(t)
    \/ \E v \in Reviewers :
          \/ \E to \in {"active", "frozen"} : DecideRead(v, to)
          \/ DecideWrite(v)
          \/ RevokeUser(v)
    \/ Outage
    \/ Tick

Spec == Init /\ [][Next]_vars

---------------------------------------------------------------------------

\* A session whose end was recorded is never admitted again while Redis
\* answers: no entry lapses before its token does, and no later entry brings
\* a token back (TokenRevocationService).
EndedStaysEnded == reachable => \A t \in over : ~Admitted(t)
=============================================================================
