---------------------------- MODULE PeopleProofs ----------------------------
(***************************************************************************)
(* What MCPeople promises of each of its components, proved for every      *)
(* value of the constants: the invariants of verification, sessions, the   *)
(* second factor, the creator's ladder, nudges, threads, following and the *)
(* boards, the action properties of challenges, opportunities and the      *)
(* abuse desk, and what the two pages tell their reader.  Each component   *)
(* moves in behaviours of its own, so each has an inductive invariant of   *)
(* its own, on its own variables.                                          *)
(***************************************************************************)
EXTENDS MCPeople, SumLemmas, FunctionTheorems, FiniteSetTheorems, SequenceTheorems,
        WellFoundedInduction, TLAPS

-----------------------------------------------------------------------------
(* Verification.                                                           *)

ConfirmRow == [at : {"idle", "read", "matched", "promoting"}, code : Nat, right : BOOLEAN]

ContactType ==
    /\ confirm \in [Hands -> ConfirmRow]
    /\ otp \in [code : Nat, attempts : Nat]
    /\ issued \in Nat /\ bonuses \in Nat /\ wrong \in Nat
    /\ verified \in BOOLEAN /\ confirmedTogether \in BOOLEAN

\* No code is from the future, and a confirmation has read one.
CodesIssued ==
    /\ otp.code <= issued
    /\ \A c \in Hands :
          confirm[c].code <= issued /\ (confirm[c].at = "read" => confirm[c].code # 0)

\* Until two of them have met, one confirmation is about to promote, and the
\* account it read unverified still is.
PromotedAlone ==
    /\ verified <=> bonuses > 0
    /\ ~confirmedTogether =>
          /\ bonuses <= 1
          /\ \A c \in Hands : confirm[c].at = "promoting" => ~verified
          /\ \A c, d \in Hands :
                confirm[c].at = "promoting" /\ confirm[d].at = "promoting" => c = d

\* Confirmations that are about to count a wrong guess at the code there is.
Guessing(code, conf) ==
    {c \in Hands : conf[c].at = "read" /\ ~conf[c].right /\ conf[c].code = code /\ code # 0}

GuessesCounted ==
    /\ otp.code # 0 => wrong <= otp.attempts
    /\ wrong + Cardinality(Guessing(otp.code, confirm)) <= MaxAttempts + Cardinality(Hands) - 1

ContactInv == ContactType /\ CodesIssued /\ PromotedAlone /\ GuessesCounted

LEMMA GuessingFinite ==
    ASSUME NEW code, NEW conf
    PROVE  /\ IsFiniteSet(Guessing(code, conf))
           /\ Cardinality(Guessing(code, conf)) \in Nat
           /\ Cardinality(Guessing(code, conf)) <= Cardinality(Hands)
           /\ Cardinality(Hands) \in Nat \ {0}
<1>1. Guessing(code, conf) \subseteq Hands
  BY DEF Guessing
<1>2. Cardinality(Hands) \in Nat \ {0}
  BY HandsAssumption, FS_CardinalityType, FS_EmptySet
<1>3. QED  BY <1>1, <1>2, HandsAssumption, FS_Subset, FS_CardinalityType

\* With fewer guesses on their way, or none of the code, the bound stands.
LEMMA FewerGuesses ==
    ASSUME NEW code, NEW conf, NEW code2, NEW conf2,
           Guessing(code2, conf2) \subseteq Guessing(code, conf)
    PROVE  Cardinality(Guessing(code2, conf2)) <= Cardinality(Guessing(code, conf))
BY GuessingFinite, FS_Subset

LEMMA ContactStarts == Contact!Init => ContactInv
<1> SUFFICES ASSUME Contact!Init PROVE ContactInv
  OBVIOUS
<1>0. /\ confirm = [c \in Hands |-> [at |-> "idle", code |-> 0, right |-> FALSE]]
      /\ verified = FALSE /\ bonuses = 0 /\ issued = 0 /\ wrong = 0
      /\ otp = [code |-> 0, attempts |-> 0] /\ confirmedTogether = FALSE
  BY DEF Contact!Init, Contact!Idle, Contact!NoCode
<1>1. ContactType /\ CodesIssued /\ PromotedAlone
  <2>1. ContactType
    BY <1>0 DEF ContactType, ConfirmRow
  <2>2. CodesIssued
    BY <1>0 DEF CodesIssued
  <2>3. ~(bonuses > 0) /\ ~verified /\ bonuses <= 1
    BY <1>0
  <2>4. \A c \in Hands : confirm[c].at = "idle"
    BY <1>0
  <2>5. PromotedAlone
    BY <2>3, <2>4 DEF PromotedAlone
  <2>6. QED  BY <2>1, <2>2, <2>5
<1>2. otp.code = 0 /\ wrong = 0
  BY DEF Contact!Init, Contact!NoCode
<1>3. Guessing(otp.code, confirm) = {}
  BY <1>2 DEF Guessing
<1>4. Cardinality(Guessing(otp.code, confirm)) = 0 /\ Cardinality(Hands) \in Nat \ {0}
  BY <1>3, FS_EmptySet, GuessingFinite
<1>5. GuessesCounted
  BY <1>2, <1>4, GuessesAssumption DEF GuessesCounted
<1>6. QED  BY <1>1, <1>5 DEF ContactInv

\* What the code, the count of guesses and the confirmations become.
LEMMA GuessesStay ==
    ASSUME ContactInv, ContactType',
           wrong' = wrong,
           otp' = otp \/ otp'.code = 0,
           \A c \in Hands : confirm'[c] = confirm[c] \/ confirm'[c].at # "read"
    PROVE  GuessesCounted'
<1>1. PICK code, conf : code \in Nat /\ code = otp.code /\ conf = confirm
  BY DEF ContactInv, ContactType
<1>2. PICK code2, conf2 : code2 \in Nat /\ code2 = otp'.code /\ conf2 = confirm'
  BY DEF ContactType
<1>3. code2 # 0 => code2 = code /\ otp' = otp
  BY <1>1, <1>2
<1>4. Guessing(code2, conf2) \subseteq Guessing(code, conf)
  BY <1>1, <1>2, <1>3 DEF Guessing
<1>5. Cardinality(Guessing(code2, conf2)) <= Cardinality(Guessing(code, conf))
  BY <1>4, FewerGuesses
<1>6. /\ Cardinality(Guessing(code2, conf2)) \in Nat
      /\ Cardinality(Guessing(code, conf)) \in Nat
      /\ Cardinality(Hands) \in Nat
  BY GuessingFinite
<1>7. wrong + Cardinality(Guessing(code, conf)) <= MaxAttempts + Cardinality(Hands) - 1
  BY <1>1 DEF ContactInv, GuessesCounted
<1>8. wrong' + Cardinality(Guessing(code2, conf2)) <= MaxAttempts + Cardinality(Hands) - 1
  BY <1>5, <1>6, <1>7, GuessesAssumption DEF ContactInv, ContactType
<1>9. otp'.code # 0 => wrong' <= otp'.attempts
  BY <1>2, <1>3 DEF ContactInv, GuessesCounted
<1>10. QED  BY <1>2, <1>8, <1>9 DEF GuessesCounted

LEMMA ContactKeeps ==
    ASSUME ContactInv, [Contact!Next]_(Contact!vars)
    PROVE  ContactInv'
<1>1. ASSUME NEW s \in Signups, Contact!Signup(s) PROVE ContactInv'
  BY <1>1 DEF Contact!Signup, ContactInv, ContactType, CodesIssued, PromotedAlone, GuessesCounted
<1>2. CASE Contact!IssueCode
  <2>1. /\ issued' = issued + 1
        /\ otp' = [code |-> issued + 1, attempts |-> 0]
        /\ wrong' = 0
        /\ UNCHANGED <<verified, bonuses, confirm, confirmedTogether>>
    BY <1>2 DEF Contact!IssueCode
  <2>2. ContactType' /\ CodesIssued' /\ PromotedAlone'
    BY <2>1 DEF ContactInv, ContactType, CodesIssued, PromotedAlone, ConfirmRow
  <2>3. PICK code, conf : code \in Nat /\ code = issued + 1 /\ conf = confirm
    BY DEF ContactInv, ContactType
  <2>4. Guessing(code, conf) = {}
    BY <2>3 DEF Guessing, ContactInv, ContactType, CodesIssued, ConfirmRow
  <2>5. Cardinality(Guessing(code, conf)) = 0 /\ Cardinality(Hands) \in Nat \ {0}
    BY <2>4, FS_EmptySet, GuessingFinite
  <2>6. otp'.code = code /\ confirm' = conf /\ wrong' = 0 /\ otp'.attempts = 0
    BY <2>1, <2>3
  <2>7. GuessesCounted'
    BY <2>5, <2>6, GuessesAssumption DEF GuessesCounted
  <2>8. QED  BY <2>2, <2>7 DEF ContactInv
<1>3. ASSUME NEW took \in BOOLEAN, Contact!Deliver(took) PROVE ContactInv'
  <2>1. /\ otp' = otp \/ otp' = Contact!NoCode
        /\ UNCHANGED <<verified, bonuses, issued, confirm, wrong, confirmedTogether>>
    BY <1>3 DEF Contact!Deliver
  <2>2. ContactType' /\ CodesIssued' /\ PromotedAlone'
    BY <2>1 DEF ContactInv, ContactType, CodesIssued, PromotedAlone, Contact!NoCode
  <2>3. GuessesCounted'
    BY <2>1, <2>2, GuessesStay DEF Contact!NoCode
  <2>4. QED  BY <2>2, <2>3 DEF ContactInv
<1>4. CASE Contact!Lapse
  <2>1. /\ otp' = Contact!NoCode
        /\ UNCHANGED <<verified, bonuses, issued, confirm, wrong, confirmedTogether>>
    BY <1>4 DEF Contact!Lapse
  <2>2. ContactType' /\ CodesIssued' /\ PromotedAlone'
    BY <2>1 DEF ContactInv, ContactType, CodesIssued, PromotedAlone, Contact!NoCode
  <2>3. GuessesCounted'
    BY <2>1, <2>2, GuessesStay DEF Contact!NoCode
  <2>4. QED  BY <2>2, <2>3 DEF ContactInv
<1>5. CASE Contact!CoolDown
  BY <1>5 DEF Contact!CoolDown, ContactInv, ContactType, CodesIssued, PromotedAlone, GuessesCounted
<1>6. ASSUME NEW c \in Hands, NEW right \in BOOLEAN, Contact!ConfirmRead(c, right)
      PROVE  ContactInv'
  <2>1. CASE otp.attempts >= MaxAttempts
    <3>1. /\ otp' = Contact!NoCode
          /\ UNCHANGED <<verified, bonuses, issued, confirm, wrong, confirmedTogether>>
      BY <1>6, <2>1 DEF Contact!ConfirmRead
    <3>2. ContactType' /\ CodesIssued' /\ PromotedAlone'
      BY <3>1 DEF ContactInv, ContactType, CodesIssued, PromotedAlone, Contact!NoCode
    <3>3. GuessesCounted'
      BY <3>1, <3>2, GuessesStay DEF Contact!NoCode
    <3>4. QED  BY <3>2, <3>3 DEF ContactInv
  <2>2. CASE ~(otp.attempts >= MaxAttempts)
    <3>1. PICK row : row = [at |-> "read", code |-> otp.code, right |-> right]
      OBVIOUS
    <3>2. /\ confirm' = [confirm EXCEPT ![c] = row]
          /\ otp.code # 0
          /\ UNCHANGED <<otp, verified, bonuses, issued, wrong, confirmedTogether>>
      BY <1>6, <2>2, <3>1 DEF Contact!ConfirmRead
    <3>3. row \in ConfirmRow /\ row.code <= issued /\ row.code # 0 /\ row.at = "read"
      BY <3>1, <3>2 DEF ContactInv, ContactType, CodesIssued, ConfirmRow
    <3>4. /\ confirm' \in [Hands -> ConfirmRow]
          /\ confirm'[c] = row
          /\ \A d \in Hands \ {c} : confirm'[d] = confirm[d]
      BY <3>2, <3>3 DEF ContactInv, ContactType
    <3>5. ContactType' /\ CodesIssued'
      BY <3>2, <3>3, <3>4 DEF ContactInv, ContactType, CodesIssued
    <3>6. PromotedAlone'
      BY <3>2, <3>3, <3>4 DEF ContactInv, PromotedAlone
    <3>7. PICK code, conf : code = otp'.code /\ conf = confirm'
      OBVIOUS
    <3>8. wrong <= MaxAttempts - 1
      BY <2>2, <3>2, GuessesAssumption DEF ContactInv, ContactType, GuessesCounted
    <3>9. wrong' + Cardinality(Guessing(code, conf)) <= MaxAttempts + Cardinality(Hands) - 1
      BY <3>2, <3>8, GuessingFinite, GuessesAssumption DEF ContactInv, ContactType
    <3>10. GuessesCounted'
      BY <3>2, <3>7, <3>9 DEF ContactInv, GuessesCounted
    <3>11. QED  BY <3>5, <3>6, <3>10 DEF ContactInv
  <2>3. QED  BY <2>1, <2>2
<1>7. ASSUME NEW c \in Hands, Contact!Compare(c) PROVE ContactInv'
  <2>1. PICK p \in ConfirmRow : p = confirm[c]
    BY DEF ContactInv, ContactType
  <2>2. PICK row : row = IF p.right THEN [p EXCEPT !.at = "matched"] ELSE Contact!Idle
    OBVIOUS
  <2>3. /\ p.at = "read"
        /\ confirm' = [confirm EXCEPT ![c] = row]
        /\ otp' = IF p.right THEN Contact!NoCode ELSE [otp EXCEPT !.attempts = @ + 1]
        /\ wrong' = IF ~p.right /\ p.code = otp.code THEN wrong + 1 ELSE wrong
        /\ UNCHANGED <<verified, bonuses, issued, confirmedTogether>>
    BY <1>7, <2>1, <2>2 DEF Contact!Compare
  <2>4. /\ row \in ConfirmRow /\ row.at \in {"matched", "idle"}
        /\ row.code \in {p.code, 0}
    BY <2>2 DEF ConfirmRow, Contact!Idle
  <2>5. /\ confirm' \in [Hands -> ConfirmRow]
        /\ confirm'[c] = row
        /\ \A d \in Hands \ {c} : confirm'[d] = confirm[d]
    BY <2>3, <2>4 DEF ContactInv, ContactType
  <2>6. otp' \in [code : Nat, attempts : Nat] /\ otp'.code \in {0, otp.code}
    BY <2>3 DEF ContactInv, ContactType, Contact!NoCode
  <2>7. ContactType'
    BY <2>3, <2>5, <2>6 DEF ContactInv, ContactType
  <2>8. CodesIssued'
    BY <2>1, <2>3, <2>4, <2>5, <2>6 DEF ContactInv, ContactType, CodesIssued
  <2>9. PromotedAlone'
    BY <2>3, <2>4, <2>5 DEF ContactInv, PromotedAlone
  <2>10. GuessesCounted'
    <3>1. CASE wrong' = wrong /\ (otp' = otp \/ otp'.code = 0)
      BY <2>4, <2>5, <2>7, <3>1, GuessesStay
    <3>2. CASE ~p.right
      <4>1. otp'.code = otp.code /\ otp'.attempts = otp.attempts + 1
        BY <2>3, <3>2 DEF ContactInv, ContactType
      <4>2. PICK code, conf, conf2 : code \in Nat /\ code = otp.code /\ conf = confirm /\ conf2 = confirm'
        BY DEF ContactInv, ContactType
      <4>3. /\ Cardinality(Guessing(code, conf)) \in Nat
            /\ Cardinality(Guessing(code, conf2)) \in Nat
            /\ IsFiniteSet(Guessing(code, conf))
            /\ Cardinality(Hands) \in Nat
        BY GuessingFinite
      <4>4. Guessing(code, conf2) = Guessing(code, conf) \ {c}
        BY <2>4, <2>5, <4>2 DEF Guessing
      <4>5. wrong + Cardinality(Guessing(code, conf)) <= MaxAttempts + Cardinality(Hands) - 1
        BY <4>2 DEF ContactInv, GuessesCounted
      <4>6. wrong' + Cardinality(Guessing(code, conf2)) <= MaxAttempts + Cardinality(Hands) - 1
        <5>1. CASE p.code = code /\ code # 0
          <6>1. c \in Guessing(code, conf)
            BY <2>1, <2>3, <3>2, <4>2, <5>1 DEF Guessing
          <6>2. Cardinality(Guessing(code, conf2)) = Cardinality(Guessing(code, conf)) - 1
            BY <4>3, <4>4, <6>1, FS_RemoveElement
          <6>3. wrong' = wrong + 1 /\ wrong \in Nat
            BY <2>3, <3>2, <4>2, <5>1 DEF ContactInv, ContactType
          <6>4. QED  BY <4>3, <4>5, <6>2, <6>3, GuessesAssumption
        <5>2. CASE p.code = code /\ code = 0
          BY <2>1, <2>3, <5>2 DEF ContactInv, CodesIssued
        <5>3. CASE p.code # code
          <6>1. Cardinality(Guessing(code, conf2)) <= Cardinality(Guessing(code, conf))
            BY <4>4, FewerGuesses
          <6>2. wrong' = wrong /\ wrong \in Nat
            BY <2>3, <4>2, <5>3 DEF ContactInv, ContactType
          <6>3. QED  BY <4>3, <4>5, <6>1, <6>2, GuessesAssumption
        <5>4. QED  BY <5>1, <5>2, <5>3
      <4>7. otp'.code # 0 => wrong' <= otp'.attempts
        BY <2>3, <4>1 DEF ContactInv, ContactType, GuessesCounted
      <4>8. QED  BY <4>1, <4>2, <4>6, <4>7 DEF GuessesCounted
    <3>3. QED  BY <2>3, <3>1, <3>2 DEF Contact!NoCode
  <2>11. QED  BY <2>7, <2>8, <2>9, <2>10 DEF ContactInv
<1>8. ASSUME NEW c \in Hands, Contact!PromoteRead(c) PROVE ContactInv'
  <2>1. PICK p \in ConfirmRow : p = confirm[c]
    BY DEF ContactInv, ContactType
  <2>2. PICK row : row = IF verified THEN Contact!Idle ELSE [p EXCEPT !.at = "promoting"]
    OBVIOUS
  <2>3. /\ confirm' = [confirm EXCEPT ![c] = row]
        /\ confirmedTogether' = (confirmedTogether
              \/ (~verified /\ \E d \in Hands : confirm[d].at = "promoting"))
        /\ UNCHANGED <<verified, bonuses, otp, issued, wrong>>
    BY <1>8, <2>1, <2>2 DEF Contact!PromoteRead
  <2>4. /\ row \in ConfirmRow /\ row.at \in {"promoting", "idle"} /\ row.code \in {p.code, 0}
        /\ row.at = "promoting" => ~verified
    BY <2>2 DEF ConfirmRow, Contact!Idle
  <2>5. /\ confirm' \in [Hands -> ConfirmRow]
        /\ confirm'[c] = row
        /\ \A d \in Hands \ {c} : confirm'[d] = confirm[d]
    BY <2>3, <2>4 DEF ContactInv, ContactType
  <2>6. confirmedTogether' \in BOOLEAN
    BY <2>3
  <2>7. ContactType' /\ CodesIssued'
    BY <2>1, <2>3, <2>4, <2>5, <2>6 DEF ContactInv, ContactType, CodesIssued
  <2>8. PromotedAlone'
    <3>1. SUFFICES ASSUME ~confirmedTogether'
                   PROVE  /\ bonuses' <= 1
                          /\ \A d \in Hands : confirm'[d].at = "promoting" => ~verified'
                          /\ \A d, e \in Hands : confirm'[d].at = "promoting"
                                /\ confirm'[e].at = "promoting" => d = e
      BY <2>3 DEF ContactInv, PromotedAlone
    <3>2. ~confirmedTogether /\ (verified \/ \A d \in Hands : confirm[d].at # "promoting")
      BY <2>3, <3>1
    <3>3. \A d \in Hands : confirm[d].at # "promoting"
      BY <3>2 DEF ContactInv, PromotedAlone
    <3>4. QED  BY <2>3, <2>4, <2>5, <3>2, <3>3 DEF ContactInv, PromotedAlone
  <2>9. GuessesCounted'
    BY <2>3, <2>4, <2>5, <2>7, GuessesStay
  <2>10. QED  BY <2>7, <2>8, <2>9 DEF ContactInv
<1>9. ASSUME NEW c \in Hands, confirm' = [confirm EXCEPT ![c] = Contact!Idle]
      PROVE  /\ confirm' \in [Hands -> ConfirmRow]
             /\ confirm'[c].at = "idle" /\ confirm'[c].code = 0
             /\ \A d \in Hands \ {c} : confirm'[d] = confirm[d]
  BY <1>9 DEF ContactInv, ContactType, ConfirmRow, Contact!Idle
<1>10. ASSUME NEW c \in Hands, Contact!PromoteCommit(c) PROVE ContactInv'
  <2>1. /\ confirm[c].at = "promoting"
        /\ verified' = TRUE
        /\ bonuses' = bonuses + 1
        /\ confirm' = [confirm EXCEPT ![c] = Contact!Idle]
        /\ UNCHANGED <<otp, issued, wrong, confirmedTogether>>
    BY <1>10 DEF Contact!PromoteCommit
  <2>0. /\ confirm' \in [Hands -> ConfirmRow]
        /\ confirm'[c].at = "idle" /\ confirm'[c].code = 0
        /\ \A d \in Hands \ {c} : confirm'[d] = confirm[d]
    BY <1>9, <2>1
  <2>2. ContactType' /\ CodesIssued'
    <3>1. ContactType'
      BY <2>0, <2>1 DEF ContactInv, ContactType
    <3>2. CodesIssued'
      BY <2>0, <2>1 DEF ContactInv, ContactType, CodesIssued
    <3>3. QED  BY <3>1, <3>2
  <2>3. PromotedAlone'
    <3>1. verified' /\ bonuses' > 0
      BY <2>1 DEF ContactInv, ContactType
    <3>2. SUFFICES ASSUME ~confirmedTogether'
                   PROVE  bonuses' <= 1 /\ \A d \in Hands : confirm'[d].at # "promoting"
      BY <3>1 DEF PromotedAlone
    <3>3. ~verified /\ \A d \in Hands : confirm[d].at = "promoting" => d = c
      BY <2>1, <3>2 DEF ContactInv, PromotedAlone
    <3>4. bonuses = 0
      BY <3>3 DEF ContactInv, ContactType, PromotedAlone
    <3>5. QED  BY <2>0, <2>1, <3>3, <3>4
  <2>4. GuessesCounted'
    BY <2>0, <2>1, <2>2, GuessesStay
  <2>5. QED  BY <2>2, <2>3, <2>4 DEF ContactInv
<1>11. ASSUME NEW c \in Hands, Contact!Crash(c) PROVE ContactInv'
  <2>1. /\ confirm' = [confirm EXCEPT ![c] = Contact!Idle]
        /\ UNCHANGED <<verified, bonuses, otp, issued, wrong, confirmedTogether>>
    BY <1>11 DEF Contact!Crash
  <2>0. /\ confirm' \in [Hands -> ConfirmRow]
        /\ confirm'[c].at = "idle" /\ confirm'[c].code = 0
        /\ \A d \in Hands \ {c} : confirm'[d] = confirm[d]
    BY <1>9, <2>1
  <2>2. ContactType' /\ CodesIssued'
    <3>1. ContactType'
      BY <2>0, <2>1 DEF ContactInv, ContactType
    <3>2. CodesIssued'
      BY <2>0, <2>1 DEF ContactInv, ContactType, CodesIssued
    <3>3. QED  BY <3>1, <3>2
  <2>3. PromotedAlone'
    BY <2>0, <2>1 DEF ContactInv, PromotedAlone
  <2>4. GuessesCounted'
    BY <2>0, <2>1, <2>2, GuessesStay
  <2>5. QED  BY <2>2, <2>3, <2>4 DEF ContactInv
<1>12. CASE UNCHANGED Contact!vars
  BY <1>12 DEF Contact!vars, ContactInv, ContactType, CodesIssued, PromotedAlone, GuessesCounted
<1>13. QED
  BY <1>1, <1>2, <1>3, <1>4, <1>5, <1>6, <1>7, <1>8, <1>10, <1>11, <1>12 DEF Contact!Next

LEMMA ContactStep == [Next]_vars => [Contact!Next]_(Contact!vars)
BY DEF Next, vars, contact, Contact!vars

\* The bonus of a contact is paid once unless two confirmations were past the
\* question together, and a code takes at most one wrong guess beyond the cap
\* for each other confirmation under way (OtpService.verify,
\* AuthService.markContactVerified).
THEOREM ContactsHold == Spec => []ContactHolds
<1>1. Init => ContactInv
  BY ContactStarts DEF Init
<1>2. ContactInv /\ [Next]_vars => ContactInv'
  BY ContactKeeps, ContactStep
<1>3. ContactInv => ContactHolds
  <2>1. SUFFICES ASSUME ContactInv PROVE Contact!BonusPaidOnce /\ Contact!GuessesCapped
    BY DEF ContactHolds, Contact!ContactHolds
  <2>2. Contact!BonusPaidOnce
    <3>1. verified <=> bonuses > 0
      BY <2>1 DEF ContactInv, PromotedAlone
    <3>2. ASSUME bonuses > 1, ~confirmedTogether PROVE FALSE
      BY <2>1, <3>2 DEF ContactInv, ContactType, PromotedAlone
    <3>3. QED  BY <3>1, <3>2 DEF Contact!BonusPaidOnce
  <2>3. PICK code, conf : code = otp.code /\ conf = confirm
    OBVIOUS
  <2>4. wrong + Cardinality(Guessing(code, conf)) <= MaxAttempts + Cardinality(Hands) - 1
    BY <2>1, <2>3 DEF ContactInv, GuessesCounted
  <2>5. wrong <= MaxAttempts + Cardinality(Hands) - 1
    BY <2>1, <2>4, GuessingFinite, GuessesAssumption DEF ContactInv, ContactType
  <2>6. QED  BY <2>2, <2>5 DEF Contact!GuessesCapped, Contact!Cardinality, Cardinality
<1>4. QED
  BY <1>1, <1>2, <1>3, PTL DEF Spec

-----------------------------------------------------------------------------
(* Sessions.                                                               *)

SessionType ==
    /\ iat \in [Hands -> Int]
    /\ denied \in [Hands -> Int]
    /\ cutoff \in [at : Int, ends : Int]
    /\ now \in Nat
    /\ over \subseteq SignIn!Issued

\* No token is from the future, and a login that is being signed has none yet.
IssuedOnce ==
    /\ \A t \in Hands : iat[t] <= now
    /\ \A t \in login : t \notin SignIn!Issued

\* An ended token is covered by an entry for the rest of its life: its own, or
\* the account's.
Covered == \A t \in over :
    \/ iat[t] + TokenLife <= denied[t]
    \/ iat[t] <= cutoff.at /\ iat[t] + TokenLife <= cutoff.ends

SessionInv == SessionType /\ IssuedOnce /\ Covered

---------------------------------------------------------------------------

LEMMA SessionStarts == SignIn!Init => SessionInv
BY DEF SignIn!Init, SessionInv, SessionType, IssuedOnce, Covered, SignIn!Issued, SignIn!Never

\* Entries and tokens matter, and nothing else does.
LEMMA SessionUntouched ==
    ASSUME SessionInv, UNCHANGED <<iat, denied, cutoff, now, over>>, login' \subseteq login
    PROVE  SessionInv'
BY DEF SessionInv, SessionType, IssuedOnce, Covered, SignIn!Issued

LEMMA SessionKeeps ==
    ASSUME SessionInv, [SignIn!Next]_(SignIn!vars)
    PROVE  SessionInv'
<1>1. ASSUME NEW t \in Hands, SignIn!LoginRead(t) PROVE SessionInv'
  BY <1>1 DEF SignIn!LoginRead, SessionInv, SessionType, IssuedOnce, Covered, SignIn!Issued
<1>2. ASSUME NEW t \in Hands, SignIn!LoginSign(t) PROVE SessionInv'
  <2>1. /\ t \in login /\ login' = login \ {t}
        /\ iat' = [iat EXCEPT ![t] = now]
        /\ UNCHANGED <<denied, cutoff, now, over>>
    BY <1>2 DEF SignIn!LoginSign
  <2>2. t \notin SignIn!Issued /\ t \notin over
    BY <2>1 DEF SessionInv, SessionType, IssuedOnce
  <2>3. /\ iat' \in [Hands -> Int]
        /\ \A p \in Hands : iat'[p] = IF p = t THEN now ELSE iat[p]
    BY <2>1 DEF SessionInv, SessionType
  <2>4. SignIn!Issued' = SignIn!Issued \cup {t}
    BY <2>3 DEF SignIn!Issued, SignIn!Never, SessionInv, SessionType
  <2>5. SessionType'
    BY <2>1, <2>3, <2>4 DEF SessionInv, SessionType
  <2>6. IssuedOnce'
    BY <2>1, <2>3, <2>4 DEF SessionInv, SessionType, IssuedOnce
  <2>7. Covered'
    BY <2>1, <2>2, <2>3 DEF SessionInv, SessionType, Covered, SignIn!Issued
  <2>8. QED  BY <2>5, <2>6, <2>7 DEF SessionInv
<1>3. ASSUME NEW t \in Hands, SignIn!Logout(t) PROVE SessionInv'
  <2>1. CASE ~reachable
    BY <1>3, <2>1, SessionUntouched DEF SignIn!Logout
  <2>2. CASE reachable
    <3>1. /\ t \in SignIn!Issued
          /\ denied' = [denied EXCEPT ![t] = iat[t] + TokenLife]
          /\ over' = over \cup {t}
          /\ UNCHANGED <<iat, login, cutoff, now>>
      BY <1>3, <2>2 DEF SignIn!Logout, SignIn!Admitted, SignIn!Valid, SignIn!Denied
    <3>2. /\ denied' \in [Hands -> Int]
          /\ \A p \in Hands : denied'[p] = IF p = t THEN iat[t] + TokenLife ELSE denied[p]
      BY <3>1, LivesAssumption DEF SessionInv, SessionType
    <3>3. SessionType' /\ IssuedOnce'
      BY <3>1, <3>2 DEF SessionInv, SessionType, IssuedOnce, SignIn!Issued
    <3>4. Covered'
      BY <3>1, <3>2, LivesAssumption DEF SessionInv, SessionType, Covered, SignIn!Issued
    <3>5. QED  BY <3>3, <3>4 DEF SessionInv
  <2>3. QED  BY <2>1, <2>2
<1>4. ASSUME NEW v \in Reviewers, SignIn!RevokeUser(v) PROVE SessionInv'
  <2>1. CASE ~reachable
    BY <1>4, <2>1, SessionUntouched DEF SignIn!RevokeUser
  <2>2. CASE reachable
    <3>1. /\ cutoff' = [at |-> now, ends |-> now + EntryLife]
          /\ over' = over \cup SignIn!Issued
          /\ UNCHANGED <<iat, login, denied, now>>
      BY <1>4, <2>2 DEF SignIn!RevokeUser
    <3>2. SessionType' /\ IssuedOnce'
      BY <3>1, LivesAssumption DEF SessionInv, SessionType, IssuedOnce, SignIn!Issued
    <3>3. \A t \in Hands : iat[t] \in Int /\ iat[t] <= now /\ now \in Nat
      BY DEF SessionInv, SessionType, IssuedOnce
    <3>4. Covered'
      BY <3>1, <3>3, LivesAssumption DEF SessionInv, SessionType, Covered, SignIn!Issued
    <3>5. QED  BY <3>2, <3>4 DEF SessionInv
  <2>3. QED  BY <2>1, <2>2
<1>5. ASSUME NEW v \in Reviewers, NEW to, SignIn!DecideRead(v, to) PROVE SessionInv'
  BY <1>5, SessionUntouched DEF SignIn!DecideRead
<1>6. ASSUME NEW v \in Reviewers, SignIn!DecideWrite(v) PROVE SessionInv'
  BY <1>6, SessionUntouched DEF SignIn!DecideWrite
<1>7. CASE SignIn!Outage
  BY <1>7, SessionUntouched DEF SignIn!Outage
<1>8. CASE SignIn!Tick
  BY <1>8 DEF SignIn!Tick, SessionInv, SessionType, IssuedOnce, Covered, SignIn!Issued
<1>9. CASE UNCHANGED SignIn!vars
  BY <1>9, SessionUntouched DEF SignIn!vars
<1>10. QED
  BY <1>1, <1>2, <1>3, <1>4, <1>5, <1>6, <1>7, <1>8, <1>9 DEF SignIn!Next, SignIn!Login

LEMMA SessionStep == [Next]_vars => [SignIn!Next]_(SignIn!vars)
BY DEF Next, vars, signin, SignIn!vars

\* A session whose end was recorded lets nobody in again while Redis answers:
\* an account's entry lives as long as a token does
\* (TokenRevocationService.revokeToken, revokeUser, isRevoked).
THEOREM SessionsStayEnded == Spec => []EndedStaysEnded
<1>1. SessionInv => EndedStaysEnded
  <2>1. SUFFICES ASSUME SessionInv, reachable, NEW t \in over, SignIn!Admitted(t)
                 PROVE  FALSE
    BY DEF EndedStaysEnded, SignIn!EndedStaysEnded
  <2>2. /\ t \in Hands /\ iat[t] \in Int /\ denied[t] \in Int /\ now \in Nat
        /\ cutoff.at \in Int /\ cutoff.ends \in Int
    <3>1. t \in Hands
      BY <2>1 DEF SessionInv, SessionType, SignIn!Issued
    <3>2. QED  BY <2>1, <3>1 DEF SessionInv, SessionType
  <2>3. now < iat[t] + TokenLife
    BY <2>1 DEF SignIn!Admitted, SignIn!Valid
  <2>4. now < denied[t] \/ (iat[t] <= cutoff.at /\ now < cutoff.ends)
    <3>1. \/ iat[t] + TokenLife <= denied[t]
          \/ iat[t] <= cutoff.at /\ iat[t] + TokenLife <= cutoff.ends
      BY <2>1 DEF SessionInv, Covered
    <3>2. QED  BY <2>2, <2>3, <3>1, LivesAssumption
  <2>5. QED  BY <2>1, <2>4 DEF SignIn!Admitted, SignIn!Revoked
<1>2. SessionInv /\ [Next]_vars => SessionInv'
  BY SessionKeeps, SessionStep
<1>3. Init => SessionInv
  BY SessionStarts DEF Init
<1>4. QED
  BY <1>1, <1>2, <1>3, PTL DEF Spec

-----------------------------------------------------------------------------
(* The second factor.                                                      *)

Enrolling(r) == work[r].at \in {"enrol", "confirm"}

\* Until two of them have met, one enrolment request is under way at a time,
\* and none that would write a new secret once the account is confirmed.
Alone == ~enrolledTogether =>
    /\ \A q, r \in Hands : Enrolling(q) /\ Enrolling(r) => q = r
    /\ \A r \in Hands : work[r].at = "enrol" => ~confirmed

\* What is sealed again was proved when it was read.
ResealsProved == \A r \in Hands :
    work[r].at = "reseal" => work[r].saw \in proved \/ enrolledTogether

\* There is a request in every place.
FactorType == work = [r \in Hands |-> work[r]]

FactorInv == FactorType /\ Alone /\ ResealsProved /\ Factor!ConfirmedWasProved

\* A request that reads remembers the row it read, and a second enrolment
\* request beside it is remembered as well.
LEMMA FactorReadKeeps ==
    ASSUME FactorInv, NEW r \in Hands, NEW what, Factor!Read(r, what),
           what = "enrol" => ~confirmed,
           what = "reseal" => secret \in proved \/ enrolledTogether
    PROVE  FactorInv'
<1>1. /\ work[r].at = "rest"
      /\ work' = [work EXCEPT ![r] = [at |-> what, saw |-> secret, sealed |-> sealed]]
      /\ enrolledTogether' = (enrolledTogether \/ (what # "reseal" /\ Factor!Overlaps(r)))
      /\ UNCHANGED <<secret, sealed, confirmed, generated, proved>>
  BY DEF Factor!Read
<1>2. FactorType'
  BY <1>1 DEF FactorInv, FactorType
<1>3. \A q \in Hands : work'[q] = IF q = r THEN [at |-> what, saw |-> secret, sealed |-> sealed]
                                     ELSE work[q]
  BY <1>1 DEF FactorInv, FactorType
<1>4. Alone'
  <2>1. SUFFICES ASSUME ~enrolledTogether'
                 PROVE  /\ \A q, p \in Hands : Enrolling(q)' /\ Enrolling(p)' => q = p
                        /\ \A q \in Hands : work'[q].at = "enrol" => ~confirmed'
    BY DEF Alone
  <2>2. ~enrolledTogether /\ (what = "reseal" \/ ~Factor!Overlaps(r))
    BY <1>1, <2>1
  <2>3. \A q, p \in Hands : Enrolling(q)' /\ Enrolling(p)' => q = p
    BY <1>3, <2>2 DEF FactorInv, Alone, Enrolling, Factor!Overlaps
  <2>4. \A q \in Hands : work'[q].at = "enrol" => ~confirmed'
    BY <1>1, <1>3, <2>2 DEF FactorInv, Alone
  <2>5. QED  BY <2>3, <2>4
<1>5. ResealsProved'
  <2>1. SUFFICES ASSUME NEW q \in Hands, work'[q].at = "reseal"
                 PROVE  work'[q].saw \in proved' \/ enrolledTogether'
    BY DEF ResealsProved
  <2>2. proved' = proved /\ (enrolledTogether => enrolledTogether')
    BY <1>1
  <2>3. CASE q = r
    <3>1. work'[q] = [at |-> what, saw |-> secret, sealed |-> sealed]
      BY <1>3, <2>3
    <3>2. what = "reseal" /\ work'[q].saw = secret
      BY <2>1, <3>1
    <3>3. QED  BY <2>2, <3>2
  <2>4. CASE q # r
    <3>1. work'[q] = work[q]
      BY <1>3, <2>4
    <3>2. work[q].saw \in proved \/ enrolledTogether
      BY <2>1, <3>1 DEF FactorInv, ResealsProved
    <3>3. QED  BY <2>2, <3>1, <3>2
  <2>5. QED  BY <2>3, <2>4
<1>6. Factor!ConfirmedWasProved'
  BY <1>1 DEF FactorInv, Factor!ConfirmedWasProved
<1>7. QED  BY <1>2, <1>4, <1>5, <1>6 DEF FactorInv

\* A request that has answered is at rest and disturbs no other.
LEMMA FactorWritesApart ==
    ASSUME FactorInv, NEW r \in Hands, work' = [work EXCEPT ![r] = Factor!Rest]
    PROVE  /\ work' = [q \in Hands |-> work'[q]]
           /\ work'[r].at = "rest"
           /\ \A q \in Hands \ {r} : work'[q] = work[q]
BY DEF FactorInv, FactorType, Factor!Rest

LEMMA FactorStarts == Factor!Init => FactorInv
<1> SUFFICES ASSUME Factor!Init PROVE FactorInv
  OBVIOUS
<1>1. \A r \in Hands : work[r] = Factor!Rest
  BY DEF Factor!Init
<1>2. FactorType
  BY DEF Factor!Init, FactorType
<1>3. Alone /\ ResealsProved
  BY <1>1 DEF Alone, ResealsProved, Enrolling, Factor!Rest
<1>4. Factor!ConfirmedWasProved
  BY DEF Factor!Init, Factor!ConfirmedWasProved
<1>5. QED  BY <1>2, <1>3, <1>4 DEF FactorInv

LEMMA FactorKeeps == FactorInv /\ [Factor!Next]_(Factor!vars) => FactorInv'
<1> SUFFICES ASSUME FactorInv, [Factor!Next]_(Factor!vars) PROVE FactorInv'
  OBVIOUS
<1>1. ASSUME NEW r \in Hands, Factor!EnrolRead(r) PROVE FactorInv'
  BY <1>1, FactorReadKeeps DEF Factor!EnrolRead
<1>2. ASSUME NEW r \in Hands, Factor!EnrolWrite(r) PROVE FactorInv'
  <2>1. /\ work[r].at = "enrol"
        /\ generated' = generated + 1
        /\ secret' = generated + 1
        /\ sealed' = TRUE
        /\ work' = [work EXCEPT ![r] = Factor!Rest]
        /\ UNCHANGED <<confirmed, proved, enrolledTogether>>
    BY <1>2 DEF Factor!EnrolWrite
  <2>2. FactorType'
    BY <2>1, FactorWritesApart DEF FactorInv, FactorType
  <2>3. Alone' /\ ResealsProved'
    BY <2>1, FactorWritesApart DEF FactorInv, Alone, ResealsProved, Enrolling
  <2>4. Factor!ConfirmedWasProved'
    BY <2>1 DEF FactorInv, Alone, Factor!ConfirmedWasProved
  <2>5. QED  BY <2>2, <2>3, <2>4 DEF FactorInv
<1>3. ASSUME NEW r \in Hands, Factor!ConfirmRead(r) PROVE FactorInv'
  BY <1>3, FactorReadKeeps DEF Factor!ConfirmRead
<1>4. ASSUME NEW r \in Hands, Factor!ConfirmWrite(r) PROVE FactorInv'
  <2>1. /\ work[r].at = "confirm"
        /\ confirmed' = TRUE
        /\ secret' = work[r].saw
        /\ sealed' = TRUE
        /\ proved' = proved \cup {work[r].saw}
        /\ work' = [work EXCEPT ![r] = Factor!Rest]
        /\ UNCHANGED <<generated, enrolledTogether>>
    BY <1>4 DEF Factor!ConfirmWrite
  <2>2. FactorType'
    BY <2>1, FactorWritesApart DEF FactorInv, FactorType
  <2>3. Alone'
    BY <2>1, FactorWritesApart DEF FactorInv, Alone, Enrolling
  <2>4. ResealsProved'
    <3>1. work'[r].at = "rest" /\ \A q \in Hands \ {r} : work'[q] = work[q]
      BY <2>1, FactorWritesApart
    <3>2. ASSUME NEW q \in Hands, work'[q].at = "reseal"
          PROVE  work'[q].saw \in proved' \/ enrolledTogether'
      <4>1. q # r /\ work'[q] = work[q]
        BY <3>1, <3>2
      <4>2. QED  BY <2>1, <3>2, <4>1 DEF FactorInv, ResealsProved
    <3>3. QED  BY <3>2 DEF ResealsProved
  <2>5. Factor!ConfirmedWasProved'
    BY <2>1 DEF Factor!ConfirmedWasProved
  <2>6. QED  BY <2>2, <2>3, <2>4, <2>5 DEF FactorInv
<1>5. ASSUME NEW r \in Hands, Factor!StepUp(r) PROVE FactorInv'
  <2>1. confirmed /\ UNCHANGED <<secret, sealed, confirmed, generated, proved>>
    BY <1>5 DEF Factor!StepUp
  <2>2. CASE sealed
    <3>1. UNCHANGED Factor!vars
      BY <1>5, <2>1, <2>2 DEF Factor!StepUp, Factor!vars
    <3>2. QED
      BY <3>1 DEF Factor!vars, FactorInv, FactorType, Alone, ResealsProved, Enrolling,
                  Factor!ConfirmedWasProved
  <2>3. CASE ~sealed
    <3>1. Factor!Read(r, "reseal")
      BY <1>5, <2>3 DEF Factor!StepUp
    <3>2. secret \in proved \/ enrolledTogether
      BY <2>1 DEF FactorInv, Factor!ConfirmedWasProved
    <3>3. QED  BY <3>1, <3>2, FactorReadKeeps
  <2>4. QED  BY <2>2, <2>3
<1>6. ASSUME NEW r \in Hands, Factor!Reseal(r) PROVE FactorInv'
  <2>1. /\ work[r].at = "reseal"
        /\ secret' = work[r].saw
        /\ sealed' = TRUE
        /\ work' = [work EXCEPT ![r] = Factor!Rest]
        /\ UNCHANGED <<confirmed, generated, proved, enrolledTogether>>
    BY <1>6 DEF Factor!Reseal
  <2>2. FactorType'
    BY <2>1, FactorWritesApart DEF FactorInv, FactorType
  <2>3. Alone' /\ ResealsProved'
    BY <2>1, FactorWritesApart DEF FactorInv, Alone, ResealsProved, Enrolling
  <2>4. Factor!ConfirmedWasProved'
    BY <2>1 DEF FactorInv, ResealsProved, Factor!ConfirmedWasProved
  <2>5. QED  BY <2>2, <2>3, <2>4 DEF FactorInv
<1>7. CASE UNCHANGED Factor!vars
  BY <1>7 DEF Factor!vars, FactorInv, FactorType, Alone, ResealsProved, Enrolling, Factor!ConfirmedWasProved
<1>8. QED
  BY <1>1, <1>2, <1>3, <1>4, <1>5, <1>6, <1>7 DEF Factor!Next, Factor!Enrol, Factor!Confirm

LEMMA FactorStep == [Next]_vars => [Factor!Next]_(Factor!vars)
BY DEF Next, vars, factor, Factor!vars

\* A staff account whose second factor is confirmed holds a secret that a
\* right code was given for, unless two of its enrolments overlapped
\* (TotpService.beginEnrolment, confirmEnrolment, assertStepUp).
THEOREM ConfirmedIsProved == Spec => []ConfirmedWasProved
<1>1. Init => FactorInv
  BY FactorStarts DEF Init
<1>2. FactorInv /\ [Next]_vars => FactorInv'
  BY FactorKeeps, FactorStep
<1>3. FactorInv => ConfirmedWasProved
  BY DEF FactorInv, ConfirmedWasProved
<1>4. QED
  BY <1>1, <1>2, <1>3, PTL DEF Spec

-----------------------------------------------------------------------------
(* The creator's ladder.                                                   *)

Counters == [clean : Int, disputed : Int, voided : Int, volume : Int]

CloseRow == [
    at : {"rest", "count", "open", "review", "add", "recompute"},
    on : Markets \cup {"none"},
    kind : {"clean", "disputed", "voided", "none", "resolved"},
    cap : Nat,
    level : 0 .. 3,
    record : Counters]

MarketStates == {
    "none", "draft", "seeding", "funding", "active", "pending_resolution", "dispute_window",
    "resolved", "voided"}

IsClosed(m) == market[m] \in {"resolved", "voided"}

\* Where a request is says what it has read.
RowHolds(w) ==
    /\ w.at # "rest" => w.on \in Markets
    /\ w.at \in {"count", "open"} => market[w.on] = "none" /\ w.cap <= MaxLive[3]
    /\ w.at \in {"review", "add", "recompute"} => market[w.on] # "none"
    /\ w.at \in {"review", "add"} => w.level = 0 /\ w.record = Ladder!Unread

\* What it has yet to do about its market, while no closed market is reopened.
CloseHolds(w) ==
    /\ w.at \in {"review", "add", "recompute"} => IsClosed(w.on)
    /\ w.at \in {"review", "add"} => w.on \notin missed /\ w.on \notin bypassed
    /\ w.at = "review" => w.on \notin reviews /\ w.kind = market[w.on]
    /\ w.at = "add" => w.kind = Ladder!KindOf(w.on, market[w.on])

LadderType ==
    /\ market \in [Markets -> MarketStates]
    /\ closing \in [Hands -> CloseRow]
    /\ record \in Counters /\ record.volume \in Nat
    /\ level \in 1 .. 3

\* A market that is to be opened is nobody else's to open.
OnTheWay ==
    /\ \A m \in rounds \cup listed : m \in Markets /\ market[m] # "none"
    /\ \A r \in Hands : RowHolds(closing[r])
    /\ \A q, r \in Hands : /\ closing[q].at \in {"count", "open"}
                           /\ closing[r].at \in {"count", "open"}
                           /\ closing[q].on = closing[r].on
                           => q = r

\* Only what is closed was reviewed, missed, bypassed or decided against, and one
\* request at a time works on a market.
OnePerMarket ==
    /\ \A m \in reviews \cup missed \cup bypassed : m \in Markets /\ IsClosed(m)
    /\ \A m \in upheld : m \in Markets /\ market[m] = "resolved"
    /\ \A q, r \in Hands : closing[q].at # "rest" /\ closing[r].at # "rest"
                           /\ closing[q].on = closing[r].on => q = r
    /\ \A r \in Hands : CloseHolds(closing[r])

DeskOfLadder == LadderType /\ OnTheWay /\ (undone \/ OnePerMarket)

LEMMA RestRow ==
    /\ Ladder!Rest \in CloseRow /\ Ladder!Rest.at = "rest"
    /\ Ladder!Rest.level = 0 /\ Ladder!Rest.record = Ladder!Unread
    /\ Ladder!Unread \in Counters /\ Ladder!Unread.volume = -1
    /\ RowHolds(Ladder!Rest) /\ CloseHolds(Ladder!Rest)
BY DEF Ladder!Rest, Ladder!Unread, Ladder!NoRecord, CloseRow, Counters, RowHolds, CloseHolds

LEMMA LadderStarts == Ladder!Init => DeskOfLadder
<1> SUFFICES ASSUME Ladder!Init PROVE DeskOfLadder
  OBVIOUS
<1>1. /\ market = [m \in Markets |-> "none"]
      /\ closing = [r \in Hands |-> Ladder!Rest]
      /\ reviews = {} /\ missed = {} /\ upheld = {} /\ bypassed = {} /\ level = 1
      /\ rounds = {} /\ listed = {}
      /\ record = [clean |-> 0, disputed |-> 0, voided |-> 0, volume |-> 0]
  BY DEF Ladder!Init, Ladder!NoRecord
<1>2. LadderType
  BY <1>1, RestRow DEF LadderType, Counters, MarketStates
<1>3. \A r \in Hands : closing[r] = Ladder!Rest
  BY <1>1
<1>4. OnePerMarket /\ OnTheWay
  BY <1>1, <1>3, RestRow DEF OnePerMarket, OnTheWay
<1>5. QED  BY <1>2, <1>4 DEF DeskOfLadder

\* The request of one hand moves to another row.
LEMMA RowMoves ==
    ASSUME DeskOfLadder, NEW r \in Hands, NEW row \in CloseRow,
           closing' = [closing EXCEPT ![r] = row]
    PROVE  /\ closing' \in [Hands -> CloseRow]
           /\ closing'[r] = row
           /\ \A q \in Hands \ {r} : closing'[q] = closing[q]
BY DEF DeskOfLadder, LadderType

\* The other requests keep what they hold when the markets that they work on
\* do not move; one that waits to count a close bears any move.
LEMMA OthersStay ==
    ASSUME DeskOfLadder, NEW q \in Hands,
           closing[q].at \in {"count", "open"} => market'[closing[q].on] = market[closing[q].on],
           \A m \in Markets : market[m] # "none" => market'[m] # "none"
    PROVE  \A w : w = closing[q] => RowHolds(w)'
<1> SUFFICES ASSUME NEW w, w = closing[q] PROVE RowHolds(w)'
  OBVIOUS
<1>1. RowHolds(w)
  BY DEF DeskOfLadder, OnTheWay
<1>2. Ladder!Unread' = Ladder!Unread
  BY DEF Ladder!Unread, Ladder!NoRecord
<1>3. QED  BY <1>1, <1>2 DEF RowHolds

LEMMA OthersHold ==
    ASSUME DeskOfLadder, ~undone, NEW q \in Hands,
           closing[q].at # "rest" =>
               /\ market'[closing[q].on] = market[closing[q].on]
               /\ closing[q].on \in missed' => closing[q].on \in missed
               /\ closing[q].on \in bypassed' => closing[q].on \in bypassed
               /\ closing[q].on \in reviews' => closing[q].on \in reviews
               /\ closing[q].on \in upheld' <=> closing[q].on \in upheld
    PROVE  \A w : w = closing[q] => CloseHolds(w)'
<1> SUFFICES ASSUME NEW w, w = closing[q] PROVE CloseHolds(w)'
  OBVIOUS
<1>1. CloseHolds(w)
  BY DEF DeskOfLadder, OnePerMarket
<1>2. CASE w.at = "rest"
  BY <1>2 DEF CloseHolds
<1>3. CASE w.at # "rest"
  <2>1. /\ market'[w.on] = market[w.on]
        /\ w.on \in missed' => w.on \in missed
        /\ w.on \in bypassed' => w.on \in bypassed
        /\ w.on \in reviews' => w.on \in reviews
        /\ w.on \in upheld' <=> w.on \in upheld
    BY <1>3
  <2>2. Ladder!KindOf(w.on, market[w.on])' = Ladder!KindOf(w.on, market[w.on])
    BY <2>1 DEF Ladder!KindOf
  <2>3. QED  BY <1>1, <2>1, <2>2 DEF CloseHolds, IsClosed
<1>4. QED  BY <1>2, <1>3

\* One request moves on its own market, which does not move itself.
LEMMA RequestTurns ==
    ASSUME DeskOfLadder, NEW r \in Hands, NEW row \in CloseRow,
           closing' = [closing EXCEPT ![r] = row],
           UNCHANGED <<market, upheld, bypassed, rounds, listed, undone>>,
           reviews \subseteq reviews', missed \subseteq missed',
           reviews' \subseteq reviews \cup {closing[r].on},
           missed' \subseteq missed \cup {closing[r].on},
           reviews' # reviews \/ missed' # missed => closing[r].at \in {"review", "add"},
           row.at # "rest" => row.on = closing[r].on /\ closing[r].at # "rest",
           row.at \in {"count", "open"} => closing[r].at \in {"count", "open"},
           RowHolds(row), undone \/ CloseHolds(row)',
           record' \in Counters, record'.volume \in Nat, level' \in 1 .. 3
    PROVE  DeskOfLadder'
<1>1. /\ closing' \in [Hands -> CloseRow]
      /\ closing'[r] = row
      /\ \A q \in Hands \ {r} : closing'[q] = closing[q]
  BY RowMoves
<1>2. LadderType'
  BY <1>1 DEF DeskOfLadder, LadderType
<1>3. OnTheWay'
  <2>1. \A q \in Hands : RowHolds(closing'[q])
    BY <1>1 DEF DeskOfLadder, OnTheWay
  <2>2. \A q \in Hands : RowHolds(closing[q])'
    BY <2>1 DEF RowHolds, Ladder!Unread, Ladder!NoRecord
  <2>3. \A q, p \in Hands : /\ closing'[q].at \in {"count", "open"}
                           /\ closing'[p].at \in {"count", "open"}
                           /\ closing'[q].on = closing'[p].on
                           => q = p
    BY <1>1 DEF DeskOfLadder, OnTheWay
  <2>4. \A m \in rounds' \cup listed' : m \in Markets /\ market'[m] # "none"
    BY DEF DeskOfLadder, OnTheWay
  <2>5. QED  BY <2>2, <2>3, <2>4 DEF OnTheWay
<1>4. ASSUME ~undone PROVE OnePerMarket'
  <2>1. \A m \in reviews' \cup missed' \cup bypassed' : m \in Markets /\ IsClosed(m)'
    BY <1>4 DEF DeskOfLadder, OnTheWay, RowHolds, OnePerMarket, CloseHolds, IsClosed
  <2>2. \A q, p \in Hands : closing'[q].at # "rest" /\ closing'[p].at # "rest"
                            /\ closing'[q].on = closing'[p].on => q = p
    BY <1>1, <1>4 DEF DeskOfLadder, OnePerMarket
  <2>3. ASSUME NEW q \in Hands PROVE CloseHolds(closing[q])'
    <3>1. CASE q = r
      BY <1>1, <1>4, <3>1
    <3>2. CASE q # r
      <4>1. PICK w : w = closing[q]
        OBVIOUS
      <4>2. closing'[q] = w
        BY <1>1, <3>2, <4>1
      <4>3. ASSUME w.at # "rest", closing[r].at # "rest" PROVE w.on # closing[r].on
        BY <1>4, <3>2, <4>1, <4>3 DEF DeskOfLadder, OnePerMarket
      <4>4. w.at # "rest" => /\ w.on \in missed' => w.on \in missed
                             /\ w.on \in reviews' => w.on \in reviews
        BY <4>3
      <4>5. CloseHolds(w)'
        BY <1>4, <4>1, <4>4, OthersHold
      <4>6. QED  BY <4>2, <4>5
    <3>3. QED  BY <3>1, <3>2
  <2>4. \A m \in upheld' : m \in Markets /\ market'[m] = "resolved"
    BY <1>4 DEF DeskOfLadder, OnePerMarket
  <2>5. QED  BY <2>1, <2>2, <2>3, <2>4 DEF OnePerMarket
<1>5. QED  BY <1>2, <1>3, <1>4 DEF DeskOfLadder

\* A market moves; the requests about it are new or gone, unless it was closed
\* and is written over.
LEMMA MarketTurns ==
    ASSUME DeskOfLadder, NEW m \in Markets, NEW to \in MarketStates \ {"none"},
           undone => undone', ~undone' => ~IsClosed(m),
           market' = [market EXCEPT ![m] = to],
           closing' \in [Hands -> CloseRow],
           \A q \in Hands : \/ /\ closing'[q] = closing[q]
                               /\ closing[q].at \in {"count", "open"} => closing[q].on # m
                               /\ ~undone' /\ closing[q].at # "rest" => closing[q].on # m
                            \/ /\ RowHolds(closing[q])'
                               /\ undone' \/ CloseHolds(closing[q])'
                               /\ closing'[q].at \notin {"count", "open"},
           ~undone' => \A q, p \in Hands :
               closing'[q].at # "rest" /\ closing'[p].at # "rest"
               /\ closing'[q].on = closing'[p].on => q = p,
           bypassed' = bypassed \/ (bypassed' = bypassed \cup {m} /\ to = "voided"),
           upheld' = upheld \/ (upheld' = upheld \cup {m} /\ to = "resolved"),
           rounds' \cup listed' \subseteq rounds \cup listed \cup {m},
           UNCHANGED <<reviews, missed, record, level>>
    PROVE  DeskOfLadder'
<1>1. /\ market' \in [Markets -> MarketStates]
      /\ market'[m] = to
      /\ \A k \in Markets \ {m} : market'[k] = market[k]
  BY DEF DeskOfLadder, LadderType
<1>2. LadderType'
  BY <1>1 DEF DeskOfLadder, LadderType
<1>3. OnTheWay'
  <2>1. \A k \in Markets : market[k] # "none" => market'[k] # "none"
    BY <1>1
  <2>2. ASSUME NEW q \in Hands PROVE RowHolds(closing[q])'
    <3>1. CASE /\ closing'[q] = closing[q]
               /\ closing[q].at \in {"count", "open"} => closing[q].on # m
      <4>1. PICK w : w = closing[q]
        OBVIOUS
      <4>2. w.at # "rest" => w.on \in Markets
        BY <4>1 DEF DeskOfLadder, OnTheWay, RowHolds
      <4>3. w.at \in {"count", "open"} => market'[w.on] = market[w.on]
        BY <1>1, <3>1, <4>1, <4>2
      <4>4. RowHolds(w)'
        BY <2>1, <4>1, <4>3, OthersStay
      <4>5. QED  BY <3>1, <4>1, <4>4
    <3>2. QED  BY <3>1
  <2>3. \A k \in rounds' \cup listed' : k \in Markets /\ market'[k] # "none"
    BY <1>1, <2>1 DEF DeskOfLadder, OnTheWay
  <2>4. \A q \in Hands : closing'[q].at \in {"count", "open"} => closing'[q] = closing[q]
    OBVIOUS
  <2>5. \A q, p \in Hands : /\ closing'[q].at \in {"count", "open"}
                           /\ closing'[p].at \in {"count", "open"}
                           /\ closing'[q].on = closing'[p].on
                           => q = p
    BY <2>4 DEF DeskOfLadder, OnTheWay
  <2>6. QED  BY <2>2, <2>3, <2>5 DEF OnTheWay
<1>4. ASSUME ~undone' PROVE OnePerMarket'
  <2>1. OnePerMarket /\ ~undone
    BY <1>4 DEF DeskOfLadder
  <2>2. m \notin reviews /\ m \notin missed /\ m \notin upheld
    BY <1>4, <2>1 DEF OnePerMarket, IsClosed
  <2>3. ASSUME NEW k \in reviews' \cup missed' \cup bypassed'
        PROVE  k \in Markets /\ IsClosed(k)'
    <3>1. CASE k \in reviews \cup missed \cup bypassed
      <4>1. k \in Markets /\ IsClosed(k) /\ k # m
        BY <1>4, <2>1, <3>1 DEF OnePerMarket
      <4>2. QED  BY <1>1, <4>1 DEF IsClosed
    <3>2. CASE k = m /\ to = "voided"
      BY <1>1, <3>2 DEF IsClosed
    <3>3. QED  BY <3>1, <3>2
  <2>4. \A k \in upheld' : k \in Markets /\ market'[k] = "resolved"
    BY <1>1, <2>1, <2>2 DEF OnePerMarket
  <2>5. ASSUME NEW q \in Hands PROVE CloseHolds(closing[q])'
    <3>1. CASE /\ closing'[q] = closing[q]
               /\ closing[q].at # "rest" => closing[q].on # m
      <4>1. PICK w : w = closing[q]
        OBVIOUS
      <4>2. w.at # "rest" => w.on \in Markets
        BY <4>1 DEF DeskOfLadder, OnTheWay, RowHolds
      <4>3. w.at # "rest" => /\ market'[w.on] = market[w.on]
                             /\ w.on \in missed' => w.on \in missed
                             /\ w.on \in bypassed' => w.on \in bypassed
                             /\ w.on \in reviews' => w.on \in reviews
                             /\ w.on \in upheld' <=> w.on \in upheld
        BY <1>1, <3>1, <4>1, <4>2
      <4>4. CloseHolds(w)'
        BY <2>1, <4>1, <4>3, OthersHold
      <4>5. QED  BY <3>1, <4>1, <4>4
    <3>2. QED  BY <1>4, <3>1
  <2>6. QED  BY <1>4, <2>3, <2>4, <2>5 DEF OnePerMarket
<1>5. QED  BY <1>2, <1>3, <1>4 DEF DeskOfLadder

\* What the openings, the other moves of a market and its closes do to the rows.
LEMMA LadderAsks ==
    ASSUME DeskOfLadder, NEW r \in Hands, NEW m \in Markets, Ladder!Ask(r, m)
    PROVE  /\ DeskOfLadder'
           /\ UNCHANGED <<market, upheld, bypassed, undone, reviews, missed, record, level, overlap>>
           /\ closing[r].at = "rest" /\ closing'[r].at = "count"
           /\ \A q \in Hands \ {r} : closing'[q] = closing[q]
<1>1. PICK row : row = [Ladder!Rest EXCEPT !.at = "count", !.on = m, !.cap = MaxLive[level]]
  OBVIOUS
<1>2. /\ closing[r] = Ladder!Rest /\ market[m] = "none"
      /\ \A q \in Hands : closing[q].at = "rest" \/ closing[q].on # m
      /\ closing' = [closing EXCEPT ![r] = row]
      /\ UNCHANGED <<market, upheld, rounds, listed, bypassed, undone>>
      /\ UNCHANGED <<reviews, missed, record, level, overlap>>
  BY <1>1 DEF Ladder!Ask, Ladder!settling
<1>3. /\ row \in CloseRow /\ row.at = "count" /\ row.on = m /\ row.cap = MaxLive[level]
  <2>1. PICK cap \in Nat : cap = MaxLive[level]
    BY LadderAssumption DEF DeskOfLadder, LadderType
  <2>2. QED  BY <1>1, <2>1, RestRow DEF CloseRow, Ladder!Rest
<1>4. /\ closing' \in [Hands -> CloseRow]
      /\ closing'[r] = row
      /\ \A q \in Hands \ {r} : closing'[q] = closing[q]
  BY <1>2, <1>3, RowMoves
<1>5. RowHolds(row) /\ CloseHolds(row)
  BY <1>2, <1>3, LadderAssumption DEF DeskOfLadder, LadderType, RowHolds, CloseHolds
<1>6. LadderType'
  BY <1>2, <1>4 DEF DeskOfLadder, LadderType
<1>7. OnTheWay'
  <2>1. \A q \in Hands : RowHolds(closing'[q])
    BY <1>4, <1>5 DEF DeskOfLadder, OnTheWay
  <2>2. \A q \in Hands : RowHolds(closing[q])'
    BY <1>2, <2>1 DEF RowHolds, Ladder!Unread, Ladder!NoRecord
  <2>3. \A q, p \in Hands : /\ closing'[q].at \in {"count", "open"}
                           /\ closing'[p].at \in {"count", "open"}
                           /\ closing'[q].on = closing'[p].on
                           => q = p
    BY <1>2, <1>3, <1>4 DEF DeskOfLadder, OnTheWay
  <2>4. \A k \in rounds' \cup listed' : k \in Markets /\ market'[k] # "none"
    BY <1>2 DEF DeskOfLadder, OnTheWay
  <2>5. QED  BY <2>2, <2>3, <2>4 DEF OnTheWay
<1>8. ASSUME ~undone PROVE OnePerMarket'
  <2>1. \A q, p \in Hands : closing'[q].at # "rest" /\ closing'[p].at # "rest"
                            /\ closing'[q].on = closing'[p].on => q = p
    BY <1>2, <1>3, <1>4, <1>8 DEF DeskOfLadder, OnePerMarket
  <2>2. \A q \in Hands : CloseHolds(closing'[q])
    BY <1>4, <1>5, <1>8 DEF DeskOfLadder, OnePerMarket
  <2>3. \A q \in Hands : CloseHolds(closing[q])'
    BY <1>2, <2>2 DEF CloseHolds, IsClosed, Ladder!KindOf
  <2>4. QED  BY <1>2, <1>8, <2>1, <2>3 DEF DeskOfLadder, OnePerMarket, IsClosed
<1>9. DeskOfLadder'
  BY <1>2, <1>6, <1>7, <1>8 DEF DeskOfLadder
<1>10. QED  BY <1>2, <1>3, <1>4, <1>9, RestRow

LEMMA LadderOpens ==
    ASSUME DeskOfLadder, NEW r \in Hands, NEW path0 \in {"organic", "seeded"},
           Ladder!Open(r, path0)
    PROVE  /\ DeskOfLadder'
           /\ UNCHANGED <<upheld, bypassed, undone, reviews, missed, record, level, overlap>>
           /\ closing[r].at = "open" /\ closing'[r].at = "rest"
           /\ \A q \in Hands \ {r} : closing'[q] = closing[q]
           /\ \E m \in Markets : /\ market[m] = "none"
                                 /\ market'[m] \in {"draft", "funding"}
                                 /\ \A k \in Markets \ {m} : market'[k] = market[k]
<1>1. PICK to \in {"draft", "funding"} : to = IF path0 = "organic" THEN "funding" ELSE "draft"
  OBVIOUS
<1>2. PICK m : m = closing[r].on
  OBVIOUS
<1>3. /\ closing[r].at = "open"
      /\ market' = [market EXCEPT ![m] = to]
      /\ closing' = [closing EXCEPT ![r] = Ladder!Rest]
      /\ UNCHANGED <<upheld, rounds, listed, bypassed, undone>>
      /\ UNCHANGED <<reviews, missed, record, level, overlap>>
  BY <1>1, <1>2 DEF Ladder!Open
<1>4. m \in Markets /\ market[m] = "none"
  BY <1>2, <1>3 DEF DeskOfLadder, OnTheWay, RowHolds
<1>5. /\ closing' \in [Hands -> CloseRow]
      /\ closing'[r] = Ladder!Rest
      /\ \A q \in Hands \ {r} : closing'[q] = closing[q]
  BY <1>3, RowMoves, RestRow
<1>6. \A q \in Hands \ {r} : closing[q].at # "rest" => closing[q].on # m
  <2>1. ASSUME NEW q \in Hands \ {r}, closing[q].at \in {"count", "open"}
        PROVE  closing[q].on # m
    BY <1>2, <1>3, <2>1 DEF DeskOfLadder, OnTheWay
  <2>2. ASSUME NEW q \in Hands, closing[q].at \in {"review", "add", "recompute"}
        PROVE  closing[q].on # m
    BY <1>4, <2>2 DEF DeskOfLadder, OnTheWay, RowHolds
  <2>3. QED  BY <2>1, <2>2 DEF DeskOfLadder, LadderType, CloseRow
<1>7. RowHolds(closing[r])' /\ CloseHolds(closing[r])'
  BY <1>5 DEF RowHolds, CloseHolds, Ladder!Rest
<1>8. ~undone' => \A q, p \in Hands :
          closing'[q].at # "rest" /\ closing'[p].at # "rest"
          /\ closing'[q].on = closing'[p].on => q = p
  BY <1>3, <1>5, RestRow DEF DeskOfLadder, OnePerMarket
<1>9. DeskOfLadder'
  <2>1. ~IsClosed(m) /\ to \in MarketStates \ {"none"}
    BY <1>4 DEF IsClosed, MarketStates
  <2>2. \A q \in Hands : \/ /\ closing'[q] = closing[q]
                            /\ closing[q].at \in {"count", "open"} => closing[q].on # m
                            /\ ~undone' /\ closing[q].at # "rest" => closing[q].on # m
                         \/ /\ RowHolds(closing[q])'
                            /\ undone' \/ CloseHolds(closing[q])'
                            /\ closing'[q].at \notin {"count", "open"}
    BY <1>5, <1>6, <1>7, RestRow
  <2>3. QED  BY <1>3, <1>4, <1>5, <1>8, <2>1, <2>2, MarketTurns
<1>10. market'[m] = to /\ \A k \in Markets \ {m} : market'[k] = market[k]
  BY <1>3, <1>4 DEF DeskOfLadder, LadderType
<1>11. QED  BY <1>1, <1>3, <1>4, <1>5, <1>9, <1>10, RestRow

\* The moves of a market that no request takes further.
MarketMoves(m) ==
    \/ Ladder!OpenRound(m)
    \/ \E filled \in BOOLEAN : Ladder!Activate(m, filled)
    \/ Ladder!ListDue(m)
    \/ Ladder!Freeze(m)
    \/ Ladder!Propose(m)
    \/ Ladder!VoidByApproval(m)
    \/ Ladder!CloseRound(m)

LEMMA LadderActivates ==
    ASSUME DeskOfLadder, NEW m \in Markets, MarketMoves(m)
    PROVE  /\ DeskOfLadder'
           /\ UNCHANGED <<upheld, reviews, closing, missed, record, level, overlap>>
           /\ undone => undone'
           /\ \A k \in Markets \ {m} : market'[k] = market[k]
           /\ market'[m] \in {"seeding", "active"}
                 => market[m] \in {"draft", "seeding", "funding", "active"}
           /\ market'[m] \notin {"none", "draft", "funding"}
           /\ \/ market'[m] = market[m] /\ bypassed' = bypassed
              \/ /\ undone' \/ ~IsClosed(m)
                 /\ \/ ~IsClosed(m)' /\ bypassed' = bypassed
                    \/ market'[m] = "voided" /\ bypassed' = bypassed \cup {m}
<1> DEFINE kept == /\ UNCHANGED <<upheld, reviews, closing, missed, record, level, overlap>>
<1>1. CASE Ladder!ListDue(m)
  <2>1. /\ kept /\ UNCHANGED <<market, rounds, bypassed, undone>>
        /\ market[m] = "active" /\ listed' = listed \cup {m}
    BY <1>1 DEF Ladder!ListDue, Ladder!standing
  <2>2. LadderType'
    BY <2>1 DEF DeskOfLadder, LadderType
  <2>3. OnTheWay'
    BY <2>1 DEF DeskOfLadder, OnTheWay, RowHolds, Ladder!Unread, Ladder!NoRecord
  <2>4. ASSUME ~undone PROVE OnePerMarket'
    BY <2>1, <2>4 DEF DeskOfLadder, OnePerMarket, CloseHolds, IsClosed, Ladder!KindOf
  <2>5. QED  BY <2>1, <2>2, <2>3, <2>4 DEF DeskOfLadder
<1>2. CASE ~Ladder!ListDue(m)
  <2>1. PICK to \in {"seeding", "active", "pending_resolution", "dispute_window", "voided"} :
           /\ market[m] # "none"
           /\ to \in {"seeding", "active"} => market[m] \in {"draft", "seeding", "funding", "active"}
           /\ market' = [market EXCEPT ![m] = to]
           /\ \/ to = "voided" /\ bypassed' = bypassed \cup {m}
              \/ to # "voided" /\ bypassed' = bypassed
           /\ undone => undone'
           /\ ~undone' => ~IsClosed(m)
           /\ rounds' \cup listed' \subseteq rounds \cup listed \cup {m}
           /\ kept
    <3>1. CASE Ladder!OpenRound(m)
      BY <3>1 DEF Ladder!OpenRound, Ladder!standing, IsClosed
    <3>2. CASE \E filled \in BOOLEAN : Ladder!Activate(m, filled)
      BY <3>2 DEF Ladder!Activate, Ladder!standing, IsClosed
    <3>3. CASE Ladder!Freeze(m)
      BY <3>3 DEF Ladder!Freeze, Ladder!standing, Ladder!Closed, IsClosed, DeskOfLadder, OnTheWay
    <3>4. CASE Ladder!Propose(m)
      BY <3>4 DEF Ladder!Propose, Ladder!standing, IsClosed
    <3>5. CASE Ladder!VoidByApproval(m)
      BY <3>5 DEF Ladder!VoidByApproval, Ladder!VoidUnreviewed, Ladder!standing, IsClosed
    <3>6. CASE Ladder!CloseRound(m)
      BY <3>6 DEF Ladder!CloseRound, Ladder!VoidUnreviewed, Ladder!standing, Ladder!Closed,
                  IsClosed, DeskOfLadder, OnTheWay
    <3>7. QED  BY <1>2, <3>1, <3>2, <3>3, <3>4, <3>5, <3>6 DEF MarketMoves
  <2>2. \A q \in Hands : closing[q].at \in {"count", "open"} => closing[q].on # m
    BY <2>1 DEF DeskOfLadder, OnTheWay, RowHolds
  <2>3. ASSUME ~undone', NEW q \in Hands, closing[q].at # "rest" PROVE closing[q].on # m
    <3>1. ~undone /\ ~IsClosed(m)
      BY <2>1, <2>3
    <3>2. CASE closing[q].at \in {"count", "open"}
      BY <2>2, <3>2
    <3>3. CASE closing[q].at \in {"review", "add", "recompute"}
      BY <3>1, <3>3 DEF DeskOfLadder, OnePerMarket, CloseHolds
    <3>4. QED  BY <2>3, <3>2, <3>3 DEF DeskOfLadder, LadderType, CloseRow
  <2>4. closing' \in [Hands -> CloseRow]
    BY <2>1 DEF DeskOfLadder, LadderType
  <2>5. ~undone' => \A q, p \in Hands :
            closing'[q].at # "rest" /\ closing'[p].at # "rest"
            /\ closing'[q].on = closing'[p].on => q = p
    BY <2>1 DEF DeskOfLadder, OnePerMarket
  <2>6. to \in MarketStates \ {"none"}
    BY DEF MarketStates
  <2>7. DeskOfLadder'
    <3>1. \A q \in Hands :
             /\ closing'[q] = closing[q]
             /\ closing[q].at \in {"count", "open"} => closing[q].on # m
             /\ ~undone' /\ closing[q].at # "rest" => closing[q].on # m
      BY <2>1, <2>2, <2>3
    <3>2. /\ undone => undone'
          /\ ~undone' => ~IsClosed(m)
          /\ market' = [market EXCEPT ![m] = to]
          /\ bypassed' = bypassed \/ (bypassed' = bypassed \cup {m} /\ to = "voided")
          /\ rounds' \cup listed' \subseteq rounds \cup listed \cup {m}
          /\ UNCHANGED <<upheld, reviews, missed, record, level>>
      BY <2>1
    <3>3. QED  BY <2>4, <2>5, <2>6, <3>1, <3>2, MarketTurns
  <2>8. market'[m] = to /\ \A k \in Markets \ {m} : market'[k] = market[k]
    BY <2>1 DEF DeskOfLadder, LadderType
  <2>9. QED  BY <2>1, <2>7, <2>8 DEF IsClosed
<1>3. QED  BY <1>1, <1>2

LEMMA LadderCloses ==
    ASSUME DeskOfLadder, NEW r \in Hands, NEW m \in Markets,
           \/ \E disputed \in BOOLEAN : Ladder!Resolve(r, m, disputed)
           \/ Ladder!VoidAtDeadline(r, m)
    PROVE  /\ DeskOfLadder'
           /\ UNCHANGED <<bypassed, undone, reviews, missed, record, level, overlap>>
           /\ closing[r].at = "rest" /\ closing'[r].at = "review" /\ closing'[r].on = m
           /\ \A q \in Hands \ {r} : closing'[q] = closing[q]
           /\ market[m] \in {"funding", "active", "dispute_window"} /\ IsClosed(m)'
           /\ \A k \in Markets \ {m} : market'[k] = market[k]
           /\ upheld' = upheld \/ upheld' = upheld \cup {m}
<1>1. PICK to \in {"resolved", "voided"} :
         /\ market[m] \in {"funding", "active", "dispute_window"}
         /\ Ladder!Close(r, m, to)
         /\ upheld' = upheld \/ (upheld' = upheld \cup {m} /\ to = "resolved")
  BY DEF Ladder!Resolve, Ladder!VoidAtDeadline
<1>2. PICK row : row = [Ladder!Rest EXCEPT !.at = "review", !.on = m, !.kind = to]
  OBVIOUS
<1>3. /\ closing[r] = Ladder!Rest
      /\ market' = [market EXCEPT ![m] = to]
      /\ closing' = [closing EXCEPT ![r] = row]
      /\ rounds' \cup listed' \subseteq rounds \cup listed \cup {m}
      /\ UNCHANGED <<bypassed, undone, reviews, missed, record, level, overlap>>
  BY <1>1, <1>2 DEF Ladder!Close
<1>4. /\ row \in CloseRow /\ row.at = "review" /\ row.on = m /\ row.kind = to
      /\ row.level = 0 /\ row.record = Ladder!Unread
  BY <1>2, RestRow DEF CloseRow, Ladder!Rest
<1>5. /\ closing' \in [Hands -> CloseRow]
      /\ closing'[r] = row
      /\ \A q \in Hands \ {r} : closing'[q] = closing[q]
  BY <1>3, <1>4, RowMoves
<1>6. /\ \A q \in Hands : closing[q].at \in {"count", "open"} => closing[q].on # m
      /\ ~undone => \A q \in Hands : closing[q].at # "rest" => closing[q].on # m
  <2>1. \A q \in Hands : closing[q].at \in {"count", "open"} => closing[q].on # m
    BY <1>1 DEF DeskOfLadder, OnTheWay, RowHolds
  <2>2. ~undone => \A q \in Hands :
           closing[q].at \in {"review", "add", "recompute"} => closing[q].on # m
    BY <1>1 DEF DeskOfLadder, OnePerMarket, CloseHolds, IsClosed
  <2>3. QED  BY <2>1, <2>2 DEF DeskOfLadder, LadderType, CloseRow
<1>7. ~undone => m \notin reviews /\ m \notin missed /\ m \notin bypassed
  BY <1>1 DEF DeskOfLadder, OnePerMarket, IsClosed
<1>8. market'[m] = to /\ \A k \in Markets \ {m} : market'[k] = market[k]
  BY <1>3 DEF DeskOfLadder, LadderType
<1>9. /\ RowHolds(closing[r])'
      /\ undone' \/ CloseHolds(closing[r])'
      /\ closing'[r].at \notin {"count", "open"}
  <2>1. Ladder!Unread' = Ladder!Unread
    BY DEF Ladder!Unread, Ladder!NoRecord
  <2>2. QED
    BY <1>3, <1>4, <1>5, <1>7, <1>8, <2>1 DEF RowHolds, CloseHolds, IsClosed
<1>10. ~undone' => \A q, p \in Hands :
           closing'[q].at # "rest" /\ closing'[p].at # "rest"
           /\ closing'[q].on = closing'[p].on => q = p
  BY <1>3, <1>4, <1>5, <1>6 DEF DeskOfLadder, OnePerMarket
<1>11. ~IsClosed(m) /\ to \in MarketStates \ {"none"}
  BY <1>1 DEF IsClosed, MarketStates
<1>12. \A q \in Hands \ {r} :
          /\ closing'[q] = closing[q]
          /\ closing[q].at \in {"count", "open"} => closing[q].on # m
          /\ ~undone' /\ closing[q].at # "rest" => closing[q].on # m
  BY <1>3, <1>5, <1>6
<1>13. DeskOfLadder'
  BY <1>1, <1>3, <1>5, <1>9, <1>10, <1>11, <1>12, MarketTurns
<1>14. QED  BY <1>1, <1>3, <1>4, <1>5, <1>8, <1>13, RestRow DEF IsClosed

\* What a request does that has the market it works on already: CountLive,
\* Review, AddToRecord, the two reads of the recomputation, Adjust and a crash.
LEMMA LadderCounts ==
    ASSUME DeskOfLadder, NEW r \in Hands, Ladder!CountLive(r)
    PROVE  /\ DeskOfLadder'
           /\ UNCHANGED <<market, upheld, bypassed, undone, missed, record, level>>
           /\ closing[r].at = "count" /\ closing'[r].at \in {"rest", "open"}
           /\ closing'[r].at = "open" => Cardinality(Ladder!Trading) < MaxLive[3]
           /\ \A q \in Hands \ {r} : closing'[q] = closing[q]
           /\ overlap' = (overlap \/ \E q \in Hands \ {r} : closing[q].at \in {"open"})
<1>1. PICK w : w = closing[r]
  OBVIOUS
<1>2. PICK row : row = IF Ladder!Cardinality(Ladder!Live) >= w.cap THEN Ladder!Rest
                       ELSE [w EXCEPT !.at = "open"]
  OBVIOUS
<1>3. /\ w.at = "count"
      /\ closing' = [closing EXCEPT ![r] = row]
      /\ UNCHANGED <<market, upheld, rounds, listed, bypassed, undone>>
      /\ UNCHANGED <<reviews, missed, record, level>>
      /\ overlap' = (overlap \/ \E q \in Hands \ {r} : closing[q].at \in {"open"})
  BY <1>1, <1>2 DEF Ladder!CountLive, Ladder!settling, Ladder!Overlapping,
                    DeskOfLadder, LadderType
<1>4. w \in CloseRow /\ RowHolds(w)
  BY <1>1 DEF DeskOfLadder, LadderType, OnTheWay
<1>5. /\ row \in CloseRow /\ row.at \in {"rest", "open"}
      /\ row.at # "rest" => row.on = w.on
      /\ RowHolds(row) /\ CloseHolds(row)
  BY <1>2, <1>3, <1>4, RestRow DEF CloseRow, RowHolds, CloseHolds
<1>6. CloseHolds(row)'
  BY <1>3, <1>5 DEF CloseHolds, IsClosed
<1>7. /\ closing'[r] = row
      /\ \A q \in Hands \ {r} : closing'[q] = closing[q]
  BY <1>3, <1>5, RowMoves
<1>8. DeskOfLadder'
  <2>1. record \in Counters /\ record.volume \in Nat /\ level \in 1 .. 3
    BY DEF DeskOfLadder, LadderType
  <2>2. QED  BY <1>1, <1>3, <1>5, <1>6, <2>1, RequestTurns
<1>9. row.at = "open" => Cardinality(Ladder!Trading) < MaxLive[3]
  <2>1. w.cap \in Nat /\ w.cap <= MaxLive[3] /\ MaxLive[3] \in Nat
    BY <1>3, <1>4, LadderAssumption DEF CloseRow, RowHolds
  <2>2. Ladder!Cardinality(Ladder!Live) = Cardinality(Ladder!Live)
    BY DEF Ladder!Cardinality, Cardinality
  <2>3. IsFiniteSet(Ladder!Live) /\ Ladder!Trading \subseteq Ladder!Live
    BY LadderAssumption, FS_Subset DEF Ladder!Live, Ladder!Trading
  <2>4. /\ Cardinality(Ladder!Live) \in Nat /\ Cardinality(Ladder!Trading) \in Nat
        /\ Cardinality(Ladder!Trading) <= Cardinality(Ladder!Live)
    BY <2>3, FS_Subset, FS_CardinalityType
  <2>5. row.at = "open" => ~(Cardinality(Ladder!Live) >= w.cap)
    BY <1>2, <2>2, RestRow
  <2>6. QED  BY <2>1, <2>4, <2>5
<1>10. QED  BY <1>1, <1>3, <1>5, <1>7, <1>8, <1>9

LEMMA LadderReviews ==
    ASSUME DeskOfLadder, NEW r \in Hands, Ladder!Review(r)
    PROVE  /\ DeskOfLadder'
           /\ UNCHANGED <<market, upheld, bypassed, undone, missed, record, level, overlap>>
           /\ closing[r].at = "review" /\ closing'[r].at \in {"add", "rest"}
           /\ ~undone => closing'[r].at = "add" /\ closing'[r].on = closing[r].on
           /\ \A q \in Hands \ {r} : closing'[q] = closing[q]
<1>1. PICK w : w = closing[r]
  OBVIOUS
<1>2. /\ w \in CloseRow /\ RowHolds(w) /\ w.at = "review"
      /\ undone \/ CloseHolds(w)
  BY <1>1 DEF Ladder!Review, DeskOfLadder, LadderType, OnTheWay, OnePerMarket
<1>3. PICK row : row = IF w.on \in reviews THEN Ladder!Rest
                       ELSE [w EXCEPT !.at = "add", !.kind = Ladder!KindOf(w.on, w.kind)]
  OBVIOUS
<1>4. /\ closing' = [closing EXCEPT ![r] = row]
      /\ reviews' = reviews \cup {w.on}
      /\ UNCHANGED <<market, upheld, rounds, listed, bypassed, undone>>
      /\ UNCHANGED <<missed, record, level, overlap>>
  <2>1. UNCHANGED <<market, upheld, rounds, listed, bypassed, undone, missed, record, level, overlap>>
        /\ reviews' = reviews \cup {w.on}
    BY <1>1 DEF Ladder!Review, Ladder!settling
  <2>2. CASE w.on \in reviews
    BY <1>1, <1>3, <2>1, <2>2 DEF Ladder!Review, DeskOfLadder, LadderType
  <2>3. CASE w.on \notin reviews
    BY <1>1, <1>3, <2>1, <2>3 DEF Ladder!Review, DeskOfLadder, LadderType
  <2>4. QED  BY <2>2, <2>3
<1>5. Ladder!KindOf(w.on, w.kind) \in {"clean", "disputed", "voided", "none"}
  BY DEF Ladder!KindOf
<1>6. \/ row = Ladder!Rest /\ w.on \in reviews
      \/ /\ row \in CloseRow /\ row.at = "add" /\ row.on = w.on
         /\ row.kind = Ladder!KindOf(w.on, w.kind)
         /\ row.level = w.level /\ row.record = w.record
  BY <1>2, <1>3, <1>5 DEF CloseRow
<1>7. /\ row \in CloseRow /\ row.at \in {"add", "rest"}
      /\ row.at # "rest" => row.on = w.on
      /\ RowHolds(row)
  BY <1>2, <1>6, RestRow DEF RowHolds
<1>8. undone \/ (row.at = "add" /\ row.on = w.on /\ CloseHolds(row)')
  <2>1. ASSUME ~undone PROVE row.at = "add" /\ row.on = w.on /\ CloseHolds(row)'
    <3>1. CloseHolds(w) /\ w.on \notin reviews /\ w.kind = market[w.on]
      BY <1>2, <2>1 DEF CloseHolds
    <3>2. /\ row.at = "add" /\ row.on = w.on
          /\ row.kind = Ladder!KindOf(w.on, market[w.on])
      BY <1>6, <3>1
    <3>3. QED  BY <1>2, <1>4, <3>1, <3>2 DEF CloseHolds, IsClosed, Ladder!KindOf
  <2>2. QED  BY <2>1
<1>9. /\ closing'[r] = row
      /\ \A q \in Hands \ {r} : closing'[q] = closing[q]
  BY <1>4, <1>7, RowMoves
<1>10. DeskOfLadder'
  <2>1. record \in Counters /\ record.volume \in Nat /\ level \in 1 .. 3
    BY DEF DeskOfLadder, LadderType
  <2>2. QED  BY <1>1, <1>2, <1>4, <1>7, <1>8, <2>1, RequestTurns
<1>11. ~undone => closing'[r].at = "add" /\ closing'[r].on = closing[r].on
  BY <1>1, <1>8, <1>9
<1>12. QED  BY <1>1, <1>2, <1>4, <1>7, <1>9, <1>10, <1>11

\* A close is one more of its kind, and as much volume as the pot still held.
LEMMA OneMore ==
    ASSUME NEW rec \in Counters, NEW kinds \in {"clean", "disputed", "voided", "none", "resolved"},
           NEW pot \in {0, 1}
    PROVE  /\ Ladder!Counted(rec, kinds, pot) \in Counters
           /\ Ladder!Counted(rec, kinds, pot).volume = rec.volume + pot
           /\ \A k \in {"clean", "disputed", "voided"} :
                 Ladder!Counted(rec, kinds, pot)[k] = IF k = kinds THEN rec[k] + 1 ELSE rec[k]
<1>1. DOMAIN rec = {"clean", "disputed", "voided", "volume"}
  BY DEF Counters
<1>2. PICK to : to = Ladder!Counted(rec, kinds, pot)
  OBVIOUS
<1>3. to = [k \in {"clean", "disputed", "voided", "volume"} |->
               IF k = "volume" THEN rec[k] + pot ELSE IF k = kinds THEN rec[k] + 1 ELSE rec[k]]
  BY <1>1, <1>2 DEF Ladder!Counted
<1>4. /\ rec.clean \in Int /\ rec.disputed \in Int /\ rec.voided \in Int /\ rec.volume \in Int
  BY DEF Counters
<1>5. to = [clean |-> to.clean, disputed |-> to.disputed, voided |-> to.voided,
            volume |-> to.volume]
  BY <1>3
<1>6. to.clean \in Int /\ to.disputed \in Int /\ to.voided \in Int /\ to.volume \in Int
  BY <1>3, <1>4
<1>7. to \in Counters
  BY <1>5, <1>6 DEF Counters
<1>8. QED  BY <1>2, <1>3, <1>7

LEMMA LadderAdds ==
    ASSUME DeskOfLadder, NEW r \in Hands, Ladder!AddToRecord(r)
    PROVE  /\ DeskOfLadder'
           /\ UNCHANGED <<market, upheld, bypassed, undone, missed, level, overlap>>
           /\ closing[r].at = "add" /\ closing'[r].at = "recompute"
           /\ closing'[r].on = closing[r].on /\ closing[r].on \in Markets
           /\ closing'[r].level = 0 /\ closing'[r].record = Ladder!Unread
           /\ \A q \in Hands \ {r} : closing'[q] = closing[q]
           /\ ~undone => /\ closing[r].on \notin missed /\ closing[r].on \notin bypassed
                         /\ IsClosed(closing[r].on)
                         /\ closing[r].kind = Ladder!KindOf(closing[r].on, market[closing[r].on])
           /\ \E pot \in {0, 1} : record' = Ladder!Counted(record, closing[r].kind, pot)
<1>1. PICK w : w = closing[r]
  OBVIOUS
<1>2. /\ w \in CloseRow /\ RowHolds(w) /\ w.at = "add"
      /\ w.on \in Markets /\ w.level = 0 /\ w.record = Ladder!Unread
      /\ undone \/ CloseHolds(w)
  BY <1>1 DEF Ladder!AddToRecord, DeskOfLadder, LadderType, OnTheWay, RowHolds, OnePerMarket
<1>3. PICK row : row = [w EXCEPT !.at = "recompute"]
  OBVIOUS
<1>4. PICK pot \in {0, 1} : pot = IF w.on \in staked THEN 1 ELSE 0
  OBVIOUS
<1>5. /\ closing' = [closing EXCEPT ![r] = row]
      /\ record' = Ladder!Counted(record, w.kind, pot)
      /\ UNCHANGED <<market, upheld, rounds, listed, bypassed, undone>>
      /\ UNCHANGED <<reviews, missed, level, overlap>>
  BY <1>1, <1>2, <1>3, <1>4 DEF Ladder!AddToRecord, Ladder!settling, DeskOfLadder, LadderType
<1>6. /\ row \in CloseRow /\ row.at = "recompute" /\ row.on = w.on
      /\ row.level = 0 /\ row.record = Ladder!Unread
  BY <1>2, <1>3 DEF CloseRow
<1>7. RowHolds(row) /\ (undone \/ CloseHolds(row)')
  BY <1>2, <1>5, <1>6 DEF RowHolds, CloseHolds, IsClosed
<1>8. /\ closing'[r] = row
      /\ \A q \in Hands \ {r} : closing'[q] = closing[q]
  BY <1>5, <1>6, RowMoves
<1>9. record' \in Counters /\ record'.volume \in Nat /\ level' \in 1 .. 3
  <2>1. record \in Counters /\ record.volume \in Nat /\ level \in 1 .. 3
    BY DEF DeskOfLadder, LadderType
  <2>2. w.kind \in {"clean", "disputed", "voided", "none", "resolved"}
    BY <1>2 DEF CloseRow
  <2>3. record' \in Counters /\ record'.volume = record.volume + pot
    <3>1. QED  BY <1>5, <2>1, <2>2, OneMore
  <2>4. QED  BY <1>5, <2>1, <2>3
<1>10. DeskOfLadder'
  BY <1>1, <1>2, <1>5, <1>6, <1>7, <1>9, RequestTurns
<1>11. QED
  BY <1>1, <1>2, <1>5, <1>6, <1>8, <1>10 DEF CloseHolds

LEMMA LadderReads ==
    ASSUME DeskOfLadder, NEW r \in Hands, Ladder!ReadLevel(r) \/ Ladder!ReadRecord(r)
    PROVE  /\ DeskOfLadder'
           /\ UNCHANGED <<market, upheld, bypassed, undone, missed, record, level>>
           /\ closing[r].at = "recompute" /\ closing'[r].at = "recompute"
           /\ closing'[r].on = closing[r].on
           /\ closing'[r].level \in {closing[r].level, level}
           /\ closing'[r].record \in {closing[r].record, record}
           /\ \A q \in Hands \ {r} : closing'[q] = closing[q]
           /\ overlap' = (overlap \/ \E q \in Hands \ {r} : closing[q].at \in {"recompute"})
<1>1. PICK w : w = closing[r]
  OBVIOUS
<1>2. w \in CloseRow /\ RowHolds(w) /\ w.at = "recompute" /\ (undone \/ CloseHolds(w))
  BY <1>1 DEF Ladder!ReadLevel, Ladder!ReadRecord, DeskOfLadder, LadderType, OnTheWay,
              OnePerMarket
<1>3. PICK row \in {[w EXCEPT !.level = level], [w EXCEPT !.record = record]} :
         closing' = [closing EXCEPT ![r] = row]
  BY <1>1 DEF Ladder!ReadLevel, Ladder!ReadRecord, DeskOfLadder, LadderType
<1>4. /\ UNCHANGED <<market, upheld, rounds, listed, bypassed, undone>>
      /\ UNCHANGED <<reviews, missed, record, level>>
      /\ overlap' = (overlap \/ \E q \in Hands \ {r} : closing[q].at \in {"recompute"})
  BY DEF Ladder!ReadLevel, Ladder!ReadRecord, Ladder!settling, Ladder!Overlapping
<1>5. record \in Counters /\ record.volume \in Nat /\ level \in 1 .. 3
  BY DEF DeskOfLadder, LadderType
<1>6. /\ row \in CloseRow /\ row.at = "recompute" /\ row.on = w.on
      /\ row.level \in {w.level, level} /\ row.record \in {w.record, record}
  BY <1>2, <1>3, <1>5 DEF CloseRow
<1>7. RowHolds(row) /\ (undone \/ CloseHolds(row)')
  BY <1>2, <1>4, <1>6 DEF RowHolds, CloseHolds, IsClosed
<1>8. /\ closing'[r] = row
      /\ \A q \in Hands \ {r} : closing'[q] = closing[q]
  BY <1>3, <1>6, RowMoves
<1>9. DeskOfLadder'
  BY <1>1, <1>2, <1>3, <1>4, <1>5, <1>6, <1>7, RequestTurns
<1>10. QED  BY <1>1, <1>2, <1>4, <1>6, <1>8, <1>9

\* Adjust and Crash end a request.
LEMMA LadderEnds ==
    ASSUME DeskOfLadder, NEW r \in Hands, Ladder!Adjust(r) \/ Ladder!Crash(r)
    PROVE  /\ DeskOfLadder'
           /\ UNCHANGED <<market, upheld, bypassed, undone, record>>
           /\ closing[r].at \in {"review", "add", "recompute"}
           /\ closing'[r].at = "rest" /\ closing'[r].level = 0
           /\ closing'[r].record = Ladder!Unread
           /\ \A q \in Hands \ {r} : closing'[q] = closing[q]
           /\ missed' = IF closing[r].at = "recompute" THEN missed
                        ELSE missed \cup {closing[r].on}
<1>1. /\ closing[r].at \in {"review", "add", "recompute"}
      /\ closing' = [closing EXCEPT ![r] = Ladder!Rest]
      /\ missed' = IF closing[r].at = "recompute" THEN missed
                   ELSE missed \cup {closing[r].on}
      /\ UNCHANGED <<market, upheld, rounds, listed, bypassed, undone>>
      /\ UNCHANGED <<reviews, record>>
  BY DEF Ladder!Adjust, Ladder!Crash, Ladder!settling
<1>2. level' \in 1 .. 3
  <2>1. level \in 1 .. 3
    BY DEF DeskOfLadder, LadderType
  <2>2. CASE Ladder!Crash(r)
    BY <2>1, <2>2 DEF Ladder!Crash
  <2>3. CASE Ladder!Adjust(r)
    <3>1. closing[r].level # 0 /\ closing[r].level \in 0 .. 3
      BY <2>3 DEF Ladder!Adjust, DeskOfLadder, LadderType, CloseRow
    <3>2. level' \in {level} \cup {Ladder!NextLevel(closing[r].level, closing[r].record)}
      BY <2>3 DEF Ladder!Adjust
    <3>3. Ladder!NextLevel(closing[r].level, closing[r].record) \in 1 .. 3
      BY <3>1 DEF Ladder!NextLevel, Ladder!EarnedLevel
    <3>4. QED  BY <2>1, <3>2, <3>3
  <2>4. QED  BY <2>2, <2>3
<1>3. /\ closing'[r] = Ladder!Rest
      /\ \A q \in Hands \ {r} : closing'[q] = closing[q]
  BY <1>1, RestRow, RowMoves
<1>4. CloseHolds(Ladder!Rest)'
  BY RestRow DEF CloseHolds
<1>5. record \in Counters /\ record.volume \in Nat
  BY DEF DeskOfLadder, LadderType
<1>6. DeskOfLadder'
  BY <1>1, <1>2, <1>4, <1>5, RestRow, RequestTurns
<1>7. QED  BY <1>1, <1>3, <1>6, RestRow

\* What the record stands for: the closed markets whose request got as far as
\* the counters.
InBook(m) ==
    /\ IsClosed(m)
    /\ m \notin missed /\ m \notin bypassed
    /\ \A q \in Hands : closing[q].at \in {"review", "add"} => closing[q].on # m

Book == {m \in Markets : InBook(m)}

Tally(rec, C, mk, up) ==
    /\ rec.clean = Cardinality({m \in C : mk[m] = "resolved"} \ up)
    /\ rec.disputed = Cardinality(C \cap up)
    /\ rec.voided = Cardinality({m \in C : mk[m] = "voided"})

RecordInv == undone \/ Tally(record, Book, market, upheld)

LEMMA BookIsCounted == Book = Ladder!Reviewed
BY DEF Book, InBook, IsClosed, Ladder!Reviewed, Ladder!Closed, Ladder!Uncounted

LEMMA BookStarts == Ladder!Init => RecordInv
<1> SUFFICES ASSUME Ladder!Init PROVE RecordInv
  OBVIOUS
<1>1. Book = {}
  BY DEF Ladder!Init, Book, InBook, IsClosed
<1>2. /\ {m \in Book : market[m] = "resolved"} \ upheld = {}
      /\ Book \cap upheld = {}
      /\ {m \in Book : market[m] = "voided"} = {}
  BY <1>1
<1>3. record.clean = 0 /\ record.disputed = 0 /\ record.voided = 0
  BY DEF Ladder!Init, Ladder!NoRecord
<1>4. QED  BY <1>1, <1>2, <1>3, FS_EmptySet DEF RecordInv, Tally

\* A step that counts nothing and leaves what was counted as it was.
LEMMA BookKept ==
    ASSUME RecordInv, record' = record, undone => undone',
           ~undone' => \A m \in Markets : InBook(m)' <=> InBook(m),
           ~undone' => \A m \in Markets : InBook(m) =>
               market'[m] = market[m] /\ (m \in upheld' <=> m \in upheld)
    PROVE  RecordInv'
<1> SUFFICES ASSUME ~undone' PROVE RecordInv'
  BY DEF RecordInv
<1>1. PICK C : C = Book
  OBVIOUS
<1>2. Book' = C
  BY <1>1 DEF Book
<1>3. \A m \in C : market'[m] = market[m] /\ (m \in upheld' <=> m \in upheld)
  BY <1>1 DEF Book
<1>4. /\ {m \in C : market'[m] = "resolved"} \ upheld' = {m \in C : market[m] = "resolved"} \ upheld
      /\ C \cap upheld' = C \cap upheld
      /\ {m \in C : market'[m] = "voided"} = {m \in C : market[m] = "voided"}
  BY <1>3
<1>5. Tally(record', C, market', upheld')
  BY <1>1, <1>4 DEF RecordInv, Tally
<1>6. QED  BY <1>2, <1>5 DEF RecordInv

\* The count of one close moves the counter of its kind.
LEMMA BookGrows ==
    ASSUME DeskOfLadder, RecordInv, NEW r \in Hands, Ladder!AddToRecord(r)
    PROVE  RecordInv'
<1> SUFFICES ASSUME ~undone PROVE RecordInv'
  BY LadderAdds DEF RecordInv
<1>1. PICK C : C = Book
  OBVIOUS
<1>2. PICK m : m = closing[r].on
  OBVIOUS
<1>3. PICK mk : mk = market
  OBVIOUS
<1>4. PICK up : up = upheld
  OBVIOUS
<1> DEFINE kind0 == Ladder!KindOf(m, mk[m])
<1>5. /\ market' = mk /\ upheld' = up /\ missed' = missed /\ bypassed' = bypassed
      /\ closing[r].at = "add" /\ closing'[r].at = "recompute"
      /\ m \in Markets /\ m \notin missed /\ m \notin bypassed /\ IsClosed(m)
      /\ \A q \in Hands \ {r} : closing'[q] = closing[q]
      /\ closing[r].kind = kind0
      /\ \E pot \in {0, 1} : record' = Ladder!Counted(record, kind0, pot)
  BY <1>2, <1>3, <1>4, LadderAdds
<1>6. m \notin C
  BY <1>1, <1>2, <1>5 DEF Book, InBook
<1>7. \A q \in Hands : closing[q].at # "rest" /\ closing[q].on = m => q = r
  BY <1>2, <1>5 DEF DeskOfLadder, OnePerMarket
<1>8. Book' = C \cup {m}
  BY <1>1, <1>2, <1>3, <1>5, <1>7 DEF Book, InBook, IsClosed
<1>9. /\ IsFiniteSet(C)
      /\ Cardinality(C) \in Nat /\ Cardinality(C \cup {m}) = Cardinality(C) + 1
  <2>1. IsFiniteSet(C)
    BY <1>1, LadderAssumption, FS_Subset DEF Book
  <2>2. QED  BY <1>6, <2>1, FS_AddElement, FS_CardinalityType
<1>10. /\ mk[m] \in {"resolved", "voided"}
       /\ m \in up => mk[m] = "resolved"
  BY <1>3, <1>4, <1>5 DEF IsClosed, DeskOfLadder, OnePerMarket
<1>11. kind0 = IF mk[m] = "voided" THEN "voided" ELSE IF m \in up THEN "disputed" ELSE "clean"
  BY <1>3, <1>4, <1>10 DEF Ladder!KindOf
<1>12. PICK rec \in Counters : rec = record
  BY DEF DeskOfLadder, LadderType
<1>13. PICK pot \in {0, 1} : record' = Ladder!Counted(record, kind0, pot)
  BY <1>5
<1>14. PICK rec2 : rec2 = Ladder!Counted(rec, kind0, pot)
  OBVIOUS
<1>15. /\ rec2.clean = IF kind0 = "clean" THEN rec.clean + 1 ELSE rec.clean
       /\ rec2.disputed = IF kind0 = "disputed" THEN rec.disputed + 1 ELSE rec.disputed
       /\ rec2.voided = IF kind0 = "voided" THEN rec.voided + 1 ELSE rec.voided
  <2>1. kind0 \in {"clean", "disputed", "voided", "none", "resolved"}
    BY <1>11
  <2>2. \A k \in {"clean", "disputed", "voided"} :
           rec2[k] = IF k = kind0 THEN rec[k] + 1 ELSE rec[k]
    <3> HIDE DEF kind0
    <3>1. QED  BY <1>14, <2>1, OneMore
  <2>3. QED  BY <2>2
<1>16. Tally(rec, C, mk, up)
  BY <1>1, <1>3, <1>4, <1>12 DEF RecordInv
<1> DEFINE Fair(D) == {k \in D : mk[k] = "resolved"} \ up
           Lost(D) == {k \in D : mk[k] = "voided"}
<1>17. /\ rec2.clean = Cardinality(Fair(C \cup {m}))
       /\ rec2.disputed = Cardinality((C \cup {m}) \cap up)
       /\ rec2.voided = Cardinality(Lost(C \cup {m}))
  <2> HIDE DEF kind0
  <2>1. /\ IsFiniteSet(Fair(C)) /\ IsFiniteSet(C \cap up) /\ IsFiniteSet(Lost(C))
        /\ m \notin Fair(C) /\ m \notin C \cap up /\ m \notin Lost(C)
    BY <1>6, <1>9, FS_Subset
  <2>2. /\ rec.clean = Cardinality(Fair(C))
        /\ rec.disputed = Cardinality(C \cap up)
        /\ rec.voided = Cardinality(Lost(C))
    BY <1>16 DEF Tally
  <2>3. CASE mk[m] = "voided"
    <3>1. /\ Fair(C \cup {m}) = Fair(C) /\ (C \cup {m}) \cap up = C \cap up
          /\ Lost(C \cup {m}) = Lost(C) \cup {m}
      BY <1>10, <2>3
    <3>2. Cardinality(Lost(C) \cup {m}) = Cardinality(Lost(C)) + 1
      BY <2>1, FS_AddElement
    <3>3. QED  BY <1>11, <1>15, <2>2, <2>3, <3>1, <3>2
  <2>4. CASE mk[m] # "voided" /\ m \in up
    <3>1. /\ Fair(C \cup {m}) = Fair(C) /\ Lost(C \cup {m}) = Lost(C)
          /\ (C \cup {m}) \cap up = (C \cap up) \cup {m}
      BY <2>4
    <3>2. Cardinality((C \cap up) \cup {m}) = Cardinality(C \cap up) + 1
      BY <2>1, FS_AddElement
    <3>3. QED  BY <1>11, <1>15, <2>2, <2>4, <3>1, <3>2
  <2>5. CASE mk[m] # "voided" /\ m \notin up
    <3>1. /\ Fair(C \cup {m}) = Fair(C) \cup {m} /\ Lost(C \cup {m}) = Lost(C)
          /\ (C \cup {m}) \cap up = C \cap up
      BY <1>10, <2>5
    <3>2. Cardinality(Fair(C) \cup {m}) = Cardinality(Fair(C)) + 1
      BY <2>1, FS_AddElement
    <3>3. QED  BY <1>11, <1>15, <2>2, <2>5, <3>1, <3>2
  <2>6. QED  BY <2>3, <2>4, <2>5
<1>18. Tally(rec2, C \cup {m}, mk, up)
  BY <1>17 DEF Tally
<1>19. record' = rec2
  BY <1>12, <1>13, <1>14
<1>20. QED  BY <1>5, <1>8, <1>18, <1>19 DEF RecordInv

\* No other step counts a close or changes one that was counted.
LEMMA BookKeeps == DeskOfLadder /\ RecordInv /\ [Ladder!Next]_(Ladder!vars) => RecordInv'
<1> SUFFICES ASSUME DeskOfLadder, RecordInv, [Ladder!Next]_(Ladder!vars) PROVE RecordInv'
  OBVIOUS
<1>1. ASSUME UNCHANGED <<market, upheld, bypassed, undone, missed, record>>,
             \A m \in Markets : (\A q \in Hands : closing'[q].at \in {"review", "add"} => closing'[q].on # m)
                <=> (\A q \in Hands : closing[q].at \in {"review", "add"} => closing[q].on # m)
      PROVE  RecordInv'
  BY <1>1, BookKept DEF InBook, IsClosed
<1>2. ASSUME NEW r \in Hands, UNCHANGED <<market, upheld, bypassed, undone, missed, record>>,
             \A q \in Hands \ {r} : closing'[q] = closing[q],
             \/ closing[r].at \notin {"review", "add"} /\ closing'[r].at \notin {"review", "add"}
             \/ /\ closing[r].at \in {"review", "add"} /\ closing'[r].at \in {"review", "add"}
                /\ closing'[r].on = closing[r].on
      PROVE  RecordInv'
  <2>1. \A q \in Hands :
           \/ /\ closing[q].at \notin {"review", "add"}
              /\ closing'[q].at \notin {"review", "add"}
           \/ /\ closing[q].at \in {"review", "add"} /\ closing'[q].at \in {"review", "add"}
              /\ closing'[q].on = closing[q].on
    BY <1>2
  <2>2. \A m \in Markets : (\A q \in Hands : closing'[q].at \in {"review", "add"} => closing'[q].on # m)
           <=> (\A q \in Hands : closing[q].at \in {"review", "add"} => closing[q].on # m)
    BY <2>1
  <2>3. QED  BY <1>1, <1>2, <2>2
<1>3. ASSUME NEW r \in Hands, NEW m \in Markets, Ladder!Ask(r, m) PROVE RecordInv'
  <2>1. /\ UNCHANGED <<market, upheld, bypassed, undone, missed, record>>
        /\ closing[r].at = "rest" /\ closing'[r].at = "count"
        /\ \A q \in Hands \ {r} : closing'[q] = closing[q]
    BY <1>3, LadderAsks
  <2>2. QED  BY <1>2, <2>1
<1>4. ASSUME NEW r \in Hands, NEW m \in Markets,
             \/ \E disputed \in BOOLEAN : Ladder!Resolve(r, m, disputed)
             \/ Ladder!VoidAtDeadline(r, m)
      PROVE  RecordInv'
  <2>1. /\ UNCHANGED <<bypassed, undone, missed, record>>
        /\ closing[r].at = "rest" /\ closing'[r].at = "review" /\ closing'[r].on = m
        /\ \A q \in Hands \ {r} : closing'[q] = closing[q]
        /\ market[m] \in {"funding", "active", "dispute_window"} /\ IsClosed(m)'
        /\ \A k \in Markets \ {m} : market'[k] = market[k]
        /\ upheld' = upheld \/ upheld' = upheld \cup {m}
    BY <1>4, LadderCloses
  <2>2. ~InBook(m)
    BY <2>1 DEF InBook, IsClosed
  <2>3. ~InBook(m)'
    BY <2>1 DEF InBook
  <2>4. ASSUME NEW k \in Markets, k # m PROVE InBook(k)' <=> InBook(k)
    <3>1. market'[k] = market[k] /\ missed' = missed /\ bypassed' = bypassed
      BY <2>1, <2>4
    <3>2. \A q \in Hands : (closing'[q].at \in {"review", "add"} /\ closing'[q].on = k)
                           <=> (closing[q].at \in {"review", "add"} /\ closing[q].on = k)
      BY <2>1, <2>4
    <3>3. QED  BY <3>1, <3>2 DEF InBook, IsClosed
  <2>5. \A k \in Markets : InBook(k)' <=> InBook(k)
    BY <2>2, <2>3, <2>4
  <2>6. \A k \in Markets : InBook(k) => market'[k] = market[k] /\ (k \in upheld' <=> k \in upheld)
    BY <2>1, <2>2
  <2>7. QED  BY <2>1, <2>5, <2>6, BookKept
<1>5. ASSUME NEW r \in Hands, Ladder!CountLive(r) PROVE RecordInv'
  <2>1. /\ UNCHANGED <<market, upheld, bypassed, undone, missed, record>>
        /\ closing[r].at = "count" /\ closing'[r].at \in {"rest", "open"}
        /\ \A q \in Hands \ {r} : closing'[q] = closing[q]
    BY <1>5, LadderCounts
  <2>2. QED  BY <1>2, <2>1
<1>6. ASSUME NEW r \in Hands, NEW path0 \in {"organic", "seeded"}, Ladder!Open(r, path0)
      PROVE  RecordInv'
  <2>1. /\ UNCHANGED <<upheld, bypassed, undone, missed, record>>
        /\ closing[r].at = "open" /\ closing'[r].at = "rest"
        /\ \A q \in Hands \ {r} : closing'[q] = closing[q]
    BY <1>6, LadderOpens
  <2>2. PICK m \in Markets : /\ market[m] = "none"
                             /\ market'[m] \in {"draft", "funding"}
                             /\ \A k \in Markets \ {m} : market'[k] = market[k]
    BY <1>6, LadderOpens
  <2>3. \A k \in Markets : (\A q \in Hands : closing'[q].at \in {"review", "add"} => closing'[q].on # k)
           <=> (\A q \in Hands : closing[q].at \in {"review", "add"} => closing[q].on # k)
    BY <2>1
  <2>4. \A k \in Markets : InBook(k)' <=> InBook(k)
    BY <2>1, <2>2, <2>3 DEF InBook, IsClosed
  <2>5. \A k \in Markets : InBook(k) => market'[k] = market[k] /\ (k \in upheld' <=> k \in upheld)
    BY <2>1, <2>2 DEF InBook, IsClosed
  <2>6. QED  BY <2>1, <2>4, <2>5, BookKept
<1>7. ASSUME NEW r \in Hands, Ladder!Review(r) PROVE RecordInv'
  <2>1. /\ UNCHANGED <<market, upheld, bypassed, undone, missed, record>>
        /\ closing[r].at = "review"
        /\ ~undone => closing'[r].at = "add" /\ closing'[r].on = closing[r].on
        /\ \A q \in Hands \ {r} : closing'[q] = closing[q]
    BY <1>7, LadderReviews
  <2>2. CASE undone
    BY <2>1, <2>2 DEF RecordInv
  <2>3. QED  BY <1>2, <2>1, <2>2
<1>8. ASSUME NEW r \in Hands, Ladder!ReadLevel(r) \/ Ladder!ReadRecord(r) PROVE RecordInv'
  <2>1. /\ UNCHANGED <<market, upheld, bypassed, undone, missed, record>>
        /\ closing[r].at = "recompute" /\ closing'[r].at = "recompute"
        /\ \A q \in Hands \ {r} : closing'[q] = closing[q]
    BY <1>8, LadderReads
  <2>2. QED  BY <1>2, <2>1
<1>9. ASSUME NEW r \in Hands, Ladder!Adjust(r) \/ Ladder!Crash(r) PROVE RecordInv'
  <2>1. /\ UNCHANGED <<market, upheld, bypassed, undone, record>>
        /\ closing[r].at \in {"review", "add", "recompute"}
        /\ closing'[r].at = "rest"
        /\ \A q \in Hands \ {r} : closing'[q] = closing[q]
        /\ missed' = IF closing[r].at = "recompute" THEN missed
                     ELSE missed \cup {closing[r].on}
    BY <1>9, LadderEnds
  <2>2. CASE closing[r].at = "recompute"
    BY <1>2, <2>1, <2>2
  <2>3. CASE closing[r].at \in {"review", "add"}
    <3>1. PICK m : m = closing[r].on
      OBVIOUS
    <3>2. ~InBook(m) /\ ~InBook(m)'
      BY <2>1, <2>3, <3>1 DEF InBook
    <3>3. ASSUME NEW k \in Markets, k # m PROVE InBook(k)' <=> InBook(k)
      <4>1. \A q \in Hands : (closing'[q].at \in {"review", "add"} /\ closing'[q].on = k)
                             <=> (closing[q].at \in {"review", "add"} /\ closing[q].on = k)
        BY <2>1, <2>3, <3>1, <3>3
      <4>2. k \in missed' <=> k \in missed
        BY <2>1, <2>3, <3>1, <3>3
      <4>3. QED  BY <2>1, <4>1, <4>2 DEF InBook, IsClosed
    <3>4. \A k \in Markets : InBook(k)' <=> InBook(k)
      BY <3>2, <3>3
    <3>5. QED  BY <2>1, <3>4, BookKept
  <2>4. QED  BY <2>1, <2>2, <2>3
<1>10. ASSUME NEW m \in Markets, MarketMoves(m) PROVE RecordInv'
  <2>1. /\ UNCHANGED <<upheld, closing, missed, record>>
        /\ undone => undone'
        /\ \A k \in Markets \ {m} : market'[k] = market[k]
        /\ \/ market'[m] = market[m] /\ bypassed' = bypassed
           \/ /\ undone' \/ ~IsClosed(m)
              /\ \/ ~IsClosed(m)' /\ bypassed' = bypassed
                 \/ market'[m] = "voided" /\ bypassed' = bypassed \cup {m}
    BY <1>10, LadderActivates
  <2>2. ASSUME ~undone', NEW k \in Markets
        PROVE  /\ InBook(k)' <=> InBook(k)
               /\ InBook(k) => market'[k] = market[k] /\ (k \in upheld' <=> k \in upheld)
    <3>1. CASE k # m
      <4>1. market'[k] = market[k] /\ (k \in bypassed' <=> k \in bypassed)
        BY <2>1, <3>1
      <4>2. QED  BY <2>1, <4>1 DEF InBook, IsClosed
    <3>2. CASE k = m /\ market'[m] = market[m] /\ bypassed' = bypassed
      BY <2>1, <3>2 DEF InBook, IsClosed
    <3>3. CASE k = m /\ ~IsClosed(m) /\ (~IsClosed(m)' \/ m \in bypassed')
      BY <3>3 DEF InBook
    <3>4. QED  BY <2>1, <2>2, <3>1, <3>2, <3>3
  <2>3. QED  BY <2>1, <2>2, BookKept
<1>11. CASE UNCHANGED Ladder!vars
  BY <1>1, <1>11 DEF Ladder!vars, Ladder!settling
<1>12. QED
  BY <1>3, <1>4, <1>5, <1>6, <1>7, <1>8, <1>9, <1>10, <1>11, BookGrows
     DEF Ladder!Next, MarketMoves

\* A recomputation that has read what its turn is decided on.
Started(w) == w.at = "recompute" /\ (w.level # 0 \/ w.record # Ladder!Unread)

\* Unless two recomputations met, one of them has begun, it knows the level, and
\* it knows the record or another is to come.
LevelInv == Demotion /\ ~overlap =>
    /\ (\A r \in Hands : closing[r].at # "recompute") => level = Ladder!EarnedLevel(record)
    /\ \A q, r \in Hands : Started(closing[q]) /\ Started(closing[r]) => q = r
    /\ \A r \in Hands : closing[r].at = "recompute" =>
          /\ closing[r].level # 0 => closing[r].level = level
          /\ closing[r].record # Ladder!Unread =>
                \/ closing[r].record = record
                \/ \E q \in Hands \ {r} : closing[q].at = "recompute"

LEMMA LevelStarts == Ladder!Init => LevelInv
<1> SUFFICES ASSUME Ladder!Init PROVE LevelInv
  OBVIOUS
<1>1. \A r \in Hands : closing[r].at = "rest"
  BY RestRow DEF Ladder!Init
<1>2. level = 1 /\ record.clean = 0 /\ record.disputed = 0 /\ record.voided = 0
  BY DEF Ladder!Init, Ladder!NoRecord
<1>3. Ladder!EarnedLevel(record) = 1
  BY <1>2, LadderAssumption DEF Ladder!EarnedLevel, Ladder!Settled
<1>4. QED  BY <1>1, <1>2, <1>3 DEF LevelInv, Started

LEMMA LevelKept ==
    ASSUME LevelInv, UNCHANGED <<level, record>>, overlap => overlap',
           \A q \in Hands : \/ closing'[q] = closing[q]
                            \/ closing[q].at # "recompute" /\ closing'[q].at # "recompute"
    PROVE  LevelInv'
BY DEF LevelInv, Started, Ladder!EarnedLevel, Ladder!Settled, Ladder!Unread, Ladder!NoRecord

LEMMA LevelKeeps == DeskOfLadder /\ LevelInv /\ [Ladder!Next]_(Ladder!vars) => LevelInv'
<1> SUFFICES ASSUME DeskOfLadder, LevelInv, [Ladder!Next]_(Ladder!vars) PROVE LevelInv'
  OBVIOUS
<1> DEFINE unread == Ladder!Unread
<1>1. unread' = unread
  BY DEF Ladder!Unread, Ladder!NoRecord
<1>2. ASSUME NEW r \in Hands, NEW m \in Markets,
             \/ Ladder!Ask(r, m)
             \/ \E disputed \in BOOLEAN : Ladder!Resolve(r, m, disputed)
             \/ Ladder!VoidAtDeadline(r, m)
      PROVE  LevelInv'
  <2>1. /\ UNCHANGED <<level, record, overlap>>
        /\ closing[r].at = "rest" /\ closing'[r].at \in {"count", "review"}
        /\ \A q \in Hands \ {r} : closing'[q] = closing[q]
    BY <1>2, LadderAsks, LadderCloses
  <2>2. QED  BY <2>1, LevelKept
<1>3. ASSUME NEW r \in Hands, Ladder!CountLive(r) PROVE LevelInv'
  <2>1. /\ UNCHANGED <<level, record>>
        /\ closing[r].at = "count" /\ closing'[r].at \in {"rest", "open"}
        /\ \A q \in Hands \ {r} : closing'[q] = closing[q]
    BY <1>3, LadderCounts
  <2>2. overlap => overlap'
    BY <1>3, LadderCounts
  <2>3. QED  BY <2>1, <2>2, LevelKept
<1>4. ASSUME NEW r \in Hands, NEW path0 \in {"organic", "seeded"}, Ladder!Open(r, path0)
      PROVE  LevelInv'
  <2>1. /\ UNCHANGED <<level, record, overlap>>
        /\ closing[r].at = "open" /\ closing'[r].at = "rest"
        /\ \A q \in Hands \ {r} : closing'[q] = closing[q]
    BY <1>4, LadderOpens
  <2>2. QED  BY <2>1, LevelKept
<1>5. ASSUME NEW r \in Hands, Ladder!Review(r) PROVE LevelInv'
  <2>1. /\ UNCHANGED <<level, record, overlap>>
        /\ closing[r].at = "review" /\ closing'[r].at \in {"add", "rest"}
        /\ \A q \in Hands \ {r} : closing'[q] = closing[q]
    BY <1>5, LadderReviews
  <2>2. QED  BY <2>1, LevelKept
<1>6. ASSUME NEW r \in Hands, Ladder!AddToRecord(r), Demotion, ~overlap' PROVE LevelInv'
  <2>1. /\ UNCHANGED <<level, overlap>>
        /\ closing'[r].at = "recompute"
        /\ closing'[r].level = 0 /\ closing'[r].record = unread
        /\ \A q \in Hands \ {r} : closing'[q] = closing[q]
    BY <1>6, LadderAdds
  <2>2. /\ \A q, p \in Hands : Started(closing[q]) /\ Started(closing[p]) => q = p
        /\ \A q \in Hands : closing[q].at = "recompute" /\ closing[q].level # 0
                            => closing[q].level = level
    BY <1>6, <2>1 DEF LevelInv
  <2>3. ~Started(closing'[r])
    BY <2>1 DEF Started
  <2>4. \A q, p \in Hands : Started(closing'[q]) /\ Started(closing'[p]) => q = p
    BY <2>1, <2>2, <2>3
  <2>5. \A q \in Hands : closing'[q].at = "recompute" =>
           /\ closing'[q].level # 0 => closing'[q].level = level'
           /\ closing'[q].record # unread =>
                 \E p \in Hands \ {q} : closing'[p].at = "recompute"
    BY <2>1, <2>2
  <2>6. QED  BY <1>1, <2>1, <2>4, <2>5 DEF LevelInv, Started
<1>7. ASSUME NEW r \in Hands, Ladder!ReadLevel(r) \/ Ladder!ReadRecord(r),
             Demotion, ~overlap'
      PROVE  LevelInv'
  <2>1. /\ UNCHANGED <<level, record>>
        /\ closing[r].at = "recompute" /\ closing'[r].at = "recompute"
        /\ closing'[r].level \in {closing[r].level, level}
        /\ closing'[r].record \in {closing[r].record, record}
        /\ \A q \in Hands \ {r} : closing'[q] = closing[q]
    BY <1>7, LadderReads
  <2>2. ~overlap /\ \A q \in Hands \ {r} : closing[q].at # "recompute"
    BY <1>7, LadderReads
  <2>3. /\ closing[r].level # 0 => closing[r].level = level
        /\ closing[r].record # unread => closing[r].record = record
    BY <1>7, <2>1, <2>2 DEF LevelInv
  <2>4. /\ closing'[r].level # 0 => closing'[r].level = level
        /\ closing'[r].record # unread => closing'[r].record = record
    BY <2>1, <2>3
  <2>5. \A q \in Hands \ {r} : closing'[q].at # "recompute"
    BY <2>1, <2>2
  <2>6. QED  BY <1>1, <2>1, <2>4, <2>5 DEF LevelInv, Started
<1>8. ASSUME NEW r \in Hands, Ladder!Crash(r), Demotion, ~overlap' PROVE LevelInv'
  <2>1. /\ closing[r].at # "recompute" /\ ~overlap
        /\ UNCHANGED <<level, record>>
    BY <1>8 DEF Ladder!Crash
  <2>2. /\ closing'[r].at = "rest"
        /\ \A q \in Hands \ {r} : closing'[q] = closing[q]
    BY <1>8, LadderEnds
  <2>3. QED  BY <2>1, <2>2, LevelKept
<1>9. ASSUME NEW r \in Hands, Ladder!Adjust(r), Demotion, ~overlap' PROVE LevelInv'
  <2>1. PICK w : w = closing[r]
    OBVIOUS
  <2>2. /\ w.at = "recompute" /\ w.level # 0 /\ w.record # unread
        /\ level' = IF Ladder!NextLevel(w.level, w.record) = w.level THEN level
                    ELSE Ladder!NextLevel(w.level, w.record)
        /\ record' = record /\ ~overlap
    BY <1>9, <2>1 DEF Ladder!Adjust
  <2>3. /\ closing'[r].at = "rest"
        /\ \A q \in Hands \ {r} : closing'[q] = closing[q]
    BY <1>9, LadderEnds
  <2>4. /\ w.level = level
        /\ w.record = record \/ \E q \in Hands \ {r} : closing[q].at = "recompute"
        /\ \A q \in Hands \ {r} : ~Started(closing[q])
    BY <1>9, <2>1, <2>2 DEF LevelInv, Started
  <2>5. level' = Ladder!EarnedLevel(w.record)
    BY <1>9, <2>2, <2>4 DEF Ladder!NextLevel
  <2>6. (\A q \in Hands : closing'[q].at # "recompute") => level' = Ladder!EarnedLevel(record')
    BY <2>2, <2>3, <2>4, <2>5
  <2>7. \A q \in Hands : ~Started(closing'[q])
    BY <2>3, <2>4 DEF Started
  <2>8. (\A q \in Hands : closing'[q].at # "recompute") => level' = Ladder!EarnedLevel(record)'
    BY <2>6 DEF Ladder!EarnedLevel, Ladder!Settled
  <2>9. QED  BY <1>1, <2>7, <2>8 DEF LevelInv, Started
<1>10. ASSUME NEW m \in Markets, MarketMoves(m) PROVE LevelInv'
  BY <1>10, LadderActivates, LevelKept
<1>11. CASE UNCHANGED Ladder!vars
  BY <1>11, LevelKept DEF Ladder!vars
<1>12. CASE ~Demotion \/ overlap'
  BY <1>12 DEF LevelInv
<1>13. QED
  BY <1>2, <1>3, <1>4, <1>5, <1>6, <1>7, <1>8, <1>9, <1>10, <1>11, <1>12
     DEF Ladder!Next, MarketMoves

\* Unless two openings met, whoever was let past the count finds room.
Stages == {"draft", "seeding", "funding", "active"}

CapInv == ~overlap =>
    /\ Cardinality(Ladder!Trading) <= MaxLive[3]
    /\ \A q, r \in Hands : closing[q].at = "open" /\ closing[r].at = "open" => q = r
    /\ \A r \in Hands : closing[r].at = "open" => Cardinality(Ladder!Trading) < MaxLive[3]

LEMMA LiveIsFinite ==
    /\ IsFiniteSet(Ladder!Trading) /\ Cardinality(Ladder!Trading) \in Nat
    /\ MaxLive[3] \in Nat
BY LadderAssumption, FS_Subset, FS_CardinalityType DEF Ladder!Trading

LEMMA CapStarts == Ladder!Init => CapInv
<1> SUFFICES ASSUME Ladder!Init PROVE CapInv
  OBVIOUS
<1>1. Ladder!Trading = {} /\ \A r \in Hands : closing[r].at = "rest"
  BY RestRow DEF Ladder!Init, Ladder!Trading
<1>2. QED  BY <1>1, LiveIsFinite, FS_EmptySet DEF CapInv

\* A step that opens nothing and lets nobody past the count.
LEMMA CapKept ==
    ASSUME CapInv, overlap => overlap',
           \A k \in Markets : market'[k] \in Stages => market[k] \in Stages,
           \A q \in Hands : closing'[q].at = "open" => closing[q].at = "open"
    PROVE  CapInv'
<1>1. PICK live : live = Ladder!Trading
  OBVIOUS
<1>2. PICK live2 : live2 = {m \in Markets : market'[m] \in Stages}
  OBVIOUS
<1>3. live2 \subseteq live
  BY <1>1, <1>2 DEF Ladder!Trading, Stages
<1>4. /\ Cardinality(live2) <= Cardinality(live)
      /\ Cardinality(live) \in Nat /\ Cardinality(live2) \in Nat /\ MaxLive[3] \in Nat
  BY <1>1, <1>3, LiveIsFinite, FS_Subset, FS_CardinalityType
<1>5. Ladder!Trading' = live2
  BY <1>2 DEF Ladder!Trading, Stages
<1>6. ASSUME ~overlap' PROVE CapInv'
  <2>1. /\ Cardinality(live) <= MaxLive[3]
        /\ \A q, r \in Hands : closing[q].at = "open" /\ closing[r].at = "open" => q = r
        /\ \A r \in Hands : closing[r].at = "open" => Cardinality(live) < MaxLive[3]
    BY <1>1, <1>6 DEF CapInv
  <2>2. /\ Cardinality(live2) <= MaxLive[3]
        /\ \A r \in Hands : closing'[r].at = "open" => Cardinality(live2) < MaxLive[3]
    BY <1>4, <2>1
  <2>3. QED  BY <1>5, <2>1, <2>2 DEF CapInv
<1>7. QED  BY <1>6 DEF CapInv

LEMMA CapKeeps == DeskOfLadder /\ CapInv /\ [Ladder!Next]_(Ladder!vars) => CapInv'
<1> SUFFICES ASSUME DeskOfLadder, CapInv, [Ladder!Next]_(Ladder!vars) PROVE CapInv'
  OBVIOUS
<1>1. ASSUME NEW r \in Hands, NEW m \in Markets, Ladder!Ask(r, m) PROVE CapInv'
  <2>1. /\ UNCHANGED <<market, overlap>>
        /\ closing'[r].at = "count"
        /\ \A q \in Hands \ {r} : closing'[q] = closing[q]
    BY <1>1, LadderAsks
  <2>2. QED  BY <2>1, CapKept
<1>2. ASSUME NEW r \in Hands, NEW m \in Markets,
             \/ \E disputed \in BOOLEAN : Ladder!Resolve(r, m, disputed)
             \/ Ladder!VoidAtDeadline(r, m)
      PROVE  CapInv'
  <2>1. /\ overlap' = overlap /\ closing'[r].at = "review"
        /\ \A q \in Hands \ {r} : closing'[q] = closing[q]
        /\ IsClosed(m)'
        /\ \A k \in Markets \ {m} : market'[k] = market[k]
    BY <1>2, LadderCloses
  <2>2. \A k \in Markets : market'[k] \in Stages => market[k] \in Stages
    BY <2>1 DEF IsClosed, Stages
  <2>3. QED  BY <2>1, <2>2, CapKept
<1>3. ASSUME NEW r \in Hands, Ladder!CountLive(r), ~overlap' PROVE CapInv'
  <2>1. /\ market' = market
        /\ closing'[r].at = "open" => Cardinality(Ladder!Trading) < MaxLive[3]
        /\ \A q \in Hands \ {r} : closing'[q] = closing[q]
    BY <1>3, LadderCounts
  <2>2. ~overlap /\ \A q \in Hands \ {r} : closing[q].at # "open"
    BY <1>3, LadderCounts
  <2>3. Ladder!Trading' = Ladder!Trading
    BY <2>1 DEF Ladder!Trading
  <2>4. Cardinality(Ladder!Trading) <= MaxLive[3]
    BY <2>2 DEF CapInv
  <2>5. \A q \in Hands \ {r} : closing'[q].at # "open"
    BY <2>1, <2>2
  <2>6. QED  BY <2>1, <2>3, <2>4, <2>5 DEF CapInv
<1>4. ASSUME NEW r \in Hands, NEW path0 \in {"organic", "seeded"}, Ladder!Open(r, path0),
             ~overlap'
      PROVE  CapInv'
  <2>1. /\ overlap' = overlap
        /\ closing[r].at = "open" /\ closing'[r].at = "rest"
        /\ \A q \in Hands \ {r} : closing'[q] = closing[q]
    BY <1>4, LadderOpens
  <2>2. PICK m \in Markets : /\ market[m] = "none"
                             /\ market'[m] \in {"draft", "funding"}
                             /\ \A k \in Markets \ {m} : market'[k] = market[k]
    BY <1>4, LadderOpens
  <2>3. PICK live : live = Ladder!Trading
    OBVIOUS
  <2>4. Ladder!Trading' = live \cup {m} /\ m \notin live
    BY <2>2, <2>3 DEF Ladder!Trading
  <2>5. Cardinality(live \cup {m}) = Cardinality(live) + 1 /\ Cardinality(live) \in Nat
    BY <2>3, <2>4, LiveIsFinite, FS_AddElement
  <2>6. /\ Cardinality(live) < MaxLive[3]
        /\ \A q \in Hands \ {r} : closing[q].at # "open"
    BY <1>4, <2>1, <2>3 DEF CapInv
  <2>7. Cardinality(live \cup {m}) <= MaxLive[3]
    BY <2>5, <2>6, LiveIsFinite
  <2>8. \A q \in Hands : closing'[q].at # "open"
    BY <2>1, <2>6
  <2>9. QED  BY <2>4, <2>7, <2>8 DEF CapInv
<1>5. ASSUME NEW r \in Hands,
             \/ Ladder!Review(r) \/ Ladder!AddToRecord(r)
             \/ Ladder!ReadLevel(r) \/ Ladder!ReadRecord(r)
             \/ Ladder!Adjust(r) \/ Ladder!Crash(r)
      PROVE  CapInv'
  <2>1. /\ market' = market /\ closing'[r].at \in {"add", "recompute", "rest"}
        /\ \A q \in Hands \ {r} : closing'[q] = closing[q]
    BY <1>5, LadderReviews, LadderAdds, LadderReads, LadderEnds
  <2>2. overlap => overlap'
    BY <1>5 DEF Ladder!Review, Ladder!AddToRecord, Ladder!ReadLevel, Ladder!ReadRecord,
                Ladder!Adjust, Ladder!Crash, Ladder!Overlapping
  <2>3. QED  BY <2>1, <2>2, CapKept
<1>6. ASSUME NEW m \in Markets, MarketMoves(m) PROVE CapInv'
  <2>1. /\ UNCHANGED <<closing, overlap>>
        /\ \A k \in Markets \ {m} : market'[k] = market[k]
        /\ market'[m] \in {"seeding", "active"} => market[m] \in Stages
        /\ market'[m] \notin {"draft", "funding"}
    BY <1>6, LadderActivates DEF Stages
  <2>2. \A k \in Markets : market'[k] \in Stages => market[k] \in Stages
    BY <2>1 DEF Stages
  <2>3. QED  BY <2>1, <2>2, CapKept
<1>7. CASE UNCHANGED Ladder!vars
  BY <1>7, CapKept DEF Ladder!vars, Ladder!settling
<1>8. CASE overlap'
  BY <1>8 DEF CapInv
<1>9. QED
  BY <1>1, <1>2, <1>3, <1>4, <1>5, <1>6, <1>7, <1>8
     DEF Ladder!Next, MarketMoves

LEMMA LadderStep == [Next]_vars => [Ladder!Next]_(Ladder!vars)
BY DEF Next, vars, ladder, Ladder!vars, Ladder!settling

LEMMA DeskKeeps == DeskOfLadder /\ [Ladder!Next]_(Ladder!vars) => DeskOfLadder'
<1> SUFFICES ASSUME DeskOfLadder, [Ladder!Next]_(Ladder!vars) PROVE DeskOfLadder'
  OBVIOUS
<1>1. CASE Ladder!Next
  BY <1>1, LadderAsks, LadderCloses, LadderCounts, LadderOpens, LadderReviews, LadderAdds,
     LadderReads, LadderEnds, LadderActivates DEF Ladder!Next, MarketMoves
<1>2. CASE UNCHANGED Ladder!vars
  BY <1>2 DEF Ladder!vars, Ladder!settling, DeskOfLadder, LadderType, OnTheWay, RowHolds,
              OnePerMarket, CloseHolds, IsClosed, Ladder!KindOf, Ladder!Unread, Ladder!NoRecord
<1>3. QED  BY <1>1, <1>2

\* The record counts every close that a review follows once and as what it was,
\* but for those whose process died first and until a late sweep or round writes
\* over a closed market; with no recomputation under way the level is the one the
\* record earns, unless two met or one never ran; and nobody has more markets on
\* this side of their freeze than the best level allows, unless two openings were
\* past the count at once (AutopsyService.record, CreatorService.recomputeLevel,
\* CommunityService.create).
THEOREM TheLadderHolds == Spec => []LadderHolds
<1>1. Init => DeskOfLadder /\ RecordInv /\ LevelInv /\ CapInv
  BY LadderStarts, BookStarts, LevelStarts, CapStarts DEF Init
<1>2. DeskOfLadder /\ RecordInv /\ LevelInv /\ CapInv /\ [Next]_vars
      => (DeskOfLadder /\ RecordInv /\ LevelInv /\ CapInv)'
  BY LadderStep, DeskKeeps, BookKeeps, LevelKeeps, CapKeeps
<1>3. DeskOfLadder /\ RecordInv /\ LevelInv /\ CapInv => LadderHolds
  <2> SUFFICES ASSUME RecordInv, LevelInv, CapInv PROVE LadderHolds
    OBVIOUS
  <2>1. \A S : Ladder!Cardinality(S) = Cardinality(S)
    BY DEF Ladder!Cardinality, Cardinality
  <2>2. Ladder!RecordCountsCloses
    BY <2>1, BookIsCounted DEF RecordInv, Tally, Ladder!RecordCountsCloses
  <2>3. Ladder!LevelFollowsRecord
    BY DEF LevelInv, Ladder!LevelFollowsRecord
  <2>4. Ladder!TradingWithinCap
    BY <2>1, LiveIsFinite DEF CapInv, Ladder!TradingWithinCap
  <2>5. QED  BY <2>2, <2>3, <2>4 DEF LadderHolds, Ladder!LadderHolds
<1>4. QED  BY <1>1, <1>2, <1>3, PTL DEF Spec

-----------------------------------------------------------------------------
(* Nudges.                                                                 *)

\* A sweep that is under way.
Busy(s) == nudge[s].at # "idle"

\* Something was said in the throttle's hours.
Heard == \E n \in log : n.hour \in hour - MinHours .. hour

NudgeType ==
    /\ nudge = [s \in Hands |-> [at |-> nudge[s].at, kind |-> nudge[s].kind]]
    /\ \A s \in Hands :
          /\ nudge[s].at \in {"idle", "throttle", "send"}
          /\ nudge[s].at = "idle" => nudge[s] = Prompt!Idle
    /\ hour \in Nat
    /\ \A n \in log : n.hour \in Nat /\ n.hour <= hour

\* Until two of them have met, one sweep is under way, and what it found quiet
\* is quiet when it sends.
SweepsAlone == ~overlapped =>
    /\ \A s, t \in Hands : Busy(s) /\ Busy(t) => s = t
    /\ \A s \in Hands : nudge[s].at = "send" => Prompt!Quiet(s)

\* What this hour's sweep found is said, was said, or is in a sweep's hands.
HeardOrUnderWay ==
    swept /\ warranted /\ ~muted => Heard \/ \E s \in Hands : Busy(s)

NudgeInv == NudgeType /\ SweepsAlone /\ HeardOrUnderWay /\ Prompt!Spaced

LEMMA PromptStarts == Prompt!Init => NudgeInv
<1> SUFFICES ASSUME Prompt!Init PROVE NudgeInv
  OBVIOUS
<1>1. /\ nudge = [s \in Hands |-> [at |-> "idle", kind |-> "none"]]
      /\ hour = 0 /\ log = {} /\ swept = FALSE
  BY DEF Prompt!Init, Prompt!Idle
<1>2. NudgeType
  BY <1>1 DEF NudgeType, Prompt!Idle
<1>3. SweepsAlone
  BY <1>1 DEF SweepsAlone, Busy
<1>4. Prompt!Spaced
  BY <1>1 DEF Prompt!Spaced
<1>5. HeardOrUnderWay
  BY <1>1 DEF HeardOrUnderWay
<1>6. QED  BY <1>2, <1>3, <1>4, <1>5 DEF NudgeInv

\* The sweeps, their log and the clock as they are.
LEMMA PromptUntouched ==
    ASSUME NudgeInv, UNCHANGED <<nudge, log, hour, swept, overlapped, warranted>>,
           muted => muted'
    PROVE  NudgeInv'
<1>1. NudgeType' /\ SweepsAlone' /\ Prompt!Spaced'
  BY DEF NudgeInv, NudgeType, SweepsAlone, Busy, Prompt!Quiet, Prompt!Spaced
<1>2. (Heard' <=> Heard) /\ \A s \in Hands : Busy(s)' <=> Busy(s)
  BY DEF Heard, Busy
<1>3. HeardOrUnderWay'
  BY <1>2 DEF NudgeInv, HeardOrUnderWay
<1>4. QED  BY <1>1, <1>3 DEF NudgeInv

LEMMA PromptConsiders ==
    ASSUME NudgeInv, NEW s \in Hands, Prompt!Consider(s)
    PROVE  NudgeInv'
<1>1. PICK row : row = IF Prompt!Actionable /\ Prompt!Found # <<>>
                       THEN [at |-> "throttle", kind |-> Prompt!Top.kind] ELSE Prompt!Idle
  OBVIOUS
<1>2. /\ nudge[s] = Prompt!Idle
      /\ ~swept
      /\ swept' = TRUE
      /\ nudge' = [nudge EXCEPT ![s] = row]
      /\ overlapped' = (overlapped \/ \E q \in Hands : nudge[q] # Prompt!Idle)
      /\ warranted' = (Prompt!Actionable /\ Prompt!Found # <<>>)
      /\ UNCHANGED <<muted, hour, log>>
  BY <1>1 DEF Prompt!Consider
<1>3. /\ row = [at |-> row.at, kind |-> row.kind]
      /\ row.at \in {"idle", "throttle"}
      /\ row.at = "idle" => row = Prompt!Idle
  BY <1>1 DEF Prompt!Idle
<1>4. /\ nudge'[s] = row
      /\ \A t \in Hands \ {s} : nudge'[t] = nudge[t]
      /\ nudge' = [t \in Hands |-> nudge'[t]]
  BY <1>2 DEF NudgeInv, NudgeType
<1>5. NudgeType'
  BY <1>2, <1>3, <1>4 DEF NudgeInv, NudgeType
<1>6. ASSUME ~overlapped'
      PROVE  ~overlapped /\ \A t \in Hands : ~Busy(t)
  <2>1. ~overlapped /\ \A q \in Hands : nudge[q] = Prompt!Idle
    BY <1>2, <1>6
  <2>2. \A q \in Hands : nudge[q].at = "idle"
    BY <2>1 DEF Prompt!Idle
  <2>3. QED  BY <2>1, <2>2 DEF Busy
<1>7. SweepsAlone'
  <2>1. SUFFICES ASSUME ~overlapped'
                 PROVE  /\ \A t, q \in Hands : Busy(t)' /\ Busy(q)' => t = q
                        /\ \A t \in Hands : nudge'[t].at # "send"
    BY DEF SweepsAlone
  <2>2. \A t \in Hands : ~Busy(t)
    BY <1>6, <2>1
  <2>3. \A t \in Hands \ {s} : nudge'[t].at = "idle"
    BY <1>4, <2>2 DEF Busy
  <2>4. QED  BY <1>3, <1>4, <2>3 DEF Busy
<1>8. Prompt!Spaced'
  BY <1>2 DEF NudgeInv, Prompt!Spaced
<1>9. warranted' => Busy(s)'
  BY <1>1, <1>2, <1>4 DEF Busy
<1>10. HeardOrUnderWay'
  BY <1>9 DEF HeardOrUnderWay
<1>11. QED  BY <1>5, <1>7, <1>8, <1>10 DEF NudgeInv

\* A sweep that goes on: it asks the log, or sends.
LEMMA PromptGoesOn ==
    ASSUME NudgeInv, NEW s \in Hands, NEW row,
           Busy(s), nudge' = [nudge EXCEPT ![s] = row],
           UNCHANGED <<muted, hour, swept, overlapped, warranted>>,
           row = [at |-> row.at, kind |-> row.kind],
           row.at \in {"idle", "send"},
           row.at = "idle" => row = Prompt!Idle,
           row.at = "send" => Prompt!Quiet(s) /\ log' = log,
           log \subseteq log',
           \A n \in log' \ log : n.hour = hour /\ (overlapped \/ Prompt!Quiet(s)),
           \A n, m \in log' \ log : n = m,
           row.at = "idle" /\ ~muted => Heard'
    PROVE  NudgeInv'
<1>1. /\ nudge'[s] = row
      /\ \A t \in Hands \ {s} : nudge'[t] = nudge[t]
      /\ nudge' = [t \in Hands |-> nudge'[t]]
  BY DEF NudgeInv, NudgeType
<1>2. NudgeType'
  <2>1. hour \in Nat /\ \A n \in log' : n.hour \in Nat /\ n.hour <= hour
    BY DEF NudgeInv, NudgeType
  <2>2. QED  BY <1>1, <2>1 DEF NudgeInv, NudgeType
<1>3. SweepsAlone'
  <2>1. SUFFICES ASSUME ~overlapped
                 PROVE  /\ \A t, q \in Hands : Busy(t)' /\ Busy(q)' => t = q
                        /\ \A t \in Hands : nudge'[t].at = "send" => Prompt!Quiet(t)'
    BY DEF SweepsAlone
  <2>2. \A t \in Hands : Busy(t)' => Busy(t)
    BY <1>1 DEF Busy
  <2>3. \A t \in Hands : Busy(t) => t = s
    BY <2>1 DEF NudgeInv, SweepsAlone
  <2>4. nudge'[s].at = "send" => Prompt!Quiet(s)'
    BY <1>1 DEF Prompt!Quiet
  <2>5. QED  BY <2>2, <2>3, <2>4 DEF Busy
<1>4. Prompt!Spaced'
  <2>1. SUFFICES ASSUME ~overlapped, NEW m \in log', NEW n \in log', m # n
                 PROVE  m.hour - n.hour \notin 0 .. MinHours
    BY DEF Prompt!Spaced
  <2>2. hour \in Nat /\ \A k \in log : k.hour \in Nat
    BY DEF NudgeInv, NudgeType
  <2>3. CASE m \in log /\ n \in log
    BY <2>1, <2>3 DEF NudgeInv, Prompt!Spaced
  <2>4. CASE m \in log /\ n \notin log
    BY <2>1, <2>2, <2>4, HoursAssumption DEF Prompt!Quiet
  <2>5. CASE m \notin log /\ n \in log
    BY <2>1, <2>2, <2>5, HoursAssumption DEF Prompt!Quiet
  <2>6. QED  BY <2>1, <2>3, <2>4, <2>5
<1>5. row.at = "send" => Busy(s)'
  BY <1>1 DEF Busy
<1>6. HeardOrUnderWay'
  BY <1>5 DEF HeardOrUnderWay
<1>7. QED  BY <1>2, <1>3, <1>4, <1>6 DEF NudgeInv

LEMMA PromptAsksAndSends ==
    ASSUME NudgeInv, NEW s \in Hands, Prompt!Throttle(s) \/ Prompt!Send(s)
    PROVE  NudgeInv'
<1>1. PICK p : p = nudge[s]
  OBVIOUS
<1>2. p = [at |-> p.at, kind |-> p.kind] /\ hour \in Nat
  BY <1>1 DEF NudgeInv, NudgeType
<1>3. Prompt!Idle = [at |-> "idle", kind |-> "none"]
  BY DEF Prompt!Idle
<1>4. CASE Prompt!Throttle(s)
  <2>1. PICK row : row = IF Prompt!Quiet(s) THEN [p EXCEPT !.at = "send"] ELSE Prompt!Idle
    OBVIOUS
  <2>2. /\ p.at = "throttle"
        /\ nudge' = [nudge EXCEPT ![s] = row]
        /\ UNCHANGED <<muted, hour, swept, log, overlapped, warranted>>
    BY <1>1, <1>4, <2>1 DEF Prompt!Throttle
  <2>3. CASE Prompt!Quiet(s)
    <3>1. row = [at |-> "send", kind |-> p.kind]
      BY <1>2, <2>1, <2>3
    <3>2. row = [at |-> row.at, kind |-> row.kind] /\ row.at = "send"
      BY <3>1
    <3>3. QED  BY <1>1, <2>2, <2>3, <3>2, PromptGoesOn DEF Busy
  <2>4. CASE ~Prompt!Quiet(s)
    <3>1. PICK n \in log : ~(n.hour < hour - MinHours)
      BY <2>4 DEF Prompt!Quiet
    <3>2. n.hour \in hour - MinHours .. hour
      BY <1>2, <3>1, HoursAssumption DEF NudgeInv, NudgeType
    <3>5. Heard'
      BY <2>2, <3>1, <3>2 DEF Heard
    <3>3. row = Prompt!Idle /\ row = [at |-> row.at, kind |-> row.kind] /\ row.at = "idle"
      BY <1>3, <2>1, <2>4
    <3>4. QED  BY <1>1, <2>2, <3>3, <3>5, PromptGoesOn DEF Busy
  <2>5. QED  BY <2>3, <2>4
<1>5. CASE Prompt!Send(s)
  <2>1. PICK new : new = [hour |-> hour, kind |-> p.kind]
    OBVIOUS
  <2>2. /\ p.at = "send"
        /\ log' = IF muted THEN log ELSE log \cup {new}
        /\ nudge' = [nudge EXCEPT ![s] = Prompt!Idle]
        /\ UNCHANGED <<muted, hour, swept, overlapped, warranted>>
    BY <1>1, <1>5, <2>1 DEF Prompt!Send
  <2>3. new.hour = hour /\ hour \in hour - MinHours .. hour
    BY <1>2, <2>1, HoursAssumption
  <2>4. overlapped \/ Prompt!Quiet(s)
    BY <1>1, <2>2 DEF NudgeInv, SweepsAlone
  <2>5. \A n \in log' \ log : n = new
    BY <2>2
  <2>6. ~muted => Heard'
    BY <2>2, <2>3 DEF Heard
  <2>7. PICK row : row = Prompt!Idle
    OBVIOUS
  <2>8. row = [at |-> row.at, kind |-> row.kind] /\ row.at = "idle"
    BY <1>3, <2>7
  <2>9. nudge' = [nudge EXCEPT ![s] = row] /\ log \subseteq log' /\ Busy(s)
    BY <1>1, <2>2, <2>7 DEF Busy
  <2>10. \A n \in log' \ log : n.hour = hour /\ (overlapped \/ Prompt!Quiet(s))
    BY <2>3, <2>4, <2>5
  <2>11. QED  BY <2>2, <2>5, <2>6, <2>7, <2>8, <2>9, <2>10, PromptGoesOn
<1>6. QED  BY <1>4, <1>5

LEMMA HourPasses ==
    ASSUME NudgeInv, Prompt!Hour
    PROVE  NudgeInv'
<1>1. /\ swept /\ hour' = hour + 1 /\ swept' = FALSE
      /\ UNCHANGED <<nudge, log, overlapped>>
  BY DEF Prompt!Hour
<1>2. hour \in Nat
  BY DEF NudgeInv, NudgeType
<1>3. NudgeType'
  BY <1>1 DEF NudgeInv, NudgeType
<1>4. SweepsAlone'
  <2>1. \A s \in Hands : Prompt!Quiet(s) => Prompt!Quiet(s)'
    BY <1>1, <1>2, HoursAssumption DEF NudgeInv, NudgeType, Prompt!Quiet
  <2>2. \A s \in Hands : Busy(s)' <=> Busy(s)
    BY <1>1 DEF Busy
  <2>3. QED  BY <1>1, <2>1, <2>2 DEF NudgeInv, SweepsAlone
<1>5. Prompt!Spaced'
  BY <1>1 DEF NudgeInv, Prompt!Spaced
<1>6. HeardOrUnderWay'
  BY <1>1 DEF HeardOrUnderWay
<1>7. QED  BY <1>3, <1>4, <1>5, <1>6 DEF NudgeInv

LEMMA PromptKeeps ==
    ASSUME NudgeInv, [Prompt!Next]_(Prompt!vars)
    PROVE  NudgeInv'
<1>1. ASSUME NEW s \in Hands,
             Prompt!Consider(s) \/ Prompt!Throttle(s) \/ Prompt!Send(s)
      PROVE  NudgeInv'
  BY <1>1, PromptConsiders, PromptAsksAndSends
<1>2. ASSUME NEW i \in 1 .. 2, Prompt!Stake(i) PROVE NudgeInv'
  BY <1>2, PromptUntouched DEF Prompt!Stake
<1>3. ASSUME NEW to, Prompt!Move(to) PROVE NudgeInv'
  BY <1>3, PromptUntouched DEF Prompt!Move
<1>4. CASE Prompt!View \/ Prompt!Mute \/ UNCHANGED Prompt!vars
  <2>1. /\ UNCHANGED <<nudge, log, hour, swept, overlapped, warranted>>
        /\ muted => muted'
    BY <1>4 DEF Prompt!View, Prompt!Mute, Prompt!vars
  <2>2. QED  BY <2>1, PromptUntouched
<1>5. QED
  BY <1>1, <1>2, <1>3, <1>4, HourPasses DEF Prompt!Next

LEMMA PromptStep == [Next]_vars => [Prompt!Next]_(Prompt!vars)
BY DEF Next, vars, prompt, Prompt!vars

\* Unless two sweeps ran at once, a creator hears about a market at most once in
\* the throttle's hours; and whenever the hour's sweep is over, a creator who
\* listens and whose market warranted a nudge has heard one in those hours
\* (NudgeService.nudge): a sweep has sent, or given way to a message as recent,
\* when it is over.
THEOREM CreatorsAreTold == Spec => []NudgesKeepTime
<1>1. Init => NudgeInv
  BY PromptStarts DEF Init
<1>2. NudgeInv /\ [Next]_vars => NudgeInv'
  BY PromptKeeps, PromptStep
<1>3. NudgeInv => NudgesKeepTime
  <2>1. SUFFICES ASSUME NudgeInv PROVE Prompt!HeardWhenDue
    BY DEF NudgeInv, NudgesKeepTime, Prompt!NudgesKeepTime
  <2>2. (\A s \in Hands : nudge[s] = Prompt!Idle) => \A s \in Hands : ~Busy(s)
    BY DEF Busy, Prompt!Idle
  <2>3. QED
    BY <2>1, <2>2 DEF NudgeInv, HeardOrUnderWay, Heard, Prompt!HeardWhenDue
<1>4. QED
  BY <1>1, <1>2, <1>3, PTL DEF Spec

-----------------------------------------------------------------------------
(* Threads.                                                                *)

\* A moderator put it up, or moderated it under a report.
PutUp(c) == c \in published \/ c \in moderatedCrossed

\* What a request still has to do: a take is posted in a place that is free
\* and nobody else's, and a report that saw a hard take live saw one that had
\* been put up.
RequestHolds(u, q) ==
    /\ q.at = "post" =>
          /\ q.on \in Comments /\ comment[q.on].state = "none"
          /\ q.saw \in Comments \cup {"none"}
          /\ \A v \in Talk!Users \ {u} : request[v].on # q.on
    /\ q.at \in {"report", "count"} =>
          /\ q.on \in Comments /\ comment[q.on].state # "none"
          /\ q.saw = "live" /\ comment[q.on].hard => PutUp(q.on)

\* A take that tripped a hard rule waits or is gone, unless it was put up.
TakeHolds(c, k) == k.hard => k.state \in {"held", "removed"} \/ PutUp(c)

CommentRow == [
    state : {"none", "live", "held", "flagged", "removed"},
    by : Talk!Users \cup {"nobody"},
    badge : Outcomes \cup {"none"},
    parent : Comments \cup {"none"},
    hard : BOOLEAN,
    called : {"unstamped", "right", "wrong"}]

RequestRow == [
    at : {"rest", "post", "report", "count"},
    on : Comments \cup {"none"},
    saw : Comments \cup {"none", "live", "held", "flagged", "removed"}]

TalkInv ==
    /\ comment \in [Comments -> CommentRow]
    /\ request \in [Talk!Users -> RequestRow]
    /\ open \subseteq Talk!Users
    /\ \A c \in Comments : TakeHolds(c, comment[c])
    /\ \A u \in Talk!Users : RequestHolds(u, request[u])

LEMMA TalkStarts == Talk!Init => TalkInv
BY DEF Talk!Init, Talk!NoComment, Talk!NoOne, Talk!Rest, Talk!Users, TalkInv, TakeHolds,
       RequestHolds, CommentRow, RequestRow

LEMMA TalkUntouched ==
    ASSUME TalkInv, open' \subseteq open,
           UNCHANGED <<comment, request, published, moderatedCrossed>>
    PROVE  TalkInv'
BY DEF TalkInv, TakeHolds, RequestHolds, PutUp

\* One request moves on, the comments as they are.
LEMMA RequestMoves ==
    ASSUME TalkInv, NEW u \in Talk!Users, NEW q \in RequestRow,
           request' = [request EXCEPT ![u] = q],
           UNCHANGED <<open, comment, published, moderatedCrossed>>,
           RequestHolds(u, q),
           \A v \in Talk!Users \ {u} : request[v].at = "post" => q.on # request[v].on
    PROVE  TalkInv'
<1>1. /\ request' \in [Talk!Users -> RequestRow]
      /\ request'[u] = q
      /\ \A v \in Talk!Users \ {u} : request'[v] = request[v]
  BY DEF TalkInv
<1>2. \A c \in Comments : TakeHolds(c, comment[c])'
  BY DEF TalkInv, TakeHolds, PutUp
<1>3. ASSUME NEW v \in Talk!Users PROVE RequestHolds(v, request[v])'
  <2>1. CASE v = u
    BY <1>1, <2>1 DEF RequestHolds, PutUp
  <2>2. CASE v # u
    BY <1>1, <2>2 DEF TalkInv, RequestHolds, PutUp
  <2>3. QED  BY <2>1, <2>2
<1>4. QED  BY <1>1, <1>2, <1>3 DEF TalkInv

\* A comment changes its state, and with it nobody's request turns bad.
LEMMA CommentMoves ==
    ASSUME TalkInv, NEW c \in Comments, NEW s \in {"live", "flagged", "removed"},
           comment[c].state # "none",
           comment' = [comment EXCEPT ![c].state = s],
           UNCHANGED open,
           request' \in [Talk!Users -> RequestRow],
           \A v \in Talk!Users : request'[v] = request[v] \/ request'[v] = Talk!Rest,
           \A d \in Comments \ {c} : PutUp(d) => PutUp(d)',
           comment[c].hard /\ s # "removed" => PutUp(c)',
           \A v \in Talk!Users : request[v].at \in {"report", "count"} /\ request[v].on = c
                                 /\ request[v].saw = "live" /\ comment[c].hard => PutUp(c)'
    PROVE  TalkInv'
<1>1. /\ comment' \in [Comments -> CommentRow]
      /\ comment'[c] = [comment[c] EXCEPT !.state = s]
      /\ \A d \in Comments \ {c} : comment'[d] = comment[d]
  <2>1. comment \in [Comments -> CommentRow] /\ comment[c] \in CommentRow
    BY DEF TalkInv
  <2>2. PICK r : r = [comment[c] EXCEPT !.state = s]
    OBVIOUS
  <2>3. r \in CommentRow
    BY <2>1, <2>2 DEF CommentRow
  <2>4. comment' = [comment EXCEPT ![c] = r]
    BY <2>1, <2>2
  <2>5. QED  BY <2>1, <2>2, <2>3, <2>4
<1>2. comment'[c].state = s /\ comment'[c].hard = comment[c].hard
  BY <1>1 DEF TalkInv, CommentRow
<1>3. ASSUME NEW d \in Comments PROVE TakeHolds(d, comment[d])'
  BY <1>1, <1>2 DEF TalkInv, TakeHolds
<1>4. ASSUME NEW v \in Talk!Users PROVE RequestHolds(v, request[v])'
  <2>1. CASE request'[v] = Talk!Rest
    BY <2>1 DEF RequestHolds, Talk!Rest
  <2>2. CASE request'[v] = request[v]
    <3>1. PICK q : q = request[v]
      OBVIOUS
    <3>2. request'[v] = q /\ RequestHolds(v, q)
      BY <2>2, <3>1 DEF TalkInv
    <3>3. ASSUME q.at = "post"
          PROVE  /\ q.on \in Comments /\ comment'[q.on].state = "none"
                 /\ q.saw \in Comments \cup {"none"}
                 /\ \A w \in Talk!Users \ {v} : request'[w].on # q.on
      <4>1. /\ q.on \in Comments /\ comment[q.on].state = "none"
            /\ q.saw \in Comments \cup {"none"}
            /\ \A w \in Talk!Users \ {v} : request[w].on # q.on
        BY <3>2, <3>3 DEF RequestHolds
      <4>2. comment'[q.on] = comment[q.on]
        BY <1>1, <4>1
      <4>3. \A w \in Talk!Users \ {v} : request'[w].on # q.on
        BY <4>1, NamesAssumption DEF Talk!Rest
      <4>4. QED  BY <4>1, <4>2, <4>3
    <3>4. ASSUME q.at \in {"report", "count"}
          PROVE  /\ q.on \in Comments /\ comment'[q.on].state # "none"
                 /\ (q.saw = "live" /\ comment'[q.on].hard) => PutUp(q.on)'
      <4>1. /\ q.on \in Comments /\ comment[q.on].state # "none"
            /\ (q.saw = "live" /\ comment[q.on].hard) => PutUp(q.on)
        BY <3>2, <3>4 DEF RequestHolds
      <4>2. CASE q.on = c
        BY <1>1, <1>2, <3>1, <3>4, <4>1, <4>2
      <4>3. CASE q.on # c
        BY <1>1, <4>1, <4>3
      <4>4. QED  BY <4>2, <4>3
    <3>5. QED  BY <3>2, <3>3, <3>4 DEF RequestHolds
  <2>3. QED  BY <2>1, <2>2
<1>5. open' \subseteq Talk!Users
  BY DEF TalkInv
<1>6. QED  BY <1>1, <1>3, <1>4, <1>5 DEF TalkInv

LEMMA TalkPosts ==
    ASSUME TalkInv, NEW u \in Talk!Users,
           NEW flags \in {"none", "soft", "hard"}, NEW badge \in Outcomes \cup {"none"},
           Talk!PostWrite(u, flags, badge)
    PROVE  TalkInv'
<1>1. PICK q \in RequestRow : q = request[u]
  BY DEF TalkInv
<1>2. PICK k : k = [state |-> Talk!Verdict(flags), by |-> u, badge |-> badge,
                    parent |-> q.saw, hard |-> flags = "hard", called |-> "unstamped"]
  OBVIOUS
<1>3. /\ q.at = "post"
      /\ comment' = [comment EXCEPT ![q.on] = k]
      /\ request' = [request EXCEPT ![u] = Talk!Rest]
      /\ UNCHANGED <<open, published, moderatedCrossed>>
  BY <1>1, <1>2 DEF Talk!PostWrite, Talk!Leave, Talk!history
<1>4. /\ q.on \in Comments
      /\ comment[q.on].state = "none"
      /\ q.saw \in Comments \cup {"none"}
      /\ \A v \in Talk!Users \ {u} : request[v].on # q.on
  BY <1>1, <1>3 DEF TalkInv, RequestHolds
<1>5. /\ request' \in [Talk!Users -> RequestRow]
      /\ request'[u] = Talk!Rest
      /\ \A v \in Talk!Users \ {u} : request'[v] = request[v]
  BY <1>3 DEF TalkInv, RequestRow, Talk!Rest
<1>6. k.state \in {"live", "held", "flagged"} /\ (k.hard => k.state = "held")
  BY <1>2 DEF Talk!Verdict
<1>7. comment' \in [Comments -> CommentRow]
  BY <1>2, <1>3, <1>4, <1>6 DEF TalkInv, CommentRow, RequestRow
<1>8. \A c \in Comments : comment'[c] = IF c = q.on THEN k ELSE comment[c]
  BY <1>3, <1>4 DEF TalkInv
<1>9. ASSUME NEW c \in Comments PROVE TakeHolds(c, comment[c])'
  BY <1>3, <1>6, <1>8 DEF TalkInv, TakeHolds, PutUp
<1>10. ASSUME NEW v \in Talk!Users PROVE RequestHolds(v, request[v])'
  <2>1. CASE v = u
    BY <1>5, <2>1 DEF RequestHolds, Talk!Rest
  <2>2. CASE v # u
    <3>1. PICK p : p = request[v]
      OBVIOUS
    <3>2. request'[v] = p /\ p.on # q.on /\ RequestHolds(v, p)
      BY <1>4, <1>5, <2>2, <3>1 DEF TalkInv
    <3>3. p.on \in Comments => comment'[p.on] = comment[p.on]
      BY <1>8, <3>2
    <3>4. p.on \in Comments => \A w \in Talk!Users \ {v} :
             request[w].on # p.on => request'[w].on # p.on
      BY <1>5, NamesAssumption DEF Talk!Rest
    <3>5. QED  BY <1>3, <3>2, <3>3, <3>4 DEF RequestHolds, PutUp
  <2>3. QED  BY <2>1, <2>2
<1>11. QED  BY <1>3, <1>5, <1>7, <1>9, <1>10 DEF TalkInv

\* A moderator's decision: what is taken down while a report is on its way is
\* remembered.
LEMMA TalkModerates ==
    ASSUME TalkInv, NEW c \in Comments, NEW verdict \in {"publish", "remove"},
           Talk!Moderate(c, verdict)
    PROVE  TalkInv'
<1>1. PICK s \in {"live", "removed"} : s = IF verdict = "publish" THEN "live" ELSE "removed"
  OBVIOUS
<1>2. /\ comment[c].state # "none"
      /\ comment' = [comment EXCEPT ![c].state = s]
      /\ published' = IF verdict = "publish" THEN published \cup {c} ELSE published \ {c}
      /\ moderatedCrossed' = IF Talk!ReportOnItsWay(c) THEN moderatedCrossed \cup {c}
                                                       ELSE moderatedCrossed
      /\ UNCHANGED <<open, request>>
  BY <1>1 DEF Talk!Moderate, Talk!Posted
<1>3. \A d \in Comments \ {c} : PutUp(d) => PutUp(d)'
  BY <1>2 DEF PutUp
<1>4. s # "removed" => PutUp(c)'
  BY <1>1, <1>2 DEF PutUp
<1>5. \A v \in Talk!Users :
         request[v].at \in {"report", "count"} /\ request[v].on = c => PutUp(c)'
  BY <1>2 DEF PutUp, Talk!ReportOnItsWay
<1>6. request' \in [Talk!Users -> RequestRow] /\ \A v \in Talk!Users : request'[v] = request[v]
  BY <1>2 DEF TalkInv
<1>7. QED  BY <1>2, <1>3, <1>4, <1>5, <1>6, CommentMoves

\* The threshold flags what the report saw live.
LEMMA TalkCounts ==
    ASSUME TalkInv, NEW u \in Talk!Users, Talk!ReportCount(u)
    PROVE  TalkInv'
<1>1. PICK q \in RequestRow : q = request[u]
  BY DEF TalkInv
<1>2. /\ q.at = "count"
      /\ comment' = IF Talk!Pulls(q) THEN [comment EXCEPT ![q.on].state = "flagged"] ELSE comment
      /\ request' = [request EXCEPT ![u] = Talk!Rest]
      /\ UNCHANGED <<open, published, moderatedCrossed>>
  BY <1>1 DEF Talk!ReportCount, Talk!Leave, Talk!history
<1>3. /\ request' \in [Talk!Users -> RequestRow]
      /\ request'[u] = Talk!Rest
      /\ \A v \in Talk!Users \ {u} : request'[v] = request[v]
  BY <1>2 DEF TalkInv, RequestRow, Talk!Rest
<1>4. RequestHolds(u, q)
  BY <1>1 DEF TalkInv
<1>5. CASE Talk!Pulls(q)
  <2>1. PICK c \in Comments : c = q.on
    BY <1>2, <1>4 DEF RequestHolds
  <2>2. comment[c].state # "none" /\ (comment[c].hard => PutUp(c))
    BY <1>2, <1>4, <1>5, <2>1 DEF RequestHolds, Talk!Pulls
  <2>3. comment' = [comment EXCEPT ![c].state = "flagged"]
    BY <1>2, <1>5, <2>1
  <2>4. \A d \in Comments : PutUp(d) => PutUp(d)'
    BY <1>2 DEF PutUp
  <2>5. QED  BY <1>2, <1>3, <2>2, <2>3, <2>4, CommentMoves
<1>6. CASE ~Talk!Pulls(q)
  <2>1. Talk!Rest \in RequestRow /\ RequestHolds(u, Talk!Rest)
    BY DEF RequestRow, Talk!Rest, RequestHolds
  <2>2. ASSUME NEW v \in Talk!Users \ {u}, request[v].at = "post"
        PROVE  Talk!Rest.on # request[v].on
    BY <2>2, NamesAssumption DEF TalkInv, RequestHolds, Talk!Rest
  <2>3. QED  BY <1>2, <1>6, <2>1, <2>2, RequestMoves
<1>7. QED  BY <1>5, <1>6

LEMMA TalkReports ==
    ASSUME TalkInv, NEW u \in Talk!Users,
           \/ \E c \in Comments : Talk!ReportRead(u, c)
           \/ Talk!ReportWrite(u)
    PROVE  TalkInv'
<1>1. ASSUME NEW c \in Comments, Talk!ReportRead(u, c) PROVE TalkInv'
  <2>1. PICK q : q = [at |-> "report", on |-> c, saw |-> comment[c].state]
    OBVIOUS
  <2>2. /\ comment[c].state # "none"
        /\ request' = [request EXCEPT ![u] = q]
        /\ UNCHANGED <<open, comment, published, moderatedCrossed>>
    BY <1>1, <2>1 DEF Talk!ReportRead, Talk!Posted, Talk!history
  <2>3. q \in RequestRow
    BY <2>1, <2>2 DEF TalkInv, CommentRow, RequestRow
  <2>4. RequestHolds(u, q)
    BY <2>1, <2>2 DEF TalkInv, TakeHolds, RequestHolds
  <2>5. \A v \in Talk!Users \ {u} : request[v].at = "post" => q.on # request[v].on
    BY <2>1, <2>2 DEF TalkInv, RequestHolds
  <2>6. QED  BY <2>2, <2>3, <2>4, <2>5, RequestMoves
<1>2. ASSUME Talk!ReportWrite(u) PROVE TalkInv'
  <2>1. PICK r \in RequestRow : r = request[u]
    BY DEF TalkInv
  <2>2. PICK q : q = IF u \in reports[r.on] THEN Talk!Rest ELSE [r EXCEPT !.at = "count"]
    OBVIOUS
  <2>3. /\ r.at = "report"
        /\ request' = [request EXCEPT ![u] = q]
        /\ UNCHANGED <<open, comment, published, moderatedCrossed>>
    BY <1>2, <2>1, <2>2 DEF Talk!ReportWrite, Talk!history
  <2>4. q = Talk!Rest \/ (q.at = "count" /\ q.on = r.on /\ q.saw = r.saw)
    BY <2>2 DEF RequestRow
  <2>5. q \in RequestRow
    BY <2>2 DEF RequestRow, Talk!Rest
  <2>6. RequestHolds(u, r)
    BY <2>1 DEF TalkInv
  <2>7. RequestHolds(u, q)
    BY <2>3, <2>4, <2>6 DEF RequestHolds, Talk!Rest
  <2>8. ASSUME NEW v \in Talk!Users \ {u}, request[v].at = "post" PROVE q.on # request[v].on
    <3>1. /\ request[v].on \in Comments /\ comment[request[v].on].state = "none"
          /\ r.on \in Comments /\ comment[r.on].state # "none"
      BY <2>3, <2>6, <2>8 DEF TalkInv, RequestHolds
    <3>2. QED  BY <2>4, <3>1, NamesAssumption DEF Talk!Rest
  <2>9. QED  BY <2>3, <2>5, <2>7, <2>8, RequestMoves
<1>3. QED  BY <1>1, <1>2

LEMMA TalkAsks ==
    ASSUME TalkInv, NEW u \in Talk!Users, NEW c \in Comments,
           NEW parent \in Comments \cup {"none"}, Talk!PostRead(u, c, parent)
    PROVE  TalkInv'
<1>1. PICK q : q = [at |-> "post", on |-> c, saw |-> parent]
  OBVIOUS
<1>2. /\ comment[c].state = "none"
      /\ \A v \in Talk!Users : request[v].on # c
      /\ request' = [request EXCEPT ![u] = q]
      /\ UNCHANGED <<open, comment, published, moderatedCrossed>>
  BY <1>1 DEF Talk!PostRead, Talk!history
<1>3. q \in RequestRow /\ RequestHolds(u, q)
  BY <1>1, <1>2 DEF RequestRow, RequestHolds
<1>4. \A v \in Talk!Users \ {u} : q.on # request[v].on
  BY <1>1, <1>2
<1>5. QED  BY <1>2, <1>3, <1>4, RequestMoves

LEMMA TalkStamps ==
    ASSUME TalkInv, NEW c \in Comments, Talk!Stamp(c)
    PROVE  TalkInv'
<1>1. PICK s \in {"right", "wrong"} : s = Talk!CalledIt(comment[c].badge)
  BY DEF Talk!CalledIt
<1>2. /\ comment' = [comment EXCEPT ![c].called = s]
      /\ UNCHANGED <<open, request, published, moderatedCrossed>>
  BY <1>1 DEF Talk!Stamp, Talk!history
<1>3. /\ comment' \in [Comments -> CommentRow]
      /\ \A d \in Comments : comment'[d].state = comment[d].state /\ comment'[d].hard = comment[d].hard
  BY <1>2 DEF TalkInv, CommentRow
<1>4. QED  BY <1>2, <1>3 DEF TalkInv, TakeHolds, RequestHolds, PutUp

LEMMA TalkKeeps ==
    ASSUME TalkInv, [Talk!Next]_(Talk!vars)
    PROVE  TalkInv'
<1>1. ASSUME NEW u \in Authors,
             Talk!Post(u) \/ Talk!Shut(u) \/ Talk!GapPasses(u)
      PROVE  TalkInv'
  <2>1. u \in Talk!Users
    BY DEF Talk!Users
  <2>2. CASE Talk!Post(u)
    BY <2>1, <2>2, TalkAsks, TalkPosts DEF Talk!Post, Talk!Badges
  <2>3. CASE Talk!Shut(u)
    BY <2>3, TalkUntouched DEF Talk!Shut, Talk!history
  <2>4. CASE Talk!GapPasses(u)
    BY <2>4, TalkUntouched DEF Talk!GapPasses, Talk!history
  <2>5. QED  BY <1>1, <2>2, <2>3, <2>4
<1>2. ASSUME NEW u \in Reporters, Talk!Report(u) PROVE TalkInv'
  BY <1>2, TalkReports, TalkCounts DEF Talk!Report, Talk!Users
<1>3. CASE Talk!Resolve
  BY <1>3, TalkUntouched DEF Talk!Resolve, Talk!history
<1>4. CASE UNCHANGED Talk!vars
  BY <1>4, TalkUntouched DEF Talk!vars
<1>5. QED
  BY <1>1, <1>2, <1>3, <1>4, TalkModerates, TalkStamps DEF Talk!Next

LEMMA TalkStep == [Next]_vars => [Talk!Next]_(Talk!vars)
BY DEF Next, vars, talk, Talk!vars

\* However many people report a take that tripped a hard rule, and whatever
\* the order of posts, reports, counts and moderation, nobody but its author
\* reads it before a moderator put it up, unless it was moderated under a
\* report (ThreadService.report, thread, verdictFor).
THEOREM TakesAreHeld == Spec => []HeldUntilPublished
<1>1. Init => TalkInv
  BY TalkStarts DEF Init
<1>2. TalkInv /\ [Next]_vars => TalkInv'
  BY TalkKeeps, TalkStep
<1>3. TalkInv => HeldUntilPublished
  BY DEF TalkInv, TakeHolds, PutUp, HeldUntilPublished, Talk!HeldUntilPublished, Talk!Reads
<1>4. QED
  BY <1>1, <1>2, <1>3, PTL DEF Spec

-----------------------------------------------------------------------------
(* Challenges and opportunities.                                           *)

\* Whoever is about to answer looked at a link of somebody else's and was on
\* the other side, as they still are unless they traded since.
Answering == \A p \in answering :
    /\ p \in People
    /\ challenge.by \notin {"nobody", p}
    /\ side[p] \notin {"none", challenge.badge} \/ p \in answeredCrossed

ChallengeRow == [
    by : People \cup {"nobody"}, badge : Outcomes \cup {"none"},
    answered : People \cup {"nobody"}, opens : Nat]

DareInv ==
    /\ challenge \in ChallengeRow
    /\ side \in [People -> Outcomes \cup {"none"}]
    /\ challenge.by = "nobody" => challenge = Dare!NotMinted
    /\ Answering

LEMMA DareStarts == Dare!Init => DareInv
BY DEF Dare!Init, Dare!NotMinted, Dare!NoOne, DareInv, Answering, ChallengeRow

\* The link keeps its name and its side once it is minted.
LEMMA DareKeeps ==
    ASSUME DareInv, [Dare!Next]_(Dare!vars)
    PROVE  DareInv'
<1>1. ASSUME NEW p \in People, Dare!Create(p) PROVE DareInv'
  <2>1. /\ challenge = Dare!NotMinted
        /\ challenge' = [Dare!NotMinted EXCEPT !.by = p, !.badge = side[p]]
        /\ UNCHANGED <<side, answering, answeredCrossed>>
    BY <1>1 DEF Dare!Create
  <2>2. challenge.by = "nobody" /\ answering = {}
    BY <2>1 DEF DareInv, Answering, Dare!NotMinted, Dare!NoOne
  <2>3. challenge' \in ChallengeRow /\ challenge'.by = p
    BY <2>1 DEF DareInv, ChallengeRow, Dare!NotMinted, Dare!NoOne
  <2>4. QED  BY <2>1, <2>2, <2>3, NamesAssumption DEF DareInv, Answering
<1>2. CASE Dare!Open
  <2>1. /\ challenge.by # "nobody"
        /\ challenge' = [challenge EXCEPT !.opens = @ + 1]
        /\ UNCHANGED <<side, answering, answeredCrossed>>
    BY <1>2 DEF Dare!Open, Dare!NoOne
  <2>2. /\ challenge' \in ChallengeRow
        /\ challenge'.by = challenge.by /\ challenge'.badge = challenge.badge
    BY <2>1 DEF DareInv, ChallengeRow
  <2>3. QED  BY <2>1, <2>2 DEF DareInv, Answering
<1>3. ASSUME NEW p \in People, Dare!AcceptRead(p) PROVE DareInv'
  BY <1>3 DEF Dare!AcceptRead, Dare!NoOne, DareInv, Answering
<1>4. ASSUME NEW p \in People, Dare!AcceptWrite(p) PROVE DareInv'
  <2>1. /\ p \in answering
        /\ answering' = answering \ {p}
        /\ challenge' = challenge \/ challenge' = [challenge EXCEPT !.answered = p]
        /\ UNCHANGED <<side, answeredCrossed>>
    BY <1>4 DEF Dare!AcceptWrite, Dare!Take
  <2>2. challenge.by # "nobody"
    BY <2>1 DEF DareInv, Answering
  <2>3. /\ challenge' \in ChallengeRow
        /\ challenge'.by = challenge.by /\ challenge'.badge = challenge.badge
    BY <2>1 DEF DareInv, ChallengeRow
  <2>4. QED  BY <2>1, <2>2, <2>3 DEF DareInv, Answering
<1>5. ASSUME NEW p \in People, NEW o \in Outcomes \cup {"none"}, Dare!Trade(p, o) PROVE DareInv'
  <2>1. /\ side' = [side EXCEPT ![p] = o]
        /\ answeredCrossed' = IF p \in answering THEN answeredCrossed \cup {p} ELSE answeredCrossed
        /\ UNCHANGED <<challenge, answering>>
    BY <1>5 DEF Dare!Trade
  <2>2. side' \in [People -> Outcomes \cup {"none"}] /\ \A q \in People \ {p} : side'[q] = side[q]
    BY <2>1 DEF DareInv
  <2>3. Answering'
    BY <2>1, <2>2 DEF DareInv, Answering
  <2>4. QED  BY <2>1, <2>2, <2>3 DEF DareInv
<1>6. CASE UNCHANGED Dare!vars
  BY <1>6 DEF Dare!vars, DareInv, Answering
<1>7. QED
  BY <1>1, <1>2, <1>3, <1>4, <1>5, <1>6 DEF Dare!Next, Dare!Accept

\* What one step does to the answer.
LEMMA DareAnswers ==
    ASSUME DareInv, [Dare!Next]_(Dare!vars)
    PROVE  IF challenge.answered # "nobody" THEN challenge'.answered = challenge.answered
           ELSE \A p \in People : challenge'.answered = p =>
                   /\ p # challenge.by
                   /\ side[p] \notin {"none", challenge.badge} \/ p \in answeredCrossed
<1>1. CASE challenge'.answered = challenge.answered
  BY <1>1, NamesAssumption
<1>2. CASE challenge'.answered # challenge.answered
  <2>1. ASSUME NEW p \in People, Dare!Create(p) PROVE FALSE
    BY <1>2, <2>1 DEF Dare!Create, Dare!NotMinted
  <2>2. ASSUME Dare!Open PROVE FALSE
    BY <1>2, <2>2 DEF Dare!Open, DareInv, ChallengeRow
  <2>3. ~(UNCHANGED challenge)
    BY <1>2
  <2>4. PICK p \in People : Dare!AcceptWrite(p)
    BY <2>1, <2>2, <2>3 DEF Dare!Next, Dare!vars, Dare!Accept, Dare!AcceptRead, Dare!Trade
  <2>5. /\ p \in answering
        /\ challenge.answered = "nobody"
        /\ challenge' = [challenge EXCEPT !.answered = p]
    BY <1>2, <2>4 DEF Dare!AcceptWrite, Dare!Take, Dare!NoOne
  <2>6. challenge'.answered = p
    BY <2>5 DEF DareInv, ChallengeRow
  <2>7. QED  BY <2>5, <2>6 DEF DareInv, Answering
<1>3. QED  BY <1>1, <1>2

LEMMA DareStep == [Next]_vars => [Dare!Next]_(Dare!vars)
BY DEF Next, vars, dare, Dare!vars

\* A claimed entry is claimed by the same creator a step later.
LEMMA GapClaims ==
    ASSUME [Gap!Next]_(Gap!vars), entry.claimedBy # "nobody"
    PROVE  entry'.claimedBy = entry.claimedBy
<1>1. CASE Gap!Upsert
  BY <1>1 DEF Gap!Upsert, Gap!Refreshed
<1>2. CASE ~Gap!Upsert
  <2>1. UNCHANGED entry
    BY <1>2 DEF Gap!Next, Gap!vars, Gap!Search, Gap!SweepRead, Gap!Expire, Gap!OpenMarket,
                Gap!Claim, Gap!Activate, Gap!CloseMarket, Gap!Day
  <2>2. QED  BY <2>1
<1>3. QED  BY <1>1, <1>2

LEMMA GapStep == [Next]_vars => [Gap!Next]_(Gap!vars)
BY DEF Next, vars, gap, Gap!vars

\* Whoever answered a challenge first stays the one who answered, somebody on
\* the other side when they were looked at; and whatever sweeps, claims and
\* expiries follow, a claimed opportunity stays its claimer's
\* (ChallengeService.accept, OpportunityService.claim, upsert, expire).
THEOREM OffersStandFirm == Spec => OffersStand
<1>1. Init => DareInv
  BY DareStarts DEF Init
<1>2. DareInv /\ [Next]_vars => DareInv'
  BY DareKeeps, DareStep
<1>3. DareInv /\ [Next]_vars =>
        [IF challenge.answered # Dare!NoOne THEN challenge'.answered = challenge.answered
         ELSE \A p \in People : challenge'.answered = p =>
                 p # challenge.by
                 /\ (side[p] \notin {"none", challenge.badge} \/ p \in answeredCrossed)]_challenge
  BY DareAnswers, DareStep DEF Dare!NoOne
<1>4. [Next]_vars =>
        [entry.claimedBy # "nobody" => entry'.claimedBy = entry.claimedBy]_entry
  BY GapClaims, GapStep
<1>5. QED
  BY <1>1, <1>2, <1>3, <1>4, PTL DEF Spec, OffersStand, Dare!AnswerStands, Gap!ClaimStands

-----------------------------------------------------------------------------
(* Following.                                                              *)

\* Who is inside a request has no second one: a row that is about to be added
\* is not there, one that is about to go is, and no read that is still to be
\* used is older than the count unless it is remembered.
FanAt(f, s) ==
    /\ s.at \in {"rest", "followed", "unfollowed"}
    /\ s.at = "followed" => f \notin rows
    /\ s.at = "unfollowed" => f \in rows /\ (countCrossed = {} => s.read = count)

FanInv ==
    /\ IsFiniteSet(rows)
    /\ following = [f \in Fans |-> following[f]]
    /\ countCrossed = {} => count = Cardinality(rows)
    /\ \A f \in Fans : FanAt(f, following[f])

LEMMA FanStarts == Fan!Init => FanInv
BY FS_EmptySet DEF Fan!Init, Fan!Rest, FanInv, FanAt

LEMMA FanUntouched ==
    ASSUME FanInv, UNCHANGED <<rows, count, following, countCrossed>>
    PROVE  FanInv'
BY DEF FanInv, FanAt

\* Nothing is remembered of a step while no read was waiting beside it.
LEMMA NoneStale ==
    ASSUME NEW f \in Fans, countCrossed' = countCrossed \cup Fan!Stale(f), countCrossed' = {}
    PROVE  countCrossed = {} /\ \A g \in Fans \ {f} : following[g].at # "unfollowed"
BY DEF Fan!Stale

LEMMA FanKeeps ==
    ASSUME FanInv, [Fan!Next]_(Fan!vars)
    PROVE  FanInv'
<1>1. ASSUME NEW f \in Fans, NEW notify \in BOOLEAN, Fan!Follow(f, notify) PROVE FanInv'
  <2>1. /\ f \notin rows
        /\ following' = [following EXCEPT ![f] = [at |-> "followed", read |-> 0, notify |-> notify]]
        /\ UNCHANGED <<rows, count, countCrossed>>
    BY <1>1 DEF Fan!Follow
  <2>2. /\ following' = [g \in Fans |-> following'[g]]
        /\ following'[f] = [at |-> "followed", read |-> 0, notify |-> notify]
        /\ \A g \in Fans \ {f} : following'[g] = following[g]
    BY <2>1 DEF FanInv
  <2>3. QED  BY <2>1, <2>2 DEF FanInv, FanAt
<1>2. ASSUME NEW f \in Fans, Fan!Unfollow(f) PROVE FanInv'
  <2>1. /\ f \in rows
        /\ following' = [following EXCEPT ![f] = [at |-> "unfollowed", read |-> count, notify |-> FALSE]]
        /\ UNCHANGED <<rows, count, countCrossed>>
    BY <1>2 DEF Fan!Unfollow
  <2>2. /\ following' = [g \in Fans |-> following'[g]]
        /\ following'[f] = [at |-> "unfollowed", read |-> count, notify |-> FALSE]
        /\ \A g \in Fans \ {f} : following'[g] = following[g]
    BY <2>1 DEF FanInv
  <2>3. QED  BY <2>1, <2>2 DEF FanInv, FanAt
<1>3. ASSUME NEW f \in Fans, Fan!Increment(f) PROVE FanInv'
  <2>1. /\ following[f].at = "followed"
        /\ rows' = rows \cup {f}
        /\ count' = count + 1
        /\ following' = [following EXCEPT ![f] = Fan!Rest]
        /\ countCrossed' = countCrossed \cup Fan!Stale(f)
    BY <1>3 DEF Fan!Increment
  <2>2. f \notin rows /\ IsFiniteSet(rows)
    BY <2>1 DEF FanInv, FanAt
  <2>3. IsFiniteSet(rows') /\ Cardinality(rows') = Cardinality(rows) + 1
    BY <2>1, <2>2, FS_AddElement
  <2>4. /\ following' = [g \in Fans |-> following'[g]]
        /\ following'[f].at = "rest"
        /\ \A g \in Fans \ {f} : following'[g] = following[g]
    BY <2>1 DEF FanInv, Fan!Rest
  <2>5. countCrossed' = {} => count' = Cardinality(rows')
    BY <2>1, <2>3, NoneStale DEF FanInv
  <2>6. ASSUME NEW g \in Fans PROVE FanAt(g, following[g])'
    BY <2>1, <2>4, NoneStale DEF FanInv, FanAt
  <2>7. QED  BY <2>3, <2>4, <2>5, <2>6 DEF FanInv
<1>4. ASSUME NEW f \in Fans, Fan!Decrement(f) PROVE FanInv'
  <2>1. /\ following[f].at = "unfollowed"
        /\ rows' = rows \ {f}
        /\ count' = IF following[f].read = 0 THEN 0 ELSE following[f].read - 1
        /\ following' = [following EXCEPT ![f] = Fan!Rest]
        /\ countCrossed' = countCrossed \cup Fan!Stale(f)
    BY <1>4 DEF Fan!Decrement
  <2>2. f \in rows /\ IsFiniteSet(rows)
    BY <2>1 DEF FanInv, FanAt
  <2>3. /\ IsFiniteSet(rows') /\ Cardinality(rows') = Cardinality(rows) - 1
        /\ Cardinality(rows) \in Nat /\ Cardinality(rows') \in Nat
    BY <2>1, <2>2, FS_RemoveElement, FS_CardinalityType
  <2>4. /\ following' = [g \in Fans |-> following'[g]]
        /\ following'[f].at = "rest"
        /\ \A g \in Fans \ {f} : following'[g] = following[g]
    BY <2>1 DEF FanInv, Fan!Rest
  <2>5. ASSUME countCrossed' = {} PROVE count' = Cardinality(rows')
    <3>1. following[f].read = Cardinality(rows)
      BY <2>1, <2>5, NoneStale DEF FanInv, FanAt
    <3>2. QED  BY <2>1, <2>3, <3>1
  <2>6. ASSUME NEW g \in Fans PROVE FanAt(g, following[g])'
    BY <2>1, <2>4, NoneStale DEF FanInv, FanAt
  <2>7. QED  BY <2>3, <2>4, <2>5, <2>6 DEF FanInv
<1>5. ASSUME NEW f \in Fans, NEW notify \in BOOLEAN, Fan!FollowAgain(f, notify) PROVE FanInv'
  BY <1>5, FanUntouched DEF Fan!FollowAgain
<1>6. CASE Fan!Announce
  BY <1>6, FanUntouched DEF Fan!Announce
<1>7. CASE UNCHANGED Fan!vars
  BY <1>7, FanUntouched DEF Fan!vars
<1>8. QED
  BY <1>1, <1>2, <1>3, <1>4, <1>5, <1>6, <1>7 DEF Fan!Next, Fan!PostFollow, Fan!DeleteFollow

LEMMA FanStep == [Next]_vars => [Fan!Next]_(Fan!vars)
BY DEF Next, vars, fan, Fan!vars

\* Whenever nobody is inside a request the count on a creator's profile is the
\* number of follower rows, unless an unfollow wrote over what somebody else
\* wrote after it had read (CreatorService.follow, unfollow).
THEOREM TheCountIsTheRows == Spec => []CountIsRows
<1>1. Init => FanInv
  BY FanStarts DEF Init
<1>2. FanInv /\ [Next]_vars => FanInv'
  BY FanKeeps, FanStep
<1>3. FanInv => CountIsRows
  BY DEF FanInv, CountIsRows, Fan!CountIsRows, Fan!Cardinality, Cardinality
<1>4. QED
  BY <1>1, <1>2, <1>3, PTL DEF Spec

-----------------------------------------------------------------------------
(* The sheet.                                                              *)

LEMMA SheetStep == [Next]_vars => [Sheet!Next]_(Sheet!vars)
BY DEF Next, vars, sheet, Sheet!vars

Answers == {"unused", "sent", "polling", "told filled", "refused", "no answer",
            "still confirming"}

PressRows == [at : Answers, for : Nat, why : Nat]

HandStates == {"none", "has", "filled", "refused", "errored"}

PlacedRows == [hand : [Sheet!Executors -> HandStates], made : BOOLEAN]

Errors == {"none", "refused", "no answer", "still confirming"}

SheetType ==
    /\ opened \in Nat /\ typed \in Nat
    /\ showing \in BOOLEAN /\ entered \in BOOLEAN
    /\ submitting \in BOOLEAN
    /\ error \in Errors
    /\ press \in [Presses -> PressRows]
    /\ placed \in [Presses -> PlacedRows]

Going(r) == press[r].at \in {"sent", "polling"}

\* What a press may still turn into a trade, or has, as far as the sheet says.
MayTrade(r) == press[r].at \notin {"unused", "refused"}

\* A press that is under way is the only one, the button is off, and no error
\* shows.
OneGoes ==
    /\ \A q, r \in Presses : Going(q) /\ Going(r) => q = r
    /\ submitting <=> \E r \in Presses : Going(r)
    /\ submitting => error = "none"

\* An opening's presses that are over: a fill has closed it, and one that
\* nobody heard of shows, or was already pressed over.
OverInOpening == \A r \in Presses :
    /\ press[r].for <= opened
    /\ press[r].for = opened /\ press[r].at = "told filled" => ~showing
    /\ press[r].for = opened /\ press[r].at \in Sheet!Unheard =>
           error \in Sheet!Unheard \/ opened \in unsure

\* So that an opening has one press that may trade, unless it was unsure.
OnePress == \A q, r \in Presses :
    MayTrade(q) /\ MayTrade(r) /\ press[q].for = press[r].for /\ press[r].for \notin unsure
        => q = r

\* Nothing is placed of an id that was not sent; a trade that was made is one that
\* an execution filled, or erred on; what the sheet says is what one of them came
\* to, or that the request was turned away before it was placed.
PlacedOf(t, at) ==
    /\ at = "unused" => t = Sheet!NotPlaced
    /\ t.made => \E x \in Sheet!Executors : t.hand[x] \in {"filled", "errored"}
    /\ t.hand["inline"] = "filled" => t.made
    /\ at = "told filled" => t.made
    /\ at = "refused" =>
           \/ t = Sheet!NotPlaced
           \/ t.hand["inline"] = "refused"
           \/ t.hand["stream"] \in {"refused", "errored"}

SaysWhatCame == \A r \in Presses : PlacedOf(placed[r], press[r].at)

TradesInv ==
    SheetType /\ OneGoes /\ OverInOpening /\ OnePress /\ SaysWhatCame

LEMMA NotPlacedTyped ==
    /\ Sheet!NotPlaced \in PlacedRows /\ ~Sheet!NotPlaced.made
    /\ Sheet!NotPlaced.hand["inline"] # "filled"
<1>1. PICK nobody : nobody = [x \in Sheet!Executors |-> "none"]
  OBVIOUS
<1>2. nobody \in [Sheet!Executors -> HandStates]
  BY <1>1 DEF HandStates
<1>3. FALSE \in BOOLEAN
  OBVIOUS
<1>4. nobody["inline"] = "none"
  BY <1>1 DEF Sheet!Executors
<1>5. Sheet!NotPlaced = [hand |-> nobody, made |-> FALSE]
  BY <1>1 DEF Sheet!NotPlaced
<1> QED BY <1>2, <1>3, <1>4, <1>5 DEF PlacedRows

LEMMA SheetInit == Init => TradesInv
<1>1. SUFFICES ASSUME Init PROVE TradesInv
  OBVIOUS
<1>2. /\ opened = 0 /\ typed = 0 /\ error = "none"
      /\ press = [r \in Presses |-> Sheet!NotPressed]
      /\ placed = [r \in Presses |-> Sheet!NotPlaced]
  BY <1>1 DEF Init, Sheet!Init
<1>3. showing = FALSE /\ entered = FALSE /\ submitting = FALSE
  BY <1>1 DEF Init, Sheet!Init
<1>4. Sheet!NotPressed \in PressRows /\ Sheet!NotPressed.at = "unused" /\ Sheet!NotPressed.for = 0
  BY DEF Sheet!NotPressed, PressRows, Answers
<1>5. \A r \in Presses : press[r] = Sheet!NotPressed /\ press[r].at = "unused" /\ press[r].for = 0
  BY <1>2, <1>4
<1>6. showing \in BOOLEAN /\ entered \in BOOLEAN /\ submitting \in BOOLEAN
  BY <1>3, Zenon
<1>n. Sheet!NotPlaced \in PlacedRows /\ ~Sheet!NotPlaced.made
  BY NotPlacedTyped
<1>7. SheetType
  BY <1>2, <1>4, <1>6, <1>n DEF SheetType, Errors
<1>8. OneGoes
  BY <1>3, <1>5 DEF OneGoes, Going
<1>9. OverInOpening
  <2>1. \A r \in Presses : press[r].for <= 0 /\ press[r].at = "unused"
    BY <1>5
  <2> QED BY <1>2, <2>1 DEF OverInOpening, Sheet!Unheard
<1>10. OnePress
  BY <1>5 DEF OnePress, MayTrade
<1>11. SaysWhatCame
  <2>1. \A r \in Presses : placed[r] = Sheet!NotPlaced /\ press[r].at = "unused"
    BY <1>2, <1>5
  <2> QED BY <2>1, NotPlacedTyped DEF SaysWhatCame, PlacedOf
<1> QED BY <1>7, <1>8, <1>9, <1>10, <1>11 DEF TradesInv

\* The id of a press is one that was not used.
LEMMA NextIdUnused ==
    ASSUME \E r \in Presses : press[r] = Sheet!NotPressed
    PROVE  Sheet!NextId \in Presses /\ press[Sheet!NextId] = Sheet!NotPressed
<1> DEFINE Free == {r \in Presses : press[r] = Sheet!NotPressed}
<1>1. Free # {} /\ Free \subseteq Nat
  BY PressesAssumption
<1>2. PICK m \in Free : \A k \in Free : <<k, m>> \notin OpToRel(<, Nat)
  BY <1>1, NatLessThanWellFounded, WFMin
<1>3. \A k \in Free : m <= k
  <2>1. SUFFICES ASSUME NEW k \in Free, ~(m <= k) PROVE FALSE
    OBVIOUS
  <2>2. k \in Nat /\ m \in Nat /\ k < m
    BY <1>1, <2>1
  <2>3. <<k, m>> \in OpToRel(<, Nat)
    BY <2>2 DEF OpToRel
  <2> QED BY <1>2, <2>3
<1>4. m \in Presses /\ press[m] = Sheet!NotPressed
      /\ \A q \in Presses : press[q] = Sheet!NotPressed => m <= q
  BY <1>3
<1> QED BY <1>4 DEF Sheet!NextId

LEMMA SheetFacts ==
    TradesInv => /\ opened \in Nat /\ error \in Errors
                 /\ press \in [Presses -> PressRows]
                 /\ \A r \in Presses : press[r] \in PressRows
                 /\ \A r \in Presses : press[r].for \in Nat /\ press[r].at \in Answers
BY DEF TradesInv, SheetType, PressRows

\* The person opens, closes, types: the presses go on.
LEMMA SheetOpens == TradesInv /\ Sheet!OpenSheet => TradesInv'
<1>1. SUFFICES ASSUME TradesInv, Sheet!OpenSheet PROVE TradesInv'
  OBVIOUS
<1>2. /\ opened' = opened + 1 /\ error' = "none"
      /\ UNCHANGED <<typed, submitting, press, placed, unsure>>
  BY <1>1 DEF Sheet!OpenSheet
<1>3. showing' = TRUE /\ entered' = FALSE
  BY <1>1 DEF Sheet!OpenSheet
<1>4. showing' \in BOOLEAN /\ entered' \in BOOLEAN
  BY <1>3, Zenon
<1> DEFINE n == opened
<1>5a. n \in Nat /\ opened' = n + 1 /\ press' = press
  BY <1>1, <1>2, SheetFacts
<1>5b. \A r \in Presses : press[r].for \in Nat /\ press[r].for <= n
  BY <1>1, SheetFacts DEF TradesInv, OverInOpening
<1> HIDE DEF n
<1>5c. opened' \in Nat
  BY <1>5a
<1>5. SheetType'
  BY <1>1, <1>2, <1>5c, <1>4 DEF TradesInv, SheetType, Errors
<1>6. \A r \in Presses : press'[r].for # opened'
  BY <1>5a, <1>5b
<1>7. \A r \in Presses : press'[r].for <= opened'
  BY <1>5a, <1>5b
<1>8. OverInOpening'
  BY <1>1, <1>2, <1>6, <1>7 DEF TradesInv, OverInOpening
<1> QED BY <1>1, <1>2, <1>5, <1>8
        DEF TradesInv, OneGoes, Going, OnePress, MayTrade, SaysWhatCame

LEMMA SheetIdles ==
    TradesInv /\ (Sheet!CloseSheet \/ Sheet!EnterAmount \/ Sheet!TypeReason) => TradesInv'
<1>1. SUFFICES ASSUME TradesInv,
                      Sheet!CloseSheet \/ Sheet!EnterAmount \/ Sheet!TypeReason
               PROVE  TradesInv'
  OBVIOUS
<1>2. UNCHANGED <<opened, error, submitting, press, placed, unsure>>
  BY <1>1 DEF Sheet!CloseSheet, Sheet!EnterAmount, Sheet!TypeReason
<1>3. showing' = FALSE \/ showing' = showing
  BY <1>1 DEF Sheet!CloseSheet, Sheet!EnterAmount, Sheet!TypeReason
<1>4. entered' \in BOOLEAN
  BY <1>1 DEF Sheet!CloseSheet, Sheet!EnterAmount, Sheet!TypeReason, Sheet!Previews,
              TradesInv, SheetType
<1>5. typed' \in Nat
  BY <1>1 DEF Sheet!CloseSheet, Sheet!EnterAmount, Sheet!TypeReason, TradesInv, SheetType
<1>6. showing' \in BOOLEAN
  BY <1>1, <1>3 DEF TradesInv, SheetType
<1>7. SheetType'
  BY <1>1, <1>2, <1>4, <1>5, <1>6 DEF TradesInv, SheetType
<1>8. showing' => showing
  BY <1>3
<1>9. OverInOpening'
  BY <1>1, <1>2, <1>8 DEF TradesInv, OverInOpening
<1> QED BY <1>1, <1>2, <1>7, <1>9
        DEF TradesInv, OneGoes, Going, OnePress, MayTrade, SaysWhatCame

\* A press that follows one nobody heard of makes the opening unsure; without
\* one, the presses before it in this opening were refused.
LEMMA SheetPresses == TradesInv /\ Sheet!Press => TradesInv'
<1>1. SUFFICES ASSUME TradesInv, Sheet!Press PROVE TradesInv'
  OBVIOUS
<1>2. PICK n \in Presses : n = Sheet!NextId /\ press[n] = Sheet!NotPressed
  BY <1>1, NextIdUnused DEF Sheet!Press
<1>3. /\ press' = [press EXCEPT ![n] = [at |-> "sent", for |-> opened, why |-> typed]]
      /\ error' = "none"
      /\ unsure' = IF error \in Sheet!Unheard THEN unsure \cup {opened} ELSE unsure
      /\ UNCHANGED <<opened, showing, entered, typed, placed>>
  BY <1>1, <1>2 DEF Sheet!Press
<1>4. showing /\ ~submitting /\ submitting' = TRUE
  BY <1>1 DEF Sheet!Press, Sheet!ButtonOn
<1>5. opened \in Nat /\ typed \in Nat
  BY <1>1 DEF TradesInv, SheetType
<1>6. /\ press' \in [Presses -> PressRows]
      /\ press'[n].at = "sent" /\ press'[n].for = opened
      /\ \A r \in Presses : r # n => press'[r] = press[r]
  <2>1. [at |-> "sent", for |-> opened, why |-> typed] \in PressRows
    BY <1>5 DEF PressRows, Answers
  <2> QED BY <1>1, <1>3, <2>1, SheetFacts
<1>7. submitting' \in BOOLEAN
  BY <1>4, Zenon
<1>8. SheetType'
  BY <1>1, <1>3, <1>6, <1>7 DEF TradesInv, SheetType, Errors
<1>9. \A r \in Presses : ~Going(r)
  BY <1>1, <1>4 DEF TradesInv, OneGoes
<1>10. OneGoes'
  <2>1. \A r \in Presses : Going(r)' <=> r = n
    BY <1>6, <1>9 DEF Going
  <2> QED BY <1>3, <1>4, <2>1 DEF OneGoes
<1>11. OverInOpening'
  <2>1. SUFFICES ASSUME NEW r \in Presses
                 PROVE  /\ press'[r].for <= opened
                        /\ press'[r].for = opened /\ press'[r].at = "told filled" => ~showing
                        /\ press'[r].for = opened /\ press'[r].at \in Sheet!Unheard =>
                              opened \in unsure'
    BY <1>3 DEF OverInOpening
  <2>2. CASE r = n
    <3>1. press'[r].at = "sent" /\ press'[r].for = opened
      BY <1>6, <2>2
    <3>2. press'[r].at # "told filled" /\ press'[r].at \notin Sheet!Unheard
      BY <3>1 DEF Sheet!Unheard
    <3>3. press'[r].for <= opened
      BY <1>5, <3>1
    <3> QED BY <3>2, <3>3
  <2>3. CASE r # n
    <3>1. press'[r] = press[r]
      BY <1>6, <2>3
    <3>2. /\ press[r].for <= opened
          /\ press[r].for = opened /\ press[r].at = "told filled" => ~showing
          /\ press[r].for = opened /\ press[r].at \in Sheet!Unheard =>
                 error \in Sheet!Unheard \/ opened \in unsure
      BY <1>1 DEF TradesInv, OverInOpening
    <3>3. error \in Sheet!Unheard \/ opened \in unsure => opened \in unsure'
      BY <1>3
    <3> QED BY <3>1, <3>2, <3>3
  <2> QED BY <2>2, <2>3
<1>12. OnePress'
  <2>1. \A r \in Presses : r # n /\ MayTrade(r) /\ press[r].for = opened => opened \in unsure'
    <3>1. SUFFICES ASSUME NEW r \in Presses, r # n, MayTrade(r), press[r].for = opened
                   PROVE  opened \in unsure'
      OBVIOUS
    <3>2. press[r].at \in {"told filled", "no answer", "still confirming"}
      BY <1>1, <1>9, <3>1, SheetFacts DEF Going, MayTrade, Answers
    <3>3. press[r].at # "told filled"
      BY <1>1, <1>4, <3>1 DEF TradesInv, OverInOpening
    <3>4. error \in Sheet!Unheard \/ opened \in unsure
      BY <1>1, <3>1, <3>2, <3>3 DEF TradesInv, OverInOpening, Sheet!Unheard
    <3> QED BY <1>3, <3>4
  <2>2. \A m : m \notin unsure' => m \notin unsure
    BY <1>3
  <2> QED BY <1>1, <1>6, <2>1, <2>2 DEF TradesInv, OnePress, MayTrade
<1>13. SaysWhatCame'
  <2>1. press[n].at = "unused"
    BY <1>2 DEF Sheet!NotPressed
  <2>2. placed' = placed /\ \A r \in Presses : PlacedOf(placed[r], press[r].at)
    BY <1>1, <1>3 DEF TradesInv, SaysWhatCame
  <2>3. PlacedOf(placed[n], "sent")
    BY <2>1, <2>2 DEF PlacedOf
  <2> QED BY <1>6, <2>2, <2>3 DEF SaysWhatCame
<1> QED BY <1>8, <1>10, <1>11, <1>12, <1>13 DEF TradesInv

\* The API hands a request over, and executes it.
LEMMA SheetPlaces ==
    ASSUME TradesInv, NEW r \in Presses, NEW t \in PlacedRows,
           placed' = [placed EXCEPT ![r] = t], PlacedOf(t, press[r].at),
           UNCHANGED <<opened, showing, entered, typed, submitting, error, press, unsure>>
    PROVE  TradesInv'
<1>1. SheetType'
  BY DEF TradesInv, SheetType
<1>2. \A q \in Presses : placed'[q] = IF q = r THEN t ELSE placed[q]
  BY DEF TradesInv, SheetType
<1>3. SaysWhatCame'
  BY <1>2 DEF TradesInv, SaysWhatCame
<1> QED BY <1>1, <1>3 DEF TradesInv, OneGoes, Going, OverInOpening, OnePress, MayTrade

LEMMA SheetHands ==
    ASSUME TradesInv, NEW r \in Presses, NEW given \in SUBSET Sheet!Executors,
           Sheet!Place(r, given)
    PROVE  TradesInv'
<1>1. PICK h : h = [x \in Sheet!Executors |-> IF x \in given THEN "has" ELSE "none"]
  OBVIOUS
<1>2. h \in [Sheet!Executors -> HandStates]
  BY <1>1 DEF HandStates
<1>3. PICK t : t = [placed[r] EXCEPT !.hand = h]
  OBVIOUS
<1>4. /\ placed' = [placed EXCEPT ![r] = t]
      /\ placed[r] = Sheet!NotPlaced /\ press[r].at \in {"sent", "no answer"}
      /\ UNCHANGED <<opened, showing, entered, typed, submitting, error, press, unsure>>
  BY <1>1, <1>3 DEF Sheet!Place
<1>5. t \in PlacedRows /\ ~t.made /\ t.hand = h
  BY <1>2, <1>3, <1>4, NotPlacedTyped DEF PlacedRows
<1>6. PlacedOf(t, press[r].at)
  <2>1. h["inline"] # "filled"
    BY <1>1 DEF Sheet!Executors
  <2> QED BY <1>4, <1>5, <2>1 DEF PlacedOf
<1> QED BY <1>4, <1>5, <1>6, SheetPlaces

LEMMA SheetExecutes ==
    ASSUME TradesInv, NEW r \in Presses, NEW x \in Sheet!Executors,
           NEW ends \in {"filled", "refused", "errored"}, Sheet!Execute(r, x, ends)
    PROVE  TradesInv'
<1>1. PICK makes \in Sheet!Makes[ends] :
          placed' = [placed EXCEPT ![r].hand[x] = ends, ![r].made = @ \/ makes]
  BY DEF Sheet!Execute
<1>2. makes \in BOOLEAN /\ (makes => ends \in {"filled", "errored"})
  <2>1. /\ Sheet!Makes["filled"] = {TRUE}
        /\ Sheet!Makes["refused"] = {FALSE}
        /\ Sheet!Makes["errored"] = BOOLEAN
    BY DEF Sheet!Makes
  <2>2. CASE ends = "filled"
    <3>1. makes = TRUE
      BY <1>1, <2>1, <2>2
    <3>2. makes \in BOOLEAN
      BY <3>1, Zenon
    <3> QED BY <2>2, <3>2
  <2>3. CASE ends = "refused"
    <3>1. makes = FALSE
      BY <1>1, <2>1, <2>3
    <3>2. makes \in BOOLEAN /\ ~makes
      BY <3>1, Zenon
    <3> QED BY <3>2
  <2>4. CASE ends = "errored"
    <3>1. makes \in BOOLEAN
      BY <1>1, <2>1, <2>4
    <3> QED BY <2>4, <3>1
  <2> QED BY <2>2, <2>3, <2>4
<1>3. /\ placed[r] \in PlacedRows /\ placed[r].hand[x] = "has"
      /\ placed[r].hand \in [Sheet!Executors -> HandStates] /\ placed[r].made \in BOOLEAN
      /\ PlacedOf(placed[r], press[r].at)
  BY DEF Sheet!Execute, TradesInv, SheetType, PlacedRows, SaysWhatCame
<1>4. PICK h : h = [placed[r].hand EXCEPT ![x] = ends]
  OBVIOUS
<1>5. PICK m : m = (placed[r].made \/ makes)
  OBVIOUS
<1>6. PICK t : t = [placed[r] EXCEPT !.hand = h, !.made = m]
  OBVIOUS
<1>7. h \in [Sheet!Executors -> HandStates] /\ h[x] = ends
      /\ \A y \in Sheet!Executors : y # x => h[y] = placed[r].hand[y]
  BY <1>3, <1>4 DEF HandStates
<1>8. m \in BOOLEAN
  BY <1>5, Zenon
<1>9. t \in PlacedRows /\ t.hand = h /\ t.made = m
  <2>1. PICK p \in PlacedRows : p = placed[r]
    BY <1>3
  <2>2. t = [p EXCEPT !.hand = h, !.made = m]
    BY <1>6, <2>1
  <2>3. h \in [Sheet!Executors -> HandStates]
    BY <1>7
  <2>4. t \in PlacedRows
    BY <1>8, <2>2, <2>3 DEF PlacedRows
  <2>5. t.hand = h /\ t.made = m
    BY <1>8, <2>2, <2>3 DEF PlacedRows
  <2> QED BY <2>4, <2>5
<1>10. placed' = [placed EXCEPT ![r] = t]
  <2>1. [placed[r] EXCEPT !.hand[x] = ends, !.made = @ \/ makes] = t
    BY <1>4, <1>5, <1>6, Zenon
  <2> QED BY <1>1, <2>1
<1>11. PlacedOf(t, press[r].at)
  <2>1. placed[r] # Sheet!NotPlaced
    BY <1>3 DEF Sheet!NotPlaced
  <2>2. t.made => \E y \in Sheet!Executors : t.hand[y] \in {"filled", "errored"}
    <3>1. CASE placed[r].made
      <4>1. PICK y \in Sheet!Executors : placed[r].hand[y] \in {"filled", "errored"}
        BY <1>3, <3>1 DEF PlacedOf
      <4> QED BY <1>3, <1>7, <1>9, <4>1
    <3>2. CASE ~placed[r].made
      BY <1>2, <1>5, <1>7, <1>9, <3>2
    <3> QED BY <3>1, <3>2
  <2>3. placed[r].made => t.made
    BY <1>5, <1>9
  <2>4. "inline" \in Sheet!Executors /\ "stream" \in Sheet!Executors
    BY DEF Sheet!Executors
  <2>7. t.hand["inline"] = "filled" => t.made
    <3>1. CASE x = "inline"
      <4>1. ends = "filled" => makes
        BY <1>1 DEF Sheet!Makes
      <4> QED BY <1>5, <1>7, <1>9, <3>1, <4>1
    <3>2. CASE x # "inline"
      BY <1>3, <1>7, <1>9, <2>3, <2>4, <3>2 DEF PlacedOf
    <3> QED BY <3>1, <3>2
  <2>5. placed[r].hand["inline"] = "refused" => t.hand["inline"] = "refused"
    BY <1>3, <1>7, <1>9, <2>4
  <2>6. placed[r].hand["stream"] \in {"refused", "errored"} =>
            t.hand["stream"] \in {"refused", "errored"}
    BY <1>3, <1>7, <1>9, <2>4
  <2> QED BY <1>3, <2>1, <2>2, <2>3, <2>5, <2>6, <2>7 DEF PlacedOf
<1>12. UNCHANGED <<opened, showing, entered, typed, submitting, error, press, unsure>>
  BY DEF Sheet!Execute
<1> QED BY <1>9, <1>10, <1>11, <1>12, SheetPlaces

\* The press that is under way hears that it waits in the queue.
LEMMA SheetQueues ==
    ASSUME TradesInv, NEW r \in Presses, Going(r),
           press' = [press EXCEPT ![r].at = "polling"],
           UNCHANGED <<opened, showing, entered, typed, submitting, error, placed, unsure>>
    PROVE  TradesInv'
<1>1. /\ press' \in [Presses -> PressRows]
      /\ press'[r].at = "polling" /\ press'[r].for = press[r].for
      /\ \A q \in Presses : q # r => press'[q] = press[q]
  BY SheetFacts DEF PressRows, Answers
<1>2. SheetType'
  BY <1>1 DEF TradesInv, SheetType
<1>3. \A q \in Presses : press'[q].for = press[q].for /\ (Going(q)' <=> Going(q))
                         /\ (MayTrade(q)' <=> MayTrade(q))
  BY <1>1 DEF Going, MayTrade
<1>4. OneGoes'
  BY <1>3 DEF TradesInv, OneGoes
<1>5. OverInOpening'
  <2>1. \A q \in Presses : press'[q].at # "polling" => press'[q] = press[q]
    BY <1>1
  <2>2. \A q \in Presses :
            /\ press'[q].for <= opened
            /\ press'[q].for = opened /\ press'[q].at = "told filled" => ~showing
            /\ press'[q].for = opened /\ press'[q].at \in Sheet!Unheard =>
                  error \in Sheet!Unheard \/ opened \in unsure
    BY <1>3, <2>1 DEF TradesInv, OverInOpening, Sheet!Unheard
  <2> QED BY <2>2 DEF OverInOpening
<1>6. OnePress'
  BY <1>3 DEF TradesInv, OnePress
<1>7. SaysWhatCame'
  <2>1. PlacedOf(placed[r], "polling")
    BY DEF TradesInv, SaysWhatCame, PlacedOf
  <2> QED BY <1>1, <2>1 DEF TradesInv, SaysWhatCame
<1> QED BY <1>2, <1>4, <1>5, <1>6, <1>7 DEF TradesInv

\* It is over: filled, refused, or given up.
LEMMA SheetEnds ==
    ASSUME TradesInv, NEW r \in Presses, Going(r),
           NEW what \in {"told filled", "refused", "no answer", "still confirming"},
           press' = [press EXCEPT ![r].at = what], submitting' = FALSE,
           what = "told filled" => placed[r].made /\ showing' = FALSE /\ error' = error,
           what = "refused" => \/ placed[r] = Sheet!NotPlaced
                               \/ placed[r].hand["inline"] = "refused"
                               \/ Sheet!Announced(r),
           what # "told filled" => error' = what /\ showing' = showing,
           UNCHANGED <<opened, entered, typed, placed, unsure>>
    PROVE  TradesInv'
<1>1. /\ press' \in [Presses -> PressRows]
      /\ press'[r].at = what /\ press'[r].for = press[r].for
      /\ \A q \in Presses : q # r => press'[q] = press[q]
  BY SheetFacts DEF PressRows, Answers
<1>2. submitting' \in BOOLEAN /\ ~submitting'
  OBVIOUS
<1>3. showing' = FALSE \/ showing' = showing
  OBVIOUS
<1>4. showing' \in BOOLEAN
  BY <1>3 DEF TradesInv, SheetType
<1>5. error' \in Errors
  BY SheetFacts DEF Errors
<1>6. SheetType'
  BY <1>1, <1>2, <1>4, <1>5 DEF TradesInv, SheetType
<1>7. \A q \in Presses : Going(q) => q = r
  BY DEF TradesInv, OneGoes
<1>8. \A q \in Presses : ~Going(q)'
  BY <1>1, <1>7 DEF Going
<1>9. OneGoes'
  BY <1>2, <1>8 DEF OneGoes
<1>10. error = "none"
  BY DEF TradesInv, OneGoes
<1>11. OverInOpening'
  <2>1. SUFFICES ASSUME NEW q \in Presses
                 PROVE  /\ press'[q].for <= opened
                        /\ press'[q].for = opened /\ press'[q].at = "told filled" => ~showing'
                        /\ press'[q].for = opened /\ press'[q].at \in Sheet!Unheard =>
                              error' \in Sheet!Unheard \/ opened \in unsure
    BY DEF OverInOpening
  <2>2. /\ press[q].for <= opened
        /\ press[q].for = opened /\ press[q].at = "told filled" => ~showing
        /\ press[q].for = opened /\ press[q].at \in Sheet!Unheard =>
               error \in Sheet!Unheard \/ opened \in unsure
    BY DEF TradesInv, OverInOpening
  <2>3. CASE q = r
    <3>1. press'[q].at = what /\ press'[q].for = press[q].for
      BY <1>1, <2>3
    <3>3. what = "told filled" => ~showing'
      OBVIOUS
    <3>4. what \in Sheet!Unheard => error' \in Sheet!Unheard
      BY DEF Sheet!Unheard
    <3> QED BY <2>2, <3>1, <3>3, <3>4
  <2>4. CASE q # r
    <3>1. press'[q] = press[q]
      BY <1>1, <2>4
    <3>2. showing' => showing
      BY <1>3
    <3>3. error \notin Sheet!Unheard
      BY <1>10 DEF Sheet!Unheard
    <3> QED BY <2>2, <3>1, <3>2, <3>3
  <2> QED BY <2>3, <2>4
<1>12. OnePress'
  <2>1. \A q \in Presses : press'[q].for = press[q].for /\ (MayTrade(q)' => MayTrade(q))
    BY <1>1 DEF Going, MayTrade
  <2>2. unsure' = unsure
    OBVIOUS
  <2> QED BY <2>1, <2>2 DEF TradesInv, OnePress
<1>13. SaysWhatCame'
  <2>1. PlacedOf(placed[r], what)
    BY DEF TradesInv, SaysWhatCame, PlacedOf, Sheet!Announced
  <2> QED BY <1>1, <2>1 DEF TradesInv, SaysWhatCame
<1> QED BY <1>6, <1>9, <1>11, <1>12, <1>13 DEF TradesInv

\* The answer "filled" of an inline execution is that of a trade.
LEMMA InlineFilledIsMade ==
    ASSUME TradesInv, NEW r \in Presses, placed[r].hand["inline"] = "filled"
    PROVE  placed[r].made
BY DEF TradesInv, SaysWhatCame, PlacedOf

LEMMA SheetKeeps == TradesInv /\ [Next]_vars => TradesInv'
<1>1. SUFFICES ASSUME TradesInv, [Sheet!Next]_(Sheet!vars) PROVE TradesInv'
  BY SheetStep
<1>2. CASE UNCHANGED Sheet!vars
  BY <1>1, <1>2 DEF Sheet!vars, TradesInv, SheetType, OneGoes, Going, OverInOpening,
     OnePress, MayTrade, SaysWhatCame
<1>3. ASSUME NEW r \in Presses, Going(r), placed[r].made /\ Sheet!Filled(r) PROVE TradesInv'
  BY <1>1, <1>3, SheetEnds DEF Sheet!Filled
<1>4. ASSUME NEW r \in Presses, Going(r), Sheet!Failed(r, "refused"),
             \/ placed[r] = Sheet!NotPlaced
             \/ placed[r].hand["inline"] = "refused"
             \/ Sheet!Announced(r)
      PROVE  TradesInv'
  BY <1>1, <1>4, SheetEnds DEF Sheet!Failed
<1>5. ASSUME NEW r \in Presses, Going(r), NEW what \in {"no answer", "still confirming"},
             Sheet!Failed(r, what)
      PROVE  TradesInv'
  BY <1>1, <1>5, SheetEnds DEF Sheet!Failed
<1>6. ASSUME NEW r \in Presses, Sheet!TurnAway(r) PROVE TradesInv'
  BY <1>4, <1>6 DEF Sheet!TurnAway, Going
<1>7. ASSUME NEW r \in Presses, Sheet!AnswerInline(r) PROVE TradesInv'
  <2>1. Going(r)
    BY <1>7 DEF Sheet!AnswerInline, Going
  <2>2. CASE placed[r].hand["inline"] = "filled" /\ Sheet!Filled(r)
    BY <1>1, <1>3, <2>1, <2>2, InlineFilledIsMade
  <2>3. CASE placed[r].hand["inline"] = "refused" /\ Sheet!Failed(r, "refused")
    BY <1>4, <2>1, <2>3
  <2>4. CASE Sheet!Failed(r, "no answer")
    BY <1>5, <2>1, <2>4
  <2> QED BY <1>7, <2>2, <2>3, <2>4 DEF Sheet!AnswerInline
<1>8. ASSUME NEW r \in Presses, Sheet!AnswerQueued(r) PROVE TradesInv'
  <2>1. Going(r)
    BY <1>8 DEF Sheet!AnswerQueued, Going
  <2>2. CASE placed[r].made /\ Sheet!Filled(r)
    BY <1>3, <2>1, <2>2
  <2>3. CASE Sheet!Announced(r) /\ Sheet!Failed(r, "refused")
    BY <1>4, <2>1, <2>3
  <2>4. CASE press' = [press EXCEPT ![r].at = "polling"]
             /\ UNCHANGED <<opened, showing, entered, typed, submitting, error, placed, unsure>>
    BY <1>1, <2>1, <2>4, SheetQueues
  <2> QED BY <1>8, <2>2, <2>3, <2>4 DEF Sheet!AnswerQueued
<1>9. ASSUME NEW r \in Presses, Sheet!Poll(r) PROVE TradesInv'
  BY <1>3, <1>4, <1>9 DEF Sheet!Poll, Going
<1>10. ASSUME NEW r \in Presses, Sheet!Lose(r) \/ Sheet!GiveUp(r) PROVE TradesInv'
  <2>1. PICK what \in {"no answer", "still confirming"} : Going(r) /\ Sheet!Failed(r, what)
    BY <1>10 DEF Sheet!Lose, Sheet!GiveUp, Going
  <2> QED BY <1>5, <2>1
<1>11. ASSUME NEW r \in Presses, NEW given \in SUBSET Sheet!Executors \ {{}},
              Sheet!Place(r, given)
       PROVE  TradesInv'
  BY <1>1, <1>11, SheetHands
<1>12. ASSUME NEW r \in Presses, NEW x \in Sheet!Executors, NEW ends \in DOMAIN Sheet!Makes,
              Sheet!Execute(r, x, ends)
       PROVE  TradesInv'
  <2>1. ends \in {"filled", "refused", "errored"}
    BY DEF Sheet!Makes
  <2> QED BY <1>1, <1>12, <2>1, SheetExecutes
<1> QED BY <1>1, <1>2, <1>6, <1>7, <1>8, <1>9, <1>10, <1>11, <1>12, SheetOpens, SheetIdles,
           SheetPresses
    DEF Sheet!Next

LEMMA AtMostOne ==
    ASSUME NEW S, \A x, y \in S : x = y
    PROVE  Cardinality(S) <= 1
<1>1. CASE S = {}
  BY <1>1, FS_EmptySet
<1>2. CASE S # {}
  <2>1. PICK x : S = {x}
    BY <1>2
  <2> QED BY <2>1, FS_Singleton
<1> QED BY <1>1, <1>2

\* What was made is not said to be refused, but for one handed over twice or one
\* the worker erred on.
LEMMA RefusedIsRefused == TradesInv => Sheet!ToldIsTrue
<1>1. SUFFICES ASSUME TradesInv, NEW r \in Presses
               PROVE  /\ press[r].at = "told filled" => placed[r].made
                      /\ press[r].at = "refused" /\ placed[r].made =>
                             \/ Sheet!HandedTwice(r)
                             \/ placed[r].hand["stream"] = "errored"
  BY DEF Sheet!ToldIsTrue
<1>2. PlacedOf(placed[r], press[r].at)
  BY <1>1 DEF TradesInv, SaysWhatCame
<1>3. SUFFICES ASSUME press[r].at = "refused", placed[r].made,
                      placed[r].hand["stream"] # "errored"
               PROVE  Sheet!HandedTwice(r)
  BY <1>2 DEF PlacedOf
<1>4. PICK x \in Sheet!Executors : placed[r].hand[x] \in {"filled", "errored"}
  BY <1>2, <1>3 DEF PlacedOf
<1>5. \/ placed[r].hand["inline"] = "refused"
      \/ placed[r].hand["stream"] = "refused"
  BY <1>2, <1>3, NotPlacedTyped DEF PlacedOf
<1>6. PICK h : h = placed[r].hand
  OBVIOUS
<1>7. h["stream"] # "none" /\ h["inline"] # "none"
  BY <1>3, <1>4, <1>5, <1>6 DEF Sheet!Executors
<1> QED BY <1>6, <1>7 DEF Sheet!HandedTwice, Sheet!Executors

LEMMA SheetIsTold == TradesInv => Sheet!SheetTells
<1>1. SUFFICES ASSUME TradesInv PROVE Sheet!SheetTells
  OBVIOUS
<1>2. Sheet!OneTradeUnlessUnsure
  <2>1. SUFFICES ASSUME NEW n \in 1 .. MaxOpened, n \notin unsure,
                        \A r \in Sheet!TradesOf(n) : press[r].at # "refused"
                 PROVE  ~(Sheet!Cardinality(Sheet!TradesOf(n)) > 1)
    BY DEF Sheet!OneTradeUnlessUnsure
  <2>2. PICK S : S = Sheet!TradesOf(n)
    OBVIOUS
  <2>3. \A r \in S : r \in Presses /\ MayTrade(r) /\ press[r].for = n
    <3>1. SUFFICES ASSUME NEW r \in S PROVE r \in Presses /\ MayTrade(r) /\ press[r].for = n
      OBVIOUS
    <3>2. r \in Presses /\ press[r].for = n /\ placed[r].made /\ press[r].at # "refused"
      BY <2>1, <2>2 DEF Sheet!TradesOf
    <3>3. press[r].at # "unused"
      BY <1>1, <3>2, NotPlacedTyped DEF TradesInv, SaysWhatCame, PlacedOf
    <3> QED BY <3>2, <3>3 DEF MayTrade
  <2>4. \A q, r \in S : q = r
    BY <1>1, <2>1, <2>3 DEF TradesInv, OnePress
  <2>5. Cardinality(S) <= 1 /\ Cardinality(S) \in Nat
    <3>1. IsFiniteSet(S)
      <4>1. CASE S = {}
        BY <4>1, FS_EmptySet
      <4>2. CASE S # {}
        <5>1. PICK x : S = {x}
          BY <2>4, <4>2
        <5> QED BY <5>1, FS_Singleton
      <4> QED BY <4>1, <4>2
    <3> QED BY <2>4, <3>1, AtMostOne, FS_CardinalityType
  <2>6. Sheet!Cardinality(S) = Cardinality(S)
    BY DEF Sheet!Cardinality, Cardinality
  <2> QED BY <2>2, <2>5, <2>6
<1>3. Sheet!OneAtATime
  <2>1. PICK S : S = {r \in Presses : press[r].at \in {"sent", "polling"}}
    OBVIOUS
  <2>2. \A q, r \in S : q = r
    BY <1>1, <2>1 DEF TradesInv, OneGoes, Going
  <2>3. Sheet!Cardinality(S) <= 1
    <3>1. Sheet!Cardinality(S) = Cardinality(S)
      BY DEF Sheet!Cardinality, Cardinality
    <3> QED BY <2>2, <3>1, AtMostOne
  <2>4. submitting <=> S # {}
    BY <1>1, <2>1 DEF TradesInv, OneGoes, Going
  <2>5. submitting \in BOOLEAN
    BY <1>1 DEF TradesInv, SheetType
  <2>6. submitting = (S # {})
    BY <2>4, <2>5
  <2> QED BY <2>1, <2>3, <2>6 DEF Sheet!OneAtATime
<1> QED BY <1>1, <1>2, <1>3, RefusedIsRefused DEF Sheet!SheetTells

-----------------------------------------------------------------------------
(* The form.                                                               *)

LEMMA FormStep == [Next]_vars => [Form!Next]_(Form!vars)
BY DEF Next, vars, form, Form!vars

FormStates == {"none", "suggested", "rejected", "unavailable"}

Fields == Contents \cup {0}

FormType ==
    /\ content \in Fields /\ formPath \in Form!Paths
    /\ submitted \in {"none", "suggested", "rejected"}
    /\ sending \in [at : {"none", "sent", "screened"}, content : Fields,
                    path : Form!Paths, state : FormStates]
    /\ drafts \in Seq([content : Fields, path : Form!Paths, state : FormStates])
    /\ sending.at # "none" => submitted = "none"
    /\ sending.at = "screened" => sending.state # "none"

FiledAs(s) == \E i \in DOMAIN drafts : drafts[i].state = s

\* How many drafts a page has filed that heard of each.
DraftsHeardOf ==
    ~sentTwice =>
        /\ submitted = "none" /\ sending.at # "screened" => Len(drafts) = 0
        /\ sending.at = "screened" => Len(drafts) <= 1
        /\ sending.at = "screened" /\ sending.state = "unavailable" => Len(drafts) = 0
        /\ submitted # "none" => Len(drafts) <= 1

\* What the page was told, or is about to be told, was filed.
ToldIsFiled ==
    /\ sending.at = "screened" /\ sending.state # "unavailable" => FiledAs(sending.state)
    /\ submitted # "none" => FiledAs(submitted)

\* A question that is away is about the form, unless that was edited since.
AskedOfTheForm == question.kind # "none" /\ ~edited => question.about = content

FormInv ==
    FormType /\ DraftsHeardOf /\ ToldIsFiled /\ AskedOfTheForm /\ Form!PathIsChosen

LEMMA FormInit == Init => FormInv
<1>1. SUFFICES ASSUME Init PROVE FormInv
  OBVIOUS
<1>2. /\ content = 0 /\ formPath = "organic" /\ chosen = "organic" /\ submitted = "none"
      /\ sending = Form!Unsent /\ drafts = <<>> /\ question = Form!Away
  BY <1>1 DEF Init, Form!Init
<1>3. sending.at = "none" /\ question.kind = "none"
  BY <1>2 DEF Form!Unsent, Form!Away
<1>4. FormType
  BY <1>2, <1>3 DEF FormType, Form!Unsent, Fields, Form!Paths, FormStates
<1>5. Len(drafts) = 0
  BY <1>2
<1> QED BY <1>2, <1>3, <1>4, <1>5
        DEF FormInv, DraftsHeardOf, ToldIsFiled, AskedOfTheForm, Form!PathIsChosen

\* What the creator does to the form, and what the co-pilot makes of it.
LEMMA FormEdited ==
    ASSUME FormInv,
           \/ Form!Edit \/ Form!ApplyTemplate \/ Form!Think \/ Form!ThinkFails
           \/ \E p \in Form!Paths : Form!Choose(p)
           \/ \E k \in {"copilot", "check"} : Form!Ask(k)
    PROVE  FormInv'
<1>1. UNCHANGED <<sending, submitted, drafts, sentTwice>>
  BY DEF Form!Edit, Form!ApplyTemplate, Form!Think, Form!ThinkFails, Form!Choose, Form!Ask,
         Form!history
<1>2. content' \in Fields
  BY DEF FormInv, FormType, Fields, Form!Edit, Form!ApplyTemplate, Form!Think,
         Form!ThinkFails, Form!Choose, Form!Ask, Form!Copilot, Form!CheckBalance,
         Form!Suggestion
<1>3. formPath' \in Form!Paths /\ formPath' = chosen'
  BY DEF FormInv, FormType, Form!PathIsChosen, Form!Edit, Form!ApplyTemplate, Form!Think,
         Form!ThinkFails, Form!Choose, Form!Ask, Form!Copilot, Form!CheckBalance,
         Form!KeptPath, Form!history
<1>4. AskedOfTheForm'
  <2>1. CASE Form!Edit \/ Form!ApplyTemplate
    <3>1. edited'
      BY <2>1 DEF Form!Edit, Form!ApplyTemplate
    <3> QED BY <3>1 DEF AskedOfTheForm
  <2>2. CASE Form!Think \/ Form!ThinkFails
    <3>1. question'.kind = "none"
      BY <2>2 DEF Form!Think, Form!ThinkFails, Form!Away
    <3> QED BY <3>1 DEF AskedOfTheForm
  <2>3. CASE \E p \in Form!Paths : Form!Choose(p)
    BY <2>3 DEF FormInv, AskedOfTheForm, Form!Choose
  <2>4. CASE \E k \in {"copilot", "check"} : Form!Ask(k)
    <3>1. question'.about = content'
      BY <2>4 DEF Form!Ask
    <3> QED BY <3>1 DEF AskedOfTheForm
  <2> QED BY <2>1, <2>2, <2>3, <2>4
<1> QED BY <1>1, <1>2, <1>3, <1>4
        DEF FormInv, FormType, DraftsHeardOf, ToldIsFiled, FiledAs, Form!PathIsChosen

\* It is sent, and the answer comes back or is lost.
LEMMA FormSent ==
    ASSUME FormInv, Form!Send \/ Form!Answer \/ Form!LoseAnswer
    PROVE  FormInv'
<1>1. UNCHANGED <<content, formPath, question, drafts, chosen, edited>>
  BY DEF Form!Send, Form!Answer, Form!LoseAnswer, Form!history
<1>2. AskedOfTheForm' /\ Form!PathIsChosen'
  BY <1>1 DEF FormInv, AskedOfTheForm, Form!PathIsChosen
<1>3. CASE Form!Send
  <2>1. /\ sending' = [at |-> "sent", content |-> content, path |-> formPath, state |-> "none"]
        /\ UNCHANGED <<submitted, sentTwice>> /\ submitted = "none" /\ sending.at = "none"
    BY <1>3 DEF Form!Send, Form!Form, Form!history
  <2>2. sending'.at = "sent"
    BY <2>1
  <2>3. FormType'
    BY <1>1, <2>1 DEF FormInv, FormType, FormStates
  <2>4. DraftsHeardOf' /\ ToldIsFiled'
    BY <1>1, <2>1, <2>2 DEF FormInv, DraftsHeardOf, ToldIsFiled
  <2> QED BY <1>2, <2>3, <2>4 DEF FormInv
<1>4. ASSUME Form!Answer \/ Form!LoseAnswer
      PROVE  /\ sending'.at = "none"
             /\ sending' \in [at : {"none", "sent", "screened"}, content : Fields,
                              path : Form!Paths, state : FormStates]
  <2>1. sending' = Form!Unsent
    BY <1>4 DEF Form!Answer, Form!LoseAnswer
  <2> QED BY <2>1 DEF Form!Unsent, Fields, Form!Paths, FormStates
<1>5. CASE Form!Answer
  <2>1. /\ sending.at = "screened" /\ sentTwice' = sentTwice
        /\ sending.state = "unavailable" => submitted' = submitted
        /\ sending.state # "unavailable" => submitted' = sending.state
    BY <1>5 DEF Form!Answer, Form!history
  <2>2. submitted = "none" /\ sending.state \in FormStates
    BY <2>1 DEF FormInv, FormType
  <2>3. sending.state # "none"
    BY <2>1 DEF FormInv, FormType
  <2>4. FormType'
    BY <1>1, <1>4, <1>5, <2>1, <2>2, <2>3 DEF FormInv, FormType, FormStates
  <2>5. DraftsHeardOf'
    BY <1>1, <1>4, <1>5, <2>1, <2>2, <2>3 DEF FormInv, DraftsHeardOf
  <2>6. ToldIsFiled'
    BY <1>1, <1>4, <1>5, <2>1, <2>2 DEF FormInv, ToldIsFiled, FiledAs
  <2> QED BY <1>2, <2>3, <2>4, <2>5, <2>6 DEF FormInv
<1>6. CASE Form!LoseAnswer
  <2>1. sentTwice' /\ submitted' = submitted
    BY <1>6 DEF Form!LoseAnswer
  <2>2. FormType'
    BY <1>1, <1>4, <1>6, <2>1 DEF FormInv, FormType
  <2>3. DraftsHeardOf' /\ ToldIsFiled'
    BY <1>1, <1>4, <1>6, <2>1 DEF FormInv, DraftsHeardOf, ToldIsFiled, FiledAs
  <2> QED BY <1>2, <2>2, <2>3 DEF FormInv
<1> QED BY <1>3, <1>5, <1>6

\* The API screens what it was sent, and files it.
LEMMA FormScreened ==
    ASSUME FormInv, NEW s \in {"suggested", "rejected", "unavailable"}, Form!Screen(s)
    PROVE  FormInv'
<1> DEFINE Draft == [content : Fields, path : Form!Paths, state : FormStates]
           d == [content |-> sending.content, path |-> sending.path, state |-> s]
<1>1. /\ sending.at = "sent" /\ sending' = [sending EXCEPT !.at = "screened", !.state = s]
      /\ UNCHANGED <<content, formPath, question, submitted, chosen, edited, sentTwice>>
      /\ s = "unavailable" => drafts' = drafts
      /\ s # "unavailable" => drafts' = Append(drafts, d)
  BY DEF Form!Screen, Form!history
<1>2. /\ sending'.at = "screened" /\ sending'.state = s
      /\ sending' \in [at : {"none", "sent", "screened"}, content : Fields,
                       path : Form!Paths, state : FormStates]
  BY <1>1 DEF FormInv, FormType, FormStates
<1>3. d \in Draft /\ d.state = s
  BY DEF FormInv, FormType, FormStates
<1>4. drafts \in Seq(Draft) /\ Len(drafts) \in Nat
  BY DEF FormInv, FormType
<1> HIDE DEF Draft, d
<1>5. /\ Append(drafts, d) \in Seq(Draft) /\ Len(Append(drafts, d)) = Len(drafts) + 1
      /\ Append(drafts, d)[Len(drafts) + 1] = d
      /\ Len(drafts) + 1 \in DOMAIN Append(drafts, d)
  BY <1>3, <1>4, AppendProperties
<1>6. drafts' \in Seq(Draft)
  BY <1>1, <1>4, <1>5
<1>7. submitted = "none"
  BY <1>1 DEF FormInv, FormType
<1>8. FormType'
  BY <1>1, <1>2, <1>6, <1>7 DEF FormInv, FormType, Draft
<1>9. ~sentTwice => Len(drafts) = 0
  BY <1>1, <1>7 DEF FormInv, DraftsHeardOf
<1>10. DraftsHeardOf'
  <2>1. ~sentTwice /\ s = "unavailable" => Len(drafts') = 0
    BY <1>1, <1>9
  <2>2. ~sentTwice => Len(drafts') <= 1
    <3>1. CASE s = "unavailable"
      BY <2>1, <3>1
    <3>2. CASE s # "unavailable"
      <4>1. Len(drafts') = Len(drafts) + 1
        BY <1>1, <1>5, <3>2
      <4> QED BY <1>9, <4>1
    <3> QED BY <3>1, <3>2
  <2> QED BY <1>1, <1>2, <1>7, <2>1, <2>2 DEF DraftsHeardOf
<1>11. ToldIsFiled'
  <2>1. s # "unavailable" => \E i \in DOMAIN drafts' : drafts'[i].state = s
    BY <1>1, <1>3, <1>5
  <2> QED BY <1>1, <1>2, <1>7, <2>1 DEF ToldIsFiled, FiledAs
<1>12. AskedOfTheForm' /\ Form!PathIsChosen'
  BY <1>1 DEF FormInv, AskedOfTheForm, Form!PathIsChosen
<1> QED BY <1>8, <1>10, <1>11, <1>12 DEF FormInv

LEMMA FormKeeps == FormInv /\ [Next]_vars => FormInv'
<1>1. SUFFICES ASSUME FormInv, [Form!Next]_(Form!vars) PROVE FormInv'
  BY FormStep
<1>2. CASE UNCHANGED Form!vars
  BY <1>1, <1>2 DEF Form!vars, FormInv, FormType, DraftsHeardOf, ToldIsFiled, FiledAs,
     AskedOfTheForm, Form!PathIsChosen
<1>3. CASE Form!Next
  BY <1>1, <1>3, FormEdited, FormSent, FormScreened DEF Form!Next
<1> QED BY <1>1, <1>2, <1>3

\* The meter moves to what it was asked about, or to the form as suggested.
LEMMA MeterIsHonest ==
    FormInv /\ [Next]_vars => [meter' # meter => meter' = content' \/ edited]_meter
<1>1. SUFFICES ASSUME FormInv, [Form!Next]_(Form!vars), meter' # meter, ~edited
               PROVE  meter' = content'
  BY FormStep
<1>2. Form!Think
  BY <1>1 DEF Form!vars, Form!Next, Form!Edit, Form!ApplyTemplate, Form!ThinkFails,
     Form!Choose, Form!Ask, Form!Send, Form!Answer, Form!LoseAnswer, Form!Screen
<1>3. CASE Form!Copilot
  BY <1>3 DEF Form!Copilot, Form!Suggestion
<1>4. CASE Form!CheckBalance
  BY <1>1, <1>4 DEF Form!CheckBalance, FormInv, AskedOfTheForm
<1> QED BY <1>2, <1>3, <1>4 DEF Form!Think

LEMMA FormIsFiled == FormInv => Form!FiledOnce
<1>1. SUFFICES ASSUME FormInv PROVE Form!FiledOnce
  OBVIOUS
<1>2. Len(drafts) \in Nat
  BY <1>1 DEF FormInv, FormType
<1>3. ~sentTwice => Len(drafts) <= 1
  BY <1>1, <1>2 DEF FormInv, DraftsHeardOf
<1>4. Len(drafts) > 1 => sentTwice
  BY <1>2, <1>3
<1> QED BY <1>1, <1>4 DEF FormInv, ToldIsFiled, FiledAs, Form!FiledOnce

\* What the sheet says of a trade is so, but for a refusal of a request that was
\* executed twice or that the worker erred on, and an opening of it makes one trade
\* unless the button was pressed over an error that left the first in the dark or
\* over such a refusal;
\* the form keeps the path its creator chose, files one draft unless an answer
\* was lost, and the meter speaks of the form (trade-sheet.tsx, app/create/page.tsx).
THEOREM PagesTellTrue == Spec => PagesTell
<1>1. Init => TradesInv /\ FormInv
  BY SheetInit, FormInit
<1>2. TradesInv /\ FormInv /\ [Next]_vars => (TradesInv /\ FormInv)'
  BY SheetKeeps, FormKeeps
<1>3. TradesInv => Sheet!SheetTells
  BY SheetIsTold
<1>4. FormInv => Form!FiledOnce /\ Form!PathIsChosen
  BY FormIsFiled DEF FormInv
<1>5. FormInv /\ [Next]_vars => [meter' # meter => meter' = content' \/ edited]_meter
  BY MeterIsHonest
<1> QED BY <1>1, <1>2, <1>3, <1>4, <1>5, PTL
        DEF Spec, PagesTell, Form!FormTells, Form!MeterSpeaksOfTheForm

-----------------------------------------------------------------------------
(* An order of a finite set, and the places of a falling list of scores.   *)

\* Whom a relation R puts before p, of those in E.
Preceding(E, R, p) == {q \in E : <<q, p>> \in R}

\* A finite set in a strict order: whoever has i - 1 before it is the i-th.
LEMMA EveryPlaceIsTaken ==
    ASSUME NEW E, IsFiniteSet(E), NEW R,
           \A p \in E : <<p, p>> \notin R,
           \A p, q \in E : p = q \/ <<p, q>> \in R \/ <<q, p>> \in R,
           \A p, q, r \in E : <<p, q>> \in R /\ <<q, r>> \in R => <<p, r>> \in R
    PROVE  /\ \A i \in 1 .. Cardinality(E) :
                 \E p \in E : Cardinality(Preceding(E, R, p)) = i - 1
           /\ \A p, q \in E :
                 Cardinality(Preceding(E, R, p)) < Cardinality(Preceding(E, R, q)) =>
                     <<p, q>> \in R
<1>n. Cardinality(E) \in Nat
  BY FS_CardinalityType
<1>1. ASSUME NEW p \in E
      PROVE  /\ Preceding(E, R, p) \in SUBSET E /\ IsFiniteSet(Preceding(E, R, p))
             /\ Cardinality(Preceding(E, R, p)) \in 0 .. (Cardinality(E) - 1)
  <2>1. PICK A : A = Preceding(E, R, p)
    OBVIOUS
  <2>2. A \in SUBSET E /\ p \notin A
    BY <2>1 DEF Preceding
  <2>3. IsFiniteSet(A) /\ Cardinality(A) <= Cardinality(E) /\ Cardinality(A) # Cardinality(E)
    BY <2>2, FS_Subset
  <2>4. Cardinality(A) \in Nat
    BY <2>3, FS_CardinalityType
  <2> QED BY <1>n, <2>1, <2>2, <2>3, <2>4
<1>2. ASSUME NEW p \in E, NEW q \in E, <<p, q>> \in R
      PROVE  Cardinality(Preceding(E, R, p)) < Cardinality(Preceding(E, R, q))
  <2>1. PICK A, B : A = Preceding(E, R, p) /\ B = Preceding(E, R, q)
    OBVIOUS
  <2>2. A \in SUBSET B /\ p \in B /\ p \notin A
    BY <1>2, <2>1 DEF Preceding
  <2>3. IsFiniteSet(B) /\ Cardinality(A) \in Nat /\ Cardinality(B) \in Nat
    BY <1>1, <2>1, FS_CardinalityType
  <2>4. Cardinality(A) <= Cardinality(B) /\ Cardinality(A) # Cardinality(B)
    BY <2>2, <2>3, FS_Subset
  <2> QED BY <2>1, <2>3, <2>4
<1>3. ASSUME NEW p \in E, NEW q \in E,
             Cardinality(Preceding(E, R, p)) < Cardinality(Preceding(E, R, q))
      PROVE  <<p, q>> \in R
  <2>1. Cardinality(Preceding(E, R, p)) \in Int /\ Cardinality(Preceding(E, R, q)) \in Int
    BY <1>1
  <2>2. p # q /\ <<q, p>> \notin R
    BY <1>2, <1>3, <2>1
  <2> QED BY <2>2
<1>4. PICK n : n = Cardinality(E)
  OBVIOUS
<1>5. PICK f : f = [p \in E |-> Cardinality(Preceding(E, R, p))]
  OBVIOUS
<1>6. f \in Injection(E, 0 .. (n - 1))
  <2>1. f \in [E -> 0 .. (n - 1)]
    BY <1>1, <1>4, <1>5
  <2>2. ASSUME NEW p \in E, NEW q \in E, f[p] = f[q] PROVE p = q
    <3>1. f[p] \in Int /\ f[q] \in Int
      BY <2>1
    <3>2. <<p, q>> \in R => f[p] < f[q]
      BY <1>2, <1>5
    <3>3. <<q, p>> \in R => f[q] < f[p]
      BY <1>2, <1>5
    <3> QED BY <2>2, <3>1, <3>2, <3>3
  <2> QED BY <2>1, <2>2, Fun_IsInj
<1>7. IsFiniteSet(0 .. (n - 1)) /\ Cardinality(0 .. (n - 1)) = n
  <2>1. PICK a, b : a = 0 /\ b = n - 1 /\ a \in Int /\ b \in Int
    BY <1>n, <1>4
  <2>2. /\ IsFiniteSet(a .. b)
        /\ Cardinality(a .. b) = IF a > b THEN 0 ELSE b - a + 1
    BY <2>1, FS_Interval
  <2> QED BY <1>n, <1>4, <2>1, <2>2
<1>8. f \in Surjection(E, 0 .. (n - 1))
  BY <1>4, <1>6, <1>7, FS_Injection
<1>9. ASSUME NEW i \in 1 .. n PROVE \E p \in E : Cardinality(Preceding(E, R, p)) = i - 1
  <2>1. i - 1 \in 0 .. (n - 1)
    BY <1>n, <1>4
  <2>2. PICK p \in E : f[p] = i - 1
    BY <1>8, <2>1 DEF Surjection
  <2> QED BY <1>5, <2>2
<1> QED BY <1>3, <1>4, <1>9

\* The places of n scores in falling order: equal scores share one.
SharesPlaces(a, n, h) ==
    h = [i \in 1 .. n |-> IF i > 1 /\ a[i] = a[i - 1] THEN h[i - 1] ELSE i]

Better(a, n, i) == {j \in 1 .. n : a[j] > a[i]}

LEMMA BetterCounted ==
    ASSUME NEW n \in Nat, NEW a, NEW i \in 1 .. n,
           \A j \in 1 .. n : a[j] \in Int,
           \A j, k \in 1 .. n : j < k => a[j] >= a[k]
    PROVE  /\ i > 1 /\ a[i] = a[i - 1] => Better(a, n, i) = Better(a, n, i - 1)
           /\ ~(i > 1 /\ a[i] = a[i - 1]) => Cardinality(Better(a, n, i)) = i - 1
<1>1. CASE i > 1 /\ a[i] = a[i - 1]
  BY <1>1 DEF Better
<1>2. CASE ~(i > 1 /\ a[i] = a[i - 1])
  <2>1. PICK x, y : x = 1 /\ y = i - 1 /\ x \in Int /\ y \in Int
    OBVIOUS
  <2>2. ASSUME NEW j \in x .. y PROVE j \in Better(a, n, i)
    <3>1. j \in 1 .. n /\ j < i /\ i > 1 /\ i - 1 \in 1 .. n
      BY <2>1
    <3>2. a[i - 1] >= a[i] /\ a[i - 1] # a[i]
      BY <1>2, <3>1
    <3>3. j = i - 1 \/ a[j] >= a[i - 1]
      BY <3>1
    <3>4. a[j] > a[i]
      BY <3>1, <3>2, <3>3
    <3> QED BY <3>1, <3>4 DEF Better
  <2>3. ASSUME NEW j \in Better(a, n, i) PROVE j \in x .. y
    <3>1. j \in 1 .. n /\ a[j] > a[i] /\ a[j] \in Int /\ a[i] \in Int
      BY DEF Better
    <3>2. ~(j > i) /\ j # i
      <4>1. j > i => a[i] >= a[j]
        BY <3>1
      <4> QED BY <3>1, <4>1
    <3> QED BY <2>1, <3>1, <3>2
  <2>4. Better(a, n, i) = x .. y
    BY <2>2, <2>3
  <2>5. Cardinality(x .. y) = IF x > y THEN 0 ELSE y - x + 1
    BY <2>1, FS_Interval
  <2> QED BY <1>2, <2>1, <2>4, <2>5
<1> QED BY <1>1, <1>2

LEMMA PlacesExist ==
    ASSUME NEW n \in Nat, NEW a,
           \A j \in 1 .. n : a[j] \in Int,
           \A j, k \in 1 .. n : j < k => a[j] >= a[k]
    PROVE  \E h : SharesPlaces(a, n, h)
<1>1. PICK w : w = [i \in 1 .. n |-> 1 + Cardinality(Better(a, n, i))]
  OBVIOUS
<1>2. ASSUME NEW i \in 1 .. n
      PROVE  w[i] = IF i > 1 /\ a[i] = a[i - 1] THEN w[i - 1] ELSE i
  <2>1. CASE i > 1 /\ a[i] = a[i - 1]
    <3>1. i - 1 \in 1 .. n /\ Better(a, n, i) = Better(a, n, i - 1)
      BY <2>1, BetterCounted
    <3> QED BY <1>1, <2>1, <3>1
  <2>2. CASE ~(i > 1 /\ a[i] = a[i - 1])
    <3>1. Cardinality(Better(a, n, i)) = i - 1
      BY <2>2, BetterCounted
    <3>2. w[i] = i
      BY <1>1, <3>1
    <3> QED BY <2>2, <3>2
  <2> QED BY <2>1, <2>2
<1>3. w = [i \in 1 .. n |-> IF i > 1 /\ a[i] = a[i - 1] THEN w[i - 1] ELSE i]
  BY <1>1, <1>2
<1> QED BY <1>3 DEF SharesPlaces

\* A place is one more than the number of better scores.
LEMMA PlacesCountTheBetter ==
    ASSUME NEW n \in Nat, NEW a,
           \A j \in 1 .. n : a[j] \in Int,
           \A j, k \in 1 .. n : j < k => a[j] >= a[k],
           NEW h, SharesPlaces(a, n, h)
    PROVE  \A i \in 1 .. n : h[i] = 1 + Cardinality(Better(a, n, i))
<1> DEFINE T == {m \in Nat : m \in 1 .. n => h[m] = 1 + Cardinality(Better(a, n, m))}
<1>h. \A i \in 1 .. n : h[i] = IF i > 1 /\ a[i] = a[i - 1] THEN h[i - 1] ELSE i
  BY DEF SharesPlaces
<1>1. 0 \in T
  OBVIOUS
<1>2. ASSUME NEW m \in Nat, m \in T PROVE m + 1 \in T
  <2>1. SUFFICES ASSUME m + 1 \in 1 .. n
                 PROVE  h[m + 1] = 1 + Cardinality(Better(a, n, m + 1))
    OBVIOUS
  <2>2. PICK i : i = m + 1
    OBVIOUS
  <2>3. i \in 1 .. n /\ i - 1 = m
    BY <2>1, <2>2
  <2>4. CASE i > 1 /\ a[i] = a[i - 1]
    <3>1. m \in 1 .. n /\ h[i] = h[m] /\ h[m] = 1 + Cardinality(Better(a, n, m))
      BY <1>2, <1>h, <2>3, <2>4
    <3>2. Better(a, n, i) = Better(a, n, i - 1)
      BY <2>3, <2>4, BetterCounted
    <3> QED BY <2>2, <2>3, <3>1, <3>2
  <2>5. CASE ~(i > 1 /\ a[i] = a[i - 1])
    <3>1. Cardinality(Better(a, n, i)) = i - 1
      BY <2>3, <2>5, BetterCounted
    <3>2. h[i] = i
      BY <1>h, <2>3, <2>5
    <3> QED BY <2>2, <2>3, <3>1, <3>2
  <2> QED BY <2>4, <2>5
<1>3. Nat \subseteq T
  <2> HIDE DEF T
  <2> QED BY <1>1, <1>2, NatSetInduction
<1> QED BY <1>3

-----------------------------------------------------------------------------
(* Leaderboard.                                                            *)

LEMMA BoardCounts == ASSUME NEW S PROVE Board!Cardinality(S) = Cardinality(S)
BY DEF Board!Cardinality, Cardinality

LEMMA BoardStep == [Next]_vars => [Board!Next]_(Board!vars)
BY DEF Next, vars, board, Board!vars

Close == [market : BoardMarkets, week : Weeks \cup {1}, outcome : Board!Sides]

ClosesType == settled \in Seq(Close) /\ week \in Weeks \cup {1}

LEMMA PeriodIsFinite ==
    ASSUME ClosesType, NEW t
    PROVE  /\ IsFiniteSet(Board!InPeriod(t)) /\ Board!InPeriod(t) \subseteq DOMAIN settled
           /\ IsFiniteSet(Players)
<1>1. Len(settled) \in Nat /\ DOMAIN settled = 1 .. Len(settled)
  BY LenProperties DEF ClosesType
<1>2. PICK a, b : a = 1 /\ b = Len(settled) /\ a \in Int /\ b \in Int
  BY <1>1
<1>3. IsFiniteSet(a .. b)
  BY <1>2, FS_Interval
<1>4. PICK U, V : U = DOMAIN settled /\ V = Board!InPeriod(t)
  OBVIOUS
<1>5. IsFiniteSet(U) /\ V \in SUBSET U
  BY <1>1, <1>2, <1>3, <1>4 DEF Board!InPeriod
<1> QED BY <1>4, <1>5, FS_Subset, PlayersAssumption

\* What p gets out of the i-th market, and put in.
Earn(p, i) == Board!Received(p, i)

Staking(p, i) == backed[p][settled[i].market] # "none"

Net(p, i) == Earn(p, i) + IF Staking(p, i) THEN -6 ELSE 0

LEMMA TwoSides == Cardinality(Board!Sides) = 2
<1>1. PICK x, y : x = "yes" /\ y = "no" /\ x # y
  OBVIOUS
<1>2. Cardinality({x} \cup {y}) = 2
  <2>1. PICK X : X = {x}
    OBVIOUS
  <2>2. IsFiniteSet(X) /\ Cardinality(X) = 1 /\ y \notin X
    BY <1>1, <2>1, FS_Singleton
  <2>3. Cardinality(X \cup {y}) = 1 + 1
    BY <2>2, FS_AddElement
  <2> QED BY <2>1, <2>3
<1>3. Board!Sides = {x} \cup {y}
  BY <1>1 DEF Board!Sides
<1> QED BY <1>2, <1>3

\* Shares are paid evenly, and together no more than what exits left of the pot.
LEMMA PotCoversShares ==
    ASSUME NEW m, NEW o
    PROVE  /\ Board!PerShare(m, o) \in Int /\ Board!Excess(m) \in Nat
           /\ IsFiniteSet(Board!Stakers(m)) /\ IsFiniteSet(Board!Holders(m, o))
           /\ Cardinality(Board!Stakers(m)) \in Nat /\ Cardinality(Board!Holders(m, o)) \in Nat
           /\ Board!Excess(m) = 3 * Cardinality(Board!Holders(m, "cashed"))
           /\ Board!PerShare(m, o) * (Cardinality(Board!Holders(m, o)) + 1)
                  <= 6 * Cardinality(Board!Stakers(m)) + 12
                       - 3 * Cardinality(Board!Holders(m, "cut"))
                       - 9 * Cardinality(Board!Holders(m, "cashed"))
<1>1. PICK S, H, C, K : /\ S = Board!Stakers(m) /\ H = Board!Holders(m, o)
                        /\ C = Board!Holders(m, "cut") /\ K = Board!Holders(m, "cashed")
  OBVIOUS
<1>2. /\ S \in SUBSET Players /\ H \in SUBSET Players
      /\ C \in SUBSET Players /\ K \in SUBSET Players
  BY <1>1 DEF Board!Stakers, Board!Holders
<1>3. /\ IsFiniteSet(S) /\ IsFiniteSet(H)
      /\ Cardinality(S) \in Nat /\ Cardinality(H) \in Nat
      /\ Cardinality(C) \in Nat /\ Cardinality(K) \in Nat
  BY <1>2, PlayersAssumption, FS_Subset, FS_CardinalityType
<1>4. Cardinality(Board!Sides) = 2
  BY TwoSides
<1>5. PICK pot, n, k :
         /\ pot = 6 * Cardinality(S) + 12 - 3 * Cardinality(C) - 9 * Cardinality(K)
         /\ n = Cardinality(H) + 1 /\ k = pot \div n
  OBVIOUS
<1>6. Board!PerShare(m, o) = k /\ Board!Excess(m) = 3 * Cardinality(K)
  <2>1. PICK a, b, c, d : /\ a = Cardinality(S) /\ b = Cardinality(C)
                          /\ c = Cardinality(K) /\ d = Cardinality(Board!Sides)
    OBVIOUS
  <2>2. 6 * (a + d) - (6 - 3) * b - (6 + 3) * c = pot
    BY <1>3, <1>4, <1>5, <2>1
  <2>3. Board!Pot(m) = 6 * (a + d) - (6 - 3) * b - (6 + 3) * c
    BY <1>1, <2>1, BoardCounts DEF Board!Pot, Board!Unit, Board!Move
  <2>4. Board!PerShare(m, o) = Board!Pot(m) \div n
    BY <1>1, <1>5, BoardCounts DEF Board!PerShare
  <2>5. Board!Excess(m) = 3 * Cardinality(K)
    BY <1>1, BoardCounts DEF Board!Excess, Board!Move
  <2> QED BY <1>5, <2>2, <2>3, <2>4, <2>5
<1>7. pot \in Int /\ n \in Nat /\ n > 0
  BY <1>3, <1>5
<1>8. k \in Int /\ k * n <= pot
  BY <1>5, <1>7
<1> QED BY <1>1, <1>3, <1>5, <1>6, <1>8

\* The recursion over the subsets that adds up what p earned.
EarnRecursion(p, t) == CHOOSE it : it = [s \in SUBSET Board!InPeriod(t) |->
    IF s = {} THEN 0 ELSE Earn(p, Pick(s)) + it[s \ {Pick(s)}]]

LEMMA EarnedType ==
    ASSUME NEW p, NEW i
    PROVE  /\ Board!Shares(p, i) \in {0, 1, 2} /\ Earn(p, i) \in Int
           /\ Net(p, i) \in Int
<1>1. Board!Shares(p, i) \in {0, 1, 2}
  BY DEF Board!Shares
<1>2. PICK m, k, x, r : /\ m = settled[i].market /\ k = Board!PerShare(m, settled[i].outcome)
                        /\ x = Board!Excess(m) /\ r = Board!Refund(p, m)
  OBVIOUS
<1>3. k \in Int /\ x \in Nat
  BY <1>2, PotCoversShares
<1>4. r \in Int
  BY <1>2 DEF Board!Refund, Board!Unit, Board!Move
<1>5. Board!Shares(p, i) * k \in Int
  BY <1>1, <1>3
<1>6. Earn(p, i) = Board!Shares(p, i) * k + r + (IF Board!Absorbs(p, i) THEN x ELSE 0)
  BY <1>2 DEF Earn, Board!Received
<1>7. Earn(p, i) \in Int
  BY <1>3, <1>4, <1>5, <1>6
<1> QED BY <1>1, <1>7 DEF Net

LEMMA ReturnsAddUp ==
    ASSUME ClosesType, NEW p, NEW t, NEW f,
           \A i \in Board!InPeriod(t) : f[i] = Earn(p, i)
    PROVE  Board!ReturnedTo(p, t) = SumFunctionOnSet(f, Board!InPeriod(t))
<1>1. Board!ReturnedTo(p, t) = EarnRecursion(p, t)[Board!InPeriod(t)]
  BY DEF Board!ReturnedTo, Board!MapThenSumSet, Board!MapThenFoldSet, EarnRecursion, Pick, Earn
<1>2. PICK S : S = Board!InPeriod(t)
  OBVIOUS
<1>3. IsFiniteSet(S) /\ \A i \in S : f[i] = Earn(p, i) /\ f[i] \in Int
  BY <1>2, PeriodIsFinite, EarnedType
<1>4. ASSUME NEW it
      PROVE  [s \in SUBSET S |-> IF s = {} THEN 0 ELSE Earn(p, Pick(s)) + it[s \ {Pick(s)}]]
           = [s \in SUBSET S |-> IF s = {} THEN 0 ELSE f[Pick(s)] + it[s \ {Pick(s)}]]
  <2>1. \A s \in SUBSET S : s # {} => f[Pick(s)] = Earn(p, Pick(s))
    BY <1>3, PickIn
  <2> QED BY <2>1
<1>5. SolvesSum(f, S, PartialSum(f, S))
  BY <1>3, PartialSumEquation
<1>6. PICK g : g = PartialSum(f, S)
  OBVIOUS
<1>7. g = [s \in SUBSET S |-> IF s = {} THEN 0 ELSE Earn(p, Pick(s)) + g[s \ {Pick(s)}]]
  <2>1. g = [s \in SUBSET S |-> IF s = {} THEN 0 ELSE f[Pick(s)] + g[s \ {Pick(s)}]]
    BY <1>5, <1>6 DEF SolvesSum
  <2>2. [s \in SUBSET S |-> IF s = {} THEN 0 ELSE Earn(p, Pick(s)) + g[s \ {Pick(s)}]]
          = [s \in SUBSET S |-> IF s = {} THEN 0 ELSE f[Pick(s)] + g[s \ {Pick(s)}]]
    BY <1>4
  <2> QED BY <2>1, <2>2, Zenon
<1>8. PICK h : h = EarnRecursion(p, t)
  OBVIOUS
<1>9. h = [s \in SUBSET S |-> IF s = {} THEN 0 ELSE Earn(p, Pick(s)) + h[s \ {Pick(s)}]]
  BY <1>2, <1>7, <1>8 DEF EarnRecursion
<1>10. SolvesSum(f, S, h)
  BY <1>4, <1>9 DEF SolvesSum
<1>11. h[S] = SumFunctionOnSet(f, S)
  BY <1>3, <1>10, SolutionIsSum
<1> QED BY <1>1, <1>2, <1>8, <1>11

LEMMA StakesAddUp ==
    ASSUME ClosesType, NEW p, NEW t, NEW g,
           \A i \in Board!InPeriod(t) : g[i] = IF Staking(p, i) THEN -6 ELSE 0
    PROVE  SumFunctionOnSet(g, Board!InPeriod(t)) = -Board!StakedBy(p, t)
           /\ Board!StakedBy(p, t) \in Nat
<1>0. PICK S, c : S = Board!InPeriod(t) /\ c = -6
  OBVIOUS
<1>1. PICK U, f : /\ S = Board!InPeriod(t) /\ U = {i \in S : Staking(p, i)}
                  /\ c = -6 /\ f = [i \in S |-> c]
  BY <1>0
<1>2. IsFiniteSet(S) /\ U \in SUBSET S /\ c \in Int
  BY <1>1, PeriodIsFinite
<1>3. \A i \in S : f[i] \in Int /\ g[i] = IF i \in U THEN f[i] ELSE 0
  BY <1>1, <1>2
<1>4. SumFunctionOnSet(f, U) = SumFunctionOnSet(g, S)
  BY <1>2, <1>3, SumMasked
<1>5. IsFiniteSet(U) /\ Cardinality(U) \in Nat /\ \A i \in U : f[i] = c
  BY <1>1, <1>2, FS_Subset, FS_CardinalityType
<1>6. SumFunctionOnSet(f, U) = c * Cardinality(U)
  BY <1>2, <1>5, SumConstant
<1>7. Board!StakedBy(p, t) = 6 * Cardinality(U)
  <2>1. U = {i \in Board!InPeriod(t) : backed[p][settled[i].market] # "none"}
    BY <1>1 DEF Staking
  <2> QED BY <2>1, BoardCounts DEF Board!StakedBy, Board!Unit
<1> QED BY <1>1, <1>4, <1>5, <1>6, <1>7

\* Profit is the sum over the period's markets of what came less what went.
LEMMA ProfitIsNet ==
    ASSUME ClosesType, NEW p, NEW t, NEW h,
           \A i \in Board!InPeriod(t) : h[i] = Net(p, i)
    PROVE  /\ Board!Score(p, t, "profit") = SumFunctionOnSet(h, Board!InPeriod(t))
           /\ Board!Score(p, t, "profit") \in Int
<1>1. PICK S, f, g : /\ S = Board!InPeriod(t) /\ f = [i \in S |-> Earn(p, i)]
                     /\ g = [i \in S |-> IF Staking(p, i) THEN -6 ELSE 0]
  OBVIOUS
<1>2. IsFiniteSet(S)
  BY <1>1, PeriodIsFinite
<1>3. \A i \in S : f[i] \in Int /\ g[i] \in Int /\ h[i] = f[i] + g[i]
  <2>1. SUFFICES ASSUME NEW i \in S PROVE f[i] \in Int /\ g[i] \in Int /\ h[i] = f[i] + g[i]
    OBVIOUS
  <2>2. f[i] = Earn(p, i) /\ Earn(p, i) \in Int /\ g[i] = IF Staking(p, i) THEN -6 ELSE 0
    BY <1>1, EarnedType
  <2>3. h[i] = Net(p, i)
    BY <1>1
  <2> QED BY <2>2, <2>3 DEF Net
<1>4. SumFunctionOnSet(h, S) = SumFunctionOnSet(f, S) + SumFunctionOnSet(g, S)
  BY <1>2, <1>3, SumAddsUp
<1>5. Board!ReturnedTo(p, t) = SumFunctionOnSet(f, S)
  <2>1. \A i \in Board!InPeriod(t) : f[i] = Earn(p, i)
    BY <1>1
  <2> QED BY <1>1, <2>1, ReturnsAddUp
<1>6. SumFunctionOnSet(g, S) = -Board!StakedBy(p, t) /\ Board!StakedBy(p, t) \in Nat
  <2>1. \A i \in Board!InPeriod(t) : g[i] = IF Staking(p, i) THEN -6 ELSE 0
    BY <1>1
  <2> QED BY <1>1, <2>1, StakesAddUp
<1>7. SumFunctionOnSet(f, S) \in Int
  BY <1>2, <1>3, SumRemove
<1>8. Board!Score(p, t, "profit") = Board!ReturnedTo(p, t) - Board!StakedBy(p, t)
  BY DEF Board!Score
<1> QED BY <1>1, <1>4, <1>5, <1>6, <1>7, <1>8

\* Whoever of a set gets a constant, the others nothing: in all that many times.
LEMMA FlatSum ==
    ASSUME NEW U \in SUBSET Players, NEW c \in Int, NEW f,
           \A p \in Players : f[p] = IF p \in U THEN c ELSE 0
    PROVE  SumFunctionOnSet(f, Players) = c * Cardinality(U)
<1>1. PICK a : a = [p \in Players |-> c]
  OBVIOUS
<1>2. \A p \in Players : a[p] \in Int /\ f[p] = IF p \in U THEN a[p] ELSE 0
  BY <1>1
<1>3. IsFiniteSet(Players) /\ IsFiniteSet(U) /\ \A p \in U : a[p] = c
  BY <1>1, PlayersAssumption, FS_Subset
<1>4. SumFunctionOnSet(a, U) = SumFunctionOnSet(f, Players)
  BY <1>2, <1>3, SumMasked
<1>5. SumFunctionOnSet(a, U) = c * Cardinality(U)
  BY <1>3, SumConstant
<1> QED BY <1>4, <1>5

\* What only one of them can get comes to no more than that.
LEMMA OneOrNone ==
    ASSUME NEW x \in Nat, NEW f, \A p \in Players : f[p] \in {0, x},
           \A p, q \in Players : f[p] # 0 /\ f[q] # 0 => p = q
    PROVE  SumFunctionOnSet(f, Players) <= x /\ SumFunctionOnSet(f, Players) \in Int
<1>1. IsFiniteSet(Players)
  BY PlayersAssumption
<1>2. CASE \E p \in Players : f[p] # 0
  <2>1. PICK y \in Players : f[y] # 0
    BY <1>2
  <2>2. f[y] \in Int /\ \A q \in Players : q # y => f[q] = 0
    BY <2>1
  <2>3. SumFunctionOnSet(f, Players) = f[y]
    BY <1>1, <2>2, SumAlone
  <2> QED BY <2>1, <2>3
<1>3. CASE \A p \in Players : f[p] = 0
  <2>1. PICK c : c = 0
    OBVIOUS
  <2>2. c \in Int /\ \A p \in Players : f[p] = c
    BY <1>3, <2>1
  <2>3. SumFunctionOnSet(f, Players) = c * Cardinality(Players)
    BY <1>1, <2>2, SumConstant
  <2>4. Cardinality(Players) \in Nat
    BY <1>1, FS_CardinalityType
  <2> QED BY <2>1, <2>3, <2>4
<1> QED BY <1>2, <1>3

\* On one market the profits of all add up to no more than the seeds and what
\* gains took out.
LEMMA MarketOverpaysBySeeds ==
    ASSUME NEW i, NEW h, \A p \in Players : h[p] = Net(p, i)
    PROVE  /\ SumFunctionOnSet(h, Players) <= 12 + Board!Excess(settled[i].market)
           /\ SumFunctionOnSet(h, Players) \in Int
<1>1. PICK m, k, x, H, C, K, S :
         /\ m = settled[i].market /\ k = Board!PerShare(m, settled[i].outcome)
         /\ x = Board!Excess(m) /\ H = Board!Holders(m, settled[i].outcome)
         /\ C = Board!Holders(m, "cut") /\ K = Board!Holders(m, "cashed")
         /\ S = Board!Stakers(m)
  OBVIOUS
<1>2. /\ k \in Int /\ x \in Nat /\ Cardinality(H) \in Nat /\ Cardinality(S) \in Nat
      /\ Cardinality(C) \in Nat /\ Cardinality(K) \in Nat
      /\ x = 3 * Cardinality(K)
      /\ k * (Cardinality(H) + 1)
            <= 6 * Cardinality(S) + 12 - 3 * Cardinality(C) - 9 * Cardinality(K)
  BY <1>1, PotCoversShares
<1>3. /\ H = {p \in Players : backed[p][m] = settled[i].outcome}
      /\ C = {p \in Players : backed[p][m] = "cut"}
      /\ K = {p \in Players : backed[p][m] = "cashed"}
      /\ S = {p \in Players : Staking(p, i)}
  BY <1>1 DEF Board!Holders, Board!Stakers, Staking
<1>4. PICK b, e, u, v, w, g :
         /\ b = [p \in Players |-> IF p \in H THEN k ELSE 0]
         /\ e = [p \in Players |-> IF p = Seeder THEN k ELSE 0]
         /\ u = [p \in Players |-> IF p \in C THEN 3 ELSE 0]
         /\ v = [p \in Players |-> IF p \in K THEN 9 ELSE 0]
         /\ w = [p \in Players |-> IF Board!Absorbs(p, i) THEN x ELSE 0]
         /\ g = [p \in Players |-> IF p \in S THEN -6 ELSE 0]
  OBVIOUS
<1>5. /\ IsFiniteSet(Players) /\ Seeder \in Players
      /\ H \in SUBSET Players /\ C \in SUBSET Players
      /\ K \in SUBSET Players /\ S \in SUBSET Players
  BY <1>3, PlayersAssumption
<1>6. SumFunctionOnSet(b, Players) = k * Cardinality(H)
  <2>1. \A p \in Players : b[p] = IF p \in H THEN k ELSE 0
    BY <1>4
  <2> QED BY <1>2, <1>5, <2>1, FlatSum
<1>7. SumFunctionOnSet(e, Players) = k
  <2>1. PICK y : y = Seeder
    OBVIOUS
  <2>2. y \in Players /\ e[y] = k /\ e[y] \in Int /\ \A q \in Players : q # y => e[q] = 0
    BY <1>2, <1>4, <1>5, <2>1
  <2>3. SumFunctionOnSet(e, Players) = e[y]
    BY <1>5, <2>2, SumAlone
  <2> QED BY <2>2, <2>3
<1>8. SumFunctionOnSet(u, Players) = 3 * Cardinality(C)
  <2>1. \A p \in Players : u[p] = IF p \in C THEN 3 ELSE 0
    BY <1>4
  <2>2. 3 \in Int
    OBVIOUS
  <2> QED BY <1>5, <2>1, <2>2, FlatSum
<1>9. SumFunctionOnSet(v, Players) = 9 * Cardinality(K)
  <2>1. \A p \in Players : v[p] = IF p \in K THEN 9 ELSE 0
    BY <1>4
  <2>2. 9 \in Int
    OBVIOUS
  <2> QED BY <1>5, <2>1, <2>2, FlatSum
<1>10. SumFunctionOnSet(g, Players) = (-6) * Cardinality(S)
  <2>1. PICK c : c = -6
    OBVIOUS
  <2>2. c \in Int /\ \A p \in Players : g[p] = IF p \in S THEN c ELSE 0
    BY <1>4, <2>1
  <2>3. SumFunctionOnSet(g, Players) = c * Cardinality(S)
    BY <1>5, <2>2, FlatSum
  <2> QED BY <2>1, <2>3
<1>11. SumFunctionOnSet(w, Players) <= x /\ SumFunctionOnSet(w, Players) \in Int
  <2>1. \A p \in Players : w[p] \in {0, x}
    BY <1>4
  <2>2. ASSUME NEW p \in Players, NEW q \in Players, w[p] # 0, w[q] # 0 PROVE p = q
    <3>1. Board!Absorbs(p, i) /\ Board!Absorbs(q, i)
      BY <1>4, <2>2
    <3>2. p <= q /\ q <= p /\ p \in Int /\ q \in Int
      BY <3>1, PlayersAssumption DEF Board!Absorbs
    <3> QED BY <3>2
  <2> QED BY <1>2, <2>1, <2>2, OneOrNone
<1>12. PICK c1, c2, c3, c4 :
          /\ c1 = [p \in Players |-> b[p] + e[p]] /\ c2 = [p \in Players |-> c1[p] + u[p]]
          /\ c3 = [p \in Players |-> c2[p] + v[p]] /\ c4 = [p \in Players |-> c3[p] + w[p]]
  OBVIOUS
<1>13. \A p \in Players : /\ b[p] \in Int /\ e[p] \in Int /\ u[p] \in Int /\ v[p] \in Int
                          /\ w[p] \in Int /\ g[p] \in Int
  BY <1>2, <1>4
<1>14. \A p \in Players : /\ c1[p] = b[p] + e[p] /\ c1[p] \in Int
                          /\ c2[p] = c1[p] + u[p] /\ c2[p] \in Int
                          /\ c3[p] = c2[p] + v[p] /\ c3[p] \in Int
                          /\ c4[p] = c3[p] + w[p] /\ c4[p] \in Int
  BY <1>12, <1>13
<1>15. \A p \in Players : h[p] = c4[p] + g[p]
  <2>1. SUFFICES ASSUME NEW p \in Players PROVE h[p] = c4[p] + g[p]
    OBVIOUS
  <2>2. /\ b[p] = IF p \in H THEN k ELSE 0
        /\ e[p] = IF p = Seeder THEN k ELSE 0
        /\ w[p] = IF Board!Absorbs(p, i) THEN x ELSE 0
        /\ g[p] = IF Staking(p, i) THEN -6 ELSE 0
    BY <1>3, <1>4
  <2>3. h[p] = Board!Shares(p, i) * k + Board!Refund(p, m) + w[p] + g[p]
    <3>1. Net(p, i) = Board!Received(p, i) + g[p]
      BY <2>2 DEF Net, Earn
    <3>2. Board!Received(p, i) = Board!Shares(p, i) * k + Board!Refund(p, m) + w[p]
      BY <1>1, <2>2 DEF Board!Received
    <3> QED BY <3>1, <3>2
  <2>4. Board!Shares(p, i) = (IF p \in H THEN 1 ELSE 0) + (IF p = Seeder THEN 1 ELSE 0)
    BY <1>1, <1>3 DEF Board!Shares
  <2>5. Board!Shares(p, i) * k = b[p] + e[p]
    <3>1. CASE p \in H /\ p = Seeder
      BY <1>2, <2>2, <2>4, <3>1
    <3>2. CASE p \in H /\ p # Seeder
      BY <1>2, <2>2, <2>4, <3>2
    <3>3. CASE p \notin H /\ p = Seeder
      BY <1>2, <2>2, <2>4, <3>3
    <3>4. CASE p \notin H /\ p # Seeder
      BY <1>2, <2>2, <2>4, <3>4
    <3> QED BY <3>1, <3>2, <3>3, <3>4
  <2>6. Board!Refund(p, m) = u[p] + v[p]
    <3>1. u[p] = (IF backed[p][m] = "cut" THEN 3 ELSE 0)
          /\ v[p] = (IF backed[p][m] = "cashed" THEN 9 ELSE 0)
      BY <1>3, <1>4
    <3> QED BY <3>1 DEF Board!Refund, Board!Unit, Board!Move
  <2> QED BY <1>13, <1>14, <2>3, <2>5, <2>6
<1>16. SumFunctionOnSet(c1, Players) = SumFunctionOnSet(b, Players) + SumFunctionOnSet(e, Players)
  BY <1>5, <1>13, <1>14, SumAddsUp
<1>17. SumFunctionOnSet(c2, Players) = SumFunctionOnSet(c1, Players) + SumFunctionOnSet(u, Players)
  BY <1>5, <1>13, <1>14, SumAddsUp
<1>18. SumFunctionOnSet(c3, Players) = SumFunctionOnSet(c2, Players) + SumFunctionOnSet(v, Players)
  BY <1>5, <1>13, <1>14, SumAddsUp
<1>19. SumFunctionOnSet(c4, Players) = SumFunctionOnSet(c3, Players) + SumFunctionOnSet(w, Players)
  BY <1>5, <1>13, <1>14, SumAddsUp
<1>20. SumFunctionOnSet(h, Players) = SumFunctionOnSet(c4, Players) + SumFunctionOnSet(g, Players)
  BY <1>5, <1>13, <1>14, <1>15, SumAddsUp
<1>21. PICK nh, nc, nk, ns, y, z :
          /\ nh = Cardinality(H) /\ nc = Cardinality(C) /\ nk = Cardinality(K)
          /\ ns = Cardinality(S) /\ y = k * nh /\ z = SumFunctionOnSet(w, Players)
  OBVIOUS
<1>22. /\ nh \in Nat /\ nc \in Nat /\ nk \in Nat /\ ns \in Nat /\ y \in Int
       /\ z \in Int /\ z <= x /\ x = 3 * nk
  BY <1>2, <1>11, <1>21
<1>23. SumFunctionOnSet(h, Players) = (y + k) + 3 * nc + 9 * nk + z + (-6) * ns
  BY <1>6, <1>7, <1>8, <1>9, <1>10, <1>16, <1>17, <1>18, <1>19, <1>20, <1>21
<1>24. k * (nh + 1) = y + k
  BY <1>2, <1>21, <1>22
<1>25. y + k <= 6 * ns + 12 - 3 * nc - 9 * nk
  BY <1>2, <1>21, <1>24
<1>26. SumFunctionOnSet(h, Players) <= 12 + x /\ SumFunctionOnSet(h, Players) \in Int
  BY <1>2, <1>22, <1>23, <1>25
<1> QED BY <1>1, <1>26

TotalRecursion(t) == CHOOSE it : it = [s \in SUBSET Players |->
    IF s = {} THEN 0 ELSE Board!Score(Pick(s), t, "profit") + it[s \ {Pick(s)}]]

LEMMA ProfitsAddUp ==
    ASSUME ClosesType, NEW t, NEW f, \A p \in Players : f[p] = Board!Score(p, t, "profit")
    PROVE  Board!MapThenSumSet(LAMBDA p : Board!Score(p, t, "profit"), Players)
             = SumFunctionOnSet(f, Players)
<1>1. Board!MapThenSumSet(LAMBDA p : Board!Score(p, t, "profit"), Players)
        = TotalRecursion(t)[Players]
  BY DEF Board!MapThenSumSet, Board!MapThenFoldSet, TotalRecursion, Pick
<1>2. PICK S, h, g : S = Players /\ h = TotalRecursion(t) /\ g = PartialSum(f, Players)
  OBVIOUS
<1>3. IsFiniteSet(S) /\ \A p \in S : f[p] = Board!Score(p, t, "profit") /\ f[p] \in Int
  <2>1. SUFFICES ASSUME NEW p \in Players PROVE Board!Score(p, t, "profit") \in Int
    BY <1>2, PlayersAssumption
  <2>2. PICK k : k = [i \in Board!InPeriod(t) |-> Net(p, i)]
    OBVIOUS
  <2>3. \A i \in Board!InPeriod(t) : k[i] = Net(p, i)
    BY <2>2
  <2> QED BY <2>3, ProfitIsNet
<1>4. ASSUME NEW it
      PROVE  [s \in SUBSET S |->
                 IF s = {} THEN 0 ELSE Board!Score(Pick(s), t, "profit") + it[s \ {Pick(s)}]]
           = [s \in SUBSET S |-> IF s = {} THEN 0 ELSE f[Pick(s)] + it[s \ {Pick(s)}]]
  <2>1. \A s \in SUBSET S : s # {} => f[Pick(s)] = Board!Score(Pick(s), t, "profit")
    BY <1>3, PickIn
  <2> QED BY <2>1
<1>5. SolvesSum(f, S, g)
  BY <1>2, <1>3, PartialSumEquation
<1>6. g = [s \in SUBSET S |->
             IF s = {} THEN 0 ELSE Board!Score(Pick(s), t, "profit") + g[s \ {Pick(s)}]]
  BY <1>4, <1>5 DEF SolvesSum
<1>7. h = [s \in SUBSET S |->
             IF s = {} THEN 0 ELSE Board!Score(Pick(s), t, "profit") + h[s \ {Pick(s)}]]
  BY <1>2, <1>6 DEF TotalRecursion
<1>8. SolvesSum(f, S, h)
  BY <1>4, <1>7 DEF SolvesSum
<1>9. h[S] = SumFunctionOnSet(f, S)
  BY <1>3, <1>8, SolutionIsSum
<1> QED BY <1>1, <1>2, <1>9

\* What a market's profits may come to, and the recursion that adds it up.
Room(i) == 12 + Board!Excess(settled[i].market)

RoomRecursion(t) == CHOOSE it : it = [s \in SUBSET Board!InPeriod(t) |->
    IF s = {} THEN 0
    ELSE (Board!Unit * Board!Cardinality(Board!Sides)
             + Board!Excess(settled[Pick(s)].market)) + it[s \ {Pick(s)}]]

LEMMA RoomAddsUp ==
    ASSUME ClosesType, NEW t, NEW f, \A i \in Board!InPeriod(t) : f[i] = Room(i)
    PROVE  Board!MapThenSumSet(
               LAMBDA i : Board!Unit * Board!Cardinality(Board!Sides)
                              + Board!Excess(settled[i].market), Board!InPeriod(t))
             = SumFunctionOnSet(f, Board!InPeriod(t))
<1> DEFINE R(i) == Board!Unit * Board!Cardinality(Board!Sides) + Board!Excess(settled[i].market)
<1>1. Board!MapThenSumSet(
          LAMBDA i : Board!Unit * Board!Cardinality(Board!Sides)
                         + Board!Excess(settled[i].market), Board!InPeriod(t))
        = RoomRecursion(t)[Board!InPeriod(t)]
  BY DEF Board!MapThenSumSet, Board!MapThenFoldSet, RoomRecursion, Pick
<1>2. PICK S, h, g : /\ S = Board!InPeriod(t) /\ h = RoomRecursion(t)
                     /\ g = PartialSum(f, Board!InPeriod(t))
  OBVIOUS
<1>3. IsFiniteSet(S) /\ \A i \in S : f[i] = R(i) /\ f[i] \in Int
  <2>1. SUFFICES ASSUME NEW i \in S PROVE f[i] = R(i) /\ f[i] \in Int
    BY <1>2, PeriodIsFinite
  <2>2. Board!Unit * Board!Cardinality(Board!Sides) = 12
    BY TwoSides, BoardCounts DEF Board!Unit
  <2>3. Board!Excess(settled[i].market) \in Nat
    BY PotCoversShares
  <2>4. f[i] = Room(i)
    BY <1>2
  <2> QED BY <2>2, <2>3, <2>4 DEF Room
<1>4. ASSUME NEW it
      PROVE  [s \in SUBSET S |-> IF s = {} THEN 0 ELSE R(Pick(s)) + it[s \ {Pick(s)}]]
           = [s \in SUBSET S |-> IF s = {} THEN 0 ELSE f[Pick(s)] + it[s \ {Pick(s)}]]
  <2>1. \A s \in SUBSET S : s # {} => f[Pick(s)] = R(Pick(s))
    BY <1>3, PickIn
  <2> HIDE DEF R
  <2> QED BY <2>1
<1>5. SolvesSum(f, S, g)
  BY <1>2, <1>3, PartialSumEquation
<1>6. g = [s \in SUBSET S |-> IF s = {} THEN 0 ELSE R(Pick(s)) + g[s \ {Pick(s)}]]
  <2> HIDE DEF R
  <2> QED BY <1>4, <1>5 DEF SolvesSum
<1>7. h = [s \in SUBSET S |-> IF s = {} THEN 0 ELSE R(Pick(s)) + h[s \ {Pick(s)}]]
  BY <1>2, <1>6 DEF RoomRecursion
<1>8. SolvesSum(f, S, h)
  <2> HIDE DEF R
  <2> QED BY <1>4, <1>7 DEF SolvesSum
<1>9. h[S] = SumFunctionOnSet(f, S)
  BY <1>3, <1>8, SolutionIsSum
<1> QED BY <1>1, <1>2, <1>9

\* Added up by people or by markets, the profits are no more than the room.
LEMMA ProfitsAreLosses == ClosesType => Board!ProfitIsSomebodysLoss
<1>1. SUFFICES ASSUME ClosesType, NEW t \in Board!Periods
               PROVE  Board!MapThenSumSet(LAMBDA p : Board!Score(p, t, "profit"), Players)
                        <= Board!MapThenSumSet(
                               LAMBDA i : Board!Unit * Board!Cardinality(Board!Sides)
                                              + Board!Excess(settled[i].market),
                               Board!InPeriod(t))
  BY DEF Board!ProfitIsSomebodysLoss
<1>2. PICK P, D : P = Players /\ D = Board!InPeriod(t)
  OBVIOUS
<1>3. PICK F, g : F = [p \in P |-> [i \in D |-> Net(p, i)]] /\ g = [i \in D |-> Room(i)]
  OBVIOUS
<1>4. IsFiniteSet(P) /\ IsFiniteSet(D)
  BY <1>1, <1>2, PeriodIsFinite
<1>5. \A p \in P : \A i \in D : F[p][i] = Net(p, i) /\ F[p][i] \in Int
  BY <1>3, EarnedType
<1>6. PICK r, c : r = RowSums(F, P, D) /\ c = ColumnSums(F, P, D)
  OBVIOUS
<1>7. SumFunctionOnSet(c, D) = SumFunctionOnSet(r, P)
  BY <1>4, <1>5, <1>6, SumExchanged
<1>8. ASSUME NEW p \in P PROVE r[p] = Board!Score(p, t, "profit")
  <2>1. PICK h : h = Row(F, p, D)
    OBVIOUS
  <2>2. \A i \in Board!InPeriod(t) : h[i] = Net(p, i)
    BY <1>2, <1>5, <2>1 DEF Row
  <2>3. Board!Score(p, t, "profit") = SumFunctionOnSet(h, D)
    BY <1>1, <1>2, <2>2, ProfitIsNet
  <2> QED BY <1>6, <2>1, <2>3 DEF RowSums
<1>9. ASSUME NEW i \in D PROVE c[i] <= Room(i) /\ c[i] \in Int /\ Room(i) \in Int
  <2>1. PICK h : h = Column(F, P, i)
    OBVIOUS
  <2>2. \A p \in Players : h[p] = Net(p, i)
    BY <1>2, <1>5, <2>1 DEF Column
  <2>3. /\ SumFunctionOnSet(h, Players) <= 12 + Board!Excess(settled[i].market)
        /\ SumFunctionOnSet(h, Players) \in Int /\ Board!Excess(settled[i].market) \in Nat
    BY <2>2, MarketOverpaysBySeeds, PotCoversShares
  <2> QED BY <1>2, <1>6, <2>1, <2>3 DEF ColumnSums, Room
<1>10. \A i \in D : c[i] \in Int /\ g[i] \in Int /\ c[i] <= g[i] /\ g[i] = Room(i)
  BY <1>3, <1>9
<1>11. SumFunctionOnSet(c, D) <= SumFunctionOnSet(g, D)
  BY <1>4, <1>10, SumMonotonic
<1>12. Board!MapThenSumSet(
           LAMBDA i : Board!Unit * Board!Cardinality(Board!Sides)
                          + Board!Excess(settled[i].market), Board!InPeriod(t))
         = SumFunctionOnSet(g, D)
  BY <1>1, <1>2, <1>10, RoomAddsUp
<1>13. Board!MapThenSumSet(LAMBDA p : Board!Score(p, t, "profit"), Players)
         = SumFunctionOnSet(r, P)
  BY <1>1, <1>2, <1>8, ProfitsAddUp
<1> QED BY <1>7, <1>11, <1>12, <1>13

LEMMA OtherBoard ==
    ASSUME NEW b \in Board!Boards
    PROVE  Board!Other(b) \in Board!Boards /\ b \in {"profit", "accuracy"}
BY DEF Board!Other, Board!Boards

\* A score is a number; nothing settled is no accuracy, and counts as none.
LEMMA ScoreType ==
    ASSUME ClosesType, NEW t, NEW b \in Board!Boards, NEW p \in Board!Listed(t, b),
           NEW s \in Board!Boards
    PROVE  Board!Score(p, t, s) \in Int
<1>1. CASE s = "profit"
  <2>1. PICK k : k = [i \in Board!InPeriod(t) |-> Net(p, i)]
    OBVIOUS
  <2>2. \A i \in Board!InPeriod(t) : k[i] = Net(p, i)
    BY <2>1
  <2> QED BY <1>1, <2>2, ProfitIsNet
<1>2. CASE s = "accuracy" /\ Board!SettledOf(p, t) = {}
  BY <1>2 DEF Board!Score
<1>3. CASE s = "accuracy" /\ Board!SettledOf(p, t) # {}
  <2>1. PICK D, S, W : /\ D = Board!InPeriod(t) /\ S = Board!SettledOf(p, t)
                       /\ W = Board!WonBy(p, t)
    OBVIOUS
  <2>2. S \in SUBSET D /\ W \in SUBSET D /\ IsFiniteSet(D)
    BY <2>1, PeriodIsFinite DEF Board!SettledOf, Board!WonBy
  <2>3. S # {}
    BY <1>3, <2>1
  <2>4. /\ IsFiniteSet(S) /\ Cardinality(S) \in Nat /\ Cardinality(W) \in Nat
        /\ Cardinality(S) # 0
    BY <2>2, <2>3, FS_Subset, FS_CardinalityType, FS_EmptySet
  <2>5. PICK m, n : m = 60 * Cardinality(W) /\ n = Cardinality(S)
    OBVIOUS
  <2>6. m \in Nat /\ n \in Nat /\ n > 0
    BY <2>4, <2>5
  <2>7. m \div n \in Int
    BY <2>6
  <2>8. Board!Score(p, t, s) = m \div n
    BY <1>3, <2>1, <2>5, BoardCounts DEF Board!Score
  <2> QED BY <2>7, <2>8
<1> QED BY <1>1, <1>2, <1>3 DEF Board!Boards

\* Who comes before whom on a board.
Precedence(t, b) ==
    {e \in Board!Listed(t, b) \X Board!Listed(t, b) : Board!Before(e[1], e[2], t, b)}

LEMMA PrecedenceIsOrder ==
    ASSUME ClosesType, NEW t, NEW b \in Board!Boards
    PROVE  /\ IsFiniteSet(Board!Listed(t, b)) /\ Board!Listed(t, b) \subseteq Players
           /\ \A p \in Board!Listed(t, b) : <<p, p>> \notin Precedence(t, b)
           /\ \A p, q \in Board!Listed(t, b) :
                 /\ p = q \/ <<p, q>> \in Precedence(t, b) \/ <<q, p>> \in Precedence(t, b)
                 /\ <<p, q>> \in Precedence(t, b) =>
                        Board!Score(p, t, b) >= Board!Score(q, t, b)
           /\ \A p, q, r \in Board!Listed(t, b) :
                 <<p, q>> \in Precedence(t, b) /\ <<q, r>> \in Precedence(t, b) =>
                     <<p, r>> \in Precedence(t, b)
<1>1. PICK E, R : E = Board!Listed(t, b) /\ R = Precedence(t, b)
  OBVIOUS
<1>2. E \in SUBSET Players /\ IsFiniteSet(E)
  <2>1. E \in SUBSET Players
    BY <1>1 DEF Board!Listed
  <2> QED BY <2>1, PlayersAssumption, FS_Subset
<1>3. PICK x, y : /\ x = [p \in E |-> Board!Score(p, t, b)]
                  /\ y = [p \in E |-> Board!Score(p, t, Board!Other(b))]
  OBVIOUS
<1>4. \A p \in E : x[p] \in Int /\ y[p] \in Int /\ p \in Int /\ x[p] = Board!Score(p, t, b)
  BY <1>1, <1>2, <1>3, ScoreType, OtherBoard, PlayersAssumption
<1>5. \A p, q \in E : <<p, q>> \in R <=>
         x[p] > x[q] \/ (x[p] = x[q] /\ (y[p] > y[q] \/ (y[p] = y[q] /\ p < q)))
  <2>1. SUFFICES ASSUME NEW p \in E, NEW q \in E
                 PROVE  <<p, q>> \in R <=> Board!Before(p, q, t, b)
    BY <1>3 DEF Board!Before
  <2> QED BY <1>1 DEF Precedence
<1>6. \A p \in E : <<p, p>> \notin R
  BY <1>4, <1>5
<1>7. \A p, q \in E : p = q \/ <<p, q>> \in R \/ <<q, p>> \in R
  <2>1. SUFFICES ASSUME NEW p \in E, NEW q \in E, p # q
                 PROVE  <<p, q>> \in R \/ <<q, p>> \in R
    OBVIOUS
  <2>2. /\ x[p] \in Int /\ x[q] \in Int /\ y[p] \in Int /\ y[q] \in Int
        /\ p \in Int /\ q \in Int
    BY <1>4
  <2>3. \/ x[p] > x[q] \/ (x[p] = x[q] /\ (y[p] > y[q] \/ (y[p] = y[q] /\ p < q)))
        \/ x[q] > x[p] \/ (x[q] = x[p] /\ (y[q] > y[p] \/ (y[q] = y[p] /\ q < p)))
    BY <2>1, <2>2
  <2> QED BY <1>5, <2>3
<1>8. \A p, q \in E : <<p, q>> \in R => x[p] >= x[q]
  BY <1>4, <1>5
<1>9. \A p, q, r \in E : <<p, q>> \in R /\ <<q, r>> \in R => <<p, r>> \in R
  <2>1. SUFFICES ASSUME NEW p \in E, NEW q \in E, NEW r \in E, <<p, q>> \in R, <<q, r>> \in R
                 PROVE  <<p, r>> \in R
    OBVIOUS
  <2>2. /\ x[p] \in Int /\ x[q] \in Int /\ x[r] \in Int
        /\ y[p] \in Int /\ y[q] \in Int /\ y[r] \in Int
        /\ p \in Int /\ q \in Int /\ r \in Int
    BY <1>4
  <2>3. x[p] > x[q] \/ (x[p] = x[q] /\ (y[p] > y[q] \/ (y[p] = y[q] /\ p < q)))
    BY <1>5, <2>1
  <2>4. x[q] > x[r] \/ (x[q] = x[r] /\ (y[q] > y[r] \/ (y[q] = y[r] /\ q < r)))
    BY <1>5, <2>1
  <2>5. x[p] > x[r] \/ (x[p] = x[r] /\ (y[p] > y[r] \/ (y[p] = y[r] /\ p < r)))
    BY <2>2, <2>3, <2>4
  <2> QED BY <1>5, <2>5
<1> QED BY <1>1, <1>2, <1>4, <1>6, <1>7, <1>8, <1>9

\* The list is in the order of its scores.
LEMMA OrderIsSorted ==
    ASSUME ClosesType, NEW t, NEW b \in Board!Boards
    PROVE  \E n \in Nat :
              /\ DOMAIN Board!Order(t, b) = 1 .. n
              /\ \A i \in 1 .. n : Board!Score(Board!Order(t, b)[i], t, b) \in Int
              /\ \A i, j \in 1 .. n : i < j =>
                    Board!Score(Board!Order(t, b)[i], t, b)
                        >= Board!Score(Board!Order(t, b)[j], t, b)
<1>1. PICK E, R, n : /\ E = Board!Listed(t, b) /\ R = Precedence(t, b)
                     /\ n = Cardinality(E)
  OBVIOUS
<1>2. /\ IsFiniteSet(E)
      /\ \A p \in E : <<p, p>> \notin R
      /\ \A p, q \in E : p = q \/ <<p, q>> \in R \/ <<q, p>> \in R
      /\ \A p, q, r \in E : <<p, q>> \in R /\ <<q, r>> \in R => <<p, r>> \in R
      /\ \A p, q \in E : <<p, q>> \in R => Board!Score(p, t, b) >= Board!Score(q, t, b)
  BY <1>1, PrecedenceIsOrder
<1>3. /\ \A i \in 1 .. n : \E p \in E : Cardinality(Preceding(E, R, p)) = i - 1
      /\ \A p, q \in E :
            Cardinality(Preceding(E, R, p)) < Cardinality(Preceding(E, R, q)) => <<p, q>> \in R
  BY <1>1, <1>2, EveryPlaceIsTaken
<1>4. n \in Nat
  BY <1>1, <1>2, FS_CardinalityType
<1>5. ASSUME NEW p \in E PROVE Board!Ahead(p, t, b) = Preceding(E, R, p)
  BY <1>1 DEF Board!Ahead, Preceding, Precedence
<1>6. PICK o : o = Board!Order(t, b)
  OBVIOUS
<1>7. o = [i \in 1 .. n |-> CHOOSE p \in E : Cardinality(Board!Ahead(p, t, b)) = i - 1]
  BY <1>1, <1>6, BoardCounts DEF Board!Order
<1>8. ASSUME NEW i \in 1 .. n
      PROVE  o[i] \in E /\ Cardinality(Preceding(E, R, o[i])) = i - 1
  <2>1. \E p \in E : Cardinality(Board!Ahead(p, t, b)) = i - 1
    BY <1>3, <1>5
  <2>2. o[i] = CHOOSE p \in E : Cardinality(Board!Ahead(p, t, b)) = i - 1
    BY <1>7
  <2>3. o[i] \in E /\ Cardinality(Board!Ahead(o[i], t, b)) = i - 1
    BY <2>1, <2>2
  <2> QED BY <1>5, <2>3
<1>9. \A i, j \in 1 .. n : i < j => <<o[i], o[j]>> \in R
  <2>1. SUFFICES ASSUME NEW i \in 1 .. n, NEW j \in 1 .. n, i < j PROVE <<o[i], o[j]>> \in R
    OBVIOUS
  <2>2. Cardinality(Preceding(E, R, o[i])) < Cardinality(Preceding(E, R, o[j]))
    BY <1>4, <1>8, <2>1
  <2> QED BY <1>3, <1>8, <2>2
<1>10. DOMAIN o = 1 .. n
  BY <1>7
<1>11. \A i \in 1 .. n : Board!Score(o[i], t, b) \in Int
  BY <1>1, <1>8, ScoreType
<1>12. \A i, j \in 1 .. n : i < j => Board!Score(o[i], t, b) >= Board!Score(o[j], t, b)
  BY <1>2, <1>8, <1>9
<1> QED BY <1>4, <1>6, <1>10, <1>11, <1>12

PlaceRecursion(o, t, b) == CHOOSE it : it = [i \in DOMAIN o |->
    IF i > 1 /\ Board!Score(o[i], t, b) = Board!Score(o[i - 1], t, b) THEN it[i - 1] ELSE i]

\* Rows in the order of their scores, each with the place it has.
Standing(r) == \A i \in DOMAIN r :
    /\ r[i].rank = 1 + Cardinality({j \in DOMAIN r : r[j].score > r[i].score})
    /\ i > 1 => r[i - 1].score >= r[i].score

LEMMA RankedIsStanding ==
    ASSUME ClosesType, NEW t, NEW b \in Board!Boards
    PROVE  Standing(Board!Ranked(t, b))
<1>1. PICK o : o = Board!Order(t, b)
  OBVIOUS
<1>2. PICK n \in Nat :
         /\ DOMAIN o = 1 .. n
         /\ \A i \in 1 .. n : Board!Score(o[i], t, b) \in Int
         /\ \A i, j \in 1 .. n : i < j => Board!Score(o[i], t, b) >= Board!Score(o[j], t, b)
  BY <1>1, OrderIsSorted
<1>3. PICK a : a = [i \in 1 .. n |-> Board!Score(o[i], t, b)]
  OBVIOUS
<1>4. /\ \A j \in 1 .. n : a[j] \in Int /\ a[j] = Board!Score(o[j], t, b)
      /\ \A j, k \in 1 .. n : j < k => a[j] >= a[k]
  BY <1>2, <1>3
<1>5. ASSUME NEW it
      PROVE  [i \in 1 .. n |-> IF i > 1 /\ Board!Score(o[i], t, b) = Board!Score(o[i - 1], t, b)
                               THEN it[i - 1] ELSE i]
           = [i \in 1 .. n |-> IF i > 1 /\ a[i] = a[i - 1] THEN it[i - 1] ELSE i]
  <2>1. ASSUME NEW i \in 1 .. n, i > 1
        PROVE  a[i] = Board!Score(o[i], t, b) /\ a[i - 1] = Board!Score(o[i - 1], t, b)
    <3>1. i - 1 \in 1 .. n
      BY <2>1
    <3> QED BY <1>4, <3>1
  <2> QED BY <2>1
<1>6. PICK w : SharesPlaces(a, n, w)
  BY <1>4, PlacesExist
<1>7. w = [i \in DOMAIN o |-> IF i > 1 /\ Board!Score(o[i], t, b) = Board!Score(o[i - 1], t, b)
                              THEN w[i - 1] ELSE i]
  <2>1. w = [i \in 1 .. n |-> IF i > 1 /\ a[i] = a[i - 1] THEN w[i - 1] ELSE i]
    BY <1>6 DEF SharesPlaces
  <2>2. [i \in 1 .. n |-> IF i > 1 /\ Board!Score(o[i], t, b) = Board!Score(o[i - 1], t, b)
                          THEN w[i - 1] ELSE i]
          = [i \in 1 .. n |-> IF i > 1 /\ a[i] = a[i - 1] THEN w[i - 1] ELSE i]
    BY <1>5
  <2>3. DOMAIN o = 1 .. n
    BY <1>2
  <2> QED BY <2>1, <2>2, <2>3, Zenon
<1>8. PICK h : h = PlaceRecursion(o, t, b)
  OBVIOUS
<1>9. h = [i \in DOMAIN o |-> IF i > 1 /\ Board!Score(o[i], t, b) = Board!Score(o[i - 1], t, b)
                              THEN h[i - 1] ELSE i]
  BY <1>7, <1>8 DEF PlaceRecursion
<1>10. SharesPlaces(a, n, h)
  BY <1>2, <1>5, <1>9 DEF SharesPlaces
<1>11. \A i \in 1 .. n : h[i] = 1 + Cardinality(Better(a, n, i))
  BY <1>4, <1>10, PlacesCountTheBetter
<1>12. PICK r : r = Board!Ranked(t, b)
  OBVIOUS
<1>13. Board!Places(o, t, b) = h
  BY <1>8 DEF Board!Places, PlaceRecursion
<1>14. r = [i \in 1 .. n |-> [who |-> o[i], score |-> Board!Score(o[i], t, b), rank |-> h[i]]]
  BY <1>1, <1>2, <1>12, <1>13 DEF Board!Ranked
<1>15. DOMAIN r = 1 .. n /\ \A i \in 1 .. n : r[i].score = a[i] /\ r[i].rank = h[i]
  BY <1>4, <1>14
<1>16. ASSUME NEW i \in DOMAIN r
       PROVE  /\ r[i].rank = 1 + Cardinality({j \in DOMAIN r : r[j].score > r[i].score})
              /\ i > 1 => r[i - 1].score >= r[i].score
  <2>1. i \in 1 .. n /\ {j \in DOMAIN r : r[j].score > r[i].score} = Better(a, n, i)
    BY <1>15 DEF Better
  <2>2. ASSUME i > 1 PROVE r[i - 1].score >= r[i].score
    <3>1. i - 1 \in 1 .. n /\ i - 1 < i
      BY <2>1, <2>2
    <3> QED BY <1>4, <1>15, <2>1, <3>1
  <2> QED BY <1>11, <1>15, <2>1, <2>2
<1> QED BY <1>12, <1>16 DEF Standing

\* Every row published or on its way was ranked on the scores of one moment.
BoardInv ==
    /\ ClosesType
    /\ DOMAIN snapshot = Board!Periods
    /\ \A t \in Board!Periods :
          /\ DOMAIN snapshot[t] = Board!Boards
          /\ \A b \in Board!Boards : Standing(snapshot[t][b])
    /\ DOMAIN sweeping = BoardSweeps
    /\ \A s \in BoardSweeps : Standing(sweeping[s].rows)

LEMMA NobodyStands == Standing(<<>>)
BY DEF Standing

LEMMA BoardInit == Init => BoardInv
<1>1. SUFFICES ASSUME Init PROVE BoardInv
  OBVIOUS
<1>2. /\ settled = <<>> /\ week = 1
      /\ snapshot = [t \in Board!Periods |-> [b \in Board!Boards |-> <<>>]]
      /\ sweeping = [s \in BoardSweeps |-> Board!NoSweep]
  BY <1>1 DEF Init, Board!Init
<1>3. ClosesType
  BY <1>2, EmptySeq DEF ClosesType
<1>4. Board!NoSweep.rows = <<>>
  BY DEF Board!NoSweep
<1>5. \A t \in Board!Periods : /\ DOMAIN snapshot[t] = Board!Boards
                               /\ \A b \in Board!Boards : snapshot[t][b] = <<>>
  BY <1>2
<1>6. \A s \in BoardSweeps : sweeping[s].rows = <<>>
  BY <1>2, <1>4
<1> QED BY <1>2, <1>3, <1>5, <1>6, NobodyStands DEF BoardInv

LEMMA BoardKeep == BoardInv /\ [Next]_vars => BoardInv'
<1>1. SUFFICES ASSUME BoardInv, [Board!Next]_(Board!vars) PROVE BoardInv'
  BY BoardStep
<1>2. CASE UNCHANGED Board!vars
  BY <1>1, <1>2 DEF BoardInv, ClosesType, Board!vars
<1>3. ASSUME NEW m \in BoardMarkets, NEW o \in Board!Sides, Board!Resolve(m, o)
      PROVE  BoardInv'
  <2>1. PICK c : c = [market |-> m, week |-> week, outcome |-> o]
    OBVIOUS
  <2>2. /\ settled' = Append(settled, c)
        /\ UNCHANGED <<week, snapshot, sweeping>>
    BY <1>3, <2>1 DEF Board!Resolve
  <2>3. c \in Close /\ settled \in Seq(Close)
    BY <1>1, <2>1 DEF BoardInv, ClosesType, Close
  <2>4. Append(settled, c) \in Seq(Close)
    BY <2>3, AppendProperties
  <2> QED BY <1>1, <2>2, <2>4 DEF BoardInv, ClosesType
<1>4. ASSUME NEW s \in BoardSweeps, NEW t \in Board!Periods, NEW b \in Board!Boards,
             Board!Compute(s, t, b)
      PROVE  BoardInv'
  <2>1. PICK c : c = [at |-> "computed", period |-> t, board |-> b, rows |-> Board!Ranked(t, b)]
    OBVIOUS
  <2>2. /\ sweeping' = [sweeping EXCEPT ![s] = c]
        /\ UNCHANGED <<settled, week, snapshot>>
    BY <1>4, <2>1 DEF Board!Compute
  <2>3. Standing(c.rows)
    BY <1>1, <2>1, RankedIsStanding DEF BoardInv
  <2>4. /\ DOMAIN sweeping' = BoardSweeps
        /\ \A r \in BoardSweeps : sweeping'[r] = IF r = s THEN c ELSE sweeping[r]
    BY <1>1, <2>2 DEF BoardInv
  <2>5. \A r \in BoardSweeps : Standing(sweeping'[r].rows)
    BY <1>1, <2>3, <2>4 DEF BoardInv
  <2> QED BY <1>1, <2>2, <2>4, <2>5 DEF BoardInv, ClosesType
<1>5. ASSUME NEW s \in BoardSweeps, Board!Publish(s) PROVE BoardInv'
  <2>1. PICK u, c, r : u = sweeping[s].period /\ c = sweeping[s].board /\ r = sweeping[s].rows
    OBVIOUS
  <2>2. /\ snapshot' = [snapshot EXCEPT ![u][c] = r]
        /\ sweeping' = [sweeping EXCEPT ![s] = Board!NoSweep]
        /\ UNCHANGED <<settled, week>>
    BY <1>5, <2>1 DEF Board!Publish
  <2>3. Standing(r) /\ Standing(Board!NoSweep.rows)
    BY <1>1, <2>1, NobodyStands DEF BoardInv, Board!NoSweep
  <2>4. DOMAIN snapshot' = Board!Periods
    BY <1>1, <2>2 DEF BoardInv
  <2>5. ASSUME NEW t \in Board!Periods
        PROVE  /\ DOMAIN snapshot'[t] = Board!Boards
               /\ \A b \in Board!Boards : Standing(snapshot'[t][b])
    <3>1. /\ DOMAIN snapshot[t] = Board!Boards /\ t \in DOMAIN snapshot
          /\ \A b \in Board!Boards : Standing(snapshot[t][b])
      BY <1>1 DEF BoardInv
    <3>2. CASE t = u
      <4>1. snapshot'[t] = [snapshot[t] EXCEPT ![c] = r]
        BY <2>2, <3>1, <3>2
      <4>2. /\ DOMAIN snapshot'[t] = Board!Boards
            /\ \A b \in Board!Boards : snapshot'[t][b] = IF b = c THEN r ELSE snapshot[t][b]
        BY <3>1, <4>1
      <4> QED BY <2>3, <3>1, <4>2
    <3>3. CASE t # u
      <4>1. snapshot'[t] = snapshot[t]
        BY <2>2, <3>1, <3>3
      <4> QED BY <3>1, <4>1
    <3> QED BY <3>2, <3>3
  <2>6. /\ DOMAIN sweeping' = BoardSweeps
        /\ \A q \in BoardSweeps : sweeping'[q] = IF q = s THEN Board!NoSweep ELSE sweeping[q]
    BY <1>1, <2>2 DEF BoardInv
  <2>7. \A q \in BoardSweeps : Standing(sweeping'[q].rows)
    BY <1>1, <2>3, <2>6 DEF BoardInv
  <2> QED BY <1>1, <2>2, <2>4, <2>5, <2>6, <2>7 DEF BoardInv, ClosesType
<1>6. CASE Board!NextWeek
  <2>1. week' \in Weeks /\ UNCHANGED <<settled, snapshot, sweeping>>
    BY <1>6 DEF Board!NextWeek
  <2> QED BY <1>1, <2>1 DEF BoardInv, ClosesType
<1> QED BY <1>1, <1>2, <1>3, <1>4, <1>5, <1>6 DEF Board!Next

LEMMA BoardsStand == BoardInv => StandingsHold
<1>1. SUFFICES ASSUME BoardInv PROVE StandingsHold
  OBVIOUS
<1>2. Board!ProfitIsSomebodysLoss
  BY <1>1, ProfitsAreLosses DEF BoardInv
<1>3. ASSUME NEW t \in Board!Periods, NEW b \in Board!Boards
      PROVE  \A i \in DOMAIN snapshot[t][b] :
                /\ snapshot[t][b][i].rank = 1 + Board!Cardinality(
                      {j \in DOMAIN snapshot[t][b] :
                          snapshot[t][b][j].score > snapshot[t][b][i].score})
                /\ i > 1 => snapshot[t][b][i - 1].score >= snapshot[t][b][i].score
  BY <1>1, BoardCounts DEF BoardInv, Standing
<1>4. Board!PlacesAreStanding
  BY <1>3 DEF Board!PlacesAreStanding
<1> QED BY <1>2, <1>4 DEF StandingsHold

\* On every published board a place is one more than the number of people who
\* did strictly better, whatever closed while the sweep was under way, and no
\* period's profits, exits and payouts together, add up to more than the seeds
\* that came back and the gains that left before the result
\* (LeaderboardService: rank, records, profitOf).
THEOREM PlacesAndProfits == Spec => []StandingsHold
<1>1. Init => BoardInv
  BY BoardInit
<1>2. BoardInv /\ [Next]_vars => BoardInv'
  BY BoardKeep
<1>3. BoardInv => StandingsHold
  BY BoardsStand
<1> QED BY <1>1, <1>2, <1>3, PTL DEF Spec

-----------------------------------------------------------------------------
(* AbuseDesk.                                                              *)

LEMMA DeskStep == [Next]_vars => [Abuse!Next]_(Abuse!vars)
BY DEF Next, vars, abuse, Abuse!vars

LEMMA DeskCounts == ASSUME NEW S PROVE Abuse!Cardinality(S) = Cardinality(S)
BY DEF Abuse!Cardinality, Cardinality

SweepPlaces == {"rest", "look", "create", "update"}

FlagStates == {"none", "open", "cleared", "actioned"}

Look(e) == [at : SweepPlaces, evidence : {e}]

Reading == [what : {"none", "freeze", "clear", "unfreeze"}, was : {"active", "frozen"}]

DeskType ==
    /\ DOMAIN sweep = Sweepers
    /\ \A w \in Sweepers : sweep[w] \in Look(sweep[w].evidence)
    /\ flag \in [state : FlagStates, evidence : {flag.evidence}]
    /\ review \in [Reviewers -> Reading]
    /\ traderStatus \in {"active", "frozen"}

\* A sweep that is about to write, and that no decision came across, looked at
\* a flag nobody had cleared, and it still is one.
LeftAlone == \A w \in Sweepers :
    sweep[w].at = "update" /\ w \notin reviewCrossed => flag.state # "cleared"

FlagInv == DeskType /\ LeftAlone

LEMMA FlagInit == Init => FlagInv
<1>1. SUFFICES ASSUME Init PROVE FlagInv
  OBVIOUS
<1>2. /\ flag = Abuse!NoFlag /\ traderStatus = "active"
      /\ sweep = [w \in Sweepers |-> Abuse!Idle]
      /\ review = [v \in Reviewers |-> Abuse!Undecided]
  BY <1>1 DEF Init, Abuse!Init
<1>3. \A w \in Sweepers : sweep[w].at = "rest" /\ sweep[w] \in Look(sweep[w].evidence)
  BY <1>2 DEF Abuse!Idle, Look, SweepPlaces
<1>4. DeskType
  BY <1>2, <1>3 DEF DeskType, Abuse!NoFlag, Abuse!Undecided, Reading, FlagStates
<1> QED BY <1>3, <1>4 DEF FlagInv, LeftAlone

\* A sweep that moves keeps its shape.
LEMMA SweepTyped ==
    ASSUME DeskType, NEW w \in Sweepers, NEW r, NEW p \in SweepPlaces, NEW e,
           r = [at |-> p, evidence |-> e],
           sweep' = [sweep EXCEPT ![w] = r]
    PROVE  /\ DOMAIN sweep' = Sweepers
           /\ \A x \in Sweepers : /\ sweep'[x] = IF x = w THEN r ELSE sweep[x]
                                  /\ sweep'[x] \in Look(sweep'[x].evidence)
           /\ r.at = p
<1>1. r \in Look(r.evidence) /\ r.at = p
  BY DEF Look
<1>2. DOMAIN sweep' = Sweepers /\ \A x \in Sweepers : sweep'[x] = IF x = w THEN r ELSE sweep[x]
  BY DEF DeskType
<1>3. \A x \in Sweepers : sweep'[x] \in Look(sweep'[x].evidence)
  BY <1>1, <1>2 DEF DeskType
<1> QED BY <1>1, <1>2, <1>3

LEMMA FlagKeep == FlagInv /\ [Next]_vars => FlagInv'
<1>1. SUFFICES ASSUME FlagInv, [Abuse!Next]_(Abuse!vars) PROVE FlagInv'
  BY DeskStep
<1>t. /\ DeskType /\ LeftAlone
      /\ \A w \in Sweepers : sweep[w] = [at |-> sweep[w].at, evidence |-> sweep[w].evidence]
      /\ flag = [state |-> flag.state, evidence |-> flag.evidence]
  BY <1>1 DEF FlagInv, DeskType, Look
<1>2. CASE UNCHANGED <<flag, sweep, review, traderStatus, reviewCrossed>>
  BY <1>1, <1>2 DEF FlagInv, DeskType, LeftAlone
<1>3. ASSUME NEW w \in Sweepers, Abuse!Detect(w) PROVE FlagInv'
  <2>1. PICK p, e, r : /\ p = "look" /\ e = Abuse!Evidence
                       /\ r = [at |-> p, evidence |-> e]
    OBVIOUS
  <2>2. sweep' = [sweep EXCEPT ![w] = r] /\ UNCHANGED <<flag, review, traderStatus, reviewCrossed>>
    BY <1>3, <2>1 DEF Abuse!Detect
  <2>3. p \in SweepPlaces
    BY <2>1 DEF SweepPlaces
  <2>4. /\ DOMAIN sweep' = Sweepers
        /\ \A x \in Sweepers : /\ sweep'[x] = IF x = w THEN r ELSE sweep[x]
                               /\ sweep'[x] \in Look(sweep'[x].evidence)
        /\ r.at = p
    BY <1>t, <2>1, <2>2, <2>3, SweepTyped
  <2> QED BY <1>t, <2>1, <2>2, <2>4 DEF FlagInv, DeskType, LeftAlone
<1>4. ASSUME NEW w \in Sweepers, Abuse!Look(w) PROVE FlagInv'
  <2>1. PICK p, e, r :
           /\ p \in {"rest", "create", "update"} /\ r = [at |-> p, evidence |-> e]
           /\ p = "update" => flag.state # "cleared"
           /\ sweep' = [sweep EXCEPT ![w] = r]
    <3>1. CASE Abuse!PassedOver(flag)
      <4>1. sweep' = [sweep EXCEPT ![w] = Abuse!Idle]
        BY <1>4, <3>1 DEF Abuse!Look
      <4> QED BY <4>1 DEF Abuse!Idle
    <3>2. CASE ~Abuse!PassedOver(flag)
      <4>1. PICK q \in {"create", "update"} : sweep' = [sweep EXCEPT ![w].at = q]
        BY <1>4, <3>2 DEF Abuse!Look
      <4>2. PICK x, y : sweep[w] = [at |-> x, evidence |-> y]
        BY <1>t
      <4>3. [sweep[w] EXCEPT !.at = q] = [at |-> q, evidence |-> y]
        BY <4>2
      <4>4. sweep' = [sweep EXCEPT ![w] = [at |-> q, evidence |-> y]]
        BY <4>1, <4>3
      <4> QED BY <3>2, <4>4 DEF Abuse!PassedOver
    <3> QED BY <3>1, <3>2
  <2>2. UNCHANGED <<flag, review, traderStatus>> /\ reviewCrossed' = reviewCrossed \ {w}
    BY <1>4 DEF Abuse!Look
  <2>3. p \in SweepPlaces
    BY <2>1 DEF SweepPlaces
  <2>4. /\ DOMAIN sweep' = Sweepers
        /\ \A x \in Sweepers : /\ sweep'[x] = IF x = w THEN r ELSE sweep[x]
                               /\ sweep'[x] \in Look(sweep'[x].evidence)
        /\ r.at = p
    BY <1>t, <2>1, <2>3, SweepTyped
  <2> QED BY <1>t, <2>1, <2>2, <2>4 DEF FlagInv, DeskType, LeftAlone
<1>5. ASSUME NEW w \in Sweepers, Abuse!Update(w) \/ Abuse!Create(w) PROVE FlagInv'
  <2>1. PICK p, e, r : /\ p = "rest" /\ e = 0 /\ r = [at |-> p, evidence |-> e]
    OBVIOUS
  <2>2. sweep' = [sweep EXCEPT ![w] = r] /\ UNCHANGED <<review, traderStatus, reviewCrossed>>
    BY <1>5, <2>1 DEF Abuse!Update, Abuse!Create, Abuse!Idle
  <2>3. p \in SweepPlaces
    BY <2>1 DEF SweepPlaces
  <2>4. /\ DOMAIN sweep' = Sweepers
        /\ \A x \in Sweepers : /\ sweep'[x] = IF x = w THEN r ELSE sweep[x]
                               /\ sweep'[x] \in Look(sweep'[x].evidence)
        /\ r.at = p
    BY <1>t, <2>1, <2>2, <2>3, SweepTyped
  <2>5. /\ flag' \in [state : FlagStates, evidence : {flag'.evidence}]
        /\ flag'.state = "cleared" => flag.state = "cleared"
    <3>1. CASE Abuse!Update(w)
      <4>1. flag' = [flag EXCEPT !.evidence = sweep[w].evidence]
        BY <3>1 DEF Abuse!Update
      <4> QED BY <1>t, <4>1 DEF DeskType
    <3>2. CASE Abuse!Create(w)
      <4>1. flag' = flag \/ flag' = [state |-> "open", evidence |-> sweep[w].evidence]
        BY <3>2 DEF Abuse!Create
      <4> QED BY <1>t, <4>1 DEF DeskType, FlagStates
    <3> QED BY <1>5, <3>1, <3>2
  <2> QED BY <1>t, <2>1, <2>2, <2>4, <2>5 DEF FlagInv, DeskType, LeftAlone
<1>6. ASSUME NEW v \in Reviewers, NEW what \in {"freeze", "clear", "unfreeze"},
             Abuse!Consider(v, what)
      PROVE  FlagInv'
  <2>1. /\ review' = [review EXCEPT ![v] = [what |-> what, was |-> traderStatus]]
        /\ UNCHANGED <<flag, sweep, traderStatus, reviewCrossed>>
    BY <1>6 DEF Abuse!Consider
  <2>2. review' \in [Reviewers -> Reading]
    BY <1>t, <2>1 DEF DeskType, Reading
  <2> QED BY <1>t, <2>1, <2>2 DEF FlagInv, DeskType, LeftAlone
<1>7. ASSUME NEW v \in Reviewers, Abuse!Decide(v) PROVE FlagInv'
  <2>1. PICK d, to, s :
           /\ d = review[v]
           /\ to = CASE d.what = "freeze" -> "frozen"
                     [] d.what = "unfreeze" -> "active"
                     [] OTHER -> d.was
           /\ s = IF d.what = "clear" THEN "cleared" ELSE "actioned"
    OBVIOUS
  <2>2. /\ traderStatus' = IF to # d.was THEN to ELSE traderStatus
        /\ flag' = [flag EXCEPT !.state = s]
        /\ review' = [review EXCEPT ![v] = Abuse!Undecided]
        /\ reviewCrossed' = Sweepers
        /\ UNCHANGED sweep
    BY <1>7, <2>1 DEF Abuse!Decide
  <2>3. d \in Reading /\ to \in {"active", "frozen"} /\ s \in FlagStates
    BY <1>t, <2>1 DEF DeskType, Reading, FlagStates
  <2>4. flag' \in [state : FlagStates, evidence : {flag'.evidence}]
    BY <1>t, <2>2, <2>3 DEF DeskType
  <2>5. review' \in [Reviewers -> Reading]
    BY <1>t, <2>2 DEF DeskType, Reading, Abuse!Undecided
  <2> QED BY <1>t, <2>2, <2>3, <2>4, <2>5 DEF FlagInv, DeskType, LeftAlone
<1>8. CASE \/ \E side_1 \in {"buy", "sell"} : Abuse!Trade(side_1)
           \/ \E a \in Others : Abuse!RecordDevice(a)
           \/ Abuse!Tick \/ UNCHANGED Abuse!vars
  <2>1. UNCHANGED <<flag, sweep, review, traderStatus, reviewCrossed>>
    BY <1>8 DEF Abuse!Trade, Abuse!RecordDevice, Abuse!Tick, Abuse!vars
  <2> QED BY <1>2, <2>1
<1> QED BY <1>1, <1>3, <1>4, <1>5, <1>6, <1>7, <1>8 DEF Abuse!Next

\* Who may touch a cleared flag.
Touch ==
    flag.state = "cleared" =>
        \/ \E v \in Reviewers : review'[v] = Abuse!Undecided /\ review[v] # Abuse!Undecided
        \/ \E w \in reviewCrossed : sweep[w].at = "update" /\ sweep'[w] = Abuse!Idle

LEMMA ClearedIsTouched == FlagInv /\ [Next]_vars => [Touch]_flag
<1>1. SUFFICES ASSUME FlagInv, Abuse!Next, flag' # flag, flag.state = "cleared"
               PROVE  \/ \E v \in Reviewers :
                            review'[v] = Abuse!Undecided /\ review[v] # Abuse!Undecided
                      \/ \E w \in reviewCrossed :
                            sweep[w].at = "update" /\ sweep'[w] = Abuse!Idle
  BY DeskStep DEF Touch, Abuse!vars
<1>2. ASSUME NEW v \in Reviewers, Abuse!Decide(v)
      PROVE  review'[v] = Abuse!Undecided /\ review[v] # Abuse!Undecided
  BY <1>1, <1>2 DEF Abuse!Decide, FlagInv, DeskType
<1>3. ASSUME NEW w \in Sweepers, Abuse!Update(w)
      PROVE  w \in reviewCrossed /\ sweep[w].at = "update" /\ sweep'[w] = Abuse!Idle
  BY <1>1, <1>3 DEF Abuse!Update, FlagInv, DeskType, LeftAlone
<1>4. ASSUME NEW w \in Sweepers, Abuse!Create(w) PROVE FALSE
  BY <1>1, <1>4 DEF Abuse!Create, Abuse!NoFlag
<1>5. CASE \/ \E side_1 \in {"buy", "sell"} : Abuse!Trade(side_1)
           \/ \E a \in Others : Abuse!RecordDevice(a)
           \/ \E w \in Sweepers : Abuse!Detect(w) \/ Abuse!Look(w)
           \/ \E v \in Reviewers, what \in {"freeze", "clear", "unfreeze"} :
                 Abuse!Consider(v, what)
           \/ Abuse!Tick
  BY <1>1, <1>5 DEF Abuse!Trade, Abuse!RecordDevice, Abuse!Detect, Abuse!Look,
                    Abuse!Consider, Abuse!Tick
<1> QED BY <1>1, <1>2, <1>3, <1>4, <1>5 DEF Abuse!Next

LEMMA LargestExists ==
    ASSUME NEW n \in Nat
    PROVE  \A s \in SUBSET (1 .. n) : s # {} => \E x \in s : \A y \in s : x >= y
<1> DEFINE T == {m \in Nat : \A s \in SUBSET (1 .. m) : s # {} => \E x \in s : \A y \in s : x >= y}
<1>1. 0 \in T
  <2>1. \A s \in SUBSET (1 .. 0) : s = {}
    OBVIOUS
  <2> QED BY <2>1
<1>2. ASSUME NEW m \in Nat, m \in T PROVE m + 1 \in T
  <2>1. SUFFICES ASSUME NEW s \in SUBSET (1 .. (m + 1)), s # {}
                 PROVE  \E x \in s : \A y \in s : x >= y
    OBVIOUS
  <2>2. CASE m + 1 \in s
    BY <2>2
  <2>3. CASE m + 1 \notin s
    <3>1. s \in SUBSET (1 .. m)
      BY <2>3
    <3> QED BY <1>2, <2>1, <3>1
  <2> QED BY <2>2, <2>3
<1>3. Nat \subseteq T
  <2> HIDE DEF T
  <2> QED BY <1>1, <1>2, NatSetInduction
<1> QED BY <1>3

LEMMA SmallestExists ==
    ASSUME NEW n \in Nat
    PROVE  \A s \in SUBSET (1 .. n) : s # {} => \E x \in s : \A y \in s : x =< y
<1> DEFINE T == {m \in Nat : \A s \in SUBSET (1 .. m) : s # {} => \E x \in s : \A y \in s : x =< y}
<1>1. 0 \in T
  <2>1. \A s \in SUBSET (1 .. 0) : s = {}
    OBVIOUS
  <2> QED BY <2>1
<1>2. ASSUME NEW m \in Nat, m \in T PROVE m + 1 \in T
  <2>1. SUFFICES ASSUME NEW s \in SUBSET (1 .. (m + 1)), s # {}
                 PROVE  \E x \in s : \A y \in s : x =< y
    OBVIOUS
  <2>2. PICK r : r = s \ {m + 1}
    OBVIOUS
  <2>3. r \in SUBSET (1 .. m)
    BY <2>2
  <2>4. CASE r = {}
    <3>1. s = {m + 1}
      BY <2>1, <2>2, <2>4
    <3> QED BY <3>1
  <2>5. CASE r # {}
    <3>1. PICK x \in r : \A y \in r : x =< y
      BY <1>2, <2>3, <2>5
    <3>2. x \in s /\ x =< m + 1
      BY <2>2, <2>3, <3>1
    <3> QED BY <2>2, <3>1, <3>2
  <2> QED BY <2>4, <2>5
<1>3. Nat \subseteq T
  <2> HIDE DEF T
  <2> QED BY <1>1, <1>2, NatSetInduction
<1> QED BY <1>3

LEMMA MaxIn ==
    ASSUME NEW n \in Nat, NEW s \in SUBSET (1 .. n), s # {}
    PROVE  Abuse!Max(s) \in s /\ \A y \in s : Abuse!Max(s) >= y
<1>1. \E x \in s : \A y \in s : x >= y
  BY LargestExists
<1> QED BY <1>1 DEF Abuse!Max

LEMMA MinIn ==
    ASSUME NEW n \in Nat, NEW s \in SUBSET (1 .. n), s # {}
    PROVE  Abuse!Min(s) \in s /\ \A y \in s : Abuse!Min(s) =< y
<1>1. \E x \in s : \A y \in s : x =< y
  BY SmallestExists
<1> QED BY <1>1 DEF Abuse!Min

LEMMA MaxIs ==
    ASSUME NEW s, NEW x \in s, s \subseteq Int, \A y \in s : x >= y
    PROVE  Abuse!Max(s) = x
<1>1. Abuse!Max(s) \in s /\ \A y \in s : Abuse!Max(s) >= y
  BY DEF Abuse!Max
<1>2. Abuse!Max(s) \in Int /\ x \in Int /\ Abuse!Max(s) >= x /\ x >= Abuse!Max(s)
  BY <1>1
<1> QED BY <1>2

-----------------------------------------------------------------------------
\* One move of the flood rule's two pointers, and the fold of the moves.

Moves(ts, acc, end) ==
    [start |-> Abuse!Slide(ts, acc.start, end),
     worst |-> Abuse!Max({acc.worst, end - Abuse!Slide(ts, acc.start, end) + 1})]

FromStart == [start |-> 1, worst |-> 0]

MovesUpTo(ts, S, n, g) ==
    g = [s \in SmallSets(S, n) |->
            IF s = {} THEN FromStart
            ELSE Moves(ts, g[s \ {Abuse!Max(s)}], Abuse!Max(s))]

SolvesMoves(ts, S, h) ==
    h = [s \in SUBSET S |->
            IF s = {} THEN FromStart
            ELSE Moves(ts, h[s \ {Abuse!Max(s)}], Abuse!Max(s))]

PeakRecursion(ts) == CHOOSE it : it = [s \in SUBSET (1 .. Len(ts)) |->
    IF s = {} THEN FromStart
    ELSE Moves(ts, it[s \ {Abuse!Max(s)}], [i \in 1 .. Len(ts) |-> i][Abuse!Max(s)])]

LEMMA PeakIsRecursion ==
    ASSUME NEW ts
    PROVE  Abuse!Peak(ts) = PeakRecursion(ts)[1 .. Len(ts)].worst
BY DEF Abuse!Peak, Abuse!FoldLeft, Abuse!MapThenFoldSet, PeakRecursion, Moves, FromStart

LEMMA MovesExist ==
    ASSUME NEW ts, NEW N \in Nat
    PROVE  \E h : SolvesMoves(ts, 1 .. N, h)
<1>0. PICK S : S = 1 .. N
  OBVIOUS
<1>f. IsFiniteSet(S) /\ Cardinality(S) \in Nat
  <2>1. PICK a, b : a = 1 /\ b = N /\ a \in Int /\ b \in Int
    OBVIOUS
  <2> QED BY <1>0, <2>1, FS_Interval, FS_CardinalityType
<1> DEFINE T == {n \in Nat : \E g : MovesUpTo(ts, S, n, g)}
<1>1. 0 \in T
  <2> DEFINE z == [s \in SmallSets(S, 0) |-> FromStart]
  <2>1. \A s \in SmallSets(S, 0) : s = {}
    BY <1>f, FS_Subset, FS_EmptySet, FS_CardinalityType DEF SmallSets
  <2>2. z = [s \in SmallSets(S, 0) |->
               IF s = {} THEN FromStart ELSE Moves(ts, z[s \ {Abuse!Max(s)}], Abuse!Max(s))]
    BY <2>1
  <2>3. MovesUpTo(ts, S, 0, z)
    BY <2>2 DEF MovesUpTo
  <2> QED BY <2>3
<1>2. ASSUME NEW n \in Nat, n \in T PROVE n + 1 \in T
  <2>1. PICK g : MovesUpTo(ts, S, n, g)
    BY <1>2
  <2> DEFINE h == [s \in SmallSets(S, n + 1) |->
                     IF s = {} THEN FromStart
                     ELSE Moves(ts, g[s \ {Abuse!Max(s)}], Abuse!Max(s))]
  <2>2. ASSUME NEW s \in SmallSets(S, n + 1), s # {}
        PROVE  s \ {Abuse!Max(s)} \in SmallSets(S, n)
    <3>1. s \in SUBSET S /\ Cardinality(s) <= n + 1 /\ Abuse!Max(s) \in s
      BY <1>0, <2>2, MaxIn DEF SmallSets
    <3>2. PICK x : x = Abuse!Max(s)
      OBVIOUS
    <3>3. /\ s \ {x} \in SUBSET S /\ Cardinality(s) \in Nat
          /\ Cardinality(s \ {x}) = Cardinality(s) - 1
      BY <1>f, <3>1, <3>2, SmallerByOne
    <3> QED BY <3>1, <3>2, <3>3 DEF SmallSets
  <2>3. ASSUME NEW t \in SmallSets(S, n) PROVE t \in SmallSets(S, n + 1) /\ h[t] = g[t]
    <3>1. t \in SUBSET S /\ IsFiniteSet(t) /\ Cardinality(t) \in Nat /\ Cardinality(t) <= n
      BY <1>f, FS_Subset, FS_CardinalityType DEF SmallSets
    <3>2. t \in SmallSets(S, n + 1)
      BY <3>1 DEF SmallSets
    <3>3. g[t] = IF t = {} THEN FromStart
                 ELSE Moves(ts, g[t \ {Abuse!Max(t)}], Abuse!Max(t))
      BY <2>1 DEF MovesUpTo
    <3> QED BY <3>2, <3>3
  <2>4. h = [s \in SmallSets(S, n + 1) |->
               IF s = {} THEN FromStart ELSE Moves(ts, h[s \ {Abuse!Max(s)}], Abuse!Max(s))]
    BY <2>2, <2>3
  <2>5. MovesUpTo(ts, S, n + 1, h)
    BY <2>4 DEF MovesUpTo
  <2> QED BY <2>5
<1>3. Nat \subseteq T
  <2> HIDE DEF T
  <2> QED BY <1>1, <1>2, NatSetInduction
<1>4. PICK g : MovesUpTo(ts, S, Cardinality(S), g)
  BY <1>3, <1>f
<1>5. SmallSets(S, Cardinality(S)) = SUBSET S
  BY <1>f, FS_Subset DEF SmallSets
<1>6. SolvesMoves(ts, S, g)
  BY <1>4, <1>5 DEF MovesUpTo, SolvesMoves
<1> QED BY <1>0, <1>6

\* So the fold is that: nothing before the first trade, one move per trade.
LEMMA FoldMoves ==
    ASSUME NEW ts, Len(ts) \in Nat, NEW h, h = PeakRecursion(ts)
    PROVE  /\ h[1 .. 0] = FromStart
           /\ \A k \in 1 .. Len(ts) : h[1 .. k] = Moves(ts, h[1 .. (k - 1)], k)
<1>1. PICK N, S, q : N = Len(ts) /\ S = 1 .. N /\ q = [i \in 1 .. N |-> i]
  OBVIOUS
<1>2. ASSUME NEW it
      PROVE  [s \in SUBSET S |->
                 IF s = {} THEN FromStart
                 ELSE Moves(ts, it[s \ {Abuse!Max(s)}], q[Abuse!Max(s)])]
           = [s \in SUBSET S |->
                 IF s = {} THEN FromStart
                 ELSE Moves(ts, it[s \ {Abuse!Max(s)}], Abuse!Max(s))]
  <2>1. ASSUME NEW s \in SUBSET S, s # {} PROVE q[Abuse!Max(s)] = Abuse!Max(s)
    <3>1. Abuse!Max(s) \in S
      BY <1>1, <2>1, MaxIn
    <3> QED BY <1>1, <3>1
  <2> QED BY <2>1
<1>3. PICK w : SolvesMoves(ts, S, w)
  BY <1>1, MovesExist
<1>4. w = [s \in SUBSET S |->
             IF s = {} THEN FromStart
             ELSE Moves(ts, w[s \ {Abuse!Max(s)}], q[Abuse!Max(s)])]
  BY <1>2, <1>3 DEF SolvesMoves
<1>5. h = CHOOSE it : it = [s \in SUBSET S |->
             IF s = {} THEN FromStart
             ELSE Moves(ts, it[s \ {Abuse!Max(s)}], q[Abuse!Max(s)])]
  BY <1>1 DEF PeakRecursion
<1>6. h = [s \in SUBSET S |->
             IF s = {} THEN FromStart
             ELSE Moves(ts, h[s \ {Abuse!Max(s)}], q[Abuse!Max(s)])]
  BY <1>4, <1>5
<1>7. h = [s \in SUBSET S |->
             IF s = {} THEN FromStart
             ELSE Moves(ts, h[s \ {Abuse!Max(s)}], Abuse!Max(s))]
  <2>1. [s \in SUBSET S |->
            IF s = {} THEN FromStart
            ELSE Moves(ts, h[s \ {Abuse!Max(s)}], q[Abuse!Max(s)])]
      = [s \in SUBSET S |->
            IF s = {} THEN FromStart
            ELSE Moves(ts, h[s \ {Abuse!Max(s)}], Abuse!Max(s))]
    BY <1>2
  <2> QED BY <1>6, <2>1, Zenon
<1>8. h[1 .. 0] = FromStart
  <2>1. 1 .. 0 = {} /\ {} \in SUBSET S
    OBVIOUS
  <2> QED BY <1>7, <2>1
<1>9. ASSUME NEW k \in 1 .. N PROVE h[1 .. k] = Moves(ts, h[1 .. (k - 1)], k)
  <2>1. PICK s, r : s = 1 .. k /\ r = 1 .. (k - 1)
    OBVIOUS
  <2>2. k \in s /\ s \subseteq Int /\ (\A y \in s : k >= y) /\ s \in SUBSET S
    BY <1>1, <2>1
  <2>3. Abuse!Max(s) = k
    BY <2>2, MaxIs
  <2>4. s \ {k} = r /\ s # {}
    BY <1>1, <2>1
  <2>5. h[s] = Moves(ts, h[r], k)
    BY <1>7, <2>2, <2>3, <2>4
  <2> QED BY <2>1, <2>5
<1> QED BY <1>1, <1>8, <1>9

Deal == [side : {"buy", "sell"}, at : Nat]

DealsInOrder(ts) ==
    /\ ts \in Seq(Deal)
    /\ \A i, j \in 1 .. Len(ts) : i <= j => ts[i].at <= ts[j].at

DealsInv ==
    /\ tradeTime \in Nat
    /\ DealsInOrder(trades)
    /\ \A i \in 1 .. Len(trades) : trades[i].at <= tradeTime

LEMMA TimesTyped ==
    ASSUME NEW ts, DealsInOrder(ts)
    PROVE  /\ Len(ts) \in Nat
           /\ \A i \in 1 .. Len(ts) : ts[i] \in Deal /\ ts[i].at \in Nat
           /\ \A i, j \in 1 .. Len(ts) : i <= j => ts[i].at <= ts[j].at
<1>1. ts \in Seq(Deal) /\ Len(ts) \in Nat
  BY DEF DealsInOrder
<1>2. ASSUME NEW i \in 1 .. Len(ts) PROVE ts[i] \in Deal
  BY <1>1
<1>3. ASSUME NEW d \in Deal PROVE d.at \in Nat
  BY DEF Deal
<1> QED BY <1>1, <1>2, <1>3 DEF DealsInOrder

LEMMA DealsInit == Init => DealsInv
BY DEF Init, Abuse!Init, DealsInv, DealsInOrder, Deal

LEMMA DealsKeep == DealsInv /\ [Next]_vars => DealsInv'
<1>1. SUFFICES ASSUME DealsInv, [Abuse!Next]_(Abuse!vars) PROVE DealsInv'
  BY DeskStep
<1>2. CASE UNCHANGED <<trades, tradeTime>>
  BY <1>1, <1>2 DEF DealsInv, DealsInOrder
<1>3. ASSUME NEW side_1 \in {"buy", "sell"}, Abuse!Trade(side_1) PROVE DealsInv'
  <2>1. PICK d : d = [side |-> side_1, at |-> tradeTime]
    OBVIOUS
  <2>2. trades' = Append(trades, d) /\ tradeTime' = tradeTime
    BY <1>3, <2>1 DEF Abuse!Trade
  <2>3. d \in Deal /\ trades \in Seq(Deal) /\ tradeTime \in Nat /\ d.at = tradeTime
    BY <1>1, <2>1 DEF DealsInv, DealsInOrder, Deal
  <2>4. /\ trades' \in Seq(Deal) /\ Len(trades) \in Nat /\ Len(trades') = Len(trades) + 1
        /\ \A i \in 1 .. Len(trades') :
              trades'[i] = IF i = Len(trades) + 1 THEN d ELSE trades[i]
    BY <2>2, <2>3
  <2>5. \A i \in 1 .. Len(trades') : trades'[i].at <= tradeTime'
    BY <1>1, <2>2, <2>3, <2>4 DEF DealsInv
  <2>6. ASSUME NEW i \in 1 .. Len(trades'), NEW j \in 1 .. Len(trades'), i <= j
        PROVE  trades'[i].at <= trades'[j].at
    <3>1. CASE j = Len(trades) + 1
      BY <2>2, <2>3, <2>4, <2>5, <3>1
    <3>2. CASE j # Len(trades) + 1
      <4>1. i \in 1 .. Len(trades) /\ j \in 1 .. Len(trades)
        BY <2>4, <2>6, <3>2
      <4> QED BY <1>1, <2>4, <2>6, <4>1 DEF DealsInv, DealsInOrder
    <3> QED BY <3>1, <3>2
  <2> QED BY <2>2, <2>3, <2>4, <2>5, <2>6 DEF DealsInv, DealsInOrder
<1>4. CASE Abuse!Tick
  <2>1. trades' = trades /\ tradeTime' = tradeTime + 1
    BY <1>4 DEF Abuse!Tick
  <2>2. \A i \in 1 .. Len(trades) : trades[i] \in Deal /\ trades[i].at \in Nat
    BY <1>1, TimesTyped DEF DealsInv
  <2> QED BY <1>1, <2>1, <2>2 DEF DealsInv, DealsInOrder
<1>5. CASE \/ \E a \in Others : Abuse!RecordDevice(a)
           \/ \E w \in Sweepers :
                 Abuse!Detect(w) \/ Abuse!Look(w) \/ Abuse!Update(w) \/ Abuse!Create(w)
           \/ \E v \in Reviewers :
                 \/ \E what \in {"freeze", "clear", "unfreeze"} : Abuse!Consider(v, what)
                 \/ Abuse!Decide(v)
           \/ UNCHANGED Abuse!vars
  <2>1. UNCHANGED <<trades, tradeTime>>
    BY <1>5 DEF Abuse!RecordDevice, Abuse!Detect, Abuse!Look, Abuse!Update, Abuse!Create,
                Abuse!Consider, Abuse!Decide, Abuse!vars
  <2> QED BY <1>2, <2>1
<1> QED BY <1>1, <1>3, <1>4, <1>5 DEF Abuse!Next

\* The trades of the hour that ends with the k-th, and the first of them.
LastHour(ts, k) == {j \in 1 .. k : ts[k].at - ts[j].at <= 1}

Earliest(ts, k) == Abuse!Min(LastHour(ts, k))

LEMMA HourIsInterval ==
    ASSUME NEW ts, DealsInOrder(ts), NEW k \in 1 .. Len(ts)
    PROVE  /\ Earliest(ts, k) \in 1 .. k
           /\ LastHour(ts, k) = Earliest(ts, k) .. k
           /\ Cardinality(LastHour(ts, k)) = k - Earliest(ts, k) + 1
<1>1. /\ Len(ts) \in Nat
      /\ \A i \in 1 .. Len(ts) : ts[i].at \in Nat
      /\ \A i, j \in 1 .. Len(ts) : i <= j => ts[i].at <= ts[j].at
  BY TimesTyped
<1>2. LastHour(ts, k) \in SUBSET (1 .. k) /\ k \in LastHour(ts, k) /\ k \in Nat
  BY <1>1 DEF LastHour
<1>3. PICK a : a = Earliest(ts, k)
  OBVIOUS
<1>4. a \in LastHour(ts, k) /\ \A y \in LastHour(ts, k) : a =< y
  BY <1>2, <1>3, MinIn DEF Earliest
<1>5. a \in 1 .. k /\ ts[k].at - ts[a].at <= 1
  BY <1>4 DEF LastHour
<1>6. ASSUME NEW j \in a .. k PROVE j \in LastHour(ts, k)
  <2>1. j \in 1 .. k /\ j \in 1 .. Len(ts) /\ a \in 1 .. Len(ts) /\ a <= j
    BY <1>1, <1>5
  <2>2. ts[a].at <= ts[j].at /\ ts[j].at \in Nat /\ ts[a].at \in Nat /\ ts[k].at \in Nat
    BY <1>1, <2>1
  <2>3. ts[k].at - ts[j].at <= 1
    BY <1>5, <2>2
  <2> QED BY <2>1, <2>3 DEF LastHour
<1>7. LastHour(ts, k) = a .. k
  <2>1. ASSUME NEW j \in LastHour(ts, k) PROVE j \in a .. k
    <3>1. j \in 1 .. k /\ a =< j
      BY <1>2, <1>4
    <3> QED BY <1>5, <3>1
  <2> QED BY <1>6, <2>1
<1>8. a \in Int /\ k \in Int /\ ~(a > k)
  BY <1>5
<1>9. Cardinality(a .. k) = IF a > k THEN 0 ELSE k - a + 1
  BY <1>8, FS_Interval
<1> QED BY <1>3, <1>5, <1>7, <1>8, <1>9

\* The pointer that is left where the last trade put it need not go back.
LEMMA PointerGoesOn ==
    ASSUME NEW ts, DealsInOrder(ts), NEW k \in 1 .. Len(ts), NEW start,
           start = IF k = 1 THEN 1 ELSE Earliest(ts, k - 1)
    PROVE  Abuse!Slide(ts, start, k) = Earliest(ts, k)
<1>1. /\ Len(ts) \in Nat
      /\ \A i \in 1 .. Len(ts) : ts[i].at \in Nat
      /\ \A i, j \in 1 .. Len(ts) : i <= j => ts[i].at <= ts[j].at
  BY TimesTyped
<1>2. start \in 1 .. k
  <2>1. CASE k = 1
    BY <2>1
  <2>2. CASE k # 1
    <3>1. k - 1 \in 1 .. Len(ts)
      BY <1>1, <2>2
    <3>2. Earliest(ts, k - 1) \in 1 .. (k - 1)
      BY <3>1, HourIsInterval
    <3> QED BY <2>2, <3>2
  <2> QED BY <2>1, <2>2
<1>3. ASSUME NEW j \in LastHour(ts, k) PROVE j \in start .. k
  <2>1. j \in 1 .. k /\ ts[k].at - ts[j].at <= 1
    BY DEF LastHour
  <2>2. CASE j = k
    BY <1>2, <2>2
  <2>3. CASE j # k
    <3>1. k # 1 /\ k - 1 \in 1 .. Len(ts) /\ j \in 1 .. (k - 1) /\ j \in 1 .. Len(ts)
      BY <1>1, <2>1, <2>3
    <3>2. ts[k - 1].at <= ts[k].at /\ ts[k].at \in Nat /\ ts[k - 1].at \in Nat
          /\ ts[j].at \in Nat
      BY <1>1, <3>1
    <3>3. ts[k - 1].at - ts[j].at <= 1
      <4>1. \A a, b, c \in Nat : a <= b /\ b - c <= 1 => a - c <= 1
        OBVIOUS
      <4> QED BY <2>1, <3>2, <4>1
    <3>4. j \in LastHour(ts, k - 1)
      BY <3>1, <3>3 DEF LastHour
    <3>5. LastHour(ts, k - 1) = start .. (k - 1)
      BY <3>1, HourIsInterval
    <3> QED BY <1>2, <3>4, <3>5
  <2> QED BY <2>2, <2>3
<1>4. {s \in start .. k : ts[k].at - ts[s].at <= 1} = LastHour(ts, k)
  <2>1. start .. k \subseteq 1 .. k
    BY <1>2
  <2> QED BY <1>3, <2>1 DEF LastHour
<1> QED BY <1>4 DEF Abuse!Slide, Abuse!Hour, Earliest

\* The hours that end with one of the first k trades, by their trades.
Hours(ts, k) == {0} \cup {Cardinality(LastHour(ts, i)) : i \in 1 .. k}

LEMMA MaxOfTwo ==
    ASSUME NEW a \in Int, NEW b \in Int
    PROVE  Abuse!Max({a, b}) = IF a >= b THEN a ELSE b
<1>1. CASE a >= b
  <2>1. a \in {a, b} /\ {a, b} \subseteq Int /\ \A y \in {a, b} : a >= y
    BY <1>1
  <2> QED BY <1>1, <2>1, MaxIs
<1>2. CASE ~(a >= b)
  <2>1. b \in {a, b} /\ {a, b} \subseteq Int /\ \A y \in {a, b} : b >= y
    BY <1>2
  <2> QED BY <1>2, <2>1, MaxIs
<1> QED BY <1>1, <1>2

LEMMA PointersKeepCount ==
    ASSUME NEW ts, DealsInOrder(ts), NEW h, h = PeakRecursion(ts)
    PROVE  \A k \in 0 .. Len(ts) :
              /\ h[1 .. k].start = IF k = 0 THEN 1 ELSE Earliest(ts, k)
              /\ h[1 .. k].worst \in Hours(ts, k)
              /\ \A y \in Hours(ts, k) : h[1 .. k].worst >= y
<1>1. PICK N : N = Len(ts) /\ N \in Nat
  BY DEF DealsInOrder
<1>2. /\ h[1 .. 0] = FromStart
      /\ \A k \in 1 .. N : h[1 .. k] = Moves(ts, h[1 .. (k - 1)], k)
  BY <1>1, FoldMoves
<1>3. ASSUME NEW k \in 0 .. N PROVE Hours(ts, k) \subseteq Int
  <2>1. ASSUME NEW i \in 1 .. k PROVE Cardinality(LastHour(ts, i)) \in Int
    <3>1. i \in 1 .. Len(ts)
      BY <1>1
    <3> QED BY <3>1, HourIsInterval
  <2> QED BY <2>1 DEF Hours
<1> DEFINE Counted(k) ==
              /\ h[1 .. k].start = IF k = 0 THEN 1 ELSE Earliest(ts, k)
              /\ h[1 .. k].worst \in Hours(ts, k)
              /\ \A y \in Hours(ts, k) : h[1 .. k].worst >= y
           T == {k \in Nat : k <= N => Counted(k)}
<1>4. 0 \in T
  <2>1. Hours(ts, 0) = {0}
    BY DEF Hours
  <2>2. h[1 .. 0].start = 1 /\ h[1 .. 0].worst = 0
    BY <1>2 DEF FromStart
  <2> QED BY <2>1, <2>2
<1>5. ASSUME NEW k \in Nat, k \in T PROVE k + 1 \in T
  <2>1. SUFFICES ASSUME k + 1 <= N PROVE Counted(k + 1)
    OBVIOUS
  <2>2. PICK e : e = k + 1 /\ e \in 1 .. N /\ e \in 1 .. Len(ts) /\ k \in 0 .. N
    BY <1>1, <2>1
  <2>3. Counted(k)
    BY <1>5, <2>2
  <2>4. PICK acc : acc = h[1 .. k]
    OBVIOUS
  <2>5. h[1 .. e] = Moves(ts, acc, e)
    <3>1. k = e - 1
      BY <2>2
    <3> QED BY <1>2, <2>2, <2>4, <3>1
  <2>6. Abuse!Slide(ts, acc.start, e) = Earliest(ts, e)
    <3>1. acc.start = IF e = 1 THEN 1 ELSE Earliest(ts, e - 1)
      BY <2>2, <2>3, <2>4
    <3> QED BY <2>2, <3>1, PointerGoesOn
  <2>7. PICK c : c = Cardinality(LastHour(ts, e)) /\ c = e - Earliest(ts, e) + 1 /\ c \in Int
    BY <2>2, HourIsInterval
  <2>8. acc.worst \in Int
    BY <1>3, <2>2, <2>3, <2>4
  <2>9. /\ h[1 .. e].start = Earliest(ts, e)
        /\ h[1 .. e].worst = IF acc.worst >= c THEN acc.worst ELSE c
    <3>1. /\ h[1 .. e].start = Earliest(ts, e)
          /\ h[1 .. e].worst = Abuse!Max({acc.worst, c})
      BY <2>5, <2>6, <2>7 DEF Moves
    <3> QED BY <2>7, <2>8, <3>1, MaxOfTwo
  <2>10. Hours(ts, e) = Hours(ts, k) \cup {c}
    <3>1. 1 .. e = (1 .. k) \cup {e}
      BY <2>2
    <3> QED BY <2>7, <3>1 DEF Hours
  <2>11. Hours(ts, k) \subseteq Int
    BY <1>3, <2>2
  <2>12. /\ h[1 .. e].worst \in Hours(ts, e)
         /\ \A y \in Hours(ts, e) : h[1 .. e].worst >= y
    BY <2>3, <2>4, <2>7, <2>8, <2>9, <2>10, <2>11
  <2> QED BY <2>2, <2>9, <2>12
<1>6. Nat \subseteq T
  <2> HIDE DEF T
  <2> QED BY <1>4, <1>5, NatSetInduction
<1>7. ASSUME NEW k \in 0 .. Len(ts) PROVE Counted(k)
  BY <1>1, <1>6
<1> QED BY <1>7

\* The two pointers count the busiest hour.
LEMMA DealsArePeaked == DealsInv => Abuse!PeakIsBusiestHour
<1>1. SUFFICES ASSUME DealsInv PROVE Abuse!PeakIsBusiestHour
  OBVIOUS
<1>2. PICK h, N : h = PeakRecursion(trades) /\ N = Len(trades) /\ N \in Nat
  BY <1>1 DEF DealsInv, DealsInOrder
<1>3. N \in 0 .. Len(trades) /\ DealsInOrder(trades)
  BY <1>1, <1>2 DEF DealsInv
<1>4. h[1 .. N].worst \in Hours(trades, N) /\ \A y \in Hours(trades, N) : h[1 .. N].worst >= y
  BY <1>2, <1>3, PointersKeepCount
<1>5. Hours(trades, N) \subseteq Int
  <2>1. ASSUME NEW i \in 1 .. N PROVE Cardinality(LastHour(trades, i)) \in Int
    BY <1>2, <1>3, HourIsInterval
  <2> QED BY <2>1 DEF Hours
<1>6. Abuse!Max(Hours(trades, N)) = h[1 .. N].worst
  BY <1>4, <1>5, MaxIs
<1>7. Abuse!Peak(trades) = Abuse!Max(Hours(trades, N))
  BY <1>2, <1>6, PeakIsRecursion
<1>8. Hours(trades, N) =
        {0} \cup {Abuse!Cardinality({j \in 1 .. i : trades[i].at - trades[j].at <= Abuse!Hour}) :
                    i \in DOMAIN trades}
  <2>1. DOMAIN trades = 1 .. N
    BY <1>2, <1>3 DEF DealsInOrder
  <2>2. \A i \in 1 .. N :
          Abuse!Cardinality({j \in 1 .. i : trades[i].at - trades[j].at <= Abuse!Hour})
             = Cardinality(LastHour(trades, i))
    BY DeskCounts DEF LastHour, Abuse!Hour
  <2> QED BY <2>1, <2>2 DEF Hours
<1> QED BY <1>7, <1>8 DEF Abuse!PeakIsBusiestHour

\* A flag a reviewer cleared is left as it is by every sweep that had not
\* looked before them, and the peak the flood rule counts with its two pointers
\* is the busiest hour that ends with a trade (AbuseService.sweep, stakeFlood).
THEOREM FlagsStayFair == Spec => FlagsAreFair
<1>1. Init => FlagInv /\ DealsInv
  BY FlagInit, DealsInit
<1>2. FlagInv /\ DealsInv /\ [Next]_vars => (FlagInv /\ DealsInv)'
  BY FlagKeep, DealsKeep
<1>3. FlagInv /\ [Next]_vars => [Touch]_flag
  BY ClearedIsTouched
<1>4. DealsInv => Abuse!PeakIsBusiestHour
  BY DealsArePeaked
<1>5. Spec => []Abuse!PeakIsBusiestHour /\ [][Touch]_flag
  BY <1>1, <1>2, <1>3, <1>4, PTL DEF Spec
<1> QED BY <1>5 DEF FlagsAreFair, Abuse!FlagsAreFair, Abuse!ClearedIsLeft, Touch
=============================================================================
