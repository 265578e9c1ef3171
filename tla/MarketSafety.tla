---------------------------- MODULE MarketSafety ----------------------------
(***************************************************************************)
(* What holds of a market's life, proved for every cost curve, every set   *)
(* of users and staff, every rate and every bound: its types, the pot      *)
(* identity, rounds that stay short until they are filled, markets that    *)
(* are settled once and checks that outlive the reads they were made on.   *)
(***************************************************************************)
EXTENDS Market, FiniteSetTheorems, TLAPS

(***************************************************************************)
(* The arithmetic the actions are built from.                              *)
(***************************************************************************)

\* A trade that leaves an outcome's shares within bounds leaves the vector
\* within bounds.
LEMMA MoveStaysInside ==
    ASSUME NEW f \in ShareVectors, NEW o \in Outcomes, NEW s \in Int,
           f[o] + s \in 0 .. MaxShares
    PROVE  Move(f, o, s) \in ShareVectors
BY DEF Move, ShareVectors

\* The cost of a share vector is a whole amount.
LEMMA CostIsNat ==
    ASSUME NEW f \in ShareVectors
    PROVE  Cost(f) \in Nat
BY CostAssumption

\* The empty book is a share vector.
LEMMA EmptyInside == Empty \in ShareVectors
BY RatesAssumption DEF Empty, ShareVectors

\* One account's balance moves by a whole amount.
LEMMA AddIsInt ==
    ASSUME NEW S, NEW f \in [S -> Int], NEW u \in S, NEW n \in Int
    PROVE  Add(f, u, n) \in [S -> Int]
BY DEF Add

\* A hold moves a whole amount from a balance into escrow.
LEMMA HoldIsInt ==
    ASSUME MoneyType, NEW u \in Accounts, NEW n \in Int, Hold(u, n)
    PROVE  avail' \in [Accounts -> Int] /\ esc' \in [Accounts -> Int]
<1>1. -n \in Int
  OBVIOUS
<1> QED BY <1>1, AddIsInt DEF Hold, MoneyType

\* Fees are whole amounts, and nothing on an empty pot.
LEMMA FeesAreInt ==
    ASSUME NEW n \in Int
    PROVE  ExitFee(n) \in Int
BY RatesAssumption DEF ExitFee

\* The first state is well typed.
LEMMA InitType == Init => TypeOK
<1> SUFFICES ASSUME Init PROVE TypeOK
  OBVIOUS
<1>1. LifeType
  BY DEF Init, LifeType, States
<1>2. BookType
  BY EmptyInside DEF Init, BookType, ShareVectors, Empty
<1>3. MoneyType
  BY AmountsAssumption DEF Init, MoneyType
<1>4. RoundType
  BY DEF Init, RoundType
<1>5. FlowType
  BY DEF Init, FlowType
<1>6. JobType
  BY DEF Init, JobType
<1> QED BY <1>1, <1>2, <1>3, <1>4, <1>5, <1>6 DEF TypeOK

(***************************************************************************)
(* Types, one lemma per service.                                           *)
(***************************************************************************)

\* Recording a trade keeps the trades well typed.
LEMMA RecordType ==
    ASSUME BookType, NEW u \in Accounts, NEW side \in {"buy", "sell"}, NEW o \in Outcomes,
           Record(u, side, o)
    PROVE  trades' \in SUBSET (Accounts \X {"seed", "buy", "sell"} \X Outcomes)
BY DEF BookType, Record

\* persist and updatePosition keep the book well typed.
LEMMA PersistType ==
    ASSUME BookType, NEW u \in Accounts, NEW o \in Outcomes, NEW s \in Int, NEW m \in Int,
           q[o] + s \in 0 .. MaxShares, Persist(u, o, s, m)
    PROVE  /\ q' \in ShareVectors
           /\ staked' \in [Outcomes -> Int] /\ pot' \in Int
           /\ pos' \in [Accounts -> [Outcomes -> Int]]
<1>1. q' \in ShareVectors
  BY MoveStaysInside DEF Persist, BookType
<1>2. staked' \in [Outcomes -> Int]
  BY AddIsInt DEF Persist, BookType
<1>3. pot' \in Int /\ pos' \in [Accounts -> [Outcomes -> Int]]
  BY DEF Persist, BookType
<1> QED BY <1>1, <1>2, <1>3

\* A purchase costs a whole amount, and so does a sale.
LEMMA PricesAreInt ==
    ASSUME BookType, NEW o \in Outcomes, NEW s \in Int, q[o] + s \in 0 .. MaxShares
    PROVE  Cost(Move(q, o, s)) - Cost(q) \in Int
<1>1. Move(q, o, s) \in ShareVectors /\ q \in ShareVectors
  BY MoveStaysInside DEF BookType
<1>2. Cost(Move(q, o, s)) \in Nat /\ Cost(q) \in Nat
  BY <1>1, CostIsNat
<1> QED BY <1>2

LEMMA BuyType ==
    ASSUME TypeOK, NEW u \in People, NEW o \in Outcomes, NEW s \in 1 .. MaxShares,
           Buy(u, o, s)
    PROVE  TypeOK'
<1> DEFINE cost == BuyCost(q, o, s)
<1>0. u \in Accounts /\ BookType /\ MoneyType
  BY DEF TypeOK, Accounts
<1>1. s \in Int /\ q[o] + s \in 0 .. MaxShares
  BY RatesAssumption DEF Buy, TypeOK, BookType, ShareVectors
<1>2. cost \in Int
  BY <1>0, <1>1, PricesAreInt DEF BuyCost
<1>3. BookType'
  BY <1>0, <1>1, <1>2, PersistType, RecordType DEF Buy, BookType
<1>4. MoneyType'
  BY <1>0, <1>2, HoldIsInt DEF Buy, MoneyType
<1> QED BY <1>3, <1>4
        DEF Buy, TypeOK, LifeType, RoundType, FlowType, JobType, lifeVars, roundVars, flowVars,
            jobVars

LEMMA SellType ==
    ASSUME TypeOK, NEW u \in Exiters, NEW o \in Outcomes, NEW s \in 1 .. MaxShares,
           Sell(u, o, s)
    PROVE  TypeOK'
<1> DEFINE refund == SellRefund(q, o, s)
<1>0. u \in Accounts /\ BookType /\ MoneyType
  BY PeopleAssumption DEF TypeOK, Accounts
<1>1. s \in Int /\ -s \in Int /\ q[o] + (-s) \in 0 .. MaxShares
  BY <1>0, RatesAssumption DEF Sell, MaySell, BookType, ShareVectors
<1>2. Cost(Move(q, o, -s)) \in Nat /\ Cost(q) \in Nat
  BY <1>0, <1>1, MoveStaysInside, CostIsNat DEF BookType
<1>3. refund \in Int /\ -refund \in Int /\ ExitFee(refund) \in Int
  BY <1>2, FeesAreInt DEF SellRefund
<1>4. BookType'
  BY <1>0, <1>1, <1>3, PersistType, RecordType DEF Sell, BookType
<1>5. esc' \in [Accounts -> Int]
  BY <1>0, <1>3, AddIsInt DEF Sell, SellLegs, MoneyType
<1>6. avail' \in [Accounts -> Int]
  <2>1. refund - ExitFee(refund) \in Int
    BY <1>3
  <2> QED BY <1>0, <2>1, AddIsInt DEF Sell, SellLegs, MoneyType
<1>7. MoneyType'
  BY <1>0, <1>3, <1>5, <1>6 DEF Sell, SellLegs, MoneyType
<1> QED BY <1>4, <1>7
        DEF Sell, TypeOK, LifeType, RoundType, FlowType, JobType, lifeVars, roundVars, flowVars,
            jobVars

\* A refund of everything leaves the market well typed.
LEMMA VoidType ==
    ASSUME TypeOK, VoidAndRefund, UNCHANGED jobVars
    PROVE  TypeOK'
<1>1. \A u \in Accounts : Refund(u) \in Int
  BY DEF TypeOK, MoneyType, Refund, AtLeastZero
<1>2. MoneyType'
  BY <1>1 DEF VoidAndRefund, TypeOK, MoneyType
<1>3. BookType'
  BY EmptyInside, RatesAssumption
     DEF VoidAndRefund, TypeOK, BookType, ShareVectors, Empty
<1>4. LifeType'
  BY DEF VoidAndRefund, Settle, TypeOK, LifeType, States
<1>5. RoundType' /\ FlowType' /\ JobType'
  BY DEF VoidAndRefund, TypeOK, RoundType, FlowType, JobType, flowVars, jobVars
<1> QED BY <1>2, <1>3, <1>4, <1>5 DEF TypeOK

\* What the platform is owed of a resolution is a whole amount.
LEMMA PlatformPartIsInt ==
    ASSUME TypeOK, NEW w \in Outcomes
    PROVE  PlatformPart(w) \in Int
<1>1. pot \in Int /\ staked[w] \in Int
  BY DEF TypeOK, BookType
<1>2. Losing(w) \in Int
  BY <1>1 DEF Losing, LosingPool, Smaller, AtLeastZero
<1>3. CreatorShare \in Int
  BY RatesAssumption DEF CreatorShare, CreatorCut, Smaller
<1> QED BY <1>2, <1>3, RatesAssumption DEF PlatformPart, PlatformFee

\* What a payout leaves in escrow is a whole amount.
LEMMA EscrowAfterIsInt ==
    ASSUME TypeOK, NEW u \in Accounts
    PROVE  EscrowAfter(u) \in Int
<1>1. esc[u] \in Int /\ BondAmount \in Int
  BY AmountsAssumption DEF TypeOK, MoneyType
<1>2. BondLeg(u) \in Int
  BY <1>1 DEF BondLeg
<1>3. Released(u) \in Int
  BY <1>1, <1>2 DEF Released, AtLeastZero
<1> QED BY <1>1, <1>2, <1>3 DEF EscrowAfter

\* The payout leaves everything but the staff member's job well typed.
LEMMA ResolveType ==
    ASSUME TypeOK, NEW w \in Outcomes, Resolve(w)
    PROVE  (LifeType /\ BookType /\ MoneyType /\ RoundType /\ FlowType)'
<1>1. avail' \in [Accounts -> Int]
  <2>1. PICK t \in Accounts :
           /\ Postable(w, t)
           /\ avail' = [u \in Accounts |-> avail[u] + Paid(u, w, t)]
    BY DEF Resolve
  <2>2. \A u \in Accounts : Paid(u, w, t) \in Int
    BY <2>1 DEF Postable
  <2> QED BY <2>1, <2>2 DEF TypeOK, MoneyType
<1>2. esc' \in [Accounts -> Int]
  BY EscrowAfterIsInt DEF Resolve
<1>3. MoneyType'
  BY <1>1, <1>2, PlatformPartIsInt DEF Resolve, TypeOK, MoneyType
<1>4. LifeType'
  BY DEF Resolve, Settle, TypeOK, LifeType, States
<1>5. BookType' /\ RoundType' /\ FlowType'
  BY DEF Resolve, TypeOK, BookType, RoundType, FlowType, roundVars
<1> QED BY <1>3, <1>4, <1>5

LEMMA ForfeitType ==
    ASSUME TypeOK, NEW a \in Approvers, ForfeitRead(a) \/ ForfeitCommit(a)
    PROVE  TypeOK'
<1>1. CASE ForfeitRead(a)
  BY <1>1 DEF ForfeitRead, TypeOK, LifeType, BookType, MoneyType, RoundType, FlowType, JobType,
              lifeVars, bookVars, moneyVars, roundVars, flowVars
<1>2. CASE ForfeitCommit(a)
  <2>1. Creator \in Accounts /\ BondAmount \in Int /\ -BondAmount \in Int
    BY AmountsAssumption DEF Accounts, People
  <2>2. MoneyType'
    BY <1>2, <2>1, AddIsInt DEF ForfeitCommit, ForfeitLegs, TypeOK, MoneyType
  <2> QED BY <1>2, <2>2
          DEF ForfeitCommit, TypeOK, LifeType, BookType, RoundType, FlowType, JobType,
              lifeVars, bookVars, roundVars, flowVars
<1> QED BY <1>1, <1>2

\* A seed the engine accepts leaves the book well typed.
LEMMA ApplySeedType ==
    ASSUME BookType, NEW k, NEW given \in [Accounts -> Int], ApplySeed(k, given)
    PROVE  BookType' /\ k \in Nat
<1>1. k \in Nat /\ Shift(q, k) \in ShareVectors
  BY RatesAssumption DEF ApplySeed, SeedAccepted
<1>2. Cardinality(Outcomes) \in Nat /\ Cardinality(Outcomes) > 0
  BY OutcomesAssumption, FS_CardinalityType, FS_EmptySet
<1>3. \A o \in Outcomes : SeedStake(k, o) \in Int
  BY <1>1, <1>2, RatesAssumption DEF SeedStake
<1>4. staked' \in [Outcomes -> Int] /\ pot' \in Int
  BY <1>1, <1>3, RatesAssumption DEF ApplySeed, BookType
<1>5. pos' \in [Accounts -> [Outcomes -> Int]]
  BY DEF ApplySeed, BookType, Shift
<1>6. trades' \in SUBSET (Accounts \X {"seed", "buy", "sell"} \X Outcomes)
  BY DEF ApplySeed, BookType
<1> QED BY <1>1, <1>4, <1>5, <1>6 DEF ApplySeed, BookType

\* Shares given to one account, or to the sponsors, are whole.
LEMMA GivenIsInt ==
    /\ \A u \in Accounts, k \in Int : Only(u, k) \in [Accounts -> Int]
    /\ \A c \in [People -> Int] :
          [u \in Accounts |-> IF u \in People THEN c[u] ELSE 0] \in [Accounts -> Int]
BY DEF Only

LEMMA SeedType ==
    ASSUME TypeOK, NEW k \in Nat, SeedSolo(k) \/ SeedOfficial(k)
    PROVE  TypeOK'
<1>0. Creator \in Accounts /\ House \in Accounts /\ k * SetPrice \in Int
  BY RatesAssumption DEF Accounts, People
<1>1. CASE SeedSolo(k)
  <2>1. BookType'
    BY <1>0, <1>1, ApplySeedType, GivenIsInt DEF SeedSolo, TypeOK
  <2>2. MoneyType'
    BY <1>0, <1>1, HoldIsInt DEF SeedSolo, TypeOK, MoneyType
  <2> QED BY <1>1, <2>1, <2>2
          DEF SeedSolo, Activate, TypeOK, LifeType, RoundType, FlowType, JobType, States,
              roundVars, flowVars, jobVars
<1>2. CASE SeedOfficial(k)
  <2>1. BookType'
    BY <1>0, <1>2, ApplySeedType, GivenIsInt DEF SeedOfficial, TypeOK
  <2>2. esc' \in [Accounts -> Int]
    BY <1>0, <1>2, AddIsInt DEF SeedOfficial, TypeOK, MoneyType
  <2>3. MoneyType'
    <3>1. issued' \in Int
      <4>1. issued \in Int /\ issued' = issued + k * SetPrice
        BY <1>2 DEF SeedOfficial, TypeOK, MoneyType
      <4> QED BY <4>1, <1>0
    <3> QED BY <1>2, <2>2, <3>1 DEF SeedOfficial, TypeOK, MoneyType
  <2> QED BY <1>2, <2>1, <2>3
          DEF SeedOfficial, TypeOK, LifeType, RoundType, FlowType, JobType, States,
              roundVars, flowVars, jobVars
<1> QED BY <1>1, <1>2

LEMMA RoundOpeningType ==
    ASSUME TypeOK, OpenSeedingRound \/ RoundEnds
    PROVE  TypeOK'
<1>1. CASE OpenSeedingRound
  <2>1. LifeType' /\ RoundType'
    BY <1>1 DEF OpenSeedingRound, TypeOK, LifeType, RoundType, States
  <2>2. BookType' /\ MoneyType'
    BY <1>1 DEF OpenSeedingRound, TypeOK, BookType, MoneyType, bookVars, moneyVars
  <2>3. FlowType' /\ JobType'
    BY <1>1 DEF OpenSeedingRound, TypeOK, FlowType, JobType, flowVars, jobVars
  <2> QED BY <2>1, <2>2, <2>3 DEF TypeOK
<1>2. CASE RoundEnds
  BY <1>2 DEF RoundEnds, TypeOK, LifeType, BookType, MoneyType, RoundType, FlowType, JobType,
              lifeVars, bookVars, moneyVars, flowVars, jobVars
<1> QED BY <1>1, <1>2

\* Filling a round leaves the book and the market's life well typed.
LEMMA FillType ==
    ASSUME TypeOK, NEW c \in [People -> Nat], Fill(c)
    PROVE  BookType' /\ syn' = "filled" /\ state' = "active" /\ path' = "seeded" /\ window' = TRUE
<1>1. [u \in Accounts |-> IF u \in People THEN c[u] ELSE 0] \in [Accounts -> Int]
  BY GivenIsInt
<1> QED BY <1>1, ApplySeedType DEF Fill, Activate, TypeOK

LEMMA ContributeType ==
    ASSUME TypeOK, NEW u \in People, NEW k \in Nat, Contribute(u, k)
    PROVE  TypeOK'
<1>0. u \in Accounts /\ k * SetPrice \in Int
  BY RatesAssumption DEF Accounts
<1>1. contrib' \in [People -> Nat]
  BY DEF Contribute, Add, TypeOK, RoundType
<1>2. MoneyType'
  BY <1>0, HoldIsInt DEF Contribute, TypeOK, MoneyType
<1>3. BookType' /\ LifeType' /\ RoundType'
  <2>1. CASE RoundReached(Total(contrib'))
    <3>1. Fill(contrib')
      BY <2>1 DEF Contribute
    <3> QED BY <1>1, <3>1, FillType
            DEF Contribute, TypeOK, LifeType, RoundType, States
  <2>2. CASE ~RoundReached(Total(contrib'))
    BY <1>1, <2>2 DEF Contribute, TypeOK, BookType, LifeType, RoundType, bookVars
  <2> QED BY <2>1, <2>2
<1> QED BY <1>2, <1>3 DEF Contribute, TypeOK, FlowType, JobType, flowVars, jobVars

LEMMA CloseRoundType ==
    ASSUME TypeOK, CloseSeedingRound
    PROVE  TypeOK'
<1>1. CASE RoundReached(Contributions)
  <2>1. Fill(contrib)
    BY <1>1 DEF CloseSeedingRound
  <2>2. contrib \in [People -> Nat]
    BY DEF TypeOK, RoundType
  <2>3. BookType' /\ syn' = "filled" /\ state' = "active" /\ path' = "seeded" /\ window' = TRUE
    BY <2>1, <2>2, FillType
  <2>4. UNCHANGED <<shelf, started, moneyVars, bond, contrib, roundOver, flowVars, settled>>
    BY <1>1 DEF CloseSeedingRound
  <2>5. UNCHANGED jobVars
    BY DEF CloseSeedingRound
  <2>6. LifeType'
    BY <2>3, <2>4 DEF TypeOK, LifeType, States
  <2>7. MoneyType' /\ FlowType'
    BY <2>4 DEF TypeOK, MoneyType, FlowType, moneyVars, flowVars
  <2>8. RoundType'
    BY <2>3, <2>4 DEF TypeOK, RoundType
  <2>9. JobType'
    BY <2>5 DEF TypeOK, JobType, jobVars
  <2> QED BY <2>3, <2>6, <2>7, <2>8, <2>9 DEF TypeOK
<1>2. CASE ~RoundReached(Contributions)
  BY <1>2, VoidType DEF CloseSeedingRound
<1> QED BY <1>1, <1>2

LEMMA OpeningType ==
    ASSUME TypeOK, Opening
    PROVE  TypeOK'
<1>1. CASE CreateOfficial
  BY <1>1 DEF CreateOfficial, TypeOK, LifeType, BookType, MoneyType, RoundType, FlowType,
              JobType, States, bookVars, moneyVars, roundVars, flowVars, jobVars
<1>2. ASSUME NEW how \in Openings \ {"official"}, CreateCommunity(how)
      PROVE  TypeOK'
  <2>1. how \in {"organic", "seeded"}
    BY OpeningsAssumption
  <2>2. MoneyType'
    <3>1. Creator \in Accounts /\ BondAmount \in Int
      BY AmountsAssumption DEF Accounts, People
    <3>2. CASE BondAmount > 0
      BY <1>2, <3>1, <3>2, HoldIsInt DEF CreateCommunity, TypeOK, MoneyType
    <3>3. CASE ~(BondAmount > 0)
      BY <1>2, <3>3 DEF CreateCommunity, TypeOK, MoneyType
    <3> QED BY <3>2, <3>3
  <2>3. LifeType'
    BY <1>2, <2>1 DEF CreateCommunity, TypeOK, LifeType, States
  <2> QED BY <1>2, <2>2, <2>3
          DEF CreateCommunity, TypeOK, BookType, RoundType, FlowType, JobType, bookVars,
              roundVars, flowVars, jobVars
<1> QED BY <1>1, <1>2 DEF Opening

LEMMA WindowType ==
    ASSUME TypeOK, CloseFundingWindow \/ CloseParticipationWindow
    PROVE  TypeOK'
<1>1. CASE VoidAndRefund /\ UNCHANGED jobVars
  BY <1>1, VoidType
<1>2. CASE CloseFundingWindow /\ DecideActivation
  <2>1. LifeType' /\ BookType'
    BY <1>2 DEF CloseFundingWindow, TypeOK, LifeType, BookType, States, bookVars
  <2>2. MoneyType' /\ RoundType'
    BY <1>2 DEF CloseFundingWindow, TypeOK, MoneyType, RoundType, moneyVars, roundVars
  <2>3. FlowType' /\ JobType'
    BY <1>2 DEF CloseFundingWindow, TypeOK, FlowType, JobType, flowVars, jobVars
  <2> QED BY <2>1, <2>2, <2>3 DEF TypeOK
<1>3. CASE CloseParticipationWindow /\ FloorMet
  <2>1. LifeType' /\ BookType'
    BY <1>3 DEF CloseParticipationWindow, TypeOK, LifeType, BookType, bookVars
  <2>2. MoneyType' /\ RoundType'
    BY <1>3 DEF CloseParticipationWindow, TypeOK, MoneyType, RoundType, moneyVars, roundVars
  <2>3. FlowType' /\ JobType'
    BY <1>3 DEF CloseParticipationWindow, TypeOK, FlowType, JobType, flowVars, jobVars
  <2> QED BY <2>1, <2>2, <2>3 DEF TypeOK
<1> QED BY <1>1, <1>2, <1>3 DEF CloseFundingWindow, CloseParticipationWindow

\* Proposing, disputing and the clocks of the review touch neither the book
\* nor the money.
LEMMA ReviewType ==
    ASSUME TypeOK,
           \/ EventStarts
           \/ DisputeWindowEnds
           \/ \E p \in Staff \cup {Creator} : Propose(p)
           \/ \E u \in Disputants : FileDispute(u)
    PROVE  TypeOK'
<1>1. CASE EventStarts
  BY <1>1 DEF EventStarts, TypeOK, LifeType, BookType, MoneyType, RoundType, FlowType, JobType,
              bookVars, moneyVars, roundVars, flowVars, jobVars
<1>2. CASE DisputeWindowEnds
  BY <1>2 DEF DisputeWindowEnds, TypeOK, LifeType, BookType, MoneyType, RoundType, FlowType,
              JobType, lifeVars, bookVars, moneyVars, roundVars, jobVars
<1>3. ASSUME NEW p \in Staff \cup {Creator}, Propose(p)
      PROVE  TypeOK'
  <2>1. LifeType' /\ FlowType'
    BY <1>3 DEF Propose, TypeOK, LifeType, FlowType, States
  <2> QED BY <1>3, <2>1
          DEF Propose, TypeOK, BookType, MoneyType, RoundType, JobType, bookVars, moneyVars,
              roundVars, jobVars
<1>4. ASSUME NEW u \in Disputants, FileDispute(u)
      PROVE  TypeOK'
  <2>1. FlowType'
    BY <1>4 DEF FileDispute, TypeOK, FlowType
  <2> QED BY <1>4, <2>1
          DEF FileDispute, TypeOK, LifeType, BookType, MoneyType, RoundType, JobType, lifeVars,
              bookVars, moneyVars, roundVars, jobVars
<1> QED BY <1>1, <1>2, <1>3, <1>4

\* What a job has read, and what it writes, is well typed.
LEMMA JobsType ==
    ASSUME TypeOK,
           \/ SweepRead
           \/ SweepWrite
           \/ \E s \in Staff, u \in Disputants : DecideRead(s, u)
           \/ \E s \in Staff, v \in {"upheld", "rejected"} : DecideWrite(s, v)
    PROVE  TypeOK'
<1>1. CASE SweepRead
  BY <1>1 DEF SweepRead, TypeOK, LifeType, BookType, MoneyType, RoundType, FlowType, JobType,
              lifeVars, bookVars, moneyVars, roundVars, flowVars
<1>2. CASE SweepWrite
  <2>1. LifeType' /\ JobType'
    BY <1>2 DEF SweepWrite, TypeOK, LifeType, JobType, States
  <2> QED BY <1>2, <2>1
          DEF SweepWrite, TypeOK, BookType, MoneyType, RoundType, FlowType, bookVars, moneyVars,
              roundVars, flowVars
<1>3. ASSUME NEW s \in Staff, NEW u \in Disputants, DecideRead(s, u)
      PROVE  TypeOK'
  <2>1. JobType'
    BY <1>3 DEF DecideRead, TypeOK, JobType
  <2> QED BY <1>3, <2>1
          DEF DecideRead, TypeOK, LifeType, BookType, MoneyType, RoundType, FlowType, lifeVars,
              bookVars, moneyVars, roundVars, flowVars
<1>4. ASSUME NEW s \in Staff, NEW v \in {"upheld", "rejected"}, DecideWrite(s, v)
      PROVE  TypeOK'
  <2>1. FlowType' /\ JobType'
    BY <1>4 DEF DecideWrite, TypeOK, FlowType, JobType
  <2> QED BY <1>4, <2>1
          DEF DecideWrite, TypeOK, LifeType, BookType, MoneyType, RoundType, lifeVars, bookVars,
              moneyVars, roundVars
<1> QED BY <1>1, <1>2, <1>3, <1>4

\* A finalisation carries an outcome from its checks to its payout.
LEMMA FinalizeType ==
    ASSUME TypeOK, NEW s \in Staff,
           \/ \E w \in Outcomes : FinalizeCheck(s, w)
           \/ FinalizePay(s)
           \/ FinalizeFail(s)
           \/ FinalizeTidy(s)
    PROVE  TypeOK'
<1>1. ASSUME NEW w \in Outcomes, FinalizeCheck(s, w)
      PROVE  TypeOK'
  <2>1. JobType'
    BY <1>1 DEF FinalizeCheck, TypeOK, JobType
  <2> QED BY <1>1, <2>1
          DEF FinalizeCheck, TypeOK, LifeType, BookType, MoneyType, RoundType, FlowType,
              lifeVars, bookVars, moneyVars, roundVars, flowVars
<1>2. CASE FinalizePay(s)
  <2>1. JobType'
    BY <1>2 DEF FinalizePay, TypeOK, JobType
  <2> QED BY <1>2, <2>1, ResolveType DEF FinalizePay, TypeOK
<1>3. CASE FinalizeFail(s)
  <2>1. JobType'
    BY <1>3 DEF FinalizeFail, TypeOK, JobType
  <2> QED BY <1>3, <2>1
          DEF FinalizeFail, TypeOK, LifeType, BookType, MoneyType, RoundType, FlowType,
              lifeVars, bookVars, moneyVars, roundVars, flowVars
<1>4. CASE FinalizeTidy(s)
  <2>1. JobType' /\ FlowType'
    BY <1>4 DEF FinalizeTidy, TypeOK, JobType, FlowType
  <2> QED BY <1>4, <2>1
          DEF FinalizeTidy, TypeOK, LifeType, BookType, MoneyType, RoundType, lifeVars,
              bookVars, moneyVars, roundVars
<1> QED BY <1>1, <1>2, <1>3, <1>4

\* A step that changes nothing keeps the types.
LEMMA StutterType == TypeOK /\ UNCHANGED vars => TypeOK'
BY DEF TypeOK, LifeType, BookType, MoneyType, RoundType, FlowType, JobType, vars, lifeVars,
       bookVars, moneyVars, roundVars, flowVars, jobVars

\* Every step of every service keeps the types.
LEMMA NextType ==
    ASSUME TypeOK, Next
    PROVE  TypeOK'
<1>1. CASE Opening
  BY <1>1, OpeningType
<1>2. CASE SeedingStep
  <2>1. MinSeed .. MaxSeed \subseteq Nat /\ 1 .. MaxSeed \subseteq Nat
    BY AmountsAssumption
  <2> QED BY <1>2, <2>1, SeedType, RoundOpeningType, ContributeType DEF SeedingStep
<1>3. CASE TradingStep
  BY <1>3, BuyType, SellType DEF TradingStep
<1>4. CASE Deadlines
  BY <1>4, RoundOpeningType, CloseRoundType, WindowType, ReviewType, JobsType DEF Deadlines
<1>5. CASE ResolutionStep
  BY <1>5, ReviewType, JobsType, FinalizeType DEF ResolutionStep
<1>6. CASE ApprovalStep
  <2>1. CASE VoidAfterActivation
    BY <2>1, VoidType DEF VoidAfterActivation
  <2> QED BY <1>6, <2>1, ForfeitType DEF ApprovalStep
<1> QED BY <1>1, <1>2, <1>3, <1>4, <1>5, <1>6 DEF Next

\* Type correctness: whatever the services do to one another, every row keeps
\* to its columns, and no balance, stake or pot stops being a whole amount.
THEOREM TypeCorrect == Spec => []TypeOK
<1>1. Init => TypeOK
  BY InitType
<1>2. TypeOK /\ [Next]_vars => TypeOK'
  BY NextType, StutterType
<1> QED BY <1>1, <1>2, PTL DEF Spec

-----------------------------------------------------------------------------

(***************************************************************************)
(* PotIdentity.                                                            *)
(***************************************************************************)

\* A step that leaves the book alone, or settles the market, keeps it.
LEMMA PotQuiet ==
    ASSUME PotIdentity,
           UNCHANGED <<q, pot, settled>> \/ settled' # "none"
    PROVE  PotIdentity'
BY DEF PotIdentity

\* A settlement is remembered.
LEMMA SettleMarks ==
    ASSUME NEW how \in {"paid", "refunded"}, Settle(how)
    PROVE  settled' # "none"
BY DEF Settle

\* A purchase moves the pot by exactly the cost of the shares.
LEMMA BuyKeepsIdentity ==
    ASSUME TypeOK, PotIdentity, NEW u \in People, NEW o \in Outcomes, NEW s \in 1 .. MaxShares,
           Buy(u, o, s)
    PROVE  PotIdentity'
<1>1. q \in ShareVectors /\ pot \in Int
  BY DEF TypeOK, BookType
<1>2. q[o] + s \in 0 .. MaxShares
  BY <1>1, RatesAssumption DEF Buy, ShareVectors
<1>3. Move(q, o, s) \in ShareVectors
  BY <1>1, <1>2, MoveStaysInside
<1>4. Cost(q) \in Nat /\ Cost(Move(q, o, s)) \in Nat /\ Cost(Empty) \in Nat
  BY <1>1, <1>3, EmptyInside, CostIsNat
<1>5. q' = Move(q, o, s) /\ pot' = pot + (Cost(Move(q, o, s)) - Cost(q)) /\ settled' = settled
  BY DEF Buy, Persist, BuyCost
<1> QED BY <1>1, <1>4, <1>5 DEF PotIdentity

\* An exit takes its full refund out of the pot, whatever fee is withheld.
LEMMA SellKeepsIdentity ==
    ASSUME TypeOK, PotIdentity, NEW u \in Exiters, NEW o \in Outcomes, NEW s \in 1 .. MaxShares,
           Sell(u, o, s)
    PROVE  PotIdentity'
<1>1. q \in ShareVectors /\ pot \in Int
  BY DEF TypeOK, BookType
<1>2. -s \in Int /\ q[o] + (-s) \in 0 .. MaxShares
  BY <1>1, RatesAssumption DEF Sell, MaySell, ShareVectors
<1>3. Move(q, o, -s) \in ShareVectors
  BY <1>1, <1>2, MoveStaysInside
<1>4. Cost(q) \in Nat /\ Cost(Move(q, o, -s)) \in Nat /\ Cost(Empty) \in Nat
  BY <1>1, <1>3, EmptyInside, CostIsNat
<1>5. /\ q' = Move(q, o, -s)
      /\ pot' = pot + (-(Cost(q) - Cost(Move(q, o, -s))))
      /\ settled' = settled
  BY DEF Sell, Persist, SellRefund
<1> QED BY <1>1, <1>4, <1>5 DEF PotIdentity

\* A seed of k sets costs k full sets, on any book.
LEMMA SeedKeepsIdentity ==
    ASSUME BookType, PotIdentity, NEW k, NEW given, ApplySeed(k, given), settled' = settled
    PROVE  PotIdentity'
<1>1. q \in ShareVectors /\ pot \in Int
  BY DEF BookType
<1>2. k \in 0 .. MaxShares /\ Shift(q, k) \in ShareVectors
  BY RatesAssumption DEF ApplySeed, SeedAccepted
<1>3. Cost(Shift(q, k)) = Cost(q) + k * SetPrice
  BY <1>1, <1>2, CostAssumption
<1>4. Cost(q) \in Nat /\ Cost(Empty) \in Nat /\ k * SetPrice \in Int
  BY <1>1, <1>2, EmptyInside, CostIsNat, RatesAssumption
<1>5. q' = Shift(q, k) /\ pot' = pot + k * SetPrice
  BY DEF ApplySeed
<1> QED BY <1>1, <1>3, <1>4, <1>5 DEF PotIdentity

\* The round's two ways of being filled are seeds.
LEMMA RoundKeepsIdentity ==
    ASSUME TypeOK, PotIdentity,
           (\E u \in People, k \in 1 .. MaxSeed : Contribute(u, k)) \/ CloseSeedingRound
    PROVE  PotIdentity'
<1>0. BookType
  BY DEF TypeOK
<1>1. ASSUME NEW u \in People, NEW k \in 1 .. MaxSeed, Contribute(u, k)
      PROVE  PotIdentity'
  <2>1. CASE RoundReached(Total(contrib'))
    BY <1>0, <1>1, <2>1, SeedKeepsIdentity DEF Contribute, Fill
  <2>2. CASE ~RoundReached(Total(contrib'))
    BY <1>1, <2>2, PotQuiet DEF Contribute, bookVars
  <2> QED BY <2>1, <2>2
<1>2. CASE CloseSeedingRound
  <2>1. CASE RoundReached(Contributions)
    BY <1>0, <1>2, <2>1, SeedKeepsIdentity DEF CloseSeedingRound, Fill
  <2>2. CASE ~RoundReached(Contributions)
    BY <1>2, <2>2, PotQuiet, SettleMarks DEF CloseSeedingRound, VoidAndRefund
  <2> QED BY <2>1, <2>2
<1> QED BY <1>1, <1>2

LEMMA PotStep ==
    ASSUME TypeOK, PotIdentity, Next
    PROVE  PotIdentity'
<1>1. CASE Opening
  BY <1>1, PotQuiet DEF Opening, CreateCommunity, CreateOfficial, bookVars
<1>2. CASE SeedingStep
  <2>0. BookType
    BY DEF TypeOK
  <2>1. ASSUME NEW k \in MinSeed .. MaxSeed, SeedSolo(k)
        PROVE  PotIdentity'
    BY <2>0, <2>1, SeedKeepsIdentity DEF SeedSolo
  <2>2. ASSUME NEW k \in 1 .. MaxSeed, SeedOfficial(k)
        PROVE  PotIdentity'
    BY <2>0, <2>2, SeedKeepsIdentity DEF SeedOfficial
  <2>3. CASE OpenSeedingRound
    BY <2>3, PotQuiet DEF OpenSeedingRound, bookVars
  <2> QED BY <1>2, <2>1, <2>2, <2>3, RoundKeepsIdentity DEF SeedingStep
<1>3. CASE TradingStep
  BY <1>3, BuyKeepsIdentity, SellKeepsIdentity DEF TradingStep
<1>4. CASE Deadlines
  <2>1. CASE RoundEnds \/ EventStarts \/ SweepRead \/ SweepWrite \/ DisputeWindowEnds
    BY <2>1, PotQuiet DEF RoundEnds, EventStarts, SweepRead, SweepWrite, DisputeWindowEnds,
                          bookVars
  <2>2. CASE CloseFundingWindow \/ CloseParticipationWindow
    BY <2>2, PotQuiet, SettleMarks
       DEF CloseFundingWindow, CloseParticipationWindow, VoidAndRefund, bookVars
  <2> QED BY <1>4, <2>1, <2>2, RoundKeepsIdentity DEF Deadlines
<1>5. CASE ResolutionStep
  <2>1. ASSUME NEW s \in Staff, FinalizePay(s)
        PROVE  PotIdentity'
    BY <2>1, PotQuiet, SettleMarks DEF FinalizePay, Resolve
  <2>2. ASSUME ~\E s \in Staff : FinalizePay(s)
        PROVE  PotIdentity'
    BY <1>5, <2>2, PotQuiet
       DEF ResolutionStep, Propose, FileDispute, DecideRead, DecideWrite, FinalizeCheck,
           FinalizeFail, FinalizeTidy, bookVars
  <2> QED BY <2>1, <2>2
<1>6. CASE ApprovalStep
  BY <1>6, PotQuiet, SettleMarks
     DEF ApprovalStep, VoidAfterActivation, VoidAndRefund, ForfeitRead, ForfeitCommit, bookVars
<1> QED BY <1>1, <1>2, <1>3, <1>4, <1>5, <1>6 DEF Next

\* The pot is always what the cost curve says of the shares outstanding,
\* whatever buys, exits and seeds happened, in any order, at any rate.
THEOREM PotIdentityHolds == Spec => []PotIdentity
<1>1. Init => PotIdentity
  <2>1. Cost(Empty) \in Nat
    BY EmptyInside, CostIsNat
  <2> QED BY <2>1 DEF Init, PotIdentity
<1>2. TypeOK /\ PotIdentity /\ [Next]_vars => PotIdentity'
  <2>1. UNCHANGED vars /\ PotIdentity => PotIdentity'
    BY PotQuiet DEF vars, bookVars
  <2> QED BY <2>1, PotStep
<1> QED BY <1>1, <1>2, TypeCorrect, PTL DEF Spec

(***************************************************************************)
(* RoundsAreShort.                                                         *)
(***************************************************************************)

\* A round nobody has contributed to is short of any minimum.
LEMMA EmptyRoundIsShort ==
    ASSUME TypeOK, \A u \in People : contrib[u] = 0
    PROVE  ~(Contributions >= MinTotal)
<1>1. DOMAIN contrib = People
  BY DEF TypeOK, RoundType
<1>2. Contributions = 0
  BY <1>1 DEF Contributions, Total
<1> QED BY <1>2, AmountsAssumption DEF MinTotal

\* A refund closes an open round, and opens none.
LEMMA VoidKeepsRounds ==
    ASSUME RoundsAreShort, VoidAndRefund
    PROVE  RoundsAreShort'
BY DEF VoidAndRefund, RoundsAreShort, OpenRoundIsShort

\* A step that leaves the round's row and its members alone keeps it.
LEMMA RoundsQuiet ==
    ASSUME RoundsAreShort, UNCHANGED <<syn, contrib>>
    PROVE  RoundsAreShort'
BY DEF RoundsAreShort, OpenRoundIsShort, Contributions

LEMMA RoundsStep ==
    ASSUME TypeOK, RoundsAreShort, Next
    PROVE  RoundsAreShort'
<1>1. CASE Opening
  BY <1>1, RoundsQuiet DEF Opening, CreateCommunity, CreateOfficial, roundVars
<1>2. ASSUME NEW u \in People, NEW k \in 1 .. MaxSeed, Contribute(u, k)
      PROVE  RoundsAreShort'
  <2>1. CASE RoundReached(Total(contrib'))
    BY <1>2, <2>1 DEF Contribute, Fill, RoundsAreShort, OpenRoundIsShort
  <2>2. CASE ~RoundReached(Total(contrib'))
    <3>1. syn' = "open" /\ Contributions' = Total(contrib')
      BY <1>2, <2>2 DEF Contribute, Contributions
    <3> QED BY <2>2, <3>1 DEF RoundsAreShort, OpenRoundIsShort, RoundReached, MinTotal
  <2> QED BY <2>1, <2>2
<1>3. CASE OpenSeedingRound
  <2>1. /\ \A u \in People : contrib[u] = 0
        /\ UNCHANGED contrib /\ syn' = "open"
    BY <1>3 DEF OpenSeedingRound, RoundsAreShort
  <2> QED BY <2>1, EmptyRoundIsShort DEF RoundsAreShort, OpenRoundIsShort, Contributions
<1>4. CASE CloseSeedingRound
  BY <1>4, VoidKeepsRounds
     DEF CloseSeedingRound, Fill, RoundDue, RoundsAreShort, OpenRoundIsShort
<1>5. CASE SeedingStep
  BY <1>2, <1>3, <1>5, RoundsQuiet DEF SeedingStep, SeedSolo, SeedOfficial, roundVars
<1>6. CASE TradingStep
  BY <1>6, RoundsQuiet DEF TradingStep, Buy, Sell, roundVars
<1>7. CASE Deadlines
  BY <1>4, <1>7, RoundsQuiet, VoidKeepsRounds
     DEF Deadlines, RoundEnds, EventStarts, SweepRead, SweepWrite, DisputeWindowEnds,
         CloseFundingWindow, CloseParticipationWindow, roundVars
<1>8. CASE ResolutionStep
  BY <1>8, RoundsQuiet
     DEF ResolutionStep, Propose, FileDispute, DecideRead, DecideWrite, FinalizeCheck,
         FinalizePay, Resolve, FinalizeFail, FinalizeTidy, roundVars
<1>9. CASE ApprovalStep
  BY <1>9, RoundsQuiet, VoidKeepsRounds
     DEF ApprovalStep, VoidAfterActivation, ForfeitRead, ForfeitCommit, roundVars
<1> QED BY <1>1, <1>5, <1>6, <1>7, <1>8, <1>9 DEF Next

\* A seeding round never waits at or above its minimum: the contribution that
\* reaches it fills it, however many sponsors there are and in what order
\* they pay in.
THEOREM RoundsStayShort == Spec => []OpenRoundIsShort
<1>1. Init => RoundsAreShort
  BY DEF Init, RoundsAreShort, OpenRoundIsShort
<1>2. TypeOK /\ RoundsAreShort /\ [Next]_vars => RoundsAreShort'
  <2>1. UNCHANGED vars /\ RoundsAreShort => RoundsAreShort'
    BY RoundsQuiet DEF vars, roundVars
  <2> QED BY <2>1, RoundsStep
<1>3. RoundsAreShort => OpenRoundIsShort
  BY DEF RoundsAreShort
<1> QED BY <1>1, <1>2, <1>3, TypeCorrect, PTL DEF Spec

(***************************************************************************)
(* SettledIsClosed.                                                        *)
(***************************************************************************)

\* A settled market has nothing to post: its pot is gone, so there is no
\* losing pool, no fee and no payout, and no escrow is left to release.
LEMMA SettledNotPostable ==
    ASSUME TypeOK, SettledIsClosed, settled # "none", NEW w \in Outcomes, NEW t \in Accounts
    PROVE  ~Postable(w, t)
<1>1. /\ pot = 0 /\ bond # "held"
      /\ \A u \in Accounts : esc[u] <= 0
  BY DEF SettledIsClosed
<1>2. staked[w] \in Int
  BY DEF TypeOK, BookType
<1>3. Losing(w) = 0
  BY <1>1, <1>2 DEF Losing, LosingPool, Smaller, AtLeastZero
<1>4. CreatorShare \in Int
  BY RatesAssumption DEF CreatorShare, CreatorCut, Smaller
<1>5. PlatformPart(w) = 0
  <2>1. Losing(w) * (FeeBps - CreatorShare) = 0
    BY <1>3, <1>4, RatesAssumption
  <2> QED BY <2>1, RatesAssumption DEF PlatformPart, PlatformFee
<1>6. CreatorPart(w) = 0
  <2>1. CreatorCut \in Int
    BY RatesAssumption DEF CreatorCut, Smaller
  <2>2. Losing(w) * CreatorCut = 0
    BY <1>3, <2>1
  <2> QED BY <2>2, RatesAssumption DEF CreatorPart, CreatorFee
<1>7. \A u \in Accounts : Released(u) = 0 /\ BondLeg(u) = 0 /\ FeeLeg(u, w) = 0
  BY <1>1, <1>6 DEF Released, BondLeg, FeeLeg
<1>8. \A u \in Accounts : Payout(u, w) = 0
  <2> TAKE u \in Accounts
  <2>1. pos[u][w] \in Int /\ q[w] \in Int
    BY DEF TypeOK, BookType, ShareVectors
  <2>2. CASE q[w] <= 0
    BY <2>2 DEF Payout, ProRataPayout
  <2>3. CASE q[w] > 0
    <3>1. BpsBase * q[w] \in Nat \ {0}
      BY <2>1, <2>3, RatesAssumption
    <3>2. (pot * BpsBase - Losing(w) * FeeBps) * pos[u][w] = 0
      <4>1. pot * BpsBase - Losing(w) * FeeBps = 0
        BY <1>1, <1>3, RatesAssumption
      <4> QED BY <2>1, <4>1
    <3> QED BY <2>1, <2>3, <3>1, <3>2 DEF Payout, ProRataPayout
  <2> QED BY <2>1, <2>2, <2>3
<1> QED BY <1>5, <1>7, <1>8 DEF Postable

\* So it cannot be paid again, from whatever state it was swept into.
LEMMA PaidOnce ==
    ASSUME TypeOK, SettledIsClosed, NEW w \in Outcomes, Resolve(w)
    PROVE  settled = "none"
BY SettledNotPostable DEF Resolve

\* A payout leaves no escrow above zero, whoever's it was.
LEMMA PaidOut ==
    ASSUME TypeOK, NEW u \in Accounts
    PROVE  EscrowAfter(u) <= 0
<1>1. esc[u] \in Int /\ BondAmount \in Nat
  BY AmountsAssumption DEF TypeOK, MoneyType
<1>2. BondLeg(u) \in Nat /\ (esc[u] <= 0 => BondLeg(u) = 0)
  BY <1>1 DEF BondLeg
<1> QED BY <1>1, <1>2 DEF EscrowAfter, Released, AtLeastZero

\* The two settlements establish it.
LEMMA ResolveCloses ==
    ASSUME TypeOK, NEW w \in Outcomes, Resolve(w)
    PROVE  SettledIsClosed'
<1>1. \A u \in Accounts : esc'[u] <= 0
  BY PaidOut DEF Resolve
<1> QED BY <1>1 DEF Resolve, SettledIsClosed

LEMMA VoidCloses ==
    ASSUME TypeOK, VoidAndRefund
    PROVE  SettledIsClosed'
<1>1. \A u \in Accounts : esc'[u] <= 0
  BY DEF VoidAndRefund, Refund, AtLeastZero, TypeOK, MoneyType
<1> QED BY <1>1 DEF VoidAndRefund, SettledIsClosed

\* A refund of a settled market moves no money.
LEMMA VoidMovesNothing ==
    ASSUME TypeOK, SettledIsClosed, settled # "none", VoidAndRefund
    PROVE  UNCHANGED avail
<1>1. \A u \in Accounts : avail[u] \in Int /\ avail[u] + Refund(u) = avail[u]
  BY DEF SettledIsClosed, Refund, AtLeastZero, TypeOK, MoneyType
<1> QED BY <1>1 DEF VoidAndRefund, TypeOK, MoneyType

\* Whatever opens, seeds or trades finds the market unsettled.
LEMMA OpenIsUnsettled ==
    ASSUME SettledIsClosed, Opening \/ SeedingStep \/ TradingStep
    PROVE  settled = "none" /\ settled' = "none"
<1>1. CASE Opening
  BY <1>1 DEF Opening, CreateCommunity, CreateOfficial, SettledIsClosed
<1>2. CASE SeedingStep
  BY <1>2 DEF SeedingStep, SeedSolo, SeedOfficial, OpenSeedingRound, Contribute, Seedable,
              BeforeOpening, SettledIsClosed
<1>3. CASE TradingStep
  BY <1>3 DEF TradingStep, Buy, Sell, TradingOpen, SettledIsClosed
<1> QED BY <1>1, <1>2, <1>3

\* What a deadline, a vote or a reviewer may still do to a settled market.
LEMMA SettledStep ==
    ASSUME TypeOK, RoundsAreShort, SettledIsClosed, Next
    PROVE  SettledIsClosed' /\ (settled # "none" => UNCHANGED avail)
<1>1. CASE Opening \/ SeedingStep \/ TradingStep
  BY <1>1, OpenIsUnsettled DEF SettledIsClosed
<1>2. CASE Deadlines
  <2>1. CASE RoundEnds \/ EventStarts \/ SweepRead \/ SweepWrite \/ DisputeWindowEnds
    BY <2>1 DEF RoundEnds, EventStarts, SweepRead, SweepWrite, DisputeWindowEnds,
                SettledIsClosed, lifeVars, bookVars, moneyVars
  <2>2. CASE CloseSeedingRound
    <3>1. VoidAndRefund
      BY <2>2 DEF CloseSeedingRound, RoundDue, RoundReached, RoundsAreShort, OpenRoundIsShort
    <3> QED BY <3>1, VoidCloses, VoidMovesNothing
  <2>3. CASE CloseFundingWindow \/ CloseParticipationWindow
    <3>1. CASE VoidAndRefund
      BY <3>1, VoidCloses, VoidMovesNothing
    <3>2. CASE ~VoidAndRefund
      BY <2>3, <3>2
         DEF CloseFundingWindow, CloseParticipationWindow, FundingDue, SettledIsClosed,
             bookVars, moneyVars
    <3> QED BY <3>1, <3>2
  <2> QED BY <1>2, <2>1, <2>2, <2>3 DEF Deadlines
<1>3. CASE ResolutionStep
  <2>1. ASSUME NEW s \in Staff, FinalizePay(s)
        PROVE  SettledIsClosed' /\ (settled # "none" => UNCHANGED avail)
    <3>1. finalizing[s] \in Outcomes /\ Resolve(finalizing[s])
      BY <2>1 DEF FinalizePay
    <3> QED BY <3>1, PaidOnce, ResolveCloses
  <2>2. ASSUME NEW p \in Staff \cup {Creator}, Propose(p)
        PROVE  SettledIsClosed' /\ UNCHANGED avail
    BY <2>2 DEF Propose, SettledIsClosed, bookVars, moneyVars
  <2>3. CASE /\ ~\E s \in Staff : FinalizePay(s)
             /\ ~\E p \in Staff \cup {Creator} : Propose(p)
    BY <1>3, <2>3
       DEF ResolutionStep, FileDispute, DecideRead, DecideWrite, FinalizeCheck, FinalizeFail,
           FinalizeTidy, SettledIsClosed, lifeVars, bookVars, moneyVars
  <2> QED BY <2>1, <2>2, <2>3
<1>4. CASE ApprovalStep
  <2>1. CASE VoidAfterActivation
    BY <2>1, VoidCloses, VoidMovesNothing DEF VoidAfterActivation
  <2>2. ASSUME NEW a \in Approvers, ForfeitRead(a)
        PROVE  SettledIsClosed' /\ UNCHANGED avail
    BY <2>2 DEF ForfeitRead, SettledIsClosed, lifeVars, bookVars, moneyVars
  <2>3. ASSUME NEW a \in Approvers, ForfeitCommit(a)
        PROVE  SettledIsClosed' /\ UNCHANGED avail
    <3>1. \A u \in Accounts : esc[u] \in Int /\ esc'[u] <= esc[u]
      BY <2>3, AmountsAssumption DEF ForfeitCommit, ForfeitLegs, Add, TypeOK, MoneyType
    <3>2. \A u \in Accounts : esc'[u] \in Int
      BY <2>3, AmountsAssumption DEF ForfeitCommit, ForfeitLegs, Add, TypeOK, MoneyType
    <3> QED BY <2>3, <3>1, <3>2
            DEF ForfeitCommit, ForfeitLegs, SettledIsClosed, lifeVars, bookVars
  <2> QED BY <1>4, <2>1, <2>2, <2>3 DEF ApprovalStep
<1> QED BY <1>1, <1>2, <1>3, <1>4 DEF Next

\* Both facts, for every behaviour.
LEMMA ClosedHolds == Spec => [](RoundsAreShort /\ SettledIsClosed)
<1>1. Init => RoundsAreShort /\ SettledIsClosed
  BY DEF Init, RoundsAreShort, OpenRoundIsShort, SettledIsClosed
<1>2. /\ TypeOK /\ RoundsAreShort /\ SettledIsClosed
      /\ [Next]_vars
      => (RoundsAreShort /\ SettledIsClosed)'
  <2>1. UNCHANGED vars /\ RoundsAreShort => RoundsAreShort'
    BY RoundsQuiet DEF vars, roundVars
  <2>2. UNCHANGED vars /\ SettledIsClosed => SettledIsClosed'
    BY DEF SettledIsClosed, vars, lifeVars, bookVars, moneyVars
  <2> QED BY <2>1, <2>2, RoundsStep, SettledStep
<1> QED BY <1>1, <1>2, TypeCorrect, PTL DEF Spec

\* The money of a market is settled once. Late deadlines, a sweep that drags a
\* settled market back into review, a second proposal and a second
\* finalisation, a vote to void: none of them moves a balance.
THEOREM SettledOnce == Spec => NoSecondSettlement
<1>1. /\ TypeOK /\ RoundsAreShort /\ SettledIsClosed
      /\ [Next]_vars
      => [settled # "none" => UNCHANGED avail]_vars
  BY SettledStep
<1> QED BY <1>1, TypeCorrect, ClosedHolds, PTL DEF Spec, NoSecondSettlement

(***************************************************************************)
(* ChecksHold.                                                             *)
(***************************************************************************)

\* What was checked cannot be unchecked while the proposal, the clock, the
\* disputes and the finalisers' notes stay as they are.
LEMMA ChecksQuiet ==
    ASSUME ChecksHold,
           UNCHANGED <<finalizing, proposer, dispClock, disputes>>,
           settled # "none" => settled' # "none"
    PROVE  ChecksHold'
BY DEF ChecksHold, WindowServed

\* A settlement leaves nothing to be checked.
LEMMA ChecksSettled ==
    ASSUME settled' # "none"
    PROVE  ChecksHold'
BY DEF ChecksHold

\* A refund marks the market, so it leaves nothing to be checked either.
LEMMA ChecksVoided ==
    ASSUME VoidAndRefund
    PROVE  ChecksHold'
BY ChecksSettled, SettleMarks DEF VoidAndRefund

\* No staff member can finalise a market between a check and its payout
\* without settling it, and no proposal can replace the one that was checked.
LEMMA FinalizeStep ==
    ASSUME TypeOK, ChecksHold, NEW s \in Staff,
           \/ \E w \in Outcomes : FinalizeCheck(s, w)
           \/ FinalizePay(s)
           \/ FinalizeFail(s)
           \/ FinalizeTidy(s)
    PROVE  ChecksHold'
<1>0. finalizing \in [Staff -> Outcomes \cup {"tidy", Nobody}]
  BY DEF TypeOK, JobType
<1>1. ASSUME NEW w \in Outcomes, FinalizeCheck(s, w)
      PROVE  ChecksHold'
  <2>1. proposer \notin {s, Nobody} /\ WindowServed
    BY <1>1 DEF FinalizeCheck, SecondPair
  <2>2. /\ finalizing' = [finalizing EXCEPT ![s] = w]
        /\ UNCHANGED <<proposer, dispClock, disputes, settled>>
    BY <1>1 DEF FinalizeCheck, flowVars
  <2>3. WindowServed'
    BY <2>1, <2>2 DEF WindowServed
  <2> QED BY <1>0, <2>1, <2>2, <2>3, PeopleAssumption DEF ChecksHold
<1>2. CASE FinalizePay(s)
  BY <1>2, ChecksSettled, SettleMarks DEF FinalizePay, Resolve
<1>3. CASE FinalizeFail(s)
  <2>1. /\ finalizing' = [finalizing EXCEPT ![s] = Nobody]
        /\ UNCHANGED <<proposer, dispClock, disputes, settled>>
    BY <1>3 DEF FinalizeFail, flowVars
  <2> QED BY <1>0, <2>1, PeopleAssumption DEF ChecksHold, WindowServed
<1>4. CASE FinalizeTidy(s)
  <2>1. settled' # "none"
    BY <1>4 DEF FinalizeTidy, ChecksHold
  <2> QED BY <2>1, ChecksSettled
<1> QED BY <1>1, <1>2, <1>3, <1>4

LEMMA ChecksStep ==
    ASSUME TypeOK, ChecksHold, Next
    PROVE  ChecksHold'
<1>1. CASE Opening \/ SeedingStep \/ TradingStep
  <2>1. UNCHANGED <<flowVars, finalizing, settled>>
    <3>1. CASE Opening
      BY <3>1 DEF Opening, CreateCommunity, CreateOfficial, jobVars
    <3>2. CASE SeedingStep
      BY <3>2 DEF SeedingStep, SeedSolo, SeedOfficial, OpenSeedingRound, Contribute, jobVars
    <3>3. CASE TradingStep
      BY <3>3 DEF TradingStep, Buy, Sell, jobVars
    <3> QED BY <1>1, <3>1, <3>2, <3>3
  <2> QED BY <2>1, ChecksQuiet DEF flowVars
<1>2. CASE Deadlines
  <2>1. CASE RoundEnds \/ EventStarts \/ SweepRead \/ SweepWrite
    BY <2>1, ChecksQuiet
       DEF RoundEnds, EventStarts, SweepRead, SweepWrite, flowVars, jobVars
  <2>2. CASE CloseSeedingRound \/ CloseFundingWindow \/ CloseParticipationWindow
    <3>1. CASE VoidAndRefund
      BY <3>1, ChecksVoided
    <3>2. CASE ~VoidAndRefund
      BY <2>2, <3>2, ChecksQuiet
         DEF CloseSeedingRound, CloseFundingWindow, CloseParticipationWindow, flowVars, jobVars
    <3> QED BY <3>1, <3>2
  <2>3. CASE DisputeWindowEnds
    BY <2>3 DEF DisputeWindowEnds, ChecksHold, WindowServed, jobVars
  <2> QED BY <1>2, <2>1, <2>2, <2>3 DEF Deadlines
<1>3. CASE ResolutionStep
  <2>1. ASSUME NEW p \in Staff \cup {Creator}, Propose(p)
        PROVE  ChecksHold'
    BY <2>1 DEF Propose, NoOpenProposal, ChecksHold, jobVars
  <2>2. ASSUME NEW u \in Disputants, FileDispute(u)
        PROVE  ChecksHold'
    <3>1. disputes' = [disputes EXCEPT ![u] = "open"]
      BY <2>2 DEF FileDispute
    <3>2. WindowServed => WindowServed'
      BY <2>2, <3>1 DEF FileDispute, WindowServed, TypeOK, FlowType
    <3> QED BY <2>2, <3>2 DEF FileDispute, ChecksHold, jobVars
  <2>3. ASSUME NEW s \in Staff, NEW u \in Disputants, DecideRead(s, u)
        PROVE  ChecksHold'
    BY <2>3, ChecksQuiet DEF DecideRead, flowVars
  <2>4. ASSUME NEW s \in Staff, NEW v \in {"upheld", "rejected"}, DecideWrite(s, v)
        PROVE  ChecksHold'
    <3>1. deciding[s] \in Disputants /\ disputes' = [disputes EXCEPT ![deciding[s]] = v]
      BY <2>4 DEF DecideWrite, TypeOK, JobType
    <3>2. WindowServed => WindowServed'
      BY <2>4, <3>1 DEF DecideWrite, WindowServed, TypeOK, FlowType
    <3> QED BY <2>4, <3>2 DEF DecideWrite, ChecksHold
  <2> QED BY <1>3, <2>1, <2>2, <2>3, <2>4, FinalizeStep DEF ResolutionStep
<1>4. CASE ApprovalStep
  <2>1. CASE VoidAfterActivation
    BY <2>1, ChecksVoided DEF VoidAfterActivation
  <2>2. ASSUME NEW a \in Approvers, ForfeitRead(a) \/ ForfeitCommit(a)
        PROVE  ChecksHold'
    BY <2>2, ChecksQuiet DEF ForfeitRead, ForfeitCommit, flowVars
  <2> QED BY <1>4, <2>1, <2>2 DEF ApprovalStep
<1> QED BY <1>1, <1>2, <1>3, <1>4 DEF Next

LEMMA ChecksAlwaysHold == Spec => []ChecksHold
<1>1. Init => ChecksHold
  BY PeopleAssumption DEF Init, ChecksHold
<1>2. TypeOK /\ ChecksHold /\ [Next]_vars => ChecksHold'
  <2>1. UNCHANGED vars /\ ChecksHold => ChecksHold'
    BY ChecksQuiet DEF vars, flowVars, jobVars
  <2> QED BY <2>1, ChecksStep
<1> QED BY <1>1, <1>2, TypeCorrect, PTL DEF Spec

\* Only finalize pays: every other step leaves an unsettled market unsettled
\* or refunds it.
LEMMA OnlyFinalizePays ==
    ASSUME TypeOK, Next, settled = "none", settled' = "paid"
    PROVE  \E s \in Staff : FinalizePay(s)
<1>1. ~VoidAndRefund
  BY DEF VoidAndRefund, Settle
<1>2. ~Opening
  BY DEF Opening, CreateCommunity, CreateOfficial
<1>3. ~SeedingStep
  BY DEF SeedingStep, SeedSolo, SeedOfficial, OpenSeedingRound, Contribute
<1>4. ~TradingStep
  BY DEF TradingStep, Buy, Sell
<1>5. ~Deadlines
  BY <1>1 DEF Deadlines, RoundEnds, EventStarts, SweepRead, SweepWrite, DisputeWindowEnds,
              CloseSeedingRound, CloseFundingWindow, CloseParticipationWindow
<1>6. ~ApprovalStep
  BY <1>1 DEF ApprovalStep, VoidAfterActivation, ForfeitRead, ForfeitCommit
<1>7. ResolutionStep
  BY <1>2, <1>3, <1>4, <1>5, <1>6 DEF Next
<1> QED BY <1>7 DEF ResolutionStep, Propose, FileDispute, DecideRead, DecideWrite,
                    FinalizeCheck, FinalizeFail, FinalizeTidy

\* Four eyes and a served window stand behind every payout, although the
\* checks are made on reads no lock protects: nothing that can happen in
\* between, short of settling the market, makes them untrue.
THEOREM PayoutsAreReviewed == Spec => PayoutIsReviewed
<1>1. TypeOK /\ ChecksHold /\ Next /\ settled = "none" /\ settled' = "paid"
      => \E s \in Staff :
            /\ finalizing[s] \in Outcomes /\ finalizing'[s] = "tidy"
            /\ proposer \notin {s, Nobody}
            /\ dispClock = "over" \/ \E u \in Disputants : disputes[u] # "none"
  <2> SUFFICES ASSUME TypeOK, ChecksHold, Next, settled = "none", settled' = "paid"
               PROVE  \E s \in Staff :
                        /\ finalizing[s] \in Outcomes /\ finalizing'[s] = "tidy"
                        /\ proposer \notin {s, Nobody}
                        /\ dispClock = "over" \/ \E u \in Disputants : disputes[u] # "none"
    OBVIOUS
  <2>1. PICK s \in Staff : FinalizePay(s)
    BY OnlyFinalizePays
  <2>2. finalizing[s] \in Outcomes /\ finalizing'[s] = "tidy"
    BY <2>1 DEF FinalizePay, TypeOK, JobType
  <2>3. proposer \notin {s, Nobody} /\ WindowServed
    BY <2>2 DEF ChecksHold
  <2> QED BY <2>2, <2>3 DEF WindowServed
<1> QED BY <1>1, TypeCorrect, ChecksAlwaysHold, PTL DEF Spec, PayoutIsReviewed

\* The inductive invariant, whole: what the runs check on small markets.
THEOREM MarketInvariant == Spec => []MarketInv
BY TypeCorrect, PotIdentityHolds, ClosedHolds, ChecksAlwaysHold, PTL DEF MarketInv
=============================================================================
