---------------------------- MODULE MarketBooks ----------------------------
(***************************************************************************)
(* The money of a market, proved for every set of users, every cost curve  *)
(* and every rate: it is conserved, the escrow backs the pot, stakes and   *)
(* positions add up to what the market's row says, a settled market keeps  *)
(* nothing, a void makes everybody whole and a payout is the pot.          *)
(***************************************************************************)
EXTENDS MarketSafety, SumLemmas

(***************************************************************************)
(* Total over the accounts, the sponsors and the outcomes.                 *)
(***************************************************************************)
LEMMA AccountsFinite == IsFiniteSet(People) /\ IsFiniteSet(Accounts)
<1>1. IsFiniteSet(People)
  BY PeopleAssumption, FS_AddElement DEF People
<1> QED BY <1>1, FS_AddElement DEF Accounts

\* Total is the sum, though a reduce over no movement is a plain zero.
LEMMA TotalIsSum ==
    ASSUME NEW S, IsFiniteSet(S), NEW f \in [S -> Int]
    PROVE  Total(f) = SumFunctionOnSet(f, S) /\ Total(f) \in Int
<1>1. SumFunctionOnSet(f, S) \in Int
  BY SumRemove
<1>2. CASE \A x \in S : f[x] = 0
  <2>1. SumFunctionOnSet(f, S) = SumFunctionOnSet(f, S) + SumFunctionOnSet(f, S)
    BY <1>2, SumAddsUp
  <2>2. SumFunctionOnSet(f, S) = 0
    <3>1. PICK k : k = SumFunctionOnSet(f, S)
      OBVIOUS
    <3>2. k \in Int /\ k = k + k
      BY <1>1, <2>1, <3>1
    <3>3. k = 0
      BY <3>2
    <3> QED BY <3>1, <3>3
  <2>3. Total(f) = 0
    <3>1. \A x \in DOMAIN f : f[x] = 0
      BY <1>2
    <3> QED BY <3>1 DEF Total
  <2> QED BY <2>2, <2>3
<1>3. CASE ~\A x \in S : f[x] = 0
  BY <1>1, <1>3 DEF Total, SumFunction
<1> QED BY <1>2, <1>3

LEMMA TotalOfZero ==
    ASSUME NEW S, NEW f \in [S -> Int], \A x \in S : f[x] = 0
    PROVE  Total(f) = 0
BY DEF Total

\* One row changes, and the total by as much.
LEMMA TotalAdd ==
    ASSUME NEW S, IsFiniteSet(S), NEW f \in [S -> Int], NEW u \in S, NEW n \in Int
    PROVE  Total(Add(f, u, n)) = Total(f) + n
<1>1. PICK g : g = Add(f, u, n)
  OBVIOUS
<1>2. g \in [S -> Int] /\ g[u] = f[u] + n /\ \A x \in S : x # u => g[x] = f[x]
  BY <1>1 DEF Add
<1>3. SumFunctionOnSet(g, S) = SumFunctionOnSet(f, S) - f[u] + g[u]
  BY <1>2, SumOneChange
<1>4. Total(f) = SumFunctionOnSet(f, S) /\ Total(f) \in Int /\ Total(g) = SumFunctionOnSet(g, S)
  BY <1>2, TotalIsSum
<1>5. f[u] \in Int
  OBVIOUS
<1> QED BY <1>1, <1>2, <1>3, <1>4, <1>5

\* Totals add up row by row.
LEMMA TotalAddsUp ==
    ASSUME NEW S, IsFiniteSet(S), NEW f \in [S -> Int], NEW g \in [S -> Int],
           NEW h \in [S -> Int], \A x \in S : h[x] = f[x] + g[x]
    PROVE  Total(h) = Total(f) + Total(g)
<1>1. SumFunctionOnSet(h, S) = SumFunctionOnSet(f, S) + SumFunctionOnSet(g, S)
  BY SumAddsUp
<1> QED BY <1>1, TotalIsSum

LEMMA TotalMonotonic ==
    ASSUME NEW S, IsFiniteSet(S), NEW f \in [S -> Int], NEW g \in [S -> Int],
           \A x \in S : f[x] <= g[x]
    PROVE  Total(f) <= Total(g)
<1>1. SumFunctionOnSet(f, S) <= SumFunctionOnSet(g, S)
  BY SumMonotonic
<1> QED BY <1>1, TotalIsSum

LEMMA TotalNatural ==
    ASSUME NEW S, IsFiniteSet(S), NEW f \in [S -> Int], \A x \in S : f[x] >= 0
    PROVE  Total(f) >= 0
<1> DEFINE z == [x \in S |-> 0]
<1>1. z \in [S -> Int] /\ \A x \in S : z[x] = 0 /\ z[x] <= f[x]
  OBVIOUS
<1>2. Total(z) = 0
  BY <1>1, TotalOfZero
<1>3. Total(z) <= Total(f)
  <2> HIDE DEF z
  <2> QED BY <1>1, TotalMonotonic
<1>4. Total(f) \in Int
  BY TotalIsSum
<1> QED BY <1>2, <1>3, <1>4

\* What one account is given is all that is given.
LEMMA TotalOnly ==
    ASSUME NEW u \in Accounts, NEW k \in Int
    PROVE  Total(Only(u, k)) = k
<1> DEFINE z == [v \in Accounts |-> 0]
<1>1. z \in [Accounts -> Int] /\ Total(z) = 0
  BY TotalOfZero
<1>2. Only(u, k) = Add(z, u, k)
  BY DEF Only, Add
<1>3. Total(Add(z, u, k)) = 0 + k
  <2> HIDE DEF z
  <2> QED BY <1>1, AccountsFinite, TotalAdd
<1> QED BY <1>2, <1>3

\* What the sponsors are given is what they contributed: the house has none.
LEMMA TotalGiven ==
    ASSUME NEW c \in [People -> Int]
    PROVE  Total([u \in Accounts |-> IF u \in People THEN c[u] ELSE 0]) = Total(c)
<1>1. PICK g : g = [u \in Accounts |-> IF u \in People THEN c[u] ELSE 0]
  OBVIOUS
<1>2. /\ House \in Accounts /\ House \notin People /\ Accounts \ {House} = People
      /\ g \in [Accounts -> Int] /\ g[House] = 0 /\ \A u \in People : g[u] = c[u]
  BY <1>1, PeopleAssumption DEF Accounts
<1>3. SumFunctionOnSet(g, Accounts) = g[House] + SumFunctionOnSet(g, People)
  BY <1>2, AccountsFinite, SumRemove
<1>4. SumFunctionOnSet(c, People) = SumFunctionOnSet(g, People)
  BY <1>2, AccountsFinite, SumSame
<1>5. Total(g) = SumFunctionOnSet(g, Accounts)
  BY <1>2, AccountsFinite, TotalIsSum
<1>6. Total(c) = SumFunctionOnSet(c, People) /\ Total(c) \in Int
  BY AccountsFinite, TotalIsSum
<1> QED BY <1>1, <1>2, <1>3, <1>4, <1>5, <1>6

(***************************************************************************)
(* What each operation does to the totals.                                 *)
(***************************************************************************)
LEMMA TotalsAreInt ==
    ASSUME TypeOK
    PROVE  /\ Total(avail) \in Int /\ Total(esc) \in Int /\ Total(staked) \in Int
           /\ Contributions \in Int /\ Contributions >= 0
           /\ \A o \in Outcomes : SharesHeld(o) \in Int
           /\ pot \in Int /\ fees \in Int /\ issued \in Int
<1>1. Total(avail) \in Int /\ Total(esc) \in Int /\ Total(staked) \in Int
  BY AccountsFinite, OutcomesAssumption, TotalIsSum DEF TypeOK, MoneyType, BookType
<1>2. contrib \in [People -> Int] /\ \A u \in People : contrib[u] >= 0
  BY DEF TypeOK, RoundType
<1>3. Contributions \in Int /\ Contributions >= 0
  BY <1>2, AccountsFinite, TotalIsSum, TotalNatural DEF Contributions
<1>4. \A o \in Outcomes : SharesHeld(o) \in Int
  <2> TAKE o \in Outcomes
  <2>1. [u \in Accounts |-> pos[u][o]] \in [Accounts -> Int]
    BY DEF TypeOK, BookType
  <2> QED BY <2>1, AccountsFinite, TotalIsSum DEF SharesHeld
<1> QED BY <1>1, <1>3, <1>4 DEF TypeOK, MoneyType, BookType

LEMMA HoldMoves ==
    ASSUME MoneyType, NEW u \in Accounts, NEW n \in Int, Hold(u, n)
    PROVE  Total(avail') = Total(avail) + (-n) /\ Total(esc') = Total(esc) + n
<1>1. -n \in Int
  OBVIOUS
<1> QED BY <1>1, AccountsFinite, TotalAdd DEF Hold, MoneyType

\* persist and updatePosition: stake, pot, shares and position move together.
LEMMA PersistMoves ==
    ASSUME BookType, NEW u \in Accounts, NEW o \in Outcomes, NEW s \in Int, NEW m \in Int,
           Persist(u, o, s, m)
    PROVE  /\ Total(staked') = Total(staked) + m /\ pot' = pot + m
           /\ \A p \in Outcomes : SharesHeld(p)' = SharesHeld(p) + (q'[p] - q[p])
<1>1. Total(staked') = Total(staked) + m
  BY OutcomesAssumption, TotalAdd DEF Persist, BookType
<1>2. ASSUME NEW p \in Outcomes
      PROVE  SharesHeld(p)' = SharesHeld(p) + (q'[p] - q[p])
  <2>1. /\ pos' = [pos EXCEPT ![u][o] = @ + s] /\ q' = [q EXCEPT ![o] = @ + s]
        /\ pos \in [Accounts -> [Outcomes -> Int]] /\ q[p] \in Int /\ q \in [Outcomes -> Int]
    BY RatesAssumption DEF Persist, Move, BookType, ShareVectors
  <2>2. PICK f : f = [v \in Accounts |-> pos[v][p]]
    OBVIOUS
  <2>3. PICK g : g = [v \in Accounts |-> pos'[v][p]]
    OBVIOUS
  <2>4. f \in [Accounts -> Int] /\ SharesHeld(p) = Total(f) /\ SharesHeld(p)' = Total(g)
    BY <2>1, <2>2, <2>3 DEF SharesHeld
  <2>5. Total(f) \in Int
    BY <2>4, AccountsFinite, TotalIsSum
  <2>6. CASE p = o
    <3>1. g = Add(f, u, s)
      BY <2>1, <2>2, <2>3, <2>6 DEF Add
    <3>2. q'[p] - q[p] = s
      BY <2>1, <2>6
    <3> QED BY <2>4, <3>1, <3>2, AccountsFinite, TotalAdd
  <2>7. CASE p # o
    <3>1. g = f
      BY <2>1, <2>2, <2>3, <2>7
    <3>2. q'[p] = q[p]
      BY <2>1, <2>7
    <3> QED BY <2>1, <2>4, <2>5, <3>1, <3>2
  <2> QED BY <2>6, <2>7
<1> QED BY <1>1, <1>2 DEF Persist

\* The parts of a seed add up to what it cost, the last one with the remainder.
LEMMA SeedPartsAddUp ==
    ASSUME NEW k \in Nat
    PROVE  /\ [o \in Outcomes |-> SeedStake(k, o)] \in [Outcomes -> Int]
           /\ Total([o \in Outcomes |-> SeedStake(k, o)]) = k * SetPrice
<1>1. PICK n : n = Cardinality(Outcomes)
  OBVIOUS
<1>2. n \in Nat \ {0}
  BY <1>1, OutcomesAssumption, FS_CardinalityType, FS_EmptySet
<1>3. PICK all, part : all = k * SetPrice /\ part = all \div n
  OBVIOUS
<1>4. all \in Nat /\ part \in Int
  BY <1>2, <1>3, RatesAssumption
<1>5. LastOutcome \in Outcomes
  BY OutcomesAssumption DEF LastOutcome
<1>6. PICK even : even = [o \in Outcomes |-> part]
  OBVIOUS
<1>7. even \in [Outcomes -> Int] /\ \A o \in Outcomes : even[o] = part
  BY <1>4, <1>6
<1>8. Total(even) = part * n
  BY <1>1, <1>4, <1>7, OutcomesAssumption, SumConstant, TotalIsSum
<1>9. PICK rest : rest = all - part * (n - 1) - part
  OBVIOUS
<1>10. rest \in Int /\ part + rest = all - part * (n - 1)
  BY <1>2, <1>4, <1>9
<1>11. [o \in Outcomes |-> SeedStake(k, o)] = Add(even, LastOutcome, rest)
  <2>1. \A o \in Outcomes :
           SeedStake(k, o) = IF o = LastOutcome THEN all - part * (n - 1) ELSE part
    BY <1>1, <1>3 DEF SeedStake
  <2>2. Add(even, LastOutcome, rest) =
           [o \in Outcomes |-> IF o = LastOutcome THEN part + rest ELSE part]
    BY <1>5, <1>6 DEF Add
  <2> QED BY <1>10, <2>1, <2>2
<1>12. Total(Add(even, LastOutcome, rest)) = part * n + rest
  BY <1>5, <1>7, <1>8, <1>10, OutcomesAssumption, TotalAdd
<1>13. part * n + rest = all
  <2>1. part * (n - 1) = part * n - part
    BY <1>2, <1>4
  <2> QED BY <1>2, <1>4, <1>9, <2>1
<1>14. Add(even, LastOutcome, rest) \in [Outcomes -> Int]
  BY <1>5, <1>7, <1>10, AddIsInt
<1> QED BY <1>3, <1>11, <1>12, <1>13, <1>14

\* A seed of k sets: k shares of every outcome, held by those they were given to.
LEMMA SeedMoves ==
    ASSUME BookType, NEW k, NEW given \in [Accounts -> Int], Total(given) = k,
           ApplySeed(k, given)
    PROVE  /\ k \in Nat
           /\ Total(staked') = Total(staked) + k * SetPrice /\ pot' = pot + k * SetPrice
           /\ \A p \in Outcomes : SharesHeld(p)' = SharesHeld(p) + (q'[p] - q[p])
<1>1. k \in Nat
  BY RatesAssumption DEF ApplySeed, SeedAccepted
<1>2. Total(staked') = Total(staked) + k * SetPrice
  <2>1. PICK parts : parts = [o \in Outcomes |-> SeedStake(k, o)]
    OBVIOUS
  <2>2. parts \in [Outcomes -> Int] /\ Total(parts) = k * SetPrice
    BY <1>1, <2>1, SeedPartsAddUp
  <2>3. /\ staked' \in [Outcomes -> Int] /\ staked \in [Outcomes -> Int]
        /\ \A o \in Outcomes : staked'[o] = staked[o] + parts[o]
    BY <2>1, <2>2 DEF ApplySeed, BookType
  <2> QED BY <2>2, <2>3, OutcomesAssumption, TotalAddsUp
<1>3. ASSUME NEW p \in Outcomes
      PROVE  SharesHeld(p)' = SharesHeld(p) + (q'[p] - q[p])
  <2>1. /\ pos' = [u \in Accounts |-> Shift(pos[u], given[u])] /\ q' = Shift(q, k)
        /\ pos \in [Accounts -> [Outcomes -> Int]] /\ q[p] \in Int
    BY RatesAssumption DEF ApplySeed, BookType, ShareVectors
  <2>2. PICK f : f = [v \in Accounts |-> pos[v][p]]
    OBVIOUS
  <2>3. PICK g : g = [v \in Accounts |-> pos'[v][p]]
    OBVIOUS
  <2>4. SharesHeld(p) = Total(f) /\ SharesHeld(p)' = Total(g) /\ f \in [Accounts -> Int]
    BY <2>1, <2>2, <2>3 DEF SharesHeld
  <2>5. g \in [Accounts -> Int] /\ \A v \in Accounts : g[v] = f[v] + given[v]
    BY <2>1, <2>2, <2>3 DEF Shift
  <2>6. Total(g) = Total(f) + k
    BY <2>4, <2>5, AccountsFinite, TotalAddsUp
  <2>7. q'[p] - q[p] = k
    BY <1>1, <2>1 DEF Shift
  <2> QED BY <2>4, <2>6, <2>7
<1> QED BY <1>1, <1>2, <1>3 DEF ApplySeed

(***************************************************************************)
(* Conservation.                                                           *)
(***************************************************************************)
Money == Total(avail) + Total(esc) + fees - issued

LEMMA MoneyQuiet == ASSUME UNCHANGED moneyVars PROVE UNCHANGED Money
BY DEF Money, moneyVars

LEMMA HoldConserves ==
    ASSUME TypeOK, NEW u \in Accounts, NEW n \in Int, Hold(u, n), UNCHANGED <<fees, issued>>
    PROVE  UNCHANGED Money
<1>1. MoneyType
  BY DEF TypeOK
<1>2. Total(avail') = Total(avail) + (-n) /\ Total(esc') = Total(esc) + n
  BY <1>1, HoldMoves
<1> QED BY <1>2, TotalsAreInt DEF Money

LEMMA SellConserves ==
    ASSUME TypeOK, NEW u \in Exiters, NEW o \in Outcomes, NEW s \in 1 .. MaxShares,
           Sell(u, o, s)
    PROVE  UNCHANGED Money
<1> DEFINE refund == SellRefund(q, o, s)
<1>1. u \in Accounts /\ refund \in Int /\ ExitFee(refund) \in Int
  <2>1. q \in ShareVectors /\ -s \in Int /\ q[o] + (-s) \in 0 .. MaxShares
    BY RatesAssumption DEF Sell, MaySell, TypeOK, BookType, ShareVectors
  <2>2. Cost(Move(q, o, -s)) \in Nat /\ Cost(q) \in Nat
    BY <2>1, MoveStaysInside, CostIsNat
  <2> QED BY <2>2, FeesAreInt, PeopleAssumption DEF SellRefund, Accounts
<1> HIDE DEF refund
<1>2. /\ esc' = Add(esc, u, -refund) /\ avail' = Add(avail, u, refund - ExitFee(refund))
      /\ fees' = fees + ExitFee(refund) /\ issued' = issued
  BY DEF Sell, SellLegs, refund
<1>3. avail \in [Accounts -> Int] /\ esc \in [Accounts -> Int]
  BY DEF TypeOK, MoneyType
<1>4. Total(esc') = Total(esc) + (-refund)
  <2>1. -refund \in Int
    BY <1>1
  <2> QED BY <1>1, <1>2, <1>3, <2>1, AccountsFinite, TotalAdd
<1>5. Total(avail') = Total(avail) + (refund - ExitFee(refund))
  <2>1. refund - ExitFee(refund) \in Int
    BY <1>1
  <2> QED BY <1>1, <1>2, <1>3, <2>1, AccountsFinite, TotalAdd
<1> QED BY <1>1, <1>2, <1>4, <1>5, TotalsAreInt DEF Money

\* What is refunded is what was held.
LEMMA VoidConserves ==
    ASSUME TypeOK, VoidAndRefund
    PROVE  UNCHANGED Money
<1>1. PICK back : back = [u \in Accounts |-> Refund(u)]
  OBVIOUS
<1>2. avail \in [Accounts -> Int] /\ esc \in [Accounts -> Int]
  BY DEF TypeOK, MoneyType
<1>3. back \in [Accounts -> Int]
  BY <1>1, <1>2 DEF Refund, AtLeastZero
<1>4. /\ avail' \in [Accounts -> Int] /\ esc' \in [Accounts -> Int]
      /\ \A u \in Accounts : avail'[u] = avail[u] + back[u] /\ esc[u] = esc'[u] + back[u]
  BY <1>1, <1>2, <1>3 DEF VoidAndRefund
<1>5. Total(avail') = Total(avail) + Total(back)
  BY <1>2, <1>3, <1>4, AccountsFinite, TotalAddsUp
<1>6. Total(esc) = Total(esc') + Total(back)
  BY <1>2, <1>3, <1>4, AccountsFinite, TotalAddsUp
<1>7. Total(back) \in Int /\ Total(esc') \in Int /\ UNCHANGED <<fees, issued>>
  BY <1>3, <1>4, AccountsFinite, TotalIsSum DEF VoidAndRefund
<1> QED BY <1>5, <1>6, <1>7, TotalsAreInt DEF Money

LEMMA ForfeitConserves ==
    ASSUME TypeOK, NEW a \in Approvers, ForfeitCommit(a)
    PROVE  UNCHANGED Money
<1>1. Creator \in Accounts /\ BondAmount \in Int /\ -BondAmount \in Int
  BY AmountsAssumption DEF Accounts, People
<1>2. Total(esc') = Total(esc) + (-BondAmount)
  BY <1>1, AccountsFinite, TotalAdd DEF ForfeitCommit, ForfeitLegs, TypeOK, MoneyType
<1>3. fees' = fees + BondAmount /\ UNCHANGED <<avail, issued>>
  BY DEF ForfeitCommit, ForfeitLegs
<1> QED BY <1>1, <1>2, <1>3, TotalsAreInt DEF Money

(***************************************************************************)
(* A payout: its legs are whole, so the residual is, and the smallest      *)
(* payout's correction makes the postings balance.                         *)
(***************************************************************************)

\* A round that was filled has contributions to share the creator's fee by.
FilledIsFull == syn = "filled" => Contributions > 0

LEMMA LegsAreInt ==
    ASSUME TypeOK, FilledIsFull, NEW w \in Outcomes, NEW u \in Accounts
    PROVE  /\ Payout(u, w) \in Int /\ FeeLeg(u, w) \in Int /\ Released(u) \in Int
           /\ BondLeg(u) \in Int
<1>1. pot \in Int /\ staked[w] \in Int /\ pos[u][w] \in Int /\ q[w] \in Int /\ esc[u] \in Int
  BY DEF TypeOK, BookType, MoneyType, ShareVectors
<1>2. Losing(w) \in Int
  BY <1>1 DEF Losing, LosingPool, Smaller, AtLeastZero
<1>3. Payout(u, w) \in Int
  <2>1. CASE q[w] <= 0
    BY <2>1 DEF Payout, ProRataPayout
  <2>2. CASE q[w] > 0
    <3>1. BpsBase * q[w] \in Nat \ {0}
      BY <1>1, <2>2, RatesAssumption
    <3>2. (pot * BpsBase - Losing(w) * FeeBps) * pos[u][w] \in Int
      BY <1>1, <1>2, RatesAssumption
    <3> QED BY <1>1, <2>2, <3>1, <3>2 DEF Payout, ProRataPayout
  <2> QED BY <1>1, <2>1, <2>2
<1>4. CreatorPart(w) \in Int
  <2>1. CreatorCut \in Int
    BY RatesAssumption DEF CreatorCut, Smaller
  <2>2. Losing(w) * CreatorCut \in Int
    BY <1>2, <2>1
  <2> QED BY <2>2, RatesAssumption DEF CreatorPart, CreatorFee
<1>5. FeeLeg(u, w) \in Int
  <2>1. CASE u \notin People \/ CreatorPart(w) = 0 \/ syn # "filled"
    BY <1>4, <2>1 DEF FeeLeg
  <2>2. CASE u \in People /\ CreatorPart(w) # 0 /\ syn = "filled"
    <3>1. contrib[u] \in Int /\ OrganiserBps \in Int
      BY <2>2, AmountsAssumption, RatesAssumption DEF TypeOK, RoundType
    <3>2. BpsBase * Contributions \in Nat \ {0}
      BY <2>2, TotalsAreInt, RatesAssumption DEF FilledIsFull
    <3>3. CreatorPart(w) * (BpsBase - OrganiserBps) * contrib[u] \in Int
      BY <1>4, <3>1, RatesAssumption
    <3>4. (CreatorPart(w) * OrganiserBps) \div BpsBase \in Int
      BY <1>4, <3>1, RatesAssumption
    <3>5. (CreatorPart(w) * (BpsBase - OrganiserBps) * contrib[u])
             \div (BpsBase * Contributions) \in Int
      BY <3>2, <3>3
    <3> QED BY <2>2, <3>4, <3>5 DEF FeeLeg
  <2> QED BY <2>1, <2>2
<1>6. BondLeg(u) \in Int
  BY AmountsAssumption DEF BondLeg
<1>7. Released(u) \in Int
  BY <1>1, <1>6 DEF Released, AtLeastZero
<1> QED BY <1>3, <1>5, <1>6, <1>7

LEMMA ResolveConserves ==
    ASSUME TypeOK, FilledIsFull, NEW w \in Outcomes, Resolve(w)
    PROVE  UNCHANGED Money
<1>1. PICK t \in Accounts :
         /\ Postable(w, t)
         /\ avail' = [u \in Accounts |-> avail[u] + Paid(u, w, t)]
  BY DEF Resolve
<1>2. PICK legs : legs = [u \in Accounts |-> Payout(u, w) + FeeLeg(u, w) - Released(u)]
  OBVIOUS
<1>3. PICK bonds : bonds = [u \in Accounts |-> BondLeg(u)]
  OBVIOUS
<1>4. PICK gone : gone = [u \in Accounts |-> Released(u) + BondLeg(u)]
  OBVIOUS
<1>5. PICK all : all = [u \in Accounts |-> Payout(u, w) + FeeLeg(u, w) + BondLeg(u)]
  OBVIOUS
<1>6. /\ legs \in [Accounts -> Int] /\ bonds \in [Accounts -> Int]
      /\ gone \in [Accounts -> Int] /\ all \in [Accounts -> Int]
  BY <1>2, <1>3, <1>4, <1>5, LegsAreInt
<1>7. Residual(w) = Total(legs) + PlatformPart(w) /\ Residual(w) \in Int /\ PlatformPart(w) \in Int
  BY <1>2, <1>6, AccountsFinite, TotalIsSum, PlatformPartIsInt DEF Residual
<1>8. Total(all) = Total(legs) + Total(gone)
  <2>1. \A u \in Accounts : all[u] = legs[u] + gone[u]
    BY <1>2, <1>4, <1>5, LegsAreInt
  <2> QED BY <1>6, <2>1, AccountsFinite, TotalAddsUp
<1>9. Total(esc) = Total(esc') + Total(gone)
  <2>1. esc \in [Accounts -> Int] /\ esc' \in [Accounts -> Int]
    BY EscrowAfterIsInt DEF Resolve, TypeOK, MoneyType
  <2>2. \A u \in Accounts : esc[u] = esc'[u] + gone[u]
    BY <1>4, <2>1, LegsAreInt DEF Resolve, EscrowAfter
  <2> QED BY <1>6, <2>1, <2>2, AccountsFinite, TotalAddsUp
<1>10. PICK paid : paid = [u \in Accounts |-> Paid(u, w, t)]
  OBVIOUS
<1>11. paid \in [Accounts -> Int] /\ paid = Add(all, t, -Residual(w))
  <2>1. \A u \in Accounts : Paid(u, w, t) = all[u] - (IF u = t THEN Residual(w) ELSE 0)
    BY <1>5, <1>7, LegsAreInt DEF Paid
  <2>2. \A u \in Accounts :
           paid[u] = IF u = t THEN all[u] + (-Residual(w)) ELSE all[u]
    BY <1>6, <1>7, <1>10, <2>1
  <2>3. Add(all, t, -Residual(w)) =
           [u \in Accounts |-> IF u = t THEN all[u] + (-Residual(w)) ELSE all[u]]
    BY <1>6 DEF Add
  <2>4. paid = [u \in Accounts |-> paid[u]]
    BY <1>10
  <2> QED BY <1>6, <1>7, <2>2, <2>3, <2>4
<1>12. Total(paid) = Total(all) + (-Residual(w))
  <2>1. -Residual(w) \in Int
    BY <1>7
  <2> QED BY <1>6, <1>11, <2>1, AccountsFinite, TotalAdd
<1>13. Total(avail') = Total(avail) + Total(paid)
  <2>1. avail \in [Accounts -> Int] /\ avail' \in [Accounts -> Int]
        /\ \A u \in Accounts : avail'[u] = avail[u] + paid[u]
    BY <1>1, <1>10, <1>11 DEF TypeOK, MoneyType
  <2> QED BY <1>11, <2>1, AccountsFinite, TotalAddsUp
<1>14. Total(gone) \in Int /\ Total(legs) \in Int /\ Total(esc') \in Int
  <2>1. esc' \in [Accounts -> Int]
    BY EscrowAfterIsInt DEF Resolve
  <2> QED BY <1>6, <2>1, AccountsFinite, TotalIsSum
<1>15. fees' = fees + PlatformPart(w) /\ issued' = issued
  BY DEF Resolve
<1> QED BY <1>7, <1>8, <1>9, <1>12, <1>13, <1>14, <1>15, TotalsAreInt DEF Money

\* A purchase, and the exit's refund, in whole amounts.
LEMMA BuyCostIsInt ==
    ASSUME TypeOK, NEW u \in People, NEW o \in Outcomes, NEW s \in 1 .. MaxShares, Buy(u, o, s)
    PROVE  u \in Accounts /\ s \in Int /\ BuyCost(q, o, s) \in Int
<1>1. BookType /\ s \in Int /\ q[o] + s \in 0 .. MaxShares
  BY RatesAssumption DEF Buy, TypeOK, BookType, ShareVectors
<1> QED BY <1>1, PricesAreInt DEF BuyCost, Accounts

LEMMA RefundIsInt ==
    ASSUME TypeOK, NEW u \in Exiters, NEW o \in Outcomes, NEW s \in 1 .. MaxShares,
           Sell(u, o, s)
    PROVE  u \in Accounts /\ -s \in Int /\ SellRefund(q, o, s) \in Int
<1>1. q \in ShareVectors /\ -s \in Int /\ q[o] + (-s) \in 0 .. MaxShares
  BY RatesAssumption DEF Sell, MaySell, TypeOK, BookType, ShareVectors
<1>2. Cost(Move(q, o, -s)) \in Nat /\ Cost(q) \in Nat
  BY <1>1, MoveStaysInside, CostIsNat
<1> QED BY <1>1, <1>2, PeopleAssumption DEF SellRefund, Accounts

LEMMA MoneyStep ==
    ASSUME TypeOK, FilledIsFull, Next
    PROVE  UNCHANGED Money
<1>0. Creator \in Accounts /\ House \in Accounts /\ \A u \in People : u \in Accounts
  BY DEF Accounts, People
<1>1. CASE Opening
  <2>1. CASE CreateOfficial
    BY <2>1, MoneyQuiet DEF CreateOfficial
  <2>2. ASSUME NEW how, CreateCommunity(how)
        PROVE  UNCHANGED Money
    <3>1. CASE BondAmount > 0
      BY <1>0, <2>2, <3>1, HoldConserves, AmountsAssumption DEF CreateCommunity
    <3>2. CASE ~(BondAmount > 0)
      BY <2>2, <3>2, MoneyQuiet DEF CreateCommunity, moneyVars
    <3> QED BY <3>1, <3>2
  <2> QED BY <1>1, <2>1, <2>2 DEF Opening
<1>2. CASE SeedingStep
  <2>1. ASSUME NEW k \in MinSeed .. MaxSeed, SeedSolo(k)
        PROVE  UNCHANGED Money
    <3>1. k * SetPrice \in Int
      BY AmountsAssumption, RatesAssumption
    <3> QED BY <1>0, <2>1, <3>1, HoldConserves DEF SeedSolo
  <2>2. ASSUME NEW k \in 1 .. MaxSeed, SeedOfficial(k)
        PROVE  UNCHANGED Money
    <3>1. k * SetPrice \in Int
      BY AmountsAssumption, RatesAssumption
    <3>2. Total(esc') = Total(esc) + k * SetPrice
      BY <1>0, <2>2, <3>1, AccountsFinite, TotalAdd DEF SeedOfficial, TypeOK, MoneyType
    <3>3. issued' = issued + k * SetPrice /\ UNCHANGED <<avail, fees>>
      BY <2>2 DEF SeedOfficial
    <3> QED BY <3>1, <3>2, <3>3, TotalsAreInt DEF Money
  <2>3. CASE OpenSeedingRound
    BY <2>3, MoneyQuiet DEF OpenSeedingRound
  <2>4. ASSUME NEW u \in People, NEW k \in 1 .. MaxSeed, Contribute(u, k)
        PROVE  UNCHANGED Money
    <3>1. k * SetPrice \in Int
      BY AmountsAssumption, RatesAssumption
    <3> QED BY <1>0, <2>4, <3>1, HoldConserves DEF Contribute
  <2> QED BY <1>2, <2>1, <2>2, <2>3, <2>4 DEF SeedingStep
<1>3. CASE TradingStep
  <2>1. ASSUME NEW u \in People, NEW o \in Outcomes, NEW s \in 1 .. MaxShares, Buy(u, o, s)
        PROVE  UNCHANGED Money
    <3>1. Hold(u, BuyCost(q, o, s)) /\ UNCHANGED <<fees, issued>>
      BY <2>1 DEF Buy
    <3> QED BY <2>1, <3>1, BuyCostIsInt, HoldConserves
  <2> QED BY <1>3, <2>1, SellConserves DEF TradingStep
<1>4. CASE Deadlines
  <2>1. CASE RoundEnds \/ EventStarts \/ SweepRead \/ SweepWrite \/ DisputeWindowEnds
    BY <2>1, MoneyQuiet
       DEF RoundEnds, EventStarts, SweepRead, SweepWrite, DisputeWindowEnds
  <2>2. CASE CloseSeedingRound \/ CloseFundingWindow \/ CloseParticipationWindow
    <3>1. CASE VoidAndRefund
      BY <3>1, VoidConserves
    <3>2. CASE ~VoidAndRefund
      BY <2>2, <3>2, MoneyQuiet
         DEF CloseSeedingRound, CloseFundingWindow, CloseParticipationWindow
    <3> QED BY <3>1, <3>2
  <2> QED BY <1>4, <2>1, <2>2 DEF Deadlines
<1>5. CASE ResolutionStep
  <2>1. ASSUME NEW s \in Staff, FinalizePay(s)
        PROVE  UNCHANGED Money
    BY <2>1, ResolveConserves DEF FinalizePay
  <2>2. ASSUME ~\E s \in Staff : FinalizePay(s)
        PROVE  UNCHANGED Money
    BY <1>5, <2>2, MoneyQuiet
       DEF ResolutionStep, Propose, FileDispute, DecideRead, DecideWrite, FinalizeCheck,
           FinalizeFail, FinalizeTidy
  <2> QED BY <2>1, <2>2
<1>6. CASE ApprovalStep
  <2>1. CASE VoidAfterActivation
    BY <2>1, VoidConserves DEF VoidAfterActivation
  <2>2. ASSUME NEW a \in Approvers, ForfeitRead(a) \/ ForfeitCommit(a)
        PROVE  UNCHANGED Money
    BY <2>2, MoneyQuiet, ForfeitConserves DEF ForfeitRead
  <2> QED BY <1>6, <2>1, <2>2 DEF ApprovalStep
<1> QED BY <1>1, <1>2, <1>3, <1>4, <1>5, <1>6 DEF Next

\* The contribution that fills a round is part of it, and nobody leaves one.
LEMMA FilledStep ==
    ASSUME TypeOK, FilledIsFull, Next
    PROVE  FilledIsFull'
<1>0. ASSUME UNCHANGED <<syn, contrib>> PROVE FilledIsFull'
  BY <1>0 DEF FilledIsFull, Contributions
<1>1. ASSUME VoidAndRefund PROVE FilledIsFull'
  BY <1>1 DEF VoidAndRefund, FilledIsFull, Contributions
<1>2. CASE Opening
  BY <1>0, <1>2 DEF Opening, CreateCommunity, CreateOfficial, roundVars
<1>3. CASE SeedingStep
  <2>1. ASSUME NEW u \in People, NEW k \in 1 .. MaxSeed, Contribute(u, k)
        PROVE  FilledIsFull'
    <3>1. CASE RoundReached(Total(contrib'))
      <4>0. Contributions' = Total(contrib')
        BY DEF Contributions
      <4>1. Total(contrib') >= MinSeed
        BY <3>1 DEF RoundReached, MinTotal
      <4>2. Total(contrib') \in Int
        <5>1. contrib' \in [People -> Int]
          BY NextType DEF TypeOK, RoundType
        <5> QED BY <5>1, AccountsFinite, TotalIsSum
      <4> QED BY <4>0, <4>1, <4>2, AmountsAssumption DEF FilledIsFull
    <3>2. CASE ~RoundReached(Total(contrib'))
      BY <2>1, <3>2 DEF Contribute, FilledIsFull
    <3> QED BY <3>1, <3>2
  <2>2. CASE OpenSeedingRound
    BY <2>2 DEF OpenSeedingRound, FilledIsFull
  <2> QED BY <1>0, <1>3, <2>1, <2>2 DEF SeedingStep, SeedSolo, SeedOfficial, roundVars
<1>4. CASE TradingStep
  BY <1>0, <1>4 DEF TradingStep, Buy, Sell, roundVars
<1>5. CASE Deadlines
  <2>1. CASE CloseSeedingRound
    <3>1. CASE RoundReached(Contributions)
      <4>1. Contributions >= MinSeed /\ Contributions \in Int
        BY <3>1, TotalsAreInt DEF RoundReached, MinTotal
      <4>2. UNCHANGED contrib
        BY <2>1, <3>1 DEF CloseSeedingRound
      <4> QED BY <4>1, <4>2, AmountsAssumption DEF FilledIsFull, Contributions
    <3>2. CASE ~RoundReached(Contributions)
      BY <1>1, <2>1, <3>2 DEF CloseSeedingRound
    <3> QED BY <3>1, <3>2
  <2>2. CASE CloseFundingWindow \/ CloseParticipationWindow
    <3>1. CASE VoidAndRefund
      BY <1>1, <3>1
    <3>2. CASE ~VoidAndRefund
      BY <1>0, <2>2, <3>2 DEF CloseFundingWindow, CloseParticipationWindow, roundVars
    <3> QED BY <3>1, <3>2
  <2>3. CASE RoundEnds \/ EventStarts \/ SweepRead \/ SweepWrite \/ DisputeWindowEnds
    BY <1>0, <2>3
       DEF RoundEnds, EventStarts, SweepRead, SweepWrite, DisputeWindowEnds, roundVars
  <2> QED BY <1>5, <2>1, <2>2, <2>3 DEF Deadlines
<1>6. CASE ResolutionStep
  BY <1>0, <1>6
     DEF ResolutionStep, Propose, FileDispute, DecideRead, DecideWrite, FinalizeCheck,
         FinalizePay, Resolve, FinalizeFail, FinalizeTidy, roundVars
<1>7. CASE ApprovalStep
  BY <1>0, <1>1, <1>7
     DEF ApprovalStep, VoidAfterActivation, ForfeitRead, ForfeitCommit, roundVars
<1> QED BY <1>2, <1>3, <1>4, <1>5, <1>6, <1>7 DEF Next

(***************************************************************************)
(* Stakes and positions.                                                   *)
(***************************************************************************)
BookAgrees == StakedIsPot /\ PositionsAreShares

\* A step that leaves the book alone and pays nothing keeps it.
LEMMA BookQuiet ==
    ASSUME BookAgrees, UNCHANGED <<staked, pot, pos, q, settled>>
    PROVE  BookAgrees'
BY DEF BookAgrees, StakedIsPot, PositionsAreShares, SharesHeld

\* So does one that moves stake, pot, shares and positions together.
LEMMA BookMoves ==
    ASSUME TypeOK, BookAgrees, NEW m \in Int, settled' = settled, BookType',
           Total(staked') = Total(staked) + m, pot' = pot + m,
           \A p \in Outcomes : SharesHeld(p)' = SharesHeld(p) + (q'[p] - q[p])
    PROVE  BookAgrees'
<1>1. \A p \in Outcomes : q[p] \in Int /\ q'[p] \in Int
  BY RatesAssumption DEF TypeOK, BookType, ShareVectors
<1> QED BY <1>1, TotalsAreInt DEF BookAgrees, StakedIsPot, PositionsAreShares

LEMMA SeedKeepsBook ==
    ASSUME TypeOK, BookAgrees, NEW k, NEW given \in [Accounts -> Int], Total(given) = k,
           ApplySeed(k, given), settled' = settled, BookType'
    PROVE  BookAgrees'
<1>1. BookType
  BY DEF TypeOK
<1>2. k \in Nat /\ k * SetPrice \in Int
  BY <1>1, SeedMoves, RatesAssumption
<1> QED BY <1>1, <1>2, SeedMoves, BookMoves

\* The sponsors are given what they contributed, which is what is seeded.
LEMMA FillKeepsBook ==
    ASSUME TypeOK, BookAgrees, NEW c \in [People -> Int], Fill(c), settled' = settled,
           BookType'
    PROVE  BookAgrees'
<1>1. PICK given : given = [u \in Accounts |-> IF u \in People THEN c[u] ELSE 0]
  OBVIOUS
<1>2. given \in [Accounts -> Int] /\ Total(given) = Total(c)
  BY <1>1, TotalGiven
<1> QED BY <1>1, <1>2, SeedKeepsBook DEF Fill

\* A refund clears the book.
LEMMA VoidKeepsBook ==
    ASSUME VoidAndRefund
    PROVE  BookAgrees'
<1>1. PICK f : f = [o \in Outcomes |-> 0]
  OBVIOUS
<1>2. Total(f) = 0
  BY <1>1 DEF Total
<1>3. Total(staked') = pot'
  BY <1>1, <1>2 DEF VoidAndRefund, Empty
<1>4. ASSUME NEW o \in Outcomes PROVE SharesHeld(o)' = q'[o]
  <2>1. PICK g : g = [u \in Accounts |-> 0]
    OBVIOUS
  <2>2. [u \in Accounts |-> pos'[u][o]] = g
    BY <2>1 DEF VoidAndRefund, Empty
  <2>3. Total(g) = 0
    BY <2>1 DEF Total
  <2> QED BY <2>2, <2>3 DEF SharesHeld, VoidAndRefund, Empty
<1> QED BY <1>3, <1>4 DEF BookAgrees, StakedIsPot, PositionsAreShares

\* A payout leaves the shares, and the stakes of a paid market say nothing.
LEMMA ResolveKeepsBook ==
    ASSUME TypeOK, SettledIsClosed, BookAgrees, NEW w \in Outcomes, Resolve(w)
    PROVE  BookAgrees'
<1>1. settled' = "paid"
  BY PaidOnce DEF Resolve, Settle
<1> QED BY <1>1 DEF Resolve, BookAgrees, StakedIsPot, PositionsAreShares, SharesHeld

LEMMA BookStep ==
    ASSUME TypeOK, SettledIsClosed, BookAgrees, Next
    PROVE  BookAgrees'
<1>0. BookType' /\ contrib \in [People -> Int] /\ contrib' \in [People -> Int]
  BY NextType DEF TypeOK, RoundType
<1>1. CASE Opening
  BY <1>1, BookQuiet DEF Opening, CreateCommunity, CreateOfficial, bookVars
<1>2. CASE SeedingStep
  <2>1. ASSUME NEW k \in MinSeed .. MaxSeed, SeedSolo(k)
        PROVE  BookAgrees'
    <3>1. k \in Int /\ Creator \in Accounts
      BY AmountsAssumption DEF Accounts, People
    <3>2. Only(Creator, k) \in [Accounts -> Int] /\ Total(Only(Creator, k)) = k
      BY <3>1, TotalOnly DEF Only
    <3> QED BY <1>0, <2>1, <3>2, SeedKeepsBook DEF SeedSolo
  <2>2. ASSUME NEW k \in 1 .. MaxSeed, SeedOfficial(k)
        PROVE  BookAgrees'
    <3>1. k \in Int /\ House \in Accounts
      BY AmountsAssumption DEF Accounts
    <3>2. Only(House, k) \in [Accounts -> Int] /\ Total(Only(House, k)) = k
      BY <3>1, TotalOnly DEF Only
    <3> QED BY <1>0, <2>2, <3>2, SeedKeepsBook DEF SeedOfficial
  <2>3. CASE OpenSeedingRound
    BY <2>3, BookQuiet DEF OpenSeedingRound, bookVars
  <2>4. ASSUME NEW u \in People, NEW k \in 1 .. MaxSeed, Contribute(u, k)
        PROVE  BookAgrees'
    <3>1. CASE RoundReached(Total(contrib'))
      BY <1>0, <2>4, <3>1, FillKeepsBook DEF Contribute
    <3>2. CASE ~RoundReached(Total(contrib'))
      BY <2>4, <3>2, BookQuiet DEF Contribute, bookVars
    <3> QED BY <3>1, <3>2
  <2> QED BY <1>2, <2>1, <2>2, <2>3, <2>4 DEF SeedingStep
<1>3. CASE TradingStep
  <2>1. ASSUME NEW u \in People, NEW o \in Outcomes, NEW s \in 1 .. MaxShares, Buy(u, o, s)
        PROVE  BookAgrees'
    <3>1. BookType /\ u \in Accounts /\ s \in Int /\ BuyCost(q, o, s) \in Int
      BY <2>1, BuyCostIsInt DEF TypeOK
    <3>2. Persist(u, o, s, BuyCost(q, o, s)) /\ settled' = settled
      BY <2>1 DEF Buy
    <3> QED BY <1>0, <3>1, <3>2, PersistMoves, BookMoves
  <2>2. ASSUME NEW u \in Exiters, NEW o \in Outcomes, NEW s \in 1 .. MaxShares, Sell(u, o, s)
        PROVE  BookAgrees'
    <3>1. BookType /\ u \in Accounts /\ -s \in Int /\ SellRefund(q, o, s) \in Int
      BY <2>2, RefundIsInt DEF TypeOK
    <3>2. Persist(u, o, -s, -SellRefund(q, o, s)) /\ settled' = settled
      BY <2>2 DEF Sell
    <3>3. -SellRefund(q, o, s) \in Int
      BY <3>1
    <3> QED BY <1>0, <3>1, <3>2, <3>3, PersistMoves, BookMoves
  <2> QED BY <1>3, <2>1, <2>2 DEF TradingStep
<1>4. CASE Deadlines
  <2>1. CASE RoundEnds \/ EventStarts \/ SweepRead \/ SweepWrite \/ DisputeWindowEnds
    BY <2>1, BookQuiet
       DEF RoundEnds, EventStarts, SweepRead, SweepWrite, DisputeWindowEnds, bookVars
  <2>2. CASE VoidAndRefund
    BY <2>2, VoidKeepsBook
  <2>3. CASE CloseSeedingRound /\ ~VoidAndRefund
    BY <1>0, <2>3, FillKeepsBook DEF CloseSeedingRound
  <2>4. CASE (CloseFundingWindow \/ CloseParticipationWindow) /\ ~VoidAndRefund
    BY <2>4, BookQuiet DEF CloseFundingWindow, CloseParticipationWindow, bookVars
  <2> QED BY <1>4, <2>1, <2>2, <2>3, <2>4 DEF Deadlines
<1>5. CASE ResolutionStep
  <2>1. ASSUME NEW s \in Staff, FinalizePay(s)
        PROVE  BookAgrees'
    BY <2>1, ResolveKeepsBook DEF FinalizePay
  <2>2. ASSUME ~\E s \in Staff : FinalizePay(s)
        PROVE  BookAgrees'
    BY <1>5, <2>2, BookQuiet
       DEF ResolutionStep, Propose, FileDispute, DecideRead, DecideWrite, FinalizeCheck,
           FinalizeFail, FinalizeTidy, bookVars
  <2> QED BY <2>1, <2>2
<1>6. CASE ApprovalStep
  BY <1>6, BookQuiet, VoidKeepsBook
     DEF ApprovalStep, VoidAfterActivation, ForfeitRead, ForfeitCommit, bookVars
<1> QED BY <1>1, <1>2, <1>3, <1>4, <1>5, <1>6 DEF Next

(***************************************************************************)
(* What a step can be, for the money: ten ways to move it, or none.        *)
(***************************************************************************)
Quiet == UNCHANGED <<moneyVars, bookVars, bond, syn, contrib, settled>>

Deposits ==
    \/ \E how \in Openings \ {"official"} : CreateCommunity(how)
    \/ \E k \in MinSeed .. MaxSeed : SeedSolo(k)
    \/ \E k \in 1 .. MaxSeed : SeedOfficial(k)
    \/ \E u \in People, k \in 1 .. MaxSeed : Contribute(u, k)
    \/ \E u \in People, o \in Outcomes, s \in 1 .. MaxShares : Buy(u, o, s)

Departures ==
    \/ \E u \in Exiters, o \in Outcomes, s \in 1 .. MaxShares : Sell(u, o, s)
    \/ \E a \in Approvers : ForfeitCommit(a)

Closings == VoidAndRefund \/ \E w \in Outcomes : Resolve(w)

LEMMA StepKinds ==
    ASSUME RoundsAreShort, Next
    PROVE  Quiet \/ OpenSeedingRound \/ Deposits \/ Departures \/ Closings
<1> USE DEF Quiet
<1>1. CASE Opening
  BY <1>1 DEF Opening, CreateOfficial, Deposits, roundVars
<1>2. CASE SeedingStep
  BY <1>2 DEF SeedingStep, Deposits
<1>3. CASE TradingStep
  BY <1>3 DEF TradingStep, Deposits, Departures
<1>4. CASE Deadlines
  <2>1. CASE RoundEnds \/ EventStarts \/ SweepRead \/ SweepWrite \/ DisputeWindowEnds
    BY <2>1 DEF RoundEnds, EventStarts, SweepRead, SweepWrite, DisputeWindowEnds, roundVars
  <2>2. CASE CloseSeedingRound
    BY <2>2
       DEF CloseSeedingRound, RoundDue, RoundReached, RoundsAreShort, OpenRoundIsShort, Closings
  <2>3. CASE CloseFundingWindow \/ CloseParticipationWindow
    BY <2>3 DEF CloseFundingWindow, CloseParticipationWindow, Closings, roundVars
  <2> QED BY <1>4, <2>1, <2>2, <2>3 DEF Deadlines
<1>5. CASE ResolutionStep
  BY <1>5
     DEF ResolutionStep, Propose, FileDispute, DecideRead, DecideWrite, FinalizeCheck,
         FinalizePay, FinalizeFail, FinalizeTidy, Closings, roundVars
<1>6. CASE ApprovalStep
  BY <1>6
     DEF ApprovalStep, VoidAfterActivation, ForfeitRead, Departures, Closings, roundVars
<1> QED BY <1>1, <1>2, <1>3, <1>4, <1>5, <1>6 DEF Next

\* A bond is held only once there is a market it was paid for.
NoBondYet == state = "absent" => bond = "none"

NotStale(a) == ForfeitCommit(a) => bond = "held"

LEMMA NoBondStep ==
    ASSUME NoBondYet, \A a \in Approvers : NotStale(a), Next
    PROVE  NoBondYet'
<1>1. CASE Opening
  BY <1>1 DEF Opening, CreateCommunity, CreateOfficial, NoBondYet
<1>2. CASE SeedingStep
  BY <1>2 DEF SeedingStep, SeedSolo, SeedOfficial, OpenSeedingRound, Contribute, Fill, Activate,
              NoBondYet
<1>3. CASE TradingStep
  BY <1>3 DEF TradingStep, Buy, Sell, lifeVars, NoBondYet
<1>4. CASE Deadlines
  BY <1>4
     DEF Deadlines, RoundEnds, EventStarts, SweepRead, SweepWrite, DisputeWindowEnds,
         CloseSeedingRound, CloseFundingWindow, CloseParticipationWindow, VoidAndRefund, Fill,
         Activate, lifeVars, NoBondYet
<1>5. CASE ResolutionStep
  BY <1>5
     DEF ResolutionStep, Propose, FileDispute, DecideRead, DecideWrite, FinalizeCheck,
         FinalizePay, Resolve, FinalizeFail, FinalizeTidy, lifeVars, NoBondYet
<1>6. CASE ApprovalStep
  <2>1. ASSUME NEW a \in Approvers, ForfeitCommit(a)
        PROVE  NoBondYet'
    BY <2>1 DEF ForfeitCommit, NotStale, lifeVars, NoBondYet
  <2> QED BY <1>6, <2>1
       DEF ApprovalStep, VoidAfterActivation, VoidAndRefund, ForfeitRead, lifeVars, NoBondYet
<1> QED BY <1>1, <1>2, <1>3, <1>4, <1>5, <1>6 DEF Next

(***************************************************************************)
(* The escrow.                                                             *)
(***************************************************************************)
LEMMA EscrowStep ==
    ASSUME TypeOK, RoundsAreShort, NoBondYet, EscrowBacksPot,
           \A a \in Approvers : NotStale(a), Next
    PROVE  EscrowBacksPot'
<1>0. /\ MoneyType /\ BookType
      /\ Creator \in Accounts /\ House \in Accounts /\ \A u \in People : u \in Accounts
      /\ SetPrice \in Int /\ BondAmount \in Int
      /\ Contributions \in Int /\ Total(esc) \in Int /\ pot \in Int
  BY TotalsAreInt, RatesAssumption, AmountsAssumption DEF TypeOK, Accounts, People
<1>1. CASE Quiet
  BY <1>1 DEF Quiet, moneyVars, bookVars, EscrowBacksPot, BondInEscrow, RoundInEscrow,
              Contributions
<1>2. CASE OpenSeedingRound
  <2>1. PICK c : c = contrib
    OBVIOUS
  <2>2. Total(c) = 0 /\ Contributions = Total(c)
    BY <1>2, <2>1 DEF OpenSeedingRound, RoundsAreShort, Contributions, Total, TypeOK, RoundType
  <2>3. Contributions' = Total(c)
    BY <1>2, <2>1 DEF OpenSeedingRound, Contributions
  <2>4. RoundInEscrow = 0 /\ RoundInEscrow' = 0
    BY <1>0, <1>2, <2>2, <2>3 DEF OpenSeedingRound, RoundInEscrow
  <2> QED BY <1>2, <2>4 DEF OpenSeedingRound, moneyVars, bookVars, EscrowBacksPot, BondInEscrow
<1>3. CASE Deposits
  <2>1. ASSUME NEW how, CreateCommunity(how)
        PROVE  EscrowBacksPot'
    <3>1. RoundInEscrow' = RoundInEscrow /\ pot' = pot /\ BondInEscrow = 0 /\ settled' = settled
      BY <2>1 DEF CreateCommunity, roundVars, bookVars, RoundInEscrow, Contributions,
                  BondInEscrow, NoBondYet
    <3>2. Total(esc') = Total(esc) + BondInEscrow'
      BY <1>0, <2>1, <3>1, HoldMoves DEF CreateCommunity, BondInEscrow
    <3>3. RoundInEscrow \in Int /\ BondInEscrow' \in Int
      BY <1>0 DEF RoundInEscrow, BondInEscrow
    <3> QED BY <1>0, <3>1, <3>2, <3>3 DEF EscrowBacksPot
  <2>2. ASSUME NEW m \in Int, Total(esc') = Total(esc) + m, pot' = pot + m,
               UNCHANGED <<bond, roundVars, settled>>
        PROVE  EscrowBacksPot'
    <3>1. RoundInEscrow' = RoundInEscrow /\ BondInEscrow' = BondInEscrow
      BY <2>2 DEF RoundInEscrow, BondInEscrow, Contributions, roundVars
    <3>2. RoundInEscrow \in Int /\ BondInEscrow \in Int
      BY <1>0 DEF RoundInEscrow, BondInEscrow
    <3> QED BY <1>0, <2>2, <3>1, <3>2 DEF EscrowBacksPot
  <2>3. ASSUME NEW k \in MinSeed .. MaxSeed, SeedSolo(k)
        PROVE  EscrowBacksPot'
    <3>1. k * SetPrice \in Int
      BY AmountsAssumption, RatesAssumption
    <3> QED BY <1>0, <2>2, <2>3, <3>1, HoldMoves DEF SeedSolo, ApplySeed
  <2>4. ASSUME NEW k \in 1 .. MaxSeed, SeedOfficial(k)
        PROVE  EscrowBacksPot'
    <3>1. k * SetPrice \in Int
      BY AmountsAssumption, RatesAssumption
    <3>2. Total(esc') = Total(esc) + k * SetPrice
      BY <1>0, <2>4, <3>1, AccountsFinite, TotalAdd DEF SeedOfficial, MoneyType
    <3> QED BY <2>2, <2>4, <3>1, <3>2 DEF SeedOfficial, ApplySeed
  <2>5. ASSUME NEW u \in People, NEW k \in 1 .. MaxSeed, Contribute(u, k)
        PROVE  EscrowBacksPot'
    <3>1. k \in Int /\ k * SetPrice \in Int
      BY AmountsAssumption, RatesAssumption
    <3>2. Total(esc') = Total(esc) + k * SetPrice
      BY <1>0, <2>5, <3>1, HoldMoves DEF Contribute
    <3>3. PICK all : all = Total(contrib')
      OBVIOUS
    <3>4. all = Contributions + k
      BY <2>5, <3>1, <3>3, AccountsFinite, TotalAdd
         DEF Contribute, Contributions, TypeOK, RoundType
    <3>5. all * SetPrice = Contributions * SetPrice + k * SetPrice
      BY <1>0, <3>1, <3>4
    <3>6. PICK was, more : was = Contributions * SetPrice /\ more = k * SetPrice
      OBVIOUS
    <3>7. /\ was \in Int /\ more \in Int /\ all * SetPrice = was + more
          /\ RoundInEscrow = was /\ BondInEscrow' = BondInEscrow /\ BondInEscrow \in Int
      BY <1>0, <2>5, <3>1, <3>5, <3>6 DEF Contribute, RoundInEscrow, BondInEscrow
    <3>8. settled' = settled /\ pot' + RoundInEscrow' = pot + was + more
      <4>1. CASE RoundReached(Total(contrib'))
        BY <1>0, <2>5, <3>3, <3>7, <4>1 DEF Contribute, Fill, ApplySeed, RoundInEscrow
      <4>2. CASE ~RoundReached(Total(contrib'))
        <5>1. pot' = pot /\ RoundInEscrow' = all * SetPrice
          BY <2>5, <3>3, <4>2 DEF Contribute, bookVars, RoundInEscrow, Contributions
        <5> QED BY <1>0, <2>5, <3>7, <5>1 DEF Contribute
      <4> QED BY <4>1, <4>2
    <3>9. pot' \in Int /\ RoundInEscrow' \in Int
      <4>1. pot' \in Int
        BY NextType DEF TypeOK, BookType
      <4>2. all * SetPrice \in Int /\ Contributions' = all
        BY <1>0, <3>1, <3>3, <3>4 DEF Contributions
      <4> QED BY <4>1, <4>2 DEF RoundInEscrow
    <3>10. Total(esc') = Total(esc) + more
      BY <3>2, <3>6
    <3>11. CASE settled = "none"
      <4>1. Total(esc) = pot + BondInEscrow + was
        BY <3>7, <3>11 DEF EscrowBacksPot
      <4>2. Total(esc') = pot' + BondInEscrow + RoundInEscrow'
        <5>1. /\ was \in Int /\ more \in Int /\ BondInEscrow \in Int
              /\ pot \in Int /\ Total(esc) \in Int
          BY <1>0, <3>7
        <5>2. PICK e1, p1, r1 : e1 = Total(esc') /\ p1 = pot' /\ r1 = RoundInEscrow'
          OBVIOUS
        <5>3. p1 \in Int /\ r1 \in Int /\ e1 = Total(esc) + more /\ p1 + r1 = pot + was + more
          BY <3>8, <3>9, <3>10, <5>2
        <5>4. e1 = p1 + BondInEscrow + r1
          BY <4>1, <5>1, <5>3
        <5> QED BY <5>2, <5>4
      <4> QED BY <3>7, <4>2 DEF EscrowBacksPot
    <3> QED BY <3>8, <3>11 DEF EscrowBacksPot
  <2>6. ASSUME NEW u \in People, NEW o \in Outcomes, NEW s \in 1 .. MaxShares, Buy(u, o, s)
        PROVE  EscrowBacksPot'
    <3>1. u \in Accounts /\ BuyCost(q, o, s) \in Int
      BY <2>6, BuyCostIsInt
    <3> QED BY <1>0, <2>2, <2>6, <3>1, HoldMoves DEF Buy, Persist
  <2> QED BY <1>3, <2>1, <2>3, <2>4, <2>5, <2>6 DEF Deposits
<1>4. CASE Departures
  <2>1. ASSUME NEW u \in Exiters, NEW o \in Outcomes, NEW s \in 1 .. MaxShares, Sell(u, o, s)
        PROVE  EscrowBacksPot'
    <3>1. PICK refund : refund = SellRefund(q, o, s)
      OBVIOUS
    <3>2. u \in Accounts /\ refund \in Int /\ -refund \in Int
      BY <2>1, <3>1, RefundIsInt
    <3>3. Total(esc') = Total(esc) + (-refund)
      BY <2>1, <3>1, <3>2, AccountsFinite, TotalAdd DEF Sell, SellLegs, TypeOK, MoneyType
    <3>4. RoundInEscrow' = RoundInEscrow /\ BondInEscrow' = BondInEscrow
      BY <2>1 DEF Sell, RoundInEscrow, BondInEscrow, Contributions, roundVars
    <3>5. RoundInEscrow \in Int /\ BondInEscrow \in Int
      BY <1>0 DEF RoundInEscrow, BondInEscrow
    <3>6. pot' = pot + (-refund) /\ settled' = settled
      BY <2>1, <3>1 DEF Sell, Persist
    <3> QED BY <1>0, <3>2, <3>3, <3>4, <3>5, <3>6 DEF EscrowBacksPot
  <2>2. ASSUME NEW a \in Approvers, ForfeitCommit(a)
        PROVE  EscrowBacksPot'
    <3>1. bond = "held" /\ bond' = "forfeited" /\ UNCHANGED <<pot, roundVars, settled>>
      BY <2>2 DEF NotStale, ForfeitCommit, bookVars
    <3>2. BondInEscrow = BondAmount /\ BondInEscrow' = 0 /\ RoundInEscrow' = RoundInEscrow
      BY <3>1 DEF BondInEscrow, RoundInEscrow, Contributions, roundVars
    <3>3. RoundInEscrow \in Int /\ -BondAmount \in Int
      BY <1>0 DEF RoundInEscrow
    <3>4. Total(esc') = Total(esc) + (-BondAmount)
      BY <1>0, <2>2, <3>3, AccountsFinite, TotalAdd DEF ForfeitCommit, ForfeitLegs, MoneyType
    <3> QED BY <1>0, <3>1, <3>2, <3>3, <3>4 DEF EscrowBacksPot
  <2> QED BY <1>4, <2>1, <2>2 DEF Departures
<1>5. CASE Closings
  <2>1. settled' # "none"
    BY <1>5, SettleMarks DEF Closings, VoidAndRefund, Resolve
  <2> QED BY <2>1 DEF EscrowBacksPot
<1> QED BY <1>1, <1>2, <1>3, <1>4, <1>5, StepKinds

(***************************************************************************)
(* Nobody who never sold is in debt to the market, and the creator's       *)
(* escrow covers a held bond.                                              *)
(***************************************************************************)
BondOf(u) == IF u = Creator /\ bond = "held" THEN BondAmount ELSE 0

NoDebts == \A u \in Accounts : Exited(u) \/ esc[u] >= BondOf(u)

\* Escrow that only grows, under the same bond, is no less than it was.
LEMMA DebtsQuiet ==
    ASSUME MoneyType, NoDebts, bond' = bond, trades \subseteq trades',
           \A u \in Accounts : esc'[u] \in Int /\ esc'[u] >= esc[u]
    PROVE  NoDebts'
<1> SUFFICES ASSUME NEW u \in Accounts
             PROVE  Exited(u)' \/ esc'[u] >= BondOf(u)'
  BY DEF NoDebts
<1>1. Exited(u) => Exited(u)'
  BY DEF Exited
<1>2. BondOf(u)' = BondOf(u) /\ BondOf(u) \in Int /\ esc[u] \in Int
  BY AmountsAssumption DEF BondOf, MoneyType
<1> QED BY <1>1, <1>2 DEF NoDebts

LEMMA DebtStep ==
    ASSUME TypeOK, RoundsAreShort, NoBondYet, NoDebts,
           \A a \in Approvers : NotStale(a), Next
    PROVE  NoDebts'
<1>0. /\ esc \in [Accounts -> Int] /\ esc' \in [Accounts -> Int] /\ MoneyType
      /\ Creator \in Accounts /\ House \in Accounts /\ \A u \in People : u \in Accounts
      /\ BondAmount \in Nat /\ SetPrice \in Nat /\ MinSeed \in Nat
  BY NextType, RatesAssumption, AmountsAssumption DEF TypeOK, MoneyType, Accounts, People
<1>1. CASE Quiet \/ OpenSeedingRound
  BY <1>0, <1>1, DebtsQuiet DEF Quiet, OpenSeedingRound, moneyVars, bookVars
<1>2. CASE Deposits
  <2>1. ASSUME NEW how, CreateCommunity(how)
        PROVE  NoDebts'
    <3>1. bond = "none" /\ trades' = trades
      BY <2>1 DEF CreateCommunity, NoBondYet, bookVars
    <3>2. CASE BondAmount > 0
      <4>1. esc' = Add(esc, Creator, BondAmount) /\ bond' = "held"
        BY <2>1, <3>2 DEF CreateCommunity, Hold
      <4> QED BY <1>0, <3>1, <4>1 DEF NoDebts, BondOf, Exited, Add
    <3>3. CASE ~(BondAmount > 0)
      BY <1>0, <2>1, <3>1, <3>3, DebtsQuiet DEF CreateCommunity
    <3> QED BY <3>2, <3>3
  <2>2. ASSUME NEW u \in Accounts, NEW n \in Int, n >= 0, esc' = Add(esc, u, n),
               bond' = bond, trades \subseteq trades'
        PROVE  NoDebts'
    <3>1. \A v \in Accounts : esc'[v] \in Int /\ esc'[v] >= esc[v]
      BY <1>0, <2>2 DEF Add
    <3> QED BY <1>0, <2>2, <3>1, DebtsQuiet
  <2>3. ASSUME NEW k \in MinSeed .. MaxSeed, SeedSolo(k)
        PROVE  NoDebts'
    <3>1. k * SetPrice \in Int
      BY AmountsAssumption, RatesAssumption
    <3> QED BY <1>0, <2>2, <2>3, <3>1 DEF SeedSolo, Hold, ApplySeed
  <2>4. ASSUME NEW k \in 1 .. MaxSeed, SeedOfficial(k)
        PROVE  NoDebts'
    <3>1. k * SetPrice \in Nat
      BY AmountsAssumption, RatesAssumption
    <3> QED BY <1>0, <2>2, <2>4, <3>1 DEF SeedOfficial, ApplySeed
  <2>5. ASSUME NEW u \in People, NEW k \in 1 .. MaxSeed, Contribute(u, k)
        PROVE  NoDebts'
    <3>1. k * SetPrice \in Int
      BY AmountsAssumption, RatesAssumption
    <3>2. trades \subseteq trades'
      BY <2>5 DEF Contribute, Fill, ApplySeed, bookVars
    <3> QED BY <1>0, <2>2, <2>5, <3>1, <3>2 DEF Contribute, Hold
  <2>6. ASSUME NEW u \in People, NEW o \in Outcomes, NEW s \in 1 .. MaxShares, Buy(u, o, s)
        PROVE  NoDebts'
    <3>1. u \in Accounts /\ BuyCost(q, o, s) \in Int
      BY <2>6, BuyCostIsInt
    <3> QED BY <2>2, <2>6, <3>1 DEF Buy, Hold, Record
  <2> QED BY <1>2, <2>1, <2>3, <2>4, <2>5, <2>6 DEF Deposits
<1>3. CASE Departures
  <2>1. ASSUME NEW u \in Exiters, NEW o \in Outcomes, NEW s \in 1 .. MaxShares, Sell(u, o, s)
        PROVE  NoDebts'
    <3>1. u \in Accounts /\ SellRefund(q, o, s) \in Int
      BY <2>1, RefundIsInt
    <3>2. /\ esc' = Add(esc, u, -SellRefund(q, o, s))
          /\ trades' = trades \cup {<<u, "sell", o>>} /\ bond' = bond
      BY <2>1 DEF Sell, SellLegs, Record
    <3>3. \A v \in Accounts : v # u => esc'[v] = esc[v]
      BY <1>0, <3>2 DEF Add
    <3>4. Exited(u)' /\ \A v \in Accounts : Exited(v) => Exited(v)'
      BY <3>2 DEF Exited
    <3> QED BY <3>2, <3>3, <3>4 DEF NoDebts, BondOf
  <2>2. ASSUME NEW a \in Approvers, ForfeitCommit(a)
        PROVE  NoDebts'
    <3>1. bond = "held" /\ bond' = "forfeited" /\ trades' = trades
          /\ esc' = Add(esc, Creator, -BondAmount)
      BY <2>2 DEF NotStale, ForfeitCommit, ForfeitLegs, bookVars
    <3> QED BY <1>0, <3>1 DEF NoDebts, BondOf, Exited, Add
  <2> QED BY <1>3, <2>1, <2>2 DEF Departures
<1>4. CASE Closings
  <2>1. bond' # "held" /\ trades' = trades
    BY <1>4 DEF Closings, VoidAndRefund, Resolve
  <2>2. ASSUME NEW u \in Accounts, esc[u] >= BondOf(u)
        PROVE  esc'[u] >= 0
    <3>1. CASE VoidAndRefund
      BY <1>0, <2>2, <3>1 DEF VoidAndRefund, Refund, AtLeastZero, BondOf
    <3>2. ASSUME NEW w \in Outcomes, Resolve(w)
          PROVE  esc'[u] >= 0
      <4>1. esc'[u] = esc[u] - Released(u) - BondLeg(u)
        BY <3>2 DEF Resolve, EscrowAfter
      <4> QED BY <1>0, <2>2, <4>1 DEF Released, BondLeg, BondOf, AtLeastZero
    <3> QED BY <1>4, <3>1, <3>2 DEF Closings
  <2> QED BY <2>1, <2>2 DEF NoDebts, BondOf, Exited
<1> QED BY <1>1, <1>2, <1>3, <1>4, StepKinds

\* A closed market owes nothing and keeps nothing.
LEMMA ClosedLeavesNothing ==
    ASSUME TypeOK, SettledIsClosed, NoDebts
    PROVE  NothingLeftBehind
<1>1. ASSUME settled # "none", NEW u \in Accounts, ~Exited(u)
      PROVE  esc[u] = 0
  <2>1. esc[u] \in Int /\ esc[u] <= 0 /\ esc[u] >= 0
    BY <1>1 DEF NoDebts, BondOf, SettledIsClosed, TypeOK, MoneyType
  <2> QED BY <2>1
<1> QED BY <1>1 DEF NothingLeftBehind, SettledIsClosed

(***************************************************************************)
(* Everybody is whole while nobody has sold.                               *)
(***************************************************************************)
Due(u) == Endowment[u] + (IF u = House THEN issued ELSE 0)
                       - (IF u = Creator /\ bond = "forfeited" THEN BondAmount ELSE 0)

Whole ==
    (settled # "paid" /\ ~\E u \in Accounts : Exited(u)) =>
        \A u \in Accounts : avail[u] + esc[u] = Due(u)

LEMMA DueIsInt ==
    ASSUME TypeOK, NEW u \in Accounts
    PROVE  Due(u) \in Int /\ avail[u] \in Int /\ esc[u] \in Int
BY AmountsAssumption DEF Due, TypeOK, MoneyType

\* Nothing is whole that was not: sales are not forgotten, nor a payout.
LEMMA WholeQuiet ==
    ASSUME Whole, trades \subseteq trades', settled = "paid" => settled' = "paid",
           \A u \in Accounts : avail[u] + esc[u] = Due(u) => avail'[u] + esc'[u] = Due(u)'
    PROVE  Whole'
BY DEF Whole, Exited

LEMMA WholeStep ==
    ASSUME TypeOK, RoundsAreShort, NoBondYet, SettledIsClosed, Whole,
           \A a \in Approvers : NotStale(a), Next
    PROVE  Whole'
<1>0. /\ avail \in [Accounts -> Int] /\ esc \in [Accounts -> Int]
      /\ Creator \in Accounts /\ House \in Accounts /\ Creator # House
      /\ \A u \in People : u \in Accounts
      /\ BondAmount \in Int /\ SetPrice \in Int /\ issued \in Int
      /\ \A u \in Accounts : Endowment[u] \in Int
  BY PeopleAssumption, RatesAssumption, AmountsAssumption DEF TypeOK, MoneyType, Accounts, People
<1>1. CASE Quiet \/ OpenSeedingRound
  BY <1>1, WholeQuiet DEF Quiet, OpenSeedingRound, moneyVars, bookVars, Due
<1>2. CASE Deposits
  <2>1. ASSUME NEW u \in Accounts, NEW n \in Int, Hold(u, n), trades \subseteq trades',
               settled' = settled, issued' = issued, bond' = "forfeited" <=> bond = "forfeited"
        PROVE  Whole'
    <3>1. \A v \in Accounts : avail'[v] + esc'[v] = avail[v] + esc[v] /\ Due(v)' = Due(v)
      BY <1>0, <2>1 DEF Hold, Add, Due
    <3> QED BY <2>1, <3>1, WholeQuiet
  <2>2. ASSUME NEW how, CreateCommunity(how)
        PROVE  Whole'
    <3>1. bond = "none" /\ trades' = trades /\ settled' = settled /\ issued' = issued
      BY <2>2 DEF CreateCommunity, NoBondYet, bookVars
    <3>2. CASE BondAmount > 0
      BY <1>0, <2>1, <2>2, <3>1, <3>2 DEF CreateCommunity
    <3>3. CASE ~(BondAmount > 0)
      BY <2>2, <3>1, <3>3, WholeQuiet DEF CreateCommunity, Due
    <3> QED BY <3>2, <3>3
  <2>3. ASSUME NEW k \in MinSeed .. MaxSeed, SeedSolo(k)
        PROVE  Whole'
    <3>1. k * SetPrice \in Int
      BY AmountsAssumption, RatesAssumption
    <3> QED BY <1>0, <2>1, <2>3, <3>1 DEF SeedSolo, ApplySeed
  <2>4. ASSUME NEW k \in 1 .. MaxSeed, SeedOfficial(k)
        PROVE  Whole'
    <3>1. PICK n : n = k * SetPrice
      OBVIOUS
    <3>2. n \in Int
      BY <3>1, AmountsAssumption, RatesAssumption
    <3>3. /\ issued' = issued + n /\ esc' = Add(esc, House, n)
          /\ UNCHANGED <<avail, bond, settled>> /\ trades \subseteq trades'
      BY <2>4, <3>1 DEF SeedOfficial, ApplySeed
    <3>4. ASSUME NEW v \in Accounts, avail[v] + esc[v] = Due(v)
          PROVE  avail'[v] + esc'[v] = Due(v)'
      <4>1. CASE v = House
        <5>1. esc'[v] = esc[v] + n /\ Due(v) = Endowment[v] + issued /\ avail'[v] = avail[v]
          BY <1>0, <3>3, <4>1 DEF Add, Due
        <5>2. Due(v)' = Endowment[v] + (issued + n)
          BY <1>0, <3>2, <3>3, <4>1 DEF Due
        <5> QED BY <1>0, <3>2, <3>4, <5>1, <5>2
      <4>2. CASE v # House
        BY <1>0, <3>3, <3>4, <4>2 DEF Add, Due
      <4> QED BY <4>1, <4>2
    <3> QED BY <3>3, <3>4, WholeQuiet
  <2>5. ASSUME NEW u \in People, NEW k \in 1 .. MaxSeed, Contribute(u, k)
        PROVE  Whole'
    <3>1. k * SetPrice \in Int
      BY AmountsAssumption, RatesAssumption
    <3>2. trades \subseteq trades'
      BY <2>5 DEF Contribute, Fill, ApplySeed, bookVars
    <3> QED BY <1>0, <2>1, <2>5, <3>1, <3>2 DEF Contribute
  <2>6. ASSUME NEW u \in People, NEW o \in Outcomes, NEW s \in 1 .. MaxShares, Buy(u, o, s)
        PROVE  Whole'
    <3>1. u \in Accounts /\ BuyCost(q, o, s) \in Int
      BY <2>6, BuyCostIsInt
    <3> QED BY <2>1, <2>6, <3>1 DEF Buy, Record
  <2> QED BY <1>2, <2>2, <2>3, <2>4, <2>5, <2>6 DEF Deposits
<1>3. CASE Departures
  <2>1. ASSUME NEW u \in Exiters, NEW o \in Outcomes, NEW s \in 1 .. MaxShares, Sell(u, o, s)
        PROVE  Whole'
    <3>1. u \in Accounts /\ Exited(u)'
      BY <2>1, RefundIsInt DEF Sell, Record, Exited
    <3> QED BY <3>1 DEF Whole
  <2>2. ASSUME NEW a \in Approvers, ForfeitCommit(a)
        PROVE  Whole'
    <3>1. /\ bond = "held" /\ bond' = "forfeited" /\ esc' = Add(esc, Creator, -BondAmount)
          /\ UNCHANGED <<avail, issued, trades, settled>>
      BY <2>2 DEF NotStale, ForfeitCommit, ForfeitLegs, bookVars
    <3>2. ASSUME NEW v \in Accounts, avail[v] + esc[v] = Due(v)
          PROVE  avail'[v] + esc'[v] = Due(v)'
      <4>1. CASE v = Creator
        <5>1. esc'[v] = esc[v] - BondAmount /\ avail'[v] = avail[v]
              /\ Due(v) = Endowment[v] /\ Due(v)' = Endowment[v] - BondAmount
          BY <1>0, <3>1, <4>1 DEF Add, Due
        <5> QED BY <1>0, <3>2, <5>1
      <4>2. CASE v # Creator
        BY <1>0, <3>1, <3>2, <4>2 DEF Add, Due
      <4> QED BY <4>1, <4>2
    <3> QED BY <3>1, <3>2, WholeQuiet
  <2> QED BY <1>3, <2>1, <2>2 DEF Departures
<1>4. CASE Closings
  <2>1. CASE VoidAndRefund
    <3>1. \A v \in Accounts : avail'[v] + esc'[v] = avail[v] + esc[v] /\ Due(v)' = Due(v)
      BY <1>0, <2>1 DEF VoidAndRefund, Refund, AtLeastZero, Due
    <3>2. trades' = trades /\ (settled = "paid" => settled' = "paid")
      BY <2>1 DEF VoidAndRefund, Settle
    <3> QED BY <3>1, <3>2, WholeQuiet
  <2>2. ASSUME NEW w \in Outcomes, Resolve(w)
        PROVE  Whole'
    BY <2>2, PaidOnce DEF Resolve, Settle, Whole
  <2> QED BY <1>4, <2>1, <2>2 DEF Closings
<1> QED BY <1>1, <1>2, <1>3, <1>4, StepKinds

\* Refunded, everybody has the whole of it in the balance.
LEMMA RefundIsWhole ==
    ASSUME TypeOK, SettledIsClosed, NoDebts, Whole
    PROVE  VoidMakesWhole
<1> SUFFICES ASSUME settled = "refunded", ~\E u \in Accounts : Exited(u), NEW u \in Accounts
             PROVE  avail[u] = Due(u)
  BY DEF VoidMakesWhole, Due
<1>1. esc[u] = 0
  BY ClosedLeavesNothing DEF NothingLeftBehind
<1>2. avail[u] + esc[u] = Due(u)
  BY DEF Whole
<1> QED BY <1>1, <1>2, DueIsInt

(***************************************************************************)
(* The creator's position is flat.                                         *)
(***************************************************************************)
LEMMA SideStep ==
    ASSUME TypeOK, RoundsAreShort, CreatorTakesNoSide, Next
    PROVE  CreatorTakesNoSide'
<1>0. Creator \in Accounts /\ Creator \notin Traders /\ pos \in [Accounts -> [Outcomes -> Int]]
  BY PeopleAssumption DEF Accounts, People, TypeOK, BookType
<1>1. ASSUME trades \subseteq trades', pos'[Creator] = pos[Creator]
      PROVE  CreatorTakesNoSide'
  BY <1>1 DEF CreatorTakesNoSide, Exited
<1>2. ASSUME NEW k, NEW given, ApplySeed(k, given), given[Creator] \in Int
      PROVE  CreatorTakesNoSide'
  <2>1. trades \subseteq trades' /\ pos'[Creator] = Shift(pos[Creator], given[Creator])
    BY <1>0, <1>2 DEF ApplySeed
  <2>2. \A o \in Outcomes : pos'[Creator][o] = pos[Creator][o] + given[Creator]
    BY <2>1 DEF Shift
  <2>3. Exited(Creator) => Exited(Creator)'
    BY <2>1 DEF Exited
  <2> QED BY <2>2, <2>3 DEF CreatorTakesNoSide
<1>3. CASE Quiet \/ OpenSeedingRound
  BY <1>1, <1>3 DEF Quiet, OpenSeedingRound, bookVars
<1>4. CASE Deposits
  <2>1. ASSUME NEW how, CreateCommunity(how)
        PROVE  CreatorTakesNoSide'
    BY <1>1, <2>1 DEF CreateCommunity, bookVars
  <2>2. ASSUME NEW k \in MinSeed .. MaxSeed, SeedSolo(k)
        PROVE  CreatorTakesNoSide'
    <3>1. Only(Creator, k)[Creator] \in Int
      BY <1>0, AmountsAssumption DEF Only
    <3> QED BY <1>2, <2>2, <3>1 DEF SeedSolo
  <2>3. ASSUME NEW k \in 1 .. MaxSeed, SeedOfficial(k)
        PROVE  CreatorTakesNoSide'
    <3>1. Only(House, k)[Creator] \in Int
      BY <1>0 DEF Only
    <3> QED BY <1>2, <2>3, <3>1 DEF SeedOfficial
  <2>4. ASSUME NEW u \in People, NEW k \in 1 .. MaxSeed, Contribute(u, k)
        PROVE  CreatorTakesNoSide'
    <3>1. CASE RoundReached(Total(contrib'))
      <4>1. PICK given : given = [v \in Accounts |-> IF v \in People THEN contrib'[v] ELSE 0]
        OBVIOUS
      <4>2. given[Creator] \in Int
        <5>1. contrib' \in [People -> Nat] /\ Creator \in People
          BY NextType DEF TypeOK, RoundType, People
        <5> QED BY <1>0, <4>1, <5>1
      <4> QED BY <1>2, <2>4, <3>1, <4>1, <4>2 DEF Contribute, Fill
    <3>2. CASE ~RoundReached(Total(contrib'))
      BY <1>1, <2>4, <3>2 DEF Contribute, bookVars
    <3> QED BY <3>1, <3>2
  <2>5. ASSUME NEW u \in People, NEW o \in Outcomes, NEW s \in 1 .. MaxShares, Buy(u, o, s)
        PROVE  CreatorTakesNoSide'
    BY <1>0, <1>1, <2>5 DEF Buy, MayBuy, Persist, Record
  <2> QED BY <1>4, <2>1, <2>2, <2>3, <2>4, <2>5 DEF Deposits
<1>5. CASE Departures
  <2>1. ASSUME NEW u \in Exiters, NEW o \in Outcomes, NEW s \in 1 .. MaxShares, Sell(u, o, s)
        PROVE  CreatorTakesNoSide'
    <3>1. CASE u = Creator
      BY <2>1, <3>1 DEF Sell, Record, CreatorTakesNoSide, Exited
    <3>2. CASE u # Creator
      BY <1>0, <1>1, <2>1, <3>2 DEF Sell, Persist, Record
    <3> QED BY <3>1, <3>2
  <2> QED BY <1>1, <1>5, <2>1 DEF Departures, ForfeitCommit, bookVars
<1>6. CASE Closings
  <2>1. CASE VoidAndRefund
    BY <1>0, <2>1 DEF VoidAndRefund, CreatorTakesNoSide, Exited, Empty
  <2> QED BY <1>1, <1>6, <2>1 DEF Closings, Resolve
<1> QED BY <1>3, <1>4, <1>5, <1>6, StepKinds

(***************************************************************************)
(* The theorems about the money.                                           *)
(***************************************************************************)
MoneyInv == FilledIsFull /\ Money = Total(Endowment)

LEMMA EndowmentIsNat == Endowment \in [Accounts -> Int] /\ Total(Endowment) \in Nat
<1>1. Endowment \in [Accounts -> Int] /\ \A u \in Accounts : Endowment[u] >= 0
  BY AmountsAssumption
<1>2. Total(Endowment) \in Int /\ Total(Endowment) >= 0
  BY <1>1, AccountsFinite, TotalIsSum, TotalNatural
<1> QED BY <1>1, <1>2

LEMMA MoneyInit == Init => MoneyInv
<1> SUFFICES ASSUME Init PROVE MoneyInv
  OBVIOUS
<1>1. Total(esc) = 0
  <2>1. PICK z : z = [u \in Accounts |-> 0]
    OBVIOUS
  <2>2. Total(z) = 0
    BY <2>1 DEF Total
  <2> QED BY <2>1, <2>2 DEF Init
<1>2. Total(avail) = Total(Endowment) /\ fees = 0 /\ issued = 0 /\ syn = "none"
  BY DEF Init
<1> QED BY <1>1, <1>2, EndowmentIsNat DEF MoneyInv, Money, FilledIsFull

LEMMA MoneyHolds == Spec => []MoneyInv
<1>1. TypeOK /\ MoneyInv /\ [Next]_vars => MoneyInv'
  <2>1. ASSUME MoneyInv, UNCHANGED vars PROVE MoneyInv'
    BY <2>1 DEF MoneyInv, Money, FilledIsFull, Contributions, vars, moneyVars, roundVars
  <2>2. ASSUME TypeOK, MoneyInv, Next PROVE MoneyInv'
    BY <2>2, MoneyStep, FilledStep DEF MoneyInv
  <2> QED BY <2>1, <2>2
<1> QED BY <1>1, MoneyInit, TypeCorrect, PTL DEF Spec

\* Whatever the services do to one another, in any order and any number of
\* times, the balances, the escrow and the fees add up to what there was and
\* what was issued: nothing is made or lost.
THEOREM MoneyIsConserved == Spec => []MoneyConserved
<1>1. TypeOK /\ MoneyInv => MoneyConserved
  BY TotalsAreInt, EndowmentIsNat DEF MoneyInv, Money, MoneyConserved
<1> QED BY <1>1, MoneyHolds, TypeCorrect, PTL

\* Stakes per outcome sum to the pot until it is paid, and every share
\* outstanding is somebody's position, so the engine never refuses a payout
\* for shares it cannot attribute.
THEOREM BookIsConsistent == Spec => [](StakedIsPot /\ PositionsAreShares)
<1>1. Init => BookAgrees
  <2> SUFFICES ASSUME Init PROVE BookAgrees
    OBVIOUS
  <2>1. Total(staked) = 0
    <3>1. PICK z : z = [o \in Outcomes |-> 0]
      OBVIOUS
    <3>2. Total(z) = 0
      BY <3>1 DEF Total
    <3> QED BY <3>1, <3>2 DEF Init, Empty
  <2>2. ASSUME NEW o \in Outcomes PROVE SharesHeld(o) = 0
    <3>1. PICK z : z = [u \in Accounts |-> 0]
      OBVIOUS
    <3>2. Total(z) = 0 /\ [u \in Accounts |-> pos[u][o]] = z
      BY <3>1 DEF Total, Init, Empty
    <3> QED BY <3>2 DEF SharesHeld
  <2> QED BY <2>1, <2>2 DEF Init, Empty, BookAgrees, StakedIsPot, PositionsAreShares
<1>2. TypeOK /\ SettledIsClosed /\ BookAgrees /\ [Next]_vars => BookAgrees'
  <2>1. UNCHANGED vars /\ BookAgrees => BookAgrees'
    BY BookQuiet DEF vars, bookVars
  <2> QED BY <2>1, BookStep
<1>3. BookAgrees => StakedIsPot /\ PositionsAreShares
  BY DEF BookAgrees
<1> QED BY <1>1, <1>2, <1>3, TypeCorrect, ClosedHolds, PTL DEF Spec

\* The creator of a market who has not sold holds as much of one outcome as
\* of any other: no seed, round or refund ever gives the creator a side.
THEOREM CreatorIsNeutral == Spec => []CreatorTakesNoSide
<1>1. Init => CreatorTakesNoSide
  BY DEF Init, CreatorTakesNoSide, Empty, Accounts, People
<1>2. TypeOK /\ RoundsAreShort /\ CreatorTakesNoSide /\ [Next]_vars => CreatorTakesNoSide'
  <2>1. UNCHANGED vars /\ CreatorTakesNoSide => CreatorTakesNoSide'
    BY DEF vars, bookVars, CreatorTakesNoSide, Exited
  <2> QED BY <2>1, SideStep
<1> QED BY <1>1, <1>2, TypeCorrect, ClosedHolds, PTL DEF Spec

(***************************************************************************)
(* The bond.forfeit executor writes whatever it read. Where no forfeit is  *)
(* committed after the bond has left escrow, by a settlement or another    *)
(* forfeit, the escrow is exact; every other race is allowed.              *)
(***************************************************************************)
NoStaleForfeit == [][\A a \in Approvers : NotStale(a)]_vars

EscrowInv == NoBondYet /\ EscrowBacksPot /\ NoDebts /\ Whole

LEMMA EscrowInit == Init => EscrowInv
<1> SUFFICES ASSUME Init PROVE EscrowInv
  OBVIOUS
<1>1. Total(esc) = 0
  <2>1. PICK z : z = [u \in Accounts |-> 0]
    OBVIOUS
  <2>2. Total(z) = 0
    BY <2>1 DEF Total
  <2> QED BY <2>1, <2>2 DEF Init
<1>2. EscrowBacksPot
  BY <1>1 DEF Init, EscrowBacksPot, BondInEscrow, RoundInEscrow
<1>3. NoDebts
  BY DEF Init, NoDebts, BondOf
<1>4. Whole
  BY AmountsAssumption DEF Init, Whole, Due
<1> QED BY <1>2, <1>3, <1>4 DEF Init, EscrowInv, NoBondYet

LEMMA EscrowStutter ==
    ASSUME EscrowInv, UNCHANGED vars
    PROVE  EscrowInv'
BY DEF EscrowInv, NoBondYet, EscrowBacksPot, BondInEscrow, RoundInEscrow, Contributions,
       NoDebts, BondOf, Whole, Due, Exited, vars, lifeVars, bookVars, moneyVars, roundVars

LEMMA EscrowHolds == Spec /\ NoStaleForfeit => []EscrowInv
<1>1. /\ TypeOK /\ RoundsAreShort /\ SettledIsClosed /\ EscrowInv
      /\ [Next]_vars /\ [\A a \in Approvers : NotStale(a)]_vars
      => EscrowInv'
  BY EscrowStutter, NoBondStep, EscrowStep, DebtStep, WholeStep DEF EscrowInv
<1> QED BY <1>1, EscrowInit, TypeCorrect, ClosedHolds, PTL DEF Spec, NoStaleForfeit

\* The pot, the outcomes, the shares and the positions tell one story; the
\* escrow is exactly the pot, the bond and the open round; and a settled
\* market keeps nothing of anybody who never sold.
THEOREM BooksAlwaysAgree == Spec /\ NoStaleForfeit => []BooksAgree
<1>1. /\ TypeOK /\ SettledIsClosed /\ EscrowInv /\ MoneyConserved
      /\ StakedIsPot /\ PositionsAreShares
      => BooksAgree
  BY ClosedLeavesNothing DEF BooksAgree, EscrowInv
<1> QED BY <1>1, TypeCorrect, ClosedHolds, EscrowHolds, MoneyIsConserved, BookIsConsistent, PTL

\* A market that is called off gives every user back what was put in, down to
\* a forfeited bond, and its creator has no side in it.
THEOREM BackersAreSafe == Spec /\ NoStaleForfeit => []FairToBackers
<1>1. TypeOK /\ SettledIsClosed /\ EscrowInv /\ CreatorTakesNoSide => FairToBackers
  BY RefundIsWhole DEF FairToBackers, EscrowInv
<1> QED BY <1>1, TypeCorrect, ClosedHolds, EscrowHolds, CreatorIsNeutral, PTL

(***************************************************************************)
(* A payout, where nobody owes the market anything.                        *)
(***************************************************************************)

\* Nothing is left in escrow by a closing that finds no debt.
LEMMA ClosingEmpties ==
    ASSUME TypeOK, NobodyOwes, Closings
    PROVE  Total(esc') = 0
<1>1. esc \in [Accounts -> Int] /\ BondAmount \in Nat
  BY AmountsAssumption DEF TypeOK, MoneyType
<1>2. ASSUME NEW u \in Accounts
      PROVE  esc'[u] = 0
  <2>1. esc[u] \in Int /\ esc[u] >= BondLeg(u) /\ BondLeg(u) \in Nat
    BY <1>1 DEF NobodyOwes, BondLeg
  <2>2. CASE VoidAndRefund
    BY <2>1, <2>2 DEF VoidAndRefund, Refund, AtLeastZero
  <2>3. ASSUME NEW w \in Outcomes, Resolve(w)
        PROVE  esc'[u] = 0
    <3>1. esc'[u] = esc[u] - Released(u) - BondLeg(u)
      BY <2>3 DEF Resolve, EscrowAfter
    <3>2. CASE esc[u] <= 0
      BY <2>1, <3>1, <3>2 DEF Released
    <3>3. CASE esc[u] > 0
      BY <2>1, <3>1, <3>3 DEF Released, AtLeastZero
    <3> QED BY <2>1, <3>2, <3>3
  <2> QED BY <2>2, <2>3 DEF Closings
<1>3. DOMAIN esc' = Accounts
  BY <1>1 DEF Closings, VoidAndRefund, Resolve
<1> QED BY <1>2, <1>3 DEF Total

LEMMA PayoutStep ==
    ASSUME TypeOK, RoundsAreShort, FilledIsFull, EscrowBacksPot, NobodyOwes, Next,
           settled = "none", settled' = "paid", syn # "open"
    PROVE  Total(avail') + fees' = Total(avail) + fees + pot + BondInEscrow
<1>1. PICK w \in Outcomes : Resolve(w)
  <2>1. PICK s \in Staff : FinalizePay(s)
    BY OnlyFinalizePays
  <2> QED BY <2>1 DEF FinalizePay
<1>2. Total(esc') = 0 /\ issued' = issued
  BY <1>1, ClosingEmpties DEF Closings, Resolve
<1>3. Total(avail') + 0 + fees' - issued = Total(avail) + Total(esc) + fees - issued
  BY <1>1, <1>2, ResolveConserves DEF Money
<1>4. Total(esc) = pot + BondInEscrow /\ BondInEscrow \in Int /\ pot \in Int
  BY TotalsAreInt, AmountsAssumption DEF EscrowBacksPot, RoundInEscrow, BondInEscrow
<1>5. Total(avail') \in Int /\ fees' \in Int
  <2>1. avail' \in [Accounts -> Int] /\ fees' \in Int
    BY NextType DEF TypeOK, MoneyType
  <2> QED BY <2>1, AccountsFinite, TotalIsSum
<1> QED BY <1>3, <1>4, <1>5, TotalsAreInt

\* A payout is the pot and the held bond, to the last unit, whatever the
\* rates and the rounding: the smallest payout takes up what is left over.
THEOREM PayoutsAreThePot == Spec /\ NoStaleForfeit => PayoutIsThePot
<1>1. /\ TypeOK /\ RoundsAreShort /\ MoneyInv /\ EscrowInv
      /\ [Next]_vars
      => [(settled = "none" /\ settled' = "paid" /\ syn # "open" /\ NobodyOwes) =>
            Total(avail') + fees' = Total(avail) + fees + pot + BondInEscrow]_vars
  BY PayoutStep DEF MoneyInv, EscrowInv
<1> QED BY <1>1, TypeCorrect, ClosedHolds, MoneyHolds, EscrowHolds, PTL
        DEF Spec, PayoutIsThePot

LEMMA NothingStale ==
    ASSUME Approvers = {} PROVE Spec => NoStaleForfeit
<1>1. [Next]_vars => [\A a \in Approvers : NotStale(a)]_vars
  OBVIOUS
<1> QED BY <1>1, PTL DEF Spec, NoStaleForfeit

\* Where nobody approves forfeits, none is late, and the books agree, backers
\* are safe and payouts are the pot without a condition on the behaviour: what
\* TLC checks of official and community markets.
THEOREM BooksWithoutForfeits ==
    ASSUME Approvers = {}
    PROVE  Spec => []BooksAgree /\ []FairToBackers /\ PayoutIsThePot
BY NothingStale, BooksAlwaysAgree, BackersAreSafe, PayoutsAreThePot

(***************************************************************************)
(* Trades are made by those who may make them.                             *)
(***************************************************************************)
TradesByRole ==
    \A t \in trades : /\ t[2] = "buy" => t[1] \in Traders
                      /\ t[2] = "sell" => t[1] \in Exiters

LEMMA SeedTrades ==
    ASSUME NEW k, NEW given, ApplySeed(k, given)
    PROVE  trades' \ trades \subseteq Accounts \X {"seed"} \X Outcomes
BY DEF ApplySeed

LEMMA TradeStep ==
    ASSUME RoundsAreShort, Next
    PROVE  \/ trades' \ trades \subseteq Accounts \X {"seed"} \X Outcomes
           \/ /\ ~started
              /\ \/ \E u \in Traders, o \in Outcomes : trades' = trades \cup {<<u, "buy", o>>}
                 \/ \E u \in Exiters, o \in Outcomes : trades' = trades \cup {<<u, "sell", o>>}
<1>1. CASE Quiet \/ OpenSeedingRound \/ Closings
  BY <1>1 DEF Quiet, OpenSeedingRound, Closings, VoidAndRefund, Resolve, bookVars
<1>2. CASE Deposits
  <2>1. ASSUME NEW u \in People, NEW o \in Outcomes, NEW s \in 1 .. MaxShares, Buy(u, o, s)
        PROVE  /\ ~started /\ u \in Traders
               /\ trades' = trades \cup {<<u, "buy", o>>}
    BY <2>1 DEF Buy, TradingOpen, MayBuy, Record
  <2> QED BY <1>2, <2>1, SeedTrades
       DEF Deposits, CreateCommunity, SeedSolo, SeedOfficial, Contribute, Fill, bookVars
<1>3. CASE Departures
  <2>1. ASSUME NEW u \in Exiters, NEW o \in Outcomes, NEW s \in 1 .. MaxShares, Sell(u, o, s)
        PROVE  ~started /\ trades' = trades \cup {<<u, "sell", o>>}
    BY <2>1 DEF Sell, TradingOpen, Record
  <2> QED BY <1>3, <2>1 DEF Departures, ForfeitCommit, bookVars
<1> QED BY <1>1, <1>2, <1>3, StepKinds

LEMMA RoleStep ==
    ASSUME RoundsAreShort, TradesByRole, Next
    PROVE  TradesByRole'
<1>1. CASE trades' \ trades \subseteq Accounts \X {"seed"} \X Outcomes
  BY <1>1 DEF TradesByRole
<1>2. ASSUME NEW u \in Traders, NEW o \in Outcomes, trades' = trades \cup {<<u, "buy", o>>}
      PROVE  TradesByRole'
  BY <1>2 DEF TradesByRole
<1>3. ASSUME NEW u \in Exiters, NEW o \in Outcomes, trades' = trades \cup {<<u, "sell", o>>}
      PROVE  TradesByRole'
  BY <1>3 DEF TradesByRole
<1> QED BY <1>1, <1>2, <1>3, TradeStep

LEMMA RolesHold == Spec => []TradesByRole
<1>1. Init => TradesByRole
  BY DEF Init, TradesByRole
<1>2. RoundsAreShort /\ TradesByRole /\ [Next]_vars => TradesByRole'
  <2>1. UNCHANGED vars /\ TradesByRole => TradesByRole'
    BY DEF vars, bookVars, TradesByRole
  <2> QED BY <2>1, RoleStep
<1> QED BY <1>1, <1>2, ClosedHolds, PTL DEF Spec

\* A window that ends without a refund was confirmed by its crowd.
LEMMA ConfirmedByCrowd ==
    ASSUME RoundsAreShort, TradesByRole, Next,
           state = "active", path = "seeded", window, state' = "active", ~window'
    PROVE  Cardinality({u \in Traders : \E o \in Outcomes : <<u, "buy", o>> \in trades})
               >= FloorUsers
<1>1. ~VoidAndRefund
  BY DEF VoidAndRefund
<1>2. ~Opening
  BY DEF Opening, CreateCommunity, CreateOfficial
<1>3. ~SeedingStep
  BY DEF SeedingStep, SeedSolo, SeedOfficial, OpenSeedingRound, Contribute, Seedable,
         BeforeOpening
<1>4. ~TradingStep
  BY DEF TradingStep, Buy, Sell, lifeVars
<1>5. ~ResolutionStep
  BY DEF ResolutionStep, Propose, FileDispute, DecideRead, DecideWrite, FinalizeCheck,
         FinalizePay, Resolve, FinalizeFail, FinalizeTidy, lifeVars
<1>6. ~ApprovalStep
  BY <1>1 DEF ApprovalStep, VoidAfterActivation, ForfeitRead, ForfeitCommit, lifeVars
<1>7. CloseParticipationWindow
  <2>1. ~CloseSeedingRound
    BY <1>1 DEF CloseSeedingRound, RoundDue, RoundReached, RoundsAreShort, OpenRoundIsShort
  <2> QED BY <1>2, <1>3, <1>4, <1>5, <1>6, <2>1
       DEF Next, Deadlines, RoundEnds, CloseFundingWindow, FundingDue, EventStarts, SweepRead,
           SweepWrite, DisputeWindowEnds, lifeVars
<1>8. FloorMet
  BY <1>1, <1>7 DEF CloseParticipationWindow
<1>9. DistinctBackers = {u \in Traders : \E o \in Outcomes : <<u, "buy", o>> \in trades}
  <2>1. ASSUME NEW u, NEW o \in Outcomes, <<u, "buy", o>> \in trades
        PROVE  u \in Traders
    <3>1. PICK t \in trades : t = <<u, "buy", o>>
      BY <2>1
    <3> QED BY <3>1 DEF TradesByRole
  <2>2. Traders \subseteq Accounts \ {Creator}
    BY PeopleAssumption DEF Accounts, People
  <2>3. \A u : u \in DistinctBackers <=>
                \E o \in Outcomes : u \in Accounts \ {Creator} /\ <<u, "buy", o>> \in trades
    BY DEF DistinctBackers, Backers
  <2> QED BY <2>1, <2>2, <2>3
<1> QED BY <1>8, <1>9 DEF FloorMet

\* Nobody trades after the event has begun, and a seeded market outlives its
\* window only with a crowd of traders, the creator and the house not among
\* them.
THEOREM ClockRulesHold == Spec => ClockRules
<1>1. RoundsAreShort /\ [Next]_vars
      => [started => trades' \ trades \subseteq Accounts \X {"seed"} \X Outcomes]_vars
  BY TradeStep
<1>2. RoundsAreShort /\ TradesByRole /\ [Next]_vars
      => [(state = "active" /\ path = "seeded" /\ window /\ state' = "active" /\ ~window') =>
            Cardinality({u \in Traders : \E o \in Outcomes : <<u, "buy", o>> \in trades})
                >= FloorUsers]_vars
  BY ConfirmedByCrowd
<1> QED BY <1>1, <1>2, ClosedHolds, RolesHold, PTL
        DEF Spec, ClockRules, BookClosesAtEvent, FloorIsACrowd

(***************************************************************************)
(* The promise: step by step, the market is one deposit, one withdrawal or *)
(* one closing.                                                            *)
(***************************************************************************)
Held == Total(esc)

Free == Total(avail) + fees

\* Nobody stakes what is not in the balance, while there is anything to stake.
Solvent == settled = "none" => fees >= 0 /\ \A u \in Accounts : avail[u] >= 0

\* An exit's fee is a part of the refund.
LEMMA ExitFeeIsPart ==
    ASSUME NEW n \in Nat
    PROVE  ExitFee(n) \in Int /\ ExitFee(n) >= 0 /\ ExitFee(n) <= n
<1>1. PICK b, e : b = BpsBase /\ e = ExitFeeBps
  OBVIOUS
<1>2. b \in Nat \ {0} /\ e \in Nat /\ e <= b
  BY <1>1, RatesAssumption
<1>3. n * e \in Nat /\ n * e <= n * b
  BY <1>2
<1>4. PICK m : m = n * e
  OBVIOUS
<1>5. m \in Nat /\ m <= n * b
  BY <1>3, <1>4
<1>6. m \div b \in Int /\ m \div b >= 0 /\ b * (m \div b) <= m
  BY <1>2, <1>5
<1>7. PICK d : d = m \div b
  OBVIOUS
<1>8. d \in Int /\ b * d <= n * b
  BY <1>2, <1>5, <1>6, <1>7
<1>9. d <= n
  BY <1>2, <1>8, SMT
<1> QED BY <1>1, <1>4, <1>6, <1>7, <1>9 DEF ExitFee

LEMMA SolventStep ==
    ASSUME TypeOK, RoundsAreShort, SettledIsClosed, Solvent, Next
    PROVE  Solvent'
<1>0. /\ avail \in [Accounts -> Int] /\ fees \in Int /\ BondAmount \in Nat
      /\ Creator \in Accounts /\ House \in Accounts /\ \A u \in People : u \in Accounts
  BY AmountsAssumption DEF TypeOK, MoneyType, Accounts, People
<1>1. CASE Quiet \/ OpenSeedingRound
  BY <1>1 DEF Quiet, OpenSeedingRound, moneyVars, Solvent
<1>2. CASE Deposits
  <2>1. ASSUME NEW u \in Accounts, NEW n \in Int, Hold(u, n), UNCHANGED <<fees, settled>>
        PROVE  Solvent'
    <3>1. avail[u] >= n /\ avail' = Add(avail, u, -n)
      BY <2>1 DEF Hold
    <3> QED BY <1>0, <2>1, <3>1 DEF Solvent, Add
  <2>2. ASSUME UNCHANGED <<avail, fees, settled>> PROVE Solvent'
    BY <2>2 DEF Solvent
  <2>3. ASSUME NEW how, CreateCommunity(how)
        PROVE  Solvent'
    <3>1. CASE BondAmount > 0
      BY <1>0, <2>1, <2>3, <3>1 DEF CreateCommunity
    <3>2. CASE ~(BondAmount > 0)
      BY <2>2, <2>3, <3>2 DEF CreateCommunity
    <3> QED BY <3>1, <3>2
  <2>4. ASSUME NEW k \in MinSeed .. MaxSeed, SeedSolo(k)
        PROVE  Solvent'
    <3>1. k * SetPrice \in Int
      BY AmountsAssumption, RatesAssumption
    <3> QED BY <1>0, <2>1, <2>4, <3>1 DEF SeedSolo
  <2>5. ASSUME NEW u \in People, NEW k \in 1 .. MaxSeed, Contribute(u, k)
        PROVE  Solvent'
    <3>1. k * SetPrice \in Int
      BY AmountsAssumption, RatesAssumption
    <3> QED BY <1>0, <2>1, <2>5, <3>1 DEF Contribute
  <2>6. ASSUME NEW u \in People, NEW o \in Outcomes, NEW s \in 1 .. MaxShares, Buy(u, o, s)
        PROVE  Solvent'
    <3>1. u \in Accounts /\ BuyCost(q, o, s) \in Int
      BY <2>6, BuyCostIsInt
    <3> QED BY <2>1, <2>6, <3>1 DEF Buy
  <2> QED BY <1>2, <2>2, <2>3, <2>4, <2>5, <2>6 DEF Deposits, SeedOfficial
<1>3. CASE Departures
  <2>1. ASSUME NEW u \in Exiters, NEW o \in Outcomes, NEW s \in 1 .. MaxShares, Sell(u, o, s)
        PROVE  Solvent'
    <3>1. PICK n, fee : n = SellRefund(q, o, s) /\ fee = ExitFee(n)
      OBVIOUS
    <3>2. u \in Accounts /\ n \in Nat
      BY <2>1, <3>1, RefundIsInt DEF Sell
    <3>3. fee \in Int /\ fee >= 0 /\ fee <= n
      BY <3>1, <3>2, ExitFeeIsPart
    <3>4. avail' = Add(avail, u, n - fee) /\ fees' = fees + fee /\ settled' = settled
      BY <2>1, <3>1 DEF Sell, SellLegs
    <3> QED BY <1>0, <3>2, <3>3, <3>4 DEF Solvent, Add
  <2>2. ASSUME NEW a \in Approvers, ForfeitCommit(a)
        PROVE  Solvent'
    BY <1>0, <2>2 DEF ForfeitCommit, ForfeitLegs, Solvent
  <2> QED BY <1>3, <2>1, <2>2 DEF Departures
<1>4. CASE Closings
  <2>1. settled' # "none"
    BY <1>4, SettleMarks DEF Closings, VoidAndRefund, Resolve
  <2> QED BY <2>1 DEF Solvent
<1> QED BY <1>1, <1>2, <1>3, <1>4, StepKinds

\* What is free is at least nothing while the market is open.
LEMMA FreeIsNat ==
    ASSUME NEW a \in [Accounts -> Int], NEW f \in Int, f >= 0, \A u \in Accounts : a[u] >= 0
    PROVE  Total(a) + f \in Int /\ Total(a) + f >= 0
<1>1. Total(a) \in Int /\ Total(a) >= 0
  BY AccountsFinite, TotalIsSum, TotalNatural
<1> QED BY <1>1

PromiseKept == [Promise!Deposit \/ Promise!Withdraw \/ Promise!Close]_(Promise!promise)

LEMMA PromiseStep ==
    ASSUME TypeOK, TypeOK', RoundsAreShort, SettledIsClosed, FilledIsFull,
           Solvent, Solvent', Next,
           \A a \in Approvers : NotStale(a),
           settled = "none" => NobodyOwes,
           settled' = "none" => NobodyOwes'
    PROVE  PromiseKept
<1>0. /\ MoneyType
      /\ Creator \in Accounts /\ House \in Accounts /\ \A u \in People : u \in Accounts
      /\ Total(esc) \in Int /\ Total(avail) \in Int /\ fees \in Int /\ BondAmount \in Nat
      /\ Held = Total(esc) /\ Free = Total(avail) + fees
      /\ Held' = Total(esc') /\ Free' = Total(avail') + fees'
  BY TotalsAreInt, AmountsAssumption DEF TypeOK, Accounts, People, Held, Free
<1>1. ASSUME UNCHANGED <<settled, Held, Free>> PROVE PromiseKept
  BY <1>1 DEF PromiseKept, Promise!promise, Held, Free
<1>2. ASSUME settled = "none", settled' = "none", Held' > Held,
             Free' \in {Free, Free - (Held' - Held)}, Free' >= 0
      PROVE  PromiseKept
  BY <1>2 DEF PromiseKept, Promise!Deposit, Held, Free
<1>3. ASSUME settled = "none", settled' = "none", Held' >= 0, Held' < Held,
             Free' = Free + (Held - Held')
      PROVE  PromiseKept
  BY <1>3 DEF PromiseKept, Promise!Withdraw, Held, Free
<1>4. ASSUME settled = "none", settled' \in {"paid", "refunded"}, Held' = 0,
             Free' = Free + Held
      PROVE  PromiseKept
  BY <1>4 DEF PromiseKept, Promise!Close, Held, Free
<1>5. ASSUME settled' = "none"
      PROVE  /\ Held' \in Int /\ Held' >= 0 /\ Free' \in Int /\ Free' >= 0
  <2>1. \A u \in Accounts : BondLeg(u)' >= 0
    BY <1>0 DEF BondLeg
  <2>2. /\ avail' \in [Accounts -> Int] /\ fees' \in Int /\ fees' >= 0
        /\ \A u \in Accounts : avail'[u] >= 0
    BY <1>5 DEF TypeOK, MoneyType, Solvent
  <2>3. esc' \in [Accounts -> Int] /\ \A u \in Accounts : esc'[u] >= 0
    BY <1>5, <2>1, <1>0 DEF TypeOK, MoneyType, NobodyOwes, BondLeg
  <2>4. Total(esc') \in Int /\ Total(esc') >= 0
    BY <2>3, AccountsFinite, TotalIsSum, TotalNatural
  <2> QED BY <1>0, <2>2, <2>4, FreeIsNat
<1>6. CASE Quiet \/ OpenSeedingRound
  BY <1>1, <1>6 DEF Quiet, OpenSeedingRound, moneyVars, Held, Free
<1>7. CASE Deposits
  <2>1. settled = "none" /\ settled' = "none"
    BY <1>7, OpenIsUnsettled DEF Deposits, Opening, SeedingStep, TradingStep
  <2>2. ASSUME NEW u \in Accounts, NEW n \in Int, Hold(u, n), UNCHANGED fees
        PROVE  PromiseKept
    <3>1. n > 0 /\ Total(avail') = Total(avail) + (-n) /\ Total(esc') = Total(esc) + n
      BY <1>0, <2>2, HoldMoves DEF Hold
    <3>2. Held' > Held /\ Free' = Free - (Held' - Held)
      BY <1>0, <2>2, <3>1
    <3> QED BY <1>2, <1>5, <2>1, <3>2
  <2>3. ASSUME NEW how, CreateCommunity(how)
        PROVE  PromiseKept
    <3>1. CASE BondAmount > 0
      BY <1>0, <2>2, <2>3, <3>1 DEF CreateCommunity
    <3>2. CASE ~(BondAmount > 0)
      BY <1>1, <2>3, <3>2 DEF CreateCommunity, Held, Free
    <3> QED BY <3>1, <3>2
  <2>4. ASSUME NEW k \in MinSeed .. MaxSeed, SeedSolo(k)
        PROVE  PromiseKept
    <3>1. k * SetPrice \in Int
      BY AmountsAssumption, RatesAssumption
    <3> QED BY <1>0, <2>2, <2>4, <3>1 DEF SeedSolo
  <2>5. ASSUME NEW k \in 1 .. MaxSeed, SeedOfficial(k)
        PROVE  PromiseKept
    <3>1. PICK n : n = k * SetPrice
      OBVIOUS
    <3>2. n \in Int /\ n > 0
      <4>1. k \in Nat \ {0} /\ SetPrice \in Nat \ {0}
        BY AmountsAssumption, RatesAssumption
      <4> QED BY <3>1, <4>1
    <3>3. esc' = Add(esc, House, n) /\ UNCHANGED <<avail, fees>>
      BY <2>5, <3>1 DEF SeedOfficial
    <3>4. Total(esc') = Total(esc) + n
      BY <1>0, <3>2, <3>3, AccountsFinite, TotalAdd DEF MoneyType
    <3>5. Held' > Held /\ Free' = Free
      BY <1>0, <3>2, <3>3, <3>4
    <3> QED BY <1>2, <1>5, <2>1, <3>5
  <2>6. ASSUME NEW u \in People, NEW k \in 1 .. MaxSeed, Contribute(u, k)
        PROVE  PromiseKept
    <3>1. k * SetPrice \in Int
      BY AmountsAssumption, RatesAssumption
    <3> QED BY <1>0, <2>2, <2>6, <3>1 DEF Contribute
  <2>7. ASSUME NEW u \in People, NEW o \in Outcomes, NEW s \in 1 .. MaxShares, Buy(u, o, s)
        PROVE  PromiseKept
    <3>1. u \in Accounts /\ BuyCost(q, o, s) \in Int
      BY <2>7, BuyCostIsInt
    <3> QED BY <2>2, <2>7, <3>1 DEF Buy
  <2> QED BY <1>7, <2>3, <2>4, <2>5, <2>6, <2>7 DEF Deposits
<1>8. CASE Departures
  <2>1. ASSUME NEW u \in Exiters, NEW o \in Outcomes, NEW s \in 1 .. MaxShares, Sell(u, o, s)
        PROVE  PromiseKept
    <3>1. settled = "none" /\ settled' = "none"
      BY <2>1, OpenIsUnsettled DEF TradingStep
    <3>2. UNCHANGED Money /\ issued' = issued
      BY <2>1, SellConserves DEF Sell
    <3>3. PICK n : n = SellRefund(q, o, s)
      OBVIOUS
    <3>4. u \in Accounts /\ n \in Int /\ n > 0 /\ -n \in Int /\ esc' = Add(esc, u, -n)
      BY <2>1, <3>3, RefundIsInt DEF Sell, SellLegs
    <3>5. Total(esc') = Total(esc) + (-n)
      BY <1>0, <3>4, AccountsFinite, TotalAdd DEF MoneyType
    <3>6. Held' < Held
      BY <1>0, <3>4, <3>5
    <3>7. Free' = Free + (Held - Held')
      <4>1. Free' + Held' - issued = Free + Held - issued
        <5>1. Total(avail') \in Int /\ fees' \in Int /\ Total(esc') \in Int
          BY AccountsFinite, TotalIsSum DEF TypeOK, MoneyType
        <5> QED BY <1>0, <3>2, <5>1, TotalsAreInt DEF Money
      <4> QED BY <1>0, <1>5, <3>1, <4>1, TotalsAreInt
    <3> QED BY <1>3, <1>5, <3>1, <3>6, <3>7
  <2>2. ASSUME NEW a \in Approvers, ForfeitCommit(a)
        PROVE  PromiseKept
    <3>1. settled = "none" /\ settled' = "none"
      BY <2>2 DEF NotStale, SettledIsClosed, ForfeitCommit
    <3>2. fees' = fees + BondAmount /\ UNCHANGED avail /\ -BondAmount \in Int
      BY <1>0, <2>2 DEF ForfeitCommit, ForfeitLegs
    <3>3. Total(esc') = Total(esc) + (-BondAmount)
      BY <1>0, <2>2, <3>2, AccountsFinite, TotalAdd DEF ForfeitCommit, ForfeitLegs, MoneyType
    <3>4. Free' = Free + (Held - Held') /\ (BondAmount > 0 => Held' < Held)
          /\ (BondAmount = 0 => Held' = Held /\ Free' = Free)
      BY <1>0, <3>2, <3>3
    <3>5. CASE BondAmount = 0
      BY <1>1, <3>1, <3>4, <3>5
    <3>6. CASE BondAmount > 0
      BY <1>3, <1>5, <3>1, <3>4, <3>6
    <3> QED BY <1>0, <3>5, <3>6
  <2> QED BY <1>8, <2>1, <2>2 DEF Departures
<1>9. CASE Closings
  <2>1. CASE settled = "none"
    <3>1. settled' \in {"paid", "refunded"}
      BY <1>9, <2>1 DEF Closings, VoidAndRefund, Resolve, Settle
    <3>2. Held' = 0
      BY <1>0, <1>9, <2>1, ClosingEmpties
    <3>3. UNCHANGED Money /\ issued' = issued
      BY <1>9, VoidConserves, ResolveConserves DEF Closings, VoidAndRefund, Resolve
    <3>4. Free' = Free + Held
      <4>1. Total(avail') \in Int /\ fees' \in Int
        BY AccountsFinite, TotalIsSum DEF TypeOK, MoneyType
      <4>2. Free' + Held' - issued = Free + Held - issued
        <5>1. Total(esc') \in Int
          BY AccountsFinite, TotalIsSum DEF TypeOK, MoneyType
        <5> QED BY <1>0, <3>3, <4>1, <5>1, TotalsAreInt DEF Money
      <4>3. Free \in Int /\ Free' \in Int /\ Held \in Int /\ issued \in Int
        BY <1>0, <4>1, TotalsAreInt
      <4>4. PICK f, g, h, i : f = Free' /\ g = Free /\ h = Held /\ i = issued
        OBVIOUS
      <4>5. f \in Int /\ g \in Int /\ h \in Int /\ i \in Int /\ f + 0 - i = g + h - i
        BY <3>2, <4>2, <4>3, <4>4
      <4>6. f = g + h
        BY <4>5
      <4> QED BY <4>4, <4>6
    <3> QED BY <1>4, <2>1, <3>1, <3>2, <3>4
  <2>2. CASE settled # "none"
    <3>1. VoidAndRefund
      BY <1>9, <2>2, PaidOnce DEF Closings
    <3>2. UNCHANGED <<settled, fees, avail>>
      BY <2>2, <3>1, VoidMovesNothing DEF VoidAndRefund, Settle
    <3>3. esc' = esc
      <4>1. \A u \in Accounts : esc[u] \in Int /\ esc[u] - Refund(u) = esc[u]
        BY <2>2 DEF SettledIsClosed, Refund, AtLeastZero, TypeOK, MoneyType
      <4> QED BY <3>1, <4>1 DEF VoidAndRefund, TypeOK, MoneyType
    <3> QED BY <1>1, <3>2, <3>3 DEF Held, Free
  <2> QED BY <2>1, <2>2
<1> QED BY <1>6, <1>7, <1>8, <1>9, StepKinds

LEMMA SolventHolds == Spec => []Solvent
<1>1. Init => Solvent
  BY AmountsAssumption DEF Init, Solvent
<1>2. TypeOK /\ RoundsAreShort /\ SettledIsClosed /\ Solvent /\ [Next]_vars => Solvent'
  <2>1. UNCHANGED vars /\ Solvent => Solvent'
    BY DEF vars, moneyVars, Solvent
  <2> QED BY <2>1, SolventStep
<1> QED BY <1>1, <1>2, TypeCorrect, ClosedHolds, PTL DEF Spec

LEMMA PromiseStarts == Init => Promise!PromiseInit
<1> SUFFICES ASSUME Init PROVE Promise!PromiseInit
  OBVIOUS
<1>1. Total(esc) = 0
  <2>1. PICK z : z = [u \in Accounts |-> 0]
    OBVIOUS
  <2>2. Total(z) = 0
    BY <2>1 DEF Total
  <2> QED BY <2>1, <2>2 DEF Init
<1>2. Total(avail) + fees \in Nat
  BY EndowmentIsNat DEF Init
<1> QED BY <1>1, <1>2 DEF Init, Promise!PromiseInit

\* While nobody's exits have eaten into another's escrow, whatever the services do to
\* one another is, for the money, a deposit, a withdrawal, one closing or
\* nothing: settled once, emptied by it, untouched afterwards.
THEOREM PromiseIsKept ==
    Spec /\ NoStaleForfeit /\ [](settled = "none" => NobodyOwes) => KeepsThePromise
<1>1. /\ TypeOK /\ RoundsAreShort /\ SettledIsClosed /\ MoneyInv /\ Solvent
      /\ (settled = "none" => NobodyOwes)
      /\ TypeOK' /\ Solvent' /\ (settled = "none" => NobodyOwes)'
      /\ [Next]_vars /\ [\A a \in Approvers : NotStale(a)]_vars
      => PromiseKept
  <2>1. UNCHANGED vars => PromiseKept
    BY DEF vars, moneyVars, PromiseKept, Promise!promise
  <2> QED BY <2>1, PromiseStep DEF MoneyInv
<1> QED BY <1>1, PromiseStarts, TypeCorrect, ClosedHolds, MoneyHolds, SolventHolds, PTL
        DEF Spec, NoStaleForfeit, KeepsThePromise, Promise!PromiseSpec, PromiseKept

\* Where nobody exits, nobody owes: the promise is kept by every market that
\* trades one way, without a condition on its books.
THEOREM PromiseIsKeptWithoutExits ==
    ASSUME Exiters = {}
    PROVE  Spec /\ NoStaleForfeit => KeepsThePromise
<1>1. TypeOK /\ TradesByRole /\ EscrowInv => (settled = "none" => NobodyOwes)
  <2> SUFFICES ASSUME TypeOK, TradesByRole, EscrowInv, NEW u \in Accounts
               PROVE  esc[u] >= BondLeg(u)
    BY DEF NobodyOwes
  <2>1. ~Exited(u)
    BY DEF TradesByRole, Exited
  <2>2. esc[u] \in Int /\ esc[u] >= BondOf(u) /\ BondAmount \in Nat
    BY <2>1, AmountsAssumption DEF EscrowInv, NoDebts, TypeOK, MoneyType
  <2> QED BY <2>2 DEF BondOf, BondLeg
<1> QED BY <1>1, TypeCorrect, RolesHold, EscrowHolds, PromiseIsKept, PTL
=============================================================================
