------------------------------ MODULE SumLemmas ------------------------------
(***************************************************************************)
(* What a sum over a finite set does, for the proofs about money.  The      *)
(* community modules define a sum by a recursive function over the subsets  *)
(* of its index set; the induction those facts need is made here on SETS of *)
(* numbers and of index sets (a set that holds 0 and the successor of each  *)
(* of its members is Nat), which needs no operator as a parameter.          *)
(***************************************************************************)
EXTENDS Integers, FiniteSets, Functions, FiniteSetTheorems,
        WellFoundedInduction, TLAPS

Pick(s) == CHOOSE y \in s : TRUE

\* The recursive function that SumFunctionOnSet(f, S) applies to S
PartialSum(f, S) ==
    CHOOSE it : it = [s \in SUBSET S |->
        IF s = {} THEN 0 ELSE f[Pick(s)] + it[s \ {Pick(s)}]]

\* The same, defined only up to n elements: what the existence proof builds
SmallSets(S, n) == {s \in SUBSET S : Cardinality(s) <= n}

IsPartialSum(f, S, n, g) ==
    g = [s \in SmallSets(S, n) |->
            IF s = {} THEN 0 ELSE f[Pick(s)] + g[s \ {Pick(s)}]]

SolvesSum(f, S, h) ==
    h = [s \in SUBSET S |-> IF s = {} THEN 0 ELSE f[Pick(s)] + h[s \ {Pick(s)}]]

LEMMA PickIn == ASSUME NEW s, s # {} PROVE Pick(s) \in s
BY DEF Pick

LEMMA SumIsPartialSum ==
    ASSUME NEW f, NEW S PROVE SumFunctionOnSet(f, S) = PartialSum(f, S)[S]
BY DEF SumFunctionOnSet, FoldFunctionOnSet, MapThenFoldSet, PartialSum, Pick

\* Induction over the natural numbers, on a set of them.
LEMMA NatSetInduction ==
    ASSUME NEW T, 0 \in T, \A n \in Nat : n \in T => n + 1 \in T
    PROVE  Nat \subseteq T
<1> DEFINE Bad == Nat \ T
<1>1. SUFFICES ASSUME Bad # {} PROVE FALSE
  OBVIOUS
<1>2. PICK m \in Bad : \A k \in Bad : <<k, m>> \notin OpToRel(<, Nat)
  <2>1. Bad \subseteq Nat
    OBVIOUS
  <2> QED BY <1>1, <2>1, NatLessThanWellFounded, WFMin
<1>3. m \in Nat /\ m # 0 /\ m \notin T
  OBVIOUS
<1>4. m - 1 \in Nat /\ (m - 1) + 1 = m
  BY <1>3
<1>5. m - 1 \in Bad
  BY <1>3, <1>4
<1>6. <<m - 1, m>> \in OpToRel(<, Nat)
  BY <1>3, <1>4 DEF OpToRel
<1> QED BY <1>2, <1>5, <1>6

LEMMA SmallerByOne ==
    ASSUME NEW S, IsFiniteSet(S), NEW s \in SUBSET S, NEW x \in s
    PROVE  /\ IsFiniteSet(s) /\ s \ {x} \in SUBSET S /\ IsFiniteSet(s \ {x})
           /\ Cardinality(s) \in Nat /\ Cardinality(s \ {x}) = Cardinality(s) - 1
           /\ Cardinality(s) > 0 /\ Cardinality(s \ {x}) \in Nat
<1>1. IsFiniteSet(s)
  BY FS_Subset
<1>2. IsFiniteSet(s \ {x}) /\ Cardinality(s \ {x}) = Cardinality(s) - 1
  BY <1>1, FS_RemoveElement
<1>3. Cardinality(s) \in Nat /\ Cardinality(s \ {x}) \in Nat
  BY <1>1, <1>2, FS_CardinalityType
<1> QED BY <1>1, <1>2, <1>3

\* The recursion has a solution at every size.
LEMMA PartialSumsExist ==
    ASSUME NEW f, NEW S, IsFiniteSet(S)
    PROVE  \A n \in Nat : \E g : IsPartialSum(f, S, n, g)
<1> DEFINE T == {n \in Nat : \E g : IsPartialSum(f, S, n, g)}
<1>1. 0 \in T
  <2> DEFINE z == [s \in SmallSets(S, 0) |-> 0]
  <2>1. \A s \in SmallSets(S, 0) : s = {}
    BY FS_Subset, FS_EmptySet, FS_CardinalityType DEF SmallSets
  <2>2. z = [s \in SmallSets(S, 0) |->
               IF s = {} THEN 0 ELSE f[Pick(s)] + z[s \ {Pick(s)}]]
    BY <2>1
  <2>3. IsPartialSum(f, S, 0, z)
    BY <2>2 DEF IsPartialSum
  <2> QED BY <2>3
<1>2. ASSUME NEW n \in Nat, n \in T PROVE n + 1 \in T
  <2>1. PICK g : IsPartialSum(f, S, n, g)
    BY <1>2
  <2> DEFINE h == [s \in SmallSets(S, n + 1) |->
                     IF s = {} THEN 0 ELSE f[Pick(s)] + g[s \ {Pick(s)}]]
  <2>2. ASSUME NEW s \in SmallSets(S, n + 1), s # {}
        PROVE  /\ s \ {Pick(s)} \in SmallSets(S, n)
               /\ s \ {Pick(s)} \in SmallSets(S, n + 1)
    <3>1. s \in SUBSET S /\ Cardinality(s) <= n + 1 /\ Pick(s) \in s
      BY <2>2, PickIn DEF SmallSets
    <3>2. /\ s \ {Pick(s)} \in SUBSET S /\ Cardinality(s) \in Nat
          /\ Cardinality(s \ {Pick(s)}) = Cardinality(s) - 1
      BY <3>1, SmallerByOne
    <3> QED BY <3>1, <3>2 DEF SmallSets
  <2>3. ASSUME NEW t \in SmallSets(S, n) PROVE t \in SmallSets(S, n + 1) /\ h[t] = g[t]
    <3>1. t \in SUBSET S /\ IsFiniteSet(t) /\ Cardinality(t) \in Nat /\ Cardinality(t) <= n
      BY FS_Subset, FS_CardinalityType DEF SmallSets
    <3>2. t \in SmallSets(S, n + 1)
      BY <3>1 DEF SmallSets
    <3>3. g[t] = IF t = {} THEN 0 ELSE f[Pick(t)] + g[t \ {Pick(t)}]
      BY <2>1 DEF IsPartialSum
    <3> QED BY <3>2, <3>3
  <2>4. h = [s \in SmallSets(S, n + 1) |->
               IF s = {} THEN 0 ELSE f[Pick(s)] + h[s \ {Pick(s)}]]
    BY <2>2, <2>3
  <2>5. IsPartialSum(f, S, n + 1, h)
    BY <2>4 DEF IsPartialSum
  <2> QED BY <2>5
<1>3. Nat \subseteq T
  <2> HIDE DEF T
  <2> QED BY <1>1, <1>2, NatSetInduction
<1> QED BY <1>3

\* So the recursive function is one: its defining equation holds.
LEMMA PartialSumEquation ==
    ASSUME NEW f, NEW S, IsFiniteSet(S)
    PROVE  SolvesSum(f, S, PartialSum(f, S))
<1>1. Cardinality(S) \in Nat
  BY FS_CardinalityType
<1>2. SmallSets(S, Cardinality(S)) = SUBSET S
  BY FS_Subset DEF SmallSets
<1>3. PICK g : IsPartialSum(f, S, Cardinality(S), g)
  BY <1>1, PartialSumsExist
<1>4. g = [s \in SUBSET S |-> IF s = {} THEN 0 ELSE f[Pick(s)] + g[s \ {Pick(s)}]]
  BY <1>2, <1>3 DEF IsPartialSum
<1> QED BY <1>4 DEF PartialSum, SolvesSum

\* A summand can be taken out in any order.
LEMMA RecursionRemove ==
    ASSUME NEW f, NEW S, IsFiniteSet(S), \A x \in S : f[x] \in Int, NEW h,
           SolvesSum(f, S, h)
    PROVE  \A s \in SUBSET S :
              /\ h[s] \in Int
              /\ \A x \in s : h[s] = f[x] + h[s \ {x}]
<1> DEFINE Good(s) == /\ h[s] \in Int
                      /\ \A x \in s : h[s] = f[x] + h[s \ {x}]
           T == {n \in Nat : \A s \in SmallSets(S, n) : Good(s)}
<1>e. /\ h[{}] = 0
      /\ \A s \in SUBSET S : s # {} => h[s] = f[Pick(s)] + h[s \ {Pick(s)}]
  BY DEF SolvesSum
<1>1. 0 \in T
  <2>1. \A s \in SmallSets(S, 0) : s = {}
    BY FS_Subset, FS_EmptySet, FS_CardinalityType DEF SmallSets
  <2>2. ASSUME NEW s \in SmallSets(S, 0) PROVE Good(s)
    <3>1. s = {} /\ h[s] = 0
      BY <2>1, <1>e
    <3> QED BY <3>1
  <2> QED BY <2>2
<1>2. ASSUME NEW n \in Nat, n \in T PROVE n + 1 \in T
  <2>1. SUFFICES ASSUME NEW s \in SmallSets(S, n + 1) PROVE Good(s)
    OBVIOUS
  <2>2. CASE s = {}
    BY <2>2, <1>e
  <2>3. CASE s # {}
    <3>1. /\ s \in SUBSET S /\ Pick(s) \in s /\ Pick(s) \in S
          /\ \A x \in s : s \ {x} \in SmallSets(S, n)
      <4>1. s \in SUBSET S /\ Cardinality(s) <= n + 1 /\ Pick(s) \in s
        BY <2>3, PickIn DEF SmallSets
      <4>2. ASSUME NEW x \in s PROVE s \ {x} \in SmallSets(S, n)
        <5>1. /\ s \ {x} \in SUBSET S /\ Cardinality(s) \in Nat
              /\ Cardinality(s \ {x}) = Cardinality(s) - 1
          BY <4>1, SmallerByOne
        <5> QED BY <4>1, <5>1 DEF SmallSets
      <4> QED BY <4>1, <4>2
    <3>2. \A x \in s : Good(s \ {x})
      BY <3>1, <1>2
    <3>3. h[s] = f[Pick(s)] + h[s \ {Pick(s)}] /\ h[s] \in Int
      BY <3>1, <3>2, <2>3, <1>e
    <3>4. ASSUME NEW x \in s PROVE h[s] = f[x] + h[s \ {x}]
      <4>1. CASE x = Pick(s)
        BY <4>1, <3>3
      <4>2. CASE x # Pick(s)
        <5>1. x \in s \ {Pick(s)} /\ Pick(s) \in s \ {x}
          BY <4>2, <3>1
        <5>2. h[s \ {Pick(s)}] = f[x] + h[(s \ {Pick(s)}) \ {x}]
          BY <5>1, <3>2, <3>1
        <5>3. h[s \ {x}] = f[Pick(s)] + h[(s \ {x}) \ {Pick(s)}] /\ h[s \ {x}] \in Int
          BY <5>1, <3>2, <3>1
        <5>4. (s \ {x}) \ {Pick(s)} = (s \ {Pick(s)}) \ {x}
          OBVIOUS
        <5>5. f[x] \in Int /\ f[Pick(s)] \in Int /\ h[s \ {Pick(s)}] \in Int
          BY <3>1, <3>2
        <5>6. h[(s \ {x}) \ {Pick(s)}] \in Int
          <6>2. (s \ {x}) \ {Pick(s)} \in SmallSets(S, n)
            <7>1. s \ {x} \in SUBSET S /\ Cardinality(s \ {x}) <= n
              BY <3>1 DEF SmallSets
            <7>2. PICK r, p : r = s \ {x} /\ p = Pick(s)
              OBVIOUS
            <7>3. /\ r \ {p} \in SUBSET S /\ Cardinality(r) \in Nat
                  /\ Cardinality(r \ {p}) = Cardinality(r) - 1
              <8>1. r \in SUBSET S /\ p \in r
                BY <7>1, <7>2, <5>1
              <8> QED BY <8>1, SmallerByOne
            <7>4. r \ {p} \in SmallSets(S, n)
              BY <7>1, <7>2, <7>3 DEF SmallSets
            <7> QED BY <7>2, <7>4
          <6> QED BY <6>2, <1>2
        <5>7. PICK hs, hp, hx, hpx, fx, fp :
                 /\ hs = h[s] /\ hp = h[s \ {Pick(s)}] /\ hx = h[s \ {x}]
                 /\ hpx = h[(s \ {Pick(s)}) \ {x}] /\ fx = f[x] /\ fp = f[Pick(s)]
          OBVIOUS
        <5>8. hs = fp + hp /\ hp = fx + hpx /\ hx = fp + hpx
          BY <5>2, <5>3, <5>4, <5>7, <3>3
        <5>9. fx \in Int /\ fp \in Int /\ hpx \in Int
          BY <5>4, <5>5, <5>6, <5>7
        <5>10. hs = fx + hx
          BY <5>8, <5>9
        <5> QED BY <5>7, <5>10
      <4> QED BY <4>1, <4>2
    <3> QED BY <3>3, <3>4
  <2> QED BY <2>2, <2>3
<1>3. Nat \subseteq T
  <2> HIDE DEF T
  <2> QED BY <1>1, <1>2, NatSetInduction
<1>4. ASSUME NEW s \in SUBSET S PROVE Good(s)
  <2>1. Cardinality(S) \in Nat /\ s \in SmallSets(S, Cardinality(S))
    BY FS_Subset, FS_CardinalityType DEF SmallSets
  <2> QED BY <2>1, <1>3
<1> QED BY <1>4

\* Induction over the finite subsets of a set, on a set of them.
LEMMA SubsetInduction ==
    ASSUME NEW S, IsFiniteSet(S), NEW C, {} \in C,
           \A s \in SUBSET S : \A x \in S \ s : s \in C => s \cup {x} \in C
    PROVE  SUBSET S \subseteq C
<1> DEFINE T == {n \in Nat : SmallSets(S, n) \subseteq C}
<1>1. 0 \in T
  <2>1. \A s \in SmallSets(S, 0) : s = {}
    BY FS_Subset, FS_EmptySet, FS_CardinalityType DEF SmallSets
  <2> QED BY <2>1
<1>2. ASSUME NEW n \in Nat, n \in T PROVE n + 1 \in T
  <2>1. SUFFICES ASSUME NEW s \in SmallSets(S, n + 1), s # {} PROVE s \in C
    OBVIOUS
  <2>2. PICK x : x \in s
    BY <2>1
  <2>3. s \in SUBSET S /\ Cardinality(s) <= n + 1
    BY DEF SmallSets
  <2>4. PICK r : r = s \ {x}
    OBVIOUS
  <2>5. /\ r \in SUBSET S /\ Cardinality(s) \in Nat
        /\ Cardinality(r) = Cardinality(s) - 1
    BY <2>2, <2>3, <2>4, SmallerByOne
  <2>6. r \in C
    <3>1. r \in SmallSets(S, n)
      BY <2>3, <2>5 DEF SmallSets
    <3> QED BY <3>1, <1>2
  <2>7. x \in S \ r /\ s = r \cup {x}
    BY <2>2, <2>3, <2>4
  <2> QED BY <2>5, <2>6, <2>7
<1>3. Nat \subseteq T
  <2> HIDE DEF T
  <2> QED BY <1>1, <1>2, NatSetInduction
<1>4. Cardinality(S) \in Nat /\ SUBSET S = SmallSets(S, Cardinality(S))
  BY FS_Subset, FS_CardinalityType DEF SmallSets
<1> QED BY <1>3, <1>4

LEMMA RecursionRemoveAt ==
    ASSUME NEW f, NEW S, IsFiniteSet(S), \A x \in S : f[x] \in Int, NEW h,
           SolvesSum(f, S, h), NEW s \in SUBSET S, NEW x \in s
    PROVE  h[s] = f[x] + h[s \ {x}]
<1>1. \A q \in SUBSET S :
         /\ h[q] \in Int
         /\ \A y \in q : h[q] = f[y] + h[q \ {y}]
  BY RecursionRemove
<1> QED BY <1>1

LEMMA SolutionsAgree ==
    ASSUME NEW f, NEW S, IsFiniteSet(S), \A x \in S : f[x] \in Int,
           NEW h, SolvesSum(f, S, h),
           NEW U \in SUBSET S, NEW g, SolvesSum(f, U, g)
    PROVE  \A s \in SUBSET U : g[s] = h[s]
<1> DEFINE C == {s \in SUBSET U : g[s] = h[s]}
<1>1. {} \in C
  BY DEF SolvesSum
<1>2. IsFiniteSet(U) /\ \A x \in U : f[x] \in Int
  BY FS_Subset
<1>h. \A r \in SUBSET S : h[r] \in Int /\ \A y \in r : h[r] = f[y] + h[r \ {y}]
  <2>1. IsFiniteSet(S) /\ (\A y \in S : f[y] \in Int) /\ SolvesSum(f, S, h)
    OBVIOUS
  <2> QED BY ONLY <2>1, RecursionRemove
<1>3. ASSUME NEW s \in SUBSET U, NEW x \in U \ s, s \in C PROVE s \cup {x} \in C
  <2>1. PICK t : t = s \cup {x}
    OBVIOUS
  <2>2. t \in SUBSET U /\ t \in SUBSET S /\ x \in t /\ t \ {x} = s
    BY <2>1
  <2>3. g[t] = f[x] + g[s]
    BY <1>2, <2>2, RecursionRemove
  <2>4. h[t] = f[x] + h[s]
    <3>1. h[t] = f[x] + h[t \ {x}]
      BY <1>h, <2>2
    <3> QED BY <3>1, <2>2
  <2>5. g[t] = h[t]
    BY <1>3, <2>3, <2>4
  <2> QED BY <2>1, <2>2, <2>5
<1>4. SUBSET U \subseteq C
  <2> HIDE DEF C
  <2> QED BY <1>1, <1>2, <1>3, SubsetInduction
<1> QED BY <1>4

(***************************************************************************)
(* The facts about sums that the proofs cite.                              *)
(***************************************************************************)
LEMMA SumOfNothing == ASSUME NEW f PROVE SumFunctionOnSet(f, {}) = 0
<1>1. PICK h, U : h = PartialSum(f, {}) /\ U = {}
  OBVIOUS
<1>2. IsFiniteSet(U) /\ h = PartialSum(f, U)
  BY <1>1, FS_EmptySet
<1>3. SolvesSum(f, U, h) /\ SumFunctionOnSet(f, U) = h[U]
  BY <1>2, PartialSumEquation, SumIsPartialSum
<1>4. h[U] = 0
  BY <1>1, <1>3 DEF SolvesSum
<1> QED BY <1>1, <1>3, <1>4

LEMMA SumRemove ==
    ASSUME NEW f, NEW S, IsFiniteSet(S), \A x \in S : f[x] \in Int
    PROVE  /\ SumFunctionOnSet(f, S) \in Int
           /\ \A x \in S :
                SumFunctionOnSet(f, S) = f[x] + SumFunctionOnSet(f, S \ {x})
<1>1. PICK h : h = PartialSum(f, S)
  OBVIOUS
<1>2. SolvesSum(f, S, h) /\ SumFunctionOnSet(f, S) = h[S]
  BY <1>1, PartialSumEquation, SumIsPartialSum
<1>3. SumFunctionOnSet(f, S) \in Int
  BY <1>2, RecursionRemove
<1>4. ASSUME NEW x \in S
      PROVE  SumFunctionOnSet(f, S) = f[x] + SumFunctionOnSet(f, S \ {x})
  <2>1. PICK U : U = S \ {x}
    OBVIOUS
  <2>2. U \in SUBSET S /\ IsFiniteSet(U)
    BY <2>1, FS_Subset
  <2>3. PICK g : g = PartialSum(f, U)
    OBVIOUS
  <2>4. SolvesSum(f, U, g) /\ SumFunctionOnSet(f, U) = g[U]
    BY <2>2, <2>3, PartialSumEquation, SumIsPartialSum
  <2>5. g[U] = h[U]
    BY <1>2, <2>2, <2>4, SolutionsAgree
  <2>6. h[S] = f[x] + h[S \ {x}]
    BY <1>2, RecursionRemove
  <2> QED BY <1>2, <2>1, <2>4, <2>5, <2>6
<1> QED BY <1>3, <1>4

\* An element is added, provided it is not there.
LEMMA SumAdd ==
    ASSUME NEW f, NEW S, IsFiniteSet(S), \A x \in S : f[x] \in Int,
           NEW s \in SUBSET S, NEW x \in S \ s
    PROVE  /\ SumFunctionOnSet(f, s) \in Int
           /\ SumFunctionOnSet(f, s \cup {x}) = f[x] + SumFunctionOnSet(f, s)
<1>1. PICK t : t = s \cup {x}
  OBVIOUS
<1>2. /\ IsFiniteSet(s) /\ IsFiniteSet(t) /\ x \in t /\ t \ {x} = s
      /\ \A y \in t : f[y] \in Int
      /\ \A y \in s : f[y] \in Int
  BY <1>1, FS_Subset
<1>3. SumFunctionOnSet(f, s) \in Int
  BY <1>2, SumRemove
<1>4. SumFunctionOnSet(f, t) = f[x] + SumFunctionOnSet(f, t \ {x})
  BY <1>2, SumRemove
<1> QED BY <1>1, <1>2, <1>3, <1>4

\* Sums add up term by term; a sum of terms none above another's is not above it.
LEMMA SumAddsUp ==
    ASSUME NEW S, IsFiniteSet(S), NEW f, NEW g, NEW h,
           \A x \in S : f[x] \in Int /\ g[x] \in Int /\ h[x] = f[x] + g[x]
    PROVE  SumFunctionOnSet(h, S) = SumFunctionOnSet(f, S) + SumFunctionOnSet(g, S)
<1> DEFINE C == {s \in SUBSET S : SumFunctionOnSet(h, s) =
                   SumFunctionOnSet(f, s) + SumFunctionOnSet(g, s)}
<1>0. \A x \in S : h[x] \in Int
  OBVIOUS
<1>1. {} \in C
  BY SumOfNothing
<1>2. ASSUME NEW s \in SUBSET S, NEW x \in S \ s, s \in C PROVE s \cup {x} \in C
  <2>1. /\ SumFunctionOnSet(f, s) \in Int
        /\ SumFunctionOnSet(f, s \cup {x}) = f[x] + SumFunctionOnSet(f, s)
    BY SumAdd
  <2>2. /\ SumFunctionOnSet(g, s) \in Int
        /\ SumFunctionOnSet(g, s \cup {x}) = g[x] + SumFunctionOnSet(g, s)
    BY SumAdd
  <2>3. SumFunctionOnSet(h, s \cup {x}) = h[x] + SumFunctionOnSet(h, s)
    BY <1>0, SumAdd
  <2> QED BY <1>2, <2>1, <2>2, <2>3
<1>3. SUBSET S \subseteq C
  <2> HIDE DEF C
  <2> QED BY <1>1, <1>2, SubsetInduction
<1> QED BY <1>3

LEMMA SumMonotonic ==
    ASSUME NEW S, IsFiniteSet(S), NEW f, NEW g,
           \A x \in S : f[x] \in Int /\ g[x] \in Int /\ f[x] <= g[x]
    PROVE  SumFunctionOnSet(f, S) <= SumFunctionOnSet(g, S)
<1> DEFINE C == {s \in SUBSET S : SumFunctionOnSet(f, s) <= SumFunctionOnSet(g, s)}
<1>1. {} \in C
  BY SumOfNothing
<1>2. ASSUME NEW s \in SUBSET S, NEW x \in S \ s, s \in C PROVE s \cup {x} \in C
  <2>1. /\ SumFunctionOnSet(f, s) \in Int
        /\ SumFunctionOnSet(f, s \cup {x}) = f[x] + SumFunctionOnSet(f, s)
    BY SumAdd
  <2>2. /\ SumFunctionOnSet(g, s) \in Int
        /\ SumFunctionOnSet(g, s \cup {x}) = g[x] + SumFunctionOnSet(g, s)
    BY SumAdd
  <2> QED BY <1>2, <2>1, <2>2
<1>3. SUBSET S \subseteq C
  <2> HIDE DEF C
  <2> QED BY <1>1, <1>2, SubsetInduction
<1> QED BY <1>3

LEMMA SumSame ==
    ASSUME NEW S, IsFiniteSet(S), NEW f, NEW g,
           \A x \in S : f[x] \in Int /\ g[x] = f[x]
    PROVE  SumFunctionOnSet(f, S) = SumFunctionOnSet(g, S)
<1>1. SumFunctionOnSet(f, S) <= SumFunctionOnSet(g, S)
  BY SumMonotonic
<1>2. SumFunctionOnSet(g, S) <= SumFunctionOnSet(f, S)
  BY SumMonotonic
<1>3. SumFunctionOnSet(f, S) \in Int /\ SumFunctionOnSet(g, S) \in Int
  BY SumRemove
<1> QED BY <1>1, <1>2, <1>3

\* One term changes, and the sum by as much.
LEMMA SumOneChange ==
    ASSUME NEW S, IsFiniteSet(S), NEW f, NEW g, NEW x \in S, g[x] \in Int,
           \A y \in S : f[y] \in Int /\ (y # x => g[y] = f[y])
    PROVE  SumFunctionOnSet(g, S) = SumFunctionOnSet(f, S) - f[x] + g[x]
<1>1. PICK U : U = S \ {x}
  OBVIOUS
<1>2. IsFiniteSet(U) /\ \A y \in U : f[y] \in Int /\ g[y] = f[y]
  BY <1>1, FS_Subset
<1>3. SumFunctionOnSet(f, U) = SumFunctionOnSet(g, U) /\ SumFunctionOnSet(f, U) \in Int
  BY <1>2, SumSame, SumRemove
<1>4. SumFunctionOnSet(f, S) = f[x] + SumFunctionOnSet(f, S \ {x})
  BY SumRemove
<1>5. \A y \in S : g[y] \in Int
  OBVIOUS
<1>6. SumFunctionOnSet(g, S) = g[x] + SumFunctionOnSet(g, S \ {x})
  BY <1>5, SumRemove
<1> QED BY <1>1, <1>3, <1>4, <1>6

\* Equal terms.
LEMMA SumConstant ==
    ASSUME NEW S, IsFiniteSet(S), NEW f, NEW c \in Int, \A x \in S : f[x] = c
    PROVE  SumFunctionOnSet(f, S) = c * Cardinality(S)
<1> DEFINE C == {s \in SUBSET S : SumFunctionOnSet(f, s) = c * Cardinality(s)}
<1>1. {} \in C
  BY SumOfNothing, FS_EmptySet
<1>2. ASSUME NEW s \in SUBSET S, NEW x \in S \ s, s \in C PROVE s \cup {x} \in C
  <2>1. \A y \in S : f[y] \in Int
    OBVIOUS
  <2>2. SumFunctionOnSet(f, s \cup {x}) = f[x] + SumFunctionOnSet(f, s)
    BY <2>1, SumAdd
  <2>3. IsFiniteSet(s) /\ Cardinality(s) \in Nat
    BY FS_Subset, FS_CardinalityType
  <2>4. Cardinality(s \cup {x}) = Cardinality(s) + 1
    BY <2>3, FS_AddElement
  <2>5. c * (Cardinality(s) + 1) = c + c * Cardinality(s)
    BY <2>3
  <2> QED BY <1>2, <2>2, <2>4, <2>5
<1>3. SUBSET S \subseteq C
  <2> HIDE DEF C
  <2> QED BY <1>1, <1>2, SubsetInduction
<1> QED BY <1>3

\* A sum over a part is one over the whole in which the rest counts nothing.
LEMMA SumMasked ==
    ASSUME NEW S, IsFiniteSet(S), NEW U \in SUBSET S, NEW f, NEW g,
           \A x \in S : f[x] \in Int /\ g[x] = IF x \in U THEN f[x] ELSE 0
    PROVE  SumFunctionOnSet(f, U) = SumFunctionOnSet(g, S)
<1> DEFINE C == {s \in SUBSET S : SumFunctionOnSet(g, s) = SumFunctionOnSet(f, s \cap U)}
<1>1. {} \in C
  <2>1. {} \cap U = {}
    OBVIOUS
  <2> QED BY <2>1, SumOfNothing
<1>2. ASSUME NEW s \in SUBSET S, NEW x \in S \ s, s \in C PROVE s \cup {x} \in C
  <2>1. \A y \in S : g[y] \in Int
    OBVIOUS
  <2>2. SumFunctionOnSet(g, s \cup {x}) = g[x] + SumFunctionOnSet(g, s)
        /\ SumFunctionOnSet(g, s) \in Int
    BY <2>1, SumAdd
  <2>3. PICK r : r = s \cap U
    OBVIOUS
  <2>3a. SumFunctionOnSet(g, s) = SumFunctionOnSet(f, r) /\ s \cup {x} \in SUBSET S
    BY <1>2, <2>3
  <2>4. CASE x \in U
    <3>1. r \in SUBSET S /\ x \in S \ r /\ (s \cup {x}) \cap U = r \cup {x}
      BY <2>3, <2>4
    <3>2. SumFunctionOnSet(f, r \cup {x}) = f[x] + SumFunctionOnSet(f, r)
      BY <3>1, SumAdd
    <3>3. g[x] = f[x]
      BY <2>4
    <3>4. SumFunctionOnSet(g, s \cup {x}) = SumFunctionOnSet(f, r \cup {x})
      BY <2>2, <2>3a, <3>2, <3>3
    <3> QED BY <2>3a, <3>1, <3>4
  <2>5. CASE x \notin U
    <3>1. (s \cup {x}) \cap U = r /\ g[x] = 0
      BY <2>3, <2>5
    <3>2. SumFunctionOnSet(g, s \cup {x}) = SumFunctionOnSet(f, r)
      BY <2>2, <2>3a, <3>1
    <3> QED BY <2>3a, <3>1, <3>2
  <2> QED BY <2>4, <2>5
<1>3. SUBSET S \subseteq C
  <2> HIDE DEF C
  <2> QED BY <1>1, <1>2, SubsetInduction
<1>4. S \cap U = U
  OBVIOUS
<1> QED BY <1>3, <1>4

\* One term alone is the sum.
LEMMA SumAlone ==
    ASSUME NEW S, IsFiniteSet(S), NEW f, NEW x \in S, f[x] \in Int,
           \A y \in S : y # x => f[y] = 0
    PROVE  SumFunctionOnSet(f, S) = f[x]
<1>1. PICK U, z : U = S \ {x} /\ z = 0
  OBVIOUS
<1>2. IsFiniteSet(U) /\ \A y \in U : f[y] = z
  BY <1>1, FS_Subset
<1>3. SumFunctionOnSet(f, U) = z * Cardinality(U) /\ Cardinality(U) \in Nat
  BY <1>1, <1>2, SumConstant, FS_CardinalityType
<1>4. \A y \in S : f[y] \in Int
  OBVIOUS
<1>5. SumFunctionOnSet(f, S) = f[x] + SumFunctionOnSet(f, S \ {x})
  BY <1>4, SumRemove
<1> QED BY <1>1, <1>3, <1>5

\* A table of numbers adds up the same by rows and by columns.
Row(F, s, T) == [t \in T |-> F[s][t]]
RowSums(F, S, T) == [s \in S |-> SumFunctionOnSet(Row(F, s, T), T)]
Column(F, S, t) == [s \in S |-> F[s][t]]
ColumnSums(F, S, T) == [t \in T |-> SumFunctionOnSet(Column(F, S, t), S)]
PartColumnSums(F, S, s, T) == [t \in T |-> SumFunctionOnSet(Column(F, S, t), s)]

LEMMA SumExchanged ==
    ASSUME NEW S, IsFiniteSet(S), NEW T, IsFiniteSet(T), NEW F,
           \A s \in S : \A t \in T : F[s][t] \in Int
    PROVE  SumFunctionOnSet(ColumnSums(F, S, T), T) = SumFunctionOnSet(RowSums(F, S, T), S)
<1>r. \A s \in S : /\ RowSums(F, S, T)[s] = SumFunctionOnSet(Row(F, s, T), T)
                   /\ RowSums(F, S, T)[s] \in Int
                   /\ \A t \in T : Row(F, s, T)[t] = F[s][t]
  <2>1. SUFFICES ASSUME NEW s \in S
                 PROVE  /\ SumFunctionOnSet(Row(F, s, T), T) \in Int
                        /\ \A t \in T : Row(F, s, T)[t] = F[s][t]
    BY DEF RowSums
  <2>2. PICK f : f = Row(F, s, T)
    OBVIOUS
  <2>3. \A t \in T : f[t] \in Int /\ f[t] = F[s][t]
    BY <2>2 DEF Row
  <2>4. SumFunctionOnSet(f, T) \in Int
    BY <2>3, SumRemove
  <2> QED BY <2>2, <2>3, <2>4
<1>c. \A t \in T : \A s \in S : Column(F, S, t)[s] = F[s][t] /\ Column(F, S, t)[s] \in Int
  BY DEF Column
<1> DEFINE C == {s \in SUBSET S : SumFunctionOnSet(PartColumnSums(F, S, s, T), T) =
                                  SumFunctionOnSet(RowSums(F, S, T), s)}
<1>1. {} \in C
  <2>1. PICK f, z : f = PartColumnSums(F, S, {}, T) /\ z = 0
    OBVIOUS
  <2>2. \A t \in T : f[t] = z
    BY <2>1, SumOfNothing DEF PartColumnSums
  <2>3. z \in Int /\ Cardinality(T) \in Nat
    BY <2>1, FS_CardinalityType
  <2>4. SumFunctionOnSet(f, T) = z * Cardinality(T)
    BY <2>2, <2>3, SumConstant
  <2> QED BY <2>1, <2>3, <2>4, SumOfNothing
<1>2. ASSUME NEW s \in SUBSET S, NEW x \in S \ s, s \in C PROVE s \cup {x} \in C
  <2>1. PICK f, g, h, u : /\ f = Row(F, x, T) /\ g = PartColumnSums(F, S, s, T)
                          /\ u = s \cup {x} /\ h = PartColumnSums(F, S, u, T)
    OBVIOUS
  <2>2. \A t \in T : f[t] \in Int /\ g[t] \in Int /\ h[t] = f[t] + g[t]
    <3>1. SUFFICES ASSUME NEW t \in T PROVE f[t] \in Int /\ g[t] \in Int /\ h[t] = f[t] + g[t]
      OBVIOUS
    <3>2. PICK k : k = Column(F, S, t)
      OBVIOUS
    <3>3. \A y \in S : k[y] \in Int /\ k[y] = F[y][t]
      BY <1>c, <3>2
    <3>4. SumFunctionOnSet(k, s) \in Int
          /\ SumFunctionOnSet(k, s \cup {x}) = k[x] + SumFunctionOnSet(k, s)
      BY <3>3, SumAdd
    <3>5. g[t] = SumFunctionOnSet(k, s) /\ h[t] = SumFunctionOnSet(k, u)
      BY <2>1, <3>2 DEF PartColumnSums
    <3>6. f[t] = F[x][t]
      BY <1>r, <2>1
    <3> QED BY <2>1, <3>3, <3>4, <3>5, <3>6
  <2>3. SumFunctionOnSet(h, T) = SumFunctionOnSet(f, T) + SumFunctionOnSet(g, T)
    BY <2>2, SumAddsUp
  <2>4. PICK r : r = RowSums(F, S, T)
    OBVIOUS
  <2>5. \A y \in S : r[y] \in Int
    BY <1>r, <2>4
  <2>6. SumFunctionOnSet(r, s \cup {x}) = r[x] + SumFunctionOnSet(r, s)
    BY <2>5, SumAdd
  <2>7. r[x] = SumFunctionOnSet(f, T)
    BY <1>r, <2>1, <2>4
  <2>8. SumFunctionOnSet(g, T) = SumFunctionOnSet(r, s)
    BY <1>2, <2>1, <2>4
  <2>9. SumFunctionOnSet(h, T) = SumFunctionOnSet(r, u)
    BY <2>1, <2>3, <2>6, <2>7, <2>8
  <2> QED BY <2>1, <2>4, <2>9
<1>3. SUBSET S \subseteq C
  <2> HIDE DEF C
  <2> QED BY <1>1, <1>2, SubsetInduction
<1>4. S \in C
  BY <1>3
<1>5. PartColumnSums(F, S, S, T) = ColumnSums(F, S, T)
  BY DEF PartColumnSums, ColumnSums
<1> QED BY <1>4, <1>5

\* Whoever solves the recursion of a sum has the sum.
LEMMA SolutionIsSum ==
    ASSUME NEW f, NEW S, IsFiniteSet(S), \A x \in S : f[x] \in Int, NEW h, SolvesSum(f, S, h)
    PROVE  h[S] = SumFunctionOnSet(f, S)
<1>1. PICK g, U : g = PartialSum(f, S) /\ U = S
  OBVIOUS
<1>2. SolvesSum(f, U, g) /\ U \in SUBSET S /\ U \in SUBSET U
  BY <1>1, PartialSumEquation
<1>3. \A s \in SUBSET U : g[s] = h[s]
  BY <1>2, SolutionsAgree
<1> QED BY <1>1, <1>2, <1>3, SumIsPartialSum

=============================================================================
