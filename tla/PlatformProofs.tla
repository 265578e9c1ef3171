--------------------------- MODULE PlatformProofs ---------------------------
(***************************************************************************)
(* The safety half of what MCPlatform's run checks, for any numbers of     *)
(* accounts, processes, posters and faults.  A step of the whole is a step *)
(* of one part or leaves it alone, so each part has its own inductive      *)
(* invariant: RowsInv, ReadsInv and NewsInv for the ledger audit and its   *)
(* incident, JobInv for the deadline of a market, OneOff with RunInv for   *)
(* the nightly reconciliation, ConfigInv for the versions of a key and     *)
(* FeedInv for the price on its way to a page.                             *)
(***************************************************************************)
EXTENDS MCPlatform, SumLemmas, Sequences

\* What the whole does, the audit and the incident do or do not notice.
LEMMA AuditStep == [Next]_vars => [Auditor!Next]_(Auditor!vars)
BY DEF Next, vars, auditor, Auditor!vars, Auditor!rows, Auditor!status

RowStates == {
    "none", "draft", "funding", "seeding", "active", "pending_resolution",
    "dispute_window", "resolved", "voided"}

Closed == {"resolved", "voided"}

RowsType ==
    /\ state \in RowStates
    /\ pot \in Nat /\ staked \in Int /\ bond \in {0, 1} /\ round \in Nat /\ fees \in Nat
    /\ available \in [Traders -> Nat]
    /\ escrow \in [Traders -> Int]
    /\ state = "none" => bond = 0

Purse == [u \in Traders |-> Balance]

\* The books add up: until the market closes escrow holds the pot, the bond and the
\* round, and the pot is what is staked; every posting had two sides.
AddsUp ==
    /\ state \notin Closed =>
          /\ Auditor!Total(escrow) = pot + bond + round
          /\ pot = staked
    /\ Auditor!Total(available) + Auditor!Total(escrow) + fees = Auditor!Total(Purse)

RowsInv == RowsType /\ AddsUp

LEMMA TotalIsSum ==
    ASSUME NEW f PROVE Auditor!Total(f) = SumFunctionOnSet(f, Traders)
BY DEF Auditor!Total, Auditor!SumFunctionOnSet, Auditor!FoldFunctionOnSet,
       Auditor!MapThenFoldSet, SumFunctionOnSet, FoldFunctionOnSet, MapThenFoldSet

LEMMA TotalTyped ==
    ASSUME NEW f, \A u \in Traders : f[u] \in Int PROVE Auditor!Total(f) \in Int
BY PurseAssumption, SumRemove, TotalIsSum

LEMMA TotalMoves ==
    ASSUME NEW f \in [Traders -> Int], NEW g \in [Traders -> Int], NEW u \in Traders,
           NEW n \in Int, g[u] = f[u] + n, \A v \in Traders : v # u => g[v] = f[v]
    PROVE  Auditor!Total(g) = Auditor!Total(f) + n
<1>1. IsFiniteSet(Traders)
  BY PurseAssumption
<1>2. SumFunctionOnSet(g, Traders) = SumFunctionOnSet(f, Traders) - f[u] + g[u]
  BY <1>1, SumOneChange
<1>3. f[u] \in Int /\ SumFunctionOnSet(f, Traders) \in Int
  BY <1>1, SumRemove
<1> QED BY <1>2, <1>3, TotalIsSum

\* One entry of a posting.
LEMMA EntryMoves ==
    ASSUME NEW f \in [Traders -> Int], NEW u \in Traders, NEW n \in Int
    PROVE  /\ [f EXCEPT ![u] = f[u] + n] \in [Traders -> Int]
           /\ Auditor!Total([f EXCEPT ![u] = f[u] + n]) = Auditor!Total(f) + n
<1>0. f[u] + n \in Int /\ [f EXCEPT ![u] = f[u] + n] \in [Traders -> Int]
  OBVIOUS
<1>1. PICK g \in [Traders -> Int] : g = [f EXCEPT ![u] = f[u] + n]
  BY <1>0
<1>2. g[u] = f[u] + n /\ \A v \in Traders : v # u => g[v] = f[v]
  BY <1>1
<1>3. Auditor!Total(g) = Auditor!Total(f) + n
  BY <1>2, TotalMoves
<1> QED BY <1>1, <1>3

\* What hold and release do to the totals.
LEMMA HoldMoves ==
    ASSUME RowsType, NEW u \in Traders, NEW n \in Nat, Auditor!Hold(u, n)
    PROVE  /\ available' \in [Traders -> Nat] /\ escrow' \in [Traders -> Int]
           /\ Auditor!Total(available') = Auditor!Total(available) - n
           /\ Auditor!Total(escrow') = Auditor!Total(escrow) + n
<1>1. PICK x \in [Traders -> Int], y \in [Traders -> Int] : x = available /\ y = escrow
  BY DEF RowsType
<1>2. PICK k \in Int : k = -n
  OBVIOUS
<1>3. x[u] >= n /\ x[u] \in Nat /\ y[u] \in Int
  BY <1>1 DEF Auditor!Hold, RowsType
<1>4. x[u] - n = x[u] + k
  BY <1>2, <1>3
<1>5. available' = [x EXCEPT ![u] = x[u] + k] /\ escrow' = [y EXCEPT ![u] = y[u] + n]
  BY <1>1, <1>4 DEF Auditor!Hold
<1>6. available' \in [Traders -> Nat]
  BY <1>1, <1>3, <1>4, <1>5 DEF RowsType
<1>7. /\ Auditor!Total([x EXCEPT ![u] = x[u] + k]) = Auditor!Total(x) + k
      /\ Auditor!Total(x) \in Int
  BY EntryMoves, TotalTyped
<1>8. /\ [y EXCEPT ![u] = y[u] + n] \in [Traders -> Int]
      /\ Auditor!Total([y EXCEPT ![u] = y[u] + n]) = Auditor!Total(y) + n
  <2>1. n \in Int
    OBVIOUS
  <2> QED BY <2>1, EntryMoves
<1> QED BY <1>1, <1>2, <1>5, <1>6, <1>7, <1>8

LEMMA ReleaseMoves ==
    ASSUME RowsType, NEW u \in Traders, NEW n \in Nat, Auditor!Release(u, n)
    PROVE  /\ available' \in [Traders -> Nat] /\ escrow' \in [Traders -> Int]
           /\ Auditor!Total(available') = Auditor!Total(available) + n
           /\ Auditor!Total(escrow') = Auditor!Total(escrow) - n
<1>1. PICK x \in [Traders -> Int], y \in [Traders -> Int] : x = available /\ y = escrow
  BY DEF RowsType
<1>2. PICK k \in Int : k = -n
  OBVIOUS
<1>3. x[u] \in Nat /\ y[u] \in Int
  BY <1>1 DEF RowsType
<1>4. y[u] - n = y[u] + k
  BY <1>2, <1>3
<1>5. available' = [x EXCEPT ![u] = x[u] + n] /\ escrow' = [y EXCEPT ![u] = y[u] + k]
  BY <1>1, <1>4 DEF Auditor!Release
<1>6. available' \in [Traders -> Nat]
  BY <1>1, <1>3, <1>5 DEF RowsType
<1>7. Auditor!Total([x EXCEPT ![u] = x[u] + n]) = Auditor!Total(x) + n
  <2>1. n \in Int
    OBVIOUS
  <2> QED BY <2>1, EntryMoves
<1>8. /\ [y EXCEPT ![u] = y[u] + k] \in [Traders -> Int]
      /\ Auditor!Total([y EXCEPT ![u] = y[u] + k]) = Auditor!Total(y) + k
      /\ Auditor!Total(y) \in Int
  BY EntryMoves, TotalTyped
<1> QED BY <1>1, <1>2, <1>5, <1>6, <1>7, <1>8

LEMMA HeldTyped ==
    RowsType => /\ Auditor!Held \in [Traders -> Nat]
                /\ Auditor!Total(Auditor!Held) \in Int
<1>1. SUFFICES ASSUME RowsType PROVE Auditor!Held \in [Traders -> Nat]
  BY TotalTyped
<1> QED BY <1>1 DEF Auditor!Held, RowsType

\* What leaves escrow arrives.
LEMMA DistributeMoves ==
    ASSUME RowsType, NEW credit \in [Traders -> Nat], NEW fee \in Nat,
           Auditor!Distribute(credit, fee)
    PROVE  /\ available' \in [Traders -> Nat] /\ escrow' \in [Traders -> Int]
           /\ fees' \in Nat /\ pot' = 0 /\ bond' = 0 /\ round' = 0
           /\ Auditor!Total(available') + Auditor!Total(escrow') + fees'
                = Auditor!Total(available) + Auditor!Total(escrow) + fees
<1>1. PICK a, e, h : a = available' /\ e = escrow' /\ h = Auditor!Held
  OBVIOUS
<1>2. /\ Auditor!Total(credit) = Auditor!Total(h) - fee
      /\ a = [u \in Traders |-> available[u] + credit[u]]
      /\ e = [u \in Traders |-> escrow[u] - h[u]]
      /\ fees' = fees + fee /\ pot' = 0 /\ bond' = 0 /\ round' = 0
  BY <1>1 DEF Auditor!Distribute
<1>3. /\ available \in [Traders -> Nat] /\ escrow \in [Traders -> Int] /\ fees \in Nat
      /\ h \in [Traders -> Nat]
  BY <1>1, HeldTyped DEF RowsType
<1>4. a \in [Traders -> Nat] /\ e \in [Traders -> Int]
  BY <1>2, <1>3
<1>5. \A u \in Traders : available[u] \in Int /\ credit[u] \in Int
                         /\ a[u] = available[u] + credit[u]
  BY <1>2, <1>3
<1>6. \A u \in Traders : e[u] \in Int /\ h[u] \in Int /\ escrow[u] = e[u] + h[u]
  BY <1>2, <1>3
<1>7. Auditor!Total(a) = Auditor!Total(available) + Auditor!Total(credit)
  BY <1>5, PurseAssumption, SumAddsUp, TotalIsSum
<1>8. Auditor!Total(escrow) = Auditor!Total(e) + Auditor!Total(h)
  BY <1>6, PurseAssumption, SumAddsUp, TotalIsSum
<1>9. /\ Auditor!Total(available) \in Int /\ Auditor!Total(credit) \in Int
      /\ Auditor!Total(e) \in Int /\ Auditor!Total(h) \in Int
  BY <1>5, <1>6, TotalTyped
<1> QED BY <1>1, <1>2, <1>3, <1>4, <1>7, <1>8, <1>9

LEMMA RowsInit == Init => RowsInv
<1>1. SUFFICES ASSUME Init PROVE RowsInv
  OBVIOUS
<1>2. PICK nothing : nothing = [u \in Traders |-> 0]
  OBVIOUS
<1>3. /\ state = "none" /\ pot = 0 /\ staked = 0 /\ bond = 0 /\ round = 0 /\ fees = 0
      /\ available = Purse /\ escrow = nothing
  BY <1>1, <1>2 DEF Init, Auditor!Init, Purse
<1>4. Purse \in [Traders -> Nat] /\ nothing \in [Traders -> Int]
  BY <1>2, PurseAssumption DEF Purse
<1>5. RowsType
  BY <1>3, <1>4 DEF RowsType, RowStates
<1>6. Auditor!Total(nothing) = 0
  <2>1. Auditor!Total(nothing) = 0 * Cardinality(Traders)
    BY <1>2, PurseAssumption, SumConstant, TotalIsSum
  <2> QED BY <2>1, PurseAssumption, FS_CardinalityType
<1>7. Auditor!Total(Purse) \in Int
  BY <1>4, TotalTyped
<1> QED BY <1>3, <1>5, <1>6, <1>7 DEF RowsInv, AddsUp, Closed

\* A step that leaves the money where it is.
LEMMA RowsStay ==
    ASSUME RowsInv, UNCHANGED <<pot, staked, bond, round, available, escrow, fees>>,
           state' \in RowStates, state' \notin Closed => state \notin Closed,
           state' = "none" => state = "none"
    PROVE  RowsInv'
<1>1. PICK a, e : a = available /\ e = escrow
  OBVIOUS
<1>2. RowsType'
  BY DEF RowsInv, RowsType
<1> QED BY <1>2 DEF RowsInv, AddsUp, Auditor!Total, Purse

\* Each commit leaves books that add up.
LEMMA RowsKeep == RowsInv /\ [Next]_vars => RowsInv'
<1>1. SUFFICES ASSUME RowsInv, [Auditor!Next]_(Auditor!vars) PROVE RowsInv'
  BY AuditStep
<1>2. CASE UNCHANGED Auditor!rows
  BY <1>1, <1>2, RowsStay DEF Auditor!rows, RowsInv, RowsType
<1>r. /\ RowsType /\ AddsUp /\ state \in RowStates /\ pot \in Nat /\ staked \in Int
      /\ bond \in {0, 1} /\ round \in Nat /\ fees \in Nat
      /\ Auditor!Total(available) \in Int /\ Auditor!Total(escrow) \in Int
  BY <1>1, TotalTyped DEF RowsInv, RowsType
\* A unit goes into escrow, and into the pot, the bond or the round.
<1>h. ASSUME NEW u \in Traders, NEW n \in Nat, Auditor!Hold(u, n), fees' = fees,
             state \notin Closed, state' \in RowStates \ Closed,
             pot' \in Nat, bond' \in {0, 1}, round' \in Nat, staked' - pot' = staked - pot,
             staked' \in Int,
             pot' + bond' + round' = pot + bond + round + n, state' # "none"
      PROVE  RowsInv'
  <2>1. /\ available' \in [Traders -> Nat] /\ escrow' \in [Traders -> Int]
        /\ Auditor!Total(available') = Auditor!Total(available) - n
        /\ Auditor!Total(escrow') = Auditor!Total(escrow) + n
    BY <1>r, <1>h, HoldMoves
  <2>2. RowsType'
    BY <1>r, <1>h, <2>1 DEF RowsType
  <2>3. pot' = staked' /\ Auditor!Total(escrow') = pot' + bond' + round'
    <3>1. Auditor!Total(escrow) = pot + bond + round /\ pot = staked
      BY <1>r, <1>h DEF AddsUp
    <3>2. Auditor!Total(escrow') = Auditor!Total(escrow) + n
      BY <2>1
    <3>3. /\ pot \in Int /\ pot' \in Int /\ staked \in Int /\ staked' \in Int
          /\ bond \in Int /\ round \in Int /\ n \in Int
      BY <1>r, <1>h
    <3>4. pot' = staked'
      <4>1. PICK p \in Int, q \in Int : p = pot' /\ q = staked'
        BY <3>3
      <4>2. q - p = staked - pot
        BY <1>h, <4>1
      <4>3. q - p = 0
        BY <3>1, <3>3, <4>2
      <4>4. p = q
        BY <4>3
      <4> QED BY <4>1, <4>4
    <3>5. Auditor!Total(escrow') = pot' + bond' + round'
      BY <1>h, <3>1, <3>2, <3>3
    <3> QED BY <3>4, <3>5
  <2>4. Auditor!Total(available') + Auditor!Total(escrow') + fees' = Auditor!Total(Purse)
    BY <1>r, <1>h, <2>1 DEF AddsUp
  <2> QED BY <2>2, <2>3, <2>4 DEF RowsInv, AddsUp, Auditor!Total, Purse
<1>3. ASSUME NEW u \in Traders, NEW asked \in {0, 1}, NEW to \in {"draft", "funding"},
             Auditor!Open(u, asked, to)
      PROVE  RowsInv'
  <2>1. /\ state = "none" /\ state' = to /\ bond' = asked /\ Auditor!Hold(u, asked)
        /\ UNCHANGED <<pot, staked, round, fees>> /\ asked \in Nat
    BY <1>3 DEF Auditor!Open
  <2>2. bond = 0 /\ to \in RowStates \ Closed /\ state \notin Closed /\ to # "none"
    BY <1>r, <2>1 DEF RowsType, RowStates, Closed
  <2> QED BY <1>r, <1>h, <2>1, <2>2
<1>4. ASSUME NEW u \in Traders, NEW fills \in BOOLEAN, Auditor!Contribute(u, fills)
      PROVE  RowsInv'
  <2>1. /\ state = "seeding" /\ Auditor!Hold(u, 1) /\ UNCHANGED <<bond, fees>>
        /\ \/ state' = "active" /\ round' = 0 /\ pot' = pot + round + 1
              /\ staked' = staked + round + 1
           \/ round' = round + 1 /\ UNCHANGED <<state, pot, staked>>
    BY <1>4 DEF Auditor!Contribute
  <2>2. state \notin Closed /\ state' \in RowStates \ Closed /\ state' # "none"
    BY <2>1 DEF RowStates, Closed
  <2>3. /\ pot' \in Nat /\ round' \in Nat /\ staked' \in Int /\ staked' - pot' = staked - pot
        /\ pot' + bond' + round' = pot + bond + round + 1
    BY <1>r, <2>1
  <2> QED BY <1>r, <1>h, <2>1, <2>2, <2>3
<1>5. ASSUME NEW u \in Traders, Auditor!Seed(u) \/ Auditor!Buy(u) PROVE RowsInv'
  <2>1. /\ state \in {"draft", "funding", "seeding", "active"} /\ Auditor!Hold(u, 1)
        /\ state' \in {state, "active"} /\ pot' = pot + 1 /\ staked' = staked + 1
        /\ UNCHANGED <<bond, round, fees>>
    BY <1>5 DEF Auditor!Seed, Auditor!Buy
  <2>2. state \notin Closed /\ state' \in RowStates \ Closed /\ state' # "none"
    BY <2>1 DEF RowStates, Closed
  <2>3. /\ pot' \in Nat /\ staked' \in Int /\ staked' - pot' = staked - pot
        /\ pot' + bond' + round' = pot + bond + round + 1
    BY <1>r, <2>1
  <2> QED BY <1>r, <1>h, <2>1, <2>2, <2>3
<1>6. ASSUME NEW u \in Traders, NEW refund \in 1..pot, Auditor!Exit(u, refund) PROVE RowsInv'
  <2>1. /\ state = "active" /\ Auditor!Release(u, refund)
        /\ pot' = pot - refund /\ staked' = staked - refund
        /\ UNCHANGED <<state, bond, round, fees>>
    BY <1>6 DEF Auditor!Exit
  <2>2. refund \in Nat /\ pot' \in Nat /\ staked' \in Int
    BY <1>r, <1>6, <2>1
  <2>3. /\ available' \in [Traders -> Nat] /\ escrow' \in [Traders -> Int]
        /\ Auditor!Total(available') = Auditor!Total(available) + refund
        /\ Auditor!Total(escrow') = Auditor!Total(escrow) - refund
    BY <1>r, <2>1, <2>2, ReleaseMoves
  <2>4. RowsType'
    BY <1>r, <2>1, <2>2, <2>3 DEF RowsType
  <2>5. state \notin Closed
    BY <2>1 DEF Closed
  <2>6. pot' = staked' /\ Auditor!Total(escrow') = pot' + bond' + round'
    BY <1>r, <2>1, <2>2, <2>3, <2>5 DEF AddsUp
  <2>7. Auditor!Total(available') + Auditor!Total(escrow') + fees' = Auditor!Total(Purse)
    BY <1>r, <2>1, <2>2, <2>3 DEF AddsUp
  <2> QED BY <2>4, <2>6, <2>7 DEF RowsInv, AddsUp, Auditor!Total, Purse
<1>7. CASE Auditor!OpenRound \/ Auditor!Freeze \/ Auditor!Propose
  <2>1. /\ UNCHANGED <<pot, staked, bond, round, available, escrow, fees>>
        /\ state \in {"draft", "funding", "active", "pending_resolution"}
        /\ state' \in {"seeding", "pending_resolution", "dispute_window"}
    BY <1>7 DEF Auditor!OpenRound, Auditor!Freeze, Auditor!Propose
  <2>2. state' \in RowStates /\ state \notin Closed /\ state' # "none"
    BY <2>1 DEF RowStates, Closed
  <2> QED BY <1>1, <2>1, <2>2, RowsStay
<1>d. ASSUME NEW credit \in [Traders -> Nat], NEW fee \in Nat, Auditor!Distribute(credit, fee),
             state' \in Closed, staked' \in Int
      PROVE  RowsInv'
  <2>1. /\ available' \in [Traders -> Nat] /\ escrow' \in [Traders -> Int]
        /\ fees' \in Nat /\ pot' = 0 /\ bond' = 0 /\ round' = 0
        /\ Auditor!Total(available') + Auditor!Total(escrow') + fees'
             = Auditor!Total(available) + Auditor!Total(escrow) + fees
    BY <1>r, <1>d, DistributeMoves
  <2>2. RowsType'
    BY <1>d, <2>1 DEF RowsType, RowStates, Closed
  <2>3. Auditor!Total(available') + Auditor!Total(escrow') + fees' = Auditor!Total(Purse)
    BY <1>r, <2>1 DEF AddsUp
  <2> QED BY <1>d, <2>2, <2>3 DEF RowsInv, AddsUp, Auditor!Total, Purse
<1>8. CASE Auditor!Void
  <2>1. state' = "voided" /\ Auditor!Distribute(Auditor!Held, 0) /\ staked' = 0
    BY <1>8 DEF Auditor!Void
  <2> QED BY <1>r, <1>d, <2>1, HeldTyped DEF Closed
<1>9. ASSUME NEW credit \in [Traders -> 0..Auditor!Total(Auditor!Held)], Auditor!PayOut(credit)
      PROVE  RowsInv'
  <2>1. PICK fee \in Nat : Auditor!Distribute(credit, fee)
    BY <1>9 DEF Auditor!PayOut
  <2>2. state' = "resolved" /\ staked' = staked
    BY <1>9 DEF Auditor!PayOut
  <2>3. credit \in [Traders -> Nat]
    BY <1>r, HeldTyped
  <2> QED BY <1>r, <1>d, <2>1, <2>2, <2>3 DEF Closed
<1> QED BY <1>1, <1>2, <1>3, <1>4, <1>5, <1>6, <1>7, <1>8, <1>9
    DEF Auditor!Next, Auditor!vars, Auditor!rows, Auditor!SumRows, Auditor!ReadMarket,
        Auditor!ReadEscrow, Auditor!ReadBond, Auditor!ReadBalances, Auditor!ReadPot,
        Auditor!ReadStaked, Auditor!Report, Auditor!OpenIncident, Auditor!Stamp,
        Auditor!Post, Auditor!Reads

AuditPlaces == {"rest", "market", "escrow", "bond", "balances", "staked", "outcomes", "report"}

Alarms == {"double_entry", "escrow_matches_pot", "no_negative_balances", "staked_matches_pot"}

AuditRows == [at : AuditPlaces, pot : Int, held : Int, bad : SUBSET Alarms]

\* What the round leaves behind.
OfRound == IF round # 0 /\ state \in Auditor!Audited THEN {"escrow_matches_pot"} ELSE {}

\* An audit under which nothing moved has found what an open round and an exit leave
\* behind so far, and what it has read is still what the rows say.
ReadsInv ==
    /\ audit \in AuditRows
    /\ audit.at # "rest" /\ ~tablesMoved =>
        /\ audit.at \in {"market", "escrow", "bond"} => audit.bad = {}
        /\ audit.at \in {"escrow", "bond", "outcomes"} =>
               state \in Auditor!Audited /\ audit.pot = pot
        /\ audit.at = "bond" => audit.held = Auditor!Total(escrow)
        /\ audit.at = "balances" => audit.bad = OfRound
        /\ audit.at \in {"staked", "outcomes", "report"} => audit.bad = Auditor!Ordinary

LEMMA AlarmsTyped ==
    /\ OfRound \in SUBSET Alarms /\ Auditor!Ordinary \in SUBSET Alarms
    /\ Auditor!Ordinary = IF Auditor!Overdrawn THEN OfRound \cup {"no_negative_balances"}
                          ELSE OfRound
BY DEF OfRound, Auditor!Ordinary, Alarms

\* What a check leaves of the audit.
LEMMA GoesOn ==
    ASSUME NEW r \in AuditRows, NEW at \in AuditPlaces
    PROVE  /\ [r EXCEPT !.at = at] \in AuditRows
           /\ [r EXCEPT !.at = at].at = at
           /\ [r EXCEPT !.at = at].bad = r.bad
BY DEF AuditRows

LEMMA RestTyped ==
    Auditor!Rest \in AuditRows /\ Auditor!Rest.at = "rest"
<1>1. PICK nothing : nothing = {}
  OBVIOUS
<1>2. nothing \in SUBSET Alarms
  BY <1>1
<1>3. Auditor!Rest = [at |-> "rest", pot |-> 0, held |-> 0, bad |-> nothing]
  BY <1>1 DEF Auditor!Rest
<1> QED BY <1>2, <1>3 DEF AuditRows, AuditPlaces

LEMMA ReadsInit == Init => ReadsInv
BY RestTyped DEF Init, Auditor!Init, ReadsInv

LEMMA ReadsKeep == RowsInv /\ ReadsInv /\ [Next]_vars => ReadsInv'
<1>1. SUFFICES ASSUME RowsInv, ReadsInv, [Auditor!Next]_(Auditor!vars) PROVE ReadsInv'
  BY AuditStep
<1>a. /\ audit \in AuditRows /\ audit.at \in AuditPlaces /\ audit.bad \in SUBSET Alarms
      /\ audit.pot \in Int /\ audit.held \in Int
  BY <1>1 DEF ReadsInv, AuditRows
<1>r. /\ pot \in Int /\ bond \in Int /\ round \in Nat /\ Auditor!Total(escrow) \in Int
  BY <1>1, TotalTyped DEF RowsInv, RowsType
<1>o. state \in Auditor!Audited =>
          /\ Auditor!Total(escrow) = pot + bond + round
          /\ pot = staked
  BY <1>1 DEF RowsInv, AddsUp, Closed, Auditor!Audited
<1>p. "market" \in AuditPlaces /\ "escrow" \in AuditPlaces /\ "bond" \in AuditPlaces
      /\ "balances" \in AuditPlaces /\ "staked" \in AuditPlaces
      /\ "outcomes" \in AuditPlaces /\ "report" \in AuditPlaces
  BY DEF AuditPlaces
<1>s. UNCHANGED Auditor!rows =>
          /\ OfRound' = OfRound /\ Auditor!Ordinary' = Auditor!Ordinary
          /\ state' = state /\ pot' = pot /\ Auditor!Total(escrow)' = Auditor!Total(escrow)
  BY DEF OfRound, Auditor!Ordinary, Auditor!Overdrawn, Auditor!rows, Auditor!Total
<1>u. CASE UNCHANGED <<Auditor!rows, audit, tablesMoved>>
  BY <1>1, <1>s, <1>u DEF ReadsInv
\* A commit marks the audit under way.
<1>2. CASE Auditor!Commits
  <2>1. tablesMoved' = (audit.at # "rest") /\ audit' = audit
    BY <1>2 DEF Auditor!Commits
  <2>2. audit'.at # "rest" => tablesMoved'
    BY <2>1
  <2> QED BY <1>a, <2>1, <2>2 DEF ReadsInv
<1>3. CASE Auditor!SumRows
  <2>1. Auditor!Total(available) + Auditor!Total(escrow) + fees
          = Auditor!Total([u \in Traders |-> Balance])
    BY <1>1 DEF RowsInv, AddsUp, Purse
  <2>2. PICK nothing : nothing = {}
    OBVIOUS
  <2>3. audit' = [Auditor!Rest EXCEPT !.at = "market", !.bad = nothing]
    BY <1>3, <2>1, <2>2 DEF Auditor!SumRows, Auditor!Reads
  <2>4. audit' \in AuditRows /\ audit'.at = "market" /\ audit'.bad = nothing
    BY <1>p, <2>2, <2>3, RestTyped DEF AuditRows
  <2> QED BY <2>2, <2>4 DEF ReadsInv
<1>4. CASE Auditor!ReadMarket
  <2>1. UNCHANGED <<Auditor!rows, tablesMoved>> /\ audit.at = "market"
    BY <1>4 DEF Auditor!ReadMarket, Auditor!Reads
  <2>2. CASE state \in Auditor!Audited
    <3>1. audit' = [audit EXCEPT !.at = "escrow", !.pot = pot]
      BY <1>4, <2>2 DEF Auditor!ReadMarket, Auditor!Reads
    <3>2. /\ audit' \in AuditRows /\ audit'.at = "escrow" /\ audit'.bad = audit.bad
          /\ audit'.pot = pot
      BY <1>a, <1>p, <1>r, <3>1 DEF AuditRows
    <3> QED BY <1>1, <1>s, <2>1, <2>2, <3>2 DEF ReadsInv
  <2>3. CASE state \notin Auditor!Audited
    <3>1. audit' = [audit EXCEPT !.at = "balances"]
      BY <1>4, <2>3 DEF Auditor!ReadMarket, Auditor!Reads
    <3>2. audit' \in AuditRows /\ audit'.at = "balances" /\ audit'.bad = audit.bad
      BY <1>a, <1>p, <3>1, GoesOn
    <3>3. OfRound = {}
      BY <2>3 DEF OfRound
    <3> QED BY <1>1, <1>s, <2>1, <3>2, <3>3 DEF ReadsInv
  <2> QED BY <2>2, <2>3
<1>5. CASE Auditor!ReadEscrow
  <2>1. /\ audit' = [audit EXCEPT !.at = "bond", !.held = Auditor!Total(escrow)]
        /\ audit.at = "escrow" /\ UNCHANGED <<Auditor!rows, tablesMoved>>
    BY <1>5 DEF Auditor!ReadEscrow, Auditor!Reads
  <2>2. /\ audit' \in AuditRows /\ audit'.at = "bond" /\ audit'.bad = audit.bad
        /\ audit'.held = Auditor!Total(escrow) /\ audit'.pot = audit.pot
    BY <1>a, <1>p, <1>r, <2>1 DEF AuditRows
  <2> QED BY <1>1, <1>s, <2>1, <2>2 DEF ReadsInv
<1>6. CASE Auditor!ReadBond
  <2>1. PICK bad : bad = IF audit.held # audit.pot + bond
                         THEN audit.bad \cup {"escrow_matches_pot"} ELSE audit.bad
    OBVIOUS
  <2>2. /\ audit' = [audit EXCEPT !.at = "balances", !.bad = bad]
        /\ audit.at = "bond" /\ UNCHANGED <<Auditor!rows, tablesMoved>>
    BY <1>6, <2>1 DEF Auditor!ReadBond, Auditor!Reads, Auditor!Expected
  <2>3. bad \in SUBSET Alarms
    BY <1>a, <2>1 DEF Alarms
  <2>4. audit' \in AuditRows /\ audit'.at = "balances" /\ audit'.bad = bad
    BY <1>a, <1>p, <2>2, <2>3 DEF AuditRows
  <2>5. ~tablesMoved => bad = OfRound
    <3>1. SUFFICES ASSUME ~tablesMoved PROVE bad = OfRound
      OBVIOUS
    <3>2. /\ audit.bad = {} /\ state \in Auditor!Audited /\ audit.pot = pot
          /\ audit.held = Auditor!Total(escrow)
      BY <1>1, <2>2, <3>1 DEF ReadsInv
    <3>3. audit.held # audit.pot + bond <=> round # 0
      BY <1>o, <1>r, <3>2
    <3> QED BY <2>1, <3>2, <3>3 DEF OfRound
  <2> QED BY <1>s, <2>2, <2>4, <2>5 DEF ReadsInv
<1>7. CASE Auditor!ReadBalances
  <2>1. PICK bad : bad = IF Auditor!Overdrawn
                         THEN audit.bad \cup {"no_negative_balances"} ELSE audit.bad
    OBVIOUS
  <2>2. /\ audit' = [audit EXCEPT !.at = "staked", !.bad = bad]
        /\ audit.at = "balances" /\ UNCHANGED <<Auditor!rows, tablesMoved>>
    BY <1>7, <2>1 DEF Auditor!ReadBalances, Auditor!Reads
  <2>3. bad \in SUBSET Alarms
    BY <1>a, <2>1 DEF Alarms
  <2>4. audit' \in AuditRows /\ audit'.at = "staked" /\ audit'.bad = bad
    BY <1>a, <1>p, <2>2, <2>3 DEF AuditRows
  <2>5. ~tablesMoved => bad = Auditor!Ordinary
    <3>1. ~tablesMoved => audit.bad = OfRound
      BY <1>1, <2>2 DEF ReadsInv
    <3> QED BY <2>1, <3>1, AlarmsTyped
  <2> QED BY <1>s, <2>2, <2>4, <2>5 DEF ReadsInv
<1>8. CASE Auditor!ReadPot
  <2>1. UNCHANGED <<Auditor!rows, tablesMoved>> /\ audit.at = "staked"
    BY <1>8 DEF Auditor!ReadPot, Auditor!Reads
  <2>2. CASE state \in Auditor!Audited
    <3>1. audit' = [audit EXCEPT !.at = "outcomes", !.pot = pot]
      BY <1>8, <2>2 DEF Auditor!ReadPot, Auditor!Reads
    <3>2. /\ audit' \in AuditRows /\ audit'.at = "outcomes" /\ audit'.bad = audit.bad
          /\ audit'.pot = pot
      BY <1>a, <1>p, <1>r, <3>1 DEF AuditRows
    <3> QED BY <1>1, <1>s, <2>1, <2>2, <3>2 DEF ReadsInv
  <2>3. CASE state \notin Auditor!Audited
    <3>1. audit' = [audit EXCEPT !.at = "report"]
      BY <1>8, <2>3 DEF Auditor!ReadPot, Auditor!Reads
    <3>2. audit' \in AuditRows /\ audit'.at = "report" /\ audit'.bad = audit.bad
      BY <1>a, <1>p, <3>1, GoesOn
    <3> QED BY <1>1, <1>s, <2>1, <3>2 DEF ReadsInv
  <2> QED BY <2>2, <2>3
<1>9. CASE Auditor!ReadStaked
  <2>1. PICK bad : bad = IF audit.pot # staked
                         THEN audit.bad \cup {"staked_matches_pot"} ELSE audit.bad
    OBVIOUS
  <2>2. /\ audit' = [audit EXCEPT !.at = "report", !.bad = bad]
        /\ audit.at = "outcomes" /\ UNCHANGED <<Auditor!rows, tablesMoved>>
    BY <1>9, <2>1 DEF Auditor!ReadStaked, Auditor!Reads
  <2>3. bad \in SUBSET Alarms
    BY <1>a, <2>1 DEF Alarms
  <2>4. audit' \in AuditRows /\ audit'.at = "report" /\ audit'.bad = bad
    BY <1>a, <1>p, <2>2, <2>3 DEF AuditRows
  <2>5. ~tablesMoved => bad = Auditor!Ordinary
    BY <1>1, <1>o, <2>1, <2>2 DEF ReadsInv
  <2> QED BY <1>s, <2>2, <2>4, <2>5 DEF ReadsInv
<1>10. CASE Auditor!Report
  BY <1>10, RestTyped DEF Auditor!Report, ReadsInv
<1> QED BY <1>1, <1>u, <1>2, <1>3, <1>4, <1>5, <1>6, <1>7, <1>8, <1>9, <1>10
    DEF Auditor!Next, Auditor!vars, Auditor!OpenIncident, Auditor!Stamp, Auditor!Post,
        Auditor!Open, Auditor!OpenRound, Auditor!Contribute, Auditor!Seed, Auditor!Buy,
        Auditor!Exit, Auditor!Freeze, Auditor!Propose, Auditor!PayOut, Auditor!Void

---------------------------------------------------------------------------
(* The incident on the status page.                                        *)

Words == {"investigating"} \cup Auditor!Progress

Newest == incident.timeline[Len(incident.timeline)]

\* While no two updates were under way at once, the one that is has written
\* the newest line, and the state is that line when none is.
NewsInv ==
    /\ incident \in [state : Words \cup {"none"}, timeline : Seq(Words)]
    /\ posting \in [Posters -> Words \cup {"none"}]
    /\ \/ incident = Auditor!NoIncident /\ \A p \in Posters : posting[p] = "none"
       \/ incident # Auditor!NoIncident /\ Len(incident.timeline) > 0
    /\ ~updatesCrossed => \A p, q \in Posters :
           posting[p] # "none" /\ posting[q] # "none" => p = q
    /\ ~updatesCrossed /\ incident # Auditor!NoIncident =>
           \A p \in Posters : posting[p] # "none" => posting[p] = Newest
    /\ Auditor!StateIsLastWord

LEMMA NewestIsLast == Auditor!Last(incident.timeline) = Newest
BY DEF Newest, Auditor!Last

LEMMA NewsInit == Init => NewsInv
<1>1. SUFFICES ASSUME Init PROVE NewsInv
  OBVIOUS
<1>2. /\ incident = [state |-> "none", timeline |-> <<>>]
      /\ incident = Auditor!NoIncident /\ posting = [p \in Posters |-> "none"]
  BY <1>1 DEF Init, Auditor!Init, Auditor!NoIncident
<1>3. <<>> \in Seq(Words)
  OBVIOUS
<1> QED BY <1>2, <1>3 DEF NewsInv, Auditor!StateIsLastWord

\* A new incident: one line, which is its state.
LEMMA NewsOpens ==
    ASSUME NewsInv, incident = Auditor!NoIncident, UNCHANGED posting,
           incident' = [state |-> "investigating", timeline |-> <<"investigating">>]
    PROVE  NewsInv'
<1>1. <<"investigating">> \in Seq(Words) /\ Len(<<"investigating">>) = 1
  BY DEF Words
<1>2. incident'.state = "investigating" /\ incident'.timeline = <<"investigating">>
  OBVIOUS
<1>3. Newest' = "investigating"
  BY <1>1, <1>2 DEF Newest
<1>4. \A p \in Posters : posting'[p] = "none"
  BY DEF NewsInv
<1>5. incident' \in [state : Words \cup {"none"}, timeline : Seq(Words)]
  BY <1>1 DEF Words
<1>6. incident' # Auditor!NoIncident
  BY <1>2 DEF Auditor!NoIncident
<1>7. Auditor!StateIsLastWord'
  BY <1>2, <1>3, NewestIsLast DEF Auditor!StateIsLastWord, Auditor!Last, Newest
<1>8. posting' \in [Posters -> Words \cup {"none"}] /\ Len(incident'.timeline) > 0
  BY <1>1, <1>2 DEF NewsInv
<1> QED BY <1>4, <1>5, <1>6, <1>7, <1>8 DEF NewsInv, Auditor!NoIncident

LEMMA NewsKeep == NewsInv /\ [Next]_vars => NewsInv'
<1>1. SUFFICES ASSUME NewsInv, [Auditor!Next]_(Auditor!vars) PROVE NewsInv'
  BY AuditStep
<1>u. CASE UNCHANGED <<incident, posting, updatesCrossed>>
  BY <1>1, <1>u DEF NewsInv, Newest, Auditor!StateIsLastWord, Auditor!Last
<1>2. CASE Auditor!Report \/ Auditor!OpenIncident
  <2>1. UNCHANGED <<posting, updatesCrossed>>
    BY <1>2 DEF Auditor!Report, Auditor!OpenIncident
  <2>2. \/ incident' = incident
        \/ /\ incident = Auditor!NoIncident
           /\ incident' = [state |-> "investigating", timeline |-> <<"investigating">>]
    BY <1>2 DEF Auditor!Report, Auditor!OpenIncident
  <2> QED BY <1>1, <1>u, <2>1, <2>2, NewsOpens
<1>n. /\ incident.timeline \in Seq(Words) /\ Len(incident.timeline) \in Nat
      /\ incident \in [state : Words \cup {"none"}, timeline : Seq(Words)]
      /\ posting \in [Posters -> Words \cup {"none"}]
  BY <1>1 DEF NewsInv
<1>3. ASSUME NEW p \in Posters, NEW news \in Auditor!Progress, Auditor!Post(p, news)
      PROVE  NewsInv'
  <2>1. /\ incident # Auditor!NoIncident /\ posting[p] = "none"
        /\ incident' = [incident EXCEPT !.timeline = Append(@, news)]
        /\ posting' = [posting EXCEPT ![p] = news]
        /\ updatesCrossed' = (updatesCrossed \/ \E q \in Posters : posting[q] # "none")
    BY <1>3 DEF Auditor!Post
  <2>2. news \in Words /\ news # "none"
    BY DEF Words, Auditor!Progress
  <2>3. incident'.timeline = Append(incident.timeline, news)
        /\ incident' \in [state : Words \cup {"none"}, timeline : Seq(Words)]
    <3>1. PICK line : line = Append(incident.timeline, news)
      OBVIOUS
    <3>2. line \in Seq(Words)
      BY <1>n, <2>2, <3>1
    <3>3. incident' = [incident EXCEPT !.timeline = line]
      BY <2>1, <3>1
    <3> QED BY <1>n, <3>1, <3>2, <3>3
  <2>4. Len(incident'.timeline) = Len(incident.timeline) + 1 /\ Newest' = news
    BY <1>n, <2>2, <2>3 DEF Newest
  <2>5. incident' # Auditor!NoIncident
    <3>1. Len(incident'.timeline) > 0
      BY <1>n, <2>4
    <3> QED BY <3>1 DEF Auditor!NoIncident
  <2>6. posting' \in [Posters -> Words \cup {"none"}]
    BY <1>n, <2>1, <2>2
  <2>7. posting'[p] = news /\ \A q \in Posters : q # p => posting'[q] = posting[q]
    BY <1>n, <2>1
  <2>8. ~updatesCrossed' => \A q \in Posters : posting[q] = "none"
    BY <2>1
  <2>9. ~(\A q \in Posters : posting'[q] = "none")
    BY <2>2, <2>7
  <2>10. Auditor!StateIsLastWord'
    BY <2>9 DEF Auditor!StateIsLastWord
  <2>11. Len(incident'.timeline) > 0
    BY <1>n, <2>4
  <2>12. incident' # Auditor!NoIncident'
    BY <2>5 DEF Auditor!NoIncident
  <2> QED BY <2>3, <2>4, <2>6, <2>7, <2>8, <2>10, <2>11, <2>12 DEF NewsInv
<1>4. ASSUME NEW p \in Posters, Auditor!Stamp(p) PROVE NewsInv'
  <2>1. /\ posting[p] # "none"
        /\ incident' = [incident EXCEPT !.state = posting[p]]
        /\ posting' = [posting EXCEPT ![p] = "none"]
        /\ updatesCrossed' = updatesCrossed
    BY <1>4 DEF Auditor!Stamp
  <2>2. incident # Auditor!NoIncident /\ Len(incident.timeline) > 0
    BY <1>1, <2>1 DEF NewsInv
  <2>3. /\ incident'.timeline = incident.timeline /\ incident'.state = posting[p]
        /\ incident' \in [state : Words \cup {"none"}, timeline : Seq(Words)]
    BY <1>n, <2>1
  <2>4. Newest' = Newest /\ Len(incident'.timeline) > 0
    BY <2>2, <2>3 DEF Newest
  <2>5. incident' # Auditor!NoIncident'
    BY <1>n, <2>4 DEF Auditor!NoIncident
  <2>6. /\ posting' \in [Posters -> Words \cup {"none"}] /\ posting'[p] = "none"
        /\ \A q \in Posters : q # p => posting'[q] = posting[q]
    BY <1>n, <2>1
  <2>7. ~updatesCrossed => posting[p] = Newest
    BY <1>1, <2>1, <2>2 DEF NewsInv
  <2>8. ~updatesCrossed => \A q \in Posters : posting'[q] = "none"
    BY <1>1, <2>1, <2>6 DEF NewsInv
  <2>9. Auditor!StateIsLastWord'
    BY <2>1, <2>3, <2>4, <2>7 DEF Auditor!StateIsLastWord, Newest, Auditor!Last
  <2> QED BY <2>1, <2>3, <2>4, <2>5, <2>6, <2>8, <2>9 DEF NewsInv
<1> QED BY <1>1, <1>u, <1>2, <1>3, <1>4
    DEF Auditor!Next, Auditor!vars, Auditor!SumRows, Auditor!ReadMarket,
        Auditor!ReadEscrow, Auditor!ReadBond, Auditor!ReadBalances, Auditor!ReadPot,
        Auditor!ReadStaked, Auditor!Reads, Auditor!Commits, Auditor!Open,
        Auditor!OpenRound, Auditor!Contribute, Auditor!Seed, Auditor!Buy, Auditor!Exit,
        Auditor!Freeze, Auditor!Propose, Auditor!PayOut, Auditor!Void, Auditor!status

\* An audit under which nothing commits reports what an open round and an exit at
\* a profit leave in escrow and nothing else, whatever was traded, seeded, bonded,
\* paid or returned before, by however many people; and an incident's state is
\* the last word of its timeline unless two people wrote at once
\* (LedgerAuditService.run, StatusService.update).
THEOREM TheAuditIsTrue == Spec => []AuditIsTrue
<1>1. Init => RowsInv /\ ReadsInv /\ NewsInv
  BY RowsInit, ReadsInit, NewsInit
<1>2. RowsInv /\ ReadsInv /\ NewsInv /\ [Next]_vars => (RowsInv /\ ReadsInv /\ NewsInv)'
  BY RowsKeep, ReadsKeep, NewsKeep
<1>3. ReadsInv /\ NewsInv => AuditIsTrue
  BY DEF ReadsInv, NewsInv, AuditIsTrue, Auditor!AuditIsTrue, Auditor!NoOtherAlarm,
         Auditor!Undisturbed
<1> QED BY <1>1, <1>2, <1>3, PTL DEF Spec

---------------------------------------------------------------------------
(* The deadline of a market and the job that keeps it.                     *)

LEMMA DeadlineStep == [Next]_vars => [Jobs!Next]_(Jobs!vars)
BY DEF Next, vars, jobs, Jobs!vars

JobStates == {"none", "delayed", "running", "completed", "failed"}

JobPaths == {"none", "organic", "seeded"}

JobRows == [state : JobStates, at : Int, tries : Int, path : JobPaths]

MarketPhases == {"draft", "funding", "seeding", "active", "settled"}

DeadlineRows == [state : MarketPhases, path : {"organic", "seeded"}, closes : Int]

JobType ==
    /\ row \in DeadlineRows
    /\ job \in JobRows
    /\ hours \in Nat /\ toAdd \in Int
    /\ moved \in BOOLEAN /\ adrift \in BOOLEAN
    /\ job.state = "none" <=> job = Jobs!NoJob

\* A waiting window and the path that will close it.
PathOfWindow ==
    /\ row.state = "funding" => row.path = "organic"
    /\ row.state = "active" /\ row.closes # 0 => row.path = "seeded"
    /\ toAdd # 0 /\ Jobs!Open => toAdd = row.closes

\* While a window waits, unless a closing time was set over an earlier job:
\* the job is for the window's own time and path, it does not run early and
\* it is not done.  It is missing only if it is yet to be added or was lost.
JobOfWindow ==
    Jobs!Open /\ ~moved =>
        /\ job.state # "none" => job.at = row.closes
        /\ job.state = "running" => job.path = row.path
        /\ job.state # "completed"
        /\ job.state = "none" /\ toAdd = 0 => adrift

RunsWhenDue == job.state = "running" => job.at <= hours

JobInv == JobType /\ PathOfWindow /\ JobOfWindow /\ RunsWhenDue

LEMMA JobInit == Init => JobInv
<1>1. SUFFICES ASSUME Init PROVE JobInv
  OBVIOUS
<1>2. /\ row = [state |-> "draft", path |-> "organic", closes |-> 0]
      /\ job = [state |-> "none", at |-> 0, tries |-> 0, path |-> "none"]
      /\ job = Jobs!NoJob /\ toAdd = 0 /\ hours = 0 /\ adrift = FALSE /\ moved = FALSE
  BY <1>1 DEF Init, Jobs!Init, Jobs!NoJob
<1>3. row \in DeadlineRows /\ job \in JobRows
  BY <1>2 DEF DeadlineRows, JobRows, MarketPhases, JobStates, JobPaths
<1>4. row.state = "draft" /\ job.state = "none"
  BY <1>2
<1>5. hours \in Nat /\ toAdd \in Int
  BY <1>2
<1>6. moved = FALSE /\ adrift = FALSE
  BY <1>2
<1>7. moved \in BOOLEAN /\ adrift \in BOOLEAN
  BY <1>6, Zenon
<1>8. JobType
  BY <1>3, <1>4, <1>5, <1>7, <1>2 DEF JobType, Jobs!NoJob
<1> QED BY <1>4, <1>8, <1>2 DEF JobInv, PathOfWindow, JobOfWindow, RunsWhenDue, Jobs!Open

LEMMA NoJobIsNone ==
    Jobs!NoJob \in JobRows /\ Jobs!NoJob.state = "none"
BY DEF Jobs!NoJob, JobRows, JobStates, JobPaths

LEMMA DelayedTyped ==
    ASSUME NEW at \in Int
    PROVE  /\ Jobs!Delayed(at) \in JobRows
           /\ Jobs!Delayed(at).state = "delayed" /\ Jobs!Delayed(at).at = at
<1>1. PICK j, d : j = Jobs!NoJob /\ d = Jobs!Delayed(at)
  OBVIOUS
<1>2. j \in JobRows /\ d = [j EXCEPT !.state = "delayed", !.at = at]
  BY <1>1, NoJobIsNone DEF Jobs!Delayed
<1>3. d \in JobRows /\ d.state = "delayed" /\ d.at = at
  BY <1>2 DEF JobRows, JobStates
<1> QED BY <1>1, <1>3

LEMMA JobKeep == JobInv /\ [Next]_vars => JobInv'
<1>1. SUFFICES ASSUME JobInv, [Jobs!Next]_(Jobs!vars) PROVE JobInv'
  BY DeadlineStep
<1>t. /\ row \in DeadlineRows /\ job \in JobRows /\ hours \in Nat /\ toAdd \in Int
      /\ moved \in BOOLEAN /\ adrift \in BOOLEAN /\ Window \in Nat \ {0}
      /\ row.state \in MarketPhases /\ row.path \in {"organic", "seeded"} /\ row.closes \in Int
      /\ job.state \in JobStates /\ job.at \in Int /\ job.tries \in Int /\ job.path \in JobPaths
      /\ (job.state = "none" <=> job = Jobs!NoJob)
  BY <1>1, DeadlinesAssumption DEF JobInv, JobType, DeadlineRows, JobRows
<1>u. CASE UNCHANGED <<row, job, toAdd, hours, adrift, moved>>
  BY <1>1, <1>u DEF JobInv, JobType, PathOfWindow, JobOfWindow, RunsWhenDue, Jobs!Open
\* A closing time is promised: over an earlier job it is marked.
<1>2. ASSUME NEW phase, NEW path, Jobs!Promise(phase, path),
             \/ phase = "funding" /\ path = "organic"
             \/ phase = "active" /\ path = "seeded"
      PROVE  JobInv'
  <2>1. /\ row' = [state |-> phase, path |-> path, closes |-> hours + Window]
        /\ toAdd = 0 /\ toAdd' = hours + Window
        /\ moved' = (moved \/ job # Jobs!NoJob)
        /\ UNCHANGED <<job, hours, adrift>>
    BY <1>2 DEF Jobs!Promise
  <2>2. hours + Window \in Int /\ hours + Window # 0
    BY <1>t
  <2>3. row' \in DeadlineRows
    BY <1>2, <2>1, <2>2 DEF DeadlineRows, MarketPhases
  <2>4. moved' \in BOOLEAN /\ (~moved' => job = Jobs!NoJob /\ ~moved)
    BY <1>t, <2>1
  <2>5. JobType'
    BY <1>t, <2>1, <2>2, <2>3, <2>4 DEF JobType, Jobs!NoJob
  <2>6. PathOfWindow'
    BY <1>2, <2>1, <2>2 DEF PathOfWindow, Jobs!Open
  <2>7. JobOfWindow'
    BY <1>t, <2>1, <2>2, <2>4 DEF JobOfWindow
  <2>8. RunsWhenDue'
    BY <1>1, <2>1 DEF JobInv, RunsWhenDue
  <2> QED BY <2>5, <2>6, <2>7, <2>8 DEF JobInv
<1>3. CASE Jobs!OpenFunding \/ Jobs!Seed \/ Jobs!FillRound
  BY <1>2, <1>3 DEF Jobs!OpenFunding, Jobs!Seed, Jobs!FillRound
\* The row moves on without a window, and the job stays.
<1>4. CASE Jobs!OpenRound \/ Jobs!Settle
  <2>1. PICK phase \in {"seeding", "settled"}, path \in {"organic", "seeded"} :
           row' = [row EXCEPT !.state = phase, !.path = path]
    <3>1. CASE Jobs!OpenRound
      BY <3>1 DEF Jobs!OpenRound
    <3>2. CASE Jobs!Settle
      <4>1. row' = [row EXCEPT !.state = "settled", !.path = row.path]
        BY <1>t, <3>2 DEF Jobs!Settle, DeadlineRows
      <4> QED BY <1>t, <4>1
    <3> QED BY <1>4, <3>1, <3>2
  <2>2. row' \in DeadlineRows /\ row'.state = phase
    BY <1>t, <2>1 DEF DeadlineRows, MarketPhases
  <2>3. UNCHANGED <<job, toAdd, hours, adrift, moved>>
    BY <1>4 DEF Jobs!OpenRound, Jobs!Settle
  <2>4. JobType'
    BY <1>t, <2>2, <2>3 DEF JobType, Jobs!NoJob
  <2> QED BY <1>1, <2>1, <2>2, <2>3, <2>4
          DEF JobInv, PathOfWindow, JobOfWindow, RunsWhenDue, Jobs!Open
<1>5. CASE Jobs!Schedule
  <2>1. /\ toAdd # 0 /\ toAdd' = 0 /\ UNCHANGED <<row, hours, adrift, moved>>
        /\ job' = IF job = Jobs!NoJob THEN Jobs!Delayed(toAdd) ELSE job
    BY <1>5 DEF Jobs!Schedule, Jobs!Enqueue
  <2>2. PathOfWindow'
    BY <1>1, <2>1 DEF JobInv, PathOfWindow, Jobs!Open
  <2>3. CASE job = Jobs!NoJob
    <3>1. job' \in JobRows /\ job'.state = "delayed" /\ job'.at = toAdd
      BY <1>t, <2>1, <2>3, DelayedTyped
    <3>2. JobType'
      BY <1>t, <2>1, <3>1, NoJobIsNone DEF JobType, Jobs!NoJob
    <3>3. JobOfWindow'
      BY <1>1, <2>1, <3>1 DEF JobInv, PathOfWindow, JobOfWindow, Jobs!Open
    <3> QED BY <2>2, <3>1, <3>2, <3>3 DEF JobInv, RunsWhenDue
  <2>4. CASE job # Jobs!NoJob
    <3>1. job' = job
      BY <2>1, <2>4
    <3>2. JobType'
      BY <1>t, <2>1, <3>1 DEF JobType, Jobs!NoJob
    <3> QED BY <1>1, <1>t, <2>1, <2>2, <2>4, <3>1, <3>2
            DEF JobInv, JobOfWindow, RunsWhenDue, Jobs!Open
  <2> QED BY <2>3, <2>4
<1>6. CASE Jobs!Start
  <2>1. /\ job.state = "delayed" /\ job.at <= hours
        /\ job' = [job EXCEPT !.state = "running", !.path = row.path]
        /\ UNCHANGED <<row, toAdd, hours, adrift, moved>>
    BY <1>6 DEF Jobs!Start
  <2>2. /\ job' \in JobRows /\ job'.state = "running" /\ job'.path = row.path
        /\ job'.at = job.at
    BY <1>t, <2>1 DEF JobRows, JobStates, JobPaths
  <2>3. JobType'
    BY <1>t, <2>1, <2>2, NoJobIsNone DEF JobType, Jobs!NoJob
  <2> QED BY <1>1, <2>1, <2>2, <2>3
          DEF JobInv, PathOfWindow, JobOfWindow, RunsWhenDue, Jobs!Open
<1>7. CASE Jobs!Handle
  <2>1. /\ job.state = "running" /\ job' = [job EXCEPT !.state = "completed"]
        /\ UNCHANGED <<toAdd, hours, adrift, moved>>
    BY <1>7 DEF Jobs!Handle
  <2>2. job' \in JobRows /\ job'.state = "completed" /\ job'.at = job.at
    BY <1>t, <2>1 DEF JobRows, JobStates
  <2>3. \/ row' = [row EXCEPT !.state = "active", !.closes = 0]
        \/ row' = [row EXCEPT !.state = "settled"]
        \/ ~Jobs!Acts /\ row' = row
    BY <1>7 DEF Jobs!Handle
  <2>4. row' \in DeadlineRows
    <3>1. row \in DeadlineRows /\ 0 \in Int
      BY <1>t
    <3>2. CASE row' = [row EXCEPT !.state = "active", !.closes = 0]
      BY <3>1, <3>2 DEF DeadlineRows, MarketPhases
    <3>3. CASE row' = [row EXCEPT !.state = "settled"]
      BY <3>1, <3>3 DEF DeadlineRows, MarketPhases
    <3> QED BY <2>3, <3>1, <3>2, <3>3
  <2>5. JobType'
    BY <1>t, <2>1, <2>2, <2>4, NoJobIsNone DEF JobType, Jobs!NoJob
  <2>6. RunsWhenDue'
    BY <2>2 DEF RunsWhenDue
  \* A handler that acts ends the window.
  <2>7. CASE row' # row
    <3>1. ~Jobs!Open'
      BY <1>t, <2>3, <2>7 DEF Jobs!Open, DeadlineRows
    <3>2. (row'.state = "active" /\ row'.closes = 0) \/ row'.state = "settled"
      BY <1>t, <2>3, <2>7 DEF DeadlineRows
    <3> QED BY <2>5, <2>6, <3>1, <3>2 DEF JobInv, PathOfWindow, JobOfWindow
  \* One that does not act was for another path, so there is no such window.
  <2>8. CASE row' = row
    <3>1. PathOfWindow'
      BY <1>1, <2>1, <2>8 DEF JobInv, PathOfWindow, Jobs!Open
    <3>2. ASSUME Jobs!Open, ~moved PROVE FALSE
      <4>1. job.path = row.path
        BY <1>1, <2>1, <3>2 DEF JobInv, JobOfWindow
      <4>2. Jobs!Acts
        BY <1>1, <1>t, <3>2, <4>1 DEF JobInv, PathOfWindow, Jobs!Open, Jobs!Acts
      <4>3. \/ row' = [row EXCEPT !.state = "active", !.closes = 0]
            \/ row' = [row EXCEPT !.state = "settled"]
        BY <2>3, <4>2
      <4>4. (row'.state = "active" /\ row'.closes = 0) \/ row'.state = "settled"
        BY <1>t, <4>3 DEF DeadlineRows
      <4> QED BY <2>8, <3>2, <4>4 DEF Jobs!Open
    <3>3. JobOfWindow'
      BY <2>1, <2>8, <3>2 DEF JobOfWindow, Jobs!Open
    <3> QED BY <2>5, <2>6, <3>1, <3>3 DEF JobInv
  <2> QED BY <2>7, <2>8
<1>8. CASE Jobs!Fail
  <2>1. PICK phase \in {"failed", "delayed"}, tries \in Int :
           job' = [job EXCEPT !.tries = tries, !.state = phase]
    <3>1. PICK phase, tries :
             /\ tries = job.tries + 1
             /\ phase = IF job.tries + 1 = Attempts THEN "failed" ELSE "delayed"
      OBVIOUS
    <3>2. job' = [job EXCEPT !.tries = tries, !.state = phase]
      BY <1>8, <3>1 DEF Jobs!Fail
    <3>3. phase \in {"failed", "delayed"} /\ tries \in Int
      BY <1>t, <3>1
    <3> QED BY <3>2, <3>3
  <2>2. job' \in JobRows /\ job'.state = phase /\ job'.at = job.at
    BY <1>t, <2>1 DEF JobRows, JobStates
  <2>3. job.state = "running" /\ UNCHANGED <<row, toAdd, hours, adrift, moved>>
    BY <1>8 DEF Jobs!Fail
  <2>4. JobType'
    BY <1>t, <2>2, <2>3, NoJobIsNone DEF JobType, Jobs!NoJob
  <2> QED BY <1>1, <2>2, <2>3, <2>4
          DEF JobInv, PathOfWindow, JobOfWindow, RunsWhenDue, Jobs!Open
<1>9. CASE Jobs!Crash
  <2>1. /\ toAdd' = 0 /\ adrift' = (adrift \/ toAdd # 0)
        /\ UNCHANGED <<row, job, hours, moved>>
    BY <1>9 DEF Jobs!Crash
  <2>2. adrift' \in BOOLEAN /\ (adrift => adrift') /\ (toAdd # 0 => adrift')
    BY <1>t, <2>1
  <2>3. JobType'
    BY <1>t, <2>1, <2>2 DEF JobType, Jobs!NoJob
  <2> QED BY <1>1, <2>1, <2>2, <2>3
          DEF JobInv, PathOfWindow, JobOfWindow, RunsWhenDue, Jobs!Open
<1>10. CASE Jobs!LoseRedis
  <2>1. job' = Jobs!NoJob /\ adrift' = TRUE /\ UNCHANGED <<row, toAdd, hours, moved>>
    BY <1>10 DEF Jobs!LoseRedis
  <2>2. JobType'
    BY <1>t, <2>1, NoJobIsNone DEF JobType, Jobs!NoJob
  <2> QED BY <1>1, <2>1, <2>2, NoJobIsNone
          DEF JobInv, PathOfWindow, JobOfWindow, RunsWhenDue, Jobs!Open
<1>11. ASSUME NEW rearmed \in BOOLEAN, Jobs!Boot(rearmed) PROVE JobInv'
  <2>1. /\ job' = IF rearmed THEN Jobs!Rearm ELSE Jobs!Recovered
        /\ adrift' = (adrift /\ ~rearmed) /\ UNCHANGED <<row, toAdd, hours, moved>>
    BY <1>11 DEF Jobs!Boot
  <2>2. PathOfWindow'
    BY <1>1, <2>1 DEF JobInv, PathOfWindow, Jobs!Open
  <2>3. adrift' \in BOOLEAN /\ (~rearmed => adrift' = adrift)
    BY <1>t, <2>1
  \* The job that is missing is added from the row ...
  <2>4. CASE rearmed /\ Jobs!Waiting /\ job = Jobs!NoJob
    <3>1. job' = Jobs!Delayed(row.closes)
      BY <2>1, <2>4 DEF Jobs!Rearm
    <3>2. job' \in JobRows /\ job'.state = "delayed" /\ job'.at = row.closes
      BY <1>t, <3>1, DelayedTyped
    <3>3. JobType'
      BY <1>t, <2>1, <2>3, <3>2, NoJobIsNone DEF JobType, Jobs!NoJob
    <3> QED BY <2>1, <2>2, <3>2, <3>3 DEF JobInv, JobOfWindow, RunsWhenDue, Jobs!Open
  \* ... and any other is kept, back in line if it was running.
  <2>5. CASE ~(rearmed /\ Jobs!Waiting /\ job = Jobs!NoJob)
    <3>1. job' = IF job.state = "running" THEN [job EXCEPT !.state = "delayed"] ELSE job
      BY <2>1, <2>5 DEF Jobs!Rearm, Jobs!Recovered
    <3>2. /\ job' \in JobRows /\ job'.at = job.at
          /\ job'.state = IF job.state = "running" THEN "delayed" ELSE job.state
      BY <1>t, <3>1 DEF JobRows, JobStates
    <3>3. job'.state = "none" => job' = job /\ job = Jobs!NoJob
      BY <1>t, <3>1, <3>2
    <3>4. JobType'
      BY <1>t, <2>1, <2>3, <3>2, <3>3, NoJobIsNone DEF JobType, Jobs!NoJob
    <3>5. Jobs!Open /\ job'.state = "none" => ~rearmed
      BY <2>5, <3>3 DEF Jobs!Open, Jobs!Waiting
    <3>6. JobOfWindow'
      BY <1>1, <1>t, <2>1, <2>3, <3>2, <3>5 DEF JobInv, JobOfWindow, Jobs!Open
    <3>7. RunsWhenDue'
      BY <3>2 DEF RunsWhenDue
    <3> QED BY <2>2, <3>4, <3>6, <3>7 DEF JobInv
  <2> QED BY <2>4, <2>5
<1>12. CASE Jobs!Tick
  <2>1. hours' = hours + 1 /\ UNCHANGED <<row, job, toAdd, adrift, moved>>
    BY <1>12 DEF Jobs!Tick
  <2>2. JobType'
    BY <1>t, <2>1 DEF JobType, Jobs!NoJob
  <2>3. RunsWhenDue'
    BY <1>1, <1>t, <2>1 DEF JobInv, RunsWhenDue
  <2> QED BY <1>1, <2>1, <2>2, <2>3 DEF JobInv, PathOfWindow, JobOfWindow, Jobs!Open
<1> QED BY <1>1, <1>u, <1>3, <1>4, <1>5, <1>6, <1>7, <1>8, <1>9, <1>10, <1>11, <1>12
    DEF Jobs!Next, Jobs!vars

\* A market that waits for its deadline has its job, unless it was lost since
\* the last re-arming, failed for good, or found its id taken by the job of an
\* earlier closing time (rearmOpenWindows).
THEOREM DeadlinesAreArmed == Spec => []Jobs!DeadlineIsArmed
<1>1. JobInv => Jobs!DeadlineIsArmed
  BY DEF JobInv, JobType, JobRows, JobStates, JobOfWindow, Jobs!DeadlineIsArmed
<1> QED BY <1>1, JobInit, JobKeep, PTL DEF Spec

\* No window closes before its time, unless by a job of an earlier closing
\* time (closeWindow looks at no clock).
THEOREM WindowsCloseOnTime == Spec => Jobs!ClosesOnTime
<1>1. JobInv /\ [Next]_vars =>
         [Jobs!Open /\ job'.state = "completed" /\ row' # row /\ ~moved
             => hours >= row.closes]_<<row, job>>
  <2>1. SUFFICES ASSUME JobInv, [Jobs!Next]_(Jobs!vars),
                        Jobs!Open, job'.state = "completed", row' # row, ~moved
                 PROVE  hours >= row.closes
    BY DeadlineStep
  <2>2. job.state # "completed" /\ (job.state = "running" => job.at = row.closes)
    BY <2>1 DEF JobInv, JobOfWindow
  <2>3. job.state = "running"
    BY <2>1, <2>2 DEF Jobs!Next, Jobs!vars, Jobs!OpenFunding, Jobs!Seed, Jobs!FillRound,
       Jobs!OpenRound, Jobs!Settle, Jobs!Promise, Jobs!Schedule, Jobs!Start, Jobs!Handle,
       Jobs!Fail, Jobs!Crash, Jobs!LoseRedis, Jobs!Boot, Jobs!Tick
  <2>4. job.at <= hours /\ job.at \in Int /\ hours \in Int /\ row.closes \in Int
    BY <2>1, <2>3 DEF JobInv, RunsWhenDue, JobType, JobRows, DeadlineRows
  <2> QED BY <2>2, <2>3, <2>4
<1> QED BY <1>1, JobInit, JobKeep, PTL DEF Spec, Jobs!ClosesOnTime

---------------------------------------------------------------------------
(* The nightly reconciliation.                                             *)

LEMMA NightStep == [Next]_vars => [Books!Next]_(Books!vars)
BY DEF Next, vars, books, Books!vars, Books!configVars

Balances == [Accounts -> Int]

AddedUp(f) == SumFunctionOnSet(f, Accounts)

\* What the fold of the balances adds up to.
LEMMA BooksTotalIsSum == ASSUME NEW f PROVE Books!Total(f) = AddedUp(f)
<1>1. Books!Total(f) = PartialSum(f, Accounts)[Accounts]
  BY DEF Books!Total, Books!MapThenSumSet, Books!MapThenFoldSet, PartialSum, Pick
<1> QED BY <1>1, SumIsPartialSum DEF AddedUp

Moved(f, a, n) == [f EXCEPT ![a] = @ + n]

LEMMA OneMore ==
    ASSUME NEW f \in Balances, NEW a \in Accounts, NEW n \in Int
    PROVE  /\ Moved(f, a, n) \in Balances
           /\ AddedUp(Moved(f, a, n)) = AddedUp(f) + n
           /\ AddedUp(f) \in Int
<1>1. PICK g : g = Moved(f, a, n)
  OBVIOUS
<1>2. g \in Balances /\ g[a] = f[a] + n
  BY <1>1 DEF Balances, Moved
<1>3. \A y \in Accounts : f[y] \in Int /\ (y # a => g[y] = f[y])
  BY <1>1 DEF Balances, Moved
<1>4. g[a] \in Int /\ f[a] \in Int /\ IsFiniteSet(Accounts)
  BY <1>2, <1>3, AccountsAssumption
<1>5. SumFunctionOnSet(g, Accounts) = SumFunctionOnSet(f, Accounts) - f[a] + g[a]
  BY <1>3, <1>4, SumOneChange
<1>6. SumFunctionOnSet(f, Accounts) \in Int
  BY <1>3, <1>4, SumRemove
<1>7. SumFunctionOnSet(g, Accounts) = SumFunctionOnSet(f, Accounts) + n
  BY <1>2, <1>4, <1>5, <1>6
<1> QED BY <1>1, <1>2, <1>6, <1>7 DEF AddedUp

\* Two sides of a posting.
Posted(f, a, b) == [f EXCEPT ![a] = @ - 1, ![b] = @ + 1]

LEMMA PostingBalances ==
    ASSUME NEW f \in Balances, NEW a \in Accounts, NEW b \in Accounts, a # b
    PROVE  /\ Posted(f, a, b) \in Balances
           /\ AddedUp(Posted(f, a, b)) = AddedUp(f)
           /\ \A y \in Accounts : Posted(f, a, b)[y] =
                  f[y] + (IF y = a THEN -1 ELSE IF y = b THEN 1 ELSE 0)
<1>1. PICK g, h : g = Moved(f, a, -1) /\ h = Moved(g, b, 1)
  OBVIOUS
<1>2. g \in Balances /\ AddedUp(g) = AddedUp(f) + (-1) /\ AddedUp(f) \in Int
  BY <1>1, OneMore
<1>3. h \in Balances /\ AddedUp(h) = AddedUp(g) + 1
  BY <1>1, <1>2, OneMore
<1>4. \A y \in Accounts : h[y] = f[y] + (IF y = a THEN -1 ELSE IF y = b THEN 1 ELSE 0)
  BY <1>1 DEF Balances, Moved
<1>5. Posted(f, a, b) = h
  BY <1>1 DEF Posted, Balances, Moved
<1> QED BY <1>2, <1>3, <1>4, <1>5

RunPlaces == {"rest", "wallets", "exception", "freeze"}

RunRows(c) == [
    at : RunPlaces, done : Int, sums : Balances, verdict : {"none", "clean", "exception"},
    current : {c}, moved : BOOLEAN, drifted : BOOLEAN]

\* Every posting has two sides, so the ledger adds up to nothing; a balance
\* edited without an entry is off by one, and no posting makes up for it.
OneOff ==
    /\ ledger \in Balances /\ wallet \in Balances
    /\ AddedUp(ledger) = 0
    /\ Books!Drift = {} => AddedUp(wallet) = 0
    /\ Books!Drift # {} => AddedUp(wallet) = 1

\* What the run read of the ledger added up, and is what the ledger says
\* unless a posting came after; what was off when it began still is.
RunInv ==
    /\ recon \in RunRows(recon.current)
    /\ AddedUp(recon.sums) = 0
    /\ recon.at = "wallets" =>
           /\ recon.verdict = "none"
           /\ ~recon.moved => recon.sums = ledger
           /\ recon.drifted => Books!Drift # {}
    /\ Books!VerdictIsRight

LEMMA NothingAddsUp == AddedUp([a \in Accounts |-> 0]) = 0
<1>1. PICK z, f : z = 0 /\ f = [a \in Accounts |-> z]
  OBVIOUS
<1>2. \A a \in Accounts : f[a] = z
  BY <1>1
<1>3. Cardinality(Accounts) \in Nat
  BY AccountsAssumption, FS_CardinalityType
<1>4. SumFunctionOnSet(f, Accounts) = z * Cardinality(Accounts)
  BY <1>1, <1>2, AccountsAssumption, SumConstant
<1> QED BY <1>1, <1>3, <1>4 DEF AddedUp

LEMMA NightInit == Init => OneOff /\ RunInv
<1>1. SUFFICES ASSUME Init PROVE OneOff /\ RunInv
  OBVIOUS
<1>2. /\ ledger = [a \in Accounts |-> 0] /\ wallet = ledger /\ recon = Books!NoRecon
  BY <1>1 DEF Init, Books!Init
<1>3. ledger \in Balances /\ AddedUp(ledger) = 0
  BY <1>2, NothingAddsUp DEF Balances
<1>4. Books!Drift = {}
  BY <1>2 DEF Books!Drift
<1>5. recon = [at |-> "rest", done |-> 0, sums |-> ledger, verdict |-> "none",
               current |-> 0, moved |-> FALSE, drifted |-> FALSE]
  BY <1>2 DEF Books!NoRecon
<1>6. recon \in RunRows(recon.current) /\ recon.sums = ledger
  BY <1>3, <1>5 DEF RunRows, RunPlaces
<1>7. recon.at = "rest" /\ recon.verdict = "none"
  BY <1>5
<1>8. OneOff
  BY <1>2, <1>3, <1>4 DEF OneOff
<1>9. RunInv
  BY <1>3, <1>6, <1>7 DEF RunInv, Books!VerdictIsRight
<1> QED BY <1>8, <1>9

\* A posting moves the wallets as it moves the ledger.
LEMMA OneOffKeeps == OneOff /\ [Next]_vars => OneOff'
<1>1. SUFFICES ASSUME OneOff, [Books!Next]_(Books!vars) PROVE OneOff'
  BY NightStep
<1>2. CASE UNCHANGED <<ledger, wallet>>
  BY <1>1, <1>2 DEF OneOff, Books!Drift
<1>3. ASSUME NEW a \in Accounts, NEW b \in Accounts, Books!Post(a, b) PROVE OneOff'
  <2>1. a # b /\ ledger' = Posted(ledger, a, b) /\ wallet' = Posted(wallet, a, b)
    BY <1>3 DEF Books!Post, Posted
  <2>2. ledger \in Balances /\ wallet \in Balances
    BY <1>1 DEF OneOff
  <2>3. PICK l, w : l = Posted(ledger, a, b) /\ w = Posted(wallet, a, b)
    OBVIOUS
  <2>4. /\ l \in Balances /\ w \in Balances
        /\ AddedUp(l) = AddedUp(ledger) /\ AddedUp(w) = AddedUp(wallet)
        /\ \A y \in Accounts :
              /\ l[y] = ledger[y] + (IF y = a THEN -1 ELSE IF y = b THEN 1 ELSE 0)
              /\ w[y] = wallet[y] + (IF y = a THEN -1 ELSE IF y = b THEN 1 ELSE 0)
    BY <2>1, <2>2, <2>3, PostingBalances
  <2>5. \A y \in Accounts : ledger[y] \in Int /\ wallet[y] \in Int
    BY <2>2 DEF Balances
  <2>6. {y \in Accounts : w[y] # l[y]} = {y \in Accounts : wallet[y] # ledger[y]}
    BY <2>4, <2>5
  <2>7. ledger' = l /\ wallet' = w
    BY <2>1, <2>3
  <2>8. Books!Drift' = Books!Drift
    BY <2>6, <2>7 DEF Books!Drift
  <2> QED BY <1>1, <2>4, <2>7, <2>8 DEF OneOff
<1>4. ASSUME NEW a \in Accounts, Books!Tamper(a) PROVE OneOff'
  <2>1. Books!Drift = {} /\ wallet' = [wallet EXCEPT ![a] = @ + 1] /\ ledger' = ledger
    BY <1>4 DEF Books!Tamper
  <2>2. ledger \in Balances /\ wallet \in Balances /\ AddedUp(wallet) = 0
    BY <1>1, <2>1 DEF OneOff
  <2>3. PICK w : w = Moved(wallet, a, 1)
    OBVIOUS
  <2>4. w \in Balances /\ AddedUp(w) = 1
    BY <2>2, <2>3, OneMore
  <2>5. wallet[a] = ledger[a] /\ wallet[a] \in Int /\ w[a] = wallet[a] + 1
    BY <2>1, <2>2, <2>3 DEF Books!Drift, Balances, Moved
  <2>6. w[a] # ledger[a]
    BY <2>5
  <2>7. wallet' = w
    BY <2>1, <2>3 DEF Moved
  <2>8. Books!Drift' # {}
    BY <2>1, <2>6, <2>7 DEF Books!Drift
  <2> QED BY <1>1, <2>1, <2>4, <2>7, <2>8 DEF OneOff
<1> QED BY <1>1, <1>2, <1>3, <1>4
    DEF Books!Next, Books!vars, Books!Staff, Books!Serve, Books!ReadLedger,
        Books!ReadWallets, Books!FreezeRead, Books!FreezeWrite

\* Drift, once there, stays.
LEMMA DriftStays == OneOff /\ [Next]_vars => (Books!Drift # {} => Books!Drift' # {})
<1>1. SUFFICES ASSUME OneOff, OneOff', [Books!Next]_(Books!vars), Books!Drift # {}
               PROVE  Books!Drift' # {}
  BY NightStep, OneOffKeeps
<1>2. CASE UNCHANGED <<ledger, wallet>>
  BY <1>1, <1>2 DEF Books!Drift
<1>3. ASSUME NEW a \in Accounts, NEW b \in Accounts, Books!Post(a, b)
      PROVE  Books!Drift' # {}
  <2>1. a # b /\ wallet' = Posted(wallet, a, b) /\ wallet \in Balances
    BY <1>1, <1>3 DEF Books!Post, Posted, OneOff
  <2>2. PICK w : w = Posted(wallet, a, b)
    OBVIOUS
  <2>3. AddedUp(w) = AddedUp(wallet)
    BY <2>1, <2>2, PostingBalances
  <2>4. AddedUp(wallet) = 1 /\ (Books!Drift' = {} => AddedUp(wallet') = 0)
    BY <1>1 DEF OneOff
  <2> QED BY <2>1, <2>2, <2>3, <2>4
<1> QED BY <1>1, <1>2, <1>3
    DEF Books!Next, Books!vars, Books!Staff, Books!Serve, Books!Tamper, Books!ReadLedger,
        Books!ReadWallets, Books!FreezeRead, Books!FreezeWrite

LEMMA RunKeeps == OneOff /\ RunInv /\ [Next]_vars => RunInv'
<1>1. SUFFICES ASSUME OneOff, RunInv, [Books!Next]_(Books!vars),
                      Books!Drift # {} => Books!Drift' # {}
               PROVE  RunInv'
  BY NightStep, DriftStays
<1>t. /\ recon \in RunRows(recon.current) /\ recon.sums \in Balances /\ ledger \in Balances
      /\ recon.at \in RunPlaces /\ recon.moved \in BOOLEAN /\ recon.drifted \in BOOLEAN
  BY <1>1 DEF RunInv, RunRows, OneOff
<1>d. PICK done \in Int : done = recon.done + 1
  BY <1>1 DEF RunInv, RunRows
\* Postings apart, the run keeps what it has read.
<1>2. CASE UNCHANGED <<recon, ledger>>
  BY <1>1, <1>2 DEF RunInv, Books!VerdictIsRight
<1>3. ASSUME NEW a \in Accounts, NEW b \in Accounts, Books!Post(a, b) PROVE RunInv'
  <2>1. recon' = [recon EXCEPT !.moved = recon.moved \/ recon.at = "wallets"]
    BY <1>3 DEF Books!Post
  <2>2. PICK m \in BOOLEAN : m = (recon.moved \/ recon.at = "wallets")
    BY <1>t
  <2>3. /\ recon' \in RunRows(recon'.current) /\ recon'.sums = recon.sums
        /\ recon'.at = recon.at /\ recon'.verdict = recon.verdict
        /\ recon'.drifted = recon.drifted /\ recon'.moved = m
    BY <1>t, <2>1, <2>2 DEF RunRows
  <2>4. recon.at = "wallets" => recon'.moved
    BY <2>2, <2>3
  <2>5. recon.moved => recon'.moved
    BY <2>2, <2>3
  <2> QED BY <1>1, <2>3, <2>4, <2>5 DEF RunInv, Books!VerdictIsRight
<1>4. CASE Books!ReadLedger
  <2>1. PICK off \in BOOLEAN : off = (Books!Drift # {})
    OBVIOUS
  <2>2. /\ recon' = [recon EXCEPT !.at = "wallets", !.sums = ledger, !.moved = FALSE,
                                  !.drifted = off, !.verdict = "none"]
        /\ UNCHANGED <<ledger, wallet>>
    BY <1>4, <2>1 DEF Books!ReadLedger
  <2>3. /\ recon' \in RunRows(recon'.current) /\ recon'.sums = ledger
        /\ recon'.verdict = "none" /\ recon'.drifted = off
    BY <1>t, <2>2 DEF RunRows, RunPlaces
  <2>4. recon'.drifted => Books!Drift' # {}
    BY <1>1, <2>1, <2>3
  <2> QED BY <1>1, <2>2, <2>3, <2>4 DEF RunInv, OneOff, Books!VerdictIsRight
<1>5. CASE Books!ReadWallets
  <2>1. /\ recon.at = "wallets" /\ UNCHANGED <<ledger, wallet>> /\ Books!Drift' = Books!Drift
        /\ recon' = IF Books!Clean
                    THEN [recon EXCEPT !.at = "rest", !.done = @ + 1, !.verdict = "clean"]
                    ELSE [recon EXCEPT !.at = "exception", !.verdict = "exception"]
    BY <1>5 DEF Books!ReadWallets, Books!Drift
  \* A run that passed: what it read of the ledger comes to nothing, so that
  \* the wallets do, and none is off.
  <2>2. CASE Books!Clean
    <3>1. recon' = [recon EXCEPT !.at = "rest", !.done = done, !.verdict = "clean"]
      BY <1>d, <2>1, <2>2
    <3>2. /\ recon' \in RunRows(recon'.current) /\ recon'.sums = recon.sums
          /\ recon'.at = "rest" /\ recon'.verdict = "clean" /\ recon'.drifted = recon.drifted
      BY <1>t, <3>1 DEF RunRows, RunPlaces
    <3>3. AddedUp(wallet) = 0
      BY <1>1, <2>2, BooksTotalIsSum DEF Books!Clean, RunInv
    <3>4. ~recon.drifted
      BY <1>1, <2>1, <3>3 DEF OneOff, RunInv
    <3> QED BY <1>1, <3>2, <3>4 DEF RunInv, Books!VerdictIsRight
  \* An exception with nothing posted between the reads is a wallet off.
  <2>3. CASE ~Books!Clean
    <3>1. recon' = [recon EXCEPT !.at = "exception", !.verdict = "exception"]
      BY <2>1, <2>3
    <3>2. /\ recon' \in RunRows(recon'.current) /\ recon'.sums = recon.sums
          /\ recon'.at = "exception" /\ recon'.verdict = "exception"
          /\ recon'.moved = recon.moved
      BY <1>t, <3>1 DEF RunRows, RunPlaces
    <3>3. ASSUME ~recon.moved PROVE Books!Drift # {}
      <4>1. recon.sums = ledger
        BY <1>1, <2>1, <3>3 DEF RunInv
      <4>2. ledger # wallet
        BY <2>3, <4>1 DEF Books!Clean
      <4> QED BY <1>1, <4>2 DEF OneOff, Balances, Books!Drift
    <3> QED BY <1>1, <2>1, <3>2, <3>3 DEF RunInv, Books!VerdictIsRight
  <2> QED BY <2>2, <2>3
\* What follows an exception leaves what was read and the verdict alone.
<1>6. CASE Books!FreezeRead \/ Books!FreezeWrite
  <2>1. UNCHANGED <<ledger, wallet>> /\ Books!Drift' = Books!Drift
    BY <1>6 DEF Books!FreezeRead, Books!FreezeWrite, Books!Drift
  <2>2. \/ recon' = [recon EXCEPT !.at = "rest", !.done = done]
        \/ \E v : recon' = [recon EXCEPT !.at = "freeze", !.current = v]
    BY <1>6, <1>d DEF Books!FreezeRead, Books!FreezeWrite, Books!Finish
  <2>3. /\ recon' \in RunRows(recon'.current) /\ recon'.sums = recon.sums
        /\ recon'.at # "wallets" /\ recon'.verdict = recon.verdict
        /\ recon'.moved = recon.moved /\ recon'.drifted = recon.drifted
    <3>1. CASE recon' = [recon EXCEPT !.at = "rest", !.done = done]
      BY <1>t, <3>1 DEF RunRows, RunPlaces
    <3>2. ASSUME NEW v, recon' = [recon EXCEPT !.at = "freeze", !.current = v]
          PROVE  /\ recon' \in RunRows(recon'.current) /\ recon'.sums = recon.sums
                 /\ recon'.at # "wallets" /\ recon'.verdict = recon.verdict
                 /\ recon'.moved = recon.moved /\ recon'.drifted = recon.drifted
      BY <1>t, <3>2 DEF RunRows, RunPlaces
    <3> QED BY <2>2, <3>1, <3>2
  <2> QED BY <1>1, <2>1, <2>3 DEF RunInv, Books!VerdictIsRight
\* A balance edited behind the ledger's back.
<1>7. ASSUME NEW a \in Accounts, Books!Tamper(a) PROVE RunInv'
  BY <1>2, <1>7 DEF Books!Tamper
<1> QED BY <1>1, <1>2, <1>3, <1>4, <1>5, <1>6, <1>7
    DEF Books!Next, Books!vars, Books!Staff, Books!Serve

\* A run that passed found no wallet off when it began, and an exception is a
\* wallet that was, or a posting between its two reads (ReconciliationService:
\* "tolerance zero").
THEOREM VerdictsAreRight == Spec => []Books!VerdictIsRight
<1>1. OneOff /\ RunInv /\ [Next]_vars => (OneOff /\ RunInv)'
  BY OneOffKeeps, RunKeeps
<1>2. OneOff /\ RunInv => Books!VerdictIsRight
  BY DEF RunInv
<1> QED BY <1>1, <1>2, NightInit, PTL DEF Spec

---------------------------------------------------------------------------
(* The versions of a key.                                                 *)

VersionRow == [value : BOOLEAN, state : {"active", "pending", "superseded"}]

ProcessRow(list) == [at : {"serving", "promoting"}, list : {list}, cache : BOOLEAN]

\* What was never due is pending, one version that was is active, and what a
\* process has listed or serves is of versions that were.
ConfigInv ==
    /\ versions \in Seq(VersionRow)
    /\ due \subseteq DOMAIN versions
    /\ \E v \in due : Books!Active = {v}
    /\ DOMAIN process = Processes
    /\ \A p \in Processes :
          /\ process[p] \in ProcessRow(process[p].list)
          /\ process[p].list \subseteq due
          /\ \E v \in due : process[p].cache = versions[v].value

LEMMA ConfigInit == Init => ConfigInv
<1>1. SUFFICES ASSUME Books!ConfigInit PROVE ConfigInv
  BY DEF Init, Books!Init
<1>2. PICK r : r = [value |-> FALSE, state |-> "active"]
  OBVIOUS
<1>3. versions = <<r>> /\ due = {1} /\ r \in VersionRow /\ r.state = "active" /\ r.value = FALSE
  BY <1>1, <1>2 DEF Books!ConfigInit, VersionRow
<1>4. versions \in Seq(VersionRow) /\ DOMAIN versions = {1} /\ versions[1] = r
  BY <1>3
<1>5. Books!Active = {1}
  BY <1>3, <1>4 DEF Books!Active, Books!Versions
<1>6. PICK q : q = [at |-> "serving", list |-> {}, cache |-> FALSE]
  OBVIOUS
<1>7. DOMAIN process = Processes /\ \A p \in Processes : process[p] = q
  BY <1>1, <1>6 DEF Books!ConfigInit
<1>8. q \in ProcessRow(q.list) /\ q.list = {} /\ q.cache = FALSE
  BY <1>6 DEF ProcessRow
<1>9. \A p \in Processes :
        /\ process[p] \in ProcessRow(process[p].list)
        /\ process[p].list \subseteq due
        /\ \E v \in due : process[p].cache = versions[v].value
  BY <1>3, <1>4, <1>7, <1>8
<1> QED BY <1>3, <1>4, <1>5, <1>7, <1>9 DEF ConfigInv

\* Versions are added at the end, and none changes what it says.
Grown(vs, n, r) ==
    /\ vs \in Seq(VersionRow) /\ DOMAIN vs = DOMAIN versions \cup {n}
    /\ vs[n] = r /\ n \notin DOMAIN versions
    /\ \A v \in DOMAIN versions : vs[v] = versions[v]

LEMMA VersionAdded ==
    ASSUME ConfigInv, NEW r \in VersionRow, NEW vs, vs = Append(versions, r),
           NEW m, m = Len(versions) + 1
    PROVE  Grown(vs, m, r)
<1>1. versions \in Seq(VersionRow)
  BY DEF ConfigInv
<1>2. PICK n : n = Len(versions) /\ n \in Nat /\ DOMAIN versions = 1 .. n
  BY <1>1
<1>3. vs \in Seq(VersionRow) /\ Len(vs) = n + 1 /\ vs[n + 1] = r
      /\ \A v \in 1 .. n : vs[v] = versions[v]
  BY <1>1, <1>2
<1>4. DOMAIN vs = 1 .. (n + 1)
  BY <1>3
<1> QED BY <1>2, <1>3, <1>4 DEF Grown

\* What is kept when a process moves and the versions do not.
LEMMA ProcessMoves ==
    ASSUME ConfigInv, NEW p \in Processes, NEW at \in {"serving", "promoting"},
           NEW list \in SUBSET due, NEW cache_1, NEW v \in due, cache_1 = versions[v].value,
           process' = [process EXCEPT ![p] = [at |-> at, list |-> list, cache |-> cache_1]],
           due' = due, NEW w \in due, Books!Active' = {w},
           versions' \in Seq(VersionRow), DOMAIN versions' = DOMAIN versions,
           \A x \in DOMAIN versions : versions'[x].value = versions[x].value
    PROVE  ConfigInv'
<1>1. PICK r : r = [at |-> at, list |-> list, cache |-> cache_1]
  OBVIOUS
<1>2. versions[v] \in VersionRow
  BY DEF ConfigInv
<1>3. r \in ProcessRow(r.list) /\ r.list \subseteq due /\ r.cache = versions[v].value
  BY <1>1, <1>2 DEF ProcessRow, VersionRow
<1>4. /\ DOMAIN process' = Processes
      /\ \A q \in Processes : process'[q] = IF q = p THEN r ELSE process[q]
  BY <1>1 DEF ConfigInv
<1>5. ASSUME NEW q \in Processes
      PROVE  /\ process'[q] \in ProcessRow(process'[q].list)
             /\ process'[q].list \subseteq due'
             /\ \E x \in due' : process'[q].cache = versions'[x].value
  <2>1. PICK x \in due : process'[q].cache = versions[x].value
    BY <1>3, <1>4 DEF ConfigInv
  <2>2. x \in DOMAIN versions
    BY DEF ConfigInv
  <2> QED BY <1>3, <1>4, <2>1, <2>2 DEF ConfigInv
<1> QED BY <1>4, <1>5 DEF ConfigInv

\* What is kept when the versions move and no process does: none of them is
\* taken back or says something else.
LEMMA VersionsMove ==
    ASSUME ConfigInv, process' = process, due \subseteq due', due' \subseteq DOMAIN versions',
           NEW w \in due', Books!Active' = {w},
           versions' \in Seq(VersionRow),
           \A x \in DOMAIN versions : versions'[x].value = versions[x].value
    PROVE  ConfigInv'
<1>1. ASSUME NEW q \in Processes
      PROVE  /\ process'[q] \in ProcessRow(process'[q].list)
             /\ process'[q].list \subseteq due'
             /\ \E x \in due' : process'[q].cache = versions'[x].value
  <2>1. PICK x \in due : process[q].cache = versions[x].value
    BY DEF ConfigInv
  <2>2. x \in DOMAIN versions /\ x \in due'
    BY DEF ConfigInv
  <2> QED BY <2>1, <2>2 DEF ConfigInv
<1> QED BY <1>1 DEF ConfigInv

LEMMA VersionPromoted ==
    ASSUME ConfigInv, NEW v \in due, versions' = Books!Promote(versions, v)
    PROVE  /\ versions' \in Seq(VersionRow) /\ DOMAIN versions' = DOMAIN versions
           /\ \A x \in DOMAIN versions : versions'[x].value = versions[x].value
           /\ Books!Active' = {v}
<1>1. PICK n : n = Len(versions) /\ n \in Nat /\ DOMAIN versions = 1 .. n
  BY DEF ConfigInv
<1>2. v \in 1 .. n /\ versions \in Seq(VersionRow)
  BY <1>1 DEF ConfigInv
<1>3. versions' = [x \in 1 .. n |->
        IF x = v THEN [versions[x] EXCEPT !.state = "active"]
        ELSE IF versions[x].state = "active" THEN [versions[x] EXCEPT !.state = "superseded"]
        ELSE versions[x]]
  BY <1>1 DEF Books!Promote
<1>4. ASSUME NEW x \in 1 .. n
      PROVE  /\ versions'[x] \in VersionRow
             /\ versions'[x].value = versions[x].value
             /\ versions'[x].state = "active" <=> x = v
  <2>1. versions[x] \in VersionRow
    BY <1>1, <1>2
  <2>2. PICK a \in BOOLEAN, s \in {"active", "pending", "superseded"} :
          versions[x] = [value |-> a, state |-> s]
    BY <2>1 DEF VersionRow
  <2>3. versions'[x] = [value |-> a, state |-> IF x = v THEN "active"
                                               ELSE IF s = "active" THEN "superseded" ELSE s]
    BY <1>3, <2>2
  <2>4. CASE x = v
    <3>1. versions'[x] = [value |-> a, state |-> "active"]
      BY <2>3, <2>4
    <3> QED BY <2>2, <2>4, <3>1 DEF VersionRow
  <2>5. CASE x # v /\ s = "active"
    <3>1. versions'[x] = [value |-> a, state |-> "superseded"]
      BY <2>3, <2>5
    <3> QED BY <2>2, <2>5, <3>1 DEF VersionRow
  <2>6. CASE x # v /\ s # "active"
    <3>1. versions'[x] = [value |-> a, state |-> s]
      BY <2>3, <2>6
    <3> QED BY <2>2, <2>6, <3>1 DEF VersionRow
  <2> QED BY <2>4, <2>5, <2>6
<1>5. DOMAIN versions' = 1 .. n
  BY <1>3
<1>6. versions' \in Seq(VersionRow)
  BY <1>1, <1>3, <1>4
<1>7. Books!Active' = {v}
  BY <1>2, <1>4, <1>5 DEF Books!Active, Books!Versions
<1> QED BY <1>1, <1>4, <1>5, <1>6, <1>7

LEMMA ConfigServed ==
    ASSUME ConfigInv, NEW p \in Processes, Books!Refresh(p) PROVE ConfigInv'
<1>1. PICK a, l, c : process[p] = [at |-> a, list |-> l, cache |-> c]
  BY DEF ConfigInv, ProcessRow
<1>2. /\ a \in {"serving", "promoting"} /\ l \subseteq due
      /\ \E v \in due : c = versions[v].value
  BY <1>1 DEF ConfigInv, ProcessRow
<1>3. PICK u \in due : c = versions[u].value
  BY <1>2
<1>4. PICK w \in due : Books!Active = {w}
  BY DEF ConfigInv
<1>5. versions \in Seq(VersionRow) /\ DOMAIN process = Processes
  BY DEF ConfigInv
<1>c. process[p].at = a /\ process[p].list = l /\ process[p].cache = c
  BY <1>1
<1>6. CASE Books!RefreshStart(p)
  <2>1. PICK list : list = Books!DueList
    OBVIOUS
  <2>2. list \in SUBSET due
    BY <2>1 DEF Books!DueList
  <2>3. /\ process' = [process EXCEPT ![p].at = "promoting", ![p].list = list]
        /\ versions' = versions /\ due' = due
    BY <1>6, <2>1 DEF Books!RefreshStart
  <2>4. process' = [process EXCEPT ![p] = [at |-> "promoting", list |-> list, cache |-> c]]
    <3>1. [[process[p] EXCEPT !.at = "promoting"] EXCEPT !.list = list]
             = [at |-> "promoting", list |-> list, cache |-> c]
      <4>1. [process[p] EXCEPT !.at = "promoting"] = [at |-> "promoting", list |-> l, cache |-> c]
        BY <1>1
      <4>2. [[at |-> "promoting", list |-> l, cache |-> c] EXCEPT !.list = list]
               = [at |-> "promoting", list |-> list, cache |-> c]
        OBVIOUS
      <4> QED BY <4>1, <4>2
    <3> QED BY <1>5, <2>3, <3>1
  <2>5. Books!Active' = {w}
    BY <1>4, <2>3 DEF Books!Active, Books!Versions
  <2>6. /\ versions' \in Seq(VersionRow) /\ DOMAIN versions' = DOMAIN versions
        /\ \A x \in DOMAIN versions : versions'[x].value = versions[x].value
    BY <1>5, <2>3
  <2> QED BY <1>3, <1>4, <2>2, <2>3, <2>4, <2>5, <2>6, ProcessMoves
<1>7. CASE Books!ActivateDue(p)
  <2>1. PICK v \in l : /\ versions' = Books!Promote(versions, v)
                       /\ process' = [process EXCEPT ![p].list = l \ {v}]
                       /\ due' = due /\ a = "promoting"
    BY <1>c, <1>7 DEF Books!ActivateDue
  <2>2. v \in due /\ l \ {v} \in SUBSET due
    BY <1>2
  <2>3. process' = [process EXCEPT ![p] = [at |-> a, list |-> l \ {v}, cache |-> c]]
    <3>1. [process[p] EXCEPT !.list = l \ {v}] = [at |-> a, list |-> l \ {v}, cache |-> c]
      BY <1>1
    <3> QED BY <2>1, <3>1
  <2>4. /\ versions' \in Seq(VersionRow) /\ DOMAIN versions' = DOMAIN versions
        /\ \A x \in DOMAIN versions : versions'[x].value = versions[x].value
        /\ Books!Active' = {v}
    BY <2>1, <2>2, VersionPromoted
  <2> QED BY <1>2, <1>3, <2>1, <2>2, <2>3, <2>4, ProcessMoves
<1>8. CASE Books!Load(p)
  <2>1. /\ process' = [process EXCEPT ![p].at = "serving", ![p].cache = versions[w].value]
        /\ versions' = versions /\ due' = due
    BY <1>4, <1>8 DEF Books!Load
  <2>2. process' = [process EXCEPT ![p] =
                       [at |-> "serving", list |-> l, cache |-> versions[w].value]]
    <3>1. PICK x : x = versions[w].value
      OBVIOUS
    <3>2. [[process[p] EXCEPT !.at = "serving"] EXCEPT !.cache = x]
             = [at |-> "serving", list |-> l, cache |-> x]
      <4>1. [process[p] EXCEPT !.at = "serving"] = [at |-> "serving", list |-> l, cache |-> c]
        BY <1>1
      <4>2. [[at |-> "serving", list |-> l, cache |-> c] EXCEPT !.cache = x]
               = [at |-> "serving", list |-> l, cache |-> x]
        OBVIOUS
      <4> QED BY <4>1, <4>2
    <3>3. process' = [process EXCEPT ![p].at = "serving", ![p].cache = x]
      BY <2>1, <3>1
    <3> QED BY <1>5, <3>1, <3>2, <3>3
  <2>3. Books!Active' = {w}
    BY <1>4, <2>1 DEF Books!Active, Books!Versions
  <2>4. PICK x : x = versions[w].value
    OBVIOUS
  <2>5. process' = [process EXCEPT ![p] = [at |-> "serving", list |-> l, cache |-> x]]
    BY <2>2, <2>4
  <2>6. /\ versions' \in Seq(VersionRow) /\ DOMAIN versions' = DOMAIN versions
        /\ \A y \in DOMAIN versions : versions'[y].value = versions[y].value
    BY <1>5, <2>1
  <2>7. l \in SUBSET due /\ due' = due
    BY <1>2, <2>1
  <2> QED BY <1>4, <2>3, <2>4, <2>5, <2>6, <2>7, ProcessMoves
<1> QED BY <1>6, <1>7, <1>8 DEF Books!Refresh

LEMMA ConfigKeep == ConfigInv /\ [Next]_vars => ConfigInv'
<1>1. SUFFICES ASSUME ConfigInv, [Books!Next]_(Books!vars) PROVE ConfigInv'
  BY NightStep
<1>2. PICK w \in due : Books!Active = {w}
  BY <1>1 DEF ConfigInv
<1>v. versions \in Seq(VersionRow) /\ due \subseteq DOMAIN versions
  BY <1>1 DEF ConfigInv
<1>3. CASE UNCHANGED <<versions, due, process>>
  BY <1>1, <1>3 DEF ConfigInv, Books!Active, Books!Versions
<1>4. ASSUME NEW value \in {TRUE, FALSE}, Books!Change(value) PROVE ConfigInv'
  <2>1. PICK r : r = [value |-> value, state |-> "pending"]
    OBVIOUS
  <2>2. versions' = Append(versions, r) /\ due' = due /\ process' = process
    BY <1>4, <2>1 DEF Books!Change
  <2>3. r \in VersionRow /\ r.state = "pending"
    BY <2>1 DEF VersionRow
  <2>m. PICK vs, m : vs = versions' /\ vs = Append(versions, r) /\ m = Len(versions) + 1
    BY <2>2
  <2>4. Grown(vs, m, r)
    BY <1>1, <2>3, <2>m, VersionAdded
  <2>5. Books!Active' = {w}
    BY <1>2, <2>3, <2>m, <2>4 DEF Grown, Books!Active, Books!Versions
  <2>6. due' \subseteq DOMAIN versions' /\ due \subseteq due' /\ w \in due'
    BY <1>v, <2>2, <2>m, <2>4 DEF Grown
  <2>7. /\ versions' \in Seq(VersionRow)
        /\ \A x \in DOMAIN versions : versions'[x].value = versions[x].value
    BY <2>m, <2>4 DEF Grown
  <2> QED BY <1>1, <2>2, <2>5, <2>6, <2>7, VersionsMove
<1>5. ASSUME NEW v \in Books!Versions, Books!EffectiveDate(v) PROVE ConfigInv'
  <2>1. due' = due \cup {v} /\ versions' = versions /\ process' = process
    BY <1>5 DEF Books!EffectiveDate
  <2>2. Books!Active' = {w}
    BY <1>2, <2>1 DEF Books!Active, Books!Versions
  <2>3. due' \subseteq DOMAIN versions' /\ due \subseteq due' /\ w \in due'
    BY <1>v, <2>1 DEF Books!Versions
  <2> QED BY <1>1, <1>v, <2>1, <2>2, <2>3, VersionsMove
<1>6. CASE Books!FreezeWrite
  <2>1. PICK v : v = recon.current
    OBVIOUS
  <2>2. /\ versions' = IF v + 1 \in Books!Versions \/ Books!Active # {v} THEN versions
                       ELSE Append([versions EXCEPT ![v].state = "superseded"],
                                   [value |-> TRUE, state |-> "active"])
        /\ due' = IF versions' = versions THEN due ELSE due \cup {v + 1}
        /\ process' = process
    BY <1>6, <2>1 DEF Books!FreezeWrite
  <2>3. CASE v + 1 \in Books!Versions \/ Books!Active # {v}
    BY <1>3, <2>2, <2>3
  <2>4. CASE v + 1 \notin Books!Versions /\ v = w
    <3>1. PICK n : n = Len(versions) /\ n \in Nat /\ DOMAIN versions = 1 .. n
      BY <1>v
    <3>2. w \in 1 .. n /\ w = n
      BY <1>v, <2>4, <3>1 DEF Books!Versions
    <3>3. PICK a \in BOOLEAN, s \in {"active", "pending", "superseded"} :
                versions[w] = [value |-> a, state |-> s]
      <4>1. versions[w] \in VersionRow
        BY <1>v, <3>1, <3>2
      <4> QED BY <4>1 DEF VersionRow
    <3>4. PICK r, q, vs : /\ r = [value |-> TRUE, state |-> "active"]
                          /\ q = [value |-> a, state |-> "superseded"]
                          /\ vs = [versions EXCEPT ![w] = q]
      OBVIOUS
    <3>5. versions' = Append(vs, r)
      <4>1. [versions[w] EXCEPT !.state = "superseded"] = q
        BY <3>3, <3>4
      <4>2. [versions EXCEPT ![w].state = "superseded"] = vs
        BY <3>4, <4>1
      <4> QED BY <1>2, <2>2, <2>4, <3>4, <4>2
    <3>6. r \in VersionRow /\ q \in VersionRow /\ r.state = "active" /\ q.state = "superseded"
          /\ q.value = a
      BY <3>4 DEF VersionRow
    <3>7. vs \in Seq(VersionRow) /\ Len(vs) = n
          /\ \A x \in 1 .. n : vs[x] = IF x = w THEN q ELSE versions[x]
      BY <1>v, <3>1, <3>2, <3>4, <3>6
    <3>8. versions' \in Seq(VersionRow) /\ DOMAIN versions' = 1 .. (n + 1)
          /\ versions'[n + 1] = r /\ \A x \in 1 .. n : versions'[x] = vs[x]
      BY <3>1, <3>5, <3>6, <3>7
    <3>9. versions' # versions
      BY <3>1, <3>8
    <3>10. due' = due \cup {n + 1}
      BY <2>2, <2>4, <3>2, <3>9
    <3>11. Books!Active' = {n + 1}
      <4>1. \A x \in 1 .. n : versions[x].state = "active" <=> x = w
        BY <1>2, <3>1 DEF Books!Active, Books!Versions
      <4>2. \A x \in 1 .. n : versions'[x].state # "active"
        BY <3>6, <3>7, <3>8, <4>1
      <4>3. \A x \in 1 .. (n + 1) : versions'[x].state = "active" <=> x = n + 1
        BY <3>1, <3>6, <3>8, <4>2
      <4> QED BY <3>1, <3>8, <4>3 DEF Books!Active, Books!Versions
    <3>12. \A x \in DOMAIN versions : versions'[x].value = versions[x].value
      BY <3>1, <3>3, <3>6, <3>7, <3>8
    <3>13. due \subseteq due' /\ due' \subseteq DOMAIN versions' /\ n + 1 \in due'
      BY <1>v, <3>1, <3>8, <3>10
    <3> QED BY <1>1, <2>2, <3>8, <3>11, <3>12, <3>13, VersionsMove
  <2> QED BY <1>2, <2>3, <2>4
<1>7. CASE \/ \E a, b \in Accounts : Books!Post(a, b)
           \/ \E a \in Accounts : Books!Tamper(a)
           \/ Books!ReadLedger \/ Books!ReadWallets \/ Books!FreezeRead
           \/ UNCHANGED Books!vars
  <2>1. UNCHANGED <<versions, due, process>>
    BY <1>7 DEF Books!Post, Books!Tamper, Books!ReadLedger, Books!ReadWallets,
                Books!FreezeRead, Books!vars, Books!configVars
  <2> QED BY <1>3, <2>1
<1>8. ASSUME NEW p \in Processes, Books!Serve(p) PROVE ConfigInv'
  BY <1>1, <1>8, ConfigServed DEF Books!Serve
<1> QED BY <1>1, <1>4, <1>5, <1>6, <1>7, <1>8 DEF Books!Next, Books!Staff

\* However many processes promote and reconciliations freeze, one version is
\* active, and no process serves a change before its date
\* (PlatformConfigService.activateDue: "after a visible delay and never
\* retroactively").
THEOREM ChangesWaitForTheirDate == Spec => []Books!ServedIsDue
<1>1. ConfigInv => Books!ServedIsDue
  BY DEF ConfigInv, Books!ServedIsDue
<1> QED BY <1>1, ConfigInit, ConfigKeep, PTL DEF Spec

---------------------------------------------------------------------------
(* The price on its way to a page.                                        *)

LEMMA FeedStep == [Next]_vars => [Feed!Next]_(Feed!vars)
BY DEF Next, vars, feed, Feed!vars

Ticks == [trade : Nat \ {0}, at : Nat \ {0}]

\* The trades whose tick has not reached Redis.
Underway == committed \cup {k.trade : k \in sending}

FeedType ==
    /\ begun \in Nat /\ clock \in Nat \ {0}
    /\ price \in Nat /\ price <= begun /\ (open => begun # 0)
    /\ committed \subseteq Nat \ {0} /\ sending \subseteq Ticks
    /\ cache = Feed!NoTick \/ cache \in Ticks
    /\ pending = Feed!NoTick \/ pending \in Ticks
    /\ rendered = Feed!NoTick \/ rendered \in [trade : Nat, at : {0}]
    /\ screen = Feed!NoTick \/ screen \in [trade : Nat, at : Nat]
    /\ lost \subseteq Nat

\* No tick, and no page, is ahead of the row.
NothingAhead ==
    /\ \A t \in Underway : t <= price
    /\ cache.trade <= price /\ pending.trade <= price
    /\ rendered.trade <= price /\ screen.trade <= price

\* The price in the row is on its way, the last that arrived, or lost.
RowIsNewest == price \in Underway \cup {cache.trade} \cup lost

\* A page that holds k is no older than the last tick that arrived, unless that
\* tick was lost or waits for the window to close.
UpTo(k) == k # Feed!NoTick /\ pending = Feed!NoTick => cache.trade <= k.trade \/ cache.trade \in lost

\* The gateway holds what arrived last, unless it missed that, and the store is
\* never ahead of it.
KeepsUp ==
    /\ pending # Feed!NoTick =>
          pending.at <= cache.at /\ (pending = cache \/ cache.trade \in lost)
    /\ screen # Feed!NoTick => screen.at = 0 \/ screen.at <= cache.at
    /\ UpTo(rendered) /\ UpTo(screen)

FeedInv ==
    /\ FeedType
    /\ NothingAhead
    /\ watching => screen # Feed!NoTick /\ rendered = Feed!NoTick
    /\ ~crossed => RowIsNewest /\ KeepsUp

LEMMA FeedInit == Init => FeedInv
<1>1. SUFFICES ASSUME Feed!Init PROVE FeedInv
  BY DEF Init
<1>2. /\ begun = 0 /\ ~open /\ price = 0 /\ committed = {} /\ sending = {} /\ clock = 1
      /\ cache = Feed!NoTick /\ pending = Feed!NoTick /\ screen = Feed!NoTick
      /\ rendered = Feed!NoTick /\ ~watching /\ lost = {}
  BY <1>1 DEF Feed!Init
<1>3. Feed!NoTick.trade = 0 /\ Underway = {}
  BY <1>2 DEF Feed!NoTick, Underway
<1>4. FeedType /\ NothingAhead
  BY <1>2, <1>3 DEF FeedType, NothingAhead
<1> QED BY <1>2, <1>3, <1>4 DEF FeedInv, RowIsNewest, KeepsUp, UpTo

\* What the records of ticks and pages hold.
LEMMA TickTyped ==
    /\ \A k \in Ticks : k # Feed!NoTick /\ k.trade \in Nat \ {0} /\ k.at \in Nat \ {0}
    /\ Feed!NoTick.trade = 0 /\ Feed!NoTick.at = -1
    /\ FeedInv =>
          /\ cache.trade \in Nat /\ cache.at \in Int
          /\ pending.trade \in Nat /\ pending.at \in Int
          /\ screen.trade \in Nat /\ screen.at \in Int
          /\ rendered.trade \in Nat /\ rendered.at \in Int
          /\ Underway \subseteq Nat
BY DEF Ticks, Feed!NoTick, FeedInv, FeedType, Underway

LEMMA TradeGoesOut ==
    ASSUME FeedInv, Feed!Begin \/ Feed!Commit \/ Feed!RollBack PROVE FeedInv'
<1>1. UNCHANGED <<sending, cache, pending, rendered, watching, screen, clock, lost, crossed>>
  BY DEF Feed!Begin, Feed!Commit, Feed!RollBack
<1>2. CASE Feed!Begin \/ Feed!RollBack
  <2>1. /\ UNCHANGED <<price, committed>>
        /\ (begun' = begun /\ ~open') \/ begun' = begun + 1
    BY <1>2 DEF Feed!Begin, Feed!RollBack
  <2>2. FeedType'
    BY <1>1, <2>1 DEF FeedInv, FeedType
  <2>3. Underway' = Underway
    BY <1>1, <2>1 DEF Underway
  <2> QED BY <1>1, <2>1, <2>2, <2>3
          DEF FeedInv, NothingAhead, RowIsNewest, KeepsUp, UpTo
<1>3. CASE Feed!Commit
  <2>1. /\ open /\ open' = FALSE /\ price' = begun /\ begun' = begun
        /\ committed' = committed \cup {begun}
    BY <1>3 DEF Feed!Commit
  <2>2. Underway' = Underway \cup {begun}
    BY <1>1, <2>1 DEF Underway
  <2>3. FeedType'
    <3>1. begun \in Nat \ {0}
      BY <2>1 DEF FeedInv, FeedType
    <3>2. ~open'
      BY <2>1
    <3>3. committed' \subseteq Nat \ {0}
      BY <2>1, <3>1 DEF FeedInv, FeedType
    <3> QED BY <1>1, <2>1, <3>1, <3>2, <3>3 DEF FeedInv, FeedType
  <2>4. NothingAhead'
    <3>1. price <= price' /\ price \in Nat /\ price' \in Nat
      BY <2>1 DEF FeedInv, FeedType
    <3> QED BY <1>1, <2>1, <2>2, <3>1, TickTyped DEF FeedInv, NothingAhead
  <2>5. RowIsNewest' /\ (KeepsUp => KeepsUp')
    BY <1>1, <2>1, <2>2 DEF RowIsNewest, KeepsUp, UpTo
  <2> QED BY <1>1, <2>3, <2>4, <2>5 DEF FeedInv
<1> QED BY <1>2, <1>3

LEMMA TickIsMade ==
    ASSUME FeedInv, NEW t \in committed, Feed!Broadcast(t) PROVE FeedInv'
<1>1. PICK k : k = [trade |-> t, at |-> clock]
  OBVIOUS
<1>2. /\ committed' = committed \ {t} /\ sending' = sending \cup {k}
      /\ UNCHANGED <<begun, open, price, cache, pending, rendered, watching, screen,
                     clock, lost, crossed>>
  BY <1>1 DEF Feed!Broadcast, Feed!Tick
<1>3. k \in Ticks /\ k.trade = t
  BY <1>1 DEF FeedInv, FeedType, Ticks
<1>4. Underway' = Underway
  BY <1>2, <1>3 DEF Underway
<1>5. FeedType'
  BY <1>2, <1>3 DEF FeedInv, FeedType
<1> QED BY <1>2, <1>4, <1>5 DEF FeedInv, NothingAhead, RowIsNewest, KeepsUp, UpTo

LEMMA TickArrives ==
    ASSUME FeedInv, NEW k \in sending, Feed!Publish(k) PROVE FeedInv'
<1>1. /\ sending' = sending \ {k} /\ cache' = k
      /\ crossed' = (crossed \/ k.trade < cache.trade \/ k.at < cache.at
                             \/ \E other \in sending : other.trade < k.trade
                             \/ \E t \in committed : t < k.trade)
      /\ IF linked THEN pending' = k /\ lost' = lost
         ELSE lost' = lost \cup {k.trade} /\ pending' = pending
      /\ UNCHANGED <<begun, open, price, committed, rendered, watching, screen, clock>>
  BY DEF Feed!Publish, Feed!Hold
<1>2. k \in Ticks /\ k # Feed!NoTick /\ k.trade \in Nat \ {0} /\ k.at \in Nat \ {0}
  BY TickTyped DEF FeedInv, FeedType
<1>3. FeedType'
  BY <1>1, <1>2 DEF FeedInv, FeedType
<1>4. Underway' \subseteq Underway /\ Underway \subseteq Underway' \cup {k.trade}
      /\ k.trade \in Underway
  BY <1>1 DEF Underway
<1>5. NothingAhead'
  BY <1>1, <1>4 DEF FeedInv, NothingAhead
<1>6. SUFFICES ASSUME ~crossed' PROVE RowIsNewest' /\ KeepsUp'
  BY <1>1, <1>3, <1>5 DEF FeedInv
<1>7. RowIsNewest /\ KeepsUp /\ ~(k.trade < cache.trade) /\ ~(k.at < cache.at)
  BY <1>1, <1>6 DEF FeedInv
<1>8. RowIsNewest'
  <2>1. lost \subseteq lost' /\ cache'.trade = k.trade /\ price' = price
    BY <1>1
  <2>2. CASE price = cache.trade
    <3>1. k.trade <= price
      BY <1>4 DEF FeedInv, NothingAhead
    <3> QED BY <1>2, <1>7, <2>1, <2>2, <3>1, TickTyped DEF RowIsNewest
  <2> QED BY <1>4, <1>7, <2>1, <2>2 DEF RowIsNewest
<1>9. KeepsUp'
  <2>1. screen # Feed!NoTick => screen.at = 0 \/ screen.at <= k.at
    BY <1>2, <1>7, TickTyped DEF KeepsUp
  <2>2. CASE linked
    BY <1>1, <1>2, <2>1, <2>2 DEF KeepsUp, UpTo
  <2>3. CASE ~linked
    <3>1. k.trade \in lost' /\ cache'.trade = k.trade /\ cache'.at = k.at /\ pending' = pending
      BY <1>1, <2>3
    <3>2. pending # Feed!NoTick => pending.at <= k.at
      BY <1>2, <1>7, TickTyped DEF KeepsUp
    <3> QED BY <1>1, <2>1, <3>1, <3>2 DEF KeepsUp, UpTo
  <2> QED BY <2>2, <2>3
<1> QED BY <1>8, <1>9

LEMMA WindowCloses ==
    ASSUME FeedInv, Feed!Flush PROVE FeedInv'
<1>1. /\ pending # Feed!NoTick /\ pending' = Feed!NoTick
      /\ IF watching THEN screen' = Feed!Newer(screen, pending) /\ lost' = lost
         ELSE /\ lost' = IF rendered # Feed!NoTick \/ screen # Feed!NoTick
                         THEN lost \cup {pending.trade} ELSE lost
              /\ screen' = screen
      /\ UNCHANGED <<begun, open, price, committed, sending, cache, rendered, watching,
                     clock, crossed>>
  BY DEF Feed!Flush
<1>2. pending \in Ticks /\ pending.at \in Nat \ {0} /\ pending \in [trade : Nat, at : Nat]
  BY <1>1, TickTyped DEF FeedInv, FeedType, Ticks
<1>3. Underway' = Underway /\ price' = price /\ cache' = cache /\ lost \subseteq lost'
  BY <1>1 DEF Underway
<1>4. RowIsNewest => RowIsNewest'
  BY <1>3 DEF RowIsNewest
<1>5. CASE watching
  <2>1. screen' = (IF screen.at > pending.at THEN screen ELSE pending) /\ lost' = lost
    BY <1>1, <1>5 DEF Feed!Newer
  <2>2. FeedType' /\ (watching' => screen' # Feed!NoTick /\ rendered' = Feed!NoTick)
    BY <1>1, <1>2, <2>1, TickTyped DEF FeedInv, FeedType
  <2>3. NothingAhead'
    <3>1. price \in Nat /\ pending'.trade = 0
      BY <1>1, TickTyped DEF FeedInv, FeedType
    <3>2. screen'.trade <= price
      BY <2>1 DEF FeedInv, NothingAhead
    <3> QED BY <1>1, <1>3, <3>1, <3>2 DEF FeedInv, NothingAhead
  <2>4. SUFFICES ASSUME ~crossed PROVE KeepsUp'
    BY <1>1, <1>4, <2>2, <2>3 DEF FeedInv
  <2>5. KeepsUp /\ screen # Feed!NoTick /\ rendered = Feed!NoTick
    BY <1>5, <2>4 DEF FeedInv
  <2>6. pending.at <= cache.at /\ (pending = cache \/ cache.trade \in lost)
    BY <1>1, <2>5 DEF KeepsUp
  <2>7. screen'.at = 0 \/ screen'.at <= cache.at
    BY <2>1, <2>5, <2>6 DEF KeepsUp
  <2>8. cache.trade <= screen'.trade \/ cache.trade \in lost
    <3>1. CASE pending = cache
      <4>1. screen' = cache
        BY <1>2, <2>1, <2>5, <3>1, TickTyped DEF KeepsUp
      <4> QED BY <4>1, TickTyped
    <3> QED BY <2>6, <3>1
  <2> QED BY <1>1, <1>3, <2>1, <2>5, <2>7, <2>8 DEF KeepsUp, UpTo
<1>6. CASE ~watching
  <2>1. screen' = screen /\ FeedType'
    BY <1>1, <1>2, <1>6 DEF FeedInv, FeedType
  <2>2. NothingAhead'
    <3>1. price \in Nat /\ pending'.trade = 0
      BY <1>1, TickTyped DEF FeedInv, FeedType
    <3> QED BY <1>1, <1>3, <2>1, <3>1 DEF FeedInv, NothingAhead
  <2>3. SUFFICES ASSUME ~crossed PROVE KeepsUp'
    BY <1>1, <1>4, <1>6, <2>1, <2>2 DEF FeedInv
  <2>4. KeepsUp
    BY <2>3 DEF FeedInv
  <2>5. rendered # Feed!NoTick \/ screen # Feed!NoTick => cache.trade \in lost'
    BY <1>1, <1>3, <1>6, <2>4 DEF KeepsUp
  <2> QED BY <1>1, <1>3, <2>1, <2>4, <2>5 DEF KeepsUp, UpTo
<1> QED BY <1>5, <1>6

LEMMA PageOpens ==
    ASSUME FeedInv, Feed!Render \/ Feed!Hydrate \/ Feed!Join PROVE FeedInv'
<1>1. UNCHANGED <<begun, open, price, committed, sending, cache, pending, clock, lost, crossed>>
  BY DEF Feed!Render, Feed!Hydrate, Feed!Join
<1>2. Underway' = Underway
  BY <1>1 DEF Underway
<1>3. CASE Feed!Render
  <2>1. PICK r : r = [trade |-> price, at |-> 0]
    OBVIOUS
  <2>2. ~watching /\ rendered' = r /\ UNCHANGED <<watching, screen>>
    BY <1>3, <2>1 DEF Feed!Render
  <2>3. r \in [trade : Nat, at : {0}] /\ r.trade = price
    BY <2>1 DEF FeedInv, FeedType
  <2>4. FeedType'
    BY <1>1, <2>2, <2>3 DEF FeedInv, FeedType
  <2>5. NothingAhead'
    BY <1>1, <1>2, <2>2, <2>3, TickTyped DEF FeedInv, NothingAhead
  <2>6. KeepsUp => KeepsUp'
    <3>1. cache'.trade <= rendered'.trade
      BY <1>1, <2>2, <2>3 DEF FeedInv, NothingAhead
    <3>2. UpTo(rendered)'
      BY <3>1 DEF UpTo
    <3>3. KeepsUp => UpTo(screen)'
      BY <1>1, <2>2 DEF KeepsUp, UpTo
    <3> QED BY <1>1, <2>2, <3>2, <3>3 DEF KeepsUp
  <2> QED BY <1>1, <1>2, <2>2, <2>4, <2>5, <2>6 DEF FeedInv, RowIsNewest
<1>4. CASE Feed!Hydrate
  <2>1. /\ rendered # Feed!NoTick /\ rendered' = Feed!NoTick /\ watching' = watching
        /\ screen' = IF screen = Feed!NoTick THEN rendered ELSE screen
    BY <1>4 DEF Feed!Hydrate
  <2>2. rendered \in [trade : Nat, at : Nat] /\ rendered.at = 0
    BY <2>1 DEF FeedInv, FeedType
  <2>3. FeedType' /\ screen' # Feed!NoTick
    BY <1>1, <2>1, <2>2 DEF FeedInv, FeedType
  <2>4. NothingAhead'
    BY <1>1, <1>2, <2>1, TickTyped DEF FeedInv, FeedType, NothingAhead
  <2>5. KeepsUp => KeepsUp'
    BY <1>1, <2>1, <2>2 DEF KeepsUp, UpTo
  <2> QED BY <1>1, <1>2, <2>1, <2>3, <2>4, <2>5 DEF FeedInv, RowIsNewest
<1>5. CASE Feed!Join
  <2>1. rendered = Feed!NoTick /\ screen # Feed!NoTick /\ UNCHANGED <<rendered, screen>>
    BY <1>5 DEF Feed!Join
  <2>2. FeedType' /\ NothingAhead'
    BY <1>1, <1>2, <2>1 DEF FeedInv, FeedType, NothingAhead
  <2>3. KeepsUp => KeepsUp'
    BY <1>1, <2>1 DEF KeepsUp, UpTo
  <2> QED BY <1>1, <1>2, <2>1, <2>2, <2>3 DEF FeedInv, RowIsNewest
<1> QED BY <1>3, <1>4, <1>5

LEMMA FeedKeep == FeedInv /\ [Next]_vars => FeedInv'
<1>1. SUFFICES ASSUME FeedInv, [Feed!Next]_(Feed!vars) PROVE FeedInv'
  BY FeedStep
<1>2. ASSUME NEW k \in sending, Feed!LosePublish(k) PROVE FeedInv'
  <2>1. /\ sending' = sending \ {k} /\ lost' = lost \cup {k.trade}
        /\ UNCHANGED <<begun, open, price, committed, cache, pending, rendered, watching,
                       screen, clock, crossed>>
    BY <1>2 DEF Feed!LosePublish
  <2>2. Underway' \subseteq Underway /\ Underway \subseteq Underway' \cup {k.trade}
    BY <2>1 DEF Underway
  <2>3. FeedType'
    BY <1>1, <2>1, TickTyped DEF FeedInv, FeedType
  <2>4. NothingAhead'
    BY <1>1, <2>1, <2>2 DEF FeedInv, NothingAhead
  <2>5. RowIsNewest => RowIsNewest'
    BY <2>1, <2>2 DEF RowIsNewest
  <2>6. KeepsUp => KeepsUp'
    BY <2>1 DEF KeepsUp, UpTo
  <2> QED BY <1>1, <2>1, <2>3, <2>4, <2>5, <2>6 DEF FeedInv
<1>3. CASE Feed!Leave \/ Feed!LinkDrops \/ Feed!LinkReturns \/ Feed!Clock \/ UNCHANGED Feed!vars
  <2>1. /\ UNCHANGED <<begun, open, price, committed, sending, cache, pending, rendered,
                       screen, lost, crossed>>
        /\ watching' => watching
        /\ clock' = clock \/ clock' = clock + 1
    BY <1>3 DEF Feed!Leave, Feed!LinkDrops, Feed!LinkReturns, Feed!Clock, Feed!vars
  <2>2. FeedType'
    BY <1>1, <2>1 DEF FeedInv, FeedType
  <2>3. Underway' = Underway
    BY <2>1 DEF Underway
  <2> QED BY <1>1, <2>1, <2>2, <2>3
          DEF FeedInv, NothingAhead, RowIsNewest, KeepsUp, UpTo
<1> QED BY <1>1, <1>2, <1>3, TradeGoesOut, TickIsMade, TickArrives, WindowCloses, PageOpens
        DEF Feed!Next

\* Whenever no tick is on its way, a page that has joined its room shows the price
\* in the row, unless the tick of the very trade that set it never reached the
\* page (not published, not subscribed, or sent between the page's read and its
\* join) or two ticks passed each other: what was lost before that trade, the
\* trade corrects (TradeService.broadcast, PriceCacheService.publish,
\* RealtimeGateway, the store's apply and seed).
THEOREM RestingScreensAreRight == Spec => []Feed!ScreenIsRightAtRest
<1>1. FeedInv => Feed!ScreenIsRightAtRest
  <2>1. SUFFICES ASSUME FeedInv, committed = {}, sending = {}, pending = Feed!NoTick,
                        watching, price \notin lost, ~crossed
                 PROVE  screen.trade = price
    BY DEF Feed!ScreenIsRightAtRest, Feed!AtRest, Feed!Shows
  <2>2. Underway = {}
    BY <2>1 DEF Underway
  <2>3. price = cache.trade /\ KeepsUp /\ screen # Feed!NoTick
    BY <2>1, <2>2 DEF FeedInv, RowIsNewest
  <2>4. cache.trade <= screen.trade /\ screen.trade <= price
    BY <2>1, <2>3 DEF FeedInv, KeepsUp, UpTo, NothingAhead
  <2> QED BY <2>1, <2>3, <2>4, TickTyped
<1> QED BY <1>1, FeedInit, FeedKeep, PTL DEF Spec
=============================================================================
