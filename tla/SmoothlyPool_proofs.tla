------------------------- MODULE SmoothlyPool_proofs -------------------------
(***************************************************************************)
(* The pool, for every set of validators and every period, bond and set of *)
(* beacon chain records: the laws of totals, the invariants, and what a    *)
(* step may do to the rewards.                                             *)
(***************************************************************************)
EXTENDS SmoothlyPool, FiniteSetTheorems, FunctionTheorems, TLAPS

-----------------------------------------------------------------------------
(* The laws of totals, for any finite set of keys.                         *)

(***************************************************************************)
(* A nonempty set of natural numbers has a least element: the form of      *)
(* induction that TotalScale uses.                                         *)
(***************************************************************************)
LEMMA LeastNatural ==
  ASSUME NEW T \in SUBSET Nat, T # {}
  PROVE  \E m \in T : \A n \in T : m <= n
<1>1. \E m \in T : \A n \in T : ~ (<<n, m>> \in OpToRel(<, Nat))
  <2> HIDE DEF IsWellFoundedOn
  <2>1. IsWellFoundedOn(OpToRel(<, Nat), Nat)
    BY NatLessThanWellFounded
  <2> QED BY <2>1, WFMin
<1>2. ASSUME NEW m \in T, NEW n \in T, ~ (<<n, m>> \in OpToRel(<, Nat))
      PROVE  m <= n
  BY <1>2 DEF OpToRel
<1> QED BY <1>1, <1>2

(***************************************************************************)
(* The units of one key: as many as its amount.                            *)
(***************************************************************************)
LEMMA ColumnSize ==
  ASSUME NEW k, NEW n \in Nat
  PROVE  /\ IsFiniteSet({k} \X (1 .. n))
         /\ Cardinality({k} \X (1 .. n)) = n
<1>1. IsFiniteSet({k}) /\ Cardinality({k}) = 1
  BY FS_Singleton
<1>2. IsFiniteSet(1 .. n) /\ Cardinality(1 .. n) = n
  BY FS_Interval
<1> DEFINE A == {k}
           B == 1 .. n
<1>3. IsFiniteSet(A \X B) /\ Cardinality(A \X B) = Cardinality(A) * Cardinality(B)
  <2> HIDE DEF A, B
  <2>1. IsFiniteSet(A) /\ IsFiniteSet(B)
    BY <1>1, <1>2 DEF A, B
  <2> QED BY <2>1, FS_Product
<1>4. 1 * n = n
  OBVIOUS
<1> QED BY <1>1, <1>2, <1>3, <1>4

(***************************************************************************)
(* A unit is a key and a number up to the amount of that key.              *)
(***************************************************************************)
LEMMA UnitsMember ==
  ASSUME NEW S, NEW f \in [S -> Nat]
  PROVE  /\ \A k \in S : \A i \in 1 .. f[k] : <<k, i>> \in Units(f)
         /\ \A p \in Units(f) :
              /\ p = <<p[1], p[2]>>
              /\ p[1] \in S
              /\ p[2] \in 1 .. f[p[1]]
BY DEF Units

(***************************************************************************)
(* A total of natural amounts over finitely many keys is a natural number. *)
(***************************************************************************)
LEMMA TotalType ==
  ASSUME NEW S, IsFiniteSet(S), NEW f \in [S -> Nat]
  PROVE  /\ IsFiniteSet(Units(f))
         /\ Total(f) \in Nat
<1> DEFINE column == [k \in S |-> {k} \X (1 .. f[k])]
           columns == { column[k] : k \in S }
<1>1. column \in Surjection(S, columns)
  BY Fun_IsSurj
<1>2. IsFiniteSet(columns)
  BY <1>1, FS_Surjection
<1>3. \A T \in columns : IsFiniteSet(T)
  <2>1. ASSUME NEW k \in S
        PROVE  IsFiniteSet(column[k])
    <3>1. f[k] \in Nat
      OBVIOUS
    <3> QED BY <3>1, ColumnSize
  <2> HIDE DEF column
  <2> QED BY <2>1
<1>4. Units(f) = UNION columns
  BY DEF Units
<1>5. IsFiniteSet(Units(f))
  <2> HIDE DEF columns
  <2> QED BY <1>2, <1>3, <1>4, FS_UNION
<1> QED BY <1>5, FS_CardinalityType DEF Total

(***************************************************************************)
(* Changing the amount of one key changes the total by the difference.     *)
(***************************************************************************)
LEMMA TotalChange ==
  ASSUME NEW S, IsFiniteSet(S), NEW f \in [S -> Nat], NEW g \in [S -> Nat],
         NEW v \in S, \A k \in S \ {v} : g[k] = f[k]
  PROVE  Total(g) = Total(f) - f[v] + g[v]
<1> DEFINE Rest(h) == { p \in Units(h) : p[1] # v }
           Col(h) == {v} \X (1 .. h[v])
<1>1. ASSUME NEW h \in [S -> Nat]
      PROVE  /\ IsFiniteSet(Rest(h))
             /\ Cardinality(Rest(h)) \in Nat
             /\ Total(h) = Cardinality(Rest(h)) + h[v]
  <2>1. Units(h) = Rest(h) \cup Col(h)
    <3>1. Col(h) \subseteq Units(h)
      BY UnitsMember
    <3>2. ASSUME NEW p \in Units(h), p[1] = v
          PROVE  p \in Col(h)
      BY <3>2, UnitsMember
    <3> QED BY <3>1, <3>2
  <2>2. Rest(h) \cap Col(h) = {}
    OBVIOUS
  <2>3. IsFiniteSet(Rest(h))
    BY TotalType, FS_Subset
  <2>4. IsFiniteSet(Col(h)) /\ Cardinality(Col(h)) = h[v]
    BY ColumnSize
  <2>5. Cardinality(Rest(h)) \in Nat
    BY <2>3, FS_CardinalityType
  <2>6. Cardinality(Rest(h) \cup Col(h))
          = Cardinality(Rest(h)) + Cardinality(Col(h)) - Cardinality({})
    <3> HIDE DEF Rest, Col
    <3> QED BY <2>2, <2>3, <2>4, FS_Union
  <2> HIDE DEF Rest, Col
  <2> QED BY <2>1, <2>3, <2>4, <2>5, <2>6, FS_EmptySet DEF Total
<1>2. Rest(g) = Rest(f)
  <2>1. ASSUME NEW a \in [S -> Nat], NEW b \in [S -> Nat],
               \A k \in S \ {v} : a[k] = b[k], NEW p \in Rest(a)
        PROVE  p \in Rest(b)
    BY <2>1, UnitsMember
  <2> QED BY <2>1
<1> HIDE DEF Rest
<1> QED BY <1>1, <1>2

(***************************************************************************)
(* The total of a pointwise sum is the sum of the totals.                  *)
(***************************************************************************)
LEMMA TotalSum ==
  ASSUME NEW S, IsFiniteSet(S),
         NEW f \in [S -> Nat], NEW g \in [S -> Nat], NEW h \in [S -> Nat],
         \A k \in S : h[k] = f[k] + g[k]
  PROVE  Total(h) = Total(f) + Total(g)
<1> DEFINE T == { p \in Units(h) : p[2] > f[p[1]] }
           shift == [p \in Units(g) |-> <<p[1], f[p[1]] + p[2]>>]
<1>1. shift \in [Units(g) -> T]
  <2>1. ASSUME NEW p \in Units(g)
        PROVE  <<p[1], f[p[1]] + p[2]>> \in T
    <3>1. p[1] \in S /\ p[2] \in 1 .. g[p[1]]
      BY UnitsMember
    <3>2. f[p[1]] + p[2] \in 1 .. h[p[1]] /\ f[p[1]] + p[2] > f[p[1]]
      BY <3>1
    <3> QED BY <3>1, <3>2, UnitsMember
  <2> QED BY <2>1
<1>2. \A p, q \in Units(g) : shift[p] = shift[q] => p = q
  <2> SUFFICES ASSUME NEW p \in Units(g), NEW q \in Units(g), shift[p] = shift[q]
               PROVE  p = q
    OBVIOUS
  <2>1. /\ p = <<p[1], p[2]>> /\ p[1] \in S /\ p[2] \in 1 .. g[p[1]]
        /\ q = <<q[1], q[2]>> /\ q[1] \in S /\ q[2] \in 1 .. g[q[1]]
    BY UnitsMember
  <2>2. p[1] = q[1] /\ f[p[1]] + p[2] = f[q[1]] + q[2]
    OBVIOUS
  <2>3. p[2] = q[2]
    BY <2>1, <2>2
  <2> QED BY <2>1, <2>2, <2>3
<1>3. \A t \in T : \E p \in Units(g) : shift[p] = t
  <2> SUFFICES ASSUME NEW t \in T
               PROVE  \E p \in Units(g) : shift[p] = t
    OBVIOUS
  <2>1. t = <<t[1], t[2]>> /\ t[1] \in S /\ t[2] \in 1 .. h[t[1]] /\ t[2] > f[t[1]]
    BY UnitsMember
  <2>2. t[2] - f[t[1]] \in 1 .. g[t[1]]
    BY <2>1
  <2>3. <<t[1], t[2] - f[t[1]]>> \in Units(g)
    BY <2>1, <2>2, UnitsMember
  <2>4. shift[<<t[1], t[2] - f[t[1]]>>] = t
    BY <2>1, <2>3
  <2> QED BY <2>3, <2>4
<1>4. shift \in Bijection(Units(g), T)
  <2> HIDE DEF shift, T
  <2> QED BY <1>1, <1>2, <1>3, Fun_IsBij
<1>5. IsFiniteSet(T) /\ Cardinality(T) = Total(g)
  <2> HIDE DEF T
  <2> QED BY <1>4, TotalType, FS_Bijection DEF ExistsBijection, Total
<1>6. Units(h) = Units(f) \cup T
  <2>1. Units(f) \subseteq Units(h)
    <3> SUFFICES ASSUME NEW p \in Units(f)
                 PROVE  p \in Units(h)
      OBVIOUS
    <3>1. p = <<p[1], p[2]>> /\ p[1] \in S /\ p[2] \in 1 .. f[p[1]]
      BY UnitsMember
    <3>2. p[2] \in 1 .. h[p[1]]
      BY <3>1
    <3> QED BY <3>1, <3>2, UnitsMember
  <2>2. ASSUME NEW p \in Units(h), p \notin T
        PROVE  p \in Units(f)
    <3>1. p = <<p[1], p[2]>> /\ p[1] \in S /\ p[2] \in 1 .. h[p[1]]
      BY UnitsMember
    <3>2. p[2] \in 1 .. f[p[1]]
      BY <2>2, <3>1
    <3> QED BY <3>1, <3>2, UnitsMember
  <2> QED BY <2>1, <2>2
<1>7. Units(f) \cap T = {}
  <2> SUFFICES ASSUME NEW p \in Units(f), p[2] > f[p[1]]
               PROVE  FALSE
    OBVIOUS
  <2> QED BY UnitsMember
<1> HIDE DEF T
<1>8. Cardinality(Units(f) \cup T)
        = Cardinality(Units(f)) + Cardinality(T) - Cardinality({})
  BY <1>5, <1>7, TotalType, FS_Union
<1>9. Total(f) \in Nat /\ Total(g) \in Nat
  BY TotalType
<1> QED BY <1>5, <1>6, <1>8, <1>9, FS_EmptySet DEF Total

(***************************************************************************)
(* The total of zero amounts is zero.                                      *)
(***************************************************************************)
LEMMA TotalZero ==
  ASSUME NEW S, NEW f \in [S -> Nat], \A k \in S : f[k] = 0
  PROVE  Total(f) = 0
<1>1. Units(f) = {}
  BY UnitsMember
<1> QED BY <1>1, FS_EmptySet DEF Total

(***************************************************************************)
(* Larger amounts have a larger total.                                     *)
(***************************************************************************)
LEMMA TotalMonotone ==
  ASSUME NEW S, IsFiniteSet(S), NEW f \in [S -> Nat], NEW g \in [S -> Nat],
         \A k \in S : f[k] <= g[k]
  PROVE  Total(f) <= Total(g)
<1>1. Units(f) \subseteq Units(g)
  <2> SUFFICES ASSUME NEW p \in Units(f)
               PROVE  p \in Units(g)
    OBVIOUS
  <2>1. p = <<p[1], p[2]>> /\ p[1] \in S /\ p[2] \in 1 .. f[p[1]]
    BY UnitsMember
  <2>2. p[2] \in 1 .. g[p[1]]
    BY <2>1
  <2> QED BY <2>1, <2>2, UnitsMember
<1> QED BY <1>1, TotalType, FS_Subset DEF Total

(***************************************************************************)
(* No amount exceeds the total.                                            *)
(***************************************************************************)
LEMMA TotalBound ==
  ASSUME NEW S, IsFiniteSet(S), NEW f \in [S -> Nat], NEW v \in S
  PROVE  f[v] <= Total(f)
<1> DEFINE g == [f EXCEPT ![v] = 0]
<1>1. g \in [S -> Nat] /\ g[v] = 0 /\ \A k \in S \ {v} : g[k] = f[k]
  OBVIOUS
<1> HIDE DEF g
<1>2. Total(g) = Total(f) - f[v] + g[v]
  BY <1>1, TotalChange
<1> QED BY <1>1, <1>2, TotalType

(***************************************************************************)
(* Multiplying every amount by c multiplies the total by c.                *)
(***************************************************************************)
LEMMA TotalScale ==
  ASSUME NEW S, IsFiniteSet(S), NEW f \in [S -> Nat], NEW c \in Nat,
         NEW h \in [S -> Nat], \A k \in S : h[k] = c * f[k]
  PROVE  Total(h) = c * Total(f)
<1> DEFINE times(n) == [k \in S |-> n * f[k]]
           Bad == { n \in Nat : Total(times(n)) # n * Total(f) }
<1>1. \A n \in Nat : times(n) \in [S -> Nat]
  OBVIOUS
<1>2. Total(f) \in Nat
  BY TotalType
<1>3. Total(times(0)) = 0 * Total(f)
  <2>1. \A k \in S : times(0)[k] = 0
    OBVIOUS
  <2>2. times(0) \in [S -> Nat]
    BY <1>1
  <2> HIDE DEF times
  <2> QED BY <1>2, <2>1, <2>2, TotalZero
<1>4. ASSUME NEW n \in Nat, Total(times(n)) = n * Total(f)
      PROVE  Total(times(n + 1)) = (n + 1) * Total(f)
  <2>1. \A k \in S : times(n + 1)[k] = times(n)[k] + f[k]
    OBVIOUS
  <2>2. times(n) \in [S -> Nat] /\ times(n + 1) \in [S -> Nat]
    BY <1>1
  <2> HIDE DEF times
  <2>3. Total(times(n + 1)) = Total(times(n)) + Total(f)
    BY <2>1, <2>2, TotalSum
  <2> QED BY <1>2, <1>4, <2>3
<1>5. Bad = {}
  <2> SUFFICES ASSUME Bad # {}
               PROVE  FALSE
    OBVIOUS
  <2>1. PICK m \in Bad : \A n \in Bad : m <= n
    BY LeastNatural
  <2>2. m # 0
    BY <1>3
  <2>3. m - 1 \in Nat /\ m - 1 \notin Bad
    BY <2>1, <2>2
  <2>4. Total(times(m - 1)) = (m - 1) * Total(f)
    BY <2>3
  <2>5. Total(times((m - 1) + 1)) = ((m - 1) + 1) * Total(f)
    <3> HIDE DEF times
    <3> QED BY <2>3, <2>4, <1>4
  <2>6. (m - 1) + 1 = m
    OBVIOUS
  <2> QED BY <2>1, <2>5, <2>6
<1>6. h = times(c)
  OBVIOUS
<1> QED BY <1>5, <1>6

-----------------------------------------------------------------------------
(* The invariants.  The inductive one is the conjunction Inv below.  Its   *)
(* part Books speaks of any ledger L and any validators V, so that a       *)
(* transaction can be followed in the two moves in which the code makes    *)
(* it: the modifier needsRebalance takes the ledger to Current (lemma      *)
(* SettledBooks), then the body changes one validator and its share of the *)
(* counters.                                                               *)

(***************************************************************************)
(* Arithmetic: products and integer division.                              *)
(***************************************************************************)
LEMMA NatProduct ==
  ASSUME NEW a \in Nat, NEW b \in Nat
  PROVE  a * b \in Nat
OBVIOUS

\* What a division of unsigned integers leaves.
LEMMA DivType ==
  ASSUME NEW a \in Nat, NEW b \in Nat \ {0}
  PROVE  /\ a \div b \in Nat
         /\ b * (a \div b) <= a
         /\ a < b * (a \div b) + b
OBVIOUS

\* A quotient is bounded like its dividend.
LEMMA DivAtMost ==
  ASSUME NEW a \in Nat, NEW b \in Nat \ {0}, NEW c \in Nat, a <= b * c
  PROVE  a \div b <= c
<1> DEFINE q == a \div b
<1>1. q \in Nat /\ b * q <= a
  BY DivType
<1> HIDE DEF q
<1>2. b * q <= b * c
  BY <1>1
<1>3. ASSUME q > c PROVE FALSE
  <2>1. q >= c + 1
    BY <1>1, <1>3
  <2>2. b * q >= b * (c + 1)
    BY <1>1, <2>1
  <2> QED BY <1>2, <2>2, <1>1
<1> QED BY <1>1, <1>3 DEF q

(***************************************************************************)
(* A payout is never more than the ETH that the shares are paid from.      *)
(***************************************************************************)
LEMMA PayoutBound ==
  ASSUME NEW share \in Nat, NEW total \in Nat \ {0}, share <= total, NEW eth \in Nat
  PROVE  /\ Payout(share, total, eth) \in Nat
         /\ Payout(share, total, eth) <= eth
<1>1. BPS \in Nat \ {0}
  BY PoolAssumption
<1> DEFINE x == (share * BPS) \div total
<1>2. share * BPS \in Nat /\ share * BPS <= total * BPS
  BY <1>1, NatProduct
<1>3. x \in Nat /\ x <= BPS
  BY <1>1, <1>2, DivType, DivAtMost
<1> HIDE DEF x
<1>4. x * eth \in Nat /\ x * eth <= BPS * eth
  BY <1>1, <1>3, NatProduct
<1>5. (x * eth) \div BPS \in Nat /\ (x * eth) \div BPS <= eth
  BY <1>1, <1>4, DivType, DivAtMost
<1> QED BY <1>5 DEF Payout, x

-----------------------------------------------------------------------------
(***************************************************************************)
(* The invariant.                                                          *)
(***************************************************************************)
InPeriod(L, V) ==
  /\ L.lastRebalance \in DeployTime .. now
  /\ \A v \in ValidatorIndex :
       /\ V[v].start <= now
       /\ V[v].start <= L.lastRebalance + REBALANCE_PERIOD

Books(L, V) ==
  /\ L \in Ledger
  /\ V \in [ValidatorIndex -> Validator]
  /\ InPeriod(L, V)
  /\ L.totalEB + L.pendingEB = Total(Balances(V))
  /\ Total(SettledBalances(L, V)) <= L.totalEB
  /\ L.pendingSmooths + Total(Leads(L, V)) <= REBALANCE_PERIOD * L.pendingEB
  /\ L.smooths <= Total(Claims(L, V))

Inv ==
  /\ TypeOK
  /\ VacantIsBlank
  /\ BondsBacked
  /\ Books(ledger, validators)

\* The assumption about the constants, part by part.
LEMMA Constants ==
  /\ IsFiniteSet(ValidatorIndex)
  /\ Payable \subseteq Account
  /\ NoAccount \notin Account
  /\ REBALANCE_PERIOD \in Nat \ {0}
  /\ BOND \in Nat \ {0}
  /\ BPS \in Nat \ {0}
  /\ Deposits \subseteq Nat
  /\ DeployTime \in Nat \ {0}
BY PoolAssumption

(***************************************************************************)
(* The columns of the books are amounts per validator.                     *)
(***************************************************************************)
LEMMA ColumnTypes ==
  ASSUME NEW L \in Ledger, NEW V \in [ValidatorIndex -> Validator]
  PROVE  /\ Bonds(V) \in [ValidatorIndex -> Nat]
         /\ Balances(V) \in [ValidatorIndex -> Nat]
         /\ SettledBalances(L, V) \in [ValidatorIndex -> Nat]
         /\ Leads(L, V) \in [ValidatorIndex -> Nat]
         /\ Claims(L, V) \in [ValidatorIndex -> Nat]
<1>1. ASSUME NEW v \in ValidatorIndex
      PROVE  /\ V[v].bond \in Nat
             /\ V[v].effectiveBalance \in Nat
             /\ Lead(L, V[v]) \in Nat
             /\ Claim(L, V[v]) \in Nat
  <2>1. /\ V[v].bond \in Nat /\ V[v].effectiveBalance \in Nat
        /\ V[v].start \in Nat /\ V[v].smooths \in Nat /\ L.lastRebalance \in Nat
    BY DEF Validator, Ledger
  <2>2. CASE V[v].start >= L.lastRebalance
    <3>1. V[v].start - L.lastRebalance \in Nat
      BY <2>1, <2>2
    <3>2. (V[v].start - L.lastRebalance) * V[v].effectiveBalance \in Nat
      BY <2>1, <3>1, NatProduct
    <3> QED BY <2>1, <2>2, <3>2 DEF Lead, Claim, Pending
  <2>3. CASE ~ (V[v].start >= L.lastRebalance)
    <3>1. L.lastRebalance - V[v].start \in Nat
      BY <2>1, <2>3
    <3>2. (L.lastRebalance - V[v].start) * V[v].effectiveBalance \in Nat
      BY <2>1, <3>1, NatProduct
    <3> QED BY <2>1, <2>3, <3>2 DEF Lead, Claim, Pending
  <2> QED BY <2>2, <2>3
<1>2. \A v \in ValidatorIndex : (IF Pending(L, V[v]) THEN 0 ELSE V[v].effectiveBalance) \in Nat
  BY <1>1
<1> QED BY <1>1, <1>2 DEF Bonds, Balances, SettledBalances, Leads, Claims

-----------------------------------------------------------------------------
(***************************************************************************)
(* needsRebalance keeps the books.  The new smooths are the weighted time  *)
(* of the validators in totalEB over the whole of `e', the time since the  *)
(* last rebalance, and that of the pending ones since they joined.  Per    *)
(* validator, what it can claim grows by e times its balance less its lead.*)
(***************************************************************************)
LEMMA ClaimAfterRebalance ==
  ASSUME NEW L \in Ledger, NEW M \in Ledger, NEW val \in Validator, NEW t \in Nat,
         L.lastRebalance < t, M.lastRebalance = t, val.start <= t
  PROVE  /\ Claim(M, val) + Lead(L, val)
              = Claim(L, val) + (t - L.lastRebalance) * val.effectiveBalance
         /\ Lead(M, val) = 0
<1>1. /\ val.start \in Nat /\ val.effectiveBalance \in Nat /\ val.smooths \in Nat
      /\ L.lastRebalance \in Nat
  BY DEF Validator, Ledger
<1>2. Claim(M, val) = val.smooths + (t - val.start) * val.effectiveBalance
  BY <1>1 DEF Claim, Pending
<1>3. Lead(M, val) = 0
  BY <1>1 DEF Lead, Pending
<1>4. CASE Pending(L, val)
  BY <1>1, <1>2, <1>3, <1>4 DEF Claim, Lead
<1>5. CASE ~Pending(L, val)
  BY <1>1, <1>2, <1>3, <1>5 DEF Claim, Lead
<1> QED BY <1>4, <1>5

\* Settling at a later time moves the leads of the pending validators, and the time
\* since then of all validators, into the claims.
LEMMA TotalsAfterRebalance ==
  ASSUME NEW L \in Ledger, NEW M \in Ledger, NEW t \in Nat,
         NEW V \in [ValidatorIndex -> Validator],
         L.lastRebalance < t, M.lastRebalance = t,
         \A v \in ValidatorIndex : V[v].start <= t
  PROVE  /\ Total(Claims(M, V)) + Total(Leads(L, V))
              = Total(Claims(L, V)) + (t - L.lastRebalance) * Total(Balances(V))
         /\ Total(Leads(M, V)) = 0
<1> DEFINE e == t - L.lastRebalance
           sum == [v \in ValidatorIndex |-> Claims(M, V)[v] + Leads(L, V)[v]]
           scaled == [v \in ValidatorIndex |-> e * Balances(V)[v]]
<1>1. /\ Balances(V) \in [ValidatorIndex -> Nat]
      /\ Leads(L, V) \in [ValidatorIndex -> Nat]
      /\ Claims(L, V) \in [ValidatorIndex -> Nat]
      /\ Leads(M, V) \in [ValidatorIndex -> Nat]
      /\ Claims(M, V) \in [ValidatorIndex -> Nat]
      /\ IsFiniteSet(ValidatorIndex)
  BY ColumnTypes, Constants
<1>2. e \in Nat
  BY DEF Ledger
<1>3. ASSUME NEW v \in ValidatorIndex
      PROVE  /\ Claims(M, V)[v] + Leads(L, V)[v] = Claims(L, V)[v] + e * Balances(V)[v]
             /\ Leads(M, V)[v] = 0
  <2>1. /\ Claim(M, V[v]) + Lead(L, V[v])
              = Claim(L, V[v]) + (t - L.lastRebalance) * V[v].effectiveBalance
        /\ Lead(M, V[v]) = 0
    BY ClaimAfterRebalance
  <2> QED BY <2>1 DEF Claims, Leads, Balances
<1>4. Total(Leads(M, V)) = 0
  BY <1>1, <1>3, TotalZero
<1>5. sum \in [ValidatorIndex -> Nat]
  BY <1>1
<1>6. scaled \in [ValidatorIndex -> Nat]
  <2>1. \A v \in ValidatorIndex : e * Balances(V)[v] \in Nat
    BY <1>1, <1>2, NatProduct
  <2> QED BY <2>1
<1>7. Total(sum) = Total(Claims(M, V)) + Total(Leads(L, V))
  <2>1. \A v \in ValidatorIndex : sum[v] = Claims(M, V)[v] + Leads(L, V)[v]
    OBVIOUS
  <2> HIDE DEF sum
  <2> QED BY <1>1, <1>5, <2>1, TotalSum
<1>8. Total(sum) = Total(Claims(L, V)) + Total(scaled)
  <2>1. \A v \in ValidatorIndex : sum[v] = Claims(L, V)[v] + scaled[v]
    BY <1>3
  <2> HIDE DEF sum, scaled
  <2> QED BY <1>1, <1>5, <1>6, <2>1, TotalSum
<1>9. Total(scaled) = e * Total(Balances(V))
  <2>1. \A v \in ValidatorIndex : scaled[v] = e * Balances(V)[v]
    OBVIOUS
  <2>2. Balances(V) \in [ValidatorIndex -> Nat] /\ IsFiniteSet(ValidatorIndex)
    BY <1>1
  <2> HIDE DEF scaled, e
  <2> QED BY <1>2, <1>6, <2>1, <2>2, TotalScale
<1> QED BY <1>4, <1>7, <1>8, <1>9

\* Settling keeps the books (_rebalance).
LEMMA SettledBooks ==
  ASSUME now \in Nat, NEW L, NEW V, Books(L, V)
  PROVE  /\ Books(Rebalanced(L, now), V)
         /\ now - Rebalanced(L, now).lastRebalance <= REBALANCE_PERIOD
<1> DEFINE M == Rebalanced(L, now)
           e == now - L.lastRebalance
<1>1. /\ L \in Ledger /\ V \in [ValidatorIndex -> Validator]
      /\ L.lastRebalance \in Nat /\ L.totalEB \in Nat /\ L.smooths \in Nat
      /\ L.pendingEB \in Nat /\ L.pendingSmooths \in Nat
      /\ L.lastRebalance \in DeployTime .. now /\ e \in Nat
      /\ REBALANCE_PERIOD \in Nat \ {0} /\ DeployTime \in Nat \ {0}
      /\ IsFiniteSet(ValidatorIndex)
  BY Constants DEF Books, InPeriod, Ledger
<1>2. CASE e <= REBALANCE_PERIOD
  <2>1. M = L
    BY <1>1, <1>2 DEF Rebalanced
  <2> QED BY <1>1, <1>2, <2>1
<1>3. CASE e > REBALANCE_PERIOD
  <2>1. /\ M.lastRebalance = now
        /\ M.totalEB = L.totalEB + L.pendingEB
        /\ M.smooths = L.smooths + L.totalEB * e + L.pendingEB * (e - REBALANCE_PERIOD)
                       + L.pendingSmooths
        /\ M.pendingEB = 0
        /\ M.pendingSmooths = 0
        /\ DOMAIN M = {"lastRebalance", "totalEB", "smooths", "pendingEB", "pendingSmooths"}
    BY <1>1, <1>3 DEF Rebalanced
  <2>2. L.totalEB * e \in Nat /\ L.pendingEB * (e - REBALANCE_PERIOD) \in Nat
    BY <1>1, <1>3, NatProduct
  <2>3. M \in Ledger
    BY <1>1, <1>3, <2>2 DEF Rebalanced, Ledger
  <2> HIDE DEF M
  <2>4. InPeriod(M, V)
    BY <1>1, <2>1 DEF Books, InPeriod, Validator
  <2>5. M.totalEB + M.pendingEB = Total(Balances(V))
    BY <1>1, <2>1 DEF Books
  <2>6. /\ Balances(V) \in [ValidatorIndex -> Nat]
        /\ SettledBalances(M, V) \in [ValidatorIndex -> Nat]
        /\ Leads(L, V) \in [ValidatorIndex -> Nat]
        /\ Claims(L, V) \in [ValidatorIndex -> Nat]
        /\ Leads(M, V) \in [ValidatorIndex -> Nat]
        /\ Claims(M, V) \in [ValidatorIndex -> Nat]
    BY <1>1, <2>3, ColumnTypes
  <2>7. Total(SettledBalances(M, V)) <= M.totalEB
    <3>1. \A v \in ValidatorIndex : SettledBalances(M, V)[v] <= Balances(V)[v]
      BY <1>1 DEF SettledBalances, Balances, Validator
    <3>2. Total(SettledBalances(M, V)) <= Total(Balances(V))
      BY <1>1, <2>6, <3>1, TotalMonotone
    <3> QED BY <1>1, <2>1, <2>5, <3>2
  <2>8. L.lastRebalance < now /\ \A v \in ValidatorIndex : V[v].start <= now
    BY <1>1, <1>3 DEF Books, InPeriod
  <2>9. /\ Total(Claims(M, V)) + Total(Leads(L, V))
             = Total(Claims(L, V)) + e * Total(Balances(V))
        /\ Total(Leads(M, V)) = 0
    BY <1>1, <2>1, <2>3, <2>8, TotalsAfterRebalance
  <2>10. M.smooths <= Total(Claims(M, V))
    <3>1. /\ Total(Claims(L, V)) \in Nat /\ Total(Claims(M, V)) \in Nat
          /\ Total(Leads(L, V)) \in Nat /\ Total(Balances(V)) \in Nat
      BY <1>1, <2>6, TotalType
    <3>2. /\ L.smooths <= Total(Claims(L, V))
          /\ L.pendingSmooths + Total(Leads(L, V)) <= REBALANCE_PERIOD * L.pendingEB
          /\ Total(Balances(V)) = L.totalEB + L.pendingEB
      BY DEF Books
    <3>3. e * Total(Balances(V)) = L.totalEB * e + L.pendingEB * e
      BY <1>1, <3>1, <3>2
    <3>4. L.pendingEB * (e - REBALANCE_PERIOD) = L.pendingEB * e - REBALANCE_PERIOD * L.pendingEB
      BY <1>1
    <3>5. L.totalEB * e \in Nat /\ L.pendingEB * e \in Nat /\ REBALANCE_PERIOD * L.pendingEB \in Nat
      BY <1>1, NatProduct
    <3> QED BY <1>1, <2>1, <2>9, <3>1, <3>2, <3>3, <3>4, <3>5
  <2>11. M.pendingSmooths + Total(Leads(M, V)) <= REBALANCE_PERIOD * M.pendingEB
    BY <1>1, <2>1, <2>9
  <2>12. now - M.lastRebalance <= REBALANCE_PERIOD
    BY <1>1, <2>1
  <2> QED BY <1>1, <2>3, <2>4, <2>5, <2>7, <2>10, <2>11, <2>12 DEF Books, M
<1> QED BY <1>1, <1>2, <1>3

-----------------------------------------------------------------------------
(***************************************************************************)
(* A transaction changes one validator.  The books are kept if what it     *)
(* does to the counters matches what it does to that validator.            *)
(***************************************************************************)
SettledBalance(L, val) == IF Pending(L, val) THEN 0 ELSE val.effectiveBalance

\* The sums change by what changes of one validator.
LEMMA OneValidator ==
  ASSUME NEW L \in Ledger, NEW M \in Ledger, M.lastRebalance = L.lastRebalance,
         NEW V \in [ValidatorIndex -> Validator], NEW W \in [ValidatorIndex -> Validator],
         NEW v \in ValidatorIndex, \A u \in ValidatorIndex \ {v} : W[u] = V[u]
  PROVE  /\ Total(Bonds(W)) = Total(Bonds(V)) - V[v].bond + W[v].bond
         /\ Total(Balances(W))
              = Total(Balances(V)) - V[v].effectiveBalance + W[v].effectiveBalance
         /\ Total(SettledBalances(M, W))
              = Total(SettledBalances(L, V)) - SettledBalance(L, V[v]) + SettledBalance(L, W[v])
         /\ Total(Leads(M, W)) = Total(Leads(L, V)) - Lead(L, V[v]) + Lead(L, W[v])
         /\ Total(Claims(M, W)) = Total(Claims(L, V)) - Claim(L, V[v]) + Claim(L, W[v])
<1>1. \A val : /\ Pending(M, val) <=> Pending(L, val)
               /\ Claim(M, val) = Claim(L, val)
               /\ Lead(M, val) = Lead(L, val)
               /\ SettledBalance(M, val) = SettledBalance(L, val)
  BY DEF Pending, Claim, Lead, SettledBalance
<1>2. /\ Bonds(V) \in [ValidatorIndex -> Nat] /\ Bonds(W) \in [ValidatorIndex -> Nat]
      /\ Balances(V) \in [ValidatorIndex -> Nat] /\ Balances(W) \in [ValidatorIndex -> Nat]
      /\ SettledBalances(L, V) \in [ValidatorIndex -> Nat]
      /\ SettledBalances(M, W) \in [ValidatorIndex -> Nat]
      /\ Leads(L, V) \in [ValidatorIndex -> Nat] /\ Leads(M, W) \in [ValidatorIndex -> Nat]
      /\ Claims(L, V) \in [ValidatorIndex -> Nat] /\ Claims(M, W) \in [ValidatorIndex -> Nat]
  BY ColumnTypes
<1>3. \A u \in ValidatorIndex :
        /\ Bonds(V)[u] = V[u].bond /\ Bonds(W)[u] = W[u].bond
        /\ Balances(V)[u] = V[u].effectiveBalance /\ Balances(W)[u] = W[u].effectiveBalance
        /\ SettledBalances(L, V)[u] = SettledBalance(L, V[u])
        /\ SettledBalances(M, W)[u] = SettledBalance(L, W[u])
        /\ Leads(L, V)[u] = Lead(L, V[u]) /\ Leads(M, W)[u] = Lead(L, W[u])
        /\ Claims(L, V)[u] = Claim(L, V[u]) /\ Claims(M, W)[u] = Claim(L, W[u])
  BY <1>1 DEF Bonds, Balances, SettledBalances, Leads, Claims, SettledBalance
<1>4. IsFiniteSet(ValidatorIndex)
  BY Constants
<1>5. \A u \in ValidatorIndex \ {v} :
        /\ Bonds(W)[u] = Bonds(V)[u]
        /\ Balances(W)[u] = Balances(V)[u]
        /\ SettledBalances(M, W)[u] = SettledBalances(L, V)[u]
        /\ Leads(M, W)[u] = Leads(L, V)[u]
        /\ Claims(M, W)[u] = Claims(L, V)[u]
  BY <1>3
<1>6. /\ Total(Bonds(W)) = Total(Bonds(V)) - Bonds(V)[v] + Bonds(W)[v]
      /\ Total(Balances(W)) = Total(Balances(V)) - Balances(V)[v] + Balances(W)[v]
  BY <1>2, <1>4, <1>5, TotalChange
<1>7. /\ Total(SettledBalances(M, W))
            = Total(SettledBalances(L, V)) - SettledBalances(L, V)[v] + SettledBalances(M, W)[v]
      /\ Total(Leads(M, W)) = Total(Leads(L, V)) - Leads(L, V)[v] + Leads(M, W)[v]
      /\ Total(Claims(M, W)) = Total(Claims(L, V)) - Claims(L, V)[v] + Claims(M, W)[v]
  BY <1>2, <1>4, <1>5, TotalChange
<1> QED BY <1>3, <1>6, <1>7

\* The books are kept if the counters follow that change.
LEMMA BooksOfOneValidator ==
  ASSUME NEW L, NEW V, Books(L, V), now \in Nat,
         NEW M \in Ledger, NEW W \in [ValidatorIndex -> Validator], NEW v \in ValidatorIndex,
         M.lastRebalance = L.lastRebalance,
         \A u \in ValidatorIndex \ {v} : W[u] = V[u],
         W[v].start <= now, W[v].start <= L.lastRebalance + REBALANCE_PERIOD,
         M.totalEB + M.pendingEB + V[v].effectiveBalance
           = L.totalEB + L.pendingEB + W[v].effectiveBalance,
         L.totalEB + SettledBalance(L, W[v]) <= M.totalEB + SettledBalance(L, V[v]),
         (M.pendingSmooths + Lead(L, W[v])) + REBALANCE_PERIOD * L.pendingEB
           <= (L.pendingSmooths + Lead(L, V[v])) + REBALANCE_PERIOD * M.pendingEB,
         M.smooths + Claim(L, V[v]) <= L.smooths + Claim(L, W[v])
  PROVE  Books(M, W)
<1>1. L \in Ledger /\ V \in [ValidatorIndex -> Validator]
  BY DEF Books
<1>2. /\ Total(Balances(W))
            = Total(Balances(V)) - V[v].effectiveBalance + W[v].effectiveBalance
      /\ Total(SettledBalances(M, W))
            = Total(SettledBalances(L, V)) - SettledBalance(L, V[v]) + SettledBalance(L, W[v])
      /\ Total(Leads(M, W)) = Total(Leads(L, V)) - Lead(L, V[v]) + Lead(L, W[v])
      /\ Total(Claims(M, W)) = Total(Claims(L, V)) - Claim(L, V[v]) + Claim(L, W[v])
  BY <1>1, OneValidator
<1>3. /\ Total(Balances(V)) \in Nat /\ Total(SettledBalances(L, V)) \in Nat
      /\ Total(Leads(L, V)) \in Nat /\ Total(Claims(L, V)) \in Nat
  BY <1>1, ColumnTypes, TotalType, Constants
<1>4. /\ L.totalEB \in Nat /\ L.pendingEB \in Nat /\ L.smooths \in Nat /\ L.pendingSmooths \in Nat
      /\ M.totalEB \in Nat /\ M.pendingEB \in Nat /\ M.smooths \in Nat /\ M.pendingSmooths \in Nat
  BY <1>1 DEF Ledger
<1>5. ASSUME NEW X \in [ValidatorIndex -> Validator]
      PROVE  /\ X[v].effectiveBalance \in Nat /\ SettledBalance(L, X[v]) \in Nat
             /\ Lead(L, X[v]) \in Nat /\ Claim(L, X[v]) \in Nat
  <2>1. /\ Balances(X) \in [ValidatorIndex -> Nat]
        /\ SettledBalances(L, X) \in [ValidatorIndex -> Nat]
        /\ Leads(L, X) \in [ValidatorIndex -> Nat]
        /\ Claims(L, X) \in [ValidatorIndex -> Nat]
    BY <1>1, ColumnTypes
  <2>2. /\ Balances(X)[v] = X[v].effectiveBalance
        /\ SettledBalances(L, X)[v] = SettledBalance(L, X[v])
        /\ Leads(L, X)[v] = Lead(L, X[v])
        /\ Claims(L, X)[v] = Claim(L, X[v])
    BY DEF Balances, SettledBalances, Leads, Claims, SettledBalance
  <2>3. /\ Balances(X)[v] \in Nat /\ SettledBalances(L, X)[v] \in Nat
        /\ Leads(L, X)[v] \in Nat /\ Claims(L, X)[v] \in Nat
    BY <2>1
  <2> QED BY <2>2, <2>3
<1>6. InPeriod(M, W)
  BY DEF Books, InPeriod
<1>7. M.totalEB + M.pendingEB = Total(Balances(W))
  BY <1>1, <1>2, <1>3, <1>4, <1>5 DEF Books
<1>8. Total(SettledBalances(M, W)) <= M.totalEB
  BY <1>1, <1>2, <1>3, <1>4, <1>5 DEF Books
<1>9. M.pendingSmooths + Total(Leads(M, W)) <= REBALANCE_PERIOD * M.pendingEB
  <2>1. REBALANCE_PERIOD * M.pendingEB \in Nat /\ REBALANCE_PERIOD * L.pendingEB \in Nat
    BY <1>4, Constants, NatProduct
  <2>2. L.pendingSmooths + Total(Leads(L, V)) <= REBALANCE_PERIOD * L.pendingEB
    BY DEF Books
  <2>3. /\ Lead(L, V[v]) \in Nat /\ Lead(L, W[v]) \in Nat
    BY <1>1, <1>5
  <2> QED BY <1>2, <1>3, <1>4, <2>1, <2>2, <2>3
<1>10. M.smooths <= Total(Claims(M, W))
  BY <1>1, <1>2, <1>3, <1>4, <1>5 DEF Books
<1> QED BY <1>6, <1>7, <1>8, <1>9, <1>10 DEF Books

-----------------------------------------------------------------------------
(***************************************************************************)
(* The invariant as the body of a transaction finds it, after the modifier *)
(* needsRebalance.                                                         *)
(***************************************************************************)
LEMMA AtCurrent ==
  ASSUME Inv
  PROVE  /\ Books(Current, validators)
         /\ now - Current.lastRebalance <= REBALANCE_PERIOD
         /\ Current \in Ledger
         /\ Current.lastRebalance \in DeployTime .. now
         /\ now \in Nat /\ totalBond \in Nat /\ balance \in Nat
         /\ validators \in [ValidatorIndex -> Validator]
<1>1. now \in Nat /\ Books(ledger, validators)
  BY DEF Inv, TypeOK
<1>2. Books(Current, validators) /\ now - Current.lastRebalance <= REBALANCE_PERIOD
  BY <1>1, SettledBooks DEF Current
<1> QED BY <1>2 DEF Inv, TypeOK, Books, InPeriod

\* All amounts of the ledger and of a validator are unsigned integers.
LEMMA AmountTypes ==
  ASSUME NEW L \in Ledger, NEW val \in Validator
  PROVE  /\ L.lastRebalance \in Nat /\ L.totalEB \in Nat /\ L.smooths \in Nat
         /\ L.pendingEB \in Nat /\ L.pendingSmooths \in Nat
         /\ val.effectiveBalance \in Nat /\ val.bond \in Nat
         /\ val.start \in Nat /\ val.smooths \in Nat
         /\ val.withdrawal \in Account \cup {NoAccount}
BY DEF Ledger, Validator

(***************************************************************************)
(* A free slot adds nothing to any total.                                  *)
(***************************************************************************)
LEMMA VacantAmounts ==
  ASSUME NEW L \in Ledger, L.lastRebalance > 0
  PROVE  /\ NoValidator \in Validator
         /\ NoValidator.effectiveBalance = 0 /\ NoValidator.bond = 0
         /\ NoValidator.start = 0 /\ NoValidator.smooths = 0
         /\ SettledBalance(L, NoValidator) = 0
         /\ Lead(L, NoValidator) = 0
         /\ Claim(L, NoValidator) = 0
<1>1. L.lastRebalance \in Nat
  BY DEF Ledger
<1> QED BY <1>1 DEF NoValidator, Validator, SettledBalance, Lead, Claim, Pending

(***************************************************************************)
(* A step of the invariant from its parts: the books are kept, and the     *)
(* bond of the one validator that changed is accounted for.                *)
(***************************************************************************)
LEMMA InvAfter ==
  ASSUME Inv, NEW v \in ValidatorIndex, now' = now,
         Books(ledger', validators'),
         \A u \in ValidatorIndex \ {v} : validators'[u] = validators[u],
         \/ validators'[v].start > 0 /\ validators'[v].bond = BOND
         \/ validators'[v] = NoValidator,
         totalBond' = totalBond - validators[v].bond + validators'[v].bond,
         balance' \in Nat, totalBond' <= balance'
  PROVE  Inv'
<1>1. /\ validators \in [ValidatorIndex -> Validator]
      /\ validators' \in [ValidatorIndex -> Validator]
      /\ ledger \in Ledger /\ ledger' \in Ledger
      /\ now \in Nat /\ BOND \in Nat \ {0}
  BY Constants DEF Inv, TypeOK, Books
<1>2. \A u \in ValidatorIndex :
        \/ validators'[u].start > 0 /\ validators'[u].bond = BOND
        \/ validators'[u] = NoValidator
  <2>1. ASSUME NEW u \in ValidatorIndex \ {v}
        PROVE  \/ validators'[u].start > 0 /\ validators'[u].bond = BOND
               \/ validators'[u] = NoValidator
    BY <2>1 DEF Inv, BondsBacked, VacantIsBlank, Registered
  <2> QED BY <2>1
<1>3. totalBond' = Total(Bonds(validators'))
  <2>1. Total(Bonds(validators')) = Total(Bonds(validators)) - validators[v].bond + validators'[v].bond
    BY <1>1, OneValidator
  <2> QED BY <2>1 DEF Inv, BondsBacked
<1>4. totalBond' \in Nat
  BY <1>1, <1>3, ColumnTypes, TotalType, Constants
<1>5. TypeOK'
  BY <1>1, <1>4 DEF TypeOK
<1>6. Books(ledger, validators)'
  BY DEF Books, InPeriod
<1>7. VacantIsBlank'
  BY <1>2 DEF VacantIsBlank, Registered
<1>8. BondsBacked'
  BY <1>2, <1>3 DEF BondsBacked, Registered, NoValidator
<1> QED BY <1>5, <1>6, <1>7, <1>8 DEF Inv

(***************************************************************************)
(* Allocating a validator that joins (or rejoins with a new balance): it   *)
(* leads by the time the period has run.                                   *)
(***************************************************************************)
LEMMA AllocatedLedger ==
  ASSUME NEW L \in Ledger, NEW eb \in Nat, NEW t \in Nat,
         L.lastRebalance <= t, t - L.lastRebalance <= REBALANCE_PERIOD
  PROVE  LET M == Allocated(L, eb, t)
         IN  /\ M \in Ledger
             /\ M.lastRebalance = L.lastRebalance
             /\ M.totalEB = L.totalEB
             /\ M.smooths = L.smooths
             /\ M.pendingEB = L.pendingEB + eb
             /\ (M.pendingSmooths + (t - L.lastRebalance) * eb)
                     + REBALANCE_PERIOD * L.pendingEB
                   = L.pendingSmooths + REBALANCE_PERIOD * M.pendingEB
<1>1. /\ L.lastRebalance \in Nat /\ L.pendingEB \in Nat /\ L.pendingSmooths \in Nat
      /\ L.totalEB \in Nat /\ L.smooths \in Nat
  BY DEF Ledger
<1>2. REBALANCE_PERIOD \in Nat
  BY Constants
<1> DEFINE d == t - L.lastRebalance
           M == Allocated(L, eb, t)
<1>3. d \in Nat /\ REBALANCE_PERIOD - d \in Nat
  BY <1>1, <1>2
<1>4. eb * (REBALANCE_PERIOD - d) \in Nat
  BY <1>3, NatProduct
<1>5. /\ M.lastRebalance = L.lastRebalance
      /\ M.totalEB = L.totalEB
      /\ M.smooths = L.smooths
      /\ M.pendingEB = L.pendingEB + eb
      /\ M.pendingSmooths = L.pendingSmooths + eb * (REBALANCE_PERIOD - d)
  BY DEF Allocated, Ledger
<1>6. M \in Ledger
  <2>1. ASSUME NEW a \in Nat, NEW b \in Nat
        PROVE  [L EXCEPT !.pendingEB = a, !.pendingSmooths = b] \in Ledger
    BY DEF Ledger
  <2>2. L.pendingEB + eb \in Nat /\ L.pendingSmooths + eb * (REBALANCE_PERIOD - d) \in Nat
    BY <1>1, <1>4
  <2>3. M = [L EXCEPT !.pendingEB = L.pendingEB + eb,
                      !.pendingSmooths = L.pendingSmooths + eb * (REBALANCE_PERIOD - d)]
    BY DEF Allocated
  <2> HIDE DEF M, d
  <2> QED BY <2>1, <2>2, <2>3
<1>7. (M.pendingSmooths + d * eb) + REBALANCE_PERIOD * L.pendingEB
        = L.pendingSmooths + REBALANCE_PERIOD * M.pendingEB
  <2>1. REBALANCE_PERIOD * (L.pendingEB + eb) = REBALANCE_PERIOD * L.pendingEB + REBALANCE_PERIOD * eb
    BY <1>1, <1>2
  <2>2. eb * (REBALANCE_PERIOD - d) + d * eb = REBALANCE_PERIOD * eb
    BY <1>1, <1>2, <1>3
  <2>3. /\ d * eb \in Nat /\ REBALANCE_PERIOD * eb \in Nat
        /\ REBALANCE_PERIOD * L.pendingEB \in Nat
    BY <1>1, <1>2, <1>3, NatProduct
  <2> HIDE DEF d
  <2> QED BY <1>1, <1>4, <1>5, <2>1, <2>2, <2>3
<1> QED BY <1>5, <1>6, <1>7

-----------------------------------------------------------------------------
(***************************************************************************)
(* One lemma per transaction.                                              *)
(***************************************************************************)
LEMMA RegisterStep ==
  ASSUME Inv, NEW v \in ValidatorIndex, NEW record \in BeaconRecords, NEW value \in Deposits,
         Register(v, record, value)
  PROVE  Inv'
<1> DEFINE L == Current
           eb == record.effectiveBalance
           new == [ effectiveBalance |-> eb,
                    withdrawal |-> WithdrawalToAddress(record.withdrawalCredentials),
                    bond |-> BOND, start |-> now, smooths |-> 0 ]
<1>1. /\ Books(L, validators) /\ L \in Ledger
      /\ now - L.lastRebalance <= REBALANCE_PERIOD
      /\ L.lastRebalance \in DeployTime .. now
      /\ now \in Nat /\ totalBond \in Nat /\ balance \in Nat
      /\ validators \in [ValidatorIndex -> Validator]
  BY AtCurrent
<1> HIDE DEF L
<1>2. /\ DeployTime \in Nat \ {0} /\ BOND \in Nat \ {0} /\ REBALANCE_PERIOD \in Nat
      /\ L.lastRebalance \in Nat /\ L.lastRebalance > 0 /\ L.lastRebalance <= now
  BY <1>1, Constants
<1>3. eb \in Nat /\ WithdrawalToAddress(record.withdrawalCredentials) \in Account
  BY PoolAssumption DEF BeaconChainValidator, WithdrawalToAddress
<1>4. validators[v] = NoValidator /\ validators[v].smooths = 0
  BY DEF Register, Inv, VacantIsBlank, NoValidator
<1>5. validators' = [validators EXCEPT ![v] = new]
  BY <1>4 DEF Register
<1>6. new \in Validator
  BY <1>1, <1>2, <1>3 DEF Validator
<1>7. /\ validators' \in [ValidatorIndex -> Validator]
      /\ validators'[v] = new
      /\ \A u \in ValidatorIndex \ {v} : validators'[u] = validators[u]
  BY <1>1, <1>5, <1>6
<1>8. /\ new.effectiveBalance = eb /\ new.bond = BOND /\ new.start = now /\ new.smooths = 0
      /\ SettledBalance(L, new) = 0
      /\ Lead(L, new) = (now - L.lastRebalance) * eb
      /\ Claim(L, new) = 0
  BY <1>2 DEF SettledBalance, Lead, Claim, Pending
<1>9. /\ ledger' \in Ledger
      /\ ledger'.lastRebalance = L.lastRebalance
      /\ ledger'.totalEB = L.totalEB
      /\ ledger'.smooths = L.smooths
      /\ ledger'.pendingEB = L.pendingEB + eb
      /\ (ledger'.pendingSmooths + (now - L.lastRebalance) * eb)
              + REBALANCE_PERIOD * L.pendingEB
            = L.pendingSmooths + REBALANCE_PERIOD * ledger'.pendingEB
  <2>1. ledger' = Allocated(L, eb, now)
    BY DEF Register, L
  <2> QED BY <1>1, <1>2, <1>3, <2>1, AllocatedLedger
<1> HIDE DEF new, eb
<1>10. /\ NoValidator.effectiveBalance = 0 /\ NoValidator.bond = 0
       /\ SettledBalance(L, NoValidator) = 0 /\ Lead(L, NoValidator) = 0
       /\ Claim(L, NoValidator) = 0
  BY <1>1, <1>2, VacantAmounts
<1>11. Books(ledger', validators')
  <2>1. /\ L.totalEB \in Nat /\ L.pendingEB \in Nat /\ L.smooths \in Nat
        /\ L.pendingSmooths \in Nat /\ REBALANCE_PERIOD * L.pendingEB \in Nat
        /\ REBALANCE_PERIOD * ledger'.pendingEB \in Nat
        /\ (now - L.lastRebalance) * eb \in Nat /\ ledger'.pendingSmooths \in Nat
    <3>1. now - L.lastRebalance \in Nat
      BY <1>1, <1>2
    <3>2. L.pendingEB \in Nat /\ ledger'.pendingEB \in Nat
      BY <1>1, <1>9 DEF Ledger
    <3> QED BY <1>1, <1>2, <1>3, <1>9, <3>1, <3>2, NatProduct DEF Ledger
  <2>2. /\ new.start <= now /\ new.start <= L.lastRebalance + REBALANCE_PERIOD
    BY <1>1, <1>2, <1>8
  <2>3. /\ ledger'.totalEB + ledger'.pendingEB + NoValidator.effectiveBalance
              = L.totalEB + L.pendingEB + new.effectiveBalance
        /\ L.totalEB + SettledBalance(L, new) <= ledger'.totalEB + SettledBalance(L, NoValidator)
        /\ (ledger'.pendingSmooths + Lead(L, new)) + REBALANCE_PERIOD * L.pendingEB
             <= (L.pendingSmooths + Lead(L, NoValidator)) + REBALANCE_PERIOD * ledger'.pendingEB
        /\ ledger'.smooths + Claim(L, NoValidator) <= L.smooths + Claim(L, new)
    BY <1>3, <1>8, <1>9, <1>10, <2>1
  <2> QED
    BY <1>1, <1>4, <1>7, <1>9, <2>2, <2>3, BooksOfOneValidator
<1>12. /\ now' = now /\ totalBond' = totalBond + BOND /\ balance' = balance + BOND
  BY DEF Register
<1>13. totalBond <= balance
  BY DEF Inv, BondsBacked
<1>14. /\ validators'[v].start > 0 /\ validators'[v].bond = BOND
       /\ totalBond' = totalBond - validators[v].bond + validators'[v].bond
       /\ balance' \in Nat /\ totalBond' <= balance'
  BY <1>1, <1>2, <1>4, <1>7, <1>8, <1>10, <1>12, <1>13
<1> QED BY <1>7, <1>11, <1>12, <1>14, InvAfter

\* All three ways out of the pool keep the invariant (_exit).
LEMMA LeavePoolStep ==
  ASSUME Inv, NEW v \in ValidatorIndex, NEW recipient, Registered(v),
         LeavePool(v, recipient)
  PROVE  Inv'
<1> DEFINE L == Current
           val == validators[v]
           d == val.start - L.lastRebalance
<1>1. /\ Books(L, validators) /\ L \in Ledger
      /\ L.lastRebalance \in DeployTime .. now
      /\ now \in Nat /\ totalBond \in Nat /\ balance \in Nat
      /\ validators \in [ValidatorIndex -> Validator] /\ val \in Validator
  BY AtCurrent
<1>2. /\ CanDeallocate(L, val) /\ totalBond >= val.bond /\ balance >= val.bond
      /\ ledger' = Deallocated(L, val)
      /\ totalBond' = totalBond - val.bond
      /\ balance' = balance - val.bond
      /\ validators' = [validators EXCEPT ![v] = NoValidator]
      /\ now' = now
  BY DEF LeavePool
<1>3. totalBond <= balance /\ val.bond = BOND
  BY DEF Inv, BondsBacked
<1> HIDE DEF L, val
<1>4. /\ DeployTime \in Nat \ {0} /\ BOND \in Nat \ {0} /\ REBALANCE_PERIOD \in Nat
      /\ L.lastRebalance > 0
      /\ L.lastRebalance \in Nat /\ L.totalEB \in Nat /\ L.smooths \in Nat
      /\ L.pendingEB \in Nat /\ L.pendingSmooths \in Nat
      /\ val.effectiveBalance \in Nat /\ val.start \in Nat /\ val.smooths \in Nat
  BY <1>1, Constants, AmountTypes
<1>5. /\ NoValidator \in Validator
      /\ NoValidator.effectiveBalance = 0 /\ NoValidator.bond = 0 /\ NoValidator.start = 0
      /\ SettledBalance(L, NoValidator) = 0 /\ Lead(L, NoValidator) = 0
      /\ Claim(L, NoValidator) = 0
  BY <1>1, <1>4, VacantAmounts
<1>6. /\ validators' \in [ValidatorIndex -> Validator]
      /\ validators'[v] = NoValidator
      /\ \A u \in ValidatorIndex \ {v} : validators'[u] = validators[u]
  BY <1>1, <1>2, <1>5
<1>7. /\ ledger' \in Ledger
      /\ ledger'.lastRebalance = L.lastRebalance
      /\ ledger'.totalEB + ledger'.pendingEB + val.effectiveBalance = L.totalEB + L.pendingEB
      /\ L.totalEB <= ledger'.totalEB + SettledBalance(L, val)
      /\ ledger'.pendingSmooths + REBALANCE_PERIOD * L.pendingEB
           <= (L.pendingSmooths + Lead(L, val)) + REBALANCE_PERIOD * ledger'.pendingEB
      /\ ledger'.smooths + Claim(L, val) <= L.smooths
  <2>1. CASE Pending(L, val)
    <3>1. /\ L.pendingEB >= val.effectiveBalance /\ d <= REBALANCE_PERIOD
          /\ L.pendingSmooths >= PendingShare(L, val) /\ L.smooths >= val.smooths
      BY <1>2, <2>1 DEF CanDeallocate
    <3>2. /\ d \in Nat /\ REBALANCE_PERIOD - d \in Nat
      BY <1>4, <2>1, <3>1 DEF Pending
    <3>3. /\ PendingShare(L, val) = val.effectiveBalance * (REBALANCE_PERIOD - d)
          /\ PendingShare(L, val) \in Nat
      BY <1>4, <3>2, NatProduct DEF PendingShare
    <3>4. ledger' = [L EXCEPT !.pendingEB = L.pendingEB - val.effectiveBalance,
                              !.pendingSmooths = L.pendingSmooths - PendingShare(L, val),
                              !.smooths = L.smooths - val.smooths]
      BY <1>2, <2>1 DEF Deallocated
    <3>5. /\ L.pendingEB - val.effectiveBalance \in Nat
          /\ L.pendingSmooths - PendingShare(L, val) \in Nat
          /\ L.smooths - val.smooths \in Nat
      BY <1>4, <3>1, <3>3
    <3>7. /\ ledger' \in Ledger
          /\ ledger'.lastRebalance = L.lastRebalance /\ ledger'.totalEB = L.totalEB
          /\ ledger'.pendingEB = L.pendingEB - val.effectiveBalance
          /\ ledger'.pendingSmooths = L.pendingSmooths - PendingShare(L, val)
          /\ ledger'.smooths = L.smooths - val.smooths
      <4> DEFINE a == L.pendingEB - val.effectiveBalance
                 b == L.pendingSmooths - PendingShare(L, val)
                 c == L.smooths - val.smooths
      <4>1. a \in Nat /\ b \in Nat /\ c \in Nat
        BY <3>5
      <4>2. ledger' = [L EXCEPT !.pendingEB = a, !.pendingSmooths = b, !.smooths = c]
        BY <3>4
      <4> HIDE DEF a, b, c
      <4>3. /\ ledger' \in Ledger
            /\ ledger'.lastRebalance = L.lastRebalance /\ ledger'.totalEB = L.totalEB
            /\ ledger'.pendingEB = a /\ ledger'.pendingSmooths = b /\ ledger'.smooths = c
        BY <1>1, <4>1, <4>2 DEF Ledger
      <4> QED BY <4>3 DEF a, b, c
    <3>8. /\ SettledBalance(L, val) = 0 /\ Claim(L, val) = val.smooths
          /\ Lead(L, val) = d * val.effectiveBalance
      BY <2>1, <1>4 DEF SettledBalance, Claim, Lead
    <3>9. REBALANCE_PERIOD * (L.pendingEB - val.effectiveBalance)
            = REBALANCE_PERIOD * L.pendingEB - PendingShare(L, val) - d * val.effectiveBalance
      BY <1>4, <3>2, <3>3
    <3>10. /\ REBALANCE_PERIOD * L.pendingEB \in Nat /\ d * val.effectiveBalance \in Nat
      BY <1>4, <3>2, NatProduct
    <3> HIDE DEF d
    <3> QED BY <1>4, <3>3, <3>5, <3>7, <3>8, <3>9, <3>10
  <2>2. CASE ~Pending(L, val)
    <3>1. L.totalEB >= val.effectiveBalance /\ L.smooths >= GetShares(L, val)
      BY <1>2, <2>2 DEF CanDeallocate
    <3>2. L.lastRebalance - val.start \in Nat
      BY <1>4, <2>2 DEF Pending
    <3>3. GetShares(L, val) \in Nat /\ GetShares(L, val) = Claim(L, val)
      <4>1. (L.lastRebalance - val.start) * val.effectiveBalance \in Nat
        BY <1>4, <3>2, NatProduct
      <4> QED BY <1>4, <2>2, <4>1 DEF GetShares, Claim
    <3>4. ledger' = [L EXCEPT !.totalEB = L.totalEB - val.effectiveBalance,
                              !.smooths = L.smooths - GetShares(L, val)]
      BY <1>2, <2>2 DEF Deallocated
    <3>5. /\ L.totalEB - val.effectiveBalance \in Nat
          /\ L.smooths - GetShares(L, val) \in Nat
      BY <1>4, <3>1, <3>3
    <3>6. ASSUME NEW a \in Nat, NEW b \in Nat
          PROVE  LET M == [L EXCEPT !.totalEB = a, !.smooths = b]
                 IN  /\ M \in Ledger
                     /\ M.lastRebalance = L.lastRebalance /\ M.totalEB = a /\ M.smooths = b
                     /\ M.pendingEB = L.pendingEB /\ M.pendingSmooths = L.pendingSmooths
      BY <1>1 DEF Ledger
    <3>7. /\ ledger' \in Ledger
          /\ ledger'.lastRebalance = L.lastRebalance
          /\ ledger'.totalEB = L.totalEB - val.effectiveBalance
          /\ ledger'.smooths = L.smooths - GetShares(L, val)
          /\ ledger'.pendingEB = L.pendingEB /\ ledger'.pendingSmooths = L.pendingSmooths
      BY <3>4, <3>5, <3>6
    <3>8. SettledBalance(L, val) = val.effectiveBalance /\ Lead(L, val) = 0
      BY <2>2 DEF SettledBalance, Lead
    <3>9. REBALANCE_PERIOD * L.pendingEB \in Nat
      BY <1>4, NatProduct
    <3> QED BY <1>4, <3>3, <3>5, <3>7, <3>8, <3>9
  <2> QED BY <2>1, <2>2
<1>8. Books(ledger', validators')
  <2>1. /\ ledger'.totalEB + ledger'.pendingEB + val.effectiveBalance
              = L.totalEB + L.pendingEB + NoValidator.effectiveBalance
        /\ L.totalEB + SettledBalance(L, NoValidator) <= ledger'.totalEB + SettledBalance(L, val)
        /\ (ledger'.pendingSmooths + Lead(L, NoValidator)) + REBALANCE_PERIOD * L.pendingEB
             <= (L.pendingSmooths + Lead(L, val)) + REBALANCE_PERIOD * ledger'.pendingEB
        /\ ledger'.smooths + Claim(L, val) <= L.smooths + Claim(L, NoValidator)
    <3>1. ledger'.pendingSmooths \in Nat
      BY <1>7 DEF Ledger
    <3> QED BY <1>4, <1>5, <1>7, <3>1
  <2>2. NoValidator.start <= now /\ NoValidator.start <= L.lastRebalance + REBALANCE_PERIOD
    BY <1>1, <1>4, <1>5
  <2> QED BY <1>1, <1>6, <1>7, <2>1, <2>2, BooksOfOneValidator DEF val
<1>9. /\ totalBond' = totalBond - validators[v].bond + validators'[v].bond
      /\ balance' \in Nat /\ totalBond' <= balance'
  BY <1>1, <1>2, <1>3, <1>4, <1>5, <1>6 DEF val
<1> QED BY <1>2, <1>6, <1>8, <1>9, InvAfter

(***************************************************************************)
(* What a withdrawal pays is a part of the ETH to distribute.              *)
(***************************************************************************)
LEMMA WithdrawPaysOut ==
  ASSUME Inv, NEW v \in ValidatorIndex, NEW timestamp, Withdraw(v, timestamp)
  PROVE  balance' \in Int /\ totalBond <= balance' /\ balance' <= balance
<1> DEFINE L == Current
           val == validators[v]
           share == WithdrawShare(L, val)
           eth == Payout(share, L.smooths, TotalETH)
<1>1. /\ L \in Ledger /\ totalBond \in Nat /\ balance \in Nat /\ val \in Validator
      /\ totalBond <= balance
  BY AtCurrent DEF Inv, BondsBacked
<1>2. /\ L.smooths > 0 /\ share <= L.smooths /\ balance' = balance - eth
  BY DEF Withdraw
<1> HIDE DEF L, val
<1>3. /\ L.lastRebalance \in Nat /\ L.smooths \in Nat \ {0}
      /\ val.effectiveBalance \in Nat /\ val.start \in Nat /\ val.smooths \in Nat
  BY <1>1, <1>2, AmountTypes
<1>4. share \in Nat
  <2>1. CASE Pending(L, val)
    BY <1>3, <2>1 DEF WithdrawShare
  <2>2. CASE ~Pending(L, val)
    <3>1. L.lastRebalance - val.start \in Nat
      BY <1>3, <2>2 DEF Pending
    <3>2. (L.lastRebalance - val.start) * val.effectiveBalance \in Nat
      BY <1>3, <3>1, NatProduct
    <3> QED BY <1>3, <2>2, <3>2 DEF WithdrawShare, GetShares
  <2> QED BY <2>1, <2>2
<1>5. TotalETH \in Nat
  BY <1>1 DEF TotalETH
<1> HIDE DEF share
<1>6. eth \in Nat /\ eth <= TotalETH
  BY <1>2, <1>3, <1>4, <1>5, PayoutBound
<1> HIDE DEF eth
<1> QED BY <1>1, <1>2, <1>6 DEF TotalETH

(***************************************************************************)
(* A withdrawal gives up the whole claim of the validator and restarts it  *)
(* at the last rebalance, where it neither claims nor leads.               *)
(***************************************************************************)
LEMMA WithdrawStep ==
  ASSUME Inv, NEW v \in ValidatorIndex, NEW timestamp, Withdraw(v, timestamp)
  PROVE  Inv'
<1> DEFINE L == Current
           val == validators[v]
           share == WithdrawShare(L, val)
           new == [val EXCEPT !.start = L.lastRebalance, !.smooths = 0]
<1>1. /\ Books(L, validators) /\ L \in Ledger
      /\ L.lastRebalance \in DeployTime .. now
      /\ now \in Nat /\ totalBond \in Nat /\ balance \in Nat
      /\ validators \in [ValidatorIndex -> Validator] /\ val \in Validator
  BY AtCurrent
<1>2. /\ Registered(v) /\ TotalETH > 0 /\ L.smooths > 0 /\ share <= L.smooths
      /\ ledger' = [L EXCEPT !.smooths = L.smooths - share]
      /\ validators' = [validators EXCEPT ![v].start = L.lastRebalance, ![v].smooths = 0]
      /\ now' = now /\ totalBond' = totalBond
  BY DEF Withdraw
<1>3. totalBond <= balance /\ val.bond = BOND
  BY <1>2 DEF Inv, BondsBacked
<1>4. validators' = [validators EXCEPT ![v] = new]
  BY <1>1, <1>2
<1> HIDE DEF L
<1>5. /\ DeployTime \in Nat \ {0} /\ BOND \in Nat \ {0} /\ REBALANCE_PERIOD \in Nat
      /\ L.lastRebalance > 0
      /\ L.lastRebalance \in Nat /\ L.totalEB \in Nat /\ L.smooths \in Nat
      /\ L.pendingEB \in Nat /\ L.pendingSmooths \in Nat
      /\ val.effectiveBalance \in Nat /\ val.start \in Nat /\ val.smooths \in Nat
  BY <1>1, Constants, AmountTypes
<1>6. /\ new \in Validator
      /\ new.start = L.lastRebalance /\ new.smooths = 0 /\ new.bond = BOND
      /\ new.effectiveBalance = val.effectiveBalance
  BY <1>1, <1>3, <1>5 DEF Validator
<1>7. /\ validators' \in [ValidatorIndex -> Validator]
      /\ validators'[v] = new
      /\ \A u \in ValidatorIndex \ {v} : validators'[u] = validators[u]
  <2> HIDE DEF new
  <2> QED BY <1>1, <1>4, <1>6
<1>8. share \in Nat /\ share = Claim(L, val)
  <2>1. CASE Pending(L, val)
    BY <1>5, <2>1 DEF WithdrawShare, Claim
  <2>2. CASE ~Pending(L, val)
    <3>1. L.lastRebalance - val.start \in Nat
      BY <1>5, <2>2 DEF Pending
    <3>2. (L.lastRebalance - val.start) * val.effectiveBalance \in Nat
      BY <1>5, <3>1, NatProduct
    <3> QED BY <1>5, <2>2, <3>2 DEF WithdrawShare, GetShares, Claim
  <2> QED BY <2>1, <2>2
<1>9. totalBond <= balance'
  BY WithdrawPaysOut
<1> HIDE DEF share
<1>10. /\ ledger' \in Ledger
       /\ ledger'.lastRebalance = L.lastRebalance /\ ledger'.totalEB = L.totalEB
       /\ ledger'.pendingEB = L.pendingEB /\ ledger'.pendingSmooths = L.pendingSmooths
       /\ ledger'.smooths = L.smooths - share
  <2>1. L.smooths - share \in Nat
    BY <1>2, <1>5, <1>8
  <2> QED BY <1>1, <1>2, <2>1 DEF Ledger
<1>11. /\ SettledBalance(L, new) = 0 /\ Lead(L, new) = 0 /\ Claim(L, new) = 0
  BY <1>5, <1>6 DEF SettledBalance, Lead, Claim, Pending
<1>12. SettledBalance(L, val) \in Nat /\ Lead(L, val) \in Nat
  <2>1. CASE Pending(L, val)
    <3>1. val.start - L.lastRebalance \in Nat
      BY <1>5, <2>1 DEF Pending
    <3>2. (val.start - L.lastRebalance) * val.effectiveBalance \in Nat
      BY <1>5, <3>1, NatProduct
    <3> QED BY <2>1, <3>2 DEF SettledBalance, Lead
  <2>2. CASE ~Pending(L, val)
    BY <1>5, <2>2 DEF SettledBalance, Lead
  <2> QED BY <2>1, <2>2
<1> HIDE DEF new, val
<1>13. Books(ledger', validators')
  <2>1. REBALANCE_PERIOD * L.pendingEB \in Nat
    BY <1>5, NatProduct
  <2>2. /\ ledger'.totalEB + ledger'.pendingEB + val.effectiveBalance
              = L.totalEB + L.pendingEB + new.effectiveBalance
        /\ L.totalEB + SettledBalance(L, new) <= ledger'.totalEB + SettledBalance(L, val)
        /\ (ledger'.pendingSmooths + Lead(L, new)) + REBALANCE_PERIOD * L.pendingEB
             <= (L.pendingSmooths + Lead(L, val)) + REBALANCE_PERIOD * ledger'.pendingEB
        /\ ledger'.smooths + Claim(L, val) <= L.smooths + Claim(L, new)
    BY <1>5, <1>6, <1>8, <1>10, <1>11, <1>12, <2>1
  <2>3. new.start <= now /\ new.start <= L.lastRebalance + REBALANCE_PERIOD
    BY <1>1, <1>5, <1>6
  <2> QED BY <1>1, <1>7, <1>10, <2>2, <2>3, BooksOfOneValidator DEF val
<1>14. balance' \in Nat
  BY <1>1, <1>9, WithdrawPaysOut
<1>15. /\ validators'[v].start > 0 /\ validators'[v].bond = BOND
       /\ totalBond' = totalBond - validators[v].bond + validators'[v].bond
       /\ balance' \in Nat /\ totalBond' <= balance'
  BY <1>1, <1>2, <1>3, <1>5, <1>6, <1>7, <1>9, <1>14 DEF val
<1> QED BY <1>2, <1>7, <1>13, <1>15, InvAfter

(***************************************************************************)
(* updateValidator takes a settled validator out of totalEB and lets it    *)
(* join again; the units it books exceed what it could claim before.       *)
(***************************************************************************)
LEMMA UpdateActiveStep ==
  ASSUME Inv, NEW v \in ValidatorIndex, NEW record \in BeaconRecords, Registered(v),
         UpdateActive(v, record)
  PROVE  Inv'
<1> DEFINE L == Current
           K == [L EXCEPT !.totalEB = L.totalEB - validators[v].effectiveBalance]
           val == validators[v]
           eb == record.effectiveBalance
           share == (now - val.start) * val.effectiveBalance
           new == [val EXCEPT !.smooths = val.smooths + share,
                              !.start = now, !.effectiveBalance = eb]
<1>1. /\ Books(L, validators) /\ L \in Ledger
      /\ now - L.lastRebalance <= REBALANCE_PERIOD
      /\ L.lastRebalance \in DeployTime .. now
      /\ now \in Nat /\ totalBond \in Nat /\ balance \in Nat
      /\ validators \in [ValidatorIndex -> Validator] /\ val \in Validator
  BY AtCurrent
<1>2. /\ ~Pending(L, val) /\ L.totalEB >= val.effectiveBalance
      /\ ledger' = Allocated(K, eb, now)
      /\ now' = now /\ totalBond' = totalBond /\ balance' = balance
      /\ validators' = [validators EXCEPT
                          ![v].smooths = val.smooths + share,
                          ![v].start = now,
                          ![v].effectiveBalance = eb]
  BY DEF UpdateActive
<1>3. totalBond <= balance /\ val.bond = BOND
  BY DEF Inv, BondsBacked
<1>4. validators' = [validators EXCEPT ![v] = new]
  BY <1>1, <1>2
<1>5. eb \in Nat
  BY PoolAssumption DEF BeaconChainValidator
<1> HIDE DEF L, eb
<1>6. /\ DeployTime \in Nat \ {0} /\ BOND \in Nat \ {0} /\ REBALANCE_PERIOD \in Nat
      /\ L.lastRebalance > 0 /\ L.lastRebalance <= now
      /\ L.lastRebalance \in Nat /\ L.totalEB \in Nat /\ L.smooths \in Nat
      /\ L.pendingEB \in Nat /\ L.pendingSmooths \in Nat
      /\ val.effectiveBalance \in Nat /\ val.start \in Nat /\ val.smooths \in Nat
      /\ val.start < L.lastRebalance
  BY <1>1, <1>2, Constants, AmountTypes DEF Pending
<1>7. /\ share \in Nat
      /\ (L.lastRebalance - val.start) * val.effectiveBalance \in Nat
      /\ (L.lastRebalance - val.start) * val.effectiveBalance
           <= share
  <2>1. /\ now - val.start \in Nat /\ L.lastRebalance - val.start \in Nat
        /\ L.lastRebalance - val.start <= now - val.start
    BY <1>1, <1>6
  <2> QED BY <1>6, <2>1, NatProduct
<1> HIDE DEF share
<1>8. /\ new \in Validator
      /\ new.start = now /\ new.bond = BOND /\ new.effectiveBalance = eb
      /\ new.smooths = val.smooths + share
  <2>1. val.smooths + share \in Nat
    BY <1>6, <1>7
  <2> QED BY <1>1, <1>3, <1>5, <2>1 DEF Validator
<1>9. /\ validators' \in [ValidatorIndex -> Validator]
      /\ validators'[v] = new
      /\ \A u \in ValidatorIndex \ {v} : validators'[u] = validators[u]
  <2> HIDE DEF new
  <2> QED BY <1>1, <1>4, <1>8
<1>10. /\ K \in Ledger /\ K.totalEB = L.totalEB - val.effectiveBalance
       /\ K.lastRebalance = L.lastRebalance /\ K.smooths = L.smooths
       /\ K.pendingEB = L.pendingEB /\ K.pendingSmooths = L.pendingSmooths
  <2>1. L.totalEB - val.effectiveBalance \in Nat
    BY <1>2, <1>6
  <2> QED BY <1>1, <2>1 DEF Ledger
<1> HIDE DEF K
<1>11. /\ ledger' \in Ledger
       /\ ledger'.lastRebalance = L.lastRebalance
       /\ ledger'.totalEB = L.totalEB - val.effectiveBalance
       /\ ledger'.smooths = L.smooths
       /\ ledger'.pendingEB = L.pendingEB + eb
       /\ (ledger'.pendingSmooths + (now - L.lastRebalance) * eb)
               + REBALANCE_PERIOD * L.pendingEB
             = L.pendingSmooths + REBALANCE_PERIOD * ledger'.pendingEB
  <2>1. K.lastRebalance <= now /\ now - K.lastRebalance <= REBALANCE_PERIOD
    BY <1>1, <1>6, <1>10
  <2>2. /\ ledger' \in Ledger
        /\ ledger'.lastRebalance = K.lastRebalance
        /\ ledger'.totalEB = K.totalEB
        /\ ledger'.smooths = K.smooths
        /\ ledger'.pendingEB = K.pendingEB + eb
        /\ (ledger'.pendingSmooths + (now - K.lastRebalance) * eb)
               + REBALANCE_PERIOD * K.pendingEB
             = K.pendingSmooths + REBALANCE_PERIOD * ledger'.pendingEB
    BY <1>1, <1>2, <1>5, <1>10, <2>1, AllocatedLedger
  <2> QED BY <1>10, <2>2
<1>12. /\ SettledBalance(L, val) = val.effectiveBalance /\ Lead(L, val) = 0
       /\ Claim(L, val) = val.smooths + (L.lastRebalance - val.start) * val.effectiveBalance
  BY <1>2 DEF SettledBalance, Lead, Claim
<1>13. /\ SettledBalance(L, new) = 0 /\ Lead(L, new) = (now - L.lastRebalance) * eb
       /\ Claim(L, new) = val.smooths + share
  <2>1. Pending(L, new)
    BY <1>6, <1>8 DEF Pending
  <2> HIDE DEF new
  <2>2. new.smooths + 0 = new.smooths
    BY <1>6, <1>7, <1>8
  <2> QED BY <1>8, <2>1, <2>2 DEF SettledBalance, Lead, Claim
<1> HIDE DEF new, val
<1>14. Books(ledger', validators')
  <2>1. /\ REBALANCE_PERIOD * L.pendingEB \in Nat /\ REBALANCE_PERIOD * ledger'.pendingEB \in Nat
        /\ (now - L.lastRebalance) * eb \in Nat /\ ledger'.pendingSmooths \in Nat
    <3>1. now - L.lastRebalance \in Nat
      BY <1>1, <1>6
    <3>2. ledger'.pendingEB \in Nat /\ ledger'.pendingSmooths \in Nat
      BY <1>11 DEF Ledger
    <3> QED BY <1>5, <1>6, <3>1, <3>2, NatProduct
  <2>2. /\ ledger'.totalEB + ledger'.pendingEB + val.effectiveBalance
              = L.totalEB + L.pendingEB + new.effectiveBalance
        /\ L.totalEB + SettledBalance(L, new) <= ledger'.totalEB + SettledBalance(L, val)
    BY <1>5, <1>6, <1>8, <1>11, <1>12, <1>13
  <2>3. (ledger'.pendingSmooths + Lead(L, new)) + REBALANCE_PERIOD * L.pendingEB
             <= (L.pendingSmooths + Lead(L, val)) + REBALANCE_PERIOD * ledger'.pendingEB
    BY <1>6, <1>11, <1>12, <1>13, <2>1
  <2>4. ledger'.smooths + Claim(L, val) <= L.smooths + Claim(L, new)
    BY <1>6, <1>7, <1>11, <1>12, <1>13
  <2>5. new.start <= now /\ new.start <= L.lastRebalance + REBALANCE_PERIOD
    BY <1>1, <1>6, <1>8
  <2> QED BY <1>1, <1>9, <1>11, <2>2, <2>3, <2>4, <2>5, BooksOfOneValidator DEF val
<1>15. /\ validators'[v].start > 0 /\ validators'[v].bond = BOND
       /\ totalBond' = totalBond - validators[v].bond + validators'[v].bond
       /\ balance' \in Nat /\ totalBond' <= balance'
  BY <1>1, <1>2, <1>3, <1>6, <1>8, <1>9 DEF val
<1> QED BY <1>2, <1>9, <1>14, <1>15, InvAfter

\* rebalance keeps the invariant.
LEMMA RebalanceStep ==
  ASSUME Inv, Rebalance
  PROVE  Inv'
<1>1. Books(Current, validators) /\ Current \in Ledger
  BY AtCurrent
<1>2. /\ ledger' = Current /\ now' = now /\ validators' = validators
      /\ totalBond' = totalBond /\ balance' = balance
  BY DEF Rebalance
<1>3. Books(ledger, validators)'
  BY <1>1, <1>2 DEF Books, InPeriod
<1>4. TypeOK' /\ VacantIsBlank' /\ BondsBacked'
  BY <1>1, <1>2 DEF Inv, TypeOK, VacantIsBlank, BondsBacked, Registered
<1> QED BY <1>3, <1>4 DEF Inv

\* The passing of time keeps the invariant.
LEMMA TickStep ==
  ASSUME Inv, Tick
  PROVE  Inv'
<1>1. /\ ledger' = ledger /\ validators' = validators
      /\ totalBond' = totalBond /\ balance' = balance
      /\ now \in Nat /\ now' \in Nat /\ now' > now
  BY PoolAssumption DEF Tick, Inv, TypeOK
<1>2. InPeriod(ledger, validators)'
  <2>1. /\ ledger.lastRebalance \in DeployTime .. now
        /\ \A v \in ValidatorIndex :
             /\ validators[v].start \in Nat
             /\ validators[v].start <= now
             /\ validators[v].start <= ledger.lastRebalance + REBALANCE_PERIOD
    BY DEF Inv, Books, InPeriod, Validator
  <2>2. DeployTime \in Nat
    BY Constants
  <2> QED BY <1>1, <2>1, <2>2 DEF InPeriod
<1>3. Books(ledger, validators)'
  BY <1>1, <1>2 DEF Inv, Books
<1>4. TypeOK' /\ VacantIsBlank' /\ BondsBacked'
  BY <1>1 DEF Inv, TypeOK, VacantIsBlank, BondsBacked, Registered
<1> QED BY <1>3, <1>4 DEF Inv

\* receive and donateETH keep the invariant.
LEMMA ReceiveStep ==
  ASSUME Inv, NEW value \in Deposits, Receive(value)
  PROVE  Inv'
<1>1. /\ now' = now /\ ledger' = ledger /\ validators' = validators
      /\ totalBond' = totalBond /\ balance' = balance + value
      /\ value \in Nat
  BY Constants DEF Receive
<1>2. Books(ledger, validators)'
  BY <1>1 DEF Inv, Books, InPeriod
<1>3. TypeOK' /\ VacantIsBlank'
  BY <1>1 DEF Inv, TypeOK, VacantIsBlank, Registered
<1>4. BondsBacked'
  <2>1. balance \in Nat /\ totalBond \in Nat /\ totalBond <= balance
    BY DEF Inv, TypeOK, BondsBacked
  <2>2. totalBond' <= balance'
    BY <1>1, <2>1
  <2> QED BY <1>1, <2>2 DEF Inv, BondsBacked, Registered
<1> QED BY <1>2, <1>3, <1>4 DEF Inv

(***************************************************************************)
(* Only a registered validator can leave: the owner of a free slot is      *)
(* NoAccount, from which no transaction comes.                             *)
(***************************************************************************)
LEMMA ExitIsLeave ==
  ASSUME Inv, NEW v \in ValidatorIndex, NEW sender \in Account, Exit(v, sender)
  PROVE  Registered(v) /\ LeavePool(v, sender)
<1>1. validators[v].withdrawal # NoAccount
  BY Constants DEF Exit
<1>2. Registered(v)
  BY <1>1 DEF Inv, VacantIsBlank, NoValidator
<1> QED BY <1>2 DEF Exit

\* The constructor sets up the invariant.
LEMMA InvInit == Init => Inv
<1> SUFFICES ASSUME Init PROVE Inv
  OBVIOUS
<1>1. /\ now = DeployTime /\ DeployTime \in Nat \ {0} /\ totalBond = 0 /\ balance = 0
      /\ IsFiniteSet(ValidatorIndex) /\ REBALANCE_PERIOD \in Nat
      /\ \A v \in ValidatorIndex : validators[v] = NoValidator
  BY Constants DEF Init
<1>2. /\ ledger \in Ledger /\ ledger.lastRebalance = DeployTime
      /\ ledger.totalEB = 0 /\ ledger.smooths = 0
      /\ ledger.pendingEB = 0 /\ ledger.pendingSmooths = 0
  BY <1>1 DEF Init, Ledger
<1>3. /\ NoValidator \in Validator
      /\ NoValidator.effectiveBalance = 0 /\ NoValidator.bond = 0
      /\ NoValidator.start = 0
      /\ SettledBalance(ledger, NoValidator) = 0 /\ Lead(ledger, NoValidator) = 0
      /\ Claim(ledger, NoValidator) = 0
  BY <1>1, <1>2, VacantAmounts
<1>4. validators \in [ValidatorIndex -> Validator]
  BY <1>3 DEF Init
<1>5. /\ Bonds(validators) \in [ValidatorIndex -> Nat]
      /\ Balances(validators) \in [ValidatorIndex -> Nat]
      /\ SettledBalances(ledger, validators) \in [ValidatorIndex -> Nat]
      /\ Leads(ledger, validators) \in [ValidatorIndex -> Nat]
      /\ Claims(ledger, validators) \in [ValidatorIndex -> Nat]
  BY <1>2, <1>4, ColumnTypes
<1>6. \A v \in ValidatorIndex :
        /\ Bonds(validators)[v] = 0 /\ Balances(validators)[v] = 0
        /\ SettledBalances(ledger, validators)[v] = 0
        /\ Leads(ledger, validators)[v] = 0 /\ Claims(ledger, validators)[v] = 0
  BY <1>1, <1>3 DEF Bonds, Balances, SettledBalances, Leads, Claims, SettledBalance
<1>7. /\ Total(Bonds(validators)) = 0 /\ Total(Balances(validators)) = 0
      /\ Total(SettledBalances(ledger, validators)) = 0
      /\ Total(Leads(ledger, validators)) = 0 /\ Total(Claims(ledger, validators)) = 0
  BY <1>5, <1>6, TotalZero
<1>8. InPeriod(ledger, validators)
  BY <1>1, <1>2, <1>3 DEF InPeriod
<1>9. Books(ledger, validators)
  BY <1>1, <1>2, <1>4, <1>7, <1>8 DEF Books
<1>10. TypeOK
  BY <1>1, <1>2, <1>4 DEF TypeOK
<1>11. VacantIsBlank /\ BondsBacked
  BY <1>1, <1>3, <1>7 DEF VacantIsBlank, BondsBacked, Registered
<1> QED BY <1>9, <1>10, <1>11 DEF Inv

\* Every transaction keeps the invariant.
LEMMA InvNext == Inv /\ [Next]_vars => Inv'
<1> SUFFICES ASSUME Inv, [Next]_vars PROVE Inv'
  OBVIOUS
<1>1. CASE Tick
  BY <1>1, TickStep
<1>2. CASE Rebalance
  BY <1>2, RebalanceStep
<1>3. ASSUME NEW value \in Deposits, Receive(value) \/ DonateETH(value)
      PROVE  Inv'
  BY <1>3, ReceiveStep DEF DonateETH
<1>4. ASSUME NEW v \in ValidatorIndex, NEW record \in BeaconRecords, NEW value \in Deposits,
             Register(v, record, value)
      PROVE  Inv'
  BY <1>4, RegisterStep
<1>5. ASSUME NEW v \in ValidatorIndex, NEW timestamp \in DeployTime .. now, Withdraw(v, timestamp)
      PROVE  Inv'
  BY <1>5, WithdrawStep
<1>6. ASSUME NEW v \in ValidatorIndex, NEW record \in BeaconRecords, UpdateValidator(v, record)
      PROVE  Inv'
  BY <1>6, UpdateActiveStep, LeavePoolStep DEF UpdateValidator
<1>7. ASSUME NEW v \in ValidatorIndex, NEW feeRecipient, NEW sender,
             SlashBadFeeRecipient(v, feeRecipient, sender)
      PROVE  Inv'
  BY <1>7, LeavePoolStep DEF SlashBadFeeRecipient
<1>8. ASSUME NEW v \in ValidatorIndex, NEW sender \in Account, Exit(v, sender)
      PROVE  Inv'
  BY <1>8, ExitIsLeave, LeavePoolStep
<1>9. CASE UNCHANGED vars
  BY <1>9 DEF vars, Inv, TypeOK, VacantIsBlank, BondsBacked, Registered, Books, InPeriod
<1> QED BY <1>1, <1>2, <1>3, <1>4, <1>5, <1>6, <1>7, <1>8, <1>9 DEF Next

\* The storage of the contract is consistent after any transactions, in any order, of
\* any validators: all books agree, all bonds are there.
THEOREM Invariance == Spec => []Inv
BY InvInit, InvNext, PTL DEF Spec

-----------------------------------------------------------------------------
(***************************************************************************)
(* The results.                                                            *)
(***************************************************************************)

\* Every amount the contract stores stays an unsigned integer: none of its
\* subtractions is ever carried out below zero.
THEOREM TypeCorrect == Spec => []TypeOK
<1>1. Inv => TypeOK
  BY DEF Inv
<1> QED BY <1>1, Invariance, PTL

\* `delete validators[validatorIndex]' leaves nothing a new registration of
\* the same validator could inherit.
THEOREM VacantSlotsAreBlank == Spec => []VacantIsBlank
<1>1. Inv => VacantIsBlank
  BY DEF Inv
<1> QED BY <1>1, Invariance, PTL

\* The contract holds the bond of every registered validator, and totalBond is
\* their sum.
THEOREM BondsAreBacked == Spec => []BondsBacked
<1>1. Inv => BondsBacked
  BY DEF Inv
<1> QED BY <1>1, Invariance, PTL

\* totalEB and pendingEB together are the effective balances of the registered
\* validators.
THEOREM BalancesAreConserved == Spec => []EBConserved
<1>1. Inv => EBConserved
  BY DEF Inv, Books, EBConserved
<1> QED BY <1>1, Invariance, PTL

\* Every unit of smooths has an owner.
THEOREM SmoothsAreOwned == Spec => []NoOrphanSmooths
<1>1. Inv => NoOrphanSmooths
  BY DEF Inv, Books, NoOrphanSmooths
<1> QED BY <1>1, Invariance, PTL

\* A rebalance never credits more to the validators of its period than they
\* can then claim.
THEOREM PendingIsCovered == Spec => []PendingCovered
<1>1. Inv => PendingCovered
  BY DEF Inv, Books, PendingCovered
<1> QED BY <1>1, Invariance, PTL

\* totalEB covers every validator that can be taken out of it.
THEOREM SettledIsCovered == Spec => []SettledCovered
<1>1. Inv => SettledCovered
  BY DEF Inv, Books, SettledCovered
<1> QED BY <1>1, Invariance, PTL

\* Validators start in the period of the ledger.
THEOREM StartsInPeriod == Spec => []StartInPeriod
<1>1. Inv => StartInPeriod
  BY DEF Inv, Books, InPeriod, StartInPeriod
<1> QED BY <1>1, Invariance, PTL

-----------------------------------------------------------------------------
(***************************************************************************)
(* The pool implements the escrow.                                         *)
(***************************************************************************)
LEMMA BondsAreLocked ==
  ASSUME Inv
  PROVE  /\ IsFiniteSet(RegisteredSet)
         /\ totalBond = BOND * Cardinality(RegisteredSet)
<1>1. /\ IsFiniteSet(ValidatorIndex) /\ BOND \in Nat \ {0}
      /\ totalBond = Cardinality(Units(Bonds(validators)))
      /\ \A v \in ValidatorIndex : validators[v].bond = IF Registered(v) THEN BOND ELSE 0
  BY Constants DEF Inv, BondsBacked, Total
<1>2. IsFiniteSet(RegisteredSet)
  BY <1>1, FS_Subset DEF RegisteredSet
<1>3. Bonds(validators) \in [ValidatorIndex -> Nat]
  BY ColumnTypes DEF Inv, TypeOK
<1>4. Units(Bonds(validators)) = RegisteredSet \X (1 .. BOND)
  <2>1. ASSUME NEW p \in Units(Bonds(validators))
        PROVE  p \in RegisteredSet \X (1 .. BOND)
    <3>1. p = <<p[1], p[2]>> /\ p[1] \in ValidatorIndex /\ p[2] \in 1 .. Bonds(validators)[p[1]]
      BY <1>3, UnitsMember
    <3>2. p[2] \in 1 .. validators[p[1]].bond
      BY <3>1 DEF Bonds
    <3>3. Registered(p[1])
      BY <1>1, <3>1, <3>2
    <3> QED BY <1>1, <3>1, <3>2, <3>3 DEF RegisteredSet
  <2>2. ASSUME NEW v \in RegisteredSet, NEW i \in 1 .. BOND
        PROVE  <<v, i>> \in Units(Bonds(validators))
    <3>1. v \in ValidatorIndex /\ Bonds(validators)[v] = BOND
      BY <1>1 DEF RegisteredSet, Bonds
    <3> QED BY <1>3, <3>1, UnitsMember
  <2> QED BY <2>1, <2>2
<1>5. IsFiniteSet(1 .. BOND) /\ Cardinality(1 .. BOND) = BOND
  <2>1. BOND \in Nat
    BY <1>1
  <2> QED BY <2>1, FS_Interval
<1>6. Cardinality(RegisteredSet \X (1 .. BOND)) = Cardinality(RegisteredSet) * Cardinality(1 .. BOND)
  <2> DEFINE B == 1 .. BOND
  <2>1. IsFiniteSet(B)
    BY <1>5
  <2> HIDE DEF B
  <2>2. Cardinality(RegisteredSet \X B) = Cardinality(RegisteredSet) * Cardinality(B)
    BY <1>2, <2>1, FS_Product
  <2> QED BY <2>2 DEF B
<1>7. Cardinality(RegisteredSet) \in Nat
  BY <1>2, FS_CardinalityType
<1> QED BY <1>1, <1>2, <1>4, <1>5, <1>6, <1>7

\* Every transaction is a step of the escrow, or none.
LEMMA EscrowStep == Inv /\ Inv' /\ [Next]_vars => [Escrow!Next]_(Escrow!evars)
<1> SUFFICES ASSUME Inv, Inv', [Next]_vars
             PROVE  [Escrow!Next]_(Escrow!evars)
  OBVIOUS
<1> USE DEF Escrow!Next, Escrow!evars
<1>1. /\ BOND \in Nat \ {0} /\ Deposits \subseteq Nat
      /\ balance \in Nat /\ balance' \in Nat /\ totalBond \in Nat /\ totalBond' \in Nat
      /\ totalBond <= balance /\ totalBond' <= balance'
      /\ validators \in [ValidatorIndex -> Validator]
      /\ now > 0 /\ Current.lastRebalance > 0
  BY AtCurrent, Constants DEF Inv, TypeOK, BondsBacked, Books, InPeriod
<1>2. FreeETH = balance - totalBond /\ FreeETH' = balance' - totalBond'
  <2>1. totalBond = BOND * Cardinality(RegisteredSet)
    BY BondsAreLocked
  <2>2. (totalBond = BOND * Cardinality(RegisteredSet))'
    BY BondsAreLocked, PTL
  <2> QED BY <2>1, <2>2 DEF FreeETH
<1>3. ASSUME UNCHANGED <<validators, totalBond, balance>>
      PROVE  UNCHANGED Escrow!evars
  BY <1>2, <1>3 DEF RegisteredSet, Registered
<1>4. ASSUME NEW v \in ValidatorIndex, Registered(v), NEW recipient, LeavePool(v, recipient)
      PROVE  Escrow!Leave(v)
  <2>1. /\ validators' = [validators EXCEPT ![v] = NoValidator]
        /\ balance' - totalBond' = balance - totalBond
    BY <1>1, <1>4 DEF LeavePool, Validator
  <2>2. RegisteredSet' = RegisteredSet \ {v} /\ v \in RegisteredSet
    BY <1>1, <1>4, <2>1 DEF RegisteredSet, Registered, NoValidator
  <2> QED BY <1>2, <2>1, <2>2 DEF Escrow!Leave
<1>5. CASE Tick \/ Rebalance \/ UNCHANGED vars
  BY <1>3, <1>5 DEF Tick, Rebalance, vars
<1>6. ASSUME NEW value \in Deposits, Receive(value) \/ DonateETH(value)
      PROVE  [Escrow!Next]_(Escrow!evars)
  <2>1. /\ validators' = validators /\ totalBond' = totalBond
        /\ balance' = balance + value /\ value \in Nat
    BY <1>1, <1>6 DEF Receive, DonateETH
  <2>2. RegisteredSet' = RegisteredSet
    BY <2>1 DEF RegisteredSet, Registered
  <2>3. CASE value = 0
    BY <1>1, <1>3, <2>1, <2>3
  <2>4. CASE value # 0
    BY <1>1, <1>2, <2>1, <2>2, <2>4 DEF Escrow!Deposit
  <2> QED BY <2>3, <2>4
<1>7. ASSUME NEW v \in ValidatorIndex, NEW record \in BeaconRecords, NEW value \in Deposits,
             Register(v, record, value)
      PROVE  Escrow!Join(v)
  <2>1. /\ ~Registered(v) /\ balance' = balance + BOND /\ totalBond' = totalBond + BOND
        /\ validators'[v].start = now
        /\ \A u \in ValidatorIndex \ {v} : validators'[u] = validators[u]
    BY <1>1, <1>7 DEF Register
  <2>2. RegisteredSet' = RegisteredSet \cup {v} /\ v \notin RegisteredSet
    BY <1>1, <2>1 DEF RegisteredSet, Registered
  <2> QED BY <1>1, <1>2, <2>1, <2>2 DEF Escrow!Join
<1>8. ASSUME NEW v \in ValidatorIndex, NEW timestamp, Withdraw(v, timestamp)
      PROVE  [Escrow!Next]_(Escrow!evars)
  <2>1. /\ Registered(v) /\ totalBond' = totalBond
        /\ validators'[v].start = Current.lastRebalance
        /\ \A u \in ValidatorIndex \ {v} : validators'[u] = validators[u]
    BY <1>1, <1>8 DEF Withdraw
  <2>2. RegisteredSet' = RegisteredSet
    BY <1>1, <2>1 DEF RegisteredSet, Registered
  <2>3. balance' <= balance
    BY <1>8, WithdrawPaysOut
  <2>4. CASE balance' = balance
    BY <1>2, <2>1, <2>2, <2>4
  <2>5. CASE balance' < balance
    BY <1>1, <1>2, <2>1, <2>2, <2>5 DEF Escrow!Pay
  <2> QED BY <1>1, <2>3, <2>4, <2>5
<1>9. ASSUME NEW v \in ValidatorIndex, NEW record \in BeaconRecords, UpdateValidator(v, record)
      PROVE  [Escrow!Next]_(Escrow!evars)
  <2>1. CASE UpdateActive(v, record)
    <3>1. /\ Registered(v) /\ balance' = balance /\ totalBond' = totalBond
          /\ validators'[v].start = now
          /\ \A u \in ValidatorIndex \ {v} : validators'[u] = validators[u]
      BY <1>1, <1>9, <2>1 DEF UpdateActive, UpdateValidator
    <3>2. RegisteredSet' = RegisteredSet
      BY <1>1, <3>1 DEF RegisteredSet, Registered
    <3> QED BY <1>2, <3>1, <3>2
  <2>2. CASE ~IsActiveValidator(record, now) /\ LeavePool(v, validators[v].withdrawal)
    BY <1>4, <1>9, <2>2 DEF UpdateValidator
  <2> QED BY <1>9, <2>1, <2>2 DEF UpdateValidator
<1>10. ASSUME NEW v \in ValidatorIndex, NEW feeRecipient, NEW sender,
              SlashBadFeeRecipient(v, feeRecipient, sender)
       PROVE  Escrow!Leave(v)
  BY <1>4, <1>10 DEF SlashBadFeeRecipient
<1>11. ASSUME NEW v \in ValidatorIndex, NEW sender \in Account, Exit(v, sender)
       PROVE  Escrow!Leave(v)
  BY <1>4, <1>11, ExitIsLeave
<1> QED BY <1>5, <1>6, <1>7, <1>8, <1>9, <1>10, <1>11 DEF Next

\* Seen through the set of registered validators and the ETH that is nobody's
\* bond, the pool takes one bond from each validator that joins, pays exactly one
\* out for each that leaves, and makes every other payment from the free ETH.
THEOREM PoolImplementsEscrow == Spec => EscrowSpec
<1>1. Init => Escrow!Init
  <2> SUFFICES ASSUME Init PROVE Escrow!Init
    OBVIOUS
  <2>1. RegisteredSet = {} /\ balance = 0
    BY DEF Init, RegisteredSet, Registered, NoValidator
  <2>2. BOND \in Nat /\ Cardinality(RegisteredSet) = 0
    BY <2>1, Constants, FS_EmptySet
  <2>3. FreeETH = 0
    BY <2>1, <2>2 DEF FreeETH
  <2> QED BY <2>1, <2>3 DEF Escrow!Init
<1> QED BY <1>1, EscrowStep, Invariance, PTL DEF Spec, EscrowSpec, Escrow!Spec

-----------------------------------------------------------------------------
(* What a step may do to the rewards: the rate of ETH per unit of smooths, *)
(* the amount a withdrawal pays, the claims of the other validators and    *)
(* the exact error of the ledger.  Every transaction is first summed up in *)
(* a lemma (RegisterEffect, ...) that compares the state after it with the *)
(* ledger it found after the modifier needsRebalance; the properties       *)
(* follow from these summaries.                                            *)

(***************************************************************************)
(* The settlement itself: it adds smooths, moves the last rebalance        *)
(* forward only and, repeated at the same time, changes nothing more.      *)
(***************************************************************************)
LEMMA SettlementGrows ==
  ASSUME NEW L \in Ledger, NEW t \in Nat, L.lastRebalance <= t
  PROVE  /\ Rebalanced(L, t).smooths >= L.smooths
         /\ Rebalanced(L, t).lastRebalance >= L.lastRebalance
         /\ Rebalanced(L, t) # L =>
              t > L.lastRebalance /\ Rebalanced(L, t).lastRebalance = t
<1> DEFINE e == t - L.lastRebalance
<1>1. /\ L.lastRebalance \in Nat /\ L.totalEB \in Nat /\ L.smooths \in Nat
      /\ L.pendingEB \in Nat /\ L.pendingSmooths \in Nat /\ e \in Nat
      /\ REBALANCE_PERIOD \in Nat \ {0}
  BY Constants DEF Ledger
<1>2. CASE e > REBALANCE_PERIOD
  <2>1. L.totalEB * e \in Nat /\ L.pendingEB * (e - REBALANCE_PERIOD) \in Nat
    BY <1>1, <1>2, NatProduct
  <2> QED BY <1>1, <1>2, <2>1 DEF Rebalanced
<1>3. CASE ~ (e > REBALANCE_PERIOD)
  BY <1>1, <1>3 DEF Rebalanced
<1> QED BY <1>2, <1>3

\* Settling within the period does nothing.
LEMMA SettledTwice ==
  ASSUME NEW L \in Ledger, NEW t \in Nat, t - L.lastRebalance <= REBALANCE_PERIOD
  PROVE  Rebalanced(L, t) = L
BY Constants DEF Rebalanced, Ledger

(***************************************************************************)
(* What a validator can claim counts the time since its start, so it grows *)
(* with the last rebalance.                                                *)
(***************************************************************************)
LEMMA ClaimGrows ==
  ASSUME NEW L \in Ledger, NEW M \in Ledger, NEW val \in Validator,
         L.lastRebalance <= M.lastRebalance
  PROVE  Claim(L, val) <= Claim(M, val)
<1>1. /\ L.lastRebalance \in Nat /\ M.lastRebalance \in Nat
      /\ val.start \in Nat /\ val.effectiveBalance \in Nat /\ val.smooths \in Nat
  BY AmountTypes
<1>2. CASE Pending(M, val)
  BY <1>1, <1>2 DEF Claim, Pending
<1>3. CASE ~Pending(M, val)
  <2>1. M.lastRebalance - val.start \in Nat
    BY <1>1, <1>3 DEF Pending
  <2>2. (M.lastRebalance - val.start) * val.effectiveBalance \in Nat
    BY <1>1, <2>1, NatProduct
  <2>3. CASE Pending(L, val)
    BY <1>1, <1>3, <2>2, <2>3 DEF Claim
  <2>4. CASE ~Pending(L, val)
    <3>1. /\ L.lastRebalance - val.start \in Nat
          /\ L.lastRebalance - val.start <= M.lastRebalance - val.start
      BY <1>1, <2>4 DEF Pending
    <3>2. (L.lastRebalance - val.start) * val.effectiveBalance
            <= (M.lastRebalance - val.start) * val.effectiveBalance
      BY <1>1, <2>1, <3>1
    <3>3. (L.lastRebalance - val.start) * val.effectiveBalance \in Nat
      BY <1>1, <3>1, NatProduct
    <3> QED BY <1>1, <1>3, <2>2, <2>4, <3>2, <3>3 DEF Claim
  <2> QED BY <2>3, <2>4
<1> QED BY <1>2, <1>3

-----------------------------------------------------------------------------
(***************************************************************************)
(* Integer division in the payout: it never pays more than the pro rata    *)
(* part of the pool, it is short of it by less than one unit of ETH and    *)
(* one part in BPS, and the whole of the smooths is paid the whole pool.   *)
(***************************************************************************)
LEMMA PayoutRate ==
  ASSUME NEW share \in Nat, NEW total \in Nat \ {0}, share <= total, NEW eth \in Nat \ {0}
  PROVE  LET paid == Payout(share, total, eth)
         IN  /\ paid \in Nat /\ paid <= eth
             /\ total * paid <= share * eth
             /\ share * eth * BPS < total * ((paid + 1) * BPS + eth)
             /\ share = total => paid = eth
<1> DEFINE x == (share * BPS) \div total
           paid == Payout(share, total, eth)
<1>1. BPS \in Nat \ {0}
  BY PoolAssumption
<1>2. share * BPS \in Nat
  BY <1>1, NatProduct
<1>3. x \in Nat /\ total * x <= share * BPS /\ share * BPS < total * x + total
  BY <1>1, <1>2, DivType
<1>4. paid = (x * eth) \div BPS
  BY DEF Payout
<1> HIDE DEF x, paid
<1>5. x * eth \in Nat
  BY <1>3, NatProduct
<1>6. paid \in Nat /\ BPS * paid <= x * eth /\ x * eth < BPS * paid + BPS
  BY <1>1, <1>4, <1>5, DivType
<1>7. paid <= eth
  BY PayoutBound DEF paid
<1>8. total * paid <= share * eth
  <2>1. total * (BPS * paid) <= total * (x * eth)
    BY <1>1, <1>5, <1>6, NatProduct
  <2>2. (total * x) * eth <= (share * BPS) * eth
    BY <1>2, <1>3, NatProduct
  <2>3. BPS * (total * paid) <= BPS * (share * eth)
    <3>1. /\ total * (BPS * paid) = BPS * (total * paid)
          /\ total * (x * eth) = (total * x) * eth
          /\ (share * BPS) * eth = BPS * (share * eth)
      BY <1>1, <1>3, <1>6
    <3>2. /\ BPS * (total * paid) \in Nat /\ (total * x) * eth \in Nat
          /\ BPS * (share * eth) \in Nat
      BY <1>1, <1>3, <1>6, NatProduct
    <3> QED BY <2>1, <2>2, <3>1, <3>2
  <2>4. total * paid \in Nat /\ share * eth \in Nat
    BY <1>6, NatProduct
  <2>5. ASSUME NEW a \in Nat, NEW b \in Nat, BPS * a <= BPS * b
        PROVE  a <= b
    <3>1. ASSUME a > b PROVE FALSE
      <4>1. BPS * a >= BPS * (b + 1)
        BY <1>1, <3>1
      <4> QED BY <1>1, <2>5, <4>1
    <3> QED BY <3>1
  <2> QED BY <2>3, <2>4, <2>5
<1>9. share * eth * BPS < total * ((paid + 1) * BPS + eth)
  <2>1. (share * BPS) * eth < (total * x + total) * eth
    BY <1>2, <1>3, NatProduct
  <2>2. total * (x * eth) < total * (BPS * paid + BPS)
    BY <1>1, <1>5, <1>6, NatProduct
  <2>3. /\ (share * BPS) * eth = share * eth * BPS
        /\ (total * x + total) * eth = total * (x * eth) + total * eth
        /\ total * (BPS * paid + BPS) + total * eth = total * ((paid + 1) * BPS + eth)
    BY <1>1, <1>3, <1>6
  <2>4. /\ total * (x * eth) \in Nat /\ total * eth \in Nat
        /\ total * (BPS * paid + BPS) \in Nat /\ share * eth * BPS \in Nat
    BY <1>1, <1>5, <1>6, NatProduct
  <2> QED BY <2>1, <2>2, <2>3, <2>4
<1>10. ASSUME share = total PROVE paid = eth
  <2>1. x = BPS
    <3>1. total * x <= total * BPS /\ total * BPS < total * (x + 1)
      BY <1>1, <1>3, <1>10
    <3>2. ASSUME x > BPS PROVE FALSE
      <4>1. total * x >= total * BPS + total
        <5>1. total * x >= total * (BPS + 1)
          BY <1>1, <1>3, <3>2
        <5> QED BY <1>1, <5>1
      <4>2. total * x \in Nat /\ total * BPS \in Nat
        BY <1>1, <1>3, NatProduct
      <4> QED BY <3>1, <4>1, <4>2
    <3>3. ASSUME x < BPS PROVE FALSE
      <4>1. total * BPS >= total * (x + 1)
        BY <1>1, <1>3, <3>3
      <4> QED BY <1>1, <1>3, <3>1, <4>1
    <3> QED BY <1>1, <1>3, <3>2, <3>3
  <2>2. BPS * eth < BPS * (paid + 1)
    BY <1>1, <1>6, <2>1
  <2>3. ASSUME paid < eth PROVE FALSE
    <3>1. BPS * eth >= BPS * (paid + 1)
      BY <1>1, <1>6, <2>3
    <3> QED BY <1>1, <1>6, <2>2, <3>1
  <2> QED BY <1>6, <1>7, <2>3
<1> QED BY <1>6, <1>7, <1>8, <1>9, <1>10 DEF paid

-----------------------------------------------------------------------------
(***************************************************************************)
(* A transaction on one validator changes the difference between claimed   *)
(* and held smooths by what it changes for that validator and what it      *)
(* books in the counters.                                                  *)
(***************************************************************************)
DriftOf(L, V) ==
  (Total(Claims(L, V)) - L.smooths)
    + (REBALANCE_PERIOD * L.pendingEB - L.pendingSmooths - Total(Leads(L, V)))

Discrepancy(L, M, old, new) ==
  (Claim(L, new) - Claim(L, old)) - (Lead(L, new) - Lead(L, old))
    - (M.smooths - L.smooths)
    + (REBALANCE_PERIOD * M.pendingEB - REBALANCE_PERIOD * L.pendingEB)
    - (M.pendingSmooths - L.pendingSmooths)

\* Claims and leads are unsigned integers.
LEMMA ClaimTypes ==
  ASSUME NEW L \in Ledger, NEW val \in Validator
  PROVE  Claim(L, val) \in Nat /\ Lead(L, val) \in Nat
<1>1. /\ L.lastRebalance \in Nat /\ val.effectiveBalance \in Nat
      /\ val.start \in Nat /\ val.smooths \in Nat
  BY AmountTypes
<1>2. CASE Pending(L, val)
  <2>1. val.start - L.lastRebalance \in Nat
    BY <1>1, <1>2 DEF Pending
  <2>2. (val.start - L.lastRebalance) * val.effectiveBalance \in Nat
    BY <1>1, <2>1, NatProduct
  <2> QED BY <1>1, <1>2, <2>2 DEF Claim, Lead
<1>3. CASE ~Pending(L, val)
  <2>1. L.lastRebalance - val.start \in Nat
    BY <1>1, <1>3 DEF Pending
  <2>2. (L.lastRebalance - val.start) * val.effectiveBalance \in Nat
    BY <1>1, <2>1, NatProduct
  <2> QED BY <1>1, <1>3, <2>2 DEF Claim, Lead
<1> QED BY <1>2, <1>3

\* The drift changes by the discrepancy of the validator that changes.
LEMMA DriftOfOneValidator ==
  ASSUME NEW L \in Ledger, NEW M \in Ledger, M.lastRebalance = L.lastRebalance,
         NEW V \in [ValidatorIndex -> Validator], NEW W \in [ValidatorIndex -> Validator],
         NEW v \in ValidatorIndex, \A u \in ValidatorIndex \ {v} : W[u] = V[u]
  PROVE  DriftOf(M, W) = DriftOf(L, V) + Discrepancy(L, M, V[v], W[v])
<1>1. /\ Total(Leads(M, W)) = Total(Leads(L, V)) - Lead(L, V[v]) + Lead(L, W[v])
      /\ Total(Claims(M, W)) = Total(Claims(L, V)) - Claim(L, V[v]) + Claim(L, W[v])
  BY OneValidator
<1>2. /\ Total(Leads(L, V)) \in Nat /\ Total(Claims(L, V)) \in Nat
  BY ColumnTypes, TotalType, Constants
<1>3. /\ Claim(L, V[v]) \in Nat /\ Claim(L, W[v]) \in Nat
      /\ Lead(L, V[v]) \in Nat /\ Lead(L, W[v]) \in Nat
  BY ClaimTypes
<1>4. /\ L.smooths \in Nat /\ M.smooths \in Nat
      /\ L.pendingSmooths \in Nat /\ M.pendingSmooths \in Nat
      /\ REBALANCE_PERIOD * L.pendingEB \in Nat /\ REBALANCE_PERIOD * M.pendingEB \in Nat
  BY Constants, NatProduct DEF Ledger
<1> QED BY <1>1, <1>2, <1>3, <1>4 DEF DriftOf, Discrepancy

-----------------------------------------------------------------------------
(***************************************************************************)
(* The transactions.                                                       *)
(***************************************************************************)
LEMMA Difference ==
  ASSUME NEW a \in Nat, NEW b \in Nat, a <= b
  PROVE  b - a \in Nat
OBVIOUS

\* The types of all that a transaction reads and leaves.
LEMMA AfterStep ==
  ASSUME Inv, Inv'
  PROVE  /\ Current \in Ledger /\ ledger' \in Ledger
         /\ validators \in [ValidatorIndex -> Validator]
         /\ validators' \in [ValidatorIndex -> Validator]
         /\ TotalETH \in Nat /\ TotalETH' \in Nat
         /\ now \in Nat /\ now' \in Nat
         /\ Current.lastRebalance \in Nat /\ Current.lastRebalance > 0
         /\ Current.lastRebalance <= now
         /\ Current.smooths \in Nat /\ ledger'.smooths \in Nat
<1>1. /\ Current \in Ledger /\ Current.lastRebalance \in DeployTime .. now
      /\ now \in Nat /\ DeployTime \in Nat \ {0}
  BY AtCurrent, Constants
<1>2. /\ totalBond \in Nat /\ balance \in Nat /\ totalBond <= balance
      /\ totalBond' \in Nat /\ balance' \in Nat /\ totalBond' <= balance'
  BY DEF Inv, TypeOK, BondsBacked
<1>3. /\ ledger' \in Ledger /\ now' \in Nat
      /\ validators \in [ValidatorIndex -> Validator]
      /\ validators' \in [ValidatorIndex -> Validator]
  BY DEF Inv, TypeOK
<1>4. TotalETH \in Nat /\ TotalETH' \in Nat
  BY <1>2, Difference DEF TotalETH
<1>5. /\ Current.lastRebalance \in Nat /\ Current.lastRebalance > 0
      /\ Current.lastRebalance <= now
  BY <1>1
<1>6. Current.smooths \in Nat /\ ledger'.smooths \in Nat
  BY <1>1, <1>3 DEF Ledger
<1> QED BY <1>1, <1>3, <1>4, <1>5, <1>6

\* A transaction leaves a ledger that is settled.
LEMMA CurrentAfter ==
  ASSUME Inv, Inv', now' = now, ledger'.lastRebalance = Current.lastRebalance
  PROVE  Current' = ledger'
<1>1. now' - ledger'.lastRebalance <= REBALANCE_PERIOD
  BY AtCurrent
<1>2. Rebalanced(ledger', now') = ledger'
  BY <1>1, AfterStep, SettledTwice
<1> QED BY <1>2 DEF Current

\* What register does to the settled ledger and the validator.
LEMMA RegisterEffect ==
  ASSUME Inv, Inv', NEW v \in ValidatorIndex, NEW record \in BeaconRecords,
         NEW value \in Deposits, Register(v, record, value)
  PROVE  /\ now' = now /\ TotalETH' = TotalETH
         /\ ~Registered(v)
         /\ \A u \in ValidatorIndex \ {v} : validators'[u] = validators[u]
         /\ ledger'.lastRebalance = Current.lastRebalance
         /\ ledger'.smooths = Current.smooths
         /\ Discrepancy(Current, ledger', validators[v], validators'[v]) = 0
<1> DEFINE L == Current
           eb == record.effectiveBalance
           d == now - L.lastRebalance
           new == validators'[v]
<1>1. /\ L \in Ledger /\ ledger' \in Ledger /\ now \in Nat
      /\ L.lastRebalance \in Nat /\ L.lastRebalance > 0 /\ L.lastRebalance <= now
      /\ d <= REBALANCE_PERIOD /\ validators \in [ValidatorIndex -> Validator]
      /\ eb \in Nat /\ d \in Nat
  BY AfterStep, AtCurrent, PoolAssumption DEF BeaconChainValidator
<1>2. /\ now' = now /\ ~Registered(v) /\ ledger' = Allocated(L, eb, now)
      /\ \A u \in ValidatorIndex \ {v} : validators'[u] = validators[u]
      /\ new.start = now /\ new.effectiveBalance = eb /\ new.smooths = validators[v].smooths
      /\ totalBond' = totalBond + BOND /\ balance' = balance + BOND
  BY <1>1 DEF Register
<1>3. /\ validators[v] = NoValidator
      /\ Claim(L, NoValidator) = 0 /\ Lead(L, NoValidator) = 0 /\ NoValidator.smooths = 0
  BY <1>1, <1>2, VacantAmounts DEF Inv, VacantIsBlank
<1>4. TotalETH' = TotalETH
  BY <1>2, Constants DEF TotalETH, Inv, TypeOK
<1> HIDE DEF L, eb, new
<1>5. /\ ledger'.lastRebalance = L.lastRebalance
      /\ ledger'.smooths = L.smooths
      /\ (ledger'.pendingSmooths + d * eb) + REBALANCE_PERIOD * L.pendingEB
           = L.pendingSmooths + REBALANCE_PERIOD * ledger'.pendingEB
  BY <1>1, <1>2, AllocatedLedger
<1>6. Claim(L, new) = 0 /\ Lead(L, new) = d * eb
  BY <1>1, <1>2, <1>3 DEF Claim, Lead, Pending
<1>7. /\ d * eb \in Nat /\ L.smooths \in Nat
      /\ L.pendingSmooths \in Nat /\ ledger'.pendingSmooths \in Nat
      /\ REBALANCE_PERIOD * L.pendingEB \in Nat
      /\ REBALANCE_PERIOD * ledger'.pendingEB \in Nat
  BY <1>1, Constants, NatProduct DEF Ledger
<1> HIDE DEF d
<1>8. Discrepancy(L, ledger', NoValidator, new) = 0
  BY <1>3, <1>5, <1>6, <1>7 DEF Discrepancy
<1> QED BY <1>2, <1>3, <1>4, <1>5, <1>8 DEF L, new

\* What _exit does to them.
LEMMA LeaveEffect ==
  ASSUME Inv, Inv', NEW v \in ValidatorIndex, NEW recipient, Registered(v),
         LeavePool(v, recipient)
  PROVE  /\ now' = now /\ TotalETH' = TotalETH
         /\ totalBond' # totalBond
         /\ ~Registered(v)'
         /\ \A u \in ValidatorIndex \ {v} : validators'[u] = validators[u]
         /\ ledger'.lastRebalance = Current.lastRebalance
         /\ ledger'.smooths <= Current.smooths
         /\ Discrepancy(Current, ledger', validators[v], validators'[v]) = 0
<1> DEFINE L == Current
           val == validators[v]
           d == val.start - L.lastRebalance
<1>1. /\ L \in Ledger /\ ledger' \in Ledger
      /\ L.lastRebalance \in Nat /\ L.lastRebalance > 0
      /\ validators \in [ValidatorIndex -> Validator] /\ val \in Validator
      /\ val.bond = BOND /\ BOND \in Nat \ {0} /\ REBALANCE_PERIOD \in Nat
      /\ totalBond \in Nat /\ balance \in Nat
  BY AfterStep, Constants DEF Inv, TypeOK, BondsBacked
<1>2. /\ CanDeallocate(L, val) /\ ledger' = Deallocated(L, val)
      /\ totalBond' = totalBond - val.bond /\ balance' = balance - val.bond
      /\ validators' = [validators EXCEPT ![v] = NoValidator]
      /\ now' = now
  BY DEF LeavePool
<1>3. /\ TotalETH' = TotalETH /\ totalBond' # totalBond
  BY <1>1, <1>2 DEF TotalETH
<1>4. /\ validators'[v] = NoValidator /\ ~Registered(v)'
      /\ \A u \in ValidatorIndex \ {v} : validators'[u] = validators[u]
  BY <1>1, <1>2 DEF Registered, NoValidator
<1> HIDE DEF L, val
<1>5. /\ L.totalEB \in Nat /\ L.smooths \in Nat /\ L.pendingEB \in Nat
      /\ L.pendingSmooths \in Nat
      /\ val.effectiveBalance \in Nat /\ val.start \in Nat /\ val.smooths \in Nat
      /\ Claim(L, NoValidator) = 0 /\ Lead(L, NoValidator) = 0
      /\ REBALANCE_PERIOD * L.pendingEB \in Nat
      /\ REBALANCE_PERIOD * val.effectiveBalance \in Nat
  BY <1>1, AmountTypes, VacantAmounts, NatProduct
<1>6. /\ ledger'.lastRebalance = L.lastRebalance
      /\ ledger'.smooths <= L.smooths
      /\ Discrepancy(L, ledger', val, NoValidator) = 0
  <2>1. CASE Pending(L, val)
    <3>1. /\ d <= REBALANCE_PERIOD /\ d \in Nat /\ REBALANCE_PERIOD - d \in Nat
          /\ L.pendingEB >= val.effectiveBalance
      BY <1>1, <1>2, <1>5, <2>1 DEF CanDeallocate, Pending
    <3>2. /\ PendingShare(L, val) = REBALANCE_PERIOD * val.effectiveBalance
                                     - d * val.effectiveBalance
          /\ d * val.effectiveBalance \in Nat
      BY <1>1, <1>5, <3>1, NatProduct DEF PendingShare
    <3>3. /\ ledger'.lastRebalance = L.lastRebalance
          /\ ledger'.pendingEB = L.pendingEB - val.effectiveBalance
          /\ ledger'.pendingSmooths = L.pendingSmooths - PendingShare(L, val)
          /\ ledger'.smooths = L.smooths - val.smooths
      BY <1>1, <1>2, <2>1 DEF Deallocated, Ledger
    <3>4. Claim(L, val) = val.smooths /\ Lead(L, val) = d * val.effectiveBalance
      BY <1>5, <2>1 DEF Claim, Lead
    <3>5. REBALANCE_PERIOD * ledger'.pendingEB
            = REBALANCE_PERIOD * L.pendingEB - REBALANCE_PERIOD * val.effectiveBalance
      BY <1>1, <1>5, <3>3
    <3> HIDE DEF d
    <3> QED BY <1>5, <3>2, <3>3, <3>4, <3>5 DEF Discrepancy
  <2>2. CASE ~Pending(L, val)
    <3>1. L.lastRebalance - val.start \in Nat
      BY <1>1, <1>5, <2>2 DEF Pending
    <3>2. (L.lastRebalance - val.start) * val.effectiveBalance \in Nat
      BY <1>5, <3>1, NatProduct
    <3>3. /\ GetShares(L, val) = Claim(L, val) /\ Claim(L, val) \in Nat /\ Lead(L, val) = 0
      BY <1>5, <2>2, <3>2 DEF GetShares, Claim, Lead
    <3>4. /\ ledger'.lastRebalance = L.lastRebalance
          /\ ledger'.pendingEB = L.pendingEB
          /\ ledger'.pendingSmooths = L.pendingSmooths
          /\ ledger'.smooths = L.smooths - Claim(L, val)
      BY <1>1, <1>2, <2>2, <3>3 DEF Deallocated, Ledger
    <3> QED BY <1>5, <3>3, <3>4 DEF Discrepancy
  <2> QED BY <2>1, <2>2
<1> QED BY <1>2, <1>3, <1>4, <1>6 DEF L, val

\* What withdraw does to them.
LEMMA WithdrawEffect ==
  ASSUME Inv, Inv', NEW v \in ValidatorIndex, NEW timestamp, Withdraw(v, timestamp)
  PROVE  LET share == Claim(Current, validators[v])
             paid  == Payout(share, Current.smooths, TotalETH)
         IN  /\ now' = now /\ totalBond' = totalBond
             /\ Registered(v) /\ Registered(v)'
             /\ TotalETH \in Nat \ {0} /\ Current.smooths \in Nat \ {0}
             /\ share \in Nat /\ share <= Current.smooths
             /\ balance' = balance - paid
             /\ ledger'.smooths = Current.smooths - share
             /\ ledger'.lastRebalance = Current.lastRebalance
             /\ validators'[v].smooths = 0
             /\ validators'[v].start = Current.lastRebalance
             /\ \A u \in ValidatorIndex \ {v} : validators'[u] = validators[u]
             /\ Discrepancy(Current, ledger', validators[v], validators'[v])
                  = Lead(Current, validators[v])
<1> DEFINE L == Current
           val == validators[v]
           new == validators'[v]
           share == Claim(L, val)
<1>1. /\ L \in Ledger /\ ledger' \in Ledger
      /\ L.lastRebalance \in Nat /\ L.lastRebalance > 0 /\ L.smooths \in Nat
      /\ validators \in [ValidatorIndex -> Validator] /\ val \in Validator
      /\ TotalETH \in Nat
  BY AfterStep
<1>2. share = WithdrawShare(L, val) /\ share \in Nat
  <2>1. /\ val.effectiveBalance \in Nat /\ val.start \in Nat /\ val.smooths \in Nat
    BY <1>1, AmountTypes
  <2>2. CASE Pending(L, val)
    BY <2>1, <2>2 DEF WithdrawShare, Claim
  <2>3. CASE ~Pending(L, val)
    <3>1. L.lastRebalance - val.start \in Nat
      BY <1>1, <2>1, <2>3 DEF Pending
    <3>2. (L.lastRebalance - val.start) * val.effectiveBalance \in Nat
      BY <2>1, <3>1, NatProduct
    <3> QED BY <2>1, <2>3, <3>2 DEF WithdrawShare, GetShares, Claim
  <2> QED BY <2>2, <2>3
<1> HIDE DEF share
<1>3. /\ now' = now /\ totalBond' = totalBond /\ Registered(v)
      /\ TotalETH > 0 /\ L.smooths > 0 /\ share <= L.smooths
      /\ balance' = balance - Payout(share, L.smooths, TotalETH)
      /\ ledger' = [L EXCEPT !.smooths = L.smooths - share]
      /\ new.start = L.lastRebalance /\ new.smooths = 0
      /\ \A u \in ValidatorIndex \ {v} : validators'[u] = validators[u]
  BY <1>1, <1>2 DEF Withdraw
<1>4. Registered(v)'
  BY <1>1, <1>3 DEF Registered
<1> HIDE DEF L, val, new
<1>5. /\ ledger'.lastRebalance = L.lastRebalance
      /\ ledger'.smooths = L.smooths - share
      /\ ledger'.pendingEB = L.pendingEB
      /\ ledger'.pendingSmooths = L.pendingSmooths
  BY <1>1, <1>3 DEF Ledger
<1>6. Claim(L, new) = 0 /\ Lead(L, new) = 0
  <2>1. new.effectiveBalance \in Nat
    BY AfterStep, AmountTypes DEF new
  <2> QED BY <1>1, <1>3, <2>1 DEF Claim, Lead, Pending
<1>7. Discrepancy(L, ledger', val, new) = Lead(L, val)
  <2>1. /\ Lead(L, val) \in Nat /\ L.pendingSmooths \in Nat
        /\ REBALANCE_PERIOD * L.pendingEB \in Nat
    BY <1>1, ClaimTypes, Constants, NatProduct, AmountTypes
  <2> QED BY <1>1, <1>2, <1>5, <1>6, <2>1 DEF Discrepancy, share
<1> QED BY <1>1, <1>2, <1>3, <1>4, <1>5, <1>7 DEF L, val, new, share

\* What updateValidator does to them for an active validator.
LEMMA UpdateActiveEffect ==
  ASSUME Inv, Inv', NEW v \in ValidatorIndex, NEW record \in BeaconRecords, Registered(v),
         UpdateActive(v, record)
  PROVE  /\ now' = now /\ TotalETH' = TotalETH
         /\ Registered(v)'
         /\ ~Pending(Current, validators[v])
         /\ validators'[v].start = now
         /\ \A u \in ValidatorIndex \ {v} : validators'[u] = validators[u]
         /\ ledger'.lastRebalance = Current.lastRebalance
         /\ ledger'.smooths = Current.smooths
         /\ Claim(Current, validators'[v]) >= Claim(Current, validators[v])
         /\ Discrepancy(Current, ledger', validators[v], validators'[v])
              = (now - Current.lastRebalance) * validators[v].effectiveBalance
<1> DEFINE L == Current
           K == [L EXCEPT !.totalEB = L.totalEB - validators[v].effectiveBalance]
           val == validators[v]
           new == validators'[v]
           eb == record.effectiveBalance
           d == now - L.lastRebalance
           claimed == (L.lastRebalance - val.start) * val.effectiveBalance
<1>1. /\ L \in Ledger /\ ledger' \in Ledger /\ now \in Nat
      /\ L.lastRebalance \in Nat /\ L.lastRebalance > 0 /\ L.lastRebalance <= now
      /\ d <= REBALANCE_PERIOD /\ d \in Nat /\ eb \in Nat
      /\ validators \in [ValidatorIndex -> Validator] /\ val \in Validator
  BY AfterStep, AtCurrent, PoolAssumption DEF BeaconChainValidator
<1>2. /\ ~Pending(L, val) /\ L.totalEB >= val.effectiveBalance
      /\ ledger' = Allocated(K, eb, now)
      /\ now' = now /\ totalBond' = totalBond /\ balance' = balance
      /\ new.start = now /\ new.effectiveBalance = eb
      /\ new.smooths = val.smooths + (now - val.start) * val.effectiveBalance
      /\ \A u \in ValidatorIndex \ {v} : validators'[u] = validators[u]
  BY <1>1 DEF UpdateActive
<1>3. TotalETH' = TotalETH /\ Registered(v)'
  BY <1>1, <1>2 DEF TotalETH, Registered
<1> HIDE DEF L, val, new, eb
<1>4. /\ L.totalEB \in Nat /\ L.smooths \in Nat /\ L.pendingEB \in Nat
      /\ L.pendingSmooths \in Nat
      /\ val.effectiveBalance \in Nat /\ val.start \in Nat /\ val.smooths \in Nat
  BY <1>1, AmountTypes
<1>5. K \in Ledger /\ K.lastRebalance = L.lastRebalance /\ K.smooths = L.smooths
      /\ K.pendingEB = L.pendingEB /\ K.pendingSmooths = L.pendingSmooths
  <2>1. L.totalEB - validators[v].effectiveBalance \in Nat
    BY <1>2, <1>4 DEF val
  <2> QED BY <1>1, <2>1 DEF Ledger
<1> HIDE DEF K
<1>6. /\ ledger'.lastRebalance = L.lastRebalance
      /\ ledger'.smooths = L.smooths
      /\ (ledger'.pendingSmooths + d * eb) + REBALANCE_PERIOD * L.pendingEB
           = L.pendingSmooths + REBALANCE_PERIOD * ledger'.pendingEB
  <2>1. K.lastRebalance <= now /\ now - K.lastRebalance <= REBALANCE_PERIOD
    BY <1>1, <1>5
  <2>2. /\ ledger'.lastRebalance = K.lastRebalance
        /\ ledger'.smooths = K.smooths
        /\ (ledger'.pendingSmooths + (now - K.lastRebalance) * eb)
                + REBALANCE_PERIOD * K.pendingEB
             = K.pendingSmooths + REBALANCE_PERIOD * ledger'.pendingEB
    <3>1. eb \in Nat /\ now \in Nat /\ K \in Ledger /\ ledger' = Allocated(K, eb, now)
      BY <1>1, <1>2, <1>5
    <3> HIDE DEF d
    <3> QED BY <2>1, <3>1, AllocatedLedger
  <2> QED BY <1>5, <2>2
<1>7. /\ claimed \in Nat /\ d * val.effectiveBalance \in Nat /\ d * eb \in Nat
      /\ (now - val.start) * val.effectiveBalance = claimed + d * val.effectiveBalance
  <2>1. L.lastRebalance - val.start \in Nat
    BY <1>1, <1>2, <1>4 DEF Pending
  <2>2. claimed \in Nat /\ d * val.effectiveBalance \in Nat /\ d * eb \in Nat
    BY <1>1, <1>4, <2>1, NatProduct
  <2>3. (now - val.start) * val.effectiveBalance
          = (L.lastRebalance - val.start) * val.effectiveBalance
            + (now - L.lastRebalance) * val.effectiveBalance
    BY <1>1, <1>4
  <2> QED BY <2>2, <2>3
<1>8. /\ Claim(L, val) = val.smooths + claimed /\ Lead(L, val) = 0
  BY <1>2 DEF Claim, Lead
<1>9. /\ Claim(L, new) = val.smooths + claimed + d * val.effectiveBalance
      /\ Lead(L, new) = d * eb
  <2>1. Pending(L, new)
    BY <1>1, <1>2 DEF Pending
  <2>2. new.smooths = val.smooths + claimed + d * val.effectiveBalance
    <3> HIDE DEF claimed, d
    <3> QED BY <1>2, <1>4, <1>7
  <2>3. Claim(L, new) = new.smooths + 0 /\ Lead(L, new) = (now - L.lastRebalance) * eb
    BY <1>2, <2>1 DEF Claim, Lead
  <2> HIDE DEF claimed
  <2> QED BY <1>4, <1>7, <2>2, <2>3
<1>10. /\ REBALANCE_PERIOD * L.pendingEB \in Nat
       /\ REBALANCE_PERIOD * ledger'.pendingEB \in Nat
       /\ ledger'.pendingSmooths \in Nat
  BY <1>1, Constants, NatProduct DEF Ledger
<1>11. /\ Claim(L, new) >= Claim(L, val)
       /\ Discrepancy(L, ledger', val, new) = d * val.effectiveBalance
  <2> HIDE DEF claimed, d
  <2> QED BY <1>4, <1>6, <1>7, <1>8, <1>9, <1>10 DEF Discrepancy
<1> QED BY <1>2, <1>3, <1>6, <1>11 DEF L, val, new

-----------------------------------------------------------------------------
(***************************************************************************)
(* The steps that no validator takes: time, settlement and deposits.       *)
(***************************************************************************)
Quiet ==
  \/ Tick
  \/ Rebalance
  \/ UNCHANGED vars
  \/ \E value \in Deposits : Receive(value)

\* Every step is one of these, or quiet.
LEMMA StepKinds ==
  ASSUME Inv, [Next]_vars
  PROVE  \/ Quiet
         \/ \E v \in ValidatorIndex, record \in BeaconRecords, value \in Deposits :
              Register(v, record, value)
         \/ \E v \in ValidatorIndex : \E timestamp \in DeployTime .. now : Withdraw(v, timestamp)
         \/ \E v \in ValidatorIndex, record \in BeaconRecords :
              Registered(v) /\ UpdateActive(v, record)
         \/ \E v \in ValidatorIndex : \E recipient \in Account \cup {NoAccount} :
              Registered(v) /\ LeavePool(v, recipient)
<1> DEFINE Goal ==
         \/ Quiet
         \/ \E v \in ValidatorIndex, record \in BeaconRecords, value \in Deposits :
              Register(v, record, value)
         \/ \E v \in ValidatorIndex : \E timestamp \in DeployTime .. now : Withdraw(v, timestamp)
         \/ \E v \in ValidatorIndex, record \in BeaconRecords :
              Registered(v) /\ UpdateActive(v, record)
         \/ \E v \in ValidatorIndex : \E recipient \in Account \cup {NoAccount} :
              Registered(v) /\ LeavePool(v, recipient)
<1>1. CASE Tick \/ Rebalance \/ UNCHANGED vars
  BY <1>1 DEF Quiet
<1>2. ASSUME NEW value \in Deposits, Receive(value) \/ DonateETH(value)
      PROVE  Goal
  BY <1>2 DEF Quiet, DonateETH
<1>3. ASSUME NEW v \in ValidatorIndex, NEW record \in BeaconRecords, UpdateValidator(v, record)
      PROVE  Goal
  <2>1. validators[v].withdrawal \in Account \cup {NoAccount}
    BY DEF Inv, TypeOK, Validator
  <2> QED BY <1>3, <2>1 DEF UpdateValidator
<1>4. ASSUME NEW v \in ValidatorIndex, NEW feeRecipient, NEW sender \in Account,
             SlashBadFeeRecipient(v, feeRecipient, sender)
      PROVE  Goal
  BY <1>4 DEF SlashBadFeeRecipient
<1>5. ASSUME NEW v \in ValidatorIndex, NEW sender \in Account, Exit(v, sender)
      PROVE  Goal
  BY <1>5, ExitIsLeave
<1> QED BY <1>1, <1>2, <1>3, <1>4, <1>5 DEF Next

(***************************************************************************)
(* A settlement credits, validator by validator, what it adds to the       *)
(* counters: it neither makes nor hides an error of the ledger.            *)
(***************************************************************************)
LEMMA SettlementKeepsDrift ==
  ASSUME now \in Nat, NEW L, NEW V, Books(L, V)
  PROVE  DriftOf(Rebalanced(L, now), V) = DriftOf(L, V)
<1> DEFINE M == Rebalanced(L, now)
           e == now - L.lastRebalance
<1>1. /\ L \in Ledger /\ V \in [ValidatorIndex -> Validator]
      /\ L.lastRebalance \in Nat /\ L.totalEB \in Nat /\ L.smooths \in Nat
      /\ L.pendingEB \in Nat /\ L.pendingSmooths \in Nat
      /\ L.lastRebalance <= now /\ e \in Nat
      /\ REBALANCE_PERIOD \in Nat
      /\ IsFiniteSet(ValidatorIndex)
      /\ L.totalEB + L.pendingEB = Total(Balances(V))
      /\ \A v \in ValidatorIndex : V[v].start <= now
  BY Constants DEF Books, InPeriod, Ledger
<1>2. CASE ~ (e > REBALANCE_PERIOD)
  BY <1>1, <1>2 DEF Rebalanced
<1>3. CASE e > REBALANCE_PERIOD
  <2>1. /\ M \in Ledger
        /\ M.lastRebalance = now
        /\ M.smooths = L.smooths + L.totalEB * e + L.pendingEB * (e - REBALANCE_PERIOD)
                       + L.pendingSmooths
        /\ M.pendingEB = 0 /\ M.pendingSmooths = 0
    BY <1>1, <1>3, SettledBooks DEF Rebalanced, Books
  <2> HIDE DEF M
  <2>2. /\ Total(Claims(M, V)) + Total(Leads(L, V))
             = Total(Claims(L, V)) + e * Total(Balances(V))
        /\ Total(Leads(M, V)) = 0
    BY <1>1, <1>3, <2>1, TotalsAfterRebalance
  <2>3. /\ Total(Claims(L, V)) \in Nat /\ Total(Claims(M, V)) \in Nat
        /\ Total(Leads(L, V)) \in Nat /\ Total(Balances(V)) \in Nat
        /\ M.smooths \in Nat
    BY <1>1, <2>1, ColumnTypes, TotalType DEF Ledger
  <2>4. /\ e * Total(Balances(V)) = L.totalEB * e + L.pendingEB * e
        /\ L.pendingEB * (e - REBALANCE_PERIOD)
             = L.pendingEB * e - REBALANCE_PERIOD * L.pendingEB
        /\ REBALANCE_PERIOD * M.pendingEB = 0
    BY <1>1, <2>1, <2>3
  <2>5. /\ L.totalEB * e \in Nat /\ L.pendingEB * e \in Nat
        /\ REBALANCE_PERIOD * L.pendingEB \in Nat
    BY <1>1, NatProduct
  <2> HIDE DEF e
  <2>6. DriftOf(M, V) = Total(Claims(M, V)) - M.smooths
    BY <2>1, <2>2, <2>3, <2>4 DEF DriftOf
  <2>7. Total(Claims(M, V)) - M.smooths
          = (Total(Claims(L, V)) - L.smooths)
            + (REBALANCE_PERIOD * L.pendingEB - L.pendingSmooths - Total(Leads(L, V)))
    BY <1>1, <2>1, <2>2, <2>3, <2>4, <2>5
  <2> QED BY <2>6, <2>7 DEF DriftOf, M
<1> QED BY <1>2, <1>3

\* A quiet step changes no validator and neither bonds nor drift.
LEMMA QuietEffect ==
  ASSUME Inv, Inv', Quiet
  PROVE  /\ validators' = validators
         /\ totalBond' = totalBond /\ balance' >= balance
         /\ ledger'.smooths <= Current.smooths
         /\ Current'.lastRebalance >= Current.lastRebalance
         /\ DriftOf(ledger', validators') = DriftOf(ledger, validators)
<1>1. /\ ledger \in Ledger /\ Books(ledger, validators) /\ balance \in Nat
      /\ now \in Nat /\ ledger.lastRebalance \in Nat /\ ledger.lastRebalance <= now
      /\ Current \in Ledger /\ Current.lastRebalance \in Nat /\ Current.smooths \in Nat
      /\ Current.lastRebalance <= now
      /\ REBALANCE_PERIOD \in Nat
  BY AfterStep, Constants DEF Inv, TypeOK, Books, InPeriod, Ledger
<1>2. Current.smooths >= ledger.smooths
  BY <1>1, SettlementGrows DEF Current
<1>3. CASE Tick
  <2>1. /\ ledger' = ledger /\ validators' = validators
        /\ totalBond' = totalBond /\ balance' = balance
        /\ now' \in Nat /\ now' > now
    BY <1>1, <1>3, PoolAssumption DEF Tick
  <2>2. Current' = Rebalanced(ledger, now')
    BY <2>1 DEF Current
  <2>3. Current'.lastRebalance >= Current.lastRebalance
    <3>1. CASE Current = ledger
      <4>1. ASSUME NEW t \in Nat, t > now
            PROVE  Rebalanced(ledger, t).lastRebalance >= Current.lastRebalance
        BY <1>1, <3>1, <4>1, SettlementGrows
      <4> QED BY <2>1, <2>2, <4>1
    <3>2. CASE Current # ledger
      <4>1. now - ledger.lastRebalance > REBALANCE_PERIOD
        BY <1>1, <3>2, SettledTwice DEF Current
      <4>2. ASSUME NEW t \in Nat, t > now
            PROVE  Rebalanced(ledger, t).lastRebalance >= Current.lastRebalance
        <5>1. t - ledger.lastRebalance > REBALANCE_PERIOD
          BY <1>1, <4>1, <4>2
        <5>2. Rebalanced(ledger, t).lastRebalance = t
          BY <5>1 DEF Rebalanced
        <5> QED BY <1>1, <4>2, <5>2
      <4> QED BY <2>1, <2>2, <4>2
    <3> QED BY <3>1, <3>2
  <2> QED BY <1>1, <1>2, <2>1, <2>3
<1>4. CASE Rebalance
  <2>1. /\ ledger' = Current /\ validators' = validators /\ now' = now
        /\ totalBond' = totalBond /\ balance' = balance
    BY <1>4 DEF Rebalance
  <2>2. Current' = ledger'
    BY <2>1, CurrentAfter
  <2>3. DriftOf(Current, validators) = DriftOf(ledger, validators)
    BY <1>1, SettlementKeepsDrift DEF Current
  <2> QED BY <1>1, <2>1, <2>2, <2>3
<1>5. CASE UNCHANGED vars \/ \E value \in Deposits : Receive(value)
  <2>1. /\ ledger' = ledger /\ validators' = validators /\ now' = now
        /\ totalBond' = totalBond
    BY <1>5 DEF vars, Receive
  <2>2. balance' >= balance
    BY <1>1, <1>5, Constants DEF vars, Receive
  <2>3. Current' = Current
    BY <2>1 DEF Current
  <2> QED BY <1>1, <1>2, <2>1, <2>2, <2>3
<1> QED BY <1>3, <1>4, <1>5 DEF Quiet

-----------------------------------------------------------------------------
(***************************************************************************)
(* The results.                                                            *)
(***************************************************************************)

\* What the properties take for a withdrawal is a transaction of withdraw.
LEMMA OnlyWithdrawals ==
  ASSUME Inv, Inv', [Next]_vars, IsWithdrawal
  PROVE  \E v \in ValidatorIndex : \E timestamp \in DeployTime .. now : Withdraw(v, timestamp)
<1>1. /\ ledger'.smooths < Current.smooths /\ totalBond' = totalBond
      /\ validators' # validators
      /\ Current.smooths \in Nat
  BY AfterStep DEF IsWithdrawal
<1>2. ~Quiet
  BY <1>1, QuietEffect
<1>3. ASSUME NEW v \in ValidatorIndex, NEW record \in BeaconRecords, NEW value \in Deposits,
             Register(v, record, value)
      PROVE  FALSE
  <2>1. ledger'.smooths = Current.smooths
    BY <1>3, RegisterEffect
  <2> QED BY <1>1, <2>1
<1>4. ASSUME NEW v \in ValidatorIndex, NEW record \in BeaconRecords,
             Registered(v), UpdateActive(v, record)
      PROVE  FALSE
  <2>1. ledger'.smooths = Current.smooths
    BY <1>4, UpdateActiveEffect
  <2> QED BY <1>1, <2>1
<1>5. ASSUME NEW v \in ValidatorIndex, NEW recipient, Registered(v), LeavePool(v, recipient)
      PROVE  FALSE
  BY <1>1, <1>5, LeaveEffect
<1> QED BY <1>2, <1>3, <1>4, <1>5, StepKinds

\* A withdrawal pays its share, rounded down, and all if it is the last one.
LEMMA WithdrawalPays ==
  ASSUME Inv, Inv', [Next]_vars, IsWithdrawal
  PROVE  /\ (Current.smooths - ledger'.smooths) * TotalETH * BPS
              < Current.smooths * ((balance - balance' + 1) * BPS + TotalETH)
         /\ ledger'.smooths = 0 => balance' = totalBond'
<1>1. PICK v \in ValidatorIndex : \E timestamp \in DeployTime .. now : Withdraw(v, timestamp)
  BY OnlyWithdrawals
<1> DEFINE share == Claim(Current, validators[v])
           paid == Payout(share, Current.smooths, TotalETH)
<1>2. /\ TotalETH \in Nat \ {0} /\ Current.smooths \in Nat \ {0}
      /\ share \in Nat /\ share <= Current.smooths
      /\ balance' = balance - paid /\ totalBond' = totalBond
      /\ ledger'.smooths = Current.smooths - share
  BY <1>1, WithdrawEffect
<1> HIDE DEF share
<1>3. /\ paid \in Nat
      /\ share * TotalETH * BPS < Current.smooths * ((paid + 1) * BPS + TotalETH)
      /\ share = Current.smooths => paid = TotalETH
  BY <1>2, PayoutRate
<1> HIDE DEF paid
<1>4. balance \in Nat /\ totalBond \in Nat
  BY DEF Inv, TypeOK
<1>5. balance - balance' = paid /\ Current.smooths - ledger'.smooths = share
  BY <1>2, <1>3, <1>4
<1>6. ASSUME ledger'.smooths = 0 PROVE balance' = totalBond'
  <2>1. share = Current.smooths
    BY <1>2, <1>6
  <2> QED BY <1>2, <1>3, <1>4, <2>1 DEF TotalETH
<1> QED BY <1>3, <1>5, <1>6

\* A withdrawal pays its pro rata share of the pool, short by less than one
\* unit of ETH and one part in BPS, in every pool.
THEOREM PayoutsAreAccurate == Spec => PayoutAccurate
<1>1. Inv /\ Inv' /\ [Next]_vars =>
        (IsWithdrawal =>
           LET share == Current.smooths - ledger'.smooths
               eth   == balance - balance'
           IN  share * TotalETH * BPS
                 < Current.smooths * ((eth + 1) * BPS + TotalETH))
  BY WithdrawalPays
<1> QED BY <1>1, Invariance, PTL DEF Spec, PayoutAccurate

\* The last withdrawal leaves nothing but the bonds in the contract.
THEOREM LastWithdrawalEmptiesPool == Spec => LastWithdrawalDrains
<1>1. Inv /\ Inv' /\ [Next]_vars =>
        (IsWithdrawal /\ ledger'.smooths = 0 => balance' = totalBond')
  BY WithdrawalPays
<1> QED BY <1>1, Invariance, PTL DEF Spec, LastWithdrawalDrains

\* Products are monotonic.
LEMMA ProductGrows ==
  ASSUME NEW a \in Nat, NEW b \in Nat, NEW c \in Nat, NEW d \in Nat, a >= c, b >= d
  PROVE  a * b >= c * d
<1>1. a * b >= c * b /\ c * b >= c * d
  BY NatProduct
<1>2. a * b \in Nat /\ c * b \in Nat /\ c * d \in Nat
  BY NatProduct
<1> QED BY <1>1, <1>2

\* Differences are monotonic.
LEMMA DifferenceGrows ==
  ASSUME NEW a \in Nat, NEW b \in Nat, NEW c \in Nat, c >= b
  PROVE  c - a >= b - a
OBVIOUS

\* Who takes no more than their part leaves the others no less than theirs.
LEMMA FairPart ==
  ASSUME NEW eth \in Nat, NEW total \in Nat, NEW paid \in Nat, NEW share \in Nat,
         paid <= eth, share <= total, total * paid <= share * eth
  PROVE  (eth - paid) * total >= eth * (total - share)
<1>1. /\ (eth - paid) * total = eth * total - total * paid
      /\ eth * (total - share) = eth * total - share * eth
  OBVIOUS
<1>2. eth * total \in Nat /\ total * paid \in Nat /\ share * eth \in Nat
  BY NatProduct
<1> QED BY <1>1, <1>2

\* No step lowers the ETH behind a unit of smooths.
LEMMA RateStep ==
  ASSUME Inv, Inv', [Next]_vars
  PROVE  (balance' - totalBond') * Current.smooths >= TotalETH * ledger'.smooths
<1>1. /\ TotalETH \in Nat /\ TotalETH' \in Nat
      /\ Current.smooths \in Nat /\ ledger'.smooths \in Nat
      /\ balance \in Nat /\ totalBond \in Nat /\ balance' \in Nat
  BY AfterStep DEF Inv, TypeOK
<1>2. TotalETH' = balance' - totalBond'
  BY DEF TotalETH
<1>3. ASSUME TotalETH' >= TotalETH, ledger'.smooths <= Current.smooths
      PROVE  TotalETH' * Current.smooths >= TotalETH * ledger'.smooths
  BY <1>1, <1>3, ProductGrows
<1>4. CASE Quiet
  <2>1. /\ totalBond' = totalBond /\ balance' >= balance
        /\ ledger'.smooths <= Current.smooths
    BY <1>4, QuietEffect
  <2>2. TotalETH' >= TotalETH
    BY <1>1, <1>2, <2>1, DifferenceGrows DEF TotalETH
  <2> QED BY <1>2, <1>3, <2>1, <2>2
<1>5. ASSUME NEW v \in ValidatorIndex, NEW record \in BeaconRecords, NEW value \in Deposits,
             Register(v, record, value)
      PROVE  TotalETH' * Current.smooths >= TotalETH * ledger'.smooths
  BY <1>1, <1>3, <1>5, RegisterEffect
<1>6. ASSUME NEW v \in ValidatorIndex, NEW record \in BeaconRecords,
             Registered(v), UpdateActive(v, record)
      PROVE  TotalETH' * Current.smooths >= TotalETH * ledger'.smooths
  BY <1>1, <1>3, <1>6, UpdateActiveEffect
<1>7. ASSUME NEW v \in ValidatorIndex, NEW recipient, Registered(v), LeavePool(v, recipient)
      PROVE  TotalETH' * Current.smooths >= TotalETH * ledger'.smooths
  BY <1>1, <1>3, <1>7, LeaveEffect
<1>8. ASSUME NEW v \in ValidatorIndex, NEW timestamp, Withdraw(v, timestamp)
      PROVE  TotalETH' * Current.smooths >= TotalETH * ledger'.smooths
  <2> DEFINE share == Claim(Current, validators[v])
             paid == Payout(share, Current.smooths, TotalETH)
  <2>1. /\ TotalETH \in Nat \ {0} /\ Current.smooths \in Nat \ {0}
        /\ share \in Nat /\ share <= Current.smooths
        /\ balance' = balance - paid /\ totalBond' = totalBond
        /\ ledger'.smooths = Current.smooths - share
    BY <1>8, WithdrawEffect
  <2> HIDE DEF share
  <2>2. /\ paid \in Nat /\ paid <= TotalETH
        /\ Current.smooths * paid <= share * TotalETH
    BY <2>1, PayoutRate
  <2> HIDE DEF paid
  <2>3. TotalETH' = TotalETH - paid
    BY <1>1, <1>2, <2>1, <2>2 DEF TotalETH
  <2>4. (TotalETH - paid) * Current.smooths >= TotalETH * (Current.smooths - share)
    BY <2>1, <2>2, FairPart
  <2> QED BY <2>1, <2>3, <2>4
<1> QED BY <1>2, <1>4, <1>5, <1>6, <1>7, <1>8, StepKinds

\* No step lowers the ETH behind a unit of smooths: whoever withdraws first
\* takes nothing from those who come later.
THEOREM RateIsKept == Spec => RateNeverDrops
<1>1. Inv /\ Inv' /\ [Next]_vars =>
        (balance' - totalBond') * Current.smooths >= TotalETH * ledger'.smooths
  BY RateStep
<1> QED BY <1>1, Invariance, PTL DEF Spec, RateNeverDrops

\* The settled ledger is a ledger.
LEMMA CurrentIsLedger == Inv => Current \in Ledger
BY AtCurrent

\* No step lowers a claim, but that of the one who withdraws.
LEMMA ClaimStep ==
  ASSUME Inv, Inv', [Next]_vars, NEW v \in ValidatorIndex, Registered(v), Registered(v)'
  PROVE  \/ Claim(Current', validators'[v]) >= Claim(Current, validators[v])
         \/ IsWithdrawal /\ validators'[v] # validators[v]
<1>1. /\ Current \in Ledger /\ ledger' \in Ledger /\ Current.lastRebalance \in Nat
      /\ validators[v] \in Validator /\ validators'[v] \in Validator
      /\ Claim(Current, validators[v]) \in Nat
  BY AfterStep, ClaimTypes
<1>2. ASSUME now' = now, ledger'.lastRebalance = Current.lastRebalance,
             Claim(Current, validators'[v]) >= Claim(Current, validators[v])
      PROVE  Claim(Current', validators'[v]) >= Claim(Current, validators[v])
  <2>1. Current' = ledger'
    BY <1>2, CurrentAfter
  <2>2. Claim(ledger', validators'[v]) = Claim(Current, validators'[v])
    BY <1>2 DEF Claim, Pending
  <2> QED BY <1>2, <2>1, <2>2
<1>3. ASSUME now' = now, ledger'.lastRebalance = Current.lastRebalance,
             validators'[v] = validators[v]
      PROVE  Claim(Current', validators'[v]) >= Claim(Current, validators[v])
  BY <1>1, <1>2, <1>3
<1>4. CASE Quiet
  <2>1. validators'[v] = validators[v] /\ Current'.lastRebalance >= Current.lastRebalance
    BY <1>4, QuietEffect
  <2>2. Current' \in Ledger
    <3>1. (Current \in Ledger)'
      BY CurrentIsLedger, PTL
    <3> QED BY <3>1 DEF Ledger
  <2>3. ASSUME NEW M \in Ledger, M.lastRebalance >= Current.lastRebalance
        PROVE  Claim(M, validators[v]) >= Claim(Current, validators[v])
    <3>1. Claim(M, validators[v]) \in Nat
      BY <1>1, ClaimTypes
    <3>2. Current.lastRebalance <= M.lastRebalance
      BY <1>1, <2>3 DEF Ledger
    <3> QED BY <1>1, <3>1, <3>2, ClaimGrows
  <2> QED BY <2>1, <2>2, <2>3
<1>5. ASSUME NEW u \in ValidatorIndex, NEW record \in BeaconRecords, NEW value \in Deposits,
             Register(u, record, value)
      PROVE  Claim(Current', validators'[v]) >= Claim(Current, validators[v])
  BY <1>3, <1>5, RegisterEffect
<1>6. ASSUME NEW u \in ValidatorIndex, NEW recipient, Registered(u), LeavePool(u, recipient)
      PROVE  Claim(Current', validators'[v]) >= Claim(Current, validators[v])
  BY <1>3, <1>6, LeaveEffect
<1>7. ASSUME NEW u \in ValidatorIndex, NEW record \in BeaconRecords,
             Registered(u), UpdateActive(u, record)
      PROVE  Claim(Current', validators'[v]) >= Claim(Current, validators[v])
  <2>1. CASE u = v
    BY <1>2, <1>7, <2>1, UpdateActiveEffect
  <2>2. CASE u # v
    BY <1>3, <1>7, <2>2, UpdateActiveEffect
  <2> QED BY <2>1, <2>2
<1>8. ASSUME NEW u \in ValidatorIndex, NEW timestamp, Withdraw(u, timestamp)
      PROVE  \/ Claim(Current', validators'[v]) >= Claim(Current, validators[v])
             \/ IsWithdrawal /\ validators'[v] # validators[v]
  <2>1. CASE u # v
    BY <1>3, <1>8, <2>1, WithdrawEffect
  <2>2. CASE u = v
    <3> DEFINE share == Claim(Current, validators[v])
    <3>1. /\ now' = now /\ totalBond' = totalBond
          /\ share \in Nat /\ Current.smooths \in Nat
          /\ ledger'.smooths = Current.smooths - share
          /\ ledger'.lastRebalance = Current.lastRebalance
          /\ validators'[v].smooths = 0
          /\ validators'[v].start = Current.lastRebalance
      BY <1>8, <2>2, WithdrawEffect
    <3>2. CASE share = 0
      <4>1. Claim(Current, validators'[v]) \in Nat
        BY <1>1, ClaimTypes
      <4>2. Claim(Current, validators'[v]) >= Claim(Current, validators[v])
        BY <3>2, <4>1
      <4> QED BY <1>2, <3>1, <4>2
    <3>3. CASE share # 0 /\ validators'[v] # validators[v]
      <4> HIDE DEF share
      <4>1. ledger'.smooths < Current.smooths
        BY <3>1, <3>3
      <4> QED BY <3>1, <3>3, <4>1 DEF IsWithdrawal
    <3>4. CASE share # 0 /\ validators'[v] = validators[v]
      <4>1. Claim(Current, validators[v]) = 0
        BY <1>1, <3>1, <3>4, AmountTypes DEF Claim, Pending
      <4> QED BY <3>4, <4>1
    <3> QED BY <3>2, <3>3, <3>4
  <2> QED BY <2>1, <2>2
<1> QED BY <1>4, <1>5, <1>6, <1>7, <1>8, StepKinds

\* Nobody loses smooths by what others do, nor by the settlement of a period.
THEOREM ClaimsAreKept == Spec => ClaimsKept
<1>1. Inv /\ Inv' /\ [Next]_vars =>
        \A v \in ValidatorIndex :
          Registered(v) /\ Registered(v)' =>
            \/ Claim(Current', validators'[v]) >= Claim(Current, validators[v])
            \/ IsWithdrawal /\ validators'[v] # validators[v]
  BY ClaimStep
<1> QED BY <1>1, Invariance, PTL DEF Spec, ClaimsKept

\* A sum with one summand.
LEMMA OneRecredit ==
  ASSUME NEW f \in [ValidatorIndex -> Nat], NEW v \in ValidatorIndex,
         \A u \in ValidatorIndex \ {v} : f[u] = 0
  PROVE  Total(f) = f[v]
<1> DEFINE none == [u \in ValidatorIndex |-> 0]
<1>1. /\ none \in [ValidatorIndex -> Nat]
      /\ \A u \in ValidatorIndex : none[u] = 0
      /\ \A u \in ValidatorIndex \ {v} : f[u] = none[u]
      /\ IsFiniteSet(ValidatorIndex) /\ f[v] \in Nat
  BY Constants
<1> HIDE DEF none
<1>2. Total(none) = 0
  BY <1>1, TotalZero
<1>3. Total(f) = Total(none) - none[v] + f[v]
  BY <1>1, TotalChange
<1> QED BY <1>1, <1>2, <1>3

\* Every step changes the drift by the time that it credits twice.
LEMMA DriftStep ==
  ASSUME Inv, Inv', [Next]_vars
  PROVE  Drift' = Drift + Total([v \in ValidatorIndex |-> Recredited(v)])
<1> DEFINE credit == [v \in ValidatorIndex |-> Recredited(v)]
           Exact == Drift' = Drift + Total(credit)
<1>1. /\ Drift = DriftOf(ledger, validators)
      /\ Drift' = DriftOf(ledger', validators')
  BY DEF Drift, DriftOf
<1>2. DriftOf(Current, validators) = DriftOf(ledger, validators)
  BY SettlementKeepsDrift DEF Inv, TypeOK, Current
<1>3. /\ Current \in Ledger /\ ledger' \in Ledger
      /\ validators \in [ValidatorIndex -> Validator]
      /\ validators' \in [ValidatorIndex -> Validator]
      /\ Current.lastRebalance \in Nat /\ now \in Nat /\ Current.lastRebalance <= now
  BY AfterStep
<1>4. ASSUME NEW v \in ValidatorIndex,
             ledger'.lastRebalance = Current.lastRebalance,
             \A u \in ValidatorIndex \ {v} : validators'[u] = validators[u],
             Recredited(v) \in Nat,
             Discrepancy(Current, ledger', validators[v], validators'[v]) = Recredited(v)
      PROVE  Exact
  <2>1. DriftOf(ledger', validators')
          = DriftOf(Current, validators)
            + Discrepancy(Current, ledger', validators[v], validators'[v])
    BY <1>3, <1>4, DriftOfOneValidator
  <2>2. \A u \in ValidatorIndex \ {v} : Recredited(u) = 0
    BY <1>4 DEF Recredited
  <2>3. /\ credit \in [ValidatorIndex -> Nat]
        /\ \A u \in ValidatorIndex \ {v} : credit[u] = 0
        /\ credit[v] = Recredited(v)
    BY <1>4, <2>2
  <2> HIDE DEF credit
  <2>4. Total(credit) = Recredited(v)
    BY <2>3, OneRecredit
  <2> QED BY <1>1, <1>2, <1>4, <2>1, <2>4
<1>5. ASSUME Quiet PROVE Exact
  <2>1. /\ validators' = validators
        /\ DriftOf(ledger', validators') = DriftOf(ledger, validators)
    BY <1>5, QuietEffect
  <2>2. \A v \in ValidatorIndex : Recredited(v) = 0
    BY <2>1 DEF Recredited
  <2>3. credit \in [ValidatorIndex -> Nat] /\ \A v \in ValidatorIndex : credit[v] = 0
    BY <2>2
  <2> HIDE DEF credit
  <2>4. Total(credit) = 0
    BY <2>3, TotalZero
  <2>5. DriftOf(ledger, validators) \in Int
    <3>1. /\ Total(Leads(ledger, validators)) \in Nat
          /\ Total(Claims(ledger, validators)) \in Nat
      BY <1>3, ColumnTypes, TotalType, Constants DEF Inv, TypeOK
    <3>2. /\ ledger.smooths \in Nat /\ ledger.pendingSmooths \in Nat
          /\ REBALANCE_PERIOD * ledger.pendingEB \in Nat
      BY Constants, NatProduct DEF Inv, TypeOK, Ledger
    <3> QED BY <3>1, <3>2 DEF DriftOf
  <2>6. DriftOf(ledger, validators) + Total(credit) = DriftOf(ledger, validators)
    BY <2>4, <2>5
  <2> QED BY <1>1, <2>1, <2>6
<1>6. ASSUME NEW v \in ValidatorIndex, NEW record \in BeaconRecords, NEW value \in Deposits,
             Register(v, record, value)
      PROVE  Exact
  <2>1. Recredited(v) = 0
    BY <1>6, RegisterEffect DEF Recredited
  <2> HIDE DEF credit
  <2> QED BY <1>4, <1>6, <2>1, RegisterEffect
<1>7. ASSUME NEW v \in ValidatorIndex, NEW recipient, Registered(v), LeavePool(v, recipient)
      PROVE  Exact
  <2>1. Recredited(v) = 0
    BY <1>7, LeaveEffect DEF Recredited
  <2> HIDE DEF credit
  <2> QED BY <1>4, <1>7, <2>1, LeaveEffect
<1>8. ASSUME NEW v \in ValidatorIndex, NEW record \in BeaconRecords,
             Registered(v), UpdateActive(v, record)
      PROVE  Exact
  <2> DEFINE L == Current
             val == validators[v]
             d == now - L.lastRebalance
  <2>1. /\ Registered(v)' /\ ~Pending(L, val)
        /\ validators'[v].start = now
        /\ \A u \in ValidatorIndex \ {v} : validators'[u] = validators[u]
        /\ ledger'.lastRebalance = L.lastRebalance
        /\ Discrepancy(L, ledger', val, validators'[v]) = d * val.effectiveBalance
    BY <1>8, UpdateActiveEffect
  <2>2. val.effectiveBalance \in Nat /\ val.start \in Nat /\ d \in Nat
    BY <1>3, AmountTypes
  <2>3. d * val.effectiveBalance \in Nat
    BY <2>2, NatProduct
  <2>4. val.start < L.lastRebalance
    BY <1>3, <2>1, <2>2 DEF Pending
  <2>5. After(validators'[v].start, ledger'.lastRebalance) = d
    BY <1>3, <2>1 DEF After
  <2>6. After(val.start, ledger'.lastRebalance) = 0
    BY <1>3, <2>1, <2>2, <2>4 DEF After
  <2>7. Recredited(v) = val.effectiveBalance * (d + 0)
    BY <1>3, <1>8, <2>1, <2>4, <2>5, <2>6 DEF Recredited
  <2>8. Recredited(v) = d * val.effectiveBalance
    <3> HIDE DEF d, val
    <3> QED BY <2>2, <2>7
  <2> HIDE DEF credit
  <2> QED BY <1>4, <2>1, <2>3, <2>8
<1>9. ASSUME NEW v \in ValidatorIndex, NEW timestamp, Withdraw(v, timestamp)
      PROVE  Exact
  <2> DEFINE L == Current
             val == validators[v]
  <2>1. /\ Registered(v) /\ Registered(v)'
        /\ validators'[v].start = L.lastRebalance
        /\ \A u \in ValidatorIndex \ {v} : validators'[u] = validators[u]
        /\ ledger'.lastRebalance = L.lastRebalance
        /\ Discrepancy(L, ledger', val, validators'[v]) = Lead(L, val)
    BY <1>9, WithdrawEffect
  <2>2. val.effectiveBalance \in Nat /\ val.start \in Nat /\ Lead(L, val) \in Nat
    BY <1>3, AmountTypes, ClaimTypes
  <2>3. After(validators'[v].start, ledger'.lastRebalance) = 0
    BY <1>3, <2>1 DEF After
  <2>4. CASE val.start <= L.lastRebalance
    <3>1. After(val.start, ledger'.lastRebalance) = 0
      BY <1>3, <2>1, <2>2, <2>4 DEF After
    <3>2. Recredited(v) = 0
      BY <2>2, <2>3, <3>1 DEF Recredited
    <3>3. Lead(L, val) = 0
      BY <1>3, <2>2, <2>4 DEF Lead, Pending
    <3> HIDE DEF credit
    <3> QED BY <1>4, <2>1, <3>2, <3>3
  <2>5. CASE val.start > L.lastRebalance
    <3> DEFINE d == val.start - L.lastRebalance
    <3>1. d \in Nat /\ After(val.start, ledger'.lastRebalance) = d
      BY <1>3, <2>1, <2>2, <2>5 DEF After
    <3>2. Lead(L, val) = d * val.effectiveBalance
      BY <1>3, <2>2, <2>5 DEF Lead, Pending
    <3>3. Recredited(v) = val.effectiveBalance * (0 + d)
      BY <1>3, <2>1, <2>2, <2>3, <2>5, <3>1 DEF Recredited
    <3>4. Recredited(v) = d * val.effectiveBalance
      <4> HIDE DEF d, val
      <4> QED BY <2>2, <3>1, <3>3
    <3> HIDE DEF credit
    <3> QED BY <1>4, <2>1, <2>2, <3>2, <3>4
  <2> QED BY <1>3, <2>2, <2>4, <2>5
<1> HIDE DEF Exact
<1>10. Exact
  BY <1>5, <1>6, <1>7, <1>8, <1>9, StepKinds
<1> QED BY <1>10 DEF Exact, credit

\* The ledger errs by exactly the time that updateValidator and withdraw credit
\* twice, and by nothing else, for every number of validators and steps.
THEOREM DriftIsExact == Spec => DriftIsRecredit
<1>1. Inv /\ Inv' /\ [Next]_vars =>
        Drift' = Drift + Total([v \in ValidatorIndex |-> Recredited(v)])
  BY DriftStep
<1> QED BY <1>1, Invariance, PTL DEF Spec, DriftIsRecredit

=============================================================================
