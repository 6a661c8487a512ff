---------------------------- MODULE Merkle_proofs ----------------------------
(***************************************************************************)
(* Proofs about the library functions, for every input: what the           *)
(* operations of Words and Arrays compute, paths in a tree, and what a     *)
(* Merkle proof of one value or of several values shows.                   *)
(***************************************************************************)
EXTENDS SSZ, FiniteSetTheorems, SequenceTheorems, WellFoundedInduction, TLAPS

-----------------------------------------------------------------------------
(* Induction.  A statement is the set of the numbers of which it is true.  *)

\* A set of naturals that has a number whenever it has all smaller ones is the
\* set of all naturals: by a least number outside of it.
LEMMA StrongInduction ==
  ASSUME NEW S, \A n \in Nat : (\A m \in Nat : m < n => m \in S) => n \in S
  PROVE  Nat \subseteq S
<1> SUFFICES ASSUME ~(Nat \subseteq S) PROVE FALSE
  OBVIOUS
<1> DEFINE T == Nat \ S
           R == OpToRel(<, Nat)
<1>1. T \subseteq Nat /\ T # {}
  OBVIOUS
<1>2. IsWellFoundedOn(R, Nat)
  BY NatLessThanWellFounded
<1>3. \A x, y \in Nat : y < x => <<y, x>> \in R
  BY DEF OpToRel
<1> HIDE DEF T, R
<1>4. PICK x \in T : \A y \in T : ~(<<y, x>> \in R)
  BY <1>1, <1>2, WFMin
<1>5. x \in Nat
  BY <1>1, <1>4
<1>6. \A m \in Nat : m < x => m \notin T
  BY <1>3, <1>4, <1>5
<1>7. \A m \in Nat : m < x => m \in S
  BY <1>6 DEF T
<1>8. x \in S
  BY <1>5, <1>7
<1> QED
  BY <1>4, <1>8 DEF T

\* Induction from zero, step by step.
LEMMA Induction ==
  ASSUME NEW S, 0 \in S, \A n \in Nat : n \in S => n + 1 \in S
  PROVE  Nat \subseteq S
<1>1. ASSUME NEW n \in Nat, \A m \in Nat : m < n => m \in S
      PROVE  n \in S
  <2>1. CASE n = 0
    BY <2>1
  <2>2. CASE n # 0
    <3>1. n - 1 \in Nat /\ n - 1 < n /\ (n - 1) + 1 = n
      BY <2>2
    <3> QED
      BY <1>1, <3>1
  <2> QED
    BY <2>1, <2>2
<1> QED
  BY <1>1, StrongInduction

\* The same up to a bound.
LEMMA BoundedInduction ==
  ASSUME NEW k \in Nat, NEW S, 0 \in S, \A n \in 0 .. k - 1 : n \in S => n + 1 \in S
  PROVE  0 .. k \subseteq S
<1> DEFINE T == { n \in Nat : n <= k => n \in S }
<1>1. 0 \in T
  OBVIOUS
<1>2. \A n \in Nat : n \in T => n + 1 \in T
  OBVIOUS
<1>3. Nat \subseteq T
  <2> HIDE DEF T
  <2> QED
    BY <1>1, <1>2, Induction
<1> QED
  BY <1>3

\* A function on the naturals whose value at n is made of the one at a smaller
\* number p[n] exists.
IsRecursion(V, v, p, F) ==
  /\ v \in V
  /\ p \in [Nat -> Nat] /\ \A n \in Nat : n > 0 => p[n] < n
  /\ F \in [Nat \X V -> V]

\* The function f has the values of this recursion.
Solves(f, V, v, p, F) ==
  /\ f \in [Nat -> V]
  /\ f[0] = v
  /\ \A n \in Nat : n > 0 => f[n] = F[<<n, f[p[n]]>>]

\* Such a function exists: every two partial ones agree where both are defined.
LEMMA Recursion ==
  ASSUME NEW V, NEW v, NEW p, NEW F, IsRecursion(V, v, p, F)
  PROVE  \E f : Solves(f, V, v, p, F)
<1> USE DEF IsRecursion
<1> DEFINE A(k, g) == g \in [0 .. k -> V] /\ g[0] = v /\ \A n \in 1 .. k : g[n] = F[<<n, g[p[n]]>>]
<1>1. ASSUME NEW k \in Nat, NEW m \in Nat, NEW g, NEW h, A(k, g), A(m, h)
      PROVE  \A n \in Nat : n <= k /\ n <= m => g[n] = h[n]
  <2> DEFINE S == { n \in Nat : n <= k /\ n <= m => g[n] = h[n] }
  <2>1. ASSUME NEW n \in Nat, \A i \in Nat : i < n => i \in S
        PROVE  n \in S
    <3> SUFFICES ASSUME n <= k, n <= m PROVE g[n] = h[n]
      OBVIOUS
    <3>1. CASE n = 0
      BY <1>1, <3>1
    <3>2. CASE n > 0
      <4>1. p[n] \in Nat /\ p[n] < n
        BY <3>2
      <4>2. g[p[n]] = h[p[n]]
        BY <2>1, <4>1
      <4>3. n \in 1 .. k /\ n \in 1 .. m
        BY <3>2
      <4>4. g[n] = F[<<n, g[p[n]]>>] /\ h[n] = F[<<n, h[p[n]]>>]
        BY <1>1, <4>3
      <4> QED
        BY <4>2, <4>4
    <3> QED
      BY <3>1, <3>2
  <2>2. Nat \subseteq S
    <3> HIDE DEF S
    <3> QED
      BY <2>1, StrongInduction
  <2> QED
    BY <2>2
<1> DEFINE S == { k \in Nat : \E g : A(k, g) }
<1>2. 0 \in S
  <2>1. A(0, [n \in 0 .. 0 |-> v])
    OBVIOUS
  <2> QED
    BY <2>1
<1>3. ASSUME NEW k \in Nat, k \in S
      PROVE  k + 1 \in S
  <2>1. PICK g : A(k, g)
    BY <1>3
  <2> DEFINE w == F[<<k + 1, g[p[k + 1]]>>]
             h == [n \in 0 .. k + 1 |-> IF n = k + 1 THEN w ELSE g[n]]
  <2>2. p[k + 1] \in 0 .. k
    <3>1. k + 1 \in Nat /\ k + 1 > 0
      OBVIOUS
    <3>2. p[k + 1] \in Nat /\ p[k + 1] < k + 1
      BY <3>1
    <3> QED
      BY <3>2
  <2>3. w \in V
    <3>1. g[p[k + 1]] \in V
      BY <2>1, <2>2
    <3>2. <<k + 1, g[p[k + 1]]>> \in Nat \X V
      BY <3>1
    <3> QED
      BY <3>2
  <2>4. h \in [0 .. k + 1 -> V]
    BY <2>1, <2>3
  <2>5. h[0] = v
    BY <2>1
  <2>6. ASSUME NEW n \in 1 .. k + 1
        PROVE  h[n] = F[<<n, h[p[n]]>>]
    <3>0. n \in Nat /\ n > 0
      OBVIOUS
    <3>1. p[n] \in Nat /\ p[n] < n
      BY <3>0
    <3>2. p[n] \in 0 .. k + 1 /\ p[n] # k + 1
      BY <3>1
    <3>3. h[p[n]] = g[p[n]]
      BY <3>2
    <3>4. CASE n = k + 1
      <4>1. h[n] = w
        <5> HIDE DEF w
        <5> QED
          BY <3>4
      <4>2. w = F[<<n, g[p[n]]>>]
        BY <3>4
      <4> HIDE DEF h, w
      <4> QED
        BY <3>3, <4>1, <4>2
    <3>5. CASE n # k + 1
      <4>1. n \in 1 .. k /\ h[n] = g[n]
        BY <3>5
      <4>2. g[n] = F[<<n, g[p[n]]>>]
        BY <2>1, <4>1
      <4> QED
        BY <3>3, <4>1, <4>2
    <3> QED
      BY <3>4, <3>5
  <2> HIDE DEF h
  <2>7. A(k + 1, h)
    BY <2>4, <2>5, <2>6
  <2> HIDE DEF A
  <2> QED
    BY <2>7
<1>4. Nat \subseteq S
  <2> HIDE DEF S
  <2> QED
    BY <1>2, <1>3, Induction
<1> DEFINE G(k) == CHOOSE g : A(k, g)
           f == [n \in Nat |-> G(n)[n]]
<1>5. \A k \in Nat : A(k, G(k))
  <2> TAKE k \in Nat
  <2>1. \E g : A(k, g)
    BY <1>4
  <2> HIDE DEF A
  <2> QED
    BY <2>1
<1>6. \A k \in Nat : \A n \in 0 .. k : G(k)[n] = f[n]
  <2> HIDE DEF G, A
  <2> QED
    BY <1>1, <1>5
<1>7. f \in [Nat -> V]
  <2> HIDE DEF G
  <2> QED
    BY <1>5
<1>8. f[0] = v
  <2> HIDE DEF G
  <2> QED
    BY <1>5
<1>9. ASSUME NEW n \in Nat, n > 0
      PROVE  f[n] = F[<<n, f[p[n]]>>]
  <2>1. p[n] \in 0 .. n
    BY <1>9
  <2> HIDE DEF G
  <2>2. G(n)[n] = F[<<n, G(n)[p[n]]>>]
    <3>1. A(n, G(n))
      BY <1>5
    <3>2. n \in 1 .. n
      BY <1>9
    <3> QED
      BY <3>1, <3>2
  <2>3. G(n)[p[n]] = f[p[n]]
    <3> HIDE DEF f
    <3> QED
      BY <1>6, <2>1
  <2> QED
    BY <2>2, <2>3
<1>10. Solves(f, V, v, p, F)
  <2> HIDE DEF f
  <2> QED
    BY <1>7, <1>8, <1>9 DEF Solves
<1> QED
  BY <1>10

-----------------------------------------------------------------------------
(* Words.                                                                  *)

\* The word of a number: the word of its half, moved up, and its lowest bit.
LEMMA BitsValue ==
  /\ Bits \in [Nat -> SUBSET Nat]
  /\ Bits[0] = {}
  /\ \A n \in Nat : n > 0 =>
       Bits[n] = { i + 1 : i \in Bits[n \div 2] } \cup (IF n % 2 = 1 THEN {0} ELSE {})
<1> DEFINE V == SUBSET Nat
           p == [n \in Nat |-> n \div 2]
           F == [ x \in Nat \X V |->
                    { i + 1 : i \in x[2] } \cup (IF x[1] % 2 = 1 THEN {0} ELSE {}) ]
           P(f) == f = [ n \in Nat |-> IF n = 0 THEN {}
                         ELSE { i + 1 : i \in f[n \div 2] } \cup (IF n % 2 = 1 THEN {0} ELSE {}) ]
<1>1. {} \in V
  OBVIOUS
<1>2. p \in [Nat -> Nat] /\ \A n \in Nat : n > 0 => p[n] < n
  OBVIOUS
<1>3. F \in [Nat \X V -> V]
  OBVIOUS
<1>4. PICK f : Solves(f, V, {}, p, F)
  <2>1. IsRecursion(V, {}, p, F)
    BY <1>1, <1>2, <1>3 DEF IsRecursion
  <2> QED
    BY <2>1, Recursion
<1>5. ASSUME NEW n \in Nat, n > 0
      PROVE  f[n] = { i + 1 : i \in f[n \div 2] } \cup (IF n % 2 = 1 THEN {0} ELSE {})
  <2>1. n \div 2 \in Nat
    OBVIOUS
  <2>2. <<n, f[n \div 2]>> \in Nat \X V
    BY <1>4, <2>1 DEF Solves
  <2>3. f[n] = F[<<n, f[n \div 2]>>]
    BY <1>4, <1>5 DEF Solves
  <2> QED
    BY <2>2, <2>3
<1>6. P(f)
  BY <1>4, <1>5 DEF Solves
<1>7. Bits = CHOOSE g : P(g)
  BY DEF Bits
<1>8. P(Bits)
  <2> HIDE DEF P
  <2> QED
    BY <1>6, <1>7
<1> DEFINE S == { n \in Nat : Bits[n] \in V }
<1>9. ASSUME NEW n \in Nat, \A m \in Nat : m < n => m \in S
      PROVE  n \in S
  <2>1. CASE n = 0
    BY <1>8, <2>1
  <2>2. CASE n # 0
    <3>1. n \div 2 \in Nat /\ n \div 2 < n
      BY <2>2
    <3>2. Bits[n \div 2] \in V
      BY <1>9, <3>1
    <3>3. Bits[n] = { i + 1 : i \in Bits[n \div 2] } \cup (IF n % 2 = 1 THEN {0} ELSE {})
      BY <1>8, <2>2
    <3> QED
      BY <3>2, <3>3
  <2> QED
    BY <2>1, <2>2
<1>10. Nat \subseteq S
  <2> HIDE DEF S
  <2> QED
    BY <1>9, StrongInduction
<1> QED
  BY <1>8, <1>10

\* Literal indices, each the double of another one or one more.
LEMMA LiteralIndices ==
  /\ Bits[9] = {0, 3} /\ Bits[12] = {2, 3} /\ Bits[25] = {0, 3, 4}
  /\ Bits[11] = {0, 1, 3} /\ Bits[43] = {0, 1, 3, 5} /\ Bits[33] = {0, 5} /\ Bits[41] = {0, 3, 5}
  /\ Bits[726] = {1, 2, 4, 6, 7, 9}
  /\ Bits[6433] = {0, 5, 8, 11, 12} /\ Bits[6441] = {0, 3, 5, 8, 11, 12}
<1> DEFINE Up(word) == { i + 1 : i \in word }
           Twice(m, n) == n \in Nat /\ n > 0 /\ m = 2 * n
           TwiceAndOne(m, n) == n \in Nat /\ n > 0 /\ m = 2 * n + 1
<1>1. \A m, n : /\ Twice(m, n) => Bits[m] = Up(Bits[n])
                /\ TwiceAndOne(m, n) => Bits[m] = Up(Bits[n]) \cup {0}
  <2>1. ASSUME NEW m, NEW n, Twice(m, n)
        PROVE  Bits[m] = Up(Bits[n])
    <3>1. m \in Nat /\ m > 0 /\ m \div 2 = n /\ m % 2 = 0
      BY <2>1
    <3>2. Bits[m] = { i + 1 : i \in Bits[n] } \cup {}
      BY <3>1, BitsValue
    <3> QED
      BY <3>2
  <2>2. ASSUME NEW m, NEW n, TwiceAndOne(m, n)
        PROVE  Bits[m] = Up(Bits[n]) \cup {0}
    <3>1. m \in Nat /\ m > 0 /\ m \div 2 = n /\ m % 2 = 1
      BY <2>2
    <3>2. Bits[m] = { i + 1 : i \in Bits[n] } \cup {0}
      BY <3>1, BitsValue
    <3> QED
      BY <3>2
  <2> QED
    BY <2>1, <2>2
<1>2. Bits[1] = {0}
  <2>1. 1 \div 2 = 0 /\ 1 % 2 = 1
    OBVIOUS
  <2>2. Bits[1] = { i + 1 : i \in Bits[0] } \cup {0}
    BY <2>1, BitsValue
  <2> QED
    BY <2>2, BitsValue
<1>3. /\ Twice(2, 1) /\ Twice(4, 2) /\ Twice(6, 3) /\ Twice(8, 4) /\ Twice(10, 5)
      /\ Twice(12, 6) /\ Twice(16, 8) /\ Twice(20, 10) /\ Twice(22, 11) /\ Twice(50, 25)
      /\ Twice(90, 45) /\ Twice(100, 50) /\ Twice(402, 201) /\ Twice(726, 363) /\ Twice(804, 402)
      /\ Twice(1608, 804) /\ Twice(1610, 805) /\ Twice(3216, 1608) /\ Twice(3220, 1610)
      /\ TwiceAndOne(3, 1) /\ TwiceAndOne(5, 2) /\ TwiceAndOne(9, 4) /\ TwiceAndOne(11, 5) /\ TwiceAndOne(21, 10)
      /\ TwiceAndOne(25, 12) /\ TwiceAndOne(33, 16) /\ TwiceAndOne(41, 20) /\ TwiceAndOne(43, 21) /\ TwiceAndOne(45, 22)
      /\ TwiceAndOne(181, 90) /\ TwiceAndOne(201, 100) /\ TwiceAndOne(363, 181) /\ TwiceAndOne(805, 402) /\ TwiceAndOne(6433, 3216)
      /\ TwiceAndOne(6441, 3220)
  BY DEF Twice, TwiceAndOne
<1> HIDE DEF Up, Twice, TwiceAndOne
<1>4. Bits[2] = {1}
  <2>1. Bits[2] = Up(Bits[1])
    BY ONLY <1>1, <1>3
  <2> QED
    BY ONLY <2>1, <1>2 DEF Up
<1>5. Bits[3] = {0, 1}
  <2>1. Bits[3] = Up(Bits[1]) \cup {0}
    BY ONLY <1>1, <1>3
  <2> QED
    BY ONLY <2>1, <1>2 DEF Up
<1>6. Bits[4] = {2}
  <2>1. Bits[4] = Up(Bits[2])
    BY ONLY <1>1, <1>3
  <2> QED
    BY ONLY <2>1, <1>4 DEF Up
<1>7. Bits[5] = {0, 2}
  <2>1. Bits[5] = Up(Bits[2]) \cup {0}
    BY ONLY <1>1, <1>3
  <2> QED
    BY ONLY <2>1, <1>4 DEF Up
<1>8. Bits[6] = {1, 2}
  <2>1. Bits[6] = Up(Bits[3])
    BY ONLY <1>1, <1>3
  <2> QED
    BY ONLY <2>1, <1>5 DEF Up
<1>9. Bits[8] = {3}
  <2>1. Bits[8] = Up(Bits[4])
    BY ONLY <1>1, <1>3
  <2> QED
    BY ONLY <2>1, <1>6 DEF Up
<1>10. Bits[9] = {0, 3}
  <2>1. Bits[9] = Up(Bits[4]) \cup {0}
    BY ONLY <1>1, <1>3
  <2> QED
    BY ONLY <2>1, <1>6 DEF Up
<1>11. Bits[10] = {1, 3}
  <2>1. Bits[10] = Up(Bits[5])
    BY ONLY <1>1, <1>3
  <2> QED
    BY ONLY <2>1, <1>7 DEF Up
<1>12. Bits[11] = {0, 1, 3}
  <2>1. Bits[11] = Up(Bits[5]) \cup {0}
    BY ONLY <1>1, <1>3
  <2> QED
    BY ONLY <2>1, <1>7 DEF Up
<1>13. Bits[12] = {2, 3}
  <2>1. Bits[12] = Up(Bits[6])
    BY ONLY <1>1, <1>3
  <2> QED
    BY ONLY <2>1, <1>8 DEF Up
<1>14. Bits[16] = {4}
  <2>1. Bits[16] = Up(Bits[8])
    BY ONLY <1>1, <1>3
  <2> QED
    BY ONLY <2>1, <1>9 DEF Up
<1>15. Bits[20] = {2, 4}
  <2>1. Bits[20] = Up(Bits[10])
    BY ONLY <1>1, <1>3
  <2> QED
    BY ONLY <2>1, <1>11 DEF Up
<1>16. Bits[21] = {0, 2, 4}
  <2>1. Bits[21] = Up(Bits[10]) \cup {0}
    BY ONLY <1>1, <1>3
  <2> QED
    BY ONLY <2>1, <1>11 DEF Up
<1>17. Bits[22] = {1, 2, 4}
  <2>1. Bits[22] = Up(Bits[11])
    BY ONLY <1>1, <1>3
  <2> QED
    BY ONLY <2>1, <1>12 DEF Up
<1>18. Bits[25] = {0, 3, 4}
  <2>1. Bits[25] = Up(Bits[12]) \cup {0}
    BY ONLY <1>1, <1>3
  <2> QED
    BY ONLY <2>1, <1>13 DEF Up
<1>19. Bits[33] = {0, 5}
  <2>1. Bits[33] = Up(Bits[16]) \cup {0}
    BY ONLY <1>1, <1>3
  <2> QED
    BY ONLY <2>1, <1>14 DEF Up
<1>20. Bits[41] = {0, 3, 5}
  <2>1. Bits[41] = Up(Bits[20]) \cup {0}
    BY ONLY <1>1, <1>3
  <2> QED
    BY ONLY <2>1, <1>15 DEF Up
<1>21. Bits[43] = {0, 1, 3, 5}
  <2>1. Bits[43] = Up(Bits[21]) \cup {0}
    BY ONLY <1>1, <1>3
  <2> QED
    BY ONLY <2>1, <1>16 DEF Up
<1>22. Bits[45] = {0, 2, 3, 5}
  <2>1. Bits[45] = Up(Bits[22]) \cup {0}
    BY ONLY <1>1, <1>3
  <2> QED
    BY ONLY <2>1, <1>17 DEF Up
<1>23. Bits[50] = {1, 4, 5}
  <2>1. Bits[50] = Up(Bits[25])
    BY ONLY <1>1, <1>3
  <2> QED
    BY ONLY <2>1, <1>18 DEF Up
<1>24. Bits[90] = {1, 3, 4, 6}
  <2>1. Bits[90] = Up(Bits[45])
    BY ONLY <1>1, <1>3
  <2> QED
    BY ONLY <2>1, <1>22 DEF Up
<1>25. Bits[100] = {2, 5, 6}
  <2>1. Bits[100] = Up(Bits[50])
    BY ONLY <1>1, <1>3
  <2> QED
    BY ONLY <2>1, <1>23 DEF Up
<1>26. Bits[181] = {0, 2, 4, 5, 7}
  <2>1. Bits[181] = Up(Bits[90]) \cup {0}
    BY ONLY <1>1, <1>3
  <2> QED
    BY ONLY <2>1, <1>24 DEF Up
<1>27. Bits[201] = {0, 3, 6, 7}
  <2>1. Bits[201] = Up(Bits[100]) \cup {0}
    BY ONLY <1>1, <1>3
  <2> QED
    BY ONLY <2>1, <1>25 DEF Up
<1>28. Bits[363] = {0, 1, 3, 5, 6, 8}
  <2>1. Bits[363] = Up(Bits[181]) \cup {0}
    BY ONLY <1>1, <1>3
  <2> QED
    BY ONLY <2>1, <1>26 DEF Up
<1>29. Bits[402] = {1, 4, 7, 8}
  <2>1. Bits[402] = Up(Bits[201])
    BY ONLY <1>1, <1>3
  <2> QED
    BY ONLY <2>1, <1>27 DEF Up
<1>30. Bits[726] = {1, 2, 4, 6, 7, 9}
  <2>1. Bits[726] = Up(Bits[363])
    BY ONLY <1>1, <1>3
  <2> QED
    BY ONLY <2>1, <1>28 DEF Up
<1>31. Bits[804] = {2, 5, 8, 9}
  <2>1. Bits[804] = Up(Bits[402])
    BY ONLY <1>1, <1>3
  <2> QED
    BY ONLY <2>1, <1>29 DEF Up
<1>32. Bits[805] = {0, 2, 5, 8, 9}
  <2>1. Bits[805] = Up(Bits[402]) \cup {0}
    BY ONLY <1>1, <1>3
  <2> QED
    BY ONLY <2>1, <1>29 DEF Up
<1>33. Bits[1608] = {3, 6, 9, 10}
  <2>1. Bits[1608] = Up(Bits[804])
    BY ONLY <1>1, <1>3
  <2> QED
    BY ONLY <2>1, <1>31 DEF Up
<1>34. Bits[1610] = {1, 3, 6, 9, 10}
  <2>1. Bits[1610] = Up(Bits[805])
    BY ONLY <1>1, <1>3
  <2> QED
    BY ONLY <2>1, <1>32 DEF Up
<1>35. Bits[3216] = {4, 7, 10, 11}
  <2>1. Bits[3216] = Up(Bits[1608])
    BY ONLY <1>1, <1>3
  <2> QED
    BY ONLY <2>1, <1>33 DEF Up
<1>36. Bits[3220] = {2, 4, 7, 10, 11}
  <2>1. Bits[3220] = Up(Bits[1610])
    BY ONLY <1>1, <1>3
  <2> QED
    BY ONLY <2>1, <1>34 DEF Up
<1>37. Bits[6433] = {0, 5, 8, 11, 12}
  <2>1. Bits[6433] = Up(Bits[3216]) \cup {0}
    BY ONLY <1>1, <1>3
  <2> QED
    BY ONLY <2>1, <1>35 DEF Up
<1>38. Bits[6441] = {0, 3, 5, 8, 11, 12}
  <2>1. Bits[6441] = Up(Bits[3220]) \cup {0}
    BY ONLY <1>1, <1>3
  <2> QED
    BY ONLY <2>1, <1>36 DEF Up
<1> QED
  BY <1>10, <1>12, <1>13, <1>18, <1>19, <1>20, <1>21, <1>30, <1>37, <1>38

\* The number of a word: the sum of the powers of two of its ones.
LEMMA ValueSum ==
  ASSUME NEW word
  PROVE  \E low :
           /\ low[0] = 0
           /\ \A n \in Nat : low[n] \in Int
                 /\ low[n + 1] = low[n] + (IF n \in word THEN 2^n ELSE 0)
           /\ Value(word) = low[Max({0} \cup word) + 1]
<1> DEFINE V == Int
           p == [n \in Nat |-> IF n = 0 THEN 0 ELSE n - 1]
           Bit(n) == IF n - 1 \in word THEN 2^(n - 1) ELSE 0
           F == [x \in Nat \X V |-> IF x[1] = 0 THEN 0 ELSE x[2] + Bit(x[1])]
           P(f) == f = [n \in Nat |-> IF n = 0 THEN 0 ELSE f[n - 1] + Bit(n)]
<1>0. \A n \in Nat : n > 0 => Bit(n) \in Int
  <2> SUFFICES ASSUME NEW n \in Nat, n > 0 PROVE Bit(n) \in Int
    OBVIOUS
  <2>1. n - 1 \in Nat
    OBVIOUS
  <2>2. \A m \in Nat : 2^m \in Int
    OBVIOUS
  <2>3. 2^(n - 1) \in Int
    BY <2>1, <2>2
  <2> QED
    BY <2>3
<1> HIDE DEF Bit
<1>1. 0 \in V
  OBVIOUS
<1>2. p \in [Nat -> Nat] /\ \A n \in Nat : n > 0 => p[n] < n
  OBVIOUS
<1>3. F \in [Nat \X V -> V]
  BY <1>0
<1>4. PICK f : Solves(f, V, 0, p, F)
  <2>1. IsRecursion(V, 0, p, F)
    BY <1>1, <1>2, <1>3 DEF IsRecursion
  <2> QED
    BY <2>1, Recursion
<1>5. ASSUME NEW n \in Nat, n > 0
      PROVE  f[n] = f[n - 1] + Bit(n)
  <2>1. n - 1 \in Nat /\ p[n] = n - 1
    BY <1>5
  <2>2. <<n, f[n - 1]>> \in Nat \X V
    BY <1>4, <2>1 DEF Solves
  <2>3. f[n] = F[<<n, f[n - 1]>>]
    BY <1>4, <1>5, <2>1 DEF Solves
  <2> QED
    BY <1>5, <2>2, <2>3
<1>6. P(f)
  BY <1>4, <1>5 DEF Solves
<1> DEFINE low == CHOOSE g : P(g)
<1>7. P(low)
  <2> HIDE DEF P
  <2> QED
    BY <1>6
<1>8. Value(word) = low[Max({0} \cup word) + 1]
  BY DEF Value, Bit
<1> HIDE DEF low
<1>9. low[0] = 0 /\ \A n \in Nat : low[n + 1] = low[n] + (IF n \in word THEN 2^n ELSE 0)
  <2>1. low[0] = 0
    BY <1>7
  <2>2. ASSUME NEW n \in Nat
        PROVE  low[n + 1] = low[n] + (IF n \in word THEN 2^n ELSE 0)
    <3>1. n + 1 \in Nat /\ n + 1 # 0 /\ (n + 1) - 1 = n
      OBVIOUS
    <3>2. low[n + 1] = low[(n + 1) - 1] + Bit(n + 1)
      BY ONLY <1>7, <3>1
    <3>3. Bit(n + 1) = IF n \in word THEN 2^n ELSE 0
      BY <3>1 DEF Bit
    <3> QED
      BY ONLY <3>1, <3>2, <3>3
  <2> QED
    BY <2>1, <2>2
<1>10. \A n \in Nat : low[n] \in Int
  <2> DEFINE S == { n \in Nat : low[n] \in Int }
  <2>1. 0 \in S
    BY <1>9
  <2>2. ASSUME NEW n \in Nat, n \in S
        PROVE  n + 1 \in S
    <3>1. low[n + 1] = low[n] + (IF n \in word THEN 2^n ELSE 0)
      BY <1>9
    <3>2. \A m \in Nat : 2^m \in Int
      OBVIOUS
    <3> QED
      BY <2>2, <3>1, <3>2
  <2>3. Nat \subseteq S
    <3> HIDE DEF S
    <3> QED
      BY <2>1, <2>2, Induction
  <2> QED
    BY <2>3
<1> QED
  BY <1>8, <1>9, <1>10

\* The generalized indices of the two fields of a block as numbers.
LEMMA LiteralValues ==
  Value({0, 3}) = 9 /\ Value({0, 5, 8, 11, 12}) = 6433
<1>1. Value({0, 3}) = 9
  <2> DEFINE word == {0, 3}
  <2>1. Max({0} \cup word) = 3
    BY DEF Max
  <2>2. /\ 0 \in word /\ 1 \notin word /\ 2 \notin word /\ 3 \in word
        /\ 2^0 = 1 /\ 2^3 = 8
    OBVIOUS
  <2> HIDE DEF word
  <2>3. PICK low :
           /\ low[0] = 0
           /\ \A n \in Nat : low[n] \in Int
                 /\ low[n + 1] = low[n] + (IF n \in word THEN 2^n ELSE 0)
           /\ Value(word) = low[Max({0} \cup word) + 1]
    BY ValueSum
  <2>4. /\ low[0 + 1] = low[0] + 2^0 /\ low[1 + 1] = low[1] + 0 /\ low[2 + 1] = low[2] + 0
        /\ low[3 + 1] = low[3] + 2^3 /\ low[1] \in Int /\ low[2] \in Int
    BY <2>2, <2>3
  <2>5. Value(word) = 9
    BY ONLY <2>1, <2>2, <2>3, <2>4
  <2> QED
    BY <2>5 DEF word
<1>2. Value({0, 5, 8, 11, 12}) = 6433
  <2> DEFINE word == {0, 5, 8, 11, 12}
             Power(n) == 2^n
  <2>1. Max({0} \cup word) = 12
    BY DEF Max
  <2>2. /\ 0 \in word /\ 1 \notin word /\ 2 \notin word /\ 3 \notin word /\ 4 \notin word
        /\ 5 \in word /\ 6 \notin word /\ 7 \notin word /\ 8 \in word /\ 9 \notin word
        /\ 10 \notin word /\ 11 \in word /\ 12 \in word
    OBVIOUS
  <2>3. /\ Power(0) = 1 /\ Power(5) = 32 /\ Power(8) = 256 /\ Power(11) = 2048
        /\ Power(12) = 4096
    OBVIOUS
  <2> HIDE DEF word
  <2>4. PICK low :
           /\ low[0] = 0
           /\ \A n \in Nat : low[n] \in Int
                 /\ low[n + 1] = low[n] + (IF n \in word THEN Power(n) ELSE 0)
           /\ Value(word) = low[Max({0} \cup word) + 1]
    BY ValueSum
  <2> HIDE DEF Power
  <2>5. \A n \in Nat : n \in word => low[n + 1] = low[n] + Power(n)
    BY <2>4
  <2>6. \A n \in Nat : n \notin word => low[n + 1] = low[n]
    BY <2>4
  <2>7. /\ low[0 + 1] = low[0] + Power(0) /\ low[5 + 1] = low[5] + Power(5)
        /\ low[8 + 1] = low[8] + Power(8) /\ low[11 + 1] = low[11] + Power(11)
        /\ low[12 + 1] = low[12] + Power(12)
    BY ONLY <2>2, <2>5
  <2>8. /\ low[1 + 1] = low[1] /\ low[2 + 1] = low[2] /\ low[3 + 1] = low[3]
        /\ low[4 + 1] = low[4] /\ low[6 + 1] = low[6] /\ low[7 + 1] = low[7]
        /\ low[9 + 1] = low[9] /\ low[10 + 1] = low[10]
    BY ONLY <2>2, <2>6
  <2>9. Value(word) = 6433
    BY ONLY <2>1, <2>3, <2>4, <2>7, <2>8
  <2> QED
    BY <2>9 DEF word
<1> QED
  BY <1>1, <1>2

\* A nonempty set of naturals with a bound has a greatest element.
LEMMA Greatest ==
  ASSUME NEW S, S # {}, \E b \in Nat : \A i \in S : i \in 0 .. b
  PROVE  Max(S) \in S /\ \A i \in S : i <= Max(S)
<1>0. PICK b \in Nat : \A i \in S : i \in 0 .. b
  OBVIOUS
<1> DEFINE T == { n \in Nat : n <= b /\ (\E i \in S : i <= n)
                    => \E x \in S : x <= n /\ \A y \in S : y <= n => x >= y }
<1>1. 0 \in T
  BY <1>0
<1>2. ASSUME NEW n \in Nat, n \in T
      PROVE  n + 1 \in T
  <2> SUFFICES ASSUME n + 1 <= b, \E i \in S : i <= n + 1
               PROVE  \E x \in S : x <= n + 1 /\ \A y \in S : y <= n + 1 => x >= y
    OBVIOUS
  <2>1. CASE n + 1 \in S
    BY <1>0, <2>1
  <2>2. CASE n + 1 \notin S
    <3>1. \A y \in S : y <= n + 1 <=> y <= n
      BY <1>0, <2>2
    <3>2. \E x \in S : x <= n /\ \A y \in S : y <= n => x >= y
      BY <1>2, <3>1
    <3> QED
      BY <1>0, <3>1, <3>2
  <2> QED
    BY <2>1, <2>2
<1>3. Nat \subseteq T
  <2> HIDE DEF T
  <2> QED
    BY <1>1, <1>2, Induction
<1>4. b \in T
  BY <1>3
<1>5. \E x \in S : \A y \in S : x >= y
  <2>1. \A i \in S : i <= b
    BY <1>0
  <2>2. b <= b /\ \E i \in S : i <= b
    <3>1. PICK e : e \in S
      OBVIOUS
    <3> QED
      BY <2>1, <3>1
  <2>3. \E x \in S : x <= b /\ \A y \in S : y <= b => x >= y
    BY <1>4, <2>2
  <2> QED
    BY <2>1, <2>3
<1>6. Max(S) \in S /\ \A i \in S : Max(S) >= i
  BY <1>5 DEF Max
<1>7. \A i \in S : i \in Int
  BY <1>0
<1> QED
  BY <1>6, <1>7

\* Something is left of a word shifted by n when its highest bit is at n or above.
LEMMA ShrIsEmpty ==
  ASSUME NEW word, word # {}, \A i \in word : i \in 0 .. WIDTH - 1, NEW n \in Nat
  PROVE  Shr(n, word) # {} <=> n <= Max(word)
<1>2. \A i \in word : i \in 0 .. 255
  BY DEF WIDTH
<1>1. Max(word) \in word /\ \A i \in word : i <= Max(word)
  <2>1. \E b \in Nat : \A i \in word : i \in 0 .. b
    <3> WITNESS 255 \in Nat
    <3> QED
      BY <1>2
  <2> QED
    BY <2>1, Greatest
<1>3. ASSUME n <= Max(word)
      PROVE  Max(word) - n \in Shr(n, word)
  BY <1>1, <1>2, <1>3 DEF Shr
<1>4. ASSUME Shr(n, word) # {}
      PROVE  n <= Max(word)
  <2>1. PICK j \in word : j >= n
    BY <1>4 DEF Shr
  <2>2. Max(word) \in 0 .. 255 /\ j \in 0 .. 255 /\ j <= Max(word)
    BY <1>1, <1>2
  <2> QED
    BY <2>1, <2>2
<1> QED
  BY <1>3, <1>4

\* The smeared word has a one at every place from the highest one bit down.
LEMMA SmearedFills ==
  ASSUME NEW m \in 0 .. 31, NEW word \in SUBSET (0 .. m), m \in word
  PROVE  Smeared(word) = 0 .. m
<1>1. ASSUME NEW i \in 0 .. m
      PROVE  i \in Smeared(word)
  <2>1. m - i \in 0 .. 31 /\ m >= m - i /\ m - (m - i) = i
    OBVIOUS
  <2>2. i \in Shr(m - i, word)
    BY <2>1 DEF Shr
  <2> QED
    BY <2>1, <2>2 DEF Smeared
<1>2. ASSUME NEW i \in Smeared(word)
      PROVE  i \in 0 .. m
  <2>1. PICK n \in 0 .. 31 : i \in Shr(n, word)
    BY DEF Smeared
  <2>2. PICK j \in word : j >= n /\ i = j - n
    BY <2>1 DEF Shr
  <2> QED
    BY <2>2
<1> QED
  BY <1>1, <1>2

\* log2 is the position of the highest one bit of every word but zero: the three
\* tests find the 32 places it is among, the table the place among them.
THEOREM Log2IsMax ==
  ASSUME NEW word, word # {}, \A i \in word : i \in 0 .. WIDTH - 1
  PROVE  Log2(word) = Max(word)
<1> DEFINE m  == Max(word)
           r7 == IF Shr(128, word) # {} THEN 128 ELSE 0
           r6 == IF Shr(r7 + 64, word) # {} THEN r7 + 64 ELSE r7
           r5 == IF Shr(r6 + 32, word) # {} THEN r6 + 32 ELSE r6
           high == Shr(r5, word)
<1>0. \A i \in word : i \in 0 .. 255
  BY DEF WIDTH
<1>1. m \in word /\ m \in 0 .. 255 /\ \A i \in word : i \in 0 .. 255 /\ i <= m
  <2>1. m \in word /\ \A i \in word : i <= m
    <3>1. \E b \in Nat : \A i \in word : i \in 0 .. b
      <4> WITNESS 255 \in Nat
      <4> QED
        BY <1>0
    <3> HIDE DEF r5, r6, r7, high
    <3> QED
      BY <3>1, Greatest
  <2> QED
    BY <1>0, <2>1
<1>2. \A n \in Nat : Shr(n, word) # {} <=> n <= m
  BY ShrIsEmpty DEF WIDTH
<1> HIDE DEF m
<1>3. r7 \in {0, 128} /\ r7 <= m /\ m < r7 + 128
  BY <1>1, <1>2
<1>4. r6 \in Nat /\ r6 <= m /\ m < r6 + 64
  <2> HIDE DEF r7
  <2> QED
    BY <1>1, <1>2, <1>3
<1>5. r5 \in Nat /\ r5 <= m /\ m < r5 + 32
  <2> HIDE DEF r6
  <2> QED
    BY <1>1, <1>2, <1>4
<1>6. Log2(word) = r5 + LOOKUP[ProductTop(Smeared(high)) + 1]
  BY DEF Log2
<1> HIDE DEF r5
<1>7. m - r5 \in 0 .. 31
  BY <1>1, <1>5
<1>8. high \in SUBSET (0 .. (m - r5)) /\ m - r5 \in high
  BY <1>1, <1>5 DEF Shr
<1> HIDE DEF high
<1>9. Smeared(high) = 0 .. (m - r5)
  BY <1>7, <1>8, SmearedFills
<1>10. LOOKUP[ProductTop(Smeared(high)) + 1] = m - r5
  BY <1>7, <1>9, DeBruijnAssumption
<1> QED
  BY <1>1, <1>5, <1>6, <1>10 DEF m

\* Where the exchange of neighbouring groups of n bits moves a bit.
Moved(i, n) == IF (i \div n) % 2 = 1 THEN i - n ELSE i + n

\* The sizes of the groups that toLittleEndian exchanges.
Sizes == {8, 16, 32, 64, 128}

\* The exchange flips one binary digit of the position.
LEMMA MovedFlips ==
  ASSUME NEW n \in Sizes, NEW low \in 0 .. n - 1, NEW c \in {0, 1}, NEW high \in Nat
  PROVE  Moved(low + n * c + 2 * n * high, n) = low + n * (1 - c) + 2 * n * high
<1> DEFINE i == low + n * c + 2 * n * high
<1>1. i \div n = c + 2 * high
  <2>1. CASE n = 8
    BY <2>1
  <2>2. CASE n = 16
    BY <2>2
  <2>3. CASE n = 32
    BY <2>3
  <2>4. CASE n = 64
    BY <2>4
  <2>5. CASE n = 128
    BY <2>5
  <2> QED
    BY <2>1, <2>2, <2>3, <2>4, <2>5 DEF Sizes
<1>2. (c + 2 * high) % 2 = c
  OBVIOUS
<1>3. CASE c = 1
  <2>1. Moved(i, n) = i - n
    BY <1>1, <1>2, <1>3 DEF Moved
  <2> QED
    BY <1>3, <2>1 DEF Sizes
<1>4. CASE c = 0
  <2>1. Moved(i, n) = i + n
    BY <1>1, <1>2, <1>4 DEF Moved
  <2> QED
    BY <1>4, <2>1 DEF Sizes
<1> QED
  BY <1>3, <1>4

\* An exchange moves every bit to its place, and none out of the word.
LEMMA SwappedMoves ==
  ASSUME NEW n \in Sizes, NEW word, \A i \in word : i \in 0 .. 255
  PROVE  /\ Swapped(word, n) = { Moved(i, n) : i \in word }
         /\ \A i \in Swapped(word, n) : i \in 0 .. 255
<1>1. \A i \in word : (i \div n) % 2 = 1 => i >= n /\ Moved(i, n) = i - n /\ i - n \in 0 .. 255
  BY DEF Moved, Sizes
<1>2. \A i \in word : (i \div n) % 2 # 1 => i + n < 256 /\ Moved(i, n) = i + n /\ i + n \in 0 .. 255
  <2> TAKE i \in word
  <2>1. CASE n = 8
    BY <2>1 DEF Moved
  <2>2. CASE n = 16
    BY <2>2 DEF Moved
  <2>3. CASE n = 32
    BY <2>3 DEF Moved
  <2>4. CASE n = 64
    BY <2>4 DEF Moved
  <2>5. CASE n = 128
    BY <2>5 DEF Moved
  <2> QED
    BY <2>1, <2>2, <2>3, <2>4, <2>5 DEF Sizes
<1>3. ASSUME NEW x \in Swapped(word, n)
      PROVE  x \in { Moved(i, n) : i \in word }
  <2>1. PICK i \in word : \/ (i \div n) % 2 = 1 /\ x = i - n
                          \/ (i \div n) % 2 # 1 /\ x = i + n
    BY <1>3 DEF Swapped, Shr, Shl
  <2> QED
    BY <1>1, <1>2, <2>1
<1>4. ASSUME NEW i \in word
      PROVE  Moved(i, n) \in Swapped(word, n)
  <2>1. CASE (i \div n) % 2 = 1
    BY <1>1, <2>1 DEF Swapped, Shr
  <2>2. CASE (i \div n) % 2 # 1
    BY <1>2, <2>2 DEF Swapped, Shl, WIDTH
  <2> QED
    BY <2>1, <2>2
<1>5. Swapped(word, n) = { Moved(i, n) : i \in word }
  BY <1>3, <1>4
<1>6. \A i \in word : Moved(i, n) \in 0 .. 255
  BY <1>1, <1>2
<1> QED
  BY <1>5, <1>6

\* All five exchanges flip the five digits of the byte that a bit is in.
LEMMA AllMoved ==
  ASSUME NEW i \in 0 .. 255
  PROVE  Moved(Moved(Moved(Moved(Moved(i, 8), 16), 32), 64), 128)
           = (8 * (31 - (i \div 8))) + (i % 8)
<1> DEFINE r == i % 8
           c0 == (i \div 8) % 2
           c1 == (i \div 16) % 2
           c2 == (i \div 32) % 2
           c3 == (i \div 64) % 2
           c4 == i \div 128
<1>1. r \in 0 .. 7 /\ c0 \in {0, 1} /\ c1 \in {0, 1} /\ c2 \in {0, 1} /\ c3 \in {0, 1} /\ c4 \in {0, 1}
  OBVIOUS
<1>2. i = r + 8 * c0 + 16 * c1 + 32 * c2 + 64 * c3 + 128 * c4
  OBVIOUS
<1>3. i \div 8 = c0 + 2 * c1 + 4 * c2 + 8 * c3 + 16 * c4
  OBVIOUS
<1> HIDE DEF r, c0, c1, c2, c3, c4
<1> DEFINE i1 == Moved(i, 8)
           i2 == Moved(i1, 16)
           i3 == Moved(i2, 32)
           i4 == Moved(i3, 64)
           i5 == Moved(i4, 128)
<1>4. i1 = r + 8 * (1 - c0) + 16 * (c1 + 2 * c2 + 4 * c3 + 8 * c4)
  <2> DEFINE high == c1 + 2 * c2 + 4 * c3 + 8 * c4
  <2>1. high \in Nat /\ r \in 0 .. 8 - 1 /\ i = r + 8 * c0 + 2 * 8 * high
    BY <1>1, <1>2
  <2> HIDE DEF high
  <2>2. Moved(r + 8 * c0 + 2 * 8 * high, 8) = r + 8 * (1 - c0) + 2 * 8 * high
    BY <1>1, <2>1, MovedFlips DEF Sizes
  <2> QED
    BY <2>1, <2>2 DEF high
<1> HIDE DEF i1
<1>5. i2 = r + 8 * (1 - c0) + 16 * (1 - c1) + 32 * (c2 + 2 * c3 + 4 * c4)
  <2> DEFINE low == r + 8 * (1 - c0)
             high == c2 + 2 * c3 + 4 * c4
  <2>1. high \in Nat /\ low \in 0 .. 16 - 1 /\ i1 = low + 16 * c1 + 2 * 16 * high
    BY <1>1, <1>4
  <2> HIDE DEF high, low
  <2>2. Moved(low + 16 * c1 + 2 * 16 * high, 16) = low + 16 * (1 - c1) + 2 * 16 * high
    BY <1>1, <2>1, MovedFlips DEF Sizes
  <2> QED
    BY <2>1, <2>2 DEF high, low
<1> HIDE DEF i2
<1>6. i3 = r + 8 * (1 - c0) + 16 * (1 - c1) + 32 * (1 - c2) + 64 * (c3 + 2 * c4)
  <2> DEFINE low == r + 8 * (1 - c0) + 16 * (1 - c1)
             high == c3 + 2 * c4
  <2>1. high \in Nat /\ low \in 0 .. 32 - 1 /\ i2 = low + 32 * c2 + 2 * 32 * high
    BY <1>1, <1>5
  <2> HIDE DEF high, low
  <2>2. Moved(low + 32 * c2 + 2 * 32 * high, 32) = low + 32 * (1 - c2) + 2 * 32 * high
    BY <1>1, <2>1, MovedFlips DEF Sizes
  <2> QED
    BY <2>1, <2>2 DEF high, low
<1> HIDE DEF i3
<1>7. i4 = r + 8 * (1 - c0) + 16 * (1 - c1) + 32 * (1 - c2) + 64 * (1 - c3) + 128 * c4
  <2> DEFINE low == r + 8 * (1 - c0) + 16 * (1 - c1) + 32 * (1 - c2)
  <2>1. c4 \in Nat /\ low \in 0 .. 64 - 1 /\ i3 = low + 64 * c3 + 2 * 64 * c4
    BY <1>1, <1>6
  <2> HIDE DEF low
  <2>2. Moved(low + 64 * c3 + 2 * 64 * c4, 64) = low + 64 * (1 - c3) + 2 * 64 * c4
    BY <1>1, <2>1, MovedFlips DEF Sizes
  <2> QED
    BY <2>1, <2>2 DEF low
<1> HIDE DEF i4
<1>8. i5 = r + 8 * (1 - c0) + 16 * (1 - c1) + 32 * (1 - c2) + 64 * (1 - c3) + 128 * (1 - c4)
  <2> DEFINE low == r + 8 * (1 - c0) + 16 * (1 - c1) + 32 * (1 - c2) + 64 * (1 - c3)
  <2>1. 0 \in Nat /\ low \in 0 .. 128 - 1 /\ i4 = low + 128 * c4 + 2 * 128 * 0
    BY <1>1, <1>7
  <2> HIDE DEF low
  <2>2. Moved(low + 128 * c4 + 2 * 128 * 0, 128) = low + 128 * (1 - c4) + 2 * 128 * 0
    BY <1>1, <2>1, MovedFlips DEF Sizes
  <2>3. i5 = low + 128 * (1 - c4)
    BY <1>1, <2>1, <2>2
  <2> QED
    BY <2>3 DEF low
<1> HIDE DEF i5
<1>9. i5 = (8 * (31 - (i \div 8))) + r
  BY <1>1, <1>3, <1>8
<1> QED
  BY <1>9 DEF i1, i2, i3, i4, i5, r

\* toLittleEndian reverses the bytes of every word.
THEOREM LittleEndianMirrors ==
  ASSUME NEW word, \A i \in word : i \in 0 .. WIDTH - 1
  PROVE  ToLittleEndian(word) = { (8 * (31 - (i \div 8))) + (i % 8) : i \in word }
<1> DEFINE w1 == Swapped(word, 8)
           w2 == Swapped(w1, 16)
           w3 == Swapped(w2, 32)
           w4 == Swapped(w3, 64)
           w5 == Swapped(w4, 128)
<1>1. \A i \in word : i \in 0 .. 255
  BY DEF WIDTH
<1>2. {8, 16, 32, 64, 128} \subseteq Sizes
  BY DEF Sizes
<1>3. w1 = { Moved(i, 8) : i \in word } /\ \A i \in w1 : i \in 0 .. 255
  BY <1>1, <1>2, SwappedMoves
<1> HIDE DEF w1
<1>4. w2 = { Moved(i, 16) : i \in w1 } /\ \A i \in w2 : i \in 0 .. 255
  BY <1>2, <1>3, SwappedMoves
<1> HIDE DEF w2
<1>5. w3 = { Moved(i, 32) : i \in w2 } /\ \A i \in w3 : i \in 0 .. 255
  BY <1>2, <1>4, SwappedMoves
<1> HIDE DEF w3
<1>6. w4 = { Moved(i, 64) : i \in w3 } /\ \A i \in w4 : i \in 0 .. 255
  BY <1>2, <1>5, SwappedMoves
<1> HIDE DEF w4
<1>7. w5 = { Moved(i, 128) : i \in w4 }
  BY <1>2, <1>6, SwappedMoves
<1> HIDE DEF w5
<1>8. w5 = { Moved(Moved(Moved(Moved(Moved(i, 8), 16), 32), 64), 128) : i \in word }
  BY <1>3, <1>4, <1>5, <1>6, <1>7
<1>9. ToLittleEndian(word) = w5
  BY DEF ToLittleEndian, w1, w2, w3, w4, w5
<1>10. \A i \in word : Moved(Moved(Moved(Moved(Moved(i, 8), 16), 32), 64), 128)
                            = (8 * (31 - (i \div 8))) + (i % 8)
  BY <1>1, AllMoved
<1> QED
  BY <1>8, <1>9, <1>10

\* concatGindices puts the bits of b below its highest one under those of a.
THEOREM ConcatDescends ==
  ASSUME NEW a, NEW b, a # {}, b # {}, \A i \in a \cup b : i \in 0 .. 63,
         Max(a) + Max(b) < 64
  PROVE  /\ Shr(Max(b), ConcatGindices(a, b)) = a
         /\ \A i \in 0 .. Max(b) - 1 : i \in ConcatGindices(a, b) <=> i \in b
<1> DEFINE step == Max(b)
           c == ConcatGindices(a, b)
<1>1. step \in 0 .. 63 /\ step \in b /\ \A i \in b : i \in 0 .. step
  <2>1. \A i \in b : i \in 0 .. 63
    OBVIOUS
  <2>2. step \in b /\ \A i \in b : i <= step
    BY <2>1, Greatest
  <2> QED
    BY <2>1, <2>2
<1>2. \A i \in a : i \in Nat /\ i + step < 64
  <2>1. \A i \in a : i \in 0 .. 63
    OBVIOUS
  <2>2. Max(a) \in a /\ \A i \in a : i <= Max(a)
    BY <2>1, Greatest
  <2>3. Max(a) \in 0 .. 63 /\ Max(a) + step < 64
    BY <2>1, <2>2
  <2> QED
    BY <1>1, <2>1, <2>2, <2>3
<1>3. Log2(b) = step
  <2>1. \A i \in b : i \in 0 .. WIDTH - 1
    BY DEF WIDTH
  <2> QED
    BY <2>1, Log2IsMax
<1> HIDE DEF step
<1>4. \A x : x \in c <=> (\E i \in a : x = i + step) \/ (x \in b /\ x # step)
  BY <1>1, <1>2, <1>3 DEF ConcatGindices, Shl, SymDiff, WIDTH
<1> HIDE DEF c
<1>5. ASSUME NEW x \in c
      PROVE  x >= step <=> \E i \in a : x = i + step
  <2>1. CASE x \in b /\ x # step
    <3>1. x \in Nat /\ x < step
      BY <1>1, <2>1
    <3> QED
      BY <1>1, <1>2, <3>1
  <2>2. CASE \E i \in a : x = i + step
    BY <1>1, <1>2, <2>2
  <2> QED
    BY <1>4, <2>1, <2>2
<1>6. Shr(step, c) = a
  <2>1. ASSUME NEW x \in Shr(step, c)
        PROVE  x \in a
    <3>1. PICK y \in c : y >= step /\ x = y - step
      BY DEF Shr
    <3>2. PICK i \in a : y = i + step
      BY <1>5, <3>1
    <3> QED
      BY <1>1, <1>2, <3>1, <3>2
  <2>2. ASSUME NEW i \in a
        PROVE  i \in Shr(step, c)
    <3>1. i + step \in c /\ i + step >= step /\ (i + step) - step = i
      BY <1>1, <1>2, <1>4
    <3> QED
      BY <3>1 DEF Shr
  <2> QED
    BY <2>1, <2>2
<1>7. \A i \in 0 .. step - 1 : i \in c <=> i \in b
  BY <1>1, <1>2, <1>4
<1> QED
  BY <1>6, <1>7 DEF c, step

-----------------------------------------------------------------------------
(* Arrays.                                                                 *)

\* An empty array has no items.
LEMMA ToSetEmpty == ToSet(<<>>) = {}
BY DEF ToSet

\* An array has its own items and the one that is pushed.
LEMMA ToSetAppend ==
  ASSUME NEW T, NEW s \in Seq(T), NEW e \in T
  PROVE  ToSet(Append(s, e)) = ToSet(s) \cup {e}
<1> DEFINE a == Append(s, e)
<1>1. DOMAIN s = 1 .. Len(s) /\ DOMAIN a = 1 .. Len(s) + 1 /\ Len(s) \in Nat
  OBVIOUS
<1>2. \A i \in 1 .. Len(s) : a[i] = s[i]
  OBVIOUS
<1>3. a[Len(s) + 1] = e
  OBVIOUS
<1> HIDE DEF a
<1>4. \A i \in 1 .. Len(s) + 1 : i \in 1 .. Len(s) \/ i = Len(s) + 1
  BY <1>1
<1>5. 1 .. Len(s) \subseteq 1 .. Len(s) + 1 /\ Len(s) + 1 \in 1 .. Len(s) + 1
  BY <1>1
<1>6. ToSet(a) = ToSet(s) \cup {e}
  BY <1>1, <1>2, <1>3, <1>4, <1>5 DEF ToSet
<1> QED
  BY <1>6 DEF a

\* A concatenation has the items of both arrays.
LEMMA ToSetConcat ==
  ASSUME NEW T, NEW s \in Seq(T), NEW t \in Seq(T)
  PROVE  ToSet(s \o t) = ToSet(s) \cup ToSet(t)
<1> DEFINE a == s \o t
<1>1. DOMAIN s = 1 .. Len(s) /\ DOMAIN t = 1 .. Len(t) /\ DOMAIN a = 1 .. Len(s) + Len(t)
      /\ Len(s) \in Nat /\ Len(t) \in Nat
  OBVIOUS
<1>2. \A i \in 1 .. Len(s) : a[i] = s[i]
  OBVIOUS
<1>3. \A i \in 1 .. Len(t) : a[Len(s) + i] = t[i]
  OBVIOUS
<1> HIDE DEF a
<1>4. ASSUME NEW i \in DOMAIN a
      PROVE  a[i] \in ToSet(s) \cup ToSet(t)
  <2>1. CASE i \in 1 .. Len(s)
    BY <1>1, <1>2, <2>1 DEF ToSet
  <2>2. CASE i \notin 1 .. Len(s)
    <3>1. i - Len(s) \in 1 .. Len(t) /\ i = Len(s) + (i - Len(s))
      BY <1>1, <2>2
    <3> QED
      BY <1>1, <1>3, <3>1 DEF ToSet
  <2> QED
    BY <2>1, <2>2
<1>5. ASSUME NEW i \in DOMAIN s
      PROVE  s[i] \in ToSet(a)
  BY <1>1, <1>2 DEF ToSet
<1>6. ASSUME NEW i \in DOMAIN t
      PROVE  t[i] \in ToSet(a)
  <2>1. Len(s) + i \in 1 .. Len(s) + Len(t)
    BY <1>1
  <2> QED
    BY <1>1, <1>3, <2>1 DEF ToSet
<1>7. ToSet(a) = ToSet(s) \cup ToSet(t)
  BY <1>4, <1>5, <1>6 DEF ToSet
<1> QED
  BY <1>7 DEF a

\* difference keeps the last occurrence of each item that the second array does
\* not have: nothing else, and nothing twice.
THEOREM DifferenceKeepsLast ==
  ASSUME NEW T, NEW arr1 \in Seq(T), NEW arr2 \in Seq(T)
  PROVE  /\ Difference(arr1, arr2) \in Seq(T)
         /\ ToSet(Difference(arr1, arr2)) = ToSet(arr1) \ ToSet(arr2)
         /\ Distinct(Difference(arr1, arr2))
<1> DEFINE n == Len(arr1)
           Skips(i) == \/ arr1[i] \in ToSet(arr2)
                       \/ \E y \in i + 1 .. Len(arr1) : arr1[y] = arr1[i]
           P(k, g) == g = [ i \in 0 .. k |->
                              IF i = 0 THEN <<>>
                              ELSE IF Skips(i) THEN g[i - 1] ELSE Push(g[i - 1], arr1[i]) ]
           S == { k \in Nat : \E g : P(k, g) }
<1>1. n \in Nat /\ DOMAIN arr1 = 1 .. n /\ \A i \in 1 .. n : arr1[i] \in T
  OBVIOUS
<1> HIDE DEF n
<1>2. 0 \in S
  <2>1. P(0, [i \in 0 .. 0 |-> <<>>])
    OBVIOUS
  <2> QED
    BY <2>1
<1>3. ASSUME NEW k \in Nat, k \in S
      PROVE  k + 1 \in S
  <2>1. PICK g : P(k, g)
    BY <1>3
  <2> HIDE DEF Skips
  <2> DEFINE w == IF Skips(k + 1) THEN g[k] ELSE Push(g[k], arr1[k + 1])
             h == [i \in 0 .. k + 1 |-> IF i = k + 1 THEN w ELSE g[i]]
  <2>2. \A i \in 0 .. k : h[i] = g[i]
    OBVIOUS
  <2>3. \A i \in 1 .. k + 1 : h[i - 1] = g[i - 1]
    OBVIOUS
  <2>4. P(k + 1, h)
    BY <2>1, <2>2, <2>3
  <2> HIDE DEF P
  <2> QED
    BY <2>4
<1>4. Nat \subseteq S
  <2> HIDE DEF S
  <2> QED
    BY <1>2, <1>3, Induction
<1> DEFINE tmp == CHOOSE g : P(n, g)
<1>5. P(n, tmp)
  <2>1. \E g : P(n, g)
    BY <1>1, <1>4
  <2> HIDE DEF P
  <2> QED
    BY <2>1
<1>6. Difference(arr1, arr2) = tmp[n]
  BY DEF Difference, n
<1> HIDE DEF tmp
<1> DEFINE Kept(i) == { arr1[x] : x \in { y \in 1 .. i : ~Skips(y) } }
           R == { i \in Nat : i <= n => /\ tmp[i] \in Seq(T)
                                        /\ ToSet(tmp[i]) = Kept(i)
                                        /\ Distinct(tmp[i]) }
<1>7. 0 \in R
  <2>1. tmp[0] = <<>>
    BY <1>1, <1>5
  <2>2. Kept(0) = {}
    OBVIOUS
  <2> HIDE DEF Kept
  <2>3. tmp[0] \in Seq(T) /\ Distinct(tmp[0])
    BY <2>1 DEF Distinct
  <2> QED
    BY <2>1, <2>2, <2>3, ToSetEmpty
<1>8. ASSUME NEW i \in Nat, i \in R
      PROVE  i + 1 \in R
  <2> SUFFICES ASSUME i + 1 <= n
               PROVE  /\ tmp[i + 1] \in Seq(T)
                      /\ ToSet(tmp[i + 1]) = Kept(i + 1)
                      /\ Distinct(tmp[i + 1])
    OBVIOUS
  <2>1. tmp[i + 1] = IF Skips(i + 1) THEN tmp[i] ELSE Push(tmp[i], arr1[i + 1])
    <3>1. i + 1 \in 0 .. n /\ i + 1 # 0 /\ (i + 1) - 1 = i
      BY <1>1
    <3> HIDE DEF Skips
    <3> QED
      BY <1>5, <3>1
  <2>2. tmp[i] \in Seq(T) /\ ToSet(tmp[i]) = Kept(i) /\ Distinct(tmp[i])
    BY <1>1, <1>8
  <2>3. CASE Skips(i + 1)
    <3>1. Kept(i + 1) = Kept(i)
      <4> HIDE DEF Skips
      <4> QED
        BY <2>3
    <3> QED
      BY <2>1, <2>2, <2>3, <3>1
  <2>4. CASE ~Skips(i + 1)
    <3>1. arr1[i + 1] \in T
      BY <1>1
    <3>2. tmp[i + 1] = Append(tmp[i], arr1[i + 1])
      BY <2>1, <2>4 DEF Push
    <3>3. arr1[i + 1] \notin Kept(i)
      BY <1>1 DEF n
    <3>4. Kept(i + 1) = Kept(i) \cup {arr1[i + 1]}
      <4> HIDE DEF Skips
      <4> QED
        BY <2>4
    <3> HIDE DEF Kept
    <3>5. tmp[i + 1] \in Seq(T)
      BY <2>2, <3>1, <3>2
    <3>6. ToSet(tmp[i + 1]) = ToSet(tmp[i]) \cup {arr1[i + 1]}
      BY <2>2, <3>1, <3>2, ToSetAppend
    <3>7. Distinct(tmp[i + 1])
      BY <2>2, <3>1, <3>2, <3>3 DEF ToSet, Distinct
    <3> QED
      BY <2>2, <3>4, <3>5, <3>6, <3>7
  <2> QED
    BY <2>3, <2>4
<1>9. Nat \subseteq R
  <2> HIDE DEF R
  <2> QED
    BY <1>7, <1>8, Induction
<1>10. n \in R
  BY <1>1, <1>9
<1>11. Kept(n) = ToSet(arr1) \ ToSet(arr2)
  <2>1. ASSUME NEW e \in Kept(n)
        PROVE  e \in ToSet(arr1) \ ToSet(arr2)
    BY <1>1 DEF ToSet
  <2>2. ASSUME NEW e \in ToSet(arr1) \ ToSet(arr2)
        PROVE  e \in Kept(n)
    <3> DEFINE X == { x \in 1 .. n : arr1[x] = e }
    <3>1. X # {} /\ \A x \in X : x \in 0 .. n
      BY <1>1 DEF ToSet
    <3>2. Max(X) \in X /\ \A x \in X : x <= Max(X)
      <4> HIDE DEF X
      <4> QED
        BY <1>1, <3>1, Greatest
    <3>3. ~Skips(Max(X))
      BY <1>1, <3>2 DEF n
    <3> QED
      BY <3>2, <3>3
  <2> QED
    BY <2>1, <2>2
<1> QED
  BY <1>1, <1>6, <1>10, <1>11

-----------------------------------------------------------------------------
(* Quicksort.                                                              *)

\* Array b has the items of array a, in other places between lo and before hi:
\* the item at i was at p[i].
Moves(p, a, b, lo, hi) ==
  /\ p \in [1 .. Len(a) -> 1 .. Len(a)]
  /\ \A i, j \in 1 .. Len(a) : p[i] = p[j] => i = j
  /\ \A j \in 1 .. Len(a) : \E i \in 1 .. Len(a) : p[i] = j
  /\ \A i \in 1 .. Len(a) : i \notin lo .. hi - 1 => p[i] = i
  /\ \A i \in 1 .. Len(a) : b[i] = a[p[i]]

\* Array b is array a, rearranged between lo and before hi.
Rearranged(a, b, lo, hi) ==
  /\ a \in Seq(Nat) /\ b \in Seq(Nat)
  /\ Len(b) = Len(a)
  /\ \E p : Moves(p, a, b, lo, hi)

\* An array is a rearrangement of itself.
LEMMA RearrangedSame ==
  ASSUME NEW a \in Seq(Nat), NEW lo \in Nat, NEW hi \in Nat
  PROVE  Rearranged(a, a, lo, hi)
<1>1. Len(a) \in Nat
  OBVIOUS
<1>2. Moves([i \in 1 .. Len(a) |-> i], a, a, lo, hi)
  BY <1>1 DEF Moves
<1> QED
  BY <1>2 DEF Rearranged

\* Two rearrangements within a segment are one.
LEMMA RearrangedTwice ==
  ASSUME NEW a, NEW b, NEW c, NEW lo \in Nat, NEW hi \in Nat, NEW lo1 \in Nat, NEW hi1 \in Nat,
         NEW lo2 \in Nat, NEW hi2 \in Nat, lo <= lo1, lo <= lo2, hi1 <= hi, hi2 <= hi,
         Rearranged(a, b, lo1, hi1), Rearranged(b, c, lo2, hi2)
  PROVE  Rearranged(a, c, lo, hi)
<1> DEFINE n == Len(a)
<1>1. n \in Nat /\ Len(b) = n /\ Len(c) = n /\ a \in Seq(Nat) /\ c \in Seq(Nat)
  BY DEF Rearranged
<1>2. PICK p : Moves(p, a, b, lo1, hi1)
  BY DEF Rearranged
<1>3. PICK q : Moves(q, b, c, lo2, hi2)
  BY DEF Rearranged
<1> HIDE DEF n
<1>4. /\ p \in [1 .. n -> 1 .. n]
      /\ \A i, j \in 1 .. n : p[i] = p[j] => i = j
      /\ \A j \in 1 .. n : \E i \in 1 .. n : p[i] = j
      /\ \A i \in 1 .. n : i \notin lo1 .. hi1 - 1 => p[i] = i
      /\ \A i \in 1 .. n : b[i] = a[p[i]]
  BY <1>2 DEF Moves, n
<1>5. /\ q \in [1 .. n -> 1 .. n]
      /\ \A i, j \in 1 .. n : q[i] = q[j] => i = j
      /\ \A j \in 1 .. n : \E i \in 1 .. n : q[i] = j
      /\ \A i \in 1 .. n : i \notin lo2 .. hi2 - 1 => q[i] = i
      /\ \A i \in 1 .. n : c[i] = b[q[i]]
  BY <1>1, <1>3 DEF Moves
<1> DEFINE r == [i \in 1 .. n |-> p[q[i]]]
<1>6. r \in [1 .. n -> 1 .. n] /\ \A i \in 1 .. n : r[i] = p[q[i]]
  BY <1>4, <1>5
<1> HIDE DEF r
<1>0. \A i \in 1 .. n : p[i] \in 1 .. n /\ q[i] \in 1 .. n
  BY <1>4, <1>5
<1>7. ASSUME NEW i \in 1 .. n, NEW j \in 1 .. n, r[i] = r[j]
      PROVE  i = j
  <2>1. p[q[i]] = p[q[j]]
    BY <1>6, <1>7
  <2>2. q[i] \in 1 .. n /\ q[j] \in 1 .. n
    BY <1>0
  <2>3. \A k, m \in 1 .. n : p[k] = p[m] => k = m
    BY <1>4
  <2>4. q[i] = q[j]
    BY <2>1, <2>2, <2>3
  <2> QED
    BY <1>5, <2>4
<1>8. ASSUME NEW j \in 1 .. n
      PROVE  \E i \in 1 .. n : r[i] = j
  <2>1. PICK k \in 1 .. n : p[k] = j
    BY <1>4
  <2>2. PICK i \in 1 .. n : q[i] = k
    BY <1>5
  <2> QED
    BY <1>6, <2>1, <2>2
<1>9. \A i \in 1 .. n : i \notin lo .. hi - 1 => r[i] = i
  <2> TAKE i \in 1 .. n
  <2> HAVE i \notin lo .. hi - 1
  <2>1. i \notin lo1 .. hi1 - 1 /\ i \notin lo2 .. hi2 - 1
    BY <1>1
  <2>2. q[i] = i /\ p[i] = i
    BY <1>4, <1>5, <2>1
  <2> QED
    BY <1>6, <2>2
<1>10. ASSUME NEW i \in 1 .. n
       PROVE  c[i] = a[r[i]]
  <2>1. c[i] = b[q[i]] /\ q[i] \in 1 .. n
    BY <1>0, <1>5
  <2>2. b[q[i]] = a[p[q[i]]]
    BY <1>4, <2>1
  <2>3. r[i] = p[q[i]]
    BY <1>6
  <2> QED
    BY <2>1, <2>2, <2>3
<1>11. Moves(r, a, c, lo, hi)
  BY <1>6, <1>7, <1>8, <1>9, <1>10 DEF Moves, n
<1> QED
  BY <1>1, <1>11 DEF Rearranged, n

\* A swap within a segment rearranges it.
LEMMA RearrangedBySwap ==
  ASSUME NEW a \in Seq(Nat), NEW lo \in Nat, NEW hi \in Nat, 1 <= lo, hi <= Len(a) + 1,
         NEW x \in lo .. hi - 1, NEW y \in lo .. hi - 1
  PROVE  /\ Rearranged(a, Swap(a, x, y), lo, hi)
         /\ \A i \in 1 .. Len(a) :
              Swap(a, x, y)[i] = IF i = y THEN a[x] ELSE IF i = x THEN a[y] ELSE a[i]
<1> DEFINE n == Len(a)
           b == Swap(a, x, y)
           p == [i \in 1 .. n |-> IF i = y THEN x ELSE IF i = x THEN y ELSE i]
<1>1. n \in Nat /\ x \in 1 .. n /\ y \in 1 .. n /\ DOMAIN a = 1 .. n /\ \A i \in 1 .. n : a[i] \in Nat
  OBVIOUS
<1>2. b \in Seq(Nat) /\ Len(b) = n
  BY <1>1 DEF Swap
<1>3. \A i \in 1 .. n : b[i] = IF i = y THEN a[x] ELSE IF i = x THEN a[y] ELSE a[i]
  BY <1>1 DEF Swap
<1> HIDE DEF b
<1>4. Moves(p, a, b, lo, hi)
  <2> HIDE DEF n
  <2>1. p \in [1 .. n -> 1 .. n]
    BY <1>1
  <2>2. \A i, j \in 1 .. n : p[i] = p[j] => i = j
    BY <1>1
  <2>3. \A j \in 1 .. n : p[p[j]] = j /\ p[j] \in 1 .. n
    BY <1>1
  <2>4. \A i \in 1 .. n : i \notin lo .. hi - 1 => p[i] = i
    BY <1>1
  <2>5. \A i \in 1 .. n : b[i] = a[p[i]]
    BY <1>1, <1>3
  <2> HIDE DEF p
  <2> QED
    BY <2>1, <2>2, <2>3, <2>4, <2>5 DEF Moves, n
<1> QED
  BY <1>2, <1>3, <1>4 DEF Rearranged, b, n

\* Outside the segment nothing changes, and inside it no item is new.
LEMMA RearrangedWithin ==
  ASSUME NEW a, NEW b, NEW lo \in Nat, NEW hi \in Nat, 1 <= lo, hi <= Len(a) + 1,
         Rearranged(a, b, lo, hi)
  PROVE  /\ a \in Seq(Nat) /\ b \in Seq(Nat) /\ Len(b) = Len(a)
         /\ \A i \in 1 .. Len(a) : i \notin lo .. hi - 1 => b[i] = a[i]
         /\ \A i \in lo .. hi - 1 : \E j \in lo .. hi - 1 : b[i] = a[j]
<1> DEFINE n == Len(a)
<1>1. a \in Seq(Nat) /\ b \in Seq(Nat) /\ Len(b) = n /\ n \in Nat
  BY DEF Rearranged
<1>2. PICK p : Moves(p, a, b, lo, hi)
  BY DEF Rearranged
<1> HIDE DEF n
<1>3. /\ p \in [1 .. n -> 1 .. n]
      /\ \A i, j \in 1 .. n : p[i] = p[j] => i = j
      /\ \A i \in 1 .. n : i \notin lo .. hi - 1 => p[i] = i
      /\ \A i \in 1 .. n : b[i] = a[p[i]]
  BY <1>2 DEF Moves, n
<1>4. \A i \in 1 .. n : i \notin lo .. hi - 1 => b[i] = a[i]
  BY <1>3
<1>5. ASSUME NEW i \in lo .. hi - 1
      PROVE  p[i] \in lo .. hi - 1 /\ b[i] = a[p[i]]
  <2>1. i \in 1 .. n
    BY <1>1 DEF n
  <2>2. p[i] \in 1 .. n /\ b[i] = a[p[i]]
    BY <1>3, <2>1
  <2>3. ASSUME p[i] \notin lo .. hi - 1
        PROVE  FALSE
    <3>1. p[p[i]] = p[i]
      BY <1>3, <2>2, <2>3
    <3>2. p[i] = i
      BY <1>3, <2>1, <2>2, <3>1
    <3> QED
      BY <2>3, <3>2
  <2> QED
    BY <2>2, <2>3
<1> QED
  BY <1>1, <1>4, <1>5 DEF n

\* What the loop of _quickSort has established before its n-th round, and after it.
Parted(arr, begin, end, s, n) ==
  /\ Rearranged(arr, s.arr, begin, end)
  /\ s.arr[begin] = arr[begin]
  /\ s.pos \in begin .. begin + n
  /\ \A i \in begin + 1 .. s.pos : s.arr[i] > arr[begin]
  /\ \A i \in s.pos + 1 .. begin + n : s.arr[i] <= arr[begin]

\* A round of the loop extends the parts by one item.
LEMMA ScannedParts ==
  ASSUME NEW arr \in Seq(Nat), NEW begin \in Nat, NEW end \in Nat,
         1 <= begin, end <= Len(arr) + 1, NEW n \in Nat, begin + n + 1 < end,
         NEW s, Parted(arr, begin, end, s, n)
  PROVE  Parted(arr, begin, end, Scanned(s, begin + n + 1, arr[begin]), n + 1)
<1> DEFINE it == begin + n + 1
           pivot == arr[begin]
           t == Scanned(s, it, pivot)
           b == s.arr
           pos == s.pos
<1>1. /\ Rearranged(arr, b, begin, end) /\ b[begin] = pivot /\ pos \in begin .. begin + n
      /\ \A i \in begin + 1 .. pos : b[i] > pivot
      /\ \A i \in pos + 1 .. begin + n : b[i] <= pivot
  BY DEF Parted
<1>2. b \in Seq(Nat) /\ Len(b) = Len(arr) /\ Len(arr) \in Nat
  BY DEF Parted, Rearranged
<1>3. b = s.arr /\ pos = s.pos /\ it = begin + n + 1 /\ pivot = arr[begin]
      /\ t = Scanned(s, it, pivot)
  OBVIOUS
<1> HIDE DEF b, pos, it, pivot, t
<1>4. pos \in begin .. begin + n
  BY <1>1
<1>5. it = begin + n + 1
  BY <1>3
<1>6. it \in begin + 1 .. end - 1 /\ pos + 1 \in begin + 1 .. it
  BY <1>4, <1>5
<1>7. \A i \in begin .. end - 1 : b[i] \in Nat
  BY <1>2
<1>8. pivot \in Nat
  BY <1>1, <1>6, <1>7
<1>9. CASE b[it] > pivot
  <2> DEFINE c == Swap(b, pos + 1, it)
  <2>1. t = [arr |-> c, pos |-> pos + 1]
    BY <1>3, <1>9 DEF Scanned, Precedes
  <2>2. pos + 1 \in begin .. end - 1 /\ it \in begin .. end - 1
    BY <1>1, <1>6
  <2>3. /\ Rearranged(b, c, begin, end)
        /\ \A i \in 1 .. Len(b) :
             c[i] = IF i = it THEN b[pos + 1] ELSE IF i = pos + 1 THEN b[it] ELSE b[i]
    <3>1. end <= Len(b) + 1
      BY <1>2
    <3> DEFINE next == pos + 1
    <3>2. next \in begin .. end - 1
      BY <2>2
    <3> HIDE DEF next
    <3>3. /\ Rearranged(b, Swap(b, next, it), begin, end)
          /\ \A i \in 1 .. Len(b) : Swap(b, next, it)[i]
               = IF i = it THEN b[next] ELSE IF i = next THEN b[it] ELSE b[i]
      <4>1. b \in Seq(Nat) /\ it \in begin .. end - 1
        BY <1>2, <2>2
      <4> HIDE DEF c
      <4> QED
        BY <3>1, <3>2, <4>1, RearrangedBySwap, SMTT(30)
    <3> QED
      BY <3>3 DEF next
  <2> HIDE DEF c
  <2>4. Rearranged(arr, c, begin, end)
    BY <1>1, <2>3, RearrangedTwice
  <2>5. \A i \in begin .. end - 1 :
          c[i] = IF i = it THEN b[pos + 1] ELSE IF i = pos + 1 THEN b[it] ELSE b[i]
    <3>1. begin .. end - 1 \subseteq 1 .. Len(b)
      BY <1>2
    <3> QED
      BY <2>3, <3>1
  <2>6. c[begin] = pivot
    BY <1>1, <1>6, <2>2, <2>5
  <2>7. ASSUME NEW i \in begin + 1 .. pos + 1
        PROVE  c[i] > pivot
    <3>1. i \in begin .. end - 1 /\ i \in Int /\ pos \in Int
      BY <1>4, <2>2
    <3>2. CASE i = pos + 1
      <4>1. c[i] = b[it]
        BY <1>6, <2>5, <3>1, <3>2
      <4> QED
        BY <1>9, <4>1
    <3>3. CASE i # pos + 1
      <4>1. i \in begin + 1 .. pos /\ i # it
        BY <1>4, <1>5, <3>1, <3>3
      <4>2. c[i] = b[i]
        BY <2>5, <3>1, <3>3, <4>1
      <4> QED
        BY <1>1, <4>1, <4>2
    <3> QED
      BY <3>2, <3>3
  <2>8. ASSUME NEW i \in pos + 2 .. begin + n + 1
        PROVE  c[i] <= pivot
    <3>1. i \in begin .. end - 1 /\ i # pos + 1 /\ i \in Int
      BY <1>4
    <3>2. CASE i = it
      <4>1. c[i] = b[pos + 1]
        BY <2>5, <3>1, <3>2
      <4>2. pos + 1 \in pos + 1 .. begin + n
        BY <1>4, <1>5, <3>1, <3>2
      <4> QED
        BY <1>1, <4>1, <4>2
    <3>3. CASE i # it
      <4>1. c[i] = b[i] /\ i \in pos + 1 .. begin + n
        BY <1>4, <1>5, <2>5, <3>1, <3>3
      <4> QED
        BY <1>1, <4>1
    <3> QED
      BY <3>2, <3>3
  <2>9. t.arr = c /\ t.pos = pos + 1
    BY <2>1
  <2>10. t.pos \in begin .. begin + (n + 1)
    BY <1>1, <2>9
  <2>11. \A i \in t.pos + 1 .. begin + (n + 1) : t.arr[i] <= pivot
    BY <1>1, <2>8, <2>9
  <2>12. Parted(arr, begin, end, t, n + 1)
    BY <1>3, <2>4, <2>6, <2>7, <2>9, <2>10, <2>11 DEF Parted
  <2> QED
    BY <1>3, <2>12
<1>10. CASE ~(b[it] > pivot)
  <2>1. t = s
    BY <1>3, <1>10 DEF Scanned, Precedes
  <2>2. b[it] <= pivot
    <3>1. it \in begin .. end - 1
      BY <1>6
    <3>2. b[it] \in Nat
      BY <1>7, <3>1
    <3> QED
      BY <1>8, <1>10, <3>2
  <2>3. ASSUME NEW i \in pos + 1 .. begin + (n + 1)
        PROVE  b[i] <= pivot
    <3>1. i = it \/ i \in pos + 1 .. begin + n
      BY <1>4, <1>5
    <3> QED
      BY <1>1, <2>2, <3>1
  <2>4. pos \in begin .. begin + (n + 1)
    BY <1>1
  <2>5. Parted(arr, begin, end, t, n + 1)
    BY <1>3, <1>1, <2>1, <2>3, <2>4 DEF Parted
  <2> QED
    BY <1>3, <2>5
<1> QED
  BY <1>9, <1>10

\* The pivot ends up between the larger items and the others.
LEMMA PartitionedParts ==
  ASSUME NEW arr \in Seq(Nat), NEW begin \in Nat, NEW end \in Nat,
         1 <= begin, begin < end, end <= Len(arr) + 1
  PROVE  LET part == Partitioned(arr, begin, end)
         IN  /\ Rearranged(arr, part.arr, begin, end)
             /\ part.pos \in begin .. end - 1
             /\ \A i \in begin .. part.pos - 1 : part.arr[i] > part.arr[part.pos]
             /\ \A i \in part.pos + 1 .. end - 1 : part.arr[i] <= part.arr[part.pos]
<1> DEFINE m == end - begin - 1
           P(k, g) == g = [ n \in 0 .. k |->
                              IF n = 0 THEN [arr |-> arr, pos |-> begin]
                              ELSE Scanned(g[n - 1], begin + n, arr[begin]) ]
           S == { k \in Nat : \E g : P(k, g) }
<1>1. m \in Nat
  OBVIOUS
<1>2. 0 \in S
  <2>1. P(0, [n \in 0 .. 0 |-> [arr |-> arr, pos |-> begin]])
    OBVIOUS
  <2> QED
    BY <2>1
<1>3. ASSUME NEW k \in Nat, k \in S
      PROVE  k + 1 \in S
  <2>1. PICK g : P(k, g)
    BY <1>3
  <2> DEFINE w == Scanned(g[k], begin + (k + 1), arr[begin])
             h == [n \in 0 .. k + 1 |-> IF n = k + 1 THEN w ELSE g[n]]
  <2>2. \A n \in 0 .. k : h[n] = g[n]
    OBVIOUS
  <2>3. h[k + 1] = w
    OBVIOUS
  <2> HIDE DEF h
  <2>4. ASSUME NEW n \in 0 .. k + 1
        PROVE  h[n] = IF n = 0 THEN [arr |-> arr, pos |-> begin]
                      ELSE Scanned(h[n - 1], begin + n, arr[begin])
    <3>1. CASE n = k + 1
      <4>1. h[n - 1] = g[k]
        BY <2>2, <3>1
      <4> QED
        BY <2>3, <3>1, <4>1
    <3>2. CASE n # k + 1
      <4>1. n \in 0 .. k /\ (n # 0 => n - 1 \in 0 .. k)
        BY <3>2
      <4>2. g[n] = IF n = 0 THEN [arr |-> arr, pos |-> begin]
                   ELSE Scanned(g[n - 1], begin + n, arr[begin])
        BY <2>1, <4>1
      <4> QED
        BY <2>2, <4>1, <4>2
    <3> QED
      BY <3>1, <3>2
  <2>5. P(k + 1, h)
    BY <2>4 DEF h
  <2> HIDE DEF P
  <2> QED
    BY <2>5
<1>4. Nat \subseteq S
  <2> HIDE DEF S
  <2> QED
    BY <1>2, <1>3, Induction
<1> DEFINE loop == CHOOSE g : P(m, g)
           last == loop[m]
           part == Partitioned(arr, begin, end)
<1>5. P(m, loop)
  <2>1. \E g : P(m, g)
    BY <1>1, <1>4
  <2> HIDE DEF P
  <2> QED
    BY <2>1
<1>6. part = [arr |-> Swap(last.arr, begin, last.pos), pos |-> last.pos]
  BY DEF Partitioned
<1> HIDE DEF loop, m
<1> DEFINE R == { n \in Nat : n <= m => Parted(arr, begin, end, loop[n], n) }
<1>7. 0 \in R
  <2>1. loop[0] = [arr |-> arr, pos |-> begin]
    BY <1>1, <1>5
  <2>2. Rearranged(arr, arr, begin, end)
    BY RearrangedSame
  <2>3. Parted(arr, begin, end, [arr |-> arr, pos |-> begin], 0)
    BY <2>2 DEF Parted
  <2> QED
    BY <2>1, <2>3
<1>8. ASSUME NEW n \in Nat, n \in R
      PROVE  n + 1 \in R
  <2> SUFFICES ASSUME n + 1 <= m
               PROVE  Parted(arr, begin, end, loop[n + 1], n + 1)
    OBVIOUS
  <2>1. Parted(arr, begin, end, loop[n], n) /\ begin + n + 1 < end
    BY <1>1, <1>8 DEF m
  <2>2. loop[n + 1] = Scanned(loop[n], begin + (n + 1), arr[begin])
    BY <1>1, <1>5
  <2>3. begin + (n + 1) = begin + n + 1
    OBVIOUS
  <2> QED
    BY <2>1, <2>2, <2>3, ScannedParts
<1>9. Nat \subseteq R
  <2> HIDE DEF R
  <2> QED
    BY <1>7, <1>8, Induction
<1>10. Parted(arr, begin, end, last, m)
  BY <1>1, <1>9
<1> DEFINE b == last.arr
           pos == last.pos
           c == Swap(b, begin, pos)
<1>11. /\ Rearranged(arr, b, begin, end) /\ b[begin] = arr[begin] /\ pos \in begin .. end - 1
       /\ \A i \in begin + 1 .. pos : b[i] > arr[begin]
       /\ \A i \in pos + 1 .. end - 1 : b[i] <= arr[begin]
  BY <1>10 DEF Parted, m
<1>12. b \in Seq(Nat) /\ Len(b) = Len(arr)
  BY <1>11 DEF Rearranged
<1> HIDE DEF b, pos, last
<1>13. /\ Rearranged(b, c, begin, end)
       /\ \A i \in 1 .. Len(b) : c[i] = IF i = pos THEN b[begin] ELSE IF i = begin THEN b[pos] ELSE b[i]
  <2>1. begin \in begin .. end - 1
    OBVIOUS
  <2> QED
    BY <1>11, <1>12, <2>1, RearrangedBySwap
<1>14. part.arr = c /\ part.pos = pos
  BY <1>6 DEF b, pos
<1> HIDE DEF c, part
<1>15. Rearranged(arr, c, begin, end)
  BY <1>11, <1>13, RearrangedTwice
<1>16. \A i \in begin .. end - 1 : c[i] = IF i = pos THEN b[begin] ELSE IF i = begin THEN b[pos] ELSE b[i]
  <2>1. begin .. end - 1 \subseteq 1 .. Len(b)
    BY <1>12
  <2> QED
    BY <1>13, <2>1
<1>17. c[pos] = arr[begin]
  BY <1>11, <1>16
<1>18. \A i \in begin .. pos - 1 : c[i] > c[pos]
  BY <1>11, <1>16, <1>17
<1>19. \A i \in pos + 1 .. end - 1 : c[i] <= c[pos]
  BY <1>11, <1>16, <1>17
<1> QED
  BY <1>11, <1>14, <1>15, <1>18, <1>19 DEF part

\* A segment of an array, between begin and before end.
ValidSegment(arr, begin, end) ==
  /\ arr \in Seq(Nat) /\ begin \in Nat /\ end \in Nat
  /\ 1 <= begin /\ begin <= end /\ end <= Len(arr) + 1

\* A segment is a record of an array and two bounds that fit it.
LEMMA SegmentIsValid ==
  /\ \A arr, begin, end : ValidSegment(arr, begin, end)
       <=> [arr |-> arr, begin |-> begin, end |-> end] \in Segment
  /\ \A s \in Segment : /\ ValidSegment(s.arr, s.begin, s.end)
                        /\ s = [arr |-> s.arr, begin |-> s.begin, end |-> s.end]
BY DEF ValidSegment, Segment

\* What the partition of a segment of two items or more is.
Splits(arr, begin, end, part) ==
  /\ Rearranged(arr, part.arr, begin, end)
  /\ part.pos \in begin .. end - 1
  /\ \A i \in begin .. part.pos - 1 : part.arr[i] > part.arr[part.pos]
  /\ \A i \in part.pos + 1 .. end - 1 : part.arr[i] <= part.arr[part.pos]

\* The partition of a segment in terms of the predicates above.
LEMMA PartitionedSplits ==
  ASSUME NEW arr, NEW begin, NEW end, ValidSegment(arr, begin, end), ~(end - begin < 2)
  PROVE  Splits(arr, begin, end, Partitioned(arr, begin, end))
<1>1. /\ arr \in Seq(Nat) /\ begin \in Nat /\ end \in Nat
      /\ 1 <= begin /\ begin < end /\ end <= Len(arr) + 1
  BY DEF ValidSegment
<1> QED
  BY <1>1, PartitionedParts DEF Splits

\* The two recursive calls of _quickSort, by the sort f of the level below.
Halves(f, arr, begin, end) ==
  LET part == Partitioned(arr, begin, end)
      left == f[[arr |-> part.arr, begin |-> begin, end |-> part.pos]]
  IN  f[[arr |-> left, begin |-> part.pos + 1, end |-> end]]

\* A sort returns arrays as long as the ones it is given.
Sorter(f) ==
  /\ f \in [Segment -> Seq(Nat)]
  /\ \A arr, begin, end : ValidSegment(arr, begin, end) =>
       Len(f[[arr |-> arr, begin |-> begin, end |-> end]]) = Len(arr)

\* The segments of the two recursive calls lie within their arrays.
CallsFit(f, arr, begin, end) ==
  LET part == Partitioned(arr, begin, end)
      left == f[[arr |-> part.arr, begin |-> begin, end |-> part.pos]]
  IN  /\ ValidSegment(part.arr, begin, part.pos)
      /\ left \in Seq(Nat) /\ Len(left) = Len(arr)
      /\ ValidSegment(left, part.pos + 1, end)

\* What a sort is called with fits the array that the call before it returned.
LEMMA HalvesFit ==
  ASSUME NEW f, Sorter(f), NEW arr, NEW begin, NEW end,
         ValidSegment(arr, begin, end), ~(end - begin < 2)
  PROVE  /\ CallsFit(f, arr, begin, end)
         /\ Halves(f, arr, begin, end) \in Seq(Nat)
         /\ Len(Halves(f, arr, begin, end)) = Len(arr)
<1> DEFINE part == Partitioned(arr, begin, end)
           left == f[[arr |-> part.arr, begin |-> begin, end |-> part.pos]]
           right == f[[arr |-> left, begin |-> part.pos + 1, end |-> end]]
<1>1. Splits(arr, begin, end, part)
  BY PartitionedSplits
<1>2. Halves(f, arr, begin, end) = right
  BY DEF Halves
<1> HIDE DEF part
<1>3. /\ arr \in Seq(Nat) /\ begin \in Nat /\ end \in Nat
      /\ 1 <= begin /\ begin <= end /\ end <= Len(arr) + 1
  BY DEF ValidSegment
<1>4. /\ part.arr \in Seq(Nat) /\ Len(part.arr) = Len(arr)
      /\ part.pos \in begin .. end - 1
  BY <1>1 DEF Splits, Rearranged
<1>5. ValidSegment(part.arr, begin, part.pos)
  BY <1>3, <1>4 DEF ValidSegment
<1>6. left \in Seq(Nat) /\ Len(left) = Len(arr)
  <2>1. [arr |-> part.arr, begin |-> begin, end |-> part.pos] \in Segment
    BY <1>5, SegmentIsValid
  <2> QED
    BY <1>4, <1>5, <2>1 DEF Sorter
<1> HIDE DEF left
<1>7. ValidSegment(left, part.pos + 1, end)
  <2> DEFINE pos == part.pos
  <2>1. pos \in begin .. end - 1
    BY <1>4
  <2> HIDE DEF pos
  <2>2. pos + 1 \in Nat /\ 1 <= pos + 1 /\ pos + 1 <= end
    BY <1>3, <2>1
  <2>3. end <= Len(left) + 1
    BY <1>3, <1>6
  <2>4. ValidSegment(left, pos + 1, end)
    BY <1>3, <1>6, <2>2, <2>3 DEF ValidSegment
  <2> QED
    BY <2>4 DEF pos
<1>8. right \in Seq(Nat) /\ Len(right) = Len(arr)
  <2> DEFINE next == part.pos + 1
  <2>0. ValidSegment(left, next, end)
    BY <1>7
  <2> HIDE DEF next
  <2>1. [arr |-> left, begin |-> next, end |-> end] \in Segment
    BY <2>0, SegmentIsValid
  <2>2. f[[arr |-> left, begin |-> next, end |-> end]] \in Seq(Nat)
    BY <2>1 DEF Sorter
  <2>3. Len(f[[arr |-> left, begin |-> next, end |-> end]]) = Len(left)
    BY <2>0 DEF Sorter
  <2> QED
    BY <1>6, <2>2, <2>3 DEF next
<1>9. Halves(f, arr, begin, end) \in Seq(Nat) /\ Len(Halves(f, arr, begin, end)) = Len(arr)
  <2> HIDE DEF right
  <2> QED
    BY <1>2, <1>8
<1> QED
  BY <1>5, <1>6, <1>7, <1>9 DEF part, left, CallsFit

\* The recursion of _quickSort, in terms of the part on either side of the pivot.
LEMMA QuickSortValue ==
  /\ \A n \in Nat : Sorter(QuickSort[n])
  /\ \A n \in Nat : \A s \in Segment :
       QuickSort[n][s] = IF n = 0 \/ s.end - s.begin < 2
                         THEN s.arr
                         ELSE Halves(QuickSort[n - 1], s.arr, s.begin, s.end)
<1> DEFINE V == { f \in [Segment -> Seq(Nat)] : Sorter(f) }
           Next(f) == [ s \in Segment |->
             IF s.end - s.begin < 2 THEN s.arr ELSE Halves(f, s.arr, s.begin, s.end) ]
           Q(g) == g = [ n \in Nat |-> [ s \in Segment |->
             IF n = 0 \/ s.end - s.begin < 2
             THEN s.arr
             ELSE Halves(g[n - 1], s.arr, s.begin, s.end) ] ]
           v == [s \in Segment |-> s.arr]
           p == [n \in Nat |-> IF n = 0 THEN 0 ELSE n - 1]
           F == [x \in Nat \X V |-> Next(x[2])]
<1>1. v \in V
  <2>1. v \in [Segment -> Seq(Nat)]
    BY SegmentIsValid DEF ValidSegment
  <2>2. \A arr, begin, end : ValidSegment(arr, begin, end) =>
          v[[arr |-> arr, begin |-> begin, end |-> end]] = arr
    BY SegmentIsValid
  <2> HIDE DEF v
  <2>3. Sorter(v)
    BY <2>1, <2>2 DEF Sorter
  <2> QED
    BY <2>1, <2>3
<1>2. p \in [Nat -> Nat] /\ \A n \in Nat : n > 0 => p[n] < n /\ p[n] = n - 1
  OBVIOUS
<1>3. ASSUME NEW f \in V
      PROVE  Next(f) \in V
  <2> DEFINE o == Next(f)
  <2>0. Sorter(f)
    OBVIOUS
  <2>1. ASSUME NEW s \in Segment
        PROVE  o[s] \in Seq(Nat) /\ Len(o[s]) = Len(s.arr)
    <3>1. ValidSegment(s.arr, s.begin, s.end)
      BY SegmentIsValid
    <3>2. CASE s.end - s.begin < 2
      <4>1. o[s] = s.arr
        BY <3>2
      <4> QED
        BY <3>1, <4>1 DEF ValidSegment
    <3>3. CASE ~(s.end - s.begin < 2)
      <4>1. o[s] = Halves(f, s.arr, s.begin, s.end)
        BY <3>3
      <4> DEFINE a == s.arr
                 b == s.begin
                 e == s.end
      <4> HIDE DEF V, o
      <4>2. ValidSegment(a, b, e) /\ ~(e - b < 2)
        BY <3>1, <3>3
      <4> HIDE DEF a, b, e
      <4>3. Halves(f, a, b, e) \in Seq(Nat) /\ Len(Halves(f, a, b, e)) = Len(a)
        BY <2>0, <4>2, HalvesFit
      <4> QED
        BY <4>1, <4>3 DEF a, b, e
    <3> QED
      BY <3>2, <3>3
  <2>2. o = [s \in Segment |-> o[s]]
    OBVIOUS
  <2> HIDE DEF o
  <2>3. o \in [Segment -> Seq(Nat)]
    BY <2>1, <2>2
  <2>4. \A arr, begin, end : ValidSegment(arr, begin, end) =>
          Len(o[[arr |-> arr, begin |-> begin, end |-> end]]) = Len(arr)
    BY <2>1, SegmentIsValid
  <2>5. Sorter(o)
    BY <2>3, <2>4 DEF Sorter
  <2>6. o \in V
    BY <2>3, <2>5
  <2> QED
    BY <2>6 DEF o
<1>4. F \in [Nat \X V -> V]
  <2> HIDE DEF V, Next
  <2> QED
    BY <1>3
<1>5. PICK g : Solves(g, V, v, p, F)
  <2> HIDE DEF V, v, p, F
  <2>1. IsRecursion(V, v, p, F)
    BY <1>1, <1>2, <1>4 DEF IsRecursion
  <2> QED
    BY <2>1, Recursion
<1>6. g \in [Nat -> V] /\ g[0] = v
  <2> HIDE DEF V, v, p, F
  <2> QED
    BY <1>5 DEF Solves
<1>7. ASSUME NEW n \in Nat, n > 0
      PROVE  g[n] = Next(g[n - 1])
  <2>1. g[n] = F[<<n, g[n - 1]>>]
    <3> HIDE DEF F, p
    <3> QED
      BY <1>2, <1>5, <1>7 DEF Solves
  <2>2. <<n, g[n - 1]>> \in Nat \X V
    <3> HIDE DEF V
    <3> QED
      BY <1>6, <1>7
  <2> HIDE DEF V, Next
  <2> QED
    BY <2>1, <2>2
<1>8. ASSUME NEW n \in Nat
      PROVE  g[n] = [ s \in Segment |->
                        IF n = 0 \/ s.end - s.begin < 2
                        THEN s.arr
                        ELSE Halves(g[n - 1], s.arr, s.begin, s.end) ]
  <2>1. CASE n = 0
    BY <1>6, <2>1
  <2>2. CASE n # 0
    BY <1>7, <2>2
  <2> QED
    BY <2>1, <2>2
<1>9. Q(g)
  <2> HIDE DEF V
  <2>1. g = [n \in Nat |-> g[n]]
    BY <1>6
  <2> QED
    BY <1>8, <2>1
<1>10. QuickSort = CHOOSE h : Q(h)
  BY DEF QuickSort, Halves
<1>11. Q(QuickSort)
  <2> HIDE DEF Q
  <2> QED
    BY <1>9, <1>10
<1>12. /\ QuickSort[0] = v
       /\ \A n \in Nat : n > 0 => QuickSort[n] = Next(QuickSort[n - 1])
  <2>1. \A n \in Nat : QuickSort[n] = [ s \in Segment |->
             IF n = 0 \/ s.end - s.begin < 2
             THEN s.arr
             ELSE Halves(QuickSort[n - 1], s.arr, s.begin, s.end) ]
    BY <1>11
  <2>2. QuickSort[0] = v
    <3>1. QuickSort[0] = [ s \in Segment |->
             IF 0 = 0 \/ s.end - s.begin < 2
             THEN s.arr
             ELSE Halves(QuickSort[0 - 1], s.arr, s.begin, s.end) ]
      BY <2>1
    <3> QED
      BY ONLY <3>1
  <2>3. ASSUME NEW n \in Nat, n > 0
        PROVE  QuickSort[n] = Next(QuickSort[n - 1])
    BY <2>1, <2>3
  <2> QED
    BY <2>2, <2>3
<1> DEFINE S == { n \in Nat : QuickSort[n] \in V }
<1>13. 0 \in S
  <2> HIDE DEF V, v
  <2> QED
    BY <1>1, <1>12
<1>14. ASSUME NEW n \in Nat, n \in S
       PROVE  n + 1 \in S
  <2> HIDE DEF V, Next
  <2>1. QuickSort[n + 1] = Next(QuickSort[n])
    BY <1>12
  <2> QED
    BY <1>3, <1>14, <2>1
<1>15. Nat \subseteq S
  <2> HIDE DEF S
  <2> QED
    BY <1>13, <1>14, Induction
<1>16. \A n \in Nat : Sorter(QuickSort[n])
  BY <1>15
<1>17. ASSUME NEW n \in Nat, NEW s \in Segment
       PROVE  QuickSort[n][s] = IF n = 0 \/ s.end - s.begin < 2
                                THEN s.arr
                                ELSE Halves(QuickSort[n - 1], s.arr, s.begin, s.end)
  <2>1. QuickSort[n] = [ r \in Segment |->
             IF n = 0 \/ r.end - r.begin < 2
             THEN r.arr
             ELSE Halves(QuickSort[n - 1], r.arr, r.begin, r.end) ]
    BY <1>11
  <2> QED
    BY ONLY <2>1, s \in Segment
<1> QED
  BY <1>16, <1>17

\* The segment is sorted, from the largest item to the smallest.
Descends(arr, begin, end) ==
  \A i, j \in begin .. end - 1 : i < j => arr[i] >= arr[j]

\* Sorted parts on either side of the pivot are a sorted segment.
LEMMA HalvesDescend ==
  ASSUME NEW arr, NEW begin, NEW end, ValidSegment(arr, begin, end), ~(end - begin < 2),
         NEW part, Splits(arr, begin, end, part),
         NEW left, Rearranged(part.arr, left, begin, part.pos), Descends(left, begin, part.pos),
         NEW right, Rearranged(left, right, part.pos + 1, end), Descends(right, part.pos + 1, end)
  PROVE  Rearranged(arr, right, begin, end) /\ Descends(right, begin, end)
<1> DEFINE b == part.arr
           pos == part.pos
           next == pos + 1
<1>1. /\ arr \in Seq(Nat) /\ begin \in Nat /\ end \in Nat
      /\ 1 <= begin /\ begin < end /\ end <= Len(arr) + 1
  BY DEF ValidSegment
<1>2. /\ Rearranged(arr, b, begin, end)
      /\ pos \in begin .. end - 1
      /\ \A i \in begin .. pos - 1 : b[i] > b[pos]
      /\ \A i \in pos + 1 .. end - 1 : b[i] <= b[pos]
  BY DEF Splits
<1>3. /\ Rearranged(b, left, begin, pos) /\ Descends(left, begin, pos)
      /\ Rearranged(left, right, next, end) /\ Descends(right, next, end)
  OBVIOUS
<1> HIDE DEF b, pos
<1>4. pos \in Nat /\ next \in Nat /\ begin <= next /\ pos <= end /\ 1 <= next /\ next = pos + 1
  BY <1>1, <1>2
<1> HIDE DEF next
<1>5. Rearranged(arr, left, begin, end)
  BY <1>1, <1>2, <1>3, <1>4, RearrangedTwice
<1>6. Rearranged(arr, right, begin, end)
  BY <1>1, <1>3, <1>4, <1>5, RearrangedTwice
<1>7. /\ b \in Seq(Nat) /\ left \in Seq(Nat) /\ right \in Seq(Nat)
      /\ Len(b) = Len(arr) /\ Len(left) = Len(arr) /\ Len(right) = Len(arr)
  BY <1>2, <1>3 DEF Rearranged
<1>8. /\ \A i \in 1 .. Len(b) : i \notin begin .. pos - 1 => left[i] = b[i]
      /\ \A i \in begin .. pos - 1 : \E j \in begin .. pos - 1 : left[i] = b[j]
  <2>1. pos <= Len(b) + 1
    BY <1>1, <1>4, <1>7
  <2> QED
    BY <1>1, <1>3, <1>4, <2>1, RearrangedWithin
<1>9. /\ \A i \in 1 .. Len(left) : i \notin next .. end - 1 => right[i] = left[i]
      /\ \A i \in next .. end - 1 : \E j \in next .. end - 1 : right[i] = left[j]
  <2>1. next \in Nat /\ end \in Nat /\ 1 <= next /\ end <= Len(left) + 1
    BY <1>1, <1>4, <1>7
  <2>2. Rearranged(left, right, next, end)
    BY <1>3
  <2> QED
    BY ONLY <2>1, <2>2, RearrangedWithin
<1>10. begin .. end - 1 \subseteq 1 .. Len(arr)
  <2> DEFINE n == Len(arr)
  <2>1. n \in Nat /\ end <= n + 1 /\ begin \in Nat /\ end \in Nat /\ 1 <= begin
    BY <1>1
  <2> HIDE DEF n
  <2>2. begin .. end - 1 \subseteq 1 .. n
    BY <2>1
  <2> QED
    BY <2>2 DEF n
<1>11. \A i \in begin .. end - 1 : b[i] \in Nat /\ left[i] \in Nat /\ right[i] \in Nat
  <2>1. ASSUME NEW s \in Seq(Nat), Len(s) = Len(arr), NEW i \in begin .. end - 1
        PROVE  s[i] \in Nat
    <3>1. i \in 1 .. Len(s)
      BY <1>10, <2>1
    <3> QED
      BY ONLY <3>1, s \in Seq(Nat)
  <2> QED
    BY <1>7, <2>1
<1>12. ASSUME NEW i \in begin .. pos - 1
       PROVE  i \in begin .. end - 1 /\ right[i] = left[i] /\ left[i] > b[pos]
  <2>1. i \in begin .. end - 1 /\ i \notin next .. end - 1
    BY <1>1, <1>4
  <2>2. right[i] = left[i]
    BY <1>7, <1>9, <1>10, <2>1
  <2>3. left[i] > b[pos]
    BY <1>2, <1>8
  <2> QED
    BY <2>1, <2>2, <2>3
<1>13. right[pos] = b[pos]
  <2>1. pos \notin next .. end - 1 /\ pos \notin begin .. pos - 1 /\ pos \in 1 .. Len(arr)
    BY <1>2, <1>4, <1>10
  <2> QED
    BY <1>7, <1>8, <1>9, <2>1
<1>14. ASSUME NEW i \in next .. end - 1
       PROVE  i \in begin .. end - 1 /\ right[i] <= b[pos]
  <2>1. PICK j \in next .. end - 1 : right[i] = left[j]
    BY <1>9
  <2>2. j \in begin .. end - 1 /\ j \notin begin .. pos - 1 /\ j \in pos + 1 .. end - 1
    BY <1>1, <1>4
  <2>3. left[j] = b[j]
    BY <1>7, <1>8, <1>10, <2>2
  <2>4. i \in begin .. end - 1
    BY <1>1, <1>4
  <2> QED
    BY <1>2, <2>1, <2>2, <2>3, <2>4
<1>15. ASSUME NEW i \in begin .. end - 1, NEW j \in begin .. end - 1, i < j
       PROVE  right[i] >= right[j]
  <2>0. right[i] \in Nat /\ right[j] \in Nat /\ b[pos] \in Nat
    BY <1>2, <1>11
  <2>1. CASE j < pos
    <3>1. i \in begin .. pos - 1 /\ j \in begin .. pos - 1
      BY <1>1, <1>2, <1>15, <2>1
    <3>2. left[i] >= left[j]
      BY <1>3, <1>15, <3>1 DEF Descends
    <3> QED
      BY <1>12, <3>1, <3>2
  <2>2. CASE i < pos /\ ~(j < pos)
    <3>1. i \in begin .. pos - 1 /\ (j = pos \/ j \in next .. end - 1)
      BY <1>1, <1>2, <1>4, <2>2
    <3>2. right[i] > b[pos]
      BY <1>12, <3>1
    <3>3. right[j] <= b[pos]
      BY <1>13, <1>14, <2>0, <3>1
    <3> QED
      BY <2>0, <3>2, <3>3
  <2>3. CASE i = pos
    <3>1. j \in next .. end - 1
      BY <1>1, <1>2, <1>4, <1>15, <2>3
    <3> QED
      BY <1>13, <1>14, <2>0, <2>3, <3>1
  <2>4. CASE i > pos
    <3>1. i \in next .. end - 1 /\ j \in next .. end - 1
      BY <1>1, <1>2, <1>4, <1>15, <2>4
    <3> QED
      BY <1>3, <1>15, <3>1 DEF Descends
  <2>5. i \in Int /\ pos \in Int
    BY <1>4
  <2> QED
    BY <2>1, <2>2, <2>3, <2>4, <2>5
<1>16. Descends(right, begin, end)
  BY <1>15 DEF Descends
<1> QED
  BY <1>6, <1>16

\* Every segment is sorted, from the largest item to the smallest.
LEMMA QuickSortSorts ==
  ASSUME NEW n \in Nat, NEW arr, NEW begin, NEW end, ValidSegment(arr, begin, end),
         end - begin <= n + 1
  PROVE  LET sorted == QuickSort[n][[arr |-> arr, begin |-> begin, end |-> end]]
         IN  Rearranged(arr, sorted, begin, end) /\ Descends(sorted, begin, end)
<1> DEFINE Segm(a, b, e) == [arr |-> a, begin |-> b, end |-> e]
           Sorts(k, a, b, e) == /\ Rearranged(a, QuickSort[k][Segm(a, b, e)], b, e)
                                /\ Descends(QuickSort[k][Segm(a, b, e)], b, e)
           S == { k \in Nat : \A a, b, e : ValidSegment(a, b, e) /\ e - b <= k + 1 => Sorts(k, a, b, e) }
<1>1. ASSUME NEW k \in Nat, NEW a, NEW b, NEW e, ValidSegment(a, b, e)
      PROVE  QuickSort[k][Segm(a, b, e)] = IF k = 0 \/ e - b < 2 THEN a
                                           ELSE Halves(QuickSort[k - 1], a, b, e)
  <2> DEFINE s == Segm(a, b, e)
  <2>1. s \in Segment /\ s.arr = a /\ s.begin = b /\ s.end = e
    BY <1>1, SegmentIsValid
  <2> HIDE DEF s
  <2>2. QuickSort[k][s] = IF k = 0 \/ s.end - s.begin < 2 THEN s.arr
                          ELSE Halves(QuickSort[k - 1], s.arr, s.begin, s.end)
    BY <2>1, QuickSortValue
  <2>3. QuickSort[k][s] = IF k = 0 \/ e - b < 2 THEN a ELSE Halves(QuickSort[k - 1], a, b, e)
    BY <2>1, <2>2
  <2> QED
    BY <2>3 DEF s
<1>2. ASSUME NEW k \in Nat, NEW a, NEW b, NEW e, ValidSegment(a, b, e), e - b < 2
      PROVE  Sorts(k, a, b, e)
  <2>1. QuickSort[k][Segm(a, b, e)] = a
    BY <1>1, <1>2
  <2>2. a \in Seq(Nat) /\ b \in Nat /\ e \in Nat
    BY <1>2 DEF ValidSegment
  <2>3. Rearranged(a, a, b, e)
    BY <2>2, RearrangedSame
  <2>4. Descends(a, b, e)
    BY <1>2, <2>2 DEF Descends
  <2> QED
    BY <2>1, <2>3, <2>4
<1>3. 0 \in S
  <2>1. ASSUME NEW a, NEW b, NEW e, ValidSegment(a, b, e), e - b <= 0 + 1
        PROVE  Sorts(0, a, b, e)
    <3>1. e - b < 2
      BY <2>1 DEF ValidSegment
    <3> HIDE DEF Sorts
    <3> QED
      BY <1>2, <2>1, <3>1
  <2> QED
    BY <2>1
<1>4. ASSUME NEW k \in Nat, k \in S
      PROVE  k + 1 \in S
  <2> DEFINE f == QuickSort[k]
  <2>0. Sorter(f)
    BY QuickSortValue
  <2>1. ASSUME NEW a, NEW b, NEW e, ValidSegment(a, b, e), ~(e - b < 2), e - b <= (k + 1) + 1
        PROVE  Sorts(k + 1, a, b, e)
    <3> DEFINE part == Partitioned(a, b, e)
               left == f[Segm(part.arr, b, part.pos)]
               right == f[Segm(left, part.pos + 1, e)]
    <3>1. QuickSort[k + 1][Segm(a, b, e)] = right
      <4>1. QuickSort[k + 1][Segm(a, b, e)] = Halves(f, a, b, e)
        BY <1>1, <2>1
      <4> QED
        BY <4>1 DEF Halves
    <3>2. Splits(a, b, e, part)
      BY <2>1, PartitionedSplits
    <3>3. CallsFit(f, a, b, e)
      BY <2>0, <2>1, HalvesFit
    <3>4. ValidSegment(part.arr, b, part.pos) /\ ValidSegment(left, part.pos + 1, e)
      BY <3>3 DEF CallsFit
    <3> HIDE DEF part, f
    <3>5. b \in Nat /\ e \in Nat /\ part.pos \in b .. e - 1
      BY <2>1, <3>2 DEF ValidSegment, Splits
    <3>6. part.pos - b <= k + 1 /\ e - (part.pos + 1) <= k + 1
      BY <2>1, <3>5
    <3>7. Sorts(k, part.arr, b, part.pos)
      <4> HIDE DEF Sorts
      <4> QED
        BY <1>4, <3>4, <3>6
    <3>8. Sorts(k, left, part.pos + 1, e)
      <4> DEFINE next == part.pos + 1
      <4>1. ValidSegment(left, next, e) /\ e - next <= k + 1
        BY <3>4, <3>6
      <4> HIDE DEF Sorts, left, next
      <4>2. Sorts(k, left, next, e)
        BY <1>4, <4>1
      <4> QED
        BY <4>2 DEF next
    <3>9. Rearranged(part.arr, left, b, part.pos) /\ Descends(left, b, part.pos)
      BY <3>7 DEF f
    <3>10. Rearranged(left, right, part.pos + 1, e) /\ Descends(right, part.pos + 1, e)
      BY <3>8 DEF f
    <3> HIDE DEF left, right
    <3>11. Rearranged(a, right, b, e) /\ Descends(right, b, e)
      BY <2>1, <3>2, <3>9, <3>10, HalvesDescend
    <3> QED
      BY <3>1, <3>11
  <2>2. ASSUME NEW a, NEW b, NEW e, ValidSegment(a, b, e), e - b <= (k + 1) + 1
        PROVE  Sorts(k + 1, a, b, e)
    <3> HIDE DEF Sorts
    <3>1. CASE e - b < 2
      BY <1>2, <2>2, <3>1
    <3>2. CASE ~(e - b < 2)
      BY <2>1, <2>2, <3>2
    <3> QED
      BY <3>1, <3>2
  <2> HIDE DEF Sorts
  <2> QED
    BY <2>2
<1>5. Nat \subseteq S
  <2> HIDE DEF S
  <2> QED
    BY <1>3, <1>4, Induction
<1>6. Sorts(n, arr, begin, end)
  <2> HIDE DEF Sorts
  <2> QED
    BY <1>5
<1> QED
  BY <1>6

\* sortReverse of an array: its items from the largest to the smallest.
THEOREM SortReverseRearranges ==
  ASSUME NEW arr \in Seq(Nat)
  PROVE  /\ Rearranged(arr, SortReverse(arr), 1, Len(arr) + 1)
         /\ Descends(SortReverse(arr), 1, Len(arr) + 1)
<1> DEFINE n == Len(arr)
           end == n + 1
<1>1. n \in Nat /\ n = Len(arr) /\ end = n + 1
  OBVIOUS
<1>2. SortReverse(arr) = QuickSort[n][[arr |-> arr, begin |-> 1, end |-> end]]
  BY DEF SortReverse
<1> HIDE DEF n, end
<1>3. ValidSegment(arr, 1, end) /\ end - 1 <= n + 1
  BY <1>1 DEF ValidSegment
<1>4. Rearranged(arr, SortReverse(arr), 1, end) /\ Descends(SortReverse(arr), 1, end)
  BY <1>1, <1>2, <1>3, QuickSortSorts
<1> QED
  BY <1>1, <1>4

\* The same in terms of the items: none is lost or repeated, and items that were
\* not repeated descend strictly.
THEOREM SortReverseIsSort ==
  ASSUME NEW arr \in Seq(Nat)
  PROVE  LET sorted == SortReverse(arr)
         IN  /\ sorted \in Seq(Nat) /\ Len(sorted) = Len(arr)
             /\ ToSet(sorted) = ToSet(arr)
             /\ \A i, j \in 1 .. Len(arr) : i < j => sorted[i] >= sorted[j]
             /\ Distinct(arr) => /\ Distinct(sorted)
                                 /\ \A i, j \in 1 .. Len(arr) : i < j => sorted[i] > sorted[j]
             /\ \A e : Cardinality({i \in DOMAIN sorted : sorted[i] = e})
                         = Cardinality({i \in DOMAIN arr : arr[i] = e})
<1> DEFINE sorted == SortReverse(arr)
           n == Len(arr)
           end == n + 1
<1>0. n \in Nat /\ n = Len(arr) /\ end = n + 1 /\ DOMAIN arr = 1 .. n
  OBVIOUS
<1>1. Rearranged(arr, sorted, 1, end) /\ Descends(sorted, 1, end)
  BY SortReverseRearranges
<1> HIDE DEF sorted, end
<1>2. PICK p : Moves(p, arr, sorted, 1, end)
  BY <1>1 DEF Rearranged
<1>3. sorted \in Seq(Nat) /\ Len(sorted) = n
  BY <1>1 DEF Rearranged
<1>4. DOMAIN sorted = 1 .. n
  BY <1>0, <1>3
<1> HIDE DEF n
<1>5. /\ p \in [1 .. n -> 1 .. n]
      /\ \A i, j \in 1 .. n : p[i] = p[j] => i = j
      /\ \A j \in 1 .. n : \E i \in 1 .. n : p[i] = j
      /\ \A i \in 1 .. n : sorted[i] = arr[p[i]]
  BY <1>0, <1>2 DEF Moves
<1>6. ToSet(sorted) = ToSet(arr)
  <2>1. \A e : e \in ToSet(sorted) <=> \E i \in 1 .. n : sorted[i] = e
    BY <1>4 DEF ToSet
  <2>2. \A e : e \in ToSet(arr) <=> \E i \in 1 .. n : arr[i] = e
    BY <1>0 DEF ToSet
  <2>3. ASSUME NEW e
        PROVE  (\E i \in 1 .. n : sorted[i] = e) <=> (\E i \in 1 .. n : arr[i] = e)
    <3>1. ASSUME NEW i \in 1 .. n, sorted[i] = e
          PROVE  \E j \in 1 .. n : arr[j] = e
      BY <1>5, <3>1
    <3>2. ASSUME NEW j \in 1 .. n, arr[j] = e
          PROVE  \E i \in 1 .. n : sorted[i] = e
      <4>1. PICK i \in 1 .. n : p[i] = j
        BY <1>5
      <4>2. sorted[i] = e
        BY <1>5, <3>2, <4>1
      <4> QED
        BY <4>2
    <3> QED
      BY <3>1, <3>2
  <2> HIDE DEF sorted
  <2> QED
    BY <2>1, <2>2, <2>3
<1>7. \A i, j \in 1 .. n : i < j => sorted[i] >= sorted[j]
  <2>1. 1 .. n = 1 .. end - 1
    BY <1>0
  <2> QED
    BY <1>1, <2>1 DEF Descends
<1>8. ASSUME Distinct(arr)
      PROVE  Distinct(sorted) /\ \A i, j \in 1 .. n : i < j => sorted[i] > sorted[j]
  <2>1. ASSUME NEW i \in 1 .. n, NEW j \in 1 .. n, sorted[i] = sorted[j]
        PROVE  i = j
    <3>1. p[i] \in 1 .. n /\ p[j] \in 1 .. n /\ arr[p[i]] = arr[p[j]]
      BY <1>5, <2>1
    <3>2. p[i] = p[j]
      BY <1>0, <1>8, <3>1 DEF Distinct
    <3> QED
      BY <1>5, <3>2
  <2>2. Distinct(sorted)
    BY <1>4, <2>1 DEF Distinct
  <2>3. ASSUME NEW i \in 1 .. n, NEW j \in 1 .. n, i < j
        PROVE  sorted[i] > sorted[j]
    <3>1. sorted[i] # sorted[j] /\ sorted[i] >= sorted[j]
      BY <1>7, <2>1, <2>3
    <3>2. sorted[i] \in Nat /\ sorted[j] \in Nat
      BY <1>3, <1>4
    <3> QED
      BY <3>1, <3>2
  <2> QED
    BY <2>2, <2>3
<1>9. ASSUME NEW e
      PROVE  Cardinality({i \in DOMAIN sorted : sorted[i] = e})
               = Cardinality({i \in DOMAIN arr : arr[i] = e})
  <2> DEFINE A == {i \in DOMAIN sorted : sorted[i] = e}
             B == {i \in DOMAIN arr : arr[i] = e}
             f == [i \in A |-> p[i]]
  <2>1. IsFiniteSet(A)
    <3>1. A \subseteq 1 .. n
      BY <1>4
    <3>2. IsFiniteSet(1 .. n)
      BY <1>0, FS_Interval
    <3> QED
      BY <3>1, <3>2, FS_Subset
  <2>2. f \in [A -> B]
    BY <1>0, <1>4, <1>5
  <2>3. \A i, j \in A : f[i] = f[j] => i = j
    BY <1>4, <1>5
  <2>4. ASSUME NEW j \in B
        PROVE  \E i \in A : f[i] = j
    <3>1. j \in 1 .. n /\ arr[j] = e
      BY <1>0
    <3>2. PICK i \in 1 .. n : p[i] = j
      BY <1>5, <3>1
    <3>3. sorted[i] = e
      BY <1>5, <3>1, <3>2
    <3>4. i \in A
      BY <1>4, <3>3
    <3> QED
      BY <3>2, <3>4
  <2>5. f \in Bijection(A, B)
    <3> HIDE DEF A, B, f
    <3> QED
      BY <2>2, <2>3, <2>4 DEF Bijection, Injection, Surjection, IsInjective
  <2>6. ExistsBijection(A, B)
    <3> HIDE DEF A, B, f
    <3> QED
      BY <2>5 DEF ExistsBijection
  <2> HIDE DEF A, B
  <2>7. Cardinality(B) = Cardinality(A)
    BY <2>1, <2>6, FS_Bijection
  <2> QED
    BY <2>7 DEF A, B
<1> QED
  BY <1>3, <1>6, <1>7, <1>8, <1>9 DEF n, sorted

-----------------------------------------------------------------------------
(* Generalized indices and their words.                                    *)

\* A sibling is no parent, root or zero; the sibling of the sibling is the node.
LEMMA Siblings ==
  ASSUME NEW k \in Nat, k > 1
  PROVE  /\ Sibling(k) \in Nat /\ Sibling(k) > 1 /\ Sibling(k) # k
         /\ Sibling(Sibling(k)) = k
         /\ Sibling(k) \div 2 = k \div 2
         /\ k \div 2 \in Nat /\ 1 <= k \div 2 /\ k \div 2 < k
         /\ \A j \in Nat : j \div 2 = k \div 2 => j \in {k, Sibling(k)}
         /\ k % 2 \in {0, 1} /\ (k % 2 = 0 <=> Sibling(k) % 2 = 1)
<1>1. CASE k % 2 = 0
  BY <1>1 DEF Sibling
<1>2. CASE k % 2 # 0
  <2>1. k % 2 = 1 /\ (k - 1) % 2 = 0 /\ k > 2
    BY <1>2
  <2>2. Sibling(k) = k - 1
    BY <2>1 DEF Sibling
  <2>3. Sibling(k - 1) = k
    BY <2>1 DEF Sibling
  <2>4. (k - 1) \div 2 = k \div 2
    BY <2>1
  <2>5. \A j \in Nat : j \div 2 = k \div 2 => j \in {k, k - 1}
    BY <2>1
  <2> QED
    BY <2>1, <2>2, <2>3, <2>4, <2>5
<1> QED
  BY <1>1, <1>2

\* Half of a number has its bits, one place lower.
LEMMA BitsOfHalf ==
  ASSUME NEW n \in Nat, n > 0
  PROVE  /\ n \div 2 \in Nat
         /\ Bits[n] \subseteq Nat /\ Bits[n \div 2] \subseteq Nat
         /\ \A i \in Nat : i + 1 \in Bits[n] <=> i \in Bits[n \div 2]
         /\ 0 \in Bits[n] <=> n % 2 = 1
<1>1. n \div 2 \in Nat
  OBVIOUS
<1>2. Bits[n] \subseteq Nat /\ Bits[n \div 2] \subseteq Nat
  BY <1>1, BitsValue
<1>3. Bits[n] = { i + 1 : i \in Bits[n \div 2] } \cup (IF n % 2 = 1 THEN {0} ELSE {})
  BY BitsValue
<1> DEFINE H == Bits[n \div 2]
           B == Bits[n]
<1> HIDE DEF H, B
<1>4. H \subseteq Nat /\ B = { i + 1 : i \in H } \cup (IF n % 2 = 1 THEN {0} ELSE {})
  BY <1>2, <1>3 DEF H, B
<1>5. \A i \in Nat : i + 1 \in B <=> i \in H
  BY <1>4
<1>6. 0 \in B <=> n % 2 = 1
  BY <1>4
<1> QED
  BY <1>1, <1>2, <1>5, <1>6 DEF H, B

\* Only zero has no one bit.
LEMMA BitsNonempty ==
  ASSUME NEW n \in Nat, n > 0
  PROVE  Bits[n] # {}
<1> DEFINE S == { m \in Nat : m > 0 => Bits[m] # {} }
<1>1. ASSUME NEW m \in Nat, \A i \in Nat : i < m => i \in S
      PROVE  m \in S
  <2> SUFFICES ASSUME m > 0 PROVE Bits[m] # {}
    OBVIOUS
  <2>1. CASE m = 1
    <3>1. m % 2 = 1
      BY <2>1
    <3>2. 0 \in Bits[m]
      BY <3>1, BitsOfHalf
    <3> QED
      BY <3>2
  <2>2. CASE m # 1
    <3>1. m \div 2 \in Nat /\ m \div 2 > 0 /\ m \div 2 < m
      BY <2>2
    <3>2. Bits[m \div 2] # {}
      BY <1>1, <3>1
    <3>3. PICK i : i \in Bits[m \div 2]
      BY <3>2
    <3>4. i \in Nat
      BY <3>3, BitsOfHalf
    <3>5. i + 1 \in Bits[m]
      BY <3>3, <3>4, BitsOfHalf
    <3> QED
      BY <3>5
  <2> QED
    BY <2>1, <2>2
<1>2. Nat \subseteq S
  <2> HIDE DEF S
  <2> QED
    BY <1>1, StrongInduction
<1> QED
  BY <1>2

\* Indices of 256 bits.
IsIndex(k) == k \in Nat /\ k > 0 /\ Bits[k] \subseteq 0 .. WIDTH - 1

\* The depth of an index is one more than that of its parent.
LEMMA DepthOfHalf ==
  /\ Depth(1) = 0
  /\ \A k : IsIndex(k) => Depth(k) \in Nat
  /\ \A k : IsIndex(k) /\ k > 1 => IsIndex(k \div 2) /\ Depth(k) = Depth(k \div 2) + 1
<1>1. ASSUME NEW k, IsIndex(k)
      PROVE  Depth(k) \in Bits[k] /\ Depth(k) \in Nat /\ \A i \in Bits[k] : i <= Depth(k)
  <2> DEFINE B == Bits[k]
  <2>1. B # {}
    BY <1>1, BitsNonempty DEF IsIndex
  <2>2. \A i \in B : i \in 0 .. 255
    BY <1>1 DEF IsIndex, WIDTH
  <2>3. Depth(k) = Log2(B)
    BY DEF Depth
  <2> HIDE DEF B
  <2>4. Log2(B) = Max(B)
    <3>1. \A i \in B : i \in 0 .. WIDTH - 1
      BY <2>2 DEF WIDTH
    <3> QED
      BY <2>1, <3>1, Log2IsMax
  <2>5. 255 \in Nat
    OBVIOUS
  <2>6. Max(B) \in B /\ \A i \in B : i <= Max(B)
    BY <2>1, <2>2, <2>5, Greatest
  <2> QED
    BY <2>2, <2>3, <2>4, <2>6 DEF B
<1>2. ASSUME NEW k, IsIndex(k), k > 1
      PROVE  IsIndex(k \div 2) /\ Depth(k) = Depth(k \div 2) + 1
  <2> DEFINE h == k \div 2
  <2>0. k \in Nat /\ k > 0 /\ Bits[k] \subseteq 0 .. 255
    BY <1>2 DEF IsIndex, WIDTH
  <2>1. h \in Nat /\ h > 0
    BY <1>2, <2>0
  <2>2. \A i \in Nat : i + 1 \in Bits[k] <=> i \in Bits[h]
    BY <2>0, BitsOfHalf
  <2>3. Bits[h] \subseteq Nat
    BY <2>0, BitsOfHalf
  <2> HIDE DEF h
  <2>4. ASSUME NEW i \in Bits[h]
        PROVE  i \in 0 .. 255
    <3>1. i \in Nat /\ i + 1 \in Bits[k]
      BY <2>2, <2>3
    <3>2. i + 1 \in 0 .. 255
      BY <2>0, <3>1
    <3> QED
      BY <3>1, <3>2
  <2>5. IsIndex(h)
    BY <2>1, <2>4 DEF IsIndex, WIDTH
  <2> DEFINE d == Depth(h)
             e == Depth(k)
  <2>6. d \in Bits[h] /\ d \in Nat /\ \A i \in Bits[h] : i <= d
    BY <1>1, <2>5
  <2>7. e \in Bits[k] /\ e \in Nat /\ \A i \in Bits[k] : i <= e
    BY <1>1, <1>2
  <2> HIDE DEF d, e
  <2>8. d + 1 <= e
    BY <2>2, <2>6, <2>7
  <2>9. e - 1 <= d
    <3>1. e - 1 \in Nat /\ (e - 1) + 1 = e
      BY <2>6, <2>7, <2>8
    <3>2. e - 1 \in Bits[h]
      BY <2>2, <2>7, <3>1
    <3> QED
      BY <2>6, <3>2
  <2>10. e = d + 1
    BY <2>6, <2>7, <2>8, <2>9
  <2> QED
    BY <2>5, <2>10 DEF h, d, e
<1>3. Depth(1) = 0
  <2>1. 1 \div 2 = 0 /\ 1 % 2 = 1
    OBVIOUS
  <2>2. Bits[0] = {} /\ Bits[1] = { i + 1 : i \in Bits[1 \div 2] } \cup (IF 1 % 2 = 1 THEN {0} ELSE {})
    BY BitsValue
  <2>3. Bits[1] = {0}
    BY <2>1, <2>2
  <2>4. IsIndex(1)
    BY <2>3 DEF IsIndex, WIDTH
  <2>5. Depth(1) \in Bits[1]
    BY <1>1, <2>4
  <2> QED
    BY <2>3, <2>5
<1> QED
  BY <1>1, <1>2, <1>3

-----------------------------------------------------------------------------
(* Paths.                                                                  *)

\* A function whose value at a number is made of the one at its half.
IsHalving(f, V, v, F) ==
  /\ f \in [Nat -> V]
  /\ f[0] = v
  /\ \A n \in Nat : n > 0 => f[n] = F[<<n, f[n \div 2]>>]

\* Recursion by halves has a solution.
LEMMA Halving ==
  ASSUME NEW V, NEW v, NEW F, v \in V, F \in [Nat \X V -> V]
  PROVE  \E f : IsHalving(f, V, v, F)
<1> DEFINE p == [n \in Nat |-> n \div 2]
<1>1. p \in [Nat -> Nat] /\ \A n \in Nat : p[n] = n \div 2 /\ (n > 0 => p[n] < n)
  OBVIOUS
<1> HIDE DEF p
<1>2. IsRecursion(V, v, p, F)
  BY <1>1 DEF IsRecursion
<1>3. PICK f : Solves(f, V, v, p, F)
  BY <1>2, Recursion
<1>4. IsHalving(f, V, v, F)
  BY <1>1, <1>3 DEF IsHalving, Solves
<1> QED
  BY <1>4

\* The recursion of the loops: an index, then those of its parent.
LEMMA PathValue ==
  /\ \A k \in Nat : PathFrom[k] \in Seq(Nat)
  /\ \A k \in Nat : PathFrom[k] = IF k <= 1 THEN <<>> ELSE <<k>> \o PathFrom[k \div 2]
<1> DEFINE V == Seq(Nat)
           F == [x \in Nat \X V |-> IF x[1] <= 1 THEN <<>> ELSE <<x[1]>> \o x[2]]
           P(f) == f = [k \in Nat |-> IF k <= 1 THEN <<>> ELSE <<k>> \o f[Parent(k)]]
<1>1. F \in [Nat \X V -> V]
  OBVIOUS
<1>2. <<>> \in V
  OBVIOUS
<1>3. PICK f : IsHalving(f, V, <<>>, F)
  <2> HIDE DEF V, F
  <2> QED
    BY <1>1, <1>2, Halving
<1>4. \A k \in Nat, s \in V : F[<<k, s>>] = IF k <= 1 THEN <<>> ELSE <<k>> \o s
  OBVIOUS
<1>5. \A k \in Nat : f[k] \in V
  <2> HIDE DEF V, F
  <2> QED
    BY <1>3 DEF IsHalving
<1>6. ASSUME NEW k \in Nat
      PROVE  f[k] = IF k <= 1 THEN <<>> ELSE <<k>> \o f[Parent(k)]
  <2> HIDE DEF V, F
  <2>1. CASE k = 0
    BY <1>3, <2>1 DEF IsHalving
  <2>2. CASE k # 0
    <3>1. f[k] = F[<<k, f[k \div 2]>>]
      BY <1>3, <2>2 DEF IsHalving
    <3>2. k \div 2 \in Nat
      OBVIOUS
    <3>3. f[k \div 2] \in V
      BY <1>5, <3>2
    <3> QED
      BY <1>4, <3>1, <3>3 DEF Parent
  <2> QED
    BY <2>1, <2>2
<1>7. P(f)
  <2>1. f = [k \in Nat |-> f[k]]
    <3> HIDE DEF V, F
    <3> QED
      BY <1>3 DEF IsHalving
  <2> QED
    BY <1>6, <2>1
<1>8. PathFrom = CHOOSE g : P(g)
  BY DEF PathFrom
<1>9. P(PathFrom)
  <2> HIDE DEF P
  <2> QED
    BY <1>7, <1>8
<1>10. \A k \in Nat : PathFrom[k] = IF k <= 1 THEN <<>> ELSE <<k>> \o PathFrom[k \div 2]
  BY <1>9 DEF Parent
<1> DEFINE S == { k \in Nat : PathFrom[k] \in Seq(Nat) }
<1>11. ASSUME NEW k \in Nat, \A m \in Nat : m < k => m \in S
      PROVE  k \in S
  <2>1. CASE k <= 1
    <3>1. PathFrom[k] = <<>>
      BY <1>10, <2>1
    <3>2. <<>> \in Seq(Nat)
      OBVIOUS
    <3> QED
      BY <3>1, <3>2
  <2>2. CASE ~(k <= 1)
    <3>1. k \div 2 \in Nat /\ k \div 2 < k
      BY <2>2
    <3>2. PathFrom[k \div 2] \in Seq(Nat)
      BY <1>11, <3>1
    <3>3. PathFrom[k] = <<k>> \o PathFrom[k \div 2]
      BY <1>10, <2>2
    <3>4. \A t \in Seq(Nat) : <<k>> \o t \in Seq(Nat)
      BY <3>2
    <3> QED
      BY <3>2, <3>3, <3>4
  <2> QED
    BY <2>1, <2>2
<1>12. Nat \subseteq S
  <2> HIDE DEF S
  <2> QED
    BY <1>11, StrongInduction
<1> QED
  BY <1>10, <1>12

\* The branch: the sibling of an index, then the branch of its parent.
LEMMA BranchValue ==
  /\ \A k \in Nat : BranchFrom[k] \in Seq(Nat)
  /\ \A k \in Nat : BranchFrom[k] = IF k <= 1 THEN <<>> ELSE <<Sibling(k)>> \o BranchFrom[k \div 2]
<1> DEFINE V == Seq(Nat)
           F == [x \in Nat \X V |-> IF x[1] <= 1 THEN <<>> ELSE <<Sibling(x[1])>> \o x[2]]
           P(f) == f = [k \in Nat |-> IF k <= 1 THEN <<>> ELSE <<Sibling(k)>> \o f[Parent(k)]]
<1>1. \A k \in Nat : k > 1 => Sibling(k) \in Nat
  BY Siblings
<1>2. F \in [Nat \X V -> V]
  <2>1. ASSUME NEW x \in Nat \X V
        PROVE  F[x] \in V
    <3>1. CASE x[1] <= 1
      BY <3>1
    <3>2. CASE ~(x[1] <= 1)
      <4>1. Sibling(x[1]) \in Nat
        BY <1>1, <3>2
      <4> QED
        BY <3>2, <4>1
    <3> QED
      BY <3>1, <3>2
  <2>2. F = [x \in Nat \X V |-> F[x]]
    OBVIOUS
  <2> HIDE DEF F
  <2> QED
    BY <2>1, <2>2
<1>3. <<>> \in V
  OBVIOUS
<1>4. PICK f : IsHalving(f, V, <<>>, F)
  <2> HIDE DEF V, F
  <2> QED
    BY <1>2, <1>3, Halving
<1>5. \A k \in Nat, s \in V : F[<<k, s>>] = IF k <= 1 THEN <<>> ELSE <<Sibling(k)>> \o s
  OBVIOUS
<1>6. \A k \in Nat : f[k] \in V
  <2> HIDE DEF V, F
  <2> QED
    BY <1>4 DEF IsHalving
<1>7. ASSUME NEW k \in Nat
      PROVE  f[k] = IF k <= 1 THEN <<>> ELSE <<Sibling(k)>> \o f[Parent(k)]
  <2> HIDE DEF V, F
  <2>1. CASE k = 0
    BY <1>4, <2>1 DEF IsHalving
  <2>2. CASE k # 0
    <3>1. f[k] = F[<<k, f[k \div 2]>>]
      BY <1>4, <2>2 DEF IsHalving
    <3>2. k \div 2 \in Nat
      OBVIOUS
    <3>3. f[k \div 2] \in V
      BY <1>6, <3>2
    <3> QED
      BY <1>5, <3>1, <3>3 DEF Parent
  <2> QED
    BY <2>1, <2>2
<1>8. P(f)
  <2>1. f = [k \in Nat |-> f[k]]
    <3> HIDE DEF V, F
    <3> QED
      BY <1>4 DEF IsHalving
  <2> QED
    BY <1>7, <2>1
<1>9. BranchFrom = CHOOSE g : P(g)
  BY DEF BranchFrom
<1>10. P(BranchFrom)
  <2> HIDE DEF P
  <2> QED
    BY <1>8, <1>9
<1>11. \A k \in Nat : BranchFrom[k] = IF k <= 1 THEN <<>> ELSE <<Sibling(k)>> \o BranchFrom[k \div 2]
  BY <1>10 DEF Parent
<1> DEFINE S == { k \in Nat : BranchFrom[k] \in Seq(Nat) }
<1>12. ASSUME NEW k \in Nat, \A m \in Nat : m < k => m \in S
      PROVE  k \in S
  <2>1. CASE k <= 1
    <3>1. BranchFrom[k] = <<>>
      BY <1>11, <2>1
    <3>2. <<>> \in Seq(Nat)
      OBVIOUS
    <3> QED
      BY <3>1, <3>2
  <2>2. CASE ~(k <= 1)
    <3>1. k \div 2 \in Nat /\ k \div 2 < k
      BY <2>2
    <3>2. BranchFrom[k \div 2] \in Seq(Nat) /\ Sibling(k) \in Nat
      BY <1>1, <1>12, <2>2, <3>1
    <3>3. BranchFrom[k] = <<Sibling(k)>> \o BranchFrom[k \div 2]
      BY <1>11, <2>2
    <3>4. \A t \in Seq(Nat) : <<Sibling(k)>> \o t \in Seq(Nat)
      BY <3>2
    <3> QED
      BY <3>2, <3>3, <3>4
  <2> QED
    BY <2>1, <2>2
<1>13. Nat \subseteq S
  <2> HIDE DEF S
  <2> QED
    BY <1>12, StrongInduction
<1> QED
  BY <1>11, <1>13

\* The ancestors: the parent of an index and the ancestors of this.
LEMMA AncestorsValue ==
  /\ \A k \in Nat : Ancestors[k] \in SUBSET Nat
  /\ \A k \in Nat : Ancestors[k] = IF k <= 1 THEN {} ELSE {k \div 2} \cup Ancestors[k \div 2]
<1> DEFINE V == SUBSET Nat
           F == [x \in Nat \X V |-> IF x[1] <= 1 THEN {} ELSE {x[1] \div 2} \cup x[2]]
           P(f) == f = [k \in Nat |-> IF k <= 1 THEN {} ELSE {Parent(k)} \cup f[Parent(k)]]
<1>1. F \in [Nat \X V -> V]
  OBVIOUS
<1>2. {} \in V
  OBVIOUS
<1>3. PICK f : IsHalving(f, V, {}, F)
  <2> HIDE DEF V, F
  <2> QED
    BY <1>1, <1>2, Halving
<1>4. \A k \in Nat, s \in V : F[<<k, s>>] = IF k <= 1 THEN {} ELSE {k \div 2} \cup s
  OBVIOUS
<1>5. \A k \in Nat : f[k] \in V
  <2> HIDE DEF V, F
  <2> QED
    BY <1>3 DEF IsHalving
<1>6. ASSUME NEW k \in Nat
      PROVE  f[k] = IF k <= 1 THEN {} ELSE {Parent(k)} \cup f[Parent(k)]
  <2> HIDE DEF V, F
  <2>1. CASE k = 0
    BY <1>3, <2>1 DEF IsHalving
  <2>2. CASE k # 0
    <3>1. f[k] = F[<<k, f[k \div 2]>>]
      BY <1>3, <2>2 DEF IsHalving
    <3>2. k \div 2 \in Nat
      OBVIOUS
    <3>3. f[k \div 2] \in V
      BY <1>5, <3>2
    <3> QED
      BY <1>4, <3>1, <3>3 DEF Parent
  <2> QED
    BY <2>1, <2>2
<1>7. P(f)
  <2>1. f = [k \in Nat |-> f[k]]
    <3> HIDE DEF V, F
    <3> QED
      BY <1>3 DEF IsHalving
  <2> QED
    BY <1>6, <2>1
<1>8. Ancestors = CHOOSE g : P(g)
  BY DEF Ancestors
<1>9. P(Ancestors)
  <2> HIDE DEF P
  <2> QED
    BY <1>7, <1>8
<1>10. \A k \in Nat : Ancestors[k] = IF k <= 1 THEN {} ELSE {k \div 2} \cup Ancestors[k \div 2]
  BY <1>9 DEF Parent
<1> DEFINE S == { k \in Nat : Ancestors[k] \in SUBSET Nat }
<1>11. ASSUME NEW k \in Nat, \A m \in Nat : m < k => m \in S
      PROVE  k \in S
  <2>1. CASE k <= 1
    <3>1. Ancestors[k] = {}
      BY <1>10, <2>1
    <3>2. {} \in SUBSET Nat
      OBVIOUS
    <3> QED
      BY <3>1, <3>2
  <2>2. CASE ~(k <= 1)
    <3>1. k \div 2 \in Nat /\ k \div 2 < k
      BY <2>2
    <3>2. Ancestors[k \div 2] \in SUBSET Nat
      BY <1>11, <3>1
    <3> QED
      BY <1>10, <2>2, <3>1, <3>2
  <2> QED
    BY <2>1, <2>2
<1>12. Nat \subseteq S
  <2> HIDE DEF S
  <2> QED
    BY <1>11, StrongInduction
<1> QED
  BY <1>10, <1>12

\* The node i levels above node k.
Above(k, i) == IF i < Depth(k) THEN PathFrom[k][i + 1] ELSE 1

\* The path of an index leads from it to below the root, the branch has the siblings
\* along it, and the bits of the index are the sides.
Climbs(k) ==
  /\ Len(PathFrom[k]) = Depth(k) /\ Len(BranchFrom[k]) = Depth(k)
  /\ Above(k, 0) = k /\ Above(k, Depth(k)) = 1
  /\ \A i \in 0 .. Depth(k) - 1 :
       /\ Above(k, i) \in Nat /\ Above(k, i) > 1
       /\ Above(k, i + 1) = Above(k, i) \div 2
       /\ BranchFrom[k][i + 1] = Sibling(Above(k, i))
       /\ i \in Bits[k] <=> Above(k, i) % 2 = 1

\* It is so for every index.
LEMMA PathClimbs ==
  ASSUME NEW k, IsIndex(k)
  PROVE  Climbs(k)
<1> DEFINE S == { m \in Nat : IsIndex(m) => Climbs(m) }
<1>1. ASSUME NEW m \in Nat, \A j \in Nat : j < m => j \in S
      PROVE  m \in S
  <2> SUFFICES ASSUME IsIndex(m) PROVE Climbs(m)
    OBVIOUS
  <2>1. CASE m <= 1
    <3>1. m = 1
      BY <2>1 DEF IsIndex
    <3>2. Depth(1) = 0
      BY DepthOfHalf
    <3>3. PathFrom[1] = <<>> /\ BranchFrom[1] = <<>>
      <4>1. 1 \in Nat /\ 1 <= 1
        OBVIOUS
      <4>2. PathFrom[1] = IF 1 <= 1 THEN <<>> ELSE <<1>> \o PathFrom[1 \div 2]
        BY <4>1, PathValue, Zenon
      <4>3. BranchFrom[1] = IF 1 <= 1 THEN <<>> ELSE <<Sibling(1)>> \o BranchFrom[1 \div 2]
        BY <4>1, BranchValue, Zenon
      <4> QED
        BY <4>1, <4>2, <4>3, Zenon
    <3>4. Len(PathFrom[1]) = 0 /\ Len(BranchFrom[1]) = 0
      BY <3>3
    <3> QED
      BY <3>1, <3>2, <3>4 DEF Climbs, Above
  <2>2. CASE ~(m <= 1)
    <3> DEFINE h == m \div 2
               n == Depth(h)
               q == PathFrom[m]
               b == BranchFrom[m]
               q1 == PathFrom[h]
               b1 == BranchFrom[h]
    <3>1. h \in Nat /\ h < m /\ h > 0 /\ h = m \div 2 /\ m \in Nat /\ m > 1
      BY <2>2
    <3>2. IsIndex(h) /\ n \in Nat /\ Depth(m) = n + 1
      BY <2>2, DepthOfHalf
    <3>3. Climbs(h)
      BY <1>1, <3>1, <3>2
    <3>4. q1 \in Seq(Nat) /\ b1 \in Seq(Nat) /\ q = <<m>> \o q1 /\ b = <<Sibling(m)>> \o b1
      BY <2>2, <3>1, PathValue, BranchValue
    <3>5. Len(q1) = n /\ Len(b1) = n
      BY <3>3 DEF Climbs
    <3>6. Sibling(m) \in Nat
      BY <3>1, Siblings
    <3> HIDE DEF h, n, q, b, q1, b1
    <3>7. Len(q) = n + 1 /\ q[1] = m /\ \A i \in 1 .. n : q[i + 1] = q1[i]
      BY <3>1, <3>2, <3>4, <3>5
    <3>8. Len(b) = n + 1 /\ b[1] = Sibling(m) /\ \A i \in 1 .. n : b[i + 1] = b1[i]
      BY <3>2, <3>4, <3>5, <3>6
    <3>9. \A i : Above(m, i) = IF i < n + 1 THEN q[i + 1] ELSE 1
      BY <3>2 DEF Above, q
    <3>10. \A i : Above(h, i) = IF i < n THEN q1[i + 1] ELSE 1
      BY DEF Above, q1, n
    <3>11. Above(m, 0) = m
      BY <3>2, <3>7, <3>9
    <3>12. ASSUME NEW i \in 0 .. n
           PROVE  Above(m, i + 1) = Above(h, i)
      <4>1. CASE i < n
        <5>1. i + 1 \in 1 .. n /\ i + 1 < n + 1
          BY <3>2, <4>1
        <5>2. q[(i + 1) + 1] = q1[i + 1]
          BY <3>7, <5>1
        <5> QED
          BY <3>9, <3>10, <4>1, <5>1, <5>2
      <4>2. CASE ~(i < n)
        <5>1. ~(i + 1 < n + 1)
          BY <3>2, <4>2
        <5> QED
          BY <3>9, <3>10, <4>2, <5>1
      <4> QED
        BY <4>1, <4>2
    <3>13. /\ Above(h, 0) = h /\ Above(h, n) = 1
           /\ \A i \in 0 .. n - 1 :
                /\ Above(h, i) \in Nat /\ Above(h, i) > 1
                /\ Above(h, i + 1) = Above(h, i) \div 2
                /\ b1[i + 1] = Sibling(Above(h, i))
                /\ i \in Bits[h] <=> Above(h, i) % 2 = 1
      BY <3>3 DEF Climbs, n, b1
    <3>14. \A i \in Nat : i + 1 \in Bits[m] <=> i \in Bits[h]
      BY <3>1, BitsOfHalf
    <3>15. 0 \in Bits[m] <=> m % 2 = 1
      BY <3>1, BitsOfHalf
    <3>16. ASSUME NEW i \in 0 .. (n + 1) - 1
           PROVE  /\ Above(m, i) \in Nat /\ Above(m, i) > 1
                  /\ Above(m, i + 1) = Above(m, i) \div 2
                  /\ b[i + 1] = Sibling(Above(m, i))
                  /\ i \in Bits[m] <=> Above(m, i) % 2 = 1
      <4>1. CASE i = 0
        <5>1. Above(m, 0 + 1) = Above(h, 0)
          BY <3>2, <3>12
        <5>2. Above(m, 1) = h
          BY <3>13, <5>1
        <5> QED
          BY <3>1, <3>8, <3>11, <3>15, <4>1, <5>2
      <4>2. CASE i # 0
        <5> DEFINE j == i - 1
        <5>1. j \in 0 .. n - 1 /\ j \in Nat /\ i = j + 1 /\ j + 1 \in 0 .. n /\ j \in 0 .. n
          BY <3>2, <4>2
        <5> HIDE DEF j
        <5>2. Above(m, j + 1) = Above(h, j)
          BY <3>12, <5>1
        <5>3. Above(m, (j + 1) + 1) = Above(h, j + 1)
          BY <3>12, <5>1
        <5>4. b[(j + 1) + 1] = b1[j + 1]
          <6>1. j + 1 \in 1 .. n
            BY <3>2, <5>1
          <6> QED
            BY <3>8, <6>1
        <5>5. j + 1 \in Bits[m] <=> j \in Bits[h]
          BY <3>14, <5>1
        <5>6. /\ Above(h, j) \in Nat /\ Above(h, j) > 1
              /\ Above(h, j + 1) = Above(h, j) \div 2
              /\ b1[j + 1] = Sibling(Above(h, j))
              /\ j \in Bits[h] <=> Above(h, j) % 2 = 1
          BY <3>13, <5>1
        <5>7. i = j + 1
          BY <5>1
        <5> QED
          BY <5>2, <5>3, <5>4, <5>5, <5>6, <5>7
      <4> QED
        BY <4>1, <4>2
    <3>17. Above(m, n + 1) = 1
      BY <3>2, <3>12, <3>13
    <3> QED
      BY <3>2, <3>7, <3>8, <3>11, <3>16, <3>17 DEF Climbs, q, b
  <2> QED
    BY <2>1, <2>2
<1>2. Nat \subseteq S
  <2> HIDE DEF S
  <2> QED
    BY <1>1, StrongInduction
<1> QED
  BY <1>2 DEF IsIndex

-----------------------------------------------------------------------------
(* Trees, and the proof of one value.                                      *)

\* A node is the hash of its two children.
LEMMA TreeNodes ==
  ASSUME NEW tree, IsTree(tree), NEW k \in DOMAIN tree
  PROVE  /\ k \in Nat /\ k > 0 /\ tree[k] # Reverted /\ 1 \in DOMAIN tree
         /\ k > 1 => /\ Sibling(k) \in DOMAIN tree /\ k \div 2 \in DOMAIN tree
                     /\ tree[k \div 2] = IF k % 2 = 1 THEN Hash(tree[Sibling(k)], tree[k])
                                         ELSE Hash(tree[k], tree[Sibling(k)])
<1>1. k \in Nat /\ k > 0 /\ tree[k] # Reverted /\ 1 \in DOMAIN tree
  BY DEF IsTree
<1>2. ASSUME k > 1
      PROVE  /\ Sibling(k) \in DOMAIN tree /\ k \div 2 \in DOMAIN tree
             /\ tree[k \div 2] = IF k % 2 = 1 THEN Hash(tree[Sibling(k)], tree[k])
                                 ELSE Hash(tree[k], tree[Sibling(k)])
  <2>1. /\ Sibling(k) \in DOMAIN tree /\ k \div 2 \in DOMAIN tree
        /\ tree[k \div 2] = HashOfPair(tree, k)
    BY <1>2 DEF IsTree, Parent
  <2>2. k % 2 \in {0, 1}
    BY <1>1
  <2>3. CASE k % 2 = 1
    <3>1. k - (k % 2) = Sibling(k) /\ k - (k % 2) + 1 = k
      BY <1>1, <2>3 DEF Sibling
    <3>2. HashOfPair(tree, k) = Hash(Get(tree, Sibling(k), ZERO), Get(tree, k, ZERO))
      BY <3>1 DEF HashOfPair
    <3> QED
      BY <2>1, <2>3, <3>2 DEF Get
  <2>4. CASE k % 2 = 0
    <3>1. k - (k % 2) = k /\ k - (k % 2) + 1 = Sibling(k)
      BY <1>1, <2>4 DEF Sibling
    <3>2. HashOfPair(tree, k) = Hash(Get(tree, k, ZERO), Get(tree, Sibling(k), ZERO))
      BY <3>1 DEF HashOfPair
    <3> QED
      BY <2>1, <2>4, <3>2 DEF Get
  <2> QED
    BY <2>1, <2>2, <2>3, <2>4
<1> QED
  BY <1>1, <1>2

\* Equal hashes are hashes of the same.
LEMMA HashIsInjective ==
  ASSUME NEW a, NEW b, NEW c, NEW d, Hash(a, b) = Hash(c, d)
  PROVE  a = c /\ b = d
BY DEF Hash

\* The nodes of a path are nodes of the tree.
LEMMA PathInTree ==
  ASSUME NEW tree, IsTree(tree), NEW k \in DOMAIN tree, IsIndex(k)
  PROVE  \A i \in 0 .. Depth(k) : Above(k, i) \in DOMAIN tree
<1> DEFINE n == Depth(k)
           S == { i \in 0 .. n : Above(k, i) \in DOMAIN tree }
<1>1. n \in Nat
  BY DepthOfHalf
<1>2. Climbs(k)
  BY PathClimbs
<1>3. 0 \in S
  BY <1>1, <1>2 DEF Climbs
<1>4. ASSUME NEW i \in 0 .. n - 1, i \in S
      PROVE  i + 1 \in S
  <2>1. Above(k, i) > 1 /\ Above(k, i + 1) = Above(k, i) \div 2
    BY <1>2 DEF Climbs
  <2>2. Above(k, i) \div 2 \in DOMAIN tree
    BY <1>4, <2>1, TreeNodes
  <2> QED
    BY <1>1, <2>1, <2>2
<1>5. 0 .. n \subseteq S
  <2> HIDE DEF S, n
  <2> QED
    BY <1>1, <1>3, <1>4, BoundedInduction
<1> QED
  BY <1>5

\* The node computed from the first i items of a proof.
IsFold(nd, proof, leaf, k) ==
  /\ nd[0] = leaf
  /\ \A i \in 1 .. Len(proof) :
       nd[i] = IF i - 1 \in Bits[k] THEN Hash(proof[i], nd[i - 1]) ELSE Hash(nd[i - 1], proof[i])

\* calculateMerkleRoot returns the node after the last item of a proof of the right length.
LEMMA FoldValue ==
  ASSUME NEW proof, Len(proof) \in Nat, NEW leaf, NEW k
  PROVE  \E nd : /\ IsFold(nd, proof, leaf, k)
                 /\ CalculateMerkleRoot(proof, leaf, k)
                      = IF k = 0 \/ Len(proof) # Depth(k) THEN Reverted ELSE nd[Len(proof)]
<1> DEFINE m == Len(proof)
           P(j, g) == g = [ i \in 0 .. j |->
                              IF i = 0 THEN leaf
                              ELSE IF i - 1 \in Bits[k]
                                   THEN Hash(proof[i], g[i - 1]) ELSE Hash(g[i - 1], proof[i]) ]
           S == { j \in Nat : \E g : P(j, g) }
<1>1. 0 \in S
  <2>1. P(0, [i \in 0 .. 0 |-> leaf])
    OBVIOUS
  <2> QED
    BY <2>1
<1>2. ASSUME NEW j \in Nat, j \in S
      PROVE  j + 1 \in S
  <2>1. PICK g : P(j, g)
    BY <1>2
  <2> DEFINE w == IF j \in Bits[k]
                  THEN Hash(proof[j + 1], g[j]) ELSE Hash(g[j], proof[j + 1])
             h == [i \in 0 .. j + 1 |-> IF i = j + 1 THEN w ELSE g[i]]
  <2>2. \A i \in 0 .. j : h[i] = g[i]
    OBVIOUS
  <2>3. h[j + 1] = w
    OBVIOUS
  <2>4. ASSUME NEW i \in 0 .. j + 1
        PROVE  h[i] = IF i = 0 THEN leaf
                      ELSE IF i - 1 \in Bits[k]
                           THEN Hash(proof[i], h[i - 1]) ELSE Hash(h[i - 1], proof[i])
    <3> HIDE DEF h
    <3>1. CASE i = j + 1
      <4>1. h[i - 1] = g[j] /\ i - 1 = j /\ i # 0
        BY <2>2, <3>1
      <4> QED
        BY <2>3, <3>1, <4>1
    <3>2. CASE i # j + 1
      <4>1. i \in 0 .. j /\ (i # 0 => i - 1 \in 0 .. j)
        BY <3>2
      <4>2. g[i] = IF i = 0 THEN leaf
                   ELSE IF i - 1 \in Bits[k]
                        THEN Hash(proof[i], g[i - 1]) ELSE Hash(g[i - 1], proof[i])
        BY <2>1, <4>1
      <4> QED
        BY <2>2, <4>1, <4>2
    <3> QED
      BY <3>1, <3>2
  <2>5. h = [i \in 0 .. j + 1 |-> h[i]]
    OBVIOUS
  <2> HIDE DEF h
  <2>6. P(j + 1, h)
    BY <2>4, <2>5
  <2> HIDE DEF P
  <2> QED
    BY <2>6
<1>3. Nat \subseteq S
  <2> HIDE DEF S
  <2> QED
    BY <1>1, <1>2, Induction
<1> DEFINE nd == CHOOSE g : P(m, g)
<1>4. P(m, nd)
  <2>1. \E g : P(m, g)
    BY <1>3
  <2> HIDE DEF P
  <2> QED
    BY <2>1
<1>5. CalculateMerkleRoot(proof, leaf, k)
        = IF k = 0 \/ m # Depth(k) THEN Reverted ELSE nd[m]
  BY DEF CalculateMerkleRoot
<1> HIDE DEF nd
<1>6. IsFold(nd, proof, leaf, k)
  BY <1>4 DEF IsFold
<1> QED
  BY <1>5, <1>6

\* The fold reaches the nodes of the path exactly as long as it started with the
\* node of the index and all items were siblings of the path.
LEMMA FoldClimbs ==
  ASSUME NEW tree, IsTree(tree), NEW k \in DOMAIN tree, IsIndex(k),
         NEW proof, NEW leaf, NEW nd, IsFold(nd, proof, leaf, k), Len(proof) = Depth(k)
  PROVE  nd[Depth(k)] = tree[1]
           <=> leaf = tree[k] /\ \A i \in 1 .. Depth(k) : proof[i] = tree[BranchFrom[k][i]]
<1> DEFINE n == Depth(k)
           Right(j) == nd[j] = tree[Above(k, j)]
           Siblings1(j) == \A i \in 1 .. j : proof[i] = tree[BranchFrom[k][i]]
           S == { j \in 0 .. n : Right(j) <=> leaf = tree[k] /\ Siblings1(j) }
<1>1. n \in Nat
  BY DepthOfHalf
<1>2. Climbs(k)
  BY PathClimbs
<1>3. 0 \in S
  BY <1>1, <1>2 DEF Climbs, IsFold
<1>4. ASSUME NEW j \in 0 .. n - 1, j \in S
      PROVE  j + 1 \in S
  <2> DEFINE q == Above(k, j)
             item == proof[j + 1]
             sib == Sibling(q)
  <2>1. /\ q \in Nat /\ q > 1 /\ Above(k, j + 1) = q \div 2
        /\ BranchFrom[k][j + 1] = sib
        /\ j \in Bits[k] <=> q % 2 = 1
    BY <1>2 DEF Climbs
  <2>2. q \in DOMAIN tree
    BY <1>1, PathInTree
  <2>3. tree[q \div 2] = IF q % 2 = 1 THEN Hash(tree[sib], tree[q])
                         ELSE Hash(tree[q], tree[sib])
    BY <2>1, <2>2, TreeNodes
  <2>4. nd[j + 1] = IF j \in Bits[k] THEN Hash(item, nd[j]) ELSE Hash(nd[j], item)
    <3>1. j + 1 \in 1 .. Len(proof) /\ (j + 1) - 1 = j
      BY <1>1
    <3> QED
      BY <3>1 DEF IsFold
  <2> HIDE DEF q, item, sib
  <2>5. nd[j + 1] = tree[q \div 2] <=> nd[j] = tree[q] /\ item = tree[sib]
    <3>1. CASE q % 2 = 1
      BY <2>1, <2>3, <2>4, <3>1, HashIsInjective
    <3>2. CASE q % 2 # 1
      BY <2>1, <2>3, <2>4, <3>2, HashIsInjective
    <3> QED
      BY <3>1, <3>2
  <2>6. Right(j + 1) <=> Right(j) /\ item = tree[sib]
    BY <2>1, <2>5 DEF q
  <2>7. Siblings1(j + 1) <=> Siblings1(j) /\ item = tree[sib]
    <3>1. 1 .. j + 1 = (1 .. j) \cup {j + 1}
      BY <1>1
    <3> QED
      BY <2>1, <3>1 DEF item
  <2>8. Right(j) <=> leaf = tree[k] /\ Siblings1(j)
    BY <1>4
  <2>9. j + 1 \in 0 .. n
    BY <1>1
  <2> HIDE DEF Right, Siblings1
  <2> QED
    BY <2>6, <2>7, <2>8, <2>9
<1>5. 0 .. n \subseteq S
  <2> HIDE DEF S, n
  <2> QED
    BY <1>1, <1>3, <1>4, BoundedInduction
<1>6. Above(k, n) = 1
  BY <1>2 DEF Climbs
<1>7. n \in 0 .. n
  BY <1>1
<1> QED
  BY <1>5, <1>6, <1>7

\* The proof of one value is exact.
THEOREM SingleProofExact ==
  ASSUME NEW tree, IsTree(tree), NEW k \in DOMAIN tree, IsIndex(k),
         NEW T, NEW proof \in Seq(T), NEW leaf
  PROVE  CalculateMerkleRoot(proof, leaf, k) = tree[1]
           <=> leaf = tree[k] /\ proof = NodesOf(tree, GetBranchIndices(k))
<1> DEFINE n == Depth(k)
           b == BranchFrom[k]
<1>0. Len(proof) \in Nat /\ k # 0 /\ n \in Nat /\ proof = [i \in 1 .. Len(proof) |-> proof[i]]
  BY DepthOfHalf DEF IsIndex
<1>1. PICK nd : /\ IsFold(nd, proof, leaf, k)
                /\ CalculateMerkleRoot(proof, leaf, k)
                     = IF k = 0 \/ Len(proof) # n THEN Reverted ELSE nd[Len(proof)]
  BY <1>0, FoldValue
<1>2. b \in Seq(Nat) /\ Len(b) = n
  BY PathClimbs, BranchValue DEF Climbs, IsIndex
<1>3. NodesOf(tree, GetBranchIndices(k)) = [i \in 1 .. n |-> tree[b[i]]]
  BY <1>2 DEF NodesOf, GetBranchIndices
<1>4. tree[1] # Reverted
  BY TreeNodes
<1>5. CASE Len(proof) # n
  <2>1. CalculateMerkleRoot(proof, leaf, k) # tree[1]
    BY <1>1, <1>4, <1>5
  <2>2. DOMAIN proof = 1 .. Len(proof) /\ DOMAIN NodesOf(tree, GetBranchIndices(k)) = 1 .. n
    BY <1>3
  <2>3. 1 .. Len(proof) # 1 .. n
    <3>1. Len(proof) < n \/ n < Len(proof)
      BY <1>0, <1>5
    <3>2. CASE Len(proof) < n
      <4>1. n \in 1 .. n /\ n \notin 1 .. Len(proof)
        BY <1>0, <3>2
      <4> QED
        BY <4>1
    <3>3. CASE n < Len(proof)
      <4>1. Len(proof) \notin 1 .. n /\ Len(proof) \in 1 .. Len(proof)
        BY <1>0, <3>3
      <4> QED
        BY <4>1
    <3> QED
      BY <3>1, <3>2, <3>3
  <2> QED
    BY <2>1, <2>2, <2>3
<1>6. CASE Len(proof) = n
  <2>1. CalculateMerkleRoot(proof, leaf, k) = nd[n]
    BY <1>0, <1>1, <1>6
  <2>2. nd[n] = tree[1] <=> leaf = tree[k] /\ \A i \in 1 .. n : proof[i] = tree[b[i]]
    BY <1>1, <1>6, FoldClimbs
  <2>3. proof = [i \in 1 .. n |-> tree[b[i]]] <=> \A i \in 1 .. n : proof[i] = tree[b[i]]
    BY <1>0, <1>6
  <2> QED
    BY <1>3, <2>1, <2>2, <2>3
<1> QED
  BY <1>5, <1>6

\* What the loop of SSZ.sol has after i items.
IsWalk(at, proof, leaf, k) ==
  /\ at[0] = [node |-> leaf, index |-> k]
  /\ \A i \in 1 .. Len(proof) :
       at[i] = [ node  |-> IF at[i - 1].index % 2 = 1 THEN Hash(proof[i], at[i - 1].node)
                           ELSE Hash(at[i - 1].node, proof[i]),
                 index |-> at[i - 1].index \div 2 ]

\* verifyProof compares what its loop has at the end.
LEMMA WalkValue ==
  ASSUME NEW proof, Len(proof) \in Nat, NEW root, NEW leaf, NEW k
  PROVE  \E at : /\ IsWalk(at, proof, leaf, k)
                 /\ VerifyProof(proof, root, leaf, k)
                      <=> at[Len(proof)].index = 1 /\ at[Len(proof)].node = root
<1> DEFINE m == Len(proof)
           Next(s, item) == [ node  |-> IF s.index % 2 = 1 THEN Hash(item, s.node)
                                        ELSE Hash(s.node, item),
                              index |-> s.index \div 2 ]
           P(j, g) == g = [ i \in 0 .. j |->
                              IF i = 0 THEN [node |-> leaf, index |-> k]
                              ELSE Next(g[i - 1], proof[i]) ]
           S == { j \in Nat : \E g : P(j, g) }
<1>1. 0 \in S
  <2>1. P(0, [i \in 0 .. 0 |-> [node |-> leaf, index |-> k]])
    OBVIOUS
  <2> QED
    BY <2>1
<1>2. ASSUME NEW j \in Nat, j \in S
      PROVE  j + 1 \in S
  <2>1. PICK g : P(j, g)
    BY <1>2
  <2> DEFINE w == Next(g[j], proof[j + 1])
             h == [i \in 0 .. j + 1 |-> IF i = j + 1 THEN w ELSE g[i]]
  <2>2. \A i \in 0 .. j : h[i] = g[i]
    OBVIOUS
  <2>3. h[j + 1] = w
    OBVIOUS
  <2>4. ASSUME NEW i \in 0 .. j + 1
        PROVE  h[i] = IF i = 0 THEN [node |-> leaf, index |-> k] ELSE Next(h[i - 1], proof[i])
    <3> HIDE DEF h
    <3>1. CASE i = j + 1
      <4>1. h[i - 1] = g[j] /\ i - 1 = j /\ i # 0
        BY <2>2, <3>1
      <4> QED
        BY <2>3, <3>1, <4>1
    <3>2. CASE i # j + 1
      <4>1. i \in 0 .. j /\ (i # 0 => i - 1 \in 0 .. j)
        BY <3>2
      <4>2. g[i] = IF i = 0 THEN [node |-> leaf, index |-> k] ELSE Next(g[i - 1], proof[i])
        BY <2>1, <4>1
      <4> QED
        BY <2>2, <4>1, <4>2
    <3> QED
      BY <3>1, <3>2
  <2>5. h = [i \in 0 .. j + 1 |-> h[i]]
    OBVIOUS
  <2> HIDE DEF h
  <2>6. P(j + 1, h)
    BY <2>4, <2>5
  <2> HIDE DEF P
  <2> QED
    BY <2>6
<1>3. Nat \subseteq S
  <2> HIDE DEF S
  <2> QED
    BY <1>1, <1>2, Induction
<1> DEFINE at == CHOOSE g : P(m, g)
<1>4. P(m, at)
  <2>1. \E g : P(m, g)
    BY <1>3
  <2> HIDE DEF P
  <2> QED
    BY <2>1
<1>5. VerifyProof(proof, root, leaf, k) <=> at[m].index = 1 /\ at[m].node = root
  BY DEF VerifyProof
<1> HIDE DEF at
<1>6. IsWalk(at, proof, leaf, k)
  <2>0. m \in Nat
    OBVIOUS
  <2> HIDE DEF m
  <2>1. at[0] = [node |-> leaf, index |-> k]
    BY <1>4, <2>0
  <2>2. ASSUME NEW i \in 1 .. m
        PROVE  at[i] = Next(at[i - 1], proof[i])
    <3>1. i \in 0 .. m /\ i # 0
      BY <2>0
    <3> HIDE DEF Next
    <3> QED
      BY <1>4, <3>1
  <2> QED
    BY <2>1, <2>2 DEF IsWalk, m
<1> QED
  BY <1>5, <1>6

\* Up to the root the walk has the nodes of the fold and the indices of the path.
LEMMA WalkClimbs ==
  ASSUME NEW k, IsIndex(k), NEW proof, Len(proof) \in Nat, NEW leaf,
         NEW nd, IsFold(nd, proof, leaf, k), NEW at, IsWalk(at, proof, leaf, k)
  PROVE  \A j \in 0 .. Len(proof) :
           /\ j <= Depth(k) => at[j].node = nd[j] /\ at[j].index = Above(k, j)
           /\ j > Depth(k) => at[j].index = 0
<1> DEFINE n == Depth(k)
           m == Len(proof)
           Walked(j) == /\ j <= n => at[j].node = nd[j] /\ at[j].index = Above(k, j)
                        /\ j > n => at[j].index = 0
           S == { j \in 0 .. m : Walked(j) }
<1>1. n \in Nat /\ m \in Nat
  BY DepthOfHalf
<1>2. Climbs(k)
  BY PathClimbs
<1>3. 0 \in S
  <2>1. Above(k, 0) = k
    BY <1>2 DEF Climbs
  <2>2. at[0] = [node |-> leaf, index |-> k] /\ nd[0] = leaf
    BY DEF IsWalk, IsFold
  <2>3. at[0].node = nd[0] /\ at[0].index = Above(k, 0)
    BY <2>1, <2>2
  <2>4. 0 <= n /\ ~(0 > n) /\ 0 \in 0 .. m
    BY <1>1
  <2> QED
    BY <2>3, <2>4
<1>4. ASSUME NEW j \in 0 .. m - 1, j \in S
      PROVE  j + 1 \in S
  <2>0. j + 1 \in 1 .. m /\ (j + 1) - 1 = j /\ j + 1 \in 0 .. m /\ j \in Nat
    BY <1>1
  <2>1. /\ at[j + 1].node = IF at[j].index % 2 = 1 THEN Hash(proof[j + 1], at[j].node)
                            ELSE Hash(at[j].node, proof[j + 1])
        /\ at[j + 1].index = at[j].index \div 2
    <3> DEFINE i == j + 1
    <3>1. i \in 1 .. m /\ i - 1 = j /\ i = j + 1
      BY <2>0
    <3> HIDE DEF i
    <3>2. at[i] = [ node  |-> IF at[i - 1].index % 2 = 1 THEN Hash(proof[i], at[i - 1].node)
                              ELSE Hash(at[i - 1].node, proof[i]),
                    index |-> at[i - 1].index \div 2 ]
      BY <3>1 DEF IsWalk
    <3>3. at[i] = [ node  |-> IF at[j].index % 2 = 1 THEN Hash(proof[i], at[j].node)
                              ELSE Hash(at[j].node, proof[i]),
                    index |-> at[j].index \div 2 ]
      BY <3>1, <3>2
    <3> QED
      BY <3>1, <3>3
  <2>2. nd[j + 1] = IF j \in Bits[k] THEN Hash(proof[j + 1], nd[j]) ELSE Hash(nd[j], proof[j + 1])
    BY <2>0 DEF IsFold
  <2>3. Walked(j)
    BY <1>4
  <2>4. CASE j < n
    <3>1. j \in 0 .. n - 1 /\ j + 1 <= n /\ j <= n
      BY <1>1, <2>0, <2>4
    <3>2. Above(k, j + 1) = Above(k, j) \div 2 /\ (j \in Bits[k] <=> Above(k, j) % 2 = 1)
      BY <1>2, <3>1 DEF Climbs
    <3>3. at[j].node = nd[j] /\ at[j].index = Above(k, j)
      BY <2>3, <3>1
    <3>4. at[j + 1].node = nd[j + 1] /\ at[j + 1].index = Above(k, j + 1)
      BY <2>1, <2>2, <3>2, <3>3
    <3> QED
      BY <1>1, <2>0, <3>1, <3>4
  <2>5. CASE ~(j < n)
    <3>1. at[j].index \in {0, 1}
      <4>1. CASE j = n
        <5>1. Above(k, n) = 1
          BY <1>2 DEF Climbs
        <5> QED
          BY <1>1, <2>3, <4>1, <5>1
      <4>2. CASE j # n
        BY <1>1, <2>0, <2>3, <2>5, <4>2
      <4> QED
        BY <4>1, <4>2
    <3>2. at[j + 1].index = 0
      BY <2>1, <3>1
    <3>3. ~(j + 1 <= n)
      BY <1>1, <2>0, <2>5
    <3> QED
      BY <2>0, <3>2, <3>3
  <2> QED
    BY <2>4, <2>5
<1>5. 0 .. m \subseteq S
  <2> HIDE DEF S, m
  <2> QED
    BY <1>1, <1>3, <1>4, BoundedInduction
<1> QED
  BY <1>5

\* The verification of SSZ.sol accepts what the one of Merkle.sol does.
THEOREM VerifyProofSame ==
  ASSUME NEW tree, IsTree(tree), NEW k, k = 0 \/ IsIndex(k),
         NEW T, NEW proof \in Seq(T), NEW leaf
  PROVE  VerifyProof(proof, tree[1], leaf, k) <=> CalculateMerkleRoot(proof, leaf, k) = tree[1]
<1> DEFINE n == Depth(k)
           m == Len(proof)
<1>0. m \in Nat /\ tree[1] # Reverted
  BY DEF IsTree
<1>1. PICK nd : /\ IsFold(nd, proof, leaf, k)
                /\ CalculateMerkleRoot(proof, leaf, k)
                     = IF k = 0 \/ m # n THEN Reverted ELSE nd[m]
  BY <1>0, FoldValue
<1>2. PICK at : /\ IsWalk(at, proof, leaf, k)
                /\ VerifyProof(proof, tree[1], leaf, k)
                     <=> at[m].index = 1 /\ at[m].node = tree[1]
  BY <1>0, WalkValue
<1> HIDE DEF m, n
<1>3. CASE k = 0
  <2> DEFINE S == { j \in 0 .. m : at[j].index = 0 }
  <2>1. 0 \in S
    BY <1>0, <1>2, <1>3 DEF IsWalk
  <2>2. ASSUME NEW j \in 0 .. m - 1, j \in S
        PROVE  j + 1 \in S
    <3>1. j + 1 \in 1 .. m /\ (j + 1) - 1 = j /\ j + 1 \in 0 .. m
      BY <1>0
    <3>2. at[j + 1].index = at[j].index \div 2
      <4> DEFINE i == j + 1
      <4>1. i \in 1 .. m /\ i - 1 = j /\ i = j + 1
        BY <3>1
      <4> HIDE DEF i
      <4>2. at[i] = [ node  |-> IF at[i - 1].index % 2 = 1 THEN Hash(proof[i], at[i - 1].node)
                                ELSE Hash(at[i - 1].node, proof[i]),
                      index |-> at[i - 1].index \div 2 ]
        BY <1>2, <4>1 DEF IsWalk, m
      <4>3. at[i].index = at[i - 1].index \div 2
        BY <4>2
      <4> QED
        BY <4>1, <4>3
    <3> QED
      BY <2>2, <3>1, <3>2
  <2>3. 0 .. m \subseteq S
    <3> HIDE DEF S
    <3> QED
      BY <1>0, <2>1, <2>2, BoundedInduction
  <2>4. at[m].index = 0
    <3>1. m \in 0 .. m
      BY <1>0
    <3> QED
      BY <2>3, <3>1
  <2> QED
    BY <1>0, <1>1, <1>2, <1>3, <2>4
<1>4. CASE k # 0
  <2>0. IsIndex(k)
    BY <1>4
  <2>1. n \in Nat
    BY <2>0, DepthOfHalf DEF n
  <2>2. /\ m <= n => at[m].node = nd[m] /\ at[m].index = Above(k, m)
        /\ m > n => at[m].index = 0
    <3>1. m \in 0 .. m /\ m = Len(proof)
      BY <1>0 DEF m
    <3> QED
      BY <1>0, <1>1, <1>2, <2>0, <3>1, WalkClimbs DEF n
  <2>3. CASE m = n
    <3>1. Above(k, n) = 1
      BY <2>0, PathClimbs DEF Climbs, n
    <3> QED
      BY <1>1, <1>2, <1>4, <2>1, <2>2, <2>3, <3>1
  <2>4. CASE m < n
    <3>1. m \in 0 .. n - 1
      BY <1>0, <2>1, <2>4
    <3>2. Above(k, m) > 1 /\ Above(k, m) \in Nat
      <4>1. Climbs(k)
        BY <2>0, PathClimbs
      <4> QED
        BY <3>1, <4>1 DEF Climbs, n
    <3>3. at[m].index # 1
      BY <2>1, <1>0, <2>2, <2>4, <3>2
    <3>4. m # n
      BY <1>0, <2>1, <2>4
    <3> QED
      BY <1>0, <1>1, <1>2, <3>3, <3>4
  <2>5. CASE m > n
    <3>1. m # n /\ at[m].index # 1
      BY <1>0, <2>1, <2>2, <2>5
    <3> QED
      BY <1>0, <1>1, <1>2, <3>1
  <2> QED
    BY <1>0, <2>1, <2>3, <2>4, <2>5
<1> QED
  BY <1>3, <1>4

\* The two cases of the recursion.
LEMMA AncestorsCases ==
  /\ \A k \in Nat : k <= 1 => Ancestors[k] = {}
  /\ \A k \in Nat : ~(k <= 1) => Ancestors[k] = {k \div 2} \cup Ancestors[k \div 2]
BY AncestorsValue, Zenon

-----------------------------------------------------------------------------
(* Ancestors, and the indices that a proof of several values is about.     *)

\* The ancestors of a node are smaller, up to the root, and have theirs in turn;
\* each is the parent of another one or of the node.
LEMMA AncestorFacts ==
  ASSUME NEW k \in Nat, k > 0
  PROVE  /\ \A j \in Ancestors[k] : /\ j \in Nat /\ 0 < j /\ j < k
                                    /\ Ancestors[j] \subseteq Ancestors[k]
                                    /\ \E c \in {k} \cup Ancestors[k] : c > 1 /\ c \div 2 = j
         /\ \A j \in {k} \cup Ancestors[k] : j > 1 => j \div 2 \in Ancestors[k]
         /\ 1 \in {k} \cup Ancestors[k]
<1> DEFINE Facts(m) ==
             /\ \A j \in Ancestors[m] : /\ j \in Nat /\ 0 < j /\ j < m
                                        /\ Ancestors[j] \subseteq Ancestors[m]
                                        /\ \E c \in {m} \cup Ancestors[m] : c > 1 /\ c \div 2 = j
             /\ \A j \in {m} \cup Ancestors[m] : j > 1 => j \div 2 \in Ancestors[m]
             /\ 1 \in {m} \cup Ancestors[m]
           S == { m \in Nat : m > 0 => Facts(m) }
<1>1. ASSUME NEW m \in Nat, \A j \in Nat : j < m => j \in S
      PROVE  m \in S
  <2> SUFFICES ASSUME m > 0 PROVE Facts(m)
    OBVIOUS
  <2>1. CASE m = 1
    <3>1. Ancestors[m] = {}
      <4>1. m <= 1
        BY <2>1
      <4> QED
        BY <4>1, AncestorsCases
    <3> QED
      BY <2>1, <3>1
  <2>2. CASE m # 1
    <3> DEFINE h == m \div 2
               A == Ancestors[m]
               H == Ancestors[h]
    <3>1. h \in Nat /\ 0 < h /\ h < m /\ m > 1
      BY <2>2
    <3>2. A = {h} \cup H
      <4>1. ~(m <= 1)
        BY <3>1
      <4> QED
        BY <4>1, AncestorsCases
    <3>3. Facts(h)
      BY <1>1, <3>1
    <3>4. /\ \A j \in H : /\ j \in Nat /\ 0 < j /\ j < h
                          /\ Ancestors[j] \subseteq H
                          /\ \E c \in {h} \cup H : c > 1 /\ c \div 2 = j
          /\ \A j \in {h} \cup H : j > 1 => j \div 2 \in H
          /\ 1 \in {h} \cup H
      BY <3>3
    <3>5. m \div 2 = h
      OBVIOUS
    <3> HIDE DEF h
    <3>6. ASSUME NEW j \in A
          PROVE  /\ j \in Nat /\ 0 < j /\ j < m
                 /\ Ancestors[j] \subseteq A
                 /\ \E c \in {m} \cup A : c > 1 /\ c \div 2 = j
      <4> HIDE DEF A, H
      <4>1. CASE j = h
        <5>1. Ancestors[j] = H
          BY <4>1 DEF H
        <5>2. \E c \in {m} \cup A : c > 1 /\ c \div 2 = j
          BY <3>1, <3>5, <4>1
        <5> QED
          BY <3>1, <3>2, <4>1, <5>1, <5>2
      <4>2. CASE j \in H
        <5>1. j \in Nat /\ 0 < j /\ j < h /\ Ancestors[j] \subseteq H
          BY <3>4, <4>2
        <5>2. PICK c \in {h} \cup H : c > 1 /\ c \div 2 = j
          BY <3>4, <4>2
        <5>3. c \in {m} \cup A
          BY <3>2
        <5>4. j < m
          BY <3>1, <5>1
        <5> QED
          BY <3>2, <5>1, <5>2, <5>3, <5>4
      <4> QED
        BY <3>2, <4>1, <4>2
    <3>7. ASSUME NEW j \in {m} \cup A, j > 1
          PROVE  j \div 2 \in A
      <4> HIDE DEF A, H
      <4>1. CASE j = m
        BY <3>2, <3>5, <4>1
      <4>2. CASE j # m
        <5>1. j \in {h} \cup H
          BY <3>2, <4>2
        <5>2. j \div 2 \in H
          BY <3>4, <3>7, <5>1
        <5> QED
          BY <3>2, <5>2
      <4> QED
        BY <4>1, <4>2
    <3>8. 1 \in {m} \cup A
      <4> HIDE DEF A, H
      <4> QED
        BY <3>2, <3>4
    <3> QED
      BY <3>6, <3>7, <3>8
  <2> QED
    BY <2>1, <2>2
<1>2. Nat \subseteq S
  <2> HIDE DEF S
  <2> QED
    BY <1>1, StrongInduction
<1> QED
  BY <1>2

\* The path of a node has the node and its ancestors without the root, and the
\* branch their siblings.
LEMMA PathItems ==
  ASSUME NEW k \in Nat, k > 0
  PROVE  /\ ToSet(PathFrom[k]) = ({k} \cup Ancestors[k]) \ {1}
         /\ ToSet(BranchFrom[k]) = { Sibling(q) : q \in ({k} \cup Ancestors[k]) \ {1} }
<1> DEFINE Items(m) ==
             /\ ToSet(PathFrom[m]) = ({m} \cup Ancestors[m]) \ {1}
             /\ ToSet(BranchFrom[m]) = { Sibling(q) : q \in ({m} \cup Ancestors[m]) \ {1} }
           S == { m \in Nat : m > 0 => Items(m) }
<1>0. \A x : ToSet(<<x>>) = {x}
  BY DEF ToSet
<1>1. ASSUME NEW m \in Nat, \A j \in Nat : j < m => j \in S
      PROVE  m \in S
  <2> SUFFICES ASSUME m > 0 PROVE Items(m)
    OBVIOUS
  <2>1. CASE m = 1
    <3>1. Ancestors[m] = {} /\ PathFrom[m] = <<>> /\ BranchFrom[m] = <<>>
      <4>1. m <= 1
        BY <2>1
      <4> QED
        BY <4>1, AncestorsCases, PathValue, BranchValue
    <3>2. ({m} \cup Ancestors[m]) \ {1} = {}
      BY <2>1, <3>1
    <3> QED
      BY <3>1, <3>2, ToSetEmpty
  <2>2. CASE m # 1
    <3> DEFINE h == m \div 2
               A == Ancestors[m]
               H == Ancestors[h]
    <3>1. h \in Nat /\ 0 < h /\ h < m /\ ~(m <= 1)
      BY <2>2
    <3>2. /\ A = {h} \cup H
          /\ PathFrom[m] = <<m>> \o PathFrom[h]
          /\ BranchFrom[m] = <<Sibling(m)>> \o BranchFrom[h]
      BY <3>1, AncestorsCases, PathValue, BranchValue
    <3>3. Items(h)
      BY <1>1, <3>1
    <3>4. ToSet(PathFrom[h]) = ({h} \cup H) \ {1}
          /\ ToSet(BranchFrom[h]) = { Sibling(q) : q \in ({h} \cup H) \ {1} }
      BY <3>3
    <3>5. PathFrom[h] \in Seq(Nat) /\ BranchFrom[h] \in Seq(Nat) /\ Sibling(m) \in Nat
      BY <3>1, PathValue, BranchValue, Siblings
    <3>6. <<m>> \in Seq(Nat) /\ <<Sibling(m)>> \in Seq(Nat)
      BY <3>5
    <3> HIDE DEF h, A, H
    <3>7. ToSet(PathFrom[m]) = {m} \cup ToSet(PathFrom[h])
      <4>1. ToSet(<<m>> \o PathFrom[h]) = ToSet(<<m>>) \cup ToSet(PathFrom[h])
        <5>1. <<m>> \in Seq(Nat) /\ PathFrom[h] \in Seq(Nat)
          BY <3>5, <3>6
        <5> QED
          BY ONLY <5>1, ToSetConcat, ZenonT(30)
      <4>2. ToSet(<<m>>) = {m}
        BY <1>0
      <4>3. PathFrom[m] = <<m>> \o PathFrom[h]
        BY <3>2
      <4> QED
        BY <4>1, <4>2, <4>3
    <3>8. ToSet(BranchFrom[m]) = {Sibling(m)} \cup ToSet(BranchFrom[h])
      <4>1. ToSet(<<Sibling(m)>> \o BranchFrom[h]) = ToSet(<<Sibling(m)>>) \cup ToSet(BranchFrom[h])
        <5>1. <<Sibling(m)>> \in Seq(Nat) /\ BranchFrom[h] \in Seq(Nat)
          BY <3>5, <3>6
        <5> QED
          BY ONLY <5>1, ToSetConcat, ZenonT(30)
      <4>2. ToSet(<<Sibling(m)>>) = {Sibling(m)}
        BY <1>0
      <4>3. BranchFrom[m] = <<Sibling(m)>> \o BranchFrom[h]
        BY <3>2
      <4> QED
        BY <4>1, <4>2, <4>3
    <3>9. ({m} \cup A) \ {1} = {m} \cup (({h} \cup H) \ {1})
      BY <2>2, <3>2
    <3>10. ToSet(PathFrom[m]) = ({m} \cup A) \ {1}
      BY <3>4, <3>7, <3>9
    <3>11. ToSet(BranchFrom[m]) = { Sibling(q) : q \in ({m} \cup A) \ {1} }
      BY <3>4, <3>8, <3>9
    <3> QED
      BY <3>10, <3>11 DEF A
  <2> QED
    BY <2>1, <2>2
<1>2. Nat \subseteq S
  <2> HIDE DEF S
  <2> QED
    BY <1>1, StrongInduction
<1> QED
  BY <1>2

\* The items of a sequence of sequences.
LEMMA FlattenItems ==
  ASSUME NEW T, NEW ss \in Seq(Seq(T)), ss # <<>>
  PROVE  /\ FlattenSeq(ss) \in Seq(T)
         /\ ToSet(FlattenSeq(ss)) = UNION { ToSet(ss[i]) : i \in DOMAIN ss }
<1> DEFINE m == Len(ss)
           P(j, g) == g = [ i \in 1 .. j |-> IF i = 1 THEN ss[i] ELSE g[i - 1] \o ss[i] ]
           S == { j \in Nat : \E g : P(j, g) }
<1>1. m \in Nat /\ m > 0 /\ DOMAIN ss = 1 .. m /\ \A i \in 1 .. m : ss[i] \in Seq(T)
  OBVIOUS
<1>2. 0 \in S
  <2>1. P(0, [i \in 1 .. 0 |-> <<>>])
    OBVIOUS
  <2> QED
    BY <2>1
<1>3. ASSUME NEW j \in Nat, j \in S
      PROVE  j + 1 \in S
  <2>1. PICK g : P(j, g)
    BY <1>3
  <2> DEFINE w == IF j = 0 THEN ss[1] ELSE g[j] \o ss[j + 1]
             h == [i \in 1 .. j + 1 |-> IF i = j + 1 THEN w ELSE g[i]]
  <2>2. \A i \in 1 .. j : h[i] = g[i]
    OBVIOUS
  <2>3. h[j + 1] = w
    OBVIOUS
  <2>4. ASSUME NEW i \in 1 .. j + 1
        PROVE  h[i] = IF i = 1 THEN ss[i] ELSE h[i - 1] \o ss[i]
    <3> HIDE DEF h
    <3>1. CASE i = j + 1
      <4>1. CASE j = 0
        BY <2>3, <3>1, <4>1
      <4>2. CASE j # 0
        <5>1. j \in 1 .. j /\ i - 1 = j /\ i # 1
          BY <3>1, <4>2
        <5>2. h[j] = g[j]
          BY <2>2, <5>1
        <5> QED
          BY <2>3, <3>1, <4>2, <5>1, <5>2
      <4> QED
        BY <4>1, <4>2
    <3>2. CASE i # j + 1
      <4>1. i \in 1 .. j /\ (i # 1 => i - 1 \in 1 .. j)
        BY <3>2
      <4>2. g[i] = IF i = 1 THEN ss[i] ELSE g[i - 1] \o ss[i]
        BY <2>1, <4>1
      <4> QED
        BY <2>2, <4>1, <4>2
    <3> QED
      BY <3>1, <3>2
  <2>5. h = [i \in 1 .. j + 1 |-> h[i]]
    OBVIOUS
  <2> HIDE DEF h
  <2>6. P(j + 1, h)
    BY <2>4, <2>5
  <2> HIDE DEF P
  <2> QED
    BY <2>6
<1>4. Nat \subseteq S
  <2> HIDE DEF S
  <2> QED
    BY <1>2, <1>3, Induction
<1> DEFINE flatten == CHOOSE g : P(m, g)
<1>5. P(m, flatten)
  <2>1. \E g : P(m, g)
    BY <1>1, <1>4
  <2> HIDE DEF P
  <2> QED
    BY <2>1
<1>6. FlattenSeq(ss) = flatten[m]
  BY <1>1 DEF FlattenSeq
<1> HIDE DEF flatten
<1>7. \A i \in 1 .. m : flatten[i] = IF i = 1 THEN ss[i] ELSE flatten[i - 1] \o ss[i]
  BY <1>5
<1> HIDE DEF m
<1> DEFINE Known(j) == UNION { ToSet(ss[i]) : i \in 1 .. j }
           R == { j \in Nat : 1 <= j /\ j <= m =>
                    flatten[j] \in Seq(T) /\ ToSet(flatten[j]) = Known(j) }
<1>8. 0 \in R
  OBVIOUS
<1>9. ASSUME NEW j \in Nat, j \in R
      PROVE  j + 1 \in R
  <2> SUFFICES ASSUME j + 1 <= m
               PROVE  flatten[j + 1] \in Seq(T) /\ ToSet(flatten[j + 1]) = Known(j + 1)
    OBVIOUS
  <2>0. j + 1 \in 1 .. m /\ ss[j + 1] \in Seq(T)
    BY <1>1
  <2>1. Known(j + 1) = Known(j) \cup ToSet(ss[j + 1])
    <3>1. 1 .. j + 1 = (1 .. j) \cup {j + 1}
      OBVIOUS
    <3> QED
      BY <3>1
  <2>2. CASE j = 0
    <3>1. flatten[j + 1] = ss[j + 1]
      BY <1>7, <2>0, <2>2
    <3>2. Known(j) = {}
      BY <2>2
    <3> QED
      BY <2>0, <2>1, <3>1, <3>2
  <2>3. CASE j # 0
    <3>1. flatten[j + 1] = flatten[j] \o ss[j + 1]
      <4> DEFINE i == j + 1
      <4>1. i \in 1 .. m /\ i # 1 /\ i - 1 = j
        BY <2>0, <2>3
      <4> HIDE DEF i
      <4>2. flatten[i] = flatten[j] \o ss[i]
        BY <1>7, <4>1
      <4> QED
        BY <4>2 DEF i
    <3>2. flatten[j] \in Seq(T) /\ ToSet(flatten[j]) = Known(j)
      <4>1. 1 <= j /\ j <= m
        BY <1>1, <2>3
      <4> QED
        BY <1>9, <4>1
    <3> HIDE DEF Known
    <3>3. ToSet(flatten[j] \o ss[j + 1]) = ToSet(flatten[j]) \cup ToSet(ss[j + 1])
      BY <2>0, <3>2, ToSetConcat
    <3> QED
      BY <2>0, <2>1, <3>1, <3>2, <3>3
  <2> QED
    BY <2>2, <2>3
<1>10. Nat \subseteq R
  <2> HIDE DEF R
  <2> QED
    BY <1>8, <1>9, Induction
<1>11. flatten[m] \in Seq(T) /\ ToSet(flatten[m]) = Known(m)
  <2>1. m \in R
    BY <1>1, <1>10
  <2>2. 1 <= m /\ m <= m
    BY <1>1
  <2> HIDE DEF Known
  <2> QED
    BY <2>1, <2>2
<1> QED
  BY <1>1, <1>6, <1>11

\* The nodes that a proof of the nodes `ks' leads through.
Known(ks) == ks \cup UNION { Ancestors[k] : k \in ks }

\* Indices of nodes: at least one, no zero, none twice and none above another.
AreNodes(indices) ==
  /\ indices \in Seq(Nat) /\ indices # <<>>
  /\ \A k \in ToSet(indices) : k > 0

\* The known nodes are closed upwards, and each is a given one or the parent of a
\* known one.
LEMMA KnownFacts ==
  ASSUME NEW ks, \A k \in ks : k \in Nat /\ k > 0
  PROVE  /\ \A q \in Known(ks) : /\ q \in Nat /\ q > 0
                                 /\ q > 1 => /\ q \div 2 \in Known(ks)
                                             /\ \E k \in ks : q \div 2 \in Ancestors[k]
                                 /\ q \notin ks => \E c \in Known(ks) : c > 1 /\ c \div 2 = q
         /\ ks # {} => 1 \in Known(ks)
<1> DEFINE K == Known(ks)
<1>1. \A q : q \in K <=> \E k \in ks : q \in {k} \cup Ancestors[k]
  BY DEF Known
<1> HIDE DEF K
<1>2. ASSUME NEW q \in K
      PROVE  /\ q \in Nat /\ q > 0
             /\ q > 1 => q \div 2 \in K /\ \E k \in ks : q \div 2 \in Ancestors[k]
             /\ q \notin ks => \E c \in K : c > 1 /\ c \div 2 = q
  <2>1. PICK k \in ks : q \in {k} \cup Ancestors[k]
    BY <1>1
  <2>2. k \in Nat /\ k > 0
    OBVIOUS
  <2>3. q \in Nat /\ q > 0
    BY <2>1, <2>2, AncestorFacts
  <2>4. ASSUME q > 1
        PROVE  q \div 2 \in K /\ \E j \in ks : q \div 2 \in Ancestors[j]
    <3>1. q \div 2 \in Ancestors[k]
      BY <2>1, <2>2, <2>4, AncestorFacts
    <3> QED
      BY <1>1, <3>1
  <2>5. ASSUME q \notin ks
        PROVE  \E c \in K : c > 1 /\ c \div 2 = q
    <3>1. q \in Ancestors[k]
      BY <2>1, <2>5
    <3>2. PICK c \in {k} \cup Ancestors[k] : c > 1 /\ c \div 2 = q
      BY <2>2, <3>1, AncestorFacts
    <3>3. c \in K
      BY <1>1, <3>2
    <3> QED
      BY <3>2, <3>3
  <2> QED
    BY <2>3, <2>4, <2>5
<1>3. ASSUME ks # {}
      PROVE  1 \in K
  <2>1. PICK k \in ks : TRUE
    BY <1>3
  <2>2. k \in Nat /\ k > 0
    OBVIOUS
  <2>3. 1 \in {k} \cup Ancestors[k]
    BY <2>2, AncestorFacts
  <2> QED
    BY <1>1, <2>3
<1> QED
  BY <1>2, <1>3 DEF K

\* All paths together have the known nodes without the root, all branches the
\* siblings of these.
LEMMA AllPathItems ==
  ASSUME NEW indices, AreNodes(indices)
  PROVE  /\ AllPathIndices(indices) \in Seq(Nat)
         /\ ToSet(AllPathIndices(indices)) = Known(ToSet(indices)) \ {1}
         /\ AllBranchIndices(indices) \in Seq(Nat)
         /\ ToSet(AllBranchIndices(indices)) = { Sibling(q) : q \in Known(ToSet(indices)) \ {1} }
<1> DEFINE D == DOMAIN indices
           ks == ToSet(indices)
           K == Known(ks)
           paths == [i \in D |-> PathFrom[indices[i]]]
           branches == [i \in D |-> BranchFrom[indices[i]]]
<1>1. /\ D = 1 .. Len(indices) /\ Len(indices) \in Nat /\ Len(indices) > 0
      /\ \A i \in D : indices[i] \in Nat /\ indices[i] > 0
      /\ ks = { indices[i] : i \in D }
  <2>1. D = 1 .. Len(indices) /\ Len(indices) \in Nat /\ Len(indices) > 0
    BY DEF AreNodes
  <2>2. ks = { indices[i] : i \in D }
    BY DEF ToSet
  <2>3. \A i \in D : indices[i] \in Nat
    <3>1. indices \in Seq(Nat)
      BY DEF AreNodes
    <3> QED
      BY <2>1, <3>1
  <2>4. \A i \in D : indices[i] > 0
    BY <2>2 DEF AreNodes
  <2> QED
    BY <2>1, <2>2, <2>3, <2>4
<1>2. /\ paths \in Seq(Seq(Nat)) /\ paths # <<>> /\ DOMAIN paths = D
      /\ branches \in Seq(Seq(Nat)) /\ branches # <<>> /\ DOMAIN branches = D
  <2>1. \A i \in D : PathFrom[indices[i]] \in Seq(Nat) /\ BranchFrom[indices[i]] \in Seq(Nat)
    BY <1>1, PathValue, BranchValue
  <2>2. Len(paths) = Len(indices) /\ Len(branches) = Len(indices)
    BY <1>1
  <2> QED
    BY <1>1, <2>1, <2>2
<1>3. \A q : q \in K <=> \E i \in D : q \in {indices[i]} \cup Ancestors[indices[i]]
  BY <1>1 DEF Known
<1>4. ToSet(FlattenSeq(paths)) = K \ {1}
  <2>1. ToSet(FlattenSeq(paths)) = UNION { ToSet(paths[i]) : i \in D }
    BY <1>2, FlattenItems
  <2>2. \A i \in D : ToSet(paths[i]) = ({indices[i]} \cup Ancestors[indices[i]]) \ {1}
    BY <1>1, PathItems
  <2> HIDE DEF paths, K, D
  <2>3. \A q : q \in UNION { ToSet(paths[i]) : i \in D } <=> q \in K \ {1}
    BY <1>3, <2>2
  <2> QED
    BY <2>1, <2>3
<1>5. ToSet(FlattenSeq(branches)) = { Sibling(q) : q \in K \ {1} }
  <2>1. ToSet(FlattenSeq(branches)) = UNION { ToSet(branches[i]) : i \in D }
    BY <1>2, FlattenItems
  <2>2. \A i \in D : ToSet(branches[i])
                       = { Sibling(q) : q \in ({indices[i]} \cup Ancestors[indices[i]]) \ {1} }
    BY <1>1, PathItems
  <2> HIDE DEF branches, K, D
  <2>3. ASSUME NEW s
        PROVE  s \in UNION { ToSet(branches[i]) : i \in D } <=> \E q \in K \ {1} : s = Sibling(q)
    <3>1. ASSUME NEW i \in D, s \in ToSet(branches[i])
          PROVE  \E q \in K \ {1} : s = Sibling(q)
      BY <1>3, <2>2, <3>1
    <3>2. ASSUME NEW q \in K \ {1}, s = Sibling(q)
          PROVE  \E i \in D : s \in ToSet(branches[i])
      <4>1. PICK i \in D : q \in {indices[i]} \cup Ancestors[indices[i]]
        BY <1>3
      <4>2. s \in ToSet(branches[i])
        BY <2>2, <3>2, <4>1
      <4> QED
        BY <4>2
    <3> QED
      BY <3>1, <3>2
  <2> QED
    BY <2>1, <2>3
<1>6. FlattenSeq(paths) \in Seq(Nat) /\ FlattenSeq(branches) \in Seq(Nat)
  <2> HIDE DEF paths, branches
  <2> QED
    BY <1>2, FlattenItems
<1>7. AllPathIndices(indices) = FlattenSeq(paths) /\ AllBranchIndices(indices) = FlattenSeq(branches)
  BY DEF AllPathIndices, AllBranchIndices, GetPathIndices, GetBranchIndices
<1> HIDE DEF paths, branches
<1> QED
  BY <1>4, <1>5, <1>6, <1>7

\* getHelperIndices lists the missing siblings, from the largest to the smallest.
THEOREM HelpersAreMissing ==
  ASSUME NEW indices, AreNodes(indices)
  PROVE  LET helpers == GetHelperIndices(indices)
         IN  /\ helpers \in Seq(Nat)
             /\ ToSet(helpers) = MissingSiblings(ToSet(indices))
             /\ Distinct(helpers)
             /\ \A i, j \in 1 .. Len(helpers) : i < j => helpers[i] > helpers[j]
<1> DEFINE b == AllBranchIndices(indices)
           p == AllPathIndices(indices)
           d == Difference(b, p)
           helpers == SortReverse(d)
           ks == ToSet(indices)
           K == Known(ks)
<1>1. GetHelperIndices(indices) = helpers
  BY DEF GetHelperIndices
<1>2. /\ p \in Seq(Nat) /\ ToSet(p) = K \ {1}
      /\ b \in Seq(Nat) /\ ToSet(b) = { Sibling(q) : q \in K \ {1} }
  BY AllPathItems
<1>3. \A k \in ks : k \in Nat /\ k > 0
  BY DEF AreNodes, ToSet
<1>4. MissingSiblings(ks) = { Sibling(q) : q \in K \ {1} } \ K
  BY DEF MissingSiblings, Known
<1> HIDE DEF b, p, K, ks
<1>5. d \in Seq(Nat) /\ ToSet(d) = ToSet(b) \ ToSet(p) /\ Distinct(d)
  BY <1>2, DifferenceKeepsLast
<1>6. ToSet(d) = MissingSiblings(ks)
  <2>1. ASSUME NEW q \in K \ {1}
        PROVE  Sibling(q) # 1
    <3>1. q \in Nat /\ q > 1
      BY <1>3, KnownFacts DEF K
    <3> QED
      BY <3>1, Siblings
  <2> QED
    BY <1>2, <1>4, <1>5, <2>1
<1> HIDE DEF d
<1>7. /\ helpers \in Seq(Nat) /\ Len(helpers) = Len(d) /\ ToSet(helpers) = ToSet(d)
      /\ Distinct(helpers)
      /\ \A i, j \in 1 .. Len(d) : i < j => helpers[i] > helpers[j]
  BY <1>5, SortReverseIsSort
<1> HIDE DEF helpers
<1> QED
  BY <1>1, <1>6, <1>7 DEF ks

-----------------------------------------------------------------------------
(* The loop that combines pairs.                                           *)

\* The hash of a pair, by the side on which the node is.
LEMMA PairHash ==
  ASSUME NEW map, NEW c \in Nat, c > 1, c \in DOMAIN map, Sibling(c) \in DOMAIN map
  PROVE  HashOfPair(map, c) = IF c % 2 = 1 THEN Hash(map[Sibling(c)], map[c])
                              ELSE Hash(map[c], map[Sibling(c)])
<1>1. CASE c % 2 = 1
  <2>1. c - (c % 2) = Sibling(c) /\ c - (c % 2) + 1 = c
    BY <1>1 DEF Sibling
  <2>2. HashOfPair(map, c) = Hash(Get(map, Sibling(c), ZERO), Get(map, c, ZERO))
    BY <2>1 DEF HashOfPair
  <2> QED
    BY <1>1, <2>2 DEF Get
<1>2. CASE c % 2 # 1
  <2>1. c - (c % 2) = c /\ c - (c % 2) + 1 = Sibling(c)
    BY <1>2 DEF Sibling
  <2>2. HashOfPair(map, c) = Hash(Get(map, c, ZERO), Get(map, Sibling(c), ZERO))
    BY <2>1 DEF HashOfPair
  <2> QED
    BY <1>2, <2>2 DEF Get
<1> QED
  BY <1>1, <1>2

\* What is in the map was given or is the hash of a pair in the map.
Kept(map0, map) ==
  /\ \A q \in DOMAIN map0 : q \in DOMAIN map /\ map[q] = map0[q]
  /\ \A q \in DOMAIN map : q \in Nat /\ q > 0
  /\ \A q \in DOMAIN map : q \notin DOMAIN map0 =>
       \E c \in DOMAIN map : /\ c > 1 /\ c \div 2 = q /\ Sibling(c) \in DOMAIN map
                             /\ map[q] = HashOfPair(map, c)

\* The keys in the map are queued, each once, and the parents of the pairs among the
\* first n are known.
Queued(map, keys, all, n) ==
  /\ keys \in Seq(Nat) /\ Distinct(keys)
  /\ \A q : q \in DOMAIN map <=> \E i \in 1 .. Len(keys) : keys[i] = q
  /\ \A q \in DOMAIN map : q \in all
  /\ \A i, j \in 1 .. Len(keys) :
       i <= n /\ j <= n /\ keys[i] > 1 /\ keys[j] = Sibling(keys[i]) => keys[i] \div 2 \in DOMAIN map

\* A round of the loop that finds a pair without parent.
LEMMA PairIsCombined ==
  ASSUME NEW map0, NEW map, NEW keys, NEW all, NEW n \in Nat, Kept(map0, map),
         \A q \in all : q \in Nat /\ (q > 1 => q \div 2 \in all),
         Queued(map, keys, all, n), n + 1 <= Len(keys),
         NEW k, k = keys[n + 1], Sibling(k) \in DOMAIN map, k \div 2 \notin DOMAIN map,
         NEW map1, map1 = Set(map, k \div 2, HashOfPair(map, k)),
         NEW keys1, keys1 = Append(keys, k \div 2)
  PROVE  Kept(map0, map1) /\ Queued(map1, keys1, all, n + 1)
<1> DEFINE p == k \div 2
           m == Len(keys)
           h == HashOfPair(map, k)
<1>1. /\ keys \in Seq(Nat) /\ m \in Nat /\ n + 1 \in 1 .. m /\ k \in Nat
      /\ \A i \in 1 .. m : keys[i] \in Nat
  <2>1. keys \in Seq(Nat)
    BY DEF Queued
  <2>2. m \in Nat /\ \A i \in 1 .. m : keys[i] \in Nat
    BY ONLY <2>1
  <2>3. n + 1 \in 1 .. m
    BY ONLY <2>2, n \in Nat, n + 1 <= Len(keys)
  <2> QED
    BY ONLY <2>1, <2>2, <2>3, k = keys[n + 1]
<1>2. k \in DOMAIN map
  <2>1. \A q : q \in DOMAIN map <=> \E i \in 1 .. m : keys[i] = q
    BY DEF Queued
  <2> QED
    BY ONLY <1>1, <2>1, k = keys[n + 1]
<1>3. k > 1
  <2>1. k > 0
    BY <1>2 DEF Kept
  <2>2. k # 1
    <3>1. ASSUME k = 1 PROVE FALSE
      <4>1. Sibling(k) = 0
        BY <3>1 DEF Sibling
      <4>2. 0 \in DOMAIN map
        BY <4>1
      <4> QED
        BY <4>2 DEF Kept
    <3> QED
      BY <3>1
  <2> QED
    BY <1>1, <2>1, <2>2
<1>4. p \in Nat /\ p > 0 /\ p < k
  BY <1>1, <1>3
<1>5. /\ DOMAIN map1 = DOMAIN map \cup {p} /\ p \notin DOMAIN map /\ map1[p] = h
      /\ \A q \in DOMAIN map : map1[q] = map[q]
  BY DEF Set
<1>6. /\ keys1 \in Seq(Nat) /\ Len(keys1) = m + 1
      /\ \A i \in 1 .. m : keys1[i] = keys[i]
      /\ keys1[m + 1] = p
  BY <1>1, <1>4
<1>7. p = k \div 2
  OBVIOUS
<1> HIDE DEF p, h, m
<1>8. ASSUME NEW c \in DOMAIN map, c > 1, Sibling(c) \in DOMAIN map
      PROVE  HashOfPair(map1, c) = HashOfPair(map, c)
  <2>1. c \in Nat
    BY DEF Kept
  <2>2. /\ c \in DOMAIN map1 /\ Sibling(c) \in DOMAIN map1
        /\ map1[c] = map[c] /\ map1[Sibling(c)] = map[Sibling(c)]
    BY <1>5, <1>8
  <2> QED
    BY <1>8, <2>1, <2>2, PairHash
<1>9. Kept(map0, map1)
  <2>1. \A q \in DOMAIN map0 : q \in DOMAIN map1 /\ map1[q] = map0[q]
    BY <1>5 DEF Kept
  <2>2. \A q \in DOMAIN map1 : q \in Nat /\ q > 0
    BY <1>4, <1>5 DEF Kept
  <2>3. ASSUME NEW q \in DOMAIN map1, q \notin DOMAIN map0
        PROVE  \E c \in DOMAIN map1 : /\ c > 1 /\ c \div 2 = q /\ Sibling(c) \in DOMAIN map1
                                      /\ map1[q] = HashOfPair(map1, c)
    <3>1. CASE q = p
      <4>1. map1[q] = HashOfPair(map1, k)
        BY <1>2, <1>3, <1>5, <1>8, <3>1 DEF h
      <4> QED
        BY <1>2, <1>3, <1>5, <1>7, <3>1, <4>1
    <3>2. CASE q # p
      <4>1. q \in DOMAIN map
        BY <1>5, <3>2
      <4>2. PICK c \in DOMAIN map : /\ c > 1 /\ c \div 2 = q /\ Sibling(c) \in DOMAIN map
                                    /\ map[q] = HashOfPair(map, c)
        BY <2>3, <4>1 DEF Kept
      <4>3. map1[q] = HashOfPair(map1, c)
        BY <1>5, <1>8, <4>1, <4>2
      <4>4. c \in DOMAIN map1 /\ Sibling(c) \in DOMAIN map1
        BY <1>5, <4>2
      <4> QED
        BY <4>2, <4>3, <4>4
    <3> QED
      BY <3>1, <3>2
  <2> QED
    BY <2>1, <2>2, <2>3 DEF Kept
<1>10. \A q : q \in DOMAIN map <=> \E i \in 1 .. m : keys[i] = q
  BY DEF Queued, m
<1>11. Queued(map1, keys1, all, n + 1)
  <2>1. Distinct(keys1)
    <3>1. ASSUME NEW i \in 1 .. m + 1, NEW j \in 1 .. m + 1, keys1[i] = keys1[j]
          PROVE  i = j
      <4>1. (i \in 1 .. m \/ i = m + 1) /\ (j \in 1 .. m \/ j = m + 1)
        BY <1>1
      <4>2. \A x \in 1 .. m : keys1[x] # p
        BY <1>5, <1>6, <1>10
      <4>3. \A x, y \in 1 .. m : keys[x] = keys[y] => x = y
        <5>1. DOMAIN keys = 1 .. m
          BY <1>1 DEF m
        <5> QED
          BY <5>1 DEF Queued, Distinct
      <4>4. CASE i \in 1 .. m /\ j \in 1 .. m
        <5>1. keys[i] = keys[j]
          BY <1>6, <3>1, <4>4
        <5> QED
          BY <4>3, <4>4, <5>1
      <4>5. CASE ~(i \in 1 .. m /\ j \in 1 .. m)
        BY <1>6, <3>1, <4>1, <4>2, <4>5
      <4> QED
        BY <4>4, <4>5
    <3>2. DOMAIN keys1 = 1 .. m + 1
      BY <1>6
    <3> QED
      BY <3>1, <3>2 DEF Distinct
  <2>2. ASSUME NEW q
        PROVE  q \in DOMAIN map1 <=> \E i \in 1 .. m + 1 : keys1[i] = q
    <3>0. m \in Nat
      BY <1>1
    <3>1. 1 .. m + 1 = (1 .. m) \cup {m + 1}
      BY ONLY <3>0
    <3>2. (\E i \in 1 .. m + 1 : keys1[i] = q) <=> (\E i \in 1 .. m : keys[i] = q) \/ p = q
      <4>1. ASSUME NEW i \in 1 .. m + 1, keys1[i] = q
            PROVE  (\E j \in 1 .. m : keys[j] = q) \/ p = q
        <5>1. i \in 1 .. m \/ i = m + 1
          BY <3>1
        <5> QED
          BY <1>6, <4>1, <5>1
      <4>2. ASSUME NEW i \in 1 .. m, keys[i] = q
            PROVE  \E j \in 1 .. m + 1 : keys1[j] = q
        <5>1. i \in 1 .. m + 1 /\ keys1[i] = q
          BY <1>6, <3>1, <4>2
        <5> QED
          BY <5>1
      <4>3. ASSUME p = q
            PROVE  \E j \in 1 .. m + 1 : keys1[j] = q
        <5>1. m + 1 \in 1 .. m + 1 /\ keys1[m + 1] = q
          BY <1>6, <3>1, <4>3
        <5> QED
          BY <5>1
      <4> QED
        BY <4>1, <4>2, <4>3
    <3> QED
      BY <1>5, <1>10, <3>2
  <2>3. \A q \in DOMAIN map1 : q \in all
    <3>1. k \in all
      BY <1>2 DEF Queued
    <3>2. p \in all
      BY <1>3, <1>7, <3>1
    <3> QED
      BY <1>5, <3>2 DEF Queued
  <2>4. ASSUME NEW i \in 1 .. m + 1, NEW j \in 1 .. m + 1, i <= n + 1, j <= n + 1,
               keys1[i] > 1, keys1[j] = Sibling(keys1[i])
        PROVE  keys1[i] \div 2 \in DOMAIN map1
    <3>0. /\ i \in 1 .. m /\ j \in 1 .. m /\ keys1[i] = keys[i] /\ keys1[j] = keys[j]
          /\ keys[i] \in Nat /\ keys[j] \in Nat
      <4>0. m \in Nat /\ n \in Nat /\ n + 1 <= m
        BY <1>1
      <4>1. i \in 1 .. m /\ j \in 1 .. m
        <5>1. i \in 1 .. m + 1 /\ j \in 1 .. m + 1 /\ i <= n + 1 /\ j <= n + 1
          BY <2>4
        <5> QED
          BY ONLY <4>0, <5>1
      <4> QED
        BY <1>1, <1>6, <4>1
    <3>1. CASE i = n + 1
      BY <1>5, <1>7, <3>0, <3>1
    <3>2. CASE j = n + 1
      <4>1. k = Sibling(keys[i]) /\ keys[i] > 1
        BY <2>4, <3>0, <3>2
      <4>2. k \div 2 = keys[i] \div 2
        BY <3>0, <4>1, Siblings
      <4> QED
        BY <1>5, <1>7, <3>0, <4>2
    <3>3. CASE i # n + 1 /\ j # n + 1
      <4>1. i <= n /\ j <= n
        BY <1>1, <2>4, <3>3
      <4>2. keys[i] > 1 /\ keys[j] = Sibling(keys[i])
        BY <2>4, <3>0
      <4>3. keys[i] \div 2 \in DOMAIN map
        BY <3>0, <4>1, <4>2 DEF Queued, m
      <4> QED
        BY <1>5, <3>0, <4>3
    <3> QED
      BY <3>1, <3>2, <3>3
  <2> QED
    BY <1>6, <2>1, <2>2, <2>3, <2>4 DEF Queued
<1> QED
  BY <1>9, <1>11

\* Every round keeps this.
LEMMA RoundKeeps ==
  ASSUME NEW map0, NEW s, NEW all, NEW n \in Nat, Kept(map0, s.map),
         \A q \in all : q \in Nat /\ (q > 1 => q \div 2 \in all),
         Queued(s.map, s.keys, all, n),
         NEW t, t = IF n + 1 <= Len(s.keys) THEN Combined(s, n + 1) ELSE s
  PROVE  Kept(map0, t.map) /\ Queued(t.map, t.keys, all, n + 1)
<1> DEFINE map == s.map
           keys == s.keys
           k == keys[n + 1]
<1>0. keys \in Seq(Nat) /\ Len(keys) \in Nat
  BY DEF Queued
<1>1. CASE ~(n + 1 <= Len(keys))
  <2>1. t = s
    BY <1>1
  <2>2. \A i \in 1 .. Len(keys) : i <= n
    BY <1>0, <1>1
  <2> HIDE DEF map, keys
  <2>3. Queued(map, keys, all, n)
    BY DEF map, keys
  <2>4. Queued(map, keys, all, n + 1)
    BY <2>2, <2>3 DEF Queued
  <2> QED
    BY <2>1, <2>4 DEF map, keys
<1>2. CASE n + 1 <= Len(keys)
  <2>0. n + 1 \in 1 .. Len(keys) /\ k \in Nat
    BY <1>0, <1>2
  <2>1. t = Combined(s, n + 1)
    BY <1>2
  <2>2. k \in DOMAIN map
    BY <2>0 DEF Queued
  <2>3. CASE Sibling(k) \in DOMAIN map /\ k \div 2 \notin DOMAIN map
    <3> DEFINE map1 == Set(map, k \div 2, HashOfPair(map, k))
               keys1 == Append(keys, k \div 2)
    <3>1. t = [map |-> map1, keys |-> keys1]
      BY <2>1, <2>2, <2>3 DEF Combined, HasKey, Parent, Push
    <3>2. Kept(map0, map1) /\ Queued(map1, keys1, all, n + 1)
      BY <1>2, <2>3, PairIsCombined
    <3> HIDE DEF map1, keys1
    <3> QED
      BY <3>1, <3>2
  <2>4. CASE ~(Sibling(k) \in DOMAIN map /\ k \div 2 \notin DOMAIN map)
    <3>1. t = s
      BY <2>1, <2>4 DEF Combined, HasKey, Parent
    <3>2. k > 0
      BY <2>2 DEF Kept
    <3>3. \A q : q \in DOMAIN map <=> \E i \in 1 .. Len(keys) : keys[i] = q
      BY DEF Queued
    <3>4. \A i \in 1 .. Len(keys) : keys[i] \in Nat /\ keys[i] \in DOMAIN map
      BY <1>0, <3>3
    <3>5. ASSUME NEW i \in 1 .. Len(keys), NEW j \in 1 .. Len(keys), i <= n + 1, j <= n + 1,
                 keys[i] > 1, keys[j] = Sibling(keys[i])
          PROVE  keys[i] \div 2 \in DOMAIN map
      <4>1. CASE i = n + 1
        BY <2>4, <3>4, <3>5, <4>1
      <4>2. CASE j = n + 1
        <5>1. k = Sibling(keys[i]) /\ keys[i] > 1 /\ keys[i] \in Nat
          BY <3>4, <3>5, <4>2
        <5>2. k \div 2 = keys[i] \div 2 /\ Sibling(k) = keys[i]
          BY <5>1, Siblings
        <5> QED
          BY <2>4, <3>4, <5>2
      <4>3. CASE i # n + 1 /\ j # n + 1
        <5>1. i <= n /\ j <= n
          BY <3>5, <4>3
        <5> QED
          BY <3>5, <5>1 DEF Queued
      <4> QED
        BY <4>1, <4>2, <4>3
    <3>6. Queued(map, keys, all, n)
      OBVIOUS
    <3> HIDE DEF map, keys
    <3>7. Queued(map, keys, all, n + 1)
      BY <3>5, <3>6 DEF Queued
    <3> QED
      BY <3>1, <3>7 DEF map, keys
  <2> QED
    BY <2>3, <2>4
<1> QED
  BY <1>1, <1>2

\* A sequence has as many items as its length, unless some are repeated.
LEMMA ItemsOfSequence ==
  ASSUME NEW T, NEW s \in Seq(T)
  PROVE  /\ IsFiniteSet(ToSet(s)) /\ Cardinality(ToSet(s)) <= Len(s)
         /\ Distinct(s) => Cardinality(ToSet(s)) = Len(s)
<1> DEFINE n == Len(s)
           R == ToSet(s)
<1>1. n \in Nat /\ DOMAIN s = 1 .. n /\ s = [i \in 1 .. n |-> s[i]]
  OBVIOUS
<1>2. \A e : e \in R <=> \E i \in 1 .. n : s[i] = e
  BY <1>1 DEF ToSet
<1> HIDE DEF n, R
<1>3. IsFiniteSet(1 .. n) /\ Cardinality(1 .. n) = n
  <2>1. n \in Nat /\ n \in Int /\ 1 \in Int
    BY <1>1
  <2> QED
    BY ONLY <2>1, FS_Interval
<1>4. s \in Surjection(1 .. n, R)
  <2>1. s \in [1 .. n -> R]
    BY <1>1, <1>2
  <2>2. \A e \in R : \E i \in 1 .. n : s[i] = e
    BY <1>2
  <2> QED
    BY <2>1, <2>2 DEF Surjection
<1>5. IsFiniteSet(R) /\ Cardinality(R) <= n
  BY <1>3, <1>4, FS_Surjection
<1>6. ASSUME Distinct(s)
      PROVE  Cardinality(R) = n
  <2>1. s \in Injection(1 .. n, R)
    BY <1>1, <1>2, <1>6 DEF Injection, IsInjective, Distinct
  <2> QED
    BY <1>3, <1>4, <2>1, FS_Surjection
<1> HIDE DEF R
<1>7. Distinct(s) => Cardinality(R) = n
  BY <1>6
<1> QED
  BY <1>5, <1>7 DEF n, R

\* Items of a sequence of numbers have a bound.
LEMMA ItemsHaveBound ==
  ASSUME NEW s \in Seq(Nat)
  PROVE  \E b \in Nat : \A e \in ToSet(s) : e \in 0 .. b
<1> DEFINE n == Len(s)
           sorted == SortReverse(s)
<1>1. n \in Nat
  OBVIOUS
<1>2. /\ sorted \in Seq(Nat) /\ Len(sorted) = n
      /\ ToSet(sorted) = ToSet(s)
      /\ \A i, j \in 1 .. n : i < j => sorted[i] >= sorted[j]
  BY SortReverseIsSort
<1> HIDE DEF n, sorted
<1>3. ToSet(s) = { sorted[i] : i \in 1 .. n }
  <2>1. DOMAIN sorted = 1 .. n
    BY <1>2
  <2>2. ToSet(sorted) = { sorted[i] : i \in 1 .. n }
    BY ONLY <2>1 DEF ToSet
  <2> QED
    BY <1>2, <2>2
<1>4. \A i \in 1 .. n : sorted[i] \in Nat
  BY <1>2
<1>5. CASE n = 0
  <2>1. 1 .. n = {}
    BY <1>5
  <2> QED
    BY <1>3, <2>1
<1>6. CASE n # 0
  <2>1. 1 \in 1 .. n
    BY <1>1, <1>6
  <2>2. \A i \in 1 .. n : sorted[i] \in 0 .. sorted[1]
    <3>1. ASSUME NEW i \in 1 .. n
          PROVE  sorted[i] <= sorted[1]
      <4>1. CASE i = 1
        BY <1>4, <4>1
      <4>2. CASE i # 1
        <5>1. 1 < i
          BY <4>2
        <5> QED
          BY <1>2, <1>4, <2>1, <5>1
      <4> QED
        BY <4>1, <4>2
    <3> QED
      BY <1>4, <2>1, <3>1
  <2> QED
    BY <1>3, <1>4, <2>1, <2>2
<1> QED
  BY <1>5, <1>6

\* What is true of the map when the loop is over.
Completed(map0, map) ==
  /\ Kept(map0, map)
  /\ \A q \in DOMAIN map : q > 1 /\ Sibling(q) \in DOMAIN map => q \div 2 \in DOMAIN map

\* All keys that the loop can ever queue: it is over when it has seen as many.
LEMMA RoundsSuffice ==
  ASSUME NEW keys, AreNodes(keys)
  PROVE  \E all : /\ \A q \in all : q \in Nat /\ (q > 1 => q \div 2 \in all)
                  /\ ToSet(keys) \subseteq all
                  /\ IsFiniteSet(all)
                  /\ Rounds(keys) \in Nat /\ Cardinality(all) <= Rounds(keys)
<1> DEFINE ks == ToSet(keys)
           K == Known(ks)
           U == { Parent(k) : k \in ToSet(AllPathIndices(keys)) }
           all == ks \cup U
<1>0. keys \in Seq(Nat) /\ \A k \in ks : k \in Nat /\ k > 0
  BY DEF AreNodes, ToSet
<1>1. U = { q \div 2 : q \in K \ {1} }
  BY AllPathItems DEF Parent
<1> HIDE DEF K, U, ks
<1>2. \A q \in K : q \in Nat /\ q > 0 /\ (q > 1 => q \div 2 \in K)
  BY <1>0, KnownFacts DEF K
<1>3. ks \subseteq K
  BY DEF K, Known
<1>4. \A q \in U : q \in K
  <2>1. ASSUME NEW q \in K \ {1}
        PROVE  q \div 2 \in K
    <3>1. q > 1
      BY <1>2
    <3> QED
      BY <1>2, <3>1
  <2> QED
    BY <1>1, <2>1
<1>5. all \subseteq K
  BY <1>3, <1>4
<1>6. \A q \in all : q \in Nat /\ (q > 1 => q \div 2 \in all)
  <2>1. ASSUME NEW q \in all, q > 1
        PROVE  q \div 2 \in U
    <3>1. q \in K /\ q # 1
      BY <1>2, <1>5, <2>1
    <3> QED
      BY <1>1, <3>1
  <2> QED
    BY <1>2, <1>5, <2>1
<1>7. PICK b \in Nat : \A k \in ks : k \in 0 .. b
  BY <1>0, ItemsHaveBound DEF ks
<1>8. \A q \in K : q <= b
  <2>1. ASSUME NEW q \in K
        PROVE  q <= b
    <3>1. PICK k \in ks : q = k \/ q \in Ancestors[k]
      BY DEF K, Known
    <3>2. k \in Nat /\ k > 0 /\ k <= b
      BY <1>0, <1>7
    <3>3. CASE q = k
      BY <3>2, <3>3
    <3>4. CASE q \in Ancestors[k]
      <4>1. q \in Nat /\ q < k
        BY <3>2, <3>4, AncestorFacts
      <4> QED
        BY <3>2, <4>1
    <3> QED
      BY <3>1, <3>3, <3>4
  <2> QED
    BY <2>1
<1>9. IsFiniteSet(U) /\ IsFiniteSet(ks) /\ IsFiniteSet(all)
  <2>1. ASSUME NEW S, S \subseteq K
        PROVE  IsFiniteSet(S)
    <3>1. S \in SUBSET Nat /\ \A q \in S : q <= b
      BY <1>2, <1>8, <2>1
    <3> QED
      BY <3>1, FS_BoundedSetOfNaturals
  <2> QED
    BY <1>3, <1>4, <1>5, <2>1
<1>10. Cardinality(ks) <= Len(keys) /\ Len(keys) \in Nat
  BY <1>0, ItemsOfSequence DEF ks
<1>11. /\ Cardinality(ks) \in Nat /\ Cardinality(U) \in Nat
       /\ Cardinality(all) <= Cardinality(ks) + Cardinality(U)
  <2>1. /\ Cardinality(ks) \in Nat /\ Cardinality(U) \in Nat
        /\ IsFiniteSet(ks \cap U)
    <3>1. ks \cap U \subseteq ks
      OBVIOUS
    <3> QED
      BY <1>9, <3>1, FS_CardinalityType, FS_Subset
  <2>2. Cardinality(ks \cap U) \in Nat
    BY <2>1, FS_CardinalityType
  <2>3. Cardinality(ks \cup U) = Cardinality(ks) + Cardinality(U) - Cardinality(ks \cap U)
    BY <1>9, FS_Union
  <2> QED
    BY <2>1, <2>2, <2>3
<1>12. Rounds(keys) = Len(keys) + Cardinality(U)
  BY DEF Rounds, U
<1>13. Rounds(keys) \in Nat /\ Cardinality(all) <= Rounds(keys)
  <2>1. Cardinality(all) \in Nat
    BY <1>9, FS_CardinalityType
  <2> QED
    BY <1>10, <1>11, <1>12, <2>1
<1> QED
  BY <1>6, <1>9, <1>13 DEF ks

\* What the loop has after every round up to m.
IsLoop(after, map0, keys0, m) ==
  /\ after[0] = [map |-> map0, keys |-> keys0]
  /\ \A n \in Nat : n + 1 <= m =>
       after[n + 1] = IF n + 1 <= Len(after[n].keys) THEN Combined(after[n], n + 1) ELSE after[n]

\* The recursion of the loop has a solution: the states after its rounds.
LEMMA CombineValue ==
  ASSUME NEW map0, NEW keys0, Rounds(keys0) \in Nat
  PROVE  IsLoop(CombineFrom(map0, keys0), map0, keys0, Rounds(keys0))
<1> DEFINE m == Rounds(keys0)
           s0 == [map |-> map0, keys |-> keys0]
           Next(s, n) == IF n <= Len(s.keys) THEN Combined(s, n) ELSE s
           P(j, g) == g = [ n \in 0 .. j |-> IF n = 0 THEN s0 ELSE Next(g[n - 1], n) ]
           S == { j \in Nat : \E g : P(j, g) }
<1>1. 0 \in S
  <2>1. P(0, [i \in 0 .. 0 |-> s0])
    OBVIOUS
  <2> QED
    BY <2>1
<1>2. ASSUME NEW j \in Nat, j \in S
      PROVE  j + 1 \in S
  <2>1. PICK g : P(j, g)
    BY <1>2
  <2> HIDE DEF Next, s0
  <2> DEFINE w == Next(g[j], j + 1)
             h == [i \in 0 .. j + 1 |-> IF i = j + 1 THEN w ELSE g[i]]
  <2>2. \A i \in 0 .. j : h[i] = g[i]
    OBVIOUS
  <2>3. h[j + 1] = w
    OBVIOUS
  <2>4. ASSUME NEW i \in 0 .. j + 1
        PROVE  h[i] = IF i = 0 THEN s0 ELSE Next(h[i - 1], i)
    <3> HIDE DEF h
    <3>1. CASE i = j + 1
      <4>1. h[i - 1] = g[j] /\ i - 1 = j /\ i # 0
        BY <2>2, <3>1
      <4> QED
        BY <2>3, <3>1, <4>1
    <3>2. CASE i # j + 1
      <4>1. i \in 0 .. j /\ (i # 0 => i - 1 \in 0 .. j)
        BY <3>2
      <4>2. g[i] = IF i = 0 THEN s0 ELSE Next(g[i - 1], i)
        BY <2>1, <4>1
      <4> QED
        BY <2>2, <4>1, <4>2
    <3> QED
      BY <3>1, <3>2
  <2>5. h = [i \in 0 .. j + 1 |-> h[i]]
    OBVIOUS
  <2> HIDE DEF h
  <2>6. P(j + 1, h)
    BY <2>4, <2>5
  <2> HIDE DEF P
  <2> QED
    BY <2>6
<1>3. Nat \subseteq S
  <2> HIDE DEF S
  <2> QED
    BY <1>1, <1>2, Induction
<1> DEFINE after == CHOOSE g : P(m, g)
<1>4. P(m, after)
  <2>1. \E g : P(m, g)
    BY <1>3
  <2> HIDE DEF P
  <2> QED
    BY <2>1
<1>5. CombineFrom(map0, keys0) = after
  BY DEF CombineFrom
<1> HIDE DEF after
<1>6. after[0] = s0
  <2>1. 0 \in 0 .. m
    OBVIOUS
  <2> HIDE DEF Next, m
  <2> QED
    BY <1>4, <2>1
<1>7. ASSUME NEW n \in Nat, n + 1 <= m
      PROVE  after[n + 1] = IF n + 1 <= Len(after[n].keys)
                            THEN Combined(after[n], n + 1) ELSE after[n]
  <2> DEFINE i == n + 1
  <2>1. i \in 0 .. m /\ i # 0 /\ i - 1 = n
    BY <1>7
  <2> HIDE DEF i, Next, m
  <2>2. after[i] = Next(after[i - 1], i)
    BY <1>4, <2>1
  <2> QED
    BY <2>1, <2>2 DEF i, Next
<1>8. IsLoop(after, map0, keys0, m)
  <2> HIDE DEF m
  <2> QED
    BY <1>6, <1>7 DEF IsLoop
<1> QED
  BY <1>5, <1>8

\* When the loop is over, every pair has its parent.
LEMMA LoopCompletes ==
  ASSUME NEW map0, NEW keys0, AreNodes(keys0), Distinct(keys0), ToSet(keys0) = DOMAIN map0
  PROVE  Completed(map0, CombineFrom(map0, keys0)[Rounds(keys0)].map)
<1> DEFINE after == CombineFrom(map0, keys0)
           m == Rounds(keys0)
<1>1. PICK all : /\ \A q \in all : q \in Nat /\ (q > 1 => q \div 2 \in all)
                 /\ ToSet(keys0) \subseteq all
                 /\ IsFiniteSet(all)
                 /\ m \in Nat /\ Cardinality(all) <= m
  BY RoundsSuffice
<1>2. IsLoop(after, map0, keys0, m)
  BY <1>1, CombineValue
<1> HIDE DEF after, m
<1>3. /\ after[0] = [map |-> map0, keys |-> keys0]
      /\ \A n \in Nat : n + 1 <= m =>
           after[n + 1] = IF n + 1 <= Len(after[n].keys)
                          THEN Combined(after[n], n + 1) ELSE after[n]
  BY <1>2 DEF IsLoop
<1>4. keys0 \in Seq(Nat) /\ DOMAIN keys0 = 1 .. Len(keys0)
      /\ \A q : q \in DOMAIN map0 <=> \E i \in 1 .. Len(keys0) : keys0[i] = q
  <2>1. keys0 \in Seq(Nat)
    BY DEF AreNodes
  <2>2. DOMAIN keys0 = 1 .. Len(keys0)
    BY <2>1
  <2> QED
    BY <2>1, <2>2 DEF ToSet
<1> DEFINE Good(n) == Kept(map0, after[n].map) /\ Queued(after[n].map, after[n].keys, all, n)
           S == { n \in Nat : n <= m => Good(n) }
<1>5. 0 \in S
  <2>1. Kept(map0, map0)
    <3>1. \A q \in DOMAIN map0 : q \in Nat /\ q > 0
      <4>1. ASSUME NEW q \in DOMAIN map0 PROVE q \in Nat /\ q > 0
        <5>1. q \in ToSet(keys0)
          OBVIOUS
        <5>2. q > 0
          BY <5>1 DEF AreNodes
        <5> QED
          BY <1>4, <5>2
      <4> QED
        BY <4>1
    <3> QED
      BY <3>1 DEF Kept
  <2>2. Queued(map0, keys0, all, 0)
    <3>1. ASSUME NEW i \in 1 .. Len(keys0)
          PROVE  ~(i <= 0)
      OBVIOUS
    <3>2. \A q \in DOMAIN map0 : q \in all
      BY <1>1
    <3> QED
      BY <1>4, <3>1, <3>2 DEF Queued
  <2> QED
    BY <1>3, <2>1, <2>2
<1>6. ASSUME NEW n \in Nat, n \in S
      PROVE  n + 1 \in S
  <2> SUFFICES ASSUME n + 1 <= m PROVE Good(n + 1)
    OBVIOUS
  <2> DEFINE s == after[n]
             t == after[n + 1]
  <2>1. Kept(map0, s.map) /\ Queued(s.map, s.keys, all, n)
    <3>1. n <= m
      BY <1>1
    <3> QED
      BY <1>6, <3>1
  <2>2. t = IF n + 1 <= Len(s.keys) THEN Combined(s, n + 1) ELSE s
    BY <1>3
  <2> HIDE DEF s, t
  <2>3. Kept(map0, t.map) /\ Queued(t.map, t.keys, all, n + 1)
    BY <1>1, <2>1, <2>2, RoundKeeps
  <2> QED
    BY <2>3 DEF t
<1>7. Nat \subseteq S
  <2> HIDE DEF S
  <2> QED
    BY <1>5, <1>6, Induction
<1> DEFINE map == after[m].map
           keys == after[m].keys
<1>8. Kept(map0, map) /\ Queued(map, keys, all, m)
  <2>1. m \in S /\ m <= m
    BY <1>1, <1>7
  <2> QED
    BY <2>1
<1> HIDE DEF map, keys
<1>9. /\ keys \in Seq(Nat) /\ Distinct(keys)
      /\ \A q : q \in DOMAIN map <=> \E i \in 1 .. Len(keys) : keys[i] = q
      /\ \A q \in DOMAIN map : q \in all
      /\ \A i, j \in 1 .. Len(keys) :
           i <= m /\ j <= m /\ keys[i] > 1 /\ keys[j] = Sibling(keys[i])
             => keys[i] \div 2 \in DOMAIN map
  BY <1>8 DEF Queued
<1>10. Len(keys) \in Nat /\ Len(keys) <= m
  <2>1. Cardinality(ToSet(keys)) = Len(keys) /\ Len(keys) \in Nat
    BY <1>9, ItemsOfSequence
  <2>2. ToSet(keys) \subseteq all
    <3>1. DOMAIN keys = 1 .. Len(keys)
      BY <1>9
    <3> QED
      BY <1>9, <3>1 DEF ToSet
  <2>3. Cardinality(ToSet(keys)) <= Cardinality(all)
    BY <1>1, <2>2, FS_Subset
  <2>4. Cardinality(all) \in Nat
    BY <1>1, FS_CardinalityType
  <2> QED
    BY <1>1, <2>1, <2>3, <2>4
<1>11. ASSUME NEW q \in DOMAIN map, q > 1, Sibling(q) \in DOMAIN map
       PROVE  q \div 2 \in DOMAIN map
  <2>1. PICK i \in 1 .. Len(keys) : keys[i] = q
    BY <1>9
  <2>2. PICK j \in 1 .. Len(keys) : keys[j] = Sibling(q)
    BY <1>9, <1>11
  <2>3. i <= m /\ j <= m
    BY <1>1, <1>10
  <2> QED
    BY <1>9, <1>11, <2>1, <2>2, <2>3
<1>12. Completed(map0, map)
  BY <1>8, <1>11 DEF Completed
<1> QED
  BY <1>12 DEF map, after, m

-----------------------------------------------------------------------------
(* The proof of several values.                                            *)

\* With a node a tree has all nodes on the way to the root.
LEMMA KnownInTree ==
  ASSUME NEW tree, IsTree(tree), NEW ks, ks \subseteq DOMAIN tree
  PROVE  /\ \A k \in ks : k \in Nat /\ k > 0
         /\ Known(ks) \subseteq DOMAIN tree
<1> DEFINE S == { k \in Nat : k \in DOMAIN tree => Ancestors[k] \subseteq DOMAIN tree }
<1>1. ASSUME NEW k \in Nat, \A j \in Nat : j < k => j \in S
      PROVE  k \in S
  <2> SUFFICES ASSUME k \in DOMAIN tree PROVE Ancestors[k] \subseteq DOMAIN tree
    OBVIOUS
  <2>1. CASE k <= 1
    <3>1. Ancestors[k] = {}
      BY <2>1, AncestorsCases
    <3> QED
      BY <3>1
  <2>2. CASE ~(k <= 1)
    <3>1. Ancestors[k] = {k \div 2} \cup Ancestors[k \div 2]
      BY <2>2, AncestorsCases
    <3>2. k \div 2 \in Nat /\ k \div 2 < k /\ k > 1
      BY <2>2
    <3>3. k \div 2 \in DOMAIN tree
      BY <3>2, TreeNodes
    <3>4. Ancestors[k \div 2] \subseteq DOMAIN tree
      BY <1>1, <3>2, <3>3
    <3> QED
      BY <3>1, <3>3, <3>4
  <2> QED
    BY <2>1, <2>2
<1>2. Nat \subseteq S
  <2> HIDE DEF S
  <2> QED
    BY <1>1, StrongInduction
<1>3. \A k \in ks : k \in Nat /\ k > 0 /\ k \in DOMAIN tree
  BY TreeNodes
<1>4. \A k \in ks : Ancestors[k] \subseteq DOMAIN tree
  BY <1>2, <1>3
<1> QED
  BY <1>3, <1>4 DEF Known

\* The known nodes are below a bound when the given ones are.
LEMMA KnownIsBounded ==
  ASSUME NEW ks, \A k \in ks : k \in Nat /\ k > 0, NEW b \in Nat, \A k \in ks : k <= b
  PROVE  \A q \in Known(ks) : q \in 0 .. b
<1> SUFFICES ASSUME NEW q \in Known(ks)
             PROVE  q \in 0 .. b
  OBVIOUS
<1>1. PICK k \in ks : q = k \/ q \in Ancestors[k]
  BY DEF Known
<1>2. k \in Nat /\ k > 0 /\ k <= b
  OBVIOUS
<1>3. CASE q = k
  BY <1>2, <1>3
<1>4. CASE q \in Ancestors[k]
  <2>1. q \in Nat /\ q < k
    BY <1>2, <1>4, AncestorFacts
  <2> QED
    BY <1>2, <2>1
<1> QED
  BY <1>1, <1>3, <1>4

\* What the proof of the nodes `ks' gives and what the loop makes of it.
IsCombination(ks, map0, map) ==
  /\ \A k \in ks : k \in Nat /\ k > 0
  /\ \E b \in Nat : \A k \in ks : k <= b
  /\ DOMAIN map0 = ks \cup MissingSiblings(ks)
  /\ Completed(map0, map)

\* A known node that is not given has two children in the map, one of them known
\* and the other known or given.
LEMMA Children ==
  ASSUME NEW ks, NEW map0, NEW map, IsCombination(ks, map0, map),
         NEW q \in Known(ks), q \notin ks
  PROVE  \E c \in Known(ks) : /\ c \in Nat /\ c > q /\ c > 1 /\ c \div 2 = q
                              /\ Sibling(c) > q
                              /\ Sibling(c) \in Known(ks) \/ Sibling(c) \in DOMAIN map0
<1>1. \A k \in ks : k \in Nat /\ k > 0
  BY DEF IsCombination
<1>2. q \in Nat /\ q > 0
  BY <1>1, KnownFacts
<1>3. PICK c \in Known(ks) : c > 1 /\ c \div 2 = q
  BY <1>1, KnownFacts
<1>4. c \in Nat
  BY <1>1, KnownFacts
<1>5. c > q
  BY <1>2, <1>3, <1>4
<1>6. Sibling(c) \in Nat /\ Sibling(c) > 1 /\ Sibling(c) \div 2 = q
  BY <1>3, <1>4, Siblings
<1>7. Sibling(c) > q
  BY <1>2, <1>6
<1>8. Sibling(c) \in Known(ks) \/ Sibling(c) \in MissingSiblings(ks)
  <2>1. c \in Known(ks) \ {1}
    BY <1>3, <1>4
  <2> QED
    BY <2>1 DEF MissingSiblings, Known
<1>9. Sibling(c) \in Known(ks) \/ Sibling(c) \in DOMAIN map0
  BY <1>8 DEF IsCombination
<1> QED
  BY <1>3, <1>4, <1>5, <1>7, <1>9

\* Every known node is computed.
LEMMA KnownAreComputed ==
  ASSUME NEW ks, NEW map0, NEW map, IsCombination(ks, map0, map)
  PROVE  Known(ks) \subseteq DOMAIN map
<1> DEFINE K == Known(ks)
           S == K \ DOMAIN map
<1>1. \A k \in ks : k \in Nat /\ k > 0
  BY DEF IsCombination
<1>2. PICK b \in Nat : \A q \in K : q \in 0 .. b
  <2>1. PICK b \in Nat : \A k \in ks : k <= b
    BY DEF IsCombination
  <2> QED
    BY <1>1, <2>1, KnownIsBounded
<1>3. SUFFICES ASSUME S # {} PROVE FALSE
  OBVIOUS
<1> DEFINE q == Max(S)
<1>4. q \in S /\ \A i \in S : i <= q
  <2>1. \A i \in S : i \in 0 .. b
    BY <1>2
  <2> HIDE DEF S
  <2> QED
    BY <1>3, <2>1, Greatest
<1> HIDE DEF q
<1>5. DOMAIN map0 \subseteq DOMAIN map
  BY DEF IsCombination, Completed, Kept
<1>6. q \notin ks
  BY <1>4, <1>5 DEF IsCombination
<1>7. PICK c \in K : /\ c \in Nat /\ c > q /\ c > 1 /\ c \div 2 = q
                     /\ Sibling(c) > q
                     /\ Sibling(c) \in K \/ Sibling(c) \in DOMAIN map0
  BY <1>4, <1>6, Children
<1>8. q \in Nat
  BY <1>1, <1>4, KnownFacts
<1>9. ASSUME NEW x \in K, x > q
      PROVE  x \in DOMAIN map
  <2>1. x \in Nat
    BY <1>1, KnownFacts
  <2>2. ~(x <= q)
    BY <1>8, <1>9, <2>1
  <2> QED
    BY <1>4, <2>2
<1>10. c \in DOMAIN map /\ Sibling(c) \in DOMAIN map
  BY <1>5, <1>7, <1>9
<1>11. q \in DOMAIN map
  BY <1>7, <1>10 DEF IsCombination, Completed
<1> QED
  BY <1>4, <1>11

\* A known node that is not given is the hash of a pair.
LEMMA KnownAreHashes ==
  ASSUME NEW ks, Antichain(ks), NEW map0, NEW map, IsCombination(ks, map0, map),
         NEW q \in Known(ks), q > 1
  PROVE  /\ q \in Nat /\ q \in DOMAIN map /\ Sibling(q) \in DOMAIN map
         /\ q \div 2 \in Known(ks)
         /\ map[q \div 2] = HashOfPair(map, q)
<1>1. \A k \in ks : k \in Nat /\ k > 0
  BY DEF IsCombination
<1> DEFINE p == q \div 2
<1>2. q \in Nat /\ p \in Known(ks) /\ \E k \in ks : p \in Ancestors[k]
  BY <1>1, KnownFacts
<1>3. PICK k \in ks : p \in Ancestors[k]
  BY <1>2
<1>4. p \notin ks
  <2>1. p < k /\ p \in Nat /\ k \in Nat
    BY <1>1, <1>3, AncestorFacts
  <2>2. p # k
    BY <2>1
  <2> QED
    BY <1>3, <2>2 DEF Antichain
<1>5. p \notin DOMAIN map0
  <2>1. p \notin MissingSiblings(ks)
    BY <1>2 DEF MissingSiblings, Known
  <2> QED
    BY <1>4, <2>1 DEF IsCombination
<1>6. p \in DOMAIN map
  BY <1>2, KnownAreComputed
<1>7. PICK c \in DOMAIN map : /\ c > 1 /\ c \div 2 = p /\ Sibling(c) \in DOMAIN map
                              /\ map[p] = HashOfPair(map, c)
  BY <1>5, <1>6 DEF IsCombination, Completed, Kept
<1>8. c \in Nat
  BY DEF IsCombination, Completed, Kept
<1>9. c = q \/ c = Sibling(q)
  BY <1>2, <1>7, <1>8, Siblings
<1>10. CASE c = q
  BY <1>2, <1>7, <1>10
<1>11. CASE c = Sibling(q)
  <2>1. Sibling(c) = q /\ (q % 2 = 0 <=> Sibling(q) % 2 = 1) /\ q % 2 \in {0, 1}
    BY <1>2, <1>11, Siblings
  <2>2. q \in DOMAIN map /\ Sibling(q) \in DOMAIN map
    BY <1>7, <1>11, <2>1
  <2>3. HashOfPair(map, q) = IF q % 2 = 1 THEN Hash(map[Sibling(q)], map[q])
                             ELSE Hash(map[q], map[Sibling(q)])
    BY <1>2, <2>2, PairHash
  <2>4. HashOfPair(map, c) = IF c % 2 = 1 THEN Hash(map[Sibling(c)], map[c])
                             ELSE Hash(map[c], map[Sibling(c)])
    BY <1>7, <1>8, PairHash
  <2>5. c % 2 \in {0, 1}
    BY <1>8
  <2>6. HashOfPair(map, c) = HashOfPair(map, q)
    <3>1. CASE q % 2 = 1
      BY <1>11, <2>1, <2>3, <2>4, <2>5, <3>1
    <3>2. CASE q % 2 = 0
      BY <1>11, <2>1, <2>3, <2>4, <2>5, <3>2
    <3> QED
      BY <2>1, <3>1, <3>2
  <2> QED
    BY <1>2, <1>7, <2>2, <2>6
<1> QED
  BY <1>9, <1>10, <1>11

\* The hash of a known node and its sibling is the one in the tree only if both are.
LEMMA PairIsExact ==
  ASSUME NEW tree, IsTree(tree), NEW ks, ks \subseteq DOMAIN tree, Antichain(ks),
         NEW map0, NEW map, IsCombination(ks, map0, map), NEW q \in Known(ks), q > 1
  PROVE  map[q \div 2] = tree[q \div 2]
           <=> map[q] = tree[q] /\ map[Sibling(q)] = tree[Sibling(q)]
<1>1. /\ q \in Nat /\ q \in DOMAIN map /\ Sibling(q) \in DOMAIN map
      /\ map[q \div 2] = HashOfPair(map, q)
  BY KnownAreHashes
<1>2. q \in DOMAIN tree
  BY KnownInTree
<1>3. tree[q \div 2] = IF q % 2 = 1 THEN Hash(tree[Sibling(q)], tree[q])
                       ELSE Hash(tree[q], tree[Sibling(q)])
  BY <1>2, TreeNodes
<1>4. map[q \div 2] = IF q % 2 = 1 THEN Hash(map[Sibling(q)], map[q])
                      ELSE Hash(map[q], map[Sibling(q)])
  BY <1>1, PairHash
<1>5. CASE q % 2 = 1
  <2>1. map[q \div 2] = Hash(map[Sibling(q)], map[q]) /\ tree[q \div 2] = Hash(tree[Sibling(q)], tree[q])
    BY <1>3, <1>4, <1>5
  <2>2. Hash(map[Sibling(q)], map[q]) = Hash(tree[Sibling(q)], tree[q])
          => map[Sibling(q)] = tree[Sibling(q)] /\ map[q] = tree[q]
    BY HashIsInjective
  <2> QED
    BY <2>1, <2>2
<1>6. CASE q % 2 # 1
  <2>1. map[q \div 2] = Hash(map[q], map[Sibling(q)]) /\ tree[q \div 2] = Hash(tree[q], tree[Sibling(q)])
    BY <1>3, <1>4, <1>6
  <2>2. Hash(map[q], map[Sibling(q)]) = Hash(tree[q], tree[Sibling(q)])
          => map[q] = tree[q] /\ map[Sibling(q)] = tree[Sibling(q)]
    BY HashIsInjective
  <2> QED
    BY <2>1, <2>2
<1> QED
  BY <1>5, <1>6

\* The root that the loop computes is the one of the tree exactly if every node
\* that was given is the node of the tree.
LEMMA MapIsExact ==
  ASSUME NEW tree, IsTree(tree), NEW ks, ks \subseteq DOMAIN tree, ks # {}, Antichain(ks),
         NEW map0, NEW map, IsCombination(ks, map0, map)
  PROVE  /\ 1 \in DOMAIN map
         /\ map[1] = tree[1] <=> \A q \in DOMAIN map0 : map0[q] = tree[q]
<1> DEFINE K == Known(ks)
<1>1. \A k \in ks : k \in Nat /\ k > 0
  BY DEF IsCombination
<1>2. /\ 1 \in K
      /\ \A q \in K : q \in Nat /\ q > 0 /\ (q > 1 => q \div 2 \in K)
  BY <1>1, KnownFacts
<1>3. K \subseteq DOMAIN map
  BY KnownAreComputed
<1>4. \A q \in K : q > 1 =>
        (map[q \div 2] = tree[q \div 2] <=> map[q] = tree[q] /\ map[Sibling(q)] = tree[Sibling(q)])
  BY PairIsExact
<1>5. \A q \in DOMAIN map0 : map[q] = map0[q]
  BY DEF IsCombination, Completed, Kept
<1>6. \A q \in DOMAIN map0 : q \in K \/ \E c \in K : c > 1 /\ q = Sibling(c)
  <2>1. \A q \in ks : q \in K
    BY DEF Known
  <2>2. ASSUME NEW q \in MissingSiblings(ks)
        PROVE  \E c \in K : c > 1 /\ q = Sibling(c)
    <3>1. PICK c \in K \ {1} : q = Sibling(c)
      BY DEF MissingSiblings, Known
    <3>2. c > 1
      BY <1>2
    <3> QED
      BY <3>1, <3>2
  <2> QED
    BY <2>1, <2>2 DEF IsCombination
<1>7. ASSUME map[1] = tree[1]
      PROVE  \A q \in DOMAIN map0 : map0[q] = tree[q]
  <2> DEFINE S == { q \in Nat : q \in K => map[q] = tree[q] }
  <2>1. ASSUME NEW q \in Nat, \A j \in Nat : j < q => j \in S
        PROVE  q \in S
    <3> SUFFICES ASSUME q \in K PROVE map[q] = tree[q]
      OBVIOUS
    <3>1. CASE q = 1
      BY <1>7, <3>1
    <3>2. CASE q # 1
      <4>1. q > 1 /\ q \div 2 \in K
        BY <1>2, <3>2
      <4>2. q \div 2 \in Nat /\ q \div 2 < q
        BY <4>1
      <4>3. map[q \div 2] = tree[q \div 2]
        BY <2>1, <4>1, <4>2
      <4> QED
        BY <1>4, <4>1, <4>3
    <3> QED
      BY <3>1, <3>2
  <2>2. Nat \subseteq S
    <3> HIDE DEF S
    <3> QED
      BY <2>1, StrongInduction
  <2>3. \A q \in K : map[q] = tree[q]
    BY <1>2, <2>2
  <2>4. ASSUME NEW c \in K, c > 1
        PROVE  map[Sibling(c)] = tree[Sibling(c)]
    <3>1. map[c \div 2] = tree[c \div 2]
      BY <1>2, <2>3, <2>4
    <3> QED
      BY <1>4, <2>4, <3>1
  <2> QED
    BY <1>5, <1>6, <2>3, <2>4
<1>8. ASSUME \A q \in DOMAIN map0 : map0[q] = tree[q], map[1] # tree[1]
      PROVE  FALSE
  <2> DEFINE S == { q \in K : map[q] # tree[q] }
             q == Max(S)
  <2>1. S # {}
    BY <1>2, <1>8
  <2>2. PICK b \in Nat : \A j \in K : j \in 0 .. b
    <3>1. PICK b \in Nat : \A k \in ks : k <= b
      BY DEF IsCombination
    <3> QED
      BY <1>1, <3>1, KnownIsBounded
  <2>3. q \in S /\ \A j \in S : j <= q
    <3>1. \A j \in S : j \in 0 .. b
      BY <2>2
    <3> HIDE DEF S
    <3> QED
      BY <2>1, <3>1, Greatest
  <2> HIDE DEF q
  <2>4. q \in K /\ map[q] # tree[q] /\ q \in Nat
    BY <1>2, <2>3
  <2>5. q \notin ks
    BY <1>5, <1>8, <2>4 DEF IsCombination
  <2>6. PICK c \in K : /\ c \in Nat /\ c > q /\ c > 1 /\ c \div 2 = q
                       /\ Sibling(c) > q
                       /\ Sibling(c) \in K \/ Sibling(c) \in DOMAIN map0
    BY <2>4, <2>5, Children
  <2>7. ASSUME NEW x \in K, x > q
        PROVE  map[x] = tree[x]
    <3>1. x \in Nat /\ ~(x <= q)
      BY <1>2, <2>4, <2>7
    <3> QED
      BY <2>3, <3>1
  <2>8. map[Sibling(c)] = tree[Sibling(c)]
    BY <1>5, <1>8, <2>6, <2>7
  <2>9. map[c] = tree[c]
    BY <2>6, <2>7
  <2> QED
    BY <1>4, <2>4, <2>6, <2>8, <2>9
<1> QED
  BY <1>2, <1>3, <1>7, <1>8

-----------------------------------------------------------------------------
(* calculateMultiMerkleRoot.                                               *)

\* The map `new' has the values under the keys and otherwise what `map' has.
IsUpdate(new, map, keys, values) ==
  /\ DOMAIN new = DOMAIN map \cup ToSet(keys)
  /\ \A i \in 1 .. Len(keys) : new[keys[i]] = values[i]
  /\ \A k \in DOMAIN map : k \notin ToSet(keys) => new[k] = map[k]

\* Values set for distinct keys are found under these keys.
LEMMA SetAllValue ==
  ASSUME NEW map, NEW keys \in Seq(Nat), Distinct(keys), NEW values
  PROVE  IsUpdate(SetAll(map, keys, values), map, keys, values)
<1> DEFINE P(k) == { i \in DOMAIN keys : keys[i] = k }
           Found(k) == IF k \in ToSet(keys) THEN values[Max(P(k))] ELSE map[k]
<1>1. SetAll(map, keys, values) = [k \in DOMAIN map \cup ToSet(keys) |-> Found(k)]
  BY DEF SetAll
<1>2. DOMAIN keys = 1 .. Len(keys)
  OBVIOUS
<1>3. ToSet(keys) = { keys[i] : i \in 1 .. Len(keys) }
  BY <1>2 DEF ToSet
<1>4. ASSUME NEW i \in 1 .. Len(keys)
      PROVE  keys[i] \in ToSet(keys) /\ Found(keys[i]) = values[i]
  <2>1. P(keys[i]) = {i}
    BY <1>2 DEF Distinct
  <2>2. Max({i}) = i
    <3>1. i \in Nat /\ \A j \in {i} : j \in 0 .. i
      OBVIOUS
    <3>2. {i} # {}
      OBVIOUS
    <3>3. Max({i}) \in {i}
      BY <3>1, <3>2, Greatest
    <3> QED
      BY <3>3
  <2>3. keys[i] \in ToSet(keys)
    BY <1>3
  <2> QED
    BY <2>1, <2>2, <2>3
<1>5. \A k \in DOMAIN map : k \notin ToSet(keys) => Found(k) = map[k]
  OBVIOUS
<1> DEFINE new == SetAll(map, keys, values)
<1>6. DOMAIN new = DOMAIN map \cup ToSet(keys)
  BY <1>1
<1>7. \A k \in DOMAIN map \cup ToSet(keys) : new[k] = Found(k)
  BY <1>1
<1> HIDE DEF Found, new
<1>8. IsUpdate(new, map, keys, values)
  BY <1>4, <1>5, <1>6, <1>7 DEF IsUpdate
<1> QED
  BY <1>8 DEF new

\* For nodes none of which is below another, the root that a proof of several
\* values leads to is the one of the tree exactly if the values are the ones of
\* the nodes and the items of the proof are the ones of the missing siblings.
THEOREM MultiProofExact ==
  ASSUME NEW tree, IsTree(tree), NEW indices, AreNodes(indices), Distinct(indices),
         Antichain(ToSet(indices)), ToSet(indices) \subseteq DOMAIN tree,
         NEW T, NEW proof \in Seq(T), NEW U, NEW leaves \in Seq(U)
  PROVE  CalculateMultiMerkleRoot(EmptyMap, proof, leaves, indices).root = tree[1]
           <=> /\ leaves = NodesOf(tree, indices)
               /\ proof = NodesOf(tree, GetHelperIndices(indices))
<1> DEFINE helpers == GetHelperIndices(indices)
           both == Concat(helpers, indices)
           keys == SortReverse(both)
           map1 == SetAll(EmptyMap, helpers, proof)
           known == SetAll(map1, indices, leaves)
           final == CombineFrom(known, keys)[Rounds(keys)].map
           ks == ToSet(indices)
           hs == ToSet(helpers)
<1>1. /\ indices \in Seq(Nat) /\ Len(indices) \in Nat /\ Len(indices) > 0
      /\ DOMAIN indices = 1 .. Len(indices)
      /\ ks = { indices[i] : i \in 1 .. Len(indices) }
      /\ \A k \in ks : k \in Nat /\ k > 0
  <2>1. indices \in Seq(Nat) /\ indices # <<>> /\ \A k \in ks : k > 0
    BY DEF AreNodes
  <2>2. Len(indices) \in Nat /\ Len(indices) > 0 /\ DOMAIN indices = 1 .. Len(indices)
    BY <2>1
  <2>3. ks = { indices[i] : i \in 1 .. Len(indices) }
    BY <2>2 DEF ToSet
  <2>4. \A i \in 1 .. Len(indices) : indices[i] \in Nat
    BY <2>1
  <2> QED
    BY <2>1, <2>2, <2>3, <2>4
<1>2. /\ helpers \in Seq(Nat) /\ hs = MissingSiblings(ks) /\ Distinct(helpers)
      /\ Len(helpers) \in Nat /\ DOMAIN helpers = 1 .. Len(helpers)
      /\ hs = { helpers[i] : i \in 1 .. Len(helpers) }
  <2>1. helpers \in Seq(Nat) /\ hs = MissingSiblings(ks) /\ Distinct(helpers)
    BY HelpersAreMissing
  <2> HIDE DEF helpers
  <2>2. Len(helpers) \in Nat /\ DOMAIN helpers = 1 .. Len(helpers)
    BY <2>1
  <2>3. hs = { helpers[i] : i \in 1 .. Len(helpers) }
    BY <2>2 DEF ToSet
  <2> QED
    BY <2>1, <2>2, <2>3
<1>3. hs \cap ks = {} /\ \A q \in hs : q \in Nat /\ q > 1 /\ q \in DOMAIN tree
  <2>1. \A q \in hs : q \notin Known(ks) /\ \E c \in Known(ks) \ {1} : q = Sibling(c)
    BY <1>2 DEF MissingSiblings, Known
  <2>2. ks \subseteq Known(ks)
    BY DEF Known
  <2>3. ASSUME NEW q \in hs
        PROVE  q \in Nat /\ q > 1 /\ q \in DOMAIN tree
    <3>1. PICK c \in Known(ks) \ {1} : q = Sibling(c)
      BY <2>1
    <3>2. c \in DOMAIN tree /\ c \in Nat /\ c > 1
      <4>1. c \in DOMAIN tree
        BY KnownInTree
      <4>2. c \in Nat /\ c > 0
        BY <1>1, KnownFacts
      <4> QED
        BY <4>1, <4>2
    <3> QED
      BY <3>1, <3>2, TreeNodes, Siblings
  <2> HIDE DEF hs, ks
  <2> QED
    BY <2>1, <2>2, <2>3
<1>4. /\ CalculateMultiMerkleRoot(EmptyMap, proof, leaves, indices).root
           = IF Len(leaves) # Len(indices) \/ Len(proof) # Len(helpers)
             THEN Reverted ELSE Get(final, 1, ZERO)
  BY DEF CalculateMultiMerkleRoot
<1>5. tree[1] # Reverted
  BY DEF IsTree
<1>6. /\ Len(NodesOf(tree, indices)) = Len(indices)
      /\ Len(NodesOf(tree, helpers)) = Len(helpers)
  <2> HIDE DEF helpers
  <2> QED
    BY <1>1, <1>2 DEF NodesOf
<1>7. CASE Len(leaves) # Len(indices) \/ Len(proof) # Len(helpers)
  <2> HIDE DEF helpers, final
  <2> QED
    BY <1>4, <1>5, <1>6, <1>7 DEF helpers
<1>8. CASE Len(leaves) = Len(indices) /\ Len(proof) = Len(helpers)
  <2> HIDE DEF helpers
  <2>1. /\ DOMAIN map1 = hs
        /\ \A i \in 1 .. Len(helpers) : map1[helpers[i]] = proof[i]
    <3>1. DOMAIN EmptyMap = {}
      BY DEF EmptyMap
    <3>2. IsUpdate(map1, EmptyMap, helpers, proof)
      BY <1>2, SetAllValue
    <3> HIDE DEF map1
    <3> QED
      BY <3>1, <3>2 DEF IsUpdate
  <2> HIDE DEF map1
  <2>2. /\ DOMAIN known = hs \cup ks
        /\ \A i \in 1 .. Len(indices) : known[indices[i]] = leaves[i]
        /\ \A i \in 1 .. Len(helpers) : known[helpers[i]] = proof[i]
    <3>1. IsUpdate(known, map1, indices, leaves)
      BY <1>1, SetAllValue
    <3> HIDE DEF known
    <3>2. \A i \in 1 .. Len(helpers) : helpers[i] \in hs /\ helpers[i] \notin ks
      BY <1>2, <1>3
    <3> QED
      BY <2>1, <3>1, <3>2 DEF IsUpdate
  <2> HIDE DEF known
  <2>3. /\ both \in Seq(Nat) /\ Len(both) = Len(helpers) + Len(indices)
        /\ ToSet(both) = hs \cup ks /\ Distinct(both)
    <3>1. both = helpers \o indices
      BY DEF Concat
    <3>2. both \in Seq(Nat) /\ Len(both) = Len(helpers) + Len(indices)
      BY <1>1, <1>2, <3>1
    <3>3. ToSet(both) = hs \cup ks
      <4>1. helpers \in Seq(Nat) /\ indices \in Seq(Nat)
        BY <1>1, <1>2
      <4>2. ToSet(helpers \o indices) = ToSet(helpers) \cup ToSet(indices)
        BY ONLY <4>1, ToSetConcat, ZenonT(30)
      <4> QED
        BY <1>1, <1>2, <3>1, <4>2
    <3>4. ASSUME NEW i \in DOMAIN both, NEW j \in DOMAIN both, both[i] = both[j]
          PROVE  i = j
      <4> DEFINE n == Len(helpers)
                 m == Len(indices)
      <4>1. DOMAIN both = 1 .. n + m
        BY <3>2
      <4>2. \A x \in 1 .. n + m : both[x] = IF x <= n THEN helpers[x] ELSE indices[x - n]
        BY <1>1, <1>2, <3>1
      <4>3. \A x \in 1 .. n : helpers[x] \in hs /\ helpers[x] \notin ks
        BY <1>2, <1>3
      <4>4. \A x \in 1 .. m : indices[x] \in ks
        BY <1>1
      <4>5. \A x, y \in 1 .. n : helpers[x] = helpers[y] => x = y
        BY <1>2 DEF Distinct
      <4>6. \A x, y \in 1 .. m : indices[x] = indices[y] => x = y
        BY <1>1 DEF Distinct
      <4>7. n \in Nat /\ m \in Nat
        BY <1>1, <1>2
      <4> HIDE DEF both, n, m, hs, ks
      <4>8. i \in 1 .. n + m /\ j \in 1 .. n + m
        BY <4>1
      <4>9. CASE i <= n /\ j <= n
        <5>1. i \in 1 .. n /\ j \in 1 .. n /\ helpers[i] = helpers[j]
          BY <3>4, <4>2, <4>7, <4>8, <4>9
        <5> QED
          BY <4>5, <5>1
      <4>10. CASE ~(i <= n) /\ ~(j <= n)
        <5>1. i - n \in 1 .. m /\ j - n \in 1 .. m
          BY <4>7, <4>8, <4>10
        <5>2. indices[i - n] = indices[j - n]
          BY <3>4, <4>2, <4>8, <4>10
        <5>3. i - n = j - n
          BY <4>6, <5>1, <5>2
        <5> QED
          BY <4>7, <4>8, <5>3
      <4>11. CASE i <= n /\ ~(j <= n)
        <5>1. i \in 1 .. n /\ j - n \in 1 .. m /\ helpers[i] = indices[j - n]
          BY <3>4, <4>2, <4>7, <4>8, <4>11
        <5> QED
          BY <4>3, <4>4, <5>1
      <4>12. CASE ~(i <= n) /\ j <= n
        <5>1. j \in 1 .. n /\ i - n \in 1 .. m /\ helpers[j] = indices[i - n]
          BY <3>4, <4>2, <4>7, <4>8, <4>12
        <5> QED
          BY <4>3, <4>4, <5>1
      <4> QED
        BY <4>9, <4>10, <4>11, <4>12
    <3> QED
      BY <3>2, <3>3, <3>4 DEF Distinct
  <2>4. AreNodes(keys) /\ Distinct(keys) /\ ToSet(keys) = hs \cup ks
    <3> HIDE DEF both
    <3>1. /\ keys \in Seq(Nat) /\ Len(keys) = Len(both) /\ ToSet(keys) = ToSet(both)
          /\ Distinct(keys)
      BY <2>3, SortReverseIsSort
    <3> HIDE DEF keys
    <3>2. keys # <<>>
      <4>1. Len(keys) > 0
        BY <1>1, <1>2, <2>3, <3>1
      <4> QED
        BY <4>1
    <3>3. \A k \in ToSet(keys) : k > 0
      <4>1. ToSet(keys) = hs \cup ks
        BY <2>3, <3>1
      <4> QED
        BY <1>1, <1>3, <4>1
    <3> QED
      BY <2>3, <3>1, <3>2, <3>3 DEF AreNodes
  <2>5. Completed(known, final)
    <3> HIDE DEF keys
    <3> QED
      BY <2>2, <2>4, LoopCompletes
  <2>6. IsCombination(ks, known, final)
    <3>1. PICK b \in Nat : \A k \in ks : k \in 0 .. b
      BY <1>1, ItemsHaveBound
    <3>2. \A k \in ks : k <= b
      BY <3>1
    <3> HIDE DEF ks, hs, final
    <3> QED
      BY <1>1, <1>2, <2>2, <2>5, <3>2 DEF IsCombination
  <2>7. ks # {}
    <3>1. 1 \in 1 .. Len(indices)
      BY <1>1
    <3> HIDE DEF ks
    <3> QED
      BY <1>1, <3>1
  <2> HIDE DEF final
  <2>8. 1 \in DOMAIN final /\ (final[1] = tree[1] <=> \A q \in DOMAIN known : known[q] = tree[q])
    BY <2>6, <2>7, MapIsExact
  <2>9. (\A q \in DOMAIN known : known[q] = tree[q])
          <=> /\ \A i \in 1 .. Len(indices) : leaves[i] = tree[indices[i]]
              /\ \A i \in 1 .. Len(helpers) : proof[i] = tree[helpers[i]]
    <3> HIDE DEF hs, ks
    <3>1. ASSUME \A q \in DOMAIN known : known[q] = tree[q]
          PROVE  /\ \A i \in 1 .. Len(indices) : leaves[i] = tree[indices[i]]
                 /\ \A i \in 1 .. Len(helpers) : proof[i] = tree[helpers[i]]
      BY <1>1, <1>2, <2>2, <3>1
    <3>2. ASSUME \A i \in 1 .. Len(indices) : leaves[i] = tree[indices[i]],
                 \A i \in 1 .. Len(helpers) : proof[i] = tree[helpers[i]],
                 NEW q \in DOMAIN known
          PROVE  known[q] = tree[q]
      <4>1. CASE q \in hs
        <5>1. PICK i \in 1 .. Len(helpers) : q = helpers[i]
          BY <1>2, <4>1
        <5> QED
          BY <2>2, <3>2, <5>1
      <4>2. CASE q \in ks
        <5>1. PICK i \in 1 .. Len(indices) : q = indices[i]
          BY <1>1, <4>2
        <5> QED
          BY <2>2, <3>2, <5>1
      <4> QED
        BY <2>2, <4>1, <4>2
    <3> QED
      BY <3>1, <3>2
  <2>10. leaves = NodesOf(tree, indices)
           <=> \A i \in 1 .. Len(indices) : leaves[i] = tree[indices[i]]
    <3>1. NodesOf(tree, indices) = [i \in 1 .. Len(indices) |-> tree[indices[i]]]
      BY <1>1 DEF NodesOf
    <3>2. leaves = [i \in 1 .. Len(indices) |-> leaves[i]]
      BY <1>8
    <3> HIDE DEF hs, ks
    <3> QED
      BY <3>1, <3>2
  <2>11. proof = NodesOf(tree, helpers)
           <=> \A i \in 1 .. Len(helpers) : proof[i] = tree[helpers[i]]
    <3>1. NodesOf(tree, helpers) = [i \in 1 .. Len(helpers) |-> tree[helpers[i]]]
      BY <1>2 DEF NodesOf
    <3>2. proof = [i \in 1 .. Len(helpers) |-> proof[i]]
      BY <1>8
    <3> HIDE DEF hs, ks
    <3> QED
      BY <3>1, <3>2
  <2>12. CalculateMultiMerkleRoot(EmptyMap, proof, leaves, indices).root = final[1]
    BY <1>4, <1>8, <2>8 DEF Get
  <2> QED
    BY <2>8, <2>9, <2>10, <2>11, <2>12 DEF helpers
<1> QED
  BY <1>7, <1>8

=============================================================================
