--------------------------- MODULE Nesting_proofs ---------------------------
(***************************************************************************)
(* The recursion of Nesting is well defined: what it computes of a thing   *)
(* is joined from what it computes of the things directly inside it,       *)
(* whenever nothing is nested deeper than NESTING steps.                   *)
(***************************************************************************)
EXTENDS Nesting, WellFoundedInduction, TLAPS

-----------------------------------------------------------------------------
(* Induction.                                                              *)

\* Induction from zero, step by step, over the numbers of which a statement is
\* true.
LEMMA NestingInduction ==
  ASSUME NEW S, 0 \in S, \A n \in Nat : n \in S => n + 1 \in S
  PROVE  Nat \subseteq S
<1> SUFFICES ASSUME ~(Nat \subseteq S) PROVE FALSE
  OBVIOUS
<1> DEFINE T == Nat \ S
           R == OpToRel(<, Nat)
<1>1. T \subseteq Nat /\ T # {}
  OBVIOUS
<1>2. IsWellFoundedOn(R, Nat)
  BY NatLessThanWellFounded
<1>3. \A x, y \in Nat : y < x => <<y, x>> \in R
  BY DEF OpToRel
<1> HIDE DEF T, R
<1>4. PICK x \in T : \A y \in T : ~(<<y, x>> \in R)
  BY <1>1, <1>2, WFMin
<1>5. x \in Nat /\ x \notin S
  BY <1>4 DEF T
<1>6. x # 0
  BY <1>5
<1>7. x - 1 \in Nat /\ x - 1 < x /\ (x - 1) + 1 = x
  BY <1>5, <1>6
<1>8. x - 1 \notin T
  BY <1>3, <1>4, <1>5, <1>7
<1>9. x - 1 \in S
  BY <1>7, <1>8 DEF T
<1> QED
  BY <1>5, <1>7, <1>9

-----------------------------------------------------------------------------
(* What is reached.                                                        *)

\* The things directly inside those of a set.
Inner(S) == UNION { { Inside(y)[i] : i \in DOMAIN Inside(y) } : y \in S }

\* From no step to the next one.
LEMMA ReachedEquation ==
  ASSUME NEW x
  PROVE  /\ Reached(x)[0] = {x}
         /\ \A n \in Nat : Reached(x)[n + 1] = Inner(Reached(x)[n])
<1> DEFINE A(k, g) == g = [n \in 0 .. k |-> IF n = 0 THEN {x} ELSE Inner(g[n - 1])]
           S == { k \in Nat : \E g : A(k, g) }
<1>1. 0 \in S
  <2>1. A(0, [n \in 0 .. 0 |-> {x}])
    OBVIOUS
  <2> QED
    BY <2>1
<1>2. ASSUME NEW k \in Nat, k \in S
      PROVE  k + 1 \in S
  <2>1. PICK g : A(k, g)
    BY <1>2
  <2> DEFINE h == [n \in 0 .. k + 1 |-> IF n = k + 1 THEN Inner(g[k]) ELSE g[n]]
  <2>2. ASSUME NEW n \in 0 .. k + 1
        PROVE  h[n] = IF n = 0 THEN {x} ELSE Inner(h[n - 1])
    <3>1. CASE n = k + 1
      <4>1. n # 0 /\ n - 1 = k /\ k \in 0 .. k + 1 /\ k # k + 1
        BY <3>1
      <4>2. h[n] = Inner(g[k]) /\ h[k] = g[k]
        BY <3>1, <4>1
      <4> QED
        BY <4>1, <4>2
    <3>2. CASE n # k + 1
      <4>1. n \in 0 .. k /\ h[n] = g[n]
        BY <3>2
      <4>2. n # 0 => n - 1 \in 0 .. k + 1 /\ n - 1 # k + 1 /\ n - 1 \in 0 .. k
        BY <4>1
      <4>3. n # 0 => h[n - 1] = g[n - 1]
        BY <4>2
      <4>4. g[n] = IF n = 0 THEN {x} ELSE Inner(g[n - 1])
        BY <2>1, <4>1
      <4> QED
        BY <4>1, <4>3, <4>4
    <3> QED
      BY <3>1, <3>2
  <2>3. h = [n \in 0 .. k + 1 |-> h[n]]
    OBVIOUS
  <2> HIDE DEF h
  <2>4. A(k + 1, h)
    BY <2>2, <2>3
  <2> HIDE DEF A
  <2> QED
    BY <2>4
<1>3. Nat \subseteq S
  <2> HIDE DEF S
  <2> QED
    BY <1>1, <1>2, NestingInduction
<1> DEFINE G(k) == CHOOSE g : A(k, g)
           f == [n \in Nat |-> G(n)[n]]
<1>4. \A k \in Nat : A(k, G(k))
  <2> TAKE k \in Nat
  <2>1. \E g : A(k, g)
    BY <1>3
  <2> HIDE DEF A
  <2> QED
    BY <2>1
<1> HIDE DEF G
<1>5. \A n \in Nat : \A k \in Nat : n <= k => G(k)[n] = G(n)[n]
  <2> DEFINE U == { n \in Nat : \A k \in Nat : n <= k => G(k)[n] = G(n)[n] }
  <2>1. 0 \in U
    <3>1. \A k \in Nat : G(k)[0] = {x}
      <4> TAKE k \in Nat
      <4>1. A(k, G(k)) /\ 0 \in 0 .. k
        BY <1>4
      <4> QED
        BY <4>1
    <3> QED
      BY <3>1
  <2>2. ASSUME NEW n \in Nat, n \in U
        PROVE  n + 1 \in U
    <3>1. ASSUME NEW k \in Nat, n + 1 <= k
          PROVE  G(k)[n + 1] = Inner(G(n)[n])
      <4>1. A(k, G(k)) /\ n + 1 \in 0 .. k /\ n + 1 # 0 /\ (n + 1) - 1 = n /\ n <= k
        BY <1>4, <3>1
      <4>2. G(k)[n + 1] = Inner(G(k)[n])
        BY <4>1
      <4> QED
        BY <2>2, <4>1, <4>2
    <3>2. n + 1 \in Nat /\ n + 1 <= n + 1
      OBVIOUS
    <3>3. G(n + 1)[n + 1] = Inner(G(n)[n])
      BY <3>1, <3>2
    <3> QED
      BY <3>1, <3>2, <3>3
  <2>3. Nat \subseteq U
    <3> HIDE DEF U
    <3> QED
      BY <2>1, <2>2, NestingInduction
  <2> QED
    BY <2>3
<1>6. ASSUME NEW n \in Nat
      PROVE  f[n] = IF n = 0 THEN {x} ELSE Inner(f[n - 1])
  <2>1. A(n, G(n)) /\ n \in 0 .. n
    BY <1>4
  <2>2. G(n)[n] = IF n = 0 THEN {x} ELSE Inner(G(n)[n - 1])
    BY <2>1
  <2>3. n # 0 => n - 1 \in Nat /\ n - 1 <= n
    OBVIOUS
  <2>4. n # 0 => G(n)[n - 1] = G(n - 1)[n - 1]
    BY <1>5, <2>3
  <2> QED
    BY <2>2, <2>3, <2>4
<1>7. f = [n \in Nat |-> IF n = 0 THEN {x} ELSE Inner(f[n - 1])]
  <2>1. f = [n \in Nat |-> f[n]]
    OBVIOUS
  <2> HIDE DEF f
  <2> QED
    BY <1>6, <2>1
<1> HIDE DEF f
<1> DEFINE at == CHOOSE g : g = [n \in Nat |-> IF n = 0 THEN {x} ELSE Inner(g[n - 1])]
<1>8. at = [n \in Nat |-> IF n = 0 THEN {x} ELSE Inner(at[n - 1])]
  BY <1>7
<1>9. Reached(x) = at
  BY DEF Reached, Inner
<1> HIDE DEF at
<1>10. at[0] = {x}
  BY <1>8
<1>11. ASSUME NEW n \in Nat
       PROVE  at[n + 1] = Inner(at[n])
  <2>1. n + 1 \in Nat /\ n + 1 # 0 /\ (n + 1) - 1 = n
    OBVIOUS
  <2> QED
    BY <1>8, <2>1
<1> QED
  BY <1>9, <1>10, <1>11


-----------------------------------------------------------------------------
(* How deep a thing is nested.                                             *)

\* Nothing is more than n steps inside of x.
Nests(x, n) == Reached(x)[n + 1] = {}

\* What is reached from a thing is reached from those inside it, a step less.
LEMMA ReachedInside ==
  ASSUME NEW x, NEW n \in Nat
  PROVE  Reached(x)[n + 1]
           = UNION { Reached(Inside(x)[i])[n] : i \in DOMAIN Inside(x) }
<1> DEFINE Below(k) == UNION { Reached(Inside(x)[i])[k] : i \in DOMAIN Inside(x) }
           S == { k \in Nat : Reached(x)[k + 1] = Below(k) }
<1>1. 0 \in S
  <2>1. Reached(x)[0 + 1] = Inner(Reached(x)[0]) /\ Reached(x)[0] = {x}
    BY ReachedEquation
  <2>2. Inner({x}) = { Inside(x)[i] : i \in DOMAIN Inside(x) }
    BY DEF Inner
  <2>3. \A i \in DOMAIN Inside(x) : Reached(Inside(x)[i])[0] = {Inside(x)[i]}
    BY ReachedEquation
  <2>4. Below(0) = { Inside(x)[i] : i \in DOMAIN Inside(x) }
    BY <2>3
  <2> HIDE DEF Below
  <2> QED
    BY <2>1, <2>2, <2>4
<1>2. ASSUME NEW k \in Nat, k \in S
      PROVE  k + 1 \in S
  <2>1. Reached(x)[(k + 1) + 1] = Inner(Reached(x)[k + 1])
    BY ReachedEquation
  <2>2. \A i \in DOMAIN Inside(x) :
          Reached(Inside(x)[i])[k + 1] = Inner(Reached(Inside(x)[i])[k])
    BY ReachedEquation
  <2>3. Inner(Below(k)) = Below(k + 1)
    BY <2>2 DEF Inner
  <2>4. Reached(x)[k + 1] = Below(k)
    BY <1>2
  <2> HIDE DEF Below
  <2> QED
    BY <2>1, <2>3, <2>4
<1>3. Nat \subseteq S
  <2> HIDE DEF S
  <2> QED
    BY <1>1, <1>2, NestingInduction
<1> QED
  BY <1>3

\* A thing with nothing in it.
LEMMA NestsNothing ==
  ASSUME NEW x
  PROVE  Nests(x, 0) <=> DOMAIN Inside(x) = {}
<1>1. Reached(x)[0 + 1] = Inner(Reached(x)[0]) /\ Reached(x)[0] = {x}
  BY ReachedEquation
<1>2. Inner({x}) = {} <=> DOMAIN Inside(x) = {}
  BY DEF Inner
<1>3. Nests(x, 0) <=> Reached(x)[0 + 1] = {}
  BY DEF Nests
<1> QED
  BY <1>1, <1>2, <1>3

\* A thing nests one step deeper than those inside it.
LEMMA NestsInside ==
  ASSUME NEW x, NEW n \in Nat
  PROVE  Nests(x, n + 1) <=> \A i \in DOMAIN Inside(x) : Nests(Inside(x)[i], n)
<1>1. n + 1 \in Nat
  OBVIOUS
<1>2. Reached(x)[(n + 1) + 1]
        = UNION { Reached(Inside(x)[i])[n + 1] : i \in DOMAIN Inside(x) }
  BY <1>1, ReachedInside
<1> QED
  BY <1>2 DEF Nests

\* A bound may be raised.
LEMMA NestsAtMostMore ==
  ASSUME NEW x, NEW m \in Nat, NEW n \in Nat, m <= n, Nests(x, m)
  PROVE  Nests(x, n)
<1> DEFINE S == { k \in Nat : Nests(x, m + k) }
<1>1. 0 \in S
  <2>1. m + 0 = m
    OBVIOUS
  <2> QED
    BY <2>1
<1>2. ASSUME NEW k \in Nat, k \in S
      PROVE  k + 1 \in S
  <2>1. Reached(x)[(m + k) + 1] = {}
    BY <1>2 DEF Nests
  <2>2. (m + k) + 1 \in Nat
    OBVIOUS
  <2>3. Reached(x)[((m + k) + 1) + 1] = Inner({})
    BY <2>1, <2>2, ReachedEquation
  <2>4. Inner({}) = {}
    BY DEF Inner
  <2>5. m + (k + 1) = (m + k) + 1
    OBVIOUS
  <2> QED
    BY <2>3, <2>4, <2>5 DEF Nests
<1>3. Nat \subseteq S
  <2> HIDE DEF S
  <2> QED
    BY <1>1, <1>2, NestingInduction
<1>4. n - m \in Nat /\ m + (n - m) = n
  OBVIOUS
<1>5. n - m \in S
  BY <1>3, <1>4
<1> QED
  BY <1>4, <1>5

\* What is inside a thing nests no deeper.
LEMMA InsideNests ==
  ASSUME NEW x, NEW n \in Nat, Nests(x, n), NEW i \in DOMAIN Inside(x)
  PROVE  Nests(Inside(x)[i], n) /\ n > 0 /\ Nests(Inside(x)[i], n - 1)
<1>1. n # 0
  BY NestsNothing
<1>2. n - 1 \in Nat /\ (n - 1) + 1 = n /\ n - 1 <= n
  BY <1>1
<1>3. Nests(Inside(x)[i], n - 1)
  BY <1>2, NestsInside
<1> QED
  BY <1>1, <1>2, <1>3, NestsAtMostMore

-----------------------------------------------------------------------------
(* The parts of a thing.                                                   *)

\* A set of things in which nothing nests too deep and nothing is missing.
Closed(P) ==
  \A y \in P : Nests(y, NESTING) /\ \A i \in DOMAIN Inside(y) : Inside(y)[i] \in P

\* The parts of a thing are such a set, and it is one of them.
LEMMA PartsClosed ==
  ASSUME NEW x, Nests(x, NESTING)
  PROVE  Closed(Parts(x)) /\ x \in Parts(x)
<1> DEFINE S == { n \in Nat : \A y \in Reached(x)[n] : Nests(y, NESTING) }
<1>1. 0 \in S
  <2>1. Reached(x)[0] = {x}
    BY ReachedEquation
  <2> QED
    BY <2>1
<1>2. ASSUME NEW n \in Nat, n \in S
      PROVE  n + 1 \in S
  <2> SUFFICES ASSUME NEW z \in Reached(x)[n + 1]
               PROVE  Nests(z, NESTING)
    OBVIOUS
  <2>1. Reached(x)[n + 1] = Inner(Reached(x)[n])
    BY ReachedEquation
  <2>2. PICK y \in Reached(x)[n] : \E i \in DOMAIN Inside(y) : z = Inside(y)[i]
    BY <2>1 DEF Inner
  <2>3. Nests(y, NESTING) /\ NESTING \in Nat
    BY <1>2 DEF NESTING
  <2> QED
    BY <2>2, <2>3, InsideNests
<1>3. Nat \subseteq S
  <2> HIDE DEF S
  <2> QED
    BY <1>1, <1>2, NestingInduction
<1>4. ASSUME NEW y \in Parts(x)
      PROVE  Nests(y, NESTING)
  <2>1. PICK n \in 0 .. NESTING : y \in Reached(x)[n]
    BY DEF Parts
  <2>2. n \in S
    BY <1>3 DEF NESTING
  <2> QED
    BY <2>1, <2>2
<1>5. ASSUME NEW y \in Parts(x), NEW i \in DOMAIN Inside(y)
      PROVE  Inside(y)[i] \in Parts(x)
  <2>1. PICK n \in 0 .. NESTING : y \in Reached(x)[n]
    BY DEF Parts
  <2>2. n \in Nat
    BY DEF NESTING
  <2>3. Inside(y)[i] \in Reached(x)[n + 1]
    <3>1. Reached(x)[n + 1] = Inner(Reached(x)[n])
      BY <2>2, ReachedEquation
    <3> QED
      BY <2>1, <3>1 DEF Inner
  <2>4. n # NESTING
    BY <2>3 DEF Nests
  <2>5. n + 1 \in 0 .. NESTING
    BY <2>4 DEF NESTING
  <2> QED
    BY <2>3, <2>5 DEF Parts
<1>6. x \in Parts(x)
  <2>1. x \in Reached(x)[0] /\ 0 \in 0 .. NESTING
    BY ReachedEquation DEF NESTING
  <2> QED
    BY <2>1 DEF Parts
<1> QED
  BY <1>4, <1>5, <1>6 DEF Closed

-----------------------------------------------------------------------------
(* The recursion.                                                          *)

\* What is joined of a thing when `result' has what is computed of the others.
Joined(y, result) == Join(y, [i \in DOMAIN Inside(y) |-> result[Inside(y)[i]]])

\* Only the results of what is inside a thing matter.
LEMMA JoinedSame ==
  ASSUME NEW y, NEW f, NEW g, \A i \in DOMAIN Inside(y) : f[Inside(y)[i]] = g[Inside(y)[i]]
  PROVE  Joined(y, f) = Joined(y, g)
<1>1. [i \in DOMAIN Inside(y) |-> f[Inside(y)[i]]] = [i \in DOMAIN Inside(y) |-> g[Inside(y)[i]]]
  OBVIOUS
<1> QED
  BY <1>1 DEF Joined

\* There is a function with the values of the recursion: first of what has
\* nothing inside, then a step more at a time.
LEMMA ResultExists ==
  ASSUME NEW P, Closed(P)
  PROVE  \E f : f = [y \in P |-> Joined(y, f)]
<1> DEFINE Q(n) == { y \in P : Nests(y, n) }
           A(n, g) == g = [y \in Q(n) |-> Joined(y, g)]
           S == { n \in Nat : \E g : A(n, g) }
<1>0. ASSUME NEW n \in Nat, NEW y \in Q(n), NEW i \in DOMAIN Inside(y)
      PROVE  n > 0 /\ Inside(y)[i] \in Q(n) /\ Inside(y)[i] \in Q(n - 1)
  <2>1. Inside(y)[i] \in P
    BY DEF Closed
  <2> QED
    BY <2>1, InsideNests
<1>1. 0 \in S
  <2> DEFINE h == [y \in Q(0) |-> Joined(y, <<>>)]
  <2>1. ASSUME NEW y \in Q(0)
        PROVE  Joined(y, <<>>) = Joined(y, h)
    <3>1. DOMAIN Inside(y) = {}
      BY NestsNothing
    <3> HIDE DEF h, Q
    <3> QED
      BY <3>1, JoinedSame
  <2>2. A(0, h)
    <3> HIDE DEF Q
    <3>1. h = [y \in Q(0) |-> h[y]] /\ \A y \in Q(0) : h[y] = Joined(y, <<>>)
      OBVIOUS
    <3> HIDE DEF h
    <3> QED
      BY <2>1, <3>1
  <2> HIDE DEF A
  <2> QED
    BY <2>2
<1>2. ASSUME NEW n \in Nat, n \in S
      PROVE  n + 1 \in S
  <2>1. PICK g : A(n, g)
    BY <1>2
  <2> DEFINE h == [y \in Q(n + 1) |-> Joined(y, g)]
  <2>2. Q(n) \subseteq Q(n + 1)
    BY NestsAtMostMore
  <2>3. \A y \in Q(n) : h[y] = g[y]
    <3> HIDE DEF Q
    <3>1. \A y \in Q(n) : g[y] = Joined(y, g)
      BY <2>1
    <3> QED
      BY <2>2, <3>1
  <2>4. ASSUME NEW y \in Q(n + 1)
        PROVE  Joined(y, g) = Joined(y, h)
    <3>1. n + 1 \in Nat /\ (n + 1) - 1 = n
      OBVIOUS
    <3> HIDE DEF Q, h
    <3>2. \A i \in DOMAIN Inside(y) : Inside(y)[i] \in Q(n)
      BY <1>0, <3>1
    <3> QED
      BY <2>3, <3>2, JoinedSame
  <2>5. A(n + 1, h)
    <3> HIDE DEF Q
    <3>1. h = [y \in Q(n + 1) |-> h[y]] /\ \A y \in Q(n + 1) : h[y] = Joined(y, g)
      OBVIOUS
    <3> HIDE DEF h
    <3> QED
      BY <2>4, <3>1
  <2> HIDE DEF A
  <2> QED
    BY <2>5
<1>3. NESTING \in S
  <2>1. NESTING \in Nat
    BY DEF NESTING
  <2> HIDE DEF S
  <2>2. Nat \subseteq S
    BY <1>1, <1>2, NestingInduction
  <2> QED
    BY <2>1, <2>2
<1>4. Q(NESTING) = P
  BY DEF Closed
<1> HIDE DEF Q
<1> QED
  BY <1>3, <1>4

\* The function that Fold defines.
Result(P) == CHOOSE f : f = [y \in P |-> Joined(y, f)]

\* On a set with all that is inside, that function meets its equation.
LEMMA ResultEquation ==
  ASSUME NEW P, Closed(P), NEW y \in P
  PROVE  Result(P)[y] = Joined(y, Result(P))
<1>1. Result(P) = [z \in P |-> Joined(z, Result(P))]
  BY ResultExists DEF Result
<1> QED
  BY <1>1

\* Where it starts from makes no difference to the result of a thing.
LEMMA ResultsAgree ==
  ASSUME NEW P, NEW Q, Closed(P), Closed(Q), NEW x, x \in P, x \in Q
  PROVE  Result(P)[x] = Result(Q)[x]
<1> DEFINE S == { n \in Nat : \A y : y \in P /\ y \in Q /\ Nests(y, n) => Result(P)[y] = Result(Q)[y] }
<1>1. ASSUME NEW y, y \in P, y \in Q,
             \A i \in DOMAIN Inside(y) : Result(P)[Inside(y)[i]] = Result(Q)[Inside(y)[i]]
      PROVE  Result(P)[y] = Result(Q)[y]
  <2>1. Result(P)[y] = Joined(y, Result(P)) /\ Result(Q)[y] = Joined(y, Result(Q))
    BY <1>1, ResultEquation
  <2>2. Joined(y, Result(P)) = Joined(y, Result(Q))
    BY <1>1, JoinedSame
  <2> QED
    BY <2>1, <2>2
<1>2. 0 \in S
  <2> SUFFICES ASSUME NEW y, y \in P, y \in Q, Nests(y, 0)
               PROVE  Result(P)[y] = Result(Q)[y]
    OBVIOUS
  <2>1. DOMAIN Inside(y) = {}
    BY NestsNothing
  <2> QED
    BY <1>1, <2>1
<1>3. ASSUME NEW n \in Nat, n \in S
      PROVE  n + 1 \in S
  <2> SUFFICES ASSUME NEW y, y \in P, y \in Q, Nests(y, n + 1)
               PROVE  Result(P)[y] = Result(Q)[y]
    OBVIOUS
  <2>1. ASSUME NEW i \in DOMAIN Inside(y)
        PROVE  Result(P)[Inside(y)[i]] = Result(Q)[Inside(y)[i]]
    <3>1. Inside(y)[i] \in P /\ Inside(y)[i] \in Q
      BY DEF Closed
    <3>2. Nests(Inside(y)[i], n)
      BY NestsInside
    <3> QED
      BY <1>3, <3>1, <3>2
  <2> QED
    BY <1>1, <2>1
<1>4. NESTING \in S
  <2>1. NESTING \in Nat
    BY DEF NESTING
  <2> HIDE DEF S
  <2>2. Nat \subseteq S
    BY <1>2, <1>3, NestingInduction
  <2> QED
    BY <2>1, <2>2
<1>5. Nests(x, NESTING)
  BY DEF Closed
<1> QED
  BY <1>4, <1>5

\* What the recursion computes of a thing is joined from what it computes of those
\* directly inside it.
LEMMA FoldEquation ==
  ASSUME NEW x, Nests(x, NESTING)
  PROVE  Fold(x) = Join(x, [i \in DOMAIN Inside(x) |-> Fold(Inside(x)[i])])
<1>1. \A y : Fold(y) = Result(Parts(y))[y]
  BY DEF Fold, Result, Joined
<1>2. Closed(Parts(x)) /\ x \in Parts(x)
  BY PartsClosed
<1>3. Fold(x) = Join(x, [i \in DOMAIN Inside(x) |-> Result(Parts(x))[Inside(x)[i]]])
  BY <1>1, <1>2, ResultEquation DEF Joined
<1>4. ASSUME NEW i \in DOMAIN Inside(x)
      PROVE  Result(Parts(x))[Inside(x)[i]] = Fold(Inside(x)[i])
  <2>1. Nests(Inside(x)[i], NESTING) /\ Inside(x)[i] \in Parts(x)
    BY <1>2 DEF Closed
  <2>2. Closed(Parts(Inside(x)[i])) /\ Inside(x)[i] \in Parts(Inside(x)[i])
    BY <2>1, PartsClosed
  <2> QED
    BY <1>1, <1>2, <2>1, <2>2, ResultsAgree
<1>5. [i \in DOMAIN Inside(x) |-> Result(Parts(x))[Inside(x)[i]]]
        = [i \in DOMAIN Inside(x) |-> Fold(Inside(x)[i])]
  BY <1>4
<1> QED
  BY <1>3, <1>5

=============================================================================
