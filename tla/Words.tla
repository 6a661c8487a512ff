------------------------------- MODULE Words -------------------------------
(***************************************************************************)
(* The arithmetic on machine words of libraries Merkle and SSZ and of      *)
(* contract BeaconOracle: the logarithm that gives the depth of a          *)
(* generalized index, the little endian encoding of SSZ, and the           *)
(* composition of generalized indices.                                     *)
(*                                                                         *)
(* A word is the set of the positions of its one bits, so that `or', `and' *)
(* and `xor' are union, intersection and symmetric difference.             *)
(***************************************************************************)
EXTENDS Integers, Sequences, SequencesExt, FiniteSetsExt

WIDTH == 256          \* bits of a word of the virtual machine

Word(width) == SUBSET (0 .. width - 1)

Shr(n, word) == { i - n : i \in { j \in word : j >= n } }

\* Bits shifted out at the left end of a word of `width' bits are lost.
Shl(n, word, width) == { i + n : i \in { j \in word : j + n < width } }

\* The word of a number.
Bits[n \in Nat] ==
  IF n = 0 THEN {} ELSE { i + 1 : i \in Bits[n \div 2] } \cup (IF n % 2 = 1 THEN {0} ELSE {})

\* The number of a small word.
Value(word) ==
  LET low[n \in Nat] ==
        IF n = 0 THEN 0 ELSE low[n - 1] + (IF n - 1 \in word THEN 2^(n - 1) ELSE 0)
  IN  low[Max({0} \cup word) + 1]

-----------------------------------------------------------------------------
(* log2.                                                                   *)

DE_BRUIJN == Bits[\h07c4acdd]

LOOKUP ==
  << 0,  9,  1, 10, 13, 21,  2, 29, 11, 14, 16, 18, 22, 25,  3, 30,
     8, 12, 20, 28, 15, 17, 24,  7, 19, 27, 23,  6, 26,  5,  4, 31 >>

\* The 32-bit product with the De Bruijn constant, down to its five highest
\* bits: the ones in each column of the long multiplication, in two halves of
\* 16 bits.
ProductTop(word) ==
  LET ones(column) == Cardinality({ i \in word : column - i \in DE_BRUIJN })
      half(start)  == MapThenSumSet(LAMBDA i : ones(start + i) * 2^i, 0 .. 15)
  IN  ((half(16) + (half(0) \div 2^16)) % 2^16) \div 2^11

\* The constant and the table fit each other: the product of the word of i + 1 ones,
\* for each of the 32 places i of its highest one, leads to i.
ASSUME DeBruijnAssumption == \A i \in 0 .. 31 : LOOKUP[ProductTop(0 .. i) + 1] = i

\* Mutant: the last doubling is missing, so only 16 places are filled.
SmearedShort(word) == UNION { Shr(n, word) : n \in 0 .. 15 }

\* Fills the 31 places below every one bit: the word is combined with its shifts
\* by 1, 2, 4, 8 and 16, each upon the ones before.
Smeared(word) == UNION { Shr(n, word) : n \in 0 .. 31 }

\* log2 reverts on zero.
Log2(word) ==
  LET r7 == IF Shr(128, word) # {} THEN 128 ELSE 0
      r6 == IF Shr(r7 + 64, word) # {} THEN r7 + 64 ELSE r7
      r5 == IF Shr(r6 + 32, word) # {} THEN r6 + 32 ELSE r6
  IN  r5 + LOOKUP[ProductTop(Smeared(Shr(r5, word))) + 1]

-----------------------------------------------------------------------------
(* toLittleEndian.                                                         *)

\* Mutant: the masks are dropped.
SwappedUnmasked(word, n) == Shr(n, word) \cup Shl(n, word, WIDTH)

\* Exchanges neighbouring groups of n bits, by a mask and a shift either way.
Swapped(word, n) ==
  LET upper == { i \in word : (i \div n) % 2 = 1 }
  IN  Shr(n, upper) \cup Shl(n, word \ upper, WIDTH)

ToLittleEndian(word) ==
  Swapped(Swapped(Swapped(Swapped(Swapped(word, 8), 16), 32), 64), 128)

BoolToLittleEndian(b) == IF b THEN {248} ELSE {}

-----------------------------------------------------------------------------
(* Generalized indices.                                                    *)

\* Mutant: the highest bit of `b' is not cleared.
ConcatGindicesKeepsTop(a, b) == Shl(Log2(b), a, 64) \cup b

ConcatGindices(a, b) ==
  LET step == Log2(b)
  IN  Shl(step, a, 64) \cup SymDiff(b, Shl(step, {0}, WIDTH))

\* Addition: a bit is carried to j from a place where both words have a one, over
\* places where either has.  The carry to `width' is that of an overflow.
Plus(a, b, width) ==
  LET carries == { j \in 1 .. width :
                     \E i \in a \cap b : i < j /\ (i + 1) .. (j - 1) \subseteq a \cup b }
  IN  SymDiff(SymDiff(a, b), carries)

\* 798245441765376 = 726 * 2^40
ZERO_VALIDATOR_INDEX == Shl(40, Bits[726], 64)

\* The generalized index register and updateValidator verify validator i at.
ValidatorGindex(i) == Plus(ZERO_VALIDATOR_INDEX, i, 64)

=============================================================================
