----------------------------- MODULE ProofTool -----------------------------
(***************************************************************************)
(* What the tools off chain repeat of the libraries: the proof tool        *)
(* (src/proofs/index.ts) the list of the helper indices, in whose order it *)
(* puts the hashes of a proof, and the debug tool (eip-4788-prover/dbg)    *)
(* the composition of generalized indices.                                 *)
(***************************************************************************)
EXTENDS Merkle

CONSTANT XorLimit     \* 2^31: JavaScript takes ^ on numbers from -XorLimit to XorLimit - 1

ASSUME XorAssumption == XorLimit \in Nat /\ XorLimit > 0 /\ XorLimit % 2 = 0

-----------------------------------------------------------------------------
(* The proof tool, on indices that JavaScript has exactly, below 2^53.     *)

\* The operand of ^: the number that has the same low bits.
Signed(index) == ((index + XorLimit) % (2 * XorLimit)) - XorLimit

ToolSibling(index) == Sibling(Signed(index))

\* The loop of getBranchIndices, which goes on from the sibling.
ToolBranchFrom[k \in Nat] ==
  LET s == ToolSibling(k)
  IN  IF s <= 1 THEN <<>> ELSE <<s>> \o ToolBranchFrom[Parent(s)]

ToolBranchIndices(indices) == FlattenSeq([i \in DOMAIN indices |-> ToolBranchFrom[indices[i]]])

\* filter: the items in some of the places of an array.
Filtered(s, places) ==
  LET out[i \in 0 .. Len(s)] ==
        IF i = 0 THEN <<>>
        ELSE IF i \in places THEN Append(out[i - 1], s[i]) ELSE out[i - 1]
  IN  out[Len(s)]

\* filter(indexOf(item) == x): keeps the first occurrence of every item.
FirstOnly(s) == Filtered(s, { x \in DOMAIN s : \A y \in 1 .. x - 1 : s[y] # s[x] })

\* The sort of JavaScript by a - b, of numbers of which none is repeated: each
\* has all smaller ones before it.
Ascending(s) ==
  [ i \in DOMAIN s |->
      CHOOSE e \in ToSet(s) : Cardinality({ d \in ToSet(s) : d < e }) = i - 1 ]

\* The branches without repetition and without what is on a path.
OffThePaths(indices) ==
  LET branches == FirstOnly(ToolBranchIndices(indices))
      paths    == AllPathIndices(indices)
  IN  Filtered(branches, { x \in DOMAIN branches : branches[x] \notin ToSet(paths) })

\* Mutant: the list is left in the order in which JavaScript sorts it.
ToolHelperIndicesAscending(indices) == Ascending(OffThePaths(indices))

ToolHelperIndices(indices) == Reverse(Ascending(OffThePaths(indices)))

-----------------------------------------------------------------------------
(* The debug tool, on 64-bit numbers.                                      *)

\* Mutant: the shift that 64-bit numbers need in addition is missing.
FloorPowerOfTwoOf32Bits(x) ==
  LET filled == UNION { Shr(n, x) : n \in 0 .. 31 }
  IN  IF x = {} THEN {} ELSE Shr(1, Plus(filled, {0}, 64) \cap (0 .. 63))

\* All places below a one bit are filled, so that one more is the next power.
\* The sum wraps around for numbers of 64 bits; a debug build panics there.
FloorPowerOfTwo(x) ==
  LET filled == UNION { Shr(n, x) : n \in 0 .. 63 }
  IN  IF x = {} THEN {} ELSE Shr(1, Plus(filled, {0}, 64) \cap (0 .. 63))

\* A product with zero or a power of two, and the bits that are left.
ConcatGeneralizedIndices(indices) ==
  LET floor(n) == FloorPowerOfTwo(indices[n])
      o[n \in 0 .. Len(indices)] ==
        IF n = 0 THEN {0}
        ELSE Plus(IF floor(n) = {} THEN {} ELSE Shl(Max(floor(n)), o[n - 1], 64),
                  indices[n] \ floor(n), 64) \cap (0 .. 63)
  IN  o[Len(indices)]

=============================================================================
