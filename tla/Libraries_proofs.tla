-------------------------- MODULE Libraries_proofs --------------------------
(***************************************************************************)
(* The properties of module Libraries, for every word, array, record,      *)
(* block, tree and proof.                                                  *)
(***************************************************************************)
EXTENDS Libraries, SimpleSerialize_proofs

-----------------------------------------------------------------------------
(* The inputs.                                                             *)

\* What is chosen is of its kind.
InputsFit ==
  /\ kind = "word" => /\ first \in SUBSET (0 .. WIDTH - 1)
                      /\ second # {} => first \in SUBSET (0 .. 63) /\ second \in SUBSET (0 .. 63)
  /\ kind = "array" => first \in Seq(Nat) /\ second \in Seq(Nat)
  /\ kind = "validator" => first \in ValidatorRecord /\ second \in ValidatorRecord
  /\ kind = "header" => first \in HeaderRecord /\ second \in HeaderRecord
  /\ kind = "withdrawal" => first \in WithdrawalRecord /\ second \in WithdrawalRecord
  /\ kind = "block" => IsBlock(first)
  /\ kind = "proof" => IsSubmitted(first) /\ IsTree(Trees[first.tree])

\* The inputs that the functions are called with are the ones they are for.
THEOREM InputsFitTheorem == Spec => []InputsFit
<1>1. Init => InputsFit
  BY DEF Init, InputsFit
<1>2. InputsFit /\ [Next]_vars => InputsFit'
  <2> SUFFICES ASSUME InputsFit, [Next]_vars
               PROVE  InputsFit'
    OBVIOUS
  <2> USE LibrariesAssumption DEF LibrariesAssumption
  <2>1. CASE Words1
    <3>1. kind' = "word" /\ first' \in SUBSET (0 .. WIDTH - 1) /\ second' = {}
      BY <2>1 DEF Words1, Choose
    <3> QED
      BY <3>1 DEF InputsFit
  <2>2. CASE Words2
    <3>1. /\ kind' = "word" /\ first' \in SUBSET (0 .. 63) /\ second' \in SUBSET (0 .. 63)
          /\ first' \in SUBSET (0 .. WIDTH - 1)
      BY <2>2 DEF Words2, Choose, WIDTH
    <3> QED
      BY <3>1 DEF InputsFit
  <2>3. CASE SortedArray
    <3>1. kind' = "array" /\ first' \in Seq(Nat) /\ second' = <<>>
      BY <2>3 DEF SortedArray, Choose
    <3>2. second' \in Seq(Nat)
      BY <3>1
    <3> QED
      BY <3>1, <3>2 DEF InputsFit
  <2>4. CASE Arrays2
    <3>1. kind' = "array" /\ first' \in Seq(Nat) /\ second' \in Seq(Nat)
      BY <2>4 DEF Arrays2, Choose
    <3> QED
      BY <3>1 DEF InputsFit
  <2>5. CASE Validators2
    <3>1. kind' = "validator" /\ first' \in ValidatorRecord /\ second' \in ValidatorRecord
      BY <2>5 DEF Validators2, Choose
    <3> QED
      BY <3>1 DEF InputsFit
  <2>6. CASE Headers2
    <3>1. kind' = "header" /\ first' \in HeaderRecord /\ second' \in HeaderRecord
      BY <2>6 DEF Headers2, Choose
    <3> QED
      BY <3>1 DEF InputsFit
  <2>7. CASE Withdrawals2
    <3>1. kind' = "withdrawal" /\ first' \in WithdrawalRecord /\ second' \in WithdrawalRecord
      BY <2>7 DEF Withdrawals2, Choose
    <3> QED
      BY <3>1 DEF InputsFit
  <2>8. CASE AProof
    <3>1. kind' = "proof" /\ IsSubmitted(first')
      BY <2>8 DEF AProof, Choose
    <3>2. IsTree(Trees[first'.tree])
      BY <3>1 DEF IsSubmitted
    <3> QED
      BY <3>1, <3>2 DEF InputsFit
  <2>9. CASE ABlock
    <3>1. kind' = "block" /\ IsBlock(first')
      BY <2>9 DEF ABlock, Choose
    <3> QED
      BY <3>1 DEF InputsFit
  <2>10. CASE Chosen \/ UNCHANGED vars
    <3>1. kind' = kind /\ first' = first /\ second' = second
      BY <2>10 DEF Chosen, vars
    <3> QED
      BY <3>1 DEF InputsFit
  <2> QED
    BY <2>1, <2>2, <2>3, <2>4, <2>5, <2>6, <2>7, <2>8, <2>9, <2>10 DEF Next
<1> QED
  BY <1>1, <1>2, PTL DEF Spec

-----------------------------------------------------------------------------
(* Words and arrays.                                                       *)

\* log2 finds the highest one bit of every word but zero.
THEOREM Log2Theorem == Spec => []Log2IsHighestBit
<1>1. InputsFit => Log2IsHighestBit
  <2> SUFFICES ASSUME InputsFit, kind = "word", first # {}
               PROVE  Log2(first) = Max(first)
    BY DEF Log2IsHighestBit
  <2>1. \A i \in first : i \in 0 .. WIDTH - 1
    BY DEF InputsFit
  <2> QED
    BY <2>1, Log2IsMax
<1> QED
  BY <1>1, InputsFitTheorem, PTL

\* toLittleEndian reverses the bytes of every word.
THEOREM LittleEndianTheorem == Spec => []LittleEndianReversesBytes
<1>1. InputsFit => LittleEndianReversesBytes
  <2> SUFFICES ASSUME InputsFit, kind = "word"
               PROVE  /\ ToLittleEndian(first)
                           = { (8 * (31 - (i \div 8))) + (i % 8) : i \in first }
                      /\ BoolToLittleEndian(first # {})
                           = ToLittleEndian(IF first # {} THEN {0} ELSE {})
    BY DEF LittleEndianReversesBytes
  <2>1. \A i \in first : i \in 0 .. WIDTH - 1
    BY DEF InputsFit
  <2>2. ToLittleEndian(first) = { (8 * (31 - (i \div 8))) + (i % 8) : i \in first }
    BY <2>1, LittleEndianMirrors
  <2>3. ToLittleEndian({}) = {}
    <3>1. ToLittleEndian({}) = { (8 * (31 - (i \div 8))) + (i % 8) : i \in {} }
      BY LittleEndianMirrors
    <3> QED
      BY <3>1
  <2>4. ToLittleEndian({0}) = {248}
    <3>1. \A i \in {0} : i \in 0 .. WIDTH - 1
      BY DEF WIDTH
    <3>2. ToLittleEndian({0}) = { (8 * (31 - (i \div 8))) + (i % 8) : i \in {0} }
      BY <3>1, LittleEndianMirrors
    <3>3. (8 * (31 - (0 \div 8))) + (0 % 8) = 248
      OBVIOUS
    <3> QED
      BY <3>2, <3>3
  <2>5. BoolToLittleEndian(first # {}) = ToLittleEndian(IF first # {} THEN {0} ELSE {})
    <3>1. CASE first = {}
      BY <2>3, <3>1 DEF BoolToLittleEndian
    <3>2. CASE first # {}
      BY <2>4, <3>2 DEF BoolToLittleEndian
    <3> QED
      BY <3>1, <3>2
  <2> QED
    BY <2>2, <2>5
<1> QED
  BY <1>1, InputsFitTheorem, PTL

\* concatGindices appends the way of the second index to that of the first.
THEOREM ConcatTheorem == Spec => []ConcatIsDescent
<1>1. InputsFit => ConcatIsDescent
  <2> SUFFICES ASSUME InputsFit, kind = "word", first # {}, second # {},
                      Max(first) + Max(second) < 64
               PROVE  /\ Shr(Max(second), ConcatGindices(first, second)) = first
                      /\ \A i \in 0 .. Max(second) - 1 :
                           i \in ConcatGindices(first, second) <=> i \in second
    BY DEF ConcatIsDescent
  <2>1. \A i \in first \cup second : i \in 0 .. 63
    BY DEF InputsFit
  <2> QED
    BY <2>1, ConcatDescends
<1> QED
  BY <1>1, InputsFitTheorem, PTL

\* sortReverse sorts every array and neither drops nor doubles an item.
THEOREM SortTheorem == Spec => []SortReverseSorts
<1>1. InputsFit => SortReverseSorts
  <2> DEFINE sorted == SortReverse(first)
  <2> SUFFICES ASSUME InputsFit, kind = "array"
               PROVE  /\ IsSorted(sorted, >=)
                      /\ Len(sorted) = Len(first)
                      /\ \A e \in ToSet(first) : Count(sorted, e) = Count(first, e)
    BY DEF SortReverseSorts
  <2>1. first \in Seq(Nat)
    BY DEF InputsFit
  <2>2. /\ Len(sorted) = Len(first)
        /\ \A i, j \in 1 .. Len(first) : i < j => sorted[i] >= sorted[j]
        /\ \A e : Cardinality({i \in DOMAIN sorted : sorted[i] = e})
                    = Cardinality({i \in DOMAIN first : first[i] = e})
    BY <2>1, SortReverseIsSort
  <2> HIDE DEF sorted
  <2> QED
    BY <2>2 DEF IsSorted, Count
<1> QED
  BY <1>1, InputsFitTheorem, PTL

\* difference leaves every item that is not to be removed, once.
THEOREM DifferenceTheorem == Spec => []DifferenceIsExact
<1>1. InputsFit => DifferenceIsExact
  <2> SUFFICES ASSUME InputsFit, kind = "array"
               PROVE  /\ ToSet(Difference(first, second)) = ToSet(first) \ ToSet(second)
                      /\ Distinct(Difference(first, second))
    BY DEF DifferenceIsExact
  <2>1. first \in Seq(Nat) /\ second \in Seq(Nat)
    BY DEF InputsFit
  <2> QED
    BY <2>1, DifferenceKeepsLast
<1> QED
  BY <1>1, InputsFitTheorem, PTL

-----------------------------------------------------------------------------
(* Merkle proofs.                                                          *)

\* What is submitted is a proof as the theorems about library Merkle have it.
LEMMA SubmittedFacts ==
  ASSUME NEW p, IsSubmitted(p), NEW tree, tree = Trees[p.tree], IsTree(tree)
  PROVE  /\ AreNodes(p.indices) /\ Distinct(p.indices) /\ Antichain(ToSet(p.indices))
         /\ ToSet(p.indices) \subseteq DOMAIN tree
         /\ \A k \in ToSet(p.indices) : IsIndex(k)
         /\ Len(p.indices) \in Nat /\ Len(p.indices) > 0
         /\ \A i \in 1 .. Len(p.indices) : p.indices[i] \in ToSet(p.indices)
         /\ p.leaves \in Seq(ToSet(p.leaves)) /\ p.proof \in Seq(ToSet(p.proof))
<1> DEFINE ks == p.indices
<1>1. /\ ks \in Seq(DOMAIN tree) /\ ks # <<>> /\ Distinct(ks) /\ Antichain(ToSet(ks))
      /\ \A k \in ToSet(ks) : Bits[k] \subseteq 0 .. WIDTH - 1
      /\ p.leaves \in Seq(ToSet(p.leaves)) /\ p.proof \in Seq(ToSet(p.proof))
  BY DEF IsSubmitted, AreIndices
<1>2. \A k \in DOMAIN tree : k \in Nat /\ k > 0
  BY TreeNodes
<1> HIDE DEF ks
<1>3. DOMAIN ks = 1 .. Len(ks) /\ Len(ks) \in Nat /\ Len(ks) > 0
  BY <1>1
<1>4. \A i \in 1 .. Len(ks) : ks[i] \in DOMAIN tree
  BY <1>1, <1>3
<1>5. \A k : k \in ToSet(ks) <=> \E i \in 1 .. Len(ks) : ks[i] = k
  BY <1>3 DEF ToSet
<1>6. ToSet(ks) \subseteq DOMAIN tree
  BY <1>4, <1>5
<1>7. ks \in Seq(Nat)
  <2>1. \A i \in 1 .. Len(ks) : ks[i] \in Nat
    BY <1>2, <1>4
  <2>2. ks = [i \in 1 .. Len(ks) |-> ks[i]]
    BY <1>1
  <2>3. ks \in [1 .. Len(ks) -> Nat]
    BY <2>1, <2>2
  <2> QED
    BY <1>3, <2>3
<1>8. AreNodes(ks) /\ \A k \in ToSet(ks) : IsIndex(k)
  BY <1>1, <1>2, <1>6, <1>7 DEF AreNodes, IsIndex
<1> QED
  BY <1>1, <1>3, <1>5, <1>6, <1>8 DEF ks

\* A proof of one value is accepted exactly if it is the right one.
THEOREM SingleProofTheorem == Spec => []SingleProofIsExact
<1>1. InputsFit => SingleProofIsExact
  <2> DEFINE tree == Trees[first.tree]
             k == first.indices[1]
             proof == first.proof
             leaf == first.leaves[1]
  <2> SUFFICES ASSUME InputsFit, kind = "proof", Len(first.indices) = 1
               PROVE  CalculateMerkleRoot(proof, leaf, k) = tree[1]
                        <=> /\ leaf = tree[k]
                            /\ proof = NodesOf(tree, GetBranchIndices(k))
    BY DEF SingleProofIsExact, Tree
  <2>1. IsSubmitted(first) /\ IsTree(tree)
    BY DEF InputsFit
  <2>2. /\ ToSet(first.indices) \subseteq DOMAIN tree
        /\ \A q \in ToSet(first.indices) : IsIndex(q)
        /\ \A i \in 1 .. Len(first.indices) : first.indices[i] \in ToSet(first.indices)
        /\ proof \in Seq(ToSet(proof))
    BY <2>1, SubmittedFacts
  <2>3. k \in DOMAIN tree /\ IsIndex(k)
    <3>1. 1 \in 1 .. Len(first.indices)
      OBVIOUS
    <3> QED
      BY <2>2, <3>1
  <2> HIDE DEF tree, k, proof, leaf
  <2> QED
    BY <2>1, <2>2, <2>3, SingleProofExact
<1> QED
  BY <1>1, InputsFitTheorem, PTL

\* A proof of several values at once is accepted exactly if it is the right one.
THEOREM MultiProofTheorem == Spec => []MultiProofIsExact
<1>1. InputsFit => MultiProofIsExact
  <2> DEFINE tree == Trees[first.tree]
             ks == first.indices
             proof == first.proof
             leaves == first.leaves
  <2> SUFFICES ASSUME InputsFit, kind = "proof"
               PROVE  CalculateMultiMerkleRoot(EmptyMap, proof, leaves, ks).root = tree[1]
                        <=> /\ leaves = NodesOf(tree, ks)
                            /\ proof = NodesOf(tree, GetHelperIndices(ks))
    BY DEF MultiProofIsExact, Tree
  <2>1. IsSubmitted(first) /\ IsTree(tree)
    BY DEF InputsFit
  <2>2. /\ AreNodes(ks) /\ Distinct(ks) /\ Antichain(ToSet(ks)) /\ ToSet(ks) \subseteq DOMAIN tree
        /\ leaves \in Seq(ToSet(leaves)) /\ proof \in Seq(ToSet(proof))
    BY <2>1, SubmittedFacts
  <2> HIDE DEF tree, ks, proof, leaves
  <2> QED
    BY <2>1, <2>2, MultiProofExact
<1> QED
  BY <1>1, InputsFitTheorem, PTL

\* The helper indices are those of the nodes that a proof needs and no others.
THEOREM HelpersTheorem == Spec => []HelpersAreMissingSiblings
<1>1. InputsFit => HelpersAreMissingSiblings
  <2> DEFINE helpers == GetHelperIndices(first.indices)
  <2> SUFFICES ASSUME InputsFit, kind = "proof"
               PROVE  /\ ToSet(helpers) = MissingSiblings(ToSet(first.indices))
                      /\ IsSorted(helpers, >)
    BY DEF HelpersAreMissingSiblings
  <2>1. AreNodes(first.indices)
    BY SubmittedFacts DEF InputsFit
  <2>2. /\ ToSet(helpers) = MissingSiblings(ToSet(first.indices))
        /\ \A i, j \in 1 .. Len(helpers) : i < j => helpers[i] > helpers[j]
    BY <2>1, HelpersAreMissing
  <2> HIDE DEF helpers
  <2> QED
    BY <2>2 DEF IsSorted
<1> QED
  BY <1>1, InputsFitTheorem, PTL

\* The two verifications of a proof of one value never differ.
THEOREM VerifyProofTheorem == Spec => []VerifyProofAgrees
<1>1. InputsFit => VerifyProofAgrees
  <2> DEFINE tree == Trees[first.tree]
             proof == first.proof
             leaf == first.leaves[1]
  <2> SUFFICES ASSUME InputsFit, kind = "proof", NEW k \in {0} \cup ToSet(first.indices)
               PROVE  VerifyProof(proof, tree[1], leaf, k)
                        <=> CalculateMerkleRoot(proof, leaf, k) = tree[1]
    BY DEF VerifyProofAgrees, Tree
  <2>1. IsSubmitted(first) /\ IsTree(tree)
    BY DEF InputsFit
  <2>2. (k = 0 \/ IsIndex(k)) /\ proof \in Seq(ToSet(proof))
    BY <2>1, SubmittedFacts
  <2> HIDE DEF tree, proof, leaf
  <2> QED
    BY <2>1, <2>2, VerifyProofSame
<1> QED
  BY <1>1, InputsFitTheorem, PTL

-----------------------------------------------------------------------------
(* The tools off chain.                                                    *)

\* A filter leaves the items in the places it is told, and repeats none if none
\* of these is repeated.
LEMMA FilteredItems ==
  ASSUME NEW T, NEW s \in Seq(T), NEW places
  PROVE  /\ Filtered(s, places) \in Seq(T)
         /\ ToSet(Filtered(s, places)) = { s[x] : x \in { y \in 1 .. Len(s) : y \in places } }
         /\ (\A x, y \in 1 .. Len(s) : x \in places /\ y \in places /\ s[x] = s[y] => x = y)
              => Distinct(Filtered(s, places))
<1> DEFINE n == Len(s)
           P(k, g) == g = [ i \in 0 .. k |->
                              IF i = 0 THEN <<>>
                              ELSE IF i \in places THEN Append(g[i - 1], s[i]) ELSE g[i - 1] ]
           S == { k \in Nat : \E g : P(k, g) }
<1>1. n \in Nat /\ DOMAIN s = 1 .. n /\ \A i \in 1 .. n : s[i] \in T
  OBVIOUS
<1> HIDE DEF n
<1>2. 0 \in S
  <2>1. P(0, [i \in 0 .. 0 |-> <<>>])
    OBVIOUS
  <2> QED
    BY <2>1
<1>3. ASSUME NEW k \in Nat, k \in S
      PROVE  k + 1 \in S
  <2>1. PICK g : P(k, g)
    BY <1>3
  <2> DEFINE w == IF k + 1 \in places THEN Append(g[k], s[k + 1]) ELSE g[k]
             h == [i \in 0 .. k + 1 |-> IF i = k + 1 THEN w ELSE g[i]]
  <2>2. \A i \in 0 .. k : h[i] = g[i]
    OBVIOUS
  <2>3. h[k + 1] = w
    OBVIOUS
  <2>4. ASSUME NEW i \in 0 .. k + 1
        PROVE  h[i] = IF i = 0 THEN <<>>
                      ELSE IF i \in places THEN Append(h[i - 1], s[i]) ELSE h[i - 1]
    <3> HIDE DEF h
    <3>1. CASE i = k + 1
      <4>1. h[i - 1] = g[k] /\ i - 1 = k /\ i # 0
        BY <2>2, <3>1
      <4> QED
        BY <2>3, <3>1, <4>1
    <3>2. CASE i # k + 1
      <4>1. i \in 0 .. k /\ (i # 0 => i - 1 \in 0 .. k)
        BY <3>2
      <4>2. g[i] = IF i = 0 THEN <<>>
                   ELSE IF i \in places THEN Append(g[i - 1], s[i]) ELSE g[i - 1]
        BY <2>1, <4>1
      <4> QED
        BY <2>2, <4>1, <4>2
    <3> QED
      BY <3>1, <3>2
  <2>5. h = [i \in 0 .. k + 1 |-> h[i]]
    OBVIOUS
  <2> HIDE DEF h
  <2>6. P(k + 1, h)
    BY <2>4, <2>5
  <2> HIDE DEF P
  <2> QED
    BY <2>6
<1>4. Nat \subseteq S
  <2> HIDE DEF S
  <2> QED
    BY <1>2, <1>3, Induction
<1> DEFINE out == CHOOSE g : P(n, g)
<1>5. P(n, out)
  <2>1. \E g : P(n, g)
    BY <1>1, <1>4
  <2> HIDE DEF P
  <2> QED
    BY <2>1
<1>6. Filtered(s, places) = out[n]
  BY DEF Filtered, n
<1> HIDE DEF out
<1> DEFINE Stay(i) == { s[x] : x \in { y \in 1 .. i : y \in places } }
           Once(i) == \A x, y \in 1 .. i : x \in places /\ y \in places /\ s[x] = s[y] => x = y
           R == { i \in Nat : i <= n => /\ out[i] \in Seq(T)
                                        /\ ToSet(out[i]) = Stay(i)
                                        /\ Once(i) => Distinct(out[i]) }
<1>7. 0 \in R
  <2>1. out[0] = <<>>
    BY <1>1, <1>5
  <2>2. Stay(0) = {}
    OBVIOUS
  <2> HIDE DEF Stay
  <2>3. out[0] \in Seq(T) /\ Distinct(out[0])
    BY <2>1 DEF Distinct
  <2> QED
    BY <2>1, <2>2, <2>3, ToSetEmpty
<1>8. ASSUME NEW i \in Nat, i \in R
      PROVE  i + 1 \in R
  <2> SUFFICES ASSUME i + 1 <= n
               PROVE  /\ out[i + 1] \in Seq(T)
                      /\ ToSet(out[i + 1]) = Stay(i + 1)
                      /\ Once(i + 1) => Distinct(out[i + 1])
    BY SMTT(30)
  <2>1. out[i + 1] = IF i + 1 \in places THEN Append(out[i], s[i + 1]) ELSE out[i]
    <3>1. i + 1 \in 0 .. n /\ i + 1 # 0 /\ (i + 1) - 1 = i
      BY <1>1
    <3> QED
      BY <1>5, <3>1
  <2>2. out[i] \in Seq(T) /\ ToSet(out[i]) = Stay(i) /\ (Once(i) => Distinct(out[i]))
    BY <1>1, <1>8
  <2>3. Once(i + 1) => Once(i)
    OBVIOUS
  <2>4. CASE i + 1 \notin places
    <3>1. Stay(i + 1) = Stay(i)
      BY <2>4
    <3> QED
      BY <2>1, <2>2, <2>3, <2>4, <3>1
  <2>5. CASE i + 1 \in places
    <3>1. s[i + 1] \in T
      BY <1>1
    <3>2. out[i + 1] = Append(out[i], s[i + 1])
      BY <2>1, <2>5
    <3>3. Once(i + 1) => s[i + 1] \notin Stay(i)
      BY <2>5
    <3>4. Stay(i + 1) = Stay(i) \cup {s[i + 1]}
      BY <2>5
    <3> HIDE DEF Stay, Once
    <3>5. out[i + 1] \in Seq(T)
      BY <2>2, <3>1, <3>2
    <3>6. ToSet(out[i + 1]) = ToSet(out[i]) \cup {s[i + 1]}
      BY <2>2, <3>1, <3>2, ToSetAppend
    <3>7. Once(i + 1) => Distinct(out[i + 1])
      BY <2>2, <2>3, <3>1, <3>2, <3>3 DEF ToSet, Distinct
    <3> QED
      BY <2>2, <3>4, <3>5, <3>6, <3>7
  <2> QED
    BY <2>4, <2>5
<1>9. Nat \subseteq R
  <2> HIDE DEF R
  <2> QED
    BY <1>7, <1>8, Induction
<1>10. n \in R
  BY <1>1, <1>9
<1> QED
  BY <1>1, <1>6, <1>10 DEF n

\* The first occurrences: every item, and none twice.
LEMMA FirstOnlyItems ==
  ASSUME NEW T, NEW s \in Seq(T)
  PROVE  /\ FirstOnly(s) \in Seq(T)
         /\ ToSet(FirstOnly(s)) = ToSet(s)
         /\ Distinct(FirstOnly(s))
<1> DEFINE n == Len(s)
           places == { x \in DOMAIN s : \A y \in 1 .. x - 1 : s[y] # s[x] }
<1>1. n \in Nat /\ DOMAIN s = 1 .. n
  OBVIOUS
<1> HIDE DEF n
<1>2. \A x, y \in 1 .. n : x \in places /\ y \in places /\ s[x] = s[y] => x = y
  <2> SUFFICES ASSUME NEW x \in 1 .. n, NEW y \in 1 .. n,
                      x \in places, y \in places, s[x] = s[y], x # y
               PROVE  FALSE
    OBVIOUS
  <2>1. x < y \/ y < x
    BY <1>1
  <2>2. CASE x < y
    <3>1. x \in 1 .. y - 1
      BY <1>1, <2>2
    <3> QED
      BY <3>1
  <2>3. CASE y < x
    <3>1. y \in 1 .. x - 1
      BY <1>1, <2>3
    <3> QED
      BY <3>1
  <2> QED
    BY <2>1, <2>2, <2>3
<1>3. { s[x] : x \in { y \in 1 .. n : y \in places } } = ToSet(s)
  <2>1. ASSUME NEW e \in ToSet(s)
        PROVE  \E x \in places : s[x] = e
    <3>1. PICK i \in 1 .. n : s[i] = e
      BY <1>1 DEF ToSet
    <3> DEFINE S == { m \in Nat : m \in 1 .. n => (s[m] = e => \E x \in places : s[x] = e) }
    <3>2. ASSUME NEW m \in Nat, \A k \in Nat : k < m => k \in S
          PROVE  m \in S
      <4> SUFFICES ASSUME m \in 1 .. n, s[m] = e
                   PROVE  \E x \in places : s[x] = e
        OBVIOUS
      <4>1. CASE \A y \in 1 .. m - 1 : s[y] # s[m]
        BY <1>1, <4>1
      <4>2. CASE \E y \in 1 .. m - 1 : s[y] = s[m]
        <5>1. PICK y \in 1 .. m - 1 : s[y] = s[m]
          BY <4>2
        <5>2. y \in Nat /\ y < m /\ y \in 1 .. n
          BY <1>1
        <5> QED
          BY <3>2, <5>1, <5>2
      <4> QED
        BY <4>1, <4>2
    <3>3. Nat \subseteq S
      <4> HIDE DEF S
      <4> QED
        BY <3>2, StrongInduction
    <3>4. i \in S
      BY <3>3
    <3> HIDE DEF places
    <3> QED
      BY <3>1, <3>4
  <2>2. ToSet(s) = { s[x] : x \in 1 .. n }
    BY <1>1 DEF ToSet
  <2>3. places \subseteq 1 .. n
    BY <1>1
  <2> HIDE DEF places
  <2> QED
    BY <2>1, <2>2, <2>3
<1>4. FirstOnly(s) = Filtered(s, places)
  BY DEF FirstOnly
<1> HIDE DEF places
<1>5. /\ Filtered(s, places) \in Seq(T)
      /\ ToSet(Filtered(s, places)) = { s[x] : x \in { y \in 1 .. n : y \in places } }
      /\ Distinct(Filtered(s, places))
  BY <1>2, FilteredItems DEF n
<1> QED
  BY <1>3, <1>4, <1>5

\* How many items of a descending array are below one of them.
LEMMA BelowCount ==
  ASSUME NEW h \in Seq(Nat), \A i, j \in 1 .. Len(h) : i < j => h[i] > h[j],
         NEW i \in 1 .. Len(h)
  PROVE  Cardinality({ d \in ToSet(h) : d < h[i] }) = Len(h) - i
<1> DEFINE n == Len(h)
           B == { d \in ToSet(h) : d < h[i] }
           f == [j \in i + 1 .. n |-> h[j]]
<1>1. n \in Nat /\ DOMAIN h = 1 .. n /\ ToSet(h) = { h[j] : j \in 1 .. n }
      /\ \A j \in 1 .. n : h[j] \in Nat
  BY DEF ToSet
<1>2. \A j, k \in 1 .. n : j < k => h[j] > h[k]
  OBVIOUS
<1>3. i \in 1 .. n
  OBVIOUS
<1> HIDE DEF n
<1>4. f \in Bijection(i + 1 .. n, B)
  <2>1. \A j \in i + 1 .. n : j \in 1 .. n /\ h[j] \in B
    BY <1>1, <1>2, <1>3
  <2>2. \A j, k \in i + 1 .. n : h[j] = h[k] => j = k
    <3> SUFFICES ASSUME NEW j \in i + 1 .. n, NEW k \in i + 1 .. n, h[j] = h[k], j # k
                 PROVE  FALSE
      OBVIOUS
    <3>1. j < k \/ k < j
      BY <1>1, <1>3
    <3>2. h[j] \in Nat /\ h[k] \in Nat
      BY <1>1, <2>1
    <3>3. h[j] > h[k] \/ h[k] > h[j]
      BY <1>2, <2>1, <3>1
    <3> QED
      BY <3>2, <3>3
  <2>3. ASSUME NEW d \in B
        PROVE  \E j \in i + 1 .. n : h[j] = d
    <3>1. PICK j \in 1 .. n : d = h[j]
      BY <1>1
    <3>2. h[j] < h[i] /\ h[j] \in Nat /\ h[i] \in Nat
      BY <1>1, <1>3, <3>1
    <3>3. j # i /\ ~(j < i)
      BY <1>2, <1>3, <3>2
    <3>4. j \in i + 1 .. n
      <4> HIDE DEF f, B
      <4> QED
        BY ONLY <1>1, <3>3, i \in 1 .. n, j \in 1 .. n
    <3> QED
      BY ONLY <3>1, <3>4
  <2> HIDE DEF B
  <2>4. f \in [i + 1 .. n -> B]
    BY <2>1
  <2>5. \A j \in i + 1 .. n : f[j] = h[j]
    OBVIOUS
  <2> HIDE DEF f
  <2>6. f \in Injection(i + 1 .. n, B)
    BY <2>2, <2>4, <2>5 DEF Injection, IsInjective
  <2>7. f \in Surjection(i + 1 .. n, B)
    BY <2>3, <2>4, <2>5 DEF Surjection
  <2> QED
    BY <2>6, <2>7 DEF Bijection
<1>5. IsFiniteSet(i + 1 .. n) /\ Cardinality(i + 1 .. n) = n - i
  <2>1. i + 1 \in Int /\ n \in Int
    BY <1>1, <1>3
  <2>2. Cardinality(i + 1 .. n) = IF i + 1 > n THEN 0 ELSE n - (i + 1) + 1
    BY <2>1, FS_Interval
  <2> QED
    BY <1>1, <1>3, <2>1, <2>2, FS_Interval
<1>6. Cardinality(B) = Cardinality(i + 1 .. n)
  <2> HIDE DEF B, f
  <2>1. ExistsBijection(i + 1 .. n, B)
    BY <1>4 DEF ExistsBijection
  <2> DEFINE I == i + 1 .. n
  <2>2. IsFiniteSet(I) /\ ExistsBijection(I, B)
    BY <1>5, <2>1
  <2> HIDE DEF I
  <2>3. Cardinality(B) = Cardinality(I)
    BY <2>2, FS_Bijection
  <2> QED
    BY <2>3 DEF I
<1> HIDE DEF B
<1> QED
  BY <1>5, <1>6 DEF B, n

\* An array without repetition, sorted upwards and turned around, is the
\* descending array of the same items.
LEMMA AscendingReversed ==
  ASSUME NEW h \in Seq(Nat), \A i, j \in 1 .. Len(h) : i < j => h[i] > h[j],
         NEW t \in Seq(Nat), Distinct(t), ToSet(t) = ToSet(h)
  PROVE  Reverse(Ascending(t)) = h
<1> DEFINE n == Len(h)
           S == ToSet(h)
           Under(e) == Cardinality({ d \in S : d < e })
<1>1. n \in Nat /\ DOMAIN h = 1 .. n /\ S = { h[j] : j \in 1 .. n }
  BY DEF ToSet
<1>2. \A i \in 1 .. n : Under(h[i]) = n - i
  BY BelowCount
<1>3. Len(t) = n
  <2> DEFINE m == Len(t)
  <2>1. m \in Nat /\ DOMAIN t = 1 .. m /\ ToSet(t) = { t[j] : j \in 1 .. m }
    BY DEF ToSet
  <2>2. \A i, j \in 1 .. m : t[i] = t[j] => i = j
    BY <2>1 DEF Distinct
  <2>3. \A i, j \in 1 .. n : h[i] = h[j] => i = j
    <3> SUFFICES ASSUME NEW i \in 1 .. n, NEW j \in 1 .. n, h[i] = h[j]
                 PROVE  i = j
      OBVIOUS
    <3>1. n - i = n - j
      BY <1>2
    <3> QED
      BY <1>1, <3>1
  <2>4. t \in Bijection(1 .. m, S)
    <3>1. t \in [1 .. m -> S]
      BY <2>1
    <3> QED
      BY <2>1, <2>2, <3>1 DEF Bijection, Injection, IsInjective, Surjection
  <2>5. h \in Bijection(1 .. n, S)
    <3>1. h \in [1 .. n -> S]
      BY <1>1
    <3> QED
      BY <1>1, <2>3, <3>1 DEF Bijection, Injection, IsInjective, Surjection
  <2> HIDE DEF S, m, n
  <2>6. Cardinality(1 .. m) = m /\ IsFiniteSet(1 .. m)
    BY <2>1, FS_Interval
  <2>7. Cardinality(1 .. n) = n /\ IsFiniteSet(1 .. n)
    BY <1>1, FS_Interval
  <2>8. Cardinality(S) = Cardinality(1 .. m)
    <3>1. ExistsBijection(1 .. m, S)
      BY <2>4 DEF ExistsBijection
    <3> QED
      BY <2>6, <3>1, FS_Bijection
  <2>9. Cardinality(S) = Cardinality(1 .. n)
    <3>1. ExistsBijection(1 .. n, S)
      BY <2>5 DEF ExistsBijection
    <3> QED
      BY <2>7, <3>1, FS_Bijection
  <2> QED
    BY <2>6, <2>7, <2>8, <2>9 DEF m
<1> DEFINE a == Ascending(t)
<1>4. a = [i \in 1 .. n |-> CHOOSE e \in S : Under(e) = i - 1]
  <2>1. DOMAIN t = 1 .. n
    BY <1>3
  <2> QED
    BY <2>1 DEF Ascending
<1> HIDE DEF S, n
<1>5. ASSUME NEW k \in 1 .. n
      PROVE  a[n - k + 1] = h[k]
  <2> DEFINE i == n - k + 1
  <2>1. i \in 1 .. n /\ n - k = i - 1
    BY <1>1
  <2>2. a[i] = CHOOSE e \in S : Under(e) = i - 1
    BY <1>4, <2>1
  <2>3. h[k] \in S /\ Under(h[k]) = i - 1
    BY <1>1, <1>2, <2>1
  <2>4. ASSUME NEW e \in S, Under(e) = i - 1
        PROVE  e = h[k]
    <3>1. PICK j \in 1 .. n : e = h[j]
      BY <1>1
    <3>2. n - j = n - k
      BY <1>2, <2>1, <2>4, <3>1
    <3> QED
      BY <1>1, <3>1, <3>2
  <2> HIDE DEF Under, i
  <2>5. (CHOOSE e \in S : Under(e) = i - 1) = h[k]
    BY <2>3, <2>4
  <2> QED
    BY <2>2, <2>5 DEF i
<1>6. a \in Seq({ a[i] : i \in 1 .. n }) /\ Len(a) = n
  <2> HIDE DEF a, Under
  <2>1. DOMAIN a = 1 .. n /\ a = [i \in 1 .. n |-> a[i]]
    BY <1>4
  <2> DEFINE A == { a[i] : i \in 1 .. n }
  <2>2. \A i \in 1 .. n : a[i] \in A
    OBVIOUS
  <2> HIDE DEF A
  <2>3. a \in [1 .. n -> A]
    BY <2>1, <2>2
  <2>4. n \in Nat
    BY <1>1
  <2>5. a \in Seq(A) /\ Len(a) = n
    BY ONLY <2>3, <2>4
  <2> QED
    BY <2>5 DEF A
<1> HIDE DEF a
<1>7. Reverse(a) = [k \in 1 .. n |-> a[(n - k) + 1]]
  BY <1>6 DEF Reverse
<1>8. Reverse(a) = [k \in 1 .. n |-> h[k]]
  BY <1>5, <1>7
<1>9. h = [k \in 1 .. n |-> h[k]]
  BY <1>1
<1> QED
  BY <1>8, <1>9 DEF a

\* A number that the xor can hold is left as it is, and none grows beyond it.
LEMMA SignedValue ==
  ASSUME NEW k \in Nat
  PROVE  /\ Signed(k) \in Int /\ Signed(k) < XorLimit /\ Signed(k) <= k
         /\ k < XorLimit => Signed(k) = k
         /\ ToolSibling(k) \in Int /\ ToolSibling(k) < XorLimit /\ ToolSibling(k) <= k + 1
         /\ k <= 1 => ToolSibling(k) <= 1
<1> DEFINE a == k + XorLimit
           b == 2 * XorLimit
           r == a % b
<1>1. XorLimit \in Nat /\ XorLimit > 0 /\ XorLimit % 2 = 0
  BY XorAssumption
<1>2. a \in Nat /\ b \in Nat /\ b > 0
  BY <1>1
<1> HIDE DEF a, b
<1>3. r \in 0 .. b - 1 /\ r <= a /\ (a < b => r = a)
  BY <1>2
<1> HIDE DEF r
<1>4. Signed(k) = r - XorLimit
  BY DEF Signed, a, b, r
<1>5. Signed(k) \in Int /\ Signed(k) < XorLimit /\ Signed(k) <= k /\ (k < XorLimit => Signed(k) = k)
  BY <1>1, <1>3, <1>4 DEF a, b
<1>6. ASSUME NEW i \in Int, i <= 1
      PROVE  Sibling(i) <= 1
  BY <1>6 DEF Sibling
<1> QED
  BY <1>1, <1>5, <1>6 DEF ToolSibling, Sibling

\* The branch of the tool, as its loop makes it.
LEMMA ToolBranchValue ==
  /\ \A k \in Nat : ToolBranchFrom[k] \in Seq({ i \in Nat : i < XorLimit })
  /\ \A k \in Nat : ToolBranchFrom[k] =
       IF ToolSibling(k) <= 1 THEN <<>>
       ELSE <<ToolSibling(k)>> \o ToolBranchFrom[Parent(ToolSibling(k))]
<1> DEFINE Small == { i \in Nat : i < XorLimit }
           V == Seq(Small)
           p == [k \in Nat |-> IF ToolSibling(k) <= 1 THEN 0 ELSE Parent(ToolSibling(k))]
           F == [x \in Nat \X V |-> IF ToolSibling(x[1]) <= 1 THEN <<>> ELSE <<ToolSibling(x[1])>> \o x[2]]
           P(f) == f = [k \in Nat |-> LET s == ToolSibling(k)
                                      IN  IF s <= 1 THEN <<>> ELSE <<s>> \o f[Parent(s)]]
<1>1. \A k \in Nat : /\ ToolSibling(k) \in Int /\ ToolSibling(k) <= k + 1
                     /\ k <= 1 => ToolSibling(k) <= 1
                     /\ ToolSibling(k) > 1 => ToolSibling(k) \in Small
  BY SignedValue
<1>2. /\ p \in [Nat -> Nat] /\ \A k \in Nat : k > 0 => p[k] < k
      /\ \A k \in Nat : ToolSibling(k) > 1 => p[k] = Parent(ToolSibling(k))
  <2>1. ASSUME NEW k \in Nat
        PROVE  /\ p[k] \in Nat /\ (k > 0 => p[k] < k)
               /\ ToolSibling(k) > 1 => p[k] = Parent(ToolSibling(k))
    <3>1. ToolSibling(k) \in Int /\ ToolSibling(k) <= k + 1 /\ (k <= 1 => ToolSibling(k) <= 1)
      BY <1>1
    <3>2. CASE ToolSibling(k) <= 1
      BY <3>1, <3>2
    <3>3. CASE ~(ToolSibling(k) <= 1)
      <4> DEFINE s == ToolSibling(k)
      <4>1. p[k] = s \div 2
        BY <3>3 DEF Parent
      <4>2. s \in Int /\ s > 1 /\ s <= k + 1 /\ k > 1
        BY <3>1, <3>3
      <4> HIDE DEF s
      <4>3. s \div 2 \in Nat /\ s \div 2 < k
        BY <4>2
      <4> QED
        BY <4>1, <4>3 DEF Parent, s
    <3> QED
      BY <3>2, <3>3
  <2> QED
    BY <2>1
<1>3. ToolSibling(0) <= 1
  BY <1>1
<1>4. F \in [Nat \X V -> V]
  <2>1. ASSUME NEW x \in Nat \X V
        PROVE  F[x] \in V
    <3>1. CASE ToolSibling(x[1]) <= 1
      BY <3>1
    <3>2. CASE ~(ToolSibling(x[1]) <= 1)
      <4>1. ToolSibling(x[1]) \in Small /\ x[2] \in V
        <5>1. x[1] \in Nat /\ x[2] \in V
          OBVIOUS
        <5>2. ToolSibling(x[1]) \in Int /\ (ToolSibling(x[1]) > 1 => ToolSibling(x[1]) \in Small)
          BY <1>1, <5>1
        <5> HIDE DEF Small
        <5>3. ToolSibling(x[1]) > 1
          BY ONLY <3>2, <5>2
        <5> QED
          BY <5>1, <5>2, <5>3
      <4>2. F[x] = <<ToolSibling(x[1])>> \o x[2]
        BY <3>2
      <4> HIDE DEF Small, F
      <4> QED
        BY <4>1, <4>2
    <3> QED
      BY <3>1, <3>2
  <2>2. F = [x \in Nat \X V |-> F[x]]
    OBVIOUS
  <2> HIDE DEF F
  <2> QED
    BY <2>1, <2>2
<1>5. \A k \in Nat, s \in V :
        F[<<k, s>>] = IF ToolSibling(k) <= 1 THEN <<>> ELSE <<ToolSibling(k)>> \o s
  OBVIOUS
<1>6. <<>> \in V
  OBVIOUS
<1> HIDE DEF V, F, p
<1>7. PICK f : Solves(f, V, <<>>, p, F)
  <2>1. IsRecursion(V, <<>>, p, F)
    BY <1>2, <1>4, <1>6 DEF IsRecursion
  <2> QED
    BY <2>1, Recursion
<1>8. f \in [Nat -> V] /\ f[0] = <<>> /\ \A k \in Nat : k > 0 => f[k] = F[<<k, f[p[k]]>>]
  BY <1>7 DEF Solves
<1>9. ASSUME NEW k \in Nat
      PROVE  f[k] = IF ToolSibling(k) <= 1 THEN <<>> ELSE <<ToolSibling(k)>> \o f[Parent(ToolSibling(k))]
  <2>1. CASE k = 0
    BY <1>3, <1>8, <2>1
  <2>2. CASE k # 0
    <3>1. f[k] = F[<<k, f[p[k]]>>]
      BY <1>8, <2>2
    <3>2. p[k] \in Nat /\ f[p[k]] \in V
      BY <1>2, <1>8
    <3>3. f[k] = IF ToolSibling(k) <= 1 THEN <<>> ELSE <<ToolSibling(k)>> \o f[p[k]]
      BY <1>5, <3>1, <3>2
    <3>4. ~(ToolSibling(k) <= 1) => p[k] = Parent(ToolSibling(k))
      BY <1>1, <1>2
    <3> QED
      BY <3>3, <3>4
  <2> QED
    BY <2>1, <2>2
<1>10. P(f)
  <2>1. f = [k \in Nat |-> f[k]]
    BY <1>8
  <2> QED
    BY <1>9, <2>1
<1>11. ToolBranchFrom = CHOOSE g : P(g)
  BY DEF ToolBranchFrom
<1>12. P(ToolBranchFrom)
  <2> HIDE DEF P
  <2> QED
    BY <1>10, <1>11
<1>13. \A k \in Nat : ToolBranchFrom[k] =
         IF ToolSibling(k) <= 1 THEN <<>>
         ELSE <<ToolSibling(k)>> \o ToolBranchFrom[Parent(ToolSibling(k))]
  BY <1>12
<1> HIDE DEF P
<1> DEFINE S == { k \in Nat : ToolBranchFrom[k] \in V }
<1>14. ASSUME NEW k \in Nat, \A m \in Nat : m < k => m \in S
       PROVE  k \in S
  <2>1. CASE ToolSibling(k) <= 1
    BY <1>6, <1>13, <2>1
  <2>2. CASE ~(ToolSibling(k) <= 1)
    <3>1. ToolSibling(k) > 1 /\ ToolSibling(k) \in Small /\ k > 0
      BY <1>1, <1>3, <2>2
    <3>2. Parent(ToolSibling(k)) \in Nat /\ Parent(ToolSibling(k)) < k
      BY <1>2, <3>1
    <3>3. ToolBranchFrom[Parent(ToolSibling(k))] \in V
      BY <1>14, <3>2
    <3> HIDE DEF Small
    <3>4. <<ToolSibling(k)>> \o ToolBranchFrom[Parent(ToolSibling(k))] \in V
      BY ONLY <3>1, <3>3 DEF V
    <3> QED
      BY <1>13, <2>2, <3>4
  <2> QED
    BY <2>1, <2>2
<1>15. Nat \subseteq S
  <2> HIDE DEF S
  <2> QED
    BY <1>14, StrongInduction
<1> QED
  BY <1>13, <1>15 DEF V

\* For indices that the xor can hold, the tool finds the branch of the contract.
LEMMA ToolBranchSame ==
  ASSUME NEW n \in Nat, n < XorLimit
  PROVE  ToolBranchFrom[n] = BranchFrom[n]
<1> DEFINE S == { k \in Nat : k < XorLimit => ToolBranchFrom[k] = BranchFrom[k] }
<1>1. ASSUME NEW k \in Nat, \A m \in Nat : m < k => m \in S
      PROVE  k \in S
  <2> SUFFICES ASSUME k < XorLimit
               PROVE  ToolBranchFrom[k] = BranchFrom[k]
    OBVIOUS
  <2>1. ToolSibling(k) = Sibling(k)
    BY SignedValue DEF ToolSibling
  <2>2. CASE k <= 1
    <3>1. Sibling(k) <= 1
      BY <2>2 DEF Sibling
    <3>2. ToolBranchFrom[k] = <<>>
      BY <2>1, <3>1, ToolBranchValue
    <3> QED
      BY <2>2, <3>2, BranchValue
  <2>3. CASE ~(k <= 1)
    <3>1. Sibling(k) \in Nat /\ Sibling(k) > 1 /\ Sibling(k) \div 2 = k \div 2
          /\ k \div 2 \in Nat /\ k \div 2 < k
      BY <2>3, Siblings
    <3>2. ToolBranchFrom[k] = <<Sibling(k)>> \o ToolBranchFrom[k \div 2]
      <4>1. Parent(Sibling(k)) = k \div 2 /\ ~(Sibling(k) <= 1)
        BY <3>1 DEF Parent
      <4> QED
        BY <2>1, <4>1, ToolBranchValue
    <3>3. k \div 2 \in S /\ k \div 2 < XorLimit
      BY <1>1, <3>1, XorAssumption
    <3> QED
      BY <2>3, <3>1, <3>2, <3>3, BranchValue
  <2> QED
    BY <2>2, <2>3
<1>2. Nat \subseteq S
  <2> HIDE DEF S
  <2> QED
    BY <1>1, StrongInduction
<1> QED
  BY <1>2

\* From XorLimit on it does not, and the sibling of the index itself is missing.
LEMMA ToolMissesLarge ==
  ASSUME NEW ks, AreNodes(ks), Len(ks) = 1, ToolHelperIndices(ks) = GetHelperIndices(ks)
  PROVE  \A k \in ToSet(ks) : k < XorLimit
<1> DEFINE Small == { i \in Nat : i < XorLimit }
           n == ks[1]
           branches == ToolBranchIndices(ks)
           paths == AllPathIndices(ks)
           once == FirstOnly(branches)
           off == OffThePaths(ks)
<1>1. ks \in Seq(Nat) /\ ks # <<>> /\ DOMAIN ks = {1} /\ n \in Nat /\ n > 0 /\ ToSet(ks) = {n}
  <2>1. ks \in Seq(Nat) /\ ks # <<>> /\ DOMAIN ks = 1 .. 1
    BY DEF AreNodes
  <2>2. ToSet(ks) = {n}
    BY <2>1 DEF ToSet
  <2> QED
    BY <2>1, <2>2 DEF AreNodes
<1> HIDE DEF n
<1>2. branches \in Seq(Small)
  <2> DEFINE ss == [i \in DOMAIN ks |-> ToolBranchFrom[ks[i]]]
  <2>1. \A i \in DOMAIN ks : ToolBranchFrom[ks[i]] \in Seq(Small)
    BY <1>1, ToolBranchValue DEF n
  <2> DEFINE m == 1
             T == Seq(Small)
  <2>2. ss \in [1 .. m -> T] /\ m \in Nat /\ m > 0
    BY <1>1, <2>1
  <2> HIDE DEF ss, m, T
  <2>3. ss \in Seq(T) /\ ss # <<>>
    BY ONLY <2>2
  <2>4. FlattenSeq(ss) \in Seq(Small)
    BY <2>3, FlattenItems DEF T
  <2> QED
    BY <2>4 DEF ToolBranchIndices, ss
<1>3. off \in Seq(Small) /\ Distinct(off)
  <2> HIDE DEF branches, Small
  <2>1. once \in Seq(Small) /\ Distinct(once)
    BY <1>2, FirstOnlyItems
  <2> DEFINE places == { x \in DOMAIN once : once[x] \notin ToSet(paths) }
  <2>2. off = Filtered(once, places)
    BY DEF OffThePaths, branches
  <2> HIDE DEF once, places, off
  <2>3. \A x, y \in 1 .. Len(once) : once[x] = once[y] => x = y
    BY <2>1 DEF Distinct
  <2> QED
    BY <2>1, <2>2, <2>3, FilteredItems
<1>4. off \in Seq(Nat) /\ \A k \in ToSet(off) : k < XorLimit
  <2> HIDE DEF off
  <2>1. DOMAIN off = 1 .. Len(off) /\ \A i \in 1 .. Len(off) : off[i] \in Small
    BY <1>3
  <2>2. off \in Seq(Nat)
    BY <1>3
  <2> QED
    BY <2>1, <2>2 DEF ToSet
<1> HIDE DEF off
<1> DEFINE h == SortReverse(off)
<1>5. /\ h \in Seq(Nat) /\ ToSet(h) = ToSet(off)
      /\ \A i, j \in 1 .. Len(h) : i < j => h[i] > h[j]
  BY <1>3, <1>4, SortReverseIsSort
<1> HIDE DEF h
<1>6. ToolHelperIndices(ks) = h
  <2>1. Reverse(Ascending(off)) = h
    BY <1>3, <1>4, <1>5, AscendingReversed
  <2> QED
    BY <2>1 DEF ToolHelperIndices, off
<1>7. ToSet(h) = MissingSiblings({n})
  BY <1>1, <1>6, HelpersAreMissing
<1>8. ASSUME n >= XorLimit
      PROVE  FALSE
  <2>1. XorLimit \in Nat /\ XorLimit > 0 /\ XorLimit % 2 = 0
    BY XorAssumption
  <2>2. n > 1 /\ Sibling(n) >= XorLimit /\ Sibling(n) # n /\ Sibling(n) > n \div 2
    <3>1. n > 1
      BY <1>1, <1>8, <2>1
    <3>2. CASE n % 2 = 0
      BY <1>1, <1>8, <2>1, <3>1, <3>2 DEF Sibling
    <3>3. CASE n % 2 # 0
      BY <1>1, <1>8, <2>1, <3>1, <3>3 DEF Sibling
    <3> QED
      BY <3>1, <3>2, <3>3
  <2>3. Sibling(n) \in MissingSiblings({n})
    <3>1. \A j \in Ancestors[n] : j <= n \div 2
      <4>1. n \div 2 \in Nat /\ n \div 2 > 0
        BY <1>1, <2>2
      <4>2. Ancestors[n] = {n \div 2} \cup Ancestors[n \div 2]
        BY <1>1, <2>2, AncestorsCases
      <4>3. \A j \in Ancestors[n \div 2] : j \in Nat /\ j < n \div 2
        BY <4>1, AncestorFacts
      <4> QED
        BY <4>1, <4>2, <4>3
    <3>2. Sibling(n) \notin {n} \cup Ancestors[n]
      <4>1. Sibling(n) \in Nat /\ n \div 2 \in Nat
        BY <1>1, <2>2, Siblings
      <4> QED
        BY <2>2, <3>1, <4>1
    <3>3. n \in Known({n}) \ {1} /\ Known({n}) = {n} \cup Ancestors[n]
      BY <2>2 DEF Known
    <3> QED
      BY <3>2, <3>3 DEF MissingSiblings, Known
  <2>4. Sibling(n) \in Nat
    BY <1>1, <2>2, Siblings
  <2>5. Sibling(n) < XorLimit
    BY <1>4, <1>5, <1>7, <2>3
  <2> QED
    BY <2>1, <2>2, <2>4, <2>5
<1> QED
  BY <1>1, <1>8, XorAssumption

\* The order of the tool, for indices that the xor can hold.
LEMMA ToolKeepsOrder ==
  ASSUME NEW ks, AreNodes(ks), \A k \in ToSet(ks) : k < XorLimit
  PROVE  ToolHelperIndices(ks) = GetHelperIndices(ks)
<1>1. ToolBranchIndices(ks) = AllBranchIndices(ks)
  <2>1. \A i \in DOMAIN ks : ks[i] \in Nat /\ ks[i] < XorLimit
    <3>1. ks \in Seq(Nat)
      BY DEF AreNodes
    <3>2. \A i \in DOMAIN ks : ks[i] \in ToSet(ks)
      BY DEF ToSet
    <3> QED
      BY <3>1, <3>2
  <2>2. \A i \in DOMAIN ks : ToolBranchFrom[ks[i]] = GetBranchIndices(ks[i])
    BY <2>1, ToolBranchSame DEF GetBranchIndices
  <2>3. [i \in DOMAIN ks |-> ToolBranchFrom[ks[i]]] = [i \in DOMAIN ks |-> GetBranchIndices(ks[i])]
    BY <2>2
  <2> QED
    BY <2>3 DEF ToolBranchIndices, AllBranchIndices
<1> DEFINE branches == AllBranchIndices(ks)
           paths == AllPathIndices(ks)
           once == FirstOnly(branches)
           places == { x \in DOMAIN once : once[x] \notin ToSet(paths) }
           off == Filtered(once, places)
           helpers == GetHelperIndices(ks)
<1>2. /\ branches \in Seq(Nat) /\ paths \in Seq(Nat)
      /\ ToSet(branches) = { Sibling(q) : q \in Known(ToSet(ks)) \ {1} }
      /\ ToSet(paths) = Known(ToSet(ks)) \ {1}
  BY AllPathItems
<1>3. /\ helpers \in Seq(Nat) /\ ToSet(helpers) = MissingSiblings(ToSet(ks))
      /\ \A i, j \in 1 .. Len(helpers) : i < j => helpers[i] > helpers[j]
  BY HelpersAreMissing
<1>4. OffThePaths(ks) = off
  BY <1>1 DEF OffThePaths
<1> HIDE DEF branches, paths, helpers
<1>5. once \in Seq(Nat) /\ ToSet(once) = ToSet(branches) /\ Distinct(once)
  BY <1>2, FirstOnlyItems
<1> HIDE DEF once
<1>6. DOMAIN once = 1 .. Len(once) /\ ToSet(once) = { once[x] : x \in 1 .. Len(once) }
      /\ \A x, y \in 1 .. Len(once) : once[x] = once[y] => x = y
  BY <1>5 DEF ToSet, Distinct
<1>7. /\ off \in Seq(Nat) /\ Distinct(off)
      /\ ToSet(off) = { once[x] : x \in { y \in 1 .. Len(once) : y \in places } }
  <2> HIDE DEF places
  <2>1. off = Filtered(once, places)
    OBVIOUS
  <2>2. \A x, y \in 1 .. Len(once) : x \in places /\ y \in places /\ once[x] = once[y] => x = y
    BY <1>6
  <2> HIDE DEF off
  <2> QED
    BY ONLY <1>5, <2>1, <2>2, FilteredItems
<1>8. ToSet(off) = ToSet(once) \ ToSet(paths)
  BY <1>6, <1>7
<1> HIDE DEF off, places
<1>9. ToSet(off) = ToSet(helpers)
  <2>1. \A k \in ToSet(ks) : k \in Nat /\ k > 0
    BY DEF AreNodes, ToSet
  <2>2. MissingSiblings(ToSet(ks))
          = { Sibling(q) : q \in Known(ToSet(ks)) \ {1} } \ Known(ToSet(ks))
    BY DEF MissingSiblings, Known
  <2>3. ASSUME NEW q \in Known(ToSet(ks)) \ {1}
        PROVE  Sibling(q) # 1
    <3>1. q \in Nat /\ q > 1
      BY <2>1, KnownFacts
    <3> QED
      BY <3>1, Siblings
  <2> QED
    BY <1>2, <1>3, <1>5, <1>8, <2>2, <2>3
<1>10. Reverse(Ascending(off)) = helpers
  BY <1>3, <1>7, <1>9, AscendingReversed
<1> QED
  BY <1>4, <1>10 DEF ToolHelperIndices, helpers

\* The proof tool and the contract put the hashes of a proof in the same order, for
\* indices that the xor of JavaScript can hold, and for no other single index.
THEOREM ToolTheorem == Spec => []ToolAgrees
<1>1. InputsFit => ToolAgrees
  <2> DEFINE ks == first.indices
  <2>0. ASSUME InputsFit, kind = "proof"
        PROVE  AreNodes(ks)
    BY <2>0, SubmittedFacts DEF InputsFit
  <2> HIDE DEF ks
  <2>1. ASSUME AreNodes(ks), \A k \in ToSet(ks) : k < XorLimit
        PROVE  ToolHelperIndices(ks) = GetHelperIndices(ks)
    BY <2>1, ToolKeepsOrder
  <2>2. ASSUME AreNodes(ks), Len(ks) = 1, ToolHelperIndices(ks) = GetHelperIndices(ks)
        PROVE  \A k \in ToSet(ks) : k < XorLimit
    BY <2>2, ToolMissesLarge
  <2> QED
    BY <2>0, <2>1, <2>2 DEF ToolAgrees, ks
<1> QED
  BY <1>1, InputsFitTheorem, PTL

\* What is added to a word with which it shares no one bit is combined with it.
LEMMA PlusDisjoint ==
  ASSUME NEW a, NEW b, a \cap b = {}, NEW width
  PROVE  Plus(a, b, width) = a \cup b
<1> DEFINE carries == { j \in 1 .. width :
                          \E i \in a \cap b : i < j /\ (i + 1) .. (j - 1) \subseteq a \cup b }
<1>1. carries = {}
  OBVIOUS
<1>2. Plus(a, b, width) = SymDiff(SymDiff(a, b), carries)
  BY DEF Plus
<1> HIDE DEF carries
<1> QED
  BY <1>1, <1>2 DEF SymDiff

\* The index of a validator as a word.
LEMMA ValidatorNode ==
  ASSUME NEW v, \A i \in v : i \in 0 .. 39
  PROVE  ValidatorGindex(v) = {41, 42, 44, 46, 47, 49} \cup v
<1>1. Bits[726] = {1, 2, 4, 6, 7, 9}
  BY LiteralIndices
<1>2. Shl(40, Bits[726], 64) = {41, 42, 44, 46, 47, 49}
  <2>1. Shl(40, {1, 2, 4, 6, 7, 9}, 64) = { i + 40 : i \in {1, 2, 4, 6, 7, 9} }
    <3>1. \A i \in {1, 2, 4, 6, 7, 9} : i + 40 < 64
      OBVIOUS
    <3> QED
      BY <3>1 DEF Shl
  <2>2. { i + 40 : i \in {1, 2, 4, 6, 7, 9} } = {41, 42, 44, 46, 47, 49}
    OBVIOUS
  <2> QED
    BY <1>1, <2>1, <2>2
<1>3. {41, 42, 44, 46, 47, 49} \cap v = {}
  OBVIOUS
<1> QED
  BY <1>2, <1>3, PlusDisjoint DEF ValidatorGindex, ZERO_VALIDATOR_INDEX

\* The largest power of two in a number is its highest one bit.
LEMMA FloorValue ==
  ASSUME NEW x, x # {}, \A i \in x : i \in 0 .. 62
  PROVE  FloorPowerOfTwo(x) = {Max(x)}
<1> DEFINE m == Max(x)
           filled == UNION { Shr(n, x) : n \in 0 .. 63 }
           carries == { j \in 1 .. 64 : \E i \in filled \cap {0} :
                          i < j /\ (i + 1) .. (j - 1) \subseteq filled \cup {0} }
<1>1. m \in x /\ m \in 0 .. 62 /\ \A i \in x : i \in 0 .. m
  <2>1. \E b \in Nat : \A i \in x : i \in 0 .. b
    <3> WITNESS 62 \in Nat
    <3> QED
      OBVIOUS
  <2>2. m \in x /\ \A i \in x : i <= m
    BY <2>1, Greatest
  <2> QED
    BY <2>2
<1> HIDE DEF m
<1>2. filled = 0 .. m
  <2>1. ASSUME NEW i \in 0 .. m
        PROVE  i \in filled
    <3>1. m - i \in 0 .. 63 /\ m >= m - i /\ m - (m - i) = i
      BY <1>1
    <3>2. i \in Shr(m - i, x)
      BY <1>1, <3>1 DEF Shr
    <3> QED
      BY <3>1, <3>2
  <2>2. ASSUME NEW i \in filled
        PROVE  i \in 0 .. m
    <3>1. PICK n \in 0 .. 63 : i \in Shr(n, x)
      OBVIOUS
    <3>2. PICK j \in x : j >= n /\ i = j - n
      BY <3>1 DEF Shr
    <3> QED
      BY <1>1, <3>2
  <2> QED
    BY <2>1, <2>2
<1> HIDE DEF filled
<1>3. carries = 1 .. m + 1
  <2>1. ASSUME NEW j \in carries
        PROVE  j \in 1 .. m + 1
    <3>1. j \in 1 .. 64 /\ (0 + 1) .. (j - 1) \subseteq 0 .. m
      BY <1>1, <1>2
    <3>2. CASE j > 1
      <4>1. j - 1 \in (0 + 1) .. (j - 1)
        BY <3>1, <3>2
      <4>2. j - 1 \in 0 .. m
        BY <3>1, <4>1
      <4> QED
        BY <1>1, <3>1, <4>2
    <3>3. CASE ~(j > 1)
      BY <1>1, <3>1, <3>3
    <3> QED
      BY <3>2, <3>3
  <2>2. ASSUME NEW j \in 1 .. m + 1
        PROVE  j \in carries
    <3>1. j \in 1 .. 64 /\ 0 < j
      BY <1>1
    <3>2. 0 \in filled \cap {0}
      BY <1>1, <1>2
    <3>3. (0 + 1) .. (j - 1) \subseteq filled \cup {0}
      BY <1>1, <1>2
    <3> QED
      BY <3>1, <3>2, <3>3
  <2> HIDE DEF carries
  <2> QED
    BY <2>1, <2>2
<1>4. Plus(filled, {0}, 64) = SymDiff(SymDiff(filled, {0}), carries)
  BY DEF Plus
<1> HIDE DEF carries
<1>5. SymDiff(filled, {0}) = 1 .. m
  BY <1>1, <1>2 DEF SymDiff
<1>6. SymDiff(1 .. m, 1 .. m + 1) = {m + 1}
  BY <1>1 DEF SymDiff
<1>7. Plus(filled, {0}, 64) \cap (0 .. 63) = {m + 1}
  <2>1. Plus(filled, {0}, 64) = {m + 1}
    BY ONLY <1>3, <1>4, <1>5, <1>6
  <2>2. m + 1 \in 0 .. 63
    BY <1>1
  <2> QED
    BY ONLY <2>1, <2>2
<1>8. Shr(1, {m + 1}) = {m}
  BY <1>1 DEF Shr
<1>9. FloorPowerOfTwo(x) = Shr(1, Plus(filled, {0}, 64) \cap (0 .. 63))
  BY DEF FloorPowerOfTwo, filled
<1> QED
  BY <1>7, <1>8, <1>9 DEF m

\* The loop of the debug tool.
LEMMA ComposedValue ==
  ASSUME NEW indices, Len(indices) \in Nat
  PROVE  \E o : /\ o[0] = {0}
                /\ \A n \in 1 .. Len(indices) :
                     o[n] = LET floor == FloorPowerOfTwo(indices[n])
                            IN  Plus(IF floor = {} THEN {} ELSE Shl(Max(floor), o[n - 1], 64),
                                     indices[n] \ floor, 64) \cap (0 .. 63)
                /\ ConcatGeneralizedIndices(indices) = o[Len(indices)]
<1> DEFINE m == Len(indices)
           floor(n) == FloorPowerOfTwo(indices[n])
           Composed(word, n) == Plus(IF floor(n) = {} THEN {} ELSE Shl(Max(floor(n)), word, 64),
                                     indices[n] \ floor(n), 64) \cap (0 .. 63)
           P(k, g) == g = [n \in 0 .. k |-> IF n = 0 THEN {0} ELSE Composed(g[n - 1], n)]
           S == { k \in Nat : \E g : P(k, g) }
<1>1. 0 \in S
  <2>1. P(0, [n \in 0 .. 0 |-> {0}])
    OBVIOUS
  <2> QED
    BY <2>1
<1>2. ASSUME NEW k \in Nat, k \in S
      PROVE  k + 1 \in S
  <2>1. PICK g : P(k, g)
    BY <1>2
  <2> HIDE DEF Composed
  <2> DEFINE w == Composed(g[k], k + 1)
             h == [n \in 0 .. k + 1 |-> IF n = k + 1 THEN w ELSE g[n]]
  <2>2. \A n \in 0 .. k : h[n] = g[n]
    OBVIOUS
  <2>3. h[k + 1] = w
    OBVIOUS
  <2>4. ASSUME NEW n \in 0 .. k + 1
        PROVE  h[n] = IF n = 0 THEN {0} ELSE Composed(h[n - 1], n)
    <3> HIDE DEF h
    <3>1. CASE n = k + 1
      <4>1. h[n - 1] = g[k] /\ n - 1 = k /\ n # 0
        BY <2>2, <3>1
      <4> QED
        BY <2>3, <3>1, <4>1
    <3>2. CASE n # k + 1
      <4>1. n \in 0 .. k /\ (n # 0 => n - 1 \in 0 .. k)
        BY <3>2
      <4>2. g[n] = IF n = 0 THEN {0} ELSE Composed(g[n - 1], n)
        BY <2>1, <4>1
      <4> QED
        BY <2>2, <4>1, <4>2
    <3> QED
      BY <3>1, <3>2
  <2>5. h = [n \in 0 .. k + 1 |-> h[n]]
    OBVIOUS
  <2> HIDE DEF h
  <2>6. P(k + 1, h)
    BY <2>4, <2>5
  <2> HIDE DEF P
  <2> QED
    BY <2>6
<1>3. Nat \subseteq S
  <2> HIDE DEF S
  <2> QED
    BY <1>1, <1>2, Induction
<1> DEFINE o == CHOOSE g : P(m, g)
<1>4. P(m, o)
  <2>1. \E g : P(m, g)
    BY <1>3
  <2> HIDE DEF P
  <2> QED
    BY <2>1
<1>5. ConcatGeneralizedIndices(indices) = o[m]
  BY DEF ConcatGeneralizedIndices
<1> HIDE DEF o
<1>6. o[0] = {0}
  <2> HIDE DEF Composed
  <2> QED
    BY <1>4
<1>7. ASSUME NEW n \in 1 .. m
      PROVE  o[n] = Composed(o[n - 1], n)
  <2>1. n \in 0 .. m /\ n # 0
    OBVIOUS
  <2> HIDE DEF Composed, m
  <2> QED
    BY <1>4, <2>1
<1> QED
  BY <1>5, <1>6, <1>7

\* One index of the composition that the result has room for.
LEMMA ComposedStep ==
  ASSUME NEW x, x # {}, \A i \in x : i \in 0 .. 62,
         NEW word, \A i \in word : i \in Nat /\ i + Max(x) < 64
  PROVE  LET floor == FloorPowerOfTwo(x)
         IN  Plus(IF floor = {} THEN {} ELSE Shl(Max(floor), word, 64), x \ floor, 64) \cap (0 .. 63)
               = { i + Max(x) : i \in word } \cup (x \ {Max(x)})
<1> DEFINE m == Max(x)
           up == { i + m : i \in word }
           rest == x \ {m}
<1>1. m \in x /\ \A i \in x : i \in Nat /\ i <= m /\ i \in 0 .. 62
  <2>1. \E b \in Nat : \A i \in x : i \in 0 .. b
    <3> WITNESS 62 \in Nat
    <3> QED
      OBVIOUS
  <2>2. m \in x /\ \A i \in x : i <= m
    BY <2>1, Greatest
  <2> QED
    BY <2>2
<1>2. FloorPowerOfTwo(x) = {m}
  BY FloorValue
<1>3. \A i \in word : i \in Nat /\ i + m < 64
  OBVIOUS
<1> HIDE DEF m
<1>4. Max({m}) = m
  <2>1. \E b \in Nat : \A i \in {m} : i \in 0 .. b
    <3> WITNESS 62 \in Nat
    <3> QED
      BY <1>1
  <2>2. Max({m}) \in {m}
    BY <2>1, Greatest
  <2> QED
    BY <2>2
<1>5. Shl(m, word, 64) = up
  BY <1>3 DEF Shl
<1>6. \A i \in up : i \in 0 .. 63 /\ i >= m
  BY <1>1, <1>3
<1>7. \A i \in rest : i \in 0 .. 63 /\ i < m
  BY <1>1
<1>8. up \cap rest = {}
  BY <1>1, <1>6, <1>7
<1> HIDE DEF up, rest
<1>9. Plus(up, rest, 64) = up \cup rest
  BY <1>8, PlusDisjoint
<1>10. (up \cup rest) \cap (0 .. 63) = up \cup rest
  BY <1>6, <1>7
<1>11. Plus(IF {m} = {} THEN {} ELSE Shl(Max({m}), word, 64), x \ {m}, 64) \cap (0 .. 63)
         = up \cup rest
  BY <1>4, <1>5, <1>9, <1>10 DEF rest
<1> QED
  BY <1>2, <1>11 DEF up, rest, m

\* The literals among the generalized indices.
LEMMA LiteralBits ==
  /\ Bits[11] = {0, 1, 3}
  /\ Bits[43] = {0, 1, 3, 5}
  /\ Bits[726] = {1, 2, 4, 6, 7, 9}
<1>1. ASSUME NEW n \in Nat, n > 0
      PROVE  /\ Bits[2 * n] = { i + 1 : i \in Bits[n] }
             /\ Bits[2 * n + 1] = { i + 1 : i \in Bits[n] } \cup {0}
  <2>1. /\ 2 * n \in Nat /\ 2 * n > 0 /\ (2 * n) \div 2 = n /\ (2 * n) % 2 = 0
        /\ 2 * n + 1 \in Nat /\ 2 * n + 1 > 0 /\ (2 * n + 1) \div 2 = n /\ (2 * n + 1) % 2 = 1
    BY <1>1
  <2>2. Bits[2 * n] = { i + 1 : i \in Bits[n] } \cup {}
    BY <2>1, BitsValue
  <2>3. Bits[2 * n + 1] = { i + 1 : i \in Bits[n] } \cup {0}
    BY <2>1, BitsValue
  <2> QED
    BY <2>2, <2>3
<1>2. Bits[1] = {0}
  <2>1. 1 \div 2 = 0 /\ 1 % 2 = 1
    OBVIOUS
  <2>2. Bits[1] = { i + 1 : i \in Bits[0] } \cup {0}
    BY <2>1, BitsValue
  <2> QED
    BY <2>2, BitsValue
<1>3. Bits[2] = {1} /\ Bits[5] = {0, 2} /\ Bits[11] = {0, 1, 3}
  <2>0. 1 \in Nat /\ 1 > 0 /\ 2 \in Nat /\ 2 > 0 /\ 5 \in Nat /\ 5 > 0
    OBVIOUS
  <2>1. Bits[2 * 1] = { i + 1 : i \in Bits[1] }
    BY <1>1, <2>0
  <2>2. Bits[2] = {1}
    BY <1>2, <2>1
  <2>3. Bits[2 * 2 + 1] = { i + 1 : i \in Bits[2] } \cup {0}
    BY <1>1, <2>0
  <2>4. Bits[5] = {0, 2}
    BY <2>2, <2>3
  <2>5. Bits[2 * 5 + 1] = { i + 1 : i \in Bits[5] } \cup {0}
    BY <1>1, <2>0
  <2> QED
    BY <2>2, <2>4, <2>5
<1>4. Bits[43] = {0, 1, 3, 5}
  <2>0. 5 \in Nat /\ 5 > 0 /\ 10 \in Nat /\ 10 > 0 /\ 21 \in Nat /\ 21 > 0
    OBVIOUS
  <2>1. Bits[2 * 5] = { i + 1 : i \in Bits[5] }
    BY <1>1, <2>0
  <2>2. Bits[10] = {1, 3}
    BY <1>3, <2>1
  <2>3. Bits[2 * 10 + 1] = { i + 1 : i \in Bits[10] } \cup {0}
    BY <1>1, <2>0
  <2>4. Bits[21] = {0, 2, 4}
    BY <2>2, <2>3
  <2>5. Bits[2 * 21 + 1] = { i + 1 : i \in Bits[21] } \cup {0}
    BY <1>1, <2>0
  <2> QED
    BY <2>4, <2>5
<1>5. Bits[726] = {1, 2, 4, 6, 7, 9}
  <2>0. 11 \in Nat /\ 11 > 0 /\ 22 \in Nat /\ 22 > 0 /\ 45 \in Nat /\ 45 > 0
        /\ 90 \in Nat /\ 90 > 0 /\ 181 \in Nat /\ 181 > 0 /\ 363 \in Nat /\ 363 > 0
    OBVIOUS
  <2>1. /\ Bits[2 * 11] = { i + 1 : i \in Bits[11] }
        /\ Bits[2 * 22 + 1] = { i + 1 : i \in Bits[22] } \cup {0}
    BY <1>1, <2>0
  <2>2. Bits[22] = {1, 2, 4}
    BY <1>3, <2>1
  <2>3. Bits[45] = {0, 2, 3, 5}
    BY <2>1, <2>2
  <2>4. /\ Bits[2 * 45] = { i + 1 : i \in Bits[45] }
        /\ Bits[2 * 90 + 1] = { i + 1 : i \in Bits[90] } \cup {0}
    BY <1>1, <2>0
  <2>5. Bits[90] = {1, 3, 4, 6}
    BY <2>3, <2>4
  <2>6. Bits[181] = {0, 2, 4, 5, 7}
    BY <2>4, <2>5
  <2>7. Bits[2 * 181 + 1] = { i + 1 : i \in Bits[181] } \cup {0}
    BY <1>1, <2>0
  <2>8. Bits[363] = {0, 1, 3, 5, 6, 8}
    BY <2>6, <2>7
  <2>9. Bits[2 * 363] = { i + 1 : i \in Bits[363] }
    BY <1>1, <2>0
  <2> QED
    BY <2>8, <2>9
<1> QED
  BY <1>3, <1>4, <1>5

\* A composition starts with its first index.
LEMMA ComposedFirst ==
  ASSUME NEW x, x # {}, \A i \in x : i \in 0 .. 62
  PROVE  { i + Max(x) : i \in {0} } \cup (x \ {Max(x)}) = x
<1>1. \E b \in Nat : \A i \in x : i \in 0 .. b
  <2> WITNESS 62 \in Nat
  <2> QED
    OBVIOUS
<1>2. Max(x) \in x
  BY <1>1, Greatest
<1>3. Max(x) \in Nat
  BY <1>2
<1> QED
  BY <1>2, <1>3

\* The debug tool and the contracts compose generalized indices to the same.
THEOREM DebugToolTheorem == Spec => []DebugToolAgrees
<1>1. ASSUME NEW a, NEW b, a # {}, b # {}, \A i \in a \cup b : i \in 0 .. 63,
             Max(a) + Max(b) < 63
      PROVE  ConcatGeneralizedIndices(<<a, b>>) = ConcatGindices(a, b)
  <2> DEFINE indices == <<a, b>>
  <2>1. /\ Max(a) \in a /\ \A i \in a : i \in Nat /\ i <= Max(a)
        /\ Max(b) \in b /\ \A i \in b : i \in Nat /\ i <= Max(b)
    <3>1. \E n \in Nat : \A i \in a : i \in 0 .. n
      <4> WITNESS 63 \in Nat
      <4> QED
        BY <1>1
    <3>2. \E n \in Nat : \A i \in b : i \in 0 .. n
      <4> WITNESS 63 \in Nat
      <4> QED
        BY <1>1
    <3>3. Max(a) \in a /\ \A i \in a : i <= Max(a)
      BY <1>1, <3>1, Greatest
    <3>4. Max(b) \in b /\ \A i \in b : i <= Max(b)
      BY <1>1, <3>2, Greatest
    <3> QED
      BY <1>1, <3>3, <3>4
  <2>2. (\A i \in a : i \in 0 .. 62) /\ (\A i \in b : i \in 0 .. 62)
    BY <1>1, <2>1
  <2>3. Len(indices) = 2 /\ indices[1] = a /\ indices[2] = b
    OBVIOUS
  <2>4. Len(indices) \in Nat
    BY <2>3
  <2> HIDE DEF indices
  <2> DEFINE Composed(word, x) ==
               LET floor == FloorPowerOfTwo(x)
               IN  Plus(IF floor = {} THEN {} ELSE Shl(Max(floor), word, 64), x \ floor, 64)
                     \cap (0 .. 63)
  <2>5. PICK o : /\ o[0] = {0}
                 /\ \A n \in 1 .. Len(indices) : o[n] = Composed(o[n - 1], indices[n])
                 /\ ConcatGeneralizedIndices(indices) = o[Len(indices)]
    BY <2>4, ComposedValue
  <2>6. o[1] = Composed({0}, a)
    <3> HIDE DEF Composed
    <3>1. 1 \in 1 .. Len(indices) /\ 1 - 1 = 0
      BY <2>3
    <3> QED
      BY <2>3, <2>5, <3>1
  <2>7. o[2] = Composed(o[1], b)
    <3> HIDE DEF Composed
    <3>1. 2 \in 1 .. Len(indices) /\ 2 - 1 = 1
      BY <2>3
    <3> QED
      BY <2>3, <2>5, <3>1
  <2>8. o[1] = a
    <3>1. Composed({0}, a) = { i + Max(a) : i \in {0} } \cup (a \ {Max(a)})
      <4>1. \A i \in {0} : i \in Nat /\ i + Max(a) < 64
        BY <2>1, <2>2
      <4> QED
        BY <1>1, <2>2, <4>1, ComposedStep
    <3>2. { i + Max(a) : i \in {0} } \cup (a \ {Max(a)}) = a
      BY <1>1, <2>2, ComposedFirst
    <3> QED
      BY <2>6, <3>1, <3>2
  <2>9. o[2] = { i + Max(b) : i \in a } \cup (b \ {Max(b)})
    <3>1. \A i \in a : i \in Nat /\ i + Max(b) < 64
      <4> TAKE i \in a
      <4>1. i \in Nat /\ i <= Max(a) /\ Max(a) \in Nat /\ Max(b) \in Nat
        BY <2>1
      <4> QED
        BY <1>1, <4>1
    <3>2. Composed(a, b) = { i + Max(b) : i \in a } \cup (b \ {Max(b)})
      BY <1>1, <2>2, <3>1, ComposedStep
    <3> QED
      BY <2>7, <2>8, <3>2
  <2>10. Log2(b) = Max(b)
    <3>1. \A i \in b : i \in 0 .. WIDTH - 1
      BY <2>2 DEF WIDTH
    <3> QED
      BY <1>1, <3>1, Log2IsMax
  <2>11. Shl(Max(b), a, 64) = { i + Max(b) : i \in a }
    <3>1. \A i \in a : i + Max(b) < 64
      <4> TAKE i \in a
      <4>1. i \in Nat /\ i <= Max(a) /\ Max(a) \in Nat /\ Max(b) \in Nat
        BY <2>1
      <4> QED
        BY <1>1, <4>1
    <3> QED
      BY <3>1 DEF Shl
  <2>12. SymDiff(b, Shl(Max(b), {0}, WIDTH)) = b \ {Max(b)}
    <3>1. Shl(Max(b), {0}, WIDTH) = {Max(b)}
      <4>1. Max(b) \in 0 .. 62
        BY <2>1, <2>2
      <4> QED
        BY <4>1 DEF Shl, WIDTH
    <3> QED
      BY <2>1, <3>1 DEF SymDiff
  <2>13. ConcatGindices(a, b) = o[2]
    BY <2>9, <2>10, <2>11, <2>12 DEF ConcatGindices
  <2> HIDE DEF Composed
  <2> QED
    BY <2>3, <2>5, <2>13 DEF indices
<1>2. ASSUME NEW v, \A i \in v : i \in 0 .. 39
      PROVE  ConcatGeneralizedIndices(<<Bits[11], Bits[43], {41} \cup v>>) = ValidatorGindex(v)
  <2> DEFINE a == Bits[11]
             b == Bits[43]
             c == {41} \cup v
             indices == <<a, b, c>>
             Composed(word, x) ==
               LET floor == FloorPowerOfTwo(x)
               IN  Plus(IF floor = {} THEN {} ELSE Shl(Max(floor), word, 64), x \ floor, 64)
                     \cap (0 .. 63)
  <2>1. a = {0, 1, 3} /\ b = {0, 1, 3, 5} /\ Bits[726] = {1, 2, 4, 6, 7, 9}
    BY LiteralBits
  <2>2. Len(indices) = 3 /\ indices[1] = a /\ indices[2] = b /\ indices[3] = c
    OBVIOUS
  <2>3. /\ a # {} /\ (\A i \in a : i \in 0 .. 62)
        /\ b # {} /\ (\A i \in b : i \in 0 .. 62)
        /\ c # {} /\ (\A i \in c : i \in 0 .. 62)
    BY <1>2, <2>1
  <2>4. ASSUME NEW x, NEW n \in x, \A i \in x : i \in 0 .. n, n \in 0 .. 62
        PROVE  Max(x) = n
    <3>1. \E k \in Nat : \A i \in x : i \in 0 .. k
      BY <2>4
    <3>2. Max(x) \in x /\ \A i \in x : i <= Max(x)
      BY <3>1, Greatest
    <3>3. Max(x) \in 0 .. n /\ n <= Max(x)
      BY <2>4, <3>2
    <3> QED
      BY <2>4, <3>3
  <2>5. Max(b) = 5
    <3>1. 5 \in b /\ \A i \in b : i \in 0 .. 5
      BY <2>1
    <3> QED
      BY <2>4, <3>1
  <2>6. Max(c) = 41
    <3>1. 41 \in c /\ \A i \in c : i \in 0 .. 41
      BY <1>2
    <3> HIDE DEF c
    <3> QED
      BY <2>4, <3>1
  <2>7. Len(indices) \in Nat
    BY <2>2
  <2> HIDE DEF indices, a, b
  <2>8. PICK o : /\ o[0] = {0}
                 /\ \A n \in 1 .. Len(indices) : o[n] = Composed(o[n - 1], indices[n])
                 /\ ConcatGeneralizedIndices(indices) = o[Len(indices)]
    BY <2>7, ComposedValue
  <2>9. o[1] = Composed({0}, a) /\ o[2] = Composed(o[1], b) /\ o[3] = Composed(o[2], c)
    <3> HIDE DEF Composed, c
    <3>1. /\ 1 \in 1 .. Len(indices) /\ 1 - 1 = 0 /\ 2 \in 1 .. Len(indices) /\ 2 - 1 = 1
          /\ 3 \in 1 .. Len(indices) /\ 3 - 1 = 2
      BY <2>2
    <3> QED
      BY <2>2, <2>8, <3>1
  <2>10. o[1] = a
    <3>1. Max(a) \in Nat /\ Max(a) <= 62
      <4>1. \E k \in Nat : \A i \in a : i \in 0 .. k
        <5> WITNESS 62 \in Nat
        <5> QED
          BY <2>3
      <4>2. Max(a) \in a
        BY <2>3, <4>1, Greatest
      <4> QED
        BY <2>3, <4>2
    <3>2. Composed({0}, a) = { i + Max(a) : i \in {0} } \cup (a \ {Max(a)})
      <4>1. \A i \in {0} : i \in Nat /\ i + Max(a) < 64
        BY <3>1
      <4> QED
        BY <2>3, <4>1, ComposedStep
    <3>3. { i + Max(a) : i \in {0} } \cup (a \ {Max(a)}) = a
      BY <2>3, ComposedFirst
    <3> QED
      BY <2>9, <3>2, <3>3
  <2>11. o[2] = {0, 1, 3, 5, 6, 8}
    <3>1. Composed(a, b) = { i + 5 : i \in a } \cup (b \ {5})
      <4>1. \A i \in a : i \in Nat /\ i + Max(b) < 64
        BY <2>1, <2>5
      <4>2. Composed(a, b) = { i + Max(b) : i \in a } \cup (b \ {Max(b)})
        BY <2>3, <4>1, ComposedStep
      <4> QED
        BY <2>5, <4>2
    <3>2. { i + 5 : i \in a } = {5, 6, 8}
      BY <2>1
    <3> HIDE DEF Composed
    <3> QED
      BY <2>1, <2>9, <2>10, <3>1, <3>2
  <2>12. o[3] = {41, 42, 44, 46, 47, 49} \cup v
    <3> DEFINE w == {0, 1, 3, 5, 6, 8}
    <3>1. Composed(w, c) = { i + 41 : i \in w } \cup (c \ {41})
      <4>1. \A i \in w : i \in Nat /\ i + Max(c) < 64
        BY <2>6
      <4> HIDE DEF w, c
      <4>2. Composed(w, c) = { i + Max(c) : i \in w } \cup (c \ {Max(c)})
        BY <2>3, <4>1, ComposedStep
      <4> QED
        BY <2>6, <4>2
    <3>2. { i + 41 : i \in w } = {41, 42, 44, 46, 47, 49}
      OBVIOUS
    <3>3. c \ {41} = v
      BY <1>2
    <3> HIDE DEF Composed
    <3> QED
      BY <2>9, <2>11, <3>1, <3>2, <3>3
  <2>13. ValidatorGindex(v) = {41, 42, 44, 46, 47, 49} \cup v
    BY <1>2, ValidatorNode
  <2> HIDE DEF Composed
  <2> QED
    BY <2>2, <2>8, <2>12, <2>13 DEF indices, a, b, c
<1>3. InputsFit => DebugToolAgrees
  <2>1. ASSUME InputsFit, kind = "word", first # {}, second # {}, Max(first) + Max(second) < 63
        PROVE  ConcatGeneralizedIndices(<<first, second>>) = ConcatGindices(first, second)
    <3>1. \A i \in first \cup second : i \in 0 .. 63
      BY <2>1 DEF InputsFit
    <3> QED
      BY <1>1, <2>1, <3>1
  <2>2. ASSUME first \subseteq 0 .. 39
        PROVE  ConcatGeneralizedIndices(<<Bits[11], Bits[43], {41} \cup first>>)
                 = ValidatorGindex(first)
    <3>1. \A i \in first : i \in 0 .. 39
      BY <2>2
    <3> QED
      BY <1>2, <3>1
  <2> QED
    BY <2>1, <2>2 DEF DebugToolAgrees
<1> QED
  BY <1>3, InputsFitTheorem, PTL

-----------------------------------------------------------------------------
(* Roots of records.                                                       *)

\* The array after each pair of the loop of a level.
IsLevelLoop(after, nodes, m) ==
  /\ after[0] = nodes
  /\ \A i \in 1 .. m :
       after[i] = [after[i - 1] EXCEPT ![i] = Hash(after[i - 1][2 * i - 1], after[i - 1][2 * i])]

\* The recursion of a level has a solution: the arrays after its pairs.
LEMMA LevelValue ==
  ASSUME NEW nodes, NEW count, NEW m \in Nat, m = count \div 2
  PROVE  \E after : IsLevelLoop(after, nodes, m) /\ Level(nodes, count) = after[m]
<1> DEFINE Hashed(acc, i) == [acc EXCEPT ![i] = Hash(acc[2 * i - 1], acc[2 * i])]
           P(j, g) == g = [ i \in 0 .. j |-> IF i = 0 THEN nodes ELSE Hashed(g[i - 1], i) ]
           S == { j \in Nat : \E g : P(j, g) }
<1>1. 0 \in S
  <2>1. P(0, [i \in 0 .. 0 |-> nodes])
    OBVIOUS
  <2> QED
    BY <2>1
<1>2. ASSUME NEW j \in Nat, j \in S
      PROVE  j + 1 \in S
  <2>1. PICK g : P(j, g)
    BY <1>2
  <2> HIDE DEF Hashed
  <2> DEFINE w == Hashed(g[j], j + 1)
             h == [i \in 0 .. j + 1 |-> IF i = j + 1 THEN w ELSE g[i]]
  <2>2. \A i \in 0 .. j : h[i] = g[i]
    OBVIOUS
  <2>3. h[j + 1] = w
    OBVIOUS
  <2>4. ASSUME NEW i \in 0 .. j + 1
        PROVE  h[i] = IF i = 0 THEN nodes ELSE Hashed(h[i - 1], i)
    <3> HIDE DEF h
    <3>1. CASE i = j + 1
      <4>1. h[i - 1] = g[j] /\ i - 1 = j /\ i # 0
        BY <2>2, <3>1
      <4> QED
        BY <2>3, <3>1, <4>1
    <3>2. CASE i # j + 1
      <4>1. i \in 0 .. j /\ (i # 0 => i - 1 \in 0 .. j)
        BY <3>2
      <4>2. g[i] = IF i = 0 THEN nodes ELSE Hashed(g[i - 1], i)
        BY <2>1, <4>1
      <4> QED
        BY <2>2, <4>1, <4>2
    <3> QED
      BY <3>1, <3>2
  <2>5. h = [i \in 0 .. j + 1 |-> h[i]]
    OBVIOUS
  <2> HIDE DEF h
  <2>6. P(j + 1, h)
    BY <2>4, <2>5
  <2> HIDE DEF P
  <2> QED
    BY <2>6
<1>3. Nat \subseteq S
  <2> HIDE DEF S
  <2> QED
    BY <1>1, <1>2, Induction
<1> DEFINE after == CHOOSE g : P(m, g)
<1>4. P(m, after)
  <2>1. \E g : P(m, g)
    BY <1>3
  <2> HIDE DEF P
  <2> QED
    BY <2>1
<1>5. Level(nodes, count) = after[m]
  BY DEF Level
<1> HIDE DEF after
<1>6. after[0] = nodes
  <2>1. 0 \in 0 .. m
    OBVIOUS
  <2> HIDE DEF Hashed
  <2> QED
    BY <1>4, <2>1
<1>7. ASSUME NEW i \in 1 .. m
      PROVE  after[i] = Hashed(after[i - 1], i)
  <2>1. i \in 0 .. m /\ i # 0
    OBVIOUS
  <2> HIDE DEF Hashed
  <2> QED
    BY <1>4, <2>1
<1>8. IsLevelLoop(after, nodes, m)
  BY <1>6, <1>7 DEF IsLevelLoop
<1> QED
  BY <1>5, <1>8

\* A level has the hashes of the pairs in front, whatever was written on the way:
\* a pair is read before its second half is overwritten.
LEMMA LevelHashesPairs ==
  ASSUME NEW nodes, NEW n \in Nat, DOMAIN nodes = 1 .. n, NEW count, NEW m \in Nat,
         m = count \div 2, m + m <= n
  PROVE  /\ DOMAIN Level(nodes, count) = 1 .. n
         /\ \A i \in 1 .. m : Level(nodes, count)[i] = Hash(nodes[2 * i - 1], nodes[2 * i])
<1>1. PICK after : IsLevelLoop(after, nodes, m) /\ Level(nodes, count) = after[m]
  BY LevelValue
<1> DEFINE Facts(i) == /\ DOMAIN after[i] = 1 .. n
                       /\ \A j \in 1 .. n : after[i][j] = IF j <= i
                                                           THEN Hash(nodes[2 * j - 1], nodes[2 * j])
                                                           ELSE nodes[j]
           S == { i \in 0 .. m : Facts(i) }
<1>2. 0 \in S
  BY <1>1 DEF IsLevelLoop
<1>3. ASSUME NEW j \in 0 .. m - 1, j \in S
      PROVE  j + 1 \in S
  <2> DEFINE i == j + 1
             x == 2 * i - 1
             y == 2 * i
  <2>1. i \in 1 .. m /\ i - 1 = j /\ i \in 1 .. n /\ x \in 1 .. n /\ y \in 1 .. n /\ ~(x <= j) /\ ~(y <= j)
    OBVIOUS
  <2>2. after[i] = [after[i - 1] EXCEPT ![i] = Hash(after[i - 1][x], after[i - 1][y])]
    <3> HIDE DEF i
    <3> QED
      BY <1>1, <2>1 DEF IsLevelLoop
  <2> HIDE DEF x, y
  <2>3. after[j][x] = nodes[x] /\ after[j][y] = nodes[y]
    <3> HIDE DEF i
    <3> QED
      BY <1>3, <2>1
  <2>4. after[i] = [after[j] EXCEPT ![i] = Hash(nodes[x], nodes[y])]
    <3> HIDE DEF i
    <3> QED
      BY <2>1, <2>2, <2>3
  <2>5. DOMAIN after[i] = 1 .. n
    BY <1>3, <2>4
  <2>6. ASSUME NEW k \in 1 .. n
        PROVE  after[i][k] = IF k <= i THEN Hash(nodes[2 * k - 1], nodes[2 * k]) ELSE nodes[k]
    <3>1. after[j][k] = IF k <= j THEN Hash(nodes[2 * k - 1], nodes[2 * k]) ELSE nodes[k]
      BY <1>3
    <3>2. CASE k = i
      <4>1. after[i][k] = Hash(nodes[x], nodes[y])
        BY <1>3, <2>4, <3>2
      <4> QED
        BY <3>2, <4>1 DEF x, y
    <3>3. CASE k # i
      <4>1. after[i][k] = after[j][k]
        BY <1>3, <2>4, <3>3
      <4>2. k <= i <=> k <= j
        BY <3>3
      <4> QED
        BY <3>1, <4>1, <4>2
    <3> QED
      BY <3>2, <3>3
  <2> QED
    BY ONLY <2>1, <2>5, <2>6
<1>4. 0 .. m \subseteq S
  <2> HIDE DEF S
  <2> QED
    BY <1>2, <1>3, BoundedInduction
<1>5. Facts(m)
  BY <1>4
<1>6. \A i \in 1 .. m : i \in 1 .. n
  OBVIOUS
<1> QED
  BY <1>1, <1>5, <1>6

\* The root of eight chunks: the loops that hash in place build a tree.
LEMMA HashTreeRootValue ==
  ASSUME NEW c, DOMAIN c = 1 .. 8
  PROVE  HashTreeRoot(c) = Hash(Hash(Hash(c[1], c[2]), Hash(c[3], c[4])),
                                Hash(Hash(c[5], c[6]), Hash(c[7], c[8])))
<1> DEFINE l1 == Level(c, 8)
           l2 == Level(l1, 4)
           l3 == Level(l2, 2)
<1>1. DOMAIN l1 = 1 .. 8 /\ \A i \in 1 .. 4 : l1[i] = Hash(c[2 * i - 1], c[2 * i])
  <2>1. 4 = 8 \div 2 /\ 4 + 4 <= 8 /\ 4 \in Nat /\ 8 \in Nat
    OBVIOUS
  <2> QED
    BY <2>1, LevelHashesPairs
<1> HIDE DEF l1
<1>2. DOMAIN l2 = 1 .. 8 /\ \A i \in 1 .. 2 : l2[i] = Hash(l1[2 * i - 1], l1[2 * i])
  <2>1. 2 = 4 \div 2 /\ 2 + 2 <= 8 /\ 2 \in Nat /\ 8 \in Nat
    OBVIOUS
  <2> QED
    BY <1>1, <2>1, LevelHashesPairs
<1> HIDE DEF l2
<1>3. \A i \in 1 .. 1 : l3[i] = Hash(l2[2 * i - 1], l2[2 * i])
  <2>1. 1 = 2 \div 2 /\ 1 + 1 <= 8 /\ 1 \in Nat /\ 8 \in Nat
    OBVIOUS
  <2> QED
    BY <1>2, <2>1, LevelHashesPairs
<1> HIDE DEF l3
<1>4. /\ l1[1] = Hash(c[1], c[2]) /\ l1[2] = Hash(c[3], c[4])
      /\ l1[3] = Hash(c[5], c[6]) /\ l1[4] = Hash(c[7], c[8])
  BY <1>1
<1>5. l2[1] = Hash(l1[1], l1[2]) /\ l2[2] = Hash(l1[3], l1[4])
  BY <1>2
<1>6. l3[1] = Hash(l2[1], l2[2])
  BY <1>3
<1>7. HashTreeRoot(c) = l3[1]
  BY DEF HashTreeRoot, l1, l2, l3
<1> QED
  BY <1>4, <1>5, <1>6, <1>7

\* The bits of a number are in places below it.
LEMMA BitsBelow ==
  ASSUME NEW n \in Nat
  PROVE  \A i \in Bits[n] : i \in Nat /\ i < n
<1> DEFINE S == { m \in Nat : \A i \in Bits[m] : i \in Nat /\ i < m }
<1>1. ASSUME NEW m \in Nat, \A j \in Nat : j < m => j \in S
      PROVE  m \in S
  <2>1. CASE m = 0
    <3>1. Bits[0] = {}
      BY BitsValue
    <3> QED
      BY <2>1, <3>1
  <2>2. CASE m # 0
    <3>1. /\ Bits[m] \subseteq Nat
          /\ \A i \in Nat : i + 1 \in Bits[m] => i \in Bits[m \div 2]
      BY <2>2, BitsOfHalf
    <3>2. m \div 2 \in Nat /\ m \div 2 < m
      BY <2>2
    <3>3. \A i \in Bits[m \div 2] : i < m \div 2
      BY <1>1, <3>2
    <3>4. ASSUME NEW i \in Bits[m]
          PROVE  i \in Nat /\ i < m
      <4>1. CASE i = 0
        BY <2>2, <4>1
      <4>2. CASE i # 0
        <5> DEFINE j == i - 1
        <5>1. i \in Nat /\ j \in Nat /\ j + 1 = i
          BY <3>1, <4>2
        <5> HIDE DEF j
        <5>2. j \in Bits[m \div 2]
          BY <3>1, <5>1
        <5>3. j < m \div 2
          BY <3>3, <5>2
        <5> QED
          BY <3>2, <5>1, <5>3
      <4> QED
        BY <4>1, <4>2
    <3> QED
      BY <3>4
  <2> QED
    BY <2>1, <2>2
<1>2. Nat \subseteq S
  <2> HIDE DEF S
  <2> QED
    BY <1>1, StrongInduction
<1> QED
  BY <1>2

\* The node p of the tree above eight chunks is the hash of its children.
LEMMA TreeAboveNodes ==
  ASSUME NEW c, DOMAIN c = 1 .. 8, \A i \in 1 .. 8 : c[i] # Reverted
  PROVE  LET tree == TreeAbove(c)
         IN  /\ IsTree(tree) /\ DOMAIN tree = 1 .. 15
             /\ \A k \in 8 .. 15 : tree[k] = c[k - 7]
             /\ tree[1] = HashTreeRoot(c)
<1> DEFINE fours == [k \in 4 .. 7 |-> Hash(c[2 * k - 7], c[2 * k - 6])]
           twos == [k \in 2 .. 3 |-> Hash(fours[2 * k], fours[2 * k + 1])]
           tree == TreeAbove(c)
           NodeIn(k) == CASE k >= 8 -> c[k - 7]
                          [] k \in 4 .. 7 -> fours[k]
                          [] k \in 2 .. 3 -> twos[k]
                          [] k = 1 -> Hash(twos[2], twos[3])
<1>1. tree = [k \in 1 .. 15 |-> NodeIn(k)]
  BY DEF TreeAbove
<1>2. DOMAIN tree = 1 .. 15 /\ \A k \in 1 .. 15 : tree[k] = NodeIn(k)
  BY <1>1
<1> HIDE DEF tree
<1>3. \A k \in 8 .. 15 : tree[k] = c[k - 7]
  <2> SUFFICES ASSUME NEW k \in 8 .. 15 PROVE tree[k] = c[k - 7]
    OBVIOUS
  <2>1. k \in 1 .. 15 /\ k >= 8 /\ ~(k \in 4 .. 7) /\ ~(k \in 2 .. 3) /\ k # 1
    OBVIOUS
  <2>2. NodeIn(k) = c[k - 7]
    BY <2>1
  <2> QED
    BY <1>2, <2>1, <2>2
<1>4. \A k \in 4 .. 7 : tree[k] = Hash(tree[2 * k], tree[2 * k + 1])
  <2> SUFFICES ASSUME NEW k \in 4 .. 7 PROVE tree[k] = Hash(tree[2 * k], tree[2 * k + 1])
    OBVIOUS
  <2>1. k \in 1 .. 15 /\ ~(k >= 8) /\ ~(k \in 2 .. 3) /\ k # 1
    OBVIOUS
  <2>2. NodeIn(k) = Hash(c[2 * k - 7], c[2 * k - 6])
    BY <2>1
  <2>3. 2 * k \in 8 .. 15 /\ 2 * k + 1 \in 8 .. 15 /\ (2 * k + 1) - 7 = 2 * k - 6
    OBVIOUS
  <2>4. tree[2 * k] = c[2 * k - 7] /\ tree[2 * k + 1] = c[2 * k - 6]
    BY <1>3, <2>3
  <2> HIDE DEF NodeIn
  <2> QED
    BY <1>2, <2>1, <2>2, <2>4
<1>5. \A k \in 2 .. 3 : tree[k] = Hash(tree[2 * k], tree[2 * k + 1])
  <2> SUFFICES ASSUME NEW k \in 2 .. 3 PROVE tree[k] = Hash(tree[2 * k], tree[2 * k + 1])
    OBVIOUS
  <2>1. k \in 1 .. 15 /\ ~(k >= 8) /\ ~(k \in 4 .. 7) /\ k # 1
    OBVIOUS
  <2>2. NodeIn(k) = Hash(fours[2 * k], fours[2 * k + 1])
    BY <2>1
  <2>3. \A j \in 4 .. 7 : tree[j] = fours[j]
    <3> SUFFICES ASSUME NEW j \in 4 .. 7 PROVE tree[j] = fours[j]
      OBVIOUS
    <3>1. j \in 1 .. 15 /\ ~(j >= 8) /\ ~(j \in 2 .. 3) /\ j # 1
      OBVIOUS
    <3> HIDE DEF fours, twos
    <3>2. NodeIn(j) = fours[j]
      BY <3>1
    <3> QED
      BY <1>2, <3>1, <3>2
  <2>4. 2 * k \in 4 .. 7 /\ 2 * k + 1 \in 4 .. 7
    OBVIOUS
  <2> HIDE DEF NodeIn, fours
  <2> QED
    BY <1>2, <2>1, <2>2, <2>3, <2>4
<1>6. tree[1] = Hash(tree[2], tree[3])
  <2>1. NodeIn(1) = Hash(twos[2], twos[3])
    OBVIOUS
  <2>2. \A j \in 2 .. 3 : tree[j] = twos[j]
    <3> SUFFICES ASSUME NEW j \in 2 .. 3 PROVE tree[j] = twos[j]
      OBVIOUS
    <3>1. j \in 1 .. 15 /\ ~(j >= 8) /\ ~(j \in 4 .. 7) /\ j # 1
      OBVIOUS
    <3> HIDE DEF fours, twos
    <3>2. NodeIn(j) = twos[j]
      BY <3>1
    <3> QED
      BY <1>2, <3>1, <3>2
  <2> HIDE DEF NodeIn, twos, fours
  <2> QED
    BY <1>2, <2>1, <2>2
<1> HIDE DEF NodeIn, fours, twos
<1>7. \A p \in 1 .. 7 : tree[p] = Hash(tree[2 * p], tree[2 * p + 1])
  <2> SUFFICES ASSUME NEW p \in 1 .. 7 PROVE tree[p] = Hash(tree[2 * p], tree[2 * p + 1])
    OBVIOUS
  <2>1. p \in 4 .. 7 \/ p \in 2 .. 3 \/ p = 1
    OBVIOUS
  <2> QED
    BY <1>4, <1>5, <1>6, <2>1
<1>8. IsTree(tree)
  <2>1. ASSUME NEW k \in 1 .. 15
        PROVE  tree[k] # Reverted
    <3>1. CASE k \in 8 .. 15
      <4>1. k - 7 \in 1 .. 8
        BY <3>1
      <4> QED
        BY <1>3, <3>1, <4>1
    <3>2. CASE k \in 1 .. 7
      <4>1. tree[k] = Hash(tree[2 * k], tree[2 * k + 1])
        BY <1>7, <3>2
      <4> QED
        BY <4>1 DEF Hash, Reverted
    <3> QED
      BY <3>1, <3>2
  <2>2. ASSUME NEW k \in 1 .. 15, k > 1
        PROVE  /\ Sibling(k) \in 1 .. 15 /\ Parent(k) \in 1 .. 15
               /\ tree[Parent(k)] = HashOfPair(tree, k)
    <3> DEFINE p == k \div 2
    <3>1. p \in 1 .. 7 /\ (k = 2 * p \/ k = 2 * p + 1) /\ 2 * p \in 1 .. 15 /\ 2 * p + 1 \in 1 .. 15
      BY <2>2
    <3>2. k - (k % 2) = 2 * p
      OBVIOUS
    <3>3. Sibling(k) \in 1 .. 15 /\ Parent(k) = p
      BY <2>2 DEF Sibling, Parent
    <3> HIDE DEF p
    <3>4. HashOfPair(tree, k) = Hash(Get(tree, 2 * p, ZERO), Get(tree, 2 * p + 1, ZERO))
      BY <3>2 DEF HashOfPair
    <3>5. HashOfPair(tree, k) = Hash(tree[2 * p], tree[2 * p + 1])
      BY <1>2, <3>1, <3>4 DEF Get
    <3> QED
      BY <1>7, <3>1, <3>3, <3>5
  <2>3. 1 .. 15 \subseteq Nat \ {0} /\ 1 \in 1 .. 15
    OBVIOUS
  <2> QED
    BY <1>2, <2>1, <2>2, <2>3 DEF IsTree
<1>9. tree[1] = HashTreeRoot(c)
  <2>1. /\ tree[1] = Hash(tree[2], tree[3])
        /\ tree[2] = Hash(tree[4], tree[5]) /\ tree[3] = Hash(tree[6], tree[7])
        /\ tree[4] = Hash(tree[8], tree[9]) /\ tree[5] = Hash(tree[10], tree[11])
        /\ tree[6] = Hash(tree[12], tree[13]) /\ tree[7] = Hash(tree[14], tree[15])
    BY <1>7
  <2>2. /\ tree[8] = c[1] /\ tree[9] = c[2] /\ tree[10] = c[3] /\ tree[11] = c[4]
        /\ tree[12] = c[5] /\ tree[13] = c[6] /\ tree[14] = c[7] /\ tree[15] = c[8]
    BY <1>3
  <2> QED
    BY <2>1, <2>2, HashTreeRootValue
<1> QED
  BY <1>2, <1>3, <1>8, <1>9 DEF tree

\* The leaves of a validator and of a header are eight chunks.
LEMMA FieldsAreChunks ==
  /\ \A v : DOMAIN ValidatorFields(v) = 1 .. 8 /\ \A i \in 1 .. 8 : ValidatorFields(v)[i] # Reverted
  /\ \A h : DOMAIN HeaderFields(h) = 1 .. 8 /\ \A i \in 1 .. 8 : HeaderFields(h)[i] # Reverted
<1>1. \A a, b : Chunk(a, b) # Reverted /\ Hash(a, b) # Reverted
  BY DEF Chunk, Hash, Reverted
<1>2. \A n : Uint(n) # Reverted
  BY <1>1 DEF Uint
<1>3. /\ \A b : Bool(b) # Reverted
      /\ \A p : PubkeyRoot(p) # Reverted
      /\ ZERO # Reverted
  BY <1>1, <1>2 DEF Bool, PubkeyRoot, ZERO
<1>4. ASSUME NEW v
      PROVE  DOMAIN ValidatorFields(v) = 1 .. 8 /\ \A i \in 1 .. 8 : ValidatorFields(v)[i] # Reverted
  BY <1>1, <1>2, <1>3 DEF ValidatorFields
<1>5. ASSUME NEW h
      PROVE  DOMAIN HeaderFields(h) = 1 .. 8 /\ \A i \in 1 .. 8 : HeaderFields(h)[i] # Reverted
  BY <1>1, <1>2, <1>3 DEF HeaderFields
<1> QED
  BY <1>4, <1>5

\* Every field of a validator or a header has a proof against the computed root.
THEOREM FieldsTheorem == Spec => []FieldsAreLeaves
<1>1. FieldsAreLeaves
  <2> DEFINE c == Fields(first)
             tree == TreeAbove(c)
  <2> SUFFICES ASSUME kind \in {"validator", "header"}, NEW k \in 8 .. 15
               PROVE  CalculateMerkleRoot(NodesOf(tree, GetBranchIndices(k)), c[k - 7], k)
                        = RootOf(first)
    BY DEF FieldsAreLeaves
  <2>1. DOMAIN c = 1 .. 8 /\ \A i \in 1 .. 8 : c[i] # Reverted
    BY FieldsAreChunks DEF Fields
  <2>2. RootOf(first) = HashTreeRoot(c)
    <3>1. CASE kind = "validator"
      BY <3>1 DEF RootOf, Fields, ValidatorHashTreeRoot
    <3>2. CASE kind = "header"
      BY <3>2 DEF RootOf, Fields, BeaconHeaderHashTreeRoot
    <3> QED
      BY <3>1, <3>2
  <2> HIDE DEF c
  <2>3. /\ IsTree(tree) /\ DOMAIN tree = 1 .. 15
        /\ tree[k] = c[k - 7] /\ tree[1] = HashTreeRoot(c)
    BY <2>1, TreeAboveNodes
  <2> HIDE DEF tree
  <2> DEFINE branch == GetBranchIndices(k)
             proof == NodesOf(tree, branch)
             T == { tree[j] : j \in Nat }
  <2>4. proof \in Seq(T)
    <3>1. branch \in Seq(Nat)
      BY BranchValue DEF GetBranchIndices
    <3> HIDE DEF branch
    <3>2. proof = [i \in 1 .. Len(branch) |-> tree[branch[i]]]
      BY <3>1 DEF NodesOf
    <3>3. \A i \in 1 .. Len(branch) : tree[branch[i]] \in T
      BY <3>1
    <3> HIDE DEF T
    <3>4. proof \in [1 .. Len(branch) -> T]
      BY <3>2, <3>3
    <3> QED
      BY <3>1, <3>4
  <2>5. IsIndex(k)
    <3>1. \A i \in Bits[k] : i \in Nat /\ i < k
      BY BitsBelow
    <3>2. \A i \in Bits[k] : i \in 0 .. WIDTH - 1
      BY <3>1 DEF WIDTH
    <3> QED
      BY <3>2 DEF IsIndex
  <2>6. k \in DOMAIN tree
    BY <2>3
  <2> HIDE DEF T
  <2>7. CalculateMerkleRoot(proof, tree[k], k) = tree[1]
          <=> tree[k] = tree[k] /\ proof = NodesOf(tree, GetBranchIndices(k))
    <3> HIDE DEF proof
    <3> QED
      BY <2>3, <2>4, <2>5, <2>6, SingleProofExact
  <2> QED
    BY <2>2, <2>3, <2>7
<1> QED
  BY <1>1, PTL

\* Encodings of different values differ.
LEMMA EncodingsDiffer ==
  /\ \A m, n \in Nat : Uint(m) = Uint(n) => m = n
  /\ \A m, n \in Nat : Address(m) = Address(n) => m = n
  /\ \A b, c \in BOOLEAN : Bool(b) = Bool(c) => b = c
  /\ \A t, m, n : Chunk(t, m) = Chunk(t, n) => m = n
  /\ \A p, q : PubkeyRoot(p) = PubkeyRoot(q) => p = q
<1>1. \A t, m, n : Chunk(t, m) = Chunk(t, n) => m = n
  BY DEF Chunk
<1>2. \A m, n : Chunk("zero", m) # Chunk("uint", n) /\ Chunk("zero", m) # Chunk("address", n)
  BY DEF Chunk
<1>3. \A m, n \in Nat : Uint(m) = Uint(n) => m = n
  BY <1>1, <1>2 DEF Uint
<1>4. \A m, n \in Nat : Address(m) = Address(n) => m = n
  BY <1>1, <1>2 DEF Address
<1>5. ASSUME NEW b \in BOOLEAN, NEW c \in BOOLEAN, Bool(b) = Bool(c)
      PROVE  b = c
  <2> DEFINE m == IF b THEN 1 ELSE 0
             n == IF c THEN 1 ELSE 0
  <2>1. Uint(m) = Uint(n)
    BY <1>5 DEF Bool
  <2>2. m \in Nat /\ n \in Nat
    OBVIOUS
  <2>3. m = n
    <3> HIDE DEF m, n
    <3> QED
      BY <1>3, <2>1, <2>2
  <2> QED
    BY <2>3
<1>6. \A p, q : PubkeyRoot(p) = PubkeyRoot(q) => p = q
  <2> SUFFICES ASSUME NEW p, NEW q, PubkeyRoot(p) = PubkeyRoot(q)
               PROVE  p = q
    OBVIOUS
  <2> DEFINE a == Chunk("pubkey", p)
             b == Chunk("pubkey end", p)
             c == Chunk("pubkey", q)
             d == Chunk("pubkey end", q)
  <2>1. Hash(a, b) = Hash(c, d)
    BY DEF PubkeyRoot
  <2>2. a = c
    <3> HIDE DEF a, b, c, d
    <3> QED
      BY ONLY <2>1, HashIsInjective
  <2> QED
    BY <1>1, <2>2
<1> QED
  BY <1>1, <1>3, <1>4, <1>5, <1>6

\* Equal roots come from equal chunks.
LEMMA EqualRoots ==
  ASSUME NEW c, DOMAIN c = 1 .. 8, NEW d, DOMAIN d = 1 .. 8, HashTreeRoot(c) = HashTreeRoot(d)
  PROVE  \A i \in 1 .. 8 : c[i] = d[i]
<1> DEFINE Four(x, i, j, k, l) == Hash(Hash(x[i], x[j]), Hash(x[k], x[l]))
<1>1. Hash(Four(c, 1, 2, 3, 4), Four(c, 5, 6, 7, 8)) = Hash(Four(d, 1, 2, 3, 4), Four(d, 5, 6, 7, 8))
  BY HashTreeRootValue
<1>2. Four(c, 1, 2, 3, 4) = Four(d, 1, 2, 3, 4) /\ Four(c, 5, 6, 7, 8) = Four(d, 5, 6, 7, 8)
  BY <1>1, HashIsInjective
<1>3. /\ Hash(c[1], c[2]) = Hash(d[1], d[2]) /\ Hash(c[3], c[4]) = Hash(d[3], d[4])
      /\ Hash(c[5], c[6]) = Hash(d[5], d[6]) /\ Hash(c[7], c[8]) = Hash(d[7], d[8])
  BY <1>2, HashIsInjective
<1>4. /\ c[1] = d[1] /\ c[2] = d[2] /\ c[3] = d[3] /\ c[4] = d[4]
      /\ c[5] = d[5] /\ c[6] = d[6] /\ c[7] = d[7] /\ c[8] = d[8]
  BY <1>3, HashIsInjective
<1> QED
  BY <1>4

\* Different records have different roots.
THEOREM RootsTheorem == Spec => []RootsDistinguish
<1>1. InputsFit => RootsDistinguish
  <2> DEFINE a == first
             b == second
  <2> SUFFICES ASSUME InputsFit, IsRecord, RootOf(a) = RootOf(b)
               PROVE  a = b
    BY DEF RootsDistinguish
  <2>1. CASE kind = "validator"
    <3>1. a \in ValidatorRecord /\ b \in ValidatorRecord
      BY <2>1 DEF InputsFit
    <3>2. HashTreeRoot(ValidatorFields(a)) = HashTreeRoot(ValidatorFields(b))
      BY <2>1 DEF RootOf, ValidatorHashTreeRoot
    <3> HIDE DEF a, b
    <3>3. \A i \in 1 .. 8 : ValidatorFields(a)[i] = ValidatorFields(b)[i]
      BY <3>2, FieldsAreChunks, EqualRoots
    <3>4. \A v : /\ ValidatorFields(v)[1] = PubkeyRoot(v.pubkey)
                 /\ ValidatorFields(v)[2] = Chunk("bytes32", v.withdrawalCredentials)
                 /\ ValidatorFields(v)[3] = Uint(v.effectiveBalance)
                 /\ ValidatorFields(v)[4] = Bool(v.slashed)
                 /\ ValidatorFields(v)[5] = Uint(v.activationEligibilityEpoch)
                 /\ ValidatorFields(v)[6] = Uint(v.activationEpoch)
                 /\ ValidatorFields(v)[7] = Uint(v.exitEpoch)
                 /\ ValidatorFields(v)[8] = Uint(v.withdrawableEpoch)
      BY DEF ValidatorFields
    <3>5. /\ PubkeyRoot(a.pubkey) = PubkeyRoot(b.pubkey)
          /\ Chunk("bytes32", a.withdrawalCredentials) = Chunk("bytes32", b.withdrawalCredentials)
          /\ Uint(a.effectiveBalance) = Uint(b.effectiveBalance)
          /\ Bool(a.slashed) = Bool(b.slashed)
          /\ Uint(a.activationEligibilityEpoch) = Uint(b.activationEligibilityEpoch)
          /\ Uint(a.activationEpoch) = Uint(b.activationEpoch)
          /\ Uint(a.exitEpoch) = Uint(b.exitEpoch)
          /\ Uint(a.withdrawableEpoch) = Uint(b.withdrawableEpoch)
      <4>1. /\ ValidatorFields(a)[1] = ValidatorFields(b)[1]
            /\ ValidatorFields(a)[2] = ValidatorFields(b)[2]
            /\ ValidatorFields(a)[3] = ValidatorFields(b)[3]
            /\ ValidatorFields(a)[4] = ValidatorFields(b)[4]
            /\ ValidatorFields(a)[5] = ValidatorFields(b)[5]
            /\ ValidatorFields(a)[6] = ValidatorFields(b)[6]
            /\ ValidatorFields(a)[7] = ValidatorFields(b)[7]
            /\ ValidatorFields(a)[8] = ValidatorFields(b)[8]
        BY <3>3
      <4> QED
        BY <3>4, <4>1
    <3>6. \A v \in {a, b} :
            /\ v.effectiveBalance \in Nat /\ v.slashed \in BOOLEAN
            /\ v.activationEligibilityEpoch \in Nat /\ v.activationEpoch \in Nat
            /\ v.exitEpoch \in Nat /\ v.withdrawableEpoch \in Nat
      BY <3>1 DEF ValidatorRecord
    <3>7. /\ a.pubkey = b.pubkey /\ a.withdrawalCredentials = b.withdrawalCredentials
          /\ a.effectiveBalance = b.effectiveBalance /\ a.slashed = b.slashed
          /\ a.activationEligibilityEpoch = b.activationEligibilityEpoch
          /\ a.activationEpoch = b.activationEpoch
          /\ a.exitEpoch = b.exitEpoch /\ a.withdrawableEpoch = b.withdrawableEpoch
      BY <3>5, <3>6, EncodingsDiffer
    <3>8. a = b
      BY <3>1, <3>7 DEF ValidatorRecord
    <3> QED
      BY <3>8 DEF a, b
  <2>2. CASE kind = "header"
    <3>1. a \in HeaderRecord /\ b \in HeaderRecord
      BY <2>2 DEF InputsFit
    <3>2. HashTreeRoot(HeaderFields(a)) = HashTreeRoot(HeaderFields(b))
      BY <2>2 DEF RootOf, BeaconHeaderHashTreeRoot
    <3> HIDE DEF a, b
    <3>3. \A i \in 1 .. 8 : HeaderFields(a)[i] = HeaderFields(b)[i]
      BY <3>2, FieldsAreChunks, EqualRoots
    <3>4. \A h : /\ HeaderFields(h)[1] = Uint(h.slot)
                 /\ HeaderFields(h)[2] = Uint(h.proposerIndex)
                 /\ HeaderFields(h)[3] = Chunk("bytes32", h.parentRoot)
                 /\ HeaderFields(h)[4] = Chunk("bytes32", h.stateRoot)
                 /\ HeaderFields(h)[5] = Chunk("bytes32", h.bodyRoot)
      BY DEF HeaderFields
    <3>5. /\ Uint(a.slot) = Uint(b.slot)
          /\ Uint(a.proposerIndex) = Uint(b.proposerIndex)
          /\ Chunk("bytes32", a.parentRoot) = Chunk("bytes32", b.parentRoot)
          /\ Chunk("bytes32", a.stateRoot) = Chunk("bytes32", b.stateRoot)
          /\ Chunk("bytes32", a.bodyRoot) = Chunk("bytes32", b.bodyRoot)
      <4>1. /\ HeaderFields(a)[1] = HeaderFields(b)[1]
            /\ HeaderFields(a)[2] = HeaderFields(b)[2]
            /\ HeaderFields(a)[3] = HeaderFields(b)[3]
            /\ HeaderFields(a)[4] = HeaderFields(b)[4]
            /\ HeaderFields(a)[5] = HeaderFields(b)[5]
        BY <3>3
      <4> QED
        BY <3>4, <4>1
    <3>6. \A h \in {a, b} : h.slot \in Nat /\ h.proposerIndex \in Nat
      BY <3>1 DEF HeaderRecord
    <3>7. /\ a.slot = b.slot /\ a.proposerIndex = b.proposerIndex /\ a.parentRoot = b.parentRoot
          /\ a.stateRoot = b.stateRoot /\ a.bodyRoot = b.bodyRoot
      BY <3>5, <3>6, EncodingsDiffer
    <3>8. a = b
      BY <3>1, <3>7 DEF HeaderRecord
    <3> QED
      BY <3>8 DEF a, b
  <2>3. CASE kind = "withdrawal"
    <3>1. a \in WithdrawalRecord /\ b \in WithdrawalRecord
      BY <2>3 DEF InputsFit
    <3>2. Hash(Hash(Uint(a.index), Uint(a.validatorIndex)), Hash(Address(a.address), Uint(a.amount)))
            = Hash(Hash(Uint(b.index), Uint(b.validatorIndex)), Hash(Address(b.address), Uint(b.amount)))
      BY <2>3 DEF RootOf, WithdrawalHashTreeRoot
    <3> HIDE DEF a, b
    <3>3. /\ Hash(Uint(a.index), Uint(a.validatorIndex)) = Hash(Uint(b.index), Uint(b.validatorIndex))
          /\ Hash(Address(a.address), Uint(a.amount)) = Hash(Address(b.address), Uint(b.amount))
      BY <3>2, HashIsInjective
    <3>4. /\ Uint(a.index) = Uint(b.index) /\ Uint(a.validatorIndex) = Uint(b.validatorIndex)
          /\ Address(a.address) = Address(b.address) /\ Uint(a.amount) = Uint(b.amount)
      BY <3>3, HashIsInjective
    <3>5. \A w \in {a, b} : /\ w.index \in Nat /\ w.validatorIndex \in Nat
                            /\ w.address \in Nat /\ w.amount \in Nat
      BY <3>1 DEF WithdrawalRecord
    <3>6. /\ a.index = b.index /\ a.validatorIndex = b.validatorIndex
          /\ a.address = b.address /\ a.amount = b.amount
      BY <3>4, <3>5, EncodingsDiffer
    <3>7. a = b
      BY <3>1, <3>6 DEF WithdrawalRecord
    <3> QED
      BY <3>7 DEF a, b
  <2> QED
    BY <2>1, <2>2, <2>3 DEF IsRecord
<1> QED
  BY <1>1, InputsFitTheorem, PTL

-----------------------------------------------------------------------------
(* The Rust types.                                                         *)

\* The literal indices are the paths to what the contracts read.
THEOREM PathsTheorem == Spec => []IndicesArePaths
<1>1. ASSUME first \subseteq 0 .. 39
      PROVE  ValidatorGindex(first)
               = GeneralizedIndex(BeaconBlockState, <<"beacon_state", "validators", first>>)
  <2>1. \A i \in first : i \in 0 .. 39
    BY <1>1
  <2> QED
    BY <2>1, ValidatorNode, ValidatorPath
<1>2. /\ GeneralizedIndex(BeaconBlock, <<"proposer_index">>) = Bits[9]
      /\ GeneralizedIndex(BeaconBlock, <<"body", "execution_payload", "fee_recipient">>) = Bits[6433]
      /\ GeneralizedIndex(BeaconBlock, <<"body", "execution_payload", "timestamp">>) = Bits[6441]
  BY BlockPaths, LiteralIndices
<1>3. InputsFit => IndicesArePaths
  BY <1>1, <1>2 DEF IndicesArePaths
<1> QED
  BY <1>3, InputsFitTheorem, PTL

\* The struct of a record has the fields that Solidity has.
LEMMA RecordTypes ==
  /\ DistinctNames(Validator) /\ NestsIn(Validator, 6) /\ Validator.kind = "container"
  /\ DOMAIN Validator.fields = 1 .. 8 /\ Len(Validator.fields) = 8
  /\ DistinctNames(BeaconBlockHeader) /\ NestsIn(BeaconBlockHeader, 6)
  /\ BeaconBlockHeader.kind = "container"
  /\ DOMAIN BeaconBlockHeader.fields = 1 .. 5 /\ Len(BeaconBlockHeader.fields) = 5
  /\ DistinctNames(Withdrawal) /\ NestsIn(Withdrawal, 6) /\ Withdrawal.kind = "container"
  /\ DOMAIN Withdrawal.fields = 1 .. 4 /\ Len(Withdrawal.fields) = 4
<1>1. NestsIn(Validator, 6) /\ NestsIn(BeaconBlockHeader, 6) /\ NestsIn(Withdrawal, 6)
  BY FlatTypes, NestsInMore, 1 \in Nat, 6 \in Nat, 1 <= 6
<1>2. /\ DistinctNames(Validator) /\ Validator.kind = "container"
      /\ DOMAIN Validator.fields = 1 .. 8 /\ Len(Validator.fields) = 8
  BY DEF DistinctNames, Validator, Container
<1>3. /\ DistinctNames(BeaconBlockHeader) /\ BeaconBlockHeader.kind = "container"
      /\ DOMAIN BeaconBlockHeader.fields = 1 .. 5 /\ Len(BeaconBlockHeader.fields) = 5
  BY DEF DistinctNames, BeaconBlockHeader, Container
<1>4. /\ DistinctNames(Withdrawal) /\ Withdrawal.kind = "container"
      /\ DOMAIN Withdrawal.fields = 1 .. 4 /\ Len(Withdrawal.fields) = 4
  BY DEF DistinctNames, Withdrawal, Container
<1> QED
  BY <1>1, <1>2, <1>3, <1>4

\* The roots of numbers, of bytes and of a bool.
LEMMA RootsOfBasics ==
  ASSUME NEW v
  PROVE  /\ TreeRoot(U64, v) = Uint(v) /\ TreeRoot(Boolean, v) = Bool(v)
         /\ TreeRoot(Bytes32, v) = v /\ TreeRoot(Bytes48, v) = PubkeyRoot(v)
         /\ TreeRoot(ExecutionAddress, v) = Address(v)
<1>1. /\ NestsIn(U64, 6) /\ NestsIn(Boolean, 6) /\ NestsIn(Bytes32, 6) /\ NestsIn(Bytes48, 6)
      /\ NestsIn(ExecutionAddress, 6)
  BY BasicTypes, BasicNames, NestsInMore, 0 \in Nat, 6 \in Nat, 0 <= 6
<1>2. /\ U64.kind = "unsigned" /\ Boolean.kind = "boolean"
      /\ Bytes32.kind = "byteVector" /\ Bytes32.length = 32
      /\ Bytes48.kind = "byteVector" /\ Bytes48.length = 48
      /\ ExecutionAddress.kind = "byteVector" /\ ExecutionAddress.length = 20
  BY DEF U64, Boolean, Bytes32, Bytes48, ExecutionAddress, Unsigned, ByteVector
<1>3. BytesRoot(32, v) = v /\ BytesRoot(48, v) = PubkeyRoot(v) /\ BytesRoot(20, v) = Address(v)
  BY DEF BytesRoot
<1> QED
  BY <1>1, <1>2, <1>3, BasicRoots

\* The chunks of a validator.
LEMMA ValidatorRoots ==
  ASSUME NEW r
  PROVE  \A i \in 1 .. 8 : FieldRoots(Validator, ValidatorValue(r))[i] = ValidatorFields(r)[i]
<1> DEFINE v == ValidatorValue(r)
           At(i, name, inner) == i \in DOMAIN Validator.fields /\ Validator.fields[i] = <<name, inner>>
<1>1. \A i, name, inner : At(i, name, inner) => FieldRoots(Validator, v)[i] = TreeRoot(inner, v[name])
  BY RecordTypes, RootOfField
<1>2. /\ At(1, "pubkey", Bytes48) /\ At(2, "withdrawal_credentials", Bytes32)
      /\ At(3, "effective_balance", U64) /\ At(4, "slashed", Boolean)
      /\ At(5, "activation_eligibility_epoch", U64) /\ At(6, "activation_epoch", U64)
      /\ At(7, "exit_epoch", U64) /\ At(8, "withdrawable_epoch", U64)
  BY DEF Validator, Container
<1> HIDE DEF At
<1>3. /\ v["pubkey"] = r.pubkey /\ v["withdrawal_credentials"] = Bytes(r.withdrawalCredentials)
      /\ v["effective_balance"] = r.effectiveBalance /\ v["slashed"] = r.slashed
      /\ v["activation_eligibility_epoch"] = r.activationEligibilityEpoch
      /\ v["activation_epoch"] = r.activationEpoch /\ v["exit_epoch"] = r.exitEpoch
      /\ v["withdrawable_epoch"] = r.withdrawableEpoch
  BY DEF ValidatorValue
<1> HIDE DEF v
<1> DEFINE Is(i, chunk) == FieldRoots(Validator, v)[i] = chunk
<1>4. /\ Is(1, PubkeyRoot(r.pubkey)) /\ Is(2, Bytes(r.withdrawalCredentials))
      /\ Is(3, Uint(r.effectiveBalance)) /\ Is(4, Bool(r.slashed))
      /\ Is(5, Uint(r.activationEligibilityEpoch)) /\ Is(6, Uint(r.activationEpoch))
      /\ Is(7, Uint(r.exitEpoch)) /\ Is(8, Uint(r.withdrawableEpoch))
  BY ONLY <1>1, <1>2, <1>3, RootsOfBasics
<1> QED
  BY <1>4 DEF ValidatorFields, Bytes, v

\* The chunks of a header.
LEMMA HeaderRoots ==
  ASSUME NEW h
  PROVE  \A i \in 1 .. 5 : FieldRoots(BeaconBlockHeader, HeaderValue(h))[i] = HeaderFields(h)[i]
<1> DEFINE v == HeaderValue(h)
           At(i, name, inner) ==
             i \in DOMAIN BeaconBlockHeader.fields /\ BeaconBlockHeader.fields[i] = <<name, inner>>
<1>1. \A i, name, inner :
        At(i, name, inner) => FieldRoots(BeaconBlockHeader, v)[i] = TreeRoot(inner, v[name])
  BY RecordTypes, RootOfField
<1>2. /\ At(1, "slot", U64) /\ At(2, "proposer_index", U64) /\ At(3, "parent_root", Bytes32)
      /\ At(4, "state_root", Bytes32) /\ At(5, "body_root", Bytes32)
  BY DEF BeaconBlockHeader, Container
<1> HIDE DEF At
<1>3. /\ v["slot"] = h.slot /\ v["proposer_index"] = h.proposerIndex
      /\ v["parent_root"] = Bytes(h.parentRoot) /\ v["state_root"] = Bytes(h.stateRoot)
      /\ v["body_root"] = Bytes(h.bodyRoot)
  BY DEF HeaderValue
<1> HIDE DEF v
<1> DEFINE Is(i, chunk) == FieldRoots(BeaconBlockHeader, v)[i] = chunk
<1>4. /\ Is(1, Uint(h.slot)) /\ Is(2, Uint(h.proposerIndex)) /\ Is(3, Bytes(h.parentRoot))
      /\ Is(4, Bytes(h.stateRoot)) /\ Is(5, Bytes(h.bodyRoot))
  BY ONLY <1>1, <1>2, <1>3, RootsOfBasics
<1> QED
  BY <1>4 DEF HeaderFields, Bytes, v

\* The chunks of a withdrawal.
LEMMA WithdrawalRoots ==
  ASSUME NEW w
  PROVE  LET roots == FieldRoots(Withdrawal, WithdrawalValue(w))
         IN  /\ roots[1] = Uint(w.index) /\ roots[2] = Uint(w.validatorIndex)
             /\ roots[3] = Address(w.address) /\ roots[4] = Uint(w.amount)
<1> DEFINE v == WithdrawalValue(w)
           At(i, name, inner) == i \in DOMAIN Withdrawal.fields /\ Withdrawal.fields[i] = <<name, inner>>
<1>1. \A i, name, inner : At(i, name, inner) => FieldRoots(Withdrawal, v)[i] = TreeRoot(inner, v[name])
  BY RecordTypes, RootOfField
<1>2. /\ At(1, "index", U64) /\ At(2, "validator_index", U64)
      /\ At(3, "address", ExecutionAddress) /\ At(4, "amount", U64)
  BY DEF Withdrawal, Container
<1> HIDE DEF At
<1>3. /\ v["index"] = w.index /\ v["validator_index"] = w.validatorIndex
      /\ v["address"] = w.address /\ v["amount"] = w.amount
  BY DEF WithdrawalValue
<1> HIDE DEF v
<1> QED
  BY ONLY <1>1, <1>2, <1>3, RootsOfBasics DEF v

\* Solidity and Rust give a validator, a header and a withdrawal the same root.
THEOREM RootsAgreeTheorem == Spec => []RootsAgree
<1> DEFINE Eight(c1, c2, c3, c4, c5, c6, c7, c8) ==
             Hash(Hash(Hash(c1, c2), Hash(c3, c4)), Hash(Hash(c5, c6), Hash(c7, c8)))
<1>1. ASSUME NEW r
      PROVE  ValidatorHashTreeRoot(r) = TreeRoot(Validator, ValidatorValue(r))
  <2> DEFINE c == FieldRoots(Validator, ValidatorValue(r))
             d == ValidatorFields(r)
  <2>1. TreeRoot(Validator, ValidatorValue(r)) = Merkleized(8, c)[1]
    BY RecordTypes, ContainerRoot
  <2>2. \A i \in 1 .. 8 : c[i] = d[i]
    BY ValidatorRoots
  <2>3. DOMAIN d = 1 .. 8
    BY FieldsAreChunks
  <2> HIDE DEF c, d
  <2>4. HashTreeRoot(d) = Eight(d[1], d[2], d[3], d[4], d[5], d[6], d[7], d[8])
    BY <2>3, HashTreeRootValue
  <2>5. Merkleized(8, c)[1] = Eight(c[1], c[2], c[3], c[4], c[5], c[6], c[7], c[8])
    <3> DEFINE e(i) == IF i <= 8 THEN c[i] ELSE ZERO
    <3>1. Merkleized(8, c)[1] = Eight(e(1), e(2), e(3), e(4), e(5), e(6), e(7), e(8))
      BY SmallTrees
    <3> HIDE DEF Eight
    <3> QED
      BY <3>1
  <2> HIDE DEF Eight
  <2> QED
    BY <2>1, <2>2, <2>4, <2>5 DEF ValidatorHashTreeRoot, d
<1>2. ASSUME NEW h
      PROVE  BeaconHeaderHashTreeRoot(h) = TreeRoot(BeaconBlockHeader, HeaderValue(h))
  <2> DEFINE c == FieldRoots(BeaconBlockHeader, HeaderValue(h))
             d == HeaderFields(h)
  <2>1. TreeRoot(BeaconBlockHeader, HeaderValue(h)) = Merkleized(5, c)[1]
    BY RecordTypes, ContainerRoot
  <2>2. \A i \in 1 .. 5 : c[i] = d[i]
    BY HeaderRoots
  <2>3. DOMAIN d = 1 .. 8 /\ d[6] = ZERO /\ d[7] = ZERO /\ d[8] = ZERO
    BY DEF HeaderFields
  <2> HIDE DEF c, d
  <2>4. HashTreeRoot(d) = Eight(d[1], d[2], d[3], d[4], d[5], d[6], d[7], d[8])
    BY <2>3, HashTreeRootValue
  <2>5. Merkleized(5, c)[1] = Eight(c[1], c[2], c[3], c[4], c[5], ZERO, ZERO, ZERO)
    <3> DEFINE e(i) == IF i <= 5 THEN c[i] ELSE ZERO
    <3>1. Merkleized(5, c)[1] = Eight(e(1), e(2), e(3), e(4), e(5), e(6), e(7), e(8))
      BY SmallTrees
    <3> HIDE DEF Eight
    <3> QED
      BY <3>1
  <2> HIDE DEF Eight
  <2> QED
    BY <2>1, <2>2, <2>3, <2>4, <2>5 DEF BeaconHeaderHashTreeRoot, d
<1>3. ASSUME NEW w
      PROVE  WithdrawalHashTreeRoot(w) = TreeRoot(Withdrawal, WithdrawalValue(w))
  <2> DEFINE c == FieldRoots(Withdrawal, WithdrawalValue(w))
  <2>1. TreeRoot(Withdrawal, WithdrawalValue(w)) = Merkleized(4, c)[1]
    BY RecordTypes, ContainerRoot
  <2>2. /\ c[1] = Uint(w.index) /\ c[2] = Uint(w.validatorIndex)
        /\ c[3] = Address(w.address) /\ c[4] = Uint(w.amount)
    BY WithdrawalRoots
  <2> HIDE DEF c
  <2>3. Merkleized(4, c)[1] = Hash(Hash(c[1], c[2]), Hash(c[3], c[4]))
    BY SmallTrees
  <2> QED
    BY <2>1, <2>2, <2>3 DEF WithdrawalHashTreeRoot
<1>4. RootsAgree
  BY <1>1, <1>2, <1>3 DEF RootsAgree, RootOf
<1> QED
  BY <1>4, PTL

\* The structs for a block, and for a payload.
LEMMA ViewTypes ==
  /\ \A type \in {BeaconBlock, BeaconBlockHeader, BeaconBlockState} :
       /\ DistinctNames(type) /\ NestsIn(type, 6) /\ type.kind = "container"
       /\ DOMAIN type.fields = 1 .. 5 /\ Len(type.fields) = 5
  /\ \A type \in {ExecutionPayload, ExecutionPayloadHeader} :
       /\ DistinctNames(type) /\ NestsIn(type, 6) /\ type.kind = "container"
       /\ DOMAIN type.fields = 1 .. 17 /\ Len(type.fields) = 17
<1>1. /\ DistinctNames(BeaconBlock) /\ BeaconBlock.kind = "container"
      /\ DOMAIN BeaconBlock.fields = 1 .. 5 /\ Len(BeaconBlock.fields) = 5
  BY DEF DistinctNames, BeaconBlock, Container
<1>2. /\ DistinctNames(BeaconBlockState) /\ BeaconBlockState.kind = "container"
      /\ DOMAIN BeaconBlockState.fields = 1 .. 5 /\ Len(BeaconBlockState.fields) = 5
  BY DEF DistinctNames, BeaconBlockState, Container
<1>3. /\ DistinctNames(ExecutionPayload) /\ ExecutionPayload.kind = "container"
      /\ DOMAIN ExecutionPayload.fields = 1 .. 17 /\ Len(ExecutionPayload.fields) = 17
  BY DEF DistinctNames, ExecutionPayload, Container, PayloadStart, BlobGas
<1>4. /\ DistinctNames(ExecutionPayloadHeader) /\ ExecutionPayloadHeader.kind = "container"
      /\ DOMAIN ExecutionPayloadHeader.fields = 1 .. 17 /\ Len(ExecutionPayloadHeader.fields) = 17
  BY DEF DistinctNames, ExecutionPayloadHeader, Container, PayloadStart, BlobGas
<1>5. NestsIn(ExecutionPayloadHeader, 6)
  BY FlatTypes, NestsInMore, 1 \in Nat, 6 \in Nat, 1 <= 6
<1> QED
  BY <1>1, <1>2, <1>3, <1>4, <1>5, BlocksNest, StatesNest, RecordTypes

\* A block, its header and its header with the state have the same chunks.
LEMMA BlockRoots ==
  ASSUME NEW b, NEW i \in 1 .. 5
  PROVE  /\ FieldRoots(BeaconBlock, BlockValue(b))[i]
              = FieldRoots(BeaconBlockHeader, BlockHeaderValue(b))[i]
         /\ FieldRoots(BeaconBlockState, BlockStateValue(b))[i]
              = FieldRoots(BeaconBlockHeader, BlockHeaderValue(b))[i]
<1> DEFINE At(type, j, name, inner) ==
             /\ type \in {BeaconBlock, BeaconBlockHeader, BeaconBlockState}
             /\ j \in DOMAIN type.fields /\ type.fields[j] = <<name, inner>>
           whole == BlockValue(b)
           header == BlockHeaderValue(b)
           state == BlockStateValue(b)
<1>1. \A type, j, name, inner, v :
        At(type, j, name, inner) => FieldRoots(type, v)[j] = TreeRoot(inner, v[name])
  BY ViewTypes, RootOfField
<1>2. /\ At(BeaconBlock, 1, "slot", U64) /\ At(BeaconBlock, 2, "proposer_index", U64)
      /\ At(BeaconBlock, 3, "parent_root", Bytes32) /\ At(BeaconBlock, 4, "state_root", Bytes32)
      /\ At(BeaconBlock, 5, "body", BeaconBlockBody)
  BY DEF BeaconBlock, Container
<1>3. /\ At(BeaconBlockHeader, 1, "slot", U64) /\ At(BeaconBlockHeader, 2, "proposer_index", U64)
      /\ At(BeaconBlockHeader, 3, "parent_root", Bytes32)
      /\ At(BeaconBlockHeader, 4, "state_root", Bytes32)
      /\ At(BeaconBlockHeader, 5, "body_root", Bytes32)
  BY DEF BeaconBlockHeader, Container
<1>4. /\ At(BeaconBlockState, 1, "slot", U64) /\ At(BeaconBlockState, 2, "proposer_index", U64)
      /\ At(BeaconBlockState, 3, "parent_root", Bytes32)
      /\ At(BeaconBlockState, 4, "beacon_state", BeaconState)
      /\ At(BeaconBlockState, 5, "body_root", Bytes32)
  BY DEF BeaconBlockState, Container
<1> HIDE DEF At
<1>5. /\ whole["slot"] = b.slot /\ whole["proposer_index"] = b.proposerIndex
      /\ whole["parent_root"] = Bytes(b.parentRoot)
      /\ whole["state_root"] = TreeRoot(BeaconState, b.state) /\ whole["body"] = b.body
  BY DEF BlockValue
<1>6. /\ header["slot"] = b.slot /\ header["proposer_index"] = b.proposerIndex
      /\ header["parent_root"] = Bytes(b.parentRoot)
      /\ header["state_root"] = TreeRoot(BeaconState, b.state)
      /\ header["body_root"] = TreeRoot(BeaconBlockBody, b.body)
  BY DEF BlockHeaderValue
<1>7. /\ state["slot"] = b.slot /\ state["proposer_index"] = b.proposerIndex
      /\ state["parent_root"] = Bytes(b.parentRoot) /\ state["beacon_state"] = b.state
      /\ state["body_root"] = TreeRoot(BeaconBlockBody, b.body)
  BY DEF BlockStateValue
<1> HIDE DEF whole, header, state
<1> DEFINE Same(j) == /\ FieldRoots(BeaconBlock, whole)[j] = FieldRoots(BeaconBlockHeader, header)[j]
                      /\ FieldRoots(BeaconBlockState, state)[j] = FieldRoots(BeaconBlockHeader, header)[j]
<1>8. Same(1) /\ Same(2) /\ Same(3) /\ Same(4) /\ Same(5)
  BY ONLY <1>1, <1>2, <1>3, <1>4, <1>5, <1>6, <1>7, RootsOfBasics
<1> HIDE DEF Same
<1>9. Same(i)
  BY <1>8
<1> QED
  BY <1>9 DEF Same, whole, header, state

\* So have a payload and its header.
LEMMA PayloadRoots ==
  ASSUME NEW payload, NEW i \in 1 .. 17
  PROVE  FieldRoots(ExecutionPayload, payload)[i]
           = FieldRoots(ExecutionPayloadHeader, PayloadHeaderValue(payload))[i]
<1> DEFINE header == PayloadHeaderValue(payload)
           name == ExecutionPayloadHeader.fields[i][1]
           inner == ExecutionPayloadHeader.fields[i][2]
<1>1. /\ DistinctNames(ExecutionPayload) /\ DOMAIN ExecutionPayload.fields = 1 .. 17
      /\ DistinctNames(ExecutionPayloadHeader) /\ DOMAIN ExecutionPayloadHeader.fields = 1 .. 17
  BY ViewTypes
<1>2. /\ ExecutionPayload.fields[14]
           = <<"transactions", List(Transaction, MAX_TRANSACTIONS_PER_PAYLOAD)>>
      /\ ExecutionPayload.fields[15]
           = <<"withdrawals", List(Withdrawal, MAX_WITHDRAWALS_PER_PAYLOAD)>>
      /\ ExecutionPayloadHeader.fields[14] = <<"transactions_root", Bytes32>>
      /\ ExecutionPayloadHeader.fields[15] = <<"withdrawals_root", Bytes32>>
      /\ \A j \in (1 .. 17) \ {14, 15} : ExecutionPayload.fields[j] = ExecutionPayloadHeader.fields[j]
  BY PayloadFields
<1>3. /\ ExecutionPayloadHeader.fields[14][1] = "transactions_root"
      /\ ExecutionPayloadHeader.fields[15][1] = "withdrawals_root"
  BY <1>2
<1>4. /\ name \in Names(ExecutionPayloadHeader)
      /\ "transactions_root" \in Names(ExecutionPayloadHeader)
      /\ "withdrawals_root" \in Names(ExecutionPayloadHeader)
  BY <1>1, <1>3 DEF Names
<1>5. CASE i = 14
  <2>1. FieldRoots(ExecutionPayload, payload)[14]
          = TreeRoot(List(Transaction, MAX_TRANSACTIONS_PER_PAYLOAD), payload["transactions"])
    <3>1. 14 \in DOMAIN ExecutionPayload.fields
      BY <1>1
    <3> QED
      BY ONLY <1>1, <1>2, <3>1, RootOfField
  <2>2. FieldRoots(ExecutionPayloadHeader, header)[14] = TreeRoot(Bytes32, header["transactions_root"])
    <3>1. 14 \in DOMAIN ExecutionPayloadHeader.fields
      BY <1>1
    <3> QED
      BY ONLY <1>1, <1>2, <3>1, RootOfField
  <2>3. FieldType(ExecutionPayload, "transactions") = List(Transaction, MAX_TRANSACTIONS_PER_PAYLOAD)
    <3>1. 14 \in DOMAIN ExecutionPayload.fields
      BY <1>1
    <3> QED
      BY ONLY <1>1, <1>2, <3>1, FieldsByName
  <2>4. header["transactions_root"]
          = TreeRoot(FieldType(ExecutionPayload, "transactions"), payload["transactions"])
    BY <1>4 DEF PayloadHeaderValue
  <2> HIDE DEF header
  <2>5. TreeRoot(Bytes32, header["transactions_root"]) = header["transactions_root"]
    BY RootsOfBasics
  <2> QED
    BY ONLY <1>5, <2>1, <2>2, <2>3, <2>4, <2>5 DEF header
<1>6. CASE i = 15
  <2>1. FieldRoots(ExecutionPayload, payload)[15]
          = TreeRoot(List(Withdrawal, MAX_WITHDRAWALS_PER_PAYLOAD), payload["withdrawals"])
    <3>1. 15 \in DOMAIN ExecutionPayload.fields
      BY <1>1
    <3> QED
      BY ONLY <1>1, <1>2, <3>1, RootOfField
  <2>2. FieldRoots(ExecutionPayloadHeader, header)[15] = TreeRoot(Bytes32, header["withdrawals_root"])
    <3>1. 15 \in DOMAIN ExecutionPayloadHeader.fields
      BY <1>1
    <3> QED
      BY ONLY <1>1, <1>2, <3>1, RootOfField
  <2>3. FieldType(ExecutionPayload, "withdrawals") = List(Withdrawal, MAX_WITHDRAWALS_PER_PAYLOAD)
    <3>1. 15 \in DOMAIN ExecutionPayload.fields
      BY <1>1
    <3> QED
      BY ONLY <1>1, <1>2, <3>1, FieldsByName
  <2>4. header["withdrawals_root"]
          = TreeRoot(FieldType(ExecutionPayload, "withdrawals"), payload["withdrawals"])
    BY <1>4 DEF PayloadHeaderValue
  <2> HIDE DEF header
  <2>5. TreeRoot(Bytes32, header["withdrawals_root"]) = header["withdrawals_root"]
    BY RootsOfBasics
  <2> QED
    BY ONLY <1>6, <2>1, <2>2, <2>3, <2>4, <2>5 DEF header
<1>7. CASE i \in (1 .. 17) \ {14, 15}
  <2>1. name # "transactions_root" /\ name # "withdrawals_root"
    BY <1>1, <1>3, <1>7, SMTT(30) DEF DistinctNames
  <2>2. header[name] = payload[name]
    BY <1>4, <2>1 DEF PayloadHeaderValue
  <2>3. ExecutionPayloadHeader.fields[i] = <<name, inner>>
    BY <1>7 DEF ExecutionPayloadHeader, Container, PayloadStart, BlobGas
  <2>4. ExecutionPayload.fields[i] = <<name, inner>>
    BY <1>2, <1>7, <2>3
  <2>5. i \in DOMAIN ExecutionPayload.fields /\ i \in DOMAIN ExecutionPayloadHeader.fields
    BY <1>1
  <2> HIDE DEF header, name, inner
  <2>6. FieldRoots(ExecutionPayload, payload)[i] = TreeRoot(inner, payload[name])
    BY ONLY <1>1, <2>4, <2>5, RootOfField
  <2>7. FieldRoots(ExecutionPayloadHeader, header)[i] = TreeRoot(inner, header[name])
    BY ONLY <1>1, <2>3, <2>5, RootOfField
  <2> QED
    BY ONLY <2>2, <2>6, <2>7 DEF header
<1> QED
  BY <1>5, <1>6, <1>7

\* What the structs say of a block has one root.
THEOREM ViewsTheorem == Spec => []ViewsShareRoot
<1>1. ASSUME NEW b
      PROVE  /\ TreeRoot(BeaconBlock, BlockValue(b)) = TreeRoot(BeaconBlockHeader, BlockHeaderValue(b))
             /\ TreeRoot(BeaconBlockState, BlockStateValue(b))
                  = TreeRoot(BeaconBlockHeader, BlockHeaderValue(b))
  <2>1. /\ Alike(BeaconBlock, BlockValue(b), BeaconBlockHeader, BlockHeaderValue(b))
        /\ Alike(BeaconBlockState, BlockStateValue(b), BeaconBlockHeader, BlockHeaderValue(b))
    BY ViewTypes, BlockRoots DEF Alike
  <2> QED
    BY ONLY <2>1, SameRoots
<1>2. ASSUME NEW payload
      PROVE  TreeRoot(ExecutionPayload, payload)
               = TreeRoot(ExecutionPayloadHeader, PayloadHeaderValue(payload))
  <2>1. Alike(ExecutionPayload, payload, ExecutionPayloadHeader, PayloadHeaderValue(payload))
    BY ViewTypes, PayloadRoots DEF Alike
  <2> QED
    BY ONLY <2>1, SameRoots
<1>3. ViewsShareRoot
  BY <1>1, <1>2 DEF ViewsShareRoot
<1> QED
  BY <1>3, PTL

=============================================================================
