---------------------- MODULE FeeRecipientProofs_proofs ----------------------
(***************************************************************************)
(* What a transaction has to have behind it before verifyFeeRecipient      *)
(* accepts a proof that is none.                                           *)
(***************************************************************************)
EXTENDS FeeRecipientProofs, Merkle_proofs

-----------------------------------------------------------------------------
(* The two fields.                                                         *)

\* Neither field is above the other one.
LEMMA FieldIndicesFacts ==
  /\ AreNodes(FieldIndices) /\ Distinct(FieldIndices) /\ Antichain(ToSet(FieldIndices))
  /\ DOMAIN FieldIndices = 1 .. 2
<1>1. /\ FieldIndices \in Seq(Nat) /\ FieldIndices # <<>> /\ DOMAIN FieldIndices = 1 .. 2
      /\ FieldIndices[1] = 9 /\ FieldIndices[2] = 6433
  BY DEF FieldIndices
<1>2. ToSet(FieldIndices) = {9, 6433}
  <2>1. ToSet(FieldIndices) = { FieldIndices[i] : i \in 1 .. 2 }
    BY <1>1 DEF ToSet
  <2>2. 1 .. 2 = {1, 2}
    OBVIOUS
  <2> HIDE DEF FieldIndices
  <2> QED
    BY <1>1, <2>1, <2>2
<1>3. AreNodes(FieldIndices)
  BY <1>1, <1>2 DEF AreNodes
<1>4. Distinct(FieldIndices)
  BY <1>1 DEF Distinct
<1>5. 6433 \notin Ancestors[9]
  BY AncestorFacts
<1>6. 9 \notin Ancestors[6433]
  <2>1. \A k \in Nat : k > 1 => Ancestors[k] = {k \div 2} \cup Ancestors[k \div 2]
    <3> SUFFICES ASSUME NEW k \in Nat, k > 1
                 PROVE  Ancestors[k] = {k \div 2} \cup Ancestors[k \div 2]
      OBVIOUS
    <3>1. ~(k <= 1)
      OBVIOUS
    <3> QED
      BY <3>1, AncestorsCases
  <2>2. /\ 6433 \div 2 = 3216 /\ 3216 \div 2 = 1608 /\ 1608 \div 2 = 804 /\ 804 \div 2 = 402
        /\ 402 \div 2 = 201 /\ 201 \div 2 = 100 /\ 100 \div 2 = 50 /\ 50 \div 2 = 25
        /\ 25 \div 2 = 12 /\ 12 \div 2 = 6
    OBVIOUS
  <2>3. 9 \notin Ancestors[6]
    BY AncestorFacts
  <2>4. Ancestors[12] = {6} \cup Ancestors[6] /\ Ancestors[25] = {12} \cup Ancestors[12]
    BY <2>1, <2>2
  <2>5. Ancestors[50] = {25} \cup Ancestors[25] /\ Ancestors[100] = {50} \cup Ancestors[50]
    BY <2>1, <2>2
  <2>6. Ancestors[201] = {100} \cup Ancestors[100] /\ Ancestors[402] = {201} \cup Ancestors[201]
    BY <2>1, <2>2
  <2>7. Ancestors[804] = {402} \cup Ancestors[402] /\ Ancestors[1608] = {804} \cup Ancestors[804]
    BY <2>1, <2>2
  <2>8. /\ Ancestors[3216] = {1608} \cup Ancestors[1608]
        /\ Ancestors[6433] = {3216} \cup Ancestors[3216]
    BY <2>1, <2>2
  <2>9. 9 \notin Ancestors[25]
    BY <2>3, <2>4
  <2>10. 9 \notin Ancestors[402]
    BY <2>5, <2>6, <2>9
  <2> QED
    BY <2>7, <2>8, <2>10
<1>7. Antichain(ToSet(FieldIndices))
  BY <1>2, <1>5, <1>6 DEF Antichain
<1> QED
  BY <1>1, <1>3, <1>4, <1>7

\* Proposals that agree on the leaves agree.
LEMMA LeavesDiffer ==
  ASSUME NEW a \in Proposals, NEW b \in Proposals, Leaves(a) = Leaves(b)
  PROVE  a = b
<1>1. a \in [proposer : Nat, recipient : Nat] /\ b \in [proposer : Nat, recipient : Nat]
  BY FeeRecipientAssumption DEF FeeRecipientAssumption
<1>2. Uint(a.proposer) = Uint(b.proposer) /\ Address(a.recipient) = Address(b.recipient)
  BY DEF Leaves
<1>3. \A m, n \in Nat : Uint(m) = Uint(n) => m = n
  BY DEF Uint, Chunk
<1>4. \A m, n \in Nat : Address(m) = Address(n) => m = n
  BY DEF Address, Chunk
<1>5. a.proposer = b.proposer /\ a.recipient = b.recipient
  BY <1>1, <1>2, <1>3, <1>4
<1> QED
  BY <1>1, <1>5

\* The root of a block is a hash, for the fields are below it.
LEMMA RootIsHash ==
  ASSUME NEW block \in Proposals
  PROVE  \E l, r : Root(block) = Hash(l, r)
<1> DEFINE tree == BlockTree[block]
<1>1. IsTree(tree) /\ 9 \in DOMAIN tree
  <2>1. IsTree(tree) /\ ToSet(FieldIndices) \subseteq DOMAIN tree
    BY FeeRecipientAssumption DEF FeeRecipientAssumption
  <2>2. 9 \in ToSet(FieldIndices)
    <3>1. 1 \in DOMAIN FieldIndices /\ FieldIndices[1] = 9
      BY DEF FieldIndices
    <3> HIDE DEF FieldIndices
    <3> QED
      BY <3>1 DEF ToSet
  <2> QED
    BY <2>1, <2>2
<1> HIDE DEF tree
<1>2. \A k \in DOMAIN tree : k > 1 => /\ k \div 2 \in DOMAIN tree
                                     /\ tree[k \div 2] = HashOfPair(tree, k)
  BY <1>1 DEF IsTree, Parent
<1>3. 9 \div 2 = 4 /\ 4 \div 2 = 2 /\ 2 \div 2 = 1
  OBVIOUS
<1>4. 4 \in DOMAIN tree
  BY <1>1, <1>2, <1>3
<1>5. 2 \in DOMAIN tree
  BY <1>2, <1>3, <1>4
<1>6. tree[1] = HashOfPair(tree, 2)
  BY <1>2, <1>3, <1>5
<1> QED
  BY <1>6 DEF HashOfPair, Root, tree

\* A hash is none of the other values that a root can have.
LEMMA HashIsNoOther ==
  ASSUME NEW l, NEW r
  PROVE  /\ Hash(l, r) # ZERO /\ Hash(l, r) # Reverted
         /\ \A c : Hash(l, r) # Leaves(c)[1] /\ Hash(l, r) # Leaves(c)[2]
BY DEF Hash, ZERO, Uint, Address, Chunk, Reverted, Leaves

-----------------------------------------------------------------------------
(* What a call leaves alone in the map that it finds.                      *)

\* The root is on no branch.
LEMMA BranchMissesRoot == \A k \in Nat : 1 \notin ToSet(BranchFrom[k])
<1> DEFINE S == { k \in Nat : 1 \notin ToSet(BranchFrom[k]) }
<1>1. ASSUME NEW k \in Nat, \A m \in Nat : m < k => m \in S
      PROVE  k \in S
  <2>1. CASE k <= 1
    <3>1. BranchFrom[k] = <<>>
      BY <2>1, BranchValue
    <3>2. 1 \notin ToSet(<<>>)
      BY DEF ToSet
    <3> QED
      BY <3>1, <3>2
  <2>2. CASE ~(k <= 1)
    <3> DEFINE h == k \div 2
    <3>1. h \in Nat /\ h < k /\ Sibling(k) \in Nat /\ Sibling(k) > 1
      BY <2>2, Siblings
    <3>2. BranchFrom[k] = <<Sibling(k)>> \o BranchFrom[h] /\ BranchFrom[h] \in Seq(Nat)
      BY <2>2, <3>1, BranchValue
    <3>3. 1 \notin ToSet(BranchFrom[h])
      BY <1>1, <3>1
    <3> HIDE DEF h
    <3>4. <<Sibling(k)>> \in Seq(Nat)
      BY <3>1
    <3>5. ToSet(<<Sibling(k)>> \o BranchFrom[h]) = ToSet(<<Sibling(k)>>) \cup ToSet(BranchFrom[h])
      <4>1. BranchFrom[h] \in Seq(Nat)
        BY <3>2
      <4> QED
        BY ONLY <3>4, <4>1, ToSetConcat, ZenonT(30)
    <3>6. 1 \notin ToSet(<<Sibling(k)>>)
      BY <3>1 DEF ToSet
    <3> QED
      BY <3>2, <3>3, <3>5, <3>6
  <2> QED
    BY <2>1, <2>2
<1>2. Nat \subseteq S
  <2> HIDE DEF S
  <2> QED
    BY <1>1, StrongInduction
<1> QED
  BY <1>2

\* Whatever the indices, also zero or one twice, the paths and the branches are
\* sequences, and the root is on no branch.
LEMMA PathsOfAny ==
  ASSUME NEW indices \in Seq(Nat), indices # <<>>
  PROVE  /\ AllPathIndices(indices) \in Seq(Nat)
         /\ AllBranchIndices(indices) \in Seq(Nat)
         /\ 1 \notin ToSet(AllBranchIndices(indices))
<1> DEFINE D == DOMAIN indices
           paths == [i \in D |-> PathFrom[indices[i]]]
           branches == [i \in D |-> BranchFrom[indices[i]]]
<1>1. /\ D = 1 .. Len(indices) /\ Len(indices) \in Nat /\ Len(indices) > 0
      /\ \A i \in D : indices[i] \in Nat
  OBVIOUS
<1>2. /\ paths \in Seq(Seq(Nat)) /\ paths # <<>>
      /\ branches \in Seq(Seq(Nat)) /\ branches # <<>> /\ DOMAIN branches = D
  <2>1. \A i \in D : PathFrom[indices[i]] \in Seq(Nat) /\ BranchFrom[indices[i]] \in Seq(Nat)
    BY <1>1, PathValue, BranchValue
  <2>2. Len(paths) = Len(indices) /\ Len(branches) = Len(indices)
    BY <1>1
  <2> QED
    BY <1>1, <2>1, <2>2
<1>3. \A i \in D : 1 \notin ToSet(branches[i])
  BY <1>1, BranchMissesRoot
<1>4. AllPathIndices(indices) = FlattenSeq(paths) /\ AllBranchIndices(indices) = FlattenSeq(branches)
  BY DEF AllPathIndices, AllBranchIndices, GetPathIndices, GetBranchIndices
<1> HIDE DEF paths, branches, D
<1>5. FlattenSeq(paths) \in Seq(Nat) /\ FlattenSeq(branches) \in Seq(Nat)
  BY <1>2, FlattenItems
<1>6. ToSet(FlattenSeq(branches)) = UNION { ToSet(branches[i]) : i \in D }
  BY <1>2, FlattenItems
<1> QED
  BY <1>3, <1>4, <1>5, <1>6

\* The helpers of any indices do not have the root, and the loop over them has a
\* number of rounds.
LEMMA HelpersOfAny ==
  ASSUME NEW indices \in Seq(Nat), indices # <<>>
  PROVE  LET helpers == GetHelperIndices(indices)
         IN  /\ helpers \in Seq(Nat) /\ 1 \notin ToSet(helpers)
             /\ Rounds(SortReverse(Concat(helpers, indices))) \in Nat
<1> DEFINE d == Difference(AllBranchIndices(indices), AllPathIndices(indices))
           helpers == GetHelperIndices(indices)
           both == Concat(helpers, indices)
           keys == SortReverse(both)
<1>1. d \in Seq(Nat) /\ 1 \notin ToSet(d)
  BY PathsOfAny, DifferenceKeepsLast
<1>2. helpers = SortReverse(d)
  BY DEF GetHelperIndices
<1> HIDE DEF d, helpers
<1>3. helpers \in Seq(Nat) /\ ToSet(helpers) = ToSet(d)
  BY <1>1, <1>2, SortReverseIsSort
<1>4. both \in Seq(Nat) /\ Len(both) > 0
  BY <1>3 DEF Concat
<1> HIDE DEF both
<1>5. keys \in Seq(Nat) /\ Len(keys) = Len(both)
  BY <1>4, SortReverseRearranges DEF Rearranged
<1>6. keys # <<>>
  BY <1>4, <1>5
<1> HIDE DEF keys
<1>7. AllPathIndices(keys) \in Seq(Nat)
  BY <1>5, <1>6, PathsOfAny
<1>8. PICK b \in Nat : \A k \in ToSet(AllPathIndices(keys)) : k \in 0 .. b
  BY <1>7, ItemsHaveBound
<1> DEFINE U == { Parent(k) : k \in ToSet(AllPathIndices(keys)) }
<1>9. IsFiniteSet(U)
  <2>1. \A k \in 0 .. b : k \div 2 \in Nat /\ k \div 2 <= b
    OBVIOUS
  <2>2. \A q \in U : q \in Nat /\ q <= b
    BY <1>8, <2>1 DEF Parent
  <2> HIDE DEF U
  <2>3. U \in SUBSET Nat
    BY <2>2
  <2> QED
    BY <2>2, <2>3, FS_BoundedSetOfNaturals
<1>10. Cardinality(U) \in Nat
  BY <1>9, FS_CardinalityType
<1>11. Rounds(keys) = Len(keys) + Cardinality(U)
  BY DEF Rounds
<1> HIDE DEF U
<1>12. Rounds(keys) \in Nat
  BY <1>5, <1>10, <1>11
<1> QED
  BY <1>1, <1>3, <1>12 DEF keys, both, helpers

\* The loop overwrites nothing.
LEMMA LoopKeeps ==
  ASSUME NEW map0, NEW keys0, Rounds(keys0) \in Nat, NEW q \in DOMAIN map0
  PROVE  LET final == CombineFrom(map0, keys0)[Rounds(keys0)].map
         IN  q \in DOMAIN final /\ final[q] = map0[q]
<1> DEFINE after == CombineFrom(map0, keys0)
           m == Rounds(keys0)
<1>1. IsLoop(after, map0, keys0, m)
  BY CombineValue
<1>2. m \in Nat
  OBVIOUS
<1> HIDE DEF after, m
<1>3. /\ after[0] = [map |-> map0, keys |-> keys0]
      /\ \A n \in Nat : n + 1 <= m =>
           after[n + 1] = IF n + 1 <= Len(after[n].keys)
                          THEN Combined(after[n], n + 1) ELSE after[n]
  BY <1>1 DEF IsLoop
<1> DEFINE Good(s) == q \in DOMAIN s.map /\ s.map[q] = map0[q]
           S == { n \in Nat : n <= m => Good(after[n]) }
<1>4. ASSUME NEW s, NEW n, Good(s)
      PROVE  Good(Combined(s, n))
  <2> DEFINE k == s.keys[n]
             new == Set(s.map, Parent(k), HashOfPair(s.map, k))
  <2>1. CASE Combined(s, n) = s
    BY <1>4, <2>1
  <2>2. CASE Combined(s, n) # s
    <3>1. /\ Parent(k) \notin DOMAIN s.map
          /\ Combined(s, n) = [map |-> new, keys |-> Push(s.keys, Parent(k))]
      BY <2>2 DEF Combined, HasKey
    <3>2. q \in DOMAIN new /\ new[q] = s.map[q]
      BY <1>4, <3>1 DEF Set
    <3>3. Combined(s, n).map = new
      BY <3>1
    <3> QED
      BY <1>4, <3>2, <3>3
  <2> QED
    BY <2>1, <2>2
<1>5. 0 \in S
  BY <1>3
<1>6. ASSUME NEW n \in Nat, n \in S
      PROVE  n + 1 \in S
  <2> SUFFICES ASSUME n + 1 <= m PROVE Good(after[n + 1])
    OBVIOUS
  <2>1. Good(after[n])
    BY <1>2, <1>6
  <2>2. after[n + 1] = Combined(after[n], n + 1) \/ after[n + 1] = after[n]
    BY <1>3
  <2> HIDE DEF Good
  <2> QED
    BY <1>4, <2>1, <2>2
<1>7. Nat \subseteq S
  <2> HIDE DEF S
  <2> QED
    BY <1>5, <1>6, Induction
<1>8. Good(after[m])
  BY <1>2, <1>7
<1> QED
  BY <1>8 DEF after, m

\* A key that is set has one of the values.
LEMMA SetAllHas ==
  ASSUME NEW map, NEW keys \in Seq(Nat), NEW values, NEW q \in ToSet(keys)
  PROVE  /\ q \in DOMAIN SetAll(map, keys, values)
         /\ \E i \in DOMAIN keys : SetAll(map, keys, values)[q] = values[i]
<1> DEFINE P == { i \in DOMAIN keys : keys[i] = q }
           new == SetAll(map, keys, values)
<1>1. q \in DOMAIN new /\ new[q] = values[Max(P)]
  BY DEF SetAll
<1>2. P # {}
  BY DEF ToSet
<1>3. Len(keys) \in Nat /\ \A i \in P : i \in 0 .. Len(keys)
  OBVIOUS
<1> HIDE DEF new, P
<1>4. Max(P) \in P
  BY <1>2, <1>3, Greatest
<1>5. Max(P) \in DOMAIN keys
  BY <1>4 DEF P
<1> QED
  BY <1>1, <1>5 DEF new

\* A key that is not set has what it had.
LEMMA SetAllLeaves ==
  ASSUME NEW map, NEW keys, NEW values, NEW q \in DOMAIN map, q \notin ToSet(keys)
  PROVE  q \in DOMAIN SetAll(map, keys, values) /\ SetAll(map, keys, values)[q] = map[q]
BY DEF SetAll

-----------------------------------------------------------------------------
(* One call.                                                               *)

\* The calculations that are made beforehand are those of a first call.
LEMMA CalculatedValue ==
  ASSUME NEW map, NEW request \in Requests, NEW claim \in Proposals
  PROVE  Calculated(map, request, claim) = Calculate(map, request, claim)
<1> DEFINE g == [request |-> request, claim |-> claim,
                 result |-> Calculate(EmptyMap, request, claim)]
           f == CHOOSE x \in FirstCalculated : x.request = request /\ x.claim = claim
<1>1. g \in FirstCalculated /\ g.request = request /\ g.claim = claim
  BY DEF FirstCalculated
<1>2. f \in FirstCalculated /\ f.request = request /\ f.claim = claim
  <2> HIDE DEF g
  <2> QED
    BY <1>1
<1> HIDE DEF f
<1>3. f.result = Calculate(EmptyMap, f.request, f.claim)
  <2>1. PICK r \in Requests, c \in Proposals :
          f = [request |-> r, claim |-> c, result |-> Calculate(EmptyMap, r, c)]
    BY <1>2 DEF FirstCalculated
  <2> QED
    BY <2>1
<1>4. Calculated(map, request, claim) = IF map = EmptyMap THEN f.result
                                        ELSE Calculate(map, request, claim)
  <2>1. Calculated(map, request, claim)
          = IF map = EmptyMap
            THEN (CHOOSE x \in FirstCalculated : x.request = request /\ x.claim = claim).result
            ELSE Calculate(map, request, claim)
    BY DEF Calculated
  <2> QED
    BY <2>1 DEF f
<1> QED
  BY <1>2, <1>3, <1>4

\* On an empty map a proof at two separate indices leads to the root of a block
\* exactly with the values and the hashes of that block.
LEMMA FirstCall ==
  ASSUME NEW v, v.block \in Proposals, v.request \in Requests, v.claim \in Proposals,
         AreSeparate(v)
  PROVE  Calculated(EmptyMap, v.request, v.claim).root = Root(v.block) <=> IsExact(v)
<1> DEFINE tree == BlockTree[v.block]
           indices == v.request.indices
           proof == v.request.proof
           T == { proof[i] : i \in DOMAIN proof }
           leaves == Leaves(v.claim)
           U == {leaves[1], leaves[2]}
<1>1. IsTree(tree) /\ indices \in Seq(Nat) /\ proof \in Seq(T)
  BY FeeRecipientAssumption DEF FeeRecipientAssumption
<1>2. /\ Len(indices) = 2 /\ Distinct(indices)
      /\ ToSet(indices) \subseteq DOMAIN tree /\ Antichain(ToSet(indices))
  BY DEF AreSeparate
<1>3. leaves \in Seq(U)
  BY DEF Leaves
<1>4. Calculated(EmptyMap, v.request, v.claim).root
        = CalculateMultiMerkleRoot(EmptyMap, proof, leaves, indices).root
  BY CalculatedValue DEF Calculate
<1>5. Root(v.block) = tree[1]
  BY DEF Root
<1>6. IsExact(v) <=> /\ leaves = NodesOf(tree, indices)
                     /\ proof = NodesOf(tree, GetHelperIndices(indices))
  BY DEF IsExact
<1> HIDE DEF T, U, proof, leaves, tree, indices
<1>7. AreNodes(indices)
  <2>1. \A k \in ToSet(indices) : k > 0
    BY <1>1, <1>2 DEF IsTree
  <2>2. indices # <<>>
    BY <1>2
  <2> QED
    BY <1>1, <2>1, <2>2 DEF AreNodes
<1> QED
  BY <1>1, <1>2, <1>3, <1>4, <1>5, <1>6, <1>7, MultiProofExact

\* A call that leads to a hash leaves it as the root in the map, and it is the
\* root that the call has found there, if it has found one.
LEMMA RootStays ==
  ASSUME NEW map, NEW request \in Requests, NEW claim \in Proposals, Len(request.indices) = 2,
         NEW l, NEW r, Calculate(map, request, claim).root = Hash(l, r)
  PROVE  LET new == Calculate(map, request, claim).map
         IN  /\ 1 \in DOMAIN new /\ new[1] = Hash(l, r)
             /\ 1 \in DOMAIN map => map[1] = Hash(l, r)
<1> DEFINE indices == request.indices
           leaves == Leaves(claim)
           helpers == GetHelperIndices(indices)
           keys == SortReverse(Concat(helpers, indices))
           given == SetAll(map, helpers, request.proof)
           known == SetAll(given, indices, leaves)
           final == CombineFrom(known, keys)[Rounds(keys)].map
           result == Calculate(map, request, claim)
<1>1. result = IF Len(leaves) # Len(indices) \/ Len(request.proof) # Len(helpers)
               THEN [root |-> Reverted, map |-> map]
               ELSE [root |-> Get(final, 1, ZERO), map |-> final]
  BY DEF Calculate, CalculateMultiMerkleRoot
<1>2. indices \in Seq(Nat) /\ indices # <<>> /\ DOMAIN indices = 1 .. 2
  <2>1. indices \in Seq(Nat) /\ Len(indices) = 2
    BY FeeRecipientAssumption DEF FeeRecipientAssumption
  <2> HIDE DEF indices
  <2>2. DOMAIN indices = 1 .. Len(indices)
    BY <2>1
  <2>3. indices # <<>>
    <3>1. 1 \in DOMAIN indices /\ 1 \notin DOMAIN <<>>
      BY <2>1, <2>2
    <3> QED
      BY ONLY <3>1, Zenon
  <2> QED
    BY <2>1, <2>2, <2>3
<1>3. helpers \in Seq(Nat) /\ 1 \notin ToSet(helpers) /\ Rounds(keys) \in Nat
  <2> HIDE DEF indices
  <2> QED
    BY <1>2, HelpersOfAny
<1> HIDE DEF indices, leaves, helpers, keys
<1>4. \A q \in DOMAIN known : q \in DOMAIN final /\ final[q] = known[q]
  <2> HIDE DEF known
  <2> QED
    BY <1>3, LoopKeeps
<1> HIDE DEF final
<1>5. result.root = Hash(l, r)
  OBVIOUS
<1> HIDE DEF result
<1>6. Get(final, 1, ZERO) = Hash(l, r) /\ result.map = final
  BY <1>1, <1>5, HashIsNoOther
<1>7. 1 \in DOMAIN final /\ final[1] = Hash(l, r)
  BY <1>6, HashIsNoOther DEF Get
<1>8. ASSUME 1 \in DOMAIN map
      PROVE  map[1] = Hash(l, r)
  <2>1. 1 \in DOMAIN given /\ given[1] = map[1]
    BY <1>3, <1>8, SetAllLeaves
  <2> HIDE DEF given
  <2>2. CASE 1 \notin ToSet(indices)
    <3>1. 1 \in DOMAIN known /\ known[1] = given[1]
      BY <2>1, <2>2, SetAllLeaves
    <3> QED
      BY <1>4, <1>7, <2>1, <3>1
  <2>3. CASE 1 \in ToSet(indices)
    <3>1. 1 \in DOMAIN known /\ \E i \in DOMAIN indices : known[1] = leaves[i]
      BY <1>2, <2>3, SetAllHas
    <3>2. PICK i \in DOMAIN indices : known[1] = leaves[i]
      BY <3>1
    <3>3. i = 1 \/ i = 2
      BY <1>2
    <3> HIDE DEF known
    <3>4. leaves[i] = Hash(l, r)
      BY <1>4, <1>7, <3>1, <3>2
    <3> QED
      BY <3>3, <3>4, HashIsNoOther DEF leaves
  <2> QED
    BY <2>2, <2>3
<1> QED
  BY <1>6, <1>7, <1>8 DEF result

-----------------------------------------------------------------------------
(* Any number of calls.                                                    *)

\* The root in transient storage is the one of the block that proofs were accepted
\* of, of which there is one at most; and what the properties say of a verdict.
MetIsRoot ==
  /\ met = {} => transient = EmptyMap
  /\ met # {} => 1 \in DOMAIN transient /\ met = {transient[1]}
  /\ \A v \in verdict :
       v.block \in Proposals /\ v.request \in Requests /\ v.claim \in Proposals
  /\ FirstProofIsExact
  /\ RightOrMet

\* A call.
LEMMA CallKeeps ==
  ASSUME MetIsRoot, NEW request \in Requests, NEW claim \in Proposals,
         VerifyFeeRecipient(request, claim)
  PROVE  MetIsRoot'
<1> DEFINE result == Calculated(transient, request, claim)
<1>1. PICK block \in Proposals, completes \in BOOLEAN :
        Judge(block, request, claim, Len(request.indices) = 2 /\ result.root = Root(block),
              completes, result.map)
  BY DEF VerifyFeeRecipient
<1> DEFINE ok == Len(request.indices) = 2 /\ result.root = Root(block)
           v == [ accepted |-> ok, block |-> block, request |-> request, claim |-> claim,
                  met |-> met ]
<1>2. /\ verdict' = {v}
      /\ ok /\ completes => transient' = result.map /\ met' = met \cup {Root(block)}
      /\ ~(ok /\ completes) => transient' = transient /\ met' = met
  BY <1>1 DEF Judge
<1>3. result = Calculate(transient, request, claim)
  BY CalculatedValue
<1>4. PICK l, r : Root(block) = Hash(l, r)
  BY RootIsHash
<1>5. /\ met = {} => transient = EmptyMap
      /\ met # {} => 1 \in DOMAIN transient /\ met = {transient[1]}
  BY DEF MetIsRoot
<1>6. ASSUME ok
      PROVE  /\ 1 \in DOMAIN result.map /\ result.map[1] = Root(block)
             /\ met # {} => met = {Root(block)}
  <2>1. Calculate(transient, request, claim).root = Hash(l, r) /\ Len(request.indices) = 2
    BY <1>3, <1>4, <1>6
  <2>2. LET new == Calculate(transient, request, claim).map
        IN  /\ 1 \in DOMAIN new /\ new[1] = Hash(l, r)
            /\ 1 \in DOMAIN transient => transient[1] = Hash(l, r)
    BY ONLY <2>1, request \in Requests, claim \in Proposals, RootStays
  <2> HIDE DEF result
  <2> QED
    BY <1>3, <1>4, <1>5, <2>2
<1>7. /\ v.accepted = ok /\ v.block = block /\ v.request = request /\ v.claim = claim
      /\ v.met = met
  OBVIOUS
<1>8. ASSUME met = {}, AreSeparate(v)
      PROVE  ok <=> IsExact(v)
  <2>1. Len(request.indices) = 2
    BY <1>7, <1>8 DEF AreSeparate
  <2>2. v.block \in Proposals /\ v.request \in Requests /\ v.claim \in Proposals
    OBVIOUS
  <2>3. transient = EmptyMap
    BY <1>5, <1>8
  <2> HIDE DEF v
  <2>4. Calculated(EmptyMap, v.request, v.claim).root = Root(v.block) <=> IsExact(v)
    BY ONLY <1>8, <2>2, FirstCall
  <2> QED
    BY <1>7, <2>1, <2>3, <2>4
<1> HIDE DEF v, ok, result
<1>9. /\ met' = {} => transient' = EmptyMap
      /\ met' # {} => 1 \in DOMAIN transient' /\ met' = {transient'[1]}
  <2>1. CASE ok /\ completes
    <3>1. transient' = result.map /\ met' = met \cup {Root(block)}
      BY <1>2, <2>1
    <3>2. met = {} \/ met = {Root(block)}
      BY <1>6, <2>1
    <3>3. met' = {Root(block)}
      BY <3>1, <3>2
    <3> QED
      BY <1>6, <2>1, <3>1, <3>3
  <2>2. CASE ~(ok /\ completes)
    BY <1>2, <1>5, <2>2
  <2> QED
    BY <2>1, <2>2
<1>10. FirstProofIsExact'
  BY <1>2, <1>7, <1>8 DEF FirstProofIsExact
<1>11. RightOrMet'
  <2>1. ASSUME v.accepted, AreSeparate(v)
        PROVE  IsExact(v) \/ Root(v.block) \in v.met
    <3>1. ok
      BY <1>7, <2>1
    <3>2. CASE met = {}
      BY <1>8, <2>1, <3>1, <3>2
    <3>3. CASE met # {}
      BY <1>6, <1>7, <3>1, <3>3
    <3> QED
      BY <3>2, <3>3
  <2> QED
    BY <1>2, <2>1 DEF RightOrMet
<1>12. \A w \in verdict' :
         w.block \in Proposals /\ w.request \in Requests /\ w.claim \in Proposals
  BY <1>2, <1>7
<1> QED
  BY <1>9, <1>10, <1>11, <1>12 DEF MetIsRoot

\* All calls and the ends of transactions.
LEMMA MetIsRootAlways == SpecCalls => []MetIsRoot
<1>1. InitCalls => MetIsRoot
  BY DEF InitCalls, MetIsRoot, FirstProofIsExact, RightOrMet
<1>2. MetIsRoot /\ [NextCalls]_callVars => MetIsRoot'
  <2> SUFFICES ASSUME MetIsRoot, [NextCalls]_callVars
               PROVE  MetIsRoot'
    OBVIOUS
  <2>1. ASSUME NEW request \in Requests, NEW claim \in Proposals,
               VerifyFeeRecipient(request, claim)
        PROVE  MetIsRoot'
    BY <2>1, CallKeeps
  <2>2. CASE EndTransaction
    BY <2>2 DEF EndTransaction, MetIsRoot, FirstProofIsExact, RightOrMet
  <2>3. CASE UNCHANGED callVars
    BY <2>3 DEF callVars, MetIsRoot, FirstProofIsExact, RightOrMet
  <2> QED
    BY <2>1, <2>2, <2>3 DEF NextCalls
<1> QED
  BY <1>1, <1>2, PTL DEF SpecCalls

\* However many calls a transaction may make, and whatever indices and hashes
\* others of them give, the first proof that it gets accepted is right, if it is at
\* two indices apart from each other, and a right one is accepted
\* (BeaconOracle.sol:46-51).
THEOREM FirstProofIsExactTheorem == SpecCalls => []FirstProofIsExact
<1>1. MetIsRoot => FirstProofIsExact
  BY DEF MetIsRoot
<1> QED
  BY <1>1, MetIsRootAlways, PTL

\* The nodes that a call leaves in transient storage let a wrong proof through only of
\* the block that they lead to the root of (BeaconOracle.sol:48-51).
THEOREM RightOrMetTheorem == SpecCalls => []RightOrMet
<1>1. MetIsRoot => RightOrMet
  BY DEF MetIsRoot
<1> QED
  BY <1>1, MetIsRootAlways, PTL

\* What the pool may take from the first proof that a transaction gets accepted if
\* it is at the indices of the two fields: the values are those of the block.
FieldsAreProven ==
  \A v \in verdict :
    v.met = {} /\ v.request.indices = FieldIndices /\ v.accepted => v.claim = v.block

\* It may do so in every transaction (BeaconOracle.sol:46).
THEOREM FieldsAreProvenTheorem == SpecCalls => []FieldsAreProven
<1>1. MetIsRoot => FieldsAreProven
  <2> SUFFICES ASSUME MetIsRoot, NEW v \in verdict, v.met = {},
                      v.request.indices = FieldIndices, v.accepted
               PROVE  v.claim = v.block
    BY DEF FieldsAreProven
  <2>1. v.block \in Proposals /\ v.request \in Requests /\ v.claim \in Proposals
    BY DEF MetIsRoot
  <2>2. /\ ToSet(FieldIndices) \subseteq DOMAIN BlockTree[v.block]
        /\ NodesOf(BlockTree[v.block], FieldIndices) = Leaves(v.block)
    BY <2>1, FeeRecipientAssumption DEF FeeRecipientAssumption
  <2>3. Len(FieldIndices) = 2
    BY DEF FieldIndices
  <2>4. AreSeparate(v)
    BY <2>2, <2>3, FieldIndicesFacts DEF AreSeparate
  <2>5. IsExact(v)
    BY <2>4 DEF MetIsRoot, FirstProofIsExact
  <2>6. Leaves(v.claim) = Leaves(v.block)
    BY <2>2, <2>5 DEF IsExact
  <2> QED
    BY <2>1, <2>6, LeavesDiffer
<1> QED
  BY <1>1, MetIsRootAlways, PTL

=============================================================================
