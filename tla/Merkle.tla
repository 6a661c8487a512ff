------------------------------- MODULE Merkle -------------------------------
(***************************************************************************)
(* The library Merkle: the root that a Merkle proof of one leaf, or of     *)
(* several leaves at once, leads to.                                       *)
(*                                                                         *)
(* Node k of a tree has the children 2k and 2k + 1; k is its generalized   *)
(* index.  sha256 is a free constructor: hashes are equal only when what   *)
(* was hashed is.  A call that reverts returns Reverted.                   *)
(***************************************************************************)
EXTENDS Arrays, Words

Chunk(label, value) == <<"chunk", label, value>>

Hash(left, right) == <<"hash", left, right>>

Reverted == <<"reverted">>

\* The encodings of SSZ: a number or a bool in little endian, an address at the
\* left end of the chunk.  All of them encode zero as zero.
Uint(n) == IF n = 0 THEN Chunk("zero", 0) ELSE Chunk("uint", n)

Bool(b) == Uint(IF b THEN 1 ELSE 0)

Address(a) == IF a = 0 THEN Chunk("zero", 0) ELSE Chunk("address", a)

ZERO == Uint(0)

Sibling(index) == IF index % 2 = 0 THEN index + 1 ELSE index - 1

Parent(index) == index \div 2

Depth(index) == Log2(Bits[index])

-----------------------------------------------------------------------------
(* One leaf.                                                               *)

\* Mutant: the length of the proof is not compared with the depth.
CalculateMerkleRootAnyLength(proof, leaf, index) ==
  IF index = 0
  THEN Reverted
  ELSE FoldLeftDomain(LAMBDA node, i :
         IF (index \div 2^(i - 1)) % 2 = 1
         THEN Hash(proof[i], node) ELSE Hash(node, proof[i]),
         leaf, proof)

\* Bit i of the index says on which side of item i the node computed so far is.
CalculateMerkleRoot(proof, leaf, index) ==
  LET node[i \in 0 .. Len(proof)] ==
        IF i = 0 THEN leaf
        ELSE IF i - 1 \in Bits[index]
             THEN Hash(proof[i], node[i - 1]) ELSE Hash(node[i - 1], proof[i])
  IN  IF index = 0 \/ Len(proof) # Depth(index) THEN Reverted ELSE node[Len(proof)]

-----------------------------------------------------------------------------
(* Several leaves.                                                         *)

\* The loops of getBranchIndices and getPathIndices, from a node up; the last
\* item, the root or the zero next to it, is taken off again.
BranchFrom[k \in Nat] ==
  IF k <= 1 THEN <<>> ELSE <<Sibling(k)>> \o BranchFrom[Parent(k)]

PathFrom[k \in Nat] ==
  IF k <= 1 THEN <<>> ELSE <<k>> \o PathFrom[Parent(k)]

GetBranchIndices(index) == BranchFrom[index]

GetPathIndices(index) == PathFrom[index]

AllBranchIndices(indices) == FlattenSeq([i \in DOMAIN indices |-> GetBranchIndices(indices[i])])

AllPathIndices(indices) == FlattenSeq([i \in DOMAIN indices |-> GetPathIndices(indices[i])])

\* Mutant: the siblings of a path that lie on another path stay.
GetHelperIndicesWithPaths(indices) == SortReverse(Difference(AllBranchIndices(indices), <<>>))

GetHelperIndices(indices) ==
  SortReverse(Difference(AllBranchIndices(indices), AllPathIndices(indices)))

\* Of the values set for a key the last one stays.
SetAll(map, keys, values) ==
  [ k \in DOMAIN map \cup ToSet(keys) |->
      IF k \in ToSet(keys) THEN values[Max({ i \in DOMAIN keys : keys[i] = k })] ELSE map[k] ]

\* The hash of a node and its sibling, in their order.
HashOfPair(map, k) == Hash(Get(map, k - (k % 2), ZERO), Get(map, k - (k % 2) + 1, ZERO))

\* Mutant: the sibling is not asked for.
CombinedWithoutSibling(s, pos) ==
  LET k == s.keys[pos]
  IN  IF HasKey(s.map, k) /\ ~HasKey(s.map, Parent(k))
      THEN [map |-> Set(s.map, Parent(k), HashOfPair(s.map, k)), keys |-> Push(s.keys, Parent(k))]
      ELSE s

\* The body of the loop: computes the parent of a key when its sibling is known
\* and the parent is not, and queues it.
Combined(s, pos) ==
  LET k == s.keys[pos]
  IN  IF HasKey(s.map, k) /\ HasKey(s.map, Sibling(k)) /\ ~HasKey(s.map, Parent(k))
      THEN [map |-> Set(s.map, Parent(k), HashOfPair(s.map, k)), keys |-> Push(s.keys, Parent(k))]
      ELSE s

\* The rounds after which the loop is over for sure: a key is queued once, and
\* all that are queued are above the first ones.
Rounds(keys) == Len(keys) + Cardinality({ Parent(k) : k \in ToSet(AllPathIndices(keys)) })

\* The state after n rounds of the loop.
CombineFrom(map, keys) ==
  LET after[n \in 0 .. Rounds(keys)] ==
        IF n = 0 THEN [map |-> map, keys |-> keys]
        ELSE LET s == after[n - 1] IN IF n <= Len(s.keys) THEN Combined(s, n) ELSE s
  IN  after

\* The root, and what the call leaves in transient storage: `map' is what it
\* finds there.
CalculateMultiMerkleRoot(map, proof, leaves, indices) ==
  LET helpers == GetHelperIndices(indices)
      keys    == SortReverse(Concat(helpers, indices))
      known   == SetAll(SetAll(map, helpers, proof), indices, leaves)
      final   == CombineFrom(known, keys)[Rounds(keys)].map
  IN  IF Len(leaves) # Len(indices) \/ Len(proof) # Len(helpers)
      THEN [root |-> Reverted, map |-> map]
      ELSE [root |-> Get(final, 1, ZERO), map |-> final]

-----------------------------------------------------------------------------
(* A tree of chunks, which the library never sees as a whole: a function   *)
(* from its nodes, or from as many of them as proofs need.                 *)

IsTree(tree) ==
  /\ DOMAIN tree \subseteq Nat \ {0}
  /\ 1 \in DOMAIN tree
  /\ \A k \in DOMAIN tree :
       /\ tree[k] # Reverted
       /\ k > 1 => /\ {Sibling(k), Parent(k)} \subseteq DOMAIN tree
                   /\ tree[Parent(k)] = HashOfPair(tree, k)

NodesOf(tree, ks) == [i \in DOMAIN ks |-> tree[ks[i]]]

Ancestors[k \in Nat] == IF k <= 1 THEN {} ELSE {Parent(k)} \cup Ancestors[Parent(k)]

\* No node of an antichain is below another one.
Antichain(ks) == \A i, j \in ks : i # j => i \notin Ancestors[j]

\* The nodes that a proof of the nodes `ks' has to contain.
MissingSiblings(ks) ==
  LET known == ks \cup UNION { Ancestors[k] : k \in ks }
  IN  { Sibling(k) : k \in known \ {1} } \ known

=============================================================================
