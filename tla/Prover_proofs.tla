--------------------------- MODULE Prover_proofs ---------------------------
(***************************************************************************)
(* What the program prints is a proof that the contract accepts, and what  *)
(* makes it panic, for every block of the node.                            *)
(***************************************************************************)
EXTENDS Prover, SimpleSerialize_proofs

-----------------------------------------------------------------------------
(* The tree of a block, as far as a proof of the two fields is about it.  *)

\* The nodes on the paths to the proposer and the fee recipient that are not
\* leaves, and the hashes next to these paths.
PathParents == {1, 2, 3, 4, 6, 12, 25, 50, 100, 201, 402, 804, 1608, 3216}

PathSiblings == {5, 7, 8, 13, 24, 51, 101, 200, 403, 805, 1609, 3217, 6432}

PathNodes == PathParents \cup PathSiblings \cup {9, 6433}

\* The paths from the root to the two fields.
LEMMA PathAncestors ==
  /\ Ancestors[9] = {1, 2, 4}
  /\ Ancestors[6433] = {1, 3, 6, 12, 25, 50, 100, 201, 402, 804, 1608, 3216}
<1> DEFINE Half(k, half) == k \in Nat /\ k > 1 /\ k \div 2 = half
<1>1. \A k, half : Half(k, half) => Ancestors[k] = {half} \cup Ancestors[half]
  <2> SUFFICES ASSUME NEW k, NEW half, Half(k, half)
               PROVE  Ancestors[k] = {half} \cup Ancestors[half]
    OBVIOUS
  <2>1. k \in Nat /\ ~(k <= 1) /\ k \div 2 = half
    OBVIOUS
  <2> QED
    BY <2>1, AncestorsCases
<1>2. /\ Half(2, 1) /\ Half(3, 1) /\ Half(4, 2) /\ Half(6, 3) /\ Half(9, 4) /\ Half(12, 6)
      /\ Half(25, 12) /\ Half(50, 25) /\ Half(100, 50) /\ Half(201, 100) /\ Half(402, 201)
      /\ Half(804, 402) /\ Half(1608, 804) /\ Half(3216, 1608) /\ Half(6433, 3216)
  OBVIOUS
<1>3. Ancestors[1] = {}
  BY AncestorsCases
<1> HIDE DEF Half
<1>4. /\ Ancestors[2] = {1} \cup Ancestors[1] /\ Ancestors[3] = {1} \cup Ancestors[1]
      /\ Ancestors[4] = {2} \cup Ancestors[2] /\ Ancestors[9] = {4} \cup Ancestors[4]
      /\ Ancestors[6] = {3} \cup Ancestors[3] /\ Ancestors[12] = {6} \cup Ancestors[6]
      /\ Ancestors[25] = {12} \cup Ancestors[12] /\ Ancestors[50] = {25} \cup Ancestors[25]
      /\ Ancestors[100] = {50} \cup Ancestors[50] /\ Ancestors[201] = {100} \cup Ancestors[100]
      /\ Ancestors[402] = {201} \cup Ancestors[201] /\ Ancestors[804] = {402} \cup Ancestors[402]
      /\ Ancestors[1608] = {804} \cup Ancestors[804]
      /\ Ancestors[3216] = {1608} \cup Ancestors[1608]
      /\ Ancestors[6433] = {3216} \cup Ancestors[3216]
  BY ONLY <1>1, <1>2
<1>5. Ancestors[9] = {1, 2, 4}
  <2>1. Ancestors[9] = {4} \cup ({2} \cup ({1} \cup {}))
    BY ONLY <1>3, <1>4
  <2> QED
    BY ONLY <2>1
<1>6. Ancestors[100] = {50} \cup ({25} \cup ({12} \cup ({6} \cup ({3} \cup ({1} \cup {})))))
  BY ONLY <1>3, <1>4
<1>7. Ancestors[100] = {1, 3, 6, 12, 25, 50}
  BY ONLY <1>6
<1>8. Ancestors[6433] = {3216} \cup ({1608} \cup ({804} \cup ({402} \cup ({201} \cup ({100}
                          \cup Ancestors[100])))))
  BY ONLY <1>4
<1>9. Ancestors[6433] = {1, 3, 6, 12, 25, 50, 100, 201, 402, 804, 1608, 3216}
  BY ONLY <1>7, <1>8
<1> QED
  BY <1>5, <1>9

\* The hashes of a proof of the two fields.
LEMMA PathMissing == MissingSiblings({9, 6433}) = PathSiblings
<1> DEFINE known == {9, 6433} \cup UNION { Ancestors[k] : k \in {9, 6433} }
           K == {1, 2, 3, 4, 6, 9, 12, 25, 50, 100, 201, 402, 804, 1608, 3216, 6433}
<1>1. known = K
  <2>1. UNION { Ancestors[k] : k \in {9, 6433} } = Ancestors[9] \cup Ancestors[6433]
    OBVIOUS
  <2>2. known = {9, 6433} \cup ({1, 2, 4} \cup {1, 3, 6, 12, 25, 50, 100, 201, 402, 804, 1608, 3216})
    BY ONLY <2>1, PathAncestors
  <2> QED
    BY ONLY <2>2
<1>2. MissingSiblings({9, 6433}) = { Sibling(k) : k \in known \ {1} } \ known
  BY DEF MissingSiblings
<1> DEFINE Is(k, s) == Sibling(k) = s
<1>3. /\ Is(2, 3) /\ Is(3, 2) /\ Is(4, 5) /\ Is(6, 7) /\ Is(9, 8) /\ Is(12, 13) /\ Is(25, 24)
      /\ Is(50, 51) /\ Is(100, 101) /\ Is(201, 200) /\ Is(402, 403) /\ Is(804, 805)
      /\ Is(1608, 1609) /\ Is(3216, 3217) /\ Is(6433, 6432)
  BY DEF Sibling
<1> DEFINE K1 == {2, 3, 4, 6, 9, 12, 25, 50, 100, 201, 402, 804, 1608, 3216, 6433}
<1>4. K \ {1} = K1
  OBVIOUS
<1>5. { Sibling(k) : k \in K1 }
        = {3, 2, 5, 7, 8, 13, 24, 51, 101, 200, 403, 805, 1609, 3217, 6432}
  BY ONLY <1>3
<1>6. {3, 2, 5, 7, 8, 13, 24, 51, 101, 200, 403, 805, 1609, 3217, 6432} \ K = PathSiblings
  BY DEF PathSiblings
<1> HIDE DEF known, K, K1
<1> QED
  BY <1>1, <1>2, <1>4, <1>5, <1>6

\* A tree of the nodes D, made of pairs of them below the nodes P.
OfPairs(D, P, tree) ==
  /\ D \subseteq Nat \ {0} /\ 1 \in D /\ P \subseteq D /\ DOMAIN tree = D
  /\ \A k \in D : k = 1 \/ \E p \in P : k = 2 * p \/ k = 2 * p + 1
  /\ \A p \in P : /\ 2 * p \in D /\ 2 * p + 1 \in D
                  /\ tree[p] = Hash(tree[2 * p], tree[2 * p + 1])
  /\ \A k \in D : tree[k] # Reverted

\* A function from these nodes is a tree when its parents are hashes of their children.
LEMMA TreeOfParents ==
  ASSUME NEW D, NEW P, NEW tree, OfPairs(D, P, tree)
  PROVE  IsTree(tree)
<1> USE DEF OfPairs
<1>1. ASSUME NEW k \in D, k > 1
      PROVE  /\ {Sibling(k), Parent(k)} \subseteq DOMAIN tree
             /\ tree[Parent(k)] = HashOfPair(tree, k)
  <2>1. PICK p \in P : k = 2 * p \/ k = 2 * p + 1
    BY <1>1
  <2>2. p \in D /\ p \in Nat /\ p > 0 /\ 2 * p \in D /\ 2 * p + 1 \in D
        /\ tree[p] = Hash(tree[2 * p], tree[2 * p + 1])
    OBVIOUS
  <2>3. CASE k = 2 * p
    <3>1. Sibling(k) = 2 * p + 1 /\ Parent(k) = p /\ k % 2 = 0 /\ k - (k % 2) = 2 * p
      BY <2>2, <2>3 DEF Sibling, Parent
    <3>2. HashOfPair(tree, k) = Hash(tree[2 * p], tree[2 * p + 1])
      BY <2>2, <3>1 DEF HashOfPair, Get
    <3> QED
      BY <2>2, <3>1, <3>2
  <2>4. CASE k = 2 * p + 1
    <3>1. Sibling(k) = 2 * p /\ Parent(k) = p /\ k % 2 = 1 /\ k - (k % 2) = 2 * p
      BY <2>2, <2>4 DEF Sibling, Parent
    <3>2. HashOfPair(tree, k) = Hash(tree[2 * p], tree[2 * p + 1])
      BY <2>2, <3>1 DEF HashOfPair, Get
    <3> QED
      BY <2>2, <3>1, <3>2
  <2> QED
    BY <2>1, <2>3, <2>4
<1> QED
  BY <1>1 DEF IsTree

\* A block of this fork or of another one that has its fields at the same places:
\* n fields are in its body.
IsBlockType(type, body, n) ==
  /\ IsStruct(type, 5, 8)
  /\ IsField(type, 1, "slot", U64) /\ IsField(type, 2, "proposer_index", U64)
  /\ IsField(type, 5, "body", body)
  /\ IsStruct(body, n, 16) /\ n \in {12, 13}
  /\ IsField(body, 9, "sync_aggregate", SyncAggregate)
  /\ IsField(body, 10, "execution_payload", ExecutionPayload)

\* The last structs on the paths, and the fields at their ends.
LEMMA PayloadStructs ==
  /\ IsStruct(SyncAggregate, 2, 2) /\ IsStruct(ExecutionPayload, 17, 32)
  /\ IsField(ExecutionPayload, 1, "parent_hash", Bytes32)
  /\ IsField(ExecutionPayload, 2, "fee_recipient", ExecutionAddress)
<1>1. NestsIn(SyncAggregate, 6) /\ NestsIn(ExecutionPayload, 6)
  BY PartsOfBodies, NestsInMore, 4 \in Nat, 6 \in Nat, 4 <= 6
<1>2. SyncAggregate.kind = "container" /\ Len(SyncAggregate.fields) = 2
  BY DEF SyncAggregate, Container
<1>3. ExecutionPayload.kind = "container" /\ Len(ExecutionPayload.fields) = 17
  BY PayloadFields
<1>4. /\ ExecutionPayload.fields[1] = <<"parent_hash", Bytes32>>
      /\ ExecutionPayload.fields[2] = <<"fee_recipient", ExecutionAddress>>
      /\ FieldNumber(ExecutionPayload, "parent_hash") = 1
      /\ FieldNumber(ExecutionPayload, "fee_recipient") = 2
  BY DEF ExecutionPayload, Container, PayloadStart, BlobGas, FieldNumber
<1>5. IsStruct(SyncAggregate, 2, 2)
  BY ONLY <1>1, <1>2, DepthsFor, 2 \in Nat, 2 > 1 DEF IsStruct
<1>6. IsStruct(ExecutionPayload, 17, 32)
  BY ONLY <1>1, <1>3, DepthsFor, 17 \in Nat, 32 \in Nat, 32 > 1 DEF IsStruct
<1>7. /\ IsField(ExecutionPayload, 1, "parent_hash", Bytes32)
      /\ IsField(ExecutionPayload, 2, "fee_recipient", ExecutionAddress)
  BY ONLY <1>4 DEF IsField, FieldType
<1> QED
  BY <1>5, <1>6, <1>7

\* The nodes that a proof of the proposer and the fee recipient is about.
LEMMA BlockTree ==
  ASSUME NEW type, NEW body, NEW n, IsBlockType(type, body, n), NEW v
  PROVE  LET at(k)   == NodeAt(type, v, k)
             payload == v["body"]["execution_payload"]
         IN  /\ at(1) = TreeRoot(type, v)
             /\ at(1) = Hash(at(2), at(3)) /\ at(2) = Hash(at(4), at(5)) /\ at(3) = Hash(at(6), at(7))
             /\ at(4) = Hash(at(8), at(9)) /\ at(6) = Hash(at(12), at(13))
             /\ at(12) = Hash(at(24), at(25)) /\ at(25) = Hash(at(50), at(51))
             /\ at(50) = Hash(at(100), at(101)) /\ at(100) = Hash(at(200), at(201))
             /\ at(201) = Hash(at(402), at(403)) /\ at(402) = Hash(at(804), at(805))
             /\ at(804) = Hash(at(1608), at(1609)) /\ at(1608) = Hash(at(3216), at(3217))
             /\ at(3216) = Hash(at(6432), at(6433))
             /\ \A k \in {5, 7, 24, 51, 101, 200, 403, 805, 1609, 3217} :
                  \E left, right : at(k) = Hash(left, right)
             /\ at(51) = Hash(at(102), at(103)) /\ at(102) = Hash(at(204), at(205))
             /\ at(8) = TreeRoot(U64, v["slot"]) /\ at(9) = TreeRoot(U64, v["proposer_index"])
             /\ at(13) = ZERO
             /\ at(6432) = TreeRoot(Bytes32, payload["parent_hash"])
             /\ at(6433) = TreeRoot(ExecutionAddress, payload["fee_recipient"])
             /\ n = 12 => at(204) = ZERO
             /\ \A name, inner : n = 13 /\ IsField(body, 13, name, inner) =>
                  at(204) = TreeRoot(inner, v["body"][name])
<1> DEFINE at(k)   == NodeAt(type, v, k)
           payload == v["body"]["execution_payload"]
           Is(k, inner, w, node, m, first) ==
             k \in Nat /\ k > 0 /\ IsPlace(Place(type, v)[k], inner, w, node, m, first)
           Pair(k, l, r) == at(k) = Hash(at(l), at(r))
           Down(k, l, r, node, nl, nr, first) ==
             /\ l = 2 * k /\ r = 2 * k + 1
             /\ nl = 2 * node /\ nr = 2 * node + 1 /\ node < first
           Kids(k, l, r) == l = 2 * k /\ r = 2 * k + 1
<1>1. \A k, l, r, node, nl, nr, first, inner, w, m :
        Is(k, inner, w, node, m, first) /\ Down(k, l, r, node, nl, nr, first) =>
          Is(l, inner, w, nl, m, first) /\ Is(r, inner, w, nr, m, first) /\ Pair(k, l, r)
  <2> SUFFICES ASSUME NEW k, NEW l, NEW r, NEW node, NEW nl, NEW nr, NEW first,
                      NEW inner, NEW w, NEW m,
                      Is(k, inner, w, node, m, first), Down(k, l, r, node, nl, nr, first)
               PROVE  Is(l, inner, w, nl, m, first) /\ Is(r, inner, w, nr, m, first) /\ Pair(k, l, r)
    OBVIOUS
  <2>1. k \in Nat /\ k > 0 /\ 2 * k \in Nat /\ 2 * k > 0 /\ 2 * k + 1 \in Nat /\ 2 * k + 1 > 0
    OBVIOUS
  <2>2. /\ IsPlace(Place(type, v)[2 * k], inner, w, 2 * node, m, first)
        /\ IsPlace(Place(type, v)[2 * k + 1], inner, w, 2 * node + 1, m, first)
        /\ NodeAt(type, v, k) = Hash(NodeAt(type, v, 2 * k), NodeAt(type, v, 2 * k + 1))
    BY NodeAbove
  <2> QED
    BY <2>1, <2>2
<1>2. ASSUME NEW k, NEW l, NEW r, NEW node, NEW first, NEW outer, NEW w, NEW m,
             NEW i, NEW name, NEW inner, NEW q, NEW low,
             Is(k, outer, w, node, m, first), IsLeaf(i, node, m, first),
             IsField(outer, i, name, inner), IsStruct(inner, q, low), Kids(k, l, r)
      PROVE  Is(l, inner, w[name], 2, q, low) /\ Is(r, inner, w[name], 3, q, low) /\ Pair(k, l, r)
  <2>1. k \in Nat /\ k > 0 /\ 2 * k \in Nat /\ 2 * k > 0 /\ 2 * k + 1 \in Nat /\ 2 * k + 1 > 0
    BY <1>2
  <2>2. /\ IsPlace(Place(type, v)[2 * k], inner, w[name], 2, q, low)
        /\ IsPlace(Place(type, v)[2 * k + 1], inner, w[name], 3, q, low)
        /\ NodeAt(type, v, k) = Hash(NodeAt(type, v, 2 * k), NodeAt(type, v, 2 * k + 1))
    BY <1>2, FieldBelow
  <2> QED
    BY <1>2, <2>1, <2>2
<1>3. \A k, node, first, outer, w, m, i, name, inner :
        /\ Is(k, outer, w, node, m, first) /\ IsLeaf(i, node, m, first)
        /\ IsField(outer, i, name, inner)
        => at(k) = TreeRoot(inner, w[name])
  BY LeafNode
<1> DEFINE Empty(node, m, first) == node >= first + m
<1>4. \A k, node, first, outer, w, m :
        Is(k, outer, w, node, m, first) /\ Empty(node, m, first) => at(k) = ZERO
  BY EmptyNode
<1>5. /\ IsStruct(type, 5, 8) /\ IsStruct(body, n, 16) /\ n \in {12, 13}
      /\ IsField(type, 1, "slot", U64) /\ IsField(type, 2, "proposer_index", U64)
      /\ IsField(type, 5, "body", body)
      /\ IsField(body, 9, "sync_aggregate", SyncAggregate)
      /\ IsField(body, 10, "execution_payload", ExecutionPayload)
  BY DEF IsBlockType
<1>6. Is(1, type, v, 1, 5, 8) /\ at(1) = TreeRoot(type, v)
  BY <1>5, RootNode
<1>7. /\ Down(1, 2, 3, 1, 2, 3, 8) /\ Down(2, 4, 5, 2, 4, 5, 8) /\ Down(3, 6, 7, 3, 6, 7, 8)
      /\ Down(4, 8, 9, 4, 8, 9, 8) /\ Down(6, 12, 13, 6, 12, 13, 8)
      /\ Down(5, 10, 11, 5, 10, 11, 8) /\ Down(7, 14, 15, 7, 14, 15, 8)
      /\ Down(24, 48, 49, 2, 4, 5, 16) /\ Down(25, 50, 51, 3, 6, 7, 16)
      /\ Down(50, 100, 101, 6, 12, 13, 16) /\ Down(51, 102, 103, 7, 14, 15, 16)
      /\ Down(100, 200, 201, 12, 24, 25, 16) /\ Down(101, 202, 203, 13, 26, 27, 16)
      /\ Down(102, 204, 205, 14, 28, 29, 16)
      /\ Down(402, 804, 805, 2, 4, 5, 32) /\ Down(403, 806, 807, 3, 6, 7, 32)
      /\ Down(804, 1608, 1609, 4, 8, 9, 32) /\ Down(805, 1610, 1611, 5, 10, 11, 32)
      /\ Down(1608, 3216, 3217, 8, 16, 17, 32) /\ Down(1609, 3218, 3219, 9, 18, 19, 32)
      /\ Down(3216, 6432, 6433, 16, 32, 33, 32) /\ Down(3217, 6434, 6435, 17, 34, 35, 32)
      /\ Kids(12, 24, 25) /\ Kids(201, 402, 403) /\ Kids(200, 400, 401)
  OBVIOUS
<1>8. /\ IsLeaf(1, 8, 5, 8) /\ IsLeaf(2, 9, 5, 8) /\ IsLeaf(5, 12, 5, 8)
      /\ IsLeaf(9, 24, n, 16) /\ IsLeaf(10, 25, n, 16)
      /\ IsLeaf(1, 32, 17, 32) /\ IsLeaf(2, 33, 17, 32)
      /\ Empty(13, 5, 8) /\ (n = 12 => Empty(28, n, 16)) /\ (n = 13 => IsLeaf(13, 28, n, 16))
  BY <1>5 DEF IsLeaf
<1> HIDE DEF at, payload, Is, Pair, Down, Kids, Empty
<1>9. /\ Is(8, type, v, 8, 5, 8) /\ Is(9, type, v, 9, 5, 8)
      /\ Is(12, type, v, 12, 5, 8) /\ Is(13, type, v, 13, 5, 8)
      /\ Pair(1, 2, 3) /\ Pair(2, 4, 5) /\ Pair(3, 6, 7) /\ Pair(4, 8, 9) /\ Pair(6, 12, 13)
      /\ Pair(5, 10, 11) /\ Pair(7, 14, 15)
  BY ONLY <1>1, <1>6, <1>7
<1>10. /\ at(8) = TreeRoot(U64, v["slot"]) /\ at(9) = TreeRoot(U64, v["proposer_index"])
       /\ at(13) = ZERO
  BY ONLY <1>3, <1>4, <1>5, <1>8, <1>9
<1>11. /\ Is(24, body, v["body"], 2, n, 16) /\ Is(25, body, v["body"], 3, n, 16) /\ Pair(12, 24, 25)
  BY ONLY <1>2, <1>5, <1>7, <1>8, <1>9
<1>12. /\ Is(200, body, v["body"], 24, n, 16) /\ Is(201, body, v["body"], 25, n, 16)
       /\ Is(204, body, v["body"], 28, n, 16)
       /\ Pair(24, 48, 49) /\ Pair(25, 50, 51) /\ Pair(50, 100, 101) /\ Pair(51, 102, 103)
       /\ Pair(100, 200, 201) /\ Pair(101, 202, 203) /\ Pair(102, 204, 205)
  BY ONLY <1>1, <1>7, <1>11
<1>13. /\ n = 12 => at(204) = ZERO
       /\ \A name, inner : n = 13 /\ IsField(body, 13, name, inner) =>
            at(204) = TreeRoot(inner, v["body"][name])
  BY ONLY <1>3, <1>4, <1>8, <1>12
<1>14. Pair(200, 400, 401)
  BY ONLY <1>2, <1>5, <1>7, <1>8, <1>12, PayloadStructs
<1>15. /\ Is(402, ExecutionPayload, payload, 2, 17, 32) /\ Is(403, ExecutionPayload, payload, 3, 17, 32)
       /\ Pair(201, 402, 403)
  <2>1. payload = v["body"]["execution_payload"]
    BY DEF payload
  <2> QED
    BY ONLY <1>2, <1>5, <1>7, <1>8, <1>12, <2>1, PayloadStructs
<1>16. /\ Is(6432, ExecutionPayload, payload, 32, 17, 32) /\ Is(6433, ExecutionPayload, payload, 33, 17, 32)
       /\ Pair(402, 804, 805) /\ Pair(403, 806, 807) /\ Pair(804, 1608, 1609)
       /\ Pair(805, 1610, 1611) /\ Pair(1608, 3216, 3217) /\ Pair(1609, 3218, 3219)
       /\ Pair(3216, 6432, 6433) /\ Pair(3217, 6434, 6435)
  BY ONLY <1>1, <1>7, <1>15
<1>17. /\ at(6432) = TreeRoot(Bytes32, payload["parent_hash"])
       /\ at(6433) = TreeRoot(ExecutionAddress, payload["fee_recipient"])
  BY ONLY <1>3, <1>8, <1>16, PayloadStructs
<1>18. \A k \in {5, 7, 24, 51, 101, 200, 403, 805, 1609, 3217} :
         \E left, right : at(k) = Hash(left, right)
  <2>1. \A k, l, r : Pair(k, l, r) => \E left, right : at(k) = Hash(left, right)
    BY DEF Pair
  <2> QED
    BY ONLY <1>9, <1>12, <1>14, <1>16, <2>1
<1> QED
  BY ONLY <1>6, <1>9, <1>10, <1>11, <1>12, <1>13, <1>15, <1>16, <1>17, <1>18 DEF at, Pair, payload

-----------------------------------------------------------------------------
(* The proof of a block.                                                   *)

BlockIndices == <<9, 6433>>

\* The indices of the two fields are ones that the contract can use.
LEMMA BlockIndicesFacts ==
  /\ AreNodes(BlockIndices) /\ Distinct(BlockIndices) /\ Antichain(ToSet(BlockIndices))
  /\ DOMAIN BlockIndices = 1 .. 2 /\ ToSet(BlockIndices) = {9, 6433}
  /\ BlockIndices[1] = 9 /\ BlockIndices[2] = 6433
<1>1. /\ BlockIndices \in Seq(Nat) /\ BlockIndices # <<>> /\ DOMAIN BlockIndices = 1 .. 2
      /\ BlockIndices[1] = 9 /\ BlockIndices[2] = 6433
  BY DEF BlockIndices
<1>2. ToSet(BlockIndices) = {9, 6433}
  <2>1. ToSet(BlockIndices) = { BlockIndices[i] : i \in 1 .. 2 }
    BY <1>1 DEF ToSet
  <2>2. 1 .. 2 = {1, 2}
    OBVIOUS
  <2> QED
    BY ONLY <1>1, <2>1, <2>2
<1>3. AreNodes(BlockIndices)
  BY <1>1, <1>2 DEF AreNodes
<1>4. Distinct(BlockIndices)
  BY <1>1 DEF Distinct
<1>5. 6433 \notin Ancestors[9] /\ 9 \notin Ancestors[6433]
  BY PathAncestors
<1>6. Antichain(ToSet(BlockIndices))
  BY <1>2, <1>5 DEF Antichain
<1> QED
  BY <1>1, <1>2, <1>3, <1>4, <1>6

\* The library lists the hashes in the order of the contract.
LEMMA BlockHelpers ==
  /\ GetHelperIndices(BlockIndices) \in Seq(PathSiblings)
  /\ ToSet(GetHelperIndices(BlockIndices)) = PathSiblings
  /\ Descending(MissingSiblings(ToSet(BlockIndices))) = GetHelperIndices(BlockIndices)
<1> DEFINE h == GetHelperIndices(BlockIndices)
<1>1. /\ h \in Seq(Nat) /\ ToSet(h) = MissingSiblings(ToSet(BlockIndices))
      /\ \A i, j \in 1 .. Len(h) : i < j => h[i] > h[j]
  <2>1. AreNodes(BlockIndices)
    BY BlockIndicesFacts
  <2> QED
    BY ONLY <2>1, HelpersAreMissing
<1>2. MissingSiblings(ToSet(BlockIndices)) = PathSiblings
  BY BlockIndicesFacts, PathMissing
<1> HIDE DEF h
<1>3. Descending(ToSet(h)) = h
  BY <1>1, DescendingOrder
<1>4. h \in Seq(ToSet(h))
  BY <1>1 DEF ToSet
<1> QED
  BY <1>1, <1>2, <1>3, <1>4 DEF h

\* The part of the tree of a block that proofs need.
PathTree(type, v) == [k \in PathNodes |-> NodeAt(type, v, k)]

\* None of the encodings is the error of a call.
LEMMA NeverReverted ==
  /\ \A left, right : Hash(left, right) # Reverted
  /\ \A i : Uint(i) # Reverted /\ Address(i) # Reverted
  /\ ZERO # Reverted
BY DEF Hash, Uint, Address, Chunk, ZERO, Reverted

\* The nodes of a block on the paths and next to them are a tree.
LEMMA PathTreeIs ==
  ASSUME NEW type, NEW body, NEW n, IsBlockType(type, body, n), NEW v,
         v["body"]["execution_payload"]["parent_hash"] # Reverted
  PROVE  LET tree == PathTree(type, v)
         IN  /\ IsTree(tree) /\ DOMAIN tree = PathNodes
             /\ tree[1] = TreeRoot(type, v)
             /\ tree[9] = Uint(v["proposer_index"])
             /\ tree[6433] = Address(v["body"]["execution_payload"]["fee_recipient"])
<1> DEFINE tree == PathTree(type, v)
           at(k) == NodeAt(type, v, k)
           payload == v["body"]["execution_payload"]
<1>1. DOMAIN tree = PathNodes /\ \A k \in PathNodes : tree[k] = at(k)
  BY DEF PathTree
<1>2. /\ at(1) = TreeRoot(type, v)
      /\ at(1) = Hash(at(2), at(3)) /\ at(2) = Hash(at(4), at(5)) /\ at(3) = Hash(at(6), at(7))
      /\ at(4) = Hash(at(8), at(9)) /\ at(6) = Hash(at(12), at(13))
      /\ at(12) = Hash(at(24), at(25)) /\ at(25) = Hash(at(50), at(51))
      /\ at(50) = Hash(at(100), at(101)) /\ at(100) = Hash(at(200), at(201))
      /\ at(201) = Hash(at(402), at(403)) /\ at(402) = Hash(at(804), at(805))
      /\ at(804) = Hash(at(1608), at(1609)) /\ at(1608) = Hash(at(3216), at(3217))
      /\ at(3216) = Hash(at(6432), at(6433))
  BY BlockTree
<1>3. \A k \in {5, 7, 24, 51, 101, 200, 403, 805, 1609, 3217} :
        \E left, right : at(k) = Hash(left, right)
  BY BlockTree
<1>4. /\ at(8) = TreeRoot(U64, v["slot"]) /\ at(9) = TreeRoot(U64, v["proposer_index"])
      /\ at(13) = ZERO
      /\ at(6432) = TreeRoot(Bytes32, payload["parent_hash"])
      /\ at(6433) = TreeRoot(ExecutionAddress, payload["fee_recipient"])
  BY BlockTree
<1>5. /\ \A i : TreeRoot(U64, i) = Uint(i)
      /\ \A i : TreeRoot(Bytes32, i) = i
      /\ \A i : TreeRoot(ExecutionAddress, i) = Address(i)
  <2>1. NestsIn(U64, 6) /\ NestsIn(Bytes32, 6) /\ NestsIn(ExecutionAddress, 6)
    BY BasicTypes, BasicNames, NestsInMore, 0 \in Nat, 6 \in Nat, 0 <= 6
  <2>2. /\ U64.kind = "unsigned" /\ Bytes32.kind = "byteVector" /\ Bytes32.length = 32
        /\ ExecutionAddress.kind = "byteVector" /\ ExecutionAddress.length = 20
    BY DEF U64, Bytes32, ExecutionAddress, Unsigned, ByteVector
  <2>3. \A i : BytesRoot(32, i) = i /\ BytesRoot(20, i) = Address(i)
    BY DEF BytesRoot
  <2> QED
    BY <2>1, <2>2, <2>3, BasicRoots
<1>6. payload["parent_hash"] # Reverted
  OBVIOUS
<1> DEFINE Double(p, l, r) == 2 * p = l /\ 2 * p + 1 = r
<1>7. /\ Double(1, 2, 3) /\ Double(2, 4, 5) /\ Double(3, 6, 7) /\ Double(4, 8, 9)
      /\ Double(6, 12, 13) /\ Double(12, 24, 25) /\ Double(25, 50, 51) /\ Double(50, 100, 101)
      /\ Double(100, 200, 201) /\ Double(201, 402, 403) /\ Double(402, 804, 805)
      /\ Double(804, 1608, 1609) /\ Double(1608, 3216, 3217) /\ Double(3216, 6432, 6433)
  OBVIOUS
<1> HIDE DEF tree, at, payload, Double
<1>8. \A k \in PathNodes : at(k) # Reverted
  <2>1. \A k \in {1, 2, 3, 4, 6, 12, 25, 50, 100, 201, 402, 804, 1608, 3216} : at(k) # Reverted
    BY ONLY <1>2, NeverReverted
  <2>2. \A k \in {5, 7, 24, 51, 101, 200, 403, 805, 1609, 3217} : at(k) # Reverted
    BY ONLY <1>3, NeverReverted
  <2>3. at(8) # Reverted /\ at(9) # Reverted /\ at(13) # Reverted /\ at(6432) # Reverted
        /\ at(6433) # Reverted
    BY ONLY <1>4, <1>5, <1>6, NeverReverted
  <2> QED
    BY ONLY <2>1, <2>2, <2>3 DEF PathNodes, PathParents, PathSiblings
<1>9. \A p \in PathParents : \E l, r : /\ Double(p, l, r) /\ l \in PathNodes /\ r \in PathNodes
                                       /\ at(p) = Hash(at(l), at(r))
  BY ONLY <1>2, <1>7 DEF PathNodes, PathParents, PathSiblings
<1>10. \A p \in PathParents : /\ 2 * p \in PathNodes /\ 2 * p + 1 \in PathNodes
                              /\ tree[p] = Hash(tree[2 * p], tree[2 * p + 1])
  <2> SUFFICES ASSUME NEW p \in PathParents
               PROVE  /\ 2 * p \in PathNodes /\ 2 * p + 1 \in PathNodes
                      /\ tree[p] = Hash(tree[2 * p], tree[2 * p + 1])
    OBVIOUS
  <2>1. PICK l, r : /\ Double(p, l, r) /\ l \in PathNodes /\ r \in PathNodes
                    /\ at(p) = Hash(at(l), at(r))
    BY ONLY <1>9, p \in PathParents
  <2>2. 2 * p = l /\ 2 * p + 1 = r
    BY ONLY <2>1 DEF Double
  <2>3. p \in PathNodes
    BY DEF PathNodes
  <2>4. tree[p] = Hash(tree[l], tree[r])
    BY ONLY <1>1, <2>1, <2>3
  <2> QED
    BY ONLY <2>1, <2>2, <2>4
<1>11. \A k \in PathNodes : k = 1 \/ \E p \in PathParents : k = 2 * p \/ k = 2 * p + 1
  <2>1. \A k \in PathNodes : k = 1 \/ \E p \in PathParents : \E s : Double(p, k, s) \/ Double(p, s, k)
    BY ONLY <1>7 DEF PathNodes, PathParents, PathSiblings
  <2>2. ASSUME NEW k \in PathNodes, k # 1
        PROVE  \E p \in PathParents : k = 2 * p \/ k = 2 * p + 1
    <3>1. PICK p \in PathParents : \E s : Double(p, k, s) \/ Double(p, s, k)
      BY ONLY <2>1, <2>2
    <3> QED
      BY ONLY <3>1, p \in PathParents DEF Double
  <2> QED
    BY ONLY <2>2
<1>12. \A k \in PathNodes : tree[k] # Reverted
  BY ONLY <1>1, <1>8
<1>13. PathNodes \subseteq Nat \ {0} /\ 1 \in PathNodes /\ PathParents \subseteq PathNodes
       /\ 9 \in PathNodes /\ 6433 \in PathNodes
  BY DEF PathNodes, PathParents, PathSiblings
<1>14. IsTree(tree)
  <2>1. OfPairs(PathNodes, PathParents, tree)
    BY ONLY <1>1, <1>10, <1>11, <1>12, <1>13 DEF OfPairs
  <2> QED
    BY ONLY <2>1, TreeOfParents
<1>15. tree[1] = TreeRoot(type, v) /\ tree[9] = Uint(v["proposer_index"])
       /\ tree[6433] = Address(payload["fee_recipient"])
  BY ONLY <1>1, <1>2, <1>4, <1>5, <1>13
<1> QED
  BY <1>1, <1>14, <1>15 DEF tree, payload

\* What the program prints of a value.
LEMMA ProofOfBlock ==
  ASSUME NEW v
  PROVE  /\ ProofOf(v).indices = BlockIndices
         /\ ProofOf(v).branch = NodesOf(PathTree(BeaconBlock, v), GetHelperIndices(BlockIndices))
<1> DEFINE gindices == [i \in DOMAIN ProofPaths |-> Value(GeneralizedIndex(BeaconBlock, ProofPaths[i]))]
           h == GetHelperIndices(BlockIndices)
<1>1. /\ DOMAIN ProofPaths = 1 .. 2 /\ ProofPaths[1] = <<"proposer_index">>
      /\ ProofPaths[2] = <<"body", "execution_payload", "fee_recipient">>
  BY DEF ProofPaths
<1>2. /\ Value(GeneralizedIndex(BeaconBlock, ProofPaths[1])) = 9
      /\ Value(GeneralizedIndex(BeaconBlock, ProofPaths[2])) = 6433
  BY <1>1, BlockPaths, LiteralValues
<1>3. gindices = BlockIndices
  <2>1. /\ gindices = [i \in 1 .. 2 |-> gindices[i]] /\ gindices[1] = 9 /\ gindices[2] = 6433
    BY ONLY <1>1, <1>2
  <2>2. BlockIndices = [i \in 1 .. 2 |-> BlockIndices[i]] /\ BlockIndices[1] = 9 /\ BlockIndices[2] = 6433
    BY DEF BlockIndices
  <2>3. \A i \in 1 .. 2 : i = 1 \/ i = 2
    OBVIOUS
  <2> HIDE DEF gindices
  <2>4. \A i \in 1 .. 2 : gindices[i] = BlockIndices[i]
    BY ONLY <2>1, <2>2, <2>3
  <2> QED
    BY ONLY <2>1, <2>2, <2>4
<1> HIDE DEF gindices
<1>4. ProofOf(v) = [ indices |-> gindices,
                     branch |-> [i \in DOMAIN Descending(MissingSiblings(ToSet(gindices)))
                                   |-> NodeAt(BeaconBlock, v, Descending(MissingSiblings(ToSet(gindices)))[i])] ]
  BY DEF ProofOf, MultiProve, gindices
<1>5. Descending(MissingSiblings(ToSet(gindices))) = h /\ h \in Seq(PathSiblings)
  BY <1>3, BlockHelpers
<1> HIDE DEF h
<1>6. ProofOf(v) = [indices |-> BlockIndices, branch |-> [i \in DOMAIN h |-> NodeAt(BeaconBlock, v, h[i])]]
  BY ONLY <1>3, <1>4, <1>5
<1>7. \A i \in DOMAIN h : h[i] \in PathNodes
  BY <1>5 DEF PathNodes
<1>8. NodesOf(PathTree(BeaconBlock, v), h) = [i \in DOMAIN h |-> NodeAt(BeaconBlock, v, h[i])]
  BY <1>7 DEF NodesOf, PathTree
<1> QED
  BY <1>6, <1>8 DEF h

\* The contract accepts the hashes of the tree of the block and no others.
LEMMA BranchAccepted ==
  ASSUME NEW type, NEW body, NEW n, IsBlockType(type, body, n), NEW w,
         w["body"]["execution_payload"]["parent_hash"] # Reverted,
         NEW v
  PROVE  LET h == GetHelperIndices(BlockIndices)
             proof == ProofOf(v)
             leaves == <<Uint(w["proposer_index"]),
                         Address(w["body"]["execution_payload"]["fee_recipient"])>>
         IN  CalculateMultiMerkleRoot(EmptyMap, proof.branch, leaves, proof.indices).root
               = TreeRoot(type, w)
               <=> NodesOf(PathTree(BeaconBlock, v), h) = NodesOf(PathTree(type, w), h)
<1> DEFINE h == GetHelperIndices(BlockIndices)
           branch == NodesOf(PathTree(BeaconBlock, v), h)
           tree == PathTree(type, w)
           first == Uint(w["proposer_index"])
           second == Address(w["body"]["execution_payload"]["fee_recipient"])
           leaves == <<first, second>>
<1>1. /\ IsTree(tree) /\ DOMAIN tree = PathNodes /\ tree[1] = TreeRoot(type, w)
      /\ tree[9] = first /\ tree[6433] = second
  BY PathTreeIs
<1>2. /\ AreNodes(BlockIndices) /\ Distinct(BlockIndices) /\ Antichain(ToSet(BlockIndices))
      /\ DOMAIN BlockIndices = 1 .. 2 /\ ToSet(BlockIndices) = {9, 6433}
      /\ BlockIndices[1] = 9 /\ BlockIndices[2] = 6433
  BY BlockIndicesFacts
<1>3. h \in Seq(PathSiblings)
  BY BlockHelpers
<1>4. ToSet(BlockIndices) \subseteq DOMAIN tree
  BY ONLY <1>1, <1>2 DEF PathNodes
<1>5. ProofOf(v).branch = branch /\ ProofOf(v).indices = BlockIndices
  BY ProofOfBlock
<1> DEFINE T == { branch[i] : i \in DOMAIN h }
           U == {first, second}
<1>6. branch \in Seq(T)
  <2> HIDE DEF h
  <2> QED
    BY <1>3 DEF NodesOf
<1> HIDE DEF tree, h, branch, first, second, T
<1>7. leaves \in Seq(U)
  OBVIOUS
<1>8. leaves = NodesOf(tree, BlockIndices)
  BY ONLY <1>1, <1>2 DEF NodesOf
<1> HIDE DEF leaves, U
<1>9. CalculateMultiMerkleRoot(EmptyMap, branch, leaves, BlockIndices).root = tree[1]
        <=> /\ leaves = NodesOf(tree, BlockIndices)
            /\ branch = NodesOf(tree, GetHelperIndices(BlockIndices))
  <2>1. /\ IsTree(tree) /\ AreNodes(BlockIndices) /\ Distinct(BlockIndices)
        /\ Antichain(ToSet(BlockIndices)) /\ ToSet(BlockIndices) \subseteq DOMAIN tree
    BY ONLY <1>1, <1>2, <1>4
  <2> QED
    BY ONLY <1>6, <1>7, <2>1, MultiProofExact
<1>10. CalculateMultiMerkleRoot(EmptyMap, branch, leaves, BlockIndices).root = TreeRoot(type, w)
         <=> branch = NodesOf(tree, h)
  BY ONLY <1>1, <1>8, <1>9 DEF h
<1> QED
  BY <1>5, <1>10 DEF h, tree, branch, leaves, first, second

-----------------------------------------------------------------------------
(* The types of the blocks of the node.                                    *)

\* The fields of the body of a block.
LEMMA BodyFields ==
  /\ DistinctNames(BeaconBlockBody)
  /\ DOMAIN BeaconBlockBody.fields = 1 .. 12 /\ BeaconBlockBody.kind = "container"
  /\ Len(BeaconBlockBody.fields) = 12
  /\ BeaconBlockBody.fields[4]
       = <<"proposer_slashings", List(ProposerSlashings, MAX_PROPOSER_SLASHINGS)>>
  /\ BeaconBlockBody.fields[9] = <<"sync_aggregate", SyncAggregate>>
  /\ BeaconBlockBody.fields[10] = <<"execution_payload", ExecutionPayload>>
  /\ BeaconBlockBody.fields[12]
       = <<"blob_kzg_commitments", List(Bytes48, MAX_BLOB_COMMITMENTS_PER_BLOCK)>>
  /\ \A i \in 1 .. 12 : /\ NestsIn(BeaconBlockBody.fields[i][2], 4)
                        /\ BeaconBlockBody.fields[i][1] # "execution_requests"
                        /\ BeaconBlockBody.fields[i]
                             = <<BeaconBlockBody.fields[i][1], BeaconBlockBody.fields[i][2]>>
<1>1. DistinctNames(BeaconBlockBody)
  BY DEF DistinctNames, BeaconBlockBody, Container
<1>2. /\ DOMAIN BeaconBlockBody.fields = 1 .. 12 /\ BeaconBlockBody.kind = "container"
      /\ Len(BeaconBlockBody.fields) = 12
      /\ BeaconBlockBody.fields[4]
           = <<"proposer_slashings", List(ProposerSlashings, MAX_PROPOSER_SLASHINGS)>>
      /\ BeaconBlockBody.fields[9] = <<"sync_aggregate", SyncAggregate>>
      /\ BeaconBlockBody.fields[10] = <<"execution_payload", ExecutionPayload>>
      /\ BeaconBlockBody.fields[12]
           = <<"blob_kzg_commitments", List(Bytes48, MAX_BLOB_COMMITMENTS_PER_BLOCK)>>
  BY DEF BeaconBlockBody, Container
<1>3. \A i \in 1 .. 12 : NestsIn(BeaconBlockBody.fields[i][2], 4)
  <2>1. \A i \in DOMAIN BeaconBlockBody.fields : NestsIn(BeaconBlockBody.fields[i][2], 4)
    BY PartsOfBodies DEF BeaconBlockBody, Container
  <2> QED
    BY <1>2, <2>1
<1>4. \A i \in 1 .. 12 : /\ BeaconBlockBody.fields[i][1] # "execution_requests"
                         /\ BeaconBlockBody.fields[i]
                              = <<BeaconBlockBody.fields[i][1], BeaconBlockBody.fields[i][2]>>
  BY DEF BeaconBlockBody, Container
<1> QED
  BY <1>1, <1>2, <1>3, <1>4

\* A field in the place of itself changes nothing.
LEMMA SameField ==
  ASSUME NEW fields, fields = [j \in DOMAIN fields |-> fields[j]],
         NEW i \in DOMAIN fields, NEW name, NEW inner, fields[i] = <<name, inner>>,
         FieldNumber(Container(fields), name) = i
  PROVE  WithField(Container(fields), name, inner) = Container(fields)
<1>1. Container(fields).fields = fields
  BY DEF Container
<1>2. [fields EXCEPT ![i] = <<name, inner>>] = fields
  OBVIOUS
<1> QED
  BY <1>1, <1>2 DEF WithField

\* The limit of the withdrawals is that of the fork, and so are its types.
LEMMA TypesOfFork ==
  NodePayload = ExecutionPayload /\ CurrentBody = BeaconBlockBody /\ WithBody(CurrentBody) = BeaconBlock
<1>1. NodePayload = ExecutionPayload
  <2> DEFINE fields == ExecutionPayload.fields
  <2>1. /\ ExecutionPayload = Container(fields)
        /\ fields = [j \in DOMAIN fields |-> fields[j]]
    <3> DEFINE start == PayloadStart
               middle == << <<"transactions", List(Transaction, MAX_TRANSACTIONS_PER_PAYLOAD)>>,
                            <<"withdrawals", List(Withdrawal, MAX_WITHDRAWALS_PER_PAYLOAD)>> >>
               end == BlobGas
               T == {start[i] : i \in 1 .. 13} \cup {middle[i] : i \in 1 .. 2}
                      \cup {end[i] : i \in 1 .. 2}
    <3>1. ExecutionPayload = Container(start \o middle \o end)
      BY DEF ExecutionPayload
    <3>2. fields = start \o middle \o end
      BY <3>1 DEF Container
    <3>3. start \in Seq(T)
      <4>1. start = [i \in 1 .. 13 |-> start[i]]
        BY DEF PayloadStart
      <4> HIDE DEF start, middle, end
      <4>2. start \in [1 .. 13 -> T]
        BY ONLY <4>1
      <4> HIDE DEF T
      <4>3. ASSUME NEW n \in Nat, NEW s \in [1 .. n -> T]
            PROVE  s \in Seq(T)
        OBVIOUS
      <4>4. 13 \in Nat
        OBVIOUS
      <4> HIDE DEF start
      <4> QED
        BY ONLY <4>2, <4>3, <4>4
    <3>4. middle \in Seq(T)
      OBVIOUS
    <3>5. end \in Seq(T)
      BY DEF BlobGas
    <3> HIDE DEF start, middle, end, T, fields
    <3>6. fields \in Seq(T)
      BY ONLY <3>2, <3>3, <3>4, <3>5
    <3>7. fields = [j \in DOMAIN fields |-> fields[j]]
      BY ONLY <3>6
    <3> QED
      BY ONLY <3>1, <3>2, <3>7
  <2>2. 15 \in DOMAIN fields /\ fields[15] = <<"withdrawals", List(Withdrawal, Bits[16])>>
    BY PayloadFields DEF MAX_WITHDRAWALS_PER_PAYLOAD
  <2>3. FieldNumber(ExecutionPayload, "withdrawals") = 15
    BY DEF ExecutionPayload, Container, PayloadStart, BlobGas, FieldNumber
  <2> HIDE DEF fields
  <2>4. WithField(Container(fields), "withdrawals", List(Withdrawal, Bits[16])) = Container(fields)
    BY ONLY <2>1, <2>2, <2>3, SameField
  <2> QED
    BY ONLY <2>1, <2>4 DEF NodePayload
<1>2. CurrentBody = BeaconBlockBody
  <2> DEFINE fields == BeaconBlockBody.fields
  <2>1. /\ BeaconBlockBody = Container(fields)
        /\ fields = [j \in DOMAIN fields |-> fields[j]]
    BY DEF BeaconBlockBody, Container
  <2>2. 10 \in DOMAIN fields /\ fields[10] = <<"execution_payload", ExecutionPayload>>
    BY BodyFields
  <2>3. FieldNumber(BeaconBlockBody, "execution_payload") = 10
    BY PathFields
  <2> HIDE DEF fields
  <2>4. WithField(Container(fields), "execution_payload", ExecutionPayload) = Container(fields)
    BY ONLY <2>1, <2>2, <2>3, SameField
  <2> QED
    BY ONLY <1>1, <2>1, <2>4 DEF CurrentBody
<1>3. WithBody(BeaconBlockBody) = BeaconBlock
  <2> DEFINE fields == BeaconBlock.fields
  <2>1. /\ BeaconBlock = Container(fields)
        /\ fields = [j \in DOMAIN fields |-> fields[j]]
        /\ 5 \in DOMAIN fields /\ fields[5] = <<"body", BeaconBlockBody>>
    BY DEF BeaconBlock, Container
  <2>2. FieldNumber(BeaconBlock, "body") = 5
    BY PathFields
  <2> HIDE DEF fields
  <2>3. WithField(Container(fields), "body", BeaconBlockBody) = Container(fields)
    BY ONLY <2>1, <2>2, SameField
  <2> QED
    BY ONLY <2>1, <2>3 DEF WithBody
<1> QED
  BY <1>1, <1>2, <1>3

\* A block with some body.
BlockWith(type, body) ==
  /\ type.kind = "container" /\ DOMAIN type.fields = 1 .. 5 /\ Len(type.fields) = 5
  /\ type.fields[1] = <<"slot", U64>> /\ type.fields[2] = <<"proposer_index", U64>>
  /\ type.fields[3] = <<"parent_root", Bytes32>> /\ type.fields[4] = <<"state_root", Bytes32>>
  /\ type.fields[5] = <<"body", body>>

\* The fields of a block with another body.
LEMMA BlockWithFields ==
  ASSUME NEW type, NEW body, BlockWith(type, body)
  PROVE  /\ Names(type) = {"slot", "proposer_index", "parent_root", "state_root", "body"}
         /\ FieldType(type, "slot") = U64 /\ FieldType(type, "proposer_index") = U64
         /\ FieldType(type, "parent_root") = Bytes32 /\ FieldType(type, "state_root") = Bytes32
         /\ FieldType(type, "body") = body
<1>1. /\ DOMAIN type.fields = 1 .. 5
      /\ type.fields[1] = <<"slot", U64>> /\ type.fields[2] = <<"proposer_index", U64>>
      /\ type.fields[3] = <<"parent_root", Bytes32>> /\ type.fields[4] = <<"state_root", Bytes32>>
      /\ type.fields[5] = <<"body", body>>
      /\ 1 \in 1 .. 5 /\ 2 \in 1 .. 5 /\ 3 \in 1 .. 5 /\ 4 \in 1 .. 5 /\ 5 \in 1 .. 5
  BY DEF BlockWith
<1>2. /\ type.fields[1][1] = "slot" /\ type.fields[2][1] = "proposer_index"
      /\ type.fields[3][1] = "parent_root" /\ type.fields[4][1] = "state_root"
      /\ type.fields[5][1] = "body"
  BY ONLY <1>1
<1>3. \A i \in 1 .. 5 : i = 1 \/ i = 2 \/ i = 3 \/ i = 4 \/ i = 5
  OBVIOUS
<1>4. DistinctNames(type)
  BY ONLY <1>1, <1>2, <1>3 DEF DistinctNames
<1>5. Names(type) = {"slot", "proposer_index", "parent_root", "state_root", "body"}
  BY ONLY <1>1, <1>2, <1>3 DEF Names
<1> QED
  BY ONLY <1>1, <1>4, <1>5, FieldsByName

\* Another body in the place of that of a block.
LEMMA WithBodyIs ==
  ASSUME NEW body, NestsIn(body, 5)
  PROVE  LET type == WithBody(body)
         IN  /\ BlockWith(type, body) /\ IsStruct(type, 5, 8)
             /\ type.kind = "container" /\ NestsIn(type, 6)
             /\ IsField(type, 1, "slot", U64) /\ IsField(type, 2, "proposer_index", U64)
             /\ IsField(type, 5, "body", body)
<1> DEFINE type == WithBody(body)
           fields == << <<"slot", U64>>, <<"proposer_index", U64>>, <<"parent_root", Bytes32>>,
                        <<"state_root", Bytes32>>, <<"body", body>> >>
<1>1. FieldNumber(BeaconBlock, "body") = 5
  BY PathFields
<1>2. type = Container(fields)
  <2>1. [BeaconBlock.fields EXCEPT ![5] = <<"body", body>>] = fields
    BY DEF BeaconBlock, Container
  <2> QED
    BY <1>1, <2>1 DEF WithBody, WithField
<1>3. type.kind = "container" /\ type.fields = fields
  BY <1>2 DEF Container
<1>4. BlockWith(type, body)
  <2>1. /\ DOMAIN fields = 1 .. 5 /\ Len(fields) = 5
        /\ fields[1] = <<"slot", U64>> /\ fields[2] = <<"proposer_index", U64>>
        /\ fields[3] = <<"parent_root", Bytes32>> /\ fields[4] = <<"state_root", Bytes32>>
        /\ fields[5] = <<"body", body>>
    OBVIOUS
  <2> QED
    BY ONLY <1>3, <2>1 DEF BlockWith
<1>5. NestsIn(type, 6)
  <2>1. NestsIn(U64, 5) /\ NestsIn(Bytes32, 5)
    BY NestsInMore, BasicTypes, BasicNames
  <2>2. \A i \in DOMAIN fields : NestsIn(fields[i][2], 5)
    BY <2>1
  <2> HIDE DEF fields
  <2>3. NestsIn(Container(fields), 6)
    BY ONLY StructNests, <2>2, 5 \in Nat, 5 + 1 = 6
  <2> QED
    BY <1>2, <2>3
<1> HIDE DEF type
<1>6. IsStruct(type, 5, 8)
  BY ONLY <1>4, <1>5, StructIs DEF BlockWith
<1>7. /\ IsField(type, 1, "slot", U64) /\ IsField(type, 2, "proposer_index", U64)
      /\ IsField(type, 5, "body", body)
  <2>1. /\ FieldType(type, "slot") = U64 /\ FieldType(type, "proposer_index") = U64
        /\ FieldType(type, "body") = body
    BY <1>4, BlockWithFields
  <2> QED
    BY ONLY <1>4, <2>1 DEF IsField, BlockWith
<1>8. type.kind = "container"
  BY <1>4 DEF BlockWith
<1> QED
  BY <1>4, <1>5, <1>6, <1>7, <1>8 DEF type

\* A block of the fork.
LEMMA CurrentIs ==
  /\ IsBlockType(BeaconBlock, BeaconBlockBody, 12) /\ NestsIn(BeaconBlock, 6)
  /\ BlockWith(BeaconBlock, BeaconBlockBody)
<1>1. NestsIn(BeaconBlock, 6) /\ NestsIn(BeaconBlockBody, 6)
  BY BlocksNest
<1>2. BlockWith(BeaconBlock, BeaconBlockBody)
  BY DEF BlockWith, BeaconBlock, Container
<1>3. IsStruct(BeaconBlock, 5, 8) /\ IsStruct(BeaconBlockBody, 12, 16)
  <2>1. BeaconBlock.kind = "container" /\ Len(BeaconBlock.fields) = 5
    BY ONLY <1>2 DEF BlockWith
  <2>2. BeaconBlockBody.kind = "container" /\ Len(BeaconBlockBody.fields) = 12
    BY ONLY BodyFields
  <2> QED
    BY ONLY <1>1, <2>1, <2>2, StructIs
<1>4. /\ FieldType(BeaconBlock, "slot") = U64 /\ FieldType(BeaconBlock, "proposer_index") = U64
      /\ FieldType(BeaconBlock, "body") = BeaconBlockBody
  BY <1>2, BlockWithFields
<1>5. /\ IsField(BeaconBlock, 1, "slot", U64) /\ IsField(BeaconBlock, 2, "proposer_index", U64)
      /\ IsField(BeaconBlock, 5, "body", BeaconBlockBody)
  BY ONLY <1>2, <1>4 DEF IsField, BlockWith
<1>6. /\ IsField(BeaconBlockBody, 9, "sync_aggregate", SyncAggregate)
      /\ IsField(BeaconBlockBody, 10, "execution_payload", ExecutionPayload)
  <2>1. 9 \in DOMAIN BeaconBlockBody.fields /\ 10 \in DOMAIN BeaconBlockBody.fields
    BY BodyFields
  <2> QED
    BY ONLY <2>1, BodyFields, FieldsByName DEF IsField
<1> QED
  BY ONLY <1>1, <1>2, <1>3, <1>5, <1>6, 12 \in {12, 13} DEF IsBlockType

\* A block with a newer body: one field more, behind the others.
LEMMA NewerIs ==
  /\ NestsIn(NewerBody, 5) /\ IsBlockType(WithBody(NewerBody), NewerBody, 13)
  /\ IsField(NewerBody, 13, "execution_requests", List(DepositData, MAX_DEPOSITS))
  /\ NewerBody.kind = "container" /\ NestsIn(NewerBody, 6)
  /\ \A name \in Names(BeaconBlockBody) :
       name \in Names(NewerBody) /\ FieldType(NewerBody, name) = FieldType(BeaconBlockBody, name)
<1> DEFINE old == BeaconBlockBody.fields
           requests == <<"execution_requests", List(DepositData, MAX_DEPOSITS)>>
           fields == NewerBody.fields
<1>1. /\ DOMAIN old = 1 .. 12 /\ Len(old) = 12 /\ old = [i \in 1 .. 12 |-> old[i]]
  <2>1. old = [i \in 1 .. 12 |-> old[i]]
    BY DEF BeaconBlockBody, Container
  <2> QED
    BY <2>1, BodyFields
<1>2. NewerBody.kind = "container" /\ fields = Append(old, requests) /\ NewerBody = Container(fields)
  BY TypesOfFork DEF NewerBody, Container
<1> HIDE DEF old, requests
<1>3. /\ Append(old, requests) = [i \in 1 .. 13 |-> IF i <= 12 THEN old[i] ELSE requests]
  <2>1. old \in Seq({ old[i] : i \in 1 .. 12 })
    BY ONLY <1>1
  <2> QED
    BY ONLY <1>1, <2>1
<1> HIDE DEF fields
<1>4. /\ DOMAIN fields = 1 .. 13 /\ Len(fields) = 13 /\ fields[13] = requests
      /\ \A i \in 1 .. 12 : fields[i] = old[i]
  BY ONLY <1>2, <1>3
<1>5. NestsIn(NewerBody, 5)
  <2>1. NestsIn(requests[2], 4)
    BY PartsOfBodies DEF requests
  <2>2. \A i \in 1 .. 12 : NestsIn(old[i][2], 4)
    BY BodyFields DEF old
  <2>3. \A i \in 1 .. 13 : i = 13 \/ i \in 1 .. 12
    OBVIOUS
  <2>4. \A i \in DOMAIN fields : NestsIn(fields[i][2], 4)
    BY ONLY <1>4, <2>1, <2>2, <2>3
  <2>5. NestsIn(Container(fields), 5)
    BY ONLY StructNests, <2>4, 4 \in Nat, 4 + 1 = 5
  <2> QED
    BY ONLY <1>2, <2>5
<1>6. NestsIn(NewerBody, 6)
  BY <1>5, NestsInMore
<1>7. DistinctNames(NewerBody)
  <2>1. \A i \in 1 .. 12 : old[i][1] # "execution_requests"
    BY BodyFields DEF old
  <2>2. \A i, j \in 1 .. 12 : old[i][1] = old[j][1] => i = j
    BY BodyFields DEF old, DistinctNames
  <2>3. requests[1] = "execution_requests"
    BY DEF requests
  <2>4. \A i \in 1 .. 13 : i = 13 \/ i \in 1 .. 12
    OBVIOUS
  <2> QED
    BY ONLY <1>4, <2>1, <2>2, <2>3, <2>4, SMTT(30) DEF DistinctNames, fields
<1>8. /\ \A i \in 1 .. 12 : fields[i] = BeaconBlockBody.fields[i] /\ i \in DOMAIN NewerBody.fields
      /\ NewerBody.fields[13] = <<"execution_requests", List(DepositData, MAX_DEPOSITS)>>
      /\ 13 \in DOMAIN NewerBody.fields
  BY <1>4 DEF fields, old, requests
<1>9. IsField(NewerBody, 13, "execution_requests", List(DepositData, MAX_DEPOSITS))
  BY <1>7, <1>8, FieldsByName DEF IsField
<1>10. ASSUME NEW i \in 1 .. 12, NEW name, NEW inner, BeaconBlockBody.fields[i] = <<name, inner>>
       PROVE  IsField(NewerBody, i, name, inner) /\ name \in Names(NewerBody)
  <2>1. NewerBody.fields[i] = <<name, inner>> /\ i \in DOMAIN NewerBody.fields
    BY <1>8, <1>10 DEF fields
  <2> QED
    BY <1>7, <2>1, FieldsByName DEF IsField
<1>11. /\ IsField(NewerBody, 9, "sync_aggregate", SyncAggregate)
       /\ IsField(NewerBody, 10, "execution_payload", ExecutionPayload)
  BY <1>10, BodyFields, SMTT(30)
<1>12. IsStruct(NewerBody, 13, 16)
  BY <1>2, <1>4, <1>6, StructIs DEF fields
<1>13. IsBlockType(WithBody(NewerBody), NewerBody, 13)
  BY <1>5, <1>11, <1>12, WithBodyIs DEF IsBlockType
<1>14. ASSUME NEW name \in Names(BeaconBlockBody)
       PROVE  name \in Names(NewerBody) /\ FieldType(NewerBody, name) = FieldType(BeaconBlockBody, name)
  <2>1. PICK i \in DOMAIN BeaconBlockBody.fields :
          BeaconBlockBody.fields[i][1] = name /\ FieldType(BeaconBlockBody, name) = BeaconBlockBody.fields[i][2]
    BY FieldTypes
  <2>2. i \in 1 .. 12 /\ BeaconBlockBody.fields[i] = <<name, FieldType(BeaconBlockBody, name)>>
    BY <2>1, BodyFields
  <2> QED
    BY <1>10, <2>2 DEF IsField
<1> QED
  BY <1>2, <1>5, <1>6, <1>9, <1>13, <1>14

\* A body with another type of field i.
Changed(body, i, name, other) ==
  /\ body.kind = "container" /\ body = Container(body.fields)
  /\ DOMAIN body.fields = 1 .. 12 /\ Len(body.fields) = 12
  /\ body.fields = [j \in 1 .. 12 |-> body.fields[j]]
  /\ body.fields[i] = <<name, other>>
  /\ \A j \in 1 .. 12 : j # i => body.fields[j] = BeaconBlockBody.fields[j]
  /\ \A j \in 1 .. 12 : body.fields[j][1] = BeaconBlockBody.fields[j][1]
  /\ DistinctNames(body)

\* One field of a body is changed, the others stay as they are.
LEMMA BodyWithField ==
  ASSUME NEW i \in 1 .. 12, NEW name, NEW type, BeaconBlockBody.fields[i] = <<name, type>>, NEW other
  PROVE  Changed(WithField(BeaconBlockBody, name, other), i, name, other)
<1> DEFINE body == WithField(BeaconBlockBody, name, other)
           old == BeaconBlockBody.fields
<1>1. DOMAIN old = 1 .. 12 /\ DistinctNames(BeaconBlockBody)
  BY BodyFields
<1>2. FieldNumber(BeaconBlockBody, name) = i
  BY <1>1, FieldsByName
<1>3. body.kind = "container" /\ body = Container(body.fields)
      /\ body.fields = [old EXCEPT ![i] = <<name, other>>]
  BY <1>2 DEF WithField, Container
<1> HIDE DEF old
<1>4. [old EXCEPT ![i] = <<name, other>>] = [j \in 1 .. 12 |-> IF j = i THEN <<name, other>> ELSE old[j]]
  BY ONLY <1>1
<1>5. body.fields = [j \in 1 .. 12 |-> IF j = i THEN <<name, other>> ELSE old[j]]
  BY ONLY <1>3, <1>4
<1> HIDE DEF body
<1>6. /\ DOMAIN body.fields = 1 .. 12 /\ Len(body.fields) = 12
      /\ body.fields = [j \in 1 .. 12 |-> body.fields[j]]
      /\ body.fields[i] = <<name, other>>
      /\ \A j \in 1 .. 12 : j # i => body.fields[j] = old[j]
  BY ONLY <1>5, i \in 1 .. 12
<1>7. old[i][1] = name /\ body.fields[i][1] = name
  BY <1>6 DEF old
<1>8. \A j \in 1 .. 12 : body.fields[j][1] = old[j][1]
  BY ONLY <1>6, <1>7
<1>9. DistinctNames(body)
  BY ONLY <1>1, <1>6, <1>8 DEF DistinctNames, old
<1> QED
  BY ONLY <1>3, <1>6, <1>8, <1>9 DEF body, old, Changed

OtherSlashing ==
  Container(<< <<"signed_header_1", SignedBeaconBlockHeader>>,
               <<"signed_header_2", SignedBeaconBlockHeader>> >>)

\* A body with slashings under other names.
LEMMA SlashingIs ==
  /\ NestsIn(OtherSlashings, 5) /\ NestsIn(OtherSlashings, 6) /\ OtherSlashings.kind = "container"
  /\ "proposer_slashings" \in Names(OtherSlashings)
  /\ FieldType(OtherSlashings, "proposer_slashings") = List(OtherSlashing, MAX_PROPOSER_SLASHINGS)
  /\ NestsIn(OtherSlashing, 6) /\ OtherSlashing.kind = "container"
  /\ "signed_header1" \notin Names(OtherSlashing)
  /\ NestsIn(List(OtherSlashing, MAX_PROPOSER_SLASHINGS), 6)
<1> DEFINE list == List(OtherSlashing, MAX_PROPOSER_SLASHINGS)
           fields == OtherSlashings.fields
<1>1. /\ NestsIn(OtherSlashing, 3) /\ NestsIn(list, 4)
  <2>1. NestsIn(SignedBeaconBlockHeader, 2)
    BY PartsOfBodies
  <2>2. \A f : (\A i \in DOMAIN f : NestsIn(f[i][2], 2)) => NestsIn(Container(f), 3)
    BY ONLY StructNests, 2 \in Nat, 2 + 1 = 3
  <2>3. NestsIn(OtherSlashing, 3)
    BY <2>1, <2>2 DEF OtherSlashing
  <2> QED
    BY ONLY <2>3, ListTypes, 3 \in Nat, 3 + 1 = 4
<1>2. OtherSlashings = WithField(BeaconBlockBody, "proposer_slashings", list)
  BY TypesOfFork DEF OtherSlashings, OtherSlashing
<1>3. BeaconBlockBody.fields[4] = <<"proposer_slashings", List(ProposerSlashings, MAX_PROPOSER_SLASHINGS)>>
  BY BodyFields
<1> HIDE DEF list
<1>4. /\ OtherSlashings.kind = "container" /\ OtherSlashings = Container(fields)
      /\ DOMAIN fields = 1 .. 12 /\ fields[4] = <<"proposer_slashings", list>>
      /\ \A j \in 1 .. 12 : j # 4 => fields[j] = BeaconBlockBody.fields[j]
      /\ DistinctNames(OtherSlashings)
  <2>1. 4 \in 1 .. 12
    OBVIOUS
  <2>2. Changed(OtherSlashings, 4, "proposer_slashings", list)
    BY ONLY <1>2, <1>3, <2>1, BodyWithField
  <2> QED
    BY ONLY <2>2 DEF Changed
<1>5. NestsIn(OtherSlashings, 5)
  <2>1. \A i \in 1 .. 12 : NestsIn(BeaconBlockBody.fields[i][2], 4)
    BY BodyFields
  <2>2. fields[4][2] = list
    BY ONLY <1>4
  <2>3. \A i \in DOMAIN fields : NestsIn(fields[i][2], 4)
    BY ONLY <1>1, <1>4, <2>1, <2>2
  <2>4. NestsIn(Container(fields), 5)
    BY ONLY StructNests, <2>3, 4 \in Nat, 4 + 1 = 5
  <2> QED
    BY ONLY <1>4, <2>4
<1>6. /\ "proposer_slashings" \in Names(OtherSlashings)
      /\ FieldType(OtherSlashings, "proposer_slashings") = list
  <2>1. 4 \in DOMAIN OtherSlashings.fields
    BY <1>4
  <2> QED
    BY ONLY <1>4, <2>1, FieldsByName
<1>7. OtherSlashing.kind = "container" /\ "signed_header1" \notin Names(OtherSlashing)
  BY DEF OtherSlashing, Container, Names
<1>8. NestsIn(OtherSlashings, 6) /\ NestsIn(OtherSlashing, 6) /\ NestsIn(list, 6)
  BY ONLY <1>1, <1>5, NestsInMore, 3 \in Nat, 4 \in Nat, 5 \in Nat, 6 \in Nat, 3 <= 6, 4 <= 6, 5 <= 6
<1> QED
  BY ONLY <1>4, <1>5, <1>6, <1>7, <1>8 DEF list

\* An older body: its payload has 15 fields, and it has no commitments.
LEMMA OlderIs ==
  /\ NestsIn(OlderBody, 5) /\ NestsIn(OlderBody, 6) /\ OlderBody.kind = "container"
  /\ "blob_kzg_commitments" \notin Names(OlderBody)
<1> DEFINE short == SubSeq(ExecutionPayload.fields, 1, 15)
           payload == Container(short)
           body == WithField(BeaconBlockBody, "execution_payload", payload)
           fields == OlderBody.fields
<1>1. NestsIn(payload, 4)
  <2>1. DOMAIN short = 1 .. 15 /\ \A i \in 1 .. 15 : short[i] = ExecutionPayload.fields[i]
    <3>1. ExecutionPayload.fields \in Seq({ ExecutionPayload.fields[i] : i \in 1 .. 17 })
      BY DEF ExecutionPayload, Container, PayloadStart, BlobGas
    <3>2. Len(ExecutionPayload.fields) = 17
      BY PayloadFields
    <3> QED
      BY ONLY <3>1, <3>2
  <2>2. /\ NestsIn(List(Transaction, MAX_TRANSACTIONS_PER_PAYLOAD), 1)
        /\ NestsIn(List(Withdrawal, MAX_WITHDRAWALS_PER_PAYLOAD), 2)
    <3>1. NestsIn(Transaction, 0) /\ NestsIn(Withdrawal, 1)
      BY BasicNames, FlatTypes
    <3> QED
      BY ONLY <3>1, ListTypes, 0 \in Nat, 1 \in Nat, 0 + 1 = 1, 1 + 1 = 2
  <2>3. /\ NestsIn(ExecutionPayload.fields[14][2], 1) /\ NestsIn(ExecutionPayload.fields[15][2], 2)
    BY <2>2, PayloadFields
  <2>4. \A i \in (1 .. 17) \ {14, 15} : NestsIn(ExecutionPayload.fields[i][2], 0)
    BY PayloadFields
  <2>5. \A type : NestsIn(type, 0) \/ NestsIn(type, 1) \/ NestsIn(type, 2) => NestsIn(type, 3)
    BY ONLY NestsInMore, 0 \in Nat, 1 \in Nat, 2 \in Nat, 3 \in Nat, 0 <= 3, 1 <= 3, 2 <= 3
  <2>6. \A i \in 1 .. 15 : i = 14 \/ i = 15 \/ i \in (1 .. 17) \ {14, 15}
    OBVIOUS
  <2> HIDE DEF short
  <2>7. \A i \in DOMAIN short : NestsIn(short[i][2], 3)
    BY ONLY <2>1, <2>3, <2>4, <2>5, <2>6
  <2> QED
    BY ONLY StructNests, <2>7, 3 \in Nat, 3 + 1 = 4
<1> HIDE DEF payload
<1>2. BeaconBlockBody.fields[10] = <<"execution_payload", ExecutionPayload>>
  BY BodyFields
<1>3. /\ body.fields = [j \in 1 .. 12 |-> body.fields[j]] /\ Len(body.fields) = 12
      /\ body.fields[10] = <<"execution_payload", payload>>
      /\ \A j \in 1 .. 12 : j # 10 => body.fields[j] = BeaconBlockBody.fields[j]
      /\ \A j \in 1 .. 12 : body.fields[j][1] = BeaconBlockBody.fields[j][1]
  <2>1. 10 \in 1 .. 12
    OBVIOUS
  <2>2. Changed(body, 10, "execution_payload", payload)
    BY ONLY <1>2, <2>1, BodyWithField
  <2> QED
    BY ONLY <2>2 DEF Changed
<1>4. OlderBody = Container(Front(body.fields))
  BY TypesOfFork DEF OlderBody, payload
<1> DEFINE full == body.fields
<1> HIDE DEF body
<1>5. DOMAIN Front(full) = 1 .. 11 /\ \A j \in 1 .. 11 : Front(full)[j] = full[j]
  <2>1. full \in Seq({ full[j] : j \in 1 .. 12 })
    BY ONLY <1>3
  <2> HIDE DEF full
  <2>2. Len(full) = 12
    BY ONLY <1>3 DEF full
  <2>3. Front(full) = SubSeq(full, 1, 11)
    BY <2>2 DEF Front
  <2> QED
    BY ONLY <2>1, <2>2, <2>3
<1>6. /\ OlderBody.kind = "container" /\ OlderBody = Container(fields)
      /\ DOMAIN fields = 1 .. 11 /\ \A j \in 1 .. 11 : fields[j] = full[j] /\ j \in 1 .. 12
  BY <1>4, <1>5 DEF Container
<1> HIDE DEF fields
<1>7. NestsIn(OlderBody, 5)
  <2>1. \A i \in 1 .. 12 : NestsIn(BeaconBlockBody.fields[i][2], 4)
    BY BodyFields
  <2>2. full[10][2] = payload
    BY <1>3
  <2>3. \A i \in DOMAIN fields : NestsIn(fields[i][2], 4)
    BY ONLY <1>1, <1>3, <1>6, <2>1, <2>2
  <2>4. NestsIn(Container(fields), 5)
    BY ONLY StructNests, <2>3, 4 \in Nat, 4 + 1 = 5
  <2> QED
    BY ONLY <1>6, <2>4
<1>8. "blob_kzg_commitments" \notin Names(OlderBody)
  <2>1. BeaconBlockBody.fields[12][1] = "blob_kzg_commitments"
    BY BodyFields
  <2>2. \A i \in 1 .. 11 : BeaconBlockBody.fields[i][1] # BeaconBlockBody.fields[12][1]
    <3>1. DistinctNames(BeaconBlockBody) /\ DOMAIN BeaconBlockBody.fields = 1 .. 12
      BY BodyFields
    <3>2. 12 \in 1 .. 12 /\ \A i \in 1 .. 11 : i \in 1 .. 12 /\ i # 12
      OBVIOUS
    <3> QED
      BY ONLY <3>1, <3>2 DEF DistinctNames
  <2>3. \A i \in 1 .. 11 : fields[i][1] # "blob_kzg_commitments"
    BY ONLY <1>3, <1>6, <2>1, <2>2
  <2> QED
    BY ONLY <1>6, <2>3 DEF Names, fields
<1> QED
  BY <1>6, <1>7, <1>8, NestsInMore, 5 \in Nat, 6 \in Nat, 5 <= 6

-----------------------------------------------------------------------------
(* What becomes of an answer when the type of the node is another one.     *)

\* What from_json finds of a name in the answer of a node that has another type.
Answer(outer, v, name) ==
  IF name \in Names(outer) THEN Served(FieldType(outer, name), v[name]) ELSE Null

\* The answer with one struct is converted to another one when what it has for
\* each field of this one is.
LEMMA OthersConvert ==
  ASSUME NEW outer, outer.kind = "container", NestsIn(outer, 6),
         NEW inner, inner.kind = "container", NestsIn(inner, 6), NEW v
  PROVE  Converts(inner, Served(outer, v))
           <=> \A name \in Names(inner) : Converts(FieldType(inner, name), Answer(outer, v, name))
<1>1. /\ Served(outer, v).kind = "object"
      /\ Served(outer, v).members = [name \in Names(outer) |-> Served(FieldType(outer, name), v[name])]
  BY ContainerServed
<1>2. \A name : Member(Served(outer, v), name) = Answer(outer, v, name)
  BY <1>1 DEF Member, Answer
<1>3. Converts(inner, Served(outer, v))
        <=> \A name \in Names(inner) : Converts(FieldType(inner, name), Member(Served(outer, v), name))
  BY ContainerConverts
<1> QED
  BY <1>2, <1>3

\* Nothing is made of null.
LEMMA NullConverts ==
  /\ ~Converts(U64, Null)
  /\ ~Converts(List(Bytes48, MAX_BLOB_COMMITMENTS_PER_BLOCK), Null)
  /\ ~Converts(SignedBeaconBlockHeader, Null)
<1>1. ~Converts(List(Bytes48, MAX_BLOB_COMMITMENTS_PER_BLOCK), Null)
  <2> DEFINE list == List(Bytes48, MAX_BLOB_COMMITMENTS_PER_BLOCK)
  <2>1. list.kind = "list"
    BY DEF List
  <2>2. NestsIn(list, 6)
    BY PartsOfBodies, NestsInMore, 4 \in Nat, 6 \in Nat, 4 <= 6
  <2> HIDE DEF list
  <2>3. Converts(list, Null) => Null.kind = "array"
    BY <2>1, <2>2, ListConverts
  <2> QED
    BY <2>3 DEF Null, list
<1>2. \A name : Member(Null, name) = Null
  BY DEF Member, Null
<1>3. ~Converts(U64, Null)
  BY BasicReturns DEF Basic, U64, Unsigned
<1>4. /\ BeaconBlockHeader.kind = "container" /\ "slot" \in Names(BeaconBlockHeader)
      /\ FieldType(BeaconBlockHeader, "slot") = U64
  BY DEF BeaconBlockHeader, Container, Names, FieldType, FieldNumber
<1>5. ~Converts(BeaconBlockHeader, Null)
  BY <1>2, <1>3, <1>4, BlocksNest, ContainerConverts
<1>6. /\ SignedBeaconBlockHeader.kind = "container" /\ "message" \in Names(SignedBeaconBlockHeader)
      /\ FieldType(SignedBeaconBlockHeader, "message") = BeaconBlockHeader
  BY DEF SignedBeaconBlockHeader, Container, Names, FieldType, FieldNumber
<1>7. NestsIn(SignedBeaconBlockHeader, 6)
  BY PartsOfBodies, NestsInMore, 2 \in Nat, 6 \in Nat, 2 <= 6
<1>8. ~Converts(SignedBeaconBlockHeader, Null)
  BY <1>2, <1>5, <1>6, <1>7, ContainerConverts
<1> QED
  BY <1>1, <1>3, <1>8

\* A field that is served with its own type is converted.
LEMMA SameConverts ==
  ASSUME NEW outer, outer.kind = "container", NestsIn(outer, 6), NEW v, Fits(outer, v),
         NEW name \in Names(outer), NEW type, FieldType(outer, name) = type
  PROVE  Converts(type, Answer(outer, v, name))
<1>1. NestsIn(FieldType(outer, name), 5)
  BY ONLY ContainerNests, outer.kind = "container", NestsIn(outer, 6), name \in Names(outer),
    5 \in Nat, 5 + 1 = 6
<1>2. NestsIn(type, 6)
  BY <1>1, NestsInMore, 5 \in Nat, 6 \in Nat, 5 <= 6
<1>3. Fits(type, v[name])
  BY ContainerFits
<1>4. Returns(type)
  BY <1>2, ServedReturns
<1> QED
  BY <1>3, <1>4 DEF Returns, Answer

\* The answer with a newer body is converted: what it adds is passed over.
LEMMA NewerConverts ==
  ASSUME NEW v, Fits(WithBody(NewerBody), v)
  PROVE  Converts(BeaconBlock, Served(WithBody(NewerBody), v))
<1> DEFINE outer == WithBody(NewerBody)
           block5 == {"slot", "proposer_index", "parent_root", "state_root", "body"}
<1>1. /\ outer.kind = "container" /\ NestsIn(outer, 6) /\ BlockWith(outer, NewerBody)
  BY NewerIs, WithBodyIs
<1>2. /\ BeaconBlock.kind = "container" /\ NestsIn(BeaconBlock, 6)
      /\ BlockWith(BeaconBlock, BeaconBlockBody)
  BY CurrentIs DEF BlockWith
<1> HIDE DEF outer
<1>3. Names(outer) = Names(BeaconBlock)
      /\ \A name \in Names(outer) : name # "body" => FieldType(outer, name) = FieldType(BeaconBlock, name)
  <2>1. /\ Names(outer) = block5
        /\ FieldType(outer, "slot") = U64 /\ FieldType(outer, "proposer_index") = U64
        /\ FieldType(outer, "parent_root") = Bytes32 /\ FieldType(outer, "state_root") = Bytes32
    BY ONLY <1>1, BlockWithFields
  <2>2. /\ Names(BeaconBlock) = block5
        /\ FieldType(BeaconBlock, "slot") = U64 /\ FieldType(BeaconBlock, "proposer_index") = U64
        /\ FieldType(BeaconBlock, "parent_root") = Bytes32
        /\ FieldType(BeaconBlock, "state_root") = Bytes32
    BY ONLY <1>2, BlockWithFields
  <2> QED
    BY ONLY <2>1, <2>2
<1>4. /\ FieldType(outer, "body") = NewerBody /\ "body" \in Names(outer)
      /\ FieldType(BeaconBlock, "body") = BeaconBlockBody
  BY <1>1, <1>2, BlockWithFields
<1>5. Fits(outer, v)
  BY DEF outer
<1>6. Fits(NewerBody, v["body"])
  BY <1>1, <1>4, <1>5, ContainerFits
<1>7. Converts(BeaconBlockBody, Served(NewerBody, v["body"]))
  <2>1. /\ NewerBody.kind = "container" /\ NestsIn(NewerBody, 6)
        /\ BeaconBlockBody.kind = "container" /\ NestsIn(BeaconBlockBody, 6)
        /\ \A name \in Names(BeaconBlockBody) :
             name \in Names(NewerBody) /\ FieldType(NewerBody, name) = FieldType(BeaconBlockBody, name)
    BY NewerIs, BodyFields, BlocksNest
  <2>2. \A name \in Names(BeaconBlockBody) :
          Converts(FieldType(BeaconBlockBody, name), Answer(NewerBody, v["body"], name))
    BY <1>6, <2>1, SameConverts
  <2> QED
    BY <2>1, <2>2, OthersConvert
<1>8. ASSUME NEW name \in Names(BeaconBlock)
      PROVE  Converts(FieldType(BeaconBlock, name), Answer(outer, v, name))
  <2>1. CASE name = "body"
    BY <1>4, <1>7, <2>1 DEF Answer
  <2>2. CASE name # "body"
    <3>1. name \in Names(outer) /\ FieldType(outer, name) = FieldType(BeaconBlock, name)
      BY <1>3, <2>2
    <3> QED
      BY <1>1, <1>5, <3>1, SameConverts
  <2> QED
    BY <2>1, <2>2
<1>9. Converts(BeaconBlock, Served(outer, v))
  BY <1>1, <1>2, <1>8, OthersConvert
<1> QED
  BY <1>9 DEF outer

\* A body that is not converted lets the block not be converted.
LEMMA BodyConverts ==
  ASSUME NEW body, NestsIn(body, 5), NEW v, ~Converts(BeaconBlockBody, Served(body, v["body"]))
  PROVE  ~Converts(BeaconBlock, Served(WithBody(body), v))
<1> DEFINE outer == WithBody(body)
<1>1. /\ outer.kind = "container" /\ NestsIn(outer, 6) /\ BlockWith(outer, body)
  BY WithBodyIs
<1>2. /\ BeaconBlock.kind = "container" /\ NestsIn(BeaconBlock, 6)
      /\ BlockWith(BeaconBlock, BeaconBlockBody)
  BY CurrentIs DEF BlockWith
<1> HIDE DEF outer
<1>3. /\ FieldType(outer, "body") = body /\ "body" \in Names(outer)
      /\ FieldType(BeaconBlock, "body") = BeaconBlockBody /\ "body" \in Names(BeaconBlock)
  BY <1>1, <1>2, BlockWithFields
<1>4. Answer(outer, v, "body") = Served(body, v["body"])
  BY <1>3 DEF Answer
<1>5. ~Converts(BeaconBlock, Served(outer, v))
  BY <1>1, <1>2, <1>3, <1>4, OthersConvert
<1> QED
  BY <1>5 DEF outer

\* An older block lacks the gas of blobs in its payload.
LEMMA OlderFails ==
  ASSUME NEW v
  PROVE  ~Converts(BeaconBlock, Served(WithBody(OlderBody), v))
<1> DEFINE list == List(Bytes48, MAX_BLOB_COMMITMENTS_PER_BLOCK)
           w == v["body"]
<1>1. FieldType(BeaconBlockBody, "blob_kzg_commitments") = list
      /\ "blob_kzg_commitments" \in Names(BeaconBlockBody)
  <2>1. 12 \in DOMAIN BeaconBlockBody.fields
    BY BodyFields
  <2> QED
    BY ONLY <2>1, BodyFields, FieldsByName
<1>2. Answer(OlderBody, w, "blob_kzg_commitments") = Null
  BY OlderIs DEF Answer
<1>3. ~Converts(list, Null)
  BY NullConverts
<1>4. BeaconBlockBody.kind = "container" /\ NestsIn(BeaconBlockBody, 6)
      /\ OlderBody.kind = "container" /\ NestsIn(OlderBody, 6) /\ NestsIn(OlderBody, 5)
  BY BodyFields, BlocksNest, OlderIs
<1> HIDE DEF list, w
<1>5. ~Converts(BeaconBlockBody, Served(OlderBody, w))
  BY ONLY <1>1, <1>2, <1>3, <1>4, OthersConvert
<1> QED
  BY <1>4, <1>5, BodyConverts DEF w

\* A slashing lacks the headers under the names of the struct.
LEMMA SlashingFails ==
  ASSUME NEW v, Fits(WithBody(OtherSlashings), v), v["body"]["proposer_slashings"] # <<>>
  PROVE  ~Converts(BeaconBlock, Served(WithBody(OtherSlashings), v))
<1> DEFINE other == List(OtherSlashing, MAX_PROPOSER_SLASHINGS)
           list == List(ProposerSlashings, MAX_PROPOSER_SLASHINGS)
           w == v["body"]
           items == w["proposer_slashings"]
<1>1. /\ NestsIn(OtherSlashings, 5) /\ NestsIn(OtherSlashings, 6) /\ OtherSlashings.kind = "container"
      /\ "proposer_slashings" \in Names(OtherSlashings)
      /\ FieldType(OtherSlashings, "proposer_slashings") = other
      /\ NestsIn(OtherSlashing, 6) /\ OtherSlashing.kind = "container"
      /\ "signed_header1" \notin Names(OtherSlashing) /\ NestsIn(other, 6)
  BY SlashingIs
<1>2. Fits(OtherSlashings, w)
  <2> DEFINE outer == WithBody(OtherSlashings)
  <2>1. outer.kind = "container" /\ NestsIn(outer, 6) /\ BlockWith(outer, OtherSlashings)
    BY <1>1, WithBodyIs
  <2>2. Fits(outer, v)
    OBVIOUS
  <2> HIDE DEF outer
  <2>3. FieldType(outer, "body") = OtherSlashings /\ "body" \in Names(outer)
    BY <2>1, BlockWithFields
  <2> QED
    BY <2>1, <2>2, <2>3, ContainerFits
<1>3. Fits(other, items)
  BY <1>1, <1>2, ContainerFits
<1>4. other.kind = "list" /\ other.element = OtherSlashing
      /\ list.kind = "list" /\ list.element = ProposerSlashings
  BY DEF List
<1>5. 1 \in DOMAIN items
  <2>0. items # <<>>
    OBVIOUS
  <2> HIDE DEF other, items
  <2>1. items = [i \in DOMAIN items |-> items[i]] /\ DOMAIN items = 1 .. Len(items) /\ Len(items) \in Nat
    BY <1>1, <1>3, <1>4, ListFits
  <2>2. Len(items) # 0
    BY <2>0, <2>1
  <2> QED
    BY <2>1, <2>2
<1>6. ~Converts(ProposerSlashings, Served(OtherSlashing, items[1]))
  <2>1. /\ ProposerSlashings.kind = "container" /\ "signed_header1" \in Names(ProposerSlashings)
        /\ FieldType(ProposerSlashings, "signed_header1") = SignedBeaconBlockHeader
    BY DEF ProposerSlashings, Container, Names, FieldType, FieldNumber
  <2>2. NestsIn(ProposerSlashings, 6)
    BY PartsOfBodies, NestsInMore, 3 \in Nat, 6 \in Nat, 3 <= 6
  <2>3. Answer(OtherSlashing, items[1], "signed_header1") = Null
    BY <1>1 DEF Answer
  <2> QED
    BY <1>1, <2>1, <2>2, <2>3, NullConverts, OthersConvert
<1>7. NestsIn(list, 6)
  BY PartsOfBodies, NestsInMore, 4 \in Nat, 6 \in Nat, 4 <= 6
<1> HIDE DEF other, list, items, w
<1>8. ~Converts(list, Served(other, items))
  <2>1. /\ Served(other, items).kind = "array"
        /\ Served(other, items).items = [i \in DOMAIN items |-> Served(OtherSlashing, items[i])]
    BY ONLY <1>1, <1>4, ListServed
  <2>2. Converts(list, Served(other, items)) =>
          \A i \in DOMAIN Served(other, items).items :
            Converts(ProposerSlashings, Served(other, items).items[i])
    BY ONLY <1>4, <1>7, <2>1, ListConverts
  <2> QED
    BY ONLY <1>5, <1>6, <2>1, <2>2
<1>9. FieldType(BeaconBlockBody, "proposer_slashings") = list
      /\ "proposer_slashings" \in Names(BeaconBlockBody)
  <2>1. 4 \in DOMAIN BeaconBlockBody.fields
    BY BodyFields
  <2> QED
    BY ONLY <2>1, BodyFields, FieldsByName DEF list
<1>10. Answer(OtherSlashings, w, "proposer_slashings") = Served(other, items)
  BY <1>1 DEF Answer, items
<1>11. BeaconBlockBody.kind = "container" /\ NestsIn(BeaconBlockBody, 6)
  BY BodyFields, BlocksNest
<1>12. ~Converts(BeaconBlockBody, Served(OtherSlashings, w))
  BY ONLY <1>1, <1>8, <1>9, <1>10, <1>11, OthersConvert
<1> QED
  BY <1>1, <1>12, BodyConverts DEF w

-----------------------------------------------------------------------------
(* The proof printed of a block.                                           *)

\* The parent hash of a block of a type with this payload is no error.
LEMMA ParentHash ==
  ASSUME NEW body, NestsIn(body, 5), body.kind = "container",
         "execution_payload" \in Names(body),
         FieldType(body, "execution_payload") = ExecutionPayload,
         NEW v, Fits(WithBody(body), v) \/ (body = BeaconBlockBody /\ Fits(BeaconBlock, v))
  PROVE  v["body"]["execution_payload"]["parent_hash"] # Reverted
<1>1. PICK outer : /\ outer.kind = "container" /\ NestsIn(outer, 6) /\ BlockWith(outer, body)
                   /\ Fits(outer, v)
  <2>1. /\ WithBody(body).kind = "container" /\ NestsIn(WithBody(body), 6)
        /\ BlockWith(WithBody(body), body)
    BY WithBodyIs
  <2>2. BeaconBlock.kind = "container" /\ NestsIn(BeaconBlock, 6)
        /\ BlockWith(BeaconBlock, BeaconBlockBody)
    BY CurrentIs DEF BlockWith
  <2> QED
    BY <2>1, <2>2
<1>2. Fits(body, v["body"])
  BY <1>1, BlockWithFields, ContainerFits
<1>3. NestsIn(body, 6)
  BY NestsInMore, 5 \in Nat, 6 \in Nat, 5 <= 6
<1>4. Fits(ExecutionPayload, v["body"]["execution_payload"])
  BY <1>2, <1>3, ContainerFits
<1>5. /\ "parent_hash" \in Names(ExecutionPayload)
      /\ FieldType(ExecutionPayload, "parent_hash") = Bytes32
      /\ ExecutionPayload.kind = "container" /\ NestsIn(ExecutionPayload, 6)
  <2>1. ExecutionPayload.fields[1][1] = "parent_hash" /\ 1 \in DOMAIN ExecutionPayload.fields
    BY DEF ExecutionPayload, Container, PayloadStart, BlobGas
  <2> QED
    BY <2>1, PayloadStructs DEF IsField, IsStruct, Names
<1>6. Fits(Bytes32, v["body"]["execution_payload"]["parent_hash"])
  BY <1>4, <1>5, ContainerFits
<1> DEFINE hash == v["body"]["execution_payload"]["parent_hash"]
<1>7. NestsIn(Bytes32, 6)
  BY BasicNames, NestsInMore, 0 \in Nat, 6 \in Nat, 0 <= 6
<1> HIDE DEF hash
<1>8. Fits(Bytes32, hash)
  BY <1>6 DEF hash
<1>9. PICK forms : Fits(Bytes32, hash) = FitsFrom(<<Bytes32, hash>>, forms)
  BY <1>7, ValueEquations
<1>10. hash # Reverted
  BY <1>8, <1>9 DEF FitsFrom, Bytes32, ByteVector
<1> QED
  BY <1>10 DEF hash

\* The branches of a block and of one with a newer body differ next to the payload.
LEMMA NewerDiffers ==
  ASSUME NEW v, NEW w
  PROVE  LET h == GetHelperIndices(BlockIndices)
         IN  NodesOf(PathTree(BeaconBlock, v), h) # NodesOf(PathTree(WithBody(NewerBody), w), h)
<1> DEFINE h == GetHelperIndices(BlockIndices)
           newer == WithBody(NewerBody)
           list == List(DepositData, MAX_DEPOSITS)
           a(k) == NodeAt(BeaconBlock, v, k)
           b(k) == NodeAt(newer, w, k)
<1>1. IsBlockType(BeaconBlock, BeaconBlockBody, 12)
  BY CurrentIs
<1>2. IsBlockType(newer, NewerBody, 13) /\ IsField(NewerBody, 13, "execution_requests", list)
  BY NewerIs
<1>3. a(51) = Hash(a(102), a(103)) /\ a(102) = Hash(a(204), a(205)) /\ a(204) = ZERO
  BY <1>1, BlockTree
<1> HIDE DEF newer, list
<1>4. b(51) = Hash(b(102), b(103)) /\ b(102) = Hash(b(204), b(205))
      /\ b(204) = TreeRoot(list, w["body"]["execution_requests"])
  BY <1>2, BlockTree
<1>5. PICK data, size : TreeRoot(list, w["body"]["execution_requests"]) = Hash(data, size)
  <2>1. list.kind = "list" /\ NestsIn(list, 6)
    <3>1. NestsIn(list, 4)
      BY PartsOfBodies DEF list
    <3> QED
      BY <3>1, NestsInMore, 4 \in Nat, 6 \in Nat, 4 <= 6 DEF list, List
  <2> QED
    BY <2>1, ListRoot
<1>6. \A l, r : Hash(l, r) # ZERO
  BY DEF Hash, ZERO, Uint, Chunk
<1>7. \A l, r, x, y : Hash(l, r) = Hash(x, y) => l = x /\ r = y
  BY DEF Hash
<1> HIDE DEF a, b
<1>8. a(51) # b(51)
  BY ONLY <1>3, <1>4, <1>5, <1>6, <1>7
<1>9. PICK i \in DOMAIN h : h[i] = 51
  <2>1. 51 \in ToSet(h)
    BY BlockHelpers DEF PathSiblings
  <2> QED
    BY ONLY <2>1 DEF ToSet
<1>10. 51 \in PathNodes
  BY DEF PathNodes, PathSiblings
<1> HIDE DEF h
<1>11. /\ NodesOf(PathTree(BeaconBlock, v), h)[i] = a(51)
       /\ NodesOf(PathTree(newer, w), h)[i] = b(51)
  BY <1>9, <1>10 DEF NodesOf, PathTree, a, b
<1> QED
  BY ONLY <1>8, <1>11 DEF h, newer

-----------------------------------------------------------------------------
(* The program.                                                            *)

\* The JSON from which a block is made.
Message(b) == Served(NodeType[b.fork], NodeValue[b])

\* What is assumed of a block of the node.
LEMMA BlocksFit ==
  ASSUME NEW b \in NodeBlock
  PROVE  /\ b.fork \in {"current", "older", "newer", "slashing"}
         /\ b.is.proposer \in Proposers /\ b.is.recipient \in Recipients
         /\ NodeType["current"] = BeaconBlock /\ NodeType["older"] = WithBody(OlderBody)
         /\ NodeType["newer"] = WithBody(NewerBody)
         /\ NodeType["slashing"] = WithBody(OtherSlashings)
         /\ Fits(NodeType[b.fork], NodeValue[b])
         /\ NodeValue[b]["proposer_index"] = b.is.proposer
         /\ NodeValue[b]["body"]["execution_payload"]["fee_recipient"] = b.is.recipient
         /\ b.fork = "slashing" => NodeValue[b]["body"]["proposer_slashings"] # <<>>
<1>1. b.fork \in {"current", "older", "newer", "slashing"}
  BY DEF NodeBlock, NodeType
<1>2. b.is \in [proposer : Proposers, recipient : Recipients]
  BY DEF NodeBlock, Block
<1>3. /\ NodeType["current"] = BeaconBlock /\ NodeType["older"] = WithBody(OlderBody)
      /\ NodeType["newer"] = WithBody(NewerBody)
      /\ NodeType["slashing"] = WithBody(OtherSlashings)
  <2>1. NodeType["current"] = WithBody(CurrentBody)
    BY DEF NodeType
  <2>2. /\ NodeType["older"] = WithBody(OlderBody) /\ NodeType["newer"] = WithBody(NewerBody)
        /\ NodeType["slashing"] = WithBody(OtherSlashings)
    BY DEF NodeType
  <2> QED
    BY <2>1, <2>2, TypesOfFork
<1>4. /\ Fits(NodeType[b.fork], NodeValue[b])
      /\ NodeValue[b]["proposer_index"] = b.is.proposer
      /\ NodeValue[b]["body"]["execution_payload"]["fee_recipient"] = b.is.recipient
      /\ b.fork = "slashing" => NodeValue[b]["body"]["proposer_slashings"] # <<>>
  BY ProverAssumption
<1> QED
  BY <1>1, <1>2, <1>3, <1>4

\* A block of the fork is converted to what it is, one of a newer fork to
\* something, and the others are not converted.
LEMMA Conversion ==
  ASSUME NEW b \in NodeBlock
  PROVE  /\ Converts(BeaconBlock, Message(b)) <=> b.fork \in {"current", "newer"}
         /\ b.fork = "current" => Converted(BeaconBlock, Message(b)) = NodeValue[b]
<1> DEFINE v == NodeValue[b]
<1>1. /\ b.fork \in {"current", "older", "newer", "slashing"} /\ Fits(NodeType[b.fork], v)
      /\ NodeType["current"] = BeaconBlock /\ NodeType["older"] = WithBody(OlderBody)
      /\ NodeType["newer"] = WithBody(NewerBody)
      /\ NodeType["slashing"] = WithBody(OtherSlashings)
      /\ b.fork = "slashing" => v["body"]["proposer_slashings"] # <<>>
  BY BlocksFit
<1>2. Message(b) = Served(NodeType[b.fork], v)
  BY DEF Message
<1> HIDE DEF v
<1>3. CASE b.fork = "current"
  <2>1. NestsIn(BeaconBlock, 6)
    BY BlocksNest
  <2>2. Converts(BeaconBlock, Served(BeaconBlock, v)) /\ Converted(BeaconBlock, Served(BeaconBlock, v)) = v
    BY <1>1, <1>3, <2>1, ServedReturns DEF Returns
  <2> QED
    BY <1>1, <1>2, <1>3, <2>2 DEF v
<1>4. CASE b.fork = "newer"
  BY <1>1, <1>2, <1>4, NewerConverts
<1>5. CASE b.fork = "older"
  BY <1>1, <1>2, <1>5, OlderFails
<1>6. CASE b.fork = "slashing"
  BY <1>1, <1>2, <1>6, SlashingFails
<1> QED
  BY <1>1, <1>3, <1>4, <1>5, <1>6

\* Null is no block.
LEMMA NullIsNoBlock == ~Converts(BeaconBlock, Null)
<1>1. /\ BeaconBlock.kind = "container" /\ "slot" \in Names(BeaconBlock)
      /\ FieldType(BeaconBlock, "slot") = U64
  BY DEF BeaconBlock, Container, Names, FieldType, FieldNumber
<1>2. Member(Null, "slot") = Null
  BY DEF Member, Null
<1>3. NestsIn(BeaconBlock, 6)
  BY BlocksNest
<1> QED
  BY <1>1, <1>2, <1>3, NullConverts, ContainerConverts

\* The message that is read out of an answer.
LEMMA MessageIs ==
  ASSUME NEW b \in NodeBlock, NEW t \in Texts
  PROVE  Member(Member(Answered[b][t], "data"), "message")
           = IF t = "block" THEN Message(b) ELSE Null
<1>1. \A names, name, json : Member(Object(names, json), name) = IF name \in names THEN json ELSE Null
  BY DEF Member, Object
<1>2. \A name : Member(Null, name) = Null
  BY DEF Member, Null
<1>3. /\ t = "block" => Answered[b][t] = Object({"data"}, Object({"message"}, Message(b)))
      /\ t = "no_message" => Answered[b][t] = Object({"data"}, Object({}, Null))
      /\ t \in {"no_data", "no_json"} => Answered[b][t] = Object({}, Null)
  BY DEF Answered, Message
<1>4. t \in {"block", "no_message", "no_data", "no_json"}
  BY DEF Texts
<1> QED
  BY ONLY <1>1, <1>2, <1>3, <1>4

\* What becomes of an answer with the message.
Becomes(answer, message) ==
  /\ Converts(BeaconBlock, message) =>
       answer.outcome = "proof" /\ answer.printed = ProofOf(Converted(BeaconBlock, message))
  /\ ~Converts(BeaconBlock, message) => answer.outcome = "panicked"

\* from_json takes the message out of the data of the answer, if there is one.
LEMMA FromJsonIs ==
  ASSUME NEW b \in NodeBlock, NEW t \in Texts
  PROVE  /\ t = "block" => Becomes(FromJson[b][t], Message(b))
         /\ t # "block" => FromJson[b][t].outcome = "panicked"
<1> DEFINE message == Member(Member(Answered[b][t], "data"), "message")
<1>1. FromJson[b][t] = IF t # "no_json" /\ Converts(BeaconBlock, message)
                       THEN [outcome |-> "proof", printed |-> ProofOf(Converted(BeaconBlock, message))]
                       ELSE [outcome |-> "panicked", printed |-> NoProof]
  BY DEF FromJson
<1>2. message = IF t = "block" THEN Message(b) ELSE Null
  BY MessageIs
<1> HIDE DEF message
<1>3. ASSUME t = "block"
      PROVE  Becomes(FromJson[b][t], Message(b))
  <2>1. message = Message(b) /\ t # "no_json"
    BY <1>2, <1>3
  <2> QED
    BY <1>1, <2>1 DEF Becomes
<1>4. ASSUME t # "block"
      PROVE  FromJson[b][t].outcome = "panicked"
  <2>1. ~Converts(BeaconBlock, message)
    BY <1>2, <1>4, NullIsNoBlock
  <2> QED
    BY <1>1, <2>1
<1> QED
  BY <1>3, <1>4

\* What was printed is the proof of a block that is converted, and what is not is
\* the cause of a panic.
OutcomeInv ==
  /\ block \in NodeBlock
  /\ outcome = "proof" => /\ block.fork \in {"current", "newer"}
                          /\ printed = ProofOf(Converted(BeaconBlock, Message(block)))
  /\ outcome = "panicked" => text # "block" \/ block.fork \in {"older", "slashing"}

\* It holds always: only a read makes an outcome of an answer.
LEMMA OutcomeStep == Spec => []OutcomeInv
<1>1. Init => OutcomeInv
  BY DEF Init, OutcomeInv
<1>2. OutcomeInv /\ [Next]_vars => OutcomeInv'
  <2> SUFFICES ASSUME OutcomeInv, [Next]_vars
               PROVE  OutcomeInv'
    OBVIOUS
  <2>1. CASE Run
    BY <2>1 DEF OutcomeInv, Run
  <2>2. CASE Success
    BY <2>2 DEF OutcomeInv, Success
  <2>3. CASE Failure
    BY <2>3 DEF OutcomeInv, Failure, End
  <2>4. CASE Read
    <3>1. /\ block \in NodeBlock /\ block' = block /\ text' \in Texts
          /\ outcome' = FromJson[block][text'].outcome
          /\ printed' = FromJson[block][text'].printed
      BY <2>4 DEF OutcomeInv, Read, End
    <3>2. CASE text' # "block"
      <4>1. outcome' = "panicked"
        BY <3>1, <3>2, FromJsonIs
      <4> QED
        BY <3>1, <3>2, <4>1 DEF OutcomeInv
    <3>3. ASSUME text' = "block"
          PROVE  Becomes(FromJson[block][text'], Message(block))
      BY <3>1, <3>3, FromJsonIs
    <3>4. CASE text' = "block" /\ Converts(BeaconBlock, Message(block))
      <4>1. outcome' = "proof" /\ printed' = ProofOf(Converted(BeaconBlock, Message(block)))
        BY <3>1, <3>3, <3>4 DEF Becomes
      <4>2. block.fork \in {"current", "newer"}
        BY <3>1, <3>4, Conversion
      <4> QED
        BY <3>1, <4>1, <4>2 DEF OutcomeInv, Message
    <3>5. CASE text' = "block" /\ ~Converts(BeaconBlock, Message(block))
      <4>1. outcome' = "panicked"
        BY <3>1, <3>3, <3>5 DEF Becomes
      <4>2. block.fork \in {"older", "slashing"}
        BY <3>1, <3>5, BlocksFit, Conversion
      <4> QED
        BY <3>1, <4>1, <4>2 DEF OutcomeInv
    <3> QED
      BY <3>2, <3>4, <3>5
  <2>5. CASE Lost
    BY <2>5 DEF OutcomeInv, Lost, End
  <2>6. CASE Tick
    BY <2>6 DEF OutcomeInv, Tick
  <2>7. CASE TimeOut
    BY <2>7 DEF OutcomeInv, TimeOut, End
  <2>8. CASE UNCHANGED vars
    BY <2>8 DEF OutcomeInv, vars
  <2> QED
    BY <2>1, <2>2, <2>3, <2>4, <2>5, <2>6, <2>7, <2>8 DEF Next
<1> QED
  BY <1>1, <1>2, PTL DEF Spec

\* The program panics at no block of the fork, whatever is in it.
THEOREM PanicsTheorem == Spec => []OnlyIncompletePanics
<1>1. OutcomeInv => OnlyIncompletePanics
  BY DEF OutcomeInv, OnlyIncompletePanics
<1> QED
  BY <1>1, OutcomeStep, PTL

\* verifyFeeRecipient accepts what the program prints of every block of the fork, and
\* refuses what it prints of a block with a newer body.
THEOREM PrintedTheorem == Spec => []PrintedIsAccepted
<1>1. OutcomeInv => PrintedIsAccepted
  <2> SUFFICES ASSUME OutcomeInv, outcome = "proof"
               PROVE  block.fork = "current" <=>
                        CalculateMultiMerkleRoot(EmptyMap, printed.branch, Leaves(block.is), printed.indices).root
                          = RootOfBlock[block]
    BY DEF PrintedIsAccepted
  <2> DEFINE w == NodeValue[block]
             v == Converted(BeaconBlock, Message(block))
             h == GetHelperIndices(BlockIndices)
             type == NodeType[block.fork]
             leaves == <<Uint(w["proposer_index"]),
                         Address(w["body"]["execution_payload"]["fee_recipient"])>>
             Accepted == CalculateMultiMerkleRoot(EmptyMap, ProofOf(v).branch, leaves, ProofOf(v).indices).root
                           = TreeRoot(type, w)
  <2>1. block \in NodeBlock /\ block.fork \in {"current", "newer"} /\ printed = ProofOf(v)
    BY DEF OutcomeInv
  <2>2. /\ Fits(type, w) /\ w["proposer_index"] = block.is.proposer
        /\ w["body"]["execution_payload"]["fee_recipient"] = block.is.recipient
        /\ NodeType["current"] = BeaconBlock /\ NodeType["newer"] = WithBody(NewerBody)
    BY <2>1, BlocksFit
  <2>3. leaves = Leaves(block.is)
    BY <2>2 DEF Leaves
  <2>4. RootOfBlock[block] = TreeRoot(type, w)
    BY <2>1 DEF RootOfBlock
  <2>5. CASE block.fork = "current"
    <3>1. v = w
      BY <2>1, <2>5, Conversion
    <3>2. type = BeaconBlock /\ Fits(BeaconBlock, w)
      BY <2>2, <2>5
    <3>3. w["body"]["execution_payload"]["parent_hash"] # Reverted
      <4>1. /\ NestsIn(BeaconBlockBody, 5) /\ BeaconBlockBody.kind = "container"
            /\ 10 \in DOMAIN BeaconBlockBody.fields
        BY BlocksNest, BodyFields
      <4>2. /\ "execution_payload" \in Names(BeaconBlockBody)
            /\ FieldType(BeaconBlockBody, "execution_payload") = ExecutionPayload
        BY ONLY <4>1, BodyFields, FieldsByName
      <4> QED
        BY <3>2, <4>1, <4>2, ParentHash
    <3> HIDE DEF v, w, type
    <3>4. Accepted <=> NodesOf(PathTree(BeaconBlock, v), h) = NodesOf(PathTree(type, w), h)
      BY <3>2, <3>3, CurrentIs, BranchAccepted
    <3> HIDE DEF leaves
    <3> QED
      BY <2>1, <2>3, <2>4, <2>5, <3>1, <3>2, <3>4
  <2>6. CASE block.fork = "newer"
    <3>1. type = WithBody(NewerBody) /\ Fits(WithBody(NewerBody), w)
      BY <2>2, <2>6
    <3>2. w["body"]["execution_payload"]["parent_hash"] # Reverted
      <4>1. /\ "execution_payload" \in Names(BeaconBlockBody)
            /\ FieldType(BeaconBlockBody, "execution_payload") = ExecutionPayload
        <5>1. 10 \in DOMAIN BeaconBlockBody.fields
          BY BodyFields
        <5> QED
          BY ONLY <5>1, BodyFields, FieldsByName
      <4>2. /\ "execution_payload" \in Names(NewerBody)
            /\ FieldType(NewerBody, "execution_payload") = ExecutionPayload
        BY <4>1, NewerIs
      <4> QED
        BY <3>1, <4>2, NewerIs, ParentHash
    <3> HIDE DEF v, w, type
    <3>3. Accepted <=> NodesOf(PathTree(BeaconBlock, v), h) = NodesOf(PathTree(type, w), h)
      BY <3>1, <3>2, NewerIs, BranchAccepted
    <3>4. ~Accepted
      BY <3>1, <3>3, NewerDiffers
    <3> HIDE DEF leaves
    <3> QED
      BY <2>1, <2>3, <2>4, <2>6, <3>4
  <2> QED
    BY <2>1, <2>5, <2>6
<1> QED
  BY <1>1, OutcomeStep, PTL

=============================================================================
