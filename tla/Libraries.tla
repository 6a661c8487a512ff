------------------------------ MODULE Libraries ------------------------------
(***************************************************************************)
(* The library functions and what they promise.  A behaviour is the choice *)
(* of an input: two words, arrays or records, a block, or a Merkle proof   *)
(* that somebody submits, of nodes of one of the trees.                    *)
(***************************************************************************)
EXTENDS ConsensusState, ProofTool

CONSTANTS
  Samples,            \* words
  Gindices,           \* generalized indices of 64 bits
  SortInputs,         \* arrays to sort
  FirstArrays, SecondArrays,    \* arrays to subtract, and what from them
  Records, Pivots,    \* validators, all of them against a few
  Headers, Withdrawals,
  Blocks,             \* blocks, with the state after them and their body
  Trees,              \* trees by name
  Proofs              \* what is submitted: indices, leaves and hashes

VARIABLES kind, first, second

vars == <<kind, first, second>>

-----------------------------------------------------------------------------
(* The inputs that the properties are about.                               *)

ValidatorRecord ==
  [ pubkey : Nat, withdrawalCredentials : Nat, effectiveBalance : Nat, slashed : BOOLEAN,
    activationEligibilityEpoch : Nat, activationEpoch : Nat, exitEpoch : Nat,
    withdrawableEpoch : Nat ]

HeaderRecord ==
  [slot : Nat, proposerIndex : Nat, parentRoot : Nat, stateRoot : Nat, bodyRoot : Nat]

WithdrawalRecord == [index : Nat, validatorIndex : Nat, address : Nat, amount : Nat]

IsBlock(b) ==
  /\ {b.slot, b.proposerIndex, b.parentRoot} \subseteq Nat
  /\ Fits(BeaconState, b.state)
  /\ Fits(BeaconBlockBody, b.body)

\* Indices are numbers of 256 bits, of nodes of which none is above another.
AreIndices(ks, tree) ==
  /\ ks \in Seq(DOMAIN tree) /\ ks # <<>>
  /\ Distinct(ks) /\ Antichain(ToSet(ks))
  /\ \A k \in ToSet(ks) : Bits[k] \subseteq 0 .. WIDTH - 1

IsSubmitted(p) ==
  /\ p.tree \in DOMAIN Trees
  /\ AreIndices(p.indices, Trees[p.tree])
  /\ p.leaves \in Seq(ToSet(p.leaves)) /\ p.leaves # <<>>
  /\ p.proof \in Seq(ToSet(p.proof))

ASSUME LibrariesAssumption ==
  /\ Samples \subseteq SUBSET (0 .. WIDTH - 1)
  /\ Gindices \subseteq SUBSET (0 .. 63)
  /\ SortInputs \cup FirstArrays \cup SecondArrays \subseteq Seq(Nat)
  /\ Records \cup Pivots \subseteq ValidatorRecord
  /\ Headers \subseteq HeaderRecord
  /\ Withdrawals \subseteq WithdrawalRecord
  /\ \A b \in Blocks : IsBlock(b)
  /\ \A t \in DOMAIN Trees : IsTree(Trees[t])
  /\ \A p \in Proofs : IsSubmitted(p)

-----------------------------------------------------------------------------
(* The choice.                                                             *)

Init == kind = "none" /\ first = {} /\ second = {}

Choose(k) == kind = "none" /\ kind' = k

Words1 == Choose("word") /\ first' \in Samples /\ second' = {}

Words2 == Choose("word") /\ first' \in Gindices /\ second' \in Gindices

SortedArray == Choose("array") /\ first' \in SortInputs /\ second' = <<>>

Arrays2 == Choose("array") /\ first' \in FirstArrays /\ second' \in SecondArrays

Validators2 == Choose("validator") /\ first' \in Records /\ second' \in Pivots

Headers2 == Choose("header") /\ first' \in Headers /\ second' \in Headers

Withdrawals2 == Choose("withdrawal") /\ first' \in Withdrawals /\ second' \in Withdrawals

ABlock == Choose("block") /\ first' \in Blocks /\ second' = {}

AProof == Choose("proof") /\ first' \in Proofs /\ second' = {}

Chosen == kind # "none" /\ UNCHANGED vars

Next ==
  \/ Words1 \/ Words2 \/ SortedArray \/ Arrays2 \/ Validators2 \/ Headers2 \/ Withdrawals2
  \/ ABlock \/ AProof \/ Chosen

Spec == Init /\ [][Next]_vars

-----------------------------------------------------------------------------
(* Words.                                                                  *)

\* log2, which decides how long a Merkle proof must be, is the position of the
\* highest one bit, for words of every magnitude (Merkle.sol:110-113).
Log2IsHighestBit == kind = "word" /\ first # {} => Log2(first) = Max(first)

\* toLittleEndian moves byte k from one end to byte k from the other end and
\* leaves the bits within a byte alone; a bool is encoded like the number.
LittleEndianReversesBytes ==
  kind = "word" =>
    /\ ToLittleEndian(first) = { (8 * (31 - (i \div 8))) + (i % 8) : i \in first }
    /\ BoolToLittleEndian(first # {}) = ToLittleEndian(IF first # {} THEN {0} ELSE {})

\* Whenever the result fits 64 bits, concatGindices goes down from the first
\* node by the way that leads from the root to the second.
ConcatIsDescent ==
  kind = "word" /\ first # {} /\ second # {} /\ Max(first) + Max(second) < 64 =>
    LET c == ConcatGindices(first, second)
    IN  /\ Shr(Max(second), c) = first
        /\ \A i \in 0 .. Max(second) - 1 : i \in c <=> i \in second

\* The debug tool composes generalized indices as SSZ.sol does, whenever the
\* result fits, and leads to a validator from the indices it names itself.
DebugToolAgrees ==
  /\ kind = "word" /\ first # {} /\ second # {} /\ Max(first) + Max(second) < 63 =>
       ConcatGeneralizedIndices(<<first, second>>) = ConcatGindices(first, second)
  /\ kind = "word" /\ first \subseteq 0 .. 39 =>
       ConcatGeneralizedIndices(<<Bits[11], Bits[43], {41} \cup first>>) = ValidatorGindex(first)

-----------------------------------------------------------------------------
(* Arrays.                                                                 *)

Count(s, e) == Cardinality({ i \in DOMAIN s : s[i] = e })

\* sortReverse returns the items it was given, each as often as it was given,
\* from the largest to the smallest: also for arrays with repeated items, where
\* the strict comparison sends equal items to the right of the pivot.
SortReverseSorts ==
  kind = "array" =>
    LET sorted == SortReverse(first)
    IN  /\ IsSorted(sorted, >=)
        /\ Len(sorted) = Len(first)
        /\ \A e \in ToSet(first) : Count(sorted, e) = Count(first, e)

\* difference returns each item of the first array that is not in the second
\* exactly once, as the computation of helper indices needs it.
DifferenceIsExact ==
  kind = "array" =>
    LET diff == Difference(first, second)
    IN  /\ ToSet(diff) = ToSet(first) \ ToSet(second)
        /\ Distinct(diff)

-----------------------------------------------------------------------------
(* Roots of records.                                                       *)

IsRecord == kind \in {"validator", "header", "withdrawal"}

Fields(r) == IF kind = "validator" THEN ValidatorFields(r) ELSE HeaderFields(r)

RootOf(r) ==
  CASE kind = "validator" -> ValidatorHashTreeRoot(r)
    [] kind = "header" -> BeaconHeaderHashTreeRoot(r)
    [] kind = "withdrawal" -> WithdrawalHashTreeRoot(r)

\* The tree above eight chunks, level by level from the leaves.
TreeAbove(chunks) ==
  LET fours == [k \in 4 .. 7 |-> Hash(chunks[2 * k - 7], chunks[2 * k - 6])]
      twos  == [k \in 2 .. 3 |-> Hash(fours[2 * k], fours[2 * k + 1])]
  IN  [ k \in 1 .. 15 |->
          CASE k >= 8 -> chunks[k - 7]
            [] k \in 4 .. 7 -> fours[k]
            [] k \in 2 .. 3 -> twos[k]
            [] k = 1 -> Hash(twos[2], twos[3]) ]

\* Field i of a validator or a header is the node with the generalized index
\* 7 + i below the computed root: the loops that hash in place, over the very
\* array they read, build the tree of the consensus specification.
FieldsAreLeaves ==
  kind \in {"validator", "header"} =>
    \A k \in 8 .. 15 :
      CalculateMerkleRoot(NodesOf(TreeAbove(Fields(first)), GetBranchIndices(k)),
                          Fields(first)[k - 7], k)
        = RootOf(first)

\* Records that differ in any field have different roots: no field that a proof
\* lets through is left out of the root or shared with another one.
RootsDistinguish == IsRecord /\ RootOf(first) = RootOf(second) => first = second

-----------------------------------------------------------------------------
(* The Rust types.                                                         *)

Bytes(v) == Chunk("bytes32", v)

\* A record of the contracts as the value of the struct of the same name.
ValidatorValue(r) ==
  [ pubkey |-> r.pubkey, withdrawal_credentials |-> Bytes(r.withdrawalCredentials),
    effective_balance |-> r.effectiveBalance, slashed |-> r.slashed,
    activation_eligibility_epoch |-> r.activationEligibilityEpoch,
    activation_epoch |-> r.activationEpoch, exit_epoch |-> r.exitEpoch,
    withdrawable_epoch |-> r.withdrawableEpoch ]

HeaderValue(h) ==
  [ slot |-> h.slot, proposer_index |-> h.proposerIndex, parent_root |-> Bytes(h.parentRoot),
    state_root |-> Bytes(h.stateRoot), body_root |-> Bytes(h.bodyRoot) ]

WithdrawalValue(w) ==
  [ index |-> w.index, validator_index |-> w.validatorIndex, address |-> w.address,
    amount |-> w.amount ]

\* The root that Solidity computes of a record, by code written out for this
\* record, is the root that the Rust types give it: a proof made with these
\* verifies with that.
RootsAgree ==
  /\ kind = "validator"  => RootOf(first) = TreeRoot(Validator, ValidatorValue(first))
  /\ kind = "header"     => RootOf(first) = TreeRoot(BeaconBlockHeader, HeaderValue(first))
  /\ kind = "withdrawal" => RootOf(first) = TreeRoot(Withdrawal, WithdrawalValue(first))

\* The generalized indices that the contracts and their tests (Merkle.t.sol:53)
\* have as literals are those of the fields they stand for in the Rust types:
\* any validator of the state of a block, below the limit of the list, and the
\* proposer, the fee recipient and the timestamp of a block.
IndicesArePaths ==
  /\ kind = "word" /\ first \subseteq 0 .. 39 =>
       ValidatorGindex(first)
         = GeneralizedIndex(BeaconBlockState, <<"beacon_state", "validators", first>>)
  /\ kind = "block" =>
       /\ GeneralizedIndex(BeaconBlock, <<"proposer_index">>) = Bits[9]
       /\ GeneralizedIndex(BeaconBlock, <<"body", "execution_payload", "fee_recipient">>) = Bits[6433]
       /\ GeneralizedIndex(BeaconBlock, <<"body", "execution_payload", "timestamp">>) = Bits[6441]

\* What the structs say of a block: all of it, with the root of the body, and
\* with the state in the place of its root.
BlockValue(b) ==
  [ slot |-> b.slot, proposer_index |-> b.proposerIndex, parent_root |-> Bytes(b.parentRoot),
    state_root |-> TreeRoot(BeaconState, b.state), body |-> b.body ]

BlockHeaderValue(b) ==
  [ slot |-> b.slot, proposer_index |-> b.proposerIndex, parent_root |-> Bytes(b.parentRoot),
    state_root |-> TreeRoot(BeaconState, b.state), body_root |-> TreeRoot(BeaconBlockBody, b.body) ]

BlockStateValue(b) ==
  [ slot |-> b.slot, proposer_index |-> b.proposerIndex, parent_root |-> Bytes(b.parentRoot),
    beacon_state |-> b.state, body_root |-> TreeRoot(BeaconBlockBody, b.body) ]

\* A payload with the roots of two of its lists.
PayloadHeaderValue(payload) ==
  [ n \in Names(ExecutionPayloadHeader) |->
      CASE n = "transactions_root" ->
             TreeRoot(FieldType(ExecutionPayload, "transactions"), payload.transactions)
        [] n = "withdrawals_root" ->
             TreeRoot(FieldType(ExecutionPayload, "withdrawals"), payload.withdrawals)
        [] OTHER -> payload[n] ]

\* What a block, its header and its header with the state in it say of the same
\* block has one root, so that a proof made from any of them verifies against
\* the root that the contract gets; so have a payload and its header.
ViewsShareRoot ==
  kind = "block" =>
    LET root    == TreeRoot(BeaconBlockHeader, BlockHeaderValue(first))
        payload == first.body.execution_payload
    IN  /\ TreeRoot(BeaconBlock, BlockValue(first)) = root
        /\ TreeRoot(BeaconBlockState, BlockStateValue(first)) = root
        /\ TreeRoot(ExecutionPayload, payload)
             = TreeRoot(ExecutionPayloadHeader, PayloadHeaderValue(payload))

-----------------------------------------------------------------------------
(* Merkle proofs.                                                          *)

Tree == Trees[first.tree]

\* The single proof of a value at an index leads to the root exactly when the
\* value is the node at that index and the proof its branch: no other value, no
\* other index and no proof of another length is accepted.
SingleProofIsExact ==
  kind = "proof" /\ Len(first.indices) = 1 =>
    LET k == first.indices[1]
    IN  CalculateMerkleRoot(first.proof, first.leaves[1], k) = Tree[1]
          <=> /\ first.leaves[1] = Tree[k]
              /\ first.proof = NodesOf(Tree, GetBranchIndices(k))

\* The same of a proof of several values at once, for indices of which none is
\* above another, in a transaction that has verified nothing before.
MultiProofIsExact ==
  kind = "proof" =>
    (CalculateMultiMerkleRoot(EmptyMap, first.proof, first.leaves, first.indices).root = Tree[1]
       <=> /\ first.leaves = NodesOf(Tree, first.indices)
           /\ first.proof = NodesOf(Tree, GetHelperIndices(first.indices)))

\* getHelperIndices lists the siblings next to the paths that are on no path,
\* each once, from the largest to the smallest.
HelpersAreMissingSiblings ==
  kind = "proof" =>
    LET helpers == GetHelperIndices(first.indices)
    IN  /\ ToSet(helpers) = MissingSiblings(ToSet(first.indices))
        /\ IsSorted(helpers, >)

\* The verification of a branch in SSZ.sol, written in assembly over calldata,
\* accepts the same proofs of one value as the one the oracle uses.
VerifyProofAgrees ==
  kind = "proof" =>
    \A k \in {0} \cup ToSet(first.indices) :
      VerifyProof(first.proof, Tree[1], first.leaves[1], k)
        <=> CalculateMerkleRoot(first.proof, first.leaves[1], k) = Tree[1]

\* The proof tool asks the beacon node for the hashes in the very order in which
\* the contract uses them, though it removes duplicates and sorts differently; it
\* can do so for indices below XorLimit, and for no single index from there on.
ToolAgrees ==
  kind = "proof" =>
    LET indices == first.indices
        small   == \A k \in ToSet(indices) : k < XorLimit
        agrees  == ToolHelperIndices(indices) = GetHelperIndices(indices)
    IN  (small => agrees) /\ (Len(indices) = 1 /\ agrees => small)

=============================================================================
