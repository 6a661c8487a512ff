----------------------------- MODULE MCLibraries -----------------------------
(***************************************************************************)
(* An instance of Libraries for TLC, which also plays the transactions of  *)
(* FeeRecipientProofs: either inputs are chosen, or calls are made.        *)
(***************************************************************************)
EXTENDS Libraries, MCFeeRecipientProofs

CONSTANTS
  Step,               \* distance of the sampled bit positions of a word
  Items,              \* numbers in the arrays
  MaxSort,            \* length of the arrays that are sorted
  MaxFirst, MaxSecond,\* lengths of the arrays that are subtracted
  Values,             \* of a field of a record; zero is among them
  Height,             \* of the tree whose proofs are varied
  TallHeight          \* of the tree whose correct proofs are checked

-----------------------------------------------------------------------------
(* Inputs.                                                                 *)

\* Positions at the ends of the words and of the halves log2 distinguishes,
\* and every Step-th position between them.
Positions ==
  { i \in 0 .. WIDTH - 1 : i % Step = 0 \/ i % 32 \in {0, 31} }

\* Zero, words of one and two bits, and words of ones only.
MCSamples ==
  { {i, j} : i, j \in Positions } \cup { 0 .. i - 1 : i \in Positions }

MCGindices ==
  { Bits[n] : n \in 1 .. 31 } \cup { Shl(k, Bits[n], 64) : n \in {11, 43, 726}, k \in {20, 40, 50} }

MCSortInputs == BoundedSeq(Items, MaxSort)

MCFirstArrays == BoundedSeq(Items, MaxFirst)

MCSecondArrays == BoundedSeq(Items, MaxSecond)

MCRecords ==
  [ pubkey : Values, withdrawalCredentials : Values, effectiveBalance : Values,
    slashed : BOOLEAN, activationEligibilityEpoch : {0}, activationEpoch : Values,
    exitEpoch : Values, withdrawableEpoch : Values ]

\* All records against those of a few: one field more or less equal.
MCPivots == { r \in MCRecords : r.slashed = (r.pubkey = 0) /\ r.exitEpoch = r.withdrawableEpoch }

MCWithdrawals ==
  [index : Values, validatorIndex : Values, address : Values, amount : Values]

MCHeaders ==
  [slot : Values, proposerIndex : Values, parentRoot : Values, stateRoot : Values, bodyRoot : Values]

\* What a state and a body are made of, else blank.
MCState == [Blank(BeaconState) EXCEPT !.slot = 1, !.genesis_time = 1]

MCPayloads ==
  { [ Blank(ExecutionPayload) EXCEPT
        !.fee_recipient = r, !.excess_blob_gas = g, !.transactions = ts,
        !.withdrawals = [i \in DOMAIN ws |-> WithdrawalValue(ws[i])] ] :
      r, g \in Values, ts \in BoundedSeq({[length |-> 1, bytes |-> 1]}, 1),
      ws \in BoundedSeq({ w \in MCWithdrawals : w.index = w.amount }, 1) }

MCBodies == { [Blank(BeaconBlockBody) EXCEPT !.execution_payload = p] : p \in MCPayloads }

MCBlocks ==
  [slot : Values, proposerIndex : Values, parentRoot : {1}, state : {MCState}, body : MCBodies]

\* The full tree above 2^height different chunks.
TreeOf(height) ==
  LET node[k \in 1 .. 2^(height + 1) - 1] ==
        IF k >= 2^height THEN Chunk("node", k) ELSE Hash(node[2 * k], node[2 * k + 1])
  IN  [k \in DOMAIN node |-> node[k]]

MCTrees == [h \in {Height, TallHeight} |-> TreeOf(h)]

AllNodes == { MCTrees[Height][k] : k \in DOMAIN MCTrees[Height] }

Antichains(h, sizes) ==
  { ks \in UNION { SeqOf(DOMAIN MCTrees[h], n) : n \in sizes } :
      Len(ks) \in sizes /\ Distinct(ks) /\ Antichain(ToSet(ks)) }

RightHashes(h, ks) == NodesOf(MCTrees[h], SetToSortSeq(MissingSiblings(ToSet(ks)), >))

\* Correct proofs of one to three nodes of the tall tree.
CorrectProofs ==
  { [ tree |-> TallHeight, indices |-> ks, leaves |-> NodesOf(MCTrees[TallHeight], ks),
      proof |-> RightHashes(TallHeight, ks) ] : ks \in Antichains(TallHeight, 1 .. 3) }

\* Any proof of any values at n indices.
AnyProofs(n) ==
  [ tree : {Height}, indices : Antichains(Height, {n}), leaves : [1 .. n -> AllNodes],
    proof : BoundedSeq(AllNodes, Height) ]

MCProofs == CorrectProofs \cup AnyProofs(1) \cup AnyProofs(2)

-----------------------------------------------------------------------------
(* Both specifications, one of which stutters.                             *)

InitAll == Init /\ InitCalls

NextAll ==
  \/ calls = 0 /\ Next /\ UNCHANGED callVars
  \/ \E request \in Requests, claim \in Proposals :
       kind = "none" /\ VerifyFeeRecipient(request, claim) /\ UNCHANGED vars
  \/ kind = "none" /\ EndTransaction /\ UNCHANGED vars

SpecAll == InitAll /\ [][NextAll]_<<vars, callVars>>

=============================================================================
