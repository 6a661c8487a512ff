------------------------- MODULE FeeRecipientProofs -------------------------
(***************************************************************************)
(* verifyFeeRecipient of BeaconOracle over several transactions.  The      *)
(* caller chooses the values, the hashes and the indices.  The             *)
(* verification keeps the nodes it has computed in transient storage,      *)
(* which lasts until the transaction ends, and one transaction may call    *)
(* the pool more than once.  A call that reverts takes back what it wrote  *)
(* there.                                                                  *)
(***************************************************************************)
EXTENDS SSZ

CONSTANTS
  MaxCalls,           \* calls of the pool in one transaction
  Proposals,          \* blocks: their proposers and fee recipients
  BlockTree,          \* the tree of a block
  Requests            \* indices and hashes that callers give

\* The generalized indices of proposer_index and fee_recipient in a block.  They
\* are in no contract: a caller is trusted to give them.
FieldIndices == <<9, 6433>>

ASSUME FeeRecipientAssumption ==
  /\ MaxCalls \in Nat
  /\ Proposals \subseteq [proposer : Nat, recipient : Nat]
  /\ \A b \in Proposals :
       /\ IsTree(BlockTree[b])
       /\ ToSet(FieldIndices) \subseteq DOMAIN BlockTree[b]
       /\ NodesOf(BlockTree[b], FieldIndices) = Leaves(b)
  /\ \A r \in Requests :
       /\ r.indices \in Seq(Nat)
       /\ r.proof \in Seq({ r.proof[i] : i \in DOMAIN r.proof })

VARIABLES
  transient,          \* the HashMap in transient storage
  calls,              \* calls so far in this transaction
  met,                \* roots that calls of this transaction were accepted for
  verdict             \* the last call of the transaction, if any, and whether it was accepted

callVars == <<transient, calls, met, verdict>>

\* What BEACON_ROOTS has of a block.
Root(b) == BlockTree[b][1]

Calculate(map, request, claim) ==
  CalculateMultiMerkleRoot(map, request.proof, Leaves(claim), request.indices)

\* The calculations of a first call, which TLC has to make only once.
FirstCalculated ==
  { [request |-> r, claim |-> c, result |-> Calculate(EmptyMap, r, c)] :
      r \in Requests, c \in Proposals }

Calculated(map, request, claim) ==
  IF map = EmptyMap
  THEN (CHOOSE f \in FirstCalculated : f.request = request /\ f.claim = claim).result
  ELSE Calculate(map, request, claim)

InitCalls ==
  /\ transient = EmptyMap
  /\ calls = 0
  /\ met = {}
  /\ verdict = {}

\* The end of a verification.  Nothing is left of it in storage unless it was
\* accepted and the function that called it completes.
Judge(block, request, claim, accepted, completes, map) ==
  /\ calls < MaxCalls
  /\ calls' = calls + 1
  /\ verdict' = { [ accepted |-> accepted, block |-> block, request |-> request,
                    claim |-> claim, met |-> met ] }
  /\ IF accepted /\ completes
     THEN transient' = map /\ met' = met \cup {Root(block)}
     ELSE UNCHANGED <<transient, met>>

\* Mutant: the leaves are taken in the opposite order.
VerifyFeeRecipientTurned(request, claim) ==
  LET result == CalculateMultiMerkleRoot(transient, request.proof, Reverse(Leaves(claim)),
                                         request.indices)
  IN  \E block \in Proposals :
        Judge(block, request, claim, result.root = Root(block), TRUE, result.map)

\* Mutant: false is returned where the code reverts, and what was written stays.
VerifyFeeRecipientKeepsRefused(request, claim) ==
  LET result == Calculated(transient, request, claim)
  IN  \E block \in Proposals :
        /\ calls < MaxCalls
        /\ calls' = calls + 1
        /\ verdict' = { [ accepted |-> result.root = Root(block), block |-> block,
                          request |-> request, claim |-> claim, met |-> met ] }
        /\ transient' = result.map
        /\ met' = IF result.root = Root(block) THEN met \cup {Root(block)} ELSE met

\* A call with the values `claim' against the root of any block.  Of the indices only
\* their number is checked.
VerifyFeeRecipient(request, claim) ==
  LET result == Calculated(transient, request, claim)
  IN  \E block \in Proposals, completes \in BOOLEAN :
        Judge(block, request, claim,
              Len(request.indices) = 2 /\ result.root = Root(block), completes, result.map)

EndTransaction ==
  /\ calls > 0
  /\ transient' = EmptyMap
  /\ calls' = 0
  /\ met' = {}
  /\ verdict' = {}

NextCalls ==
  \/ \E request \in Requests, claim \in Proposals : VerifyFeeRecipient(request, claim)
  \/ EndTransaction

SpecCalls == InitCalls /\ [][NextCalls]_callVars

-----------------------------------------------------------------------------
(* Properties.                                                             *)

\* The values and the hashes of a call are those of the block at its indices.
IsExact(v) ==
  LET tree == BlockTree[v.block]
  IN  /\ Leaves(v.claim) = NodesOf(tree, v.request.indices)
      /\ v.request.proof = NodesOf(tree, GetHelperIndices(v.request.indices))

\* Two nodes of the block, neither of them below the other one.
AreSeparate(v) ==
  LET indices == v.request.indices
  IN  /\ Len(indices) = 2 /\ Distinct(indices)
      /\ ToSet(indices) \subseteq DOMAIN BlockTree[v.block] /\ Antichain(ToSet(indices))

\* The first proof that a transaction gets accepted, and every one before it, is
\* judged by the block alone, whatever earlier transactions or calls that reverted
\* computed: it is accepted if and only if the values and all hashes are those of
\* the block at two indices apart from each other.
FirstProofIsExact ==
  \A v \in verdict : v.met = {} /\ AreSeparate(v) => (v.accepted <=> IsExact(v))

\* What a transaction left behind goes no further than the block it was accepted
\* for: a proof at two indices apart from each other is accepted of a block only if
\* it is exact, or if the transaction has a proof of that block behind it.
RightOrMet ==
  \A v \in verdict :
    v.accepted /\ AreSeparate(v) => IsExact(v) \/ Root(v.block) \in v.met

\* A proof is accepted only of the proposer and the fee recipient that the block
\* has ("If verifies, we can use the values", src/src/BeaconOracle.sol:46).
AcceptedIsProven == \A v \in verdict : v.accepted => v.claim = v.block

\* The proof of the right values of a block, made of hashes of that block, is
\* accepted ("Calculates multi-merkle root", src/src/libraries/Merkle.sol:32).
RightIsAccepted ==
  \A v \in verdict :
    v.request.indices = FieldIndices /\ v.claim = v.block /\ IsExact(v) => v.accepted

=============================================================================
