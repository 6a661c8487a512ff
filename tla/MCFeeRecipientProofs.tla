------------------------ MODULE MCFeeRecipientProofs ------------------------
(***************************************************************************)
(* An instance of FeeRecipientProofs for TLC: the trees of the blocks are  *)
(* those that the Rust types give them, as far as the proofs of the two    *)
(* fields need them, and the requests are those that the prover makes and  *)
(* others with the same hashes at other indices.                           *)
(***************************************************************************)
EXTENDS FeeRecipientProofs, BlockProofs, BlankValues

\* The paths from the two fields to the root, and the nodes next to them.
MCNodes ==
  LET paths == UNION { {k} \cup Ancestors[k] : k \in ToSet(FieldIndices) }
  IN  paths \cup { Sibling(k) : k \in paths \ {1} }

\* A function as the table of its values.
Table(S, F(_)) == FoldSet(LAMBDA x, table : (x :> F(x)) @@ table, <<>>, S)

\* TLC computes a definition once, and what a constant stands for every time.
BlockTrees ==
  Table(Block, LAMBDA b :
    Table(MCNodes, LAMBDA k : NodeAt(BeaconBlock, BlankBlock(BeaconBlock, b), k)))

MCBlockTree == BlockTrees

ProverRequests ==
  { LET made == ProofOf(BlankBlock(BeaconBlock, b))
    IN  [indices |-> made.indices, proof |-> made.branch] : b \in Block }

\* The fields in the other order, one of them alone or twice, and a node above the
\* other one.
OtherIndices == { <<6433, 9>>, <<9>>, <<6433, 6433>>, <<1, 9>> }

SomeRequests ==
  ProverRequests \cup
  { [indices |-> ks, proof |-> NodesOf(BlockTrees[b], GetHelperIndices(ks))] :
      ks \in OtherIndices, b \in Block }

MCRequests == SomeRequests

=============================================================================
