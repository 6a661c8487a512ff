---------------------------- MODULE BlockProofs ----------------------------
(***************************************************************************)
(* The proof that a block has a proposer and a fee recipient: the paths    *)
(* that prover/src/main.rs gives to the library, in blocks that differ in  *)
(* these two fields.                                                       *)
(***************************************************************************)
EXTENDS ConsensusTypes

CONSTANTS
  Proposers,          \* indices of the validators that propose blocks
  Recipients          \* fee recipients of blocks

Block == [proposer : Proposers, recipient : Recipients]

\* Mutant: the field before the fee recipient.
ProofPathsFieldBefore ==
  << <<"proposer_index">>, <<"body", "execution_payload", "parent_hash">> >>

ProofPaths ==
  << <<"proposer_index">>, <<"body", "execution_payload", "fee_recipient">> >>

ProofOf(value) == MultiProve(BeaconBlock, value, ProofPaths)

=============================================================================
