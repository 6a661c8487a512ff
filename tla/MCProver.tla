------------------------------ MODULE MCProver ------------------------------
(***************************************************************************)
(* An instance of Prover for TLC: blocks with all the withdrawals that a   *)
(* block can have, and else blank.                                         *)
(***************************************************************************)
EXTENDS Prover, BlankValues

MCNodeValue ==
  [ b \in NodeBlock |->
      LET value == BlankBlock(NodeType[b.fork], b.is)
          slashings == FieldType(OtherSlashings, "proposer_slashings")
      IN  IF b.fork = "slashing"
          THEN [value EXCEPT !.body.proposer_slashings = <<Blank(slashings.element)>>]
          ELSE value ]

=============================================================================
