---------------------------- MODULE BlankValues ----------------------------
(***************************************************************************)
(* Values of the Rust types that TLC takes for what blocks and states may  *)
(* hold: blank ones, in which the fields that matter are set.              *)
(***************************************************************************)
EXTENDS ConsensusTypes

\* The value whose bytes are zero, with nothing in its lists.
RECURSIVE Blank(_)
Blank(type) ==
  CASE type.kind = "unsigned"   -> 0
    [] type.kind = "boolean"    -> FALSE
    [] type.kind = "byteVector" -> IF type.length = 32 THEN ZERO ELSE 0
    [] type.kind = "byteList"   -> [length |-> type.least, bytes |-> 0]
    [] type.kind = "vector"     -> <<Blank(type.element)>>
    [] type.kind = "list"       -> <<>>
    [] type.kind = "container"  -> [n \in Names(type) |-> Blank(FieldType(type, n))]

\* Block `b' as a value of a type of blocks, with all the withdrawals that a
\* block can have.
BlankBlock(type, b) ==
  [ Blank(type) EXCEPT
      !.proposer_index = b.proposer,
      !.body.execution_payload.fee_recipient = b.recipient,
      !.body.execution_payload.withdrawals = [i \in 1 .. 16 |-> Blank(Withdrawal)] ]

=============================================================================
