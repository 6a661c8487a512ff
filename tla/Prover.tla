------------------------------- MODULE Prover -------------------------------
(***************************************************************************)
(* The program prover: it asks a beacon node for the block of a slot and   *)
(* prints the proof that slashBadFeeRecipient takes.  The node may answer  *)
(* late, with a failure, with a text that is not the block, or never; the  *)
(* request has a timeout.  The types of the program are those of one fork: *)
(* the node may serve a block of another one.                              *)
(***************************************************************************)
EXTENDS BlockProofs

CONSTANTS
  TIMEOUT,            \* of a request
  NodeValue           \* the blocks of the node: of each its value

VARIABLES
  block,              \* the block of the slot: its fork and what is in it
  phase,              \* of the program
  elapsed,            \* time since the request was made, up to TIMEOUT
  text,               \* of the answer that the last run has read
  outcome,            \* how the last run ended
  printed             \* the proof it printed

vars == <<block, phase, elapsed, text, outcome, printed>>

-----------------------------------------------------------------------------
(* The beacon node.                                                        *)

\* The type with another type in the place of one of its fields.
WithField(type, name, other) ==
  Container([type.fields EXCEPT ![FieldNumber(type, name)] = <<name, other>>])

WithBody(body) == WithField(BeaconBlock, "body", body)

\* The fork of the types, in which a block has up to 16 withdrawals.
NodePayload == WithField(ExecutionPayload, "withdrawals", List(Withdrawal, Bits[16]))

CurrentBody == WithField(BeaconBlockBody, "execution_payload", NodePayload)

\* The fork before: neither blob gas nor commitments.
OlderBody ==
  Container(Front(WithField(CurrentBody, "execution_payload",
                    Container(SubSeq(NodePayload.fields, 1, 15))).fields))

\* A fork after, which adds a list to the body.
NewerBody ==
  Container(Append(CurrentBody.fields, <<"execution_requests", List(DepositData, MAX_DEPOSITS)>>))

\* Slashings under other names than the struct has.
OtherSlashings ==
  WithField(CurrentBody, "proposer_slashings",
    List(Container(<< <<"signed_header_1", SignedBeaconBlockHeader>>,
                      <<"signed_header_2", SignedBeaconBlockHeader>> >>),
         MAX_PROPOSER_SLASHINGS))

NodeType ==
  [ current |-> WithBody(CurrentBody), older    |-> WithBody(OlderBody),
    newer   |-> WithBody(NewerBody),   slashing |-> WithBody(OtherSlashings) ]

NodeBlock == [fork : DOMAIN NodeType, is : Block]

\* A block is any value of its type that has its proposer and its recipient; what
\* makes one of fork "slashing" is that there is a slashing.
ASSUME ProverAssumption ==
  /\ TIMEOUT \in Nat \ {0}
  /\ Proposers \cup Recipients \subseteq Nat
  /\ \A b \in NodeBlock :
       LET v == NodeValue[b]
       IN  /\ Fits(NodeType[b.fork], v)
           /\ v.proposer_index = b.is.proposer
           /\ v.body.execution_payload.fee_recipient = b.is.recipient
           /\ b.fork = "slashing" => v.body.proposer_slashings # <<>>

\* What the node answers with under the status of a success: the block, JSON that
\* lacks it, or no JSON at all, as a proxy may do.
Texts == {"block", "no_message", "no_data", "no_json"}

Object(names, json) == [kind |-> "object", members |-> [n \in names |-> json]]

Answered ==
  [ b \in NodeBlock |->
      [ t \in Texts |->
          CASE t = "block"      -> Object({"data"}, Object({"message"},
                                     Served(NodeType[b.fork], NodeValue[b])))
            [] t = "no_message" -> Object({"data"}, Object({}, Null))
            [] OTHER            -> Object({}, Null) ] ]

\* The root that BEACON_ROOTS has.
RootOfBlock == [b \in NodeBlock |-> TreeRoot(NodeType[b.fork], NodeValue[b])]

-----------------------------------------------------------------------------
(* The program.                                                            *)

NoProof == [indices |-> <<>>, branch |-> <<>>]

\* What becomes of an answer: a panic when an unwrap on the way fails, that of
\* from_str or one in from_json.
FromJson ==
  [ b \in NodeBlock |->
      [ t \in Texts |->
          LET message == Member(Member(Answered[b][t], "data"), "message")
          IN  IF t # "no_json" /\ Converts(BeaconBlock, message)
              THEN [outcome |-> "proof", printed |-> ProofOf(Converted(BeaconBlock, message))]
              ELSE [outcome |-> "panicked", printed |-> NoProof] ] ]

Init ==
  /\ block \in NodeBlock
  /\ phase = "idle"
  /\ elapsed = 0
  /\ text = "none"
  /\ outcome = "none"
  /\ printed = NoProof

End(how, proof) ==
  /\ phase' = "idle"
  /\ elapsed' = 0
  /\ outcome' = how
  /\ printed' = proof
  /\ UNCHANGED block

\* Somebody runs the program, for the first time or once more.
Run ==
  /\ phase = "idle"
  /\ phase' = "sending"
  /\ text' = "none"
  /\ outcome' = "none"
  /\ printed' = NoProof
  /\ UNCHANGED <<block, elapsed>>

\* The status of a success arrives; its text is still to come.
Success ==
  /\ phase = "sending"
  /\ phase' = "reading"
  /\ UNCHANGED <<block, elapsed, text, outcome, printed>>

\* Any other status: the text is not read.
Failure == phase = "sending" /\ End("unsuccessful", NoProof) /\ UNCHANGED text

Read ==
  /\ phase = "reading"
  /\ text' \in Texts
  /\ End(FromJson[block][text'].outcome, FromJson[block][text'].printed)

\* The connection is refused or lost: both calls return their error.
Lost == phase \in {"sending", "reading"} /\ End("error", NoProof) /\ UNCHANGED text

Tick ==
  /\ phase \in {"sending", "reading"}
  /\ elapsed < TIMEOUT
  /\ elapsed' = elapsed + 1
  /\ UNCHANGED <<block, phase, text, outcome, printed>>

\* Mutant: a timeout that ends with the arrival of the status.
TimeOutOfSending ==
  phase = "sending" /\ elapsed = TIMEOUT /\ End("error", NoProof) /\ UNCHANGED text

\* The timeout covers the request up to the last byte of the text.
TimeOut ==
  /\ phase \in {"sending", "reading"}
  /\ elapsed = TIMEOUT
  /\ End("error", NoProof)
  /\ UNCHANGED text

Next == Run \/ Success \/ Failure \/ Read \/ Lost \/ Tick \/ TimeOut

\* Time passes and the timer of the client fires; nobody has to run the program,
\* and the node has to do nothing.
Spec == Init /\ [][Next]_vars /\ WF_vars(Tick) /\ WF_vars(TimeOut)

-----------------------------------------------------------------------------
(* Properties.                                                             *)

\* Every run ends, also when the node accepts the request and never answers, or
\* answers and stops in the middle (main.rs:30-31).
EveryRunEnds == phase # "idle" ~> phase = "idle"

\* verifyFeeRecipient accepts a printed proof of the proposer and the recipient
\* of the block when the block is of the fork of the types; the proof printed of
\* a block with an unknown field, which from_json passes over, is refused.
PrintedIsAccepted ==
  outcome = "proof" =>
    (block.fork = "current" <=>
       CalculateMultiMerkleRoot(EmptyMap, printed.branch, Leaves(block.is), printed.indices).root
         = RootOfBlock[block])

\* A panic is the end of an answer without the block (main.rs:42-43), or of a block
\* whose JSON lacks a key that from_json asks for: an older one, or one with a
\* slashing; never of a block of the fork, though it has all withdrawals it can have.
OnlyIncompletePanics ==
  outcome = "panicked" => text # "block" \/ block.fork \in {"older", "slashing"}

=============================================================================
