------------------------ MODULE SmoothlyPoolOnBeacon ------------------------
(***************************************************************************)
(* The pool together with the beacon chain its evidence comes from: the    *)
(* blocks with their proposers, fee recipients and validator records, and  *)
(* the contract BEACON_ROOTS of EIP-4788, which keeps the root of the      *)
(* parent of each recent block in a ring buffer.                           *)
(*                                                                         *)
(* Calls that need a proof are here given the timestamp the caller chooses *)
(* and see what the block behind its root says: the callers of this module *)
(* send the proofs that the prover makes, each in a transaction of its own *)
(* (what others can bring through is the subject of FeeRecipientProofs).   *)
(* The chain before the pool was deployed is left out.                     *)
(***************************************************************************)
EXTENDS SmoothlyPool

CONSTANTS
  HISTORY,            \* entries of the ring buffer
  Others,             \* proposers that are not validators of the model
  Recipients,         \* fee recipients of blocks
  FAR_FUTURE_EPOCH    \* what an epoch reads before it is announced

ASSUME BeaconAssumption ==
  /\ HISTORY \in Nat \ {0}
  /\ PoolAddress \in Recipients
  /\ Recipients \subseteq Account \cup {PoolAddress}
  /\ FAR_FUTURE_EPOCH \in Nat
  /\ DeployTime <= MaxTime
  /\ \A t \in DeployTime .. MaxTime : GetEpoch(t) < FAR_FUTURE_EPOCH

VARIABLES
  head,               \* the block the transactions are in
  roots               \* the ring buffer of BEACON_ROOTS

chain == <<head, roots>>

BeaconBlock ==
  [ timestamp : Nat,
    proposer  : ValidatorIndex \cup Others,
    recipient : Recipients,
    records   : [ValidatorIndex -> BeaconRecords] ]

\* A validator keeps its credentials; its activation and its exit are announced
\* once each, and ahead.
Evolves(old, new, timestamp) ==
  /\ new.withdrawalCredentials = old.withdrawalCredentials
  /\ new.activationEpoch # old.activationEpoch =>
       old.activationEpoch = FAR_FUTURE_EPOCH /\ new.activationEpoch > GetEpoch(timestamp)
  /\ new.exitEpoch # old.exitEpoch =>
       old.exitEpoch = FAR_FUTURE_EPOCH /\ new.exitEpoch > GetEpoch(timestamp)

\* Mutant: whatever root comes back is taken.
FoundAny(ts) == roots[ts % HISTORY].timestamp > 0

\* The root of `ts' is found while the entry still is that of `ts'.
Found(ts) == roots[ts % HISTORY].timestamp = ts

ParentBlock(ts) == roots[ts % HISTORY].parent

InitOnBeacon ==
  /\ Init
  /\ \E proposer \in ValidatorIndex \cup Others, recipient \in Recipients,
        records \in [ValidatorIndex -> BeaconRecords] :
       head = [timestamp |-> now, proposer |-> proposer, recipient |-> recipient,
               records |-> records]
  /\ roots = [i \in 0 .. HISTORY - 1 |-> [timestamp |-> 0, parent |-> head]]

\* A block comes, some slots having been missed or not; before its transactions
\* run the root of its parent is stored.
NewBlock ==
  /\ Tick
  /\ \E proposer \in ValidatorIndex \cup Others, recipient \in Recipients,
        records \in [ValidatorIndex -> BeaconRecords] :
       /\ \A v \in ValidatorIndex : Evolves(head.records[v], records[v], now')
       /\ head' = [timestamp |-> now', proposer |-> proposer, recipient |-> recipient,
                   records |-> records]
  /\ roots' = [roots EXCEPT ![now' % HISTORY] = [timestamp |-> now', parent |-> head]]

RegisterOnBeacon(v, ts, value) ==
  /\ Found(ts)
  /\ Register(v, ParentBlock(ts).records[v], value)
  /\ UNCHANGED chain

WithdrawOnBeacon(v, ts) ==
  /\ Found(ts)
  /\ ParentBlock(ts).proposer = v
  /\ ParentBlock(ts).recipient = PoolAddress
  /\ Withdraw(v, ts)
  /\ UNCHANGED chain

UpdateOnBeacon(v, ts) ==
  /\ Found(ts)
  /\ UpdateValidator(v, ParentBlock(ts).records[v])
  /\ UNCHANGED chain

SlashOnBeacon(v, ts, sender) ==
  /\ Found(ts)
  /\ ParentBlock(ts).proposer = v
  /\ SlashBadFeeRecipient(v, ParentBlock(ts).recipient, sender)
  /\ UNCHANGED chain

\* What needs no evidence.
Unproven ==
  /\ \/ Rebalance
     \/ \E value \in Deposits : Receive(value) \/ DonateETH(value)
     \/ \E v \in ValidatorIndex, sender \in Account : Exit(v, sender)
  /\ UNCHANGED chain

NextOnBeacon ==
  \/ NewBlock
  \/ Unproven
  \/ \E v \in ValidatorIndex, ts \in DeployTime .. now :
       \/ \E value \in Deposits : RegisterOnBeacon(v, ts, value)
       \/ WithdrawOnBeacon(v, ts)
       \/ UpdateOnBeacon(v, ts)
       \/ \E sender \in Account : SlashOnBeacon(v, ts, sender)

SpecOnBeacon == InitOnBeacon /\ [][NextOnBeacon]_<<vars, chain>>

-----------------------------------------------------------------------------
(* Properties.                                                             *)

\* Evidence lags behind and keeps its order: the block whose root is found at
\* a timestamp was proposed before it, and at a later timestamp one finds a
\* later block, though the buffer is reused and slots are missed, which lets
\* an entry live longer than HISTORY.
EvidenceIsOrdered ==
  \A ts, later \in DeployTime .. now :
    Found(ts) /\ Found(later) =>
      /\ ParentBlock(ts).timestamp < ts
      /\ ts < later => ts <= ParentBlock(later).timestamp

\* A validator that updateValidator removes because of its exit has exited at the
\* time of the call, however old the record is that anybody chose to show: the
\* epochs are compared with the present, and an exit is not called off.  (A
\* record from before the activation of the validator removes it as well, by
\* its activation epoch, and is left out here.)
ExitEvidenceHolds ==
  [][\A v \in ValidatorIndex, ts \in DeployTime .. now :
       /\ UpdateOnBeacon(v, ts)
       /\ validators'[v].start = 0
       /\ ParentBlock(ts).records[v].activationEpoch <= GetEpoch(now)
       => head.records[v].exitEpoch <= GetEpoch(now)]_vars

-----------------------------------------------------------------------------
(* What the documentation says and the code does not do.                   *)

\* "Therefore a user that joins the pool, will have to propose a block with the
\* fee_recipient set to the pool address in order to claim rewards"
\* (src/README.md:66): a withdrawal is backed by a block proposed since the
\* validator joined.
ClaimsNeedABlockSinceJoining ==
  [][\A v \in ValidatorIndex, ts \in DeployTime .. now :
       WithdrawOnBeacon(v, ts) => ParentBlock(ts).timestamp >= validators[v].start]_vars

\* "This proof serves as verifiable evidence that the validator violated the
\* protocol" (src/README.md:287): a validator is slashed only for what it did
\* in the pool.
SlashedForBlocksInThePool ==
  [][\A v \in ValidatorIndex, ts \in DeployTime .. now, sender \in Account :
       SlashOnBeacon(v, ts, sender) => ParentBlock(ts).timestamp >= validators[v].start]_vars

\* "Verifies validatorIndex is included and active in the beacon chain"
\* (src/src/SmoothlyPoolV2.sol:70): a validator that registers is active in the
\* block in which it registers.
RegisteredAreActive ==
  [][\A v \in ValidatorIndex, ts \in DeployTime .. now, value \in Deposits :
       RegisterOnBeacon(v, ts, value) => IsActiveValidator(head.records[v], now)]_vars

=============================================================================
