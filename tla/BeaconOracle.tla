---------------------------- MODULE BeaconOracle ----------------------------
(***************************************************************************)
(* The pure part of contract BeaconOracle: what the pool computes from a   *)
(* beacon chain validator record once a Merkle proof has shown the record  *)
(* to be in the beacon state.                                              *)
(*                                                                         *)
(* Withdrawal credentials are 32 bytes of which the code looks at two      *)
(* parts: the first byte (prefix) and the low 20 bytes (account).          *)
(***************************************************************************)
EXTENDS Integers

CONSTANTS
  BEACON_GENESIS,     \* timestamp of the first slot
  SECONDS_PER_EPOCH   \* length of an epoch in units of block.timestamp

ASSUME OracleAssumption ==
  /\ BEACON_GENESIS \in Nat
  /\ SECONDS_PER_EPOCH \in Nat \ {0}

BLS_PREFIX == 0       \* 0x00: credentials are a hash of a BLS key

\* The fields of a BeaconChainValidator the pool reads.
BeaconChainValidator(Accounts) ==
  [ withdrawalCredentials : [prefix : Nat, account : Accounts],
    effectiveBalance      : Nat,
    activationEpoch       : Nat,
    exitEpoch             : Nat ]

GetEpoch(timestamp) == (timestamp - BEACON_GENESIS) \div SECONDS_PER_EPOCH

\* Mutant: a validator counts as inactive an epoch before its exit.
IsActiveValidatorUntilExit(record, timestamp) ==
  LET epoch == GetEpoch(timestamp)
  IN  record.activationEpoch <= epoch /\ record.exitEpoch > epoch + 1

IsActiveValidator(record, timestamp) ==
  LET epoch == GetEpoch(timestamp)
  IN  record.activationEpoch <= epoch /\ record.exitEpoch > epoch

\* withdrawalToAddress reverts on a BLS credential, otherwise it keeps the
\* low 20 bytes, whatever the prefix is.
HasWithdrawalAddress(credentials) == credentials.prefix # BLS_PREFIX

WithdrawalToAddress(credentials) == credentials.account

=============================================================================
