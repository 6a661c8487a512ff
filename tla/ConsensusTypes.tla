--------------------------- MODULE ConsensusTypes ---------------------------
(***************************************************************************)
(* The crate consensus_types, blocks: every struct is the sequence of its  *)
(* fields, whose names are also the keys that its from_json asks for.      *)
(***************************************************************************)
EXTENDS SimpleSerialize

MAX_PROPOSER_SLASHINGS == Bits[16]
MAX_ATTESTER_SLASHINGS == Bits[2]
MAX_ATTESTATIONS == Bits[128]
MAX_DEPOSITS == Bits[16]
MAX_VOLUNTARY_EXITS == Bits[16]
MAX_VALIDATORS_PER_COMMITTEE == Bits[2048]
SYNC_COMMITTEE_SIZE == 512
BYTES_PER_LOGS_BLOOM == 256
MAX_EXTRA_DATA_BYTES == Bits[32]
MAX_BYTES_PER_TRANSACTION == Bits[1073741824]
MAX_BLOB_COMMITMENTS_PER_BLOCK == Bits[4096]
MAX_BLS_TO_EXECUTION_CHANGES == Bits[16]
MAX_TRANSACTIONS_PER_PAYLOAD == Bits[1048576]
MAX_WITHDRAWALS_PER_PAYLOAD == Bits[16]

U64 == Unsigned(64)
U256 == Unsigned(256)
Bytes32 == ByteVector(32)
Bytes48 == ByteVector(48)
ExecutionAddress == ByteVector(20)
BLSSignature == ByteVector(96)
Transaction == ByteList(MAX_BYTES_PER_TRANSACTION)

-----------------------------------------------------------------------------
(* The parts of a block body.                                              *)

BeaconBlockHeader ==
  Container(<< <<"slot", U64>>, <<"proposer_index", U64>>, <<"parent_root", Bytes32>>,
               <<"state_root", Bytes32>>, <<"body_root", Bytes32>> >>)

SignedBeaconBlockHeader ==
  Container(<< <<"message", BeaconBlockHeader>>, <<"signature", BLSSignature>> >>)

ProposerSlashings ==
  Container(<< <<"signed_header1", SignedBeaconBlockHeader>>,
               <<"signed_header2", SignedBeaconBlockHeader>> >>)

AttesterSlashings ==
  Container(<< <<"signed_header1", SignedBeaconBlockHeader>>,
               <<"signed_header2", SignedBeaconBlockHeader>> >>)

Eth1Data ==
  Container(<< <<"deposit_root", Bytes32>>, <<"deposit_count", U64>>, <<"block_hash", Bytes32>> >>)

Checkpoint == Container(<< <<"epoch", U64>>, <<"root", Bytes32>> >>)

AttestationData ==
  Container(<< <<"slot", U64>>, <<"index", U64>>, <<"beacon_block_root", Bytes32>>,
               <<"source", Checkpoint>>, <<"target", Checkpoint>> >>)

Attestation ==
  Container(<< <<"aggregation_bits", Bitlist(MAX_VALIDATORS_PER_COMMITTEE)>>,
               <<"data", AttestationData>>, <<"signature", BLSSignature>> >>)

VoluntaryExit == Container(<< <<"epoch", U64>>, <<"validator_index", U64>> >>)

SignedVoluntaryExit ==
  Container(<< <<"message", VoluntaryExit>>, <<"signature", BLSSignature>> >>)

DepositData ==
  Container(<< <<"pubkey", Bytes48>>, <<"withdrawal_credentials", Bytes32>>, <<"amount", U64>> >>)

Deposit == Container(<< <<"proof", Vector(Bytes32, 33)>>, <<"data", DepositData>> >>)

SyncAggregate ==
  Container(<< <<"sync_committee_bits", Bitvector(SYNC_COMMITTEE_SIZE)>>,
               <<"sync_committee_signature", BLSSignature>> >>)

Withdrawal ==
  Container(<< <<"index", U64>>, <<"validator_index", U64>>, <<"address", ExecutionAddress>>,
               <<"amount", U64>> >>)

BLSToExecutionChange ==
  Container(<< <<"validator_index", U64>>, <<"from_bls_pubkey", Bytes48>>,
               <<"to_execution_address", ExecutionAddress>> >>)

SignedBLSToExecutionChange ==
  Container(<< <<"message", BLSToExecutionChange>>, <<"signature", BLSSignature>> >>)

-----------------------------------------------------------------------------
(* The payload: in full as a block has it, in part as the state keeps it.  *)

PayloadStart ==
  << <<"parent_hash", Bytes32>>, <<"fee_recipient", ExecutionAddress>>,
     <<"state_root", Bytes32>>, <<"receipts_root", Bytes32>>,
     <<"logs_bloom", ByteVector(BYTES_PER_LOGS_BLOOM)>>, <<"prev_randao", Bytes32>>,
     <<"block_number", U64>>, <<"gas_limit", U64>>, <<"gas_used", U64>>, <<"timestamp", U64>>,
     <<"extra_data", ByteList(MAX_EXTRA_DATA_BYTES)>>, <<"base_fee_per_gas", U256>>,
     <<"block_hash", Bytes32>> >>

BlobGas == << <<"blob_gas_used", U64>>, <<"excess_blob_gas", U64>> >>

ExecutionPayload ==
  Container(PayloadStart \o
            << <<"transactions", List(Transaction, MAX_TRANSACTIONS_PER_PAYLOAD)>>,
               <<"withdrawals", List(Withdrawal, MAX_WITHDRAWALS_PER_PAYLOAD)>> >> \o BlobGas)

\* Mutant: the roots of transactions and withdrawals change places.
ExecutionPayloadHeaderSwapped ==
  Container(PayloadStart \o
            << <<"withdrawals_root", Bytes32>>, <<"transactions_root", Bytes32>> >> \o BlobGas)

ExecutionPayloadHeader ==
  Container(PayloadStart \o
            << <<"transactions_root", Bytes32>>, <<"withdrawals_root", Bytes32>> >> \o BlobGas)

-----------------------------------------------------------------------------
(* Blocks.                                                                 *)

BeaconBlockBody ==
  Container(
    << <<"randao_reveal", BLSSignature>>, <<"eth1_data", Eth1Data>>, <<"graffiti", Bytes32>>,
       <<"proposer_slashings", List(ProposerSlashings, MAX_PROPOSER_SLASHINGS)>>,
       <<"attester_slashings", List(AttesterSlashings, MAX_ATTESTER_SLASHINGS)>>,
       <<"attestations", List(Attestation, MAX_ATTESTATIONS)>>,
       <<"deposits", List(Deposit, MAX_DEPOSITS)>>,
       <<"voluntary_exits", List(SignedVoluntaryExit, MAX_VOLUNTARY_EXITS)>>,
       <<"sync_aggregate", SyncAggregate>>, <<"execution_payload", ExecutionPayload>>,
       <<"bls_to_execution_changes",
         List(SignedBLSToExecutionChange, MAX_BLS_TO_EXECUTION_CHANGES)>>,
       <<"blob_kzg_commitments", List(Bytes48, MAX_BLOB_COMMITMENTS_PER_BLOCK)>> >>)

BeaconBlock ==
  Container(<< <<"slot", U64>>, <<"proposer_index", U64>>, <<"parent_root", Bytes32>>,
               <<"state_root", Bytes32>>, <<"body", BeaconBlockBody>> >>)

=============================================================================
