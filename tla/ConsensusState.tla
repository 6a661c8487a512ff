--------------------------- MODULE ConsensusState ---------------------------
(***************************************************************************)
(* The crate consensus_types, state: the beacon state, and the block       *)
(* header that has the state in the place of its root.                     *)
(***************************************************************************)
EXTENDS ConsensusTypes

SLOTS_PER_HISTORICAL_ROOT == 8192
SLOTS_PER_EPOCH == 32
EPOCHS_PER_ETH1_VOTING_PERIOD == 64

\* Mutant: the limit is what a word of 32 bits can count.
VALIDATOR_REGISTRY_LIMITOf32Bits == {32}

VALIDATOR_REGISTRY_LIMIT == {40}

EPOCHS_PER_HISTORICAL_VECTOR == 65536
EPOCHS_PER_SLASHINGS_VECTOR == 8192
JUSTIFICATION_BITS_LENGTH == 4
HISTORICAL_ROOTS_LIMIT == Bits[16777216]
MAX_ETH1_DATA_VOTES == Bits[EPOCHS_PER_ETH1_VOTING_PERIOD * SLOTS_PER_EPOCH]

Fork ==
  Container(<< <<"previous_version", ByteVector(4)>>, <<"current_version", ByteVector(4)>>,
               <<"epoch", U64>> >>)

HistoricalSummary ==
  Container(<< <<"block_summary_root", Bytes32>>, <<"state_summary_root", Bytes32>> >>)

SyncCommittee ==
  Container(<< <<"pubkeys", Vector(Bytes48, SYNC_COMMITTEE_SIZE)>>,
               <<"aggregate_pubkey", Bytes48>> >>)

\* Mutant: the last two epochs change places.
ValidatorSwapped ==
  Container(<< <<"pubkey", Bytes48>>, <<"withdrawal_credentials", Bytes32>>,
               <<"effective_balance", U64>>, <<"slashed", Boolean>>,
               <<"activation_eligibility_epoch", U64>>, <<"activation_epoch", U64>>,
               <<"withdrawable_epoch", U64>>, <<"exit_epoch", U64>> >>)

Validator ==
  Container(<< <<"pubkey", Bytes48>>, <<"withdrawal_credentials", Bytes32>>,
               <<"effective_balance", U64>>, <<"slashed", Boolean>>,
               <<"activation_eligibility_epoch", U64>>, <<"activation_epoch", U64>>,
               <<"exit_epoch", U64>>, <<"withdrawable_epoch", U64>> >>)

\* Participation flags are one byte, and numbers in JSON.
PerValidator(type) == List(type, VALIDATOR_REGISTRY_LIMIT)

BeaconState ==
  Container(
    << <<"genesis_time", U64>>, <<"genesis_validators_root", Bytes32>>, <<"slot", U64>>,
       <<"fork", Fork>>, <<"latest_block_header", BeaconBlockHeader>>,
       <<"block_roots", Vector(Bytes32, SLOTS_PER_HISTORICAL_ROOT)>>,
       <<"state_roots", Vector(Bytes32, SLOTS_PER_HISTORICAL_ROOT)>>,
       <<"historical_roots", List(Bytes32, HISTORICAL_ROOTS_LIMIT)>>,
       <<"eth1_data", Eth1Data>>, <<"eth1_data_votes", List(Eth1Data, MAX_ETH1_DATA_VOTES)>>,
       <<"eth1_deposit_index", U64>>, <<"validators", PerValidator(Validator)>>,
       <<"balances", PerValidator(U64)>>,
       <<"randao_mixes", Vector(Bytes32, EPOCHS_PER_HISTORICAL_VECTOR)>>,
       <<"slashings", Vector(U64, EPOCHS_PER_SLASHINGS_VECTOR)>>,
       <<"previous_epoch_participation", PerValidator(Unsigned(8))>>,
       <<"current_epoch_participation", PerValidator(Unsigned(8))>>,
       <<"justification_bits", Bitvector(JUSTIFICATION_BITS_LENGTH)>>,
       <<"previous_justified_checkpoint", Checkpoint>>,
       <<"current_justified_checkpoint", Checkpoint>>, <<"finalized_checkpoint", Checkpoint>>,
       <<"inactivity_scores", PerValidator(U64)>>,
       <<"current_sync_committee", SyncCommittee>>, <<"next_sync_committee", SyncCommittee>>,
       <<"latest_execution_payload_header", ExecutionPayloadHeader>>,
       <<"next_withdrawal_index", U64>>, <<"next_withdrawal_validator_index", U64>>,
       <<"historical_summaries", List(HistoricalSummary, HISTORICAL_ROOTS_LIMIT)>> >>)

BeaconBlockState ==
  Container(<< <<"slot", U64>>, <<"proposer_index", U64>>, <<"parent_root", Bytes32>>,
               <<"beacon_state", BeaconState>>, <<"body_root", Bytes32>> >>)

=============================================================================
