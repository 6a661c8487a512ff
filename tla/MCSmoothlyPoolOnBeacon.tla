----------------------- MODULE MCSmoothlyPoolOnBeacon -----------------------
(***************************************************************************)
(* An instance of SmoothlyPoolOnBeacon for TLC: one validator, whose       *)
(* activation and exit may be announced.                                   *)
(***************************************************************************)
EXTENDS SmoothlyPoolOnBeacon

CONSTANTS v1, v3, alice, bob

MCRecord(activationEpoch, exitEpoch) ==
  [withdrawalCredentials |-> [prefix |-> 1, account |-> alice],
   effectiveBalance |-> 1, activationEpoch |-> activationEpoch, exitEpoch |-> exitEpoch]

MCRecords ==
  { MCRecord(FAR_FUTURE_EPOCH, FAR_FUTURE_EPOCH), MCRecord(3, FAR_FUTURE_EPOCH), MCRecord(3, 5) }

=============================================================================
