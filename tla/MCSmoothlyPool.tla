--------------------------- MODULE MCSmoothlyPool ---------------------------
(***************************************************************************)
(* Instances of SmoothlyPool for TLC.                                      *)
(***************************************************************************)
EXTENDS SmoothlyPool, TLC

CONSTANTS v1, v2, alice, bob

\* Validators of alice: active ones of two effective balances, one that has
\* left the beacon chain and one whose credentials are a BLS key.
MCRecord(prefix, effectiveBalance, exitEpoch) ==
  [withdrawalCredentials |-> [prefix |-> prefix, account |-> alice],
   effectiveBalance |-> effectiveBalance, activationEpoch |-> 0, exitEpoch |-> exitEpoch]

MCRecords ==
  { MCRecord(1, 1, 100), MCRecord(1, 2, 100), MCRecord(1, 1, 0), MCRecord(BLS_PREFIX, 1, 100) }

\* The two validators are interchangeable: nothing orders them.
MCSymmetry == Permutations({v1, v2})

=============================================================================
