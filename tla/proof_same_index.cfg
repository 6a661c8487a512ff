\* One call of the pool in a transaction, with indices that the caller chooses.
CONSTANTS
  MaxCalls = 1
  Proposers = {1, 2}
  Recipients = {1, 2}
CONSTANT Proposals <- Block
CONSTANT BlockTree <- MCBlockTree
CONSTANT Requests <- MCRequests
SPECIFICATION SpecCalls
INVARIANTS
  AcceptedIsProven
