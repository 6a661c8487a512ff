\* Two calls of the pool in a transaction.
CONSTANTS
  MaxCalls = 2
  Proposers = {1, 2}
  Recipients = {1, 2}
CONSTANT Proposals <- Block
CONSTANT BlockTree <- MCBlockTree
CONSTANT Requests <- MCRequests
SPECIFICATION SpecCalls
INVARIANTS
  RightIsAccepted
