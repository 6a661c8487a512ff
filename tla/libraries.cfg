\* Words around the boundaries of 32 bits, short arrays, two values a field;
\* correct proofs in a tree of eight leaves, every proof in one of four;
\* two calls of the pool in a transaction.
CONSTANTS
  Step = 8
  Items = {0, 1, 2, 3}
  MaxSort = 6
  MaxFirst = 4
  MaxSecond = 2
  Values = {0, 1}
  Height = 2
  TallHeight = 3
  XorLimit = 8
  MaxCalls = 2
  Proposers = {1, 2}
  Recipients = {1, 2}
CONSTANT Samples <- MCSamples
CONSTANT Gindices <- MCGindices
CONSTANT SortInputs <- MCSortInputs
CONSTANT FirstArrays <- MCFirstArrays
CONSTANT SecondArrays <- MCSecondArrays
CONSTANT Records <- MCRecords
CONSTANT Pivots <- MCPivots
CONSTANT Headers <- MCHeaders
CONSTANT Withdrawals <- MCWithdrawals
CONSTANT Blocks <- MCBlocks
CONSTANT Trees <- MCTrees
CONSTANT Proofs <- MCProofs
CONSTANT Proposals <- Block
CONSTANT BlockTree <- MCBlockTree
CONSTANT Requests <- MCRequests
SPECIFICATION SpecAll
INVARIANTS
  Log2IsHighestBit
  LittleEndianReversesBytes
  ConcatIsDescent
  IndicesArePaths
  DebugToolAgrees
  SortReverseSorts
  DifferenceIsExact
  FieldsAreLeaves
  RootsDistinguish
  RootsAgree
  ViewsShareRoot
  SingleProofIsExact
  MultiProofIsExact
  HelpersAreMissingSiblings
  VerifyProofAgrees
  ToolAgrees
  FirstProofIsExact
  RightOrMet
