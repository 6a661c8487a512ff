\* Blocks of three forks and with a slashing; a timeout of three units.
CONSTANTS
  TIMEOUT = 3
  Proposers = {1, 2}
  Recipients = {1, 2}
CONSTANT NodeValue <- MCNodeValue
SPECIFICATION Spec
INVARIANTS
  PrintedIsAccepted
  OnlyIncompletePanics
PROPERTY EveryRunEnds
