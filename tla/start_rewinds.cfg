\* A withdrawal moves the start of a validator back.
CONSTANTS
  v1 = v1
  v2 = v2
  alice = alice
  bob = bob
  ValidatorIndex = {v1, v2}
  Account = {alice, bob}
  Payable = {alice, bob}
  NoAccount = NoAccount
  PoolAddress = PoolAddress
  BEACON_GENESIS = 0
  SECONDS_PER_EPOCH = 1
  REBALANCE_PERIOD = 2
  BOND = 2
  BPS = 10
  Deposits = {2, 3}
  MaxBalance = 5
  DeployTime = 1
  MaxTime = 7
CONSTANT BeaconRecords <- MCRecords
SPECIFICATION Spec
PROPERTY StartNeverRewinds
