\* A registration of a validator that has left the beacon chain.
CONSTANTS
  v1 = v1
  v3 = v3
  alice = alice
  bob = bob
  ValidatorIndex = {v1}
  Others = {v3}
  Account = {alice, bob}
  Payable = {alice, bob}
  NoAccount = NoAccount
  PoolAddress = PoolAddress
  Recipients = {alice, PoolAddress}
  BEACON_GENESIS = 0
  SECONDS_PER_EPOCH = 1
  REBALANCE_PERIOD = 2
  BOND = 1
  BPS = 10
  Deposits = {1}
  MaxBalance = 2
  DeployTime = 1
  MaxTime = 6
  HISTORY = 3
  FAR_FUTURE_EPOCH = 100
CONSTANT BeaconRecords <- MCRecords
SPECIFICATION SpecOnBeacon
PROPERTY RegisteredAreActive
