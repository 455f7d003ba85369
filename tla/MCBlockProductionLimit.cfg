CONSTANTS
  alice = alice
  bob = bob
  None = None
  Account = {alice, bob}
  Txs <- MCTxs
  Batches <- MCBatches
  Timestamps = {0, 1}
  GasLimits = {0, 9, 12}
  GenesisGasLimit = 8
  GenesisTimestamp = 1
  DefaultCap = 30
  BoundDivisor = 4
  MinGasLimit = 5
  MaxBlocks = 3
  MaxJobs = 1
SPECIFICATION Spec
INVARIANTS CustomGasLimitsImport
