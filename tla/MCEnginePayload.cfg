SPECIFICATION Spec
CONSTANTS
  R = R
  W = W
  Deposit = Deposit
  None = None
  ZeroRoot = ZeroRoot
  Roots <- MCRoots
  Logs <- MCLogs
  Batches <- MCBatches
  PoolTxs <- MCPoolTxs
  Withdrawals <- MCWithdrawals
  Timestamps = {1, 2}
  Prague = 2
  GasLimits = {0, 4}
  GenesisGasLimit = 2
  BoundDivisor = 1
  MinGasLimit = 1
  MaxHeight = 3
  MaxOrphans = 1
INVARIANTS BuiltBlockReturns OnlyRootSubstituted ReexecutionAgrees
