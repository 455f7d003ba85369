SPECIFICATION Spec
CONSTANTS
  A = A
  B = B
  S = S
  Q = Q
  X = X
  Opaque <- MCOpaque
  K = K
  None = None
  Invalid = Invalid
  Stranger = Stranger
  Parity <- MCParity
  MaxWord = 7
  Executor <- MCExecutor
  Sponsor = S
  LocalSponsor = Q
  MaxRequests = 2
  Jobs <- MCJobs
  chainId = 1
  maxGasLimitPerTx = 2
  maxFeePerGasLimit = 1
  minSponsorBalance = 6
  gasPrice = 1
  Genesis <- MCGenesis
  MaxFaults = 1
CHECK_DEADLOCK FALSE
INVARIANTS SignersAgree ChargesAreApproved ReportsAreTrue OverdraftIsBounded RefusedIsUnsponsored
PROPERTIES EventuallyAnswered
