SPECIFICATION Spec
CONSTANTS
  A = A
  B = B
  C = C
  Zero = Zero
  None = None
  Invalid = Invalid
  Account <- MCAccount
  DefaultBaseFee = 1
  DefaultParams <- MCParams
  DefaultSizeLimit = 5
  MaxAllowlistLen = 2
  TxGasCap = 1
  Files <- MCFiles
  Txs <- MCTxs
  Genesis <- MCGenesis
  GasLimits = {0, 3}
  GenesisLimit = 4
  Timestamps = {0, 1}
  Recipients <- MCRecipients
  Randaos = {1}
  BlobGas = {0, 2}
  BlobTarget = 1
  DefaultCap = 4
  MaxBytes = 4
  MaxHeight = 2
  MaxExcess = 1
  MaxFaults = 1
INVARIANTS ComponentsAgree EnvironmentsAgree ValidatorsAgree
PROPERTIES BatchIsExecutable EventuallyIncluded
