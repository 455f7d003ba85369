SPECIFICATION Spec

CONSTANTS
  alice = alice
  sponsor = sponsor
  vault = vault
  contract = contract
  None = None
  Create = Create
  Address <- MCAddress
  Deployed = contract
  HasCode <- MCHasCode
  DeployAllowlist <- MCAllowlist
  ActivationHeight = 2
  MaxU256 = 40
  Txs <- MCTxs
  Envs <- MCEnvs
  Genesis <- MCGenesis
  GasUses <- MCGasUses
  Refunds <- MCRefunds

INVARIANT
  SpendingFitsWord
