CONSTANTS
  zero = zero
  factory = factory
  proxy = proxy
  permit2 = permit2
  None = None
  Torn = Torn
  Chains = {1, 2}
  Accounts = {zero, factory, proxy, permit2}
  ZeroAddress = zero
  DETERMINISTIC_DEPLOYER = factory
  AdminProxyAddress = proxy
  Permit2Address = permit2
  DevChain = 1
  Salts = {"s1", "s2"}
  Configs <- MCConfigs
  Templates <- MCTemplates
  Genesis <- MCGenesis
  MaxEdits = 1
  MaxFaults = 2
SPECIFICATION Spec
INVARIANTS OneDeployment RecordsAreTrue
PROPERTIES ImplementsDeployOnce MergeKeepsAccounts EventuallyVerified
