CONSTANTS
  alice = alice
  bob = bob
  Zero = Zero
  Mint = Mint
  Proxy = Proxy
  Vault = Vault
  Addr = {alice, bob, Zero, Mint, Proxy, Vault}
  User = {alice, bob}
  Funds <- MCFunds
  Values = {0, 1}
  Calls <- MCCalls
  Batches <- MCBatches
  Vaults <- MCVaults
  MaxWord = 5
  FullShare = 2
  MintActivation = 1
  MaxHeight = 1
  MaxTxs = 4
SPECIFICATION Spec
PROPERTY AllowlistByOwner
