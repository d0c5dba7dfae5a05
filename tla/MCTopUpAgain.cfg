\* A run that is repeated after its bond has been paid.
SPECIFICATION ClientSpec
CONSTANTS
  Serials = {c1}
  Wallets = {alice, bob}
  Values = {2}
  U64Max = 100000
  MintAuthority = authority
  BondBps = 15000
  Window = 2
  MaxLinks = 3
  DefaultAllowance = 2
  VaultPda = vaultpda
  NoWallet = none
  Funds <- MCFunds
  Amounts = {2}
  Caps = {}
  LinkBatches <- MCLinkBatches
  MCOwners = {alice, bob}
  MCMaxChain = 4
  MCMintValues = {2}
  MCBroken = FALSE
  MCReserve = 2
  MCRich = {}
  MCWalletFunds = 3
  Clients = {k1}
  CoinOf <- MCCoinOf
  CheckerOf <- MCCheckerOf
  BondSlack = 1
  BondTopUp = 2
  MaxTries = 3
  MaxRuns = 2
  MaxFaults = 1
  Rivals = {}
  MCOwner = bob
  MCRecipient = alice
  MCLength = 3
  MCChecker = alice
PROPERTIES TopUpOnlyWhenNeeded
CHECK_DEADLOCK FALSE
