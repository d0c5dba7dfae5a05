\* One client and a rival with every instruction.
SPECIFICATION ClientSpec
CONSTANTS
  Serials = {c1}
  Wallets = {alice, bob}
  Values = {2}
  U64Max = 100000
  MintAuthority = authority
  BondBps = 15000
  Window = 2
  MaxLinks = 3
  DefaultAllowance = 2
  VaultPda = vaultpda
  NoWallet = none
  Funds <- MCFunds
  Amounts = {2}
  Caps = {}
  LinkBatches <- MCLinkBatches
  MCOwners = {alice, bob}
  MCMaxChain = 3
  MCMintValues = {2}
  MCBroken = FALSE
  MCReserve = 2
  MCRich = {bob}
  MCWalletFunds = 3
  Clients = {k1}
  CoinOf <- MCCoinOf
  CheckerOf <- MCCheckerOf
  BondSlack = 1
  BondTopUp = 2
  MaxTries = 3
  MaxRuns = 2
  MaxFaults = 1
  Rivals = {bob}
  MCOwner = bob
  MCRecipient = alice
  MCLength = 2
  MCChecker = alice
INVARIANT SettleNotEarly
CHECK_DEADLOCK FALSE
