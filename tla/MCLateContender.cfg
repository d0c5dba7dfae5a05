\* SPEC R-D against finalize_check_in, which does not look at the window.
SPECIFICATION Spec
CONSTANTS
  Serials = {c1}
  Wallets = {alice, bob}
  Values = {2}
  U64Max = 100000
  MintAuthority = authority
  BondBps = 15000
  Window = 2
  MaxLinks = 2
  DefaultAllowance = 2
  VaultPda = vaultpda
  NoWallet = none
  Funds <- MCFunds
  Amounts = {2}
  Caps = {}
  LinkBatches <- MCLinkBatches
  MCOwners = {alice, bob}
  MCMaxChain = 3
  MCMintValues = {2}
  MCBroken = FALSE
  MCReserve = 2
  MCRich = {alice, bob}
  MCWalletFunds = 6
PROPERTY ContendWithinWindow
