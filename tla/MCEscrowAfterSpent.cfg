\* SPEC I6 against settle called without the other submission.
SPECIFICATION Spec
CONSTANTS
  Serials = {c1}
  Wallets = {alice, bob}
  Values = {2}
  U64Max = 100000
  MintAuthority = authority
  BondBps = 15000
  Window = 2
  MaxLinks = 2
  DefaultAllowance = 2
  VaultPda = vaultpda
  NoWallet = none
  Funds <- MCFunds
  Amounts = {2}
  Caps = {}
  LinkBatches <- MCLinkBatches
  MCOwners = {alice, bob}
  MCMaxChain = 3
  MCMintValues = {2}
  MCBroken = FALSE
  MCReserve = 2
  MCRich = {alice, bob}
  MCWalletFunds = 6
INVARIANT NoEscrowAfterSpent
