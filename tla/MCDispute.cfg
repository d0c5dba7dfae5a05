\* One coin, chains of up to four states, two owners, every dispute.
SPECIFICATION Spec
CONSTANTS
  Serials = {c1}
  Wallets = {alice, bob}
  Values = {1, 2}
  U64Max = 100000
  MintAuthority = authority
  BondBps = 15000
  Window = 2
  MaxLinks = 2
  DefaultAllowance = 2
  VaultPda = vaultpda
  NoWallet = none
  Funds <- MCFunds
  Amounts = {2}
  Caps = {}
  LinkBatches <- MCLinkBatches
  MCOwners = {alice, bob}
  MCMaxChain = 5
  MCMintValues = {2}
  MCBroken = TRUE
  MCReserve = 2
  MCRich = {alice, bob}
  MCWalletFunds = 6
INVARIANTS TypeOK BondsHeldWhileOpen HeadIsLive ChainsAnchored LongestClaimStands WinRuleIsLongest
PROPERTIES ClaimsAreFinal PaidOnlyWhenDue
SYMMETRY WalletSymmetry
