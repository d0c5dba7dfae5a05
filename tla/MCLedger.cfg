\* Two coins of different values, short chains, all the bookkeeping.
SPECIFICATION Spec
CONSTANTS
  Serials = {c1, c2}
  Wallets = {alice, bob}
  Values = {1, 2}
  U64Max = 100000
  MintAuthority = authority
  BondBps = 15000
  Window = 1
  MaxLinks = 1
  DefaultAllowance = 2
  VaultPda = vaultpda
  NoWallet = none
  Funds <- MCFunds
  Amounts = {1, 2}
  Caps = {3}
  LinkBatches <- MCLinkBatches
  MCOwners = {alice}
  MCMaxChain = 2
  MCMintValues = {1, 2}
  MCBroken = FALSE
  MCReserve = 3
  MCRich = {bob}
  MCWalletFunds = 4
INVARIANTS VaultBacksOpenCoins TokensConserved SpentHasOneWinner ClaimsPayable AllowanceCoversOpenCoins
SYMMETRY CoinSymmetry
