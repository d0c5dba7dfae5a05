\* A transaction of the dead run changes a balance between two snapshots.
SPECIFICATION ScriptSpec
CONSTANTS
  Serials <- MCSerials
  Wallets = {recipient, holder2, holder3}
  Values = {100}
  U64Max = 100000000
  MintAuthority = authority
  BondBps = 10000
  Window = 2
  MaxLinks = 4
  DefaultAllowance = 1000
  VaultPda = vaultpda
  NoWallet = none
  Funds <- MCFunds
  Amounts <- MCAmounts
  Caps = {50, 1000000}
  LinkBatches <- MCLinks
  Scripts = {"matrix"}
  Recipient = recipient
  Holder2 = holder2
  Holder3 = holder3
  MaxRuns = 2
  Stray = {"matrix"}
  Unsure = {}
INVARIANTS RecordsHold
CHECK_DEADLOCK FALSE
