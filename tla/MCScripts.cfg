\* The E2E matrix and the PQ run and the smoke test, interrupted and run again.
SPECIFICATION ScriptFairSpec
CONSTANTS
  Serials <- MCSerials
  Wallets = {recipient, holder2, holder3}
  Values = {100}
  U64Max = 100000000
  MintAuthority = authority
  BondBps = 10000
  Window = 2
  MaxLinks = 4
  DefaultAllowance = 1000
  VaultPda = vaultpda
  NoWallet = none
  Funds <- MCFunds
  Amounts <- MCAmounts
  Caps = {50, 1000000}
  LinkBatches <- MCLinks
  Scripts = {"matrix", "pq", "smoke"}
  Recipient = recipient
  Holder2 = holder2
  Holder3 = holder3
  MaxRuns = 2
  Stray = {"pq"}
  Unsure = {"matrix", "pq", "smoke"}
INVARIANTS RecordsHold NothingThrows
PROPERTIES Completes
CHECK_DEADLOCK FALSE
