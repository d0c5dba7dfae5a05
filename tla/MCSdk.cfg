\* Chains: one coin of two possible values, three wallets, chains of up to five states,
\* one more than a submission holds, copies cut, mixed and
\* altered.  Files: Ed25519 coins of up to three states, two faults of the medium.
\* Appends: both schemes, two owners, batches of up to two links, all four states.
\* Upload: three chunks, the last one short.  Accounts: every kind the program
\* writes today, one field changed.  Builders: two wallets in every role.
SPECIFICATION SdkSpec
CONSTANTS
  Serials = {c1}
  Wallets = {alice, bob, carol}
  Values = {1, 2}
  U64Max = 100
  Schemes = {0, 1}
  KnownKeys = {alice, bob, carol}
  MaxChain = 5
  MaxCoins = 4
  States = {sA, sB}
  Signers = {alice, bob}
  FileSchemes = {0}
  Keys = {k1, k2}
  MaxStates = 3
  MaxDamage = 2
  Junk = Junk
  Refused = Refused
  SigSchemes = {0, 1}
  Holders = {alice, bob}
  Value = 1
  MaxLinks = 2
  MaxChecks = 1
  Unread = Unread
  Size = 7
  ChunkSize = 3
  MaxChunk = 3
  MaxRetries = 2
  Kinds = {"config", "registry", "head", "allowance", "submission"}
  Contents = {0, 1}
  MaxWrites = 1
  MaxStored = 4
  Parties = {alice, bob}
  Authority = mint
  Payer = payer
  None = None
INVARIANTS TypeOK OnlyOwnersMoveCoins VerifiedCoinsCheckIn HandOversVerify ForksNameTheForker
INVARIANTS LoadedIsSaved IntactOpens ReadsWhatIsWritten FreshInstructionsFit
INVARIANTS PairsAreSigned SignedBatchesLand CommitsResolve MeasuresWhatItSays
CHECK_DEADLOCK FALSE
