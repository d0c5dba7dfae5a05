\* A submission of scheme 0, batches of one or two links with any signatures in
\* them, with or without the precompile in front.
SPECIFICATION AppendSpec
CONSTANTS
  Serials = {c1}
  Wallets = {alice, bob}
  Values = {1}
  U64Max = 100
  SigSchemes = {0}
  Holders = {alice, bob}
  Value = 1
  MaxLinks = 2
  MaxChecks = 1
  Unread = Unread
INVARIANT StatesAreSigned
CHECK_DEADLOCK FALSE
