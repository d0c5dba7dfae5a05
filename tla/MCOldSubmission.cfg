\* A submission of 543 bytes, written before the commitments existed.
SPECIFICATION ReaderSpec
CONSTANTS
  Kinds = {"oldSubmission"}
  Contents = {0, 1}
  MaxWrites = 1
  MaxStored = 4
INVARIANTS NoCommitsOnOldAccounts
CHECK_DEADLOCK FALSE
