-------------------------------- MODULE MCSdk --------------------------------
(***************************************************************************)
(* The parts of the SDK for TLC that keep no state in common, in one       *)
(* instance: chains of ownership, coin files, account parsers, instruction *)
(* builders, signed appends and the chunked upload.  A behaviour is one of *)
(* one part, the others stay where they start: interleaving parts that     *)
(* share nothing shows nothing.                                            *)
(***************************************************************************)
EXTENDS CoinChain, CoinFile, AccountReader, Instructions, SignedAppend, PqUpload

VARIABLE part

\* What the theorems about the parts suppose of their constants.
ASSUME PartsAssumption == RefusedAssumption /\ UploadSizes

\* A part that is not looked at starts in one of its initial states.
SdkInit ==
  /\ part \in {"chain", "file", "reader", "builders", "append", "upload"}
  /\ Init /\ FileInit /\ AppendInit /\ UploadInit /\ ReaderInit /\ BuildersInit
  /\ part # "reader" => kind = "config"
  /\ part # "append" => scheme = 0 /\ states[1].owner = CHOOSE w \in Parties : TRUE
  /\ part # "upload" => script = "bench" /\ acct = "missing"

SdkNext ==
  \/ /\ part = "chain" /\ Next
     /\ UNCHANGED <<part, fileVars, readerVars, ixVars, appendVars, pqVars>>
  \/ /\ part = "file" /\ FileNext
     /\ UNCHANGED <<part, chainVars, readerVars, ixVars, appendVars, pqVars>>
  \/ /\ part = "reader" /\ ReaderNext
     /\ UNCHANGED <<part, chainVars, fileVars, ixVars, appendVars, pqVars>>
  \/ /\ part = "builders" /\ BuildersNext
     /\ UNCHANGED <<part, chainVars, fileVars, readerVars, appendVars, pqVars>>
  \/ /\ part = "append" /\ AppendNext
     /\ UNCHANGED <<part, chainVars, fileVars, readerVars, ixVars, pqVars>>
  \/ /\ part = "upload" /\ UploadNext
     /\ UNCHANGED <<part, chainVars, fileVars, readerVars, ixVars, appendVars>>

SdkSpec ==
  SdkInit
  /\ [][SdkNext]_<<part, chainVars, fileVars, readerVars, ixVars, appendVars, pqVars>>
=============================================================================
