------------------------------- MODULE CoinFile -------------------------------
(***************************************************************************)
(* A coin at rest: the CoinCore codec (coinfile.ts) and the encrypted      *)
(* wrapper around it (wrapper.ts), on a medium that damages, cuts and      *)
(* extends files.                                                          *)
(*                                                                         *)
(* A file is the record of its fields plus its size in bytes; a hash and a *)
(* GCM tag are the data they are over, so that equal means untouched.  A   *)
(* signature is its maker and its length: a slot keeps the first SigSlot   *)
(* bytes of it, what Buffer.copy and the next write leave.                 *)
(***************************************************************************)
EXTENDS ObpState

CONSTANTS States,      \* of a coin, each as one value
          Signers, FileSchemes, Keys,
          MaxStates,  \* longest chain that is saved
          MaxDamage,  \* faults of the medium
          Junk,       \* what a damaged field reads as; a damaged hash is of Nothing
          Refused     \* what a read that throws gives

VARIABLES saved,   \* the coin last written, or Nothing
          disk,    \* the file: a core or a wrapper
          seal,    \* key and hint it was written with, <<>> for a bare core
          damage,  \* faults since it was written
          loaded   \* what the last read gave, with the key and hint used

fileVars == <<saved, disk, seal, damage, loaded>>

Nothing == <<>>
SigSlot == 64
Header == 49
SigBytes == [s \in 0..1 |-> IF s = 0 THEN 64 ELSE 2420]
Hints == 0..1

Coins ==
  [serial : Serials, value : Values, scheme : FileSchemes,
   states : UNION {[1..n -> States] : n \in 1..MaxStates}, by : Signers]
\* The coin as the SDK holds it: a signature per link, of its scheme's length.
CoinCore(c) ==
  [serial |-> c.serial, value |-> c.value, scheme |-> c.scheme, states |-> c.states,
   sigs |-> [i \in 1..(Len(c.states) - 1) |-> [by |-> c.by, len |-> SigBytes[c.scheme]]]]

CoinCoreSize(n) == Header + 104 * n + SigSlot * (n - 1) + 32

Slot(sig) == [sig EXCEPT !.len = SigSlot]
\* What a file keeps of a coin: its signatures as far as their slots go.
Kept(coin) == [coin EXCEPT !.sigs = [i \in DOMAIN coin.sigs |-> Slot(coin.sigs[i])]]

\* What a read that throws gives is no coin.
RefusedAssumption ==
  /\ Refused # Nothing
  /\ \A c \in Coins : Kept(CoinCore(c)) # Refused

Body(f) == <<f.magic, f.version, f.scheme, f.n, f.serial, f.value, f.states, f.sigs>>

\* Everything in front of the checksum.
Unsummed(c) ==
  [magic |-> "OBC1", version |-> 1, scheme |-> c.scheme, n |-> Len(c.states),
   serial |-> c.serial, value |-> c.value, states |-> c.states,
   sigs |-> [i \in DOMAIN c.sigs |-> Slot(c.sigs[i])],
   sum |-> Nothing, size |-> CoinCoreSize(Len(c.states))]

\* Mutant: the checksum is taken before the signatures are written.
MutEncodeCoinCore(c) ==
  LET f == Unsummed(c) IN [f EXCEPT !.sum = Body([f EXCEPT !.sigs = <<>>])]

EncodeCoinCore(c) ==
  LET f == Unsummed(c) IN [f EXCEPT !.sum = Body(f)]

\* The checksum is read where n says: at another n it is other bytes.
ChecksumOk(f) == f.n = Len(f.states) /\ f.sum = Body(f)

\* Mutant: the checksum is not compared.
MutDecodes(f) ==
  f.size >= Header /\ f.magic = "OBC1" /\ f.version = 1 /\ f.size = CoinCoreSize(f.n)

Decodes(f) ==
  /\ f.size >= Header
  /\ f.magic = "OBC1"
  /\ f.version = 1
  /\ f.size = CoinCoreSize(f.n)
  /\ ChecksumOk(f)

DecodeCoinCore(f) ==
  IF Decodes(f)
  THEN [serial |-> f.serial, value |-> f.value, scheme |-> f.scheme,
        states |-> f.states, sigs |-> f.sigs]
  ELSE Refused

\* encryptCoinFile and serializeEncrypted.  The ciphertext is named by what it is
\* of; the AAD is the same in every file.
Encrypt(core, key, hint) ==
  [magic |-> "OBE1", version |-> 1, hint |-> hint, nonce |-> 0, ctLen |-> core.size,
   ct |-> core, tag |-> <<core, key, 0>>,
   size |-> 23 + core.size + 16]

\* parseEncrypted: the tag is read behind ctLen bytes of ciphertext.
Parses(e) ==
  e.magic = "OBE1" /\ e.version = 1 /\ e.size = 23 + e.ctLen + 16

\* decryptCoinFile: the hint is compared with the caller's, the rest is GCM, whose
\* tag is over the ciphertext under a key and a nonce.
Opens(e, key, hint) ==
  /\ Parses(e)
  /\ e.hint = hint
  /\ e.tag = <<e.ct, key, e.nonce>>

OpenCoin(f, key, hint) ==
  IF Opens(f, key, hint) THEN DecodeCoinCore(f.ct) ELSE Refused
-----------------------------------------------------------------------------
FileInit ==
  /\ saved = Nothing /\ disk = Nothing /\ seal = Nothing
  /\ damage = 0
  /\ loaded = [coin |-> Nothing, with |-> Nothing]

WriteFile(c, file, with) ==
  /\ disk = Nothing
  /\ saved' = c
  /\ disk' = file
  /\ seal' = with
  /\ UNCHANGED <<damage, loaded>>

SavePlain == \E c \in Coins :
  WriteFile(CoinCore(c), EncodeCoinCore(CoinCore(c)), Nothing)

SaveSealed == \E c \in Coins, key \in Keys, hint \in Hints :
  WriteFile(CoinCore(c), Encrypt(EncodeCoinCore(CoinCore(c)), key, hint), <<key, hint>>)

\* The file of a chain of k states has that size: a cut at a state boundary.
Sizes(f) == {f.size - 1, f.size + 1} \cup {CoinCoreSize(k) : k \in 1..MaxStates}

DamagedCore(f) ==
  {[f EXCEPT !.magic = Junk], [f EXCEPT !.serial = Junk], [f EXCEPT !.value = Junk],
   [f EXCEPT !.scheme = 1 - @], [f EXCEPT !.version = 2], [f EXCEPT !.sum = Nothing]}
  \cup {[f EXCEPT !.n = k] : k \in 0..MaxStates}
  \cup {[f EXCEPT !.size = k] : k \in Sizes(f)}
  \cup {[f EXCEPT !.states[i] = s] : i \in DOMAIN f.states, s \in States \cup {Junk}}
  \cup {[f EXCEPT !.sigs[i] = Junk] : i \in DOMAIN f.sigs}

DamagedWrapper(e) ==
  {[e EXCEPT !.magic = Junk], [e EXCEPT !.version = 2], [e EXCEPT !.hint = 1 - @],
   [e EXCEPT !.nonce = Junk], [e EXCEPT !.ct = Nothing], [e EXCEPT !.tag = Nothing],
   [e EXCEPT !.ctLen = @ - 1], [e EXCEPT !.size = @ - 1], [e EXCEPT !.size = @ + 1]}

Damage ==
  /\ disk # Nothing
  /\ damage < MaxDamage
  /\ disk' \in (IF seal = Nothing THEN DamagedCore(disk) ELSE DamagedWrapper(disk)) \ {disk}
  /\ damage' = damage + 1
  /\ UNCHANGED <<saved, seal, loaded>>

LoadPlain ==
  /\ disk # Nothing /\ seal = Nothing
  /\ loaded' = [coin |-> DecodeCoinCore(disk), with |-> Nothing]
  /\ UNCHANGED <<saved, disk, seal, damage>>

LoadSealed(key, hint) ==
  /\ disk # Nothing /\ seal # Nothing
  /\ loaded' = [coin |-> OpenCoin(disk, key, hint), with |-> <<key, hint>>]
  /\ UNCHANGED <<saved, disk, seal, damage>>

FileNext ==
  \/ SavePlain \/ SaveSealed \/ Damage \/ LoadPlain
  \/ \E key \in Keys, hint \in Hints : LoadSealed(key, hint)

FileSpec == FileInit /\ [][FileNext]_fileVars
-----------------------------------------------------------------------------
Loaded == loaded.coin \notin {Nothing, Refused}

\* Coinfile spec 2.1, 2.4: whatever happened to a file, reading it gives the coin
\* that was written or an error, never another coin, also when a damaged length
\* and a cut file fit each other.  It is said of scheme 0, the only one version 1
\* of the file has (section 3).
LoadedIsSaved == Loaded => loaded.coin = saved

\* No coin is lost at rest: an untouched file opens with its key and its hint.
IntactOpens ==
  loaded.coin = Refused => damage > 0 \/ loaded.with # seal
=============================================================================
