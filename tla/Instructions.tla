----------------------------- MODULE Instructions -----------------------------
(***************************************************************************)
(* The account lists the SDK builds (instructions.ts, accounts.ts) against *)
(* those the program asks for: its Accounts structs and the checks and     *)
(* transfers of its handlers, position by position.                        *)
(*                                                                         *)
(* An address is a kind, what it is derived from and a number; a key is an *)
(* address with its writable and signer flags.  The callers of the         *)
(* builders take the roles from accounts they have read.                   *)
(***************************************************************************)
EXTENDS ObpState

CONSTANTS Parties,   \* the wallets that are given coins, check them in or own them
          Authority, \* the mint authority
          Payer,     \* who pays the fees
          None       \* no wallet

ASSUME NoneAssumption == None \notin Parties

VARIABLES minted,  \* recipient of every registered coin, or None
          subs,    \* checker and final owner per submission, or NoSub
          head,    \* attempt of the head per coin, or NoHead
          built,   \* the instruction last built, or NoIx
          read     \* the accounts its caller has read

chain == <<minted, subs, head>>
ixVars == <<minted, subs, head, built, read>>

Attempts == 0..1
NoSub == [checker |-> None, finalOwner |-> None]
NoHead == 2
Other(a) == 1 - a

Addr(kind, of, n) == [kind |-> kind, of |-> of, n |-> n]
Pda(kind) == Addr(kind, None, 0)
RegistryPda(sn) == Addr("mint", sn, 0)
HeadPda(sn) == Addr("head", sn, 0)
SubmissionPda(sn, a) == Addr("submission", sn, a)
AllowancePda(r) == Addr("allowance", r, 0)
Wallet(w) == Addr("wallet", w, 0)
Ata(owner) == Addr("ata", owner, 0)   \* of an address; the vault mint is the only one
VaultAta == Ata(Pda("vault"))
FeeAta == Ata(Pda("fee"))

K(addr, mut, signer) == [addr |-> addr, mut |-> mut, signer |-> signer]
W(addr) == K(addr, FALSE, FALSE)
Wm(addr) == K(addr, TRUE, FALSE)
S(addr) == K(addr, FALSE, TRUE)
Sm(addr) == K(addr, TRUE, TRUE)
Sys == Pda("system")
Token == Pda("token")
Program == Pda("program")
Ix(name, arg, keys) == [name |-> name, arg |-> arg, keys |-> keys]
Arg(sn, a, r) == [serial |-> sn, attempt |-> a, recipient |-> r]

(* The builders. *)
InitIx == Ix("init", Arg(None, 0, None),
  <<Wm(Pda("config")), Wm(Pda("vault")), Wm(Pda("fee")), S(Wallet(Authority)), Sm(Wallet(Payer)), W(Sys)>>)
PingIx == Ix("ping", Arg(None, 0, None), <<W(Pda("config"))>>)
FundVaultIx == Ix("fund_vault", Arg(None, 0, None),
  <<Sm(Wallet(Authority)), W(Pda("config")), Wm(Ata(Wallet(Authority))), Wm(VaultAta),
    W(Pda("vault")), W(Token)>>)
WithdrawVaultIx == Ix("withdraw_vault", Arg(None, 0, None),
  <<Sm(Wallet(Authority)), Wm(Pda("config")), Wm(VaultAta), Wm(Ata(Wallet(Authority))),
    W(Pda("vault")), W(Token)>>)

\* Mutant: the vault and its token account changed places.
MutMintCoinIx(sn, r) == Ix("mint_coin", Arg(sn, 0, r),
  <<Sm(Wallet(Authority)), Wm(Pda("config")), Wm(RegistryPda(sn)), W(Pda("vault")), W(VaultAta),
    Wm(AllowancePda(r)), Sm(Wallet(Payer)), W(Sys), W(Token)>>)
MintCoinIx(sn, r) == Ix("mint_coin", Arg(sn, 0, r),
  <<Sm(Wallet(Authority)), Wm(Pda("config")), Wm(RegistryPda(sn)), W(VaultAta), W(Pda("vault")),
    Wm(AllowancePda(r)), Sm(Wallet(Payer)), W(Sys), W(Token)>>)

\* recipient is the checker that signs and whose token account pays the bond.
StartCheckInIx(sn, a, recipient) == Ix("start_check_in", Arg(sn, a, recipient),
  <<W(Pda("config")), Wm(RegistryPda(sn)), Wm(SubmissionPda(sn, a)), S(Wallet(recipient)),
    Wm(Ata(Wallet(recipient))), Wm(Ata(SubmissionPda(sn, a))), W(Token), Sm(Wallet(Payer)), W(Sys)>>)
AppendLinksIx(sn, a) == Ix("append_links", Arg(sn, a, None),
  <<W(Pda("config")), W(RegistryPda(sn)), Wm(SubmissionPda(sn, a))>>)

\* The accounts finalize and settle begin with.
PayoutKeys(sn, a, checker, owner) ==
  <<Wm(SubmissionPda(sn, a)), Wm(Ata(SubmissionPda(sn, a))), Wm(Ata(Wallet(checker))),
    Wm(Ata(Wallet(owner))), Wm(VaultAta), W(Pda("vault")), Wm(FeeAta), W(Pda("fee")), W(Token)>>

\* otherChecker None: finalizeIx without caseB.
FinalizeIx(sn, a, r, checker, owner, otherChecker) == Ix("finalize_check_in", Arg(sn, a, r),
  <<Wm(Pda("config")), Wm(RegistryPda(sn)), Wm(HeadPda(sn))>> \o PayoutKeys(sn, a, checker, owner)
  \o <<Sm(Wallet(Payer)), W(Sys)>>
  \o IF otherChecker = None THEN [i \in 1..4 |-> W(Program)]
     ELSE <<Wm(SubmissionPda(sn, Other(a))), Wm(Ata(SubmissionPda(sn, Other(a)))),
            Wm(Ata(Wallet(otherChecker))), Wm(AllowancePda(r))>>)
SettleIx(sn, a, r, checker, owner) == Ix("settle", Arg(sn, a, r),
  <<Wm(Pda("config")), Wm(RegistryPda(sn)), W(HeadPda(sn))>> \o PayoutKeys(sn, a, checker, owner)
  \o <<S(Wallet(Payer)), W(Sys), W(Program), W(Program), Wm(AllowancePda(r))>>)
SetAllowanceIx(w) == Ix("set_allowance", Arg(None, 0, w), <<S(Wallet(w)), Wm(AllowancePda(w))>>)
VerifySigCommitIx(sn, a) == Ix("verify_sig_commit", Arg(sn, a, None),
  <<W(Pda("config")), W(SubmissionPda(sn, a))>>)
-----------------------------------------------------------------------------
(* What the program asks: the accounts of its Accounts structs and of its  *)
(* handlers, writable where it or a program it calls writes them.  The     *)
(* winner's account of a finalize that pays nothing is not looked at.      *)
PayoutAccounts(sn, a) ==
  <<Wm(SubmissionPda(sn, a)), Wm(Ata(SubmissionPda(sn, a))), Wm(Ata(Wallet(subs[sn][a].checker))),
    Wm(Ata(Wallet(subs[sn][a].finalOwner))), Wm(VaultAta), W(Pda("vault")), Wm(FeeAta),
    W(Pda("fee")), W(Token)>>

Accounts(ix) ==
  LET sn == ix.arg.serial  a == ix.arg.attempt  r == ix.arg.recipient IN
  CASE ix.name = "init" -> <<Wm(Pda("config")), Wm(Pda("vault")), Wm(Pda("fee")),
                             S(Wallet(Authority)), Sm(Wallet(Payer)), W(Sys)>>
    [] ix.name = "ping" -> <<W(Pda("config"))>>
    [] ix.name = "fund_vault" -> <<Sm(Wallet(Authority)), W(Pda("config")), Wm(Ata(Wallet(Authority))),
                                   Wm(VaultAta), W(Pda("vault")), W(Token)>>
    [] ix.name = "withdraw_vault" -> <<Sm(Wallet(Authority)), Wm(Pda("config")), Wm(VaultAta),
                                       Wm(Ata(Wallet(Authority))), W(Pda("vault")), W(Token)>>
    [] ix.name = "mint_coin" -> <<Sm(Wallet(Authority)), Wm(Pda("config")), Wm(RegistryPda(sn)),
                                  W(VaultAta), W(Pda("vault")), Wm(AllowancePda(r)),
                                  Sm(Wallet(Payer)), W(Sys), W(Token)>>
    [] ix.name = "start_check_in" -> <<W(Pda("config")), Wm(RegistryPda(sn)), Wm(SubmissionPda(sn, a)),
                                       S(Wallet(r)), Wm(Ata(Wallet(r))), Wm(Ata(SubmissionPda(sn, a))),
                                       W(Token), Sm(Wallet(Payer)), W(Sys)>>
    [] ix.name = "append_links" -> <<W(Pda("config")), W(RegistryPda(sn)), Wm(SubmissionPda(sn, a))>>
    [] ix.name = "finalize_check_in" ->
         <<Wm(Pda("config")), Wm(RegistryPda(sn)), Wm(HeadPda(sn))>> \o PayoutAccounts(sn, a)
         \o <<Sm(Wallet(Payer)), W(Sys)>>
         \o IF head[sn] = NoHead THEN <<>>
            ELSE <<Wm(SubmissionPda(sn, Other(a))), Wm(Ata(SubmissionPda(sn, Other(a)))),
                   Wm(Ata(Wallet(subs[sn][Other(a)].checker))), Wm(AllowancePda(minted[sn]))>>
    [] ix.name = "settle" ->
         <<Wm(Pda("config")), Wm(RegistryPda(sn)), W(HeadPda(sn))>> \o PayoutAccounts(sn, a)
         \o <<S(Wallet(Payer)), W(Sys), W(Program), W(Program), Wm(AllowancePda(minted[sn]))>>
    [] ix.name = "set_allowance" -> <<S(Wallet(r)), Wm(AllowancePda(r))>>
    [] ix.name = "verify_sig_commit" -> <<W(Pda("config")), W(SubmissionPda(sn, a))>>

\* The keys of ix serve the accounts the program asks for, in their places.
Accepts(ix) ==
  LET asked == Accounts(ix) IN
  /\ Len(ix.keys) >= Len(asked)
  /\ \A i \in DOMAIN asked :
       /\ ix.keys[i].addr = asked[i].addr
       /\ asked[i].mut => ix.keys[i].mut
       /\ asked[i].signer => ix.keys[i].signer
-----------------------------------------------------------------------------
NoIx == Ix("none", Arg(None, 0, None), <<>>)
NoRead == <<>>

BuildersInit ==
  /\ minted = [sn \in Serials |-> None]
  /\ subs = [sn \in Serials |-> [a \in Attempts |-> NoSub]]
  /\ head = [sn \in Serials |-> NoHead]
  /\ built = NoIx
  /\ read = NoRead

\* What instructions do to the accounts that the callers read.
Minted(sn, r) ==
  /\ minted[sn] = None
  /\ minted' = [minted EXCEPT ![sn] = r]
  /\ UNCHANGED <<subs, head, built, read>>

Started(sn, a, r) ==
  /\ minted[sn] # None /\ subs[sn][a] = NoSub
  /\ subs' = [subs EXCEPT ![sn][a] = [checker |-> r, finalOwner |-> minted[sn]]]
  /\ UNCHANGED <<minted, head, built, read>>

Appended(sn, a, w) ==
  /\ subs[sn][a] # NoSub /\ head[sn] # a
  /\ subs' = [subs EXCEPT ![sn][a].finalOwner = w]
  /\ UNCHANGED <<minted, head, built, read>>

HeadSet(sn, a) ==
  /\ subs[sn][a] # NoSub /\ head[sn] = NoHead
  /\ head' = [head EXCEPT ![sn] = a]
  /\ UNCHANGED <<minted, subs, built, read>>

Build(ix) ==
  /\ built' = ix
  /\ read' = chain
  /\ UNCHANGED chain

\* Calls of the builders, with the roles that are read from the chain; the
\* finalize of a coin that has a head is built with the other checker.
BuildSetup ==
  \/ Build(InitIx) \/ Build(PingIx) \/ Build(FundVaultIx) \/ Build(WithdrawVaultIx)
  \/ \E w \in Parties : Build(SetAllowanceIx(w))
  \/ \E sn \in Serials, r \in Parties : minted[sn] = None /\ Build(MintCoinIx(sn, r))

BuildStart(sn, a, r) ==
  minted[sn] # None /\ subs[sn][a] = NoSub /\ Build(StartCheckInIx(sn, a, r))

BuildOnSubmission(sn, a) ==
  LET s == subs[sn][a]
      o == IF head[sn] = Other(a) THEN subs[sn][Other(a)].checker ELSE None
  IN
  /\ s # NoSub
  /\ \/ head[sn] # a /\ Build(AppendLinksIx(sn, a))
     \/ head[sn] # a /\ Build(FinalizeIx(sn, a, minted[sn], s.checker, s.finalOwner, o))
     \/ head[sn] = a /\ Build(SettleIx(sn, a, minted[sn], s.checker, s.finalOwner))
     \/ Build(VerifySigCommitIx(sn, a))

BuildersNext ==
  \/ BuildSetup
  \/ \E sn \in Serials, r \in Parties : Minted(sn, r)
  \/ \E sn \in Serials, a \in Attempts :
       \/ HeadSet(sn, a) \/ BuildOnSubmission(sn, a)
       \/ \E w \in Parties : Started(sn, a, w) \/ Appended(sn, a, w) \/ BuildStart(sn, a, w)

BuildersSpec == BuildersInit /\ [][BuildersNext]_ixVars
-----------------------------------------------------------------------------
\* What a caller builds from accounts that have not changed since it read them is
\* accepted as far as its accounts go: every account in its place, writable where
\* the program or the token program writes it, signing where it must sign.
FreshInstructionsFit ==
  built # NoIx /\ read = chain => Accepts(built)
=============================================================================
