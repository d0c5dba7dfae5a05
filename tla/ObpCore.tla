------------------------------- MODULE ObpCore -------------------------------
(***************************************************************************)
(* The on-chain program obp-core: minting of coins against a vault, and    *)
(* check-in of an offline ownership chain with a bond, a challenge window  *)
(* and at most two competing submissions per coin.                         *)
(*                                                                         *)
(* One action per instruction.  A transaction is atomic: a failing require *)
(* reverts everything, so a rejected call is a step that is not taken, and *)
(* the interleaving of actions is the order in which transactions land.    *)
(*                                                                         *)
(* Slots.  The program compares the clock with one stored slot only, the   *)
(* one at which the head was set.  head[sn].age is the number of slots     *)
(* since then, saturated just above the window, so that time is unbounded. *)
(***************************************************************************)
EXTENDS ObpState, FiniteSets, Functions

CONSTANTS MintAuthority,     \* Config.mint_authority
          BondBps,           \* Config.bond_multiplier_bps
          Window,            \* Config.challenge_window_slots
          MaxLinks,          \* Config.max_links_per_tx
          DefaultAllowance,  \* Config.default_allowance
          VaultPda,          \* owner of the coin vault, an address nobody signs for
          NoWallet,          \* the contents of an unwritten Pubkey field
          Funds,             \* SPL balances before the first instruction
          Amounts,           \* amounts tried by fund_vault and withdraw_vault
          Caps,              \* caps tried by set_allowance
          LinkBatches        \* batches of links that holders have built

Attempts == 0..1
Accounts == Wallets \cup {MintAuthority}

ASSUME ConfigAssumption ==      \* the requires of init
  /\ BondBps \in Nat /\ BondBps >= 10000
  /\ Window \in Nat \ {0}
  /\ MaxLinks \in Nat \ {0}
  /\ DefaultAllowance \in Nat
ASSUME AccountAssumption ==
  /\ NoWallet \notin Wallets
  /\ VaultPda \notin Accounts
  /\ Funds \in [Accounts -> Nat]
ASSUME FiniteAssumption ==      \* serials and public keys are 32 bytes
  IsFiniteSet(Serials) /\ IsFiniteSet(Wallets)
ASSUME InputAssumption ==
  /\ Amounts \subseteq Nat /\ Caps \subseteq Nat
  /\ LinkBatches \subseteq Seq(State)

VARIABLES supply,    \* Config.total_unspent_supply
          vault,     \* balance of the coin vault
          fees,      \* balance of the fee sink
          wallet,    \* balances of the wallets and of the mint authority
          registry,  \* MintRegistry per serial
          head,      \* HeadRegistry per serial
          sub,       \* Submission per serial and attempt
          escrow,    \* balance of each submission's bond escrow
          allowance  \* Allowance per wallet

vars == <<supply, vault, fees, wallet, registry, head, sub, escrow, allowance>>

MaxAge == Window + 1

NoCoin == [status |-> "NONE", value |-> 0, recipient |-> NoWallet,
           genesis |-> ZeroHash, count |-> 0]
NoState == ZeroHash
NoHead == [set |-> FALSE, state |-> NoState, attempt |-> 0, len |-> 0, age |-> 0]
NoSub == [status |-> "NONE", checker |-> NoWallet, final_owner |-> NoWallet,
          states |-> <<>>]

Other(a) == 1 - a
Bond(sn) == BondAmount(registry[sn].value, BondBps)
LastState(s) == s.states[Len(s.states)]

Init ==
  /\ supply = 0 /\ vault = 0 /\ fees = 0
  /\ wallet = Funds
  /\ registry = [sn \in Serials |-> NoCoin]
  /\ head = [sn \in Serials |-> NoHead]
  /\ sub = [sn \in Serials |-> [a \in Attempts |-> NoSub]]
  /\ escrow = [sn \in Serials |-> [a \in Attempts |-> 0]]
  /\ allowance = [w \in Wallets |-> [initialized |-> FALSE, cap |-> 0, committed |-> 0]]

-----------------------------------------------------------------------------
(* The mint authority and the wallets. *)

FundVault(n) ==
  /\ wallet[MintAuthority] >= n
  /\ wallet' = [wallet EXCEPT ![MintAuthority] = @ - n]
  /\ vault' = vault + n
  /\ UNCHANGED <<supply, fees, registry, head, sub, escrow, allowance>>

\* SPL token: only its owner's signature moves tokens out of an account.
MayMove(owner, signer) == owner = signer

\* withdraw_vault signs the transfer out of the vault with the mint authority,
\* and the vault belongs to the vault PDA: every call aborts, after its check of
\* the reserve has passed or not, so that it is no disjunct of Next.
CanWithdraw(n) ==
  /\ supply + n <= U64Max
  /\ vault >= supply + n
  /\ MayMove(VaultPda, MintAuthority)

\* Mutant: init instead of init_if_needed, the account is written again.
MutOpenAllowance(w) ==
  [initialized |-> TRUE, cap |-> DefaultAllowance, committed |-> 0]

\* The recipient's allowance account, created with the default cap.
OpenAllowance(w) ==
  IF allowance[w].initialized THEN allowance[w]
  ELSE [initialized |-> TRUE, cap |-> DefaultAllowance, committed |-> 0]

\* Mutant: the vault is compared with this coin only.
MutMintFits(v, al) ==
  /\ v > 0
  /\ vault >= v
  /\ al.committed + v <= al.cap

MintFits(v, al) ==
  /\ v > 0
  /\ supply + v <= U64Max
  /\ vault >= supply + v
  /\ al.committed + v <= U64Max
  /\ al.committed + v <= al.cap

\* Mutant: a spent registry account may be initialized again.
MutCanMint(sn, v, al) == registry[sn].status # "ACTIVE" /\ MintFits(v, al)

CanMint(sn, v, al) == registry[sn].status = "NONE" /\ MintFits(v, al)

MintCoin(sn, v, w) ==
  LET al == OpenAllowance(w) IN
  /\ CanMint(sn, v, al)
  /\ supply' = supply + v
  /\ allowance' = [allowance EXCEPT ![w] = [al EXCEPT !.committed = @ + v]]
  /\ registry' = [registry EXCEPT ![sn] =
       [status |-> "ACTIVE", value |-> v, recipient |-> w,
        genesis |-> StateHash(GenesisState(sn, v, w)), count |-> 0]]
  /\ UNCHANGED <<vault, fees, wallet, head, sub, escrow>>

SetAllowance(w, cap) ==
  /\ allowance[w].initialized
  /\ cap >= allowance[w].committed
  /\ allowance' = [allowance EXCEPT ![w].cap = cap]
  /\ UNCHANGED <<supply, vault, fees, wallet, registry, head, sub, escrow>>

-----------------------------------------------------------------------------
(* Check-in: start, append, finalize. *)

CanStart(sn, a, c, st) ==
  /\ registry[sn].status = "ACTIVE"
  /\ sub[sn][a].status = "NONE"
  /\ escrow[sn][a] = 0
  /\ registry[sn].count < 2
  /\ st.serial = sn
  /\ st.value = registry[sn].value
  /\ StateHash(st) = registry[sn].genesis
  /\ BondFits(registry[sn].value, BondBps)
  /\ wallet[c] >= Bond(sn)

StartCheckIn(sn, a, c, st) ==
  /\ CanStart(sn, a, c, st)
  /\ registry' = [registry EXCEPT ![sn].count = @ + 1]
  /\ sub' = [sub EXCEPT ![sn][a] = [status |-> "RECEIVING", checker |-> c,
                                    final_owner |-> st.owner, states |-> <<st>>]]
  /\ wallet' = [wallet EXCEPT ![c] = @ - Bond(sn)]
  /\ escrow' = [escrow EXCEPT ![sn][a] = @ + Bond(sn)]
  /\ UNCHANGED <<supply, vault, fees, head, allowance>>

\* Mutant: every link of the batch is compared with the last stored state.
MutBatchFollows(states, links, sn, v) ==
  \A i \in 1..Len(links) : Follows(links[i], states[Len(states)], sn, v)

\* The batch extends the chain `states` link by link.
BatchFollows(states, links, sn, v) ==
  \A i \in 1..Len(links) :
     Follows(links[i],
             IF i = 1 THEN states[Len(states)] ELSE links[i-1], sn, v)

LinksFit(s, headOwner, links, room) ==
  /\ links # <<>>
  /\ Len(links) <= MaxLinks
  /\ Len(s.states) + Len(links) <= room
  /\ LastState(s).owner = headOwner

\* Mutant: the chain may grow one state too long.
MutRoomForLinks(s, headOwner, links) ==
  s.status = "RECEIVING" /\ LinksFit(s, headOwner, links, MaxSubmissionStates + 1)

\* Mutant: a pending submission still takes links.
MutAppendPending(s, headOwner, links) ==
  /\ s.status \in {"RECEIVING", "PENDING"}
  /\ LinksFit(s, headOwner, links, MaxSubmissionStates)

CanAppend(s, headOwner, links) ==
  s.status = "RECEIVING" /\ LinksFit(s, headOwner, links, MaxSubmissionStates)

\* The registry's status is not consulted: links may still arrive for a coin
\* that another submission has already spent.
BatchFits(sn, a, headOwner, links, lastHash) ==
  /\ CanAppend(sub[sn][a], headOwner, links)
  /\ BatchFollows(sub[sn][a].states, links, sn, registry[sn].value)
  /\ StateHash(links[Len(links)]) = lastHash

AppendLinks(sn, a, headOwner, links, lastHash) ==
  /\ BatchFits(sn, a, headOwner, links, lastHash)
  /\ sub' = [sub EXCEPT ![sn][a].states = @ \o links,
                        ![sn][a].final_owner = links[Len(links)].owner]
  /\ UNCHANGED <<supply, vault, fees, wallet, registry, head, escrow, allowance>>

\* Mutant: finalize requires an active coin.
MutCanFinalize(sn, a) ==
  /\ registry[sn].status = "ACTIVE"
  /\ sub[sn][a].status = "RECEIVING"
  /\ FullChain(sub[sn][a].states, sn, registry[sn].value, registry[sn].genesis)
  /\ BondFits(registry[sn].value, BondBps)

\* What every branch of finalize_check_in requires.
CanFinalize(sn, a) ==
  /\ sub[sn][a].status = "RECEIVING"
  /\ FullChain(sub[sn][a].states, sn, registry[sn].value, registry[sn].genesis)
  /\ BondFits(registry[sn].value, BondBps)

\* Mutant: the bond is booked as a fee and stays in escrow too.
MutFinRejectSpent(sn, a) ==
  /\ CanFinalize(sn, a)
  /\ registry[sn].status = "SPENT"
  /\ fees' = fees + Bond(sn)
  /\ sub' = [sub EXCEPT ![sn][a].status = "REJECTED"]
  /\ UNCHANGED <<supply, vault, wallet, registry, head, escrow, allowance>>

\* R5: the coin is already spent.
CanReject(sn, a) ==
  /\ CanFinalize(sn, a)
  /\ registry[sn].status = "SPENT"
  /\ escrow[sn][a] >= Bond(sn)

FinRejectSpent(sn, a) ==
  /\ CanReject(sn, a)
  /\ escrow' = [escrow EXCEPT ![sn][a] = @ - Bond(sn)]
  /\ fees' = fees + Bond(sn)
  /\ sub' = [sub EXCEPT ![sn][a].status = "REJECTED"]
  /\ UNCHANGED <<supply, vault, wallet, registry, head, allowance>>

\* Mutant: the number of links instead of the number of states.
MutHeadLen(sn, a) ==
  [set |-> TRUE, state |-> LastState(sub[sn][a]), attempt |-> a,
   len |-> Len(sub[sn][a].states) - 1, age |-> 0]

\* Mutant: the submission the head belongs to is not written.
MutHeadAttempt(sn, a) ==
  [set |-> TRUE, state |-> LastState(sub[sn][a]), attempt |-> 0,
   len |-> Len(sub[sn][a].states), age |-> 0]

\* The head registry entry written for a submission, its age restarted.
HeadOf(sn, a) ==
  [set |-> TRUE, state |-> LastState(sub[sn][a]), attempt |-> a,
   len |-> Len(sub[sn][a].states), age |-> 0]

\* Casus A: the first finalized submission becomes the provisional head.
CanSetHead(sn, a) ==
  /\ CanFinalize(sn, a)
  /\ registry[sn].status # "SPENT"
  /\ ~head[sn].set

FinSetHead(sn, a) ==
  /\ CanSetHead(sn, a)
  /\ head' = [head EXCEPT ![sn] = HeadOf(sn, a)]
  /\ sub' = [sub EXCEPT ![sn][a].status = "PENDING"]
  /\ UNCHANGED <<supply, vault, fees, wallet, registry, escrow, allowance>>

\* Casus B: the other submission holds the head.
CanResolve(sn, a) ==
  /\ CanFinalize(sn, a)
  /\ registry[sn].status # "SPENT"
  /\ head[sn].set
  /\ head[sn].attempt = Other(a)
  /\ sub[sn][Other(a)].status = "PENDING"
  /\ escrow[sn][a] >= Bond(sn)

BeatsHead(sn, a) == IWin(sub[sn][a].states, head[sn].state, head[sn].len)
-----------------------------------------------------------------------------
\* The contender's chain wins, and everything it pays out is there.
CanWin(sn, a) ==
  LET v == registry[sn].value IN
  /\ CanResolve(sn, a)
  /\ BeatsHead(sn, a)
  /\ escrow[sn][Other(a)] >= Bond(sn)
  /\ vault >= v
  /\ supply >= v
  /\ allowance[registry[sn].recipient].committed >= v

\* The contender wins: both bonds to its checker, the value to its final
\* owner, at once and whatever the age of the head.
FinResolveWin(sn, a) ==
  LET s == sub[sn][a]
      v == registry[sn].value
      r == registry[sn].recipient
      paid == [wallet EXCEPT ![s.checker] = @ + 2 * Bond(sn)]
  IN
  /\ CanWin(sn, a)
  /\ escrow' = [escrow EXCEPT ![sn] = [b \in Attempts |-> @[b] - Bond(sn)]]
  /\ wallet' = [paid EXCEPT ![s.final_owner] = @ + v]
  /\ vault' = vault - v
  /\ supply' = supply - v
  /\ head' = [head EXCEPT ![sn] = HeadOf(sn, a)]
  /\ registry' = [registry EXCEPT ![sn].status = "SPENT"]
  /\ allowance' = [allowance EXCEPT ![r].committed = @ - v]
  /\ sub' = [sub EXCEPT ![sn][a].status = "WON", ![sn][Other(a)].status = "LOST"]
  /\ UNCHANGED fees

\* The contender loses: its bond to the checker of the head, which stays.
FinResolveLose(sn, a) ==
  /\ CanResolve(sn, a)
  /\ ~BeatsHead(sn, a)
  /\ escrow' = [escrow EXCEPT ![sn][a] = @ - Bond(sn)]
  /\ wallet' = [wallet EXCEPT ![sub[sn][Other(a)].checker] = @ + Bond(sn)]
  /\ sub' = [sub EXCEPT ![sn][a].status = "LOST"]
  /\ UNCHANGED <<supply, vault, fees, registry, head, allowance>>

FinalizeCheckIn(sn, a) ==
  \/ FinRejectSpent(sn, a)
  \/ FinSetHead(sn, a)
  \/ FinResolveWin(sn, a)
  \/ FinResolveLose(sn, a)

-----------------------------------------------------------------------------
(* settle, after the window.  The caller may leave out the other submission *)
(* and the allowance account (the program id in their place).               *)

\* Mutant: settle opens one slot early.
MutCanSettle(sn, a) ==
  /\ registry[sn].status = "ACTIVE"
  /\ sub[sn][a].status = "PENDING"
  /\ head[sn].set
  /\ head[sn].attempt = a
  /\ head[sn].age + 1 >= Window
  /\ BondFits(registry[sn].value, BondBps)

CanSettle(sn, a) ==
  /\ registry[sn].status = "ACTIVE"
  /\ sub[sn][a].status = "PENDING"
  /\ head[sn].set
  /\ head[sn].attempt = a
  /\ head[sn].age >= Window
  /\ BondFits(registry[sn].value, BondBps)

\* The other submission, when supplied, must be swept or terminal.
Sweeps(sn, a, withOther) == withOther /\ sub[sn][Other(a)].status = "RECEIVING"

CanPayOut(sn, a, withOther, withAllowance) ==
  LET o == Other(a)
      v == registry[sn].value
  IN
  /\ CanSettle(sn, a)
  /\ withOther => sub[sn][o].status \in {"RECEIVING", "LOST", "REJECTED"}
  /\ Sweeps(sn, a, withOther) => escrow[sn][o] >= Bond(sn)
  /\ vault >= v
  /\ supply >= v
  /\ escrow[sn][a] >= Bond(sn)
  /\ withAllowance => allowance[registry[sn].recipient].committed >= v

Settle(sn, a, withOther, withAllowance) ==
  LET s == sub[sn][a]
      v == registry[sn].value
      r == registry[sn].recipient
      swept == Sweeps(sn, a, withOther)
      paid == [wallet EXCEPT ![s.final_owner] = @ + v]
  IN
  /\ CanPayOut(sn, a, withOther, withAllowance)
  /\ escrow' = [escrow EXCEPT ![sn] =
       [b \in Attempts |-> IF b = a \/ swept THEN @[b] - Bond(sn) ELSE @[b]]]
  /\ fees' = IF swept THEN fees + Bond(sn) ELSE fees
  /\ wallet' = [paid EXCEPT ![s.checker] = @ + Bond(sn)]
  /\ vault' = vault - v
  /\ supply' = supply - v
  /\ registry' = [registry EXCEPT ![sn].status = "SPENT"]
  /\ allowance' = IF withAllowance
                  THEN [allowance EXCEPT ![r].committed = @ - v] ELSE allowance
  /\ sub' = [sub EXCEPT ![sn] =
       [b \in Attempts |-> IF b = a THEN [@[b] EXCEPT !.status = "WON"]
                           ELSE IF swept THEN [@[b] EXCEPT !.status = "REJECTED"]
                           ELSE @[b]]]
  /\ UNCHANGED head

\* A slot passes.
Tick ==
  /\ head' = [sn \in Serials |->
       IF head[sn].set /\ head[sn].age < MaxAge
       THEN [head[sn] EXCEPT !.age = @ + 1] ELSE head[sn]]
  /\ UNCHANGED <<supply, vault, fees, wallet, registry, sub, escrow, allowance>>

Next ==
  \/ \E n \in Amounts : FundVault(n)
  \/ \E sn \in Serials, v \in Values, w \in Wallets : MintCoin(sn, v, w)
  \/ \E w \in Wallets, cap \in Caps : SetAllowance(w, cap)
  \/ \E sn \in Serials, a \in Attempts, c \in Wallets, v \in Values, w \in Wallets :
        StartCheckIn(sn, a, c, GenesisState(sn, v, w))
  \/ \E sn \in Serials, a \in Attempts, links \in LinkBatches, w \in Wallets :
       \E i \in DOMAIN links : AppendLinks(sn, a, w, links, StateHash(links[i]))
  \/ \E sn \in Serials, a \in Attempts : FinalizeCheckIn(sn, a)
  \/ \E sn \in Serials, a \in Attempts, withOther, withAllowance \in BOOLEAN :
        Settle(sn, a, withOther, withAllowance)
  \/ Tick

Spec == Init /\ [][Next]_vars

\* Slots pass, and somebody who wants the pending claim paid (settle is open to
\* all, the SDK's client waits for the window to send it) sends settle in the form
\* the SDK builds it, without the other submission.  Nobody has to start, append
\* or finalize.
Fairness ==
  /\ WF_vars(Tick)
  /\ \A sn \in Serials, a \in Attempts : WF_vars(Settle(sn, a, FALSE, TRUE))

FairSpec == Spec /\ Fairness
-----------------------------------------------------------------------------
(* Types. *)

Registries == [status : {"NONE", "ACTIVE", "SPENT"}, value : Nat,
               recipient : Wallets \cup {NoWallet}, genesis : Hash, count : 0..2]
Heads == [set : BOOLEAN, state : State \cup {NoState}, attempt : Attempts,
          len : 0..MaxSubmissionStates, age : 0..MaxAge]
Submissions ==
  [status : {"NONE", "RECEIVING", "PENDING", "REJECTED", "WON", "LOST"},
   checker : Wallets \cup {NoWallet}, final_owner : Wallets \cup {NoWallet},
   states : Seq(State)]
Allowances == [initialized : BOOLEAN, cap : Nat, committed : Nat]

AccountTypes ==
  /\ supply \in Nat /\ vault \in Nat /\ fees \in Nat
  /\ wallet \in [Accounts -> Nat]
  /\ registry \in [Serials -> Registries]
  /\ head \in [Serials -> Heads]
  /\ sub \in [Serials -> [Attempts -> Submissions]]
  /\ escrow \in [Serials -> [Attempts -> Nat]]
  /\ allowance \in [Wallets -> Allowances]

RegistryWritten ==
  \A sn \in Serials :
    registry[sn].status # "NONE" => registry[sn].recipient \in Wallets

SubmissionWritten ==
  \A sn \in Serials, a \in Attempts : sub[sn][a].status # "NONE" =>
    /\ registry[sn].status # "NONE"
    /\ sub[sn][a].checker \in Wallets
    /\ sub[sn][a].final_owner \in Wallets
    /\ Len(sub[sn][a].states) \in 1..MaxSubmissionStates

\* The types of the accounts, and which of their fields are written.
TypeOK == AccountTypes /\ RegistryWritten /\ SubmissionWritten

-----------------------------------------------------------------------------
(* Safety. *)

OpenCoins == {sn \in Serials : registry[sn].status = "ACTIVE"}
OpenCoinsOf(w) == {sn \in OpenCoins : registry[sn].recipient = w}
ValueOf(coins) == SumFunctionOnSet([sn \in Serials |-> registry[sn].value], coins)

\* I2: the vault always covers total_unspent_supply, and the counter is the
\* value of the coins that can still be redeemed, through every mint,
\* withdrawal, dispute and settle.
VaultBacksOpenCoins ==
  /\ supply = ValueOf(OpenCoins)
  /\ vault >= supply

Escrowed == [sn \in Serials |-> SumFunctionOnSet(escrow[sn], Attempts)]

\* No instruction creates or destroys tokens: the five places a token can be
\* always add up to the initial funds.
TokensConserved ==
  vault + fees + SumFunctionOnSet(wallet, Accounts) + SumFunctionOnSet(Escrowed, Serials)
    = SumFunctionOnSet(Funds, Accounts)

Open == {"RECEIVING", "PENDING"}

\* I6: a submission's escrow holds exactly its bond while it is receiving or
\* pending and nothing once it has won, lost or been rejected, whichever of the
\* two submissions' handlers moved the bond; and (I3) the bond covers the coin.
BondsHeldWhileOpen ==
  \A sn \in Serials, a \in Attempts :
    /\ escrow[sn][a] = IF sub[sn][a].status \in Open THEN Bond(sn) ELSE 0
    /\ Bond(sn) >= registry[sn].value

\* The head registry names a live submission: its attempt is the one that is
\* pending (coin active) or has won (coin spent), with that very last state and
\* length; without a head nothing has been finalized.  fin_resolve and settle
\* rely on it and would be stuck for ever if it failed.
HeadLiveAt(sn) ==
  LET h == head[sn] IN
  IF h.set
  THEN LET s == sub[sn][h.attempt] IN
       /\ s.status = IF registry[sn].status = "SPENT" THEN "WON" ELSE "PENDING"
       /\ LastState(s) = h.state /\ Len(s.states) = h.len
       /\ sub[sn][Other(h.attempt)].status \notin {"PENDING", "WON"}
  ELSE /\ registry[sn].status # "SPENT"
       /\ \A a \in Attempts : sub[sn][a].status \in {"NONE", "RECEIVING"}

HeadIsLive == \A sn \in Serials : HeadLiveAt(sn)

\* I4: every chain in a submission is hash-consistent from the genesis of its
\* coin on, over any number of append_links batches, so that verify_full_chain
\* at finalize can only confirm it.
ChainsAnchored ==
  \A sn \in Serials :
    LET r == registry[sn] IN
    /\ r.status # "NONE" =>
         r.genesis = StateHash(GenesisState(sn, r.value, r.recipient))
    /\ \A a \in Attempts : sub[sn][a].status # "NONE" =>
         FullChain(sub[sn][a].states, sn, r.value, r.genesis)

\* The value of a coin went out once: a coin is spent exactly when one of its
\* two submissions has won, and never have both won.
SpentHasOneWinner ==
  \A sn \in Serials :
    Cardinality({a \in Attempts : sub[sn][a].status = "WON"})
      = IF registry[sn].status = "SPENT" THEN 1 ELSE 0

\* SPEC 5.7: the longest chain wins.  No submission that lost had a longer
\* chain than the one it lost to.
LongestClaimStands ==
  \A sn \in Serials, a \in Attempts :
    sub[sn][a].status = "LOST" =>
      Len(sub[sn][Other(a)].states) >= Len(sub[sn][a].states)

\* The three-way rule of fin_resolve (extension, same endpoint, fork) is, on the
\* chains append_links lets in, "strictly longer wins".
WinRuleIsLongest ==
  \A sn \in Serials, a \in Attempts :
    /\ head[sn].set
    /\ sub[sn][a].status = "RECEIVING"
    => (BeatsHead(sn, a) <=> Len(sub[sn][a].states) > head[sn].len)

\* Nothing gets stuck: a receiving submission can always be finalized, also once
\* its coin is spent, when its bond would stay in escrow for ever if it could not;
\* and the holder of the head can always be paid, whatever the other coins, the
\* other submission and the mint authority did; no check of a payout can fail.
ClaimsPayable ==
  \A sn \in Serials, a \in Attempts :
    LET r == registry[sn] IN
    /\ sub[sn][a].status \in Open /\ r.status = "ACTIVE" =>
         /\ vault >= r.value /\ supply >= r.value
         /\ allowance[r.recipient].committed >= r.value
    /\ sub[sn][a].status = "RECEIVING" =>
         /\ CanFinalize(sn, a)
         /\ r.status = "SPENT" => CanReject(sn, a)
         /\ r.status # "SPENT" /\ head[sn].set => CanResolve(sn, a)
    /\ sub[sn][a].status = "PENDING" /\ head[sn].age >= Window =>
         CanSettle(sn, a)

\* I5, the half that holds: the coins a wallet was given and that are still open
\* never exceed what is committed, and that never exceeds its cap.
AllowanceCoversOpenCoins ==
  \A w \in Wallets :
    /\ ValueOf(OpenCoinsOf(w)) <= allowance[w].committed
    /\ allowance[w].committed <= allowance[w].cap

-----------------------------------------------------------------------------
(* Steps. *)

Extends(new, old) ==
  Len(old) <= Len(new) /\ SubSeq(new, 1, Len(old)) = old

\* R-A, R-B: a chain only grows, and only while its submission is receiving; a
\* submission that won, lost or was rejected and a spent coin never change.
ClaimsAreFinal ==
  [][\A sn \in Serials :
       /\ registry[sn].status = "SPENT" => registry'[sn].status = "SPENT"
       /\ \A a \in Attempts :
            LET s == sub[sn][a]
                t == sub'[sn][a]
            IN /\ Extends(t.states, s.states)
               /\ t.states # s.states => s.status \in {"NONE", "RECEIVING"}
               /\ s.status \in {"WON", "LOST", "REJECTED"} => t = s]_vars

\* The value of a coin is paid out only to the holder of the head once the
\* window has passed, or to a submission with a strictly longer chain.
PaidOnlyWhenDue ==
  [][\A sn \in Serials :
       registry[sn].status = "ACTIVE" /\ registry'[sn].status = "SPENT" =>
         \E a \in Attempts :
           /\ sub'[sn][a].status = "WON"
           /\ head[sn].set
           /\ \/ head[sn].attempt = a /\ head[sn].age >= Window
              \/ head[sn].attempt # a /\ Len(sub[sn][a].states) > head[sn].len]_vars

-----------------------------------------------------------------------------
(* Liveness, under Fairness. *)

\* A coin with a pending submission is eventually paid out.
PendingGetsPaid ==
  \A sn \in Serials, a \in Attempts :
    sub[sn][a].status = "PENDING" ~> registry[sn].status = "SPENT"

-----------------------------------------------------------------------------
(* What SPEC.md and the comments say and the code does not do. *)

\* SPEC 5.2 and A4: withdraw_vault succeeds whenever the vault still covers the
\* outstanding coins afterwards.
ReserveWithdrawable ==
  \A n \in Amounts : vault >= supply + n => CanWithdraw(n)

\* SPEC R-D and 5.7: a contender can only win inside the window.
ContendWithinWindow ==
  [][\A sn \in Serials, a \in Attempts :
       sub[sn][a].status = "RECEIVING" /\ sub'[sn][a].status = "WON" =>
         head[sn].age < Window]_vars

\* SPEC I6: no escrow is left once the coin is spent.
NoEscrowAfterSpent ==
  \A sn \in Serials : registry[sn].status = "SPENT" =>
    \A a \in Attempts : escrow[sn][a] = 0

\* SPEC I5: committed is the value of the open coins of the wallet.
CommittedIsOpenValue ==
  \A w \in Wallets : allowance[w].committed = ValueOf(OpenCoinsOf(w))

\* SPEC 5.9 and allowance.rs: set_allowance only raises the cap.
CapOnlyRaised ==
  [][\A w \in Wallets : allowance[w].initialized =>
       allowance'[w].cap >= allowance[w].cap]_vars
=============================================================================
