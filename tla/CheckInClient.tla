---------------------------- MODULE CheckInClient ----------------------------
(***************************************************************************)
(* runCheckIn (orchestrate.ts) and the sending of transactions (client.ts) *)
(* against the program: start, append, finalize, wait, settle, with the    *)
(* chain read again before every step, and the whole run started again by  *)
(* its caller after an error.                                              *)
(*                                                                         *)
(* Each client holds one coin.  Its reads and its transactions interleave  *)
(* with slots, with other users of the program and with its own earlier    *)
(* transactions: one that was given up may still land.  A transaction is   *)
(* simulated, sent, lands (executed or failed) and is confirmed; the       *)
(* confirmation does not look at whether it failed.                        *)
(***************************************************************************)
EXTENDS ObpCore

CONSTANTS Clients,
          CoinOf,      \* the chain of states of a client's coin, genesis first
          CheckerOf,   \* opts.checker, who starts the check-in
          BondSlack,   \* the checker's account is topped up below bond + BondSlack
          BondTopUp,   \* and to bond + BondTopUp (50 and 500 in the code)
          MaxTries,    \* max429Retries
          MaxRuns,     \* runs of one client
          MaxFaults,   \* crashes, lost transactions and refusals for the rate limit
          Rivals       \* wallets that check coins in by other means

VARIABLES cl,     \* state of each client
          late,   \* transactions given up that may still land
          faults  \* faults so far

clientVars == <<cl, late, faults>>
allVars == <<vars, clientVars>>

SerialOf(c) == CoinOf[c][1].serial
RecipientOf(c) == CoinOf[c][1].owner
OwnerOf(c) == CoinOf[c][Len(CoinOf[c])].owner
Mine(c) == sub[SerialOf(c)]

ASSUME ClientAssumption ==
  /\ CheckerOf \in [Clients -> Wallets]
  /\ BondSlack \in Nat /\ BondTopUp \in Nat /\ BondSlack <= BondTopUp
  /\ MaxTries \in Nat /\ MaxRuns \in Nat /\ MaxFaults \in Nat
  /\ Rivals \subseteq Wallets
  /\ \A c \in Clients :
       /\ CoinOf[c] \in Seq(State) /\ CoinOf[c] # <<>>
       /\ CoinOf[c][1] = GenesisState(SerialOf(c), CoinOf[c][1].value, RecipientOf(c))
       /\ \A i, j \in 2..Len(CoinOf[c]) : i <= j => SubSeq(CoinOf[c], i, j) \in LinkBatches

(* A transaction: whose, what, and what its caller had read: the number of *)
(* states in the submission and the owner of the last one.                 *)
Steps == {"start", "append", "finalize", "settle"}
Tx(c, step, a, len, owner) == [by |-> c, step |-> step, a |-> a, len |-> len, owner |-> owner]
NoTx == Tx(CHOOSE c \in Clients : TRUE, "start", 0, 0, NoWallet)

\* The links of the coin that follow the first len states, as many as fit.
Batch(c, len) ==
  SubSeq(CoinOf[c], len + 1, IF len + MaxLinks < Len(CoinOf[c]) THEN len + MaxLinks ELSE Len(CoinOf[c]))

\* What the program does with it.  finalize comes without the accounts of the
\* other submission, so that casus B aborts; settle without them too.
Exec(t) ==
  LET sn == SerialOf(t.by) IN
  CASE t.step = "start" -> StartCheckIn(sn, t.a, RecipientOf(t.by), CoinOf[t.by][1])
    [] t.step = "append" -> AppendLinks(sn, t.a, t.owner, Batch(t.by, t.len),
                                        StateHash(CoinOf[t.by][Len(CoinOf[t.by])]))
    [] t.step = "finalize" -> FinRejectSpent(sn, t.a) \/ FinSetHead(sn, t.a)
    [] t.step = "settle" -> Settle(sn, t.a, FALSE, TRUE)

\* The simulation of a transaction runs all the program's checks.
Simulates(t) ==
  LET sn == SerialOf(t.by) IN
  CASE t.step = "start" -> CanStart(sn, t.a, RecipientOf(t.by), CoinOf[t.by][1])
    [] t.step = "append" -> BatchFits(sn, t.a, t.owner, Batch(t.by, t.len),
                                      StateHash(CoinOf[t.by][Len(CoinOf[t.by])]))
    [] t.step = "finalize" -> CanReject(sn, t.a) \/ CanSetHead(sn, t.a)
    [] t.step = "settle" -> CanPayOut(sn, t.a, FALSE, TRUE)

\* start_check_in wants the recipient's signature; the payer and, for that step,
\* the checker are the ones that sign.
Signable(t) == t.step = "start" => CheckerOf[t.by] = RecipientOf(t.by)
-----------------------------------------------------------------------------
Idle == [pc |-> "idle", a |-> 0, due |-> 0, tx |-> NoTx, net |-> "none", tries |-> 0, runs |-> 0,
         need |-> 0, stray |-> {}]

ClientInit ==
  /\ Init
  /\ cl = [c \in Clients |-> Idle]
  /\ late = {}
  /\ faults = 0

At(c, pc) == cl[c].pc = pc
Go(c, pc) == cl' = [cl EXCEPT ![c].pc = pc]
GoWith(c, pc, a) == cl' = [cl EXCEPT ![c].pc = pc, ![c].a = a]
Send(c, t) == cl' = [cl EXCEPT ![c].pc = "send", ![c].tx = t, ![c].net = "none", ![c].tries = 0]
Quiet == UNCHANGED <<vars, late, faults>>

\* A run begins with the checks on the registry.
Begin(c) ==
  LET r == registry[SerialOf(c)] IN
  /\ cl[c].pc \in {"idle", "failed"}
  /\ cl[c].runs < MaxRuns
  /\ r.status # "NONE"
  /\ cl' = [cl EXCEPT ![c].runs = @ + 1,
            ![c].pc = IF r.status = "ACTIVE" /\ r.genesis = StateHash(CoinOf[c][1])
                      THEN "fund" ELSE "failed"]
  /\ Quiet

\* Mutant: the account is topped up by a bond too little.
MutNeeded(c) ==
  IF wallet[CheckerOf[c]] < Bond(SerialOf(c)) + BondSlack THEN BondTopUp ELSE 0

Needed(c) ==
  LET bond == Bond(SerialOf(c))  bal == wallet[CheckerOf[c]] IN
  IF bal < bond + BondSlack THEN bond + BondTopUp - bal ELSE 0

\* The balance is read, and a mintTo of what it lacks is under way.
ReadBalance(c) ==
  /\ At(c, "fund")
  /\ cl' = [cl EXCEPT ![c].pc = IF Needed(c) = 0 THEN "look" ELSE "mint", ![c].need = Needed(c)]
  /\ Quiet

\* The mint authority mints n to the checker, whatever the balance is by now.
Mint(c, n) ==
  /\ wallet' = [wallet EXCEPT ![CheckerOf[c]] = @ + n]
  /\ UNCHANGED <<supply, vault, fees, registry, head, sub, escrow, allowance, late, faults>>

MintTo(c) ==
  /\ At(c, "mint")
  /\ Mint(c, cl[c].need)
  /\ cl' = [cl EXCEPT ![c].pc = "look", ![c].need = 0]

\* Mutant: a run that has been here before takes the other attempt.
MutStartAttempt(c) == IF cl[c].runs > 1 THEN 1 ELSE 0
StartAttempt(c) == 0

\* Mutant: only the second attempt is looked at.
MutLook(c) == At(c, "look") /\ Go(c, "second") /\ Quiet

\* fetchSubmission of attempt 0, or else of attempt 1, or else a new one.
Look(c) ==
  /\ At(c, "look")
  /\ IF Mine(c)[0].status # "NONE" THEN GoWith(c, "append", 0) ELSE Go(c, "second")
  /\ Quiet

LookSecond(c) ==
  /\ At(c, "second")
  /\ IF Mine(c)[1].status # "NONE" THEN GoWith(c, "append", 1)
     ELSE Send(c, Tx(c, "start", StartAttempt(c), 0, NoWallet))
  /\ Quiet

\* The submission is read before every batch.
Append_(c) ==
  LET a == cl[c].a  s == Mine(c)[a] IN
  /\ At(c, "append")
  /\ IF s.status = "NONE" THEN Go(c, "failed")
     ELSE IF Len(s.states) >= Len(CoinOf[c]) THEN Go(c, "finalize")
     ELSE IF s.status = "PENDING" THEN Go(c, "failed")
     ELSE Send(c, Tx(c, "append", a, Len(s.states), LastState(s).owner))
  /\ Quiet

Finalize(c) ==
  LET a == cl[c].a  s == Mine(c)[a] IN
  /\ At(c, "finalize")
  /\ IF s.final_owner # OwnerOf(c) THEN Go(c, "failed")
     ELSE IF s.status = "PENDING" THEN Go(c, "head")
     ELSE IF s.status = "WON" THEN Go(c, "report")
     ELSE Send(c, Tx(c, "finalize", a, 0, NoWallet))
  /\ Quiet

\* Mutant: the submission is not read again, settle is for the next run.
MutFinalized(c) == At(c, "finalized") /\ Go(c, "report") /\ Quiet

\* The submission is read again after finalize.
Finalized(c) ==
  /\ At(c, "finalized")
  /\ Go(c, IF Mine(c)[cl[c].a].status = "PENDING" THEN "head" ELSE "report")
  /\ Quiet

\* Mutant: settle is sent a slot early.
MutDueAt(h) == IF h.age + 1 < Window THEN Window - h.age - 1 ELSE 0
\* Mutant: the slots left are not compared with zero.
MutDueAtUnclamped(h) == Window - h.age

\* Slots until the deadline.
DueAt(h) == IF h.age < Window THEN Window - h.age ELSE 0

ReadHead(c) ==
  /\ At(c, "head")
  /\ cl' = [cl EXCEPT ![c].pc = "wait", ![c].due = DueAt(head[SerialOf(c)])]
  /\ Quiet

Wait(c) ==
  /\ At(c, "wait")
  /\ cl[c].due = 0
  /\ Send(c, Tx(c, "settle", cl[c].a, 0, NoWallet))
  /\ Quiet

Report(c) ==
  /\ At(c, "report")
  /\ Go(c, "done")
  /\ Quiet
-----------------------------------------------------------------------------
(* ObpClient.send. *)

\* Sign, simulate, send: an error of the first two ends the run.
Submit(c) ==
  LET t == cl[c].tx IN
  /\ At(c, "send")
  /\ IF Signable(t) /\ Simulates(t)
     THEN cl' = [cl EXCEPT ![c].pc = "confirm", ![c].net = "flying"]
     ELSE Go(c, "failed")
  /\ Quiet

Land(c) ==
  /\ At(c, "confirm") /\ cl[c].net = "flying"
  /\ Exec(cl[c].tx)
  /\ cl' = [cl EXCEPT ![c].net = "landed"]
  /\ UNCHANGED <<late, faults>>

\* It lands, and fails: the chain has changed since it was simulated.
LandFailing(c) ==
  /\ At(c, "confirm") /\ cl[c].net = "flying"
  /\ ~Simulates(cl[c].tx)
  /\ cl' = [cl EXCEPT ![c].net = "landed"]
  /\ Quiet

After(step) == CASE step \in {"start", "append"} -> "append"
                 [] step = "finalize" -> "finalized"
                 [] step = "settle" -> "report"

Confirm(c) ==
  LET t == cl[c].tx IN
  /\ At(c, "confirm") /\ cl[c].net = "landed"
  /\ cl' = [cl EXCEPT ![c].pc = After(t.step), ![c].a = t.a, ![c].net = "none"]
  /\ Quiet

\* Given up while it flies, it stays around until its blockhash expires.
Abandoned(c) == IF cl[c].net = "flying" THEN {cl[c].tx} ELSE {}

Fault ==
  /\ faults < MaxFaults
  /\ faults' = faults + 1

\* The node refuses a call for the rate limit: send begins again, with a new
\* transaction, whatever became of the one before.
RateLimited(c) ==
  /\ Fault
  /\ cl[c].pc \in {"send", "confirm"}
  /\ late' = late \cup Abandoned(c)
  /\ cl' = [cl EXCEPT ![c].tries = @ + 1, ![c].net = "none",
            ![c].pc = IF cl[c].tries + 1 >= MaxTries THEN "failed" ELSE "send"]
  /\ UNCHANGED vars

\* The transaction does not land before its blockhash expires: confirm throws.
Expire(c) ==
  /\ Fault
  /\ At(c, "confirm") /\ cl[c].net = "flying"
  /\ cl' = [cl EXCEPT ![c].pc = "failed", ![c].net = "none"]
  /\ UNCHANGED <<vars, late>>

\* A mintTo of a run that is over by the time it lands, if it does.
AbandonedMint(c) == IF At(c, "mint") THEN {<<cl[c].runs, cl[c].need>>} ELSE {}

\* The process dies, a read or mintTo throws, the wait takes longer than maxWaitMs.
Crash(c) ==
  /\ Fault
  /\ cl[c].pc \notin {"idle", "failed", "done"}
  /\ late' = late \cup Abandoned(c)
  /\ cl' = [cl EXCEPT ![c].pc = "failed", ![c].net = "none", ![c].need = 0,
            ![c].stray = @ \cup AbandonedMint(c)]
  /\ UNCHANGED vars

LateLand(t) ==
  /\ Exec(t)
  /\ late' = late \ {t}
  /\ UNCHANGED <<cl, faults>>

LateLost(t) ==
  /\ late' = late \ {t}
  /\ UNCHANGED <<vars, cl, faults>>

\* The same of a mintTo.
StrayMint(c) ==
  \E m \in cl[c].stray :
    /\ Mint(c, m[2]) \/ Quiet
    /\ cl' = [cl EXCEPT ![c].stray = @ \ {m}]
-----------------------------------------------------------------------------
(* The rest of the world. *)

ClientTick ==
  /\ Tick
  /\ cl' = [c \in Clients |-> IF cl[c].pc = "wait" /\ cl[c].due > 0
                              THEN [cl[c] EXCEPT !.due = @ - 1] ELSE cl[c]]
  /\ UNCHANGED <<late, faults>>

Issue ==
  /\ \/ \E n \in Amounts : FundVault(n)
     \/ \E c \in Clients : MintCoin(SerialOf(c), CoinOf[c][1].value, RecipientOf(c))
  /\ UNCHANGED clientVars

Rival ==
  /\ Rivals # {}
  /\ \E sn \in Serials, a \in Attempts :
       \/ \E r \in Rivals, v \in Values, w \in Wallets : StartCheckIn(sn, a, r, GenesisState(sn, v, w))
       \/ \E links \in LinkBatches, w \in Wallets :
            \E i \in DOMAIN links : AppendLinks(sn, a, w, links, StateHash(links[i]))
       \/ FinalizeCheckIn(sn, a)
       \/ Settle(sn, a, FALSE, TRUE)
  /\ UNCHANGED clientVars

Client(c) ==
  \/ Begin(c) \/ ReadBalance(c) \/ MintTo(c) \/ Look(c) \/ LookSecond(c) \/ Append_(c) \/ Finalize(c)
  \/ Finalized(c) \/ ReadHead(c) \/ Wait(c) \/ Report(c)
  \/ Submit(c) \/ Land(c) \/ LandFailing(c) \/ Confirm(c)

ClientNext ==
  \/ Issue \/ Rival \/ ClientTick
  \/ \E c \in Clients : Client(c) \/ RateLimited(c) \/ Expire(c) \/ Crash(c) \/ StrayMint(c)
  \/ \E t \in late : LateLand(t) \/ LateLost(t)

ClientSpec == ClientInit /\ [][ClientNext]_allVars

\* Slots pass, the client's process runs and its transactions land unless a fault
\* comes in between, and its caller runs it again after an error.
ClientFairSpec ==
  ClientSpec /\ WF_allVars(ClientTick) /\ \A c \in Clients : WF_allVars(Client(c))
-----------------------------------------------------------------------------
Txs == [by : Clients, step : Steps, a : Attempts, len : 0..MaxSubmissionStates,
        owner : Wallets \cup {NoWallet}]
Pcs == {"idle", "fund", "mint", "look", "second", "append", "finalize", "finalized", "head",
        "wait", "report", "send", "confirm", "failed", "done"}

\* The types of the clients' states and of their transactions.
ClientTypeOK ==
  /\ cl \in [Clients -> [pc : Pcs, a : Attempts, due : 0..Window, tx : Txs,
                         net : {"none", "flying", "landed"}, tries : Nat, runs : Nat,
                         need : Nat, stray : SUBSET (Nat \X Nat)]]
  /\ late \subseteq Txs
  /\ faults \in Nat

\* However often a run is interrupted, repeated and overtaken by its own late
\* transactions, a client puts up one bond for its coin.
OneBondPerCoin ==
  \A c \in Clients : Rivals = {} => registry[SerialOf(c)].count <= 1

\* A run that returns has checked its coin in: the coin is spent, by a submission
\* with the client's whole chain.
ReturnedMeansPaid ==
  \A c \in Clients : At(c, "done") =>
    /\ registry[SerialOf(c)].status = "SPENT"
    /\ \E a \in Attempts : Mine(c)[a].status = "WON" /\ Mine(c)[a].states = CoinOf[c]

\* The wait for the window is long enough: settle is never sent, nor under way,
\* while the program would still refuse it as early.
SettleNotEarly ==
  \A c \in Clients :
    LET t == cl[c].tx  sn == SerialOf(c) IN
    /\ cl[c].pc \in {"send", "confirm"} /\ t.step = "settle"
    /\ sub[sn][t.a].status = "PENDING"
    => head[sn].age >= Window

\* A client that is not interrupted tops up enough: its start_check_in never
\* fails for lack of funds.
BondCovered ==
  \A c \in Clients :
    /\ At(c, "send") /\ cl[c].tx.step = "start" /\ CheckerOf[c] = RecipientOf(c)
    /\ Rivals = {} /\ Mine(c)[0].status = "NONE"
    => wallet[CheckerOf[c]] >= Bond(SerialOf(c))

\* A minted coin gets paid out when its holder keeps running the check-in, after
\* at most MaxFaults faults and with as many runs as they can cost.
ClientGetsPaid ==
  \A c \in Clients : registry[SerialOf(c)].status = "ACTIVE" ~> registry[SerialOf(c)].status = "SPENT"
-----------------------------------------------------------------------------
(* What the comments say and the code does not do. *)

\* orchestrate.ts 64-66, 129, opts.checker: a run without faults and rivals
\* completes the check-in of a coin that verifies.
UndisturbedRunSucceeds ==
  faults = 0 /\ Rivals = {} => \A c \in Clients : ~At(c, "failed")

\* orchestrate.ts 83-86: the value goes to the current owner of the coin that was
\* given to a run that returns.
ValueToCoinOwner ==
  \A c \in Clients, a \in Attempts :
    At(c, "done") /\ Mine(c)[a].status = "WON" => Mine(c)[a].final_owner = OwnerOf(c)

\* orchestrate.ts 65: every step is done only when the state on chain asks for
\* it; a bond that has been paid needs no tokens.
TopUpOnlyWhenNeeded ==
  [][\A c \in Clients :
       MintTo(c) => Mine(c)[0].status = "NONE"]_allVars
=============================================================================
