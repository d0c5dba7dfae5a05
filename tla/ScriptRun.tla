----------------------------- MODULE ScriptRun -----------------------------
(***************************************************************************)
(* The scripts that drive the program on a live cluster: the E2E matrix    *)
(* (e2e-matrix.ts), the PQ acceptance run (e2e-matrix-pq.ts) and the M1    *)
(* smoke test (smoke-m1-idempotent.ts).                                    *)
(*                                                                         *)
(* A script is a sequence of steps, carried out one by one against the     *)
(* program: read, decide whether the step is still needed, send, confirm.  *)
(* Slots pass meanwhile.  The process may die at any point and be started  *)
(* again from the first step; a transaction it had in flight is then lost, *)
(* or, for a script in Stray, lands at some later time.  For a script in   *)
(* Unsure the node may refuse, with 429, to confirm a transaction that has *)
(* landed: send then builds it anew, and the simulation meets its effect.  *)
(*                                                                         *)
(* Left out: the records of what a script computes alone (E6, too large to *)
(* be serialized, P1 and P2), retries of a 429 before anything landed, the *)
(* end of a run whose tries are used up, tokens minted twice that way.     *)
(***************************************************************************)
EXTENDS ObpCore

CONSTANTS Scripts,   \* which of "matrix", "pq" and "smoke"
          Recipient, Holder2, Holder3,
          MaxRuns,   \* how often the matrix is started, the others once more
          Stray,     \* scripts of whose dead runs transactions may land later
          Unsure     \* scripts whose landed transactions may go unconfirmed

VARIABLES script,  \* the one that is run
          run,     \* number of the run
          pc,      \* step it is at
          phase,   \* "at" the step, "flying", "again", "dead", "threw", "twice" or "done"
          tx,      \* the transaction in flight, or sent once more
          snap,    \* balances noted by the script
          failed,  \* records with FAIL, of all runs
          late     \* transactions of dead runs

scriptVars == <<script, run, pc, phase, tx, snap, failed, late>>
allVars == <<vars, scriptVars>>

Value == 100
\* The labels whose serial is the same in every run.
Fixed == {"e0", "e6", "e7", "m1"}
Labels == Fixed \cup {"e2", "e3", "e8", "pq"}
Label(l) == <<l, IF l \in Fixed THEN 0 ELSE run>>

(* Steps.  A step is skipped when it is not needed, unless `always`.  A    *)
(* transaction with a tag is one the script expects to be refused.         *)
Step(op, l, a, n, w, tag, always) ==
  [op |-> op, l |-> l, a |-> a, n |-> n, w |-> w, tag |-> tag, always |-> always]
Need(op, l, a, n, w) == Step(op, l, a, n, w, "none", FALSE)
Do(op, l, a, n, w) == Step(op, l, a, n, w, "none", TRUE)
Refused(op, l, a, n, w, tag) == Step(op, l, a, n, w, tag, TRUE)
Check(tag) == Step("check", "none", 0, 0, Recipient, tag, TRUE)
Local(op, l) == Step(op, l, 0, 0, Recipient, "none", TRUE)

\* start with ensureBond, append up to n states.
StartAs(l, a, w) == <<Need("bond", l, a, Value + 500, w), Need("start", l, a, 0, w)>>
AppendTo(l, a, n) == Need("append", l, a, n, Recipient)
Final(op, l, a) == Need(op, l, a, 0, Recipient)
Claim(l, a, w, n, op) == StartAs(l, a, w) \o <<AppendTo(l, a, n), Final(op, l, a)>>
Settled(l, a) == <<Local("wait", l), Final("settle", l, a)>>

\* E10, E6, E7: the caps and the length limit; e6 and e7 stay as they are.
Limits ==
  <<Local("prefund", "none"), Local("topup", "none"), Need("mint", "e0", 0, 0, Recipient),
    Do("cap", "e0", 0, 1000000, Recipient), Check("E10a"),
    Need("mint", "e6", 0, 0, Recipient)>>
  \o StartAs("e6", 0, Recipient)
  \o <<Refused("cap", "e6", 0, 50, Recipient, "E10b"), Need("mint", "e7", 0, 0, Recipient)>>
  \o StartAs("e7", 0, Recipient)
  \o <<AppendTo("e7", 0, 4), Refused("append", "e7", 0, 5, Recipient, "E7b")>>

\* E2: the longer chain wins at once.
LongerOvertakes ==
  <<Need("mint", "e2", 0, 0, Recipient)>> \o Claim("e2", 0, Recipient, 2, "finalizeA")
  \o <<Check("E2a"), Local("snap", "none")>> \o Claim("e2", 1, Holder3, 3, "finalizeB")
  \o <<Check("E2b"), Check("E2c")>>

\* E3: of two chains of one length the first stands.
FirstStands ==
  <<Need("mint", "e3", 0, 0, Recipient)>> \o Claim("e3", 0, Recipient, 3, "finalizeA")
  \o <<Local("snap", "none")>> \o Claim("e3", 1, Holder3, 3, "finalizeB")
  \o <<Check("E3a")>> \o Settled("e3", 0) \o <<Check("E3b"), Check("E3c")>>

\* E8, E4, E5: not before the window, not a spent coin, not twice.
Settles ==
  <<Need("mint", "e8", 0, 0, Recipient)>> \o Claim("e8", 0, Recipient, 2, "finalizeA")
  \o <<Refused("settle", "e8", 0, 0, Recipient, "E8a")>> \o Settled("e8", 0)
  \o <<Check("E8b"), Refused("start", "e8", 1, 0, Recipient, "E4"),
       Refused("start", "e6", 0, 0, Recipient, "E5")>>

MatrixScript == Limits \o LongerOvertakes \o FirstStands \o Settles

\* P5: the first link, with the field it was stored with and with another one.
PqScript ==
  <<Local("prefund", "none"), Local("topup", "none"), Need("mint", "pq", 0, 0, Recipient),
    Do("start", "pq", 0, 0, Recipient), Do("append", "pq", 0, 3, Recipient), Check("P3a"),
    Check("P3b"), Do("finalizeA", "pq", 0, 0, Recipient), Check("P3c"), Local("wait", "pq"),
    Do("settle", "pq", 0, 0, Recipient), Check("P4"), Do("verify", "pq", 0, 1, Recipient),
    Refused("verify", "pq", 0, 1, Holder3, "P5b")>>

\* E7 of the smoke test finalizes whatever is not pending.
SmokeScript ==
  <<Need("reserve", "m1", 0, 1000, MintAuthority), Need("fund", "m1", 0, 1000, MintAuthority),
    Need("mint", "m1", 0, 0, Recipient), Need("bond", "m1", 0, 500, Recipient),
    Need("start", "m1", 0, 0, Recipient), AppendTo("m1", 0, 3), Final("finalizeM1", "m1", 0)>>
  \o Settled("m1", 0)

StepsOf == [matrix |-> MatrixScript, pq |-> PqScript, smoke |-> SmokeScript]
Script == StepsOf[script]
Runs == IF script = "matrix" THEN MaxRuns ELSE MaxRuns + 1

OwnersOf(l, a) ==
  LET abc == <<Recipient, Holder2, Holder3>> IN
  CASE l = "e6" -> abc \o abc
    [] l = "e7" -> abc \o <<Recipient, Holder2>>
    [] l = "e8" \/ (l = "e2" /\ a = 0) -> <<Recipient, Holder2>>
    [] OTHER -> abc

BuildChain(sn, owners) ==
  LET st[i \in 1..Len(owners)] ==
        IF i = 1 THEN GenesisState(sn, Value, owners[1]) ELSE NextState(st[i-1], owners[i])
  IN st
-----------------------------------------------------------------------------
ASSUME ScriptAssumption ==
  /\ {Recipient, Holder2, Holder3} \subseteq Wallets
  /\ Value \in Values
  /\ MaxRuns \in Nat \ {0} /\ Scripts \subseteq DOMAIN StepsOf
  /\ Stray \subseteq Scripts /\ Unsure \subseteq Scripts
\* What the scripts send is among what may be sent.
ASSUME SerialsAssumption == Labels \X (0..MaxRuns + 1) \subseteq Serials
ASSUME AmountsAssumption == 0..1000 \subseteq Amounts /\ {50, 1000000} \subseteq Caps
ASSUME LinksAssumption ==
  \A sn \in Labels \X (0..MaxRuns + 1), a \in Attempts :
    LET c == BuildChain(sn, OwnersOf(sn[1], a)) IN
    \A i, j \in 1..Len(c) : SubSeq(c, i, j) \in LinkBatches

\* What the theorems about the scripts assume.  The bond is the value of the coin
\* and is no overflow; two links fit a batch; the holders are different wallets;
\* only the PQ run, in at most seven runs, leaves transactions behind: so many
\* mints the 700 cover that the vault is topped up by; the cap of the matrix and
\* the default one have room for the coins of all runs.
Configured ==
  /\ BondBps = 10000 /\ Value * BondBps <= U64Max
  /\ MaxLinks >= 2
  /\ Holder3 # Recipient
  /\ Stray \subseteq {"pq"} /\ ("pq" \in Stray => MaxRuns <= 6)
  /\ 600 * (MaxRuns + 1) <= 1000000
  /\ 200 * (MaxRuns + 1) <= DefaultAllowance

Now == Script[pc]
Sub(s) == sub[Label(s.l)][s.a]
Sends == {"mint", "start", "append", "finalizeA", "finalizeB", "finalizeM1", "settle", "cap",
          "fund", "verify"}

\* Mutant: start does not look for a submission.
MutNeeded(s) ==
  CASE s.op = "mint" -> registry[Label(s.l)].status = "NONE"
    [] s.op = "bond" -> Sub(s).status = "NONE" /\ wallet[s.w] < Value + 50
    [] s.op = "append" -> Len(Sub(s).states) < s.n
    [] s.op \in {"finalizeA", "finalizeB"} -> Sub(s).status = "RECEIVING"
    [] s.op = "finalizeM1" -> Sub(s).status # "PENDING"
    [] s.op = "settle" -> Sub(s).status = "PENDING"
    [] s.op \in {"reserve", "fund"} -> vault < s.n
    [] OTHER -> TRUE

\* What a helper reads before it sends.
Needed(s) ==
  CASE s.op = "mint" -> registry[Label(s.l)].status = "NONE"
    [] s.op = "start" -> Sub(s).status = "NONE"
    [] s.op = "bond" -> Sub(s).status = "NONE" /\ wallet[s.w] < Value + 50
    [] s.op = "append" -> Len(Sub(s).states) < s.n
    [] s.op \in {"finalizeA", "finalizeB"} -> Sub(s).status = "RECEIVING"
    [] s.op = "finalizeM1" -> Sub(s).status # "PENDING"
    [] s.op = "settle" -> Sub(s).status = "PENDING"
    [] s.op \in {"reserve", "fund"} -> vault < s.n
    [] OTHER -> TRUE

\* Mutant: the last state is left out.
MutBatchTo(s) ==
  SubSeq(BuildChain(Label(s.l), OwnersOf(s.l, s.a)), Len(Sub(s).states) + 1, s.n - 1)

\* The links a batch carries: from the states on chain up to n, MaxLinks at most.
BatchTo(s) ==
  LET c == BuildChain(Label(s.l), OwnersOf(s.l, s.a))
      len == Len(Sub(s).states)
  IN SubSeq(c, len + 1, IF len + MaxLinks < s.n THEN len + MaxLinks ELSE s.n)

TxOf(s) ==
  [op |-> s.op, sn |-> Label(s.l), a |-> s.a, tag |-> s.tag,
   n |-> IF s.op = "fund" THEN s.n - vault ELSE s.n,
   w |-> IF s.op = "append" THEN OwnersOf(s.l, s.a)[Len(Sub(s).states)] ELSE s.w,
   links |-> IF s.op = "append" THEN BatchTo(s) ELSE <<>>]
NoTx == <<>>

\* The commitment stored with link n is of the field its signer filled, the owner
\* of the state before; whose signature a field carries stands for the field.
CommitIs(sn, a, n, w) ==
  LET st == sub[sn][a].states IN n >= 1 /\ n < Len(st) /\ w = st[n].owner

\* The simulation of a transaction runs all the program's checks.
Simulates(t) ==
  CASE t.op = "mint" -> CanMint(t.sn, Value, OpenAllowance(Recipient))
    [] t.op = "start" -> CanStart(t.sn, t.a, t.w, GenesisState(t.sn, Value, Recipient))
    [] t.op = "append" -> BatchFits(t.sn, t.a, t.w, t.links, StateHash(t.links[Len(t.links)]))
    [] t.op \in {"finalizeA", "finalizeM1"} -> CanReject(t.sn, t.a) \/ CanSetHead(t.sn, t.a)
    [] t.op = "finalizeB" -> \/ CanReject(t.sn, t.a) \/ CanSetHead(t.sn, t.a) \/ CanWin(t.sn, t.a)
                             \/ CanResolve(t.sn, t.a) /\ ~BeatsHead(t.sn, t.a)
    [] t.op = "settle" -> CanPayOut(t.sn, t.a, FALSE, TRUE)
    [] t.op = "cap" -> allowance[Recipient].initialized /\ t.n >= allowance[Recipient].committed
    [] t.op = "fund" -> wallet[MintAuthority] >= t.n
    [] t.op = "verify" -> CommitIs(t.sn, t.a, t.n, t.w)
\* Only finalizeB brings the accounts of the other submission.
Exec(t) ==
  CASE t.op = "mint" -> MintCoin(t.sn, Value, Recipient)
    [] t.op = "start" -> StartCheckIn(t.sn, t.a, t.w, GenesisState(t.sn, Value, Recipient))
    [] t.op = "append" -> AppendLinks(t.sn, t.a, t.w, t.links, StateHash(t.links[Len(t.links)]))
    [] t.op \in {"finalizeA", "finalizeM1"} -> FinRejectSpent(t.sn, t.a) \/ FinSetHead(t.sn, t.a)
    [] t.op = "finalizeB" -> FinalizeCheckIn(t.sn, t.a)
    [] t.op = "settle" -> Settle(t.sn, t.a, FALSE, TRUE)
    [] t.op = "cap" -> SetAllowance(Recipient, t.n)
    [] t.op = "fund" -> FundVault(t.n)
    [] t.op = "verify" -> Simulates(t) /\ UNCHANGED vars

\* The first check of the program that a transaction fails, as far as the scripts
\* tell one error from another.
StartError(t) ==
  IF sub[t.sn][t.a].status # "NONE" THEN "AlreadyInUse"
  ELSE IF registry[t.sn].status = "SPENT" THEN "StatusInvalid" ELSE "other"
AppendError(s, t) ==
  IF s.status # "RECEIVING" THEN "StatusInvalid"
  ELSE IF t.links = <<>> THEN "EmptyLinks"
  ELSE IF Len(t.links) > MaxLinks THEN "MaxLinksExceeded"
  ELSE IF Len(s.states) + Len(t.links) > MaxSubmissionStates THEN "StatesFull" ELSE "other"
SettleError(t) ==
  IF \/ registry[t.sn].status # "ACTIVE" \/ sub[t.sn][t.a].status # "PENDING"
     \/ ~head[t.sn].set \/ head[t.sn].attempt # t.a
  THEN "StatusInvalid"
  ELSE IF head[t.sn].age < Window THEN "WindowExpired" ELSE "other"
VerifyError(s, t) ==
  IF t.n < 1 \/ t.n >= Len(s.states) THEN "StatusInvalid" ELSE "SigCommitMismatch"
ErrorOf(t) ==
  CASE t.op = "cap" -> IF allowance[Recipient].initialized
                       THEN "AllowanceCapBelowCommitted" ELSE "other"
    [] t.op = "start" -> StartError(t)
    [] t.op = "append" -> AppendError(sub[t.sn][t.a], t)
    [] t.op = "settle" -> SettleError(t)
    [] t.op = "verify" -> VerifyError(sub[t.sn][t.a], t)
    [] OTHER -> "other"

\* expectErr, and the code each record asks for; E5 is content with any.
Wants == [E10b |-> "AllowanceCapBelowCommitted", E7b |-> "StatesFull",
          E8a |-> "WindowExpired", E4 |-> "StatusInvalid", P5b |-> "SigCommitMismatch"]
Expected(t) == t.tag = "E5" \/ ErrorOf(t) = Wants[t.tag]
-----------------------------------------------------------------------------
ScriptInit ==
  /\ Init
  /\ script \in Scripts /\ run = 1 /\ pc = 1 /\ phase = "at" /\ tx = NoTx
  /\ snap = [r |-> 0, h3 |-> 0, vault |-> 0]
  /\ failed = {} /\ late = {}

Onwards ==
  /\ pc' = IF pc < Len(Script) THEN pc + 1 ELSE pc
  /\ phase' = IF pc < Len(Script) THEN "at" ELSE "done"

Local_(op) == phase = "at" /\ Now.op = op
Elsewhere == UNCHANGED <<script, run, tx, late>>

Skip ==
  /\ phase = "at" /\ ~Now.always /\ ~Needed(Now)
  /\ Onwards
  /\ UNCHANGED <<vars, script, run, tx, snap, failed, late>>

SendTx ==
  /\ phase = "at" /\ Now.op \in Sends
  /\ Now.always \/ Needed(Now)
  /\ phase' = "flying" /\ tx' = TxOf(Now)
  /\ UNCHANGED <<vars, script, run, pc, snap, failed, late>>

\* The loop of appendTo reads the submission again.
Loops == Now.op = "append" /\ ~Now.always

\* Succeeding where a refusal is expected is a FAIL; a settle meant to be early is
\* excused when it was carried out after the window.
Recorded(t) ==
  IF t.tag = "none" \/ (t.op = "settle" /\ head[t.sn].age >= Window)
  THEN failed ELSE failed \cup {t.tag}

\* It lands and is confirmed.
Land ==
  /\ phase = "flying"
  /\ Exec(tx)
  /\ IF Loops THEN phase' = "at" /\ pc' = pc ELSE Onwards
  /\ failed' = Recorded(tx)
  /\ tx' = NoTx
  /\ UNCHANGED <<script, run, snap, late>>

\* It lands, and asking for the confirmation gets a 429.  The script is still in
\* send, with pc at what comes after it.  The last run is not disturbed.
LandUnconfirmed ==
  /\ phase = "flying" /\ script \in Unsure /\ run < Runs
  /\ Exec(tx)
  /\ phase' = "again"
  /\ pc' = IF Loops \/ pc = Len(Script) THEN pc ELSE pc + 1
  /\ UNCHANGED <<script, run, tx, snap, failed, late>>

\* The program takes it once more: the cap, the tokens of fund_vault, a check.
Repeats ==
  /\ phase = "again"
  /\ Exec(tx)
  /\ phase' = "at" /\ tx' = NoTx
  /\ failed' = Recorded(tx)
  /\ UNCHANGED <<script, run, pc, snap, late>>

\* A refusal is recorded, as a PASS only with the error that is expected.
Refusal(t) == failed' = IF Expected(t) THEN failed ELSE failed \cup {t.tag}

\* The simulation of the second one fails: send throws.  No script ends with a
\* step of which it would then record a refusal.
RepeatFails ==
  /\ phase = "again"
  /\ ~Simulates(tx)
  /\ IF tx.tag # "none" THEN Refusal(tx) /\ phase' = "at" /\ tx' = NoTx
     ELSE phase' = "twice" /\ UNCHANGED <<failed, tx>>
  /\ UNCHANGED <<vars, script, run, pc, snap, late>>

\* The simulation fails: send throws, and so does the run unless it records it.
Fails ==
  /\ phase = "flying"
  /\ ~Simulates(tx)
  /\ IF tx.tag # "none" THEN Refusal(tx) /\ Onwards
     ELSE phase' = "threw" /\ pc' = pc /\ failed' = failed
  /\ tx' = NoTx
  /\ UNCHANGED <<vars, script, run, snap, late>>

\* Mutant: the wallets are left as they are.
MutPrefunded(w) == wallet[w]
\* Recipient and Holder3 get 2000 when they have less than 1500.
Prefunded(w) ==
  IF w \in {Recipient, Holder3} /\ wallet[w] < 1500 THEN 2000 ELSE wallet[w]

Prefund ==
  /\ Local_("prefund")
  /\ wallet' = [w \in Accounts |-> Prefunded(w)]
  /\ Onwards /\ Elsewhere
  /\ UNCHANGED <<supply, vault, fees, registry, head, sub, escrow, allowance, snap, failed>>

\* Mutant: room for the three fresh coins only.
MutTopped == IF vault < supply + 300 THEN supply + 300 ELSE vault
\* The vault is topped up to 700 above the supply.
Topped == IF vault < supply + 700 THEN supply + 700 ELSE vault

\* The supply is that of the configuration read when the run began, which mints
\* nothing before; a late mint between the two reads is as one after the top-up, and
\* a late settle there leaves the vault of the code 100 more.
TopUp ==
  /\ Local_("topup")
  /\ vault' = Topped
  /\ Onwards /\ Elsewhere
  /\ UNCHANGED <<supply, fees, wallet, registry, head, sub, escrow, allowance, snap, failed>>

\* mintTo the account of s.w: what a bond needs, or what the vault lacks.
MintTo(op, amount) ==
  /\ Local_(op) /\ Needed(Now)
  /\ wallet' = [wallet EXCEPT ![Now.w] = @ + amount]
  /\ Onwards /\ Elsewhere
  /\ UNCHANGED <<supply, vault, fees, registry, head, sub, escrow, allowance, snap, failed>>

EnsureBond == MintTo("bond", Now.n)
Reserve == MintTo("reserve", Now.n - vault)

\* The smoke test sleeps 25 seconds instead; that this outlasts the window is an
\* assumption about the configuration it runs against.
WaitWindow ==
  /\ Local_("wait")
  /\ head[Label(Now.l)].age >= Window
  /\ Onwards /\ Elsewhere
  /\ UNCHANGED <<vars, snap, failed>>

Snapshot ==
  /\ Local_("snap")
  /\ snap' = [r |-> wallet[Recipient], h3 |-> wallet[Holder3], vault |-> vault]
  /\ Onwards /\ Elsewhere
  /\ UNCHANGED <<vars, failed>>

St(l, a) == sub[Label(l)][a].status
Spent(l) == registry[Label(l)].status = "SPENT"

Holds(tag) ==
  CASE tag = "E10a" -> allowance[Recipient].cap = 1000000
    [] tag = "E2a" -> St("e2", 0) = "PENDING" /\ head[Label("e2")].set
    [] tag = "E2b" -> St("e2", 1) = "WON" /\ St("e2", 0) = "LOST" /\ Spent("e2")
    [] tag = "E2c" -> /\ wallet[Holder3] = snap.h3 + 200 /\ vault = snap.vault - 100
                      /\ escrow[Label("e2")][0] = 0
    [] tag = "E3a" -> St("e3", 1) = "LOST" /\ St("e3", 0) = "PENDING"
    [] tag = "E3b" -> St("e3", 0) = "WON" /\ Spent("e3")
    [] tag = "E3c" -> /\ wallet[Recipient] = snap.r + 200 /\ wallet[Holder3] = snap.h3
                      /\ vault = snap.vault - 100
    [] tag = "E8b" -> St("e8", 0) = "WON"
    [] tag = "P3a" -> Len(sub[Label("pq")][0].states) = 3 /\ St("pq", 0) = "RECEIVING"
    [] tag = "P3b" -> sub[Label("pq")][0].states = BuildChain(Label("pq"), OwnersOf("pq", 0))
    [] tag = "P3c" -> St("pq", 0) = "PENDING"
    [] tag = "P4" -> St("pq", 0) = "WON" /\ Spent("pq")

Record ==
  /\ Local_("check")
  /\ failed' = IF Holds(Now.tag) THEN failed ELSE failed \cup {Now.tag}
  /\ Onwards /\ Elsewhere
  /\ UNCHANGED <<vars, snap>>

\* A late verify_sig_commit changes nothing.
Crash ==
  /\ phase \in {"at", "flying", "again"} /\ run < Runs
  /\ phase' = "dead" /\ tx' = NoTx
  /\ late' = IF script \in Stray /\ phase = "flying" /\ tx.op # "verify"
             THEN late \cup {tx} ELSE late
  /\ UNCHANGED <<vars, script, run, pc, snap, failed>>

Rerun ==
  /\ phase \in {"dead", "threw", "twice"} /\ run < Runs
  /\ run' = run + 1 /\ pc' = 1 /\ phase' = "at" /\ tx' = NoTx
  /\ UNCHANGED <<vars, script, snap, failed, late>>

LateLand ==
  /\ \E t \in late : Exec(t) /\ late' = late \ {t}
  /\ UNCHANGED <<script, run, pc, phase, tx, snap, failed>>

LateLost ==
  /\ \E t \in late : late' = late \ {t}
  /\ UNCHANGED <<vars, script, run, pc, phase, tx, snap, failed>>

Pass == Tick /\ UNCHANGED scriptVars

Go ==
  \/ Skip \/ SendTx \/ Land \/ Fails \/ Repeats \/ RepeatFails \/ Prefund \/ TopUp
  \/ EnsureBond \/ Reserve \/ WaitWindow \/ Snapshot \/ Record \/ Rerun

ScriptNext == Go \/ LandUnconfirmed \/ Crash \/ LateLand \/ LateLost \/ Pass

ScriptSpec == ScriptInit /\ [][ScriptNext]_allVars

\* The process goes on, slots pass, and a script that ended with an error is run
\* again.
ScriptFairSpec == ScriptSpec /\ WF_allVars(Go) /\ WF_allVars(Pass)
-----------------------------------------------------------------------------
\* The records of what the program does are PASS in every run, started again after
\* an interruption at any point or not (e2e-matrix.ts 3), each refusal with the code
\* that is asked for.  The exception is E8a: a settle that came after the window
\* and is sent once more is refused for its status, and recorded as a FAIL.
RecordsHold == failed \subseteq IF script \in Unsure THEN {"E8a"} ELSE {}

\* What a transaction was to bring about is there.
Landed(t) ==
  LET s == sub[t.sn][t.a] IN
  CASE t.op = "mint" -> registry[t.sn].status # "NONE"
    [] t.op = "start" -> s.status # "NONE"
    [] t.op = "append" -> Len(s.states) > 1 /\ LastState(s) = t.links[Len(t.links)]
    [] t.op \in {"finalizeA", "finalizeB", "finalizeM1"} -> s.status \notin {"NONE", "RECEIVING"}
    [] t.op = "settle" -> s.status = "WON"
    [] t.op = "fund" -> vault >= t.n
    [] t.op = "cap" -> allowance[Recipient].cap = t.n
    [] t.op = "verify" -> CommitIs(t.sn, t.a, t.n, t.w)

\* The program refuses nothing that a run needs: what earlier runs left behind is
\* skipped, and the wallets, the vault and the cap suffice.  A run ends with a
\* refusal only in the smoke test, once there is nothing left for it to do, or when
\* the transaction is sent for a second time after it has done its work.
Paid == script = "smoke" /\ Spent("m1")
NothingThrows ==
  /\ phase = "threw" => Paid
  /\ phase = "twice" => Landed(tx)

\* A script that is run again after an interruption gets to its report, the smoke
\* test to the payout of its coin.
Completes == <>(phase = "done" \/ Paid)
=============================================================================
