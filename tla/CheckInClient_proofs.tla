------------------------ MODULE CheckInClient_proofs ------------------------
(***************************************************************************)
(* Theorems about CheckInClient, for any number of clients, coins of any   *)
(* length, any number of faults and any rivals.  The program's part of a   *)
(* step is a step of ObpCore or a top-up, so that the invariants of        *)
(* ObpCore carry over; then the client's own: its types, and that settle   *)
(* is never sent early.                                                    *)
(***************************************************************************)
EXTENDS CheckInClient, ObpCore_proofs

\* A client's coin: its serial, its genesis state and its wallets.
LEMMA CoinFacts ==
  ASSUME NEW c \in Clients
  PROVE  /\ SerialOf(c) \in Serials /\ RecipientOf(c) \in Wallets
         /\ CheckerOf[c] \in Wallets
         /\ CoinOf[c] \in Seq(State) /\ Len(CoinOf[c]) \in Nat \ {0}
         /\ CoinOf[c][1] \in State /\ CoinOf[c][1].value \in Values
         /\ CoinOf[c][1] = GenesisState(SerialOf(c), CoinOf[c][1].value, RecipientOf(c))
<1>1. /\ CoinOf[c] \in Seq(State) /\ CoinOf[c] # <<>> /\ CheckerOf[c] \in Wallets
      /\ CoinOf[c][1] = GenesisState(SerialOf(c), CoinOf[c][1].value, RecipientOf(c))
  BY ClientAssumption
<1>2. Len(CoinOf[c]) \in Nat \ {0} /\ CoinOf[c][1] \in State
  BY <1>1
<1>3. QED
  BY <1>1, <1>2 DEF SerialOf, RecipientOf, State

\* No state hashes to the zero hash.
LEMMA HashNotEmpty ==
  ASSUME NEW x \in State
  PROVE  StateHash(x) # <<>>
<1> DEFINE core == [serial |-> x.serial, value |-> x.value, owner |-> x.owner]
<1>1. core \in Core /\ x.prev \in Seq(Core)
  BY DEF State, Core, Hash
<1>2. StateHash(x) = Append(x.prev, core)
  BY DEF StateHash
<1> HIDE DEF core
<1>3. Append(x.prev, core) # <<>>
  BY <1>1
<1>4. QED
  BY <1>2, <1>3

\* What a non-empty part of a sequence begins with.
LEMMA PartOfSeq ==
  ASSUME NEW S, NEW q \in Seq(S), NEW m \in Nat, NEW k \in Nat, k <= Len(q),
         SubSeq(q, m + 1, k) # <<>>
  PROVE  /\ m + 1 <= k /\ SubSeq(q, m + 1, k) \in Seq(S)
         /\ Len(SubSeq(q, m + 1, k)) = k - m
         /\ SubSeq(q, m + 1, k)[1] = q[m + 1]
<1>1. m + 1 <= k
  <2>1. CASE m + 1 > k
    <3>1. Len(SubSeq(q, m + 1, k)) = 0 /\ SubSeq(q, m + 1, k) \in Seq(S)
      BY <2>1
    <3>2. QED
      BY <3>1
  <2>2. QED
    BY <2>1
<1>2. QED
  BY <1>1

\* The links of an append are a batch of links that follow the genesis state.
LEMMA BatchIsLinks ==
  ASSUME TypeOK, NEW t \in Txs, t.step = "append", Exec(t)
  PROVE  Batch(t.by, t.len) \in LinkBatches /\ Batch(t.by, t.len) # <<>>
<1> DEFINE coin == CoinOf[t.by]
           k == IF t.len + MaxLinks < Len(coin) THEN t.len + MaxLinks ELSE Len(coin)
           links == SubSeq(coin, t.len + 1, k)
           sn == SerialOf(t.by)
           s == sub[sn][t.a]
<1>0. t.by \in Clients /\ t.len \in Nat /\ t.a \in Attempts
  BY DEF Txs, MaxSubmissionStates
<1>1. /\ coin \in Seq(State) /\ Len(coin) \in Nat /\ sn \in Serials /\ MaxLinks \in Nat
      /\ coin[1] = GenesisState(sn, coin[1].value, RecipientOf(t.by))
  BY <1>0, CoinFacts, ConfigAssumption
<1>2. links = Batch(t.by, t.len)
  BY DEF Batch
<1>3. /\ links # <<>> /\ s.status = "RECEIVING" /\ Len(links) \in Nat
      /\ BatchFollows(s.states, links, sn, registry[sn].value)
  <2>1. AppendLinks(sn, t.a, t.owner, links, StateHash(coin[Len(coin)]))
    BY <1>2 DEF Exec
  <2>2. Len(links) \in Nat
    BY <1>1, <1>0
  <2>3. QED
    BY <2>1, <2>2 DEF AppendLinks, CanAppend, LinksFit, BatchFits
<1>4. t.len + 1 <= k /\ k \in Nat /\ k <= Len(coin) /\ links[1] = coin[t.len + 1]
  <2>1. k \in Nat /\ k <= Len(coin)
    BY <1>0, <1>1
  <2> HIDE DEF coin, k
  <2>2. QED
    BY <2>1, <1>0, <1>1, <1>3, PartOfSeq
<1>5. t.len # 0
  <2> SUFFICES ASSUME t.len = 0 PROVE FALSE
    OBVIOUS
  <2>1. links[1].prev = <<>>
    BY <1>4, <1>1 DEF GenesisState, ZeroHash
  <2>2. s.states[Len(s.states)] \in State
    BY <1>0, <1>1, <1>3, StartedSubmission DEF LastState
  <2>3. 1 \in 1..Len(links)
    BY <1>3, <1>1, <1>0, <1>4
  <2>4. links[1].prev = StateHash(s.states[Len(s.states)])
    BY <1>3, <2>3 DEF BatchFollows, Follows
  <2>5. StateHash(s.states[Len(s.states)]) # <<>>
    BY <2>2, HashNotEmpty
  <2>6. QED
    BY <2>1, <2>4, <2>5
<1>6. t.len + 1 \in 2..Len(coin) /\ k \in 2..Len(coin)
  <2>1. t.len \in Nat /\ Len(coin) \in Nat
    BY <1>0, <1>1
  <2> HIDE DEF coin, k
  <2>2. QED
    BY <2>1, <1>4, <1>5
<1>7. links \in LinkBatches
  BY <1>0, <1>4, <1>6, ClientAssumption
<1>8. QED
  BY <1>2, <1>3, <1>7

\* What a client sends is an instruction of the program.
LEMMA ExecNext ==
  ASSUME TypeOK, NEW t \in Txs, Exec(t)
  PROVE  Next
<1> DEFINE c == t.by
           sn == SerialOf(c)
<1>0. c \in Clients /\ t.a \in Attempts /\ t.step \in Steps /\ sn \in Serials
  BY CoinFacts DEF Txs
<1>1. CASE t.step = "start"
  <2>1. StartCheckIn(sn, t.a, RecipientOf(c), GenesisState(sn, CoinOf[c][1].value, RecipientOf(c)))
    BY <1>0, <1>1, CoinFacts DEF Exec
  <2>2. RecipientOf(c) \in Wallets /\ CoinOf[c][1].value \in Values
    BY <1>0, CoinFacts
  <2>3. QED
    BY <1>0, <2>1, <2>2 DEF Next
<1>2. CASE t.step = "append"
  <2> DEFINE links == Batch(c, t.len)
             h == StateHash(CoinOf[c][Len(CoinOf[c])])
  <2>1. AppendLinks(sn, t.a, t.owner, links, h)
    BY <1>2 DEF Exec
  <2>2. links \in LinkBatches /\ links # <<>> /\ links \in Seq(State)
    BY <1>2, BatchIsLinks, InputAssumption
  <2>3. t.owner \in Wallets
    <3>1. sub[sn][t.a].status = "RECEIVING" /\ LastState(sub[sn][t.a]).owner = t.owner
      BY <2>1 DEF AppendLinks, CanAppend, LinksFit, BatchFits
    <3>2. QED
      BY <1>0, <3>1, StartedSubmission DEF State
  <2>4. StateHash(links[Len(links)]) = h
    BY <2>1 DEF AppendLinks, BatchFits
  <2>5. Len(links) \in DOMAIN links
    <3> HIDE DEF links
    <3>1. QED
      BY <2>2
  <2> HIDE DEF links, h
  <2>6. QED
    BY <1>0, <2>1, <2>2, <2>3, <2>4, <2>5 DEF Next
<1>3. CASE t.step = "finalize"
  BY <1>0, <1>3 DEF Exec, Next, FinalizeCheckIn
<1>4. CASE t.step = "settle"
  <2>1. Settle(sn, t.a, FALSE, TRUE)
    BY <1>4 DEF Exec
  <2>2. QED
    BY <1>0, <2>1 DEF Next
<1>5. QED
  BY <1>0, <1>1, <1>2, <1>3, <1>4 DEF Steps

-----------------------------------------------------------------------------
(* Types. *)

\* The client part of the types, one transaction at a time.
LEMMA NewTx ==
  ASSUME TypeOK, NEW c \in Clients, NEW step \in Steps, NEW a \in Attempts,
         NEW len \in 0..MaxSubmissionStates, NEW w \in Wallets \cup {NoWallet}
  PROVE  Tx(c, step, a, len, w) \in Txs
BY DEF Tx, Txs

\* A client's state, field by field.
LEMMA ClientRecord ==
  ASSUME ClientTypeOK, NEW c \in Clients
  PROVE  /\ cl[c] \in [pc : Pcs, a : Attempts, due : 0..Window, tx : Txs,
                        net : {"none", "flying", "landed"}, tries : Nat, runs : Nat,
                        need : Nat, stray : SUBSET (Nat \X Nat)]
         /\ cl[c].tx.by \in Clients /\ cl[c].tx.a \in Attempts /\ cl[c].tx.step \in Steps
BY DEF ClientTypeOK, Txs

\* The initial states are typed.
LEMMA ClientInitTypes == ClientInit => TypeOK /\ ClientTypeOK
<1> SUFFICES ASSUME ClientInit PROVE TypeOK /\ ClientTypeOK
  OBVIOUS
<1>1. TypeOK
  BY InitTypes DEF ClientInit
<1>2. ASSUME NEW c \in Clients PROVE NoTx \in Txs
  <2> DEFINE d == CHOOSE e \in Clients : TRUE
  <2>1. d \in Clients
    OBVIOUS
  <2> HIDE DEF d
  <2>2. Tx(d, "start", 0, 0, NoWallet) \in Txs
    BY <2>1, <1>1, NewTx DEF Steps, Attempts, MaxSubmissionStates
  <2>3. QED
    BY <2>2 DEF NoTx, d
<1>3. ASSUME NEW c \in Clients
      PROVE  Idle \in [pc : Pcs, a : Attempts, due : 0..Window, tx : Txs,
                       net : {"none", "flying", "landed"}, tries : Nat, runs : Nat,
                       need : Nat, stray : SUBSET (Nat \X Nat)]
  BY <1>2, ConfigAssumption DEF Idle, Pcs, Attempts
<1>4. ClientTypeOK
  BY <1>3 DEF ClientInit, ClientTypeOK
<1>5. QED
  BY <1>1, <1>4

\* Topping up moves tokens to the checker and nothing else of the program.
LEMMA NeededNat ==
  ASSUME TypeOK, NEW c \in Clients
  PROVE  Needed(c) \in Nat
<1>1. /\ Bond(SerialOf(c)) \in Nat /\ wallet[CheckerOf[c]] \in Nat
      /\ BondSlack \in Nat /\ BondTopUp \in Nat /\ BondSlack <= BondTopUp
  BY BondNat, CoinFacts, ClientAssumption DEF TypeOK, AccountTypes, Accounts
<1>2. QED
  BY <1>1 DEF Needed

\* A top-up moves tokens and nothing else.
LEMMA MintTypes ==
  ASSUME TypeOK, NEW c \in Clients, NEW n \in Nat, Mint(c, n)
  PROVE  TypeOK' /\ UNCHANGED <<registry, head, sub, escrow>>
<1>1. wallet' \in [Accounts -> Nat]
  BY CoinFacts DEF Mint, TypeOK, AccountTypes, Accounts
<1>2. UNCHANGED <<supply, vault, fees, registry, head, sub, escrow, allowance>>
  BY DEF Mint
<1>3. QED
  BY <1>1, <1>2 DEF TypeOK, AccountTypes, RegistryWritten, SubmissionWritten

\* A top-up that outlives its run concerns nothing that the run knows.
LEMMA StrayFrame ==
  ASSUME ClientTypeOK, NEW c \in Clients, StrayMint(c)
  PROVE  /\ UNCHANGED vars \/ \E n \in Nat : Mint(c, n)
         /\ UNCHANGED <<late, faults>>
         /\ \E left \in SUBSET (Nat \X Nat) : cl' = [cl EXCEPT ![c].stray = left]
         /\ \A d \in Clients :
              /\ cl'[d].pc = cl[d].pc /\ cl'[d].a = cl[d].a /\ cl'[d].due = cl[d].due
              /\ cl'[d].tx = cl[d].tx /\ cl'[d].net = cl[d].net /\ cl'[d].need = cl[d].need
<1>1. PICK m \in cl[c].stray : /\ Mint(c, m[2]) \/ Quiet
                               /\ cl' = [cl EXCEPT ![c].stray = @ \ {m}]
  BY DEF StrayMint
<1>2. cl[c].stray \in SUBSET (Nat \X Nat)
  BY DEF ClientTypeOK
<1>3. m[2] \in Nat /\ cl[c].stray \ {m} \in SUBSET (Nat \X Nat)
  BY <1>2
<1>4. \E left \in SUBSET (Nat \X Nat) : cl' = [cl EXCEPT ![c].stray = left]
  BY <1>1, <1>3
<1>5. \A d \in Clients :
        /\ cl'[d].pc = cl[d].pc /\ cl'[d].a = cl[d].a /\ cl'[d].due = cl[d].due
        /\ cl'[d].tx = cl[d].tx /\ cl'[d].net = cl[d].net /\ cl'[d].need = cl[d].need
  BY <1>4 DEF ClientTypeOK
<1>6. /\ UNCHANGED vars \/ \E n \in Nat : Mint(c, n)
      /\ UNCHANGED <<late, faults>>
  BY <1>1, <1>3 DEF Mint, Quiet
<1>7. QED
  BY <1>4, <1>5, <1>6

\* The program's part of a step: an instruction, nothing, or a top-up.
LEMMA ProgramStep ==
  ASSUME TypeOK, ClientTypeOK, [ClientNext]_allVars
  PROVE  [Next]_vars \/ \E c \in Clients, n \in Nat : Mint(c, n)
<1>1. CASE UNCHANGED allVars
  BY <1>1 DEF allVars
<1>2. CASE Issue
  <2>1. CASE \E n \in Amounts : FundVault(n)
    BY <2>1 DEF Next
  <2>2. ASSUME NEW c \in Clients, MintCoin(SerialOf(c), CoinOf[c][1].value, RecipientOf(c))
        PROVE  Next
    BY <2>2, CoinFacts DEF Next
  <2>3. QED
    BY <1>2, <2>1, <2>2 DEF Issue
<1>3. CASE Rival
  <2>1. PICK sn \in Serials, a \in Attempts :
          \/ \E r \in Rivals, v \in Values, w \in Wallets :
               StartCheckIn(sn, a, r, GenesisState(sn, v, w))
          \/ \E links \in LinkBatches, w \in Wallets :
               \E i \in DOMAIN links : AppendLinks(sn, a, w, links, StateHash(links[i]))
          \/ FinalizeCheckIn(sn, a)
          \/ Settle(sn, a, FALSE, TRUE)
    BY <1>3 DEF Rival
  <2>2. Rivals \subseteq Wallets
    BY ClientAssumption
  <2>3. QED
    BY <2>1, <2>2 DEF Next
<1>4. CASE ClientTick
  BY <1>4 DEF ClientTick, Next
<1>5. ASSUME NEW c \in Clients, Client(c)
      PROVE  [Next]_vars \/ \E n \in Nat : Mint(c, n)
  <2>1. CASE Land(c)
    BY <2>1, ClientRecord, ExecNext DEF Land
  <2>2. CASE MintTo(c)
    BY <2>2 DEF MintTo, ClientTypeOK
  <2>3. CASE ~Land(c) /\ ~MintTo(c)
    BY <1>5, <2>3
    DEF Client, Begin, ReadBalance, Look, LookSecond, Append_, Finalize, Finalized, ReadHead, Wait, Report,
        Submit, LandFailing, Confirm, Quiet
  <2>4. QED
    BY <2>1, <2>2, <2>3
<1>6. ASSUME NEW c \in Clients, RateLimited(c) \/ Expire(c) \/ Crash(c) \/ StrayMint(c)
      PROVE  UNCHANGED vars \/ \E n \in Nat : Mint(c, n)
  BY <1>6, StrayFrame DEF RateLimited, Expire, Crash
<1>7. ASSUME NEW t \in late, LateLand(t) \/ LateLost(t)
      PROVE  [Next]_vars
  <2>1. t \in Txs
    BY DEF ClientTypeOK
  <2>2. QED
    BY <1>7, <2>1, ExecNext DEF LateLand, LateLost
<1>8. QED
  BY <1>1, <1>2, <1>3, <1>4, <1>5, <1>6, <1>7 DEF ClientNext

\* What a client knows when it sends has the type of a transaction.
LEMMA SendTypes ==
  ASSUME ClientTypeOK, NEW c \in Clients, NEW t \in Txs, Send(c, t)
  PROVE  cl' \in [Clients -> [pc : Pcs, a : Attempts, due : 0..Window, tx : Txs,
                              net : {"none", "flying", "landed"}, tries : Nat, runs : Nat,
                              need : Nat, stray : SUBSET (Nat \X Nat)]]
<1> DEFINE R == [pc : Pcs, a : Attempts, due : 0..Window, tx : Txs,
                 net : {"none", "flying", "landed"}, tries : Nat, runs : Nat,
                 need : Nat, stray : SUBSET (Nat \X Nat)]
           r == [cl[c] EXCEPT !.pc = "send", !.tx = t, !.net = "none", !.tries = 0]
<1>1. cl \in [Clients -> R]
  BY DEF ClientTypeOK
<1>2. r \in R
  <2>1. cl[c] \in R /\ "send" \in Pcs
    BY <1>1 DEF Pcs
  <2>2. QED
    BY <2>1
<1>3. cl' = [cl EXCEPT ![c] = r]
  BY <1>1 DEF Send
<1> HIDE DEF R, r
<1>4. QED
  BY <1>1, <1>2, <1>3 DEF R

\* Every step keeps the clients' types.
LEMMA ClientTypeStep ==
  ASSUME TypeOK, ClientTypeOK, [ClientNext]_allVars
  PROVE  ClientTypeOK'
<1> DEFINE R == [pc : Pcs, a : Attempts, due : 0..Window, tx : Txs,
                 net : {"none", "flying", "landed"}, tries : Nat, runs : Nat,
                 need : Nat, stray : SUBSET (Nat \X Nat)]
<1>0. cl \in [Clients -> R] /\ late \subseteq Txs /\ faults \in Nat
  BY DEF ClientTypeOK
<1> SUFFICES cl' \in [Clients -> R] /\ late' \subseteq Txs /\ faults' \in Nat
  BY DEF ClientTypeOK
<1>1. CASE UNCHANGED clientVars
  BY <1>0, <1>1 DEF clientVars
<1>2. CASE ClientTick
  BY <1>0, <1>2, ConfigAssumption DEF ClientTick
<1>3. ASSUME NEW c \in Clients, Client(c) PROVE cl' \in [Clients -> R] /\ UNCHANGED <<late, faults>>
  <2> DEFINE sn == SerialOf(c)
             t == cl[c].tx
  <2>t. cl[c] \in R /\ t \in Txs /\ t.a \in Attempts /\ t.step \in Steps /\ sn \in Serials
    BY ClientRecord, CoinFacts
  <2>s. \A a \in Attempts : sub[sn][a].status # "NONE" =>
          LastState(sub[sn][a]).owner \in Wallets /\ Len(sub[sn][a].states) \in 0..MaxSubmissionStates
    BY <2>t, StartedSubmission DEF State, MaxSubmissionStates
  <2>1. CASE Begin(c)
    <3>1. PICK pc \in Pcs : cl' = [cl EXCEPT ![c].runs = @ + 1, ![c].pc = pc]
      BY <2>1 DEF Begin, Pcs
    <3>2. cl' = [cl EXCEPT ![c] = [cl[c] EXCEPT !.runs = @ + 1, !.pc = pc]]
      BY <1>0, <3>1
    <3>3. [cl[c] EXCEPT !.runs = @ + 1, !.pc = pc] \in R
      <4>1. cl[c].runs + 1 \in Nat
        BY <2>t
      <4>2. ASSUME NEW n \in Nat PROVE [cl[c] EXCEPT !.runs = n, !.pc = pc] \in R
        BY <2>t
      <4>3. QED
        BY <4>1, <4>2
    <3>4. UNCHANGED <<late, faults>>
      BY <2>1 DEF Begin, Quiet
    <3>5. QED
      BY <1>0, <3>2, <3>3, <3>4
  <2>2. CASE ReadBalance(c) \/ MintTo(c)
    <3>1. PICK pc \in Pcs, n \in Nat : cl' = [cl EXCEPT ![c].pc = pc, ![c].need = n]
      BY <2>2, NeededNat DEF ReadBalance, MintTo, Pcs
    <3>2. UNCHANGED <<late, faults>>
      BY <2>2 DEF ReadBalance, MintTo, Mint, Quiet
    <3> DEFINE r == [cl[c] EXCEPT !.pc = pc, !.need = n]
    <3>3. cl' = [cl EXCEPT ![c] = r]
      BY <1>0, <3>1
    <3>4. r \in R
      BY <2>t
    <3> HIDE DEF r
    <3>5. QED
      BY <1>0, <3>2, <3>3, <3>4
  <2>3. CASE Look(c)
    BY <1>0, <2>3 DEF Look, Go, GoWith, Quiet, Pcs, Attempts
  <2>4. CASE LookSecond(c)
    <3>1. Tx(c, "start", StartAttempt(c), 0, NoWallet) \in Txs
      BY NewTx DEF Steps, Attempts, StartAttempt, MaxSubmissionStates
    <3>2. QED
      BY <1>0, <2>4, <3>1, SendTypes DEF LookSecond, GoWith, Quiet, Pcs, Attempts
  <2>5. CASE Append_(c)
    <3> DEFINE a == cl[c].a
               s == Mine(c)[a]
               new == Tx(c, "append", a, Len(s.states), LastState(s).owner)
    <3>1. s.status # "NONE" => new \in Txs
      BY <2>t, <2>s, NewTx DEF Steps, Mine
    <3>2. s.status = "NONE" \/ ~Send(c, new) => \E pc \in Pcs : Go(c, pc)
      BY <2>5 DEF Append_, Pcs
    <3>3. UNCHANGED <<late, faults>>
      BY <2>5 DEF Append_, Quiet
    <3>4. ASSUME NEW pc \in Pcs, Go(c, pc) PROVE cl' \in [Clients -> R]
      BY <1>0, <3>4 DEF Go
    <3> HIDE DEF s, new
    <3>5. QED
      BY <3>1, <3>2, <3>3, <3>4, SendTypes
  <2>6. CASE Finalize(c)
    <3>1. Tx(c, "finalize", cl[c].a, 0, NoWallet) \in Txs
      BY <2>t, NewTx DEF Steps, MaxSubmissionStates
    <3>2. QED
      BY <1>0, <2>6, <3>1, SendTypes DEF Finalize, Go, Quiet, Pcs
  <2>7. CASE Finalized(c)
    BY <1>0, <2>7 DEF Finalized, Go, Quiet, Pcs
  <2>8. CASE ReadHead(c)
    <3>1. head[sn].age \in 0..MaxAge
      BY <2>t DEF TypeOK, AccountTypes, Heads
    <3>2. DueAt(head[sn]) \in 0..Window
      BY <3>1, ConfigAssumption DEF DueAt, MaxAge
    <3>3. [cl[c] EXCEPT !.pc = "wait", !.due = DueAt(head[sn])] \in R
      BY <2>t, <3>2 DEF Pcs
    <3>4. cl' = [cl EXCEPT ![c] = [cl[c] EXCEPT !.pc = "wait", !.due = DueAt(head[sn])]]
      BY <1>0, <2>8 DEF ReadHead
    <3>5. UNCHANGED <<late, faults>>
      BY <2>8 DEF ReadHead, Quiet
    <3>6. QED
      BY <1>0, <3>3, <3>4, <3>5
  <2>9. CASE Wait(c)
    <3>1. Tx(c, "settle", cl[c].a, 0, NoWallet) \in Txs
      BY <2>t, NewTx DEF Steps, MaxSubmissionStates
    <3>2. QED
      BY <1>0, <2>9, <3>1, SendTypes DEF Wait, Quiet
  <2>10. CASE Report(c)
    BY <1>0, <2>10 DEF Report, Go, Quiet, Pcs
  <2>11. CASE Submit(c)
    BY <1>0, <2>11 DEF Submit, Go, Quiet, Pcs
  <2>12. CASE Land(c) \/ LandFailing(c)
    BY <1>0, <2>12 DEF Land, LandFailing, Quiet
  <2>13. CASE Confirm(c)
    <3>1. After(t.step) \in Pcs
      BY <2>t DEF After, Steps, Pcs
    <3>2. QED
      BY <1>0, <2>t, <2>13, <3>1 DEF Confirm, Quiet
  <2>14. QED
    BY <1>3, <2>1, <2>2, <2>3, <2>4, <2>5, <2>6, <2>7, <2>8, <2>9, <2>10, <2>11, <2>12, <2>13
    DEF Client
<1>4. ASSUME NEW c \in Clients, RateLimited(c) \/ Expire(c) \/ Crash(c)
      PROVE  cl' \in [Clients -> R] /\ late' \subseteq Txs /\ faults' \in Nat
  <2>1. cl[c].tx \in Txs /\ cl[c].tries \in Nat
    BY <1>0
  <2>2. CASE RateLimited(c)
    <3>1. PICK pc \in Pcs :
            cl' = [cl EXCEPT ![c].tries = @ + 1, ![c].net = "none", ![c].pc = pc]
      BY <2>2 DEF RateLimited, Pcs
    <3> DEFINE r == [cl[c] EXCEPT !.tries = @ + 1, !.net = "none", !.pc = pc]
    <3>2. cl' = [cl EXCEPT ![c] = r]
      BY <1>0, <3>1
    <3>3. r \in R
      <4>1. cl[c].tries + 1 \in Nat /\ cl[c] \in R
        BY <1>0, <2>1
      <4>2. ASSUME NEW n \in Nat
            PROVE  [cl[c] EXCEPT !.tries = n, !.net = "none", !.pc = pc] \in R
        BY <4>1
      <4>3. QED
        BY <4>1, <4>2
    <3>4. late' \subseteq Txs /\ faults' \in Nat
      BY <1>0, <2>1, <2>2 DEF RateLimited, Fault, Abandoned
    <3> HIDE DEF r
    <3>5. QED
      BY <1>0, <3>2, <3>3, <3>4
  <2>3. CASE Expire(c)
    BY <1>0, <2>1, <2>3 DEF Expire, Fault, Pcs
  <2>4. CASE Crash(c)
    <3>1. cl[c].stray \cup AbandonedMint(c) \in SUBSET (Nat \X Nat)
      BY <1>0 DEF AbandonedMint
    <3>2. PICK left \in SUBSET (Nat \X Nat) :
            cl' = [cl EXCEPT ![c].pc = "failed", ![c].net = "none", ![c].need = 0, ![c].stray = left]
      BY <2>4, <3>1 DEF Crash
    <3>3. late' \subseteq Txs /\ faults' \in Nat
      BY <1>0, <2>1, <2>4 DEF Crash, Fault, Abandoned
    <3> DEFINE r == [cl[c] EXCEPT !.pc = "failed", !.net = "none", !.need = 0, !.stray = left]
    <3>4. cl' = [cl EXCEPT ![c] = r]
      BY <1>0, <3>2
    <3>5. r \in R
      <4>1. cl[c] \in R /\ "failed" \in Pcs
        BY <1>0 DEF Pcs
      <4>2. QED
        BY <4>1
    <3> HIDE DEF r
    <3>6. QED
      BY <1>0, <3>3, <3>4, <3>5
  <2>5. QED
    BY <1>4, <2>2, <2>3, <2>4
<1>5. CASE \E t \in late : LateLand(t) \/ LateLost(t)
  BY <1>0, <1>5 DEF LateLand, LateLost
<1>6. ASSUME NEW c \in Clients, StrayMint(c)
      PROVE  cl' \in [Clients -> R] /\ late' \subseteq Txs /\ faults' \in Nat
  BY <1>0, <1>6, StrayFrame
<1>7. QED
  BY <1>0, <1>1, <1>2, <1>3, <1>4, <1>5, <1>6
  DEF ClientNext, Issue, Rival, allVars, clientVars

\* Every step keeps all the types: the program's by its own proof.
LEMMA AllTypesStep ==
  ASSUME TypeOK, ClientTypeOK, [ClientNext]_allVars
  PROVE  TypeOK' /\ ClientTypeOK'
BY ProgramStep, TypeStep, MintTypes, ClientTypeStep

\* The states of the accounts and of the clients always have their types.
THEOREM ClientTypes == ClientSpec => [](TypeOK /\ ClientTypeOK)
BY ClientInitTypes, AllTypesStep, PTL DEF ClientSpec

-----------------------------------------------------------------------------
(* The program's invariants under the clients' steps. *)

\* A head is live whoever runs the check-ins and however often they fail.
LEMMA ClientHeadStep ==
  ASSUME TypeOK, ClientTypeOK, HeadIsLive, [ClientNext]_allVars
  PROVE  HeadIsLive'
<1>1. CASE [Next]_vars
  BY <1>1, HeadStep
<1>2. ASSUME NEW c \in Clients, NEW n \in Nat, Mint(c, n) PROVE HeadIsLive'
  BY <1>2, MintTypes DEF HeadIsLive, HeadLiveAt
<1>3. QED
  BY <1>1, <1>2, ProgramStep

\* With clients and rivals, too: a head is that of a live submission (ObpCore).
THEOREM ClientHeadsAreLive == ClientSpec => []HeadIsLive
<1>1. ClientInit => HeadIsLive
  BY HeadInit DEF ClientInit
<1>2. QED
  BY <1>1, ClientTypes, ClientHeadStep, PTL DEF ClientSpec

\* The escrow of a submission holds its bond while it is open and nothing after.
THEOREM ClientBondsAreHeld == ClientSpec => []BondsHeldWhileOpen
<1> DEFINE Inv == \A sn \in Serials, a \in Attempts : EscrowRight(sn, a)
<1>1. ClientInit => Inv
  BY DEF ClientInit, Init, EscrowRight, NoSub, Open
<1>2. TypeOK /\ ClientTypeOK /\ Inv /\ [ClientNext]_allVars => Inv'
  <2> SUFFICES ASSUME TypeOK, ClientTypeOK, Inv, [ClientNext]_allVars PROVE Inv'
    OBVIOUS
  <2>1. CASE [Next]_vars
    BY <2>1, EscrowStep
  <2>2. ASSUME NEW c \in Clients, NEW n \in Nat, Mint(c, n) PROVE Inv'
    BY <2>2, MintTypes DEF EscrowRight, Bond
  <2>3. QED
    BY <2>1, <2>2, ProgramStep
<1>3. TypeOK /\ Inv => BondsHeldWhileOpen
  BY BondsSplit
<1>4. QED
  BY <1>1, <1>2, <1>3, ClientTypes, PTL DEF ClientSpec

-----------------------------------------------------------------------------
(* settle is not early. *)

\* A submission that has been finalized.
Passed(sn, a) == sub[sn][a].status \notin {"NONE", "RECEIVING"}

\* A finalized submission stays so, and while it is pending its head ages.
HeadAges(sn) ==
  \A a \in Attempts : Passed(sn, a) =>
    /\ Passed(sn, a)'
    /\ sub'[sn][a].status = "PENDING" =>
         sub[sn][a].status = "PENDING" /\ head'[sn].age >= head[sn].age

\* The age of a head that does not change.
LEMMA SameAges ==
  ASSUME TypeOK, NEW s \in Serials, sub'[s] = sub[s], head'[s] = head[s]
  PROVE  HeadAges(s)
BY DEF HeadAges, Passed, TypeOK, AccountTypes, Heads

\* No instruction makes a pending head younger.
LEMMA AgeStep ==
  ASSUME TypeOK, HeadIsLive, [Next]_vars, NEW s \in Serials
  PROVE  HeadAges(s)
<1> USE DEF HeadAges, Passed
<1>live. HeadLiveAt(s)
  BY DEF HeadIsLive
<1>age. head[s] \in Heads /\ head[s].age \in Nat
  BY DEF TypeOK, AccountTypes, Heads, MaxAge
<1>1. CASE Tick
  BY <1>1, <1>age DEF Tick
<1>2. CASE \/ \E n \in Amounts : FundVault(n)
           \/ \E w \in Wallets, cap \in Caps : SetAllowance(w, cap)
           \/ UNCHANGED vars
  BY <1>2, SameAges DEF FundVault, SetAllowance, vars
<1>3. ASSUME NEW sn \in Serials, NEW v \in Values, NEW w \in Wallets, MintCoin(sn, v, w)
      PROVE  HeadAges(s)
  BY <1>3, MintEffect, SameAges
<1>4. ASSUME NEW sn \in Serials, NEW a \in Attempts, NEW c \in Wallets,
             NEW st \in State, StartCheckIn(sn, a, c, st)
      PROVE  HeadAges(s)
  BY <1>4, <1>age, StartEffect
<1>5. ASSUME NEW sn \in Serials, NEW a \in Attempts, NEW links \in LinkBatches,
             NEW w \in Wallets, NEW h, AppendLinks(sn, a, w, links, h)
      PROVE  HeadAges(s)
  BY <1>5, <1>age, AppendEffect
<1>6. ASSUME NEW sn \in Serials, NEW a \in Attempts, FinRejectSpent(sn, a)
      PROVE  HeadAges(s)
  BY <1>6, <1>age, RejectEffect
<1>7. ASSUME NEW sn \in Serials, NEW a \in Attempts, FinSetHead(sn, a)
      PROVE  HeadAges(s)
  BY <1>7, <1>age, <1>live, SetHeadEffect DEF HeadLiveAt
<1>8. ASSUME NEW sn \in Serials, NEW a \in Attempts, FinResolveWin(sn, a)
      PROVE  HeadAges(s)
  BY <1>8, <1>age, WinEffect, OtherAttempt
<1>9. ASSUME NEW sn \in Serials, NEW a \in Attempts, FinResolveLose(sn, a)
      PROVE  HeadAges(s)
  BY <1>9, <1>age, LoseEffect
<1>10. ASSUME NEW sn \in Serials, NEW a \in Attempts, NEW withOther \in BOOLEAN,
              NEW withAllowance \in BOOLEAN, Settle(sn, a, withOther, withAllowance)
       PROVE  HeadAges(s)
  BY <1>10, <1>age, SettleEffect, OtherAttempt
<1>11. QED
  BY <1>1, <1>2, <1>3, <1>4, <1>5, <1>6, <1>7, <1>8, <1>9, <1>10, GenesisType
  DEF Next, FinalizeCheckIn

\* The strengthening of SettleNotEarly: a client waits for, and settles, what has
\* been finalized, and the slots it still waits reach the deadline.
OnTimeAt(c) ==
  LET sn == SerialOf(c)  r == cl[c] IN
  /\ r.pc \in {"head", "wait"} => Passed(sn, r.a)
  /\ r.pc = "wait" /\ sub[sn][r.a].status = "PENDING" => head[sn].age + r.due >= Window
  /\ r.pc \in {"send", "confirm"} /\ r.tx.step = "settle" =>
       /\ Passed(sn, r.tx.a)
       /\ sub[sn][r.tx.a].status = "PENDING" => head[sn].age >= Window

\* Nothing but the client's own steps and the clock concern its deadline.
LEMMA OnTimeFrame ==
  ASSUME TypeOK, TypeOK', ClientTypeOK, NEW c \in Clients, OnTimeAt(c), HeadAges(SerialOf(c)),
         cl'[c] = cl[c]
  PROVE  OnTimeAt(c)'
<1>1. /\ SerialOf(c) \in Serials /\ cl[c].a \in Attempts /\ cl[c].tx.a \in Attempts
      /\ cl[c].due \in Nat
  BY CoinFacts, ClientRecord, ConfigAssumption
<1>2. head[SerialOf(c)].age \in Nat /\ head'[SerialOf(c)].age \in Nat
  BY <1>1 DEF TypeOK, AccountTypes, Heads, MaxAge
<1> DEFINE sn == SerialOf(c)
<1>3. ASSUME NEW a \in Attempts, Passed(sn, a)
      PROVE  /\ Passed(sn, a)'
             /\ sub'[sn][a].status = "PENDING" =>
                  sub[sn][a].status = "PENDING" /\ head'[sn].age >= head[sn].age
  BY <1>3 DEF HeadAges, Passed, SerialOf
<1>4. cl[c].pc \in {"head", "wait"} => Passed(sn, cl[c].a)'
  BY <1>1, <1>3 DEF OnTimeAt
<1>5. ASSUME cl[c].pc = "wait", sub'[sn][cl[c].a].status = "PENDING"
      PROVE  head'[sn].age + cl[c].due >= Window
  <2>1. head[sn].age + cl[c].due >= Window /\ head'[sn].age >= head[sn].age
    BY <1>1, <1>3, <1>5 DEF OnTimeAt
  <2>2. QED
    BY <1>1, <1>2, <2>1, ConfigAssumption
<1>6. ASSUME cl[c].pc \in {"send", "confirm"}, cl[c].tx.step = "settle"
      PROVE  /\ Passed(sn, cl[c].tx.a)'
             /\ sub'[sn][cl[c].tx.a].status = "PENDING" => head'[sn].age >= Window
  <2>1. /\ Passed(sn, cl[c].tx.a)
        /\ sub[sn][cl[c].tx.a].status = "PENDING" => head[sn].age >= Window
    BY <1>6 DEF OnTimeAt
  <2>2. QED
    BY <1>1, <1>2, <1>3, <2>1, ConfigAssumption
<1>7. QED
  BY <1>4, <1>5, <1>6 DEF OnTimeAt, Passed, SerialOf

\* A slot passes: either the wait is shorter by what the head is older, or the
\* head is past the window.
LEMMA OnTimeTick ==
  ASSUME TypeOK, TypeOK', ClientTypeOK, HeadIsLive, ClientTick, NEW c \in Clients, OnTimeAt(c)
  PROVE  OnTimeAt(c)'
<1> DEFINE sn == SerialOf(c)
           waiting == cl[c].pc = "wait" /\ cl[c].due > 0
<1>1. /\ sn \in Serials /\ cl[c].a \in Attempts /\ cl[c].tx.a \in Attempts
      /\ cl[c].due \in Nat
  BY CoinFacts, ClientRecord, ConfigAssumption
<1>2. head[sn] \in Heads /\ head[sn].age \in Nat
  BY <1>1 DEF TypeOK, AccountTypes, Heads, MaxAge
<1>3. /\ sub' = sub
      /\ head'[sn].age = IF head[sn].set /\ head[sn].age < MaxAge
                         THEN head[sn].age + 1 ELSE head[sn].age
  BY <1>1, <1>2 DEF ClientTick, Tick
<1>4. CASE ~waiting
  <2>1. cl'[c] = cl[c]
    BY <1>4 DEF ClientTick
  <2>2. HeadAges(sn)
    BY <1>2, <1>3 DEF HeadAges, Passed
  <2>3. QED
    BY <2>1, <2>2, OnTimeFrame
<1>5. CASE waiting
  <2>1. /\ cl'[c].pc = "wait" /\ cl'[c].a = cl[c].a /\ cl'[c].due = cl[c].due - 1
    BY <1>5, ClientRecord DEF ClientTick
  <2>2. Passed(sn, cl[c].a)'
    BY <1>3, <1>5, <2>1 DEF OnTimeAt, Passed
  <2>3. ASSUME sub'[sn][cl[c].a].status = "PENDING"
        PROVE  head'[sn].age + cl'[c].due >= Window
    <3>1. head[sn].age + cl[c].due >= Window
      BY <1>3, <1>5, <2>3 DEF OnTimeAt
    <3>2. head[sn].set
      BY <1>1, <1>3, <2>3 DEF HeadIsLive, HeadLiveAt
    <3>3. QED
      BY <1>1, <1>2, <1>3, <1>5, <2>1, <3>1, <3>2, ConfigAssumption DEF MaxAge
  <2>4. QED
    BY <2>1, <2>2, <2>3 DEF OnTimeAt, SerialOf, Passed
<1>6. QED
  BY <1>4, <1>5

\* A client's own step leaves the other runs alone.
LEMMA OtherRuns ==
  ASSUME ClientTypeOK, NEW c \in Clients, NEW d \in Clients, d # c, Client(d)
  PROVE  cl'[c] = cl[c]
<1>1. \A new : cl' = [cl EXCEPT ![d] = new] => cl'[c] = cl[c]
  BY DEF ClientTypeOK
<1>2. ASSUME NEW pc, Go(d, pc) PROVE cl'[c] = cl[c]
  BY <1>2 DEF Go, ClientTypeOK
<1>3. ASSUME NEW pc, NEW a, GoWith(d, pc, a) PROVE cl'[c] = cl[c]
  BY <1>3 DEF GoWith, ClientTypeOK
<1>4. ASSUME NEW t, Send(d, t) PROVE cl'[c] = cl[c]
  BY <1>4 DEF Send, ClientTypeOK
<1>5. CASE \/ Look(d) \/ LookSecond(d) \/ Append_(d) \/ Finalize(d)
           \/ Finalized(d) \/ Wait(d) \/ Report(d)
  BY <1>2, <1>3, <1>4, <1>5, Zenon
  DEF Look, LookSecond, Append_, Finalize, Finalized, Wait, Report
<1>6. CASE Begin(d) \/ ReadBalance(d) \/ MintTo(d) \/ ReadHead(d) \/ Confirm(d)
  BY <1>6 DEF Begin, ReadBalance, MintTo, ReadHead, Confirm, ClientTypeOK
<1>7. CASE Submit(d) \/ Land(d) \/ LandFailing(d)
  BY <1>2, <1>7 DEF Submit, Land, LandFailing, ClientTypeOK
<1>8. QED
  BY <1>5, <1>6, <1>7 DEF Client

\* The program's part of a client's own step.
LEMMA OnTimeStep ==
  ASSUME TypeOK, ClientTypeOK, HeadIsLive, [ClientNext]_allVars,
         NEW c \in Clients, OnTimeAt(c)
  PROVE  OnTimeAt(c)'
<1> DEFINE sn == SerialOf(c)
<1>0. TypeOK' /\ sn \in Serials
  BY AllTypesStep, CoinFacts
<1>1. HeadAges(sn)
  <2>1. CASE [Next]_vars
    BY <1>0, <2>1, AgeStep
  <2>2. ASSUME NEW d \in Clients, NEW n \in Nat, Mint(d, n) PROVE HeadAges(sn)
    BY <1>0, <2>2, MintTypes, SameAges
  <2>3. QED
    BY <2>1, <2>2, ProgramStep
<1>2. CASE ClientTick
  BY <1>0, <1>2, OnTimeTick
<1>3. CASE cl'[c] = cl[c]
  BY <1>0, <1>1, <1>3, OnTimeFrame
<1>4. CASE Client(c)
  <2>r. /\ cl[c] \in [pc : Pcs, a : Attempts, due : 0..Window, tx : Txs,
                      net : {"none", "flying", "landed"}, tries : Nat, runs : Nat,
                      need : Nat, stray : SUBSET (Nat \X Nat)]
        /\ cl[c].a \in Attempts /\ cl[c].tx.a \in Attempts /\ cl[c].tx.step \in Steps
    BY ClientRecord
  <2>c. cl \in [Clients -> [pc : Pcs, a : Attempts, due : 0..Window, tx : Txs,
                            net : {"none", "flying", "landed"}, tries : Nat, runs : Nat,
                            need : Nat, stray : SUBSET (Nat \X Nat)]]
    BY DEF ClientTypeOK
  <2>0. ASSUME cl'[c].pc \notin {"head", "wait", "send", "confirm"} PROVE OnTimeAt(c)'
    BY <2>0 DEF OnTimeAt
  <2>1. CASE Begin(c) \/ Look(c) \/ ReadBalance(c) \/ MintTo(c) \/ Report(c)
    BY <2>c, <2>1, <2>0 DEF Begin, Look, ReadBalance, MintTo, Report, Go, GoWith
  <2>2. CASE LookSecond(c)
    BY <2>c, <2>2, <2>0 DEF LookSecond, Send, Tx, GoWith, OnTimeAt
  <2>3. CASE Append_(c)
    BY <2>c, <2>3, <2>0 DEF Append_, Send, Tx, Go, OnTimeAt
  <2>4. CASE Finalize(c)
    <3>1. sub' = sub
      BY <2>4 DEF Finalize, Quiet, vars
    <3>2. \/ cl'[c].pc \in {"failed", "report"}
          \/ cl'[c].pc = "send" /\ cl'[c].tx.step = "finalize"
          \/ /\ cl'[c].pc = "head" /\ cl'[c].a = cl[c].a
             /\ sub[sn][cl[c].a].status = "PENDING"
      BY <2>c, <2>4 DEF Finalize, Send, Tx, Go, Mine
    <3>3. QED
      BY <2>0, <3>1, <3>2 DEF OnTimeAt, Passed, SerialOf
  <2>5. CASE Finalized(c)
    BY <2>c, <2>5, <2>0 DEF Finalized, Go, OnTimeAt, Passed, Mine, SerialOf, Quiet, vars
  <2>6. CASE ReadHead(c)
    <3>1. cl'[c].pc = "wait" /\ cl'[c].a = cl[c].a /\ cl'[c].due = DueAt(head[sn])
      BY <2>c, <2>6 DEF ReadHead
    <3>2. sub' = sub /\ head' = head /\ cl[c].pc = "head"
      BY <2>6 DEF ReadHead, At, Quiet, vars
    <3>3. head[sn].age \in Nat
      BY <1>0 DEF TypeOK, AccountTypes, Heads, MaxAge
    <3>4. head[sn].age + DueAt(head[sn]) >= Window
      BY <3>3, ConfigAssumption DEF DueAt
    <3>5. QED
      BY <3>1, <3>2, <3>4 DEF OnTimeAt, Passed, SerialOf
  <2>7. CASE Wait(c)
    <3> DEFINE t == Tx(c, "settle", cl[c].a, 0, NoWallet)
    <3>1. /\ cl'[c].pc = "send" /\ cl'[c].tx.a = cl[c].a
      BY <2>c, <2>7 DEF Wait, Send, Tx
    <3>2. /\ sub' = sub /\ head' = head /\ cl[c].pc = "wait" /\ cl[c].due = 0
      BY <2>7 DEF Wait, At, Quiet, vars
    <3>3. head[sn].age \in Nat
      BY <1>0 DEF TypeOK, AccountTypes, Heads, MaxAge
    <3>4. QED
      BY <3>1, <3>2, <3>3 DEF OnTimeAt, Passed, SerialOf
  <2>8. CASE Submit(c)
    <3>1. sub' = sub /\ head' = head /\ cl[c].pc = "send"
      BY <2>8 DEF Submit, At, Quiet, vars
    <3>2. cl'[c].pc = "failed" \/ (cl'[c].pc = "confirm" /\ cl'[c].tx = cl[c].tx)
      BY <2>c, <2>8 DEF Submit, Go
    <3>3. QED
      BY <2>0, <3>1, <3>2 DEF OnTimeAt, Passed, SerialOf
  <2>9. CASE Land(c) \/ LandFailing(c)
    <3>1. /\ cl'[c].pc = cl[c].pc /\ cl'[c].a = cl[c].a /\ cl'[c].due = cl[c].due
          /\ cl'[c].tx = cl[c].tx /\ cl[c].pc = "confirm"
      BY <2>c, <2>9 DEF Land, LandFailing, At
    <3>2. head[sn].age \in Nat /\ head'[sn].age \in Nat
      BY <1>0 DEF TypeOK, AccountTypes, Heads, MaxAge
    <3>3. ASSUME cl[c].tx.step = "settle"
          PROVE  /\ sub'[sn][cl[c].tx.a].status \notin {"NONE", "RECEIVING"}
                 /\ sub'[sn][cl[c].tx.a].status = "PENDING" => head'[sn].age >= Window
      <4>1. /\ Passed(sn, cl[c].tx.a)
            /\ sub[sn][cl[c].tx.a].status = "PENDING" => head[sn].age >= Window
        BY <3>1, <3>3 DEF OnTimeAt
      <4>2. /\ sub'[sn][cl[c].tx.a].status \notin {"NONE", "RECEIVING"}
            /\ sub'[sn][cl[c].tx.a].status = "PENDING" =>
                 sub[sn][cl[c].tx.a].status = "PENDING" /\ head'[sn].age >= head[sn].age
        BY <1>1, <2>r, <4>1 DEF HeadAges, Passed
      <4>3. ASSUME sub'[sn][cl[c].tx.a].status = "PENDING" PROVE head'[sn].age >= Window
        <5>1. head[sn].age >= Window /\ head'[sn].age >= head[sn].age
          BY <4>1, <4>2, <4>3
        <5> HIDE DEF sn
        <5>2. QED
          BY <3>2, <5>1, ConfigAssumption
      <4>4. QED
        BY <4>2, <4>3
    <3>4. QED
      BY <3>1, <3>3 DEF OnTimeAt, Passed, SerialOf
  <2>10. CASE Confirm(c)
    BY <2>c, <2>r, <2>10, <2>0 DEF Confirm, After, Steps
  <2>11. QED
    BY <1>4, <2>1, <2>2, <2>3, <2>4, <2>5, <2>6, <2>7, <2>8, <2>9, <2>10 DEF Client
<1>5. ASSUME NEW d \in Clients, d # c, Client(d) PROVE cl'[c] = cl[c]
  BY <1>5, OtherRuns
<1>6. ASSUME NEW d \in Clients, RateLimited(d) \/ Expire(d) \/ Crash(d)
      PROVE  OnTimeAt(c)'
  <2>c. cl \in [Clients -> [pc : Pcs, a : Attempts, due : 0..Window, tx : Txs,
                            net : {"none", "flying", "landed"}, tries : Nat, runs : Nat,
                            need : Nat, stray : SUBSET (Nat \X Nat)]]
    BY DEF ClientTypeOK
  <2>1. CASE d # c
    <3>1. cl'[c] = cl[c]
      BY <1>6, <2>c, <2>1 DEF RateLimited, Expire, Crash
    <3>2. QED
      BY <1>3, <3>1
  <2>2. CASE d = c /\ cl'[c].pc = "send"
    <3>0. RateLimited(c)
      BY <1>6, <2>c, <2>2 DEF Expire, Crash
    <3>1. cl'[c].tx = cl[c].tx /\ cl[c].pc \in {"send", "confirm"} /\ sub' = sub /\ head' = head
      BY <3>0, <2>c DEF RateLimited, vars
    <3>2. QED
      BY <2>2, <3>1 DEF OnTimeAt, Passed, SerialOf
  <2>3. CASE d = c /\ cl'[c].pc # "send"
    <3>1. cl'[c].pc = "failed"
      BY <1>6, <2>c, <2>3 DEF RateLimited, Expire, Crash
    <3>2. QED
      BY <3>1 DEF OnTimeAt
  <2>4. QED
    BY <2>1, <2>2, <2>3
<1>7. ASSUME NEW d \in Clients, StrayMint(d) PROVE OnTimeAt(c)'
  <2>1. /\ cl'[c].pc = cl[c].pc /\ cl'[c].a = cl[c].a /\ cl'[c].due = cl[c].due
        /\ cl'[c].tx = cl[c].tx
    BY <1>7, StrayFrame
  <2>2. sub' = sub /\ head' = head
    BY <1>7, StrayFrame DEF Mint, vars
  <2>3. QED
    BY <2>1, <2>2 DEF OnTimeAt, Passed, SerialOf
<1>8. QED
  BY <1>2, <1>3, <1>4, <1>5, <1>6, <1>7
  DEF ClientNext, Issue, Rival, LateLand, LateLost, allVars, clientVars

\* The wait of runCheckIn is long enough, whatever other submissions, faults and
\* late transactions do to the head meanwhile: no settle is sent, or still under
\* way, before the window has passed.
THEOREM SettlesOnTime == ClientSpec => []SettleNotEarly
<1> DEFINE Inv == \A c \in Clients : OnTimeAt(c)
<1>1. ClientInit => Inv
  BY DEF ClientInit, OnTimeAt, Idle
<1>2. TypeOK /\ ClientTypeOK /\ HeadIsLive /\ Inv /\ [ClientNext]_allVars => Inv'
  BY OnTimeStep
<1>3. Inv => SettleNotEarly
  BY DEF OnTimeAt, SettleNotEarly
<1>4. QED
  BY <1>1, <1>2, <1>3, ClientTypes, ClientHeadsAreLive, PTL DEF ClientSpec

-----------------------------------------------------------------------------
(* One bond per coin. *)

\* The strengthening of OneBondPerCoin: what clients send, or gave up on, starts
\* attempt 0 only, and a coin counts a check-in once attempt 0 has one.
StartsFirst ==
  /\ \A c \in Clients : cl[c].tx.step = "start" => cl[c].tx.a = 0
  /\ \A t \in late : t.step = "start" => t.a = 0

CountedAt(sn) == registry[sn].count = IF sub[sn][0].status = "NONE" THEN 0 ELSE 1

\* A transaction that starts attempt 0 only, or starts nothing, keeps the count.
LEMMA ExecCounts ==
  ASSUME TypeOK, NEW t \in Txs, t.step = "start" => t.a = 0, Exec(t),
         NEW s \in Serials, CountedAt(s)
  PROVE  CountedAt(s)'
<1> DEFINE c == t.by
           sn == SerialOf(c)
<1>0. /\ c \in Clients /\ t.a \in Attempts /\ t.step \in Steps /\ sn \in Serials
      /\ 0 \in Attempts
  BY CoinFacts DEF Txs, Attempts
<1>r. /\ \A x \in Serials : registry[x] \in Registries
      /\ registry \in [Serials -> Registries]
  BY DEF TypeOK, AccountTypes
<1>1. CASE t.step = "start"
  <2>1. StartCheckIn(sn, 0, RecipientOf(c), CoinOf[c][1])
    BY <1>1 DEF Exec
  <2>2. CoinOf[c][1] \in State /\ RecipientOf(c) \in Wallets
    BY <1>0, CoinFacts
  <2>3. /\ sub[sn][0].status = "NONE" /\ sub'[sn][0].status = "RECEIVING"
        /\ s # sn => sub'[s][0] = sub[s][0]
    BY <1>0, <2>1, <2>2, StartEffect
  <2>4. registry'[s].count = IF s = sn THEN registry[sn].count + 1 ELSE registry[s].count
    BY <1>0, <1>r, <2>1 DEF StartCheckIn, Registries, CanStart
  <2>5. QED
    BY <2>3, <2>4 DEF CountedAt
<1>2. ASSUME registry'[s].count = registry[s].count,
             sub'[s][0].status = "NONE" <=> sub[s][0].status = "NONE"
      PROVE  CountedAt(s)'
  BY <1>2 DEF CountedAt
<1>3. CASE t.step = "append"
  <2> DEFINE links == Batch(c, t.len)
             h == StateHash(CoinOf[c][Len(CoinOf[c])])
  <2>1. AppendLinks(sn, t.a, t.owner, links, h)
    BY <1>3 DEF Exec
  <2>2. links \in LinkBatches
    BY <1>3, BatchIsLinks
  <2>3. t.owner \in Wallets
    <3>1. sub[sn][t.a].status = "RECEIVING" /\ LastState(sub[sn][t.a]).owner = t.owner
      BY <2>1 DEF AppendLinks, CanAppend, LinksFit, BatchFits
    <3>2. QED
      BY <1>0, <3>1, StartedSubmission DEF State
  <2> HIDE DEF links, h
  <2>4. QED
    BY <1>0, <1>2, <2>1, <2>2, <2>3, AppendEffect
<1>4. CASE t.step = "finalize" /\ FinRejectSpent(sn, t.a)
  BY <1>0, <1>2, <1>4, RejectEffect
<1>5. CASE t.step = "finalize" /\ FinSetHead(sn, t.a)
  BY <1>0, <1>2, <1>5, SetHeadEffect
<1>6. CASE t.step = "settle"
  <2>1. Settle(sn, t.a, FALSE, TRUE)
    BY <1>6 DEF Exec
  <2>2. registry'[s].count = registry[s].count
    BY <1>0, <1>r, <2>1 DEF Settle, Registries, CanPayOut
  <2>3. sub[sn][t.a].status = "PENDING" /\ ~Sweeps(sn, t.a, FALSE)
    BY <2>1 DEF Settle, CanSettle, Sweeps, CanPayOut
  <2>4. sub' = [sub EXCEPT ![sn] =
          [b \in Attempts |-> IF b = t.a THEN [@[b] EXCEPT !.status = "WON"] ELSE @[b]]]
    BY <2>1, <2>3 DEF Settle, CanPayOut
  <2>5. \A x \in Serials, b \in Attempts : sub[x][b] \in Submissions
    BY DEF TypeOK, AccountTypes
  <2>6. sub'[s][0].status = "NONE" <=> sub[s][0].status = "NONE"
    BY <1>0, <2>3, <2>4, <2>5 DEF TypeOK, AccountTypes, Submissions
  <2>7. QED
    BY <1>2, <2>2, <2>6
<1>7. QED
  BY <1>0, <1>1, <1>3, <1>4, <1>5, <1>6 DEF Steps, Exec

\* Every start that a client sends, and gives up on, is of attempt 0.
LEMMA StartsStep ==
  ASSUME ClientTypeOK, StartsFirst, [ClientNext]_allVars
  PROVE  StartsFirst'
<1>c. cl \in [Clients -> [pc : Pcs, a : Attempts, due : 0..Window, tx : Txs,
                          net : {"none", "flying", "landed"}, tries : Nat, runs : Nat,
                          need : Nat, stray : SUBSET (Nat \X Nat)]]
  BY DEF ClientTypeOK
<1>1. CASE \A d \in Clients : cl'[d].tx = cl[d].tx
  <2>1. ASSUME NEW t \in late' PROVE t \in late \/ \E d \in Clients : t = cl[d].tx
    BY <2>1, StrayFrame
    DEF ClientNext, Issue, Rival, ClientTick, Client, Begin, ReadBalance, Mint, MintTo, Look, LookSecond,
       Append_, Finalize, Finalized, ReadHead, Wait, Report, Submit, Land, LandFailing, Confirm,
       RateLimited, Expire, Crash, LateLand, LateLost, Abandoned, Quiet, allVars, clientVars
  <2>2. QED
    BY <1>1, <2>1 DEF StartsFirst
<1>2. ASSUME NEW c \in Clients, NEW t, Send(c, t), late' = late, t.step = "start" => t.a = 0
      PROVE  StartsFirst'
  <2>1. \A d \in Clients : cl'[d].tx = IF d = c THEN t ELSE cl[d].tx
    BY <1>2, <1>c DEF Send
  <2>2. QED
    BY <1>2, <2>1 DEF StartsFirst
<1>3. ASSUME NEW c \in Clients, Client(c) PROVE StartsFirst'
  <2>1. ASSUME NEW pc, Go(c, pc) PROVE \A d \in Clients : cl'[d].tx = cl[d].tx
    BY <1>c, <2>1 DEF Go
  <2>2. ASSUME NEW pc, NEW a, GoWith(c, pc, a) PROVE \A d \in Clients : cl'[d].tx = cl[d].tx
    BY <1>c, <2>2 DEF GoWith
  <2>3. CASE Look(c) \/ Finalized(c) \/ Report(c)
    BY <1>1, <2>1, <2>2, <2>3, Zenon DEF Look, Finalized, Report
  <2>4. CASE \/ Begin(c) \/ ReadBalance(c) \/ MintTo(c)
             \/ ReadHead(c) \/ Confirm(c) \/ Land(c) \/ LandFailing(c)
    <3>1. \A d \in Clients : cl'[d].tx = cl[d].tx
      <4>1. CASE Begin(c) \/ ReadHead(c) \/ Confirm(c)
        BY <1>c, <4>1 DEF Begin, ReadHead, Confirm
      <4>2. CASE ReadBalance(c) \/ MintTo(c)
        BY <1>c, <4>2 DEF ReadBalance, MintTo
      <4>3. CASE Land(c) \/ LandFailing(c)
        BY <1>c, <4>3 DEF Land, LandFailing
      <4>4. QED
        BY <2>4, <4>1, <4>2, <4>3
    <3>2. QED
      BY <1>1, <3>1
  <2>5. CASE Submit(c)
    <3>1. \A d \in Clients : cl'[d].tx = cl[d].tx
      BY <1>c, <2>5 DEF Submit, Go
    <3>2. QED
      BY <1>1, <3>1
  <2>6. CASE LookSecond(c)
    <3>1. GoWith(c, "append", 1) \/ Send(c, Tx(c, "start", 0, 0, NoWallet))
      BY <2>6 DEF LookSecond, StartAttempt
    <3>2. late' = late
      BY <2>6 DEF LookSecond, Quiet
    <3>3. QED
      BY <1>1, <1>2, <2>2, <3>1, <3>2 DEF Tx
  <2>7. CASE Append_(c) \/ Finalize(c) \/ Wait(c)
    <3>1. (\E pc \in Pcs : Go(c, pc)) \/ (\E t \in Txs : Send(c, t) /\ t.step # "start")
          \/ \E n, w, a : Send(c, Tx(c, "append", a, n, w)) \/ Send(c, Tx(c, "finalize", a, n, w))
                          \/ Send(c, Tx(c, "settle", a, n, w))
      BY <2>7, Zenon DEF Append_, Finalize, Wait, Pcs
    <3>2. late' = late
      BY <2>7 DEF Append_, Finalize, Wait, Quiet
    <3>3. ASSUME NEW n, NEW w, NEW a
          PROVE  /\ Tx(c, "append", a, n, w).step # "start"
                 /\ Tx(c, "finalize", a, n, w).step # "start"
                 /\ Tx(c, "settle", a, n, w).step # "start"
      BY DEF Tx
    <3>4. QED
      BY <1>1, <1>2, <2>1, <3>1, <3>2, <3>3
  <2>8. QED
    BY <1>3, <2>3, <2>4, <2>5, <2>6, <2>7 DEF Client
<1>4. ASSUME NEW c \in Clients, RateLimited(c) \/ Expire(c) \/ Crash(c) \/ StrayMint(c)
      PROVE  StartsFirst'
  <2>1. \A d \in Clients : cl'[d].tx = cl[d].tx
    BY <1>c, <1>4, StrayFrame DEF RateLimited, Expire, Crash
  <2>2. QED
    BY <1>1, <2>1
<1>5. CASE ClientTick
  <2>1. \A d \in Clients : cl'[d].tx = cl[d].tx
    BY <1>c, <1>5 DEF ClientTick
  <2>2. QED
    BY <1>1, <2>1
<1>6. QED
  BY <1>1, <1>3, <1>4, <1>5 DEF ClientNext, Issue, Rival, LateLand, LateLost, allVars, clientVars

\* Without rivals the count of a coin is that of attempt 0.
LEMMA CountStep ==
  ASSUME Rivals = {}, TypeOK, ClientTypeOK, StartsFirst, [ClientNext]_allVars,
         NEW s \in Serials, CountedAt(s)
  PROVE  CountedAt(s)'
<1>1. CASE UNCHANGED <<registry, sub>>
  BY <1>1 DEF CountedAt
<1>2. ASSUME NEW c \in Clients, MintCoin(SerialOf(c), CoinOf[c][1].value, RecipientOf(c))
      PROVE  CountedAt(s)'
  <2>1. SerialOf(c) \in Serials /\ registry[SerialOf(c)].status = "NONE" /\ sub' = sub
    BY <1>2, CoinFacts DEF MintCoin, CanMint
  <2>2. sub[SerialOf(c)][0].status = "NONE"
    BY <2>1 DEF TypeOK, SubmissionWritten, Attempts
  <2>3. registry'[s].count = IF s = SerialOf(c) THEN 0 ELSE registry[s].count
    BY <1>2, <2>1 DEF MintCoin, TypeOK, AccountTypes
  <2>4. QED
    BY <2>1, <2>2, <2>3 DEF CountedAt
<1>3. CASE Issue
  BY <1>1, <1>2, <1>3 DEF Issue, FundVault
<1>4. CASE ClientTick
  BY <1>1, <1>4 DEF ClientTick, Tick
<1>5. ASSUME NEW c \in Clients, Client(c) PROVE CountedAt(s)'
  <2>1. CASE Land(c)
    <3>1. cl[c].tx \in Txs /\ Exec(cl[c].tx)
      BY <2>1, ClientRecord DEF Land
    <3>2. QED
      BY <3>1, ExecCounts DEF StartsFirst
  <2>2. CASE ~Land(c)
    BY <1>1, <1>5, <2>2
    DEF Client, Begin, ReadBalance, Mint, MintTo, Look, LookSecond, Append_, Finalize, Finalized,
        ReadHead, Wait,
        Report, Submit, LandFailing, Confirm, Quiet, vars
  <2>3. QED
    BY <2>1, <2>2
<1>6. ASSUME NEW t \in late, LateLand(t) \/ LateLost(t) PROVE CountedAt(s)'
  <2>1. t \in Txs /\ (t.step = "start" => t.a = 0)
    BY DEF ClientTypeOK, StartsFirst
  <2>2. QED
    BY <1>1, <1>6, <2>1, ExecCounts DEF LateLand, LateLost, vars
<1>7. ASSUME NEW c \in Clients, StrayMint(c) PROVE CountedAt(s)'
  BY <1>1, <1>7, StrayFrame DEF Mint, vars
<1>8. QED
  BY <1>1, <1>3, <1>4, <1>5, <1>6, <1>7
  DEF ClientNext, Rival, RateLimited, Expire, Crash, allVars, vars

\* Clients start attempt 0 only, in what is in flight and in what they gave up on.
LEMMA FirstStarts == ClientSpec => []StartsFirst
<1>1. ClientInit => StartsFirst
  BY DEF ClientInit, StartsFirst, Idle, NoTx, Tx
<1>2. TypeOK /\ ClientTypeOK /\ StartsFirst /\ [ClientNext]_allVars => StartsFirst'
  BY StartsStep
<1>3. QED
  BY <1>1, <1>2, ClientTypes, PTL DEF ClientSpec

\* Where only the clients check coins in, no coin ever has two check-ins, however
\* many runs, faults and late transactions there are.
THEOREM OneBond == ClientSpec => []OneBondPerCoin
<1> DEFINE Inv == StartsFirst /\ (Rivals = {} => \A s \in Serials : CountedAt(s))
<1>1. ClientInit => Inv
  BY DEF ClientInit, Init, StartsFirst, CountedAt, Idle, NoTx, Tx, NoCoin, NoSub, Attempts
<1>2. TypeOK /\ ClientTypeOK /\ Inv /\ [ClientNext]_allVars => Inv'
  BY StartsStep, CountStep
<1>3. Inv => OneBondPerCoin
  BY CoinFacts DEF OneBondPerCoin, CountedAt
<1>4. QED
  BY <1>1, <1>2, <1>3, ClientTypes, PTL DEF ClientSpec

-----------------------------------------------------------------------------
(* The program's ledger under the clients' steps. *)

\* No token moved into a checker's account concerns a coin, a head or a chain.
LEMMA ClientClaimsStep ==
  ASSUME TypeOK, ClientTypeOK, TypeOK', ClaimsInv, [ClientNext]_allVars
  PROVE  ClaimsInv'
<1>1. CASE [Next]_vars
  BY <1>1, ClaimsInvHolds
<1>2. ASSUME NEW c \in Clients, NEW n \in Nat, Mint(c, n) PROVE ClaimsInv'
  <2>1. UNCHANGED <<supply, vault, registry, head, sub, escrow, allowance>>
    BY <1>2 DEF Mint
  <2>2. VaultBacksOpenCoins'
    BY <2>1 DEF ClaimsInv, VaultBacksOpenCoins, OpenCoins, ValueOf
  <2>3. \A w \in Wallets : AllowanceRight(w)'
    BY <2>1 DEF ClaimsInv, AllowanceRight, OpenCoinsOf, OpenCoins, ValueOf
  <2>4. \A sn \in Serials, a \in Attempts : EscrowRight(sn, a)' /\ StartFits(sn, a)'
    BY <2>1 DEF ClaimsInv, EscrowRight, Bond, StartFits
  <2>5. HeadIsLive' /\ ChainsAnchored'
    BY <2>1 DEF ClaimsInv, HeadIsLive, HeadLiveAt, ChainsAnchored
  <2>6. QED
    BY <2>2, <2>3, <2>4, <2>5 DEF ClaimsInv
<1>3. QED
  BY <1>1, <1>2, ProgramStep

\* No check of a payout can fail whoever runs the check-ins, and however often.
THEOREM ClientClaims == ClientSpec => [](ClaimsInv /\ ClaimsPayable)
<1>1. ClientInit => ClaimsInv
  BY ClaimsInvHolds DEF ClientInit
<1>2. TypeOK /\ ClientTypeOK /\ TypeOK' /\ ClaimsInv /\ [ClientNext]_allVars => ClaimsInv'
  BY ClientClaimsStep
<1>3. TypeOK /\ ClaimsInv => ClaimsPayable
  BY Payable
<1>4. QED
  BY <1>1, <1>2, <1>3, ClientTypes, PTL DEF ClientSpec

-----------------------------------------------------------------------------
(* A run that returns has checked its coin in. *)

\* Only the clients check coins in, and those that hold the same coin hold the
\* same chain: two runs of one coin file, but not two owners of a copied coin.
Alone ==
  /\ Rivals = {}
  /\ \A c, d \in Clients : SerialOf(c) = SerialOf(d) => CoinOf[c] = CoinOf[d]

\* The strengthening of ReturnedMeansPaid.  Of a coin's submissions x, the first
\* holds a beginning of the client's chain, all of it once it is finalized, and
\* the other is never started.
OwnRight(c, x) ==
  LET s == x[0]  coin == CoinOf[c] IN
  /\ x[1].status = "NONE"
  /\ s.status \in {"NONE", "RECEIVING", "PENDING", "WON"}
  /\ s.status # "NONE" =>
       Len(s.states) <= Len(coin) /\ \A i \in 1..Len(s.states) : s.states[i] = coin[i]
  /\ s.status \in {"PENDING", "WON"} => Len(s.states) = Len(coin)

\* What a transaction's sender had read of the submission s is still so.
TxRight(t, s) ==
  /\ t.a = 0
  /\ t.step = "append" => s.status # "NONE" /\ t.len <= Len(s.states)
  /\ t.step = "finalize" => s.status # "NONE" /\ Len(s.states) >= Len(CoinOf[t.by])
  /\ t.step = "settle" => s.status \in {"PENDING", "WON"}

\* How far the submission s is when the run r of a client has come as far as it has.
RunRight(c, r, s) ==
  /\ r.a = 0
  /\ r.pc = "finalize" => s.status # "NONE" /\ Len(s.states) >= Len(CoinOf[c])
  /\ r.pc \in {"finalized", "head", "wait"} => s.status \in {"PENDING", "WON"}
  /\ r.pc \in {"report", "done"} => s.status = "WON"
  /\ r.pc \in {"send", "confirm"} => r.tx.by = c
  /\ r.pc = "confirm" /\ r.net = "landed" =>
       /\ r.tx.step = "finalize" => s.status \in {"PENDING", "WON"}
       /\ r.tx.step = "settle" => s.status = "WON"

First(c) == sub[SerialOf(c)][0]

PaidInv ==
  /\ \A c \in Clients :
       /\ OwnRight(c, sub[SerialOf(c)])
       /\ RunRight(c, cl[c], First(c))
       /\ TxRight(cl[c].tx, First(cl[c].tx.by))
  /\ \A t \in late : TxRight(t, First(t.by))

\* What the steps below rely on, all of it proved above.
Base == /\ TypeOK /\ ClientTypeOK /\ ClaimsInv /\ Blank
        /\ \A c \in Clients : OnTimeAt(c)

\* A submission y comes after x.
Grown(x, y) ==
  /\ x.status # "NONE" => y.status # "NONE"
  /\ Len(x.states) <= Len(y.states) /\ Len(x.states) \in Nat /\ Len(y.states) \in Nat
  /\ x.status \in {"PENDING", "WON"} => y.status \notin {"NONE", "RECEIVING"}
  /\ x.status = "WON" => y.status = "WON"

\* Every step lets the first submission of a coin grow only.
LEMMA GrownStep ==
  ASSUME Base, TypeOK', [ClientNext]_allVars, NEW s \in Serials
  PROVE  Grown(sub[s][0], sub'[s][0])
<1> DEFINE x == sub[s][0]
           y == sub'[s][0]
<1>0. 0 \in Attempts
  BY DEF Attempts
<1>1. Len(x.states) \in Nat /\ Len(y.states) \in Nat
  BY <1>0 DEF Base, TypeOK, AccountTypes, Submissions
<1>2. CASE sub' = sub
  BY <1>1, <1>2 DEF Grown
<1>3. CASE [Next]_vars
  <2>1. HeadAges(s) /\ MayBecome(s, 0)
    BY <1>0, <1>3, AgeStep, FinalStep DEF Base, ClaimsInv
  <2>2. /\ Len(x.states) <= Len(y.states)
        /\ x.status = "WON" => y.status = "WON"
        /\ y.status = "NONE" => y.states = <<>>
    BY <2>1 DEF MayBecome, Extends, Over
  <2>3. x.status \in {"PENDING", "WON"} => y.status \notin {"NONE", "RECEIVING"}
    BY <1>0, <2>1 DEF HeadAges, Passed
  <2>4. x.status # "NONE" => Len(x.states) >= 1
    BY <1>0 DEF Base, TypeOK, SubmissionWritten, MaxSubmissionStates
  <2>5. x.status # "NONE" => y.status # "NONE"
    BY <1>1, <2>2, <2>4
  <2>6. QED
    BY <1>1, <2>2, <2>3, <2>5 DEF Grown
<1>4. QED
  BY <1>2, <1>3, ProgramStep DEF Base, Mint

\* A submission that does not exist stays blank until it is started.
LEMMA BlankStep ==
  ASSUME Base, TypeOK', [ClientNext]_allVars
  PROVE  Blank'
<1>1. CASE [Next]_vars
  BY <1>1, FinalStep DEF Base, Blank, MayBecome
<1>2. QED
  BY <1>1, ProgramStep DEF Base, Mint, Blank

\* Where a coin has one submission, a receiving one finds no head in its way.
LEMMA NoHeadYet ==
  ASSUME Base, NEW c \in Clients, OwnRight(c, sub[SerialOf(c)]), First(c).status = "RECEIVING"
  PROVE  registry[SerialOf(c)].status # "SPENT" /\ ~head[SerialOf(c)].set
<1> DEFINE sn == SerialOf(c)
           h == head[sn]
<1>1. sn \in Serials /\ h.attempt \in Attempts
  BY CoinFacts DEF Base, TypeOK, AccountTypes, Heads
<1>2. HeadLiveAt(sn)
  BY <1>1 DEF Base, ClaimsInv, HeadIsLive
<1>3. sub[sn][0].status = "RECEIVING" /\ sub[sn][1].status = "NONE"
  BY DEF First, OwnRight
<1>4. \A a \in Attempts : sub[sn][a].status \notin {"PENDING", "WON"}
  BY <1>3 DEF Attempts
<1>5. QED
  BY <1>1, <1>2, <1>4 DEF HeadLiveAt

\* The part of a chain from m + 1 to k follows its beginning ss.
PartFollows(coin, ss, m, k) ==
  LET links == SubSeq(coin, m + 1, k) IN
  /\ links # <<>> /\ k <= Len(coin)
  /\ Len(ss) >= 1 /\ m <= Len(ss) /\ Len(ss) <= Len(coin)
  /\ \A i \in 1..Len(ss) : ss[i] = coin[i] /\ Len(ss[i].prev) = i - 1
  /\ links[1].prev = StateHash(ss[Len(ss)])

BeginningOf(coin, ss) == Len(ss) <= Len(coin) /\ \A i \in 1..Len(ss) : ss[i] = coin[i]

\* Then it continues that beginning, wherever it was cut: a state's history is as
\* long as the chain before it.
LEMMA PartGoesOn ==
  ASSUME NEW coin \in Seq(State), NEW ss \in Seq(State), NEW m \in Nat, NEW k \in Nat,
         PartFollows(coin, ss, m, k)
  PROVE  BeginningOf(coin, ss \o SubSeq(coin, m + 1, k))
<1> DEFINE links == SubSeq(coin, m + 1, k)
<1>0. /\ links # <<>> /\ k <= Len(coin)
      /\ Len(ss) >= 1 /\ m <= Len(ss) /\ Len(ss) <= Len(coin)
      /\ \A i \in 1..Len(ss) : ss[i] = coin[i] /\ Len(ss[i].prev) = i - 1
      /\ links[1].prev = StateHash(ss[Len(ss)])
  BY DEF PartFollows
<1>1. /\ m + 1 <= k /\ SubSeq(coin, m + 1, k) \in Seq(State)
      /\ Len(SubSeq(coin, m + 1, k)) = k - m /\ SubSeq(coin, m + 1, k)[1] = coin[m + 1]
  BY <1>0, PartOfSeq
<1>2. /\ links \in Seq(State) /\ Len(links) = k - m /\ links[1] = coin[m + 1]
      /\ \A i \in 1..Len(links) : links[i] = coin[m + i]
  BY <1>0, <1>1
<1> HIDE DEF links
<1>3. Len(ss) \in Nat /\ Len(coin) \in Nat
  OBVIOUS
<1>4. Len(links[1].prev) = Len(ss)
  <2>1. Len(ss) \in 1..Len(ss) /\ ss[Len(ss)] \in State
    BY <1>0, <1>3
  <2>2. Len(StateHash(ss[Len(ss)])) = Len(ss[Len(ss)].prev) + 1
    BY <2>1 DEF StateHash, State, Hash
  <2>3. Len(ss[Len(ss)].prev) = Len(ss) - 1
    BY <1>0, <2>1
  <2>4. QED
    BY <1>0, <1>3, <2>2, <2>3
<1>5. m = Len(ss)
  <2> SUFFICES ASSUME m < Len(ss) PROVE FALSE
    BY <1>0, <1>3
  <2>1. m + 1 \in 1..Len(ss)
    BY <1>3
  <2>2. links[1] = ss[m + 1] /\ Len(ss[m + 1].prev) = m
    <3>1. ss[m + 1] = coin[m + 1] /\ Len(ss[m + 1].prev) = (m + 1) - 1
      BY <1>0, <2>1, Zenon
    <3>2. QED
      BY <1>2, <3>1
  <2>3. Len(links[1].prev) = m
    BY <2>2
  <2>4. QED
    BY <1>3, <1>4, <2>3
<1>6. Len(ss \o links) = k
  BY <1>2, <1>3, <1>5
<1>7. ASSUME NEW i \in 1..k PROVE (ss \o links)[i] = coin[i]
  <2>1. CASE i <= Len(ss)
    BY <1>0, <1>2, <1>3, <2>1
  <2>2. CASE i > Len(ss)
    <3>1. i - Len(ss) \in 1..Len(links) /\ m + (i - Len(ss)) = i
      BY <1>2, <1>3, <1>5, <2>2
    <3>2. (ss \o links)[i] = links[i - Len(ss)]
      BY <1>2, <1>3, <3>1, <2>2, <1>6
    <3>3. QED
      BY <1>2, <3>1, <3>2
  <2>3. i <= Len(ss) \/ i > Len(ss)
    BY <1>3
  <2>4. QED
    BY <2>1, <2>2, <2>3
<1>8. QED
  BY <1>0, <1>6, <1>7 DEF BeginningOf, links

\* A batch that the program takes goes on where the submission ends, even one that
\* was built before another of the client's batches landed.
LEMMA BatchGoesOn ==
  ASSUME Base, NEW t \in Txs, OwnRight(t.by, sub[SerialOf(t.by)]), TxRight(t, First(t.by)),
         t.step = "append", Exec(t)
  PROVE  LET new == sub'[SerialOf(t.by)][0]  coin == CoinOf[t.by] IN
         /\ sub[SerialOf(t.by)][0].status = "RECEIVING" /\ new.status = "RECEIVING"
         /\ Len(new.states) <= Len(coin) /\ \A i \in 1..Len(new.states) : new.states[i] = coin[i]
         /\ \A s \in Serials, b \in Attempts :
              s # SerialOf(t.by) \/ b # 0 => sub'[s][b] = sub[s][b]
<1> DEFINE sn == SerialOf(t.by)
           coin == CoinOf[t.by]
           ss == sub[sn][0].states
           k == IF t.len + MaxLinks < Len(coin) THEN t.len + MaxLinks ELSE Len(coin)
           links == SubSeq(coin, t.len + 1, k)
           new == sub'[sn][0]
           h == StateHash(coin[Len(coin)])
<1>0. /\ t.by \in Clients /\ t.len \in Nat /\ t.a = 0 /\ 0 \in Attempts
      /\ sn \in Serials /\ coin \in Seq(State) /\ Len(coin) \in Nat /\ MaxLinks \in Nat
  BY CoinFacts, ConfigAssumption DEF Txs, MaxSubmissionStates, Attempts, TxRight
<1>1. /\ AppendLinks(sn, 0, t.owner, links, h)
      /\ links \in LinkBatches /\ links # <<>>
  BY <1>0, BatchIsLinks DEF Base, Exec, Batch
<1>k. k \in Nat /\ k <= Len(coin)
  BY <1>0
<1> HIDE DEF h, k
<1>2. t.owner \in Wallets
  <2>1. sub[sn][0].status = "RECEIVING" /\ LastState(sub[sn][0]).owner = t.owner
    BY <1>1 DEF AppendLinks, CanAppend, LinksFit, BatchFits
  <2>2. QED
    BY <1>0, <2>1, StartedSubmission DEF Base, State
<1> HIDE DEF links
<1>3. /\ sub[sn][0].status = "RECEIVING" /\ new.status = "RECEIVING"
      /\ BatchFollows(ss, links, sn, registry[sn].value)
      /\ new.states = ss \o links
      /\ \A s \in Serials, b \in Attempts : s # sn \/ b # 0 => sub'[s][b] = sub[s][b]
  BY <1>0, <1>1, <1>2, AppendEffect DEF Base
<1>4. /\ ss \in Seq(State) /\ Len(ss) \in 1..MaxSubmissionStates
      /\ \A i \in 1..Len(ss) : Len(ss[i].prev) = i - 1
  <2>1. sub[sn][0].status # "NONE"
    BY <1>3
  <2>2. QED
    BY <1>0, <2>1, StartedSubmission, StoredDepth DEF Base, ClaimsInv
<1>5. /\ t.len <= Len(ss) /\ Len(ss) <= Len(coin) /\ \A i \in 1..Len(ss) : ss[i] = coin[i]
  BY <1>3 DEF First, OwnRight, TxRight
<1>6. links[1].prev = StateHash(ss[Len(ss)])
  <2>1. Len(links) \in Nat /\ links \in Seq(State)
    BY <1>1, InputAssumption
  <2>2. 1 \in 1..Len(links)
    BY <1>1, <2>1
  <2>3. QED
    BY <1>3, <2>2 DEF BatchFollows, Follows
<1>7. Len(ss) >= 1
  BY <1>4 DEF MaxSubmissionStates
<1> HIDE DEF ss, coin, new, sn
<1>8. /\ Len(ss \o links) <= Len(coin)
      /\ \A i \in 1..Len(ss \o links) : (ss \o links)[i] = coin[i]
  <2>1. PartFollows(coin, ss, t.len, k)
    BY <1>1, <1>k, <1>4, <1>5, <1>6, <1>7 DEF PartFollows, links
  <2>2. coin \in Seq(State) /\ ss \in Seq(State) /\ t.len \in Nat /\ k \in Nat
    BY <1>0, <1>k, <1>4
  <2>3. BeginningOf(coin, ss \o links)
    BY <2>1, <2>2, PartGoesOn DEF links
  <2>4. QED
    BY <2>3 DEF BeginningOf
<1>9. QED
  BY <1>3, <1>8 DEF new, coin, sn

\* What a client's settle does: it comes without the accounts of the other
\* submission, so that it leaves that one alone.
LEMMA SettleAlone ==
  ASSUME TypeOK, NEW t \in Txs, TxRight(t, First(t.by)), t.step = "settle", Exec(t)
  PROVE  LET sn == SerialOf(t.by) IN
         /\ sub[sn][0].status = "PENDING" /\ sub'[sn][0].status = "WON"
         /\ \A s \in Serials, b \in Attempts :
              /\ s # sn \/ b # 0 => sub'[s][b].status = sub[s][b].status
              /\ sub'[s][b].states = sub[s][b].states
<1> DEFINE sn == SerialOf(t.by)
<1>0. sn \in Serials /\ t.a = 0 /\ 0 \in Attempts
  BY CoinFacts DEF Txs, Attempts, TxRight
<1>1. Settle(sn, 0, FALSE, TRUE)
  BY <1>0 DEF Exec
<1> HIDE DEF sn
<1>2. PICK o \in BOOLEAN, p \in BOOLEAN : o = FALSE /\ Settle(sn, 0, o, p)
  BY <1>1
<1>3. ~Sweeps(sn, 0, o)
  BY <1>2 DEF Sweeps
<1>4. sub[sn][0].status = "PENDING" /\ sub'[sn][0].status = "WON"
  BY <1>0, <1>2, <1>3, SettleEffect
<1>5. ASSUME NEW s \in Serials, NEW b \in Attempts
      PROVE  /\ s # sn \/ b # 0 => sub'[s][b].status = sub[s][b].status
             /\ sub'[s][b].states = sub[s][b].states
  BY <1>0, <1>2, <1>3, SettleEffect DEF KeepChains
<1>6. QED
  BY <1>4, <1>5 DEF sn

\* A transaction of whoever holds the coin leaves it right.
LEMMA OwnExec ==
  ASSUME Alone, Base, NEW t \in Txs, OwnRight(t.by, sub[SerialOf(t.by)]),
         TxRight(t, First(t.by)), Exec(t), NEW c \in Clients, OwnRight(c, sub[SerialOf(c)])
  PROVE  OwnRight(c, sub'[SerialOf(c)])
<1> DEFINE sn == SerialOf(t.by)
           coin == CoinOf[t.by]
           old == sub[sn][0]
           new == sub'[sn][0]
<1>0. /\ t.by \in Clients /\ t.step \in Steps /\ t.a = 0 /\ 0 \in Attempts /\ 1 \in Attempts
      /\ sn \in Serials /\ SerialOf(c) \in Serials /\ Other(0) = 1 /\ Len(coin) \in Nat \ {0}
  BY CoinFacts DEF Txs, Attempts, TxRight, Other
<1>r. /\ sub[sn][1].status = "NONE"
      /\ old.status \in {"NONE", "RECEIVING", "PENDING", "WON"}
      /\ old.status # "NONE" => BeginningOf(coin, old.states)
      /\ old.status \in {"PENDING", "WON"} => Len(old.states) = Len(coin)
  BY DEF OwnRight, BeginningOf
<1>l. Len(old.states) \in Nat
  BY <1>0 DEF Base, TypeOK, AccountTypes, Submissions
<1>1. ASSUME \A b \in Attempts : SerialOf(c) # sn \/ b # 0 =>
               /\ sub'[SerialOf(c)][b].status = sub[SerialOf(c)][b].status
               /\ sub'[SerialOf(c)][b].states = sub[SerialOf(c)][b].states,
             new.status \in {"RECEIVING", "PENDING", "WON"}, BeginningOf(coin, new.states),
             new.status \in {"PENDING", "WON"} => Len(new.states) = Len(coin)
      PROVE  OwnRight(c, sub'[SerialOf(c)])
  <2>1. CASE SerialOf(c) = sn
    <3>1. CoinOf[c] = coin
      BY <1>0, <2>1 DEF Alone
    <3>2. sub'[sn][1].status = "NONE"
      BY <1>0, <1>1, <1>r, <2>1
    <3>3. QED
      BY <1>1, <2>1, <3>1, <3>2 DEF OwnRight, BeginningOf
  <2>2. CASE SerialOf(c) # sn
    BY <1>0, <1>1, <2>2 DEF OwnRight
  <2>3. QED
    BY <2>1, <2>2
<1>2. CASE t.step = "start"
  <2>1. StartCheckIn(sn, 0, RecipientOf(t.by), coin[1])
    BY <1>0, <1>2 DEF Exec
  <2>2. coin[1] \in State /\ RecipientOf(t.by) \in Wallets
    BY <1>0, CoinFacts
  <2>3. /\ new.status = "RECEIVING" /\ new.states = <<coin[1]>>
        /\ \A s \in Serials, b \in Attempts : s # sn \/ b # 0 => sub'[s][b] = sub[s][b]
    BY <1>0, <2>1, <2>2, StartEffect DEF Base
  <2>4. BeginningOf(coin, <<coin[1]>>)
    BY <1>0 DEF BeginningOf
  <2>5. QED
    BY <1>0, <1>1, <2>3, <2>4
<1>3. CASE t.step = "append"
  <2>1. /\ new.status = "RECEIVING" /\ BeginningOf(coin, new.states)
        /\ \A s \in Serials, b \in Attempts : s # sn \/ b # 0 => sub'[s][b] = sub[s][b]
    BY <1>3, BatchGoesOn DEF BeginningOf
  <2>2. QED
    BY <1>0, <1>1, <2>1
<1>4. CASE t.step = "finalize"
  <2>1. FinRejectSpent(sn, 0) \/ FinSetHead(sn, 0)
    BY <1>0, <1>4 DEF Exec
  <2>2. old.status = "RECEIVING"
    BY <2>1 DEF FinRejectSpent, CanReject, FinSetHead, CanSetHead, CanFinalize
  <2>3. registry[sn].status # "SPENT"
    BY <1>0, <2>2, NoHeadYet DEF First
  <2>4. FinSetHead(sn, 0)
    BY <2>1, <2>3 DEF FinRejectSpent, CanReject
  <2>5. /\ new.status = "PENDING"
        /\ \A s \in Serials, b \in Attempts : s # sn \/ b # 0 => sub'[s][b].status = sub[s][b].status
        /\ \A s \in Serials, b \in Attempts : sub'[s][b].states = sub[s][b].states
    BY <1>0, <2>4, SetHeadEffect DEF Base, KeepChains
  <2>6. Len(old.states) >= Len(coin) /\ Len(old.states) <= Len(coin)
    BY <1>4, <1>r, <2>2 DEF TxRight, First, BeginningOf
  <2>7. Len(new.states) = Len(coin) /\ BeginningOf(coin, new.states)
    BY <1>0, <1>l, <1>r, <2>2, <2>5, <2>6
  <2>8. QED
    BY <1>0, <1>1, <2>5, <2>7
<1>5. CASE t.step = "settle"
  <2>3. /\ old.status = "PENDING" /\ new.status = "WON"
        /\ \A s \in Serials, b \in Attempts : s # sn \/ b # 0 => sub'[s][b].status = sub[s][b].status
        /\ \A s \in Serials, b \in Attempts : sub'[s][b].states = sub[s][b].states
    BY <1>5, SettleAlone DEF Base
  <2>4. Len(new.states) = Len(coin) /\ BeginningOf(coin, new.states)
    BY <1>0, <1>r, <2>3
  <2>5. QED
    BY <1>0, <1>1, <2>3, <2>4
<1>6. QED
  BY <1>0, <1>2, <1>3, <1>4, <1>5 DEF Steps

\* What the invariant says of a client's own submission survives every step.
LEMMA OwnStep ==
  ASSUME Alone, Base, PaidInv, [ClientNext]_allVars, NEW c \in Clients
  PROVE  OwnRight(c, sub'[SerialOf(c)])
<1>0. OwnRight(c, sub[SerialOf(c)])
  BY DEF PaidInv
<1>1. ASSUME sub' = sub PROVE OwnRight(c, sub'[SerialOf(c)])
  BY <1>0, <1>1
<1>2. CASE Issue
  BY <1>1, <1>2 DEF Issue, FundVault, MintCoin
<1>3. CASE ClientTick
  BY <1>1, <1>3 DEF ClientTick, Tick
<1>4. ASSUME NEW d \in Clients, Client(d) PROVE OwnRight(c, sub'[SerialOf(c)])
  <2>1. CASE Land(d)
    <3>1. cl[d].tx \in Txs /\ cl[d].tx.by \in Clients /\ Exec(cl[d].tx)
      BY <2>1, ClientRecord DEF Land, Base
    <3>2. /\ OwnRight(cl[d].tx.by, sub[SerialOf(cl[d].tx.by)])
          /\ TxRight(cl[d].tx, First(cl[d].tx.by))
      BY <3>1 DEF PaidInv
    <3>3. QED
      BY <1>0, <3>1, <3>2, OwnExec
  <2>2. CASE ~Land(d)
    BY <1>1, <1>4, <2>2
    DEF Client, Begin, ReadBalance, Mint, MintTo, Look, LookSecond, Append_, Finalize, Finalized,
        ReadHead, Wait,
        Report, Submit, LandFailing, Confirm, Quiet, vars
  <2>3. QED
    BY <2>1, <2>2
<1>5. ASSUME NEW t \in late, LateLand(t) \/ LateLost(t) PROVE OwnRight(c, sub'[SerialOf(c)])
  <2>1. t \in Txs /\ t.by \in Clients
    BY DEF Base, ClientTypeOK, Txs
  <2>2. OwnRight(t.by, sub[SerialOf(t.by)]) /\ TxRight(t, First(t.by))
    BY <2>1 DEF PaidInv
  <2>3. QED
    BY <1>0, <1>1, <1>5, <2>1, <2>2, OwnExec DEF LateLand, LateLost, vars
<1>6. ASSUME NEW d \in Clients, StrayMint(d) PROVE OwnRight(c, sub'[SerialOf(c)])
  BY <1>1, <1>6, StrayFrame DEF Base, Mint, vars
<1>7. QED
  BY <1>1, <1>2, <1>3, <1>4, <1>5, <1>6
  DEF ClientNext, Rival, RateLimited, Expire, Crash, allVars, vars, Alone

\* What was read of a submission stays so.
LEMMA TxKept ==
  ASSUME NEW t \in Txs, NEW x, NEW y, Grown(x, y), TxRight(t, x),
         y.status \in {"NONE", "RECEIVING", "PENDING", "WON"}
  PROVE  TxRight(t, y)
<1>1. Len(CoinOf[t.by]) \in Nat /\ t.len \in Nat
  BY CoinFacts DEF Txs, MaxSubmissionStates
<1>2. QED
  BY <1>1 DEF Grown, TxRight

\* What a run knows of a submission stays right while the submission grows.
LEMMA RunKept ==
  ASSUME NEW c \in Clients, NEW r, NEW x, NEW y, Grown(x, y), RunRight(c, r, x),
         y.status \in {"NONE", "RECEIVING", "PENDING", "WON"}
  PROVE  RunRight(c, r, y)
<1>1. Len(CoinOf[c]) \in Nat
  BY CoinFacts
<1>2. QED
  BY <1>1 DEF Grown, RunRight

\* A finalize or a settle that the program refuses has been overtaken by one that
\* it took: no other of its checks can fail.
LEMMA RefusedIsDone ==
  ASSUME Base, NEW t \in Txs, OwnRight(t.by, sub[SerialOf(t.by)]), TxRight(t, First(t.by)),
         ~Simulates(t),
         t.step = "settle" /\ First(t.by).status = "PENDING" => head[SerialOf(t.by)].age >= Window
  PROVE  /\ t.step = "finalize" => First(t.by).status \in {"PENDING", "WON"}
         /\ t.step = "settle" => First(t.by).status = "WON"
<1> DEFINE sn == SerialOf(t.by)
           s == sub[sn][0]
           r == registry[sn]
<1>0. /\ t.by \in Clients /\ t.a = 0 /\ 0 \in Attempts /\ sn \in Serials
      /\ s.status \in {"NONE", "RECEIVING", "PENDING", "WON"} /\ First(t.by) = s
      /\ TypeOK /\ ClaimsInv
  BY CoinFacts DEF Txs, Attempts, TxRight, OwnRight, First, Base
<1>1. ASSUME t.step = "finalize", s.status = "RECEIVING" PROVE FALSE
  <2>1. CanFinalize(sn, 0)
    BY <1>0, <1>1, CanBeFinalized
  <2>2. registry[sn].status # "SPENT" /\ ~head[sn].set
    BY <1>0, <1>1, NoHeadYet
  <2>3. CanSetHead(sn, 0)
    BY <2>1, <2>2 DEF CanSetHead
  <2>4. QED
    BY <1>0, <1>1, <2>3 DEF Simulates
<1>2. ASSUME t.step = "settle", s.status = "PENDING" PROVE FALSE
  <2>1. r.status = "ACTIVE" /\ CanSettle(sn, 0)
    BY <1>0, <1>2, CanBeSettled
  <2>2. vault >= r.value /\ supply >= r.value /\ allowance[r.recipient].committed >= r.value
    BY <1>0, <2>1, ValueThere
  <2>3. escrow[sn][0] >= Bond(sn)
    <3>1. escrow[sn][0] = Bond(sn) /\ Bond(sn) \in Nat
      BY <1>0, <1>2, BondNat DEF ClaimsInv, EscrowRight, Open, TypeOK
    <3>2. QED
      BY <3>1
  <2>4. CanPayOut(sn, 0, FALSE, TRUE)
    BY <2>1, <2>2, <2>3 DEF CanPayOut, Sweeps
  <2>5. QED
    BY <1>0, <1>2, <2>4 DEF Simulates
<1>3. t.step = "finalize" => s.status # "NONE"
  BY <1>0 DEF TxRight
<1>4. t.step = "settle" => s.status \in {"PENDING", "WON"}
  BY <1>0 DEF TxRight
<1>5. QED
  BY <1>0, <1>1, <1>2, <1>3, <1>4

\* One that the program takes has done its part.
LEMMA TakenIsDone ==
  ASSUME Base, NEW t \in Txs, OwnRight(t.by, sub[SerialOf(t.by)]), TxRight(t, First(t.by)), Exec(t)
  PROVE  /\ t.step = "finalize" => sub'[SerialOf(t.by)][0].status = "PENDING"
         /\ t.step = "settle" => sub'[SerialOf(t.by)][0].status = "WON"
<1> DEFINE sn == SerialOf(t.by)
<1>0. /\ t.by \in Clients /\ t.a = 0 /\ 0 \in Attempts /\ sn \in Serials /\ TypeOK
  BY CoinFacts DEF Txs, Attempts, TxRight, Base
<1>1. CASE t.step = "finalize"
  <2>1. FinRejectSpent(sn, 0) \/ FinSetHead(sn, 0)
    BY <1>0, <1>1 DEF Exec
  <2>2. sub[sn][0].status = "RECEIVING"
    BY <2>1 DEF FinRejectSpent, CanReject, FinSetHead, CanSetHead, CanFinalize
  <2>3. FinSetHead(sn, 0)
    BY <1>0, <2>1, <2>2, NoHeadYet DEF First, FinRejectSpent, CanReject
  <2>4. QED
    BY <1>0, <1>1, <2>3, SetHeadEffect
<1>2. CASE t.step = "settle"
  BY <1>0, <1>2, SettleAlone
<1>3. QED
  BY <1>1, <1>2

\* A run of the other clients' or the same, as the submissions grow.
LEMMA RunStep ==
  ASSUME Alone, Base, TypeOK', PaidInv, [ClientNext]_allVars, NEW c \in Clients
  PROVE  RunRight(c, cl'[c], sub'[SerialOf(c)][0])
<1> DEFINE sn == SerialOf(c)
           x == sub[sn][0]
           y == sub'[sn][0]
           r == cl[c]
           q == cl'[c]
<1>r. /\ r \in [pc : Pcs, a : Attempts, due : 0..Window, tx : Txs,
                net : {"none", "flying", "landed"}, tries : Nat, runs : Nat,
                need : Nat, stray : SUBSET (Nat \X Nat)]
      /\ r.tx \in Txs /\ r.tx.by \in Clients /\ r.tx.step \in Steps /\ sn \in Serials
  BY ClientRecord, CoinFacts DEF Base
<1>c. cl \in [Clients -> [pc : Pcs, a : Attempts, due : 0..Window, tx : Txs,
                          net : {"none", "flying", "landed"}, tries : Nat, runs : Nat,
                          need : Nat, stray : SUBSET (Nat \X Nat)]]
  BY DEF Base, ClientTypeOK
<1>0. /\ RunRight(c, r, x) /\ OwnRight(c, sub[sn]) /\ Grown(x, y) /\ OwnRight(c, sub'[sn])
      /\ y.status \in {"NONE", "RECEIVING", "PENDING", "WON"}
  <2>1. OwnRight(c, sub'[sn])
    BY OwnStep
  <2>2. QED
    BY <1>r, <2>1, GrownStep DEF PaidInv, First, OwnRight
<1>1. RunRight(c, r, y)
  BY <1>0, RunKept
<1>2. ASSUME q.a = 0, q.pc \in {"idle", "fund", "mint", "look", "second", "append", "failed"}
      PROVE  RunRight(c, q, y)
  BY <1>2 DEF RunRight
<1>3. CASE q = r
  BY <1>1, <1>3
<1>4. ASSUME q.a = 0, q.pc = "send", q.tx.by = c PROVE RunRight(c, q, y)
  BY <1>4 DEF RunRight
<1>5. CASE Client(c)
  <2>a. r.a = 0
    BY <1>0 DEF RunRight
  <2>g. ASSUME NEW pc, Go(c, pc) PROVE q.a = 0 /\ q.pc = pc
    BY <1>c, <2>a, <2>g DEF Go
  <2>w. ASSUME NEW pc, NEW a, GoWith(c, pc, a) PROVE q.a = a /\ q.pc = pc
    BY <1>c, <2>w DEF GoWith
  <2>s. ASSUME NEW step, NEW n, NEW w, Send(c, Tx(c, step, 0, n, w))
        PROVE  q.a = 0 /\ q.pc = "send" /\ q.tx.by = c
    BY <1>c, <2>a, <2>s DEF Send, Tx
  <2>q. ASSUME Quiet PROVE y = x
    BY <2>q DEF Quiet, vars
  <2>1. CASE Begin(c)
    <3>1. q.a = 0 /\ q.pc \in {"fund", "failed"}
      BY <1>c, <2>a, <2>1 DEF Begin
    <3>2. QED
      BY <1>2, <3>1
  <2>2. CASE ReadBalance(c) \/ MintTo(c)
    <3>1. q.a = 0 /\ q.pc \in {"look", "mint"}
      <4>1. CASE ReadBalance(c)
        BY <1>c, <2>a, <4>1 DEF ReadBalance
      <4>2. CASE MintTo(c)
        BY <1>c, <2>a, <4>2 DEF MintTo
      <4>3. QED
        BY <2>2, <4>1, <4>2
    <3>2. QED
      BY <1>2, <3>1
  <2>3. CASE Look(c)
    BY <1>2, <2>g, <2>w, <2>3 DEF Look
  <2>4. CASE LookSecond(c)
    <3>1. sub[sn][1].status = "NONE"
      BY <1>0 DEF OwnRight
    <3>2. Send(c, Tx(c, "start", 0, 0, NoWallet))
      BY <2>4, <3>1 DEF LookSecond, StartAttempt, Mine
    <3>3. QED
      BY <1>4, <2>s, <3>2
  <2>5. CASE Append_(c)
    <3>1. \/ Go(c, "failed")
          \/ Go(c, "finalize") /\ x.status # "NONE" /\ Len(x.states) >= Len(CoinOf[c])
          \/ Send(c, Tx(c, "append", 0, Len(x.states), LastState(x).owner))
      BY <2>a, <2>5, Zenon DEF Append_, Mine
    <3>2. CASE Go(c, "finalize") /\ x.status # "NONE" /\ Len(x.states) >= Len(CoinOf[c])
      <4>1. q.a = 0 /\ q.pc = "finalize" /\ y = x
        BY <2>g, <2>q, <2>5, <3>2 DEF Append_
      <4>2. QED
        BY <3>2, <4>1 DEF RunRight
    <3>3. QED
      BY <1>2, <1>4, <2>g, <2>s, <3>1, <3>2
  <2>6. CASE Finalize(c)
    <3>1. \/ Go(c, "failed")
          \/ Go(c, "head") /\ x.status = "PENDING"
          \/ Go(c, "report") /\ x.status = "WON"
          \/ Send(c, Tx(c, "finalize", 0, 0, NoWallet))
      BY <2>a, <2>6, Zenon DEF Finalize, Mine
    <3>2. y = x
      BY <2>6, <2>q DEF Finalize
    <3>3. CASE Go(c, "head") /\ x.status = "PENDING"
      BY <2>g, <3>2, <3>3 DEF RunRight
    <3>4. CASE Go(c, "report") /\ x.status = "WON"
      BY <2>g, <3>2, <3>4 DEF RunRight
    <3>5. QED
      BY <1>2, <1>4, <2>g, <2>s, <3>1, <3>3, <3>4
  <2>7. CASE Finalized(c)
    <3>1. x.status \in {"PENDING", "WON"} /\ y = x
      BY <1>0, <2>7, <2>q DEF Finalized, RunRight, At
    <3>2. Go(c, IF x.status = "PENDING" THEN "head" ELSE "report")
      BY <2>a, <2>7 DEF Finalized, Mine
    <3>3. q.a = 0 /\ q.pc = IF x.status = "PENDING" THEN "head" ELSE "report"
      BY <2>g, <3>2
    <3>4. QED
      BY <3>1, <3>3 DEF RunRight
  <2>8. CASE ReadHead(c)
    <3>1. q.a = 0 /\ q.pc = "wait" /\ r.pc = "head"
      BY <1>c, <2>a, <2>8 DEF ReadHead, At
    <3>2. QED
      BY <1>1, <3>1 DEF RunRight
  <2>9. CASE Wait(c)
    <3>1. Send(c, Tx(c, "settle", 0, 0, NoWallet))
      BY <2>a, <2>9 DEF Wait
    <3>2. QED
      BY <1>4, <2>s, <3>1
  <2>10. CASE Report(c)
    <3>1. q.a = 0 /\ q.pc = "done" /\ r.pc = "report"
      BY <2>g, <2>10 DEF Report, At
    <3>2. QED
      BY <1>1, <3>1 DEF RunRight
  <2>11. CASE Submit(c)
    <3>1. \/ Go(c, "failed")
          \/ q.a = 0 /\ q.pc = "confirm" /\ q.net = "flying" /\ q.tx = r.tx
      BY <1>c, <2>a, <2>11 DEF Submit
    <3>2. r.pc = "send"
      BY <2>11 DEF Submit, At
    <3>3. CASE q.a = 0 /\ q.pc = "confirm" /\ q.net = "flying" /\ q.tx = r.tx
      BY <1>1, <3>2, <3>3 DEF RunRight
    <3>4. QED
      BY <1>2, <2>g, <3>1, <3>3
  <2>12. CASE Land(c) \/ LandFailing(c)
    <3> DEFINE t == r.tx
    <3>1. /\ r.pc = "confirm" /\ t.by = c
          /\ q.a = 0 /\ q.pc = "confirm" /\ q.tx = t
      BY <1>0, <1>c, <2>a, <2>12 DEF Land, LandFailing, At, RunRight
    <3>2. TxRight(t, First(t.by)) /\ OwnRight(t.by, sub[SerialOf(t.by)]) /\ t \in Txs
      BY <1>r DEF PaidInv
    <3>3. CASE Land(c)
      <4>1. Exec(t)
        BY <3>3 DEF Land
      <4>2. /\ t.step = "finalize" => y.status = "PENDING"
            /\ t.step = "settle" => y.status = "WON"
        BY <3>1, <3>2, <4>1, TakenIsDone
      <4>3. QED
        BY <3>1, <4>2 DEF RunRight
    <3>4. CASE LandFailing(c)
      <4>1. ~Simulates(t) /\ y = x
        BY <2>q, <3>4 DEF LandFailing
      <4>2. t.step = "settle" /\ x.status = "PENDING" => head[sn].age >= Window
        BY <1>r, <3>1 DEF Base, OnTimeAt, TxRight, PaidInv, First
      <4>3. /\ t.step = "finalize" => x.status \in {"PENDING", "WON"}
            /\ t.step = "settle" => x.status = "WON"
        BY <3>1, <3>2, <4>1, <4>2, RefusedIsDone DEF First
      <4>4. QED
        BY <3>1, <4>1, <4>3 DEF RunRight
    <3>5. QED
      BY <2>12, <3>3, <3>4
  <2>13. CASE Confirm(c)
    <3>1. /\ q.a = r.tx.a /\ q.pc = After(r.tx.step) /\ r.pc = "confirm" /\ r.net = "landed"
      BY <1>c, <2>13 DEF Confirm, At
    <3>2. r.tx.a = 0
      BY DEF PaidInv, TxRight
    <3>3. /\ r.tx.step \in {"start", "append"} => q.pc = "append"
          /\ r.tx.step = "finalize" => q.pc = "finalized"
          /\ r.tx.step = "settle" => q.pc = "report"
      BY <3>1 DEF After
    <3>4. QED
      BY <1>1, <1>r, <3>1, <3>2, <3>3 DEF RunRight, Steps
  <2>14. QED
    BY <1>5, <2>1, <2>2, <2>3, <2>4, <2>5, <2>6, <2>7, <2>8, <2>9, <2>10, <2>11, <2>12, <2>13
    DEF Client
<1>6. ASSUME NEW d \in Clients, d # c, Client(d) PROVE q = r
  BY <1>6, OtherRuns DEF Base
<1>7. CASE ClientTick
  <2>1. /\ q.a = r.a /\ q.pc = r.pc /\ q.tx = r.tx /\ q.net = r.net
    BY <1>7, <1>r DEF ClientTick
  <2>2. QED
    BY <1>1, <2>1 DEF RunRight
<1>8. ASSUME NEW d \in Clients, RateLimited(d) \/ Expire(d) \/ Crash(d)
      PROVE  RunRight(c, q, y)
  <2>1. \/ q = r
        \/ q.a = r.a /\ q.pc = "failed"
        \/ q.a = r.a /\ q.pc = "send" /\ q.tx = r.tx /\ r.pc \in {"send", "confirm"}
    BY <1>8, <1>c DEF RateLimited, Expire, Crash
  <2>2. r.a = 0
    BY <1>0 DEF RunRight
  <2>3. QED
    BY <1>1, <1>2, <2>1, <2>2 DEF RunRight
<1>9. ASSUME NEW d \in Clients, StrayMint(d) PROVE RunRight(c, q, y)
  <2>1. /\ q.a = r.a /\ q.pc = r.pc /\ q.tx = r.tx /\ q.net = r.net
    BY <1>9, StrayFrame DEF Base
  <2>2. QED
    BY <1>1, <2>1 DEF RunRight
<1>10. QED
  BY <1>3, <1>5, <1>6, <1>7, <1>8, <1>9
  DEF ClientNext, Issue, Rival, LateLand, LateLost, allVars, clientVars

\* A transaction that a client has made stays right whatever happens meanwhile.
LEMMA SentStaysRight ==
  ASSUME Alone, Base, TypeOK', PaidInv, [ClientNext]_allVars,
         NEW t \in Txs, TxRight(t, First(t.by))
  PROVE  TxRight(t, sub'[SerialOf(t.by)][0])
<1>1. t.by \in Clients /\ SerialOf(t.by) \in Serials
  BY CoinFacts DEF Txs
<1>2. OwnRight(t.by, sub'[SerialOf(t.by)])
  BY <1>1, OwnStep
<1>3. sub'[SerialOf(t.by)][0].status \in {"NONE", "RECEIVING", "PENDING", "WON"}
  BY <1>2 DEF OwnRight
<1>4. Grown(sub[SerialOf(t.by)][0], sub'[SerialOf(t.by)][0])
  BY <1>1, GrownStep
<1>5. QED
  BY <1>3, <1>4, TxKept DEF First

\* A client makes its transactions from what it has read of its submission.
LEMMA MadeRight ==
  ASSUME Base, PaidInv, NEW c \in Clients, Client(c)
  PROVE  \/ cl'[c].tx = cl[c].tx
         \/ /\ cl'[c].tx.by = c /\ sub' = sub
            /\ TxRight(cl'[c].tx, sub[SerialOf(c)][0])
<1> DEFINE x == sub[SerialOf(c)][0]
           r == cl[c]
           q == cl'[c]
<1>c. cl \in [Clients -> [pc : Pcs, a : Attempts, due : 0..Window, tx : Txs,
                          net : {"none", "flying", "landed"}, tries : Nat, runs : Nat,
                          need : Nat, stray : SUBSET (Nat \X Nat)]]
  BY DEF Base, ClientTypeOK
<1>0. r.a = 0 /\ RunRight(c, r, x) /\ SerialOf(c) \in Serials
  BY CoinFacts DEF PaidInv, First, RunRight
<1>l. Len(x.states) \in Nat
  BY <1>0 DEF Base, TypeOK, AccountTypes, Submissions, Attempts
<1>q. ASSUME Quiet PROVE sub' = sub
  BY <1>q DEF Quiet, vars
<1>g. ASSUME NEW pc, Go(c, pc) PROVE q.tx = r.tx
  BY <1>c, <1>g DEF Go
<1>w. ASSUME NEW pc, NEW a, GoWith(c, pc, a) PROVE q.tx = r.tx
  BY <1>c, <1>w DEF GoWith
<1>s. ASSUME NEW t, Send(c, t) PROVE q.tx = t
  BY <1>c, <1>s DEF Send
<1>1. CASE LookSecond(c)
  <2>1. CASE Send(c, Tx(c, "start", 0, 0, NoWallet))
    <3>1. q.tx = Tx(c, "start", 0, 0, NoWallet)
      BY <1>s, <2>1
    <3>2. TxRight(q.tx, x) /\ q.tx.by = c
      BY <3>1 DEF Tx, TxRight
    <3>3. QED
      BY <1>1, <1>q, <3>2 DEF LookSecond
  <2>2. QED
    BY <1>1, <1>w, <2>1 DEF LookSecond, StartAttempt
<1>2. CASE Append_(c)
  <2>1. CASE Send(c, Tx(c, "append", 0, Len(x.states), LastState(x).owner)) /\ x.status # "NONE"
    <3>1. q.tx = Tx(c, "append", 0, Len(x.states), LastState(x).owner)
      BY <1>s, <2>1
    <3>2. TxRight(q.tx, x) /\ q.tx.by = c
      BY <1>l, <2>1, <3>1 DEF Tx, TxRight
    <3>3. QED
      BY <1>2, <1>q, <3>2 DEF Append_
  <2>2. \/ Go(c, "failed") \/ Go(c, "finalize")
        \/ Send(c, Tx(c, "append", 0, Len(x.states), LastState(x).owner)) /\ x.status # "NONE"
    BY <1>0, <1>2, Zenon DEF Append_, Mine
  <2>3. QED
    BY <1>g, <2>1, <2>2
<1>3. CASE Finalize(c)
  <2>1. CASE Send(c, Tx(c, "finalize", 0, 0, NoWallet))
    <3>1. q.tx = Tx(c, "finalize", 0, 0, NoWallet) /\ r.pc = "finalize"
      BY <1>3, <1>s, <2>1 DEF Finalize, At
    <3>2. TxRight(q.tx, x) /\ q.tx.by = c
      BY <1>0, <3>1 DEF Tx, TxRight, RunRight
    <3>3. QED
      BY <1>3, <1>q, <3>2 DEF Finalize
  <2>2. \/ Go(c, "failed") \/ Go(c, "head") \/ Go(c, "report")
        \/ Send(c, Tx(c, "finalize", 0, 0, NoWallet))
    BY <1>0, <1>3, Zenon DEF Finalize, Mine
  <2>3. QED
    BY <1>g, <2>1, <2>2
<1>4. CASE Wait(c)
  <2>1. q.tx = Tx(c, "settle", 0, 0, NoWallet) /\ r.pc = "wait"
    BY <1>0, <1>4, <1>s DEF Wait, At
  <2>2. TxRight(q.tx, x) /\ q.tx.by = c
    BY <1>0, <2>1 DEF Tx, TxRight, RunRight
  <2>3. QED
    BY <1>4, <1>q, <2>2 DEF Wait
<1>5. CASE Look(c) \/ Finalized(c) \/ Report(c)
  BY <1>5, <1>g, <1>w DEF Look, Finalized, Report
<1>6. CASE Begin(c) \/ ReadBalance(c) \/ MintTo(c) \/ ReadHead(c) \/ Confirm(c)
  BY <1>6, <1>c DEF Begin, ReadBalance, MintTo, ReadHead, Confirm
<1>7. CASE Submit(c) \/ Land(c) \/ LandFailing(c)
  BY <1>7, <1>c, <1>g DEF Submit, Land, LandFailing
<1>8. QED
  BY <1>1, <1>2, <1>3, <1>4, <1>5, <1>6, <1>7 DEF Client

\* So the transactions of the clients, and those they have given up, are right.
LEMMA TxStep ==
  ASSUME Alone, Base, TypeOK', PaidInv, [ClientNext]_allVars
  PROVE  /\ \A c \in Clients : TxRight(cl'[c].tx, sub'[SerialOf(cl'[c].tx.by)][0])
         /\ \A t \in late' : TxRight(t, sub'[SerialOf(t.by)][0])
<1> DEFINE Right(t) == TxRight(t, sub'[SerialOf(t.by)][0])
<1>c. cl \in [Clients -> [pc : Pcs, a : Attempts, due : 0..Window, tx : Txs,
                          net : {"none", "flying", "landed"}, tries : Nat, runs : Nat,
                          need : Nat, stray : SUBSET (Nat \X Nat)]]
  BY DEF Base, ClientTypeOK
<1>1. ASSUME NEW c \in Clients PROVE Right(cl[c].tx)
  <2>1. cl[c].tx \in Txs /\ TxRight(cl[c].tx, First(cl[c].tx.by))
    BY <1>c DEF PaidInv
  <2>2. QED
    BY <2>1, SentStaysRight
<1>2. ASSUME NEW t \in late PROVE Right(t)
  <2>1. t \in Txs /\ TxRight(t, First(t.by))
    BY DEF PaidInv, Base, ClientTypeOK
  <2>2. QED
    BY <2>1, SentStaysRight
<1>3. ASSUME NEW c \in Clients PROVE Right(cl'[c].tx)
  <2>1. CASE Client(c)
    <3>1. CASE cl'[c].tx = cl[c].tx
      BY <1>1, <3>1
    <3>2. CASE cl'[c].tx.by = c /\ sub' = sub /\ TxRight(cl'[c].tx, sub[SerialOf(c)][0])
      BY <3>2
    <3>3. QED
      BY <2>1, <3>1, <3>2, MadeRight
  <2>2. ASSUME NEW d \in Clients, d # c, Client(d) PROVE cl'[c] = cl[c]
    BY <2>2, OtherRuns DEF Base
  <2>3. CASE ClientTick
    BY <1>c, <1>1, <2>3 DEF ClientTick
  <2>4. ASSUME NEW d \in Clients, RateLimited(d) \/ Expire(d) \/ Crash(d)
        PROVE  cl'[c].tx = cl[c].tx
    BY <1>c, <2>4 DEF RateLimited, Expire, Crash
  <2>5. ASSUME NEW d \in Clients, StrayMint(d) PROVE cl'[c].tx = cl[c].tx
    BY <2>5, StrayFrame DEF Base
  <2>6. QED
    BY <1>1, <2>1, <2>2, <2>3, <2>4, <2>5
    DEF ClientNext, Issue, Rival, LateLand, LateLost, allVars, clientVars
<1>4. late' \subseteq late \cup {cl[c].tx : c \in Clients}
  <2>1. ASSUME NEW c \in Clients, Client(c) PROVE late' = late
    BY <2>1
    DEF Client, Begin, ReadBalance, Mint, MintTo, Look, LookSecond, Append_, Finalize, Finalized,
        ReadHead, Wait,
        Report, Submit, Land, LandFailing, Confirm, Quiet
  <2>2. ASSUME NEW c \in Clients, RateLimited(c) \/ Expire(c) \/ Crash(c)
        PROVE  late' \subseteq late \cup {cl[d].tx : d \in Clients}
    BY <2>2 DEF RateLimited, Expire, Crash, Abandoned
  <2>3. ASSUME NEW c \in Clients, StrayMint(c) PROVE late' = late
    BY <2>3, StrayFrame DEF Base
  <2>4. QED
    BY <2>1, <2>2, <2>3
    DEF ClientNext, Issue, Rival, ClientTick, LateLand, LateLost, allVars, clientVars
<1>5. ASSUME NEW t \in late' PROVE Right(t)
  BY <1>1, <1>2, <1>4
<1>6. QED
  BY <1>3, <1>5

\* Every step keeps what a run that returned was told of its payment.
LEMMA PaidStep ==
  ASSUME Alone, Base, TypeOK', PaidInv, [ClientNext]_allVars
  PROVE  PaidInv'
<1>1. \A c \in Clients : OwnRight(c, sub'[SerialOf(c)]) /\ RunRight(c, cl'[c], sub'[SerialOf(c)][0])
  BY OwnStep, RunStep
<1>2. /\ \A c \in Clients : TxRight(cl'[c].tx, sub'[SerialOf(cl'[c].tx.by)][0])
      /\ \A t \in late' : TxRight(t, sub'[SerialOf(t.by)][0])
  BY TxStep
<1>3. QED
  BY <1>1, <1>2 DEF PaidInv, First

\* Before a client has run, nothing was returned.
LEMMA PaidInit == ClientInit => PaidInv
<1> SUFFICES ASSUME ClientInit PROVE PaidInv
  OBVIOUS
<1>1. /\ \A c \in Clients : cl[c] = Idle
      /\ late = {}
      /\ \A s \in Serials, a \in Attempts : sub[s][a] = NoSub
  BY DEF ClientInit, Init
<1>2. \A c \in Clients : OwnRight(c, sub[SerialOf(c)])
  BY <1>1, CoinFacts DEF OwnRight, NoSub, Attempts
<1>3. \A c \in Clients : RunRight(c, cl[c], First(c)) /\ TxRight(cl[c].tx, First(cl[c].tx.by))
  <2>1. Idle.pc = "idle" /\ Idle.a = 0 /\ Idle.tx = NoTx /\ NoTx.a = 0 /\ NoTx.step = "start"
    BY DEF Idle, NoTx, Tx
  <2>2. QED
    BY <1>1, <2>1 DEF RunRight, TxRight
<1>4. QED
  BY <1>1, <1>2, <1>3 DEF PaidInv

\* A submission that has won was the head's, and spent the coin.
LEMMA PaidMeansReturned ==
  ASSUME Base, PaidInv
  PROVE  ReturnedMeansPaid
<1> SUFFICES ASSUME NEW c \in Clients, At(c, "done")
             PROVE  /\ registry[SerialOf(c)].status = "SPENT"
                    /\ \E a \in Attempts : Mine(c)[a].status = "WON" /\ Mine(c)[a].states = CoinOf[c]
  BY DEF ReturnedMeansPaid
<1> DEFINE sn == SerialOf(c)
           x == sub[sn][0]
           coin == CoinOf[c]
<1>1. /\ x.status = "WON" /\ Len(x.states) = Len(coin)
      /\ \A i \in 1..Len(x.states) : x.states[i] = coin[i]
      /\ 0 \in Attempts /\ sn \in Serials
  BY CoinFacts DEF PaidInv, At, RunRight, OwnRight, First, Attempts
<1>2. x.states \in Seq(State) /\ coin \in Seq(State)
  BY <1>1, CoinFacts DEF Base, TypeOK, AccountTypes, Submissions
<1>3. x.states = coin
  BY <1>1, <1>2
<1>4. registry[sn].status = "SPENT"
  <2>1. HeadLiveAt(sn) /\ head[sn].attempt \in Attempts
    BY <1>1 DEF Base, ClaimsInv, HeadIsLive, TypeOK, AccountTypes, Heads
  <2> HIDE DEF sn
  <2>2. QED
    BY <1>1, <2>1 DEF HeadLiveAt, Attempts, Other
<1>5. QED
  BY <1>1, <1>3, <1>4 DEF Mine

\* The invariants the rest builds on hold together.
LEMMA BaseHolds == ClientSpec => []Base
<1>1. ClientInit => ClaimsInv /\ Blank /\ \A c \in Clients : OnTimeAt(c)
  BY ClaimsInvHolds DEF ClientInit, Init, Blank, NoSub, OnTimeAt, Idle
<1>2. TypeOK /\ ClientTypeOK /\ TypeOK' /\ ClientTypeOK' /\ Base /\ [ClientNext]_allVars => Base'
  <2> SUFFICES ASSUME TypeOK, ClientTypeOK, TypeOK', ClientTypeOK', Base, [ClientNext]_allVars
               PROVE  Base'
    OBVIOUS
  <2>1. ClaimsInv' /\ Blank'
    BY ClientClaimsStep, BlankStep DEF Base
  <2>2. \A c \in Clients : OnTimeAt(c)'
    BY OnTimeStep DEF Base, ClaimsInv
  <2>3. QED
    BY <2>1, <2>2 DEF Base
<1>3. TypeOK /\ ClientTypeOK /\ ClaimsInv /\ Blank /\ (\A c \in Clients : OnTimeAt(c)) => Base
  BY DEF Base
<1>4. ClientInit /\ TypeOK /\ ClientTypeOK => Base
  BY <1>1, <1>3
<1>5. QED
  BY <1>2, <1>4, ClientTypes, PTL DEF ClientSpec

\* A client that is told its coin has been checked in has been paid, whatever its
\* process, its transactions and those of its copies went through: where only the
\* holders of the coin check it in, a run that returns left the coin spent by a
\* submission with the client's chain.
THEOREM ReturnsPaid == ClientSpec => [](Alone => ReturnedMeansPaid)
<1>1. ClientInit => (Alone => PaidInv)
  BY PaidInit
<1>2. Base /\ TypeOK' /\ (Alone => PaidInv) /\ [ClientNext]_allVars => (Alone => PaidInv)'
  BY PaidStep DEF Alone
<1>3. Base /\ (Alone => PaidInv) => (Alone => ReturnedMeansPaid)
  BY PaidMeansReturned
<1>4. QED
  BY <1>1, <1>2, <1>3, BaseHolds, ClientTypes, PTL DEF ClientSpec

-----------------------------------------------------------------------------
(* A run that is not interrupted can pay its bond. *)

\* Only the clients check coins in, each wallet one coin, and none is the mint
\* authority, whose account the reserve is funded from.
Apart ==
  /\ Rivals = {}
  /\ \A c \in Clients : RecipientOf(c) # MintAuthority
  /\ \A c, d \in Clients : RecipientOf(c) = RecipientOf(d) => SerialOf(c) = SerialOf(d)

\* The strengthening of BondCovered: the coin of a run that has begun is minted, so
\* that its bond is fixed, and from the top-up on the recipient has the bond until
\* the coin's first submission is there.
Funded(c) ==
  LET r == cl[c]  sn == SerialOf(c) IN
  /\ r.pc \notin {"idle", "failed"} => registry[sn].status # "NONE"
  /\ /\ r.pc \in {"look", "second"} \/ (r.pc \in {"send", "confirm"} /\ r.tx.step = "start")
     /\ CheckerOf[c] = RecipientOf(c) /\ sub[sn][0].status = "NONE"
     => wallet[RecipientOf(c)] >= Bond(sn)
  /\ r.pc = "mint" /\ CheckerOf[c] = RecipientOf(c) /\ sub[sn][0].status = "NONE"
     => wallet[RecipientOf(c)] + r.need >= Bond(sn)

\* What a step must not do to the bond of a client's coin and the account it
\* is paid from.
PurseKept(c) ==
  LET sn == SerialOf(c) IN
  /\ registry'[sn].status # "NONE" /\ registry'[sn].value = registry[sn].value
  /\ sub'[sn][0].status # "NONE" \/ wallet'[RecipientOf(c)] >= wallet[RecipientOf(c)]

\* A transaction takes the bond out of a client's account only for its own coin.
LEMMA ExecPurse ==
  ASSUME Apart, TypeOK, NEW t \in Txs, t.step = "start" => t.a = 0, Exec(t),
         NEW c \in Clients, registry[SerialOf(c)].status # "NONE"
  PROVE  PurseKept(c)
<1> DEFINE sn == SerialOf(c)
           tn == SerialOf(t.by)
           w == RecipientOf(c)
<1>0. /\ t.by \in Clients /\ t.a \in Attempts /\ t.step \in Steps /\ 0 \in Attempts
      /\ sn \in Serials /\ tn \in Serials /\ w \in Accounts
  BY CoinFacts DEF Txs, Attempts, Accounts
<1>t. /\ wallet \in [Accounts -> Nat] /\ registry \in [Serials -> Registries]
      /\ Bond(tn) \in Nat /\ registry[tn].value \in Nat
  BY <1>0, BondNat DEF TypeOK, AccountTypes
<1>1. CASE t.step = "start"
  <2>1. StartCheckIn(tn, 0, RecipientOf(t.by), CoinOf[t.by][1])
    BY <1>1 DEF Exec
  <2>2. CoinOf[t.by][1] \in State /\ RecipientOf(t.by) \in Wallets
    BY <1>0, CoinFacts
  <2>3. /\ registry'[sn].status = registry[sn].status
        /\ registry'[sn].value = registry[sn].value
        /\ sub'[tn][0].status = "RECEIVING"
    BY <1>0, <2>1, <2>2, StartEffect DEF KeepCoins
  <2>4. CASE RecipientOf(t.by) = w
    <3>1. tn = sn
      BY <1>0, <2>4 DEF Apart
    <3>2. QED
      BY <2>3, <3>1 DEF PurseKept
  <2>5. CASE RecipientOf(t.by) # w
    <3>1. wallet'[w] = wallet[w] /\ wallet[w] \in Nat
      BY <1>0, <1>t, <2>1, <2>5 DEF StartCheckIn
    <3>2. QED
      BY <2>3, <3>1 DEF PurseKept
  <2>6. QED
    BY <2>4, <2>5
<1>2. ASSUME registry' = registry, wallet' = wallet PROVE PurseKept(c)
  <2>1. wallet[w] \in Nat
    BY <1>0, <1>t
  <2>2. QED
    BY <1>2, <2>1 DEF PurseKept
<1>3. CASE t.step = "append"
  BY <1>2, <1>3 DEF Exec, AppendLinks
<1>4. CASE t.step = "finalize"
  BY <1>2, <1>4 DEF Exec, FinRejectSpent, FinSetHead
<1>5. CASE t.step = "settle"
  <2>1. Settle(tn, t.a, FALSE, TRUE)
    BY <1>5 DEF Exec
  <2>2. registry'[sn].status # "NONE" /\ registry'[sn].value = registry[sn].value
    BY <1>0, <1>t, <2>1 DEF Settle, Registries
  <2>3. PICK x, y : wallet' = [[wallet EXCEPT ![x] = @ + registry[tn].value]
                                       EXCEPT ![y] = @ + Bond(tn)]
    BY <2>1 DEF Settle
  <2>4. wallet'[w] >= wallet[w]
    BY <1>0, <1>t, <2>3
  <2>5. QED
    BY <2>2, <2>4 DEF PurseKept
<1>6. QED
  BY <1>0, <1>1, <1>3, <1>4, <1>5 DEF Steps

\* Before its coin is started, a client's top-up is only added to.
LEMMA PurseStep ==
  ASSUME Apart, TypeOK, ClientTypeOK, StartsFirst, [ClientNext]_allVars,
         NEW c \in Clients, registry[SerialOf(c)].status # "NONE"
  PROVE  PurseKept(c)
<1> DEFINE sn == SerialOf(c)
           w == RecipientOf(c)
<1>0. sn \in Serials /\ w \in Accounts /\ w # MintAuthority
  BY CoinFacts DEF Accounts, Apart
<1>t. /\ wallet \in [Accounts -> Nat] /\ registry \in [Serials -> Registries]
      /\ wallet[w] \in Nat
  BY <1>0 DEF TypeOK, AccountTypes
<1>1. ASSUME registry' = registry, wallet'[w] = wallet[w] PROVE PurseKept(c)
  BY <1>t, <1>1 DEF PurseKept
<1>m. ASSUME NEW d \in Clients, NEW n \in Nat, Mint(d, n) PROVE PurseKept(c)
  <2>1. registry' = registry
    BY <1>m DEF Mint
  <2>2. wallet'[w] >= wallet[w]
    BY <1>0, <1>t, <1>m DEF Mint
  <2>3. QED
    BY <2>1, <2>2 DEF PurseKept
<1>2. ASSUME NEW n \in Amounts, FundVault(n) PROVE PurseKept(c)
  BY <1>0, <1>1, <1>t, <1>2 DEF FundVault
<1>3. ASSUME NEW d \in Clients, MintCoin(SerialOf(d), CoinOf[d][1].value, RecipientOf(d))
      PROVE  PurseKept(c)
  <2>1. registry[SerialOf(d)].status = "NONE" /\ wallet' = wallet
    BY <1>3 DEF MintCoin, CanMint
  <2>2. registry'[sn] = registry[sn]
    BY <1>0, <1>3, <1>t, <2>1 DEF MintCoin
  <2>3. QED
    BY <1>t, <2>1, <2>2 DEF PurseKept
<1>4. CASE ClientTick
  BY <1>1, <1>4 DEF ClientTick, Tick
<1>5. ASSUME NEW d \in Clients, Client(d) PROVE PurseKept(c)
  <2>1. CASE Land(d)
    <3>1. cl[d].tx \in Txs /\ Exec(cl[d].tx) /\ (cl[d].tx.step = "start" => cl[d].tx.a = 0)
      BY <2>1, ClientRecord DEF Land, StartsFirst
    <3>2. QED
      BY <3>1, ExecPurse
  <2>2. CASE MintTo(d)
    BY <1>m, <2>2 DEF MintTo, ClientTypeOK
  <2>3. CASE ~Land(d) /\ ~MintTo(d)
    BY <1>1, <1>5, <2>3
    DEF Client, Begin, ReadBalance, Look, LookSecond, Append_, Finalize, Finalized, ReadHead, Wait,
        Report, Submit, LandFailing, Confirm, Quiet, vars
  <2>4. QED
    BY <2>1, <2>2, <2>3
<1>6. ASSUME NEW t \in late, LateLand(t) \/ LateLost(t) PROVE PurseKept(c)
  <2>1. t \in Txs /\ (t.step = "start" => t.a = 0)
    BY DEF ClientTypeOK, StartsFirst
  <2>2. QED
    BY <1>1, <1>6, <2>1, ExecPurse DEF LateLand, LateLost, vars
<1>7. ASSUME NEW d \in Clients, StrayMint(d) PROVE PurseKept(c)
  BY <1>1, <1>m, <1>7, StrayFrame DEF vars
<1>8. QED
  BY <1>1, <1>2, <1>3, <1>4, <1>5, <1>6, <1>7
  DEF ClientNext, Issue, Rival, RateLimited, Expire, Crash, allVars, vars, Apart

\* The order of a run: what it does before it can send a start.
LEMMA RunOrder ==
  ASSUME ClientTypeOK, NEW c \in Clients, Client(c), ~Begin(c), ~ReadBalance(c), ~MintTo(c)
  PROVE  LET r == cl[c]  q == cl'[c] IN
         /\ q.pc # "mint"
         /\ q.pc \notin {"idle", "failed"} => r.pc \notin {"idle", "failed"}
         /\ \/ q.pc \in {"look", "second"}
            \/ q.pc \in {"send", "confirm"} /\ q.tx.step = "start"
            => \/ r.pc \in {"look", "second"}
               \/ r.pc \in {"send", "confirm"} /\ r.tx.step = "start"
<1> DEFINE r == cl[c]
           q == cl'[c]
<1>c. cl \in [Clients -> [pc : Pcs, a : Attempts, due : 0..Window, tx : Txs,
                          net : {"none", "flying", "landed"}, tries : Nat, runs : Nat,
                          need : Nat, stray : SUBSET (Nat \X Nat)]]
  BY DEF ClientTypeOK
<1>g. ASSUME NEW pc, Go(c, pc) PROVE q.pc = pc /\ q.tx = r.tx
  BY <1>c, <1>g DEF Go
<1>w. ASSUME NEW pc, NEW a, GoWith(c, pc, a) PROVE q.pc = pc
  BY <1>c, <1>w DEF GoWith
<1>s. ASSUME NEW step, NEW a, NEW n, NEW w, Send(c, Tx(c, step, a, n, w))
      PROVE  q.pc = "send" /\ q.tx.step = step
  BY <1>c, <1>s DEF Send, Tx
<1>1. CASE Look(c)
  BY <1>1, <1>g, <1>w DEF Look, At
<1>2. CASE LookSecond(c)
  BY <1>2, <1>s, <1>w DEF LookSecond, At
<1>3. CASE Append_(c)
  <2>1. \/ Go(c, "failed") \/ Go(c, "finalize")
        \/ \E a, n, w : Send(c, Tx(c, "append", a, n, w))
    BY <1>3, Zenon DEF Append_
  <2>2. r.pc = "append"
    BY <1>3 DEF Append_, At
  <2>3. QED
    BY <1>g, <1>s, <2>1, <2>2
<1>4. CASE Finalize(c)
  <2>1. \/ Go(c, "failed") \/ Go(c, "head") \/ Go(c, "report")
        \/ \E a, n, w : Send(c, Tx(c, "finalize", a, n, w))
    BY <1>4, Zenon DEF Finalize
  <2>2. r.pc = "finalize"
    BY <1>4 DEF Finalize, At
  <2>3. QED
    BY <1>g, <1>s, <2>1, <2>2
<1>5. CASE Wait(c)
  BY <1>5, <1>s DEF Wait, At
<1>6. CASE Finalized(c) \/ Report(c)
  BY <1>6, <1>g DEF Finalized, Report, At
<1>7. CASE Submit(c)
  <2>1. Go(c, "failed") \/ (q.pc = "confirm" /\ q.tx = r.tx)
    BY <1>7, <1>c DEF Submit
  <2>2. QED
    BY <1>7, <1>g, <2>1 DEF Submit, At
<1>8. CASE ReadHead(c) \/ Land(c) \/ LandFailing(c)
  <2>1. CASE ReadHead(c)
    BY <1>c, <2>1 DEF ReadHead, At
  <2>2. CASE Land(c) \/ LandFailing(c)
    <3>1. q.pc = r.pc /\ q.tx = r.tx /\ r.pc = "confirm"
      BY <1>c, <2>2 DEF Land, LandFailing, At
    <3>2. QED
      BY <3>1
  <2>3. QED
    BY <1>8, <2>1, <2>2
<1>9. CASE Confirm(c)
  <2>1. q.pc = After(r.tx.step) /\ r.pc = "confirm" /\ r.tx.step \in Steps
    BY <1>9, <1>c, ClientRecord DEF Confirm, At
  <2>2. q.pc \in {"append", "finalized", "report"}
    BY <2>1 DEF After, Steps
  <2>3. QED
    BY <2>1, <2>2
<1>10. QED
  BY <1>1, <1>2, <1>3, <1>4, <1>5, <1>6, <1>7, <1>8, <1>9 DEF Client

\* The run that has topped up keeps enough until its own start.
LEMMA FundedStep ==
  ASSUME Apart, Base, TypeOK', StartsFirst, [ClientNext]_allVars, NEW c \in Clients, Funded(c)
  PROVE  Funded(c)'
<1> DEFINE sn == SerialOf(c)
           w == RecipientOf(c)
           r == cl[c]
           q == cl'[c]
           Paying(k) == k.pc \in {"look", "second"}
                        \/ (k.pc \in {"send", "confirm"} /\ k.tx.step = "start")
<1>c. cl \in [Clients -> [pc : Pcs, a : Attempts, due : 0..Window, tx : Txs,
                          net : {"none", "flying", "landed"}, tries : Nat, runs : Nat,
                          need : Nat, stray : SUBSET (Nat \X Nat)]]
  BY DEF Base, ClientTypeOK
<1>0. /\ sn \in Serials /\ w \in Accounts /\ wallet[w] \in Nat /\ wallet'[w] \in Nat
      /\ Bond(sn) \in Nat /\ TypeOK /\ ClientTypeOK
  BY CoinFacts, BondNat DEF Base, TypeOK, AccountTypes, Accounts
<1>1. registry[sn].status # "NONE" => PurseKept(c)
  BY <1>0, PurseStep
<1>2. sub[sn][0].status # "NONE" => sub'[sn][0].status # "NONE"
  BY <1>0, GrownStep DEF Grown
<1>3. ASSUME q.pc \notin {"idle", "failed"} => r.pc \notin {"idle", "failed"},
             Paying(q) => Paying(r),
             q.pc = "mint" => r.pc = "mint" /\ q.need = r.need
      PROVE  Funded(c)'
  <2>1. q.pc \notin {"idle", "failed"} => registry'[sn].status # "NONE"
    BY <1>1, <1>3 DEF Funded, PurseKept
  <2>2. ASSUME Paying(q), CheckerOf[c] = w, sub'[sn][0].status = "NONE"
        PROVE  wallet'[w] >= BondAmount(registry'[sn].value, BondBps)
    <3>1. registry[sn].status # "NONE" /\ wallet[w] >= Bond(sn)
      BY <1>2, <1>3, <2>2 DEF Funded
    <3>2. wallet'[w] >= wallet[w] /\ registry'[sn].value = registry[sn].value
      BY <1>1, <2>2, <3>1 DEF PurseKept
    <3>3. BondAmount(registry'[sn].value, BondBps) = Bond(sn)
      BY <3>2 DEF Bond
    <3>4. QED
      BY <1>0, <3>1, <3>2, <3>3
  <2>3. ASSUME q.pc = "mint", CheckerOf[c] = w, sub'[sn][0].status = "NONE"
        PROVE  wallet'[w] + q.need >= BondAmount(registry'[sn].value, BondBps)
    <3>1. /\ r.pc = "mint" /\ q.need = r.need /\ r.need \in Nat
          /\ registry[sn].status # "NONE" /\ wallet[w] + r.need >= Bond(sn)
      BY <1>c, <1>2, <1>3, <2>3 DEF Funded
    <3>2. wallet'[w] >= wallet[w] /\ registry'[sn].value = registry[sn].value
      BY <1>1, <2>3, <3>1 DEF PurseKept
    <3>3. BondAmount(registry'[sn].value, BondBps) = Bond(sn)
      BY <3>2 DEF Bond
    <3>4. QED
      BY <1>0, <3>1, <3>2, <3>3
  <2>4. QED
    BY <2>1, <2>2, <2>3 DEF Funded, Bond, SerialOf, RecipientOf
<1>4. CASE Client(c)
  <2>1. CASE Begin(c)
    <3>1. q.pc \in {"fund", "failed"} /\ registry[sn].status # "NONE" /\ registry' = registry
      BY <1>c, <2>1 DEF Begin, Quiet, vars
    <3>2. QED
      BY <3>1 DEF Funded, SerialOf
  <2>2. CASE ReadBalance(c)
    <3>1. /\ q.pc = IF Needed(c) = 0 THEN "look" ELSE "mint"
          /\ q.need = Needed(c) /\ r.pc = "fund"
          /\ registry' = registry /\ wallet' = wallet
      BY <1>c, <2>2 DEF ReadBalance, At, Quiet, vars
    <3>2. Needed(c) \in Nat /\ (CheckerOf[c] = w => wallet[w] + Needed(c) >= Bond(sn))
      BY <1>0, NeededNat, ClientAssumption DEF Needed
    <3>3. QED
      BY <1>0, <3>1, <3>2 DEF Funded, Bond, SerialOf, RecipientOf
  <2>3. CASE MintTo(c)
    <3>1. q.pc = "look" /\ r.pc = "mint" /\ r.need \in Nat /\ registry' = registry /\ sub' = sub
      BY <1>c, <2>3 DEF MintTo, Mint, At
    <3>2. CheckerOf[c] = w => wallet'[w] = wallet[w] + r.need
      BY <1>0, <2>3 DEF MintTo, Mint, TypeOK, AccountTypes
    <3>3. QED
      BY <1>0, <3>1, <3>2 DEF Funded, Bond, SerialOf, RecipientOf
  <2>4. CASE ~Begin(c) /\ ~ReadBalance(c) /\ ~MintTo(c)
    <3>1. /\ q.pc # "mint"
          /\ q.pc \notin {"idle", "failed"} => r.pc \notin {"idle", "failed"}
          /\ Paying(q) => Paying(r)
      BY <1>4, <2>4, RunOrder DEF Base
    <3>2. QED
      BY <1>3, <3>1
  <2>5. QED
    BY <2>1, <2>2, <2>3, <2>4
<1>5. CASE q = r
  BY <1>3, <1>5
<1>6. ASSUME NEW d \in Clients, d # c, Client(d) PROVE q = r
  BY <1>0, <1>6, OtherRuns
<1>7. CASE ClientTick
  <2>1. q.pc = r.pc /\ q.tx = r.tx /\ q.need = r.need
    BY <1>7, <1>c DEF ClientTick
  <2>2. QED
    BY <1>3, <2>1
<1>9. ASSUME NEW d \in Clients, StrayMint(d) PROVE Funded(c)'
  <2>1. q.pc = r.pc /\ q.tx = r.tx /\ q.need = r.need
    BY <1>9, StrayFrame DEF Base
  <2>2. QED
    BY <1>3, <2>1
<1>8. ASSUME NEW d \in Clients, RateLimited(d) \/ Expire(d) \/ Crash(d) PROVE Funded(c)'
  <2>1. \/ q = r
        \/ q.pc = "failed"
        \/ q.pc = "send" /\ q.tx = r.tx /\ r.pc \in {"send", "confirm"}
    BY <1>8, <1>c DEF RateLimited, Expire, Crash
  <2>2. QED
    BY <1>3, <2>1
<1>10. QED
  BY <1>4, <1>5, <1>6, <1>7, <1>8, <1>9
  DEF ClientNext, Issue, Rival, LateLand, LateLost, allVars, clientVars

\* A client whose wallet is not also used for another coin never sends a
\* start_check_in it cannot pay, whatever its late transactions do.
THEOREM BondsAreCovered == ClientSpec => [](Apart => BondCovered)
<1> DEFINE Inv == Apart => \A c \in Clients : Funded(c)
<1>1. ClientInit => Inv
  BY DEF ClientInit, Idle, Funded
<1>2. Base /\ TypeOK' /\ StartsFirst /\ Inv /\ [ClientNext]_allVars => Inv'
  BY FundedStep DEF Apart
<1>3. Inv => (Apart => BondCovered)
  BY DEF BondCovered, Funded, At, Mine
<1>4. QED
  BY <1>1, <1>2, <1>3, BaseHolds, FirstStarts, ClientTypes, PTL DEF ClientSpec
=============================================================================
