-------------------------- MODULE ScriptRun_proofs --------------------------
(***************************************************************************)
(* What the scripts rely on, for every number of runs, crash and late      *)
(* transaction: the records are all PASS (RecordsHold) and no step fails   *)
(* that is not expected to (NothingThrows).                                *)
(*                                                                         *)
(* ScriptSteps_proofs has the invariant and the coins.  Here are the       *)
(* balances: what is still minted fits the vault and the cap, who starts   *)
(* has the bond, the matrix finds the differences it expects, a settle     *)
(* comes after the window.  With these every transaction that is not to be *)
(* refused is accepted, and every step keeps the invariant.                *)
(***************************************************************************)
EXTENDS ScriptSteps_proofs

-----------------------------------------------------------------------------
(* What transactions do to supply, vault, cap and wallets. *)

\* Supply and committed value change by ds, the vault by dv, the cap stays.
Sums(ds, dv) ==
  supply' = supply + ds /\ vault' = vault + dv /\ Al'.committed = Al.committed + ds
Shift(ds, dv) == Sums(ds, dv) /\ Al'.cap = Al.cap
Opened == allowance[Recipient].initialized

\* Supply, vault, balances and allowances are numbers.
LEMMA MoneyTypes ==
  ASSUME TypeOK
  PROVE  /\ supply \in Nat /\ vault \in Nat /\ wallet \in [Accounts -> Nat]
         /\ Recipient \in Accounts /\ Holder3 \in Accounts /\ MintAuthority \in Accounts
         /\ allowance \in [Wallets -> Allowances] /\ allowance[Recipient] \in Allowances
         /\ Recipient \in Wallets /\ Holder3 \in Wallets
         /\ Al \in Allowances /\ Al.committed \in Nat /\ Al.cap \in Nat
<1>1. /\ supply \in Nat /\ vault \in Nat /\ wallet \in [Accounts -> Nat]
      /\ allowance \in [Wallets -> Allowances]
  BY DEF TypeOK, AccountTypes
<1>2. Recipient \in Wallets /\ Holder3 \in Wallets
  BY ScriptAssumption
<1>3. Recipient \in Accounts /\ Holder3 \in Accounts /\ MintAuthority \in Accounts
  BY <1>2 DEF Accounts
<1>4. allowance[Recipient] \in Allowances
  BY <1>1, <1>2
<1>5. Al \in Allowances
  BY <1>4, ConfigAssumption DEF Al, OpenAllowance, Allowances
<1>6. Al.committed \in Nat /\ Al.cap \in Nat
  BY <1>5 DEF Allowances
<1>. QED  BY <1>1, <1>2, <1>3, <1>4, <1>5, <1>6

\* Nothing is shifted when supply, vault and allowances stay.
LEMMA NoShift ==
  ASSUME TypeOK, UNCHANGED <<supply, vault, allowance>>
  PROVE  Shift(0, 0) /\ (Opened' <=> Opened)
<1>1. Al' = Al /\ (Opened' <=> Opened)
  BY DEF Al, OpenAllowance, Opened
<1>. QED  BY <1>1, MoneyTypes DEF Shift, Sums

\* A mint adds 100 to the supply and to what is committed.
LEMMA MintShift ==
  ASSUME TypeOK, NEW sn, MintCoin(sn, Value, Recipient)
  PROVE  Shift(100, 0) /\ Opened' /\ wallet' = wallet
<1>0. /\ allowance[Recipient] \in Allowances /\ allowance \in [Wallets -> Allowances]
      /\ Recipient \in Wallets /\ Al \in Allowances /\ vault \in Nat
  BY MoneyTypes
<1>1. Al.initialized
  BY <1>0 DEF Al, OpenAllowance, Allowances
<1>2. allowance' = [allowance EXCEPT ![Recipient] = [Al EXCEPT !.committed = @ + 100]]
  BY DEF MintCoin, Al, Value
<1>3. allowance'[Recipient] = [Al EXCEPT !.committed = @ + 100]
  BY <1>0, <1>2
<1>4. allowance'[Recipient].initialized = Al.initialized
  BY <1>0, <1>3 DEF Allowances
<1>5. Opened'
  BY <1>1, <1>4 DEF Opened
<1>6. Al' = allowance'[Recipient]
  BY <1>5 DEF Al, OpenAllowance, Opened
<1>7. Al'.committed = Al.committed + 100 /\ Al'.cap = Al.cap
  BY <1>0, <1>3, <1>6 DEF Allowances
<1>8. supply' = supply + 100 /\ vault' = vault + 0 /\ wallet' = wallet
  BY <1>0 DEF MintCoin, Value
<1>. QED  BY <1>5, <1>7, <1>8 DEF Shift, Sums

\* A payout takes 100 from the supply, what is committed, and the vault.
LEMMA RedeemShift ==
  ASSUME TypeOK, ClaimsInv, NEW sn \in Serials, registry[sn].status = "ACTIVE",
         registry[sn].value = 100, registry[sn].recipient = Recipient, Redeemed
  PROVE  Shift(-100, -100) /\ Opened' /\ Opened /\ vault >= 100
<1>0. /\ allowance[Recipient] \in Allowances /\ allowance \in [Wallets -> Allowances]
      /\ Recipient \in Wallets /\ supply \in Nat /\ vault \in Nat
  BY MoneyTypes
<1>1. allowance[Recipient].committed >= 100 /\ vault >= 100
  BY ValueThere
<1>2. AllowanceRight(Recipient)
  BY <1>0 DEF ClaimsInv
<1>3. Opened
  BY <1>1, <1>2 DEF AllowanceRight, Opened
<1>4. Al = allowance[Recipient]
  BY <1>3 DEF Al, OpenAllowance, Opened
<1>5. allowance'[Recipient] = [allowance[Recipient] EXCEPT !.committed = @ - 100]
  BY <1>0 DEF Redeemed
<1>6. allowance'[Recipient].initialized = allowance[Recipient].initialized
  BY <1>0, <1>5 DEF Allowances
<1>7. Opened'
  BY <1>3, <1>6 DEF Opened
<1>8. Al' = allowance'[Recipient]
  BY <1>7 DEF Al, OpenAllowance, Opened
<1>9. Al'.committed = Al.committed - 100 /\ Al'.cap = Al.cap
  BY <1>0, <1>4, <1>5, <1>8 DEF Allowances
<1>10. Al.committed \in Nat
  BY MoneyTypes
<1>11. /\ Al.committed + -100 = Al.committed - 100 /\ supply + -100 = supply - 100
       /\ vault + -100 = vault - 100
  BY <1>0, <1>10
<1>. QED  BY <1>1, <1>3, <1>7, <1>9, <1>11 DEF Shift, Sums, Redeemed

\* The wallets that pay: only who starts a check-in, the bond.
Pays(t, w) == IF t.op = "start" /\ w = t.w THEN 100 ELSE 0

\* What a transaction that moves a coin does to supply, vault, cap and wallets.
LEMMA ExecMoney ==
  ASSUME Configured, ProgInv, NEW t, Sent(t), Exec(t), t.op \in Moves
  PROVE  /\ t.op = "mint" => Shift(100, 0)
         /\ t.op # "mint" => Shift(0, 0) \/ Shift(-100, -100)
         /\ Opened' <=> (Opened \/ t.op = "mint")
         /\ t.op = "start" => wallet[t.w] >= 100
         /\ wallet' \in [Accounts -> Nat]
         /\ \A w \in Accounts : wallet'[w] >= wallet[w] - Pays(t, w)
<1>. DEFINE sn == t.sn  a == t.a
<1>0. TypeOK /\ ClaimsInv /\ sn \in Serials /\ a \in Attempts /\ CoinRight(sn)
  BY SentTypes DEF ProgInv
<1>1. TypeOK'
  BY ExecStep DEF ProgInv
<1>2. /\ wallet \in [Accounts -> Nat] /\ wallet' \in [Accounts -> Nat]
      /\ Recipient \in Accounts /\ Recipient \in Wallets
  BY <1>0, <1>1, MoneyTypes DEF TypeOK, AccountTypes
<1>. HIDE DEF sn, a
<1>3. ASSUME registry[sn].status # "NONE"
      PROVE  /\ registry[sn].value = 100 /\ registry[sn].recipient = Recipient
             /\ Bond(sn) = 100
  BY <1>0, <1>3, CoinWorth
<1>4. CASE t.op = "mint"
  <2>1. Shift(100, 0) /\ Opened' /\ wallet' = wallet
    BY <1>0, <1>4, MintShift DEF Exec
  <2>2. \A w \in Accounts : wallet'[w] >= wallet[w] - Pays(t, w)
    BY <1>2, <1>4, <2>1 DEF Pays
  <2>. QED  BY <1>2, <1>4, <2>1, <2>2
<1>5. CASE t.op = "start"
  <2>1. /\ registry[sn].status = "ACTIVE" /\ wallet[t.w] >= Bond(sn)
        /\ wallet' = [wallet EXCEPT ![t.w] = @ - Bond(sn)]
        /\ UNCHANGED <<supply, vault, allowance>>
    BY <1>5 DEF Exec, StartCheckIn, CanStart, sn, a
  <2>2. Bond(sn) = 100
    BY <1>3, <2>1
  <2>3. t.w \in Accounts
    BY <1>5 DEF Sent, Accounts
  <2>4. ASSUME NEW w \in Accounts PROVE wallet'[w] >= wallet[w] - Pays(t, w)
    <3>1. CASE w = t.w
      <4>1. wallet'[w] = wallet[w] - 100 /\ Pays(t, w) = 100 /\ wallet[w] \in Nat
        BY <1>2, <1>5, <2>1, <2>2, <3>1 DEF Pays
      <4>. QED  BY <4>1
    <3>2. CASE w # t.w
      <4>1. wallet'[w] = wallet[w] /\ Pays(t, w) = 0 /\ wallet[w] \in Nat
        BY <1>2, <1>5, <2>1, <3>2 DEF Pays
      <4>. QED  BY <4>1
    <3>. QED  BY <3>1, <3>2
  <2>5. Shift(0, 0) /\ (Opened' <=> Opened)
    BY <1>0, <2>1, NoShift
  <2>. QED  BY <1>2, <1>5, <2>1, <2>2, <2>4, <2>5
<1>6. ASSUME t.op \notin {"mint", "start"}, Shift(0, 0), Opened' <=> Opened,
             \A w \in Accounts : wallet'[w] >= wallet[w]
      PROVE  /\ t.op # "mint" => Shift(0, 0) \/ Shift(-100, -100)
             /\ Opened' <=> (Opened \/ t.op = "mint")
             /\ \A w \in Accounts : wallet'[w] >= wallet[w] - Pays(t, w)
  <2>1. ASSUME NEW w \in Accounts PROVE wallet'[w] >= wallet[w] - Pays(t, w)
    <3>1. Pays(t, w) = 0 /\ wallet[w] \in Nat /\ wallet'[w] \in Nat /\ wallet'[w] >= wallet[w]
      BY <1>2, <1>6 DEF Pays
    <3>. QED  BY <3>1
  <2>. QED  BY <1>6, <2>1
<1>7. ASSUME t.op \notin {"mint", "start"}, Shift(-100, -100), Opened, Opened',
             \A w \in Accounts : wallet'[w] >= wallet[w]
      PROVE  /\ t.op # "mint" => Shift(0, 0) \/ Shift(-100, -100)
             /\ Opened' <=> (Opened \/ t.op = "mint")
             /\ \A w \in Accounts : wallet'[w] >= wallet[w] - Pays(t, w)
  <2>1. ASSUME NEW w \in Accounts PROVE wallet'[w] >= wallet[w] - Pays(t, w)
    <3>1. Pays(t, w) = 0 /\ wallet[w] \in Nat /\ wallet'[w] \in Nat /\ wallet'[w] >= wallet[w]
      BY <1>2, <1>7 DEF Pays
    <3>. QED  BY <3>1
  <2>. QED  BY <1>7, <2>1
<1>8. ASSUME UNCHANGED <<supply, vault, allowance, wallet>>
      PROVE  Shift(0, 0) /\ (Opened' <=> Opened) /\ \A w \in Accounts : wallet'[w] >= wallet[w]
  <2>1. Shift(0, 0) /\ (Opened' <=> Opened)
    BY <1>0, <1>8, NoShift
  <2>2. \A w \in Accounts : wallet'[w] >= wallet[w]
    BY <1>2, <1>8
  <2>. QED  BY <2>1, <2>2
<1>9. CASE t.op = "append"
  <2>1. UNCHANGED <<supply, vault, allowance, wallet>>
    BY <1>9 DEF Exec, AppendLinks
  <2>. QED  BY <1>2, <1>6, <1>8, <1>9, <2>1
<1>10. ASSUME t.op \notin {"mint", "start"}, FinRejectSpent(sn, a) \/ FinSetHead(sn, a)
       PROVE  /\ t.op # "mint" => Shift(0, 0) \/ Shift(-100, -100)
              /\ Opened' <=> (Opened \/ t.op = "mint")
              /\ \A w \in Accounts : wallet'[w] >= wallet[w] - Pays(t, w)
  <2>1. UNCHANGED <<supply, vault, allowance, wallet>>
    BY <1>10 DEF FinRejectSpent, FinSetHead
  <2>. QED  BY <1>6, <1>8, <1>10, <2>1
<1>11. ASSUME t.op \notin {"mint", "start"}, FinResolveLose(sn, a)
       PROVE  /\ t.op # "mint" => Shift(0, 0) \/ Shift(-100, -100)
              /\ Opened' <=> (Opened \/ t.op = "mint")
              /\ \A w \in Accounts : wallet'[w] >= wallet[w] - Pays(t, w)
  <2>1. PICK c : c = sub[sn][Other(a)].checker
    OBVIOUS
  <2>2. /\ UNCHANGED <<supply, vault, allowance>>
        /\ wallet' = [wallet EXCEPT ![c] = @ + Bond(sn)]
    BY <1>11, <2>1 DEF FinResolveLose
  <2>3. Bond(sn) \in Nat
    BY <1>0, BondNat DEF TypeOK
  <2>4. \A w \in Accounts : wallet'[w] >= wallet[w]
    BY <1>2, <2>2, <2>3
  <2>5. Shift(0, 0) /\ (Opened' <=> Opened)
    BY <1>0, <2>2, NoShift
  <2>. QED  BY <1>6, <1>11, <2>4, <2>5
<1>12. ASSUME t.op \notin {"mint", "start"}, FinResolveWin(sn, a)
       PROVE  /\ t.op # "mint" => Shift(0, 0) \/ Shift(-100, -100)
              /\ Opened' <=> (Opened \/ t.op = "mint")
              /\ \A w \in Accounts : wallet'[w] >= wallet[w] - Pays(t, w)
  <2>1. PICK c, o : c = sub[sn][a].checker /\ o = sub[sn][a].final_owner
    OBVIOUS
  <2>2. registry[sn].status = "ACTIVE" /\ c \in Wallets /\ o \in Wallets
    <3>1. sub[sn][a].status = "RECEIVING" /\ registry[sn].status # "SPENT"
      BY <1>12 DEF FinResolveWin, CanWin, CanResolve, CanFinalize
    <3>2. registry[sn].status # "NONE" /\ c \in Wallets /\ o \in Wallets
      BY <1>0, <2>1, <3>1, StartedSubmission
    <3>. QED  BY <1>0, <3>1, <3>2 DEF TypeOK, AccountTypes, Registries
  <2>3. registry[sn].value = 100 /\ registry[sn].recipient = Recipient /\ Bond(sn) = 100
    BY <1>3, <2>2
  <2>4. Redeemed
    BY <1>12, <2>3 DEF FinResolveWin, Redeemed
  <2>5. Shift(-100, -100) /\ Opened /\ Opened'
    BY <1>0, <2>2, <2>3, <2>4, RedeemShift
  <2>6. wallet' = [[wallet EXCEPT ![c] = @ + 2 * 100] EXCEPT ![o] = @ + 100]
    BY <1>12, <2>1, <2>3 DEF FinResolveWin
  <2>7. c \in Accounts /\ o \in Accounts
    BY <2>2 DEF Accounts
  <2>8. \A w \in Accounts : wallet'[w] >= wallet[w]
    BY <1>2, <2>6, <2>7
  <2>. QED  BY <1>7, <1>12, <2>5, <2>8
<1>13. CASE t.op = "settle"
  <2>1. PICK c, o : c = sub[sn][a].checker /\ o = sub[sn][a].final_owner
    OBVIOUS
  <2>2. Settle(sn, a, FALSE, TRUE)
    BY <1>13 DEF Exec, sn, a
  <2>3. registry[sn].status = "ACTIVE" /\ c \in Wallets /\ o \in Wallets
    <3>1. sub[sn][a].status = "PENDING" /\ registry[sn].status = "ACTIVE"
      BY <2>2 DEF Settle, CanPayOut, CanSettle
    <3>. QED  BY <1>0, <2>1, <3>1, StartedSubmission
  <2>4. registry[sn].value = 100 /\ registry[sn].recipient = Recipient /\ Bond(sn) = 100
    BY <1>3, <2>3
  <2>5. Redeemed
    BY <2>2, <2>4 DEF Settle, Redeemed
  <2>6. Shift(-100, -100) /\ Opened /\ Opened'
    BY <1>0, <2>3, <2>4, <2>5, RedeemShift
  <2>7. wallet' = [[wallet EXCEPT ![o] = @ + 100] EXCEPT ![c] = @ + 100]
    BY <2>1, <2>2, <2>4 DEF Settle
  <2>8. c \in Accounts /\ o \in Accounts
    BY <2>3 DEF Accounts
  <2>9. \A w \in Accounts : wallet'[w] >= wallet[w]
    BY <1>2, <2>7, <2>8
  <2>. QED  BY <1>2, <1>7, <1>13, <2>6, <2>9
<1>14. CASE t.op \in {"finalizeA", "finalizeM1"}
  <2>1. FinRejectSpent(sn, a) \/ FinSetHead(sn, a)
    BY <1>14 DEF Exec, sn, a
  <2>. QED  BY <1>2, <1>10, <1>14, <2>1
<1>15. CASE t.op = "finalizeB"
  <2>1. FinalizeCheckIn(sn, a)
    BY <1>15 DEF Exec, sn, a
  <2>. QED  BY <1>2, <1>10, <1>11, <1>12, <1>15, <2>1 DEF FinalizeCheckIn
<1>. QED  BY <1>4, <1>5, <1>9, <1>13, <1>14, <1>15 DEF Moves

-----------------------------------------------------------------------------
(* The room for the coins that are still minted. *)

\* The later the step, the fewer coins are left to mint.
LEMMA LeftFalls ==
  ASSUME NEW sc \in DOMAIN StepsOf, NEW p \in Positions(sc)
  PROVE  /\ Left(sc, p) \in Nat /\ Left(sc, NextPos(sc, p)) \in Nat
         /\ Left(sc, NextPos(sc, p)) <= Left(sc, p)
         /\ Left(sc, p) <= 6 /\ (sc # "matrix" => Left(sc, p) <= 1)
         /\ \A s : MintsAt(sc, p, s) => Left(sc, NextPos(sc, p)) = Left(sc, p) - 1
<1>1. p \in Nat /\ p >= 1 /\ (NextPos(sc, p) = p \/ NextPos(sc, p) = p + 1)
  BY ScriptsAre, Lengths DEF Positions, NextPos
<1>2. PICK q : q = NextPos(sc, p)
  OBVIOUS
<1>3. q \in Nat /\ q >= p
  BY <1>1, <1>2
<1>4. /\ Left(sc, p) \in Nat /\ Left(sc, q) \in Nat /\ Left(sc, q) <= Left(sc, p)
      /\ Left(sc, p) <= 6 /\ (sc # "matrix" => Left(sc, p) <= 1)
  BY <1>1, <1>3 DEF Left
<1>5. ASSUME NEW s, MintsAt(sc, p, s) PROVE Left(sc, q) = Left(sc, p) - 1
  <2>1. p < Len(StepsOf[sc])
    BY <1>5, ViewsAtMint
  <2>2. q = p + 1
    BY <1>2, <2>1 DEF NextPos
  <2>3. <<sc, p>> \in {<<"matrix", 3>>, <<"matrix", 6>>, <<"matrix", 10>>, <<"matrix", 15>>,
                      <<"matrix", 28>>, <<"matrix", 43>>, <<"pq", 3>>, <<"smoke", 3>>}
    BY <1>5 DEF MintsAt
  <2>. QED  BY <2>2, <2>3 DEF Left
<1>. QED  BY <1>2, <1>4, <1>5

\* What is owed is a number.
LEMMA OwedNat ==
  ASSUME ScriptTypes, LateOnes
  PROVE  /\ Owed \in Nat /\ Cardinality(late) \in Nat /\ Left(script, Pos) \in Nat
         /\ Owed = 100 * Left(script, Pos) + 100 * Cardinality(late)
<1>1. script \in DOMAIN StepsOf /\ Pos \in Positions(script)
  BY Basics
<1>2. Left(script, Pos) \in Nat /\ Cardinality(late) \in Nat
  BY <1>1, LeftFalls, FS_CardinalityType DEF LateOnes
<1>3. PICK m, k : m = Left(script, Pos) /\ k = Cardinality(late)
  OBVIOUS
<1>4. Owed = 100 * (m + k)
  BY <1>3 DEF Owed
<1>. QED  BY <1>2, <1>3, <1>4

\* Room under a limit: what comes in is no more than what is less owed.
LEMMA Fits ==
  ASSUME NEW s \in Int, NEW k \in Int, NEW o \in Int, NEW o1 \in Int, NEW i \in Int,
         s + o <= k, o1 + i <= o
  PROVE  (s + i) + o1 <= k
OBVIOUS

\* Room in the vault: the same, with what the vault gains or loses.
LEMMA StillFits ==
  ASSUME NEW s \in Int, NEW v \in Int, NEW o \in Int, NEW o1 \in Int, NEW i \in Int, NEW j \in Int,
         s + o <= v, o1 + i - j <= o
  PROVE  (s + i) + o1 <= v + j
OBVIOUS

\* A step that spends no more room than it frees.
LEMMA RoomShift ==
  ASSUME TypeOK, Room, UNCHANGED script, Round' = Round, PerRun(script) * Round \in Nat,
         NEW o, o = Owed, NEW o1, o1 = Owed', o \in Nat, o1 \in Nat,
         NEW ds \in {0, 100, -100}, NEW dv \in {0, -100}, Sums(ds, dv),
         o1 + ds <= o, o1 + ds - dv <= o,
         script # "smoke" /\ Pos' >= 3 => Pos >= 3
  PROVE  Room'
<1>1. /\ supply \in Nat /\ vault \in Nat /\ Al.committed \in Nat
  BY MoneyTypes
<1>. PICK k : k = PerRun(script) * Round
  OBVIOUS
<1>2. k \in Nat /\ (PerRun(script) * Round)' = k
  BY DEF PerRun
<1>3. CASE script # "smoke"
  <2>1. supply + o <= k /\ Al.committed + o <= k /\ (Pos >= 3 => vault >= supply + o)
    BY <1>3 DEF Room
  <2>2. /\ supply' = supply + ds /\ vault' = vault + dv /\ Al'.committed = Al.committed + ds
    BY DEF Sums
  <2>3. /\ supply \in Int /\ vault \in Int /\ Al.committed \in Int /\ k \in Int
        /\ o \in Int /\ o1 \in Int /\ ds \in Int /\ dv \in Int
    BY <1>1, <1>2
  <2>4. supply + o <= k /\ Al.committed + o <= k /\ o1 + ds <= o /\ o1 + ds - dv <= o
    BY <2>1
  <2>5. (supply + ds) + o1 <= k
    BY <2>3, <2>4, Fits
  <2>6. (Al.committed + ds) + o1 <= k
    BY <2>3, <2>4, Fits
  <2>7. Pos >= 3 => supply + o <= vault
    BY <2>1, <2>3
  <2>8. supply + o <= vault => (supply + ds) + o1 <= vault + dv
    BY <2>3, <2>4, StillFits
  <2>9. Pos' >= 3 => (supply + ds) + o1 <= vault + dv
    BY <1>3, <2>7, <2>8
  <2>10. supply' + Owed' <= k /\ Al'.committed + Owed' <= k
    BY <2>2, <2>5, <2>6
  <2>11. Pos' >= 3 => vault' >= supply' + Owed'
    <3>. PICK v1, s1, e : v1 = vault' /\ s1 = supply' /\ e = s1 + o1
      OBVIOUS
    <3>1. Pos' >= 3 => e <= v1
      BY <2>2, <2>9
    <3>2. e \in Int /\ v1 \in Int
      BY <2>2, <2>3
    <3>. QED  BY <3>1, <3>2
  <2>. QED  BY <1>2, <2>10, <2>11 DEF Room
<1>. QED  BY <1>3 DEF Room

\* A run that ends early leaves its coins to the next.
LEMMA RoomEarly ==
  ASSUME ScriptTypes, TypeOK, LateOnes, LateOnes', ScriptTypes', Room, UNCHANGED <<supply, vault, allowance, script>>,
         Pos' = 1, Round' = Round + 1,
         Cardinality(late') <= Cardinality(late) + 1, script # "pq" => late' = late
  PROVE  Room'
<1>0. /\ supply \in Nat /\ Al.committed \in Nat /\ Al' = Al /\ Round \in Nat /\ script \in DOMAIN StepsOf
  BY MoneyTypes, Basics DEF Al, OpenAllowance
<1>1. PICK m, k, k1, o, o1 :
        /\ m = Left(script, Pos) /\ k = Cardinality(late) /\ k1 = Cardinality(late')
        /\ o = Owed /\ o1 = Owed'
  OBVIOUS
<1>2. /\ m \in Nat /\ k \in Nat /\ o \in Nat /\ o = 100 * m + 100 * k
      /\ k1 \in Nat /\ k1 <= k + 1 /\ (script # "pq" => k1 = k)
  BY <1>1, OwedNat, FS_CardinalityType DEF LateOnes
<1>3. o1 = 100 * (Left(script, 1) + k1)
  BY <1>1 DEF Owed, Left
<1>4. o1 \in Nat /\ o1 <= o + PerRun(script) /\ PerRun(script) \in {600, 200}
  <2>1. CASE script = "matrix"
    BY <1>2, <1>3, <2>1 DEF Left, PerRun
  <2>2. CASE script # "matrix"
    BY <1>2, <1>3, <2>2 DEF Left, PerRun
  <2>. QED  BY <2>1, <2>2
<1>5. CASE script # "smoke"
  <2>1. supply + o <= PerRun(script) * Round /\ Al.committed + o <= PerRun(script) * Round
    BY <1>1, <1>5 DEF Room
  <2>2. (PerRun(script) * Round)' = PerRun(script) * Round + PerRun(script)
    <3>1. (PerRun(script) * Round)' = PerRun(script) * (Round + 1)
      BY DEF PerRun
    <3>2. CASE PerRun(script) = 600
      BY <1>0, <3>1, <3>2
    <3>3. CASE PerRun(script) = 200
      BY <1>0, <3>1, <3>3
    <3>. QED  BY <1>4, <3>2, <3>3
  <2>3. PICK b, d, c : b = PerRun(script) * Round /\ d = PerRun(script) /\ c = Al.committed
    OBVIOUS
  <2>4. b \in Int /\ d \in Int
    <3>1. d \in Int
      BY <1>4, <2>3
    <3>. QED  BY <1>0, <2>3, <3>1
  <2>5. supply + o1 <= b + d
    BY <1>0, <1>2, <1>4, <2>1, <2>3, <2>4
  <2>6. c + o1 <= b + d
    <3>1. c + o <= b /\ c \in Nat /\ o1 <= o + d
      BY <1>0, <1>4, <2>1, <2>3
    <3>. QED  BY <1>2, <1>4, <2>4, <3>1
  <2>7. supply' + Owed' <= (PerRun(script) * Round)'
    BY <1>1, <2>2, <2>3, <2>5
  <2>8. Al'.committed + Owed' <= (PerRun(script) * Round)'
    BY <1>0, <1>1, <2>2, <2>3, <2>6
  <2>9. ~(Pos' >= 3)
    OBVIOUS
  <2>. QED  BY <2>7, <2>8, <2>9 DEF Room
<1>. QED  BY <1>5 DEF Room

\* The top-up leaves room for all of them.
LEMMA RoomTopped ==
  ASSUME Configured, ScriptTypes, TypeOK, LateOnes, Room, ~Down, Pos = 2, Pos' = 3, Round' = Round,
         UNCHANGED <<supply, allowance, script, late>>, vault' \in Nat, vault' >= supply + 700
  PROVE  Room'
<1>0. /\ supply \in Nat /\ vault \in Nat /\ Al' = Al /\ Round \in Nat /\ script \in DOMAIN StepsOf
      /\ Pos \in Positions(script) /\ MaxRuns \in Nat /\ Round = run /\ run <= MaxRuns + 1
  BY MoneyTypes, Basics DEF Al, OpenAllowance, Round
<1>1. PICK k, o, o1 : k = Cardinality(late) /\ o = Owed /\ o1 = Owed'
  OBVIOUS
<1>2. k \in Nat /\ o = 100 * Left(script, Pos) + 100 * k /\ o1 = 100 * (Left(script, 3) + k)
  BY <1>1, OwedNat DEF Owed, Left
<1>3. k <= 6 /\ (script # "pq" => k = 0)
  <2>1. late = {} => k = 0
    BY <1>1, FS_EmptySet
  <2>2. late # {} => script = "pq" /\ MaxRuns <= 6
    BY DEF LateOnes, Configured
  <2>3. k < Round
    BY <1>1 DEF LateOnes
  <2>. QED  BY <1>0, <1>2, <2>1, <2>2, <2>3
<1>4. ASSUME script # "smoke" PROVE o1 \in Nat /\ o1 <= 700
  <2>1. CASE script = "matrix"
    BY <1>2, <1>3, <2>1 DEF Left
  <2>2. CASE script # "matrix"
    BY <1>2, <1>3, <2>2 DEF Left
  <2>. QED  BY <2>1, <2>2
<1>5. ASSUME script # "smoke", Left(script, 3) <= Left(script, Pos) PROVE Room'
  <2>1. (PerRun(script) * Round)' = PerRun(script) * Round
    BY DEF PerRun
  <2>2. o1 <= o
    <3>1. Left(script, Pos) \in Nat /\ Left(script, 3) \in Nat
      BY <1>0, LeftFalls DEF Left
    <3>. QED  BY <1>2, <1>5, <3>1
  <2>3. supply + o <= PerRun(script) * Round /\ Al.committed + o <= PerRun(script) * Round
    BY <1>1, <1>5 DEF Room
  <2>4. o \in Nat /\ Al.committed \in Nat /\ PerRun(script) * Round \in Int
    BY <1>0, <1>1, OwedNat, MoneyTypes DEF PerRun
  <2>. PICK b, c : b = PerRun(script) * Round /\ c = Al.committed
    OBVIOUS
  <2>5. supply + o1 <= b
    BY <1>0, <1>4, <1>5, <2>2, <2>3, <2>4
  <2>6. c + o1 <= b
    <3>1. c + o <= b /\ c \in Nat /\ b \in Int /\ o \in Nat /\ o1 \in Nat
      BY <1>4, <1>5, <2>3, <2>4
    <3>. QED  BY <2>2, <3>1
  <2>7. vault' >= supply + o1
    <3>1. o1 <= 700 /\ o1 \in Nat
      BY <1>4, <1>5
    <3>2. vault' >= supply + 700 /\ vault' \in Int
      OBVIOUS
    <3>. QED  BY <1>0, <3>1, <3>2
  <2>8. supply' + Owed' <= (PerRun(script) * Round)'
    BY <1>1, <2>1, <2>5
  <2>9. Al'.committed + Owed' <= (PerRun(script) * Round)'
    BY <1>0, <1>1, <2>1, <2>6
  <2>10. vault' >= supply' + Owed'
    BY <1>1, <2>7
  <2>. QED  BY <2>8, <2>9, <2>10 DEF Room
<1>6. Left(script, 3) <= Left(script, Pos)
  BY DEF Left
<1>. QED  BY <1>5, <1>6 DEF Room

\* The second step of the matrix and of the PQ run tops up the vault.
LEMMA SecondStep ==
  ASSUME ScriptTypes, ~Down, Now.op # "topup", script # "smoke"
  PROVE  pc # 2
<1>1. script \in {"matrix", "pq"} /\ Now = StepsOf[script][pc]
  BY Basics
<1>2. StepsOf["matrix"][2] = Local("topup", "none") /\ StepsOf["pq"][2] = Local("topup", "none")
  BY ScriptsAre, MatrixTable, PqTable, SMT
<1>3. Local("topup", "none").op = "topup"
  BY DEF Local, Step
<1>. QED  BY <1>1, <1>2, <1>3

\* What a step may do to the money, with room for it.
Spends == Sums(0, 0) \/ Sums(-100, -100) \/ (Sums(100, 0) /\ Now.op = "mint")

\* The script goes on, and a coin it mints is one less to mint.
LEMMA RoomGoesOn ==
  ASSUME ScriptTypes, TypeOK, LateOnes, LateOnes', Room, ~Down, Proceeds, UNCHANGED <<script, run, late>>,
         Now.op # "topup", Spends
  PROVE  Room'
<1>1. /\ script \in DOMAIN StepsOf /\ pc \in Positions(script) /\ Pos = pc /\ Round = run
      /\ Round \in Nat /\ Placed(script, pc, Now)
  BY Basics DEF Pos, Round
<1>2. Pos' = NextPos(script, pc) /\ Round' = Round
  BY OnwardsTo
<1>3. PICK m, k, m1, o, o1 :
        /\ m = Left(script, pc) /\ k = Cardinality(late) /\ m1 = Left(script, NextPos(script, pc))
        /\ o = Owed /\ o1 = Owed'
  OBVIOUS
<1>4. /\ m \in Nat /\ m1 \in Nat /\ m1 <= m /\ (Now.op = "mint" => m1 = m - 1)
  <2>1. Now.op = "mint" => MintsAt(script, pc, Now)
    BY <1>1 DEF Placed
  <2>. QED  BY <1>1, <1>3, <2>1, LeftFalls
<1>5. k \in Nat /\ o \in Nat /\ o = 100 * m + 100 * k
  BY <1>1, <1>3, OwedNat
<1>6. o1 = 100 * (m1 + k)
  BY <1>2, <1>3 DEF Owed
<1>7. o1 \in Nat /\ o1 <= o /\ (Now.op = "mint" => o1 + 100 <= o)
  BY <1>4, <1>5, <1>6
<1>8. PerRun(script) * Round \in Nat
  BY <1>1 DEF PerRun
<1>9. script # "smoke" /\ Pos' >= 3 => Pos >= 3
  <2>1. script # "smoke" => pc # 2
    BY SecondStep
  <2>. QED  BY <1>1, <1>2, <2>1 DEF NextPos, Positions
<1>10. ASSUME NEW ds \in {0, 100, -100}, NEW dv \in {0, -100}, Sums(ds, dv),
              o1 + ds <= o, o1 + ds - dv <= o
       PROVE  Room'
  BY <1>2, <1>3, <1>5, <1>7, <1>8, <1>9, <1>10, RoomShift
<1>11. CASE Sums(0, 0)
  <2>1. o1 + 0 <= o /\ o1 + 0 - 0 <= o
    BY <1>5, <1>7
  <2>. QED  BY <1>10, <1>11, <2>1
<1>12. CASE Sums(-100, -100)
  <2>1. o1 + (-100) <= o /\ o1 + (-100) - (-100) <= o
    BY <1>5, <1>7
  <2>. QED  BY <1>10, <1>12, <2>1
<1>13. CASE Sums(100, 0) /\ Now.op = "mint"
  <2>1. o1 + 100 <= o /\ o1 + 100 - 0 <= o
    BY <1>5, <1>7, <1>13
  <2>. QED  BY <1>10, <1>13, <2>1
<1>. QED  BY <1>11, <1>12, <1>13 DEF Spends

\* The script stays where it is.
LEMMA RoomStays ==
  ASSUME ScriptTypes, TypeOK, LateOnes, LateOnes', Room, UNCHANGED script, Pos' = Pos, Round' = Round,
         Sums(0, 0), Cardinality(late') <= Cardinality(late)
  PROVE  Room'
<1>1. script \in DOMAIN StepsOf /\ Round \in Nat
  BY Basics
<1>2. PICK m, k, k1, o, o1 :
        /\ m = Left(script, Pos) /\ k = Cardinality(late) /\ k1 = Cardinality(late')
        /\ o = Owed /\ o1 = Owed'
  OBVIOUS
<1>3. /\ m \in Nat /\ k \in Nat /\ k1 \in Nat /\ k1 <= k /\ o \in Nat /\ o = 100 * m + 100 * k
  BY <1>2, OwedNat, FS_CardinalityType DEF LateOnes
<1>4. o1 = 100 * (m + k1)
  BY <1>2 DEF Owed
<1>5. o1 \in Nat /\ o1 + 0 <= o /\ o1 + 0 - 0 <= o
  BY <1>3, <1>4
<1>6. PerRun(script) * Round \in Nat
  BY <1>1 DEF PerRun
<1>. QED  BY <1>2, <1>3, <1>5, <1>6, RoomShift

\* What a transaction of an earlier run mints was set aside for it.
LEMMA RoomLate ==
  ASSUME ScriptTypes, TypeOK, LateOnes, LateOnes', Room, UNCHANGED script, Pos' = Pos, Round' = Round,
         Cardinality(late') = Cardinality(late) - 1,
         Sums(0, 0) \/ Sums(-100, -100) \/ Sums(100, 0)
  PROVE  Room'
<1>1. script \in DOMAIN StepsOf /\ Round \in Nat
  BY Basics
<1>2. PICK m, k, k1, o, o1 :
        /\ m = Left(script, Pos) /\ k = Cardinality(late) /\ k1 = Cardinality(late')
        /\ o = Owed /\ o1 = Owed'
  OBVIOUS
<1>3. /\ m \in Nat /\ k \in Nat /\ k1 \in Nat /\ k1 = k - 1 /\ o \in Nat /\ o = 100 * m + 100 * k
  BY <1>2, OwedNat, FS_CardinalityType DEF LateOnes
<1>4. o1 = 100 * (m + k1)
  BY <1>2 DEF Owed
<1>5. o1 \in Nat /\ o1 + 100 = o
  BY <1>3, <1>4
<1>6. PerRun(script) * Round \in Nat
  BY <1>1 DEF PerRun
<1>10. ASSUME NEW ds \in {0, 100, -100}, NEW dv \in {0, -100}, Sums(ds, dv),
              o1 + ds <= o, o1 + ds - dv <= o
       PROVE  Room'
  BY <1>2, <1>3, <1>5, <1>6, <1>10, RoomShift
<1>11. CASE Sums(0, 0)
  <2>1. o1 + 0 <= o /\ o1 + 0 - 0 <= o
    BY <1>3, <1>5
  <2>. QED  BY <1>10, <1>11, <2>1
<1>12. CASE Sums(-100, -100)
  <2>1. o1 + (-100) <= o /\ o1 + (-100) - (-100) <= o
    BY <1>3, <1>5
  <2>. QED  BY <1>10, <1>12, <2>1
<1>13. CASE Sums(100, 0)
  <2>1. o1 + 100 <= o /\ o1 + 100 - 0 <= o
    BY <1>3, <1>5
  <2>. QED  BY <1>10, <1>13, <2>1
<1>. QED  BY <1>11, <1>12, <1>13

-----------------------------------------------------------------------------
(* The cap. *)

\* The number of a run is within the bound of the configuration.
LEMMA RoundBound ==
  ASSUME ScriptTypes, NothingThrows, script # "smoke"
  PROVE  Round <= MaxRuns + 1
<1>1. run \in Nat /\ MaxRuns \in Nat /\ run <= Runs /\ Runs \in Nat /\ Runs <= MaxRuns + 1
  BY Basics
<1>2. Down => run < Runs
  BY DEF Down, NothingThrows, Paid, ScriptTypes
<1>. QED  BY <1>1, <1>2 DEF Round

\* The fourth step of the matrix raises the cap.
LEMMA FourthStep ==
  ASSUME ScriptTypes, script = "matrix", pc = 4
  PROVE  Now.op = "cap" /\ Now.always /\ Now.tag = "none"
<1>1. Now = StepsOf[script][pc]
  BY Basics
<1>2. StepsOf["matrix"][4] = Do("cap", "e0", 0, 1000000, Recipient)
  BY ScriptsAre, MatrixTable, SMT
<1>. QED  BY <1>1, <1>2, SMT DEF Do, Step

\* Of the two that set it, the one that would leave too little cannot land.
LEMMA CapLands ==
  ASSUME Sending, Now.op = "cap", Exec(TxOf(Now))
  PROVE  /\ script = "matrix" /\ pc = 4 /\ Now.tag = "none" /\ Opened
         /\ allowance' = [allowance EXCEPT ![Recipient].cap = 1000000]
         /\ UNCHANGED <<supply, vault, wallet, registry, sub, head>>
<1>0. ScriptTypes /\ ProgInv /\ TypeOK /\ ClaimsInv /\ Rows /\ ~Down
  BY DEF Sending, ProgInv
<1>1. CapsAt(script, pc, Now) /\ Pos = pc
  BY <1>0, Basics DEF Placed, Pos
<1>2. /\ script = "matrix"
      /\ (pc = 4 /\ Now.n = 1000000) \/ (pc = 9 /\ Now.n = 50)
      /\ (Now.tag = "none" <=> pc = 4)
  BY <1>1, SMT DEF CapsAt
<1>3. SetAllowance(Recipient, Now.n)
  <2>1. TxOf(Now).op = "cap" /\ TxOf(Now).n = Now.n
    BY TxFields
  <2>. QED  BY <2>1 DEF Exec
<1>4. /\ Opened /\ Now.n >= allowance[Recipient].committed
      /\ allowance' = [allowance EXCEPT ![Recipient].cap = Now.n]
      /\ UNCHANGED <<supply, vault, wallet, registry, sub, head>>
  BY <1>3 DEF SetAllowance, Opened
<1>5. ASSUME pc = 9, Now.n = 50 PROVE FALSE
  <2>1. "e6" \in Uses[script] /\ "e6" \in Labels
    BY <1>2 DEF Uses, Labels, Fixed
  <2>2. PICK x : x = At("e6")
    OBVIOUS
  <2>3. View(x) = Receives(1)
    BY <1>0, <1>1, <1>5, <2>1, <2>2, ViewsAtRefusals DEF Rows
  <2>4. registry[x].status = "ACTIVE" /\ x \in Serials
    BY <1>0, <2>1, <2>2, <2>3, ViewSays, CoinOf
  <2>5. registry[x].value = 100 /\ registry[x].recipient = Recipient
    BY <1>0, <2>4, CoinWorth DEF Sending, ProgInv
  <2>6. allowance[Recipient].committed >= 100
    BY <1>0, <2>4, <2>5, ValueThere
  <2>7. allowance[Recipient].committed \in Nat
    BY <1>0, MoneyTypes DEF Allowances
  <2>8. 50 >= allowance[Recipient].committed
    BY <1>4, <1>5
  <2>. QED  BY <2>6, <2>7, <2>8
<1>6. pc = 4 /\ Now.n = 1000000
  BY <1>2, <1>5, SMT
<1>7. Now.tag = "none"
  BY <1>2, <1>6, SMT
<1>8. allowance' = [allowance EXCEPT ![Recipient].cap = 1000000]
  BY <1>4, <1>6, SMT
<1>. QED  BY <1>2, <1>4, <1>6, <1>7, <1>8, SMT

\* Nothing is minted, no cap is set.
LEMMA CapStays ==
  ASSUME CapFits, UNCHANGED <<script, registry, sub, allowance>>,
         script = "matrix" /\ Pos' >= 5 => Pos >= 5
  PROVE  CapFits'
<1>1. At("e0")' = At("e0") /\ Al' = Al
  BY DEF At, Coin, Fixed, Al, OpenAllowance
<1>2. View(At("e0"))' = View(At("e0"))
  BY <1>1 DEF View
<1>. QED  BY <1>1, <1>2 DEF CapFits

\* A step that leaves the allowance alone keeps the cap.
LEMMA CapGoesOn ==
  ASSUME ScriptTypes, ~Down, CapFits, Proceeds, UNCHANGED <<script, run, registry, sub, allowance>>,
         Now.op # "cap" \/ Now.tag # "none" \/ ~Wanted
  PROVE  CapFits'
<1>1. Pos' = NextPos(script, pc) /\ Pos = pc /\ pc \in Nat
  BY Basics, OnwardsTo DEF Pos
<1>2. script = "matrix" => pc # 4
  BY FourthStep DEF Wanted
<1>3. script = "matrix" /\ Pos' >= 5 => Pos >= 5
  BY <1>1, <1>2 DEF NextPos
<1>. QED  BY <1>3, CapStays

\* With the first coin the allowance is opened.
LEMMA CapLanded ==
  ASSUME Sending, CapFits, Now.op \in Moves, Exec(TxOf(Now)), Rows', UNCHANGED script,
         Pos' \in Nat, Pos' >= pc, Now.op = "mint" => Pos' = NextPos(script, pc)
  PROVE  CapFits'
<1>0. ScriptTypes /\ ProgInv /\ TypeOK /\ Rows /\ ~Down /\ Configured
  BY DEF Sending, ProgInv
<1>1. /\ Placed(script, pc, Now) /\ pc \in Nat /\ Pos = pc /\ Sent(TxOf(Now)) /\ TxOf(Now).op = Now.op
  BY <1>0, Basics, SentNow, TxFields, SendsMoves DEF Pos, Sending
<1>2. /\ Opened' <=> (Opened \/ Now.op = "mint")
      /\ \E ds, dv : Shift(ds, dv)
  BY <1>0, <1>1, ExecMoney
<1>3. Al'.cap = Al.cap
  BY <1>2 DEF Shift
<1>4. CASE script = "matrix"
  <2>1. pc >= 3 /\ pc # 4
    <3>1. pc # 4
      BY <1>0, <1>4, FourthStep DEF Moves
    <3>2. \/ MintsAt(script, pc, Now) \/ StartsAt(script, pc, Now) \/ AppendsAt(script, pc, Now)
          \/ LeadsAt(script, pc, Now) \/ ResolvesAt(script, pc, Now) \/ SettlesAt(script, pc, Now)
          \/ FinishesAt(script, pc, Now)
      BY <1>1 DEF Placed, Moves
    <3>3. pc >= 3
      BY <1>4, <3>2 DEF MintsAt, StartsAt, AppendsAt, LeadsAt, ResolvesAt, SettlesAt, FinishesAt
    <3>. QED  BY <3>1, <3>3
  <2>2. "e0" \in Uses[script] /\ At("e0")' = At("e0")
    BY <1>4 DEF Uses, At, Coin, Fixed
  <2>3. View(At("e0"))' \in Views("e0", Pos')
    BY <1>4, <2>2 DEF Rows
  <2>4. CASE pc = 3
    <3>1. Now.op = "mint"
      <4>1. StepsOf["matrix"][3] = Need("mint", "e0", 0, 0, Recipient)
        BY ScriptsAre, MatrixTable, SMT
      <4>2. Now = StepsOf[script][pc]
        BY <1>0, Basics
      <4>. QED  BY <1>4, <2>4, <4>1, <4>2 DEF Need, Step
    <3>2. Pos' = 4 /\ Opened'
      BY <1>2, <1>4, <2>4, <3>1, Lengths DEF NextPos
    <3>3. View(At("e0"))' = Minted
      BY <2>3, <3>2 DEF Views
    <3>4. ~(View(At("e0"))' = Unminted)
      BY <3>3 DEF Minted, Unminted
    <3>5. ~(Pos' >= 5)
      BY <3>2
    <3>6. script' = "matrix"
      BY <1>4
    <3>. QED  BY <3>2, <3>4, <3>5, <3>6 DEF CapFits, Opened
  <2>5. CASE pc # 3
    <3>1. pc >= 5 /\ Pos' >= 5
      BY <1>1, <2>1, <2>5
    <3>2. View(At("e0")) = Minted /\ View(At("e0"))' = Minted
      <4>1. View(At("e0")) \in Views("e0", pc)
        BY <1>0, <1>1, <2>2 DEF Rows
      <4>. QED  BY <1>1, <2>3, <3>1, <4>1 DEF Views
    <3>3. Minted # Unminted
      BY DEF Minted, Unminted
    <3>4. Opened /\ allowance[Recipient].cap = 1000000
      BY <1>1, <1>4, <3>1, <3>2, <3>3, SMT DEF CapFits, Opened
    <3>5. Opened'
      BY <1>2, <3>4
    <3>6. allowance'[Recipient].cap = allowance[Recipient].cap
      BY <1>3, <3>4, <3>5 DEF Al, OpenAllowance, Opened
    <3>7. allowance'[Recipient].cap = 1000000
      BY <3>4, <3>6, SMT
    <3>8. ~(View(At("e0"))' = Unminted)
      BY <3>2, <3>3
    <3>9. script' = "matrix"
      BY <1>4
    <3>. QED  BY <3>5, <3>7, <3>8, <3>9, SMT DEF CapFits, Opened
  <2>. QED  BY <2>4, <2>5
<1>5. CASE script # "matrix"
  BY <1>3, <1>5 DEF CapFits
<1>. QED  BY <1>4, <1>5

\* The step that sets the cap.
LEMMA CapIsSet ==
  ASSUME Sending, CapFits, Now.op = "cap", Exec(TxOf(Now)), Proceeds, UNCHANGED <<script, run>>
  PROVE  CapFits' /\ Sums(0, 0) /\ Spends
<1>0. ScriptTypes /\ ~Down /\ TypeOK
  BY DEF Sending, ProgInv
<1>1. /\ script = "matrix" /\ pc = 4 /\ Now.tag = "none" /\ Opened
      /\ allowance' = [allowance EXCEPT ![Recipient].cap = 1000000]
      /\ UNCHANGED <<supply, vault, wallet, registry, sub, head>>
  BY CapLands
<1>2. allowance \in [Wallets -> Allowances] /\ Recipient \in Wallets /\ supply \in Nat /\ vault \in Nat
      /\ allowance[Recipient] \in Allowances /\ Al.committed \in Nat
  BY <1>0, MoneyTypes
<1>3. /\ allowance'[Recipient].initialized = allowance[Recipient].initialized
      /\ allowance'[Recipient].committed = allowance[Recipient].committed
      /\ allowance'[Recipient].cap = 1000000
  BY <1>1, <1>2, SMT DEF Allowances
<1>4. At("e0")' = At("e0") /\ View(At("e0"))' = View(At("e0"))
  BY <1>1 DEF At, Coin, Fixed, View
<1>5. View(At("e0")) # Unminted
  BY <1>1 DEF CapFits, Opened
<1>6. CapFits'
  BY <1>1, <1>3, <1>4, <1>5, SMT DEF CapFits, Opened
<1>7. Al'.committed = Al.committed
  BY <1>1, <1>3 DEF Al, OpenAllowance, Opened
<1>8. Sums(0, 0)
  <2>1. supply' = supply + 0 /\ vault' = vault + 0
    BY <1>1, <1>2
  <2>2. Al'.committed = Al.committed + 0
    BY <1>2, <1>7
  <2>. QED  BY <2>1, <2>2 DEF Sums
<1>. QED  BY <1>6, <1>8 DEF Spends

-----------------------------------------------------------------------------
(* The reserve of the smoke test. *)

\* The first two steps of the smoke test.
LEMMA M1Steps ==
  ASSUME ScriptTypes, script = "smoke"
  PROVE  /\ pc = 1 => Now.op = "reserve" /\ ~Now.always /\ Now.n = 1000 /\ Now.w = MintAuthority
         /\ pc = 2 => Now.op = "fund" /\ ~Now.always /\ Now.n = 1000
<1>1. Now = StepsOf[script][pc]
  BY Basics
<1>2. /\ StepsOf["smoke"][1] = Need("reserve", "m1", 0, 1000, MintAuthority)
      /\ StepsOf["smoke"][2] = Need("fund", "m1", 0, 1000, MintAuthority)
  BY ScriptsAre, SmokeTable, SMT
<1>. QED  BY <1>1, <1>2 DEF Need, Step

\* The reserve of the smoke test where supply, vault and allowance stay.
LEMMA M1Stays ==
  ASSUME M1Fits, UNCHANGED <<script, registry, sub, supply, vault, allowance>>,
         script = "smoke" /\ Pos' = 2 /\ vault < 1000 => wallet'[MintAuthority] >= 1000 - vault,
         script = "smoke" /\ Pos' >= 3 /\ vault < 1000 => Pos >= 3, vault \in Nat
  PROVE  M1Fits'
<1>1. At("m1")' = At("m1") /\ Al' = Al
  BY DEF At, Coin, Fixed, Al, OpenAllowance
<1>2. View(At("m1"))' = View(At("m1"))
  BY <1>1 DEF View
<1>. QED  BY <1>1, <1>2 DEF M1Fits

\* With enough in the vault nothing is reserved or funded.
LEMMA M1GoesOn ==
  ASSUME ScriptTypes, TypeOK, ~Down, M1Fits, Proceeds,
         UNCHANGED <<script, run, registry, sub, supply, vault, allowance>>,
         script = "smoke" => ~Wanted \/ pc >= 3
  PROVE  M1Fits'
<1>1. Pos' = NextPos(script, pc) /\ Pos = pc /\ pc \in Nat /\ pc >= 1
  BY Basics, OnwardsTo DEF Pos
<1>2. vault \in Nat
  BY MoneyTypes
<1>3. ASSUME script = "smoke", pc \in {1, 2} PROVE ~(vault < 1000)
  <2>1. ~Wanted
    BY <1>3
  <2>2. Now.op \in {"reserve", "fund"} /\ Now.n = 1000
    BY <1>3, M1Steps
  <2>3. ~(vault < Now.n)
    BY <2>1, <2>2 DEF Wanted, Needed
  <2>. QED  BY <2>2, <2>3
<1>4. script = "smoke" /\ vault < 1000 => Pos' >= 3 /\ Pos >= 3
  <2>1. ASSUME script = "smoke", vault < 1000 PROVE pc >= 3
    BY <1>1, <1>3, <2>1
  <2>. QED  BY <1>1, <2>1 DEF NextPos
<1>5. script = "smoke" /\ Pos' = 2 /\ vault < 1000 => wallet'[MintAuthority] >= 1000 - vault
  BY <1>4
<1>6. script = "smoke" /\ Pos' >= 3 /\ vault < 1000 => Pos >= 3
  BY <1>4
<1>. QED  BY <1>2, <1>5, <1>6, M1Stays

\* The same where no balance changes at all.
LEMMA M1Same ==
  ASSUME M1Fits, TypeOK, UNCHANGED <<script, registry, sub, supply, vault, allowance, wallet>>,
         Pos' = Pos \/ Pos' = 1
  PROVE  M1Fits'
<1>1. vault \in Nat
  BY MoneyTypes
<1>2. script = "smoke" /\ Pos' = 2 /\ vault < 1000 => wallet'[MintAuthority] >= 1000 - vault
  BY DEF M1Fits
<1>. QED  BY <1>1, <1>2, M1Stays

\* The step that gives the authority what the vault lacks.
LEMMA M1Reserved ==
  ASSUME ScriptTypes, TypeOK, M1Fits, Reserve
  PROVE  M1Fits' /\ script = "smoke" /\ pc = 1
<1>0. ~Down /\ Now.op = "reserve" /\ Proceeds /\ UNCHANGED <<script, run>>
      /\ wallet' = [wallet EXCEPT ![Now.w] = @ + (Now.n - vault)]
      /\ UNCHANGED <<supply, vault, registry, sub, allowance>>
      /\ Needed(Now)
  BY Onward DEF Reserve, MintTo, Local_, Elsewhere, Down
<1>1. script = "smoke" /\ pc = 1 /\ Now.n = 1000 /\ Now.w = MintAuthority
  BY <1>0, Basics DEF Placed, ReservesAt
<1>2. Pos' = 2 /\ Pos = 1
  BY <1>0, <1>1, OnwardsTo, Lengths DEF NextPos, Pos
<1>3. vault \in Nat /\ wallet \in [Accounts -> Nat] /\ MintAuthority \in Accounts
  BY MoneyTypes
<1>4. wallet'[MintAuthority] = wallet[MintAuthority] + (1000 - vault)
  BY <1>0, <1>1, <1>3
<1>5. wallet[MintAuthority] \in Nat
  BY <1>3
<1>6. PICK a, b : a = wallet[MintAuthority] /\ b = wallet'[MintAuthority]
  OBVIOUS
<1>7. b >= 1000 - vault
  BY <1>3, <1>4, <1>5, <1>6
<1>8. script = "smoke" /\ Pos' = 2 /\ vault < 1000 => wallet'[MintAuthority] >= 1000 - vault
  BY <1>6, <1>7
<1>9. ~(Pos' >= 3)
  BY <1>2
<1>. QED  BY <1>0, <1>1, <1>3, <1>8, <1>9, M1Stays

\* What is funded is what the vault lacks.
LEMMA M1Funded ==
  ASSUME Sending, M1Fits, Now.op = "fund", Exec(TxOf(Now)), Proceeds, UNCHANGED <<script, run>>
  PROVE  /\ M1Fits' /\ script = "smoke" /\ Now.tag = "none" /\ Pos' = 3
         /\ UNCHANGED <<supply, registry, sub, head, allowance>>
<1>0. ScriptTypes /\ ~Down /\ TypeOK /\ Wanted
  BY DEF Sending, ProgInv
<1>1. script = "smoke" /\ pc = 2 /\ Now.n = 1000 /\ Now.tag = "none"
  BY <1>0, Basics DEF Placed, FundsAt
<1>2. FundVault(1000 - vault)
  <2>1. TxOf(Now).op = "fund" /\ TxOf(Now).n = Now.n - vault
    BY TxFields
  <2>. QED  BY <1>1, <2>1 DEF Exec
<1>3. /\ vault' = vault + (1000 - vault)
      /\ UNCHANGED <<supply, registry, sub, head, allowance>>
  BY <1>2 DEF FundVault
<1>4. vault \in Nat
  BY <1>0, MoneyTypes
<1>5. vault' = 1000
  BY <1>3, <1>4
<1>6. Pos' = 3
  BY <1>0, <1>1, OnwardsTo, Lengths DEF NextPos
<1>7. At("m1")' = At("m1") /\ Al' = Al
  BY <1>3 DEF At, Coin, Fixed, Al, OpenAllowance
<1>8. View(At("m1"))' = View(At("m1"))
  BY <1>3, <1>7 DEF View
<1>9. M1Fits'
  BY <1>1, <1>3, <1>5, <1>6, <1>7, <1>8 DEF M1Fits
<1>. QED  BY <1>1, <1>3, <1>6, <1>9

\* Once minted the coin has its value set aside.
LEMMA M1Landed ==
  ASSUME Sending, Now.op \in Moves, Rows', UNCHANGED script,
         Pos' \in Nat, Pos' >= pc, Now.op = "mint" => Pos' = NextPos(script, pc)
  PROVE  M1Fits'
<1>0. ScriptTypes /\ ~Down
  BY DEF Sending
<1>1. CASE script = "smoke"
  <2>1. /\ Placed(script, pc, Now) /\ pc \in Nat /\ pc >= 1 /\ Now.op \notin {"reserve", "fund"}
    BY <1>0, Basics DEF Moves
  <2>2. pc # 1 /\ pc # 2
    BY <1>0, <1>1, <2>1, M1Steps
  <2>3. Now.op = "mint" \/ pc >= 4
    <3>1. CASE pc = 3
      <4>1. StepsOf["smoke"][3] = Need("mint", "m1", 0, 0, Recipient)
        BY ScriptsAre, SmokeTable, SMT
      <4>2. Now = StepsOf[script][pc]
        BY <1>0, Basics
      <4>. QED  BY <1>1, <3>1, <4>1, <4>2 DEF Need, Step
    <3>. QED  BY <2>1, <2>2, <3>1
  <2>4. Pos' >= 4
    <3>1. CASE Now.op = "mint"
      <4>1. pc = 3
        BY <1>1, <2>1, <3>1 DEF Placed, MintsAt
      <4>. QED  BY <1>1, <3>1, <4>1, Lengths DEF NextPos
    <3>2. CASE pc >= 4
      BY <2>1, <3>2
    <3>. QED  BY <2>3, <3>1, <3>2
  <2>5. View(At("m1"))' \in Views("m1", Pos')
    BY <1>1 DEF Rows, Uses
  <2>6. View(At("m1"))' # Unminted
    BY <2>4, <2>5 DEF Views, Unminted, Minted, Receives, Leads, Paid0
  <2>7. ~(Pos' = 2)
    BY <2>4
  <2>. QED  BY <2>6, <2>7 DEF M1Fits
<1>2. CASE script # "smoke"
  BY <1>2 DEF M1Fits
<1>. QED  BY <1>1, <1>2

-----------------------------------------------------------------------------
(* The bonds. *)

\* Before a check-in is started its bond is seen to, before a claim is settled
\* the script waits.
LEMMA BeforeStart ==
  ASSUME NEW sc \in DOMAIN StepsOf, NEW p \in Positions(sc), p < Len(StepsOf[sc]), sc # "pq",
         StepsOf[sc][p + 1].op = "start", StepsOf[sc][p + 1].tag = "none"
  PROVE  LET s == StepsOf[sc][p]  t == StepsOf[sc][p + 1] IN
         s.op = "bond" /\ s.l = t.l /\ s.a = t.a /\ s.w = t.w
<1>1. p + 1 \in Positions(sc)
  BY ScriptsAre, Lengths DEF Positions
<1>. PICK q : q = p + 1
  OBVIOUS
<1>2. StartsAt(sc, q, StepsOf[sc][q])
  BY <1>1, AllPlaced DEF Placed
<1>3. <<sc, q>> \in {<<"matrix", 8>>, <<"matrix", 12>>, <<"matrix", 17>>, <<"matrix", 23>>,
                    <<"matrix", 30>>, <<"matrix", 35>>, <<"matrix", 45>>, <<"smoke", 5>>}
  BY <1>2 DEF StartsAt
<1>4. p \in Nat
  BY ScriptsAre, Lengths DEF Positions
<1>5. CASE sc = "matrix"
  <2>1. StepsOf[sc] = MatrixScript
    BY <1>5, ScriptsAre
  <2>2. p \in {7, 11, 16, 22, 29, 34, 44}
    BY <1>3, <1>4, <1>5
  <2>. QED  BY <2>1, <2>2, MatrixTable, SMT DEF Need, Step
<1>6. CASE sc = "smoke"
  <2>1. StepsOf[sc] = SmokeScript /\ p = 4
    BY <1>3, <1>4, <1>6, ScriptsAre
  <2>. QED  BY <2>1, SmokeTable, SMT DEF Need, Step
<1>. QED  BY <1>3, <1>5, <1>6

\* A settle that is to succeed comes right after the wait for its coin.
LEMMA BeforeSettle ==
  ASSUME NEW sc \in DOMAIN StepsOf, NEW p \in Positions(sc), p < Len(StepsOf[sc]),
         StepsOf[sc][p + 1].op = "settle", StepsOf[sc][p + 1].tag = "none"
  PROVE  LET s == StepsOf[sc][p]  t == StepsOf[sc][p + 1] IN s.op = "wait" /\ s.l = t.l
<1>1. p + 1 \in Positions(sc)
  BY ScriptsAre, Lengths DEF Positions
<1>. PICK q : q = p + 1
  OBVIOUS
<1>2. SettlesAt(sc, q, StepsOf[sc][q])
  BY <1>1, AllPlaced DEF Placed
<1>3. <<sc, q>> \in {<<"matrix", 40>>, <<"matrix", 50>>, <<"pq", 11>>, <<"smoke", 9>>}
  BY <1>2 DEF SettlesAt
<1>4. p \in Nat
  BY ScriptsAre, Lengths DEF Positions
<1>5. CASE sc = "matrix"
  <2>1. StepsOf[sc] = MatrixScript /\ p \in {39, 49}
    BY <1>3, <1>4, <1>5, ScriptsAre
  <2>. QED  BY <2>1, MatrixTable, SMT DEF Need, Local, Step
<1>6. CASE sc = "smoke"
  <2>1. StepsOf[sc] = SmokeScript /\ p = 8
    BY <1>3, <1>4, <1>6, ScriptsAre
  <2>. QED  BY <2>1, SmokeTable, SMT DEF Need, Local, Step
<1>7. CASE sc = "pq"
  <2>1. StepsOf[sc] = PqScript /\ p = 10
    BY <1>3, <1>4, <1>7, ScriptsAre
  <2>. QED  BY <2>1, PqTable, SMT DEF Do, Local, Step
<1>. QED  BY <1>3, <1>5, <1>6, <1>7

\* The step after this one.
LEMMA NextStep ==
  ASSUME ScriptTypes, ~Down, Proceeds, UNCHANGED <<script, run>>
  PROVE  /\ Now' = StepsOf[script][NextPos(script, pc)]
         /\ NextPos(script, pc) \in Positions(script)
         /\ Placed(script, NextPos(script, pc), StepsOf[script][NextPos(script, pc)])
         /\ \A l : Label(l)' = Label(l)
<1>1. pc' = NextPos(script, pc) /\ script \in DOMAIN StepsOf /\ pc \in Positions(script)
  BY Basics, OnwardsTo
<1>2. NextPos(script, pc) \in Positions(script)
  BY <1>1, ScriptsAre, Lengths DEF NextPos, Positions
<1>. QED  BY <1>1, <1>2, AllPlaced DEF Now, Script, Label

\* A bond step leaves the bond in the wallet, or the check-in begun.
LEMMA BondComes ==
  ASSUME ScriptTypes, ~Down, Proceeds, UNCHANGED <<script, run>>,
         Now.op = "bond" => sub' = sub /\ (Sub(Now).status # "NONE" \/ wallet'[Now.w] >= 100)
  PROVE  BondReady'
<1>1. SUFFICES ASSUME (Now.op = "start")', (Now.tag = "none")', ~Down', Needed(Now)', (script # "pq")'
               PROVE  (wallet[Now.w] >= 100)'
  BY DEF BondReady
<1>2. /\ script \in DOMAIN StepsOf /\ pc \in Positions(script) /\ Now = StepsOf[script][pc] /\ pc \in Nat
      /\ Len(StepsOf[script]) \in Nat /\ pc <= Len(StepsOf[script])
  BY Basics, ScriptsAre, Lengths DEF Script
<1>. PICK q, t : q = NextPos(script, pc) /\ t = StepsOf[script][q]
  OBVIOUS
<1>3. Now' = t /\ q \in Positions(script) /\ Placed(script, q, t) /\ \A l : Label(l)' = Label(l)
  BY NextStep
<1>4. t.op = "start" /\ t.tag = "none" /\ script # "pq"
  BY <1>1, <1>3
<1>5. q < Len(StepsOf[script])
  BY <1>2, <1>3, <1>4, ViewsAtStart DEF Placed
<1>6. pc < Len(StepsOf[script]) /\ q = pc + 1
  BY <1>2, <1>5 DEF NextPos
<1>7. Now.op = "bond" /\ Now.l = t.l /\ Now.a = t.a /\ Now.w = t.w
  BY <1>2, <1>4, <1>6, BeforeStart
<1>8. Needed(Now)' => sub'[Label(t.l)][t.a].status = "NONE"
  BY <1>3, <1>4 DEF Needed, Sub
<1>9. sub'[Label(t.l)][t.a].status = "NONE"
  BY <1>1, <1>8
<1>10. Sub(Now).status = "NONE"
  BY <1>7, <1>9 DEF Sub
<1>. QED  BY <1>3, <1>7, <1>10

\* The bond of a start stays where the wallets stay.
LEMMA BondStays ==
  ASSUME BondReady, UNCHANGED <<script, run, pc, sub, wallet>>, Now.op = "start" /\ Down => Down'
  PROVE  BondReady'
<1>1. Now' = Now /\ Label(Now.l)' = Label(Now.l)
  BY DEF Now, Script, Label
<1>2. Now.op = "start" => (Needed(Now)' <=> Needed(Now))
  BY <1>1 DEF Needed, Sub
<1>. QED  BY <1>1, <1>2 DEF BondReady

\* The first step of a script is no start.
LEMMA BondFirst ==
  ASSUME ScriptTypes, UNCHANGED script, pc' = 1
  PROVE  BondReady'
<1>1. script \in DOMAIN StepsOf /\ 1 \in Positions(script)
  BY Basics, ScriptsAre, Lengths DEF Positions
<1>2. Placed(script, 1, StepsOf[script][1]) /\ Now' = StepsOf[script][1]
  BY <1>1, AllPlaced DEF Now, Script
<1>3. Now'.op # "start"
  BY <1>2 DEF Placed, StartsAt
<1>. QED  BY <1>3 DEF BondReady

\* The matrix and the PQ run begin with prefunding.
LEMMA FirstStep ==
  ASSUME ScriptTypes, script # "smoke", pc = 1
  PROVE  Now.op = "prefund"
<1>1. script \in {"matrix", "pq"} /\ Now = StepsOf[script][pc]
  BY Basics
<1>2. StepsOf["matrix"][1] = Local("prefund", "none") /\ StepsOf["pq"][1] = Local("prefund", "none")
  BY ScriptsAre, MatrixTable, PqTable, SMT
<1>. QED  BY <1>1, <1>2 DEF Local, Step

\* There are at most six late transactions, and none but in the PQ run.
LEMMA LateCount ==
  ASSUME Configured, ScriptTypes, NothingThrows, LateOnes
  PROVE  /\ Cardinality(late) \in Nat /\ Cardinality(late) <= 6
         /\ script # "pq" => Cardinality(late) = 0
<1>1. Cardinality(late) \in Nat /\ Cardinality(late) < Round /\ Round \in Nat /\ MaxRuns \in Nat
  BY Basics, FS_CardinalityType DEF LateOnes
<1>2. late = {} => Cardinality(late) = 0
  BY FS_EmptySet
<1>3. late # {} => script = "pq" /\ MaxRuns <= 6
  BY DEF LateOnes, Configured
<1>4. script = "pq" => Round <= MaxRuns + 1
  BY RoundBound
<1>. QED  BY <1>1, <1>2, <1>3, <1>4

\* The recipient can pay for the check-in of this run and those of earlier ones.
LEMMA PqBondGoesOn ==
  ASSUME Configured, ScriptTypes, ~Down, PqBond, Proceeds, UNCHANGED <<script, run, late>>,
         script = "pq" /\ pc \in 2..3 => wallet'[Recipient] = wallet[Recipient],
         Now.op = "prefund" => wallet'[Recipient] >= 1500 /\ wallet'[Recipient] \in Nat,
         NothingThrows, LateOnes
  PROVE  PqBond'
<1>1. SUFFICES ASSUME script = "pq", Pos' \in 2..4
               PROVE  wallet'[Recipient] >= 100 * (1 + Cardinality(late))
  BY DEF PqBond
<1>2. Pos' = NextPos(script, pc) /\ Pos = pc /\ pc \in Nat /\ pc >= 1
  BY Basics, OnwardsTo DEF Pos
<1>3. pc \in 1..3
  BY <1>1, <1>2, Lengths DEF NextPos
<1>4. CASE pc = 1
  <2>1. wallet'[Recipient] >= 1500 /\ wallet'[Recipient] \in Nat
    BY <1>1, <1>4, FirstStep
  <2>2. PICK k, w : k = Cardinality(late) /\ w = wallet'[Recipient]
    OBVIOUS
  <2>3. k \in Nat /\ k <= 6
    BY <2>2, LateCount
  <2>. QED  BY <2>1, <2>2, <2>3
<1>5. CASE pc \in 2..3
  BY <1>1, <1>2, <1>5 DEF PqBond
<1>. QED  BY <1>3, <1>4, <1>5

\* The bonds of the PQ run stay where the recipient's balance stays.
LEMMA PqBondStays ==
  ASSUME PqBond, TypeOK, UNCHANGED script, Pos' = Pos \/ Pos' = 1,
         Cardinality(late) \in Nat, Cardinality(late') \in Nat, Cardinality(late') <= Cardinality(late),
         wallet'[Recipient] = wallet[Recipient]
  PROVE  PqBond'
<1>1. wallet[Recipient] \in Nat
  BY MoneyTypes
<1>2. PICK k, k1, w : k = Cardinality(late) /\ k1 = Cardinality(late') /\ w = wallet[Recipient]
  OBVIOUS
<1>3. w >= 100 * (1 + k) => w >= 100 * (1 + k1)
  BY <1>1, <1>2
<1>. QED  BY <1>2, <1>3 DEF PqBond

\* A late transaction takes at most the bond that was reserved for it.
LEMMA PqBondLate ==
  ASSUME PqBond, TypeOK, UNCHANGED script, Pos' = Pos,
         Cardinality(late) \in Nat, Cardinality(late') = Cardinality(late) - 1,
         wallet'[Recipient] \in Nat, wallet'[Recipient] >= wallet[Recipient] - 100
  PROVE  PqBond'
<1>1. wallet[Recipient] \in Nat
  BY MoneyTypes
<1>2. PICK k, k1, w, w1 : /\ k = Cardinality(late) /\ k1 = Cardinality(late')
                          /\ w = wallet[Recipient] /\ w1 = wallet'[Recipient]
  OBVIOUS
<1>3. w >= 100 * (1 + k) => w1 >= 100 * (1 + k1)
  BY <1>1, <1>2
<1>. QED  BY <1>2, <1>3 DEF PqBond

\* Holder3 pays two bonds and gets one of them back before the second.
Takes == IF pc \in {23, 35} THEN 100 ELSE 0

\* A step takes from Holder3 at most the bond it is known to take.
LEMMA H3BondGoesOn ==
  ASSUME ScriptTypes, TypeOK, ~Down, H3Bond, Proceeds, UNCHANGED <<script, run>>,
         script = "matrix" => wallet'[Holder3] >= wallet[Holder3] - Takes,
         Now.op = "prefund" => wallet'[Holder3] >= 1500,
         wallet'[Holder3] \in Nat
  PROVE  H3Bond'
<1>1. SUFFICES ASSUME script = "matrix"
               PROVE  /\ Pos' \in 2..23 => wallet'[Holder3] >= 1500
                      /\ Pos' \in 24..35 => wallet'[Holder3] >= 1400
  BY DEF H3Bond
<1>2. Pos' = NextPos(script, pc) /\ Pos = pc /\ pc \in Nat /\ pc >= 1
  BY Basics, OnwardsTo DEF Pos
<1>3. NextPos(script, pc) = IF pc < 53 THEN pc + 1 ELSE pc
  BY <1>1, Lengths DEF NextPos
<1>. PICK w, w1 : w = wallet[Holder3] /\ w1 = wallet'[Holder3]
  OBVIOUS
<1>4. w \in Nat /\ w1 \in Nat
  BY MoneyTypes
<1>5. /\ pc \in 2..23 => w >= 1500
      /\ pc \in 24..35 => w >= 1400
  BY <1>1, <1>2 DEF H3Bond
<1>6. w1 >= w - Takes
  BY <1>1
<1>7. pc = 1 => w1 >= 1500
  BY <1>1, FirstStep
<1>8. CASE pc = 1
  BY <1>2, <1>3, <1>7, <1>8
<1>9. CASE pc \in 2..22
  <2>1. w1 >= w
    BY <1>4, <1>6, <1>9 DEF Takes
  <2>. QED  BY <1>2, <1>3, <1>4, <1>5, <1>9, <2>1
<1>10. CASE pc = 23
  <2>1. w1 >= w - 100
    BY <1>6, <1>10 DEF Takes
  <2>. QED  BY <1>2, <1>3, <1>4, <1>5, <1>10, <2>1
<1>11. CASE pc \in 24..34
  <2>1. w1 >= w
    BY <1>4, <1>6, <1>11 DEF Takes
  <2>. QED  BY <1>2, <1>3, <1>4, <1>5, <1>11, <2>1
<1>12. CASE pc >= 35
  BY <1>2, <1>3, <1>12
<1>. QED  BY <1>2, <1>8, <1>9, <1>10, <1>11, <1>12

\* The bonds of Holder3 stay where the wallets stay.
LEMMA H3BondStays ==
  ASSUME H3Bond, UNCHANGED <<script, wallet>>, Pos' = Pos \/ Pos' = 1
  PROVE  H3Bond'
BY DEF H3Bond

\* What the starts pay.
LEMMA StartTakes ==
  ASSUME ScriptTypes, ~Down, Now.op = "start", Now.tag = "none", script # "pq"
  PROVE  /\ script = "matrix" => (Now.w = Holder3 <=> pc \in {23, 35}) \/ Holder3 = Recipient
<1>1. StartsAt(script, pc, Now)
  BY Basics DEF Placed
<1>. QED  BY <1>1 DEF StartsAt

\* A move of the script lands: what it does to the wallets.
LEMMA LandTakes ==
  ASSUME Sending, Now.op \in Moves, Exec(TxOf(Now)), Now.tag = "none" \/ Now.op # "start"
  PROVE  /\ wallet' \in [Accounts -> Nat]
         /\ script = "matrix" => wallet'[Holder3] >= wallet[Holder3] - Takes
         /\ Now.op = "start" => wallet[Now.w] >= 100
<1>0. ScriptTypes /\ ProgInv /\ TypeOK /\ Rows /\ ~Down /\ Configured /\ Wanted /\ Holder3 # Recipient
  BY DEF Sending, ProgInv, Configured
<1>1. /\ Sent(TxOf(Now)) /\ TxOf(Now).op = Now.op /\ (Now.op # "append" => TxOf(Now).w = Now.w)
  BY <1>0, SentNow, TxFields, SendsMoves
<1>2. /\ wallet' \in [Accounts -> Nat]
      /\ Now.op = "start" => wallet[TxOf(Now).w] >= 100
      /\ \A w \in Accounts : wallet'[w] >= wallet[w] - Pays(TxOf(Now), w)
  BY <1>0, <1>1, ExecMoney
<1>3. Holder3 \in Accounts
  BY <1>0, MoneyTypes
<1>4. ASSUME script = "matrix" PROVE wallet'[Holder3] >= wallet[Holder3] - Takes
  <2>1. Pays(TxOf(Now), Holder3) <= Takes /\ Pays(TxOf(Now), Holder3) \in Nat /\ Takes \in Nat
    <3>1. CASE Now.op = "start" /\ Holder3 = Now.w
      <4>1. pc \in {23, 35}
        BY <1>0, <1>4, <3>1, StartTakes
      <4>. QED  BY <1>1, <3>1, <4>1 DEF Pays, Takes
    <3>2. CASE ~(Now.op = "start" /\ Holder3 = Now.w)
      <4>1. Pays(TxOf(Now), Holder3) = 0
        BY <1>1, <3>2 DEF Pays
      <4>. QED  BY <4>1 DEF Takes
    <3>. QED  BY <3>1, <3>2
  <2>2. wallet'[Holder3] >= wallet[Holder3] - Pays(TxOf(Now), Holder3)
    BY <1>2, <1>3
  <2>3. wallet'[Holder3] \in Nat /\ wallet[Holder3] \in Nat
    BY <1>0, <1>2, <1>3, MoneyTypes
  <2>. PICK a, b, c, d : /\ a = wallet'[Holder3] /\ b = wallet[Holder3]
                         /\ c = Pays(TxOf(Now), Holder3) /\ d = Takes
    OBVIOUS
  <2>4. a >= b - c /\ c <= d /\ a \in Nat /\ b \in Nat /\ c \in Nat /\ d \in Nat
    BY <2>1, <2>2, <2>3
  <2>5. a >= b - d
    BY <2>4
  <2>. QED  BY <2>5
<1>. QED  BY <1>1, <1>2, <1>4

-----------------------------------------------------------------------------
(* The balances the matrix compares with those it noted. *)

\* The steps of the matrix that note balances or move tokens between two notes.
LEMMA MatrixPays ==
  ASSUME ScriptTypes, script = "matrix"
  PROVE  /\ pc \in {21, 33} => Now.op = "snap"
         /\ pc \in {22, 34} => Now.op = "bond" /\ Now.w = Holder3
         /\ pc \in {23, 25, 35, 37, 40} => Now.tag = "none" /\ ~Now.always
         /\ pc \in {23, 35} => Now.op = "start" /\ Now.a = 1 /\ Now.w = Holder3
         /\ pc \in {25, 37} => Now.op = "finalizeB" /\ Now.a = 1
         /\ pc = 40 => Now.op = "settle" /\ Now.a = 0
         /\ pc \in {23, 25} => Now.l = "e2"
         /\ pc \in {35, 37, 40} => Now.l = "e3"
<1>1. Now = MatrixScript[pc]
  BY Basics, ScriptsAre
<1>. QED  BY <1>1, MatrixTable, SMT DEF Need, Local, Step

\* These steps are needed.
Payments == {21, 23, 25, 33, 35, 37, 40}
\* Those steps are never skipped.
LEMMA PaymentsWanted ==
  ASSUME ScriptTypes, Rows, ~Down, script = "matrix", pc \in Payments
  PROVE  Wanted
<1>1. CASE pc \in {21, 33}
  <2>1. Now.op = "snap"
    BY <1>1, MatrixPays
  <2>. QED  BY <2>1 DEF Wanted, Needed
<1>2. CASE pc \in {23, 25, 35, 37, 40}
  <2>1. Now.op \in Moves /\ Now.a \in {0, 1} /\ Now.l \in {"e2", "e3"}
    BY <1>2, MatrixPays DEF Moves
  <2>2. Label(Now.l) = At(Now.l) /\ View(At(Now.l)) \in Views(Now.l, pc)
    BY <2>1, NowCoin
  <2>. PICK x, a : x = At(Now.l) /\ a = Now.a
    OBVIOUS
  <2>3. CASE pc = 23
    <3>1. View(x) = Leads(2) /\ a = 1 /\ Now.op = "start"
      BY <2>2, <2>3, MatrixPays, ViewsTable
    <3>2. sub[x][1].status = "NONE"
      BY <3>1, ViewSays
    <3>. QED  BY <2>2, <3>1, <3>2 DEF Wanted, Needed, Sub
  <2>4. CASE pc = 25
    <3>1. View(x) = Contends(2, 3) /\ a = 1 /\ Now.op = "finalizeB"
      BY <2>2, <2>4, MatrixPays, ViewsTable
    <3>2. sub[x][1].status = "RECEIVING"
      BY <3>1 DEF View, Contends
    <3>. QED  BY <2>2, <3>1, <3>2 DEF Wanted, Needed, Sub
  <2>5. CASE pc = 35
    <3>1. View(x) = Leads(3) /\ a = 1 /\ Now.op = "start"
      BY <2>2, <2>5, MatrixPays, ViewsTable
    <3>2. sub[x][1].status = "NONE"
      BY <3>1, ViewSays
    <3>. QED  BY <2>2, <3>1, <3>2 DEF Wanted, Needed, Sub
  <2>6. CASE pc = 37
    <3>1. View(x) = Contends(3, 3) /\ a = 1 /\ Now.op = "finalizeB"
      BY <2>2, <2>6, MatrixPays, ViewsTable
    <3>2. sub[x][1].status = "RECEIVING"
      BY <3>1 DEF View, Contends
    <3>. QED  BY <2>2, <3>1, <3>2 DEF Wanted, Needed, Sub
  <2>7. CASE pc = 40
    <3>1. View(x) = Stands /\ a = 0 /\ Now.op = "settle"
      BY <2>2, <2>7, MatrixPays, ViewsTable
    <3>2. sub[x][0].status = "PENDING"
      BY <3>1, ViewSays
    <3>. QED  BY <2>2, <3>1, <3>2 DEF Wanted, Needed, Sub
  <2>. QED  BY <1>2, <2>3, <2>4, <2>5, <2>6, <2>7
<1>. QED  BY <1>1, <1>2 DEF Payments

\* Outside of these parts of the script nothing is compared.
LEMMA SnapsElsewhere ==
  ASSUME script' = "matrix" => Pos' \notin 22..27 /\ Pos' \notin 34..42
  PROVE  Snaps'
BY DEF Snaps

\* What was noted stays true where no balance changes.
LEMMA SnapsStay ==
  ASSUME Snaps, UNCHANGED <<script, wallet, vault, snap>>, Pos' = Pos \/ Pos' = 1
  PROVE  Snaps'
BY DEF Snaps, Moved, Moved2

\* A step between two notes that moves no tokens.
LEMMA SnapsQuiet ==
  ASSUME ScriptTypes, ~Down, Snaps, Proceeds, UNCHANGED <<script, run, wallet, vault, snap>>,
         script = "matrix" => pc \notin Payments
  PROVE  Snaps'
<1>1. SUFFICES ASSUME script = "matrix" PROVE Snaps'
  BY DEF Snaps
<1>2. Pos' = NextPos(script, pc) /\ Pos = pc /\ pc \in Nat /\ pc >= 1
  BY Basics, OnwardsTo DEF Pos
<1>3. NextPos(script, pc) = IF pc < 53 THEN pc + 1 ELSE pc
  BY <1>1, Lengths DEF NextPos
<1>4. /\ \A h, v : Moved2(h, v)' <=> Moved2(h, v)
      /\ \A h, r, v : Moved(h, r, v)' <=> Moved(h, r, v)
  BY DEF Moved, Moved2
<1>5. /\ pc \in 22..23 => Moved2(0, 0)
      /\ pc \in 24..25 => Moved2(-100, 0)
      /\ pc \in 26..27 => Moved2(200, -100)
      /\ pc \in 34..35 => Moved(0, 0, 0)
      /\ pc \in 36..37 => Moved(-100, 0, 0)
      /\ pc \in 38..40 => Moved(-100, 100, 0)
      /\ pc \in 41..42 => Moved(0, 200, -100)
  BY <1>1, <1>2 DEF Snaps
<1>. PICK q : q = NextPos(script, pc)
  OBVIOUS
<1>6. /\ q \in 22..23 => pc \in 22..23
      /\ q \in 24..25 => pc \in 24..25
      /\ q \in 26..27 => pc \in 26..27
      /\ q \in 34..35 => pc \in 34..35
      /\ q \in 36..37 => pc \in 36..37
      /\ q \in 38..40 => pc \in 38..40
      /\ q \in 41..42 => pc \in 41..42
  BY <1>1, <1>2, <1>3 DEF Payments
<1>7. /\ q \in 22..23 => Moved2(0, 0)'
      /\ q \in 24..25 => Moved2(-100, 0)'
      /\ q \in 26..27 => Moved2(200, -100)'
      /\ q \in 34..35 => Moved(0, 0, 0)'
      /\ q \in 36..37 => Moved(-100, 0, 0)'
      /\ q \in 38..40 => Moved(-100, 100, 0)'
      /\ q \in 41..42 => Moved(0, 200, -100)'
  BY <1>4, <1>5, <1>6
<1>8. Pos' = q
  BY <1>2
<1>. QED  BY <1>7, <1>8 DEF Snaps

\* What is noted is what there is.
LEMMA SnapsNoted ==
  ASSUME ScriptTypes, TypeOK, Snapshot
  PROVE  Snaps'
<1>0. ~Down /\ Proceeds /\ UNCHANGED <<script, run, vault, wallet>> /\ Now.op = "snap"
      /\ snap' = [r |-> wallet[Recipient], h3 |-> wallet[Holder3], vault |-> vault]
  BY Onward DEF Snapshot, Local_, Elsewhere, Down, vars
<1>1. script = "matrix" /\ pc \in {21, 33}
  BY <1>0, Basics DEF Placed, SnapsAt
<1>2. Pos' \in {22, 34}
  BY <1>0, <1>1, OnwardsTo, Lengths DEF NextPos
<1>3. wallet[Recipient] \in Nat /\ wallet[Holder3] \in Nat /\ vault \in Nat
  BY MoneyTypes
<1>4. snap'.r = wallet'[Recipient] /\ snap'.h3 = wallet'[Holder3] /\ snap'.vault = vault'
  BY <1>0
<1>5. /\ wallet'[Holder3] = snap'.h3 + 0 /\ wallet'[Recipient] = snap'.r + 0
      /\ vault' = snap'.vault + 0
  BY <1>0, <1>3, <1>4
<1>6. Moved(0, 0, 0)' /\ Moved2(0, 0)'
  BY <1>5 DEF Moved, Moved2
<1>7. (Pos' \in 22..23 \/ Pos' \in 34..35) /\ \A n \in 24..27 \cup 36..42 : Pos' # n
  BY <1>2
<1>. QED  BY <1>2, <1>6, SMT DEF Snaps

\* A difference and one more.
LEMMA MovedOn ==
  ASSUME NEW s \in Int, NEW w \in Int, NEW h \in Int, NEW d \in Int, w = s + h
  PROVE  w + d = s + (h + d)
OBVIOUS

MovesBy(d3, dv) == snap' = snap /\ wallet'[Holder3] = wallet[Holder3] + d3 /\ vault' = vault + dv

\* Holder3 and the vault have moved by as much more.
LEMMA Moved2By ==
  ASSUME TypeOK, ScriptTypes, NEW h \in Int, NEW v \in Int, NEW d3 \in Int, NEW dv \in Int,
         Moved2(h, v), MovesBy(d3, dv)
  PROVE  /\ wallet'[Holder3] = snap'.h3 + (h + d3)
         /\ vault' = snap'.vault + (v + dv)
<1>1. /\ wallet[Holder3] \in Int /\ vault \in Int /\ snap.h3 \in Int /\ snap.vault \in Int
  BY MoneyTypes DEF ScriptTypes
<1>2. wallet[Holder3] + d3 = snap.h3 + (h + d3)
  BY <1>1, MovedOn DEF Moved2
<1>3. vault + dv = snap.vault + (v + dv)
  BY <1>1, MovedOn DEF Moved2
<1>. QED  BY <1>2, <1>3 DEF MovesBy

\* So have all three balances.
LEMMA MovedBy ==
  ASSUME TypeOK, ScriptTypes, NEW h \in Int, NEW r \in Int, NEW v \in Int,
         NEW d3 \in Int, NEW dr \in Int, NEW dv \in Int,
         Moved(h, r, v), MovesBy(d3, dv), wallet'[Recipient] = wallet[Recipient] + dr
  PROVE  /\ wallet'[Holder3] = snap'.h3 + (h + d3)
         /\ vault' = snap'.vault + (v + dv)
         /\ wallet'[Recipient] = snap'.r + (r + dr)
<1>1. Moved2(h, v)
  BY DEF Moved, Moved2
<1>2. wallet[Recipient] \in Int /\ snap.r \in Int
  BY MoneyTypes DEF ScriptTypes
<1>3. wallet[Recipient] + dr = snap.r + (r + dr)
  BY <1>2, MovedOn DEF Moved
<1>. QED  BY <1>1, <1>3, Moved2By DEF MovesBy

\* A step that moves tokens, by the amounts that are expected of it.
LEMMA SnapsPaid ==
  ASSUME ScriptTypes, TypeOK, ~Down, Snaps, Proceeds, UNCHANGED <<script, run>>, script = "matrix",
         pc \in {23, 25, 35, 37, 40},
         pc \in {23, 35} => MovesBy(-100, 0) /\ wallet'[Recipient] = wallet[Recipient] + 0,
         pc = 25 => MovesBy(300, -100),
         pc = 37 => MovesBy(0, 0) /\ wallet'[Recipient] = wallet[Recipient] + 100,
         pc = 40 => MovesBy(100, -100) /\ wallet'[Recipient] = wallet[Recipient] + 100
  PROVE  Snaps'
<1>1. Pos' = NextPos(script, pc) /\ Pos = pc
  BY OnwardsTo DEF Pos
<1>2. NextPos(script, pc) = pc + 1
  BY Lengths DEF NextPos
<1>3. /\ pc = 23 => Moved2(0, 0)
      /\ pc = 25 => Moved2(-100, 0)
      /\ pc = 35 => Moved(0, 0, 0)
      /\ pc = 37 => Moved(-100, 0, 0)
      /\ pc = 40 => Moved(-100, 100, 0)
  BY <1>1, SMT DEF Snaps
<1>4. CASE pc = 23
  <2>1. wallet'[Holder3] = snap'.h3 + (0 + (-100)) /\ vault' = snap'.vault + (0 + 0)
    BY <1>3, <1>4, Moved2By
  <2>2. Moved2(-100, 0)'
    BY <2>1 DEF Moved2
  <2>3. Pos' = 24
    BY <1>1, <1>2, <1>4
  <2>. QED  BY <2>2, <2>3, SMT DEF Snaps
<1>5. CASE pc = 25
  <2>1. wallet'[Holder3] = snap'.h3 + (-100 + 300) /\ vault' = snap'.vault + (0 + (-100))
    BY <1>3, <1>5, Moved2By
  <2>2. Moved2(200, -100)'
    BY <2>1 DEF Moved2
  <2>3. Pos' = 26
    BY <1>1, <1>2, <1>5
  <2>. QED  BY <2>2, <2>3, SMT DEF Snaps
<1>6. CASE pc = 35
  <2>1. /\ wallet'[Holder3] = snap'.h3 + (0 + (-100)) /\ vault' = snap'.vault + (0 + 0)
        /\ wallet'[Recipient] = snap'.r + (0 + 0)
    BY <1>3, <1>6, MovedBy
  <2>2. Moved(-100, 0, 0)'
    BY <2>1 DEF Moved
  <2>3. Pos' = 36
    BY <1>1, <1>2, <1>6
  <2>. QED  BY <2>2, <2>3, SMT DEF Snaps
<1>7. CASE pc = 37
  <2>1. /\ wallet'[Holder3] = snap'.h3 + (-100 + 0) /\ vault' = snap'.vault + (0 + 0)
        /\ wallet'[Recipient] = snap'.r + (0 + 100)
    BY <1>3, <1>7, MovedBy
  <2>2. Moved(-100, 100, 0)'
    BY <2>1 DEF Moved
  <2>3. Pos' = 38
    BY <1>1, <1>2, <1>7
  <2>. QED  BY <2>2, <2>3, SMT DEF Snaps
<1>8. CASE pc = 40
  <2>1. /\ wallet'[Holder3] = snap'.h3 + (-100 + 100) /\ vault' = snap'.vault + (0 + (-100))
        /\ wallet'[Recipient] = snap'.r + (100 + 100)
    BY <1>3, <1>8, MovedBy
  <2>2. Moved(0, 200, -100)'
    BY <2>1 DEF Moved
  <2>3. Pos' = 41
    BY <1>1, <1>2, <1>8
  <2>. QED  BY <2>2, <2>3, SMT DEF Snaps
<1>. QED  BY <1>4, <1>5, <1>6, <1>7, <1>8

\* What start, finalize and settle pay is what the matrix expects.
LEMMA SnapsStarted ==
  ASSUME Sending, Snaps, Now.op = "start", Exec(TxOf(Now)), Proceeds, UNCHANGED <<script, run, snap>>
  PROVE  Snaps'
<1>0. /\ ScriptTypes /\ ProgInv /\ TypeOK /\ ~Down /\ Configured /\ Wanted
      /\ Holder3 # Recipient /\ Now.op \in Moves
  BY DEF Sending, ProgInv, Configured, Moves
<1>1. PICK l, x, a : l = Now.l /\ x = At(Now.l) /\ a = Now.a
  OBVIOUS
<1>2. /\ Now.tag = "none" /\ Now.w = CheckerFor(a)
      /\ StartCheckIn(x, a, CheckerFor(a), GenesisState(x, Value, Recipient))
  BY <1>1, StartLands
<1>3. StartsAt(script, pc, Now)
  BY <1>0, Basics DEF Placed
<1>4. Pos' = NextPos(script, pc)
  BY <1>0, OnwardsTo
<1>5. CASE script = "matrix" /\ pc \in {23, 35}
  <2>1. a = 1 /\ CheckerFor(a) = Holder3
    BY <1>0, <1>1, <1>5, MatrixPays DEF CheckerFor
  <2>2. /\ registry[x].status = "ACTIVE" /\ x \in Serials /\ CoinRight(x)
    BY <1>0, <1>1, <1>2, MoveFacts DEF StartCheckIn, CanStart
  <2>3. Bond(x) = 100
    BY <1>0, <2>2, CoinWorth
  <2>4. wallet' = [wallet EXCEPT ![Holder3] = @ - 100] /\ vault' = vault
    BY <1>2, <2>1, <2>3 DEF StartCheckIn
  <2>5. wallet \in [Accounts -> Nat] /\ Holder3 \in Accounts /\ Recipient \in Accounts /\ vault \in Nat
    BY <1>0, MoneyTypes
  <2>6. wallet'[Holder3] = wallet[Holder3] + (-100) /\ vault' = vault + 0
    BY <2>4, <2>5
  <2>7. wallet'[Recipient] = wallet[Recipient] + 0
    BY <1>0, <2>4, <2>5
  <2>8. MovesBy(-100, 0)
    BY <2>6 DEF MovesBy
  <2>9. pc \in {23, 25, 35, 37, 40} /\ pc # 25 /\ pc # 37 /\ pc # 40
    BY <1>5
  <2>. QED  BY <1>0, <1>5, <2>7, <2>8, <2>9, SnapsPaid
<1>6. CASE ~(script = "matrix" /\ pc \in {23, 35})
  <2>1. script = "matrix" => pc \in {8, 12, 17, 30, 45}
    BY <1>2, <1>3, <1>6 DEF StartsAt
  <2>2. ASSUME script = "matrix" PROVE Pos' \in {9, 13, 18, 31, 46}
    <3>1. NextPos(script, pc) = IF pc < 53 THEN pc + 1 ELSE pc
      BY <2>2, Lengths DEF NextPos
    <3>2. pc \in {8, 12, 17, 30, 45}
      BY <1>4, <2>1, <2>2
    <3>3. NextPos(script, pc) \in {9, 13, 18, 31, 46}
      BY <3>1, <3>2
    <3>. QED  BY <1>4, <2>1, <3>3
  <2>3. script' = "matrix" => Pos' \notin 22..27 /\ Pos' \notin 34..42
    BY <2>2
  <2>. QED  BY <2>3, SnapsElsewhere
<1>. QED  BY <1>5, <1>6

\* The finalize of a contender pays, or keeps, what the matrix expects.
LEMMA SnapsResolved ==
  ASSUME Sending, Snaps, Now.op = "finalizeB", Exec(TxOf(Now)), Proceeds, UNCHANGED <<script, run, snap>>
  PROVE  Snaps'
<1>0. ScriptTypes /\ TypeOK /\ ~Down /\ Holder3 # Recipient
  BY DEF Sending, ProgInv, Configured
<1>1. PICK l, x : l = Now.l /\ x = At(Now.l)
  OBVIOUS
<1>2. /\ script = "matrix"
      /\ \/ /\ pc = 25 /\ Redeemed
            /\ wallet' = [wallet EXCEPT ![Holder3] = @ + 300]
         \/ /\ pc = 37 /\ UNCHANGED <<supply, vault, allowance>>
            /\ wallet' = [wallet EXCEPT ![Recipient] = @ + 100]
  BY <1>1, ResolveLands
<1>3. wallet \in [Accounts -> Nat] /\ Holder3 \in Accounts /\ Recipient \in Accounts /\ vault \in Nat
  BY <1>0, MoneyTypes
<1>4. CASE pc = 25
  <2>1. vault' = vault - 100 /\ wallet' = [wallet EXCEPT ![Holder3] = @ + 300]
    BY <1>2, <1>4 DEF Redeemed
  <2>2. MovesBy(300, -100)
    BY <1>3, <2>1 DEF MovesBy
  <2>3. pc \in {23, 25, 35, 37, 40} /\ pc \notin {23, 35} /\ pc # 37 /\ pc # 40
    BY <1>4
  <2>. QED  BY <1>0, <1>2, <2>2, <2>3, SnapsPaid
<1>5. CASE pc = 37
  <2>1. vault' = vault /\ wallet' = [wallet EXCEPT ![Recipient] = @ + 100]
    BY <1>2, <1>5
  <2>2. MovesBy(0, 0) /\ wallet'[Recipient] = wallet[Recipient] + 100
    BY <1>0, <1>3, <2>1 DEF MovesBy
  <2>3. pc \in {23, 25, 35, 37, 40} /\ pc \notin {23, 35} /\ pc # 25 /\ pc # 40
    BY <1>5
  <2>. QED  BY <1>0, <1>2, <2>2, <2>3, SnapsPaid
<1>. QED  BY <1>2, <1>4, <1>5

\* The settle pays what the matrix expects.
LEMMA SnapsSettled ==
  ASSUME Sending, Snaps, Now.op = "settle", Exec(TxOf(Now)), Proceeds, UNCHANGED <<script, run, snap>>
  PROVE  Snaps'
<1>0. ScriptTypes /\ TypeOK /\ ~Down /\ Holder3 # Recipient
  BY DEF Sending, ProgInv, Configured
<1>1. PICK l, x : l = Now.l /\ x = At(Now.l)
  OBVIOUS
<1>2. SettlesAt(script, pc, Now) /\ Pos' = NextPos(script, pc)
  BY <1>0, Basics, OnwardsTo DEF Placed
<1>3. CASE script = "matrix" /\ pc = 40
  <2>1. /\ Redeemed
        /\ \E w \in Wallets :
             /\ wallet' = [[wallet EXCEPT ![w] = @ + 100] EXCEPT ![Recipient] = @ + 100]
             /\ script = "matrix" /\ pc = 40 => w = Holder3
    BY <1>1, SettleLands
  <2>2. wallet' = [[wallet EXCEPT ![Holder3] = @ + 100] EXCEPT ![Recipient] = @ + 100]
    BY <1>3, <2>1
  <2>3. wallet \in [Accounts -> Nat] /\ Holder3 \in Accounts /\ Recipient \in Accounts /\ vault \in Nat
    BY <1>0, MoneyTypes
  <2>4. wallet'[Holder3] = wallet[Holder3] + 100 /\ wallet'[Recipient] = wallet[Recipient] + 100
    BY <1>0, <2>2, <2>3
  <2>5. vault' = vault + (-100)
    BY <2>1, <2>3 DEF Redeemed
  <2>6. MovesBy(100, -100)
    BY <2>4, <2>5 DEF MovesBy
  <2>7. pc \in {23, 25, 35, 37, 40} /\ pc \notin {23, 35} /\ pc # 25 /\ pc # 37
    BY <1>3
  <2>. QED  BY <1>0, <1>3, <2>4, <2>6, <2>7, SnapsPaid
<1>4. CASE ~(script = "matrix" /\ pc = 40)
  <2>1. script = "matrix" => pc \in {48, 50}
    BY <1>2, <1>4 DEF SettlesAt
  <2>2. ASSUME script = "matrix" PROVE Pos' \in {49, 51}
    <3>1. NextPos(script, pc) = IF pc < 53 THEN pc + 1 ELSE pc
      BY <2>2, Lengths DEF NextPos
    <3>2. pc \in {48, 50}
      BY <1>2, <2>1, <2>2
    <3>3. NextPos(script, pc) \in {49, 51}
      BY <3>1, <3>2
    <3>. QED  BY <1>2, <2>1, <3>3
  <2>3. script' = "matrix" => Pos' \notin 22..27 /\ Pos' \notin 34..42
    BY <2>2
  <2>. QED  BY <2>3, SnapsElsewhere
<1>. QED  BY <1>3, <1>4

\* The other moves leave the balances, or come where nothing is compared.
LEMMA SnapsLanded ==
  ASSUME Sending, Snaps, Now.op \in Sends, Exec(TxOf(Now)), UNCHANGED <<script, run, snap>>,
         Passes
  PROVE  Snaps'
<1>0. ScriptTypes /\ TypeOK /\ ~Down /\ Placed(script, pc, Now) /\ Pos = pc
  BY Basics DEF Sending, ProgInv, Pos
<1>1. PICK l, x, a : l = Now.l /\ x = At(Now.l) /\ a = Now.a
  OBVIOUS
<1>p. Now.op # "append" => Proceeds
  BY DEF Passes, Proceeds
<1>2. CASE Now.op = "append"
  <2>1. Now.tag = "none" /\ UNCHANGED <<wallet, supply, vault, allowance>>
    BY <1>1, <1>2, AppendLands
  <2>2. CASE script = "matrix"
    <3>1. AppendsAt(script, pc, Now)
      BY <1>0, <1>2 DEF Placed
    <3>2. ~Now.always
      BY <2>1, <2>2, <3>1 DEF AppendsAt, Insists
    <3>3. Pos' = Pos
      BY <1>0, <1>2, <3>2 DEF Pos, Down, Passes
    <3>. QED  BY <2>1, <3>3, SnapsStay
  <2>3. CASE script # "matrix"
    BY <2>3 DEF Snaps
  <2>. QED  BY <2>2, <2>3
<1>3. CASE Now.op = "finalizeB"
  BY <1>p, <1>3, SnapsResolved
<1>4. CASE Now.op = "start"
  BY <1>p, <1>4, SnapsStarted
<1>5. CASE Now.op = "settle"
  BY <1>p, <1>5, SnapsSettled
<1>6. ASSUME Proceeds, script = "matrix" => pc \in {3, 4, 6, 9, 10, 15, 28, 43, 47} PROVE Snaps'
  <2>1. Pos' = NextPos(script, pc)
    BY <1>0, <1>6, OnwardsTo
  <2>2. ASSUME script = "matrix" PROVE Pos' \in {4, 5, 7, 10, 11, 16, 29, 44, 48}
    <3>1. NextPos(script, pc) = IF pc < 53 THEN pc + 1 ELSE pc
      BY <2>2, Lengths DEF NextPos
    <3>2. pc \in {3, 4, 6, 9, 10, 15, 28, 43, 47}
      BY <1>6, <2>1, <2>2
    <3>3. NextPos(script, pc) \in {4, 5, 7, 10, 11, 16, 29, 44, 48}
      BY <3>1, <3>2
    <3>. QED  BY <1>6, <2>1, <3>3
  <2>3. script' = "matrix" => Pos' \notin 22..27 /\ Pos' \notin 34..42
    BY <2>2
  <2>. QED  BY <2>3, SnapsElsewhere
<1>7. CASE Now.op = "mint"
  <2>1. script = "matrix" => pc \in {3, 6, 10, 15, 28, 43}
    BY <1>0, <1>7 DEF Placed, MintsAt
  <2>. QED  BY <1>p, <1>6, <1>7, <2>1
<1>8. CASE Now.op = "finalizeA"
  <2>1. UNCHANGED <<wallet, supply, vault, allowance>>
    BY <1>1, <1>8, LeadLands
  <2>2. script = "matrix" => pc \in {19, 32, 47}
    BY <1>0, <1>8 DEF Placed, LeadsAt
  <2>3. script = "matrix" => pc \notin Payments
    BY <2>2 DEF Payments
  <2>. QED  BY <1>p, <1>0, <1>8, <2>1, <2>3, SnapsQuiet
<1>9. CASE Now.op = "finalizeM1"
  BY <1>0, <1>9 DEF Placed, FinishesAt, Snaps
<1>10. CASE Now.op = "cap"
  <2>1. pc \in {4, 9}
    BY <1>0, <1>10, SMT DEF Placed, CapsAt
  <2>. QED  BY <1>p, <1>6, <1>10, <2>1
<1>11. CASE Now.op = "fund"
  BY <1>0, <1>11 DEF Placed, FundsAt, Snaps
<1>12. CASE Now.op = "verify"
  <2>1. VerifiesAt(script, pc, Now)
    BY <1>0, <1>12 DEF Placed
  <2>. QED  BY <2>1 DEF VerifiesAt, Snaps
<1>. QED  BY <1>2, <1>3, <1>4, <1>5, <1>7, <1>8, <1>9, <1>10, <1>11, <1>12 DEF Sends

-----------------------------------------------------------------------------
(* The window. *)

\* A step that leads to a settle has waited for the window, or the settle stays.
LEMMA WaitComes ==
  ASSUME ScriptTypes, ~Down, Proceeds, UNCHANGED <<script, run>>, Waited,
         pc = Len(Script) /\ Now.op = "settle" /\ Now.tag = "none" => head' = head,
         Now.op = "wait" => head'[Label(Now.l)].age >= Window
  PROVE  Waited'
<1>1. SUFFICES ASSUME (Now.op = "settle")', (Now.tag = "none")'
               PROVE  (head[Label(Now.l)].age >= Window)'
  BY DEF Waited
<1>2. /\ script \in DOMAIN StepsOf /\ pc \in Positions(script) /\ Now = StepsOf[script][pc] /\ pc \in Nat
      /\ Len(StepsOf[script]) \in Nat /\ pc <= Len(StepsOf[script])
  BY Basics, ScriptsAre, Lengths DEF Script
<1>. PICK q, t : q = NextPos(script, pc) /\ t = StepsOf[script][q]
  OBVIOUS
<1>3. Now' = t /\ q \in Positions(script) /\ \A l : Label(l)' = Label(l)
  BY NextStep
<1>4. t.op = "settle" /\ t.tag = "none"
  BY <1>1, <1>3
<1>5. CASE pc < Len(StepsOf[script])
  <2>1. q = pc + 1
    BY <1>5 DEF NextPos
  <2>2. Now.op = "wait" /\ Now.l = t.l
    BY <1>2, <1>4, <1>5, <2>1, BeforeSettle
  <2>. QED  BY <1>3, <2>2
<1>6. CASE pc = Len(StepsOf[script])
  <2>1. Now = t /\ Now' = Now
    BY <1>2, <1>3, <1>6 DEF NextPos
  <2>2. head' = head
    BY <1>4, <1>6, <2>1 DEF Script
  <2>. QED  BY <1>3, <1>4, <2>1, <2>2 DEF Waited
<1>. QED  BY <1>2, <1>5, <1>6

\* The first step of a script is no settle.
LEMMA WaitFirst ==
  ASSUME ScriptTypes, UNCHANGED script, pc' = 1
  PROVE  Waited'
<1>1. script \in DOMAIN StepsOf /\ 1 \in Positions(script)
  BY Basics, ScriptsAre, Lengths DEF Positions
<1>2. Placed(script, 1, StepsOf[script][1]) /\ Now' = StepsOf[script][1]
  BY <1>1, AllPlaced DEF Now, Script
<1>3. Now'.op # "settle"
  BY <1>2 DEF Placed, SettlesAt
<1>. QED  BY <1>3 DEF Waited

\* The age of a head only grows.
LEMMA WaitStays ==
  ASSUME TypeOK, ScriptTypes, Waited, UNCHANGED <<script, run, pc>>, Down' <=> Down,
         Now.op = "settle" /\ ~Down =>
            head'[Label(Now.l)].age >= head[Label(Now.l)].age /\ head'[Label(Now.l)].age \in Nat
            /\ head[Label(Now.l)].age \in Nat /\ Window \in Nat
  PROVE  Waited'
<1>1. Now' = Now /\ Label(Now.l)' = Label(Now.l)
  BY DEF Now, Script, Label
<1>. QED  BY <1>1 DEF Waited

-----------------------------------------------------------------------------
(* No transaction fails that is not expected to. *)

\* The limit of a u64 is beyond every amount of the scripts.
LEMMA Limit == Configured => U64Max \in Nat /\ U64Max >= 1000000 /\ MaxRuns \in Nat
BY ScriptAssumption, DataAssumption, SMT DEF Configured, Value

\* A mint of 100 fits the supply, the vault, the limit and the cap.
LEMMA OneFits ==
  ASSUME supply + 100 <= U64Max, vault >= supply + 100,
         Al.committed + 100 <= U64Max, Al.committed + 100 <= Al.cap
  PROVE  MintFits(Value, Al)
<1>1. 100 > 0
  OBVIOUS
<1>. QED  BY <1>1, Zenon DEF MintFits, Value

\* The vault and the allowance have room for one coin more.
LEMMA RoomForOne ==
  ASSUME Configured, ScriptTypes, TypeOK, LateOnes, Room, CapFits, M1Fits, NothingThrows, Rows, ~Down,
         Now.op = "mint", Wanted
  PROVE  registry[At(Now.l)].status = "NONE" /\ MintFits(Value, Al)
<1>0. /\ script \in DOMAIN StepsOf /\ pc \in Positions(script) /\ Pos = pc /\ MintsAt(script, pc, Now)
      /\ Round \in Nat /\ Round >= 1 /\ MaxRuns \in Nat /\ script \in {"matrix", "pq", "smoke"} /\ pc \in Nat
  BY Basics DEF Placed, Pos
<1>. PICK x, l : x = At(Now.l) /\ l = Now.l
  OBVIOUS
<1>1. Label(Now.l) = x /\ View(x) \in Views(l, pc) /\ l \in Uses[script]
  BY <1>0, NowCoin DEF Moves
<1>2. registry[x].status = "NONE"
  BY <1>0, <1>1 DEF Wanted, Needed, MintsAt
<1>3. View(x) = Unminted
  <2>1. \A y \in Views(Now.l, pc) : y = Unminted \/ y[1] # "NONE"
    BY <1>0, ViewsAtMint
  <2>2. View(x)[1] = registry[x].status
    BY DEF View
  <2>. QED  BY <1>1, <1>2, <2>1, <2>2
<1>4. /\ supply \in Nat /\ vault \in Nat /\ Al.committed \in Nat /\ Al.cap \in Nat
      /\ DefaultAllowance \in Nat
  BY MoneyTypes, ConfigAssumption
<1>. PICK c, d : c = Al.committed /\ d = Al.cap
  OBVIOUS
<1>5. U64Max \in Nat /\ U64Max >= 1000000
  BY Limit
<1>7. CASE script = "smoke"
  <2>1. l = "m1" /\ pc = 3
    BY <1>0, <1>7 DEF MintsAt
  <2>2. supply = 0 /\ c = 0 /\ vault >= 1000
    BY <1>0, <1>3, <1>7, <2>1 DEF M1Fits
  <2>3. d = DefaultAllowance
    BY <1>7 DEF CapFits
  <2>4. DefaultAllowance >= 200
    BY <1>0, <1>4 DEF Configured
  <2>5. supply + 100 <= U64Max /\ c + 100 <= U64Max
    BY <1>5, <2>2, SMT
  <2>6. vault >= supply + 100 /\ c + 100 <= d
    BY <1>4, <2>2, <2>3, <2>4
  <2>. QED  BY <1>2, <2>5, <2>6, OneFits
<1>8. CASE script # "smoke"
  <2>1. pc >= 3
    BY <1>0, ViewsAtMint
  <2>. PICK m, k, o, q : m = Left(script, pc) /\ k = Cardinality(late) /\ o = Owed
                         /\ q = PerRun(script) * Round
    OBVIOUS
  <2>2. m \in Nat /\ m >= 1
    BY <1>0, LeftFalls
  <2>3. k \in Nat /\ o = 100 * m + 100 * k
    BY <1>0, OwedNat
  <2>4. o \in Nat /\ o >= 100
    BY <2>2, <2>3
  <2>5. supply + o <= q /\ c + o <= q /\ vault >= supply + o
    BY <1>0, <1>8, <2>1 DEF Room
  <2>6. Round <= MaxRuns + 1
    BY <1>8, RoundBound
  <2>7. q \in Nat /\ q <= 600 * (MaxRuns + 1) /\ (script = "pq" => q <= 200 * (MaxRuns + 1))
    BY <1>0, <2>6 DEF PerRun
  <2>8. q <= 1000000 /\ (script = "pq" => q <= DefaultAllowance)
    BY <1>0, <1>4, <2>7, SMT DEF Configured
  <2>13. c + 100 <= q /\ supply + 100 <= q /\ vault >= supply + 100
    BY <1>4, <2>4, <2>5, <2>7
  <2>9. supply + 100 <= U64Max /\ vault >= supply + 100 /\ c + 100 <= U64Max
    BY <1>4, <1>5, <2>7, <2>8, <2>13, SMT
  <2>10. CASE script = "pq"
    <3>1. d = DefaultAllowance
      BY <2>10 DEF CapFits
    <3>2. c + 100 <= d
      BY <1>4, <2>7, <2>8, <2>10, <2>13, <3>1, SMT
    <3>. QED  BY <1>2, <2>9, <3>2, OneFits
  <2>11. CASE script = "matrix" /\ pc = 3
    <3>1. l = "e0"
      BY <1>0, <2>11 DEF MintsAt
    <3>2. ~Opened
      BY <1>3, <2>11, <3>1 DEF CapFits, Opened
    <3>3. c = 0 /\ d = DefaultAllowance
      BY <3>2 DEF Al, OpenAllowance, Opened
    <3>4. DefaultAllowance >= 200
      BY <1>0, <1>4 DEF Configured
    <3>5. c + 100 <= d
      BY <1>4, <3>3, <3>4
    <3>. QED  BY <1>2, <2>9, <3>5, OneFits
  <2>12. CASE script = "matrix" /\ pc # 3
    <3>1. pc >= 6
      BY <1>0, <2>12 DEF MintsAt
    <3>2. allowance[Recipient].cap = 1000000
      BY <1>0, <2>12, <3>1, SMT DEF CapFits
    <3>3. Opened
      <4>1. "e0" \in Uses[script]
        BY <2>12 DEF Uses
      <4>2. View(At("e0")) \in Views("e0", pc)
        BY <1>0, <4>1 DEF Rows
      <4>3. View(At("e0")) = Minted
        BY <1>0, <3>1, <4>2 DEF Views
      <4>4. Minted # Unminted
        BY DEF Minted, Unminted
      <4>. QED  BY <2>12, <4>3, <4>4 DEF CapFits, Opened
    <3>4. d = 1000000
      BY <3>2, <3>3, SMT DEF Al, OpenAllowance, Opened
    <3>5. c + 100 <= d
      BY <1>4, <2>7, <2>8, <2>13, <3>4, SMT
    <3>. QED  BY <1>2, <2>9, <3>5, OneFits
  <2>. QED  BY <1>0, <1>8, <2>10, <2>11, <2>12
<1>. QED  BY <1>2, <1>7, <1>8

\* The coin is active, the submission unused and the bond in the wallet.
LEMMA StartFitsNow ==
  ASSUME Sending, Bonds, LateOnes, Now.op = "start", Now.tag = "none"
  PROVE  CanStart(At(Now.l), Now.a, Now.w, GenesisState(At(Now.l), Value, Recipient))
<1>0. ScriptTypes /\ ProgInv /\ TypeOK /\ ClaimsInv /\ Rows /\ ~Down /\ Configured /\ Wanted
  BY DEF Sending, ProgInv
<1>. PICK x, l, a : x = At(Now.l) /\ l = Now.l /\ a = Now.a
  OBVIOUS
<1>1. /\ x \in Serials /\ a \in Attempts /\ View(x) \in Views(l, pc) /\ CoinRight(x)
      /\ Placed(script, pc, Now) /\ script \in DOMAIN StepsOf /\ pc \in Positions(script)
  BY <1>0, MoveFacts DEF Moves
<1>2. StartsAt(script, pc, Now) /\ Label(Now.l) = x /\ Pos = pc
  BY <1>0, <1>1, NowCoin DEF Placed, Moves
<1>3. script # "pq" => Needed(Now) /\ sub[x][a].status = "NONE"
  <2>1. script # "pq" => ~Now.always
    BY <1>2 DEF StartsAt, Insists
  <2>. QED  BY <1>0, <1>2, <2>1 DEF Wanted, Needed, Sub
<1>4. registry[x].status = "ACTIVE" /\ sub[x][a].status = "NONE"
  <2>1. \/ /\ a = 0
           /\ \A y \in Views(l, pc) : y = Minted \/ y[2] # "NONE"
           /\ script = "pq" => Views(l, pc) = {Minted}
        \/ /\ a = 1
           /\ \E n \in {2, 3} : Views(l, pc) = {Leads(n)}
    <3>1. /\ pc < Len(StepsOf[script]) /\ Now.l \in Uses[script]
          /\ \/ /\ Now.a = 0 /\ Now.w = Recipient /\ Receives(1) \in Views(Now.l, pc + 1)
                /\ \A y \in Views(Now.l, pc) :
                     y = Minted \/ (y[2] # "NONE" /\ y \in Views(Now.l, pc + 1))
                /\ script = "pq" => Views(Now.l, pc) = {Minted}
             \/ /\ Now.a = 1 /\ Now.w = Holder3 /\ script = "matrix"
                /\ \E n \in {2, 3} : /\ Views(Now.l, pc) = {Leads(n)}
                                     /\ Contends(n, 1) \in Views(Now.l, pc + 1)
      BY <1>1, <1>2, ViewsAtStart
    <3>. QED  BY <3>1
  <2>2. CASE a = 0
    <3>1. View(x)[2] = sub[x][0].status
      BY DEF View
    <3>2. View(x) = Minted
      BY <1>1, <1>3, <2>1, <2>2, <3>1
    <3>. QED  BY <2>2, <3>2, ViewSays
  <2>3. CASE a = 1
    <3>1. \E n \in {2, 3} : View(x) = Leads(n)
      BY <1>1, <2>1, <2>3
    <3>. QED  BY <2>3, <3>1, ViewSays
  <2>. QED  BY <2>1, <2>2, <2>3
<1>5. registry[x].value = 100 /\ registry[x].recipient = Recipient /\ Bond(x) = 100
      /\ BondFits(registry[x].value, BondBps)
  BY <1>0, <1>1, <1>4, CoinWorth
<1>6. escrow[x][a] = 0
  BY <1>0, <1>1, <1>4 DEF ClaimsInv, EscrowRight, Open
<1>7. registry[x].count < 2
  <2>1. registry[x].count = Begun(x, 0) + Begun(x, 1)
    BY <1>1 DEF CoinRight
  <2>2. Begun(x, a) = 0 /\ Begun(x, 0) \in {0, 1} /\ Begun(x, 1) \in {0, 1}
    BY <1>4 DEF Begun
  <2>3. a = 0 \/ a = 1
    BY <1>1 DEF Attempts
  <2>. QED  BY <2>1, <2>2, <2>3
<1>8. StateHash(GenesisState(x, Value, Recipient)) = registry[x].genesis
  BY <1>0, <1>1, <1>4, <1>5 DEF ClaimsInv, ChainsAnchored, Value
<1>9. wallet[Now.w] >= 100
  <2>1. CASE script = "pq"
    <3>1. pc = 4 /\ Now.w = Recipient
      BY <1>2, <2>1 DEF StartsAt
    <3>2. wallet[Recipient] >= 100 * (1 + Cardinality(late))
      BY <1>2, <2>1, <3>1 DEF Bonds, PqBond
    <3>3. Cardinality(late) \in Nat /\ wallet[Recipient] \in Nat
      BY <1>0, FS_CardinalityType, MoneyTypes DEF LateOnes
    <3>4. PICK k, w : k = Cardinality(late) /\ w = wallet[Recipient]
      OBVIOUS
    <3>5. w >= 100
      BY <3>2, <3>3, <3>4
    <3>. QED  BY <3>1, <3>4, <3>5
  <2>2. CASE script # "pq"
    BY <1>0, <1>3, <2>2 DEF Bonds, BondReady
  <2>. QED  BY <2>1, <2>2
<1>10. GenesisState(x, Value, Recipient).serial = x /\ GenesisState(x, Value, Recipient).value = registry[x].value
  BY <1>5 DEF GenesisState, Value
<1>. QED  BY <1>4, <1>5, <1>6, <1>7, <1>8, <1>9, <1>10 DEF CanStart

AllFollow(c, x, v) == \A i \in 2..Len(c) : Follows(c[i], c[i-1], x, v)

\* A part of a chain is a batch the program accepts after what is stored.
LEMMA BatchGoesOn ==
  ASSUME NEW c, NEW s, NEW k, NEW links, NEW x, NEW v, Continues(links, s, c, k), Len(s) >= 1,
         AllFollow(c, x, v)
  PROVE  BatchFollows(s, links, x, v) /\ links # <<>> /\ Len(links) = k - Len(s)
<1>. PICK m : m = Len(s)
  OBVIOUS
<1>1. m \in Nat /\ k \in Nat /\ m >= 1 /\ m + 1 <= k /\ k <= Len(c) /\ Len(c) \in Nat
      /\ \A i \in 1..m : s[i] = c[i]
  BY DEF Continues
<1>2. JoinsUp(links, s, c, k)
  BY Joined
<1>3. Len(links) = k - m /\ \A i \in 1..Len(links) : links[i] = c[m + i]
  BY <1>2 DEF JoinsUp
<1>4. links # <<>>
  <2>1. Len(links) # 0
    BY <1>1, <1>3
  <2>. QED  BY <2>1
<1>5. ASSUME NEW i \in 1..Len(links)
      PROVE  Follows(links[i], IF i = 1 THEN s[Len(s)] ELSE links[i-1], x, v)
  <2>1. i \in Nat /\ i >= 1 /\ i <= k - m
    BY <1>1, <1>3
  <2>2. m + i \in 2..Len(c) /\ m + i - 1 = m + (i - 1)
    BY <1>1, <2>1
  <2>3. Follows(c[m + i], c[m + (i - 1)], x, v)
    BY <2>2 DEF AllFollow
  <2>4. links[i] = c[m + i]
    BY <1>3
  <2>5. CASE i = 1
    <3>1. m + (i - 1) = m /\ m \in 1..m
      BY <1>1, <2>5
    <3>2. s[m] = c[m]
      BY <1>1, <3>1
    <3>. QED  BY <2>3, <2>4, <2>5, <3>1, <3>2
  <2>6. CASE i # 1
    <3>1. i - 1 \in 1..Len(links)
      BY <1>1, <1>3, <2>1, <2>6
    <3>2. links[i-1] = c[m + (i - 1)]
      BY <1>3, <3>1
    <3>. QED  BY <2>3, <2>4, <2>6, <3>2
  <2>. QED  BY <2>5, <2>6
<1>. QED  BY <1>3, <1>4, <1>5 DEF BatchFollows

\* The batch continues the chain on chain, and is sent by its last owner.
LEMMA BatchFitsNow ==
  ASSUME Sending, Now.op = "append", Now.tag = "none"
  PROVE  LET t == TxOf(Now) IN
         BatchFits(At(Now.l), Now.a, t.w, t.links, StateHash(t.links[Len(t.links)]))
<1>0. ScriptTypes /\ ProgInv /\ TypeOK /\ ClaimsInv /\ Rows /\ ~Down /\ Configured /\ Wanted
  BY DEF Sending, ProgInv
<1>. PICK x, l, a, w, links :
       x = At(Now.l) /\ l = Now.l /\ a = Now.a /\ w = TxOf(Now).w /\ links = TxOf(Now).links
  OBVIOUS
<1>1. /\ x \in Serials /\ a \in Attempts /\ l \in Labels /\ CoinRight(x) /\ HoldsChain(l, x, a)
      /\ Placed(script, pc, Now) /\ script \in DOMAIN StepsOf /\ pc \in Positions(script)
  BY <1>0, MoveFacts DEF Moves
<1>2. Now.n <= 4
  <2>1. AppendsAt(script, pc, Now)
    BY <1>1 DEF Placed
  <2>. QED  BY <2>1 DEF AppendsAt
<1>. PICK m, n, c, s : /\ m = Len(sub[x][a].states) /\ n = Now.n /\ c = ChainOf(l, x, a)
                       /\ s = sub[x][a].states
  OBVIOUS
<1>3. LET k == Len(sub[x][Now.a].states) IN
      /\ k \in Nat /\ 1 <= k /\ k < Now.n /\ Now.n \in Nat /\ Now.n <= Full(Now.l, Now.a)
      /\ sub[x][Now.a].status = "RECEIVING" /\ Now.a \in Attempts
  BY <1>0, AppendNow
<1>4. /\ m \in Nat /\ 1 <= m /\ m < n /\ n \in Nat /\ n <= 4 /\ n <= Full(l, a)
      /\ sub[x][a].status = "RECEIVING"
  BY <1>2, <1>3
<1>5. LET j == Len(sub[x][Now.a].states) IN
      /\ TxOf(Now).w = OwnersOf(Now.l, Now.a)[j] /\ TxOf(Now).w \in Wallets
      /\ TxOf(Now).links \in LinkBatches
      /\ \E k \in Nat : /\ j + 1 <= k /\ k <= Now.n /\ k <= j + MaxLinks
                        /\ j + MaxLinks >= Now.n => k = Now.n
                        /\ TxOf(Now).links = SubSeq(ChainOf(Now.l, x, Now.a), j + 1, k)
  BY <1>0, BatchNow
<1>6. PICK k \in Nat : /\ m + 1 <= k /\ k <= n /\ k <= m + MaxLinks
                       /\ links = SubSeq(c, m + 1, k)
  BY <1>5
<1>7. w = OwnersOf(l, a)[m]
  BY <1>5
<1>8. /\ c \in Seq(State) /\ Len(c) = Full(l, a) /\ Full(l, a) \in Nat
      /\ \A i \in 1..Full(l, a) : c[i].owner = OwnersOf(l, a)[i]
      /\ \A i \in 2..Full(l, a) : Follows(c[i], c[i-1], x, Value)
  BY <1>1, ChainFacts
<1>9. s \in Seq(State) /\ Len(s) = m
  BY <1>0, <1>1 DEF TypeOK, AccountTypes, Submissions
<1>10. \A i \in 1..m : s[i] = c[i]
  BY <1>1, <1>4 DEF HoldsChain, ChainOf
<1>11. Continues(links, s, c, k)
  <2>1. links \in Seq(State)
    BY <1>5, InputAssumption
  <2>2. k <= Len(c)
    <3>1. k <= n /\ n <= Full(l, a) /\ n \in Nat /\ Full(l, a) \in Nat
      BY <1>4, <1>6, <1>8
    <3>2. k <= Full(l, a)
      BY <3>1
    <3>. QED  BY <1>8, <3>2
  <2>. QED  BY <1>6, <1>8, <1>9, <1>10, <2>1, <2>2 DEF Continues
<1>12. BatchFollows(s, links, x, Value) /\ links # <<>> /\ Len(links) = k - m
  <2>1. AllFollow(c, x, Value)
    BY <1>8 DEF AllFollow
  <2>2. Len(s) >= 1
    BY <1>4, <1>9
  <2>3. BatchFollows(s, links, x, Value) /\ links # <<>> /\ Len(links) = k - Len(s)
    BY <1>11, <2>1, <2>2, BatchGoesOn
  <2>. QED  BY <1>9, <2>3
<1>13. registry[x].value = Value
  <2>1. registry[x].status # "NONE"
    BY <1>0, <1>1, <1>4, StartedSubmission
  <2>. QED  BY <1>1, <2>1 DEF CoinRight
<1>14. LastState(sub[x][a]).owner = w
  <2>1. m \in 1..m /\ m \in 1..Full(l, a)
    <3>1. m <= Full(l, a) /\ Full(l, a) \in Nat
      BY <1>4, <1>8
    <3>. QED  BY <1>4, <3>1
  <2>2. s[m] = c[m]
    BY <1>10, <2>1
  <2>. QED  BY <1>7, <1>8, <2>1, <2>2 DEF LastState
<1>15. Len(links) <= MaxLinks /\ m + Len(links) <= 4
  <2>1. MaxLinks \in Nat
    BY ConfigAssumption
  <2>2. k - m <= MaxLinks /\ m + (k - m) <= 4
    BY <1>4, <1>6, <2>1
  <2>. QED  BY <1>12, <2>2
<1>16. CanAppend(sub[x][a], w, links)
  BY <1>4, <1>12, <1>14, <1>15 DEF CanAppend, LinksFit, MaxSubmissionStates
<1>. QED  BY <1>12, <1>13, <1>16 DEF BatchFits

\* With no other submission there is no head yet.
LEMMA HeadFitsNow ==
  ASSUME TypeOK, ClaimsInv, NEW x \in Serials, NEW n, View(x) = Receives(n)
  PROVE  CanSetHead(x, 0)
<1>1. /\ registry[x].status = "ACTIVE" /\ sub[x][0].status = "RECEIVING"
      /\ sub[x][1].status = "NONE"
  BY ViewSays
<1>2. 0 \in Attempts /\ \A b \in Attempts : b = 0 \/ b = 1
  BY DEF Attempts
<1>3. CanFinalize(x, 0)
  BY <1>1, <1>2, CanBeFinalized
<1>4. ~head[x].set
  <2>1. HeadLiveAt(x) /\ head[x].attempt \in Attempts
    BY DEF ClaimsInv, HeadIsLive, TypeOK, AccountTypes, Heads
  <2>2. \A b \in Attempts : sub[x][b].status \notin {"PENDING", "WON"}
    BY <1>1, <1>2
  <2>. QED  BY <2>1, <2>2 DEF HeadLiveAt
<1>. QED  BY <1>1, <1>3, <1>4 DEF CanSetHead

\* Whoever contends with a head is decided on.
LEMMA ResolveFitsNow ==
  ASSUME TypeOK, ClaimsInv, NEW x \in Serials, NEW n, NEW m, View(x) = Contends(n, m)
  PROVE  CanWin(x, 1) \/ (CanResolve(x, 1) /\ ~BeatsHead(x, 1))
<1>1. /\ registry[x].status = "ACTIVE" /\ sub[x][0].status = "PENDING"
      /\ sub[x][1].status = "RECEIVING"
  BY DEF View, Contends
<1>2. 0 \in Attempts /\ 1 \in Attempts /\ Other(1) = 0
  BY DEF Attempts, Other
<1>3. head[x].set
  BY <1>1, <1>2, CanBeSettled
<1>4. CanResolve(x, 1)
  BY <1>1, <1>2, <1>3, CanBeFinalized
<1>5. escrow[x][0] = Bond(x) /\ Bond(x) \in Nat
  BY <1>1, <1>2, BondNat DEF ClaimsInv, EscrowRight, Open, TypeOK
<1>6. /\ vault >= registry[x].value /\ supply >= registry[x].value
      /\ allowance[registry[x].recipient].committed >= registry[x].value
  BY <1>1, ValueThere
<1>7. BeatsHead(x, 1) => CanWin(x, 1)
  BY <1>2, <1>4, <1>5, <1>6 DEF CanWin
<1>. QED  BY <1>4, <1>7

\* A pending submission can be paid once the window is over.
LEMMA SettleFitsNow ==
  ASSUME TypeOK, ClaimsInv, NEW x \in Serials, sub[x][0].status = "PENDING", head[x].age >= Window
  PROVE  CanPayOut(x, 0, FALSE, TRUE)
<1>1. 0 \in Attempts
  BY DEF Attempts
<1>2. registry[x].status = "ACTIVE" /\ CanSettle(x, 0)
  BY <1>1, CanBeSettled
<1>3. escrow[x][0] = Bond(x) /\ Bond(x) \in Nat
  BY <1>1, BondNat DEF ClaimsInv, EscrowRight, Open, TypeOK
<1>4. /\ vault >= registry[x].value /\ supply >= registry[x].value
      /\ allowance[registry[x].recipient].committed >= registry[x].value
  BY <1>2, ValueThere
<1>. QED  BY <1>2, <1>3, <1>4 DEF CanPayOut, Sweeps

-----------------------------------------------------------------------------
(* What a run sends, and does not expect to be refused, is accepted.         *)

Ready == Sending /\ LateOnes /\ Balances /\ NothingThrows

\* What is known when a transaction is in flight that is not to be refused.
LEMMA ReadyMeans ==
  ASSUME Ready
  PROVE  /\ Sending /\ LateOnes /\ NothingThrows /\ Room /\ CapFits /\ M1Fits /\ Bonds /\ Waited
         /\ Configured /\ ScriptTypes /\ ProgInv /\ TypeOK /\ ClaimsInv /\ Rows /\ Chains /\ ~Down
         /\ Wanted
BY DEF Ready, Balances, Sending, ProgInv

\* The program accepts the mint.
LEMMA MintWorks ==
  ASSUME Ready, Now.op = "mint"
  PROVE  Simulates(TxOf(Now))
<1>1. TxOf(Now).op = "mint" /\ TxOf(Now).sn = At(Now.l)
  <2>1. Sending
    BY ReadyMeans
  <2>2. Now.op \in Moves
    BY DEF Moves
  <2>. QED  BY <2>1, <2>2, MoveFacts
<1>2. registry[At(Now.l)].status = "NONE" /\ MintFits(Value, Al)
  BY ReadyMeans, RoomForOne
<1>3. CanMint(At(Now.l), Value, OpenAllowance(Recipient))
  BY <1>2 DEF CanMint, Al
<1>. QED  BY <1>1, <1>3 DEF Simulates

\* The program accepts the start.
LEMMA StartWorks ==
  ASSUME Ready, Now.op = "start", Now.tag = "none"
  PROVE  Simulates(TxOf(Now))
<1>1. TxOf(Now).op = "start" /\ TxOf(Now).sn = At(Now.l) /\ TxOf(Now).a = Now.a
  <2>1. Sending
    BY ReadyMeans
  <2>2. Now.op \in Moves
    BY DEF Moves
  <2>. QED  BY <2>1, <2>2, MoveFacts
<1>2. TxOf(Now).w = Now.w
  BY TxFields
<1>3. CanStart(At(Now.l), Now.a, Now.w, GenesisState(At(Now.l), Value, Recipient))
  BY ReadyMeans, StartFitsNow
<1>. QED  BY <1>1, <1>2, <1>3 DEF Simulates

\* The program accepts the append.
LEMMA AppendWorks ==
  ASSUME Ready, Now.op = "append", Now.tag = "none"
  PROVE  Simulates(TxOf(Now))
<1>1. TxOf(Now).op = "append" /\ TxOf(Now).sn = At(Now.l) /\ TxOf(Now).a = Now.a
  <2>1. Sending
    BY ReadyMeans
  <2>2. Now.op \in Moves
    BY DEF Moves
  <2>. QED  BY <2>1, <2>2, MoveFacts
<1>2. LET t == TxOf(Now) IN
      BatchFits(At(Now.l), Now.a, t.w, t.links, StateHash(t.links[Len(t.links)]))
  BY ReadyMeans, BatchFitsNow
<1>. QED  BY <1>1, <1>2 DEF Simulates

\* The program accepts the finalize of a first submission.
LEMMA LeadWorks ==
  ASSUME Ready, Now.op = "finalizeA"
  PROVE  Simulates(TxOf(Now))
<1>. PICK x : x = At(Now.l)
  OBVIOUS
<1>1. /\ TypeOK /\ ClaimsInv /\ x \in Serials /\ View(x) \in Views(Now.l, pc)
      /\ Placed(script, pc, Now) /\ script \in DOMAIN StepsOf /\ pc \in Positions(script)
      /\ TxOf(Now).op = "finalizeA" /\ TxOf(Now).sn = x /\ TxOf(Now).a = Now.a
  <2>1. Sending
    BY ReadyMeans
  <2>2. Now.op \in Moves
    BY DEF Moves
  <2>. QED  BY <2>1, <2>2, MoveFacts
<1>2. LeadsAt(script, pc, Now)
  BY <1>1 DEF Placed
<1>3. /\ pc < Len(StepsOf[script]) /\ Now.l \in Uses[script]
      /\ \E n \in {2, 3} : Views(Now.l, pc) = {Receives(n)} /\ Leads(n) \in Views(Now.l, pc + 1)
  BY <1>1, <1>2, ViewsAtLead
<1>4. PICK n \in {2, 3} : Views(Now.l, pc) = {Receives(n)}
  BY <1>3
<1>5. View(x) = Receives(n)
  BY <1>1, <1>4
<1>6. CanSetHead(x, 0)
  BY <1>1, <1>5, HeadFitsNow
<1>7. Now.a = 0
  BY <1>2 DEF LeadsAt
<1>. QED  BY <1>1, <1>6, <1>7 DEF Simulates

\* The smoke test finalizes a coin that is spent, and fails.
LEMMA FinishWorks ==
  ASSUME Ready, Now.op = "finalizeM1"
  PROVE  Simulates(TxOf(Now)) \/ Paid
<1>. PICK x : x = At(Now.l)
  OBVIOUS
<1>1. /\ TypeOK /\ ClaimsInv /\ x \in Serials /\ View(x) \in Views(Now.l, pc)
      /\ Placed(script, pc, Now) /\ script \in DOMAIN StepsOf /\ pc \in Positions(script)
      /\ TxOf(Now).op = "finalizeM1" /\ TxOf(Now).sn = x /\ TxOf(Now).a = Now.a
  <2>1. Sending
    BY ReadyMeans
  <2>2. Now.op \in Moves
    BY DEF Moves
  <2>. QED  BY <2>1, <2>2, MoveFacts
<1>2. FinishesAt(script, pc, Now)
  BY <1>1 DEF Placed
<1>3. /\ pc < Len(StepsOf[script]) /\ Now.l \in Uses[script]
      /\ Views(Now.l, pc) = {Receives(3), Leads(3), Paid0(3)}
      /\ Views(Now.l, pc + 1) = {Leads(3), Paid0(3)}
  BY <1>1, <1>2, ViewsAtFinish
<1>4. Now.a = 0 /\ Now.l = "m1" /\ script = "smoke" /\ ~Now.always
  BY <1>2 DEF FinishesAt
<1>5. Label("m1") = x
  BY <1>4 DEF At, Coin, Label, Fixed
<1>6. sub[x][0].status # "PENDING"
  <2>1. Needed(Now)
    BY <1>4, ReadyMeans DEF Wanted
  <2>. QED  BY <1>4, <1>5, <2>1 DEF Needed, Sub
<1>7. CASE View(x) = Receives(3)
  <2>1. CanSetHead(x, 0)
    BY <1>1, <1>7, HeadFitsNow
  <2>. QED  BY <1>1, <1>4, <2>1 DEF Simulates
<1>8. CASE View(x) = Leads(3)
  <2>1. sub[x][0].status = "PENDING"
    BY <1>8 DEF View, Leads
  <2>. QED  BY <1>6, <2>1
<1>9. CASE View(x) = Paid0(3)
  <2>1. registry[x].status = "SPENT"
    BY <1>9 DEF View, Paid0
  <2>. QED  BY <1>4, <1>5, <2>1 DEF Paid, Spent
<1>. QED  BY <1>1, <1>3, <1>7, <1>8, <1>9

\* The program accepts the finalize of a contender.
LEMMA ResolveWorks ==
  ASSUME Ready, Now.op = "finalizeB"
  PROVE  Simulates(TxOf(Now))
<1>. PICK x : x = At(Now.l)
  OBVIOUS
<1>1. /\ TypeOK /\ ClaimsInv /\ x \in Serials /\ View(x) \in Views(Now.l, pc)
      /\ Placed(script, pc, Now) /\ script \in DOMAIN StepsOf /\ pc \in Positions(script)
      /\ TxOf(Now).op = "finalizeB" /\ TxOf(Now).sn = x /\ TxOf(Now).a = Now.a
  <2>1. Sending
    BY ReadyMeans
  <2>2. Now.op \in Moves
    BY DEF Moves
  <2>. QED  BY <2>1, <2>2, MoveFacts
<1>2. ResolvesAt(script, pc, Now)
  BY <1>1 DEF Placed
<1>3. /\ pc < Len(StepsOf[script]) /\ Now.l \in Uses[script] /\ script = "matrix"
      /\ \/ pc = 25 /\ Views(Now.l, pc) = {Contends(2, 3)} /\ Overtaken \in Views(Now.l, pc + 1)
         \/ pc = 37 /\ Views(Now.l, pc) = {Contends(3, 3)} /\ Stands \in Views(Now.l, pc + 1)
  BY <1>1, <1>2, ViewsAtResolve
<1>4. \E n \in {2, 3} : View(x) = Contends(n, 3)
  BY <1>1, <1>3
<1>5. CanWin(x, 1) \/ (CanResolve(x, 1) /\ ~BeatsHead(x, 1))
  BY <1>1, <1>4, ResolveFitsNow
<1>6. Now.a = 1
  BY <1>2 DEF ResolvesAt
<1>. QED  BY <1>1, <1>5, <1>6 DEF Simulates

\* The program accepts the settle.
LEMMA SettleWorks ==
  ASSUME Ready, Now.op = "settle", Now.tag = "none"
  PROVE  Simulates(TxOf(Now))
<1>. PICK x : x = At(Now.l)
  OBVIOUS
<1>1. /\ TypeOK /\ ClaimsInv /\ x \in Serials /\ View(x) \in Views(Now.l, pc)
      /\ Placed(script, pc, Now) /\ script \in DOMAIN StepsOf /\ pc \in Positions(script)
      /\ TxOf(Now).op = "settle" /\ TxOf(Now).sn = x /\ TxOf(Now).a = Now.a
  <2>1. Sending
    BY ReadyMeans
  <2>2. Now.op \in Moves
    BY DEF Moves
  <2>. QED  BY <2>1, <2>2, MoveFacts
<1>2. SettlesAt(script, pc, Now)
  BY <1>1 DEF Placed
<1>3. Now.a = 0 /\ (script = "pq" \/ ~Now.always)
  BY <1>2 DEF SettlesAt, Insists
<1>4. Label(Now.l) = x
  BY <1>1, TxFields
<1>5. head[x].age >= Window
  BY <1>4, ReadyMeans DEF Waited
<1>6. sub[x][0].status = "PENDING"
  <2>1. CASE script = "pq"
    <3>1. /\ Now.l \in Uses[script]
          /\ \/ /\ script = "matrix" /\ pc = 40 /\ Now.l = "e3" /\ Views(Now.l, pc) = {Stands}
                /\ Stood \in Views(Now.l, NextPos(script, pc))
             \/ /\ ~(script = "matrix" /\ pc = 40)
                /\ \E n \in {2, 3} : /\ Views(Now.l, pc) \subseteq {Leads(n), Paid0(n)}
                                     /\ Paid0(n) \in Views(Now.l, NextPos(script, pc))
          /\ script = "pq" => Views(Now.l, pc) = {Leads(3)}
      BY <1>1, <1>2, ViewsAtSettle
    <3>2. View(x) = Leads(3)
      BY <1>1, <2>1, <3>1
    <3>. QED  BY <3>2 DEF View, Leads
  <2>2. CASE ~Now.always
    <3>1. Needed(Now)
      BY <2>2, ReadyMeans DEF Wanted
    <3>. QED  BY <1>3, <1>4, <3>1 DEF Needed, Sub
  <2>. QED  BY <1>3, <2>1, <2>2
<1>7. CanPayOut(x, 0, FALSE, TRUE)
  BY <1>1, <1>5, <1>6, SettleFitsNow
<1>. QED  BY <1>1, <1>3, <1>7 DEF Simulates

\* The cap covers what is committed.
LEMMA CapWorks ==
  ASSUME Ready, Now.op = "cap", Now.tag = "none"
  PROVE  Simulates(TxOf(Now))
<1>1. ScriptTypes /\ Rows /\ ~Down /\ TypeOK /\ LateOnes /\ Room /\ CapFits /\ Configured
  BY ReadyMeans
<1>2. /\ Placed(script, pc, Now) /\ pc \in Positions(script) /\ script \in DOMAIN StepsOf
      /\ Round \in Nat /\ Round >= 1 /\ Pos = pc /\ MaxRuns \in Nat
  BY <1>1, Basics DEF Pos
<1>3. CapsAt(script, pc, Now)
  BY <1>2 DEF Placed
<1>4. script = "matrix" /\ pc = 4 /\ Now.n = 1000000
  BY <1>3, SMT DEF CapsAt
<1>5. TxOf(Now).op = "cap" /\ TxOf(Now).n = 1000000
  BY <1>4, TxFields
<1>6. allowance[Recipient].initialized
  <2>1. "e0" \in Uses[script]
    BY <1>4 DEF Uses
  <2>2. Views("e0", 4) = {Minted}
    BY ViewsTable
  <2>3. View(At("e0")) = Minted
    BY <1>1, <1>2, <1>4, <2>1, <2>2 DEF Rows
  <2>4. Minted # Unminted
    BY DEF Minted, Unminted
  <2>. QED  BY <1>1, <1>4, <2>3, <2>4 DEF CapFits
<1>7. allowance[Recipient].committed <= 1000000
  <2>1. Al.committed + Owed <= 600 * Round
    BY <1>1, <1>4 DEF Room, PerRun
  <2>2. Owed \in Nat /\ Al.committed \in Nat
    BY <1>1, OwedNat, MoneyTypes
  <2>3. Round <= MaxRuns + 1
    BY <1>1, <1>2, Basics DEF Round
  <2>4. 600 * (MaxRuns + 1) <= 1000000
    BY <1>1 DEF Configured
  <2>5. Al = allowance[Recipient]
    BY <1>6 DEF Al, OpenAllowance
  <2>6. PICK c, o, r : c = Al.committed /\ o = Owed /\ r = Round
    OBVIOUS
  <2>7. c + o <= 600 * r /\ c \in Nat /\ o \in Nat /\ r \in Nat /\ r <= MaxRuns + 1
    BY <1>2, <2>1, <2>2, <2>3, <2>6
  <2>8. c <= 600 * (MaxRuns + 1)
    BY <1>2, <2>7
  <2>9. c <= 1000000
    BY <1>2, <2>4, <2>7, <2>8, SMT
  <2>. QED  BY <2>5, <2>6, <2>9
<1>. QED  BY <1>5, <1>6, <1>7, SMT DEF Simulates

\* The program accepts the transfer into the vault.
LEMMA FundWorks ==
  ASSUME Ready, Now.op = "fund"
  PROVE  Simulates(TxOf(Now))
<1>1. ScriptTypes /\ ~Down /\ TypeOK /\ M1Fits /\ Wanted
  BY ReadyMeans
<1>2. Placed(script, pc, Now) /\ Pos = pc
  BY <1>1, Basics DEF Pos
<1>3. FundsAt(script, pc, Now)
  BY <1>2 DEF Placed
<1>4. script = "smoke" /\ pc = 2 /\ Now.n = 1000 /\ ~Now.always
  BY <1>3 DEF FundsAt
<1>5. vault < 1000
  BY <1>1, <1>4 DEF Wanted, Needed
<1>6. wallet[MintAuthority] >= 1000 - vault
  BY <1>1, <1>2, <1>4, <1>5 DEF M1Fits
<1>7. TxOf(Now).op = "fund" /\ TxOf(Now).n = 1000 - vault
  BY <1>4, TxFields
<1>. QED  BY <1>6, <1>7 DEF Simulates

\* What the two checks of a commitment find on chain: the first link is signed for
\* by the recipient.
LEMMA VerifyNow ==
  ASSUME ScriptTypes, Rows, Chains, ~Down, Now.op = "verify", NEW t, t = TxOf(Now)
  PROVE  LET states == sub[t.sn][t.a].states IN
         /\ t.op = "verify" /\ t.n = 1 /\ Len(states) = 3 /\ states[1].owner = Recipient
         /\ <<t.w, Now.tag>> \in {<<Recipient, "none">>, <<Holder3, "P5b">>}
<1>1. /\ VerifiesAt(script, pc, Now) /\ Pos = pc
  BY Basics DEF Placed, Pos
<1>2. /\ script = "pq" /\ pc \in {13, 14} /\ Now.l = "pq" /\ Now.a = 0 /\ Now.n = 1
      /\ <<Now.w, Now.tag>> \in {<<Recipient, "none">>, <<Holder3, "P5b">>}
  BY <1>1 DEF VerifiesAt
<1>. PICK x : x = At("pq")
  OBVIOUS
<1>3. "pq" \in Uses[script] /\ "pq" \in Labels /\ 0 \in Attempts
  BY <1>2 DEF Uses, Labels, Attempts
<1>4. Label("pq") = x /\ x \in Serials
  BY <1>3, CoinOf
<1>5. /\ t.op = "verify" /\ t.sn = x /\ t.a = 0 /\ t.n = 1 /\ t.w = Now.w
  BY <1>2, <1>4, TxFields
<1>6. Views("pq", 13) = {Paid0(3)} /\ Views("pq", 14) = {Paid0(3)}
  BY SMT DEF Views
<1>7. View(x) = Paid0(3)
  BY <1>1, <1>2, <1>3, <1>6 DEF Rows
<1>8. sub[x][0].status = "WON" /\ Len(sub[x][0].states) = 3
  BY <1>7, ViewSays
<1>9. HoldsChain("pq", x, 0)
  BY <1>3 DEF Chains
<1>10. sub[x][0].states[1] = ChainOf("pq", x, 0)[1]
  <2>1. 1 \in 1..Len(sub[x][0].states)
    BY <1>8
  <2>. QED  BY <1>8, <1>9, <2>1 DEF HoldsChain, ChainOf
<1>11. sub[x][0].states[1].owner = Recipient
  <2>1. ChainOf("pq", x, 0)[1] = GenesisState(x, Value, Recipient)
    BY <1>3, <1>4, ChainFacts
  <2>. QED  BY <1>10, <2>1 DEF GenesisState
<1>. QED  BY <1>2, <1>5, <1>8, <1>11

\* The program accepts the check of the first link's commitment, and no other field.
LEMMA VerifyWorks ==
  ASSUME Ready, Now.op = "verify"
  PROVE  Simulates(TxOf(Now)) <=> Now.tag = "none"
<1>. PICK t, states : t = TxOf(Now) /\ states = sub[t.sn][t.a].states
  OBVIOUS
<1>1. ScriptTypes /\ Rows /\ Chains /\ ~Down /\ Holder3 # Recipient
  BY ReadyMeans DEF Configured
<1>2. /\ t.op = "verify" /\ t.n = 1 /\ Len(states) = 3 /\ states[1].owner = Recipient
      /\ <<t.w, Now.tag>> \in {<<Recipient, "none">>, <<Holder3, "P5b">>}
  BY <1>1, VerifyNow
<1>3. Simulates(t) <=> t.w = Recipient
  BY <1>2 DEF Simulates, CommitIs
<1>. QED  BY <1>1, <1>2, <1>3

\* No transaction fails that is not expected to.
LEMMA AllWorks ==
  ASSUME Ready, Now.op \in Sends, Now.tag = "none"
  PROVE  Simulates(TxOf(Now)) \/ Paid
<1>1. Now.op \in {"mint", "start", "append", "finalizeA", "finalizeB", "finalizeM1", "settle",
                  "cap", "fund", "verify"}
  BY DEF Sends
<1>. QED  BY <1>1, MintWorks, StartWorks, AppendWorks, LeadWorks, FinishWorks, ResolveWorks,
             SettleWorks, CapWorks, FundWorks, VerifyWorks

-----------------------------------------------------------------------------
(* What a run records.                                                       *)

\* The coins of the records are in one state each.
LEMMA ViewsAtChecks ==
  /\ Views("e2", 20) = {Leads(2)} /\ Views("e2", 26) = {Overtaken} /\ Views("e2", 27) = {Overtaken}
  /\ Views("e3", 38) = {Stands} /\ Views("e3", 41) = {Stood}
  /\ Views("e8", 51) = {Paid0(2)}
  /\ Views("pq", 6) = {Receives(3)} /\ Views("pq", 7) = {Receives(3)}
  /\ Views("pq", 9) = {Leads(3)} /\ Views("pq", 12) = {Paid0(3)}
BY SMT DEF Views

\* Where a check finds its coin.
LEMMA CheckedCoin ==
  ASSUME ScriptTypes, Rows, ~Down, NEW l \in Uses[script], NEW v, Views(l, pc) = {v}
  PROVE  View(Label(l)) = v /\ Label(l) \in Serials
<1>1. script \in DOMAIN StepsOf
  BY Basics
<1>2. l \in Labels
  BY <1>1, UsesLabels
<1>3. Label(l) = At(l) /\ Pos = pc /\ At(l) \in Serials
  BY <1>2, CoinOf
<1>. QED  BY <1>3 DEF Rows

\* The records of the matrix about its coins.
LEMMA MatrixHolds ==
  ASSUME ScriptTypes, ProgInv, Rows, ~Down, script = "matrix"
  PROVE  /\ pc = 20 => Holds("E2a")
         /\ pc = 26 => Holds("E2b")
         /\ pc = 38 => Holds("E3a")
         /\ pc = 41 => Holds("E3b")
         /\ pc = 51 => Holds("E8b")
<1>. {"e2", "e3", "e8"} \subseteq Uses[script]
  BY DEF Uses
<1>1. TypeOK /\ ClaimsInv /\ 0 \in Attempts
  BY DEF ProgInv, Attempts
<1>2. ASSUME pc = 20 PROVE Holds("E2a")
  <2>1. View(Label("e2")) = Leads(2) /\ Label("e2") \in Serials
    BY <1>2, ViewsAtChecks, CheckedCoin
  <2>2. sub[Label("e2")][0].status = "PENDING"
    BY <2>1 DEF View, Leads
  <2>3. head[Label("e2")].set
    BY <1>1, <2>1, <2>2, CanBeSettled
  <2>. QED  BY <2>2, <2>3 DEF Holds, St
<1>3. ASSUME pc = 26 PROVE Holds("E2b")
  <2>1. View(Label("e2")) = Overtaken
    BY <1>3, ViewsAtChecks, CheckedCoin
  <2>. QED  BY <2>1 DEF Holds, St, Spent, View, Overtaken
<1>4. ASSUME pc = 38 PROVE Holds("E3a")
  <2>1. View(Label("e3")) = Stands
    BY <1>4, ViewsAtChecks, CheckedCoin
  <2>. QED  BY <2>1 DEF Holds, St, View, Stands
<1>5. ASSUME pc = 41 PROVE Holds("E3b")
  <2>1. View(Label("e3")) = Stood
    BY <1>5, ViewsAtChecks, CheckedCoin
  <2>. QED  BY <2>1 DEF Holds, St, Spent, View, Stood
<1>6. ASSUME pc = 51 PROVE Holds("E8b")
  <2>1. View(Label("e8")) = Paid0(2)
    BY <1>6, ViewsAtChecks, CheckedCoin
  <2>. QED  BY <2>1 DEF Holds, St, View, Paid0
<1>. QED  BY <1>2, <1>3, <1>4, <1>5, <1>6

\* Its records about balances and the cap.
LEMMA MoneyHolds ==
  ASSUME ScriptTypes, ProgInv, Rows, CapFits, Snaps, ~Down, script = "matrix"
  PROVE  /\ pc = 5 => Holds("E10a")
         /\ pc = 27 => Holds("E2c")
         /\ pc = 42 => Holds("E3c")
<1>. "e2" \in Uses[script]
  BY DEF Uses
<1>1. TypeOK /\ ClaimsInv /\ 0 \in Attempts /\ Pos = pc
  BY DEF ProgInv, Attempts, Pos
<1>2. vault \in Nat /\ snap.vault \in Nat /\ wallet[Recipient] \in Nat /\ wallet[Holder3] \in Nat
      /\ snap.r \in Nat /\ snap.h3 \in Nat
  BY <1>1, MoneyTypes DEF ScriptTypes
<1>3. ASSUME pc = 5 PROVE Holds("E10a")
  <2>1. allowance[Recipient].cap = 1000000
    BY <1>1, <1>3, SMT DEF CapFits
  <2>. QED  BY <2>1, SMT DEF Holds
<1>4. ASSUME pc = 27 PROVE Holds("E2c")
  <2>1. View(Label("e2")) = Overtaken /\ Label("e2") \in Serials
    BY <1>4, ViewsAtChecks, CheckedCoin
  <2>2. sub[Label("e2")][0].status = "LOST"
    BY <2>1 DEF View, Overtaken
  <2>3. escrow[Label("e2")][0] = 0
    BY <1>1, <2>1, <2>2 DEF ClaimsInv, EscrowRight, Open
  <2>4. Moved2(200, -100)
    BY <1>1, <1>4 DEF Snaps
  <2>5. wallet[Holder3] = snap.h3 + 200 /\ vault = snap.vault - 100
    BY <1>2, <2>4 DEF Moved2
  <2>. QED  BY <2>3, <2>5 DEF Holds
<1>5. ASSUME pc = 42 PROVE Holds("E3c")
  <2>1. Moved(0, 200, -100)
    BY <1>1, <1>5 DEF Snaps
  <2>2. wallet[Recipient] = snap.r + 200 /\ wallet[Holder3] = snap.h3 /\ vault = snap.vault - 100
    BY <1>2, <2>1 DEF Moved
  <2>. QED  BY <2>2 DEF Holds
<1>. QED  BY <1>3, <1>4, <1>5

\* The records of the PQ run.
LEMMA PqHolds ==
  ASSUME ScriptTypes, ProgInv, Rows, Chains, ~Down, script = "pq"
  PROVE  /\ pc = 6 => Holds("P3a")
         /\ pc = 7 => Holds("P3b")
         /\ pc = 9 => Holds("P3c")
         /\ pc = 12 => Holds("P4")
<1>. "pq" \in Uses[script]
  BY DEF Uses
<1>1. ASSUME pc = 6 PROVE Holds("P3a")
  <2>1. View(Label("pq")) = Receives(3)
    BY <1>1, ViewsAtChecks, CheckedCoin
  <2>. QED  BY <2>1 DEF Holds, St, View, Receives
<1>2. ASSUME pc = 7 PROVE Holds("P3b")
  <2>1. View(Label("pq")) = Receives(3) /\ Label("pq") \in Serials
    BY <1>2, ViewsAtChecks, CheckedCoin
  <2>. PICK x, st, c : x = Label("pq") /\ st = sub[x][0].states /\ c = ChainOf("pq", x, 0)
    OBVIOUS
  <2>2. sub[x][0].status = "RECEIVING" /\ Len(st) = 3
    BY <2>1, ViewSays
  <2>3. "pq" \in Labels /\ 0 \in Attempts
    BY DEF Labels, Attempts
  <2>4. HoldsChain("pq", x, 0)
    <3>1. x = At("pq")
      BY <2>3, CoinOf
    <3>. QED  BY <2>3, <3>1 DEF Chains
  <2>5. \A i \in 1..Len(st) : st[i] = c[i]
    BY <2>2, <2>4 DEF HoldsChain, ChainOf
  <2>6. c \in Seq(State) /\ Len(c) = 3
    <3>1. Full("pq", 0) = 3
      BY DEF Full
    <3>. QED  BY <2>1, <2>3, <3>1, ChainFacts
  <2>7. st \in Seq(State)
    BY <2>1, <2>3 DEF ProgInv, TypeOK, AccountTypes, Submissions
  <2>8. st = c
    <3>1. \A i \in 1..3 : st[i] = c[i]
      BY <2>2, <2>5
    <3>2. st = [i \in 1..3 |-> st[i]] /\ c = [i \in 1..3 |-> c[i]]
      BY <2>2, <2>6, <2>7
    <3>. QED  BY <3>1, <3>2
  <2>. QED  BY <2>8 DEF Holds, ChainOf
<1>3. ASSUME pc = 9 PROVE Holds("P3c")
  <2>1. View(Label("pq")) = Leads(3)
    BY <1>3, ViewsAtChecks, CheckedCoin
  <2>. QED  BY <2>1 DEF Holds, St, View, Leads
<1>4. ASSUME pc = 12 PROVE Holds("P4")
  <2>1. View(Label("pq")) = Paid0(3)
    BY <1>4, ViewsAtChecks, CheckedCoin
  <2>. QED  BY <2>1 DEF Holds, St, Spent, View, Paid0
<1>. QED  BY <1>1, <1>2, <1>3, <1>4

\* Every record of a check is PASS.
LEMMA CheckHolds ==
  ASSUME ScriptTypes, ProgInv, Rows, Chains, CapFits, Snaps, ~Down, Now.op = "check"
  PROVE  Holds(Now.tag)
<1>1. ChecksAt(script, pc, Now)
  BY Basics DEF Placed
<1>2. CASE script = "matrix"
  BY <1>1, <1>2, MatrixHolds, MoneyHolds DEF ChecksAt
<1>3. CASE script = "pq"
  BY <1>1, <1>3, PqHolds DEF ChecksAt
<1>. QED  BY <1>1, <1>2, <1>3 DEF ChecksAt

\* Nothing lands that the script expects to be refused, except a settle after the
\* window, which is recorded as such.
LEMMA LandRecords ==
  ASSUME Ready, Now.op \in Sends, Exec(TxOf(Now))
  PROVE  Now.tag = "none" \/ (Now.op = "settle" /\ head[TxOf(Now).sn].age >= Window)
<1>. PICK l, x, a : l = Now.l /\ x = At(Now.l) /\ a = Now.a
  OBVIOUS
<1>s. Sending
  BY ReadyMeans
<1>1. CASE Now.op = "mint"
  BY <1>s, <1>1, MintLands
<1>2. CASE Now.op = "start"
  BY <1>s, <1>2, StartLands
<1>3. CASE Now.op = "append"
  BY <1>s, <1>3, AppendLands
<1>4. CASE Now.op = "finalizeA"
  BY <1>s, <1>4, LeadLands
<1>5. CASE Now.op = "finalizeM1"
  BY <1>s, <1>5, FinishLands
<1>6. CASE Now.op = "finalizeB"
  BY <1>s, <1>6, ResolveLands
<1>7. CASE Now.op = "settle"
  <2>1. head[x].age >= Window
    BY <1>s, <1>7, SettleLands
  <2>2. TxOf(Now).sn = x
    BY <1>s, <1>7, MoveFacts DEF Moves
  <2>. QED  BY <1>s, <1>7, <2>1, <2>2
<1>8. CASE Now.op = "cap"
  BY <1>s, <1>8, CapLands
<1>9. CASE Now.op = "fund"
  <2>1. FundsAt(script, pc, Now)
    BY <1>s, <1>9, Basics DEF Placed, Sending
  <2>. QED  BY <2>1 DEF FundsAt
<1>10. CASE Now.op = "verify"
  <2>1. TxOf(Now).op = "verify"
    BY <1>10, TxFields
  <2>2. Simulates(TxOf(Now))
    BY <2>1 DEF Exec
  <2>. QED  BY <1>10, <2>2, VerifyWorks
<1>. QED  BY <1>1, <1>2, <1>3, <1>4, <1>5, <1>6, <1>7, <1>8, <1>9, <1>10 DEF Sends

\* The age of a head, as the program knows it.
LEMMA AgeNat ==
  ASSUME TypeOK, NEW x \in Serials
  PROVE  head[x].age \in Nat /\ Window \in Nat
BY ConfigAssumption DEF TypeOK, AccountTypes, Heads, MaxAge

\* The cap of E10b is below what is committed.
LEMMA CapRefused ==
  ASSUME Ready, Now.op = "cap", Now.tag # "none"
  PROVE  Expected(TxOf(Now))
<1>1. /\ ScriptTypes /\ Rows /\ CapFits /\ ~Down
  BY ReadyMeans
<1>2. Placed(script, pc, Now) /\ Pos = pc
  BY <1>1, Basics DEF Pos
<1>3. CapsAt(script, pc, Now)
  BY <1>2 DEF Placed
<1>4. script = "matrix" /\ pc = 9 /\ Now.tag = "E10b"
  BY <1>3, SMT DEF CapsAt
<1>5. allowance[Recipient].initialized
  <2>1. "e0" \in Uses[script]
    BY <1>4 DEF Uses
  <2>2. Views("e0", 9) = {Minted}
    BY SMT DEF Views
  <2>3. View(At("e0")) = Minted
    BY <1>1, <1>2, <1>4, <2>1, <2>2 DEF Rows
  <2>4. Minted # Unminted
    BY DEF Minted, Unminted
  <2>. QED  BY <1>1, <1>4, <2>3, <2>4 DEF CapFits
<1>6. TxOf(Now).op = "cap" /\ TxOf(Now).tag = "E10b"
  BY <1>4, TxFields
<1>. QED  BY <1>5, <1>6 DEF Expected, Wants, ErrorOf

\* The link of E7b does not fit the submission.
LEMMA AppendRefused ==
  ASSUME Ready, Now.op = "append", Now.tag # "none"
  PROVE  Expected(TxOf(Now))
<1>. PICK t, x, st : t = TxOf(Now) /\ x = At(Now.l) /\ st = sub[x][0]
  OBVIOUS
<1>1. Sending /\ ScriptTypes /\ Rows /\ ~Down /\ Wanted /\ Configured
  BY ReadyMeans
<1>2. /\ x \in Serials /\ View(x) \in Views(Now.l, pc) /\ Placed(script, pc, Now)
      /\ Now.l \in Labels /\ Now.a \in Attempts
      /\ t.op = "append" /\ t.sn = x /\ t.a = Now.a
  BY <1>1, MoveFacts DEF Moves
<1>3. AppendsAt(script, pc, Now)
  BY <1>2 DEF Placed
<1>4. pc = 14 /\ Now.l = "e7" /\ Now.a = 0 /\ Now.n = 5 /\ Now.tag = "E7b"
  BY <1>3 DEF AppendsAt
<1>5. View(x) = Receives(4)
  BY <1>2, <1>4, ViewsAtRefusals
<1>6. st.status = "RECEIVING" /\ Len(st.states) = 4
  BY <1>5, ViewSays
<1>7. Len(t.links) = 1
  <2>. PICK c : c = ChainOf("e7", x, 0)
    OBVIOUS
  <2>1. c \in Seq(State) /\ Len(c) >= 5
    <3>1. "e7" \in Labels /\ 0 \in Attempts
      BY <1>2, <1>4
    <3>2. Full("e7", 0) = 5
      BY DEF Full
    <3>. QED  BY <1>2, <3>1, <3>2, ChainFacts
  <2>2. PICK k \in Nat : 5 <= k /\ k <= 5 /\ t.links = SubSeq(c, 5, k)
    <3>1. LET m == Len(sub[x][Now.a].states) IN
          \E k \in Nat : /\ m + 1 <= k /\ k <= Now.n /\ k <= m + MaxLinks
                         /\ m + MaxLinks >= Now.n => k = Now.n
                         /\ t.links = SubSeq(ChainOf(Now.l, x, Now.a), m + 1, k)
      BY <1>1, BatchNow
    <3>2. Len(sub[x][Now.a].states) = 4
      <4>1. sub[x][Now.a] = st
        BY <1>4
      <4>. QED  BY <1>6, <4>1
    <3>3. PICK m, n : m = Len(sub[x][Now.a].states) /\ n = Now.n
      OBVIOUS
    <3>4. m = 4 /\ n = 5
      BY <1>4, <3>2, <3>3
    <3>5. m + 1 = 5
      BY <3>4
    <3>6. PICK k \in Nat : m + 1 <= k /\ k <= n /\ t.links = SubSeq(ChainOf(Now.l, x, Now.a), m + 1, k)
      BY <3>1, <3>3
    <3>7. 5 <= k /\ k <= 5
      BY <3>4, <3>5, <3>6
    <3>8. ChainOf(Now.l, x, Now.a) = c
      BY <1>4
    <3>9. t.links = SubSeq(c, 5, k)
      BY <3>5, <3>6, <3>8
    <3>. QED  BY <3>7, <3>9
  <2>3. k = 5
    BY <2>2
  <2>4. Len(SubSeq(c, 5, 5)) = 5 - 5 + 1
    BY <2>1, PartOf
  <2>. QED  BY <2>2, <2>3, <2>4
<1>8. t.links # <<>>
  BY <1>7
<1>9. ~(Len(t.links) > MaxLinks) /\ Len(st.states) + Len(t.links) > MaxSubmissionStates
  BY <1>1, <1>6, <1>7, ConfigAssumption DEF Configured, MaxSubmissionStates
<1>10. AppendError(st, t) = "StatesFull"
  BY <1>6, <1>8, <1>9 DEF AppendError
<1>11. t.tag = "E7b"
  BY <1>4, TxFields
<1>12. sub[t.sn][t.a] = st
  BY <1>2, <1>4
<1>13. ErrorOf(t) = "StatesFull"
  BY <1>2, <1>10, <1>12 DEF ErrorOf
<1>. QED  BY <1>11, <1>13 DEF Expected, Wants

\* The settle of E8a that fails comes before the window is over.
LEMMA SettleRefused ==
  ASSUME Ready, Now.op = "settle", Now.tag # "none", ~Simulates(TxOf(Now))
  PROVE  Expected(TxOf(Now))
<1>. PICK t, x : t = TxOf(Now) /\ x = At(Now.l)
  OBVIOUS
<1>1. Sending
  BY ReadyMeans
<1>2. /\ x \in Serials /\ View(x) \in Views(Now.l, pc) /\ Placed(script, pc, Now)
      /\ TypeOK /\ ClaimsInv /\ t.op = "settle" /\ t.sn = x /\ t.a = Now.a
  BY <1>1, MoveFacts DEF Moves
<1>3. SettlesAt(script, pc, Now)
  BY <1>2 DEF Placed
<1>4. pc = 48 /\ Now.l = "e8" /\ Now.a = 0 /\ Now.tag = "E8a"
  BY <1>3 DEF SettlesAt
<1>5. Views("e8", 48) = {Leads(2)}
  BY SMT DEF Views
<1>6. View(x) = Leads(2)
  BY <1>2, <1>4, <1>5
<1>7. registry[x].status = "ACTIVE" /\ sub[x][0].status = "PENDING"
  BY <1>6, ViewSays
<1>8. 0 \in Attempts
  BY DEF Attempts
<1>9. head[x].set /\ head[x].attempt = 0
  BY <1>2, <1>7, <1>8, CanBeSettled
<1>10. ~(head[x].age >= Window)
  <2>1. ASSUME head[x].age >= Window PROVE FALSE
    <3>1. CanPayOut(x, 0, FALSE, TRUE)
      BY <1>2, <1>7, <2>1, SettleFitsNow
    <3>. QED  BY <1>2, <1>4, <3>1 DEF Simulates
  <2>. QED  BY <2>1
<1>11. head[x].age < Window
  BY <1>2, <1>10, AgeNat
<1>12. SettleError(t) = "WindowExpired"
  BY <1>2, <1>4, <1>7, <1>9, <1>11 DEF SettleError
<1>13. t.tag = "E8a"
  BY <1>4, TxFields
<1>. QED  BY <1>2, <1>12, <1>13 DEF Expected, Wants, ErrorOf

\* A coin that has been paid out takes no second submission.
LEMMA StartRefused ==
  ASSUME Ready, Now.op = "start", Now.tag # "none"
  PROVE  Expected(TxOf(Now))
<1>. PICK t, x : t = TxOf(Now) /\ x = At(Now.l)
  OBVIOUS
<1>1. Sending
  BY ReadyMeans
<1>2. /\ View(x) \in Views(Now.l, pc) /\ Placed(script, pc, Now)
      /\ t.op = "start" /\ t.sn = x /\ t.a = Now.a
  BY <1>1, MoveFacts DEF Moves
<1>3. StartsAt(script, pc, Now) /\ t.tag = Now.tag
  BY <1>2, TxFields DEF Placed
<1>4. CASE Now.tag = "E5"
  BY <1>3, <1>4 DEF Expected
<1>5. CASE Now.tag # "E5"
  <2>1. pc = 52 /\ Now.l = "e8" /\ Now.a = 1 /\ Now.tag = "E4"
    BY <1>3, <1>5 DEF StartsAt
  <2>2. Views("e8", 52) = {Paid0(2)}
    BY SMT DEF Views
  <2>3. View(x) = Paid0(2)
    BY <1>2, <2>1, <2>2
  <2>4. registry[x].status = "SPENT" /\ sub[x][1].status = "NONE"
    BY <2>3, ViewSays
  <2>5. StartError(t) = "StatusInvalid"
    BY <1>2, <2>1, <2>4 DEF StartError
  <2>. QED  BY <1>2, <1>3, <2>1, <2>5 DEF Expected, Wants, ErrorOf
<1>. QED  BY <1>4, <1>5

\* The field of P5b is not the one the commitment was made of.
LEMMA VerifyRefused ==
  ASSUME Ready, Now.op = "verify", Now.tag # "none"
  PROVE  Expected(TxOf(Now))
<1>. PICK t, states : t = TxOf(Now) /\ states = sub[t.sn][t.a].states
  OBVIOUS
<1>1. ScriptTypes /\ Rows /\ Chains /\ ~Down
  BY ReadyMeans
<1>2. /\ t.op = "verify" /\ t.n = 1 /\ Len(states) = 3 /\ Now.tag = "P5b"
  BY <1>1, VerifyNow
<1>3. VerifyError(sub[t.sn][t.a], t) = "SigCommitMismatch"
  BY <1>2 DEF VerifyError
<1>4. t.tag = "P5b"
  BY <1>2, TxFields
<1>. QED  BY <1>2, <1>3, <1>4 DEF Expected, Wants, ErrorOf

\* What a script wants to be refused is refused with the error it wants.
LEMMA RefusedRightly ==
  ASSUME Ready, Now.op \in Sends, Now.tag # "none", ~Simulates(TxOf(Now))
  PROVE  Expected(TxOf(Now))
<1>1. Placed(script, pc, Now)
  BY ReadyMeans, Basics
<1>2. Now.op \in {"cap", "append", "settle", "start", "verify"}
  BY <1>1 DEF Sends, Placed, MintsAt, LeadsAt, FinishesAt, ResolvesAt, FundsAt
<1>. QED  BY <1>2, CapRefused, AppendRefused, SettleRefused, StartRefused, VerifyRefused

-----------------------------------------------------------------------------
(* Steps that go on and leave the coins alone.                               *)

\* The parts of the invariant.
LEMMA InvMeans ==
  ASSUME ScriptInv
  PROVE  /\ ScriptTypes /\ ProgInv /\ TypeOK /\ ClaimsInv
         /\ Rows /\ Chains /\ Later /\ Flying /\ Repeating /\ LateOnes
         /\ Room /\ CapFits /\ M1Fits /\ BondReady /\ PqBond /\ H3Bond /\ Snaps /\ Waited
         /\ RecordsHold /\ NothingThrows
BY DEF ScriptInv, Coins, Balances, Bonds, ProgInv

\* The invariant from its parts.
LEMMA InvIs ==
  ASSUME ScriptTypes', ProgInv', Rows', Chains', Later', Flying', Repeating', LateOnes',
         Room', CapFits', M1Fits', Bonds', Snaps', Waited', RecordsHold', NothingThrows'
  PROVE  ScriptInv'
BY DEF ScriptInv, Coins, Balances

\* A script proceeds to its next step, or ends.
LEMMA TypesGoOn ==
  ASSUME ScriptTypes, ~Down, Proceeds, phase' = "again" => run < Runs,
         UNCHANGED <<script, run>>, snap' \in [r : Nat, h3 : Nat, vault : Nat]
  PROVE  /\ ScriptTypes' /\ Flying' /\ NothingThrows' /\ phase' \in {"at", "again", "done"}
         /\ Pos' = NextPos(script, pc) /\ pc' = NextPos(script, pc) /\ Round' = Round
<1>1. /\ ~Down' /\ Pos' = NextPos(script, pc) /\ pc' = NextPos(script, pc) /\ Round' = Round
      /\ NextPos(script, pc) \in Positions(script)
  BY OnwardsTo, NextStep
<1>2. phase' \in {"at", "again", "done"}
  BY DEF Proceeds
<1>3. Runs' = Runs
  BY DEF Runs
<1>4. pc' \in Positions(script') /\ run' \in 1..Runs'
  BY <1>1, <1>3 DEF ScriptTypes
<1>5. ScriptTypes'
  BY <1>2, <1>3, <1>4 DEF ScriptTypes
<1>. QED  BY <1>1, <1>2, <1>5 DEF Flying, NothingThrows

\* To go on is not to be in send any more.
LEMMA OnwardFacts ==
  ASSUME Onwards
  PROVE  Proceeds /\ phase' # "again" /\ Repeating'
<1>1. phase' \in {"at", "done"}
  BY DEF Onwards
<1>. QED  BY <1>1, Onward DEF Repeating

\* A step that goes on and leaves coins and allowances alone.
LEMMA OnwardsInv ==
  ASSUME Configured, ScriptInv, ~Down, Onwards,
         UNCHANGED <<script, run, late, registry, sub, head, allowance, failed>>,
         Now.op \notin Sends \/ Now.tag # "none" \/ ~Wanted,
         Now.op = "wait" => head[Label(Now.l)].age >= Window,
         snap' \in [r : Nat, h3 : Nat, vault : Nat],
         ProgInv', Room', M1Fits', Bonds', Snaps'
  PROVE  ScriptInv'
<1>0. /\ ScriptTypes /\ Rows /\ Chains /\ Later /\ LateOnes /\ CapFits /\ Waited /\ RecordsHold
  BY InvMeans
<1>p. Proceeds /\ phase' # "again" /\ Repeating'
  BY OnwardFacts
<1>1. ScriptTypes' /\ Flying' /\ NothingThrows' /\ Round' = Round
  BY <1>p, <1>0, TypesGoOn
<1>2. Now.op \notin Moves \/ Now.tag # "none" \/ ~Wanted
  BY SendsMoves
<1>3. Rows' /\ Chains'
  BY <1>p, <1>0, <1>2, OnwardsRows
<1>4. Later'
  BY <1>0, <1>1, LaterStays
<1>5. LateOnes'
  BY <1>0, <1>1, LateSame
<1>6. CapFits'
  <2>1. Now.op # "cap" \/ Now.tag # "none" \/ ~Wanted
    BY DEF Sends
  <2>. QED  BY <1>p, <1>0, <2>1, CapGoesOn
<1>7. Waited'
  BY <1>p, <1>0, WaitComes
<1>8. RecordsHold'
  BY <1>0 DEF RecordsHold
<1>. QED  BY <1>p, <1>1, <1>3, <1>4, <1>5, <1>6, <1>7, <1>8, InvIs

\* A step that changes nothing outside the script.
LEMMA SameProgram ==
  ASSUME ProgInv, UNCHANGED vars
  PROVE  ProgInv' /\ Sums(0, 0)
<1>1. TypeOK
  BY DEF ProgInv
<1>2. /\ UNCHANGED <<supply, fees, registry, head, sub, escrow, allowance>>
      /\ wallet' = wallet /\ vault' = vault
  BY DEF vars
<1>3. wallet' \in [Accounts -> Nat] /\ vault' \in Nat /\ vault' >= vault
  BY <1>1, <1>2, MoneyTypes
<1>4. Shift(0, 0)
  BY <1>1, <1>2, NoShift
<1>. QED  BY <1>2, <1>3, <1>4, GiftStep DEF Shift

Quiet ==
  \/ ~Wanted
  \/ Now.op \in {"wait", "check", "snap"}
  \/ Now.op \in Sends /\ Now.tag # "none"

\* A quiet step is none that funds, sets up or sends.
LEMMA QuietFacts ==
  ASSUME ScriptTypes, ~Down, Quiet
  PROVE  /\ Now.op \notin {"topup", "prefund"}
         /\ Now.op \notin Sends \/ Now.tag # "none" \/ ~Wanted
         /\ script = "smoke" => ~Wanted \/ pc >= 3
         /\ Now.op = "bond" => ~Needed(Now)
<1>1. Placed(script, pc, Now) /\ pc \in Nat /\ pc >= 1
  BY Basics
<1>2. Now.op \in {"prefund", "topup", "wait", "snap", "check"} => Wanted
  BY <1>1 DEF Placed, Wanted
<1>3. Now.op \notin {"topup", "prefund"}
  BY <1>2 DEF Quiet, Sends
<1>4. ASSUME script = "smoke", Wanted PROVE pc >= 3
  <2>1. pc = 1 => Now.op = "reserve"
    BY <1>4, M1Steps
  <2>2. pc = 2 => FundsAt(script, pc, Now)
    BY <1>1, <1>4, M1Steps DEF Placed
  <2>3. pc = 2 => Now.op = "fund" /\ Now.tag = "none"
    BY <1>4, <2>2, M1Steps DEF FundsAt
  <2>4. pc # 1 /\ pc # 2
    BY <1>4, <2>1, <2>3 DEF Quiet, Sends
  <2>. QED  BY <1>1, <2>4
<1>5. ASSUME Now.op = "bond" PROVE ~Needed(Now)
  BY <1>5 DEF Quiet, Sends, Wanted
<1>. QED  BY <1>3, <1>4, <1>5 DEF Quiet, Sends

\* A step that goes on and changes nothing of the program.
LEMMA QuietStep ==
  ASSUME Configured, ScriptInv, ~Down, Onwards, Quiet,
         UNCHANGED <<vars, script, run, late, failed>>,
         Now.op = "wait" => head[Label(Now.l)].age >= Window,
         snap' \in [r : Nat, h3 : Nat, vault : Nat], Snaps'
  PROVE  ScriptInv'
<1>0. /\ ScriptTypes /\ ProgInv /\ TypeOK /\ Rows /\ LateOnes /\ Room /\ M1Fits /\ BondReady
      /\ PqBond /\ H3Bond /\ NothingThrows
  BY InvMeans
<1>p. Proceeds /\ phase' # "again"
  BY OnwardFacts
<1>1. UNCHANGED <<supply, vault, fees, wallet, registry, head, sub, escrow, allowance>>
  BY DEF vars
<1>2. /\ Now.op \notin {"topup", "prefund"}
      /\ Now.op \notin Sends \/ Now.tag # "none" \/ ~Wanted
      /\ script = "smoke" => ~Wanted \/ pc >= 3
      /\ Now.op = "bond" => ~Needed(Now)
  BY <1>0, QuietFacts
<1>3. ProgInv' /\ Sums(0, 0)
  BY <1>0, SameProgram
<1>4. Round' = Round
  BY <1>p, <1>0, TypesGoOn
<1>5. Room'
  <2>1. LateOnes'
    BY <1>0, <1>4, LateSame
  <2>2. Spends
    BY <1>3 DEF Spends
  <2>. QED  BY <1>p, <1>0, <1>2, <2>1, <2>2, RoomGoesOn
<1>6. M1Fits'
  BY <1>p, <1>0, <1>1, <1>2, M1GoesOn
<1>7. BondReady'
  <2>1. Now.op = "bond" => Sub(Now).status # "NONE" \/ wallet[Now.w] >= 100
    <3>1. ASSUME Now.op = "bond", Sub(Now).status = "NONE" PROVE wallet[Now.w] >= 100
      <4>1. ~(wallet[Now.w] < 150)
        BY <1>2, <3>1 DEF Needed, Value
      <4>2. Now.w \in Accounts
        <5>1. BondsAt(script, pc, Now)
          BY <1>0, <3>1, Basics DEF Placed
        <5>. QED  BY <1>0, <5>1, MoneyTypes DEF BondsAt
      <4>3. wallet[Now.w] \in Nat
        BY <1>0, <4>2, MoneyTypes
      <4>. QED  BY <4>1, <4>3
    <3>. QED  BY <3>1
  <2>. QED  BY <1>p, <1>0, <1>1, <2>1, BondComes
<1>8. PqBond'
  BY <1>p, <1>0, <1>1, <1>2, PqBondGoesOn
<1>9. H3Bond'
  <2>1. wallet[Holder3] \in Nat
    BY <1>0, MoneyTypes
  <2>2. wallet'[Holder3] >= wallet[Holder3] - Takes /\ wallet'[Holder3] \in Nat
    BY <1>1, <2>1 DEF Takes
  <2>. QED  BY <1>p, <1>0, <1>2, <2>2, H3BondGoesOn
<1>10. Bonds'
  BY <1>7, <1>8, <1>9 DEF Bonds
<1>. QED  BY <1>1, <1>2, <1>3, <1>5, <1>6, <1>10, OnwardsInv

\* What is noted are numbers.
LEMMA SnapTyped == ScriptTypes => snap \in [r : Nat, h3 : Nat, vault : Nat]
BY DEF ScriptTypes

\* A step that is not needed is skipped.
LEMMA SkipInv ==
  ASSUME Configured, ScriptInv, Skip
  PROVE  ScriptInv'
<1>0. ScriptTypes /\ Rows /\ Snaps
  BY InvMeans
<1>1. /\ ~Down /\ Onwards /\ Proceeds /\ ~Wanted /\ ~Now.always
      /\ UNCHANGED <<vars, script, run, tx, snap, failed, late>>
  BY Onward DEF Skip, Down, Wanted
<1>2. Quiet
  BY <1>1 DEF Quiet
<1>3. Now.op # "wait"
  BY <1>0, <1>1, Basics DEF Placed
<1>4. Snaps'
  <2>1. script = "matrix" => pc \notin Payments
    BY <1>0, <1>1, PaymentsWanted
  <2>. QED  BY <1>0, <1>1, <2>1, SnapsQuiet DEF vars
<1>5. snap' \in [r : Nat, h3 : Nat, vault : Nat]
  BY <1>0, <1>1, SnapTyped
<1>. QED  BY <1>1, <1>2, <1>3, <1>4, <1>5, QuietStep

\* The wait for the window.
LEMMA WaitInv ==
  ASSUME Configured, ScriptInv, WaitWindow
  PROVE  ScriptInv'
<1>0. ScriptTypes /\ Snaps
  BY InvMeans
<1>1. /\ ~Down /\ Onwards /\ Proceeds /\ Now.op = "wait" /\ head[Label(Now.l)].age >= Window
      /\ UNCHANGED <<vars, snap, failed, script, run, tx, late>>
  BY Onward DEF WaitWindow, Local_, Elsewhere, Down
<1>2. Quiet
  BY <1>1 DEF Quiet
<1>3. Snaps'
  <2>1. script = "matrix" => pc \notin Payments
    BY <1>0, <1>1, MatrixPays DEF Payments
  <2>. QED  BY <1>0, <1>1, <2>1, SnapsQuiet DEF vars
<1>4. snap' \in [r : Nat, h3 : Nat, vault : Nat]
  BY <1>0, <1>1, SnapTyped
<1>. QED  BY <1>1, <1>2, <1>3, <1>4, QuietStep

\* A record.
LEMMA RecordInv ==
  ASSUME Configured, ScriptInv, Record
  PROVE  ScriptInv'
<1>0. ScriptTypes /\ ProgInv /\ Rows /\ Chains /\ CapFits /\ Snaps
  BY InvMeans
<1>1. /\ ~Down /\ Onwards /\ Proceeds /\ Now.op = "check"
      /\ UNCHANGED <<vars, snap, script, run, tx, late>>
      /\ failed' = IF Holds(Now.tag) THEN failed ELSE failed \cup {Now.tag}
  BY Onward DEF Record, Local_, Elsewhere, Down
<1>2. Quiet
  BY <1>1 DEF Quiet
<1>3. Snaps'
  <2>1. script = "matrix" => pc \notin Payments
    BY <1>0, <1>1, MatrixPays DEF Payments
  <2>. QED  BY <1>0, <1>1, <2>1, SnapsQuiet DEF vars
<1>4. Holds(Now.tag)
  BY <1>0, <1>1, CheckHolds
<1>5. failed' = failed
  BY <1>1, <1>4
<1>6. snap' \in [r : Nat, h3 : Nat, vault : Nat]
  BY <1>0, <1>1, SnapTyped
<1>. QED  BY <1>1, <1>2, <1>3, <1>5, <1>6, QuietStep

\* Balances are noted.
LEMMA SnapshotInv ==
  ASSUME Configured, ScriptInv, Snapshot
  PROVE  ScriptInv'
<1>0. ScriptTypes /\ TypeOK /\ Snaps
  BY InvMeans
<1>1. /\ ~Down /\ Onwards /\ Proceeds /\ Now.op = "snap"
      /\ UNCHANGED <<vars, failed, script, run, tx, late>>
      /\ snap' = [r |-> wallet[Recipient], h3 |-> wallet[Holder3], vault |-> vault]
  BY Onward DEF Snapshot, Local_, Elsewhere, Down
<1>2. Quiet
  BY <1>1 DEF Quiet
<1>3. Snaps'
  BY <1>0, SnapsNoted
<1>4. snap' \in [r : Nat, h3 : Nat, vault : Nat]
  <2>1. wallet[Recipient] \in Nat /\ wallet[Holder3] \in Nat /\ vault \in Nat
    BY <1>0, MoneyTypes
  <2>. QED  BY <1>1, <2>1
<1>. QED  BY <1>1, <1>2, <1>3, <1>4, QuietStep

\* Only the wallets and the vault are given something.
LEMMA GiftInv ==
  ASSUME Configured, ScriptInv, ~Down, Onwards,
         UNCHANGED <<supply, fees, registry, head, sub, escrow, allowance, script, run, tx, late,
                     snap, failed>>,
         Now.op \in {"prefund", "topup", "bond", "reserve"},
         wallet' \in [Accounts -> Nat], vault' \in Nat, vault' >= vault,
         Room', M1Fits', PqBond', Snaps',
         Now.op = "bond" => wallet'[Now.w] >= 100,
         wallet'[Holder3] >= wallet[Holder3], Now.op = "prefund" => wallet'[Holder3] >= 1500
  PROVE  ScriptInv'
<1>0. ScriptTypes /\ ProgInv /\ TypeOK /\ H3Bond
  BY InvMeans
<1>1. ProgInv'
  BY <1>0, GiftStep
<1>p. Proceeds
  BY Onward
<1>2. BondReady'
  BY <1>p, <1>0, BondComes
<1>3. H3Bond'
  <2>1. wallet'[Holder3] \in Nat /\ wallet[Holder3] \in Nat
    BY <1>0, MoneyTypes
  <2>2. wallet'[Holder3] >= wallet[Holder3] - Takes
    BY <2>1 DEF Takes
  <2>. QED  BY <1>p, <1>0, <2>1, <2>2, H3BondGoesOn
<1>4. Bonds'
  BY <1>2, <1>3 DEF Bonds
<1>5. snap' \in [r : Nat, h3 : Nat, vault : Nat]
  BY <1>0, SnapTyped
<1>6. Now.op \notin Sends /\ Now.op # "wait"
  BY DEF Sends
<1>. QED  BY <1>1, <1>4, <1>5, <1>6, OnwardsInv

\* The steps before the last.
LEMMA GoesTo ==
  ASSUME ScriptTypes, ~Down, Proceeds, UNCHANGED <<script, run>>
  PROVE  /\ script = "matrix" /\ pc < 53 => Pos' = pc + 1
         /\ script = "pq" /\ pc < 14 => Pos' = pc + 1
         /\ script = "smoke" /\ pc < 9 => Pos' = pc + 1
         /\ Pos = pc /\ pc \in Nat /\ Placed(script, pc, Now) /\ Round' = Round
<1>1. Len(Script) = Ends(script) /\ pc \in Nat /\ Placed(script, pc, Now)
  BY Basics
<1>2. Pos' = NextPos(script, pc) /\ Round' = Round
  BY OnwardsTo
<1>. QED  BY <1>1, <1>2 DEF Ends, NextPos, Pos, Script

\* The room stays where supply, vault and allowances stay.
LEMMA NothingSpent ==
  ASSUME Configured, ScriptInv, ~Down, Proceeds, Now.op # "topup",
         UNCHANGED <<supply, vault, allowance, script, run, late>>
  PROVE  Room'
<1>0. ScriptTypes /\ TypeOK /\ LateOnes /\ Room
  BY InvMeans
<1>1. Shift(0, 0)
  BY <1>0, NoShift
<1>2. Spends
  BY <1>1 DEF Spends, Shift
<1>3. LateOnes'
  <2>1. Round' = Round
    BY <1>0, OnwardsTo
  <2>. QED  BY <1>0, <2>1, LateSame
<1>. QED  BY <1>0, <1>2, <1>3, RoomGoesOn

\* The wallets are prefunded.
LEMMA PrefundInv ==
  ASSUME Configured, ScriptInv, Prefund
  PROVE  ScriptInv'
<1>0. /\ ScriptTypes /\ TypeOK /\ PqBond /\ LateOnes /\ NothingThrows
  BY InvMeans
<1>1. /\ ~Down /\ Onwards /\ Proceeds /\ Now.op = "prefund"
      /\ wallet' = [w \in Accounts |-> Prefunded(w)]
      /\ UNCHANGED <<supply, vault, fees, registry, head, sub, escrow, allowance, snap, failed>>
      /\ UNCHANGED <<script, run, tx, late>>
  BY Onward DEF Prefund, Local_, Elsewhere, Down
<1>2. wallet \in [Accounts -> Nat] /\ vault \in Nat /\ Recipient \in Accounts /\ Holder3 \in Accounts
  BY <1>0, MoneyTypes
<1>3. Placed(script, pc, Now)
  BY <1>0, <1>1, GoesTo
<1>4. PrefundsAt(script, pc, Now)
  BY <1>1, <1>3 DEF Placed
<1>5. script \in {"matrix", "pq"} /\ pc = 1 /\ script # "smoke"
  BY <1>4 DEF PrefundsAt
<1>6. Pos' = 2
  BY <1>0, <1>1, <1>5, GoesTo
<1>7. \A w \in Accounts : Prefunded(w) \in Nat /\ Prefunded(w) >= wallet[w]
  BY <1>2 DEF Prefunded
<1>8. wallet' \in [Accounts -> Nat]
  BY <1>1, <1>7
<1>9. /\ wallet'[Recipient] \in Nat /\ wallet'[Recipient] >= 1500
      /\ wallet'[Holder3] \in Nat /\ wallet'[Holder3] >= 1500 /\ wallet'[Holder3] >= wallet[Holder3]
  BY <1>1, <1>2 DEF Prefunded
<1>10. Room'
  BY <1>1, NothingSpent
<1>11. M1Fits'
  BY <1>1, <1>5 DEF M1Fits
<1>12. PqBond'
  BY <1>0, <1>1, <1>5, <1>9, PqBondGoesOn
<1>13. Snaps'
  BY <1>6, SnapsElsewhere
<1>. QED  BY <1>1, <1>2, <1>8, <1>9, <1>10, <1>11, <1>12, <1>13, GiftInv

\* The vault is topped up.
LEMMA TopUpInv ==
  ASSUME Configured, ScriptInv, TopUp
  PROVE  ScriptInv'
<1>0. /\ ScriptTypes /\ TypeOK /\ PqBond /\ LateOnes /\ Room /\ NothingThrows
  BY InvMeans
<1>1. /\ ~Down /\ Onwards /\ Proceeds /\ Now.op = "topup" /\ vault' = Topped
      /\ UNCHANGED <<supply, fees, wallet, registry, head, sub, escrow, allowance, snap, failed>>
      /\ UNCHANGED <<script, run, tx, late>>
  BY Onward DEF TopUp, Local_, Elsewhere, Down
<1>2. /\ wallet \in [Accounts -> Nat] /\ vault \in Nat /\ supply \in Nat
      /\ Recipient \in Accounts /\ Holder3 \in Accounts
  BY <1>0, MoneyTypes
<1>3. Placed(script, pc, Now) /\ Pos = pc
  BY <1>0, <1>1, GoesTo
<1>4. TopsAt(script, pc, Now)
  BY <1>1, <1>3 DEF Placed
<1>5. script \in {"matrix", "pq"} /\ pc = 2 /\ script # "smoke"
  BY <1>4 DEF TopsAt
<1>6. Pos' = 3 /\ Round' = Round
  BY <1>0, <1>1, <1>5, GoesTo
<1>7. vault' \in Nat /\ vault' >= supply + 700 /\ vault' >= vault
  BY <1>1, <1>2 DEF Topped
<1>8. Room'
  BY <1>0, <1>1, <1>3, <1>5, <1>6, <1>7, RoomTopped
<1>9. M1Fits'
  BY <1>1, <1>5 DEF M1Fits
<1>10. PqBond'
  BY <1>0, <1>1, PqBondGoesOn
<1>11. Snaps'
  BY <1>6, SnapsElsewhere
<1>12. wallet'[Holder3] >= wallet[Holder3]
  BY <1>1, <1>2
<1>. QED  BY <1>1, <1>2, <1>7, <1>8, <1>9, <1>10, <1>11, <1>12, GiftInv

\* The third holder is never short of a bond.
LEMMA BondInv ==
  ASSUME Configured, ScriptInv, EnsureBond
  PROVE  ScriptInv'
<1>0. /\ ScriptTypes /\ TypeOK /\ PqBond /\ H3Bond /\ M1Fits /\ LateOnes /\ NothingThrows
  BY InvMeans
<1>1. /\ ~Down /\ Onwards /\ Proceeds /\ Now.op = "bond" /\ Needed(Now)
      /\ wallet' = [wallet EXCEPT ![Now.w] = @ + Now.n]
      /\ UNCHANGED <<supply, vault, fees, registry, head, sub, escrow, allowance, snap, failed>>
      /\ UNCHANGED <<script, run, tx, late>>
  BY Onward DEF EnsureBond, MintTo, Local_, Elsewhere, Down
<1>2. /\ wallet \in [Accounts -> Nat] /\ vault \in Nat
      /\ Recipient \in Accounts /\ Holder3 \in Accounts
  BY <1>0, MoneyTypes
<1>3. Placed(script, pc, Now) /\ Pos = pc /\ pc \in Nat
  BY <1>0, <1>1, GoesTo
<1>4. BondsAt(script, pc, Now)
  BY <1>1, <1>3 DEF Placed
<1>5. Now.w \in Accounts /\ Now.n \in {500, 600}
  BY <1>2, <1>4 DEF BondsAt, Value
<1>6. wallet[Now.w] < 150
  BY <1>1 DEF Needed, Value
<1>7. ~(script = "matrix" /\ pc \in {22, 34})
  <2>1. ASSUME script = "matrix", pc \in {22, 34} PROVE FALSE
    <3>1. Now.w = Holder3
      BY <1>0, <2>1, MatrixPays
    <3>2. wallet[Holder3] >= 1400
      BY <1>0, <1>2, <1>3, <2>1 DEF H3Bond
    <3>. QED  BY <1>2, <1>6, <3>1, <3>2
  <2>. QED  BY <2>1
<1>8. \/ script = "matrix" /\ pc \in {7, 11, 16, 29, 44}
      \/ script = "smoke" /\ pc = 4
  BY <1>4, <1>7 DEF BondsAt
<1>9. script = "matrix" => Pos' \in {8, 12, 17, 30, 45}
  BY <1>0, <1>1, <1>8, GoesTo
<1>10. /\ wallet' \in [Accounts -> Nat] /\ wallet'[Now.w] >= 100
       /\ wallet'[Holder3] >= wallet[Holder3]
  BY <1>1, <1>2, <1>5
<1>11. Room'
  BY <1>1, NothingSpent
<1>12. M1Fits'
  BY <1>0, <1>1, <1>8, M1GoesOn
<1>13. PqBond'
  BY <1>1, <1>8 DEF PqBond
<1>14. Snaps'
  BY <1>1, <1>9, SnapsElsewhere
<1>. QED  BY <1>1, <1>2, <1>10, <1>11, <1>12, <1>13, <1>14, GiftInv

\* The authority of the smoke test gets what the vault lacks.
LEMMA ReserveInv ==
  ASSUME Configured, ScriptInv, Reserve
  PROVE  ScriptInv'
<1>0. /\ ScriptTypes /\ TypeOK /\ M1Fits
  BY InvMeans
<1>1. /\ ~Down /\ Onwards /\ Proceeds /\ Now.op = "reserve" /\ Needed(Now)
      /\ wallet' = [wallet EXCEPT ![Now.w] = @ + (Now.n - vault)]
      /\ UNCHANGED <<supply, vault, fees, registry, head, sub, escrow, allowance, snap, failed>>
      /\ UNCHANGED <<script, run, tx, late>>
  BY Onward DEF Reserve, MintTo, Local_, Elsewhere, Down
<1>2. M1Fits' /\ script = "smoke" /\ pc = 1
  BY <1>0, M1Reserved
<1>3. /\ wallet \in [Accounts -> Nat] /\ vault \in Nat /\ Holder3 \in Accounts
      /\ MintAuthority \in Accounts
  BY <1>0, MoneyTypes
<1>4. Now.w = MintAuthority /\ Now.n = 1000
  BY <1>0, <1>2, M1Steps
<1>5. vault < 1000
  BY <1>1, <1>4 DEF Needed
<1>6. wallet' \in [Accounts -> Nat] /\ wallet'[Holder3] >= wallet[Holder3]
  BY <1>1, <1>3, <1>4, <1>5
<1>7. Room' /\ PqBond' /\ Snaps'
  BY <1>1, <1>2 DEF Room, PqBond, Snaps
<1>. QED  BY <1>1, <1>2, <1>3, <1>6, <1>7, GiftInv

-----------------------------------------------------------------------------
(* Steps that stay where the script is.                                      *)

\* The step is the same as before, its coin and the vault are left alone.
LEMMA TxSame ==
  ASSUME UNCHANGED <<script, run, pc>>, NEW x, x = Label(Now.l), Now.op \in Sends,
         registry'[x] = registry[x], sub'[x] = sub[x], Now.op = "fund" => vault' = vault
  PROVE  TxOf(Now)' = TxOf(Now) /\ (Wanted' <=> Wanted)
<1>1. Now' = Now /\ Label(Now.l)' = Label(Now.l)
  BY DEF Now, Script, Label
<1>2. Sub(Now)' = Sub(Now)
  BY <1>1 DEF Sub
<1>3. BatchTo(Now)' = BatchTo(Now)
  BY <1>1, <1>2 DEF BatchTo
<1>4. (Now.n - vault)' = Now.n - vault \/ Now.op # "fund"
  BY <1>1
<1>5. TxOf(Now)' = TxOf(Now)
  BY <1>1, <1>2, <1>3, <1>4 DEF TxOf
<1>6. Needed(Now)' <=> Needed(Now)
  <2>1. Now.op \notin {"bond", "reserve"}
    BY DEF Sends
  <2>. QED  BY <1>1, <1>2, <2>1 DEF Needed
<1>. QED  BY <1>1, <1>5, <1>6 DEF Wanted

\* A transaction in flight stays needed where its coin stays.
LEMMA FlyingStays ==
  ASSUME Flying, UNCHANGED <<script, run, pc, phase, tx>>, NEW x, x = Label(Now.l),
         phase = "flying" => /\ registry'[x] = registry[x] /\ sub'[x] = sub[x]
                             /\ Now.op = "fund" => vault' = vault
  PROVE  Flying'
<1>. SUFFICES ASSUME phase = "flying" PROVE Flying'
  BY DEF Flying
<1>1. Now.op \in Sends /\ tx = TxOf(Now) /\ Wanted
  BY DEF Flying
<1>2. TxOf(Now)' = TxOf(Now) /\ (Wanted' <=> Wanted)
  BY <1>1, TxSame
<1>3. Now' = Now
  BY DEF Now, Script
<1>. QED  BY <1>1, <1>2, <1>3 DEF Flying

\* So does one that is sent once more, where its coin stays and what else it changed.
LEMMA RepeatingStays ==
  ASSUME Repeating, UNCHANGED <<script, tx>>, late' \subseteq late,
         phase' \in {"again", "twice"} => phase \in {"again", "twice"},
         phase' = "again" => phase = "again" /\ pc' = pc,
         NEW x, x = tx.sn,
         phase \in {"again", "twice"} =>
           /\ registry'[x] = registry[x] /\ sub'[x] = sub[x]
           /\ tx.op = "cap" => allowance' = allowance
           /\ tx.op = "fund" => vault' = vault
  PROVE  Repeating' /\ (phase \in {"again", "twice"} => Landed(tx)')
<1>. SUFFICES ASSUME phase \in {"again", "twice"} PROVE Repeating' /\ Landed(tx)'
  BY DEF Repeating
<1>1. /\ script \in Unsure /\ Sent(tx) /\ Landed(tx) /\ Beyond(tx)
      /\ tx.tag \in {"none", "E8a"}
      /\ script = "pq" => tx.op \notin {"cap", "fund"}
      /\ \A t \in late : t.sn # tx.sn
      /\ tx.op = "fund" => script = "smoke" /\ (phase = "again" => pc = 3)
  BY DEF Repeating
<1>2. sub'[tx.sn] = sub[tx.sn] /\ registry'[tx.sn] = registry[tx.sn] /\ tx' = tx
  OBVIOUS
<1>3. Sent(tx)'
  BY <1>1, <1>2 DEF Sent
<1>4. Beyond(tx)'
  BY <1>1, <1>2 DEF Beyond, LastState
<1>5. Landed(tx)'
  <2>1. tx.op \in Sends
    BY <1>1 DEF Sent
  <2>2. CASE tx.op = "mint"
    BY <1>1, <1>2, <2>2 DEF Landed
  <2>3. CASE tx.op = "start"
    BY <1>1, <1>2, <2>3 DEF Landed
  <2>4. CASE tx.op = "append"
    BY <1>1, <1>2, <2>4 DEF Landed, LastState
  <2>5. CASE tx.op \in {"finalizeA", "finalizeB", "finalizeM1"}
    BY <1>1, <1>2, <2>5 DEF Landed
  <2>6. CASE tx.op = "settle"
    BY <1>1, <1>2, <2>6 DEF Landed
  <2>7. CASE tx.op = "fund"
    BY <1>1, <1>2, <2>7 DEF Landed
  <2>8. CASE tx.op = "cap"
    BY <1>1, <1>2, <2>8 DEF Landed
  <2>9. CASE tx.op = "verify"
    BY <1>1, <1>2, <2>9 DEF Landed, CommitIs
  <2>. QED  BY <2>1, <2>2, <2>3, <2>4, <2>5, <2>6, <2>7, <2>8, <2>9 DEF Sends
<1>6. \A t \in late' : t.sn # tx'.sn
  BY <1>1, <1>2
<1>. QED  BY <1>1, <1>2, <1>3, <1>4, <1>5, <1>6 DEF Repeating

Phases == {"at", "flying", "again", "dead", "threw", "twice", "done"}

\* The program goes on, or a transaction of an earlier run is lost, and the coins,
\* the wallets and the vault stay as they are.
LEMMA StillInv ==
  ASSUME Configured, ScriptInv, UNCHANGED <<script, run, pc, snap>>, Down' <=> Down,
         UNCHANGED <<supply, vault, wallet, registry, sub, allowance>>, ProgInv', Waited',
         phase' \in Phases, phase' \in {"again", "dead", "twice"} => run < Runs,
         RecordsHold', NothingThrows', Flying', Repeating', LateOnes', Cardinality(late') <= Cardinality(late), Cardinality(late') \in Nat
  PROVE  ScriptInv'
<1>0. /\ ScriptTypes /\ ProgInv /\ TypeOK /\ Rows /\ Chains /\ Later /\ LateOnes
      /\ Room /\ CapFits /\ M1Fits /\ BondReady /\ PqBond /\ H3Bond /\ Snaps
  BY InvMeans
<1>1. Pos' = Pos /\ Round' = Round
  BY DEF Pos, Round
<1>2. ScriptTypes'
  BY <1>0 DEF ScriptTypes, Runs, Phases
<1>3. Rows' /\ Chains' /\ Later'
  BY <1>0, <1>1, StayRows, LaterStays
<1>4. Room'
  <2>1. Shift(0, 0)
    BY <1>0, NoShift
  <2>. QED  BY <1>0, <1>1, <2>1, RoomStays DEF Shift
<1>5. CapFits'
  BY <1>0, <1>1, CapStays
<1>6. M1Fits'
  BY <1>0, <1>1, M1Same
<1>7. Bonds'
  <2>1. BondReady'
    BY <1>0, BondStays
  <2>2. PqBond'
    <3>1. Cardinality(late) \in Nat
      BY <1>0, FS_CardinalityType DEF LateOnes
    <3>. QED  BY <1>0, <1>1, <3>1, PqBondStays
  <2>3. H3Bond'
    BY <1>0, <1>1, H3BondStays
  <2>. QED  BY <2>1, <2>2, <2>3 DEF Bonds
<1>8. Snaps'
  BY <1>0, <1>1, SnapsStay
<1>. QED  BY <1>2, <1>3, <1>4, <1>5, <1>6, <1>7, <1>8, InvIs

\* There are finitely many late transactions.
LEMMA LateNat ==
  ASSUME LateOnes
  PROVE  Cardinality(late) \in Nat
BY FS_CardinalityType DEF LateOnes

\* A window that was over stays over while heads only get older.
LEMMA WaitQuiet ==
  ASSUME ScriptInv, UNCHANGED <<script, run, pc>>, Down' <=> Down,
         \A x \in Serials : head'[x].age \in Nat /\ head'[x].age >= head[x].age
  PROVE  Waited'
<1>0. ScriptTypes /\ TypeOK /\ Waited /\ Rows
  BY InvMeans
<1>1. ASSUME Now.op = "settle", ~Down
      PROVE  /\ head'[Label(Now.l)].age >= head[Label(Now.l)].age /\ head'[Label(Now.l)].age \in Nat
             /\ head[Label(Now.l)].age \in Nat /\ Window \in Nat
  <2>1. Label(Now.l) \in Serials
    BY <1>0, <1>1, NowCoin DEF Moves
  <2>. QED  BY <1>0, <2>1, AgeNat
<1>. QED  BY <1>0, <1>1, WaitStays

\* A transaction is sent.
LEMMA SendInv ==
  ASSUME Configured, ScriptInv, SendTx
  PROVE  ScriptInv'
<1>0. ScriptTypes /\ ProgInv /\ TypeOK /\ LateOnes /\ RecordsHold
  BY InvMeans
<1>1. /\ phase = "at" /\ phase' = "flying" /\ tx' = TxOf(Now) /\ Now.op \in Sends /\ Wanted
      /\ UNCHANGED <<vars, script, run, pc, snap, failed, late>>
      /\ Down' <=> Down
  BY DEF SendTx, Wanted, Down
<1>2. UNCHANGED <<supply, vault, fees, wallet, registry, head, sub, escrow, allowance>>
  BY <1>1 DEF vars
<1>3. ProgInv'
  BY <1>0, <1>1, SameProgram
<1>4. Waited'
  <2>1. \A x \in Serials : head'[x].age \in Nat /\ head'[x].age >= head[x].age
    <3>. SUFFICES ASSUME NEW x \in Serials
                  PROVE  head'[x].age \in Nat /\ head'[x].age >= head[x].age
      OBVIOUS
    <3>1. head[x].age \in Nat
      BY <1>0, AgeNat
    <3>. QED  BY <1>2, <3>1
  <2>. QED  BY <1>1, <2>1, WaitQuiet
<1>5. Flying'
  <2>. PICK x : x = Label(Now.l)
    OBVIOUS
  <2>1. TxOf(Now)' = TxOf(Now) /\ (Wanted' <=> Wanted)
    BY <1>1, <1>2, TxSame
  <2>2. Now' = Now
    BY <1>1 DEF Now, Script
  <2>. QED  BY <1>1, <2>1, <2>2 DEF Flying
<1>6. LateOnes' /\ Cardinality(late') <= Cardinality(late) /\ Cardinality(late') \in Nat
  <2>1. Round' = Round
    BY <1>1 DEF Round
  <2>2. Cardinality(late) \in Nat
    BY <1>0, LateNat
  <2>. QED  BY <1>0, <1>1, <2>1, <2>2, LateSame
<1>7. RecordsHold' /\ NothingThrows' /\ Repeating'
  BY <1>0, <1>1 DEF RecordsHold, NothingThrows, Repeating
<1>8. phase' \in Phases /\ ~(phase' \in {"again", "dead", "twice"})
  BY <1>1 DEF Phases
<1>. QED  BY <1>1, <1>2, <1>3, <1>4, <1>5, <1>6, <1>7, <1>8, StillInv

\* A late transaction is lost.
LEMMA LostInv ==
  ASSUME Configured, ScriptInv, LateLost
  PROVE  ScriptInv'
<1>0. /\ ScriptTypes /\ ProgInv /\ TypeOK /\ LateOnes /\ Flying /\ Repeating
      /\ RecordsHold /\ NothingThrows
  BY InvMeans
<1>1. /\ UNCHANGED <<vars, script, run, pc, phase, tx, snap, failed>>
      /\ Down' <=> Down
  BY DEF LateLost, Down
<1>. PICK t \in late : late' = late \ {t}
  BY DEF LateLost
<1>2. UNCHANGED <<supply, vault, fees, wallet, registry, head, sub, escrow, allowance>>
  BY <1>1 DEF vars
<1>3. ProgInv'
  BY <1>0, <1>1, SameProgram
<1>4. Waited'
  <2>1. \A x \in Serials : head'[x].age \in Nat /\ head'[x].age >= head[x].age
    <3>. SUFFICES ASSUME NEW x \in Serials
                  PROVE  head'[x].age \in Nat /\ head'[x].age >= head[x].age
      OBVIOUS
    <3>1. head[x].age \in Nat
      BY <1>0, AgeNat
    <3>. QED  BY <1>2, <3>1
  <2>. QED  BY <1>1, <2>1, WaitQuiet
<1>5. Flying'
  <2>. PICK x : x = Label(Now.l)
    OBVIOUS
  <2>. QED  BY <1>0, <1>1, <1>2, FlyingStays
<1>6. LateOnes' /\ Cardinality(late') <= Cardinality(late) /\ Cardinality(late') \in Nat
  <2>1. Round' = Round
    BY <1>1 DEF Round
  <2>2. LateOnes' /\ Cardinality(late') = Cardinality(late) - 1 /\ Cardinality(late) \in Nat
    BY <1>0, <1>1, <2>1, LateFewer
  <2>3. Cardinality(late') \in Nat
    BY <2>2, FS_CardinalityType DEF LateOnes
  <2>. QED  BY <2>2, <2>3
<1>7. phase' \in Phases /\ (phase' \in {"again", "dead", "twice"} => run < Runs)
  BY <1>0, <1>1 DEF ScriptTypes, Phases
<1>8. Repeating' /\ (phase = "twice" => Landed(tx)')
  <2>. PICK x : x = tx.sn
    OBVIOUS
  <2>1. late' \subseteq late
    BY <1>1
  <2>. QED  BY <1>0, <1>1, <1>2, <2>1, RepeatingStays
<1>9. RecordsHold' /\ NothingThrows'
  <2>1. (phase = "twice")' => Landed(tx)'
    BY <1>1, <1>8
  <2>2. (phase = "threw")' => Paid'
    BY <1>0, <1>1, <1>2 DEF NothingThrows, Paid, Spent, Label
  <2>. QED  BY <1>0, <1>1, <2>1, <2>2 DEF RecordsHold, NothingThrows
<1>. QED  BY <1>1, <1>2, <1>3, <1>4, <1>5, <1>6, <1>7, <1>8, <1>9, StillInv

\* A slot passes.
LEMMA PassInv ==
  ASSUME Configured, ScriptInv, Pass
  PROVE  ScriptInv'
<1>0. /\ ScriptTypes /\ ProgInv /\ TypeOK /\ LateOnes /\ Flying /\ Repeating
      /\ RecordsHold /\ NothingThrows
  BY InvMeans
<1>1. /\ Tick /\ UNCHANGED <<script, run, pc, phase, tx, snap, failed, late>>
      /\ Down' <=> Down
  BY DEF Pass, scriptVars, Down
<1>2. UNCHANGED <<supply, vault, fees, wallet, registry, sub, escrow, allowance>>
  BY <1>1 DEF Tick
<1>3. ProgInv'
  BY <1>0, <1>1, TickStep
<1>4. Waited'
  <2>1. \A x \in Serials : head'[x].age \in Nat /\ head'[x].age >= head[x].age
    <3>. SUFFICES ASSUME NEW x \in Serials
                  PROVE  head'[x].age \in Nat /\ head'[x].age >= head[x].age
      OBVIOUS
    <3>1. head[x].age \in Nat
      BY <1>0, AgeNat
    <3>2. head \in [Serials -> Heads]
      BY <1>0 DEF TypeOK, AccountTypes
    <3>3. head'[x] = IF head[x].set /\ head[x].age < MaxAge
                     THEN [head[x] EXCEPT !.age = @ + 1] ELSE head[x]
      BY <1>1 DEF Tick
    <3>4. head'[x].age = head[x].age + 1 \/ head'[x].age = head[x].age
      BY <3>2, <3>3 DEF Heads
    <3>. QED  BY <3>1, <3>4
  <2>. QED  BY <1>1, <2>1, WaitQuiet
<1>5. Flying'
  <2>. PICK x : x = Label(Now.l)
    OBVIOUS
  <2>. QED  BY <1>0, <1>1, <1>2, FlyingStays
<1>6. LateOnes' /\ Cardinality(late') <= Cardinality(late) /\ Cardinality(late') \in Nat
  <2>1. Round' = Round
    BY <1>1 DEF Round
  <2>2. Cardinality(late) \in Nat
    BY <1>0, LateNat
  <2>. QED  BY <1>0, <1>1, <2>1, <2>2, LateSame
<1>7. phase' \in Phases /\ (phase' \in {"again", "dead", "twice"} => run < Runs)
  BY <1>0, <1>1 DEF ScriptTypes, Phases
<1>8. Repeating' /\ (phase = "twice" => Landed(tx)')
  <2>. PICK x : x = tx.sn
    OBVIOUS
  <2>1. late' \subseteq late
    BY <1>1
  <2>. QED  BY <1>0, <1>1, <1>2, <2>1, RepeatingStays
<1>9. RecordsHold' /\ NothingThrows'
  <2>1. (phase = "twice")' => Landed(tx)'
    BY <1>1, <1>8
  <2>2. (phase = "threw")' => Paid'
    BY <1>0, <1>1, <1>2 DEF NothingThrows, Paid, Spent, Label
  <2>. QED  BY <1>0, <1>1, <2>1, <2>2 DEF RecordsHold, NothingThrows
<1>. QED  BY <1>1, <1>2, <1>3, <1>4, <1>5, <1>6, <1>7, <1>8, <1>9, StillInv

-----------------------------------------------------------------------------
(* A run ends early, another one begins, a late transaction lands.           *)

\* A run ends early: it is as good as the next one, not begun yet.
LEMMA EarlyInv ==
  ASSUME Configured, ScriptInv, ~Down, phase' \in {"dead", "threw", "twice"},
         UNCHANGED <<vars, script, run, pc, snap, failed>>,
         run <= MaxRuns \/ script = "smoke", phase' # "threw" => run < Runs,
         NothingThrows', Repeating', LateOnes',
         Cardinality(late') <= Cardinality(late) + 1, script # "pq" => late' = late
  PROVE  ScriptInv'
<1>0. /\ ScriptTypes /\ ProgInv /\ TypeOK /\ Rows /\ Chains /\ Later /\ LateOnes
      /\ Room /\ CapFits /\ M1Fits /\ H3Bond /\ Snaps /\ RecordsHold
  BY InvMeans
<1>1. UNCHANGED <<supply, vault, fees, wallet, registry, head, sub, escrow, allowance>>
  BY DEF vars
<1>2. Down' /\ Pos' = 1 /\ Round' = Round + 1
  BY DEF Down, Pos, Round
<1>3. ScriptTypes'
  BY <1>0 DEF ScriptTypes, Runs
<1>4. Rows' /\ Chains' /\ Later'
  BY <1>0, <1>1, <1>2, EarlyRows
<1>5. ProgInv'
  BY <1>0, SameProgram
<1>6. Room'
  BY <1>0, <1>1, <1>2, <1>3, RoomEarly
<1>7. CapFits'
  BY <1>0, <1>1, <1>2, CapStays
<1>8. M1Fits'
  BY <1>0, <1>1, <1>2, M1Same
<1>9. Bonds'
  <2>1. H3Bond'
    BY <1>0, <1>1, <1>2, H3BondStays
  <2>2. BondReady' /\ PqBond'
    BY <1>2 DEF BondReady, PqBond
  <2>. QED  BY <2>1, <2>2 DEF Bonds
<1>10. Snaps'
  BY <1>0, <1>1, <1>2, SnapsStay
<1>11. Waited' /\ Flying' /\ RecordsHold'
  BY <1>0, <1>2 DEF Waited, Flying, RecordsHold
<1>. QED  BY <1>3, <1>4, <1>5, <1>6, <1>7, <1>8, <1>9, <1>10, <1>11, InvIs

\* The process is killed.
LEMMA CrashInv ==
  ASSUME Configured, ScriptInv, Crash
  PROVE  ScriptInv'
<1>0. ScriptTypes /\ ProgInv /\ Rows /\ LateOnes /\ Flying
  BY InvMeans
<1>1. /\ ~Down /\ phase' = "dead" /\ run < Runs
      /\ UNCHANGED <<vars, script, run, pc, snap, failed>>
  BY DEF Crash, Down
<1>2. /\ LateOnes' /\ Cardinality(late) \in Nat /\ Cardinality(late') \in Nat
      /\ Cardinality(late') <= Cardinality(late) + 1
      /\ (script # "pq" => late' = late)
  BY <1>0, <1>1, LateMore
<1>3. run <= MaxRuns
  BY <1>0, <1>1, Basics
<1>4. NothingThrows' /\ Repeating'
  BY <1>1 DEF NothingThrows, Repeating
<1>. QED  BY <1>1, <1>2, <1>3, <1>4, EarlyInv

\* A transaction fails: an expected one is passed over, of the others only the
\* last finalize of the smoke test fails.
LEMMA FailsInv ==
  ASSUME Configured, ScriptInv, Fails
  PROVE  ScriptInv'
<1>0. /\ ScriptTypes /\ ProgInv /\ Rows /\ Chains /\ LateOnes /\ Flying /\ Snaps
      /\ Balances /\ NothingThrows
  BY InvMeans DEF ScriptInv
<1>1. /\ ~Down /\ phase = "flying" /\ ~Simulates(tx)
      /\ IF tx.tag # "none" THEN Refusal(tx) /\ Onwards
         ELSE phase' = "threw" /\ pc' = pc /\ failed' = failed
      /\ UNCHANGED <<vars, script, run, snap, late>>
  BY DEF Fails, Down
<1>2. Now.op \in Sends /\ tx = TxOf(Now) /\ Wanted
  BY <1>0, <1>1 DEF Flying
<1>t. tx.tag = Now.tag
  BY <1>2, TxFields
<1>r. Ready
  BY <1>0, <1>1, <1>2 DEF Ready, Sending
<1>3. CASE Now.tag # "none"
  <2>0. Onwards /\ failed' = failed /\ Proceeds
    <3>1. Expected(TxOf(Now))
      BY <1>1, <1>2, <1>3, <1>r, RefusedRightly
    <3>2. Expected(tx)
      BY <1>2, <3>1
    <3>. QED  BY <1>1, <1>3, <1>t, <3>2, Onward DEF Refusal
  <2>1. Quiet /\ Now.op # "wait"
    BY <1>2, <1>3 DEF Quiet, Sends
  <2>2. Snaps'
    <3>1. script = "matrix" => pc \notin Payments
      <4>1. ASSUME script = "matrix", pc \in Payments PROVE FALSE
        <5>1. pc \in {21, 33} \/ pc \in {23, 25, 35, 37, 40}
          BY <4>1 DEF Payments
        <5>2. pc \in {21, 33} => Now.op = "snap"
          BY <1>0, <4>1, MatrixPays
        <5>3. pc \in {23, 25, 35, 37, 40} => Now.tag = "none"
          BY <1>0, <4>1, MatrixPays
        <5>. QED  BY <1>2, <1>3, <5>1, <5>2, <5>3 DEF Sends
      <4>. QED  BY <4>1
    <3>. QED  BY <1>0, <1>1, <2>0, <3>1, SnapsQuiet DEF vars
  <2>3. snap' \in [r : Nat, h3 : Nat, vault : Nat]
    BY <1>0, <1>1, SnapTyped
  <2>. QED  BY <1>1, <2>0, <2>1, <2>2, <2>3, QuietStep
<1>4. CASE Now.tag = "none"
  <2>2. Paid
    BY <1>1, <1>2, <1>4, <1>r, AllWorks
  <2>3. script = "smoke" /\ phase' = "threw" /\ pc' = pc /\ failed' = failed
    BY <1>1, <1>4, <1>t, <2>2 DEF Paid
  <2>4. NothingThrows' /\ Repeating'
    BY <1>1, <2>2, <2>3 DEF NothingThrows, Paid, Spent, Label, vars, Repeating
  <2>5. LateOnes'
    <3>1. late = {}
      BY <1>0, <2>3 DEF LateOnes
    <3>2. Round' \in Nat /\ Round' >= 1
      BY <1>0, <1>1, <2>3, Basics DEF Round, Down
    <3>3. late' = {} /\ IsFiniteSet({}) /\ Cardinality({}) = 0
      BY <1>1, <3>1, FS_EmptySet
    <3>. QED  BY <3>2, <3>3 DEF LateOnes
  <2>6. Cardinality(late') <= Cardinality(late) + 1
    <3>1. Cardinality(late) \in Nat
      BY <1>0, LateNat
    <3>. QED  BY <1>1, <3>1
  <2>. QED  BY <1>1, <2>3, <2>4, <2>5, <2>6, EarlyInv
<1>. QED  BY <1>3, <1>4

\* The script is started again.
LEMMA RerunInv ==
  ASSUME Configured, ScriptInv, Rerun
  PROVE  ScriptInv'
<1>0. /\ ScriptTypes /\ ProgInv /\ TypeOK /\ Rows /\ Chains /\ Later /\ LateOnes
      /\ Room /\ CapFits /\ M1Fits /\ PqBond /\ H3Bond /\ Snaps /\ RecordsHold
  BY InvMeans
<1>1. /\ run < Runs /\ run' = run + 1 /\ pc' = 1 /\ phase' = "at"
      /\ UNCHANGED <<vars, script, snap, failed, late>> /\ Down
  BY DEF Rerun, Down
<1>2. UNCHANGED <<supply, vault, fees, wallet, registry, head, sub, escrow, allowance>>
  BY <1>1 DEF vars
<1>3. Rows' /\ Chains' /\ Later' /\ Pos' = 1 /\ Pos = 1 /\ Round' = Round
  BY <1>0, RerunRows
<1>4. ScriptTypes'
  <2>1. 1 \in Positions(script)
    BY <1>0, <1>3, Basics
  <2>2. run + 1 \in 1..Runs
    BY <1>0, <1>1, Basics
  <2>. QED  BY <1>0, <1>1, <2>1, <2>2 DEF ScriptTypes, Runs
<1>5. ProgInv'
  BY <1>0, <1>1, SameProgram
<1>6. LateOnes' /\ Cardinality(late) \in Nat
  BY <1>0, <1>1, <1>3, LateSame, LateNat
<1>7. Room'
  <2>1. Shift(0, 0)
    BY <1>0, <1>2, NoShift
  <2>2. Cardinality(late') <= Cardinality(late)
    BY <1>1, <1>6
  <2>. QED  BY <1>0, <1>1, <1>3, <1>6, <2>1, <2>2, RoomStays DEF Shift
<1>8. CapFits'
  BY <1>0, <1>1, <1>2, <1>3, CapStays
<1>9. M1Fits'
  BY <1>0, <1>1, <1>2, <1>3, M1Same
<1>10. Bonds'
  <2>1. H3Bond'
    BY <1>0, <1>1, <1>2, <1>3, H3BondStays
  <2>2. BondReady'
    BY <1>0, <1>1, BondFirst
  <2>3. PqBond'
    BY <1>3 DEF PqBond
  <2>. QED  BY <2>1, <2>2, <2>3 DEF Bonds
<1>11. Snaps'
  BY <1>0, <1>1, <1>2, <1>3, SnapsStay
<1>12. Waited'
  BY <1>0, <1>1, WaitFirst
<1>13. Flying' /\ RecordsHold' /\ NothingThrows' /\ Repeating'
  BY <1>0, <1>1 DEF Flying, RecordsHold, NothingThrows, Repeating
<1>. QED  BY <1>3, <1>4, <1>5, <1>6, <1>7, <1>8, <1>9, <1>10, <1>11, <1>12, <1>13, InvIs

\* A transaction of a dead run lands.
LEMMA LateLandInv ==
  ASSUME Configured, ScriptInv, LateLand
  PROVE  ScriptInv'
<1>0. /\ ScriptTypes /\ ProgInv /\ TypeOK /\ Rows /\ Chains /\ Later /\ LateOnes /\ Flying
      /\ Repeating
      /\ Room /\ CapFits /\ PqBond /\ RecordsHold /\ NothingThrows
  BY InvMeans
<1>1. /\ UNCHANGED <<script, run, pc, phase, tx, snap, failed>>
      /\ Down' <=> Down
  BY DEF LateLand, Down
<1>. PICK t \in late : Exec(t) /\ late' = late \ {t}
  BY DEF LateLand
<1>2. Pos' = Pos /\ Round' = Round
  BY <1>1 DEF Pos, Round, Down
<1>3. /\ script = "pq" /\ Sent(t) /\ t.op \in Moves /\ t.sn \in {"pq"} \X (1..Round - 1)
      /\ t.op = "start" => t.w = Recipient
  BY <1>0 DEF LateOnes
<1>4. ScriptTypes'
  BY <1>0, <1>1 DEF ScriptTypes, Runs
<1>5. ProgInv'
  BY <1>0, <1>3, ExecStep
<1>6. Rows' /\ Chains' /\ Later'
  <2>1. Round <= MaxRuns + 1
    BY <1>0, <1>3, RoundBound
  <2>. QED  BY <1>0, <1>1, <2>1, LateRows
<1>7. /\ LateOnes' /\ Cardinality(late') = Cardinality(late) - 1 /\ Cardinality(late) \in Nat
  BY <1>0, <1>1, <1>2, LateFewer
<1>8. /\ t.op = "mint" => Shift(100, 0)
      /\ t.op # "mint" => Shift(0, 0) \/ Shift(-100, -100)
      /\ Opened' <=> (Opened \/ t.op = "mint")
      /\ t.op = "start" => wallet[t.w] >= 100
      /\ wallet' \in [Accounts -> Nat]
      /\ \A w \in Accounts : wallet'[w] >= wallet[w] - Pays(t, w)
  BY <1>0, <1>3, ExecMoney
<1>9. Room'
  <2>1. Sums(0, 0) \/ Sums(-100, -100) \/ Sums(100, 0)
    BY <1>8 DEF Shift
  <2>. QED  BY <1>0, <1>1, <1>2, <1>7, <2>1, RoomLate
<1>10. CapFits'
  <2>1. Al'.cap = Al.cap
    BY <1>8 DEF Shift
  <2>. QED  BY <1>0, <1>1, <1>3, <2>1 DEF CapFits
<1>11. M1Fits' /\ BondReady' /\ H3Bond' /\ Snaps'
  BY <1>1, <1>3 DEF M1Fits, BondReady, H3Bond, Snaps
<1>12. PqBond'
  <2>1. Recipient \in Accounts /\ wallet[Recipient] \in Nat
    BY <1>0, MoneyTypes
  <2>2. Pays(t, Recipient) = 0 \/ Pays(t, Recipient) = 100
    BY DEF Pays
  <2>3. wallet'[Recipient] >= wallet[Recipient] - Pays(t, Recipient) /\ wallet'[Recipient] \in Nat
    BY <1>8, <2>1
  <2>4. wallet'[Recipient] >= wallet[Recipient] - 100
    BY <2>1, <2>2, <2>3
  <2>. QED  BY <1>0, <1>1, <1>2, <1>7, <2>3, <2>4, PqBondLate
<1>13. ASSUME ~Down, Now.op \in Moves \cup {"verify"}
       PROVE  LET x == Label(Now.l) IN Kept(x) /\ x \in Serials
  <2>. PICK x : x = Label(Now.l)
    OBVIOUS
  <2>0. Now.l = "pq"
    <3>1. Now.op \in Moves => Now.l \in Uses[script]
      BY <1>0, <1>13, NowCoin
    <3>2. Now.op = "verify" => VerifiesAt(script, pc, Now)
      BY <1>0, Basics DEF Placed
    <3>. QED  BY <1>3, <1>13, <3>1, <3>2 DEF Uses, VerifiesAt
  <2>1. Label(Now.l) = At(Now.l) /\ At(Now.l) \in Serials
    <3>1. "pq" \in Labels
      BY DEF Labels
    <3>. QED  BY <1>0, <1>13, <2>0, <3>1, CoinOf
  <2>2. Now.l = "pq"
    BY <2>0
  <2>3. x = <<"pq", Round>>
    BY <2>1, <2>2 DEF At, Coin, Fixed
  <2>4. Round \in Nat
    BY <1>0, Basics
  <2>5. x # t.sn
    BY <1>3, <2>3, <2>4
  <2>6. Kept(x)
    BY <1>0, <1>3, <2>1, <2>5, ExecKeeps
  <2>. QED  BY <2>1, <2>6
<1>14. Waited'
  <2>1. ASSUME Now.op = "settle", ~Down
        PROVE  /\ head'[Label(Now.l)].age >= head[Label(Now.l)].age
               /\ head'[Label(Now.l)].age \in Nat
               /\ head[Label(Now.l)].age \in Nat /\ Window \in Nat
    <3>. PICK x : x = Label(Now.l)
      OBVIOUS
    <3>1. Kept(x) /\ x \in Serials
      BY <1>13, <2>1 DEF Moves
    <3>2. head[x].age \in Nat /\ Window \in Nat /\ head'[x] = head[x]
      BY <1>0, <3>1, AgeNat DEF Kept
    <3>. QED  BY <3>2
  <2>. QED  BY <1>0, <1>1, <2>1, WaitStays, InvMeans
<1>15. Flying'
  <2>. PICK x : x = Label(Now.l)
    OBVIOUS
  <2>1. ASSUME phase = "flying"
        PROVE  registry'[x] = registry[x] /\ sub'[x] = sub[x] /\ Now.op # "fund"
    <3>1. ~Down /\ Now.op \in Sends
      BY <1>0, <2>1 DEF Flying, Down
    <3>2. Placed("pq", pc, Now)
      BY <1>0, <1>3, Basics
    <3>3. Now.op \in Moves \cup {"verify"} /\ Now.op # "fund"
      BY <3>1, <3>2, SendsMoves DEF Placed, CapsAt, FundsAt, Moves
    <3>4. Kept(x)
      BY <1>13, <3>1, <3>3
    <3>. QED  BY <3>3, <3>4 DEF Kept
  <2>. QED  BY <1>0, <1>1, <2>1, FlyingStays
<1>16. Bonds'
  BY <1>11, <1>12 DEF Bonds
<1>17. Repeating' /\ (phase = "twice" => Landed(tx)')
  <2>. PICK x : x = tx.sn
    OBVIOUS
  <2>1. ASSUME phase \in {"again", "twice"}
        PROVE  registry'[x] = registry[x] /\ sub'[x] = sub[x] /\ tx.op \notin {"cap", "fund"}
    <3>1. Sent(tx) /\ t.sn # x /\ tx.op \notin {"cap", "fund"}
      BY <1>0, <1>3, <2>1 DEF Repeating
    <3>2. x \in Serials
      BY <3>1, SentTypes
    <3>3. Kept(x)
      BY <1>0, <1>3, <3>1, <3>2, ExecKeeps
    <3>. QED  BY <3>1, <3>3 DEF Kept
  <2>2. late' \subseteq late
    OBVIOUS
  <2>. QED  BY <1>0, <1>1, <2>1, <2>2, RepeatingStays
<1>18. RecordsHold' /\ NothingThrows'
  <2>1. (phase = "twice")' => Landed(tx)'
    BY <1>1, <1>17
  <2>2. phase # "threw"
    BY <1>0, <1>3 DEF NothingThrows, Paid
  <2>. QED  BY <1>0, <1>1, <2>1, <2>2 DEF RecordsHold, NothingThrows
<1>. QED  BY <1>18, <1>4, <1>5, <1>6, <1>7, <1>9, <1>10, <1>11, <1>14, <1>15, <1>16, <1>17, InvIs

-----------------------------------------------------------------------------
(* A transaction lands.                                                      *)

\* The links of a batch are longer and longer.
LEMMA PrevGrows ==
  ASSUME NEW ss, NEW links \in Seq(State), links # <<>>, NEW x, NEW v, BatchFollows(ss, links, x, v)
  PROVE  \A i \in 1..Len(links) : Len(links[i].prev) >= Len(links[1].prev)
<1>. DEFINE P == {0} \cup {i \in 1..Len(links) : Len(links[i].prev) >= Len(links[1].prev)}
<1>1. \A i \in 1..Len(links) : links[i] \in State /\ links[i].prev \in Seq(Core)
  <2>. SUFFICES ASSUME NEW i \in 1..Len(links) PROVE links[i] \in State /\ links[i].prev \in Seq(Core)
    OBVIOUS
  <2>1. links[i] \in State
    OBVIOUS
  <2>. QED  BY <2>1 DEF State, Hash
<1>2. Len(links) \in Nat /\ 1 \in 1..Len(links)
  OBVIOUS
<1>3. 1 \in P
  BY <1>1, <1>2
<1>4. ASSUME NEW i \in 1..Len(links), i - 1 \in P PROVE i \in P
  <2>. SUFFICES ASSUME i # 1 PROVE i \in P
    BY <1>3
  <2>1. i - 1 \in 1..Len(links) /\ Len(links[i - 1].prev) >= Len(links[1].prev)
    BY <1>2, <1>4
  <2>2. links[i].prev = StateHash(links[i - 1])
    BY <2>1 DEF BatchFollows, Follows
  <2>3. Len(StateHash(links[i - 1])) = Len(links[i - 1].prev) + 1
    <3>1. links[i - 1].prev \in Seq(Core)
      BY <1>1, <2>1
    <3>. QED  BY <3>1 DEF StateHash
  <2>4. Len(links[i - 1].prev) \in Nat /\ Len(links[1].prev) \in Nat
    BY <1>1, <1>2, <2>1
  <2>5. Len(links[i].prev) >= Len(links[1].prev)
    BY <2>1, <2>2, <2>3, <2>4
  <2>. QED  BY <2>5
<1>5. 0..Len(links) \subseteq P
  <2>1. 0 \in P
    OBVIOUS
  <2>2. \A i \in 1..Len(links) : i - 1 \in P => i \in P
    BY <1>4
  <2>. HIDE DEF P
  <2>. QED  BY <1>2, <2>1, <2>2, IntervalInduction
<1>6. ASSUME NEW i \in 1..Len(links) PROVE Len(links[i].prev) >= Len(links[1].prev)
  <2>1. i \in P /\ i # 0
    BY <1>5
  <2>. QED  BY <2>1
<1>. QED  BY <1>6

\* The last state after an append is the last link.
LEMMA LastOfBoth ==
  ASSUME NEW ss \in Seq(State), NEW links \in Seq(State), links # <<>>,
         Len(ss) \in 1..MaxSubmissionStates
  PROVE  Len(ss \o links) > 1 /\ (ss \o links)[Len(ss \o links)] = links[Len(links)]
<1>1. Len(links) \in Nat /\ Len(links) >= 1 /\ Len(ss) \in Nat /\ Len(ss) >= 1
  <2>1. Len(links) \in Nat /\ Len(links) >= 1 /\ Len(ss) \in Nat
    OBVIOUS
  <2>2. \A k \in 1..MaxSubmissionStates : k >= 1
    BY DEF MaxSubmissionStates
  <2>. QED  BY <2>1, <2>2
<1>2. Len(ss \o links) = Len(ss) + Len(links)
  OBVIOUS
<1>3. \A i \in 1..(Len(ss) + Len(links)) :
        (ss \o links)[i] = IF i <= Len(ss) THEN ss[i] ELSE links[i - Len(ss)]
  OBVIOUS
<1>. PICK m, n : m = Len(ss) /\ n = Len(links)
  OBVIOUS
<1>4. m + n \in 1..(m + n) /\ ~(m + n <= m) /\ (m + n) - m = n /\ m + n > 1
  BY <1>1
<1>5. (ss \o links)[m + n] = links[n]
  BY <1>3, <1>4
<1>. QED  BY <1>2, <1>4, <1>5

\* A transaction that has landed has brought about what it was to.
LEMMA LandsAsMeant ==
  ASSUME TypeOK, NEW t, Sent(t), Exec(t), tx' = t
  PROVE  Landed(tx)' /\ Beyond(tx)'
<1>0. t.sn \in Serials /\ t.a \in Attempts /\ Recipient \in Wallets /\ Value \in Values
  BY SentTypes, ScriptAssumption
<1>. PICK x, a : x = t.sn /\ a = t.a
  OBVIOUS
<1>1. CASE t.op = "mint"
  <2>1. MintCoin(x, Value, Recipient)
    BY <1>1 DEF Exec
  <2>2. registry'[x].status = "ACTIVE"
    BY <1>0, <2>1, MintEffect
  <2>. QED  BY <1>1, <2>2 DEF Landed, Beyond
<1>2. CASE t.op = "start"
  <2>1. sub'[x][a].status = "RECEIVING"
    <3>1. StartCheckIn(x, a, t.w, GenesisState(x, Value, Recipient))
      BY <1>2 DEF Exec
    <3>. QED  BY <1>0, <3>1 DEF StartCheckIn, TypeOK, AccountTypes
  <2>. QED  BY <1>2, <2>1 DEF Landed, Beyond
<1>3. CASE t.op = "append"
  <2>. PICK links, s : links = t.links /\ s = sub[x][a]
    OBVIOUS
  <2>1. AppendLinks(x, a, t.w, links, StateHash(links[Len(links)]))
    BY <1>3 DEF Exec
  <2>2. links \in LinkBatches /\ t.w \in Wallets /\ links \in Seq(State)
    BY <1>3, InputAssumption DEF Sent
  <2>3. links # <<>>
    BY <2>1 DEF AppendLinks, BatchFits, CanAppend, LinksFit
  <2>4. /\ BatchFollows(s.states, links, x, registry[x].value)
        /\ sub'[x][a].states = s.states \o links
    BY <1>0, <2>1, <2>2, AppendEffect
  <2>5. s.states \in Seq(State) /\ Len(s.states) \in 1..MaxSubmissionStates
    <3>1. s \in Submissions
      BY <1>0 DEF TypeOK, AccountTypes
    <3>2. s.status = "RECEIVING"
      BY <2>1 DEF AppendLinks, BatchFits, CanAppend
    <3>3. Len(s.states) \in 1..MaxSubmissionStates
      BY <1>0, <3>2 DEF TypeOK, SubmissionWritten
    <3>4. s.states \in Seq(State)
      BY <3>1 DEF Submissions
    <3>. QED  BY <3>3, <3>4
  <2>. PICK ss : ss = s.states
    OBVIOUS
  <2>6. PICK all : all = ss \o links
    OBVIOUS
  <2>7. Len(all) > 1 /\ all[Len(all)] = links[Len(links)]
    <3>1. ss \in Seq(State) /\ Len(ss) \in 1..MaxSubmissionStates
      BY <2>5
    <3>2. Len(ss \o links) > 1 /\ (ss \o links)[Len(ss \o links)] = links[Len(links)]
      BY <2>2, <2>3, <3>1, LastOfBoth
    <3>. QED  BY <2>6, <3>2
  <2>8. sub'[x][a].states = all
    BY <2>4, <2>6
  <2>9. LastState(sub[tx.sn][tx.a])' = links[Len(links)] /\ Len(sub'[x][a].states) > 1
    BY <2>7, <2>8 DEF LastState
  <2>10. Len(links[Len(links)].prev) >= Len(links[1].prev)
    <3>1. Len(links) \in 1..Len(links)
      BY <2>2, <2>3
    <3>. QED  BY <2>2, <2>3, <2>4, <3>1, PrevGrows
  <2>11. Landed(tx)'
    BY <1>3, <2>9 DEF Landed
  <2>12. Beyond(tx)'
    BY <2>9, <2>10 DEF Beyond
  <2>. QED  BY <2>11, <2>12
<1>4. CASE t.op \in {"finalizeA", "finalizeB", "finalizeM1"}
  <2>1. FinRejectSpent(x, a) \/ FinSetHead(x, a) \/ FinResolveWin(x, a) \/ FinResolveLose(x, a)
    BY <1>4 DEF Exec, FinalizeCheckIn
  <2>2. sub'[x][a].status \in {"REJECTED", "PENDING", "WON", "LOST"}
    <3>1. CASE FinRejectSpent(x, a)
      BY <1>0, <3>1, RejectEffect
    <3>2. CASE FinSetHead(x, a)
      BY <1>0, <3>2, SetHeadEffect
    <3>3. CASE FinResolveWin(x, a)
      BY <1>0, <3>3, WinEffect
    <3>4. CASE FinResolveLose(x, a)
      BY <1>0, <3>4, LoseEffect
    <3>. QED  BY <2>1, <3>1, <3>2, <3>3, <3>4
  <2>. QED  BY <1>4, <2>2 DEF Landed, Beyond
<1>5. CASE t.op = "settle"
  <2>1. SdkSettle(x, a)
    BY <1>5 DEF Exec, SdkSettle
  <2>2. sub'[x][a] = [sub[x][a] EXCEPT !.status = "WON"]
    BY <1>0, <2>1, PayOut
  <2>4. sub[x][a] \in Submissions
    BY <1>0 DEF TypeOK, AccountTypes
  <2>3. sub'[x][a].status = "WON"
    BY <2>2, <2>4, StatusWrite
  <2>. QED  BY <1>5, <2>3 DEF Landed, Beyond
<1>6. CASE t.op = "fund"
  <2>1. vault' = vault + t.n
    BY <1>6 DEF Exec, FundVault
  <2>2. vault \in Nat /\ t.n \in Nat
    BY <1>6, MoneyTypes, InputAssumption DEF Sent
  <2>3. vault' >= t.n
    BY <2>1, <2>2
  <2>. QED  BY <1>6, <2>3 DEF Landed, Beyond
<1>7. CASE t.op = "cap"
  <2>1. allowance' = [allowance EXCEPT ![Recipient].cap = t.n]
    BY <1>7 DEF Exec, SetAllowance
  <2>2. allowance'[Recipient].cap = t.n
    BY <1>0, <2>1 DEF TypeOK, AccountTypes
  <2>. QED  BY <1>7, <2>2 DEF Landed, Beyond
<1>8. CASE t.op = "verify"
  <2>1. CommitIs(x, a, t.n, t.w) /\ sub' = sub
    BY <1>8 DEF Exec, Simulates, vars
  <2>. QED  BY <1>8, <2>1 DEF Landed, Beyond, CommitIs
<1>. QED  BY <1>1, <1>2, <1>3, <1>4, <1>5, <1>6, <1>7, <1>8 DEF Sent, Sends

Landing ==
  /\ Configured /\ ScriptInv /\ ~Down /\ Now.op \in Sends /\ Wanted /\ Exec(TxOf(Now))
  /\ UNCHANGED <<script, run, snap, late>>
  /\ Passes /\ Repeating' /\ failed' = failed
  /\ phase' = "again" => run < Runs

\* What is known of a transaction in flight that lands.
LEMMA FlightFacts ==
  ASSUME Configured, ScriptInv, phase = "flying", Exec(tx)
  PROVE  /\ ScriptTypes /\ ProgInv /\ TypeOK /\ Rows /\ LateOnes /\ Ready
         /\ ~Down /\ Now.op \in Sends /\ tx = TxOf(Now) /\ Wanted /\ Exec(TxOf(Now))
         /\ tx.op = Now.op /\ tx.tag = Now.tag /\ tx.sn = Label(Now.l)
         /\ tx.tag = "none" \/ (tx.op = "settle" /\ head[tx.sn].age >= Window)
<1>0. /\ ScriptTypes /\ ProgInv /\ TypeOK /\ Rows /\ Chains /\ Flying /\ LateOnes /\ Balances
      /\ NothingThrows
  BY InvMeans DEF ScriptInv
<1>1. ~Down /\ Now.op \in Sends /\ tx = TxOf(Now) /\ Wanted /\ Exec(TxOf(Now))
  BY <1>0 DEF Flying, Down
<1>2. Ready
  BY <1>0, <1>1 DEF Ready, Sending
<1>3. tx.op = Now.op /\ tx.tag = Now.tag /\ tx.sn = Label(Now.l)
  BY <1>1, TxFields
<1>4. Now.tag = "none" \/ (Now.op = "settle" /\ head[TxOf(Now).sn].age >= Window)
  BY <1>1, <1>2, LandRecords
<1>. QED  BY <1>0, <1>1, <1>2, <1>3, <1>4

\* A transaction that is confirmed.
LEMMA LandIsLanding ==
  ASSUME Configured, ScriptInv, Land
  PROVE  Landing
<1>1. /\ phase = "flying" /\ Exec(tx)
      /\ IF Now.op = "append" /\ ~Now.always THEN phase' = "at" /\ pc' = pc ELSE Onwards
      /\ failed' = Recorded(tx)
      /\ UNCHANGED <<script, run, snap, late>>
  BY DEF Land, Loops
<1>2. /\ ~Down /\ Now.op \in Sends /\ Wanted /\ Exec(TxOf(Now))
      /\ tx.tag = "none" \/ (tx.op = "settle" /\ head[tx.sn].age >= Window)
  BY <1>1, FlightFacts
<1>3. failed' = failed
  BY <1>1, <1>2 DEF Recorded
<1>4. Passes /\ phase' # "again"
  <2>1. CASE Now.op = "append" /\ ~Now.always
    BY <1>1, <2>1 DEF Passes
  <2>2. CASE ~(Now.op = "append" /\ ~Now.always)
    BY <1>1, <2>2, OnwardFacts DEF Passes, Proceeds
  <2>. QED  BY <2>1, <2>2
<1>5. Repeating'
  <2>1. phase' \in {"at", "done"}
    BY <1>1 DEF Onwards
  <2>. QED  BY <2>1 DEF Repeating
<1>. QED  BY <1>1, <1>2, <1>3, <1>4, <1>5 DEF Landing

\* The PQ run sends what concerns its coin only.
LEMMA PqCoin ==
  ASSUME ScriptTypes, Rows, ~Down, script = "pq", Now.op \in Sends
  PROVE  Label(Now.l) = <<"pq", Round>> /\ Round \in Nat /\ Now.op \notin {"cap", "fund"}
<1>1. Placed("pq", pc, Now)
  BY Basics
<1>2. Now.op \notin {"cap", "fund"}
  BY <1>1 DEF Placed, CapsAt, FundsAt
<1>3. Now.op \in Moves \cup {"verify"}
  BY <1>2, SendsMoves
<1>4. Now.l = "pq"
  <2>1. Now.op \in Moves => Now.l \in Uses[script]
    BY NowCoin
  <2>2. Now.op = "verify" => VerifiesAt("pq", pc, Now)
    BY <1>1 DEF Placed
  <2>. QED  BY <1>3, <2>1, <2>2 DEF Uses, VerifiesAt
<1>5. "pq" \in Labels
  BY DEF Labels
<1>6. Label(Now.l) = At("pq")
  BY <1>4, <1>5, CoinOf
<1>. QED  BY <1>2, <1>6, Basics DEF At, Coin, Fixed

\* One that is not confirmed.
LEMMA UnconfirmedIsLanding ==
  ASSUME Configured, ScriptInv, LandUnconfirmed
  PROVE  Landing
<1>1. /\ phase = "flying" /\ script \in Unsure /\ run < Runs /\ Exec(tx) /\ phase' = "again"
      /\ pc' = IF (Now.op = "append" /\ ~Now.always) \/ pc = Len(Script) THEN pc ELSE pc + 1
      /\ UNCHANGED <<script, run, tx, snap, failed, late>>
  BY DEF LandUnconfirmed, Loops
<1>2. /\ ScriptTypes /\ ProgInv /\ TypeOK /\ Rows /\ LateOnes /\ ~Down
      /\ Now.op \in Sends /\ tx = TxOf(Now) /\ Wanted /\ Exec(TxOf(Now))
      /\ tx.op = Now.op /\ tx.tag = Now.tag /\ tx.sn = Label(Now.l)
      /\ tx.tag = "none" \/ tx.op = "settle"
  BY <1>1, FlightFacts
<1>3. Placed(script, pc, Now) /\ pc \in Nat /\ Len(Script) \in Nat /\ pc <= Len(Script)
  BY <1>2, Basics DEF Positions, Script
<1>4. Passes
  <2>1. NextPos(script, pc) = IF pc = Len(Script) THEN pc ELSE pc + 1
    BY <1>3 DEF NextPos, Script
  <2>. QED  BY <1>1, <2>1 DEF Passes
<1>5. Repeating'
  <2>. PICK t : t = tx
    OBVIOUS
  <2>1. Sent(t)
    BY <1>2, SentNow
  <2>2. tx' = t /\ Exec(t)
    BY <1>1
  <2>3. Landed(tx)' /\ Beyond(tx)'
    BY <1>2, <2>1, <2>2, LandsAsMeant
  <2>4. Sent(tx)'
    BY <2>1, <2>2 DEF Sent
  <2>5. t.tag \in {"none", "E8a"}
    <3>1. Now.op = "settle" => SettlesAt(script, pc, Now)
      BY <1>3 DEF Placed
    <3>2. Now.op = "settle" => Now.tag \in {"none", "E8a"}
      BY <3>1 DEF SettlesAt
    <3>. QED  BY <1>2, <3>2
  <2>6. script = "pq" => t.op \notin {"cap", "fund"}
    BY <1>2, PqCoin
  <2>7. \A u \in late : u.sn # t.sn
    <3>. SUFFICES ASSUME NEW u \in late PROVE u.sn # t.sn
      OBVIOUS
    <3>1. script = "pq" /\ u.sn \in {"pq"} \X (1..Round - 1)
      BY <1>2 DEF LateOnes
    <3>2. t.sn = <<"pq", Round>> /\ Round \in Nat
      BY <1>2, <3>1, PqCoin
    <3>. QED  BY <3>1, <3>2
  <2>8. t.op = "fund" => script = "smoke" /\ pc' = 3
    <3>1. ASSUME t.op = "fund" PROVE script = "smoke" /\ pc = 2
      <4>1. FundsAt(script, pc, Now)
        BY <1>2, <1>3, <3>1 DEF Placed
      <4>. QED  BY <4>1 DEF FundsAt
    <3>2. ASSUME t.op = "fund" PROVE Len(Script) = 9
      BY <1>2, <3>1, <3>2, Basics DEF Ends
    <3>3. ASSUME t.op = "fund" PROVE pc' = 3
      <4>1. ~(Now.op = "append")
        BY <1>2, <3>3
      <4>2. pc = 2 /\ Len(Script) = 9
        BY <3>1, <3>2, <3>3
      <4>. QED  BY <1>1, <4>1, <4>2
    <3>. QED  BY <3>1, <3>3
  <2>. QED  BY <1>1, <2>2, <2>3, <2>4, <2>5, <2>6, <2>7, <2>8 DEF Repeating
<1>. QED  BY <1>1, <1>2, <1>4, <1>5 DEF Landing

\* The same, in its parts.
LEMMA LandingMeans ==
  ASSUME Landing
  PROVE  /\ Configured /\ ScriptInv /\ Sending /\ ScriptTypes /\ ProgInv /\ TypeOK /\ ~Down
         /\ Now.op \in Sends /\ Wanted /\ Exec(TxOf(Now)) /\ Sent(TxOf(Now))
         /\ TxOf(Now).op = Now.op /\ UNCHANGED <<script, run, snap, late>>
         /\ Passes /\ Repeating' /\ (phase' = "again" => run < Runs) /\ Ready
         /\ Now.op \in Moves \/ Now.op = "cap" \/ Now.op = "fund" \/ Now.op = "verify"
<1>1. ScriptTypes /\ ProgInv /\ TypeOK /\ Rows /\ Chains /\ LateOnes /\ Balances /\ NothingThrows
  BY InvMeans DEF Landing, ScriptInv
<1>2. /\ Configured /\ ScriptInv /\ ~Down /\ Now.op \in Sends /\ Wanted /\ Exec(TxOf(Now))
      /\ UNCHANGED <<script, run, snap, late>>
      /\ Passes /\ Repeating' /\ (phase' = "again" => run < Runs)
  BY DEF Landing
<1>3. Sent(TxOf(Now)) /\ TxOf(Now).op = Now.op
  BY <1>1, <1>2, SentNow, TxFields
<1>4. Sending /\ Ready
  BY <1>1, <1>2 DEF Sending, Ready
<1>5. Now.op \in Moves \/ Now.op = "cap" \/ Now.op = "fund" \/ Now.op = "verify"
  BY <1>2, SendsMoves
<1>. QED  BY <1>1, <1>2, <1>3, <1>4, <1>5

\* What holds however the script goes on.
LEMMA LandingKeeps ==
  ASSUME Landing, ScriptTypes', Round' = Round, phase' \in {"at", "again", "done"}
  PROVE  /\ ProgInv' /\ Rows' /\ Chains' /\ Later' /\ Flying' /\ LateOnes' /\ Snaps'
         /\ RecordsHold' /\ NothingThrows' /\ Repeating'
<1>0. /\ Later /\ LateOnes /\ Snaps /\ RecordsHold
  BY LandingMeans, InvMeans
<1>1. ProgInv'
  BY LandingMeans, ExecStep
<1>2. Passes /\ Repeating'
  BY DEF Landing
<1>3. Rows' /\ Chains'
  BY <1>2, LandingMeans, LandRows
<1>4. Later'
  BY <1>0, LandingMeans, LandLater
<1>5. LateOnes'
  BY <1>0, LandingMeans, LateSame
<1>6. Snaps'
  BY <1>0, <1>2, LandingMeans, SnapsLanded
<1>7. Flying' /\ RecordsHold' /\ NothingThrows'
  BY <1>0 DEF Flying, RecordsHold, NothingThrows, Landing
<1>. QED  BY <1>1, <1>2, <1>3, <1>4, <1>5, <1>6, <1>7

\* The loop of appendTo reads the submission again.
LEMMA LandAgain ==
  ASSUME Landing, Now.op = "append", ~Now.always
  PROVE  ScriptInv'
<1>0. /\ Configured /\ ScriptTypes /\ TypeOK /\ LateOnes /\ Room /\ CapFits /\ PqBond /\ H3Bond
      /\ ~Down /\ Sending
  BY LandingMeans, InvMeans
<1>1. /\ phase' \in {"at", "again", "done"} /\ pc' = pc /\ UNCHANGED <<script, run, snap, late>>
      /\ phase' = "again" => run < Runs
  BY DEF Landing, Passes
<1>2. ~Down' /\ Pos' = Pos /\ Round' = Round /\ Pos = pc /\ pc \in Nat
  BY <1>0, <1>1, Basics DEF Down, Pos, Round
<1>3. ScriptTypes'
  BY <1>0, <1>1 DEF ScriptTypes, Runs
<1>4. /\ ProgInv' /\ Rows' /\ Chains' /\ Later' /\ Flying' /\ LateOnes' /\ Snaps'
      /\ RecordsHold' /\ NothingThrows' /\ Repeating'
  BY <1>1, <1>2, <1>3, LandingKeeps
<1>5. UNCHANGED <<wallet, supply, vault, allowance>>
  <2>. PICK l, x, a : l = Now.l /\ x = At(Now.l) /\ a = Now.a
    OBVIOUS
  <2>. QED  BY LandingMeans, AppendLands
<1>6. Room'
  <2>1. Shift(0, 0)
    BY <1>0, <1>5, NoShift
  <2>2. Cardinality(late') <= Cardinality(late)
    <3>1. Cardinality(late) \in Nat
      BY <1>0, LateNat
    <3>. QED  BY <1>1, <3>1
  <2>. QED  BY <1>0, <1>1, <1>2, <1>4, <2>1, <2>2, RoomStays DEF Shift
<1>7. Now.op \in Moves /\ Now.op # "mint"
  BY DEF Moves
<1>8. CapFits' /\ M1Fits'
  <2>1. Pos' \in Nat /\ Pos' >= pc
    BY <1>2
  <2>. QED  BY <1>0, <1>1, <1>4, <1>7, <2>1, LandingMeans, CapLanded, M1Landed
<1>9. BondReady' /\ Waited'
  <2>1. Now' = Now
    BY <1>1 DEF Now, Script
  <2>. QED  BY <2>1 DEF BondReady, Waited
<1>10. PqBond' /\ H3Bond'
  <2>1. Cardinality(late) \in Nat
    BY <1>0, LateNat
  <2>2. Cardinality(late') \in Nat /\ Cardinality(late') <= Cardinality(late)
    BY <1>1, <2>1
  <2>. QED  BY <1>0, <1>1, <1>2, <1>5, <2>1, <2>2, PqBondStays, H3BondStays
<1>11. Bonds'
  BY <1>9, <1>10 DEF Bonds
<1>. QED  BY <1>3, <1>4, <1>6, <1>8, <1>9, <1>11, InvIs

\* The room that is left when a transaction has landed.
LEMMA LandRoom ==
  ASSUME Landing, Proceeds, LateOnes'
  PROVE  Room'
<1>0. /\ Configured /\ ScriptTypes /\ ProgInv /\ TypeOK /\ LateOnes /\ Room /\ ~Down /\ Sending
      /\ CapFits /\ M1Fits /\ UNCHANGED <<script, run, snap, late>>
  BY LandingMeans, InvMeans
<1>1. CASE Now.op = "fund"
  <2>1. script = "smoke"
    BY <1>0, <1>1, LandingMeans, M1Funded
  <2>. QED  BY <1>0, <2>1 DEF Room
<1>2. CASE Now.op = "cap"
  <2>1. Spends
    BY <1>0, <1>2, LandingMeans, CapIsSet
  <2>. QED  BY <1>0, <1>2, <2>1, RoomGoesOn
<1>3. CASE Now.op \in Moves
  <2>1. /\ TxOf(Now).op = "mint" => Shift(100, 0)
        /\ TxOf(Now).op # "mint" => Shift(0, 0) \/ Shift(-100, -100)
    <3>1. Sent(TxOf(Now)) /\ Exec(TxOf(Now)) /\ TxOf(Now).op \in Moves
      BY <1>3, LandingMeans
    <3>. QED  BY <1>0, <3>1, ExecMoney
  <2>2. Spends
    BY <2>1, LandingMeans DEF Spends, Shift
  <2>3. Now.op # "topup"
    BY <1>3 DEF Moves
  <2>. QED  BY <1>0, <2>2, <2>3, RoomGoesOn
<1>4. CASE Now.op = "verify"
  <2>1. UNCHANGED vars
    BY <1>4, LandingMeans, VerifyKeeps
  <2>2. UNCHANGED <<supply, vault, allowance>>
    BY <2>1 DEF vars
  <2>. QED  BY <1>0, <1>4, <2>2, NothingSpent, LandingMeans
<1>. QED  BY <1>1, <1>2, <1>3, <1>4, LandingMeans

\* Likewise the cap, and the vault of the smoke test.
LEMMA LandCap ==
  ASSUME Landing, Proceeds, Rows'
  PROVE  CapFits' /\ M1Fits'
<1>0. /\ ScriptTypes /\ ~Down /\ Sending /\ CapFits /\ M1Fits
      /\ UNCHANGED <<script, run, snap, late>>
  BY LandingMeans, InvMeans
<1>1. CASE Now.op = "fund"
  <2>1. /\ M1Fits' /\ script = "smoke" /\ Now.tag = "none" /\ Pos' = 3
        /\ UNCHANGED <<supply, registry, sub, head, allowance>>
    BY <1>0, <1>1, LandingMeans, M1Funded
  <2>. QED  BY <1>0, <1>1, <2>1, CapGoesOn
<1>2. CASE Now.op = "cap"
  <2>1. CapFits'
    BY <1>0, <1>2, LandingMeans, CapIsSet
  <2>2. script = "matrix"
    BY <1>0, <1>2, LandingMeans, CapLands
  <2>. QED  BY <1>0, <2>1, <2>2 DEF M1Fits
<1>3. CASE Now.op \in Moves
  <2>1. Pos' = NextPos(script, pc) /\ pc \in Nat
    BY <1>0, OnwardsTo, Basics
  <2>2. Pos' \in Nat /\ Pos' >= pc
    BY <2>1 DEF NextPos
  <2>. QED  BY <1>0, <1>3, <2>1, <2>2, LandingMeans, CapLanded, M1Landed
<1>4. CASE Now.op = "verify"
  <2>1. UNCHANGED vars
    BY <1>4, LandingMeans, VerifyKeeps
  <2>2. UNCHANGED <<registry, sub, supply, vault, allowance>> /\ TypeOK
    BY <2>1, LandingMeans DEF vars
  <2>3. script = "smoke" => ~Wanted \/ pc >= 3
    <3>1. VerifiesAt(script, pc, Now)
      BY <1>0, <1>4, Basics DEF Placed
    <3>. QED  BY <3>1 DEF VerifiesAt
  <2>. QED  BY <1>0, <1>4, <2>2, <2>3, CapGoesOn, M1GoesOn
<1>. QED  BY <1>1, <1>2, <1>3, <1>4, LandingMeans

\* It leaves the bonds for the starts that follow.
LEMMA LandBonds ==
  ASSUME Landing, Proceeds, ProgInv'
  PROVE  Bonds'
<1>0. /\ Configured /\ ScriptTypes /\ TypeOK /\ ProgInv /\ LateOnes /\ PqBond /\ H3Bond /\ ~Down
      /\ Sending /\ Ready /\ NothingThrows /\ UNCHANGED <<script, run, snap, late>>
      /\ Now.op \in Sends /\ Exec(TxOf(Now)) /\ TxOf(Now).op = Now.op
  BY LandingMeans, InvMeans
<1>1. Now.op \notin {"bond", "prefund", "topup"}
  BY <1>0 DEF Sends
<1>2. BondReady'
  BY <1>0, <1>1, BondComes
<1>3. wallet' \in [Accounts -> Nat] /\ Holder3 \in Accounts
  <2>1. TypeOK'
    BY DEF ProgInv
  <2>2. wallet' \in [Accounts -> Nat]
    BY <2>1 DEF TypeOK, AccountTypes
  <2>. QED  BY <1>0, <2>2, MoneyTypes
<1>4. PqBond'
  <2>1. ASSUME script = "pq", pc \in 2..3 PROVE wallet'[Recipient] = wallet[Recipient]
    <3>1. pc = 3
      BY <1>0, <1>1, <2>1, SecondStep
    <3>2. PqScript[3] = Need("mint", "pq", 0, 0, Recipient)
      BY PqTable
    <3>3. Now = PqScript[3]
      BY <1>0, <2>1, <3>1, Basics, ScriptsAre
    <3>4. Now.op = "mint"
      BY <3>2, <3>3 DEF Need, Step
    <3>5. MintCoin(TxOf(Now).sn, Value, Recipient)
      BY <1>0, <3>4 DEF Exec
    <3>6. wallet' = wallet
      BY <3>5 DEF MintCoin
    <3>. QED  BY <3>6
  <2>. QED  BY <1>0, <1>1, <2>1, PqBondGoesOn
<1>5. H3Bond'
  <2>1. script = "matrix" => wallet'[Holder3] >= wallet[Holder3] - Takes
    <3>1. CASE Now.op \in Moves
      <4>1. Now.tag = "none" \/ Now.op # "start"
        BY <1>0, LandRecords
      <4>. QED  BY <1>0, <3>1, <4>1, LandTakes
    <3>2. CASE Now.op = "cap"
      <4>1. wallet' = wallet
        BY <1>0, <3>2, CapLands
      <4>2. wallet[Holder3] \in Nat
        BY <1>0, MoneyTypes
      <4>. QED  BY <4>1, <4>2 DEF Takes
    <3>3. CASE Now.op = "fund"
      <4>1. FundsAt(script, pc, Now)
        BY <1>0, <3>3, Basics DEF Placed
      <4>. QED  BY <4>1 DEF FundsAt
    <3>4. CASE Now.op = "verify"
      <4>1. wallet' = wallet
        BY <1>0, <3>4, VerifyKeeps DEF vars
      <4>2. wallet[Holder3] \in Nat
        BY <1>0, MoneyTypes
      <4>. QED  BY <3>4, <4>1, <4>2 DEF Takes
    <3>. QED  BY <3>1, <3>2, <3>3, <3>4, LandingMeans
  <2>2. wallet'[Holder3] \in Nat
    BY <1>3
  <2>. QED  BY <1>0, <1>1, <2>1, <2>2, H3BondGoesOn
<1>. QED  BY <1>2, <1>4, <1>5 DEF Bonds

\* It lands, and the run goes on.
LEMMA LandOn ==
  ASSUME Landing, Proceeds
  PROVE  ScriptInv'
<1>0. /\ ScriptTypes /\ ~Down /\ Waited /\ Sending /\ TypeOK
      /\ UNCHANGED <<script, run, snap, late>>
  BY LandingMeans, InvMeans
<1>1. snap' \in [r : Nat, h3 : Nat, vault : Nat]
  BY <1>0, SnapTyped
<1>2. ScriptTypes' /\ phase' \in {"at", "again", "done"} /\ Round' = Round
  BY <1>0, <1>1, LandingMeans, TypesGoOn
<1>3. /\ ProgInv' /\ Rows' /\ Chains' /\ Later' /\ Flying' /\ LateOnes' /\ Snaps'
      /\ RecordsHold' /\ NothingThrows' /\ Repeating'
  BY <1>2, LandingKeeps
<1>4. Room'
  BY <1>3, LandRoom
<1>5. CapFits' /\ M1Fits'
  BY <1>3, LandCap
<1>6. Bonds'
  BY <1>3, LandBonds
<1>7. Waited'
  <2>1. ASSUME Now.op = "settle" PROVE head' = head
    <3>. PICK x, a : x = TxOf(Now).sn /\ a = TxOf(Now).a
      OBVIOUS
    <3>1. SdkSettle(x, a)
      BY <2>1, LandingMeans DEF Exec, SdkSettle
    <3>2. x \in Serials /\ a \in Attempts
      BY LandingMeans, SentTypes
    <3>. QED  BY <1>0, <3>1, <3>2, PayOut
  <2>2. Now.op # "wait"
    BY LandingMeans DEF Sends
  <2>. QED  BY <1>0, <2>1, <2>2, WaitComes
<1>. QED  BY <1>2, <1>3, <1>4, <1>5, <1>6, <1>7, InvIs

\* A transaction lands.
LEMMA LandInv ==
  ASSUME Configured, ScriptInv, Land \/ LandUnconfirmed
  PROVE  ScriptInv'
<1>1. Landing
  BY LandIsLanding, UnconfirmedIsLanding
<1>2. Proceeds \/ (Now.op = "append" /\ ~Now.always)
  BY <1>1 DEF Landing, Passes, Proceeds
<1>. QED  BY <1>1, <1>2, LandAgain, LandOn

-----------------------------------------------------------------------------
(* A transaction is sent once more.                                          *)

\* What the program takes a second time changes nothing, but for the tokens of the
\* smoke test.
LEMMA LastIsState ==
  ASSUME NEW ss \in Seq(State), Len(ss) \in 1..MaxSubmissionStates
  PROVE  ss[Len(ss)] \in State
<1>. PICK m : m = Len(ss)
  OBVIOUS
<1>1. m \in 1..m
  BY DEF MaxSubmissionStates
<1>. QED  BY <1>1

LEMMA NotLonger ==
  ASSUME NEW m \in Nat, NEW n, n = m + 1, m >= n
  PROVE  FALSE
OBVIOUS

LEMMA HashLonger ==
  ASSUME NEW x \in State
  PROVE  Len(StateHash(x)) = Len(x.prev) + 1 /\ Len(x.prev) \in Nat
<1>. PICK pr, c : pr = x.prev /\ c = [serial |-> x.serial, value |-> x.value, owner |-> x.owner]
  OBVIOUS
<1>1. x.prev \in Seq(Core)
  BY DEF State, Hash
<1>2. pr \in Seq(Core)
  BY <1>1
<1>3. c \in Core
  BY DEF State, Core
<1>4. Len(Append(pr, c)) = Len(pr) + 1 /\ Len(pr) \in Nat
  BY <1>2, <1>3
<1>5. StateHash(x) = Append(pr, c)
  BY DEF StateHash
<1>. QED  BY <1>4, <1>5

LEMMA TakenAgain ==
  ASSUME TypeOK, phase = "again", Repeating, Exec(tx)
  PROVE  UNCHANGED vars \/ tx.op = "fund"
<1>1. Sent(tx) /\ Landed(tx) /\ Beyond(tx)
  BY DEF Repeating
<1>. PICK t, x, a : t = tx /\ x = tx.sn /\ a = tx.a
  OBVIOUS
<1>0. x \in Serials /\ a \in Attempts /\ Recipient \in Wallets /\ Exec(t) /\ sub[x][a] \in Submissions
  BY <1>1, SentTypes, ScriptAssumption DEF TypeOK, AccountTypes
<1>2. t.op # "mint"
  BY <1>0, <1>1 DEF Exec, Landed, MintCoin, CanMint
<1>3. t.op # "start"
  BY <1>0, <1>1 DEF Exec, Landed, StartCheckIn, CanStart
<1>4. t.op # "append"
  <2>. SUFFICES ASSUME t.op = "append" PROVE FALSE
    OBVIOUS
  <2>. PICK links, s, ss : links = t.links /\ s = sub[x][a] /\ ss = s.states
    OBVIOUS
  <2>1. BatchFits(x, a, t.w, links, StateHash(links[Len(links)]))
    BY <1>0 DEF Exec, AppendLinks
  <2>2. links # <<>> /\ s.status = "RECEIVING" /\ BatchFollows(ss, links, x, registry[x].value)
    BY <2>1 DEF BatchFits, CanAppend, LinksFit
  <2>3. links \in Seq(State)
    BY <1>1, InputAssumption DEF Sent
  <2>4. links[1].prev = StateHash(ss[Len(ss)])
    <3>1. Len(links) \in Nat /\ Len(links) # 0
      BY <2>2, <2>3
    <3>. PICK m : m = Len(links)
      OBVIOUS
    <3>2. 1 \in 1..m
      BY <3>1
    <3>3. Follows(links[1], IF 1 = 1 THEN ss[Len(ss)] ELSE links[1 - 1], x, registry[x].value)
      BY <2>2, <3>2 DEF BatchFollows
    <3>4. Follows(links[1], ss[Len(ss)], x, registry[x].value)
      BY <3>3
    <3>. QED  BY <3>4 DEF Follows
  <2>5. Len(ss) \in 1..MaxSubmissionStates /\ ss \in Seq(State)
    <3>1. ss \in Seq(State)
      BY <1>0 DEF Submissions
    <3>2. Len(s.states) \in 1..MaxSubmissionStates
      BY <1>0, <2>2 DEF TypeOK, SubmissionWritten
    <3>. QED  BY <3>1, <3>2
  <2>6. ss[Len(ss)] \in State
    BY <2>5, LastIsState
  <2>. PICK last : last = ss[Len(ss)]
    OBVIOUS
  <2>7. Len(StateHash(last)) = Len(last.prev) + 1 /\ Len(last.prev) \in Nat
    BY <2>6, HashLonger
  <2>8. Len(LastState(sub[tx.sn][tx.a]).prev) >= Len(tx.links[1].prev)
    BY <1>1 DEF Beyond
  <2>9. LastState(sub[tx.sn][tx.a]) = last
    BY DEF LastState
  <2>10. tx.links[1].prev = StateHash(last)
    BY <2>4
  <2>11. Len(last.prev) >= Len(StateHash(last))
    BY <2>8, <2>9, <2>10
  <2>. QED  BY <2>7, <2>11, NotLonger
<1>5. t.op \notin {"finalizeA", "finalizeB", "finalizeM1"}
  <2>. SUFFICES ASSUME t.op \in {"finalizeA", "finalizeB", "finalizeM1"} PROVE FALSE
    OBVIOUS
  <2>1. FinRejectSpent(x, a) \/ FinSetHead(x, a) \/ FinResolveWin(x, a) \/ FinResolveLose(x, a)
    BY <1>0 DEF Exec, FinalizeCheckIn
  <2>2. sub[x][a].status = "RECEIVING"
    BY <1>0, <2>1, RejectEffect, SetHeadEffect, WinEffect, LoseEffect
  <2>. QED  BY <1>1, <2>2 DEF Landed
<1>6. t.op # "settle"
  <2>. SUFFICES ASSUME t.op = "settle" PROVE FALSE
    OBVIOUS
  <2>1. SdkSettle(x, a)
    BY <1>0 DEF Exec, SdkSettle
  <2>2. sub[x][a].status = "PENDING"
    BY <1>0, <2>1, PayOut
  <2>. QED  BY <1>1, <2>2 DEF Landed
<1>7. CASE t.op = "cap"
  <2>1. /\ allowance' = [allowance EXCEPT ![Recipient].cap = t.n]
        /\ UNCHANGED <<supply, vault, fees, wallet, registry, head, sub, escrow>>
    BY <1>0, <1>7 DEF Exec, SetAllowance
  <2>2. allowance[Recipient].cap = t.n
    BY <1>1, <1>7 DEF Landed
  <2>3. allowance \in [Wallets -> Allowances]
    BY DEF TypeOK, AccountTypes
  <2>4. allowance' = allowance
    BY <1>0, <2>1, <2>2, <2>3 DEF Allowances
  <2>. QED  BY <2>1, <2>4 DEF vars
<1>8. CASE t.op = "verify"
  BY <1>0, <1>8, VerifyKeeps
<1>. QED  BY <1>1, <1>2, <1>3, <1>4, <1>5, <1>6, <1>7, <1>8 DEF Sent, Sends

\* A second time only E8a may be recorded.
LEMMA RecordedAgain ==
  ASSUME RecordsHold, Repeating, phase = "again", UNCHANGED script,
         failed' = failed \/ failed' = failed \cup {tx.tag},
         tx.tag = "none" => failed' = failed
  PROVE  RecordsHold'
<1>1. script \in Unsure /\ tx.tag \in {"none", "E8a"}
  BY DEF Repeating
<1>2. failed \subseteq {"E8a"}
  BY <1>1 DEF RecordsHold
<1>3. failed' \subseteq {"E8a"}
  BY <1>1, <1>2
<1>. QED  BY <1>1, <1>3 DEF RecordsHold

\* The script is out of send, and the program is as it was.
LEMMA AgainInv ==
  ASSUME Configured, ScriptInv, phase = "again", phase' = "at", RecordsHold',
         UNCHANGED <<vars, script, run, pc, snap, late>>
  PROVE  ScriptInv'
<1>0. ScriptTypes /\ ProgInv /\ TypeOK /\ LateOnes
  BY InvMeans
<1>1. Down' <=> Down
  BY DEF Down
<1>2. UNCHANGED <<supply, vault, fees, wallet, registry, head, sub, escrow, allowance>>
  BY DEF vars
<1>3. ProgInv'
  BY <1>0, SameProgram
<1>4. Waited'
  <2>1. \A x \in Serials : head'[x].age \in Nat /\ head'[x].age >= head[x].age
    <3>. SUFFICES ASSUME NEW x \in Serials
                  PROVE  head'[x].age \in Nat /\ head'[x].age >= head[x].age
      OBVIOUS
    <3>1. head[x].age \in Nat
      BY <1>0, AgeNat
    <3>. QED  BY <1>2, <3>1
  <2>. QED  BY <1>1, <2>1, WaitQuiet
<1>5. LateOnes' /\ Cardinality(late') <= Cardinality(late) /\ Cardinality(late') \in Nat
  <2>1. Round' = Round
    BY DEF Round, Down
  <2>2. Cardinality(late) \in Nat
    BY <1>0, LateNat
  <2>. QED  BY <1>0, <2>1, <2>2, LateSame
<1>6. Flying' /\ Repeating' /\ NothingThrows'
  BY DEF Flying, Repeating, NothingThrows
<1>7. phase' \in Phases /\ ~(phase' \in {"again", "dead", "twice"})
  BY DEF Phases
<1>. QED  BY <1>1, <1>2, <1>3, <1>4, <1>5, <1>6, <1>7, StillInv

\* The tokens for the vault of the smoke test are sent once more.
LEMMA FundAgain ==
  ASSUME Configured, ScriptInv, Repeats, tx.op = "fund"
  PROVE  ScriptInv'
<1>0. /\ ScriptTypes /\ ProgInv /\ TypeOK /\ Rows /\ Chains /\ Later /\ LateOnes /\ Repeating
      /\ CapFits /\ M1Fits /\ RecordsHold
  BY InvMeans
<1>1. /\ phase = "again" /\ phase' = "at" /\ Exec(tx) /\ failed' = Recorded(tx)
      /\ UNCHANGED <<script, run, pc, snap, late>> /\ ~Down /\ ~Down'
  BY DEF Repeats, Down
<1>. PICK t : t = tx
  OBVIOUS
<1>2. script = "smoke" /\ pc = 3 /\ Sent(t) /\ Exec(t) /\ t.op = "fund"
  BY <1>0, <1>1 DEF Repeating
<1>3. /\ vault' = vault + t.n
      /\ UNCHANGED <<supply, fees, registry, head, sub, escrow, allowance>>
  BY <1>2 DEF Exec, FundVault
<1>4. vault \in Nat /\ vault' \in Nat /\ vault' >= vault
  <2>1. vault \in Nat /\ t.n \in Nat
    BY <1>0, <1>2, MoneyTypes, InputAssumption DEF Sent
  <2>. QED  BY <1>3, <2>1
<1>5. Pos' = Pos /\ Round' = Round /\ Pos = 3
  BY <1>1, <1>2 DEF Pos, Round
<1>6. ScriptTypes'
  BY <1>0, <1>1 DEF ScriptTypes, Runs
<1>7. ProgInv'
  BY <1>0, <1>2, ExecStep
<1>8. Rows' /\ Chains' /\ Later'
  BY <1>0, <1>1, <1>3, <1>5, StayRows, LaterStays
<1>9. LateOnes'
  BY <1>0, <1>1, <1>5, LateSame
<1>10. CapFits'
  BY <1>0, <1>1, <1>3, <1>5, CapStays
<1>11. M1Fits'
  <2>1. View(At("m1"))' = View(At("m1"))
    BY <1>1, <1>3, <1>5 DEF View, At, Coin
  <2>2. Al' = Al
    BY <1>3 DEF Al, OpenAllowance
  <2>. QED  BY <1>0, <1>1, <1>2, <1>3, <1>4, <1>5, <2>1, <2>2 DEF M1Fits
<1>12. Now' = Now /\ Now.op \notin {"start", "settle"}
  <2>1. Placed("smoke", 3, Now)
    BY <1>0, <1>1, <1>2, Basics
  <2>2. Now.op # "start"
    BY <2>1 DEF Placed, StartsAt
  <2>3. Now.op # "settle"
    BY <2>1 DEF Placed, SettlesAt
  <2>. QED  BY <1>1, <2>2, <2>3 DEF Now, Script
<1>13. Room' /\ Bonds' /\ Snaps' /\ Waited'
  BY <1>1, <1>2, <1>12 DEF Room, Bonds, BondReady, PqBond, H3Bond, Snaps, Waited
<1>14. RecordsHold'
  BY <1>0, <1>1, RecordedAgain DEF Recorded
<1>15. Flying' /\ Repeating' /\ NothingThrows'
  BY <1>1 DEF Flying, Repeating, NothingThrows
<1>. QED  BY <1>6, <1>7, <1>8, <1>9, <1>10, <1>11, <1>13, <1>14, <1>15, InvIs

\* A transaction is taken a second time.
LEMMA RepeatsInv ==
  ASSUME Configured, ScriptInv, Repeats
  PROVE  ScriptInv'
<1>0. TypeOK /\ Repeating /\ RecordsHold
  BY InvMeans
<1>1. /\ phase = "again" /\ phase' = "at" /\ Exec(tx) /\ failed' = Recorded(tx)
      /\ UNCHANGED <<script, run, pc, snap, late>>
  BY DEF Repeats
<1>2. RecordsHold'
  BY <1>0, <1>1, RecordedAgain DEF Recorded
<1>3. CASE UNCHANGED vars
  BY <1>1, <1>2, <1>3, AgainInv
<1>4. CASE tx.op = "fund"
  BY <1>4, FundAgain
<1>. QED  BY <1>0, <1>1, <1>3, <1>4, TakenAgain

\* It is refused: the run ends, and all is as its first landing left it.
LEMMA RepeatFailsInv ==
  ASSUME Configured, ScriptInv, RepeatFails
  PROVE  ScriptInv'
<1>0. /\ ScriptTypes /\ ProgInv /\ TypeOK /\ Rows /\ LateOnes /\ Repeating /\ RecordsHold
      /\ NothingThrows
  BY InvMeans
<1>1. /\ phase = "again" /\ UNCHANGED <<vars, script, run, pc, snap, late>> /\ ~Down
      /\ IF tx.tag # "none" THEN Refusal(tx) /\ phase' = "at" /\ tx' = NoTx
         ELSE phase' = "twice" /\ UNCHANGED <<failed, tx>>
  BY DEF RepeatFails, Down
<1>2. CASE tx.tag # "none"
  <2>1. RecordsHold'
    BY <1>0, <1>1, <1>2, RecordedAgain DEF Refusal
  <2>. QED  BY <1>1, <1>2, <2>1, AgainInv
<1>3. CASE tx.tag = "none"
  <2>1. phase' = "twice" /\ UNCHANGED <<failed, tx>>
    BY <1>1, <1>3
  <2>2. UNCHANGED <<supply, vault, fees, wallet, registry, head, sub, escrow, allowance>>
    BY <1>1 DEF vars
  <2>3. Repeating' /\ Landed(tx)'
    <3>. PICK x : x = tx.sn
      OBVIOUS
    <3>1. late' \subseteq late
      BY <1>1
    <3>. QED  BY <1>0, <1>1, <2>1, <2>2, <3>1, RepeatingStays
  <2>4. NothingThrows'
    BY <2>1, <2>3 DEF NothingThrows
  <2>5. run < Runs
    BY <1>0, <1>1 DEF ScriptTypes
  <2>6. run <= MaxRuns
    BY <1>0, <2>5, Basics
  <2>7. Cardinality(late) \in Nat
    BY <1>0, LateNat
  <2>8. LateOnes'
    <3>1. Round' = Round + 1 /\ Round \in Nat
      BY <1>0, <1>1, <2>1, Basics DEF Round, Down
    <3>2. 1..(Round - 1) \subseteq 1..(Round' - 1)
      BY <3>1
    <3>. QED  BY <1>0, <1>1, <2>7, <3>1, <3>2 DEF LateOnes, Sent
  <2>. QED  BY <1>1, <2>1, <2>3, <2>4, <2>5, <2>6, <2>7, <2>8, EarlyInv
<1>. QED  BY <1>2, <1>3

-----------------------------------------------------------------------------
(* Every step keeps the invariant.                                           *)

\* The scripts begin with the invariant.
LEMMA InitInv == Configured /\ ScriptInit => ScriptInv
<1>. SUFFICES ASSUME Configured, ScriptInit PROVE ScriptInv
  OBVIOUS
<1>0. /\ Init /\ script \in Scripts /\ run = 1 /\ pc = 1 /\ phase = "at" /\ tx = NoTx
      /\ snap = [r |-> 0, h3 |-> 0, vault |-> 0]
      /\ failed = {} /\ late = {}
  BY DEF ScriptInit
<1>1. ScriptTypes
  <2>1. script \in {"matrix", "pq", "smoke"}
    BY <1>0, ScriptAssumption, ScriptsAre
  <2>2. 1 \in Positions(script)
    <3>1. script \in DOMAIN StepsOf /\ Ends(script) \in Nat /\ Ends(script) >= 1
      BY <2>1, ScriptsAre DEF Ends
    <3>2. Len(StepsOf[script]) = Ends(script)
      BY <3>1, EndsAre
    <3>. QED  BY <3>1, <3>2 DEF Positions
  <2>3. 1 \in 1..Runs
    BY ScriptAssumption DEF Runs
  <2>. QED  BY <1>0, <2>2, <2>3 DEF ScriptTypes
<1>2. ~Down /\ Pos = 1 /\ Round = 1
  BY <1>0 DEF Down, Pos, Round
<1>3. /\ supply = 0 /\ vault = 0
      /\ \A x \in Serials : /\ registry[x] = NoCoin
                            /\ \A a \in Attempts : sub[x][a] = NoSub
      /\ allowance = [w \in Wallets |-> [initialized |-> FALSE, cap |-> 0, committed |-> 0]]
  BY <1>0 DEF Init
<1>4. ProgInv
  <2>1. TypeOK /\ ClaimsInv
    BY <1>0, InitTypes, ClaimsInvHolds
  <2>2. ASSUME NEW x \in Serials PROVE CoinRight(x)
    BY <1>3 DEF CoinRight, Begun, NoCoin, NoSub, Attempts
  <2>. QED  BY <2>1, <2>2 DEF ProgInv
<1>5. \A x \in Serials : View(x) = Unminted
  <2>. SUFFICES ASSUME NEW x \in Serials PROVE View(x) = Unminted
    OBVIOUS
  <2>1. registry[x].status = "NONE"
    BY <1>3 DEF NoCoin
  <2>2. sub[x][0] = NoSub /\ sub[x][1] = NoSub
    BY <1>3 DEF Attempts
  <2>3. NoSub.status = "NONE" /\ Len(NoSub.states) = 0
    BY DEF NoSub
  <2>. QED  BY <2>1, <2>2, <2>3 DEF View, Unminted
<1>6. script \in DOMAIN StepsOf /\ Uses[script] \subseteq Labels
  BY <1>1, Basics, UsesLabels
<1>7. Rows
  <2>1. ASSUME NEW l \in Uses[script] PROVE View(At(l)) \in Views(l, Pos)
    <3>1. l \in Labels
      BY <1>6
    <3>2. At(l) \in Serials
      BY <1>1, <1>2, <3>1, CoinOf
    <3>. QED  BY <1>2, <1>5, <3>1, <3>2, ViewsStart
  <2>. QED  BY <2>1 DEF Rows
<1>8. Chains
  <2>1. ASSUME NEW l \in Uses[script], NEW a \in Attempts PROVE HoldsChain(l, At(l), a)
    <3>1. l \in Labels
      BY <1>6
    <3>2. At(l) \in Serials
      BY <1>1, <1>2, <3>1, CoinOf
    <3>. QED  BY <1>3, <3>2 DEF HoldsChain, NoSub
  <2>. QED  BY <2>1 DEF Chains
<1>9. Later
  <2>1. ASSUME NEW l \in Labels \ Fixed, NEW r \in (Round + 1)..(MaxRuns + 1)
        PROVE  View(<<l, r>>) = Unminted
    <3>1. r \in 0..(MaxRuns + 1)
      BY <1>2, ScriptAssumption
    <3>2. <<l, r>> \in Serials
      BY <3>1, SerialsAssumption
    <3>. QED  BY <1>5, <3>2
  <2>. QED  BY <2>1 DEF Later
<1>10. Flying /\ Repeating /\ RecordsHold /\ NothingThrows
  BY <1>0 DEF Flying, Repeating, RecordsHold, NothingThrows
<1>11. IsFiniteSet(late) /\ Cardinality(late) = 0
  BY <1>0, FS_EmptySet
<1>12. LateOnes
  BY <1>0, <1>2, <1>11 DEF LateOnes
<1>13. Al = [initialized |-> TRUE, cap |-> DefaultAllowance, committed |-> 0]
       /\ ~allowance[Recipient].initialized
  BY <1>3, ScriptAssumption DEF Al, OpenAllowance
<1>14. Room
  <2>1. Owed = 100 * Left(script, 1)
    BY <1>2, <1>11 DEF Owed, Left
  <2>2. script = "matrix" => Left(script, 1) = 6
    BY DEF Left
  <2>3. script # "matrix" => Left(script, 1) = 1
    BY DEF Left
  <2>. QED  BY <1>2, <1>3, <1>13, <2>1, <2>2, <2>3 DEF Room, PerRun
<1>15. CapFits
  <2>1. ASSUME script = "matrix" PROVE View(At("e0")) = Unminted
    <3>1. "e0" \in Labels
      BY DEF Labels, Fixed
    <3>2. At("e0") \in Serials
      BY <1>1, <1>2, <3>1, CoinOf
    <3>. QED  BY <1>5, <3>2
  <2>. QED  BY <1>2, <1>13, <2>1 DEF CapFits
<1>16. M1Fits
  BY <1>2, <1>3, <1>13 DEF M1Fits
<1>17. Bonds
  <2>1. Now.op # "start"
    <3>1. script # "smoke" => Now.op = "prefund"
      BY <1>0, <1>1, FirstStep
    <3>2. script = "smoke" => Now.op = "reserve"
      BY <1>0, <1>1, M1Steps
    <3>. QED  BY <3>1, <3>2
  <2>. QED  BY <1>2, <2>1 DEF Bonds, BondReady, PqBond, H3Bond
<1>18. Snaps
  BY <1>2 DEF Snaps
<1>19. Waited
  <2>1. script # "smoke" => Now.op = "prefund"
    BY <1>0, <1>1, FirstStep
  <2>2. script = "smoke" => Now.op = "reserve"
    BY <1>0, <1>1, M1Steps
  <2>. QED  BY <2>1, <2>2 DEF Waited
<1>. QED  BY <1>1, <1>4, <1>7, <1>8, <1>9, <1>10, <1>12, <1>14, <1>15, <1>16, <1>17, <1>18,
             <1>19 DEF ScriptInv, Coins, Balances

\* Nothing happens: the program, the script and the transactions stay as they are.
LEMMA StutterInv ==
  ASSUME Configured, ScriptInv, UNCHANGED allVars
  PROVE  ScriptInv'
<1>0. /\ ScriptTypes /\ ProgInv /\ TypeOK /\ LateOnes /\ Flying /\ Repeating
      /\ RecordsHold /\ NothingThrows
  BY InvMeans
<1>1. UNCHANGED <<vars, script, run, pc, phase, tx, snap, failed, late>>
  BY DEF allVars, scriptVars
<1>2. UNCHANGED <<supply, vault, fees, wallet, registry, head, sub, escrow, allowance>>
  BY <1>1 DEF vars
<1>3. ProgInv' /\ (Down' <=> Down)
  BY <1>0, <1>1, SameProgram DEF Down
<1>4. Waited'
  <2>1. \A x \in Serials : head'[x].age \in Nat /\ head'[x].age >= head[x].age
    <3>. SUFFICES ASSUME NEW x \in Serials
                  PROVE  head'[x].age \in Nat /\ head'[x].age >= head[x].age
      OBVIOUS
    <3>1. head[x].age \in Nat
      BY <1>0, AgeNat
    <3>. QED  BY <1>2, <3>1
  <2>. QED  BY <1>1, <1>3, <2>1, WaitQuiet
<1>5. Flying'
  <2>. PICK x : x = Label(Now.l)
    OBVIOUS
  <2>. QED  BY <1>0, <1>1, <1>2, FlyingStays
<1>6. LateOnes' /\ Cardinality(late') <= Cardinality(late) /\ Cardinality(late') \in Nat
  <2>1. Round' = Round
    BY <1>1 DEF Round, Down
  <2>2. Cardinality(late) \in Nat
    BY <1>0, LateNat
  <2>. QED  BY <1>0, <1>1, <2>1, <2>2, LateSame
<1>7. phase' \in Phases /\ (phase' \in {"again", "dead", "twice"} => run < Runs)
  BY <1>0, <1>1 DEF ScriptTypes, Phases
<1>8. Repeating' /\ (phase = "twice" => Landed(tx)')
  <2>. PICK x : x = tx.sn
    OBVIOUS
  <2>1. late' \subseteq late
    BY <1>1
  <2>. QED  BY <1>0, <1>1, <1>2, <2>1, RepeatingStays
<1>9. RecordsHold' /\ NothingThrows'
  <2>1. (phase = "twice")' => Landed(tx)'
    BY <1>1, <1>8
  <2>2. (phase = "threw")' => Paid'
    BY <1>0, <1>1, <1>2 DEF NothingThrows, Paid, Spent, Label
  <2>. QED  BY <1>0, <1>1, <2>1, <2>2 DEF RecordsHold, NothingThrows
<1>. QED  BY <1>1, <1>2, <1>3, <1>4, <1>5, <1>6, <1>7, <1>8, <1>9, StillInv

\* Every step keeps the invariant.
LEMMA StepInv ==
  ASSUME Configured, ScriptInv, [ScriptNext]_allVars
  PROVE  ScriptInv'
<1>1. CASE Go
  BY <1>1, SkipInv, SendInv, LandInv, FailsInv, RepeatsInv, RepeatFailsInv, PrefundInv,
     TopUpInv, BondInv, ReserveInv, WaitInv, SnapshotInv, RecordInv, RerunInv DEF Go
<1>2. CASE Crash
  BY <1>2, CrashInv
<1>3. CASE LateLand
  BY <1>3, LateLandInv
<1>4. CASE LateLost
  BY <1>4, LostInv
<1>5. CASE Pass
  BY <1>5, PassInv
<1>6. CASE UNCHANGED allVars
  BY <1>6, StutterInv
<1>7. CASE LandUnconfirmed
  BY <1>7, LandInv
<1>. QED  BY <1>1, <1>2, <1>3, <1>4, <1>5, <1>6, <1>7 DEF ScriptNext

\* The scripts' view of the program holds in every run: the coins are where the
\* step expects them, and wallets, vault and cap have room for what is left to do.
THEOREM ScriptsFit == Configured => (ScriptSpec => []ScriptInv)
<1>. SUFFICES ASSUME Configured PROVE ScriptSpec => []ScriptInv
  OBVIOUS
<1>1. ScriptInit => ScriptInv
  BY InitInv
<1>2. ScriptInv /\ [ScriptNext]_allVars => ScriptInv'
  BY StepInv
<1>. QED  BY <1>1, <1>2, PTL DEF ScriptSpec

\* record() of e2e-matrix.ts and e2e-matrix-pq.ts: however often a script is
\* interrupted and run again, and whenever the transactions of dead PQ runs land,
\* every record of what the program did is PASS, each expected refusal with the code
\* asked for.  Where confirmations may be refused, E8a alone may be a FAIL.
THEOREM RecordsAllPass == Configured => (ScriptSpec => []RecordsHold)
<1>. SUFFICES ASSUME Configured PROVE ScriptSpec => []RecordsHold
  OBVIOUS
<1>1. ScriptInv => RecordsHold
  BY DEF ScriptInv
<1>2. ScriptSpec => []ScriptInv
  BY ScriptsFit
<1>. QED  BY <1>1, <1>2, PTL

\* The program refuses nothing a run needs: a run ends with an error only in the
\* smoke test when its coin has been paid out, or when send, after a confirmation
\* refused with 429, sends once more what has already done its work.
THEOREM NoRunThrows == Configured => (ScriptSpec => []NothingThrows)
<1>. SUFFICES ASSUME Configured PROVE ScriptSpec => []NothingThrows
  OBVIOUS
<1>1. ScriptInv => NothingThrows
  BY DEF ScriptInv
<1>2. ScriptSpec => []ScriptInv
  BY ScriptsFit
<1>. QED  BY <1>1, <1>2, PTL
=============================================================================
