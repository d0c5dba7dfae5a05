--------------------------- MODULE ObpCore_proofs ---------------------------
(***************************************************************************)
(* Theorems about ObpCore, for every number of coins, wallets and values,  *)
(* every window and bond rate, and every batch of links.  First the        *)
(* helpers and the types; then the safety invariants about bonds, heads,   *)
(* chains and winners: what each instruction does to the fields they speak *)
(* of, one lemma per invariant, and the theorems.  Then the sums: the      *)
(* vault backs the open coins, the allowances cover them, no token is      *)
(* created or lost, and every claim can therefore be paid.                 *)
(***************************************************************************)
EXTENDS ObpCore, FiniteSetTheorems, TLAPS

-----------------------------------------------------------------------------
(* The helpers of ObpState. *)

\* bond_amount returns a natural number, and (I3) at least the coin's value.
LEMMA BondCovers ==
  ASSUME NEW v \in Nat
  PROVE  BondAmount(v, BondBps) \in Nat /\ BondAmount(v, BondBps) >= v
<1>1. BondBps \in Nat /\ BondBps >= 10000
  BY ConfigAssumption
<1>2. v * BondBps \in Nat /\ v * BondBps >= v * 10000
  BY <1>1
<1>3. QED
  BY <1>2 DEF BondAmount

\* The hash of a state is a hash.
LEMMA StateHashType ==
  ASSUME NEW s \in State
  PROVE  StateHash(s) \in Hash
BY DEF State, StateHash, Hash, Core

\* genesis_state builds a state.
LEMMA GenesisType ==
  ASSUME NEW sn \in Serials, NEW v \in Values, NEW w \in Wallets
  PROVE  GenesisState(sn, v, w) \in State
BY DEF GenesisState, State, Hash, ZeroHash

-----------------------------------------------------------------------------
(* The records of the accounts, one field updated. *)

\* A registered coin with a field changed is one.
LEMMA RegistryUpdate ==
  ASSUME NEW r \in Registries
  PROVE  /\ \A st \in {"NONE", "ACTIVE", "SPENT"} :
              [r EXCEPT !.status = st] \in Registries
         /\ \A n \in 0..2 : [r EXCEPT !.count = n] \in Registries
BY DEF Registries

\* A submission with a field changed is one.
LEMMA SubmissionUpdate ==
  ASSUME NEW r \in Submissions
  PROVE  \A st \in {"NONE", "RECEIVING", "PENDING", "REJECTED", "WON", "LOST"} :
           [r EXCEPT !.status = st] \in Submissions
BY DEF Submissions

\* A submission with more states is one.
LEMMA SubmissionAppend ==
  ASSUME NEW r \in Submissions, NEW ss \in Seq(State), NEW w \in Wallets
  PROVE  [r EXCEPT !.states = ss, !.final_owner = w] \in Submissions
BY DEF Submissions

\* A head with another age is one.
LEMMA HeadUpdate ==
  ASSUME NEW h \in Heads, NEW n \in 0..MaxAge
  PROVE  [h EXCEPT !.age = n] \in Heads
BY DEF Heads

\* An allowance with another cap or committed value is one.
LEMMA AllowanceUpdate ==
  ASSUME NEW al \in Allowances, NEW n \in Nat
  PROVE  [al EXCEPT !.cap = n] \in Allowances /\ [al EXCEPT !.committed = n] \in Allowances
BY DEF Allowances

-----------------------------------------------------------------------------
(* Types. *)

\* The empty accounts have the types of TypeOK.
LEMMA InitTypes == Init => TypeOK
<1> SUFFICES ASSUME Init PROVE TypeOK
  OBVIOUS
<1>1. NoCoin \in Registries
  BY DEF NoCoin, Registries, ZeroHash, Hash
<1>2. NoHead \in Heads
  BY ConfigAssumption
  DEF NoHead, Heads, NoState, ZeroHash, State, Attempts, MaxSubmissionStates, MaxAge
<1>3. NoSub \in Submissions
  BY DEF NoSub, Submissions
<1>4. AccountTypes
  BY <1>1, <1>2, <1>3, AccountAssumption DEF Init, AccountTypes, Allowances
<1>5. RegistryWritten /\ SubmissionWritten
  BY DEF Init, RegistryWritten, SubmissionWritten, NoCoin, NoSub
<1>6. QED
  BY <1>4, <1>5 DEF TypeOK

\* There are two attempts.
LEMMA OtherAttempt ==
  ASSUME NEW a \in Attempts
  PROVE  /\ Other(a) \in Attempts /\ Other(a) # a
         /\ \A b \in Attempts : b = a \/ b = Other(a)
BY DEF Attempts, Other

\* Bonds and values are numbers.
LEMMA BondNat ==
  ASSUME AccountTypes, NEW sn \in Serials
  PROVE  Bond(sn) \in Nat /\ registry[sn].value \in Nat
BY BondCovers DEF Bond, Registries, AccountTypes

\* The last state and the length of a submission that exists.
LEMMA StartedSubmission ==
  ASSUME TypeOK, NEW sn \in Serials, NEW a \in Attempts, sub[sn][a].status # "NONE"
  PROVE  /\ registry[sn].status # "NONE" /\ registry[sn].recipient \in Wallets
         /\ sub[sn][a].checker \in Wallets /\ sub[sn][a].final_owner \in Wallets
         /\ sub[sn][a].states \in Seq(State)
         /\ Len(sub[sn][a].states) \in 1..MaxSubmissionStates
         /\ LastState(sub[sn][a]) \in State
         /\ HeadOf(sn, a) \in Heads
<1>1. /\ registry[sn].status # "NONE" /\ registry[sn].recipient \in Wallets
      /\ sub[sn][a].checker \in Wallets /\ sub[sn][a].final_owner \in Wallets
      /\ Len(sub[sn][a].states) \in 1..MaxSubmissionStates
  BY DEF TypeOK, RegistryWritten, SubmissionWritten
<1>2. sub[sn][a].states \in Seq(State)
  BY DEF TypeOK, AccountTypes, Submissions
<1>3. LastState(sub[sn][a]) \in State
  <2> DEFINE ss == sub[sn][a].states
  <2>1. Len(ss) \in DOMAIN ss /\ ss \in [1..Len(ss) -> State]
    <3>1. ss \in Seq(State) /\ Len(ss) \in 1..4
      BY <1>1, <1>2 DEF MaxSubmissionStates
    <3> HIDE DEF ss
    <3>2. QED
      BY <3>1
  <2>2. ss[Len(ss)] \in State
    <3> HIDE DEF ss
    <3>1. QED
      BY <2>1
  <2>3. QED
    BY <2>2 DEF LastState
<1>4. HeadOf(sn, a) \in Heads
  BY <1>1, <1>3, ConfigAssumption DEF HeadOf, Heads, MaxAge, MaxSubmissionStates
<1>5. QED
  BY <1>1, <1>2, <1>3, <1>4

\* A step that keeps the recipients and the owners, starts no submission and
\* unmints no coin keeps the written fields written.
LEMMA WrittenStep ==
  ASSUME TypeOK,
         \A sn \in Serials :
           /\ registry'[sn].recipient = registry[sn].recipient
           /\ registry'[sn].status = "NONE" <=> registry[sn].status = "NONE"
         , 
         \A sn \in Serials, a \in Attempts :
           /\ sub'[sn][a].status # "NONE" => sub[sn][a].status # "NONE"
           /\ sub'[sn][a].checker = sub[sn][a].checker
           /\ sub'[sn][a].final_owner = sub[sn][a].final_owner
           /\ sub'[sn][a].states = sub[sn][a].states
  PROVE  RegistryWritten' /\ SubmissionWritten'
BY DEF TypeOK, RegistryWritten, SubmissionWritten

\* Every instruction keeps the types of the accounts it writes.
LEMMA TypeStep == TypeOK /\ [Next]_vars => TypeOK'
<1> SUFFICES ASSUME TypeOK, [Next]_vars PROVE TypeOK'
  OBVIOUS
<1>types. AccountTypes
  BY DEF TypeOK
<1>values. Values \subseteq Nat
  BY DataAssumption
<1>1. ASSUME NEW n \in Amounts, FundVault(n) PROVE TypeOK'
  BY <1>1, InputAssumption
  DEF FundVault, Accounts, TypeOK, AccountTypes, RegistryWritten, SubmissionWritten
<1>3. ASSUME NEW sn \in Serials, NEW v \in Values, NEW w \in Wallets,
             MintCoin(sn, v, w)
      PROVE  TypeOK'
  <2> DEFINE al == OpenAllowance(w)
             minted == [status |-> "ACTIVE", value |-> v, recipient |-> w,
                        genesis |-> StateHash(GenesisState(sn, v, w)), count |-> 0]
  <2>1. al \in Allowances
    BY ConfigAssumption DEF OpenAllowance, Allowances, TypeOK, AccountTypes
  <2>2. minted \in Registries
    BY GenesisType, StateHashType, <1>values DEF Registries
  <2>3. al.committed + v \in Nat
    BY <2>1, <1>values DEF Allowances
  <2>4. [al EXCEPT !.committed = @ + v] \in Allowances
    BY <2>1, <2>3, AllowanceUpdate
  <2>5. /\ allowance' = [allowance EXCEPT ![w] = [al EXCEPT !.committed = @ + v]]
        /\ registry' = [registry EXCEPT ![sn] = minted]
        /\ supply' = supply + v
        /\ UNCHANGED <<vault, fees, wallet, head, sub, escrow>>
        /\ registry[sn].status = "NONE"
    BY <1>3 DEF MintCoin, CanMint, MintFits
  <2>6. minted.recipient = w /\ minted.status # "NONE"
    OBVIOUS
  <2> HIDE DEF al, minted
  <2>7. AccountTypes'
    BY <2>2, <2>4, <2>5, <1>values DEF TypeOK, AccountTypes
  <2>8. RegistryWritten' /\ SubmissionWritten'
    BY <2>5, <2>6 DEF TypeOK, AccountTypes, RegistryWritten, SubmissionWritten
  <2>9. QED
    BY <2>7, <2>8 DEF TypeOK
<1>4. ASSUME NEW w \in Wallets, NEW cap \in Caps, SetAllowance(w, cap)
      PROVE  TypeOK'
  <2>1. AccountTypes'
    BY <1>4, InputAssumption, AllowanceUpdate DEF SetAllowance, TypeOK, AccountTypes
  <2>2. QED
    BY <1>4, <2>1 DEF SetAllowance, TypeOK, RegistryWritten, SubmissionWritten
<1>5. ASSUME NEW sn \in Serials, NEW a \in Attempts, NEW c \in Wallets,
             NEW st \in State, StartCheckIn(sn, a, c, st)
      PROVE  TypeOK'
  <2> DEFINE started == [status |-> "RECEIVING", checker |-> c,
                         final_owner |-> st.owner, states |-> <<st>>]
  <2>1. registry[sn].count + 1 \in 0..2
    <3>1. registry[sn] \in Registries /\ registry[sn].count < 2
      BY <1>5, <1>types DEF StartCheckIn, AccountTypes, CanStart
    <3>2. QED
      BY <3>1 DEF Registries
  <2>2. started \in Submissions /\ st.owner \in Wallets
    BY DEF Submissions, State
  <2>3. /\ started.checker = c /\ started.final_owner = st.owner
        /\ Len(started.states) = 1
    OBVIOUS
  <2>4. /\ registry[sn].status = "ACTIVE" /\ wallet[c] >= Bond(sn)
        /\ registry' = [registry EXCEPT ![sn].count = @ + 1]
        /\ sub' = [sub EXCEPT ![sn][a] = started]
        /\ wallet' = [wallet EXCEPT ![c] = @ - Bond(sn)]
        /\ escrow' = [escrow EXCEPT ![sn][a] = @ + Bond(sn)]
        /\ UNCHANGED <<supply, vault, fees, head, allowance>>
    BY <1>5 DEF StartCheckIn, CanStart
  <2> HIDE DEF started
  <2>5. registry' \in [Serials -> Registries]
    BY <2>1, <2>4, <1>types, RegistryUpdate DEF AccountTypes
  <2>6. sub' \in [Serials -> [Attempts -> Submissions]]
    BY <2>2, <2>4, <1>types DEF AccountTypes
  <2>7. wallet' \in [Accounts -> Nat] /\ escrow' \in [Serials -> [Attempts -> Nat]]
    BY <2>4, <1>types, BondNat DEF AccountTypes, Accounts
  <2>8. RegistryWritten' /\ SubmissionWritten'
    <3>1. \A s \in Serials : /\ registry'[s].recipient = registry[s].recipient
                             /\ registry'[s].status = registry[s].status
      BY <2>4, <1>types DEF AccountTypes, Registries
    <3>2. \A s \in Serials, b \in Attempts :
            sub'[s][b] = IF s = sn /\ b = a THEN started ELSE sub[s][b]
      BY <2>4, <1>types DEF AccountTypes
    <3>3. QED
      BY <2>2, <2>3, <2>4, <3>1, <3>2
      DEF TypeOK, RegistryWritten, SubmissionWritten, MaxSubmissionStates
  <2>9. QED
    BY <2>4, <2>5, <2>6, <2>7, <2>8 DEF TypeOK, AccountTypes
<1>6. ASSUME NEW sn \in Serials, NEW a \in Attempts, NEW links \in LinkBatches,
             NEW w \in Wallets, NEW h, AppendLinks(sn, a, w, links, h)
      PROVE  TypeOK'
  <2> DEFINE s == sub[sn][a]
             ss == s.states \o links
             o == links[Len(links)].owner
  <2>1. links \in Seq(State) /\ links # <<>>
    BY <1>6, InputAssumption DEF AppendLinks, CanAppend, LinksFit, BatchFits
  <2>2. Len(links) \in Nat \ {0} /\ links[Len(links)] \in State
    BY <2>1
  <2>3. o \in Wallets
    BY <2>2 DEF State
  <2>4. s \in Submissions /\ s.status # "NONE"
    BY <1>6, <1>types DEF AppendLinks, CanAppend, LinksFit, AccountTypes, BatchFits
  <2>5. s.states \in Seq(State) /\ Len(s.states) \in 1..MaxSubmissionStates
    BY <2>4, StartedSubmission
  <2>6. ss \in Seq(State) /\ Len(ss) = Len(s.states) + Len(links)
    BY <2>1, <2>5
  <2>7. Len(ss) \in 1..MaxSubmissionStates
    <3>1. Len(s.states) + Len(links) <= MaxSubmissionStates
      BY <1>6 DEF AppendLinks, CanAppend, LinksFit, BatchFits
    <3> HIDE DEF s, ss
    <3>2. QED
      BY <2>2, <2>5, <2>6, <3>1 DEF MaxSubmissionStates
  <2> DEFINE longer == [s EXCEPT !.states = ss, !.final_owner = o]
  <2>8. longer \in Submissions
    BY <2>3, <2>4, <2>6, SubmissionAppend
  <2>9. /\ longer.checker = s.checker /\ longer.final_owner = o
        /\ longer.states = ss /\ longer.status = s.status
    BY <2>4 DEF Submissions
  <2>10. /\ sub' = [sub EXCEPT ![sn][a] = longer]
         /\ UNCHANGED <<supply, vault, fees, wallet, registry, head, escrow, allowance>>
    BY <1>6, <1>types DEF AppendLinks, CanAppend, LinksFit, AccountTypes, BatchFits
  <2> HIDE DEF longer, ss, o
  <2>11. AccountTypes'
    BY <2>8, <2>10, <1>types DEF AccountTypes
  <2>12. \A t \in Serials, b \in Attempts :
           sub'[t][b] = IF t = sn /\ b = a THEN longer ELSE sub[t][b]
    BY <2>10, <1>types DEF AccountTypes
  <2>13. RegistryWritten' /\ SubmissionWritten'
    BY <2>3, <2>4, <2>7, <2>9, <2>10, <2>12, StartedSubmission
    DEF TypeOK, RegistryWritten, SubmissionWritten
  <2>14. QED
    BY <2>11, <2>13 DEF TypeOK
<1>7. ASSUME NEW sn \in Serials, NEW a \in Attempts, FinRejectSpent(sn, a)
      PROVE  TypeOK'
  <2>1. sub' \in [Serials -> [Attempts -> Submissions]]
    BY <1>7, <1>types, SubmissionUpdate DEF FinRejectSpent, AccountTypes, CanReject
  <2>2. AccountTypes'
    BY <1>7, <1>types, <2>1, BondNat DEF FinRejectSpent, AccountTypes, CanReject
  <2>3. \A s \in Serials, b \in Attempts :
          /\ sub'[s][b].status # "NONE" => sub[s][b].status # "NONE"
          /\ sub'[s][b].checker = sub[s][b].checker
          /\ sub'[s][b].final_owner = sub[s][b].final_owner
          /\ sub'[s][b].states = sub[s][b].states
    BY <1>7, <1>types DEF FinRejectSpent, CanFinalize, AccountTypes, Submissions, CanReject
  <2>4. RegistryWritten' /\ SubmissionWritten'
    BY <1>7, <2>3, WrittenStep DEF FinRejectSpent, CanReject
  <2>5. QED
    BY <2>2, <2>4 DEF TypeOK
<1>8. ASSUME NEW sn \in Serials, NEW a \in Attempts, FinSetHead(sn, a)
      PROVE  TypeOK'
  <2>1. sub' \in [Serials -> [Attempts -> Submissions]]
    BY <1>8, <1>types, SubmissionUpdate DEF FinSetHead, AccountTypes, CanSetHead
  <2>2. HeadOf(sn, a) \in Heads
    BY <1>8, StartedSubmission DEF FinSetHead, CanFinalize, CanSetHead
  <2>3. AccountTypes'
    BY <1>8, <1>types, <2>1, <2>2 DEF FinSetHead, AccountTypes, CanSetHead
  <2>4. \A s \in Serials, b \in Attempts :
          /\ sub'[s][b].status # "NONE" => sub[s][b].status # "NONE"
          /\ sub'[s][b].checker = sub[s][b].checker
          /\ sub'[s][b].final_owner = sub[s][b].final_owner
          /\ sub'[s][b].states = sub[s][b].states
    BY <1>8, <1>types DEF FinSetHead, CanFinalize, AccountTypes, Submissions, CanSetHead
  <2>5. RegistryWritten' /\ SubmissionWritten'
    BY <1>8, <2>4, WrittenStep DEF FinSetHead, CanSetHead
  <2>6. QED
    BY <2>3, <2>5 DEF TypeOK
<1>9. ASSUME NEW sn \in Serials, NEW a \in Attempts, FinResolveWin(sn, a)
      PROVE  TypeOK'
  <2> DEFINE s == sub[sn][a]
             v == registry[sn].value
             r == registry[sn].recipient
  <2>1. s.status = "RECEIVING" /\ sub[sn][Other(a)].status = "PENDING"
    BY <1>9 DEF FinResolveWin, CanWin, CanResolve, CanFinalize
  <2>2. /\ s.checker \in Accounts /\ s.final_owner \in Accounts
        /\ r \in Wallets /\ HeadOf(sn, a) \in Heads
        /\ registry[sn].status # "NONE"
    BY <2>1, StartedSubmission DEF Accounts
  <2>3. v \in Nat /\ Bond(sn) \in Nat /\ Other(a) \in Attempts
    BY <1>types, BondNat, OtherAttempt
  <2>4. sub' \in [Serials -> [Attempts -> Submissions]]
    BY <1>9, <1>types, <2>3, SubmissionUpdate DEF FinResolveWin, CanWin, AccountTypes
  <2>5. head' \in [Serials -> Heads] /\ registry' \in [Serials -> Registries]
    BY <1>9, <1>types, <2>2, RegistryUpdate DEF FinResolveWin, CanWin, AccountTypes
  <2>6. allowance' \in [Wallets -> Allowances]
    <3>1. allowance[r].committed - v \in Nat
      BY <1>9, <1>types, <2>2, <2>3 DEF FinResolveWin, CanWin, AccountTypes, Allowances
    <3>2. QED
      BY <1>9, <1>types, <2>2, <3>1, AllowanceUpdate DEF FinResolveWin, CanWin, AccountTypes
  <2>7. wallet' \in [Accounts -> Nat]
    <3> DEFINE paid == [wallet EXCEPT ![s.checker] = @ + 2 * Bond(sn)]
    <3>1. paid \in [Accounts -> Nat]
      BY <1>types, <2>2, <2>3 DEF AccountTypes
    <3>2. wallet' = [paid EXCEPT ![s.final_owner] = @ + v]
      BY <1>9 DEF FinResolveWin, CanWin
    <3> HIDE DEF paid
    <3>3. QED
      BY <2>2, <2>3, <3>1, <3>2
  <2>8. escrow' \in [Serials -> [Attempts -> Nat]]
    <3>1. \A b \in Attempts : escrow[sn][b] - Bond(sn) \in Nat
      BY <1>9, <1>types, <2>3, OtherAttempt DEF FinResolveWin, CanWin, CanResolve, AccountTypes
    <3>2. escrow' = [escrow EXCEPT ![sn] = [b \in Attempts |-> escrow[sn][b] - Bond(sn)]]
      BY <1>9 DEF FinResolveWin, CanWin
    <3>3. QED
      BY <1>types, <3>1, <3>2 DEF AccountTypes
  <2>9. supply' \in Nat /\ vault' \in Nat /\ fees' \in Nat
    BY <1>9, <1>types, <2>3 DEF FinResolveWin, CanWin, AccountTypes
  <2>10. \A t \in Serials, b \in Attempts :
          /\ sub'[t][b].status # "NONE" => sub[t][b].status # "NONE"
          /\ sub'[t][b].checker = sub[t][b].checker
          /\ sub'[t][b].final_owner = sub[t][b].final_owner
          /\ sub'[t][b].states = sub[t][b].states
    <3>1. \A t \in Serials, b \in Attempts :
            sub'[t][b] = IF t = sn /\ b = Other(a) THEN [sub[t][b] EXCEPT !.status = "LOST"]
                         ELSE IF t = sn /\ b = a THEN [sub[t][b] EXCEPT !.status = "WON"]
                         ELSE sub[t][b]
      BY <1>9, <1>types, <2>3, OtherAttempt DEF FinResolveWin, CanWin, AccountTypes
    <3>2. \A t \in Serials, b \in Attempts : sub[t][b] \in Submissions
      BY <1>types DEF AccountTypes
    <3>3. QED
      <4>1. \A x \in Submissions : \A st \in {"WON", "LOST"} :
              LET y == [x EXCEPT !.status = st] IN
              y.checker = x.checker /\ y.final_owner = x.final_owner /\ y.states = x.states
        BY DEF Submissions
      <4>2. QED
        BY <2>1, <3>1, <3>2, <4>1
  <2>11. \A t \in Serials :
           /\ registry'[t].recipient = registry[t].recipient
           /\ registry'[t].status = "NONE" <=> registry[t].status = "NONE"
    BY <1>9, <1>types, <2>2 DEF FinResolveWin, CanWin, AccountTypes, Registries
  <2>12. RegistryWritten' /\ SubmissionWritten'
    BY <2>10, <2>11, WrittenStep
  <2>13. QED
    BY <2>4, <2>5, <2>6, <2>7, <2>8, <2>9, <2>12 DEF TypeOK, AccountTypes
<1>10. ASSUME NEW sn \in Serials, NEW a \in Attempts, FinResolveLose(sn, a)
       PROVE  TypeOK'
  <2>1. sub[sn][a].status = "RECEIVING" /\ sub[sn][Other(a)].status = "PENDING"
    BY <1>10 DEF FinResolveLose, CanResolve, CanFinalize
  <2>2. sub' \in [Serials -> [Attempts -> Submissions]]
    BY <1>10, <1>types, SubmissionUpdate DEF FinResolveLose, AccountTypes
  <2>3. sub[sn][Other(a)].checker \in Accounts
    BY <2>1, StartedSubmission, OtherAttempt DEF Accounts
  <2>4. wallet' \in [Accounts -> Nat] /\ escrow' \in [Serials -> [Attempts -> Nat]]
    BY <1>10, <1>types, <2>3, BondNat DEF FinResolveLose, CanResolve, AccountTypes
  <2>5. AccountTypes'
    BY <1>10, <1>types, <2>2, <2>4 DEF FinResolveLose, AccountTypes
  <2>6. \A t \in Serials, b \in Attempts :
          /\ sub'[t][b].status # "NONE" => sub[t][b].status # "NONE"
          /\ sub'[t][b].checker = sub[t][b].checker
          /\ sub'[t][b].final_owner = sub[t][b].final_owner
          /\ sub'[t][b].states = sub[t][b].states
    BY <1>10, <1>types, <2>1 DEF FinResolveLose, AccountTypes, Submissions
  <2>7. RegistryWritten' /\ SubmissionWritten'
    BY <1>10, <2>6, WrittenStep DEF FinResolveLose
  <2>8. QED
    BY <2>5, <2>7 DEF TypeOK
<1>11. ASSUME NEW sn \in Serials, NEW a \in Attempts, NEW withOther \in BOOLEAN,
              NEW withAllowance \in BOOLEAN, Settle(sn, a, withOther, withAllowance)
       PROVE  TypeOK'
  <2> DEFINE s == sub[sn][a]
             v == registry[sn].value
             r == registry[sn].recipient
             swept == Sweeps(sn, a, withOther)
             settled(b) == IF b = a THEN [sub[sn][b] EXCEPT !.status = "WON"]
                           ELSE IF swept THEN [sub[sn][b] EXCEPT !.status = "REJECTED"]
                           ELSE sub[sn][b]
  <2>1. s.status = "PENDING" /\ (swept => sub[sn][Other(a)].status = "RECEIVING")
    BY <1>11 DEF Settle, CanSettle, Sweeps, CanPayOut
  <2>2. /\ s.checker \in Accounts /\ s.final_owner \in Accounts
        /\ r \in Wallets /\ registry[sn].status # "NONE"
    BY <2>1, StartedSubmission DEF Accounts
  <2>3. v \in Nat /\ Bond(sn) \in Nat
    BY <1>types, BondNat
  <2>4. sub' = [sub EXCEPT ![sn] = [b \in Attempts |-> settled(b)]]
    BY <1>11 DEF Settle, CanPayOut
  <2>5. \A b \in Attempts : settled(b) \in Submissions
    BY <1>types, SubmissionUpdate DEF AccountTypes
  <2>6. \A b \in Attempts :
          /\ settled(b).status # "NONE" => sub[sn][b].status # "NONE"
          /\ settled(b).checker = sub[sn][b].checker
          /\ settled(b).final_owner = sub[sn][b].final_owner
          /\ settled(b).states = sub[sn][b].states
    BY <1>types, <2>1, OtherAttempt DEF AccountTypes, Submissions
  <2> HIDE DEF settled
  <2>7. sub' \in [Serials -> [Attempts -> Submissions]]
    BY <1>types, <2>4, <2>5 DEF AccountTypes
  <2>8. \A t \in Serials, b \in Attempts :
          /\ sub'[t][b].status # "NONE" => sub[t][b].status # "NONE"
          /\ sub'[t][b].checker = sub[t][b].checker
          /\ sub'[t][b].final_owner = sub[t][b].final_owner
          /\ sub'[t][b].states = sub[t][b].states
    BY <1>types, <2>4, <2>6 DEF AccountTypes
  <2>9. registry' \in [Serials -> Registries] /\ head' \in [Serials -> Heads]
    BY <1>11, <1>types, RegistryUpdate DEF Settle, AccountTypes, CanPayOut
  <2>10. \A t \in Serials :
           /\ registry'[t].recipient = registry[t].recipient
           /\ registry'[t].status = "NONE" <=> registry[t].status = "NONE"
    BY <1>11, <1>types, <2>2 DEF Settle, AccountTypes, Registries, CanPayOut
  <2>11. allowance' \in [Wallets -> Allowances]
    <3>1. CASE withAllowance
      <4>1. allowance[r].committed - v \in Nat
        BY <1>11, <1>types, <2>2, <2>3, <3>1 DEF Settle, AccountTypes, Allowances, CanPayOut
      <4>2. QED
        BY <1>11, <1>types, <2>2, <3>1, <4>1, AllowanceUpdate DEF Settle, AccountTypes, CanPayOut
    <3>2. CASE ~withAllowance
      BY <1>11, <1>types, <3>2 DEF Settle, AccountTypes, CanPayOut
    <3>3. QED
      BY <3>1, <3>2
  <2>12. wallet' \in [Accounts -> Nat]
    <3> DEFINE paid == [wallet EXCEPT ![s.final_owner] = @ + v]
    <3>1. paid \in [Accounts -> Nat]
      BY <1>types, <2>2, <2>3 DEF AccountTypes
    <3>2. wallet' = [paid EXCEPT ![s.checker] = @ + Bond(sn)]
      BY <1>11 DEF Settle, CanPayOut
    <3> HIDE DEF paid
    <3>3. QED
      BY <2>2, <2>3, <3>1, <3>2
  <2>13. escrow' \in [Serials -> [Attempts -> Nat]]
    <3>1. \A b \in Attempts : b = a \/ swept => escrow[sn][b] >= Bond(sn)
      BY <1>11, OtherAttempt DEF Settle, CanPayOut
    <3>2. escrow' = [escrow EXCEPT ![sn] =
            [b \in Attempts |-> IF b = a \/ swept
                                THEN escrow[sn][b] - Bond(sn) ELSE escrow[sn][b]]]
      BY <1>11 DEF Settle, CanPayOut
    <3> HIDE DEF swept
    <3>3. QED
      BY <1>types, <2>3, <3>1, <3>2 DEF AccountTypes
  <2>14. supply' \in Nat /\ vault' \in Nat /\ fees' \in Nat
    BY <1>11, <1>types, <2>3 DEF Settle, AccountTypes, CanPayOut
  <2>15. RegistryWritten' /\ SubmissionWritten'
    BY <2>8, <2>10, WrittenStep
  <2>16. QED
    BY <2>7, <2>9, <2>11, <2>12, <2>13, <2>14, <2>15 DEF TypeOK, AccountTypes
<1>12. CASE Tick
  <2>1. \A sn \in Serials : head[sn].set /\ head[sn].age < MaxAge =>
          [head[sn] EXCEPT !.age = @ + 1] \in Heads
    <3>1. \A sn \in Serials : head[sn].age \in 0..MaxAge /\ MaxAge \in Nat
      <4>1. \A sn \in Serials : head[sn] \in Heads
        BY <1>types DEF AccountTypes
      <4>2. QED
        BY <4>1, ConfigAssumption DEF Heads, MaxAge
    <3>2. QED
      <4> SUFFICES ASSUME NEW sn \in Serials, head[sn].age < MaxAge
                   PROVE  [head[sn] EXCEPT !.age = @ + 1] \in Heads
        OBVIOUS
      <4>1. head[sn] \in Heads /\ head[sn].age + 1 \in 0..MaxAge
        BY <1>types, <3>1 DEF AccountTypes
      <4>2. QED
        BY <4>1, HeadUpdate
  <2>2. head' \in [Serials -> Heads]
    BY <1>12, <1>types, <2>1 DEF Tick, AccountTypes
  <2>3. QED
    BY <1>12, <2>2 DEF Tick, TypeOK, AccountTypes, RegistryWritten, SubmissionWritten
<1>13. CASE UNCHANGED vars
  BY <1>13 DEF vars, TypeOK, AccountTypes, RegistryWritten, SubmissionWritten
<1>14. QED
  BY <1>1, <1>3, <1>4, <1>5, <1>6, <1>7, <1>8, <1>9, <1>10, <1>11, <1>12,
     <1>13, GenesisType
  DEF Next, FinalizeCheckIn

\* In every reachable state the accounts have their types: in particular no
\* counter or balance of a u64 field is ever driven below zero.
THEOREM TypeCorrect == Spec => []TypeOK
<1>1. QED
  BY InitTypes, TypeStep, PTL DEF Spec
-----------------------------------------------------------------------------
\* What a step leaves alone.
KeepChains ==
  \A s \in Serials, b \in Attempts :
    /\ sub'[s][b].states = sub[s][b].states
    /\ sub'[s][b].checker = sub[s][b].checker
    /\ sub'[s][b].final_owner = sub[s][b].final_owner

KeepCoins ==
  \A s \in Serials :
    /\ registry'[s].value = registry[s].value
    /\ registry'[s].recipient = registry[s].recipient
    /\ registry'[s].genesis = registry[s].genesis

KeepHeads ==
  \A s \in Serials :
    /\ head'[s].set = head[s].set
    /\ head'[s].state = head[s].state
    /\ head'[s].attempt = head[s].attempt
    /\ head'[s].len = head[s].len

-----------------------------------------------------------------------------
(* The effect of each instruction. *)

\* Writing the status of a submission leaves its other fields alone.
LEMMA StatusWrite ==
  ASSUME NEW x \in Submissions, NEW st, NEW y, y = [x EXCEPT !.status = st]
  PROVE  /\ y.status = st /\ y.checker = x.checker
         /\ y.final_owner = x.final_owner /\ y.states = x.states
BY DEF Submissions

\* Funding, withdrawals, caps and time touch no coin and no submission.
LEMMA QuietEffect ==
  ASSUME TypeOK,
         \/ \E n \in Amounts : FundVault(n)
         \/ \E w \in Wallets, cap \in Caps : SetAllowance(w, cap)
         \/ Tick
         \/ UNCHANGED vars
  PROVE  registry' = registry /\ sub' = sub /\ escrow' = escrow /\ KeepHeads
<1>1. CASE Tick
  <2>1. \A s \in Serials : head[s] \in Heads
    BY DEF TypeOK, AccountTypes
  <2>2. KeepHeads
    BY <1>1, <2>1 DEF Tick, KeepHeads, Heads
  <2>3. QED
    BY <1>1, <2>2 DEF Tick
<1>2. CASE ~Tick
  BY <1>2 DEF FundVault, SetAllowance, vars, KeepHeads
<1>3. QED
  BY <1>1, <1>2

\* What mint_coin does to the fields the invariants speak of.
LEMMA MintEffect ==
  ASSUME TypeOK, NEW sn \in Serials, NEW v \in Values, NEW w \in Wallets,
         MintCoin(sn, v, w)
  PROVE  /\ registry[sn].status = "NONE"
         /\ registry'[sn].status = "ACTIVE" /\ registry'[sn].value = v
         /\ registry'[sn].recipient = w
         /\ registry'[sn].genesis = StateHash(GenesisState(sn, v, w))
         /\ \A s \in Serials \ {sn} : registry'[s] = registry[s]
         /\ sub' = sub /\ escrow' = escrow /\ head' = head
BY DEF MintCoin, CanMint, MintFits, TypeOK, AccountTypes

\* What start_check_in does to them.
LEMMA StartEffect ==
  ASSUME TypeOK, NEW sn \in Serials, NEW a \in Attempts, NEW c \in Wallets,
         NEW st \in State, StartCheckIn(sn, a, c, st)
  PROVE  /\ registry[sn].status = "ACTIVE" /\ sub[sn][a].status = "NONE"
         /\ escrow[sn][a] = 0 /\ StateHash(st) = registry[sn].genesis
         /\ KeepCoins /\ \A s \in Serials : registry'[s].status = registry[s].status
         /\ sub'[sn][a].status = "RECEIVING" /\ sub'[sn][a].states = <<st>>
         /\ \A s \in Serials, b \in Attempts :
              s # sn \/ b # a => sub'[s][b] = sub[s][b] /\ escrow'[s][b] = escrow[s][b]
         /\ escrow'[sn][a] = Bond(sn)
         /\ head' = head
<1>1. \A s \in Serials : registry[s] \in Registries
  BY DEF TypeOK, AccountTypes
<1>2. KeepCoins /\ \A s \in Serials : registry'[s].status = registry[s].status
  BY <1>1 DEF StartCheckIn, KeepCoins, Registries, TypeOK, AccountTypes, CanStart
<1>3. Bond(sn) \in Nat
  BY BondNat DEF TypeOK
<1>4. QED
  BY <1>2, <1>3 DEF StartCheckIn, TypeOK, AccountTypes, CanStart

\* What append_links does to them.
LEMMA AppendEffect ==
  ASSUME TypeOK, NEW sn \in Serials, NEW a \in Attempts, NEW links \in LinkBatches,
         NEW w \in Wallets, NEW h, AppendLinks(sn, a, w, links, h)
  PROVE  /\ sub[sn][a].status = "RECEIVING"
         /\ Len(sub[sn][a].states) + Len(links) <= MaxSubmissionStates
         /\ BatchFollows(sub[sn][a].states, links, sn, registry[sn].value)
         /\ sub'[sn][a].status = "RECEIVING"
         /\ sub'[sn][a].states = sub[sn][a].states \o links
         /\ \A s \in Serials, b \in Attempts :
              s # sn \/ b # a => sub'[s][b] = sub[s][b]
         /\ registry' = registry /\ escrow' = escrow /\ head' = head
<1>1. sub[sn][a] \in Submissions
  BY DEF TypeOK, AccountTypes
<1>2. QED
  BY <1>1 DEF AppendLinks, CanAppend, LinksFit, TypeOK, AccountTypes, Submissions, BatchFits

\* What finalize_check_in does to them where the coin is spent.
LEMMA RejectEffect ==
  ASSUME TypeOK, NEW sn \in Serials, NEW a \in Attempts, FinRejectSpent(sn, a)
  PROVE  /\ sub[sn][a].status = "RECEIVING" /\ registry[sn].status = "SPENT"
         /\ KeepChains
         /\ \A s \in Serials, b \in Attempts :
              /\ sub'[s][b].status = IF s = sn /\ b = a THEN "REJECTED"
                                     ELSE sub[s][b].status
              /\ escrow'[s][b] = IF s = sn /\ b = a THEN escrow[s][b] - Bond(sn)
                                 ELSE escrow[s][b]
         /\ registry' = registry /\ head' = head
<1>1. \A s \in Serials, b \in Attempts : sub[s][b] \in Submissions
  BY DEF TypeOK, AccountTypes
<1>2. QED
  BY <1>1
  DEF FinRejectSpent, CanFinalize, KeepChains, TypeOK, AccountTypes, Submissions, CanReject

\* What finalize_check_in does to them where there is no head.
LEMMA SetHeadEffect ==
  ASSUME TypeOK, NEW sn \in Serials, NEW a \in Attempts, FinSetHead(sn, a)
  PROVE  /\ sub[sn][a].status = "RECEIVING" /\ registry[sn].status # "SPENT"
         /\ ~head[sn].set
         /\ KeepChains
         /\ \A s \in Serials, b \in Attempts :
              sub'[s][b].status = IF s = sn /\ b = a THEN "PENDING" ELSE sub[s][b].status
         /\ \A s \in Serials : head'[s] = IF s = sn THEN HeadOf(sn, a) ELSE head[s]
         /\ registry' = registry /\ escrow' = escrow
<1>1. \A s \in Serials, b \in Attempts : sub[s][b] \in Submissions
  BY DEF TypeOK, AccountTypes
<1>2. QED
  BY <1>1
  DEF FinSetHead, CanFinalize, KeepChains, TypeOK, AccountTypes, Submissions, CanSetHead

\* What finalize_check_in does to them where the contender is longer.
LEMMA WinEffect ==
  ASSUME TypeOK, NEW sn \in Serials, NEW a \in Attempts, FinResolveWin(sn, a)
  PROVE  /\ sub[sn][a].status = "RECEIVING" /\ sub[sn][Other(a)].status = "PENDING"
         /\ head[sn].set /\ head[sn].attempt = Other(a) /\ BeatsHead(sn, a)
         /\ KeepChains /\ KeepCoins
         /\ \A s \in Serials, b \in Attempts :
              /\ sub'[s][b].status = IF s = sn
                                     THEN IF b = a THEN "WON" ELSE "LOST"
                                     ELSE sub[s][b].status
              /\ escrow'[s][b] = IF s = sn THEN escrow[s][b] - Bond(sn) ELSE escrow[s][b]
         /\ \A s \in Serials : head'[s] = IF s = sn THEN HeadOf(sn, a) ELSE head[s]
         /\ \A s \in Serials :
              registry'[s].status = IF s = sn THEN "SPENT" ELSE registry[s].status
<1>1. \A s \in Serials, b \in Attempts : sub[s][b] \in Submissions
  BY DEF TypeOK, AccountTypes
<1>2. \A s \in Serials : registry[s] \in Registries
  BY DEF TypeOK, AccountTypes
<1>3. KeepCoins /\ \A s \in Serials :
        registry'[s].status = IF s = sn THEN "SPENT" ELSE registry[s].status
  BY <1>2 DEF FinResolveWin, CanWin, KeepCoins, TypeOK, AccountTypes, Registries
<1>4. \A s \in Serials, b \in Attempts :
        sub'[s][b] = IF s = sn /\ b = Other(a) THEN [sub[s][b] EXCEPT !.status = "LOST"]
                     ELSE IF s = sn /\ b = a THEN [sub[s][b] EXCEPT !.status = "WON"]
                     ELSE sub[s][b]
  BY OtherAttempt DEF FinResolveWin, CanWin, TypeOK, AccountTypes
<1>5. ASSUME NEW s \in Serials, NEW b \in Attempts
      PROVE  /\ sub'[s][b].states = sub[s][b].states
             /\ sub'[s][b].checker = sub[s][b].checker
             /\ sub'[s][b].final_owner = sub[s][b].final_owner
             /\ sub'[s][b].status = IF s = sn THEN IF b = a THEN "WON" ELSE "LOST"
                                    ELSE sub[s][b].status
  <2>1. CASE s = sn /\ b = a
    <3>1. sub'[s][b] = [sub[s][b] EXCEPT !.status = "WON"]
      BY <2>1, <1>4, OtherAttempt
    <3>2. QED
      BY <2>1, <3>1, <1>1, StatusWrite, OtherAttempt
  <2>2. CASE s = sn /\ b = Other(a)
    <3>1. sub'[s][b] = [sub[s][b] EXCEPT !.status = "LOST"]
      BY <2>2, <1>4, OtherAttempt
    <3>2. QED
      BY <2>2, <3>1, <1>1, StatusWrite, OtherAttempt
  <2>3. CASE s # sn
    BY <2>3, <1>4
  <2>4. QED
    BY <2>1, <2>2, <2>3, OtherAttempt
<1>6. KeepChains /\ \A s \in Serials, b \in Attempts :
        sub'[s][b].status = IF s = sn THEN IF b = a THEN "WON" ELSE "LOST"
                            ELSE sub[s][b].status
  BY <1>5 DEF KeepChains
<1>7. /\ sub[sn][a].status = "RECEIVING" /\ sub[sn][Other(a)].status = "PENDING"
      /\ head[sn].set /\ head[sn].attempt = Other(a) /\ BeatsHead(sn, a)
  BY DEF FinResolveWin, CanWin, CanResolve, CanFinalize
<1>8. \A s \in Serials : head'[s] = IF s = sn THEN HeadOf(sn, a) ELSE head[s]
  BY DEF FinResolveWin, CanWin, TypeOK, AccountTypes
<1>9. \A s \in Serials, b \in Attempts :
        escrow'[s][b] = IF s = sn THEN escrow[s][b] - Bond(sn) ELSE escrow[s][b]
  BY DEF FinResolveWin, CanWin, TypeOK, AccountTypes
<1>10. QED
  BY <1>3, <1>6, <1>7, <1>8, <1>9

\* What finalize_check_in does to them where it is not.
LEMMA LoseEffect ==
  ASSUME TypeOK, NEW sn \in Serials, NEW a \in Attempts, FinResolveLose(sn, a)
  PROVE  /\ sub[sn][a].status = "RECEIVING" /\ sub[sn][Other(a)].status = "PENDING"
         /\ head[sn].set /\ head[sn].attempt = Other(a) /\ ~BeatsHead(sn, a)
         /\ KeepChains
         /\ \A s \in Serials, b \in Attempts :
              /\ sub'[s][b].status = IF s = sn /\ b = a THEN "LOST" ELSE sub[s][b].status
              /\ escrow'[s][b] = IF s = sn /\ b = a THEN escrow[s][b] - Bond(sn)
                                 ELSE escrow[s][b]
         /\ registry' = registry /\ head' = head
<1>1. \A s \in Serials, b \in Attempts : sub[s][b] \in Submissions
  BY DEF TypeOK, AccountTypes
<1>2. /\ sub[sn][a].status = "RECEIVING" /\ sub[sn][Other(a)].status = "PENDING"
      /\ head[sn].set /\ head[sn].attempt = Other(a) /\ ~BeatsHead(sn, a)
      /\ registry' = registry /\ head' = head
  BY DEF FinResolveLose, CanResolve, CanFinalize
<1>3. \A s \in Serials, b \in Attempts :
        sub'[s][b] = IF s = sn /\ b = a THEN [sub[s][b] EXCEPT !.status = "LOST"] ELSE sub[s][b]
  BY DEF FinResolveLose, TypeOK, AccountTypes
<1>4. \A s \in Serials, b \in Attempts :
        escrow'[s][b] = IF s = sn /\ b = a THEN escrow[s][b] - Bond(sn) ELSE escrow[s][b]
  BY DEF FinResolveLose, TypeOK, AccountTypes
<1>5. ASSUME NEW s \in Serials, NEW b \in Attempts
      PROVE  /\ sub'[s][b].states = sub[s][b].states
             /\ sub'[s][b].checker = sub[s][b].checker
             /\ sub'[s][b].final_owner = sub[s][b].final_owner
             /\ sub'[s][b].status = IF s = sn /\ b = a THEN "LOST" ELSE sub[s][b].status
  <2>1. CASE s = sn /\ b = a
    <3>1. sub'[s][b] = [sub[s][b] EXCEPT !.status = "LOST"]
      BY <2>1, <1>3
    <3>2. QED
      BY <2>1, <3>1, <1>1, StatusWrite
  <2>2. CASE ~(s = sn /\ b = a)
    BY <2>2, <1>3
  <2>3. QED
    BY <2>1, <2>2
<1>6. KeepChains
  BY <1>5 DEF KeepChains
<1>7. QED
  BY <1>2, <1>4, <1>5, <1>6

\* What settle does to them.
LEMMA SettleEffect ==
  ASSUME TypeOK, NEW sn \in Serials, NEW a \in Attempts, NEW withOther \in BOOLEAN,
         NEW withAllowance \in BOOLEAN, Settle(sn, a, withOther, withAllowance)
  PROVE  /\ registry[sn].status = "ACTIVE" /\ sub[sn][a].status = "PENDING"
         /\ head[sn].set /\ head[sn].attempt = a /\ head[sn].age >= Window
         /\ Sweeps(sn, a, withOther) => sub[sn][Other(a)].status = "RECEIVING"
         /\ KeepChains /\ KeepCoins
         /\ \A s \in Serials, b \in Attempts :
              /\ sub'[s][b].status =
                   IF s = sn /\ b = a THEN "WON"
                   ELSE IF s = sn /\ Sweeps(sn, a, withOther) THEN "REJECTED"
                   ELSE sub[s][b].status
              /\ escrow'[s][b] =
                   IF s = sn /\ (b = a \/ Sweeps(sn, a, withOther))
                   THEN escrow[s][b] - Bond(sn) ELSE escrow[s][b]
         /\ \A s \in Serials :
              registry'[s].status = IF s = sn THEN "SPENT" ELSE registry[s].status
         /\ head' = head
<1> DEFINE swept == Sweeps(sn, a, withOther)
<1>1. \A s \in Serials, b \in Attempts : sub[s][b] \in Submissions
  BY DEF TypeOK, AccountTypes
<1>2. \A s \in Serials : registry[s] \in Registries
  BY DEF TypeOK, AccountTypes
<1>3. KeepCoins /\ \A s \in Serials :
        registry'[s].status = IF s = sn THEN "SPENT" ELSE registry[s].status
  BY <1>2 DEF Settle, KeepCoins, TypeOK, AccountTypes, Registries, CanPayOut
<1>4. \A s \in Serials, b \in Attempts :
        sub'[s][b] = IF s = sn /\ b = a THEN [sub[s][b] EXCEPT !.status = "WON"]
                     ELSE IF s = sn /\ swept THEN [sub[s][b] EXCEPT !.status = "REJECTED"]
                     ELSE sub[s][b]
  BY DEF Settle, TypeOK, AccountTypes, CanPayOut
<1>5. \A s \in Serials, b \in Attempts :
        escrow'[s][b] = IF s = sn /\ (b = a \/ swept)
                        THEN escrow[s][b] - Bond(sn) ELSE escrow[s][b]
  BY DEF Settle, TypeOK, AccountTypes, CanPayOut
<1>6. swept => sub[sn][Other(a)].status = "RECEIVING"
  BY DEF Sweeps
<1> HIDE DEF swept
<1>7. ASSUME NEW s \in Serials, NEW b \in Attempts
      PROVE  /\ sub'[s][b].states = sub[s][b].states
             /\ sub'[s][b].checker = sub[s][b].checker
             /\ sub'[s][b].final_owner = sub[s][b].final_owner
             /\ sub'[s][b].status = IF s = sn /\ b = a THEN "WON"
                                    ELSE IF s = sn /\ swept THEN "REJECTED"
                                    ELSE sub[s][b].status
  <2>1. CASE s = sn /\ b = a
    <3>1. sub'[s][b] = [sub[s][b] EXCEPT !.status = "WON"]
      BY <2>1, <1>4
    <3>2. QED
      BY <2>1, <3>1, <1>1, StatusWrite
  <2>2. CASE s = sn /\ b # a /\ swept
    <3>1. sub'[s][b] = [sub[s][b] EXCEPT !.status = "REJECTED"]
      BY <2>2, <1>4
    <3>2. QED
      BY <2>2, <3>1, <1>1, StatusWrite
  <2>3. CASE s # sn \/ (b # a /\ ~swept)
    BY <2>3, <1>4
  <2>4. QED
    BY <2>1, <2>2, <2>3
<1>8. /\ registry[sn].status = "ACTIVE" /\ sub[sn][a].status = "PENDING"
      /\ head[sn].set /\ head[sn].attempt = a /\ head[sn].age >= Window
      /\ head' = head
  BY DEF Settle, CanSettle, CanPayOut
<1>9. QED
  BY <1>3, <1>5, <1>6, <1>7, <1>8 DEF swept, KeepChains

-----------------------------------------------------------------------------
(* Bonds. *)

\* A step that keeps the value of a coin keeps its bond.
LEMMA BondKept ==
  ASSUME KeepCoins, NEW sn \in Serials
  PROVE  Bond(sn)' = Bond(sn)
BY DEF KeepCoins, Bond

\* Without a mint the coins keep their fields.
LEMMA CoinsKept ==
  ASSUME registry' = registry
  PROVE  KeepCoins
BY DEF KeepCoins

EscrowRight(sn, a) ==
  escrow[sn][a] = IF sub[sn][a].status \in Open THEN Bond(sn) ELSE 0

\* BondsHeldWhileOpen, submission by submission.
LEMMA BondsSplit ==
  ASSUME TypeOK
  PROVE  BondsHeldWhileOpen <=> \A sn \in Serials, a \in Attempts : EscrowRight(sn, a)
<1>1. \A sn \in Serials : Bond(sn) >= registry[sn].value
  BY BondNat, BondCovers DEF TypeOK, Bond
<1>2. QED
  BY <1>1 DEF BondsHeldWhileOpen, EscrowRight

\* Every step keeps the escrow of every submission right.
LEMMA EscrowStep ==
  ASSUME TypeOK, [Next]_vars, \A sn \in Serials, a \in Attempts : EscrowRight(sn, a)
  PROVE  \A sn \in Serials, a \in Attempts : EscrowRight(sn, a)'
<1> SUFFICES ASSUME NEW s \in Serials, NEW b \in Attempts
             PROVE  EscrowRight(s, b)'
  OBVIOUS
<1>types. /\ \A sn \in Serials, a \in Attempts : escrow[sn][a] \in Nat
          /\ \A sn \in Serials : Bond(sn) \in Nat
  BY BondNat DEF TypeOK, AccountTypes
<1>1. CASE \/ \E n \in Amounts : FundVault(n)
           \/ \E w \in Wallets, cap \in Caps : SetAllowance(w, cap)
           \/ Tick
           \/ UNCHANGED vars
  BY <1>1, QuietEffect, CoinsKept, BondKept DEF EscrowRight
<1>2. ASSUME NEW sn \in Serials, NEW v \in Values, NEW w \in Wallets, MintCoin(sn, v, w)
      PROVE  EscrowRight(s, b)'
  <2>1. CASE s = sn
    BY <1>2, <2>1, MintEffect DEF EscrowRight, Open, TypeOK, SubmissionWritten
  <2>2. CASE s # sn
    BY <1>2, <2>2, MintEffect DEF EscrowRight, Bond
  <2>3. QED
    BY <2>1, <2>2
<1>3. ASSUME NEW sn \in Serials, NEW a \in Attempts, NEW c \in Wallets,
             NEW st \in State, StartCheckIn(sn, a, c, st)
      PROVE  EscrowRight(s, b)'
  BY <1>3, StartEffect, BondKept DEF EscrowRight, Open
<1>4. ASSUME NEW sn \in Serials, NEW a \in Attempts, NEW links \in LinkBatches,
             NEW w \in Wallets, NEW h, AppendLinks(sn, a, w, links, h)
      PROVE  EscrowRight(s, b)'
  BY <1>4, AppendEffect, CoinsKept, BondKept DEF EscrowRight
<1>5. ASSUME NEW sn \in Serials, NEW a \in Attempts, FinRejectSpent(sn, a)
      PROVE  EscrowRight(s, b)'
  BY <1>5, <1>types, RejectEffect, CoinsKept, BondKept DEF EscrowRight, Open
<1>6. ASSUME NEW sn \in Serials, NEW a \in Attempts, FinSetHead(sn, a)
      PROVE  EscrowRight(s, b)'
  BY <1>6, SetHeadEffect, CoinsKept, BondKept DEF EscrowRight, Open
<1>7. ASSUME NEW sn \in Serials, NEW a \in Attempts, FinResolveWin(sn, a)
      PROVE  EscrowRight(s, b)'
  BY <1>7, <1>types, WinEffect, BondKept, OtherAttempt DEF EscrowRight, Open
<1>8. ASSUME NEW sn \in Serials, NEW a \in Attempts, FinResolveLose(sn, a)
      PROVE  EscrowRight(s, b)'
  BY <1>8, <1>types, LoseEffect, CoinsKept, BondKept DEF EscrowRight, Open
<1>9. ASSUME NEW sn \in Serials, NEW a \in Attempts, NEW withOther \in BOOLEAN,
             NEW withAllowance \in BOOLEAN, Settle(sn, a, withOther, withAllowance)
      PROVE  EscrowRight(s, b)'
  BY <1>9, <1>types, SettleEffect, BondKept, OtherAttempt DEF EscrowRight, Open
<1>10. QED
  BY <1>1, <1>2, <1>3, <1>4, <1>5, <1>6, <1>7, <1>8, <1>9, GenesisType
  DEF Next, FinalizeCheckIn

\* Every bond is in escrow exactly as long as its submission is open, and it
\* covers the coin (I3, I6), for any number of coins and any bond rate.
THEOREM BondsAreHeld == Spec => []BondsHeldWhileOpen
<1> DEFINE Inv == TypeOK /\ \A sn \in Serials, a \in Attempts : EscrowRight(sn, a)
<1>1. Init => Inv
  BY InitTypes DEF Init, EscrowRight, NoSub, Open
<1>2. Inv /\ [Next]_vars => Inv'
  BY TypeStep, EscrowStep
<1>3. Inv => BondsHeldWhileOpen
  BY BondsSplit
<1>4. QED
  BY <1>1, <1>2, <1>3, PTL DEF Spec

-----------------------------------------------------------------------------
(* The head registry. *)

\* HeadLiveAt(s) survives a step that changes no status, chain or head of s.
LEMMA HeadFrame ==
  ASSUME NEW s \in Serials, HeadLiveAt(s), head[s].attempt \in Attempts,
         head'[s].set = head[s].set, head'[s].state = head[s].state,
         head'[s].attempt = head[s].attempt, head'[s].len = head[s].len,
         registry'[s].status = "SPENT" <=> registry[s].status = "SPENT",
         \A b \in Attempts : /\ sub'[s][b].status = sub[s][b].status
                             /\ sub'[s][b].states = sub[s][b].states
  PROVE  HeadLiveAt(s)'
BY OtherAttempt DEF HeadLiveAt, LastState

\* The two shapes of HeadLiveAt after a step.
LEMMA HeadUnset ==
  ASSUME NEW s \in Serials, ~head'[s].set, registry'[s].status # "SPENT",
         \A b \in Attempts : sub'[s][b].status \in {"NONE", "RECEIVING"}
  PROVE  HeadLiveAt(s)'
BY DEF HeadLiveAt

\* What HeadIsLive asks of a coin whose head is set.
LEMMA HeadSet ==
  ASSUME NEW s \in Serials, NEW a \in Attempts, head'[s].set, head'[s].attempt = a,
         sub'[s][a].status = IF registry'[s].status = "SPENT" THEN "WON" ELSE "PENDING",
         sub'[s][a].states[Len(sub'[s][a].states)] = head'[s].state,
         Len(sub'[s][a].states) = head'[s].len,
         sub'[s][Other(a)].status \notin {"PENDING", "WON"}
  PROVE  HeadLiveAt(s)'
BY DEF HeadLiveAt, LastState, Other

\* Every step keeps HeadIsLive.
LEMMA HeadStep ==
  ASSUME TypeOK, [Next]_vars, HeadIsLive
  PROVE  HeadIsLive'
<1> SUFFICES ASSUME NEW s \in Serials PROVE HeadLiveAt(s)'
  BY DEF HeadIsLive
<1>live. HeadLiveAt(s)
  BY DEF HeadIsLive
<1>att. head[s].attempt \in Attempts
  BY DEF TypeOK, AccountTypes, Heads
<1>set. head[s].set =>
          LET c == sub[s][head[s].attempt] IN
          /\ c.status = IF registry[s].status = "SPENT" THEN "WON" ELSE "PENDING"
          /\ c.states[Len(c.states)] = head[s].state /\ Len(c.states) = head[s].len
          /\ sub[s][Other(head[s].attempt)].status \notin {"PENDING", "WON"}
  BY <1>live DEF HeadLiveAt, LastState
<1>unset. ~head[s].set =>
            /\ registry[s].status # "SPENT"
            /\ \A b \in Attempts : sub[s][b].status \in {"NONE", "RECEIVING"}
  BY <1>live DEF HeadLiveAt
<1>1. CASE \/ \E n \in Amounts : FundVault(n)
           \/ \E w \in Wallets, cap \in Caps : SetAllowance(w, cap)
           \/ Tick
           \/ UNCHANGED vars
  BY <1>1, <1>live, <1>att, QuietEffect, HeadFrame DEF KeepHeads
<1>2. ASSUME NEW sn \in Serials, NEW v \in Values, NEW w \in Wallets, MintCoin(sn, v, w)
      PROVE  HeadLiveAt(s)'
  <2>1. registry'[s].status = "SPENT" <=> registry[s].status = "SPENT"
    BY <1>2, MintEffect
  <2>2. sub' = sub /\ head' = head
    BY <1>2, MintEffect
  <2>3. QED
    BY <2>1, <2>2, <1>live, <1>att, HeadFrame
<1>3. ASSUME NEW sn \in Serials, NEW a \in Attempts, NEW c \in Wallets,
             NEW st \in State, StartCheckIn(sn, a, c, st)
      PROVE  HeadLiveAt(s)'
  <2>1. CASE s # sn
    BY <1>3, <2>1, <1>live, <1>att, StartEffect, HeadFrame
  <2>2. CASE s = sn /\ ~head[s].set
    <3>1. \A b \in Attempts : sub'[s][b].status \in {"NONE", "RECEIVING"}
      BY <1>3, <2>2, <1>unset, StartEffect
    <3>2. ~head'[s].set /\ registry'[s].status # "SPENT"
      BY <1>3, <2>2, <1>unset, StartEffect
    <3>3. QED
      BY <3>1, <3>2, HeadUnset
  <2>3. CASE s = sn /\ head[s].set
    <3>1. head[s].attempt # a /\ sub'[s][head[s].attempt] = sub[s][head[s].attempt]
      BY <1>3, <2>3, <1>set, <1>att, StartEffect
    <3>2. sub'[s][Other(head[s].attempt)].status = "RECEIVING"
      BY <1>3, <2>3, <3>1, <1>att, OtherAttempt, StartEffect
    <3>3. head' = head /\ registry'[s].status = registry[s].status
      BY <1>3, <2>3, StartEffect
    <3>4. QED
      BY <2>3, <3>1, <3>2, <3>3, <1>set, <1>att, HeadSet
  <2>4. QED
    BY <2>1, <2>2, <2>3
<1>4. ASSUME NEW sn \in Serials, NEW a \in Attempts, NEW links \in LinkBatches,
             NEW w \in Wallets, NEW h, AppendLinks(sn, a, w, links, h)
      PROVE  HeadLiveAt(s)'
  <2>1. CASE s # sn
    BY <1>4, <2>1, <1>live, <1>att, AppendEffect, HeadFrame
  <2>2. CASE s = sn /\ ~head[s].set
    <3>1. \A b \in Attempts : sub'[s][b].status \in {"NONE", "RECEIVING"}
      BY <1>4, <2>2, <1>unset, AppendEffect
    <3>2. ~head'[s].set /\ registry'[s].status # "SPENT"
      BY <1>4, <2>2, <1>unset, AppendEffect
    <3>3. QED
      BY <3>1, <3>2, HeadUnset
  <2>3. CASE s = sn /\ head[s].set
    <3>1. head[s].attempt # a /\ sub'[s][head[s].attempt] = sub[s][head[s].attempt]
      BY <1>4, <2>3, <1>set, <1>att, AppendEffect
    <3>2. sub'[s][Other(head[s].attempt)].status = "RECEIVING"
      BY <1>4, <2>3, <3>1, <1>att, OtherAttempt, AppendEffect
    <3>3. head' = head /\ registry' = registry
      BY <1>4, AppendEffect
    <3>4. QED
      BY <2>3, <3>1, <3>2, <3>3, <1>set, <1>att, HeadSet
  <2>4. QED
    BY <2>1, <2>2, <2>3
<1>5. ASSUME NEW sn \in Serials, NEW a \in Attempts, FinRejectSpent(sn, a)
      PROVE  HeadLiveAt(s)'
  <2>0. KeepChains /\ head' = head /\ registry' = registry
    BY <1>5, RejectEffect
  <2>1. CASE s # sn
    BY <1>5, <2>0, <2>1, <1>live, <1>att, RejectEffect, HeadFrame DEF KeepChains
  <2>2. CASE s = sn
    <3>1. head[s].set /\ head[s].attempt # a
      BY <1>5, <2>2, <1>unset, <1>set, RejectEffect
    <3>2. /\ sub'[s][head[s].attempt].status = sub[s][head[s].attempt].status
          /\ sub'[s][Other(head[s].attempt)].status = "REJECTED"
      BY <1>5, <2>2, <3>1, <1>att, RejectEffect, OtherAttempt
    <3>3. sub'[s][head[s].attempt].states = sub[s][head[s].attempt].states
      BY <2>0, <1>att DEF KeepChains
    <3>4. QED
      BY <2>0, <3>1, <3>2, <3>3, <1>set, <1>att, HeadSet
  <2>3. QED
    BY <2>1, <2>2
<1>6. ASSUME NEW sn \in Serials, NEW a \in Attempts, FinSetHead(sn, a)
      PROVE  HeadLiveAt(s)'
  <2>0. KeepChains /\ registry' = registry
    BY <1>6, SetHeadEffect
  <2>1. CASE s # sn
    BY <1>6, <2>0, <2>1, <1>live, <1>att, SetHeadEffect, HeadFrame DEF KeepChains
  <2>2. CASE s = sn
    <3>1. head'[s] = HeadOf(sn, a) /\ registry'[s].status # "SPENT"
      BY <1>6, <2>2, SetHeadEffect
    <3>2. /\ sub'[s][a].status = "PENDING"
          /\ sub'[s][Other(a)].status \in {"NONE", "RECEIVING"}
      BY <1>6, <2>2, <1>unset, SetHeadEffect, OtherAttempt
    <3>3. sub'[s][a].states = sub[s][a].states
      BY <2>0 DEF KeepChains
    <3>4. QED
      BY <2>2, <3>1, <3>2, <3>3, HeadSet DEF HeadOf, LastState
  <2>3. QED
    BY <2>1, <2>2
<1>7. ASSUME NEW sn \in Serials, NEW a \in Attempts, FinResolveWin(sn, a)
      PROVE  HeadLiveAt(s)'
  <2>0. KeepChains
    BY <1>7, WinEffect
  <2>1. CASE s # sn
    BY <1>7, <2>0, <2>1, <1>live, <1>att, WinEffect, HeadFrame DEF KeepChains
  <2>2. CASE s = sn
    <3>1. head'[s] = HeadOf(sn, a) /\ registry'[s].status = "SPENT"
      BY <1>7, <2>2, WinEffect
    <3>2. sub'[s][a].status = "WON" /\ sub'[s][Other(a)].status = "LOST"
      BY <1>7, <2>2, WinEffect, OtherAttempt
    <3>3. sub'[s][a].states = sub[s][a].states
      BY <2>0 DEF KeepChains
    <3>4. QED
      BY <2>2, <3>1, <3>2, <3>3, HeadSet DEF HeadOf, LastState
  <2>3. QED
    BY <2>1, <2>2
<1>8. ASSUME NEW sn \in Serials, NEW a \in Attempts, FinResolveLose(sn, a)
      PROVE  HeadLiveAt(s)'
  <2>0. KeepChains /\ head' = head /\ registry' = registry
    BY <1>8, LoseEffect
  <2>1. CASE s # sn
    BY <1>8, <2>0, <2>1, <1>live, <1>att, LoseEffect, HeadFrame DEF KeepChains
  <2>2. CASE s = sn
    <3>1. head[s].set /\ head[s].attempt = Other(a) /\ Other(head[s].attempt) = a
      BY <1>8, <2>2, LoseEffect DEF Other, Attempts
    <3>2. /\ sub'[s][head[s].attempt].status = sub[s][head[s].attempt].status
          /\ sub'[s][a].status = "LOST"
      BY <1>8, <2>2, <3>1, <1>att, LoseEffect, OtherAttempt
    <3>3. sub'[s][head[s].attempt].states = sub[s][head[s].attempt].states
      BY <2>0, <1>att DEF KeepChains
    <3>4. QED
      BY <2>0, <3>1, <3>2, <3>3, <1>set, <1>att, HeadSet
  <2>3. QED
    BY <2>1, <2>2
<1>9. ASSUME NEW sn \in Serials, NEW a \in Attempts, NEW withOther \in BOOLEAN,
             NEW withAllowance \in BOOLEAN, Settle(sn, a, withOther, withAllowance)
      PROVE  HeadLiveAt(s)'
  <2>0. KeepChains /\ head' = head
    BY <1>9, SettleEffect
  <2>1. CASE s # sn
    BY <1>9, <2>0, <2>1, <1>live, <1>att, SettleEffect, HeadFrame DEF KeepChains
  <2>2. CASE s = sn
    <3>1. head[s].set /\ head[s].attempt = a /\ registry'[s].status = "SPENT"
      BY <1>9, <2>2, SettleEffect
    <3>2. /\ sub'[s][a].status = "WON"
          /\ \/ sub'[s][Other(a)].status = "REJECTED"
             \/ sub'[s][Other(a)].status = sub[s][Other(a)].status
      BY <1>9, <2>2, SettleEffect, OtherAttempt
    <3>3. sub'[s][a].states = sub[s][a].states
      BY <2>0 DEF KeepChains
    <3>4. QED
      BY <2>0, <3>1, <3>2, <3>3, <1>set, HeadSet
  <2>3. QED
    BY <2>1, <2>2
<1>10. QED
  BY <1>1, <1>2, <1>3, <1>4, <1>5, <1>6, <1>7, <1>8, <1>9, GenesisType
  DEF Next, FinalizeCheckIn

\* Before the first check-in there is no head.
LEMMA HeadInit == Init => HeadIsLive
<1> SUFFICES ASSUME Init, NEW s \in Serials PROVE HeadLiveAt(s)
  BY DEF HeadIsLive
<1>1. head[s].set = FALSE /\ registry[s].status = "NONE"
  BY DEF Init, NoHead, NoCoin
<1>2. \A b \in Attempts : sub[s][b].status = "NONE"
  BY DEF Init, NoSub
<1>3. QED
  BY <1>1, <1>2 DEF HeadLiveAt

\* The head of a coin always names its one pending or winning submission.
THEOREM HeadsAreLive == Spec => []HeadIsLive
<1>1. Init => HeadIsLive
  BY HeadInit
<1>2. TypeOK /\ HeadIsLive /\ [Next]_vars => HeadIsLive'
  BY HeadStep
<1>3. QED
  BY <1>1, <1>2, InitTypes, TypeStep, PTL DEF Spec

\* A coin is spent exactly when one of its submissions, and only one, has won:
\* its value leaves the vault once.
THEOREM OneWinner == Spec => []SpentHasOneWinner
<1>1. TypeOK /\ HeadIsLive => SpentHasOneWinner
  <2> SUFFICES ASSUME TypeOK, HeadIsLive, NEW sn \in Serials
               PROVE  Cardinality({a \in Attempts : sub[sn][a].status = "WON"})
                        = IF registry[sn].status = "SPENT" THEN 1 ELSE 0
    BY DEF SpentHasOneWinner
  <2> DEFINE won == {a \in Attempts : sub[sn][a].status = "WON"}
  <2>1. head[sn].attempt \in Attempts /\ HeadLiveAt(sn)
    BY DEF TypeOK, AccountTypes, Heads, HeadIsLive
  <2>2. won = IF registry[sn].status = "SPENT" THEN {head[sn].attempt} ELSE {}
    BY <2>1, OtherAttempt DEF HeadLiveAt
  <2>3. QED
    BY <2>2, FS_EmptySet, FS_Singleton
<1>2. QED
  BY <1>1, TypeCorrect, HeadsAreLive, PTL

-----------------------------------------------------------------------------
(* Chains. *)

\* append_links keeps a chain anchored: a batch that follows the last stored
\* state link by link extends a full chain to a full chain.
LEMMA BatchExtendsChain ==
  ASSUME NEW ss \in Seq(State), NEW links \in Seq(State), NEW sn, NEW v, NEW g,
         FullChain(ss, sn, v, g), BatchFollows(ss, links, sn, v)
  PROVE  FullChain(ss \o links, sn, v, g)
<1> DEFINE all == ss \o links
<1>1. /\ Len(ss) \in Nat /\ Len(ss) >= 1 /\ Len(links) \in Nat
      /\ Len(all) = Len(ss) + Len(links)
      /\ \A i \in 1..Len(ss) : all[i] = ss[i]
      /\ \A i \in 1..Len(links) : all[Len(ss) + i] = links[i]
  BY DEF FullChain
<1>2. StateHash(all[1]) = g
  BY <1>1 DEF FullChain
<1>3. ASSUME NEW i \in 2..Len(all) PROVE Follows(all[i], all[i-1], sn, v)
  <2>1. CASE i <= Len(ss)
    <3>1. i \in 2..Len(ss) /\ all[i] = ss[i] /\ all[i-1] = ss[i-1]
      BY <1>1, <2>1
    <3>2. QED
      BY <3>1 DEF FullChain
  <2>2. CASE i = Len(ss) + 1
    <3>1. 1 \in 1..Len(links) /\ all[i] = links[1] /\ all[i-1] = ss[Len(ss)]
      BY <1>1, <2>2
    <3>2. QED
      BY <3>1 DEF BatchFollows
  <2>3. CASE i > Len(ss) + 1
    <3> DEFINE k == i - Len(ss)
    <3>1. k \in 1..Len(links) /\ k - 1 \in 1..Len(links) /\ k # 1
      BY <1>1, <2>3
    <3>2. i = Len(ss) + k /\ i - 1 = Len(ss) + (k - 1)
      BY <1>1
    <3> HIDE DEF k, all
    <3>3. all[i] = links[k] /\ all[i-1] = links[k-1]
      BY <1>1, <3>1, <3>2
    <3>4. QED
      BY <3>1, <3>3 DEF BatchFollows
  <2>4. QED
    BY <1>1, <2>1, <2>2, <2>3
<1> HIDE DEF all
<1>4. QED
  BY <1>1, <1>2, <1>3 DEF FullChain, all

ChainsAt(s) ==
  LET r == registry[s] IN
  /\ r.status # "NONE" => r.genesis = StateHash(GenesisState(s, r.value, r.recipient))
  /\ \A b \in Attempts : sub[s][b].status # "NONE" =>
       FullChain(sub[s][b].states, s, r.value, r.genesis)

\* A step that starts nothing, mints nothing and keeps the chains.
LEMMA ChainsFrame ==
  ASSUME NEW s \in Serials, ChainsAt(s),
         registry'[s].value = registry[s].value,
         registry'[s].recipient = registry[s].recipient,
         registry'[s].genesis = registry[s].genesis,
         registry'[s].status # "NONE" => registry[s].status # "NONE",
         \A b \in Attempts : sub'[s][b].status # "NONE" =>
           /\ sub[s][b].status # "NONE"
           /\ sub'[s][b].states = sub[s][b].states
  PROVE  ChainsAt(s)'
BY DEF ChainsAt

\* Every step keeps ChainsAnchored.
LEMMA ChainsStep ==
  ASSUME TypeOK, [Next]_vars, ChainsAnchored
  PROVE  ChainsAnchored'
<1> SUFFICES ASSUME NEW s \in Serials PROVE ChainsAt(s)'
  BY DEF ChainsAnchored, ChainsAt
<1>at. ChainsAt(s)
  BY DEF ChainsAnchored, ChainsAt
<1>1. CASE \/ \E n \in Amounts : FundVault(n)
           \/ \E w \in Wallets, cap \in Caps : SetAllowance(w, cap)
           \/ Tick
           \/ UNCHANGED vars
  BY <1>1, <1>at, QuietEffect, ChainsFrame
<1>2. ASSUME NEW sn \in Serials, NEW v \in Values, NEW w \in Wallets, MintCoin(sn, v, w)
      PROVE  ChainsAt(s)'
  <2>1. CASE s = sn
    <3>1. \A b \in Attempts : sub'[s][b].status = "NONE"
      BY <1>2, <2>1, MintEffect DEF TypeOK, SubmissionWritten
    <3>2. QED
      BY <1>2, <2>1, <3>1, MintEffect DEF ChainsAt
  <2>2. CASE s # sn
    BY <1>2, <2>2, <1>at, MintEffect, ChainsFrame
  <2>3. QED
    BY <2>1, <2>2
<1>3. ASSUME NEW sn \in Serials, NEW a \in Attempts, NEW c \in Wallets,
             NEW st \in State, StartCheckIn(sn, a, c, st)
      PROVE  ChainsAt(s)'
  <2>0. /\ registry'[s].value = registry[s].value
        /\ registry'[s].recipient = registry[s].recipient
        /\ registry'[s].genesis = registry[s].genesis
        /\ registry'[s].status = registry[s].status
    BY <1>3, StartEffect DEF KeepCoins
  <2>1. CASE s # sn
    <3>1. \A b \in Attempts : sub'[s][b] = sub[s][b]
      BY <1>3, <2>1, StartEffect
    <3>2. QED
      BY <2>0, <3>1, <1>at, ChainsFrame
  <2>2. CASE s = sn
    <3>1. FullChain(<<st>>, s, registry[s].value, registry[s].genesis)
      BY <1>3, <2>2, StartEffect DEF FullChain
    <3>2. sub'[s][a].states = <<st>> /\ sub'[s][Other(a)] = sub[s][Other(a)]
      BY <1>3, <2>2, StartEffect, OtherAttempt
    <3>3. QED
      BY <2>0, <3>1, <3>2, <1>at, OtherAttempt DEF ChainsAt
  <2>3. QED
    BY <2>1, <2>2
<1>4. ASSUME NEW sn \in Serials, NEW a \in Attempts, NEW links \in LinkBatches,
             NEW w \in Wallets, NEW h, AppendLinks(sn, a, w, links, h)
      PROVE  ChainsAt(s)'
  <2>0. registry' = registry
    BY <1>4, AppendEffect
  <2>1. CASE s # sn
    <3>1. \A b \in Attempts : sub'[s][b] = sub[s][b]
      BY <1>4, <2>1, AppendEffect
    <3>2. QED
      BY <2>0, <3>1, <1>at, ChainsFrame
  <2>2. CASE s = sn
    <3> DEFINE ss == sub[s][a].states
    <3>1. /\ BatchFollows(ss, links, s, registry[s].value)
          /\ sub[s][a].status = "RECEIVING"
          /\ sub'[s][a].states = ss \o links
          /\ sub'[s][Other(a)] = sub[s][Other(a)]
      <4>1. BatchFollows(sub[sn][a].states, links, sn, registry[sn].value)
        BY <1>4, AppendEffect
      <4>2. /\ sub[sn][a].status = "RECEIVING"
            /\ sub'[sn][a].states = sub[sn][a].states \o links
        BY <1>4, AppendEffect
      <4>3. \A b \in Attempts : b # a => sub'[sn][b] = sub[sn][b]
        BY <1>4, AppendEffect
      <4>4. QED
        BY <2>2, <4>1, <4>2, <4>3, OtherAttempt
    <3>2. FullChain(ss, s, registry[s].value, registry[s].genesis)
      BY <3>1, <1>at DEF ChainsAt
    <3>3. ss \in Seq(State) /\ links \in Seq(State)
      BY <3>1, StartedSubmission, InputAssumption
    <3> HIDE DEF ss
    <3>4. FullChain(ss \o links, s, registry[s].value, registry[s].genesis)
      BY <3>1, <3>2, <3>3, BatchExtendsChain
    <3>5. QED
      BY <2>0, <3>1, <3>4, <1>at, OtherAttempt DEF ChainsAt
  <2>3. QED
    BY <2>1, <2>2
<1>5. ASSUME NEW sn \in Serials, NEW a \in Attempts, FinRejectSpent(sn, a)
      PROVE  ChainsAt(s)'
  BY <1>5, <1>at, RejectEffect, ChainsFrame DEF KeepChains
<1>6. ASSUME NEW sn \in Serials, NEW a \in Attempts, FinSetHead(sn, a)
      PROVE  ChainsAt(s)'
  BY <1>6, <1>at, SetHeadEffect, ChainsFrame DEF KeepChains
<1>7. ASSUME NEW sn \in Serials, NEW a \in Attempts, FinResolveWin(sn, a)
      PROVE  ChainsAt(s)'
  <2>1. registry[sn].status # "NONE"
    BY <1>7, WinEffect, StartedSubmission
  <2>2. \A b \in Attempts : sub'[s][b].status # "NONE" =>
          sub[s][b].status # "NONE" /\ sub'[s][b].states = sub[s][b].states
    BY <1>7, WinEffect, OtherAttempt DEF KeepChains
  <2>3. /\ registry'[s].value = registry[s].value
        /\ registry'[s].recipient = registry[s].recipient
        /\ registry'[s].genesis = registry[s].genesis
        /\ registry'[s].status # "NONE" => registry[s].status # "NONE"
    BY <1>7, <2>1, WinEffect DEF KeepCoins
  <2>4. QED
    BY <2>2, <2>3, <1>at, ChainsFrame
<1>8. ASSUME NEW sn \in Serials, NEW a \in Attempts, FinResolveLose(sn, a)
      PROVE  ChainsAt(s)'
  BY <1>8, <1>at, LoseEffect, ChainsFrame DEF KeepChains
<1>9. ASSUME NEW sn \in Serials, NEW a \in Attempts, NEW withOther \in BOOLEAN,
             NEW withAllowance \in BOOLEAN, Settle(sn, a, withOther, withAllowance)
      PROVE  ChainsAt(s)'
  <2>2. \A b \in Attempts : sub'[s][b].status # "NONE" =>
          sub[s][b].status # "NONE" /\ sub'[s][b].states = sub[s][b].states
    BY <1>9, SettleEffect, OtherAttempt DEF KeepChains
  <2>3. /\ registry'[s].value = registry[s].value
        /\ registry'[s].recipient = registry[s].recipient
        /\ registry'[s].genesis = registry[s].genesis
        /\ registry'[s].status # "NONE" => registry[s].status # "NONE"
    BY <1>9, SettleEffect DEF KeepCoins
  <2>4. QED
    BY <2>2, <2>3, <1>at, ChainsFrame
<1>10. QED
  BY <1>1, <1>2, <1>3, <1>4, <1>5, <1>6, <1>7, <1>8, <1>9, GenesisType
  DEF Next, FinalizeCheckIn

\* I4: whatever the batches, every stored chain is hash-consistent from the
\* genesis of its coin.
THEOREM ChainsAreAnchored == Spec => []ChainsAnchored
<1>1. Init => ChainsAnchored
  <2> SUFFICES ASSUME Init, NEW s \in Serials PROVE ChainsAt(s)
    BY DEF ChainsAnchored, ChainsAt
  <2>1. registry[s].status = "NONE" /\ \A b \in Attempts : sub[s][b].status = "NONE"
    BY DEF Init, NoSub, NoCoin
  <2>2. QED
    BY <2>1 DEF ChainsAt
<1>2. TypeOK /\ ChainsAnchored /\ [Next]_vars => ChainsAnchored'
  BY ChainsStep
<1>3. QED
  BY <1>1, <1>2, InitTypes, TypeStep, PTL DEF Spec

-----------------------------------------------------------------------------
(* The longest chain wins. *)

\* In an anchored chain a state carries its own position: the history in its
\* prev_state_hash is as long as the chain before it.
LEMMA DepthIsPosition ==
  ASSUME NEW ss \in Seq(State), NEW sn, NEW v, NEW g, FullChain(ss, sn, v, g),
         Len(g) = 1, Len(ss) \in 1..MaxSubmissionStates
  PROVE  \A i \in 1..Len(ss) : Len(ss[i].prev) = i - 1
<1>1. \A i \in 1..Len(ss) : ss[i] \in State
  OBVIOUS
<1>2. ASSUME NEW s \in State PROVE Len(s.prev) \in Nat /\ Len(StateHash(s)) = Len(s.prev) + 1
  <2>1. /\ s.prev \in Seq(Core)
        /\ [serial |-> s.serial, value |-> s.value, owner |-> s.owner] \in Core
    BY DEF State, Hash, Core
  <2>2. QED
    BY <2>1 DEF StateHash
<1>3. Len(ss) \in 1..4
  BY DEF MaxSubmissionStates
<1>4. Len(ss[1].prev) = 0
  <2>1. ss[1] \in State /\ StateHash(ss[1]) = g
    BY <1>1, <1>3 DEF FullChain
  <2>2. Len(ss[1].prev) \in Nat /\ Len(StateHash(ss[1])) = Len(ss[1].prev) + 1
    BY <1>2, <2>1
  <2>3. Len(StateHash(ss[1])) = 1
    BY <2>1
  <2> DEFINE n == Len(ss[1].prev)
             m == Len(StateHash(ss[1]))
  <2>4. n \in Nat /\ m = n + 1 /\ m = 1
    BY <2>2, <2>3
  <2> HIDE DEF n, m
  <2>5. n = 0
    BY <2>4
  <2>6. QED
    BY <2>5 DEF n
<1> DEFINE d(i) == Len(ss[i].prev)
<1>5. \A i \in 2..Len(ss) : d(i) = d(i-1) + 1
  <2>1. \A i \in 2..Len(ss) : ss[i-1] \in State /\ ss[i].prev = StateHash(ss[i-1])
    BY <1>1, <1>3 DEF FullChain, Follows
  <2>2. QED
    BY <1>2, <2>1
<1>6. d(1) = 0
  BY <1>4
<1>7. \A i \in 1..Len(ss) : d(i) = i - 1
  <2> HIDE DEF d
  <2>1. 2 <= Len(ss) => d(2) = 1
    BY <1>3, <1>5, <1>6
  <2>2. 3 <= Len(ss) => d(3) = 2
    BY <1>3, <1>5, <2>1
  <2>3. 4 <= Len(ss) => d(4) = 3
    BY <1>3, <1>5, <2>2
  <2>4. SUFFICES ASSUME NEW i \in 1..Len(ss) PROVE d(i) = i - 1
    OBVIOUS
  <2>5. i = 1 \/ (i = 2 /\ 2 <= Len(ss)) \/ (i = 3 /\ 3 <= Len(ss))
          \/ (i = 4 /\ 4 <= Len(ss))
    <3> DEFINE n == Len(ss)
    <3>1. n \in 1..4 /\ i \in 1..n
      BY <1>3
    <3> HIDE DEF n
    <3>2. i = 1 \/ (i = 2 /\ 2 <= n) \/ (i = 3 /\ 3 <= n) \/ (i = 4 /\ 4 <= n)
      BY <3>1
    <3>3. QED
      BY <3>2 DEF n
  <2>6. QED
    BY <1>6, <2>1, <2>2, <2>3, <2>5
<1>8. QED
  BY <1>7

\* Hence the head can be found in a chain at its own length only, and the rule
\* of fin_resolve is a comparison of lengths.
LEMMA LongerWins ==
  ASSUME NEW ss \in Seq(State), NEW hs, NEW n \in Nat,
         \A i \in 1..Len(ss) : Len(ss[i].prev) = i - 1, Len(hs.prev) = n - 1
  PROVE  IWin(ss, hs, n) <=> Len(ss) > n
<1>1. \A i \in HeadAt(ss, hs) : i \in 1..Len(ss) /\ i = n
  BY DEF HeadAt
<1>2. HeadAt(ss, hs) = {} \/ HeadAt(ss, hs) = {n}
  BY <1>1
<1>3. Len(ss) \in Nat
  OBVIOUS
<1>4. QED
  BY <1>2, <1>3 DEF IWin

\* The depth of a stored chain, from the invariants.
LEMMA StoredDepth ==
  ASSUME TypeOK, ChainsAnchored, NEW sn \in Serials, NEW a \in Attempts,
         sub[sn][a].status # "NONE"
  PROVE  \A i \in 1..Len(sub[sn][a].states) : Len(sub[sn][a].states[i].prev) = i - 1
<1> DEFINE r == registry[sn]
           ss == sub[sn][a].states
<1>1. /\ r.status # "NONE" /\ ss \in Seq(State)
      /\ Len(ss) \in 1..MaxSubmissionStates
  BY StartedSubmission
<1>2. FullChain(ss, sn, r.value, r.genesis)
  BY DEF ChainsAnchored
<1>3. r.genesis = StateHash(GenesisState(sn, r.value, r.recipient))
  BY <1>1 DEF ChainsAnchored
<1>4. Len(r.genesis) = 1
  BY <1>3 DEF StateHash, GenesisState, ZeroHash
<1> HIDE DEF r, ss
<1>5. \A i \in 1..Len(ss) : Len(ss[i].prev) = i - 1
  BY <1>1, <1>2, <1>4, DepthIsPosition
<1>6. QED
  BY <1>5 DEF ss

\* The win rule in every state in which the invariants hold.
LEMMA WinRule ==
  ASSUME TypeOK, HeadIsLive, ChainsAnchored, NEW sn \in Serials, NEW a \in Attempts,
         head[sn].set, sub[sn][a].status = "RECEIVING"
  PROVE  BeatsHead(sn, a) <=> Len(sub[sn][a].states) > head[sn].len
<1> DEFINE b == head[sn].attempt
           ss == sub[sn][a].states
           hh == sub[sn][b].states
<1>1. b \in Attempts
  BY DEF TypeOK, AccountTypes, Heads
<1>2. /\ sub[sn][b].status \in {"PENDING", "WON"}
      /\ hh[Len(hh)] = head[sn].state /\ Len(hh) = head[sn].len
  BY DEF HeadIsLive, HeadLiveAt, LastState
<1>3. ss \in Seq(State) /\ hh \in Seq(State) /\ Len(hh) \in 1..4
  BY <1>1, <1>2, StartedSubmission DEF MaxSubmissionStates
<1>4. /\ \A i \in 1..Len(ss) : Len(ss[i].prev) = i - 1
      /\ \A i \in 1..Len(hh) : Len(hh[i].prev) = i - 1
  BY <1>1, <1>2, StoredDepth
<1> HIDE DEF ss, hh
<1>5. Len(head[sn].state.prev) = head[sn].len - 1 /\ head[sn].len \in Nat
  <2> DEFINE n == Len(hh)
  <2>0. n \in 1..4
    BY <1>3
  <2> HIDE DEF n
  <2>a. n \in 1..n /\ n \in Nat
    BY <2>0
  <2>1. Len(hh) \in 1..Len(hh) /\ Len(hh) \in Nat
    BY <2>a DEF n
  <2>2. Len(hh[Len(hh)].prev) = Len(hh) - 1
    BY <1>4, <2>1
  <2>3. QED
    BY <1>2, <2>1, <2>2
<1>6. IWin(ss, head[sn].state, head[sn].len) <=> Len(ss) > head[sn].len
  BY <1>3, <1>4, <1>5, LongerWins
<1>7. QED
  BY <1>6 DEF BeatsHead, ss

\* The three-way rule of fin_resolve is "strictly longer wins" (SPEC 5.7), for
\* every pair of chains the program can hold.
THEOREM LongestWins == Spec => []WinRuleIsLongest
<1>1. TypeOK /\ HeadIsLive /\ ChainsAnchored => WinRuleIsLongest
  BY WinRule DEF WinRuleIsLongest
<1>2. QED
  BY <1>1, TypeCorrect, HeadsAreLive, ChainsAreAnchored, PTL

-----------------------------------------------------------------------------
(* What a dispute decides, and when a coin is paid. *)

\* A submission has lost to the one that holds the head.
LEMMA LostToHead ==
  ASSUME TypeOK, HeadIsLive, NEW sn \in Serials, NEW a \in Attempts,
         sub[sn][a].status = "LOST"
  PROVE  sub[sn][Other(a)].status \in {"PENDING", "WON"}
<1>1. HeadLiveAt(sn) /\ head[sn].attempt \in Attempts
  BY DEF HeadIsLive, TypeOK, AccountTypes, Heads
<1>2. head[sn].set
  BY <1>1 DEF HeadLiveAt
<1>3. head[sn].attempt = Other(a)
  BY <1>1, <1>2, OtherAttempt DEF HeadLiveAt
<1>4. QED
  BY <1>1, <1>2, <1>3 DEF HeadLiveAt

\* The length the head registry holds is that of the chain it was set from.
LEMMA HeadLength ==
  ASSUME HeadIsLive, NEW sn \in Serials, head[sn].set
  PROVE  head[sn].len = Len(sub[sn][head[sn].attempt].states)
BY DEF HeadIsLive, HeadLiveAt

\* The length of a stored chain is a number.
LEMMA ChainLengths ==
  ASSUME TypeOK, NEW sn \in Serials, NEW a \in Attempts
  PROVE  Len(sub[sn][a].states) \in Nat
BY DEF TypeOK, AccountTypes, Submissions

LostShorter(sn, a) ==
  sub[sn][a].status = "LOST" =>
    Len(sub[sn][Other(a)].states) >= Len(sub[sn][a].states)

\* Every step keeps a submission that lost no longer than the other one.
LEMMA LongestStep ==
  ASSUME TypeOK, HeadIsLive, ChainsAnchored, LongestClaimStands, [Next]_vars,
         NEW s \in Serials, NEW b \in Attempts
  PROVE  LostShorter(s, b)'
<1> SUFFICES ASSUME sub'[s][b].status = "LOST"
             PROVE  Len(sub'[s][Other(b)].states) >= Len(sub'[s][b].states)
  BY DEF LostShorter
<1>o. Other(b) \in Attempts /\ Other(b) # b /\ Other(Other(b)) = b
  BY OtherAttempt
<1>k. /\ sub[s][b].status = "LOST"
      /\ sub'[s][b].states = sub[s][b].states
      /\ sub'[s][Other(b)].states = sub[s][Other(b)].states
      => Len(sub'[s][Other(b)].states) >= Len(sub'[s][b].states)
  BY <1>o DEF LongestClaimStands
<1>1. CASE \/ \E n \in Amounts : FundVault(n)
           \/ \E w \in Wallets, cap \in Caps : SetAllowance(w, cap)
           \/ Tick
           \/ UNCHANGED vars
  BY <1>1, <1>k, QuietEffect
<1>2. ASSUME NEW sn \in Serials, NEW v \in Values, NEW w \in Wallets, MintCoin(sn, v, w)
      PROVE  Len(sub'[s][Other(b)].states) >= Len(sub'[s][b].states)
  BY <1>2, <1>k, MintEffect
<1>3. ASSUME NEW sn \in Serials, NEW a \in Attempts, NEW c \in Wallets,
             NEW st \in State, StartCheckIn(sn, a, c, st)
      PROVE  Len(sub'[s][Other(b)].states) >= Len(sub'[s][b].states)
  <2>1. s # sn \/ b # a
    BY <1>3, StartEffect
  <2>2. sub[s][b].status = "LOST" /\ sub'[s][b] = sub[s][b]
    BY <1>3, <2>1, StartEffect
  <2>3. s # sn \/ Other(b) # a
    BY <1>3, <2>2, StartEffect, LostToHead
  <2>4. sub'[s][Other(b)] = sub[s][Other(b)]
    BY <1>3, <2>3, <1>o, StartEffect
  <2>5. QED
    BY <1>k, <2>2, <2>4
<1>4. ASSUME NEW sn \in Serials, NEW a \in Attempts, NEW links \in LinkBatches,
             NEW w \in Wallets, NEW h, AppendLinks(sn, a, w, links, h)
      PROVE  Len(sub'[s][Other(b)].states) >= Len(sub'[s][b].states)
  <2>1. s # sn \/ b # a
    BY <1>4, AppendEffect
  <2>2. sub[s][b].status = "LOST" /\ sub'[s][b] = sub[s][b]
    BY <1>4, <2>1, AppendEffect
  <2>3. s # sn \/ Other(b) # a
    BY <1>4, <2>2, AppendEffect, LostToHead
  <2>4. sub'[s][Other(b)] = sub[s][Other(b)]
    BY <1>4, <2>3, <1>o, AppendEffect
  <2>5. QED
    BY <1>k, <2>2, <2>4
<1>5. ASSUME NEW sn \in Serials, NEW a \in Attempts, FinRejectSpent(sn, a)
      PROVE  Len(sub'[s][Other(b)].states) >= Len(sub'[s][b].states)
  BY <1>5, <1>k, <1>o, RejectEffect DEF KeepChains
<1>6. ASSUME NEW sn \in Serials, NEW a \in Attempts, FinSetHead(sn, a)
      PROVE  Len(sub'[s][Other(b)].states) >= Len(sub'[s][b].states)
  BY <1>6, <1>k, <1>o, SetHeadEffect DEF KeepChains
<1>7. ASSUME NEW sn \in Serials, NEW a \in Attempts, FinResolveWin(sn, a)
      PROVE  Len(sub'[s][Other(b)].states) >= Len(sub'[s][b].states)
  <2>0. /\ sub'[s][b].states = sub[s][b].states
        /\ sub'[s][Other(b)].states = sub[s][Other(b)].states
    BY <1>7, <1>o, WinEffect DEF KeepChains
  <2>1. CASE s # sn
    BY <1>7, <2>0, <2>1, <1>k, WinEffect
  <2>2. CASE s = sn
    <3>1. b = Other(a) /\ a = Other(b)
      BY <1>7, <2>2, <1>o, WinEffect, OtherAttempt
    <3>2. Len(sub[sn][a].states) > head[sn].len
      BY <1>7, WinEffect, WinRule
    <3>3. head[sn].len = Len(sub[sn][b].states)
      BY <1>7, <3>1, WinEffect, HeadLength
    <3>4. Len(sub[sn][a].states) \in Nat /\ Len(sub[sn][b].states) \in Nat
      BY ChainLengths
    <3>5. Len(sub[sn][a].states) >= Len(sub[sn][b].states)
      BY <3>2, <3>3, <3>4
    <3>6. QED
      BY <2>0, <2>2, <3>1, <3>5
  <2>3. QED
    BY <2>1, <2>2
<1>8. ASSUME NEW sn \in Serials, NEW a \in Attempts, FinResolveLose(sn, a)
      PROVE  Len(sub'[s][Other(b)].states) >= Len(sub'[s][b].states)
  <2>0. /\ sub'[s][b].states = sub[s][b].states
        /\ sub'[s][Other(b)].states = sub[s][Other(b)].states
    BY <1>8, <1>o, LoseEffect DEF KeepChains
  <2>1. CASE s # sn \/ b # a
    BY <1>8, <2>0, <2>1, <1>k, LoseEffect
  <2>2. CASE s = sn /\ b = a
    <3>1. ~(Len(sub[sn][a].states) > head[sn].len)
      BY <1>8, LoseEffect, WinRule
    <3>2. head[sn].len = Len(sub[sn][Other(a)].states)
      BY <1>8, LoseEffect, HeadLength
    <3>3. Len(sub[sn][a].states) \in Nat /\ Len(sub[sn][Other(a)].states) \in Nat
      BY <2>2, <1>o, ChainLengths
    <3>4. Len(sub[sn][Other(a)].states) >= Len(sub[sn][a].states)
      BY <3>1, <3>2, <3>3
    <3>5. QED
      BY <2>0, <2>2, <3>4
  <2>3. QED
    BY <2>1, <2>2
<1>9. ASSUME NEW sn \in Serials, NEW a \in Attempts, NEW withOther \in BOOLEAN,
             NEW withAllowance \in BOOLEAN, Settle(sn, a, withOther, withAllowance)
      PROVE  Len(sub'[s][Other(b)].states) >= Len(sub'[s][b].states)
  <2>1. /\ sub'[s][b].states = sub[s][b].states
        /\ sub'[s][Other(b)].states = sub[s][Other(b)].states
    BY <1>9, <1>o, SettleEffect DEF KeepChains
  <2>2. sub[s][b].status = "LOST"
    BY <1>9, SettleEffect
  <2>3. QED
    BY <2>1, <2>2, <1>k
<1>10. QED
  BY <1>1, <1>2, <1>3, <1>4, <1>5, <1>6, <1>7, <1>8, <1>9, GenesisType
  DEF Next, FinalizeCheckIn

\* SPEC 5.7: no submission ever lost to a shorter chain, also after its coin was
\* spent and whatever is appended later.
THEOREM LongestStands == Spec => []LongestClaimStands
<1>1. Init => LongestClaimStands
  BY DEF Init, NoSub, LongestClaimStands
<1>2. /\ TypeOK /\ HeadIsLive /\ ChainsAnchored /\ LongestClaimStands
      /\ [Next]_vars
      => LongestClaimStands'
  BY LongestStep DEF LongestClaimStands, LostShorter
<1>3. QED
  BY <1>1, <1>2, TypeCorrect, HeadsAreLive, ChainsAreAnchored, PTL DEF Spec

\* Only the winner of a dispute and settle spend a coin.
LEMMA SpendStep ==
  ASSUME TypeOK, HeadIsLive, ChainsAnchored, [Next]_vars, NEW s \in Serials,
         registry[s].status = "ACTIVE", registry'[s].status = "SPENT"
  PROVE  \E a \in Attempts :
           /\ sub'[s][a].status = "WON"
           /\ head[s].set
           /\ \/ head[s].attempt = a /\ head[s].age >= Window
              \/ head[s].attempt # a /\ Len(sub[s][a].states) > head[s].len
<1> DEFINE Due == \E a \in Attempts :
             /\ sub'[s][a].status = "WON"
             /\ head[s].set
             /\ \/ head[s].attempt = a /\ head[s].age >= Window
                \/ head[s].attempt # a /\ Len(sub[s][a].states) > head[s].len
<1> SUFFICES Due
  OBVIOUS
<1>1. CASE \/ \E n \in Amounts : FundVault(n)
           \/ \E w \in Wallets, cap \in Caps : SetAllowance(w, cap)
           \/ Tick
           \/ UNCHANGED vars
  BY <1>1, QuietEffect
<1>2. ASSUME NEW sn \in Serials, NEW v \in Values, NEW w \in Wallets, MintCoin(sn, v, w)
      PROVE  Due
  BY <1>2, MintEffect
<1>3. ASSUME NEW sn \in Serials, NEW a \in Attempts, NEW c \in Wallets,
             NEW st \in State, StartCheckIn(sn, a, c, st)
      PROVE  Due
  BY <1>3, StartEffect
<1>4. ASSUME NEW sn \in Serials, NEW a \in Attempts, NEW links \in LinkBatches,
             NEW w \in Wallets, NEW h, AppendLinks(sn, a, w, links, h)
      PROVE  Due
  BY <1>4, AppendEffect
<1>5. ASSUME NEW sn \in Serials, NEW a \in Attempts,
             FinRejectSpent(sn, a) \/ FinSetHead(sn, a) \/ FinResolveLose(sn, a)
      PROVE  Due
  BY <1>5, RejectEffect, SetHeadEffect, LoseEffect
<1>6. ASSUME NEW sn \in Serials, NEW a \in Attempts, FinResolveWin(sn, a)
      PROVE  Due
  <2>1. s = sn
    BY <1>6, WinEffect
  <2>2. /\ sub'[s][a].status = "WON" /\ head[s].set
        /\ head[s].attempt = Other(a) /\ BeatsHead(s, a)
        /\ sub[s][a].status = "RECEIVING"
    BY <1>6, <2>1, WinEffect
  <2>3. Len(sub[s][a].states) > head[s].len
    BY <2>2, WinRule
  <2>4. QED
    BY <2>2, <2>3, OtherAttempt
<1>7. ASSUME NEW sn \in Serials, NEW a \in Attempts, NEW withOther \in BOOLEAN,
             NEW withAllowance \in BOOLEAN, Settle(sn, a, withOther, withAllowance)
      PROVE  Due
  <2>1. s = sn
    BY <1>7, SettleEffect
  <2>2. /\ sub'[s][a].status = "WON" /\ head[s].set
        /\ head[s].attempt = a /\ head[s].age >= Window
    BY <1>7, <2>1, SettleEffect
  <2>3. QED
    BY <2>2
<1> HIDE DEF Due
<1>8. QED
  BY <1>1, <1>2, <1>3, <1>4, <1>5, <1>6, <1>7, GenesisType
  DEF Next, FinalizeCheckIn

\* The value of a coin goes out only to the holder of the head after the window
\* or to a strictly longer chain.
THEOREM PaidWhenDue == Spec => PaidOnlyWhenDue
<1>1. TypeOK /\ HeadIsLive /\ ChainsAnchored /\ [Next]_vars =>
        [\A sn \in Serials :
           registry[sn].status = "ACTIVE" /\ registry'[sn].status = "SPENT" =>
             \E a \in Attempts :
               /\ sub'[sn][a].status = "WON"
               /\ head[sn].set
               /\ \/ head[sn].attempt = a /\ head[sn].age >= Window
                  \/ head[sn].attempt # a /\ Len(sub[sn][a].states) > head[sn].len]_vars
  BY SpendStep
<1>2. QED
  BY <1>1, TypeCorrect, HeadsAreLive, ChainsAreAnchored, PTL DEF Spec, PaidOnlyWhenDue

-----------------------------------------------------------------------------
(* What is decided stays decided. *)

\* A submission that is not there yet has no states.
Blank == \A sn \in Serials, a \in Attempts : sub[sn][a].status = "NONE" => sub[sn][a].states = <<>>

Over == {"WON", "LOST", "REJECTED"}

\* What a step may do to one submission.
MayBecome(s, b) ==
  LET x == sub[s][b]
      y == sub'[s][b]
  IN  /\ Extends(y.states, x.states)
      /\ y.states # x.states => x.status \in {"NONE", "RECEIVING"}
      /\ x.status \in Over => y = x
      /\ y.status = "NONE" => y.states = <<>>

\* A chain extends itself.
LEMMA ExtendsItself ==
  ASSUME NEW ss \in Seq(State)
  PROVE  Extends(ss, ss)
BY DEF Extends

\* A chain with more links extends what it was.
LEMMA ExtendsPrefix ==
  ASSUME NEW ss \in Seq(State), NEW links \in Seq(State)
  PROVE  Extends(ss \o links, ss)
<1> DEFINE all == ss \o links
           part == SubSeq(all, 1, Len(ss))
<1>1. /\ Len(ss) \in Nat /\ all \in Seq(State) /\ Len(all) = Len(ss) + Len(links)
      /\ Len(links) \in Nat /\ \A i \in 1..Len(ss) : all[i] = ss[i]
  OBVIOUS
<1> HIDE DEF all
<1>2. /\ part \in Seq(State) /\ Len(part) = Len(ss)
      /\ \A i \in 1..Len(ss) : part[i] = all[i]
  BY <1>1
<1>3. part = ss
  BY <1>1, <1>2
<1>4. QED
  BY <1>1, <1>3 DEF Extends, all

\* The same states, and all of it the same once it is over.
LEMMA KeptSub ==
  ASSUME TypeOK, TypeOK', Blank, NEW s \in Serials, NEW b \in Attempts,
         sub'[s][b].states = sub[s][b].states,
         sub[s][b].status \in Over => /\ sub'[s][b].status = sub[s][b].status
                                      /\ sub'[s][b].checker = sub[s][b].checker
                                      /\ sub'[s][b].final_owner = sub[s][b].final_owner,
         sub'[s][b].status = "NONE" => sub[s][b].status = "NONE"
  PROVE  MayBecome(s, b)
<1>1. /\ sub[s][b] \in Submissions /\ sub'[s][b] \in Submissions
      /\ sub[s][b].states \in Seq(State)
  BY DEF TypeOK, AccountTypes, Submissions
<1>2. sub[s][b].status \in Over => sub'[s][b] = sub[s][b]
  BY <1>1 DEF Submissions
<1>3. QED
  BY <1>1, <1>2, ExtendsItself DEF MayBecome, Blank

\* A step changes a claim only as ClaimsAreFinal allows.
LEMMA FinalStep ==
  ASSUME TypeOK, TypeOK', Blank, [Next]_vars, NEW s \in Serials, NEW b \in Attempts
  PROVE  MayBecome(s, b)
<1>1. CASE \/ \E n \in Amounts : FundVault(n)
           \/ \E w \in Wallets, cap \in Caps : SetAllowance(w, cap)
           \/ Tick
           \/ UNCHANGED vars
  BY <1>1, QuietEffect, KeptSub
<1>2. ASSUME NEW sn \in Serials, NEW v \in Values, NEW w \in Wallets, MintCoin(sn, v, w)
      PROVE  MayBecome(s, b)
  BY <1>2, MintEffect, KeptSub
<1>3. ASSUME NEW sn \in Serials, NEW a \in Attempts, NEW c \in Wallets,
             NEW st \in State, StartCheckIn(sn, a, c, st)
      PROVE  MayBecome(s, b)
  <2>1. CASE s = sn /\ b = a
    <3>1. sub[s][b].status = "NONE" /\ sub[s][b].states = <<>>
      BY <1>3, <2>1, StartEffect DEF Blank
    <3>2. sub'[s][b].states = <<st>> /\ sub'[s][b].status = "RECEIVING"
      BY <1>3, <2>1, StartEffect
    <3>3. Extends(<<st>>, <<>>)
      BY DEF Extends
    <3>4. QED
      BY <3>1, <3>2, <3>3 DEF MayBecome, Over
  <2>2. CASE s # sn \/ b # a
    BY <1>3, <2>2, StartEffect, KeptSub
  <2>3. QED
    BY <2>1, <2>2
<1>4. ASSUME NEW sn \in Serials, NEW a \in Attempts, NEW links \in LinkBatches,
             NEW w \in Wallets, NEW h, AppendLinks(sn, a, w, links, h)
      PROVE  MayBecome(s, b)
  <2>1. CASE s = sn /\ b = a
    <3>1. /\ sub[s][b].status = "RECEIVING" /\ sub'[s][b].status = "RECEIVING"
          /\ sub'[s][b].states = sub[s][b].states \o links
      BY <1>4, <2>1, AppendEffect
    <3>2. sub[s][b].states \in Seq(State) /\ links \in Seq(State)
      BY InputAssumption DEF TypeOK, AccountTypes, Submissions
    <3>3. QED
      BY <3>1, <3>2, ExtendsPrefix DEF MayBecome, Over
  <2>2. CASE s # sn \/ b # a
    BY <1>4, <2>2, AppendEffect, KeptSub
  <2>3. QED
    BY <2>1, <2>2
<1>5. ASSUME NEW sn \in Serials, NEW a \in Attempts, FinRejectSpent(sn, a)
      PROVE  MayBecome(s, b)
  BY <1>5, RejectEffect, KeptSub DEF KeepChains, Over
<1>6. ASSUME NEW sn \in Serials, NEW a \in Attempts, FinSetHead(sn, a)
      PROVE  MayBecome(s, b)
  BY <1>6, SetHeadEffect, KeptSub DEF KeepChains, Over
<1>7. ASSUME NEW sn \in Serials, NEW a \in Attempts, FinResolveWin(sn, a)
      PROVE  MayBecome(s, b)
  BY <1>7, WinEffect, OtherAttempt, KeptSub DEF KeepChains, Over
<1>8. ASSUME NEW sn \in Serials, NEW a \in Attempts, FinResolveLose(sn, a)
      PROVE  MayBecome(s, b)
  BY <1>8, LoseEffect, KeptSub DEF KeepChains, Over
<1>9. ASSUME NEW sn \in Serials, NEW a \in Attempts, NEW withOther \in BOOLEAN,
             NEW withAllowance \in BOOLEAN, Settle(sn, a, withOther, withAllowance)
      PROVE  MayBecome(s, b)
  BY <1>9, SettleEffect, OtherAttempt, KeptSub DEF KeepChains, Over
<1>10. QED
  BY <1>1, <1>2, <1>3, <1>4, <1>5, <1>6, <1>7, <1>8, <1>9, GenesisType
  DEF Next, FinalizeCheckIn

\* A spent coin stays spent.
LEMMA SpentStep ==
  ASSUME TypeOK, [Next]_vars, NEW s \in Serials, registry[s].status = "SPENT"
  PROVE  registry'[s].status = "SPENT"
<1>1. CASE \/ \E n \in Amounts : FundVault(n)
           \/ \E w \in Wallets, cap \in Caps : SetAllowance(w, cap)
           \/ Tick
           \/ UNCHANGED vars
  BY <1>1, QuietEffect
<1>2. ASSUME NEW sn \in Serials, NEW v \in Values, NEW w \in Wallets, MintCoin(sn, v, w)
      PROVE  registry'[s].status = "SPENT"
  BY <1>2, MintEffect
<1>3. ASSUME NEW sn \in Serials, NEW a \in Attempts, NEW c \in Wallets,
             NEW st \in State, StartCheckIn(sn, a, c, st)
      PROVE  registry'[s].status = "SPENT"
  BY <1>3, StartEffect
<1>4. ASSUME NEW sn \in Serials, NEW a \in Attempts, NEW links \in LinkBatches,
             NEW w \in Wallets, NEW h, AppendLinks(sn, a, w, links, h)
      PROVE  registry'[s].status = "SPENT"
  BY <1>4, AppendEffect
<1>5. ASSUME NEW sn \in Serials, NEW a \in Attempts,
             FinRejectSpent(sn, a) \/ FinSetHead(sn, a) \/ FinResolveWin(sn, a) \/ FinResolveLose(sn, a)
      PROVE  registry'[s].status = "SPENT"
  BY <1>5, RejectEffect, SetHeadEffect, WinEffect, LoseEffect
<1>6. ASSUME NEW sn \in Serials, NEW a \in Attempts, NEW withOther \in BOOLEAN,
             NEW withAllowance \in BOOLEAN, Settle(sn, a, withOther, withAllowance)
      PROVE  registry'[s].status = "SPENT"
  BY <1>6, SettleEffect
<1>7. QED
  BY <1>1, <1>2, <1>3, <1>4, <1>5, <1>6, GenesisType DEF Next, FinalizeCheckIn

\* R-A, R-B: chains only grow, and only while they are received; what has won,
\* lost or been rejected, and a spent coin, never change again.
THEOREM DecisionsStand == Spec => ClaimsAreFinal
<1>1. Init => Blank
  BY DEF Init, NoSub, Blank
<1>2. TypeOK /\ TypeOK' /\ Blank /\ [Next]_vars => Blank'
  BY FinalStep DEF Blank, MayBecome
<1>3. TypeOK /\ TypeOK' /\ Blank /\ [Next]_vars =>
        [\A sn \in Serials :
           /\ registry[sn].status = "SPENT" => registry'[sn].status = "SPENT"
           /\ \A a \in Attempts :
                LET s == sub[sn][a]
                    t == sub'[sn][a]
                IN /\ Extends(t.states, s.states)
                   /\ t.states # s.states => s.status \in {"NONE", "RECEIVING"}
                   /\ s.status \in {"WON", "LOST", "REJECTED"} => t = s]_vars
  BY FinalStep, SpentStep DEF MayBecome, Over
<1>4. QED
  BY <1>1, <1>2, <1>3, TypeCorrect, PTL DEF Spec, ClaimsAreFinal
-----------------------------------------------------------------------------
(* Sums over finite sets, as the number of their units. *)

\* The units of the balances f of S, one pair each.
Units(f, S) == {p \in S \X Nat : p[2] \in 1..f[p[1]]}

\* A balance of n has n units.
LEMMA UnitsOfOne ==
  ASSUME NEW x, NEW n \in Nat
  PROVE  IsFiniteSet({x} \X (1..n)) /\ Cardinality({x} \X (1..n)) = n
<1>1. IsFiniteSet({x}) /\ Cardinality({x}) = 1
  BY FS_Singleton
<1>2. IsFiniteSet(1..n) /\ Cardinality(1..n) = n
  BY FS_Interval
<1>3. /\ IsFiniteSet({x} \X (1..n))
      /\ Cardinality({x} \X (1..n)) = Cardinality({x}) * Cardinality(1..n)
  BY <1>1, <1>2, FS_Product
<1>4. QED
  BY <1>1, <1>2, <1>3

\* Finitely many balances have finitely many units.
LEMMA UnitsFinite ==
  ASSUME NEW f, NEW S, IsFiniteSet(S), \A x \in S : f[x] \in Nat
  PROVE  IsFiniteSet(Units(f, S)) /\ Cardinality(Units(f, S)) \in Nat
<1> DEFINE part == [x \in S |-> {x} \X (1..f[x])]
           parts == {part[x] : x \in S}
<1>1. part \in Surjection(S, parts)
  BY DEF Surjection
<1>2. IsFiniteSet(parts)
  BY <1>1, FS_Surjection
<1>3. ASSUME NEW T \in parts PROVE IsFiniteSet(T)
  <2>1. PICK x \in S : T = {x} \X (1..f[x])
    OBVIOUS
  <2>2. QED
    BY <2>1, UnitsOfOne
<1>4. Units(f, S) = UNION parts
  BY DEF Units
<1>5. QED
  BY <1>2, <1>3, <1>4, FS_UNION, FS_CardinalityType

\* The units of one balance and those of the others.
LEMMA UnitsSplit ==
  ASSUME NEW f, NEW S, IsFiniteSet(S), \A y \in S : f[y] \in Nat, NEW x \in S
  PROVE  Cardinality(Units(f, S)) = f[x] + Cardinality(Units(f, S \ {x}))
<1> DEFINE rest == Units(f, S \ {x})
           one == {x} \X (1..f[x])
<1>1. IsFiniteSet(rest) /\ Cardinality(rest) \in Nat
  <2>1. IsFiniteSet(S \ {x})
    BY FS_RemoveElement
  <2>2. QED
    BY <2>1, UnitsFinite
<1>2. IsFiniteSet(one) /\ Cardinality(one) = f[x]
  BY UnitsOfOne
<1>3. Units(f, S) = rest \cup one /\ rest \cap one = {}
  BY DEF Units
<1> HIDE DEF rest, one
<1>4. Cardinality(rest \cup one) = Cardinality(rest) + Cardinality(one) - Cardinality(rest \cap one)
  BY <1>1, <1>2, FS_Union
<1>5. Cardinality(rest \cap one) = 0
  BY <1>3, FS_EmptySet
<1>6. QED
  BY <1>1, <1>2, <1>3, <1>4, <1>5 DEF rest

\* The fold of the community modules counts the units: the count satisfies the
\* fold's equation, and no other function does, by a smallest set where it differs.
LEMMA SumIsUnits ==
  ASSUME NEW f, NEW S, IsFiniteSet(S), \A y \in S : f[y] \in Nat
  PROVE SumFunctionOnSet(f, S) = Cardinality(Units(f, S))
<1> DEFINE Def(g) == [s \in SUBSET S |-> IF s = {} THEN 0 ELSE LET x == CHOOSE x \in s : TRUE IN f[x] + g[s \ {x}]]
           it == CHOOSE g : g = Def(g)
           count == [s \in SUBSET S |-> Cardinality(Units(f, s))]
<1>1. SumFunctionOnSet(f, S) = it[S]
  BY DEF SumFunctionOnSet, FoldFunctionOnSet, MapThenFoldSet
<1>2. ASSUME NEW s \in SUBSET S PROVE Def(count)[s] = Cardinality(Units(f, s))
  <2>1. CASE s = {}
    BY <2>1, FS_EmptySet DEF Units
  <2>2. CASE s # {}
    <3> DEFINE x == CHOOSE y \in s : TRUE
    <3>1. x \in s /\ s \ {x} \in SUBSET S
      BY <2>2
    <3>2. Def(count)[s] = f[x] + Cardinality(Units(f, s \ {x}))
      BY <2>2, <3>1
    <3>3. IsFiniteSet(s)
      BY FS_Subset
    <3> HIDE DEF x
    <3>4. QED
      BY <3>1, <3>2, <3>3, UnitsSplit
  <2>3. QED
    BY <2>1, <2>2
<1>3. count = Def(count)
  BY <1>2
<1>4. it = Def(it)
  BY <1>3
<1> DEFINE bad == {s \in SUBSET S : it[s] # Cardinality(Units(f, s))}
<1>5. CASE bad # {}
  <2>1. IsWellFoundedOn(StrictSubsetOrdering(S), SUBSET S)
    BY FS_StrictSubsetOrderingWellFounded, FS_FiniteSubsetsOfFinite
  <2>2. bad \subseteq SUBSET S
    OBVIOUS
  <2> HIDE DEF bad
  <2>3. PICK s \in bad : \A r \in bad : ~ (<<r, s>> \in StrictSubsetOrdering(S))
    BY <1>5, <2>1, <2>2, WFMin
  <2>4. s \in SUBSET S /\ it[s] # Cardinality(Units(f, s))
    BY DEF bad
  <2> DEFINE x == CHOOSE y \in s : TRUE
  <2>5. CASE s = {}
    <3>1. it[s] = 0 /\ Cardinality(Units(f, s)) = 0
      BY <2>5, <1>4, FS_EmptySet DEF Units
    <3>2. QED
      BY <3>1, <2>4
  <2>6. CASE s # {}
    <3>1. x \in s /\ s \ {x} \in SUBSET S
      BY <2>6, <2>4
    <3>2. it[s] = f[x] + it[s \ {x}]
      BY <1>4, <2>4, <2>6
    <3>3. IsFiniteSet(s)
      BY <2>4, FS_Subset
    <3>4. <<s \ {x}, s>> \in StrictSubsetOrdering(S)
      BY <3>1, <2>4 DEF StrictSubsetOrdering
    <3>5. it[s \ {x}] = Cardinality(Units(f, s \ {x}))
      BY <3>1, <3>4, <2>3 DEF bad
    <3> HIDE DEF x, it
    <3>6. QED
      BY <3>1, <3>2, <3>3, <3>5, <2>4, UnitsSplit
  <2>7. QED
    BY <2>5, <2>6
<1>6. CASE bad = {}
  <2>1. S \in SUBSET S
    OBVIOUS
  <2>2. QED
    BY <1>1, <1>6, <2>1
<1>7. QED
  BY <1>5, <1>6

\* What the proofs below use of sums: their type,
LEMMA SumNat ==
  ASSUME NEW f, NEW S, IsFiniteSet(S), \A y \in S : f[y] \in Nat
  PROVE  SumFunctionOnSet(f, S) \in Nat
BY SumIsUnits, UnitsFinite

\* one balance split off,
LEMMA SumSplit ==
  ASSUME NEW f, NEW S, IsFiniteSet(S), \A y \in S : f[y] \in Nat, NEW x \in S
  PROVE  SumFunctionOnSet(f, S) = f[x] + SumFunctionOnSet(f, S \ {x})
<1>1. IsFiniteSet(S \ {x})
  BY FS_RemoveElement
<1>2. SumFunctionOnSet(f, S \ {x}) = Cardinality(Units(f, S \ {x}))
  BY <1>1, SumIsUnits
<1>3. QED
  BY <1>2, SumIsUnits, UnitsSplit

\* equal balances,
LEMMA SumSame ==
  ASSUME NEW f, NEW g, NEW S, IsFiniteSet(S), \A y \in S : f[y] \in Nat /\ g[y] = f[y]
  PROVE  SumFunctionOnSet(g, S) = SumFunctionOnSet(f, S)
<1>1. Units(g, S) = Units(f, S)
  BY DEF Units
<1>2. QED
  BY <1>1, SumIsUnits

\* one balance changed,
LEMMA SumChange ==
  ASSUME NEW f, NEW g, NEW S, IsFiniteSet(S), \A y \in S : f[y] \in Nat /\ g[y] \in Nat,
         NEW x \in S, \A y \in S \ {x} : g[y] = f[y]
  PROVE  SumFunctionOnSet(g, S) = SumFunctionOnSet(f, S) - f[x] + g[x]
<1>1. IsFiniteSet(S \ {x})
  BY FS_RemoveElement
<1>2. /\ SumFunctionOnSet(f, S \ {x}) \in Nat
      /\ SumFunctionOnSet(g, S \ {x}) = SumFunctionOnSet(f, S \ {x})
  BY <1>1, SumNat, SumSame
<1>3. /\ SumFunctionOnSet(f, S) = f[x] + SumFunctionOnSet(f, S \ {x})
      /\ SumFunctionOnSet(g, S) = g[x] + SumFunctionOnSet(g, S \ {x})
  BY SumSplit
<1>4. QED
  BY <1>2, <1>3

\* and no balances.
LEMMA SumEmpty == \A f : SumFunctionOnSet(f, {}) = 0
<1> TAKE f
<1>1. IsFiniteSet({}) /\ Units(f, {}) = {} /\ Cardinality({}) = 0
  BY FS_EmptySet DEF Units
<1>2. QED
  BY <1>1, SumIsUnits

-----------------------------------------------------------------------------
(* What an instruction does to the ledger. *)

CoinValues == [sn \in Serials |-> registry[sn].value]

\* A step that mints and redeems nothing.
Keeps ==
  /\ KeepCoins
  /\ \A s \in Serials : registry'[s].status = registry[s].status
  /\ supply' = supply /\ vault' >= vault
  /\ \A w \in Wallets :
       /\ allowance'[w].committed = allowance[w].committed
       /\ allowance'[w].initialized = allowance[w].initialized
       /\ allowance'[w].cap = allowance[w].cap \/ allowance'[w].cap >= allowance[w].committed

\* A step that mints a coin of value v to w.
Mints(sn, v, w) ==
  /\ registry[sn].status = "NONE"
  /\ registry'[sn].status = "ACTIVE" /\ registry'[sn].value = v /\ registry'[sn].recipient = w
  /\ \A s \in Serials \ {sn} : registry'[s] = registry[s]
  /\ supply' = supply + v /\ vault' = vault /\ vault >= supply + v
  /\ \A x \in Wallets \ {w} : allowance'[x] = allowance[x]
  /\ allowance'[w].initialized
  /\ allowance'[w].committed =
       (IF allowance[w].initialized THEN allowance[w].committed ELSE 0) + v
  /\ allowance'[w].committed <= allowance'[w].cap

\* A step that pays the value of a coin out of the vault.
Redeems(sn) ==
  LET v == registry[sn].value  r == registry[sn].recipient IN
  /\ registry[sn].status = "ACTIVE" /\ r \in Wallets
  /\ KeepCoins
  /\ \A s \in Serials :
       registry'[s].status = IF s = sn THEN "SPENT" ELSE registry[s].status
  /\ supply >= v /\ supply' = supply - v
  /\ vault >= v /\ vault' = vault - v
  /\ \A w \in Wallets :
       /\ allowance'[w].initialized = allowance[w].initialized
       /\ allowance'[w].cap = allowance[w].cap
       /\ \/ allowance'[w].committed = allowance[w].committed
          \/ w = r /\ allowance'[w].committed = allowance[w].committed - v

\* A win on the spot redeems the coin.
LEMMA WinRedeems ==
  ASSUME TypeOK, NEW sn \in Serials, NEW a \in Attempts, FinResolveWin(sn, a)
  PROVE  Redeems(sn)
<1>1. /\ registry[sn].status = "ACTIVE" /\ registry[sn].recipient \in Wallets
  <2>1. sub[sn][a].status # "NONE" /\ registry[sn].status # "SPENT"
    BY DEF FinResolveWin, CanWin, CanResolve, CanFinalize
  <2>2. registry[sn] \in Registries
    BY DEF TypeOK, AccountTypes
  <2>3. QED
    BY <2>1, <2>2, StartedSubmission DEF Registries
<1>2. \A w \in Wallets : allowance[w] \in Allowances
  BY DEF TypeOK, AccountTypes
<1>3. KeepCoins /\ \A s \in Serials :
        registry'[s].status = IF s = sn THEN "SPENT" ELSE registry[s].status
  BY WinEffect
<1>4. \A w \in Wallets :
       /\ allowance'[w].initialized = allowance[w].initialized
       /\ allowance'[w].cap = allowance[w].cap
       /\ \/ allowance'[w].committed = allowance[w].committed
          \/ /\ w = registry[sn].recipient
             /\ allowance'[w].committed = allowance[w].committed - registry[sn].value
  BY <1>1, <1>2 DEF FinResolveWin, CanWin, TypeOK, AccountTypes, Allowances
<1>5. QED
  BY <1>1, <1>3, <1>4 DEF FinResolveWin, CanWin, Redeems

\* settle closes one coin and takes its value out of the vault.
LEMMA SettleRedeems ==
  ASSUME TypeOK, NEW sn \in Serials, NEW a \in Attempts, NEW withOther \in BOOLEAN,
         NEW withAllowance \in BOOLEAN, Settle(sn, a, withOther, withAllowance)
  PROVE  Redeems(sn)
<1>1. /\ registry[sn].status = "ACTIVE" /\ registry[sn].recipient \in Wallets
  BY DEF Settle, CanPayOut, CanSettle, TypeOK, RegistryWritten
<1>2. \A w \in Wallets : allowance[w] \in Allowances
  BY DEF TypeOK, AccountTypes
<1>3. /\ \A s \in Serials :
           registry'[s].status = IF s = sn THEN "SPENT" ELSE registry[s].status
      /\ KeepCoins
  BY SettleEffect
<1>4. \A w \in Wallets :
       /\ allowance'[w].initialized = allowance[w].initialized
       /\ allowance'[w].cap = allowance[w].cap
       /\ \/ allowance'[w].committed = allowance[w].committed
          \/ /\ w = registry[sn].recipient
             /\ allowance'[w].committed = allowance[w].committed - registry[sn].value
  BY <1>1, <1>2 DEF Settle, TypeOK, AccountTypes, Allowances
<1>5. QED
  BY <1>1, <1>3, <1>4 DEF Settle, CanPayOut, Redeems

\* mint_coin opens one coin and requires that the vault covers it.
LEMMA MintMints ==
  ASSUME TypeOK, NEW sn \in Serials, NEW v \in Values, NEW w \in Wallets,
         MintCoin(sn, v, w)
  PROVE  Mints(sn, v, w)
<1> DEFINE al == OpenAllowance(w)
<1>1. al \in Allowances
  BY ConfigAssumption DEF OpenAllowance, TypeOK, AccountTypes, Allowances
<1>2. /\ al.committed = IF allowance[w].initialized THEN allowance[w].committed ELSE 0
      /\ al.initialized
  BY DEF OpenAllowance
<1>3. allowance' = [allowance EXCEPT ![w] = [al EXCEPT !.committed = @ + v]]
  BY DEF MintCoin
<1>4. v \in Nat
  BY DataAssumption
<1>5. al.committed + v <= al.cap /\ vault >= supply + v /\ supply' = supply + v /\ vault' = vault
  BY DEF MintCoin, CanMint, MintFits
<1> HIDE DEF al
<1>6. /\ allowance'[w].initialized
      /\ allowance'[w].committed = al.committed + v
      /\ allowance'[w].cap = al.cap
      /\ \A x \in Wallets \ {w} : allowance'[x] = allowance[x]
  BY <1>1, <1>2, <1>3 DEF TypeOK, AccountTypes, Allowances
<1>7. QED
  BY <1>2, <1>5, <1>6, MintEffect DEF Mints

\* Every step of the program is one of the three.
LEMMA LedgerStep ==
  ASSUME TypeOK, [Next]_vars
  PROVE  \/ Keeps
         \/ \E sn \in Serials, v \in Values, w \in Wallets : Mints(sn, v, w)
         \/ \E sn \in Serials : Redeems(sn)
<1>t. /\ \A w \in Wallets : allowance[w] \in Allowances
      /\ \A s \in Serials : registry[s] \in Registries
      /\ vault \in Nat /\ Amounts \subseteq Nat
  BY InputAssumption DEF TypeOK, AccountTypes
<1>1. ASSUME UNCHANGED <<registry, supply, vault, allowance>> PROVE Keeps
  BY <1>1, <1>t DEF Keeps, KeepCoins
<1>2. ASSUME NEW n \in Amounts, FundVault(n) PROVE Keeps
  BY <1>2, <1>t DEF FundVault, Keeps, KeepCoins
<1>3. ASSUME NEW w \in Wallets, NEW cap \in Caps, SetAllowance(w, cap) PROVE Keeps
  <2>1. UNCHANGED <<registry, supply, vault>>
    BY <1>3 DEF SetAllowance
  <2>2. /\ \A x \in Wallets \ {w} : allowance'[x] = allowance[x]
        /\ allowance'[w].cap = cap /\ cap >= allowance[w].committed
        /\ allowance'[w].committed = allowance[w].committed
        /\ allowance'[w].initialized = allowance[w].initialized
    BY <1>3, <1>t DEF SetAllowance, TypeOK, AccountTypes, Allowances
  <2>3. QED
    BY <1>t, <2>1, <2>2 DEF Keeps, KeepCoins
<1>4. ASSUME NEW sn \in Serials, NEW a \in Attempts, NEW c \in Wallets,
             NEW st \in State, StartCheckIn(sn, a, c, st)
      PROVE  Keeps
  <2>1. KeepCoins /\ \A s \in Serials : registry'[s].status = registry[s].status
    BY <1>4, StartEffect
  <2>2. UNCHANGED <<supply, vault, allowance>>
    BY <1>4 DEF StartCheckIn
  <2>3. QED
    BY <1>t, <2>1, <2>2 DEF Keeps
<1>5. CASE Tick
  BY <1>1, <1>5 DEF Tick
<1>6. ASSUME NEW sn, NEW a, NEW w, NEW links, NEW h, AppendLinks(sn, a, w, links, h)
      PROVE  Keeps
  BY <1>1, <1>6 DEF AppendLinks
<1>7. ASSUME NEW sn, NEW a, FinRejectSpent(sn, a) \/ FinSetHead(sn, a) \/ FinResolveLose(sn, a)
      PROVE  Keeps
  BY <1>1, <1>7 DEF FinRejectSpent, FinSetHead, FinResolveLose
<1>8. CASE UNCHANGED vars
  BY <1>1, <1>8 DEF vars
<1>9. QED
  BY <1>2, <1>3, <1>4, <1>5, <1>6, <1>7, <1>8, MintMints, WinRedeems, SettleRedeems, GenesisType
  DEF Next, FinalizeCheckIn

-----------------------------------------------------------------------------
(* The value of a set of coins. *)

\* It is a natural number and covers each of the coins.
LEMMA ValueOfCoins ==
  ASSUME TypeOK, NEW S \in SUBSET Serials
  PROVE  /\ IsFiniteSet(S) /\ \A s \in S : CoinValues[s] = registry[s].value /\ CoinValues[s] \in Nat
         /\ ValueOf(S) = SumFunctionOnSet(CoinValues, S)
         /\ ValueOf(S) \in Nat
         /\ \A s \in S : registry[s].value <= ValueOf(S)
<1>1. IsFiniteSet(S)
  BY FiniteAssumption, FS_Subset
<1>2. \A s \in S : CoinValues[s] = registry[s].value /\ CoinValues[s] \in Nat
  BY BondNat DEF CoinValues, TypeOK
<1>3. ValueOf(S) = SumFunctionOnSet(CoinValues, S)
  BY DEF ValueOf, CoinValues
<1>4. ValueOf(S) \in Nat
  BY <1>1, <1>2, <1>3, SumNat
<1>5. ASSUME NEW s \in S PROVE registry[s].value <= ValueOf(S)
  <2>1. IsFiniteSet(S \ {s})
    BY <1>1, FS_RemoveElement
  <2>2. SumFunctionOnSet(CoinValues, S \ {s}) \in Nat
    BY <1>2, <2>1, SumNat
  <2>3. SumFunctionOnSet(CoinValues, S) = CoinValues[s] + SumFunctionOnSet(CoinValues, S \ {s})
    BY <1>1, <1>2, SumSplit
  <2>4. QED
    BY <1>2, <1>3, <2>2, <2>3
<1>6. QED
  BY <1>1, <1>2, <1>3, <1>4, <1>5

\* The same coins after a step that keeps their values; with one coin more; with
\* one coin less.
LEMMA SameCoins ==
  ASSUME TypeOK, NEW S \in SUBSET Serials, \A s \in S : registry'[s].value = registry[s].value
  PROVE  SumFunctionOnSet(CoinValues', S) = ValueOf(S)
<1>1. \A s \in S : CoinValues'[s] = CoinValues[s]
  BY DEF CoinValues
<1>2. QED
  BY <1>1, ValueOfCoins, SumSame

\* A coin more adds its value.
LEMMA OneCoinMore ==
  ASSUME TypeOK, TypeOK', NEW S \in SUBSET Serials, NEW sn \in Serials \ S,
         \A s \in S : registry'[s].value = registry[s].value
  PROVE  SumFunctionOnSet(CoinValues', S \cup {sn}) = ValueOf(S) + registry'[sn].value
<1> DEFINE T == S \cup {sn}
<1>1. T \ {sn} = S /\ sn \in T /\ T \in SUBSET Serials
  OBVIOUS
<1>2. IsFiniteSet(T)
  BY <1>1, FiniteAssumption, FS_Subset
<1>3. \A s \in T : CoinValues'[s] = registry'[s].value /\ CoinValues'[s] \in Nat
  BY DEF CoinValues, TypeOK, AccountTypes, Registries
<1> HIDE DEF T
<1>4. SumFunctionOnSet(CoinValues', T) = CoinValues'[sn] + SumFunctionOnSet(CoinValues', T \ {sn})
  BY <1>1, <1>2, <1>3, SumSplit
<1>5. SumFunctionOnSet(CoinValues', S) = ValueOf(S) /\ ValueOf(S) \in Nat
  BY SameCoins, ValueOfCoins
<1>6. sn \in T /\ CoinValues'[sn] = registry'[sn].value /\ registry'[sn].value \in Nat
  BY <1>1, <1>3
<1>7. SumFunctionOnSet(CoinValues', T) = registry'[sn].value + ValueOf(S)
  <2>1. SumFunctionOnSet(CoinValues', T) = registry'[sn].value + SumFunctionOnSet(CoinValues', S)
    BY <1>1, <1>4, <1>6, Zenon
  <2>2. QED
    BY <1>5, <2>1, Zenon
<1>8. SumFunctionOnSet(CoinValues', T) = ValueOf(S) + registry'[sn].value
  BY <1>5, <1>6, <1>7
<1>9. QED
  BY <1>8 DEF T

\* The same for a coin that is closed.
LEMMA OneCoinLess ==
  ASSUME TypeOK, NEW S \in SUBSET Serials, NEW sn \in S,
         \A s \in S : registry'[s].value = registry[s].value
  PROVE  SumFunctionOnSet(CoinValues', S \ {sn}) = ValueOf(S) - registry[sn].value
<1>1. SumFunctionOnSet(CoinValues, S) = CoinValues[sn] + SumFunctionOnSet(CoinValues, S \ {sn})
  BY ValueOfCoins, SumSplit
<1>2. /\ ValueOf(S) = SumFunctionOnSet(CoinValues, S)
      /\ ValueOf(S \ {sn}) = SumFunctionOnSet(CoinValues, S \ {sn})
      /\ ValueOf(S \ {sn}) \in Nat /\ CoinValues[sn] = registry[sn].value
      /\ CoinValues[sn] \in Nat
  BY ValueOfCoins
<1>3. SumFunctionOnSet(CoinValues', S \ {sn}) = ValueOf(S \ {sn})
  BY SameCoins
<1>4. QED
  BY <1>1, <1>2, <1>3

-----------------------------------------------------------------------------
(* The vault. *)

\* Every instruction keeps the vault at least as large as the open coins.
LEMMA VaultStep ==
  ASSUME TypeOK, TypeOK', VaultBacksOpenCoins, [Next]_vars
  PROVE  VaultBacksOpenCoins'
<1> DEFINE S == OpenCoins
<1>0. /\ S \in SUBSET Serials /\ supply = ValueOf(S) /\ vault >= supply
      /\ supply \in Nat /\ vault \in Nat /\ supply' \in Nat /\ vault' \in Nat
  BY DEF VaultBacksOpenCoins, OpenCoins, TypeOK, AccountTypes
<1>s. SUFFICES supply' = SumFunctionOnSet(CoinValues', OpenCoins') /\ vault' >= supply'
  BY DEF VaultBacksOpenCoins, ValueOf, CoinValues
<1>1. CASE Keeps
  <2>1. OpenCoins' = S /\ \A s \in S : registry'[s].value = registry[s].value
    BY <1>1 DEF Keeps, KeepCoins, OpenCoins
  <2>2. QED
    BY <1>0, <1>1, <2>1, SameCoins DEF Keeps
<1>2. ASSUME NEW sn \in Serials, NEW v \in Values, NEW w \in Wallets, Mints(sn, v, w)
      PROVE  supply' = SumFunctionOnSet(CoinValues', OpenCoins') /\ vault' >= supply'
  <2>1. /\ OpenCoins' = S \cup {sn} /\ sn \in Serials \ S
        /\ \A s \in S : registry'[s].value = registry[s].value
    BY <1>2 DEF Mints, OpenCoins
  <2>2. SumFunctionOnSet(CoinValues', S \cup {sn}) = ValueOf(S) + registry'[sn].value
    BY <1>0, <2>1, OneCoinMore
  <2>3. QED
    BY <1>0, <1>2, <2>1, <2>2 DEF Mints
<1>3. ASSUME NEW sn \in Serials, Redeems(sn)
      PROVE  supply' = SumFunctionOnSet(CoinValues', OpenCoins') /\ vault' >= supply'
  <2>1. /\ OpenCoins' = S \ {sn} /\ sn \in S
        /\ \A s \in S : registry'[s].value = registry[s].value
    BY <1>3 DEF Redeems, KeepCoins, OpenCoins
  <2>2. SumFunctionOnSet(CoinValues', S \ {sn}) = ValueOf(S) - registry[sn].value
    BY <1>0, <2>1, OneCoinLess
  <2>3. registry[sn].value \in Nat
    BY BondNat DEF TypeOK
  <2>4. QED
    BY <1>0, <1>3, <2>1, <2>2, <2>3 DEF Redeems
<1>4. QED
  BY <1>1, <1>2, <1>3, LedgerStep

\* At the start there are no coins and they are worth nothing.
LEMMA NoCoinsYet == Init => OpenCoins = {} /\ ValueOf(OpenCoins) = 0
<1> SUFFICES ASSUME Init PROVE OpenCoins = {} /\ ValueOf(OpenCoins) = 0
  OBVIOUS
<1>1. OpenCoins = {}
  BY DEF Init, OpenCoins, NoCoin
<1>2. ValueOf({}) = 0
  BY SumEmpty DEF ValueOf
<1>3. QED
  BY <1>1, <1>2

\* I2: total_unspent_supply is the value of the open coins and the vault covers
\* it, for any number of coins, through every mint, dispute and settle.
THEOREM VaultBacksCoins == Spec => []VaultBacksOpenCoins
<1>1. Init => VaultBacksOpenCoins
  BY NoCoinsYet DEF Init, VaultBacksOpenCoins
<1>2. TypeOK /\ TypeOK' /\ VaultBacksOpenCoins /\ [Next]_vars => VaultBacksOpenCoins'
  BY VaultStep
<1>3. QED
  BY <1>1, <1>2, TypeCorrect, PTL DEF Spec

-----------------------------------------------------------------------------
(* Allowances. *)

\* The strengthening of AllowanceCoversOpenCoins: an account that the next mint
\* to its wallet will create has committed nothing.
AllowanceRight(w) ==
  /\ ValueOf(OpenCoinsOf(w)) <= allowance[w].committed
  /\ allowance[w].committed <= allowance[w].cap
  /\ ~allowance[w].initialized => allowance[w].committed = 0

\* Every step keeps what AllowanceRight says of a wallet.
LEMMA AllowanceStep ==
  ASSUME TypeOK, TypeOK', [Next]_vars, NEW x \in Wallets, AllowanceRight(x)
  PROVE  AllowanceRight(x)'
<1> DEFINE S == OpenCoinsOf(x)
           al == allowance[x]
           be == allowance'[x]
<1>0. /\ S \in SUBSET Serials /\ ValueOf(S) \in Nat
      /\ al.committed \in Nat /\ al.cap \in Nat /\ be.committed \in Nat /\ be.cap \in Nat
  BY ValueOfCoins DEF OpenCoinsOf, OpenCoins, TypeOK, AccountTypes, Allowances
<1>r. ValueOf(S) <= al.committed /\ al.committed <= al.cap /\ (~al.initialized => al.committed = 0)
  BY DEF AllowanceRight
<1>s. SUFFICES /\ SumFunctionOnSet(CoinValues', OpenCoinsOf(x)') <= be.committed
               /\ be.committed <= be.cap
               /\ ~be.initialized => be.committed = 0
  BY DEF AllowanceRight, ValueOf, CoinValues
<1> HIDE DEF al, be
<1>1. CASE Keeps
  <2>1. OpenCoinsOf(x)' = S /\ \A s \in S : registry'[s].value = registry[s].value
    BY <1>1 DEF Keeps, KeepCoins, OpenCoinsOf, OpenCoins
  <2>2. /\ be.committed = al.committed /\ be.initialized = al.initialized
        /\ be.cap = al.cap \/ be.cap >= al.committed
    BY <1>1 DEF Keeps, al, be
  <2>3. QED
    BY <1>0, <1>r, <2>1, <2>2, SameCoins
<1>2. ASSUME NEW sn \in Serials, NEW v \in Values, NEW w \in Wallets, Mints(sn, v, w)
      PROVE  /\ SumFunctionOnSet(CoinValues', OpenCoinsOf(x)') <= be.committed
             /\ be.committed <= be.cap
             /\ ~be.initialized => be.committed = 0
  <2>1. sn \in Serials \ S /\ \A s \in S : registry'[s].value = registry[s].value
    BY <1>2 DEF Mints, OpenCoinsOf, OpenCoins
  <2>2. CASE w = x
    <3>1. OpenCoinsOf(x)' = S \cup {sn} /\ registry'[sn].value = v
      BY <1>2, <2>2 DEF Mints, OpenCoinsOf, OpenCoins
    <3>2. SumFunctionOnSet(CoinValues', S \cup {sn}) = ValueOf(S) + v
      BY <1>0, <2>1, <3>1, OneCoinMore
    <3>3. /\ be.initialized /\ be.committed <= be.cap
          /\ be.committed = (IF al.initialized THEN al.committed ELSE 0) + v
      BY <1>2, <2>2 DEF Mints, al, be
    <3>4. v \in Nat
      BY DataAssumption
    <3>5. QED
      BY <1>0, <1>r, <3>1, <3>2, <3>3, <3>4
  <2>3. CASE w # x
    <3>1. OpenCoinsOf(x)' = S
      BY <1>2, <2>3 DEF Mints, OpenCoinsOf, OpenCoins
    <3>2. be = al
      BY <1>2, <2>3 DEF Mints, al, be
    <3>3. QED
      BY <1>0, <1>r, <2>1, <3>1, <3>2, SameCoins
  <2>4. QED
    BY <2>2, <2>3
<1>3. ASSUME NEW sn \in Serials, Redeems(sn)
      PROVE  /\ SumFunctionOnSet(CoinValues', OpenCoinsOf(x)') <= be.committed
             /\ be.committed <= be.cap
             /\ ~be.initialized => be.committed = 0
  <2>1. \A s \in S : registry'[s].value = registry[s].value
    BY <1>3 DEF Redeems, KeepCoins, OpenCoinsOf, OpenCoins
  <2>v. registry[sn].value \in Nat
    BY BondNat DEF TypeOK
  <2>c. /\ be.initialized = al.initialized /\ be.cap = al.cap
        /\ \/ be.committed = al.committed
           \/ /\ registry[sn].recipient = x
              /\ be.committed = al.committed - registry[sn].value
    BY <1>3 DEF Redeems, al, be
  <2>2. CASE registry[sn].recipient = x
    <3>1. OpenCoinsOf(x)' = S \ {sn} /\ sn \in S
      BY <1>3, <2>2 DEF Redeems, KeepCoins, OpenCoinsOf, OpenCoins
    <3>2. SumFunctionOnSet(CoinValues', S \ {sn}) = ValueOf(S) - registry[sn].value
      BY <1>0, <2>1, <3>1, OneCoinLess
    <3>3. QED
      BY <1>0, <1>r, <2>v, <2>c, <3>1, <3>2
  <2>3. CASE registry[sn].recipient # x
    <3>1. OpenCoinsOf(x)' = S
      BY <1>3, <2>3 DEF Redeems, KeepCoins, OpenCoinsOf, OpenCoins
    <3>2. QED
      BY <1>0, <1>r, <2>1, <2>c, <2>3, <3>1, SameCoins
  <2>4. QED
    BY <2>2, <2>3
<1>4. QED
  BY <1>1, <1>2, <1>3, LedgerStep

\* At the start there are no allowances and nothing to cover.
LEMMA AllowanceInit == Init => \A w \in Wallets : AllowanceRight(w)
<1> SUFFICES ASSUME Init, NEW w \in Wallets PROVE AllowanceRight(w)
  OBVIOUS
<1>1. OpenCoinsOf(w) = {} /\ ValueOf(OpenCoinsOf(w)) = 0
  BY SumEmpty DEF Init, OpenCoinsOf, OpenCoins, NoCoin, ValueOf
<1>2. QED
  BY <1>1 DEF Init, AllowanceRight

\* I5, the half that holds: no wallet was ever given more than its cap in coins
\* that are still open, whatever settle leaves out and set_allowance changes.
THEOREM AllowancesCover == Spec => []AllowanceCoversOpenCoins
<1> DEFINE Inv == \A w \in Wallets : AllowanceRight(w)
<1>1. Init => Inv
  BY AllowanceInit
<1>2. TypeOK /\ TypeOK' /\ Inv /\ [Next]_vars => Inv'
  BY AllowanceStep
<1>3. Inv => AllowanceCoversOpenCoins
  BY DEF AllowanceRight, AllowanceCoversOpenCoins
<1>4. QED
  BY <1>1, <1>2, <1>3, TypeCorrect, PTL DEF Spec

-----------------------------------------------------------------------------
(* Tokens. *)

\* The bonds of a coin's two submissions together.
Held(sn) == escrow[sn][0] + escrow[sn][1]

\* There are finitely many accounts.
LEMMA AccountsFinite == IsFiniteSet(Accounts)
<1>1. IsFiniteSet({MintAuthority})
  BY FS_Singleton
<1>2. QED
  BY <1>1, FiniteAssumption, FS_Union DEF Accounts

\* Writing one balance.
LEMMA BalanceMoved ==
  ASSUME NEW f, NEW g, NEW x \in Accounts, \A y \in Accounts : f[y] \in Nat /\ g[y] \in Nat,
         \A y \in Accounts \ {x} : g[y] = f[y]
  PROVE  /\ SumFunctionOnSet(f, Accounts) \in Nat
         /\ SumFunctionOnSet(g, Accounts) = SumFunctionOnSet(f, Accounts) - f[x] + g[x]
BY AccountsFinite, SumNat, SumChange

\* Writing one balance changes the sum by the difference.
LEMMA BalanceWritten ==
  ASSUME NEW f \in [Accounts -> Nat], NEW g, NEW x \in Accounts, NEW n \in Nat,
         g = [f EXCEPT ![x] = n]
  PROVE  /\ g \in [Accounts -> Nat]
         /\ SumFunctionOnSet(f, Accounts) \in Nat
         /\ SumFunctionOnSet(g, Accounts) = SumFunctionOnSet(f, Accounts) - f[x] + n
<1>1. g \in [Accounts -> Nat] /\ g[x] = n /\ \A y \in Accounts \ {x} : g[y] = f[y]
  OBVIOUS
<1>2. /\ SumFunctionOnSet(f, Accounts) \in Nat
      /\ SumFunctionOnSet(g, Accounts) = SumFunctionOnSet(f, Accounts) - f[x] + g[x]
  BY <1>1, BalanceMoved
<1>3. QED
  BY <1>1, <1>2

\* The bonds of the two attempts, added up.
LEMMA EscrowedTogether ==
  ASSUME NEW e \in [Attempts -> Nat]
  PROVE  SumFunctionOnSet(e, Attempts) = e[0] + e[1]
<1>1. Attempts = {0, 1} /\ Attempts \ {0} = {1} /\ {1} \ {1} = {}
  BY DEF Attempts
<1>2. IsFiniteSet({1}) /\ IsFiniteSet({0, 1})
  <2>1. IsFiniteSet({1}) /\ IsFiniteSet({1} \cup {0})
    BY FS_Singleton, FS_AddElement
  <2>2. {0, 1} = {1} \cup {0}
    OBVIOUS
  <2>3. QED
    BY <2>1, <2>2
<1>3. e[0] \in Nat /\ e[1] \in Nat
  BY DEF Attempts
<1>4. SumFunctionOnSet(e, {0, 1}) = e[0] + SumFunctionOnSet(e, {0, 1} \ {0})
  BY <1>2, <1>3, SumSplit
<1>5. SumFunctionOnSet(e, {1}) = e[1] + SumFunctionOnSet(e, {1} \ {1})
  BY <1>2, <1>3, SumSplit
<1>6. SumFunctionOnSet(e, {1}) = e[1]
  BY <1>1, <1>3, <1>5, SumEmpty
<1>7. SumFunctionOnSet(e, {0, 1} \ {0}) = e[1]
  BY <1>1, <1>6
<1>8. QED
  BY <1>1, <1>4, <1>7

\* A step that touches the escrows of one coin.
LEMMA EscrowMoved ==
  ASSUME TypeOK, TypeOK', NEW sn \in Serials, \A s \in Serials \ {sn} : escrow'[s] = escrow[s]
  PROVE  /\ SumFunctionOnSet(Escrowed, Serials) \in Nat
         /\ SumFunctionOnSet(Escrowed', Serials)
              = SumFunctionOnSet(Escrowed, Serials) - Held(sn) + Held(sn)'
<1> DEFINE before == Escrowed
           after == Escrowed'
<1>1. \A s \in Serials : escrow[s] \in [Attempts -> Nat] /\ escrow'[s] \in [Attempts -> Nat]
  BY DEF TypeOK, AccountTypes
<1>2. \A s \in Serials : before[s] = Held(s) /\ after[s] = Held(s)'
  BY <1>1, EscrowedTogether DEF Escrowed, Held
<1>3. \A s \in Serials : before[s] \in Nat /\ after[s] \in Nat
  BY <1>1, <1>2 DEF Held, Attempts
<1>4. \A s \in Serials \ {sn} : after[s] = before[s]
  BY <1>2 DEF Held
<1> HIDE DEF before, after
<1>5. SumFunctionOnSet(before, Serials) \in Nat
  BY <1>3, FiniteAssumption, SumNat
<1>6. SumFunctionOnSet(after, Serials) = SumFunctionOnSet(before, Serials) - before[sn] + after[sn]
  BY <1>3, <1>4, FiniteAssumption, SumChange
<1>7. QED
  BY <1>2, <1>5, <1>6 DEF before, after

\* Held, seen from either attempt.
LEMMA HeldTwice ==
  ASSUME TypeOK, NEW sn \in Serials, NEW a \in Attempts
  PROVE  Held(sn) = escrow[sn][a] + escrow[sn][Other(a)] /\ Held(sn) \in Nat
BY DEF TypeOK, AccountTypes, Held, Other, Attempts

\* What a step does to the wallets, the vault, the fees and one coin's escrows
\* adds up.
Balanced(sn) ==
  /\ \A s \in Serials \ {sn} : escrow'[s] = escrow[s]
  /\ vault' + fees' + SumFunctionOnSet(wallet', Accounts) + Held(sn)'
       = vault + fees + SumFunctionOnSet(wallet, Accounts) + Held(sn)

\* start_check_in moves the bond from the checker into escrow.
LEMMA StartBalances ==
  ASSUME TypeOK, TypeOK', NEW sn \in Serials, NEW a \in Attempts, NEW c \in Wallets, NEW st,
         StartCheckIn(sn, a, c, st)
  PROVE  Balanced(sn)
<1> DEFINE B == Bond(sn)
           W == SumFunctionOnSet(wallet, Accounts)
<1>1. B \in Nat /\ wallet \in [Accounts -> Nat] /\ c \in Accounts /\ wallet[c] \in Nat
  BY BondNat DEF TypeOK, AccountTypes, Accounts
<1>2. /\ wallet[c] - B \in Nat /\ wallet' = [wallet EXCEPT ![c] = wallet[c] - B]
      /\ vault' = vault /\ fees' = fees
      /\ escrow' = [escrow EXCEPT ![sn][a] = @ + B]
  BY <1>1 DEF StartCheckIn, CanStart
<1> HIDE DEF B
<1>3. SumFunctionOnSet(wallet', Accounts) = W - B /\ W \in Nat
  <2>1. SumFunctionOnSet(wallet', Accounts) = W - wallet[c] + (wallet[c] - B) /\ W \in Nat
    BY <1>1, <1>2, BalanceWritten
  <2> HIDE DEF W
  <2>2. QED
    BY <1>1, <2>1
<1>4. /\ \A s \in Serials \ {sn} : escrow'[s] = escrow[s]
      /\ escrow'[sn][a] = escrow[sn][a] + B /\ escrow'[sn][Other(a)] = escrow[sn][Other(a)]
  BY <1>2, OtherAttempt DEF TypeOK, AccountTypes
<1>5. /\ Held(sn) = escrow[sn][a] + escrow[sn][Other(a)]
      /\ Held(sn)' = escrow'[sn][a] + escrow'[sn][Other(a)]
  BY HeldTwice DEF Held, TypeOK, AccountTypes, Other, Attempts
<1>6. /\ escrow[sn][a] \in Nat /\ escrow[sn][Other(a)] \in Nat /\ vault \in Nat /\ fees \in Nat
  BY OtherAttempt DEF TypeOK, AccountTypes
<1>7. QED
  BY <1>1, <1>2, <1>3, <1>4, <1>5, <1>6 DEF Balanced

\* Late contenders lose their bond to the fees.
LEMMA RejectBalances ==
  ASSUME TypeOK, TypeOK', NEW sn \in Serials, NEW a \in Attempts, FinRejectSpent(sn, a)
  PROVE  Balanced(sn)
<1> DEFINE B == Bond(sn)
           W == SumFunctionOnSet(wallet, Accounts)
<1>1. B \in Nat /\ W \in Nat
  BY BondNat, AccountsFinite, SumNat DEF TypeOK, AccountTypes
<1>2. /\ fees' = fees + B /\ vault' = vault /\ wallet' = wallet
      /\ escrow' = [escrow EXCEPT ![sn][a] = @ - B]
  BY DEF FinRejectSpent
<1>3. /\ \A s \in Serials \ {sn} : escrow'[s] = escrow[s]
      /\ escrow'[sn][a] = escrow[sn][a] - B /\ escrow'[sn][Other(a)] = escrow[sn][Other(a)]
  BY <1>2, OtherAttempt DEF TypeOK, AccountTypes
<1>4. /\ Held(sn) = escrow[sn][a] + escrow[sn][Other(a)]
      /\ Held(sn)' = escrow'[sn][a] + escrow'[sn][Other(a)]
  BY HeldTwice DEF Held, TypeOK, AccountTypes, Other, Attempts
<1>5. /\ escrow[sn][a] \in Nat /\ escrow[sn][Other(a)] \in Nat /\ vault \in Nat /\ fees \in Nat
  BY OtherAttempt DEF TypeOK, AccountTypes
<1> HIDE DEF B, W
<1>6. SumFunctionOnSet(wallet', Accounts) = W
  BY <1>2 DEF W
<1>7. QED
  BY <1>1, <1>2, <1>3, <1>4, <1>5, <1>6 DEF Balanced, W

\* A contender that loses pays its bond to the checker of the head.
LEMMA LoseBalances ==
  ASSUME TypeOK, TypeOK', NEW sn \in Serials, NEW a \in Attempts, FinResolveLose(sn, a)
  PROVE  Balanced(sn)
<1> DEFINE B == Bond(sn)
           W == SumFunctionOnSet(wallet, Accounts)
           c == sub[sn][Other(a)].checker
<1>1. /\ B \in Nat /\ wallet \in [Accounts -> Nat] /\ c \in Accounts /\ wallet[c] \in Nat
  <2>1. sub[sn][Other(a)].status # "NONE" /\ Other(a) \in Attempts
    BY OtherAttempt DEF FinResolveLose, CanResolve
  <2>2. c \in Wallets
    BY <2>1, StartedSubmission
  <2>3. QED
    BY <2>2, BondNat DEF TypeOK, AccountTypes, Accounts
<1>2. /\ wallet' = [wallet EXCEPT ![c] = wallet[c] + B] /\ fees' = fees /\ vault' = vault
      /\ escrow' = [escrow EXCEPT ![sn][a] = @ - B]
  BY DEF FinResolveLose
<1> HIDE DEF B, c
<1>3. SumFunctionOnSet(wallet', Accounts) = W + B /\ W \in Nat
  <2>1. wallet[c] + B \in Nat
    BY <1>1
  <2>2. SumFunctionOnSet(wallet', Accounts) = W - wallet[c] + (wallet[c] + B) /\ W \in Nat
    BY <1>1, <1>2, <2>1, BalanceWritten
  <2> HIDE DEF W
  <2>3. QED
    BY <1>1, <2>2
<1>4. /\ \A s \in Serials \ {sn} : escrow'[s] = escrow[s]
      /\ escrow'[sn][a] = escrow[sn][a] - B /\ escrow'[sn][Other(a)] = escrow[sn][Other(a)]
  BY <1>2, OtherAttempt DEF TypeOK, AccountTypes
<1>5. /\ Held(sn) = escrow[sn][a] + escrow[sn][Other(a)]
      /\ Held(sn)' = escrow'[sn][a] + escrow'[sn][Other(a)]
  BY HeldTwice DEF Held, TypeOK, AccountTypes, Other, Attempts
<1>6. /\ escrow[sn][a] \in Nat /\ escrow[sn][Other(a)] \in Nat /\ vault \in Nat /\ fees \in Nat
  BY OtherAttempt DEF TypeOK, AccountTypes
<1>7. QED
  BY <1>1, <1>2, <1>3, <1>4, <1>5, <1>6 DEF Balanced

\* Both bonds to the winner's checker and the value to the final owner.
LEMMA WinBalances ==
  ASSUME TypeOK, TypeOK', NEW sn \in Serials, NEW a \in Attempts, FinResolveWin(sn, a)
  PROVE  Balanced(sn)
<1> DEFINE B == Bond(sn)
           v == registry[sn].value
           W == SumFunctionOnSet(wallet, Accounts)
           c == sub[sn][a].checker
           f == sub[sn][a].final_owner
           paid == [wallet EXCEPT ![c] = wallet[c] + 2 * B]
           P == SumFunctionOnSet(paid, Accounts)
<1>1. /\ B \in Nat /\ v \in Nat /\ wallet \in [Accounts -> Nat]
      /\ c \in Accounts /\ f \in Accounts /\ wallet[c] \in Nat
  <2>1. sub[sn][a].status # "NONE"
    BY DEF FinResolveWin, CanWin, CanResolve, CanFinalize
  <2>2. c \in Wallets /\ f \in Wallets
    BY <2>1, StartedSubmission
  <2>3. QED
    BY <2>2, BondNat DEF TypeOK, AccountTypes, Accounts
<1>2. /\ wallet' = [paid EXCEPT ![f] = paid[f] + v] /\ fees' = fees /\ vault' = vault - v
      /\ escrow' = [escrow EXCEPT ![sn] = [b \in Attempts |-> escrow[sn][b] - Bond(sn)]]
  BY DEF FinResolveWin, CanWin
<1>3. /\ \A s \in Serials \ {sn} : escrow'[s] = escrow[s]
      /\ escrow'[sn][a] = escrow[sn][a] - B
      /\ escrow'[sn][Other(a)] = escrow[sn][Other(a)] - B
  BY <1>2, OtherAttempt DEF TypeOK, AccountTypes
<1> HIDE DEF B, v, c, f, W
<1>4. paid \in [Accounts -> Nat] /\ P = W + 2 * B /\ W \in Nat
  <2>1. wallet[c] + 2 * B \in Nat
    BY <1>1
  <2>2. /\ paid \in [Accounts -> Nat] /\ W \in Nat
        /\ P = W - wallet[c] + (wallet[c] + 2 * B)
    BY <1>1, <2>1, BalanceWritten DEF W
  <2> HIDE DEF P, paid
  <2>3. QED
    BY <1>1, <2>2
<1>5. SumFunctionOnSet(wallet', Accounts) = P + v /\ P \in Nat
  <2> HIDE DEF paid
  <2>1. paid[f] \in Nat /\ paid[f] + v \in Nat
    BY <1>1, <1>4
  <2>2. /\ P \in Nat
        /\ SumFunctionOnSet(wallet', Accounts) = P - paid[f] + (paid[f] + v)
    BY <1>1, <1>2, <1>4, <2>1, BalanceWritten
  <2> HIDE DEF P
  <2>3. QED
    BY <1>1, <2>1, <2>2
<1>6. /\ Held(sn) = escrow[sn][a] + escrow[sn][Other(a)]
      /\ Held(sn)' = escrow'[sn][a] + escrow'[sn][Other(a)]
  BY HeldTwice DEF Held, TypeOK, AccountTypes, Other, Attempts
<1>7. /\ escrow[sn][a] \in Nat /\ escrow[sn][Other(a)] \in Nat /\ vault \in Nat /\ fees \in Nat
  BY OtherAttempt DEF TypeOK, AccountTypes
<1> HIDE DEF P
<1>8. QED
  BY <1>1, <1>2, <1>3, <1>4, <1>5, <1>6, <1>7 DEF Balanced, W

\* The bond to the checker, a swept bond to the fees, the value to the owner.
LEMMA SettleBalances ==
  ASSUME TypeOK, TypeOK', NEW sn \in Serials, NEW a \in Attempts, NEW withOther \in BOOLEAN,
         NEW withAllowance \in BOOLEAN, Settle(sn, a, withOther, withAllowance)
  PROVE  Balanced(sn)
<1> DEFINE B == Bond(sn)
           v == registry[sn].value
           W == SumFunctionOnSet(wallet, Accounts)
           c == sub[sn][a].checker
           f == sub[sn][a].final_owner
           swept == Sweeps(sn, a, withOther)
           paid == [wallet EXCEPT ![f] = wallet[f] + v]
           P == SumFunctionOnSet(paid, Accounts)
<1>1. /\ B \in Nat /\ v \in Nat /\ wallet \in [Accounts -> Nat]
      /\ c \in Accounts /\ f \in Accounts /\ wallet[f] \in Nat
  <2>1. sub[sn][a].status # "NONE"
    BY DEF Settle, CanPayOut, CanSettle
  <2>2. c \in Wallets /\ f \in Wallets
    BY <2>1, StartedSubmission
  <2>3. QED
    BY <2>2, BondNat DEF TypeOK, AccountTypes, Accounts
<1>2. /\ wallet' = [paid EXCEPT ![c] = paid[c] + B] /\ vault' = vault - v
      /\ fees' = IF swept THEN fees + B ELSE fees
      /\ escrow' = [escrow EXCEPT ![sn] =
           [b \in Attempts |-> IF b = a \/ swept THEN escrow[sn][b] - Bond(sn) ELSE escrow[sn][b]]]
  BY DEF Settle
<1> HIDE DEF swept
<1>3. /\ \A s \in Serials \ {sn} : escrow'[s] = escrow[s]
      /\ escrow'[sn][a] = escrow[sn][a] - B
      /\ escrow'[sn][Other(a)] =
           IF swept THEN escrow[sn][Other(a)] - B ELSE escrow[sn][Other(a)]
  BY <1>2, OtherAttempt DEF TypeOK, AccountTypes
<1> HIDE DEF B, v, c, f, W
<1>4. paid \in [Accounts -> Nat] /\ P = W + v /\ W \in Nat
  <2>1. wallet[f] + v \in Nat
    BY <1>1
  <2>2. /\ paid \in [Accounts -> Nat] /\ W \in Nat
        /\ P = W - wallet[f] + (wallet[f] + v)
    BY <1>1, <2>1, BalanceWritten DEF W
  <2> HIDE DEF P, paid
  <2>3. QED
    BY <1>1, <2>2
<1>5. SumFunctionOnSet(wallet', Accounts) = P + B /\ P \in Nat
  <2> HIDE DEF paid
  <2>1. paid[c] \in Nat /\ paid[c] + B \in Nat
    BY <1>1, <1>4
  <2>2. /\ P \in Nat
        /\ SumFunctionOnSet(wallet', Accounts) = P - paid[c] + (paid[c] + B)
    BY <1>1, <1>2, <1>4, <2>1, BalanceWritten
  <2> HIDE DEF P
  <2>3. QED
    BY <1>1, <2>1, <2>2
<1>6. /\ Held(sn) = escrow[sn][a] + escrow[sn][Other(a)]
      /\ Held(sn)' = escrow'[sn][a] + escrow'[sn][Other(a)]
  BY HeldTwice DEF Held, TypeOK, AccountTypes, Other, Attempts
<1>7. /\ escrow[sn][a] \in Nat /\ escrow[sn][Other(a)] \in Nat /\ vault \in Nat /\ fees \in Nat
  BY OtherAttempt DEF TypeOK, AccountTypes
<1> HIDE DEF P
<1>8. QED
  BY <1>1, <1>2, <1>3, <1>4, <1>5, <1>6, <1>7 DEF Balanced, W

\* The steps that move no bond.
QuietTokens ==
  /\ escrow' = escrow
  /\ vault' + fees' + SumFunctionOnSet(wallet', Accounts)
       = vault + fees + SumFunctionOnSet(wallet, Accounts)

\* fund_vault moves tokens from the authority into the vault.
LEMMA FundBalances ==
  ASSUME TypeOK, NEW n \in Amounts, FundVault(n)
  PROVE  QuietTokens
<1> DEFINE W == SumFunctionOnSet(wallet, Accounts)
           m == MintAuthority
<1>1. /\ wallet \in [Accounts -> Nat] /\ m \in Accounts /\ wallet[m] \in Nat /\ n \in Nat
      /\ vault \in Nat /\ fees \in Nat
  BY InputAssumption DEF TypeOK, AccountTypes, Accounts
<1>2. /\ wallet[m] - n \in Nat /\ wallet' = [wallet EXCEPT ![m] = wallet[m] - n]
      /\ vault' = vault + n /\ fees' = fees /\ escrow' = escrow
  BY <1>1 DEF FundVault
<1>3. SumFunctionOnSet(wallet', Accounts) = W - wallet[m] + (wallet[m] - n) /\ W \in Nat
  BY <1>1, <1>2, BalanceWritten
<1> HIDE DEF W
<1>4. QED
  BY <1>1, <1>2, <1>3 DEF QuietTokens, W

\* A step moves no token, or moves tokens of one coin and balances.
LEMMA TokenStep ==
  ASSUME TypeOK, TypeOK', [Next]_vars
  PROVE  QuietTokens \/ \E sn \in Serials : Balanced(sn)
<1>1. ASSUME UNCHANGED <<vault, fees, wallet, escrow>> PROVE QuietTokens
  BY <1>1 DEF QuietTokens
<1>2. ASSUME NEW sn, NEW v, NEW w, MintCoin(sn, v, w) PROVE QuietTokens
  BY <1>1, <1>2 DEF MintCoin
<1>3. ASSUME NEW w, NEW cap, SetAllowance(w, cap) PROVE QuietTokens
  BY <1>1, <1>3 DEF SetAllowance
<1>4. ASSUME NEW sn, NEW a, NEW w, NEW links, NEW h, AppendLinks(sn, a, w, links, h)
      PROVE  QuietTokens
  BY <1>1, <1>4 DEF AppendLinks
<1>5. ASSUME NEW sn, NEW a, FinSetHead(sn, a) PROVE QuietTokens
  BY <1>1, <1>5 DEF FinSetHead
<1>6. CASE Tick
  BY <1>1, <1>6 DEF Tick
<1>7. CASE UNCHANGED vars
  BY <1>1, <1>7 DEF vars
<1>8. QED
  BY <1>2, <1>3, <1>4, <1>5, <1>6, <1>7, FundBalances, StartBalances, RejectBalances,
     WinBalances, LoseBalances, SettleBalances
  DEF Next, FinalizeCheckIn

\* Every instruction keeps the number of tokens.
LEMMA TokensStep ==
  ASSUME TypeOK, TypeOK', TokensConserved, [Next]_vars
  PROVE  TokensConserved'
<1> DEFINE W == SumFunctionOnSet(wallet, Accounts)
           X == SumFunctionOnSet(wallet', Accounts)
           E == SumFunctionOnSet(Escrowed, Serials)
           F == SumFunctionOnSet(Escrowed', Serials)
           T == SumFunctionOnSet(Funds, Accounts)
<1>1. vault + fees + W + E = T
  BY DEF TokensConserved
<1>2. SUFFICES vault' + fees' + X + F = T
  BY DEF TokensConserved
<1>3. /\ \A x \in Accounts : wallet[x] \in Nat /\ wallet'[x] \in Nat
      /\ vault \in Nat /\ fees \in Nat /\ vault' \in Nat /\ fees' \in Nat
  BY DEF TypeOK, AccountTypes
<1>4. W \in Nat /\ X \in Nat
  BY <1>3, AccountsFinite, SumNat
<1>5. \A s \in Serials : SumFunctionOnSet(escrow[s], Attempts) = Held(s) /\ Held(s) \in Nat
  <2> SUFFICES ASSUME NEW s \in Serials
               PROVE  SumFunctionOnSet(escrow[s], Attempts) = Held(s) /\ Held(s) \in Nat
    OBVIOUS
  <2>1. escrow[s] \in [Attempts -> Nat]
    BY DEF TypeOK, AccountTypes
  <2>2. QED
    BY <2>1, EscrowedTogether DEF Held, Attempts
<1>6. E \in Nat
  <2>1. \A s \in Serials : Escrowed[s] \in Nat
    BY <1>5 DEF Escrowed
  <2>2. QED
    BY <2>1, FiniteAssumption, SumNat
<1>7. CASE QuietTokens
  <2>1. escrow' = escrow /\ vault' + fees' + X = vault + fees + W
    BY <1>7 DEF QuietTokens
  <2>2. F = E
    BY <2>1 DEF Escrowed
  <2> HIDE DEF W, X, E, F, T
  <2>3. QED
    BY <1>1, <1>3, <1>4, <1>6, <2>1, <2>2
<1>8. ASSUME NEW sn \in Serials, Balanced(sn) PROVE vault' + fees' + X + F = T
  <2>1. F = E - Held(sn) + Held(sn)'
    BY <1>8, EscrowMoved DEF Balanced
  <2>2. vault' + fees' + X + Held(sn)' = vault + fees + W + Held(sn)
    BY <1>8 DEF Balanced
  <2>3. Held(sn) \in Nat /\ Held(sn)' \in Nat
    BY DEF TypeOK, AccountTypes, Held, Attempts
  <2> HIDE DEF W, X, E, F, T
  <2>4. QED
    BY <1>1, <1>3, <1>4, <1>6, <2>1, <2>2, <2>3
<1>9. QED
  BY <1>7, <1>8, TokenStep

\* At the start all tokens are in accounts.
LEMMA TokensInit == Init => TokensConserved
<1> SUFFICES ASSUME Init PROVE TokensConserved
  OBVIOUS
<1>1. TypeOK
  BY InitTypes
<1>2. \A s \in Serials : Escrowed[s] = 0
  <2> SUFFICES ASSUME NEW s \in Serials PROVE SumFunctionOnSet(escrow[s], Attempts) = 0
    BY DEF Escrowed
  <2>1. escrow[s] \in [Attempts -> Nat] /\ escrow[s][0] = 0 /\ escrow[s][1] = 0
    BY <1>1 DEF Init, Attempts
  <2>2. SumFunctionOnSet(escrow[s], Attempts) = escrow[s][0] + escrow[s][1]
    BY <2>1, EscrowedTogether
  <2>3. QED
    BY <2>1, <2>2
<1>3. SumFunctionOnSet(Escrowed, Serials) = 0
  <2>1. Units(Escrowed, Serials) = {}
    BY <1>2 DEF Units
  <2>2. QED
    BY <1>2, <2>1, FiniteAssumption, SumIsUnits, FS_EmptySet
<1>4. \A x \in Accounts : Funds[x] \in Nat
  BY AccountAssumption
<1>5. SumFunctionOnSet(Funds, Accounts) \in Nat
  BY <1>4, AccountsFinite, SumNat
<1>6. QED
  BY <1>3, <1>5 DEF Init, TokensConserved

\* No instruction creates or destroys tokens, for any number of coins, wallets
\* and submissions: vault, fees, wallets and escrows always add up to the
\* initial funds.
THEOREM TokensAreConserved == Spec => []TokensConserved
<1>1. TypeOK /\ TypeOK' /\ TokensConserved /\ [Next]_vars => TokensConserved'
  BY TokensStep
<1>2. QED
  BY <1>1, TokensInit, TypeCorrect, PTL DEF Spec

-----------------------------------------------------------------------------
(* Claims. *)

\* start_check_in computed the bond, so that its product fits from then on.
StartFits(sn, a) == sub[sn][a].status # "NONE" => BondFits(registry[sn].value, BondBps)

\* A coin keeps its value and its recipient from the mint on.
LEMMA CoinStays ==
  ASSUME TypeOK, [Next]_vars, NEW s \in Serials, registry[s].status # "NONE"
  PROVE  registry'[s].value = registry[s].value /\ registry'[s].recipient = registry[s].recipient
BY LedgerStep DEF Keeps, Mints, Redeems, KeepCoins

\* What was started with a bond that fits a u64 keeps it.
LEMMA FitsStep ==
  ASSUME TypeOK, [Next]_vars, NEW s \in Serials, NEW b \in Attempts, StartFits(s, b)
  PROVE  StartFits(s, b)'
<1>1. ASSUME sub'[s][b].status # "NONE" => sub[s][b].status # "NONE" PROVE StartFits(s, b)'
  BY <1>1, CoinStays, StartedSubmission DEF StartFits
<1>2. ASSUME sub' = sub PROVE StartFits(s, b)'
  BY <1>1, <1>2
<1>3. CASE \/ \E n \in Amounts : FundVault(n)
           \/ \E w \in Wallets, cap \in Caps : SetAllowance(w, cap)
           \/ Tick
           \/ UNCHANGED vars
  BY <1>2, <1>3, QuietEffect
<1>4. ASSUME NEW sn \in Serials, NEW v \in Values, NEW w \in Wallets, MintCoin(sn, v, w)
      PROVE  StartFits(s, b)'
  BY <1>2, <1>4, MintEffect
<1>5. ASSUME NEW sn \in Serials, NEW a \in Attempts, NEW c \in Wallets,
             NEW st \in State, StartCheckIn(sn, a, c, st)
      PROVE  StartFits(s, b)'
  <2>1. KeepCoins /\ (s # sn \/ b # a => sub'[s][b] = sub[s][b])
    BY <1>5, StartEffect
  <2>2. BondFits(registry[sn].value, BondBps)
    BY <1>5 DEF StartCheckIn, CanStart
  <2>3. QED
    BY <1>1, <2>1, <2>2 DEF KeepCoins, StartFits
<1>6. ASSUME NEW sn \in Serials, NEW a \in Attempts, NEW links \in LinkBatches,
             NEW w \in Wallets, NEW h, AppendLinks(sn, a, w, links, h)
      PROVE  StartFits(s, b)'
  BY <1>1, <1>6, AppendEffect
<1>7. ASSUME NEW sn \in Serials, NEW a \in Attempts, FinalizeCheckIn(sn, a)
      PROVE  StartFits(s, b)'
  BY <1>1, <1>7, RejectEffect, SetHeadEffect, WinEffect, LoseEffect, OtherAttempt
  DEF FinalizeCheckIn
<1>8. ASSUME NEW sn \in Serials, NEW a \in Attempts, NEW withOther \in BOOLEAN,
             NEW withAllowance \in BOOLEAN, Settle(sn, a, withOther, withAllowance)
      PROVE  StartFits(s, b)'
  BY <1>1, <1>8, SettleEffect, OtherAttempt
<1>9. QED
  BY <1>3, <1>4, <1>5, <1>6, <1>7, <1>8, GenesisType DEF Next

\* What the claims need of the ledger and of the chains.
ClaimsInv ==
  /\ VaultBacksOpenCoins
  /\ \A w \in Wallets : AllowanceRight(w)
  /\ \A sn \in Serials, a \in Attempts : EscrowRight(sn, a) /\ StartFits(sn, a)
  /\ HeadIsLive
  /\ ChainsAnchored

\* ClaimsInv is inductive.
LEMMA ClaimsInvHolds ==
  /\ Init => ClaimsInv
  /\ TypeOK /\ TypeOK' /\ ClaimsInv /\ [Next]_vars => ClaimsInv'
<1>1. ASSUME Init PROVE ClaimsInv
  <2>1. VaultBacksOpenCoins
    BY <1>1, NoCoinsYet DEF Init, VaultBacksOpenCoins
  <2>2. \A sn \in Serials, a \in Attempts : EscrowRight(sn, a) /\ StartFits(sn, a)
    BY <1>1 DEF Init, EscrowRight, StartFits, NoSub, Open
  <2>3. ChainsAnchored
    BY <1>1 DEF Init, NoSub, NoCoin, ChainsAnchored
  <2>4. QED
    BY <1>1, <2>1, <2>2, <2>3, AllowanceInit, HeadInit DEF ClaimsInv
<1>2. ASSUME TypeOK, TypeOK', ClaimsInv, [Next]_vars PROVE ClaimsInv'
  <2>1. VaultBacksOpenCoins'
    BY <1>2, VaultStep DEF ClaimsInv
  <2>2. \A w \in Wallets : AllowanceRight(w)'
    BY <1>2, AllowanceStep DEF ClaimsInv
  <2>3. \A sn \in Serials, a \in Attempts : EscrowRight(sn, a)' /\ StartFits(sn, a)'
    BY <1>2, EscrowStep, FitsStep DEF ClaimsInv
  <2>4. HeadIsLive' /\ ChainsAnchored'
    BY <1>2, HeadStep, ChainsStep DEF ClaimsInv
  <2>5. QED
    BY <2>1, <2>2, <2>3, <2>4 DEF ClaimsInv
<1>3. QED
  BY <1>1, <1>2

\* The value of an open coin is in the vault, in the counter and committed.
LEMMA ValueThere ==
  ASSUME TypeOK, ClaimsInv, NEW sn \in Serials, registry[sn].status = "ACTIVE"
  PROVE  /\ vault >= registry[sn].value /\ supply >= registry[sn].value
         /\ allowance[registry[sn].recipient].committed >= registry[sn].value
<1> DEFINE r == registry[sn].recipient
<1>1. r \in Wallets
  BY DEF TypeOK, RegistryWritten
<1>2. /\ OpenCoins \in SUBSET Serials /\ sn \in OpenCoins
      /\ OpenCoinsOf(r) \in SUBSET Serials /\ sn \in OpenCoinsOf(r)
  BY DEF OpenCoins, OpenCoinsOf
<1>3. /\ registry[sn].value <= ValueOf(OpenCoins) /\ registry[sn].value <= ValueOf(OpenCoinsOf(r))
      /\ ValueOf(OpenCoins) \in Nat /\ ValueOf(OpenCoinsOf(r)) \in Nat
  BY <1>2, ValueOfCoins
<1>4. /\ supply = ValueOf(OpenCoins) /\ vault >= supply
      /\ ValueOf(OpenCoinsOf(r)) <= allowance[r].committed
  BY <1>1 DEF ClaimsInv, VaultBacksOpenCoins, AllowanceRight
<1>5. /\ registry[sn].value \in Nat /\ supply \in Nat /\ vault \in Nat
      /\ allowance[r].committed \in Nat
  BY <1>1, BondNat DEF TypeOK, AccountTypes, Allowances
<1> HIDE DEF r
<1>6. /\ vault >= registry[sn].value /\ supply >= registry[sn].value
      /\ allowance[r].committed >= registry[sn].value
  BY <1>3, <1>4, <1>5
<1>7. QED
  BY <1>6 DEF r

\* A receiving submission can be finalized, with or without a head.
LEMMA CanBeFinalized ==
  ASSUME TypeOK, ClaimsInv, NEW sn \in Serials, NEW a \in Attempts,
         sub[sn][a].status = "RECEIVING"
  PROVE  /\ CanFinalize(sn, a)
         /\ registry[sn].status # "SPENT" /\ head[sn].set => CanResolve(sn, a)
<1>1. CanFinalize(sn, a)
  BY DEF ClaimsInv, ChainsAnchored, StartFits, CanFinalize
<1>2. ASSUME registry[sn].status # "SPENT", head[sn].set PROVE CanResolve(sn, a)
  <2>1. HeadLiveAt(sn) /\ head[sn].attempt \in Attempts
    BY DEF ClaimsInv, HeadIsLive, TypeOK, AccountTypes, Heads
  <2>2. sub[sn][head[sn].attempt].status = "PENDING"
    BY <1>2, <2>1 DEF HeadLiveAt
  <2>3. head[sn].attempt = Other(a)
    BY <2>1, <2>2, OtherAttempt
  <2>4. escrow[sn][a] = Bond(sn) /\ Bond(sn) \in Nat
    BY BondNat DEF ClaimsInv, EscrowRight, Open, TypeOK
  <2>5. QED
    BY <1>1, <1>2, <2>2, <2>3, <2>4 DEF CanResolve
<1>3. QED
  BY <1>1, <1>2

\* A receiving submission of a spent coin can be rejected: its bond is there.
LEMMA CanBeRejected ==
  ASSUME TypeOK, ClaimsInv, NEW sn \in Serials, NEW a \in Attempts,
         sub[sn][a].status = "RECEIVING", registry[sn].status = "SPENT"
  PROVE  CanReject(sn, a)
<1>1. CanFinalize(sn, a)
  BY CanBeFinalized
<1>2. escrow[sn][a] = Bond(sn) /\ Bond(sn) \in Nat
  BY BondNat DEF ClaimsInv, EscrowRight, Open, TypeOK
<1>3. QED
  BY <1>1, <1>2 DEF CanReject

\* A pending submission can be settled after the window.
LEMMA CanBeSettled ==
  ASSUME TypeOK, ClaimsInv, NEW sn \in Serials, NEW a \in Attempts,
         sub[sn][a].status = "PENDING"
  PROVE  /\ registry[sn].status = "ACTIVE" /\ head[sn].set /\ head[sn].attempt = a
         /\ head[sn].age >= Window => CanSettle(sn, a)
<1>1. HeadLiveAt(sn) /\ head[sn].attempt \in Attempts
  BY DEF ClaimsInv, HeadIsLive, TypeOK, AccountTypes, Heads
<1>2. head[sn].set /\ head[sn].attempt = a /\ registry[sn].status # "SPENT"
  BY <1>1, OtherAttempt DEF HeadLiveAt
<1>3. registry[sn].status = "ACTIVE"
  <2>1. registry[sn] \in Registries /\ registry[sn].status # "NONE"
    BY StartedSubmission DEF TypeOK, AccountTypes
  <2>2. QED
    BY <1>2, <2>1 DEF Registries
<1>4. BondFits(registry[sn].value, BondBps)
  BY DEF ClaimsInv, StartFits
<1>5. QED
  BY <1>2, <1>3, <1>4 DEF CanSettle

\* What the invariant says is enough to finalize and to settle.
LEMMA Payable == TypeOK /\ ClaimsInv => ClaimsPayable
BY ValueThere, CanBeFinalized, CanBeRejected, CanBeSettled DEF ClaimsPayable

\* Nothing gets stuck: whatever the other coins, the other submission and the
\* mint authority did, a receiving submission can be finalized, also on a spent
\* coin, and a pending one settled after the window, and no check of the payout can fail.
THEOREM ClaimsArePayable == Spec => []ClaimsPayable
<1>1. Init => ClaimsInv
  BY ClaimsInvHolds
<1>2. TypeOK /\ TypeOK' /\ ClaimsInv /\ [Next]_vars => ClaimsInv'
  BY ClaimsInvHolds
<1>3. QED
  BY <1>1, <1>2, Payable, TypeCorrect, PTL DEF Spec
=============================================================================
