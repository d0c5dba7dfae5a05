------------------------ MODULE ObpRefinesCoin_proofs ------------------------
(***************************************************************************)
(* obp-core implements BearerCoin: every instruction is, through the       *)
(* mapping of ObpRefinesCoin, one step of the bearer coin or none.         *)
(***************************************************************************)
EXTENDS ObpRefinesCoin, ObpCore_proofs

-----------------------------------------------------------------------------
(* What the mapping needs of the program's states. *)

\* The account a payout goes to is the last owner of the chain.
OwnersMatch ==
  \A sn \in Serials, a \in Attempts :
    sub[sn][a].status # "NONE" => sub[sn][a].final_owner = LastState(sub[sn][a]).owner

\* Every step keeps the final owner of a submission the owner of its last state.
LEMMA OwnersStep ==
  ASSUME TypeOK, OwnersMatch, [Next]_vars
  PROVE  OwnersMatch'
<1> SUFFICES ASSUME NEW s \in Serials, NEW b \in Attempts, sub'[s][b].status # "NONE"
             PROVE  sub'[s][b].final_owner = LastState(sub'[s][b]).owner
  BY DEF OwnersMatch, LastState
<1>1. ASSUME sub'[s][b].status # "NONE" => sub[s][b].status # "NONE",
             sub'[s][b].states = sub[s][b].states,
             sub'[s][b].final_owner = sub[s][b].final_owner
      PROVE  sub'[s][b].final_owner = LastState(sub'[s][b]).owner
  BY <1>1 DEF OwnersMatch, LastState
<1>2. CASE \/ \E n \in Amounts : FundVault(n)
           \/ \E w \in Wallets, cap \in Caps : SetAllowance(w, cap)
           \/ Tick
           \/ UNCHANGED vars
  BY <1>1, <1>2, QuietEffect
<1>3. ASSUME NEW sn \in Serials, NEW v \in Values, NEW w \in Wallets, MintCoin(sn, v, w)
      PROVE  sub' = sub
  BY <1>3 DEF MintCoin
<1>4. ASSUME NEW sn \in Serials, NEW a \in Attempts, NEW c \in Wallets, NEW st \in State,
             StartCheckIn(sn, a, c, st)
      PROVE  sub'[s][b].final_owner = LastState(sub'[s][b]).owner
  <2>1. CASE s = sn /\ b = a
    <3>1. sub'[s][b].final_owner = st.owner /\ sub'[s][b].states = <<st>>
      BY <1>4, <2>1 DEF StartCheckIn, TypeOK, AccountTypes
    <3>2. QED
      BY <3>1 DEF LastState
  <2>2. CASE s # sn \/ b # a
    BY <1>1, <1>4, <2>2, StartEffect
  <2>3. QED
    BY <2>1, <2>2
<1>5. ASSUME NEW sn \in Serials, NEW a \in Attempts, NEW links \in LinkBatches,
             NEW w \in Wallets, NEW h, AppendLinks(sn, a, w, links, h)
      PROVE  sub'[s][b].final_owner = LastState(sub'[s][b]).owner
  <2>1. CASE s = sn /\ b = a
    <3>1. links \in Seq(State) /\ links # <<>> /\ sub[s][b].states \in Seq(State)
      BY <1>5, InputAssumption
      DEF AppendLinks, BatchFits, CanAppend, LinksFit, TypeOK, AccountTypes, Submissions
    <3>2. /\ sub'[s][b].final_owner = links[Len(links)].owner
          /\ sub'[s][b].states = sub[s][b].states \o links
      BY <1>5, <2>1 DEF AppendLinks, TypeOK, AccountTypes, Submissions
    <3>3. \A p, q \in Seq(State) : q # <<>> => (p \o q)[Len(p \o q)] = q[Len(q)]
      OBVIOUS
    <3>4. QED
      BY <3>1, <3>2, <3>3 DEF LastState
  <2>2. CASE s # sn \/ b # a
    BY <1>1, <1>5, <2>2, AppendEffect
  <2>3. QED
    BY <2>1, <2>2
<1>6. ASSUME NEW sn \in Serials, NEW a \in Attempts, FinalizeCheckIn(sn, a)
      PROVE  KeepChains /\ (sub'[s][b].status # "NONE" => sub[s][b].status # "NONE")
  BY <1>6, RejectEffect, SetHeadEffect, WinEffect, LoseEffect, OtherAttempt
  DEF FinalizeCheckIn
<1>7. ASSUME NEW sn \in Serials, NEW a \in Attempts, NEW withOther \in BOOLEAN,
             NEW withAllowance \in BOOLEAN, Settle(sn, a, withOther, withAllowance)
      PROVE  KeepChains /\ (sub'[s][b].status # "NONE" => sub[s][b].status # "NONE")
  BY <1>7, SettleEffect, OtherAttempt
<1>8. QED
  BY <1>1, <1>2, <1>3, <1>4, <1>5, <1>6, <1>7, GenesisType DEF Next, KeepChains

Seen == TypeOK /\ ClaimsInv /\ OwnersMatch

\* A chain is a claim of its owners, from the coin's recipient to the payee.
LEMMA ChainIsClaim ==
  ASSUME Seen, NEW sn \in Serials, NEW a \in Attempts, sub[sn][a].status # "NONE"
  PROVE  LET c == OwnersOf(sub[sn][a].states) IN
         /\ c \in ClaimSeqs /\ c # <<>> /\ Len(c) = Len(sub[sn][a].states)
         /\ c[1] = registry[sn].recipient
         /\ c[Len(c)] = sub[sn][a].final_owner
<1> DEFINE ss == sub[sn][a].states
           r == registry[sn]
           c == OwnersOf(ss)
<1>1. /\ ss \in Seq(State) /\ Len(ss) \in 1..MaxSubmissionStates
      /\ r.status # "NONE" /\ r.recipient \in Wallets
      /\ sub[sn][a].final_owner = ss[Len(ss)].owner
  BY StartedSubmission DEF Seen, OwnersMatch, LastState
<1>2. /\ StateHash(ss[1]) = r.genesis
      /\ r.genesis = StateHash(GenesisState(sn, r.value, r.recipient))
  BY <1>1 DEF Seen, ClaimsInv, ChainsAnchored, FullChain
<1> HIDE DEF ss
<1>3. c = [i \in 1..Len(ss) |-> ss[i].owner] /\ \A i \in 1..Len(ss) : ss[i].owner \in Wallets
  <2>1. DOMAIN ss = 1..Len(ss) /\ \A i \in 1..Len(ss) : ss[i] \in State
    BY <1>1
  <2>2. QED
    BY <2>1 DEF OwnersOf, State
<1>4. Len(ss) \in Nat /\ 1 \in 1..Len(ss) /\ Len(ss) \in 1..Len(ss)
  <2> DEFINE n == Len(ss)
  <2>1. n \in 1..4
    BY <1>1 DEF MaxSubmissionStates
  <2> HIDE DEF n
  <2>2. n \in Nat /\ 1 \in 1..n /\ n \in 1..n
    BY <2>1
  <2>3. QED
    BY <2>2 DEF n
<1>5. c \in [1..Len(ss) -> Wallets] /\ c[1] = ss[1].owner /\ c[Len(ss)] = ss[Len(ss)].owner
  BY <1>3, <1>4
<1>6. c \in Seq(Wallets) /\ Len(c) = Len(ss) /\ c # <<>>
  BY <1>4, <1>5
<1>7. ss[1].owner = r.recipient
  <2> DEFINE x == [serial |-> ss[1].serial, value |-> ss[1].value, owner |-> ss[1].owner]
             y == [serial |-> sn, value |-> r.value, owner |-> r.recipient]
             p == ss[1].prev
  <2>1. ss[1] \in State
    BY <1>1, <1>4
  <2>2. p \in Seq(Core) /\ Append(p, x) = Append(<<>>, y)
    BY <1>2, <2>1 DEF StateHash, GenesisState, ZeroHash, State, Hash
  <2>3. x.owner = ss[1].owner /\ y.owner = r.recipient
    OBVIOUS
  <2> DEFINE e == ZeroHash
             T == Core \cup {x, y}
  <2> HIDE DEF x, y, p
  <2>4. p \in Seq(T) /\ e \in Seq(T) /\ x \in T /\ y \in T /\ Append(p, x) = Append(e, y)
    BY <2>2 DEF ZeroHash
  <2> HIDE DEF T, e
  <2>5. x = y
    BY <2>4
  <2>6. QED
    BY <2>3, <2>5
<1>8. c \in ClaimSeqs
  BY <1>1, <1>5 DEF ClaimSeqs
<1>9. QED
  BY <1>1, <1>5, <1>6, <1>7, <1>8 DEF ss

-----------------------------------------------------------------------------
(* The coin a step shows. *)

PhaseOf(s) ==
  IF registry[s].status = "NONE" THEN "none"
  ELSE IF registry[s].status = "ACTIVE" THEN "open" ELSE "redeemed"
ClaimantOf(s) == IF head[s].set THEN sub[s][head[s].attempt].checker ELSE NoWallet
Forfeited(s) == \E a \in Attempts : sub[s][a].status \in {"LOST", "REJECTED"}

CoinRecord(phase, value, recipient, claim, claimant, forfeited) ==
  [phase |-> phase, value |-> value, recipient |-> recipient,
   claim |-> claim, claimant |-> claimant, forfeited |-> forfeited]

\* The coin that is seen, as one record.
LEMMA CoinSeen ==
  ASSUME NEW s \in Serials
  PROVE  /\ coinOf[s] = CoinRecord(PhaseOf(s), registry[s].value, registry[s].recipient,
                                   StandingClaim(s), ClaimantOf(s), Forfeited(s))
         /\ coinOf'[s] = CoinRecord(PhaseOf(s)', registry'[s].value, registry'[s].recipient,
                                    StandingClaim(s)', ClaimantOf(s)', Forfeited(s)')
BY Zenon DEF coinOf, CoinRecord, PhaseOf, ClaimantOf, Forfeited

\* A step that a coin does not show.
CoinKept(s) ==
  /\ registry'[s].status = registry[s].status
  /\ registry'[s].value = registry[s].value
  /\ registry'[s].recipient = registry[s].recipient
  /\ head'[s].set = head[s].set /\ head'[s].attempt = head[s].attempt
  /\ head[s].set => LET b == head[s].attempt IN
                    /\ sub'[s][b].states = sub[s][b].states
                    /\ sub'[s][b].checker = sub[s][b].checker
  /\ \A b \in Attempts : sub'[s][b].status \in {"LOST", "REJECTED"}
                         <=> sub[s][b].status \in {"LOST", "REJECTED"}

\* A coin whose accounts stay is the same coin to BearerCoin.
LEMMA CoinStaysSeen ==
  ASSUME NEW s \in Serials, CoinKept(s)
  PROVE  coinOf'[s] = coinOf[s]
<1>1. PhaseOf(s)' = PhaseOf(s)
  BY DEF CoinKept, PhaseOf
<1>2. StandingClaim(s)' = StandingClaim(s) /\ ClaimantOf(s)' = ClaimantOf(s)
  BY DEF CoinKept, StandingClaim, ClaimantOf
<1>3. Forfeited(s)' = Forfeited(s)
  BY DEF CoinKept, Forfeited
<1>4. registry'[s].value = registry[s].value /\ registry'[s].recipient = registry[s].recipient
  BY DEF CoinKept
<1>5. QED
  BY <1>1, <1>2, <1>3, <1>4, CoinSeen, Zenon

\* A step that no coin shows.
LEMMA NoCoinWritten ==
  ASSUME \A s \in Serials : CoinKept(s)
  PROVE  coinOf' = coinOf
<1>1. \A s \in Serials : coinOf'[s] = coinOf[s]
  BY CoinStaysSeen
<1>2. coinOf = [s \in Serials |-> coinOf[s]] /\ coinOf' = [s \in Serials |-> coinOf'[s]]
  BY DEF coinOf
<1>3. QED
  BY <1>1, <1>2

-----------------------------------------------------------------------------
(* The wealth a step shows. *)

\* The bonds of w in escrow for a coin.
BondsIn(w, sn) == BondIn(w, sn, 0) + BondIn(w, sn, 1)

\* The bonds of a wallet in escrow are numbers.
LEMMA BondsInNat ==
  ASSUME TypeOK, NEW sn \in Serials, NEW w, NEW a \in Attempts
  PROVE  /\ BondIn(w, sn, a) \in Nat /\ BondIn(w, sn, Other(a)) \in Nat
         /\ BondsIn(w, sn) = BondIn(w, sn, a) + BondIn(w, sn, Other(a))
         /\ BondsIn(w, sn) \in Nat
<1>1. \A b \in Attempts : BondIn(w, sn, b) \in Nat
  BY DEF BondIn, TypeOK, AccountTypes
<1>2. QED
  BY <1>1, OtherAttempt DEF BondsIn, Attempts, Other

\* The same after a step.
LEMMA BondsInNatNext ==
  ASSUME TypeOK', NEW sn \in Serials, NEW w, NEW a \in Attempts
  PROVE  BondsIn(w, sn)' = BondIn(w, sn, a)' + BondIn(w, sn, Other(a))'
<1>1. \A b \in Attempts : BondIn(w, sn, b)' \in Nat
  BY DEF BondIn, TypeOK, AccountTypes
<1>2. QED
  BY <1>1, OtherAttempt DEF BondsIn, Attempts, Other

\* The bonds of one coin move.
BondsStay(sn) ==
  \A s \in Serials \ {sn}, b \in Attempts :
    escrow'[s][b] = escrow[s][b] /\ sub'[s][b].checker = sub[s][b].checker

\* The bonds of a wallet change by those of the one coin that changes.
LEMMA BondsMove ==
  ASSUME TypeOK, TypeOK', NEW sn \in Serials, BondsStay(sn), NEW w
  PROVE  /\ BondsOf(w) \in Nat
         /\ BondsOf(w)' = BondsOf(w) - BondsIn(w, sn) + BondsIn(w, sn)'
<1> DEFINE f == BondsFor(w)
           g == BondsFor(w)'
<1>1. \A s \in Serials : f[s] = BondsIn(w, s) /\ g[s] = BondsIn(w, s)'
  BY DEF BondsFor, BondsIn, BondIn
<1>2. \A s \in Serials : BondsIn(w, s) \in Nat /\ BondsIn(w, s)' \in Nat
  BY DEF BondsIn, BondIn, TypeOK, AccountTypes, Attempts
<1>3. \A s \in Serials \ {sn} : BondsIn(w, s)' = BondsIn(w, s)
  BY DEF BondsIn, BondIn, BondsStay, Attempts
<1>4. BondsOf(w) = SumFunctionOnSet(f, Serials) /\ BondsOf(w)' = SumFunctionOnSet(g, Serials)
  BY DEF BondsOf
<1> HIDE DEF f, g
<1>5. SumFunctionOnSet(f, Serials) \in Nat
  BY <1>1, <1>2, FiniteAssumption, SumNat
<1>6. SumFunctionOnSet(g, Serials) = SumFunctionOnSet(f, Serials) - f[sn] + g[sn]
  BY <1>1, <1>2, <1>3, FiniteAssumption, SumChange
<1>7. QED
  BY <1>1, <1>4, <1>5, <1>6

\* What an account has outside the other coins' escrows.
Purse(w, sn) == wallet[w] + BondsIn(w, sn)

\* Wealth changes by what the one coin that changes moves.
LEMMA WealthMoves ==
  ASSUME TypeOK, TypeOK', NEW sn \in Serials, BondsStay(sn), NEW w \in Accounts, NEW d \in Int,
         Purse(w, sn)' = Purse(w, sn) + d
  PROVE  wealthOf'[w] = wealthOf[w] + d
<1>1. /\ wallet[w] \in Nat /\ wallet'[w] \in Nat
      /\ BondsIn(w, sn) \in Nat /\ BondsIn(w, sn)' \in Nat
  BY DEF BondsIn, BondIn, TypeOK, AccountTypes, Attempts
<1>2. BondsOf(w) \in Nat /\ BondsOf(w)' = BondsOf(w) - BondsIn(w, sn) + BondsIn(w, sn)'
  BY BondsMove
<1>3. /\ wealthOf[w] = wallet[w] + BondsOf(w) /\ wealthOf'[w] = wallet'[w] + BondsOf(w)'
  BY DEF wealthOf
<1>4. wallet'[w] + BondsIn(w, sn)' = wallet[w] + BondsIn(w, sn) + d
  BY DEF Purse
<1>5. QED
  BY <1>1, <1>2, <1>3, <1>4

\* What a wallet is seen to own is a natural number.
LEMMA WealthNat ==
  ASSUME TypeOK
  PROVE  wealthOf \in [Accounts -> Nat]
<1>1. ASSUME NEW w \in Accounts PROVE wallet[w] + BondsOf(w) \in Nat
  <2>1. \A s \in Serials : BondsFor(w)[s] \in Nat
    BY DEF BondsFor, BondIn, TypeOK, AccountTypes, Attempts
  <2>2. BondsOf(w) \in Nat
    BY <2>1, FiniteAssumption, SumNat DEF BondsOf
  <2>3. QED
    BY <2>2 DEF TypeOK, AccountTypes
<1>2. QED
  BY <1>1 DEF wealthOf

WealthTyped == wealthOf \in [Accounts -> Nat]

\* The same after a step.
LEMMA WealthNatNext == TypeOK' => WealthTyped'
<1>1. TypeOK => WealthTyped
  BY WealthNat DEF WealthTyped
<1>2. QED
  BY <1>1, PTL

\* An account's share of n tokens for x.
Share(w, x, n) == IF w = x THEN n ELSE 0

\* A balance that gains or loses an amount.
LEMMA Gain ==
  ASSUME NEW f, f \in [Accounts -> Int], NEW x \in Accounts, NEW n \in Int
  PROVE  /\ [f EXCEPT ![x] = @ + n] \in [Accounts -> Int]
         /\ \A w \in Accounts : [f EXCEPT ![x] = @ + n][w] = f[w] + Share(w, x, n)
BY DEF Share

\* Accounts that agree everywhere are the same.
LEMMA SameWealth ==
  ASSUME NEW f, NEW g, f \in [Accounts -> Int], g \in [Accounts -> Int],
         \A w \in Accounts : f[w] = g[w]
  PROVE  f = g
OBVIOUS

-----------------------------------------------------------------------------
(* The fields of a coin, and what the steps of BearerCoin write. *)

\* The coin that is seen, field by field.
LEMMA CoinFields ==
  ASSUME NEW s \in Serials
  PROVE  /\ coinOf[s].phase = PhaseOf(s)
         /\ coinOf[s].value = registry[s].value
         /\ coinOf[s].recipient = registry[s].recipient
         /\ coinOf[s].claim = StandingClaim(s)
         /\ coinOf[s].claimant = ClaimantOf(s)
         /\ coinOf[s].forfeited <=> Forfeited(s)
<1>1. /\ coinOf[s].phase = PhaseOf(s)
      /\ coinOf[s].value = registry[s].value
      /\ coinOf[s].recipient = registry[s].recipient
      /\ coinOf[s].claim = StandingClaim(s)
      /\ coinOf[s].claimant = ClaimantOf(s)
  BY DEF coinOf, PhaseOf, ClaimantOf
<1>2. coinOf[s].forfeited <=> Forfeited(s)
  BY DEF coinOf, Forfeited
<1>3. QED
  BY <1>1, <1>2

\* The same after a step.
LEMMA CoinFieldsNext ==
  ASSUME NEW s \in Serials
  PROVE  /\ coinOf'[s].phase = PhaseOf(s)'
         /\ coinOf'[s].value = registry'[s].value
         /\ coinOf'[s].recipient = registry'[s].recipient
         /\ coinOf'[s].claim = StandingClaim(s)'
         /\ coinOf'[s].claimant = ClaimantOf(s)'
         /\ coinOf'[s].forfeited <=> Forfeited(s)'
<1>1. /\ coinOf'[s].phase = PhaseOf(s)'
      /\ coinOf'[s].value = registry'[s].value
      /\ coinOf'[s].recipient = registry'[s].recipient
      /\ coinOf'[s].claim = StandingClaim(s)'
      /\ coinOf'[s].claimant = ClaimantOf(s)'
  BY DEF coinOf, PhaseOf, ClaimantOf
<1>2. coinOf'[s].forfeited <=> Forfeited(s)'
  BY DEF coinOf, Forfeited
<1>3. QED
  BY <1>1, <1>2

Coins == [phase : {"none", "open", "redeemed"}, value : Nat, recipient : Wallets \cup {NoWallet},
          claim : ClaimSeqs \cup {<<>>}, claimant : Wallets \cup {NoWallet},
          forfeited : BOOLEAN]

\* Coins with the same fields are the same.
LEMMA SameCoin ==
  ASSUME NEW x \in Coins, NEW y \in Coins,
         x.phase = y.phase, x.value = y.value, x.recipient = y.recipient,
         x.claim = y.claim, x.claimant = y.claimant, x.forfeited <=> y.forfeited
  PROVE  x = y
BY DEF Coins

\* A coin is minted,
Minted(F, s, v, r) == [F EXCEPT ![s].phase = "open", ![s].value = v, ![s].recipient = r]

\* The mint of BearerCoin, field by field.
LEMMA MintWritten ==
  ASSUME NEW F \in [Serials -> Coins], NEW G \in [Serials -> Coins], NEW s \in Serials,
         \A z \in Serials \ {s} : G[z] = F[z],
         NEW v \in Nat, NEW r \in Wallets,
         G[s].phase = "open", G[s].value = v, G[s].recipient = r,
         G[s].claim = F[s].claim, G[s].claimant = F[s].claimant, G[s].forfeited <=> F[s].forfeited
  PROVE  G = Minted(F, s, v, r)
<1> DEFINE y == [F[s] EXCEPT !.phase = "open", !.value = v, !.recipient = r]
<1>1. [F EXCEPT ![s].phase = "open", ![s].value = v, ![s].recipient = r]
        = [F EXCEPT ![s] = y]
  OBVIOUS
<1>2. F[s] \in Coins /\ G[s] \in Coins
  OBVIOUS
<1>3. y \in Coins
  BY <1>2 DEF Coins
<1>4. /\ y.phase = "open" /\ y.value = v /\ y.recipient = r
      /\ y.claim = F[s].claim /\ y.claimant = F[s].claimant /\ (y.forfeited <=> F[s].forfeited)
  BY <1>2 DEF Coins
<1> HIDE DEF y
<1>5. G[s] = y
  BY <1>2, <1>3, <1>4, SameCoin
<1>6. QED
  BY <1>1, <1>5 DEF Minted

\* claimed,
Claimed(F, s, c, w) == [F EXCEPT ![s].claim = c, ![s].claimant = w]

\* The claim of BearerCoin, field by field.
LEMMA ClaimWritten ==
  ASSUME NEW F \in [Serials -> Coins], NEW G \in [Serials -> Coins], NEW s \in Serials,
         \A z \in Serials \ {s} : G[z] = F[z],
         NEW c \in ClaimSeqs, NEW w \in Wallets,
         G[s].phase = F[s].phase, G[s].value = F[s].value, G[s].recipient = F[s].recipient,
         G[s].claim = c, G[s].claimant = w, G[s].forfeited <=> F[s].forfeited
  PROVE  G = Claimed(F, s, c, w)
<1> DEFINE y == [F[s] EXCEPT !.claim = c, !.claimant = w]
<1>1. [F EXCEPT ![s].claim = c, ![s].claimant = w]
        = [F EXCEPT ![s] = y]
  OBVIOUS
<1>2. F[s] \in Coins /\ G[s] \in Coins
  OBVIOUS
<1>3. y \in Coins
  BY <1>2 DEF Coins
<1>4. /\ y.phase = F[s].phase /\ y.value = F[s].value /\ y.recipient = F[s].recipient
      /\ y.claim = c /\ y.claimant = w /\ (y.forfeited <=> F[s].forfeited)
  BY <1>2 DEF Coins
<1> HIDE DEF y
<1>5. G[s] = y
  BY <1>2, <1>3, <1>4, SameCoin
<1>6. QED
  BY <1>1, <1>5 DEF Claimed

\* its claim displaced,
Displaced(F, s, c, w) == [F EXCEPT ![s].phase = "redeemed", ![s].claim = c, ![s].claimant = w, ![s].forfeited = TRUE]

\* The displacement of a claim, field by field.
LEMMA DisplaceWritten ==
  ASSUME NEW F \in [Serials -> Coins], NEW G \in [Serials -> Coins], NEW s \in Serials,
         \A z \in Serials \ {s} : G[z] = F[z],
         NEW c \in ClaimSeqs, NEW w \in Wallets,
         G[s].phase = "redeemed", G[s].value = F[s].value, G[s].recipient = F[s].recipient,
         G[s].claim = c, G[s].claimant = w, G[s].forfeited
  PROVE  G = Displaced(F, s, c, w)
<1> DEFINE y == [F[s] EXCEPT !.phase = "redeemed", !.claim = c, !.claimant = w, !.forfeited = TRUE]
<1>1. [F EXCEPT ![s].phase = "redeemed", ![s].claim = c, ![s].claimant = w, ![s].forfeited = TRUE]
        = [F EXCEPT ![s] = y]
  OBVIOUS
<1>2. F[s] \in Coins /\ G[s] \in Coins
  OBVIOUS
<1>3. y \in Coins
  BY <1>2 DEF Coins
<1>4. /\ y.phase = "redeemed" /\ y.value = F[s].value /\ y.recipient = F[s].recipient
      /\ y.claim = c /\ y.claimant = w /\ y.forfeited
  BY <1>2 DEF Coins
<1> HIDE DEF y
<1>5. G[s] = y
  BY <1>2, <1>3, <1>4, SameCoin
<1>6. QED
  BY <1>1, <1>5 DEF Displaced

\* a bond on it forfeited,
Beaten(F, s) == [F EXCEPT ![s].forfeited = TRUE]

\* The forfeited claim, field by field.
LEMMA ForfeitWritten ==
  ASSUME NEW F \in [Serials -> Coins], NEW G \in [Serials -> Coins], NEW s \in Serials,
         \A z \in Serials \ {s} : G[z] = F[z],
         G[s].phase = F[s].phase, G[s].value = F[s].value, G[s].recipient = F[s].recipient,
         G[s].claim = F[s].claim, G[s].claimant = F[s].claimant, G[s].forfeited
  PROVE  G = Beaten(F, s)
<1> DEFINE y == [F[s] EXCEPT !.forfeited = TRUE]
<1>1. [F EXCEPT ![s].forfeited = TRUE]
        = [F EXCEPT ![s] = y]
  OBVIOUS
<1>2. F[s] \in Coins /\ G[s] \in Coins
  OBVIOUS
<1>3. y \in Coins
  BY <1>2 DEF Coins
<1>4. /\ y.phase = F[s].phase /\ y.value = F[s].value /\ y.recipient = F[s].recipient
      /\ y.claim = F[s].claim /\ y.claimant = F[s].claimant /\ y.forfeited
  BY <1>2 DEF Coins
<1> HIDE DEF y
<1>5. G[s] = y
  BY <1>2, <1>3, <1>4, SameCoin
<1>6. QED
  BY <1>1, <1>5 DEF Beaten

\* it is redeemed,
Redeemed(F, s) == [F EXCEPT ![s].phase = "redeemed"]

\* The redemption, field by field.
LEMMA RedeemWritten ==
  ASSUME NEW F \in [Serials -> Coins], NEW G \in [Serials -> Coins], NEW s \in Serials,
         \A z \in Serials \ {s} : G[z] = F[z],
         G[s].phase = "redeemed", G[s].value = F[s].value, G[s].recipient = F[s].recipient,
         G[s].claim = F[s].claim, G[s].claimant = F[s].claimant, G[s].forfeited <=> F[s].forfeited
  PROVE  G = Redeemed(F, s)
<1> DEFINE y == [F[s] EXCEPT !.phase = "redeemed"]
<1>1. [F EXCEPT ![s].phase = "redeemed"]
        = [F EXCEPT ![s] = y]
  OBVIOUS
<1>2. F[s] \in Coins /\ G[s] \in Coins
  OBVIOUS
<1>3. y \in Coins
  BY <1>2 DEF Coins
<1>4. /\ y.phase = "redeemed" /\ y.value = F[s].value /\ y.recipient = F[s].recipient
      /\ y.claim = F[s].claim /\ y.claimant = F[s].claimant /\ (y.forfeited <=> F[s].forfeited)
  BY <1>2 DEF Coins
<1> HIDE DEF y
<1>5. G[s] = y
  BY <1>2, <1>3, <1>4, SameCoin
<1>6. QED
  BY <1>1, <1>5 DEF Redeemed

\* or redeemed and an unfinished claim swept.
Swept(F, s) == [F EXCEPT ![s].phase = "redeemed", ![s].forfeited = TRUE]

\* The return of a bond on a redeemed coin, field by field.
LEMMA SweepWritten ==
  ASSUME NEW F \in [Serials -> Coins], NEW G \in [Serials -> Coins], NEW s \in Serials,
         \A z \in Serials \ {s} : G[z] = F[z],
         G[s].phase = "redeemed", G[s].value = F[s].value, G[s].recipient = F[s].recipient,
         G[s].claim = F[s].claim, G[s].claimant = F[s].claimant, G[s].forfeited
  PROVE  G = Swept(F, s)
<1> DEFINE y == [F[s] EXCEPT !.phase = "redeemed", !.forfeited = TRUE]
<1>1. [F EXCEPT ![s].phase = "redeemed", ![s].forfeited = TRUE]
        = [F EXCEPT ![s] = y]
  OBVIOUS
<1>2. F[s] \in Coins /\ G[s] \in Coins
  OBVIOUS
<1>3. y \in Coins
  BY <1>2 DEF Coins
<1>4. /\ y.phase = "redeemed" /\ y.value = F[s].value /\ y.recipient = F[s].recipient
      /\ y.claim = F[s].claim /\ y.claimant = F[s].claimant /\ y.forfeited
  BY <1>2 DEF Coins
<1> HIDE DEF y
<1>5. G[s] = y
  BY <1>2, <1>3, <1>4, SameCoin
<1>6. QED
  BY <1>1, <1>5 DEF Swept

\* A coin that was claimed: the claim that stands is a submission's.
LEMMA Standing ==
  ASSUME Seen, NEW sn \in Serials, head[sn].set
  PROVE  LET a == head[sn].attempt IN
         /\ a \in Attempts /\ sub[sn][a].status \in {"PENDING", "WON"}
         /\ StandingClaim(sn) = OwnersOf(sub[sn][a].states)
         /\ StandingClaim(sn) # <<>>
         /\ Len(StandingClaim(sn)) = head[sn].len
         /\ StandingClaim(sn)[Len(StandingClaim(sn))] = sub[sn][a].final_owner
         /\ ClaimantOf(sn) = sub[sn][a].checker
<1> DEFINE a == head[sn].attempt
<1>1. a \in Attempts
  BY DEF Seen, TypeOK, AccountTypes, Heads
<1>2. sub[sn][a].status \in {"PENDING", "WON"} /\ Len(sub[sn][a].states) = head[sn].len
  BY DEF Seen, ClaimsInv, HeadIsLive, HeadLiveAt
<1>3. StandingClaim(sn) = OwnersOf(sub[sn][a].states) /\ ClaimantOf(sn) = sub[sn][a].checker
  BY DEF StandingClaim, ClaimantOf
<1>4. QED
  BY <1>1, <1>2, <1>3, ChainIsClaim

\* A coin without a head has no claim and no claimant.
LEMMA Unclaimed ==
  ASSUME NEW sn, ~head[sn].set
  PROVE  StandingClaim(sn) = <<>> /\ ClaimantOf(sn) = NoWallet
BY DEF StandingClaim, ClaimantOf

\* The claim and the claimant of a coin whose head is the submission a.
LEMMA ClaimShown ==
  ASSUME NEW sn \in Serials, NEW a \in Attempts, head'[sn] = HeadOf(sn, a), KeepChains
  PROVE  /\ StandingClaim(sn)' = OwnersOf(sub[sn][a].states)
         /\ ClaimantOf(sn)' = sub[sn][a].checker
<1>1. head'[sn].set /\ head'[sn].attempt = a
  BY DEF HeadOf
<1>2. sub'[sn][a].states = sub[sn][a].states /\ sub'[sn][a].checker = sub[sn][a].checker
  BY DEF KeepChains
<1>3. QED
  BY <1>1, <1>2 DEF StandingClaim, ClaimantOf

\* The coins shown are coins.
LEMMA CoinTypes ==
  ASSUME Seen
  PROVE  coinOf \in [Serials -> Coins]
<1>1. ASSUME NEW s \in Serials PROVE coinOf[s] \in Coins
  <2>1. registry[s].value \in Nat /\ registry[s].recipient \in Wallets \cup {NoWallet}
    BY DEF Seen, TypeOK, AccountTypes, Registries
  <2>2. PhaseOf(s) \in {"none", "open", "redeemed"}
    BY DEF PhaseOf
  <2>3. /\ StandingClaim(s) \in ClaimSeqs \cup {<<>>}
        /\ ClaimantOf(s) \in Wallets \cup {NoWallet}
    <3>1. CASE head[s].set
      <4> DEFINE a == head[s].attempt
      <4>1. a \in Attempts /\ sub[s][a].status # "NONE"
        BY <3>1, Standing
      <4>2. /\ StandingClaim(s) = OwnersOf(sub[s][a].states)
            /\ ClaimantOf(s) = sub[s][a].checker
        BY <3>1, Standing
      <4>3. OwnersOf(sub[s][a].states) \in ClaimSeqs
        BY <4>1, ChainIsClaim
      <4>4. sub[s][a].checker \in Wallets
        BY <4>1, StartedSubmission DEF Seen
      <4>5. QED
        BY <4>2, <4>3, <4>4
    <3>2. CASE ~head[s].set
      BY <3>2, Unclaimed
    <3>3. QED
      BY <3>1, <3>2
  <2>4. Forfeited(s) \in BOOLEAN
    BY DEF Forfeited
  <2>5. coinOf[s] = CoinRecord(PhaseOf(s), registry[s].value, registry[s].recipient,
                               StandingClaim(s), ClaimantOf(s), Forfeited(s))
    BY CoinSeen
  <2>6. QED
    BY <2>1, <2>2, <2>3, <2>4, <2>5 DEF CoinRecord, Coins
<1>2. coinOf = [s \in Serials |-> coinOf[s]]
  BY DEF coinOf
<1>3. QED
  BY <1>1, <1>2

CoinsTyped == coinOf \in [Serials -> Coins]

\* The coins that are seen are typed after a step.
LEMMA CoinTypesNext == Seen' => CoinsTyped'
<1>1. Seen => CoinsTyped
  BY CoinTypes DEF CoinsTyped
<1>2. QED
  BY <1>1, PTL

\* The bonds in escrow are shares of their checkers.
LEMMA BondShare ==
  ASSUME NEW sn, NEW a, NEW w
  PROVE  /\ BondIn(w, sn, a) = Share(w, sub[sn][a].checker, escrow[sn][a])
         /\ BondIn(w, sn, a)' = Share(w, sub'[sn][a].checker, escrow'[sn][a])
BY DEF BondIn, Share

-----------------------------------------------------------------------------
(* The contender wins: the claim is displaced. *)

\* finalize of a contender that wins: the claim is displaced.
LEMMA WinCoin ==
  ASSUME Seen, Seen', NEW sn \in Serials, NEW a \in Attempts, FinResolveWin(sn, a)
  PROVE  LET c == OwnersOf(sub[sn][a].states) IN
         /\ coinOf[sn].phase = "open"
         /\ coinOf[sn].claim # <<>>
         /\ ~coinOf[sn].forfeited
         /\ c \in ClaimSeqs
         /\ c[1] = coinOf[sn].recipient
         /\ Len(c) > Len(coinOf[sn].claim)
         /\ coinOf' = [coinOf EXCEPT ![sn].phase = "redeemed", ![sn].claim = c,
                                     ![sn].claimant = sub[sn][a].checker,
                                     ![sn].forfeited = TRUE]
<1> DEFINE c == OwnersOf(sub[sn][a].states)
           k == sub[sn][a].checker
<1>0. TypeOK /\ ClaimsInv
  BY DEF Seen
<1>1. /\ sub[sn][a].status = "RECEIVING" /\ sub[sn][Other(a)].status = "PENDING"
      /\ head[sn].set /\ head[sn].attempt = Other(a) /\ BeatsHead(sn, a)
      /\ KeepChains /\ KeepCoins /\ head'[sn] = HeadOf(sn, a)
  BY <1>0, WinEffect
<1>2. registry[sn].status = "ACTIVE" /\ PhaseOf(sn) = "open"
  BY <1>0, WinRedeems DEF Redeems, PhaseOf
<1>3. ~Forfeited(sn)
  BY <1>1, OtherAttempt DEF Forfeited
<1>4. /\ c \in ClaimSeqs /\ Len(c) = Len(sub[sn][a].states)
      /\ c[1] = registry[sn].recipient
  BY <1>1, ChainIsClaim
<1>5. StandingClaim(sn) # <<>> /\ Len(StandingClaim(sn)) = head[sn].len
  BY <1>1, Standing
<1>6. Len(c) > Len(StandingClaim(sn))
  <2>1. HeadIsLive /\ ChainsAnchored
    BY <1>0 DEF ClaimsInv
  <2>2. Len(sub[sn][a].states) > head[sn].len
    BY <1>0, <1>1, <2>1, WinRule
  <2>3. QED
    BY <1>4, <1>5, <2>2
<1>7. coinOf' = [coinOf EXCEPT ![sn].phase = "redeemed", ![sn].claim = c,
                               ![sn].claimant = k, ![sn].forfeited = TRUE]
  <2>1. \A s \in Serials \ {sn} : coinOf'[s] = coinOf[s]
    <3>1. \A s \in Serials \ {sn} : CoinKept(s)
      BY <1>0, WinEffect DEF CoinKept, KeepChains, KeepCoins, TypeOK, AccountTypes, Heads
    <3>2. QED
      BY <3>1, CoinStaysSeen
  <2>2. PhaseOf(sn)' = "redeemed"
    BY <1>0, WinEffect DEF PhaseOf
  <2>3. Forfeited(sn)'
    BY <1>0, WinEffect, OtherAttempt DEF Forfeited
  <2>4. StandingClaim(sn)' = c /\ ClaimantOf(sn)' = k
    BY <1>1, ClaimShown
  <2>5. registry'[sn].value = registry[sn].value /\ registry'[sn].recipient = registry[sn].recipient
    BY <1>1 DEF KeepCoins
  <2>6. coinOf \in [Serials -> Coins] /\ coinOf' \in [Serials -> Coins] /\ k \in Wallets
    BY <1>0, <1>1, CoinTypes, CoinTypesNext, StartedSubmission DEF CoinsTyped
  <2>7. /\ coinOf'[sn].phase = "redeemed"
        /\ coinOf'[sn].value = coinOf[sn].value
        /\ coinOf'[sn].recipient = coinOf[sn].recipient
        /\ coinOf'[sn].claim = c /\ coinOf'[sn].claimant = k
        /\ coinOf'[sn].forfeited
    BY <2>2, <2>3, <2>4, <2>5, CoinFields, CoinFieldsNext
  <2> DEFINE F == coinOf
             G == coinOf'
  <2>8. /\ F \in [Serials -> Coins] /\ G \in [Serials -> Coins]
        /\ \A z \in Serials \ {sn} : G[z] = F[z]
        /\ G[sn].phase = "redeemed" /\ G[sn].value = F[sn].value
        /\ G[sn].recipient = F[sn].recipient
        /\ G[sn].claim = c /\ G[sn].claimant = k /\ G[sn].forfeited
        /\ c \in ClaimSeqs /\ k \in Wallets
    BY <1>4, <2>1, <2>6, <2>7
  <2> HIDE DEF c, k, F, G
  <2>9. G = Displaced(F, sn, c, k)
    BY <2>8, DisplaceWritten
  <2>10. QED
    BY <2>9 DEF F, G, Displaced
<1>8. QED
  BY <1>2, <1>3, <1>4, <1>5, <1>6, <1>7, CoinFields

\* A share is the whole amount or nothing.
LEMMA ShareNat ==
  ASSUME NEW w, NEW x, NEW n \in Nat
  PROVE  /\ Share(w, x, n) \in Nat /\ Share(w, x, 0) = 0
         /\ Share(w, x, 2 * n) = Share(w, x, n) + Share(w, x, n)
BY DEF Share

\* A move takes from one account and gives to another.
LEMMA MoveShare ==
  ASSUME NEW f, f \in [Accounts -> Int], NEW x \in Accounts, NEW y \in Accounts, NEW n \in Int
  PROVE  /\ Coin!Move(f, x, y, n) \in [Accounts -> Int]
         /\ \A w \in Accounts : Coin!Move(f, x, y, n)[w] = f[w] - Share(w, x, n) + Share(w, y, n)
<1> DEFINE g == [f EXCEPT ![x] = @ - n]
<1>1. g \in [Accounts -> Int] /\ \A w \in Accounts : g[w] = f[w] - Share(w, x, n)
  BY DEF Share
<1>2. Coin!Move(f, x, y, n) = [g EXCEPT ![y] = @ + n]
  BY DEF Coin!Move
<1> HIDE DEF g
<1>3. QED
  BY <1>1, <1>2, Gain

\* What a coin's handlers know of its two submissions: their bonds and their accounts.
LEMMA Accounted ==
  ASSUME Seen, NEW sn \in Serials, NEW a \in Attempts
  PROVE  /\ Bond(sn) \in Nat /\ registry[sn].value \in Nat
         /\ StakeFor(registry[sn].value) = Bond(sn)
         /\ escrow[sn][a] = (IF sub[sn][a].status \in Open THEN Bond(sn) ELSE 0)
         /\ sub[sn][a].status # "NONE" => /\ sub[sn][a].checker \in Accounts
                                          /\ sub[sn][a].final_owner \in Accounts
<1>1. Bond(sn) \in Nat /\ registry[sn].value \in Nat
  BY BondNat DEF Seen, TypeOK
<1>2. StakeFor(registry[sn].value) = Bond(sn)
  BY DEF StakeFor, Bond
<1>3. escrow[sn][a] = (IF sub[sn][a].status \in Open THEN Bond(sn) ELSE 0)
  BY DEF Seen, ClaimsInv, EscrowRight
<1>4. QED
  BY <1>1, <1>2, <1>3, StartedSubmission DEF Seen, Accounts

\* What the wallets own when a contender wins: the loser's bond goes to the winner's
\* checker, the value to the winner's final owner.
LEMMA WinWealth ==
  ASSUME Seen, TypeOK', NEW sn \in Serials, NEW a \in Attempts, FinResolveWin(sn, a),
         NEW w \in Accounts
  PROVE  wealthOf'[w] = wealthOf[w] - Share(w, sub[sn][Other(a)].checker, Bond(sn))
                                    + Share(w, sub[sn][a].checker, Bond(sn))
                                    + Share(w, sub[sn][a].final_owner, registry[sn].value)
<1> DEFINE o == Other(a)
           ca == sub[sn][a].checker
           co == sub[sn][o].checker
           fo == sub[sn][a].final_owner
           B == Bond(sn)
           v == registry[sn].value
<1>0. TypeOK
  BY DEF Seen
<1>1. /\ sub[sn][a].status = "RECEIVING" /\ sub[sn][o].status = "PENDING"
      /\ KeepChains /\ o \in Attempts
      /\ \A s \in Serials, b \in Attempts :
           escrow'[s][b] = IF s = sn THEN escrow[s][b] - B ELSE escrow[s][b]
  BY <1>0, WinEffect, OtherAttempt
<1>2. /\ B \in Nat /\ v \in Nat /\ ca \in Accounts /\ co \in Accounts /\ fo \in Accounts
      /\ escrow[sn][a] = B /\ escrow[sn][o] = B
  BY <1>1, Accounted DEF Open
<1>3. escrow'[sn][a] = 0 /\ escrow'[sn][o] = 0
  BY <1>1, <1>2
<1>4. /\ sub'[sn][a].checker = ca /\ sub'[sn][o].checker = co
      /\ BondsStay(sn)
  BY <1>1 DEF KeepChains, BondsStay
<1>5. /\ BondsIn(w, sn) = Share(w, ca, B) + Share(w, co, B)
      /\ BondsIn(w, sn)' = Share(w, ca, 0) + Share(w, co, 0)
  <2>1. BondsIn(w, sn) = BondIn(w, sn, a) + BondIn(w, sn, o)
    BY <1>0, BondsInNat
  <2>2. BondsIn(w, sn)' = BondIn(w, sn, a)' + BondIn(w, sn, o)'
    BY BondsInNatNext
  <2>3. QED
    BY <1>2, <1>3, <1>4, <2>1, <2>2, BondShare
<1>6. wallet'[w] = wallet[w] + Share(w, ca, 2 * B) + Share(w, fo, v)
  <2> DEFINE p == [wallet EXCEPT ![ca] = @ + 2 * B]
  <2>1. wallet' = [p EXCEPT ![fo] = @ + v]
    BY DEF FinResolveWin, CanWin
  <2>2. wallet \in [Accounts -> Int]
    BY <1>0 DEF TypeOK, AccountTypes
  <2> HIDE DEF ca, fo, B, v
  <2>3. p \in [Accounts -> Int] /\ p[w] = wallet[w] + Share(w, ca, 2 * B)
    BY <1>2, <2>2, Gain
  <2> HIDE DEF p
  <2>4. QED
    BY <1>2, <2>1, <2>3, Gain
<1> DEFINE d == Share(w, ca, B) - Share(w, co, B) + Share(w, fo, v)
<1>7. wallet[w] \in Nat
  BY <1>0 DEF TypeOK, AccountTypes
<1> HIDE DEF ca, co, fo, B, v
<1>s. /\ Share(w, ca, B) \in Nat /\ Share(w, co, B) \in Nat /\ Share(w, fo, v) \in Nat
      /\ Share(w, ca, 0) = 0 /\ Share(w, co, 0) = 0
      /\ Share(w, ca, 2 * B) = Share(w, ca, B) + Share(w, ca, B)
  BY <1>2, ShareNat
<1>8. d \in Int /\ Purse(w, sn)' = Purse(w, sn) + d
  BY <1>s, <1>5, <1>6, <1>7 DEF Purse
<1> HIDE DEF d
<1>9. wealthOf'[w] = wealthOf[w] + d
  BY <1>0, <1>4, <1>8, WealthMoves
<1>10. wealthOf[w] \in Int
  BY <1>0, WealthNat
<1>11. QED
  <2>1. wealthOf'[w] = wealthOf[w] - Share(w, co, B) + Share(w, ca, B) + Share(w, fo, v)
    BY <1>s, <1>9, <1>10 DEF d
  <2>2. QED
    BY <2>1 DEF ca, co, fo, B, v, o

\* A contender that wins displaces the claim of the bearer coin.
LEMMA WinShown ==
  ASSUME Seen, Seen', NEW sn \in Serials, NEW a \in Attempts, FinResolveWin(sn, a)
  PROVE  \E c \in ClaimSeqs, w \in Wallets : Coin!Displace(sn, c, w)
<1> DEFINE c == OwnersOf(sub[sn][a].states)
           k == sub[sn][a].checker
           co == sub[sn][Other(a)].checker
           fo == sub[sn][a].final_owner
           B == Bond(sn)
           v == registry[sn].value
<1>0. TypeOK /\ TypeOK'
  BY DEF Seen
<1>1. /\ sub[sn][a].status = "RECEIVING" /\ sub[sn][Other(a)].status = "PENDING"
      /\ head[sn].set /\ head[sn].attempt = Other(a) /\ Other(a) \in Attempts
  BY <1>0, WinEffect, OtherAttempt
<1>2. /\ k \in Wallets /\ B \in Nat /\ v \in Nat /\ StakeFor(v) = B
      /\ k \in Accounts /\ co \in Accounts /\ fo \in Accounts
  BY <1>0, <1>1, Accounted, StartedSubmission
<1>3. coinOf[sn].value = v /\ coinOf[sn].claimant = co
  BY <1>1, CoinFields, Standing
<1>4. c[Len(c)] = fo
  BY <1>1, ChainIsClaim
<1>5. wealthOf' = [Coin!Move(wealthOf, co, k, B) EXCEPT ![fo] = @ + v]
  <2> DEFINE m == Coin!Move(wealthOf, co, k, B)
             g == [m EXCEPT ![fo] = @ + v]
  <2>1. \A w \in Accounts : wealthOf'[w] = wealthOf[w] - Share(w, co, B) + Share(w, k, B)
                                                       + Share(w, fo, v)
    BY <1>0, WinWealth
  <2>2. wealthOf \in [Accounts -> Int] /\ wealthOf' \in [Accounts -> Int]
    BY <1>0, WealthNat, WealthNatNext DEF WealthTyped
  <2> DEFINE f == wealthOf
  <2> HIDE DEF co, k, fo, B, v
  <2>8. f \in [Accounts -> Int] /\ co \in Accounts /\ k \in Accounts /\ B \in Int
    BY <1>2, <2>2
  <2> HIDE DEF f
  <2>9. /\ Coin!Move(f, co, k, B) \in [Accounts -> Int]
        /\ \A w \in Accounts : Coin!Move(f, co, k, B)[w] = f[w] - Share(w, co, B) + Share(w, k, B)
    BY <2>8, MoveShare
  <2>3. /\ m \in [Accounts -> Int]
        /\ \A w \in Accounts : m[w] = wealthOf[w] - Share(w, co, B) + Share(w, k, B)
    BY <2>9 DEF f
  <2> HIDE DEF m
  <2>4. g \in [Accounts -> Int] /\ \A w \in Accounts : g[w] = m[w] + Share(w, fo, v)
    BY <1>2, <2>3, Gain
  <2> HIDE DEF g
  <2>5. \A w \in Accounts : wealthOf'[w] = g[w]
    BY <2>1, <2>3, <2>4
  <2>6. wealthOf' = g
    BY <2>2, <2>4, <2>5, SameWealth
  <2>7. QED
    BY <2>6 DEF g, m
<1>6. vault' = vault - v /\ fees' = fees
  BY DEF FinResolveWin, CanWin
<1>7. Coin!Displace(sn, c, k)
  BY <1>2, <1>3, <1>4, <1>5, <1>6, WinCoin DEF Coin!Displace
<1>8. c \in ClaimSeqs
  BY <1>1, ChainIsClaim
<1>9. QED
  BY <1>2, <1>7, <1>8

\* What the wallets own when a contender loses: its bond goes to the other checker.
LEMMA LoseWealth ==
  ASSUME Seen, TypeOK', NEW sn \in Serials, NEW a \in Attempts, FinResolveLose(sn, a),
         NEW w \in Accounts
  PROVE  wealthOf'[w] = wealthOf[w] - Share(w, sub[sn][a].checker, Bond(sn))
                                    + Share(w, sub[sn][Other(a)].checker, Bond(sn))
<1> DEFINE o == Other(a)
           ca == sub[sn][a].checker
           co == sub[sn][o].checker
           B == Bond(sn)
<1>0. TypeOK
  BY DEF Seen
<1>1. /\ sub[sn][a].status = "RECEIVING" /\ sub[sn][o].status = "PENDING"
      /\ KeepChains /\ o \in Attempts /\ o # a
      /\ \A s \in Serials, b \in Attempts :
           escrow'[s][b] = IF s = sn /\ b = a THEN escrow[s][b] - B ELSE escrow[s][b]
  BY <1>0, LoseEffect, OtherAttempt
<1>2. /\ B \in Nat /\ ca \in Accounts /\ co \in Accounts
      /\ escrow[sn][a] = B /\ escrow[sn][o] = B
  BY <1>1, Accounted DEF Open
<1>3. escrow'[sn][a] = 0 /\ escrow'[sn][o] = B
  BY <1>1, <1>2
<1>4. /\ sub'[sn][a].checker = ca /\ sub'[sn][o].checker = co
      /\ BondsStay(sn)
  BY <1>1 DEF KeepChains, BondsStay
<1>5. /\ BondsIn(w, sn) = Share(w, ca, B) + Share(w, co, B)
      /\ BondsIn(w, sn)' = Share(w, ca, 0) + Share(w, co, B)
  <2>1. BondsIn(w, sn) = BondIn(w, sn, a) + BondIn(w, sn, o)
    BY <1>0, BondsInNat
  <2>2. BondsIn(w, sn)' = BondIn(w, sn, a)' + BondIn(w, sn, o)'
    BY BondsInNatNext
  <2>3. QED
    BY <1>2, <1>3, <1>4, <2>1, <2>2, BondShare
<1>6. wallet'[w] = wallet[w] + Share(w, co, B)
  <2>1. wallet' = [wallet EXCEPT ![co] = @ + B] /\ wallet \in [Accounts -> Int]
    BY <1>0 DEF FinResolveLose, TypeOK, AccountTypes
  <2> HIDE DEF co, B
  <2>2. QED
    BY <1>2, <2>1, Gain
<1> DEFINE d == Share(w, co, B) - Share(w, ca, B)
<1>7. wallet[w] \in Nat
  BY <1>0 DEF TypeOK, AccountTypes
<1> HIDE DEF ca, co, B
<1>8. /\ Share(w, ca, B) \in Nat /\ Share(w, co, B) \in Nat /\ Share(w, ca, 0) = 0
  BY <1>2, ShareNat
<1>9. d \in Int /\ Purse(w, sn)' = Purse(w, sn) + d
  BY <1>5, <1>6, <1>7, <1>8 DEF Purse
<1> HIDE DEF d
<1>10. wealthOf'[w] = wealthOf[w] + d /\ wealthOf[w] \in Int
  BY <1>0, <1>4, <1>9, WealthMoves, WealthNat
<1>11. QED
  <2>1. wealthOf'[w] = wealthOf[w] - Share(w, ca, B) + Share(w, co, B)
    BY <1>8, <1>10 DEF d
  <2>2. QED
    BY <2>1 DEF ca, co, B, o

\* finalize of a contender that loses: the claim stands.
LEMMA LoseCoin ==
  ASSUME Seen, Seen', NEW sn \in Serials, NEW a \in Attempts, FinResolveLose(sn, a)
  PROVE  /\ coinOf[sn].phase = "open"
         /\ coinOf[sn].claim # <<>>
         /\ ~coinOf[sn].forfeited
         /\ coinOf' = [coinOf EXCEPT ![sn].forfeited = TRUE]
<1>0. TypeOK /\ ClaimsInv
  BY DEF Seen
<1>1. /\ sub[sn][a].status = "RECEIVING" /\ sub[sn][Other(a)].status = "PENDING"
      /\ head[sn].set /\ head[sn].attempt = Other(a)
      /\ KeepChains /\ registry' = registry /\ head' = head
      /\ \A s \in Serials, b \in Attempts :
           sub'[s][b].status = IF s = sn /\ b = a THEN "LOST" ELSE sub[s][b].status
  BY <1>0, LoseEffect
<1>2. registry[sn].status = "ACTIVE" /\ PhaseOf(sn) = "open"
  <2>1. registry[sn] \in Registries /\ registry[sn].status # "NONE"
    BY <1>0, <1>1, StartedSubmission DEF TypeOK, AccountTypes
  <2>2. registry[sn].status # "SPENT"
    BY DEF FinResolveLose, CanResolve
  <2>3. QED
    BY <2>1, <2>2 DEF Registries, PhaseOf
<1>3. ~Forfeited(sn)
  BY <1>1, OtherAttempt DEF Forfeited
<1>4. StandingClaim(sn) # <<>>
  BY <1>1, Standing
<1>5. coinOf' = [coinOf EXCEPT ![sn].forfeited = TRUE]
  <2> DEFINE F == coinOf
             G == coinOf'
  <2>1. \A s \in Serials \ {sn} : G[s] = F[s]
    <3>1. \A s \in Serials \ {sn} : CoinKept(s)
      BY <1>0, <1>1 DEF CoinKept, KeepChains, TypeOK, AccountTypes, Heads
    <3>2. QED
      BY <3>1, CoinStaysSeen
  <2>2. Forfeited(sn)'
    BY <1>1 DEF Forfeited
  <2>3. /\ PhaseOf(sn)' = PhaseOf(sn) /\ StandingClaim(sn)' = StandingClaim(sn)
        /\ ClaimantOf(sn)' = ClaimantOf(sn)
    BY <1>0, <1>1, OtherAttempt DEF PhaseOf, StandingClaim, ClaimantOf, KeepChains
  <2>4. F \in [Serials -> Coins] /\ G \in [Serials -> Coins]
    BY CoinTypes, CoinTypesNext DEF CoinsTyped
  <2>5. /\ G[sn].phase = F[sn].phase /\ G[sn].value = F[sn].value
        /\ G[sn].recipient = F[sn].recipient
        /\ G[sn].claim = F[sn].claim /\ G[sn].claimant = F[sn].claimant /\ G[sn].forfeited
    BY <1>1, <2>2, <2>3, CoinFields, CoinFieldsNext
  <2> HIDE DEF F, G
  <2>6. G = Beaten(F, sn)
    BY <2>1, <2>4, <2>5, ForfeitWritten
  <2>7. QED
    BY <2>6 DEF F, G, Beaten
<1>6. QED
  BY <1>2, <1>3, <1>4, <1>5, CoinFields

\* What moved from x to y is a move.
LEMMA MovedWealth ==
  ASSUME NEW f, NEW g, f \in [Accounts -> Int], g \in [Accounts -> Int],
         NEW x \in Accounts, NEW y \in Accounts, NEW n \in Int,
         \A w \in Accounts : g[w] = f[w] - Share(w, x, n) + Share(w, y, n)
  PROVE  g = Coin!Move(f, x, y, n)
<1> DEFINE m == [f EXCEPT ![x] = @ - n]
           h == [m EXCEPT ![y] = @ + n]
<1>1. m \in [Accounts -> Int] /\ \A w \in Accounts : m[w] = f[w] - Share(w, x, n)
  BY DEF Share
<1>2. Coin!Move(f, x, y, n) = h
  BY DEF Coin!Move
<1> HIDE DEF m
<1>3. h \in [Accounts -> Int] /\ \A w \in Accounts : h[w] = m[w] + Share(w, y, n)
  BY <1>1 DEF Share
<1> HIDE DEF h
<1>4. \A w \in Accounts : g[w] = h[w]
  BY <1>1, <1>3
<1>5. g = h
  BY <1>3, <1>4, SameWealth
<1>6. QED
  BY <1>2, <1>5

\* A contender that loses falls short of the claim.
LEMMA LoseShown ==
  ASSUME Seen, Seen', NEW sn \in Serials, NEW a \in Attempts, FinResolveLose(sn, a)
  PROVE  \E w \in Wallets : Coin!FallShort(sn, w)
<1> DEFINE k == sub[sn][a].checker
           co == sub[sn][Other(a)].checker
           B == Bond(sn)
           v == registry[sn].value
<1>0. TypeOK /\ TypeOK'
  BY DEF Seen
<1>1. /\ sub[sn][a].status = "RECEIVING" /\ sub[sn][Other(a)].status = "PENDING"
      /\ head[sn].set /\ head[sn].attempt = Other(a) /\ Other(a) \in Attempts
  BY <1>0, LoseEffect, OtherAttempt
<1>2. /\ k \in Wallets /\ B \in Nat /\ v \in Nat /\ StakeFor(v) = B
      /\ k \in Accounts /\ co \in Accounts
  BY <1>0, <1>1, Accounted, StartedSubmission
<1>3. coinOf[sn].value = v /\ coinOf[sn].claimant = co
  BY <1>1, CoinFields, Standing
<1>4. wealthOf' = Coin!Move(wealthOf, k, co, B)
  <2> DEFINE f == wealthOf
             g == wealthOf'
  <2>1. \A w \in Accounts : g[w] = f[w] - Share(w, k, B) + Share(w, co, B)
    BY <1>0, LoseWealth
  <2>2. f \in [Accounts -> Int] /\ g \in [Accounts -> Int]
    BY <1>0, WealthNat, WealthNatNext DEF WealthTyped
  <2> HIDE DEF k, co, B, f, g
  <2>3. g = Coin!Move(f, k, co, B)
    BY <1>2, <2>1, <2>2, MovedWealth
  <2>4. QED
    BY <2>3 DEF f, g
<1>5. vault' = vault /\ fees' = fees
  BY DEF FinResolveLose
<1>6. Coin!FallShort(sn, k)
  BY <1>2, <1>3, <1>4, <1>5, LoseCoin DEF Coin!FallShort
<1>7. QED
  BY <1>2, <1>6

\* A claim that comes too late: its bond is forfeited to the program.
LEMMA RejectWealth ==
  ASSUME Seen, TypeOK', NEW sn \in Serials, NEW a \in Attempts, FinRejectSpent(sn, a),
         NEW w \in Accounts
  PROVE  wealthOf'[w] = wealthOf[w] - Share(w, sub[sn][a].checker, Bond(sn))
<1> DEFINE o == Other(a)
           ca == sub[sn][a].checker
           B == Bond(sn)
<1>0. TypeOK
  BY DEF Seen
<1>1. /\ sub[sn][a].status = "RECEIVING"
      /\ KeepChains /\ o \in Attempts /\ o # a
      /\ \A s \in Serials, b \in Attempts :
           escrow'[s][b] = IF s = sn /\ b = a THEN escrow[s][b] - B ELSE escrow[s][b]
  BY <1>0, RejectEffect, OtherAttempt
<1>2. B \in Nat /\ ca \in Accounts /\ escrow[sn][a] = B
  BY <1>1, Accounted DEF Open
<1>3. escrow'[sn][a] = 0 /\ escrow'[sn][o] = escrow[sn][o]
  BY <1>1, <1>2
<1>4. /\ sub'[sn][a].checker = ca /\ sub'[sn][o].checker = sub[sn][o].checker
      /\ BondsStay(sn)
  BY <1>1 DEF KeepChains, BondsStay
<1> DEFINE r == BondIn(w, sn, o)
<1>5. /\ BondsIn(w, sn) = Share(w, ca, B) + r
      /\ BondsIn(w, sn)' = Share(w, ca, 0) + r
      /\ r \in Nat
  <2>1. BondsIn(w, sn) = BondIn(w, sn, a) + BondIn(w, sn, o) /\ r \in Nat
    BY <1>0, BondsInNat
  <2>2. BondsIn(w, sn)' = BondIn(w, sn, a)' + BondIn(w, sn, o)'
    BY BondsInNatNext
  <2>3. BondIn(w, sn, o)' = BondIn(w, sn, o)
    BY <1>3, <1>4 DEF BondIn
  <2>4. BondIn(w, sn, a) = Share(w, ca, B) /\ BondIn(w, sn, a)' = Share(w, ca, 0)
    BY <1>2, <1>3, <1>4, BondShare
  <2>5. QED
    BY <2>1, <2>2, <2>3, <2>4
<1>6. wallet'[w] = wallet[w] /\ wallet[w] \in Nat
  BY <1>0 DEF FinRejectSpent, TypeOK, AccountTypes
<1> DEFINE d == 0 - Share(w, ca, B)
<1> HIDE DEF ca, B, r
<1>7. Share(w, ca, B) \in Nat /\ Share(w, ca, 0) = 0
  BY <1>2, ShareNat
<1>8. d \in Int /\ Purse(w, sn)' = Purse(w, sn) + d
  BY <1>5, <1>6, <1>7 DEF Purse
<1> HIDE DEF d
<1>9. wealthOf'[w] = wealthOf[w] + d /\ wealthOf[w] \in Int
  BY <1>0, <1>4, <1>8, WealthMoves, WealthNat
<1>10. QED
  <2>1. wealthOf'[w] = wealthOf[w] - Share(w, ca, B)
    BY <1>7, <1>9 DEF d
  <2>2. QED
    BY <2>1 DEF ca, B

\* finalize of a contender after the coin was paid: its bond is forfeited, the coin
\* stays paid.
LEMMA RejectCoin ==
  ASSUME Seen, Seen', NEW sn \in Serials, NEW a \in Attempts, FinRejectSpent(sn, a)
  PROVE  /\ coinOf[sn].phase = "redeemed"
         /\ ~coinOf[sn].forfeited
         /\ coinOf' = [coinOf EXCEPT ![sn].forfeited = TRUE]
<1>0. TypeOK /\ ClaimsInv
  BY DEF Seen
<1>1. /\ sub[sn][a].status = "RECEIVING" /\ registry[sn].status = "SPENT"
      /\ KeepChains /\ registry' = registry /\ head' = head
      /\ \A s \in Serials, b \in Attempts :
           sub'[s][b].status = IF s = sn /\ b = a THEN "REJECTED" ELSE sub[s][b].status
  BY <1>0, RejectEffect
<1>2. PhaseOf(sn) = "redeemed"
  BY <1>1 DEF PhaseOf
<1>3. ~Forfeited(sn)
  <2>1. head[sn].set /\ sub[sn][head[sn].attempt].status = "WON" /\ head[sn].attempt \in Attempts
    BY <1>0, <1>1 DEF ClaimsInv, HeadIsLive, HeadLiveAt, TypeOK, AccountTypes, Heads
  <2>2. head[sn].attempt = Other(a)
    BY <1>1, <2>1, OtherAttempt
  <2>3. QED
    BY <1>1, <2>1, <2>2, OtherAttempt DEF Forfeited
<1>4. coinOf' = [coinOf EXCEPT ![sn].forfeited = TRUE]
  <2> DEFINE F == coinOf
             G == coinOf'
  <2>1. \A s \in Serials \ {sn} : G[s] = F[s]
    <3>1. \A s \in Serials \ {sn} : CoinKept(s)
      BY <1>0, <1>1 DEF CoinKept, KeepChains, TypeOK, AccountTypes, Heads
    <3>2. QED
      BY <3>1, CoinStaysSeen
  <2>2. Forfeited(sn)'
    BY <1>1 DEF Forfeited
  <2>3. /\ PhaseOf(sn)' = PhaseOf(sn) /\ StandingClaim(sn)' = StandingClaim(sn)
        /\ ClaimantOf(sn)' = ClaimantOf(sn)
    BY <1>0, <1>1
    DEF PhaseOf, StandingClaim, ClaimantOf, KeepChains, TypeOK, AccountTypes, Heads
  <2>4. F \in [Serials -> Coins] /\ G \in [Serials -> Coins]
    BY CoinTypes, CoinTypesNext DEF CoinsTyped
  <2>5. /\ G[sn].phase = F[sn].phase /\ G[sn].value = F[sn].value
        /\ G[sn].recipient = F[sn].recipient
        /\ G[sn].claim = F[sn].claim /\ G[sn].claimant = F[sn].claimant /\ G[sn].forfeited
    BY <1>1, <2>2, <2>3, CoinFields, CoinFieldsNext
  <2> HIDE DEF F, G
  <2>6. G = Beaten(F, sn)
    BY <2>1, <2>4, <2>5, ForfeitWritten
  <2>7. QED
    BY <2>6 DEF F, G, Beaten
<1>5. QED
  BY <1>2, <1>3, <1>4, CoinFields

\* A contender after payment is too late.
LEMMA RejectShown ==
  ASSUME Seen, Seen', NEW sn \in Serials, NEW a \in Attempts, FinRejectSpent(sn, a)
  PROVE  \E w \in Wallets : Coin!TooLate(sn, w)
<1> DEFINE k == sub[sn][a].checker
           B == Bond(sn)
           v == registry[sn].value
<1>0. TypeOK /\ TypeOK'
  BY DEF Seen
<1>1. sub[sn][a].status = "RECEIVING"
  BY <1>0, RejectEffect
<1>2. /\ k \in Wallets /\ B \in Nat /\ v \in Nat /\ StakeFor(v) = B /\ k \in Accounts
  BY <1>0, <1>1, Accounted, StartedSubmission
<1>3. coinOf[sn].value = v
  BY CoinFields
<1>4. wealthOf' = [wealthOf EXCEPT ![k] = @ - B]
  <2> DEFINE f == wealthOf
             g == wealthOf'
  <2>1. \A w \in Accounts : g[w] = f[w] - Share(w, k, B)
    BY <1>0, RejectWealth
  <2>2. f \in [Accounts -> Int] /\ g \in [Accounts -> Int]
    BY <1>0, WealthNat, WealthNatNext DEF WealthTyped
  <2> HIDE DEF k, B, f, g
  <2>3. g = [f EXCEPT ![k] = @ - B]
    BY <1>2, <2>1, <2>2 DEF Share
  <2>4. QED
    BY <2>3 DEF f, g
<1>5. vault' = vault /\ fees' = fees + B
  BY DEF FinRejectSpent
<1>6. Coin!TooLate(sn, k)
  BY <1>2, <1>3, <1>4, <1>5, RejectCoin DEF Coin!TooLate
<1>7. QED
  BY <1>2, <1>6

\* The first claim to be finalized stands; nothing is paid.
LEMMA WealthStays ==
  ASSUME wallet' = wallet,
         \A s \in Serials, b \in Attempts :
           escrow'[s][b] = escrow[s][b] /\ sub'[s][b].checker = sub[s][b].checker
  PROVE  wealthOf' = wealthOf
<1>1. ASSUME NEW w \in Accounts PROVE wealthOf'[w] = wealthOf[w]
  <2>1. BondsFor(w)' = BondsFor(w)
    BY DEF BondsFor, BondIn, Attempts
  <2>2. BondsOf(w)' = BondsOf(w)
    BY <2>1 DEF BondsOf
  <2>3. QED
    BY <2>2 DEF wealthOf
<1>2. wealthOf = [w \in Accounts |-> wealthOf[w]] /\ wealthOf' = [w \in Accounts |-> wealthOf'[w]]
  BY DEF wealthOf
<1>3. QED
  BY <1>1, <1>2

\* The first finalize is the claim of the coin.
LEMMA SetHeadShown ==
  ASSUME Seen, Seen', NEW sn \in Serials, NEW a \in Attempts, FinSetHead(sn, a)
  PROVE  \E c \in ClaimSeqs, w \in Wallets : Coin!Claim(sn, c, w)
<1> DEFINE c == OwnersOf(sub[sn][a].states)
           k == sub[sn][a].checker
<1>0. TypeOK /\ ClaimsInv
  BY DEF Seen
<1>1. /\ sub[sn][a].status = "RECEIVING" /\ registry[sn].status # "SPENT"
      /\ ~head[sn].set /\ KeepChains /\ registry' = registry /\ escrow' = escrow
      /\ \A s \in Serials, b \in Attempts :
           sub'[s][b].status = IF s = sn /\ b = a THEN "PENDING" ELSE sub[s][b].status
      /\ \A s \in Serials : head'[s] = IF s = sn THEN HeadOf(sn, a) ELSE head[s]
  BY <1>0, SetHeadEffect
<1>2. PhaseOf(sn) = "open"
  <2>1. registry[sn] \in Registries /\ registry[sn].status # "NONE"
    BY <1>0, <1>1, StartedSubmission DEF TypeOK, AccountTypes
  <2>2. QED
    BY <1>1, <2>1 DEF Registries, PhaseOf
<1>3. StandingClaim(sn) = <<>>
  BY <1>1, Unclaimed
<1>4. c \in ClaimSeqs /\ c[1] = registry[sn].recipient /\ k \in Wallets
  BY <1>0, <1>1, ChainIsClaim, StartedSubmission
<1>5. coinOf' = [coinOf EXCEPT ![sn].claim = c, ![sn].claimant = k]
  <2> DEFINE F == coinOf
             G == coinOf'
  <2>1. \A s \in Serials \ {sn} : G[s] = F[s]
    <3>1. \A s \in Serials \ {sn} : CoinKept(s)
      BY <1>0, <1>1 DEF CoinKept, KeepChains, TypeOK, AccountTypes, Heads
    <3>2. QED
      BY <3>1, CoinStaysSeen
  <2>2. Forfeited(sn)' <=> Forfeited(sn)
    BY <1>1 DEF Forfeited
  <2>3. PhaseOf(sn)' = PhaseOf(sn) /\ StandingClaim(sn)' = c /\ ClaimantOf(sn)' = k
    BY <1>1, ClaimShown DEF PhaseOf
  <2>4. F \in [Serials -> Coins] /\ G \in [Serials -> Coins]
    BY CoinTypes, CoinTypesNext DEF CoinsTyped
  <2>5. /\ G[sn].phase = F[sn].phase /\ G[sn].value = F[sn].value
        /\ G[sn].recipient = F[sn].recipient
        /\ G[sn].claim = c /\ G[sn].claimant = k /\ (G[sn].forfeited <=> F[sn].forfeited)
    BY <1>1, <2>2, <2>3, CoinFields, CoinFieldsNext
  <2> HIDE DEF F, G, c, k
  <2>6. G = Claimed(F, sn, c, k)
    BY <1>4, <2>1, <2>4, <2>5, ClaimWritten
  <2>7. QED
    BY <2>6 DEF F, G, Claimed
<1>6. wealthOf' = wealthOf
  BY <1>1, WealthStays DEF FinSetHead, KeepChains
<1>7. vault' = vault /\ fees' = fees
  BY DEF FinSetHead
<1>8. coinOf[sn].phase = "open" /\ coinOf[sn].claim = <<>> /\ c[1] = coinOf[sn].recipient
  BY <1>2, <1>3, <1>4, CoinFields
<1>9. Coin!Claim(sn, c, k)
  BY <1>5, <1>6, <1>7, <1>8 DEF Coin!Claim
<1>10. QED
  BY <1>4, <1>9

-----------------------------------------------------------------------------
(* Mint and fund. *)

\* BearerCoin sums as the program's model does.
LEMMA SameSum ==
  ASSUME NEW f, NEW S
  PROVE  Coin!SumFunctionOnSet(f, S) = SumFunctionOnSet(f, S)
BY DEF Coin!SumFunctionOnSet, SumFunctionOnSet, Coin!FoldFunctionOnSet, FoldFunctionOnSet,
       Coin!MapThenFoldSet, MapThenFoldSet

\* mint_coin mints the coin.
LEMMA MintShown ==
  ASSUME Seen, Seen', NEW sn \in Serials, NEW v \in Values, NEW w \in Wallets,
         MintCoin(sn, v, w)
  PROVE  Coin!Mint(sn, v, w)
<1>0. TypeOK /\ ClaimsInv /\ v \in Nat
  BY DataAssumption DEF Seen
<1>1. /\ registry[sn].status = "NONE"
      /\ registry'[sn].status = "ACTIVE" /\ registry'[sn].value = v /\ registry'[sn].recipient = w
      /\ \A s \in Serials \ {sn} : registry'[s] = registry[s]
      /\ vault >= supply + v
  BY <1>0, MintMints DEF Mints
<1>2. UNCHANGED <<vault, fees, wallet, head, sub, escrow>>
  BY DEF MintCoin
<1>3. coinOf' = [coinOf EXCEPT ![sn].phase = "open", ![sn].value = v, ![sn].recipient = w]
  <2> DEFINE F == coinOf
             G == coinOf'
  <2>1. \A s \in Serials \ {sn} : G[s] = F[s]
    <3>1. \A s \in Serials \ {sn} : CoinKept(s)
      BY <1>1, <1>2 DEF CoinKept
    <3>2. QED
      BY <3>1, CoinStaysSeen
  <2>2. Forfeited(sn)' <=> Forfeited(sn)
    BY <1>2 DEF Forfeited
  <2>3. /\ PhaseOf(sn)' = "open" /\ StandingClaim(sn)' = StandingClaim(sn)
        /\ ClaimantOf(sn)' = ClaimantOf(sn)
    BY <1>1, <1>2 DEF PhaseOf, StandingClaim, ClaimantOf
  <2>4. F \in [Serials -> Coins] /\ G \in [Serials -> Coins]
    BY CoinTypes, CoinTypesNext DEF CoinsTyped
  <2>5. /\ G[sn].phase = "open" /\ G[sn].value = v /\ G[sn].recipient = w
        /\ G[sn].claim = F[sn].claim /\ G[sn].claimant = F[sn].claimant
        /\ (G[sn].forfeited <=> F[sn].forfeited)
    BY <1>1, <2>2, <2>3, CoinFields, CoinFieldsNext
  <2> HIDE DEF F, G
  <2>6. G = Minted(F, sn, v, w)
    BY <1>0, <2>1, <2>4, <2>5, MintWritten
  <2>7. QED
    BY <2>6 DEF F, G, Minted
<1>4. Coin!Outstanding = supply
  <2> DEFINE vals == [s \in Serials |-> coinOf[s].value]
             open == {s \in Serials : coinOf[s].phase = "open"}
  <2>1. open = OpenCoins
    <3>1. \A s \in Serials : coinOf[s].phase = "open" <=> registry[s].status = "ACTIVE"
      <4>1. \A s \in Serials : coinOf[s].phase = PhaseOf(s)
        BY CoinFields
      <4>2. QED
        BY <4>1 DEF PhaseOf
    <3> HIDE DEF OpenCoins
    <3>2. QED
      BY <3>1 DEF OpenCoins
  <2>2. vals = [s \in Serials |-> registry[s].value]
    BY CoinFields
  <2>3. Coin!Outstanding = SumFunctionOnSet(vals, open)
    <3>1. Coin!Outstanding = Coin!SumFunctionOnSet(vals, open)
      BY DEF Coin!Outstanding
    <3> HIDE DEF vals, open
    <3>2. QED
      BY <3>1, SameSum
  <2> HIDE DEF vals, open
  <2>4. Coin!Outstanding = ValueOf(OpenCoins)
    BY <2>1, <2>2, <2>3 DEF ValueOf
  <2>5. QED
    BY <1>0, <2>4 DEF ClaimsInv, VaultBacksOpenCoins
<1>5. wealthOf' = wealthOf
  BY <1>2, WealthStays
<1>6. coinOf[sn].phase = "none"
  BY <1>1, CoinFields DEF PhaseOf
<1>7. QED
  BY <1>1, <1>2, <1>3, <1>4, <1>5, <1>6 DEF Coin!Mint

\* fund_vault moves tokens of the authority into the reserve.
LEMMA FundShown ==
  ASSUME Seen, Seen', NEW n \in Amounts, FundVault(n)
  PROVE  Coin!Fund(n)
<1>0. TypeOK /\ n \in Int /\ MintAuthority \in Accounts
  BY InputAssumption DEF Seen, Accounts
<1>1. /\ wallet' = [wallet EXCEPT ![MintAuthority] = @ - n] /\ vault' = vault + n
      /\ UNCHANGED <<fees, registry, head, sub, escrow>>
  BY DEF FundVault
<1>2. coinOf' = coinOf
  BY <1>1, NoCoinWritten DEF CoinKept
<1>3. wealthOf' = [wealthOf EXCEPT ![MintAuthority] = @ - n]
  <2>1. \A w \in Accounts : BondsOf(w)' = BondsOf(w)
    BY <1>1 DEF BondsOf, BondsFor, BondIn
  <2>2. \A w \in Accounts : BondsOf(w) \in Nat
    <3>1. ASSUME NEW w \in Accounts, NEW s \in Serials PROVE BondsFor(w)[s] \in Nat
      BY <1>0 DEF BondsFor, BondIn, TypeOK, AccountTypes, Attempts
    <3>2. QED
      BY <3>1, FiniteAssumption, SumNat DEF BondsOf
  <2>3. wallet \in [Accounts -> Int]
    BY <1>0 DEF TypeOK, AccountTypes
  <2> DEFINE f == wealthOf
             g == wealthOf'
  <2>4. \A w \in Accounts : g[w] = f[w] - Share(w, MintAuthority, n)
    <3>1. \A w \in Accounts : wallet'[w] = wallet[w] - Share(w, MintAuthority, n)
      BY <1>0, <1>1, <2>3 DEF Share
    <3>2. \A w \in Accounts : Share(w, MintAuthority, n) \in Int
      BY <1>0 DEF Share
    <3>3. \A w \in Accounts : f[w] = wallet[w] + BondsOf(w) /\ g[w] = wallet'[w] + BondsOf(w)'
      BY DEF wealthOf
    <3> HIDE DEF f, g, BondsOf
    <3>4. QED
      BY <2>1, <2>2, <2>3, <3>1, <3>2, <3>3
  <2>5. f \in [Accounts -> Int] /\ g \in [Accounts -> Int]
    BY <1>0, WealthNat, WealthNatNext DEF WealthTyped, Seen
  <2> HIDE DEF f, g
  <2>6. g = [f EXCEPT ![MintAuthority] = @ - n]
    BY <1>0, <2>4, <2>5 DEF Share
  <2>7. QED
    BY <2>6 DEF f, g
<1>4. QED
  BY <1>1, <1>2, <1>3 DEF Coin!Fund

-----------------------------------------------------------------------------
(* settle: the claim that stands is paid out. *)

\* The bond that an unfinished claim forfeits to a settle.
SweptBond(sn, a, withOther) == IF Sweeps(sn, a, withOther) THEN Bond(sn) ELSE 0

\* What the wallets own after a settle: the final owner has the value, and a bond that
\* is swept is gone.
LEMMA SettleWealth ==
  ASSUME Seen, TypeOK', NEW sn \in Serials, NEW a \in Attempts, NEW withOther \in BOOLEAN,
         NEW withAllowance \in BOOLEAN, Settle(sn, a, withOther, withAllowance),
         NEW w \in Accounts
  PROVE  wealthOf'[w] =
           wealthOf[w] - Share(w, sub[sn][Other(a)].checker, SweptBond(sn, a, withOther))
                       + Share(w, sub[sn][a].final_owner, registry[sn].value)
<1> DEFINE o == Other(a)
           ca == sub[sn][a].checker
           co == sub[sn][o].checker
           fo == sub[sn][a].final_owner
           B == Bond(sn)
           v == registry[sn].value
           k == SweptBond(sn, a, withOther)
           e == escrow[sn][o]
<1>0. TypeOK
  BY DEF Seen
<1>1. /\ sub[sn][a].status = "PENDING"
      /\ Sweeps(sn, a, withOther) => sub[sn][o].status = "RECEIVING"
      /\ KeepChains /\ o \in Attempts /\ o # a
      /\ \A s \in Serials, b \in Attempts :
           escrow'[s][b] = IF s = sn /\ (b = a \/ Sweeps(sn, a, withOther))
                           THEN escrow[s][b] - B ELSE escrow[s][b]
  BY <1>0, SettleEffect, OtherAttempt
<1>2. /\ B \in Nat /\ v \in Nat /\ ca \in Accounts /\ fo \in Accounts
      /\ escrow[sn][a] = B /\ (Sweeps(sn, a, withOther) => e = B)
  BY <1>1, Accounted DEF Open
<1>3. e \in Nat /\ k \in Nat /\ e - k \in Nat /\ escrow'[sn][a] = 0 /\ escrow'[sn][o] = e - k
  <2>1. e \in Nat
    BY <1>0, <1>1 DEF TypeOK, AccountTypes
  <2>2. CASE Sweeps(sn, a, withOther)
    BY <1>1, <1>2, <2>1, <2>2 DEF SweptBond
  <2>3. CASE ~Sweeps(sn, a, withOther)
    BY <1>1, <1>2, <2>1, <2>3 DEF SweptBond
  <2>4. QED
    BY <2>2, <2>3
<1>4. /\ sub'[sn][a].checker = ca /\ sub'[sn][o].checker = co
      /\ BondsStay(sn)
  BY <1>1 DEF KeepChains, BondsStay
<1>5. /\ BondsIn(w, sn) = Share(w, ca, B) + Share(w, co, e)
      /\ BondsIn(w, sn)' = Share(w, ca, 0) + Share(w, co, e - k)
  <2>1. BondsIn(w, sn) = BondIn(w, sn, a) + BondIn(w, sn, o)
    BY <1>0, BondsInNat
  <2>2. BondsIn(w, sn)' = BondIn(w, sn, a)' + BondIn(w, sn, o)'
    BY BondsInNatNext
  <2>3. QED
    BY <1>2, <1>3, <1>4, <2>1, <2>2, BondShare
<1>6. wallet'[w] = wallet[w] + Share(w, fo, v) + Share(w, ca, B)
  <2> DEFINE p == [wallet EXCEPT ![fo] = @ + v]
  <2>1. wallet' = [p EXCEPT ![ca] = @ + B]
    BY DEF Settle
  <2>2. wallet \in [Accounts -> Int]
    BY <1>0 DEF TypeOK, AccountTypes
  <2> HIDE DEF ca, fo, B, v
  <2>3. p \in [Accounts -> Int] /\ p[w] = wallet[w] + Share(w, fo, v)
    BY <1>2, <2>2, Gain
  <2> HIDE DEF p
  <2>4. QED
    BY <1>2, <2>1, <2>3, Gain
<1> DEFINE d == Share(w, fo, v) - Share(w, co, k)
<1>7. wallet[w] \in Nat
  BY <1>0 DEF TypeOK, AccountTypes
<1> HIDE DEF ca, co, fo, B, v, k, e
<1>8. /\ Share(w, ca, B) \in Nat /\ Share(w, fo, v) \in Nat /\ Share(w, co, k) \in Nat
      /\ Share(w, co, e) \in Nat /\ Share(w, ca, 0) = 0
      /\ Share(w, co, e - k) = Share(w, co, e) - Share(w, co, k)
  <2>1. Share(w, co, e - k) = Share(w, co, e) - Share(w, co, k)
    BY <1>3 DEF Share
  <2>2. QED
    BY <1>2, <1>3, <2>1, ShareNat
<1>9. d \in Int /\ Purse(w, sn)' = Purse(w, sn) + d
  BY <1>5, <1>6, <1>7, <1>8 DEF Purse
<1> HIDE DEF d
<1>10. wealthOf'[w] = wealthOf[w] + d /\ wealthOf[w] \in Int
  BY <1>0, <1>4, <1>9, WealthMoves, WealthNat
<1>11. QED
  <2>1. wealthOf'[w] = wealthOf[w] - Share(w, co, k) + Share(w, fo, v)
    BY <1>8, <1>10 DEF d
  <2>2. QED
    BY <2>1 DEF co, fo, v, k, o

\* settle pays the coin and gives back the bond.
LEMMA SettleCoin ==
  ASSUME Seen, Seen', NEW sn \in Serials, NEW a \in Attempts, NEW withOther \in BOOLEAN,
         NEW withAllowance \in BOOLEAN, Settle(sn, a, withOther, withAllowance)
  PROVE  /\ coinOf[sn].phase = "open"
         /\ coinOf[sn].claim # <<>>
         /\ coinOf[sn].claim[Len(coinOf[sn].claim)] = sub[sn][a].final_owner
         /\ Sweeps(sn, a, withOther) =>
              /\ ~coinOf[sn].forfeited
              /\ coinOf' = Swept(coinOf, sn)
         /\ ~Sweeps(sn, a, withOther) => coinOf' = Redeemed(coinOf, sn)
<1> DEFINE F == coinOf
           G == coinOf'
<1>0. TypeOK /\ ClaimsInv
  BY DEF Seen
<1>1. /\ registry[sn].status = "ACTIVE" /\ sub[sn][a].status = "PENDING"
      /\ head[sn].set /\ head[sn].attempt = a
      /\ Sweeps(sn, a, withOther) => sub[sn][Other(a)].status = "RECEIVING"
      /\ KeepChains /\ KeepCoins /\ head' = head
      /\ \A s \in Serials :
           registry'[s].status = IF s = sn THEN "SPENT" ELSE registry[s].status
      /\ \A s \in Serials, b \in Attempts :
           sub'[s][b].status =
             IF s = sn /\ b = a THEN "WON"
             ELSE IF s = sn /\ Sweeps(sn, a, withOther) THEN "REJECTED"
             ELSE sub[s][b].status
  BY <1>0, SettleEffect
<1>2. PhaseOf(sn) = "open" /\ PhaseOf(sn)' = "redeemed"
  BY <1>1 DEF PhaseOf
<1>3. /\ StandingClaim(sn) # <<>>
      /\ StandingClaim(sn)[Len(StandingClaim(sn))] = sub[sn][a].final_owner
  BY <1>1, Standing
<1>4. \A s \in Serials \ {sn} : G[s] = F[s]
  <2>1. \A s \in Serials \ {sn} : CoinKept(s)
    BY <1>0, <1>1 DEF CoinKept, KeepChains, KeepCoins, TypeOK, AccountTypes, Heads
  <2>2. QED
    BY <2>1, CoinStaysSeen
<1>5. StandingClaim(sn)' = StandingClaim(sn) /\ ClaimantOf(sn)' = ClaimantOf(sn)
  BY <1>1 DEF StandingClaim, ClaimantOf, KeepChains
<1>6. F \in [Serials -> Coins] /\ G \in [Serials -> Coins]
  BY CoinTypes, CoinTypesNext DEF CoinsTyped
<1>7. /\ G[sn].phase = "redeemed" /\ G[sn].value = F[sn].value
      /\ G[sn].recipient = F[sn].recipient
      /\ G[sn].claim = F[sn].claim /\ G[sn].claimant = F[sn].claimant
  <2>1. registry'[sn].value = registry[sn].value /\ registry'[sn].recipient = registry[sn].recipient
    BY <1>1 DEF KeepCoins
  <2>2. QED
    BY <1>2, <1>5, <2>1, CoinFields, CoinFieldsNext
<1>8. ASSUME Sweeps(sn, a, withOther)
      PROVE  ~F[sn].forfeited /\ G = Swept(F, sn)
  <2>1. ~Forfeited(sn)
    BY <1>1, <1>8, OtherAttempt DEF Forfeited
  <2>2. Forfeited(sn)'
    BY <1>1, <1>8, OtherAttempt DEF Forfeited
  <2>3. ~F[sn].forfeited /\ G[sn].forfeited
    BY <2>1, <2>2, CoinFields, CoinFieldsNext
  <2> HIDE DEF F, G
  <2>4. G = Swept(F, sn)
    BY <1>4, <1>6, <1>7, <2>3, SweepWritten
  <2>5. QED
    BY <2>3, <2>4
<1>9. ASSUME ~Sweeps(sn, a, withOther)
      PROVE  G = Redeemed(F, sn)
  <2>1. Forfeited(sn)' <=> Forfeited(sn)
    BY <1>1, <1>9 DEF Forfeited
  <2>2. G[sn].forfeited <=> F[sn].forfeited
    BY <2>1, CoinFields, CoinFieldsNext
  <2> HIDE DEF F, G
  <2>3. G = Redeemed(F, sn)
    BY <1>4, <1>6, <1>7, <2>2, RedeemWritten
  <2>4. QED
    BY <2>3
<1>10. QED
  BY <1>2, <1>3, <1>8, <1>9, CoinFields

\* settle redeems the coin.
LEMMA SettleShown ==
  ASSUME Seen, Seen', NEW sn \in Serials, NEW a \in Attempts, NEW withOther \in BOOLEAN,
         NEW withAllowance \in BOOLEAN, Settle(sn, a, withOther, withAllowance)
  PROVE  Coin!Redeem(sn) \/ \E w \in Wallets : Coin!RedeemAndSweep(sn, w)
<1> DEFINE o == Other(a)
           co == sub[sn][o].checker
           fo == sub[sn][a].final_owner
           B == Bond(sn)
           v == registry[sn].value
           f == wealthOf
           g == wealthOf'
           c == coinOf[sn].claim
<1>0. TypeOK /\ TypeOK'
  BY DEF Seen
<1>1. /\ sub[sn][a].status = "PENDING" /\ o \in Attempts
      /\ Sweeps(sn, a, withOther) => sub[sn][o].status = "RECEIVING"
  BY <1>0, SettleEffect, OtherAttempt
<1>2. B \in Nat /\ v \in Nat /\ StakeFor(v) = B /\ fo \in Accounts
  BY <1>1, Accounted
<1>3. \A w \in Accounts :
        g[w] = f[w] - Share(w, co, SweptBond(sn, a, withOther)) + Share(w, fo, v)
  BY <1>0, SettleWealth
<1>4. f \in [Accounts -> Int] /\ g \in [Accounts -> Int]
  BY <1>0, WealthNat, WealthNatNext DEF WealthTyped
<1>5. /\ coinOf[sn].phase = "open" /\ c # <<>> /\ c[Len(c)] = fo /\ coinOf[sn].value = v
  BY SettleCoin, CoinFields
<1>6. vault' = vault - v
  BY DEF Settle
<1>7. CASE Sweeps(sn, a, withOther)
  <2>1. co \in Accounts /\ co \in Wallets
    BY <1>0, <1>1, <1>7, Accounted, StartedSubmission
  <2>2. \A w \in Accounts : g[w] = f[w] - Share(w, co, B) + Share(w, fo, v)
    BY <1>3, <1>7 DEF SweptBond
  <2>3. g = [[f EXCEPT ![co] = @ - B] EXCEPT ![fo] = @ + v]
    <3> DEFINE m == [f EXCEPT ![co] = @ - B]
               h == [m EXCEPT ![fo] = @ + v]
    <3> HIDE DEF co, fo, B, v, f, g
    <3>1. m \in [Accounts -> Int] /\ \A w \in Accounts : m[w] = f[w] - Share(w, co, B)
      BY <1>2, <1>4, <2>1 DEF Share
    <3> HIDE DEF m
    <3>2. h \in [Accounts -> Int] /\ \A w \in Accounts : h[w] = m[w] + Share(w, fo, v)
      BY <1>2, <3>1 DEF Share
    <3> HIDE DEF h
    <3>3. \A w \in Accounts : g[w] = h[w]
      BY <2>2, <3>1, <3>2
    <3>4. g = h
      BY <1>4, <3>2, <3>3, SameWealth
    <3>5. QED
      BY <3>4 DEF m, h
  <2>4. fees' = fees + B
    BY <1>7 DEF Settle
  <2>5. /\ ~coinOf[sn].forfeited
        /\ coinOf' = [coinOf EXCEPT ![sn].phase = "redeemed", ![sn].forfeited = TRUE]
    BY <1>7, SettleCoin DEF Swept
  <2>6. Coin!RedeemAndSweep(sn, co)
    BY <1>2, <1>5, <1>6, <2>3, <2>4, <2>5 DEF Coin!RedeemAndSweep
  <2>7. QED
    BY <2>1, <2>6
<1>8. CASE ~Sweeps(sn, a, withOther)
  <2>1. g = [f EXCEPT ![fo] = @ + v]
    <3>1. \A w \in Accounts : Share(w, co, 0) = 0
      BY DEF Share
    <3>2. \A w \in Accounts : g[w] = f[w] + Share(w, fo, v)
      BY <1>2, <1>3, <1>4, <1>8, <3>1 DEF SweptBond
    <3> HIDE DEF fo, v, f, g
    <3>3. QED
      BY <1>2, <1>4, <3>2 DEF Share
  <2>2. fees' = fees
    BY <1>8 DEF Settle
  <2>3. coinOf' = [coinOf EXCEPT ![sn].phase = "redeemed"]
    BY <1>8, SettleCoin DEF Redeemed
  <2>4. Coin!Redeem(sn)
    BY <1>2, <1>5, <1>6, <2>1, <2>2, <2>3 DEF Coin!Redeem
  <2>5. QED
    BY <2>4
<1>9. QED
  BY <1>7, <1>8

-----------------------------------------------------------------------------
(* The steps the bearer coin does not show. *)

Unseen == coinOf' = coinOf /\ vault' = vault /\ wealthOf' = wealthOf /\ fees' = fees

\* A claim is opened: its bond stays the checker's.
LEMMA StartWealth ==
  ASSUME Seen, TypeOK', NEW sn \in Serials, NEW a \in Attempts, NEW c \in Wallets,
         NEW st \in State, StartCheckIn(sn, a, c, st), NEW w \in Accounts
  PROVE  wealthOf'[w] = wealthOf[w]
<1> DEFINE o == Other(a)
           B == Bond(sn)
           r == BondIn(w, sn, o)
<1>0. TypeOK
  BY DEF Seen
<1>1. /\ escrow[sn][a] = 0 /\ escrow'[sn][a] = B /\ o \in Attempts /\ o # a
      /\ \A s \in Serials, b \in Attempts :
           s # sn \/ b # a => sub'[s][b] = sub[s][b] /\ escrow'[s][b] = escrow[s][b]
  BY <1>0, StartEffect, OtherAttempt
<1>2. B \in Nat /\ c \in Accounts
  BY Accounted DEF Accounts
<1>3. sub'[sn][a].checker = c
  BY <1>0 DEF StartCheckIn, TypeOK, AccountTypes
<1>4. BondsStay(sn)
  BY <1>1 DEF BondsStay
<1>5. /\ BondsIn(w, sn) = r
      /\ BondsIn(w, sn)' = Share(w, c, B) + r
      /\ r \in Nat
  <2>1. BondsIn(w, sn) = BondIn(w, sn, a) + r /\ r \in Nat
    BY <1>0, BondsInNat
  <2>2. BondsIn(w, sn)' = BondIn(w, sn, a)' + BondIn(w, sn, o)'
    BY BondsInNatNext
  <2>3. BondIn(w, sn, o)' = r
    BY <1>1 DEF BondIn
  <2>4. BondIn(w, sn, a) = 0
    BY <1>1 DEF BondIn
  <2>5. BondIn(w, sn, a)' = Share(w, c, B)
    BY <1>1, <1>3, BondShare
  <2>6. QED
    BY <2>1, <2>2, <2>3, <2>4, <2>5
<1>6. wallet'[w] = wallet[w] - Share(w, c, B) /\ wallet[w] \in Nat
  <2>1. wallet' = [wallet EXCEPT ![c] = @ - B] /\ wallet \in [Accounts -> Nat]
    BY <1>0 DEF StartCheckIn, TypeOK, AccountTypes
  <2> HIDE DEF B
  <2>2. QED
    BY <1>2, <2>1 DEF Share
<1> HIDE DEF B, r
<1>7. Share(w, c, B) \in Nat
  BY <1>2, ShareNat
<1>8. Purse(w, sn)' = Purse(w, sn) + 0
  BY <1>5, <1>6, <1>7 DEF Purse
<1>9. wealthOf'[w] = wealthOf[w] + 0 /\ wealthOf[w] \in Int
  BY <1>0, <1>4, <1>8, WealthMoves, WealthNat
<1>10. QED
  BY <1>9

\* start_check_in is not seen: a bond in escrow still counts as its owner's.
LEMMA StartUnseen ==
  ASSUME Seen, Seen', NEW sn \in Serials, NEW a \in Attempts, NEW c \in Wallets,
         NEW st \in State, StartCheckIn(sn, a, c, st)
  PROVE  Unseen
<1>0. TypeOK /\ TypeOK' /\ ClaimsInv
  BY DEF Seen
<1>1. /\ sub[sn][a].status = "NONE" /\ sub'[sn][a].status = "RECEIVING"
      /\ KeepCoins /\ \A s \in Serials : registry'[s].status = registry[s].status
      /\ \A s \in Serials, b \in Attempts : s # sn \/ b # a => sub'[s][b] = sub[s][b]
      /\ head' = head
  BY <1>0, StartEffect
<1>2. \A s \in Serials : CoinKept(s)
  <2>1. ASSUME NEW s \in Serials, head[s].set
        PROVE  head[s].attempt \in Attempts /\ (s # sn \/ head[s].attempt # a)
    BY <1>0, <1>1, <2>1, Standing
  <2>2. \A s \in Serials, b \in Attempts :
          sub'[s][b].status \in {"LOST", "REJECTED"} <=> sub[s][b].status \in {"LOST", "REJECTED"}
    BY <1>1
  <2>3. QED
    BY <1>1, <2>1, <2>2 DEF CoinKept, KeepCoins
<1>3. coinOf' = coinOf
  BY <1>2, NoCoinWritten
<1>4. wealthOf' = wealthOf
  <2> DEFINE f == wealthOf
             g == wealthOf'
  <2>1. \A w \in Accounts : g[w] = f[w]
    BY <1>0, StartWealth
  <2>2. f \in [Accounts -> Int] /\ g \in [Accounts -> Int]
    BY <1>0, WealthNat, WealthNatNext DEF WealthTyped
  <2> HIDE DEF f, g
  <2>3. g = f
    BY <2>1, <2>2
  <2>4. QED
    BY <2>3 DEF f, g
<1>5. vault' = vault /\ fees' = fees
  BY DEF StartCheckIn
<1>6. QED
  BY <1>3, <1>4, <1>5 DEF Unseen

\* A chain grows before it is claimed.
LEMMA AppendUnseen ==
  ASSUME Seen, NEW sn \in Serials, NEW a \in Attempts, NEW links \in LinkBatches,
         NEW x \in Wallets, NEW h, AppendLinks(sn, a, x, links, h)
  PROVE  Unseen
<1>0. TypeOK /\ ClaimsInv
  BY DEF Seen
<1>1. /\ sub[sn][a].status = "RECEIVING" /\ sub'[sn][a].status = "RECEIVING"
      /\ \A s \in Serials, b \in Attempts : s # sn \/ b # a => sub'[s][b] = sub[s][b]
      /\ registry' = registry /\ escrow' = escrow /\ head' = head
  BY <1>0, AppendEffect
<1>2. \A s \in Serials : CoinKept(s)
  <2>1. ASSUME NEW s \in Serials, head[s].set
        PROVE  head[s].attempt \in Attempts /\ (s # sn \/ head[s].attempt # a)
    BY <1>1, <2>1, Standing
  <2>2. \A s \in Serials, b \in Attempts :
          sub'[s][b].status \in {"LOST", "REJECTED"} <=> sub[s][b].status \in {"LOST", "REJECTED"}
    BY <1>1
  <2>3. QED
    BY <1>1, <2>1, <2>2 DEF CoinKept
<1>3. coinOf' = coinOf
  BY <1>2, NoCoinWritten
<1>4. sub'[sn][a].checker = sub[sn][a].checker
  <2>1. sub[sn][a] \in Submissions
    BY <1>0 DEF TypeOK, AccountTypes
  <2>2. QED
    BY <1>0, <2>1 DEF AppendLinks, TypeOK, AccountTypes, Submissions
<1>5. wealthOf' = wealthOf
  BY <1>1, <1>4, WealthStays DEF AppendLinks
<1>6. QED
  BY <1>3, <1>5 DEF AppendLinks, Unseen

\* A slot passes, a cap is set, or nothing happens.
LEMMA QuietUnseen ==
  ASSUME Seen,
         \/ \E w \in Wallets, cap \in Caps : SetAllowance(w, cap)
         \/ Tick
         \/ UNCHANGED vars
  PROVE  Unseen
<1>1. registry' = registry /\ sub' = sub /\ escrow' = escrow /\ KeepHeads
  BY QuietEffect DEF Seen
<1>2. vault' = vault /\ fees' = fees /\ wallet' = wallet
  BY DEF SetAllowance, Tick, vars
<1>3. coinOf' = coinOf
  BY <1>1, NoCoinWritten DEF CoinKept, KeepHeads
<1>4. wealthOf' = wealthOf
  BY <1>1, <1>2, WealthStays
<1>5. QED
  BY <1>2, <1>3, <1>4 DEF Unseen

-----------------------------------------------------------------------------
(* The program implements the bearer coin. *)

\* At the start there are no coins to be seen.
LEMMA CoinInit == Init => Coin!Init
<1> SUFFICES ASSUME Init PROVE Coin!Init
  OBVIOUS
<1>1. \A s \in Serials : coinOf[s].phase = "none" /\ coinOf[s].claim = <<>> /\ ~coinOf[s].forfeited
  BY DEF coinOf, Init, NoCoin, NoHead, NoSub, Attempts, StandingClaim
<1>2. QED
  BY <1>1 DEF Init, Coin!Init

\* Every instruction is a step of the bearer coin or none.
LEMMA CoinStep ==
  ASSUME Seen, Seen', [Next]_vars
  PROVE  [Coin!Next]_(Coin!coinVars)
<1>1. ASSUME Unseen PROVE UNCHANGED Coin!coinVars
  BY <1>1 DEF Unseen, Coin!coinVars
<1>2. CASE \/ \E w \in Wallets, cap \in Caps : SetAllowance(w, cap)
           \/ Tick
           \/ UNCHANGED vars
  BY <1>1, <1>2, QuietUnseen
<1>3. ASSUME NEW n \in Amounts, FundVault(n) PROVE Coin!Next
  BY <1>3, FundShown DEF Coin!Next
<1>4. ASSUME NEW sn \in Serials, NEW v \in Values, NEW w \in Wallets, MintCoin(sn, v, w)
      PROVE  Coin!Next
  BY <1>4, MintShown DEF Coin!Next
<1>5. ASSUME NEW sn \in Serials, NEW a \in Attempts, NEW c \in Wallets, NEW v \in Values,
             NEW w \in Wallets, StartCheckIn(sn, a, c, GenesisState(sn, v, w))
      PROVE  UNCHANGED Coin!coinVars
  BY <1>1, <1>5, StartUnseen, GenesisType
<1>6. ASSUME NEW sn \in Serials, NEW a \in Attempts, NEW links \in LinkBatches,
             NEW w \in Wallets, NEW h, AppendLinks(sn, a, w, links, h)
      PROVE  UNCHANGED Coin!coinVars
  BY <1>1, <1>6, AppendUnseen
<1>7. ASSUME NEW sn \in Serials, NEW a \in Attempts, FinalizeCheckIn(sn, a)
      PROVE  Coin!Next
  <2>1. CASE FinRejectSpent(sn, a)
    <3>1. \E w \in Wallets : Coin!TooLate(sn, w)
      BY <2>1, RejectShown
    <3>2. QED
      BY <3>1 DEF Coin!Next
  <2>2. CASE FinSetHead(sn, a)
    <3>1. \E c \in ClaimSeqs, w \in Wallets : Coin!Claim(sn, c, w)
      BY <2>2, SetHeadShown
    <3>2. QED
      BY <3>1 DEF Coin!Next
  <2>3. CASE FinResolveWin(sn, a)
    <3>1. \E c \in ClaimSeqs, w \in Wallets : Coin!Displace(sn, c, w)
      BY <2>3, WinShown
    <3>2. QED
      BY <3>1 DEF Coin!Next
  <2>4. CASE FinResolveLose(sn, a)
    <3>1. \E w \in Wallets : Coin!FallShort(sn, w)
      BY <2>4, LoseShown
    <3>2. QED
      BY <3>1 DEF Coin!Next
  <2>5. QED
    BY <1>7, <2>1, <2>2, <2>3, <2>4 DEF FinalizeCheckIn
<1>8. ASSUME NEW sn \in Serials, NEW a \in Attempts, NEW withOther \in BOOLEAN,
             NEW withAllowance \in BOOLEAN, Settle(sn, a, withOther, withAllowance)
      PROVE  Coin!Next
  <2>1. Coin!Redeem(sn) \/ \E w \in Wallets : Coin!RedeemAndSweep(sn, w)
    BY <1>8, SettleShown
  <2>2. QED
    BY <2>1 DEF Coin!Next
<1>9. QED
  BY <1>2, <1>3, <1>4, <1>5, <1>6, <1>7, <1>8 DEF Next

\* The mapping's view of the states holds in all of them.
LEMMA SeenHolds == Spec => []Seen
<1>1. Init => TypeOK /\ ClaimsInv /\ OwnersMatch
  <2>1. Init => OwnersMatch
    BY DEF Init, NoSub, OwnersMatch
  <2>2. QED
    BY <2>1, InitTypes, ClaimsInvHolds
<1>2. TypeOK /\ ClaimsInv /\ OwnersMatch /\ [Next]_vars
        => TypeOK' /\ ClaimsInv' /\ OwnersMatch'
  BY TypeStep, ClaimsInvHolds, OwnersStep
<1>3. QED
  BY <1>1, <1>2, PTL DEF Spec, Seen

\* obp-core implements the bearer coin: for every number of coins, wallets and
\* values and every order of mints, starts, appends, finalizes and settles, each
\* coin is redeemed at most once, to the last owner of the first claim or of a
\* strictly longer one, and at most one bond per coin changes hands.
THEOREM ImplementsCoin == Spec => CoinSpec
<1>1. Init => Coin!Init
  BY CoinInit
<1>2. Seen /\ Seen' /\ [Next]_vars => [Coin!Next]_(Coin!coinVars)
  BY CoinStep
<1>3. QED
  BY <1>1, <1>2, SeenHolds, PTL DEF Spec, CoinSpec, Coin!Spec
=============================================================================
