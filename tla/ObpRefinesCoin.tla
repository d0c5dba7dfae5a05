--------------------------- MODULE ObpRefinesCoin ---------------------------
(***************************************************************************)
(* obp-core implements BearerCoin: the head of a coin is its standing      *)
(* claim, the vault its reserve, and an account owns its balance and the   *)
(* bonds it has in escrow.                                                 *)
(***************************************************************************)
EXTENDS ObpCore

OwnersOf(states) == [i \in DOMAIN states |-> states[i].owner]

StandingClaim(sn) ==
  IF head[sn].set THEN OwnersOf(sub[sn][head[sn].attempt].states) ELSE <<>>

coinOf == [sn \in Serials |->
  [phase |-> IF registry[sn].status = "NONE" THEN "none"
             ELSE IF registry[sn].status = "ACTIVE" THEN "open" ELSE "redeemed",
   value |-> registry[sn].value,
   recipient |-> registry[sn].recipient,
   claim |-> StandingClaim(sn),
   claimant |-> IF head[sn].set THEN sub[sn][head[sn].attempt].checker ELSE NoWallet,
   forfeited |-> \E a \in Attempts : sub[sn][a].status \in {"LOST", "REJECTED"}]]

\* The bonds that a wallet has in escrow: those of the submissions it checks in.
BondIn(w, sn, a) == IF sub[sn][a].checker = w THEN escrow[sn][a] ELSE 0
BondsFor(w) == [sn \in Serials |-> BondIn(w, sn, 0) + BondIn(w, sn, 1)]
BondsOf(w) == SumFunctionOnSet(BondsFor(w), Serials)

wealthOf == [w \in Accounts |-> wallet[w] + BondsOf(w)]

StakeFor(v) == BondAmount(v, BondBps)

ClaimSeqs == UNION {[1..n -> Wallets] : n \in 1..MaxSubmissionStates}

Coin == INSTANCE BearerCoin WITH
  coin <- coinOf, reserve <- vault, wealth <- wealthOf, fees <- fees,
  Stake <- StakeFor, Claims <- ClaimSeqs

\* Every behaviour of the program is, seen through the mapping, a behaviour of
\* the bearer coin: whatever the order of starts, appends, finalizes and settles,
\* each coin is redeemed at most once, to the end of the first or of a strictly
\* longer claim, and at most one bond per coin changes hands.
CoinSpec == Coin!Spec
=============================================================================
