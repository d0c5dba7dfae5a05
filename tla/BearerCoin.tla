----------------------------- MODULE BearerCoin -----------------------------
(***************************************************************************)
(* What the program promises, without submissions, escrows, slots or       *)
(* hashes: a coin is minted against the reserve, claimed, and redeemed     *)
(* once, to the last owner of the standing claim.  The standing claim is   *)
(* the first one, unless a strictly longer one displaces it, which redeems *)
(* the coin at once.  A claim costs nothing unless it is beaten or         *)
(* abandoned, and over the life of a coin that happens to one claim only.  *)
(* The reserve goes down by redeeming coins only.                          *)
(*                                                                         *)
(* wealth is what belongs to an account: its tokens and the stakes it has  *)
(* locked.  Locking and unlocking a stake are therefore no steps here.     *)
(***************************************************************************)
EXTENDS Integers, Sequences, Functions

CONSTANTS Serials, Wallets, MintAuthority, Values, Amounts,
          Stake(_),   \* the stake of a claim on a coin of a given value
          Claims      \* ownership chains, as sequences of owners

VARIABLES coin, reserve, wealth, fees

coinVars == <<coin, reserve, wealth, fees>>

Outstanding ==
  SumFunctionOnSet([s \in Serials |-> coin[s].value],
                   {s \in Serials : coin[s].phase = "open"})

Move(f, from, to, n) == [[f EXCEPT ![from] = @ - n] EXCEPT ![to] = @ + n]

Init ==
  /\ \A s \in Serials :
       coin[s].phase = "none" /\ coin[s].claim = <<>> /\ ~coin[s].forfeited
  /\ reserve = 0 /\ fees = 0

Fund(n) ==
  /\ wealth' = [wealth EXCEPT ![MintAuthority] = @ - n]
  /\ reserve' = reserve + n
  /\ UNCHANGED <<coin, fees>>

Mint(s, v, r) ==
  /\ coin[s].phase = "none"
  /\ reserve >= Outstanding + v
  /\ coin' = [coin EXCEPT ![s].phase = "open", ![s].value = v, ![s].recipient = r]
  /\ UNCHANGED <<reserve, wealth, fees>>

\* The first complete claim stands.
Claim(s, c, w) ==
  /\ coin[s].phase = "open"
  /\ coin[s].claim = <<>>
  /\ c[1] = coin[s].recipient
  /\ coin' = [coin EXCEPT ![s].claim = c, ![s].claimant = w]
  /\ UNCHANGED <<reserve, wealth, fees>>

\* A strictly longer claim displaces it, takes its stake and is paid.
Displace(s, c, w) ==
  LET v == coin[s].value IN
  /\ coin[s].phase = "open"
  /\ coin[s].claim # <<>>
  /\ ~coin[s].forfeited
  /\ c[1] = coin[s].recipient
  /\ Len(c) > Len(coin[s].claim)
  /\ coin' = [coin EXCEPT ![s].phase = "redeemed", ![s].claim = c,
                          ![s].claimant = w, ![s].forfeited = TRUE]
  /\ reserve' = reserve - v
  /\ wealth' = [Move(wealth, coin[s].claimant, w, Stake(v))
                 EXCEPT ![c[Len(c)]] = @ + v]
  /\ UNCHANGED fees

\* Another claim falls short: its stake goes to the standing claimant.
FallShort(s, loser) ==
  /\ coin[s].phase = "open"
  /\ coin[s].claim # <<>>
  /\ ~coin[s].forfeited
  /\ coin' = [coin EXCEPT ![s].forfeited = TRUE]
  /\ wealth' = Move(wealth, loser, coin[s].claimant, Stake(coin[s].value))
  /\ UNCHANGED <<reserve, fees>>

\* The standing claim is paid out.
Redeem(s) ==
  LET c == coin[s].claim IN
  /\ coin[s].phase = "open"
  /\ c # <<>>
  /\ coin' = [coin EXCEPT ![s].phase = "redeemed"]
  /\ reserve' = reserve - coin[s].value
  /\ wealth' = [wealth EXCEPT ![c[Len(c)]] = @ + coin[s].value]
  /\ UNCHANGED fees

\* The standing claim is paid out and an unfinished one forfeits its stake.
RedeemAndSweep(s, loser) ==
  LET c == coin[s].claim
      k == Stake(coin[s].value)
  IN
  /\ coin[s].phase = "open"
  /\ c # <<>>
  /\ ~coin[s].forfeited
  /\ coin' = [coin EXCEPT ![s].phase = "redeemed", ![s].forfeited = TRUE]
  /\ reserve' = reserve - coin[s].value
  /\ wealth' = [[wealth EXCEPT ![loser] = @ - k]
                 EXCEPT ![c[Len(c)]] = @ + coin[s].value]
  /\ fees' = fees + k

\* A claim completed after the coin was redeemed forfeits its stake.
TooLate(s, loser) ==
  LET k == Stake(coin[s].value) IN
  /\ coin[s].phase = "redeemed"
  /\ ~coin[s].forfeited
  /\ coin' = [coin EXCEPT ![s].forfeited = TRUE]
  /\ wealth' = [wealth EXCEPT ![loser] = @ - k]
  /\ fees' = fees + k
  /\ UNCHANGED reserve

Next ==
  \/ \E n \in Amounts : Fund(n)
  \/ \E s \in Serials :
       \/ \E v \in Values, r \in Wallets : Mint(s, v, r)
       \/ \E c \in Claims, w \in Wallets : Claim(s, c, w) \/ Displace(s, c, w)
       \/ \E w \in Wallets : FallShort(s, w) \/ RedeemAndSweep(s, w) \/ TooLate(s, w)
       \/ Redeem(s)

Spec == Init /\ [][Next]_coinVars
=============================================================================
