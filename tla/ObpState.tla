------------------------------ MODULE ObpState ------------------------------
(***************************************************************************)
(* The data of the offline bearer protocol: the states of a coin's local   *)
(* ownership chain and the pure functions the on-chain program applies to  *)
(* them (state.rs, and the helpers at the top of checkin.rs).              *)
(*                                                                         *)
(* A state is serial, value, owner and prev_state_hash.  sha256 is         *)
(* abstracted to what the program relies on, that it has no collisions:    *)
(* the hash of a state is its whole history, the sequence of the           *)
(* (serial, value, owner) cores up to it.  The zero hash is <<>>.          *)
(***************************************************************************)
EXTENDS Integers, Sequences

CONSTANTS Serials,   \* serial numbers of coins
          Wallets,   \* public keys that own coins or check them in
          Values,    \* the values a mint or a chain may name
          U64Max     \* the largest u64

ASSUME DataAssumption == /\ Values \subseteq 0..U64Max
                         /\ U64Max \in Nat \ {0}

MaxSubmissionStates == 4   \* MAX_SUBMISSION_STATES, state_0 included

Core == [serial : Serials, value : Values, owner : Wallets]
Hash == Seq(Core)
ZeroHash == <<>>
State == [serial : Serials, value : Values, owner : Wallets, prev : Hash]

StateHash(s) ==
  Append(s.prev, [serial |-> s.serial, value |-> s.value, owner |-> s.owner])

GenesisState(sn, v, w) ==
  [serial |-> sn, value |-> v, owner |-> w, prev |-> ZeroHash]

NextState(s, w) == [s EXCEPT !.owner = w, !.prev = StateHash(s)]

\* states[i] is a well-formed successor of p for the coin (sn, v).
Follows(s, p, sn, v) ==
  /\ s.serial = sn
  /\ s.value = v
  /\ s.prev = StateHash(p)

\* verify_full_chain: anchored at the registry's genesis hash and unbroken.
FullChain(states, sn, v, genesis) ==
  /\ Len(states) >= 1
  /\ StateHash(states[1]) = genesis
  /\ \A i \in 2..Len(states) : Follows(states[i], states[i-1], sn, v)

\* Bond = value * bps / 10000, integer division; the product must fit a u64.
BondFits(v, bps) == v * bps <= U64Max
BondAmount(v, bps) == (v * bps) \div 10000

\* Casus B of finalize: does the chain `states` beat the head (hs, hlen)?
\* The first position of the head state in the chain decides, else the length.
HeadAt(states, hs) == {i \in DOMAIN states : states[i] = hs}

\* Mutant: a fork as long as the head wins.
MutTieWins(states, hs, hlen) ==
  LET found == HeadAt(states, hs) IN
  \/ \E d \in found : (\A e \in found : d <= e) /\ d < Len(states)
  \/ found = {} /\ Len(states) >= hlen

\* Mutant: any fork wins.
MutForkWins(states, hs, hlen) ==
  LET found == HeadAt(states, hs) IN
  \/ \E d \in found : (\A e \in found : d <= e) /\ d < Len(states)
  \/ found = {}

IWin(states, hs, hlen) ==
  LET found == HeadAt(states, hs) IN
  \/ \E d \in found : (\A e \in found : d <= e) /\ d < Len(states)
  \/ found = {} /\ Len(states) > hlen
=============================================================================
