-------------------------------- MODULE Coins_proofs --------------------------------
(***************************************************************************)
(* A coin outside the program: its chain of owners (CoinChain) and the     *)
(* file it rests in (CoinFile).                                            *)
(*                                                                         *)
(* The chain, for any number of owners, coins and copies and chains of any *)
(* length: every signature in circulation was made by its signer for the   *)
(* state it is over, so that a chain that verifies has been handed on by   *)
(* its owners, and what verifies also checks in as far as a submission has *)
(* room.                                                                   *)
(*                                                                         *)
(* The file, for chains of every length, every key and any number of       *)
(* faults of the medium: it gives back the coin that was written or an     *)
(* error, and one that nothing happened to always opens.  Faults never     *)
(* make a checksum or a tag, they spoil it: the checksum of a core is that *)
(* of the core that was written or none, and the tag of a wrapper is the   *)
(* one that was written or none, however many faults there were and        *)
(* whatever else they changed.                                             *)
(***************************************************************************)
EXTENDS CoinChain, CoinFile, FiniteSetTheorems, TLAPS

-----------------------------------------------------------------------------
(* States and hashes. *)

\* The hash of a state is a hash.
LEMMA HashType ==
  ASSUME NEW x \in State
  PROVE  StateHash(x) \in Hash
BY DEF State, StateHash, Hash, Core

\* Different states have different hashes.
LEMMA HashInjective ==
  ASSUME NEW x \in State, NEW y \in State, StateHash(x) = StateHash(y)
  PROVE  x = y
<1> DEFINE core(z) == [serial |-> z.serial, value |-> z.value, owner |-> z.owner]
<1>1. core(x) \in Core /\ core(y) \in Core /\ x.prev \in Seq(Core) /\ y.prev \in Seq(Core)
  BY DEF State, Core, Hash
<1>2. Append(x.prev, core(x)) = Append(y.prev, core(y))
  BY DEF StateHash
<1> HIDE DEF core
<1>3. x.prev = y.prev /\ core(x) = core(y)
  BY <1>1, <1>2
<1>4. QED
  BY <1>3 DEF core, State

\* Genesis states and successors are states.
LEMMA NewStates ==
  /\ \A sn \in Serials, v \in Values, w \in Wallets : GenesisState(sn, v, w) \in State
  /\ \A x \in State, w \in Wallets : NextState(x, w) \in State
<1>1. ASSUME NEW sn \in Serials, NEW v \in Values, NEW w \in Wallets
      PROVE  GenesisState(sn, v, w) \in State
  <2>1. ZeroHash \in Hash
    BY DEF ZeroHash, Hash
  <2>2. QED
    BY <2>1 DEF GenesisState, State
<1>2. ASSUME NEW x \in State, NEW w \in Wallets PROVE NextState(x, w) \in State
  BY HashType DEF NextState, State
<1>3. QED
  BY <1>1, <1>2

\* A signature is one, of its signer and over its message.
LEMMA SignType ==
  ASSUME NEW w \in Wallets, NEW s \in 0..1, NEW h \in Hash
  PROVE  /\ Sign(w, s, h) \in Sigs
         /\ Sign(w, s, h).by = w /\ Sign(w, s, h).msg = h
BY DEF Sign, SigLen, Sigs

\* The fields of a copy.
LEMMA CoinFields ==
  ASSUME NEW c \in Coin
  PROVE  /\ c.states \in Seq(State) /\ c.sigs \in Seq(Sigs) /\ c.scheme \in 0..1
         /\ Len(c.states) \in Nat /\ Len(c.sigs) \in Nat
         /\ c.states # <<>> => /\ Len(c.states) >= 1 /\ LastOf(c) \in State
                               /\ CurrentOwner(c) \in Wallets
<1>1. c.states \in Seq(State) /\ c.sigs \in Seq(Sigs) /\ c.scheme \in 0..1
  BY DEF Coin
<1>2. c.states # <<>> => Len(c.states) >= 1 /\ LastOf(c) \in State
  BY <1>1 DEF LastOf
<1>3. QED
  BY <1>1, <1>2 DEF CurrentOwner, State

\* A transfer appends one state and one signature.
LEMMA AppendLinkEffect ==
  ASSUME NEW c \in Coin, c.states # <<>>, NEW signer \in Wallets, NEW to \in Wallets
  PROVE  LET d == AppendLink(c, signer, to)
             x == NextState(LastOf(c), to)
             sig == Sign(signer, c.scheme, StateHash(x))
         IN  /\ d \in Coin /\ x \in State /\ sig \in Sigs /\ LastOf(d) = x
             /\ d.serial = c.serial /\ d.value = c.value /\ d.scheme = c.scheme
             /\ d.states = Append(c.states, x) /\ d.sigs = Append(c.sigs, sig)
<1> DEFINE d == AppendLink(c, signer, to)
           x == NextState(LastOf(c), to)
           sig == Sign(signer, c.scheme, StateHash(x))
<1>1. x \in State /\ sig \in Sigs
  BY CoinFields, NewStates, HashType, SignType
<1>2. d = [c EXCEPT !.states = Append(@, x), !.sigs = Append(@, sig)]
  BY DEF AppendLink
<1> HIDE DEF x, sig, d
<1>3. Append(c.states, x) \in Seq(State) /\ Append(c.sigs, sig) \in Seq(Sigs)
  BY <1>1, CoinFields
<1>4. /\ d \in Coin /\ d.serial = c.serial /\ d.value = c.value /\ d.scheme = c.scheme
      /\ d.states = Append(c.states, x) /\ d.sigs = Append(c.sigs, sig)
  BY <1>2, <1>3 DEF Coin
<1>5. LastOf(d) = x
  BY <1>1, <1>4, CoinFields DEF LastOf
<1>6. QED
  BY <1>1, <1>4, <1>5 DEF d, x, sig

\* Every state but the first comes with a signature.
Aligned(c) == c.states # <<>> => Len(c.sigs) = Len(c.states) - 1

\* A copy that is well formed and only has signatures that are around.
Genuine(d) ==
  d \in Coin /\ Aligned(d) /\ \A j \in DOMAIN d.sigs : d.sigs[j] \in SigsAround

\* The signatures in circulation are those of the copies.
LEMMA AroundTypes ==
  ASSUME TypeOK
  PROVE  /\ SigsAround \subseteq Sigs
         /\ \A c \in coins : \A j \in DOMAIN c.sigs : c.sigs[j] \in SigsAround
<1>1. ASSUME NEW e \in coins, NEW j \in DOMAIN e.sigs PROVE e.sigs[j] \in Sigs
  <2>1. e \in Coin
    BY DEF TypeOK
  <2>2. e.sigs \in Seq(Sigs)
    BY <2>1, CoinFields
  <2>3. QED
    BY <2>2
<1>2. QED
  BY <1>1 DEF SigsAround

\* What tampering yields is well formed, with signatures that were around.
LEMMA TamperEffect ==
  ASSUME TypeOK, NEW c \in coins, Aligned(c), Tamper(c)
  PROVE  \E d : Put(d) /\ Genuine(d)
<1>0. /\ c \in Coin /\ c.states \in Seq(State) /\ c.sigs \in Seq(Sigs)
      /\ Len(c.states) \in Nat \ {0} /\ Len(c.sigs) = Len(c.states) - 1
      /\ \A j \in DOMAIN c.sigs : c.sigs[j] \in SigsAround
  <2>1. c \in Coin /\ c.states # <<>>
    BY DEF TypeOK, Tamper
  <2>2. QED
    BY <2>1, CoinFields, AroundTypes DEF Aligned, Genuine
<1>2. ASSUME NEW i \in DOMAIN c.states, NEW w \in Wallets, NEW d, d = [c EXCEPT !.states[i].owner = w]
      PROVE  Genuine(d)
  <2> DEFINE x == [c.states[i] EXCEPT !.owner = w]
             states == [c.states EXCEPT ![i] = x]
  <2>1. c.states[i] \in State
    BY <1>0
  <2>2. x \in State
    BY <2>1 DEF State
  <2>3. d = [c EXCEPT !.states = states]
    BY <1>0, <1>2
  <2> HIDE DEF x
  <2>4. states \in Seq(State) /\ Len(states) = Len(c.states)
    BY <1>0, <2>2
  <2> HIDE DEF states
  <2>5. d \in Coin /\ d.states = states /\ d.sigs = c.sigs
    BY <1>0, <2>3, <2>4 DEF Coin
  <2>6. QED
    BY <1>0, <2>4, <2>5 DEF Aligned, Genuine
<1>3. ASSUME NEW i \in DOMAIN c.states, NEW v \in Values, NEW d, d = [c EXCEPT !.states[i].value = v]
      PROVE  Genuine(d)
  <2> DEFINE x == [c.states[i] EXCEPT !.value = v]
             states == [c.states EXCEPT ![i] = x]
  <2>1. c.states[i] \in State
    BY <1>0
  <2>2. x \in State
    BY <2>1 DEF State
  <2>3. d = [c EXCEPT !.states = states]
    BY <1>0, <1>3
  <2> HIDE DEF x
  <2>4. states \in Seq(State) /\ Len(states) = Len(c.states)
    BY <1>0, <2>2
  <2> HIDE DEF states
  <2>5. d \in Coin /\ d.states = states /\ d.sigs = c.sigs
    BY <1>0, <2>3, <2>4 DEF Coin
  <2>6. QED
    BY <1>0, <2>4, <2>5 DEF Aligned, Genuine
<1>4. ASSUME NEW v \in Values, NEW d, d = [c EXCEPT !.value = v]
      PROVE  Genuine(d)
  BY <1>0, <1>4 DEF Coin, Aligned, Genuine
<1>5. ASSUME NEW i \in DOMAIN c.sigs, NEW s \in SigsAround, NEW d, d = [c EXCEPT !.sigs[i] = s]
      PROVE  Genuine(d)
  <2>1. s \in Sigs
    BY AroundTypes
  <2>2. [c.sigs EXCEPT ![i] = s] \in Seq(Sigs)
    BY <1>0, <2>1
  <2>3. d = [c EXCEPT !.sigs = [c.sigs EXCEPT ![i] = s]]
    BY <1>0, <1>5
  <2>4. d \in Coin /\ d.sigs = [c.sigs EXCEPT ![i] = s]
    BY <1>0, <2>2, <2>3 DEF Coin
  <2>5. \A j \in DOMAIN d.sigs : d.sigs[j] \in SigsAround
    BY <1>0, <2>4
  <2>6. Len(d.sigs) = Len(c.sigs) /\ d.states = c.states
    BY <1>0, <2>3, <2>4 DEF Coin
  <2>7. QED
    BY <1>0, <2>4, <2>5, <2>6 DEF Aligned, Genuine
<1>6. ASSUME NEW n \in DOMAIN c.states,
             NEW d, d = [c EXCEPT !.states = SubSeq(@, 1, n), !.sigs = SubSeq(@, 1, n - 1)]
      PROVE  Genuine(d)
  <2> DEFINE states == SubSeq(c.states, 1, n)
             sigs == SubSeq(c.sigs, 1, n - 1)
  <2>1. states \in Seq(State) /\ Len(states) = n
    BY <1>0
  <2>2. /\ sigs \in Seq(Sigs) /\ Len(sigs) = n - 1
        /\ \A j \in 1..(n - 1) : sigs[j] = c.sigs[j]
    BY <1>0
  <2>3. \A j \in DOMAIN sigs : sigs[j] \in SigsAround
    BY <1>0, <2>2
  <2>4. d = [c EXCEPT !.states = states, !.sigs = sigs]
    BY <1>6
  <2> HIDE DEF states, sigs
  <2>5. d \in Coin /\ d.states = states /\ d.sigs = sigs
    BY <1>0, <2>1, <2>2, <2>4 DEF Coin
  <2>6. QED
    BY <2>1, <2>2, <2>3, <2>5 DEF Aligned, Genuine
<1>7. ASSUME NEW d, d = [c EXCEPT !.states = Tail(@), !.sigs = IF @ = <<>> THEN @ ELSE Tail(@)]
      PROVE  Genuine(d)
  <2> DEFINE states == Tail(c.states)
             sigs == IF c.sigs = <<>> THEN c.sigs ELSE Tail(c.sigs)
  <2>1. states \in Seq(State) /\ Len(states) = Len(c.states) - 1
    BY <1>0
  <2>2. /\ sigs \in Seq(Sigs) /\ \A j \in DOMAIN sigs : sigs[j] \in SigsAround
        /\ states # <<>> => Len(sigs) = Len(c.sigs) - 1
    <3>1. CASE c.sigs = <<>>
      <4>1. Len(c.sigs) = 0
        BY <3>1
      <4>2. Len(states) = 0
        BY <1>0, <2>1, <4>1
      <4> HIDE DEF states
      <4>3. states = <<>>
        BY <2>1, <4>2
      <4>4. QED
        BY <1>0, <3>1, <4>3
    <3>2. CASE c.sigs # <<>>
      <4>1. /\ Tail(c.sigs) \in Seq(Sigs) /\ Len(Tail(c.sigs)) = Len(c.sigs) - 1
            /\ \A j \in 1..(Len(c.sigs) - 1) : Tail(c.sigs)[j] = c.sigs[j + 1]
        BY <1>0, <3>2
      <4>2. \A j \in DOMAIN Tail(c.sigs) : Tail(c.sigs)[j] \in SigsAround
        <5>1. \A j \in 1..(Len(c.sigs) - 1) : j + 1 \in DOMAIN c.sigs
          BY <1>0, <3>2
        <5>2. DOMAIN Tail(c.sigs) = 1..(Len(c.sigs) - 1)
          BY <4>1
        <5>3. QED
          BY <1>0, <4>1, <5>1, <5>2
      <4>3. QED
        BY <3>2, <4>1, <4>2
    <3>3. QED
      BY <3>1, <3>2
  <2>3. d = [c EXCEPT !.states = states, !.sigs = sigs]
    BY <1>7
  <2> HIDE DEF states, sigs
  <2>4. d \in Coin /\ d.states = states /\ d.sigs = sigs
    BY <1>0, <2>1, <2>2, <2>3 DEF Coin
  <2>5. QED
    BY <1>0, <2>1, <2>2, <2>4 DEF Aligned, Genuine
<1>8. ASSUME NEW s \in Schemes, NEW d, d = [c EXCEPT !.scheme = s]
      PROVE  Genuine(d)
  BY <1>0, <1>8, ChainAssumption DEF Coin, Aligned, Genuine
<1>9. \E d : /\ Put(d)
             /\ \/ \E i \in DOMAIN c.states, w \in Wallets : d = [c EXCEPT !.states[i].owner = w]
                \/ \E i \in DOMAIN c.states, v \in Values : d = [c EXCEPT !.states[i].value = v]
                \/ \E v \in Values : d = [c EXCEPT !.value = v]
                \/ \E i \in DOMAIN c.sigs, s \in SigsAround : d = [c EXCEPT !.sigs[i] = s]
                \/ \E n \in DOMAIN c.states :
                     d = [c EXCEPT !.states = SubSeq(@, 1, n), !.sigs = SubSeq(@, 1, n - 1)]
                \/ d = [c EXCEPT !.states = Tail(@), !.sigs = IF @ = <<>> THEN @ ELSE Tail(@)]
                \/ \E s \in Schemes : d = [c EXCEPT !.scheme = s]
  BY Zenon DEF Tamper
<1>10. QED
  BY <1>2, <1>3, <1>4, <1>5, <1>6, <1>7, <1>8, <1>9, Zenon

-----------------------------------------------------------------------------
(* What is around has been signed. *)

\* The inductive invariant: a signature that is around was made by its signer.
Signed == \A c \in coins : \A j \in DOMAIN c.sigs : <<c.sigs[j].by, c.sigs[j].msg>> \in handed

Inv == TypeOK /\ Signed /\ \A c \in coins : Aligned(c)

\* A copy that comes in keeps Inv if its signatures are around or just made.
LEMMA PutStep ==
  ASSUME Inv, NEW d \in Coin, Put(d), Aligned(d), handed \subseteq handed',
         handed' \subseteq Wallets \X Hash, genesis' \in [Serials -> Hash],
         \A j \in DOMAIN d.sigs : <<d.sigs[j].by, d.sigs[j].msg>> \in handed'
  PROVE  Inv'
<1>1. coins' = coins \cup {d}
  BY DEF Put
<1>2. TypeOK'
  BY <1>1 DEF Inv, TypeOK
<1>3. Signed'
  BY <1>1 DEF Inv, Signed
<1>4. \A c \in coins' : Aligned(c)
  BY <1>1 DEF Inv
<1>5. QED
  BY <1>2, <1>3, <1>4 DEF Inv, Aligned

\* The invariant of the circulation holds at the start.
LEMMA InvInit == Init => Inv
<1>1. ZeroHash \in Hash
  BY DEF ZeroHash, Hash
<1>2. QED
  BY <1>1 DEF Init, Inv, TypeOK, Signed

\* Every step keeps it.
LEMMA InvStep == Inv /\ [Next]_chainVars => Inv'
<1> SUFFICES ASSUME Inv, [Next]_chainVars PROVE Inv'
  OBVIOUS
<1>0. TypeOK /\ Signed
  BY DEF Inv
<1>1. CASE UNCHANGED chainVars
  BY <1>1 DEF chainVars, Inv, TypeOK, Signed, Aligned
<1>2. ASSUME NEW sn \in Serials, NEW v \in Values, NEW w \in Wallets, NEW s \in Schemes,
             Issue(sn, v, w, s)
      PROVE  Inv'
  <2> DEFINE g == GenesisState(sn, v, w)
             d == NewCoin(sn, v, w, s)
  <2>1. g \in State /\ StateHash(g) \in Hash /\ s \in 0..1
    BY NewStates, HashType, ChainAssumption
  <2> HIDE DEF g
  <2>2. d = [serial |-> sn, value |-> v, states |-> <<g>>, sigs |-> <<>>, scheme |-> s]
    BY DEF NewCoin, g
  <2>3. <<g>> \in Seq(State) /\ Len(<<g>>) = 1 /\ <<g>>[1] = g
    BY <2>1
  <2>4. d \in Coin /\ Aligned(d) /\ d.sigs = <<>>
    BY <2>1, <2>2, <2>3 DEF Coin, Aligned
  <2>5. Put(d) /\ handed' = handed /\ genesis' = [genesis EXCEPT ![sn] = StateHash(g)]
    BY <1>2, <2>2, <2>3 DEF Issue
  <2>6. genesis' \in [Serials -> Hash]
    BY <1>0, <2>1, <2>5 DEF TypeOK
  <2> HIDE DEF d
  <2>7. QED
    BY <1>0, <2>4, <2>5, <2>6, PutStep DEF TypeOK
<1>3. ASSUME NEW c \in coins, NEW signer \in Wallets, NEW to \in Wallets, Transfer(c, signer, to)
      PROVE  Inv'
  <2> DEFINE d == AppendLink(c, signer, to)
             x == NextState(LastOf(c), to)
             sig == Sign(signer, c.scheme, StateHash(x))
  <2>1. /\ c \in Coin /\ Aligned(c) /\ c.states # <<>> /\ c.states \in Seq(State)
        /\ c.sigs \in Seq(Sigs) /\ c.scheme \in 0..1 /\ Len(c.sigs) = Len(c.states) - 1
    <3>1. c \in Coin /\ Aligned(c) /\ Len(c.states) \in 1..(MaxChain - 1)
      BY <1>3 DEF Inv, TypeOK, Transfer
    <3>2. c.states # <<>>
      BY <3>1
    <3>3. QED
      BY <3>1, <3>2, CoinFields DEF Aligned
  <2>2. /\ d \in Coin /\ x \in State /\ sig \in Sigs /\ LastOf(d) = x
        /\ d.states = Append(c.states, x) /\ d.sigs = Append(c.sigs, sig)
    BY <2>1, AppendLinkEffect
  <2>3. StateHash(x) \in Hash /\ sig.by = signer /\ sig.msg = StateHash(x)
    BY <2>1, <2>2, HashType, SignType
  <2>4. /\ Put(d) /\ genesis' = genesis
        /\ handed' = handed \cup {<<signer, StateHash(x)>>}
    BY <1>3, <2>2 DEF Transfer
  <2> HIDE DEF d, x, sig
  <2>5. Aligned(d)
    BY <2>1, <2>2 DEF Aligned
  <2>6. ASSUME NEW j \in DOMAIN d.sigs PROVE <<d.sigs[j].by, d.sigs[j].msg>> \in handed'
    <3>1. CASE j \in DOMAIN c.sigs
      <4>1. d.sigs[j] = c.sigs[j]
        BY <2>1, <2>2, <3>1
      <4>2. <<c.sigs[j].by, c.sigs[j].msg>> \in handed
        BY <1>0, <3>1 DEF Signed
      <4>3. QED
        BY <2>4, <4>1, <4>2
    <3>2. CASE j \notin DOMAIN c.sigs
      <4>1. d.sigs[j] = sig
        BY <2>1, <2>2, <2>6, <3>2
      <4>2. QED
        BY <2>3, <2>4, <4>1
    <3>3. QED
      BY <3>1, <3>2
  <2>7. handed' \subseteq Wallets \X Hash
    BY <1>0, <2>3, <2>4 DEF TypeOK
  <2>8. QED
    BY <1>0, <2>2, <2>4, <2>5, <2>6, <2>7, PutStep DEF TypeOK
<1>4. ASSUME NEW c \in coins, Tamper(c) PROVE Inv'
  <2>1. PICK d : Put(d) /\ Genuine(d)
    BY <1>0, <1>4, TamperEffect DEF Inv
  <2>2. handed' = handed /\ genesis' = genesis
    BY <1>4 DEF Tamper
  <2>3. \A j \in DOMAIN d.sigs : <<d.sigs[j].by, d.sigs[j].msg>> \in handed
    BY <1>0, <2>1 DEF Genuine, SigsAround, Signed
  <2>4. QED
    BY <1>0, <2>1, <2>2, <2>3, PutStep DEF Genuine, TypeOK
<1>5. QED
  BY <1>1, <1>2, <1>3, <1>4 DEF Next

\* Copies, signatures and registered hashes always have their types.
THEOREM ChainTypes == Spec => []TypeOK
<1>1. Inv => TypeOK
  BY DEF Inv
<1>2. QED
  BY <1>1, InvInit, InvStep, PTL DEF Spec

-----------------------------------------------------------------------------
(* What a verification that says ok has seen. *)

\* What it means that a copy verifies.
LEMMA VerifiedMeans ==
  ASSUME NEW c \in coins, TypeOK, Verified(c)
  PROVE  /\ c \in Coin /\ c.states # <<>> /\ StructureOk(c, genesis[c.serial])
         /\ \A i \in 2..Len(c.states) : SigOk(c, i, c.scheme)
<1>1. c \in Coin
  BY DEF TypeOK
<1>2. CASE c.scheme = 0
  BY <1>1, <1>2 DEF Verified, VerifyCoinChainAsync, VerifyCoinChain, Verdict
<1>3. CASE c.scheme # 0
  BY <1>1, <1>3 DEF Verified, VerifyCoinChainAsync, Verdict, Coin
<1>4. QED
  BY <1>1, <1>2, <1>3

\* The owner of the state before a link of a verified coin signed that link.
LEMMA LinkHanded ==
  ASSUME Inv, NEW c \in coins, Verified(c), NEW i \in 2..Len(c.states)
  PROVE  <<c.states[i-1].owner, StateHash(c.states[i])>> \in handed
<1>1. SigOk(c, i, c.scheme)
  BY VerifiedMeans DEF Inv
<1>2. i - 1 \in DOMAIN c.sigs /\ <<c.sigs[i-1].by, c.sigs[i-1].msg>> \in handed
  BY <1>1 DEF SigOk, Inv, Signed
<1>3. c.sigs[i-1].by = c.states[i-1].owner /\ c.sigs[i-1].msg = StateHash(c.states[i])
  BY <1>1 DEF SigOk, Sign
<1>4. QED
  BY <1>2, <1>3

\* Whatever copies go round and however they were cut, mixed or altered, a
\* coin that verifies was handed on by its owners, every link of it.
THEOREM OwnersMoveCoins == Spec => []OnlyOwnersMoveCoins
<1>1. Inv => OnlyOwnersMoveCoins
  BY LinkHanded DEF OnlyOwnersMoveCoins
<1>2. QED
  BY <1>1, InvInit, InvStep, PTL DEF Spec

\* Two verified copies of a coin part at an owner that signed both successors.
THEOREM ForkersAreNamed == Spec => []ForksNameTheForker
<1>1. Inv => ForksNameTheForker
  <2> SUFFICES ASSUME Inv, NEW c \in coins, NEW d \in coins, Verified(c), Verified(d),
                      NEW i \in (DOMAIN c.states) \cap (DOMAIN d.states), i > 1,
                      c.states[i] # d.states[i], c.states[i-1] = d.states[i-1]
               PROVE  Cardinality({h \in handed :
                         /\ h[1] = c.states[i-1].owner
                         /\ h[2] \in {StateHash(c.states[i]), StateHash(d.states[i])}}) = 2
    BY DEF ForksNameTheForker
  <2> DEFINE o == c.states[i-1].owner
             x == StateHash(c.states[i])
             y == StateHash(d.states[i])
             H == {h \in handed : h[1] = o /\ h[2] \in {x, y}}
  <2>1. c.states \in Seq(State) /\ d.states \in Seq(State)
    BY CoinFields DEF Inv, TypeOK
  <2>2. /\ i \in 2..Len(c.states) /\ i \in 2..Len(d.states)
        /\ c.states[i] \in State /\ d.states[i] \in State
    BY <2>1
  <2>3. <<o, x>> \in handed /\ <<o, y>> \in handed
    BY <2>2, LinkHanded
  <2>4. x # y
    BY <2>2, HashInjective
  <2>5. handed \subseteq Wallets \X Hash
    BY DEF Inv, TypeOK
  <2> HIDE DEF o, x, y
  <2>6. H = {<<o, x>>, <<o, y>>}
    BY <2>3, <2>5
  <2>7. <<o, x>> # <<o, y>>
    BY <2>4
  <2>8. Cardinality(H) = 2
    <3>1. ASSUME NEW p, NEW q, p # q PROVE Cardinality({p, q}) = 2
      <4>1. IsFiniteSet({p}) /\ Cardinality({p}) = 1
        BY FS_Singleton
      <4>2. {p, q} = {p} \cup {q} /\ q \notin {p}
        BY <3>1
      <4>3. Cardinality({p} \cup {q}) = Cardinality({p}) + 1
        BY <4>1, <4>2, FS_AddElement
      <4>4. QED
        BY <4>1, <4>2, <4>3
    <3>2. Cardinality({<<o, x>>, <<o, y>>}) = 2
      BY <2>7, <3>1, Zenon
    <3> HIDE DEF H
    <3>3. QED
      BY <2>6, <3>2
  <2>9. QED
    BY <2>8 DEF o, x, y
<1>2. QED
  BY <1>1, InvInit, InvStep, PTL DEF Spec

\* What a receiver accepts against the registered genesis hash, start_check_in and
\* append_links take, batch by batch in any division, exactly as far as the states
\* of a submission reach, and verify_full_chain takes what fits in whole.
THEOREM VerifiedCoinsPass == Spec => []VerifiedCoinsCheckIn
<1>1. Inv => VerifiedCoinsCheckIn
  <2> SUFFICES ASSUME Inv, NEW c \in coins, Verified(c), genesis[c.serial] # ZeroHash
               PROVE  /\ StartAccepts(c.states[1], c.serial, RegisteredValue(c.serial),
                                      genesis[c.serial])
                      /\ \A i \in DOMAIN c.states : \A j \in (i + 1)..Len(c.states) :
                           i <= MaxSubmissionStates =>
                             (BatchAccepted(SubSeq(c.states, 1, i), SubSeq(c.states, i + 1, j),
                                            c.serial, RegisteredValue(c.serial))
                                <=> j <= MaxSubmissionStates)
                      /\ Len(c.states) <= MaxSubmissionStates =>
                           FullChain(c.states, c.serial, RegisteredValue(c.serial),
                                     genesis[c.serial])
    BY DEF VerifiedCoinsCheckIn
  <2> DEFINE st == c.states
  <2>1. c \in Coin /\ st # <<>> /\ StructureOk(c, genesis[c.serial])
    BY VerifiedMeans DEF Inv
  <2>2. st \in Seq(State) /\ Len(st) \in Nat /\ Len(st) >= 1 /\ 1 \in DOMAIN st
    BY <2>1, CoinFields
  <2>3. /\ st[1].serial = c.serial /\ st[1].value = c.value
        /\ st[1].prev = <<>> /\ StateHash(st[1]) = genesis[c.serial]
        /\ \A i \in 2..Len(st) : Follows(st[i], st[i-1], c.serial, c.value)
    BY <2>1, <2>2 DEF StructureOk, Follows, ZeroHash
  <2>4. RegisteredValue(c.serial) = c.value
    BY <2>3 DEF RegisteredValue, StateHash
  <2> HIDE DEF st
  <2>5. ASSUME NEW i \in DOMAIN st, NEW j \in (i + 1)..Len(st), i <= MaxSubmissionStates
        PROVE  BatchAccepted(SubSeq(st, 1, i), SubSeq(st, i + 1, j), c.serial, c.value)
                 <=> j <= MaxSubmissionStates
    <3> DEFINE a == SubSeq(st, 1, i)
               b == SubSeq(st, i + 1, j)
    <3>1. a \in Seq(State) /\ Len(a) = i /\ b \in Seq(State) /\ Len(b) = j - i
      BY <2>2
    <3>2. /\ \A k \in 1..i : a[k] = st[k]
          /\ \A k \in 1..(j - i) : b[k] = st[i + k]
      BY <2>2
    <3> HIDE DEF a, b
    <3>3. a # <<>> /\ b # <<>> /\ DOMAIN b = 1..(j - i)
      BY <2>2, <3>1
    <3>4. ASSUME NEW k \in DOMAIN b
          PROVE  Follows(b[k], (a \o b)[i + k - 1], c.serial, c.value)
      <4>1. k \in 1..(j - i) /\ i + k \in 2..Len(st) /\ b[k] = st[i + k]
        BY <2>2, <3>2, <3>3
      <4>2. (a \o b)[i + k - 1] = st[i + k - 1]
        <5>1. CASE k = 1
          BY <2>2, <3>1, <3>2, <5>1
        <5>2. CASE k # 1
          <6>1. k - 1 \in 1..(j - i) /\ i + k - 1 = Len(a) + (k - 1)
            BY <3>1, <4>1, <5>2
          <6>2. (a \o b)[Len(a) + (k - 1)] = b[k - 1]
            BY <3>1, <6>1
          <6>3. b[k - 1] = st[i + (k - 1)]
            BY <3>2, <6>1
          <6>4. i + (k - 1) = i + k - 1
            BY <2>2, <4>1
          <6>5. QED
            BY <6>1, <6>2, <6>3, <6>4
        <5>3. QED
          BY <5>1, <5>2
      <4>3. (i + k) - 1 = i + k - 1
        BY <2>2, <4>1
      <4>4. QED
        BY <2>3, <4>1, <4>2, <4>3
    <3>5. Len(a) + Len(b) = j
      BY <2>2, <3>1
    <3>6. BatchAccepted(a, b, c.serial, c.value) <=> j <= MaxSubmissionStates
      BY <3>1, <3>3, <3>4, <3>5 DEF BatchAccepted
    <3>7. QED
      BY <3>6 DEF a, b
  <2>6. FullChain(st, c.serial, c.value, genesis[c.serial])
    BY <2>2, <2>3 DEF FullChain
  <2>7. StartAccepts(st[1], c.serial, c.value, genesis[c.serial])
    BY <2>3 DEF StartAccepts
  <2>8. QED
    BY <2>4, <2>5, <2>6, <2>7 DEF st
<1>2. QED
  BY <1>1, InvInit, InvStep, PTL DEF Spec

\* An owner's hand-over of a coin that verifies gives one that verifies.
THEOREM HandOversAreGood == Spec => []HandOversVerify
<1>1. Inv => HandOversVerify
  <2> SUFFICES ASSUME Inv, NEW c \in coins, Verified(c), NEW to \in Wallets,
                      CurrentOwner(c) \in KnownKeys
               PROVE  Verified(AppendLink(c, CurrentOwner(c), to))
    BY DEF HandOversVerify
  <2> DEFINE me == CurrentOwner(c)
             d == AppendLink(c, me, to)
             n == Len(c.states)
             x == NextState(LastOf(c), to)
             sig == Sign(me, c.scheme, StateHash(x))
  <2>1. /\ c \in Coin /\ c.states # <<>> /\ StructureOk(c, genesis[c.serial])
        /\ \A i \in 2..n : SigOk(c, i, c.scheme)
    BY VerifiedMeans DEF Inv
  <2>2. /\ c.states \in Seq(State) /\ c.sigs \in Seq(Sigs) /\ n \in Nat /\ n >= 1
        /\ me \in Wallets /\ LastOf(c) = c.states[n] /\ c.states[n] \in State
        /\ me = c.states[n].owner /\ Len(c.sigs) = n - 1 /\ c.scheme \in 0..1
    BY <2>1, CoinFields DEF Inv, Aligned, LastOf, CurrentOwner
  <2>3. /\ d.serial = c.serial /\ d.value = c.value /\ d.scheme = c.scheme
        /\ d.states = Append(c.states, x) /\ d.sigs = Append(c.sigs, sig)
        /\ x \in State /\ sig \in Sigs
    BY <2>1, <2>2, AppendLinkEffect
  <2>4. /\ x.serial = c.states[n].serial /\ x.value = c.states[n].value
        /\ x.prev = StateHash(c.states[n])
    BY <2>2 DEF NextState, State
  <2>5. sig = Sign(c.states[n].owner, c.scheme, StateHash(x))
    BY <2>2
  <2> HIDE DEF d, x, sig, me
  <2>6. /\ Len(d.states) = n + 1 /\ Len(d.sigs) = n /\ d.states # <<>>
        /\ DOMAIN d.states = 1..(n + 1) /\ DOMAIN d.sigs = 1..n
        /\ \A i \in 1..n : d.states[i] = c.states[i]
        /\ \A i \in 1..(n - 1) : d.sigs[i] = c.sigs[i]
        /\ d.states[n + 1] = x /\ d.sigs[n] = sig
    BY <2>2, <2>3
  <2>7. StructureOk(d, genesis[d.serial])
    <3>1. \A i \in 1..n : c.states[i].serial = c.serial /\ c.states[i].value = c.value
      BY <2>1, <2>2 DEF StructureOk
    <3>2. \A i \in DOMAIN d.states : d.states[i].serial = d.serial /\ d.states[i].value = d.value
      BY <2>2, <2>3, <2>4, <2>6, <3>1
    <3>3. ASSUME NEW i \in 2..(n + 1) PROVE d.states[i].prev = StateHash(d.states[i-1])
      <4>1. CASE i = n + 1
        BY <2>2, <2>4, <2>6, <4>1
      <4>2. CASE i # n + 1
        <5>1. i \in 2..n /\ i - 1 \in 1..n /\ i \in 1..n
          BY <2>2, <4>2
        <5>2. c.states[i].prev = StateHash(c.states[i-1])
          BY <2>1, <5>1 DEF StructureOk
        <5>3. QED
          BY <2>6, <5>1, <5>2
      <4>3. QED
        BY <4>1, <4>2
    <3>4. d.states[1] = c.states[1]
      BY <2>2, <2>6
    <3>5. QED
      BY <2>1, <2>3, <2>6, <3>2, <3>3, <3>4 DEF StructureOk
  <2>8. ASSUME NEW i \in 2..(n + 1) PROVE SigOk(d, i, d.scheme)
    <3>1. CASE i = n + 1
      BY <2>2, <2>3, <2>5, <2>6, <3>1 DEF SigOk
    <3>2. CASE i # n + 1
      <4>1. SigOk(c, i, c.scheme) /\ i \in 1..n /\ i - 1 \in 1..(n - 1)
        BY <2>1, <2>2, <3>2
      <4>2. QED
        BY <2>3, <2>6, <4>1 DEF SigOk
    <3>3. QED
      BY <3>1, <3>2
  <2>10. CASE c.scheme = 0
    <3>1. VerifyCoinChainAsync(d, genesis[d.serial]) = VerifyCoinChain(d, genesis[d.serial])
      BY <2>3, <2>10 DEF VerifyCoinChainAsync
    <3>2. \A i \in 2..Len(d.states) : d.scheme = 0 /\ SigOk(d, i, 0)
      BY <2>3, <2>6, <2>8, <2>10
    <3>3. VerifyCoinChain(d, genesis[d.serial]) = "ok"
      BY <2>6, <2>7, <3>2 DEF VerifyCoinChain, Verdict
    <3>4. QED
      BY <3>1, <3>3 DEF Verified, d, me
  <2>11. CASE c.scheme = 1
    <3>1. \A i \in 2..n : c.states[i-1].owner \in KnownKeys
      BY <2>11 DEF Verified, VerifyCoinChainAsync, Verdict
    <3>2. ASSUME NEW i \in 2..(n + 1) PROVE d.states[i-1].owner \in KnownKeys
      <4>1. CASE i = n + 1
        BY <2>2, <2>6, <4>1 DEF me
      <4>2. CASE i # n + 1
        <5>1. i \in 2..n /\ i - 1 \in 1..n
          BY <2>2, <4>2
        <5>2. QED
          BY <2>6, <3>1, <5>1
      <4>3. QED
        BY <4>1, <4>2
    <3>3. /\ d.scheme # 0 /\ d.scheme = 1 /\ d.states # <<>>
          /\ ~\E i \in 2..Len(d.states) : d.states[i-1].owner \notin KnownKeys
      BY <2>3, <2>6, <2>11, <3>2
    <3>4. \A i \in 2..Len(d.states) : SigOk(d, i, 1)
      BY <2>3, <2>6, <2>8, <2>11
    <3>5. VerifyCoinChainAsync(d, genesis[d.serial]) = "ok"
      BY <2>7, <3>3, <3>4 DEF VerifyCoinChainAsync, Verdict
    <3>6. QED
      BY <3>5 DEF Verified, d, me
  <2>12. QED
    BY <2>2, <2>10, <2>11
<1>2. QED
  BY <1>1, InvInit, InvStep, PTL DEF Spec

-----------------------------------------------------------------------------
(* The file of a coin. *)

\* The fields of a core and of a wrapper.
CoreFields == {"magic", "version", "scheme", "n", "serial", "value", "states", "sigs", "sum", "size"}
WrapperFields == {"magic", "version", "hint", "nonce", "ctLen", "ct", "tag", "size"}

\* A core on the medium: its checksum is that of the coin that was written.
CoreInv ==
  /\ DOMAIN disk = CoreFields
  /\ disk.sum \in {Nothing, Body(EncodeCoinCore(saved))}
  /\ damage = 0 => disk = EncodeCoinCore(saved)

\* The tag of a coin under a key, or what a fault leaves of it.
Tags(coin, key) == {Nothing, <<EncodeCoinCore(coin), key, 0>>}

\* A wrapper on the medium: its tag is that of the coin that was written.
WrapperInv ==
  /\ DOMAIN disk = WrapperFields
  /\ \E key \in Keys, hint \in Hints :
       /\ seal = <<key, hint>>
       /\ disk.tag \in Tags(saved, key)
       /\ damage = 0 => disk = Encrypt(EncodeCoinCore(saved), key, hint)

\* What was read last.
ReadInv ==
  /\ loaded.coin \in {Nothing, Refused, Kept(saved)}
  /\ loaded.coin = Refused => damage > 0 \/ loaded.with # seal

FileInv ==
  /\ damage \in Nat
  /\ disk = Nothing => seal = Nothing /\ damage = 0 /\ loaded.coin = Nothing
  /\ disk # Nothing => /\ \E c \in Coins : saved = CoinCore(c)
                       /\ seal = Nothing => CoreInv
                       /\ seal # Nothing => WrapperInv
  /\ ReadInv
-----------------------------------------------------------------------------
\* encodeCoinCore, field by field.
LEMMA EncodeFields ==
  ASSUME NEW c \in Coins
  PROVE  LET f == EncodeCoinCore(CoinCore(c)) IN
         /\ DOMAIN f = CoreFields
         /\ f.magic = "OBC1" /\ f.version = 1 /\ f.scheme = c.scheme
         /\ f.n = Len(c.states) /\ f.serial = c.serial /\ f.value = c.value
         /\ f.states = c.states
         /\ f.sigs = [i \in DOMAIN CoinCore(c).sigs |-> Slot(CoinCore(c).sigs[i])]
         /\ f.size = CoinCoreSize(Len(c.states))
         /\ f.sum = Body(f)
         /\ f # Nothing
<1> DEFINE u == Unsummed(CoinCore(c))
<1>1. EncodeCoinCore(CoinCore(c)) = [u EXCEPT !.sum = Body(u)]
      BY DEF EncodeCoinCore
<1>2. /\ DOMAIN u = CoreFields
      /\ u.magic = "OBC1" /\ u.version = 1 /\ u.scheme = c.scheme
      /\ u.n = Len(c.states) /\ u.serial = c.serial /\ u.value = c.value
      /\ u.states = c.states
      /\ u.sigs = [i \in DOMAIN CoinCore(c).sigs |-> Slot(CoinCore(c).sigs[i])]
      /\ u.size = CoinCoreSize(Len(c.states))
      BY DEF Unsummed, CoinCore, CoreFields
<1> DEFINE f == [u EXCEPT !.sum = Body(u)]
<1> HIDE DEF u
<1>3. /\ DOMAIN f = CoreFields
      /\ \A x \in CoreFields \ {"sum"} : f[x] = u[x]
      /\ f.sum = Body(u)
      BY <1>2 DEF CoreFields
<1> HIDE DEF f
<1>4. /\ f.magic = u.magic /\ f.version = u.version /\ f.scheme = u.scheme /\ f.n = u.n
      /\ f.serial = u.serial /\ f.value = u.value /\ f.states = u.states /\ f.sigs = u.sigs
      /\ f.size = u.size
      BY <1>3 DEF CoreFields
<1>5. Body(f) = Body(u)
      BY <1>4 DEF Body
<1>6. f # Nothing
      BY <1>3 DEF CoreFields, Nothing
<1>7. EncodeCoinCore(CoinCore(c)) = f
      BY <1>1 DEF f
<1> QED BY <1>2, <1>3, <1>4, <1>5, <1>6, <1>7

\* decodeCoinCore gives what is in the file when it gives anything.
LEMMA DecodeGives ==
  ASSUME NEW c \in Coins, NEW f, Decodes(f),
         f.sum \in {Nothing, Body(EncodeCoinCore(CoinCore(c)))}
  PROVE  DecodeCoinCore(f) = Kept(CoinCore(c))
<1> DEFINE g == EncodeCoinCore(CoinCore(c))
<1>1. f.sum = Body(f)
      BY DEF Decodes, ChecksumOk
<1>2. Body(f) # Nothing
      BY DEF Body, Nothing
<1>3. Body(f) = Body(g)
      BY <1>1, <1>2
<1> HIDE DEF g
<1>4. /\ f.scheme = g.scheme /\ f.serial = g.serial /\ f.value = g.value
      /\ f.states = g.states /\ f.sigs = g.sigs
      BY <1>3 DEF Body
<1>5. DecodeCoinCore(f) = [serial |-> f.serial, value |-> f.value, scheme |-> f.scheme,
                           states |-> f.states, sigs |-> f.sigs]
      BY DEF DecodeCoinCore
<1>6. Kept(CoinCore(c)) =
        [serial |-> c.serial, value |-> c.value, scheme |-> c.scheme, states |-> c.states,
         sigs |-> [i \in DOMAIN CoinCore(c).sigs |-> Slot(CoinCore(c).sigs[i])]]
      <2> DEFINE k == CoinCore(c)
                 sg == [i \in DOMAIN k.sigs |-> Slot(k.sigs[i])]
      <2>1. /\ DOMAIN k = {"serial", "value", "scheme", "states", "sigs"}
            /\ k = [x \in {"serial", "value", "scheme", "states", "sigs"} |-> k[x]]
            /\ k.serial = c.serial /\ k.value = c.value /\ k.scheme = c.scheme
            /\ k.states = c.states
            BY DEF CoinCore
      <2>2. Kept(k) = [k EXCEPT !.sigs = sg]
            BY DEF Kept
      <2> HIDE DEF k, sg
      <2>3. [k EXCEPT !.sigs = sg] =
              [serial |-> c.serial, value |-> c.value, scheme |-> c.scheme,
               states |-> c.states, sigs |-> sg]
            BY <2>1
      <2> QED BY <2>2, <2>3 DEF k, sg
<1>7. /\ g.scheme = c.scheme /\ g.serial = c.serial /\ g.value = c.value
      /\ g.states = c.states
      /\ g.sigs = [i \in DOMAIN CoinCore(c).sigs |-> Slot(CoinCore(c).sigs[i])]
      BY EncodeFields DEF g
<1> QED BY <1>4, <1>5, <1>6, <1>7

\* A core that was just encoded decodes.
LEMMA EncodedDecodes ==
  ASSUME MaxStates \in Nat, NEW c \in Coins
  PROVE  Decodes(EncodeCoinCore(CoinCore(c)))
<1> DEFINE g == EncodeCoinCore(CoinCore(c))
<1>1. PICK n \in 1..MaxStates : c.states \in [1..n -> States]
      BY DEF Coins
<1>2. Len(c.states) = n
      BY <1>1
<1>3. CoinCoreSize(n) >= Header
      BY DEF CoinCoreSize, Header, SigSlot
<1>4. /\ g.magic = "OBC1" /\ g.version = 1 /\ g.n = n /\ g.states = c.states
      /\ g.size = CoinCoreSize(n) /\ g.sum = Body(g)
      BY <1>2, EncodeFields
<1> HIDE DEF g
<1>5. Decodes(g)
      BY <1>2, <1>3, <1>4 DEF Decodes, ChecksumOk
<1> QED BY <1>5 DEF g

\* A wrapper that opens gives the coin its tag is over.
LEMMA OpenGives ==
  ASSUME NEW c \in Coins, NEW e, NEW key, NEW hint, NEW k,
         e.tag \in Tags(CoinCore(c), k),
         Opens(e, key, hint)
  PROVE  OpenCoin(e, key, hint) \in {Refused, Kept(CoinCore(c))}
<1> DEFINE g == EncodeCoinCore(CoinCore(c))
<1>1. g.sum = Body(g)
      BY EncodeFields
<1>2. Decodes(g) => DecodeCoinCore(g) = Kept(CoinCore(c))
      BY <1>1, DecodeGives
<1>3. ~Decodes(g) => DecodeCoinCore(g) = Refused
      BY DEF DecodeCoinCore
<1> HIDE DEF g
<1>4. e.tag = <<e.ct, key, e.nonce>> /\ e.tag # Nothing
      BY DEF Opens, Nothing
<1>5. e.ct = g
      <2>1. e.tag = <<g, k, 0>>
            BY <1>4 DEF g, Tags
      <2> QED BY <1>4, <2>1
<1>6. OpenCoin(e, key, hint) = DecodeCoinCore(g)
      BY <1>5 DEF OpenCoin
<1> QED BY <1>2, <1>3, <1>6 DEF g

\* A wrapper that was just written opens with its key and its hint.
LEMMA SealedOpens ==
  ASSUME MaxStates \in Nat, NEW c \in Coins, NEW key, NEW hint
  PROVE  /\ DOMAIN Encrypt(EncodeCoinCore(CoinCore(c)), key, hint) = WrapperFields
         /\ Encrypt(EncodeCoinCore(CoinCore(c)), key, hint).tag =
              <<EncodeCoinCore(CoinCore(c)), key, 0>>
         /\ Encrypt(EncodeCoinCore(CoinCore(c)), key, hint) # Nothing
         /\ OpenCoin(Encrypt(EncodeCoinCore(CoinCore(c)), key, hint), key, hint)
              = Kept(CoinCore(c))
<1> DEFINE g == EncodeCoinCore(CoinCore(c))
           e == Encrypt(g, key, hint)
<1>1. Decodes(g) /\ g.sum = Body(g)
      BY EncodedDecodes, EncodeFields
<1>2. DecodeCoinCore(g) = Kept(CoinCore(c))
      BY <1>1, DecodeGives
<1> HIDE DEF g
<1>3. /\ e.magic = "OBE1" /\ e.version = 1 /\ e.hint = hint /\ e.nonce = 0
      /\ e.ctLen = g.size /\ e.size = 23 + g.size + 16
      /\ e.ct = g /\ e.tag = <<g, key, 0>>
      /\ DOMAIN e = WrapperFields
      BY DEF Encrypt, WrapperFields
<1>4. e # Nothing
      BY <1>3 DEF WrapperFields, Nothing
<1> HIDE DEF e
<1>5. Opens(e, key, hint)
      BY <1>3 DEF Opens, Parses
<1>6. OpenCoin(e, key, hint) = Kept(CoinCore(c))
      BY <1>2, <1>3, <1>5 DEF OpenCoin
<1> QED BY <1>3, <1>4, <1>6 DEF e, g

\* A fault spoils a checksum or leaves it.
LEMMA DamagedCoreFields ==
  ASSUME NEW f, DOMAIN f = CoreFields, NEW g \in DamagedCore(f)
  PROVE  DOMAIN g = CoreFields /\ g.sum \in {Nothing, f.sum} /\ g # Nothing
<1>1. DOMAIN g = CoreFields /\ g.sum \in {Nothing, f.sum}
      BY DEF DamagedCore, CoreFields
<1>2. g # Nothing
      BY <1>1 DEF CoreFields, Nothing
<1> QED BY <1>1, <1>2

\* A fault spoils a tag or leaves it.
LEMMA DamagedWrapperFields ==
  ASSUME NEW f, DOMAIN f = WrapperFields, NEW g \in DamagedWrapper(f)
  PROVE  DOMAIN g = WrapperFields /\ g.tag \in {Nothing, f.tag} /\ g # Nothing
<1>1. DOMAIN g = WrapperFields /\ g.tag \in {Nothing, f.tag}
      BY DEF DamagedWrapper, WrapperFields
<1>2. g # Nothing
      BY <1>1 DEF WrapperFields, Nothing
<1> QED BY <1>1, <1>2
-----------------------------------------------------------------------------
\* A coin is written, bare or sealed.
LEMMA SaveStep ==
  ASSUME MaxStates \in Nat, RefusedAssumption, FileInv, SavePlain \/ SaveSealed
  PROVE  FileInv'
<1>1. /\ disk = Nothing /\ damage = 0 /\ damage' = 0 /\ loaded' = loaded
      /\ loaded.coin = Nothing /\ Nothing # Refused
      BY DEF FileInv, SavePlain, SaveSealed, WriteFile, RefusedAssumption
<1>2. ReadInv'
      BY <1>1 DEF ReadInv
<1>3. CASE SavePlain
      <2>1. PICK c \in Coins : /\ saved' = CoinCore(c) /\ seal' = Nothing
                               /\ disk' = EncodeCoinCore(CoinCore(c))
            BY <1>3 DEF SavePlain, WriteFile
      <2>2. CoreInv' /\ disk' # Nothing
            BY <2>1, EncodeFields DEF CoreInv
      <2> QED BY <1>1, <1>2, <2>1, <2>2 DEF FileInv
<1>4. CASE SaveSealed
      <2>1. PICK c \in Coins, key \in Keys, hint \in Hints :
              /\ saved' = CoinCore(c) /\ seal' = <<key, hint>>
              /\ disk' = Encrypt(EncodeCoinCore(CoinCore(c)), key, hint)
            BY <1>4 DEF SaveSealed, WriteFile
      <2>2. disk' # Nothing /\ seal' # Nothing
            BY <2>1, SealedOpens DEF Nothing
      <2>3. WrapperInv'
            BY <2>1, SealedOpens DEF WrapperInv, Tags
      <2> QED BY <1>1, <1>2, <2>1, <2>2, <2>3 DEF FileInv
<1> QED BY <1>3, <1>4

\* The medium spoils the file.
LEMMA DamageStep ==
  ASSUME FileInv, Damage
  PROVE  FileInv'
<1>1. /\ disk # Nothing /\ damage \in Nat /\ damage' = damage + 1 /\ damage' > 0
      /\ saved' = saved /\ seal' = seal /\ loaded' = loaded
      BY DEF FileInv, Damage
<1>2. ReadInv'
      BY <1>1 DEF ReadInv, FileInv
<1>3. CASE seal = Nothing
      <2>1. disk' \in DamagedCore(disk) /\ CoreInv
            BY <1>1, <1>3 DEF Damage, FileInv
      <2>2. CoreInv' /\ disk' # Nothing
            BY <1>1, <2>1, DamagedCoreFields DEF CoreInv
      <2> QED BY <1>1, <1>2, <1>3, <2>2 DEF FileInv
<1>4. CASE seal # Nothing
      <2>1. disk' \in DamagedWrapper(disk) /\ WrapperInv
            BY <1>1, <1>4 DEF Damage, FileInv
      <2>2. PICK key \in Keys, hint \in Hints :
              /\ seal = <<key, hint>>
              /\ disk.tag \in Tags(saved, key)
            BY <2>1 DEF WrapperInv
      <2>3. DOMAIN disk' = WrapperFields /\ disk'.tag \in {Nothing, disk.tag} /\ disk' # Nothing
            BY <2>1, DamagedWrapperFields DEF WrapperInv
      <2>4. WrapperInv'
            BY <1>1, <2>2, <2>3 DEF WrapperInv, Tags
      <2> QED BY <1>1, <1>2, <1>4, <2>3, <2>4 DEF FileInv
<1> QED BY <1>3, <1>4

\* A bare core is read.
LEMMA LoadPlainStep ==
  ASSUME MaxStates \in Nat, RefusedAssumption, FileInv, LoadPlain
  PROVE  FileInv'
<1>1. PICK c \in Coins : saved = CoinCore(c)
      BY DEF FileInv, LoadPlain
<1>2. /\ disk # Nothing /\ seal = Nothing /\ CoreInv
      /\ loaded'.coin = DecodeCoinCore(disk)
      /\ saved' = saved /\ seal' = seal /\ disk' = disk /\ damage' = damage /\ damage \in Nat
      BY DEF FileInv, LoadPlain
<1>3. loaded'.coin \in {Refused, Kept(saved)}
      BY <1>1, <1>2, DecodeGives DEF CoreInv, DecodeCoinCore
<1>4. damage = 0 => loaded'.coin # Refused
      <2> SUFFICES ASSUME damage = 0 PROVE loaded'.coin # Refused
          OBVIOUS
      <2>1. Decodes(disk) /\ disk.sum \in {Nothing, Body(EncodeCoinCore(saved))}
            BY <1>1, <1>2, EncodedDecodes DEF CoreInv
      <2>2. DecodeCoinCore(disk) = Kept(saved)
            BY <1>1, <2>1, DecodeGives
      <2> QED BY <1>1, <1>2, <2>2 DEF RefusedAssumption
<1>5. ReadInv'
      BY <1>2, <1>3, <1>4 DEF ReadInv
<1>6. CoreInv'
      BY <1>2 DEF CoreInv
<1> QED BY <1>1, <1>2, <1>5, <1>6 DEF FileInv

\* A wrapper is opened, with any key and any hint.
LEMMA LoadSealedStep ==
  ASSUME MaxStates \in Nat, RefusedAssumption, FileInv,
         NEW key \in Keys, NEW hint \in Hints, LoadSealed(key, hint)
  PROVE  FileInv'
<1>1. PICK c \in Coins : saved = CoinCore(c)
      BY DEF FileInv, LoadSealed
<1>2. /\ disk # Nothing /\ seal # Nothing /\ WrapperInv
      /\ loaded'.coin = OpenCoin(disk, key, hint) /\ loaded'.with = <<key, hint>>
      /\ saved' = saved /\ seal' = seal /\ disk' = disk /\ damage' = damage /\ damage \in Nat
      BY DEF FileInv, LoadSealed
<1>3. PICK k \in Keys, h \in Hints :
        /\ seal = <<k, h>>
        /\ disk.tag \in Tags(saved, k)
        /\ damage = 0 => disk = Encrypt(EncodeCoinCore(saved), k, h)
      BY <1>2 DEF WrapperInv
<1>4. OpenCoin(disk, key, hint) \in {Refused, Kept(saved)}
      <2>1. disk.tag \in Tags(CoinCore(c), k)
            BY <1>1, <1>3
      <2>2. CASE Opens(disk, key, hint)
            BY <1>1, <2>1, <2>2, OpenGives
      <2>3. CASE ~Opens(disk, key, hint)
            BY <2>3 DEF OpenCoin
      <2> QED BY <2>2, <2>3
<1>5. loaded'.coin \in {Refused, Kept(saved)}
      BY <1>2, <1>4
<1>6. damage = 0 /\ loaded'.with = seal => loaded'.coin # Refused
      <2> SUFFICES ASSUME damage = 0, loaded'.with = seal PROVE loaded'.coin # Refused
          OBVIOUS
      <2>1. key = k /\ hint = h
            <3>1. <<key, hint>> = <<k, h>>
                  BY <1>2, <1>3
            <3> QED BY <3>1
      <2>2. OpenCoin(disk, key, hint) = Kept(saved)
            BY <1>1, <1>3, <2>1, SealedOpens
      <2> QED BY <1>1, <1>2, <2>2 DEF RefusedAssumption
<1>7. ReadInv'
      BY <1>2, <1>5, <1>6 DEF ReadInv
<1>8. WrapperInv'
      BY <1>2 DEF WrapperInv
<1> QED BY <1>1, <1>2, <1>7, <1>8 DEF FileInv

\* The invariant holds before anything is written.
LEMMA FileStarts == ASSUME RefusedAssumption, FileInit PROVE FileInv
BY DEF FileInit, FileInv, ReadInv, RefusedAssumption

\* Every step keeps the invariant.
LEMMA FileInvStep ==
  ASSUME MaxStates \in Nat, RefusedAssumption, FileInv, [FileNext]_fileVars
  PROVE  FileInv'
<1>1. CASE UNCHANGED fileVars
      BY <1>1 DEF fileVars, FileInv, CoreInv, WrapperInv, ReadInv
<1> QED BY <1>1, SaveStep, DamageStep, LoadPlainStep, LoadSealedStep DEF FileNext

\* The invariant of a file, for every behaviour.
LEMMA FileHolds ==
  ASSUME MaxStates \in Nat, RefusedAssumption
  PROVE  FileSpec => []FileInv
<1>1. FileInit => FileInv
      BY FileStarts
<1>2. FileInv /\ [FileNext]_fileVars => FileInv'
      BY FileInvStep
<1> QED BY <1>1, <1>2, PTL DEF FileSpec

\* With Ed25519 a file keeps all of a coin: a signature is as long as its slot.
LEMMA AllIsKept ==
  ASSUME FileSchemes \subseteq {0}, NEW c \in Coins
  PROVE  Kept(CoinCore(c)) = CoinCore(c)
<1> DEFINE k == CoinCore(c)
           one == [by |-> c.by, len |-> SigBytes[c.scheme]]
           sg == [i \in 1..(Len(c.states) - 1) |-> one]
<1>1. c.scheme = 0
      BY DEF Coins
<1>2. SigBytes[0] = SigSlot
      BY DEF SigBytes, SigSlot
<1>3. Slot(one) = one
      BY <1>1, <1>2 DEF Slot
<1>4. k = [serial |-> c.serial, value |-> c.value, scheme |-> c.scheme,
           states |-> c.states, sigs |-> sg]
      BY DEF CoinCore
<1> HIDE DEF one, k
<1>5. [i \in DOMAIN sg |-> Slot(sg[i])] = sg
      BY <1>3
<1> HIDE DEF sg
<1>6. k.sigs = sg
      BY <1>4
<1>7. Kept(k) = [k EXCEPT !.sigs = sg]
      BY <1>5, <1>6 DEF Kept
<1>8. [k EXCEPT !.sigs = sg] = k
      BY <1>4
<1> QED BY <1>7, <1>8 DEF k

\* Coinfile spec 2.1, 2.4: with Ed25519 coins, reading a file gives the coin that
\* was written or an error, after any number of faults and whichever fields they
\* changed.  With ML-DSA the slots are too short for the signatures.
THEOREM FilesGiveBackCoins ==
  ASSUME MaxStates \in Nat, RefusedAssumption, FileSchemes \subseteq {0}
  PROVE  FileSpec => []LoadedIsSaved
<1>1. FileInv => LoadedIsSaved
      <2> SUFFICES ASSUME FileInv, Loaded PROVE loaded.coin = saved
          BY DEF LoadedIsSaved
      <2>1. loaded.coin = Kept(saved) /\ disk # Nothing
            BY DEF Loaded, FileInv, ReadInv
      <2>2. PICK c \in Coins : saved = CoinCore(c)
            BY <2>1 DEF FileInv
      <2> QED BY <2>1, <2>2, AllIsKept
<1> QED BY <1>1, FileHolds, PTL

\* In either scheme a file gives back what it keeps of the coin that was written:
\* everything but the part of a signature behind its slot.
THEOREM FilesGiveBackWhatTheyKeep ==
  ASSUME MaxStates \in Nat, RefusedAssumption
  PROVE  FileSpec => [](Loaded => loaded.coin = Kept(saved))
<1>1. FileInv => (Loaded => loaded.coin = Kept(saved))
      BY DEF FileInv, ReadInv, Loaded
<1> QED BY <1>1, FileHolds, PTL

\* A file that nothing happened to opens with its key and its hint.
THEOREM IntactFilesOpen ==
  ASSUME MaxStates \in Nat, RefusedAssumption
  PROVE  FileSpec => []IntactOpens
<1>1. FileInv => IntactOpens
      BY DEF FileInv, ReadInv, IntactOpens
<1> QED BY <1>1, FileHolds, PTL
=============================================================================
