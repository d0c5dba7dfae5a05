------------------------------ MODULE CoinChain ------------------------------
(***************************************************************************)
(* The coin its holders hand on offline: coin.ts, layout.ts, and the       *)
(* verification of chain.ts that a receiver runs and that is meant to      *)
(* mirror the rules of the on-chain program.                               *)
(*                                                                         *)
(* A signature is the key that made it, its scheme, the hash it is over    *)
(* and its length in bytes; nobody can make one without the key.  Every    *)
(* copy of a coin stays in circulation: a transfer keeps the old one.      *)
(***************************************************************************)
EXTENDS ObpState, FiniteSets

CONSTANTS Schemes,    \* signature schemes in use, a subset of 0..1
          KnownKeys,  \* owners whose ML-DSA key a keyProvider knows
          MaxChain,   \* longest chain that is built
          MaxCoins    \* copies that circulate

ASSUME ChainAssumption == Schemes \subseteq 0..1

VARIABLES coins,    \* every copy of a coin in circulation, tampered ones too
          handed,   \* the hand-overs: <<owner, hash of the next state>> signed
          genesis   \* genesis hash the mint registered per serial, or ZeroHash

chainVars == <<coins, handed, genesis>>

SigLen == [scheme \in 0..1 |-> IF scheme = 0 THEN 64 ELSE 2420]
Sign(w, scheme, msg) ==
  [by |-> w, scheme |-> scheme, msg |-> msg, len |-> SigLen[scheme]]

\* Mutant: a scheme the verification does not know.
MutNewCoin(sn, v, w, scheme) ==
  [serial |-> sn, value |-> v, states |-> <<GenesisState(sn, v, w)>>,
   sigs |-> <<>>, scheme |-> 2]

\* newCoin, and the same coin of the other scheme.
NewCoin(sn, v, w, scheme) ==
  [serial |-> sn, value |-> v, states |-> <<GenesisState(sn, v, w)>>,
   sigs |-> <<>>, scheme |-> scheme]

LastOf(c) == c.states[Len(c.states)]
CurrentOwner(c) == LastOf(c).owner

\* Mutant: the signature is over the state that is handed over.
MutAppendLink(c, signer, to) ==
  LET next == NextState(LastOf(c), to) IN
  [c EXCEPT !.states = Append(@, next),
            !.sigs = Append(@, Sign(signer, c.scheme, StateHash(LastOf(c))))]

\* appendLink and appendLinkAsync: whoever signs, the next state is appended.
AppendLink(c, signer, to) ==
  LET next == NextState(LastOf(c), to) IN
  [c EXCEPT !.states = Append(@, next),
            !.sigs = Append(@, Sign(signer, c.scheme, StateHash(next)))]

\* verifyStructure; anchor is the optional genesis hash, ZeroHash when absent.
StructureOk(c, anchor) ==
  /\ c.states # <<>>
  /\ \A i \in DOMAIN c.states :
       c.states[i].serial = c.serial /\ c.states[i].value = c.value
  /\ c.states[1].prev = ZeroHash
  /\ \A i \in 2..Len(c.states) : c.states[i].prev = StateHash(c.states[i-1])
  /\ anchor # ZeroHash => StateHash(c.states[1]) = anchor

\* Mutant: the signature is checked under the receiving owner.
MutSigOk(c, i, scheme) ==
  /\ i - 1 \in DOMAIN c.sigs
  /\ c.sigs[i-1] = Sign(c.states[i].owner, scheme, StateHash(c.states[i]))

\* Link i is signed by the owner of the state before it.
SigOk(c, i, scheme) ==
  /\ i - 1 \in DOMAIN c.sigs
  /\ c.sigs[i-1] = Sign(c.states[i-1].owner, scheme, StateHash(c.states[i]))

Verdict(ok) == IF ok THEN "ok" ELSE "errors"

\* verifyCoinChain.  Without a state the head hash cannot be taken and it throws;
\* it knows no scheme but Ed25519.
VerifyCoinChain(c, anchor) ==
  IF c.states = <<>> THEN "throws"
  ELSE Verdict(/\ StructureOk(c, anchor)
               /\ \A i \in 2..Len(c.states) : c.scheme = 0 /\ SigOk(c, i, 0))

\* verifyCoinChainAsync with a keyProvider that knows the keys of KnownKeys and
\* throws for any other owner.
VerifyCoinChainAsync(c, anchor) ==
  IF c.scheme = 0 THEN VerifyCoinChain(c, anchor)
  ELSE IF c.scheme # 1 \/ c.states = <<>>
          \/ \E i \in 2..Len(c.states) : c.states[i-1].owner \notin KnownKeys
       THEN "throws"
  ELSE Verdict(/\ StructureOk(c, anchor)
               /\ \A i \in 2..Len(c.states) : SigOk(c, i, 1))

\* mint_coin registers the value together with the genesis hash over it.
RegisteredValue(sn) == genesis[sn][1].value

\* What start_check_in asks of state_0.
StartAccepts(st, sn, v, anchor) ==
  st.serial = sn /\ st.value = v /\ StateHash(st) = anchor

\* Mutant: the submission has room for one state more.
MutBatchAccepted(stored, links, sn, v) ==
  /\ links # <<>> /\ stored # <<>>
  /\ Len(stored) + Len(links) <= MaxSubmissionStates + 1
  /\ \A i \in DOMAIN links : Follows(links[i], (stored \o links)[Len(stored) + i - 1], sn, v)

\* What append_links asks of a batch of at most max_links_per_tx links behind the
\* stored states, sent with the owner and the last hash that belong to them.
BatchAccepted(stored, links, sn, v) ==
  /\ links # <<>> /\ stored # <<>>
  /\ Len(stored) + Len(links) <= MaxSubmissionStates
  /\ \A i \in DOMAIN links : Follows(links[i], (stored \o links)[Len(stored) + i - 1], sn, v)

-----------------------------------------------------------------------------
Init ==
  /\ coins = {}
  /\ handed = {}
  /\ genesis = [sn \in Serials |-> ZeroHash]

Put(d) == coins' = coins \cup {d}
SigsAround == UNION {{d.sigs[j] : j \in DOMAIN d.sigs} : d \in coins}

\* mint_coin has registered the genesis hash; the recipient makes the coin.
Issue(sn, v, w, scheme) ==
  LET c == NewCoin(sn, v, w, scheme) IN
  /\ genesis[sn] = ZeroHash
  /\ genesis' = [genesis EXCEPT ![sn] = StateHash(c.states[1])]
  /\ Put(c)
  /\ UNCHANGED handed

\* Bounds: MaxCoins copies, and one more for a chain with as many states.
Room == Cardinality(coins) < MaxCoins
RoomToGrow(c) == Cardinality(coins) = MaxCoins /\ Len(c.states) = MaxCoins

\* signer appends a link to a copy it holds; appendLink asks neither whether it
\* is the current owner nor whether the copy verifies.
Transfer(c, signer, to) ==
  LET d == AppendLink(c, signer, to) IN
  /\ Room \/ RoomToGrow(c)
  /\ Len(c.states) \in 1..(MaxChain - 1)
  /\ Put(d)
  /\ handed' = handed \cup {<<signer, StateHash(LastOf(d))>>}
  /\ UNCHANGED genesis

\* Someone passes on a copy with one part altered, left out or taken from another.
Tamper(c) ==
  /\ Room
  /\ c.states # <<>>
  /\ \/ \E i \in DOMAIN c.states, w \in Wallets : Put([c EXCEPT !.states[i].owner = w])
     \/ \E i \in DOMAIN c.states, v \in Values : Put([c EXCEPT !.states[i].value = v])
     \/ \E v \in Values : Put([c EXCEPT !.value = v])
     \/ \E i \in DOMAIN c.sigs, s \in SigsAround : Put([c EXCEPT !.sigs[i] = s])
     \/ \E n \in DOMAIN c.states :
          Put([c EXCEPT !.states = SubSeq(@, 1, n), !.sigs = SubSeq(@, 1, n - 1)])
     \/ Put([c EXCEPT !.states = Tail(@), !.sigs = IF @ = <<>> THEN @ ELSE Tail(@)])
     \/ \E s \in Schemes : Put([c EXCEPT !.scheme = s])
  /\ UNCHANGED <<handed, genesis>>

Next ==
  \/ \E sn \in Serials, v \in Values, w \in Wallets, s \in Schemes : Issue(sn, v, w, s)
  \/ \E c \in coins, signer, to \in Wallets : Transfer(c, signer, to)
  \/ \E c \in coins : Tamper(c)

Spec == Init /\ [][Next]_chainVars
-----------------------------------------------------------------------------
Sigs == [by : Wallets, scheme : 0..1, msg : Hash, len : {64, 2420}]
Coin == [serial : Serials, value : Values, states : Seq(State), sigs : Seq(Sigs),
         scheme : 0..1]

\* The types of the copies, and of what has been signed and registered.
TypeOK ==
  /\ coins \subseteq Coin
  /\ handed \subseteq Wallets \X Hash
  /\ genesis \in [Serials -> Hash]

Verified(c) == VerifyCoinChainAsync(c, genesis[c.serial]) = "ok"

\* A coin that a receiver's verification accepts was handed on, link by link,
\* by its owners themselves, however copies were cut, mixed, altered or extended
\* by others in between.
OnlyOwnersMoveCoins ==
  \A c \in coins : Verified(c) =>
    \A i \in 2..Len(c.states) :
      <<c.states[i-1].owner, StateHash(c.states[i])>> \in handed

\* The client's verification mirrors the program's: a coin accepted against the
\* registered genesis hash can be checked in, in any division into batches, as far
\* as a submission has room, and no further: a coin that verifies may have more
\* states than MAX_SUBMISSION_STATES, and then every batch that reaches beyond them
\* is refused (StatesFull) although the states before it were taken.
VerifiedCoinsCheckIn ==
  \A c \in coins : Verified(c) /\ genesis[c.serial] # ZeroHash =>
    LET st == c.states
        v == RegisteredValue(c.serial)
    IN /\ StartAccepts(st[1], c.serial, v, genesis[c.serial])
       /\ \A i \in DOMAIN st : \A j \in (i + 1)..Len(st) :
            i <= MaxSubmissionStates =>
              (BatchAccepted(SubSeq(st, 1, i), SubSeq(st, i + 1, j), c.serial, v)
                 <=> j <= MaxSubmissionStates)
       /\ Len(st) <= MaxSubmissionStates => FullChain(st, c.serial, v, genesis[c.serial])

\* No hand-over is lost: whatever an owner signed on a coin that verifies gives
\* its receiver a coin that verifies too (as long as the key is known).
HandOversVerify ==
  \A c \in coins : Verified(c) =>
    \A to \in Wallets : CurrentOwner(c) \in KnownKeys =>
      Verified(AppendLink(c, CurrentOwner(c), to))

\* Two verified copies of one coin part only at an owner that itself handed the
\* coin on twice: nobody forks a coin behind its owner's back.
ForksNameTheForker ==
  \A c, d \in coins : Verified(c) /\ Verified(d) /\ c.serial = d.serial =>
    \A i \in (DOMAIN c.states) \cap (DOMAIN d.states) :
      i > 1 /\ c.states[i] # d.states[i] /\ c.states[i-1] = d.states[i-1] =>
        Cardinality({h \in handed : /\ h[1] = c.states[i-1].owner
                                    /\ h[2] \in {StateHash(c.states[i]), StateHash(d.states[i])}}) = 2
=============================================================================
