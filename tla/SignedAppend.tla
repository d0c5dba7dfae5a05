----------------------------- MODULE SignedAppend -----------------------------
(***************************************************************************)
(* append_links with its signatures: the transaction appendLinksIxPair     *)
(* builds (an Ed25519 precompile in front of append_links), the records    *)
(* that tell the precompile where in append_links' data to read, and the   *)
(* commitments the program keeps of the signatures (verify_sig_commit).    *)
(*                                                                         *)
(* append_links itself reads no signature and does not ask for the         *)
(* precompile: it also lands alone, in either scheme, with whatever is in  *)
(* the signature fields.  That a batch is signed is a property of the pair *)
(* the SDK sends, because a transaction of two lands whole or not at all.  *)
(*                                                                         *)
(* The data is a set of chunks <<offset, width, contents>>; reading at an  *)
(* offset where no chunk of that width begins gives Unread.  A signature   *)
(* is its maker and the hash it is over.                                   *)
(***************************************************************************)
EXTENDS ObpState, SequencesExt, FiniteSets

CONSTANTS SigSchemes, \* values of Config.sig_scheme: 0 Ed25519, 1 ML-DSA
          Holders,    \* the wallets the coin passes through
          Value,      \* value of the coin
          MaxLinks,   \* Config.max_links_per_tx
          MaxChecks,  \* successful verify_sig_commit calls that are kept
          Unread      \* what the bytes at a wrong offset are

VARIABLES scheme,    \* Config.sig_scheme
          states,    \* Submission.states up to states_len
          commits,   \* Submission.sig_commits, by the code's index, from 0
          receiving, \* status is RECEIVING
          paired,    \* the states that came with the precompile, ghost
          checked    \* <<index, signature>> that verify_sig_commit accepted

appendVars == <<scheme, states, commits, receiving, paired, checked>>

Serial == CHOOSE sn \in Serials : TRUE
ZeroBytes == <<>>
Slots == 0..(MaxSubmissionStates - 1)

(* Signature fields of a link: 64 bytes, in scheme 1 the hash of the       *)
(* signature in the first 32 and zeros behind it.                          *)
Signatures(msgs) == [by : Holders, msg : msgs]
SigField(sig) == IF scheme = 0 THEN <<sig, sig>> ELSE <<<<"H", sig>>, ZeroBytes>>

\* Borsh: discriminator, serial, head_owner, number of links, the links of a
\* state and a signature each, last_hash.
LinkAt(i) == 8 + 32 + 32 + 4 + (i - 1) * (104 + 64)
LinkChunks(link, off) ==
  {<<off, 32, link.state.serial>>, <<off + 32, 8, link.state.value>>,
   <<off + 32 + 8, 32, link.state.owner>>, <<off + 32 + 8 + 32, 32, link.state.prev>>,
   <<off + 104, 64, link.sig>>}
AppendData(headOwner, links, lastHash) ==
  {<<8, 32, Serial>>, <<8 + 32, 32, headOwner>>, <<8 + 32 + 32, 4, Len(links)>>,
   <<LinkAt(Len(links) + 1), 32, lastHash>>}
  \cup UNION {LinkChunks(links[i], LinkAt(i)) : i \in DOMAIN links}

\* Mutant: every signature is checked under the owner of the head.
MutRecords(n) ==
  [i \in 1..n |->
    [sig |-> 76 + (i - 1) * 168 + 104,
     pub |-> 40,
     msg |-> IF i < n THEN 76 + i * 168 + 72 ELSE 76 + n * 168]]

\* Mutant: the message of the last link 32 bytes behind the links.
MutRecordsLast(n) ==
  [i \in 1..n |->
    [sig |-> 76 + (i - 1) * 168 + 104,
     pub |-> IF i = 1 THEN 40 ELSE 76 + (i - 2) * 168 + 40,
     msg |-> IF i < n THEN 76 + i * 168 + 72 ELSE 76 + n * 168 + 32]]

\* The records of appendLinksIxPair, i counted from 1.
Records(n) ==
  [i \in 1..n |->
    [sig |-> 76 + (i - 1) * 168 + 104,
     pub |-> IF i = 1 THEN 40 ELSE 76 + (i - 2) * 168 + 40,
     msg |-> IF i < n THEN 76 + i * 168 + 72 ELSE 76 + n * 168]]

\* The chunk of the data at an offset, as wide as what is read.
ReadAt(data, off, width) ==
  LET here == {c \in data : c[1] = off /\ c[2] = width}
  IN IF here = {} THEN Unread ELSE (CHOOSE c \in here : TRUE)[3]

\* The precompile: every record names a valid signature, or the transaction fails.
Precompile(data, recs) ==
  \A i \in DOMAIN recs :
    LET sig == ReadAt(data, recs[i].sig, 64)
    IN /\ sig # Unread
       /\ sig[1] = [by |-> ReadAt(data, recs[i].pub, 32), msg |-> ReadAt(data, recs[i].msg, 32)]
-----------------------------------------------------------------------------
\* start_check_in: any registered coin, here one per initial state.
AppendInit ==
  /\ scheme \in SigSchemes
  /\ \E w \in Holders : states = <<GenesisState(Serial, Value, w)>>
  /\ commits = [k \in Slots |-> ZeroBytes]
  /\ receiving = TRUE
  /\ paired = {} /\ checked = {}

\* The program's own requires of append_links.
Anchored(headOwner, links, lastHash) ==
  LET chain == <<Last(states)>> \o [i \in DOMAIN links |-> links[i].state] IN
  /\ receiving
  /\ Len(links) \in 1..MaxLinks
  /\ Len(states) + Len(links) <= MaxSubmissionStates
  /\ Last(states).owner = headOwner
  /\ \A i \in 2..Len(chain) : Follows(chain[i], chain[i-1], Serial, Value)
  /\ scheme = 1 => \A i \in DOMAIN links : links[i].sig[2] = ZeroBytes
  /\ StateHash(Last(chain)) = lastHash

\* Mutant: a batch is counted from the last stored state.
MutCommitsWith(links) ==
  [k \in Slots |-> LET i == k - Len(states) + 2 IN
                   IF i \in DOMAIN links THEN <<"H", links[i].sig>> ELSE commits[k]]

\* sig_commits[base + i], base the number of stored states and i from 0.
CommitsWith(links) ==
  [k \in Slots |-> LET i == k - Len(states) + 1 IN
                   IF i \in DOMAIN links THEN <<"H", links[i].sig>> ELSE commits[k]]

AppendLinks(headOwner, links, lastHash) ==
  /\ Anchored(headOwner, links, lastHash)
  /\ states' = states \o [i \in DOMAIN links |-> links[i].state]
  /\ commits' = CommitsWith(links)
  /\ UNCHANGED <<scheme, receiving, checked>>

\* What the SDK sends lands: with scheme 0 the precompile and append_links, with
\* scheme 1 append_links alone.
Lands(headOwner, links, lastHash) ==
  /\ Anchored(headOwner, links, lastHash)
  /\ scheme = 0 => Precompile(AppendData(headOwner, links, lastHash), Records(Len(links)))

\* The pair in one transaction.
AppendPair(headOwner, links, lastHash) ==
  /\ scheme = 0
  /\ Lands(headOwner, links, lastHash)
  /\ AppendLinks(headOwner, links, lastHash)
  /\ paired' = paired \cup (Len(states) + 1)..(Len(states) + Len(links))

\* append_links without the precompile.
AppendAlone(headOwner, links, lastHash) ==
  AppendLinks(headOwner, links, lastHash) /\ UNCHANGED paired

\* finalize_check_in: no links after it.
Finalize ==
  /\ receiving
  /\ receiving' = FALSE
  /\ UNCHANGED <<scheme, states, commits, paired, checked>>

\* idx counts from 0: it is that of states[idx + 1] here; the genesis has no link.
VerifySigCommit(idx, sig) ==
  /\ Cardinality(checked) < MaxChecks
  /\ idx >= 1 /\ idx + 1 <= Len(states)
  /\ commits[idx] = <<"H", sig>>
  /\ checked' = checked \cup {<<idx, sig>>}
  /\ UNCHANGED <<scheme, states, commits, receiving, paired>>

(* What callers pass: chains with owners, predecessor hashes, signatures,  *)
(* anchors and last hashes in any combination.                             *)
Chains(n) ==
  LET Ext(c) == {Append(c, [NextState(Last(c), w) EXCEPT !.prev = p]) :
                   w \in Holders, p \in {StateHash(Last(c)), StateHash(states[1])}}
      Grow[k \in 0..n] == IF k = 0 THEN {<<Last(states)>>} ELSE UNION {Ext(c) : c \in Grow[k-1]}
  IN {Tail(c) : c \in Grow[n]}

AppendSome(n) ==
  \E c \in Chains(n) :
    LET msgs == {StateHash(c[i]) : i \in 1..n} IN
    \E sigs \in [1..n -> Signatures(msgs)], headOwner \in Holders, lastHash \in msgs :
      LET links == [i \in 1..n |-> [state |-> c[i], sig |-> SigField(sigs[i])]] IN
      \/ AppendPair(headOwner, links, lastHash)
      \/ AppendAlone(headOwner, links, lastHash)

CheckSome ==
  \E idx \in Slots, j \in DOMAIN states, by \in Holders :
    VerifySigCommit(idx, SigField([by |-> by, msg |-> StateHash(states[j])]))

AppendNext ==
  \/ \E n \in 1..MaxLinks : AppendSome(n)
  \/ Finalize
  \/ CheckSome

AppendSpec == AppendInit /\ [][AppendNext]_appendVars
-----------------------------------------------------------------------------
SignedLink(i) == [by |-> states[i-1].owner, msg |-> StateHash(states[i])]

\* Every state that came in one of the SDK's pairs was signed over by the owner of
\* the state before it, and that signature is the one committed at its index: in
\* however many batches the chain came, paired or not, and whatever signatures,
\* anchors and hashes its callers put into the transactions.
PairsAreSigned ==
  \A i \in paired : commits[i-1] = <<"H", SigField(SignedLink(i))>>

\* SPEC 5.5, step 3: append_links verifies the signature of every link.  It does
\* not: what the pair carries is all that is known of a chain.
StatesAreSigned ==
  scheme = 0 => \A i \in 2..Len(states) : commits[i-1] = <<"H", SigField(SignedLink(i))>>

\* No hand-over is refused: while a submission receives and has room, the next
\* states of a coin, each signed by the owner before it, land as one batch with
\* the records the SDK computes, however many links the batch has.
SignedBatchesLand ==
  receiving => \A n \in 1..MaxLinks : Len(states) + n <= MaxSubmissionStates =>
    \A owners \in [1..n -> Holders] :
      LET st[i \in 0..n] == IF i = 0 THEN Last(states) ELSE NextState(st[i-1], owners[i])
      IN Lands(st[0].owner,
               [i \in 1..n |-> [state |-> st[i],
                                sig |-> SigField([by |-> st[i-1].owner, msg |-> StateHash(st[i])])]],
               StateHash(st[n]))

\* Track 1: a signature that verify_sig_commit accepted stays the one committed at
\* its index, whatever batches follow, and for a state that came in a pair it is
\* the signature of the owner before it and no other.
CommitsResolve ==
  \A c \in checked :
    /\ commits[c[1]] = <<"H", c[2]>>
    /\ c[1] + 1 \in paired => c[2] = SigField(SignedLink(c[1] + 1))
=============================================================================
