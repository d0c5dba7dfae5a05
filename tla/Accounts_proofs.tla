------------------------------ MODULE Accounts_proofs -------------------------------
(***************************************************************************)
(* Proofs about the accounts of the program as the SDK and the scripts see *)
(* them: the lists of accounts the builders write down (Instructions),     *)
(* what the parsers read out of an account's bytes (AccountReader) and     *)
(* what an upload puts into an account of post-quantum data (PqUpload).    *)
(* The facts about lists are those of SignedAppend_proofs.                 *)
(*                                                                         *)
(* The upload, for data of every length, chunks of every size the program  *)
(* accepts and any number of retries: a chunk puts into a cell what        *)
(* belongs there, whenever it lands and however often, so that cells once  *)
(* right stay right; what a script confirmed has landed, so that           *)
(* everything in front of its offset is right.  The one write that is not  *)
(* a chunk, the patch of the signature, is sent by the script that never   *)
(* tries again, so that nothing is left over that could undo it before it  *)
(* is measured.                                                            *)
(***************************************************************************)
EXTENDS AccountReader, Instructions, PqUpload, SignedAppend_proofs, FiniteSetTheorems

-----------------------------------------------------------------------------
(* The roles of a coin, in the chain as it is and as a caller has read it. *)

Roles == [checker : Parties, finalOwner : Parties]

RolesOk(c) ==
  /\ c[1] \in [Serials -> Parties \cup {None}]
  /\ c[2] \in [Serials -> [Attempts -> Roles \cup {NoSub}]]
  /\ c[3] \in [Serials -> Attempts \cup {NoHead}]
  /\ \A sn \in Serials : c[3][sn] \in Attempts => c[2][sn][c[3][sn]] \in Roles

\* The instruction of a coin was built with the roles that c gives.
BuiltForCoin(c) ==
  \E sn \in Serials, a \in Attempts :
    LET s == c[2][sn][a]
        o == IF c[3][sn] = Other(a) THEN c[2][sn][Other(a)].checker ELSE None
    IN
    \/ built = AppendLinksIx(sn, a)
    \/ c[3][sn] # a /\ built = FinalizeIx(sn, a, c[1][sn], s.checker, s.finalOwner, o)
    \/ built = SettleIx(sn, a, c[1][sn], s.checker, s.finalOwner)
    \/ built = VerifySigCommitIx(sn, a)
    \/ \E w \in Parties : built = StartCheckInIx(sn, a, w)

BuiltAlone ==
  \/ built \in {InitIx, PingIx, FundVaultIx, WithdrawVaultIx}
  \/ \E w \in Parties : built = SetAllowanceIx(w)
  \/ \E sn \in Serials, w \in Parties : built = MintCoinIx(sn, w)

\* What a caller has built says what it has read, also when the chain has
\* changed since; and the roles on the chain are those of wallets.
BuildersInv ==
  /\ RolesOk(chain)
  /\ built # NoIx => RolesOk(read) /\ (BuiltAlone \/ BuiltForCoin(read))

-----------------------------------------------------------------------------
\* The invariant of the builders holds at the start.
LEMMA BuildersStart == ASSUME BuildersInit PROVE BuildersInv
<1>1. RolesOk(chain)
  BY DEF BuildersInit, RolesOk, chain, Roles, NoSub, NoHead, Attempts
<1>. QED  BY <1>1 DEF BuildersInit, BuildersInv

\* A mint keeps it.
LEMMA MintedStep ==
  ASSUME BuildersInv, NEW sn \in Serials, NEW r \in Parties, Minted(sn, r)
  PROVE  BuildersInv'
<1>1. RolesOk(chain)'
  BY DEF BuildersInv, RolesOk, chain, Minted
<1>2. built' = built /\ read' = read
  BY DEF Minted
<1>. QED  BY <1>1, <1>2 DEF BuildersInv, BuiltAlone, BuiltForCoin

\* A start keeps it.
LEMMA StartedStep ==
  ASSUME BuildersInv, NEW sn \in Serials, NEW a \in Attempts, NEW r \in Parties,
         Started(sn, a, r)
  PROVE  BuildersInv'
<1>1. minted[sn] \in Parties
  BY DEF BuildersInv, RolesOk, chain, Started
<1>2. [checker |-> r, finalOwner |-> minted[sn]] \in Roles
  BY <1>1 DEF Roles
<1>3. RolesOk(chain)'
  <2> DEFINE new == [checker |-> r, finalOwner |-> minted[sn]]
  <2>1. subs' \in [Serials -> [Attempts -> Roles \cup {NoSub}]]
    BY <1>2 DEF BuildersInv, RolesOk, chain, Started
  <2>2. ASSUME NEW t \in Serials, head[t] \in Attempts PROVE subs'[t][head[t]] \in Roles
    BY <1>2, <2>2 DEF BuildersInv, RolesOk, chain, Started
  <2>. QED  BY <2>1, <2>2 DEF BuildersInv, RolesOk, chain, Started
<1>4. built' = built /\ read' = read
  BY DEF Started
<1>. QED  BY <1>3, <1>4 DEF BuildersInv, BuiltAlone, BuiltForCoin

\* An append keeps it.
LEMMA AppendedStep ==
  ASSUME BuildersInv, NEW sn \in Serials, NEW a \in Attempts, NEW w \in Parties,
         Appended(sn, a, w)
  PROVE  BuildersInv'
<1>1. subs[sn][a] \in Roles
  BY DEF BuildersInv, RolesOk, chain, Appended
<1>2. [subs[sn][a] EXCEPT !.finalOwner = w] \in Roles
  BY <1>1 DEF Roles
<1>3. RolesOk(chain)'
  <2>1. subs' = [subs EXCEPT ![sn] = [@ EXCEPT ![a] = [subs[sn][a] EXCEPT !.finalOwner = w]]]
    BY DEF Appended
  <2>2. subs' \in [Serials -> [Attempts -> Roles \cup {NoSub}]]
    BY <1>2, <2>1 DEF BuildersInv, RolesOk, chain
  <2>3. ASSUME NEW t \in Serials, head[t] \in Attempts PROVE subs'[t][head[t]] \in Roles
    BY <1>2, <2>1, <2>3 DEF BuildersInv, RolesOk, chain
  <2>. QED  BY <2>2, <2>3 DEF BuildersInv, RolesOk, chain, Appended
<1>4. built' = built /\ read' = read
  BY DEF Appended
<1>. QED  BY <1>3, <1>4 DEF BuildersInv, BuiltAlone, BuiltForCoin

\* A head that is set keeps it.
LEMMA HeadSetStep ==
  ASSUME BuildersInv, NEW sn \in Serials, NEW a \in Attempts, HeadSet(sn, a)
  PROVE  BuildersInv'
<1>1. subs[sn][a] \in Roles
  BY DEF BuildersInv, RolesOk, chain, HeadSet
<1>2. RolesOk(chain)'
  BY <1>1 DEF BuildersInv, RolesOk, chain, HeadSet
<1>3. built' = built /\ read' = read
  BY DEF HeadSet
<1>. QED  BY <1>2, <1>3 DEF BuildersInv, BuiltAlone, BuiltForCoin

\* A caller builds with what it has read just now.
LEMMA BuildStep ==
  ASSUME BuildersInv,
         \/ BuildSetup
         \/ \E sn \in Serials, a \in Attempts :
              BuildOnSubmission(sn, a) \/ \E r \in Parties : BuildStart(sn, a, r)
  PROVE  BuildersInv'
<1>1. chain' = chain /\ read' = chain
  BY DEF BuildSetup, BuildOnSubmission, BuildStart, Build
<1>2. RolesOk(chain)' /\ RolesOk(read)'
  BY <1>1 DEF BuildersInv, RolesOk
<1>3. CASE BuildSetup
  <2>1. BuiltAlone'
    BY <1>3 DEF BuildSetup, Build, BuiltAlone
  <2>. QED  BY <1>2, <2>1 DEF BuildersInv
<1>4. ASSUME NEW sn \in Serials, NEW a \in Attempts,
             BuildOnSubmission(sn, a) \/ \E r \in Parties : BuildStart(sn, a, r)
      PROVE  BuildersInv'
  <2>1. BuiltForCoin(read)'
    BY <1>1, <1>4 DEF BuildOnSubmission, BuildStart, Build, BuiltForCoin, chain
  <2>. QED  BY <1>2, <2>1 DEF BuildersInv
<1>. QED  BY <1>3, <1>4

\* Every step keeps it.
LEMMA BuildersStep == ASSUME BuildersInv, [BuildersNext]_ixVars PROVE BuildersInv'
<1>1. CASE UNCHANGED ixVars
  BY <1>1 DEF ixVars, BuildersInv, BuiltAlone, BuiltForCoin, RolesOk, chain
<1>2. CASE BuildersNext
  BY <1>2, MintedStep, StartedStep, AppendedStep, HeadSetStep, BuildStep DEF BuildersNext
<1>. QED  BY <1>1, <1>2

\* It holds throughout.
LEMMA BuildersHold == BuildersSpec => []BuildersInv
<1>1. BuildersInit => BuildersInv
  BY BuildersStart
<1>2. BuildersInv /\ [BuildersNext]_ixVars => BuildersInv'
  BY BuildersStep
<1>. QED  BY <1>1, <1>2, PTL DEF BuildersSpec

-----------------------------------------------------------------------------
(* Each list against what the program asks for. *)

\* Lists that are the same fit.
LEMMA SameAccepted ==
  ASSUME NEW ix, ix.keys = Accounts(ix) PROVE Accepts(ix)
<1>. DEFINE asked == Accounts(ix)
<1>1. Len(ix.keys) >= Len(asked)
  OBVIOUS
<1>. QED  BY <1>1 DEF Accepts

\* An instruction that names no coin's roles is accepted.
LEMMA AloneAccepted == ASSUME BuiltAlone PROVE Accepts(built)
<1>. USE DEF Accounts, Ix, Arg
<1>1. CASE built \in {InitIx, PingIx, FundVaultIx, WithdrawVaultIx}
  <2>1. ASSUME built = InitIx PROVE built.keys = Accounts(built)
    BY <2>1 DEF InitIx
  <2>2. ASSUME built = PingIx PROVE built.keys = Accounts(built)
    BY <2>2 DEF PingIx
  <2>3. ASSUME built = FundVaultIx PROVE built.keys = Accounts(built)
    BY <2>3 DEF FundVaultIx
  <2>4. ASSUME built = WithdrawVaultIx PROVE built.keys = Accounts(built)
    BY <2>4 DEF WithdrawVaultIx
  <2>. QED  BY <1>1, <2>1, <2>2, <2>3, <2>4, SameAccepted
<1>2. CASE \E w \in Parties : built = SetAllowanceIx(w)
  <2>1. built.keys = Accounts(built)
    BY <1>2 DEF SetAllowanceIx
  <2>. QED  BY <2>1, SameAccepted
<1>3. CASE \E sn \in Serials, w \in Parties : built = MintCoinIx(sn, w)
  <2>1. built.keys = Accounts(built)
    BY <1>3 DEF MintCoinIx
  <2>. QED  BY <2>1, SameAccepted
<1>. QED  BY <1>1, <1>2, <1>3 DEF BuiltAlone

\* The accounts of a payout are those the program asks for.
LEMMA PayoutAccepted ==
  ASSUME NEW sn, NEW a
  PROVE  PayoutKeys(sn, a, subs[sn][a].checker, subs[sn][a].finalOwner) = PayoutAccounts(sn, a)
BY DEF PayoutKeys, PayoutAccounts

\* Keys behind those that are asked for do no harm.
LEMMA MoreAccepted ==
  ASSUME NEW ix, NEW Q, NEW front \in Seq(Q), NEW more \in Seq(Q),
         Accounts(ix) = front, ix.keys = front \o more
  PROVE  Accepts(ix)
<1>1. /\ Len(front \o more) >= Len(front)
      /\ \A i \in 1..Len(front) : (front \o more)[i] = front[i]
  OBVIOUS
<1>2. DOMAIN front = 1..Len(front)
  OBVIOUS
<1>. QED  BY <1>1, <1>2 DEF Accepts

\* A finalize without the accounts of another submission carries four keys more
\* than the program asks for, behind those it looks at.
LEMMA FinalizeAccepted ==
  ASSUME BuildersInv, NEW sn \in Serials, NEW a \in Attempts,
         NEW o, o = IF head[sn] = Other(a) THEN subs[sn][Other(a)].checker ELSE None,
         head[sn] # a,
         built = FinalizeIx(sn, a, minted[sn], subs[sn][a].checker, subs[sn][a].finalOwner, o)
  PROVE  Accepts(built)
<1>. DEFINE start == <<Wm(Pda("config")), Wm(RegistryPda(sn)), Wm(HeadPda(sn))>>
            pay == PayoutAccounts(sn, a)
            end == <<Sm(Wallet(Payer)), W(Sys)>>
            front == start \o pay \o end
            other == <<Wm(SubmissionPda(sn, Other(a))), Wm(Ata(SubmissionPda(sn, Other(a)))),
                       Wm(Ata(Wallet(subs[sn][Other(a)].checker))), Wm(AllowancePda(minted[sn]))>>
            none == [i \in 1..4 |-> W(Program)]
<1>1. Accounts(built) = front \o IF head[sn] = NoHead THEN <<>> ELSE other
  BY DEF Accounts, FinalizeIx, Ix, Arg
<1>2. built.keys = front \o IF o = None THEN none ELSE
         <<Wm(SubmissionPda(sn, Other(a))), Wm(Ata(SubmissionPda(sn, Other(a)))),
           Wm(Ata(Wallet(o))), Wm(AllowancePda(minted[sn]))>>
  BY PayoutAccepted DEF FinalizeIx, Ix
<1>3. CASE head[sn] = NoHead
  <2>1. o = None
    BY <1>3 DEF NoHead, Other, Attempts
  <2>. DEFINE Q == {start[i] : i \in 1..3} \cup {pay[i] : i \in 1..9} \cup {end[i] : i \in 1..2}
                   \cup {W(Program)}
  <2>2. start \in Seq(Q) /\ end \in Seq(Q)
    OBVIOUS
  <2>3. pay \in Seq(Q)
    BY DEF PayoutAccounts
  <2>4. none \in Seq(Q)
    OBVIOUS
  <2>5. front \in Seq(Q)
    <3>. HIDE DEF Q, start, pay, end
    <3>. QED  BY <2>2, <2>3
  <2>6. built.keys = front \o none
    BY <1>2, <2>1
  <2>7. Accounts(built) = front
    <3>1. Accounts(built) = front \o <<>>
      BY <1>1, <1>3
    <3>. HIDE DEF Q, front
    <3>. QED  BY <3>1, <2>5
  <2>. HIDE DEF Q, front, none
  <2>. QED  BY <2>4, <2>5, <2>6, <2>7, MoreAccepted
<1>4. CASE head[sn] # NoHead
  <2>1. head[sn] = Other(a)
    BY <1>4 DEF BuildersInv, RolesOk, chain, Attempts, NoHead, Other
  <2>2. o = subs[sn][Other(a)].checker /\ o # None
    BY <2>1, NoneAssumption DEF BuildersInv, RolesOk, chain, Attempts, Other, Roles
  <2>3. built.keys = Accounts(built)
    BY <1>1, <1>2, <1>4, <2>1, <2>2
  <2>. QED  BY <2>3, SameAccepted
<1>. QED  BY <1>3, <1>4

\* The other instructions of a coin list just what is asked for.
LEMMA CoinAccepted ==
  ASSUME BuildersInv, built # NoIx, read = chain PROVE Accepts(built)
<1>1. CASE BuiltAlone
  BY <1>1, AloneAccepted
<1>2. CASE BuiltForCoin(chain)
  <2>1. PICK sn \in Serials, a \in Attempts :
          LET s == subs[sn][a]
              o == IF head[sn] = Other(a) THEN subs[sn][Other(a)].checker ELSE None
          IN
          \/ built = AppendLinksIx(sn, a)
          \/ head[sn] # a /\ built = FinalizeIx(sn, a, minted[sn], s.checker, s.finalOwner, o)
          \/ built = SettleIx(sn, a, minted[sn], s.checker, s.finalOwner)
          \/ built = VerifySigCommitIx(sn, a)
          \/ \E w \in Parties : built = StartCheckInIx(sn, a, w)
    BY <1>2 DEF BuiltForCoin, chain
  <2>2. CASE \/ built = AppendLinksIx(sn, a)
             \/ built = VerifySigCommitIx(sn, a)
             \/ \E w \in Parties : built = StartCheckInIx(sn, a, w)
    <3>1. ASSUME built = AppendLinksIx(sn, a) PROVE built.keys = Accounts(built)
      BY <3>1 DEF Accounts, Ix, Arg, AppendLinksIx
    <3>2. ASSUME built = VerifySigCommitIx(sn, a) PROVE built.keys = Accounts(built)
      BY <3>2 DEF Accounts, Ix, Arg, VerifySigCommitIx
    <3>3. ASSUME NEW w \in Parties, built = StartCheckInIx(sn, a, w)
          PROVE  built.keys = Accounts(built)
      BY <3>3 DEF Accounts, Ix, Arg, StartCheckInIx
    <3>. QED  BY <2>2, <3>1, <3>2, <3>3, SameAccepted
  <2>3. CASE built = SettleIx(sn, a, minted[sn], subs[sn][a].checker, subs[sn][a].finalOwner)
    <3>1. built.keys = Accounts(built)
      BY <2>3, PayoutAccepted DEF Accounts, Ix, Arg, SettleIx
    <3>. QED  BY <3>1, SameAccepted
  <2>. QED  BY <2>1, <2>2, <2>3, FinalizeAccepted
<1>. QED  BY <1>1, <1>2 DEF BuildersInv

\* instructions.ts: what a caller builds from accounts that have not changed since
\* it read them names, position by position, the accounts the program asks for,
\* with the flags it needs, also for a payout of a coin in dispute.
THEOREM FreshInstructionsAreFit == BuildersSpec => []FreshInstructionsFit
<1>1. BuildersInv => FreshInstructionsFit
  BY CoinAccepted DEF FreshInstructionsFit
<1>. QED  BY <1>1, BuildersHold, PTL

-----------------------------------------------------------------------------
(* Fields one behind the other. *)

\* What FlattenSeq computes of the first m parts of a list.
Flattens(f, m, parts) ==
  f = [i \in 1..m |-> IF i = 1 THEN parts[i] ELSE f[i - 1] \o parts[i]]

\* r is the first m parts one behind the other: part j, w[j] long, behind at[j].
Placed(r, m, parts, w, at) ==
  /\ IsList(r, at[m + 1])
  /\ \A j \in 1..m : \A k \in 1..w[j] : r[at[j] + k] = parts[j][k]

\* The places of parts of these lengths.
Places(n, w, at) ==
  /\ w \in [1..n -> Nat] /\ at \in [1..(n + 1) -> Nat]
  /\ at[1] = 0
  /\ \A j \in 1..n : at[j + 1] = at[j] + w[j]

\* One more part of a list of lists lies where the widths before it add up to.
LEMMA PlacedMore ==
  ASSUME NEW n \in Nat, NEW m \in 1..n, NEW parts, NEW w, NEW at, Places(n, w, at),
         NEW r, Placed(r, m - 1, parts, w, at), IsList(parts[m], w[m]),
         \A j \in 1..m : at[j] + w[j] <= at[m] \/ j = m
  PROVE  Placed(r \o parts[m], m, parts, w, at)
<1>. DEFINE q == r \o parts[m]
<1>1. at[m] \in Nat /\ w[m] \in Nat /\ at[m + 1] = at[m] + w[m]
  BY DEF Places
<1>2. Joined(q, r, at[m], parts[m], w[m])
  BY ListConcat DEF Placed
<1>3. IsList(q, at[m + 1])
  BY <1>1, <1>2 DEF Joined
<1>4. ASSUME NEW j \in 1..m, NEW k \in 1..w[j] PROVE q[at[j] + k] = parts[j][k]
  <2>. HIDE DEF q
  <2>1. CASE j = m
    BY <1>2, <2>1 DEF Joined
  <2>2. CASE j # m
    <3>1. j \in 1..(m - 1) /\ at[j] \in Nat /\ w[j] \in Nat
      BY <2>2 DEF Places
    <3>2. at[j] + k \in 1..at[m]
      BY <1>1, <2>2, <3>1
    <3>3. q[at[j] + k] = r[at[j] + k]
      BY <1>2, <3>2 DEF Joined
    <3>. QED  BY <3>1, <3>3 DEF Placed
  <2>. QED  BY <2>1, <2>2
<1>. HIDE DEF q
<1>5. Placed(q, m, parts, w, at)
  BY <1>3, <1>4 DEF Placed
<1>. QED  BY <1>5 DEF q

\* Places grow.
LEMMA PlacesGrow ==
  ASSUME NEW n \in Nat, NEW w, NEW at, Places(n, w, at), NEW m \in 1..n, NEW j \in 1..m
  PROVE  at[j] + w[j] <= at[m] \/ j = m
<1>. DEFINE B == {k \in Nat : \A i \in 1..k : k <= n => at[i] + w[i] <= at[k] \/ i = k}
<1>1. 0 \in B
  OBVIOUS
<1>2. ASSUME NEW k \in 1..n, k - 1 \in B PROVE k \in B
  <2>1. ASSUME NEW i \in 1..k, i # k PROVE at[i] + w[i] <= at[k]
    <3>1. i \in 1..(k - 1) /\ k - 1 \in 1..n /\ k - 1 <= n /\ (k - 1) + 1 = k
      BY <2>1
    <3>2. at[i] + w[i] <= at[k - 1] \/ i = k - 1
      BY <1>2, <3>1
    <3>3. at[k] = at[k - 1] + w[k - 1] /\ at[k - 1] \in Nat /\ w[k - 1] \in Nat
      BY <3>1 DEF Places
    <3>4. at[i] \in Nat /\ w[i] \in Nat
      BY <3>1 DEF Places
    <3>5. CASE i = k - 1
      BY <3>3, <3>5
    <3>. QED  BY <3>2, <3>3, <3>4, <3>5
  <2>. QED  BY <2>1
<1>. HIDE DEF B
<1>3. m \in B
  BY <1>1, <1>2, IntervalInduction
<1>. QED  BY <1>3 DEF B

\* The concatenation of parts, as a recursive function, exists.
LEMMA FlattensExists ==
  ASSUME NEW n \in Nat, NEW parts
  PROVE  \E f : Flattens(f, n, parts)
<1>. DEFINE B == {m \in Nat : \E f : Flattens(f, m, parts)}
<1>1. 0 \in B
  <2>. DEFINE f == [i \in 1..0 |-> IF i = 1 THEN parts[i] ELSE parts[i]]
  <2>1. Flattens(f, 0, parts)
    BY DEF Flattens
  <2>. QED  BY <2>1
<1>2. ASSUME NEW m \in 1..n, m - 1 \in B PROVE m \in B
  <2>1. PICK f : Flattens(f, m - 1, parts)
    BY <1>2
  <2>. DEFINE last == IF m = 1 THEN parts[m] ELSE f[m - 1] \o parts[m]
              g == [i \in 1..m |-> IF i = m THEN last ELSE f[i]]
  <2>2. \A i \in 1..(m - 1) : f[i] = IF i = 1 THEN parts[i] ELSE f[i - 1] \o parts[i]
    BY <2>1 DEF Flattens
  <2>3. ASSUME NEW i \in 1..m PROVE g[i] = IF i = 1 THEN parts[i] ELSE g[i - 1] \o parts[i]
    <3>1. i # 1 => i - 1 \in 1..m /\ i - 1 # m
      OBVIOUS
    <3>2. CASE i = m
      BY <3>1, <3>2
    <3>3. CASE i # m
      BY <2>2, <3>1, <3>3
    <3>. QED  BY <3>2, <3>3
  <2>4. g = [i \in 1..m |-> g[i]]
    OBVIOUS
  <2>. HIDE DEF g
  <2>5. Flattens(g, m, parts)
    BY <2>3, <2>4 DEF Flattens
  <2>. QED  BY <2>5
<1>. HIDE DEF B
<1>3. n \in B
  BY <1>1, <1>2, IntervalInduction
<1>. QED  BY <1>3 DEF B

\* Parts of these lengths one behind the other are at these places.
LEMMA FlattenPlaces ==
  ASSUME NEW n \in Nat \ {0}, NEW parts, Len(parts) = n, NEW w, NEW at, Places(n, w, at),
         \A j \in 1..n : IsList(parts[j], w[j])
  PROVE  Placed(FlattenSeq(parts), n, parts, w, at)
<1>. DEFINE f == CHOOSE g : Flattens(g, n, parts)
<1>1. Flattens(f, n, parts)
  BY FlattensExists
<1>2. FlattenSeq(parts) = f[n]
  BY DEF FlattenSeq, Flattens
<1>. HIDE DEF f
<1>3. \A i \in 1..n : f[i] = IF i = 1 THEN parts[i] ELSE f[i - 1] \o parts[i]
  BY <1>1 DEF Flattens
<1>. DEFINE B == {m \in Nat : m = 0 \/ Placed(f[m], m, parts, w, at)}
<1>4. 0 \in B
  OBVIOUS
<1>5. ASSUME NEW m \in 1..n, m - 1 \in B PROVE m \in B
  <2>0. m \in Nat /\ IsList(parts[m], w[m]) /\ \A j \in 1..m : at[j] + w[j] <= at[m] \/ j = m
    BY PlacesGrow
  <2>1. CASE m = 1
    <3>2. at[1] = 0 /\ at[1 + 1] = w[1] /\ w[1] \in Nat
      BY DEF Places
    <3>3. IsList(parts[1], at[1 + 1])
      BY <2>0, <2>1, <3>2
    <3>4. Placed(parts[1], 1, parts, w, at)
      BY <3>2, <3>3 DEF Placed
    <3>5. Placed(f[1], 1, parts, w, at)
      BY <1>3, <3>4
    <3>. QED  BY <2>1, <3>5
  <2>2. CASE m # 1
    <3>1. Placed(f[m - 1], m - 1, parts, w, at)
      BY <1>5, <2>2
    <3>2. Placed(f[m - 1] \o parts[m], m, parts, w, at)
      BY <2>0, <3>1, PlacedMore
    <3>3. f[m] = f[m - 1] \o parts[m]
      BY <1>3, <2>2
    <3>. QED  BY <2>0, <3>2, <3>3
  <2>. QED  BY <2>1, <2>2
<1>. HIDE DEF B
<1>6. n \in B
  BY <1>4, <1>5, IntervalInduction
<1>. QED  BY <1>2, <1>6 DEF B

-----------------------------------------------------------------------------
(* The fields of an account in its bytes. *)

\* The struct of a kind: n fields, w[j] wide, behind byte at[j] of the struct.
LaidOut(k, n, w, at) ==
  /\ n \in Nat \ {0}
  /\ Places(n, w, at)
  /\ IsList(Struct[k], n)
  /\ \A j \in 1..n : w[j] = Struct[k][j][3]

\* Byte i of field j with the contents that acc gives it.
Cell(k, acc, j, i) == <<Name(Struct[k][j]), acc[Name(Struct[k][j])], i>>

FieldCells(k, acc, j, width) == [i \in 1..width |-> Cell(k, acc, j, i)]

\* The fields are behind the 8 bytes of the discriminator.
InPlace(b, k, acc, n, w, at) ==
  /\ IsList(b, 8 + at[n + 1])
  /\ \A j \in 1..n : \A i \in 1..w[j] : b[8 + at[j] + i] = Cell(k, acc, j, i)

\* Every byte of an account lies in its field's place.
LEMMA BytesWritten ==
  ASSUME NEW k, NEW acc, NEW n, NEW w, NEW at, LaidOut(k, n, w, at)
  PROVE  InPlace(Bytes(k, acc), k, acc, n, w, at)
<1>. DEFINE parts == [j \in DOMAIN Struct[k] |-> [i \in 1..Struct[k][j][3] |->
                        <<Name(Struct[k][j]), acc[Name(Struct[k][j])], i>>]]
            disc == [i \in 1..8 |-> <<"disc", k, i>>]
            body == FlattenSeq(parts)
<1>0. n \in Nat \ {0} /\ Places(n, w, at) /\ IsList(Struct[k], n)
  BY DEF LaidOut
<1>1. DOMAIN Struct[k] = 1..n /\ IsList(parts, n)
  BY <1>0 DEF IsList
<1>2. Len(parts) = n
  BY <1>1, ListLen
<1>3. ASSUME NEW j \in 1..n
      PROVE  IsList(parts[j], w[j]) /\ \A i \in 1..w[j] : parts[j][i] = Cell(k, acc, j, i)
  BY <1>1, <1>0 DEF LaidOut, IsList, Cell, Places
<1>4. Bytes(k, acc) = disc \o body
  BY DEF Bytes
<1>5. IsList(disc, 8)
  BY DEF IsList
<1>. HIDE DEF parts, disc, body
<1>6. Placed(body, n, parts, w, at)
  BY <1>0, <1>2, <1>3, FlattenPlaces DEF body
<1>7. Joined(disc \o body, disc, 8, body, at[n + 1])
  BY <1>5, <1>6, ListConcat DEF Placed
<1>8. IsList(disc \o body, 8 + at[n + 1])
  BY <1>7 DEF Joined
<1>9. ASSUME NEW j \in 1..n, NEW i \in 1..w[j]
      PROVE  (disc \o body)[8 + at[j] + i] = Cell(k, acc, j, i)
  <2>1. at[j] \in Nat /\ w[j] \in Nat /\ at[n] \in Nat /\ w[n] \in Nat /\ at[n + 1] = at[n] + w[n]
    BY <1>0 DEF Places
  <2>2. at[j] + w[j] <= at[n] \/ j = n
    BY <1>0, PlacesGrow
  <2>3. at[j] + i \in 1..at[n + 1]
    BY <2>1, <2>2
  <2>4. (disc \o body)[8 + (at[j] + i)] = body[at[j] + i]
    BY <1>7, <2>3 DEF Joined
  <2>5. 8 + (at[j] + i) = 8 + at[j] + i
    BY <2>1
  <2>6. body[at[j] + i] = parts[j][i]
    BY <1>6 DEF Placed
  <2>. QED  BY <1>3, <2>4, <2>5, <2>6
<1>. QED  BY <1>4, <1>8, <1>9 DEF InPlace

\* A cut that is the place of a field reads that field.
LEMMA CutReads ==
  ASSUME NEW k, NEW acc, NEW n, NEW w, NEW at, LaidOut(k, n, w, at),
         NEW b, InPlace(b, k, acc, n, w, at), NEW j \in 1..n
  PROVE  SubSeq(b, 8 + at[j] + 1, 8 + at[j] + w[j]) = FieldCells(k, acc, j, w[j])
<1>1. at[j] \in Nat /\ w[j] \in Nat /\ at[n] \in Nat /\ w[n] \in Nat /\ at[n + 1] = at[n] + w[n]
  BY DEF LaidOut, Places
<1>2. at[j] + w[j] <= at[n] \/ j = n
  BY PlacesGrow DEF LaidOut
<1>. DEFINE T == {b[i] : i \in 1..(8 + at[n + 1])}
<1>3. b \in Seq(T) /\ Len(b) = 8 + at[n + 1]
  <2>1. b \in [1..(8 + at[n + 1]) -> T] /\ 8 + at[n + 1] \in Nat
    BY <1>1 DEF InPlace, IsList
  <2>. HIDE DEF T
  <2>. QED  BY <2>1
<1>. HIDE DEF T
<1>. DEFINE m == 8 + at[j]
<1>4. m \in Nat /\ m + w[j] <= 8 + at[n + 1]
  <2>1. CASE j = n
    BY <1>1, <2>1
  <2>2. CASE j # n
    BY <1>1, <1>2, <2>2
  <2>. QED  BY <2>1, <2>2
<1>. HIDE DEF m
<1>5. SubSeq(b, m + 1, m + w[j]) = [i \in 1..w[j] |-> b[m + i]]
  BY <1>1, <1>3, <1>4
<1>6. \A i \in 1..w[j] : b[m + i] = Cell(k, acc, j, i)
  BY DEF InPlace, m
<1>. QED  BY <1>5, <1>6 DEF m, FieldCells

\* Every cut of a parser is the place of a field.
CutsFit(k, s, n, w, at) ==
  \A c \in Cuts(k, s, 8 + at[n + 1]) :
    \E j \in 1..n : c = <<Name(Struct[k][j]), 8 + at[j], w[j]>>

\* What is read out of an account whose fields are acc.
GoodRead(k, acc, fields) ==
  \A f \in DOMAIN fields :
    \E i \in DOMAIN Struct[k] :
      /\ Name(Struct[k][i]) = f
      /\ fields[f] = [m \in 1..Struct[k][i][3] |-> <<f, acc[f], m>>]

\* Parsers whose cuts are places of fields read the fields.
LEMMA ParseReads ==
  ASSUME NEW k, NEW acc, NEW s, NEW n, NEW w, NEW at, LaidOut(k, n, w, at),
         CutsFit(k, s, n, w, at)
  PROVE  GoodRead(k, acc, Parse(k, Bytes(k, acc), s))
<1>. DEFINE b == Bytes(k, acc)
            cuts == Cuts(k, s, Len(b))
            cut(f) == CHOOSE x \in cuts : x[1] = f
            fields == [f \in {c[1] : c \in cuts} |->
                         SubSeq(b, cut(f)[2] + 1, cut(f)[2] + cut(f)[3])]
<1>1. InPlace(b, k, acc, n, w, at)
  BY BytesWritten
<1>2. Len(b) = 8 + at[n + 1]
  BY <1>1, ListLen DEF InPlace
<1>3. Parse(k, b, s) = fields
  BY DEF Parse
<1>. HIDE DEF b
<1>4. ASSUME NEW f \in {c[1] : c \in cuts}
      PROVE  \E i \in DOMAIN Struct[k] :
               /\ Name(Struct[k][i]) = f
               /\ fields[f] = [m \in 1..Struct[k][i][3] |-> <<f, acc[f], m>>]
  <2>1. PICK c \in cuts : c[1] = f /\ fields[f] = SubSeq(b, c[2] + 1, c[2] + c[3])
    <3>1. cut(f) \in cuts /\ cut(f)[1] = f
      OBVIOUS
    <3>. DEFINE d == cut(f)
    <3>2. fields[f] = SubSeq(b, d[2] + 1, d[2] + d[3])
      OBVIOUS
    <3>. QED  BY <3>1, <3>2
  <2>. HIDE DEF fields, cuts
  <2>2. PICK j \in 1..n : c = <<Name(Struct[k][j]), 8 + at[j], w[j]>>
    BY <1>2 DEF CutsFit, cuts
  <2>3. c[1] = Name(Struct[k][j]) /\ c[2] = 8 + at[j] /\ c[3] = w[j]
    BY <2>2
  <2>4. SubSeq(b, 8 + at[j] + 1, 8 + at[j] + w[j]) = FieldCells(k, acc, j, w[j])
    BY <1>1, CutReads
  <2>5. fields[f] = FieldCells(k, acc, j, w[j])
    BY <2>1, <2>3, <2>4
  <2>6. j \in DOMAIN Struct[k] /\ w[j] = Struct[k][j][3] /\ Name(Struct[k][j]) = f
    BY <2>1, <2>3 DEF LaidOut, IsList
  <2>7. FieldCells(k, acc, j, w[j]) = [m \in 1..Struct[k][j][3] |-> <<f, acc[f], m>>]
    BY <2>6 DEF FieldCells, Cell
  <2>8. fields[f] = [m \in 1..Struct[k][j][3] |-> <<f, acc[f], m>>]
    BY <2>5, <2>7
  <2>. QED  BY <2>6, <2>8
<1>5. DOMAIN fields = {c[1] : c \in cuts}
  OBVIOUS
<1>. HIDE DEF fields, cuts
<1>6. GoodRead(k, acc, fields)
  BY <1>4, <1>5 DEF GoodRead
<1>. QED  BY <1>3, <1>6 DEF b

-----------------------------------------------------------------------------
(* The layout of each kind of account. *)

\* The place of a field, as the parsers write it down.
Place(k, w, at, j) == <<Name(Struct[k][j]), 8 + at[j], w[j]>>

\* Cuts that are places of fields fit.
LEMMA CutsArePlaces ==
  ASSUME NEW k, NEW s, NEW n, NEW w, NEW at,
         \A c \in Cuts(k, s, 8 + at[n + 1]) : \E j \in 1..n : c = Place(k, w, at, j)
  PROVE  CutsFit(k, s, n, w, at)
BY DEF CutsFit, Place

\* The parser of the config.
LEMMA ConfigRead ==
  ASSUME NEW acc, NEW s PROVE GoodRead("config", acc, Parse("config", Bytes("config", acc), s))
<1>. DEFINE w == <<32, 32, 4, 8, 2, 8, 8, 1, 1>>
            at == <<0, 32, 64, 68, 76, 78, 86, 94, 95, 96>>
<1>1. Places(9, w, at)
  BY DEF Places
<1>2. LaidOut("config", 9, w, at)
  BY <1>1 DEF LaidOut, IsList, Struct, Field
<1>3. Cuts("config", s, 8 + at[9 + 1]) = Offsets["config"]
  BY DEF Cuts
<1>4. ASSUME NEW c \in Offsets["config"] PROVE \E j \in 1..9 : c = Place("config", w, at, j)
  <2>. USE DEF Place, Struct, Field, Name, At
  <2>1. At("mintAuthority", 8, 32) = Place("config", w, at, 1)
    OBVIOUS
  <2>2. At("vaultMint", 40, 32) = Place("config", w, at, 2)
    OBVIOUS
  <2>3. At("bondMultiplierBps", 72, 4) = Place("config", w, at, 3)
    OBVIOUS
  <2>4. At("challengeWindowSlots", 76, 8) = Place("config", w, at, 4)
    OBVIOUS
  <2>5. At("maxLinksPerTx", 84, 2) = Place("config", w, at, 5)
    OBVIOUS
  <2>6. At("defaultAllowance", 86, 8) = Place("config", w, at, 6)
    OBVIOUS
  <2>7. At("totalUnspentSupply", 94, 8) = Place("config", w, at, 7)
    OBVIOUS
  <2>8. At("sigScheme", 102, 1) = Place("config", w, at, 8)
    OBVIOUS
  <2>9. At("bump", 103, 1) = Place("config", w, at, 9)
    OBVIOUS
  <2>. HIDE DEF Place, At, w, at
  <2>. QED  BY <2>1, <2>2, <2>3, <2>4, <2>5, <2>6, <2>7, <2>8, <2>9 DEF Offsets
<1>. HIDE DEF w, at
<1>5. CutsFit("config", s, 9, w, at)
  BY <1>3, <1>4, CutsArePlaces
<1>. QED  BY <1>2, <1>5, ParseReads

\* The parser of a coin's registry account.
LEMMA RegistryRead ==
  ASSUME NEW acc, NEW s PROVE GoodRead("registry", acc, Parse("registry", Bytes("registry", acc), s))
<1>. DEFINE w == <<32, 8, 32, 8, 64, 32, 1, 1, 1>>
            at == <<0, 32, 40, 72, 80, 144, 176, 177, 178, 179>>
<1>1. Places(9, w, at)
  BY DEF Places
<1>2. LaidOut("registry", 9, w, at)
  BY <1>1 DEF LaidOut, IsList, Struct, Field
<1>3. Cuts("registry", s, 8 + at[9 + 1]) = Offsets["registry"]
  BY DEF Cuts
<1>4. ASSUME NEW c \in Offsets["registry"] PROVE \E j \in 1..9 : c = Place("registry", w, at, j)
  <2>. USE DEF Place, Struct, Field, Name, At
  <2>1. At("serial", 8, 32) = Place("registry", w, at, 1)
    OBVIOUS
  <2>2. At("value", 40, 8) = Place("registry", w, at, 2)
    OBVIOUS
  <2>3. At("genesisStateHash", 48, 32) = Place("registry", w, at, 3)
    OBVIOUS
  <2>4. At("mintSlot", 80, 8) = Place("registry", w, at, 4)
    OBVIOUS
  <2>5. At("mintTx", 88, 64) = Place("registry", w, at, 5)
    OBVIOUS
  <2>6. At("recipient", 152, 32) = Place("registry", w, at, 6)
    OBVIOUS
  <2>7. At("status", 184, 1) = Place("registry", w, at, 7)
    OBVIOUS
  <2>8. At("submissionsCount", 185, 1) = Place("registry", w, at, 8)
    OBVIOUS
  <2>9. At("bump", 186, 1) = Place("registry", w, at, 9)
    OBVIOUS
  <2>. HIDE DEF Place, At, w, at
  <2>. QED  BY <2>1, <2>2, <2>3, <2>4, <2>5, <2>6, <2>7, <2>8, <2>9 DEF Offsets
<1>. HIDE DEF w, at
<1>5. CutsFit("registry", s, 9, w, at)
  BY <1>3, <1>4, CutsArePlaces
<1>. QED  BY <1>2, <1>5, ParseReads

\* The parser of a head.
LEMMA HeadRead ==
  ASSUME NEW acc, NEW s PROVE GoodRead("head", acc, Parse("head", Bytes("head", acc), s))
<1>. DEFINE w == <<1, 104, 1, 2, 8, 1>>
            at == <<0, 1, 105, 106, 108, 116, 117>>
<1>1. Places(6, w, at)
  BY DEF Places
<1>2. LaidOut("head", 6, w, at)
  BY <1>1 DEF LaidOut, IsList, Struct, Field
<1>3. Cuts("head", s, 8 + at[6 + 1]) = Offsets["head"]
  BY DEF Cuts
<1>4. ASSUME NEW c \in Offsets["head"] PROVE \E j \in 1..6 : c = Place("head", w, at, j)
  <2>. USE DEF Place, Struct, Field, Name, At
  <2>1. At("set", 8, 1) = Place("head", w, at, 1)
    OBVIOUS
  <2>2. At("headState", 9, 104) = Place("head", w, at, 2)
    OBVIOUS
  <2>3. At("headAttempt", 113, 1) = Place("head", w, at, 3)
    OBVIOUS
  <2>4. At("headStatesLen", 114, 2) = Place("head", w, at, 4)
    OBVIOUS
  <2>5. At("pendingSinceSlot", 116, 8) = Place("head", w, at, 5)
    OBVIOUS
  <2>6. At("bump", 124, 1) = Place("head", w, at, 6)
    OBVIOUS
  <2>. HIDE DEF Place, At, w, at
  <2>. QED  BY <2>1, <2>2, <2>3, <2>4, <2>5, <2>6 DEF Offsets
<1>. HIDE DEF w, at
<1>5. CutsFit("head", s, 6, w, at)
  BY <1>3, <1>4, CutsArePlaces
<1>. QED  BY <1>2, <1>5, ParseReads

\* The parser of an allowance.
LEMMA AllowanceRead ==
  ASSUME NEW acc, NEW s PROVE GoodRead("allowance", acc, Parse("allowance", Bytes("allowance", acc), s))
<1>. DEFINE w == <<8, 8, 1, 1>>
            at == <<0, 8, 16, 17, 18>>
<1>1. Places(4, w, at)
  BY DEF Places
<1>2. LaidOut("allowance", 4, w, at)
  BY <1>1 DEF LaidOut, IsList, Struct, Field
<1>3. Cuts("allowance", s, 8 + at[4 + 1]) = Offsets["allowance"]
  BY DEF Cuts
<1>4. ASSUME NEW c \in Offsets["allowance"] PROVE \E j \in 1..4 : c = Place("allowance", w, at, j)
  <2>. USE DEF Place, Struct, Field, Name, At
  <2>1. At("cap", 8, 8) = Place("allowance", w, at, 1)
    OBVIOUS
  <2>2. At("committed", 16, 8) = Place("allowance", w, at, 2)
    OBVIOUS
  <2>3. At("initialized", 24, 1) = Place("allowance", w, at, 3)
    OBVIOUS
  <2>4. At("bump", 25, 1) = Place("allowance", w, at, 4)
    OBVIOUS
  <2>. HIDE DEF Place, At, w, at
  <2>. QED  BY <2>1, <2>2, <2>3, <2>4 DEF Offsets
<1>. HIDE DEF w, at
<1>5. CutsFit("allowance", s, 4, w, at)
  BY <1>3, <1>4, CutsArePlaces
<1>. QED  BY <1>2, <1>5, ParseReads

\* A submission: nine fields, four states, four commitments and the bump.
SubmissionHead ==
  <<Field("serial", 32), Field("attempt", 1), Field("checker", 32), Field("finalOwner", 32),
    Field("linksCount", 2), Field("startedSlot", 8), Field("finalizedSlot", 8),
    Field("status", 1), Field("statesLen", 2)>>

\* The fields of a submission, in order.
LEMMA SubmissionStruct ==
  /\ IsList(Struct["submission"], 18)
  /\ \A j \in 1..9 : Struct["submission"][j] = SubmissionHead[j]
  /\ \A i \in 1..4 : Struct["submission"][9 + i] = <<"state", i, 104>>
  /\ \A i \in 1..4 : Struct["submission"][13 + i] = <<"sigCommit", i, 32>>
  /\ Struct["submission"][18] = Field("bump", 1)
<1>. DEFINE st == Repeat("state", 4, 104)
            sc == Repeat("sigCommit", 4, 32)
            bump == <<Field("bump", 1)>>
<1>1. IsList(SubmissionHead, 9) /\ IsList(st, 4) /\ IsList(sc, 4) /\ IsList(bump, 1)
  BY DEF IsList, SubmissionHead, Repeat
<1>2. /\ \A i \in 1..4 : st[i] = <<"state", i, 104>> /\ sc[i] = <<"sigCommit", i, 32>>
      /\ bump[1] = Field("bump", 1)
  BY DEF Repeat
<1>3. Struct["submission"] = ((SubmissionHead \o st) \o sc) \o bump
  BY DEF Struct, SubmissionFields, SubmissionHead
<1>. HIDE DEF st, sc, bump
<1>. DEFINE a == SubmissionHead \o st
            b == a \o sc
            c == b \o bump
<1>4. Joined(a, SubmissionHead, 9, st, 4)
  BY <1>1, ListConcat
<1>5. IsList(a, 13)
  BY <1>4 DEF Joined
<1>. HIDE DEF a
<1>6. Joined(b, a, 13, sc, 4)
  BY <1>1, <1>5, ListConcat
<1>7. IsList(b, 17)
  BY <1>6 DEF Joined
<1>. HIDE DEF b
<1>8. Joined(c, b, 17, bump, 1)
  BY <1>1, <1>7, ListConcat
<1>. HIDE DEF c
<1>9. IsList(c, 18)
  BY <1>8 DEF Joined
<1>10. \A j \in 1..9 : c[j] = SubmissionHead[j]
  BY <1>4, <1>6, <1>8 DEF Joined
<1>11. \A i \in 1..4 : c[9 + i] = st[i]
  BY <1>4, <1>6, <1>8 DEF Joined
<1>12. \A i \in 1..4 : c[13 + i] = sc[i]
  BY <1>6, <1>8 DEF Joined
<1>13. c[18] = bump[1]
  BY <1>8 DEF Joined
<1>14. Struct["submission"] = c
  BY <1>3 DEF a, b, c
<1>. QED  BY <1>2, <1>9, <1>10, <1>11, <1>12, <1>13, <1>14

\* For every number of states that fits.
LEMMA SubmissionRead ==
  ASSUME NEW acc, NEW s \in 0..4
  PROVE  GoodRead("submission", acc, Parse("submission", Bytes("submission", acc), s))
<1>. DEFINE w == <<32, 1, 32, 32, 2, 8, 8, 1, 2, 104, 104, 104, 104, 32, 32, 32, 32, 1>>
            at == <<0, 32, 33, 65, 97, 99, 107, 115, 116, 118, 222, 326, 430, 534, 566, 598, 630, 662, 663>>
<1>1. Places(18, w, at)
  BY DEF Places
<1>2. ASSUME NEW j \in 1..18 PROVE w[j] = Struct["submission"][j][3]
  <2>1. CASE j \in 1..9
    BY <2>1, SubmissionStruct DEF SubmissionHead, Field
  <2>2. CASE j \in 10..13
    <3>1. PICK i \in 1..4 : j = 9 + i
      BY <2>2
    <3>. QED  BY <3>1, SubmissionStruct
  <2>3. CASE j \in 14..17
    <3>1. PICK i \in 1..4 : j = 13 + i
      BY <2>3
    <3>. QED  BY <3>1, SubmissionStruct
  <2>4. CASE j = 18
    BY <2>4, SubmissionStruct DEF Field
  <2>. QED  BY <2>1, <2>2, <2>3, <2>4
<1>3. LaidOut("submission", 18, w, at)
  BY <1>1, <1>2, SubmissionStruct DEF LaidOut
<1>4. at[18 + 1] = 663 /\ 8 + at[18 + 1] = 671
  OBVIOUS
<1>5. SubmissionTail(s, 671) =
        {<<<<"state", i>>, 126 + (i - 1) * 104, 104>> : i \in 1..s}
        \cup {<<<<"sigCommit", i>>, 542 + (i - 1) * 32, 32>> : i \in 1..4}
        \cup {At("bump", 670, 1)}
  BY DEF SubmissionTail
<1>6. ASSUME NEW c \in Offsets["submission"]
      PROVE  \E j \in 1..18 : c = Place("submission", w, at, j)
  <2>0. \A j \in 1..9 : Name(Struct["submission"][j]) = Name(SubmissionHead[j])
    BY SubmissionStruct
  <2>1. At("serial", 8, 32) = Place("submission", w, at, 1)
    BY <2>0 DEF Place, SubmissionHead, Field, Name, At
  <2>2. At("attempt", 40, 1) = Place("submission", w, at, 2)
    BY <2>0 DEF Place, SubmissionHead, Field, Name, At
  <2>3. At("checker", 41, 32) = Place("submission", w, at, 3)
    BY <2>0 DEF Place, SubmissionHead, Field, Name, At
  <2>4. At("finalOwner", 73, 32) = Place("submission", w, at, 4)
    BY <2>0 DEF Place, SubmissionHead, Field, Name, At
  <2>5. At("linksCount", 105, 2) = Place("submission", w, at, 5)
    BY <2>0 DEF Place, SubmissionHead, Field, Name, At
  <2>6. At("startedSlot", 107, 8) = Place("submission", w, at, 6)
    BY <2>0 DEF Place, SubmissionHead, Field, Name, At
  <2>7. At("finalizedSlot", 115, 8) = Place("submission", w, at, 7)
    BY <2>0 DEF Place, SubmissionHead, Field, Name, At
  <2>8. At("status", 123, 1) = Place("submission", w, at, 8)
    BY <2>0 DEF Place, SubmissionHead, Field, Name, At
  <2>9. At("statesLen", 124, 2) = Place("submission", w, at, 9)
    BY <2>0 DEF Place, SubmissionHead, Field, Name, At
  <2>. HIDE DEF w, at
  <2>. QED  BY <2>1, <2>2, <2>3, <2>4, <2>5, <2>6, <2>7, <2>8, <2>9 DEF Offsets
<1>7. ASSUME NEW c \in SubmissionTail(s, 671)
      PROVE  \E j \in 1..18 : c = Place("submission", w, at, j)
  <2>1. ASSUME NEW i \in 1..4
        PROVE  /\ <<<<"state", i>>, 126 + (i - 1) * 104, 104>> = Place("submission", w, at, 9 + i)
               /\ <<<<"sigCommit", i>>, 542 + (i - 1) * 32, 32>> = Place("submission", w, at, 13 + i)
    <3>1. Name(Struct["submission"][9 + i]) = <<"state", i>>
      BY SubmissionStruct DEF Name
    <3>2. Name(Struct["submission"][13 + i]) = <<"sigCommit", i>>
      BY SubmissionStruct DEF Name
    <3>3. 8 + at[9 + i] = 126 + (i - 1) * 104 /\ w[9 + i] = 104
      OBVIOUS
    <3>4. 8 + at[13 + i] = 542 + (i - 1) * 32 /\ w[13 + i] = 32
      OBVIOUS
    <3>. QED  BY <3>1, <3>2, <3>3, <3>4 DEF Place
  <2>2. At("bump", 670, 1) = Place("submission", w, at, 18)
    BY SubmissionStruct DEF Place, At, Name, Field
  <2>3. 1..s \subseteq 1..4 /\ \A i \in 1..4 : 9 + i \in 1..18 /\ 13 + i \in 1..18
    OBVIOUS
  <2>. HIDE DEF w, at
  <2>. QED  BY <1>5, <2>1, <2>2, <2>3
<1>. HIDE DEF w, at
<1>8. Cuts("submission", s, 671) = Offsets["submission"] \cup SubmissionTail(s, 671)
  BY DEF Cuts
<1>9. CutsFit("submission", s, 18, w, at)
  BY <1>4, <1>6, <1>7, <1>8, CutsArePlaces
<1>. QED  BY <1>3, <1>9, ParseReads

-----------------------------------------------------------------------------
(* The reader. *)

KindsToday == {"config", "registry", "head", "allowance", "submission"}

\* The fields an account of the kind can have: a submission stores four states.
Stored(k, acc) == DOMAIN acc = FieldsOf(k) /\ StatesLen(k, acc) \in 0..4

\* An account that is there has all its fields, and what has been read is what
\* the parser makes of the bytes of such an account, though not of this one.
ReaderInv ==
  /\ kind \in Kinds
  /\ account # Absent => Stored(kind, account)
  /\ view.got = "fields" =>
       /\ Stored(kind, view.from)
       /\ view.fields = Parse(kind, Bytes(kind, view.from), StatesLen(kind, view.from))

\* The number of states is a field of a submission.
LEMMA StatesLenIsField ==
  <<"statesLen", 0>> \in FieldsOf("submission")
<1>1. 9 \in DOMAIN Struct["submission"] /\ Name(Struct["submission"][9]) = <<"statesLen", 0>>
  BY SubmissionStruct DEF SubmissionHead, Field, Name, IsList
<1>. QED  BY <1>1 DEF FieldsOf

\* The invariant of the reader holds at the start.
LEMMA ReaderStart == ASSUME ReaderInit PROVE ReaderInv
BY DEF ReaderInit, ReaderInv, NoView

\* Every step keeps it.
LEMMA ReaderStep ==
  ASSUME MaxStored \in 1..4, Kinds \subseteq KindsToday, ReaderInv, [ReaderNext]_readerVars
  PROVE  ReaderInv'
<1>1. CASE UNCHANGED readerVars
  BY <1>1 DEF readerVars, ReaderInv, Stored, StatesLen
<1>2. CASE Create
  <2>1. Stored(kind, account')
    BY <1>2, StatesLenIsField DEF Create, Stored, StatesLen, ReaderInv, KindsToday
  <2>. QED  BY <1>2, <2>1 DEF Create, ReaderInv
<1>3. CASE Change
  <2>1. PICK f \in FieldsOf(kind) :
          \E v \in (IF f[1] = "statesLen" THEN 1..MaxStored ELSE Contents) \ {account[f]} :
            account' = [account EXCEPT ![f] = v]
    BY <1>3 DEF Change
  <2>2. PICK v \in (IF f[1] = "statesLen" THEN 1..MaxStored ELSE Contents) :
          account' = [account EXCEPT ![f] = v]
    BY <2>1
  <2>3. Stored(kind, account)
    BY <1>3 DEF Change, ReaderInv
  <2>4. DOMAIN account' = FieldsOf(kind)
    BY <2>2, <2>3 DEF Stored
  <2>5. StatesLen(kind, account') \in 0..4
    <3>1. CASE f = <<"statesLen", 0>>
      <4>1. v \in 0..4
        BY <2>2, <3>1
      <4>. QED  BY <2>2, <2>3, <3>1, <4>1 DEF Stored, StatesLen
    <3>2. CASE f # <<"statesLen", 0>>
      BY <2>2, <2>3, <3>2 DEF Stored, StatesLen
    <3>. QED  BY <3>1, <3>2
  <2>. QED  BY <1>3, <2>4, <2>5 DEF Change, ReaderInv, Stored
<1>4. CASE Ask
  BY <1>4 DEF Ask, ReaderInv, NoView
<1>5. CASE Refuses
  BY <1>5 DEF Refuses, Done, ReaderInv
<1>6. CASE Answer
  BY <1>6 DEF Answer, Done, ReaderInv
<1>. QED  BY <1>1, <1>2, <1>3, <1>4, <1>5, <1>6 DEF ReaderNext

\* It gives ReadsWhatIsWritten.
LEMMA ReaderReads ==
  ASSUME Kinds \subseteq KindsToday, ReaderInv PROVE ReadsWhatIsWritten
<1>1. SUFFICES ASSUME view.got = "fields" PROVE GoodRead(kind, view.from, view.fields)
  BY DEF ReadsWhatIsWritten, GoodRead
<1>2. kind \in KindsToday /\ Stored(kind, view.from)
  BY <1>1 DEF ReaderInv
<1>3. CASE kind = "submission"
  <2>1. StatesLen(kind, view.from) \in 0..4
    BY <1>2 DEF Stored
  <2>. QED  BY <1>1, <1>3, <2>1, SubmissionRead DEF ReaderInv
<1>. QED  BY <1>1, <1>2, <1>3, ConfigRead, RegistryRead, HeadRead, AllowanceRead
          DEF ReaderInv, KindsToday

\* readers.ts: of every account the program writes today, with up to the four
\* states a submission has room for, every field that a parser hands out is the
\* field the program wrote, whole and unshifted.  For the submissions of before
\* the signature commitments this does not hold.
THEOREM FieldsAreReadWhole ==
  ASSUME MaxStored \in 1..4, Kinds \subseteq KindsToday
  PROVE  ReaderSpec => []ReadsWhatIsWritten
<1>1. ReaderInit => ReaderInv
  BY ReaderStart
<1>2. ReaderInv /\ [ReaderNext]_readerVars => ReaderInv'
  BY ReaderStep
<1>3. ReaderInv => ReadsWhatIsWritten
  BY ReaderReads
<1>. QED  BY <1>1, <1>2, <1>3, PTL DEF ReaderSpec

-----------------------------------------------------------------------------
(* The upload. *)

UploadTypes ==
  /\ script \in {"bench", "track2"}
  /\ acct \in {"missing", "there", "unpaid"}
  /\ step \in {"create", "fill", "measure", "patch", "again", "done", "threw"}
  /\ net \in {"none", "flying", "landed"}
  /\ off \in Nat
  /\ DOMAIN data = Cells /\ data = [i \in Cells |-> data[i]]
  /\ DOMAIN verdict = {"data", "patched"}
  /\ verdict = [data |-> verdict.data, patched |-> verdict.patched]

\* A write that puts into every cell it reaches what belongs there.
Right(w) ==
  /\ w.at \in Nat
  /\ DOMAIN w.cells \subseteq Int
  /\ \A i \in DOMAIN w.cells : w.cells[i] = w.at + i

\* The cells in front of n are there.
Filled(n) == \A i \in Cells : i < n => data[i] = i

\* The end of the chunk that is being sent.
ChunkEnd == off + Smaller(ChunkSize, Size - off)

\* Where the scripts are.
Steps ==
  /\ script = "bench" => step \notin {"patch", "again"}
  /\ net # "none" => step \in {"create", "fill", "patch"}
  /\ step = "create" => off = 0
  /\ step = "fill" => off < Size
  /\ step \notin {"create", "threw"} => acct # "missing"
  /\ step = "create" /\ net = "landed" => acct # "missing"

\* Writes that are still under way are chunks, of the script that tries again.
LateWrites ==
  /\ script = "track2" /\ step # "threw" => late = {}
  /\ step # "threw" => \A w \in late : Right(w)

\* What is in the account, when there is one.
Progress ==
  acct = "there" =>
    /\ step = "fill" => Filled(off)
    /\ step = "fill" /\ net = "landed" => Filled(ChunkEnd)
    /\ step = "measure" => Filled(Size)
    /\ step = "patch" /\ net = "landed" => data[Size - 1] = Patch
    /\ step = "again" => data[Size - 1] = Patch

UploadInv == UploadTypes /\ Steps /\ LateWrites /\ Progress /\ MeasuresWhatItSays
-----------------------------------------------------------------------------
\* The chunk that is sent: right, not longer than a chunk, inside the account,
\* and covering the cells from the offset to its end.
LEMMA ChunkFacts ==
  ASSUME UploadSizes, off \in Nat, off < Size
  PROVE  /\ Right(Chunk)
         /\ Chunk.at = off
         /\ DOMAIN Chunk.cells = 0..(ChunkEnd - off - 1)
         /\ Cardinality(DOMAIN Chunk.cells) = ChunkEnd - off
         /\ ChunkEnd \in Nat /\ ChunkEnd > off /\ ChunkEnd <= Size
         /\ Fits(Chunk)
<1> DEFINE k == Smaller(ChunkSize, Size - off)
<1>1. k \in Nat /\ k > 0 /\ k <= ChunkSize /\ k <= Size - off
      BY DEF UploadSizes, Smaller
<1>2. ChunkEnd \in Nat /\ ChunkEnd = off + k
      BY <1>1 DEF ChunkEnd
<1>3. Chunk.at = off /\ Chunk.cells = [i \in 0..k-1 |-> off + i]
      BY DEF Chunk, Write
<1> HIDE DEF k
<1>4. ChunkEnd - off = k
      BY <1>1, <1>2
<1>5. Cardinality(0..k-1) = k
      BY <1>1, FS_Interval
<1>6. DOMAIN Chunk.cells = 0..k-1
      BY <1>3
<1>7. k <= MaxChunk /\ off + k <= Size
      BY <1>1 DEF UploadSizes
<1>8. Fits(Chunk)
      BY <1>3, <1>5, <1>6, <1>7 DEF Fits
<1>9. Right(Chunk)
      BY <1>1, <1>3 DEF Right
<1>10. ChunkEnd > off /\ ChunkEnd <= Size
      BY <1>1, <1>2, <1>7
<1> QED BY <1>2, <1>3, <1>4, <1>5, <1>6, <1>8, <1>9, <1>10

\* A right write keeps what is right.
LEMMA RightKeeps ==
  ASSUME UploadTypes, NEW w, Right(w), NEW n, Filled(n), data' = Written(w)
  PROVE  Filled(n)'
<1> SUFFICES ASSUME NEW i \in Cells, i < n PROVE data'[i] = i
    BY DEF Filled, Cells
<1>1. data[i] = i
      BY DEF Filled
<1> QED BY <1>1 DEF Written, Right, Cells

\* An account that is filled to its end is the data.
LEMMA FilledIsFull ==
  ASSUME UploadSizes, UploadTypes, Filled(Size)
  PROVE  data = Full
BY DEF Filled, Cells, Full, UploadTypes, UploadSizes

\* A chunk that lands fills the account up to the chunk's end.
LEMMA ChunkLands ==
  ASSUME UploadSizes, UploadTypes, off < Size, Filled(off), data' = Written(Chunk)
  PROVE  \A i \in Cells : i < ChunkEnd => data'[i] = i
<1> SUFFICES ASSUME NEW i \in Cells, i < ChunkEnd PROVE data'[i] = i
    OBVIOUS
<1>1. off \in Nat /\ i \in Int
      BY DEF UploadTypes, Cells, UploadSizes
<1>2. /\ Right(Chunk) /\ Chunk.at = off /\ ChunkEnd \in Nat
      /\ DOMAIN Chunk.cells = 0..(ChunkEnd - off - 1) /\ Fits(Chunk)
      BY <1>1, ChunkFacts
<1>3. data'[i] = IF i - off \in DOMAIN Chunk.cells THEN Chunk.cells[i - off] ELSE data[i]
      BY <1>2 DEF Written
<1>4. CASE i < off
      BY <1>1, <1>2, <1>3, <1>4 DEF Filled
<1>5. CASE ~(i < off)
      <2>1. i - off \in 0..(ChunkEnd - off - 1)
            BY <1>1, <1>2, <1>5
      <2>2. Chunk.cells[i - off] = off + (i - off)
            BY <1>2, <2>1 DEF Right
      <2> QED BY <1>1, <1>2, <1>3, <2>1, <2>2
<1> QED BY <1>4, <1>5

\* What lands keeps the account a function on its cells, and one that is there or
\* cannot be paid for stays that.
LEMMA ExecutedTypes ==
  ASSUME UploadTypes, NEW w, Executed(w)
  PROVE  /\ DOMAIN data' = Cells /\ data' = [i \in Cells |-> data'[i]]
         /\ acct' \in {"missing", "there", "unpaid"}
         /\ acct # "missing" => acct' = acct
         /\ acct' # "unpaid" \/ acct = "unpaid"
BY DEF Executed, Written, UploadTypes

\* The creation writes nothing, so nothing wrong.
LEMMA CreateRight ==
  ASSUME UploadTypes
  PROVE  /\ Right(Creation)
         /\ Executed(Creation) => acct' # "missing"
<1>1. Creation.at = 0 /\ Creation.cells = <<>>
      BY DEF Creation, Write
<1>2. DOMAIN <<>> = {}
      OBVIOUS
<1>3. Right(Creation)
      BY <1>1, <1>2 DEF Right
<1>4. Executed(Creation) => acct' # "missing"
      BY DEF Executed, UploadTypes
<1> QED BY <1>3, <1>4

\* The patch that lands is at the end of the signature.
LEMMA PatchLands ==
  ASSUME UploadSizes, data' = Written(PatchEnd)
  PROVE  data'[Size - 1] = Patch
<1>1. PatchEnd.at = Size - 1 /\ PatchEnd.cells = [i \in {0} |-> Patch]
      BY DEF PatchEnd, Write
<1>2. Cardinality({0}) = 1
      BY FS_Singleton
<1>3. DOMAIN PatchEnd.cells = {0}
      BY <1>1
<1>4. Fits(PatchEnd)
      BY <1>1, <1>2, <1>3 DEF Fits, UploadSizes
<1>5. Size - 1 \in Cells /\ (Size - 1) - (Size - 1) = 0
      BY DEF Cells, UploadSizes
<1> QED BY <1>1, <1>3, <1>4, <1>5 DEF Written
-----------------------------------------------------------------------------
\* The invariant holds before anything is sent.
LEMMA UploadStarts ==
  ASSUME UploadSizes, UploadInit
  PROVE  UploadInv
<1>1. UploadTypes /\ Steps
      BY DEF UploadInit, UploadTypes, Steps, UploadSizes
<1>2. LateWrites /\ MeasuresWhatItSays
      BY DEF UploadInit, LateWrites, MeasuresWhatItSays
<1>3. Progress
      BY DEF UploadInit, Progress
<1> QED BY <1>1, <1>2, <1>3 DEF UploadInv

\* Something is sent, or refused by the preflight.
LEMMA SendStep ==
  ASSUME UploadSizes, UploadInv, Send
  PROVE  UploadInv'
<1> USE DEF UploadInv
<1>1. /\ script' = script /\ acct' = acct /\ data' = data /\ off' = off
      /\ late' = late /\ verdict' = verdict /\ net = "none"
      /\ \/ step' = step /\ net' = "flying" /\ step \in {"create", "fill", "patch"}
         \/ step' = "threw" /\ net' = "none"
      BY DEF Send
<1>2. UploadTypes' /\ Steps' /\ LateWrites' /\ MeasuresWhatItSays'
      BY <1>1 DEF UploadTypes, Steps, LateWrites, MeasuresWhatItSays, Right
<1>3. Progress'
      BY <1>1 DEF Progress, Filled
<1> QED BY <1>2, <1>3

\* A transaction that lands while its caller waits for it.
LEMMA LandStep ==
  ASSUME UploadSizes, UploadInv, Land
  PROVE  UploadInv'
<1> USE DEF UploadInv
<1>0. /\ Executed(Pending) /\ net = "flying" /\ net' = "landed" /\ script' = script
      /\ step' = step /\ off' = off /\ late' = late /\ verdict' = verdict
      BY DEF Land
<1>1. /\ UploadTypes'
      /\ acct # "missing" => acct' = acct
      BY <1>0, ExecutedTypes DEF UploadTypes
<1>2. LateWrites' /\ MeasuresWhatItSays'
      BY <1>0, <1>1 DEF LateWrites, MeasuresWhatItSays, Right
<1>3. CASE step = "create"
      <2>1. Pending = Creation
            BY <1>3 DEF Pending
      <2>2. acct' # "missing"
            BY <1>0, <2>1, CreateRight
      <2>3. Steps' /\ Progress'
            BY <1>0, <1>3, <2>2 DEF Steps, Progress
      <2> QED BY <1>1, <1>2, <2>3
<1>4. CASE step = "fill"
      <2>1. /\ off < Size /\ Pending = Chunk /\ acct # "missing"
            /\ acct = "there" => Filled(off) /\ data' = Written(Chunk)
            BY <1>0, <1>4 DEF Executed, Steps, Progress, Pending
      <2>2. Steps'
            BY <1>0, <1>1, <1>4, <2>1 DEF Steps
      <2>3. CASE acct = "there"
            <3>1. \A i \in Cells : i < ChunkEnd => data'[i] = i
                  BY <2>1, <2>3, ChunkLands
            <3>2. ChunkEnd' = ChunkEnd
                  BY <1>0 DEF ChunkEnd
            <3>3. off \in Nat /\ ChunkEnd \in Nat /\ ChunkEnd > off
                  BY <2>1, ChunkFacts DEF UploadTypes
            <3>4. Filled(ChunkEnd)'
                  BY <3>1, <3>2 DEF Filled
            <3>5. \A i \in Cells : i < off => i < ChunkEnd
                  BY <3>3 DEF Cells, UploadSizes
            <3>6. Filled(off)'
                  BY <1>0, <3>1, <3>5 DEF Filled
            <3> QED BY <1>0, <1>1, <1>2, <1>4, <2>2, <3>4, <3>6 DEF Progress
      <2>4. CASE acct # "there"
            BY <1>1, <1>2, <2>1, <2>2, <2>4 DEF Progress
      <2> QED BY <2>3, <2>4
<1>5. CASE step = "patch"
      <2>1. /\ Pending = PatchEnd /\ acct # "missing"
            /\ acct = "there" => data' = Written(PatchEnd)
            BY <1>0, <1>5 DEF Executed, Steps, Pending
      <2>2. acct = "there" => data'[Size - 1] = Patch
            BY <2>1, PatchLands
      <2>3. Steps' /\ Progress'
            BY <1>0, <1>1, <1>5, <2>1, <2>2 DEF Steps, Progress
      <2> QED BY <1>1, <1>2, <2>3
<1>6. step \in {"create", "fill", "patch"}
      BY <1>0 DEF Steps
<1> QED BY <1>3, <1>4, <1>5, <1>6

\* What was sent has landed: the script goes on behind it.
LEMMA ConfirmStep ==
  ASSUME UploadSizes, UploadInv, Confirm
  PROVE  UploadInv'
<1> USE DEF UploadInv
<1>1. /\ step \in {"create", "fill", "patch"} /\ off \in Nat /\ net = "landed" /\ net' = "none"
      /\ acct' = acct /\ data' = data /\ script' = script /\ verdict' = verdict
      /\ late' = late /\ acct # "missing"
      BY DEF Confirm, Steps, UploadTypes
<1>2. step' \in {"fill", "measure", "again"}
      BY <1>1 DEF Confirm, After
<1>3. LateWrites' /\ MeasuresWhatItSays'
      BY <1>1, <1>2 DEF LateWrites, MeasuresWhatItSays, Right
<1>4. CASE step = "create"
      <2>1. step' = "fill" /\ off' = 0
            BY <1>4 DEF Confirm, After, Steps
      <2>2. UploadTypes' /\ Steps'
            BY <1>1, <1>4, <2>1 DEF UploadTypes, Steps, UploadSizes
      <2>3. Progress'
            BY <1>1, <2>1 DEF Progress, Filled, Cells, UploadSizes
      <2> QED BY <1>3, <2>2, <2>3
<1>5. CASE step = "fill"
      <2> DEFINE sent == off + Cardinality(DOMAIN Chunk.cells)
      <2>1. off < Size /\ (acct = "there" => Filled(ChunkEnd))
            BY <1>1, <1>5 DEF Steps, Progress
      <2>2. ChunkEnd \in Nat /\ ChunkEnd > off /\ ChunkEnd <= Size /\ sent = ChunkEnd
            BY <1>1, <2>1, ChunkFacts
      <2>3. off' = sent /\ step' = IF sent >= Size THEN "measure" ELSE "fill"
            BY <1>5 DEF Confirm, After
      <2> HIDE DEF sent
      <2>4. /\ off' = ChunkEnd
            /\ step' \in {"measure", "fill"}
            /\ step' = "measure" => ChunkEnd = Size
            /\ step' = "fill" => ChunkEnd < Size
            BY <2>2, <2>3 DEF UploadSizes
      <2>5. UploadTypes' /\ Steps'
            BY <1>1, <2>2, <2>4 DEF UploadTypes, Steps
      <2>6. acct = "there" => Filled(off)' /\ (step' = "measure" => Filled(Size)')
            BY <1>1, <2>1, <2>4 DEF Filled
      <2>7. Progress'
            BY <1>1, <2>4, <2>6 DEF Progress
      <2> QED BY <1>3, <2>5, <2>7
<1>6. CASE step = "patch"
      <2>1. step' = "again" /\ off' = off
            BY <1>6 DEF Confirm, After
      <2>2. UploadTypes' /\ Steps'
            BY <1>1, <1>6, <2>1 DEF UploadTypes, Steps
      <2>3. Progress'
            BY <1>1, <1>6, <2>1 DEF Progress
      <2> QED BY <1>3, <2>2, <2>3
<1> QED BY <1>1, <1>4, <1>5, <1>6

\* A refusal leaves the transaction under way, to land later or never; only the
\* script that tries again goes on after one.
LEMMA RateLimitedStep ==
  ASSUME UploadSizes, UploadInv, RateLimited
  PROVE  UploadInv'
<1> USE DEF UploadInv
<1>1. /\ net' = "none" /\ off' = off /\ data' = data /\ script' = script /\ verdict' = verdict
      /\ acct' = acct
      /\ step' \in {step, "threw"} /\ step \in {"create", "fill", "patch"}
      /\ script = "track2" => step' = "threw"
      BY DEF RateLimited, Steps, UploadTypes
<1>2. UploadTypes' /\ Steps' /\ MeasuresWhatItSays'
      BY <1>1 DEF UploadTypes, Steps, MeasuresWhatItSays
<1>3. Progress'
      BY <1>1 DEF Progress, Filled
<1>4. LateWrites'
      <2>1. CASE step' = "threw"
            BY <2>1 DEF LateWrites
      <2>2. CASE step' # "threw"
            <3>1. script = "bench" /\ step \in {"create", "fill"}
                  BY <1>1, <2>2 DEF UploadTypes, Steps
            <3>2. Right(Pending)
                  <4>1. CASE step = "create"
                        BY <4>1, CreateRight DEF Pending
                  <4>2. CASE step = "fill"
                        BY <4>2, ChunkFacts DEF UploadTypes, Steps, Pending
                  <4> QED BY <3>1, <4>1, <4>2
            <3>3. \A w \in late' : Right(w)
                  BY <2>2, <1>1, <3>2 DEF RateLimited, LateWrites
            <3> QED BY <1>1, <3>1, <3>3 DEF LateWrites, Right
      <2> QED BY <2>1, <2>2
<1> QED BY <1>2, <1>3, <1>4

\* What the caller has given up lands: a creation or a chunk, or nothing is measured.
LEMMA LateLandStep ==
  ASSUME UploadSizes, UploadInv, LateLand
  PROVE  UploadInv'
<1> USE DEF UploadInv
<1> PICK w \in late : Executed(w) /\ late' = late \ {w}
    BY DEF LateLand
<1>1. /\ net' = net /\ off' = off /\ script' = script /\ verdict' = verdict /\ step' = step
      BY DEF LateLand
<1>2. UploadTypes' /\ (acct # "missing" => acct' = acct)
      BY <1>1, ExecutedTypes DEF UploadTypes
<1>3. MeasuresWhatItSays' /\ LateWrites' /\ Steps'
      BY <1>1, <1>2 DEF Steps, MeasuresWhatItSays, LateWrites, Right
<1>4. CASE step \in {"create", "threw"} \/ acct # "there"
      <2>1. step \in {"create", "threw"} \/ acct' # "there"
            BY <1>2, <1>4 DEF Steps
      <2> QED BY <1>1, <1>2, <1>3, <2>1 DEF Progress
<1>5. CASE step \notin {"create", "threw"} /\ acct = "there"
      <2>1. script = "bench" /\ Right(w)
            BY <1>5 DEF LateWrites, UploadTypes
      <2>2. data' = Written(w)
            BY <1>5 DEF Executed
      <2>3. \A n : Filled(n) => Filled(n)'
            BY <2>1, <2>2, RightKeeps
      <2>4. ChunkEnd' = ChunkEnd
            BY <1>1 DEF ChunkEnd
      <2>5. Progress'
            BY <1>1, <1>5, <2>1, <2>3, <2>4 DEF Progress, Steps
      <2> QED BY <1>2, <1>3, <2>5
<1> QED BY <1>4, <1>5

\* The measurement of the data, and that of the patched data.
LEMMA MeasureStep ==
  ASSUME UploadSizes, UploadInv, Measure \/ MeasureAgain
  PROVE  UploadInv'
<1> USE DEF UploadInv
<1>1. /\ net' = net /\ off' = off /\ script' = script /\ data' = data /\ late' = late
      /\ acct' = acct
      BY DEF Measure, MeasureAgain
<1>2. net = "none" /\ acct \in {"there", "unpaid"}
      BY DEF Steps, Measure, MeasureAgain, UploadTypes
<1>3. CASE Measure
      <2>1. acct = "there" => data = Full
            BY <1>3, FilledIsFull DEF Measure, Progress
      <2>2. PICK o \in {"ok", "over", "empty"} :
              /\ o = "empty" => acct = "unpaid"
              /\ verdict' = [verdict EXCEPT !.data = o]
            BY <1>2, <1>3, <2>1 DEF Measure, Outcomes
      <2>3. verdict'.data = o /\ verdict'.patched = verdict.patched
            /\ DOMAIN verdict' = {"data", "patched"}
            /\ verdict' = [data |-> o, patched |-> verdict.patched]
            BY <2>2 DEF UploadTypes
      <2>4. step' \in {"patch", "done"} /\ (step' = "patch" => script = "track2")
            BY <1>3 DEF Measure
      <2>5. UploadTypes' /\ Steps' /\ MeasuresWhatItSays'
            BY <1>1, <1>2, <2>2, <2>3, <2>4 DEF UploadTypes, Steps, MeasuresWhatItSays
      <2>6. LateWrites' /\ Progress'
            BY <1>1, <1>2, <1>3, <2>4 DEF LateWrites, Right, Progress, Measure
      <2> QED BY <2>5, <2>6
<1>4. CASE MeasureAgain
      <2>1. acct = "there" => data # Full
            <3>1. acct = "there" => data[Size - 1] = Patch
                  BY <1>4 DEF MeasureAgain, Progress
            <3>2. Full[Size - 1] = Size - 1
                  BY DEF Full, Cells, UploadSizes
            <3> QED BY <3>1, <3>2 DEF Patch, UploadSizes
      <2>2. PICK o \in {"bad", "over", "empty"} :
              /\ o = "empty" => acct = "unpaid"
              /\ verdict' = [verdict EXCEPT !.patched = o]
            BY <1>2, <1>4, <2>1 DEF MeasureAgain, Outcomes
      <2>3. verdict'.data = verdict.data /\ verdict'.patched = o
            /\ DOMAIN verdict' = {"data", "patched"}
            /\ verdict' = [data |-> verdict.data, patched |-> o]
            BY <2>2 DEF UploadTypes
      <2>4. step' = "done"
            BY <1>4 DEF MeasureAgain
      <2>5. UploadTypes' /\ Steps' /\ MeasuresWhatItSays'
            BY <1>1, <1>2, <2>2, <2>3, <2>4 DEF UploadTypes, Steps, MeasuresWhatItSays
      <2>6. LateWrites' /\ Progress'
            BY <1>1, <1>4, <2>4 DEF LateWrites, Right, Progress, MeasureAgain
      <2> QED BY <2>5, <2>6
<1> QED BY <1>3, <1>4

\* Every step keeps the invariant.
LEMMA UploadNextKeeps ==
  ASSUME UploadSizes, UploadInv, [UploadNext]_pqVars
  PROVE  UploadInv'
<1>2. CASE LateLost
      <2> USE DEF UploadInv
      <2>1. UploadTypes' /\ Steps' /\ MeasuresWhatItSays' /\ LateWrites'
            BY <1>2 DEF LateLost, UploadTypes, Steps, MeasuresWhatItSays, LateWrites, Right
      <2>2. Progress'
            BY <1>2 DEF LateLost, Progress, Filled, ChunkEnd
      <2> QED BY <2>1, <2>2
<1>3. CASE UNCHANGED pqVars
      <2> USE DEF UploadInv
      <2>1. UploadTypes' /\ Steps' /\ MeasuresWhatItSays' /\ LateWrites'
            BY <1>3 DEF pqVars, UploadTypes, Steps, MeasuresWhatItSays, LateWrites, Right
      <2>2. Progress'
            BY <1>3 DEF pqVars, Progress, Filled, ChunkEnd
      <2> QED BY <2>1, <2>2
<1> QED BY <1>2, <1>3, SendStep, LandStep, ConfirmStep, RateLimitedStep, LateLandStep, MeasureStep
       DEF UploadNext

\* pq-benchmark.ts, track2-cu-benchmark.ts: with chunks the program accepts, the
\* data is complete when it is measured and the patched data never passes, for
\* data of every length and however often writes are refused, repeated and late.
THEOREM UploadMeasures ==
  ASSUME UploadSizes
  PROVE  UploadSpec => []MeasuresWhatItSays
<1>1. UploadInit => UploadInv
      BY UploadStarts
<1>2. UploadInv /\ [UploadNext]_pqVars => UploadInv'
      BY UploadNextKeeps
<1>3. UploadInv => MeasuresWhatItSays
      BY DEF UploadInv
<1> QED BY <1>1, <1>2, <1>3, PTL DEF UploadSpec
=============================================================================
