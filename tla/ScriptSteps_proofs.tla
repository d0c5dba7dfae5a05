------------------------- MODULE ScriptSteps_proofs --------------------------
(***************************************************************************)
(* The coins of the scripts, for every number of runs, crash and late      *)
(* transaction: at each step they are in the states in which the script    *)
(* expects them.                                                           *)
(*                                                                         *)
(* ScriptInv is the invariant of ScriptRun_proofs.  It says, for each      *)
(* step, in which states the coins may be that the script uses (Views),    *)
(* which chains they hold, and that wallets, vault and cap have room for   *)
(* the steps that follow.  Here are the tables of the steps, and what the  *)
(* steps and the transactions of dead runs do to states and chains.        *)
(***************************************************************************)
EXTENDS ScriptRun, ObpCore_proofs

(* The steps of the scripts. *)

\* The steps of the matrix, one by one.
LEMMA MatrixTable ==
  /\ Len(MatrixScript) = 53
  /\ MatrixScript[1] = Local("prefund", "none")
  /\ MatrixScript[2] = Local("topup", "none")
  /\ MatrixScript[3] = Need("mint", "e0", 0, 0, Recipient)
  /\ MatrixScript[4] = Do("cap", "e0", 0, 1000000, Recipient)
  /\ MatrixScript[5] = Check("E10a")
  /\ MatrixScript[6] = Need("mint", "e6", 0, 0, Recipient)
  /\ MatrixScript[7] = Need("bond", "e6", 0, Value + 500, Recipient)
  /\ MatrixScript[8] = Need("start", "e6", 0, 0, Recipient)
  /\ MatrixScript[9] = Refused("cap", "e6", 0, 50, Recipient, "E10b")
  /\ MatrixScript[10] = Need("mint", "e7", 0, 0, Recipient)
  /\ MatrixScript[11] = Need("bond", "e7", 0, Value + 500, Recipient)
  /\ MatrixScript[12] = Need("start", "e7", 0, 0, Recipient)
  /\ MatrixScript[13] = Need("append", "e7", 0, 4, Recipient)
  /\ MatrixScript[14] = Refused("append", "e7", 0, 5, Recipient, "E7b")
  /\ MatrixScript[15] = Need("mint", "e2", 0, 0, Recipient)
  /\ MatrixScript[16] = Need("bond", "e2", 0, Value + 500, Recipient)
  /\ MatrixScript[17] = Need("start", "e2", 0, 0, Recipient)
  /\ MatrixScript[18] = Need("append", "e2", 0, 2, Recipient)
  /\ MatrixScript[19] = Need("finalizeA", "e2", 0, 0, Recipient)
  /\ MatrixScript[20] = Check("E2a")
  /\ MatrixScript[21] = Local("snap", "none")
  /\ MatrixScript[22] = Need("bond", "e2", 1, Value + 500, Holder3)
  /\ MatrixScript[23] = Need("start", "e2", 1, 0, Holder3)
  /\ MatrixScript[24] = Need("append", "e2", 1, 3, Recipient)
  /\ MatrixScript[25] = Need("finalizeB", "e2", 1, 0, Recipient)
  /\ MatrixScript[26] = Check("E2b")
  /\ MatrixScript[27] = Check("E2c")
  /\ MatrixScript[28] = Need("mint", "e3", 0, 0, Recipient)
  /\ MatrixScript[29] = Need("bond", "e3", 0, Value + 500, Recipient)
  /\ MatrixScript[30] = Need("start", "e3", 0, 0, Recipient)
  /\ MatrixScript[31] = Need("append", "e3", 0, 3, Recipient)
  /\ MatrixScript[32] = Need("finalizeA", "e3", 0, 0, Recipient)
  /\ MatrixScript[33] = Local("snap", "none")
  /\ MatrixScript[34] = Need("bond", "e3", 1, Value + 500, Holder3)
  /\ MatrixScript[35] = Need("start", "e3", 1, 0, Holder3)
  /\ MatrixScript[36] = Need("append", "e3", 1, 3, Recipient)
  /\ MatrixScript[37] = Need("finalizeB", "e3", 1, 0, Recipient)
  /\ MatrixScript[38] = Check("E3a")
  /\ MatrixScript[39] = Local("wait", "e3")
  /\ MatrixScript[40] = Need("settle", "e3", 0, 0, Recipient)
  /\ MatrixScript[41] = Check("E3b")
  /\ MatrixScript[42] = Check("E3c")
  /\ MatrixScript[43] = Need("mint", "e8", 0, 0, Recipient)
  /\ MatrixScript[44] = Need("bond", "e8", 0, Value + 500, Recipient)
  /\ MatrixScript[45] = Need("start", "e8", 0, 0, Recipient)
  /\ MatrixScript[46] = Need("append", "e8", 0, 2, Recipient)
  /\ MatrixScript[47] = Need("finalizeA", "e8", 0, 0, Recipient)
  /\ MatrixScript[48] = Refused("settle", "e8", 0, 0, Recipient, "E8a")
  /\ MatrixScript[49] = Local("wait", "e8")
  /\ MatrixScript[50] = Need("settle", "e8", 0, 0, Recipient)
  /\ MatrixScript[51] = Check("E8b")
  /\ MatrixScript[52] = Refused("start", "e8", 1, 0, Recipient, "E4")
  /\ MatrixScript[53] = Refused("start", "e6", 0, 0, Recipient, "E5")
BY SMT DEF MatrixScript, Limits, LongerOvertakes, FirstStands, Settles, StartAs, AppendTo,
           Final, Claim, Settled

\* The steps of the PQ run, one by one.
LEMMA PqTable ==
  /\ Len(PqScript) = 14
  /\ PqScript[1] = Local("prefund", "none")
  /\ PqScript[2] = Local("topup", "none")
  /\ PqScript[3] = Need("mint", "pq", 0, 0, Recipient)
  /\ PqScript[4] = Do("start", "pq", 0, 0, Recipient)
  /\ PqScript[5] = Do("append", "pq", 0, 3, Recipient)
  /\ PqScript[6] = Check("P3a")
  /\ PqScript[7] = Check("P3b")
  /\ PqScript[8] = Do("finalizeA", "pq", 0, 0, Recipient)
  /\ PqScript[9] = Check("P3c")
  /\ PqScript[10] = Local("wait", "pq")
  /\ PqScript[11] = Do("settle", "pq", 0, 0, Recipient)
  /\ PqScript[12] = Check("P4")
  /\ PqScript[13] = Do("verify", "pq", 0, 1, Recipient)
  /\ PqScript[14] = Refused("verify", "pq", 0, 1, Holder3, "P5b")
BY SMT DEF PqScript

\* The steps of the smoke test, one by one.
LEMMA SmokeTable ==
  /\ Len(SmokeScript) = 9
  /\ SmokeScript[1] = Need("reserve", "m1", 0, 1000, MintAuthority)
  /\ SmokeScript[2] = Need("fund", "m1", 0, 1000, MintAuthority)
  /\ SmokeScript[3] = Need("mint", "m1", 0, 0, Recipient)
  /\ SmokeScript[4] = Need("bond", "m1", 0, 500, Recipient)
  /\ SmokeScript[5] = Need("start", "m1", 0, 0, Recipient)
  /\ SmokeScript[6] = Need("append", "m1", 0, 3, Recipient)
  /\ SmokeScript[7] = Need("finalizeM1", "m1", 0, 0, Recipient)
  /\ SmokeScript[8] = Local("wait", "m1")
  /\ SmokeScript[9] = Need("settle", "m1", 0, 0, Recipient)
BY SMT DEF SmokeScript, AppendTo, Final, Settled

\* The three scripts.
LEMMA ScriptsAre ==
  /\ DOMAIN StepsOf = {"matrix", "pq", "smoke"}
  /\ StepsOf["matrix"] = MatrixScript /\ StepsOf["pq"] = PqScript
  /\ StepsOf["smoke"] = SmokeScript
BY DEF StepsOf

\* Their lengths.
LEMMA Lengths ==
  /\ Len(StepsOf["matrix"]) = 53 /\ Len(StepsOf["pq"]) = 14 /\ Len(StepsOf["smoke"]) = 9
<1>1. Len(MatrixScript) = 53
  BY MatrixTable, SMT
<1>2. Len(PqScript) = 14
  BY PqTable, SMT
<1>3. Len(SmokeScript) = 9
  BY SmokeTable, SMT
<1>. QED  BY <1>1, <1>2, <1>3, ScriptsAre

-----------------------------------------------------------------------------
(* What a script sees of a coin: the status in the registry, and status and *)
(* length of the two submissions.                                           *)

Coin(l, r) == <<l, IF l \in Fixed THEN 0 ELSE r>>

View(sn) == <<registry[sn].status, sub[sn][0].status, Len(sub[sn][0].states),
              sub[sn][1].status, Len(sub[sn][1].states)>>

Unminted == <<"NONE", "NONE", 0, "NONE", 0>>
Minted == <<"ACTIVE", "NONE", 0, "NONE", 0>>
Receives(n) == <<"ACTIVE", "RECEIVING", n, "NONE", 0>>
Leads(n) == <<"ACTIVE", "PENDING", n, "NONE", 0>>
Paid0(n) == <<"SPENT", "WON", n, "NONE", 0>>
Contends(n, m) == <<"ACTIVE", "PENDING", n, "RECEIVING", m>>
Overtaken == <<"SPENT", "LOST", 2, "WON", 3>>
Stands == <<"ACTIVE", "PENDING", 3, "LOST", 3>>
Stood == <<"SPENT", "WON", 3, "LOST", 3>>

\* The coins a script uses.
Uses == [matrix |-> {"e0", "e6", "e7", "e2", "e3", "e8"}, pq |-> {"pq"}, smoke |-> {"m1"}]

\* The coins a script uses are among those that have a label.
LEMMA UsesLabels == \A sc \in DOMAIN StepsOf : Uses[sc] \subseteq Labels
BY ScriptsAre DEF Uses, Labels, Fixed

\* In which of these a coin may be before a step.  The coins with a fixed
\* serial may be as far as an earlier run has brought them.
Views(l, p) ==
  CASE l = "e0" -> IF p <= 3 THEN {Unminted, Minted} ELSE {Minted}
    [] l = "e6" -> IF p <= 6 THEN {Unminted, Minted, Receives(1)}
                   ELSE IF p <= 8 THEN {Minted, Receives(1)} ELSE {Receives(1)}
    [] l = "e7" ->
         IF p <= 10 THEN {Unminted, Minted, Receives(1), Receives(2), Receives(3), Receives(4)}
         ELSE IF p <= 12 THEN {Minted, Receives(1), Receives(2), Receives(3), Receives(4)}
         ELSE IF p = 13 THEN {Receives(1), Receives(2), Receives(3), Receives(4)}
         ELSE {Receives(4)}
    [] l = "e2" -> IF p <= 15 THEN {Unminted} ELSE IF p <= 17 THEN {Minted}
                   ELSE IF p = 18 THEN {Receives(1), Receives(2)}
                   ELSE IF p = 19 THEN {Receives(2)}
                   ELSE IF p <= 23 THEN {Leads(2)}
                   ELSE IF p = 24 THEN {Contends(2, 1), Contends(2, 2), Contends(2, 3)}
                   ELSE IF p = 25 THEN {Contends(2, 3)} ELSE {Overtaken}
    [] l = "e3" -> IF p <= 28 THEN {Unminted} ELSE IF p <= 30 THEN {Minted}
                   ELSE IF p = 31 THEN {Receives(1), Receives(2), Receives(3)}
                   ELSE IF p = 32 THEN {Receives(3)}
                   ELSE IF p <= 35 THEN {Leads(3)}
                   ELSE IF p = 36 THEN {Contends(3, 1), Contends(3, 2), Contends(3, 3)}
                   ELSE IF p = 37 THEN {Contends(3, 3)}
                   ELSE IF p <= 40 THEN {Stands} ELSE {Stood}
    [] l = "e8" -> IF p <= 43 THEN {Unminted} ELSE IF p <= 45 THEN {Minted}
                   ELSE IF p = 46 THEN {Receives(1), Receives(2)}
                   ELSE IF p = 47 THEN {Receives(2)}
                   ELSE IF p = 48 THEN {Leads(2)} ELSE IF p <= 50 THEN {Leads(2), Paid0(2)}
                   ELSE {Paid0(2)}
    [] l = "pq" -> IF p <= 3 THEN {Unminted} ELSE IF p = 4 THEN {Minted}
                   ELSE IF p = 5 THEN {Receives(1)} ELSE IF p <= 8 THEN {Receives(3)}
                   ELSE IF p <= 11 THEN {Leads(3)} ELSE {Paid0(3)}
    [] l = "m1" ->
         IF p <= 3 THEN {Unminted, Minted, Receives(1), Receives(2), Receives(3),
                         Leads(3), Paid0(3)}
         ELSE IF p <= 5 THEN {Minted, Receives(1), Receives(2), Receives(3), Leads(3), Paid0(3)}
         ELSE IF p = 6 THEN {Receives(1), Receives(2), Receives(3), Leads(3), Paid0(3)}
         ELSE IF p = 7 THEN {Receives(3), Leads(3), Paid0(3)} ELSE {Leads(3), Paid0(3)}

\* The steps at which the views of a coin change.
Turns ==
  {<<"e0", 3>>, <<"e6", 6>>, <<"e6", 8>>, <<"e7", 10>>, <<"e7", 12>>, <<"e7", 13>>,
   <<"e2", 15>>, <<"e2", 17>>, <<"e2", 18>>, <<"e2", 19>>, <<"e2", 23>>, <<"e2", 24>>,
   <<"e2", 25>>, <<"e3", 28>>, <<"e3", 30>>, <<"e3", 31>>, <<"e3", 32>>, <<"e3", 35>>,
   <<"e3", 36>>, <<"e3", 37>>, <<"e3", 40>>, <<"e8", 43>>, <<"e8", 45>>, <<"e8", 46>>,
   <<"e8", 47>>, <<"e8", 50>>, <<"pq", 3>>, <<"pq", 4>>, <<"pq", 5>>, <<"pq", 8>>,
   <<"pq", 11>>, <<"m1", 3>>, <<"m1", 5>>, <<"m1", 6>>, <<"m1", 7>>}

\* Where it is not a coin's turn, what was expected of it stays expected.
LEMMA ViewsGoOn ==
  ASSUME NEW l \in Labels, NEW p \in Nat, <<l, p>> \notin Turns
  PROVE  Views(l, p) \subseteq Views(l, p + 1)
<1> USE DEF Turns
<1>1. CASE l = "e0"
  BY <1>1 DEF Views
<1>2. CASE l = "e6"
  BY <1>2 DEF Views
<1>3. CASE l = "e7"
  BY <1>3 DEF Views
<1>4. CASE l = "e2"
  BY <1>4 DEF Views
<1>5. CASE l = "e3"
  BY <1>5 DEF Views
<1>6. CASE l = "e8"
  BY <1>6 DEF Views
<1>7. CASE l = "pq"
  BY <1>7 DEF Views
<1>8. CASE l = "m1"
  BY <1>8 DEF Views
<1>. QED  BY <1>1, <1>2, <1>3, <1>4, <1>5, <1>6, <1>7, <1>8 DEF Labels, Fixed

\* A run that starts finds the coins of the earlier ones as far as they got.
LEMMA ViewsGoBack ==
  ASSUME NEW l \in Fixed, NEW p \in Nat \ {0}
  PROVE  Views(l, p) \subseteq Views(l, 1)
<1>1. CASE l = "e0"
  BY <1>1 DEF Views
<1>2. CASE l = "e6"
  BY <1>2 DEF Views
<1>3. CASE l = "e7"
  BY <1>3 DEF Views
<1>4. CASE l = "m1"
  BY <1>4 DEF Views
<1>. QED  BY <1>1, <1>2, <1>3, <1>4 DEF Fixed
\* At the first step of a script any of its coins may be unminted.
LEMMA ViewsStart ==
  ASSUME NEW l \in Labels
  PROVE  Unminted \in Views(l, 1)
BY DEF Views, Labels, Fixed

-----------------------------------------------------------------------------
(* Where the scripts do what: step p of the script sc is s. *)

Positions(sc) == 1..Len(StepsOf[sc])
Moves == {"mint", "start", "append", "finalizeA", "finalizeB", "finalizeM1", "settle"}
Others == {"prefund", "topup", "reserve", "fund", "cap", "verify", "bond", "wait", "snap", "check"}

\* The PQ run repeats nothing, it sends whatever it finds.
Insists(sc, s) == (sc = "pq" => s.always) /\ (sc # "pq" => ~s.always)

MintsAt(sc, p, s) ==
  /\ s.tag = "none" /\ ~s.always /\ s.a = 0
  /\ <<sc, p, s.l>> \in
       {<<"matrix", 3, "e0">>, <<"matrix", 6, "e6">>, <<"matrix", 10, "e7">>,
        <<"matrix", 15, "e2">>, <<"matrix", 28, "e3">>, <<"matrix", 43, "e8">>,
        <<"pq", 3, "pq">>, <<"smoke", 3, "m1">>}

BondsAt(sc, p, s) ==
  /\ ~s.always /\ s.n \in {500, Value + 500}
  /\ <<sc, p, s.l, s.a, s.w>> \in
       {<<"matrix", 7, "e6", 0, Recipient>>, <<"matrix", 11, "e7", 0, Recipient>>,
        <<"matrix", 16, "e2", 0, Recipient>>, <<"matrix", 22, "e2", 1, Holder3>>,
        <<"matrix", 29, "e3", 0, Recipient>>, <<"matrix", 34, "e3", 1, Holder3>>,
        <<"matrix", 44, "e8", 0, Recipient>>, <<"smoke", 4, "m1", 0, Recipient>>}

StartsAt(sc, p, s) ==
  \/ /\ s.tag = "none" /\ Insists(sc, s)
     /\ <<sc, p, s.l, s.a, s.w>> \in
          {<<"matrix", 8, "e6", 0, Recipient>>, <<"matrix", 12, "e7", 0, Recipient>>,
           <<"matrix", 17, "e2", 0, Recipient>>, <<"matrix", 23, "e2", 1, Holder3>>,
           <<"matrix", 30, "e3", 0, Recipient>>, <<"matrix", 35, "e3", 1, Holder3>>,
           <<"matrix", 45, "e8", 0, Recipient>>, <<"pq", 4, "pq", 0, Recipient>>,
           <<"smoke", 5, "m1", 0, Recipient>>}
  \/ /\ s.tag # "none" /\ s.always /\ s.w = Recipient
     /\ <<sc, p, s.l, s.a, s.tag>> \in {<<"matrix", 52, "e8", 1, "E4">>,
                                        <<"matrix", 53, "e6", 0, "E5">>}

AppendsAt(sc, p, s) ==
  \/ /\ s.tag = "none" /\ Insists(sc, s)
     /\ <<sc, p, s.l, s.a, s.n>> \in
          {<<"matrix", 13, "e7", 0, 4>>, <<"matrix", 18, "e2", 0, 2>>,
           <<"matrix", 24, "e2", 1, 3>>, <<"matrix", 31, "e3", 0, 3>>,
           <<"matrix", 36, "e3", 1, 3>>, <<"matrix", 46, "e8", 0, 2>>,
           <<"pq", 5, "pq", 0, 3>>, <<"smoke", 6, "m1", 0, 3>>}
  \/ /\ s.tag # "none" /\ s.always
     /\ <<sc, p, s.l, s.a, s.n, s.tag>> = <<"matrix", 14, "e7", 0, 5, "E7b">>

LeadsAt(sc, p, s) ==
  /\ s.tag = "none" /\ Insists(sc, s) /\ s.a = 0
  /\ <<sc, p, s.l>> \in {<<"matrix", 19, "e2">>, <<"matrix", 32, "e3">>, <<"matrix", 47, "e8">>,
                         <<"pq", 8, "pq">>}

FinishesAt(sc, p, s) ==
  /\ s.tag = "none" /\ ~s.always /\ s.a = 0
  /\ <<sc, p, s.l>> = <<"smoke", 7, "m1">>

ResolvesAt(sc, p, s) ==
  /\ s.tag = "none" /\ ~s.always /\ s.a = 1
  /\ <<sc, p, s.l>> \in {<<"matrix", 25, "e2">>, <<"matrix", 37, "e3">>}

SettlesAt(sc, p, s) ==
  /\ s.a = 0
  /\ \/ /\ s.tag = "none" /\ Insists(sc, s)
        /\ <<sc, p, s.l>> \in {<<"matrix", 40, "e3">>, <<"matrix", 50, "e8">>,
                               <<"pq", 11, "pq">>, <<"smoke", 9, "m1">>}
     \/ /\ s.tag # "none" /\ s.always
        /\ <<sc, p, s.l, s.tag>> = <<"matrix", 48, "e8", "E8a">>

WaitsAt(sc, p, s) ==
  <<sc, p, s.l>> \in {<<"matrix", 39, "e3">>, <<"matrix", 49, "e8">>, <<"pq", 10, "pq">>,
                     <<"smoke", 8, "m1">>}

CapsAt(sc, p, s) ==
  /\ s.always /\ s.l \in {"e0", "e6"} /\ s.a = 0
  /\ <<sc, p, s.n, s.tag>> \in {<<"matrix", 4, 1000000, "none">>, <<"matrix", 9, 50, "E10b">>}
  /\ s.tag = "none" <=> p = 4

VerifiesAt(sc, p, s) ==
  /\ s.always /\ s.l = "pq" /\ s.a = 0 /\ s.n = 1
  /\ <<sc, p, s.w, s.tag>> \in {<<"pq", 13, Recipient, "none">>, <<"pq", 14, Holder3, "P5b">>}

FundsAt(sc, p, s) ==
  /\ s.tag = "none" /\ ~s.always /\ s.l = "m1" /\ s.a = 0
  /\ <<sc, p, s.n, s.w>> = <<"smoke", 2, 1000, MintAuthority>>

ReservesAt(sc, p, s) ==
  ~s.always /\ <<sc, p, s.n, s.w>> = <<"smoke", 1, 1000, MintAuthority>>

SnapsAt(sc, p, s) == <<sc, p>> \in {<<"matrix", 21>>, <<"matrix", 33>>}
PrefundsAt(sc, p, s) == <<sc, p>> \in {<<"matrix", 1>>, <<"pq", 1>>}
TopsAt(sc, p, s) == <<sc, p>> \in {<<"matrix", 2>>, <<"pq", 2>>}

ChecksAt(sc, p, s) ==
  <<sc, p, s.tag>> \in
    {<<"matrix", 5, "E10a">>, <<"matrix", 20, "E2a">>, <<"matrix", 26, "E2b">>,
     <<"matrix", 27, "E2c">>, <<"matrix", 38, "E3a">>, <<"matrix", 41, "E3b">>,
     <<"matrix", 42, "E3c">>, <<"matrix", 51, "E8b">>, <<"pq", 6, "P3a">>,
     <<"pq", 7, "P3b">>, <<"pq", 9, "P3c">>, <<"pq", 12, "P4">>}

\* What the scripts do is in these places and no others.
Placed(sc, p, s) ==
  /\ s.op \in Moves \cup Others
  /\ s.op \in {"prefund", "topup", "wait", "snap", "check"} => s.always
  /\ s.op = "mint" => MintsAt(sc, p, s)
  /\ s.op = "bond" => BondsAt(sc, p, s)
  /\ s.op = "start" => StartsAt(sc, p, s)
  /\ s.op = "append" => AppendsAt(sc, p, s)
  /\ s.op = "finalizeA" => LeadsAt(sc, p, s)
  /\ s.op = "finalizeM1" => FinishesAt(sc, p, s)
  /\ s.op = "finalizeB" => ResolvesAt(sc, p, s)
  /\ s.op = "settle" => SettlesAt(sc, p, s)
  /\ s.op = "wait" => WaitsAt(sc, p, s)
  /\ s.op = "cap" => CapsAt(sc, p, s)
  /\ s.op = "verify" => VerifiesAt(sc, p, s)
  /\ s.op = "fund" => FundsAt(sc, p, s)
  /\ s.op = "reserve" => ReservesAt(sc, p, s)
  /\ s.op = "snap" => SnapsAt(sc, p, s)
  /\ s.op = "prefund" => PrefundsAt(sc, p, s)
  /\ s.op = "topup" => TopsAt(sc, p, s)
  /\ s.op = "check" => ChecksAt(sc, p, s)

\* Every step of the matrix is where Placed says.
LEMMA MatrixPlaces == \A p \in 1..53 : Placed("matrix", p, MatrixScript[p])
<1>. DEFINE s(p) == MatrixScript[p]
<1>1. \A p \in 1..53 : s(p).op \in Moves \cup Others
  BY MatrixTable, SMT DEF Need, Do, Refused, Check, Local, Step, Moves, Others
<1>2. \A p \in 1..53 : s(p).op \in {"prefund", "topup", "wait", "snap", "check"} => s(p).always
  BY MatrixTable, SMT DEF Need, Do, Refused, Check, Local, Step
<1>3. \A p \in 1..53 : s(p).op = "mint" => MintsAt("matrix", p, s(p))
  BY MatrixTable, SMT DEF Need, Do, Refused, Check, Local, Step, Insists, MintsAt
<1>4. \A p \in 1..53 : s(p).op = "bond" => BondsAt("matrix", p, s(p))
  BY MatrixTable, SMT DEF Need, Do, Refused, Check, Local, Step, Insists, BondsAt
<1>5. \A p \in 1..53 : s(p).op = "start" => StartsAt("matrix", p, s(p))
  BY MatrixTable, SMT DEF Need, Do, Refused, Check, Local, Step, Insists, StartsAt
<1>6. \A p \in 1..53 : s(p).op = "append" => AppendsAt("matrix", p, s(p))
  BY MatrixTable, SMT DEF Need, Do, Refused, Check, Local, Step, Insists, AppendsAt
<1>7. \A p \in 1..53 : s(p).op = "finalizeA" => LeadsAt("matrix", p, s(p))
  BY MatrixTable, SMT DEF Need, Do, Refused, Check, Local, Step, Insists, LeadsAt
<1>8. \A p \in 1..53 : s(p).op = "finalizeM1" => FinishesAt("matrix", p, s(p))
  BY MatrixTable, SMT DEF Need, Do, Refused, Check, Local, Step, Insists, FinishesAt
<1>9. \A p \in 1..53 : s(p).op = "finalizeB" => ResolvesAt("matrix", p, s(p))
  BY MatrixTable, SMT DEF Need, Do, Refused, Check, Local, Step, Insists, ResolvesAt
<1>10. \A p \in 1..53 : s(p).op = "settle" => SettlesAt("matrix", p, s(p))
  BY MatrixTable, SMT DEF Need, Do, Refused, Check, Local, Step, Insists, SettlesAt
<1>11. \A p \in 1..53 : s(p).op = "wait" => WaitsAt("matrix", p, s(p))
  BY MatrixTable, SMT DEF Need, Do, Refused, Check, Local, Step, Insists, WaitsAt
<1>12. \A p \in 1..53 : s(p).op = "cap" => CapsAt("matrix", p, s(p))
  BY MatrixTable, SMT DEF Need, Do, Refused, Check, Local, Step, Insists, CapsAt
<1>13. \A p \in 1..53 : s(p).op = "fund" => FundsAt("matrix", p, s(p))
  BY MatrixTable, SMT DEF Need, Do, Refused, Check, Local, Step, Insists, FundsAt
<1>14. \A p \in 1..53 : s(p).op = "reserve" => ReservesAt("matrix", p, s(p))
  BY MatrixTable, SMT DEF Need, Do, Refused, Check, Local, Step, Insists, ReservesAt
<1>15. \A p \in 1..53 : s(p).op = "snap" => SnapsAt("matrix", p, s(p))
  BY MatrixTable, SMT DEF Need, Do, Refused, Check, Local, Step, Insists, SnapsAt
<1>16. \A p \in 1..53 : s(p).op = "prefund" => PrefundsAt("matrix", p, s(p))
  BY MatrixTable, SMT DEF Need, Do, Refused, Check, Local, Step, Insists, PrefundsAt
<1>17. \A p \in 1..53 : s(p).op = "topup" => TopsAt("matrix", p, s(p))
  BY MatrixTable, SMT DEF Need, Do, Refused, Check, Local, Step, Insists, TopsAt
<1>18. \A p \in 1..53 : s(p).op = "check" => ChecksAt("matrix", p, s(p))
  BY MatrixTable, SMT DEF Need, Do, Refused, Check, Local, Step, Insists, ChecksAt
<1>19. \A p \in 1..53 : s(p).op = "verify" => VerifiesAt("matrix", p, s(p))
  BY MatrixTable, SMT DEF Need, Do, Refused, Check, Local, Step, VerifiesAt
<1>. QED
  BY <1>1, <1>2, <1>3, <1>4, <1>5, <1>6, <1>7, <1>8, <1>9, <1>10, <1>11, <1>12, <1>13, <1>14, <1>15, <1>16, <1>17, <1>18, <1>19 DEF Placed

\* Every step of the PQ run is where Placed says.
LEMMA PqPlaces == \A p \in 1..14 : Placed("pq", p, PqScript[p])
<1>. DEFINE s(p) == PqScript[p]
<1>1. \A p \in 1..14 : s(p).op \in Moves \cup Others
  BY PqTable, SMT DEF Need, Do, Refused, Check, Local, Step, Moves, Others
<1>2. \A p \in 1..14 : s(p).op \in {"prefund", "topup", "wait", "snap", "check"} => s(p).always
  BY PqTable, SMT DEF Need, Do, Refused, Check, Local, Step
<1>3. \A p \in 1..14 : s(p).op = "mint" => MintsAt("pq", p, s(p))
  BY PqTable, SMT DEF Need, Do, Refused, Check, Local, Step, Insists, MintsAt
<1>4. \A p \in 1..14 : s(p).op = "bond" => BondsAt("pq", p, s(p))
  BY PqTable, SMT DEF Need, Do, Refused, Check, Local, Step, Insists, BondsAt
<1>5. \A p \in 1..14 : s(p).op = "start" => StartsAt("pq", p, s(p))
  BY PqTable, SMT DEF Need, Do, Refused, Check, Local, Step, Insists, StartsAt
<1>6. \A p \in 1..14 : s(p).op = "append" => AppendsAt("pq", p, s(p))
  BY PqTable, SMT DEF Need, Do, Refused, Check, Local, Step, Insists, AppendsAt
<1>7. \A p \in 1..14 : s(p).op = "finalizeA" => LeadsAt("pq", p, s(p))
  BY PqTable, SMT DEF Need, Do, Refused, Check, Local, Step, Insists, LeadsAt
<1>8. \A p \in 1..14 : s(p).op = "finalizeM1" => FinishesAt("pq", p, s(p))
  BY PqTable, SMT DEF Need, Do, Refused, Check, Local, Step, Insists, FinishesAt
<1>9. \A p \in 1..14 : s(p).op = "finalizeB" => ResolvesAt("pq", p, s(p))
  BY PqTable, SMT DEF Need, Do, Refused, Check, Local, Step, Insists, ResolvesAt
<1>10. \A p \in 1..14 : s(p).op = "settle" => SettlesAt("pq", p, s(p))
  BY PqTable, SMT DEF Need, Do, Refused, Check, Local, Step, Insists, SettlesAt
<1>11. \A p \in 1..14 : s(p).op = "wait" => WaitsAt("pq", p, s(p))
  BY PqTable, SMT DEF Need, Do, Refused, Check, Local, Step, Insists, WaitsAt
<1>12. \A p \in 1..14 : s(p).op = "cap" => CapsAt("pq", p, s(p))
  BY PqTable, SMT DEF Need, Do, Refused, Check, Local, Step, Insists, CapsAt
<1>13. \A p \in 1..14 : s(p).op = "fund" => FundsAt("pq", p, s(p))
  BY PqTable, SMT DEF Need, Do, Refused, Check, Local, Step, Insists, FundsAt
<1>14. \A p \in 1..14 : s(p).op = "reserve" => ReservesAt("pq", p, s(p))
  BY PqTable, SMT DEF Need, Do, Refused, Check, Local, Step, Insists, ReservesAt
<1>15. \A p \in 1..14 : s(p).op = "snap" => SnapsAt("pq", p, s(p))
  BY PqTable, SMT DEF Need, Do, Refused, Check, Local, Step, Insists, SnapsAt
<1>16. \A p \in 1..14 : s(p).op = "prefund" => PrefundsAt("pq", p, s(p))
  BY PqTable, SMT DEF Need, Do, Refused, Check, Local, Step, Insists, PrefundsAt
<1>17. \A p \in 1..14 : s(p).op = "topup" => TopsAt("pq", p, s(p))
  BY PqTable, SMT DEF Need, Do, Refused, Check, Local, Step, Insists, TopsAt
<1>18. \A p \in 1..14 : s(p).op = "check" => ChecksAt("pq", p, s(p))
  BY PqTable, SMT DEF Need, Do, Refused, Check, Local, Step, Insists, ChecksAt
<1>19. \A p \in 1..14 : s(p).op = "verify" => VerifiesAt("pq", p, s(p))
  BY PqTable, SMT DEF Need, Do, Refused, Check, Local, Step, VerifiesAt
<1>. QED
  BY <1>1, <1>2, <1>3, <1>4, <1>5, <1>6, <1>7, <1>8, <1>9, <1>10, <1>11, <1>12, <1>13, <1>14, <1>15, <1>16, <1>17, <1>18, <1>19 DEF Placed

\* Every step of the smoke test is where Placed says.
LEMMA SmokePlaces == \A p \in 1..9 : Placed("smoke", p, SmokeScript[p])
<1>. DEFINE s(p) == SmokeScript[p]
<1>1. \A p \in 1..9 : s(p).op \in Moves \cup Others
  BY SmokeTable, SMT DEF Need, Do, Refused, Check, Local, Step, Moves, Others
<1>2. \A p \in 1..9 : s(p).op \in {"prefund", "topup", "wait", "snap", "check"} => s(p).always
  BY SmokeTable, SMT DEF Need, Do, Refused, Check, Local, Step
<1>3. \A p \in 1..9 : s(p).op = "mint" => MintsAt("smoke", p, s(p))
  BY SmokeTable, SMT DEF Need, Do, Refused, Check, Local, Step, Insists, MintsAt
<1>4. \A p \in 1..9 : s(p).op = "bond" => BondsAt("smoke", p, s(p))
  BY SmokeTable, SMT DEF Need, Do, Refused, Check, Local, Step, Insists, BondsAt
<1>5. \A p \in 1..9 : s(p).op = "start" => StartsAt("smoke", p, s(p))
  BY SmokeTable, SMT DEF Need, Do, Refused, Check, Local, Step, Insists, StartsAt
<1>6. \A p \in 1..9 : s(p).op = "append" => AppendsAt("smoke", p, s(p))
  BY SmokeTable, SMT DEF Need, Do, Refused, Check, Local, Step, Insists, AppendsAt
<1>7. \A p \in 1..9 : s(p).op = "finalizeA" => LeadsAt("smoke", p, s(p))
  BY SmokeTable, SMT DEF Need, Do, Refused, Check, Local, Step, Insists, LeadsAt
<1>8. \A p \in 1..9 : s(p).op = "finalizeM1" => FinishesAt("smoke", p, s(p))
  BY SmokeTable, SMT DEF Need, Do, Refused, Check, Local, Step, Insists, FinishesAt
<1>9. \A p \in 1..9 : s(p).op = "finalizeB" => ResolvesAt("smoke", p, s(p))
  BY SmokeTable, SMT DEF Need, Do, Refused, Check, Local, Step, Insists, ResolvesAt
<1>10. \A p \in 1..9 : s(p).op = "settle" => SettlesAt("smoke", p, s(p))
  BY SmokeTable, SMT DEF Need, Do, Refused, Check, Local, Step, Insists, SettlesAt
<1>11. \A p \in 1..9 : s(p).op = "wait" => WaitsAt("smoke", p, s(p))
  BY SmokeTable, SMT DEF Need, Do, Refused, Check, Local, Step, Insists, WaitsAt
<1>12. \A p \in 1..9 : s(p).op = "cap" => CapsAt("smoke", p, s(p))
  BY SmokeTable, SMT DEF Need, Do, Refused, Check, Local, Step, Insists, CapsAt
<1>13. \A p \in 1..9 : s(p).op = "fund" => FundsAt("smoke", p, s(p))
  BY SmokeTable, SMT DEF Need, Do, Refused, Check, Local, Step, Insists, FundsAt
<1>14. \A p \in 1..9 : s(p).op = "reserve" => ReservesAt("smoke", p, s(p))
  BY SmokeTable, SMT DEF Need, Do, Refused, Check, Local, Step, Insists, ReservesAt
<1>15. \A p \in 1..9 : s(p).op = "snap" => SnapsAt("smoke", p, s(p))
  BY SmokeTable, SMT DEF Need, Do, Refused, Check, Local, Step, Insists, SnapsAt
<1>16. \A p \in 1..9 : s(p).op = "prefund" => PrefundsAt("smoke", p, s(p))
  BY SmokeTable, SMT DEF Need, Do, Refused, Check, Local, Step, Insists, PrefundsAt
<1>17. \A p \in 1..9 : s(p).op = "topup" => TopsAt("smoke", p, s(p))
  BY SmokeTable, SMT DEF Need, Do, Refused, Check, Local, Step, Insists, TopsAt
<1>18. \A p \in 1..9 : s(p).op = "check" => ChecksAt("smoke", p, s(p))
  BY SmokeTable, SMT DEF Need, Do, Refused, Check, Local, Step, Insists, ChecksAt
<1>19. \A p \in 1..9 : s(p).op = "verify" => VerifiesAt("smoke", p, s(p))
  BY SmokeTable, SMT DEF Need, Do, Refused, Check, Local, Step, VerifiesAt
<1>. QED
  BY <1>1, <1>2, <1>3, <1>4, <1>5, <1>6, <1>7, <1>8, <1>9, <1>10, <1>11, <1>12, <1>13, <1>14, <1>15, <1>16, <1>17, <1>18, <1>19 DEF Placed

\* Every step of every script is where Placed says.
LEMMA AllPlaced ==
  ASSUME NEW sc \in DOMAIN StepsOf, NEW p \in Positions(sc)
  PROVE  Placed(sc, p, StepsOf[sc][p])
<1>1. CASE sc = "matrix"
  <2>1. Positions(sc) = 1..53 /\ StepsOf[sc] = MatrixScript
    BY <1>1, ScriptsAre, Lengths DEF Positions
  <2>. QED  BY <1>1, <2>1, MatrixPlaces
<1>2. CASE sc = "pq"
  <2>1. Positions(sc) = 1..14 /\ StepsOf[sc] = PqScript
    BY <1>2, ScriptsAre, Lengths DEF Positions
  <2>. QED  BY <1>2, <2>1, PqPlaces
<1>3. CASE sc = "smoke"
  <2>1. Positions(sc) = 1..9 /\ StepsOf[sc] = SmokeScript
    BY <1>3, ScriptsAre, Lengths DEF Positions
  <2>. QED  BY <1>3, <2>1, SmokePlaces
<1>. QED  BY <1>1, <1>2, <1>3, ScriptsAre

\* Where the views of a coin change the script moves that coin, and goes on.
LEMMA TurnPlaces ==
  ASSUME NEW sc \in DOMAIN StepsOf, NEW l \in Uses[sc], NEW p \in Positions(sc),
         <<l, p>> \in Turns
  PROVE  /\ StepsOf[sc][p].l = l /\ StepsOf[sc][p].op \in Moves
         /\ StepsOf[sc][p].tag = "none" /\ p < Len(StepsOf[sc])
<1>1. \A m \in Uses["matrix"], i \in 1..53 : <<m, i>> \in Turns =>
        LET s == MatrixScript[i] IN s.l = m /\ s.op \in Moves /\ s.tag = "none" /\ i < 53
  BY MatrixTable, SMT DEF Turns, Uses, Moves, Need, Do, Refused, Check, Local, Step
<1>2. \A m \in Uses["pq"], i \in 1..14 : <<m, i>> \in Turns =>
        LET s == PqScript[i] IN s.l = m /\ s.op \in Moves /\ s.tag = "none" /\ i < 14
  BY PqTable, SMT DEF Turns, Uses, Moves, Need, Do, Refused, Check, Local, Step
<1>3. \A m \in Uses["smoke"], i \in 1..9 : <<m, i>> \in Turns =>
        LET s == SmokeScript[i] IN s.l = m /\ s.op \in Moves /\ s.tag = "none" /\ i < 9
  BY SmokeTable, SMT DEF Turns, Uses, Moves, Need, Do, Refused, Check, Local, Step
<1>4. CASE sc = "matrix"
  <2>1. p \in 1..53 /\ l \in Uses["matrix"] /\ StepsOf[sc] = MatrixScript
    BY <1>4, ScriptsAre, Lengths DEF Positions
  <2>2. LET s == MatrixScript[p] IN s.l = l /\ s.op \in Moves /\ s.tag = "none" /\ p < 53
    BY <1>1, <2>1
  <2>. QED  BY <1>4, <2>1, <2>2, Lengths
<1>5. CASE sc = "pq"
  <2>1. p \in 1..14 /\ l \in Uses["pq"] /\ StepsOf[sc] = PqScript
    BY <1>5, ScriptsAre, Lengths DEF Positions
  <2>2. LET s == PqScript[p] IN s.l = l /\ s.op \in Moves /\ s.tag = "none" /\ p < 14
    BY <1>2, <2>1
  <2>. QED  BY <1>5, <2>1, <2>2, Lengths
<1>6. CASE sc = "smoke"
  <2>1. p \in 1..9 /\ l \in Uses["smoke"] /\ StepsOf[sc] = SmokeScript
    BY <1>6, ScriptsAre, Lengths DEF Positions
  <2>2. LET s == SmokeScript[p] IN s.l = l /\ s.op \in Moves /\ s.tag = "none" /\ p < 9
    BY <1>3, <2>1
  <2>. QED  BY <1>6, <2>1, <2>2, Lengths
<1>. QED  BY <1>4, <1>5, <1>6, ScriptsAre

NextPos(sc, p) == IF p < Len(StepsOf[sc]) THEN p + 1 ELSE p

\* A step leaves alone the coins it is not about, and those it is refused for.
LEMMA ViewsKept ==
  ASSUME NEW sc \in DOMAIN StepsOf, NEW p \in Positions(sc), NEW l \in Uses[sc],
         LET s == StepsOf[sc][p] IN s.l # l \/ s.op \notin Moves \/ s.tag # "none"
  PROVE  Views(l, p) \subseteq Views(l, NextPos(sc, p))
<1>1. <<l, p>> \notin Turns
  BY TurnPlaces
<1>2. l \in Labels /\ p \in Nat
  BY UsesLabels DEF Positions
<1>. QED  BY <1>1, <1>2, ViewsGoOn DEF NextPos

\* The views at the steps that move a coin, and after them.
LEMMA ViewsTable ==
  /\ Views("e0", 3) = {Unminted, Minted}
  /\ Views("e0", 4) = {Minted}
  /\ Views("e6", 6) = {Unminted, Minted, Receives(1)}
  /\ Views("e6", 7) = {Minted, Receives(1)}
  /\ Views("e6", 8) = {Minted, Receives(1)}
  /\ Views("e6", 9) = {Receives(1)}
  /\ Views("e7", 10) = {Unminted, Minted, Receives(1), Receives(2), Receives(3), Receives(4)}
  /\ Views("e7", 11) = {Minted, Receives(1), Receives(2), Receives(3), Receives(4)}
  /\ Views("e7", 12) = {Minted, Receives(1), Receives(2), Receives(3), Receives(4)}
  /\ Views("e7", 13) = {Receives(1), Receives(2), Receives(3), Receives(4)}
  /\ Views("e7", 14) = {Receives(4)}
  /\ Views("e2", 15) = {Unminted}
  /\ Views("e2", 16) = {Minted}
  /\ Views("e2", 17) = {Minted}
  /\ Views("e2", 18) = {Receives(1), Receives(2)}
  /\ Views("e2", 19) = {Receives(2)}
  /\ Views("e2", 20) = {Leads(2)}
  /\ Views("e2", 23) = {Leads(2)}
  /\ Views("e2", 24) = {Contends(2, 1), Contends(2, 2), Contends(2, 3)}
  /\ Views("e2", 25) = {Contends(2, 3)}
  /\ Views("e2", 26) = {Overtaken}
  /\ Views("e3", 28) = {Unminted}
  /\ Views("e3", 29) = {Minted}
  /\ Views("e3", 30) = {Minted}
  /\ Views("e3", 31) = {Receives(1), Receives(2), Receives(3)}
  /\ Views("e3", 32) = {Receives(3)}
  /\ Views("e3", 33) = {Leads(3)}
  /\ Views("e3", 35) = {Leads(3)}
  /\ Views("e3", 36) = {Contends(3, 1), Contends(3, 2), Contends(3, 3)}
  /\ Views("e3", 37) = {Contends(3, 3)}
  /\ Views("e3", 38) = {Stands}
  /\ Views("e3", 40) = {Stands}
  /\ Views("e3", 41) = {Stood}
  /\ Views("e8", 43) = {Unminted}
  /\ Views("e8", 44) = {Minted}
  /\ Views("e8", 45) = {Minted}
  /\ Views("e8", 46) = {Receives(1), Receives(2)}
  /\ Views("e8", 47) = {Receives(2)}
  /\ Views("e8", 48) = {Leads(2)}
  /\ Views("e8", 49) = {Leads(2), Paid0(2)}
  /\ Views("e8", 50) = {Leads(2), Paid0(2)}
  /\ Views("e8", 51) = {Paid0(2)}
  /\ Views("pq", 3) = {Unminted}
  /\ Views("pq", 4) = {Minted}
  /\ Views("pq", 5) = {Receives(1)}
  /\ Views("pq", 6) = {Receives(3)}
  /\ Views("pq", 8) = {Receives(3)}
  /\ Views("pq", 9) = {Leads(3)}
  /\ Views("pq", 11) = {Leads(3)}
  /\ Views("pq", 12) = {Paid0(3)}
  /\ Views("m1", 3) = {Unminted, Minted, Receives(1), Receives(2), Receives(3), Leads(3), Paid0(3)}
  /\ Views("m1", 4) = {Minted, Receives(1), Receives(2), Receives(3), Leads(3), Paid0(3)}
  /\ Views("m1", 5) = {Minted, Receives(1), Receives(2), Receives(3), Leads(3), Paid0(3)}
  /\ Views("m1", 6) = {Receives(1), Receives(2), Receives(3), Leads(3), Paid0(3)}
  /\ Views("m1", 7) = {Receives(3), Leads(3), Paid0(3)}
  /\ Views("m1", 8) = {Leads(3), Paid0(3)}
  /\ Views("m1", 9) = {Leads(3), Paid0(3)}
BY SMT DEF Views

\* At the steps that are expected to be refused.
LEMMA ViewsAtRefusals ==
  /\ Views("e6", 9) = {Receives(1)} /\ Views("e7", 14) = {Receives(4)}
  /\ Views("e8", 52) = {Paid0(2)} /\ Views("e6", 53) = {Receives(1)}
BY SMT DEF Views

\* No last step, unless a settle.
Ends(sc) == IF sc = "matrix" THEN 53 ELSE IF sc = "pq" THEN 14 ELSE 9

\* The scripts are as long as Ends says.
LEMMA EndsAre == \A sc \in DOMAIN StepsOf : Len(StepsOf[sc]) = Ends(sc)
BY ScriptsAre, Lengths DEF Ends

\* A mint takes its coin from unminted to minted, as the next step expects.
LEMMA ViewsAtMint ==
  ASSUME NEW sc \in DOMAIN StepsOf, NEW p \in Positions(sc), NEW s, MintsAt(sc, p, s)
  PROVE  /\ p < Len(StepsOf[sc]) /\ s.l \in Uses[sc] /\ p >= 3
         /\ Views(s.l, p) \ {Unminted} \subseteq Views(s.l, p + 1)
         /\ Minted \in Views(s.l, p + 1)
         /\ \A x \in Views(s.l, p) : x = Unminted \/ x[1] # "NONE"
<1>1. p < Ends(sc) /\ p >= 3
  BY DEF MintsAt, Ends
<1>2. s.l \in Uses[sc]
  BY DEF MintsAt, Uses
<1>3. Views(s.l, p) \ {Unminted} \subseteq Views(s.l, p + 1)
  BY ViewsTable DEF MintsAt
<1>4. Minted \in Views(s.l, p + 1)
  BY ViewsTable DEF MintsAt
<1>. DEFINE There == {Minted, Receives(1), Receives(2), Receives(3), Receives(4), Leads(3), Paid0(3)}
<1>5. \A x \in There : x[1] # "NONE"
  BY DEF Minted, Receives, Leads, Paid0
<1>6. \A x \in Views(s.l, p) : x = Unminted \/ x \in There
  BY ViewsTable DEF MintsAt
<1>. HIDE DEF There
<1>7. \A x \in Views(s.l, p) : x = Unminted \/ x[1] # "NONE"
  BY <1>5, <1>6
<1>. QED  BY <1>1, <1>2, <1>3, <1>4, <1>7, EndsAre

\* A start finds the coin minted or led, and leaves it as the next step expects.
LEMMA ViewsAtStart ==
  ASSUME NEW sc \in DOMAIN StepsOf, NEW p \in Positions(sc), NEW s, StartsAt(sc, p, s),
         s.tag = "none"
  PROVE  /\ p < Len(StepsOf[sc]) /\ s.l \in Uses[sc]
         /\ \/ /\ s.a = 0 /\ s.w = Recipient /\ Receives(1) \in Views(s.l, p + 1)
               /\ \A x \in Views(s.l, p) :
                    x = Minted \/ (x[2] # "NONE" /\ x \in Views(s.l, p + 1))
               /\ sc = "pq" => Views(s.l, p) = {Minted}
            \/ /\ s.a = 1 /\ s.w = Holder3 /\ sc = "matrix"
               /\ \E n \in {2, 3} : /\ Views(s.l, p) = {Leads(n)}
                                    /\ Contends(n, 1) \in Views(s.l, p + 1)
<1>1. p < Ends(sc)
  BY DEF StartsAt, Ends
<1>2. s.l \in Uses[sc]
  BY DEF StartsAt, Uses
<1>3. CASE s.a = 0
  <2>1. s.w = Recipient
    BY <1>3 DEF StartsAt
  <2>2. Receives(1) \in Views(s.l, p + 1)
    BY <1>3, ViewsTable DEF StartsAt
  <2>. DEFINE Begun == {Receives(1), Receives(2), Receives(3), Receives(4), Leads(3), Paid0(3)}
  <2>3. \A x \in Begun : x[2] # "NONE"
    BY DEF Receives, Leads, Paid0
  <2>4. ASSUME NEW x \in Views(s.l, p)
        PROVE  x = Minted \/ (x[2] # "NONE" /\ x \in Views(s.l, p + 1))
    <3>1. x = Minted \/ x \in Views(s.l, p + 1)
      BY <1>3, <2>4, ViewsTable DEF StartsAt
    <3>. HIDE DEF Begun
    <3>2. Views(s.l, p) \subseteq {Minted} \cup Begun
      BY <1>3, ViewsTable DEF StartsAt, Begun
    <3>. QED  BY <2>3, <2>4, <3>1, <3>2
  <2>5. sc = "pq" => Views(s.l, p) = {Minted}
    BY ViewsTable DEF StartsAt
  <2>. QED  BY <1>1, <1>2, <1>3, <2>1, <2>2, <2>4, <2>5, EndsAre
<1>4. CASE s.a = 1
  <2>1. s.w = Holder3 /\ sc = "matrix"
    BY <1>4 DEF StartsAt
  <2>2. \E n \in {2, 3} : Views(s.l, p) = {Leads(n)} /\ Contends(n, 1) \in Views(s.l, p + 1)
    BY <1>4, ViewsTable DEF StartsAt
  <2>. QED  BY <1>1, <1>2, <1>4, <2>1, <2>2, EndsAre
<1>5. s.a \in {0, 1}
  BY DEF StartsAt
<1>. QED  BY <1>3, <1>4, <1>5

\* The number of states the chains of the scripts have.
Full(l, a) == IF l = "e6" THEN 6 ELSE IF l = "e7" THEN 5
              ELSE IF l = "e8" \/ (l = "e2" /\ a = 0) THEN 2 ELSE 3

\* What an append expects to find, and what the step after it expects.
LEMMA ViewsAtAppend ==
  ASSUME NEW sc \in DOMAIN StepsOf, NEW p \in Positions(sc), NEW s, AppendsAt(sc, p, s),
         s.tag = "none"
  PROVE  /\ p < Len(StepsOf[sc]) /\ s.l \in Uses[sc] /\ s.n \in 2..4 /\ s.n <= Full(s.l, s.a)
         /\ \/ /\ s.a = 0 /\ sc # "pq"
               /\ \A x \in Views(s.l, p) : \/ \E m \in 1..s.n : x = Receives(m)
                                           \/ x[3] = s.n /\ x \in Views(s.l, p + 1)
               /\ \A m \in 1..s.n : Receives(m) \in Views(s.l, p)
               /\ Receives(s.n) \in Views(s.l, p + 1)
            \/ /\ s.a = 0 /\ sc = "pq" /\ s.n = 3
               /\ Views(s.l, p) = {Receives(1)} /\ Receives(3) \in Views(s.l, p + 1)
            \/ /\ s.a = 1 /\ sc = "matrix" /\ s.n = 3
               /\ \E h \in {2, 3} :
                    /\ Views(s.l, p) = {Contends(h, 1), Contends(h, 2), Contends(h, 3)}
                    /\ Contends(h, 3) \in Views(s.l, p + 1)
<1>1. s.n \in 2..4 /\ s.n <= Full(s.l, s.a) /\ s.a \in {0, 1}
  BY DEF AppendsAt, Full
<1>2. p < Len(StepsOf[sc])
  <2>1. p < Ends(sc)
    BY DEF AppendsAt, Ends
  <2>. QED  BY <2>1, EndsAre
<1>3. s.l \in Uses[sc]
  BY DEF AppendsAt, Uses
<1>4. CASE s.a = 0 /\ sc # "pq"
  <2>1. ASSUME NEW x \in Views(s.l, p)
        PROVE  \/ \E m \in 1..s.n : x = Receives(m)
               \/ x \in {Leads(3), Paid0(3)} /\ s.n = 3 /\ x \in Views(s.l, p + 1)
    BY <1>4, <2>1, ViewsTable DEF AppendsAt
  <2>2. \A x \in {Leads(3), Paid0(3)} : x[3] = 3
    BY DEF Leads, Paid0
  <2>3. ASSUME NEW x \in Views(s.l, p)
        PROVE  \/ \E m \in 1..s.n : x = Receives(m)
               \/ x[3] = s.n /\ x \in Views(s.l, p + 1)
    BY <2>1, <2>2
  <2>4. ASSUME NEW m \in 1..s.n PROVE Receives(m) \in Views(s.l, p)
    <3>1. m \in {1, 2, 3, 4} /\ m <= s.n
      BY <1>1
    <3>. QED  BY <1>4, <3>1, ViewsTable DEF AppendsAt
  <2>5. Receives(s.n) \in Views(s.l, p + 1)
    BY <1>4, ViewsTable DEF AppendsAt
  <2>. QED  BY <1>1, <1>2, <1>3, <1>4, <2>3, <2>4, <2>5
<1>5. CASE s.a = 0 /\ sc = "pq"
  <2>1. /\ s.n = 3 /\ Views(s.l, p) = {Receives(1)} /\ Receives(3) \in Views(s.l, p + 1)
    BY <1>5, ViewsTable DEF AppendsAt
  <2>. QED  BY <1>1, <1>2, <1>3, <1>5, <2>1
<1>6. CASE s.a = 1
  <2>1. s.n = 3 /\ sc = "matrix"
    BY <1>6 DEF AppendsAt
  <2>2. \E h \in {2, 3} : /\ Views(s.l, p) = {Contends(h, 1), Contends(h, 2), Contends(h, 3)}
                          /\ Contends(h, 3) \in Views(s.l, p + 1)
    BY <1>6, ViewsTable DEF AppendsAt
  <2>. QED  BY <1>1, <1>2, <1>3, <1>6, <2>1, <2>2
<1>. QED  BY <1>1, <1>4, <1>5, <1>6

\* A first finalize finds a receiving submission and leaves the head.
LEMMA ViewsAtLead ==
  ASSUME NEW sc \in DOMAIN StepsOf, NEW p \in Positions(sc), NEW s, LeadsAt(sc, p, s)
  PROVE  /\ p < Len(StepsOf[sc]) /\ s.l \in Uses[sc]
         /\ \E n \in {2, 3} : Views(s.l, p) = {Receives(n)} /\ Leads(n) \in Views(s.l, p + 1)
<1>1. p < Ends(sc)
  BY DEF LeadsAt, Ends
<1>2. s.l \in Uses[sc]
  BY DEF LeadsAt, Uses
<1>3. \E n \in {2, 3} : Views(s.l, p) = {Receives(n)} /\ Leads(n) \in Views(s.l, p + 1)
  BY ViewsTable DEF LeadsAt
<1>. QED  BY <1>1, <1>2, <1>3, EndsAre

\* The finalize of the smoke test, which finds its coin in any later state too.
LEMMA ViewsAtFinish ==
  ASSUME NEW sc \in DOMAIN StepsOf, NEW p \in Positions(sc), NEW s, FinishesAt(sc, p, s)
  PROVE  /\ p < Len(StepsOf[sc]) /\ s.l \in Uses[sc]
         /\ Views(s.l, p) = {Receives(3), Leads(3), Paid0(3)}
         /\ Views(s.l, p + 1) = {Leads(3), Paid0(3)}
<1>1. p < Ends(sc)
  BY DEF FinishesAt, Ends
<1>2. s.l \in Uses[sc]
  BY DEF FinishesAt, Uses
<1>3. /\ Views(s.l, p) = {Receives(3), Leads(3), Paid0(3)}
      /\ Views(s.l, p + 1) = {Leads(3), Paid0(3)}
  BY ViewsTable DEF FinishesAt
<1>. QED  BY <1>1, <1>2, <1>3, EndsAre

\* A finalize of the contender finds the two chains of E2 or of E3.
LEMMA ViewsAtResolve ==
  ASSUME NEW sc \in DOMAIN StepsOf, NEW p \in Positions(sc), NEW s, ResolvesAt(sc, p, s)
  PROVE  /\ p < Len(StepsOf[sc]) /\ s.l \in Uses[sc] /\ sc = "matrix"
         /\ \/ p = 25 /\ Views(s.l, p) = {Contends(2, 3)} /\ Overtaken \in Views(s.l, p + 1)
            \/ p = 37 /\ Views(s.l, p) = {Contends(3, 3)} /\ Stands \in Views(s.l, p + 1)
<1>1. p < Ends(sc) /\ sc = "matrix"
  BY DEF ResolvesAt, Ends
<1>2. s.l \in Uses[sc]
  BY DEF ResolvesAt, Uses
<1>3. \/ p = 25 /\ Views(s.l, p) = {Contends(2, 3)} /\ Overtaken \in Views(s.l, p + 1)
      \/ p = 37 /\ Views(s.l, p) = {Contends(3, 3)} /\ Stands \in Views(s.l, p + 1)
  BY ViewsTable DEF ResolvesAt
<1>. QED  BY <1>1, <1>2, <1>3, EndsAre

\* A settle finds a pending submission and leaves what the next step expects.
LEMMA ViewsAtSettle ==
  ASSUME NEW sc \in DOMAIN StepsOf, NEW p \in Positions(sc), NEW s, SettlesAt(sc, p, s)
  PROVE  /\ s.l \in Uses[sc]
         /\ \/ /\ sc = "matrix" /\ p = 40 /\ s.l = "e3" /\ Views(s.l, p) = {Stands}
               /\ Stood \in Views(s.l, NextPos(sc, p))
            \/ /\ ~(sc = "matrix" /\ p = 40)
               /\ \E n \in {2, 3} : /\ Views(s.l, p) \subseteq {Leads(n), Paid0(n)}
                                    /\ Paid0(n) \in Views(s.l, NextPos(sc, p))
         /\ sc = "pq" => Views(s.l, p) = {Leads(3)}
<1>1. s.l \in Uses[sc]
  BY DEF SettlesAt, Uses
<1>2. NextPos(sc, p) = IF p < Ends(sc) THEN p + 1 ELSE p
  BY EndsAre DEF NextPos
<1>3. NextPos(sc, p) = IF sc = "smoke" THEN p ELSE p + 1
  BY <1>2 DEF SettlesAt, Ends
<1>4. \/ /\ sc = "matrix" /\ p = 40 /\ s.l = "e3" /\ Views(s.l, p) = {Stands}
         /\ Stood \in Views(s.l, NextPos(sc, p))
      \/ /\ ~(sc = "matrix" /\ p = 40)
         /\ \E n \in {2, 3} : /\ Views(s.l, p) \subseteq {Leads(n), Paid0(n)}
                              /\ Paid0(n) \in Views(s.l, NextPos(sc, p))
  BY <1>3, ViewsTable DEF SettlesAt
<1>5. sc = "pq" => Views(s.l, p) = {Leads(3)}
  BY ViewsTable DEF SettlesAt
<1>. QED  BY <1>1, <1>4, <1>5

-----------------------------------------------------------------------------
(* The chains the scripts build. *)

\* Induction over an interval: the least number left out would be the successor
\* of one that is not.
LEMMA IntervalInduction ==
  ASSUME NEW n \in Nat, NEW B, 0 \in B, \A i \in 1..n : i - 1 \in B => i \in B
  PROVE  0..n \subseteq B
<1>. DEFINE Bad == {k \in Nat : k <= n /\ k \notin B}
<1>. SUFFICES ASSUME Bad # {} PROVE FALSE
  OBVIOUS
<1>1. PICK k \in Bad : \A j \in Bad : <<j, k>> \notin OpToRel(<, Nat)
  BY NatLessThanWellFounded, WFMin
<1>2. k \in 1..n /\ k - 1 \in Nat /\ k - 1 <= n /\ k - 1 < k
  OBVIOUS
<1>3. k - 1 \notin Bad
  BY <1>1, <1>2 DEF OpToRel
<1>. QED  BY <1>2, <1>3

\* The first k states of the chain over these owners.
Chained(f, k, sn, owners) ==
  f = [i \in 1..k |-> IF i = 1 THEN GenesisState(sn, Value, owners[1])
                      ELSE NextState(f[i-1], owners[i])]

\* There is such a chain of every length.
LEMMA ChainedExists ==
  ASSUME NEW n \in Nat, NEW sn, NEW owners
  PROVE  \E f : Chained(f, n, sn, owners)
<1>. DEFINE B == {k \in Nat : \E f : Chained(f, k, sn, owners)}
<1>1. 0 \in B
  <2>1. Chained([i \in 1..0 |-> 0], 0, sn, owners)
    BY DEF Chained
  <2>. QED  BY <2>1
<1>2. ASSUME NEW k \in 1..n, k - 1 \in B PROVE k \in B
  <2>1. PICK f : Chained(f, k - 1, sn, owners)
    BY <1>2
  <2>. DEFINE Entry(h, i) == IF i = 1 THEN GenesisState(sn, Value, owners[1])
                             ELSE NextState(h[i-1], owners[i])
              g == [i \in 1..k |-> IF i = k THEN Entry(f, k) ELSE f[i]]
  <2>2. \A i \in 1..(k - 1) : f[i] = Entry(f, i)
    BY <2>1 DEF Chained
  <2>3. ASSUME NEW i \in 1..k PROVE g[i] = Entry(g, i)
    <3>1. i # 1 => i - 1 \in 1..k /\ i - 1 # k
      OBVIOUS
    <3>2. i # 1 => g[i-1] = f[i-1]
      BY <3>1
    <3>3. CASE i = k
      BY <3>2, <3>3
    <3>4. CASE i # k
      BY <2>2, <3>2, <3>4
    <3>. QED  BY <3>3, <3>4
  <2>4. g = [i \in 1..k |-> g[i]]
    OBVIOUS
  <2>. HIDE DEF g
  <2>5. Chained(g, k, sn, owners)
    BY <2>3, <2>4 DEF Chained
  <2>. QED  BY <2>5
<1>. HIDE DEF B
<1>3. n \in B
  BY <1>1, <1>2, IntervalInduction
<1>. QED  BY <1>3 DEF B

\* A state that another is made from.
LEMMA NextStateOf ==
  ASSUME NEW s \in State, NEW w \in Wallets
  PROVE  /\ NextState(s, w) \in State /\ NextState(s, w).owner = w
         /\ NextState(s, w).serial = s.serial /\ NextState(s, w).value = s.value
         /\ NextState(s, w).prev = StateHash(s)
BY StateHashType DEF NextState, State

\* What buildChain returns: the states of the coin, one for each owner, each
\* the successor of the one before.
LEMMA ChainBuilt ==
  ASSUME NEW sn \in Serials, NEW owners \in Seq(Wallets), Len(owners) >= 1,
         NEW c, c = BuildChain(sn, owners)
  PROVE  /\ c \in Seq(State) /\ Len(c) = Len(owners)
         /\ c[1] = GenesisState(sn, Value, owners[1])
         /\ \A i \in 1..Len(c) : c[i].owner = owners[i]
         /\ \A i \in 2..Len(c) : Follows(c[i], c[i-1], sn, Value)
<1>. DEFINE n == Len(owners)
<1>0. n \in Nat /\ n >= 1 /\ \A i \in 1..n : owners[i] \in Wallets
  OBVIOUS
<1>1. Chained(c, n, sn, owners)
  <2>1. \E f : Chained(f, n, sn, owners)
    BY <1>0, ChainedExists
  <2>. QED  BY <2>1 DEF BuildChain, Chained
<1>2. DOMAIN c = 1..n
  BY <1>1 DEF Chained
<1>3. c[1] = GenesisState(sn, Value, owners[1])
  BY <1>0, <1>1 DEF Chained
<1>4. \A i \in 2..n : c[i] = NextState(c[i-1], owners[i])
  BY <1>0, <1>1 DEF Chained
<1>. HIDE DEF n
<1>. DEFINE Good(i) == c[i] \in State /\ c[i].serial = sn /\ c[i].value = Value
                       /\ c[i].owner = owners[i]
            B == {i \in 0..n : i # 0 => Good(i)}
<1>. HIDE DEF Good
<1>5. Good(1)
  <2>1. Value \in Values /\ owners[1] \in Wallets
    BY <1>0, ScriptAssumption
  <2>2. GenesisState(sn, Value, owners[1]) \in State
    BY <2>1, GenesisType
  <2>. QED  BY <1>3, <2>2 DEF GenesisState, Good
<1>6. ASSUME NEW i \in 1..n, i - 1 \in B PROVE i \in B
  <2>1. CASE i = 1
    BY <1>5, <2>1
  <2>2. CASE i # 1
    <3>1. i \in 2..n /\ i - 1 # 0
      BY <1>0, <2>2
    <3>2. Good(i - 1)
      BY <1>6, <3>1
    <3>3. c[i] = NextState(c[i-1], owners[i]) /\ owners[i] \in Wallets
      BY <1>0, <1>4, <3>1
    <3>4. NextState(c[i-1], owners[i]) \in State
          /\ NextState(c[i-1], owners[i]).serial = sn
          /\ NextState(c[i-1], owners[i]).value = Value
          /\ NextState(c[i-1], owners[i]).owner = owners[i]
      BY <3>2, <3>3, NextStateOf DEF Good
    <3>. QED  BY <3>1, <3>3, <3>4 DEF Good
  <2>. QED  BY <2>1, <2>2
<1>7. \A i \in 1..n : Good(i)
  <2>1. 0 \in B
    BY <1>0
  <2>. HIDE DEF B
  <2>2. 0..n \subseteq B
    BY <1>0, <1>6, <2>1, IntervalInduction
  <2>3. \A i \in 1..n : i \in B /\ i # 0
    BY <2>2
  <2>. QED  BY <2>3 DEF B
<1>8. c = [i \in 1..n |-> c[i]]
  BY <1>1, <1>2 DEF Chained
<1>9. c \in Seq(State) /\ Len(c) = n
  BY <1>0, <1>2, <1>7, <1>8 DEF Good
<1>10. ASSUME NEW i \in 2..n PROVE Follows(c[i], c[i-1], sn, Value)
  <2>1. i \in 1..n /\ i - 1 \in 1..n
    BY <1>0
  <2>2. c[i-1] \in State /\ c[i-1].serial = sn /\ c[i-1].value = Value /\ owners[i] \in Wallets
    BY <1>0, <1>7, <2>1 DEF Good
  <2>3. c[i] = NextState(c[i-1], owners[i])
    BY <1>4
  <2>4. /\ NextState(c[i-1], owners[i]).serial = sn /\ NextState(c[i-1], owners[i]).value = Value
        /\ NextState(c[i-1], owners[i]).prev = StateHash(c[i-1])
    BY <2>2, NextStateOf
  <2>. QED  BY <2>3, <2>4 DEF Follows
<1>. QED  BY <1>3, <1>7, <1>9, <1>10 DEF n, Good

\* The owners of the chains: the recipient first, the third holder third.
LEMMA OwnersAre ==
  ASSUME NEW l \in Labels, NEW a \in Attempts
  PROVE  /\ OwnersOf(l, a) \in Seq(Wallets) /\ Len(OwnersOf(l, a)) = Full(l, a)
         /\ OwnersOf(l, a)[1] = Recipient
         /\ Full(l, a) >= 2
         /\ Full(l, a) = 3 => OwnersOf(l, a)[3] = Holder3
<1>. DEFINE abc == <<Recipient, Holder2, Holder3>>
<1>1. abc \in Seq(Wallets) /\ <<Recipient, Holder2>> \in Seq(Wallets)
  BY ScriptAssumption
<1>2. CASE l = "e6"
  <2>1. OwnersOf(l, a) = abc \o abc
    BY <1>2 DEF OwnersOf
  <2>2. abc \o abc \in Seq(Wallets) /\ Len(abc \o abc) = 6
    BY <1>1
  <2>3. (abc \o abc)[1] = Recipient
    BY <1>1
  <2>4. Full(l, a) = 6
    BY <1>2 DEF Full
  <2>. HIDE DEF abc
  <2>. QED  BY <2>1, <2>2, <2>3, <2>4
<1>3. CASE l = "e7"
  <2>1. OwnersOf(l, a) = abc \o <<Recipient, Holder2>>
    BY <1>3 DEF OwnersOf
  <2>2. abc \o <<Recipient, Holder2>> \in Seq(Wallets) /\ Len(abc \o <<Recipient, Holder2>>) = 5
    BY <1>1
  <2>3. (abc \o <<Recipient, Holder2>>)[1] = Recipient
    BY <1>1
  <2>4. Full(l, a) = 5
    BY <1>3 DEF Full
  <2>. HIDE DEF abc
  <2>. QED  BY <2>1, <2>2, <2>3, <2>4
<1>4. CASE l \notin {"e6", "e7"} /\ (l = "e8" \/ (l = "e2" /\ a = 0))
  <2>1. OwnersOf(l, a) = <<Recipient, Holder2>>
    BY <1>4 DEF OwnersOf
  <2>. QED  BY <1>1, <1>4, <2>1 DEF Full
<1>5. CASE l \notin {"e6", "e7"} /\ ~(l = "e8" \/ (l = "e2" /\ a = 0))
  <2>1. OwnersOf(l, a) = abc
    BY <1>5 DEF OwnersOf
  <2>. QED  BY <1>1, <1>5, <2>1 DEF Full
<1>. QED  BY <1>2, <1>3, <1>4, <1>5

-----------------------------------------------------------------------------
(* What a transaction does to the program. *)

\* A transaction that the scripts can send.
Sent(t) ==
  /\ t.op \in Sends
  /\ t.sn \in Labels \X (0..MaxRuns + 1) /\ t.a \in Attempts
  /\ t.op = "start" => t.w \in Wallets
  /\ t.op = "append" => t.w \in Wallets /\ t.links \in LinkBatches
  /\ t.op = "cap" => t.n \in Caps
  /\ t.op = "fund" => t.n \in Amounts

Kept(x) == registry'[x] = registry[x] /\ sub'[x] = sub[x] /\ head'[x] = head[x]
MoneyKept == UNCHANGED <<supply, vault, wallet, allowance>>

\* A transaction of a script names a coin and an attempt.
LEMMA SentTypes ==
  ASSUME NEW t, Sent(t)
  PROVE  t.sn \in Serials /\ t.a \in Attempts
<1>1. Labels \X (0..MaxRuns + 1) \subseteq Serials
  BY SerialsAssumption
<1>2. t.sn \in Labels \X (0..MaxRuns + 1) /\ t.a \in Attempts
  BY DEF Sent
<1>3. t.sn \in Serials
  BY <1>1, <1>2
<1>. QED  BY <1>2, <1>3

\* It is a step of the program.
LEMMA ExecIsStep ==
  ASSUME NEW t, Sent(t), Exec(t), t.op # "verify"
  PROVE  Next
<1>0. t.sn \in Serials /\ t.a \in Attempts /\ Recipient \in Wallets /\ Value \in Values
  BY SentTypes, ScriptAssumption
<1>1. CASE t.op = "mint"
  BY <1>0, <1>1 DEF Exec, Next
<1>2. CASE t.op = "start"
  BY <1>0, <1>2 DEF Exec, Next, Sent
<1>3. CASE t.op = "append"
  <2>1. AppendLinks(t.sn, t.a, t.w, t.links, StateHash(t.links[Len(t.links)]))
    BY <1>3 DEF Exec
  <2>2. t.w \in Wallets /\ t.links \in LinkBatches
    BY <1>3 DEF Sent
  <2>4. t.links # <<>>
    BY <2>1 DEF AppendLinks, BatchFits, CanAppend, LinksFit
  <2>3. t.links \in Seq(State) /\ Len(t.links) \in DOMAIN t.links
    BY <2>2, <2>4, InputAssumption
  <2>. QED  BY <1>0, <2>1, <2>2, <2>3 DEF Next
<1>4. CASE t.op \in {"finalizeA", "finalizeM1"}
  BY <1>0, <1>4 DEF Exec, Next, FinalizeCheckIn
<1>5. CASE t.op = "finalizeB"
  BY <1>0, <1>5 DEF Exec, Next
<1>6. CASE t.op = "settle"
  BY <1>0, <1>6 DEF Exec, Next
<1>7. CASE t.op = "cap"
  BY <1>0, <1>7 DEF Exec, Next, Sent
<1>8. CASE t.op = "fund"
  BY <1>0, <1>8 DEF Exec, Next, Sent
<1>9. t.op # "verify"
  OBVIOUS
<1>. QED  BY <1>1, <1>2, <1>3, <1>4, <1>5, <1>6, <1>7, <1>8, <1>9 DEF Sent, Sends

\* verify_sig_commit changes nothing.
LEMMA VerifyKeeps ==
  ASSUME NEW t, t.op = "verify", Exec(t)
  PROVE  UNCHANGED vars
BY DEF Exec

\* It leaves all other coins alone.
LEMMA ExecKeeps ==
  ASSUME TypeOK, NEW t, Sent(t), Exec(t), NEW x \in Serials,
         x # t.sn \/ t.op \in {"cap", "fund", "verify"}
  PROVE  Kept(x)
<1>0. /\ x \in DOMAIN registry /\ x \in DOMAIN sub /\ x \in DOMAIN head
  BY DEF TypeOK, AccountTypes
<1>1. CASE t.op = "mint"
  BY <1>0, <1>1 DEF Exec, MintCoin, Kept
<1>2. CASE t.op = "start"
  BY <1>0, <1>2 DEF Exec, StartCheckIn, Kept
<1>3. CASE t.op = "append"
  BY <1>0, <1>3 DEF Exec, AppendLinks, Kept
<1>4. CASE t.op \in {"finalizeA", "finalizeM1"}
  BY <1>0, <1>4 DEF Exec, FinRejectSpent, FinSetHead, Kept
<1>5. CASE t.op = "finalizeB"
  BY <1>0, <1>5 DEF Exec, FinalizeCheckIn, FinRejectSpent, FinSetHead, FinResolveWin, FinResolveLose, Kept
<1>6. CASE t.op = "settle"
  BY <1>0, <1>6 DEF Exec, Settle, Kept
<1>7. CASE t.op \in {"cap", "fund"}
  BY <1>7 DEF Exec, SetAllowance, FundVault, Kept
<1>8. CASE t.op = "verify"
  BY <1>8, VerifyKeeps DEF Kept, vars
<1>. QED  BY <1>1, <1>2, <1>3, <1>4, <1>5, <1>6, <1>7, <1>8 DEF Sent, Sends

\* The coins are worth 100 and the recipient's, and their registry counts the
\* submissions.
Begun(sn, a) == IF sub[sn][a].status = "NONE" THEN 0 ELSE 1
CoinRight(sn) ==
  /\ registry[sn].status # "NONE" => registry[sn].value = Value /\ registry[sn].recipient = Recipient
  /\ registry[sn].count = Begun(sn, 0) + Begun(sn, 1)
ProgInv == TypeOK /\ ClaimsInv /\ \A sn \in Serials : CoinRight(sn)

\* What CoinRight says is about the value, the recipient and the start of a coin.
LEMMA CoinRightStays ==
  ASSUME ProgInv, NEW sn \in Serials, 
         registry'[sn].value = registry[sn].value, registry'[sn].recipient = registry[sn].recipient,
         registry'[sn].count = registry[sn].count,
         registry[sn].status # "NONE" \/ registry'[sn].status = "NONE",
         \A b \in Attempts : sub'[sn][b].status = "NONE" <=> sub[sn][b].status = "NONE"
  PROVE  CoinRight(sn)'
<1>1. Begun(sn, 0)' = Begun(sn, 0) /\ Begun(sn, 1)' = Begun(sn, 1)
  BY DEF Begun, Attempts
<1>. QED  BY <1>1 DEF CoinRight, ProgInv

\* settle as the SDK builds it.
SdkSettle(sn, a) == Settle(sn, a, FALSE, TRUE)

\* What a settle as the SDK builds it does to the coin.
LEMMA PayOut ==
  ASSUME TypeOK, NEW sn \in Serials, NEW a \in Attempts, SdkSettle(sn, a)
  PROVE  /\ registry[sn].status = "ACTIVE" /\ sub[sn][a].status = "PENDING"
         /\ head[sn].age >= Window
         /\ sub'[sn][a] = [sub[sn][a] EXCEPT !.status = "WON"]
         /\ \A b \in Attempts : b # a => sub'[sn][b] = sub[sn][b]
         /\ registry'[sn] = [registry[sn] EXCEPT !.status = "SPENT"]
         /\ head' = head
<1>1. registry[sn].status = "ACTIVE" /\ sub[sn][a].status = "PENDING" /\ head[sn].age >= Window
  BY DEF SdkSettle, Settle, CanPayOut, CanSettle
<1>2. ~Sweeps(sn, a, FALSE)
  BY DEF Sweeps
<1>3. registry'[sn] = [registry[sn] EXCEPT !.status = "SPENT"] /\ head' = head
  BY DEF SdkSettle, Settle, TypeOK, AccountTypes
<1>4. /\ sub'[sn][a] = [sub[sn][a] EXCEPT !.status = "WON"]
      /\ \A b \in Attempts : b # a => sub'[sn][b] = sub[sn][b]
  BY <1>2 DEF SdkSettle, Settle, TypeOK, AccountTypes
<1>. QED  BY <1>1, <1>3, <1>4

\* A transaction of a script leaves every coin worth Value and the recipient's.
LEMMA CoinRightStep ==
  ASSUME ProgInv, NEW t, Sent(t), Exec(t), NEW x \in Serials
  PROVE  CoinRight(x)'
<1>. DEFINE sn == t.sn  a == t.a
<1>0. TypeOK /\ sn \in Serials /\ a \in Attempts /\ Recipient \in Wallets /\ Value \in Values
  BY SentTypes, ScriptAssumption DEF ProgInv
<1>. HIDE DEF sn, a
<1>a. CASE x # sn \/ t.op \in {"cap", "fund", "verify"}
  <2>1. Kept(x)
    BY <1>0, <1>a, ExecKeeps DEF sn
  <2>. QED  BY <2>1, CoinRightStays DEF Kept
<1>b. ASSUME x = sn, registry' = registry,
             \A b \in Attempts : sub'[sn][b].status = "NONE" <=> sub[sn][b].status = "NONE"
      PROVE  CoinRight(x)'
  BY <1>b, CoinRightStays
<1>t. registry[sn] \in Registries /\ sn \in DOMAIN registry
  BY <1>0 DEF TypeOK, AccountTypes
<1>1. CASE t.op = "mint" /\ x = sn
  <2>1. MintCoin(sn, Value, Recipient)
    BY <1>1 DEF Exec, sn
  <2>2. /\ registry[sn].status = "NONE" /\ registry'[sn].value = Value
        /\ registry'[sn].recipient = Recipient /\ sub' = sub
    BY <1>0, <2>1, MintEffect
  <2>3. registry'[sn].count = 0
    BY <1>t, <2>1 DEF MintCoin
  <2>4. \A b \in Attempts : sub[sn][b].status = "NONE"
    BY <1>0, <2>2 DEF TypeOK, SubmissionWritten
  <2>. QED  BY <1>1, <2>2, <2>3, <2>4 DEF CoinRight, Begun, Attempts
<1>2. CASE t.op = "start" /\ x = sn
  <2>. DEFINE st == GenesisState(sn, Value, Recipient)
  <2>1. StartCheckIn(sn, a, t.w, st)
    BY <1>2 DEF Exec, sn, a
  <2>2. st \in State /\ t.w \in Wallets
    BY <1>0, <1>2, GenesisType DEF Sent
  <2>. HIDE DEF st
  <2>3. /\ sub[sn][a].status = "NONE" /\ sub'[sn][a].status = "RECEIVING"
        /\ \A b \in Attempts : b # a => sub'[sn][b] = sub[sn][b]
        /\ KeepCoins /\ registry[sn].status = "ACTIVE"
    BY <1>0, <2>1, <2>2, StartEffect
  <2>4. registry'[sn].count = registry[sn].count + 1
    BY <1>t, <2>1 DEF StartCheckIn, Registries
  <2>5. registry'[sn].value = Value /\ registry'[sn].recipient = Recipient
    BY <1>0, <2>3 DEF KeepCoins, ProgInv, CoinRight
  <2>6. a = 0 \/ a = 1
    BY <1>0 DEF Attempts
  <2>7. Begun(sn, 0)' + Begun(sn, 1)' = Begun(sn, 0) + Begun(sn, 1) + 1
    BY <2>3, <2>6 DEF Begun, Attempts
  <2>8. registry[sn].count = Begun(sn, 0) + Begun(sn, 1)
    BY <1>0 DEF ProgInv, CoinRight
  <2>. QED  BY <1>2, <2>4, <2>5, <2>7, <2>8 DEF CoinRight
<1>3. CASE t.op = "append" /\ x = sn
  <2>1. AppendLinks(sn, a, t.w, t.links, StateHash(t.links[Len(t.links)]))
    BY <1>3 DEF Exec, sn, a
  <2>2. t.w \in Wallets /\ t.links \in LinkBatches
    BY <1>3 DEF Sent
  <2>3. /\ sub[sn][a].status = "RECEIVING" /\ sub'[sn][a].status = "RECEIVING"
        /\ \A b \in Attempts : b # a => sub'[sn][b] = sub[sn][b]
        /\ registry' = registry
    BY <1>0, <2>1, <2>2, AppendEffect
  <2>. QED  BY <1>b, <1>3, <2>3
<1>4. ASSUME x = sn, FinRejectSpent(sn, a) PROVE CoinRight(x)'
  <2>1. /\ sub[sn][a].status = "RECEIVING" /\ registry' = registry
        /\ \A b \in Attempts : sub'[sn][b].status = IF b = a THEN "REJECTED" ELSE sub[sn][b].status
    BY <1>0, <1>4, RejectEffect
  <2>. QED  BY <1>b, <1>4, <2>1
<1>5. ASSUME x = sn, FinSetHead(sn, a) PROVE CoinRight(x)'
  <2>1. /\ sub[sn][a].status = "RECEIVING" /\ registry' = registry
        /\ \A b \in Attempts : sub'[sn][b].status = IF b = a THEN "PENDING" ELSE sub[sn][b].status
    BY <1>0, <1>5, SetHeadEffect
  <2>. QED  BY <1>b, <1>5, <2>1
<1>6. ASSUME x = sn, FinResolveLose(sn, a) PROVE CoinRight(x)'
  <2>1. /\ sub[sn][a].status = "RECEIVING" /\ registry' = registry
        /\ \A b \in Attempts : sub'[sn][b].status = IF b = a THEN "LOST" ELSE sub[sn][b].status
    BY <1>0, <1>6, LoseEffect
  <2>. QED  BY <1>b, <1>6, <2>1
<1>7. ASSUME x = sn, FinResolveWin(sn, a) PROVE CoinRight(x)'
  <2>1. /\ sub[sn][a].status = "RECEIVING" /\ sub[sn][Other(a)].status = "PENDING" /\ KeepCoins
        /\ \A b \in Attempts : sub'[sn][b].status = IF b = a THEN "WON" ELSE "LOST"
    BY <1>0, <1>7, WinEffect
  <2>2. registry'[sn].count = registry[sn].count
    BY <1>t, <1>7 DEF FinResolveWin, Registries
  <2>3. registry[sn].status # "NONE"
    BY <1>0, <2>1, StartedSubmission
  <2>4. \A b \in Attempts : sub'[sn][b].status # "NONE" /\ sub[sn][b].status # "NONE"
    BY <1>0, <2>1, OtherAttempt
  <2>. QED  BY <1>0, <1>7, <2>1, <2>2, <2>3, <2>4, CoinRightStays DEF KeepCoins
<1>8. CASE t.op = "settle" /\ x = sn
  <2>1. SdkSettle(sn, a)
    BY <1>8 DEF Exec, SdkSettle, sn, a
  <2>2. /\ sub[sn][a].status = "PENDING" /\ registry[sn].status = "ACTIVE"
        /\ sub'[sn][a] = [sub[sn][a] EXCEPT !.status = "WON"]
        /\ \A b \in Attempts : b # a => sub'[sn][b] = sub[sn][b]
        /\ registry'[sn] = [registry[sn] EXCEPT !.status = "SPENT"]
    BY <1>0, <2>1, PayOut
  <2>3. sub[sn][a] \in Submissions
    BY <1>0 DEF TypeOK, AccountTypes
  <2>4. sub'[sn][a].status = "WON"
    BY <2>2, <2>3, StatusWrite
  <2>5. /\ registry'[sn].count = registry[sn].count /\ registry'[sn].value = registry[sn].value
        /\ registry'[sn].recipient = registry[sn].recipient
    BY <1>t, <2>2 DEF Registries
  <2>. QED  BY <1>8, <2>2, <2>4, <2>5, CoinRightStays
<1>9. CASE t.op \in {"finalizeA", "finalizeM1", "finalizeB"} /\ x = sn
  BY <1>4, <1>5, <1>6, <1>7, <1>9 DEF Exec, FinalizeCheckIn, sn, a
<1>. QED  BY <1>a, <1>1, <1>2, <1>3, <1>8, <1>9 DEF Sent, Sends

\* A transaction of a script keeps what the program's own invariants say.
LEMMA ExecStep ==
  ASSUME ProgInv, NEW t, Sent(t), Exec(t)
  PROVE  ProgInv'
<1>1. TypeOK /\ ClaimsInv
  BY DEF ProgInv
<1>2. TypeOK'
  <2>1. CASE t.op = "verify"
    BY <1>1, <2>1, VerifyKeeps, TypeStep
  <2>2. CASE t.op # "verify"
    BY <1>1, <2>2, ExecIsStep, TypeStep
  <2>. QED  BY <2>1, <2>2
<1>3. ClaimsInv'
  <2>1. CASE t.op = "verify"
    BY <1>1, <1>2, <2>1, VerifyKeeps, ClaimsInvHolds
  <2>2. CASE t.op # "verify"
    BY <1>1, <1>2, <2>2, ExecIsStep, ClaimsInvHolds
  <2>. QED  BY <2>1, <2>2
<1>4. \A x \in Serials : CoinRight(x)'
  BY CoinRightStep
<1>. QED  BY <1>2, <1>3, <1>4 DEF ProgInv

\* So does a slot.
LEMMA TickStep ==
  ASSUME ProgInv, Tick
  PROVE  ProgInv'
<1>1. Next /\ TypeOK /\ ClaimsInv
  BY DEF ProgInv, Next
<1>2. TypeOK'
  BY <1>1, TypeStep
<1>3. ClaimsInv'
  BY <1>1, <1>2, ClaimsInvHolds
<1>4. UNCHANGED <<registry, sub>>
  BY DEF Tick
<1>5. \A x \in Serials : CoinRight(x)'
  BY <1>4 DEF CoinRight, Begun, ProgInv
<1>. QED  BY <1>2, <1>3, <1>5 DEF ProgInv

\* Tokens that reach the wallets and the vault from outside.
LEMMA GiftStep ==
  ASSUME ProgInv, UNCHANGED <<supply, fees, registry, head, sub, escrow, allowance>>,
         wallet' \in [Accounts -> Nat], vault' \in Nat, vault' >= vault
  PROVE  ProgInv'
<1>1. TypeOK'
  BY DEF ProgInv, TypeOK, AccountTypes, RegistryWritten, SubmissionWritten
<1>2. VaultBacksOpenCoins'
  BY DEF ProgInv, ClaimsInv, VaultBacksOpenCoins, ValueOf, OpenCoins, TypeOK, AccountTypes
<1>3. ClaimsInv'
  BY <1>2 DEF ProgInv, ClaimsInv, AllowanceRight, ValueOf, OpenCoinsOf, OpenCoins, EscrowRight,
     StartFits, HeadIsLive, HeadLiveAt, ChainsAnchored, Bond
<1>4. \A x \in Serials : CoinRight(x)'
  BY DEF CoinRight, Begun, ProgInv
<1>. QED  BY <1>1, <1>3, <1>4 DEF ProgInv

-----------------------------------------------------------------------------
(* The invariant. *)

\* A run that has ended early is as good as the next one, not begun yet.
Down == phase \in {"dead", "threw", "twice"}
Pos == IF Down THEN 1 ELSE pc
Round == IF Down THEN run + 1 ELSE run
At(l) == Coin(l, Round)

ScriptTypes ==
  /\ script \in Scripts /\ run \in 1..Runs /\ pc \in Positions(script)
  /\ phase \in {"at", "flying", "again", "dead", "threw", "twice", "done"}
  /\ phase \in {"again", "dead", "twice"} => run < Runs
  /\ snap \in [r : Nat, h3 : Nat, vault : Nat]

\* Attempt a of the coin sn holds the beginning of the chain of the script.
CheckerFor(a) == IF a = 0 THEN Recipient ELSE Holder3
HoldsChain(l, sn, a) ==
  LET s == sub[sn][a]  owners == OwnersOf(l, a) IN
  s.status # "NONE" =>
    /\ s.checker = CheckerFor(a)
    /\ Len(s.states) <= Full(l, a)
    /\ \A i \in 1..Len(s.states) : s.states[i] = BuildChain(sn, owners)[i]
    /\ s.final_owner = owners[Len(s.states)]

Rows == \A l \in Uses[script] : View(At(l)) \in Views(l, Pos)
Chains == \A l \in Uses[script], a \in Attempts : HoldsChain(l, At(l), a)
Later == \A l \in Labels \ Fixed, r \in (Round + 1)..(MaxRuns + 1) : View(<<l, r>>) = Unminted
Wanted == Now.always \/ Needed(Now)
Flying == phase = "flying" => Now.op \in Sends /\ tx = TxOf(Now) /\ Wanted

\* A transaction that is sent once more has done its work, and the links it carries
\* are not those that follow now.
Beyond(t) ==
  t.op = "append" => Len(LastState(sub[t.sn][t.a]).prev) >= Len(t.links[1].prev)
Repeating ==
  phase \in {"again", "twice"} =>
    /\ script \in Unsure /\ Sent(tx) /\ Landed(tx) /\ Beyond(tx)
    /\ tx.tag \in {"none", "E8a"}
    /\ script = "pq" => tx.op \notin {"cap", "fund"}
    /\ \A t \in late : t.sn # tx.sn
    /\ tx.op = "fund" => script = "smoke" /\ (phase = "again" => pc = 3)

\* Transactions of earlier runs: only the PQ run leaves any, one for each run.
LateOnes ==
  /\ IsFiniteSet(late) /\ Cardinality(late) < Round
  /\ late # {} => script = "pq" /\ "pq" \in Stray
  /\ \A t \in late :
       /\ Sent(t) /\ t.op \in Moves /\ t.sn \in {"pq"} \X (1..Round - 1)
       /\ t.op = "start" => t.w = Recipient

\* The coins of the script are where its steps expect them.
Coins == Rows /\ Chains /\ Later /\ Flying /\ Repeating /\ LateOnes

\* How many coins the run still mints, from step p on.
Left(sc, p) ==
  IF sc = "matrix"
  THEN IF p <= 3 THEN 6 ELSE IF p <= 6 THEN 5 ELSE IF p <= 10 THEN 4 ELSE IF p <= 15 THEN 3
       ELSE IF p <= 28 THEN 2 ELSE IF p <= 43 THEN 1 ELSE 0
  ELSE IF p <= 3 THEN 1 ELSE 0
PerRun(sc) == IF sc = "matrix" THEN 600 ELSE 200
Owed == 100 * (Left(script, Pos) + Cardinality(late))
Al == OpenAllowance(Recipient)

\* Supply, vault and allowance have room for the coins that are still minted.
Room ==
  script # "smoke" =>
    /\ supply + Owed <= PerRun(script) * Round
    /\ Al.committed + Owed <= PerRun(script) * Round
    /\ Pos >= 3 => vault >= supply + Owed
CapFits ==
  /\ script = "matrix" =>
       /\ View(At("e0")) = Unminted <=> ~allowance[Recipient].initialized
       /\ Pos >= 5 => allowance[Recipient].cap = 1000000
  /\ script # "matrix" => Al.cap = DefaultAllowance
M1Fits ==
  script = "smoke" =>
    /\ View(At("m1")) = Unminted => supply = 0 /\ Al.committed = 0
    /\ Pos = 2 /\ vault < 1000 => wallet[MintAuthority] >= 1000 - vault
    /\ Pos >= 3 /\ View(At("m1")) = Unminted => vault >= 1000

\* Who starts a check-in has the bond.
BondReady ==
  Now.op = "start" /\ Now.tag = "none" /\ ~Down /\ Needed(Now) /\ script # "pq" =>
    wallet[Now.w] >= 100
PqBond ==
  script = "pq" /\ Pos \in 2..4 => wallet[Recipient] >= 100 * (1 + Cardinality(late))
H3Bond ==
  script = "matrix" =>
    /\ Pos \in 2..23 => wallet[Holder3] >= 1500
    /\ Pos \in 24..35 => wallet[Holder3] >= 1400
Bonds == BondReady /\ PqBond /\ H3Bond

\* What has become of the balances that the matrix noted.
Moved(h3, r, v) ==
  wallet[Holder3] = snap.h3 + h3 /\ wallet[Recipient] = snap.r + r /\ vault = snap.vault + v
Moved2(h3, v) == wallet[Holder3] = snap.h3 + h3 /\ vault = snap.vault + v
Snaps ==
  script = "matrix" =>
    /\ Pos \in 22..23 => Moved2(0, 0)
    /\ Pos \in 24..25 => Moved2(-100, 0)
    /\ Pos \in 26..27 => Moved2(200, -100)
    /\ Pos \in 34..35 => Moved(0, 0, 0)
    /\ Pos \in 36..37 => Moved(-100, 0, 0)
    /\ Pos \in 38..40 => Moved(-100, 100, 0)
    /\ Pos \in 41..42 => Moved(0, 200, -100)

\* A settle that is to succeed is sent after the window only.
Waited == ~Down /\ Now.op = "settle" /\ Now.tag = "none" => head[Label(Now.l)].age >= Window

Balances == Room /\ CapFits /\ M1Fits /\ Bonds /\ Snaps /\ Waited

ScriptInv == ScriptTypes /\ ProgInv /\ Coins /\ Balances /\ RecordsHold /\ NothingThrows

-----------------------------------------------------------------------------
(* Where a run is. *)

\* Script, run and step are in their ranges.
LEMMA Basics ==
  ASSUME ScriptTypes
  PROVE  /\ script \in DOMAIN StepsOf /\ script \in {"matrix", "pq", "smoke"}
         /\ run \in Nat /\ run >= 1 /\ run <= Runs /\ run <= MaxRuns + 1 /\ MaxRuns \in Nat
         /\ Runs \in Nat /\ Runs <= MaxRuns + 1
         /\ pc \in Positions(script) /\ pc \in Nat /\ pc >= 1 /\ pc <= Len(Script)
         /\ Len(Script) = Ends(script)
         /\ Pos \in Positions(script) /\ Pos \in Nat \ {0}
         /\ Round \in Nat /\ Round >= 1
         /\ Now = StepsOf[script][pc] /\ Placed(script, pc, Now)
<1>1. script \in DOMAIN StepsOf /\ script \in {"matrix", "pq", "smoke"}
  BY ScriptAssumption, ScriptsAre DEF ScriptTypes
<1>2. /\ run \in Nat /\ run >= 1 /\ run <= Runs /\ run <= MaxRuns + 1 /\ MaxRuns \in Nat
         /\ Runs \in Nat /\ Runs <= MaxRuns + 1
  BY ScriptAssumption DEF ScriptTypes, Runs
<1>3. Script = StepsOf[script] /\ Len(Script) = Ends(script) /\ Ends(script) \in Nat
      /\ Ends(script) >= 1
  BY <1>1, EndsAre DEF Script, Ends
<1>4. pc \in Positions(script) /\ pc \in Nat /\ pc >= 1 /\ pc <= Len(Script)
  BY <1>3 DEF ScriptTypes, Positions
<1>5. Pos \in Positions(script) /\ Pos \in Nat \ {0}
  BY <1>3, <1>4 DEF Pos, Positions
<1>6. Round \in Nat /\ Round >= 1
  BY <1>2 DEF Round
<1>7. Now = StepsOf[script][pc]
  BY <1>3 DEF Now
<1>8. Placed(script, pc, Now)
  BY <1>1, <1>4, <1>7, AllPlaced
<1>. QED  BY <1>1, <1>2, <1>3, <1>4, <1>5, <1>6, <1>7, <1>8

\* The coin of a label, in a run that has not ended early.
LEMMA CoinOf ==
  ASSUME ScriptTypes, ~Down, NEW l \in Labels
  PROVE  /\ Label(l) = At(l) /\ Round = run /\ Pos = pc
         /\ At(l) \in Labels \X (0..MaxRuns + 1) /\ At(l) \in Serials /\ At(l)[1] = l
<1>1. Round = run /\ Pos = pc
  BY DEF Round, Pos
<1>2. Label(l) = At(l)
  BY <1>1 DEF Label, At, Coin
<1>3. (IF l \in Fixed THEN 0 ELSE Round) \in 0..MaxRuns + 1
  <2>1. run \in Nat /\ run >= 1 /\ run <= MaxRuns + 1 /\ MaxRuns \in Nat
    BY Basics
  <2>. QED  BY <1>1, <2>1
<1>4. At(l) \in Labels \X (0..MaxRuns + 1) /\ At(l)[1] = l
  BY <1>3 DEF At, Coin
<1>5. At(l) \in Serials
  BY <1>4, SerialsAssumption
<1>. QED  BY <1>1, <1>2, <1>4, <1>5

\* The label of a move is one of the script's.
LEMMA MoveUses ==
  ASSUME NEW sc \in DOMAIN StepsOf, NEW p, NEW s, Placed(sc, p, s), s.op \in Moves
  PROVE  s.l \in Uses[sc] /\ s.l \in Labels /\ s.a \in Attempts
<1>1. ASSUME s.op = "mint" PROVE s.l \in Uses[sc] /\ s.a \in Attempts
  <2>1. MintsAt(sc, p, s)
    BY <1>1 DEF Placed
  <2>. QED  BY <1>1, <2>1 DEF MintsAt, Uses, Attempts
<1>2. ASSUME s.op = "start" PROVE s.l \in Uses[sc] /\ s.a \in Attempts
  <2>1. StartsAt(sc, p, s)
    BY <1>2 DEF Placed
  <2>. QED  BY <2>1 DEF StartsAt, Uses, Attempts
<1>3. ASSUME s.op = "append" PROVE s.l \in Uses[sc] /\ s.a \in Attempts
  <2>1. AppendsAt(sc, p, s)
    BY <1>3 DEF Placed
  <2>. QED  BY <2>1 DEF AppendsAt, Uses, Attempts
<1>4. ASSUME s.op = "finalizeA" PROVE s.l \in Uses[sc] /\ s.a \in Attempts
  <2>1. LeadsAt(sc, p, s)
    BY <1>4 DEF Placed
  <2>. QED  BY <2>1 DEF LeadsAt, Uses, Attempts
<1>5. ASSUME s.op = "finalizeM1" PROVE s.l \in Uses[sc] /\ s.a \in Attempts
  <2>1. FinishesAt(sc, p, s)
    BY <1>5 DEF Placed
  <2>. QED  BY <2>1 DEF FinishesAt, Uses, Attempts
<1>6. ASSUME s.op = "finalizeB" PROVE s.l \in Uses[sc] /\ s.a \in Attempts
  <2>1. ResolvesAt(sc, p, s)
    BY <1>6 DEF Placed
  <2>. QED  BY <2>1 DEF ResolvesAt, Uses, Attempts
<1>7. ASSUME s.op = "settle" PROVE s.l \in Uses[sc] /\ s.a \in Attempts
  <2>1. SettlesAt(sc, p, s)
    BY <1>7 DEF Placed
  <2>. QED  BY <2>1 DEF SettlesAt, Uses, Attempts
<1>8. s.l \in Uses[sc] /\ s.a \in Attempts
  BY <1>1, <1>2, <1>3, <1>4, <1>5, <1>6, <1>7 DEF Moves
<1>. QED  BY <1>8, UsesLabels

\* The run is at the next step, or still in send.
Proceeds == pc' = NextPos(script, pc) /\ phase' \in {"at", "again", "done"}

\* To go on is to proceed.
LEMMA Onward == Onwards => Proceeds
BY DEF Onwards, Proceeds, NextPos, Script

\* Only a move is skipped or expected to be refused where it changes a coin.
LEMMA OnwardsTo ==
  ASSUME ScriptTypes, ~Down, Proceeds, UNCHANGED <<script, run>>
  PROVE  /\ ~Down' /\ Pos' = NextPos(script, pc) /\ pc' = NextPos(script, pc) /\ Round' = Round
         /\ \A l : At(l)' = At(l)
BY DEF Proceeds, Down, Pos, Round, At, Coin

-----------------------------------------------------------------------------
(* What the instructions do to the views. *)

\* A mint: the coin is minted.
LEMMA MintView ==
  ASSUME TypeOK, NEW sn \in Serials, MintCoin(sn, Value, Recipient), View(sn) = Unminted
  PROVE  View(sn)' = Minted
<1>1. /\ sub[sn][0].status = "NONE" /\ Len(sub[sn][0].states) = 0
      /\ sub[sn][1].status = "NONE" /\ Len(sub[sn][1].states) = 0
  BY DEF View, Unminted
<1>2. registry'[sn].status = "ACTIVE" /\ sub' = sub
  BY ScriptAssumption, MintEffect
<1>. QED  BY <1>1, <1>2 DEF View, Minted

\* A start: the first submission receives, or the second one contends.
LEMMA StartView ==
  ASSUME TypeOK, NEW sn \in Serials, NEW a \in Attempts, NEW c \in Wallets, NEW st \in State,
         StartCheckIn(sn, a, c, st)
  PROVE  /\ a = 0 /\ View(sn) = Minted => View(sn)' = Receives(1)
         /\ \A n : a = 1 /\ View(sn) = Leads(n) => View(sn)' = Contends(n, 1)
<1>1. /\ \A s \in Serials : registry'[s].status = registry[s].status
      /\ sub'[sn][a].status = "RECEIVING" /\ sub'[sn][a].states = <<st>>
      /\ \A b \in Attempts : b # a => sub'[sn][b] = sub[sn][b]
  BY StartEffect
<1>2. Len(sub'[sn][a].states) = 1
  BY <1>1
<1>3. ASSUME a = 0, View(sn) = Minted PROVE View(sn)' = Receives(1)
  <2>1. /\ registry[sn].status = "ACTIVE"
        /\ sub[sn][1].status = "NONE" /\ Len(sub[sn][1].states) = 0
    BY <1>3 DEF View, Minted
  <2>2. sub'[sn][1] = sub[sn][1]
    BY <1>1, <1>3 DEF Attempts
  <2>. QED  BY <1>1, <1>2, <1>3, <2>1, <2>2 DEF View, Receives
<1>4. ASSUME NEW n, a = 1, View(sn) = Leads(n) PROVE View(sn)' = Contends(n, 1)
  <2>1. /\ registry[sn].status = "ACTIVE"
        /\ sub[sn][0].status = "PENDING" /\ Len(sub[sn][0].states) = n
    BY <1>4 DEF View, Leads
  <2>2. sub'[sn][0] = sub[sn][0]
    BY <1>1, <1>4 DEF Attempts
  <2>. QED  BY <1>1, <1>2, <1>4, <2>1, <2>2 DEF View, Contends
<1>. QED  BY <1>3, <1>4

\* An append: the submission holds as many more states as were sent.
LEMMA AppendView ==
  ASSUME TypeOK, NEW sn \in Serials, NEW a \in Attempts, NEW links \in LinkBatches,
         NEW w \in Wallets, NEW h, AppendLinks(sn, a, w, links, h)
  PROVE  /\ \A m : a = 0 /\ View(sn) = Receives(m) => View(sn)' = Receives(m + Len(links))
         /\ \A n, m : a = 1 /\ View(sn) = Contends(n, m) => View(sn)' = Contends(n, m + Len(links))
<1>1. /\ sub'[sn][a].status = "RECEIVING" /\ sub'[sn][a].states = sub[sn][a].states \o links
      /\ \A b \in Attempts : b # a => sub'[sn][b] = sub[sn][b]
      /\ registry' = registry
  BY AppendEffect
<1>2. Len(sub'[sn][a].states) = Len(sub[sn][a].states) + Len(links)
  <2>1. sub[sn][a].states \in Seq(State) /\ links \in Seq(State)
    BY InputAssumption DEF TypeOK, AccountTypes, Submissions
  <2>. QED  BY <1>1, <2>1
<1>3. ASSUME NEW m, a = 0, View(sn) = Receives(m) PROVE View(sn)' = Receives(m + Len(links))
  <2>1. /\ registry[sn].status = "ACTIVE" /\ Len(sub[sn][0].states) = m
        /\ sub[sn][1].status = "NONE" /\ Len(sub[sn][1].states) = 0
    BY <1>3 DEF View, Receives
  <2>2. sub'[sn][1] = sub[sn][1]
    BY <1>1, <1>3 DEF Attempts
  <2>. QED  BY <1>1, <1>2, <1>3, <2>1, <2>2 DEF View, Receives
<1>4. ASSUME NEW n, NEW m, a = 1, View(sn) = Contends(n, m)
      PROVE  View(sn)' = Contends(n, m + Len(links))
  <2>1. /\ registry[sn].status = "ACTIVE" /\ Len(sub[sn][1].states) = m
        /\ sub[sn][0].status = "PENDING" /\ Len(sub[sn][0].states) = n
    BY <1>4 DEF View, Contends
  <2>2. sub'[sn][0] = sub[sn][0]
    BY <1>1, <1>4 DEF Attempts
  <2>. QED  BY <1>1, <1>2, <1>4, <2>1, <2>2 DEF View, Contends
<1>. QED  BY <1>3, <1>4

\* A finalize of the first submission: it leads.
LEMMA SetHeadView ==
  ASSUME TypeOK, NEW sn \in Serials, FinSetHead(sn, 0), NEW n, View(sn) = Receives(n)
  PROVE  View(sn)' = Leads(n)
<1>1. /\ registry' = registry /\ sub'[sn][0].status = "PENDING"
      /\ sub'[sn][1].status = sub[sn][1].status
      /\ sub'[sn][0].states = sub[sn][0].states /\ sub'[sn][1].states = sub[sn][1].states
  BY SetHeadEffect DEF Attempts, KeepChains
<1>. QED  BY <1>1 DEF View, Receives, Leads

\* A finalize of the longer contender: it overtakes.
LEMMA WinView ==
  ASSUME TypeOK, NEW sn \in Serials, FinResolveWin(sn, 1), View(sn) = Contends(2, 3)
  PROVE  View(sn)' = Overtaken
<1>1. /\ registry'[sn].status = "SPENT" /\ sub'[sn][1].status = "WON" /\ sub'[sn][0].status = "LOST"
      /\ sub'[sn][0].states = sub[sn][0].states /\ sub'[sn][1].states = sub[sn][1].states
  BY WinEffect DEF Attempts, KeepChains
<1>. QED  BY <1>1 DEF View, Contends, Overtaken

\* A finalize of the contender of the same length: the head stands.
LEMMA LoseView ==
  ASSUME TypeOK, NEW sn \in Serials, FinResolveLose(sn, 1), View(sn) = Contends(3, 3)
  PROVE  View(sn)' = Stands
<1>1. /\ registry' = registry /\ sub'[sn][1].status = "LOST"
      /\ sub'[sn][0].status = sub[sn][0].status
      /\ sub'[sn][0].states = sub[sn][0].states /\ sub'[sn][1].states = sub[sn][1].states
  BY LoseEffect DEF Attempts, KeepChains
<1>. QED  BY <1>1 DEF View, Contends, Stands

\* A settle: the leading submission is paid.
LEMMA SettleView ==
  ASSUME TypeOK, NEW sn \in Serials, SdkSettle(sn, 0)
  PROVE  /\ \A n : View(sn) = Leads(n) => View(sn)' = Paid0(n)
         /\ View(sn) = Stands => View(sn)' = Stood
<1>0. 0 \in Attempts /\ 1 \in Attempts
  BY DEF Attempts
<1>1. /\ sub'[sn][0] = [sub[sn][0] EXCEPT !.status = "WON"] /\ sub'[sn][1] = sub[sn][1]
      /\ registry'[sn] = [registry[sn] EXCEPT !.status = "SPENT"]
  BY <1>0, PayOut
<1>2. sub[sn][0] \in Submissions /\ registry[sn] \in Registries
  BY <1>0 DEF TypeOK, AccountTypes
<1>3. sub'[sn][0].status = "WON" /\ sub'[sn][0].states = sub[sn][0].states
  BY <1>1, <1>2, StatusWrite
<1>4. registry'[sn].status = "SPENT"
  BY <1>1, <1>2 DEF Registries
<1>5. ASSUME NEW n, View(sn) = Leads(n) PROVE View(sn)' = Paid0(n)
  BY <1>1, <1>3, <1>4, <1>5 DEF View, Leads, Paid0
<1>6. ASSUME View(sn) = Stands PROVE View(sn)' = Stood
  BY <1>1, <1>3, <1>4, <1>6 DEF View, Stands, Stood
<1>. QED  BY <1>5, <1>6

-----------------------------------------------------------------------------
(* The chains in the submissions. *)

\* The chain of a label, for the coin sn.
ChainOf(l, sn, a) == BuildChain(sn, OwnersOf(l, a))

\* The chain a script builds: its length, its first state, its links, its owners.
LEMMA ChainFacts ==
  ASSUME NEW l \in Labels, NEW a \in Attempts, NEW sn \in Serials
  PROVE  /\ ChainOf(l, sn, a) \in Seq(State) /\ Len(ChainOf(l, sn, a)) = Full(l, a)
         /\ Full(l, a) \in 2..6
         /\ ChainOf(l, sn, a)[1] = GenesisState(sn, Value, Recipient)
         /\ \A i \in 1..Full(l, a) : /\ ChainOf(l, sn, a)[i].owner = OwnersOf(l, a)[i]
                                     /\ OwnersOf(l, a)[i] \in Wallets
         /\ \A i \in 2..Full(l, a) : Follows(ChainOf(l, sn, a)[i], ChainOf(l, sn, a)[i-1], sn, Value)
         /\ OwnersOf(l, a)[1] = Recipient
         /\ Full(l, a) = 3 => OwnersOf(l, a)[3] = Holder3
<1>. DEFINE owners == OwnersOf(l, a)  c == ChainOf(l, sn, a)
<1>1. /\ owners \in Seq(Wallets) /\ Len(owners) = Full(l, a) /\ owners[1] = Recipient
      /\ Full(l, a) = 3 => owners[3] = Holder3
  BY OwnersAre
<1>2. Full(l, a) \in 2..6
  BY DEF Full
<1>. HIDE DEF owners
<1>3. c = BuildChain(sn, owners)
  BY DEF ChainOf, owners
<1>. HIDE DEF c
<1>4. Len(owners) >= 1
  BY <1>1, <1>2
<1>5. /\ c \in Seq(State) /\ Len(c) = Len(owners)
      /\ c[1] = GenesisState(sn, Value, owners[1])
      /\ \A i \in 1..Len(c) : c[i].owner = owners[i]
      /\ \A i \in 2..Len(c) : Follows(c[i], c[i-1], sn, Value)
  BY <1>1, <1>3, <1>4, ChainBuilt
<1>6. \A i \in 1..Full(l, a) : owners[i] \in Wallets
  BY <1>1
<1>. QED  BY <1>1, <1>2, <1>5, <1>6 DEF owners, c

\* A part of a sequence.
LEMMA PartOf ==
  ASSUME NEW S, NEW c \in Seq(S), NEW i \in Nat, NEW j \in Nat, 1 <= i, i <= j, j <= Len(c)
  PROVE  /\ SubSeq(c, i, j) \in Seq(S) /\ Len(SubSeq(c, i, j)) = j - i + 1
         /\ \A x \in 1..(j - i + 1) : SubSeq(c, i, j)[x] = c[i + x - 1]
OBVIOUS

\* The beginning of a sequence and the part that follows it.
Continues(links, old, c, k) ==
  /\ c \in Seq(State) /\ old \in Seq(State) /\ k \in Nat /\ links \in Seq(State)
  /\ Len(old) + 1 <= k /\ k <= Len(c)
  /\ \A i \in 1..Len(old) : old[i] = c[i]
  /\ links = SubSeq(c, Len(old) + 1, k)

JoinsUp(links, old, c, k) ==
  /\ Len(links) = k - Len(old) /\ Len(old \o links) = k
  /\ \A i \in 1..k : (old \o links)[i] = c[i]
  /\ \A i \in 1..Len(links) : links[i] = c[Len(old) + i]
  /\ links[Len(links)] = c[k]

\* The part of a chain that follows what is stored joins up with it.
LEMMA Joined ==
  ASSUME NEW c, NEW old, NEW k, NEW links, Continues(links, old, c, k)
  PROVE  JoinsUp(links, old, c, k)
<1>. c \in Seq(State)
  BY DEF Continues
<1>. old \in Seq(State)
  BY DEF Continues
<1>. k \in Nat
  BY DEF Continues
<1>. links \in Seq(State)
  BY DEF Continues
<1>. Len(old) + 1 <= k /\ k <= Len(c)
  BY DEF Continues
<1>. \A i \in 1..Len(old) : old[i] = c[i]
  BY DEF Continues
<1>. links = SubSeq(c, Len(old) + 1, k)
  BY DEF Continues
<1>. DEFINE n == Len(old)
<1>1. n \in Nat /\ n + 1 \in Nat /\ 1 <= n + 1 /\ k - (n + 1) + 1 = k - n
  OBVIOUS
<1>2. /\ Len(links) = k - n
      /\ \A x \in 1..(k - n) : links[x] = c[n + 1 + x - 1]
  <2>1. /\ Len(links) = k - (n + 1) + 1
        /\ \A x \in 1..(k - (n + 1) + 1) : links[x] = c[n + 1 + x - 1]
    BY <1>1, PartOf
  <2>. QED  BY <1>1, <2>1
<1>3. Len(old \o links) = k
  <2>1. Len(old \o links) = n + Len(links)
    OBVIOUS
  <2>. QED  BY <1>1, <1>2, <2>1
<1>4. ASSUME NEW i \in 1..k PROVE (old \o links)[i] = c[i]
  <2>1. CASE i <= n
    <3>1. (old \o links)[i] = old[i]
      BY <1>2, <2>1
    <3>. QED  BY <2>1, <3>1
  <2>2. CASE i > n
    <3>1. i - n \in 1..(k - n) /\ n + 1 + (i - n) - 1 = i
      BY <2>2
    <3>2. (old \o links)[i] = links[i - n]
      BY <1>2, <2>2
    <3>3. links[i - n] = c[n + 1 + (i - n) - 1]
      BY <1>2, <3>1
    <3>. QED  BY <3>1, <3>2, <3>3
  <2>. QED  BY <2>1, <2>2
<1>5. ASSUME NEW i \in 1..Len(links) PROVE links[i] = c[n + i]
  <2>1. n + 1 + i - 1 = n + i /\ i \in 1..(k - n)
    BY <1>1, <1>2
  <2>. QED  BY <1>2, <2>1
<1>6. links[Len(links)] = c[k]
  <2>1. Len(links) \in 1..Len(links) /\ n + Len(links) = k
    BY <1>1, <1>2
  <2>. QED  BY <1>5, <2>1
<1>. QED  BY <1>2, <1>3, <1>4, <1>5, <1>6 DEF JoinsUp

\* A step that leaves checker, states and owner alone.
LEMMA ChainKept ==
  ASSUME NEW l, NEW sn, NEW a, HoldsChain(l, sn, a),
         sub'[sn][a].checker = sub[sn][a].checker, sub'[sn][a].states = sub[sn][a].states,
         sub'[sn][a].final_owner = sub[sn][a].final_owner,
         sub'[sn][a].status # "NONE" => sub[sn][a].status # "NONE"
  PROVE  HoldsChain(l, sn, a)'
BY DEF HoldsChain

\* A submission that was just started holds the first state of its chain.
LEMMA ChainStarted ==
  ASSUME TypeOK, NEW l \in Labels, NEW sn \in Serials, NEW a \in Attempts,
         StartCheckIn(sn, a, CheckerFor(a), GenesisState(sn, Value, Recipient))
  PROVE  HoldsChain(l, sn, a)'
<1>. DEFINE st == GenesisState(sn, Value, Recipient)
<1>1. sub'[sn][a] = [status |-> "RECEIVING", checker |-> CheckerFor(a),
                     final_owner |-> st.owner, states |-> <<st>>]
  BY DEF StartCheckIn, TypeOK, AccountTypes
<1>2. st.owner = Recipient
  BY DEF GenesisState
<1>3. ChainOf(l, sn, a)[1] = st /\ OwnersOf(l, a)[1] = Recipient /\ Full(l, a) \in 2..6
  BY ChainFacts
<1>. HIDE DEF st
<1>4. Len(<<st>>) = 1 /\ <<st>>[1] = st
  OBVIOUS
<1>. QED  BY <1>1, <1>2, <1>3, <1>4 DEF HoldsChain, ChainOf

\* A submission that a part of its chain is appended to holds more of it.
LEMMA ChainAppended ==
  ASSUME TypeOK, NEW l \in Labels, NEW sn \in Serials, NEW a \in Attempts, HoldsChain(l, sn, a),
         NEW links \in LinkBatches, NEW w \in Wallets, NEW h, AppendLinks(sn, a, w, links, h),
         NEW k \in Nat, Len(sub[sn][a].states) + 1 <= k, k <= Full(l, a),
         links = SubSeq(ChainOf(l, sn, a), Len(sub[sn][a].states) + 1, k)
  PROVE  HoldsChain(l, sn, a)'
<1>. DEFINE c == ChainOf(l, sn, a)  old == sub[sn][a].states  n == Len(old)
<1>1. /\ c \in Seq(State) /\ Len(c) = Full(l, a) /\ Full(l, a) \in 2..6
      /\ \A i \in 1..Full(l, a) : c[i].owner = OwnersOf(l, a)[i]
  BY ChainFacts
<1>2. sub[sn][a].status = "RECEIVING" /\ sub'[sn][a].states = old \o links
  BY AppendEffect
<1>3. sub[sn][a] \in Submissions /\ old \in Seq(State) /\ n \in Nat
  BY DEF TypeOK, AccountTypes, Submissions
<1>4. sub'[sn][a].checker = sub[sn][a].checker
      /\ sub'[sn][a].final_owner = links[Len(links)].owner
  BY <1>3 DEF AppendLinks, TypeOK, AccountTypes, Submissions
<1>5. /\ sub[sn][a].checker = CheckerFor(a)
      /\ \A i \in 1..n : old[i] = c[i]
  BY <1>2 DEF HoldsChain, ChainOf
<1>. HIDE DEF c, old
<1>6. /\ Len(old \o links) = k
      /\ \A i \in 1..k : (old \o links)[i] = c[i]
      /\ links[Len(links)] = c[k]
  <2>1. n + 1 <= k /\ k <= Len(c) /\ links = SubSeq(c, n + 1, k)
    BY <1>1 DEF c, old
  <2>2. links \in Seq(State)
    BY InputAssumption
  <2>3. \A i \in 1..Len(old) : old[i] = c[i]
    BY <1>5
  <2>4. k \in Nat /\ c \in Seq(State) /\ old \in Seq(State)
    BY <1>1, <1>3
  <2>5. Continues(links, old, c, k)
    BY <2>1, <2>2, <2>3, <2>4 DEF Continues
  <2>6. JoinsUp(links, old, c, k)
    BY <2>5, Joined
  <2>. QED  BY <2>6 DEF JoinsUp
<1>7. k \in 1..Full(l, a)
  BY <1>1, <1>3 DEF old
<1>8. links[Len(links)].owner = OwnersOf(l, a)[k]
  BY <1>1, <1>6, <1>7
<1>. QED  BY <1>2, <1>4, <1>5, <1>6, <1>8 DEF HoldsChain, c, ChainOf

-----------------------------------------------------------------------------
(* The transaction of the step a run is at. *)

\* What each view says of the accounts of the coin.
LEMMA ViewSays ==
  ASSUME NEW x
  PROVE  /\ View(x) = Unminted =>
              /\ registry[x].status = "NONE"
              /\ sub[x][0].status = "NONE" /\ sub[x][1].status = "NONE"
         /\ View(x) = Minted =>
              /\ registry[x].status = "ACTIVE"
              /\ sub[x][0].status = "NONE" /\ sub[x][1].status = "NONE"
         /\ \A n : View(x) = Receives(n) =>
              /\ registry[x].status = "ACTIVE" /\ sub[x][0].status = "RECEIVING"
              /\ Len(sub[x][0].states) = n /\ sub[x][1].status = "NONE"
         /\ \A n : View(x) = Leads(n) =>
              /\ registry[x].status = "ACTIVE" /\ sub[x][0].status = "PENDING"
              /\ Len(sub[x][0].states) = n /\ sub[x][1].status = "NONE"
         /\ \A n : View(x) = Paid0(n) =>
              /\ registry[x].status = "SPENT" /\ sub[x][0].status = "WON"
              /\ Len(sub[x][0].states) = n /\ sub[x][1].status = "NONE"
         /\ \A n, m : View(x) = Contends(n, m) =>
              /\ registry[x].status = "ACTIVE" /\ sub[x][0].status = "PENDING"
              /\ Len(sub[x][0].states) = n /\ sub[x][1].status = "RECEIVING"
              /\ Len(sub[x][1].states) = m
         /\ View(x) = Overtaken =>
              /\ registry[x].status = "SPENT" /\ sub[x][0].status = "LOST"
              /\ sub[x][1].status = "WON"
         /\ View(x) = Stands =>
              /\ registry[x].status = "ACTIVE" /\ sub[x][0].status = "PENDING"
              /\ Len(sub[x][0].states) = 3 /\ sub[x][1].status = "LOST"
         /\ View(x) = Stood =>
              /\ registry[x].status = "SPENT" /\ sub[x][0].status = "WON"
              /\ sub[x][1].status = "LOST"
BY DEF View, Unminted, Minted, Receives, Leads, Paid0, Contends, Overtaken, Stands, Stood

\* The coin of the step a run is at.
LEMMA NowCoin ==
  ASSUME ScriptTypes, Rows, ~Down, Now.op \in Moves
  PROVE  /\ Now.l \in Labels /\ Now.l \in Uses[script] /\ Now.a \in Attempts
         /\ Label(Now.l) = At(Now.l) /\ At(Now.l) \in Serials
         /\ At(Now.l) \in Labels \X (0..MaxRuns + 1) /\ At(Now.l)[1] = Now.l
         /\ View(At(Now.l)) \in Views(Now.l, pc)
         /\ script \in DOMAIN StepsOf /\ pc \in Positions(script) /\ Placed(script, pc, Now)
         /\ pc \in Nat /\ Pos = pc
<1>1. /\ script \in DOMAIN StepsOf /\ pc \in Positions(script) /\ Placed(script, pc, Now)
      /\ pc \in Nat
  BY Basics
<1>2. Now.l \in Labels /\ Now.l \in Uses[script] /\ Now.a \in Attempts
  BY <1>1, MoveUses
<1>3. /\ Label(Now.l) = At(Now.l) /\ At(Now.l) \in Serials /\ Pos = pc
      /\ At(Now.l) \in Labels \X (0..MaxRuns + 1) /\ At(Now.l)[1] = Now.l
  BY <1>2, CoinOf
<1>4. View(At(Now.l)) \in Views(Now.l, pc)
  BY <1>2, <1>3 DEF Rows
<1>. QED  BY <1>1, <1>2, <1>3, <1>4

\* Links are appended to a submission that is being received and not complete.
LEMMA AppendNow ==
  ASSUME ScriptTypes, Rows, ~Down, Now.op = "append", Wanted,
         NEW x, x = At(Now.l)
  PROVE  LET m == Len(sub[x][Now.a].states) IN
         /\ m \in Nat /\ 1 <= m /\ m < Now.n /\ Now.n \in Nat /\ Now.n <= Full(Now.l, Now.a)
         /\ sub[x][Now.a].status = "RECEIVING" /\ Now.a \in Attempts
<1>. DEFINE p == pc  s == Now  y == View(x)  m == Len(sub[x][s.a].states)
<1>1. /\ script \in DOMAIN StepsOf /\ p \in Positions(script) /\ Placed(script, p, s)
      /\ y \in Views(s.l, p) /\ Label(s.l) = x
  BY NowCoin DEF Moves
<1>2. AppendsAt(script, p, s)
  BY <1>1 DEF Placed
<1>3. ~s.always => m < s.n
  <2>1. ~s.always => Needed(s)
    BY DEF Wanted
  <2>. QED  BY <1>1, <2>1 DEF Needed, Sub
<1>4. CASE s.tag = "none"
  <2>. HIDE DEF s, p, y, m
  <2>1. s.n \in 2..4 /\ s.n <= Full(s.l, s.a)
    BY <1>1, <1>2, <1>4, ViewsAtAppend
  <2>2. (script = "pq" => s.always) /\ (script # "pq" => ~s.always)
    BY <1>2, <1>4 DEF AppendsAt, Insists
  <2>3. \/ /\ s.a = 0 /\ script # "pq"
           /\ \A z \in Views(s.l, p) : \/ \E i \in 1..s.n : z = Receives(i)
                                       \/ z[3] = s.n /\ z \in Views(s.l, p + 1)
           /\ \A i \in 1..s.n : Receives(i) \in Views(s.l, p)
           /\ Receives(s.n) \in Views(s.l, p + 1)
        \/ /\ s.a = 0 /\ script = "pq" /\ s.n = 3
           /\ Views(s.l, p) = {Receives(1)} /\ Receives(3) \in Views(s.l, p + 1)
        \/ /\ s.a = 1 /\ script = "matrix" /\ s.n = 3
           /\ \E h \in {2, 3} :
                /\ Views(s.l, p) = {Contends(h, 1), Contends(h, 2), Contends(h, 3)}
                /\ Contends(h, 3) \in Views(s.l, p + 1)
    BY <1>1, <1>2, <1>4, ViewsAtAppend
  <2>. DEFINE Goal == m \in 1..(s.n - 1) /\ sub[x][s.a].status = "RECEIVING" /\ s.a \in {0, 1}
  <2>4. ASSUME s.a = 0, script # "pq",
               \A z \in Views(s.l, p) : \/ \E i \in 1..s.n : z = Receives(i)
                                        \/ z[3] = s.n /\ z \in Views(s.l, p + 1)
        PROVE  Goal
    <3>1. m < s.n
      BY <1>3, <2>2, <2>4
    <3>2. y[3] = m
      BY <2>4 DEF View, y, m
    <3>3. PICK i \in 1..s.n : y = Receives(i)
      BY <1>1, <2>1, <2>4, <3>1, <3>2
    <3>4. m = i /\ sub[x][0].status = "RECEIVING"
      BY <2>4, <3>3, ViewSays DEF y, m
    <3>. QED  BY <2>1, <2>4, <3>1, <3>4
  <2>5. ASSUME s.a = 0, s.n = 3, Views(s.l, p) = {Receives(1)}
        PROVE  Goal
    <3>1. m = 1 /\ sub[x][0].status = "RECEIVING"
      BY <1>1, <2>5, ViewSays DEF y, m
    <3>. QED  BY <2>5, <3>1
  <2>6. ASSUME s.a = 1, script = "matrix", s.n = 3, NEW h \in {2, 3},
               Views(s.l, p) = {Contends(h, 1), Contends(h, 2), Contends(h, 3)}
        PROVE  Goal
    <3>1. m < s.n
      BY <1>3, <2>2, <2>6
    <3>2. PICK i \in 1..3 : y = Contends(h, i)
      BY <1>1, <2>6
    <3>3. m = Len(sub[x][1].states)
      BY <2>6 DEF m
    <3>4. m = i /\ sub[x][1].status = "RECEIVING"
      BY <3>2, <3>3, ViewSays DEF y
    <3>. QED  BY <2>6, <3>1, <3>4
  <2>7. Goal
    BY <2>3, <2>4, <2>5, <2>6
  <2>8. m \in Nat /\ 1 <= m /\ m < s.n /\ s.n \in Nat
    BY <2>1, <2>7
  <2>. HIDE DEF Goal
  <2>9. sub[x][s.a].status = "RECEIVING" /\ s.a \in Attempts
    BY <2>7 DEF Goal, Attempts
  <2>. QED  BY <2>1, <2>8, <2>9 DEF s, m
<1>5. CASE s.tag # "none"
  <2>1. p = 14 /\ s.l = "e7" /\ s.a = 0 /\ s.n = 5
    BY <1>2, <1>5 DEF AppendsAt
  <2>2. y = Receives(4)
    BY <1>1, <2>1, ViewsTable
  <2>3. m = 4 /\ sub[x][0].status = "RECEIVING"
    BY <2>1, <2>2, ViewSays
  <2>4. Full(s.l, s.a) = 5
    BY <2>1 DEF Full
  <2>. HIDE DEF m, s
  <2>5. m \in Nat /\ 1 <= m /\ m < s.n /\ s.n \in Nat /\ s.n <= Full(s.l, s.a)
    BY <2>1, <2>3, <2>4
  <2>6. sub[x][s.a].status = "RECEIVING" /\ s.a \in Attempts
    BY <2>1, <2>3 DEF Attempts
  <2>. QED  BY <2>5, <2>6 DEF m, s
<1>. QED  BY <1>4, <1>5

\* The fields of a step's transaction.
LEMMA TxFields ==
  ASSUME NEW s
  PROVE  /\ TxOf(s).op = s.op /\ TxOf(s).sn = Label(s.l) /\ TxOf(s).a = s.a
         /\ TxOf(s).tag = s.tag
         /\ s.op # "fund" => TxOf(s).n = s.n
         /\ s.op = "fund" => TxOf(s).n = s.n - vault
         /\ s.op # "append" => TxOf(s).w = s.w
         /\ s.op = "append" => /\ TxOf(s).w = OwnersOf(s.l, s.a)[Len(Sub(s).states)]
                               /\ TxOf(s).links = BatchTo(s)
BY DEF TxOf

\* The links that follow the states on chain.
LEMMA BatchNow ==
  ASSUME ScriptTypes, Rows, ~Down, Now.op = "append", Wanted, NEW x, x = At(Now.l)
  PROVE  LET m == Len(sub[x][Now.a].states) IN
         /\ TxOf(Now).w = OwnersOf(Now.l, Now.a)[m] /\ TxOf(Now).w \in Wallets
         /\ TxOf(Now).links \in LinkBatches
         /\ \E k \in Nat : /\ m + 1 <= k /\ k <= Now.n /\ k <= m + MaxLinks
                           /\ m + MaxLinks >= Now.n => k = Now.n
                           /\ TxOf(Now).links = SubSeq(ChainOf(Now.l, x, Now.a), m + 1, k)
<1>. DEFINE l == Now.l  a == Now.a  n == Now.n  m == Len(sub[x][a].states)  c == ChainOf(l, x, a)
            k == IF m + MaxLinks < n THEN m + MaxLinks ELSE n
            t == TxOf(Now)
<1>1. /\ l \in Labels /\ a \in Attempts /\ Label(l) = x /\ x \in Serials
      /\ x \in Labels \X (0..MaxRuns + 1) /\ x[1] = l
  BY NowCoin DEF Moves
<1>2. m \in Nat /\ 1 <= m /\ m < n /\ n \in Nat /\ n <= Full(l, a)
  BY AppendNow
<1>3. t.w = OwnersOf(l, a)[m] /\ t.links = BatchTo(Now)
  BY <1>1, TxFields DEF Sub
<1>4. BatchTo(Now) = SubSeq(c, m + 1, k)
  BY <1>1 DEF BatchTo, Sub, ChainOf
<1>5. /\ Len(c) = Full(l, a) /\ Full(l, a) \in 2..6
      /\ \A i \in 1..Full(l, a) : OwnersOf(l, a)[i] \in Wallets
  BY <1>1, ChainFacts
<1>6. \A i, j \in 1..Len(c) : SubSeq(c, i, j) \in LinkBatches
  BY <1>1, LinksAssumption DEF ChainOf
<1>. HIDE DEF l, a, n, m, c, t
<1>7. k \in Nat /\ m + 1 <= k /\ k <= n /\ k <= m + MaxLinks /\ (m + MaxLinks >= n => k = n)
  BY <1>2, ConfigAssumption
<1>. HIDE DEF k
<1>8. m + 1 \in 1..Len(c) /\ k \in 1..Len(c) /\ m \in 1..Full(l, a)
  BY <1>2, <1>5, <1>7
<1>9. SubSeq(c, m + 1, k) \in LinkBatches
  BY <1>6, <1>8
<1>10. t.w \in Wallets
  BY <1>3, <1>5, <1>8
<1>11. t.links = SubSeq(c, m + 1, k)
  BY <1>3, <1>4
<1>. QED  BY <1>3, <1>7, <1>9, <1>10, <1>11 DEF l, a, n, m, c, t

\* What the step sends is a transaction of the program.
LEMMA SentNow ==
  ASSUME ScriptTypes, ProgInv, Rows, ~Down, Now.op \in Sends, Wanted
  PROVE  Sent(TxOf(Now)) /\ TxOf(Now).sn = At(Now.l)
<1>. DEFINE s == Now  t == TxOf(Now)
<1>1. /\ script \in DOMAIN StepsOf /\ pc \in Positions(script) /\ Placed(script, pc, s)
  BY Basics
<1>2. s.l \in Labels /\ s.a \in Attempts
  <2>1. CASE s.op \in Moves
    BY <2>1, NowCoin
  <2>2. CASE s.op = "cap"
    <3>1. CapsAt(script, pc, s)
      BY <1>1, <2>2 DEF Placed
    <3>. QED  BY <3>1 DEF CapsAt, Labels, Fixed, Attempts
  <2>3. CASE s.op = "fund"
    <3>1. FundsAt(script, pc, s)
      BY <1>1, <2>3 DEF Placed
    <3>. QED  BY <3>1 DEF FundsAt, Labels, Fixed, Attempts
  <2>4. CASE s.op = "verify"
    <3>1. VerifiesAt(script, pc, s)
      BY <1>1, <2>4 DEF Placed
    <3>. QED  BY <3>1 DEF VerifiesAt, Labels, Fixed, Attempts
  <2>. QED  BY <2>1, <2>2, <2>3, <2>4 DEF Sends, Moves
<1>3. Label(s.l) = At(s.l) /\ At(s.l) \in Labels \X (0..MaxRuns + 1)
  BY <1>2, CoinOf
<1>4. t.op = s.op /\ t.sn = At(s.l) /\ t.a = s.a
  BY <1>3, TxFields
<1>5. ASSUME s.op = "start" PROVE t.w \in Wallets
  <2>1. StartsAt(script, pc, s)
    BY <1>1, <1>5 DEF Placed
  <2>2. s.w \in Wallets
    BY <2>1, ScriptAssumption DEF StartsAt
  <2>. QED  BY <1>5, <2>2, TxFields
<1>6. ASSUME s.op = "append" PROVE t.w \in Wallets /\ t.links \in LinkBatches
  BY <1>6, BatchNow
<1>7. ASSUME s.op = "cap" PROVE t.n \in Caps
  <2>1. CapsAt(script, pc, s)
    BY <1>1, <1>7 DEF Placed
  <2>2. s.n \in Caps
    BY <2>1, AmountsAssumption, SMT DEF CapsAt
  <2>. QED  BY <1>7, <2>2, TxFields
<1>8. ASSUME s.op = "fund" PROVE t.n \in Amounts
  <2>1. FundsAt(script, pc, s)
    BY <1>1, <1>8 DEF Placed
  <2>2. s.n = 1000 /\ ~s.always
    BY <2>1 DEF FundsAt
  <2>3. vault < 1000
    BY <1>8, <2>2 DEF Wanted, Needed
  <2>4. vault \in Nat
    BY DEF ProgInv, TypeOK, AccountTypes
  <2>5. 1000 - vault \in 0..1000
    BY <2>3, <2>4
  <2>6. s.n - vault \in Amounts
    BY <2>2, <2>5, AmountsAssumption, SMT
  <2>. QED  BY <1>8, <2>6, TxFields
<1>. QED  BY <1>2, <1>3, <1>4, <1>5, <1>6, <1>7, <1>8 DEF Sent

-----------------------------------------------------------------------------
(* What a transaction of the script does to its coin when it lands. *)

\* The script is about to send, or has sent, the transaction of the step it is at.
Sending == Configured /\ ScriptTypes /\ ProgInv /\ Rows /\ Chains /\ ~Down /\ Wanted

\* The coin x of label l is where step p expects it.
Lands(l, x, p) == View(x)' \in Views(l, p) /\ \A a \in Attempts : HoldsChain(l, x, a)'

\* What is known when a step that moves a coin is carried out.
LEMMA MoveFacts ==
  ASSUME Sending, Now.op \in Moves, NEW l, l = Now.l, NEW x, x = At(Now.l), NEW a, a = Now.a
  PROVE  /\ TypeOK /\ ClaimsInv /\ CoinRight(x)
         /\ x \in Serials /\ a \in Attempts /\ l \in Labels /\ l \in Uses[script]
         /\ View(x) \in Views(l, pc) /\ \A b \in Attempts : HoldsChain(l, x, b)
         /\ Placed(script, pc, Now) /\ script \in DOMAIN StepsOf /\ pc \in Positions(script)
         /\ TxOf(Now).op = Now.op /\ TxOf(Now).sn = x /\ TxOf(Now).a = a
<1>1. ScriptTypes /\ Rows /\ Chains /\ ~Down /\ ProgInv
  BY DEF Sending
<1>2. /\ Now.l \in Labels /\ Now.l \in Uses[script] /\ Now.a \in Attempts
      /\ Label(Now.l) = At(Now.l) /\ At(Now.l) \in Serials
      /\ View(At(Now.l)) \in Views(Now.l, pc)
      /\ script \in DOMAIN StepsOf /\ pc \in Positions(script) /\ Placed(script, pc, Now)
  BY <1>1, NowCoin
<1>3. TxOf(Now).op = Now.op /\ TxOf(Now).sn = x /\ TxOf(Now).a = a
  BY <1>2, TxFields
<1>4. TypeOK /\ ClaimsInv /\ CoinRight(x)
  BY <1>1, <1>2 DEF ProgInv
<1>5. \A b \in Attempts : HoldsChain(l, x, b)
  BY <1>1, <1>2 DEF Chains
<1>. QED  BY <1>2, <1>3, <1>4, <1>5

\* A mint lands.
LEMMA MintLands ==
  ASSUME Sending, Now.op = "mint", NEW l, l = Now.l, NEW x, x = At(Now.l), Exec(TxOf(Now))
  PROVE  Now.tag = "none" /\ View(x) = Unminted /\ Lands(l, x, NextPos(script, pc))
<1>. PICK a : a = Now.a
  OBVIOUS
<1>1. /\ TypeOK /\ x \in Serials /\ View(x) \in Views(l, pc)
      /\ \A b \in Attempts : HoldsChain(l, x, b)
      /\ Placed(script, pc, Now) /\ script \in DOMAIN StepsOf /\ pc \in Positions(script)
      /\ TxOf(Now).op = "mint" /\ TxOf(Now).sn = x
  BY MoveFacts DEF Moves
<1>2. MintsAt(script, pc, Now)
  BY <1>1 DEF Placed
<1>3. MintCoin(x, Value, Recipient)
  BY <1>1 DEF Exec
<1>4. registry[x].status = "NONE" /\ sub' = sub
  BY <1>1, <1>3, MintEffect, ScriptAssumption
<1>5. /\ \A y \in Views(l, pc) : y = Unminted \/ y[1] # "NONE"
      /\ Minted \in Views(l, NextPos(script, pc))
  BY <1>1, <1>2, ViewsAtMint DEF NextPos
<1>6. View(x) = Unminted
  <2>1. View(x)[1] = "NONE"
    BY <1>4 DEF View
  <2>. QED  BY <1>1, <1>5, <2>1
<1>7. View(x)' = Minted
  BY <1>1, <1>3, <1>6, MintView
<1>8. \A b \in Attempts : HoldsChain(l, x, b)'
  BY <1>1, <1>4, ChainKept
<1>. QED  BY <1>2, <1>5, <1>6, <1>7, <1>8 DEF Lands, MintsAt

\* A start lands.
LEMMA StartLands ==
  ASSUME Sending, Now.op = "start", NEW l, l = Now.l, NEW x, x = At(Now.l), NEW a, a = Now.a,
         Exec(TxOf(Now))
  PROVE  /\ Now.tag = "none" /\ Lands(l, x, NextPos(script, pc))
         /\ Now.w = CheckerFor(a)
         /\ StartCheckIn(x, a, CheckerFor(a), GenesisState(x, Value, Recipient))
<1>. DEFINE st == GenesisState(x, Value, Recipient)
<1>1. /\ TypeOK /\ x \in Serials /\ View(x) \in Views(l, pc) /\ a \in Attempts
      /\ \A b \in Attempts : HoldsChain(l, x, b)
      /\ Placed(script, pc, Now) /\ script \in DOMAIN StepsOf /\ pc \in Positions(script)
      /\ TxOf(Now).op = "start" /\ TxOf(Now).sn = x /\ TxOf(Now).a = a /\ l \in Labels
  BY MoveFacts DEF Moves
<1>2. StartsAt(script, pc, Now)
  BY <1>1 DEF Placed
<1>3. TxOf(Now).w = Now.w
  BY TxFields
<1>4. StartCheckIn(x, a, Now.w, st)
  BY <1>1, <1>3 DEF Exec
<1>5. registry[x].status = "ACTIVE" /\ sub[x][a].status = "NONE"
  BY <1>4 DEF StartCheckIn, CanStart
<1>6. Now.tag = "none"
  <2>1. CASE pc = 52 /\ l = "e8"
    <3>1. View(x) = Paid0(2)
      BY <1>1, <2>1, ViewsAtRefusals
    <3>. QED  BY <1>5, <3>1, ViewSays
  <2>2. CASE pc = 53 /\ l = "e6" /\ a = 0
    <3>1. View(x) = Receives(1)
      BY <1>1, <2>2, ViewsAtRefusals
    <3>. QED  BY <1>5, <2>2, <3>1, ViewSays
  <2>. QED  BY <1>2, <2>1, <2>2 DEF StartsAt
<1>7. /\ pc < Len(StepsOf[script])
      /\ \/ /\ a = 0 /\ Now.w = Recipient /\ Receives(1) \in Views(l, pc + 1)
            /\ \A y \in Views(l, pc) :
                 y = Minted \/ (y[2] # "NONE" /\ y \in Views(l, pc + 1))
            /\ script = "pq" => Views(l, pc) = {Minted}
         \/ /\ a = 1 /\ Now.w = Holder3 /\ script = "matrix"
            /\ \E n \in {2, 3} : /\ Views(l, pc) = {Leads(n)}
                                 /\ Contends(n, 1) \in Views(l, pc + 1)
  <2>1. /\ pc < Len(StepsOf[script])
        /\ \/ /\ Now.a = 0 /\ Now.w = Recipient /\ Receives(1) \in Views(Now.l, pc + 1)
              /\ \A y \in Views(Now.l, pc) :
                   y = Minted \/ (y[2] # "NONE" /\ y \in Views(Now.l, pc + 1))
              /\ script = "pq" => Views(Now.l, pc) = {Minted}
           \/ /\ Now.a = 1 /\ Now.w = Holder3 /\ script = "matrix"
              /\ \E n \in {2, 3} : /\ Views(Now.l, pc) = {Leads(n)}
                                   /\ Contends(n, 1) \in Views(Now.l, pc + 1)
    BY <1>1, <1>2, <1>6, ViewsAtStart
  <2>. QED  BY <2>1
<1>8. Now.w = CheckerFor(a)
  BY <1>7 DEF CheckerFor
<1>9. CheckerFor(a) \in Wallets /\ st \in State
  BY <1>1, ScriptAssumption, GenesisType DEF CheckerFor
<1>10. StartCheckIn(x, a, CheckerFor(a), st)
  BY <1>4, <1>8
<1>11. View(x)' \in Views(l, pc + 1)
  <2>. HIDE DEF st
  <2>1. /\ a = 0 /\ View(x) = Minted => View(x)' = Receives(1)
        /\ \A n : a = 1 /\ View(x) = Leads(n) => View(x)' = Contends(n, 1)
    BY <1>1, <1>9, <1>10, StartView
  <2>2. CASE /\ a = 0 /\ Receives(1) \in Views(l, pc + 1)
             /\ \A y \in Views(l, pc) : y = Minted \/ (y[2] # "NONE" /\ y \in Views(l, pc + 1))
    <3>1. View(x)[2] = "NONE"
      BY <1>5, <2>2 DEF View
    <3>2. View(x) = Minted
      BY <1>1, <2>2, <3>1
    <3>. QED  BY <2>1, <2>2, <3>2
  <2>3. CASE /\ a = 1
             /\ \E n \in {2, 3} : Views(l, pc) = {Leads(n)} /\ Contends(n, 1) \in Views(l, pc + 1)
    <3>1. PICK n \in {2, 3} : View(x) = Leads(n) /\ Contends(n, 1) \in Views(l, pc + 1)
      BY <1>1, <2>3
    <3>. QED  BY <2>1, <2>3, <3>1
  <2>. QED  BY <1>7, <2>2, <2>3
<1>12. \A b \in Attempts : HoldsChain(l, x, b)'
  <2>1. HoldsChain(l, x, a)'
    BY <1>1, <1>10, ChainStarted
  <2>. HIDE DEF st
  <2>2. \A b \in Attempts : b # a => sub'[x][b] = sub[x][b]
    BY <1>1, <1>9, <1>10, StartEffect
  <2>3. \A b \in Attempts : b # a => HoldsChain(l, x, b)'
    BY <1>1, <2>2, ChainKept
  <2>. QED  BY <2>1, <2>3
<1>13. NextPos(script, pc) = pc + 1
  BY <1>7 DEF NextPos
<1>. QED  BY <1>6, <1>8, <1>10, <1>11, <1>12, <1>13 DEF Lands

\* An append lands: the loop has made progress, or all links are there.
LEMMA AppendLands ==
  ASSUME Sending, Now.op = "append", NEW l, l = Now.l, NEW x, x = At(Now.l), NEW a, a = Now.a,
         Exec(TxOf(Now))
  PROVE  /\ Now.tag = "none" /\ UNCHANGED <<wallet, supply, vault, allowance>>
         /\ Now.always => Lands(l, x, NextPos(script, pc))
         /\ ~Now.always => Lands(l, x, pc)
<1>. DEFINE m == Len(sub[x][a].states)  t == TxOf(Now)  n == Now.n
<1>0. ScriptTypes /\ Rows /\ ~Down /\ Wanted /\ MaxLinks >= 2 /\ MaxLinks \in Nat
  BY ConfigAssumption DEF Sending, Configured
<1>1. /\ TypeOK /\ x \in Serials /\ View(x) \in Views(l, pc) /\ a \in Attempts
      /\ \A b \in Attempts : HoldsChain(l, x, b)
      /\ Placed(script, pc, Now) /\ script \in DOMAIN StepsOf /\ pc \in Positions(script)
      /\ t.op = "append" /\ t.sn = x /\ t.a = a /\ l \in Labels
  BY MoveFacts DEF Moves
<1>2. AppendsAt(script, pc, Now)
  BY <1>1 DEF Placed
<1>3. /\ m \in Nat /\ 1 <= m /\ m < n /\ n \in Nat /\ n <= Full(l, a)
      /\ sub[x][a].status = "RECEIVING"
  BY <1>0, AppendNow
<1>4. t.w \in Wallets /\ t.links \in LinkBatches
  BY <1>0, BatchNow
<1>5. PICK k \in Nat : /\ m + 1 <= k /\ k <= n /\ k <= m + MaxLinks
                       /\ m + MaxLinks >= n => k = n
                       /\ t.links = SubSeq(ChainOf(l, x, a), m + 1, k)
  BY <1>0, BatchNow
<1>. DEFINE h == StateHash(t.links[Len(t.links)])
<1>6. AppendLinks(x, a, t.w, t.links, h)
  BY <1>1 DEF Exec
<1>7. m + Len(t.links) <= MaxSubmissionStates /\ t.links # <<>>
  BY <1>6 DEF AppendLinks, BatchFits, CanAppend, LinksFit
<1>8. Len(t.links) = k - m
  <2>1. /\ ChainOf(l, x, a) \in Seq(State) /\ Len(ChainOf(l, x, a)) = Full(l, a)
        /\ Full(l, a) \in 2..6
    BY <1>1, ChainFacts
  <2>. DEFINE c == ChainOf(l, x, a)
  <2>. HIDE DEF c, m, n, t
  <2>5. k <= Len(c)
    <3>. PICK f : f = Full(l, a)
      OBVIOUS
    <3>1. Len(c) = f
      BY <2>1 DEF c
    <3>2. f \in Nat
      BY <2>1
    <3>3. n \in Nat /\ n <= f
      BY <1>3
    <3>4. k \in Nat /\ k <= n
      BY <1>5
    <3>. QED  BY <3>1, <3>2, <3>3, <3>4
  <2>2. m + 1 \in Nat /\ 1 <= m + 1 /\ m + 1 <= k /\ k <= Len(c) /\ k - (m + 1) + 1 = k - m
    BY <1>3, <1>5, <2>5
  <2>3. Len(SubSeq(c, m + 1, k)) = k - (m + 1) + 1
    BY <2>1, <2>2, PartOf DEF c
  <2>. QED  BY <1>5, <2>2, <2>3 DEF c
<1>9. Now.tag = "none"
  <2>1. ASSUME Now.tag # "none" PROVE FALSE
    <3>1. pc = 14 /\ l = "e7" /\ a = 0
      BY <1>2, <2>1 DEF AppendsAt
    <3>2. View(x) = Receives(4)
      BY <1>1, <3>1, ViewsAtRefusals
    <3>3. m = 4
      BY <3>1, <3>2, ViewSays
    <3>. HIDE DEF m, t, n
    <3>. QED  BY <1>5, <1>7, <1>8, <3>3 DEF MaxSubmissionStates
  <2>. QED  BY <2>1
<1>10. \A b \in Attempts : HoldsChain(l, x, b)'
  <2>. HIDE DEF h
  <2>1. HoldsChain(l, x, a)'
    <3>1. k <= Full(l, a)
      <4>. HIDE DEF m, n, t
      <4>1. Full(l, a) \in Nat
        BY DEF Full
      <4>. QED  BY <1>3, <1>5, <4>1
    <3>. QED  BY <1>1, <1>4, <1>5, <1>6, <3>1, ChainAppended
  <2>2. \A b \in Attempts : b # a => sub'[x][b] = sub[x][b]
    BY <1>1, <1>4, <1>6, AppendEffect
  <2>3. \A b \in Attempts : b # a => HoldsChain(l, x, b)'
    BY <1>1, <2>2, ChainKept
  <2>. QED  BY <2>1, <2>3
<1>11. /\ \A i : a = 0 /\ View(x) = Receives(i) => View(x)' = Receives(i + Len(t.links))
       /\ \A j, i : a = 1 /\ View(x) = Contends(j, i) => View(x)' = Contends(j, i + Len(t.links))
  <2>. HIDE DEF h
  <2>. QED  BY <1>1, <1>4, <1>6, AppendView
<1>12. /\ Now.n \in 2..4 /\ Now.n <= Full(Now.l, Now.a)
       /\ \/ /\ Now.a = 0 /\ script # "pq"
             /\ \A z \in Views(Now.l, pc) : \/ \E i \in 1..Now.n : z = Receives(i)
                                            \/ z[3] = Now.n /\ z \in Views(Now.l, pc + 1)
             /\ \A i \in 1..Now.n : Receives(i) \in Views(Now.l, pc)
             /\ Receives(Now.n) \in Views(Now.l, pc + 1)
          \/ /\ Now.a = 0 /\ script = "pq" /\ Now.n = 3
             /\ Views(Now.l, pc) = {Receives(1)} /\ Receives(3) \in Views(Now.l, pc + 1)
          \/ /\ Now.a = 1 /\ script = "matrix" /\ Now.n = 3
             /\ \E i \in {2, 3} :
                  /\ Views(Now.l, pc) = {Contends(i, 1), Contends(i, 2), Contends(i, 3)}
                  /\ Contends(i, 3) \in Views(Now.l, pc + 1)
       /\ pc < Len(StepsOf[script])
  BY <1>1, <1>2, <1>9, ViewsAtAppend
<1>13. (script = "pq" => Now.always) /\ (script # "pq" => ~Now.always)
  BY <1>2, <1>9 DEF AppendsAt, Insists
<1>. DEFINE q == IF Now.always THEN pc + 1 ELSE pc
<1>14. View(x)' \in Views(l, q)
  <2>1. ASSUME a = 0, script # "pq",
               \A z \in Views(l, pc) : \/ \E i \in 1..n : z = Receives(i)
                                       \/ z[3] = n /\ z \in Views(l, pc + 1),
               \A i \in 1..n : Receives(i) \in Views(l, pc)
        PROVE  View(x)' \in Views(l, q)
    <3>1. View(x)[3] = m /\ m # n
      BY <1>3, <2>1 DEF View
    <3>2. PICK i \in 1..n : View(x) = Receives(i)
      BY <1>1, <2>1, <3>1
    <3>3. i = m
      BY <2>1, <3>2, ViewSays
    <3>4. View(x)' = Receives(i + Len(t.links))
      BY <1>11, <2>1, <3>2
    <3>5. i + Len(t.links) = k /\ k \in 1..n
      <4>. HIDE DEF m, t, n
      <4>. QED  BY <1>3, <1>5, <1>8, <3>3
    <3>6. q = pc
      BY <1>13, <2>1
    <3>. QED  BY <2>1, <3>4, <3>5, <3>6
  <2>2. ASSUME a = 0, script = "pq", n = 3,
               Views(l, pc) = {Receives(1)}, Receives(3) \in Views(l, pc + 1)
        PROVE  View(x)' \in Views(l, q)
    <3>1. View(x) = Receives(1)
      BY <1>1, <2>2
    <3>2. m = 1
      BY <2>2, <3>1, ViewSays
    <3>3. View(x)' = Receives(1 + Len(t.links))
      BY <1>11, <2>2, <3>1
    <3>4. 1 + Len(t.links) = 3
      <4>. HIDE DEF m, t, n
      <4>. QED  BY <1>0, <1>5, <1>8, <2>2, <3>2
    <3>6. q = pc + 1
      BY <1>13, <2>2
    <3>. QED  BY <2>2, <3>3, <3>4, <3>6
  <2>3. ASSUME a = 1, script = "matrix", n = 3, NEW i \in {2, 3},
               Views(l, pc) = {Contends(i, 1), Contends(i, 2), Contends(i, 3)}
        PROVE  View(x)' \in Views(l, q)
    <3>1. PICK j \in {1, 2, 3} : View(x) = Contends(i, j)
      BY <1>1, <2>3
    <3>2. j = m
      BY <2>3, <3>1, ViewSays
    <3>3. View(x)' = Contends(i, j + Len(t.links))
      BY <1>11, <2>3, <3>1
    <3>4. j + Len(t.links) \in {1, 2, 3}
      <4>. HIDE DEF m, t, n
      <4>. QED  BY <1>3, <1>5, <1>8, <2>3, <3>2
    <3>6. q = pc
      BY <1>13, <2>3
    <3>. QED  BY <2>3, <3>3, <3>4, <3>6
  <2>4. CASE Now.a = 0 /\ script # "pq"
    BY <1>12, <2>1, <2>4
  <2>5. CASE Now.a = 0 /\ script = "pq"
    BY <1>12, <2>2, <2>5
  <2>6. CASE Now.a = 1
    BY <1>12, <2>3, <2>6
  <2>. QED  BY <1>12, <2>4, <2>5, <2>6
<1>15. NextPos(script, pc) = pc + 1
  BY <1>12 DEF NextPos
<1>16. UNCHANGED <<wallet, supply, vault, allowance>>
  BY <1>6 DEF AppendLinks
<1>. QED  BY <1>9, <1>10, <1>14, <1>15, <1>16 DEF Lands

\* The first submission of a coin becomes its head; nothing is moved.
LEMMA HeadLands ==
  ASSUME TypeOK, NEW x \in Serials, NEW l, NEW n, View(x) = Receives(n),
         \A b \in Attempts : HoldsChain(l, x, b),
         FinRejectSpent(x, 0) \/ FinSetHead(x, 0)
  PROVE  /\ View(x)' = Leads(n) /\ \A b \in Attempts : HoldsChain(l, x, b)'
         /\ UNCHANGED <<wallet, supply, vault, allowance>>
<1>1. registry[x].status = "ACTIVE"
  BY ViewSays
<1>2. FinSetHead(x, 0)
  BY <1>1 DEF FinRejectSpent, CanReject
<1>3. View(x)' = Leads(n)
  BY <1>2, SetHeadView
<1>4. 0 \in Attempts
  BY DEF Attempts
<1>5. /\ KeepChains /\ sub[x][0].status = "RECEIVING"
      /\ \A b \in Attempts : b # 0 => sub'[x][b].status = sub[x][b].status
  BY <1>2, <1>4, SetHeadEffect
<1>6. \A b \in Attempts : HoldsChain(l, x, b)'
  BY <1>5, ChainKept DEF KeepChains
<1>7. UNCHANGED <<wallet, supply, vault, allowance>>
  BY <1>2 DEF FinSetHead
<1>. QED  BY <1>3, <1>6, <1>7

\* The finalize of a first submission lands.
LEMMA LeadLands ==
  ASSUME Sending, Now.op = "finalizeA", NEW l, l = Now.l, NEW x, x = At(Now.l),
         Exec(TxOf(Now))
  PROVE  /\ Now.tag = "none" /\ Lands(l, x, NextPos(script, pc))
         /\ UNCHANGED <<wallet, supply, vault, allowance>>
<1>. PICK a : a = Now.a
  OBVIOUS
<1>1. /\ TypeOK /\ x \in Serials /\ View(x) \in Views(l, pc)
      /\ \A b \in Attempts : HoldsChain(l, x, b)
      /\ Placed(script, pc, Now) /\ script \in DOMAIN StepsOf /\ pc \in Positions(script)
      /\ TxOf(Now).op = "finalizeA" /\ TxOf(Now).sn = x /\ TxOf(Now).a = a
  BY MoveFacts DEF Moves
<1>2. LeadsAt(script, pc, Now)
  BY <1>1 DEF Placed
<1>3. a = 0 /\ Now.tag = "none"
  BY <1>2 DEF LeadsAt
<1>4. FinRejectSpent(x, 0) \/ FinSetHead(x, 0)
  BY <1>1, <1>3 DEF Exec
<1>5. /\ pc < Len(StepsOf[script])
      /\ \E n \in {2, 3} : Views(Now.l, pc) = {Receives(n)} /\ Leads(n) \in Views(Now.l, pc + 1)
  BY <1>1, <1>2, ViewsAtLead
<1>6. PICK n \in {2, 3} : View(x) = Receives(n) /\ Leads(n) \in Views(l, NextPos(script, pc))
  BY <1>1, <1>5 DEF NextPos
<1>7. /\ View(x)' = Leads(n) /\ \A b \in Attempts : HoldsChain(l, x, b)'
      /\ UNCHANGED <<wallet, supply, vault, allowance>>
  BY <1>1, <1>4, <1>6, HeadLands
<1>. QED  BY <1>3, <1>6, <1>7 DEF Lands

\* The finalize of the smoke test lands.
LEMMA FinishLands ==
  ASSUME Sending, Now.op = "finalizeM1", NEW l, l = Now.l, NEW x, x = At(Now.l),
         Exec(TxOf(Now))
  PROVE  /\ Now.tag = "none" /\ Lands(l, x, NextPos(script, pc))
         /\ UNCHANGED <<wallet, supply, vault, allowance>>
<1>. PICK a : a = Now.a
  OBVIOUS
<1>1. /\ TypeOK /\ x \in Serials /\ View(x) \in Views(l, pc)
      /\ \A b \in Attempts : HoldsChain(l, x, b)
      /\ Placed(script, pc, Now) /\ script \in DOMAIN StepsOf /\ pc \in Positions(script)
      /\ TxOf(Now).op = "finalizeM1" /\ TxOf(Now).sn = x /\ TxOf(Now).a = a
  BY MoveFacts DEF Moves
<1>2. FinishesAt(script, pc, Now)
  BY <1>1 DEF Placed
<1>3. a = 0 /\ Now.tag = "none"
  BY <1>2 DEF FinishesAt
<1>4. FinRejectSpent(x, 0) \/ FinSetHead(x, 0)
  BY <1>1, <1>3 DEF Exec
<1>5. sub[x][0].status = "RECEIVING"
  BY <1>4 DEF FinRejectSpent, FinSetHead, CanReject, CanSetHead, CanFinalize
<1>6. /\ pc < Len(StepsOf[script])
      /\ Views(Now.l, pc) = {Receives(3), Leads(3), Paid0(3)}
      /\ Views(Now.l, pc + 1) = {Leads(3), Paid0(3)}
  BY <1>1, <1>2, ViewsAtFinish
<1>7. View(x) = Receives(3)
  BY <1>1, <1>5, <1>6, ViewSays
<1>8. /\ View(x)' = Leads(3) /\ \A b \in Attempts : HoldsChain(l, x, b)'
      /\ UNCHANGED <<wallet, supply, vault, allowance>>
  BY <1>1, <1>4, <1>7, HeadLands
<1>9. Leads(3) \in Views(l, NextPos(script, pc))
  BY <1>6 DEF NextPos
<1>. QED  BY <1>3, <1>8, <1>9 DEF Lands

\* The value of a coin and its bond.
LEMMA CoinWorth ==
  ASSUME Configured, NEW x, CoinRight(x), registry[x].status # "NONE"
  PROVE  /\ registry[x].value = 100 /\ registry[x].recipient = Recipient /\ Bond(x) = 100
         /\ BondFits(registry[x].value, BondBps)
<1>1. registry[x].value = Value /\ registry[x].recipient = Recipient
  BY DEF CoinRight
<1>2. Value * BondBps <= U64Max /\ BondBps = 10000
  BY DEF Configured
<1>3. BondAmount(Value, BondBps) = 100
  BY <1>2, SMT DEF BondAmount, Value
<1>. QED  BY <1>1, <1>2, <1>3 DEF Bond, BondFits, Value

\* A coin is paid out.
Redeemed ==
  /\ supply' = supply - 100 /\ vault' = vault - 100
  /\ allowance' = [allowance EXCEPT ![Recipient].committed = @ - 100]

\* The dispute over e2 is won by the contender, the one over e3 by the head.
LEMMA ResolveLands ==
  ASSUME Sending, Now.op = "finalizeB", NEW l, l = Now.l, NEW x, x = At(Now.l),
         Exec(TxOf(Now))
  PROVE  /\ Now.tag = "none" /\ Lands(l, x, NextPos(script, pc)) /\ script = "matrix"
         /\ \/ /\ pc = 25 /\ Redeemed
               /\ wallet' = [wallet EXCEPT ![Holder3] = @ + 300]
            \/ /\ pc = 37 /\ UNCHANGED <<supply, vault, allowance>>
               /\ wallet' = [wallet EXCEPT ![Recipient] = @ + 100]
<1>. PICK a : a = Now.a
  OBVIOUS
<1>1. /\ TypeOK /\ ClaimsInv /\ CoinRight(x) /\ x \in Serials /\ View(x) \in Views(l, pc)
      /\ \A b \in Attempts : HoldsChain(l, x, b)
      /\ Placed(script, pc, Now) /\ script \in DOMAIN StepsOf /\ pc \in Positions(script)
      /\ TxOf(Now).op = "finalizeB" /\ TxOf(Now).sn = x /\ TxOf(Now).a = a
  BY MoveFacts DEF Moves
<1>2. ResolvesAt(script, pc, Now)
  BY <1>1 DEF Placed
<1>3. a = 1 /\ Now.tag = "none"
  BY <1>2 DEF ResolvesAt
<1>4. FinalizeCheckIn(x, 1)
  BY <1>1, <1>3 DEF Exec
<1>5. /\ pc < Len(StepsOf[script]) /\ script = "matrix"
      /\ \/ pc = 25 /\ Views(Now.l, pc) = {Contends(2, 3)} /\ Overtaken \in Views(Now.l, pc + 1)
         \/ pc = 37 /\ Views(Now.l, pc) = {Contends(3, 3)} /\ Stands \in Views(Now.l, pc + 1)
  BY <1>1, <1>2, ViewsAtResolve
<1>6. NextPos(script, pc) = pc + 1
  BY <1>5 DEF NextPos
<1>7. \E n \in {2, 3} : View(x) = Contends(n, 3)
  BY <1>1, <1>5
<1>8. /\ registry[x].status = "ACTIVE" /\ sub[x][0].status = "PENDING"
      /\ sub[x][1].status = "RECEIVING" /\ Len(sub[x][1].states) = 3
      /\ View(x) = Contends(2, 3) => Len(sub[x][0].states) = 2
      /\ View(x) = Contends(3, 3) => Len(sub[x][0].states) = 3
  <2>1. CASE View(x) = Contends(2, 3)
    <3>1. View(x) # Contends(3, 3)
      BY <2>1 DEF Contends
    <3>2. /\ registry[x].status = "ACTIVE" /\ sub[x][0].status = "PENDING"
          /\ sub[x][1].status = "RECEIVING" /\ Len(sub[x][1].states) = 3
          /\ Len(sub[x][0].states) = 2
      BY <2>1 DEF View, Contends
    <3>. QED  BY <3>1, <3>2
  <2>2. CASE View(x) = Contends(3, 3)
    <3>1. View(x) # Contends(2, 3)
      BY <2>2 DEF Contends
    <3>2. /\ registry[x].status = "ACTIVE" /\ sub[x][0].status = "PENDING"
          /\ sub[x][1].status = "RECEIVING" /\ Len(sub[x][1].states) = 3
          /\ Len(sub[x][0].states) = 3
      BY <2>2 DEF View, Contends
    <3>. QED  BY <3>1, <3>2
  <2>. QED  BY <1>7, <2>1, <2>2
<1>9. HeadIsLive /\ ChainsAnchored
  BY <1>1 DEF ClaimsInv
<1>10. 0 \in Attempts /\ 1 \in Attempts
  BY DEF Attempts
<1>11. head[x].set /\ head[x].attempt = 0
  BY <1>1, <1>8, <1>10, CanBeSettled
<1>12. head[x].len = Len(sub[x][0].states)
  BY <1>1, <1>9, <1>11, HeadLength
<1>13. BeatsHead(x, 1) <=> 3 > Len(sub[x][0].states)
  BY <1>1, <1>8, <1>9, <1>10, <1>11, <1>12, WinRule
<1>14. ~FinRejectSpent(x, 1)
  BY <1>8 DEF FinRejectSpent, CanReject
<1>15. ~FinSetHead(x, 1)
  BY <1>11 DEF FinSetHead, CanSetHead
<1>16. FinResolveWin(x, 1) \/ FinResolveLose(x, 1)
  BY <1>4, <1>14, <1>15 DEF FinalizeCheckIn
<1>17. /\ registry[x].value = 100 /\ registry[x].recipient = Recipient /\ Bond(x) = 100
  BY <1>1, <1>8, CoinWorth DEF Sending
<1>18. wallet \in [Accounts -> Nat] /\ Holder3 \in Accounts /\ Recipient \in Accounts
  BY <1>1, ScriptAssumption DEF TypeOK, AccountTypes, Accounts
<1>19. CASE pc = 25
  <2>1. View(x) = Contends(2, 3) /\ Overtaken \in Views(l, pc + 1)
    BY <1>1, <1>5, <1>19
  <2>2. FinResolveWin(x, 1)
    <3>1. BeatsHead(x, 1)
      <4>1. Len(sub[x][0].states) = 2
        BY <1>8, <2>1
      <4>. QED  BY <1>13, <4>1
    <3>. QED  BY <1>16, <3>1 DEF FinResolveLose
  <2>3. View(x)' = Overtaken
    BY <1>1, <2>1, <2>2, WinView
  <2>4. KeepChains /\ \A b \in Attempts : sub[x][b].status # "NONE"
    BY <1>1, <1>8, <1>10, <2>2, WinEffect DEF Attempts
  <2>5. \A b \in Attempts : HoldsChain(l, x, b)'
    BY <1>1, <2>4, ChainKept DEF KeepChains
  <2>6. sub[x][1].checker = Holder3 /\ sub[x][1].final_owner = Holder3
    <3>1. HoldsChain(l, x, 1) /\ l \in Labels
      BY <1>1, <1>10, MoveFacts DEF Moves
    <3>2. sub[x][1].checker = CheckerFor(1) /\ sub[x][1].final_owner = OwnersOf(l, 1)[3]
      BY <1>8, <3>1 DEF HoldsChain
    <3>3. Full(l, 1) = 3
      BY <1>2, <1>3, <1>19 DEF Full, ResolvesAt
    <3>4. OwnersOf(l, 1)[3] = Holder3
      BY <1>10, <3>1, <3>3, OwnersAre
    <3>. QED  BY <3>2, <3>4 DEF CheckerFor
  <2>7. Redeemed
    BY <1>17, <2>2 DEF FinResolveWin, Redeemed
  <2>8. wallet' = [[wallet EXCEPT ![Holder3] = @ + 2 * 100] EXCEPT ![Holder3] = @ + 100]
    BY <1>17, <2>2, <2>6 DEF FinResolveWin
  <2>9. wallet' = [wallet EXCEPT ![Holder3] = @ + 300]
    BY <1>18, <2>8
  <2>. QED  BY <1>3, <1>5, <1>6, <1>19, <2>1, <2>3, <2>5, <2>7, <2>9 DEF Lands
<1>20. CASE pc = 37
  <2>1. View(x) = Contends(3, 3) /\ Stands \in Views(l, pc + 1)
    BY <1>1, <1>5, <1>20
  <2>2. FinResolveLose(x, 1)
    <3>1. ~BeatsHead(x, 1)
      <4>1. Len(sub[x][0].states) = 3
        BY <1>8, <2>1
      <4>. QED  BY <1>13, <4>1
    <3>. QED  BY <1>16, <3>1 DEF FinResolveWin, CanWin
  <2>3. View(x)' = Stands
    BY <1>1, <2>1, <2>2, LoseView
  <2>4. KeepChains /\ \A b \in Attempts : sub[x][b].status # "NONE"
    BY <1>1, <1>8, <1>10, <2>2, LoseEffect DEF Attempts
  <2>5. \A b \in Attempts : HoldsChain(l, x, b)'
    BY <1>1, <2>4, ChainKept DEF KeepChains
  <2>6. Other(1) = 0 /\ sub[x][0].checker = Recipient
    BY <1>1, <1>8, <1>10 DEF HoldsChain, Other, CheckerFor
  <2>7. /\ UNCHANGED <<supply, vault, allowance>>
        /\ wallet' = [wallet EXCEPT ![Recipient] = @ + 100]
    BY <1>17, <2>2, <2>6 DEF FinResolveLose
  <2>. QED  BY <1>3, <1>5, <1>6, <1>20, <2>1, <2>3, <2>5, <2>7 DEF Lands
<1>. QED  BY <1>5, <1>19, <1>20

\* Only a settle that comes after the window lands.
LEMMA SettleLands ==
  ASSUME Sending, Now.op = "settle", NEW l, l = Now.l, NEW x, x = At(Now.l),
         Exec(TxOf(Now))
  PROVE  /\ head[x].age >= Window /\ Lands(l, x, NextPos(script, pc))
         /\ Redeemed
         /\ \E w \in Wallets :
              /\ wallet' = [[wallet EXCEPT ![w] = @ + 100] EXCEPT ![Recipient] = @ + 100]
              /\ script = "matrix" /\ pc = 40 => w = Holder3
<1>. PICK a : a = Now.a
  OBVIOUS
<1>1. /\ TypeOK /\ ClaimsInv /\ CoinRight(x) /\ x \in Serials /\ View(x) \in Views(l, pc)
      /\ \A b \in Attempts : HoldsChain(l, x, b)
      /\ Placed(script, pc, Now) /\ script \in DOMAIN StepsOf /\ pc \in Positions(script)
      /\ TxOf(Now).op = "settle" /\ TxOf(Now).sn = x /\ TxOf(Now).a = a
  BY MoveFacts DEF Moves
<1>2. SettlesAt(script, pc, Now)
  BY <1>1 DEF Placed
<1>3. a = 0 /\ 0 \in Attempts
  BY <1>2 DEF SettlesAt, Attempts
<1>4. SdkSettle(x, 0)
  BY <1>1, <1>3 DEF Exec, SdkSettle
<1>5. /\ registry[x].status = "ACTIVE" /\ sub[x][0].status = "PENDING"
      /\ head[x].age >= Window
      /\ sub'[x][0] = [sub[x][0] EXCEPT !.status = "WON"]
      /\ \A b \in Attempts : b # 0 => sub'[x][b] = sub[x][b]
  <2>1. TypeOK /\ x \in Serials /\ a \in Attempts /\ SdkSettle(x, a)
    BY <1>1, <1>3, <1>4
  <2>2. /\ registry[x].status = "ACTIVE" /\ sub[x][a].status = "PENDING"
        /\ head[x].age >= Window
        /\ sub'[x][a] = [sub[x][a] EXCEPT !.status = "WON"]
        /\ \A b \in Attempts : b # a => sub'[x][b] = sub[x][b]
    <3>1. TypeOK /\ SdkSettle(x, a)
      BY <2>1
    <3>2. registry[x].status = "ACTIVE" /\ sub[x][a].status = "PENDING" /\ head[x].age >= Window
      BY <2>1, PayOut
    <3>3. sub'[x][a] = [sub[x][a] EXCEPT !.status = "WON"]
      BY <2>1, PayOut
    <3>4. \A b \in Attempts : b # a => sub'[x][b] = sub[x][b]
      <4>1. ~Sweeps(x, a, FALSE)
        BY DEF Sweeps
      <4>. QED  BY <2>1, <4>1 DEF SdkSettle, Settle, TypeOK, AccountTypes
    <3>. QED  BY <3>2, <3>3, <3>4
  <2>. QED  BY <1>3, <2>2
<1>6. /\ \/ /\ script = "matrix" /\ pc = 40 /\ Now.l = "e3" /\ Views(Now.l, pc) = {Stands}
            /\ Stood \in Views(Now.l, NextPos(script, pc))
         \/ /\ ~(script = "matrix" /\ pc = 40)
            /\ \E n \in {2, 3} : /\ Views(Now.l, pc) \subseteq {Leads(n), Paid0(n)}
                                 /\ Paid0(n) \in Views(Now.l, NextPos(script, pc))
  BY <1>1, <1>2, ViewsAtSettle
<1>7. /\ \A n : View(x) = Leads(n) => View(x)' = Paid0(n)
      /\ View(x) = Stands => View(x)' = Stood
  BY <1>1, <1>4, SettleView
<1>8. View(x)' \in Views(l, NextPos(script, pc))
  <2>1. CASE script = "matrix" /\ pc = 40
    BY <1>1, <1>6, <1>7, <2>1
  <2>2. CASE ~(script = "matrix" /\ pc = 40)
    <3>1. PICK n \in {2, 3} : /\ View(x) \in {Leads(n), Paid0(n)}
                              /\ Paid0(n) \in Views(l, NextPos(script, pc))
      BY <1>1, <1>6, <2>2
    <3>2. View(x) # Paid0(n)
      BY <1>5, ViewSays
    <3>. QED  BY <1>7, <3>1, <3>2
  <2>. QED  BY <2>1, <2>2
<1>9. \A b \in Attempts : HoldsChain(l, x, b)'
  <2>1. sub[x][0] \in Submissions
    BY <1>1, <1>3 DEF TypeOK, AccountTypes
  <2>2. /\ sub'[x][0].checker = sub[x][0].checker /\ sub'[x][0].states = sub[x][0].states
        /\ sub'[x][0].final_owner = sub[x][0].final_owner
    BY <1>5, <2>1, StatusWrite
  <2>3. HoldsChain(l, x, 0)'
    BY <1>1, <1>3, <1>5, <2>2, ChainKept
  <2>4. \A b \in Attempts : b # 0 => HoldsChain(l, x, b)'
    BY <1>1, <1>5, ChainKept
  <2>. QED  BY <2>3, <2>4
<1>10. registry[x].value = 100 /\ registry[x].recipient = Recipient /\ Bond(x) = 100
  BY <1>1, <1>5, CoinWorth DEF Sending
<1>11. sub[x][0].checker = Recipient
  BY <1>1, <1>3, <1>5 DEF HoldsChain, CheckerFor
<1>12. PICK w : w = sub[x][0].final_owner
  OBVIOUS
<1>13. w \in Wallets
  BY <1>1, <1>3, <1>5, <1>12, StartedSubmission
<1>14. wallet' = [[wallet EXCEPT ![w] = @ + 100] EXCEPT ![Recipient] = @ + 100]
  BY <1>4, <1>10, <1>11, <1>12 DEF SdkSettle, Settle
<1>15. Redeemed
  BY <1>4, <1>10 DEF SdkSettle, Settle, Redeemed
<1>16. ASSUME script = "matrix", pc = 40 PROVE w = Holder3
  <2>1. View(x) = Stands /\ l = "e3"
    BY <1>1, <1>6, <1>16
  <2>2. Len(sub[x][0].states) = 3 /\ sub[x][0].status # "NONE"
    BY <2>1, ViewSays
  <2>3. HoldsChain(l, x, 0)
    BY <1>1, <1>3
  <2>4. w = OwnersOf(l, 0)[3]
    BY <1>12, <2>2, <2>3 DEF HoldsChain
  <2>5. Full("e3", 0) = 3 /\ "e3" \in Labels
    BY DEF Full, Labels, Fixed
  <2>. QED  BY <1>3, <2>1, <2>4, <2>5, OwnersAre
<1>. QED  BY <1>5, <1>8, <1>9, <1>13, <1>14, <1>15, <1>16 DEF Lands

-----------------------------------------------------------------------------
(* The coins of the script, step by step. *)

\* Views and chains are those of registry and submissions.
LEMMA CoinsStay ==
  ASSUME UNCHANGED <<registry, sub>>
  PROVE  \A x : View(x)' = View(x) /\ \A l, a : HoldsChain(l, x, a)' <=> HoldsChain(l, x, a)
BY DEF View, HoldsChain

\* All coins are where step q expects them.
LEMMA RowsFrom ==
  ASSUME NEW q, UNCHANGED script, Pos' = q, Round' = Round,
         \A l \in Uses[script] : \A x : x = At(l) => Lands(l, x, q)
  PROVE  Rows' /\ Chains'
<1>1. ASSUME NEW l \in Uses[script]
      PROVE  View(At(l))' \in Views(l, q) /\ \A a \in Attempts : HoldsChain(l, At(l), a)'
  <2>1. PICK x : x = At(l)
    OBVIOUS
  <2>2. At(l)' = x
    BY <2>1 DEF At, Coin
  <2>3. View(x)' \in Views(l, q) /\ \A a \in Attempts : HoldsChain(l, x, a)'
    BY <1>1, <2>1 DEF Lands
  <2>4. View(At(l))' = View(x)'
    BY <2>2 DEF View
  <2>5. ASSUME NEW a \in Attempts PROVE HoldsChain(l, At(l), a)'
    <3>1. HoldsChain(l, x, a)'
      BY <2>3
    <3>. QED  BY <2>2, <3>1 DEF HoldsChain
  <2>. QED  BY <2>3, <2>4, <2>5
<1>2. Rows'
  BY <1>1 DEF Rows
<1>3. Chains'
  BY <1>1 DEF Chains
<1>. QED  BY <1>2, <1>3

\* A step that changes no coin, where the coins are already as far as step q
\* expects them.
LEMMA QuietRows ==
  ASSUME Rows, Chains, UNCHANGED <<registry, sub, script>>, NEW q, Pos' = q, Round' = Round,
         \A l \in Uses[script] : View(At(l)) \in Views(l, q)
  PROVE  Rows' /\ Chains'
<1>1. ASSUME NEW l \in Uses[script], NEW x, x = At(l) PROVE Lands(l, x, q)
  <2>1. \A a \in Attempts : HoldsChain(l, x, a)
    BY <1>1 DEF Chains
  <2>2. View(x) \in Views(l, q)
    BY <1>1
  <2>3. /\ View(x)' = View(x)
        /\ \A a \in Attempts : HoldsChain(l, x, a)' <=> HoldsChain(l, x, a)
    BY CoinsStay
  <2>. QED  BY <2>1, <2>2, <2>3 DEF Lands
<1>. QED  BY <1>1, RowsFrom

\* A move that is not needed has been made.
LEMMA SkipView ==
  ASSUME ScriptTypes, Rows, ~Down, Now.op \in Moves, ~Now.always, ~Needed(Now),
         NEW l, l = Now.l, NEW x, x = At(Now.l)
  PROVE  View(x) \in Views(l, NextPos(script, pc))
<1>1. /\ l \in Labels /\ l \in Uses[script] /\ Now.a \in Attempts /\ Label(Now.l) = x
      /\ View(x) \in Views(l, pc)
      /\ script \in DOMAIN StepsOf /\ pc \in Positions(script) /\ Placed(script, pc, Now)
  BY NowCoin
<1>2. CASE Now.op = "mint"
  <2>1. registry[x].status # "NONE"
    BY <1>1, <1>2 DEF Needed
  <2>2. View(x) # Unminted
    BY <2>1, ViewSays
  <2>3. MintsAt(script, pc, Now)
    BY <1>1, <1>2 DEF Placed
  <2>4. /\ pc < Len(StepsOf[script])
        /\ Views(Now.l, pc) \ {Unminted} \subseteq Views(Now.l, pc + 1)
    BY <1>1, <2>3, ViewsAtMint
  <2>. QED  BY <1>1, <2>2, <2>4 DEF NextPos
<1>3. CASE Now.op = "start"
  <2>1. sub[x][Now.a].status # "NONE"
    BY <1>1, <1>3 DEF Needed, Sub
  <2>2. StartsAt(script, pc, Now)
    BY <1>1, <1>3 DEF Placed
  <2>3. Now.tag = "none"
    BY <2>2 DEF StartsAt
  <2>4. /\ pc < Len(StepsOf[script])
        /\ \/ /\ Now.a = 0
              /\ \A y \in Views(Now.l, pc) :
                   y = Minted \/ (y[2] # "NONE" /\ y \in Views(Now.l, pc + 1))
           \/ /\ Now.a = 1
              /\ \E n \in {2, 3} : Views(Now.l, pc) = {Leads(n)}
    <3>1. /\ pc < Len(StepsOf[script])
          /\ \/ /\ Now.a = 0 /\ Now.w = Recipient /\ Receives(1) \in Views(Now.l, pc + 1)
                /\ \A y \in Views(Now.l, pc) :
                     y = Minted \/ (y[2] # "NONE" /\ y \in Views(Now.l, pc + 1))
                /\ script = "pq" => Views(Now.l, pc) = {Minted}
             \/ /\ Now.a = 1 /\ Now.w = Holder3 /\ script = "matrix"
                /\ \E n \in {2, 3} : /\ Views(Now.l, pc) = {Leads(n)}
                                     /\ Contends(n, 1) \in Views(Now.l, pc + 1)
      BY <1>1, <2>2, <2>3, ViewsAtStart
    <3>. QED  BY <3>1
  <2>5. CASE Now.a = 0 /\ \A y \in Views(Now.l, pc) :
                             y = Minted \/ (y[2] # "NONE" /\ y \in Views(Now.l, pc + 1))
    <3>1. View(x) # Minted
      BY <2>1, <2>5, ViewSays
    <3>. QED  BY <1>1, <2>4, <2>5, <3>1 DEF NextPos
  <2>6. CASE Now.a = 1 /\ \E n \in {2, 3} : Views(Now.l, pc) = {Leads(n)}
    <3>1. PICK n \in {2, 3} : View(x) = Leads(n)
      BY <1>1, <2>6
    <3>. QED  BY <2>1, <2>6, <3>1, ViewSays
  <2>. QED  BY <2>4, <2>5, <2>6
<1>4. CASE Now.op = "append"
  <2>1. ~(Len(sub[x][Now.a].states) < Now.n)
    BY <1>1, <1>4 DEF Needed, Sub
  <2>2. AppendsAt(script, pc, Now)
    BY <1>1, <1>4 DEF Placed
  <2>3. Now.tag = "none" /\ script # "pq"
    BY <2>2 DEF AppendsAt, Insists
  <2>4. /\ pc < Len(StepsOf[script]) /\ Now.n \in 2..4
        /\ \/ /\ Now.a = 0
              /\ \A y \in Views(Now.l, pc) : \/ \E m \in 1..Now.n : y = Receives(m)
                                             \/ y[3] = Now.n /\ y \in Views(Now.l, pc + 1)
              /\ Receives(Now.n) \in Views(Now.l, pc + 1)
           \/ /\ Now.a = 1 /\ Now.n = 3
              /\ \E h \in {2, 3} :
                   /\ Views(Now.l, pc) = {Contends(h, 1), Contends(h, 2), Contends(h, 3)}
                   /\ Contends(h, 3) \in Views(Now.l, pc + 1)
    <3>1. /\ Now.n \in 2..4 /\ Now.n <= Full(Now.l, Now.a)
          /\ \/ /\ Now.a = 0 /\ script # "pq"
                /\ \A z \in Views(Now.l, pc) : \/ \E i \in 1..Now.n : z = Receives(i)
                                               \/ z[3] = Now.n /\ z \in Views(Now.l, pc + 1)
                /\ \A i \in 1..Now.n : Receives(i) \in Views(Now.l, pc)
                /\ Receives(Now.n) \in Views(Now.l, pc + 1)
             \/ /\ Now.a = 0 /\ script = "pq" /\ Now.n = 3
                /\ Views(Now.l, pc) = {Receives(1)} /\ Receives(3) \in Views(Now.l, pc + 1)
             \/ /\ Now.a = 1 /\ script = "matrix" /\ Now.n = 3
                /\ \E i \in {2, 3} :
                     /\ Views(Now.l, pc) = {Contends(i, 1), Contends(i, 2), Contends(i, 3)}
                     /\ Contends(i, 3) \in Views(Now.l, pc + 1)
          /\ pc < Len(StepsOf[script])
      BY <1>1, <2>2, <2>3, ViewsAtAppend
    <3>. QED  BY <2>3, <3>1
  <2>5. CASE /\ Now.a = 0
             /\ \A y \in Views(Now.l, pc) : \/ \E m \in 1..Now.n : y = Receives(m)
                                            \/ y[3] = Now.n /\ y \in Views(Now.l, pc + 1)
             /\ Receives(Now.n) \in Views(Now.l, pc + 1)
    <3>1. CASE \E m \in 1..Now.n : View(x) = Receives(m)
      <4>1. PICK m \in 1..Now.n : View(x) = Receives(m)
        BY <3>1
      <4>2. Len(sub[x][0].states) = m
        BY <4>1, ViewSays
      <4>3. m = Now.n
        BY <2>1, <2>4, <2>5, <4>1, <4>2
      <4>. QED  BY <1>1, <2>4, <2>5, <4>1, <4>3 DEF NextPos
    <3>. QED  BY <1>1, <2>4, <2>5, <3>1 DEF NextPos
  <2>6. CASE /\ Now.a = 1 /\ Now.n = 3
             /\ \E h \in {2, 3} :
                  /\ Views(Now.l, pc) = {Contends(h, 1), Contends(h, 2), Contends(h, 3)}
                  /\ Contends(h, 3) \in Views(Now.l, pc + 1)
    <3>1. PICK h \in {2, 3} : /\ View(x) \in {Contends(h, 1), Contends(h, 2), Contends(h, 3)}
                              /\ Contends(h, 3) \in Views(l, pc + 1)
      BY <1>1, <2>6
    <3>2. View(x) # Contends(h, 1) /\ View(x) # Contends(h, 2)
      <4>1. ~(Len(sub[x][1].states) < 3)
        BY <2>1, <2>6
      <4>. DEFINE k == Len(sub[x][1].states)
      <4>a. ~(k < 3)
        BY <4>1
      <4>. HIDE DEF k
      <4>b. k # 1
        BY <4>a
      <4>c. k # 2
        BY <4>a
      <4>2. Len(sub[x][1].states) # 1 /\ Len(sub[x][1].states) # 2
        BY <4>b, <4>c DEF k
      <4>3. View(x)[5] # 1 /\ View(x)[5] # 2
        BY <4>2 DEF View
      <4>4. Contends(h, 1)[5] = 1 /\ Contends(h, 2)[5] = 2
        BY DEF Contends
      <4>. QED  BY <4>3, <4>4
    <3>. QED  BY <2>4, <3>1, <3>2 DEF NextPos
  <2>. QED  BY <2>4, <2>5, <2>6
<1>5. CASE Now.op = "finalizeA"
  <2>1. sub[x][Now.a].status # "RECEIVING"
    BY <1>1, <1>5 DEF Needed, Sub
  <2>2. LeadsAt(script, pc, Now)
    BY <1>1, <1>5 DEF Placed
  <2>3. PICK n \in {2, 3} : View(x) = Receives(n)
    BY <1>1, <2>2, ViewsAtLead
  <2>. QED  BY <2>1, <2>2, <2>3, ViewSays DEF LeadsAt
<1>6. CASE Now.op = "finalizeM1"
  <2>1. sub[x][Now.a].status = "PENDING"
    BY <1>1, <1>6 DEF Needed, Sub
  <2>2. FinishesAt(script, pc, Now)
    BY <1>1, <1>6 DEF Placed
  <2>3. /\ pc < Len(StepsOf[script]) /\ Views(Now.l, pc) = {Receives(3), Leads(3), Paid0(3)}
        /\ Views(Now.l, pc + 1) = {Leads(3), Paid0(3)}
    BY <1>1, <2>2, ViewsAtFinish
  <2>4. View(x) # Receives(3)
    BY <2>1, <2>2, ViewSays DEF FinishesAt
  <2>. QED  BY <1>1, <2>3, <2>4 DEF NextPos
<1>7. CASE Now.op = "finalizeB"
  <2>1. sub[x][Now.a].status # "RECEIVING"
    BY <1>1, <1>7 DEF Needed, Sub
  <2>2. ResolvesAt(script, pc, Now)
    BY <1>1, <1>7 DEF Placed
  <2>3. View(x) = Contends(2, 3) \/ View(x) = Contends(3, 3)
    <3>1. /\ pc < Len(StepsOf[script]) /\ script = "matrix"
          /\ \/ pc = 25 /\ Views(Now.l, pc) = {Contends(2, 3)} /\ Overtaken \in Views(Now.l, pc + 1)
             \/ pc = 37 /\ Views(Now.l, pc) = {Contends(3, 3)} /\ Stands \in Views(Now.l, pc + 1)
      BY <1>1, <2>2, ViewsAtResolve
    <3>. QED  BY <1>1, <3>1
  <2>4. Now.a = 1
    BY <2>2 DEF ResolvesAt
  <2>5. sub[x][1].status = "RECEIVING"
    BY <2>3 DEF View, Contends
  <2>. QED  BY <2>1, <2>4, <2>5
<1>8. CASE Now.op = "settle"
  <2>1. sub[x][Now.a].status # "PENDING"
    BY <1>1, <1>8 DEF Needed, Sub
  <2>2. SettlesAt(script, pc, Now)
    BY <1>1, <1>8 DEF Placed
  <2>3. sub[x][0].status # "PENDING"
    BY <2>1, <2>2 DEF SettlesAt
  <2>4. \/ Views(Now.l, pc) = {Stands}
        \/ \E n \in {2, 3} : /\ Views(Now.l, pc) \subseteq {Leads(n), Paid0(n)}
                             /\ Paid0(n) \in Views(Now.l, NextPos(script, pc))
    BY <1>1, <2>2, ViewsAtSettle
  <2>5. View(x) # Stands
    BY <2>3, ViewSays
  <2>6. PICK n \in {2, 3} : /\ View(x) \in {Leads(n), Paid0(n)}
                            /\ Paid0(n) \in Views(l, NextPos(script, pc))
    BY <1>1, <2>4, <2>5
  <2>7. View(x) # Leads(n)
    BY <2>3, ViewSays
  <2>. QED  BY <2>6, <2>7
<1>. QED  BY <1>2, <1>3, <1>4, <1>5, <1>6, <1>7, <1>8 DEF Moves

\* A step that changes no coin and does not move the run.
LEMMA StayRows ==
  ASSUME Rows, Chains, UNCHANGED <<registry, sub, script>>, Pos' = Pos, Round' = Round
  PROVE  Rows' /\ Chains'
<1>. PICK q : q = Pos
  OBVIOUS
<1>1. Pos' = q
  OBVIOUS
<1>2. \A l \in Uses[script] : View(At(l)) \in Views(l, q)
  BY DEF Rows
<1>. QED  BY <1>1, <1>2, QuietRows

\* A step that goes on without changing a coin.
LEMMA OnwardsRows ==
  ASSUME ScriptTypes, Rows, Chains, ~Down, Proceeds, UNCHANGED <<script, run, registry, sub>>,
         Now.op \notin Moves \/ Now.tag # "none" \/ ~Wanted
  PROVE  Rows' /\ Chains'
<1>1. /\ script \in DOMAIN StepsOf /\ pc \in Positions(script)
      /\ Now = StepsOf[script][pc] /\ Pos = pc
  BY Basics DEF Pos
<1>2. PICK q : q = NextPos(script, pc)
  OBVIOUS
<1>3. Pos' = q /\ Round' = Round
  BY <1>2, OnwardsTo
<1>4. ASSUME NEW l \in Uses[script] PROVE View(At(l)) \in Views(l, q)
  <2>1. View(At(l)) \in Views(l, pc)
    BY <1>1, <1>4 DEF Rows
  <2>2. CASE Now.l # l \/ Now.op \notin Moves \/ Now.tag # "none"
    BY <1>1, <1>2, <2>1, <2>2, ViewsKept
  <2>3. CASE Now.l = l /\ Now.op \in Moves /\ Now.tag = "none"
    <3>1. ~Now.always /\ ~Needed(Now)
      BY <2>3 DEF Wanted
    <3>2. PICK x : x = At(Now.l)
      OBVIOUS
    <3>3. View(x) \in Views(l, NextPos(script, pc))
      BY <2>3, <3>1, <3>2, SkipView
    <3>. QED  BY <1>2, <2>3, <3>2, <3>3
  <2>. QED  BY <2>2, <2>3
<1>. QED  BY <1>3, <1>4, QuietRows

\* The coin of a move that lands is where the step after it expects it.
LEMMA MoveLands ==
  ASSUME Sending, Now.op \in Moves, NEW l, l = Now.l, NEW x, x = At(Now.l), Exec(TxOf(Now)),
         NEW q, q = IF Now.op = "append" /\ ~Now.always THEN pc ELSE NextPos(script, pc)
  PROVE  Lands(l, x, q)
<1>. PICK a : a = Now.a
  OBVIOUS
<1>1. CASE Now.op = "mint"
  BY <1>1, MintLands
<1>2. CASE Now.op = "start"
  BY <1>2, StartLands
<1>3. CASE Now.op = "append"
  BY <1>3, AppendLands
<1>4. CASE Now.op = "finalizeA"
  BY <1>4, LeadLands
<1>5. CASE Now.op = "finalizeM1"
  BY <1>5, FinishLands
<1>6. CASE Now.op = "finalizeB"
  BY <1>6, ResolveLands
<1>7. CASE Now.op = "settle"
  BY <1>7, SettleLands
<1>. QED  BY <1>1, <1>2, <1>3, <1>4, <1>5, <1>6, <1>7 DEF Moves

\* What a script sends moves a coin, raises a cap, funds the vault or checks a
\* commitment.
LEMMA SendsMoves == Sends = Moves \cup {"cap", "fund", "verify"}
BY DEF Sends, Moves

\* The run is at the next step, or appends once more.
Passes ==
  /\ phase' \in {"at", "again", "done"}
  /\ pc' = IF Now.op = "append" /\ ~Now.always THEN pc ELSE NextPos(script, pc)

\* Landing, seen from all coins of the script.
LEMMA LandRows ==
  ASSUME Sending, Now.op \in Sends, Exec(TxOf(Now)), UNCHANGED <<script, run>>, Passes
  PROVE  Rows' /\ Chains'
<1>0. Configured /\ ScriptTypes /\ ProgInv /\ Rows /\ Chains /\ ~Down /\ Wanted /\ TypeOK
  BY DEF Sending, ProgInv
<1>1. /\ script \in DOMAIN StepsOf /\ pc \in Positions(script)
      /\ Now = StepsOf[script][pc] /\ Pos = pc
  BY <1>0, Basics DEF Pos
<1>. DEFINE again == Now.op = "append" /\ ~Now.always
<1>2. PICK q : q = IF again THEN pc ELSE NextPos(script, pc)
  OBVIOUS
<1>3. Pos' = q /\ Round' = Round
  BY <1>0, <1>1, <1>2 DEF Pos, Round, Down, Passes
<1>4. Sent(TxOf(Now)) /\ TxOf(Now).sn = At(Now.l) /\ TxOf(Now).op = Now.op
  BY <1>0, SentNow, TxFields
<1>5. ASSUME NEW l \in Uses[script], NEW x, x = At(l) PROVE Lands(l, x, q)
  <2>1. CASE Now.l = l /\ Now.op \in Moves
    BY <1>2, <1>5, <2>1, MoveLands
  <2>2. CASE ~(Now.l = l /\ Now.op \in Moves)
    <3>1. l \in Labels
      BY <1>1, <1>5, UsesLabels
    <3>2. x \in Serials /\ x[1] = l
      BY <1>0, <1>5, <3>1, CoinOf
    <3>3. x # TxOf(Now).sn \/ TxOf(Now).op \in {"cap", "fund", "verify"}
      <4>1. CASE Now.op \in Moves
        <5>1. At(Now.l)[1] = Now.l
          BY <1>0, <4>1, NowCoin
        <5>. QED  BY <1>4, <2>2, <3>2, <4>1, <5>1
      <4>. QED  BY <1>4, <4>1, SendsMoves
    <3>4. Kept(x)
      BY <1>0, <1>4, <3>2, <3>3, ExecKeeps
    <3>5. View(x)' = View(x)
      BY <3>4 DEF View, Kept
    <3>6. \A a \in Attempts : HoldsChain(l, x, a)
      BY <1>0, <1>5 DEF Chains
    <3>7. \A a \in Attempts : HoldsChain(l, x, a)'
      BY <3>4, <3>6, ChainKept DEF Kept
    <3>8. View(x) \in Views(l, pc)
      BY <1>0, <1>1, <1>5 DEF Rows
    <3>9. View(x) \in Views(l, q)
      <4>1. CASE again
        BY <1>2, <3>8, <4>1
      <4>2. CASE ~again
        <5>1. Views(l, pc) \subseteq Views(l, NextPos(script, pc))
          BY <1>1, <1>5, <2>2, ViewsKept
        <5>. QED  BY <1>2, <3>8, <4>2, <5>1
      <4>. QED  BY <4>1, <4>2
    <3>. QED  BY <3>5, <3>7, <3>9 DEF Lands
  <2>. QED  BY <2>1, <2>2
<1>. QED  BY <1>3, <1>5, RowsFrom

\* The coins of the runs to come.
LEMMA LaterKept ==
  ASSUME Later, Round' = Round,
         \A l \in Labels \ Fixed, r \in (Round + 1)..(MaxRuns + 1) : \A x :
           x = <<l, r>> => View(x)' = View(x)
  PROVE  Later'
BY DEF Later, View

\* The coins of later runs stay unminted when no coin changes.
LEMMA LaterStays ==
  ASSUME Later, Round' = Round, UNCHANGED <<registry, sub>>
  PROVE  Later'
BY LaterKept, CoinsStay

\* A transaction of this run leaves the coins of later runs alone.
LEMMA LandLater ==
  ASSUME Sending, Later, Now.op \in Sends, Exec(TxOf(Now)), Round' = Round
  PROVE  Later'
<1>0. ScriptTypes /\ ProgInv /\ Rows /\ ~Down /\ Wanted /\ TypeOK
  BY DEF Sending, ProgInv
<1>1. Sent(TxOf(Now)) /\ TxOf(Now).sn = At(Now.l) /\ TxOf(Now).op = Now.op
  BY <1>0, SentNow, TxFields
<1>2. Round \in Nat /\ MaxRuns \in Nat
  BY <1>0, Basics
<1>3. ASSUME NEW l \in Labels \ Fixed, NEW r \in (Round + 1)..(MaxRuns + 1), NEW x, x = <<l, r>>
      PROVE  View(x)' = View(x)
  <2>1. x # At(Now.l)
    <3>1. At(Now.l)[2] = 0 \/ At(Now.l)[2] = Round
      BY DEF At, Coin
    <3>2. x[2] = r /\ r # 0 /\ r # Round
      BY <1>2, <1>3
    <3>. QED  BY <3>1, <3>2
  <2>2. x \in Labels \X (0..MaxRuns + 1)
    BY <1>2, <1>3
  <2>3. x \in Serials
    BY <2>2, SerialsAssumption
  <2>4. Kept(x)
    BY <1>0, <1>1, <2>1, <2>3, ExecKeeps
  <2>. QED  BY <2>4 DEF View, Kept
<1>. QED  BY <1>3, LaterKept

\* A run ends early: the next one finds the coins with a fixed serial as they
\* are, and its own coins not minted.
LEMMA EarlyRows ==
  ASSUME ScriptTypes, Rows, Chains, Later, ~Down, Down',
         UNCHANGED <<script, run, registry, sub>>, run <= MaxRuns \/ script = "smoke"
  PROVE  Rows' /\ Chains' /\ Later'
<1>1. /\ script \in DOMAIN StepsOf /\ run \in Nat /\ MaxRuns \in Nat
      /\ Pos \in Nat \ {0} /\ Round = run
  BY Basics DEF Round
<1>2. Pos' = 1 /\ Round' = run + 1
  BY DEF Pos, Round
<1>3. ASSUME NEW l \in Uses[script]
      PROVE  View(At(l))' \in Views(l, 1) /\ \A a \in Attempts : HoldsChain(l, At(l), a)'
  <2>0. l \in Labels
    BY <1>1, <1>3, UsesLabels
  <2>1. CASE l \in Fixed
    <3>1. PICK x : x = At(l)
      OBVIOUS
    <3>2. At(l)' = x
      BY <2>1, <3>1 DEF At, Coin
    <3>3. View(x) \in Views(l, Pos) /\ \A a \in Attempts : HoldsChain(l, x, a)
      BY <1>3, <3>1 DEF Rows, Chains
    <3>4. View(x)' \in Views(l, 1) /\ \A a \in Attempts : HoldsChain(l, x, a)'
      BY <1>1, <2>1, <3>3, ViewsGoBack, CoinsStay
    <3>5. View(At(l))' = View(x)'
      BY <3>2 DEF View
    <3>6. ASSUME NEW a \in Attempts PROVE HoldsChain(l, At(l), a)'
      <4>1. HoldsChain(l, x, a)'
        BY <3>4
      <4>. QED  BY <3>2, <4>1 DEF HoldsChain
    <3>. QED  BY <3>4, <3>5, <3>6
  <2>2. CASE l \notin Fixed
    <3>1. PICK x : x = <<l, run + 1>>
      OBVIOUS
    <3>2. At(l)' = x
      BY <1>2, <2>2, <3>1 DEF At, Coin
    <3>3. script # "smoke"
      BY <1>3, <2>2 DEF Uses, Fixed
    <3>4. run + 1 \in (Round + 1)..(MaxRuns + 1)
      BY <1>1, <3>3
    <3>5. View(x) = Unminted
      BY <2>0, <2>2, <3>1, <3>4 DEF Later
    <3>6. View(x)' = Unminted /\ Unminted \in Views(l, 1)
      BY <2>0, <3>5, CoinsStay, ViewsStart
    <3>7. View(At(l))' = View(x)'
      BY <3>2 DEF View
    <3>8. ASSUME NEW a \in Attempts PROVE HoldsChain(l, At(l), a)'
      <4>1. sub[x][0].status = "NONE" /\ sub[x][1].status = "NONE"
        BY <3>5, ViewSays
      <4>2. sub'[x][a].status = "NONE"
        BY <4>1 DEF Attempts
      <4>. QED  BY <3>2, <4>2 DEF HoldsChain
    <3>. QED  BY <3>6, <3>7, <3>8
  <2>. QED  BY <2>1, <2>2
<1>4. Rows' /\ Chains'
  BY <1>2, <1>3 DEF Rows, Chains
<1>5. Later'
  <2>1. ASSUME NEW l \in Labels \ Fixed, NEW r \in (run + 2)..(MaxRuns + 1)
        PROVE  View(<<l, r>>)' = Unminted
    <3>1. r \in (Round + 1)..(MaxRuns + 1)
      BY <1>1
    <3>2. View(<<l, r>>) = Unminted
      BY <3>1 DEF Later
    <3>. QED  BY <3>2 DEF View
  <2>2. Round' + 1 = run + 2
    BY <1>1, <1>2
  <2>. QED  BY <2>1, <2>2 DEF Later
<1>. QED  BY <1>4, <1>5

\* A run that starts again finds its coins as its first step expects them.
LEMMA RerunRows ==
  ASSUME ScriptTypes, Rows, Chains, Later, Rerun
  PROVE  Rows' /\ Chains' /\ Later' /\ Pos' = 1 /\ Pos = 1 /\ Round' = Round
<1>1. Pos' = Pos /\ Round' = Round /\ Pos = 1
  BY DEF Rerun, Down, Pos, Round
<1>2. UNCHANGED <<registry, sub, script>>
  BY DEF Rerun, vars
<1>. QED  BY <1>1, <1>2, StayRows, LaterStays

-----------------------------------------------------------------------------
(* The transactions of dead runs. *)

LateOne(t) ==
  /\ Sent(t) /\ t.op \in Moves /\ t.sn \in {"pq"} \X (1..Round - 1)
  /\ t.op = "start" => t.w = Recipient

\* A late transaction that is gone is one less.
LEMMA LateFewer ==
  ASSUME ScriptTypes, LateOnes, NEW t \in late, late' = late \ {t}, UNCHANGED script, Round' = Round
  PROVE  LateOnes' /\ Cardinality(late') = Cardinality(late) - 1 /\ Cardinality(late) \in Nat
<1>1. /\ IsFiniteSet(late') /\ Cardinality(late') = Cardinality(late) - 1
      /\ Cardinality(late) \in Nat /\ Round \in Nat
  BY Basics, FS_RemoveElement, FS_CardinalityType DEF LateOnes
<1>. QED  BY <1>1 DEF LateOnes

\* What LateOnes says is about the late transactions only.
LEMMA LateSame ==
  ASSUME LateOnes, UNCHANGED <<late, script>>, Round' = Round
  PROVE  LateOnes'
BY DEF LateOnes

\* A run that dies may leave the transaction behind that it had in flight.
LEMMA LateMore ==
  ASSUME ScriptTypes, ProgInv, Rows, LateOnes, Flying, Configured, ~Down, Crash
  PROVE  LateOnes' /\ Cardinality(late) \in Nat /\ Cardinality(late') \in Nat
         /\ Cardinality(late') <= Cardinality(late) + 1
         /\ (script # "pq" => late' = late)
<1>1. /\ Round = run /\ run \in Nat /\ run >= 1 /\ IsFiniteSet(late)
      /\ Cardinality(late) \in Nat /\ Cardinality(late) < run
      /\ Round' = run + 1 /\ script' = script
  BY Basics, FS_CardinalityType DEF LateOnes, Crash, Round, Down
<1>2. \A t \in late : /\ Sent(t) /\ t.op \in Moves /\ t.sn \in {"pq"} \X (1..Round' - 1)
                      /\ t.op = "start" => t.w = Recipient
  BY <1>1 DEF LateOnes
<1>3. CASE late' = late
  BY <1>1, <1>2, <1>3 DEF LateOnes
<1>4. CASE late' # late
  <2>1. script \in Stray /\ phase = "flying" /\ tx.op # "verify" /\ late' = late \cup {tx}
    BY <1>4 DEF Crash
  <2>2. script = "pq" /\ "pq" \in Stray
    BY <2>1 DEF Configured
  <2>3. Now.op \in Sends /\ tx = TxOf(Now) /\ Wanted
    BY <2>1 DEF Flying
  <2>4. Sent(tx) /\ tx.sn = At(Now.l) /\ tx.op = Now.op /\ (tx.op = "start" => tx.w = Now.w)
    BY <2>3, SentNow, TxFields
  <2>5. Placed("pq", pc, Now)
    BY <2>2, Basics
  <2>6. Now.op \in Moves
    BY <2>1, <2>3, <2>4, <2>5, SendsMoves DEF Placed, CapsAt, FundsAt
  <2>7. Now.l = "pq"
    <3>1. "pq" \in DOMAIN StepsOf /\ Uses["pq"] = {"pq"}
      BY ScriptsAre DEF Uses
    <3>. QED  BY <2>5, <2>6, <3>1, MoveUses
  <2>8. tx.sn = <<"pq", run>>
    BY <1>1, <2>4, <2>7 DEF At, Coin, Fixed
  <2>9. tx.sn \in {"pq"} \X (1..Round' - 1)
    BY <1>1, <2>8
  <2>10. tx.op = "start" => tx.w = Recipient
    BY <2>4, <2>5 DEF Placed, StartsAt
  <2>11. IsFiniteSet(late') /\ Cardinality(late') <= Cardinality(late) + 1 /\ Cardinality(late') \in Nat
    <3>1. /\ IsFiniteSet(late')
          /\ Cardinality(late') = Cardinality(late) \/ Cardinality(late') = Cardinality(late) + 1
      BY <1>1, <2>1, FS_AddElement
    <3>2. Cardinality(late') \in Nat
      BY <3>1, FS_CardinalityType
    <3>. PICK m, k : m = Cardinality(late) /\ k = Cardinality(late')
      OBVIOUS
    <3>3. m \in Nat /\ k \in Nat /\ (k = m \/ k = m + 1)
      BY <1>1, <3>1, <3>2
    <3>. QED  BY <3>1, <3>3
  <2>12. Cardinality(late') < run + 1
    <3>. PICK m, k : m = Cardinality(late) /\ k = Cardinality(late')
      OBVIOUS
    <3>. QED  BY <1>1, <2>11
  <2>. QED  BY <1>1, <1>2, <2>1, <2>2, <2>4, <2>6, <2>9, <2>10, <2>11, <2>12 DEF LateOnes
<1>. QED  BY <1>3, <1>4

\* A transaction that lands late touches no coin that the run uses.
LEMMA LateRows ==
  ASSUME ScriptTypes, ProgInv, Rows, Chains, Later, LateOnes, Round <= MaxRuns + 1,
         NEW t \in late, Exec(t), UNCHANGED <<script, run, pc, phase>>
  PROVE  Rows' /\ Chains' /\ Later'
<1>0. /\ Round \in Nat /\ Round >= 1 /\ MaxRuns \in Nat /\ TypeOK /\ script = "pq"
      /\ Pos' = Pos /\ Round' = Round
  BY Basics DEF LateOnes, ProgInv, Pos, Round, Down
<1>1. Sent(t) /\ t.sn \in {"pq"} \X (1..Round - 1)
  BY DEF LateOnes
<1>2. ASSUME NEW r \in Round..(MaxRuns + 1), NEW l \in Labels, NEW x, x = <<l, r>>
      PROVE  Kept(x)
  <2>1. x \in Serials
    <3>1. x \in Labels \X (0..MaxRuns + 1)
      BY <1>0, <1>2
    <3>. QED  BY <3>1, SerialsAssumption
  <2>2. x # t.sn
    BY <1>0, <1>1, <1>2
  <2>. QED  BY <1>0, <1>1, <2>1, <2>2, ExecKeeps
<1>3. Later'
  <2>1. ASSUME NEW l \in Labels \ Fixed, NEW r \in (Round + 1)..(MaxRuns + 1), NEW x, x = <<l, r>>
        PROVE  View(x)' = View(x)
    <3>1. r \in Round..(MaxRuns + 1)
      BY <1>0
    <3>2. Kept(x)
      BY <1>2, <2>1, <3>1
    <3>. QED  BY <3>2 DEF View, Kept
  <2>. QED  BY <1>0, <2>1, LaterKept
<1>. PICK q : q = Pos
  OBVIOUS
<1>4. ASSUME NEW l \in Uses[script], NEW x, x = At(l) PROVE Lands(l, x, q)
  <2>1. l = "pq" /\ l \in Labels
    BY <1>0, <1>4 DEF Uses, Labels
  <2>2. x = <<l, Round>> /\ Round \in Round..(MaxRuns + 1)
    BY <1>0, <1>4, <2>1 DEF At, Coin, Fixed
  <2>3. Kept(x)
    BY <1>2, <2>1, <2>2
  <2>4. View(x)' = View(x)
    BY <2>3 DEF View, Kept
  <2>5. \A a \in Attempts : HoldsChain(l, x, a)
    BY <1>4 DEF Chains
  <2>6. \A a \in Attempts : HoldsChain(l, x, a)'
    BY <2>3, <2>5, ChainKept DEF Kept
  <2>. QED  BY <1>4, <2>4, <2>6 DEF Lands, Rows
<1>. QED  BY <1>0, <1>3, <1>4, RowsFrom
=============================================================================
