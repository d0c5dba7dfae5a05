---------------------------- MODULE AccountReader ----------------------------
(***************************************************************************)
(* Reading the program's accounts (readers.ts): the fetch with its retries *)
(* and the parsers, which take every field at a fixed byte offset.         *)
(*                                                                         *)
(* An account is written by the program, which lays the fields of its      *)
(* struct out one behind the other (state.rs).  Its bytes are labels: byte *)
(* k of field f with the contents v is <<f, v, k>>.                        *)
(***************************************************************************)
EXTENDS Integers, Sequences, SequencesExt, TLC

CONSTANTS Kinds,       \* kinds of account that are read: config, registry, head,
                       \* allowance, submission, oldSubmission
          Contents,    \* contents of a field, told apart only
          MaxWrites,   \* fields changed by instructions after the first write
          MaxStored    \* states that are ever stored in a submission

VARIABLES kind,     \* the account that is read
          account,  \* its fields, or Absent
          writes,   \* instructions that changed it
          fetch,    \* Idle, or how often the node has refused
          view      \* what the last fetch gave: fields, "null" or "throws"

readerVars == <<kind, account, writes, fetch, view>>

Absent == <<>>
Idle == -1
Repeat(prefix, n, w) == [i \in 1..n |-> <<prefix, i, w>>]
Field(name, w) == <<name, 0, w>>

SubmissionFields ==
  <<Field("serial", 32), Field("attempt", 1), Field("checker", 32), Field("finalOwner", 32),
    Field("linksCount", 2), Field("startedSlot", 8), Field("finalizedSlot", 8),
    Field("status", 1), Field("statesLen", 2)>> \o Repeat("state", 4, 104)

\* The structs of state.rs behind the 8 bytes of the discriminator.  A submission
\* of before Track 1 has no signature commitments.
Struct ==
  [config |-> <<Field("mintAuthority", 32), Field("vaultMint", 32), Field("bondMultiplierBps", 4),
                Field("challengeWindowSlots", 8), Field("maxLinksPerTx", 2),
                Field("defaultAllowance", 8), Field("totalUnspentSupply", 8),
                Field("sigScheme", 1), Field("bump", 1)>>,
   registry |-> <<Field("serial", 32), Field("value", 8), Field("genesisStateHash", 32),
                  Field("mintSlot", 8), Field("mintTx", 64), Field("recipient", 32),
                  Field("status", 1), Field("submissionsCount", 1), Field("bump", 1)>>,
   head |-> <<Field("set", 1), Field("headState", 104), Field("headAttempt", 1),
              Field("headStatesLen", 2), Field("pendingSinceSlot", 8), Field("bump", 1)>>,
   allowance |-> <<Field("cap", 8), Field("committed", 8), Field("initialized", 1), Field("bump", 1)>>,
   submission |-> SubmissionFields \o Repeat("sigCommit", 4, 32) \o <<Field("bump", 1)>>,
   oldSubmission |-> SubmissionFields \o <<Field("bump", 1)>>]

Name(f) == <<f[1], f[2]>>
FieldsOf(k) == {Name(Struct[k][i]) : i \in DOMAIN Struct[k]}

\* The bytes of an account with the fields acc.
Bytes(k, acc) ==
  [i \in 1..8 |-> <<"disc", k, i>>] \o
  FlattenSeq([j \in DOMAIN Struct[k] |->
    [i \in 1..Struct[k][j][3] |-> <<Name(Struct[k][j]), acc[Name(Struct[k][j])], i>>]])

At(name, off, w) == <<<<name, 0>>, off, w>>

\* Where the parsers look: name, first byte, width.
Offsets ==
  [config |-> {At("mintAuthority", 8, 32), At("vaultMint", 40, 32), At("bondMultiplierBps", 72, 4),
               At("challengeWindowSlots", 76, 8), At("maxLinksPerTx", 84, 2),
               At("defaultAllowance", 86, 8), At("totalUnspentSupply", 94, 8),
               At("sigScheme", 102, 1), At("bump", 103, 1)},
   registry |-> {At("serial", 8, 32), At("value", 40, 8), At("genesisStateHash", 48, 32),
                 At("mintSlot", 80, 8), At("mintTx", 88, 64), At("recipient", 152, 32),
                 At("status", 184, 1), At("submissionsCount", 185, 1), At("bump", 186, 1)},
   head |-> {At("set", 8, 1), At("headState", 9, 104), At("headAttempt", 113, 1),
             At("headStatesLen", 114, 2), At("pendingSinceSlot", 116, 8), At("bump", 124, 1)},
   allowance |-> {At("cap", 8, 8), At("committed", 16, 8), At("initialized", 24, 1), At("bump", 25, 1)},
   submission |-> {At("serial", 8, 32), At("attempt", 40, 1), At("checker", 41, 32),
                   At("finalOwner", 73, 32), At("linksCount", 105, 2), At("startedSlot", 107, 8),
                   At("finalizedSlot", 115, 8), At("status", 123, 1), At("statesLen", 124, 2)}]

\* Mutant: the states are read from where statesLen begins.
MutSubmissionTail(n, length) ==
  {<<<<"state", i>>, 124 + (i - 1) * 104, 104>> : i \in 1..n}

\* parseSubmission: the number of states is read, the commitments and the bump
\* are counted from the end of the account, one commitment per whole or begun
\* 104 bytes in front of them, at most ten.
SubmissionTail(n, length) ==
  LET off == length - 128 - 1
      cnt == IF off < 126 THEN 0
             ELSE LET up == (off - 126 + 103) \div 104 IN IF up < 10 THEN up ELSE 10
  IN {<<<<"state", i>>, 126 + (i - 1) * 104, 104>> : i \in 1..n}
     \cup {<<<<"sigCommit", i>>, off + (i - 1) * 32, 32>> : i \in 1..cnt}
     \cup {At("bump", length - 1, 1)}

\* What the parser of a kind takes out of an account of that length.
Cuts(k, n, length) ==
  IF k \in {"submission", "oldSubmission"}
  THEN Offsets["submission"] \cup SubmissionTail(n, length)
  ELSE Offsets[k]

\* The parser of a kind on the bytes b; n is the value of its statesLen.
Parse(k, b, n) ==
  LET cuts == Cuts(k, n, Len(b)) IN
  [f \in {c[1] : c \in cuts} |->
     LET c == CHOOSE x \in cuts : x[1] = f IN SubSeq(b, c[2] + 1, c[2] + c[3])]
-----------------------------------------------------------------------------
Blank == CHOOSE v \in Contents : TRUE
NoView == [got |-> "nothing", fields |-> <<>>, from |-> Absent]
StatesLen(k, acc) == IF k \in {"submission", "oldSubmission"} THEN acc[<<"statesLen", 0>>] ELSE 0

ReaderInit ==
  /\ kind \in Kinds
  /\ account = Absent
  /\ writes = 0
  /\ fetch = Idle
  /\ view = NoView

\* The instruction that creates the account.
Create ==
  /\ account = Absent
  /\ account' = [f \in FieldsOf(kind) |-> IF f[1] = "statesLen" THEN 1 ELSE Blank]
  /\ UNCHANGED <<kind, writes, fetch, view>>

\* An instruction that changes a field.
Change ==
  /\ account # Absent
  /\ writes < MaxWrites
  /\ \E f \in FieldsOf(kind) :
       \E v \in (IF f[1] = "statesLen" THEN 1..MaxStored ELSE Contents) \ {account[f]} :
         account' = [account EXCEPT ![f] = v]
  /\ writes' = writes + 1
  /\ UNCHANGED <<kind, fetch, view>>

Ask ==
  /\ fetch = Idle
  /\ fetch' = 0
  /\ view' = NoView
  /\ UNCHANGED <<kind, account, writes>>

Asking == fetch # Idle
Done(got, fields) ==
  /\ fetch' = Idle
  /\ view' = [got |-> got, fields |-> fields, from |-> account]

\* The node refuses for the rate limit: five times that is retried.
Refuses ==
  /\ Asking
  /\ IF fetch < 5 THEN fetch' = fetch + 1 /\ UNCHANGED view
                  ELSE Done("throws", <<>>)
  /\ UNCHANGED <<kind, account, writes>>

Answer ==
  /\ Asking
  /\ IF account = Absent THEN Done("null", <<>>)
     ELSE Done("fields", Parse(kind, Bytes(kind, account), StatesLen(kind, account)))
  /\ UNCHANGED <<kind, account, writes>>

ReaderNext == Create \/ Change \/ Ask \/ Refuses \/ Answer

ReaderSpec == ReaderInit /\ [][ReaderNext]_readerVars
-----------------------------------------------------------------------------
\* Every byte a parser hands out belongs to the field it is handed out as, whole
\* and in the order the program wrote it: no field is shifted, cut or mixed with
\* its neighbour, for every number of states in a submission.
ReadsWhatIsWritten ==
  view.got = "fields" =>
    \A f \in DOMAIN view.fields :
      \E i \in DOMAIN Struct[kind] :
        /\ Name(Struct[kind][i]) = f
        /\ view.fields[f] = [k \in 1..Struct[kind][i][3] |-> <<f, view.from[f], k>>]

\* readers.ts:92, 110-111: an account of before Track 1 has no commitments to
\* read, so none are read.
NoCommitsOnOldAccounts ==
  view.got = "fields" /\ kind = "oldSubmission" =>
    \A f \in DOMAIN view.fields : f[1] # "sigCommit"
=============================================================================
