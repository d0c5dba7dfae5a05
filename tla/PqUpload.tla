------------------------------ MODULE PqUpload ------------------------------
(***************************************************************************)
(* The two benchmark scripts of post-quantum verification (pq-benchmark.ts *)
(* and track2-cu-benchmark.ts) against pq_write_data and pq_benchmark.     *)
(* The key, the message and the signature are too large for a transaction: *)
(* they are written to a data account, which the script creates first,     *)
(* chunk by chunk, and verified there.  The first script sends without     *)
(* preflight and tries again after a refusal for the rate limit.  Neither  *)
(* looks at whether what it sent failed: not that the account was created, *)
(* nor that a chunk was written.                                           *)
(***************************************************************************)
EXTENDS Integers, FiniteSets

CONSTANTS Size,       \* length of the data, in cells
          ChunkSize,  \* what a script sends at once (1000 bytes)
          MaxChunk,   \* what the program accepts at once (1024 bytes)
          MaxRetries

VARIABLES script,   \* "bench" or "track2"
          acct,     \* "missing", "there", or "unpaid": the payer cannot pay for it
          data,     \* in the account: the cell of the data that is there, or Zero, Patch
          step,     \* "create", "fill", "measure", "patch", "again", "done" or "threw"
          off,      \* bytes sent
          net,      \* whether a transaction is in flight
          tries,    \* refusals so far
          late,     \* writes whose caller has given up waiting
          verdict   \* outcome of the measurement of the data and of the patched data

pqVars == <<script, acct, data, step, off, net, tries, late, verdict>>

\* The scripts' chunk of 1000 bytes is one the program's 1024 accept.
UploadSizes ==
  /\ Size \in Nat \ {0}
  /\ ChunkSize \in Nat \ {0}
  /\ MaxChunk \in Nat
  /\ ChunkSize <= MaxChunk

Cells == 0..Size-1
Zero == -1
Patch == -2
Full == [i \in Cells |-> i]

UploadInit ==
  /\ script \in {"bench", "track2"}
  /\ acct \in {"missing", "unpaid"}
  /\ data = [i \in Cells |-> Zero]
  /\ step = "create" /\ off = 0 /\ net = "none" /\ tries = 0
  /\ late = {}
  /\ verdict = [data |-> "none", patched |-> "none"]

Smaller(a, b) == IF a < b THEN a ELSE b

Write(at, cells) == [at |-> at, cells |-> cells]
Chunk == Write(off, [i \in 0..Smaller(ChunkSize, Size - off)-1 |-> off + i])
\* Two bytes of the end of the signature change places.
PatchEnd == Write(Size - 1, [i \in {0} |-> Patch])
\* Creating the account writes nothing into it.
Creation == Write(0, <<>>)
Pending == CASE step = "create" -> Creation [] step = "fill" -> Chunk [] OTHER -> PatchEnd

\* Mutant: a write up to the end of the account is refused.
MutFits(w) ==
  /\ Cardinality(DOMAIN w.cells) <= MaxChunk
  /\ w.at + Cardinality(DOMAIN w.cells) < Size
Fits(w) ==
  /\ Cardinality(DOMAIN w.cells) <= MaxChunk
  /\ w.at + Cardinality(DOMAIN w.cells) <= Size

\* pq_write_data.
Written(w) ==
  IF Fits(w) THEN [i \in Cells |-> IF i - w.at \in DOMAIN w.cells THEN w.cells[i - w.at] ELSE data[i]]
  ELSE data

\* A transaction is executed or fails: an account is made once and by a payer that
\* can, and nothing is written to one that is not there.
Executed(w) ==
  /\ acct' = IF w = Creation /\ acct = "missing" THEN "there" ELSE acct
  /\ data' = IF acct = "there" THEN Written(w) ELSE data

\* track2-cu-benchmark sends with preflight.
Preflight == script = "track2" => IF step = "create" THEN acct = "missing" ELSE acct = "there"

Send ==
  /\ step \in {"create", "fill", "patch"} /\ net = "none"
  /\ IF Preflight THEN net' = "flying" /\ UNCHANGED step
                  ELSE step' = "threw" /\ UNCHANGED net
  /\ UNCHANGED <<script, acct, data, off, tries, late, verdict>>

Land ==
  /\ net = "flying"
  /\ Executed(Pending)
  /\ net' = "landed"
  /\ UNCHANGED <<script, step, off, tries, late, verdict>>

\* The step after the one that is confirmed, with so much sent.
After(sent) ==
  CASE step = "create" -> "fill"
    [] step = "fill" -> IF sent >= Size THEN "measure" ELSE "fill"
    [] OTHER -> "again"

Confirm ==
  LET sent == IF step = "fill" THEN off + Cardinality(DOMAIN Chunk.cells) ELSE off IN
  /\ net = "landed"
  /\ net' = "none" /\ tries' = 0
  /\ off' = sent /\ step' = After(sent)
  /\ UNCHANGED <<script, acct, data, late, verdict>>

\* Only pq-benchmark tries again, whatever became of the transaction before.
RateLimited ==
  /\ net \in {"flying", "landed"}
  /\ late' = IF net = "flying" THEN late \cup {Pending} ELSE late
  /\ net' = "none" /\ tries' = tries + 1
  /\ step' = IF script = "bench" /\ tries < MaxRetries THEN step ELSE "threw"
  /\ UNCHANGED <<script, acct, data, off, verdict>>

LateLand ==
  /\ \E w \in late : Executed(w) /\ late' = late \ {w}
  /\ UNCHANGED <<script, step, off, net, tries, verdict>>

LateLost ==
  /\ \E w \in late : late' = late \ {w}
  /\ UNCHANGED <<script, acct, data, step, off, net, tries, verdict>>

\* pq_benchmark: nothing there to read, out of compute units, or the signature
\* verifies or not.
Outcomes ==
  IF acct = "there" THEN {IF data = Full THEN "ok" ELSE "bad", "over"} ELSE {"empty"}

Measure ==
  /\ step = "measure"
  /\ \E o \in Outcomes : verdict' = [verdict EXCEPT !.data = o]
  /\ step' = IF script = "track2" THEN "patch" ELSE "done"
  /\ UNCHANGED <<script, acct, data, off, net, tries, late>>

MeasureAgain ==
  /\ step = "again"
  /\ \E o \in Outcomes : verdict' = [verdict EXCEPT !.patched = o]
  /\ step' = "done"
  /\ UNCHANGED <<script, acct, data, off, net, tries, late>>

UploadNext ==
  \/ Send \/ Land \/ Confirm \/ RateLimited \/ LateLand \/ LateLost
  \/ Measure \/ MeasureAgain

UploadSpec == UploadInit /\ [][UploadNext]_pqVars
-----------------------------------------------------------------------------
\* What is measured is what was meant: the data is complete when it is verified,
\* although no result of the creation or of a write is looked at and both repeat and
\* land late; the patched signature is never taken for a good one; and an account
\* is found empty only because it could not be paid for.
MeasuresWhatItSays ==
  /\ verdict.data # "bad" /\ verdict.patched # "ok"
  /\ "empty" \in {verdict.data, verdict.patched} => acct = "unpaid"
=============================================================================
