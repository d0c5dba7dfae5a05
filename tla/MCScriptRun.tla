---------------------------- MODULE MCScriptRun ----------------------------
(***************************************************************************)
(* Instances of ScriptRun for TLC: the coins of the scripts.               *)
(***************************************************************************)
EXTENDS ScriptRun

MCSerials == Labels \X (0..MaxRuns + 1)
MCAmounts == 0..1000
\* Every part of a chain that a script builds.
Parts(c) == {SubSeq(c, i, j) : i \in 1..Len(c), j \in 1..Len(c)}
MCLinks ==
  UNION {Parts(BuildChain(sn, OwnersOf(sn[1], a))) : sn \in MCSerials, a \in Attempts}
MCFunds == [x \in Accounts |-> 0]
\* Where only the PQ run leaves transactions behind, the instance is one that the
\* theorems about the scripts speak of.
ASSUME MCConfigured == Stray \subseteq {"pq"} => Configured
=============================================================================
