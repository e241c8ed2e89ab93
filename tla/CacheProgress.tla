---------------------------- MODULE CacheProgress ----------------------------
(***************************************************************************)
(* The private caches under a core that retires in order: while a read     *)
(* waits, the reorder buffer of O3_CPU does not retire past it, so the     *)
(* core issues a bounded number of operations behind it. With this bound   *)
(* the only fairness needed is that the simulation goes on: when some      *)
(* handler of some cache can do something, one of them eventually does.    *)
(***************************************************************************)
EXTENDS CacheHierarchy

CONSTANT ROBSize   \* operations that fit behind a waiting read

ASSUME ROBSizeAssumption == ROBSize \in Nat \ {0}

VARIABLE behind    \* for each reader, the operations issued since it waits

progressVars == <<vars, behind>>

ProgressInit == Init /\ behind = [r \in Readers |-> 0]

Waits(r) == waiting[r] # NoAddr
ROBHasRoom == \A r \in Readers : Waits(r) => behind[r] < ROBSize

Issue ==
  /\ ROBHasRoom /\ CoreStep
  /\ behind' = [r \in Readers |-> IF Waits(r) THEN behind[r] + 1 ELSE 0]

Operate ==
  /\ CacheStep
  /\ behind' = [r \in Readers |-> IF waiting'[r] = NoAddr THEN 0 ELSE behind[r]]

ProgressNext == Issue \/ Operate

ProgressSpec == ProgressInit /\ [][ProgressNext]_progressVars /\ WF_progressVars(Operate)

\* The deadlock check of main(), which aborts when the oldest instruction has not moved
\* for DEADLOCK_CYCLE cycles: every read the core sends to its caches is answered.
ReadsAreAnswered == \A r \in Readers : Waits(r) ~> ~ Waits(r)
=============================================================================
