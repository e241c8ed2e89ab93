---------------------------- MODULE DRAMProgress ----------------------------
(***************************************************************************)
(* The controller prefers open rows and serves writes in bursts, so later  *)
(* requests may overtake a read. While a load or a fetch waits for it, its *)
(* core retires nothing younger, and the requests it can still make are    *)
(* bounded. That holds of the demand reads of one core; reads that no core *)
(* waits for, and the requests of other cores, have no such bound.         *)
(***************************************************************************)
EXTENDS DRAMController

CONSTANT Window   \* requests that arrive while a read waits

ASSUME WindowAssumption == Window \in Nat \ {0}

VARIABLE behind   \* for each block, the requests that arrived since its read waits

progressVars == <<vars, behind>>

ProgressInit == Init /\ behind = [a \in Addresses |-> 0]

Waits(a) == miss[a] = "INFLIGHT"
WindowHasRoom == \A a \in Addresses : Waits(a) => behind[a] < Window

Arrive ==
  /\ WindowHasRoom /\ Client
  /\ behind' = [a \in Addresses |-> IF Waits(a) THEN behind[a] + 1 ELSE 0]

Operate ==
  /\ operate
  /\ behind' = [a \in Addresses |-> IF Waits(a)' THEN behind[a] ELSE 0]

ProgressNext == Arrive \/ Operate

ProgressSpec == ProgressInit /\ [][ProgressNext]_progressVars /\ WF_progressVars(Operate)

\* No read is overtaken for ever by row hits or by bursts of writes: every miss of the
\* last-level cache whose wait holds back its core returns.
ReadsReturn == \A a \in Addresses : Waits(a) ~> ~ Waits(a)
=============================================================================
