----------------------------- MODULE SteadyLoop -----------------------------
(***************************************************************************)
(* LTAGE on a trace with an arbitrary part, in which branches fill and age *)
(* the sets of the loop predictor, and then one loop, whose branch is      *)
(* taken Iterations times, falls through once, and so on for ever.         *)
(***************************************************************************)
EXTENDS LTAGE

CONSTANTS Loop,        \* the branch of the loop
          Iterations   \* times it is taken before it falls through

ASSUME LoopAssumption == Loop \in PCs /\ Iterations \in 1 .. max_count

VARIABLE iteration   \* times taken since the last exit, NotYet before the loop

steadyVars == <<ltageVars, iteration>>

NotYet == -1

Looping == iteration # NotYet

SteadyInit == LTAGEInit /\ iteration = NotYet

ArbitraryPart == ~Looping /\ LTAGENext /\ UNCHANGED iteration

EnterLoop == /\ ~Looping /\ pending = NoPC
             /\ iteration' = 0
             /\ UNCHANGED ltageVars

(* The front end asks for a prediction of the loop's branch and answers it *)
(* with the outcome of the trace (ooo_cpu.cc:345-385).                     *)
RunLoop ==
  /\ Looping
  /\ \/ LTAGEPredict(Loop) /\ UNCHANGED iteration
     \/ /\ LTAGEUpdate(Loop, iteration < Iterations)
        /\ iteration' = (iteration + 1) % (Iterations + 1)

SteadyNext == ArbitraryPart \/ EnterLoop \/ RunLoop

(* Once in the loop, the trace goes on. *)
SteadySpec == SteadyInit /\ [][SteadyNext]_steadyVars /\ WF_steadyVars(RunLoop)
-----------------------------------------------------------------------------
(* A loop gets an entry and keeps it, even if others that are still alive  *)
(* fill its set: each update that finds no room makes them older, and      *)
(* nothing makes them younger (nestloop.cc:74-106 and 156).                *)
LoopGetsEntry == Looping ~> [](Matches(content, Loop, history) # {})

(* The loop is new to the predictor, and there is room for its entry, so   *)
(* that the iterations are counted from the first one.                     *)
NewLoop == /\ iteration = 0
           /\ Matches(content, Loop, history) = {}
           /\ \E w \in Ways(Loop, history) : content[w].age = 0

(* "If loop count is ready, we use it to predict when to exit the loop"    *)
(* (nestloop.cc:117-118): a new loop that always runs the same number of   *)
(* iterations, no more than the counter can hold, is counted and one of    *)
(* its exits is predicted.                                                 *)
LoopExitIsPredicted ==
  NewLoop ~> (pending = Loop /\ iteration = Iterations /\ ~prediction.taken)
=============================================================================
