------------------------------- MODULE LTAGE -------------------------------
(***************************************************************************)
(* TAGE with a loop predictor beside it, branch/bp_candidates/ltage.cc:    *)
(* the loop predictor overrides TAGE once its confidence is at its         *)
(* largest.  TAGE is any component that answers some prediction.           *)
(***************************************************************************)
EXTENDS NestLoop

CONSTANT TagePredictions   \* what TAGE may answer

VARIABLES tagePred,    \* TAGE's answer to the last predict()
          output       \* LTAGE's

ltageVars == <<vars, tagePred, output>>

NoOpinion == [taken |-> TRUE, confidence |-> 0]

(* ltage.cc:6: the threshold is the largest confidence of the loop predictor. *)
loopThreshold == max_confidence

LTAGETypeOK == TypeOK /\ {tagePred, output} \subseteq Prediction \cup TagePredictions

LTAGEInit == Init /\ tagePred = NoOpinion /\ output = NoOpinion

Choice(loop, tage) == IF loop.confidence >= loopThreshold THEN loop ELSE tage

LTAGEPredict(pc) ==
  /\ Predict(pc)
  /\ tagePred' \in TagePredictions
  /\ output' = Choice(prediction', tagePred')

LTAGEUpdate(pc, taken) == Update(pc, taken) /\ UNCHANGED <<tagePred, output>>

LTAGEReset == Reset /\ UNCHANGED <<tagePred, output>>

LTAGENext == \/ \E pc \in PCs : LTAGEPredict(pc)
             \/ \E pc \in PCs, taken \in BOOLEAN : LTAGEUpdate(pc, taken)
             \/ LTAGEReset

LTAGESpec == LTAGEInit /\ [][LTAGENext]_ltageVars
-----------------------------------------------------------------------------
(* What the defect of the loop predictor (CountedIsDead) does to LTAGE,    *)
(* which is there to let a confident loop prediction go before TAGE's      *)
(* (ltage.cc:16): none is confident, and LTAGE answers what TAGE answers.  *)
LoopNeverOverrides == output = tagePred

LTAGEInv == IndInv /\ LoopNeverOverrides
=============================================================================
