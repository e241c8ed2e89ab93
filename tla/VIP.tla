-------------------------------- MODULE VIP --------------------------------
(***************************************************************************)
(* The "very important PC" predictor, branch/bp_candidates/vip.cc: a       *)
(* default predictor for every branch, and a private predictor for each    *)
(* branch in the snapshot of the misprediction cache.  The predictors      *)
(* answer anything; of a private one the model keeps the queue of          *)
(* predictions that wait for their outcome (Pstate_queue, bp_candidates.h) *)
(* with the branch each was made for.  The front end calls predict() and   *)
(* update() in turn, on the same branch (ooo_cpu.cc:109-128).              *)
(***************************************************************************)
EXTENDS SLRUMCache

CONSTANTS snapInterval,  \* updates between two snapshots
          MinScore,      \* MIN_SCORE, -2
          MaxScore       \* MAX_SCORE, 1

ASSUME VIPAssumption ==
  /\ snapInterval \in Nat \ {0}
  /\ MinScore \in Int /\ MaxScore \in Int /\ MinScore <= 0 /\ 0 <= MaxScore

VARIABLES scoreboard,   \* slot -> score; negative prefers the private predictor
          waiting,      \* slot -> branches the private predictor has predicted
                        \* and not been told the outcome of, oldest first
          lastDefault,  \* the default prediction of the branch in flight
          lastPrivate,  \* the last private prediction
          currCount,    \* updates since the last snapshot
          pending       \* the branch in flight, or NoPC

cacheVars == <<protectedSeg, probationarySeg, savedState>>

vipVars == <<cacheVars, scoreboard, waiting, lastDefault, lastPrivate,
             currCount, pending>>

Scores == MinScore .. MaxScore

VIPTypeOK ==
  /\ TypeOK
  /\ scoreboard \in [Slots -> Scores]
  /\ waiting \in [Slots -> Seq(PCs)]
  /\ lastDefault \in BOOLEAN /\ lastPrivate \in BOOLEAN
  /\ currCount \in 0 .. snapInterval - 1
  /\ pending \in PCs \cup {NoPC}
-----------------------------------------------------------------------------
(* lastDefault and lastPrivate are not initialised; predict() writes them. *)
VIPInit ==
  /\ Init
  /\ scoreboard = [i \in Slots |-> 0]
  /\ waiting = [i \in Slots |-> <<>>]
  /\ lastDefault \in BOOLEAN /\ lastPrivate \in BOOLEAN
  /\ currCount = 0
  /\ pending = NoPC

(* The default predictor always predicts, the private one when pc has one. *)
(* Which of the two answers is returned, by the sign of the score          *)
(* (vip.cc:48), changes no state and is left out.                          *)
Predict(pc) ==
  LET i == get_idx(pc)
  IN  /\ pending = NoPC
      /\ pending' = pc
      /\ lastDefault' \in BOOLEAN
      /\ \/ /\ i = -1
            /\ UNCHANGED <<lastPrivate, waiting>>
         \/ /\ i # -1
            /\ lastPrivate' \in BOOLEAN
            /\ waiting' = [waiting EXCEPT ![i] = Append(@, pc)]
      /\ UNCHANGED <<cacheVars, scoreboard, currCount>>

(* Mutant: no lower bound. *)
MutantUnbounded(score, d, p, taken) ==
  IF d = p THEN score
  ELSE IF d = taken /\ score < MaxScore THEN score + 1 ELSE score - 1

(* updateScoreBoard(): a difference moves the score one step, up for the   *)
(* default predictor; at MaxScore the else branch takes it down instead.   *)
NewScore(score, d, p, taken) ==
  IF d = p THEN score
  ELSE IF d = taken /\ score < MaxScore THEN score + 1
  ELSE IF score > MinScore THEN score - 1
  ELSE score

(* Mutant: the private predictor is looked up in the snapshot of this step. *)
MutantLateIndex(pc, taken) ==
  LET found == {j \in Slots : savedState'[j] = pc}
  IN  IF found = {} THEN UNCHANGED <<scoreboard, waiting>>
      ELSE LET i == Min(found)
           IN  /\ waiting' = [waiting EXCEPT ![i] = IF @ = <<>> THEN @ ELSE Tail(@)]
               /\ scoreboard' = [scoreboard EXCEPT
                                   ![i] = NewScore(@, lastDefault, lastPrivate, taken)]

(* The private predictor pops the prediction it made first.                *)
TrainPrivate(pc, taken) ==
  LET i == get_idx(pc)
  IN  \/ /\ i = -1
         /\ UNCHANGED <<scoreboard, waiting>>
      \/ /\ i # -1
         /\ waiting' = [waiting EXCEPT ![i] = IF @ = <<>> THEN @ ELSE Tail(@)]
         /\ scoreboard' = [scoreboard EXCEPT
                             ![i] = NewScore(@, lastDefault, lastPrivate, taken)]

(* A branch the default predictor got wrong goes through the cache.        *)
CacheAccess(pc, taken) ==
  \/ /\ taken # lastDefault
     /\ Touch(pc)
  \/ /\ taken = lastDefault
     /\ UNCHANGED <<protectedSeg, probationarySeg>>

(* The cache is copied after every snapInterval-th update, at its end.     *)
CountAndSnapshot ==
  \/ /\ currCount + 1 = snapInterval
     /\ currCount' = 0
     /\ savedState' = get_all(protectedSeg')
  \/ /\ currCount + 1 # snapInterval
     /\ currCount' = currCount + 1
     /\ UNCHANGED savedState

Update(pc, taken) ==
  /\ pending = pc
  /\ pending' = NoPC
  /\ CacheAccess(pc, taken)
  /\ CountAndSnapshot
  /\ TrainPrivate(pc, taken)
  /\ UNCHANGED <<lastDefault, lastPrivate>>

(* reset() between branches. *)
VIPReset ==
  /\ pending = NoPC
  /\ Reset
  /\ scoreboard' = [i \in Slots |-> 0]
  /\ waiting' = [i \in Slots |-> <<>>]
  /\ currCount' = 0
  /\ UNCHANGED <<lastDefault, lastPrivate, pending>>

VIPNext == \/ \E pc \in PCs : Predict(pc)
           \/ \E pc \in PCs, taken \in BOOLEAN : Update(pc, taken)
           \/ VIPReset

VIPSpec == VIPInit /\ [][VIPNext]_vipVars
-----------------------------------------------------------------------------
(* The private predictor that predicted the branch in flight is the one    *)
(* that update() finds for it, and no other has a prediction waiting: the  *)
(* queue, which checks neither under- nor overflow, never does either, and *)
(* lastPrivate is never a stale answer of an earlier branch.  It holds as  *)
(* the index moves only in a snapshot, the last thing an update does       *)
(* (vip.cc:37-59 and 78-102).                                              *)
PredictionsArePaired ==
  \A i \in Slots :
    waiting[i] = IF pending # NoPC /\ get_idx(pending) = i THEN <<pending>> ELSE <<>>
=============================================================================
