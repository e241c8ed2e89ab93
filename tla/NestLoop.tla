------------------------------ MODULE NestLoop ------------------------------
(***************************************************************************)
(* The loop predictor, branch/bp_candidates/nestloop.cc: per branch, count *)
(* the iterations of a loop once, then predict its exit from the count.    *)
(* predict() and update() alternate on one branch, as the front end calls  *)
(* them (ooo_cpu.cc:109-128): pending is the branch predicted last.        *)
(***************************************************************************)
EXTENDS Integers, FiniteSetsExt

CONSTANTS PCs,             \* branch addresses, as numbers: the index is cut from them
          NoPC,            \* no branch is waiting for its outcome
          idx_len,         \* log2 of the number of sets
          num_entries,     \* 1 << idx_len sets
          tag_values,      \* values of an unsigned, 2^32
          max_count,       \* (1 << counter_len) - 1
          max_confidence,  \* 3 in the code
          max_age          \* largest uint8_t, 255 in the code

ASSUME ConstantsAssumption ==
  /\ PCs \subseteq Nat
  /\ NoPC \notin PCs
  /\ idx_len \in Nat
  /\ num_entries \in Nat \ {0}
  /\ num_entries = 2 ^ idx_len
  /\ tag_values \in Nat \ {0}
  /\ max_count \in Nat \ {0}
  /\ max_confidence \in Nat \ {0}
  /\ max_age \in Nat \ {0}

VARIABLES content,     \* the entries, assoc consecutive ones per set
          history,     \* meant to be the outcomes of recent branches
          prediction,  \* what predict() returned last
          pending

vars == <<content, history, prediction, pending>>

assoc == 4
Cells == 0 .. assoc * num_entries - 1

Prediction == [taken : BOOLEAN, confidence : 0 .. max_confidence]

Entry == [tag         : Nat,
          age         : 0 .. max_age,
          confidence  : 0 .. max_confidence,
          loop_counts : 0 .. max_count,
          cur_counts  : 0 .. max_count,
          last_pred   : BOOLEAN,
          count_ready : BOOLEAN]

TypeOK ==
  /\ content \in [Cells -> Entry]
  /\ history \in Nat
  /\ prediction \in Prediction
  /\ pending \in PCs \cup {NoPC}
-----------------------------------------------------------------------------
(* x ^ y on idx_len + 2 bits; x ^ 0 is x. *)
Bit(x, b) == (x \div 2 ^ b) % 2
Xor(x, y) ==
  IF y = 0 THEN x
  ELSE MapThenSumSet(LAMBDA b : IF Bit(x, b) = Bit(y, b) THEN 0 ELSE 2 ^ b,
                     0 .. idx_len + 1)

(* (pc & mask1) ^ (history & mask2), and pc >> (idx_len + 2) in an unsigned. *)
get_idx(pc, h) == Xor(4 * ((pc \div 4) % num_entries), h % num_entries)
get_tag(pc) == (pc \div (4 * num_entries)) % tag_values

(* Mutant: | for &, the history register as it was meant. *)
MutantShiftIn(taken) == ((2 * history) % num_entries) + (IF taken THEN 1 ELSE 0)

(* (history << 1) & taken: only bit 0 can survive the mask, and the shift  *)
(* has just cleared it.                                                    *)
NextHistory(taken) == IF taken THEN (2 * history) % 2 ELSE 0

Ways(pc, h) == get_idx(pc, h) .. get_idx(pc, h) + assoc - 1

(* Mutant: a dead entry is not found. *)
MutantAliveOnly(c, pc, h) ==
  {w \in Ways(pc, h) : c[w].tag = get_tag(pc) /\ c[w].age > 0}

(* lookup() asks for the tag only: an entry of age 0 is found too. *)
Matches(c, pc, h) == {w \in Ways(pc, h) : c[w].tag = get_tag(pc)}

EmptyEntry(tag, age) == [tag |-> tag, age |-> age, confidence |-> 0,
                         loop_counts |-> 0, cur_counts |-> 0,
                         last_pred |-> TRUE, count_ready |-> FALSE]

(* The entry add() makes, and the entry of an empty predictor. *)
FreshEntry(tag) == EmptyEntry(tag, max_age)
ZeroEntry == EmptyEntry(0, 0)

(* Mutant: off by one, no entry grows old enough to be replaced. *)
MutantNeverDies(c, pc, h) ==
  [w \in Cells |-> IF w \in Ways(pc, h) /\ c[w].age > 1
                   THEN [c[w] EXCEPT !.age = @ - 1] ELSE c[w]]

Decayed(c, pc, h) ==
  [w \in Cells |-> IF w \in Ways(pc, h) /\ c[w].age > 0
                   THEN [c[w] EXCEPT !.age = @ - 1] ELSE c[w]]

Init == /\ content = [w \in Cells |-> ZeroEntry]
        /\ history = 0
        /\ prediction = [taken |-> TRUE, confidence |-> 0]
        /\ pending = NoPC
-----------------------------------------------------------------------------
(* An entry predicts the exit of its loop while it is alive and counted.   *)
CanCount(e) == e.count_ready /\ e.age > 0

Exits(e) == CanCount(e) /\ e.cur_counts >= e.loop_counts

PredictedBy(e) ==
  [taken      |-> ~Exits(e),
   confidence |-> IF CanCount(e) THEN e.confidence ELSE 0]

AfterPredict(e) ==
  [e EXCEPT !.last_pred  = ~Exits(e),
            !.cur_counts = IF Exits(e) THEN 0
                           ELSE IF CanCount(e) /\ @ < max_count THEN @ + 1
                           ELSE @]

Predict(pc) ==
  /\ pending = NoPC
  /\ pending' = pc
  /\ \/ /\ Matches(content, pc, history) = {}
        /\ prediction' = [taken |-> TRUE, confidence |-> 0]
        /\ UNCHANGED content
     \/ /\ Matches(content, pc, history) # {}
        /\ LET w == Min(Matches(content, pc, history))
           IN  /\ prediction' = PredictedBy(content[w])
               /\ content' = [content EXCEPT ![w] = AfterPredict(@)]
  /\ UNCHANGED history

(* The training of the entry found or just added. *)
Trained(e, taken) ==
  LET right == taken = e.last_pred
      ready == e.count_ready \/ ~taken
  IN  [tag         |-> e.tag,
       age         |-> IF ready /\ ~right THEN 0
                       ELSE IF right /\ e.age > max_age THEN e.age + 1
                       ELSE e.age,
       confidence  |-> IF right /\ ~taken /\ e.confidence < max_confidence
                       THEN e.confidence + 1 ELSE e.confidence,
       loop_counts |-> IF ~e.count_ready /\ taken /\ e.loop_counts < max_count
                       THEN e.loop_counts + 1 ELSE e.loop_counts,
       cur_counts  |-> e.cur_counts,
       last_pred   |-> e.last_pred,
       count_ready |-> ready]

(* lookup, then the history shift, then add() on a miss: the first way of  *)
(* age 0 is replaced, and if there is none the whole set decays and the    *)
(* outcome is dropped.                                                     *)
Update(pc, taken) ==
  /\ pending = pc
  /\ pending' = NoPC
  /\ history' = NextHistory(taken)
  /\ LET dead == {w \in Ways(pc, history') : content[w].age = 0}
     IN  \/ /\ Matches(content, pc, history) # {}
            /\ content' = [content EXCEPT ![Min(Matches(content, pc, history))] =
                             Trained(@, taken)]
         \/ /\ Matches(content, pc, history) = {}
            /\ dead # {}
            /\ LET added == [content EXCEPT ![Min(dead)] = FreshEntry(get_tag(pc))]
               IN  content' = [added EXCEPT ![Min(Matches(added, pc, history'))] =
                                 Trained(@, taken)]
         \/ /\ Matches(content, pc, history) = {}
            /\ dead = {}
            /\ content' = Decayed(content, pc, history')
  /\ UNCHANGED prediction

(* reset() leaves history alone. *)
Reset == /\ pending = NoPC
         /\ content' = [w \in Cells |-> ZeroEntry]
         /\ UNCHANGED <<history, prediction, pending>>

Next == \/ \E pc \in PCs : Predict(pc)
        \/ \E pc \in PCs, taken \in BOOLEAN : Update(pc, taken)
        \/ Reset

Spec == Init /\ [][Next]_vars
-----------------------------------------------------------------------------
(* Every way that a branch can look at is inside content, which holds only *)
(* because the history that is xor-ed into the index stays 0: any other    *)
(* value would start a set off its boundary, and the last one past the end *)
(* of the array (nestloop.cc:50-57 and 140).                               *)
WaysInBounds == \A pc \in PCs : Ways(pc, history) \subseteq Cells

(* A branch trains one entry, though entries die, are found dead, and dead *)
(* ones are replaced in the order of the ways: within a set two ways share *)
(* a tag only if it is the tag 0 that reset() gives every entry            *)
(* (nestloop.cc:38-48, 63-88).                                             *)
OneEntryPerBranch ==
  \A pc \in PCs : get_tag(pc) # 0 =>
    \A v, w \in Ways(pc, history) :
      content[v].tag = get_tag(pc) /\ content[w].tag = get_tag(pc) => v = w

(* Why no loop is predicted (LoopExitIsPredicted of SteadyLoop fails): the *)
(* outcome that completes a count contradicts the prediction "taken" made  *)
(* before it, and update() answers a wrong prediction of a counted loop    *)
(* with age 0, which nothing but replacement raises again                  *)
(* (nestloop.cc:149-176).                                                  *)
CountedIsDead == \A w \in Cells : content[w].count_ready => content[w].age = 0

(* So, against the comment at nestloop.cc:117, no count is ever used, no   *)
(* exit is ever predicted, and no confidence is ever earned                *)
(* (nestloop.cc:108-135 and 151-155).                                      *)
NeverConfident ==
  /\ prediction = [taken |-> TRUE, confidence |-> 0]
  /\ \A w \in Cells : content[w].confidence = 0
-----------------------------------------------------------------------------
(* The inductive invariant. *)
IndInv ==
  /\ TypeOK
  /\ history = 0
  /\ NeverConfident
  /\ CountedIsDead
  /\ OneEntryPerBranch
  /\ \A w \in Cells : content[w].last_pred
=============================================================================
