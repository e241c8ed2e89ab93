--------------------------- MODULE NestLoopProofs ---------------------------
(***************************************************************************)
(* The loop predictor for every geometry: its index never leaves the array *)
(* and a branch trains one entry; but no count it completes is ever used,  *)
(* against nestloop.cc:117, and LTAGE therefore answers what TAGE answers. *)
(***************************************************************************)
EXTENDS LTAGE, WellFoundedInduction, TLAPS

(* Min returns a member of a non-empty set of cells. *)
LEMMA MinOfCells ==
  ASSUME NEW S \in SUBSET Nat, S # {}
  PROVE  Min(S) \in S
<1> DEFINE R == OpToRel(<, Nat)
<1>1. PICK x \in S : \A y \in S : <<y, x>> \notin R
  BY NatLessThanWellFounded, WFMin
<1>2. \A y \in S : ~(y < x)
  BY <1>1 DEF OpToRel
<1>3. \A y \in S : x <= y
  BY <1>2
<1> QED
  BY <1>3 DEF Min

(* The sets of the predictor are aligned blocks of four cells. *)
LEMMA SetsAreAligned ==
  ASSUME NEW pc \in PCs
  PROVE  \E s \in 0 .. num_entries - 1 :
           Ways(pc, 0) = 4 * s .. 4 * s + 3
<1> DEFINE s == (pc \div 4) % num_entries
<1>1. pc \in Nat /\ pc \div 4 \in Nat /\ num_entries \in Nat \ {0}
  BY ConstantsAssumption
<1>2. s \in 0 .. num_entries - 1
  BY <1>1
<1>3. 0 % num_entries = 0
  BY <1>1
<1>4. get_idx(pc, 0) = 4 * s
  BY <1>3 DEF get_idx, Xor
<1>5. Ways(pc, 0) = 4 * s .. 4 * s + 3
  BY <1>2, <1>4 DEF Ways, assoc
<1> QED
  BY <1>2, <1>5

(* With the history at 0 every way is a cell. *)
LEMMA WaysAreCells ==
  ASSUME NEW pc \in PCs
  PROVE  Ways(pc, 0) \subseteq Cells
BY SetsAreAligned, ConstantsAssumption DEF Cells, assoc

(* Two sets that share a cell are the same set. *)
LEMMA SharedWay ==
  ASSUME NEW p \in PCs, NEW q \in PCs, Ways(p, 0) \cap Ways(q, 0) # {}
  PROVE  Ways(p, 0) = Ways(q, 0)
<1>1. PICK s \in 0 .. num_entries - 1 : Ways(p, 0) = 4 * s .. 4 * s + 3
  BY SetsAreAligned
<1>2. PICK t \in 0 .. num_entries - 1 : Ways(q, 0) = 4 * t .. 4 * t + 3
  BY SetsAreAligned
<1>3. PICK w : w \in Ways(p, 0) /\ w \in Ways(q, 0)
  OBVIOUS
<1>4. s = t
  BY <1>1, <1>2, <1>3, ConstantsAssumption
<1> QED
  BY <1>1, <1>2, <1>4

LEMMA TagsAreNat ==
  ASSUME NEW pc \in PCs
  PROVE  get_tag(pc) \in Nat
<1>1. pc \in Nat /\ 4 * num_entries \in Nat \ {0} /\ tag_values \in Nat \ {0}
  BY ConstantsAssumption
<1>2. pc \div (4 * num_entries) \in Nat
  BY <1>1
<1> QED
  BY <1>1, <1>2 DEF get_tag

(* What every entry keeps: the parts of the invariant that speak of one.   *)
Dull(e) ==
  /\ e \in Entry
  /\ e.confidence = 0
  /\ e.last_pred
  /\ e.count_ready => e.age = 0

(* A dull entry predicts "taken" without confidence, and stays dull.       *)
LEMMA DullPredicts ==
  ASSUME NEW e, Dull(e)
  PROVE  /\ PredictedBy(e) = [taken |-> TRUE, confidence |-> 0]
         /\ Dull(AfterPredict(e))
         /\ AfterPredict(e).tag = e.tag
<1>1. ~CanCount(e)
  BY DEF Dull, CanCount, Entry
<1>2. ~Exits(e)
  BY <1>1 DEF Exits
<1>3. AfterPredict(e) = [e EXCEPT !.last_pred = TRUE, !.cur_counts = @]
  BY <1>1, <1>2 DEF AfterPredict
<1>4. AfterPredict(e) = e
  BY <1>3 DEF Dull, Entry
<1> QED
  BY <1>1, <1>2, <1>4 DEF PredictedBy

(* Training keeps a dull entry dull: the outcome that makes its count      *)
(* ready is "not taken", which the prediction was not.                     *)
LEMMA DullTrained ==
  ASSUME NEW e, Dull(e), NEW taken \in BOOLEAN
  PROVE  /\ Dull(Trained(e, taken))
         /\ Trained(e, taken).tag = e.tag
<1> DEFINE t == Trained(e, taken)
<1>0. /\ e \in Entry /\ e.confidence = 0 /\ e.last_pred = TRUE
      /\ e.age \in 0 .. max_age /\ max_age \in Nat \ {0}
      /\ max_count \in Nat \ {0} /\ max_confidence \in Nat \ {0}
  BY ConstantsAssumption DEF Dull, Entry
<1>1. t.confidence = 0 /\ t.last_pred = TRUE /\ t.tag = e.tag
  BY <1>0 DEF Trained, Entry
<1>2. t.count_ready = (e.count_ready \/ ~taken)
  BY <1>0 DEF Trained, Entry
<1>3. t.age = IF (e.count_ready \/ ~taken) /\ ~taken THEN 0 ELSE e.age
  BY <1>0 DEF Trained, Entry
<1>4. t \in Entry
  <2>1. t.loop_counts \in 0 .. max_count /\ t.cur_counts \in 0 .. max_count
    BY <1>0 DEF Trained, Entry
  <2>2. t.age \in 0 .. max_age /\ t.count_ready \in BOOLEAN
    BY <1>0, <1>2, <1>3 DEF Entry
  <2>3. t.confidence \in 0 .. max_confidence /\ t.last_pred \in BOOLEAN /\ t.tag \in Nat
    BY <1>0, <1>1 DEF Entry
  <2> QED
    BY <2>1, <2>2, <2>3 DEF Entry, Trained
<1>5. t.count_ready => t.age = 0
  <2>1. CASE taken
    BY <2>1, <1>2, <1>3 DEF Dull
  <2>2. CASE ~taken
    BY <2>2, <1>3
  <2> QED
    BY <2>1, <2>2
<1> QED
  BY <1>1, <1>4, <1>5 DEF Dull

LEMMA DullFresh ==
  ASSUME NEW tag \in Nat
  PROVE  /\ Dull(FreshEntry(tag)) /\ FreshEntry(tag).tag = tag
         /\ Dull(ZeroEntry) /\ ZeroEntry.tag = 0
BY ConstantsAssumption DEF Dull, FreshEntry, ZeroEntry, EmptyEntry, Entry

(* The invariant restated entry by entry. *)
LEMMA InvByEntry ==
  IndInv <=> /\ content \in [Cells -> Entry]
             /\ \A w \in Cells : Dull(content[w])
             /\ history = 0
             /\ prediction = [taken |-> TRUE, confidence |-> 0]
             /\ pending \in PCs \cup {NoPC}
             /\ OneEntryPerBranch
<1>1. [taken |-> TRUE, confidence |-> 0] \in Prediction
  BY ConstantsAssumption DEF Prediction
<1>2. ASSUME IndInv, NEW w \in Cells PROVE Dull(content[w])
  BY <1>2 DEF IndInv, TypeOK, NeverConfident, CountedIsDead, Dull
<1>3. ASSUME content \in [Cells -> Entry], NEW w \in Cells, Dull(content[w])
      PROVE  /\ content[w].confidence = 0 /\ content[w].last_pred
             /\ content[w].count_ready => content[w].age = 0
  BY <1>3 DEF Dull
<1>4. 0 \in Nat
  OBVIOUS
<1> QED
  BY <1>1, <1>2, <1>3, <1>4 DEF IndInv, TypeOK, NeverConfident, CountedIsDead

(* The empty predictor is dull. *)
LEMMA InitIndInv == Init => IndInv
<1> SUFFICES ASSUME Init PROVE IndInv
  OBVIOUS
<1>1. \A w \in Cells : Dull(content[w]) /\ content[w].tag = 0
  BY DullFresh, 0 \in Nat DEF Init
<1>2. content \in [Cells -> Entry]
  BY <1>1 DEF Init, Dull
<1>3. OneEntryPerBranch
  BY <1>1, WaysAreCells DEF OneEntryPerBranch, Init
<1> QED
  BY <1>1, <1>2, <1>3, InvByEntry DEF Init

(* A lookup that hits returns a cell. *)
LEMMA MatchIsCell ==
  ASSUME NEW c, NEW pc \in PCs, Matches(c, pc, 0) # {}
  PROVE  /\ Min(Matches(c, pc, 0)) \in Cells
         /\ Min(Matches(c, pc, 0)) \in Matches(c, pc, 0)
<1>1. Matches(c, pc, 0) \subseteq Cells /\ Cells \subseteq Nat
  BY WaysAreCells, ConstantsAssumption DEF Matches, Cells, assoc
<1> QED
  BY <1>1, MinOfCells

(* predict() answers "taken" and changes no entry's tag. *)
LEMMA PredictStep ==
  ASSUME IndInv, NEW pc \in PCs, Predict(pc)
  PROVE  /\ content' \in [Cells -> Entry]
         /\ \A w \in Cells : Dull(content'[w]) /\ content'[w].tag = content[w].tag
         /\ prediction' = [taken |-> TRUE, confidence |-> 0]
<1> DEFINE m == Min(Matches(content, pc, 0))
<1>0. /\ content \in [Cells -> Entry] /\ \A w \in Cells : Dull(content[w])
      /\ history = 0
  BY InvByEntry
<1>1. CASE Matches(content, pc, history) = {}
  BY <1>0, <1>1 DEF Predict
<1>2. CASE Matches(content, pc, history) # {}
  <2>1. m \in Cells
    BY <1>0, <1>2, MatchIsCell
  <2>2. /\ prediction' = PredictedBy(content[m])
        /\ content' = [content EXCEPT ![m] = AfterPredict(content[m])]
    BY <1>0, <1>2 DEF Predict
  <2> HIDE DEF m
  <2>3. /\ Dull(AfterPredict(content[m]))
        /\ AfterPredict(content[m]).tag = content[m].tag
        /\ PredictedBy(content[m]) = [taken |-> TRUE, confidence |-> 0]
    BY <1>0, <2>1, DullPredicts
  <2>4. AfterPredict(content[m]) \in Entry
    BY <2>3 DEF Dull
  <2> QED
    BY <1>0, <2>1, <2>2, <2>3, <2>4
<1> QED
  BY <1>1, <1>2

(* update() on a hit trains the entry found and changes no tag. *)
LEMMA UpdateHitStep ==
  ASSUME IndInv, NEW pc \in PCs, NEW taken \in BOOLEAN, Update(pc, taken),
         Matches(content, pc, history) # {}
  PROVE  /\ content' \in [Cells -> Entry]
         /\ \A w \in Cells : Dull(content'[w]) /\ content'[w].tag = content[w].tag
<1> DEFINE m == Min(Matches(content, pc, 0))
<1>0. /\ content \in [Cells -> Entry] /\ \A w \in Cells : Dull(content[w])
      /\ history = 0
  BY InvByEntry
<1>1. m \in Cells
  BY <1>0, MatchIsCell
<1>2. content' = [content EXCEPT ![m] = Trained(content[m], taken)]
  BY <1>0 DEF Update
<1> HIDE DEF m
<1>3. /\ Dull(Trained(content[m], taken))
      /\ Trained(content[m], taken).tag = content[m].tag
  BY <1>0, <1>1, DullTrained
<1>4. Trained(content[m], taken) \in Entry
  BY <1>3 DEF Dull
<1> QED
  BY <1>0, <1>1, <1>2, <1>3, <1>4

(* A full set decays: every entry keeps its tag and what makes it dull.    *)
LEMMA DecayStep ==
  ASSUME IndInv, NEW pc \in PCs, content' = Decayed(content, pc, 0)
  PROVE  /\ content' \in [Cells -> Entry]
         /\ \A w \in Cells : Dull(content'[w]) /\ content'[w].tag = content[w].tag
<1>0. /\ content \in [Cells -> Entry] /\ \A w \in Cells : Dull(content[w])
  BY InvByEntry
<1>1. ASSUME NEW w \in Cells
      PROVE  Dull(content'[w]) /\ content'[w].tag = content[w].tag
  <2> DEFINE e == content[w]
  <2>1. e \in Entry /\ e.age \in Nat /\ e.age \in 0 .. max_age
    BY <1>0, ConstantsAssumption DEF Entry
  <2>2. CASE w \in Ways(pc, 0) /\ e.age > 0
    <3>1. content'[w] = [e EXCEPT !.age = e.age - 1]
      BY <2>2, <1>1 DEF Decayed
    <3>2. e.age - 1 \in 0 .. max_age
      BY <2>1, <2>2, ConstantsAssumption
    <3>3. ~e.count_ready /\ e.confidence = 0 /\ e.last_pred
      BY <1>0, <2>2 DEF Dull
    <3> HIDE DEF e
    <3>4. content'[w] \in Entry
      BY <2>1, <3>1, <3>2 DEF Entry
    <3>5. /\ ~content'[w].count_ready /\ content'[w].confidence = 0
          /\ content'[w].last_pred /\ content'[w].tag = e.tag
      BY <2>1, <3>1, <3>3 DEF Entry
    <3> QED
      BY <3>4, <3>5 DEF Dull, e
  <2>3. CASE ~(w \in Ways(pc, 0) /\ e.age > 0)
    BY <2>3, <1>0, <1>1 DEF Decayed
  <2> QED
    BY <2>2, <2>3
<1>2. content' = [w \in Cells |-> content'[w]]
  BY DEF Decayed
<1> QED
  BY <1>1, <1>2 DEF Dull

(* update() on a miss with a dead way replaces the first dead one.         *)
LEMMA AddStep ==
  ASSUME IndInv, NEW pc \in PCs, NEW taken \in BOOLEAN,
         NEW d \in Ways(pc, 0), Matches(content, pc, 0) = {},
         NEW added, added = [content EXCEPT ![d] = FreshEntry(get_tag(pc))],
         content' = [added EXCEPT ![Min(Matches(added, pc, 0))] =
                       Trained(added[Min(Matches(added, pc, 0))], taken)]
  PROVE  /\ content' \in [Cells -> Entry]
         /\ \A w \in Cells : Dull(content'[w])
         /\ \A w \in Cells \ {d} : content'[w].tag = content[w].tag
         /\ content'[d].tag = get_tag(pc)
<1> DEFINE m == Min(Matches(added, pc, 0))
           fresh == FreshEntry(get_tag(pc))
<1>0. /\ content \in [Cells -> Entry] /\ \A w \in Cells : Dull(content[w])
      /\ Ways(pc, 0) \subseteq Cells
  BY InvByEntry, WaysAreCells
<1>1. Dull(fresh) /\ fresh.tag = get_tag(pc) /\ fresh \in Entry
  BY DullFresh, TagsAreNat DEF Dull
<1>2. added[d] = fresh /\ \A w \in Cells \ {d} : added[w] = content[w]
  BY <1>0
<1>3. Matches(added, pc, 0) = {d}
  BY <1>0, <1>1, <1>2 DEF Matches
<1>4. m = d
  BY <1>3, MatchIsCell
<1>5. content' = [added EXCEPT ![d] = Trained(fresh, taken)]
  BY <1>2, <1>4
<1>6. Dull(Trained(fresh, taken)) /\ Trained(fresh, taken).tag = get_tag(pc)
  BY <1>1, DullTrained
<1>7. Trained(fresh, taken) \in Entry
  BY <1>6 DEF Dull
<1> HIDE DEF m, fresh
<1>8. content'[d] = Trained(fresh, taken) /\ \A w \in Cells \ {d} : content'[w] = content[w]
  BY <1>0, <1>2, <1>5
<1>9. content' \in [Cells -> Entry]
  BY <1>0, <1>1, <1>5, <1>7
<1> QED
  BY <1>0, <1>6, <1>8, <1>9

(* Steps that leave every tag alone keep branches apart.                   *)
LEMMA ApartByTags ==
  ASSUME OneEntryPerBranch, history = 0, history' = 0,
         \A w \in Cells : content'[w].tag = content[w].tag
  PROVE  OneEntryPerBranch'
BY WaysAreCells DEF OneEntryPerBranch

(* So does an addition: the set held no entry of the branch before.        *)
LEMMA ApartByAddition ==
  ASSUME OneEntryPerBranch, history = 0, history' = 0,
         NEW pc \in PCs, NEW d \in Ways(pc, 0), Matches(content, pc, 0) = {},
         \A w \in Cells \ {d} : content'[w].tag = content[w].tag,
         content'[d].tag = get_tag(pc)
  PROVE  OneEntryPerBranch'
<1>1. SUFFICES ASSUME NEW q \in PCs, get_tag(q) # 0,
                      NEW v \in Ways(q, 0), NEW w \in Ways(q, 0),
                      content'[v].tag = get_tag(q), content'[w].tag = get_tag(q)
               PROVE  v = w
  BY DEF OneEntryPerBranch
<1>2. v \in Cells /\ w \in Cells
  BY WaysAreCells
<1>3. CASE v # d /\ w # d
  BY <1>1, <1>2, <1>3 DEF OneEntryPerBranch
<1>4. CASE v = d \/ w = d
  <2>1. get_tag(q) = get_tag(pc) /\ Ways(q, 0) = Ways(pc, 0)
    BY <1>1, <1>4, SharedWay
  <2>2. \A u \in Ways(q, 0) \ {d} : content[u].tag # get_tag(q)
    BY <2>1 DEF Matches
  <2> QED
    BY <1>1, <1>2, <2>2
<1> QED
  BY <1>3, <1>4

(* The primed reading of InvByEntry: what a step has to establish.         *)
LEMMA NextInvByEntry ==
  ASSUME content' \in [Cells -> Entry], \A w \in Cells : Dull(content'[w]),
         history' = 0, prediction' = [taken |-> TRUE, confidence |-> 0],
         pending' \in PCs \cup {NoPC}, OneEntryPerBranch'
  PROVE  IndInv'
<1>1. IndInv' <=> (/\ content \in [Cells -> Entry]
                   /\ \A w \in Cells : Dull(content[w])
                   /\ history = 0
                   /\ prediction = [taken |-> TRUE, confidence |-> 0]
                   /\ pending \in PCs \cup {NoPC}
                   /\ OneEntryPerBranch)'
  BY InvByEntry, PTL
<1>2. Entry' = Entry /\ Cells' = Cells
  BY DEF Entry, Cells, assoc
<1> QED
  BY <1>1, <1>2 DEF Dull, OneEntryPerBranch

LEMMA NextHistoryStays == ASSUME history = 0, NEW taken \in BOOLEAN
                          PROVE  NextHistory(taken) = 0
BY DEF NextHistory

LEMMA StepIndInv == IndInv /\ [Next]_vars => IndInv'
<1> SUFFICES ASSUME IndInv, [Next]_vars PROVE IndInv'
  OBVIOUS
<1>0. /\ content \in [Cells -> Entry] /\ \A w \in Cells : Dull(content[w])
      /\ history = 0 /\ prediction = [taken |-> TRUE, confidence |-> 0]
      /\ pending \in PCs \cup {NoPC} /\ OneEntryPerBranch
  BY InvByEntry
<1>1. ASSUME NEW pc \in PCs, Predict(pc) PROVE IndInv'
  <2>1. /\ content' \in [Cells -> Entry]
        /\ \A w \in Cells : Dull(content'[w]) /\ content'[w].tag = content[w].tag
        /\ prediction' = [taken |-> TRUE, confidence |-> 0]
    BY <1>1, PredictStep
  <2>2. pending' = pc /\ history' = 0
    BY <1>0, <1>1 DEF Predict
  <2>3. OneEntryPerBranch'
    BY <1>0, <2>1, <2>2, ApartByTags
  <2> QED
    BY <2>1, <2>2, <2>3, NextInvByEntry
<1>2. ASSUME NEW pc \in PCs, NEW taken \in BOOLEAN, Update(pc, taken) PROVE IndInv'
  <2>0. /\ pending' = NoPC /\ history' = 0
        /\ prediction' = [taken |-> TRUE, confidence |-> 0]
    BY <1>0, <1>2, NextHistoryStays DEF Update
  <2>1. CASE Matches(content, pc, history) # {}
    <3>1. /\ content' \in [Cells -> Entry]
          /\ \A w \in Cells : Dull(content'[w]) /\ content'[w].tag = content[w].tag
      BY <1>2, <2>1, UpdateHitStep
    <3> QED
      BY <1>0, <2>0, <3>1, ApartByTags, NextInvByEntry
  <2>2. CASE /\ Matches(content, pc, history) = {}
             /\ {w \in Ways(pc, history') : content[w].age = 0} = {}
    <3>1. content' = Decayed(content, pc, 0)
      BY <1>2, <2>0, <2>2 DEF Update
    <3>2. /\ content' \in [Cells -> Entry]
          /\ \A w \in Cells : Dull(content'[w]) /\ content'[w].tag = content[w].tag
      BY <3>1, DecayStep
    <3> QED
      BY <1>0, <2>0, <3>2, ApartByTags, NextInvByEntry
  <2>3. CASE /\ Matches(content, pc, history) = {}
             /\ {w \in Ways(pc, history') : content[w].age = 0} # {}
    <3> DEFINE dead == {w \in Ways(pc, 0) : content[w].age = 0}
               d == Min(dead)
               added == [content EXCEPT ![d] = FreshEntry(get_tag(pc))]
    <3>1. dead \subseteq Nat /\ dead # {}
      BY <2>0, <2>3, WaysAreCells, ConstantsAssumption DEF Cells, assoc
    <3>2. d \in Ways(pc, 0)
      BY <3>1, MinOfCells
    <3>3. content' = [added EXCEPT ![Min(Matches(added, pc, 0))] =
                        Trained(added[Min(Matches(added, pc, 0))], taken)]
      BY <1>2, <2>0, <2>3 DEF Update
    <3>4. Matches(content, pc, 0) = {}
      BY <1>0, <2>3
    <3> HIDE DEF d
    <3>5. added = [content EXCEPT ![d] = FreshEntry(get_tag(pc))]
      OBVIOUS
    <3> HIDE DEF added
    <3>6. /\ content' \in [Cells -> Entry]
          /\ \A w \in Cells : Dull(content'[w])
          /\ \A w \in Cells \ {d} : content'[w].tag = content[w].tag
          /\ content'[d].tag = get_tag(pc)
      BY <3>2, <3>3, <3>4, <3>5, AddStep
    <3>7. OneEntryPerBranch'
      BY <1>0, <2>0, <3>2, <3>4, <3>6, ApartByAddition
    <3> QED
      BY <2>0, <3>6, <3>7, NextInvByEntry
  <2> QED
    BY <2>1, <2>2, <2>3
<1>3. CASE Reset
  <2>1. \A w \in Cells : Dull(content'[w]) /\ content'[w].tag = 0
    BY <1>3, DullFresh, 0 \in Nat DEF Reset
  <2>2. content' \in [Cells -> Entry]
    BY <1>3, <2>1 DEF Reset, Dull
  <2>3. history' = 0 /\ prediction' = prediction /\ pending' = pending
    BY <1>0, <1>3 DEF Reset
  <2>4. OneEntryPerBranch'
    BY <2>1, <2>3, WaysAreCells DEF OneEntryPerBranch
  <2> QED
    BY <1>0, <2>1, <2>2, <2>3, <2>4, NextInvByEntry
<1>4. CASE UNCHANGED vars
  <2>1. /\ content' = content /\ history' = 0 /\ prediction' = prediction
        /\ pending' = pending
    BY <1>0, <1>4 DEF vars
  <2> QED
    BY <1>0, <2>1, ApartByTags, NextInvByEntry
<1> QED
  BY <1>1, <1>2, <1>3, <1>4 DEF Next

(* The loop predictor keeps its invariant, whatever branches it sees: the  *)
(* fields stay in range, each branch trains one entry, a counted entry is  *)
(* dead and no confidence is ever earned (nestloop.cc:108-177).            *)
THEOREM NestLoopCorrect == Spec => []IndInv
BY InitIndInv, StepIndInv, PTL DEF Spec

(* The entries of nestloop_entry_t keep to their counters' ranges.         *)
THEOREM NestLoopTypeCorrect == Spec => []TypeOK
<1>1. IndInv => TypeOK
  BY DEF IndInv
<1> QED
  BY <1>1, NestLoopCorrect, PTL

(* lookup, add and decay never index outside content (nestloop.cc:50-106). *)
THEOREM IndexStaysInBounds == Spec => []WaysInBounds
<1>1. IndInv => WaysInBounds
  BY WaysAreCells DEF IndInv, WaysInBounds
<1> QED
  BY <1>1, NestLoopCorrect, PTL

(* The defect is total: no loop and no size escapes it.  A completed count *)
(* is never used, its entry having died with the outcome that completed    *)
(* it, and no prediction is ever confident, whatever nestloop.cc:117 says. *)
THEOREM CountsAreNeverUsed == Spec => [](CountedIsDead /\ NeverConfident)
<1>1. IndInv => CountedIsDead /\ NeverConfident
  BY DEF IndInv
<1> QED
  BY <1>1, NestLoopCorrect, PTL

(* The consequence of the defect: LTAGE is TAGE, for the loop predictor    *)
(* never has the confidence to override it (ltage.cc:13-17).               *)
THEOREM LTAGEIsTAGE == LTAGESpec => []LoopNeverOverrides
<1>1. LTAGEInit => LTAGEInv
  BY InitIndInv DEF LTAGEInit, LTAGEInv, LoopNeverOverrides
<1>2. LTAGEInv /\ [LTAGENext]_ltageVars => LTAGEInv'
  <2> SUFFICES ASSUME LTAGEInv, [LTAGENext]_ltageVars PROVE LTAGEInv'
    OBVIOUS
  <2>1. [Next]_vars
    BY DEF LTAGENext, LTAGEPredict, LTAGEUpdate, LTAGEReset, Next, ltageVars, vars
  <2>2. IndInv'
    BY <2>1, StepIndInv DEF LTAGEInv
  <2>3. ASSUME NEW pc \in PCs, LTAGEPredict(pc) PROVE LoopNeverOverrides'
    <3>1. prediction' = [taken |-> TRUE, confidence |-> 0]
      BY <2>3, PredictStep DEF LTAGEPredict, LTAGEInv
    <3>2. ~(0 >= max_confidence)
      BY ConstantsAssumption
    <3> QED
      BY <2>3, <3>1, <3>2 DEF LTAGEPredict, Choice, loopThreshold, LoopNeverOverrides
  <2>4. ASSUME UNCHANGED <<tagePred, output>> PROVE LoopNeverOverrides'
    BY <2>4 DEF LTAGEInv, LoopNeverOverrides
  <2>5. LoopNeverOverrides'
    BY <2>3, <2>4 DEF LTAGENext, LTAGEUpdate, LTAGEReset, ltageVars
  <2> QED
    BY <2>2, <2>5 DEF LTAGEInv
<1>3. LTAGEInv => LoopNeverOverrides
  BY DEF LTAGEInv
<1> QED
  BY <1>1, <1>2, <1>3, PTL DEF LTAGESpec

(* A branch of LTAGE trains one entry of the loop predictor, through every *)
(* death, decay and replacement (nestloop.cc:63-106 and 137-177).          *)
THEOREM BranchTrainsOneEntry == LTAGESpec => []OneEntryPerBranch
<1>1. LTAGEInit => IndInv
  BY InitIndInv DEF LTAGEInit
<1>2. IndInv /\ [LTAGENext]_ltageVars => IndInv'
  <2> SUFFICES ASSUME IndInv, [LTAGENext]_ltageVars PROVE IndInv'
    OBVIOUS
  <2>1. [Next]_vars
    BY DEF LTAGENext, LTAGEPredict, LTAGEUpdate, LTAGEReset, Next, ltageVars, vars
  <2> QED
    BY <2>1, StepIndInv
<1>3. IndInv => OneEntryPerBranch
  BY DEF IndInv
<1> QED
  BY <1>1, <1>2, <1>3, PTL DEF LTAGESpec

(* What LTAGE answers is an answer of the loop predictor or of TAGE, or the answer of *)
(* neither that ltage.cc starts with.                                                 *)
THEOREM LTAGETypeCorrect == LTAGESpec => []LTAGETypeOK
<1> DEFINE Answers == {tagePred, output} \subseteq Prediction \cup TagePredictions
<1>1. LTAGEInit => IndInv /\ Answers
  <2> SUFFICES ASSUME LTAGEInit PROVE IndInv /\ Answers
    OBVIOUS
  <2>1. IndInv
    BY InitIndInv DEF LTAGEInit
  <2>2. prediction \in Prediction /\ prediction = NoOpinion
    BY <2>1 DEF LTAGEInit, Init, NoOpinion, IndInv, TypeOK
  <2> QED
    BY <2>1, <2>2 DEF LTAGEInit
<1>2. IndInv /\ Answers /\ [LTAGENext]_ltageVars => (IndInv /\ Answers)'
  <2> SUFFICES ASSUME IndInv, Answers, [LTAGENext]_ltageVars PROVE (IndInv /\ Answers)'
    OBVIOUS
  <2>1. [Next]_vars
    BY DEF LTAGENext, LTAGEPredict, LTAGEUpdate, LTAGEReset, Next, ltageVars, vars
  <2>2. IndInv' /\ prediction' \in Prediction
    BY <2>1, StepIndInv DEF IndInv, TypeOK
  <2>3. ASSUME NEW pc \in PCs, LTAGEPredict(pc) PROVE Answers'
    BY <2>2, <2>3 DEF LTAGEPredict, Choice
  <2>4. ASSUME UNCHANGED <<tagePred, output>> PROVE Answers'
    BY <2>4
  <2>5. Answers'
    <3> HIDE DEF Answers
    <3> QED
      BY <2>3, <2>4 DEF LTAGENext, LTAGEUpdate, LTAGEReset, ltageVars
  <2> QED
    BY <2>2, <2>5
<1>3. IndInv /\ Answers => LTAGETypeOK
  BY DEF IndInv, LTAGETypeOK
<1> QED
  BY <1>1, <1>2, <1>3, PTL DEF LTAGESpec
=============================================================================
