-------------------------------- MODULE TAGE --------------------------------
(***************************************************************************)
(* The TAGE predictor, tage.cc, with its tagged tables, tagtable.cc.  The  *)
(* simulator predicts and updates branch by branch along a trace: here an  *)
(* arbitrary part, and then one branch repeated with one outcome.  The     *)
(* base predictor answers anything, and so does random().                  *)
(*                                                                         *)
(* A number that is hashed (a PC, the history, a tag, an index) is the set *)
(* of the positions of its 1 bits, so that xor is a symmetric difference.  *)
(***************************************************************************)
EXTENDS Integers, FiniteSets, FiniteSetsExt

CONSTANTS PCs,           \* branch addresses
          nTables,       \* tagged tables; 4 when deployed
          idxLen,        \* bits of an index; 9 when deployed
          resetPeriod,   \* updates before the soft reset; 1 << 18
          Branches       \* bound: length of the arbitrary part of the trace

ASSUME TAGEAssumption ==
  /\ \A pc \in PCs : pc \subseteq Nat
  /\ {nTables, idxLen, resetPeriod} \subseteq Nat \ {0} /\ Branches \in Nat

VARIABLES tables,       \* the content of each table, by index
          history,      \* the last GHRLen outcomes, the newest at bit 0
          branchCount,  \* updates since reset(), counted up to resetPeriod + 1
          resetMask,    \* useful bits that the soft reset keeps
          pred,         \* what predict() left for update()
          branch,       \* the branch of the trace that is executed now
          left          \* branches left of the arbitrary part

vars == <<tables, history, branchCount, resetMask, pred, branch, left>>

GHRLen == 2 ^ nTables
Tables == 0 .. nTables - 1
tagLen(t) == 2 ^ (t + 1)
counterMax == 1
counterMin == -2
usefulMax == 3

Xor(x, y) == (x \ y) \union (y \ x)
Mask(x, len) == x \intersect (0 .. len - 1)

\* The xor of the consecutive pieces of len bits.
fold(x, len) == {b \in 0 .. len - 1 : Cardinality({p \in x : p % len = b}) % 2 = 1}

Histories == SUBSET (0 .. GHRLen - 1)

get_idx == [k \in PCs \X Histories |->
  LET pc == k[1]
      h  == k[2]
  IN Mask(Xor(Xor({b - idxLen : b \in {p \in pc : p >= idxLen}}, pc), fold(h, idxLen)), idxLen)]
get_tag == [k \in Tables \X PCs \X Histories |->
  LET t  == k[1]
      pc == k[2]
      h  == k[3]
  IN Mask(Xor(Xor(pc, fold(h, tagLen(t))), {b + 1 : b \in fold(h, tagLen(t) - 1)}), tagLen(t))]

Indices == SUBSET (0 .. idxLen - 1)
Entry(t) == [tag : SUBSET (0 .. tagLen(t) - 1), counter : counterMin .. counterMax,
             useful : 0 .. usefulMax]
ZeroEntry == [tag |-> {}, counter |-> 0, useful |-> 0]

\* tage_entry_t(0, 0, -1): not found, or no provider.
NotFound == [tag |-> {}, counter |-> 0, useful |-> -1]

valid(e) == e.useful >= 0
weak(e) == e.useful = 0 /\ e.counter \in {0, -1}
taken(e) == e.counter >= 0

\* mainPred to overallPred are read by the next update() only.
NoPrediction == [made |-> FALSE, main |-> NotFound, mainProvider |-> -1, alt |-> NotFound,
                 altProvider |-> -1, base |-> FALSE, overall |-> FALSE]

TypeOK ==
  /\ \A t \in Tables : tables[t] \in [Indices -> Entry(t)]
  /\ history \in Histories
  /\ branchCount \in 0 .. resetPeriod + 1 /\ resetMask \in {1, 2}
  /\ pred.mainProvider \in -1 .. nTables - 1
  /\ pred.altProvider \in -1 .. pred.mainProvider
  /\ valid(pred.main) <=> pred.mainProvider # -1
  /\ valid(pred.alt) <=> pred.altProvider # -1
  /\ branch \in PCs \X BOOLEAN /\ left \in 0 .. Branches

EmptyTables == [t \in Tables |-> [i \in Indices |-> ZeroEntry]]

Init ==
  /\ tables = EmptyTables /\ history = {}
  /\ branchCount = 0 /\ resetMask = 1
  /\ pred = NoPrediction
  /\ branch \in PCs \X BOOLEAN /\ left = Branches

-----------------------------------------------------------------------------
(* predict(): the longest history that finds its tag, and the next.        *)

Pc == branch[1]
Outcome == branch[2]

\* Where the branch is looked up, in every table, and the tag it has there.
Idx == get_idx[<<Pc, history>>]
Tag(t) == get_tag[<<t, Pc, history>>]

lookup(t) == LET e == tables[t][Idx] IN IF e.tag = Tag(t) THEN e ELSE NotFound

\* The longest table below limit that finds the branch, or -1.
Provider(limit) == Max({-1} \union {t \in 0 .. limit - 1 : valid(lookup(t))})

Found(t) == IF t = -1 THEN NotFound ELSE lookup(t)

Predict(base) ==
  LET m == Provider(nTables)
      a == Provider(m)
      second == IF a # -1 THEN taken(Found(a)) ELSE base
  IN /\ ~ pred.made
     /\ pred' = [made |-> TRUE, main |-> Found(m), mainProvider |-> m, alt |-> Found(a),
                 altProvider |-> a, base |-> base,
                 overall |-> IF m # -1 /\ ~ weak(Found(m)) THEN taken(Found(m)) ELSE second]
     /\ UNCHANGED <<tables, history, branchCount, resetMask, branch, left>>

-----------------------------------------------------------------------------
(* update()                                                                *)

Toward(right) == IF right THEN 1 ELSE -1
Within(low, n, high) == Max({low, Min({n, high})})

\* Mutant: only a right prediction trains.
MutantRightOnly(c) == IF pred.overall = Outcome THEN Within(counterMin, c + Toward(Outcome), counterMax)
                      ELSE c
\* Mutant: the counter does not saturate.
MutantUnsaturated(c) == c + Toward(Outcome)
Trained(c) == Within(counterMin, c + Toward(Outcome), counterMax)

\* TagTable::update() of the entry of this branch, if it still has the tag.
Update(content, t, useful) ==
  IF content[Idx].tag # Tag(t) THEN content
  ELSE [content EXCEPT ![Idx].counter = Trained(@),
                       ![Idx].useful = Within(0, @ + useful, usefulMax)]

\* Main is useful if it was right where the alternative was wrong.
MainUseful ==
  LET altResult == IF valid(pred.alt) THEN taken(pred.alt) ELSE pred.base
  IN IF taken(pred.main) = altResult THEN 0 ELSE Toward(taken(pred.main) = Outcome)

UpdateProviders ==
  [t \in Tables |->
     CASE t = pred.mainProvider -> Update(tables[t], t, MainUseful)
       [] t = pred.altProvider /\ pred.main.useful = 0 ->
            Update(tables[t], t, Toward(taken(pred.alt) = Outcome))
       [] OTHER -> tables[t]]

RequestNewEntry ==
  IF valid(pred.main) /\ weak(pred.main) THEN taken(pred.main) = Outcome
  ELSE pred.overall # Outcome

Longer == pred.mainProvider + 1 .. nTables - 1
HasSpace(t) == tables[t][Idx].useful = 0

\* Mutant: no decay when every entry is useful.
MutantNoDecay(e) == e
decay(e) == [e EXCEPT !.useful = Max({@ - 1, 0})]

\* Mutant: a lucky table takes the entry whatever its useful counter.
MutantAddedTo(coin) ==
  LET lucky == {t \in Longer : coin[t]} IN IF lucky = {} THEN {} ELSE {Min(lucky)}
\* The table that gets the entry, if one has space: the first one with space whose random
\* bit is set, or the first one with space.
AddedTo(coin) ==
  LET free == {t \in Longer : HasSpace(t)}
      lucky == {t \in free : coin[t]}
  IN CASE lucky # {} -> {Min(lucky)}
       [] free # {} /\ lucky = {} -> {Min(free)}
       [] OTHER -> {}

Allocate(old, coin) ==
  [t \in Tables |->
     CASE t \in AddedTo(coin) ->
            [old[t] EXCEPT ![Idx].counter = 0, ![Idx].tag = Tag(t)]
       [] t \in Longer /\ AddedTo(coin) = {} -> [old[t] EXCEPT ![Idx] = decay(@)]
       [] OTHER -> old[t]]

SoftReset(old) ==
  [t \in Tables |-> [i \in Indices |->
     [old[t][i] EXCEPT !.useful = IF resetMask = 1 THEN @ % 2 ELSE @ - (@ % 2)]]]

NextBranch ==
  \/ left > 0 /\ left' = left - 1 /\ branch' \in PCs \X BOOLEAN
  \/ left = 0 /\ UNCHANGED <<branch, left>>

UpdateTables(coin) ==
  LET trained == UpdateProviders
      new == IF RequestNewEntry THEN Allocate(trained, coin) ELSE trained
  IN /\ pred.made /\ pred' = NoPrediction
     /\ history' = Mask({b + 1 : b \in history} \union (IF Outcome THEN {0} ELSE {}), GHRLen)
     /\ branchCount' = Min({branchCount + 1, resetPeriod + 1})
     /\ \/ /\ branchCount + 1 = resetPeriod
           /\ tables' = SoftReset(new) /\ resetMask' = 3 - resetMask
        \/ /\ branchCount + 1 # resetPeriod
           /\ tables' = new /\ UNCHANGED resetMask
     /\ NextBranch

\* reset(), between two branches of the arbitrary part.
Reset ==
  /\ ~ pred.made /\ left > 0 /\ left' = left - 1
  /\ tables' = EmptyTables /\ history' = {}
  /\ branchCount' = 0 /\ resetMask' = 1
  /\ UNCHANGED <<pred, branch>>

Next == \/ \E base \in BOOLEAN : Predict(base)
        \/ \E coin \in [Tables -> BOOLEAN] : UpdateTables(coin)
        \/ Reset

\* The trace goes on: some step is always enabled, so this is WF_vars(Next).
Spec == Init /\ [][Next]_vars /\ []<><<TRUE>>_vars

-----------------------------------------------------------------------------
(* Properties.                                                             *)

Entries == {<<t, i>> : t \in Tables, i \in Indices}
Candidate(t) == tables[t][Idx]

ReplacesAtMostOne ==
  pred.made =>
    LET replaced == {t \in Tables : \E i \in Indices : tables'[t][i].tag # tables[t][i].tag}
    IN /\ Cardinality(replaced) <= 1
       /\ \A t \in replaced : t > pred.mainProvider /\ Candidate(t).useful = 0

\* The useful counter protects an entry from every other branch that needs its place, the
\* providers of the branch itself are never given away, and one update allocates once
\* (tage.cc:104-128, tagtable.cc:52-62).
UsefulEntrySurvives == [][ReplacesAtMostOne]_vars

MakesRoom ==
  (pred.made /\ pred.overall # Outcome /\ Longer # {} /\ ~ (valid(pred.main) /\ weak(pred.main)))
    => LET i == Idx
       IN \/ \E t \in Longer : tables'[t][i].tag = Tag(t) /\ weak(tables'[t][i])
          \/ \A t \in Longer : tables'[t][i].useful < tables[t][i].useful

\* "if overall prediction is wrong, try to allocate new entry" (tage.cc:90), and if there is
\* no space "decrease the useful counter of the existing entries" (tage.cc:123): a branch
\* whose settled provider was wrong either has an entry with a longer history now, or is
\* one step nearer to one in every longer table.
WrongPredictionMakesRoom == [][MakesRoom]_vars

\* Whatever earlier branches left in the tables, through aliasing, decay and resets: a
\* branch that keeps one outcome is predicted right for ever from some moment on, however
\* wrong the base predictor is.
LearnsSteadyBranch == <>[](pred.made => pred.overall = Outcome)
=============================================================================
