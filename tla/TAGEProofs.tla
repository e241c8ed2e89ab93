----------------------------- MODULE TAGEProofs -----------------------------
(***************************************************************************)
(* Proofs about TAGE for every set of branches, every number and size of   *)
(* tables, every reset period and every outcome of random().               *)
(***************************************************************************)
EXTENDS TAGE, FiniteSetTheorems, WellFoundedInduction, TLAPS

USE TAGEAssumption

(* Two different tables provide the two predictions, so that an update     *)
(* trains a table at most once.                                            *)
ProvidersDiffer == pred.altProvider # -1 => pred.altProvider < pred.mainProvider

(* The types do not say that the providers differ, and without it an       *)
(* update of the same table as main and as alternative has no meaning.     *)
IndInv ==
  /\ TypeOK
  /\ DOMAIN tables = Tables
  /\ pred.made \in BOOLEAN
  /\ ProvidersDiffer

(***************************************************************************)
(* Extrema of the small sets the predictor takes them of.                  *)
(***************************************************************************)
LEMMA SmallestIs ==
  ASSUME NEW S \in SUBSET Nat, S # {}
  PROVE  Min(S) \in S
<1> DEFINE R == OpToRel(<, Nat)
<1>1. \A x, y \in Nat : <<y, x>> \in R <=> y < x
  BY DEF OpToRel
<1>2. IsWellFoundedOn(R, Nat)
  BY NatLessThanWellFounded
<1> HIDE DEF R
<1>3. PICK x \in S : \A y \in S : ~(<<y, x>> \in R)
  BY <1>2, WFMin
<1>4. \A y \in S : x <= y
  <2> TAKE y \in S
  <2>1. x \in Nat /\ y \in Nat /\ ~(y < x)
    BY <1>1, <1>3
  <2> QED
    BY <2>1
<1> QED
  BY <1>4 DEF Min

LEMMA LargestIs ==
  ASSUME NEW n \in Nat, NEW S \in SUBSET (-1 .. n), S # {}
  PROVE  Max(S) \in S
<1> DEFINE T == {n - x : x \in S}
           R == OpToRel(<, Nat)
<1>1. \A x, y \in Nat : <<y, x>> \in R <=> y < x
  BY DEF OpToRel
<1>2. IsWellFoundedOn(R, Nat)
  BY NatLessThanWellFounded
<1>3. T # {} /\ T \in SUBSET (Nat \cup {n + 1})
  <2>1. \A x \in S : n - x \in Nat
    OBVIOUS
  <2> QED
    BY <2>1
<1>4. T \in SUBSET Nat
  BY <1>3
<1> HIDE DEF R
<1>5. PICK t \in T : \A y \in T : ~(<<y, t>> \in R)
  BY <1>2, <1>3, <1>4, WFMin
<1>6. PICK x \in S : t = n - x
  BY <1>5
<1>7. \A y \in S : x >= y
  <2> TAKE y \in S
  <2>1. n - y \in T
    OBVIOUS
  <2>2. ~(n - y < n - x)
    BY <2>1, <1>1, <1>4, <1>5, <1>6
  <2> QED
    BY <2>2
<1> QED
  BY <1>7 DEF Max

LEMMA LargerOfTwo ==
  ASSUME NEW a \in Int, NEW b \in Int
  PROVE  Max({a, b}) = IF a >= b THEN a ELSE b
<1>1. \E x \in {a, b} : \A y \in {a, b} : x >= y
  OBVIOUS
<1>2. Max({a, b}) \in {a, b} /\ Max({a, b}) >= a /\ Max({a, b}) >= b
  BY <1>1 DEF Max
<1> QED
  BY <1>2

LEMMA SmallerOfTwo ==
  ASSUME NEW a \in Int, NEW b \in Int
  PROVE  Min({a, b}) = IF a <= b THEN a ELSE b
<1>1. \E x \in {a, b} : \A y \in {a, b} : x <= y
  OBVIOUS
<1>2. Min({a, b}) \in {a, b} /\ Min({a, b}) <= a /\ Min({a, b}) <= b
  BY <1>1 DEF Min
<1> QED
  BY <1>2

(* A saturating counter stays within its limits.                           *)
LEMMA Saturates ==
  ASSUME NEW low \in Int, NEW high \in Int, low <= high, NEW n \in Int
  PROVE  Within(low, n, high) \in low .. high
<1>1. Min({n, high}) = IF n <= high THEN n ELSE high
  BY SmallerOfTwo
<1>2. Min({n, high}) \in Int
  BY <1>1
<1>3. Within(low, n, high) = IF low >= Min({n, high}) THEN low ELSE Min({n, high})
  BY <1>2, LargerOfTwo DEF Within
<1> QED
  BY <1>1, <1>2, <1>3

(***************************************************************************)
(* What the executed branch looks up.                                      *)
(***************************************************************************)
LEMMA Hashes ==
  ASSUME IndInv
  PROVE  /\ Idx \in Indices
         /\ \A t \in Tables : Tag(t) \in SUBSET (0 .. tagLen(t) - 1)
<1>1. Pc \in PCs /\ history \in Histories
  BY DEF IndInv, TypeOK, Pc
<1>2. Idx \in Indices
  BY <1>1 DEF Idx, get_idx, Mask, Indices
<1>3. ASSUME NEW t \in Tables
      PROVE  Tag(t) \in SUBSET (0 .. tagLen(t) - 1)
  BY <1>1 DEF Tag, get_tag, Mask
<1> QED
  BY <1>2, <1>3

(* The search below a limit returns no table, or one below the limit that  *)
(* finds the branch; so what it found is valid exactly if it is a table.   *)
LEMMA ProviderIs ==
  ASSUME IndInv, NEW limit \in -1 .. nTables
  PROVE  /\ Provider(limit) \in -1 .. nTables - 1
         /\ Provider(limit) # -1 => Provider(limit) < limit
         /\ valid(Found(Provider(limit))) <=> Provider(limit) # -1
<1> DEFINE C == {-1} \union {t \in 0 .. limit - 1 : valid(lookup(t))}
           p == Provider(limit)
<1>1. nTables \in Nat
  OBVIOUS
<1>2. C \in SUBSET (-1 .. nTables) /\ C # {}
  BY <1>1
<1>3. Max(C) \in C
  BY <1>1, <1>2, LargestIs
<1>4. p \in C
  BY <1>3 DEF Provider
<1> HIDE DEF p
<1>5. /\ p \in -1 .. nTables - 1
      /\ p # -1 => p < limit /\ valid(lookup(p))
  BY <1>1, <1>4
<1>6. ~ valid(NotFound)
  BY DEF valid, NotFound
<1>7. valid(Found(p)) <=> p # -1
  <2>1. CASE p = -1
    BY <2>1, <1>6 DEF Found
  <2>2. CASE p # -1
    BY <2>2, <1>5 DEF Found
  <2> QED
    BY <2>1, <2>2
<1> QED
  BY <1>5, <1>7 DEF p

LEMMA PredictStep ==
  ASSUME IndInv, NEW base \in BOOLEAN, Predict(base)
  PROVE  IndInv'
<1> DEFINE m == Provider(nTables)
           a == Provider(m)
<1>1. nTables \in Nat \ {0}
  OBVIOUS
<1>2. /\ m \in -1 .. nTables - 1
      /\ valid(Found(m)) <=> m # -1
  BY <1>1, ProviderIs
<1>3. m \in -1 .. nTables
  BY <1>1, <1>2
<1>4. /\ a \in -1 .. nTables - 1 /\ (a # -1 => a < m)
      /\ valid(Found(a)) <=> a # -1
  BY <1>3, ProviderIs
<1>5. /\ pred'.made = TRUE /\ pred'.mainProvider = m /\ pred'.altProvider = a
      /\ pred'.main = Found(m) /\ pred'.alt = Found(a)
      /\ UNCHANGED <<tables, history, branchCount, resetMask, branch, left>>
  BY DEF Predict
<1> HIDE DEF m, a
<1>6. a \in -1 .. m
  BY <1>1, <1>2, <1>4
<1> QED
  BY <1>2, <1>4, <1>5, <1>6 DEF IndInv, TypeOK, ProvidersDiffer, Tables
(***************************************************************************)
(* Training the providers: no entry changes its tag, and the tables with a *)
(* longer history than the provider's are left alone.                      *)
(***************************************************************************)
LEMMA EntryParts ==
  ASSUME NEW t \in Tables, NEW e \in Entry(t)
  PROVE  /\ e.tag \in SUBSET (0 .. tagLen(t) - 1)
         /\ e.counter \in -2 .. 1
         /\ e.useful \in 0 .. 3
BY DEF Entry, counterMin, counterMax, usefulMax

LEMMA TowardIs == ASSUME NEW right PROVE Toward(right) \in {-1, 1}
BY Zenon DEF Toward

LEMMA TrainedIs ==
  ASSUME NEW c \in -2 .. 1
  PROVE  Trained(c) \in -2 .. 1
<1>1. PICK n \in Int : n = c + Toward(Outcome)
  BY TowardIs
<1>2. -2 \in Int /\ 1 \in Int /\ -2 <= 1
  OBVIOUS
<1>3. Within(-2, n, 1) \in -2 .. 1
  BY Zenon, <1>2, Saturates
<1>4. Trained(c) = Within(-2, n, 1)
  BY Zenon, <1>1 DEF Trained, counterMin, counterMax
<1> QED
  BY <1>3, <1>4

LEMMA UpdateIs ==
  ASSUME IndInv, NEW t \in Tables, NEW content \in [Indices -> Entry(t)], NEW u \in -1 .. 1
  PROVE  /\ Update(content, t, u) \in [Indices -> Entry(t)]
         /\ \A i \in Indices : Update(content, t, u)[i].tag = content[i].tag
<1>1. CASE content[Idx].tag # Tag(t)
  BY <1>1 DEF Update
<1>2. CASE content[Idx].tag = Tag(t)
  <2>1. Idx \in Indices
    BY Hashes
  <2> DEFINE e == content[Idx]
             f == [e EXCEPT !.counter = Trained(e.counter),
                            !.useful = Within(0, e.useful + u, usefulMax)]
  <2>2. /\ e \in Entry(t)
        /\ e.counter \in -2 .. 1 /\ e.useful \in 0 .. 3
    BY <2>1, EntryParts
  <2>3. /\ Trained(e.counter) \in counterMin .. counterMax
        /\ Within(0, e.useful + u, usefulMax) \in 0 .. usefulMax
    <3>1. Trained(e.counter) \in -2 .. 1
      BY <2>2, TrainedIs
    <3>2. PICK n \in Int : n = e.useful + u
      BY <2>2
    <3>3. 0 \in Int /\ 3 \in Int /\ 0 <= 3
      OBVIOUS
    <3>4. Within(0, n, 3) \in 0 .. 3
      BY Zenon, <3>3, Saturates
    <3> QED
      BY <3>1, <3>2, <3>4 DEF counterMin, counterMax, usefulMax
  <2>4. f \in Entry(t) /\ f.tag = e.tag
    BY <2>2, <2>3 DEF Entry
  <2>5. Update(content, t, u) = [content EXCEPT ![Idx] = f]
    BY <1>2 DEF Update
  <2> QED
    BY <2>1, <2>4, <2>5
<1> QED
  BY <1>1, <1>2

LEMMA MainUsefulIs == MainUseful \in -1 .. 1
<1>1. MainUseful \in {0, 1, -1}
  BY Zenon, TowardIs DEF MainUseful
<1> QED
  BY <1>1

LEMMA ProvidersAreTrained ==
  ASSUME IndInv, NEW t \in Tables
  PROVE  /\ UpdateProviders[t] \in [Indices -> Entry(t)]
         /\ \A i \in Indices : UpdateProviders[t][i].tag = tables[t][i].tag
         /\ t \in Longer => UpdateProviders[t] = tables[t]
<1>1. tables[t] \in [Indices -> Entry(t)]
  BY DEF IndInv, TypeOK
<1>2. Toward(taken(pred.alt) = Outcome) \in -1 .. 1 /\ MainUseful \in -1 .. 1
  BY TowardIs, MainUsefulIs
<1>3. CASE t = pred.mainProvider
  <2>1. UpdateProviders[t] = Update(tables[t], t, MainUseful)
    <3>1. t # pred.altProvider
      BY <1>3 DEF IndInv, TypeOK, ProvidersDiffer, Tables
    <3> QED
      BY <1>3, <3>1 DEF UpdateProviders
  <2>2. t \notin Longer
    BY <1>3 DEF Longer, IndInv, TypeOK
  <2> QED
    BY <1>1, <1>2, <2>1, <2>2, UpdateIs
<1>4. CASE t # pred.mainProvider /\ t = pred.altProvider /\ pred.main.useful = 0
  <2>1. UpdateProviders[t] = Update(tables[t], t, Toward(taken(pred.alt) = Outcome))
    BY <1>4 DEF UpdateProviders
  <2>2. t \notin Longer
    BY <1>4 DEF Longer, IndInv, TypeOK
  <2> QED
    BY <1>1, <1>2, <2>1, <2>2, UpdateIs
<1>5. CASE t # pred.mainProvider /\ ~ (t = pred.altProvider /\ pred.main.useful = 0)
  <2>1. UpdateProviders[t] = tables[t]
    BY <1>5 DEF UpdateProviders
  <2> QED
    BY <1>1, <2>1
<1> QED
  BY <1>3, <1>4, <1>5

(***************************************************************************)
(* Allocation: one longer table that has space gets the entry, or no       *)
(* longer table has space and each one's candidate decays.                 *)
(***************************************************************************)
LEMMA AddedIs ==
  ASSUME IndInv, NEW coin
  PROVE  \/ AddedTo(coin) = {} /\ \A t \in Longer : ~ HasSpace(t)
         \/ \E t \in Longer : HasSpace(t) /\ AddedTo(coin) = {t}
<1> DEFINE free == {t \in Longer : HasSpace(t)}
           lucky == {t \in free : coin[t]}
<1>1. Longer \in SUBSET Nat
  BY DEF Longer, IndInv, TypeOK
<1>2. lucky \in SUBSET Nat /\ free \in SUBSET Nat
  BY <1>1
<1>3. CASE lucky # {}
  <2>1. Min(lucky) \in lucky
    BY <1>2, <1>3, SmallestIs
  <2>2. AddedTo(coin) = {Min(lucky)}
    BY <1>3 DEF AddedTo
  <2> QED
    BY <2>1, <2>2
<1>4. CASE lucky = {} /\ free # {}
  <2>1. Min(free) \in free
    BY <1>2, <1>4, SmallestIs
  <2>2. AddedTo(coin) = {Min(free)}
    BY <1>4 DEF AddedTo
  <2> QED
    BY <2>1, <2>2
<1>5. CASE lucky = {} /\ free = {}
  BY <1>5 DEF AddedTo
<1> QED
  BY <1>3, <1>4, <1>5

LEMMA DecayIs ==
  ASSUME NEW t \in Tables, NEW e \in Entry(t)
  PROVE  /\ decay(e) \in Entry(t) /\ decay(e).tag = e.tag
         /\ e.useful # 0 => decay(e).useful < e.useful
<1>1. e.useful \in 0 .. 3 /\ e.useful - 1 \in Int
  BY EntryParts
<1>2. Max({e.useful - 1, 0}) = IF e.useful - 1 >= 0 THEN e.useful - 1 ELSE 0
  BY <1>1, LargerOfTwo
<1>3. Max({e.useful - 1, 0}) \in 0 .. 3 /\ (e.useful # 0 => Max({e.useful - 1, 0}) < e.useful)
  BY <1>1, <1>2
<1> QED
  BY <1>3 DEF decay, Entry, usefulMax
(* What an allocation leaves of a table: a changed tag is the one of the   *)
(* table that got the entry.                                               *)
LEMMA AllocatedIs ==
  ASSUME IndInv, NEW coin, NEW t \in Tables
  PROVE  LET new == Allocate(UpdateProviders, coin)[t]
         IN  /\ new \in [Indices -> Entry(t)]
             /\ \A i \in Indices : new[i].tag # tables[t][i].tag =>
                  t \in Longer /\ HasSpace(t) /\ AddedTo(coin) = {t}
             /\ AddedTo(coin) = {t} =>
                  new[Idx].tag = Tag(t) /\ new[Idx].counter = 0 /\ new[Idx].useful = 0
             /\ AddedTo(coin) = {} /\ t \in Longer =>
                  new[Idx].useful < tables[t][Idx].useful
<1> DEFINE old == UpdateProviders[t]
           new == Allocate(UpdateProviders, coin)[t]
           e == old[Idx]
<1>1. Idx \in Indices /\ Tag(t) \in SUBSET (0 .. tagLen(t) - 1)
  BY Hashes
<1>2. /\ old \in [Indices -> Entry(t)]
      /\ \A i \in Indices : old[i].tag = tables[t][i].tag
      /\ t \in Longer => old = tables[t]
  BY ProvidersAreTrained
<1>3. e \in Entry(t)
  BY <1>1, <1>2
<1>4. \/ AddedTo(coin) = {} /\ \A u \in Longer : ~ HasSpace(u)
      \/ \E u \in Longer : HasSpace(u) /\ AddedTo(coin) = {u}
  BY AddedIs
<1>5. CASE t \in AddedTo(coin)
  <2>1. AddedTo(coin) = {t} /\ t \in Longer /\ HasSpace(t)
    BY <1>4, <1>5
  <2> DEFINE f == [e EXCEPT !.counter = 0, !.tag = Tag(t)]
  <2>2. new = [old EXCEPT ![Idx] = f]
    BY <1>1, <1>2, <1>5, <2>1 DEF Allocate
  <2>3. f \in Entry(t) /\ f.tag = Tag(t) /\ f.counter = 0 /\ f.useful = e.useful
    <3>1. 0 \in counterMin .. counterMax
      BY DEF counterMin, counterMax
    <3> HIDE DEF e
    <3> QED
      BY <1>1, <1>3, <3>1 DEF Entry
  <2>4. e.useful = 0
    BY <1>2, <2>1 DEF HasSpace
  <2> HIDE DEF f, e, old, new
  <2>5. new \in [Indices -> Entry(t)] /\ new[Idx] = f
    BY <1>1, <1>2, <2>2, <2>3
  <2> QED
    BY <2>1, <2>3, <2>4, <2>5 DEF new
<1>6. CASE AddedTo(coin) = {} /\ t \in Longer
  <2>1. ~ HasSpace(t)
    BY <1>4, <1>6
  <2>2. new = [old EXCEPT ![Idx] = decay(e)]
    BY <1>1, <1>2, <1>6 DEF Allocate
  <2>3. e.useful # 0 /\ e = tables[t][Idx]
    BY <1>2, <1>6, <2>1 DEF HasSpace
  <2>4. decay(e) \in Entry(t) /\ decay(e).tag = e.tag /\ decay(e).useful < e.useful
    BY <1>3, <2>3, DecayIs
  <2> HIDE DEF e, old, new
  <2>5. /\ new \in [Indices -> Entry(t)] /\ new[Idx] = decay(e)
        /\ \A i \in Indices : i # Idx => new[i] = old[i]
    BY <1>1, <1>2, <2>2, <2>4
  <2>6. \A i \in Indices : new[i].tag = tables[t][i].tag
    BY <1>2, <2>3, <2>4, <2>5
  <2> QED
    BY <1>6, <2>3, <2>4, <2>5, <2>6 DEF new
<1>7. CASE t \notin AddedTo(coin) /\ ~ (AddedTo(coin) = {} /\ t \in Longer)
  <2>1. new = old
    BY <1>7 DEF Allocate
  <2>2. AddedTo(coin) # {t}
    BY <1>7
  <2> HIDE DEF old, new
  <2> QED
    BY <1>2, <1>7, <2>1, <2>2 DEF new
<1> QED
  BY <1>5, <1>6, <1>7

(* The soft reset lowers useful counters and changes nothing else.         *)
LEMMA SoftResetIs ==
  ASSUME IndInv, NEW new, NEW t \in Tables, new[t] \in [Indices -> Entry(t)]
  PROVE  /\ SoftReset(new)[t] \in [Indices -> Entry(t)]
         /\ \A i \in Indices : /\ SoftReset(new)[t][i].tag = new[t][i].tag
                               /\ SoftReset(new)[t][i].counter = new[t][i].counter
                               /\ SoftReset(new)[t][i].useful <= new[t][i].useful
                               /\ SoftReset(new)[t][i].useful \in 0 .. 3
<1>1. ASSUME NEW i \in Indices
      PROVE  LET e == new[t][i]
                 f == SoftReset(new)[t][i]
             IN  /\ f \in Entry(t)
                 /\ f.tag = e.tag /\ f.counter = e.counter
                 /\ f.useful <= e.useful /\ f.useful \in 0 .. 3
  <2> DEFINE e == new[t][i]
             f == SoftReset(new)[t][i]
             u == IF resetMask = 1 THEN e.useful % 2 ELSE e.useful - (e.useful % 2)
  <2>1. e \in Entry(t) /\ e.useful \in 0 .. 3
    BY EntryParts
  <2>2. f = [e EXCEPT !.useful = u]
    BY Zenon DEF SoftReset
  <2>3. u \in 0 .. 3 /\ u <= e.useful
    BY <2>1
  <2> HIDE DEF u, e, f
  <2>4. f \in Entry(t) /\ f.tag = e.tag /\ f.counter = e.counter /\ f.useful = u
    BY <2>1, <2>2, <2>3 DEF Entry, usefulMax
  <2> QED
    BY <2>3, <2>4 DEF e, f
<1>2. SoftReset(new)[t] = [i \in Indices |-> SoftReset(new)[t][i]]
  BY Zenon DEF SoftReset
<1> QED
  BY <1>1, <1>2
(***************************************************************************)
(* What an update does to the tables, the two properties of it, and that   *)
(* every step keeps the invariant.                                         *)
(***************************************************************************)
Requested(coin) ==
  IF RequestNewEntry THEN Allocate(UpdateProviders, coin) ELSE UpdateProviders

LEMMA RequestedIs ==
  ASSUME IndInv, NEW coin, NEW t \in Tables
  PROVE  LET new == Requested(coin)[t]
         IN  /\ new \in [Indices -> Entry(t)]
             /\ \A i \in Indices : new[i].tag # tables[t][i].tag =>
                  t \in Longer /\ HasSpace(t) /\ AddedTo(coin) = {t}
             /\ RequestNewEntry /\ AddedTo(coin) = {t} =>
                  new[Idx].tag = Tag(t) /\ new[Idx].counter = 0 /\ new[Idx].useful = 0
             /\ RequestNewEntry /\ AddedTo(coin) = {} /\ t \in Longer =>
                  new[Idx].useful < tables[t][Idx].useful
<1>1. CASE RequestNewEntry
  <2>1. Requested(coin) = Allocate(UpdateProviders, coin)
    BY <1>1 DEF Requested
  <2> QED
    BY <2>1, AllocatedIs
<1>2. CASE ~ RequestNewEntry
  <2>1. Requested(coin) = UpdateProviders
    BY <1>2 DEF Requested
  <2>2. /\ Requested(coin)[t] \in [Indices -> Entry(t)]
        /\ \A i \in Indices : Requested(coin)[t][i].tag = tables[t][i].tag
    BY <2>1, ProvidersAreTrained
  <2> QED
    BY <1>2, <2>2
<1> QED
  BY <1>1, <1>2

(* The tables after an update, soft reset or not.                          *)
LEMMA UpdatedIs ==
  ASSUME IndInv, NEW coin, UpdateTables(coin), NEW t \in Tables
  PROVE  /\ tables'[t] \in [Indices -> Entry(t)]
         /\ \A i \in Indices : tables'[t][i].tag # tables[t][i].tag =>
              t \in Longer /\ HasSpace(t) /\ AddedTo(coin) = {t}
         /\ RequestNewEntry /\ AddedTo(coin) = {t} =>
              tables'[t][Idx].tag = Tag(t) /\ weak(tables'[t][Idx])
         /\ RequestNewEntry /\ AddedTo(coin) = {} /\ t \in Longer =>
              tables'[t][Idx].useful < tables[t][Idx].useful
<1> DEFINE new == Requested(coin)[t]
           now == tables'[t]
           old == tables[t]
<1>1. /\ new \in [Indices -> Entry(t)]
      /\ \A i \in Indices : new[i].tag # old[i].tag =>
           t \in Longer /\ HasSpace(t) /\ AddedTo(coin) = {t}
      /\ RequestNewEntry /\ AddedTo(coin) = {t} =>
           new[Idx].tag = Tag(t) /\ new[Idx].counter = 0 /\ new[Idx].useful = 0
      /\ RequestNewEntry /\ AddedTo(coin) = {} /\ t \in Longer =>
           new[Idx].useful < old[Idx].useful
  BY RequestedIs
<1>2. Idx \in Indices
  BY Hashes
<1>3. /\ now \in [Indices -> Entry(t)]
      /\ \A i \in Indices : /\ now[i].tag = new[i].tag /\ now[i].counter = new[i].counter
                            /\ now[i].useful <= new[i].useful /\ now[i].useful \in 0 .. 3
  <2>1. tables' = SoftReset(Requested(coin)) \/ tables' = Requested(coin)
    BY Zenon DEF UpdateTables, Requested
  <2>2. CASE tables' = SoftReset(Requested(coin))
    BY <1>1, <2>2, SoftResetIs
  <2>3. CASE tables' = Requested(coin)
    <3>1. now = new
      BY <2>3
    <3>2. \A i \in Indices : new[i].useful \in 0 .. 3
      BY <1>1, EntryParts
    <3> HIDE DEF now, new
    <3>3. \A i \in Indices : new[i].useful <= new[i].useful
      BY <3>2
    <3> QED
      BY <1>1, <3>1, <3>2, <3>3 DEF new
  <2> QED
    BY <2>1, <2>2, <2>3
<1>4. old[Idx].useful \in 0 .. 3 /\ new[Idx].useful \in 0 .. 3
  <2>1. old \in [Indices -> Entry(t)]
    BY DEF IndInv, TypeOK
  <2> QED
    BY <1>1, <1>2, <2>1, EntryParts
<1> HIDE DEF now, new, old
<1>5. \A i \in Indices : now[i].tag # old[i].tag =>
        t \in Longer /\ HasSpace(t) /\ AddedTo(coin) = {t}
  BY <1>1, <1>3
<1>6. RequestNewEntry /\ AddedTo(coin) = {t} => now[Idx].tag = Tag(t) /\ weak(now[Idx])
  <2> SUFFICES ASSUME RequestNewEntry, AddedTo(coin) = {t}
               PROVE  now[Idx].tag = Tag(t) /\ weak(now[Idx])
    OBVIOUS
  <2>1. /\ now[Idx].tag = Tag(t) /\ now[Idx].counter = 0
        /\ now[Idx].useful <= 0 /\ now[Idx].useful \in 0 .. 3
    BY <1>1, <1>2, <1>3
  <2> QED
    BY <2>1 DEF weak
<1>7. RequestNewEntry /\ AddedTo(coin) = {} /\ t \in Longer => now[Idx].useful < old[Idx].useful
  <2> SUFFICES ASSUME RequestNewEntry, AddedTo(coin) = {}, t \in Longer
               PROVE  now[Idx].useful < old[Idx].useful
    OBVIOUS
  <2>1. /\ new[Idx].useful < old[Idx].useful
        /\ now[Idx].useful <= new[Idx].useful /\ now[Idx].useful \in 0 .. 3
    BY <1>1, <1>2, <1>3
  <2> QED
    BY <1>4, <2>1
<1> QED
  BY <1>3, <1>5, <1>6, <1>7 DEF now, old
LEMMA EmptyIsTyped ==
  /\ DOMAIN EmptyTables = Tables
  /\ \A t \in Tables : EmptyTables[t] \in [Indices -> Entry(t)]
<1>1. 0 \in counterMin .. counterMax /\ 0 \in 0 .. usefulMax
  BY DEF counterMin, counterMax, usefulMax
<1>2. \A t \in Tables : ZeroEntry \in Entry(t)
  BY <1>1 DEF ZeroEntry, Entry
<1> QED
  BY <1>2 DEF EmptyTables

LEMMA NoPredictionIs ==
  /\ NoPrediction.mainProvider \in -1 .. nTables - 1
  /\ NoPrediction.altProvider \in -1 .. NoPrediction.mainProvider
  /\ NoPrediction.mainProvider = -1 /\ NoPrediction.altProvider = -1
  /\ ~ valid(NoPrediction.main) /\ ~ valid(NoPrediction.alt)
  /\ NoPrediction.made \in BOOLEAN
<1>1. nTables \in Nat
  OBVIOUS
<1> QED
  BY <1>1 DEF NoPrediction, NotFound, valid

LEMMA InitInv == Init => IndInv
<1> SUFFICES ASSUME Init PROVE IndInv
  OBVIOUS
<1>1. history \in Histories
  BY DEF Init, Histories
<1>2. /\ branchCount \in 0 .. resetPeriod + 1 /\ resetMask \in {1, 2}
      /\ left \in 0 .. Branches /\ branch \in PCs \X BOOLEAN
  BY DEF Init
<1>3. /\ DOMAIN tables = Tables
      /\ \A t \in Tables : tables[t] \in [Indices -> Entry(t)]
  BY EmptyIsTyped DEF Init
<1>4. pred = NoPrediction
  BY DEF Init
<1> QED
  BY <1>1, <1>2, <1>3, <1>4, NoPredictionIs DEF IndInv, TypeOK, ProvidersDiffer

LEMMA UpdateStep ==
  ASSUME IndInv, NEW coin, UpdateTables(coin)
  PROVE  IndInv'
<1>1. pred' = NoPrediction
  BY DEF UpdateTables
<1>2. history' \in Histories
  BY DEF UpdateTables, Mask, Histories
<1>3. branchCount' \in 0 .. resetPeriod + 1
  <2>1. /\ branchCount \in 0 .. resetPeriod + 1 /\ resetPeriod \in Nat
        /\ branchCount + 1 \in Int /\ resetPeriod + 1 \in Int
    BY DEF IndInv, TypeOK
  <2>2. Min({branchCount + 1, resetPeriod + 1}) =
          IF branchCount + 1 <= resetPeriod + 1 THEN branchCount + 1 ELSE resetPeriod + 1
    BY <2>1, SmallerOfTwo
  <2>3. branchCount' = Min({branchCount + 1, resetPeriod + 1})
    BY DEF UpdateTables
  <2> QED
    BY <2>1, <2>2, <2>3
<1>4. resetMask' \in {1, 2}
  <2>1. resetMask' = 3 - resetMask \/ resetMask' = resetMask
    BY DEF UpdateTables
  <2> QED
    BY <2>1 DEF IndInv, TypeOK
<1>5. branch' \in PCs \X BOOLEAN /\ left' \in 0 .. Branches
  <2>1. NextBranch
    BY DEF UpdateTables
  <2> QED
    BY <2>1 DEF NextBranch, IndInv, TypeOK
<1>6. DOMAIN tables' = Tables
  <2>1. \/ tables' = SoftReset(Requested(coin)) \/ tables' = Requested(coin)
    BY Zenon DEF UpdateTables, Requested
  <2>2. DOMAIN SoftReset(Requested(coin)) = Tables
    BY DEF SoftReset
  <2>3. DOMAIN UpdateProviders = Tables /\ DOMAIN Allocate(UpdateProviders, coin) = Tables
    BY DEF UpdateProviders, Allocate
  <2>4. DOMAIN Requested(coin) = Tables
    BY <2>3 DEF Requested
  <2> QED
    BY <2>1, <2>2, <2>4
<1>7. \A t \in Tables : tables'[t] \in [Indices -> Entry(t)]
  BY UpdatedIs
<1> QED
  BY <1>1, <1>2, <1>3, <1>4, <1>5, <1>6, <1>7, NoPredictionIs
     DEF IndInv, TypeOK, ProvidersDiffer

LEMMA ResetStep ==
  ASSUME IndInv, Reset
  PROVE  IndInv'
<1>1. history' \in Histories
  BY DEF Reset, Histories
<1>2. /\ branchCount' \in 0 .. resetPeriod + 1 /\ resetMask' \in {1, 2}
      /\ left' \in 0 .. Branches
  BY DEF Reset, IndInv, TypeOK
<1>3. /\ DOMAIN tables' = Tables
      /\ \A t \in Tables : tables'[t] \in [Indices -> Entry(t)]
  BY EmptyIsTyped DEF Reset
<1>4. pred' = pred /\ branch' = branch
  BY DEF Reset
<1> QED
  BY <1>1, <1>2, <1>3, <1>4 DEF IndInv, TypeOK, ProvidersDiffer

LEMMA StepInv == IndInv /\ [Next]_vars => IndInv'
<1> SUFFICES ASSUME IndInv, [Next]_vars PROVE IndInv'
  OBVIOUS
<1>1. CASE \E base \in BOOLEAN : Predict(base)
  BY <1>1, PredictStep
<1>2. CASE \E coin \in [Tables -> BOOLEAN] : UpdateTables(coin)
  BY <1>2, UpdateStep
<1>3. CASE Reset
  BY <1>3, ResetStep
<1>4. CASE UNCHANGED vars
  BY <1>4 DEF vars, IndInv, TypeOK, ProvidersDiffer
<1> QED
  BY <1>1, <1>2, <1>3, <1>4 DEF Next

(* The inductive invariant, for every trace.                               *)
THEOREM TAGECorrect == Spec => []IndInv
BY InitInv, StepInv, PTL DEF Spec

(* Every counter stays in its range through training, decay and the soft   *)
(* resets, and a prediction has a provider exactly if it found an entry.   *)
THEOREM TAGETypeCorrect == Spec => []TypeOK
BY TAGECorrect, PTL DEF IndInv

(* Only an update changes a tag, ...                                       *)
LEMMA OnlyUpdates ==
  ASSUME [Next]_vars, pred.made
  PROVE  UNCHANGED vars \/ \E coin \in [Tables -> BOOLEAN] : UpdateTables(coin)
BY DEF Next, Predict, Reset
(* ... so an entry whose useful counter is not zero, and the entries of    *)
(* the providers, outlive every step (tage.cc:104-128).                    *)
THEOREM UsefulEntriesSurvive == Spec => UsefulEntrySurvives
<1>1. IndInv /\ [Next]_vars => [ReplacesAtMostOne]_vars
  <2> SUFFICES ASSUME IndInv, [Next]_vars, vars' # vars, pred.made
               PROVE  ReplacesAtMostOne
    BY DEF ReplacesAtMostOne
  <2>1. PICK coin \in [Tables -> BOOLEAN] : UpdateTables(coin)
    BY OnlyUpdates
  <2> DEFINE replaced == {t \in Tables : \E i \in Indices : tables'[t][i].tag # tables[t][i].tag}
  <2>2. \A t \in replaced : t \in Longer /\ HasSpace(t) /\ AddedTo(coin) = {t}
    BY <2>1, UpdatedIs
  <2>3. \A t \in replaced : t > pred.mainProvider /\ Candidate(t).useful = 0
    BY <2>2 DEF Longer, HasSpace, Candidate, IndInv, TypeOK
  <2> HIDE DEF replaced
  <2>4. Cardinality(replaced) <= 1
    <3>1. CASE replaced = {}
      <4>1. Cardinality({}) = 0
        BY FS_EmptySet
      <4> QED
        BY <3>1, <4>1
    <3>2. CASE replaced # {}
      <4>1. PICK t \in replaced : AddedTo(coin) = {t}
        BY <2>2, <3>2
      <4>2. \A u \in replaced : {u} = {t}
        BY <2>2, <4>1
      <4>3. replaced = {t}
        BY <4>1, <4>2
      <4>4. Cardinality({t}) = 1
        BY FS_Singleton
      <4> QED
        BY <4>3, <4>4
    <3> QED
      BY <3>1, <3>2
  <2>5. /\ Cardinality(replaced) <= 1
        /\ \A t \in replaced : t > pred.mainProvider /\ Candidate(t).useful = 0
    BY <2>3, <2>4
  <2> QED
    BY <2>5 DEF ReplacesAtMostOne, replaced
<1> QED
  BY <1>1, TAGECorrect, PTL DEF Spec, UsefulEntrySurvives

(* A wrong prediction of a settled provider gives the branch an entry in a *)
(* longer table, or lowers every candidate there (tage.cc:90-128).         *)
THEOREM WrongPredictionsMakeRoom == Spec => WrongPredictionMakesRoom
<1>1. IndInv /\ [Next]_vars => [MakesRoom]_vars
  <2> SUFFICES ASSUME IndInv, [Next]_vars, vars' # vars,
                      pred.made, pred.overall # Outcome,
                      ~ (valid(pred.main) /\ weak(pred.main))
               PROVE  \/ \E t \in Longer : tables'[t][Idx].tag = Tag(t) /\ weak(tables'[t][Idx])
                      \/ \A t \in Longer : tables'[t][Idx].useful < tables[t][Idx].useful
    BY DEF MakesRoom
  <2>1. PICK coin \in [Tables -> BOOLEAN] : UpdateTables(coin)
    BY OnlyUpdates
  <2>2. RequestNewEntry
    BY Zenon DEF RequestNewEntry
  <2>3. Longer \in SUBSET Tables
    BY DEF Longer, Tables, IndInv, TypeOK
  <2>4. CASE AddedTo(coin) = {}
    BY <2>1, <2>2, <2>3, <2>4, UpdatedIs
  <2>5. CASE \E t \in Longer : AddedTo(coin) = {t}
    BY <2>1, <2>2, <2>3, <2>5, UpdatedIs
  <2> QED
    BY <2>4, <2>5, AddedIs
<1> QED
  BY <1>1, TAGECorrect, PTL DEF Spec, WrongPredictionMakesRoom
=============================================================================
