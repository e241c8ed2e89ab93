------------------------------ MODULE VIPProofs ------------------------------
(***************************************************************************)
(* Proofs about the segments of the segmented-LRU cache, and about the     *)
(* cache and the VIP predictor above it, for every set of branches, number *)
(* of entries and snapshot interval.                                       *)
(***************************************************************************)
EXTENDS VIP, FiniteSetTheorems, WellFoundedInduction, TLAPS

-------------------------------------------------------------------------------
(* What bump(), add() and remove() leave of a segment. *)
USE ConstantsAssumption

(* The invariant of a segment: the ages are a permutation of the slots, a  *)
(* valid entry is younger than a free one, lru names the oldest slot, and  *)
(* a branch is in one valid entry at most.                                 *)
Ranked(s) == \A i, j \in Slots : s.entries[i].age = s.entries[j].age => i = j
FreeIsOlder(s) ==
  \A i \in Valid(s), j \in Slots \ Valid(s) : s.entries[i].age < s.entries[j].age
LruIsOldest(s) == s.entries[s.lru].age = numEntries - 1
Named(s) == \A i \in Slots : s.entries[i].valid <=> s.entries[i].pc # NoPC
Distinct(s) == \A i, j \in Valid(s) : s.entries[i].pc = s.entries[j].pc => i = j

GoodSegment(s) ==
  /\ s \in Segments
  /\ Ranked(s) /\ FreeIsOlder(s) /\ LruIsOldest(s) /\ Named(s) /\ Distinct(s)

(***************************************************************************)
(* The least and the greatest of a set of slots.                           *)
(***************************************************************************)
LEMMA OnlyMin ==
  ASSUME NEW i \in Int
  PROVE  Min({i}) = i
<1>1. i \in {i} /\ \A y \in {i} : i =< y
  OBVIOUS
<1>2. Min({i}) \in {i}
  BY <1>1 DEF Min
<1> QED
  BY <1>2

LEMMA OnlyMax ==
  ASSUME NEW i \in Int
  PROVE  Max({i}) = i
<1>1. i \in {i} /\ \A y \in {i} : i >= y
  OBVIOUS
<1>2. Max({i}) \in {i}
  BY <1>1 DEF Max
<1> QED
  BY <1>2

LEMMA SlotsAreFinite ==
  /\ IsFiniteSet(Slots) /\ Cardinality(Slots) = numEntries
  /\ Slots \subseteq Int /\ numEntries - 1 \in Slots /\ 0 \in Slots
<1>1. 0 \in Int /\ numEntries - 1 \in Int /\ ~(0 > numEntries - 1) /\ numEntries - 1 - 0 + 1 = numEntries
  OBVIOUS
<1>2. /\ IsFiniteSet(0 .. numEntries - 1)
      /\ Cardinality(0 .. numEntries - 1)
           = IF 0 > numEntries - 1 THEN 0 ELSE numEntries - 1 - 0 + 1
  BY <1>1, FS_Interval
<1> QED
  BY <1>1, <1>2 DEF Slots

LEMMA FirstSlot ==
  ASSUME NEW S \in SUBSET Slots, S # {}
  PROVE  \E i \in S : \A j \in S : i <= j
<1> DEFINE R == OpToRel(<, Nat)
<1>1. \A x, y \in Nat : <<y, x>> \in R <=> y < x
  BY DEF OpToRel
<1>2. IsWellFoundedOn(R, Nat) /\ S \in SUBSET Nat
  <2>1. S \in SUBSET Nat
    BY DEF Slots
  <2> QED
    BY <2>1, NatLessThanWellFounded
<1> HIDE DEF R
<1>3. PICK i \in S : \A j \in S : ~(<<j, i>> \in R)
  BY <1>2, WFMin
<1>4. \A j \in S : j \in Nat /\ i \in Nat /\ ~(j < i)
  BY <1>1, <1>2, <1>3
<1>5. \A j \in S : i <= j
  BY <1>4
<1> QED
  BY <1>5

(* Different ages, as many as the slots, are all of the ages.              *)
LEMMA AgesCover ==
  ASSUME NEW s \in Segments, Ranked(s), NEW a \in Slots
  PROVE  \E i \in Slots : s.entries[i].age = a
<1> DEFINE f == [i \in Slots |-> s.entries[i].age]
<1>1. f \in [Slots -> Slots]
  BY DEF Segments, Entry
<1>2. \A i, j \in Slots : f[i] = f[j] => i = j
  BY DEF Ranked
<1> HIDE DEF f
<1>3. f \in Injection(Slots, Slots)
  BY <1>1, <1>2 DEF Injection, IsInjective
<1>4. f \in Surjection(Slots, Slots)
  BY <1>3, SlotsAreFinite, FS_Injection
<1>5. \E i \in Slots : f[i] = a
  BY <1>4 DEF Surjection
<1> QED
  BY <1>5 DEF f

(***************************************************************************)
(* The parts of a good segment, and one slot of its entries taken.         *)
(***************************************************************************)
LEMMA SegmentParts ==
  ASSUME NEW s, GoodSegment(s)
  PROVE  /\ s \in Segments /\ s.lru \in Slots /\ s.entries \in [Slots -> Entry]
         /\ \A i \in Slots : s.entries[i] \in Entry /\ s.entries[i].age \in Slots /\ s.entries[i].age \in Int
<1>1. s \in Segments
  BY DEF GoodSegment
<1>2. s.lru \in Slots /\ s.entries \in [Slots -> Entry]
  BY <1>1 DEF Segments
<1>3. \A e \in Entry : e.age \in Slots
  BY DEF Entry
<1>4. \A a \in Slots : a \in Int
  BY DEF Slots
<1> QED
  BY <1>1, <1>2, <1>3, <1>4

LEMMA TakenSlot ==
  ASSUME NEW f \in [Slots -> Entry], NEW k \in Slots, NEW e \in Entry, NEW g, g = [f EXCEPT ![k] = e]
  PROVE  g \in [Slots -> Entry] /\ g[k] = e /\ \A i \in Slots \ {k} : g[i] = f[i]
  OBVIOUS

(***************************************************************************)
(* The entries of a set age by one step.                                   *)
(***************************************************************************)
LEMMA AgedIs ==
  ASSUME NEW s \in Segments, NEW S \in SUBSET Slots,
         \A i \in S : s.entries[i].age < numEntries - 1
  PROVE  LET t == Aged(s, S)
         IN /\ t.entries \in [Slots -> Entry]
            /\ \A i \in Slots : /\ t.entries[i].valid = s.entries[i].valid
                                /\ t.entries[i].pc = s.entries[i].pc
                                /\ t.entries[i].age = IF i \in S THEN s.entries[i].age + 1
                                                      ELSE s.entries[i].age
            /\ (\A i \in S : s.entries[i].age # numEntries - 2) => t.lru = s.lru
            /\ \A i \in S : /\ s.entries[i].age = numEntries - 2
                            /\ \A j \in S : s.entries[j].age = numEntries - 2 => j = i
                            => t.lru = i
<1> DEFINE t == Aged(s, S)
           older == [i \in Slots |-> IF i \in S THEN [s.entries[i] EXCEPT !.age = @ + 1]
                                     ELSE s.entries[i]]
           oldest == {i \in S : s.entries[i].age = numEntries - 2}
<1>1. t.entries = older /\ t.lru = IF oldest = {} THEN s.lru ELSE Max(oldest)
  BY DEF Aged
<1>2. ASSUME NEW i \in Slots
      PROVE  /\ older[i] \in Entry
             /\ older[i].valid = s.entries[i].valid
             /\ older[i].pc = s.entries[i].pc
             /\ older[i].age = IF i \in S THEN s.entries[i].age + 1 ELSE s.entries[i].age
  <2>1. s.entries[i] \in Entry
    BY DEF Segments
  <2>2. CASE i \in S
    <3>1. older[i] = [s.entries[i] EXCEPT !.age = s.entries[i].age + 1]
      BY <2>2
    <3>2. s.entries[i].age + 1 \in Slots
      BY <2>1, <2>2 DEF Entry, Slots
    <3> QED
      BY <2>1, <2>2, <3>1, <3>2 DEF Entry
  <2>3. CASE i \notin S
    BY <2>1, <2>3
  <2> QED
    BY <2>2, <2>3
<1>3. older \in [Slots -> Entry]
  BY <1>2
<1>4. ASSUME NEW i \in S, s.entries[i].age = numEntries - 2,
             \A j \in S : s.entries[j].age = numEntries - 2 => j = i
      PROVE  t.lru = i
  <2>1. oldest = {i} /\ i \in Int
    <3>1. i \in oldest /\ \A j \in oldest : j = i
      BY <1>4
    <3>2. i \in Int
      BY SlotsAreFinite
    <3> QED
      BY <3>1, <3>2
  <2>2. Max(oldest) = i
    BY <2>1, OnlyMax
  <2>3. t.lru = Max(oldest)
    BY <2>1, <1>1
  <2> QED
    BY <2>2, <2>3
<1>5. ASSUME \A i \in S : s.entries[i].age # numEntries - 2
      PROVE  t.lru = s.lru
  BY <1>5, <1>1
<1> HIDE DEF older, oldest, t
<1> QED
  BY <1>1, <1>2, <1>3, <1>4, <1>5 DEF t

(* A branch that is in the segment has one entry, and a valid one.         *)
LEMMA Found ==
  ASSUME NEW s, GoodSegment(s), NEW pc, contains(s, pc)
  PROVE  \E i \in Valid(s) : At(s, pc) = {i} /\ Min(At(s, pc)) = i /\ s.entries[i].pc = pc
<1>1. PICK i \in Slots : s.entries[i].valid /\ s.entries[i].pc = pc
  BY DEF contains, At
<1>2. At(s, pc) = {i}
  BY <1>1 DEF At, GoodSegment, Distinct, Valid
<1>3. i \in Int
  BY DEF Slots
<1> QED
  BY <1>1, <1>2, <1>3, OnlyMin DEF Valid

(***************************************************************************)
(* bump(): the branch becomes the youngest and those that were younger age *)
(* by one step; every entry stays where it is.                             *)
(***************************************************************************)
LEMMA Bumped ==
  ASSUME NEW s, GoodSegment(s), NEW pc \in PCs, contains(s, pc)
  PROVE  LET t == bump(s, pc)
         IN /\ GoodSegment(t)
            /\ \A i \in Slots : t.entries[i].valid = s.entries[i].valid /\ t.entries[i].pc = s.entries[i].pc
            /\ \E k \in Valid(s) : /\ s.entries[k].pc = pc /\ t.entries[k].age = 0
                                   /\ \A i \in Slots \ {k} :
                                        t.entries[i].age = IF s.entries[i].age < s.entries[k].age
                                                           THEN s.entries[i].age + 1
                                                           ELSE s.entries[i].age
<1> DEFINE t == bump(s, pc)
           n == numEntries
<1>1. PICK k \in Valid(s) : At(s, pc) = {k} /\ Min(At(s, pc)) = k /\ s.entries[k].pc = pc
  BY Found
<1>2. k \in Slots /\ s.entries[k].valid
  BY DEF Valid
<1>3. /\ s \in Segments /\ s.lru \in Slots
      /\ \A i \in Slots : s.entries[i] \in Entry /\ s.entries[i].age \in Slots /\ s.entries[i].age \in Int
  BY SegmentParts
<1> DEFINE S == Younger(s, k)
           old == Aged(s, S)
<1>4. t = [old EXCEPT !.entries[k].age = 0]
  BY <1>1 DEF bump
<1>5. S \in SUBSET Slots /\ k \notin S
      /\ \A i \in Slots : i \in S <=> s.entries[i].age < s.entries[k].age
  BY <1>3 DEF Younger
<1>6. \A i \in S : s.entries[i].age < n - 1
  BY <1>2, <1>3, <1>5 DEF Slots
<1>7. /\ old.entries \in [Slots -> Entry]
      /\ \A i \in Slots : /\ old.entries[i].valid = s.entries[i].valid
                          /\ old.entries[i].pc = s.entries[i].pc
                          /\ old.entries[i].age = IF i \in S THEN s.entries[i].age + 1
                                                  ELSE s.entries[i].age
      /\ (\A i \in S : s.entries[i].age # n - 2) => old.lru = s.lru
      /\ \A i \in S : /\ s.entries[i].age = n - 2
                      /\ \A j \in S : s.entries[j].age = n - 2 => j = i
                      => old.lru = i
  BY <1>3, <1>5, <1>6, AgedIs
<1>8. old = [entries |-> old.entries, lru |-> old.lru]
  BY DEF Aged
<1> HIDE DEF S, old, t
<1>9. t = [entries |-> [old.entries EXCEPT ![k] = [old.entries[k] EXCEPT !.age = 0]], lru |-> old.lru]
  BY <1>4, <1>7, <1>8
<1>10. /\ t.lru = old.lru
       /\ t.entries = [old.entries EXCEPT ![k] = [old.entries[k] EXCEPT !.age = 0]]
  BY <1>9
<1>11. /\ t.entries \in [Slots -> Entry]
       /\ t.entries[k].valid = s.entries[k].valid /\ t.entries[k].pc = s.entries[k].pc
       /\ t.entries[k].age = 0
       /\ \A i \in Slots \ {k} : t.entries[i] = old.entries[i]
  <2>1. old.entries[k] \in Entry
    BY <1>2, <1>7
  <2>2. /\ [old.entries[k] EXCEPT !.age = 0] \in Entry
        /\ [old.entries[k] EXCEPT !.age = 0].valid = old.entries[k].valid
        /\ [old.entries[k] EXCEPT !.age = 0].pc = old.entries[k].pc
        /\ [old.entries[k] EXCEPT !.age = 0].age = 0
    BY <2>1, SlotsAreFinite DEF Entry
  <2>3. old.entries \in [Slots -> Entry]
    BY <1>7
  <2>4. old.entries[k].valid = s.entries[k].valid /\ old.entries[k].pc = s.entries[k].pc
    BY <1>2, <1>7
  <2>5. PICK e : e = [old.entries[k] EXCEPT !.age = 0]
    OBVIOUS
  <2>6. e \in Entry /\ e.valid = s.entries[k].valid /\ e.pc = s.entries[k].pc /\ e.age = 0
    BY <2>2, <2>4, <2>5
  <2>7. t.entries = [old.entries EXCEPT ![k] = e]
    BY <2>5, <1>10
  <2>8. /\ t.entries \in [Slots -> Entry] /\ t.entries[k] = e
        /\ \A i \in Slots \ {k} : t.entries[i] = old.entries[i]
    BY <2>3, <2>6, <2>7, <1>2, TakenSlot
  <2> QED
    BY <2>6, <2>8
<1>12. \A i \in Slots : t.entries[i].valid = s.entries[i].valid /\ t.entries[i].pc = s.entries[i].pc
  BY <1>7, <1>11
<1>13. \A i \in Slots \ {k} : t.entries[i].age = IF s.entries[i].age < s.entries[k].age
                                                 THEN s.entries[i].age + 1 ELSE s.entries[i].age
  BY <1>5, <1>7, <1>11
<1>14. Ranked(t)
  <2>1. \A i \in Slots \ {k} : s.entries[i].age # s.entries[k].age /\ t.entries[i].age # 0
    <3> TAKE i \in Slots \ {k}
    <3>1. s.entries[i].age # s.entries[k].age
      BY <1>2 DEF GoodSegment, Ranked
    <3>2. PICK a : a = s.entries[i].age
      OBVIOUS
    <3>3. PICK b : b = s.entries[k].age
      OBVIOUS
    <3>4. a \in Slots /\ b \in Slots /\ a # b /\ t.entries[i].age = IF a < b THEN a + 1 ELSE a
      BY <3>1, <3>2, <3>3, <1>2, <1>3, <1>13
    <3>5. \A x, y \in Slots : x # y => (IF x < y THEN x + 1 ELSE x) # 0
      BY DEF Slots
    <3> QED
      BY <3>1, <3>4, <3>5
  <2>2. ASSUME NEW i \in Slots \ {k}, NEW j \in Slots \ {k}, t.entries[i].age = t.entries[j].age
        PROVE  i = j
    <3>1. /\ t.entries[i].age = IF s.entries[i].age < s.entries[k].age
                               THEN s.entries[i].age + 1 ELSE s.entries[i].age
          /\ t.entries[j].age = IF s.entries[j].age < s.entries[k].age
                               THEN s.entries[j].age + 1 ELSE s.entries[j].age
      BY <1>13
    <3>2. /\ s.entries[i].age \in Int /\ s.entries[j].age \in Int /\ s.entries[k].age \in Int
          /\ s.entries[i].age # s.entries[k].age /\ s.entries[j].age # s.entries[k].age
      BY <2>1, <1>2, <1>3
    <3>3. \A a, b, c \in Int : /\ a # c /\ b # c
                              /\ (IF a < c THEN a + 1 ELSE a) = (IF b < c THEN b + 1 ELSE b)
                              => a = b
      OBVIOUS
    <3>4. s.entries[i].age = s.entries[j].age
      BY <2>2, <3>1, <3>2, <3>3
    <3> QED
      BY <3>4 DEF GoodSegment, Ranked
  <2> QED
    BY <2>1, <2>2, <1>2, <1>11 DEF Ranked
<1>15. Valid(t) = Valid(s)
  BY <1>12 DEF Valid
<1>16. FreeIsOlder(t)
  <2> SUFFICES ASSUME NEW i \in Valid(s), NEW j \in Slots \ Valid(s)
               PROVE  t.entries[i].age < t.entries[j].age
    BY <1>15 DEF FreeIsOlder
  <2>1. /\ i \in Slots /\ j \in Slots \ {k}
        /\ s.entries[i].age < s.entries[j].age /\ s.entries[k].age < s.entries[j].age
    BY DEF Valid, GoodSegment, FreeIsOlder
  <2>2. s.entries[i].age \in Int /\ s.entries[j].age \in Int /\ s.entries[k].age \in Int
        /\ 0 <= s.entries[k].age
    BY <2>1, <1>2, <1>3 DEF Slots
  <2>3. t.entries[j].age = s.entries[j].age
    BY <2>1, <2>2, <1>13
  <2>4. CASE i = k
    BY <2>1, <2>2, <2>3, <2>4, <1>11
  <2>5. CASE i # k
    <3>1. t.entries[i].age = IF s.entries[i].age < s.entries[k].age
                             THEN s.entries[i].age + 1 ELSE s.entries[i].age
      BY <2>1, <2>5, <1>13
    <3> QED
      BY <2>1, <2>2, <2>3, <3>1
  <2> QED
    BY <2>4, <2>5
<1>17. t \in Segments /\ LruIsOldest(t)
  <2>1. s.entries[s.lru].age = n - 1
    BY DEF GoodSegment, LruIsOldest
  <2>2. CASE s.entries[k].age = n - 1 /\ n > 1
    <3>1. PICK i \in Slots : s.entries[i].age = n - 2
      <4>1. n - 2 \in Slots
        BY <2>2 DEF Slots
      <4> QED
        BY <4>1, AgesCover DEF GoodSegment
    <3>2. i \in S /\ \A j \in S : s.entries[j].age = n - 2 => j = i
      BY <2>2, <3>1, <1>5 DEF GoodSegment, Ranked
    <3>3. t.lru = i /\ i # k
      BY <3>1, <3>2, <1>5, <1>7, <1>10
    <3>4. t.entries[i].age = n - 1
      BY <3>1, <3>3, <2>2, <1>13
    <3> QED
      BY <3>3, <3>4, <1>9, <1>11 DEF Segments, LruIsOldest
  <2>3. CASE s.entries[k].age < n - 1
    <3>1. \A i \in S : s.entries[i].age # n - 2
      BY <2>3, <1>2, <1>3, <1>5
    <3>2. t.lru = s.lru
      BY <3>1, <1>7, <1>10
    <3>3. s.lru # k
      BY <2>1, <2>3, <1>3
    <3>4. t.entries[s.lru].age = n - 1
      BY <3>3, <2>1, <2>3, <1>2, <1>3, <1>13
    <3> QED
      BY <3>2, <3>4, <1>3, <1>9, <1>11 DEF Segments, LruIsOldest
  <2>4. CASE n = 1
    <3>1. Slots = {0}
      BY <2>4 DEF Slots
    <3>2. \A i \in S : s.entries[i].age # n - 2
      BY <3>1, <2>4, <1>3, <1>5
    <3>3. t.lru = 0 /\ k = 0 /\ t.entries[0].age = 0
      BY <3>1, <3>2, <1>2, <1>3, <1>7, <1>10, <1>11
    <3> QED
      BY <3>1, <3>3, <2>4, <1>9, <1>11 DEF Segments, LruIsOldest
  <2>5. s.entries[k].age = n - 1 \/ s.entries[k].age < n - 1
    BY <1>2, <1>3 DEF Slots
  <2> QED
    BY <2>2, <2>3, <2>4, <2>5
<1>18. Named(t) /\ Distinct(t)
  BY <1>12, <1>15 DEF GoodSegment, Named, Distinct, Valid
<1> QED
  BY <1>1, <1>11, <1>12, <1>13, <1>14, <1>16, <1>17, <1>18 DEF GoodSegment, t

(***************************************************************************)
(* add(): the branch takes the lru entry as the youngest and all others    *)
(* age by one step.                                                        *)
(***************************************************************************)
LEMMA Added ==
  ASSUME NEW s, GoodSegment(s), NEW pc \in PCs, ~contains(s, pc)
  PROVE  LET t == add(s, pc).seg
             v == s.lru
         IN /\ GoodSegment(t) /\ v \in Slots
            /\ add(s, pc).evicted = s.entries[v].pc
            /\ t.entries[v] = [valid |-> TRUE, pc |-> pc, age |-> 0]
            /\ \A i \in Slots \ {v} : /\ t.entries[i].valid = s.entries[i].valid
                                      /\ t.entries[i].pc = s.entries[i].pc
                                      /\ t.entries[i].age = s.entries[i].age + 1
<1> DEFINE t == add(s, pc).seg
           n == numEntries
           v == s.lru
           S == Slots \ {v}
           old == Aged(s, S)
           new == [valid |-> TRUE, pc |-> pc, age |-> 0]
<1>1. /\ s \in Segments /\ v \in Slots
      /\ \A i \in Slots : s.entries[i] \in Entry /\ s.entries[i].age \in Slots /\ s.entries[i].age \in Int
  BY SegmentParts
<1>2. s.entries[v].age = n - 1 /\ \A i \in S : s.entries[i].age # n - 1
  BY <1>1 DEF GoodSegment, LruIsOldest, Ranked
<1>3. \A i \in S : s.entries[i].age < n - 1
  BY <1>1, <1>2 DEF Slots
<1>4. t = [old EXCEPT !.entries[v] = new]
  BY DEF add
<1>5. add(s, pc).evicted = s.entries[v].pc
  <2>1. add(s, pc).evicted = IF s.entries[v].valid THEN s.entries[v].pc ELSE NoPC
    BY DEF add
  <2>2. s.entries[v].valid <=> s.entries[v].pc # NoPC
    BY <1>1 DEF GoodSegment, Named
  <2> QED
    BY <2>1, <2>2
<1>6. /\ old.entries \in [Slots -> Entry]
      /\ \A i \in Slots : /\ old.entries[i].valid = s.entries[i].valid
                          /\ old.entries[i].pc = s.entries[i].pc
                          /\ old.entries[i].age = IF i \in S THEN s.entries[i].age + 1
                                                  ELSE s.entries[i].age
      /\ (\A i \in S : s.entries[i].age # n - 2) => old.lru = s.lru
      /\ \A i \in S : /\ s.entries[i].age = n - 2
                      /\ \A j \in S : s.entries[j].age = n - 2 => j = i
                      => old.lru = i
  <2>1. S \in SUBSET Slots
    OBVIOUS
  <2> HIDE DEF S
  <2> QED
    BY <2>1, <1>1, <1>3, AgedIs
<1>7. old = [entries |-> old.entries, lru |-> old.lru]
  BY DEF Aged
<1> HIDE DEF old, t
<1>8. t = [entries |-> [old.entries EXCEPT ![v] = new], lru |-> old.lru]
  BY <1>4, <1>7
<1>9. /\ t.lru = old.lru
      /\ t.entries = [old.entries EXCEPT ![v] = new]
  BY <1>8
<1>10. new \in Entry /\ new.valid = TRUE /\ new.pc = pc /\ new.age = 0
  BY SlotsAreFinite DEF Entry
<1> HIDE DEF new
<1>11. /\ t.entries \in [Slots -> Entry] /\ t.entries[v] = new
       /\ \A i \in S : t.entries[i] = old.entries[i]
  BY <1>1, <1>6, <1>9, <1>10
<1>12. \A i \in S : /\ t.entries[i].valid = s.entries[i].valid
                    /\ t.entries[i].pc = s.entries[i].pc
                    /\ t.entries[i].age = s.entries[i].age + 1
  BY <1>6, <1>11
<1>13. Ranked(t)
  <2>1. \A i \in S : t.entries[i].age # 0
    BY <1>1, <1>12 DEF Slots
  <2>2. ASSUME NEW i \in S, NEW j \in S, t.entries[i].age = t.entries[j].age
        PROVE  i = j
    <3>1. s.entries[i].age = s.entries[j].age
      BY <2>2, <1>1, <1>12
    <3> QED
      BY <3>1 DEF GoodSegment, Ranked
  <2> QED
    BY <2>1, <2>2, <1>1, <1>10, <1>11 DEF Ranked
<1>14. Valid(t) = Valid(s) \cup {v}
  <2>1. v \in Valid(t)
    BY <1>1, <1>10, <1>11 DEF Valid
  <2>2. \A i \in S : i \in Valid(t) <=> i \in Valid(s)
    BY <1>12 DEF Valid
  <2> QED
    BY <2>1, <2>2, <1>1 DEF Valid
<1>15. FreeIsOlder(t)
  <2> SUFFICES ASSUME NEW i \in Valid(t), NEW j \in Slots \ Valid(t)
               PROVE  t.entries[i].age < t.entries[j].age
    BY DEF FreeIsOlder
  <2>1. i \in Slots /\ j \in S /\ t.entries[j].age = s.entries[j].age + 1 /\ s.entries[j].age \in Nat
    BY <1>1, <1>12, <1>14 DEF Valid, Slots
  <2>2. CASE i = v
    BY <2>1, <2>2, <1>10, <1>11
  <2>3. CASE i # v
    <3>1. i \in Valid(s) /\ j \in Slots \ Valid(s)
      BY <2>3, <1>14
    <3>2. s.entries[i].age < s.entries[j].age
      BY <3>1 DEF GoodSegment, FreeIsOlder
    <3>3. t.entries[i].age = s.entries[i].age + 1 /\ s.entries[i].age \in Int
      BY <2>1, <2>3, <1>1, <1>12
    <3> QED
      BY <2>1, <3>2, <3>3
  <2> QED
    BY <2>2, <2>3
<1>16. t \in Segments /\ LruIsOldest(t)
  <2>1. CASE n > 1
    <3>1. PICK i \in Slots : s.entries[i].age = n - 2
      <4>1. n - 2 \in Slots
        BY <2>1 DEF Slots
      <4> QED
        BY <4>1, AgesCover DEF GoodSegment
    <3>2. i \in S /\ \A j \in S : s.entries[j].age = n - 2 => j = i
      <4>1. i # v
        BY <3>1, <1>2
      <4> QED
        BY <3>1, <4>1 DEF GoodSegment, Ranked
    <3>3. t.lru = i
      BY <3>1, <3>2, <1>6, <1>9
    <3>4. t.entries[i].age = n - 1
      BY <3>1, <3>2, <1>12
    <3> QED
      BY <3>3, <3>4, <1>8, <1>11 DEF Segments, LruIsOldest
  <2>2. CASE n = 1
    <3>1. Slots = {0} /\ v = 0
      BY <2>2, <1>1 DEF Slots
    <3>2. t.lru = 0 /\ t.entries[0].age = 0
      BY <3>1, <1>6, <1>9, <1>10, <1>11
    <3> QED
      BY <3>1, <3>2, <2>2, <1>8, <1>11 DEF Segments, LruIsOldest
  <2> QED
    BY <2>1, <2>2
<1>17. Named(t)
  <2>1. \A i \in S : t.entries[i].valid <=> t.entries[i].pc # NoPC
    BY <1>12 DEF GoodSegment, Named
  <2> QED
    BY <2>1, <1>10, <1>11 DEF Named
<1>18. Distinct(t)
  <2>1. \A i \in Valid(s) : s.entries[i].pc # pc
    BY DEF contains, At, Valid
  <2>2. \A i \in Valid(t) \ {v} : i \in Valid(s) /\ t.entries[i].pc = s.entries[i].pc
    BY <1>12, <1>14 DEF Valid
  <2> QED
    BY <2>1, <2>2, <1>10, <1>11 DEF GoodSegment, Distinct
<1> QED
  BY <1>1, <1>5, <1>11, <1>12, <1>13, <1>15, <1>16, <1>17, <1>18 DEF GoodSegment, t, new

(***************************************************************************)
(* remove(): the entry of the branch is freed as the oldest and those that *)
(* were older close the gap.                                               *)
(***************************************************************************)
TakenOut(s, t, k) ==
  /\ t.entries[k] = [valid |-> FALSE, pc |-> NoPC, age |-> numEntries - 1]
  /\ \A i \in Slots \ {k} :
       /\ t.entries[i].valid = s.entries[i].valid
       /\ t.entries[i].pc = s.entries[i].pc
       /\ t.entries[i].age = IF s.entries[i].age > s.entries[k].age THEN s.entries[i].age - 1
                             ELSE s.entries[i].age

LEMMA Removed ==
  ASSUME NEW s, GoodSegment(s), NEW pc \in PCs, contains(s, pc)
  PROVE  /\ GoodSegment(remove(s, pc))
         /\ \E k \in Valid(s) : s.entries[k].pc = pc /\ TakenOut(s, remove(s, pc), k)
<1> DEFINE t == remove(s, pc)
           n == numEntries
<1>1. PICK k \in Valid(s) : At(s, pc) = {k} /\ Min(At(s, pc)) = k /\ s.entries[k].pc = pc
  BY Found
<1>2. k \in Slots /\ s.entries[k].valid
  BY DEF Valid
<1>3. /\ s \in Segments
      /\ \A i \in Slots : s.entries[i] \in Entry /\ s.entries[i].age \in Slots /\ s.entries[i].age \in Int
  BY SegmentParts
<1> DEFINE older == {i \in Slots : s.entries[i].age > s.entries[k].age}
           closed == [i \in Slots |-> IF i \in older THEN [s.entries[i] EXCEPT !.age = @ - 1]
                                      ELSE s.entries[i]]
           freed == [valid |-> FALSE, pc |-> NoPC, age |-> n - 1]
<1>4. t = [entries |-> [closed EXCEPT ![k] = freed], lru |-> k]
  BY <1>1 DEF remove
<1>5. freed \in Entry /\ freed.valid = FALSE /\ freed.pc = NoPC /\ freed.age = n - 1
  BY SlotsAreFinite DEF Entry
<1>6. ASSUME NEW i \in Slots
      PROVE  /\ closed[i] \in Entry
             /\ closed[i].valid = s.entries[i].valid
             /\ closed[i].pc = s.entries[i].pc
             /\ closed[i].age = IF s.entries[i].age > s.entries[k].age
                                THEN s.entries[i].age - 1 ELSE s.entries[i].age
  <2>1. s.entries[i] \in Entry /\ s.entries[i].age \in Slots
    BY <1>3
  <2>2. CASE i \in older
    <3>1. closed[i] = [s.entries[i] EXCEPT !.age = s.entries[i].age - 1]
      BY <2>2
    <3>2. s.entries[i].age - 1 \in Slots
      BY <2>1, <2>2, <1>2, <1>3 DEF Slots
    <3> QED
      BY <2>1, <2>2, <3>1, <3>2 DEF Entry
  <2>3. CASE i \notin older
    BY <2>1, <2>3
  <2> QED
    BY <2>2, <2>3
<1>7. closed \in [Slots -> Entry]
  BY <1>6
<1> HIDE DEF closed, freed, t
<1>8. /\ t.lru = k /\ t.entries \in [Slots -> Entry] /\ t.entries[k] = freed
      /\ \A i \in Slots \ {k} : t.entries[i] = closed[i]
  BY <1>2, <1>4, <1>5, <1>7
<1>9. \A i \in Slots \ {k} : /\ t.entries[i].valid = s.entries[i].valid
                             /\ t.entries[i].pc = s.entries[i].pc
                             /\ t.entries[i].age = IF s.entries[i].age > s.entries[k].age
                                                   THEN s.entries[i].age - 1 ELSE s.entries[i].age
  BY <1>6, <1>8
<1>10. t \in Segments /\ LruIsOldest(t)
  BY <1>2, <1>4, <1>5, <1>8 DEF Segments, LruIsOldest
<1>11. \A i \in Slots \ {k} : s.entries[i].age # s.entries[k].age
  BY <1>2 DEF GoodSegment, Ranked
<1>12. Ranked(t)
  <2>1. \A i \in Slots \ {k} : t.entries[i].age # n - 1
    BY <1>2, <1>3, <1>9, <1>11 DEF Slots
  <2>2. ASSUME NEW i \in Slots \ {k}, NEW j \in Slots \ {k}, t.entries[i].age = t.entries[j].age
        PROVE  i = j
    <3>1. /\ t.entries[i].age = IF s.entries[i].age > s.entries[k].age
                               THEN s.entries[i].age - 1 ELSE s.entries[i].age
          /\ t.entries[j].age = IF s.entries[j].age > s.entries[k].age
                               THEN s.entries[j].age - 1 ELSE s.entries[j].age
      BY <1>9
    <3>2. /\ s.entries[i].age \in Int /\ s.entries[j].age \in Int /\ s.entries[k].age \in Int
          /\ s.entries[i].age # s.entries[k].age /\ s.entries[j].age # s.entries[k].age
      BY <1>2, <1>3, <1>11
    <3>3. \A a, b, c \in Int : /\ a # c /\ b # c
                              /\ (IF a > c THEN a - 1 ELSE a) = (IF b > c THEN b - 1 ELSE b)
                              => a = b
      OBVIOUS
    <3>4. s.entries[i].age = s.entries[j].age
      BY <2>2, <3>1, <3>2, <3>3
    <3> QED
      BY <3>4 DEF GoodSegment, Ranked
  <2> QED
    BY <2>1, <2>2, <1>2, <1>5, <1>8 DEF Ranked
<1>13. Valid(t) = Valid(s) \ {k}
  <2>1. k \notin Valid(t)
    BY <1>5, <1>8 DEF Valid
  <2>2. \A i \in Slots \ {k} : i \in Valid(t) <=> i \in Valid(s)
    BY <1>9 DEF Valid
  <2> QED
    BY <2>1, <2>2 DEF Valid
<1>14. FreeIsOlder(t)
  <2> SUFFICES ASSUME NEW i \in Valid(t), NEW j \in Slots \ Valid(t)
               PROVE  t.entries[i].age < t.entries[j].age
    BY DEF FreeIsOlder
  <2>1. /\ i \in Slots \ {k} /\ i \in Valid(s) /\ s.entries[i].age \in Int
        /\ s.entries[i].age <= n - 1 /\ s.entries[k].age <= n - 1 /\ s.entries[k].age \in Int
        /\ s.entries[i].age # s.entries[k].age
        /\ t.entries[i].age = IF s.entries[i].age > s.entries[k].age
                              THEN s.entries[i].age - 1 ELSE s.entries[i].age
    BY <1>2, <1>3, <1>9, <1>11, <1>13 DEF Valid, Slots
  <2>2. CASE j = k
    BY <2>1, <2>2, <1>5, <1>8
  <2>3. CASE j # k
    <3>1. j \in Slots \ Valid(s) /\ j \in Slots \ {k}
      BY <2>3, <1>13
    <3>2. s.entries[i].age < s.entries[j].age
      BY <2>1, <3>1 DEF GoodSegment, FreeIsOlder
    <3>3. /\ s.entries[j].age \in Int /\ s.entries[j].age # s.entries[k].age
          /\ t.entries[j].age = IF s.entries[j].age > s.entries[k].age
                                THEN s.entries[j].age - 1 ELSE s.entries[j].age
      BY <3>1, <1>3, <1>9, <1>11
    <3> QED
      BY <2>1, <3>2, <3>3
  <2> QED
    BY <2>2, <2>3
<1>15. Named(t)
  <2>1. \A i \in Slots \ {k} : t.entries[i].valid <=> t.entries[i].pc # NoPC
    BY <1>9 DEF GoodSegment, Named
  <2> QED
    BY <2>1, <1>5, <1>8 DEF Named
<1>16. Distinct(t)
  <2>1. \A i \in Valid(t) : i \in Valid(s) /\ t.entries[i].pc = s.entries[i].pc
    BY <1>9, <1>13 DEF Valid
  <2> QED
    BY <2>1 DEF GoodSegment, Distinct
<1>17. TakenOut(s, t, k)
  BY <1>8, <1>9 DEF TakenOut, freed
<1>18. GoodSegment(t)
  BY <1>10, <1>12, <1>14, <1>15, <1>16 DEF GoodSegment
<1> QED
  BY <1>1, <1>17, <1>18 DEF t

(* reset()                                                                 *)
LEMMA EmptyIsGood == GoodSegment(EmptySegment) /\ Valid(EmptySegment) = {}
<1> DEFINE s == EmptySegment
<1>1. \A i \in Slots : s.entries[i] = [valid |-> FALSE, pc |-> NoPC, age |-> i]
  BY DEF EmptySegment
<1>2. s.lru = numEntries - 1 /\ s.lru \in Slots
  BY SlotsAreFinite DEF EmptySegment
<1>3. s \in Segments
  <2>1. \A i \in Slots : [valid |-> FALSE, pc |-> NoPC, age |-> i] \in Entry
    BY DEF Entry
  <2> QED
    BY <2>1, <1>2 DEF EmptySegment, Segments
<1>4. \A i \in Slots : s.entries[i].valid = FALSE /\ s.entries[i].pc = NoPC /\ s.entries[i].age = i
  <2> TAKE i \in Slots
  <2>1. PICK e : e = [valid |-> FALSE, pc |-> NoPC, age |-> i]
    OBVIOUS
  <2>2. s.entries[i] = e
    BY <2>1, <1>1
  <2>3. e.valid = FALSE /\ e.pc = NoPC /\ e.age = i
    BY <2>1
  <2> QED
    BY <2>2, <2>3
<1> HIDE DEF s
<1>5. Valid(s) = {}
  BY <1>4 DEF Valid
<1>6. Ranked(s) /\ Named(s) /\ LruIsOldest(s)
  BY <1>2, <1>4 DEF Ranked, Named, LruIsOldest
<1>7. FreeIsOlder(s) /\ Distinct(s)
  BY <1>5 DEF FreeIsOlder, Distinct
<1> QED
  BY <1>3, <1>5, <1>6, <1>7 DEF GoodSegment, s

-------------------------------------------------------------------------------
(* The cache of two segments and the predictor. *)
USE VIPAssumption

PCsOf(s) == {s.entries[i].pc : i \in Valid(s)}

(* The cache part of the inductive invariant: both segments are good and   *)
(* no branch is in both.                                                   *)
GoodCache ==
  /\ GoodSegment(protectedSeg) /\ GoodSegment(probationarySeg)
  /\ PCsOf(protectedSeg) \cap PCsOf(probationarySeg) = {}
  /\ savedState \in [Slots -> PCs \cup {NoPC}]

IndInv == VIPTypeOK /\ GoodCache /\ PredictionsArePaired

(***************************************************************************)
(* The branches that a segment holds.                                      *)
(***************************************************************************)
LEMMA HeldIsContained ==
  ASSUME NEW s, NEW pc
  PROVE  contains(s, pc) <=> pc \in PCsOf(s)
BY DEF contains, At, PCsOf, Valid

LEMMA HeldArePCs ==
  ASSUME NEW s, GoodSegment(s)
  PROVE  PCsOf(s) \subseteq PCs /\ Valid(s) \subseteq Slots
         /\ \A i \in Slots : s.entries[i].pc \in PCs \cup {NoPC}
<1>1. \A i \in Slots : s.entries[i] \in Entry
  BY DEF GoodSegment, Segments
<1>2. Valid(s) \subseteq Slots
  BY DEF Valid
<1>3. \A i \in Valid(s) : s.entries[i].pc # NoPC
  BY <1>2 DEF GoodSegment, Named, Valid
<1> QED
  BY <1>1, <1>2, <1>3 DEF PCsOf, Entry

LEMMA HeldAfterBump ==
  ASSUME NEW s, GoodSegment(s), NEW pc \in PCs, contains(s, pc)
  PROVE  PCsOf(bump(s, pc)) = PCsOf(s) /\ GoodSegment(bump(s, pc))
<1> DEFINE t == bump(s, pc)
<1>1. /\ GoodSegment(t)
      /\ \A i \in Slots : t.entries[i].valid = s.entries[i].valid /\ t.entries[i].pc = s.entries[i].pc
  BY Bumped
<1> HIDE DEF t
<1>2. Valid(t) = Valid(s)
  BY <1>1 DEF Valid
<1>3. PCsOf(t) = PCsOf(s)
  BY <1>1, <1>2 DEF PCsOf, Valid
<1> QED
  BY <1>1, <1>3 DEF t

LEMMA HeldAfterAdd ==
  ASSUME NEW s, GoodSegment(s), NEW pc \in PCs, ~contains(s, pc)
  PROVE  LET r == add(s, pc)
         IN /\ GoodSegment(r.seg)
            /\ PCsOf(r.seg) = (PCsOf(s) \ {r.evicted}) \cup {pc}
            /\ r.evicted \in PCsOf(s) \cup {NoPC}
<1> DEFINE t == add(s, pc).seg
           v == s.lru
           e == add(s, pc).evicted
<1>1. /\ GoodSegment(t) /\ v \in Slots
      /\ e = s.entries[v].pc
      /\ t.entries[v] = [valid |-> TRUE, pc |-> pc, age |-> 0]
      /\ \A i \in Slots \ {v} : t.entries[i].valid = s.entries[i].valid /\ t.entries[i].pc = s.entries[i].pc
  BY Added
<1> HIDE DEF t, v, e
<1>2. t.entries[v].valid = TRUE /\ t.entries[v].pc = pc
  BY <1>1
<1>3. e \in PCsOf(s) \cup {NoPC}
  BY <1>1 DEF GoodSegment, Named, PCsOf, Valid
<1>4. \A i \in Slots \ {v} : i \in Valid(t) <=> i \in Valid(s)
  BY <1>1 DEF Valid
<1>5. v \in Valid(t)
  BY <1>1, <1>2 DEF Valid
<1>6. \A i \in Valid(s) \ {v} : s.entries[i].pc # e
  <2>1. CASE s.entries[v].valid
    BY <2>1, <1>1 DEF GoodSegment, Distinct, Valid
  <2>2. CASE ~s.entries[v].valid
    BY <2>2, <1>1 DEF GoodSegment, Named, Valid
  <2> QED
    BY <2>1, <2>2
<1>7. ASSUME NEW p PROVE p \in PCsOf(t) <=> p \in (PCsOf(s) \ {e}) \cup {pc}
  <2>1. ASSUME p \in PCsOf(t) PROVE p = pc \/ (p \in PCsOf(s) /\ p # e)
    <3>1. PICK i \in Valid(t) : t.entries[i].pc = p
      BY <2>1 DEF PCsOf
    <3>2. CASE i = v
      BY <3>1, <3>2, <1>2
    <3>3. CASE i # v
      <4>1. i \in Slots /\ i \in Valid(s) /\ s.entries[i].pc = p
        BY <3>1, <3>3, <1>1, <1>4 DEF Valid
      <4> QED
        BY <4>1, <3>3, <1>6 DEF PCsOf
    <3> QED
      BY <3>2, <3>3
  <2>2. ASSUME p = pc PROVE p \in PCsOf(t)
    BY <2>2, <1>2, <1>5 DEF PCsOf
  <2>3. ASSUME p \in PCsOf(s), p # e PROVE p \in PCsOf(t)
    <3>1. PICK i \in Valid(s) : s.entries[i].pc = p
      BY <2>3 DEF PCsOf
    <3>2. i \in Slots \ {v}
      BY <3>1, <2>3, <1>1 DEF Valid
    <3>3. i \in Valid(t) /\ t.entries[i].pc = p
      BY <3>1, <3>2, <1>1, <1>4
    <3> QED
      BY <3>3 DEF PCsOf
  <2> QED
    BY <2>1, <2>2, <2>3
<1> QED
  BY <1>1, <1>3, <1>7 DEF t, e

LEMMA HeldAfterRemove ==
  ASSUME NEW s, GoodSegment(s), NEW pc \in PCs, contains(s, pc)
  PROVE  GoodSegment(remove(s, pc)) /\ PCsOf(remove(s, pc)) = PCsOf(s) \ {pc}
<1> DEFINE t == remove(s, pc)
<1>1. GoodSegment(t)
  BY Removed
<1>2. PICK k \in Valid(s) :
        /\ s.entries[k].pc = pc
        /\ t.entries[k] = [valid |-> FALSE, pc |-> NoPC, age |-> numEntries - 1]
        /\ \A i \in Slots \ {k} : t.entries[i].valid = s.entries[i].valid /\ t.entries[i].pc = s.entries[i].pc
  <2>1. PICK k \in Valid(s) : s.entries[k].pc = pc /\ TakenOut(s, t, k)
    BY Removed
  <2> HIDE DEF t
  <2> QED
    BY <2>1 DEF TakenOut
<1> HIDE DEF t
<1>3. t.entries[k].valid = FALSE
  BY <1>2
<1>4. Valid(t) = Valid(s) \ {k}
  <2>1. \A i \in Slots \ {k} : i \in Valid(t) <=> i \in Valid(s)
    BY <1>2 DEF Valid
  <2> QED
    BY <2>1, <1>3 DEF Valid
<1>5. ASSUME NEW i \in Valid(t)
      PROVE  t.entries[i].pc = s.entries[i].pc /\ s.entries[i].pc # pc
  <2>1. i \in Slots \ {k} /\ i \in Valid(s)
    BY <1>4 DEF Valid
  <2> QED
    BY <2>1, <1>2 DEF GoodSegment, Distinct
<1>6. \A i \in Valid(s) : s.entries[i].pc # pc => i \in Valid(t)
  BY <1>2, <1>4
<1>7. PCsOf(t) = PCsOf(s) \ {pc}
  BY <1>4, <1>5, <1>6 DEF PCsOf
<1> QED
  BY <1>1, <1>7 DEF t

(***************************************************************************)
(* An access of the cache.                                                 *)
(***************************************************************************)
LEMMA TouchIsGood ==
  ASSUME GoodCache, NEW pc \in PCs, Touch(pc)
  PROVE  /\ GoodSegment(protectedSeg') /\ GoodSegment(probationarySeg')
         /\ PCsOf(protectedSeg') \cap PCsOf(probationarySeg') = {}
<1>1. CASE Bump(pc)
  BY <1>1, HeldAfterBump DEF Bump, GoodCache
<1>2. CASE Promote(pc)
  <2> DEFINE added == add(protectedSeg, pc)
             rest == remove(probationarySeg, pc)
  <2>1. /\ protectedSeg' = added.seg
        /\ probationarySeg' = IF added.evicted = NoPC THEN rest ELSE add(rest, added.evicted).seg
        /\ ~contains(protectedSeg, pc) /\ contains(probationarySeg, pc)
    BY <1>2 DEF Promote
  <2>2. /\ GoodSegment(added.seg)
        /\ PCsOf(added.seg) = (PCsOf(protectedSeg) \ {added.evicted}) \cup {pc}
        /\ added.evicted \in PCsOf(protectedSeg) \cup {NoPC}
    BY <2>1, HeldAfterAdd DEF GoodCache
  <2>3. GoodSegment(rest) /\ PCsOf(rest) = PCsOf(probationarySeg) \ {pc}
    BY <2>1, HeldAfterRemove DEF GoodCache
  <2> HIDE DEF added, rest
  <2>4. CASE added.evicted = NoPC
    BY <2>1, <2>2, <2>3, <2>4 DEF GoodCache
  <2>5. CASE added.evicted # NoPC
    <3>1. added.evicted \in PCsOf(protectedSeg) /\ added.evicted \in PCs
      BY <2>2, <2>5, HeldArePCs DEF GoodCache
    <3>2. ~contains(rest, added.evicted) /\ added.evicted # pc
      <4>1. added.evicted \notin PCsOf(probationarySeg) /\ pc \in PCsOf(probationarySeg)
        BY <3>1, <2>1, HeldIsContained DEF GoodCache
      <4> QED
        BY <4>1, <2>3, HeldIsContained
    <3>3. LET r == add(rest, added.evicted)
          IN /\ GoodSegment(r.seg)
             /\ PCsOf(r.seg) \subseteq PCsOf(rest) \cup {added.evicted}
      BY <3>1, <3>2, <2>3, HeldAfterAdd
    <3>4. PCsOf(probationarySeg') \subseteq (PCsOf(probationarySeg) \ {pc}) \cup {added.evicted}
          /\ GoodSegment(probationarySeg')
      BY <2>1, <2>3, <2>5, <3>3
    <3> QED
      BY <2>1, <2>2, <3>2, <3>4 DEF GoodCache
  <2> QED
    BY <2>4, <2>5
<1>3. CASE Admit(pc)
  <2>1. /\ protectedSeg' = protectedSeg /\ probationarySeg' = add(probationarySeg, pc).seg
        /\ ~contains(protectedSeg, pc) /\ ~contains(probationarySeg, pc)
    BY <1>3 DEF Admit
  <2>2. GoodSegment(probationarySeg') /\ PCsOf(probationarySeg') \subseteq PCsOf(probationarySeg) \cup {pc}
    BY <2>1, HeldAfterAdd DEF GoodCache
  <2>3. pc \notin PCsOf(protectedSeg)
    BY <2>1, HeldIsContained
  <2> QED
    BY <2>1, <2>2, <2>3 DEF GoodCache
<1> QED
  BY <1>1, <1>2, <1>3 DEF Touch

(***************************************************************************)
(* The inductive invariant                                                 *)
(***************************************************************************)
LEMMA EmptyCache ==
  /\ get_all(EmptySegment) = [i \in Slots |-> NoPC]
  /\ PCsOf(EmptySegment) = {} /\ GoodSegment(EmptySegment)
<1>1. GoodSegment(EmptySegment) /\ Valid(EmptySegment) = {}
  BY EmptyIsGood
<1>2. \A i \in Slots : ~ EmptySegment.entries[i].valid
  BY <1>1 DEF Valid
<1> QED
  BY <1>1, <1>2 DEF get_all, PCsOf

LEMMA SnapshotType ==
  ASSUME NEW s, GoodSegment(s)
  PROVE  get_all(s) \in [Slots -> PCs \cup {NoPC}]
BY HeldArePCs DEF get_all

LEMMA IndexIsSlot ==
  ASSUME NEW pc
  PROVE  get_idx(pc) \in Slots \cup {-1}
<1> DEFINE found == {i \in Slots : savedState[i] = pc}
<1>1. get_idx(pc) = IF found = {} THEN -1 ELSE Min(found)
  BY DEF get_idx
<1>2. CASE found # {}
  <2>1. found \in SUBSET Slots
    OBVIOUS
  <2>2. PICK x \in found : \A y \in found : x <= y
    BY <1>2, <2>1, FirstSlot
  <2>3. Min(found) \in found
    BY <2>2 DEF Min
  <2> QED
    BY <1>1, <1>2, <2>1, <2>3
<1> QED
  BY <1>1, <1>2

LEMMA InitInv == VIPInit => IndInv
<1> SUFFICES ASSUME VIPInit PROVE IndInv
  OBVIOUS
<1>1. GoodCache
  BY EmptyCache DEF VIPInit, Init, GoodCache
<1>2. VIPTypeOK
  <2>1. TypeOK
    BY <1>1 DEF GoodCache, GoodSegment, TypeOK
  <2>2. 0 \in Scores /\ 0 \in 0 .. snapInterval - 1 /\ <<>> \in Seq(PCs)
    BY DEF Scores
  <2> QED
    BY <2>1, <2>2 DEF VIPInit, VIPTypeOK
<1>3. PredictionsArePaired
  BY DEF VIPInit, PredictionsArePaired
<1> QED
  BY <1>1, <1>2, <1>3 DEF IndInv

LEMMA PredictStep ==
  ASSUME IndInv, NEW pc \in PCs, Predict(pc)
  PROVE  IndInv'
<1>1. /\ UNCHANGED <<protectedSeg, probationarySeg, savedState, scoreboard, currCount>>
      /\ pending = NoPC /\ pending' = pc
  BY DEF Predict, cacheVars
<1>2. GoodCache'
  BY <1>1 DEF IndInv, GoodCache
<1>3. \A i \in Slots : waiting[i] = <<>>
  BY <1>1 DEF IndInv, PredictionsArePaired
<1>4. waiting \in [Slots -> Seq(PCs)]
  BY DEF IndInv, VIPTypeOK
<1> DEFINE k == get_idx(pc)
<1>5. k \in Slots \cup {-1} /\ get_idx(pc)' = k
  BY <1>1, IndexIsSlot DEF get_idx
<1>6. /\ waiting' \in [Slots -> Seq(PCs)]
      /\ \A i \in Slots : waiting'[i] = IF k = i THEN <<pc>> ELSE <<>>
  <2>1. CASE k = -1
    <3>1. waiting' = waiting
      BY <2>1 DEF Predict
    <3>2. k \notin Slots
      BY <2>1 DEF Slots
    <3> QED
      BY <3>1, <3>2, <1>3, <1>4
  <2>2. CASE k # -1
    <3>1. waiting' = [waiting EXCEPT ![k] = Append(waiting[k], pc)] /\ k \in Slots
      BY <2>2, <1>5 DEF Predict
    <3>2. Append(waiting[k], pc) = <<pc>>
      <4>1. Append(<<>>, pc) = <<pc>>
        OBVIOUS
      <4>2. waiting[k] = <<>>
        BY <3>1, <1>3
      <4> QED
        BY <4>1, <4>2
    <3> HIDE DEF k
    <3>3. <<pc>> \in Seq(PCs)
      OBVIOUS
    <3> QED
      BY <3>1, <3>2, <3>3, <1>3, <1>4
  <2> QED
    BY <2>1, <2>2
<1>7. PredictionsArePaired'
  <2>1. pc # NoPC
    BY ConstantsAssumption
  <2> QED
    BY <2>1, <1>1, <1>5, <1>6 DEF PredictionsArePaired
<1>8. VIPTypeOK'
  <2>1. TypeOK'
    BY <1>1 DEF IndInv, VIPTypeOK, TypeOK
  <2>2. lastDefault' \in BOOLEAN /\ lastPrivate' \in BOOLEAN
    BY DEF Predict, IndInv, VIPTypeOK
  <2> QED
    BY <2>1, <2>2, <1>1, <1>6 DEF IndInv, VIPTypeOK
<1> QED
  BY <1>2, <1>7, <1>8 DEF IndInv

LEMMA ScoreStays ==
  ASSUME NEW score \in Scores, NEW d, NEW p, NEW taken
  PROVE  NewScore(score, d, p, taken) \in Scores
BY DEF NewScore, Scores

LEMMA UpdateStep ==
  ASSUME IndInv, NEW pc \in PCs, NEW taken \in BOOLEAN, Update(pc, taken)
  PROVE  IndInv'
<1>1. /\ pending = pc /\ pending' = NoPC
      /\ CacheAccess(pc, taken) /\ CountAndSnapshot /\ TrainPrivate(pc, taken)
      /\ UNCHANGED <<lastDefault, lastPrivate>>
  BY DEF Update
<1>2. /\ GoodSegment(protectedSeg') /\ GoodSegment(probationarySeg')
      /\ PCsOf(protectedSeg') \cap PCsOf(probationarySeg') = {}
  <2>1. CASE Touch(pc)
    BY <2>1, TouchIsGood DEF IndInv
  <2>2. CASE UNCHANGED <<protectedSeg, probationarySeg>>
    BY <2>2 DEF IndInv, GoodCache
  <2> QED
    BY <2>1, <2>2, <1>1 DEF CacheAccess
<1>3. /\ savedState' \in [Slots -> PCs \cup {NoPC}]
      /\ currCount' \in 0 .. snapInterval - 1
  <2>1. currCount \in 0 .. snapInterval - 1
    BY DEF IndInv, VIPTypeOK
  <2>2. CASE currCount + 1 = snapInterval
    <3>1. currCount' = 0 /\ savedState' = get_all(protectedSeg')
      BY <2>2, <1>1 DEF CountAndSnapshot
    <3> QED
      BY <3>1, <1>2, SnapshotType
  <2>3. CASE currCount + 1 # snapInterval
    <3>1. currCount' = currCount + 1 /\ savedState' = savedState
      BY <2>3, <1>1 DEF CountAndSnapshot
    <3> QED
      BY <2>1, <2>3, <3>1 DEF IndInv, GoodCache
  <2> QED
    BY <2>2, <2>3
<1>4. GoodCache'
  <2>1. /\ GoodSegment(protectedSeg)' /\ GoodSegment(probationarySeg)'
        /\ (PCsOf(protectedSeg) \cap PCsOf(probationarySeg) = {})'
    BY <1>2
  <2> QED
    BY <2>1, <1>3 DEF GoodCache
<1> DEFINE k == get_idx(pc)
<1>5. \A i \in Slots : waiting[i] = IF k = i THEN <<pc>> ELSE <<>>
  <2>1. pc # NoPC
    BY ConstantsAssumption
  <2> QED
    BY <2>1, <1>1 DEF IndInv, PredictionsArePaired
<1>6. /\ waiting' = [i \in Slots |-> <<>>]
      /\ scoreboard' \in [Slots -> Scores]
  <2>0. waiting \in [Slots -> Seq(PCs)] /\ scoreboard \in [Slots -> Scores] /\ k \in Slots \cup {-1}
    BY IndexIsSlot DEF IndInv, VIPTypeOK
  <2>1. CASE k = -1
    <3>1. waiting' = waiting /\ scoreboard' = scoreboard
      BY <2>1, <1>1 DEF TrainPrivate
    <3>2. k \notin Slots
      BY <2>1 DEF Slots
    <3> QED
      BY <3>1, <3>2, <2>0, <1>5
  <2>2. CASE k # -1
    <3>1. /\ waiting' = [waiting EXCEPT ![k] = IF waiting[k] = <<>> THEN waiting[k] ELSE Tail(waiting[k])]
          /\ scoreboard' = [scoreboard EXCEPT
                              ![k] = NewScore(scoreboard[k], lastDefault, lastPrivate, taken)]
          /\ k \in Slots
      BY <2>0, <2>2, <1>1 DEF TrainPrivate
    <3>2. waiting[k] = <<pc>>
      BY <3>1, <1>5
    <3>3. <<pc>> # <<>> /\ Tail(<<pc>>) = <<>>
      OBVIOUS
    <3>4. waiting' = [waiting EXCEPT ![k] = <<>>]
      BY <3>1, <3>2, <3>3
    <3>5. NewScore(scoreboard[k], lastDefault, lastPrivate, taken) \in Scores
      BY <2>0, <3>1, ScoreStays
    <3> HIDE DEF k
    <3> QED
      BY <2>0, <3>1, <3>4, <3>5, <1>5
  <2> QED
    BY <2>1, <2>2
<1>7. PredictionsArePaired'
  BY <1>1, <1>6 DEF PredictionsArePaired
<1>8. VIPTypeOK'
  <2>1. TypeOK'
    BY <1>2, <1>3 DEF TypeOK, GoodSegment
  <2>2. waiting' \in [Slots -> Seq(PCs)]
    BY <1>6
  <2> QED
    BY <2>1, <2>2, <1>1, <1>3, <1>6 DEF IndInv, VIPTypeOK
<1> QED
  BY <1>4, <1>7, <1>8 DEF IndInv

LEMMA ResetStep ==
  ASSUME IndInv, VIPReset
  PROVE  IndInv'
<1>1. /\ protectedSeg' = EmptySegment /\ probationarySeg' = EmptySegment
      /\ savedState' = [i \in Slots |-> NoPC]
      /\ scoreboard' = [i \in Slots |-> 0] /\ waiting' = [i \in Slots |-> <<>>]
      /\ currCount' = 0 /\ UNCHANGED <<lastDefault, lastPrivate, pending>> /\ pending = NoPC
  BY DEF VIPReset, Reset
<1>2. GoodCache'
  <2>1. /\ GoodSegment(protectedSeg') /\ GoodSegment(probationarySeg')
        /\ PCsOf(protectedSeg') \cap PCsOf(probationarySeg') = {}
    BY <1>1, EmptyCache
  <2>2. /\ GoodSegment(protectedSeg)' /\ GoodSegment(probationarySeg)'
        /\ (PCsOf(protectedSeg) \cap PCsOf(probationarySeg) = {})'
    BY <2>1
  <2> QED
    BY <2>2, <1>1 DEF GoodCache
<1>3. PredictionsArePaired'
  BY <1>1 DEF PredictionsArePaired
<1>4. VIPTypeOK'
  <2>1. TypeOK'
    BY <1>1, EmptyCache DEF TypeOK, GoodSegment
  <2>2. 0 \in Scores /\ 0 \in 0 .. snapInterval - 1 /\ <<>> \in Seq(PCs)
    BY DEF Scores
  <2> QED
    BY <2>1, <2>2, <1>1 DEF IndInv, VIPTypeOK
<1> QED
  BY <1>2, <1>3, <1>4 DEF IndInv

LEMMA InvStep == IndInv /\ [VIPNext]_vipVars => IndInv'
<1> SUFFICES ASSUME IndInv, [VIPNext]_vipVars PROVE IndInv'
  OBVIOUS
<1>1. CASE UNCHANGED vipVars
  BY <1>1 DEF vipVars, cacheVars, IndInv, VIPTypeOK, TypeOK, GoodCache, PredictionsArePaired,
              get_idx
<1> QED
  BY <1>1, PredictStep, UpdateStep, ResetStep DEF VIPNext

(* The cache and the predictor keep the inductive invariant.               *)
THEOREM VIPCorrect == VIPSpec => []IndInv
BY InitInv, InvStep, PTL DEF VIPSpec

(* Scores, snapshot, counters and the ages of both segments keep their     *)
(* ranges: add(), which increments without a limit, never leaves an age    *)
(* out of range.                                                           *)
THEOREM VIPTypeCorrect == VIPSpec => []VIPTypeOK
BY VIPCorrect, PTL DEF IndInv

(* The ages of both segments order their slots and lru is the oldest, so   *)
(* nothing is evicted while a slot is free.                                *)
THEOREM AgesAlwaysOrderSlots == VIPSpec => []AgesOrderSlots
<1>1. IndInv => AgesOrderSlots
  BY DEF IndInv, GoodCache, GoodSegment, Ranked, FreeIsOlder, LruIsOldest, AgesOrderSlots
<1> QED
  BY <1>1, VIPCorrect, PTL

(* The private predictor that predicted the branch in flight is the one    *)
(* that learns its outcome, and its queue never over- or underflows.       *)
THEOREM EveryPredictionIsPaired == VIPSpec => []PredictionsArePaired
BY VIPCorrect, PTL DEF IndInv

(* A branch that stays protected keeps its slot, through every bump,       *)
(* promotion and eviction.                                                 *)
THEOREM ProtectedSlotsAreStable == VIPSpec => ProtectedSlotIsStable
<1> DEFINE Stable == \A i \in Valid(protectedSeg), j \in Valid(protectedSeg') :
                       protectedSeg.entries[i].pc = protectedSeg'.entries[j].pc => i = j
<1>1. ASSUME IndInv, protectedSeg' = protectedSeg PROVE Stable
  BY <1>1 DEF IndInv, GoodCache, GoodSegment, Distinct
<1>2. ASSUME IndInv, NEW pc \in PCs, Touch(pc) PROVE Stable
  <2>1. CASE Bump(pc)
    <3>1. \A i \in Slots : /\ protectedSeg'.entries[i].valid = protectedSeg.entries[i].valid
                            /\ protectedSeg'.entries[i].pc = protectedSeg.entries[i].pc
      BY <1>2, <2>1, Bumped DEF Bump, IndInv, GoodCache
    <3> QED
      BY <3>1, <1>2 DEF IndInv, GoodCache, GoodSegment, Distinct, Valid
  <2>2. CASE Promote(pc)
    <3> DEFINE v == protectedSeg.lru
    <3>1. /\ v \in Slots
          /\ protectedSeg'.entries[v] = [valid |-> TRUE, pc |-> pc, age |-> 0]
          /\ \A i \in Slots \ {v} : /\ protectedSeg'.entries[i].valid = protectedSeg.entries[i].valid
                                     /\ protectedSeg'.entries[i].pc = protectedSeg.entries[i].pc
          /\ ~contains(protectedSeg, pc)
      BY <1>2, <2>2, Added DEF Promote, IndInv, GoodCache
    <3>2. protectedSeg'.entries[v].pc = pc
      BY <3>1
    <3> HIDE DEF v
    <3>3. \A i \in Valid(protectedSeg) : protectedSeg.entries[i].pc # pc
      BY <3>1 DEF contains, At, Valid
    <3> QED
      BY <3>1, <3>2, <3>3, <1>2 DEF IndInv, GoodCache, GoodSegment, Distinct, Valid
  <2>3. CASE Admit(pc)
    BY <2>3, <1>1, <1>2 DEF Admit
  <2> QED
    BY <1>2, <2>1, <2>2, <2>3 DEF Touch
<1>3. ASSUME VIPReset PROVE Stable
  <2>1. Valid(protectedSeg') = {}
    BY <1>3, EmptyIsGood DEF VIPReset, Reset
  <2> QED
    BY <2>1
<1>4. IndInv /\ [VIPNext]_vipVars => [Stable]_vars
  BY <1>1, <1>2, <1>3 DEF VIPNext, vipVars, cacheVars, vars, Predict, Update, CacheAccess
<1> QED
  BY <1>4, VIPCorrect, PTL DEF VIPSpec, ProtectedSlotIsStable

(***************************************************************************)
(* Refinement: the lists by age.                                           *)
(***************************************************************************)

(* The ages of the valid entries are the first ones.                       *)
LEMMA ValidAges ==
  ASSUME NEW s, GoodSegment(s)
  PROVE  LET c == Cardinality(Valid(s))
         IN /\ c \in 0 .. numEntries
            /\ \A i \in Slots : i \in Valid(s) <=> s.entries[i].age < c
<1> DEFINE Age(i) == s.entries[i].age
           c == Cardinality(Valid(s))
<1>1. /\ Valid(s) \subseteq Slots /\ IsFiniteSet(Valid(s)) /\ c \in Nat
      /\ \A i \in Slots : Age(i) \in Slots /\ Age(i) \in Nat /\ Age(i) < numEntries
  <2>1. Valid(s) \subseteq Slots
    BY DEF Valid
  <2>2. IsFiniteSet(Valid(s)) /\ c \in Nat
    BY <2>1, SlotsAreFinite, FS_Subset, FS_CardinalityType
  <2>3. \A i \in Slots : Age(i) \in Slots
    BY DEF GoodSegment, Segments, Entry
  <2>4. \A a \in Slots : a \in Nat /\ a < numEntries
    BY ConstantsAssumption DEF Slots
  <2> HIDE DEF Age, c
  <2> QED
    BY <2>1, <2>2, <2>3, <2>4 DEF c
<1>2. ASSUME NEW m \in 0 .. numEntries, \A i \in Slots : i \in Valid(s) <=> Age(i) < m
      PROVE  c = m
  <2> DEFINE f == [i \in Valid(s) |-> Age(i)]
  <2>1. f \in [Valid(s) -> 0 .. m - 1]
    BY <1>1, <1>2
  <2>2. \A i, j \in Valid(s) : f[i] = f[j] => i = j
    BY <1>1 DEF GoodSegment, Ranked
  <2>3. ASSUME NEW a \in 0 .. m - 1 PROVE \E i \in Valid(s) : f[i] = a
    <3>1. a \in Slots
      BY ConstantsAssumption DEF Slots
    <3>2. PICK i \in Slots : s.entries[i].age = a
      BY <3>1, AgesCover DEF GoodSegment
    <3>3. i \in Valid(s)
      BY <3>2, <1>2
    <3> QED
      BY <3>2, <3>3
  <2> HIDE DEF f
  <2>4. f \in Bijection(Valid(s), 0 .. m - 1)
    BY <2>1, <2>2, <2>3 DEF Bijection, Injection, Surjection, IsInjective
  <2>5. c = Cardinality(0 .. m - 1)
    <3>1. ExistsBijection(Valid(s), 0 .. m - 1)
      BY <2>4 DEF ExistsBijection
    <3> QED
      BY <3>1, <1>1, FS_Bijection
  <2>6. 0 \in Int /\ m - 1 \in Int /\ (0 > m - 1 => m = 0) /\ m - 1 - 0 + 1 = m
    OBVIOUS
  <2>7. Cardinality(0 .. m - 1) = IF 0 > m - 1 THEN 0 ELSE m - 1 - 0 + 1
    BY <2>6, FS_Interval
  <2> QED
    BY <2>5, <2>6, <2>7
<1>3. CASE Valid(s) = Slots
  <2>1. numEntries \in 0 .. numEntries
    BY ConstantsAssumption
  <2>2. \A i \in Slots : i \in Valid(s) <=> Age(i) < numEntries
    BY <1>1, <1>3
  <2> HIDE DEF Age, c
  <2> QED
    BY <2>1, <2>2, <1>2 DEF c, Age
<1>4. CASE Valid(s) # Slots
  <2> DEFINE A == {a \in Slots : \E i \in Slots \ Valid(s) : Age(i) = a}
  <2>1. A \in SUBSET Slots /\ A # {}
    BY <1>1, <1>4
  <2>2. PICK m \in A : \A a \in A : m <= a
    BY <2>1, FirstSlot
  <2>3. PICK j \in Slots \ Valid(s) : Age(j) = m
    BY <2>2
  <2>4. m \in 0 .. numEntries
    BY <2>1, <2>2, ConstantsAssumption DEF Slots
  <2>5. ASSUME NEW i \in Slots PROVE i \in Valid(s) <=> Age(i) < m
    <3>1. i \in Valid(s) => Age(i) < m
      BY <2>3 DEF GoodSegment, FreeIsOlder
    <3>2. i \notin Valid(s) => m <= Age(i)
      BY <2>2, <1>1
    <3> QED
      BY <3>1, <3>2, <2>4, <1>1
  <2> HIDE DEF Age, c, A
  <2> QED
    BY <2>4, <2>5, <1>2 DEF c, Age
<1> QED
  BY <1>3, <1>4

LEMMA ByAgeIs ==
  ASSUME NEW s, GoodSegment(s)
  PROVE  LET q == ByAge(s)
             c == Cardinality(Valid(s))
         IN /\ c \in 0 .. numEntries /\ q \in Seq(PCs) /\ Len(q) = c
            /\ \A i \in Slots : i \in Valid(s) <=> s.entries[i].age < c
            /\ \A i \in Valid(s) : s.entries[i].age + 1 \in 1 .. c
                                   /\ q[s.entries[i].age + 1] = s.entries[i].pc
            /\ \A n \in 1 .. c : \E i \in Valid(s) : s.entries[i].age = n - 1 /\ q[n] = s.entries[i].pc
            /\ c = numEntries <=> s.entries[s.lru].valid
<1> DEFINE q == ByAge(s)
           c == Cardinality(Valid(s))
<1>1. c \in 0 .. numEntries /\ \A i \in Slots : i \in Valid(s) <=> s.entries[i].age < c
  BY ValidAges
<1>2. /\ Valid(s) \subseteq Slots /\ s.lru \in Slots
      /\ \A i \in Slots : s.entries[i].age \in Slots /\ s.entries[i].age \in Nat
      /\ \A i \in Valid(s) : s.entries[i].pc \in PCs
  <2>1. \A i \in Valid(s) : s.entries[i].pc \in PCs
    BY HeldArePCs DEF PCsOf
  <2>2. s.lru \in Slots /\ \A i \in Slots : s.entries[i].age \in Slots
    BY DEF GoodSegment, Segments, Entry
  <2>3. \A a \in Slots : a \in Nat
    BY DEF Slots
  <2> QED
    BY <2>1, <2>2, <2>3 DEF Valid
<1>3. q = [n \in 1 .. c |-> s.entries[AtAge(s, n - 1)].pc]
  BY DEF ByAge
<1> HIDE DEF q, c
<1>4. ASSUME NEW i \in Valid(s) PROVE AtAge(s, s.entries[i].age) = i
  <2>1. AtAge(s, s.entries[i].age) \in Valid(s)
        /\ s.entries[AtAge(s, s.entries[i].age)].age = s.entries[i].age
    BY DEF AtAge
  <2> QED
    BY <2>1, <1>2 DEF GoodSegment, Ranked
<1>5. ASSUME NEW n \in 1 .. c
      PROVE  \E i \in Valid(s) : s.entries[i].age = n - 1 /\ q[n] = s.entries[i].pc
  <2>1. n - 1 \in Slots /\ n - 1 < c
    BY <1>1, ConstantsAssumption DEF Slots
  <2>2. PICK i \in Slots : s.entries[i].age = n - 1
    BY <2>1, AgesCover DEF GoodSegment
  <2>3. i \in Valid(s)
    BY <2>1, <2>2, <1>1
  <2>4. AtAge(s, n - 1) = i
    BY <2>2, <2>3, <1>4
  <2> QED
    BY <2>2, <2>3, <2>4, <1>3
<1>6. ASSUME NEW i \in Valid(s)
      PROVE  s.entries[i].age + 1 \in 1 .. c /\ q[s.entries[i].age + 1] = s.entries[i].pc
  <2>1. s.entries[i].age \in Nat /\ s.entries[i].age < c /\ i \in Slots
    BY <1>1, <1>2
  <2>2. s.entries[i].age + 1 \in 1 .. c /\ (s.entries[i].age + 1) - 1 = s.entries[i].age
    BY <2>1, <1>1
  <2>3. q[s.entries[i].age + 1] = s.entries[AtAge(s, s.entries[i].age)].pc
    BY <2>2, <1>3
  <2> QED
    BY <2>2, <2>3, <1>4
<1>7. q \in Seq(PCs) /\ Len(q) = c
  <2>1. \A n \in 1 .. c : q[n] \in PCs
    BY <1>2, <1>5
  <2>2. q \in [1 .. c -> PCs]
    BY <2>1, <1>3
  <2>3. c \in Nat
    BY <1>1
  <2> QED
    BY <2>2, <2>3
<1>8. c = numEntries <=> s.entries[s.lru].valid
  <2>1. s.entries[s.lru].age = numEntries - 1
    BY DEF GoodSegment, LruIsOldest
  <2>2. s.lru \in Valid(s) <=> numEntries - 1 < c
    BY <2>1, <1>1, <1>2
  <2>3. numEntries - 1 < c <=> c = numEntries
    BY <1>1, ConstantsAssumption
  <2> QED
    BY <2>2, <2>3, <1>2 DEF Valid
<1> QED
  BY <1>1, <1>5, <1>6, <1>7, <1>8 DEF q, c

(***************************************************************************)
(* Lists: a branch taken out, a branch put in front, the youngest kept.    *)
(***************************************************************************)
LEMMA WithoutIs ==
  ASSUME NEW q \in Seq(PCs), NEW k \in 1 .. Len(q),
         \A j \in 1 .. Len(q) : q[j] = q[k] => j = k
  PROVE  LET r == Recency!Without(q, q[k])
         IN /\ r \in Seq(PCs) /\ Len(r) = Len(q) - 1
            /\ \A n \in 1 .. Len(q) - 1 : r[n] = IF n < k THEN q[n] ELSE q[n + 1]
<1> DEFINE h == SubSeq(q, 1, k - 1)
           t == SubSeq(q, k + 1, Len(q))
<1>1. (CHOOSE j \in DOMAIN q : q[j] = q[k]) = k
  OBVIOUS
<1>2. Recency!Without(q, q[k]) = h \o t
  BY <1>1 DEF Recency!Without, Recency!RemoveAt
<1>3. /\ h \in Seq(PCs) /\ Len(h) = k - 1 /\ \A n \in 1 .. k - 1 : h[n] = q[n]
      /\ t \in Seq(PCs) /\ Len(t) = Len(q) - k
      /\ \A n \in 1 .. Len(q) - k : t[n] = q[k + n]
  OBVIOUS
<1> HIDE DEF h, t
<1>4. /\ h \o t \in Seq(PCs) /\ Len(h \o t) = Len(q) - 1
      /\ \A n \in 1 .. Len(q) - 1 : (h \o t)[n] = IF n < k THEN q[n] ELSE q[n + 1]
  <2>1. h \o t \in Seq(PCs) /\ Len(h \o t) = Len(h) + Len(t)
    <3>1. h \in Seq(PCs) /\ t \in Seq(PCs)
      BY <1>3
    <3> QED
      BY ONLY <3>1
  <2>2. ASSUME NEW n \in 1 .. Len(q) - 1
        PROVE  (h \o t)[n] = IF n < k THEN q[n] ELSE q[n + 1]
    <3>1. CASE n < k
      BY <3>1, <1>3
    <3>2. CASE ~(n < k)
      <4>1. n - (k - 1) \in 1 .. Len(q) - k /\ k + (n - (k - 1)) = n + 1
        BY <3>2
      <4>2. (h \o t)[n] = t[n - Len(h)]
        <5>1. n \in 1 .. Len(h) + Len(t) /\ ~(n <= Len(h))
          BY <3>2, <1>3
        <5>2. h \in Seq(PCs) /\ t \in Seq(PCs)
          BY <1>3
        <5> QED
          BY ONLY <5>1, <5>2
      <4> QED
        BY <3>2, <4>1, <4>2, <1>3
    <3> QED
      BY <3>1, <3>2
  <2> QED
    BY <2>1, <2>2, <1>3
<1> QED
  BY <1>2, <1>4

LEMMA InFront ==
  ASSUME NEW q \in Seq(PCs), NEW pc \in PCs
  PROVE  LET r == <<pc>> \o q
         IN /\ r \in Seq(PCs) /\ Len(r) = Len(q) + 1 /\ r[1] = pc
            /\ \A n \in 1 .. Len(q) : r[n + 1] = q[n]
OBVIOUS

LEMMA YoungestIs ==
  ASSUME NEW q \in Seq(PCs)
  PROVE  LET r == Recency!Youngest(q)
             m == IF Len(q) < numEntries THEN Len(q) ELSE numEntries
         IN /\ r \in Seq(PCs) /\ Len(r) = m /\ m <= Len(q)
            /\ \A n \in 1 .. m : r[n] = q[n]
<1> DEFINE m == IF Len(q) < numEntries THEN Len(q) ELSE numEntries
<1>1. m \in Nat /\ m <= Len(q)
  OBVIOUS
<1>2. Recency!Youngest(q) = SubSeq(q, 1, m)
  BY DEF Recency!Youngest
<1> HIDE DEF m
<1>3. /\ SubSeq(q, 1, m) \in Seq(PCs) /\ Len(SubSeq(q, 1, m)) = m
      /\ \A n \in 1 .. m : SubSeq(q, 1, m)[n] = q[n]
  BY <1>1
<1> QED
  BY <1>1, <1>2, <1>3 DEF m

LEMMA SameList ==
  ASSUME NEW q \in Seq(PCs), NEW r \in Seq(PCs), Len(q) = Len(r),
         \A n \in 1 .. Len(q) : q[n] = r[n]
  PROVE  q = r
OBVIOUS

LEMMA AgeIsNat ==
  ASSUME NEW s, GoodSegment(s), NEW i \in Slots
  PROVE  s.entries[i].age \in Nat
<1>1. s.entries[i].age \in Slots
  BY DEF GoodSegment, Segments, Entry
<1> QED
  BY <1>1 DEF Slots

(* A branch that a segment holds is once in its list.                      *)
LEMMA OnceInList ==
  ASSUME NEW s, GoodSegment(s), NEW k \in Valid(s)
  PROVE  LET q == ByAge(s)
             a == s.entries[k].age
         IN /\ a \in Nat /\ a + 1 \in 1 .. Len(q) /\ q[a + 1] = s.entries[k].pc
            /\ \A j \in 1 .. Len(q) : q[j] = q[a + 1] => j = a + 1
            /\ s.entries[k].pc \in Recency!ToSet(q)
<1> DEFINE q == ByAge(s)
           a == s.entries[k].age
<1>1. /\ q \in Seq(PCs)
      /\ \A i \in Valid(s) : s.entries[i].age + 1 \in 1 .. Len(q) /\ q[s.entries[i].age + 1] = s.entries[i].pc
      /\ \A n \in 1 .. Len(q) : \E i \in Valid(s) : s.entries[i].age = n - 1 /\ q[n] = s.entries[i].pc
  BY ByAgeIs
<1> HIDE DEF q
<1>2. a \in Nat /\ a + 1 \in 1 .. Len(q) /\ q[a + 1] = s.entries[k].pc
  <2>1. a \in Nat
    BY AgeIsNat DEF Valid
  <2>2. s.entries[k].age + 1 \in 1 .. Len(q) /\ q[s.entries[k].age + 1] = s.entries[k].pc
    BY <1>1
  <2> QED
    BY <2>1, <2>2
<1>3. ASSUME NEW j \in 1 .. Len(q), q[j] = q[a + 1]
      PROVE  j = a + 1
  <2>1. PICK i \in Valid(s) : s.entries[i].age = j - 1 /\ q[j] = s.entries[i].pc
    BY <1>1
  <2>2. i = k
    BY <2>1, <1>2, <1>3 DEF GoodSegment, Distinct
  <2> QED
    BY <2>1, <2>2, <1>2
<1>4. s.entries[k].pc \in Recency!ToSet(q)
  BY <1>1, <1>2 DEF Recency!ToSet
<1> QED
  BY <1>2, <1>3, <1>4 DEF q

LEMMA BumpList ==
  ASSUME NEW s, GoodSegment(s), NEW pc \in PCs, contains(s, pc)
  PROVE  /\ ByAge(bump(s, pc)) = <<pc>> \o Recency!Without(ByAge(s), pc)
         /\ pc \in Recency!ToSet(ByAge(s))
<1> DEFINE t == bump(s, pc)
           q == ByAge(s)
           r == ByAge(t)
<1>1. /\ GoodSegment(t)
      /\ \A i \in Slots : t.entries[i].valid = s.entries[i].valid /\ t.entries[i].pc = s.entries[i].pc
  BY Bumped
<1>2. PICK k \in Valid(s) : /\ s.entries[k].pc = pc /\ t.entries[k].age = 0
                            /\ \A i \in Slots \ {k} :
                                 t.entries[i].age = IF s.entries[i].age < s.entries[k].age
                                                    THEN s.entries[i].age + 1
                                                    ELSE s.entries[i].age
  BY Bumped
<1> HIDE DEF t
<1> DEFINE a == s.entries[k].age
           w == Recency!Without(q, pc)
<1>3. Valid(t) = Valid(s)
  BY <1>1 DEF Valid
<1>4. /\ a \in Nat /\ a + 1 \in 1 .. Len(q) /\ q[a + 1] = pc
      /\ \A j \in 1 .. Len(q) : q[j] = q[a + 1] => j = a + 1
      /\ pc \in Recency!ToSet(q)
  BY <1>2, OnceInList
<1>5. /\ q \in Seq(PCs) /\ r \in Seq(PCs) /\ Len(r) = Len(q)
      /\ \A i \in Valid(s) : s.entries[i].age + 1 \in 1 .. Len(q) /\ q[s.entries[i].age + 1] = s.entries[i].pc
      /\ \A n \in 1 .. Len(r) : \E i \in Valid(s) : t.entries[i].age = n - 1 /\ r[n] = t.entries[i].pc
  BY <1>1, <1>3, ByAgeIs
<1> HIDE DEF q, r
<1>6. /\ w \in Seq(PCs) /\ Len(w) = Len(q) - 1
      /\ \A n \in 1 .. Len(q) - 1 : w[n] = IF n < a + 1 THEN q[n] ELSE q[n + 1]
  BY <1>4, <1>5, WithoutIs
<1> HIDE DEF w
<1>7. /\ <<pc>> \o w \in Seq(PCs) /\ Len(<<pc>> \o w) = Len(q) /\ (<<pc>> \o w)[1] = pc
      /\ \A n \in 1 .. Len(q) - 1 : (<<pc>> \o w)[n + 1] = w[n]
  BY <1>5, <1>6, InFront
<1>8. ASSUME NEW n \in 1 .. Len(r) PROVE r[n] = (<<pc>> \o w)[n]
  <2>1. PICK i \in Valid(s) : t.entries[i].age = n - 1 /\ r[n] = t.entries[i].pc
    BY <1>5
  <2>2. i \in Slots /\ r[n] = s.entries[i].pc /\ s.entries[i].age \in Nat /\ n \in Nat
    <3>1. i \in Slots /\ n \in Nat
      BY <1>5 DEF Valid
    <3>2. r[n] = s.entries[i].pc
      BY <3>1, <2>1, <1>1
    <3> QED
      BY <3>1, <3>2, AgeIsNat
  <2>3. CASE i = k
    BY <2>1, <2>2, <2>3, <1>2, <1>7
  <2>4. CASE i # k
    <3>1. t.entries[i].age = IF s.entries[i].age < a THEN s.entries[i].age + 1 ELSE s.entries[i].age
      BY <2>2, <2>4, <1>2
    <3>2. s.entries[i].age # a
      BY <2>2, <2>4 DEF GoodSegment, Ranked, Valid
    <3>3. s.entries[i].age + 1 \in 1 .. Len(q) /\ q[s.entries[i].age + 1] = r[n]
      BY <2>2, <1>5
    <3> HIDE DEF a
    <3>4. n - 1 \in 1 .. Len(q) - 1 /\ (<<pc>> \o w)[n] = w[n - 1]
      <4>1. n - 1 \in 1 .. Len(q) - 1
        BY <3>1, <3>2, <2>1, <2>2, <1>4, <1>5
      <4>2. (<<pc>> \o w)[(n - 1) + 1] = w[n - 1] /\ (n - 1) + 1 = n
        BY <4>1, <1>7
      <4> QED
        BY <4>1, <4>2
    <3>5. w[n - 1] = IF n - 1 < a + 1 THEN q[n - 1] ELSE q[(n - 1) + 1]
      BY <3>4, <1>6
    <3>6. CASE s.entries[i].age < a
      <4>1. s.entries[i].age + 1 = n - 1 /\ n - 1 < a + 1
        BY <3>1, <3>6, <2>1, <2>2, <1>4
      <4> QED
        BY <4>1, <3>3, <3>4, <3>5
    <3>7. CASE ~(s.entries[i].age < a)
      <4>1. s.entries[i].age + 1 = (n - 1) + 1 /\ ~(n - 1 < a + 1)
        BY <3>1, <3>2, <3>7, <2>1, <2>2, <1>4
      <4> QED
        BY <4>1, <3>3, <3>4, <3>5
    <3> QED
      BY <3>6, <3>7
  <2> QED
    BY <2>3, <2>4
<1>9. r = <<pc>> \o w
  BY <1>5, <1>7, <1>8, SameList
<1> QED
  BY <1>4, <1>9 DEF q, r, w, t

LEMMA RemoveList ==
  ASSUME NEW s, GoodSegment(s), NEW pc \in PCs, contains(s, pc)
  PROVE  /\ ByAge(remove(s, pc)) = Recency!Without(ByAge(s), pc)
         /\ pc \in Recency!ToSet(ByAge(s))
         /\ Len(ByAge(remove(s, pc))) < numEntries
<1> DEFINE t == remove(s, pc)
           q == ByAge(s)
           r == ByAge(t)
<1>1. GoodSegment(t)
  BY Removed
<1>12. PICK k \in Valid(s) : s.entries[k].pc = pc /\ TakenOut(s, t, k)
  BY Removed
<1> HIDE DEF t
<1>2. /\ s.entries[k].pc = pc
      /\ t.entries[k] = [valid |-> FALSE, pc |-> NoPC, age |-> numEntries - 1]
      /\ \A i \in Slots \ {k} :
           /\ t.entries[i].valid = s.entries[i].valid
           /\ t.entries[i].pc = s.entries[i].pc
           /\ t.entries[i].age = IF s.entries[i].age > s.entries[k].age THEN s.entries[i].age - 1
                                 ELSE s.entries[i].age
  BY <1>12 DEF TakenOut
<1> DEFINE a == s.entries[k].age
           w == Recency!Without(q, pc)
<1>3. Valid(t) = Valid(s) \ {k} /\ k \in Slots
  <2>1. t.entries[k].valid = FALSE
    BY <1>2
  <2>2. \A i \in Slots \ {k} : i \in Valid(t) <=> i \in Valid(s)
    BY <1>2 DEF Valid
  <2> QED
    BY <2>1, <2>2 DEF Valid
<1>4. /\ a \in Nat /\ a + 1 \in 1 .. Len(q) /\ q[a + 1] = pc
      /\ \A j \in 1 .. Len(q) : q[j] = q[a + 1] => j = a + 1
      /\ pc \in Recency!ToSet(q)
  BY <1>2, OnceInList
<1>5. /\ q \in Seq(PCs) /\ r \in Seq(PCs) /\ Len(r) = Len(q) - 1 /\ Len(q) <= numEntries
      /\ \A i \in Valid(s) : s.entries[i].age + 1 \in 1 .. Len(q) /\ q[s.entries[i].age + 1] = s.entries[i].pc
      /\ \A n \in 1 .. Len(r) : \E i \in Valid(t) : t.entries[i].age = n - 1 /\ r[n] = t.entries[i].pc
  <2>1. Cardinality(Valid(s) \ {k}) = Cardinality(Valid(s)) - 1
    <3>1. IsFiniteSet(Valid(s))
      BY SlotsAreFinite, FS_Subset DEF Valid
    <3> QED
      BY <3>1, FS_RemoveElement
  <2>2. /\ q \in Seq(PCs) /\ Len(q) = Cardinality(Valid(s)) /\ Len(q) \in 0 .. numEntries
        /\ \A i \in Valid(s) : s.entries[i].age + 1 \in 1 .. Len(q) /\ q[s.entries[i].age + 1] = s.entries[i].pc
    BY ByAgeIs
  <2>3. /\ r \in Seq(PCs) /\ Len(r) = Cardinality(Valid(t))
        /\ \A n \in 1 .. Len(r) : \E i \in Valid(t) : t.entries[i].age = n - 1 /\ r[n] = t.entries[i].pc
    BY <1>1, ByAgeIs
  <2> HIDE DEF q, r
  <2>4. Len(r) = Len(q) - 1 /\ Len(q) <= numEntries
    BY <2>1, <2>2, <2>3, <1>3
  <2> QED
    BY <2>2, <2>3, <2>4
<1> HIDE DEF q, r
<1>6. /\ w \in Seq(PCs) /\ Len(w) = Len(q) - 1
      /\ \A n \in 1 .. Len(q) - 1 : w[n] = IF n < a + 1 THEN q[n] ELSE q[n + 1]
  BY <1>4, <1>5, WithoutIs
<1> HIDE DEF w
<1>7. ASSUME NEW n \in 1 .. Len(r) PROVE r[n] = w[n]
  <2>1. PICK i \in Valid(t) : t.entries[i].age = n - 1 /\ r[n] = t.entries[i].pc
    BY <1>5
  <2>2. /\ i \in Slots \ {k} /\ i \in Valid(s) /\ r[n] = s.entries[i].pc
        /\ t.entries[i].age = IF s.entries[i].age > a THEN s.entries[i].age - 1 ELSE s.entries[i].age
    BY <2>1, <1>2, <1>3 DEF Valid
  <2>3. s.entries[i].age \in Nat /\ s.entries[i].age # a /\ n \in Nat
    <3>1. s.entries[i].age \in Nat
      BY <2>2, AgeIsNat
    <3>2. s.entries[i].age # a
      BY <2>2, <1>3 DEF GoodSegment, Ranked
    <3> QED
      BY <3>1, <3>2, <1>5
  <2>4. s.entries[i].age + 1 \in 1 .. Len(q) /\ q[s.entries[i].age + 1] = r[n]
    BY <2>2, <1>5
  <2> HIDE DEF a
  <2>5. w[n] = IF n < a + 1 THEN q[n] ELSE q[n + 1]
    BY <1>5, <1>6
  <2> DEFINE x == s.entries[i].age
  <2>8. x \in Nat /\ a \in Nat /\ n \in Nat /\ x # a /\ n - 1 = IF x > a THEN x - 1 ELSE x
    BY <2>1, <2>2, <2>3, <1>4
  <2> HIDE DEF x
  <2>6. CASE x > a
    <3>1. x + 1 = n + 1 /\ ~(n < a + 1)
      BY ONLY <2>8, <2>6
    <3>2. q[n + 1] = r[n]
      BY <3>1, <2>4, Zenon DEF x
    <3>3. w[n] = q[n + 1]
      BY <3>1, <2>5, Zenon
    <3> QED
      BY <3>2, <3>3
  <2>7. CASE ~(x > a)
    <3>1. x + 1 = n /\ n < a + 1
      BY ONLY <2>8, <2>7
    <3>2. q[n] = r[n]
      BY <3>1, <2>4, Zenon DEF x
    <3>3. w[n] = q[n]
      BY <3>1, <2>5, Zenon
    <3> QED
      BY <3>2, <3>3
  <2> QED
    BY <2>6, <2>7
<1>8. r = w
  BY <1>5, <1>6, <1>7, SameList
<1>9. Len(r) < numEntries
  BY <1>5
<1> QED
  BY <1>4, <1>8, <1>9 DEF q, r, w, t

LEMMA AddList ==
  ASSUME NEW s, GoodSegment(s), NEW pc \in PCs, ~contains(s, pc)
  PROVE  LET q == ByAge(s)
             e == add(s, pc).evicted
         IN /\ ByAge(add(s, pc).seg) = Recency!Youngest(<<pc>> \o q)
            /\ q \in Seq(PCs) /\ Len(q) <= numEntries
            /\ e # NoPC => Len(q) = numEntries /\ e = q[Len(q)]
            /\ e = NoPC => Len(q) < numEntries
            /\ pc \notin Recency!ToSet(q)
<1> DEFINE t == add(s, pc).seg
           q == ByAge(s)
           r == ByAge(t)
           v == s.lru
           e == add(s, pc).evicted
           f == <<pc>> \o q
           y == Recency!Youngest(f)
<1>1. /\ GoodSegment(t) /\ v \in Slots
      /\ e = s.entries[v].pc
      /\ t.entries[v] = [valid |-> TRUE, pc |-> pc, age |-> 0]
      /\ \A i \in Slots \ {v} : /\ t.entries[i].valid = s.entries[i].valid
                                /\ t.entries[i].pc = s.entries[i].pc
                                /\ t.entries[i].age = s.entries[i].age + 1
  BY Added
<1> HIDE DEF t, v, e
<1>2. t.entries[v].valid = TRUE /\ t.entries[v].pc = pc /\ t.entries[v].age = 0
  BY <1>1
<1>3. Valid(t) = Valid(s) \cup {v}
  <2>1. \A i \in Slots \ {v} : i \in Valid(t) <=> i \in Valid(s)
    BY <1>1 DEF Valid
  <2>2. v \in Valid(t)
    BY <1>1, <1>2 DEF Valid
  <2> QED
    BY <2>1, <2>2, <1>1 DEF Valid
<1>4. /\ q \in Seq(PCs) /\ Len(q) \in 0 .. numEntries
      /\ \A i \in Valid(s) : s.entries[i].age + 1 \in 1 .. Len(q) /\ q[s.entries[i].age + 1] = s.entries[i].pc
      /\ \A n \in 1 .. Len(q) : \E i \in Valid(s) : s.entries[i].age = n - 1 /\ q[n] = s.entries[i].pc
      /\ Len(q) = numEntries <=> v \in Valid(s)
      /\ Len(q) = Cardinality(Valid(s))
  <2>1. /\ q \in Seq(PCs) /\ Len(q) \in 0 .. numEntries
        /\ \A i \in Valid(s) : s.entries[i].age + 1 \in 1 .. Len(q) /\ q[s.entries[i].age + 1] = s.entries[i].pc
        /\ \A n \in 1 .. Len(q) : \E i \in Valid(s) : s.entries[i].age = n - 1 /\ q[n] = s.entries[i].pc
        /\ Len(q) = numEntries <=> s.entries[s.lru].valid
        /\ Len(q) = Cardinality(Valid(s))
    BY ByAgeIs
  <2>2. v \in Valid(s) <=> s.entries[s.lru].valid
    BY <1>1 DEF Valid, v
  <2> QED
    BY <2>1, <2>2
<1>5. /\ r \in Seq(PCs) /\ Len(r) = Cardinality(Valid(t))
      /\ \A n \in 1 .. Len(r) : \E i \in Valid(t) : t.entries[i].age = n - 1 /\ r[n] = t.entries[i].pc
  BY <1>1, ByAgeIs
<1> HIDE DEF q, r
<1>6. Len(r) = IF Len(q) = numEntries THEN Len(q) ELSE Len(q) + 1
  <2>1. CASE v \in Valid(s)
    <3>1. Valid(t) = Valid(s)
      BY <2>1, <1>3
    <3> QED
      BY <3>1, <2>1, <1>4, <1>5
  <2>2. CASE v \notin Valid(s)
    <3>1. IsFiniteSet(Valid(s))
      BY SlotsAreFinite, FS_Subset DEF Valid
    <3>2. Cardinality(Valid(s) \cup {v}) = Cardinality(Valid(s)) + 1
      BY <3>1, <2>2, FS_AddElement
    <3> QED
      BY <3>2, <2>2, <1>3, <1>4, <1>5
  <2> QED
    BY <2>1, <2>2
<1>7. /\ f \in Seq(PCs) /\ Len(f) = Len(q) + 1 /\ f[1] = pc
      /\ \A n \in 1 .. Len(q) : f[n + 1] = q[n]
  BY <1>4, InFront
<1> HIDE DEF f
<1>8. y \in Seq(PCs) /\ Len(y) = Len(r) /\ \A n \in 1 .. Len(r) : y[n] = f[n]
  <2>1. (IF Len(f) < numEntries THEN Len(f) ELSE numEntries) = Len(r)
    BY <1>4, <1>6, <1>7
  <2>2. f \in Seq(PCs)
    BY <1>7
  <2> QED
    BY <2>1, <2>2, YoungestIs
<1>9. ASSUME NEW n \in 1 .. Len(r) PROVE r[n] = f[n]
  <2>1. PICK i \in Valid(t) : t.entries[i].age = n - 1 /\ r[n] = t.entries[i].pc
    BY <1>5
  <2>2. CASE i = v
    BY <2>1, <2>2, <1>2, <1>7
  <2>3. CASE i # v
    <3>1. /\ i \in Slots \ {v} /\ i \in Valid(s) /\ s.entries[i].age \in Nat /\ n \in Nat
          /\ t.entries[i].pc = s.entries[i].pc /\ t.entries[i].age = s.entries[i].age + 1
      <4>1. i \in Slots \ {v} /\ i \in Valid(s) /\ n \in Nat
        BY <2>3, <1>3, <1>5 DEF Valid
      <4> QED
        BY <4>1, <1>1, AgeIsNat
    <3>2. s.entries[i].age + 1 \in 1 .. Len(q) /\ q[s.entries[i].age + 1] = r[n]
      BY <3>1, <2>1, <1>4
    <3>3. s.entries[i].age + 1 = n - 1
      BY <3>1, <2>1
    <3>4. f[(n - 1) + 1] = q[n - 1] /\ (n - 1) + 1 = n
      BY <3>2, <3>3, <1>7
    <3> QED
      BY <3>2, <3>3, <3>4
  <2> QED
    BY <2>2, <2>3
<1>10. r = y
  BY <1>5, <1>8, <1>9, SameList
<1>11. /\ e # NoPC => Len(q) = numEntries /\ e = q[Len(q)]
       /\ e = NoPC => Len(q) < numEntries
  <2>1. e # NoPC <=> v \in Valid(s)
    BY <1>1 DEF GoodSegment, Named, Valid
  <2>2. ASSUME v \in Valid(s) PROVE e = q[Len(q)]
    <3>1. s.entries[v].age = numEntries - 1
      BY DEF GoodSegment, LruIsOldest, v
    <3>2. s.entries[v].age + 1 = Len(q)
      BY <2>2, <3>1, <1>4
    <3> QED
      BY <2>2, <3>2, <1>1, <1>4
  <2> QED
    BY <2>1, <2>2, <1>4
<1>12. pc \notin Recency!ToSet(q)
  <2>1. ASSUME NEW n \in 1 .. Len(q) PROVE q[n] # pc
    <3>1. PICK i \in Valid(s) : q[n] = s.entries[i].pc
      BY <1>4
    <3> QED
      BY <3>1 DEF contains, At, Valid
  <2> QED
    BY <2>1, <1>4 DEF Recency!ToSet
<1> QED
  BY <1>4, <1>10, <1>11, <1>12 DEF t, q, r, e, y, f

(***************************************************************************)
(* Each step of the cache is a step of the lists.                          *)
(***************************************************************************)
LEMMA TouchRefines ==
  ASSUME GoodCache, NEW pc \in PCs, Touch(pc)
  PROVE  Recency!Hit(pc) \/ Recency!Promote(pc) \/ Recency!Admit(pc)
<1> DEFINE P == ByAge(protectedSeg)
           Q == ByAge(probationarySeg)
<1>1. CASE Bump(pc)
  <2>1. /\ ByAge(protectedSeg') = <<pc>> \o Recency!Without(P, pc) /\ pc \in Recency!ToSet(P)
        /\ probationarySeg' = probationarySeg
    BY <1>1, BumpList DEF Bump, GoodCache
  <2>2. Recency!Hit(pc)
    BY <2>1 DEF Recency!Hit
  <2> QED
    BY <2>2
<1>2. CASE Promote(pc)
  <2> DEFINE added == add(protectedSeg, pc)
             rest == remove(probationarySeg, pc)
  <2>1. /\ protectedSeg' = added.seg
        /\ probationarySeg' = IF added.evicted = NoPC THEN rest ELSE add(rest, added.evicted).seg
        /\ ~contains(protectedSeg, pc) /\ contains(probationarySeg, pc)
    BY <1>2 DEF Promote
  <2>2. /\ ByAge(added.seg) = Recency!Youngest(<<pc>> \o P)
        /\ P \in Seq(PCs) /\ Len(P) <= numEntries
        /\ added.evicted # NoPC => Len(P) = numEntries /\ added.evicted = P[Len(P)]
        /\ added.evicted = NoPC => Len(P) < numEntries
    BY <2>1, AddList DEF GoodCache
  <2>3. /\ ByAge(rest) = Recency!Without(Q, pc) /\ pc \in Recency!ToSet(Q)
        /\ Len(ByAge(rest)) < numEntries
    BY <2>1, RemoveList DEF GoodCache
  <2>4. /\ GoodSegment(rest) /\ PCsOf(rest) = PCsOf(probationarySeg) \ {pc}
        /\ added.evicted \in PCsOf(protectedSeg) \cup {NoPC}
    BY <2>1, HeldAfterAdd, HeldAfterRemove DEF GoodCache
  <2> HIDE DEF added, rest, P, Q
  <2>5. CASE added.evicted = NoPC
    <3>1. Len(P) < numEntries /\ ByAge(probationarySeg') = Recency!Without(Q, pc)
      BY <2>1, <2>2, <2>3, <2>5
    <3> QED
      BY <3>1, <2>1, <2>2, <2>3 DEF Recency!Promote, P, Q
  <2>6. CASE added.evicted # NoPC
    <3>1. added.evicted \in PCs /\ ~contains(rest, added.evicted)
      <4>1. added.evicted \in PCsOf(protectedSeg) /\ added.evicted \in PCs
        BY <2>4, <2>6, HeldArePCs DEF GoodCache
      <4>2. added.evicted \notin PCsOf(rest)
        BY <4>1, <2>4 DEF GoodCache
      <4> QED
        BY <4>1, <4>2, HeldIsContained
    <3>2. ByAge(add(rest, added.evicted).seg) = Recency!Youngest(<<added.evicted>> \o ByAge(rest))
          /\ ByAge(rest) \in Seq(PCs)
      BY <3>1, <2>4, AddList
    <3>3. Recency!Youngest(<<added.evicted>> \o ByAge(rest)) = <<added.evicted>> \o ByAge(rest)
      <4> DEFINE f == <<added.evicted>> \o ByAge(rest)
      <4>1. f \in Seq(PCs) /\ Len(f) <= numEntries
        BY <3>1, <3>2, <2>3, InFront
      <4> HIDE DEF f
      <4>2. /\ Recency!Youngest(f) \in Seq(PCs) /\ Len(Recency!Youngest(f)) = Len(f)
            /\ \A n \in 1 .. Len(f) : Recency!Youngest(f)[n] = f[n]
        <5>1. (IF Len(f) < numEntries THEN Len(f) ELSE numEntries) = Len(f)
          BY <4>1
        <5> QED
          BY <4>1, <5>1, YoungestIs
      <4> QED
        BY <4>1, <4>2, SameList DEF f
    <3>4. ByAge(probationarySeg') = <<Recency!Last(P)>> \o Recency!Without(Q, pc)
          /\ ~(Len(P) < numEntries)
      <4>1. Recency!Last(P) = added.evicted
        BY <2>2, <2>6 DEF Recency!Last
      <4> QED
        BY <4>1, <3>2, <3>3, <2>1, <2>2, <2>3, <2>6
    <3> QED
      BY <3>4, <2>1, <2>2, <2>3 DEF Recency!Promote, P, Q
  <2> QED
    BY <2>5, <2>6
<1>3. CASE Admit(pc)
  <2>1. /\ ByAge(probationarySeg') = Recency!Youngest(<<pc>> \o Q) /\ protectedSeg' = protectedSeg
        /\ pc \notin Recency!ToSet(P) /\ pc \notin Recency!ToSet(Q)
    BY <1>3, AddList DEF Admit, GoodCache
  <2> QED
    BY <2>1 DEF Recency!Admit
<1> QED
  BY <1>1, <1>2, <1>3 DEF Touch

LEMMA EmptyList == ByAge(EmptySegment) = <<>>
<1>1. Cardinality(Valid(EmptySegment)) = 0
  BY EmptyIsGood, FS_EmptySet
<1>2. ByAge(EmptySegment) \in Seq(PCs) /\ Len(ByAge(EmptySegment)) = 0
  BY <1>1, EmptyIsGood, ByAgeIs
<1> QED
  BY <1>2

(* The segmented-LRU cache implements segmented LRU: the segments, listed  *)
(* by age, are its two recency lists.                                      *)
THEOREM RefinesSegmentedLRU == VIPSpec => ImplementsSegmentedLRU
<1>1. VIPInit => Recency!Init
  BY EmptyList DEF VIPInit, Init, Recency!Init
<1>2. ASSUME IndInv, [VIPNext]_vipVars
      PROVE  [Recency!Next]_<<ByAge(protectedSeg), ByAge(probationarySeg)>>
  <2>1. CASE UNCHANGED <<protectedSeg, probationarySeg>>
    BY <2>1
  <2>2. ASSUME NEW pc \in PCs, Touch(pc) PROVE Recency!Next
    BY <1>2, <2>2, TouchRefines DEF IndInv, Recency!Next
  <2>3. CASE VIPReset
    <3>1. ByAge(protectedSeg') = <<>> /\ ByAge(probationarySeg') = <<>>
      BY <2>3, EmptyList DEF VIPReset, Reset
    <3> QED
      BY <3>1 DEF Recency!Next, Recency!Clear
  <2> QED
    BY <1>2, <2>1, <2>2, <2>3
       DEF VIPNext, vipVars, cacheVars, Predict, Update, CacheAccess
<1> QED
  BY <1>1, <1>2, VIPCorrect, PTL DEF VIPSpec, ImplementsSegmentedLRU, Recency!Spec
=============================================================================
