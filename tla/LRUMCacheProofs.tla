-------------------------- MODULE LRUMCacheProofs --------------------------
(***************************************************************************)
(* Proofs about LRUMCache and NRUMCache for every set of PCs and size.     *)
(***************************************************************************)
EXTENDS LRUMCache, WellFoundedInduction, TLAPS

USE ConstantsAssumption

LEMMA MinIs ==
  ASSUME NEW S \in SUBSET Int, NEW x \in S, \A y \in S : x <= y
  PROVE  Min(S) = x
<1>1. \E m \in S : \A y \in S : m =< y
  OBVIOUS
<1>2. Min(S) \in S /\ \A y \in S : Min(S) =< y
  BY <1>1 DEF Min
<1>3. Min(S) <= x /\ x <= Min(S) /\ Min(S) \in Int
  BY <1>2
<1> QED
  BY <1>3

LEMMA MaxIs ==
  ASSUME NEW S \in SUBSET Int, NEW x \in S, \A y \in S : x >= y
  PROVE  Max(S) = x
<1>1. \E m \in S : \A y \in S : m >= y
  OBVIOUS
<1>2. Max(S) \in S /\ \A y \in S : Max(S) >= y
  BY <1>1 DEF Max
<1>3. Max(S) <= x /\ x <= Max(S) /\ Max(S) \in Int
  BY <1>2
<1> QED
  BY <1>3

LEMMA LeastNatural ==
  ASSUME NEW T \in SUBSET Nat, T # {}
  PROVE  \E x \in T : \A y \in T : x <= y
<1> DEFINE R == OpToRel(<, Nat)
<1>1. IsWellFoundedOn(R, Nat)
  BY NatLessThanWellFounded
<1>2. \A x, y \in Nat : <<y, x>> \in R <=> y < x
  BY DEF OpToRel
<1> HIDE DEF R
<1>3. PICK x \in T : \A y \in T : ~(<<y, x>> \in R)
  BY <1>1, WFMin
<1>4. \A y \in T : ~(y < x)
  BY <1>2, <1>3
<1> QED
  BY <1>4

(* A nonempty set of slots has a last one.                                 *)
LEMMA MaxInSlots ==
  ASSUME NEW S \in SUBSET Slots, S # {}
  PROVE  Max(S) \in S
<1> DEFINE T == {numEntries - 1 - s : s \in S}
<1>1. T \in SUBSET Nat /\ T # {}
  <2>1. \A s \in S : numEntries - 1 - s \in Nat
    BY DEF Slots
  <2> QED
    BY <2>1
<1>2. PICK x \in T : \A y \in T : x <= y
  BY <1>1, LeastNatural
<1>3. PICK s \in S : x = numEntries - 1 - s
  BY <1>2
<1>4. ASSUME NEW u \in S PROVE s >= u
  <2>1. numEntries - 1 - u \in T
    OBVIOUS
  <2>2. numEntries - 1 - s <= numEntries - 1 - u
    BY <2>1, <1>2, <1>3
  <2> QED
    BY <2>2 DEF Slots
<1> QED
  BY <1>4, MaxIs DEF Slots

(***************************************************************************)
(* The three ways an access goes: it hits the slot of pc, it fills the     *)
(* first free slot, or, with no slot free, it replaces the entry lru names.*)
(***************************************************************************)
LEMMA HitSlot ==
  ASSUME IndInv, NEW pc \in PCs, Hits(pc) # {}
  PROVE  /\ Target(pc) \in Used
         /\ Hits(pc) = {Target(pc)}
         /\ entries[Target(pc)].pc = pc
         /\ AgeLimit(pc) = entries[Target(pc)].age
<1>1. PICK h \in Slots : h \in Hits(pc)
  BY DEF Hits
<1>2. Hits(pc) = {h} /\ h \in Used
  BY <1>1 DEF Hits, Used, IndInv, NoDuplicatePC
<1>3. Min(Hits(pc)) = h
  BY <1>2, MinIs DEF Slots
<1> QED
  BY <1>1, <1>2, <1>3 DEF Target, AgeLimit, Hits

LEMMA FillSlot ==
  ASSUME IndInv, NEW pc \in PCs, Hits(pc) = {}, Free # {}
  PROVE  /\ Target(pc) \in Slots \ Used
         /\ Used = 0 .. Target(pc) - 1
         /\ AgeLimit(pc) = numEntries - 1
<1>1. PICK k \in 0 .. numEntries : Used = 0 .. k - 1
  BY DEF IndInv, FilledInOrder
<1>2. Free = k .. numEntries - 1
  BY <1>1 DEF Free, Used, Slots
<1>3. k \in Free /\ Free \in SUBSET Int /\ \A y \in Free : k <= y
  BY <1>2
<1>4. Min(Free) = k
  BY <1>3, MinIs
<1> QED
  BY <1>1, <1>3, <1>4 DEF Target, AgeLimit, Free, Used, Slots

LEMMA EvictSlot ==
  ASSUME IndInv, NEW pc \in PCs, Hits(pc) = {}, Free = {}
  PROVE  /\ Target(pc) = lru
         /\ lru \in Slots
         /\ Used = Slots
         /\ entries[lru].age = numEntries - 1
         /\ AgeLimit(pc) = numEntries - 1
<1>1. Used = Slots
  BY DEF Free, Used
<1> QED
  BY <1>1 DEF Target, AgeLimit, IndInv, TypeOK, LruIsOldestWhenFull

(* What an access leaves in each slot, the target slot t and the limit L   *)
(* being given.                                                            *)
LEMMA AfterAccess ==
  ASSUME IndInv, NEW pc \in PCs, Access(pc)
  PROVE  /\ Target(pc) \in Slots
         /\ AgeLimit(pc) \in Slots
         /\ Used' = Used \cup {Target(pc)}
         /\ \A i \in Slots \ {Target(pc)} :
              /\ entries'[i].pc = entries[i].pc
              /\ entries'[i].valid = entries[i].valid
              /\ entries'[i].age = IF entries[i].age < AgeLimit(pc)
                                   THEN entries[i].age + 1 ELSE entries[i].age
         /\ entries'[Target(pc)].pc = pc
         /\ entries'[Target(pc)].age = 0
<1> DEFINE t == Target(pc)
<1>1. t \in Slots /\ AgeLimit(pc) \in Slots
  <2>1. CASE Hits(pc) # {}
    BY <2>1, HitSlot DEF IndInv, TypeOK, Entry, Used
  <2>2. CASE Hits(pc) = {} /\ Free # {}
    BY <2>2, FillSlot DEF Slots
  <2>3. CASE Hits(pc) = {} /\ Free = {}
    BY <2>3, EvictSlot DEF Slots
  <2> QED
    BY <2>1, <2>2, <2>3
<1>2. entries' = [i \in Slots |->
                    IF i = t THEN [valid |-> TRUE, pc |-> pc, age |-> 0]
                    ELSE IF i \in Aging(pc)
                         THEN [entries[i] EXCEPT !.age = @ + 1]
                         ELSE entries[i]]
  BY DEF Access
<1>3. ASSUME NEW i \in Slots \ {t}
      PROVE  /\ entries'[i].pc = entries[i].pc
             /\ entries'[i].valid = entries[i].valid
             /\ entries'[i].age = IF entries[i].age < AgeLimit(pc)
                                  THEN entries[i].age + 1 ELSE entries[i].age
  <2>1. entries[i] \in Entry
    BY <1>3 DEF IndInv, TypeOK
  <2>2. i \in Aging(pc) <=> entries[i].age < AgeLimit(pc)
    BY DEF Aging
  <2>3. entries'[i] = IF i \in Aging(pc)
                      THEN [entries[i] EXCEPT !.age = @ + 1] ELSE entries[i]
    BY <1>2, <1>3
  <2> QED
    BY <2>1, <2>2, <2>3 DEF Entry
<1>4. entries'[t] = [valid |-> TRUE, pc |-> pc, age |-> 0]
  BY <1>1, <1>2
<1>5. Used' = Used \cup {t}
  BY <1>1, <1>3, <1>4 DEF Used
<1>6. entries'[t].pc = pc /\ entries'[t].age = 0
  BY <1>4
<1> QED
  BY <1>1, <1>3, <1>5, <1>6

(***************************************************************************)
(* An access preserves each conjunct of the invariant.                     *)
(***************************************************************************)
LEMMA AccessFilled ==
  ASSUME IndInv, NEW pc \in PCs, Access(pc)
  PROVE  FilledInOrder'
<1> DEFINE t == Target(pc)
<1>1. Used' = Used \cup {t}
  BY AfterAccess
<1>2. PICK k \in 0 .. numEntries : Used = 0 .. k - 1
  BY DEF IndInv, FilledInOrder
<1>3. CASE Hits(pc) = {} /\ Free # {}
  <2>1. t \in Slots \ Used /\ Used = 0 .. t - 1
    BY <1>3, FillSlot
  <2>2. Used' = 0 .. (t + 1) - 1 /\ t + 1 \in 0 .. numEntries
    BY <1>1, <2>1 DEF Slots
  <2> QED
    BY <2>2 DEF FilledInOrder
<1>4. CASE ~(Hits(pc) = {} /\ Free # {})
  <2>1. t \in Used
    BY <1>4, HitSlot, EvictSlot
  <2>2. Used' = 0 .. k - 1
    BY <1>1, <1>2, <2>1
  <2> QED
    BY <2>2 DEF FilledInOrder
<1> QED
  BY <1>3, <1>4

LEMMA AccessRank ==
  ASSUME IndInv, NEW pc \in PCs, Access(pc)
  PROVE  AgesRankUsed'
<1> DEFINE t == Target(pc)
           L == AgeLimit(pc)
<1>1. /\ t \in Slots /\ L \in Slots /\ Used' = Used \cup {t}
      /\ \A i \in Slots \ {t} :
           entries'[i].age = IF entries[i].age < L
                             THEN entries[i].age + 1 ELSE entries[i].age
      /\ entries'[t].age = 0
  BY AfterAccess
<1>2. \A i \in Slots : entries[i].age \in Slots
  BY DEF IndInv, TypeOK, Entry
<1>3. PICK k \in 0 .. numEntries : Used = 0 .. k - 1
  BY DEF IndInv, FilledInOrder
<1>4. /\ \A i \in Used : entries[i].age \in Used
      /\ \A i, j \in Used : entries[i].age = entries[j].age => i = j
      /\ \A a \in Used : \E i \in Used : entries[i].age = a
  BY DEF IndInv, AgesRankUsed
<1>5. CASE t \in Used /\ entries[t].age = L
  (* The target was the entry of age L: ages below L move up to 1..L. *)
  <2>1. Used' = Used
    BY <1>1, <1>5
  <2>2. ASSUME NEW i \in Used \ {t}
        PROVE  entries'[i].age \in Used /\ entries'[i].age # 0
    <3>1. entries[i].age \in Used /\ entries[i].age # L /\ L \in Used /\ i \in Slots
      BY <1>4, <1>5, <2>2 DEF Used
    <3>2. entries'[i].age = IF entries[i].age < L
                            THEN entries[i].age + 1 ELSE entries[i].age
      BY <3>1, <2>2, <1>1
    <3> QED
      BY <3>1, <3>2, <1>3
  <2>3. 0 \in Used
    BY <1>3, <1>5
  <2>4. \A i \in Used : entries'[i].age \in Used
    BY <1>1, <2>2, <2>3
  <2>5. ASSUME NEW i \in Used, NEW j \in Used, entries'[i].age = entries'[j].age
        PROVE  i = j
    <3>1. CASE i # t /\ j # t
      <4>1. /\ entries[i].age \in Int /\ entries[i].age # L
            /\ entries[j].age \in Int /\ entries[j].age # L
            /\ i \in Slots /\ j \in Slots
        BY <3>1, <1>2, <1>4, <1>5 DEF Slots, Used
      <4>2. /\ entries'[i].age = IF entries[i].age < L
                                 THEN entries[i].age + 1 ELSE entries[i].age
            /\ entries'[j].age = IF entries[j].age < L
                                 THEN entries[j].age + 1 ELSE entries[j].age
        BY <4>1, <3>1, <1>1
      <4>3. entries[i].age = entries[j].age
        BY <4>1, <4>2, <2>5, <1>1 DEF Slots
      <4> QED
        BY <4>3, <1>4
    <3>2. CASE i = t \/ j = t
      BY <3>2, <2>5, <2>2, <1>1
    <3> QED
      BY <3>1, <3>2
  <2>6. ASSUME NEW a \in Used
        PROVE  \E i \in Used : entries'[i].age = a
    <3>1. CASE a = 0
      BY <3>1, <1>1, <1>5
    <3>2. CASE a > 0 /\ a <= L
      <4>1. a - 1 \in Used
        BY <3>2, <2>6, <1>3
      <4>2. PICK i \in Used : entries[i].age = a - 1
        BY <4>1, <1>4
      <4>3. i # t /\ i \in Slots
        BY <4>2, <3>2, <1>1, <1>5, <1>3 DEF Slots
      <4> QED
        BY <4>2, <4>3, <3>2, <1>1, <1>3 DEF Slots
    <3>3. CASE a > L
      <4>1. PICK i \in Used : entries[i].age = a
        BY <1>4, <2>6
      <4>2. i # t /\ i \in Slots
        BY <4>1, <3>3, <1>5, <1>3, <1>1 DEF Slots
      <4> QED
        BY <4>1, <4>2, <3>3, <1>1, <1>3 DEF Slots
    <3> QED
      BY <3>1, <3>2, <3>3, <2>6, <1>1, <1>3 DEF Slots
  <2> QED
    BY <2>1, <2>4, <2>5, <2>6 DEF AgesRankUsed
<1>6. CASE t \notin Used /\ Used = 0 .. t - 1 /\ L = numEntries - 1
  (* A free slot is filled: every used age is below t and moves up. *)
  <2>1. ASSUME NEW i \in Used
        PROVE  /\ entries'[i].age = entries[i].age + 1
               /\ entries[i].age \in 0 .. t - 1
    <3>1. entries[i].age \in 0 .. t - 1 /\ i \in Slots \ {t}
      BY <1>4, <1>6 DEF Used
    <3>2. entries[i].age < L
      BY <3>1, <1>6, <1>1 DEF Slots
    <3> QED
      BY <3>1, <3>2, <1>1
  <2>2. Used' = 0 .. t
    BY <1>1, <1>6 DEF Slots
  <2>3. \A i \in Used' : entries'[i].age \in Used'
    BY <1>1, <2>1, <2>2 DEF Slots
  <2>4. \A i, j \in Used' : entries'[i].age = entries'[j].age => i = j
    BY SMTT(30), <1>1, <1>4, <2>1 DEF Slots
  <2>5. ASSUME NEW a \in 0 .. t
        PROVE  \E i \in Used' : entries'[i].age = a
    <3>1. CASE a = 0
      BY <3>1, <1>1
    <3>2. CASE a > 0
      <4>1. a - 1 \in Used
        BY <3>2, <1>6, <1>1 DEF Slots
      <4>2. PICK i \in Used : entries[i].age = a - 1
        BY <4>1, <1>4
      <4>3. i \in Used' /\ entries'[i].age = a
        BY <4>2, <2>1, <1>1
      <4> QED
        BY <4>3
    <3> QED
      BY <3>1, <3>2, <1>1 DEF Slots
  <2> QED
    BY <2>2, <2>3, <2>4, <2>5 DEF AgesRankUsed
<1>7. (t \in Used /\ entries[t].age = L)
      \/ (t \notin Used /\ Used = 0 .. t - 1 /\ L = numEntries - 1)
  BY HitSlot, FillSlot, EvictSlot
<1> QED
  BY <1>5, <1>6, <1>7

LEMMA AccessNoDuplicate ==
  ASSUME IndInv, NEW pc \in PCs, Access(pc)
  PROVE  NoDuplicatePC'
<1> DEFINE t == Target(pc)
<1>1. /\ t \in Slots /\ Used' = Used \cup {t}
      /\ \A i \in Slots \ {t} : entries'[i].pc = entries[i].pc
      /\ entries'[t].pc = pc
  BY AfterAccess
<1>2. \A i \in Used \ {t} : entries[i].pc # pc
  <2>1. CASE Hits(pc) = {}
    BY <2>1 DEF Hits, Used
  <2>2. CASE Hits(pc) # {}
    <3>1. Hits(pc) = {t}
      BY <2>2, HitSlot
    <3> QED
      BY <3>1 DEF Hits, Used
  <2> QED
    BY <2>1, <2>2
<1>3. Used \subseteq Slots
  BY DEF Used
<1> QED
  BY <1>1, <1>2, <1>3 DEF NoDuplicatePC, IndInv

LEMMA AccessFree ==
  ASSUME IndInv, NEW pc \in PCs, Access(pc)
  PROVE  FreeSlotsAreOld'
<1> DEFINE t == Target(pc)
<1>1. /\ Used' = Used \cup {t}
      /\ \A i \in Slots \ {t} :
           /\ entries'[i].pc = entries[i].pc
           /\ entries'[i].age = IF entries[i].age < AgeLimit(pc)
                                THEN entries[i].age + 1 ELSE entries[i].age
  BY AfterAccess
<1>2. \A i \in Slots : entries[i].age \in Slots
  BY DEF IndInv, TypeOK, Entry
<1> QED
  BY <1>1, <1>2 DEF FreeSlotsAreOld, IndInv, Slots

(* When every slot is used after an access, lru names the oldest.          *)
LEMMA AccessLru ==
  ASSUME IndInv, NEW pc \in PCs, Access(pc)
  PROVE  LruIsOldestWhenFull'
<1> SUFFICES ASSUME Used' = Slots
             PROVE  entries'[lru'].age = numEntries - 1
  BY DEF LruIsOldestWhenFull
<1> DEFINE t == Target(pc)
           L == AgeLimit(pc)
           B == BecomingOldest(pc)
           n == numEntries
<1>1. /\ t \in Slots /\ L \in Slots /\ Used' = Used \cup {t}
      /\ \A i \in Slots \ {t} :
           entries'[i].age = IF entries[i].age < L
                             THEN entries[i].age + 1 ELSE entries[i].age
      /\ entries'[t].age = 0
  BY AfterAccess
<1>2. lru' = IF B = {} THEN lru ELSE Max(B)
  BY DEF Access
<1>3. B = {i \in Slots : entries[i].age < L /\ entries[i].age = n - 2}
  BY DEF BecomingOldest, Aging
<1>4. /\ \A i \in Slots : entries[i].age \in Slots
      /\ lru \in Slots
  BY DEF IndInv, TypeOK, Entry
<1>5. CASE L = n - 1 /\ n > 1
  (* The entry of age n-2, which is not the target, becomes the oldest. *)
  <2>1. n - 2 \in Slots /\ Slots = 0 .. n - 1
    BY <1>5 DEF Slots
  <2>2. PICK x \in Slots : x # t /\ entries[x].age = n - 2
                           /\ \A j \in Slots : entries[j].age = n - 2 => j = x
    <3>1. CASE t \in Used
      <4>1. Used = Slots
        BY <1>1, <3>1
      <4>2. entries[t].age = n - 1
        BY <3>1, <1>5, HitSlot, EvictSlot, FillSlot
      <4>3. PICK x \in Slots : entries[x].age = n - 2
        BY <4>1, <2>1 DEF IndInv, AgesRankUsed
      <4>4. x # t
        BY <4>2, <4>3, <2>1
      <4> QED
        BY <4>1, <4>3, <4>4 DEF IndInv, AgesRankUsed
    <3>2. CASE t \notin Used
      <4>1. Used = 0 .. t - 1
        BY <3>2, HitSlot, EvictSlot, FillSlot, <1>1
      <4>2. t = n - 1
        BY <4>1, <1>1 DEF Slots
      <4>3. n - 2 \in Used
        BY <4>1, <4>2, <1>5
      <4>4. PICK x \in Used : entries[x].age = n - 2
        BY <4>3 DEF IndInv, AgesRankUsed
      <4>5. entries[t].age >= t
        BY <3>2, <1>1 DEF IndInv, FreeSlotsAreOld
      <4>6. entries[t].age # n - 2
        BY <4>5, <4>2, <1>4, <1>1 DEF Slots
      <4>7. \A j \in Used : entries[j].age = n - 2 => j = x
        BY <4>4 DEF IndInv, AgesRankUsed
      <4> QED
        BY <4>4, <4>6, <4>7, <3>2, <1>1
    <3> QED
      BY <3>1, <3>2
  <2>3. x \in B /\ B \in SUBSET Int /\ \A y \in B : x >= y
    BY <2>1, <2>2, <1>3, <1>5
  <2>4. lru' = x
    BY <2>3, <1>2, MaxIs
  <2>5. entries[x].age < L
    BY <2>2, <1>5
  <2>6. entries'[x].age = n - 1
    BY <2>2, <2>5, <1>1
  <2> QED
    BY <2>4, <2>6
<1>6. CASE L < n - 1
  (* A hit that is not the oldest: the oldest entry stays the oldest. *)
  <2>1. B = {}
    BY <1>6, <1>3, <1>1, <1>4 DEF Slots
  <2>2. lru' = lru
    BY <2>1, <1>2
  <2>3. Hits(pc) # {}
    BY <1>6, FillSlot, EvictSlot DEF Slots
  <2>4. t \in Used /\ entries[t].age = L
    BY <2>3, HitSlot
  <2>5. entries[lru].age = n - 1
    BY <2>4, <1>1 DEF IndInv, LruIsOldestWhenFull
  <2>6. lru # t
    BY <2>4, <2>5, <1>6, <1>1 DEF Slots
  <2>7. ~(entries[lru].age < L)
    BY <2>5, <1>6, <1>1 DEF Slots
  <2> QED
    BY <2>2, <2>5, <2>6, <2>7, <1>1, <1>4
<1>7. CASE n = 1
  BY <1>7, <1>1, <1>2, <1>3, <1>4 DEF Slots
<1> QED
  BY <1>1, <1>5, <1>6, <1>7 DEF Slots

LEMMA AccessType ==
  ASSUME IndInv, NEW pc \in PCs, Access(pc)
  PROVE  TypeOK'
<1>1. AgeLimit(pc) \in Slots
  BY AfterAccess
<1>2. entries' \in [Slots -> Entry]
  <2>1. ASSUME NEW i \in Slots
        PROVE  (IF i = Target(pc) THEN [valid |-> TRUE, pc |-> pc, age |-> 0]
                ELSE IF i \in Aging(pc) THEN [entries[i] EXCEPT !.age = @ + 1]
                     ELSE entries[i]) \in Entry
    <3>1. entries[i] \in Entry
      BY DEF IndInv, TypeOK
    <3>2. CASE i = Target(pc)
      BY <3>2 DEF Entry, Slots
    <3>3. CASE i # Target(pc) /\ i \in Aging(pc)
      <4>1. entries[i].age + 1 \in Slots
        BY <3>1, <3>3, <1>1 DEF Aging, Entry, Slots
      <4> QED
        BY <3>1, <3>3, <4>1 DEF Entry
    <3> QED
      BY <3>1, <3>2, <3>3
  <2> QED
    BY <2>1 DEF Access
<1>3. lru' \in Slots
  <2>1. lru \in Slots
    BY DEF IndInv, TypeOK
  <2>2. CASE BecomingOldest(pc) = {}
    BY <2>1, <2>2 DEF Access
  <2>3. CASE BecomingOldest(pc) # {}
    <3>1. BecomingOldest(pc) \in SUBSET Slots
      BY DEF BecomingOldest, Aging
    <3>2. Max(BecomingOldest(pc)) \in Slots
      BY <2>3, <3>1, MaxInSlots
    <3> QED
      BY <2>3, <3>2 DEF Access
  <2> QED
    BY <2>2, <2>3
<1> QED
  BY <1>2, <1>3 DEF TypeOK, Access, IndInv

-----------------------------------------------------------------------------
LEMMA InitInv ==
  ASSUME Init
  PROVE  IndInv
<1>1. Used = {} /\ Slots # {} /\ numEntries - 1 \in Slots
  <2>1. Slots # {} /\ numEntries - 1 \in Slots
    BY DEF Slots
  <2> QED
    BY <2>1 DEF Used, Init
<1>2. TypeOK
  BY <1>1 DEF TypeOK, Entry, Init
<1>3. FilledInOrder
  <2>1. Used = 0 .. 0 - 1 /\ 0 \in 0 .. numEntries
    BY <1>1
  <2> QED
    BY <2>1 DEF FilledInOrder
<1>4. AgesRankUsed /\ NoDuplicatePC /\ LruIsOldestWhenFull
  BY <1>1 DEF AgesRankUsed, NoDuplicatePC, LruIsOldestWhenFull
<1>5. FreeSlotsAreOld
  BY DEF FreeSlotsAreOld, Slots, Init
<1>6. SavedIndexUnambiguous
  BY DEF SavedIndexUnambiguous, Init
<1> QED
  BY <1>2, <1>3, <1>4, <1>5, <1>6 DEF IndInv

LEMMA ResetInv ==
  ASSUME Reset
  PROVE  IndInv'
<1>1. Used' = {} /\ Slots # {} /\ numEntries - 1 \in Slots
  <2>1. Slots # {} /\ numEntries - 1 \in Slots
    BY DEF Slots
  <2> QED
    BY <2>1 DEF Used, Reset
<1>2. TypeOK'
  BY <1>1 DEF TypeOK, Entry, Reset
<1>3. FilledInOrder'
  <2>1. Used' = 0 .. 0 - 1 /\ 0 \in 0 .. numEntries
    BY <1>1
  <2> QED
    BY <2>1 DEF FilledInOrder
<1>4. AgesRankUsed' /\ NoDuplicatePC' /\ LruIsOldestWhenFull'
  BY <1>1 DEF AgesRankUsed, NoDuplicatePC, LruIsOldestWhenFull
<1>5. FreeSlotsAreOld'
  BY DEF FreeSlotsAreOld, Slots, Reset
<1>6. SavedIndexUnambiguous'
  BY DEF SavedIndexUnambiguous, Reset
<1> QED
  BY <1>2, <1>3, <1>4, <1>5, <1>6 DEF IndInv

LEMMA IndInvStep == IndInv /\ [Next]_vars => IndInv'
<1> SUFFICES ASSUME IndInv, [Next]_vars PROVE IndInv'
  OBVIOUS
<1>1. ASSUME NEW pc \in PCs, Access(pc) PROVE IndInv'
  <2>1. SavedIndexUnambiguous'
    BY <1>1 DEF Access, IndInv, SavedIndexUnambiguous
  <2> QED
    BY <1>1, <2>1, AccessType, AccessFilled, AccessRank, AccessNoDuplicate,
       AccessFree, AccessLru DEF IndInv
<1>2. CASE Snapshot
  <2>1. entries' = entries /\ lru' = lru /\ Used' = Used
    BY <1>2 DEF Snapshot, Used
  <2>2. SavedIndexUnambiguous'
    BY <1>2, Used \subseteq Slots DEF Snapshot, SavedIndexUnambiguous, IndInv,
       NoDuplicatePC, FreeSlotsAreOld, Used
  <2>3. TypeOK'
    BY <1>2, <2>1 DEF Snapshot, IndInv, TypeOK, Entry
  <2> QED
    BY <2>1, <2>2, <2>3 DEF IndInv, FilledInOrder, AgesRankUsed, NoDuplicatePC,
       FreeSlotsAreOld, LruIsOldestWhenFull
<1>3. CASE Reset
  BY <1>3, ResetInv
<1>4. CASE UNCHANGED vars
  BY <1>4 DEF vars, IndInv, TypeOK, FilledInOrder, AgesRankUsed, NoDuplicatePC,
     FreeSlotsAreOld, LruIsOldestWhenFull, SavedIndexUnambiguous, Used
<1> QED
  BY <1>1, <1>2, <1>3, <1>4 DEF Next

(* The inductive invariant holds in every reachable state: in particular   *)
(* the age bookkeeping of access() never leaves the range of the counters. *)
THEOREM Correct == Spec => []IndInv
<1>1. Init => IndInv
  BY InitInv
<1> QED
  BY <1>1, IndInvStep, PTL DEF Spec

(* Every state is well typed: ages and lru always index an entry           *)
(* (lru.cc:44-86).                                                         *)
THEOREM TypeCorrect == Spec => []TypeOK
<1>1. IndInv => TypeOK
  BY DEF IndInv
<1> QED
  BY <1>1, Correct, PTL

(* The victim of an eviction is the least recently used entry              *)
(* (lru.cc:46): lru names the entry of the last age once all are used.     *)
THEOREM EvictsOldest == Spec => []LruIsOldestWhenFull
<1>1. IndInv => LruIsOldestWhenFull
  BY DEF IndInv
<1> QED
  BY <1>1, Correct, PTL

(* get_idx (lru.cc:94-104) never has a choice to make: a saved PC other    *)
(* than the reset value is saved once.                                     *)
THEOREM SavedIndexIsUnambiguous == Spec => []SavedIndexUnambiguous
<1>1. IndInv => SavedIndexUnambiguous
  BY DEF IndInv
<1> QED
  BY <1>1, Correct, PTL

(* No operation moves a cached PC to another slot (lru.cc:80-83).          *)
THEOREM SlotsAreStable == Spec => SlotIsStable
<1>1. IndInv /\ [Next]_vars =>
        [\A i, j \in Slots :
           /\ entries[i].valid
           /\ entries'[j].valid
           /\ entries[i].pc = entries'[j].pc
           => i = j]_entries
  <2> SUFFICES ASSUME IndInv, Next, NEW i \in Slots, NEW j \in Slots,
                      entries' # entries,
                      entries[i].valid, entries'[j].valid,
                      entries[i].pc = entries'[j].pc
               PROVE  i = j
    BY DEF vars
  <2>1. ASSUME NEW pc \in PCs, Access(pc) PROVE i = j
    <3>1. CASE j # Target(pc)
      <4>1. entries'[j].pc = entries[j].pc /\ entries[j].valid
        BY <2>1, <3>1, AfterAccess
      <4> QED
        BY <4>1 DEF IndInv, NoDuplicatePC, Used
    <3>2. CASE j = Target(pc)
      <4>1. entries[i].pc = pc
        BY <2>1, <3>2, AfterAccess
      <4>2. i \in Hits(pc)
        BY <4>1 DEF Hits
      <4> QED
        BY <2>1, <3>2, <4>2, HitSlot
    <3> QED
      BY <3>1, <3>2
  <2>2. CASE Reset
    BY <2>2 DEF Reset
  <2>3. CASE Snapshot
    BY <2>3 DEF Snapshot
  <2> QED
    BY <2>1, <2>2, <2>3 DEF Next
<1> QED
  BY <1>1, Correct, PTL DEF Spec, SlotIsStable

-----------------------------------------------------------------------------
(* The refinement mapping, said of the slots in use. *)
DistanceIsAge ==
  \A p \in PCs :
    /\ \A i \in Used : entries[i].pc = p => StackDist[p] = entries[i].age
    /\ (\A i \in Used : entries[i].pc # p) => StackDist[p] = numEntries

LEMMA MappingOfUsed == IndInv => DistanceIsAge
<1> SUFFICES ASSUME IndInv, NEW p \in PCs
             PROVE  /\ \A i \in Used : entries[i].pc = p
                                         => StackDist[p] = entries[i].age
                    /\ (\A i \in Used : entries[i].pc # p)
                         => StackDist[p] = numEntries
  BY DEF DistanceIsAge
<1>1. StackDist[p] = IF Hits(p) = {} THEN numEntries
                     ELSE entries[Min(Hits(p))].age
  BY DEF StackDist
<1>2. ASSUME NEW i \in Used, entries[i].pc = p
      PROVE  StackDist[p] = entries[i].age
  <2>1. Hits(p) = {i}
    BY <1>2 DEF Hits, Used, IndInv, NoDuplicatePC
  <2>2. Min(Hits(p)) = i
    BY <2>1, MinIs DEF Used, Slots
  <2> QED
    BY <1>1, <2>1, <2>2
<1>3. ASSUME \A i \in Used : entries[i].pc # p
      PROVE  StackDist[p] = numEntries
  <2>1. Hits(p) = {}
    BY <1>3 DEF Hits, Used
  <2> QED
    BY <1>1, <2>1
<1> QED
  BY <1>2, <1>3

LEMMA TouchStep ==
  ASSUME IndInv, IndInv', DistanceIsAge, DistanceIsAge',
         NEW pc \in PCs, Access(pc)
  PROVE  Recency!Touch(pc)
<1> DEFINE t == Target(pc)
           L == AgeLimit(pc)
<1>1. /\ t \in Slots /\ L \in Slots /\ Used' = Used \cup {t}
      /\ \A i \in Slots \ {t} :
           /\ entries'[i].pc = entries[i].pc
           /\ entries'[i].age = IF entries[i].age < L
                                THEN entries[i].age + 1 ELSE entries[i].age
      /\ entries'[t].pc = pc
      /\ entries'[t].age = 0
  BY AfterAccess
<1>2. /\ \A p \in PCs :
           /\ \A i \in Used : entries[i].pc = p => StackDist[p] = entries[i].age
           /\ (\A i \in Used : entries[i].pc # p) => StackDist[p] = numEntries
      /\ \A p \in PCs :
           /\ \A i \in Used' : entries'[i].pc = p => StackDist'[p] = entries'[i].age
           /\ (\A i \in Used' : entries'[i].pc # p) => StackDist'[p] = numEntries
  BY DEF DistanceIsAge
<1>3. \A i \in Used : entries[i].age \in Slots /\ i \in Slots
  BY DEF IndInv, TypeOK, Entry, Used
<1>4. ASSUME NEW q \in PCs
      PROVE  StackDist'[q] = IF q = pc THEN 0
                             ELSE IF StackDist[q] < StackDist[pc]
                                  THEN StackDist[q] + 1 ELSE StackDist[q]
  <2>1. CASE q = pc
    BY <2>1, <1>1, <1>2
  <2>2. CASE q # pc /\ \E i \in Used : entries[i].pc = q
    <3>1. PICK i \in Used : entries[i].pc = q
      BY <2>2
    <3>2. StackDist[q] = entries[i].age /\ entries[i].age \in Slots
      BY <3>1, <1>2, <1>3
    <3>3. CASE i # t
      <4>1. /\ entries'[i].pc = q /\ i \in Used'
            /\ entries'[i].age = IF entries[i].age < L
                                 THEN entries[i].age + 1 ELSE entries[i].age
        BY <3>1, <3>3, <1>1, <1>3
      <4>2. StackDist'[q] = entries'[i].age
        BY <4>1, <1>2
      <4>3. StackDist[q] < StackDist[pc] <=> entries[i].age < L
        <5>1. CASE Hits(pc) # {}
          <6>1. t \in Used /\ entries[t].pc = pc /\ L = entries[t].age
            BY <5>1, HitSlot
          <6>2. StackDist[pc] = L
            BY <6>1, <1>2
          <6> QED
            BY <6>2, <3>2
        <5>2. CASE Hits(pc) = {}
          <6>1. StackDist[pc] = numEntries
            BY <5>2, <1>2 DEF Hits, Used
          <6>2. L = numEntries - 1
            BY <5>2, FillSlot, EvictSlot
          <6>3. entries[i].age # numEntries - 1
            <7>1. CASE Free # {}
              <8>1. Used = 0 .. t - 1
                BY <5>2, <7>1, FillSlot
              <8>2. entries[i].age \in Used
                BY <3>1 DEF IndInv, AgesRankUsed
              <8> QED
                BY <8>1, <8>2, <1>1 DEF Slots
            <7>2. CASE Free = {}
              <8>1. t = lru /\ Used = Slots /\ entries[lru].age = numEntries - 1
                BY <5>2, <7>2, EvictSlot
              <8> QED
                BY <8>1, <3>1, <3>3, <1>1 DEF IndInv, AgesRankUsed
            <7> QED
              BY <7>1, <7>2
          <6> QED
            BY <6>1, <6>2, <6>3, <3>2 DEF Slots
        <5> QED
          BY <5>1, <5>2
      <4> QED
        BY <4>1, <4>2, <4>3, <3>2, <2>2
    <3>4. CASE i = t
      (* q is the entry that pc evicts. *)
      <4>1. Hits(pc) = {}
        BY <3>4, <3>1, <2>2, HitSlot
      <4>2. Free = {} /\ entries[i].age = numEntries - 1
        BY <4>1, <3>4, <3>1, FillSlot, EvictSlot
      <4>3. StackDist[pc] = numEntries
        BY <4>1, <1>2 DEF Hits, Used
      <4>4. \A j \in Used' : entries'[j].pc # q
        <5> SUFFICES ASSUME NEW j \in Used', entries'[j].pc = q PROVE FALSE
          OBVIOUS
        <5>1. j # t /\ j \in Used
          BY <1>1, <2>2
        <5>2. entries[j].pc = q
          BY <5>1, <1>1, <1>3
        <5> QED
          BY <5>1, <5>2, <3>1, <3>4 DEF IndInv, NoDuplicatePC
      <4>5. StackDist'[q] = numEntries
        BY <4>4, <1>2
      <4> QED
        BY <4>2, <4>3, <4>5, <3>2, <2>2 DEF Slots
    <3> QED
      BY <3>3, <3>4
  <2>3. CASE q # pc /\ \A i \in Used : entries[i].pc # q
    <3>1. StackDist[q] = numEntries
      BY <2>3, <1>2
    <3>2. \A j \in Used' : entries'[j].pc # q
      BY <2>3, <1>1, <1>3
    <3>3. StackDist'[q] = numEntries
      BY <3>2, <1>2
    <3>4. StackDist[pc] <= numEntries
      <4>1. CASE \E i \in Used : entries[i].pc = pc
        BY <4>1, <1>2, <1>3 DEF Slots
      <4>2. CASE \A i \in Used : entries[i].pc # pc
        BY <4>2, <1>2
      <4> QED
        BY <4>1, <4>2
    <3>5. ~(StackDist[q] < StackDist[pc])
      <4>1. CASE \E i \in Used : entries[i].pc = pc
        BY <4>1, <1>2, <1>3, <3>1 DEF Slots
      <4>2. CASE \A i \in Used : entries[i].pc # pc
        BY <4>2, <1>2, <3>1
      <4> QED
        BY <4>1, <4>2
    <3> QED
      BY <3>1, <3>3, <3>5, <2>3
  <2> QED
    BY <2>1, <2>2, <2>3
<1>5. StackDist' = [q \in PCs |-> StackDist'[q]]
  BY DEF StackDist
<1> QED
  BY <1>4, <1>5 DEF Recency!Touch

(* Replacement is true LRU, as the comment of the class (miss_cache.h:44,  *)
(* "Miss cache using LRU policy") says: whatever slots entries sit in, the *)
(* cache holds exactly the numEntries PCs accessed last.                   *)
THEOREM RefinesLRU == Spec => ImplementsLRU
<1>1. Init => Recency!Init
  <2> SUFFICES ASSUME Init PROVE StackDist = Recency!Empty
    BY DEF Recency!Init
  <2>1. \A p \in PCs : Hits(p) = {}
    BY DEF Init, Hits
  <2> QED
    BY <2>1 DEF StackDist, Recency!Empty, Recency!Absent
<1>2. /\ IndInv /\ IndInv' /\ DistanceIsAge /\ DistanceIsAge'
      /\ [Next]_vars
      => [Recency!Next]_StackDist
  <2> SUFFICES ASSUME IndInv, IndInv', DistanceIsAge, DistanceIsAge', [Next]_vars
               PROVE  [Recency!Next]_StackDist
    OBVIOUS
  <2>1. ASSUME NEW pc \in PCs, Access(pc) PROVE Recency!Next
    BY <2>1, TouchStep DEF Recency!Next
  <2>2. CASE Reset
    <3>1. \A p \in PCs : Hits(p)' = {}
      BY <2>2 DEF Reset, Hits
    <3>2. StackDist' = Recency!Empty
      BY <3>1 DEF StackDist, Recency!Empty, Recency!Absent
    <3> QED
      BY <3>2 DEF Recency!Next, Recency!Clear
  <2>3. CASE Snapshot \/ UNCHANGED vars
    BY <2>3 DEF Snapshot, vars, StackDist, Hits
  <2> QED
    BY <2>1, <2>2, <2>3 DEF Next
<1> QED
  BY <1>1, <1>2, Correct, MappingOfUsed, PTL DEF Spec, ImplementsLRU, Recency!Spec
-----------------------------------------------------------------------------
(***************************************************************************)
(* The not-recently-used cache keeps the same members; N!X is X of         *)
(* NRUMCache.                                                              *)
(***************************************************************************)
N == INSTANCE NRUMCache

(* The least and the greatest of a set of slots are among its members.     *)
LEMMA NExtremes ==
  ASSUME NEW S \in SUBSET N!Slots, S # {}
  PROVE  N!Min(S) \in S /\ N!Max(S) \in S
<1>1. S \in SUBSET Slots /\ S \in SUBSET Nat
  BY DEF N!Slots, Slots
<1>2. \E x \in S : \A y \in S : x <= y
  BY <1>1, LeastNatural
<1>3. N!Min(S) \in S
  BY <1>2 DEF N!Min
<1>4. N!Max(S) = Max(S)
  BY DEF N!Max, Max
<1> QED
  BY <1>1, <1>3, <1>4, MaxInSlots

(* The slot an access takes, if some slot is neither free nor hit.         *)
LEMMA NTarget ==
  ASSUME NEW pc \in PCs, NEW t \in N!Targets(pc), N!TypeOK
  PROVE  /\ t \in N!Slots
         /\ N!Hits(pc) # {} => t \in N!Hits(pc)
         /\ N!Hits(pc) = {} /\ N!Free # {} => t \in N!Free
         /\ N!Hits(pc) = {} /\ N!Free = {} /\ N!Unused # {} => t \in N!Unused
<1>1. N!Hits(pc) \subseteq N!Slots /\ N!Free \subseteq N!Slots /\ N!Unused \subseteq N!Slots
  BY DEF N!Hits, N!Free, N!Unused
<1>2. CASE N!Hits(pc) # {}
  BY <1>1, <1>2, NExtremes DEF N!Targets
<1>3. CASE N!Hits(pc) = {} /\ N!Free # {}
  BY <1>1, <1>3, NExtremes DEF N!Targets
<1>4. CASE N!Hits(pc) = {} /\ N!Free = {}
  BY <1>1, <1>4 DEF N!Targets, N!TypeOK
<1> QED
  BY <1>2, <1>3, <1>4

LEMMA NAgeLimit ==
  ASSUME NEW pc \in PCs, N!TypeOK
  PROVE  N!AgeLimit(pc) \in N!Slots
<1>1. CASE N!Hits(pc) # {}
  <2>1. N!Min(N!Hits(pc)) \in N!Slots
    BY <1>1, NExtremes DEF N!Hits
  <2> QED
    BY <1>1, <2>1 DEF N!AgeLimit, N!TypeOK, N!Entry
<1>2. CASE N!Hits(pc) = {}
  BY <1>2 DEF N!AgeLimit, N!Slots
<1> QED
  BY <1>1, <1>2

(* What an access leaves of every slot.                                    *)
LEMMA NAccess ==
  ASSUME N!TypeOK, NEW pc \in PCs, N!Access(pc)
  PROVE  \E t \in N!Targets(pc) :
           /\ entries' \in [N!Slots -> N!Entry]
           /\ entries'[t].used = (N!Hits(pc) # {}) /\ entries'[t].valid /\ entries'[t].pc = pc
           /\ \A i \in N!Slots \ {t} :
                /\ entries'[i].used = entries[i].used /\ entries'[i].valid = entries[i].valid
                /\ entries'[i].pc = entries[i].pc
                /\ entries'[i].age = IF i \in N!Aging(pc) THEN entries[i].age + 1 ELSE entries[i].age
<1>1. PICK t \in N!Targets(pc) :
        entries' = [i \in N!Slots |->
                     IF i = t
                     THEN [used |-> N!Hits(pc) # {}, valid |-> TRUE, pc |-> pc, age |-> 0]
                     ELSE IF i \in N!Aging(pc) THEN [entries[i] EXCEPT !.age = @ + 1]
                     ELSE entries[i]]
  BY DEF N!Access
<1>2. t \in N!Slots
  BY NTarget
<1>3. \A i \in N!Slots : entries[i] \in N!Entry
  BY DEF N!TypeOK
<1>4. /\ entries'[t] = [used |-> N!Hits(pc) # {}, valid |-> TRUE, pc |-> pc, age |-> 0]
      /\ \A i \in N!Slots \ {t} : entries'[i] = IF i \in N!Aging(pc)
                                                THEN [entries[i] EXCEPT !.age = @ + 1] ELSE entries[i]
  BY <1>1, <1>2
<1>5. entries'[t] \in N!Entry
  BY <1>4 DEF N!Entry, N!Slots
<1>6. ASSUME NEW i \in N!Slots \ {t}
      PROVE  /\ entries'[i] \in N!Entry
             /\ entries'[i].used = entries[i].used /\ entries'[i].valid = entries[i].valid
             /\ entries'[i].pc = entries[i].pc
             /\ entries'[i].age = IF i \in N!Aging(pc) THEN entries[i].age + 1 ELSE entries[i].age
  <2>1. CASE i \in N!Aging(pc)
    <3>1. entries[i].age + 1 \in N!Slots
      BY <2>1, <1>3, NAgeLimit DEF N!Aging, N!Slots, N!Entry
    <3>2. entries'[i] = [entries[i] EXCEPT !.age = entries[i].age + 1]
      BY <2>1, <1>4
    <3> QED
      BY <2>1, <3>1, <3>2, <1>3 DEF N!Entry
  <2>2. CASE i \notin N!Aging(pc)
    BY <2>2, <1>3, <1>4
  <2> QED
    BY <2>1, <2>2
<1>7. entries' \in [N!Slots -> N!Entry]
  <2>1. \A i \in N!Slots : entries'[i] \in N!Entry
    BY <1>5, <1>6
  <2>2. DOMAIN entries' = N!Slots /\ entries' = [i \in DOMAIN entries' |-> entries'[i]]
    BY <1>1
  <2> QED
    BY <2>1, <2>2
<1> QED
  BY <1>2, <1>4, <1>6, <1>7

(* An entry that was hit is valid: what UsedEvictedLast needs beside the   *)
(* types, for free slots go before unused ones.                            *)
NInv == N!TypeOK /\ \A i \in N!Slots : entries[i].used => entries[i].valid

LEMMA NInvIsInductive ==
  /\ N!Init => NInv
  /\ NInv /\ [N!Next]_N!vars => NInv'
<1>1. \A i \in N!Slots : N!EmptyEntries[i] = [used |-> FALSE, valid |-> FALSE, pc |-> NoPC, age |-> i]
  BY DEF N!EmptyEntries
<1>2. N!EmptyEntries \in [N!Slots -> N!Entry]
  BY DEF N!EmptyEntries, N!Entry
<1>3. N!Init => NInv
  BY <1>1, <1>2 DEF N!Init, NInv, N!TypeOK, N!Slots
<1>4. ASSUME NInv, NEW pc \in PCs, N!Access(pc) PROVE NInv'
  <2>1. N!TypeOK
    BY <1>4 DEF NInv
  <2>2. PICK t \in N!Targets(pc) :
           /\ entries' \in [N!Slots -> N!Entry]
           /\ entries'[t].valid
           /\ \A i \in N!Slots \ {t} :
                /\ entries'[i].used = entries[i].used /\ entries'[i].valid = entries[i].valid
    BY <2>1, <1>4, NAccess
  <2>3. \A i \in N!Slots : entries'[i].used => entries'[i].valid
    BY <2>2, <1>4 DEF NInv
  <2>4. lru' \in N!Slots
    <3>1. N!BecomingOldest(pc) \in SUBSET N!Slots
      BY DEF N!BecomingOldest, N!Aging
    <3> QED
      BY <3>1, <2>1, <1>4, NExtremes DEF N!Access, N!TypeOK
  <2>5. savedState' \in [N!Slots -> PCs \cup {NoPC}]
    BY <2>1, <1>4 DEF N!Access, N!TypeOK
  <2> QED
    BY <2>2, <2>3, <2>4, <2>5 DEF NInv, N!TypeOK
<1>5. ASSUME NInv, N!Snapshot PROVE NInv'
  BY <1>5 DEF NInv, N!TypeOK, N!Snapshot, N!Entry
<1>6. ASSUME NInv, N!Reset PROVE NInv'
  BY <1>6, <1>1, <1>2 DEF NInv, N!TypeOK, N!Reset, N!Slots
<1>7. ASSUME NInv, UNCHANGED N!vars PROVE NInv'
  BY <1>7 DEF NInv, N!TypeOK, N!vars
<1> QED
  BY <1>3, <1>4, <1>5, <1>6, <1>7 DEF N!Next

(* The types of the not-recently-used cache: an age never leaves the slots *)
(* although it is raised without a bound of its own (nru.cc:81-91).        *)
THEOREM NRUTypeCorrect == N!Spec => []N!TypeOK
<1>1. NInv => N!TypeOK
  BY DEF NInv
<1> QED
  BY <1>1, NInvIsInductive, PTL DEF N!Spec

(* An entry that was hit loses its slot only when every entry was hit.     *)
THEOREM NRUEvictsUsedLast == N!Spec => N!UsedEvictedLast
<1> DEFINE A == \A i \in N!Slots :
                  entries[i].used /\ entries'[i].valid /\ entries'[i].pc # entries[i].pc
                    => \A j \in N!Slots : entries[j].used
<1>1. ASSUME NInv, NEW pc \in PCs, N!Access(pc) PROVE A
  <2> SUFFICES ASSUME NEW i \in N!Slots, entries[i].used, entries'[i].pc # entries[i].pc
               PROVE  \A j \in N!Slots : entries[j].used
    OBVIOUS
  <2>1. N!TypeOK /\ entries[i].valid
    BY <1>1 DEF NInv
  <2>2. i \in N!Targets(pc) /\ entries'[i].pc = pc
    BY <2>1, <1>1, NAccess
  <2>3. N!Hits(pc) = {}
    <3>1. ASSUME N!Hits(pc) # {} PROVE FALSE
      BY <3>1, <2>1, <2>2, NTarget DEF N!Hits
    <3> QED
      BY <3>1
  <2>4. N!Free = {}
    BY <2>1, <2>2, <2>3, NTarget DEF N!Free
  <2>5. N!Unused = {}
    BY <2>1, <2>2, <2>3, <2>4, NTarget DEF N!Unused
  <2> QED
    BY <2>4, <2>5 DEF N!Free, N!Unused
<1>2. ASSUME NInv, N!Snapshot PROVE A
  BY <1>2 DEF N!Snapshot
<1>3. ASSUME NInv, N!Reset PROVE A
  <2>1. \A i \in N!Slots : ~entries'[i].valid
    BY <1>3 DEF N!Reset, N!EmptyEntries
  <2> QED
    BY <2>1
<1>4. NInv /\ [N!Next]_N!vars => [A]_N!vars
  BY <1>1, <1>2, <1>3 DEF N!Next
<1> QED
  BY <1>4, NInvIsInductive, PTL DEF N!Spec, N!UsedEvictedLast

(* Ages may tie, but an access never inverts the order of two entries that *)
(* it does not touch.                                                      *)
THEOREM NRUAgesKeepOrder == N!Spec => N!AgesKeepOrder
<1> DEFINE A == \A pc \in PCs : N!Access(pc) =>
                  \A i, j \in N!Slots :
                    /\ entries[i].valid /\ entries'[i].pc = entries[i].pc /\ entries[i].pc # pc
                    /\ entries[j].valid /\ entries'[j].pc = entries[j].pc /\ entries[j].pc # pc
                    /\ entries[i].age <= entries[j].age
                    => entries'[i].age <= entries'[j].age
<1>1. ASSUME NInv PROVE A
  <2> SUFFICES ASSUME NEW pc \in PCs, N!Access(pc), NEW i \in N!Slots, NEW j \in N!Slots,
                      entries[i].valid, entries'[i].pc = entries[i].pc, entries[i].pc # pc,
                      entries[j].valid, entries'[j].pc = entries[j].pc, entries[j].pc # pc,
                      entries[i].age <= entries[j].age
               PROVE  entries'[i].age <= entries'[j].age
    OBVIOUS
  <2>1. N!TypeOK
    BY <1>1 DEF NInv
  <2>2. /\ entries'[i].age = IF i \in N!Aging(pc) THEN entries[i].age + 1 ELSE entries[i].age
        /\ entries'[j].age = IF j \in N!Aging(pc) THEN entries[j].age + 1 ELSE entries[j].age
    BY <2>1, NAccess
  <2>3. /\ i \in N!Aging(pc) <=> entries[i].age < N!AgeLimit(pc)
        /\ j \in N!Aging(pc) <=> entries[j].age < N!AgeLimit(pc)
    BY DEF N!Aging
  <2>4. entries[i].age \in N!Slots /\ entries[j].age \in N!Slots /\ N!AgeLimit(pc) \in N!Slots
    BY <2>1, NAgeLimit DEF N!TypeOK, N!Entry
  <2>5. entries[i].age \in Int /\ entries[j].age \in Int /\ N!AgeLimit(pc) \in Int
    BY <2>4 DEF N!Slots
  <2> QED
    BY <2>2, <2>3, <2>5
<1>2. NInv /\ [N!Next]_N!vars => [A]_N!vars
  BY <1>1
<1> QED
  BY <1>2, NInvIsInductive, PTL DEF N!Spec, N!AgesKeepOrder
=============================================================================
