-------------------------- MODULE OutOfOrderProofs --------------------------
(***************************************************************************)
(* The entries of the reorder buffer are the instructions between those    *)
(* that retired and the next one to enter, in their order from the head    *)
(* on; an entry that is scheduled waits for the last writer of each of its *)
(* sources that is not done, and only an entry that waits for nothing      *)
(* executes or asks for memory. The store queue holds the stores in their  *)
(* order, from its head to its tail. Every memory operation is counted     *)
(* until it is done, and a request finds the entry that made it. On traces *)
(* that are not crossed each load gets the data of the last store before   *)
(* it.                                                                     *)
(***************************************************************************)
EXTENDS OutOfOrder, FiniteSetTheorems, WellFoundedInduction, TLAPS

-------------------------------------------------------------------------------
(* Naturals and loops *)

LEMMA Sizes ==
  /\ ROB_SIZE \in Nat \ {0} /\ LQ_SIZE \in Nat \ {0} /\ SQ_SIZE \in Nat \ {0}
  /\ SCHEDULER_SIZE \in Nat \ {0} /\ LastAddress \in Nat
BY SizeAssumption, ProgramAssumption

LEMMA LeastNatural ==
  ASSUME NEW T \in SUBSET Nat, T # {}
  PROVE  \E x \in T : \A y \in T : x <= y
<1> DEFINE R == OpToRel(<, Nat)
<1>1. IsWellFoundedOn(R, Nat)
  BY NatLessThanWellFounded
<1>2. \A x, y \in Nat : <<y, x>> \in R <=> y < x
  BY DEF OpToRel
<1> HIDE DEF R
<1>3. PICK x \in T : \A y \in T : ~(<<y, x>> \in R)
  BY <1>1, WFMin
<1>4. \A y \in T : ~(y < x)
  BY <1>2, <1>3
<1> QED
  BY <1>4

(* What holds at first and is kept by every step of f holds up to n. *)
LEMMA StaysIn ==
  ASSUME NEW n \in Nat, NEW I, NEW f, f[0] \in I[0],
         \A k \in 1 .. n : f[k - 1] \in I[k - 1] => f[k] \in I[k]
  PROVE  \A k \in 0 .. n : f[k] \in I[k]
<1> DEFINE T == {k \in 0 .. n : f[k] \notin I[k]}
<1> SUFFICES T = {}
  OBVIOUS
<1> SUFFICES ASSUME T # {}
             PROVE  FALSE
  OBVIOUS
<1>1. T \in SUBSET Nat
  OBVIOUS
<1>2. \A k \in T : k \in 1 .. n /\ f[k] \notin I[k]
  OBVIOUS
<1>3. \A k \in 0 .. n : k \notin T => f[k] \in I[k]
  OBVIOUS
<1> HIDE DEF T
<1>4. PICK x \in T : \A y \in T : x <= y
  BY <1>1, LeastNatural
<1>5. x \in 1 .. n /\ x - 1 \in 0 .. n /\ x - 1 \notin T
  BY <1>2, <1>4
<1> QED
  BY <1>2, <1>3, <1>5

(* g[k] is the state after k passes of a loop that starts in o and whose pass k is F[k]. *)
Runs(g, n, I, o, F) ==
  g \in [0 .. n -> I] /\ g[0] = o /\ \A k \in 1 .. n : g[k] = F[k][g[k - 1]]

LEMMA LoopExists ==
  ASSUME NEW n \in Nat, NEW I, NEW o \in I, NEW F \in [1 .. n -> [I -> I]]
  PROVE  \E g : Runs(g, n, I, o, F)
<1> DEFINE Upto(m) == \E g : Runs(g, m, I, o, F)
           T == {m \in 0 .. n : ~Upto(m)}
<1> SUFFICES T = {}
  OBVIOUS
<1> SUFFICES ASSUME T # {}
             PROVE  FALSE
  OBVIOUS
<1>1. T \in SUBSET Nat /\ (\A m \in T : m \in 0 .. n /\ ~Upto(m))
                       /\ (\A m \in 0 .. n : m \notin T => Upto(m))
  OBVIOUS
<1> HIDE DEF T
<1>2. PICK x \in T : \A y \in T : x <= y
  BY <1>1, LeastNatural
<1>3. Upto(0)
  <2> DEFINE g == [k \in 0 .. 0 |-> o]
  <2>1. Runs(g, 0, I, o, F)
    BY DEF Runs
  <2> QED
    BY <2>1
<1>4. x \in 1 .. n
  <2> HIDE DEF Upto
  <2> QED
    BY <1>1, <1>2, <1>3
<1>5. PICK h : Runs(h, x - 1, I, o, F)
  <2>1. x - 1 \in 0 .. n /\ x - 1 \notin T
    BY <1>1, <1>2, <1>4
  <2> QED
    BY <1>1, <2>1
<1> DEFINE g == [k \in 0 .. x |-> IF k = x THEN F[x][h[x - 1]] ELSE h[k]]
<1>6. h[x - 1] \in I /\ F[x][h[x - 1]] \in I
  BY <1>4, <1>5 DEF Runs
<1>7. Runs(g, x, I, o, F)
  <2>1. g \in [0 .. x -> I] /\ g[0] = o
    BY <1>4, <1>5, <1>6 DEF Runs
  <2>2. \A k \in 1 .. x : g[k] = F[k][g[k - 1]]
    BY <1>4, <1>5 DEF Runs
  <2> QED
    BY <2>1, <2>2 DEF Runs
<1> QED
  BY <1>1, <1>2, <1>7

(* What every load that is tried keeps, check_and_add_lsq() keeps for the loads. *)
LEMMA AddLoadsStays ==
  ASSUME NEW I, NEW o \in I, NEW i,
         \A q \in I, a \in Instr(o, i).loads \cap (1 .. LastAddress) : TryLoad(q, i, a) \in I
  PROVE  AddLoads(o, i) \in I
<1> DEFINE S == Instr(o, i).loads
           n == LastAddress
           Op(q, k) == TryLoad(q, i, k)
           Body(f) == [k \in 0 .. n |-> IF k = 0 THEN o
                                        ELSE IF k \in S THEN CHOOSE r \in {Op(q, k) : q \in {f[k - 1]}} : TRUE
                                        ELSE f[k - 1]]
           f == CHOOSE f : f = Body(f)
           F == [k \in 1 .. n |-> [q \in I |-> IF k \in S THEN Op(q, k) ELSE q]]
           J == [k \in 0 .. n |-> I]
<1>1. AddLoads(o, i) = f[n]
  BY Zenon DEF AddLoads, ForEach, With
<1>2. n \in Nat
  BY Sizes
<1>3. \A k \in S \cap (1 .. n), q \in I : Op(q, k) \in I
  OBVIOUS
<1> HIDE DEF Op, S, n
<1>4. \A q, k : (CHOOSE r \in {Op(x, k) : x \in {q}} : TRUE) = Op(q, k)
  OBVIOUS
<1>5. /\ F \in [1 .. n -> [I -> I]]
      /\ \A k \in 1 .. n, q \in I : F[k][q] = IF k \in S THEN Op(q, k) ELSE q
  BY <1>3
<1> HIDE DEF F
<1>6. PICK g : Runs(g, n, I, o, F)
  BY Zenon, <1>2, <1>5, LoopExists
<1>7. g = Body(g)
  <2>1. \A k \in 1 .. n : g[k] = IF k \in S THEN Op(g[k - 1], k) ELSE g[k - 1]
    <3> TAKE k \in 1 .. n
    <3>1. g[k - 1] \in I
      BY <1>2, <1>6 DEF Runs
    <3> QED
      BY <3>1, <1>5, <1>6 DEF Runs
  <2> QED
    BY <1>2, <1>4, <1>6, <2>1 DEF Runs
<1>8. f = Body(f)
  <2> HIDE DEF Body
  <2> QED
    BY Zenon, <1>7
<1> HIDE DEF f
<1>9. f[0] = o /\ \A k \in 1 .. n : f[k] = IF k \in S THEN Op(f[k - 1], k) ELSE f[k - 1]
  BY <1>2, <1>4, <1>8
<1>10. \A k \in 0 .. n : f[k] \in J[k]
  <2>1. J[0] = I /\ \A k \in 1 .. n : J[k - 1] = I /\ J[k] = I
    BY <1>2
  <2> HIDE DEF J
  <2>2. \A k \in 1 .. n : f[k - 1] \in I => f[k] \in I
    BY <1>3, <1>9
  <2>3. \A k \in 1 .. n : f[k - 1] \in J[k - 1] => f[k] \in J[k]
    BY <2>1, <2>2
  <2> QED
    BY <1>2, <1>9, <2>1, <2>3, StaysIn
<1> QED
  BY <1>1, <1>2, <1>10

(* The same for the stores. *)
LEMMA AddStoresStays ==
  ASSUME NEW I, NEW o \in I, NEW i,
         \A q \in I, a \in Instr(o, i).stores \cap (1 .. LastAddress) : TryStore(q, i, a) \in I
  PROVE  AddStores(o, i) \in I
<1> DEFINE S == Instr(o, i).stores
           n == LastAddress
           Op(q, k) == TryStore(q, i, k)
           Body(f) == [k \in 0 .. n |-> IF k = 0 THEN o
                                        ELSE IF k \in S THEN CHOOSE r \in {Op(q, k) : q \in {f[k - 1]}} : TRUE
                                        ELSE f[k - 1]]
           f == CHOOSE f : f = Body(f)
           F == [k \in 1 .. n |-> [q \in I |-> IF k \in S THEN Op(q, k) ELSE q]]
           J == [k \in 0 .. n |-> I]
<1>1. AddStores(o, i) = f[n]
  BY Zenon DEF AddStores, ForEach, With
<1>2. n \in Nat
  BY Sizes
<1>3. \A k \in S \cap (1 .. n), q \in I : Op(q, k) \in I
  OBVIOUS
<1> HIDE DEF Op, S, n
<1>4. \A q, k : (CHOOSE r \in {Op(x, k) : x \in {q}} : TRUE) = Op(q, k)
  OBVIOUS
<1>5. /\ F \in [1 .. n -> [I -> I]]
      /\ \A k \in 1 .. n, q \in I : F[k][q] = IF k \in S THEN Op(q, k) ELSE q
  BY <1>3
<1> HIDE DEF F
<1>6. PICK g : Runs(g, n, I, o, F)
  BY Zenon, <1>2, <1>5, LoopExists
<1>7. g = Body(g)
  <2>1. \A k \in 1 .. n : g[k] = IF k \in S THEN Op(g[k - 1], k) ELSE g[k - 1]
    <3> TAKE k \in 1 .. n
    <3>1. g[k - 1] \in I
      BY <1>2, <1>6 DEF Runs
    <3> QED
      BY <3>1, <1>5, <1>6 DEF Runs
  <2> QED
    BY <1>2, <1>4, <1>6, <2>1 DEF Runs
<1>8. f = Body(f)
  <2> HIDE DEF Body
  <2> QED
    BY Zenon, <1>7
<1> HIDE DEF f
<1>9. f[0] = o /\ \A k \in 1 .. n : f[k] = IF k \in S THEN Op(f[k - 1], k) ELSE f[k - 1]
  BY <1>2, <1>4, <1>8
<1>10. \A k \in 0 .. n : f[k] \in J[k]
  <2>1. J[0] = I /\ \A k \in 1 .. n : J[k - 1] = I /\ J[k] = I
    BY <1>2
  <2> HIDE DEF J
  <2>2. \A k \in 1 .. n : f[k - 1] \in I => f[k] \in I
    BY <1>3, <1>9
  <2>3. \A k \in 1 .. n : f[k - 1] \in J[k - 1] => f[k] \in J[k]
    BY <2>1, <2>2
  <2> QED
    BY <1>2, <1>9, <2>1, <2>3, StaysIn
<1> QED
  BY <1>1, <1>2, <1>10

(* What do_memory_scheduling() keeps of every entry a pass visits, the pass keeps. *)
LEMMA PassStays ==
  ASSUME NEW I, NEW o \in I, NEW P, NEW scan \in Seq(RobSlots),
         \A q \in I, k \in P \cap DOMAIN scan : do_memory_scheduling(q, scan[k]) \in I
  PROVE  MemoryPass(o, scan, P) \in I
<1> DEFINE S == P
           n == Len(scan)
           Op(q, k) == do_memory_scheduling(q, scan[k])
           Body(f) == [k \in 0 .. n |-> IF k = 0 THEN o
                                        ELSE IF k \in S THEN CHOOSE r \in {Op(q, k) : q \in {f[k - 1]}} : TRUE
                                        ELSE f[k - 1]]
           f == CHOOSE f : f = Body(f)
           F == [k \in 1 .. n |-> [q \in I |-> IF k \in S THEN Op(q, k) ELSE q]]
           J == [k \in 0 .. n |-> I]
<1>1. MemoryPass(o, scan, P) = f[n]
  BY Zenon DEF MemoryPass, ForEach, With
<1>2. n \in Nat
  BY Sizes
<1>3. \A k \in S \cap (1 .. n), q \in I : Op(q, k) \in I
  OBVIOUS
<1> HIDE DEF Op, S, n
<1>4. \A q, k : (CHOOSE r \in {Op(x, k) : x \in {q}} : TRUE) = Op(q, k)
  OBVIOUS
<1>5. /\ F \in [1 .. n -> [I -> I]]
      /\ \A k \in 1 .. n, q \in I : F[k][q] = IF k \in S THEN Op(q, k) ELSE q
  BY <1>3
<1> HIDE DEF F
<1>6. PICK g : Runs(g, n, I, o, F)
  BY Zenon, <1>2, <1>5, LoopExists
<1>7. g = Body(g)
  <2>1. \A k \in 1 .. n : g[k] = IF k \in S THEN Op(g[k - 1], k) ELSE g[k - 1]
    <3> TAKE k \in 1 .. n
    <3>1. g[k - 1] \in I
      BY <1>2, <1>6 DEF Runs
    <3> QED
      BY <3>1, <1>5, <1>6 DEF Runs
  <2> QED
    BY <1>2, <1>4, <1>6, <2>1 DEF Runs
<1>8. f = Body(f)
  <2> HIDE DEF Body
  <2> QED
    BY Zenon, <1>7
<1> HIDE DEF f
<1>9. f[0] = o /\ \A k \in 1 .. n : f[k] = IF k \in S THEN Op(f[k - 1], k) ELSE f[k - 1]
  BY <1>2, <1>4, <1>8
<1>10. \A k \in 0 .. n : f[k] \in J[k]
  <2>1. J[0] = I /\ \A k \in 1 .. n : J[k - 1] = I /\ J[k] = I
    BY <1>2
  <2> HIDE DEF J
  <2>2. \A k \in 1 .. n : f[k - 1] \in I => f[k] \in I
    BY <1>3, <1>9
  <2>3. \A k \in 1 .. n : f[k - 1] \in J[k - 1] => f[k] \in J[k]
    BY <2>1, <2>2
  <2> QED
    BY <1>2, <1>9, <2>1, <2>3, StaysIn
<1> QED
  BY <1>1, <1>2, <1>10

(* What every forwarding keeps, execute_store() keeps: the cores stay in I, and J[k] holds
   when the entries below k have been served. *)
LEMMA ExecuteStoreStays ==
  ASSUME NEW I, NEW J, NEW o, NEW j, StoreDone(o, j) \in I, StoreDone(o, j) \in J[0],
         Consumers(o, j) \subseteq RobSlots,
         \A q \in I, d \in Consumers(o, j) : Forward(q, ConsumerSlot(o, j, d), o.SQ[j].va) \in I,
         \A k \in 1 .. ROB_SIZE, q \in I : q \in J[k - 1] =>
           IF k - 1 \in Consumers(o, j) THEN Forward(q, ConsumerSlot(o, j, k - 1), o.SQ[j].va) \in J[k]
           ELSE q \in J[k]
  PROVE  execute_store(o, j) \in I /\ execute_store(o, j) \in J[ROB_SIZE]
<1> DEFINE S == {d + 1 : d \in Consumers(o, j)}
           n == ROB_SIZE
           Op(q, k) == Forward(q, ConsumerSlot(o, j, k - 1), o.SQ[j].va)
           Body(f) == [k \in 0 .. n |-> IF k = 0 THEN StoreDone(o, j)
                                        ELSE IF k \in S THEN CHOOSE r \in {Op(q, k) : q \in {f[k - 1]}} : TRUE
                                        ELSE f[k - 1]]
           f == CHOOSE f : f = Body(f)
           F == [k \in 1 .. n |-> [q \in I |-> IF k \in S THEN Op(q, k) ELSE q]]
<1>1. execute_store(o, j) = f[n]
  BY Zenon DEF execute_store, ForEach, With
<1>2. n \in Nat
  BY Sizes
<1>3. \A k \in S \cap (1 .. n), q \in I : Op(q, k) \in I
  BY DEF RobSlots
<1>0. \A k \in 1 .. n, q \in I : q \in J[k - 1] => IF k \in S THEN Op(q, k) \in J[k] ELSE q \in J[k]
  <2>1. \A k \in 1 .. n : k \in S <=> k - 1 \in Consumers(o, j)
    BY DEF S, RobSlots
  <2> QED
    BY <2>1
<1> HIDE DEF Op, S, n
<1>4. \A q, k : (CHOOSE r \in {Op(x, k) : x \in {q}} : TRUE) = Op(q, k)
  OBVIOUS
<1>5. /\ F \in [1 .. n -> [I -> I]]
      /\ \A k \in 1 .. n, q \in I : F[k][q] = IF k \in S THEN Op(q, k) ELSE q
  BY <1>3
<1> HIDE DEF F
<1>6. PICK g : Runs(g, n, I, StoreDone(o, j), F)
  BY Zenon, <1>2, <1>5, LoopExists
<1>7. g = Body(g)
  <2>1. \A k \in 1 .. n : g[k] = IF k \in S THEN Op(g[k - 1], k) ELSE g[k - 1]
    <3> TAKE k \in 1 .. n
    <3>1. g[k - 1] \in I
      BY <1>2, <1>6 DEF Runs
    <3> QED
      BY <3>1, <1>5, <1>6 DEF Runs
  <2> QED
    BY <1>2, <1>4, <1>6, <2>1 DEF Runs
<1>8. f = Body(f)
  <2> HIDE DEF Body
  <2> QED
    BY Zenon, <1>7
<1> HIDE DEF f
<1>9. f[0] = StoreDone(o, j) /\ \A k \in 1 .. n : f[k] = IF k \in S THEN Op(f[k - 1], k) ELSE f[k - 1]
  BY <1>2, <1>4, <1>8
<1>10. \A k \in 0 .. n : f[k] \in I
  <2>1. \A k \in 1 .. n : f[k - 1] \in I => f[k] \in I
    BY <1>3, <1>9
  <2>2. PICK K : K = [k \in 0 .. n |-> I]
    OBVIOUS
  <2>3. K[0] = I /\ \A k \in 1 .. n : K[k - 1] = I /\ K[k] = I
    BY <1>2, <2>2
  <2>4. \A k \in 0 .. n : f[k] \in K[k]
    <3>1. \A k \in 1 .. n : f[k - 1] \in K[k - 1] => f[k] \in K[k]
      BY <2>1, <2>3
    <3> QED
      BY <1>2, <1>9, <2>3, <3>1, StaysIn
  <2> QED
    BY <2>2, <2>4
<1>11. \A k \in 0 .. n : f[k] \in J[k]
  <2>1. \A k \in 1 .. n : f[k - 1] \in J[k - 1] => f[k] \in J[k]
    <3> TAKE k \in 1 .. n
    <3>1. f[k - 1] \in I
      BY <1>2, <1>10
    <3> QED
      BY <1>0, <1>9, <3>1
  <2> QED
    BY <1>2, <1>9, <2>1, StaysIn
<1>12. n = ROB_SIZE
  BY DEF n
<1> QED
  BY <1>1, <1>2, <1>10, <1>11, <1>12

-------------------------------------------------------------------------------
(* Types. A slot is in the range of its queue, an instr_id a place in the trace. *)

Stages == {"no", "INFLIGHT", "COMPLETED"}
RobEntries ==
  [id : Nat, scheduled : Stages, executed : Stages, waits : SUBSET (RobSlots \X Registers), ops : Int,
   lq_index : [Addresses -> LqSlots \cup {None}], sq_index : [Addresses -> SqSlots \cup {None}],
   dependents : SUBSET RobSlots]
LqEntries == [id : Nat, va : Addresses \cup {None}, rob : RobSlots, producer : Nat]
SqEntries == [id : Nat, va : Addresses \cup {None}, rob : RobSlots, fetched : BOOLEAN]
Cores ==
  [rob : [RobSlots -> RobEntries], LQ : [LqSlots -> LqEntries], SQ : [SqSlots -> SqEntries],
   sq_tail : SqSlots, STA : Seq(Nat), RTL0 : SUBSET LqSlots, RTS0 : SUBSET SqSlots,
   inflight_mem : Int, performed : SUBSET (Nat \X (Addresses \cup {None}) \X (Nat \cup {None}))]
Requests == [queue : {"SQ", "LQ"}, slot : Nat, rob : RobSlots, id : Nat]
RingTyped ==
  /\ program \in Programs
  /\ head \in RobSlots /\ tail \in RobSlots /\ next_schedule \in RobSlots
  /\ retired \in Nat /\ dispatched \in Nat /\ inflight_reg \in Int
  /\ sq_head \in SqSlots
  /\ RTS1 \in SUBSET SqSlots /\ RTL1 \in SUBSET LqSlots
  /\ DTLB \in SUBSET Requests /\ L1D \in SUBSET Requests
  /\ \A r \in DTLB : r.slot \in (IF r.queue = "SQ" THEN SqSlots ELSE LqSlots)
  /\ \A r \in L1D : r.slot \in LqSlots

(* The entries from head to tail hold the instructions from retired + 1 to dispatched. *)
RingSpan ==
  /\ retired <= dispatched /\ dispatched <= Len(program) /\ dispatched - retired <= ROB_SIZE
  /\ tail = (head + (dispatched - retired)) % ROB_SIZE
RingOK(o) ==
  /\ RingSpan
  /\ \A i \in RobSlots : o.rob[i].id = IF Age(i) < dispatched - retired THEN retired + 1 + Age(i) ELSE 0

LEMMA SlotFacts ==
  /\ RobSlots \subseteq Nat /\ 0 \in RobSlots /\ \A i \in RobSlots : i < ROB_SIZE
  /\ LqSlots \subseteq Nat /\ SqSlots \subseteq Nat /\ 0 \in SqSlots
  /\ None \notin RobSlots /\ None \notin LqSlots /\ None \notin SqSlots
BY Sizes DEF RobSlots, LqSlots, SqSlots, None

LEMMA ModSmall ==
  ASSUME NEW n \in Nat \ {0}, NEW x \in 0 .. n - 1
  PROVE  x % n = x
OBVIOUS

LEMMA ModAbove ==
  ASSUME NEW n \in Nat \ {0}, NEW x \in n .. 2 * n - 1
  PROVE  x % n = x - n
OBVIOUS

LEMMA ModBelow ==
  ASSUME NEW n \in Nat \ {0}, NEW x \in Int, -n <= x, x < 0
  PROVE  x % n = x + n
OBVIOUS

(* The place of k on a ring of n whose head is h *)
LEMMA PlaceIs ==
  ASSUME NEW n \in Nat \ {0}, NEW h \in 0 .. n - 1, NEW k \in 0 .. n - 1
  PROVE  (k - h) % n = IF h <= k THEN k - h ELSE k - h + n
<1>1. CASE h <= k
  <2>1. k - h \in 0 .. n - 1
    BY <1>1
  <2> QED
    BY <1>1, <2>1, ModSmall
<1>2. CASE k < h
  <2>1. k - h \in Int /\ -n <= k - h /\ k - h < 0
    BY <1>2
  <2>2. (k - h) % n = k - h + n
    BY <2>1, ModBelow
  <2> QED
    BY <1>2, <2>2
<1> QED
  BY <1>1, <1>2

(* What is c places behind h *)
LEMMA BehindIs ==
  ASSUME NEW n \in Nat \ {0}, NEW h \in 0 .. n - 1, NEW c \in 0 .. n
  PROVE  (h + c) % n = IF h + c < n THEN h + c ELSE h + c - n
<1>1. PICK x \in 0 .. 2 * n - 1 : x = h + c
  OBVIOUS
<1>2. x < n => x % n = x
  BY <1>1, ModSmall
<1>3. n <= x => x % n = x - n
  BY <1>1, ModAbove
<1> QED
  BY <1>1, <1>2, <1>3

(* The places on a ring are the numbers below n, each of one slot. *)
LEMMA PlaceFacts ==
  ASSUME NEW n \in Nat \ {0}, NEW h \in 0 .. n - 1
  PROVE  /\ \A k \in 0 .. n - 1 : (k - h) % n \in 0 .. n - 1
         /\ \A k, m \in 0 .. n - 1 : (k - h) % n = (m - h) % n => k = m
         /\ \A a \in 0 .. n - 1 : (h + a) % n \in 0 .. n - 1 /\ (((h + a) % n) - h) % n = a
         /\ (h - h) % n = 0
<1>1. \A k \in 0 .. n - 1 : (k - h) % n = IF h <= k THEN k - h ELSE k - h + n
  BY PlaceIs
<1>2. ASSUME NEW a \in 0 .. n - 1
      PROVE  (h + a) % n \in 0 .. n - 1 /\ (((h + a) % n) - h) % n = a
  <2>1. PICK k : k = (h + a) % n
    OBVIOUS
  <2>2. k = IF h + a < n THEN h + a ELSE h + a - n
    <3>1. a \in 0 .. n
      OBVIOUS
    <3> QED
      BY Zenon, <2>1, <3>1, BehindIs
  <2>3. k \in 0 .. n - 1
    BY <2>2
  <2>4. PICK x : x = (k - h) % n
    OBVIOUS
  <2>5. x = IF h <= k THEN k - h ELSE k - h + n
    BY <1>1, <2>3, <2>4
  <2>6. x = a
    BY <2>2, <2>3, <2>5
  <2> QED
    BY <2>1, <2>3, <2>4, <2>6
<1>3. ASSUME NEW k \in 0 .. n - 1
      PROVE  (k - h) % n \in 0 .. n - 1
  BY <1>1
<1>4. ASSUME NEW k \in 0 .. n - 1, NEW m \in 0 .. n - 1, (k - h) % n = (m - h) % n
      PROVE  k = m
  BY <1>1, <1>4
<1> QED
  BY <1>1, <1>2, <1>3, <1>4

(* A head that moves on by c takes c off every place. *)
LEMMA PlaceMoves ==
  ASSUME NEW n \in Nat \ {0}, NEW h \in 0 .. n - 1, NEW c \in 0 .. n
  PROVE  /\ (h + c) % n \in 0 .. n - 1
         /\ \A k \in 0 .. n - 1 : (k - ((h + c) % n)) % n =
              IF c <= (k - h) % n THEN ((k - h) % n) - c ELSE ((k - h) % n) - c + n
         /\ \A d \in 0 .. n - c : (((h + c) % n) + d) % n = (h + (c + d)) % n
<1>1. PICK g : g = (h + c) % n
  OBVIOUS
<1>2. g = IF h + c < n THEN h + c ELSE h + c - n
  BY <1>1, BehindIs
<1>3. g \in 0 .. n - 1
  BY <1>2
<1>4. ASSUME NEW k \in 0 .. n - 1
      PROVE  (k - g) % n = IF c <= (k - h) % n THEN ((k - h) % n) - c ELSE ((k - h) % n) - c + n
  <2>1. (k - g) % n = IF g <= k THEN k - g ELSE k - g + n
    BY <1>3, PlaceIs
  <2>2. PICK x : x = (k - h) % n
    OBVIOUS
  <2>3. x = IF h <= k THEN k - h ELSE k - h + n
    BY <2>2, PlaceIs
  <2>4. PICK y : y = (k - g) % n
    OBVIOUS
  <2>5. y = IF g <= k THEN k - g ELSE k - g + n
    BY <2>1, <2>4
  <2>6. y = IF c <= x THEN x - c ELSE x - c + n
    BY <1>2, <1>3, <2>3, <2>5
  <2> QED
    BY <2>2, <2>4, <2>6
<1>5. ASSUME NEW d \in 0 .. n - c
      PROVE  (g + d) % n = (h + (c + d)) % n
  <2>1. PICK e \in 0 .. n : e = c + d
    OBVIOUS
  <2>2. (h + e) % n = IF h + e < n THEN h + e ELSE h + e - n
    BY BehindIs
  <2>3. (g + d) % n = IF g + d < n THEN g + d ELSE g + d - n
    <3>1. d \in 0 .. n
      OBVIOUS
    <3> QED
      BY Zenon, <1>3, <3>1, BehindIs
  <2> QED
    BY <1>2, <1>3, <2>1, <2>2, <2>3
<1> QED
  BY <1>1, <1>3, <1>4, <1>5

(* The ages of the slots are the numbers below ROB_SIZE, each of one slot. *)
LEMMA AgeFacts ==
  ASSUME head \in RobSlots
  PROVE  /\ \A i \in RobSlots : Age(i) \in 0 .. ROB_SIZE - 1
         /\ \A i, j \in RobSlots : Age(i) = Age(j) => i = j
         /\ \A a \in 0 .. ROB_SIZE - 1 :
              (head + a) % ROB_SIZE \in RobSlots /\ Age((head + a) % ROB_SIZE) = a
         /\ Age(head) = 0
BY Sizes, PlaceFacts DEF RobSlots, Age

(* An instr_id names one entry, and the older entries are those with a smaller one. *)
LEMMA RingIds ==
  ASSUME RingTyped, NEW o, RingOK(o)
  PROVE  /\ \A i \in RobSlots : o.rob[i].id \in 0 .. Len(program)
         /\ \A i \in RobSlots : o.rob[i].id # 0 => o.rob[i].id \in retired + 1 .. dispatched
         /\ \A i, j \in RobSlots : o.rob[i].id # 0 /\ o.rob[i].id = o.rob[j].id => i = j
         /\ \A i, j \in RobSlots : o.rob[i].id # 0 =>
              (j \in Older(i) <=> o.rob[j].id # 0 /\ o.rob[j].id < o.rob[i].id)
         /\ \A n \in retired + 1 .. dispatched : \E i \in RobSlots : o.rob[i].id = n
<1>1. /\ head \in RobSlots /\ retired \in Nat /\ dispatched \in Nat /\ Len(program) \in Nat
      /\ retired <= dispatched /\ dispatched <= Len(program) /\ dispatched - retired <= ROB_SIZE
  BY ProgramAssumption DEF RingTyped, RingOK, RingSpan
<1>2. \A i \in RobSlots : Age(i) \in 0 .. ROB_SIZE - 1
  BY <1>1, AgeFacts
<1>3. \A i, j \in RobSlots : Age(i) = Age(j) => i = j
  BY <1>1, AgeFacts
<1>4. \A i \in RobSlots : o.rob[i].id = IF Age(i) < dispatched - retired THEN retired + 1 + Age(i) ELSE 0
  BY DEF RingOK
<1>5. ROB_SIZE \in Nat
  BY Sizes
<1>6. \A i \in RobSlots : o.rob[i].id \in 0 .. Len(program)
                          /\ (o.rob[i].id # 0 => o.rob[i].id \in retired + 1 .. dispatched)
  BY <1>1, <1>2, <1>4, <1>5
<1>7. ASSUME NEW i \in RobSlots, NEW j \in RobSlots, o.rob[i].id # 0
      PROVE  /\ o.rob[i].id = o.rob[j].id => i = j
             /\ j \in Older(i) <=> o.rob[j].id # 0 /\ o.rob[j].id < o.rob[i].id
  <2>1. Age(i) \in Nat /\ Age(j) \in Nat /\ (Age(i) = Age(j) => i = j)
    BY <1>2, <1>3, <1>5
  <2>2. /\ o.rob[i].id = IF Age(i) < dispatched - retired THEN retired + 1 + Age(i) ELSE 0
        /\ o.rob[j].id = IF Age(j) < dispatched - retired THEN retired + 1 + Age(j) ELSE 0
    BY <1>4
  <2>3. j \in Older(i) <=> Age(j) < Age(i)
    BY DEF Older
  <2> HIDE DEF Older
  <2> QED
    BY <1>1, <1>7, <2>1, <2>2, <2>3
<1>8. ASSUME NEW n \in retired + 1 .. dispatched
      PROVE  \E i \in RobSlots : o.rob[i].id = n
  <2> DEFINE a == n - retired - 1
             i == (head + a) % ROB_SIZE
  <2>1. a \in 0 .. ROB_SIZE - 1 /\ a < dispatched - retired /\ retired + 1 + a = n
    BY <1>1, <1>5
  <2>2. i \in RobSlots /\ Age(i) = a
    BY <1>1, <2>1, AgeFacts
  <2> HIDE DEF a, i
  <2> QED
    BY <1>4, <2>1, <2>2
<1> QED
  BY <1>6, <1>7, <1>8

-------------------------------------------------------------------------------
(* Steps on memory operations. They leave what decides the issue alone. *)

KeepsIssue(q, t) ==
  \A j \in RobSlots :
    /\ t.rob[j].id = q.rob[j].id /\ t.rob[j].waits = q.rob[j].waits
    /\ t.rob[j].scheduled = q.rob[j].scheduled /\ t.rob[j].executed = q.rob[j].executed
KeepsStores(q, t) ==
  /\ \A j \in RobSlots : t.rob[j].sq_index = q.rob[j].sq_index
  /\ \A k \in SqSlots : /\ t.SQ[k].id = q.SQ[k].id /\ t.SQ[k].va = q.SQ[k].va
                          /\ t.SQ[k].rob = q.SQ[k].rob
  /\ t.sq_tail = q.sq_tail /\ t.STA = q.STA
(* An entry gets dependents only while it holds an older instruction. *)
AddsDependents(q, t) ==
  \A j \in RobSlots : \A d \in t.rob[j].dependents :
    d \in q.rob[j].dependents \/ (q.rob[j].id # 0 /\ q.rob[j].id < q.rob[d].id)
Quiet(q, t) ==
  /\ t \in Cores /\ KeepsIssue(q, t) /\ KeepsStores(q, t) /\ AddsDependents(q, t)
  /\ \A s \in LqSlots : t.LQ[s].id \in {q.LQ[s].id, 0}

LEMMA AddsTransitive ==
  ASSUME NEW q \in Cores, NEW t \in Cores, NEW u \in Cores, AddsDependents(q, t), AddsDependents(t, u),
         \A j \in RobSlots : t.rob[j].id = q.rob[j].id
  PROVE  AddsDependents(q, u)
<1> SUFFICES ASSUME NEW j \in RobSlots, NEW d \in u.rob[j].dependents, d \notin q.rob[j].dependents
             PROVE  q.rob[j].id # 0 /\ q.rob[j].id < q.rob[d].id
  BY DEF AddsDependents
<1>1. d \in RobSlots
  BY DEF Cores, RobEntries
<1> QED
  BY <1>1 DEF AddsDependents

LEMMA QuietTransitive ==
  ASSUME NEW q \in Cores, NEW t, NEW u, Quiet(q, t), Quiet(t, u)
  PROVE  Quiet(q, u)
<1>1. KeepsIssue(q, u)
  BY DEF Quiet, KeepsIssue
<1>2. KeepsStores(q, u)
  BY DEF Quiet, KeepsStores
<1>3. AddsDependents(q, u)
  BY AddsTransitive DEF Quiet, KeepsIssue
<1> QED
  BY <1>1, <1>2, <1>3 DEF Quiet

(* One field of a ROB entry changes. *)
LEMMA EntryChanges ==
  ASSUME NEW c \in RobEntries
  PROVE  /\ \A v \in Int : LET e == [c EXCEPT !.ops = v] IN
              /\ e \in RobEntries /\ e.ops = v /\ e.id = c.id /\ e.waits = c.waits
              /\ e.scheduled = c.scheduled /\ e.executed = c.executed
              /\ e.sq_index = c.sq_index /\ e.lq_index = c.lq_index /\ e.dependents = c.dependents
         /\ \A v \in SUBSET RobSlots : LET e == [c EXCEPT !.dependents = v] IN
              /\ e \in RobEntries /\ e.dependents = v /\ e.id = c.id /\ e.waits = c.waits
              /\ e.scheduled = c.scheduled /\ e.executed = c.executed
              /\ e.sq_index = c.sq_index /\ e.lq_index = c.lq_index /\ e.ops = c.ops
         /\ \A v \in [Addresses -> LqSlots \cup {None}] : LET e == [c EXCEPT !.lq_index = v] IN
              /\ e \in RobEntries /\ e.lq_index = v /\ e.id = c.id /\ e.waits = c.waits
              /\ e.scheduled = c.scheduled /\ e.executed = c.executed
              /\ e.sq_index = c.sq_index /\ e.dependents = c.dependents /\ e.ops = c.ops
         /\ \A v \in [Addresses -> SqSlots \cup {None}] : LET e == [c EXCEPT !.sq_index = v] IN
              /\ e \in RobEntries /\ e.sq_index = v /\ e.id = c.id /\ e.waits = c.waits
              /\ e.scheduled = c.scheduled /\ e.executed = c.executed
              /\ e.lq_index = c.lq_index /\ e.dependents = c.dependents /\ e.ops = c.ops
<1>1. ASSUME NEW v \in Int
      PROVE  LET e == [c EXCEPT !.ops = v] IN
              /\ e \in RobEntries /\ e.ops = v /\ e.id = c.id /\ e.waits = c.waits
              /\ e.scheduled = c.scheduled /\ e.executed = c.executed
              /\ e.sq_index = c.sq_index /\ e.lq_index = c.lq_index /\ e.dependents = c.dependents
  BY DEF RobEntries
<1>2. ASSUME NEW v \in SUBSET RobSlots
      PROVE  LET e == [c EXCEPT !.dependents = v] IN
              /\ e \in RobEntries /\ e.dependents = v /\ e.id = c.id /\ e.waits = c.waits
              /\ e.scheduled = c.scheduled /\ e.executed = c.executed
              /\ e.sq_index = c.sq_index /\ e.lq_index = c.lq_index /\ e.ops = c.ops
  BY DEF RobEntries
<1>3. ASSUME NEW v \in [Addresses -> LqSlots \cup {None}]
      PROVE  LET e == [c EXCEPT !.lq_index = v] IN
              /\ e \in RobEntries /\ e.lq_index = v /\ e.id = c.id /\ e.waits = c.waits
              /\ e.scheduled = c.scheduled /\ e.executed = c.executed
              /\ e.sq_index = c.sq_index /\ e.dependents = c.dependents /\ e.ops = c.ops
  BY DEF RobEntries
<1>4. ASSUME NEW v \in [Addresses -> SqSlots \cup {None}]
      PROVE  LET e == [c EXCEPT !.sq_index = v] IN
              /\ e \in RobEntries /\ e.sq_index = v /\ e.id = c.id /\ e.waits = c.waits
              /\ e.scheduled = c.scheduled /\ e.executed = c.executed
              /\ e.lq_index = c.lq_index /\ e.dependents = c.dependents /\ e.ops = c.ops
  BY DEF RobEntries
<1> QED
  BY <1>1, <1>2, <1>3, <1>4

(* A step that leaves the queues, or all but the entries of the load queue, as they are. *)
LEMMA QuietRob ==
  ASSUME NEW q \in Cores, NEW i \in RobSlots, NEW e \in RobEntries,
         e.id = q.rob[i].id, e.waits = q.rob[i].waits, e.scheduled = q.rob[i].scheduled,
         e.executed = q.rob[i].executed, e.sq_index = q.rob[i].sq_index,
         \A d \in e.dependents :
           d \in q.rob[i].dependents \/ (q.rob[i].id # 0 /\ q.rob[i].id < q.rob[d].id),
         NEW m \in Int, NEW t, t = [q EXCEPT !.rob = [q.rob EXCEPT ![i] = e], !.inflight_mem = m]
  PROVE  Quiet(q, t)
<1>1. PICK R \in [RobSlots -> RobEntries] : R = [q.rob EXCEPT ![i] = e]
  BY DEF Cores
<1>2. \A j \in RobSlots : R[j] = IF j = i THEN e ELSE q.rob[j]
  BY <1>1 DEF Cores
<1>3. t = [q EXCEPT !.rob = R, !.inflight_mem = m]
  BY <1>1
<1>4. t \in Cores
  BY <1>3 DEF Cores
<1>5. t.rob = R /\ t.LQ = q.LQ /\ t.SQ = q.SQ /\ t.sq_tail = q.sq_tail /\ t.STA = q.STA
  BY <1>3 DEF Cores
<1>6. KeepsIssue(q, t)
  BY <1>2, <1>5 DEF KeepsIssue
<1>7. KeepsStores(q, t)
  BY <1>2, <1>5 DEF KeepsStores
<1>8. AddsDependents(q, t)
  BY <1>2, <1>5 DEF AddsDependents
<1> QED
  BY <1>4, <1>5, <1>6, <1>7, <1>8 DEF Quiet

LEMMA OpDoneQuiet ==
  ASSUME NEW q \in Cores, NEW i \in RobSlots
  PROVE  Quiet(q, OpDone(q, i))
<1>1. PICK e : e = [q.rob[i] EXCEPT !.ops = q.rob[i].ops - 1]
  OBVIOUS
<1>2. PICK m : m = q.inflight_mem + (IF q.rob[i].ops = 1 THEN 1 ELSE 0)
  OBVIOUS
<1>3. q.rob[i] \in RobEntries /\ q.rob[i].ops - 1 \in Int /\ m \in Int
  BY <1>2 DEF Cores, RobEntries
<1>4. /\ e \in RobEntries /\ e.id = q.rob[i].id /\ e.waits = q.rob[i].waits
      /\ e.scheduled = q.rob[i].scheduled /\ e.executed = q.rob[i].executed
      /\ e.sq_index = q.rob[i].sq_index /\ e.dependents = q.rob[i].dependents
  BY <1>1, <1>3, EntryChanges
<1>5. OpDone(q, i) = [q EXCEPT !.rob = [q.rob EXCEPT ![i] = e], !.inflight_mem = m]
  BY <1>1, <1>2 DEF OpDone, Cores
<1> QED
  BY <1>3, <1>4, <1>5, QuietRob

LEMMA PerformQuiet ==
  ASSUME NEW q \in Cores, NEW s \in LqSlots, NEW n \in Nat \cup {None}
  PROVE  Quiet(q, Perform(q, s, n)) /\ Perform(q, s, n).LQ = q.LQ
<1>1. PICK P \in SUBSET (Nat \X (Addresses \cup {None}) \X (Nat \cup {None})) :
        P = q.performed \cup {<<q.LQ[s].id, q.LQ[s].va, n>>}
  <2>1. /\ q.LQ[s] \in LqEntries
        /\ q.performed \in SUBSET (Nat \X (Addresses \cup {None}) \X (Nat \cup {None}))
    BY DEF Cores
  <2>2. q.LQ[s].id \in Nat /\ q.LQ[s].va \in Addresses \cup {None}
    BY <2>1 DEF LqEntries
  <2> DEFINE x == <<q.LQ[s].id, q.LQ[s].va, n>>
             U == Nat \X (Addresses \cup {None}) \X (Nat \cup {None})
  <2>3. x \in U /\ q.performed \in SUBSET U
    BY <2>1, <2>2
  <2> HIDE DEF x, U
  <2>4. \E P \in SUBSET U : P = q.performed \cup {x}
    BY <2>3
  <2> QED
    BY <2>4 DEF x, U
<1>2. PICK t : t = Perform(q, s, n)
  OBVIOUS
<1>3. t = [q EXCEPT !.performed = P]
  BY <1>1, <1>2 DEF Perform
<1>4. t \in Cores
  BY <1>3 DEF Cores
<1>5. t.rob = q.rob /\ t.LQ = q.LQ /\ t.SQ = q.SQ /\ t.sq_tail = q.sq_tail /\ t.STA = q.STA
  BY <1>3 DEF Cores
<1> QED
  BY <1>2, <1>4, <1>5 DEF Quiet, KeepsIssue, KeepsStores, AddsDependents

LEMMA ReleaseQuiet ==
  ASSUME NEW q \in Cores, NEW s \in LqSlots
  PROVE  Quiet(q, release_load_queue(q, s))
<1>1. EmptyLq \in LqEntries /\ EmptyLq.id = 0
  BY SlotFacts DEF EmptyLq, LqEntries
<1>2. PICK L \in [LqSlots -> LqEntries] : L = [q.LQ EXCEPT ![s] = EmptyLq]
  BY <1>1 DEF Cores
<1>3. \A x \in LqSlots : L[x].id \in {q.LQ[x].id, 0}
  BY <1>1, <1>2 DEF Cores
<1>4. PICK t : t = release_load_queue(q, s)
  OBVIOUS
<1>5. t = [q EXCEPT !.LQ = L]
  BY <1>2, <1>4 DEF release_load_queue, Cores
<1>6. t \in Cores
  BY <1>5 DEF Cores
<1>7. t.rob = q.rob /\ t.LQ = L /\ t.SQ = q.SQ /\ t.sq_tail = q.sq_tail /\ t.STA = q.STA
  BY <1>5 DEF Cores
<1> QED
  BY <1>3, <1>4, <1>6, <1>7 DEF Quiet, KeepsIssue, KeepsStores, AddsDependents

LEMMA ForwardQuiet ==
  ASSUME NEW q \in Cores, NEW s \in LqSlots, NEW a
  PROVE  Quiet(q, Forward(q, s, a))
<1>1. PICK n : n = IF q.LQ[s].va = a THEN q.LQ[s].producer ELSE None
  OBVIOUS
<1>2. n \in Nat \cup {None} /\ q.LQ[s].rob \in RobSlots
  BY <1>1 DEF Cores, LqEntries
<1>3. PICK t : t = Perform(q, s, n)
  OBVIOUS
<1>4. Quiet(q, t)
  BY <1>2, <1>3, PerformQuiet
<1>5. PICK u : u = OpDone(t, q.LQ[s].rob)
  OBVIOUS
<1>6. Quiet(t, u)
  BY <1>2, <1>4, <1>5, OpDoneQuiet DEF Quiet
<1>7. Quiet(u, release_load_queue(u, s))
  BY <1>6, ReleaseQuiet DEF Quiet
<1>8. Forward(q, s, a) = release_load_queue(u, s)
  BY <1>1, <1>3, <1>5 DEF Forward
<1>9. Quiet(q, u)
  BY <1>4, <1>6, QuietTransitive
<1> QED
  BY <1>7, <1>8, <1>9, QuietTransitive

LEMMA DependentQuiet ==
  ASSUME NEW q \in Cores, NEW w \in RobSlots, NEW i \in RobSlots,
         q.rob[w].id # 0, q.rob[w].id < q.rob[i].id
  PROVE  Quiet(q, [q EXCEPT !.rob[w].dependents = q.rob[w].dependents \cup {i}])
<1>0. PICK D \in SUBSET RobSlots : D = q.rob[w].dependents \cup {i}
  BY DEF Cores, RobEntries
<1>1. PICK e : e = [q.rob[w] EXCEPT !.dependents = D]
  OBVIOUS
<1>2. q.rob[w] \in RobEntries /\ q.inflight_mem \in Int
  BY DEF Cores
<1>3. /\ e \in RobEntries /\ e.id = q.rob[w].id /\ e.waits = q.rob[w].waits
      /\ e.scheduled = q.rob[w].scheduled /\ e.executed = q.rob[w].executed
      /\ e.sq_index = q.rob[w].sq_index /\ e.dependents = D
  BY SMTT(30), <1>1, <1>2, EntryChanges
<1>4. PICK t : t = [q EXCEPT !.rob[w].dependents = q.rob[w].dependents \cup {i}]
  OBVIOUS
<1>5. t = [q EXCEPT !.rob = [q.rob EXCEPT ![w] = e], !.inflight_mem = q.inflight_mem]
  BY <1>0, <1>1, <1>4 DEF Cores
<1>6. Quiet(q, t)
  BY <1>0, <1>2, <1>3, <1>5, QuietRob
<1> QED
  BY <1>4, <1>6

LEMMA StoreDoneQuiet ==
  ASSUME NEW q \in Cores, NEW k \in SqSlots
  PROVE  Quiet(q, StoreDone(q, k))
<1>1. PICK e : e = [q.SQ[k] EXCEPT !.fetched = TRUE]
  OBVIOUS
<1>2. /\ e \in SqEntries /\ e.id = q.SQ[k].id /\ e.va = q.SQ[k].va /\ e.rob = q.SQ[k].rob
      /\ q.SQ[k].rob \in RobSlots
  BY <1>1 DEF Cores, SqEntries
<1>3. PICK S \in [SqSlots -> SqEntries] : S = [q.SQ EXCEPT ![k] = e]
  BY <1>2 DEF Cores
<1>4. \A x \in SqSlots : S[x].id = q.SQ[x].id /\ S[x].va = q.SQ[x].va /\ S[x].rob = q.SQ[x].rob
  BY <1>2, <1>3 DEF Cores
<1>5. PICK t : t = [q EXCEPT !.SQ[k].fetched = TRUE]
  OBVIOUS
<1>6. t = [q EXCEPT !.SQ = S]
  BY <1>1, <1>3, <1>5 DEF Cores
<1>7. t \in Cores
  BY <1>6 DEF Cores
<1>8. t.rob = q.rob /\ t.LQ = q.LQ /\ t.SQ = S /\ t.sq_tail = q.sq_tail /\ t.STA = q.STA
  BY <1>6 DEF Cores
<1>9. Quiet(q, t)
  BY <1>4, <1>7, <1>8 DEF Quiet, KeepsIssue, KeepsStores, AddsDependents
<1>10. Quiet(t, OpDone(t, q.SQ[k].rob))
  BY <1>2, <1>7, OpDoneQuiet
<1>11. StoreDone(q, k) = OpDone(t, q.SQ[k].rob)
  BY <1>5 DEF StoreDone
<1> QED
  BY <1>9, <1>10, <1>11, QuietTransitive

-------------------------------------------------------------------------------
(* The order of issue *)

Issued(o, i) == o.rob[i].scheduled # "no" /\ o.rob[i].waits = {}
NoOps(o, n) == (\A s \in LqSlots : o.LQ[s].id # n) /\ (\A k \in SqSlots : o.SQ[k].id # n)

(* Only an entry that is scheduled and waits for nothing executes or has memory operations. *)
IssueOK(o) ==
  /\ \A i \in RobSlots :
       /\ o.rob[i].id = 0 => o.rob[i].scheduled = "no" /\ o.rob[i].dependents = {}
       /\ \A d \in o.rob[i].dependents : o.rob[i].id < o.rob[d].id
       /\ o.rob[i].scheduled = "no" => o.rob[i].executed = "no"
       /\ o.rob[i].waits # {} => o.rob[i].executed = "no"
       /\ o.rob[i].id # 0 /\ ~Issued(o, i) => NoOps(o, o.rob[i].id)
  /\ \A s \in LqSlots : o.LQ[s].id <= dispatched
  /\ \A k \in SqSlots : o.SQ[k].id <= dispatched

(* The instruction of j is the last before that of i that writes r, which i reads. *)
LastWriter(o, i, j, r) ==
  /\ o.rob[j].id < o.rob[i].id
  /\ r \in program[o.rob[i].id].reads /\ r \in program[o.rob[j].id].writes
  /\ \A n \in o.rob[j].id + 1 .. o.rob[i].id - 1 : r \notin program[n].writes

(* A scheduled entry waits for the last writer of each source until that is done. *)
WaitsOK(o) ==
  \A i, j \in RobSlots, r \in Registers :
    /\ o.rob[i].id # 0 /\ o.rob[j].id # 0 /\ LastWriter(o, i, j, r)
    /\ o.rob[i].scheduled # "no" /\ o.rob[j].executed # "COMPLETED"
    => <<j, r>> \in o.rob[i].waits

Ordered(o) == o \in Cores /\ RingOK(o) /\ IssueOK(o) /\ WaitsOK(o)

(* The id of a queue entry stays, is cleared, or is that of an entry which may ask for memory. *)
AskedBy(q, old, new) == new \in {old, 0} \/ \E j \in RobSlots : Issued(q, j) /\ new = q.rob[j].id
(* What the steps of issued entries do to the order. *)
Advances(q, t) ==
  /\ t \in Cores /\ AddsDependents(q, t)
  /\ \A j \in RobSlots :
       /\ t.rob[j].id = q.rob[j].id /\ t.rob[j].waits = q.rob[j].waits
       /\ t.rob[j].scheduled = "no" <=> q.rob[j].scheduled = "no"
       /\ t.rob[j].executed = q.rob[j].executed
            \/ (q.rob[j].executed # "COMPLETED" /\ Issued(q, j))
  /\ \A s \in LqSlots : AskedBy(q, q.LQ[s].id, t.LQ[s].id)
  /\ \A k \in SqSlots : AskedBy(q, q.SQ[k].id, t.SQ[k].id)

LEMMA KeepsAdvances ==
  ASSUME NEW q, NEW t, t \in Cores, KeepsIssue(q, t), AddsDependents(q, t),
         \A s \in LqSlots : AskedBy(q, q.LQ[s].id, t.LQ[s].id),
         \A k \in SqSlots : AskedBy(q, q.SQ[k].id, t.SQ[k].id)
  PROVE  Advances(q, t)
<1>1. ASSUME NEW j \in RobSlots
      PROVE  /\ t.rob[j].id = q.rob[j].id /\ t.rob[j].waits = q.rob[j].waits
             /\ t.rob[j].scheduled = "no" <=> q.rob[j].scheduled = "no"
             /\ t.rob[j].executed = q.rob[j].executed
                  \/ (q.rob[j].executed # "COMPLETED" /\ Issued(q, j))
  BY DEF KeepsIssue
<1> QED
  BY <1>1 DEF Advances

LEMMA QuietAdvances ==
  ASSUME NEW q, NEW t, Quiet(q, t)
  PROVE  Advances(q, t)
<1>1. t \in Cores /\ KeepsIssue(q, t) /\ KeepsStores(q, t) /\ AddsDependents(q, t)
  BY DEF Quiet
<1>2. \A s \in LqSlots : AskedBy(q, q.LQ[s].id, t.LQ[s].id)
  BY DEF Quiet, AskedBy
<1>3. \A k \in SqSlots : AskedBy(q, q.SQ[k].id, t.SQ[k].id)
  BY <1>1 DEF KeepsStores, AskedBy
<1> QED
  BY <1>1, <1>2, <1>3, KeepsAdvances


LEMMA AdvancesTransitive ==
  ASSUME NEW q \in Cores, NEW t, NEW u, Advances(q, t), Advances(t, u)
  PROVE  Advances(q, u)
<1>1. \A j \in RobSlots : Issued(t, j) <=> Issued(q, j)
  BY DEF Advances, Issued
<1>2. \A x, y, z : AskedBy(q, x, y) /\ AskedBy(t, y, z) => AskedBy(q, x, z)
  <2>1. \A j \in RobSlots : t.rob[j].id = q.rob[j].id
    BY DEF Advances
  <2> QED
    BY <1>1, <2>1 DEF AskedBy
<1>3. \A j \in RobSlots :
        /\ u.rob[j].id = q.rob[j].id /\ u.rob[j].waits = q.rob[j].waits
        /\ u.rob[j].scheduled = "no" <=> q.rob[j].scheduled = "no"
        /\ u.rob[j].executed = q.rob[j].executed
             \/ (q.rob[j].executed # "COMPLETED" /\ Issued(q, j))
  BY <1>1 DEF Advances
<1>4. /\ \A s \in LqSlots : AskedBy(q, q.LQ[s].id, u.LQ[s].id)
      /\ \A k \in SqSlots : AskedBy(q, q.SQ[k].id, u.SQ[k].id)
  BY <1>2 DEF Advances
<1>5. AddsDependents(q, u)
  BY AddsTransitive DEF Advances
<1> QED
  BY <1>3, <1>4, <1>5 DEF Advances

LEMMA AdvancesKeepsOrder ==
  ASSUME RingTyped, NEW q, NEW t, Ordered(q), Advances(q, t)
  PROVE  Ordered(t)
<1>1. \A j \in RobSlots : t.rob[j].id = q.rob[j].id /\ t.rob[j].waits = q.rob[j].waits
  BY DEF Advances
<1>2. RingOK(t)
  BY <1>1 DEF RingOK, Ordered
<1>3. \A j \in RobSlots : Issued(t, j) <=> Issued(q, j)
  BY DEF Advances, Issued
<1>4. \A i, j \in RobSlots : q.rob[i].id # 0 /\ q.rob[i].id = q.rob[j].id => i = j
  BY RingIds DEF Ordered
<1>5. dispatched \in Nat /\ \A i \in RobSlots : q.rob[i].id <= dispatched
  <2>1. dispatched \in Nat
    BY DEF RingTyped
  <2>2. \A i \in RobSlots : q.rob[i].id \in 0 .. Len(program)
                            /\ (q.rob[i].id # 0 => q.rob[i].id \in retired + 1 .. dispatched)
    BY RingIds DEF Ordered
  <2> QED
    BY <2>1, <2>2
<1>6. \A x, y : AskedBy(q, x, y) /\ x <= dispatched => y <= dispatched
  BY <1>5 DEF AskedBy
<1>7. \A i \in RobSlots : \A x, y :
        q.rob[i].id # 0 /\ ~Issued(q, i) /\ AskedBy(q, x, y) /\ x # q.rob[i].id => y # q.rob[i].id
  BY <1>4 DEF AskedBy
<1>8. IssueOK(t)
  <2>0. \A i \in RobSlots : /\ t.rob[i].id = 0 => t.rob[i].dependents = {}
                            /\ \A d \in t.rob[i].dependents : t.rob[i].id < t.rob[d].id
    <3> TAKE i \in RobSlots
    <3>1. t.rob[i].dependents \subseteq RobSlots
      BY DEF Advances, Cores, RobEntries
    <3> QED
      BY <1>1, <3>1 DEF Advances, AddsDependents, Ordered, IssueOK
  <2>1. \A i \in RobSlots : /\ t.rob[i].id = 0 => t.rob[i].scheduled = "no"
                            /\ t.rob[i].scheduled = "no" => t.rob[i].executed = "no"
                            /\ t.rob[i].waits # {} => t.rob[i].executed = "no"
    BY DEF Advances, Ordered, IssueOK, Issued
  <2>2. \A i \in RobSlots : t.rob[i].id # 0 /\ ~Issued(t, i) => NoOps(t, t.rob[i].id)
    BY <1>1, <1>3, <1>7 DEF Advances, Ordered, IssueOK, NoOps
  <2>3. /\ \A s \in LqSlots : t.LQ[s].id <= dispatched
        /\ \A k \in SqSlots : t.SQ[k].id <= dispatched
    BY <1>6 DEF Advances, Ordered, IssueOK
  <2> QED
    BY <2>0, <2>1, <2>2, <2>3 DEF IssueOK
<1>9. WaitsOK(t)
  <2>1. \A i, j \in RobSlots, r \in Registers : LastWriter(t, i, j, r) => LastWriter(q, i, j, r)
    BY <1>1 DEF LastWriter
  <2>2. \A j \in RobSlots : /\ t.rob[j].scheduled # "no" => q.rob[j].scheduled # "no"
                            /\ t.rob[j].executed # "COMPLETED" => q.rob[j].executed # "COMPLETED"
    BY DEF Advances
  <2> QED
    BY <1>1, <2>1, <2>2 DEF WaitsOK, Ordered
<1> QED
  BY <1>2, <1>8, <1>9 DEF Ordered, Advances

-------------------------------------------------------------------------------
(* The load and the store queue *)

(* Nearest returns None or one of the entries. *)
LEMMA NearestIs ==
  ASSUME head \in RobSlots, NEW S \in SUBSET RobSlots
  PROVE  /\ S = {} => Nearest(S) = None
         /\ S # {} => Nearest(S) \in S /\ \A j \in S : Age(j) <= Age(Nearest(S))
<1> SUFFICES ASSUME S # {}
             PROVE  Nearest(S) \in S /\ \A j \in S : Age(j) <= Age(Nearest(S))
  BY DEF Nearest
<1> DEFINE T == {ROB_SIZE - 1 - Age(j) : j \in S}
<1>1. \A j \in S : Age(j) \in 0 .. ROB_SIZE - 1
  BY AgeFacts
<1>2. ROB_SIZE \in Nat
  BY Sizes
<1>3. T \in SUBSET Nat /\ T # {}
  BY <1>1, <1>2
<1>4. PICK x \in T : \A y \in T : x <= y
  <2> HIDE DEF T
  <2> QED
    BY <1>3, LeastNatural
<1>5. PICK k \in S : x = ROB_SIZE - 1 - Age(k)
  BY <1>4
<1>6. \A j \in S : Age(k) >= Age(j)
  <2> TAKE j \in S
  <2>1. ROB_SIZE - 1 - Age(j) \in T
    OBVIOUS
  <2> HIDE DEF T
  <2> QED
    BY <1>1, <1>2, <1>4, <1>5, <2>1
<1>7. Nearest(S) \in S /\ \A j \in S : Age(Nearest(S)) >= Age(j)
  BY <1>6 DEF Nearest
<1> HIDE DEF Nearest
<1> QED
  BY <1>1, <1>7

LEMMA SmallestIs ==
  ASSUME NEW S \in SUBSET Nat, S # {}
  PROVE  Smallest(S) \in S
<1>1. PICK x \in S : \A y \in S : x <= y
  BY LeastNatural
<1> QED
  BY <1>1 DEF Smallest

LEMMA AddedLoadAdvances ==
  ASSUME NEW q \in Cores, NEW i \in RobSlots, Issued(q, i), NEW a \in Addresses,
         NEW s \in LqSlots, NEW w \in RobSlots \cup {None}
  PROVE  /\ Advances(q, AddedLoad(q, i, a, s, w))
         /\ KeepsIssue(q, AddedLoad(q, i, a, s, w)) /\ KeepsStores(q, AddedLoad(q, i, a, s, w))
<1>1. PICK x : x = [q.rob[i].lq_index EXCEPT ![a] = s]
  OBVIOUS
<1>2. PICK e : e = [q.rob[i] EXCEPT !.lq_index = x]
  OBVIOUS
<1>3. q.rob[i] \in RobEntries
  BY DEF Cores
<1>4. x \in [Addresses -> LqSlots \cup {None}]
  BY <1>1, <1>3 DEF RobEntries
<1>5. /\ e \in RobEntries /\ e.id = q.rob[i].id /\ e.waits = q.rob[i].waits
      /\ e.scheduled = q.rob[i].scheduled /\ e.executed = q.rob[i].executed
      /\ e.sq_index = q.rob[i].sq_index /\ e.dependents = q.rob[i].dependents
  BY <1>2, <1>3, <1>4, EntryChanges
<1>6. PICK l : l = [id |-> q.rob[i].id, va |-> a, rob |-> i,
                    producer |-> IF w = None THEN 0 ELSE q.rob[w].id]
  OBVIOUS
<1>7. l \in LqEntries /\ l.id = q.rob[i].id
  BY <1>6 DEF Cores, RobEntries, LqEntries
<1>8. PICK R \in [RobSlots -> RobEntries] : R = [q.rob EXCEPT ![i] = e]
  BY <1>5 DEF Cores
<1>9. PICK L \in [LqSlots -> LqEntries] : L = [q.LQ EXCEPT ![s] = l]
  BY <1>7 DEF Cores
<1>10. \A j \in RobSlots : R[j] = IF j = i THEN e ELSE q.rob[j]
  BY <1>8 DEF Cores
<1>11. \A y \in LqSlots : L[y] = IF y = s THEN l ELSE q.LQ[y]
  BY <1>9 DEF Cores
<1>12. PICK t : t = AddedLoad(q, i, a, s, w)
  OBVIOUS
<1>13. t = [q EXCEPT !.rob = R, !.LQ = L]
  BY <1>1, <1>2, <1>6, <1>8, <1>9, <1>12 DEF AddedLoad, Cores, RobEntries
<1>14. t \in Cores
  BY <1>13 DEF Cores
<1>15. t.rob = R /\ t.LQ = L /\ t.SQ = q.SQ /\ t.sq_tail = q.sq_tail /\ t.STA = q.STA
  BY <1>13 DEF Cores
<1>16. KeepsIssue(q, t)
  BY <1>5, <1>10, <1>15 DEF KeepsIssue
<1>17. KeepsStores(q, t)
  BY <1>5, <1>10, <1>15 DEF KeepsStores
<1>18. \A y \in LqSlots : AskedBy(q, q.LQ[y].id, t.LQ[y].id)
  BY <1>7, <1>11, <1>15 DEF AskedBy
<1>19. \A k \in SqSlots : AskedBy(q, q.SQ[k].id, t.SQ[k].id)
  BY <1>15 DEF AskedBy
<1>20. AddsDependents(q, t)
  BY <1>5, <1>10, <1>15 DEF AddsDependents
<1>21. Advances(q, t)
  BY <1>14, <1>16, <1>18, <1>19, <1>20, KeepsAdvances
<1> QED
  BY <1>12, <1>16, <1>17, <1>21

LEMMA ReadyLoadQuiet ==
  ASSUME NEW q \in Cores, NEW s \in LqSlots
  PROVE  Quiet(q, [q EXCEPT !.RTL0 = @ \cup {s}])
<1>1. PICK t : t = [q EXCEPT !.RTL0 = q.RTL0 \cup {s}]
  OBVIOUS
<1>2. t \in Cores
  BY <1>1 DEF Cores
<1>3. t.rob = q.rob /\ t.LQ = q.LQ /\ t.SQ = q.SQ /\ t.sq_tail = q.sq_tail /\ t.STA = q.STA
  BY <1>1 DEF Cores
<1> QED
  BY <1>1, <1>2, <1>3 DEF Quiet, KeepsIssue, KeepsStores, AddsDependents

(* A load that is tried *)
LEMMA TryLoadAdvances ==
  ASSUME RingTyped, NEW q \in Cores, RingOK(q), NEW i \in RobSlots, q.rob[i].id # 0, Issued(q, i),
         NEW a \in Addresses
  PROVE  /\ Advances(q, TryLoad(q, i, a))
         /\ KeepsIssue(q, TryLoad(q, i, a)) /\ KeepsStores(q, TryLoad(q, i, a))
<1>1. Quiet(q, q)
  BY DEF Quiet, KeepsIssue, KeepsStores, AddsDependents
<1>2. ASSUME FreeLq(q) # {}
      PROVE  /\ Advances(q, add_load_queue(q, i, a))
             /\ KeepsIssue(q, add_load_queue(q, i, a)) /\ KeepsStores(q, add_load_queue(q, i, a))
  <2>1. PICK s \in LqSlots : s = Smallest(FreeLq(q))
    <3>1. FreeLq(q) \in SUBSET Nat /\ FreeLq(q) \subseteq LqSlots
      BY SlotFacts DEF FreeLq
    <3> QED
      BY <1>2, <3>1, SmallestIs
  <2>2. PICK w \in RobSlots \cup {None} : w = mem_RAW_dependency(q, i, a) /\ (w # None => w \in Older(i))
    <3> DEFINE S == {j \in Older(i) : a \in Instr(q, j).stores}
    <3>1. S \in SUBSET RobSlots /\ S \subseteq Older(i)
      BY DEF Older
    <3> HIDE DEF S
    <3>2. Nearest(S) \in RobSlots \cup {None} /\ (Nearest(S) # None => Nearest(S) \in Older(i))
      BY <3>1, NearestIs DEF RingTyped
    <3> QED
      BY <3>2 DEF mem_RAW_dependency, S
  <2>3. PICK t : t = AddedLoad(q, i, a, s, w)
    OBVIOUS
  <2>4. Advances(q, t) /\ KeepsIssue(q, t) /\ KeepsStores(q, t)
    BY <2>3, AddedLoadAdvances
  <2>5. t \in Cores
    BY <2>4 DEF Advances
  <2>6. PICK u : u = add_load_queue(q, i, a)
    OBVIOUS
  <2>7. Quiet(t, u)
    <3>1. CASE w = None
      <4>1. u = [t EXCEPT !.RTL0 = @ \cup {s}]
        BY <2>1, <2>2, <2>3, <2>6, <3>1 DEF add_load_queue
      <4> QED
        BY <2>5, <4>1, ReadyLoadQuiet
    <3>2. CASE w # None
      <4>1. PICK v : v = [t EXCEPT !.rob[w].dependents = t.rob[w].dependents \cup {i}]
        OBVIOUS
      <4>0. w \in RobSlots /\ t.rob[w].id # 0 /\ t.rob[w].id < t.rob[i].id
        <5>1. w \in RobSlots /\ q.rob[w].id # 0 /\ q.rob[w].id < q.rob[i].id
          BY <2>2, <3>2, RingIds
        <5> QED
          BY <2>4, <5>1 DEF KeepsIssue
      <4>2. Quiet(t, v)
        BY <2>5, <4>0, <4>1, DependentQuiet
      <4>3. v \in Cores
        BY <4>2 DEF Quiet
      <4>4. Quiet(v, Forward(v, s, a))
        BY <4>3, ForwardQuiet
      <4>5. u = v \/ u = Forward(v, s, a)
        BY <2>1, <2>2, <2>3, <2>6, <3>2, <4>1 DEF add_load_queue
      <4> QED
        BY <2>5, <4>2, <4>4, <4>5, QuietTransitive
    <3> QED
      BY <3>1, <3>2
  <2>8. Advances(t, u)
    BY <2>7, QuietAdvances
  <2>9. Advances(q, u)
    BY <2>4, <2>8, AdvancesTransitive
  <2>10. KeepsIssue(q, u) /\ KeepsStores(q, u)
    BY <2>4, <2>7 DEF Quiet, KeepsIssue, KeepsStores, AddsDependents
  <2> QED
    BY <2>6, <2>9, <2>10
<1>3. Advances(q, q) /\ KeepsIssue(q, q) /\ KeepsStores(q, q)
  BY <1>1, QuietAdvances DEF Quiet
<1>4. CASE q.rob[i].lq_index[a] # None \/ FreeLq(q) = {}
  BY <1>3, <1>4 DEF TryLoad
<1>5. CASE ~(q.rob[i].lq_index[a] # None \/ FreeLq(q) = {})
  <2>1. TryLoad(q, i, a) = add_load_queue(q, i, a)
    BY <1>5 DEF TryLoad
  <2> QED
    BY <1>2, <1>5, <2>1
<1> QED
  BY <1>4, <1>5

(* A store that enters the store queue *)
StoreAdded(q, t, i, a) ==
  /\ q.rob[i].sq_index[a] = None /\ FreeSq(q) # {} /\ q.STA # <<>> /\ Head(q.STA) = q.rob[i].id
  /\ t.STA = Tail(q.STA) /\ t.sq_tail = (q.sq_tail + 1) % SQ_SIZE
  /\ \A k \in SqSlots \ {q.sq_tail} : t.SQ[k] = q.SQ[k]
  /\ t.SQ[q.sq_tail] = [id |-> q.rob[i].id, va |-> a, rob |-> i, fetched |-> FALSE]
  /\ \A j \in RobSlots, b \in Addresses :
       t.rob[j].sq_index[b] = IF j = i /\ b = a THEN q.sq_tail ELSE q.rob[j].sq_index[b]
  /\ \A j \in RobSlots : /\ t.rob[j].ops = q.rob[j].ops /\ t.rob[j].lq_index = q.rob[j].lq_index
                         /\ t.rob[j].dependents = q.rob[j].dependents
  /\ t.LQ = q.LQ /\ t.RTL0 = q.RTL0 /\ t.RTS0 = q.RTS0 \cup {q.sq_tail} /\ t.inflight_mem = q.inflight_mem
  /\ t.performed = q.performed

LEMMA TailTyped ==
  ASSUME NEW s \in Seq(Nat), s # <<>>
  PROVE  Tail(s) \in Seq(Nat) /\ Len(Tail(s)) = Len(s) - 1 /\ Len(s) > 0
         /\ \A k \in 1 .. Len(Tail(s)) : Tail(s)[k] = s[k + 1]
OBVIOUS

LEMMA AddStoreAdvances ==
  ASSUME NEW q \in Cores, NEW i \in RobSlots, Issued(q, i), NEW a \in Addresses,
         q.rob[i].sq_index[a] = None, FreeSq(q) # {}, q.STA # <<>>, Head(q.STA) = q.rob[i].id
  PROVE  /\ Advances(q, add_store_queue(q, i, a)) /\ KeepsIssue(q, add_store_queue(q, i, a))
         /\ StoreAdded(q, add_store_queue(q, i, a), i, a)
<1>0. q.sq_tail \in SqSlots /\ q.rob[i] \in RobEntries /\ q.STA \in Seq(Nat) /\ q.RTS0 \in SUBSET SqSlots
  BY DEF Cores
<1>1. PICK x : x = [q.rob[i].sq_index EXCEPT ![a] = q.sq_tail]
  OBVIOUS
<1>2. PICK e : e = [q.rob[i] EXCEPT !.sq_index = x]
  OBVIOUS
<1>3. /\ x \in [Addresses -> SqSlots \cup {None}]
      /\ \A b \in Addresses : x[b] = IF b = a THEN q.sq_tail ELSE q.rob[i].sq_index[b]
  BY <1>0, <1>1 DEF RobEntries
<1>4. /\ e \in RobEntries /\ e.id = q.rob[i].id /\ e.waits = q.rob[i].waits
      /\ e.scheduled = q.rob[i].scheduled /\ e.executed = q.rob[i].executed
      /\ e.sq_index = x /\ e.dependents = q.rob[i].dependents
      /\ e.ops = q.rob[i].ops /\ e.lq_index = q.rob[i].lq_index
  BY <1>0, <1>2, <1>3, EntryChanges
<1>5. PICK l : l = [id |-> q.rob[i].id, va |-> a, rob |-> i, fetched |-> FALSE]
  OBVIOUS
<1>6. l \in SqEntries /\ l.id = q.rob[i].id
  BY <1>0, <1>5 DEF RobEntries, SqEntries
<1>7. PICK R \in [RobSlots -> RobEntries] : R = [q.rob EXCEPT ![i] = e]
  BY <1>4 DEF Cores
<1>8. PICK S \in [SqSlots -> SqEntries] : S = [q.SQ EXCEPT ![q.sq_tail] = l]
  BY <1>6 DEF Cores
<1>9. \A j \in RobSlots : R[j] = IF j = i THEN e ELSE q.rob[j]
  BY <1>7 DEF Cores
<1>10. \A k \in SqSlots : S[k] = IF k = q.sq_tail THEN l ELSE q.SQ[k]
  BY <1>8 DEF Cores
<1>11. PICK n \in SqSlots : n = (q.sq_tail + 1) % SQ_SIZE
  BY <1>0, Sizes DEF SqSlots
<1>12. PICK Z \in Seq(Nat) : Z = Tail(q.STA)
  BY <1>0, TailTyped
<1>13. PICK Y \in SUBSET SqSlots : Y = q.RTS0 \cup {q.sq_tail}
  BY <1>0
<1>14. PICK t : t = add_store_queue(q, i, a)
  OBVIOUS
<1>15. t = [q EXCEPT !.rob = R, !.SQ = S, !.sq_tail = n, !.STA = Z, !.RTS0 = Y]
  BY <1>1, <1>2, <1>5, <1>7, <1>8, <1>11, <1>12, <1>13, <1>14 DEF add_store_queue, Cores, RobEntries
<1>16. t \in Cores
  BY <1>15 DEF Cores
<1>17. /\ t.rob = R /\ t.LQ = q.LQ /\ t.SQ = S /\ t.sq_tail = n /\ t.STA = Z
       /\ t.RTL0 = q.RTL0 /\ t.RTS0 = Y /\ t.inflight_mem = q.inflight_mem /\ t.performed = q.performed
  BY <1>15 DEF Cores
<1>18. KeepsIssue(q, t)
  BY <1>4, <1>9, <1>17 DEF KeepsIssue
<1>19. \A k \in SqSlots : t.SQ[k].id = IF k = q.sq_tail THEN q.rob[i].id ELSE q.SQ[k].id
  BY <1>6, <1>10, <1>17
<1>20. \A j \in RobSlots, b \in Addresses :
         t.rob[j].sq_index[b] = IF j = i /\ b = a THEN q.sq_tail ELSE q.rob[j].sq_index[b]
  BY <1>3, <1>4, <1>9, <1>17
<1>21. \A k \in SqSlots : AskedBy(q, q.SQ[k].id, t.SQ[k].id)
  BY <1>19 DEF AskedBy
<1>22. \A s \in LqSlots : AskedBy(q, q.LQ[s].id, t.LQ[s].id)
  BY <1>17 DEF AskedBy
<1>23. Advances(q, t)
  <2>1. AddsDependents(q, t)
    BY <1>4, <1>9, <1>17 DEF AddsDependents
  <2> QED
    BY <1>16, <1>18, <1>21, <1>22, <2>1, KeepsAdvances
<1>24. StoreAdded(q, t, i, a)
  <2>1. \A j \in RobSlots : /\ t.rob[j].ops = q.rob[j].ops /\ t.rob[j].lq_index = q.rob[j].lq_index
                            /\ t.rob[j].dependents = q.rob[j].dependents
    BY <1>4, <1>9, <1>17
  <2> QED
    BY <1>0, <1>5, <1>10, <1>11, <1>12, <1>13, <1>17, <1>20, <2>1 DEF StoreAdded
<1> QED
  BY <1>14, <1>18, <1>23, <1>24

(* A store that is tried *)
LEMMA TryStoreAdvances ==
  ASSUME NEW q \in Cores, NEW i \in RobSlots, Issued(q, i), NEW a \in Addresses
  PROVE  /\ Advances(q, TryStore(q, i, a)) /\ KeepsIssue(q, TryStore(q, i, a))
         /\ TryStore(q, i, a) = q \/ StoreAdded(q, TryStore(q, i, a), i, a)
<1>1. Quiet(q, q)
  BY DEF Quiet, KeepsIssue, KeepsStores, AddsDependents
<1>2. Advances(q, q) /\ KeepsIssue(q, q) /\ KeepsStores(q, q)
  BY <1>1, QuietAdvances DEF Quiet
<1> DEFINE Stays == \/ q.rob[i].sq_index[a] # None \/ FreeSq(q) = {}
                    \/ q.STA = <<>> \/ Head(q.STA) # q.rob[i].id
<1>3. CASE Stays
  <2>1. TryStore(q, i, a) = q
    BY <1>3 DEF TryStore
  <2> QED
    BY <1>2, <2>1
<1>4. CASE ~Stays
  <2>1. TryStore(q, i, a) = add_store_queue(q, i, a)
    BY <1>4 DEF TryStore
  <2> QED
    BY <1>4, <2>1, AddStoreAdvances
<1> QED
  BY <1>3, <1>4

(* A ROB entry moves on. *)
Moved(q, t, i, s, x, w) ==
  /\ t \in Cores /\ KeepsStores(q, t) /\ t.LQ = q.LQ /\ t.SQ = q.SQ
  /\ t.RTL0 = q.RTL0 /\ t.RTS0 = q.RTS0 /\ t.inflight_mem = q.inflight_mem /\ t.performed = q.performed
  /\ \A j \in RobSlots : /\ t.rob[j].id = q.rob[j].id /\ t.rob[j].dependents = q.rob[j].dependents
                         /\ t.rob[j].ops = q.rob[j].ops /\ t.rob[j].lq_index = q.rob[j].lq_index
  /\ \A j \in RobSlots \ {i} :
       /\ t.rob[j].waits = q.rob[j].waits /\ t.rob[j].scheduled = q.rob[j].scheduled
       /\ t.rob[j].executed = q.rob[j].executed
  /\ t.rob[i].scheduled = s /\ t.rob[i].executed = x /\ t.rob[i].waits = w

LEMMA EntryMoves ==
  ASSUME NEW q \in Cores, NEW i \in RobSlots, NEW s \in Stages, NEW x \in Stages,
         NEW w \in SUBSET (RobSlots \X Registers),
         NEW t, t = [q EXCEPT !.rob[i] = [q.rob[i] EXCEPT !.scheduled = s, !.executed = x, !.waits = w]]
  PROVE  Moved(q, t, i, s, x, w)
<1>1. PICK e : e = [q.rob[i] EXCEPT !.scheduled = s, !.executed = x, !.waits = w]
  OBVIOUS
<1>2. q.rob[i] \in RobEntries
  BY DEF Cores
<1>3. /\ e \in RobEntries /\ e.id = q.rob[i].id /\ e.sq_index = q.rob[i].sq_index
      /\ e.scheduled = s /\ e.executed = x /\ e.waits = w /\ e.dependents = q.rob[i].dependents
      /\ e.ops = q.rob[i].ops /\ e.lq_index = q.rob[i].lq_index
  BY <1>1, <1>2 DEF RobEntries
<1>4. PICK R \in [RobSlots -> RobEntries] : R = [q.rob EXCEPT ![i] = e]
  BY <1>3 DEF Cores
<1>5. \A j \in RobSlots : R[j] = IF j = i THEN e ELSE q.rob[j]
  BY <1>4 DEF Cores
<1>6. t = [q EXCEPT !.rob = R]
  BY <1>1, <1>4 DEF Cores
<1>7. t \in Cores
  BY <1>6 DEF Cores
<1>8. /\ t.rob = R /\ t.LQ = q.LQ /\ t.SQ = q.SQ /\ t.sq_tail = q.sq_tail /\ t.STA = q.STA
      /\ t.RTL0 = q.RTL0 /\ t.RTS0 = q.RTS0 /\ t.inflight_mem = q.inflight_mem /\ t.performed = q.performed
  BY <1>6 DEF Cores
<1>9. KeepsStores(q, t)
  BY <1>3, <1>5, <1>8 DEF KeepsStores
<1> QED
  BY <1>3, <1>5, <1>7, <1>8, <1>9 DEF Moved

(* Every store of the entry is in the store queue. *)
StoresIn(o, i) == \A a \in Instr(o, i).stores : o.rob[i].sq_index[a] # None

LEMMA ScheduledAdvances ==
  ASSUME NEW q \in Cores, NEW i \in RobSlots, Issued(q, i)
  PROVE  /\ Advances(q, Scheduled(q, i)) /\ KeepsStores(q, Scheduled(q, i))
         /\ \A j \in RobSlots : \/ Scheduled(q, i).rob[j].executed = q.rob[j].executed
                                \/ StoresIn(q, j)
<1>1. Quiet(q, q)
  BY DEF Quiet, KeepsIssue, KeepsStores, AddsDependents
<1>2. CASE ~AllAdded(q, i)
  <2>1. Scheduled(q, i) = q
    BY <1>2 DEF Scheduled
  <2> QED
    BY <1>1, <2>1, QuietAdvances DEF Quiet
<1>3. CASE AllAdded(q, i)
  <2>1. StoresIn(q, i)
    BY <1>3 DEF AllAdded, StoresIn
  <2>2. PICK x : x = IF q.rob[i].executed = "no" THEN "INFLIGHT" ELSE q.rob[i].executed
    OBVIOUS
  <2>3. q.rob[i] \in RobEntries
    BY DEF Cores
  <2>4. x \in Stages /\ q.rob[i].waits \in SUBSET (RobSlots \X Registers)
    BY <2>2, <2>3 DEF RobEntries, Stages
  <2>5. PICK t : t = Scheduled(q, i)
    OBVIOUS
  <2>6. [q.rob[i] EXCEPT !.scheduled = "COMPLETED", !.executed = x]
          = [q.rob[i] EXCEPT !.scheduled = "COMPLETED", !.executed = x, !.waits = q.rob[i].waits]
    BY <2>3 DEF RobEntries
  <2>7. t = [q EXCEPT !.rob[i] = [q.rob[i] EXCEPT !.scheduled = "COMPLETED", !.executed = x]]
    BY <1>3, <2>2, <2>3, <2>5 DEF Scheduled, RobEntries
  <2>8. Moved(q, t, i, "COMPLETED", x, q.rob[i].waits)
    <3>1. "COMPLETED" \in Stages
      BY DEF Stages
    <3> QED
      BY <2>4, <2>6, <2>7, <3>1, EntryMoves
  <2>9. \A j \in RobSlots : t.rob[j].executed = q.rob[j].executed
                            \/ (j = i /\ q.rob[j].executed # "COMPLETED")
    BY <2>2, <2>8 DEF Moved
  <2>10. Advances(q, t)
    <3>1. \A j \in RobSlots : t.rob[j].id = q.rob[j].id /\ t.rob[j].waits = q.rob[j].waits
      BY <2>8 DEF Moved
    <3>2. \A j \in RobSlots : t.rob[j].scheduled = "no" <=> q.rob[j].scheduled = "no"
      BY <2>8 DEF Moved, Issued
    <3>3. \A j \in RobSlots : t.rob[j].executed = q.rob[j].executed
                              \/ (q.rob[j].executed # "COMPLETED" /\ Issued(q, j))
      BY <2>9
    <3>4. /\ \A s \in LqSlots : AskedBy(q, q.LQ[s].id, t.LQ[s].id)
          /\ \A k \in SqSlots : AskedBy(q, q.SQ[k].id, t.SQ[k].id)
      BY <2>8 DEF AskedBy, Moved
    <3> QED
      BY <2>8, <3>1, <3>2, <3>3, <3>4 DEF Advances, Moved, AddsDependents
  <2> QED
    BY <2>1, <2>5, <2>8, <2>9, <2>10 DEF Moved
<1> QED
  BY <1>2, <1>3

(* What a load or a store that is tried, and the end of do_memory_scheduling(), keep of the
   entries it visits, a pass keeps. *)
LEMMA MemoryPassStays ==
  ASSUME NEW I, NEW o \in I, NEW P, NEW scan \in Seq(RobSlots),
         \A q, t \in I : \A j \in RobSlots : t.rob[j].id = q.rob[j].id,
         \A q \in I, k \in P \cap DOMAIN scan :
           /\ \A a \in Instr(q, scan[k]).loads \cap Addresses : TryLoad(q, scan[k], a) \in I
           /\ \A a \in Instr(q, scan[k]).stores \cap Addresses : TryStore(q, scan[k], a) \in I
           /\ Scheduled(q, scan[k]) \in I
  PROVE  MemoryPass(o, scan, P) \in I
<1>1. ASSUME NEW q \in I, NEW k \in P \cap DOMAIN scan
      PROVE  do_memory_scheduling(q, scan[k]) \in I
  <2> DEFINE i == scan[k]
  <2>0. i \in RobSlots /\ \A x, y \in I : Instr(x, i) = Instr(y, i)
    BY DEF Instr
  <2>1. \A x \in I : /\ \A a \in Instr(x, i).loads \cap (1 .. LastAddress) : TryLoad(x, i, a) \in I
                     /\ \A a \in Instr(x, i).stores \cap (1 .. LastAddress) : TryStore(x, i, a) \in I
    BY DEF Addresses
  <2>2. \A x \in I : Scheduled(x, i) \in I
    OBVIOUS
  <2> HIDE DEF i
  <2>3. AddLoads(q, i) \in I
    <3>1. \A x \in I, a \in Instr(q, i).loads \cap (1 .. LastAddress) : TryLoad(x, i, a) \in I
      <4> SUFFICES ASSUME NEW x \in I, NEW a \in Instr(q, i).loads \cap (1 .. LastAddress)
                   PROVE  TryLoad(x, i, a) \in I
        OBVIOUS
      <4>1. Instr(q, i) = Instr(x, i)
        BY <2>0
      <4> QED
        BY <2>1, <4>1
    <3> QED
      BY <3>1, AddLoadsStays
  <2>4. \A x \in I : AddStores(x, i) \in I
    <3> TAKE x \in I
    <3>1. \A y \in I, a \in Instr(x, i).stores \cap (1 .. LastAddress) : TryStore(y, i, a) \in I
      <4> SUFFICES ASSUME NEW y \in I, NEW a \in Instr(x, i).stores \cap (1 .. LastAddress)
                   PROVE  TryStore(y, i, a) \in I
        OBVIOUS
      <4>1. Instr(x, i) = Instr(y, i)
        BY <2>0
      <4> QED
        BY <2>1, <4>1
    <3> QED
      BY <3>1, AddStoresStays
  <2>5. \A v : (CHOOSE r \in {AddStores(x, i) : x \in {v}} : TRUE) = AddStores(v, i)
    OBVIOUS
  <2>6. check_and_add_lsq(q, i) = AddStores(AddLoads(q, i), i)
    BY Zenon, <2>5 DEF check_and_add_lsq, With
  <2>7. \A v : (CHOOSE r \in {Scheduled(x, i) : x \in {v}} : TRUE) = Scheduled(v, i)
    OBVIOUS
  <2>8. do_memory_scheduling(q, i) = Scheduled(check_and_add_lsq(q, i), i)
    BY Zenon, <2>7 DEF do_memory_scheduling, With
  <2>9. do_memory_scheduling(q, i) \in I
    BY <2>2, <2>3, <2>4, <2>6, <2>8
  <2> QED
    BY <2>9 DEF i
<1> QED
  BY <1>1, PassStays

-------------------------------------------------------------------------------
(* Every step keeps the order of issue. *)

LEMMA OrderedPrime ==
  ASSUME Ordered(o3'), UNCHANGED <<program, head, tail, dispatched, retired>>
  PROVE  Ordered(o3)'
<1>1. RingOK(o3)'
  BY DEF Ordered, RingOK, RingSpan, Age
<1>2. IssueOK(o3)'
  BY DEF Ordered, IssueOK, Issued, NoOps
<1>3. WaitsOK(o3)'
  BY DEF Ordered, WaitsOK, LastWriter
<1> QED
  BY <1>1, <1>2, <1>3 DEF Ordered

LEMMA StepAdvances ==
  ASSUME RingTyped, Ordered(o3), Advances(o3, o3'),
         UNCHANGED <<program, head, tail, dispatched, retired>>
  PROVE  Ordered(o3)'
<1>1. PICK q : q = o3
  OBVIOUS
<1>2. PICK t : t = o3'
  OBVIOUS
<1>3. Ordered(q) /\ Advances(q, t)
  BY <1>1, <1>2
<1>4. Ordered(t)
  BY <1>3, AdvancesKeepsOrder
<1> QED
  BY <1>2, <1>4, OrderedPrime

LEMMA ProgramIs ==
  ASSUME RingTyped
  PROVE  /\ Len(program) \in Nat /\ \A n \in 1 .. Len(program) : program[n] \in Instructions
BY ProgramAssumption DEF RingTyped

LEMMA LiveInstr ==
  ASSUME RingTyped, NEW o, RingOK(o), NEW i \in RobSlots, o.rob[i].id # 0
  PROVE  Instr(o, i) \in Instructions
<1>1. o.rob[i].id \in 0 .. Len(program)
  BY RingIds
<1>2. o.rob[i].id \in 1 .. Len(program)
  BY <1>1, ProgramIs
<1> QED
  BY <1>2, ProgramIs DEF Instr

LEMMA TailMoves ==
  ASSUME NEW n \in Nat \ {0}, NEW h \in 0 .. n - 1, NEW a \in 0 .. n - 1
  PROVE  (((h + a) % n) + 1) % n = (h + (a + 1)) % n
<1>1. a \in 0 .. n /\ 1 \in 0 .. n - a
  OBVIOUS
<1> QED
  BY Zenon, <1>1, PlaceMoves

(* The place behind the last entry is free only if the ring has room. *)
LEMMA TailIsFree ==
  ASSUME RingTyped, NEW o, RingOK(o), o.rob[tail].id = 0
  PROVE  dispatched - retired < ROB_SIZE /\ Age(tail) = dispatched - retired
<1>1. /\ head \in RobSlots /\ tail \in RobSlots /\ retired \in Nat /\ dispatched \in Nat
      /\ retired <= dispatched /\ dispatched - retired <= ROB_SIZE /\ ROB_SIZE \in Nat
  BY Sizes DEF RingTyped, RingOK, RingSpan
<1>2. Age(tail) \in 0 .. ROB_SIZE - 1
  BY <1>1, AgeFacts
<1>3. ~(Age(tail) < dispatched - retired)
  BY <1>1, <1>2 DEF RingOK
<1>4. dispatched - retired \in 0 .. ROB_SIZE - 1
  BY <1>1, <1>2, <1>3
<1>5. PICK a \in 0 .. ROB_SIZE - 1 : a = dispatched - retired
  BY <1>4
<1>6. tail = (head + a) % ROB_SIZE
  BY <1>5 DEF RingOK, RingSpan
<1>7. Age(tail) = a
  BY <1>1, <1>6, AgeFacts
<1> QED
  BY <1>1, <1>4, <1>5, <1>7

LEMMA NewRobIs ==
  ASSUME RingTyped, NEW n \in 1 .. Len(program)
  PROVE  /\ NewRob(n) \in RobEntries /\ NewRob(n).id = n /\ NewRob(n).scheduled = "no"
         /\ NewRob(n).executed = "no" /\ NewRob(n).waits = {}
         /\ NewRob(n).sq_index = [a \in Addresses |-> None] /\ NewRob(n).dependents = {}
         /\ NewRob(n).lq_index = [a \in Addresses |-> None]
         /\ NewRob(n).ops = Cardinality(program[n].loads) + Cardinality(program[n].stores)
<1>1. n \in Nat
  BY ProgramIs
<1>2. IsFiniteSet(Addresses)
  BY Sizes, FS_Interval DEF Addresses
<1>3. program[n].loads \subseteq Addresses /\ program[n].stores \subseteq Addresses
  BY ProgramIs DEF Instructions
<1>4. Cardinality(program[n].loads) \in Nat /\ Cardinality(program[n].stores) \in Nat
  BY <1>2, <1>3, FS_Subset, FS_CardinalityType
<1>5. PICK c \in Int : c = Cardinality(program[n].loads) + Cardinality(program[n].stores)
  BY <1>4
<1>6. NewRob(n) = [EmptyRob EXCEPT !.id = n, !.ops = c]
  BY <1>5 DEF NewRob
<1>7. /\ [a \in Addresses |-> None] \in [Addresses -> LqSlots \cup {None}]
      /\ [a \in Addresses |-> None] \in [Addresses -> SqSlots \cup {None}]
  OBVIOUS
<1> QED
  BY <1>1, <1>5, <1>6, <1>7 DEF EmptyRob, RobEntries, Stages

LEMMA EmptyRobIs ==
  /\ EmptyRob \in RobEntries /\ EmptyRob.id = 0 /\ EmptyRob.scheduled = "no"
  /\ EmptyRob.executed = "no" /\ EmptyRob.waits = {}
  /\ EmptyRob.sq_index = [a \in Addresses |-> None] /\ EmptyRob.dependents = {} /\ EmptyRob.ops = 0
<1>1. /\ [a \in Addresses |-> None] \in [Addresses -> LqSlots \cup {None}]
      /\ [a \in Addresses |-> None] \in [Addresses -> SqSlots \cup {None}]
  OBVIOUS
<1> QED
  BY <1>1 DEF EmptyRob, RobEntries, Stages

(* What Dispatch does to the core *)
Entered(q, t, n) ==
  /\ t \in Cores /\ t.LQ = q.LQ /\ t.SQ = q.SQ /\ t.sq_tail = q.sq_tail /\ t.STA = q.STA
  /\ t.RTL0 = q.RTL0 /\ t.RTS0 = q.RTS0 /\ t.inflight_mem = q.inflight_mem /\ t.performed = q.performed
  /\ \A j \in RobSlots : t.rob[j] = IF j = tail THEN NewRob(n) ELSE q.rob[j]

LEMMA DispatchShape ==
  ASSUME RingTyped, Ordered(o3), Dispatch
  PROVE  Entered(o3, o3', dispatched + 1) /\ dispatched + 1 \in 1 .. Len(program)
<1>1. dispatched + 1 \in 1 .. Len(program)
  BY ProgramIs DEF Dispatch, RingTyped
<1>2. PICK n \in 1 .. Len(program) : n = dispatched + 1
  BY <1>1
<1>3. PICK e \in RobEntries : e = NewRob(n)
  BY NewRobIs
<1>4. PICK q \in Cores : q = o3
  BY DEF Ordered
<1>5. PICK t : t = o3'
  OBVIOUS
<1>6. PICK R \in [RobSlots -> RobEntries] : R = [q.rob EXCEPT ![tail] = e]
  BY DEF Cores
<1>7. t = [q EXCEPT !.rob = R]
  BY <1>2, <1>3, <1>4, <1>5, <1>6 DEF Dispatch
<1>8. t \in Cores
  BY <1>7 DEF Cores
<1>9. /\ t.rob = R /\ t.LQ = q.LQ /\ t.SQ = q.SQ /\ t.sq_tail = q.sq_tail /\ t.STA = q.STA
      /\ t.RTL0 = q.RTL0 /\ t.RTS0 = q.RTS0 /\ t.inflight_mem = q.inflight_mem /\ t.performed = q.performed
  BY <1>7 DEF Cores
<1>10. \A j \in RobSlots : R[j] = IF j = tail THEN e ELSE q.rob[j]
  BY <1>6 DEF Cores
<1>11. Entered(q, t, n)
  BY <1>3, <1>8, <1>9, <1>10 DEF Entered
<1> QED
  BY <1>1, <1>2, <1>4, <1>5, <1>11

LEMMA DispatchOrders ==
  ASSUME RingTyped, Ordered(o3), Dispatch
  PROVE  Ordered(o3)' /\ RingTyped'
<1>1. PICK q : q = o3
  OBVIOUS
<1>2. PICK t : t = o3'
  OBVIOUS
<1>3. PICK n \in 1 .. Len(program) : n = dispatched + 1
  BY DispatchShape
<1>4. Entered(q, t, n)
  BY <1>1, <1>2, <1>3, DispatchShape
<1>5. /\ program' = program /\ head' = head /\ retired' = retired /\ next_schedule' = next_schedule
      /\ dispatched' = n /\ tail' = (tail + 1) % ROB_SIZE /\ q.rob[tail].id = 0
      /\ inflight_reg' = inflight_reg /\ sq_head' = sq_head
      /\ RTS1' = RTS1 /\ RTL1' = RTL1 /\ DTLB' = DTLB /\ L1D' = L1D
  BY <1>1, <1>3 DEF Dispatch, requests
<1>6. /\ NewRob(n).id = n /\ NewRob(n).scheduled = "no" /\ NewRob(n).dependents = {}
      /\ NewRob(n).executed = "no" /\ NewRob(n).waits = {}
  BY NewRobIs
<1>7. /\ head \in RobSlots /\ tail \in RobSlots /\ retired \in Nat /\ dispatched \in Nat
      /\ ROB_SIZE \in Nat \ {0} /\ Len(program) \in Nat
  BY Sizes, ProgramIs DEF RingTyped
<1>8. Ordered(q) /\ RingOK(q) /\ RingSpan
  BY <1>1 DEF Ordered, RingOK
<1>9. dispatched - retired < ROB_SIZE /\ Age(tail) = dispatched - retired /\ retired <= dispatched
  BY <1>5, <1>8, TailIsFree DEF RingSpan
<1>10. \A j \in RobSlots : t.rob[j] = IF j = tail THEN NewRob(n) ELSE q.rob[j]
  BY <1>4 DEF Entered
<1>11. tail' = (head + (n - retired)) % ROB_SIZE
  <2>1. PICK a \in 0 .. ROB_SIZE - 1 : a = dispatched - retired
    BY <1>7, <1>9
  <2>2. (((head + a) % ROB_SIZE) + 1) % ROB_SIZE = (head + (a + 1)) % ROB_SIZE
    BY <1>7, TailMoves DEF RobSlots
  <2>3. a + 1 = n - retired
    BY <1>3, <1>7, <2>1
  <2>4. tail = (head + a) % ROB_SIZE
    BY <1>8, <2>1 DEF RingSpan
  <2> QED
    BY <1>5, <2>2, <2>3, <2>4
<1>12. \A i \in RobSlots : t.rob[i].id = IF Age(i) < n - retired THEN retired + 1 + Age(i) ELSE 0
  <2> TAKE i \in RobSlots
  <2>1. Age(i) \in 0 .. ROB_SIZE - 1 /\ (Age(i) = Age(tail) => i = tail)
    BY <1>7, AgeFacts
  <2>2. q.rob[i].id = IF Age(i) < dispatched - retired THEN retired + 1 + Age(i) ELSE 0
    BY <1>8 DEF RingOK
  <2>3. t.rob[i].id = IF i = tail THEN n ELSE q.rob[i].id
    BY <1>6, <1>10
  <2> QED
    BY <1>3, <1>7, <1>9, <2>1, <2>2, <2>3
<1>13. \A i \in RobSlots : Age(i)' = Age(i)
  BY <1>5 DEF Age
<1>14. RingOK(o3)'
  BY <1>2, <1>3, <1>5, <1>7, <1>9, <1>11, <1>12, <1>13 DEF RingOK, RingSpan
<1>15. \A i \in RobSlots : q.rob[i].id \in 0 .. dispatched
  <2>1. \A i \in RobSlots : q.rob[i].id # 0 => q.rob[i].id \in retired + 1 .. dispatched
    BY <1>8, RingIds
  <2> QED
    BY <1>7, <2>1
<1>16. t.LQ = q.LQ /\ t.SQ = q.SQ /\ t \in Cores
  BY <1>4 DEF Entered
<1>17. /\ \A s \in LqSlots : q.LQ[s].id \in Nat /\ q.LQ[s].id <= dispatched
       /\ \A k \in SqSlots : q.SQ[k].id \in Nat /\ q.SQ[k].id <= dispatched
  BY <1>8 DEF Ordered, IssueOK, Cores, LqEntries, SqEntries
<1>18. IssueOK(o3)'
  <2>1. \A i \in RobSlots : /\ t.rob[i].id = 0 => t.rob[i].scheduled = "no"
                            /\ t.rob[i].scheduled = "no" => t.rob[i].executed = "no"
                            /\ t.rob[i].waits # {} => t.rob[i].executed = "no"
    BY <1>6, <1>8, <1>10 DEF Ordered, IssueOK
  <2>0. ASSUME NEW i \in RobSlots
        PROVE  /\ t.rob[i].id = 0 => t.rob[i].dependents = {}
               /\ \A d \in t.rob[i].dependents : t.rob[i].id < t.rob[d].id
    <3>1. CASE i = tail
      BY <1>3, <1>6, <1>10, <3>1
    <3>2. CASE i # tail
      <4>1. t.rob[i] = q.rob[i]
        BY <1>10, <3>2
      <4>2. \A d \in q.rob[i].dependents : d \in RobSlots /\ q.rob[i].id < q.rob[d].id
        BY <1>8 DEF Ordered, IssueOK, Cores, RobEntries
      <4>3. \A d \in q.rob[i].dependents : d # tail
        BY <1>5, <1>15, <4>2
      <4> QED
        BY <1>8, <1>10, <4>1, <4>2, <4>3 DEF Ordered, IssueOK
    <3> QED
      BY <3>1, <3>2
  <2>2. NoOps(t, n)
    BY <1>3, <1>7, <1>16, <1>17 DEF NoOps
  <2>3. ASSUME NEW i \in RobSlots, i # tail, t.rob[i].id # 0, ~Issued(t, i)
        PROVE  NoOps(t, t.rob[i].id)
    <3>1. t.rob[i] = q.rob[i]
      BY <1>10, <2>3
    <3>2. NoOps(q, q.rob[i].id)
      BY <1>8, <2>3, <3>1 DEF Ordered, IssueOK, Issued
    <3> QED
      BY <1>16, <3>1, <3>2 DEF NoOps
  <2>4. \A i \in RobSlots : t.rob[i].id # 0 /\ ~Issued(t, i) => NoOps(t, t.rob[i].id)
    BY <1>6, <1>10, <2>2, <2>3
  <2>5. /\ \A s \in LqSlots : t.LQ[s].id <= n
        /\ \A k \in SqSlots : t.SQ[k].id <= n
    BY <1>3, <1>7, <1>16, <1>17
  <2> QED
    BY <1>2, <1>5, <2>0, <2>1, <2>4, <2>5 DEF IssueOK, Issued, NoOps
<1>19. WaitsOK(t)
  <2> SUFFICES ASSUME NEW i \in RobSlots, NEW j \in RobSlots, NEW r \in Registers,
                      t.rob[i].id # 0, t.rob[j].id # 0, LastWriter(t, i, j, r),
                      t.rob[i].scheduled # "no", t.rob[j].executed # "COMPLETED"
               PROVE  <<j, r>> \in t.rob[i].waits
    BY DEF WaitsOK
  <2>1. i # tail
    BY <1>6, <1>10
  <2>2. t.rob[i] = q.rob[i]
    BY <1>10, <2>1
  <2>3. j # tail
    <3>1. t.rob[j].id < q.rob[i].id
      BY <2>2 DEF LastWriter
    <3> QED
      BY <1>3, <1>6, <1>7, <1>10, <1>15, <3>1
  <2>4. t.rob[j] = q.rob[j]
    BY <1>10, <2>3
  <2>5. LastWriter(q, i, j, r)
    BY <2>2, <2>4 DEF LastWriter
  <2> QED
    BY <1>8, <2>2, <2>4, <2>5 DEF Ordered, WaitsOK
<1>20. WaitsOK(o3)'
  BY <1>2, <1>5, <1>19 DEF WaitsOK, LastWriter
<1>21. tail' \in RobSlots
  BY <1>5, <1>7 DEF RobSlots
<1>22. RingTyped'
  BY <1>3, <1>5, <1>7, <1>21 DEF RingTyped
<1> QED
  BY <1>2, <1>14, <1>16, <1>18, <1>20, <1>22 DEF Ordered

LEMMA ScanIs ==
  ASSUME head \in RobSlots, NEW limit \in RobSlots
  PROVE  ScanTo(limit) \in Seq(RobSlots)
<1>1. ROB_SIZE \in Nat \ {0} /\ head \in 0 .. ROB_SIZE - 1 /\ limit \in 0 .. ROB_SIZE - 1
  BY Sizes DEF RobSlots
<1>2. CASE head < limit
  <2>1. limit - head \in Nat /\ \A k \in 1 .. limit - head : head + k - 1 \in RobSlots
    BY <1>1, <1>2 DEF RobSlots
  <2>2. [k \in 1 .. limit - head |-> head + k - 1] \in Seq(RobSlots)
    BY <2>1
  <2> QED
    BY <1>2, <2>2 DEF ScanTo
<1>3. CASE ~(head < limit)
  <2>1. ROB_SIZE - head + limit \in Nat
    BY <1>1
  <2>2. \A k \in 1 .. ROB_SIZE - head + limit : (head + k - 1) % ROB_SIZE \in RobSlots
    BY <1>1 DEF RobSlots
  <2>3. [k \in 1 .. ROB_SIZE - head + limit |-> (head + k - 1) % ROB_SIZE] \in Seq(RobSlots)
    BY <2>1, <2>2
  <2> QED
    BY <1>3, <2>3 DEF ScanTo
<1> QED
  BY <1>2, <1>3

(* What reg_dependency() gives an entry is typed, and names the last writer of a source unless
   that is done. *)
LEMMA DependencyIsLastWriter ==
  ASSUME RingTyped, NEW o, Ordered(o), NEW i \in RobSlots, o.rob[i].id # 0
  PROVE  /\ reg_dependency(o, i) \in SUBSET (RobSlots \X Registers)
         /\ \A j \in RobSlots, r \in Registers :
              o.rob[j].id # 0 /\ LastWriter(o, i, j, r) /\ o.rob[j].executed # "COMPLETED"
              => <<j, r>> \in reg_dependency(o, i)
<1> DEFINE W(r) == {j \in Older(i) : r \in Instr(o, j).writes /\ o.rob[j].executed # "COMPLETED"}
<1>1. reg_dependency(o, i) = {<<Nearest(W(r)), r>> : r \in {x \in Instr(o, i).reads : W(x) # {}}}
  BY DEF reg_dependency
<1>2. RingOK(o) /\ head \in RobSlots
  BY DEF Ordered, RingTyped
<1>3. Instr(o, i).reads \subseteq Registers
  BY <1>2, LiveInstr DEF Instructions
<1>4. \A r : W(r) \in SUBSET RobSlots
  BY DEF Older
<1>5. \A r : \A j \in W(r) : /\ j \in Older(i) /\ r \in Instr(o, j).writes
  OBVIOUS
<1>6. \A r : \A j \in Older(i) : r \in Instr(o, j).writes /\ o.rob[j].executed # "COMPLETED" => j \in W(r)
  OBVIOUS
<1> HIDE DEF W
<1>7. \A r : W(r) # {} => Nearest(W(r)) \in W(r) /\ \A j \in W(r) : Age(j) <= Age(Nearest(W(r)))
  BY <1>2, <1>4, NearestIs
<1>8. reg_dependency(o, i) \in SUBSET (RobSlots \X Registers)
  BY <1>1, <1>3, <1>4, <1>7
<1>9. ASSUME NEW j \in RobSlots, NEW r \in Registers, o.rob[j].id # 0, LastWriter(o, i, j, r),
             o.rob[j].executed # "COMPLETED"
      PROVE  <<j, r>> \in reg_dependency(o, i)
  <2>1. j \in Older(i)
    BY <1>2, <1>9, RingIds DEF LastWriter
  <2>2. r \in Instr(o, j).writes /\ r \in Instr(o, i).reads
    BY <1>9 DEF LastWriter, Instr
  <2>3. j \in W(r)
    BY <1>6, <1>9, <2>1, <2>2
  <2>4. PICK k \in W(r) : k = Nearest(W(r)) /\ Age(j) <= Age(k)
    BY <1>7, <2>3
  <2>5. k \in RobSlots /\ k \in Older(i) /\ r \in program[o.rob[k].id].writes
    BY <1>4, <1>5 DEF Instr
  <2>6. /\ o.rob[k].id # 0 /\ o.rob[k].id < o.rob[i].id
        /\ \A x \in RobSlots : o.rob[x].id \in 0 .. Len(program)
    BY <1>2, <1>9, <2>5, RingIds
  <2>7. ~(o.rob[k].id < o.rob[j].id)
    <3>1. o.rob[k].id < o.rob[j].id => k \in Older(j)
      BY <1>2, <1>9, <2>5, <2>6, RingIds
    <3>2. k \in Older(j) => Age(k) < Age(j)
      BY DEF Older
    <3>3. Age(k) \in 0 .. ROB_SIZE - 1 /\ Age(j) \in 0 .. ROB_SIZE - 1
      BY <1>2, <2>5, AgeFacts
    <3> QED
      BY <2>4, <3>1, <3>2, <3>3, Sizes
  <2>8. ~(o.rob[j].id < o.rob[k].id)
    <3>1. o.rob[j].id < o.rob[k].id => o.rob[k].id \in o.rob[j].id + 1 .. o.rob[i].id - 1
      BY <2>5, <2>6, ProgramIs
    <3> QED
      BY <1>9, <2>5, <3>1 DEF LastWriter
  <2>9. o.rob[j].id = o.rob[k].id
    BY <2>5, <2>6, <2>7, <2>8, ProgramIs
  <2>10. j = k
    BY <1>2, <1>9, <2>5, <2>9, RingIds
  <2> QED
    BY <1>1, <2>2, <2>4, <2>10
<1> QED
  BY <1>8, <1>9

LEMMA ScheduleShape ==
  ASSUME RingTyped, Ordered(o3), Schedule
  PROVE  \E i \in RobSlots, s \in Stages \ {"no"} :
           /\ o3.rob[i].id # 0 /\ o3.rob[i].scheduled = "no"
           /\ Moved(o3, o3', i, s, o3.rob[i].executed, reg_dependency(o3, i))
           /\ next_schedule' \in RobSlots
<1>1. ScanTo(0) \in Seq(RobSlots)
  BY ScanIs, SlotFacts DEF RingTyped
<1>2. PICK k \in DOMAIN ScanTo(0) :
        /\ o3.rob[ScanTo(0)[k]].scheduled = "no" /\ do_scheduling(ScanTo(0)[k])
        /\ \A m \in 1 .. k : o3.rob[ScanTo(0)[m]].id # 0
  BY DEF Schedule
<1>3. k \in 1 .. k /\ ScanTo(0)[k] \in RobSlots
  BY <1>1
<1>4. PICK i \in RobSlots : i = ScanTo(0)[k]
  BY <1>3
<1>5. o3.rob[i].id # 0 /\ o3.rob[i].scheduled = "no" /\ do_scheduling(i)
  BY <1>2, <1>3, <1>4
<1>6. PICK q \in Cores : q = o3
  BY DEF Ordered
<1>7. PICK t : t = o3'
  OBVIOUS
<1>8. PICK s \in Stages \ {"no"} : s = IF Memory(o3.rob[i].id) THEN "INFLIGHT" ELSE "COMPLETED"
  BY DEF Stages
<1>9. PICK w \in SUBSET (RobSlots \X Registers) : w = reg_dependency(o3, i)
  BY <1>5, DependencyIsLastWriter
<1>10. PICK x \in Stages : x = q.rob[i].executed
  BY DEF Cores, RobEntries
<1>11. t = [q EXCEPT !.rob[i] = [q.rob[i] EXCEPT !.waits = w, !.scheduled = s]]
  BY <1>5, <1>6, <1>7, <1>8, <1>9 DEF do_scheduling
<1>12. [q.rob[i] EXCEPT !.waits = w, !.scheduled = s]
         = [q.rob[i] EXCEPT !.scheduled = s, !.executed = x, !.waits = w]
  BY <1>10 DEF Cores, RobEntries
<1>13. Moved(q, t, i, s, x, w)
  BY <1>11, <1>12, EntryMoves
<1>14. next_schedule' \in RobSlots
  BY <1>5, Sizes DEF do_scheduling, RobSlots
<1> QED
  BY <1>5, <1>6, <1>7, <1>9, <1>10, <1>13, <1>14

LEMMA ScheduleOrders ==
  ASSUME RingTyped, Ordered(o3), Schedule
  PROVE  Ordered(o3)' /\ RingTyped'
<1>1. PICK i \in RobSlots, s \in Stages \ {"no"} :
        /\ o3.rob[i].id # 0 /\ o3.rob[i].scheduled = "no"
        /\ Moved(o3, o3', i, s, o3.rob[i].executed, reg_dependency(o3, i))
        /\ next_schedule' \in RobSlots
  BY ScheduleShape
<1>2. PICK q : q = o3
  OBVIOUS
<1>3. PICK t : t = o3'
  OBVIOUS
<1>4. /\ q.rob[i].id # 0 /\ q.rob[i].scheduled = "no" /\ Ordered(q)
      /\ Moved(q, t, i, s, q.rob[i].executed, reg_dependency(q, i))
  BY <1>1, <1>2, <1>3
<1>5. t \in Cores /\ t.LQ = q.LQ /\ t.SQ = q.SQ /\ \A j \in RobSlots : t.rob[j].id = q.rob[j].id
                                                          /\ t.rob[j].dependents = q.rob[j].dependents
  BY <1>4 DEF Moved
<1>6. /\ \A j \in RobSlots : t.rob[j].executed = q.rob[j].executed
      /\ \A j \in RobSlots \ {i} : t.rob[j].waits = q.rob[j].waits
                                   /\ t.rob[j].scheduled = q.rob[j].scheduled
      /\ t.rob[i].waits = reg_dependency(q, i) /\ t.rob[i].scheduled = s
  BY <1>4 DEF Moved
<1>7. RingOK(t)
  BY <1>4, <1>5 DEF Ordered, RingOK
<1>8. IssueOK(t)
  <2>1. q.rob[i].executed = "no" /\ ~Issued(q, i)
    BY <1>4 DEF Ordered, IssueOK, Issued
  <2>2. \A j \in RobSlots :
          /\ t.rob[j].id = 0 => t.rob[j].scheduled = "no" /\ t.rob[j].dependents = {}
          /\ t.rob[j].scheduled = "no" => t.rob[j].executed = "no"
          /\ t.rob[j].waits # {} => t.rob[j].executed = "no"
    BY <1>4, <1>5, <1>6, <2>1 DEF Ordered, IssueOK
  <2>3. \A j \in RobSlots : t.rob[j].id # 0 /\ ~Issued(t, j) => NoOps(t, t.rob[j].id)
    BY <1>4, <1>5, <1>6, <2>1 DEF Ordered, IssueOK, NoOps, Issued
  <2>4. /\ \A x \in LqSlots : t.LQ[x].id <= dispatched
        /\ \A k \in SqSlots : t.SQ[k].id <= dispatched
    BY <1>4, <1>5 DEF Ordered, IssueOK
  <2>5. \A j \in RobSlots : \A d \in t.rob[j].dependents : t.rob[j].id < t.rob[d].id
    BY SMTT(30), <1>4, <1>5 DEF Ordered, IssueOK, Cores, RobEntries
  <2> QED
    BY <2>2, <2>3, <2>4, <2>5 DEF IssueOK
<1>9. WaitsOK(t)
  <2> SUFFICES ASSUME NEW x \in RobSlots, NEW j \in RobSlots, NEW r \in Registers,
                      t.rob[x].id # 0, t.rob[j].id # 0, LastWriter(t, x, j, r),
                      t.rob[x].scheduled # "no", t.rob[j].executed # "COMPLETED"
               PROVE  <<j, r>> \in t.rob[x].waits
    BY DEF WaitsOK
  <2>1. LastWriter(q, x, j, r) /\ q.rob[j].id # 0 /\ q.rob[j].executed # "COMPLETED"
    BY <1>5, <1>6 DEF LastWriter
  <2>2. CASE x = i
    BY <1>4, <1>6, <2>1, <2>2, DependencyIsLastWriter
  <2>3. CASE x # i
    BY <1>4, <1>5, <1>6, <2>1, <2>3 DEF Ordered, WaitsOK
  <2> QED
    BY <2>2, <2>3
<1>10. Ordered(o3')
  BY <1>3, <1>5, <1>7, <1>8, <1>9 DEF Ordered
<1>11. /\ program' = program /\ head' = head /\ tail' = tail /\ retired' = retired
       /\ dispatched' = dispatched /\ inflight_reg' = inflight_reg /\ sq_head' = sq_head
       /\ RTS1' = RTS1 /\ RTL1' = RTL1 /\ DTLB' = DTLB /\ L1D' = L1D
  BY DEF Schedule, requests
<1>12. Ordered(o3)'
  BY <1>10, <1>11, OrderedPrime
<1> QED
  BY <1>1, <1>11, <1>12 DEF RingTyped

LEMMA ExecuteShape ==
  ASSUME RingTyped, Ordered(o3), Execute
  PROVE  \E i \in RobSlots : /\ o3.rob[i].id # 0 /\ Issued(o3, i) /\ ~Memory(o3.rob[i].id)
                             /\ o3.rob[i].executed = "no"
                             /\ Moved(o3, o3', i, o3.rob[i].scheduled, "INFLIGHT", {})
<1>1. PICK i \in RobSlots :
        /\ o3.rob[i].id # 0 /\ ~Memory(o3.rob[i].id) /\ o3.rob[i].scheduled = "COMPLETED"
        /\ o3.rob[i].waits = {} /\ o3.rob[i].executed = "no"
        /\ o3' = [o3 EXCEPT !.rob[i].executed = "INFLIGHT"]
  BY DEF Execute, ReadyToExecute, Live
<1>2. PICK q \in Cores : q = o3
  BY DEF Ordered
<1>3. PICK t : t = o3'
  OBVIOUS
<1>4. PICK s \in Stages : s = q.rob[i].scheduled
  BY DEF Cores, RobEntries
<1>5. PICK w \in SUBSET (RobSlots \X Registers) : w = q.rob[i].waits
  BY DEF Cores, RobEntries
<1>6. PICK x \in Stages : x = "INFLIGHT"
  BY DEF Stages
<1>7. t = [q EXCEPT !.rob[i] = [q.rob[i] EXCEPT !.executed = x]]
  BY <1>1, <1>2, <1>3, <1>6
<1>8. [q.rob[i] EXCEPT !.executed = x] = [q.rob[i] EXCEPT !.scheduled = s, !.executed = x, !.waits = w]
  BY <1>4, <1>5 DEF Cores, RobEntries
<1>9. Moved(q, t, i, s, x, w)
  BY <1>7, <1>8, EntryMoves
<1> QED
  BY <1>1, <1>2, <1>3, <1>4, <1>5, <1>6, <1>9 DEF Issued

LEMMA ExecuteOrders ==
  ASSUME RingTyped, Ordered(o3), Execute
  PROVE  Ordered(o3)' /\ RingTyped'
<1>1. PICK i \in RobSlots : /\ o3.rob[i].id # 0 /\ Issued(o3, i) /\ ~Memory(o3.rob[i].id)
                            /\ o3.rob[i].executed = "no"
                            /\ Moved(o3, o3', i, o3.rob[i].scheduled, "INFLIGHT", {})
  BY ExecuteShape
<1>2. PICK q : q = o3
  OBVIOUS
<1>3. PICK t : t = o3'
  OBVIOUS
<1>4. /\ Issued(q, i) /\ q.rob[i].executed = "no"
      /\ Moved(q, t, i, q.rob[i].scheduled, "INFLIGHT", {})
  BY <1>1, <1>2, <1>3
<1>5. Advances(q, t)
  <2>1. \A j \in RobSlots : /\ t.rob[j].id = q.rob[j].id /\ t.rob[j].waits = q.rob[j].waits
                            /\ t.rob[j].scheduled = q.rob[j].scheduled
                            /\ t.rob[j].dependents = q.rob[j].dependents
    BY <1>4 DEF Moved, Issued
  <2>2. \A j \in RobSlots : t.rob[j].executed = q.rob[j].executed
                            \/ (q.rob[j].executed # "COMPLETED" /\ Issued(q, j))
    BY <1>4 DEF Moved
  <2>3. t \in Cores /\ t.LQ = q.LQ /\ t.SQ = q.SQ
    BY <1>4 DEF Moved
  <2> QED
    BY <2>1, <2>2, <2>3 DEF Advances, AskedBy, AddsDependents
<1>6. /\ program' = program /\ head' = head /\ tail' = tail /\ retired' = retired
      /\ dispatched' = dispatched /\ next_schedule' = next_schedule /\ sq_head' = sq_head
      /\ RTS1' = RTS1 /\ RTL1' = RTL1 /\ DTLB' = DTLB /\ L1D' = L1D
      /\ inflight_reg' = inflight_reg + 1
  BY DEF Execute, requests, ring
<1>7. Ordered(o3)'
  BY <1>2, <1>3, <1>5, <1>6, StepAdvances
<1>8. inflight_reg' \in Int
  BY <1>6 DEF RingTyped
<1> QED
  BY <1>6, <1>7, <1>8 DEF RingTyped

(* What Complete does to the core *)
Completed(q, t, i) ==
  /\ t \in Cores /\ KeepsStores(q, t) /\ t.LQ = q.LQ /\ t.SQ = q.SQ
  /\ \A j \in RobSlots :
       /\ t.rob[j].id = q.rob[j].id /\ t.rob[j].scheduled = q.rob[j].scheduled
       /\ t.rob[j].waits = {w \in q.rob[j].waits : w[1] # i}
       /\ t.rob[j].executed = IF j = i THEN "COMPLETED" ELSE q.rob[j].executed
       /\ t.rob[j].dependents = q.rob[j].dependents
       /\ t.rob[j].ops = q.rob[j].ops /\ t.rob[j].lq_index = q.rob[j].lq_index
  /\ q.rob[i].ops = 0 /\ t.RTL0 = q.RTL0 /\ t.RTS0 = q.RTS0 /\ t.performed = q.performed
  /\ t.inflight_mem = q.inflight_mem - (IF Memory(q.rob[i].id) THEN 1 ELSE 0)

LEMMA CompleteShape ==
  ASSUME RingTyped, Ordered(o3), Complete
  PROVE  /\ \E i \in RobSlots :
              /\ o3.rob[i].id # 0 /\ o3.rob[i].executed = "INFLIGHT" /\ Completed(o3, o3', i)
              /\ inflight_reg' = inflight_reg - (IF Memory(o3.rob[i].id) THEN 0 ELSE 1)
         /\ inflight_reg' \in Int
<1>1. PICK i \in RobSlots :
        /\ o3.rob[i].id # 0 /\ o3.rob[i].executed = "INFLIGHT" /\ o3.rob[i].ops = 0
        /\ o3' = [o3 EXCEPT !.rob = reg_RAW_release([o3.rob EXCEPT ![i].executed = "COMPLETED"], i),
                            !.inflight_mem = @ - (IF Memory(o3.rob[i].id) THEN 1 ELSE 0)]
        /\ inflight_reg' = inflight_reg - (IF Memory(o3.rob[i].id) THEN 0 ELSE 1)
  BY DEF Complete, Live
<1>2. PICK q \in Cores : q = o3
  BY DEF Ordered
<1>3. PICK t : t = o3'
  OBVIOUS
<1>4. PICK e : e = [q.rob[i] EXCEPT !.executed = "COMPLETED"]
  OBVIOUS
<1>5. /\ e \in RobEntries /\ e.id = q.rob[i].id /\ e.scheduled = q.rob[i].scheduled
      /\ e.waits = q.rob[i].waits /\ e.executed = "COMPLETED" /\ e.sq_index = q.rob[i].sq_index
      /\ e.dependents = q.rob[i].dependents /\ e.ops = q.rob[i].ops /\ e.lq_index = q.rob[i].lq_index
  <2>1. PICK c \in RobEntries : c = q.rob[i]
    BY DEF Cores
  <2>2. PICK x \in Stages : x = "COMPLETED"
    BY DEF Stages
  <2>3. e = [c EXCEPT !.executed = x]
    BY <1>4, <2>1, <2>2
  <2>4. /\ e \in RobEntries /\ e.id = c.id /\ e.scheduled = c.scheduled
        /\ e.waits = c.waits /\ e.executed = x /\ e.sq_index = c.sq_index
        /\ e.dependents = c.dependents /\ e.ops = c.ops /\ e.lq_index = c.lq_index
    BY <2>3 DEF RobEntries
  <2> QED
    BY <2>1, <2>2, <2>4
<1>6. PICK D \in [RobSlots -> RobEntries] : D = [q.rob EXCEPT ![i].executed = "COMPLETED"]
  BY <1>4, <1>5 DEF Cores
<1>7. \A j \in RobSlots : D[j] = IF j = i THEN e ELSE q.rob[j]
  BY <1>4, <1>6 DEF Cores
<1>8. PICK R : R = reg_RAW_release(D, i)
  OBVIOUS
<1>9. \A j \in RobSlots :
        LET f == [D[j] EXCEPT !.waits = {w \in D[j].waits : w[1] # i}]
        IN /\ f \in RobEntries /\ f.id = D[j].id /\ f.scheduled = D[j].scheduled
           /\ f.waits = {w \in D[j].waits : w[1] # i} /\ f.executed = D[j].executed
           /\ f.sq_index = D[j].sq_index /\ f.dependents = D[j].dependents
           /\ f.ops = D[j].ops /\ f.lq_index = D[j].lq_index
  <2> TAKE j \in RobSlots
  <2>1. PICK v \in SUBSET (RobSlots \X Registers) : v = {w \in D[j].waits : w[1] # i}
    BY DEF RobEntries
  <2>2. PICK c \in RobEntries : c = D[j]
    OBVIOUS
  <2>3. LET f == [c EXCEPT !.waits = v]
        IN /\ f \in RobEntries /\ f.id = c.id /\ f.scheduled = c.scheduled
           /\ f.waits = v /\ f.executed = c.executed /\ f.sq_index = c.sq_index
           /\ f.dependents = c.dependents /\ f.ops = c.ops /\ f.lq_index = c.lq_index
    BY DEF RobEntries
  <2> QED
    BY <2>1, <2>2, <2>3
<1>10. /\ R \in [RobSlots -> RobEntries]
       /\ \A j \in RobSlots : /\ R[j].id = D[j].id /\ R[j].scheduled = D[j].scheduled
                              /\ R[j].waits = {w \in D[j].waits : w[1] # i}
                              /\ R[j].executed = D[j].executed /\ R[j].sq_index = D[j].sq_index
                              /\ R[j].dependents = D[j].dependents
                              /\ R[j].ops = D[j].ops /\ R[j].lq_index = D[j].lq_index
  BY <1>8, <1>9 DEF reg_RAW_release
<1>11. PICK m \in Int : m = q.inflight_mem - (IF Memory(o3.rob[i].id) THEN 1 ELSE 0)
  BY DEF Cores
<1>12. t = [q EXCEPT !.rob = R, !.inflight_mem = m]
  BY <1>1, <1>2, <1>3, <1>6, <1>8, <1>11
<1>13. t \in Cores
  BY <1>10, <1>12 DEF Cores
<1>14. /\ t.rob = R /\ t.LQ = q.LQ /\ t.SQ = q.SQ /\ t.sq_tail = q.sq_tail /\ t.STA = q.STA
       /\ t.RTL0 = q.RTL0 /\ t.RTS0 = q.RTS0 /\ t.inflight_mem = m /\ t.performed = q.performed
  BY <1>12 DEF Cores
<1>15. KeepsStores(q, t)
  BY <1>5, <1>7, <1>10, <1>14 DEF KeepsStores
<1>16. Completed(q, t, i)
  BY <1>1, <1>2, <1>5, <1>7, <1>10, <1>11, <1>13, <1>14, <1>15 DEF Completed
<1>17. inflight_reg' \in Int
  BY <1>1 DEF RingTyped
<1> QED
  BY <1>1, <1>2, <1>3, <1>16, <1>17

LEMMA CompleteOrders ==
  ASSUME RingTyped, Ordered(o3), Complete
  PROVE  Ordered(o3)' /\ RingTyped'
<1>1. PICK i \in RobSlots : o3.rob[i].id # 0 /\ o3.rob[i].executed = "INFLIGHT" /\ Completed(o3, o3', i)
  BY CompleteShape
<1>2. PICK q : q = o3
  OBVIOUS
<1>3. PICK t : t = o3'
  OBVIOUS
<1>4. q.rob[i].executed = "INFLIGHT" /\ Completed(q, t, i) /\ Ordered(q)
  BY <1>1, <1>2, <1>3
<1>5. /\ t \in Cores /\ t.LQ = q.LQ /\ t.SQ = q.SQ
      /\ \A j \in RobSlots :
           /\ t.rob[j].id = q.rob[j].id /\ t.rob[j].scheduled = q.rob[j].scheduled
           /\ t.rob[j].waits = {w \in q.rob[j].waits : w[1] # i}
           /\ t.rob[j].executed = IF j = i THEN "COMPLETED" ELSE q.rob[j].executed
           /\ t.rob[j].dependents = q.rob[j].dependents
  BY <1>4 DEF Completed
<1>6. RingOK(t)
  BY <1>4, <1>5 DEF Ordered, RingOK
<1>7. IssueOK(t)
  <2>1. \A j \in RobSlots : /\ t.rob[j].id = 0 => t.rob[j].scheduled = "no"
                            /\ t.rob[j].scheduled = "no" => t.rob[j].executed = "no"
    BY <1>4, <1>5 DEF Ordered, IssueOK
  <2>2. \A j \in RobSlots : t.rob[j].waits # {} => t.rob[j].executed = "no"
    BY <1>4, <1>5 DEF Ordered, IssueOK
  <2>3. \A j \in RobSlots : Issued(q, j) => Issued(t, j)
    BY <1>5 DEF Issued
  <2>4. \A j \in RobSlots : t.rob[j].id # 0 /\ ~Issued(t, j) => NoOps(t, t.rob[j].id)
    BY <1>4, <1>5, <2>3 DEF Ordered, IssueOK, NoOps
  <2>6. \A j \in RobSlots : /\ t.rob[j].id = 0 => t.rob[j].dependents = {}
                            /\ \A d \in t.rob[j].dependents : t.rob[j].id < t.rob[d].id
    <3> TAKE j \in RobSlots
    <3>1. q.rob[j].dependents \subseteq RobSlots
      BY <1>4 DEF Ordered, Cores, RobEntries
    <3> QED
      BY <1>4, <1>5, <3>1 DEF Ordered, IssueOK
  <2>5. /\ \A x \in LqSlots : t.LQ[x].id <= dispatched
        /\ \A k \in SqSlots : t.SQ[k].id <= dispatched
    BY <1>4, <1>5 DEF Ordered, IssueOK
  <2> QED
    BY <2>1, <2>2, <2>4, <2>5, <2>6 DEF IssueOK
<1>8. WaitsOK(t)
  <2> SUFFICES ASSUME NEW x \in RobSlots, NEW j \in RobSlots, NEW r \in Registers,
                      t.rob[x].id # 0, t.rob[j].id # 0, LastWriter(t, x, j, r),
                      t.rob[x].scheduled # "no", t.rob[j].executed # "COMPLETED"
               PROVE  <<j, r>> \in t.rob[x].waits
    BY DEF WaitsOK
  <2>1. j # i /\ LastWriter(q, x, j, r) /\ q.rob[j].executed # "COMPLETED"
    BY <1>5 DEF LastWriter
  <2>2. <<j, r>> \in q.rob[x].waits
    BY <1>4, <1>5, <2>1 DEF Ordered, WaitsOK
  <2> QED
    BY <1>5, <2>1, <2>2
<1>9. Ordered(o3')
  BY <1>3, <1>5, <1>6, <1>7, <1>8 DEF Ordered
<1>10. /\ program' = program /\ head' = head /\ tail' = tail /\ retired' = retired
       /\ dispatched' = dispatched /\ next_schedule' = next_schedule /\ sq_head' = sq_head
       /\ RTS1' = RTS1 /\ RTL1' = RTL1 /\ DTLB' = DTLB /\ L1D' = L1D
  BY DEF Complete, requests, ring
<1>11. Ordered(o3)'
  BY <1>9, <1>10, OrderedPrime
<1> QED
  BY <1>10, <1>11, CompleteShape DEF RingTyped

(* A set of cores that the steps of issued entries keep contains the core after a pass. *)
LEMMA PassKeeps ==
  ASSUME RingTyped, Ordered(o3), ScheduleMemory, NEW I, o3 \in I,
         \A q \in I, i \in RobSlots :
           Ordered(q) /\ Advances(o3, q) /\ q.rob[i].id # 0 /\ Issued(q, i) /\ Memory(q.rob[i].id) =>
             /\ \A a \in Addresses : /\ a \in Instr(q, i).loads => TryLoad(q, i, a) \in I
                                     /\ a \in Instr(q, i).stores => TryStore(q, i, a) \in I
             /\ Scheduled(q, i) \in I
  PROVE  o3' \in I /\ Ordered(o3') /\ Advances(o3, o3')
<1>1. PICK scan : scan = ScanTo(next_schedule)
  OBVIOUS
<1>2. scan \in Seq(RobSlots)
  BY <1>1, ScanIs DEF RingTyped
<1>3. PICK P : /\ o3' = MemoryPass(o3, scan, P)
               /\ \A k \in P \cap DOMAIN scan : /\ o3.rob[scan[k]].id # 0 /\ o3.rob[scan[k]].waits = {}
                                                /\ o3.rob[scan[k]].scheduled = "INFLIGHT"
                                                /\ Memory(o3.rob[scan[k]].id)
  <2> DEFINE Eligible(i) == /\ o3.rob[i].id # 0 /\ Memory(o3.rob[i].id)
                            /\ o3.rob[i].scheduled = "INFLIGHT" /\ o3.rob[i].waits = {}
             eligible == {k \in DOMAIN scan : Eligible(scan[k])}
             Tried(n) == {k \in eligible : Cardinality({m \in eligible : m <= k}) <= n}
  <2>1. PICK n \in 1 .. SCHEDULER_SIZE : o3' = MemoryPass(o3, scan, Tried(n))
    BY Zenon, <1>1 DEF ScheduleMemory
  <2>2. \A k \in Tried(n) : Eligible(scan[k])
    OBVIOUS
  <2> HIDE DEF Tried
  <2> QED
    BY <2>1, <2>2
<1>4. PICK p : p = o3
  OBVIOUS
<1>5. p \in Cores /\ head \in RobSlots
  BY <1>4 DEF Ordered, RingTyped
<1>6. Advances(p, p)
  <2>1. Quiet(p, p)
    BY <1>5 DEF Quiet, KeepsIssue, KeepsStores, AddsDependents
  <2> QED
    BY <2>1, QuietAdvances
<1> DEFINE J == {q \in I : Ordered(q) /\ Advances(p, q)}
<1>7. p \in J
  BY <1>4, <1>6
<1>8. ASSUME NEW q \in J, NEW i \in RobSlots, p.rob[i].id # 0, p.rob[i].waits = {}, p.rob[i].scheduled # "no",
             Memory(p.rob[i].id)
      PROVE  /\ \A a \in Addresses : /\ a \in Instr(q, i).loads => TryLoad(q, i, a) \in J
                                     /\ a \in Instr(q, i).stores => TryStore(q, i, a) \in J
             /\ Scheduled(q, i) \in J
  <2>1. q \in I /\ Ordered(q) /\ Advances(p, q) /\ q \in Cores
    BY DEF Ordered
  <2>2. q.rob[i].id # 0 /\ Issued(q, i) /\ Memory(q.rob[i].id)
    BY <1>8, <2>1 DEF Advances, Issued
  <2>3. /\ \A a \in Addresses : /\ a \in Instr(q, i).loads => TryLoad(q, i, a) \in I
                                /\ a \in Instr(q, i).stores => TryStore(q, i, a) \in I
        /\ Scheduled(q, i) \in I
    BY <1>4, <2>1, <2>2
  <2>4. \A t : Advances(q, t) /\ t \in I => t \in J
    <3> TAKE t
    <3>1. Advances(q, t) => Ordered(t) /\ Advances(p, t)
      BY <1>5, <2>1, AdvancesKeepsOrder, AdvancesTransitive
    <3> QED
      BY <3>1
  <2>5. \A a \in Addresses : Advances(q, TryLoad(q, i, a)) /\ Advances(q, TryStore(q, i, a))
    BY <1>5, <2>1, <2>2, TryLoadAdvances, TryStoreAdvances DEF Ordered
  <2>6. Advances(q, Scheduled(q, i))
    BY <2>1, <2>2, ScheduledAdvances
  <2> QED
    BY <2>3, <2>4, <2>5, <2>6
<1>9. \A q, t \in J : \A j \in RobSlots : t.rob[j].id = q.rob[j].id
  BY DEF Advances
<1> HIDE DEF J
<1>10. MemoryPass(p, scan, P) \in J
  <2>1. ASSUME NEW q \in J, NEW k \in P \cap DOMAIN scan
        PROVE  /\ \A a \in Instr(q, scan[k]).loads \cap Addresses : TryLoad(q, scan[k], a) \in J
               /\ \A a \in Instr(q, scan[k]).stores \cap Addresses : TryStore(q, scan[k], a) \in J
               /\ Scheduled(q, scan[k]) \in J
    <3>1. PICK i \in RobSlots : i = scan[k]
      BY <1>2
    <3>2. p.rob[i].id # 0 /\ p.rob[i].waits = {} /\ p.rob[i].scheduled # "no" /\ Memory(p.rob[i].id)
      BY <1>3, <1>4, <3>1
    <3> QED
      BY <1>8, <3>1, <3>2
  <2> QED
    BY <1>2, <1>7, <1>9, <2>1, MemoryPassStays
<1>11. o3' \in J
  BY <1>3, <1>4, <1>10
<1> QED
  BY <1>4, <1>11 DEF J

LEMMA ScheduleMemoryOrders ==
  ASSUME RingTyped, Ordered(o3), ScheduleMemory
  PROVE  Ordered(o3)' /\ RingTyped'
<1>1. \A q \in Cores, i \in RobSlots :
        Ordered(q) /\ Advances(o3, q) /\ q.rob[i].id # 0 /\ Issued(q, i) =>
          /\ \A a \in Addresses : TryLoad(q, i, a) \in Cores /\ TryStore(q, i, a) \in Cores
          /\ Scheduled(q, i) \in Cores
  <2> SUFFICES ASSUME NEW q \in Cores, NEW i \in RobSlots, Issued(q, i), Ordered(q),
                      q.rob[i].id # 0
               PROVE  /\ \A a \in Addresses : TryLoad(q, i, a) \in Cores /\ TryStore(q, i, a) \in Cores
                      /\ Scheduled(q, i) \in Cores
    OBVIOUS
  <2>1. \A a \in Addresses : Advances(q, TryLoad(q, i, a)) /\ Advances(q, TryStore(q, i, a))
    BY TryLoadAdvances, TryStoreAdvances DEF Ordered
  <2>2. Advances(q, Scheduled(q, i))
    BY ScheduledAdvances
  <2> QED
    BY <2>1, <2>2 DEF Advances
<1>2. o3 \in Cores
  BY DEF Ordered
<1>3. Ordered(o3')
  BY <1>1, <1>2, PassKeeps
<1>4. /\ program' = program /\ head' = head /\ tail' = tail /\ retired' = retired
      /\ dispatched' = dispatched /\ next_schedule' = next_schedule /\ sq_head' = sq_head
      /\ RTS1' = RTS1 /\ RTL1' = RTL1 /\ DTLB' = DTLB /\ L1D' = L1D /\ inflight_reg' = inflight_reg
  BY DEF ScheduleMemory, requests, ring
<1>5. Ordered(o3)'
  BY <1>3, <1>4, OrderedPrime
<1> QED
  BY <1>4, <1>5 DEF RingTyped

LEMMA RequestTyped ==
  ASSUME NEW q \in Cores
  PROVE  /\ \A k \in SqSlots : Request("SQ", q.SQ, k) \in Requests
                               /\ Request("SQ", q.SQ, k).queue = "SQ" /\ Request("SQ", q.SQ, k).slot = k
         /\ \A s \in LqSlots : Request("LQ", q.LQ, s) \in Requests
                               /\ Request("LQ", q.LQ, s).queue = "LQ" /\ Request("LQ", q.LQ, s).slot = s
<1>1. \A k \in SqSlots : k \in Nat /\ q.SQ[k].rob \in RobSlots /\ q.SQ[k].id \in Nat
  BY SlotFacts DEF Cores, SqEntries
<1>2. \A s \in LqSlots : s \in Nat /\ q.LQ[s].rob \in RobSlots /\ q.LQ[s].id \in Nat
  BY SlotFacts DEF Cores, LqEntries
<1> QED
  BY <1>1, <1>2 DEF Request, Requests

(* Steps that only move an entry of a queue on, or answer a load *)
LEMMA QuietStep ==
  ASSUME RingTyped, Ordered(o3), Quiet(o3, o3'),
         UNCHANGED <<program, ring, inflight_reg, sq_head>>,
         RTS1' \in SUBSET SqSlots, RTL1' \in SUBSET LqSlots,
         DTLB' \in SUBSET Requests, L1D' \in SUBSET Requests,
         \A r \in DTLB' : r.slot \in (IF r.queue = "SQ" THEN SqSlots ELSE LqSlots),
         \A r \in L1D' : r.slot \in LqSlots
  PROVE  Ordered(o3)' /\ RingTyped'
<1>1. PICK q : q = o3
  OBVIOUS
<1>2. PICK t : t = o3'
  OBVIOUS
<1>3. Advances(q, t)
  BY <1>1, <1>2, QuietAdvances
<1>4. Advances(o3, o3')
  BY <1>1, <1>2, <1>3
<1>5. /\ program' = program /\ head' = head /\ tail' = tail /\ retired' = retired
      /\ dispatched' = dispatched /\ next_schedule' = next_schedule
      /\ inflight_reg' = inflight_reg /\ sq_head' = sq_head
  BY DEF ring
<1>6. Ordered(o3)'
  BY <1>4, <1>5, StepAdvances
<1> QED
  BY <1>5, <1>6 DEF RingTyped

LEMMA TranslateQuiet ==
  ASSUME NEW q \in Cores, NEW t, NEW S
  PROVE  /\ t = [q EXCEPT !.RTS0 = q.RTS0 \ S] => Quiet(q, t)
         /\ t = [q EXCEPT !.RTL0 = q.RTL0 \ S] => Quiet(q, t)
<1>1. ASSUME t = [q EXCEPT !.RTS0 = q.RTS0 \ S]
      PROVE  Quiet(q, t)
  <2>1. t \in Cores
    BY <1>1 DEF Cores
  <2>2. t.rob = q.rob /\ t.LQ = q.LQ /\ t.SQ = q.SQ /\ t.sq_tail = q.sq_tail /\ t.STA = q.STA
    BY <1>1 DEF Cores
  <2> QED
    BY <2>1, <2>2 DEF Quiet, KeepsIssue, KeepsStores, AddsDependents
<1>2. ASSUME t = [q EXCEPT !.RTL0 = q.RTL0 \ S]
      PROVE  Quiet(q, t)
  <2>1. t \in Cores
    BY <1>2 DEF Cores
  <2>2. t.rob = q.rob /\ t.LQ = q.LQ /\ t.SQ = q.SQ /\ t.sq_tail = q.sq_tail /\ t.STA = q.STA
    BY <1>2 DEF Cores
  <2> QED
    BY <2>1, <2>2 DEF Quiet, KeepsIssue, KeepsStores, AddsDependents
<1> QED
  BY <1>1, <1>2

LEMMA TranslateStoreQuiet ==
  ASSUME RingTyped, Ordered(o3), TranslateStore
  PROVE  Quiet(o3, o3') /\ Ordered(o3)' /\ RingTyped'
<1>1. PICK k \in o3.RTS0 : /\ o3' = [o3 EXCEPT !.RTS0 = o3.RTS0 \ {k}]
                           /\ DTLB' = DTLB \cup {Request("SQ", o3.SQ, k)}
  BY DEF TranslateStore
<1>2. PICK q \in Cores : q = o3
  BY DEF Ordered
<1>3. k \in SqSlots
  BY <1>2 DEF Cores
<1>4. Quiet(o3, o3')
  BY <1>1, <1>2, TranslateQuiet
<1>5. Request("SQ", o3.SQ, k) \in Requests /\ Request("SQ", o3.SQ, k).queue = "SQ"
      /\ Request("SQ", o3.SQ, k).slot \in SqSlots
  BY <1>2, <1>3, RequestTyped
<1>6. DTLB' \in SUBSET Requests /\ \A r \in DTLB' : r.slot \in (IF r.queue = "SQ" THEN SqSlots ELSE LqSlots)
  BY <1>1, <1>5 DEF RingTyped
<1> QED
  BY <1>4, <1>6, QuietStep DEF TranslateStore, RingTyped

LEMMA TranslateLoadQuiet ==
  ASSUME RingTyped, Ordered(o3), TranslateLoad
  PROVE  Quiet(o3, o3') /\ Ordered(o3)' /\ RingTyped'
<1>1. PICK s \in o3.RTL0 : /\ o3' = [o3 EXCEPT !.RTL0 = o3.RTL0 \ {s}]
                           /\ DTLB' = DTLB \cup {Request("LQ", o3.LQ, s)}
  BY DEF TranslateLoad
<1>2. PICK q \in Cores : q = o3
  BY DEF Ordered
<1>3. s \in LqSlots
  BY <1>2 DEF Cores
<1>4. Quiet(o3, o3')
  BY <1>1, <1>2, TranslateQuiet
<1>5. Request("LQ", o3.LQ, s) \in Requests /\ Request("LQ", o3.LQ, s).queue = "LQ"
      /\ Request("LQ", o3.LQ, s).slot \in LqSlots
  BY <1>2, <1>3, RequestTyped
<1>6. DTLB' \in SUBSET Requests /\ \A r \in DTLB' : r.slot \in (IF r.queue = "SQ" THEN SqSlots ELSE LqSlots)
  BY <1>1, <1>5 DEF RingTyped
<1> QED
  BY <1>4, <1>6, QuietStep DEF TranslateLoad, RingTyped

LEMMA TranslatedQuiet ==
  ASSUME RingTyped, Ordered(o3), Translated
  PROVE  Quiet(o3, o3') /\ Ordered(o3)' /\ RingTyped'
<1>1. PICK r \in DTLB : /\ DTLB' = DTLB \ {r}
                        /\ RTS1' = IF r.queue = "SQ" THEN RTS1 \cup {r.slot} ELSE RTS1
                        /\ RTL1' = IF r.queue = "SQ" THEN RTL1 ELSE RTL1 \cup {r.slot}
  BY DEF Translated
<1>2. PICK q \in Cores : q = o3
  BY DEF Ordered
<1>3. Quiet(q, q)
  BY DEF Quiet, KeepsIssue, KeepsStores, AddsDependents
<1>4. Quiet(o3, o3')
  BY <1>2, <1>3 DEF Translated
<1>5. RTS1' \in SUBSET SqSlots /\ RTL1' \in SUBSET LqSlots
  BY <1>1 DEF RingTyped
<1>6. DTLB' \in SUBSET Requests /\ \A x \in DTLB' : x.slot \in (IF x.queue = "SQ" THEN SqSlots ELSE LqSlots)
  BY <1>1 DEF RingTyped
<1> QED
  BY <1>4, <1>5, <1>6, QuietStep DEF Translated, RingTyped

(* The loads that wait for a store have their place in the load queue. *)
LEMMA ConsumersTyped ==
  ASSUME RingTyped, NEW q, Ordered(q), NEW k \in SqSlots, NEW d \in Consumers(q, k)
  PROVE  d \in RobSlots /\ ConsumerSlot(q, k, d) \in LqSlots
<1>1. q \in Cores /\ q.SQ[k].rob \in RobSlots /\ q.SQ[k].va \in Addresses \cup {None}
  BY DEF Ordered, Cores, SqEntries
<1>2. d \in RobSlots
  BY <1>1 DEF Consumers, Cores, RobEntries
<1>3. q.rob[d].lq_index[q.SQ[k].va] # None /\ q.SQ[k].va \in Instr(q, d).loads
  BY DEF Consumers
<1>4. q.SQ[k].va \in Addresses
  <2>1. q.rob[q.SQ[k].rob].id < q.rob[d].id
    BY <1>1 DEF Consumers, Ordered, IssueOK
  <2>2. q.rob[q.SQ[k].rob].id \in Nat
    BY <1>1 DEF Cores, RobEntries
  <2>3. q.rob[d].id # 0
    BY <2>1, <2>2
  <2>4. Instr(q, d) \in Instructions
    BY <1>2, <2>3, LiveInstr DEF Ordered
  <2> QED
    BY <1>3, <2>4 DEF Instructions
<1> QED
  BY <1>1, <1>2, <1>3, <1>4 DEF ConsumerSlot, Cores, RobEntries

LEMMA ExecuteStoreQuiet ==
  ASSUME RingTyped, Ordered(o3), ExecuteStore
  PROVE  Quiet(o3, o3') /\ Ordered(o3)' /\ RingTyped'
<1>1. PICK k \in RTS1 : o3' = execute_store(o3, k) /\ RTS1' = RTS1 \ {k}
  BY DEF ExecuteStore
<1>2. PICK q \in Cores : q = o3
  BY DEF Ordered
<1>3. k \in SqSlots
  BY DEF RingTyped
<1> DEFINE I == {t \in Cores : Quiet(q, t)}
<1>4. StoreDone(q, k) \in I
  BY <1>3, StoreDoneQuiet DEF Quiet
<1>6. \A d \in Consumers(q, k) : d \in RobSlots /\ ConsumerSlot(q, k, d) \in LqSlots
  BY SMTT(30), <1>2, <1>3, ConsumersTyped
<1>7. \A t \in I, d \in Consumers(q, k) : Forward(t, ConsumerSlot(q, k, d), q.SQ[k].va) \in I
  <2> TAKE t \in I, d \in Consumers(q, k)
  <2>1. Quiet(t, Forward(t, ConsumerSlot(q, k, d), q.SQ[k].va))
    BY <1>6, ForwardQuiet
  <2> QED
    BY <2>1, QuietTransitive DEF Quiet
<1> HIDE DEF I
<1>8. execute_store(q, k) \in I
  <2>1. PICK J : J = [n \in 0 .. ROB_SIZE |-> I]
    OBVIOUS
  <2>2. J[0] = I /\ \A n \in 1 .. ROB_SIZE : J[n - 1] = I /\ J[n] = I
    BY <2>1, Sizes
  <2>3. \A n \in 1 .. ROB_SIZE, t \in I : t \in J[n - 1] =>
          IF n - 1 \in Consumers(q, k) THEN Forward(t, ConsumerSlot(q, k, n - 1), q.SQ[k].va) \in J[n]
          ELSE t \in J[n]
    BY <1>7, <2>2
  <2> QED
    BY <1>4, <1>6, <1>7, <2>2, <2>3, ExecuteStoreStays
<1>9. Quiet(o3, o3')
  BY <1>1, <1>2, <1>8 DEF I
<1>10. RTS1' \in SUBSET SqSlots
  BY <1>1 DEF RingTyped
<1> QED
  BY <1>9, <1>10, QuietStep DEF ExecuteStore, RingTyped

LEMMA LastStoreIs ==
  ASSUME NEW n \in Nat, NEW a
  PROVE  /\ LastStore(n, a) \in Nat
         /\ LastStore(n, a) # 0 => LastStore(n, a) \in 1 .. n - 1 /\ a \in program[LastStore(n, a)].stores
         /\ \A m \in 1 .. n - 1 : a \in program[m].stores => m <= LastStore(n, a)
<1> DEFINE S == {m \in 1 .. n - 1 : a \in program[m].stores}
           T == {n - m : m \in S}
<1>1. CASE S = {}
  BY <1>1 DEF LastStore
<1>2. CASE S # {}
  <2>1. T \in SUBSET Nat /\ T # {}
    BY <1>2
  <2>2. PICK x \in T : \A y \in T : x <= y
    <3> HIDE DEF T
    <3> QED
      BY <2>1, LeastNatural
  <2>3. PICK m \in S : x = n - m
    BY <2>2
  <2>4. \A k \in S : k <= m
    <3> TAKE k \in S
    <3>1. n - k \in T
      OBVIOUS
    <3> HIDE DEF T
    <3>2. n - m <= n - k
      BY <2>2, <2>3, <3>1
    <3> QED
      BY <3>2
  <2>5. LastStore(n, a) \in S /\ \A k \in S : k <= LastStore(n, a)
    <3>1. LastStore(n, a) = CHOOSE y \in S : \A k \in S : k <= y
      BY <1>2 DEF LastStore
    <3> HIDE DEF S
    <3> QED
      BY <2>4, <3>1
  <2> QED
    BY <2>5
<1> QED
  BY <1>1, <1>2

LEMMA ExecuteLoadQuiet ==
  ASSUME RingTyped, Ordered(o3), ExecuteLoad
  PROVE  Quiet(o3, o3') /\ Ordered(o3)' /\ RingTyped'
<1>1. PICK s \in RTL1 : /\ RTL1' = RTL1 \ {s}
                        /\ L1D' = L1D \cup {Request("LQ", o3.LQ, s)}
                        /\ o3' = Perform(o3, s, LastStore(retired + 1, o3.LQ[s].va))
  BY DEF ExecuteLoad
<1>2. PICK q \in Cores : q = o3
  BY DEF Ordered
<1>3. s \in LqSlots
  BY DEF RingTyped
<1>4. LastStore(retired + 1, o3.LQ[s].va) \in Nat
  BY LastStoreIs DEF RingTyped
<1>5. Quiet(o3, o3')
  BY <1>1, <1>2, <1>3, <1>4, PerformQuiet
<1>6. Request("LQ", o3.LQ, s) \in Requests /\ Request("LQ", o3.LQ, s).slot \in LqSlots
  BY <1>2, <1>3, RequestTyped
<1>7. L1D' \in SUBSET Requests /\ \A r \in L1D' : r.slot \in LqSlots
  BY <1>1, <1>6 DEF RingTyped
<1>8. RTL1' \in SUBSET LqSlots
  BY <1>1 DEF RingTyped
<1> QED
  BY <1>5, <1>7, <1>8, QuietStep DEF ExecuteLoad, RingTyped

LEMMA LoadedQuiet ==
  ASSUME RingTyped, Ordered(o3), Loaded
  PROVE  Quiet(o3, o3') /\ Ordered(o3)' /\ RingTyped'
<1>1. PICK r \in L1D : /\ o3' = release_load_queue(OpDone(o3, r.rob), r.slot)
                       /\ L1D' = L1D \ {r}
  BY DEF Loaded
<1>2. PICK q \in Cores : q = o3
  BY DEF Ordered
<1>3. r.rob \in RobSlots /\ r.slot \in LqSlots
  BY DEF RingTyped, Requests
<1>4. PICK t : t = OpDone(q, r.rob)
  OBVIOUS
<1>5. Quiet(q, t)
  BY <1>3, <1>4, OpDoneQuiet
<1>6. Quiet(t, release_load_queue(t, r.slot))
  BY <1>3, <1>5, ReleaseQuiet DEF Quiet
<1>7. Quiet(o3, o3')
  BY <1>1, <1>2, <1>4, <1>5, <1>6, QuietTransitive
<1>8. L1D' \in SUBSET Requests /\ \A x \in L1D' : x.slot \in LqSlots
  BY <1>1 DEF RingTyped
<1> QED
  BY <1>7, <1>8, QuietStep DEF Loaded, RingTyped

(* What Retire does to the core: R are the store queue entries it empties. *)
Retires(q, t, R) ==
  /\ t \in Cores /\ t.LQ = q.LQ /\ t.sq_tail = q.sq_tail /\ t.STA = q.STA
  /\ t.RTL0 = q.RTL0 /\ t.RTS0 = q.RTS0 /\ t.inflight_mem = q.inflight_mem /\ t.performed = q.performed
  /\ \A k \in SqSlots : t.SQ[k] = IF k \in R THEN EmptySq ELSE q.SQ[k]
  /\ \A j \in RobSlots : t.rob[j] = IF j = head THEN EmptyRob ELSE q.rob[j]
Released(o) == {o.rob[head].sq_index[a] : a \in Instr(o, head).stores}

LEMMA EmptySqIs == EmptySq \in SqEntries /\ EmptySq.id = 0
BY SlotFacts DEF EmptySq, SqEntries

LEMMA RetireShape ==
  ASSUME RingTyped, Ordered(o3), Retire
  PROVE  Retires(o3, o3', Released(o3))
<1>1. PICK q \in Cores : q = o3
  BY DEF Ordered
<1>2. PICK t : t = o3'
  OBVIOUS
<1>3. PICK E : E = Released(q)
  OBVIOUS
<1>4. t = [q EXCEPT !.SQ = [k \in SqSlots |-> IF k \in E THEN EmptySq ELSE q.SQ[k]],
                    !.rob[head] = EmptyRob]
  BY <1>1, <1>2, <1>3 DEF Retire, Released
<1>5. PICK S \in [SqSlots -> SqEntries] : S = [k \in SqSlots |-> IF k \in E THEN EmptySq ELSE q.SQ[k]]
  BY EmptySqIs DEF Cores
<1>6. PICK R \in [RobSlots -> RobEntries] : R = [q.rob EXCEPT ![head] = EmptyRob]
  BY EmptyRobIs DEF Cores
<1>7. \A k \in SqSlots : S[k] = IF k \in E THEN EmptySq ELSE q.SQ[k]
  BY <1>5
<1>8. \A j \in RobSlots : R[j] = IF j = head THEN EmptyRob ELSE q.rob[j]
  BY <1>6 DEF Cores
<1>9. t = [q EXCEPT !.SQ = S, !.rob = R]
  BY <1>4, <1>5, <1>6 DEF Cores
<1>10. t \in Cores
  BY <1>9 DEF Cores
<1>11. /\ t.rob = R /\ t.LQ = q.LQ /\ t.SQ = S /\ t.sq_tail = q.sq_tail /\ t.STA = q.STA
       /\ t.RTL0 = q.RTL0 /\ t.RTS0 = q.RTS0 /\ t.inflight_mem = q.inflight_mem /\ t.performed = q.performed
  BY <1>9 DEF Cores
<1>12. Retires(q, t, E)
  BY <1>7, <1>8, <1>10, <1>11 DEF Retires
<1> QED
  BY <1>1, <1>2, <1>3, <1>12

(* The ages behind a head that moves on by one *)
LEMMA HeadMoves ==
  ASSUME head \in RobSlots
  PROVE  /\ (head + 1) % ROB_SIZE \in RobSlots
         /\ \A i \in RobSlots : (i - ((head + 1) % ROB_SIZE)) % ROB_SIZE
                                  = IF i = head THEN ROB_SIZE - 1 ELSE Age(i) - 1
<1>1. ROB_SIZE \in Nat \ {0} /\ head \in 0 .. ROB_SIZE - 1
  BY Sizes DEF RobSlots
<1>2. /\ (head + 1) % ROB_SIZE \in RobSlots
      /\ \A i \in RobSlots : (i - ((head + 1) % ROB_SIZE)) % ROB_SIZE
                               = IF 1 <= Age(i) THEN Age(i) - 1 ELSE Age(i) - 1 + ROB_SIZE
  <2>1. 1 \in 0 .. ROB_SIZE
    BY <1>1
  <2> QED
    BY Zenon, <1>1, <2>1, PlaceMoves DEF RobSlots, Age
<1>3. \A i \in RobSlots : Age(i) \in Nat /\ (Age(i) = 0 <=> i = head)
  BY <1>1, AgeFacts
<1> QED
  BY <1>1, <1>2, <1>3

LEMMA RetireOrders ==
  ASSUME RingTyped, Ordered(o3), Retire
  PROVE  Ordered(o3)' /\ RingTyped'
<1>1. PICK q : q = o3
  OBVIOUS
<1>2. PICK t : t = o3'
  OBVIOUS
<1>3. /\ Ordered(q) /\ q.rob[head].executed = "COMPLETED" /\ Retires(q, t, Released(q))
  BY <1>1, <1>2, RetireShape DEF Retire
<1>4. /\ program' = program /\ tail' = tail /\ next_schedule' = next_schedule
      /\ dispatched' = dispatched /\ inflight_reg' = inflight_reg
      /\ head' = (head + 1) % ROB_SIZE /\ retired' = retired + 1
      /\ RTS1' = RTS1 /\ RTL1' = RTL1 /\ DTLB' = DTLB /\ L1D' = L1D
  BY DEF Retire, requests
<1>5. /\ head \in RobSlots /\ tail \in RobSlots /\ retired \in Nat /\ dispatched \in Nat
      /\ ROB_SIZE \in Nat \ {0} /\ Len(program) \in Nat
  BY Sizes, ProgramIs DEF RingTyped
<1>6. /\ t \in Cores /\ t.LQ = q.LQ
      /\ \A j \in RobSlots : t.rob[j] = IF j = head THEN EmptyRob ELSE q.rob[j]
      /\ \A k \in SqSlots : t.SQ[k].id \in {q.SQ[k].id, 0}
  BY <1>3, EmptySqIs DEF Retires
<1>7. q.rob[head].id # 0
  BY <1>3, <1>5 DEF Ordered, IssueOK
<1>8. /\ RingSpan /\ \A i \in RobSlots : q.rob[i].id = IF Age(i) < dispatched - retired
                                                       THEN retired + 1 + Age(i) ELSE 0
  BY <1>3 DEF Ordered, RingOK
<1>9. dispatched - retired > 0
  <2>1. Age(head) = 0
    BY <1>5, AgeFacts
  <2> QED
    BY <1>5, <1>7, <1>8, <2>1
<1>10. head' \in RobSlots /\ \A i \in RobSlots : Age(i)' = IF i = head THEN ROB_SIZE - 1 ELSE Age(i) - 1
  BY <1>4, <1>5, HeadMoves DEF Age
<1>11. \A i \in RobSlots : Age(i) \in 0 .. ROB_SIZE - 1 /\ (Age(i) = 0 => i = head)
  BY <1>5, AgeFacts
<1>12. \A i \in RobSlots : t.rob[i].id = IF Age(i)' < dispatched - (retired + 1)
                                         THEN retired + 1 + 1 + Age(i)' ELSE 0
  <2> TAKE i \in RobSlots
  <2>1. CASE i = head
    <3>1. t.rob[i].id = 0 /\ Age(i)' = ROB_SIZE - 1
      BY <1>6, <1>10, <2>1, EmptyRobIs
    <3>2. dispatched - retired <= ROB_SIZE
      BY <1>8 DEF RingSpan
    <3> QED
      BY <1>5, <3>1, <3>2
  <2>2. CASE i # head
    <3>1. t.rob[i].id = q.rob[i].id /\ Age(i)' = Age(i) - 1
      BY <1>6, <1>10, <2>2
    <3> QED
      BY SMTT(30), <1>5, <1>8, <1>11, <3>1
  <2> QED
    BY <2>1, <2>2
<1>13. tail = (head' + (dispatched - (retired + 1))) % ROB_SIZE
  <2>1. dispatched - (retired + 1) \in 0 .. ROB_SIZE - 1
    BY <1>5, <1>8, <1>9 DEF RingSpan
  <2>2. PICK a \in 0 .. ROB_SIZE - 1 : a = dispatched - (retired + 1)
    BY <2>1
  <2>3. tail = (head + (a + 1)) % ROB_SIZE
    BY <1>5, <1>8, <2>2 DEF RingSpan
  <2>4. (((head + 1) % ROB_SIZE) + a) % ROB_SIZE = (head + (a + 1)) % ROB_SIZE
    <3>1. head \in 0 .. ROB_SIZE - 1
      BY <1>5 DEF RobSlots
    <3>2. CASE head + 1 < ROB_SIZE
      <4>1. PICK x \in 0 .. ROB_SIZE - 1 : x = head + 1
        BY <1>5, <3>1, <3>2
      <4>2. x % ROB_SIZE = x
        BY <1>5, ModSmall
      <4>3. x + a = head + (a + 1)
        BY <1>5, <3>1, <4>1
      <4> QED
        BY <4>1, <4>2, <4>3
    <3>3. CASE head + 1 = ROB_SIZE
      <4>1. (head + 1) % ROB_SIZE = 0
        BY <1>5, <3>3
      <4>2. 0 + a = a /\ head + (a + 1) = ROB_SIZE + a /\ a % ROB_SIZE = a
        BY <1>5, <3>1, <3>3, ModSmall
      <4>3. PICK y \in ROB_SIZE .. 2 * ROB_SIZE - 1 : y = ROB_SIZE + a
        BY <1>5
      <4>4. y % ROB_SIZE = y - ROB_SIZE /\ y - ROB_SIZE = a
        BY <1>5, <4>3, ModAbove
      <4> QED
        BY <4>1, <4>2, <4>3, <4>4
    <3> QED
      BY <1>5, <3>1, <3>2, <3>3
  <2> QED
    BY <1>4, <2>2, <2>3, <2>4
<1>14. RingOK(o3)'
  <2>1. RingSpan'
    BY <1>4, <1>5, <1>8, <1>9, <1>13 DEF RingSpan
  <2> QED
    BY <1>2, <1>4, <1>12, <2>1 DEF RingOK
<1>15. \A i, j \in RobSlots : q.rob[i].id # 0 /\ q.rob[j].id = q.rob[i].id => i = j
  BY <1>3, RingIds DEF Ordered
<1>16. IssueOK(t)
  <2>1. ASSUME NEW i \in RobSlots
        PROVE  /\ t.rob[i].id = 0 => t.rob[i].scheduled = "no" /\ t.rob[i].dependents = {}
               /\ t.rob[i].scheduled = "no" => t.rob[i].executed = "no"
               /\ t.rob[i].waits # {} => t.rob[i].executed = "no"
               /\ t.rob[i].id # 0 /\ ~Issued(t, i) => NoOps(t, t.rob[i].id)
    <3>1. CASE i = head
      BY <1>6, <3>1, EmptyRobIs
    <3>2. CASE i # head
      <4>1. t.rob[i] = q.rob[i]
        BY <1>6, <3>2
      <4>2. q.rob[i].id # 0 /\ ~Issued(q, i) => NoOps(q, q.rob[i].id)
        BY <1>3 DEF Ordered, IssueOK
      <4>3. q.rob[i].id # 0 /\ NoOps(q, q.rob[i].id) => NoOps(t, q.rob[i].id)
        BY <1>6 DEF NoOps
      <4> QED
        BY <1>3, <4>1, <4>2, <4>3 DEF Ordered, IssueOK, Issued
    <3> QED
      BY <3>1, <3>2
  <2>2. ASSUME NEW i \in RobSlots, NEW d \in t.rob[i].dependents
        PROVE  t.rob[i].id < t.rob[d].id
    <3>1. i # head /\ t.rob[i] = q.rob[i]
      BY <1>6, <2>2, EmptyRobIs
    <3>2. d \in RobSlots /\ q.rob[i].id < q.rob[d].id
      BY <1>3, <2>2, <3>1 DEF Ordered, IssueOK, Cores, RobEntries
    <3>3. q.rob[i].id # 0
      BY <1>3, <2>2, <3>1 DEF Ordered, IssueOK
    <3>4. d # head
      <4>1. q.rob[head].id = retired + 1
        <5>1. Age(head) = 0
          BY <1>5, AgeFacts
        <5> QED
          BY <1>5, <1>8, <1>9, <5>1
      <4>2. q.rob[i].id \in retired + 1 .. dispatched
        BY <1>3, <3>3, RingIds DEF Ordered
      <4> QED
        BY <1>5, <3>2, <4>1, <4>2
    <3> QED
      BY <1>6, <3>1, <3>2, <3>4
  <2>3. /\ \A s \in LqSlots : t.LQ[s].id <= dispatched
        /\ \A k \in SqSlots : t.SQ[k].id <= dispatched
    BY <1>3, <1>5, <1>6 DEF Ordered, IssueOK
  <2> QED
    BY <2>1, <2>2, <2>3 DEF IssueOK
<1>17. WaitsOK(t)
  <2> SUFFICES ASSUME NEW i \in RobSlots, NEW j \in RobSlots, NEW r \in Registers,
                      t.rob[i].id # 0, t.rob[j].id # 0, LastWriter(t, i, j, r),
                      t.rob[i].scheduled # "no", t.rob[j].executed # "COMPLETED"
               PROVE  <<j, r>> \in t.rob[i].waits
    BY DEF WaitsOK
  <2>1. t.rob[i] = q.rob[i] /\ t.rob[j] = q.rob[j]
    BY <1>6, EmptyRobIs
  <2>2. LastWriter(q, i, j, r)
    BY <2>1 DEF LastWriter
  <2> QED
    BY <1>3, <2>1, <2>2 DEF Ordered, WaitsOK
<1>18. Ordered(o3)'
  <2>1. IssueOK(o3)' /\ WaitsOK(o3)'
    BY <1>2, <1>4, <1>16, <1>17 DEF IssueOK, Issued, NoOps, WaitsOK, LastWriter
  <2> QED
    BY <1>2, <1>6, <1>14, <2>1 DEF Ordered
<1>19. sq_head' \in SqSlots
  <2>1. PICK n \in Nat : sq_head' = (sq_head + n) % SQ_SIZE
    <3>1. IsFiniteSet(Instr(o3, head).stores)
      <4>1. Instr(o3, head) \in Instructions
        BY <1>1, <1>3, <1>5, <1>7, LiveInstr DEF Ordered
      <4>2. IsFiniteSet(Addresses)
        BY Sizes, FS_Interval DEF Addresses
      <4> QED
        BY <4>1, <4>2, FS_Subset DEF Instructions
    <3> QED
      BY <3>1, FS_CardinalityType DEF Retire
  <2>2. sq_head \in Nat /\ SQ_SIZE \in Nat \ {0}
    BY Sizes, SlotFacts DEF RingTyped
  <2> QED
    BY <2>1, <2>2 DEF SqSlots
<1> QED
  BY <1>4, <1>5, <1>10, <1>18, <1>19 DEF RingTyped


-------------------------------------------------------------------------------
(* The invariant and the theorems *)

Sorted(s) == \A m, n \in 1 .. Len(s) : m <= n => s[m] <= s[n]

LEMMA Repeated ==
  ASSUME NEW c \in Nat, NEW k \in Nat, NEW s, s = [m \in 1 .. c |-> k]
  PROVE  s \in Seq(Nat) /\ \A m \in 1 .. Len(s) : s[m] = k
<1>1. s \in Seq(Nat) /\ Len(s) = c
  OBVIOUS
<1> QED
  BY <1>1

LEMMA SortedAppended ==
  ASSUME NEW q \in Seq(Nat), Sorted(q), NEW t \in Seq(Nat), NEW k \in Nat,
         \A m \in 1 .. Len(q) : q[m] <= k - 1, \A m \in 1 .. Len(t) : t[m] = k
  PROVE  Sorted(q \o t) /\ \A m \in 1 .. Len(q \o t) : (q \o t)[m] <= k
<1>1. PICK r : r = q \o t
  OBVIOUS
<1>2. /\ Len(r) = Len(q) + Len(t) /\ Len(q) \in Nat /\ Len(t) \in Nat
      /\ \A m \in 1 .. Len(r) : r[m] = IF m <= Len(q) THEN q[m] ELSE t[m - Len(q)]
  BY <1>1
<1>3. ASSUME NEW m \in 1 .. Len(r)
      PROVE  IF m <= Len(q) THEN m \in 1 .. Len(q) /\ r[m] = q[m] /\ q[m] <= k ELSE r[m] = k
  <2>1. CASE m <= Len(q)
    <3>1. m \in 1 .. Len(q)
      BY <1>2, <2>1
    <3>2. r[m] = q[m] /\ q[m] <= k - 1 /\ q[m] \in Nat
      BY <1>2, <2>1, <3>1
    <3> QED
      BY <2>1, <3>1, <3>2
  <2>2. CASE ~(m <= Len(q))
    <3>1. m - Len(q) \in 1 .. Len(t)
      BY <1>2, <2>2
    <3> QED
      BY <1>2, <2>2, <3>1
  <2> QED
    BY <2>1, <2>2
<1>4. \A m \in 1 .. Len(r) : r[m] <= k
  BY <1>3
<1>5. ASSUME NEW x \in 1 .. Len(r), NEW y \in 1 .. Len(r), x <= y
      PROVE  r[x] <= r[y]
  <2>1. CASE y <= Len(q)
    <3>1. x <= Len(q)
      BY <1>2, <1>5, <2>1
    <3>2. x \in 1 .. Len(q) /\ y \in 1 .. Len(q) /\ r[x] = q[x] /\ r[y] = q[y]
      BY <1>3, <2>1, <3>1
    <3> QED
      BY <1>5, <3>2 DEF Sorted
  <2>2. CASE ~(y <= Len(q))
    BY <1>3, <1>4, <2>2
  <2> QED
    BY <2>1, <2>2
<1>6. Sorted(r)
  BY <1>5 DEF Sorted
<1> QED
  BY <1>1, <1>4, <1>6

(* The store array of a trace is in the order of the trace. *)
LEMMA AddressesTyped ==
  ASSUME program \in Programs
  PROVE  StoreAddresses \in Seq(Nat) /\ Sorted(StoreAddresses)
<1> DEFINE n == Len(program)
           I == Seq(Nat)
           New(k) == [m \in 1 .. Cardinality(program[k].stores) |-> k]
           Op(q, k) == q \o New(k)
           Body(f) == [k \in 0 .. n |-> IF k = 0 THEN <<>> ELSE Op(f[k - 1], k)]
           f == CHOOSE f : f = Body(f)
           F == [k \in 1 .. n |-> [q \in I |-> Op(q, k)]]
           Upto(k) == {s \in I : Sorted(s) /\ \A m \in 1 .. Len(s) : s[m] <= k}
           J == [k \in 0 .. n |-> Upto(k)]
<1>1. StoreAddresses = f[n]
  BY Zenon DEF StoreAddresses
<1>2. n \in Nat /\ \A k \in 1 .. n : program[k] \in Instructions
  BY ProgramAssumption
<1>3. \A k \in 1 .. n : New(k) \in I /\ \A m \in 1 .. Len(New(k)) : New(k)[m] = k
  <2> TAKE k \in 1 .. n
  <2>1. IsFiniteSet(Addresses)
    BY Sizes, FS_Interval DEF Addresses
  <2>2. Cardinality(program[k].stores) \in Nat /\ k \in Nat
    BY <1>2, <2>1, FS_Subset, FS_CardinalityType DEF Instructions
  <2> QED
    BY <2>2, Repeated
<1> HIDE DEF New
<1>4. <<>> \in I /\ \A k \in 1 .. n, q \in I : Op(q, k) \in I
  BY <1>3
<1>5. \A k \in 1 .. n, q \in I : q \in Upto(k - 1) => Op(q, k) \in Upto(k)
  <2> TAKE k \in 1 .. n, q \in I
  <2> HAVE q \in Upto(k - 1)
  <2>1. q \in Seq(Nat) /\ Sorted(q) /\ k \in Nat /\ \A m \in 1 .. Len(q) : q[m] <= k - 1
    BY <1>2
  <2>2. PICK t \in Seq(Nat) : t = New(k) /\ \A m \in 1 .. Len(t) : t[m] = k
    BY <1>3
  <2>3. Sorted(q \o t) /\ \A m \in 1 .. Len(q \o t) : (q \o t)[m] <= k
    BY <2>1, <2>2, SortedAppended
  <2>4. q \o t \in Seq(Nat)
    BY <2>1
  <2> QED
    BY <2>2, <2>3, <2>4
<1>6. \A s \in Upto(n) : s \in I /\ Sorted(s)
  OBVIOUS
<1>7. <<>> \in Upto(0)
  BY DEF Sorted
<1>8. \A k \in 0 .. n : J[k] = Upto(k)
  OBVIOUS
<1> HIDE DEF n, Op, I, Upto, J
<1>9. /\ F \in [1 .. n -> [I -> I]]
      /\ \A k \in 1 .. n, q \in I : F[k][q] = Op(q, k)
  BY <1>4
<1> HIDE DEF F
<1>10. PICK g : Runs(g, n, I, <<>>, F)
  BY Zenon, <1>2, <1>4, <1>9, LoopExists
<1>11. g = Body(g)
  BY <1>2, <1>9, <1>10 DEF Runs
<1>12. f = Body(f)
  <2> HIDE DEF Body
  <2> QED
    BY Zenon, <1>11
<1> HIDE DEF f
<1>13. f[0] = <<>> /\ \A k \in 1 .. n : f[k] = Op(f[k - 1], k)
  BY <1>2, <1>12
<1>14. \A k \in 0 .. n : f[k] \in J[k]
  <2>1. \A k \in 1 .. n : k - 1 \in 0 .. n /\ k \in 0 .. n
    BY <1>2
  <2>2. \A k \in 1 .. n : f[k - 1] \in J[k - 1] => f[k] \in J[k]
    <3> SUFFICES ASSUME NEW k \in 1 .. n, f[k - 1] \in J[k - 1]
                 PROVE  f[k] \in J[k]
      OBVIOUS
    <3>1. f[k - 1] \in Upto(k - 1) /\ J[k] = Upto(k)
      BY <1>8, <2>1
    <3>2. f[k - 1] \in I
      BY <3>1 DEF Upto
    <3> QED
      BY <1>5, <1>13, <3>1, <3>2
  <2> QED
    BY SMTT(30), <1>2, <1>7, <1>8, <1>13, <2>2, StaysIn
<1>15. f[n] \in Upto(n)
  BY <1>2, <1>8, <1>14
<1> QED
  BY <1>1, <1>6, <1>15 DEF I

LEMMA InitOrdered ==
  ASSUME Init
  PROVE  RingTyped /\ Ordered(o3)
<1>1. /\ program \in Programs /\ head = 0 /\ tail = 0 /\ next_schedule = 0
      /\ dispatched = 0 /\ retired = 0 /\ inflight_reg = 0 /\ sq_head = 0
      /\ RTS1 = {} /\ RTL1 = {} /\ DTLB = {} /\ L1D = {}
  BY DEF Init
<1>2. RingTyped
  BY <1>1, SlotFacts DEF RingTyped
<1>3. PICK S \in Seq(Nat) : S = StoreAddresses
  BY <1>1, AddressesTyped
<1>4. EmptyLq \in LqEntries /\ EmptyLq.id = 0
  BY SlotFacts DEF EmptyLq, LqEntries
<1>5. PICK R \in [RobSlots -> RobEntries] : R = [i \in RobSlots |-> EmptyRob]
  BY EmptyRobIs
<1>6. PICK L \in [LqSlots -> LqEntries] : L = [s \in LqSlots |-> EmptyLq]
  BY <1>4
<1>7. PICK Q \in [SqSlots -> SqEntries] : Q = [s \in SqSlots |-> EmptySq]
  BY EmptySqIs
<1>8. o3 = [rob |-> R, LQ |-> L, SQ |-> Q, sq_tail |-> 0, STA |-> S, RTL0 |-> {}, RTS0 |-> {},
            inflight_mem |-> 0, performed |-> {}]
  BY <1>3, <1>5, <1>6, <1>7 DEF Init
<1>9. o3 \in Cores
  BY <1>8, SlotFacts DEF Cores
<1>10. \A i \in RobSlots : o3.rob[i] = EmptyRob
  BY <1>5, <1>8
<1>11. (\A s \in LqSlots : o3.LQ[s].id = 0) /\ \A k \in SqSlots : o3.SQ[k].id = 0
  BY <1>4, <1>6, <1>7, <1>8, EmptySqIs
<1>12. RingOK(o3)
  <2>1. 0 % ROB_SIZE = 0
    BY Sizes, ModSmall
  <2>2. RingSpan
    BY <1>1, <2>1, Sizes, ProgramAssumption DEF RingSpan
  <2>3. \A i \in RobSlots : Age(i) \in Nat
    BY <1>2, AgeFacts, Sizes DEF RingTyped
  <2>4. \A i \in RobSlots : o3.rob[i].id = IF Age(i) < dispatched - retired THEN retired + 1 + Age(i) ELSE 0
    BY <1>1, <1>10, <2>3, EmptyRobIs
  <2> QED
    BY <2>2, <2>4 DEF RingOK
<1>13. IssueOK(o3)
  BY <1>1, <1>10, <1>11, EmptyRobIs DEF IssueOK
<1>14. WaitsOK(o3)
  BY <1>10, EmptyRobIs DEF WaitsOK
<1> QED
  BY <1>2, <1>9, <1>12, <1>13, <1>14 DEF Ordered

LEMMA StutterOrders ==
  ASSUME RingTyped, Ordered(o3), UNCHANGED vars
  PROVE  Ordered(o3)' /\ RingTyped'
<1>1. /\ UNCHANGED <<program, head, tail, dispatched, retired>> /\ o3' = o3
      /\ next_schedule' = next_schedule /\ inflight_reg' = inflight_reg /\ sq_head' = sq_head
      /\ RTS1' = RTS1 /\ RTL1' = RTL1 /\ DTLB' = DTLB /\ L1D' = L1D
  BY DEF vars, ring, requests
<1>2. Ordered(o3')
  BY <1>1
<1>3. Ordered(o3)'
  BY <1>1, <1>2, OrderedPrime
<1> QED
  BY <1>1, <1>3 DEF RingTyped

(* The reorder buffer holds, in order from its head on, the instructions that entered and   *)
(* did not retire; a scheduled one waits for the last writer of each source that is not     *)
(* done, and one that waits or is not scheduled neither executes nor has memory operations: *)
(* the ring that add_to_rob() and retire_rob() move along, and the masks that               *)
(* reg_dependency() sets and reg_RAW_release() clears.                                      *)
THEOREM OrderOfIssue == Spec => [](RingTyped /\ Ordered(o3))
<1>1. Init => RingTyped /\ Ordered(o3)
  BY InitOrdered
<1>2. ASSUME RingTyped, Ordered(o3), [Next]_vars
      PROVE  RingTyped' /\ Ordered(o3)'
  <2>1. CASE Dispatch
    BY <1>2, <2>1, DispatchOrders
  <2>2. CASE Schedule
    BY <1>2, <2>2, ScheduleOrders
  <2>3. CASE Execute
    BY <1>2, <2>3, ExecuteOrders
  <2>4. CASE Complete
    BY <1>2, <2>4, CompleteOrders
  <2>5. CASE ScheduleMemory
    BY <1>2, <2>5, ScheduleMemoryOrders
  <2>6. CASE TranslateStore
    BY <1>2, <2>6, TranslateStoreQuiet
  <2>7. CASE TranslateLoad
    BY <1>2, <2>7, TranslateLoadQuiet
  <2>8. CASE Translated
    BY <1>2, <2>8, TranslatedQuiet
  <2>9. CASE ExecuteStore
    BY <1>2, <2>9, ExecuteStoreQuiet
  <2>10. CASE ExecuteLoad
    BY <1>2, <2>10, ExecuteLoadQuiet
  <2>11. CASE Loaded
    BY <1>2, <2>11, LoadedQuiet
  <2>12. CASE Retire
    BY <1>2, <2>12, RetireOrders
  <2>13. CASE UNCHANGED vars
    BY <1>2, <2>13, StutterOrders
  <2> HIDE DEF RingTyped, Ordered
  <2> QED
    BY Zenon, <1>2, <2>1, <2>2, <2>3, <2>4, <2>5, <2>6, <2>7, <2>8, <2>9, <2>10, <2>11, <2>12, <2>13
    DEF Next
<1> HIDE DEF RingTyped, Ordered
<1>3. Init /\ [][Next]_vars => [](RingTyped /\ Ordered(o3))
  BY <1>1, <1>2, PTL
<1> QED
  BY <1>3, PTL DEF Spec

LEMMA OrderedSources ==
  ASSUME RingTyped, Ordered(o3)
  PROVE  SourcesReady
<1> SUFFICES ASSUME NEW i \in Live(o3), NEW j \in Live(o3), j \in Older(i),
                    NEW r \in Instr(o3, i).reads \cap Instr(o3, j).writes,
                    \A k \in Older(i) \ Older(j) : k # j => r \notin Instr(o3, k).writes,
                    o3.rob[j].executed # "COMPLETED"
             PROVE  o3.rob[i].executed = "no" /\ LqOf(o3, i) = {} /\ SqOf(o3, i) = {}
  BY DEF SourcesReady
<1>1. PICK q : q = o3
  OBVIOUS
<1>2. q \in Cores /\ RingOK(q) /\ IssueOK(q) /\ WaitsOK(q)
  BY <1>1 DEF Ordered
<1>3. i \in RobSlots /\ j \in RobSlots /\ q.rob[i].id # 0 /\ q.rob[j].id # 0
  BY <1>1 DEF Live
<1>4. /\ q.rob[i].id \in retired + 1 .. dispatched /\ q.rob[j].id \in retired + 1 .. dispatched
      /\ q.rob[j].id < q.rob[i].id /\ retired \in Nat /\ dispatched \in Nat
  BY <1>2, <1>3, RingIds DEF RingTyped
<1>5. \A n \in q.rob[j].id + 1 .. q.rob[i].id - 1 : r \notin program[n].writes
  <2> TAKE n \in q.rob[j].id + 1 .. q.rob[i].id - 1
  <2>1. n \in retired + 1 .. dispatched /\ q.rob[j].id < n /\ n < q.rob[i].id
    BY <1>4
  <2>2. PICK k \in RobSlots : q.rob[k].id = n
    BY <1>2, <2>1, RingIds
  <2>3. k \in Older(i) /\ k \notin Older(j) /\ k # j
    <3>1. k \in Older(i) <=> q.rob[k].id # 0 /\ q.rob[k].id < q.rob[i].id
      BY <1>2, <1>3, RingIds
    <3>2. k \in Older(j) <=> q.rob[k].id # 0 /\ q.rob[k].id < q.rob[j].id
      BY <1>2, <1>3, RingIds
    <3> HIDE DEF Older
    <3> QED
      BY <1>4, <2>1, <2>2, <3>1, <3>2
  <2> QED
    BY <1>1, <2>2, <2>3 DEF Instr
<1>6. r \in Registers
  BY <1>1, <1>2, <1>3, LiveInstr DEF Instructions
<1>7. LastWriter(q, i, j, r)
  BY <1>1, <1>4, <1>5 DEF LastWriter, Instr
<1>8. ~Issued(q, i)
  BY <1>1, <1>2, <1>3, <1>6, <1>7 DEF WaitsOK, Issued
<1>9. q.rob[i].executed = "no" /\ NoOps(q, q.rob[i].id)
  BY <1>2, <1>3, <1>8 DEF IssueOK, Issued
<1> QED
  BY <1>1, <1>9 DEF NoOps, LqOf, SqOf

(* An instruction executes, or has operations in the load or the store queue, only when the *)
(* last writer before it of each of its sources is done: do_execution() and                 *)
(* do_memory_scheduling() act on entries whose dependences reg_RAW_release() cleared, for   *)
(* every trace and every size of the queues.                                                *)
THEOREM SourcesAreReady == Spec => []SourcesReady
<1>1. RingTyped /\ Ordered(o3) => SourcesReady
  BY OrderedSources
<1> HIDE DEF RingTyped, Ordered, SourcesReady
<1> QED
  BY <1>1, OrderOfIssue, PTL

-------------------------------------------------------------------------------
(* The store queue *)

Place(k) == (k - sq_head) % SQ_SIZE
(* The first u places behind the head are used. *)
Filled(o, u) ==
  /\ u <= SQ_SIZE /\ o.sq_tail = (sq_head + u) % SQ_SIZE
  /\ \A k \in SqSlots : o.SQ[k].id # 0 <=> Place(k) < u
(* They hold stores in program order, and the stores that have not entered come behind them. *)
InOrder(o) ==
  /\ \A k, m \in SqSlots :
       o.SQ[k].id # 0 /\ o.SQ[m].id # 0 /\ Place(k) <= Place(m) => o.SQ[k].id <= o.SQ[m].id
  /\ Sorted(o.STA)
  /\ \A k \in SqSlots, n \in 1 .. Len(o.STA) : o.SQ[k].id <= o.STA[n]
(* Entry k of the store queue is one that its ROB entry knows of. *)
StoreIsOwned(o, k) ==
  LET i == o.SQ[k].rob
  IN /\ o.rob[i].id = o.SQ[k].id /\ o.SQ[k].va \in Instr(o, i).stores
     /\ o.rob[i].sq_index[o.SQ[k].va] = k
StoreNames(o) ==
  /\ \A k \in SqSlots : o.SQ[k].id # 0 => StoreIsOwned(o, k)
  /\ \A i \in RobSlots, a \in Addresses : o.rob[i].id # 0 /\ o.rob[i].sq_index[a] # None =>
       o.SQ[o.rob[i].sq_index[a]].id = o.rob[i].id /\ o.SQ[o.rob[i].sq_index[a]].va = a
  (* An instruction that executes has all its stores in the store queue. *)
  /\ \A i \in RobSlots : o.rob[i].id # 0 /\ o.rob[i].executed # "no" => StoresIn(o, i)
StoresOK(o) == (\E u \in Nat : Filled(o, u)) /\ InOrder(o) /\ StoreNames(o)

LEMMA StoreInstr ==
  ASSUME RingTyped, NEW o \in Cores, RingOK(o), NEW i \in RobSlots, o.rob[i].id # 0
  PROVE  Instr(o, i).stores \subseteq Addresses /\ Instr(o, i).loads \subseteq Addresses
BY LiveInstr DEF Instructions

LEMMA KeepsStoresOK ==
  ASSUME RingTyped, NEW q \in Cores, RingOK(q), NEW t \in Cores, StoresOK(q), KeepsStores(q, t),
         \A j \in RobSlots : t.rob[j].id = q.rob[j].id,
         \A j \in RobSlots : t.rob[j].executed # "no" => q.rob[j].executed # "no" \/ StoresIn(q, j)
  PROVE  StoresOK(t)
<1>1. PICK u \in Nat : Filled(q, u)
  BY DEF StoresOK
<1>2. Filled(t, u)
  BY <1>1 DEF Filled, KeepsStores
<1>3. InOrder(t)
  BY DEF StoresOK, InOrder, KeepsStores
<1>4. \A k \in SqSlots : t.SQ[k].id # 0 => StoreIsOwned(t, k)
  <2> TAKE k \in SqSlots
  <2> HAVE t.SQ[k].id # 0
  <2>1. /\ t.SQ[k].id = q.SQ[k].id /\ t.SQ[k].va = q.SQ[k].va /\ t.SQ[k].rob = q.SQ[k].rob
        /\ q.SQ[k].rob \in RobSlots
    BY DEF KeepsStores, Cores, SqEntries
  <2>2. StoreIsOwned(q, k)
    BY <2>1 DEF StoresOK, StoreNames
  <2> QED
    BY <2>1, <2>2 DEF StoreIsOwned, Instr, KeepsStores
<1>5. ASSUME NEW i \in RobSlots, NEW a \in Addresses, t.rob[i].id # 0, t.rob[i].sq_index[a] # None
      PROVE  t.SQ[t.rob[i].sq_index[a]].id = t.rob[i].id /\ t.SQ[t.rob[i].sq_index[a]].va = a
  <2>1. PICK k : k = t.rob[i].sq_index[a]
    OBVIOUS
  <2>2. k \in SqSlots /\ k = q.rob[i].sq_index[a] /\ q.rob[i].id = t.rob[i].id
    BY <1>5, <2>1 DEF Cores, RobEntries, KeepsStores
  <2>3. q.SQ[k].id = q.rob[i].id /\ q.SQ[k].va = a
    BY <1>5, <2>1, <2>2 DEF StoresOK, StoreNames
  <2> QED
    BY <2>1, <2>2, <2>3 DEF KeepsStores
<1>6. ASSUME NEW i \in RobSlots, t.rob[i].id # 0, t.rob[i].executed # "no"
      PROVE  StoresIn(t, i)
  <2>1. q.rob[i].id = t.rob[i].id /\ t.rob[i].sq_index = q.rob[i].sq_index
    BY DEF KeepsStores
  <2>2. StoresIn(q, i)
    BY <1>6, <2>1 DEF StoresOK, StoreNames
  <2> QED
    BY <2>1, <2>2 DEF StoresIn, Instr
<1> QED
  BY <1>2, <1>3, <1>4, <1>5, <1>6 DEF StoresOK, StoreNames

(* The free entry at the tail *)
LEMMA SqPlaces ==
  ASSUME RingTyped
  PROVE  /\ \A k \in SqSlots : Place(k) \in 0 .. SQ_SIZE - 1
         /\ \A k, m \in SqSlots : Place(k) = Place(m) => k = m
         /\ \A u \in 0 .. SQ_SIZE - 1 :
              (sq_head + u) % SQ_SIZE \in SqSlots /\ Place((sq_head + u) % SQ_SIZE) = u
         /\ Place(sq_head) = 0
BY Sizes, PlaceFacts DEF RingTyped, SqSlots, Place

LEMMA SqTailPlace ==
  ASSUME RingTyped, NEW q \in Cores, NEW u \in Nat, Filled(q, u), FreeSq(q) # {}
  PROVE  u \in 0 .. SQ_SIZE - 1 /\ Place(q.sq_tail) = u /\ q.sq_tail \in SqSlots
<1>1. PICK k \in SqSlots : q.SQ[k].id = 0
  BY DEF FreeSq
<1>2. ~(Place(k) < u)
  BY <1>1 DEF Filled
<1>3. SQ_SIZE \in Nat /\ Place(k) \in 0 .. SQ_SIZE - 1
  BY Sizes, SqPlaces
<1>4. u \in 0 .. SQ_SIZE - 1
  BY <1>2, <1>3
<1>5. q.sq_tail = (sq_head + u) % SQ_SIZE
  BY DEF Filled
<1> QED
  BY <1>4, <1>5, SqPlaces

LEMMA StoreAddedOK ==
  ASSUME RingTyped, NEW q \in Cores, RingOK(q), StoresOK(q), NEW i \in RobSlots, q.rob[i].id # 0,
         NEW a \in Addresses, a \in Instr(q, i).stores,
         NEW t \in Cores, KeepsIssue(q, t), StoreAdded(q, t, i, a)
  PROVE  StoresOK(t)
<1>1. PICK u \in Nat : Filled(q, u)
  BY DEF StoresOK
<1>2. PICK z : z = q.sq_tail
  OBVIOUS
<1>3. /\ FreeSq(q) # {} /\ q.STA # <<>> /\ Head(q.STA) = q.rob[i].id /\ q.rob[i].sq_index[a] = None
      /\ t.STA = Tail(q.STA) /\ t.sq_tail = (z + 1) % SQ_SIZE
      /\ \A k \in SqSlots \ {z} : t.SQ[k] = q.SQ[k]
      /\ t.SQ[z] = [id |-> q.rob[i].id, va |-> a, rob |-> i, fetched |-> FALSE]
      /\ \A j \in RobSlots, b \in Addresses :
           t.rob[j].sq_index[b] = IF j = i /\ b = a THEN z ELSE q.rob[j].sq_index[b]
  BY <1>2 DEF StoreAdded
<1>4. u \in 0 .. SQ_SIZE - 1 /\ Place(z) = u /\ z \in SqSlots /\ SQ_SIZE \in Nat \ {0}
  BY <1>1, <1>2, <1>3, SqTailPlace, Sizes
<1>5. q.SQ[z].id = 0
  BY <1>1, <1>4 DEF Filled
<1>6. t.SQ[z].id = q.rob[i].id /\ t.SQ[z].va = a /\ t.SQ[z].rob = i
  BY <1>3
<1>7. Filled(t, u + 1)
  <2>1. t.sq_tail = (sq_head + (u + 1)) % SQ_SIZE
    <3>1. z = (sq_head + u) % SQ_SIZE
      BY <1>1, <1>2 DEF Filled
    <3>2. (((sq_head + u) % SQ_SIZE) + 1) % SQ_SIZE = (sq_head + (u + 1)) % SQ_SIZE
      <4>1. sq_head \in 0 .. SQ_SIZE - 1
        BY DEF RingTyped, SqSlots
      <4> QED
        BY Zenon, <1>4, <4>1, TailMoves
    <3> QED
      BY <1>3, <3>1, <3>2
  <2>2. ASSUME NEW k \in SqSlots
        PROVE  t.SQ[k].id # 0 <=> Place(k) < u + 1
    <3>1. Place(k) \in 0 .. SQ_SIZE - 1 /\ (Place(k) = Place(z) => k = z)
      BY <1>4, SqPlaces
    <3>2. q.SQ[k].id # 0 <=> Place(k) < u
      BY <1>1 DEF Filled
    <3>3. k # z => t.SQ[k].id = q.SQ[k].id
      BY <1>3
    <3> QED
      BY <1>4, <1>6, <3>1, <3>2, <3>3
  <2> QED
    BY <1>4, <2>1, <2>2 DEF Filled
<1>8. InOrder(t)
  <2>1. /\ q.STA \in Seq(Nat) /\ Len(t.STA) = Len(q.STA) - 1 /\ Len(q.STA) \in Nat /\ Len(q.STA) > 0
        /\ \A n \in 1 .. Len(t.STA) : t.STA[n] = q.STA[n + 1]
    BY <1>3, TailTyped DEF Cores
  <2>2. q.STA[1] = q.rob[i].id
    BY <1>3, <2>1
  <2>3. \A k \in SqSlots : t.SQ[k].id \in Nat /\ q.SQ[k].id \in Nat
    BY DEF Cores, SqEntries
  <2>4. \A n \in 1 .. Len(q.STA) : q.rob[i].id <= q.STA[n] /\ q.STA[n] \in Nat
    <3> TAKE n \in 1 .. Len(q.STA)
    <3>1. 1 \in 1 .. Len(q.STA) /\ 1 <= n
      BY <2>1
    <3> QED
      BY <2>1, <2>2, <3>1 DEF StoresOK, InOrder, Sorted
  <2>5. \A k \in SqSlots : t.SQ[k].id <= q.rob[i].id
    <3> TAKE k \in SqSlots
    <3>1. q.SQ[k].id <= q.rob[i].id
      <4>1. 1 \in 1 .. Len(q.STA)
        BY <2>1
      <4> QED
        BY <2>2, <4>1 DEF StoresOK, InOrder
    <3> QED
      BY <1>3, <1>6, <2>3, <3>1
  <2>6. ASSUME NEW k \in SqSlots, NEW m \in SqSlots, t.SQ[k].id # 0, t.SQ[m].id # 0, Place(k) <= Place(m)
        PROVE  t.SQ[k].id <= t.SQ[m].id
    <3>1. CASE m = z
      BY <1>6, <2>5, <3>1
    <3>2. CASE m # z /\ k = z
      <4>1. q.SQ[m].id # 0
        BY <1>3, <2>6, <3>2
      <4>2. Place(m) < u /\ Place(m) \in Nat
        BY <1>1, <4>1, SqPlaces DEF Filled
      <4> QED
        BY <1>4, <2>6, <3>2, <4>2
    <3>3. CASE m # z /\ k # z
      <4>1. t.SQ[k] = q.SQ[k] /\ t.SQ[m] = q.SQ[m]
        BY <1>3, <3>3
      <4> QED
        BY <2>6, <4>1 DEF StoresOK, InOrder
    <3> QED
      BY <3>1, <3>2, <3>3
  <2>7. ASSUME NEW m \in 1 .. Len(t.STA), NEW n \in 1 .. Len(t.STA), m <= n
        PROVE  t.STA[m] <= t.STA[n]
    <3>1. m + 1 \in 1 .. Len(q.STA) /\ n + 1 \in 1 .. Len(q.STA) /\ m + 1 <= n + 1
      BY <2>1, <2>7
    <3>2. q.STA[m + 1] <= q.STA[n + 1]
      BY <3>1 DEF StoresOK, InOrder, Sorted
    <3> QED
      BY <2>1, <3>2
  <2>8. ASSUME NEW k \in SqSlots, NEW n \in 1 .. Len(t.STA)
        PROVE  t.SQ[k].id <= t.STA[n]
    <3>1. n + 1 \in 1 .. Len(q.STA) /\ t.STA[n] = q.STA[n + 1]
      BY <2>1
    <3>2. q.rob[i].id <= q.STA[n + 1] /\ q.STA[n + 1] \in Nat /\ q.rob[i].id \in Nat
      BY <2>4, <3>1 DEF Cores, RobEntries
    <3> QED
      BY <2>3, <2>5, <3>1, <3>2
  <2> QED
    BY <2>6, <2>7, <2>8 DEF InOrder, Sorted
<1>9. \A j \in RobSlots : t.rob[j].id = q.rob[j].id /\ Instr(t, j) = Instr(q, j)
  BY DEF KeepsIssue, Instr
<1>10. ASSUME NEW k \in SqSlots, t.SQ[k].id # 0
       PROVE  StoreIsOwned(t, k)
  <2>1. CASE k = z
    BY <1>3, <1>6, <1>9, <2>1 DEF StoreIsOwned
  <2>2. CASE k # z
    <3>1. t.SQ[k] = q.SQ[k]
      BY <1>3, <2>2
    <3>2. PICK j \in RobSlots : j = q.SQ[k].rob
      BY DEF Cores, SqEntries
    <3>3. PICK b : b = q.SQ[k].va
      OBVIOUS
    <3>4. q.rob[j].id = q.SQ[k].id /\ b \in Instr(q, j).stores /\ q.rob[j].sq_index[b] = k
      BY <1>10, <3>1, <3>2, <3>3 DEF StoresOK, StoreNames, StoreIsOwned
    <3>5. b \in Addresses
      BY <1>10, <3>1, <3>4, StoreInstr
    <3>6. ~(j = i /\ b = a)
      BY <1>3, <3>4, SlotFacts
    <3>7. t.rob[j].sq_index[b] = k
      BY <1>3, <3>4, <3>5, <3>6
    <3> QED
      BY <1>9, <3>1, <3>2, <3>3, <3>4, <3>7 DEF StoreIsOwned
  <2> QED
    BY <2>1, <2>2
<1>11. ASSUME NEW j \in RobSlots, NEW b \in Addresses, t.rob[j].id # 0, t.rob[j].sq_index[b] # None
       PROVE  t.SQ[t.rob[j].sq_index[b]].id = t.rob[j].id /\ t.SQ[t.rob[j].sq_index[b]].va = b
  <2>1. CASE j = i /\ b = a
    BY <1>3, <1>6, <1>9, <2>1
  <2>2. CASE ~(j = i /\ b = a)
    <3>1. t.rob[j].sq_index[b] = q.rob[j].sq_index[b]
      BY <1>3, <2>2
    <3>2. PICK k \in SqSlots : k = q.rob[j].sq_index[b]
      BY <1>11, <3>1 DEF Cores, RobEntries
    <3>3. q.SQ[k].id = q.rob[j].id /\ q.SQ[k].va = b /\ q.rob[j].id # 0
      BY <1>9, <1>11, <3>1, <3>2 DEF StoresOK, StoreNames
    <3>4. t.SQ[k] = q.SQ[k]
      BY <1>3, <1>5, <3>3
    <3> QED
      BY <1>9, <3>1, <3>2, <3>3, <3>4
  <2> QED
    BY <2>1, <2>2
<1>12. ASSUME NEW j \in RobSlots, t.rob[j].id # 0, t.rob[j].executed # "no"
       PROVE  StoresIn(t, j)
  <2>1. StoresIn(q, j)
    BY <1>9, <1>12 DEF StoresOK, StoreNames, KeepsIssue
  <2>2. \A b \in Instr(q, j).stores : b \in Addresses
    BY SMTT(30), <1>9, <1>12, StoreInstr
  <2> QED
    BY <1>3, <1>4, <1>9, <2>1, <2>2, SlotFacts DEF StoresIn
<1> QED
  BY <1>4, <1>7, <1>8, <1>10, <1>11, <1>12 DEF StoresOK, StoreNames

LEMMA StoresPrime ==
  ASSUME StoresOK(o3'), program' = program, sq_head' = sq_head
  PROVE  StoresOK(o3)'
BY DEF StoresOK, Filled, InOrder, StoreNames, StoreIsOwned, StoresIn, Place, Instr

(* Steps that leave the store queue alone *)
LEMMA KeptStores ==
  ASSUME RingTyped, Ordered(o3), StoresOK(o3), o3' \in Cores, KeepsStores(o3, o3'),
         \A j \in RobSlots : o3'.rob[j].id = o3.rob[j].id,
         \A j \in RobSlots : o3'.rob[j].executed # "no" => o3.rob[j].executed # "no" \/ StoresIn(o3, j),
         program' = program, sq_head' = sq_head
  PROVE  StoresOK(o3)'
<1>1. PICK q \in Cores : q = o3
  BY DEF Ordered
<1>2. PICK t \in Cores : t = o3'
  OBVIOUS
<1>3. StoresOK(t)
  BY <1>1, <1>2, KeepsStoresOK DEF Ordered
<1> QED
  BY <1>2, <1>3, StoresPrime

LEMMA QuietStores ==
  ASSUME RingTyped, Ordered(o3), StoresOK(o3), Quiet(o3, o3'), program' = program, sq_head' = sq_head
  PROVE  StoresOK(o3)'
<1>1. PICK q : q = o3
  OBVIOUS
<1>2. PICK t : t = o3'
  OBVIOUS
<1>3. /\ t \in Cores /\ KeepsStores(q, t)
      /\ \A j \in RobSlots : t.rob[j].id = q.rob[j].id /\ t.rob[j].executed = q.rob[j].executed
  BY <1>1, <1>2 DEF Quiet, KeepsIssue
<1> QED
  BY <1>1, <1>2, <1>3, KeptStores

LEMMA ScheduleStores ==
  ASSUME RingTyped, Ordered(o3), StoresOK(o3), Schedule
  PROVE  StoresOK(o3)'
<1>1. PICK i \in RobSlots, s \in Stages \ {"no"} :
        Moved(o3, o3', i, s, o3.rob[i].executed, reg_dependency(o3, i))
  BY ScheduleShape
<1>2. PICK q : q = o3
  OBVIOUS
<1>3. PICK t : t = o3'
  OBVIOUS
<1>4. Moved(q, t, i, s, q.rob[i].executed, reg_dependency(q, i))
  BY <1>1, <1>2, <1>3
<1>5. /\ t \in Cores /\ KeepsStores(q, t)
      /\ \A j \in RobSlots : t.rob[j].id = q.rob[j].id /\ t.rob[j].executed = q.rob[j].executed
  BY <1>4 DEF Moved
<1> QED
  BY <1>2, <1>3, <1>5, KeptStores DEF Schedule

LEMMA ExecuteStores ==
  ASSUME RingTyped, Ordered(o3), StoresOK(o3), Execute
  PROVE  StoresOK(o3)'
<1>1. PICK i \in RobSlots : /\ ~Memory(o3.rob[i].id)
                            /\ Moved(o3, o3', i, o3.rob[i].scheduled, "INFLIGHT", {})
  BY ExecuteShape
<1>2. PICK q : q = o3
  OBVIOUS
<1>3. PICK t : t = o3'
  OBVIOUS
<1>4. ~Memory(q.rob[i].id) /\ Moved(q, t, i, q.rob[i].scheduled, "INFLIGHT", {})
  BY <1>1, <1>2, <1>3
<1>5. StoresIn(q, i)
  BY <1>4 DEF StoresIn, Memory, Instr
<1>6. /\ t \in Cores /\ KeepsStores(q, t)
      /\ \A j \in RobSlots : t.rob[j].id = q.rob[j].id
      /\ \A j \in RobSlots : t.rob[j].executed # "no" => q.rob[j].executed # "no" \/ StoresIn(q, j)
  BY <1>4, <1>5 DEF Moved
<1> QED
  BY <1>2, <1>3, <1>6, KeptStores DEF Execute

LEMMA CompleteStores ==
  ASSUME RingTyped, Ordered(o3), StoresOK(o3), Complete
  PROVE  StoresOK(o3)'
<1>1. PICK i \in RobSlots : o3.rob[i].executed = "INFLIGHT" /\ Completed(o3, o3', i)
  BY CompleteShape
<1>2. PICK q : q = o3
  OBVIOUS
<1>3. PICK t : t = o3'
  OBVIOUS
<1>4. q.rob[i].executed = "INFLIGHT" /\ Completed(q, t, i)
  BY <1>1, <1>2, <1>3
<1>5. /\ t \in Cores /\ KeepsStores(q, t)
      /\ \A j \in RobSlots : t.rob[j].id = q.rob[j].id
      /\ \A j \in RobSlots : t.rob[j].executed # "no" => q.rob[j].executed # "no"
  BY <1>4 DEF Completed
<1> QED
  BY <1>2, <1>3, <1>5, KeptStores DEF Complete

LEMMA ScheduleMemoryStores ==
  ASSUME RingTyped, Ordered(o3), StoresOK(o3), ScheduleMemory
  PROVE  StoresOK(o3)'
<1> DEFINE I == {t \in Cores : StoresOK(t)}
<1>1. ASSUME NEW q \in I, NEW i \in RobSlots, Ordered(q), q.rob[i].id # 0, Issued(q, i)
      PROVE  /\ \A a \in Addresses : /\ a \in Instr(q, i).loads => TryLoad(q, i, a) \in I
                                     /\ a \in Instr(q, i).stores => TryStore(q, i, a) \in I
             /\ Scheduled(q, i) \in I
  <2>1. q \in Cores /\ StoresOK(q) /\ RingOK(q)
    BY <1>1 DEF Ordered
  <2>2. ASSUME NEW a \in Addresses
        PROVE  TryLoad(q, i, a) \in I
    <3>1. PICK t : t = TryLoad(q, i, a)
      OBVIOUS
    <3>2. t \in Cores /\ KeepsIssue(q, t) /\ KeepsStores(q, t)
      BY <1>1, <2>1, <3>1, TryLoadAdvances DEF Advances
    <3>3. \A j \in RobSlots : t.rob[j].id = q.rob[j].id /\ t.rob[j].executed = q.rob[j].executed
      BY <3>2 DEF KeepsIssue
    <3> QED
      BY <2>1, <3>1, <3>2, <3>3, KeepsStoresOK
  <2>3. ASSUME NEW a \in Addresses, a \in Instr(q, i).stores
        PROVE  TryStore(q, i, a) \in I
    <3>1. PICK t : t = TryStore(q, i, a)
      OBVIOUS
    <3>2. t \in Cores /\ KeepsIssue(q, t) /\ (t = q \/ StoreAdded(q, t, i, a))
      BY <1>1, <2>1, <3>1, TryStoreAdvances DEF Advances
    <3> QED
      BY <1>1, <2>1, <2>3, <3>1, <3>2, StoreAddedOK
  <2>4. Scheduled(q, i) \in I
    <3>1. PICK t : t = Scheduled(q, i)
      OBVIOUS
    <3>2. /\ Advances(q, t) /\ KeepsStores(q, t)
          /\ \A j \in RobSlots : t.rob[j].executed = q.rob[j].executed \/ StoresIn(q, j)
      BY <1>1, <2>1, <3>1, ScheduledAdvances
    <3>3. t \in Cores /\ \A j \in RobSlots : t.rob[j].id = q.rob[j].id
      BY <3>2 DEF Advances
    <3> QED
      BY <2>1, <3>1, <3>2, <3>3, KeepsStoresOK
  <2> QED
    BY <2>2, <2>3, <2>4
<1>2. o3 \in I
  BY DEF Ordered
<1>3. o3' \in I
  <2> HIDE DEF I
  <2>1. \A q \in I, i \in RobSlots :
          Ordered(q) /\ Advances(o3, q) /\ q.rob[i].id # 0 /\ Issued(q, i) =>
            /\ \A a \in Addresses : /\ a \in Instr(q, i).loads => TryLoad(q, i, a) \in I
                                    /\ a \in Instr(q, i).stores => TryStore(q, i, a) \in I
            /\ Scheduled(q, i) \in I
    BY <1>1
  <2> QED
    BY <1>2, <2>1, PassKeeps
<1> QED
  BY <1>3, StoresPrime DEF ScheduleMemory

LEMMA DispatchStores ==
  ASSUME RingTyped, Ordered(o3), StoresOK(o3), Dispatch
  PROVE  StoresOK(o3)'
<1>1. PICK n \in 1 .. Len(program) : n = dispatched + 1
  BY DispatchShape
<1>2. PICK q : q = o3
  OBVIOUS
<1>3. PICK t : t = o3'
  OBVIOUS
<1>4. /\ Entered(q, t, n) /\ Ordered(q) /\ StoresOK(q) /\ q.rob[tail].id = 0
  BY <1>1, <1>2, <1>3, DispatchShape DEF Dispatch
<1>5. /\ t \in Cores /\ t.SQ = q.SQ /\ t.sq_tail = q.sq_tail /\ t.STA = q.STA
      /\ \A j \in RobSlots : j # tail => t.rob[j] = q.rob[j]
      /\ t.rob[tail].executed = "no" /\ \A a \in Addresses : t.rob[tail].sq_index[a] = None
  <2>1. tail \in RobSlots
    BY DEF RingTyped
  <2> QED
    BY <1>4, <2>1, NewRobIs DEF Entered
<1>6. PICK u \in Nat : Filled(q, u)
  BY <1>4 DEF StoresOK
<1>7. Filled(t, u) /\ InOrder(t)
  BY <1>4, <1>5, <1>6 DEF Filled, StoresOK, InOrder
<1>8. ASSUME NEW k \in SqSlots, t.SQ[k].id # 0
      PROVE  StoreIsOwned(t, k)
  <2>1. PICK j \in RobSlots : j = t.SQ[k].rob
    BY <1>5 DEF Cores, SqEntries
  <2>2. StoreIsOwned(q, k) /\ q.SQ[k] = t.SQ[k]
    BY <1>4, <1>5, <1>8 DEF StoresOK, StoreNames
  <2>3. q.rob[j].id # 0
    BY <1>8, <2>1, <2>2 DEF StoreIsOwned
  <2>4. t.rob[j] = q.rob[j]
    BY <1>4, <1>5, <2>3
  <2> QED
    BY <2>1, <2>2, <2>4 DEF StoreIsOwned, Instr
<1>9. ASSUME NEW i \in RobSlots, NEW a \in Addresses, t.rob[i].id # 0, t.rob[i].sq_index[a] # None
      PROVE  t.SQ[t.rob[i].sq_index[a]].id = t.rob[i].id /\ t.SQ[t.rob[i].sq_index[a]].va = a
  <2>1. t.rob[i] = q.rob[i]
    BY <1>5, <1>9
  <2> QED
    BY <1>4, <1>5, <1>9, <2>1 DEF StoresOK, StoreNames
<1>10. ASSUME NEW i \in RobSlots, t.rob[i].id # 0, t.rob[i].executed # "no"
       PROVE  StoresIn(t, i)
  <2>1. t.rob[i] = q.rob[i]
    BY <1>5, <1>10
  <2>2. StoresIn(q, i)
    BY <1>4, <1>10, <2>1 DEF StoresOK, StoreNames
  <2> QED
    BY <2>1, <2>2 DEF StoresIn, Instr
<1>11. StoresOK(t)
  BY <1>7, <1>8, <1>9, <1>10 DEF StoresOK, StoreNames
<1> QED
  BY <1>3, <1>11, StoresPrime DEF Dispatch

(* The numbers below n that come before some of P are as many as P has members. *)
LEMMA InitialSegment ==
  ASSUME NEW n \in Nat, NEW P \in SUBSET (0 .. n - 1),
         \A x \in P, y \in 0 .. n - 1 : y <= x => y \in P
  PROVE  Cardinality(P) \in 0 .. n /\ P = 0 .. Cardinality(P) - 1
<1> DEFINE T == {x \in 0 .. n : x \notin P}
<1>1. T \in SUBSET Nat /\ n \in T
  OBVIOUS
<1>2. PICK x \in T : \A y \in T : x <= y
  <2> HIDE DEF T
  <2> QED
    BY <1>1, LeastNatural
<1>3. P = 0 .. x - 1
  <2>1. ASSUME NEW y \in P
        PROVE  y \in 0 .. x - 1
    <3>1. y \in 0 .. n - 1 /\ x \in 0 .. n /\ x \notin P
      BY <1>2
    <3>2. ~(x <= y)
      BY <3>1
    <3> QED
      BY <3>1, <3>2
  <2>2. ASSUME NEW y \in 0 .. x - 1
        PROVE  y \in P
    BY <1>2
  <2> QED
    BY <2>1, <2>2
<1>4. x \in 0 .. n /\ Cardinality(0 .. x - 1) = x
  BY <1>2, FS_Interval
<1> QED
  BY <1>3, <1>4

LEMMA SameCardinality ==
  ASSUME NEW S, NEW T, IsFiniteSet(S), NEW f \in [S -> T],
         \A x, y \in S : f[x] = f[y] => x = y,
         \A z \in T : \E x \in S : f[x] = z
  PROVE  Cardinality(T) = Cardinality(S)
<1>1. f \in Bijection(S, T)
  BY DEF Bijection, Injection, Surjection, IsInjective
<1>2. ExistsBijection(S, T)
  BY <1>1 DEF ExistsBijection
<1> QED
  BY <1>2, FS_Bijection

LEMMA StoresFinite ==
  ASSUME RingTyped, NEW o \in Cores, RingOK(o), NEW i \in RobSlots, o.rob[i].id # 0
  PROVE  IsFiniteSet(Instr(o, i).stores) /\ Cardinality(Instr(o, i).stores) \in Nat
<1>1. IsFiniteSet(Addresses)
  BY Sizes, FS_Interval DEF Addresses
<1> QED
  BY <1>1, StoreInstr, FS_Subset, FS_CardinalityType

(* The entries that a retiring instruction empties are the first of the store queue. *)
LEMMA ReleasedPlaces ==
  ASSUME RingTyped, NEW q \in Cores, RingOK(q), StoresOK(q), NEW u \in Nat, Filled(q, u),
         q.rob[head].id # 0, q.rob[head].executed # "no",
         NEW c, c = Cardinality(Instr(q, head).stores)
  PROVE  /\ c \in 0 .. u
         /\ \A k \in SqSlots : k \in Released(q) <=> Place(k) < c
         /\ \A k \in SqSlots : k \in Released(q) <=> q.SQ[k].id = q.rob[head].id
<1> DEFINE S == Instr(q, head).stores
           f == [a \in S |-> Place(q.rob[head].sq_index[a])]
           P == {Place(k) : k \in Released(q)}
<1>1. head \in RobSlots /\ u \in 0 .. SQ_SIZE /\ SQ_SIZE \in Nat
  BY Sizes DEF RingTyped, Filled
<1>2. S \subseteq Addresses /\ IsFiniteSet(S)
  BY <1>1, StoreInstr, StoresFinite
<1>3. q.rob[head].id = retired + 1 /\ retired \in Nat /\ dispatched \in Nat
  <2>1. Age(head) = 0 /\ retired \in Nat /\ dispatched \in Nat
    BY <1>1, AgeFacts DEF RingTyped
  <2>2. q.rob[head].id = IF Age(head) < dispatched - retired THEN retired + 1 + Age(head) ELSE 0
    BY <1>1 DEF RingOK
  <2> QED
    BY <2>1, <2>2
<1>4. ASSUME NEW a \in S
      PROVE  /\ q.rob[head].sq_index[a] \in SqSlots
             /\ q.SQ[q.rob[head].sq_index[a]].id = q.rob[head].id
             /\ q.SQ[q.rob[head].sq_index[a]].va = a
  <2>1. StoresIn(q, head)
    BY <1>1 DEF StoresOK, StoreNames
  <2>2. a \in Addresses /\ q.rob[head].sq_index[a] # None
    BY <1>2, <2>1 DEF StoresIn
  <2>3. q.rob[head].sq_index[a] \in SqSlots
    BY <1>1, <2>2 DEF Cores, RobEntries
  <2> QED
    BY <1>1, <2>2, <2>3 DEF StoresOK, StoreNames
<1>5. ASSUME NEW k \in SqSlots, q.SQ[k].id = q.rob[head].id
      PROVE  k \in Released(q)
  <2>1. PICK i \in RobSlots : i = q.SQ[k].rob
    BY DEF Cores, SqEntries
  <2>2. q.rob[i].id = q.SQ[k].id /\ q.SQ[k].va \in Instr(q, i).stores /\ q.rob[i].sq_index[q.SQ[k].va] = k
    BY <1>5, <2>1 DEF StoresOK, StoreNames, StoreIsOwned
  <2>3. i = head
    BY <1>1, <1>5, <2>2, RingIds
  <2> QED
    BY <2>2, <2>3 DEF Released
<1>6. \A k \in SqSlots : k \in Released(q) <=> q.SQ[k].id = q.rob[head].id
  <2>1. ASSUME NEW k \in Released(q)
        PROVE  q.SQ[k].id = q.rob[head].id
    <3>1. PICK a \in S : k = q.rob[head].sq_index[a]
      BY DEF Released
    <3> QED
      BY <1>4, <3>1
  <2> QED
    BY <1>5, <2>1
<1>7. Released(q) \subseteq SqSlots
  BY <1>4 DEF Released
<1>8. \A k \in SqSlots : Place(k) \in 0 .. SQ_SIZE - 1
  BY SqPlaces
<1>9. \A k, m \in SqSlots : Place(k) = Place(m) => k = m
  BY SqPlaces
<1>10. Cardinality(P) = c
  <2>1. f \in [S -> P]
    BY DEF Released
  <2>2. \A z \in P : \E a \in S : f[a] = z
    BY DEF Released
  <2>3. ASSUME NEW a \in S, NEW b \in S, f[a] = f[b]
        PROVE  a = b
    <3>1. Place(q.rob[head].sq_index[a]) = Place(q.rob[head].sq_index[b])
      BY <2>3
    <3>2. q.rob[head].sq_index[a] = q.rob[head].sq_index[b]
      BY <1>4, <1>9, <3>1
    <3> QED
      BY <1>4, <3>2
  <2> HIDE DEF f, P, S
  <2>4. Cardinality(P) = Cardinality(S)
    BY <1>2, <2>1, <2>2, <2>3, SameCardinality
  <2> QED
    BY <2>4 DEF S
<1>11. P \in SUBSET (0 .. SQ_SIZE - 1)
  BY <1>7, <1>8
<1>12. ASSUME NEW x \in P, NEW y \in 0 .. SQ_SIZE - 1, y <= x
       PROVE  y \in P
  <2>1. PICK k \in Released(q) : x = Place(k)
    OBVIOUS
  <2>2. PICK m \in SqSlots : y = Place(m)
    BY SqPlaces
  <2>3. k \in SqSlots /\ q.SQ[k].id = retired + 1
    BY <1>3, <1>6, <1>7, <2>1
  <2>4. Place(k) < u
    BY <1>3, <2>3 DEF Filled
  <2>5. Place(m) \in Nat /\ Place(k) \in Nat /\ Place(m) <= Place(k)
    BY <1>8, <1>12, <2>1, <2>2, <2>3
  <2>6. Place(m) < u
    BY <2>4, <2>5
  <2>7. q.SQ[m].id # 0
    BY <2>6 DEF Filled
  <2>8. q.SQ[m].id <= retired + 1
    BY <1>3, <2>3, <2>5, <2>7 DEF StoresOK, InOrder
  <2>9. PICK i \in RobSlots : i = q.SQ[m].rob
    BY DEF Cores, SqEntries
  <2>10. q.rob[i].id = q.SQ[m].id
    BY <2>7, <2>9 DEF StoresOK, StoreNames, StoreIsOwned
  <2>11. q.SQ[m].id \in retired + 1 .. dispatched
    BY <2>7, <2>10, RingIds
  <2>12. q.SQ[m].id = q.rob[head].id
    BY <1>3, <2>8, <2>11
  <2> QED
    BY <1>6, <2>2, <2>12
<1> HIDE DEF P
<1>13. c \in 0 .. SQ_SIZE /\ P = 0 .. c - 1
  <2>1. \A x \in P, y \in 0 .. SQ_SIZE - 1 : y <= x => y \in P
    BY <1>12
  <2>2. Cardinality(P) \in 0 .. SQ_SIZE /\ P = 0 .. Cardinality(P) - 1
    BY <1>1, <1>11, <2>1, InitialSegment
  <2> QED
    BY <1>10, <2>2
<1>14. ASSUME NEW k \in SqSlots
       PROVE  k \in Released(q) <=> Place(k) < c
  <2>1. k \in Released(q) <=> Place(k) \in P
    BY <1>7, <1>9 DEF P
  <2> QED
    BY <1>8, <1>13, <2>1
<1>15. c <= u
  <2> SUFFICES ASSUME u < c
               PROVE  FALSE
    BY <1>1, <1>13
  <2>1. PICK k \in SqSlots : Place(k) = u
    <3>1. u \in 0 .. SQ_SIZE - 1
      BY <1>1, <1>13
    <3> QED
      BY <3>1, SqPlaces
  <2>2. q.SQ[k].id = q.rob[head].id
    BY <1>6, <1>14, <2>1
  <2>3. Place(k) < u
    BY SMTT(30), <2>2 DEF Filled
  <2> QED
    BY <2>1, <2>3
<1> QED
  BY <1>1, <1>6, <1>13, <1>14, <1>15

LEMMA RetireStores ==
  ASSUME RingTyped, Ordered(o3), StoresOK(o3), Retire
  PROVE  StoresOK(o3)'
<1>1. PICK q \in Cores : q = o3
  BY DEF Ordered
<1>2. PICK t : t = o3'
  OBVIOUS
<1>3. /\ Ordered(q) /\ StoresOK(q) /\ RingOK(q) /\ q.rob[head].executed = "COMPLETED"
      /\ Retires(q, t, Released(q))
  BY <1>1, <1>2, RetireShape DEF Retire, Ordered
<1>4. head \in RobSlots /\ SQ_SIZE \in Nat \ {0} /\ sq_head \in 0 .. SQ_SIZE - 1
  BY Sizes DEF RingTyped, SqSlots
<1>5. q.rob[head].id # 0
  BY <1>3, <1>4 DEF Ordered, IssueOK
<1>6. PICK c : c = Cardinality(Instr(q, head).stores)
  OBVIOUS
<1>7. program' = program /\ sq_head' = (sq_head + c) % SQ_SIZE
  BY <1>1, <1>6 DEF Retire
<1>8. PICK u \in Nat : Filled(q, u)
  BY <1>3 DEF StoresOK
<1>9. /\ c \in 0 .. u
      /\ \A k \in SqSlots : k \in Released(q) <=> Place(k) < c
      /\ \A k \in SqSlots : k \in Released(q) <=> q.SQ[k].id = q.rob[head].id
  BY <1>3, <1>5, <1>6, <1>8, ReleasedPlaces
<1>10. u \in 0 .. SQ_SIZE /\ q.sq_tail = (sq_head + u) % SQ_SIZE
       /\ \A k \in SqSlots : q.SQ[k].id # 0 <=> Place(k) < u
  BY <1>8, <1>4 DEF Filled
<1>11. c \in 0 .. SQ_SIZE /\ u - c \in 0 .. SQ_SIZE - c /\ u - c \in Nat
  BY <1>4, <1>9, <1>10
<1>12. \A k \in SqSlots : Place(k) \in 0 .. SQ_SIZE - 1
  BY SqPlaces
<1>13. /\ \A k \in SqSlots : Place(k)' = IF c <= Place(k) THEN Place(k) - c ELSE Place(k) - c + SQ_SIZE
       /\ (sq_head' + (u - c)) % SQ_SIZE = (sq_head + (c + (u - c))) % SQ_SIZE
  <2>1. \A k \in 0 .. SQ_SIZE - 1 : (k - ((sq_head + c) % SQ_SIZE)) % SQ_SIZE =
          IF c <= (k - sq_head) % SQ_SIZE THEN ((k - sq_head) % SQ_SIZE) - c
                                          ELSE ((k - sq_head) % SQ_SIZE) - c + SQ_SIZE
    BY Zenon, <1>4, <1>11, PlaceMoves
  <2>2. \A d \in 0 .. SQ_SIZE - c : (((sq_head + c) % SQ_SIZE) + d) % SQ_SIZE = (sq_head + (c + d)) % SQ_SIZE
    BY Zenon, <1>4, <1>11, PlaceMoves
  <2>3. \A k \in SqSlots : Place(k)' = (k - ((sq_head + c) % SQ_SIZE)) % SQ_SIZE
    BY <1>7 DEF Place
  <2>4. \A k \in SqSlots : Place(k) = (k - sq_head) % SQ_SIZE
    BY DEF Place
  <2>5. \A k \in SqSlots : Place(k)' = IF c <= Place(k) THEN Place(k) - c ELSE Place(k) - c + SQ_SIZE
    <3> TAKE k \in SqSlots
    <3>1. k \in 0 .. SQ_SIZE - 1
      BY DEF SqSlots
    <3> QED
      BY Zenon, <2>1, <2>3, <2>4, <3>1
  <2>6. (sq_head' + (u - c)) % SQ_SIZE = (sq_head + (c + (u - c))) % SQ_SIZE
    BY Zenon, <1>7, <1>11, <2>2
  <2> QED
    BY <2>5, <2>6
<1>14. /\ t \in Cores /\ t.sq_tail = q.sq_tail /\ t.STA = q.STA
       /\ \A k \in SqSlots : t.SQ[k] = IF k \in Released(q) THEN EmptySq ELSE q.SQ[k]
       /\ \A j \in RobSlots : t.rob[j] = IF j = head THEN EmptyRob ELSE q.rob[j]
  BY <1>3 DEF Retires
<1>15. Filled(t, u - c)'
  <2>1. u - c <= SQ_SIZE
    BY <1>4, <1>11
  <2>2. t.sq_tail = (sq_head' + (u - c)) % SQ_SIZE
    <3>1. c + (u - c) = u
      BY <1>9, <1>10
    <3> QED
      BY Zenon, <1>10, <1>13, <1>14, <3>1
  <2>3. ASSUME NEW k \in SqSlots
        PROVE  t.SQ[k].id # 0 <=> Place(k)' < u - c
    <3>1. PICK x \in 0 .. SQ_SIZE - 1 : x = Place(k)
      BY <1>12
    <3>2. PICK y : y = Place(k)'
      OBVIOUS
    <3>3. y = IF c <= x THEN x - c ELSE x - c + SQ_SIZE
      BY <1>13, <3>1, <3>2
    <3>4. t.SQ[k].id # 0 <=> c <= x /\ x < u
      BY <1>4, <1>9, <1>10, <1>11, <1>14, <3>1, EmptySqIs
    <3> QED
      BY <1>4, <1>9, <1>10, <3>2, <3>3, <3>4
  <2> QED
    BY <2>1, <2>2, <2>3 DEF Filled
<1>16. InOrder(t)'
  <2>1. \A k \in SqSlots : t.SQ[k].id # 0 => t.SQ[k] = q.SQ[k] /\ Place(k)' = Place(k) - c
    <3> TAKE k \in SqSlots
    <3>1. t.SQ[k].id # 0 => k \notin Released(q)
      BY <1>14, EmptySqIs
    <3>2. k \notin Released(q) => c <= Place(k)
      BY <1>9, <1>11, <1>12
    <3> QED
      BY <1>13, <1>14, <3>1, <3>2
  <2>2. ASSUME NEW k \in SqSlots, NEW m \in SqSlots, t.SQ[k].id # 0, t.SQ[m].id # 0, Place(k)' <= Place(m)'
        PROVE  t.SQ[k].id <= t.SQ[m].id
    <3>1. t.SQ[k] = q.SQ[k] /\ t.SQ[m] = q.SQ[m] /\ Place(k) - c <= Place(m) - c
      BY <2>1, <2>2
    <3>2. Place(k) \in Int /\ Place(m) \in Int /\ c \in Int
      BY <1>11, <1>12
    <3>3. Place(k) <= Place(m)
      BY <3>1, <3>2
    <3> QED
      BY <1>3, <2>2, <3>1, <3>3 DEF StoresOK, InOrder
  <2>3. Sorted(t.STA)
    BY <1>3, <1>14 DEF StoresOK, InOrder
  <2>4. ASSUME NEW k \in SqSlots, NEW n \in 1 .. Len(t.STA)
        PROVE  t.SQ[k].id <= t.STA[n]
    <3>1. q.SQ[k].id <= t.STA[n] /\ t.STA[n] \in Nat
      BY <1>1, <1>3, <1>14 DEF StoresOK, InOrder, Cores
    <3> QED
      BY <1>14, <3>1, EmptySqIs
  <2> QED
    BY <2>2, <2>3, <2>4 DEF InOrder
<1>17. ASSUME NEW k \in SqSlots, t.SQ[k].id # 0
       PROVE  StoreIsOwned(t, k)'
  <2>1. k \notin Released(q) /\ t.SQ[k] = q.SQ[k]
    BY <1>14, <1>17, EmptySqIs
  <2>2. PICK i \in RobSlots : i = q.SQ[k].rob
    BY SMTT(30) DEF Cores, SqEntries
  <2>3. q.rob[i].id = q.SQ[k].id /\ q.SQ[k].va \in Instr(q, i).stores /\ q.rob[i].sq_index[q.SQ[k].va] = k
    BY <1>3, <1>17, <2>1, <2>2 DEF StoresOK, StoreNames, StoreIsOwned
  <2>4. i # head
    BY <1>9, <2>1, <2>3
  <2>5. t.rob[i] = q.rob[i]
    BY <1>14, <2>4
  <2> QED
    BY <1>7, <2>1, <2>2, <2>3, <2>5 DEF StoreIsOwned, Instr
<1>18. ASSUME NEW i \in RobSlots, NEW a \in Addresses, t.rob[i].id # 0, t.rob[i].sq_index[a] # None
       PROVE  t.SQ[t.rob[i].sq_index[a]].id = t.rob[i].id /\ t.SQ[t.rob[i].sq_index[a]].va = a
  <2>1. i # head /\ t.rob[i] = q.rob[i]
    BY <1>14, <1>18, EmptyRobIs
  <2>2. PICK k \in SqSlots : k = q.rob[i].sq_index[a]
    BY <1>18, <2>1 DEF Cores, RobEntries
  <2>3. q.SQ[k].id = q.rob[i].id /\ q.SQ[k].va = a
    BY <1>3, <1>18, <2>1, <2>2 DEF StoresOK, StoreNames
  <2>4. q.rob[i].id # q.rob[head].id
    BY <1>3, <1>4, <1>5, <2>1, RingIds
  <2>5. t.SQ[k] = q.SQ[k]
    BY <1>9, <1>14, <2>3, <2>4
  <2> QED
    BY <2>1, <2>2, <2>3, <2>5
<1>19. ASSUME NEW i \in RobSlots, t.rob[i].id # 0, t.rob[i].executed # "no"
       PROVE  StoresIn(t, i)'
  <2>1. t.rob[i] = q.rob[i]
    BY <1>14, <1>19, EmptyRobIs
  <2>2. StoresIn(q, i)
    BY <1>3, <1>19, <2>1 DEF StoresOK, StoreNames
  <2> QED
    BY <1>7, <2>1, <2>2 DEF StoresIn, Instr
<1>20. StoresOK(t)'
  <2>1. StoreNames(t)'
    BY <1>17, <1>18, <1>19 DEF StoreNames
  <2> QED
    BY <1>11, <1>15, <1>16, <2>1 DEF StoresOK
<1> QED
  BY <1>2, <1>20 DEF StoresOK, Filled, InOrder, StoreNames, StoreIsOwned, StoresIn, Instr

LEMMA InitStores ==
  ASSUME Init
  PROVE  StoresOK(o3)
<1>1. PICK q \in Cores : q = o3
  BY InitOrdered DEF Ordered
<1>2. /\ RingTyped /\ sq_head = 0 /\ q.sq_tail = 0 /\ q.STA = StoreAddresses
      /\ \A k \in SqSlots : q.SQ[k] = EmptySq
      /\ \A i \in RobSlots : q.rob[i] = EmptyRob
  BY <1>1, InitOrdered DEF Init
<1>3. (\A k \in SqSlots : q.SQ[k].id = 0) /\ \A i \in RobSlots : q.rob[i].id = 0
  BY <1>2, EmptySqIs, EmptyRobIs DEF EmptyRob
<1>4. Filled(q, 0)
  <2>1. (sq_head + 0) % SQ_SIZE = 0
    BY <1>2, Sizes, ModSmall
  <2>2. \A k \in SqSlots : ~(Place(k) < 0)
    BY <1>2, SqPlaces, Sizes
  <2> QED
    BY <1>2, <1>3, <2>1, <2>2, Sizes DEF Filled
<1>5. q.STA \in Seq(Nat) /\ Sorted(q.STA)
  BY <1>2, AddressesTyped DEF RingTyped
<1>6. InOrder(q)
  BY <1>3, <1>5 DEF InOrder
<1>7. StoreNames(q)
  BY <1>3 DEF StoreNames
<1> QED
  BY <1>1, <1>4, <1>6, <1>7 DEF StoresOK

LEMMA StoresInOrder ==
  ASSUME RingTyped, Ordered(o3), StoresOK(o3)
  PROVE  StoreQueueInOrder
<1>1. PICK q \in Cores : q = o3 /\ StoresOK(q)
  BY DEF Ordered
<1>2. PICK u \in Nat : Filled(q, u)
  BY <1>1 DEF StoresOK
<1> DEFINE used == SqSlots \ FreeSq(q)
           f == [k \in used |-> Place(k)]
<1>3. u \in 0 .. SQ_SIZE /\ SQ_SIZE \in Nat /\ used = {k \in SqSlots : Place(k) < u}
  BY <1>2, Sizes DEF Filled, FreeSq
<1>4. /\ \A k \in SqSlots : Place(k) \in 0 .. SQ_SIZE - 1
      /\ \A k, m \in SqSlots : Place(k) = Place(m) => k = m
  BY SqPlaces
<1> HIDE DEF used
<1>5. \A z \in 0 .. u - 1 : \E k \in used : Place(k) = z
  <2> TAKE z \in 0 .. u - 1
  <2>1. z \in 0 .. SQ_SIZE - 1
    BY <1>3
  <2>2. PICK k \in SqSlots : Place(k) = z
    BY <2>1, SqPlaces
  <2> QED
    BY <1>3, <2>2
<1>6. \A k \in used : Place(k) \in 0 .. u - 1
  BY <1>3, <1>4
<1>7. Cardinality(used) = u
  <2>1. IsFiniteSet(SqSlots)
    BY <1>3, FS_Interval DEF SqSlots
  <2>2. IsFiniteSet(used)
    BY <1>3, <2>1, FS_Subset
  <2>3. f \in [used -> 0 .. u - 1]
    BY <1>6
  <2>4. \A k, m \in used : f[k] = f[m] => k = m
    BY <1>3, <1>4
  <2>5. \A z \in 0 .. u - 1 : \E k \in used : f[k] = z
    BY <1>5
  <2> HIDE DEF f
  <2>6. Cardinality(0 .. u - 1) = Cardinality(used)
    BY <2>2, <2>3, <2>4, <2>5, SameCardinality
  <2>7. Cardinality(0 .. u - 1) = u
    BY <1>3, FS_Interval
  <2> QED
    BY <2>6, <2>7
<1>8. {Place(k) : k \in used} = 0 .. Cardinality(used) - 1
  BY <1>5, <1>6, <1>7
<1>9. \A k, m \in used : Place(k) <= Place(m) => q.SQ[k].id <= q.SQ[m].id
  BY <1>1 DEF StoresOK, InOrder, used, FreeSq
<1>10. (sq_head + Cardinality(used)) % SQ_SIZE = q.sq_tail
  BY <1>2, <1>7 DEF Filled
<1> QED
  BY <1>1, <1>8, <1>9, <1>10 DEF StoreQueueInOrder, used, Place

(* The store queue and the store array stay in step. *)
LEMMA StoresInvariant == Spec => []StoresOK(o3)
<1>1. Init => StoresOK(o3)
  BY InitStores
<1>2. ASSUME RingTyped, Ordered(o3), StoresOK(o3), [Next]_vars
      PROVE  StoresOK(o3)'
  <2>1. CASE Dispatch
    BY <1>2, <2>1, DispatchStores
  <2>2. CASE Schedule
    BY <1>2, <2>2, ScheduleStores
  <2>3. CASE Execute
    BY <1>2, <2>3, ExecuteStores
  <2>4. CASE Complete
    BY <1>2, <2>4, CompleteStores
  <2>5. CASE ScheduleMemory
    BY <1>2, <2>5, ScheduleMemoryStores
  <2>6. CASE TranslateStore
    BY <1>2, <2>6, TranslateStoreQuiet, QuietStores DEF TranslateStore
  <2>7. CASE TranslateLoad
    BY <1>2, <2>7, TranslateLoadQuiet, QuietStores DEF TranslateLoad
  <2>8. CASE Translated
    BY <1>2, <2>8, TranslatedQuiet, QuietStores DEF Translated
  <2>9. CASE ExecuteStore
    BY <1>2, <2>9, ExecuteStoreQuiet, QuietStores DEF ExecuteStore
  <2>10. CASE ExecuteLoad
    BY <1>2, <2>10, ExecuteLoadQuiet, QuietStores DEF ExecuteLoad
  <2>11. CASE Loaded
    BY <1>2, <2>11, LoadedQuiet, QuietStores DEF Loaded
  <2>12. CASE Retire
    BY <1>2, <2>12, RetireStores
  <2>13. CASE UNCHANGED vars
    <3>1. program' = program /\ sq_head' = sq_head /\ o3' = o3
      BY <2>13 DEF vars
    <3> QED
      BY <1>2, <3>1, StoresPrime
  <2> HIDE DEF RingTyped, Ordered, StoresOK
  <2> QED
    BY Zenon, <1>2, <2>1, <2>2, <2>3, <2>4, <2>5, <2>6, <2>7, <2>8, <2>9, <2>10, <2>11, <2>12, <2>13
    DEF Next
<1> HIDE DEF RingTyped, Ordered, StoresOK
<1>3. [](RingTyped /\ Ordered(o3)) /\ Init /\ [][Next]_vars => []StoresOK(o3)
  BY <1>1, <1>2, PTL
<1> QED
  BY <1>3, OrderOfIssue, PTL DEF Spec

(* The used entries of the store queue are those from its head to its tail, in the order of *)
(* the trace, each named by the ROB entry whose store it holds, and an instruction that     *)
(* executes has all its stores there: what add_store_queue() appends in the order of the    *)
(* store array is what retire_rob() takes off the head, for every trace and size.           *)
THEOREM StoreQueueStaysInOrder == Spec => []StoreQueueInOrder
<1>1. RingTyped /\ Ordered(o3) /\ StoresOK(o3) => StoreQueueInOrder
  BY StoresInOrder
<1> HIDE DEF RingTyped, Ordered, StoresOK, StoreQueueInOrder
<1> QED
  BY <1>1, OrderOfIssue, StoresInvariant, PTL

-------------------------------------------------------------------------------
(* The last store before a load *)

(* p is the last store to a before instruction n or, if that has retired or there is none, 0. *)
Produces(p, n, a) == IF p = 0 THEN LastStore(n, a) <= retired ELSE p = LastStore(n, a)

(* The stores that have retired are the same to all that have not. *)
LEMMA RetiredStores ==
  ASSUME retired \in Nat, NEW n \in Nat, retired < n, NEW a, LastStore(n, a) <= retired
  PROVE  LastStore(retired + 1, a) = LastStore(n, a)
<1>1. PICK m \in Nat : m = retired + 1
  OBVIOUS
<1>2. PICK x \in Nat : /\ x = LastStore(n, a) /\ (x # 0 => x \in 1 .. n - 1 /\ a \in program[x].stores)
                       /\ \A k \in 1 .. n - 1 : a \in program[k].stores => k <= x
  BY LastStoreIs
<1>3. PICK y \in Nat : /\ y = LastStore(m, a) /\ (y # 0 => y \in 1 .. m - 1 /\ a \in program[y].stores)
                       /\ \A k \in 1 .. m - 1 : a \in program[k].stores => k <= y
  BY LastStoreIs
<1>4. x <= y
  <2>1. x # 0 => x \in 1 .. m - 1
    BY <1>1, <1>2
  <2> QED
    BY <1>2, <1>3, <2>1
<1>5. y <= x
  <2>1. y # 0 => y \in 1 .. n - 1
    BY <1>1, <1>3
  <2> QED
    BY <1>2, <1>3, <2>1
<1> QED
  BY <1>1, <1>2, <1>3, <1>4, <1>5

(* What mem_RAW_dependency() finds *)
LEMMA DependencyIsLastStore ==
  ASSUME RingTyped, NEW q \in Cores, RingOK(q), NEW i \in RobSlots, q.rob[i].id # 0, NEW a,
         NEW w, w = mem_RAW_dependency(q, i, a)
  PROVE  /\ w \in RobSlots \cup {None}
         /\ w = None => LastStore(q.rob[i].id, a) <= retired
         /\ w # None => w \in Older(i) /\ q.rob[w].id = LastStore(q.rob[i].id, a)
<1> DEFINE S == {j \in Older(i) : a \in Instr(q, j).stores}
<1>1. S \in SUBSET RobSlots
  BY DEF Older
<1>2. PICK n \in Nat : n = q.rob[i].id /\ n \in retired + 1 .. dispatched /\ retired \in Nat /\ dispatched \in Nat
  BY RingIds DEF Cores, RobEntries, RingTyped
<1>3. PICK m \in Nat : /\ m = LastStore(n, a) /\ (m # 0 => m \in 1 .. n - 1 /\ a \in program[m].stores)
                       /\ \A k \in 1 .. n - 1 : a \in program[k].stores => k <= m
  BY LastStoreIs
<1>4. ASSUME m > retired
      PROVE  \E j \in S : q.rob[j].id = m
  <2>1. m # 0 /\ m \in retired + 1 .. dispatched /\ m < n
    BY <1>2, <1>3, <1>4
  <2>2. PICK j \in RobSlots : q.rob[j].id = m
    BY <2>1, RingIds
  <2>3. j \in Older(i)
    BY <1>2, <2>1, <2>2, RingIds
  <2> QED
    BY <1>3, <2>1, <2>2, <2>3 DEF Instr
<1>5. \A j \in S : q.rob[j].id # 0 /\ q.rob[j].id \in 1 .. n - 1 /\ q.rob[j].id <= m /\ q.rob[j].id > retired
  <2> TAKE j \in S
  <2>1. j \in RobSlots /\ j \in Older(i)
    BY <1>1
  <2>2. PICK x \in Nat : x = q.rob[j].id /\ x # 0 /\ x < n /\ x \in retired + 1 .. dispatched
    BY <1>2, <2>1, RingIds DEF Cores, RobEntries
  <2>3. a \in program[x].stores
    BY <2>2 DEF Instr
  <2>4. x \in 1 .. n - 1
    BY <2>2
  <2> QED
    BY <1>2, <1>3, <2>2, <2>3, <2>4
<1> HIDE DEF S
<1>6. w = Nearest(S)
  BY DEF mem_RAW_dependency, S
<1>7. CASE S = {}
  <2>1. w = None
    BY <1>1, <1>6, <1>7, NearestIs DEF RingTyped
  <2>2. m <= retired
    BY <1>2, <1>4, <1>7
  <2> QED
    BY <1>2, <1>3, <2>1, <2>2
<1>8. CASE S # {}
  <2>1. w \in S /\ w \in RobSlots /\ \A j \in S : Age(j) <= Age(w)
    BY <1>1, <1>6, <1>8, NearestIs DEF RingTyped
  <2>2. PICK x \in Nat : x = q.rob[w].id /\ x # 0 /\ x \in 1 .. n - 1 /\ x <= m /\ x > retired
    BY <1>5, <2>1
  <2>3. PICK j \in S : q.rob[j].id = m
    BY <1>2, <1>4, <2>2
  <2>4. m <= x
    <3>1. Age(j) \in Nat /\ Age(w) \in Nat /\ j \in RobSlots
      BY <1>1, <2>1, AgeFacts, Sizes DEF RingTyped
    <3>2. /\ q.rob[j].id = IF Age(j) < dispatched - retired THEN retired + 1 + Age(j) ELSE 0
          /\ q.rob[w].id = IF Age(w) < dispatched - retired THEN retired + 1 + Age(w) ELSE 0
      BY <2>1, <3>1 DEF RingOK
    <3>3. Age(j) <= Age(w)
      BY <2>1
    <3>4. m # 0
      BY <2>2
    <3> QED
      BY <1>2, <2>2, <2>3, <3>1, <3>2, <3>3, <3>4
  <2>5. w \in Older(i) /\ w # None
    BY <2>1, SlotFacts DEF S
  <2> QED
    BY <1>2, <1>3, <2>1, <2>2, <2>4, <2>5
<1> QED
  BY <1>7, <1>8

-------------------------------------------------------------------------------
(* The effect of the steps on memory operations on their counts *)

KeepsIndex(q, t) ==
  \A j \in RobSlots :
    /\ t.rob[j].id = q.rob[j].id
    /\ t.rob[j].lq_index = q.rob[j].lq_index /\ t.rob[j].sq_index = q.rob[j].sq_index
    /\ t.rob[j].executed = "COMPLETED" <=> q.rob[j].executed = "COMPLETED"
KeepsCounts(q, t) ==
  KeepsIndex(q, t) /\ (\A j \in RobSlots : t.rob[j].ops = q.rob[j].ops) /\ t.inflight_mem = q.inflight_mem
KeepsOps(q, t) ==
  KeepsCounts(q, t) /\ t.LQ = q.LQ /\ t.SQ = q.SQ /\ t.RTL0 = q.RTL0 /\ t.RTS0 = q.RTS0
(* One operation of ROB entry i is done. *)
CountsDown(q, t, i) ==
  /\ KeepsIndex(q, t)
  /\ \A j \in RobSlots : t.rob[j].ops = IF j = i THEN q.rob[j].ops - 1 ELSE q.rob[j].ops
  /\ t.inflight_mem = q.inflight_mem + (IF q.rob[i].ops = 1 THEN 1 ELSE 0)
LoadDone(q, t, s) ==
  /\ CountsDown(q, t, q.LQ[s].rob) /\ t.SQ = q.SQ /\ t.RTL0 = q.RTL0 /\ t.RTS0 = q.RTS0
  /\ \A x \in LqSlots : t.LQ[x] = IF x = s THEN EmptyLq ELSE q.LQ[x]
StoreIsDone(q, t, k) ==
  /\ CountsDown(q, t, q.SQ[k].rob) /\ t.LQ = q.LQ /\ t.RTL0 = q.RTL0 /\ t.RTS0 = q.RTS0
  /\ \A m \in SqSlots : /\ t.SQ[m].id = q.SQ[m].id /\ t.SQ[m].va = q.SQ[m].va /\ t.SQ[m].rob = q.SQ[m].rob
                        /\ t.SQ[m].fetched = IF m = k THEN TRUE ELSE q.SQ[m].fetched
(* A load of a by entry i enters slot s, behind the instruction p or, if p is 0, behind none. *)
LoadAdded(q, t, i, a, s, p) ==
  /\ \A j \in RobSlots :
       /\ t.rob[j].id = q.rob[j].id /\ t.rob[j].sq_index = q.rob[j].sq_index
       /\ t.rob[j].executed = q.rob[j].executed /\ t.rob[j].ops = q.rob[j].ops
       /\ \A b \in Addresses : t.rob[j].lq_index[b] = IF j = i /\ b = a THEN s ELSE q.rob[j].lq_index[b]
  /\ \A x \in LqSlots : t.LQ[x] = IF x = s THEN [id |-> q.rob[i].id, va |-> a, rob |-> i, producer |-> p]
                                  ELSE q.LQ[x]
  /\ t.RTL0 = IF p = 0 THEN q.RTL0 \cup {s} ELSE q.RTL0
  /\ t.SQ = q.SQ /\ t.RTS0 = q.RTS0 /\ t.inflight_mem = q.inflight_mem
(* What the loads got and which entries depend on a store *)
SameDependents(q, t) == \A j \in RobSlots : t.rob[j].dependents = q.rob[j].dependents
SameData(q, t) == SameDependents(q, t) /\ t.performed = q.performed
(* The load in slot s gets the data of n. *)
Gets(q, t, s, n) ==
  SameDependents(q, t) /\ t.performed = q.performed \cup {<<q.LQ[s].id, q.LQ[s].va, n>>}
(* Entry i is noted as a dependent of entry w. *)
Notes(q, t, w, i) ==
  /\ t.performed = q.performed
  /\ \A j \in RobSlots : t.rob[j].dependents =
       IF j = w THEN q.rob[j].dependents \cup {i} ELSE q.rob[j].dependents
(* Entry i depends on the one that holds instruction p. *)
DependsOn(q, t, i, p) ==
  /\ t.performed = q.performed
  /\ \A j \in RobSlots : t.rob[j].dependents =
       IF p # 0 /\ q.rob[j].id = p THEN q.rob[j].dependents \cup {i} ELSE q.rob[j].dependents

LEMMA OpDoneIs ==
  ASSUME NEW q \in Cores, NEW i \in RobSlots
  PROVE  LET t == OpDone(q, i)
         IN /\ t \in Cores /\ CountsDown(q, t, i) /\ SameData(q, t)
            /\ t.LQ = q.LQ /\ t.SQ = q.SQ /\ t.RTL0 = q.RTL0 /\ t.RTS0 = q.RTS0
<1>1. PICK e : e = [q.rob[i] EXCEPT !.ops = q.rob[i].ops - 1]
  OBVIOUS
<1>2. PICK m : m = q.inflight_mem + (IF q.rob[i].ops = 1 THEN 1 ELSE 0)
  OBVIOUS
<1>3. q.rob[i] \in RobEntries /\ q.rob[i].ops - 1 \in Int /\ m \in Int
  BY <1>2 DEF Cores, RobEntries
<1>4. /\ e \in RobEntries /\ e.id = q.rob[i].id /\ e.executed = q.rob[i].executed
      /\ e.sq_index = q.rob[i].sq_index /\ e.lq_index = q.rob[i].lq_index /\ e.ops = q.rob[i].ops - 1
      /\ e.dependents = q.rob[i].dependents
  BY <1>1, <1>3, EntryChanges
<1>5. PICK R \in [RobSlots -> RobEntries] : R = [q.rob EXCEPT ![i] = e]
  BY <1>4 DEF Cores
<1>6. \A j \in RobSlots : R[j] = IF j = i THEN e ELSE q.rob[j]
  BY <1>5 DEF Cores
<1>7. PICK t : t = OpDone(q, i)
  OBVIOUS
<1>8. t = [q EXCEPT !.rob = R, !.inflight_mem = m]
  BY <1>1, <1>2, <1>5, <1>7 DEF OpDone, Cores
<1>9. t \in Cores
  BY <1>3, <1>8 DEF Cores
<1>10. /\ t.rob = R /\ t.inflight_mem = m /\ t.performed = q.performed
       /\ t.LQ = q.LQ /\ t.SQ = q.SQ /\ t.RTL0 = q.RTL0 /\ t.RTS0 = q.RTS0
  BY <1>8 DEF Cores
<1>11. CountsDown(q, t, i)
  BY <1>2, <1>4, <1>6, <1>10 DEF CountsDown, KeepsIndex
<1>12. SameData(q, t)
  BY <1>4, <1>6, <1>10 DEF SameData, SameDependents
<1> QED
  BY <1>7, <1>9, <1>10, <1>11, <1>12

LEMMA PerformKeepsOps ==
  ASSUME NEW q \in Cores, NEW s \in LqSlots, NEW n \in Nat \cup {None}
  PROVE  Perform(q, s, n) \in Cores /\ KeepsOps(q, Perform(q, s, n)) /\ Gets(q, Perform(q, s, n), s, n)
<1>1. PICK P : P = q.performed \cup {<<q.LQ[s].id, q.LQ[s].va, n>>}
  OBVIOUS
<1>2. PICK t : t = Perform(q, s, n)
  OBVIOUS
<1>3. t = [q EXCEPT !.performed = P]
  BY <1>1, <1>2 DEF Perform
<1>4. /\ t.rob = q.rob /\ t.inflight_mem = q.inflight_mem /\ t.performed = P
      /\ t.LQ = q.LQ /\ t.SQ = q.SQ /\ t.RTL0 = q.RTL0 /\ t.RTS0 = q.RTS0
  BY <1>3 DEF Cores
<1>5. t \in Cores
  BY <1>2, PerformQuiet DEF Quiet
<1>6. KeepsOps(q, t)
  BY <1>4 DEF KeepsOps, KeepsCounts, KeepsIndex
<1>7. Gets(q, t, s, n)
  BY <1>1, <1>4 DEF Gets, SameDependents
<1> QED
  BY <1>2, <1>5, <1>6, <1>7

LEMMA ReleaseIs ==
  ASSUME NEW q \in Cores, NEW s \in LqSlots
  PROVE  LET t == release_load_queue(q, s)
         IN /\ t \in Cores /\ KeepsCounts(q, t) /\ t.SQ = q.SQ /\ t.RTL0 = q.RTL0 /\ t.RTS0 = q.RTS0
            /\ SameData(q, t)
            /\ \A x \in LqSlots : t.LQ[x] = IF x = s THEN EmptyLq ELSE q.LQ[x]
<1>1. PICK L : L = [q.LQ EXCEPT ![s] = EmptyLq]
  OBVIOUS
<1>2. \A x \in LqSlots : L[x] = IF x = s THEN EmptyLq ELSE q.LQ[x]
  BY <1>1 DEF Cores
<1>3. PICK t : t = release_load_queue(q, s)
  OBVIOUS
<1>4. t = [q EXCEPT !.LQ = L]
  BY <1>1, <1>3 DEF release_load_queue, Cores
<1>5. /\ t.rob = q.rob /\ t.inflight_mem = q.inflight_mem /\ t.performed = q.performed
      /\ t.LQ = L /\ t.SQ = q.SQ /\ t.RTL0 = q.RTL0 /\ t.RTS0 = q.RTS0
  BY <1>4 DEF Cores
<1>6. t \in Cores
  BY <1>3, ReleaseQuiet DEF Quiet
<1> QED
  BY <1>2, <1>3, <1>5, <1>6 DEF KeepsCounts, KeepsIndex, SameData, SameDependents

(* An operation is done and its slot of the load queue released. *)
LEMMA AnsweredIs ==
  ASSUME NEW q \in Cores, NEW s \in LqSlots
  PROVE  LET t == release_load_queue(OpDone(q, q.LQ[s].rob), s)
         IN t \in Cores /\ LoadDone(q, t, s) /\ SameData(q, t)
<1>1. PICK i \in RobSlots : i = q.LQ[s].rob
  BY DEF Cores, LqEntries
<1>2. PICK u : u = OpDone(q, i)
  OBVIOUS
<1>3. /\ u \in Cores /\ CountsDown(q, u, i) /\ SameData(q, u)
      /\ u.LQ = q.LQ /\ u.SQ = q.SQ /\ u.RTL0 = q.RTL0 /\ u.RTS0 = q.RTS0
  BY <1>2, OpDoneIs
<1>4. PICK t : t = release_load_queue(u, s)
  OBVIOUS
<1>5. /\ t \in Cores /\ KeepsCounts(u, t) /\ t.SQ = u.SQ /\ t.RTL0 = u.RTL0 /\ t.RTS0 = u.RTS0
      /\ \A x \in LqSlots : t.LQ[x] = IF x = s THEN EmptyLq ELSE u.LQ[x]
      /\ SameData(u, t)
  BY <1>3, <1>4, ReleaseIs
<1>6. CountsDown(q, t, i)
  BY <1>3, <1>5 DEF CountsDown, KeepsCounts, KeepsIndex
<1>7. SameData(q, t)
  BY <1>3, <1>5 DEF SameData, SameDependents
<1> QED
  BY <1>1, <1>2, <1>3, <1>4, <1>5, <1>6, <1>7 DEF LoadDone

LEMMA ForwardIs ==
  ASSUME NEW q \in Cores, NEW s \in LqSlots, NEW a
  PROVE  /\ Forward(q, s, a) \in Cores /\ LoadDone(q, Forward(q, s, a), s)
         /\ Gets(q, Forward(q, s, a), s, IF q.LQ[s].va = a THEN q.LQ[s].producer ELSE None)
<1>1. PICK n : n = IF q.LQ[s].va = a THEN q.LQ[s].producer ELSE None
  OBVIOUS
<1>2. n \in Nat \cup {None}
  BY <1>1 DEF Cores, LqEntries
<1>3. PICK u : u = Perform(q, s, n)
  OBVIOUS
<1>4. u \in Cores /\ KeepsOps(q, u) /\ Gets(q, u, s, n)
  BY <1>2, <1>3, PerformKeepsOps
<1>5. PICK t : t = release_load_queue(OpDone(u, u.LQ[s].rob), s)
  OBVIOUS
<1>6. t \in Cores /\ LoadDone(u, t, s) /\ SameData(u, t)
  BY <1>4, <1>5, AnsweredIs
<1>7. Forward(q, s, a) = t
  BY <1>1, <1>3, <1>4, <1>5 DEF Forward, KeepsOps
<1>8. LoadDone(q, t, s)
  <2>1. q.LQ[s].rob \in RobSlots /\ u.LQ = q.LQ
    BY <1>4 DEF Cores, LqEntries, KeepsOps
  <2> QED
    BY <1>4, <1>6, <2>1 DEF LoadDone, CountsDown, KeepsOps, KeepsCounts, KeepsIndex
<1>9. Gets(q, t, s, n)
  BY <1>4, <1>6 DEF Gets, SameData, SameDependents
<1> QED
  BY <1>1, <1>6, <1>7, <1>8, <1>9

LEMMA DependentKeepsOps ==
  ASSUME NEW q \in Cores, NEW w \in RobSlots, NEW i \in RobSlots,
         q.rob[w].id # 0, q.rob[w].id < q.rob[i].id,
         NEW t, t = [q EXCEPT !.rob[w].dependents = q.rob[w].dependents \cup {i}]
  PROVE  t \in Cores /\ KeepsOps(q, t) /\ Notes(q, t, w, i)
<1>1. PICK D \in SUBSET RobSlots : D = q.rob[w].dependents \cup {i}
  BY DEF Cores, RobEntries
<1>2. PICK e : e = [q.rob[w] EXCEPT !.dependents = D]
  OBVIOUS
<1>3. q.rob[w] \in RobEntries
  BY DEF Cores
<1>4. /\ e \in RobEntries /\ e.id = q.rob[w].id /\ e.executed = q.rob[w].executed
      /\ e.sq_index = q.rob[w].sq_index /\ e.lq_index = q.rob[w].lq_index /\ e.ops = q.rob[w].ops
      /\ e.dependents = D
  BY <1>2, <1>3, EntryChanges
<1>5. PICK R \in [RobSlots -> RobEntries] : R = [q.rob EXCEPT ![w] = e]
  BY <1>4 DEF Cores
<1>6. \A j \in RobSlots : R[j] = IF j = w THEN e ELSE q.rob[j]
  BY <1>5 DEF Cores
<1>7. t = [q EXCEPT !.rob = R]
  BY <1>1, <1>2, <1>5 DEF Cores
<1>8. /\ t.rob = R /\ t.inflight_mem = q.inflight_mem /\ t.performed = q.performed
      /\ t.LQ = q.LQ /\ t.SQ = q.SQ /\ t.RTL0 = q.RTL0 /\ t.RTS0 = q.RTS0
  BY <1>7 DEF Cores
<1>9. t \in Cores
  BY <1>7 DEF Cores
<1>10. \A j \in RobSlots : t.rob[j].dependents =
         IF j = w THEN q.rob[j].dependents \cup {i} ELSE q.rob[j].dependents
  BY <1>1, <1>4, <1>6, <1>8
<1>11. KeepsOps(q, t)
  BY <1>4, <1>6, <1>8 DEF KeepsOps, KeepsCounts, KeepsIndex
<1> QED
  BY <1>8, <1>9, <1>10, <1>11 DEF Notes

LEMMA StoreDoneIs ==
  ASSUME NEW q \in Cores, NEW k \in SqSlots
  PROVE  StoreDone(q, k) \in Cores /\ StoreIsDone(q, StoreDone(q, k), k) /\ SameData(q, StoreDone(q, k))
<1>1. PICK e : e = [q.SQ[k] EXCEPT !.fetched = TRUE]
  OBVIOUS
<1>2. /\ e \in SqEntries /\ e.id = q.SQ[k].id /\ e.va = q.SQ[k].va /\ e.rob = q.SQ[k].rob /\ e.fetched
      /\ q.SQ[k].rob \in RobSlots
  BY <1>1 DEF Cores, SqEntries
<1>3. PICK S \in [SqSlots -> SqEntries] : S = [q.SQ EXCEPT ![k] = e]
  BY <1>2 DEF Cores
<1>4. \A m \in SqSlots : /\ S[m].id = q.SQ[m].id /\ S[m].va = q.SQ[m].va /\ S[m].rob = q.SQ[m].rob
                         /\ S[m].fetched = IF m = k THEN TRUE ELSE q.SQ[m].fetched
  <2>1. \A m \in SqSlots : S[m] = IF m = k THEN e ELSE q.SQ[m]
    BY <1>3 DEF Cores
  <2>2. e.fetched = TRUE
    BY <1>1 DEF Cores, SqEntries
  <2> QED
    BY <1>2, <2>1, <2>2
<1>5. PICK u : u = [q EXCEPT !.SQ[k].fetched = TRUE]
  OBVIOUS
<1>6. u = [q EXCEPT !.SQ = S]
  BY <1>1, <1>3, <1>5 DEF Cores
<1>7. u \in Cores
  BY <1>6 DEF Cores
<1>8. /\ u.rob = q.rob /\ u.inflight_mem = q.inflight_mem /\ u.performed = q.performed
      /\ u.LQ = q.LQ /\ u.SQ = S /\ u.RTL0 = q.RTL0 /\ u.RTS0 = q.RTS0
  BY <1>6 DEF Cores
<1>9. PICK i \in RobSlots : i = q.SQ[k].rob
  BY <1>2
<1>10. PICK t : t = OpDone(u, i)
  OBVIOUS
<1>11. /\ t \in Cores /\ CountsDown(u, t, i) /\ SameData(u, t)
       /\ t.LQ = u.LQ /\ t.SQ = u.SQ /\ t.RTL0 = u.RTL0 /\ t.RTS0 = u.RTS0
  BY <1>7, <1>10, OpDoneIs
<1>12. CountsDown(q, t, i)
  BY <1>8, <1>11 DEF CountsDown, KeepsIndex
<1>13. StoreDone(q, k) = t
  BY <1>5, <1>9, <1>10 DEF StoreDone
<1>14. SameData(q, t)
  BY <1>8, <1>11 DEF SameData, SameDependents
<1> QED
  BY ZenonT(30), <1>4, <1>8, <1>9, <1>11, <1>12, <1>13, <1>14 DEF StoreIsDone

LEMMA AddedLoadIs ==
  ASSUME NEW q \in Cores, NEW i \in RobSlots, NEW a \in Addresses, NEW s \in LqSlots,
         NEW w \in RobSlots \cup {None}
  PROVE  /\ AddedLoad(q, i, a, s, w) \in Cores
         /\ w # None /\ q.rob[w].id # 0 => /\ LoadAdded(q, AddedLoad(q, i, a, s, w), i, a, s, q.rob[w].id)
                                           /\ SameData(q, AddedLoad(q, i, a, s, w))
         /\ w = None => LET t == [AddedLoad(q, i, a, s, w) EXCEPT !.RTL0 = @ \cup {s}]
                        IN t \in Cores /\ LoadAdded(q, t, i, a, s, 0) /\ SameData(q, t)
<1>1. PICK x : x = [q.rob[i].lq_index EXCEPT ![a] = s]
  OBVIOUS
<1>2. PICK e : e = [q.rob[i] EXCEPT !.lq_index = x]
  OBVIOUS
<1>3. q.rob[i] \in RobEntries
  BY DEF Cores
<1>4. /\ x \in [Addresses -> LqSlots \cup {None}]
      /\ \A b \in Addresses : x[b] = IF b = a THEN s ELSE q.rob[i].lq_index[b]
  BY <1>1, <1>3 DEF RobEntries
<1>5. /\ e \in RobEntries /\ e.id = q.rob[i].id /\ e.executed = q.rob[i].executed
      /\ e.sq_index = q.rob[i].sq_index /\ e.lq_index = x /\ e.ops = q.rob[i].ops
      /\ e.dependents = q.rob[i].dependents
  BY <1>2, <1>3, <1>4, EntryChanges
<1>6. PICK p : p = IF w = None THEN 0 ELSE q.rob[w].id
  OBVIOUS
<1>7. PICK l : l = [id |-> q.rob[i].id, va |-> a, rob |-> i, producer |-> p]
  OBVIOUS
<1>8. l \in LqEntries
  BY <1>6, <1>7 DEF Cores, RobEntries, LqEntries
<1>9. PICK R \in [RobSlots -> RobEntries] : R = [q.rob EXCEPT ![i] = e]
  BY <1>5 DEF Cores
<1>10. PICK L \in [LqSlots -> LqEntries] : L = [q.LQ EXCEPT ![s] = l]
  BY <1>8 DEF Cores
<1>11. \A j \in RobSlots : R[j] = IF j = i THEN e ELSE q.rob[j]
  BY <1>9 DEF Cores
<1>12. \A y \in LqSlots : L[y] = IF y = s THEN l ELSE q.LQ[y]
  BY <1>10 DEF Cores
<1>13. PICK t : t = AddedLoad(q, i, a, s, w)
  OBVIOUS
<1>14. t = [q EXCEPT !.rob = R, !.LQ = L]
  BY <1>1, <1>2, <1>6, <1>7, <1>9, <1>10, <1>13 DEF AddedLoad, Cores, RobEntries
<1>15. t \in Cores
  BY <1>14 DEF Cores
<1>16. /\ t.rob = R /\ t.inflight_mem = q.inflight_mem /\ t.performed = q.performed
       /\ t.LQ = L /\ t.SQ = q.SQ /\ t.RTL0 = q.RTL0 /\ t.RTS0 = q.RTS0
  BY <1>14 DEF Cores
<1>17. PICK u : u = [t EXCEPT !.RTL0 = t.RTL0 \cup {s}]
  OBVIOUS
<1>18. u \in Cores
  BY <1>15, <1>17 DEF Cores
<1>19. /\ u.rob = R /\ u.inflight_mem = q.inflight_mem /\ u.performed = q.performed
       /\ u.LQ = L /\ u.SQ = q.SQ /\ u.RTL0 = q.RTL0 \cup {s} /\ u.RTS0 = q.RTS0
  BY <1>15, <1>16, <1>17 DEF Cores
<1>20. \A j \in RobSlots :
         /\ R[j].id = q.rob[j].id /\ R[j].sq_index = q.rob[j].sq_index
         /\ R[j].executed = q.rob[j].executed /\ R[j].ops = q.rob[j].ops
         /\ \A b \in Addresses : R[j].lq_index[b] = IF j = i /\ b = a THEN s ELSE q.rob[j].lq_index[b]
  BY <1>4, <1>5, <1>11
<1>21. p # 0 => LoadAdded(q, t, i, a, s, p)
  BY <1>7, <1>12, <1>16, <1>20 DEF LoadAdded
<1>22. p = 0 => LoadAdded(q, u, i, a, s, p)
  BY <1>7, <1>12, <1>19, <1>20 DEF LoadAdded
<1>23. SameData(q, t) /\ SameData(q, u)
  BY <1>5, <1>11, <1>16, <1>19 DEF SameData, SameDependents
<1> QED
  BY <1>6, <1>13, <1>15, <1>17, <1>18, <1>21, <1>22, <1>23

(* A load that is tried stays out, or enters a free slot of the load queue, to go to memory or
   to wait for its store or to be forwarded at once. *)
LoadEnters(q, t, i, a, s, p, u, v) ==
  /\ q.LQ[s].id = 0 /\ q.rob[i].lq_index[a] = None /\ Produces(p, q.rob[i].id, a)
  /\ LoadAdded(q, u, i, a, s, p) /\ SameData(q, u)
  /\ KeepsOps(u, v) /\ DependsOn(u, v, i, p)
  /\ \/ t = v
     \/ p # 0 /\ t \in Cores /\ LoadDone(v, t, s) /\ Gets(v, t, s, p) /\ Forwarding(v, s, a) # {}
LoadTried(q, t, i, a) ==
  \/ t = q
  \/ \E s \in LqSlots, p \in Nat, u, v \in Cores : LoadEnters(q, t, i, a, s, p, u, v)

LEMMA KeepsOpsReflexive ==
  ASSUME NEW q
  PROVE  KeepsOps(q, q)
BY DEF KeepsOps, KeepsCounts, KeepsIndex

LEMMA TryLoadIs ==
  ASSUME RingTyped, NEW q \in Cores, RingOK(q), NEW i \in RobSlots, q.rob[i].id # 0, NEW a \in Addresses
  PROVE  LoadTried(q, TryLoad(q, i, a), i, a)
<1>1. CASE q.rob[i].lq_index[a] # None \/ FreeLq(q) = {}
  BY <1>1 DEF TryLoad, LoadTried
<1>2. CASE ~(q.rob[i].lq_index[a] # None \/ FreeLq(q) = {})
  <2>1. PICK s \in LqSlots : s = Smallest(FreeLq(q)) /\ q.LQ[s].id = 0
    <3>1. FreeLq(q) \in SUBSET Nat /\ FreeLq(q) \subseteq LqSlots
      BY SlotFacts DEF FreeLq
    <3>2. Smallest(FreeLq(q)) \in FreeLq(q)
      BY <1>2, <3>1, SmallestIs
    <3> QED
      BY <3>2 DEF FreeLq
  <2>2. PICK w \in RobSlots \cup {None} :
          /\ w = mem_RAW_dependency(q, i, a)
          /\ w = None => LastStore(q.rob[i].id, a) <= retired
          /\ w # None => w \in Older(i) /\ q.rob[w].id = LastStore(q.rob[i].id, a)
    BY DependencyIsLastStore
  <2>3. PICK t : t = AddedLoad(q, i, a, s, w)
    OBVIOUS
  <2>4. PICK r : r = TryLoad(q, i, a)
    OBVIOUS
  <2>5. r = add_load_queue(q, i, a)
    BY <1>2, <2>4 DEF TryLoad
  <2>6. CASE w = None
    <3>1. r = [t EXCEPT !.RTL0 = @ \cup {s}]
      BY <2>1, <2>2, <2>3, <2>5, <2>6 DEF add_load_queue
    <3>2. r \in Cores /\ LoadAdded(q, r, i, a, s, 0) /\ SameData(q, r)
      BY <2>3, <2>6, <3>1, AddedLoadIs
    <3>3. KeepsOps(r, r) /\ DependsOn(r, r, i, 0)
      BY KeepsOpsReflexive DEF DependsOn
    <3>4. Produces(0, q.rob[i].id, a)
      BY <2>2, <2>6 DEF Produces
    <3>5. LoadEnters(q, r, i, a, s, 0, r, r)
      BY <1>2, <2>1, <3>2, <3>3, <3>4 DEF LoadEnters
    <3> QED
      BY <2>4, <3>2, <3>5 DEF LoadTried
  <2>7. CASE w # None
    <3>1. w \in RobSlots /\ q.rob[w].id # 0 /\ q.rob[w].id < q.rob[i].id
      BY <2>2, <2>7, RingIds
    <3>2. PICK p \in Nat : p = q.rob[w].id
      BY <3>1 DEF Cores, RobEntries
    <3>3. t \in Cores /\ LoadAdded(q, t, i, a, s, p) /\ SameData(q, t) /\ p # 0
      BY <2>3, <2>7, <3>1, <3>2, AddedLoadIs
    <3>4. t.rob[w].id # 0 /\ t.rob[w].id < t.rob[i].id
      BY <3>1, <3>3 DEF LoadAdded
    <3>5. PICK v : v = [t EXCEPT !.rob[w].dependents = t.rob[w].dependents \cup {i}]
      OBVIOUS
    <3>6. v \in Cores /\ KeepsOps(t, v) /\ Notes(t, v, w, i)
      BY <3>1, <3>3, <3>4, <3>5, DependentKeepsOps
    <3>7. DependsOn(t, v, i, p)
      <4>1. \A j \in RobSlots : t.rob[j].id = p <=> j = w
        BY <3>1, <3>2, <3>3, RingIds DEF LoadAdded
      <4> QED
        BY <3>3, <3>6, <4>1 DEF DependsOn, Notes
    <3>8. r = v \/ (r = Forward(v, s, a) /\ Forwarding(v, s, a) # {})
      BY <2>1, <2>2, <2>3, <2>5, <2>7, <3>5 DEF add_load_queue
    <3>9. /\ Forward(v, s, a) \in Cores /\ LoadDone(v, Forward(v, s, a), s)
          /\ Gets(v, Forward(v, s, a), s, p)
      <4>1. v.LQ[s].va = a /\ v.LQ[s].producer = p
        BY <3>3, <3>6 DEF LoadAdded, KeepsOps
      <4> QED
        BY <3>6, <4>1, ForwardIs
    <3>10. Produces(p, q.rob[i].id, a)
      BY <2>2, <2>7, <3>2, <3>3 DEF Produces
    <3>11. LoadEnters(q, r, i, a, s, p, t, v)
      BY <1>2, <2>1, <3>3, <3>6, <3>7, <3>8, <3>9, <3>10 DEF LoadEnters
    <3> QED
      BY <2>4, <3>3, <3>6, <3>11 DEF LoadTried
  <2> QED
    BY <2>6, <2>7
<1> QED
  BY <1>1, <1>2

LEMMA MovedKeepsOps ==
  ASSUME NEW q, NEW t, NEW i \in RobSlots, NEW s, NEW x, NEW w, Moved(q, t, i, s, x, w),
         x = "COMPLETED" <=> q.rob[i].executed = "COMPLETED"
  PROVE  t \in Cores /\ KeepsOps(q, t) /\ SameData(q, t)
<1>1. \A j \in RobSlots : t.rob[j].executed = "COMPLETED" <=> q.rob[j].executed = "COMPLETED"
  BY DEF Moved
<1> QED
  BY <1>1 DEF Moved, KeepsStores, KeepsOps, KeepsCounts, KeepsIndex, SameData, SameDependents

LEMMA ScheduledKeepsOps ==
  ASSUME NEW q \in Cores, NEW i \in RobSlots
  PROVE  /\ Scheduled(q, i) \in Cores /\ KeepsOps(q, Scheduled(q, i))
         /\ SameData(q, Scheduled(q, i))
<1>1. CASE ~AllAdded(q, i)
  BY <1>1, KeepsOpsReflexive DEF Scheduled, SameData, SameDependents
<1>2. CASE AllAdded(q, i)
  <2>1. PICK x : x = IF q.rob[i].executed = "no" THEN "INFLIGHT" ELSE q.rob[i].executed
    OBVIOUS
  <2>2. q.rob[i] \in RobEntries
    BY DEF Cores
  <2>3. x \in Stages /\ q.rob[i].waits \in SUBSET (RobSlots \X Registers) /\ "COMPLETED" \in Stages
    BY <2>1, <2>2 DEF RobEntries, Stages
  <2>4. PICK t : t = Scheduled(q, i)
    OBVIOUS
  <2>5. [q.rob[i] EXCEPT !.scheduled = "COMPLETED", !.executed = x]
          = [q.rob[i] EXCEPT !.scheduled = "COMPLETED", !.executed = x, !.waits = q.rob[i].waits]
    BY <2>2 DEF RobEntries
  <2>6. t = [q EXCEPT !.rob[i] = [q.rob[i] EXCEPT !.scheduled = "COMPLETED", !.executed = x]]
    BY <1>2, <2>1, <2>2, <2>4 DEF Scheduled, RobEntries
  <2>7. Moved(q, t, i, "COMPLETED", x, q.rob[i].waits)
    BY <2>3, <2>5, <2>6, EntryMoves
  <2> QED
    BY <2>1, <2>4, <2>7, MovedKeepsOps
<1> QED
  BY <1>1, <1>2

-------------------------------------------------------------------------------
(* The operations an instruction has left *)

(* Entry s of the load queue is one that its ROB entry knows of. *)
LoadIsOwned(o, s) ==
  LET i == o.LQ[s].rob
  IN /\ o.rob[i].id = o.LQ[s].id /\ o.LQ[s].va \in Instr(o, i).loads
     /\ o.rob[i].lq_index[o.LQ[s].va] = s
LoadNames(o) ==
  \A s \in LqSlots : IF o.LQ[s].id = 0 THEN o.LQ[s].producer = 0 ELSE LoadIsOwned(o, s)

LoadLeft(o, i) ==
  {a \in Instr(o, i).loads :
     \/ o.rob[i].lq_index[a] = None
     \/ o.LQ[o.rob[i].lq_index[a]].id = o.rob[i].id /\ o.LQ[o.rob[i].lq_index[a]].va = a}
StoreLeft(o, i) ==
  {a \in Instr(o, i).stores : o.rob[i].sq_index[a] = None \/ ~o.SQ[o.rob[i].sq_index[a]].fetched}
OpsLeft(o, i) == Cardinality(LoadLeft(o, i)) + Cardinality(StoreLeft(o, i))
(* The memory instructions that update_rob() has to complete *)
IsDue(o, i) ==
  o.rob[i].id # 0 /\ Memory(o.rob[i].id) /\ o.rob[i].ops = 0 /\ o.rob[i].executed # "COMPLETED"
DueEntries(o) == {i \in RobSlots : IsDue(o, i)}
Counted(o) ==
  /\ \A i \in RobSlots : o.rob[i].ops = IF o.rob[i].id = 0 THEN 0 ELSE OpsLeft(o, i)
  /\ \A i \in RobSlots : o.rob[i].executed = "COMPLETED" => o.rob[i].ops = 0
  /\ o.inflight_mem = Cardinality(DueEntries(o))

LEMMA AddressesFinite == IsFiniteSet(Addresses)
<1>1. LastAddress \in Int /\ 1 \in Int
  BY Sizes
<1> QED
  BY <1>1, FS_Interval DEF Addresses

LEMMA LeftFinite ==
  ASSUME RingTyped, NEW o \in Cores, RingOK(o), NEW i \in RobSlots, o.rob[i].id # 0
  PROVE  /\ IsFiniteSet(LoadLeft(o, i)) /\ Cardinality(LoadLeft(o, i)) \in Nat
         /\ IsFiniteSet(StoreLeft(o, i)) /\ Cardinality(StoreLeft(o, i)) \in Nat
         /\ OpsLeft(o, i) \in Nat
         /\ OpsLeft(o, i) = 0 => LoadLeft(o, i) = {} /\ StoreLeft(o, i) = {}
<1>1. IsFiniteSet(Addresses)
  BY AddressesFinite
<1>2. LoadLeft(o, i) \subseteq Addresses /\ StoreLeft(o, i) \subseteq Addresses
  BY StoreInstr DEF LoadLeft, StoreLeft
<1>3. IsFiniteSet(LoadLeft(o, i)) /\ IsFiniteSet(StoreLeft(o, i))
  BY <1>1, <1>2, FS_Subset
<1>4. Cardinality(LoadLeft(o, i)) \in Nat /\ Cardinality(StoreLeft(o, i)) \in Nat
  BY <1>3, FS_CardinalityType
<1>5. OpsLeft(o, i) = 0 => Cardinality(LoadLeft(o, i)) = 0 /\ Cardinality(StoreLeft(o, i)) = 0
  BY <1>4 DEF OpsLeft
<1> QED
  BY <1>3, <1>4, <1>5, FS_EmptySet DEF OpsLeft

LEMMA DueFinite ==
  ASSUME NEW o
  PROVE  IsFiniteSet(DueEntries(o)) /\ Cardinality(DueEntries(o)) \in Nat
<1>1. IsFiniteSet(RobSlots)
  BY Sizes, FS_Interval DEF RobSlots
<1>2. DueEntries(o) \subseteq RobSlots
  BY DEF DueEntries
<1> QED
  BY <1>1, <1>2, FS_Subset, FS_CardinalityType

LEMMA KeepsCounted ==
  ASSUME NEW q \in Cores, NEW t, LoadNames(q), Counted(q), KeepsCounts(q, t), t.LQ = q.LQ, t.SQ = q.SQ
  PROVE  LoadNames(t) /\ Counted(t)
<1>1. /\ t.LQ = q.LQ /\ t.SQ = q.SQ /\ t.inflight_mem = q.inflight_mem
      /\ \A j \in RobSlots :
           /\ t.rob[j].id = q.rob[j].id /\ t.rob[j].ops = q.rob[j].ops
           /\ t.rob[j].lq_index = q.rob[j].lq_index /\ t.rob[j].sq_index = q.rob[j].sq_index
           /\ t.rob[j].executed = "COMPLETED" <=> q.rob[j].executed = "COMPLETED"
  BY DEF KeepsCounts, KeepsIndex
<1>2. \A j \in RobSlots : OpsLeft(t, j) = OpsLeft(q, j)
  <2>1. \A j \in RobSlots : LoadLeft(t, j) = LoadLeft(q, j)
    BY <1>1 DEF LoadLeft, Instr
  <2>2. \A j \in RobSlots : StoreLeft(t, j) = StoreLeft(q, j)
    BY <1>1 DEF StoreLeft, Instr
  <2> QED
    BY <2>1, <2>2 DEF OpsLeft
<1>3. DueEntries(t) = DueEntries(q)
  <2>1. \A j \in RobSlots : IsDue(t, j) <=> IsDue(q, j)
    BY <1>1 DEF IsDue
  <2> QED
    BY <2>1 DEF DueEntries
<1>4. \A s \in LqSlots : q.LQ[s].rob \in RobSlots
  BY DEF Cores, LqEntries
<1>5. \A s \in LqSlots : LoadIsOwned(q, s) => LoadIsOwned(t, s)
  BY <1>1, <1>4 DEF LoadIsOwned, Instr
<1> QED
  BY <1>1, <1>2, <1>3, <1>5 DEF LoadNames, Counted

(* One operation less left, and counted *)
LEMMA OneOpDone ==
  ASSUME RingTyped, NEW q \in Cores, RingOK(q), Counted(q), NEW i \in RobSlots, q.rob[i].id # 0,
         Memory(q.rob[i].id), NEW t \in Cores, CountsDown(q, t, i), OpsLeft(q, i) # 0,
         OpsLeft(t, i) = OpsLeft(q, i) - 1,
         \A j \in RobSlots \ {i} : q.rob[j].id # 0 => OpsLeft(t, j) = OpsLeft(q, j)
  PROVE  Counted(t)
<1>1. OpsLeft(q, i) \in Nat
  BY LeftFinite
<1>2. q.rob[i].ops = OpsLeft(q, i) /\ q.rob[i].executed # "COMPLETED"
  BY DEF Counted
<1>3. /\ \A j \in RobSlots :
           /\ t.rob[j].id = q.rob[j].id
           /\ t.rob[j].executed = "COMPLETED" <=> q.rob[j].executed = "COMPLETED"
           /\ t.rob[j].ops = IF j = i THEN q.rob[j].ops - 1 ELSE q.rob[j].ops
      /\ t.inflight_mem = q.inflight_mem + (IF q.rob[i].ops = 1 THEN 1 ELSE 0)
  BY DEF CountsDown, KeepsIndex
<1>4. \A j \in RobSlots : t.rob[j].ops = IF t.rob[j].id = 0 THEN 0 ELSE OpsLeft(t, j)
  BY <1>2, <1>3 DEF Counted
<1>5. \A j \in RobSlots : t.rob[j].executed = "COMPLETED" => t.rob[j].ops = 0
  BY <1>2, <1>3 DEF Counted
<1>6. i \notin DueEntries(q)
  BY <1>2 DEF DueEntries, IsDue
<1>7. DueEntries(t) = IF q.rob[i].ops = 1 THEN DueEntries(q) \cup {i} ELSE DueEntries(q)
  <2>1. \A j \in RobSlots \ {i} : IsDue(t, j) <=> IsDue(q, j)
    BY <1>3 DEF IsDue
  <2>2. IsDue(t, i) <=> q.rob[i].ops = 1
    BY <1>1, <1>2, <1>3 DEF IsDue
  <2> QED
    BY <1>6, <2>1, <2>2 DEF DueEntries
<1>8. t.inflight_mem = Cardinality(DueEntries(t))
  <2>1. IsFiniteSet(DueEntries(q)) /\ Cardinality(DueEntries(q)) \in Nat
    BY DueFinite
  <2>2. Cardinality(DueEntries(q) \cup {i}) = Cardinality(DueEntries(q)) + 1
    BY <1>6, <2>1, FS_AddElement
  <2> QED
    BY <1>3, <1>7, <2>1, <2>2 DEF Counted
<1> QED
  BY <1>4, <1>5, <1>8 DEF Counted

LEMMA LoadDoneCounted ==
  ASSUME RingTyped, NEW q \in Cores, RingOK(q), LoadNames(q), Counted(q), NEW s \in LqSlots,
         q.LQ[s].id # 0, NEW t \in Cores, LoadDone(q, t, s)
  PROVE  LoadNames(t) /\ Counted(t)
<1>1. PICK i \in RobSlots : i = q.LQ[s].rob
  BY DEF Cores, LqEntries
<1>2. PICK a : a = q.LQ[s].va
  OBVIOUS
<1>3. q.rob[i].id = q.LQ[s].id /\ a \in Instr(q, i).loads /\ q.rob[i].lq_index[a] = s /\ q.rob[i].id # 0
  BY <1>1, <1>2 DEF LoadNames, LoadIsOwned
<1>4. /\ CountsDown(q, t, i) /\ t.SQ = q.SQ
      /\ \A x \in LqSlots : t.LQ[x] = IF x = s THEN EmptyLq ELSE q.LQ[x]
      /\ \A j \in RobSlots :
           /\ t.rob[j].id = q.rob[j].id
           /\ t.rob[j].lq_index = q.rob[j].lq_index /\ t.rob[j].sq_index = q.rob[j].sq_index
  BY <1>1 DEF LoadDone, CountsDown, KeepsIndex
<1>5. EmptyLq.id = 0 /\ EmptyLq.producer = 0
  BY DEF EmptyLq
<1>6. LoadNames(t)
  <2> SUFFICES ASSUME NEW x \in LqSlots, x # s
               PROVE  IF t.LQ[x].id = 0 THEN t.LQ[x].producer = 0 ELSE LoadIsOwned(t, x)
    BY <1>4, <1>5 DEF LoadNames
  <2>1. t.LQ[x] = q.LQ[x] /\ q.LQ[x].rob \in RobSlots
    BY <1>4 DEF Cores, LqEntries
  <2> QED
    BY SMTT(30), <1>4, <2>1 DEF LoadNames, LoadIsOwned, Instr
<1>7. ASSUME NEW j \in RobSlots, q.rob[j].id # 0
      PROVE  /\ StoreLeft(t, j) = StoreLeft(q, j)
             /\ LoadLeft(t, j) = IF j = i THEN LoadLeft(q, j) \ {a} ELSE LoadLeft(q, j)
  <2>1. StoreLeft(t, j) = StoreLeft(q, j)
    BY <1>4 DEF StoreLeft, Instr
  <2>2. Instr(q, j).loads = Instr(t, j).loads /\ Instr(q, j).loads \subseteq Addresses
    BY <1>4, <1>7, StoreInstr DEF Instr
  <2>3. ASSUME NEW b \in Instr(q, j).loads
        PROVE  b \in LoadLeft(t, j) <=> b \in LoadLeft(q, j) /\ ~(j = i /\ b = a)
    <3>1. PICK x \in LqSlots \cup {None} : x = q.rob[j].lq_index[b]
      BY <2>2 DEF Cores, RobEntries
    <3>2. b \in LoadLeft(q, j) <=> x = None \/ (q.LQ[x].id = q.rob[j].id /\ q.LQ[x].va = b)
      BY <3>1 DEF LoadLeft
    <3>3. b \in LoadLeft(t, j) <=> x = None \/ (t.LQ[x].id = q.rob[j].id /\ t.LQ[x].va = b)
      BY <1>4, <2>2, <3>1 DEF LoadLeft
    <3>4. CASE x = s
      <4>1. x # None /\ t.LQ[x].id = 0
        BY <1>4, <1>5, <3>4, SlotFacts
      <4>2. b \notin LoadLeft(t, j)
        BY <1>7, <3>3, <4>1
      <4>3. b \in LoadLeft(q, j) => j = i /\ b = a
        BY <1>2, <1>3, <1>7, <3>2, <3>4, <4>1, RingIds
      <4> QED
        BY <4>2, <4>3
    <3>5. CASE x # s
      <4>1. x = None \/ t.LQ[x] = q.LQ[x]
        BY <1>4, <3>5
      <4>2. ~(j = i /\ b = a)
        BY SMTT(30), <1>3, <3>1, <3>5
      <4> QED
        BY <3>2, <3>3, <4>1, <4>2
    <3> QED
      BY <3>4, <3>5
  <2> QED
    BY <2>1, <2>2, <2>3 DEF LoadLeft
<1>8. a \in LoadLeft(q, i)
  BY <1>2, <1>3 DEF LoadLeft
<1>9. OpsLeft(q, i) # 0 /\ OpsLeft(t, i) = OpsLeft(q, i) - 1
  <2>1. IsFiniteSet(LoadLeft(q, i)) /\ Cardinality(LoadLeft(q, i)) \in Nat /\ Cardinality(StoreLeft(q, i)) \in Nat
    BY <1>3, LeftFinite
  <2>2. Cardinality(LoadLeft(q, i) \ {a}) = Cardinality(LoadLeft(q, i)) - 1 /\ Cardinality(LoadLeft(q, i)) # 0
    <3>1. PICK S : S = LoadLeft(q, i)
      OBVIOUS
    <3>2. Cardinality(S \ {a}) = Cardinality(S) - 1
      BY <1>8, <2>1, <3>1, FS_RemoveElement
    <3>3. Cardinality(S) # 0
      BY <1>8, <2>1, <3>1, FS_EmptySet
    <3> QED
      BY <3>1, <3>2, <3>3
  <2>3. LoadLeft(t, i) = LoadLeft(q, i) \ {a} /\ StoreLeft(t, i) = StoreLeft(q, i)
    BY <1>3, <1>7
  <2> QED
    BY <2>1, <2>2, <2>3 DEF OpsLeft
<1>10. \A j \in RobSlots \ {i} : q.rob[j].id # 0 => OpsLeft(t, j) = OpsLeft(q, j)
  BY <1>7 DEF OpsLeft
<1>11. Memory(q.rob[i].id)
  BY <1>3 DEF Memory, Instr
<1>12. Counted(t)
  BY <1>3, <1>4, <1>9, <1>10, <1>11, OneOpDone
<1> QED
  BY <1>6, <1>12

LEMMA StoreDoneCounted ==
  ASSUME RingTyped, NEW q \in Cores, RingOK(q), StoreNames(q), LoadNames(q), Counted(q),
         NEW k \in SqSlots, q.SQ[k].id # 0, ~q.SQ[k].fetched, NEW t \in Cores, StoreIsDone(q, t, k)
  PROVE  LoadNames(t) /\ Counted(t)
<1>1. PICK i \in RobSlots : i = q.SQ[k].rob
  BY DEF Cores, SqEntries
<1>2. PICK a : a = q.SQ[k].va
  OBVIOUS
<1>3. q.rob[i].id = q.SQ[k].id /\ a \in Instr(q, i).stores /\ q.rob[i].sq_index[a] = k /\ q.rob[i].id # 0
  BY <1>1, <1>2 DEF StoreNames, StoreIsOwned
<1>4. /\ CountsDown(q, t, i) /\ t.LQ = q.LQ
      /\ \A m \in SqSlots : t.SQ[m].fetched = IF m = k THEN TRUE ELSE q.SQ[m].fetched
      /\ \A j \in RobSlots :
           /\ t.rob[j].id = q.rob[j].id
           /\ t.rob[j].lq_index = q.rob[j].lq_index /\ t.rob[j].sq_index = q.rob[j].sq_index
  BY <1>1 DEF StoreIsDone, CountsDown, KeepsIndex
<1>5. LoadNames(t)
  <2>1. \A x \in LqSlots : q.LQ[x].rob \in RobSlots
    BY DEF Cores, LqEntries
  <2> QED
    BY <1>4, <2>1 DEF LoadNames, LoadIsOwned, Instr
<1>6. ASSUME NEW j \in RobSlots, q.rob[j].id # 0
      PROVE  /\ LoadLeft(t, j) = LoadLeft(q, j)
             /\ StoreLeft(t, j) = IF j = i THEN StoreLeft(q, j) \ {a} ELSE StoreLeft(q, j)
  <2>1. LoadLeft(t, j) = LoadLeft(q, j)
    BY <1>4 DEF LoadLeft, Instr
  <2>2. Instr(q, j).stores = Instr(t, j).stores /\ Instr(q, j).stores \subseteq Addresses
    BY <1>4, <1>6, StoreInstr DEF Instr
  <2>3. ASSUME NEW b \in Instr(q, j).stores
        PROVE  b \in StoreLeft(t, j) <=> b \in StoreLeft(q, j) /\ ~(j = i /\ b = a)
    <3>1. PICK x \in SqSlots \cup {None} : x = q.rob[j].sq_index[b]
      BY <2>2 DEF Cores, RobEntries
    <3>2. b \in StoreLeft(q, j) <=> x = None \/ ~q.SQ[x].fetched
      BY <3>1 DEF StoreLeft
    <3>3. b \in StoreLeft(t, j) <=> x = None \/ ~t.SQ[x].fetched
      BY <1>4, <2>2, <3>1 DEF StoreLeft
    <3>4. CASE x = k
      <4>1. x # None /\ t.SQ[x].fetched
        BY <1>4, <3>4, SlotFacts
      <4>2. q.SQ[x].id = q.rob[j].id /\ q.SQ[x].va = b
        BY <1>6, <2>2, <3>1, <4>1 DEF StoreNames
      <4>3. j = i /\ b = a
        BY <1>2, <1>3, <1>6, <3>4, <4>2, RingIds
      <4> QED
        BY <3>3, <4>1, <4>3
    <3>5. CASE x # k
      <4>1. x = None \/ t.SQ[x].fetched = q.SQ[x].fetched
        BY <1>4, <3>5
      <4>2. ~(j = i /\ b = a)
        BY <1>3, <3>1, <3>5
      <4> QED
        BY <3>2, <3>3, <4>1, <4>2
    <3> QED
      BY <3>4, <3>5
  <2> QED
    BY <2>1, <2>2, <2>3 DEF StoreLeft
<1>7. a \in StoreLeft(q, i)
  BY <1>3 DEF StoreLeft
<1>8. OpsLeft(q, i) # 0 /\ OpsLeft(t, i) = OpsLeft(q, i) - 1
  <2>1. IsFiniteSet(StoreLeft(q, i)) /\ Cardinality(LoadLeft(q, i)) \in Nat /\ Cardinality(StoreLeft(q, i)) \in Nat
    BY <1>3, LeftFinite
  <2>2. Cardinality(StoreLeft(q, i) \ {a}) = Cardinality(StoreLeft(q, i)) - 1 /\ Cardinality(StoreLeft(q, i)) # 0
    <3>1. PICK S : S = StoreLeft(q, i)
      OBVIOUS
    <3>2. Cardinality(S \ {a}) = Cardinality(S) - 1
      BY <1>7, <2>1, <3>1, FS_RemoveElement
    <3>3. Cardinality(S) # 0
      BY <1>7, <2>1, <3>1, FS_EmptySet
    <3> QED
      BY <3>1, <3>2, <3>3
  <2>3. LoadLeft(t, i) = LoadLeft(q, i) /\ StoreLeft(t, i) = StoreLeft(q, i) \ {a}
    BY <1>3, <1>6
  <2> QED
    BY <2>1, <2>2, <2>3 DEF OpsLeft
<1>9. \A j \in RobSlots \ {i} : q.rob[j].id # 0 => OpsLeft(t, j) = OpsLeft(q, j)
  BY <1>6 DEF OpsLeft
<1>10. Memory(q.rob[i].id)
  BY <1>3 DEF Memory, Instr
<1>11. Counted(t)
  BY <1>3, <1>4, <1>8, <1>9, <1>10, OneOpDone
<1> QED
  BY <1>5, <1>11

(* A load that is added is one that is left, as before. *)
LEMMA LoadAddedCounted ==
  ASSUME RingTyped, NEW q \in Cores, RingOK(q), LoadNames(q), Counted(q),
         NEW i \in RobSlots, q.rob[i].id # 0, NEW a \in Instr(q, i).loads, NEW s \in LqSlots, NEW p \in Nat,
         q.LQ[s].id = 0, q.rob[i].lq_index[a] = None, NEW t \in Cores, LoadAdded(q, t, i, a, s, p)
  PROVE  LoadNames(t) /\ Counted(t)
<1>1. /\ t.SQ = q.SQ /\ t.inflight_mem = q.inflight_mem
      /\ \A x \in LqSlots : x # s => t.LQ[x] = q.LQ[x]
      /\ t.LQ[s].id = q.rob[i].id /\ t.LQ[s].va = a /\ t.LQ[s].rob = i
      /\ \A j \in RobSlots :
           /\ t.rob[j].id = q.rob[j].id /\ t.rob[j].sq_index = q.rob[j].sq_index
           /\ t.rob[j].executed = q.rob[j].executed /\ t.rob[j].ops = q.rob[j].ops
           /\ \A b \in Addresses : t.rob[j].lq_index[b] = IF j = i /\ b = a THEN s ELSE q.rob[j].lq_index[b]
  BY DEF LoadAdded
<1>2. a \in Addresses
  BY StoreInstr
<1>3. LoadNames(t)
  <2>1. ASSUME NEW x \in LqSlots, x # s
        PROVE  IF t.LQ[x].id = 0 THEN t.LQ[x].producer = 0 ELSE LoadIsOwned(t, x)
    <3>1. t.LQ[x] = q.LQ[x] /\ q.LQ[x].rob \in RobSlots
      BY <1>1, <2>1 DEF Cores, LqEntries
    <3>2. PICK j \in RobSlots : j = q.LQ[x].rob
      BY <3>1
    <3>3. PICK b : j = q.LQ[x].rob /\ b = q.LQ[x].va
      BY <3>2
    <3>4. CASE q.LQ[x].id # 0
      <4>1. q.rob[j].id = q.LQ[x].id /\ b \in Instr(q, j).loads /\ q.rob[j].lq_index[b] = x
        BY <3>2, <3>3, <3>4 DEF LoadNames, LoadIsOwned
      <4>2. b \in Addresses
        BY <3>4, <4>1, StoreInstr
      <4>3. ~(j = i /\ b = a)
        BY <4>1, SlotFacts
      <4>4. t.rob[j].id = t.LQ[x].id /\ b \in Instr(t, j).loads /\ t.rob[j].lq_index[b] = x
        BY <1>1, <3>1, <4>1, <4>2, <4>3 DEF Instr
      <4> QED
        BY <3>1, <3>2, <3>3, <3>4, <4>4 DEF LoadIsOwned
    <3>5. CASE q.LQ[x].id = 0
      BY <3>1, <3>5 DEF LoadNames
    <3> QED
      BY <3>4, <3>5
  <2>2. LoadIsOwned(t, s) /\ t.LQ[s].id # 0
    BY SMTT(30), <1>1, <1>2 DEF LoadIsOwned, Instr
  <2> QED
    BY <2>1, <2>2 DEF LoadNames
<1>4. ASSUME NEW j \in RobSlots, q.rob[j].id # 0
      PROVE  LoadLeft(t, j) = LoadLeft(q, j) /\ StoreLeft(t, j) = StoreLeft(q, j)
  <2>1. StoreLeft(t, j) = StoreLeft(q, j)
    BY <1>1 DEF StoreLeft, Instr
  <2>2. Instr(q, j).loads = Instr(t, j).loads /\ Instr(q, j).loads \subseteq Addresses
    BY <1>1, <1>4, StoreInstr DEF Instr
  <2>3. ASSUME NEW b \in Instr(q, j).loads
        PROVE  b \in LoadLeft(t, j) <=> b \in LoadLeft(q, j)
    <3>1. PICK x \in LqSlots \cup {None} : x = q.rob[j].lq_index[b]
      BY <2>2 DEF Cores, RobEntries
    <3>2. b \in LoadLeft(q, j) <=> x = None \/ (q.LQ[x].id = q.rob[j].id /\ q.LQ[x].va = b)
      BY <3>1 DEF LoadLeft
    <3>3. CASE j = i /\ b = a
      <4>1. b \in LoadLeft(q, j)
        BY <3>3 DEF LoadLeft
      <4>2. t.rob[j].lq_index[b] = s
        BY <1>1, <1>2, <3>3
      <4>3. b \in LoadLeft(t, j)
        BY <1>1, <2>2, <3>3, <4>2 DEF LoadLeft
      <4> QED
        BY <4>1, <4>3
    <3>4. CASE ~(j = i /\ b = a)
      <4>1. t.rob[j].lq_index[b] = x
        BY <1>1, <2>2, <3>1, <3>4
      <4>2. b \in LoadLeft(t, j) <=> x = None \/ (t.LQ[x].id = q.rob[j].id /\ t.LQ[x].va = b)
        BY <1>1, <2>2, <4>1 DEF LoadLeft
      <4>3. CASE x = s
        <5>1. x # None /\ b \notin LoadLeft(q, j)
          BY <1>4, <3>2, <4>3, SlotFacts
        <5>2. ~(t.LQ[s].id = q.rob[j].id /\ t.LQ[s].va = b)
          BY <1>1, <3>4, RingIds
        <5> QED
          BY <4>2, <4>3, <5>1, <5>2
      <4>4. CASE x # s
        <5>1. x = None \/ t.LQ[x] = q.LQ[x]
          BY <1>1, <4>4
        <5> QED
          BY <3>2, <4>2, <5>1
      <4> QED
        BY <4>3, <4>4
    <3> QED
      BY <3>3, <3>4
  <2> QED
    BY <2>1, <2>2, <2>3 DEF LoadLeft
<1>5. \A j \in RobSlots : q.rob[j].id # 0 => OpsLeft(t, j) = OpsLeft(q, j)
  BY <1>4 DEF OpsLeft
<1>6. DueEntries(t) = DueEntries(q)
  <2>1. \A j \in RobSlots : IsDue(t, j) <=> IsDue(q, j)
    BY <1>1 DEF IsDue
  <2> QED
    BY <2>1 DEF DueEntries
<1> QED
  BY <1>1, <1>3, <1>5, <1>6 DEF Counted

(* A store that is added as well *)
LEMMA StoreAddedCounted ==
  ASSUME RingTyped, NEW q \in Cores, RingOK(q), StoresOK(q), LoadNames(q), Counted(q),
         NEW i \in RobSlots, q.rob[i].id # 0, NEW a \in Instr(q, i).stores,
         NEW t \in Cores, KeepsIssue(q, t), StoreAdded(q, t, i, a)
  PROVE  LoadNames(t) /\ Counted(t) /\ q.sq_tail \in SqSlots /\ q.SQ[q.sq_tail].id = 0
<1>1. PICK k : k = q.sq_tail
  OBVIOUS
<1>2. /\ t.LQ = q.LQ /\ t.inflight_mem = q.inflight_mem
      /\ \A m \in SqSlots : m # k => t.SQ[m] = q.SQ[m]
      /\ t.SQ[k].fetched = FALSE
      /\ \A j \in RobSlots :
           /\ t.rob[j].id = q.rob[j].id /\ t.rob[j].lq_index = q.rob[j].lq_index
           /\ t.rob[j].executed = q.rob[j].executed /\ t.rob[j].ops = q.rob[j].ops
           /\ \A b \in Addresses : t.rob[j].sq_index[b] = IF j = i /\ b = a THEN k ELSE q.rob[j].sq_index[b]
  BY <1>1 DEF StoreAdded, KeepsIssue
<1>3. a \in Addresses
  BY StoreInstr
<1>4. k \in SqSlots /\ q.SQ[k].id = 0
  <2>1. PICK u \in Nat : Filled(q, u)
    BY DEF StoresOK
  <2>2. FreeSq(q) # {}
    BY DEF StoreAdded
  <2>3. u \in 0 .. SQ_SIZE - 1 /\ Place(k) = u /\ k \in SqSlots
    BY SMTT(30), <1>1, <2>1, <2>2, SqTailPlace
  <2> QED
    BY <2>1, <2>3 DEF Filled
<1>5. LoadNames(t)
  <2>1. \A x \in LqSlots : q.LQ[x].rob \in RobSlots
    BY DEF Cores, LqEntries
  <2> QED
    BY <1>2, <2>1 DEF LoadNames, LoadIsOwned, Instr
<1>6. ASSUME NEW j \in RobSlots, q.rob[j].id # 0
      PROVE  LoadLeft(t, j) = LoadLeft(q, j) /\ StoreLeft(t, j) = StoreLeft(q, j)
  <2>1. LoadLeft(t, j) = LoadLeft(q, j)
    BY <1>2 DEF LoadLeft, Instr
  <2>2. Instr(q, j).stores = Instr(t, j).stores /\ Instr(q, j).stores \subseteq Addresses
    BY <1>2, <1>6, StoreInstr DEF Instr
  <2>3. ASSUME NEW b \in Instr(q, j).stores
        PROVE  b \in StoreLeft(t, j) <=> b \in StoreLeft(q, j)
    <3>1. PICK x \in SqSlots \cup {None} : x = q.rob[j].sq_index[b]
      BY <2>2 DEF Cores, RobEntries
    <3>2. CASE j = i /\ b = a
      <4>1. b \in StoreLeft(q, j)
        BY <3>2 DEF StoreLeft, StoreAdded
      <4>2. t.rob[j].sq_index[b] = k
        BY <1>2, <1>3, <3>2
      <4>3. b \in StoreLeft(t, j)
        BY <1>2, <2>2, <4>2 DEF StoreLeft
      <4> QED
        BY <4>1, <4>3
    <3>3. CASE ~(j = i /\ b = a)
      <4>1. t.rob[j].sq_index[b] = x
        BY <1>2, <2>2, <3>1, <3>3
      <4>2. x = None \/ (x \in SqSlots /\ q.SQ[x].id = q.rob[j].id)
        BY <1>6, <2>2, <3>1 DEF StoresOK, StoreNames
      <4>3. x = None \/ t.SQ[x] = q.SQ[x]
        BY <1>2, <1>4, <1>6, <4>2
      <4> QED
        BY <2>2, <3>1, <4>1, <4>3 DEF StoreLeft
    <3> QED
      BY <3>2, <3>3
  <2> QED
    BY <2>1, <2>2, <2>3 DEF StoreLeft
<1>7. \A j \in RobSlots : q.rob[j].id # 0 => OpsLeft(t, j) = OpsLeft(q, j)
  BY <1>6 DEF OpsLeft
<1>8. DueEntries(t) = DueEntries(q)
  <2>1. \A j \in RobSlots : IsDue(t, j) <=> IsDue(q, j)
    BY <1>2 DEF IsDue
  <2> QED
    BY <2>1 DEF DueEntries
<1>9. Counted(t)
  BY <1>2, <1>7, <1>8 DEF Counted
<1> QED
  BY <1>1, <1>4, <1>5, <1>9

LEMMA CompletedCounted ==
  ASSUME NEW q \in Cores, LoadNames(q), Counted(q), NEW i \in RobSlots, q.rob[i].id # 0,
         q.rob[i].executed = "INFLIGHT", NEW t, Completed(q, t, i)
  PROVE  LoadNames(t) /\ Counted(t)
<1>1. /\ t.LQ = q.LQ /\ t.SQ = q.SQ
      /\ t.inflight_mem = q.inflight_mem - (IF Memory(q.rob[i].id) THEN 1 ELSE 0)
      /\ q.rob[i].ops = 0
      /\ \A j \in RobSlots :
           /\ t.rob[j].id = q.rob[j].id /\ t.rob[j].ops = q.rob[j].ops
           /\ t.rob[j].lq_index = q.rob[j].lq_index /\ t.rob[j].sq_index = q.rob[j].sq_index
           /\ t.rob[j].executed = IF j = i THEN "COMPLETED" ELSE q.rob[j].executed
  BY DEF Completed, KeepsStores
<1>2. \A j \in RobSlots : OpsLeft(t, j) = OpsLeft(q, j)
  <2>1. \A j \in RobSlots : LoadLeft(t, j) = LoadLeft(q, j)
    BY <1>1 DEF LoadLeft, Instr
  <2>2. \A j \in RobSlots : StoreLeft(t, j) = StoreLeft(q, j)
    BY <1>1 DEF StoreLeft, Instr
  <2> QED
    BY <2>1, <2>2 DEF OpsLeft
<1>3. LoadNames(t)
  <2>1. \A x \in LqSlots : q.LQ[x].rob \in RobSlots
    BY DEF Cores, LqEntries
  <2> QED
    BY <1>1, <2>1 DEF LoadNames, LoadIsOwned, Instr
<1>4. DueEntries(t) = DueEntries(q) \ {i}
  <2>1. \A j \in RobSlots \ {i} : IsDue(t, j) <=> IsDue(q, j)
    BY <1>1 DEF IsDue
  <2>2. ~IsDue(t, i)
    BY <1>1 DEF IsDue
  <2> QED
    BY <2>1, <2>2 DEF DueEntries
<1>5. i \in DueEntries(q) <=> Memory(q.rob[i].id)
  BY <1>1 DEF DueEntries, IsDue
<1>6. t.inflight_mem = Cardinality(DueEntries(t))
  <2>1. IsFiniteSet(DueEntries(q)) /\ Cardinality(DueEntries(q)) \in Nat
    BY DueFinite
  <2>2. i \in DueEntries(q) => Cardinality(DueEntries(q) \ {i}) = Cardinality(DueEntries(q)) - 1
    BY <2>1, FS_RemoveElement
  <2>3. i \notin DueEntries(q) => DueEntries(q) \ {i} = DueEntries(q)
    OBVIOUS
  <2>4. q.inflight_mem = Cardinality(DueEntries(q))
    BY DEF Counted
  <2>5. PICK c \in Nat : c = Cardinality(DueEntries(q))
    BY <2>1
  <2>6. CASE Memory(q.rob[i].id)
    <3>1. Cardinality(DueEntries(t)) = c - 1
      BY <1>4, <1>5, <2>2, <2>5, <2>6
    <3>2. t.inflight_mem = c - 1
      BY <1>1, <2>4, <2>5, <2>6
    <3> QED
      BY <3>1, <3>2
  <2>7. CASE ~Memory(q.rob[i].id)
    <3>1. Cardinality(DueEntries(t)) = c
      BY <1>4, <1>5, <2>3, <2>5, <2>7
    <3>2. t.inflight_mem = c
      BY <1>1, <2>4, <2>5, <2>7
    <3> QED
      BY <3>1, <3>2
  <2> QED
    BY <2>6, <2>7
<1>7. \A j \in RobSlots : t.rob[j].executed = "COMPLETED" => t.rob[j].ops = 0
  BY <1>1 DEF Counted
<1>8. \A j \in RobSlots : t.rob[j].ops = IF t.rob[j].id = 0 THEN 0 ELSE OpsLeft(t, j)
  BY <1>1, <1>2 DEF Counted
<1> QED
  BY <1>3, <1>6, <1>7, <1>8 DEF Counted

LEMMA EnteredCounted ==
  ASSUME RingTyped, NEW q \in Cores, RingOK(q), LoadNames(q), Counted(q), q.rob[tail].id = 0,
         NEW n \in 1 .. Len(program), NEW t, Entered(q, t, n)
  PROVE  LoadNames(t) /\ Counted(t)
<1>1. tail \in RobSlots
  BY DEF RingTyped
<1>2. /\ t.LQ = q.LQ /\ t.SQ = q.SQ /\ t.inflight_mem = q.inflight_mem
      /\ \A j \in RobSlots : j # tail => t.rob[j] = q.rob[j]
      /\ t.rob[tail] = NewRob(n)
  BY <1>1 DEF Entered
<1>3. /\ t.rob[tail].id = n /\ t.rob[tail].executed = "no"
      /\ t.rob[tail].lq_index = [a \in Addresses |-> None] /\ t.rob[tail].sq_index = [a \in Addresses |-> None]
      /\ t.rob[tail].ops = Cardinality(program[n].loads) + Cardinality(program[n].stores)
  BY <1>2, NewRobIs
<1>4. LoadNames(t)
  <2> SUFFICES ASSUME NEW s \in LqSlots, t.LQ[s].id # 0
               PROVE  LoadIsOwned(t, s)
    BY <1>2 DEF LoadNames
  <2>1. LoadIsOwned(q, s) /\ q.LQ[s].rob \in RobSlots
    BY <1>2 DEF LoadNames, Cores, LqEntries
  <2>2. q.LQ[s].rob # tail
    BY <1>2, <2>1 DEF LoadIsOwned
  <2> QED
    BY <1>2, <2>1, <2>2 DEF LoadIsOwned, Instr
<1>5. program[n] \in Instructions
  BY ProgramIs
<1>6. LoadLeft(t, tail) = program[n].loads /\ StoreLeft(t, tail) = program[n].stores
  <2>1. program[n].loads \subseteq Addresses /\ program[n].stores \subseteq Addresses
    BY <1>5 DEF Instructions
  <2>2. Instr(t, tail) = program[n]
    BY <1>3 DEF Instr
  <2>3. \A a \in Addresses : t.rob[tail].lq_index[a] = None /\ t.rob[tail].sq_index[a] = None
    BY <1>3
  <2> QED
    BY <2>1, <2>2, <2>3 DEF LoadLeft, StoreLeft
<1>7. \A j \in RobSlots : j # tail => OpsLeft(t, j) = OpsLeft(q, j)
  <2>1. \A j \in RobSlots : j # tail => LoadLeft(t, j) = LoadLeft(q, j)
    BY <1>2 DEF LoadLeft, Instr
  <2>2. \A j \in RobSlots : j # tail => StoreLeft(t, j) = StoreLeft(q, j)
    BY <1>2 DEF StoreLeft, Instr
  <2> QED
    BY <2>1, <2>2 DEF OpsLeft
<1>8. \A j \in RobSlots : t.rob[j].ops = IF t.rob[j].id = 0 THEN 0 ELSE OpsLeft(t, j)
  <2>1. t.rob[tail].ops = IF t.rob[tail].id = 0 THEN 0 ELSE OpsLeft(t, tail)
    BY <1>3, <1>6 DEF OpsLeft
  <2> QED
    BY <1>2, <1>7, <2>1 DEF Counted
<1>9. DueEntries(t) = DueEntries(q)
  <2>1. \A j \in RobSlots : j # tail => (IsDue(t, j) <=> IsDue(q, j))
    BY <1>2 DEF IsDue
  <2>2. ~IsDue(q, tail)
    BY DEF IsDue
  <2>3. ~IsDue(t, tail)
    <3>1. IsFiniteSet(program[n].loads) /\ IsFiniteSet(program[n].stores)
      <4>1. IsFiniteSet(Addresses)
        BY AddressesFinite
      <4> QED
        BY <1>5, <4>1, FS_Subset DEF Instructions
    <3>2. Cardinality(program[n].loads) \in Nat /\ Cardinality(program[n].stores) \in Nat
      BY <3>1, FS_CardinalityType
    <3>3. Memory(n) => Cardinality(program[n].loads) # 0 \/ Cardinality(program[n].stores) # 0
      BY <3>1, FS_EmptySet DEF Memory
    <3> QED
      BY <1>3, <3>2, <3>3 DEF IsDue
  <2> QED
    BY <2>1, <2>2, <2>3 DEF DueEntries
<1>10. \A j \in RobSlots : t.rob[j].executed = "COMPLETED" => t.rob[j].ops = 0
  BY <1>2, <1>3 DEF Counted
<1> QED
  BY <1>2, <1>4, <1>8, <1>9, <1>10 DEF Counted

LEMMA RetiredCounted ==
  ASSUME RingTyped, NEW q \in Cores, RingOK(q), StoresOK(q), LoadNames(q), Counted(q),
         q.rob[head].id # 0, q.rob[head].executed = "COMPLETED", NEW t, Retires(q, t, Released(q))
  PROVE  /\ LoadNames(t) /\ Counted(t)
         /\ \A k \in SqSlots : k \in Released(q) => q.SQ[k].id # 0 /\ q.SQ[k].fetched
<1>1. head \in RobSlots
  BY DEF RingTyped
<1>2. /\ t.LQ = q.LQ /\ t.inflight_mem = q.inflight_mem
      /\ \A j \in RobSlots : j # head => t.rob[j] = q.rob[j]
      /\ \A k \in SqSlots : k \notin Released(q) => t.SQ[k] = q.SQ[k]
      /\ t.rob[head].id = 0 /\ t.rob[head].ops = 0 /\ t.rob[head].executed = "no"
  BY <1>1, EmptyRobIs DEF Retires
<1>3. LoadLeft(q, head) = {} /\ StoreLeft(q, head) = {}
  <2>1. OpsLeft(q, head) = 0
    BY <1>1 DEF Counted
  <2> QED
    BY <1>1, <2>1, LeftFinite
<1>4. \A k \in SqSlots : k \in Released(q) <=> q.SQ[k].id = q.rob[head].id
  <2>1. PICK u \in Nat : Filled(q, u)
    BY DEF StoresOK
  <2>2. PICK c : c = Cardinality(Instr(q, head).stores)
    OBVIOUS
  <2> QED
    BY <2>1, <2>2, ReleasedPlaces
<1>5. \A k \in SqSlots : k \in Released(q) => q.SQ[k].id # 0 /\ q.SQ[k].fetched
  BY <1>3, <1>4 DEF Released, StoreLeft
<1>6. LoadNames(t)
  <2> SUFFICES ASSUME NEW s \in LqSlots, t.LQ[s].id # 0
               PROVE  LoadIsOwned(t, s)
    BY <1>2 DEF LoadNames
  <2>1. LoadIsOwned(q, s) /\ q.LQ[s].rob \in RobSlots
    BY <1>2 DEF LoadNames, Cores, LqEntries
  <2>2. q.LQ[s].rob # head
    <3> SUFFICES ASSUME q.LQ[s].rob = head
                 PROVE  FALSE
      BY SMTT(30)
    <3>1. q.LQ[s].va \in LoadLeft(q, head)
      BY <2>1 DEF LoadIsOwned, LoadLeft
    <3> QED
      BY <1>3, <3>1
  <2> QED
    BY <1>2, <2>1, <2>2 DEF LoadIsOwned, Instr
<1>7. ASSUME NEW j \in RobSlots, j # head, q.rob[j].id # 0
      PROVE  OpsLeft(t, j) = OpsLeft(q, j)
  <2>1. LoadLeft(t, j) = LoadLeft(q, j)
    BY <1>2, <1>7 DEF LoadLeft, Instr
  <2>2. q.rob[j].id # q.rob[head].id
    BY <1>1, <1>7, RingIds
  <2>3. Instr(q, j).stores \subseteq Addresses
    BY <1>7, StoreInstr
  <2>4. \A a \in Instr(q, j).stores : q.rob[j].sq_index[a] # None =>
          t.SQ[q.rob[j].sq_index[a]] = q.SQ[q.rob[j].sq_index[a]]
    <3> TAKE a \in Instr(q, j).stores
    <3> HAVE q.rob[j].sq_index[a] # None
    <3>1. PICK k \in SqSlots : k = q.rob[j].sq_index[a]
      BY <2>3 DEF Cores, RobEntries
    <3>2. q.SQ[k].id = q.rob[j].id
      BY <1>7, <2>3, <3>1 DEF StoresOK, StoreNames
    <3> QED
      BY <1>2, <1>4, <2>2, <3>1, <3>2
  <2>5. StoreLeft(t, j) = StoreLeft(q, j)
    BY SMTT(30), <1>2, <1>7, <2>4 DEF StoreLeft, Instr
  <2> QED
    BY <2>1, <2>5 DEF OpsLeft
<1>8. \A j \in RobSlots : t.rob[j].ops = IF t.rob[j].id = 0 THEN 0 ELSE OpsLeft(t, j)
  BY <1>2, <1>7 DEF Counted
<1>9. DueEntries(t) = DueEntries(q)
  <2>1. \A j \in RobSlots : IsDue(t, j) <=> IsDue(q, j)
    BY <1>2 DEF IsDue
  <2> QED
    BY <2>1 DEF DueEntries
<1>10. \A j \in RobSlots : t.rob[j].executed = "COMPLETED" => t.rob[j].ops = 0
  BY <1>2 DEF Counted
<1> QED
  BY <1>2, <1>5, <1>6, <1>8, <1>9, <1>10 DEF Counted

-------------------------------------------------------------------------------
(* Where the entries of the queues are: T and S are translated, D and L ask DTLB and L1D. *)

Asked(D, queue, slot) == \E r \in D : r.queue = queue /\ r.slot = slot
(* A load that waits for no store is to be translated, translated, or in DTLB or L1D. *)
LoadPlaced(o, T, D, L, s) ==
  /\ (o.LQ[s].id # 0 /\ o.LQ[s].producer = 0)
       <=> (s \in o.RTL0 \/ s \in T \/ Asked(D, "LQ", s) \/ Asked(L, "LQ", s))
  /\ s \in o.RTL0 => s \notin T /\ ~Asked(D, "LQ", s) /\ ~Asked(L, "LQ", s)
  /\ s \in T => ~Asked(D, "LQ", s) /\ ~Asked(L, "LQ", s)
  /\ Asked(D, "LQ", s) => ~Asked(L, "LQ", s)
(* A store that has not executed is to be translated, in DTLB, or translated. *)
StorePlaced(o, S, D, k) ==
  /\ (o.SQ[k].id # 0 /\ ~o.SQ[k].fetched) <=> (k \in o.RTS0 \/ k \in S \/ Asked(D, "SQ", k))
  /\ k \in o.RTS0 => k \notin S /\ ~Asked(D, "SQ", k)
  /\ k \in S => ~Asked(D, "SQ", k)
(* What a request carries along is what its entry holds. *)
LoadAsks(o, r) == r.queue = "LQ" /\ r.slot \in LqSlots /\ r = Request("LQ", o.LQ, r.slot)
StoreAsks(o, r) == r.queue = "SQ" /\ r.slot \in SqSlots /\ r = Request("SQ", o.SQ, r.slot)
Placed(o, T, S, D, L) ==
  /\ \A s \in LqSlots : LoadPlaced(o, T, D, L, s)
  /\ \A k \in SqSlots : StorePlaced(o, S, D, k)
  /\ \A r \in D : LoadAsks(o, r) \/ StoreAsks(o, r)
  /\ \A r \in L : LoadAsks(o, r)

LEMMA PlacedSame ==
  ASSUME NEW q, NEW t, NEW T, NEW S, NEW D, NEW L, Placed(q, T, S, D, L),
         t.LQ = q.LQ, t.SQ = q.SQ, t.RTL0 = q.RTL0, t.RTS0 = q.RTS0
  PROVE  Placed(t, T, S, D, L)
BY DEF Placed, LoadPlaced, StorePlaced, LoadAsks, StoreAsks

LEMMA PlacedLoadAdded ==
  ASSUME NEW q \in Cores, NEW t, NEW T, NEW S, NEW D, NEW L, Placed(q, T, S, D, L),
         NEW i \in RobSlots, q.rob[i].id # 0, NEW a, NEW s \in LqSlots, NEW p, q.LQ[s].id = 0,
         LoadAdded(q, t, i, a, s, p)
  PROVE  Placed(t, T, S, D, L)
<1>1. /\ \A x \in LqSlots : x # s => t.LQ[x] = q.LQ[x] /\ (x \in t.RTL0 <=> x \in q.RTL0)
      /\ t.LQ[s].id # 0 /\ t.LQ[s].producer = p
      /\ s \in t.RTL0 <=> p = 0 \/ s \in q.RTL0
      /\ t.SQ = q.SQ /\ t.RTS0 = q.RTS0
  BY DEF LoadAdded
<1>2. s \notin q.RTL0 /\ s \notin T /\ ~Asked(D, "LQ", s) /\ ~Asked(L, "LQ", s)
  BY DEF Placed, LoadPlaced
<1>3. \A x \in LqSlots : LoadPlaced(t, T, D, L, x)
  <2>1. LoadPlaced(t, T, D, L, s)
    BY <1>1, <1>2 DEF LoadPlaced
  <2>2. \A x \in LqSlots : x # s => LoadPlaced(t, T, D, L, x)
    BY <1>1 DEF Placed, LoadPlaced
  <2> QED
    BY <2>1, <2>2
<1>4. \A r \in D \cup L : LoadAsks(q, r) => LoadAsks(t, r)
  BY <1>1, <1>2 DEF LoadAsks, Request, Asked
<1>5. \A r \in D : StoreAsks(q, r) => StoreAsks(t, r)
  BY <1>1 DEF StoreAsks
<1>6. \A k \in SqSlots : StorePlaced(t, S, D, k)
  BY <1>1 DEF Placed, StorePlaced
<1> QED
  BY <1>3, <1>4, <1>5, <1>6 DEF Placed

(* A load that waited for its store is done. *)
LEMMA PlacedForwarded ==
  ASSUME NEW q \in Cores, NEW t, NEW T, NEW S, NEW D, NEW L, Placed(q, T, S, D, L),
         NEW s \in LqSlots, q.LQ[s].producer # 0, LoadDone(q, t, s)
  PROVE  Placed(t, T, S, D, L)
<1>1. /\ \A x \in LqSlots : x # s => t.LQ[x] = q.LQ[x]
      /\ t.LQ[s].id = 0 /\ t.SQ = q.SQ /\ t.RTS0 = q.RTS0 /\ t.RTL0 = q.RTL0
  BY DEF LoadDone, EmptyLq
<1>2. s \notin q.RTL0 /\ s \notin T /\ ~Asked(D, "LQ", s) /\ ~Asked(L, "LQ", s)
  BY DEF Placed, LoadPlaced
<1>3. \A x \in LqSlots : LoadPlaced(t, T, D, L, x)
  <2>1. LoadPlaced(t, T, D, L, s)
    BY <1>1, <1>2 DEF LoadPlaced
  <2>2. \A x \in LqSlots : x # s => LoadPlaced(t, T, D, L, x)
    BY <1>1 DEF Placed, LoadPlaced
  <2> QED
    BY <2>1, <2>2
<1>4. \A r \in D \cup L : LoadAsks(q, r) => LoadAsks(t, r)
  BY <1>1, <1>2 DEF LoadAsks, Request, Asked
<1>5. \A r \in D : StoreAsks(q, r) => StoreAsks(t, r)
  BY <1>1 DEF StoreAsks
<1>6. \A k \in SqSlots : StorePlaced(t, S, D, k)
  BY <1>1 DEF Placed, StorePlaced
<1> QED
  BY <1>3, <1>4, <1>5, <1>6 DEF Placed

(* A load that L1D held is done. *)
LEMMA PlacedLoaded ==
  ASSUME NEW q \in Cores, NEW t, NEW T, NEW S, NEW D, NEW L, Placed(q, T, S, D, L),
         NEW r \in L, LoadDone(q, t, r.slot)
  PROVE  Placed(t, T, S, D, L \ {r})
<1>1. LoadAsks(q, r)
  BY DEF Placed
<1>2. PICK s \in LqSlots : s = r.slot
  BY <1>1 DEF LoadAsks
<1>3. /\ \A x \in LqSlots : x # s => t.LQ[x] = q.LQ[x]
      /\ t.LQ[s].id = 0 /\ t.SQ = q.SQ /\ t.RTS0 = q.RTS0 /\ t.RTL0 = q.RTL0
  BY <1>2 DEF LoadDone, EmptyLq
<1>4. Asked(L, "LQ", s)
  BY <1>1, <1>2 DEF Asked, LoadAsks
<1>5. s \notin q.RTL0 /\ s \notin T /\ ~Asked(D, "LQ", s)
  BY <1>4 DEF Placed, LoadPlaced
<1>6. ~Asked(L \ {r}, "LQ", s)
  BY <1>1, <1>2 DEF Placed, LoadAsks, Asked
<1>7. \A x \in LqSlots : x # s => (Asked(L \ {r}, "LQ", x) <=> Asked(L, "LQ", x))
  BY <1>2 DEF Asked
<1>8. \A x \in LqSlots : LoadPlaced(t, T, D, L \ {r}, x)
  <2>1. LoadPlaced(t, T, D, L \ {r}, s)
    BY <1>3, <1>5, <1>6 DEF LoadPlaced
  <2>2. \A x \in LqSlots : x # s => LoadPlaced(t, T, D, L \ {r}, x)
    BY <1>3, <1>7 DEF Placed, LoadPlaced
  <2> QED
    BY <2>1, <2>2
<1>9. \A x \in D \cup (L \ {r}) : LoadAsks(q, x) => LoadAsks(t, x)
  BY <1>3, <1>5, <1>6 DEF LoadAsks, Request, Asked
<1>10. \A x \in D : StoreAsks(q, x) => StoreAsks(t, x)
  BY <1>3 DEF StoreAsks
<1>11. \A k \in SqSlots : StorePlaced(t, S, D, k)
  BY <1>3 DEF Placed, StorePlaced
<1> QED
  BY <1>8, <1>9, <1>10, <1>11 DEF Placed

LEMMA PlacedStoreAdded ==
  ASSUME NEW q \in Cores, NEW t, NEW T, NEW S, NEW D, NEW L, Placed(q, T, S, D, L),
         NEW i \in RobSlots, q.rob[i].id # 0, NEW a, q.sq_tail \in SqSlots, q.SQ[q.sq_tail].id = 0,
         StoreAdded(q, t, i, a)
  PROVE  Placed(t, T, S, D, L)
<1>1. PICK k \in SqSlots : k = q.sq_tail
  OBVIOUS
<1>2. /\ \A x \in SqSlots : x # k => t.SQ[x] = q.SQ[x] /\ (x \in t.RTS0 <=> x \in q.RTS0)
      /\ t.SQ[k].id # 0 /\ t.SQ[k].fetched = FALSE /\ k \in t.RTS0
      /\ t.LQ = q.LQ /\ t.RTL0 = q.RTL0
  BY <1>1 DEF StoreAdded
<1>3. k \notin q.RTS0 /\ k \notin S /\ ~Asked(D, "SQ", k)
  BY <1>1 DEF Placed, StorePlaced
<1>4. \A x \in SqSlots : StorePlaced(t, S, D, x)
  <2>1. StorePlaced(t, S, D, k)
    BY <1>2, <1>3 DEF StorePlaced
  <2>2. \A x \in SqSlots : x # k => StorePlaced(t, S, D, x)
    BY <1>2 DEF Placed, StorePlaced
  <2> QED
    BY <2>1, <2>2
<1>5. \A r \in D : StoreAsks(q, r) => StoreAsks(t, r)
  BY <1>2, <1>3 DEF StoreAsks, Request, Asked
<1>6. \A r \in D \cup L : LoadAsks(q, r) => LoadAsks(t, r)
  BY <1>2 DEF LoadAsks
<1>7. \A s \in LqSlots : LoadPlaced(t, T, D, L, s)
  BY <1>2 DEF Placed, LoadPlaced
<1> QED
  BY <1>4, <1>5, <1>6, <1>7 DEF Placed

LEMMA PlacedStoreDone ==
  ASSUME NEW q \in Cores, NEW t, NEW T, NEW S, NEW D, NEW L, Placed(q, T, S, D, L),
         NEW k \in SqSlots, k \in S, StoreIsDone(q, t, k)
  PROVE  Placed(t, T, S \ {k}, D, L) /\ q.SQ[k].id # 0 /\ ~q.SQ[k].fetched
<1>1. /\ \A x \in SqSlots : /\ t.SQ[x].id = q.SQ[x].id /\ t.SQ[x].rob = q.SQ[x].rob
                            /\ t.SQ[x].fetched = IF x = k THEN TRUE ELSE q.SQ[x].fetched
      /\ t.RTS0 = q.RTS0 /\ t.LQ = q.LQ /\ t.RTL0 = q.RTL0
  BY DEF StoreIsDone
<1>2. k \notin q.RTS0 /\ ~Asked(D, "SQ", k) /\ q.SQ[k].id # 0 /\ ~q.SQ[k].fetched
  BY DEF Placed, StorePlaced
<1>3. \A x \in SqSlots : StorePlaced(t, S \ {k}, D, x)
  <2>1. StorePlaced(t, S \ {k}, D, k)
    BY <1>1, <1>2 DEF StorePlaced
  <2>2. \A x \in SqSlots : x # k => StorePlaced(t, S \ {k}, D, x)
    BY <1>1 DEF Placed, StorePlaced
  <2> QED
    BY <2>1, <2>2
<1>4. \A r \in D : StoreAsks(q, r) => StoreAsks(t, r)
  BY <1>1 DEF StoreAsks, Request
<1>5. \A r \in D \cup L : LoadAsks(q, r) => LoadAsks(t, r)
  BY <1>1 DEF LoadAsks
<1>6. \A s \in LqSlots : LoadPlaced(t, T, D, L, s)
  BY <1>1 DEF Placed, LoadPlaced
<1> QED
  BY <1>2, <1>3, <1>4, <1>5, <1>6 DEF Placed

(* A store or a load asks for its page. *)
LEMMA PlacedTranslateStore ==
  ASSUME NEW q \in Cores, NEW t, NEW T, NEW S, NEW D, NEW L, Placed(q, T, S, D, L),
         NEW k \in SqSlots, k \in q.RTS0, t.RTS0 = q.RTS0 \ {k},
         t.LQ = q.LQ, t.SQ = q.SQ, t.RTL0 = q.RTL0
  PROVE  Placed(t, T, S, D \cup {Request("SQ", q.SQ, k)}, L)
<1>1. PICK x : x = Request("SQ", q.SQ, k)
  OBVIOUS
<1>2. x.queue = "SQ" /\ x.slot = k /\ StoreAsks(t, x)
  BY <1>1 DEF StoreAsks, Request
<1>3. /\ Asked(D \cup {x}, "SQ", k)
      /\ \A m \in SqSlots : m # k => (Asked(D \cup {x}, "SQ", m) <=> Asked(D, "SQ", m))
      /\ \A s \in LqSlots : Asked(D \cup {x}, "LQ", s) <=> Asked(D, "LQ", s)
  BY <1>2 DEF Asked
<1>4. \A m \in SqSlots : StorePlaced(t, S, D \cup {x}, m)
  BY <1>3 DEF Placed, StorePlaced
<1>5. \A s \in LqSlots : LoadPlaced(t, T, D \cup {x}, L, s)
  BY <1>3 DEF Placed, LoadPlaced
<1>6. /\ \A r \in D \cup L : LoadAsks(q, r) => LoadAsks(t, r)
      /\ \A r \in D : StoreAsks(q, r) => StoreAsks(t, r)
  BY DEF LoadAsks, StoreAsks
<1> QED
  BY <1>1, <1>2, <1>4, <1>5, <1>6 DEF Placed

LEMMA PlacedTranslateLoad ==
  ASSUME NEW q \in Cores, NEW t, NEW T, NEW S, NEW D, NEW L, Placed(q, T, S, D, L),
         NEW s \in LqSlots, s \in q.RTL0, t.RTL0 = q.RTL0 \ {s},
         t.LQ = q.LQ, t.SQ = q.SQ, t.RTS0 = q.RTS0
  PROVE  Placed(t, T, S, D \cup {Request("LQ", q.LQ, s)}, L)
<1>1. PICK x : x = Request("LQ", q.LQ, s)
  OBVIOUS
<1>2. x.queue = "LQ" /\ x.slot = s /\ LoadAsks(t, x)
  BY <1>1 DEF LoadAsks, Request
<1>3. /\ Asked(D \cup {x}, "LQ", s)
      /\ \A m \in LqSlots : m # s => (Asked(D \cup {x}, "LQ", m) <=> Asked(D, "LQ", m))
      /\ \A k \in SqSlots : Asked(D \cup {x}, "SQ", k) <=> Asked(D, "SQ", k)
  BY <1>2 DEF Asked
<1>4. \A k \in SqSlots : StorePlaced(t, S, D \cup {x}, k)
  BY <1>3 DEF Placed, StorePlaced
<1>5. \A m \in LqSlots : LoadPlaced(t, T, D \cup {x}, L, m)
  BY <1>3 DEF Placed, LoadPlaced
<1>6. /\ \A r \in D \cup L : LoadAsks(q, r) => LoadAsks(t, r)
      /\ \A r \in D : StoreAsks(q, r) => StoreAsks(t, r)
  BY DEF LoadAsks, StoreAsks
<1> QED
  BY <1>1, <1>2, <1>4, <1>5, <1>6 DEF Placed

(* A translation arrives. *)
LEMMA PlacedTranslated ==
  ASSUME NEW q \in Cores, NEW T, NEW S, NEW D, NEW L, Placed(q, T, S, D, L), NEW r \in D
  PROVE  Placed(q, IF r.queue = "SQ" THEN T ELSE T \cup {r.slot},
                IF r.queue = "SQ" THEN S \cup {r.slot} ELSE S, D \ {r}, L)
<1>1. PICK E : E = D \ {r}
  OBVIOUS
<1>2. CASE StoreAsks(q, r)
  <2>1. PICK k \in SqSlots : k = r.slot
    BY <1>2 DEF StoreAsks
  <2>2. r.queue = "SQ" /\ Asked(D, "SQ", k)
    BY <1>2, <2>1 DEF StoreAsks, Asked
  <2>3. ~Asked(E, "SQ", k)
    BY <1>1, <1>2, <2>1 DEF Placed, StoreAsks, LoadAsks, Asked
  <2>4. /\ \A m \in SqSlots : m # k => (Asked(E, "SQ", m) <=> Asked(D, "SQ", m))
        /\ \A s \in LqSlots : Asked(E, "LQ", s) <=> Asked(D, "LQ", s)
    BY <1>1, <2>1, <2>2 DEF Asked
  <2>5. \A m \in SqSlots : StorePlaced(q, S \cup {k}, E, m)
    BY <2>2, <2>3, <2>4 DEF Placed, StorePlaced
  <2>6. \A s \in LqSlots : LoadPlaced(q, T, E, L, s)
    BY <2>4 DEF Placed, LoadPlaced
  <2> QED
    BY <1>1, <2>1, <2>2, <2>5, <2>6 DEF Placed
<1>3. CASE LoadAsks(q, r)
  <2>1. PICK s \in LqSlots : s = r.slot
    BY <1>3 DEF LoadAsks
  <2>2. r.queue = "LQ" /\ Asked(D, "LQ", s)
    BY <1>3, <2>1 DEF LoadAsks, Asked
  <2>3. ~Asked(E, "LQ", s)
    BY <1>1, <1>3, <2>1 DEF Placed, StoreAsks, LoadAsks, Asked
  <2>4. /\ \A m \in LqSlots : m # s => (Asked(E, "LQ", m) <=> Asked(D, "LQ", m))
        /\ \A k \in SqSlots : Asked(E, "SQ", k) <=> Asked(D, "SQ", k)
    BY <1>1, <2>1, <2>2 DEF Asked
  <2>5. \A k \in SqSlots : StorePlaced(q, S, E, k)
    BY <2>4 DEF Placed, StorePlaced
  <2>6. \A m \in LqSlots : LoadPlaced(q, T \cup {s}, E, L, m)
    BY <2>2, <2>3, <2>4 DEF Placed, LoadPlaced
  <2> QED
    BY <1>1, <2>1, <2>2, <2>5, <2>6 DEF Placed
<1> QED
  BY <1>2, <1>3 DEF Placed

(* A translated load asks for its data. *)
LEMMA PlacedExecuteLoad ==
  ASSUME NEW q \in Cores, NEW t, NEW T, NEW S, NEW D, NEW L, Placed(q, T, S, D, L),
         NEW s \in LqSlots, s \in T, KeepsOps(q, t)
  PROVE  Placed(t, T \ {s}, S, D, L \cup {Request("LQ", q.LQ, s)})
<1>1. PICK x : x = Request("LQ", q.LQ, s)
  OBVIOUS
<1>2. t.LQ = q.LQ /\ t.SQ = q.SQ /\ t.RTL0 = q.RTL0 /\ t.RTS0 = q.RTS0
  BY DEF KeepsOps
<1>3. x.queue = "LQ" /\ x.slot = s /\ LoadAsks(t, x)
  BY <1>1, <1>2 DEF LoadAsks, Request
<1>4. /\ Asked(L \cup {x}, "LQ", s)
      /\ \A m \in LqSlots : m # s => (Asked(L \cup {x}, "LQ", m) <=> Asked(L, "LQ", m))
  BY <1>3 DEF Asked
<1>5. Placed(t, T, S, D, L)
  BY <1>2, PlacedSame
<1>6. \A m \in LqSlots : LoadPlaced(t, T \ {s}, D, L \cup {x}, m)
  BY <1>4, <1>5 DEF Placed, LoadPlaced
<1> QED
  BY <1>1, <1>3, <1>5, <1>6 DEF Placed

(* A retiring instruction takes stores that have executed. *)
LEMMA PlacedRetired ==
  ASSUME NEW q \in Cores, NEW t, NEW T, NEW S, NEW D, NEW L, Placed(q, T, S, D, L), NEW R,
         Retires(q, t, R), \A k \in SqSlots : k \in R => q.SQ[k].id # 0 /\ q.SQ[k].fetched
  PROVE  Placed(t, T, S, D, L)
<1>1. /\ t.LQ = q.LQ /\ t.RTL0 = q.RTL0 /\ t.RTS0 = q.RTS0
      /\ \A k \in SqSlots : t.SQ[k] = IF k \in R THEN EmptySq ELSE q.SQ[k]
  BY DEF Retires
<1>2. \A k \in SqSlots : k \in R => k \notin q.RTS0 /\ k \notin S /\ ~Asked(D, "SQ", k)
  BY DEF Placed, StorePlaced
<1>3. \A k \in SqSlots : StorePlaced(t, S, D, k)
  <2>1. EmptySq.id = 0
    BY EmptySqIs
  <2>2. \A k \in SqSlots : k \in R => StorePlaced(t, S, D, k)
    BY <1>1, <1>2, <2>1 DEF StorePlaced
  <2>3. \A k \in SqSlots : k \notin R => StorePlaced(t, S, D, k)
    BY <1>1 DEF Placed, StorePlaced
  <2> QED
    BY <2>2, <2>3
<1>4. \A s \in LqSlots : LoadPlaced(t, T, D, L, s)
  BY <1>1 DEF Placed, LoadPlaced
<1>5. \A r \in D \cup L : LoadAsks(q, r) => LoadAsks(t, r)
  BY <1>1 DEF LoadAsks
<1>6. \A r \in D : StoreAsks(q, r) => StoreAsks(t, r)
  BY <1>1, <1>2 DEF StoreAsks, Request, Asked
<1> QED
  BY <1>3, <1>4, <1>5, <1>6 DEF Placed

-------------------------------------------------------------------------------
(* Every step keeps the accounts of the memory operations. *)

OpsOK(o, T, S, D, L) == LoadNames(o) /\ Counted(o) /\ Placed(o, T, S, D, L)

LEMMA OpsPrime ==
  ASSUME OpsOK(o3', RTL1', RTS1', DTLB', L1D'), program' = program
  PROVE  OpsOK(o3, RTL1, RTS1, DTLB, L1D)'
<1>1. LoadNames(o3') => LoadNames(o3)'
  BY DEF LoadNames, LoadIsOwned, Instr
<1>2. Counted(o3') => Counted(o3)'
  BY DEF Counted, OpsLeft, LoadLeft, StoreLeft, DueEntries, IsDue, Memory, Instr
<1>3. Placed(o3', RTL1', RTS1', DTLB', L1D') => Placed(o3, RTL1, RTS1, DTLB, L1D)'
  BY DEF Placed, LoadPlaced, StorePlaced, LoadAsks, StoreAsks, Request, Asked
<1> QED
  BY SMTT(30), <1>1, <1>2, <1>3 DEF OpsOK

LEMMA KeepsOpsOK ==
  ASSUME NEW q \in Cores, NEW t, NEW T, NEW S, NEW D, NEW L, OpsOK(q, T, S, D, L), KeepsOps(q, t)
  PROVE  OpsOK(t, T, S, D, L)
<1>1. Placed(t, T, S, D, L)
  BY PlacedSame DEF OpsOK, KeepsOps
<1> QED
  BY <1>1, KeepsCounted DEF OpsOK, KeepsOps

LEMMA KeptOps ==
  ASSUME Ordered(o3), OpsOK(o3, RTL1, RTS1, DTLB, L1D), KeepsOps(o3, o3'),
         UNCHANGED <<program, RTL1, RTS1, DTLB, L1D>>
  PROVE  OpsOK(o3, RTL1, RTS1, DTLB, L1D)'
<1>1. PICK q \in Cores : q = o3
  BY DEF Ordered
<1>2. OpsOK(o3', RTL1, RTS1, DTLB, L1D)
  BY <1>1, KeepsOpsOK
<1> QED
  BY <1>2, OpsPrime

LEMMA ScheduleOps ==
  ASSUME RingTyped, Ordered(o3), OpsOK(o3, RTL1, RTS1, DTLB, L1D), Schedule
  PROVE  OpsOK(o3, RTL1, RTS1, DTLB, L1D)'
<1>1. PICK i, s : i \in RobSlots /\ Moved(o3, o3', i, s, o3.rob[i].executed, reg_dependency(o3, i))
  BY ScheduleShape
<1>2. KeepsOps(o3, o3')
  <2>1. PICK w : w = reg_dependency(o3, i)
    OBVIOUS
  <2> QED
    BY <1>1, <2>1, MovedKeepsOps
<1> QED
  BY <1>2, KeptOps DEF Schedule, requests

LEMMA ExecuteOps ==
  ASSUME RingTyped, Ordered(o3), OpsOK(o3, RTL1, RTS1, DTLB, L1D), Execute
  PROVE  OpsOK(o3, RTL1, RTS1, DTLB, L1D)'
<1>1. PICK i \in RobSlots : /\ o3.rob[i].executed = "no"
                            /\ Moved(o3, o3', i, o3.rob[i].scheduled, "INFLIGHT", {})
  BY ExecuteShape
<1>2. KeepsOps(o3, o3')
  BY <1>1, MovedKeepsOps
<1> QED
  BY <1>2, KeptOps DEF Execute, requests

LEMMA CompleteOps ==
  ASSUME RingTyped, Ordered(o3), OpsOK(o3, RTL1, RTS1, DTLB, L1D), Complete
  PROVE  OpsOK(o3, RTL1, RTS1, DTLB, L1D)'
<1>1. PICK i \in RobSlots :
        o3.rob[i].id # 0 /\ o3.rob[i].executed = "INFLIGHT" /\ Completed(o3, o3', i)
  BY CompleteShape
<1>2. PICK q, t : q \in Cores /\ q = o3 /\ t = o3'
  BY DEF Ordered
<1>3. LoadNames(t) /\ Counted(t)
  BY <1>1, <1>2, CompletedCounted DEF OpsOK
<1>4. Placed(t, RTL1, RTS1, DTLB, L1D)
  BY <1>1, <1>2, PlacedSame DEF OpsOK, Completed
<1> QED
  BY <1>2, <1>3, <1>4, OpsPrime DEF OpsOK, Complete, requests

LEMMA DispatchOps ==
  ASSUME RingTyped, Ordered(o3), OpsOK(o3, RTL1, RTS1, DTLB, L1D), Dispatch
  PROVE  OpsOK(o3, RTL1, RTS1, DTLB, L1D)'
<1>1. PICK n \in 1 .. Len(program) : Entered(o3, o3', n)
  BY DispatchShape
<1>2. PICK q, t : q \in Cores /\ q = o3 /\ t = o3'
  BY DEF Ordered
<1>3. LoadNames(t) /\ Counted(t)
  BY <1>1, <1>2, EnteredCounted DEF OpsOK, Ordered, Dispatch
<1>4. Placed(t, RTL1, RTS1, DTLB, L1D)
  BY <1>1, <1>2, PlacedSame DEF OpsOK, Entered
<1> QED
  BY <1>2, <1>3, <1>4, OpsPrime DEF OpsOK, Dispatch, requests

LEMMA RetireOps ==
  ASSUME RingTyped, Ordered(o3), StoresOK(o3), OpsOK(o3, RTL1, RTS1, DTLB, L1D), Retire
  PROVE  OpsOK(o3, RTL1, RTS1, DTLB, L1D)'
<1>1. Retires(o3, o3', Released(o3)) /\ o3.rob[head].executed = "COMPLETED"
  BY RetireShape DEF Retire
<1>2. PICK q, t : q \in Cores /\ q = o3 /\ t = o3'
  BY DEF Ordered
<1>3. q.rob[head].id # 0
  BY <1>1, <1>2 DEF RingTyped, Ordered, IssueOK
<1>4. /\ LoadNames(t) /\ Counted(t)
      /\ \A k \in SqSlots : k \in Released(q) => q.SQ[k].id # 0 /\ q.SQ[k].fetched
  BY <1>1, <1>2, <1>3, RetiredCounted DEF OpsOK, Ordered
<1>5. Placed(t, RTL1, RTS1, DTLB, L1D)
  <2>1. PICK R : R = Released(q)
    OBVIOUS
  <2> QED
    BY <1>1, <1>2, <1>4, <2>1, PlacedRetired DEF OpsOK
<1> QED
  BY <1>2, <1>4, <1>5, OpsPrime DEF OpsOK, Retire, requests

(* A load that is tried, and a store that is *)
LEMMA TryLoadOpsOK ==
  ASSUME RingTyped, NEW q \in Cores, RingOK(q), NEW i \in RobSlots, q.rob[i].id # 0,
         NEW a \in Instr(q, i).loads,
         NEW T, NEW S, NEW D, NEW L, OpsOK(q, T, S, D, L)
  PROVE  OpsOK(TryLoad(q, i, a), T, S, D, L)
<1>1. PICK t : t = TryLoad(q, i, a)
  OBVIOUS
<1>2. a \in Addresses
  BY StoreInstr
<1>3. LoadTried(q, t, i, a)
  BY <1>1, <1>2, TryLoadIs
<1>4. CASE t = q
  BY <1>1, <1>4
<1>5. CASE \E s \in LqSlots, p \in Nat, u, v \in Cores : LoadEnters(q, t, i, a, s, p, u, v)
  <2>1. PICK s \in LqSlots, p \in Nat, u \in Cores, v \in Cores :
          /\ q.LQ[s].id = 0 /\ q.rob[i].lq_index[a] = None
          /\ LoadAdded(q, u, i, a, s, p) /\ KeepsOps(u, v)
          /\ t = v \/ (p # 0 /\ t \in Cores /\ LoadDone(v, t, s))
    BY <1>5 DEF LoadEnters
  <2>2. LoadNames(u) /\ Counted(u)
    BY <2>1, LoadAddedCounted DEF OpsOK
  <2>3. Placed(u, T, S, D, L)
    BY <2>1, PlacedLoadAdded DEF OpsOK
  <2>4. OpsOK(v, T, S, D, L)
    BY <2>1, <2>2, <2>3, KeepsOpsOK DEF OpsOK
  <2>5. CASE t = v
    BY <1>1, <2>4, <2>5
  <2>6. CASE p # 0 /\ t \in Cores /\ LoadDone(v, t, s)
    <3>1. v.LQ[s].id # 0 /\ v.LQ[s].producer # 0
      BY <2>1, <2>6 DEF LoadAdded, KeepsOps
    <3>2. RingOK(v)
      BY <2>1 DEF RingOK, LoadAdded, KeepsOps, KeepsCounts, KeepsIndex
    <3>3. LoadNames(t) /\ Counted(t)
      BY <2>4, <2>6, <3>1, <3>2, LoadDoneCounted DEF OpsOK
    <3>4. Placed(t, T, S, D, L)
      BY <2>4, <2>6, <3>1, PlacedForwarded DEF OpsOK
    <3> QED
      BY <1>1, <3>3, <3>4 DEF OpsOK
  <2> QED
    BY <2>1, <2>5, <2>6
<1> QED
  BY <1>3, <1>4, <1>5 DEF LoadTried

LEMMA StoreAddedOpsOK ==
  ASSUME RingTyped, NEW q \in Cores, RingOK(q), StoresOK(q), NEW i \in RobSlots, q.rob[i].id # 0,
         NEW a \in Instr(q, i).stores, NEW t \in Cores, KeepsIssue(q, t), StoreAdded(q, t, i, a),
         NEW T, NEW S, NEW D, NEW L, OpsOK(q, T, S, D, L)
  PROVE  OpsOK(t, T, S, D, L)
<1>1. LoadNames(t) /\ Counted(t) /\ q.sq_tail \in SqSlots /\ q.SQ[q.sq_tail].id = 0
  BY StoreAddedCounted DEF OpsOK
<1>2. Placed(t, T, S, D, L)
  BY <1>1, PlacedStoreAdded DEF OpsOK
<1> QED
  BY <1>1, <1>2 DEF OpsOK

LEMMA ScheduleMemoryOps ==
  ASSUME RingTyped, Ordered(o3), StoresOK(o3), OpsOK(o3, RTL1, RTS1, DTLB, L1D), ScheduleMemory
  PROVE  OpsOK(o3, RTL1, RTS1, DTLB, L1D)'
<1> DEFINE Sound(t) == StoresOK(t) /\ OpsOK(t, RTL1, RTS1, DTLB, L1D)
           I == {t \in Cores : Sound(t)}
<1>1. ASSUME NEW q \in I, NEW i \in RobSlots, Ordered(q), q.rob[i].id # 0, Issued(q, i)
      PROVE  /\ \A a \in Addresses : /\ a \in Instr(q, i).loads => TryLoad(q, i, a) \in I
                                     /\ a \in Instr(q, i).stores => TryStore(q, i, a) \in I
             /\ Scheduled(q, i) \in I
  <2>1. q \in Cores /\ StoresOK(q) /\ RingOK(q) /\ OpsOK(q, RTL1, RTS1, DTLB, L1D)
    BY <1>1 DEF Ordered
  <2>2. ASSUME NEW a \in Addresses, a \in Instr(q, i).loads
        PROVE  TryLoad(q, i, a) \in I
    <3>1. PICK t : t = TryLoad(q, i, a)
      OBVIOUS
    <3>2. t \in Cores /\ KeepsIssue(q, t) /\ KeepsStores(q, t)
      BY <1>1, <2>1, <3>1, TryLoadAdvances DEF Advances
    <3>3. \A j \in RobSlots : t.rob[j].id = q.rob[j].id /\ t.rob[j].executed = q.rob[j].executed
      BY <3>2 DEF KeepsIssue
    <3>4. StoresOK(t)
      BY <2>1, <3>2, <3>3, KeepsStoresOK
    <3>5. OpsOK(t, RTL1, RTS1, DTLB, L1D)
      BY <1>1, <2>1, <2>2, <3>1, TryLoadOpsOK
    <3> QED
      BY <3>1, <3>2, <3>4, <3>5
  <2>3. ASSUME NEW a \in Addresses, a \in Instr(q, i).stores
        PROVE  TryStore(q, i, a) \in I
    <3>1. PICK t : t = TryStore(q, i, a)
      OBVIOUS
    <3>2. t \in Cores /\ KeepsIssue(q, t) /\ (t = q \/ StoreAdded(q, t, i, a))
      BY <1>1, <2>1, <3>1, TryStoreAdvances DEF Advances
    <3>3. t # q => StoresOK(t)
      BY <1>1, <2>1, <2>3, <3>2, StoreAddedOK
    <3>4. t # q => OpsOK(t, RTL1, RTS1, DTLB, L1D)
      BY <1>1, <2>1, <2>3, <3>2, StoreAddedOpsOK
    <3> QED
      BY <2>1, <3>1, <3>2, <3>3, <3>4
  <2>4. Scheduled(q, i) \in I
    <3>1. PICK t : t = Scheduled(q, i)
      OBVIOUS
    <3>2. /\ Advances(q, t) /\ KeepsStores(q, t)
          /\ \A j \in RobSlots : t.rob[j].executed = q.rob[j].executed \/ StoresIn(q, j)
      BY <1>1, <2>1, <3>1, ScheduledAdvances
    <3>3. t \in Cores /\ \A j \in RobSlots : t.rob[j].id = q.rob[j].id
      BY <3>2 DEF Advances
    <3>4. StoresOK(t)
      BY <2>1, <3>2, <3>3, KeepsStoresOK
    <3>5. OpsOK(t, RTL1, RTS1, DTLB, L1D)
      BY <2>1, <3>1, ScheduledKeepsOps, KeepsOpsOK
    <3> QED
      BY <3>1, <3>3, <3>4, <3>5
  <2> QED
    BY <2>2, <2>3, <2>4
<1>2. o3 \in I
  BY DEF Ordered
<1>3. o3' \in I
  <2> HIDE DEF I
  <2>1. \A q \in I, i \in RobSlots :
          Ordered(q) /\ Advances(o3, q) /\ q.rob[i].id # 0 /\ Issued(q, i) =>
            /\ \A a \in Addresses : /\ a \in Instr(q, i).loads => TryLoad(q, i, a) \in I
                                    /\ a \in Instr(q, i).stores => TryStore(q, i, a) \in I
            /\ Scheduled(q, i) \in I
    BY <1>1
  <2> QED
    BY <1>2, <2>1, PassKeeps
<1>4. OpsOK(o3', RTL1, RTS1, DTLB, L1D)
  BY <1>3
<1> QED
  BY <1>4, OpsPrime DEF ScheduleMemory, requests

LEMMA TranslateStoreOps ==
  ASSUME RingTyped, Ordered(o3), OpsOK(o3, RTL1, RTS1, DTLB, L1D), TranslateStore
  PROVE  OpsOK(o3, RTL1, RTS1, DTLB, L1D)'
<1>1. PICK q \in Cores : q = o3
  BY DEF Ordered
<1>2. PICK k \in q.RTS0 : o3' = [q EXCEPT !.RTS0 = @ \ {k}] /\ DTLB' = DTLB \cup {Request("SQ", q.SQ, k)}
  BY <1>1 DEF TranslateStore
<1>3. PICK t : t = [q EXCEPT !.RTS0 = q.RTS0 \ {k}]
  OBVIOUS
<1>4. o3' = t /\ k \in SqSlots
  BY <1>2, <1>3 DEF Cores
<1>5. /\ t.rob = q.rob /\ t.inflight_mem = q.inflight_mem /\ t.LQ = q.LQ /\ t.SQ = q.SQ
      /\ t.RTL0 = q.RTL0 /\ t.RTS0 = q.RTS0 \ {k}
  BY <1>3 DEF Cores
<1>6. KeepsCounts(q, t)
  BY <1>5 DEF KeepsCounts, KeepsIndex
<1>7. LoadNames(t) /\ Counted(t)
  BY <1>1, <1>5, <1>6, KeepsCounted DEF OpsOK
<1>8. Placed(t, RTL1, RTS1, DTLB \cup {Request("SQ", q.SQ, k)}, L1D)
  BY <1>1, <1>2, <1>4, <1>5, PlacedTranslateStore DEF OpsOK
<1> QED
  BY <1>2, <1>4, <1>7, <1>8, OpsPrime DEF OpsOK, TranslateStore

LEMMA TranslateLoadOps ==
  ASSUME RingTyped, Ordered(o3), OpsOK(o3, RTL1, RTS1, DTLB, L1D), TranslateLoad
  PROVE  OpsOK(o3, RTL1, RTS1, DTLB, L1D)'
<1>1. PICK q \in Cores : q = o3
  BY DEF Ordered
<1>2. PICK s \in q.RTL0 : o3' = [q EXCEPT !.RTL0 = @ \ {s}] /\ DTLB' = DTLB \cup {Request("LQ", q.LQ, s)}
  BY <1>1 DEF TranslateLoad
<1>3. PICK t : t = [q EXCEPT !.RTL0 = q.RTL0 \ {s}]
  OBVIOUS
<1>4. o3' = t /\ s \in LqSlots
  BY <1>2, <1>3 DEF Cores
<1>5. /\ t.rob = q.rob /\ t.inflight_mem = q.inflight_mem /\ t.LQ = q.LQ /\ t.SQ = q.SQ
      /\ t.RTS0 = q.RTS0 /\ t.RTL0 = q.RTL0 \ {s}
  BY <1>3 DEF Cores
<1>6. KeepsCounts(q, t)
  BY <1>5 DEF KeepsCounts, KeepsIndex
<1>7. LoadNames(t) /\ Counted(t)
  BY <1>1, <1>5, <1>6, KeepsCounted DEF OpsOK
<1>8. Placed(t, RTL1, RTS1, DTLB \cup {Request("LQ", q.LQ, s)}, L1D)
  BY <1>1, <1>2, <1>4, <1>5, PlacedTranslateLoad DEF OpsOK
<1> QED
  BY <1>2, <1>4, <1>7, <1>8, OpsPrime DEF OpsOK, TranslateLoad

LEMMA TranslatedOps ==
  ASSUME RingTyped, Ordered(o3), OpsOK(o3, RTL1, RTS1, DTLB, L1D), Translated
  PROVE  OpsOK(o3, RTL1, RTS1, DTLB, L1D)'
<1>1. PICK q \in Cores : q = o3
  BY DEF Ordered
<1>2. PICK r \in DTLB : /\ DTLB' = DTLB \ {r}
                        /\ RTS1' = IF r.queue = "SQ" THEN RTS1 \cup {r.slot} ELSE RTS1
                        /\ RTL1' = IF r.queue = "SQ" THEN RTL1 ELSE RTL1 \cup {r.slot}
  BY DEF Translated
<1>3. o3' = q /\ L1D' = L1D /\ program' = program
  BY <1>1 DEF Translated
<1>4. Placed(q, RTL1', RTS1', DTLB', L1D)
  BY <1>1, <1>2, PlacedTranslated DEF OpsOK
<1> QED
  BY <1>1, <1>3, <1>4, OpsPrime DEF OpsOK

LEMMA ExecuteLoadOps ==
  ASSUME RingTyped, Ordered(o3), OpsOK(o3, RTL1, RTS1, DTLB, L1D), ExecuteLoad
  PROVE  OpsOK(o3, RTL1, RTS1, DTLB, L1D)'
<1>1. PICK q \in Cores : q = o3
  BY DEF Ordered
<1>2. PICK s \in RTL1 : /\ RTL1' = RTL1 \ {s} /\ L1D' = L1D \cup {Request("LQ", q.LQ, s)}
                        /\ o3' = Perform(q, s, LastStore(retired + 1, q.LQ[s].va))
  BY <1>1 DEF ExecuteLoad
<1>3. PICK n : n = LastStore(retired + 1, q.LQ[s].va)
  OBVIOUS
<1>4. n \in Nat /\ s \in LqSlots
  BY <1>2, <1>3, LastStoreIs DEF RingTyped
<1>5. PICK t \in Cores : t = Perform(q, s, n) /\ KeepsOps(q, t)
  BY <1>4, PerformKeepsOps
<1>6. LoadNames(t) /\ Counted(t)
  BY <1>1, <1>5, KeepsOpsOK DEF OpsOK
<1>7. Placed(t, RTL1 \ {s}, RTS1, DTLB, L1D \cup {Request("LQ", q.LQ, s)})
  BY <1>1, <1>4, <1>5, PlacedExecuteLoad DEF OpsOK
<1> QED
  BY <1>2, <1>3, <1>5, <1>6, <1>7, OpsPrime DEF OpsOK, ExecuteLoad

LEMMA LoadedOps ==
  ASSUME RingTyped, Ordered(o3), OpsOK(o3, RTL1, RTS1, DTLB, L1D), Loaded
  PROVE  OpsOK(o3, RTL1, RTS1, DTLB, L1D)'
<1>1. PICK q \in Cores : q = o3
  BY DEF Ordered
<1>2. PICK r \in L1D : o3' = release_load_queue(OpDone(q, r.rob), r.slot) /\ L1D' = L1D \ {r}
  BY <1>1 DEF Loaded
<1>3. LoadAsks(q, r) /\ r.slot \in LqSlots
  BY <1>1 DEF OpsOK, Placed, LoadAsks
<1>4. PICK s \in LqSlots : s = r.slot /\ r.rob = q.LQ[s].rob
  BY <1>3 DEF LoadAsks, Request
<1>5. PICK t \in Cores : t = release_load_queue(OpDone(q, q.LQ[s].rob), s) /\ LoadDone(q, t, s)
  BY AnsweredIs
<1>6. o3' = t
  BY <1>2, <1>4, <1>5
<1>7. Asked(L1D, "LQ", s)
  BY <1>3, <1>4 DEF Asked, LoadAsks
<1>8. q.LQ[s].id # 0
  BY <1>1, <1>7 DEF OpsOK, Placed, LoadPlaced
<1>9. LoadNames(t) /\ Counted(t)
  BY <1>1, <1>5, <1>8, LoadDoneCounted DEF OpsOK, Ordered
<1>10. Placed(t, RTL1, RTS1, DTLB, L1D \ {r})
  BY <1>1, <1>4, <1>5, PlacedLoaded DEF OpsOK
<1> QED
  BY <1>2, <1>6, <1>9, <1>10, OpsPrime DEF OpsOK, Loaded

(* The loads that execute_store() has not come to keep their place in the load queue. *)
LEMMA ExecuteStoreOps ==
  ASSUME RingTyped, Ordered(o3), StoresOK(o3), OpsOK(o3, RTL1, RTS1, DTLB, L1D), ExecuteStore
  PROVE  OpsOK(o3, RTL1, RTS1, DTLB, L1D)'
<1>1. PICK q \in Cores : q = o3
  BY DEF Ordered
<1>2. PICK k \in RTS1 : ForwardsMatch(q, k) /\ o3' = execute_store(q, k) /\ RTS1' = RTS1 \ {k}
  BY <1>1 DEF ExecuteStore
<1>3. k \in SqSlots
  BY <1>2 DEF RingTyped
<1>4. PICK C \in SUBSET RobSlots : C = Consumers(q, k)
  BY <1>1, <1>3, ConsumersTyped
<1>5. PICK place \in [C -> LqSlots] : \A d \in C : place[d] = ConsumerSlot(q, k, d)
  <2>1. \A d \in C : ConsumerSlot(q, k, d) \in LqSlots
    BY <1>1, <1>3, <1>4, ConsumersTyped
  <2>2. PICK f : f = [d \in C |-> ConsumerSlot(q, k, d)]
    OBVIOUS
  <2> QED
    BY <2>1, <2>2
<1>6. PICK u \in Cores : u = StoreDone(q, k) /\ StoreIsDone(q, u, k)
  BY <1>3, StoreDoneIs
<1>7. Placed(u, RTL1, RTS1 \ {k}, DTLB, L1D) /\ q.SQ[k].id # 0 /\ ~q.SQ[k].fetched
  BY <1>1, <1>2, <1>3, <1>6, PlacedStoreDone DEF OpsOK
<1>8. LoadNames(u) /\ Counted(u)
  BY <1>1, <1>3, <1>6, <1>7, StoreDoneCounted DEF OpsOK, Ordered, StoresOK
<1>9. RingOK(u)
  BY <1>1, <1>6 DEF Ordered, RingOK, StoreIsDone, CountsDown, KeepsIndex
<1>10. \A d \in C : q.LQ[place[d]].producer # 0 /\ \A e \in C : place[d] = place[e] => d = e
  BY <1>2, <1>4, <1>5, <1>7 DEF ForwardsMatch
<1> DEFINE Waiting(t, n) == \A d \in C : d >= n => t.LQ[place[d]] = q.LQ[place[d]]
           Sound(t) == RingOK(t) /\ OpsOK(t, RTL1, RTS1 \ {k}, DTLB, L1D)
           J == [n \in 0 .. ROB_SIZE |-> {t \in Cores : Sound(t) /\ Waiting(t, n)}]
<1>11. u \in J[0]
  <2>1. u.LQ = q.LQ
    BY <1>6 DEF StoreIsDone
  <2> QED
    BY <1>6, <1>7, <1>8, <1>9, <2>1, Sizes DEF OpsOK
<1>12. ASSUME NEW n \in 1 .. ROB_SIZE, NEW t \in Cores, t \in J[n - 1]
       PROVE  IF n - 1 \in C THEN Forward(t, place[n - 1], q.SQ[k].va) \in J[n] ELSE t \in J[n]
  <2>1. Sound(t) /\ Waiting(t, n - 1) /\ n - 1 \in 0 .. ROB_SIZE /\ n \in 0 .. ROB_SIZE
    BY <1>12, Sizes
  <2>2. CASE n - 1 \notin C
    <3>1. Waiting(t, n)
      <4>1. \A d \in C : d >= n => d >= n - 1
        BY DEF RobSlots
      <4> QED
        BY <2>1, <4>1
    <3> QED
      BY <2>1, <2>2, <3>1
  <2>3. CASE n - 1 \in C
    <3>1. PICK s \in LqSlots : s = place[n - 1]
      BY <2>3
    <3>2. PICK v \in Cores : v = Forward(t, s, q.SQ[k].va) /\ LoadDone(t, v, s)
      BY ForwardIs
    <3>3. t.LQ[s].producer # 0
      BY <1>10, <2>1, <2>3, <3>1
    <3>4. t.LQ[s].id # 0
      BY <2>1, <3>3 DEF OpsOK, LoadNames
    <3>5. LoadNames(v) /\ Counted(v)
      BY <2>1, <3>2, <3>4, LoadDoneCounted DEF OpsOK
    <3>6. Placed(v, RTL1, RTS1 \ {k}, DTLB, L1D)
      BY SMTT(30), <2>1, <3>2, <3>3, PlacedForwarded DEF OpsOK
    <3>7. RingOK(v)
      BY <2>1, <3>2 DEF RingOK, LoadDone, CountsDown, KeepsIndex
    <3>8. Waiting(v, n)
      <4> SUFFICES ASSUME NEW d \in C, d >= n
                   PROVE  v.LQ[place[d]] = q.LQ[place[d]]
        OBVIOUS
      <4>1. d >= n - 1 /\ d # n - 1
        BY SlotFacts
      <4>2. place[d] # s
        BY <1>10, <2>3, <3>1, <4>1
      <4>3. place[d] \in LqSlots /\ t.LQ[place[d]] = q.LQ[place[d]]
        BY <2>1, <4>1
      <4> QED
        BY <3>2, <4>2, <4>3 DEF LoadDone
    <3>9. OpsOK(v, RTL1, RTS1 \ {k}, DTLB, L1D)
      BY <3>5, <3>6 DEF OpsOK
    <3>10. v \in J[n]
      <4> HIDE DEF Waiting
      <4> QED
        BY <2>1, <3>7, <3>8, <3>9
    <3> HIDE DEF J
    <3> QED
      BY <2>3, <3>1, <3>2, <3>10
  <2> QED
    BY <2>2, <2>3
<1>13. J[ROB_SIZE] \subseteq {t \in Cores : Sound(t)}
  BY Sizes
<1> HIDE DEF J
<1>14. execute_store(q, k) \in J[ROB_SIZE]
  <2>1. \A t \in Cores, d \in Consumers(q, k) : Forward(t, ConsumerSlot(q, k, d), q.SQ[k].va) \in Cores
    BY <1>4, <1>5, ForwardIs
  <2>2. \A n \in 1 .. ROB_SIZE, t \in Cores : t \in J[n - 1] =>
          IF n - 1 \in Consumers(q, k) THEN Forward(t, ConsumerSlot(q, k, n - 1), q.SQ[k].va) \in J[n]
          ELSE t \in J[n]
    BY <1>4, <1>5, <1>12
  <2> QED
    BY <1>4, <1>6, <1>11, <2>1, <2>2, ExecuteStoreStays
<1>15. OpsOK(o3', RTL1, RTS1 \ {k}, DTLB, L1D)
  BY <1>2, <1>13, <1>14
<1> QED
  BY <1>2, <1>15, OpsPrime DEF ExecuteStore

LEMMA InitOps ==
  ASSUME Init
  PROVE  OpsOK(o3, RTL1, RTS1, DTLB, L1D)
<1>1. /\ o3.LQ = [s \in LqSlots |-> EmptyLq] /\ o3.SQ = [s \in SqSlots |-> EmptySq]
      /\ o3.rob = [i \in RobSlots |-> EmptyRob] /\ o3.inflight_mem = 0 /\ o3.RTL0 = {} /\ o3.RTS0 = {}
      /\ RTL1 = {} /\ RTS1 = {} /\ DTLB = {} /\ L1D = {}
  BY DEF Init
<1>2. EmptyLq.id = 0 /\ EmptyLq.producer = 0 /\ EmptySq.id = 0
  BY EmptySqIs DEF EmptyLq
<1>3. EmptyRob.id = 0 /\ EmptyRob.ops = 0
  BY EmptyRobIs
<1>4. LoadNames(o3)
  BY <1>1, <1>2 DEF LoadNames
<1>5. Counted(o3)
  <2>1. DueEntries(o3) = {}
    BY <1>1, <1>3 DEF DueEntries, IsDue
  <2>2. Cardinality(DueEntries(o3)) = 0
    BY <2>1, FS_EmptySet
  <2>3. \A i \in RobSlots : o3.rob[i].id = 0 /\ o3.rob[i].ops = 0
    BY <1>1, <1>3
  <2> QED
    BY <1>1, <2>2, <2>3 DEF Counted
<1>6. Placed(o3, RTL1, RTS1, DTLB, L1D)
  BY <1>1, <1>2 DEF Placed, LoadPlaced, StorePlaced, Asked
<1> QED
  BY <1>4, <1>5, <1>6 DEF OpsOK

LEMMA DisjointUnion ==
  ASSUME NEW A, NEW B, IsFiniteSet(A), IsFiniteSet(B), A \cap B = {}
  PROVE  Cardinality(A \cup B) = Cardinality(A) + Cardinality(B)
<1>1. Cardinality(A \cup B) = Cardinality(A) + Cardinality(B) - Cardinality(A \cap B)
  BY FS_Union
<1>2. Cardinality(A) \in Nat /\ Cardinality(B) \in Nat /\ Cardinality(A \cap B) = 0
  BY FS_CardinalityType, FS_EmptySet
<1> QED
  BY <1>1, <1>2

(* The operations left are those that have not been added and the entries of the queues. *)
LEMMA LeftIs ==
  ASSUME RingTyped, NEW o \in Cores, RingOK(o), LoadNames(o), StoreNames(o),
         NEW i \in RobSlots, o.rob[i].id # 0
  PROVE  /\ Cardinality(LoadLeft(o, i)) =
              Cardinality({a \in Instr(o, i).loads : o.rob[i].lq_index[a] = None}) + Cardinality(LqOf(o, i))
         /\ Cardinality(StoreLeft(o, i)) =
              Cardinality({a \in Instr(o, i).stores : o.rob[i].sq_index[a] = None})
              + Cardinality({k \in SqOf(o, i) : ~o.SQ[k].fetched})
<1>1. Instr(o, i).loads \subseteq Addresses /\ Instr(o, i).stores \subseteq Addresses
  BY StoreInstr
<1>2. IsFiniteSet(LoadLeft(o, i)) /\ IsFiniteSet(StoreLeft(o, i))
  BY LeftFinite
<1>3. /\ o.rob[i].lq_index \in [Addresses -> LqSlots \cup {None}]
      /\ o.rob[i].sq_index \in [Addresses -> SqSlots \cup {None}]
  BY DEF Cores, RobEntries
<1>4. IsFiniteSet(LqSlots) /\ IsFiniteSet(SqSlots)
  BY Sizes, FS_Interval DEF LqSlots, SqSlots
<1>5. Cardinality(LoadLeft(o, i)) =
        Cardinality({a \in Instr(o, i).loads : o.rob[i].lq_index[a] = None}) + Cardinality(LqOf(o, i))
  <2>1. PICK A : A = {a \in Instr(o, i).loads : o.rob[i].lq_index[a] = None}
    OBVIOUS
  <2>2. PICK B : B = {a \in Instr(o, i).loads :
                        /\ o.rob[i].lq_index[a] # None
                        /\ o.LQ[o.rob[i].lq_index[a]].id = o.rob[i].id
                        /\ o.LQ[o.rob[i].lq_index[a]].va = a}
    OBVIOUS
  <2>3. LoadLeft(o, i) = A \cup B /\ A \cap B = {}
    BY <2>1, <2>2 DEF LoadLeft
  <2>4. \A s \in LqOf(o, i) :
          o.LQ[s].va \in Instr(o, i).loads /\ o.rob[i].lq_index[o.LQ[s].va] = s
    <3> TAKE s \in LqOf(o, i)
    <3>1. s \in LqSlots /\ o.LQ[s].id = o.rob[i].id /\ o.LQ[s].rob \in RobSlots
      BY DEF LqOf, Cores, LqEntries
    <3>2. LoadIsOwned(o, s)
      BY <3>1 DEF LoadNames
    <3>3. o.LQ[s].rob = i
      BY <3>1, <3>2, RingIds DEF LoadIsOwned
    <3> QED
      BY <3>2, <3>3 DEF LoadIsOwned
  <2>5. PICK f : f = [s \in LqOf(o, i) |-> o.LQ[s].va]
    OBVIOUS
  <2>6. LqOf(o, i) \subseteq LqSlots /\ \A s \in LqOf(o, i) : o.LQ[s].id = o.rob[i].id
    BY DEF LqOf
  <2>7. f \in [LqOf(o, i) -> B]
    <3>1. \A s \in LqOf(o, i) : o.LQ[s].va \in B
      BY <2>2, <2>4, <2>6, SlotFacts
    <3> QED
      BY <2>5, <3>1
  <2>8. \A s, x \in LqOf(o, i) : f[s] = f[x] => s = x
    BY <2>4, <2>5
  <2>9. \A a \in B : \E s \in LqOf(o, i) : f[s] = a
    <3> TAKE a \in B
    <3>1. PICK s \in LqSlots : s = o.rob[i].lq_index[a] /\ o.LQ[s].id = o.rob[i].id /\ o.LQ[s].va = a
      BY <1>1, <1>3, <2>2
    <3>2. s \in LqOf(o, i)
      BY <3>1 DEF LqOf
    <3> QED
      BY <2>5, <3>1, <3>2
  <2>10. IsFiniteSet(LqOf(o, i))
    BY <1>4, <2>6, FS_Subset
  <2>11. Cardinality(B) = Cardinality(LqOf(o, i))
    BY <2>7, <2>8, <2>9, <2>10, SameCardinality
  <2>12. IsFiniteSet(A) /\ IsFiniteSet(B)
    BY <1>2, <2>3, FS_Subset
  <2> QED
    BY <2>1, <2>3, <2>11, <2>12, DisjointUnion
<1>6. Cardinality(StoreLeft(o, i)) =
        Cardinality({a \in Instr(o, i).stores : o.rob[i].sq_index[a] = None})
        + Cardinality({k \in SqOf(o, i) : ~o.SQ[k].fetched})
  <2>1. PICK A : A = {a \in Instr(o, i).stores : o.rob[i].sq_index[a] = None}
    OBVIOUS
  <2>2. PICK B : B = {a \in Instr(o, i).stores :
                        o.rob[i].sq_index[a] # None /\ ~o.SQ[o.rob[i].sq_index[a]].fetched}
    OBVIOUS
  <2>3. StoreLeft(o, i) = A \cup B /\ A \cap B = {}
    BY <2>1, <2>2 DEF StoreLeft
  <2>4. PICK K : K = {k \in SqOf(o, i) : ~o.SQ[k].fetched}
    OBVIOUS
  <2>5. \A k \in K : k \in SqSlots /\ o.SQ[k].id = o.rob[i].id /\ ~o.SQ[k].fetched
    BY <2>4 DEF SqOf
  <2>6. \A k \in K : o.SQ[k].va \in Instr(o, i).stores /\ o.rob[i].sq_index[o.SQ[k].va] = k
    <3> TAKE k \in K
    <3>1. k \in SqSlots /\ o.SQ[k].id = o.rob[i].id /\ o.SQ[k].rob \in RobSlots
      BY <2>5 DEF Cores, SqEntries
    <3>2. StoreIsOwned(o, k)
      BY <3>1 DEF StoreNames
    <3>3. o.SQ[k].rob = i
      BY <3>1, <3>2, RingIds DEF StoreIsOwned
    <3> QED
      BY <3>2, <3>3 DEF StoreIsOwned
  <2>7. PICK f : f = [k \in K |-> o.SQ[k].va]
    OBVIOUS
  <2>8. f \in [K -> B]
    <3>1. \A k \in K : o.SQ[k].va \in B
      BY <2>2, <2>5, <2>6, SlotFacts
    <3> QED
      BY <2>7, <3>1
  <2>9. \A k, x \in K : f[k] = f[x] => k = x
    BY <2>6, <2>7
  <2>10. \A a \in B : \E k \in K : f[k] = a
    <3> TAKE a \in B
    <3>1. PICK k \in SqSlots : k = o.rob[i].sq_index[a] /\ ~o.SQ[k].fetched
      BY <1>1, <1>3, <2>2
    <3>2. o.SQ[k].id = o.rob[i].id /\ o.SQ[k].va = a
      BY <1>1, <2>2, <3>1, SlotFacts DEF StoreNames
    <3>3. k \in K
      BY <2>4, <3>1, <3>2 DEF SqOf
    <3> QED
      BY <2>7, <3>2, <3>3
  <2>11. IsFiniteSet(K)
    BY <1>4, <2>5, FS_Subset
  <2>12. Cardinality(B) = Cardinality(K)
    BY <2>8, <2>9, <2>10, <2>11, SameCardinality
  <2>13. IsFiniteSet(A) /\ IsFiniteSet(B)
    BY <1>2, <2>3, FS_Subset
  <2> QED
    BY <2>1, <2>3, <2>4, <2>12, <2>13, DisjointUnion
<1> QED
  BY <1>5, <1>6

LEMMA RequestsNamed ==
  ASSUME RingTyped, Ordered(o3), StoresOK(o3), OpsOK(o3, RTL1, RTS1, DTLB, L1D)
  PROVE  RequestsNameTheirEntries
<1>1. PICK q \in Cores : q = o3
  BY DEF Ordered
<1>2. LoadNames(q) /\ StoreNames(q) /\ Placed(q, RTL1, RTS1, DTLB, L1D)
  BY <1>1 DEF OpsOK, StoresOK
<1>3. ASSUME NEW r \in DTLB \cup L1D
      PROVE  /\ q.rob[r.rob].id = r.id
             /\ Request(r.queue, IF r.queue = "SQ" THEN q.SQ ELSE q.LQ, r.slot) = r
  <2>1. LoadAsks(q, r) \/ (r \in DTLB /\ StoreAsks(q, r))
    BY <1>2 DEF Placed
  <2>2. CASE LoadAsks(q, r)
    <3>1. PICK s \in LqSlots : s = r.slot
      BY <2>2 DEF LoadAsks
    <3>2. r.queue = "LQ" /\ r = Request("LQ", q.LQ, s) /\ (Asked(DTLB, "LQ", s) \/ Asked(L1D, "LQ", s))
      BY <2>2, <3>1 DEF LoadAsks, Asked
    <3>3. q.LQ[s].id # 0
      BY <1>2, <3>2 DEF Placed, LoadPlaced
    <3>4. r.rob = q.LQ[s].rob /\ r.id = q.LQ[s].id
      BY SMTT(30), <3>2 DEF Request
    <3> QED
      BY <1>2, <3>1, <3>2, <3>3, <3>4 DEF LoadNames, LoadIsOwned
  <2>3. CASE r \in DTLB /\ StoreAsks(q, r)
    <3>1. PICK k \in SqSlots : k = r.slot
      BY <2>3 DEF StoreAsks
    <3>2. r.queue = "SQ" /\ r = Request("SQ", q.SQ, k) /\ Asked(DTLB, "SQ", k)
      BY <2>3, <3>1 DEF StoreAsks, Asked
    <3>3. q.SQ[k].id # 0
      BY <1>2, <3>2 DEF Placed, StorePlaced
    <3>4. r.rob = q.SQ[k].rob /\ r.id = q.SQ[k].id
      BY <3>2 DEF Request
    <3> QED
      BY <1>2, <3>1, <3>2, <3>3, <3>4 DEF StoreNames, StoreIsOwned
  <2> QED
    BY <2>1, <2>2, <2>3
<1>4. ASSUME NEW s \in LqSlots \ FreeLq(q)
      PROVE  LET P == <<s \in q.RTL0, s \in RTL1, \E r \in DTLB : r.queue = "LQ" /\ r.slot = s,
                        \E r \in L1D : r.slot = s, q.LQ[s].producer # 0>>
             IN Cardinality({n \in 1 .. 5 : P[n]}) = 1
  <2> DEFINE P == <<s \in q.RTL0, s \in RTL1, \E r \in DTLB : r.queue = "LQ" /\ r.slot = s,
                    \E r \in L1D : r.slot = s, q.LQ[s].producer # 0>>
  <2>1. LoadPlaced(q, RTL1, DTLB, L1D, s) /\ q.LQ[s].id # 0
    BY <1>2 DEF Placed, FreeLq
  <2>2. (\E r \in L1D : r.slot = s) <=> Asked(L1D, "LQ", s)
    BY <1>2 DEF Placed, LoadAsks, Asked
  <2>3. /\ P[1] <=> s \in q.RTL0
        /\ P[2] <=> s \in RTL1
        /\ P[3] <=> Asked(DTLB, "LQ", s)
        /\ P[4] <=> Asked(L1D, "LQ", s)
        /\ P[5] <=> q.LQ[s].producer # 0
    BY <2>2 DEF Asked
  <2> HIDE DEF P
  <2>4. \E m \in 1 .. 5 : P[m] /\ \A n \in 1 .. 5 : P[n] => n = m
    BY <2>1, <2>3 DEF LoadPlaced
  <2>5. PICK m \in 1 .. 5 : {n \in 1 .. 5 : P[n]} = {m}
    BY <2>4
  <2>6. Cardinality({n \in 1 .. 5 : P[n]}) = 1
    BY <2>5, FS_Singleton
  <2> QED
    BY <2>6 DEF P
<1>5. \A r \in DTLB \cup L1D :
        /\ o3.rob[r.rob].id = r.id
        /\ Request(r.queue, IF r.queue = "SQ" THEN o3.SQ ELSE o3.LQ, r.slot) = r
  BY <1>1, <1>3
<1>6. \A s \in LqSlots \ FreeLq(o3) :
        LET P == <<s \in o3.RTL0, s \in RTL1, \E r \in DTLB : r.queue = "LQ" /\ r.slot = s,
                   \E r \in L1D : r.slot = s, o3.LQ[s].producer # 0>>
        IN Cardinality({n \in 1 .. 5 : P[n]}) = 1
  BY <1>1, <1>4
<1> QED
  BY Zenon, <1>5, <1>6 DEF RequestsNameTheirEntries

(* The accounts hold throughout. *)
LEMMA OpsInvariant == Spec => []OpsOK(o3, RTL1, RTS1, DTLB, L1D)
<1> DEFINE Accounts == OpsOK(o3, RTL1, RTS1, DTLB, L1D)
<1>1. Init => Accounts
  BY InitOps
<1>2. ASSUME RingTyped, Ordered(o3), StoresOK(o3), Accounts, [Next]_vars
      PROVE  Accounts'
  <2>1. CASE Dispatch
    BY <1>2, <2>1, DispatchOps
  <2>2. CASE Schedule
    BY <1>2, <2>2, ScheduleOps
  <2>3. CASE Execute
    BY <1>2, <2>3, ExecuteOps
  <2>4. CASE Complete
    BY <1>2, <2>4, CompleteOps
  <2>5. CASE ScheduleMemory
    BY <1>2, <2>5, ScheduleMemoryOps
  <2>6. CASE TranslateStore
    BY <1>2, <2>6, TranslateStoreOps
  <2>7. CASE TranslateLoad
    BY <1>2, <2>7, TranslateLoadOps
  <2>8. CASE Translated
    BY <1>2, <2>8, TranslatedOps
  <2>9. CASE ExecuteStore
    BY <1>2, <2>9, ExecuteStoreOps
  <2>10. CASE ExecuteLoad
    BY <1>2, <2>10, ExecuteLoadOps
  <2>11. CASE Loaded
    BY <1>2, <2>11, LoadedOps
  <2>12. CASE Retire
    BY <1>2, <2>12, RetireOps
  <2>13. CASE UNCHANGED vars
    <3>1. UNCHANGED <<program, o3, RTL1, RTS1, DTLB, L1D>>
      BY <2>13 DEF vars, requests
    <3> QED
      BY <1>2, <3>1, OpsPrime
  <2> HIDE DEF Accounts
  <2> QED
    BY Zenon, <1>2, <2>1, <2>2, <2>3, <2>4, <2>5, <2>6, <2>7, <2>8, <2>9, <2>10, <2>11, <2>12, <2>13
    DEF Next
<1> HIDE DEF Accounts, RingTyped, Ordered, StoresOK
<1>3. [](RingTyped /\ Ordered(o3)) /\ []StoresOK(o3) /\ Init /\ [][Next]_vars => []Accounts
  BY <1>1, <1>2, PTL
<1>4. Spec => []Accounts
  BY <1>3, OrderOfIssue, StoresInvariant, PTL DEF Spec
<1> QED
  BY <1>4 DEF Accounts

(* What DTLB and L1D hold for the core names the entries that asked, as the check_rob() test *)
(* of complete_data_fetch() requires, though slots are used again, and a load that is added  *)
(* waits in exactly one place: to be translated or executed, for DTLB or L1D, or for its     *)
(* store.                                                                                    *)
THEOREM RequestsKeepTheirEntries == Spec => []RequestsNameTheirEntries
<1>1. RingTyped /\ Ordered(o3) /\ StoresOK(o3) /\ OpsOK(o3, RTL1, RTS1, DTLB, L1D)
        => RequestsNameTheirEntries
  BY RequestsNamed
<1> HIDE DEF RingTyped, Ordered, StoresOK, OpsOK, RequestsNameTheirEntries
<1> QED
  BY <1>1, OrderOfIssue, StoresInvariant, OpsInvariant, PTL

-------------------------------------------------------------------------------
(* What the loads get *)

(* No instruction of the trace has two loads a and b such that the last store before it to b *)
(* also writes a, but a nearer one writes a too: loads that are found by a store instruction  *)
(* and an address have that store as their last one.                                          *)
Uncrossed ==
  \A n \in 1 .. Len(program) : \A a, b \in program[n].loads :
    LastStore(n, b) # 0 /\ a \in program[LastStore(n, b)].stores => LastStore(n, a) = LastStore(n, b)

(* A load in the load queue waits for the last store before it, or that has retired. *)
ProducersOK(o) ==
  \A s \in LqSlots : o.LQ[s].id # 0 => Produces(o.LQ[s].producer, o.LQ[s].id, o.LQ[s].va)
(* A dependent has a load that the store is the last before. *)
Needs(o, d, n) == \E b \in Instr(o, d).loads : LastStore(o.rob[d].id, b) = n
DependentsOK(o) ==
  \A j \in RobSlots : o.rob[j].id # 0 => \A d \in o.rob[j].dependents : Needs(o, d, o.rob[j].id)
(* A load that was added and has left the load queue has its data: its store has executed. *)
IsGone(o, i, a) ==
  LET s == o.rob[i].lq_index[a] IN s # None /\ ~(o.LQ[s].id = o.rob[i].id /\ o.LQ[s].va = a)
Stored(o, j, a) == LET k == o.rob[j].sq_index[a] IN k # None /\ o.SQ[k].fetched
GoneOK(o) ==
  \A i, j \in RobSlots : \A a \in Addresses :
    /\ o.rob[i].id # 0 /\ o.rob[j].id # 0
    /\ IsGone(o, i, a) /\ LastStore(o.rob[i].id, a) = o.rob[j].id
    => Stored(o, j, a)
PerformedOK(o) == \A x \in o.performed : x[3] = LastStore(x[1], x[2])
DataOK(o) == ProducersOK(o) /\ DependentsOK(o) /\ GoneOK(o) /\ PerformedOK(o)

LEMMA KeepsDependents ==
  ASSUME NEW q \in Cores, NEW t, DependentsOK(q), SameDependents(q, t),
         \A j \in RobSlots : t.rob[j].id = q.rob[j].id
  PROVE  DependentsOK(t)
<1> SUFFICES ASSUME NEW j \in RobSlots, t.rob[j].id # 0, NEW d \in t.rob[j].dependents
             PROVE  Needs(t, d, t.rob[j].id)
  BY DEF DependentsOK
<1>1. d \in q.rob[j].dependents /\ q.rob[j].id = t.rob[j].id
  BY DEF SameDependents
<1>2. d \in RobSlots
  BY <1>1 DEF Cores, RobEntries
<1>3. Needs(q, d, q.rob[j].id)
  BY <1>1 DEF DependentsOK
<1> QED
  BY <1>1, <1>2, <1>3 DEF Needs, Instr

LEMMA KeepsGone ==
  ASSUME NEW q, NEW t, GoneOK(q), t.LQ = q.LQ,
         \A j \in RobSlots : t.rob[j].id = q.rob[j].id /\ t.rob[j].lq_index = q.rob[j].lq_index,
         \A j \in RobSlots, a \in Addresses : q.rob[j].id # 0 /\ Stored(q, j, a) => Stored(t, j, a)
  PROVE  GoneOK(t)
<1> SUFFICES ASSUME NEW i \in RobSlots, NEW j \in RobSlots, NEW a \in Addresses,
                    t.rob[i].id # 0, t.rob[j].id # 0, IsGone(t, i, a),
                    LastStore(t.rob[i].id, a) = t.rob[j].id
             PROVE  Stored(t, j, a)
  BY DEF GoneOK
<1>1. IsGone(q, i, a)
  BY DEF IsGone
<1>2. q.rob[i].id # 0 /\ q.rob[j].id # 0 /\ LastStore(q.rob[i].id, a) = q.rob[j].id
  OBVIOUS
<1>3. Stored(q, j, a)
  BY <1>1, <1>2 DEF GoneOK
<1> QED
  BY <1>2, <1>3

LEMMA DataSame ==
  ASSUME NEW q \in Cores, NEW t, DataOK(q), t.LQ = q.LQ, t.SQ = q.SQ, SameData(q, t),
         \A j \in RobSlots : /\ t.rob[j].id = q.rob[j].id
                             /\ t.rob[j].lq_index = q.rob[j].lq_index
                             /\ t.rob[j].sq_index = q.rob[j].sq_index
  PROVE  DataOK(t)
<1>1. ProducersOK(t)
  BY DEF DataOK, ProducersOK
<1>2. GoneOK(t)
  <2>1. \A j \in RobSlots, a \in Addresses : Stored(q, j, a) => Stored(t, j, a)
    BY DEF Stored
  <2> QED
    BY <2>1, KeepsGone DEF DataOK
<1>3. PerformedOK(t)
  BY DEF DataOK, PerformedOK, SameData
<1>4. DependentsOK(t)
  BY KeepsDependents DEF SameData, DataOK
<1> QED
  BY <1>1, <1>2, <1>3, <1>4 DEF DataOK

(* A load leaves the load queue. *)
LEMMA DataLoadDone ==
  ASSUME NEW q \in Cores, DataOK(q), NEW s \in LqSlots, NEW t \in Cores, LoadDone(q, t, s),
         SameDependents(q, t), PerformedOK(t),
         \A j \in RobSlots : q.rob[j].id # 0 /\ LastStore(q.LQ[s].id, q.LQ[s].va) = q.rob[j].id =>
           Stored(q, j, q.LQ[s].va)
  PROVE  DataOK(t)
<1>1. /\ t.SQ = q.SQ
      /\ \A x \in LqSlots : t.LQ[x] = IF x = s THEN EmptyLq ELSE q.LQ[x]
      /\ \A j \in RobSlots :
           /\ t.rob[j].id = q.rob[j].id
           /\ t.rob[j].lq_index = q.rob[j].lq_index /\ t.rob[j].sq_index = q.rob[j].sq_index
  BY DEF LoadDone, CountsDown, KeepsIndex
<1>2. ProducersOK(t)
  BY <1>1 DEF DataOK, ProducersOK, EmptyLq
<1>3. DependentsOK(t)
  BY <1>1, KeepsDependents DEF DataOK
<1>4. GoneOK(t)
  <2> SUFFICES ASSUME NEW i \in RobSlots, NEW j \in RobSlots, NEW a \in Addresses,
                      t.rob[i].id # 0, t.rob[j].id # 0, IsGone(t, i, a),
                      LastStore(t.rob[i].id, a) = t.rob[j].id
               PROVE  Stored(t, j, a)
    BY DEF GoneOK
  <2>1. PICK x \in LqSlots \cup {None} : x = q.rob[i].lq_index[a]
    BY DEF Cores, RobEntries
  <2>2. x \in LqSlots /\ x # None /\ ~(t.LQ[x].id = q.rob[i].id /\ t.LQ[x].va = a)
    BY SMTT(30), <1>1, <2>1 DEF IsGone
  <2>3. q.rob[i].id # 0 /\ q.rob[j].id # 0 /\ LastStore(q.rob[i].id, a) = q.rob[j].id
    BY <1>1
  <2>4. CASE q.LQ[x].id = q.rob[i].id /\ q.LQ[x].va = a
    <3>1. x = s
      BY <1>1, <2>2, <2>4
    <3> QED
      BY ZenonT(30), <1>1, <2>3, <2>4, <3>1 DEF Stored
  <2>5. CASE ~(q.LQ[x].id = q.rob[i].id /\ q.LQ[x].va = a)
    <3>1. IsGone(q, i, a)
      BY <2>1, <2>2, <2>5 DEF IsGone
    <3>2. Stored(q, j, a)
      BY <2>3, <3>1 DEF DataOK, GoneOK
    <3> QED
      BY <1>1, <3>2 DEF Stored
  <2> QED
    BY <2>4, <2>5
<1> QED
  BY <1>2, <1>3, <1>4 DEF DataOK

(* A load enters the load queue. *)
LEMMA DataLoadAdded ==
  ASSUME NEW q \in Cores, DataOK(q), NEW i \in RobSlots, q.rob[i].id # 0, NEW a \in Addresses,
         NEW s \in LqSlots, NEW p, q.LQ[s].id = 0, Produces(p, q.rob[i].id, a),
         NEW t \in Cores, LoadAdded(q, t, i, a, s, p), SameData(q, t)
  PROVE  DataOK(t)
<1>1. /\ t.SQ = q.SQ
      /\ \A x \in LqSlots : t.LQ[x] = IF x = s THEN [id |-> q.rob[i].id, va |-> a, rob |-> i, producer |-> p]
                                       ELSE q.LQ[x]
      /\ \A j \in RobSlots :
           /\ t.rob[j].id = q.rob[j].id /\ t.rob[j].sq_index = q.rob[j].sq_index
           /\ \A b \in Addresses : t.rob[j].lq_index[b] = IF j = i /\ b = a THEN s ELSE q.rob[j].lq_index[b]
  BY DEF LoadAdded
<1>2. ProducersOK(t)
  BY <1>1 DEF DataOK, ProducersOK
<1>3. DependentsOK(t)
  BY <1>1, KeepsDependents DEF DataOK, SameData
<1>4. PerformedOK(t)
  BY DEF DataOK, PerformedOK, SameData
<1>5. GoneOK(t)
  <2> SUFFICES ASSUME NEW h \in RobSlots, NEW j \in RobSlots, NEW b \in Addresses,
                      t.rob[h].id # 0, t.rob[j].id # 0, IsGone(t, h, b),
                      LastStore(t.rob[h].id, b) = t.rob[j].id
               PROVE  Stored(t, j, b)
    BY DEF GoneOK
  <2>1. PICK x \in LqSlots \cup {None} : x = t.rob[h].lq_index[b]
    BY SMTT(30) DEF Cores, RobEntries
  <2>2. x \in LqSlots /\ x # None /\ ~(t.LQ[x].id = q.rob[h].id /\ t.LQ[x].va = b)
    BY <1>1, <2>1 DEF IsGone
  <2>3. ~(h = i /\ b = a)
    BY <1>1, <2>1, <2>2
  <2>4. x = q.rob[h].lq_index[b]
    BY <1>1, <2>1, <2>3
  <2>5. q.rob[h].id # 0 /\ q.rob[j].id # 0 /\ LastStore(q.rob[h].id, b) = q.rob[j].id
    BY <1>1
  <2>6. ~(q.LQ[x].id = q.rob[h].id /\ q.LQ[x].va = b)
    BY <1>1, <2>2, <2>5
  <2>7. IsGone(q, h, b)
    BY <2>2, <2>4, <2>6 DEF IsGone
  <2>8. Stored(q, j, b)
    BY <2>5, <2>7 DEF DataOK, GoneOK
  <2> QED
    BY <1>1, <2>8 DEF Stored
<1> QED
  BY <1>2, <1>3, <1>4, <1>5 DEF DataOK

(* Its instruction becomes a dependent of the store. *)
LEMMA DataDependsOn ==
  ASSUME NEW q \in Cores, DataOK(q), NEW i \in RobSlots, NEW p, NEW a \in Instr(q, i).loads,
         p # 0 => p = LastStore(q.rob[i].id, a), NEW t, KeepsOps(q, t), DependsOn(q, t, i, p)
  PROVE  DataOK(t)
<1>1. /\ t.SQ = q.SQ /\ t.LQ = q.LQ
      /\ \A j \in RobSlots :
           /\ t.rob[j].id = q.rob[j].id
           /\ t.rob[j].lq_index = q.rob[j].lq_index /\ t.rob[j].sq_index = q.rob[j].sq_index
  BY DEF KeepsOps, KeepsCounts, KeepsIndex
<1>2. ProducersOK(t)
  BY <1>1 DEF DataOK, ProducersOK
<1>3. GoneOK(t)
  <2>1. \A j \in RobSlots, b \in Addresses : Stored(q, j, b) => Stored(t, j, b)
    BY <1>1 DEF Stored
  <2> QED
    BY <1>1, <2>1, KeepsGone DEF DataOK
<1>4. PerformedOK(t)
  BY DEF DataOK, PerformedOK, DependsOn
<1>5. DependentsOK(t)
  <2> SUFFICES ASSUME NEW j \in RobSlots, t.rob[j].id # 0, NEW d \in t.rob[j].dependents
               PROVE  Needs(t, d, t.rob[j].id)
    BY DEF DependentsOK
  <2>1. \/ d \in q.rob[j].dependents
        \/ p # 0 /\ q.rob[j].id = p /\ d = i
    BY DEF DependsOn
  <2>2. CASE d \in q.rob[j].dependents
    <3>1. d \in RobSlots
      BY <2>2 DEF Cores, RobEntries
    <3>2. Needs(q, d, q.rob[j].id)
      BY <1>1, <2>2 DEF DataOK, DependentsOK
    <3> QED
      BY <1>1, <3>1, <3>2 DEF Needs, Instr
  <2>3. CASE p # 0 /\ q.rob[j].id = p /\ d = i
    BY <1>1, <2>3 DEF Needs, Instr
  <2> QED
    BY <2>1, <2>2, <2>3
<1> QED
  BY <1>2, <1>3, <1>4, <1>5 DEF DataOK

(* A store enters the store queue, at a free entry. *)
LEMMA DataStoreAdded ==
  ASSUME NEW q \in Cores, StoreNames(q), DataOK(q), NEW i \in RobSlots, NEW a \in Addresses,
         q.SQ[q.sq_tail].id = 0, NEW t \in Cores, KeepsIssue(q, t), StoreAdded(q, t, i, a)
  PROVE  DataOK(t)
<1>1. /\ t.LQ = q.LQ /\ SameData(q, t)
      /\ \A k \in SqSlots : k # q.sq_tail => t.SQ[k] = q.SQ[k]
      /\ q.rob[i].sq_index[a] = None
      /\ \A j \in RobSlots, b \in Addresses :
           t.rob[j].sq_index[b] = IF j = i /\ b = a THEN q.sq_tail ELSE q.rob[j].sq_index[b]
      /\ \A j \in RobSlots : t.rob[j].id = q.rob[j].id /\ t.rob[j].lq_index = q.rob[j].lq_index
  BY DEF StoreAdded, KeepsIssue, SameData, SameDependents
<1>2. ProducersOK(t)
  BY <1>1 DEF DataOK, ProducersOK
<1>3. DependentsOK(t)
  BY <1>1, KeepsDependents DEF DataOK, SameData
<1>4. PerformedOK(t)
  BY <1>1 DEF DataOK, PerformedOK, SameData
<1>5. ASSUME NEW j \in RobSlots, q.rob[j].id # 0, NEW b \in Addresses, Stored(q, j, b)
      PROVE  Stored(t, j, b)
  <2>1. PICK k \in SqSlots : k = q.rob[j].sq_index[b] /\ k # None /\ q.SQ[k].fetched
    BY <1>5 DEF Stored, Cores, RobEntries
  <2>2. q.SQ[k].id # 0
    BY <1>5, <2>1 DEF StoreNames
  <2>3. t.SQ[k] = q.SQ[k] /\ t.rob[j].sq_index[b] = k
    BY <1>1, <2>1, <2>2
  <2> QED
    BY <2>1, <2>3 DEF Stored
<1>6. GoneOK(t)
  BY <1>1, <1>5, KeepsGone DEF DataOK
<1> QED
  BY <1>2, <1>3, <1>4, <1>6 DEF DataOK

LEMMA DataStoreDone ==
  ASSUME NEW q \in Cores, DataOK(q), NEW k \in SqSlots, NEW t, StoreIsDone(q, t, k), SameData(q, t)
  PROVE  DataOK(t)
<1>1. /\ t.LQ = q.LQ
      /\ \A m \in SqSlots : t.SQ[m].fetched = IF m = k THEN TRUE ELSE q.SQ[m].fetched
      /\ \A j \in RobSlots :
           /\ t.rob[j].id = q.rob[j].id
           /\ t.rob[j].lq_index = q.rob[j].lq_index /\ t.rob[j].sq_index = q.rob[j].sq_index
  BY DEF StoreIsDone, CountsDown, KeepsIndex
<1>2. ProducersOK(t)
  BY <1>1 DEF DataOK, ProducersOK
<1>3. DependentsOK(t)
  BY <1>1, KeepsDependents DEF DataOK, SameData
<1>4. PerformedOK(t)
  BY DEF DataOK, PerformedOK, SameData
<1>5. ASSUME NEW j \in RobSlots, NEW b \in Addresses, Stored(q, j, b)
      PROVE  Stored(t, j, b)
  <2>1. PICK m \in SqSlots : m = q.rob[j].sq_index[b] /\ m # None /\ q.SQ[m].fetched
    BY <1>5 DEF Stored, Cores, RobEntries
  <2> QED
    BY <1>1, <2>1 DEF Stored
<1>6. GoneOK(t)
  BY <1>1, <1>5, KeepsGone DEF DataOK
<1> QED
  BY <1>2, <1>3, <1>4, <1>6 DEF DataOK

LEMMA DataEntered ==
  ASSUME RingTyped, NEW q \in Cores, RingOK(q), IssueOK(q), DataOK(q), q.rob[tail].id = 0,
         dispatched + 1 \in 1 .. Len(program), NEW t, Entered(q, t, dispatched + 1)
  PROVE  DataOK(t)
<1>1. PICK n \in Nat : n = dispatched + 1 /\ n # 0 /\ n \in 1 .. Len(program)
  BY DEF RingTyped
<1>2. /\ tail \in RobSlots /\ t.LQ = q.LQ /\ t.SQ = q.SQ /\ t.performed = q.performed
      /\ \A j \in RobSlots : j # tail => t.rob[j] = q.rob[j]
      /\ t.rob[tail] = NewRob(n)
  BY <1>1 DEF Entered, RingTyped
<1>3. /\ t.rob[tail].id = n /\ t.rob[tail].dependents = {}
      /\ \A a \in Addresses : t.rob[tail].lq_index[a] = None
  BY <1>1, <1>2, NewRobIs
<1>4. ProducersOK(t)
  BY <1>2 DEF DataOK, ProducersOK
<1>5. PerformedOK(t)
  BY <1>2 DEF DataOK, PerformedOK
<1>6. DependentsOK(t)
  <2> SUFFICES ASSUME NEW j \in RobSlots, t.rob[j].id # 0, NEW d \in t.rob[j].dependents
               PROVE  Needs(t, d, t.rob[j].id)
    BY DEF DependentsOK
  <2>1. j # tail
    BY <1>3
  <2>2. d \in q.rob[j].dependents /\ q.rob[j].id # 0 /\ q.rob[j].id \in Nat /\ d \in RobSlots
    BY <1>2, <2>1 DEF Cores, RobEntries
  <2>3. q.rob[j].id < q.rob[d].id
    BY <2>2 DEF IssueOK
  <2>4. d # tail
    BY <2>2, <2>3
  <2>5. Needs(q, d, q.rob[j].id)
    BY <2>2 DEF DataOK, DependentsOK
  <2> QED
    BY <1>2, <2>1, <2>2, <2>4, <2>5 DEF Needs, Instr
<1>7. GoneOK(t)
  <2> SUFFICES ASSUME NEW i \in RobSlots, NEW j \in RobSlots, NEW a \in Addresses,
                      t.rob[i].id # 0, t.rob[j].id # 0, IsGone(t, i, a),
                      LastStore(t.rob[i].id, a) = t.rob[j].id
               PROVE  Stored(t, j, a)
    BY DEF GoneOK
  <2>1. i # tail
    BY <1>3 DEF IsGone
  <2>2. PICK m \in Nat : m = q.rob[i].id /\ m # 0 /\ m < n /\ t.rob[i] = q.rob[i]
    <3>1. t.rob[i] = q.rob[i] /\ q.rob[i].id # 0 /\ q.rob[i].id \in Nat
      BY <1>2, <2>1 DEF Cores, RobEntries
    <3>2. q.rob[i].id \in retired + 1 .. dispatched /\ retired \in Nat /\ dispatched \in Nat
      BY <3>1, RingIds DEF RingTyped
    <3> QED
      BY <1>1, <3>1, <3>2
  <2>3. j # tail
    <3>1. PICK l \in Nat : l = LastStore(m, a) /\ (l # 0 => l \in 1 .. m - 1)
      BY LastStoreIs
    <3>2. l # n
      BY <1>1, <2>2, <3>1
    <3> QED
      BY <1>3, <2>2, <3>1, <3>2
  <2>4. t.rob[j] = q.rob[j]
    BY <1>2, <2>3
  <2>5. IsGone(q, i, a)
    BY <1>2, <2>2 DEF IsGone
  <2>6. Stored(q, j, a)
    BY <2>2, <2>4, <2>5 DEF DataOK, GoneOK
  <2> QED
    BY <1>2, <2>4, <2>6 DEF Stored
<1> QED
  BY <1>4, <1>5, <1>6, <1>7 DEF DataOK

LEMMA DataRetired ==
  ASSUME RingTyped, NEW q \in Cores, RingOK(q), IssueOK(q), StoresOK(q), DataOK(q),
         q.rob[head].id # 0, q.rob[head].executed # "no", NEW t, Retires(q, t, Released(q))
  PROVE  DataOK(t)
<1>1. /\ head \in RobSlots /\ t.LQ = q.LQ /\ t.performed = q.performed
      /\ \A j \in RobSlots : j # head => t.rob[j] = q.rob[j]
      /\ t.rob[head].id = 0
      /\ \A k \in SqSlots : k \notin Released(q) => t.SQ[k] = q.SQ[k]
  BY EmptyRobIs DEF Retires, RingTyped
<1>2. \A k \in SqSlots : k \in Released(q) <=> q.SQ[k].id = q.rob[head].id
  <2>1. PICK u \in Nat : Filled(q, u)
    BY DEF StoresOK
  <2>2. PICK c : c = Cardinality(Instr(q, head).stores)
    OBVIOUS
  <2> QED
    BY <2>1, <2>2, ReleasedPlaces
<1>3. ProducersOK(t)
  BY <1>1 DEF DataOK, ProducersOK
<1>4. PerformedOK(t)
  BY <1>1 DEF DataOK, PerformedOK
<1>5. DependentsOK(t)
  <2> SUFFICES ASSUME NEW j \in RobSlots, t.rob[j].id # 0, NEW d \in t.rob[j].dependents
               PROVE  Needs(t, d, t.rob[j].id)
    BY DEF DependentsOK
  <2>1. j # head
    BY <1>1
  <2>2. d \in q.rob[j].dependents /\ q.rob[j].id # 0 /\ d \in RobSlots
    BY <1>1, <2>1 DEF Cores, RobEntries
  <2>3. d # head
    <3>1. q.rob[j].id < q.rob[d].id
      BY <2>2 DEF IssueOK
    <3>2. Age(j) \in Nat /\ Age(head) = 0
      BY <1>1, AgeFacts, Sizes DEF RingTyped
    <3>3. /\ q.rob[j].id = IF Age(j) < dispatched - retired THEN retired + 1 + Age(j) ELSE 0
          /\ q.rob[head].id = IF Age(head) < dispatched - retired THEN retired + 1 + Age(head) ELSE 0
      BY <1>1 DEF RingOK
    <3>4. q.rob[head].id <= q.rob[j].id
      BY <2>2, <3>2, <3>3 DEF RingTyped
    <3>5. q.rob[head].id \in Nat /\ q.rob[j].id \in Nat
      BY <1>1 DEF Cores, RobEntries
    <3> QED
      BY <3>1, <3>4, <3>5
  <2>4. Needs(q, d, q.rob[j].id)
    BY <2>2 DEF DataOK, DependentsOK
  <2> QED
    BY <1>1, <2>1, <2>2, <2>3, <2>4 DEF Needs, Instr
<1>6. GoneOK(t)
  <2> SUFFICES ASSUME NEW i \in RobSlots, NEW j \in RobSlots, NEW a \in Addresses,
                      t.rob[i].id # 0, t.rob[j].id # 0, IsGone(t, i, a),
                      LastStore(t.rob[i].id, a) = t.rob[j].id
               PROVE  Stored(t, j, a)
    BY DEF GoneOK
  <2>1. i # head /\ j # head /\ t.rob[i] = q.rob[i] /\ t.rob[j] = q.rob[j]
    BY <1>1
  <2>2. IsGone(q, i, a)
    BY <1>1, <2>1 DEF IsGone
  <2>3. Stored(q, j, a)
    BY <2>1, <2>2 DEF DataOK, GoneOK
  <2>4. PICK k \in SqSlots : k = q.rob[j].sq_index[a] /\ k # None /\ q.SQ[k].fetched
    BY <2>3 DEF Stored, Cores, RobEntries
  <2>5. q.SQ[k].id = q.rob[j].id
    BY <2>1, <2>4 DEF StoresOK, StoreNames
  <2>6. k \notin Released(q)
    BY <1>1, <1>2, <2>1, <2>5, RingIds
  <2> QED
    BY <1>1, <2>1, <2>4, <2>6 DEF Stored
<1> QED
  BY <1>3, <1>4, <1>5, <1>6 DEF DataOK

(* A load that asks L1D gets what has retired: its last store has. *)
LEMMA DataExecuteLoad ==
  ASSUME RingTyped, NEW q \in Cores, RingOK(q), LoadNames(q), DataOK(q), NEW s \in LqSlots,
         q.LQ[s].id # 0, q.LQ[s].producer = 0, NEW n, n = LastStore(retired + 1, q.LQ[s].va),
         NEW t, KeepsOps(q, t), Gets(q, t, s, n)
  PROVE  DataOK(t)
<1>1. /\ t.LQ = q.LQ /\ t.SQ = q.SQ
      /\ \A j \in RobSlots :
           /\ t.rob[j].id = q.rob[j].id
           /\ t.rob[j].lq_index = q.rob[j].lq_index /\ t.rob[j].sq_index = q.rob[j].sq_index
  BY DEF KeepsOps, KeepsCounts, KeepsIndex
<1>2. ProducersOK(t)
  BY <1>1 DEF DataOK, ProducersOK
<1>3. DependentsOK(t)
  BY <1>1, KeepsDependents DEF DataOK, Gets
<1>4. GoneOK(t)
  <2>1. \A j \in RobSlots, b \in Addresses : Stored(q, j, b) => Stored(t, j, b)
    BY <1>1 DEF Stored
  <2> QED
    BY <1>1, <2>1, KeepsGone DEF DataOK
<1>5. PICK i \in RobSlots : i = q.LQ[s].rob /\ q.rob[i].id = q.LQ[s].id
  BY DEF LoadNames, LoadIsOwned, Cores, LqEntries
<1>6. PICK m \in Nat : m = q.LQ[s].id /\ retired < m /\ retired \in Nat
  <2>1. q.rob[i].id \in retired + 1 .. dispatched /\ retired \in Nat /\ dispatched \in Nat
    BY <1>5, RingIds DEF RingTyped
  <2> QED
    BY <1>5, <2>1
<1>7. PICK a : a = q.LQ[s].va
  OBVIOUS
<1>8. LastStore(m, a) <= retired
  BY <1>6, <1>7 DEF DataOK, ProducersOK, Produces
<1>9. n = LastStore(m, a)
  BY <1>6, <1>7, <1>8, RetiredStores
<1>10. PerformedOK(t)
  BY <1>6, <1>7, <1>9 DEF DataOK, PerformedOK, Gets
<1> QED
  BY <1>2, <1>3, <1>4, <1>10 DEF DataOK

LEMMA DataPrime ==
  ASSUME RingTyped, DataOK(o3'), o3' \in Cores, program' = program, retired' \in {retired, retired + 1}
  PROVE  DataOK(o3)'
<1>0. \A s \in LqSlots : o3'.LQ[s].id \in Nat
  BY DEF Cores, LqEntries
<1>1. \A n, a : LastStore(n, a)' = LastStore(n, a)
  BY DEF LastStore
<1>2. \A p, n, a : n \in Nat /\ Produces(p, n, a) => Produces(p, n, a)'
  <2> TAKE p, n, a
  <2>1. n \in Nat => LastStore(n, a) \in Nat
    BY LastStoreIs
  <2> QED
    BY <1>1, <2>1 DEF Produces, RingTyped
<1>3. ProducersOK(o3)'
  BY <1>0, <1>2 DEF DataOK, ProducersOK
<1>4. DependentsOK(o3)'
  BY SMTT(30), <1>1 DEF DataOK, DependentsOK, Needs, Instr
<1>5. GoneOK(o3)'
  BY <1>1 DEF DataOK, GoneOK, IsGone, Stored
<1>6. PerformedOK(o3)'
  BY <1>1 DEF DataOK, PerformedOK
<1> QED
  BY <1>3, <1>4, <1>5, <1>6 DEF DataOK

LEMMA KeptData ==
  ASSUME RingTyped, Ordered(o3), DataOK(o3), o3' \in Cores, KeepsOps(o3, o3'), SameData(o3, o3'),
         UNCHANGED <<program, retired>>
  PROVE  DataOK(o3)'
<1>1. PICK q \in Cores : q = o3
  BY DEF Ordered
<1>2. PICK t \in Cores : t = o3'
  OBVIOUS
<1>3. DataOK(t)
  BY <1>1, <1>2, DataSame DEF KeepsOps, KeepsCounts, KeepsIndex
<1> QED
  BY <1>2, <1>3, DataPrime

LEMMA ScheduleData ==
  ASSUME RingTyped, Ordered(o3), DataOK(o3), Schedule
  PROVE  DataOK(o3)'
<1>1. PICK i, s : i \in RobSlots /\ Moved(o3, o3', i, s, o3.rob[i].executed, reg_dependency(o3, i))
  BY ScheduleShape
<1>2. o3' \in Cores /\ KeepsOps(o3, o3') /\ SameData(o3, o3')
  <2>1. PICK w : w = reg_dependency(o3, i)
    OBVIOUS
  <2> QED
    BY <1>1, <2>1, MovedKeepsOps
<1> QED
  BY <1>2, KeptData DEF Schedule

LEMMA ExecuteData ==
  ASSUME RingTyped, Ordered(o3), DataOK(o3), Execute
  PROVE  DataOK(o3)'
<1>1. PICK i \in RobSlots : /\ o3.rob[i].executed = "no"
                            /\ Moved(o3, o3', i, o3.rob[i].scheduled, "INFLIGHT", {})
  BY ExecuteShape
<1>2. o3' \in Cores /\ KeepsOps(o3, o3') /\ SameData(o3, o3')
  BY <1>1, MovedKeepsOps
<1> QED
  BY <1>2, KeptData DEF Execute, ring

LEMMA CompleteData ==
  ASSUME RingTyped, Ordered(o3), DataOK(o3), Complete
  PROVE  DataOK(o3)'
<1>1. PICK i \in RobSlots : Completed(o3, o3', i)
  BY CompleteShape
<1>2. PICK q, t : q \in Cores /\ q = o3 /\ t = o3'
  BY DEF Ordered
<1>3. /\ t \in Cores /\ t.LQ = q.LQ /\ t.SQ = q.SQ /\ SameData(q, t)
      /\ \A j \in RobSlots : /\ t.rob[j].id = q.rob[j].id
                             /\ t.rob[j].lq_index = q.rob[j].lq_index
                             /\ t.rob[j].sq_index = q.rob[j].sq_index
  BY <1>1, <1>2 DEF Completed, KeepsStores, SameData, SameDependents
<1>4. DataOK(t)
  BY <1>2, <1>3, DataSame
<1> QED
  BY <1>2, <1>3, <1>4, DataPrime DEF Complete, ring

LEMMA DispatchData ==
  ASSUME RingTyped, Ordered(o3), DataOK(o3), Dispatch
  PROVE  DataOK(o3)'
<1>1. Entered(o3, o3', dispatched + 1) /\ dispatched + 1 \in 1 .. Len(program)
  BY DispatchShape
<1>2. PICK q, t : q \in Cores /\ q = o3 /\ t = o3'
  BY DEF Ordered
<1>3. DataOK(t)
  BY <1>1, <1>2, DataEntered DEF Ordered, Dispatch
<1> QED
  BY <1>1, <1>2, <1>3, DataPrime DEF Dispatch, Entered

LEMMA RetireData ==
  ASSUME RingTyped, Ordered(o3), StoresOK(o3), DataOK(o3), Retire
  PROVE  DataOK(o3)'
<1>1. Retires(o3, o3', Released(o3)) /\ o3.rob[head].executed = "COMPLETED"
  BY RetireShape DEF Retire
<1>2. PICK q, t : q \in Cores /\ q = o3 /\ t = o3'
  BY DEF Ordered
<1>3. q.rob[head].id # 0
  BY <1>1, <1>2 DEF RingTyped, Ordered, IssueOK
<1>4. DataOK(t)
  BY <1>1, <1>2, <1>3, DataRetired DEF Ordered
<1> QED
  BY <1>1, <1>2, <1>4, DataPrime DEF Retire, Retires

LEMMA TranslateData ==
  ASSUME RingTyped, Ordered(o3), DataOK(o3), TranslateStore \/ TranslateLoad \/ Translated
  PROVE  DataOK(o3)'
<1>1. PICK q, t : q \in Cores /\ q = o3 /\ t = o3'
  BY DEF Ordered
<1>2. t \in Cores
  BY <1>1, TranslateStoreQuiet, TranslateLoadQuiet, TranslatedQuiet DEF Quiet
<1>3. t.rob = q.rob /\ t.LQ = q.LQ /\ t.SQ = q.SQ /\ t.performed = q.performed
  <2>1. CASE TranslateStore
    <3>1. PICK S : t = [q EXCEPT !.RTS0 = S]
      BY <1>1, <2>1 DEF TranslateStore
    <3> QED
      BY <3>1 DEF Cores
  <2>2. CASE TranslateLoad
    <3>1. PICK S : t = [q EXCEPT !.RTL0 = S]
      BY <1>1, <2>2 DEF TranslateLoad
    <3> QED
      BY <3>1 DEF Cores
  <2>3. CASE Translated
    BY <1>1, <2>3 DEF Translated
  <2> QED
    BY <2>1, <2>2, <2>3
<1>4. DataOK(t)
  BY <1>1, <1>2, <1>3, DataSame DEF SameData, SameDependents
<1>5. UNCHANGED <<program, retired>>
  BY DEF TranslateStore, TranslateLoad, Translated, ring
<1> QED
  BY <1>1, <1>2, <1>4, <1>5, DataPrime

LEMMA ExecuteLoadData ==
  ASSUME RingTyped, Ordered(o3), OpsOK(o3, RTL1, RTS1, DTLB, L1D), DataOK(o3), ExecuteLoad
  PROVE  DataOK(o3)'
<1>1. PICK q \in Cores : q = o3
  BY DEF Ordered
<1>2. PICK s \in RTL1 : o3' = Perform(q, s, LastStore(retired + 1, q.LQ[s].va))
  BY <1>1 DEF ExecuteLoad
<1>3. PICK n : n = LastStore(retired + 1, q.LQ[s].va)
  OBVIOUS
<1>4. n \in Nat /\ s \in LqSlots
  BY <1>2, <1>3, LastStoreIs DEF RingTyped
<1>5. PICK t \in Cores : t = Perform(q, s, n) /\ KeepsOps(q, t) /\ Gets(q, t, s, n)
  BY <1>4, PerformKeepsOps
<1>6. q.LQ[s].id # 0 /\ q.LQ[s].producer = 0
  BY <1>1, <1>2, <1>4 DEF OpsOK, Placed, LoadPlaced
<1>7. DataOK(t)
  BY <1>1, <1>3, <1>4, <1>5, <1>6, DataExecuteLoad DEF OpsOK, Ordered
<1> QED
  BY <1>2, <1>3, <1>5, <1>7, DataPrime DEF ExecuteLoad, ring

LEMMA LoadedData ==
  ASSUME RingTyped, Ordered(o3), OpsOK(o3, RTL1, RTS1, DTLB, L1D), DataOK(o3), Loaded
  PROVE  DataOK(o3)'
<1>1. PICK q \in Cores : q = o3
  BY DEF Ordered
<1>2. PICK r \in L1D : o3' = release_load_queue(OpDone(q, r.rob), r.slot)
  BY <1>1 DEF Loaded
<1>3. LoadAsks(q, r) /\ r.slot \in LqSlots
  BY <1>1 DEF OpsOK, Placed, LoadAsks
<1>4. PICK s \in LqSlots : s = r.slot /\ r.rob = q.LQ[s].rob
  BY <1>3 DEF LoadAsks, Request
<1>5. PICK t \in Cores :
        t = release_load_queue(OpDone(q, q.LQ[s].rob), s) /\ LoadDone(q, t, s) /\ SameData(q, t)
  BY AnsweredIs
<1>6. o3' = t
  BY <1>2, <1>4, <1>5
<1>7. Asked(L1D, "LQ", s)
  BY <1>3, <1>4 DEF Asked, LoadAsks
<1>8. q.LQ[s].id # 0 /\ q.LQ[s].producer = 0
  BY <1>1, <1>7 DEF OpsOK, Placed, LoadPlaced
<1>9. LastStore(q.LQ[s].id, q.LQ[s].va) <= retired
  BY <1>1, <1>8 DEF DataOK, ProducersOK, Produces
<1>10. ASSUME NEW j \in RobSlots, q.rob[j].id # 0, LastStore(q.LQ[s].id, q.LQ[s].va) = q.rob[j].id
       PROVE  FALSE
  <2>1. q.rob[j].id \in retired + 1 .. dispatched /\ retired \in Nat /\ dispatched \in Nat
    BY <1>1, <1>10, RingIds DEF RingTyped, Ordered
  <2> QED
    BY <1>9, <1>10, <2>1
<1>11. SameDependents(q, t) /\ PerformedOK(t)
  BY <1>1, <1>5 DEF SameData, DataOK, PerformedOK
<1>12. DataOK(t)
  BY <1>1, <1>5, <1>10, <1>11, DataLoadDone
<1> QED
  BY <1>5, <1>6, <1>12, DataPrime DEF Loaded, ring

LEMMA InitData ==
  ASSUME Init
  PROVE  DataOK(o3)
<1>1. /\ o3.LQ = [s \in LqSlots |-> EmptyLq] /\ o3.rob = [i \in RobSlots |-> EmptyRob]
      /\ o3.performed = {}
  BY DEF Init
<1>2. EmptyLq.id = 0 /\ EmptyRob.id = 0
  BY EmptyRobIs DEF EmptyLq
<1> QED
  BY <1>1, <1>2 DEF DataOK, ProducersOK, DependentsOK, GoneOK, PerformedOK

(* A load that is tried *)
LEMMA TryLoadData ==
  ASSUME RingTyped, NEW q \in Cores, RingOK(q), StoreNames(q), DataOK(q),
         NEW i \in RobSlots, q.rob[i].id # 0, NEW a \in Instr(q, i).loads
  PROVE  DataOK(TryLoad(q, i, a))
<1>1. PICK t : t = TryLoad(q, i, a)
  OBVIOUS
<1>2. a \in Addresses
  BY StoreInstr
<1>3. LoadTried(q, t, i, a)
  BY <1>1, <1>2, TryLoadIs
<1>4. CASE t = q
  BY <1>1, <1>4
<1>5. CASE \E s \in LqSlots, p \in Nat, u, v \in Cores : LoadEnters(q, t, i, a, s, p, u, v)
  <2>1. PICK s \in LqSlots, p \in Nat, u \in Cores, v \in Cores :
          /\ q.LQ[s].id = 0 /\ Produces(p, q.rob[i].id, a)
          /\ LoadAdded(q, u, i, a, s, p) /\ SameData(q, u) /\ KeepsOps(u, v) /\ DependsOn(u, v, i, p)
          /\ \/ t = v
             \/ p # 0 /\ t \in Cores /\ LoadDone(v, t, s) /\ Gets(v, t, s, p) /\ Forwarding(v, s, a) # {}
    BY <1>5 DEF LoadEnters
  <2>2. DataOK(u)
    BY <1>2, <2>1, DataLoadAdded
  <2>3. /\ v.SQ = q.SQ /\ v.LQ = u.LQ
        /\ \A j \in RobSlots :
             u.rob[j].id = q.rob[j].id /\ v.rob[j].id = q.rob[j].id /\ v.rob[j].sq_index = q.rob[j].sq_index
    BY <2>1 DEF LoadAdded, KeepsOps, KeepsCounts, KeepsIndex
  <2>4. v.LQ[s].id = q.rob[i].id /\ v.LQ[s].va = a /\ v.LQ[s].producer = p
    BY <2>1, <2>3 DEF LoadAdded
  <2>5. p # 0 => p = LastStore(q.rob[i].id, a)
    BY <2>1 DEF Produces
  <2>6. DataOK(v)
    <3>1. a \in Instr(u, i).loads
      BY <2>3 DEF Instr
    <3> QED
      BY <2>1, <2>2, <2>3, <2>5, <3>1, DataDependsOn
  <2>7. CASE t = v
    BY <1>1, <2>6, <2>7
  <2>8. CASE p # 0 /\ t \in Cores /\ LoadDone(v, t, s) /\ Gets(v, t, s, p) /\ Forwarding(v, s, a) # {}
    <3>1. PICK k \in SqSlots : q.SQ[k].va = a /\ q.SQ[k].id = p /\ q.SQ[k].fetched
      BY <2>3, <2>4, <2>8 DEF Forwarding
    <3>2. PICK h \in RobSlots : h = q.SQ[k].rob /\ q.rob[h].id = p /\ q.rob[h].sq_index[a] = k
      BY <2>8, <3>1 DEF StoreNames, StoreIsOwned, Cores, SqEntries
    <3>3. ASSUME NEW j \in RobSlots, v.rob[j].id # 0, LastStore(v.LQ[s].id, v.LQ[s].va) = v.rob[j].id
          PROVE  Stored(v, j, v.LQ[s].va)
      <4>1. q.rob[j].id = p
        BY <2>3, <2>4, <2>5, <2>8, <3>3
      <4>2. j = h
        BY <2>8, <3>2, <4>1, RingIds
      <4> QED
        BY ZenonT(30), <2>3, <2>4, <3>1, <3>2, <4>2, SlotFacts DEF Stored
    <3>4. PerformedOK(t)
      BY <2>4, <2>5, <2>6, <2>8 DEF DataOK, PerformedOK, Gets
    <3>5. SameDependents(v, t)
      BY <2>8 DEF Gets
    <3>6. DataOK(t)
      BY <2>6, <2>8, <3>3, <3>4, <3>5, DataLoadDone
    <3> QED
      BY <1>1, <3>6
  <2> QED
    BY <2>1, <2>7, <2>8
<1> QED
  BY <1>3, <1>4, <1>5 DEF LoadTried

LEMMA ScheduleMemoryData ==
  ASSUME RingTyped, Ordered(o3), StoresOK(o3), DataOK(o3), ScheduleMemory
  PROVE  DataOK(o3)'
<1> DEFINE Sound(t) == StoresOK(t) /\ DataOK(t)
           I == {t \in Cores : Sound(t)}
<1>1. ASSUME NEW q \in I, NEW i \in RobSlots, Ordered(q), q.rob[i].id # 0, Issued(q, i)
      PROVE  /\ \A a \in Addresses : /\ a \in Instr(q, i).loads => TryLoad(q, i, a) \in I
                                     /\ a \in Instr(q, i).stores => TryStore(q, i, a) \in I
             /\ Scheduled(q, i) \in I
  <2>1. q \in Cores /\ StoresOK(q) /\ RingOK(q) /\ DataOK(q) /\ StoreNames(q)
    BY <1>1 DEF Ordered, StoresOK
  <2>2. ASSUME NEW a \in Addresses, a \in Instr(q, i).loads
        PROVE  TryLoad(q, i, a) \in I
    <3>1. PICK t : t = TryLoad(q, i, a)
      OBVIOUS
    <3>2. t \in Cores /\ KeepsIssue(q, t) /\ KeepsStores(q, t)
      BY <1>1, <2>1, <3>1, TryLoadAdvances DEF Advances
    <3>3. \A j \in RobSlots : t.rob[j].id = q.rob[j].id /\ t.rob[j].executed = q.rob[j].executed
      BY <3>2 DEF KeepsIssue
    <3>4. StoresOK(t)
      BY <2>1, <3>2, <3>3, KeepsStoresOK
    <3>5. DataOK(t)
      BY <1>1, <2>1, <2>2, <3>1, TryLoadData
    <3> QED
      BY <3>1, <3>2, <3>4, <3>5
  <2>3. ASSUME NEW a \in Addresses, a \in Instr(q, i).stores
        PROVE  TryStore(q, i, a) \in I
    <3>1. PICK t : t = TryStore(q, i, a)
      OBVIOUS
    <3>2. t \in Cores /\ KeepsIssue(q, t) /\ (t = q \/ StoreAdded(q, t, i, a))
      BY <1>1, <2>1, <3>1, TryStoreAdvances DEF Advances
    <3>3. t # q => StoresOK(t)
      BY <1>1, <2>1, <2>3, <3>2, StoreAddedOK
    <3>4. t # q => DataOK(t)
      <4>1. SUFFICES ASSUME StoreAdded(q, t, i, a)
                     PROVE  DataOK(t)
        BY <3>2
      <4>2. q.SQ[q.sq_tail].id = 0
        <5>1. PICK u \in Nat : Filled(q, u)
          BY <2>1 DEF StoresOK
        <5>2. FreeSq(q) # {}
          BY <4>1 DEF StoreAdded
        <5>3. Place(q.sq_tail) = u /\ q.sq_tail \in SqSlots /\ u \in Nat
          BY <2>1, <5>1, <5>2, SqTailPlace
        <5> QED
          BY <5>1, <5>3 DEF Filled
      <4> QED
        BY <1>1, <2>1, <2>3, <3>2, <4>1, <4>2, DataStoreAdded
    <3> QED
      BY <2>1, <3>1, <3>2, <3>3, <3>4
  <2>4. Scheduled(q, i) \in I
    <3>1. PICK t : t = Scheduled(q, i)
      OBVIOUS
    <3>2. /\ Advances(q, t) /\ KeepsStores(q, t)
          /\ \A j \in RobSlots : t.rob[j].executed = q.rob[j].executed \/ StoresIn(q, j)
      BY <1>1, <2>1, <3>1, ScheduledAdvances
    <3>3. t \in Cores /\ \A j \in RobSlots : t.rob[j].id = q.rob[j].id
      BY <3>2 DEF Advances
    <3>4. StoresOK(t)
      BY <2>1, <3>2, <3>3, KeepsStoresOK
    <3>5. DataOK(t)
      <4>1. KeepsOps(q, t) /\ SameData(q, t)
        BY <2>1, <3>1, ScheduledKeepsOps
      <4> QED
        BY <2>1, <4>1, DataSame DEF KeepsOps, KeepsCounts, KeepsIndex
    <3> QED
      BY <3>1, <3>3, <3>4, <3>5
  <2> QED
    BY <2>2, <2>3, <2>4
<1>2. o3 \in I
  BY DEF Ordered
<1>3. o3' \in I
  <2> HIDE DEF I
  <2>1. \A q \in I, i \in RobSlots :
          Ordered(q) /\ Advances(o3, q) /\ q.rob[i].id # 0 /\ Issued(q, i) =>
            /\ \A a \in Addresses : /\ a \in Instr(q, i).loads => TryLoad(q, i, a) \in I
                                    /\ a \in Instr(q, i).stores => TryStore(q, i, a) \in I
            /\ Scheduled(q, i) \in I
    BY <1>1
  <2> QED
    BY <1>2, <2>1, PassKeeps
<1>4. o3' \in Cores /\ DataOK(o3')
  BY <1>3
<1> QED
  BY <1>4, DataPrime DEF ScheduleMemory, ring

(* The dependents of a store that has not executed wait for it, each with a load of its own. *)
LEMMA ConsumersWait ==
  ASSUME RingTyped, Uncrossed, NEW q, Ordered(q), StoreNames(q), DataOK(q),
         NEW k \in SqSlots, q.SQ[k].id # 0, ~q.SQ[k].fetched, NEW d \in Consumers(q, k)
  PROVE  LET s == ConsumerSlot(q, k, d)
         IN /\ s \in LqSlots /\ d \in RobSlots /\ q.SQ[k].va \in Addresses
            /\ q.rob[d].id # 0 /\ q.LQ[s].id = q.rob[d].id /\ q.LQ[s].va = q.SQ[k].va
            /\ q.LQ[s].producer = q.SQ[k].id /\ q.SQ[k].id = LastStore(q.rob[d].id, q.SQ[k].va)
            /\ \A j \in RobSlots : q.rob[j].id = q.SQ[k].id => q.rob[j].sq_index[q.SQ[k].va] = k
<1>1. q \in Cores /\ RingOK(q) /\ IssueOK(q)
  BY DEF Ordered
<1>2. PICK i \in RobSlots : i = q.SQ[k].rob
  BY <1>1 DEF Cores, SqEntries
<1>3. PICK a : a = q.SQ[k].va
  OBVIOUS
<1>4. q.rob[i].id = q.SQ[k].id /\ a \in Instr(q, i).stores /\ q.rob[i].sq_index[a] = k
  BY <1>2, <1>3 DEF StoreNames, StoreIsOwned
<1>5. a \in Addresses
  BY <1>1, <1>4, StoreInstr
<1>6. PICK s \in LqSlots : s = ConsumerSlot(q, k, d) /\ s = q.rob[d].lq_index[a] /\ s # None
  <2>1. ConsumerSlot(q, k, d) \in LqSlots
    BY ConsumersTyped
  <2>2. ConsumerSlot(q, k, d) = q.rob[d].lq_index[a] /\ q.rob[d].lq_index[a] # None
    BY <1>3 DEF ConsumerSlot, Consumers
  <2> QED
    BY <2>1, <2>2
<1>7. d \in RobSlots /\ d \in q.rob[i].dependents /\ a \in Instr(q, d).loads
  BY <1>2, <1>3, ConsumersTyped DEF Consumers
<1>8. q.rob[d].id # 0
  <2>1. q.rob[i].id < q.rob[d].id /\ q.rob[i].id \in Nat
    BY <1>1, <1>7 DEF IssueOK, Cores, RobEntries
  <2> QED
    BY <2>1
<1>9. PICK n : n = q.rob[d].id /\ n \in 1 .. Len(program) /\ Instr(q, d) = program[n]
  <2>1. q.rob[d].id \in 0 .. Len(program)
    BY <1>1, <1>7, RingIds
  <2> QED
    BY <1>8, <2>1, ProgramIs DEF Instr
<1>10. LastStore(n, a) = q.SQ[k].id
  <2>1. PICK b \in Instr(q, d).loads : LastStore(n, b) = q.rob[i].id
    BY <1>4, <1>7, <1>9 DEF DataOK, DependentsOK, Needs
  <2>2. LastStore(n, b) # 0 /\ a \in program[LastStore(n, b)].stores
    BY <1>4, <2>1 DEF Instr
  <2> QED
    BY <1>4, <1>7, <1>9, <2>1, <2>2 DEF Uncrossed
<1>11. ~Stored(q, i, a)
  BY <1>4 DEF Stored
<1>12. ~IsGone(q, d, a)
  BY <1>4, <1>5, <1>7, <1>8, <1>9, <1>10, <1>11 DEF DataOK, GoneOK
<1>13. q.LQ[s].id = n /\ q.LQ[s].va = a
  BY <1>6, <1>9, <1>12 DEF IsGone
<1>14. Produces(q.LQ[s].producer, n, a)
  BY <1>8, <1>9, <1>13 DEF DataOK, ProducersOK
<1>15. q.LQ[s].producer = q.SQ[k].id
  <2>1. q.rob[i].id \in retired + 1 .. dispatched /\ retired \in Nat /\ dispatched \in Nat
    BY <1>1, <1>4, RingIds DEF RingTyped
  <2>2. ~(LastStore(n, a) <= retired)
    BY <1>4, <1>10, <2>1
  <2> QED
    BY <1>10, <1>14, <2>2 DEF Produces
<1>16. \A j \in RobSlots : q.rob[j].id = q.SQ[k].id => q.rob[j].sq_index[a] = k
  BY <1>1, <1>4, RingIds
<1> QED
  BY <1>3, <1>5, <1>6, <1>7, <1>8, <1>9, <1>10, <1>13, <1>15, <1>16

LEMMA ConsumersMatch ==
  ASSUME RingTyped, Uncrossed, NEW q, Ordered(q), StoreNames(q), DataOK(q),
         NEW k \in SqSlots, q.SQ[k].id # 0, ~q.SQ[k].fetched
  PROVE  ForwardsMatch(q, k)
<1>1. \A d \in Consumers(q, k) :
        /\ d \in RobSlots /\ q.rob[d].id # 0
        /\ q.LQ[ConsumerSlot(q, k, d)].id = q.rob[d].id
        /\ q.LQ[ConsumerSlot(q, k, d)].producer = q.SQ[k].id
  BY ConsumersWait
<1>2. \A d, e \in Consumers(q, k) : ConsumerSlot(q, k, d) = ConsumerSlot(q, k, e) => d = e
  BY <1>1, RingIds DEF Ordered
<1> QED
  BY <1>1, <1>2 DEF ForwardsMatch

(* The loads that execute_store() comes to wait for the store and get its data. *)
LEMMA ExecuteStoreData ==
  ASSUME RingTyped, Uncrossed, Ordered(o3), StoresOK(o3), OpsOK(o3, RTL1, RTS1, DTLB, L1D),
         DataOK(o3), ExecuteStore
  PROVE  DataOK(o3)'
<1>1. PICK q \in Cores : q = o3
  BY DEF Ordered
<1>2. PICK k \in RTS1 : ForwardsMatch(q, k) /\ o3' = execute_store(q, k)
  BY <1>1 DEF ExecuteStore
<1>3. k \in SqSlots
  BY <1>2 DEF RingTyped
<1>4. q.SQ[k].id # 0 /\ ~q.SQ[k].fetched
  BY <1>1, <1>2, <1>3 DEF OpsOK, Placed, StorePlaced
<1>5. PICK C \in SUBSET RobSlots : C = Consumers(q, k)
  BY <1>1, <1>3, ConsumersTyped
<1>6. PICK place \in [C -> LqSlots] : \A d \in C : place[d] = ConsumerSlot(q, k, d)
  <2>1. \A d \in C : ConsumerSlot(q, k, d) \in LqSlots
    BY <1>1, <1>3, <1>5, ConsumersTyped
  <2>2. PICK f : f = [d \in C |-> ConsumerSlot(q, k, d)]
    OBVIOUS
  <2> QED
    BY <2>1, <2>2
<1>7. PICK a : a = q.SQ[k].va
  OBVIOUS
<1>8. PICK m : m = q.SQ[k].id
  OBVIOUS
<1>9. \A d \in C : /\ q.LQ[place[d]].va = a /\ q.LQ[place[d]].producer = m
                   /\ m = LastStore(q.LQ[place[d]].id, a)
                   /\ \A j \in RobSlots : q.rob[j].id = m => q.rob[j].sq_index[a] = k
  BY <1>1, <1>3, <1>4, <1>5, <1>6, <1>7, <1>8, ConsumersWait DEF StoresOK
<1>10. \A d, e \in C : place[d] = place[e] => d = e
  BY <1>2, <1>5, <1>6 DEF ForwardsMatch
<1>11. PICK u \in Cores : u = StoreDone(q, k) /\ StoreIsDone(q, u, k) /\ SameData(q, u)
  BY <1>3, StoreDoneIs
<1>12. DataOK(u)
  BY <1>1, <1>3, <1>11, DataStoreDone
<1> DEFINE Waiting(t, n) == \A d \in C : d >= n => t.LQ[place[d]] = q.LQ[place[d]]
           Same(t) == /\ t.SQ[k].fetched
                      /\ \A j \in RobSlots : t.rob[j].id = q.rob[j].id /\ t.rob[j].sq_index = q.rob[j].sq_index
           J == [n \in 0 .. ROB_SIZE |-> {t \in Cores : Same(t) /\ DataOK(t) /\ Waiting(t, n)}]
<1>13. u \in J[0]
  <2>1. u.LQ = q.LQ /\ Same(u)
    BY <1>3, <1>11 DEF StoreIsDone, CountsDown, KeepsIndex
  <2> QED
    BY <1>11, <1>12, <2>1, Sizes
<1>14. ASSUME NEW n \in 1 .. ROB_SIZE, NEW t \in Cores, t \in J[n - 1]
       PROVE  IF n - 1 \in C THEN Forward(t, place[n - 1], a) \in J[n] ELSE t \in J[n]
  <2>1. Same(t) /\ DataOK(t) /\ Waiting(t, n - 1) /\ n - 1 \in 0 .. ROB_SIZE /\ n \in 0 .. ROB_SIZE
    BY <1>14, Sizes
  <2>2. CASE n - 1 \notin C
    <3>1. Waiting(t, n)
      <4>1. \A d \in C : d >= n => d >= n - 1
        BY DEF RobSlots
      <4> QED
        BY <2>1, <4>1
    <3> QED
      BY <2>1, <2>2, <3>1
  <2>3. CASE n - 1 \in C
    <3>1. PICK s \in LqSlots : s = place[n - 1]
      BY <2>3
    <3>2. t.LQ[s].va = a /\ t.LQ[s].producer = m /\ m = LastStore(t.LQ[s].id, a)
      BY <1>9, <2>1, <2>3, <3>1
    <3>3. PICK v \in Cores : v = Forward(t, s, a) /\ LoadDone(t, v, s) /\ Gets(t, v, s, m)
      BY <3>2, ForwardIs
    <3>4. PerformedOK(v)
      BY <2>1, <3>2, <3>3 DEF DataOK, PerformedOK, Gets
    <3>5. ASSUME NEW j \in RobSlots, t.rob[j].id # 0, LastStore(t.LQ[s].id, t.LQ[s].va) = t.rob[j].id
          PROVE  Stored(t, j, t.LQ[s].va)
      <4>1. q.rob[j].id = m
        BY <2>1, <3>2, <3>5
      <4>2. t.rob[j].sq_index[a] = k
        BY <1>9, <2>1, <2>3, <4>1
      <4> QED
        BY <1>3, <2>1, <3>2, <4>2, SlotFacts DEF Stored
    <3>6. SameDependents(t, v)
      BY <3>3 DEF Gets
    <3>7. DataOK(v)
      BY <2>1, <3>3, <3>4, <3>5, <3>6, DataLoadDone
    <3>8. Same(v)
      BY <2>1, <3>3 DEF LoadDone, CountsDown, KeepsIndex
    <3>9. Waiting(v, n)
      <4> SUFFICES ASSUME NEW d \in C, d >= n
                   PROVE  v.LQ[place[d]] = q.LQ[place[d]]
        OBVIOUS
      <4>1. d >= n - 1 /\ d # n - 1
        BY SlotFacts
      <4>2. place[d] # s
        BY <1>10, <2>3, <3>1, <4>1
      <4>3. place[d] \in LqSlots /\ t.LQ[place[d]] = q.LQ[place[d]]
        BY <2>1, <4>1
      <4> QED
        BY <3>3, <4>2, <4>3 DEF LoadDone
    <3>10. v \in J[n]
      <4> HIDE DEF Waiting, Same
      <4> QED
        BY <2>1, <3>7, <3>8, <3>9
    <3> HIDE DEF J
    <3> QED
      BY <2>3, <3>1, <3>3, <3>10
  <2> QED
    BY <2>2, <2>3
<1>15. J[ROB_SIZE] \subseteq {t \in Cores : DataOK(t)}
  BY Sizes
<1> HIDE DEF J
<1>16. execute_store(q, k) \in J[ROB_SIZE]
  <2>1. \A t \in Cores, d \in Consumers(q, k) : Forward(t, ConsumerSlot(q, k, d), q.SQ[k].va) \in Cores
    BY <1>5, <1>6, ForwardIs
  <2>2. \A n \in 1 .. ROB_SIZE, t \in Cores : t \in J[n - 1] =>
          IF n - 1 \in Consumers(q, k) THEN Forward(t, ConsumerSlot(q, k, n - 1), q.SQ[k].va) \in J[n]
          ELSE t \in J[n]
    BY <1>5, <1>6, <1>7, <1>14
  <2> QED
    BY <1>5, <1>11, <1>13, <2>1, <2>2, ExecuteStoreStays
<1>17. o3' \in Cores /\ DataOK(o3')
  BY <1>2, <1>15, <1>16
<1> QED
  BY <1>17, DataPrime DEF ExecuteStore, ring

(* What the loads get is what they need throughout, when the trace is not crossed. *)
LEMMA DataInvariant == Spec /\ Uncrossed => [](Uncrossed /\ DataOK(o3))
<1> DEFINE Data == Uncrossed /\ DataOK(o3)
           Before == RingTyped /\ Ordered(o3) /\ StoresOK(o3) /\ OpsOK(o3, RTL1, RTS1, DTLB, L1D)
<1>1. Init /\ Uncrossed => Data
  BY InitData
<1>2. ASSUME Before, Data, [Next]_vars
      PROVE  Data'
  <2>1. program' = program
    BY <1>2 DEF vars, Next, Dispatch, Schedule, Execute, Complete, ScheduleMemory, TranslateStore,
                TranslateLoad, Translated, ExecuteStore, ExecuteLoad, Loaded, Retire
  <2>2. Uncrossed'
    <3>1. \A n, a : LastStore(n, a)' = LastStore(n, a)
      BY <2>1 DEF LastStore
    <3> QED
      BY <1>2, <2>1, <3>1 DEF Uncrossed
  <2> SUFFICES DataOK(o3)'
    BY <2>2
  <2>3. CASE Dispatch
    BY <1>2, <2>3, DispatchData
  <2>4. CASE Schedule
    BY <1>2, <2>4, ScheduleData
  <2>5. CASE Execute
    BY <1>2, <2>5, ExecuteData
  <2>6. CASE Complete
    BY <1>2, <2>6, CompleteData
  <2>7. CASE ScheduleMemory
    BY <1>2, <2>7, ScheduleMemoryData
  <2>8. CASE TranslateStore \/ TranslateLoad \/ Translated
    BY <1>2, <2>8, TranslateData
  <2>9. CASE ExecuteStore
    BY <1>2, <2>9, ExecuteStoreData
  <2>10. CASE ExecuteLoad
    BY <1>2, <2>10, ExecuteLoadData
  <2>11. CASE Loaded
    BY <1>2, <2>11, LoadedData
  <2>12. CASE Retire
    BY <1>2, <2>12, RetireData
  <2>13. CASE UNCHANGED vars
    <3>1. o3' = o3 /\ retired' = retired /\ o3' \in Cores
      BY <1>2, <2>13 DEF vars, ring, Ordered
    <3>2. DataOK(o3')
      BY <1>2, <3>1
    <3> QED
      BY <1>2, <2>1, <3>1, <3>2, DataPrime
  <2> QED
    BY Zenon, <1>2, <2>3, <2>4, <2>5, <2>6, <2>7, <2>8, <2>9, <2>10, <2>11, <2>12, <2>13 DEF Next
<1> HIDE DEF Before, Data
<1>3. Spec => []Before
  <2> HIDE DEF RingTyped, Ordered, StoresOK, OpsOK
  <2> QED
    BY OrderOfIssue, StoresInvariant, OpsInvariant, PTL DEF Before
<1>4. Init /\ Uncrossed /\ []Before /\ [][Next]_vars => []Data
  <2> HIDE DEF Uncrossed
  <2> QED
    BY <1>1, <1>2, PTL
<1>5. Spec /\ Uncrossed => []Data
  <2> HIDE DEF Uncrossed
  <2> QED
    BY <1>3, <1>4, PTL DEF Spec
<1> QED
  BY <1>5 DEF Data

(* Each load gets the data of the last store before it in the trace, from the store queue or, *)
(* when that store has retired, from L1D, for every size of the queues and every trace in     *)
(* which no instruction has two loads, each of an address of a store that is the last before  *)
(* the other: what add_load_queue() searches for, execute_store() forwards and retire_rob()   *)
(* writes agree, though slots of the rings and the queues are used again.                     *)
THEOREM LoadsGetTheirData == Spec /\ Uncrossed => []LoadsSeeLastStore
<1>1. Uncrossed /\ DataOK(o3) => LoadsSeeLastStore
  BY DEF DataOK, PerformedOK, LoadsSeeLastStore
<1> HIDE DEF Uncrossed, DataOK, LoadsSeeLastStore
<1> QED
  BY <1>1, DataInvariant, PTL

(* For such traces the assertion of execute_store() holds: every load that a store is to be *)
(* forwarded to is in the load queue and names it as its producer. So no store that is      *)
(* translated stops the program.                                                            *)
THEOREM StoresFindTheirLoads == Spec /\ Uncrossed => []StoreFindsItsConsumers
<1>1. RingTyped /\ Ordered(o3) /\ StoresOK(o3) /\ OpsOK(o3, RTL1, RTS1, DTLB, L1D)
        /\ Uncrossed /\ DataOK(o3) => StoreFindsItsConsumers
  <2> SUFFICES ASSUME RingTyped, Ordered(o3), StoresOK(o3), OpsOK(o3, RTL1, RTS1, DTLB, L1D),
                      Uncrossed, DataOK(o3), NEW k \in RTS1
               PROVE  ForwardsMatch(o3, k)
    BY DEF StoreFindsItsConsumers
  <2>1. k \in SqSlots
    BY DEF RingTyped
  <2>2. o3.SQ[k].id # 0 /\ ~o3.SQ[k].fetched
    BY <2>1 DEF OpsOK, Placed, StorePlaced
  <2> QED
    BY <2>1, <2>2, ConsumersMatch DEF StoresOK
<1> HIDE DEF RingTyped, Ordered, StoresOK, OpsOK, Uncrossed, DataOK, StoreFindsItsConsumers
<1> QED
  BY <1>1, OrderOfIssue, StoresInvariant, OpsInvariant, DataInvariant, PTL

-------------------------------------------------------------------------------
(* The counters of executions, and the types *)

(* The instructions without memory operations that execute *)
Executing(o) ==
  {i \in RobSlots : o.rob[i].id # 0 /\ ~Memory(o.rob[i].id) /\ o.rob[i].executed = "INFLIGHT"}
RegsCounted == inflight_reg = Cardinality(Executing(o3))

LEMMA ExecutingFinite ==
  ASSUME NEW o
  PROVE  IsFiniteSet(Executing(o)) /\ Cardinality(Executing(o)) \in Nat
<1>1. IsFiniteSet(RobSlots)
  BY Sizes, FS_Interval DEF RobSlots
<1>2. Executing(o) \subseteq RobSlots
  BY DEF Executing
<1> QED
  BY <1>1, <1>2, FS_Subset, FS_CardinalityType

(* A step that starts and completes no such instruction keeps the count. *)
KeepsExecuting(q, t) ==
  \A j \in RobSlots :
    \/ /\ t.rob[j].id = q.rob[j].id
       /\ Memory(q.rob[j].id) \/ t.rob[j].executed = q.rob[j].executed
    \/ q.rob[j].executed # "INFLIGHT" /\ t.rob[j].executed # "INFLIGHT"

LEMMA KeptExecuting ==
  ASSUME RegsCounted, KeepsExecuting(o3, o3'), UNCHANGED <<program, inflight_reg>>
  PROVE  RegsCounted'
<1>1. \A j \in RobSlots :
        /\ Memory(o3.rob[j].id)' = Memory(o3'.rob[j].id)
        /\ \/ /\ o3'.rob[j].id = o3.rob[j].id
              /\ Memory(o3.rob[j].id) \/ o3'.rob[j].executed = o3.rob[j].executed
           \/ o3.rob[j].executed # "INFLIGHT" /\ o3'.rob[j].executed # "INFLIGHT"
  BY DEF KeepsExecuting, Memory
<1>2. Executing(o3)' = Executing(o3)
  BY <1>1 DEF Executing
<1> QED
  BY <1>2 DEF RegsCounted

LEMMA QuietRegs ==
  ASSUME RegsCounted, Quiet(o3, o3'), UNCHANGED <<program, inflight_reg>>
  PROVE  RegsCounted'
<1>1. KeepsExecuting(o3, o3')
  BY DEF Quiet, KeepsIssue, KeepsExecuting
<1> QED
  BY <1>1, KeptExecuting

LEMMA ExecuteRegs ==
  ASSUME RingTyped, Ordered(o3), RegsCounted, Execute
  PROVE  RegsCounted'
<1>1. PICK i \in RobSlots : /\ o3.rob[i].id # 0 /\ ~Memory(o3.rob[i].id) /\ o3.rob[i].executed = "no"
                            /\ Moved(o3, o3', i, o3.rob[i].scheduled, "INFLIGHT", {})
  BY ExecuteShape
<1>2. program' = program /\ inflight_reg' = inflight_reg + 1
  BY DEF Execute
<1>3. \A j \in RobSlots : /\ o3'.rob[j].id = o3.rob[j].id /\ Memory(o3.rob[j].id)' = Memory(o3'.rob[j].id)
                          /\ o3'.rob[j].executed = IF j = i THEN "INFLIGHT" ELSE o3.rob[j].executed
  BY <1>1, <1>2 DEF Moved, Memory
<1>4. Executing(o3)' = Executing(o3) \cup {i} /\ i \notin Executing(o3)
  BY <1>1, <1>3 DEF Executing
<1>5. IsFiniteSet(Executing(o3)) /\ Cardinality(Executing(o3)) \in Nat
  BY ExecutingFinite
<1>6. Cardinality(Executing(o3) \cup {i}) = Cardinality(Executing(o3)) + 1
  BY <1>4, <1>5, FS_AddElement
<1> QED
  BY <1>2, <1>4, <1>6 DEF RegsCounted

LEMMA CompleteRegs ==
  ASSUME RingTyped, Ordered(o3), RegsCounted, Complete
  PROVE  RegsCounted'
<1>1. PICK i \in RobSlots :
        /\ o3.rob[i].id # 0 /\ o3.rob[i].executed = "INFLIGHT" /\ Completed(o3, o3', i)
        /\ inflight_reg' = inflight_reg - (IF Memory(o3.rob[i].id) THEN 0 ELSE 1)
  BY CompleteShape
<1>2. program' = program
  BY DEF Complete
<1>3. \A j \in RobSlots : /\ o3'.rob[j].id = o3.rob[j].id /\ Memory(o3.rob[j].id)' = Memory(o3'.rob[j].id)
                          /\ o3'.rob[j].executed = IF j = i THEN "COMPLETED" ELSE o3.rob[j].executed
  BY <1>1, <1>2 DEF Completed, Memory
<1>4. Executing(o3)' = Executing(o3) \ {i}
  BY <1>3 DEF Executing
<1>5. IsFiniteSet(Executing(o3)) /\ Cardinality(Executing(o3)) \in Nat
  BY ExecutingFinite
<1>6. CASE Memory(o3.rob[i].id)
  <2>1. i \notin Executing(o3)
    BY <1>6 DEF Executing
  <2>2. Executing(o3)' = Executing(o3)
    BY <1>4, <2>1
  <2>3. inflight_reg' = inflight_reg
    BY <1>1, <1>6 DEF RingTyped
  <2> QED
    BY <2>2, <2>3 DEF RegsCounted
<1>7. CASE ~Memory(o3.rob[i].id)
  <2>1. i \in Executing(o3)
    BY <1>1, <1>7 DEF Executing
  <2>2. Cardinality(Executing(o3) \ {i}) = Cardinality(Executing(o3)) - 1
    BY <1>5, <2>1, FS_RemoveElement
  <2>3. inflight_reg' = inflight_reg - 1
    BY <1>1, <1>7
  <2> QED
    BY <1>4, <2>2, <2>3 DEF RegsCounted
<1> QED
  BY <1>6, <1>7

(* A pass over the memory instructions starts only those. *)
LEMMA ScheduleMemoryRegs ==
  ASSUME RingTyped, Ordered(o3), RegsCounted, ScheduleMemory
  PROVE  RegsCounted'
<1> DEFINE Keeps(t) == \A j \in RobSlots : /\ t.rob[j].id = o3.rob[j].id
                                           /\ \/ Memory(o3.rob[j].id)
                                              \/ t.rob[j].executed = o3.rob[j].executed
           I == {t \in Cores : Keeps(t)}
<1>1. o3 \in I
  BY DEF Ordered
<1>2. ASSUME NEW q \in I, NEW i \in RobSlots, Ordered(q), q.rob[i].id # 0, Issued(q, i),
             Memory(q.rob[i].id)
      PROVE  /\ \A a \in Addresses : TryLoad(q, i, a) \in I /\ TryStore(q, i, a) \in I
             /\ Scheduled(q, i) \in I
  <2>1. q \in Cores /\ Keeps(q) /\ RingOK(q)
    BY <1>2 DEF Ordered
  <2>2. \A t : t \in Cores /\ KeepsIssue(q, t) => t \in I
    BY <2>1 DEF KeepsIssue
  <2>3. ASSUME NEW a \in Addresses
        PROVE  TryLoad(q, i, a) \in I /\ TryStore(q, i, a) \in I
    <3>1. /\ Advances(q, TryLoad(q, i, a)) /\ KeepsIssue(q, TryLoad(q, i, a))
          /\ Advances(q, TryStore(q, i, a)) /\ KeepsIssue(q, TryStore(q, i, a))
      BY <1>2, <2>1, TryLoadAdvances, TryStoreAdvances
    <3> QED
      BY <2>2, <3>1 DEF Advances
  <2>4. Scheduled(q, i) \in I
    <3>1. PICK t : t = Scheduled(q, i)
      OBVIOUS
    <3>2. Advances(q, t)
      BY <1>2, <2>1, <3>1, ScheduledAdvances
    <3>3. t \in Cores /\ \A j \in RobSlots : t.rob[j].id = q.rob[j].id
      BY <3>2 DEF Advances
    <3>4. \A j \in RobSlots : j # i => t.rob[j].executed = q.rob[j].executed
      BY <2>1, <3>1 DEF Scheduled, Cores
    <3>5. Memory(o3.rob[i].id)
      BY <1>2, <2>1
    <3> QED
      BY <2>1, <3>1, <3>3, <3>4, <3>5
  <2> QED
    BY <2>3, <2>4
<1>3. o3' \in I
  <2> HIDE DEF I
  <2>1. \A q \in I, i \in RobSlots :
          Ordered(q) /\ Advances(o3, q) /\ q.rob[i].id # 0 /\ Issued(q, i) /\ Memory(q.rob[i].id) =>
            /\ \A a \in Addresses : /\ a \in Instr(q, i).loads => TryLoad(q, i, a) \in I
                                    /\ a \in Instr(q, i).stores => TryStore(q, i, a) \in I
            /\ Scheduled(q, i) \in I
    BY <1>2
  <2> QED
    BY <1>1, <2>1, PassKeeps
<1>4. KeepsExecuting(o3, o3')
  BY <1>3 DEF KeepsExecuting
<1> QED
  BY <1>4, KeptExecuting DEF ScheduleMemory

LEMMA RingRegs ==
  ASSUME RingTyped, Ordered(o3), RegsCounted, Dispatch \/ Schedule \/ Retire
  PROVE  RegsCounted'
<1>1. program' = program /\ inflight_reg' = inflight_reg
  BY DEF Dispatch, Schedule, Retire
<1>2. CASE Dispatch
  <2>1. Entered(o3, o3', dispatched + 1) /\ dispatched + 1 \in 1 .. Len(program)
    BY <1>2, DispatchShape
  <2>2. NewRob(dispatched + 1).executed = "no"
    BY <2>1, NewRobIs
  <2>3. o3.rob[tail].executed = "no"
    BY <1>2 DEF Dispatch, Ordered, IssueOK, RingTyped
  <2>4. KeepsExecuting(o3, o3')
    BY <2>1, <2>2, <2>3 DEF KeepsExecuting, Entered
  <2> QED
    BY <1>1, <2>4, KeptExecuting
<1>3. CASE Schedule
  <2>1. PICK i \in RobSlots, s \in Stages : Moved(o3, o3', i, s, o3.rob[i].executed, reg_dependency(o3, i))
    BY <1>3, ScheduleShape
  <2>2. KeepsExecuting(o3, o3')
    BY <2>1 DEF KeepsExecuting, Moved
  <2> QED
    BY <1>1, <2>2, KeptExecuting
<1>4. CASE Retire
  <2>1. Retires(o3, o3', Released(o3)) /\ o3.rob[head].executed = "COMPLETED"
    BY <1>4, RetireShape DEF Retire
  <2>2. KeepsExecuting(o3, o3')
    BY <2>1, EmptyRobIs DEF KeepsExecuting, Retires
  <2> QED
    BY <1>1, <2>2, KeptExecuting
<1> QED
  BY <1>2, <1>3, <1>4

LEMMA RegsInvariant == Spec => []RegsCounted
<1>1. Init => RegsCounted
  <2> SUFFICES ASSUME Init PROVE RegsCounted
    OBVIOUS
  <2>1. \A i \in RobSlots : o3.rob[i].id = 0
    BY EmptyRobIs DEF Init
  <2>2. Executing(o3) = {}
    BY <2>1 DEF Executing
  <2> QED
    BY <2>2, FS_EmptySet DEF RegsCounted, Init
<1>2. ASSUME RingTyped, Ordered(o3), RegsCounted, [Next]_vars
      PROVE  RegsCounted'
  <2>1. CASE TranslateStore \/ TranslateLoad \/ Translated \/ ExecuteStore \/ ExecuteLoad \/ Loaded
    <3>1. Quiet(o3, o3')
      BY <1>2, <2>1, TranslateStoreQuiet, TranslateLoadQuiet, TranslatedQuiet, ExecuteStoreQuiet,
         ExecuteLoadQuiet, LoadedQuiet
    <3>2. program' = program /\ inflight_reg' = inflight_reg
      BY <2>1 DEF TranslateStore, TranslateLoad, Translated, ExecuteStore, ExecuteLoad, Loaded
    <3> QED
      BY <1>2, <3>1, <3>2, QuietRegs
  <2>2. CASE UNCHANGED vars
    <3>1. KeepsExecuting(o3, o3') /\ program' = program /\ inflight_reg' = inflight_reg
      BY <2>2 DEF KeepsExecuting, vars
    <3> QED
      BY <1>2, <3>1, KeptExecuting
  <2>3. CASE Dispatch \/ Schedule \/ Retire
    BY <1>2, <2>3, RingRegs
  <2>4. CASE Execute
    BY <1>2, <2>4, ExecuteRegs
  <2>5. CASE Complete
    BY <1>2, <2>5, CompleteRegs
  <2>6. CASE ScheduleMemory
    BY <1>2, <2>6, ScheduleMemoryRegs
  <2> QED
    BY Zenon, <1>2, <2>1, <2>2, <2>3, <2>4, <2>5, <2>6 DEF Next
<1>3. Spec => [](RingTyped /\ Ordered(o3))
  BY OrderOfIssue
<1> HIDE DEF RingTyped, Ordered, RegsCounted
<1> QED
  BY <1>1, <1>2, <1>3, PTL DEF Spec

LEMMA AccountedIs ==
  ASSUME RingTyped, Ordered(o3), StoresOK(o3), OpsOK(o3, RTL1, RTS1, DTLB, L1D),
         RegsCounted
  PROVE  OpsAccounted
<1>1. PICK q \in Cores : q = o3
  BY DEF Ordered
<1>2. \A i \in Live(q) :
        q.rob[i].ops =
          Cardinality({a \in Instr(q, i).loads : q.rob[i].lq_index[a] = None})
          + Cardinality({a \in Instr(q, i).stores : q.rob[i].sq_index[a] = None})
          + Cardinality(LqOf(q, i)) + Cardinality({k \in SqOf(q, i) : ~q.SQ[k].fetched})
  <2> TAKE i \in Live(q)
  <2>1. i \in RobSlots /\ q.rob[i].id # 0
    BY DEF Live
  <2>2. q.rob[i].ops = Cardinality(LoadLeft(q, i)) + Cardinality(StoreLeft(q, i))
    BY <1>1, <2>1 DEF OpsOK, Counted, OpsLeft
  <2>3. PICK A, B, C, E :
          /\ A = {a \in Instr(q, i).loads : q.rob[i].lq_index[a] = None}
          /\ B = {a \in Instr(q, i).stores : q.rob[i].sq_index[a] = None}
          /\ C = LqOf(q, i) /\ E = {k \in SqOf(q, i) : ~q.SQ[k].fetched}
    OBVIOUS
  <2>4. /\ Cardinality(LoadLeft(q, i)) = Cardinality(A) + Cardinality(C)
        /\ Cardinality(StoreLeft(q, i)) = Cardinality(B) + Cardinality(E)
    BY <1>1, <2>1, <2>3, LeftIs DEF Ordered, OpsOK, StoresOK
  <2>5. IsFiniteSet(A) /\ IsFiniteSet(B) /\ IsFiniteSet(C) /\ IsFiniteSet(E)
    <3>1. A \subseteq Addresses /\ B \subseteq Addresses
      BY <1>1, <2>1, <2>3, StoreInstr DEF Ordered
    <3>2. C \subseteq LqSlots /\ E \subseteq SqSlots
      BY <2>3 DEF LqOf, SqOf
    <3>3. IsFiniteSet(LqSlots) /\ IsFiniteSet(SqSlots)
      BY Sizes, FS_Interval DEF LqSlots, SqSlots
    <3> QED
      BY <3>1, <3>2, <3>3, AddressesFinite, FS_Subset
  <2>6. Cardinality(A) \in Nat /\ Cardinality(B) \in Nat /\ Cardinality(C) \in Nat /\ Cardinality(E) \in Nat
    BY <2>5, FS_CardinalityType
  <2>7. q.rob[i].ops = Cardinality(A) + Cardinality(B) + Cardinality(C) + Cardinality(E)
    BY <2>2, <2>4, <2>6
  <2> QED
    BY <2>3, <2>7
<1>3. q.inflight_mem =
        Cardinality({i \in Live(q) : /\ Memory(q.rob[i].id) /\ q.rob[i].ops = 0
                                     /\ q.rob[i].executed # "COMPLETED"})
  <2>1. {i \in Live(q) : /\ Memory(q.rob[i].id) /\ q.rob[i].ops = 0
                         /\ q.rob[i].executed # "COMPLETED"} = DueEntries(q)
    BY DEF DueEntries, IsDue, Live
  <2> QED
    BY <1>1, <2>1 DEF OpsOK, Counted
<1>4. {i \in Live(q) : ~Memory(q.rob[i].id) /\ q.rob[i].executed = "INFLIGHT"} = Executing(q)
  BY DEF Executing, Live
<1> QED
  BY <1>1, <1>2, <1>3, <1>4 DEF OpsAccounted, RegsCounted

(* num_mem_ops of an entry is the number of its loads and stores that have not been added,  *)
(* are in the load queue or have not executed in the store queue, and                       *)
(* inflight_mem_executions the number of memory instructions that update_rob() still has to *)
(* complete: a load that is forwarded, merged or answered is counted down exactly once, and *)
(* inflight_reg_executions counts the other instructions that execute, for every trace and  *)
(* every size of the queues.                                                                *)
THEOREM OperationsStayAccounted == Spec => []OpsAccounted
<1>1. RingTyped /\ Ordered(o3) /\ StoresOK(o3) /\ OpsOK(o3, RTL1, RTS1, DTLB, L1D) /\ RegsCounted
       => OpsAccounted
  BY AccountedIs
<1> HIDE DEF RingTyped, Ordered, StoresOK, OpsOK, RegsCounted, OpsAccounted
<1> QED
  BY <1>1, OrderOfIssue, StoresInvariant, OpsInvariant, RegsInvariant, PTL

(* An instruction that update_rob() could complete is one it looks for, ooo_cpu.cc:1831. *)
CompletionsAreSeen ==
  \A i \in Live(o3) : o3.rob[i].executed = "INFLIGHT" /\ o3.rob[i].ops = 0
                      => inflight_reg > 0 \/ o3.inflight_mem > 0

(* update_rob() looks for completed instructions only while one of its two counters is above 0, *)
(* ooo_cpu.cc:1831: whichever step is the last of an instruction, do_execution(), a forwarding, *)
(* a merged load or an answer, it has counted it there, for every trace and size.               *)
THEOREM EveryCompletionIsSeen == Spec => []CompletionsAreSeen
<1>1. RingTyped /\ Ordered(o3) /\ OpsOK(o3, RTL1, RTS1, DTLB, L1D) /\ RegsCounted => CompletionsAreSeen
  <2> SUFFICES ASSUME OpsOK(o3, RTL1, RTS1, DTLB, L1D), RegsCounted, NEW i \in RobSlots,
                      o3.rob[i].id # 0, o3.rob[i].executed = "INFLIGHT", o3.rob[i].ops = 0
               PROVE  inflight_reg > 0 \/ o3.inflight_mem > 0
    BY DEF CompletionsAreSeen, Live
  <2>1. CASE Memory(o3.rob[i].id)
    <3>1. i \in DueEntries(o3)
      BY <2>1 DEF DueEntries, IsDue
    <3>2. Cardinality(DueEntries(o3)) \in Nat /\ Cardinality(DueEntries(o3)) # 0
      BY <3>1, DueFinite, FS_EmptySet
    <3> QED
      BY <3>2 DEF OpsOK, Counted
  <2>2. CASE ~Memory(o3.rob[i].id)
    <3>1. i \in Executing(o3)
      BY <2>2 DEF Executing
    <3>2. Cardinality(Executing(o3)) \in Nat /\ Cardinality(Executing(o3)) # 0
      BY <3>1, ExecutingFinite, FS_EmptySet
    <3> QED
      BY <3>2 DEF RegsCounted
  <2> QED
    BY <2>1, <2>2
<1> HIDE DEF RingTyped, Ordered, StoresOK, OpsOK, RegsCounted, CompletionsAreSeen
<1> QED
  BY <1>1, OrderOfIssue, OpsInvariant, RegsInvariant, PTL

(* The types of the core: no instr_id is beyond the trace, and no count below 0. *)
THEOREM CoreTypeCorrect == Spec => []TypeOK
<1>1. RingTyped /\ Ordered(o3) /\ OpsOK(o3, RTL1, RTS1, DTLB, L1D) /\ RegsCounted => TypeOK
  <2> SUFFICES ASSUME RingTyped, Ordered(o3), OpsOK(o3, RTL1, RTS1, DTLB, L1D), RegsCounted
               PROVE  TypeOK
    OBVIOUS
  <2>1. o3 \in Cores /\ RingOK(o3)
    BY DEF Ordered
  <2>2. ASSUME NEW i \in RobSlots
        PROVE  /\ o3.rob[i].id \in 0 .. Len(program)
               /\ o3.rob[i].scheduled \in {"no", "INFLIGHT", "COMPLETED"}
               /\ o3.rob[i].executed \in {"no", "INFLIGHT", "COMPLETED"}
               /\ o3.rob[i].waits \subseteq RobSlots \X Registers
               /\ o3.rob[i].ops \in Nat
               /\ o3.rob[i].dependents \subseteq RobSlots
    <3>1. o3.rob[i].id \in 0 .. Len(program)
      <4>1. Age(i) \in Nat /\ Len(program) \in Nat /\ retired \in Nat /\ dispatched \in Nat
            /\ dispatched <= Len(program)
        BY <2>1, AgeFacts, ProgramIs DEF RingTyped, RingOK, RingSpan
      <4>2. o3.rob[i].id = IF Age(i) < dispatched - retired THEN retired + 1 + Age(i) ELSE 0
        BY <2>1 DEF RingOK
      <4> QED
        BY <4>1, <4>2
    <3>2. o3.rob[i].ops \in Nat
      <4>1. o3.rob[i].ops = IF o3.rob[i].id = 0 THEN 0 ELSE OpsLeft(o3, i)
        BY DEF OpsOK, Counted
      <4>2. o3.rob[i].id # 0 => OpsLeft(o3, i) \in Nat
        BY <2>1, LeftFinite
      <4> QED
        BY <4>1, <4>2
    <3> QED
      BY <2>1, <3>1, <3>2 DEF Cores, RobEntries, Stages
  <2>3. inflight_reg \in Nat /\ o3.inflight_mem \in Nat
    BY ExecutingFinite, DueFinite DEF RegsCounted, OpsOK, Counted
  <2>4. o3.sq_tail \in SqSlots /\ o3.RTL0 \subseteq LqSlots /\ o3.RTS0 \subseteq SqSlots
    BY <2>1 DEF Cores
  <2> QED
    BY <2>2, <2>3, <2>4 DEF TypeOK, RingTyped
<1> HIDE DEF RingTyped, Ordered, OpsOK, RegsCounted, TypeOK
<1> QED
  BY <1>1, OrderOfIssue, OpsInvariant, RegsInvariant, PTL
=============================================================================
