------------------------------ MODULE DRAMProofs ------------------------------
(***************************************************************************)
(* Proofs about DRAMController for every set of blocks, size of the        *)
(* queues, watermarks and number of banks, rows and columns.               *)
(***************************************************************************)
EXTENDS DRAMProgress, FiniteSetTheorems, WellFoundedInduction, TLAPS

Entry == [address : Addresses \cup {0}, scheduled : BOOLEAN]
Bank == [working : BOOLEAN, by : Queues \cup {"none"},
         request_index : (UNION {Slots(q) : q \in Queues}) \cup {NoIndex},
         open_row : Rows \cup {NoRow}]
Controller == [queue : [Queues -> UNION {[Slots(q) -> Entry] : q \in Queues}],
               bank : [Banks -> Bank],
               write_mode : BOOLEAN,
               scheduled : [Queues -> Nat],
               next_schedule : [Queues -> Int],
               next_process : [Queues -> Int]]

(***************************************************************************)
(* The inductive invariant as predicates on a record of the controller, so *)
(* that they can be followed through the calls of one operate().           *)
(***************************************************************************)

\* What TypeOK says of dram.
Shape(d) ==
  /\ d \in Controller
  /\ \A q \in Queues : /\ DOMAIN d.queue[q] = Slots(q)
                       /\ d.next_schedule[q] \in Slots(q) \cup {NoIndex}
                       /\ d.next_process[q] \in Slots(q) \cup {NoIndex}
                       /\ d.scheduled[q] <= SIZE[q]

\* BankServesEntry
Serves(d) ==
  /\ \A q \in Queues : \A i \in Scheduled(d, q) :
       LET b == d.bank[BankOf(d, q, i)]
       IN b.working /\ b.by = q /\ b.request_index = i
  /\ \A b \in Banks : d.bank[b].working =>
       \E q \in Queues : d.bank[b].request_index \in Scheduled(d, q)
                         /\ BankOf(d, q, d.bank[b].request_index) = b

\* ModeHoldsBanks
Counted(d) == \A q \in Queues : d.scheduled[q] = Cardinality(Scheduled(d, q))
Idle(d) == IF d.write_mode THEN "RQ" ELSE "WQ"
InMode(d) == d.scheduled[Idle(d)] = 0

\* NextIndicesFresh
FreshSchedule(d, q) == d.next_schedule[q] \in Earliest(Unscheduled(d, q))
FreshProcess(d, q) == d.next_process[q] \in Earliest(Scheduled(d, q))

Core(d) == Shape(d) /\ Serves(d) /\ Counted(d)
Good(d) == Core(d) /\ InMode(d) /\ \A q \in Queues : FreshSchedule(d, q) /\ FreshProcess(d, q)

\* MissHasOneRead
ReadsOf(d, a) == {i \in Slots("RQ") : d.queue["RQ"][i].address = a}
OneRead(d, m) == \A a \in Addresses : Cardinality(ReadsOf(d, a)) = IF m[a] = "INFLIGHT" THEN 1 ELSE 0

(***************************************************************************)
(* Slots, banks and rows.                                                  *)
(***************************************************************************)
LEMMA QueueSlots ==
  ASSUME NEW q \in Queues
  PROVE  /\ SIZE[q] \in Nat \ {0} /\ Slots(q) \subseteq Nat /\ NoIndex \notin Slots(q)
         /\ IsFiniteSet(Slots(q)) /\ Cardinality(Slots(q)) = SIZE[q]
<1>1. SIZE[q] \in Nat \ {0}
  BY SizeAssumption DEF Queues
<1>2. IsFiniteSet(0 .. SIZE[q] - 1) /\ Cardinality(0 .. SIZE[q] - 1) = SIZE[q]
  <2>1. 0 \in Int /\ SIZE[q] - 1 \in Int /\ ~(0 > SIZE[q] - 1) /\ SIZE[q] - 1 - 0 + 1 = SIZE[q]
    BY <1>1
  <2>2. /\ IsFiniteSet(0 .. SIZE[q] - 1)
        /\ Cardinality(0 .. SIZE[q] - 1) = IF 0 > SIZE[q] - 1 THEN 0 ELSE SIZE[q] - 1 - 0 + 1
    BY <2>1, FS_Interval
  <2> QED
    BY <2>1, <2>2
<1> QED
  BY <1>1, <1>2 DEF Slots, NoIndex

LEMMA AddressesAreNat == Addresses \cup {0} \subseteq Nat /\ 0 \notin Addresses
BY AddressAssumption

LEMMA BankIsBank ==
  ASSUME NEW a \in Addresses \cup {0}
  PROVE  dram_get_bank(a) \in Banks
<1>1. a \in Nat /\ 2 ^ LOG2_DRAM_BANKS \in Nat /\ 2 ^ LOG2_DRAM_BANKS > 0
  BY AddressesAreNat, PowerAssumption, Log2Assumption
<1> QED
  BY <1>1 DEF dram_get_bank, Banks

LEMMA RowIsRow ==
  ASSUME NEW a \in Addresses \cup {0}
  PROVE  dram_get_row(a) \in Rows
<1> DEFINE x == 2 ^ (LOG2_DRAM_BANKS + LOG2_DRAM_COLUMNS)
           r == 2 ^ LOG2_DRAM_ROWS
<1>1. a \in Nat /\ x \in Nat /\ x > 0 /\ r \in Nat /\ r > 0
  BY AddressesAreNat, PowerAssumption, Log2Assumption
<1> HIDE DEF x, r
<1>2. a \div x \in Nat
  BY <1>1
<1>3. (a \div x) % r \in 0 .. r - 1
  BY <1>1, <1>2
<1> QED
  BY <1>3 DEF dram_get_row, Rows, x, r

(* What Shape says of the members.                                         *)
LEMMA Members ==
  ASSUME NEW d, Shape(d), NEW q \in Queues
  PROVE  /\ d.queue[q] \in [Slots(q) -> Entry]
         /\ d.bank \in [Banks -> Bank]
         /\ d.scheduled[q] \in Nat
         /\ \A i \in Slots(q) : BankOf(d, q, i) \in Banks
         /\ Scheduled(d, q) \subseteq Used(d, q) /\ Used(d, q) \subseteq Slots(q)
         /\ Unscheduled(d, q) \subseteq Used(d, q)
         /\ IsFiniteSet(Used(d, q)) /\ IsFiniteSet(Scheduled(d, q))
         /\ Cardinality(Scheduled(d, q)) <= SIZE[q]
         /\ \A i \in Used(d, q) : d.queue[q][i].address \in Addresses
<1>1. d.queue[q] \in [Slots(q) -> Entry]
  <2>1. PICK r \in Queues : d.queue[q] \in [Slots(r) -> Entry]
    BY DEF Shape, Controller
  <2>2. DOMAIN d.queue[q] = Slots(q)
    BY DEF Shape
  <2> QED
    BY <2>1, <2>2
<1>2. d.bank \in [Banks -> Bank] /\ d.scheduled[q] \in Nat
  BY DEF Shape, Controller
<1>3. \A i \in Slots(q) : BankOf(d, q, i) \in Banks
  BY <1>1, BankIsBank DEF BankOf, Entry
<1>4. /\ Scheduled(d, q) \subseteq Used(d, q) /\ Used(d, q) \subseteq Slots(q)
      /\ Unscheduled(d, q) \subseteq Used(d, q)
  BY DEF Used, Scheduled, Unscheduled
<1>5. /\ IsFiniteSet(Used(d, q)) /\ IsFiniteSet(Scheduled(d, q))
      /\ Cardinality(Scheduled(d, q)) <= SIZE[q]
  BY <1>4, QueueSlots, FS_Subset
<1>6. \A i \in Used(d, q) : d.queue[q][i].address \in Addresses
  BY <1>1, <1>4 DEF Used, Entry
<1> QED
  BY <1>1, <1>2, <1>3, <1>4, <1>5, <1>6

LEMMA OtherQueue ==
  ASSUME NEW d, d.write_mode \in BOOLEAN
  PROVE  Queues = {"RQ", "WQ"} /\ Idle(d) \in Queues
BY DEF Queues, Idle

(***************************************************************************)
(* The cached indices.                                                     *)
(***************************************************************************)
LEMMA EarliestIsIndex ==
  ASSUME NEW q \in Queues, NEW S \in SUBSET Slots(q), NEW i \in Earliest(S)
  PROVE  i \in Slots(q) \cup {NoIndex} /\ i \in Int
BY QueueSlots DEF Earliest, NoIndex

(* The update changes one index only, and that one is fresh.               *)
LEMMA UpdateSchedule ==
  ASSUME NEW d, Core(d), NEW q \in Queues, NEW d1 \in update_schedule_cycle(d, q)
  PROVE  /\ Core(d1) /\ FreshSchedule(d1, q)
         /\ \A r \in Queues \ {q} : FreshSchedule(d, r) => FreshSchedule(d1, r)
         /\ \A r \in Queues : FreshProcess(d, r) => FreshProcess(d1, r)
         /\ d1.queue = d.queue /\ d1.bank = d.bank /\ d1.scheduled = d.scheduled
         /\ d1.write_mode = d.write_mode /\ d1.next_process = d.next_process
<1>1. PICK i \in Earliest(Unscheduled(d, q)) : d1 = [d EXCEPT !.next_schedule[q] = i]
  BY DEF update_schedule_cycle
<1>2. i \in Slots(q) \cup {NoIndex} /\ i \in Int
  <2>1. Unscheduled(d, q) \in SUBSET Slots(q)
    BY Members DEF Core
  <2> QED
    BY <2>1, EarliestIsIndex
<1>3. d \in Controller
  BY DEF Core, Shape
<1>4. /\ d1.queue = d.queue /\ d1.bank = d.bank /\ d1.scheduled = d.scheduled
      /\ d1.write_mode = d.write_mode /\ d1.next_process = d.next_process
      /\ d1.next_schedule = [d.next_schedule EXCEPT ![q] = i]
      /\ d1 \in Controller
  BY <1>1, <1>2, <1>3 DEF Controller
<1>5. d1.next_schedule[q] = i /\ \A r \in Queues \ {q} : d1.next_schedule[r] = d.next_schedule[r]
  BY <1>3, <1>4 DEF Controller
<1>6. \A r \in Queues : /\ Used(d1, r) = Used(d, r) /\ Scheduled(d1, r) = Scheduled(d, r)
                        /\ Unscheduled(d1, r) = Unscheduled(d, r)
                        /\ \A j \in Slots(r) : BankOf(d1, r, j) = BankOf(d, r, j)
  BY <1>4 DEF Used, Scheduled, Unscheduled, BankOf
<1>7. Shape(d1)
  BY <1>2, <1>4, <1>5 DEF Core, Shape
<1>8. Serves(d1)
  BY <1>4 DEF Core, Serves, Scheduled, Used, BankOf
<1>9. Counted(d1)
  BY <1>4, <1>6 DEF Core, Counted
<1>10. /\ FreshSchedule(d1, q)
       /\ \A r \in Queues \ {q} : FreshSchedule(d, r) => FreshSchedule(d1, r)
       /\ \A r \in Queues : FreshProcess(d, r) => FreshProcess(d1, r)
  BY <1>1, <1>4, <1>5, <1>6 DEF FreshSchedule, FreshProcess
<1> QED
  BY <1>4, <1>7, <1>8, <1>9, <1>10 DEF Core

LEMMA UpdateProcess ==
  ASSUME NEW d, Core(d), NEW q \in Queues, NEW d1 \in update_process_cycle(d, q)
  PROVE  /\ Core(d1) /\ FreshProcess(d1, q)
         /\ \A r \in Queues \ {q} : FreshProcess(d, r) => FreshProcess(d1, r)
         /\ \A r \in Queues : FreshSchedule(d, r) => FreshSchedule(d1, r)
         /\ d1.queue = d.queue /\ d1.bank = d.bank /\ d1.scheduled = d.scheduled
         /\ d1.write_mode = d.write_mode /\ d1.next_schedule = d.next_schedule
<1>1. PICK i \in Earliest(Scheduled(d, q)) : d1 = [d EXCEPT !.next_process[q] = i]
  BY DEF update_process_cycle
<1>2. i \in Slots(q) \cup {NoIndex} /\ i \in Int
  <2>1. Scheduled(d, q) \in SUBSET Slots(q)
    BY Members DEF Core
  <2> QED
    BY <2>1, EarliestIsIndex
<1>3. d \in Controller
  BY DEF Core, Shape
<1>4. /\ d1.queue = d.queue /\ d1.bank = d.bank /\ d1.scheduled = d.scheduled
      /\ d1.write_mode = d.write_mode /\ d1.next_schedule = d.next_schedule
      /\ d1.next_process = [d.next_process EXCEPT ![q] = i]
      /\ d1 \in Controller
  BY <1>1, <1>2, <1>3 DEF Controller
<1>5. d1.next_process[q] = i /\ \A r \in Queues \ {q} : d1.next_process[r] = d.next_process[r]
  BY <1>3, <1>4 DEF Controller
<1>6. \A r \in Queues : /\ Used(d1, r) = Used(d, r) /\ Scheduled(d1, r) = Scheduled(d, r)
                        /\ Unscheduled(d1, r) = Unscheduled(d, r)
  BY <1>4 DEF Used, Scheduled, Unscheduled
<1>7. Shape(d1)
  BY <1>2, <1>4, <1>5 DEF Core, Shape
<1>8. Serves(d1)
  BY <1>4 DEF Core, Serves, Scheduled, Used, BankOf
<1>9. Counted(d1)
  BY <1>4, <1>6 DEF Core, Counted
<1>10. /\ FreshProcess(d1, q)
       /\ \A r \in Queues \ {q} : FreshProcess(d, r) => FreshProcess(d1, r)
       /\ \A r \in Queues : FreshSchedule(d, r) => FreshSchedule(d1, r)
  BY <1>1, <1>4, <1>5, <1>6 DEF FreshSchedule, FreshProcess
<1> QED
  BY <1>4, <1>7, <1>8, <1>9, <1>10 DEF Core

(* The same reads wait when the queue is the same.                         *)
LEMMA SameReads ==
  ASSUME NEW d, NEW d1, d1.queue = d.queue, NEW m
  PROVE  OneRead(d, m) <=> OneRead(d1, m)
BY DEF OneRead, ReadsOf

(***************************************************************************)
(* A switch: reset_remain_requests() on the queue that was served, the     *)
(* only one with scheduled requests.                                       *)
(***************************************************************************)

Freed(d, q) == {BankOf(d, q, i) : i \in Scheduled(d, q)}

\* The record before the cached indices are searched again.
Unbound(d, q, open) ==
  [d EXCEPT !.bank = [b \in Banks |-> IF b \in Freed(d, q) THEN FreeBank(open[b]) ELSE d.bank[b]],
            !.scheduled = [k \in Queues |->
              d.scheduled[k] - Cardinality({b \in Freed(d, q) : d.bank[b].by = k})],
            !.queue[q] = [i \in Slots(q) |-> [d.queue[q][i] EXCEPT !.scheduled = FALSE]]]

LEMMA ResetForm ==
  ASSUME NEW d, NEW q \in Queues, Shape(d), NEW d5 \in reset_remain_requests(d, q)
  PROVE  \E open \in [Freed(d, q) -> Rows \cup {NoRow}] :
           \E d2 \in update_schedule_cycle(Unbound(d, q, open), "RQ") :
           \E d3 \in update_schedule_cycle(d2, "WQ") :
           \E d4 \in update_process_cycle(d3, "RQ") : d5 \in update_process_cycle(d4, "WQ")
<1> DEFINE Kept(b) == {NoRow} \cup {dram_get_row(d.queue[q][i].address) :
                                    i \in {j \in Scheduled(d, q) : BankOf(d, q, j) = b}}
           Opens == {f \in [Freed(d, q) -> Rows \cup {NoRow}] : \A b \in Freed(d, q) : f[b] \in Kept(b)}
           S3(x) == UNION {update_process_cycle(y, "WQ") : y \in update_process_cycle(x, "RQ")}
           S2(x) == UNION {S3(y) : y \in update_schedule_cycle(x, "WQ")}
           S1(x) == UNION {S2(y) : y \in update_schedule_cycle(x, "RQ")}
<1>1. reset_remain_requests(d, q) = UNION {S1(x) : x \in {Unbound(d, q, open) : open \in Opens}}
  BY Zenon DEF reset_remain_requests, Unbound, Freed
<1> HIDE DEF S1
<1>2. PICK x \in {Unbound(d, q, open) : open \in Opens} : d5 \in S1(x)
  BY <1>1
<1>3. PICK open \in [Freed(d, q) -> Rows \cup {NoRow}] : x = Unbound(d, q, open)
  BY <1>2
<1> USE DEF S1
<1> HIDE DEF S2
<1>4. PICK d2 \in update_schedule_cycle(x, "RQ") : d5 \in S2(d2)
  BY <1>2
<1> USE DEF S2
<1> HIDE DEF S1, S3
<1>5. PICK d3 \in update_schedule_cycle(d2, "WQ") : d5 \in S3(d3)
  BY <1>4
<1>6. PICK d4 \in update_process_cycle(d3, "RQ") : d5 \in update_process_cycle(d4, "WQ")
  BY <1>5 DEF S3
<1> QED
  BY <1>3, <1>4, <1>5, <1>6

(* The banks that are given back are as many as the requests: each request *)
(* has a bank that knows its index.                                        *)
LEMMA FreedCount ==
  ASSUME NEW d, NEW q \in Queues, Core(d)
  PROVE  /\ IsFiniteSet(Freed(d, q))
         /\ Cardinality(Freed(d, q)) = Cardinality(Scheduled(d, q))
         /\ \A b \in Freed(d, q) : b \in Banks /\ d.bank[b].by = q
<1> DEFINE f == [i \in Scheduled(d, q) |-> BankOf(d, q, i)]
<1>1. \A i \in Scheduled(d, q) : /\ d.bank[BankOf(d, q, i)].request_index = i
                                 /\ d.bank[BankOf(d, q, i)].by = q
  BY DEF Core, Serves
<1>2. \A i, j \in Scheduled(d, q) : f[i] = f[j] => i = j
  BY <1>1
<1>3. \A b \in Freed(d, q) : \E i \in Scheduled(d, q) : f[i] = b
  BY DEF Freed
<1>4. f \in [Scheduled(d, q) -> Freed(d, q)]
  BY DEF Freed
<1>5. f \in Bijection(Scheduled(d, q), Freed(d, q))
  BY <1>2, <1>3, <1>4 DEF Bijection, Injection, Surjection, IsInjective
<1>6. ExistsBijection(Scheduled(d, q), Freed(d, q))
  BY <1>5 DEF ExistsBijection
<1>7. IsFiniteSet(Scheduled(d, q))
  BY Members DEF Core
<1>8. \A b \in Freed(d, q) : b \in Banks
  BY Members DEF Core, Freed
<1> QED
  BY <1>1, <1>6, <1>7, <1>8, FS_Bijection DEF Freed

LEMMA UnboundIsCore ==
  ASSUME NEW d, NEW q \in Queues, Core(d), \A r \in Queues \ {q} : d.scheduled[r] = 0,
         NEW open \in [Freed(d, q) -> Rows \cup {NoRow}]
  PROVE  LET u == Unbound(d, q, open)
         IN /\ Core(u) /\ \A r \in Queues : u.scheduled[r] = 0
            /\ u.write_mode = d.write_mode
            /\ \A r \in Queues : \A i \in Slots(r) :
                 u.queue[r][i].address = d.queue[r][i].address
<1> DEFINE u == Unbound(d, q, open)
           F == Freed(d, q)
           row == [i \in Slots(q) |-> [d.queue[q][i] EXCEPT !.scheduled = FALSE]]
           bank == [b \in Banks |-> IF b \in F THEN FreeBank(open[b]) ELSE d.bank[b]]
           count == [k \in Queues |-> d.scheduled[k] - Cardinality({b \in F : d.bank[b].by = k})]
<1>0. /\ d \in Controller /\ Shape(d)
      /\ \A r \in Queues : d.queue[r] \in [Slots(r) -> Entry]
      /\ d.bank \in [Banks -> Bank]
  BY Members DEF Core, Shape
<1>1. count = [k \in Queues |-> 0]
  <2>1. ASSUME NEW k \in Queues PROVE count[k] = 0
    <3>0. count[k] = d.scheduled[k] - Cardinality({b \in F : d.bank[b].by = k})
      OBVIOUS
    <3> HIDE DEF count
    <3>1. CASE k = q
      <4>1. {b \in F : d.bank[b].by = k} = F
        BY <3>1, FreedCount
      <4>2. d.scheduled[k] = Cardinality(Scheduled(d, q)) /\ d.scheduled[k] \in Nat
        BY <3>1, Members DEF Core, Counted
      <4>3. Cardinality(F) = d.scheduled[k]
        BY <4>2, FreedCount
      <4> QED
        BY <3>0, <4>1, <4>2, <4>3
    <3>2. CASE k # q
      <4>1. {b \in F : d.bank[b].by = k} = {}
        BY <3>2, FreedCount
      <4>2. d.scheduled[k] = 0 /\ Cardinality({}) = 0
        BY <3>2, FS_EmptySet
      <4>3. count[k] = d.scheduled[k] - Cardinality({})
        BY <3>0, <4>1, Zenon
      <4> QED
        BY <4>2, <4>3
    <3> QED
      BY <3>1, <3>2
  <2> QED
    BY <2>1
<1>2. row \in [Slots(q) -> Entry] /\ \A i \in Slots(q) : /\ row[i].address = d.queue[q][i].address
                                                         /\ row[i].scheduled = FALSE
  <2>1. ASSUME NEW i \in Slots(q)
        PROVE  row[i] \in Entry /\ row[i].address = d.queue[q][i].address /\ row[i].scheduled = FALSE
    <3>1. d.queue[q][i] \in Entry
      BY <1>0
    <3>2. row[i] = [d.queue[q][i] EXCEPT !.scheduled = FALSE]
      OBVIOUS
    <3> QED
      BY <3>1, <3>2 DEF Entry
  <2> QED
    BY <2>1
<1>3. bank \in [Banks -> Bank]
  <2>1. \A b \in F : FreeBank(open[b]) \in Bank
    <3> TAKE b \in F
    <3>1. PICK r \in Rows \cup {NoRow} : r = open[b]
      OBVIOUS
    <3>2. FreeBank(r) \in Bank
      BY DEF FreeBank, Bank
    <3> QED
      BY <3>1, <3>2
  <2> QED
    BY <2>1, <1>0
<1>4. u = [d EXCEPT !.bank = bank, !.scheduled = count, !.queue[q] = row]
  BY DEF Unbound
<1> HIDE DEF row, bank, count, u
<1>5. /\ u \in Controller
      /\ u.bank = bank /\ u.scheduled = count /\ u.queue = [d.queue EXCEPT ![q] = row]
      /\ u.write_mode = d.write_mode
      /\ u.next_schedule = d.next_schedule /\ u.next_process = d.next_process
  <2> DEFINE queue == [d.queue EXCEPT ![q] = row]
  <2>1. queue \in [Queues -> UNION {[Slots(r) -> Entry] : r \in Queues}]
    BY <1>0, <1>2 DEF Controller
  <2>2. u = [d EXCEPT !.bank = bank, !.scheduled = count, !.queue = queue]
    BY <1>0, <1>4 DEF Controller
  <2> HIDE DEF queue
  <2>3. /\ u \in Controller
        /\ u.bank = bank /\ u.scheduled = count /\ u.queue = queue
        /\ u.write_mode = d.write_mode
        /\ u.next_schedule = d.next_schedule /\ u.next_process = d.next_process
    BY <1>0, <1>1, <1>3, <2>1, <2>2 DEF Controller
  <2> QED
    BY <2>3 DEF queue
<1>6. u.queue[q] = row /\ \A r \in Queues \ {q} : u.queue[r] = d.queue[r]
  BY <1>0, <1>5 DEF Controller
<1>7. \A r \in Queues : Scheduled(u, r) = {}
  <2>1. Scheduled(u, q) = {}
    BY <1>2, <1>6 DEF Scheduled, Used
  <2>2. ASSUME NEW r \in Queues \ {q} PROVE Scheduled(u, r) = {}
    <3>1. Cardinality(Scheduled(d, r)) = 0 /\ IsFiniteSet(Scheduled(d, r))
      BY <1>0, Members DEF Core, Counted
    <3>2. Scheduled(d, r) = {}
      BY <3>1, FS_EmptySet
    <3> QED
      BY <3>2, <1>6 DEF Scheduled, Used
  <2> QED
    BY <2>1, <2>2
<1>8. Shape(u)
  <2>1. \A r \in Queues : DOMAIN u.queue[r] = Slots(r)
    BY <1>0, <1>2, <1>6
  <2>2. \A r \in Queues : u.scheduled[r] = 0
    BY <1>1, <1>5
  <2> QED
    BY <2>1, <2>2, <1>0, <1>5, QueueSlots DEF Shape
<1>9. Counted(u)
  BY <1>1, <1>5, <1>7, FS_EmptySet DEF Counted
<1>10. Serves(u)
  <2>1. ASSUME NEW b \in Banks, u.bank[b].working PROVE FALSE
    <3>1. CASE b \in F
      BY <3>1, <2>1, <1>5 DEF bank, FreeBank
    <3>2. CASE b \notin F
      <4>1. u.bank[b] = d.bank[b]
        BY <3>2, <1>5 DEF bank
      <4>2. PICK r \in Queues : /\ d.bank[b].request_index \in Scheduled(d, r)
                                /\ BankOf(d, r, d.bank[b].request_index) = b
        BY <2>1, <4>1 DEF Core, Serves
      <4>3. r # q
        BY <4>2, <3>2 DEF Freed
      <4>4. Cardinality(Scheduled(d, r)) = 0 /\ IsFiniteSet(Scheduled(d, r))
        BY <4>3, <1>0, Members DEF Core, Counted
      <4> QED
        BY <4>2, <4>4, FS_EmptySet
    <3> QED
      BY <3>1, <3>2
  <2> QED
    BY <2>1, <1>7 DEF Serves
<1>11. \A r \in Queues : \A i \in Slots(r) : u.queue[r][i].address = d.queue[r][i].address
  BY <1>2, <1>6
<1> QED
  BY <1>1, <1>5, <1>8, <1>9, <1>10, <1>11 DEF Core, u

(* After a switch nothing is scheduled, every bank is free or was never    *)
(* held, and the indices are fresh.                                        *)
LEMMA ResetIsGood ==
  ASSUME NEW d, NEW q \in Queues, Core(d), \A r \in Queues \ {q} : d.scheduled[r] = 0,
         NEW d5 \in reset_remain_requests(d, q)
  PROVE  /\ Good(d5) /\ d5.write_mode = d.write_mode
         /\ \A m : OneRead(d, m) <=> OneRead(d5, m)
<1>1. PICK open \in [Freed(d, q) -> Rows \cup {NoRow}] :
           \E d2 \in update_schedule_cycle(Unbound(d, q, open), "RQ") :
           \E d3 \in update_schedule_cycle(d2, "WQ") :
           \E d4 \in update_process_cycle(d3, "RQ") : d5 \in update_process_cycle(d4, "WQ")
  BY ResetForm DEF Core
<1> DEFINE u == Unbound(d, q, open)
<1>a. PICK d2 \in update_schedule_cycle(u, "RQ") :
           \E d3 \in update_schedule_cycle(d2, "WQ") :
           \E d4 \in update_process_cycle(d3, "RQ") : d5 \in update_process_cycle(d4, "WQ")
  BY <1>1
<1>b. PICK d3 \in update_schedule_cycle(d2, "WQ") :
           \E d4 \in update_process_cycle(d3, "RQ") : d5 \in update_process_cycle(d4, "WQ")
  BY <1>a
<1>2. PICK d4 \in update_process_cycle(d3, "RQ") : d5 \in update_process_cycle(d4, "WQ")
  BY <1>b
<1>3. /\ Core(u) /\ \A r \in Queues : u.scheduled[r] = 0
      /\ u.write_mode = d.write_mode
      /\ \A r \in Queues : \A i \in Slots(r) : u.queue[r][i].address = d.queue[r][i].address
  BY UnboundIsCore
<1> HIDE DEF u
<1>4. "RQ" \in Queues /\ "WQ" \in Queues /\ \A r \in Queues : r = "RQ" \/ r = "WQ"
  BY DEF Queues
<1>5. /\ Core(d2) /\ FreshSchedule(d2, "RQ")
      /\ d2.queue = u.queue /\ d2.scheduled = u.scheduled /\ d2.write_mode = u.write_mode
  BY <1>2, <1>3, <1>4, UpdateSchedule
<1>6. /\ Core(d3) /\ FreshSchedule(d3, "RQ") /\ FreshSchedule(d3, "WQ")
      /\ d3.queue = u.queue /\ d3.scheduled = u.scheduled /\ d3.write_mode = u.write_mode
  <2>1. "RQ" \in Queues \ {"WQ"}
    BY <1>4
  <2> QED
    BY <1>2, <1>4, <1>5, <2>1, UpdateSchedule
<1>7. /\ Core(d4) /\ FreshSchedule(d4, "RQ") /\ FreshSchedule(d4, "WQ") /\ FreshProcess(d4, "RQ")
      /\ d4.queue = u.queue /\ d4.scheduled = u.scheduled /\ d4.write_mode = u.write_mode
  BY <1>2, <1>4, <1>6, UpdateProcess
<1>8. /\ Core(d5) /\ FreshSchedule(d5, "RQ") /\ FreshSchedule(d5, "WQ")
      /\ FreshProcess(d5, "RQ") /\ FreshProcess(d5, "WQ")
      /\ d5.queue = u.queue /\ d5.scheduled = u.scheduled /\ d5.write_mode = u.write_mode
  <2>1. "RQ" \in Queues \ {"WQ"}
    BY <1>4
  <2> QED
    BY <1>2, <1>4, <1>7, <2>1, UpdateProcess
<1>9. InMode(d5)
  BY <1>3, <1>4, <1>8 DEF InMode, Idle
<1>10. ASSUME NEW a PROVE ReadsOf(d5, a) = ReadsOf(d, a)
  BY <1>3, <1>4, <1>8 DEF ReadsOf
<1>11. \A m : OneRead(d, m) <=> OneRead(d5, m)
  BY <1>10 DEF OneRead
<1> QED
  BY <1>3, <1>4, <1>8, <1>9, <1>11 DEF Good

(* The write mode is no part of Core.                                      *)
LEMMA OtherMode ==
  ASSUME NEW d, Core(d), NEW mode \in BOOLEAN
  PROVE  LET e == [d EXCEPT !.write_mode = mode]
         IN /\ Core(e) /\ e.write_mode = mode
            /\ e.queue = d.queue /\ e.scheduled = d.scheduled
<1> DEFINE e == [d EXCEPT !.write_mode = mode]
<1>1. d \in Controller
  BY DEF Core, Shape
<1>2. /\ e.queue = d.queue /\ e.bank = d.bank /\ e.scheduled = d.scheduled /\ e.write_mode = mode
      /\ e.next_process = d.next_process /\ e.next_schedule = d.next_schedule
      /\ e \in Controller
  BY <1>1 DEF Controller
<1> HIDE DEF e
<1>3. Shape(e) /\ Serves(e) /\ Counted(e)
  BY <1>2 DEF Core, Shape, Serves, Counted, Scheduled, Used, BankOf
<1> QED
  BY <1>2, <1>3 DEF Core, e

LEMMA SwitchedIsGood ==
  ASSUME NEW d, Good(d), NEW d1 \in Switched(d)
  PROVE  Good(d1) /\ \A m : OneRead(d, m) <=> OneRead(d1, m)
<1>1. d.write_mode \in BOOLEAN /\ Queues = {"RQ", "WQ"}
  BY DEF Good, Core, Shape, Controller, Queues
<1>2. CASE StartsWriting(d)
  <2> DEFINE e == [d EXCEPT !.write_mode = TRUE]
  <2>1. d1 \in reset_remain_requests(e, "RQ") /\ d.write_mode = FALSE
    BY <1>1, <1>2 DEF Switched, StartsWriting
  <2>2. Core(e) /\ e.queue = d.queue /\ e.scheduled = d.scheduled
    BY OtherMode DEF Good
  <2>3. \A r \in Queues \ {"RQ"} : e.scheduled[r] = 0
    BY <1>1, <2>1, <2>2 DEF Good, InMode, Idle
  <2> HIDE DEF e
  <2> QED
    BY <1>1, <2>1, <2>2, <2>3, ResetIsGood, SameReads
<1>3. CASE ~StartsWriting(d) /\ StopsWriting(d)
  <2> DEFINE e == [d EXCEPT !.write_mode = FALSE]
  <2>1. d1 \in reset_remain_requests(e, "WQ") /\ d.write_mode = TRUE
    BY <1>1, <1>3 DEF Switched, StopsWriting
  <2>2. Core(e) /\ e.queue = d.queue /\ e.scheduled = d.scheduled
    BY OtherMode DEF Good
  <2>3. \A r \in Queues \ {"WQ"} : e.scheduled[r] = 0
    BY <1>1, <2>1, <2>2 DEF Good, InMode, Idle
  <2> HIDE DEF e
  <2> QED
    BY <1>1, <2>1, <2>2, <2>3, ResetIsGood, SameReads
<1>4. CASE ~StartsWriting(d) /\ ~StopsWriting(d)
  BY <1>4 DEF Switched
<1> QED
  BY <1>2, <1>3, <1>4

(***************************************************************************)
(* Scheduling and processing in the current mode.                          *)
(***************************************************************************)

\* The queue that is served.
Served(d) == IF d.write_mode THEN "WQ" ELSE "RQ"

LEMMA ServedQueue ==
  ASSUME NEW d, Good(d)
  PROVE  /\ Served(d) \in Queues /\ Served(d) # Idle(d) /\ d.write_mode \in BOOLEAN
         /\ \A r \in Queues : r = Served(d) \/ r = Idle(d)
BY DEF Served, Idle, Good, Core, Shape, Controller, Queues

(* The chosen request takes a free bank, which then works for it alone.    *)
LEMMA TakenIsCore ==
  ASSUME NEW d, Core(d), NEW q \in Queues, NEW i \in Candidates(d, q)
  PROVE  LET t == Taken(d, q, i)
         IN /\ Core(t) /\ t.write_mode = d.write_mode
            /\ t.next_schedule = d.next_schedule /\ t.next_process = d.next_process
            /\ \A r \in Queues \ {q} : /\ t.queue[r] = d.queue[r]
                                       /\ t.scheduled[r] = d.scheduled[r]
            /\ \A r \in Queues : \A j \in Slots(r) :
                 t.queue[r][j].address = d.queue[r][j].address
<1> DEFINE t == Taken(d, q, i)
           k == BankOf(d, q, i)
           e == d.queue[q][i]
           held == [working |-> TRUE, request_index |-> i, by |-> q,
                    open_row |-> dram_get_row(e.address)]
<1>1. /\ i \in Unscheduled(d, q) /\ i \in Used(d, q) /\ i \in Slots(q)
      /\ ~ d.bank[k].working
  <2>1. i \in {j \in Unscheduled(d, q) : ~ d.bank[BankOf(d, q, j)].working}
    BY DEF Candidates
  <2> QED
    BY <2>1, Members DEF Core
<1>2. /\ d \in Controller /\ Shape(d)
      /\ \A r \in Queues : d.queue[r] \in [Slots(r) -> Entry] /\ d.scheduled[r] \in Nat
      /\ d.bank \in [Banks -> Bank] /\ k \in Banks /\ e \in Entry
  BY <1>1, Members DEF Core, Shape
<1>3. held \in Bank
  <2>1. i \in UNION {Slots(r) : r \in Queues}
    BY <1>1
  <2>2. dram_get_row(e.address) \in Rows
    BY <1>2, RowIsRow DEF Entry
  <2> HIDE DEF k, e
  <2> QED
    BY <2>1, <2>2 DEF Bank
<1> DEFINE row2 == [d.queue[q] EXCEPT ![i] = [e EXCEPT !.scheduled = TRUE]]
           bank2 == [d.bank EXCEPT ![k] = held]
           count2 == [d.scheduled EXCEPT ![q] = d.scheduled[q] + 1]
           queue2 == [d.queue EXCEPT ![q] = row2]
<1>a. t = [d EXCEPT !.bank = bank2, !.scheduled = count2, !.queue = queue2]
  BY <1>1, <1>2 DEF Taken, Controller
<1>b. row2 \in [Slots(q) -> Entry]
  <2>1. [e EXCEPT !.scheduled = TRUE] \in Entry
    BY <1>2 DEF Entry
  <2> QED
    BY <1>1, <1>2, <2>1
<1>c. bank2 \in [Banks -> Bank] /\ bank2[k] = held /\ \A b \in Banks \ {k} : bank2[b] = d.bank[b]
  <2> HIDE DEF held, k
  <2> QED
    BY <1>2, <1>3
<1>d. /\ count2 \in [Queues -> Nat] /\ count2[q] = d.scheduled[q] + 1
      /\ \A r \in Queues \ {q} : count2[r] = d.scheduled[r]
  BY <1>2 DEF Controller
<1>e. /\ queue2 \in [Queues -> UNION {[Slots(r) -> Entry] : r \in Queues}] /\ queue2[q] = row2
      /\ \A r \in Queues \ {q} : queue2[r] = d.queue[r]
  <2> HIDE DEF row2
  <2> QED
    BY <1>2, <1>b DEF Controller
<1> HIDE DEF t, held, bank2, count2, queue2
<1>4. /\ t \in Controller
      /\ t.bank = bank2 /\ t.scheduled = count2 /\ t.queue = queue2
      /\ t.write_mode = d.write_mode
      /\ t.next_schedule = d.next_schedule /\ t.next_process = d.next_process
  <2> HIDE DEF k, e
  <2> QED
    BY <1>2, <1>a, <1>c, <1>d, <1>e DEF Controller
<1>5. /\ t.queue[q] = [d.queue[q] EXCEPT ![i] = [e EXCEPT !.scheduled = TRUE]]
      /\ \A r \in Queues \ {q} : t.queue[r] = d.queue[r] /\ t.scheduled[r] = d.scheduled[r]
      /\ t.scheduled[q] = d.scheduled[q] + 1
      /\ t.bank[k] = held /\ \A b \in Banks \ {k} : t.bank[b] = d.bank[b]
  BY <1>c, <1>d, <1>e, <1>4
<1>6. /\ \A r \in Queues : \A j \in Slots(r) : t.queue[r][j].address = d.queue[r][j].address
      /\ \A j \in Slots(q) : t.queue[q][j].scheduled = (j = i \/ d.queue[q][j].scheduled)
  <2>1. PICK x : x = [e EXCEPT !.scheduled = TRUE]
    OBVIOUS
  <2>2. \A j \in Slots(q) : t.queue[q][j] = IF j = i THEN x ELSE d.queue[q][j]
    BY <1>1, <1>2, <1>5, <2>1
  <2>3. x.address = e.address /\ x.scheduled = TRUE
    BY <1>2, <2>1 DEF Entry
  <2>4. \A j \in Slots(q) : d.queue[q][j].scheduled \in BOOLEAN
    BY <1>2 DEF Entry
  <2>5. \A r \in Queues \ {q} : t.queue[r] = d.queue[r]
    BY <1>5
  <2>6. ASSUME NEW r \in Queues, NEW j \in Slots(r)
        PROVE  t.queue[r][j].address = d.queue[r][j].address
    <3>1. CASE r # q
      BY <3>1, <2>5
    <3>2. CASE r = q /\ j = i
      BY <3>2, <2>2, <2>3
    <3>3. CASE r = q /\ j # i
      BY <3>3, <2>2
    <3> QED
      BY <3>1, <3>2, <3>3
  <2>7. \A j \in Slots(q) : t.queue[q][j].scheduled = (j = i \/ d.queue[q][j].scheduled)
    BY <2>2, <2>3, <2>4
  <2> QED
    BY <2>6, <2>7
<1>7. /\ Scheduled(t, q) = Scheduled(d, q) \cup {i} /\ i \notin Scheduled(d, q)
      /\ \A r \in Queues \ {q} : Scheduled(t, r) = Scheduled(d, r)
      /\ \A r \in Queues : \A j \in Slots(r) : BankOf(t, r, j) = BankOf(d, r, j)
  <2>1. i \in Used(d, q) /\ i \notin Scheduled(d, q)
    BY <1>1 DEF Unscheduled
  <2>2. Used(t, q) = Used(d, q)
    BY <1>6 DEF Used
  <2>3. Scheduled(t, q) = Scheduled(d, q) \cup {i}
    BY <2>1, <2>2, <1>1, <1>6, Members, <1>2 DEF Scheduled
  <2>4. \A r \in Queues \ {q} : Scheduled(t, r) = Scheduled(d, r)
    BY <1>5 DEF Scheduled, Used
  <2>5. \A r \in Queues : \A j \in Slots(r) : BankOf(t, r, j) = BankOf(d, r, j)
    BY <1>6 DEF BankOf
  <2> QED
    BY <2>1, <2>3, <2>4, <2>5
<1>8. Counted(t)
  <2>1. Cardinality(Scheduled(t, q)) = Cardinality(Scheduled(d, q)) + 1
    BY <1>2, <1>7, Members, FS_AddElement
  <2> QED
    BY <2>1, <1>5, <1>7 DEF Core, Counted
<1>9. Shape(t)
  <2>1. \A r \in Queues : DOMAIN t.queue[r] = Slots(r)
    BY <1>2, <1>5
  <2>2. t.scheduled[q] <= SIZE[q]
    <3>1. Scheduled(t, q) \subseteq Slots(q)
      BY <1>1, <1>2, <1>7, Members
    <3>2. Cardinality(Scheduled(t, q)) <= Cardinality(Slots(q))
      BY <3>1, QueueSlots, FS_Subset
    <3> QED
      BY <3>2, <1>8, QueueSlots DEF Counted
  <2>3. \A r \in Queues : t.scheduled[r] <= SIZE[r]
    BY <2>2, <1>2, <1>5 DEF Shape
  <2> QED
    BY <2>1, <2>3, <1>2, <1>4 DEF Shape
<1>10. Serves(t)
  <2>1. ASSUME NEW r \in Queues, NEW j \in Scheduled(t, r)
        PROVE  LET b == t.bank[BankOf(t, r, j)]
               IN b.working /\ b.by = r /\ b.request_index = j
    <3>0. j \in Slots(r) /\ BankOf(t, r, j) = BankOf(d, r, j) /\ BankOf(d, r, j) \in Banks
      BY <1>2, <1>9, <1>7, Members
    <3>1. CASE r = q /\ j = i
      <4>1. t.bank[BankOf(t, r, j)] = held
        BY <3>0, <3>1, <1>5
      <4> QED
        BY <4>1, <3>1 DEF held
    <3>2. CASE ~(r = q /\ j = i)
      <4>1. j \in Scheduled(d, r)
        BY <3>2, <1>7
      <4>2. d.bank[BankOf(d, r, j)].working
        BY <4>1 DEF Core, Serves
      <4>3. t.bank[BankOf(t, r, j)] = d.bank[BankOf(d, r, j)]
        BY <4>2, <3>0, <1>1, <1>5
      <4> QED
        BY <4>1, <4>3 DEF Core, Serves
    <3> QED
      BY <3>1, <3>2
  <2>2. ASSUME NEW b \in Banks, t.bank[b].working
        PROVE  \E r \in Queues : t.bank[b].request_index \in Scheduled(t, r)
                                 /\ BankOf(t, r, t.bank[b].request_index) = b
    <3>1. CASE b = k
      <4>1. t.bank[b].request_index = i
        BY <3>1, <1>5 DEF held
      <4> QED
        BY <3>1, <4>1, <1>1, <1>7
    <3>2. CASE b # k
      <4>1. t.bank[b] = d.bank[b]
        BY <3>2, <1>5
      <4>2. PICK r \in Queues : /\ d.bank[b].request_index \in Scheduled(d, r)
                                /\ BankOf(d, r, d.bank[b].request_index) = b
        BY <2>2, <4>1 DEF Core, Serves
      <4>3. d.bank[b].request_index \in Slots(r) /\ d.bank[b].request_index \in Scheduled(t, r)
        BY <4>2, <1>2, <1>7, Members
      <4> QED
        BY <4>1, <4>2, <4>3, <1>7
    <3> QED
      BY <3>1, <3>2
  <2> QED
    BY <2>1, <2>2 DEF Serves
<1> QED
  BY <1>4, <1>5, <1>6, <1>8, <1>9, <1>10 DEF Core, t

(***************************************************************************)
(* The schedule of a queue is fresh as long as the queue and its indices   *)
(* stay as they are.                                                       *)
(***************************************************************************)
LEMMA FreshKept ==
  ASSUME NEW d, NEW t, NEW q, FreshSchedule(d, q), FreshProcess(d, q),
         t.queue[q] = d.queue[q], t.scheduled[q] = d.scheduled[q],
         t.next_schedule = d.next_schedule, t.next_process = d.next_process
  PROVE  FreshSchedule(t, q) /\ FreshProcess(t, q)
<1>1. Used(t, q) = Used(d, q)
  BY DEF Used
<1>2. Scheduled(t, q) = Scheduled(d, q) /\ Unscheduled(t, q) = Unscheduled(d, q)
  BY <1>1 DEF Scheduled, Unscheduled
<1>3. FreshSchedule(t, q)
  BY <1>1, <1>2 DEF FreshSchedule
<1>4. FreshProcess(t, q)
  BY <1>1, <1>2 DEF FreshProcess
<1> QED
  BY <1>3, <1>4

LEMMA ScheduleIsGood ==
  ASSUME NEW d, Good(d), NEW d2 \in schedule(d, Served(d))
  PROVE  /\ Good(d2) /\ d2.write_mode = d.write_mode
         /\ \A m : OneRead(d, m) <=> OneRead(d2, m)
<1> DEFINE q == Served(d)
<1>1. CASE d.next_schedule[q] = NoIndex \/ Candidates(d, q) = {}
  BY <1>1 DEF schedule
<1>2. CASE ~(d.next_schedule[q] = NoIndex \/ Candidates(d, q) = {})
  <2>1. q \in Queues /\ q # Idle(d) /\ Idle(d) \in Queues \ {q} /\ d.write_mode \in BOOLEAN
        /\ \A r \in Queues : r = q \/ r = Idle(d)
    BY ServedQueue, OtherQueue
  <2> HIDE DEF q
  <2>2. d2 \in UNION {UNION {update_process_cycle(x, q) : x \in update_schedule_cycle(Taken(d, q, i), q)} :
                        i \in Candidates(d, q)}
    BY <1>2 DEF schedule, q
  <2>3. PICK i \in Candidates(d, q) :
          d2 \in UNION {update_process_cycle(x, q) : x \in update_schedule_cycle(Taken(d, q, i), q)}
    BY <2>2
  <2> DEFINE t == Taken(d, q, i)
  <2>4. PICK d1 \in update_schedule_cycle(t, q) : d2 \in update_process_cycle(d1, q)
    BY <2>3
  <2>5. /\ Core(t) /\ t.write_mode = d.write_mode
        /\ t.next_schedule = d.next_schedule /\ t.next_process = d.next_process
        /\ t.queue[Idle(d)] = d.queue[Idle(d)] /\ t.scheduled[Idle(d)] = d.scheduled[Idle(d)]
        /\ \A r \in Queues : \A j \in Slots(r) : t.queue[r][j].address = d.queue[r][j].address
    BY <2>1, TakenIsCore DEF Good
  <2> HIDE DEF t
  <2>6. FreshSchedule(t, Idle(d)) /\ FreshProcess(t, Idle(d))
    <3>1. Idle(d) \in Queues /\ FreshSchedule(d, Idle(d)) /\ FreshProcess(d, Idle(d))
      BY <2>1 DEF Good
    <3> QED
      BY <2>5, <3>1, FreshKept
  <2>7. /\ Core(d1) /\ FreshSchedule(d1, q)
        /\ FreshSchedule(d1, Idle(d)) /\ FreshProcess(d1, Idle(d))
        /\ d1.queue = t.queue /\ d1.scheduled = t.scheduled /\ d1.write_mode = t.write_mode
    BY <2>1, <2>4, <2>5, <2>6, UpdateSchedule
  <2>8. /\ Core(d2) /\ FreshSchedule(d2, q) /\ FreshProcess(d2, q)
        /\ FreshSchedule(d2, Idle(d)) /\ FreshProcess(d2, Idle(d))
        /\ d2.queue = t.queue /\ d2.scheduled = t.scheduled /\ d2.write_mode = t.write_mode
    BY <2>1, <2>4, <2>7, UpdateProcess
  <2>9. InMode(d2)
    BY <2>5, <2>8 DEF Good, InMode, Idle
  <2>10. ASSUME NEW a PROVE ReadsOf(d2, a) = ReadsOf(d, a)
    BY <2>5, <2>8 DEF ReadsOf, Queues
  <2>11. \A m : OneRead(d, m) <=> OneRead(d2, m)
    BY <2>10 DEF OneRead
  <2> QED
    BY <2>1, <2>5, <2>8, <2>9, <2>11 DEF Good
<1> QED
  BY <1>1, <1>2

(* The processed request leaves its entry and its bank.                    *)
Released(d, q, i) ==
  LET k == BankOf(d, q, i)
  IN [d EXCEPT !.bank[k] = FreeBank(d.bank[k].open_row),
               !.scheduled[q] = @ - 1,
               !.queue[q][i] = Empty]

LEMMA ReleasedIsCore ==
  ASSUME NEW d, Core(d), NEW q \in Queues, NEW i \in Scheduled(d, q)
  PROVE  LET t == Released(d, q, i)
         IN /\ Core(t) /\ t.write_mode = d.write_mode
            /\ t.next_schedule = d.next_schedule /\ t.next_process = d.next_process
            /\ \A r \in Queues \ {q} : /\ t.queue[r] = d.queue[r]
                                       /\ t.scheduled[r] = d.scheduled[r]
            /\ t.queue[q] = [d.queue[q] EXCEPT ![i] = Empty]
            /\ Unscheduled(t, q) = Unscheduled(d, q)
<1> DEFINE k == BankOf(d, q, i)
           free == FreeBank(d.bank[k].open_row)
           row2 == [d.queue[q] EXCEPT ![i] = Empty]
           bank2 == [d.bank EXCEPT ![k] = free]
           count2 == [d.scheduled EXCEPT ![q] = d.scheduled[q] - 1]
           queue2 == [d.queue EXCEPT ![q] = row2]
           t == Released(d, q, i)
<1>1. /\ d \in Controller /\ Shape(d) /\ i \in Slots(q) /\ i \in Used(d, q)
      /\ \A r \in Queues : d.queue[r] \in [Slots(r) -> Entry] /\ d.scheduled[r] \in Nat
      /\ d.bank \in [Banks -> Bank] /\ k \in Banks
  BY Members DEF Core, Shape
<1>2. /\ d.bank[k].working /\ d.bank[k].by = q /\ d.bank[k].request_index = i
  BY DEF Core, Serves
<1>3. free \in Bank /\ ~free.working
  <2>1. d.bank[k].open_row \in Rows \cup {NoRow}
    BY <1>1 DEF Bank
  <2>2. PICK row \in Rows \cup {NoRow} : row = d.bank[k].open_row
    BY <2>1
  <2>3. FreeBank(row) \in Bank /\ ~FreeBank(row).working
    BY DEF FreeBank, Bank
  <2> QED
    BY <2>2, <2>3
<1>4. row2 \in [Slots(q) -> Entry]
  BY <1>1 DEF Empty, Entry
<1>5. bank2 \in [Banks -> Bank] /\ bank2[k] = free /\ \A b \in Banks \ {k} : bank2[b] = d.bank[b]
  <2> HIDE DEF free, k
  <2> QED
    BY <1>1, <1>3
<1>6. /\ d.scheduled[q] - 1 = Cardinality(Scheduled(d, q) \ {i})
      /\ Cardinality(Scheduled(d, q) \ {i}) \in Nat
  <2>1. /\ Cardinality(Scheduled(d, q) \ {i}) = Cardinality(Scheduled(d, q)) - 1
        /\ IsFiniteSet(Scheduled(d, q) \ {i})
    BY <1>1, Members, FS_RemoveElement
  <2> QED
    BY <2>1, FS_CardinalityType DEF Core, Counted
<1>7. /\ count2 \in [Queues -> Nat] /\ count2[q] = d.scheduled[q] - 1
      /\ \A r \in Queues \ {q} : count2[r] = d.scheduled[r]
  BY <1>1, <1>6 DEF Controller
<1>8. /\ queue2 \in [Queues -> UNION {[Slots(r) -> Entry] : r \in Queues}] /\ queue2[q] = row2
      /\ \A r \in Queues \ {q} : queue2[r] = d.queue[r]
  <2> HIDE DEF row2
  <2> QED
    BY <1>1, <1>4 DEF Controller
<1>9. t = [d EXCEPT !.bank = bank2, !.scheduled = count2, !.queue = queue2]
  <2>1. t = [d EXCEPT !.bank[k] = free, !.scheduled[q] = @ - 1, !.queue[q][i] = Empty]
    BY DEF Released
  <2> HIDE DEF free, k, t
  <2> QED
    BY <2>1, <1>1 DEF Controller
<1> HIDE DEF t, free, bank2, count2, queue2
<1>10. /\ t \in Controller
       /\ t.bank = bank2 /\ t.scheduled = count2 /\ t.queue = queue2
       /\ t.write_mode = d.write_mode
       /\ t.next_schedule = d.next_schedule /\ t.next_process = d.next_process
  <2> HIDE DEF k
  <2> QED
    BY <1>1, <1>5, <1>7, <1>8, <1>9 DEF Controller
<1>11. /\ t.queue[q][i] = Empty
       /\ \A j \in Slots(q) \ {i} : t.queue[q][j] = d.queue[q][j]
       /\ \A r \in Queues \ {q} : t.queue[r] = d.queue[r]
  BY <1>1, <1>8, <1>10
<1>12. /\ Used(t, q) = Used(d, q) \ {i}
       /\ Scheduled(t, q) = Scheduled(d, q) \ {i} /\ Unscheduled(t, q) = Unscheduled(d, q)
  <2>1. Used(t, q) = Used(d, q) \ {i}
    BY <1>1, <1>11 DEF Used, Empty
  <2>2. Scheduled(t, q) = Scheduled(d, q) \ {i}
    BY <2>1, <1>11 DEF Scheduled, Used
  <2> QED
    BY <2>1, <2>2 DEF Unscheduled
<1>13. \A r \in Queues \ {q} : Scheduled(t, r) = Scheduled(d, r)
  BY <1>11 DEF Scheduled, Used
<1>14. \A r \in Queues : \A j \in Scheduled(t, r) : BankOf(t, r, j) = BankOf(d, r, j)
  <2>1. \A j \in Scheduled(t, q) : BankOf(t, q, j) = BankOf(d, q, j)
    BY <1>1, <1>11, <1>12, Members DEF BankOf
  <2> QED
    BY <2>1, <1>11 DEF BankOf
<1>15. Counted(t)
  BY <1>6, <1>7, <1>10, <1>12, <1>13 DEF Core, Counted
<1>16. Shape(t)
  <2>1. \A r \in Queues : DOMAIN t.queue[r] = Slots(r)
    BY <1>1, <1>4, <1>8, <1>10
  <2>2. \A r \in Queues : t.scheduled[r] <= d.scheduled[r]
    BY <1>1, <1>7, <1>10
  <2>3. \A r \in Queues : t.scheduled[r] <= SIZE[r]
    <3> TAKE r \in Queues
    <3>1. t.scheduled[r] \in Nat /\ d.scheduled[r] \in Nat /\ SIZE[r] \in Nat
      BY <1>1, <1>7, <1>10, QueueSlots
    <3>2. d.scheduled[r] <= SIZE[r]
      BY <1>1 DEF Shape
    <3> QED
      BY <3>1, <3>2, <2>2
  <2> QED
    BY <2>1, <2>3, <1>1, <1>10 DEF Shape
<1>17. Serves(t)
  <2>1. ASSUME NEW r \in Queues, NEW j \in Scheduled(t, r)
        PROVE  LET b == t.bank[BankOf(t, r, j)]
               IN b.working /\ b.by = r /\ b.request_index = j
    <3>1. j \in Scheduled(d, r) /\ BankOf(t, r, j) = BankOf(d, r, j) /\ ~(r = q /\ j = i)
      BY <1>12, <1>13, <1>14
    <3>2. LET b == d.bank[BankOf(d, r, j)]
          IN b.working /\ b.by = r /\ b.request_index = j
      BY <3>1 DEF Core, Serves
    <3>3. BankOf(d, r, j) \in Banks \ {k}
      BY <3>1, <3>2, <1>1, <1>2, Members
    <3> QED
      BY <3>1, <3>2, <3>3, <1>5, <1>10
  <2>2. ASSUME NEW b \in Banks, t.bank[b].working
        PROVE  \E r \in Queues : t.bank[b].request_index \in Scheduled(t, r)
                                 /\ BankOf(t, r, t.bank[b].request_index) = b
    <3>1. b # k
      BY <2>2, <1>3, <1>5, <1>10
    <3>2. t.bank[b] = d.bank[b]
      BY <3>1, <1>5, <1>10
    <3>3. PICK r \in Queues : /\ d.bank[b].request_index \in Scheduled(d, r)
                              /\ BankOf(d, r, d.bank[b].request_index) = b
      BY <2>2, <3>2 DEF Core, Serves
    <3>4. d.bank[b].request_index \in Scheduled(t, r)
      BY <3>1, <3>3, <1>12, <1>13
    <3> QED
      BY <3>2, <3>3, <3>4, <1>14
  <2> QED
    BY <2>1, <2>2 DEF Serves
<1>18. Core(t)
  BY <1>15, <1>16, <1>17 DEF Core
<1>19. /\ \A r \in Queues \ {q} : t.queue[r] = d.queue[r] /\ t.scheduled[r] = d.scheduled[r]
       /\ t.queue[q] = row2
  BY <1>7, <1>8, <1>10
<1> QED
  BY <1>10, <1>12, <1>18, <1>19 DEF t

(***************************************************************************)
(* One read per miss.                                                      *)
(***************************************************************************)
LEMMA ReadsAreFinite ==
  ASSUME NEW d, NEW a
  PROVE  IsFiniteSet(ReadsOf(d, a)) /\ Cardinality(ReadsOf(d, a)) \in Nat
<1>1. ReadsOf(d, a) \subseteq Slots("RQ") /\ "RQ" \in Queues
  BY DEF ReadsOf, Queues
<1>2. IsFiniteSet(ReadsOf(d, a))
  BY <1>1, QueueSlots, FS_Subset
<1> QED
  BY <1>2, FS_CardinalityType

(* A block of which one read waits has it in one entry only.               *)
LEMMA OnlyRead ==
  ASSUME NEW d, NEW m, OneRead(d, m), NEW a \in Addresses, NEW i \in ReadsOf(d, a)
  PROVE  m[a] = "INFLIGHT" /\ ReadsOf(d, a) = {i}
<1>1. PICK R : R = ReadsOf(d, a)
  OBVIOUS
<1>2. IsFiniteSet(R) /\ i \in R
  BY <1>1, ReadsAreFinite
<1>3. Cardinality(R) # 0
  BY <1>2, FS_EmptySet
<1>4. m[a] = "INFLIGHT" /\ Cardinality(R) = 1
  BY <1>1, <1>3 DEF OneRead
<1>5. \E x : R = {x}
  BY <1>2, <1>4, FS_Singleton
<1> QED
  BY <1>1, <1>2, <1>4, <1>5

LEMMA ProcessedIsGood ==
  ASSUME NEW d, Good(d), NEW m \in [Addresses -> {"none", "INFLIGHT", "COMPLETED"}], OneRead(d, m),
         d.next_process[Served(d)] # NoIndex, NEW d2 \in Processed(d, Served(d))
  PROVE  /\ Good(d2)
         /\ LET q == Served(d)
                a == d.queue[q][d.next_process[q]].address
                m2 == IF q = "RQ" THEN Returned(m, a) ELSE m
            IN /\ m2 \in [Addresses -> {"none", "INFLIGHT", "COMPLETED"}]
               /\ OneRead(d2, m2)
<1> DEFINE q == Served(d)
           i == d.next_process[q]
           t == Released(d, q, i)
           a == d.queue[q][i].address
           m2 == IF q = "RQ" THEN Returned(m, a) ELSE m
<1>1. q \in Queues /\ q # Idle(d) /\ Idle(d) \in Queues \ {q} /\ d.write_mode \in BOOLEAN
      /\ \A r \in Queues : r = q \/ r = Idle(d)
  BY ServedQueue, OtherQueue
<1>2. i \in Scheduled(d, q)
  BY <1>1 DEF Good, FreshProcess, Earliest
<1>3. d2 \in update_process_cycle(t, q)
  BY DEF Processed, Released
<1> HIDE DEF q, i
<1>4. /\ Core(t) /\ t.write_mode = d.write_mode
      /\ t.next_schedule = d.next_schedule /\ t.next_process = d.next_process
      /\ t.queue[Idle(d)] = d.queue[Idle(d)] /\ t.scheduled[Idle(d)] = d.scheduled[Idle(d)]
      /\ t.queue[q] = [d.queue[q] EXCEPT ![i] = Empty]
      /\ Unscheduled(t, q) = Unscheduled(d, q)
  <2>1. /\ Core(t) /\ t.write_mode = d.write_mode
        /\ t.next_schedule = d.next_schedule /\ t.next_process = d.next_process
        /\ \A r \in Queues \ {q} : t.queue[r] = d.queue[r] /\ t.scheduled[r] = d.scheduled[r]
        /\ t.queue[q] = [d.queue[q] EXCEPT ![i] = Empty]
        /\ Unscheduled(t, q) = Unscheduled(d, q)
    <3>1. Core(d) /\ q \in Queues /\ i \in Scheduled(d, q)
      BY <1>1, <1>2 DEF Good
    <3> QED
      BY ONLY <3>1, ReleasedIsCore
  <2> HIDE DEF t
  <2> QED
    BY <2>1, <1>1
<1> HIDE DEF t
<1>5. FreshSchedule(t, Idle(d)) /\ FreshProcess(t, Idle(d)) /\ FreshSchedule(t, q)
  <2>1. FreshSchedule(t, Idle(d)) /\ FreshProcess(t, Idle(d))
    <3>1. /\ Scheduled(t, Idle(d)) = Scheduled(d, Idle(d))
          /\ Unscheduled(t, Idle(d)) = Unscheduled(d, Idle(d))
      BY <1>4 DEF Scheduled, Unscheduled, Used
    <3>2. FreshSchedule(d, Idle(d)) /\ FreshProcess(d, Idle(d))
      BY <1>1 DEF Good
    <3> QED
      BY <3>1, <3>2, <1>4 DEF FreshSchedule, FreshProcess
  <2>2. FreshSchedule(t, q)
    BY <1>1, <1>4 DEF Good, FreshSchedule
  <2> QED
    BY <2>1, <2>2
<1>6. /\ Core(d2) /\ FreshSchedule(d2, q) /\ FreshProcess(d2, q)
      /\ FreshSchedule(d2, Idle(d)) /\ FreshProcess(d2, Idle(d))
      /\ d2.queue = t.queue /\ d2.scheduled = t.scheduled /\ d2.write_mode = t.write_mode
  BY <1>1, <1>3, <1>4, <1>5, UpdateProcess
<1>7. Good(d2)
  <2>1. InMode(d2)
    BY <1>4, <1>6 DEF Good, InMode, Idle
  <2> QED
    BY <2>1, <1>1, <1>6 DEF Good
<1>8. /\ d.queue[q] \in [Slots(q) -> Entry] /\ i \in Slots(q) /\ a \in Addresses /\ a # 0
  BY <1>1, <1>2, Members, AddressesAreNat DEF Good, Core
<1> HIDE DEF a
<1>9. m2 \in [Addresses -> {"none", "INFLIGHT", "COMPLETED"}]
  <2>1. Returned(m, a) \in [Addresses -> {"none", "INFLIGHT", "COMPLETED"}]
    BY DEF Returned
  <2> QED
    BY <2>1
<1>10. OneRead(d2, m2)
  <2>1. CASE q = "WQ"
    <3>1. Idle(d) = "RQ" /\ m2 = m
      <4>1. Idle(d) = "RQ"
        BY <2>1, <1>1 DEF Queues
      <4>2. q # "RQ"
        BY <2>1
      <4> QED
        BY <4>1, <4>2
    <3>2. d2.queue["RQ"] = d.queue["RQ"]
      BY <3>1, <1>4, <1>6
    <3>3. \A b : ReadsOf(d2, b) = ReadsOf(d, b)
      BY <3>2 DEF ReadsOf
    <3> QED
      BY <3>1, <3>3 DEF OneRead
  <2>2. CASE q = "RQ"
    <3>1. m2 = [m EXCEPT ![a] = "COMPLETED"]
      BY <2>2 DEF Returned
    <3>2. d2.queue["RQ"] = [d.queue["RQ"] EXCEPT ![i] = Empty]
      BY <2>2, <1>4, <1>6
    <3>3. i \in ReadsOf(d, a)
      BY <2>2, <1>8 DEF ReadsOf, a
    <3>4. ReadsOf(d, a) = {i}
      BY <3>3, <1>8, OnlyRead
    <3>5. \A b \in Addresses : ReadsOf(d2, b) = ReadsOf(d, b) \ {i}
      BY <2>2, <3>2, <1>8, AddressesAreNat DEF ReadsOf, Empty
    <3>6. ASSUME NEW b \in Addresses
          PROVE  Cardinality(ReadsOf(d2, b)) = IF m2[b] = "INFLIGHT" THEN 1 ELSE 0
      <4>1. CASE b = a
        <5>1. ReadsOf(d2, b) = {}
          BY <4>1, <3>4, <3>5
        <5>2. m2[b] = "COMPLETED"
          BY <4>1, <3>1, <1>8
        <5> QED
          BY <5>1, <5>2, FS_EmptySet
      <4>2. CASE b # a
        <5>1. i \notin ReadsOf(d, b)
          BY <4>2, <3>3 DEF ReadsOf
        <5>2. ReadsOf(d2, b) = ReadsOf(d, b) /\ m2[b] = m[b]
          BY <4>2, <5>1, <3>1, <3>5
        <5> QED
          BY <5>2 DEF OneRead
      <4> QED
        BY <4>1, <4>2
    <3> QED
      BY <3>6 DEF OneRead
  <2> QED
    BY <2>1, <2>2, <1>1 DEF Queues
<1> QED
  BY <1>7, <1>9, <1>10 DEF q, i, a

(***************************************************************************)
(* A block enters a queue that has room.                                   *)
(***************************************************************************)
LEMMA FirstFree ==
  ASSUME NEW q \in Queues, NEW S \in SUBSET Slots(q), S # {}
  PROVE  \E i \in S : \A j \in S : i <= j
<1> DEFINE R == OpToRel(<, Nat)
<1>1. \A x, y \in Nat : <<y, x>> \in R <=> y < x
  BY DEF OpToRel
<1>2. IsWellFoundedOn(R, Nat) /\ S \in SUBSET Nat
  BY NatLessThanWellFounded, QueueSlots
<1> HIDE DEF R
<1>3. PICK i \in S : \A j \in S : ~(<<j, i>> \in R)
  BY <1>2, WFMin
<1>4. \A j \in S : j \in Nat /\ i \in Nat /\ ~(j < i)
  BY <1>1, <1>2, <1>3
<1>5. \A j \in S : i <= j
  BY <1>4
<1> QED
  BY <1>5

LEMMA StoreIsGood ==
  ASSUME NEW d, Good(d), NEW q \in Queues, NEW a \in Addresses,
         get_occupancy(d, q) # SIZE[q],
         NEW d2 \in update_schedule_cycle(StoreIn(d, q, a), q)
  PROVE  /\ Good(d2)
         /\ \E i \in Slots(q) \ Used(d, q) :
              d2.queue = [d.queue EXCEPT ![q] = [d.queue[q] EXCEPT ![i] = [address |-> a, scheduled |-> FALSE]]]
<1>1. /\ d \in Controller /\ Shape(d) /\ Core(d)
      /\ \A r \in Queues : d.queue[r] \in [Slots(r) -> Entry] /\ d.scheduled[r] \in Nat
      /\ Used(d, q) # Slots(q)
  <2>1. Used(d, q) # Slots(q)
    BY QueueSlots DEF get_occupancy
  <2> QED
    BY <2>1, Members DEF Good, Core, Shape
<1> DEFINE free == Slots(q) \ Used(d, q)
           i == CHOOSE j \in free : \A k \in free : j <= k
<1>2. i \in free /\ i \in Slots(q) /\ i \notin Used(d, q)
  <2>1. free # {} /\ free \in SUBSET Slots(q)
    BY <1>1, Members
  <2>2. \E j \in free : \A k \in free : j <= k
    BY <2>1, FirstFree
  <2> QED
    BY <2>2
<1> DEFINE new == [address |-> a, scheduled |-> FALSE]
           row2 == [d.queue[q] EXCEPT ![i] = new]
           queue2 == [d.queue EXCEPT ![q] = row2]
           t == StoreIn(d, q, a)
<1>3. t = [d EXCEPT !.queue[q][i] = new]
  BY <1>1 DEF StoreIn
<1> HIDE DEF i, t
<1>4. row2 \in [Slots(q) -> Entry]
  <2>1. new \in Entry
    BY DEF Entry
  <2> QED
    BY <2>1, <1>1, <1>2
<1>5. /\ queue2 \in [Queues -> UNION {[Slots(r) -> Entry] : r \in Queues}] /\ queue2[q] = row2
      /\ \A r \in Queues \ {q} : queue2[r] = d.queue[r]
  <2> HIDE DEF row2
  <2> QED
    BY <1>1, <1>4 DEF Controller
<1>6. /\ t \in Controller /\ t.queue = queue2 /\ t.bank = d.bank /\ t.scheduled = d.scheduled
      /\ t.write_mode = d.write_mode
      /\ t.next_schedule = d.next_schedule /\ t.next_process = d.next_process
  <2>1. t = [d EXCEPT !.queue = queue2]
    BY <1>1, <1>3 DEF Controller
  <2> HIDE DEF queue2
  <2> QED
    BY <2>1, <1>1, <1>5 DEF Controller
<1>7. /\ t.queue[q][i] = new
      /\ \A j \in Slots(q) \ {i} : t.queue[q][j] = d.queue[q][j]
      /\ \A r \in Queues \ {q} : t.queue[r] = d.queue[r]
  BY <1>1, <1>2, <1>5, <1>6
<1>8. Scheduled(t, q) = Scheduled(d, q) /\ i \notin Scheduled(d, q)
  BY <1>2, <1>7 DEF Scheduled, Used
<1>9. \A r \in Queues : Scheduled(t, r) = Scheduled(d, r)
  BY <1>7, <1>8 DEF Scheduled, Used
<1>10. \A r \in Queues : \A j \in Scheduled(d, r) : BankOf(t, r, j) = BankOf(d, r, j)
  <2>1. \A j \in Scheduled(d, q) : BankOf(t, q, j) = BankOf(d, q, j)
    BY <1>1, <1>7, <1>8, Members DEF BankOf
  <2> QED
    BY <2>1, <1>7 DEF BankOf
<1>11. Core(t)
  <2>1. Shape(t)
    <3>1. \A r \in Queues : DOMAIN t.queue[r] = Slots(r)
      BY <1>1, <1>4, <1>5, <1>6
    <3> QED
      BY <3>1, <1>1, <1>6 DEF Shape
  <2>2. Counted(t)
    BY <1>1, <1>6, <1>9 DEF Core, Counted
  <2>3. Serves(t)
    <3>1. ASSUME NEW r \in Queues, NEW j \in Scheduled(t, r)
          PROVE  LET b == t.bank[BankOf(t, r, j)]
                 IN b.working /\ b.by = r /\ b.request_index = j
      BY <1>1, <1>6, <1>9, <1>10 DEF Core, Serves
    <3>2. ASSUME NEW b \in Banks, t.bank[b].working
          PROVE  \E r \in Queues : t.bank[b].request_index \in Scheduled(t, r)
                                   /\ BankOf(t, r, t.bank[b].request_index) = b
      <4>1. PICK r \in Queues : /\ d.bank[b].request_index \in Scheduled(d, r)
                                /\ BankOf(d, r, d.bank[b].request_index) = b
        BY <3>2, <1>1, <1>6 DEF Core, Serves
      <4> QED
        BY <4>1, <1>6, <1>9, <1>10
    <3> QED
      BY <3>1, <3>2 DEF Serves
  <2> QED
    BY <2>1, <2>2, <2>3 DEF Core
<1>12. /\ \A r \in Queues \ {q} : FreshSchedule(t, r)
       /\ \A r \in Queues : FreshProcess(t, r)
  <2>1. \A r \in Queues \ {q} : Unscheduled(t, r) = Unscheduled(d, r)
    BY <1>7 DEF Unscheduled, Scheduled, Used
  <2> QED
    BY <2>1, <1>6, <1>9 DEF Good, FreshSchedule, FreshProcess
<1>13. /\ Core(d2) /\ FreshSchedule(d2, q)
       /\ \A r \in Queues \ {q} : FreshSchedule(d2, r)
       /\ \A r \in Queues : FreshProcess(d2, r)
       /\ d2.queue = t.queue /\ d2.scheduled = t.scheduled /\ d2.write_mode = t.write_mode
  <2>1. d2 \in update_schedule_cycle(t, q)
    BY DEF t
  <2> QED
    BY <2>1, <1>11, <1>12, UpdateSchedule
<1>14. InMode(d2)
  BY <1>6, <1>13 DEF Good, InMode, Idle
<1>15. Good(d2)
  BY <1>13, <1>14 DEF Good
<1> QED
  BY <1>2, <1>6, <1>13, <1>15

(***************************************************************************)
(* The inductive invariant: what TypeOK, BankServesEntry, ModeHoldsBanks,  *)
(* NextIndicesFresh and MissHasOneRead say together.                       *)
(***************************************************************************)
Misses == [Addresses -> {"none", "INFLIGHT", "COMPLETED"}]

IndInv ==
  /\ Good(dram) /\ OneRead(dram, miss)
  /\ warmup_complete \in BOOLEAN /\ miss \in Misses

LEMMA PartsOfIndInv ==
  IndInv => TypeOK /\ BankServesEntry /\ ModeHoldsBanks /\ NextIndicesFresh /\ MissHasOneRead
<1> SUFFICES ASSUME IndInv
             PROVE  TypeOK /\ BankServesEntry /\ ModeHoldsBanks /\ NextIndicesFresh /\ MissHasOneRead
  OBVIOUS
<1>1. TypeOK
  BY Zenon DEF IndInv, Good, Core, Shape, Controller, Entry, Bank, Misses, TypeOK
<1>2. BankServesEntry
  BY DEF IndInv, Good, Core, Serves, BankServesEntry
<1>3. ModeHoldsBanks
  BY DEF IndInv, Good, Core, Counted, InMode, Idle, ModeHoldsBanks
<1>4. NextIndicesFresh
  BY DEF IndInv, Good, FreshSchedule, FreshProcess, NextIndicesFresh
<1>5. MissHasOneRead
  BY DEF IndInv, OneRead, ReadsOf, MissHasOneRead
<1> QED
  BY <1>1, <1>2, <1>3, <1>4, <1>5

LEMMA InitIsGood == Init => IndInv
<1> SUFFICES ASSUME Init PROVE IndInv
  OBVIOUS
<1> DEFINE d == dram
<1>1. /\ d.queue = [q \in Queues |-> [i \in Slots(q) |-> Empty]]
      /\ d.bank = [b \in Banks |-> FreeBank(NoRow)]
      /\ d.write_mode = FALSE
      /\ d.scheduled = [q \in Queues |-> 0]
      /\ d.next_schedule = [q \in Queues |-> NoIndex]
      /\ d.next_process = [q \in Queues |-> NoIndex]
  BY DEF Init
<1>2. \A q \in Queues : \A i \in Slots(q) : d.queue[q][i].address = 0
  BY <1>1 DEF Empty
<1>3. \A q \in Queues : Used(d, q) = {} /\ Scheduled(d, q) = {} /\ Unscheduled(d, q) = {}
  BY <1>2 DEF Used, Scheduled, Unscheduled
<1>4. Shape(d)
  <2>1. [i \in Slots("RQ") |-> Empty] \in [Slots("RQ") -> Entry]
        /\ [i \in Slots("WQ") |-> Empty] \in [Slots("WQ") -> Entry]
    BY DEF Empty, Entry
  <2>2. d.queue \in [Queues -> UNION {[Slots(q) -> Entry] : q \in Queues}]
    BY <1>1, <2>1 DEF Queues
  <2>3. FreeBank(NoRow) \in Bank
    BY DEF FreeBank, Bank
  <2>4. d.bank \in [Banks -> Bank]
    BY <1>1, <2>3
  <2>5. d.scheduled \in [Queues -> Nat]
    BY <1>1
  <2>6. d.next_schedule \in [Queues -> Int] /\ d.next_process \in [Queues -> Int]
    BY <1>1 DEF NoIndex
  <2>7. d \in Controller
    <3>1. d = [queue |-> d.queue, bank |-> d.bank, write_mode |-> d.write_mode,
               scheduled |-> d.scheduled, next_schedule |-> d.next_schedule,
               next_process |-> d.next_process]
      BY DEF Init
    <3> QED
      BY <3>1, <2>2, <2>4, <2>5, <2>6, <1>1 DEF Controller
  <2>8. ASSUME NEW q \in Queues
        PROVE  /\ DOMAIN d.queue[q] = Slots(q)
               /\ d.next_schedule[q] \in Slots(q) \cup {NoIndex}
               /\ d.next_process[q] \in Slots(q) \cup {NoIndex}
               /\ d.scheduled[q] <= SIZE[q]
    BY <1>1, QueueSlots
  <2> QED
    BY <2>7, <2>8 DEF Shape
<1>5. Serves(d)
  <2>1. \A b \in Banks : ~ d.bank[b].working
    BY <1>1 DEF FreeBank
  <2> QED
    BY <2>1, <1>3 DEF Serves
<1>6. Counted(d)
  BY <1>1, <1>3, FS_EmptySet DEF Counted
<1>7. InMode(d)
  BY <1>1 DEF InMode, Idle, Queues
<1>8. \A q \in Queues : FreshSchedule(d, q) /\ FreshProcess(d, q)
  BY <1>1, <1>3 DEF FreshSchedule, FreshProcess, Earliest
<1>9. OneRead(d, miss)
  <2>1. \A a \in Addresses : ReadsOf(d, a) = {} /\ miss[a] = "none"
    BY <1>2, AddressesAreNat DEF ReadsOf, Queues, Init
  <2> QED
    BY <2>1, FS_EmptySet DEF OneRead
<1>10. warmup_complete \in BOOLEAN /\ miss \in Misses
  BY DEF Init, Misses
<1> QED
  BY <1>4, <1>5, <1>6, <1>7, <1>8, <1>9, <1>10 DEF IndInv, Good, Core

LEMMA IndInvNext ==
  ASSUME Good(dram'), OneRead(dram', miss'), warmup_complete' \in BOOLEAN, miss' \in Misses
  PROVE  IndInv'
BY DEF IndInv, Good, Core, Shape, Serves, Counted, InMode, Idle, FreshSchedule, FreshProcess,
       OneRead, ReadsOf, Misses

(* operate(): a switch, a request scheduled, a request processed.          *)
LEMMA OperateStep == IndInv /\ operate => IndInv'
<1> SUFFICES ASSUME IndInv, operate PROVE IndInv'
  OBVIOUS
<1>1. PICK d1 \in Switched(dram) : \E d2 \in schedule(d1, Served(d1)) :
        /\ \/ dram' = d2 /\ UNCHANGED miss
           \/ /\ d2.next_process[Served(d1)] # NoIndex
              /\ dram' \in Processed(d2, Served(d1))
              /\ miss' = IF Served(d1) = "RQ"
                         THEN Returned(miss, d2.queue[Served(d1)][d2.next_process[Served(d1)]].address)
                         ELSE miss
        /\ UNCHANGED warmup_complete
  BY Zenon DEF operate, Served
<1>2. PICK d2 \in schedule(d1, Served(d1)) :
        /\ \/ dram' = d2 /\ UNCHANGED miss
           \/ /\ d2.next_process[Served(d1)] # NoIndex
              /\ dram' \in Processed(d2, Served(d1))
              /\ miss' = IF Served(d1) = "RQ"
                         THEN Returned(miss, d2.queue[Served(d1)][d2.next_process[Served(d1)]].address)
                         ELSE miss
        /\ UNCHANGED warmup_complete
  BY <1>1
<1>3. Good(d1) /\ OneRead(d1, miss)
  BY SwitchedIsGood DEF IndInv
<1>4. Good(d2) /\ OneRead(d2, miss) /\ Served(d2) = Served(d1)
  <2>1. Good(d2) /\ d2.write_mode = d1.write_mode /\ OneRead(d2, miss)
    BY <1>3, ScheduleIsGood
  <2> QED
    BY <2>1 DEF Served
<1>5. warmup_complete' \in BOOLEAN /\ miss \in Misses
  BY <1>2 DEF IndInv
<1>6. CASE dram' = d2 /\ miss' = miss
  BY <1>4, <1>5, <1>6, IndInvNext
<1>7. CASE /\ d2.next_process[Served(d1)] # NoIndex
           /\ dram' \in Processed(d2, Served(d1))
           /\ miss' = IF Served(d1) = "RQ"
                      THEN Returned(miss, d2.queue[Served(d1)][d2.next_process[Served(d1)]].address)
                      ELSE miss
  <2>1. Good(dram') /\ miss' \in Misses /\ OneRead(dram', miss')
    BY <1>4, <1>5, <1>7, ProcessedIsGood DEF Misses
  <2> QED
    BY <2>1, <1>5, IndInvNext
<1> QED
  BY <1>2, <1>6, <1>7

(* Where it enters, a read is the only one of its block.                   *)
LEMMA ReadStored ==
  ASSUME NEW d, Good(d), NEW m \in Misses, OneRead(d, m), NEW a \in Addresses, m[a] = "none",
         NEW d2, NEW i \in Slots("RQ") \ Used(d, "RQ"),
         d2.queue = [d.queue EXCEPT !["RQ"] =
                       [d.queue["RQ"] EXCEPT ![i] = [address |-> a, scheduled |-> FALSE]]]
  PROVE  OneRead(d2, [m EXCEPT ![a] = "INFLIGHT"])
<1> DEFINE m2 == [m EXCEPT ![a] = "INFLIGHT"]
<1>1. "RQ" \in Queues /\ d.queue["RQ"] \in [Slots("RQ") -> Entry] /\ DOMAIN d.queue = Queues
  BY Members DEF Good, Core, Shape, Controller, Queues
<1>2. d2.queue["RQ"] = [d.queue["RQ"] EXCEPT ![i] = [address |-> a, scheduled |-> FALSE]]
  BY <1>1
<1>3. d.queue["RQ"][i].address = 0
  BY DEF Used
<1>4. ASSUME NEW b \in Addresses
      PROVE  Cardinality(ReadsOf(d2, b)) = IF m2[b] = "INFLIGHT" THEN 1 ELSE 0
  <2>1. CASE b = a
    <3>1. Cardinality(ReadsOf(d, a)) = 0
      BY DEF OneRead
    <3>2. ReadsOf(d, a) = {}
      BY <3>1, ReadsAreFinite, FS_EmptySet
    <3>3. ReadsOf(d2, a) = {i}
      BY <3>2, <1>1, <1>2 DEF ReadsOf
    <3>4. Cardinality({i}) = 1
      BY FS_Singleton
    <3> QED
      BY <2>1, <3>3, <3>4 DEF Misses
  <2>2. CASE b # a
    <3>1. ReadsOf(d2, b) = ReadsOf(d, b)
      BY <2>2, <1>1, <1>2, <1>3, AddressesAreNat DEF ReadsOf
    <3>2. m2[b] = m[b]
      BY <2>2 DEF Misses
    <3> QED
      BY <3>1, <3>2 DEF OneRead
  <2> QED
    BY <2>1, <2>2
<1> QED
  BY <1>4 DEF OneRead

LEMMA ReadMissStep ==
  ASSUME IndInv, NEW a \in Addresses, ReadMiss(a)
  PROVE  IndInv'
<1> DEFINE m == [miss EXCEPT ![a] = "INFLIGHT"]
<1>1. /\ Good(dram) /\ OneRead(dram, miss) /\ miss \in Misses /\ miss[a] = "none"
      /\ warmup_complete' \in BOOLEAN
  BY DEF IndInv, ReadMiss
<1>2. ReadsOf(dram, a) = {} /\ ~ check_dram_queue(dram, "RQ", a)
  <2>1. Cardinality(ReadsOf(dram, a)) = 0
    BY <1>1 DEF OneRead
  <2>2. ReadsOf(dram, a) = {}
    BY <2>1, ReadsAreFinite, FS_EmptySet
  <2> QED
    BY <2>2 DEF ReadsOf, check_dram_queue
<1>3. CASE miss' = Returned(m, a) /\ dram' = dram
  <2>1. miss' = [miss EXCEPT ![a] = "COMPLETED"]
    BY <1>1, <1>3 DEF Returned, Misses
  <2>2. miss' \in Misses
    BY <1>1, <2>1 DEF Misses
  <2>3. OneRead(dram', miss')
    <3>1. \A b \in Addresses : (miss'[b] = "INFLIGHT") <=> (miss[b] = "INFLIGHT")
      BY <1>1, <2>1 DEF Misses
    <3> QED
      BY <3>1, <1>1, <1>3 DEF OneRead
  <2> QED
    BY <1>1, <1>3, <2>2, <2>3, IndInvNext
<1>4. CASE miss' = m /\ dram' \in update_schedule_cycle(StoreIn(dram, "RQ", a), "RQ")
  <2>1. "RQ" \in Queues /\ get_occupancy(dram, "RQ") # SIZE["RQ"]
    BY DEF Queues, ReadMiss, HasRoom
  <2>2. Good(dram')
    BY <1>1, <1>4, <2>1, StoreIsGood
  <2>3. PICK i \in Slots("RQ") \ Used(dram, "RQ") :
          dram'.queue = [dram.queue EXCEPT !["RQ"] =
                          [dram.queue["RQ"] EXCEPT ![i] = [address |-> a, scheduled |-> FALSE]]]
    <3>1. Good(dram)
      BY <1>1
    <3>2. dram' \in update_schedule_cycle(StoreIn(dram, "RQ", a), "RQ")
      BY <1>4
    <3> QED
      BY ONLY <2>1, <3>1, <3>2, StoreIsGood
  <2>4. OneRead(dram', miss')
    BY <1>1, <1>4, <2>3, ReadStored
  <2>5. miss' \in Misses
    BY <1>1, <1>4 DEF Misses
  <2> QED
    BY <1>1, <2>2, <2>4, <2>5, IndInvNext
<1> QED
  BY <1>2, <1>3, <1>4 DEF ReadMiss, add_rq

LEMMA EvictStep ==
  ASSUME IndInv, NEW a \in Addresses, Evict(a)
  PROVE  IndInv'
<1>1. /\ Good(dram) /\ OneRead(dram, miss) /\ miss' \in Misses /\ miss' = miss
      /\ warmup_complete' \in BOOLEAN
  BY DEF IndInv, Evict
<1>2. CASE dram' = dram
  BY <1>1, <1>2, IndInvNext
<1>3. CASE dram' \in update_schedule_cycle(StoreIn(dram, "WQ", a), "WQ")
  <2>1. "WQ" \in Queues /\ get_occupancy(dram, "WQ") # SIZE["WQ"]
    BY DEF Queues, Evict, HasRoom
  <2>2. Good(dram')
    BY <1>1, <1>3, <2>1, StoreIsGood
  <2>3. PICK i \in Slots("WQ") \ Used(dram, "WQ") :
          dram'.queue = [dram.queue EXCEPT !["WQ"] =
                          [dram.queue["WQ"] EXCEPT ![i] = [address |-> a, scheduled |-> FALSE]]]
    BY <1>1, <1>3, <2>1, StoreIsGood
  <2>4. dram'.queue["RQ"] = dram.queue["RQ"]
    <3>1. "RQ" \in DOMAIN dram.queue
      BY <1>1 DEF Good, Core, Shape, Controller, Queues
    <3> QED
      BY <2>3, <3>1
  <2>5. OneRead(dram', miss')
    BY <1>1, <2>4 DEF OneRead, ReadsOf
  <2> QED
    BY <1>1, <2>2, <2>5, IndInvNext
<1> QED
  BY <1>2, <1>3 DEF Evict, add_wq

LEMMA FillStep ==
  ASSUME IndInv, NEW a \in Addresses, Fill(a)
  PROVE  IndInv'
<1>1. /\ Good(dram') /\ OneRead(dram, miss) /\ dram' = dram /\ miss \in Misses /\ miss[a] = "COMPLETED"
      /\ miss' = [miss EXCEPT ![a] = "none"] /\ warmup_complete' \in BOOLEAN
  BY DEF IndInv, Fill
<1>2. miss' \in Misses
  BY <1>1 DEF Misses
<1>3. \A b \in Addresses : (miss'[b] = "INFLIGHT") <=> (miss[b] = "INFLIGHT")
  BY <1>1 DEF Misses
<1>4. OneRead(dram', miss')
  BY <1>1, <1>3 DEF OneRead
<1> QED
  BY <1>1, <1>2, <1>4, IndInvNext

LEMMA StepIsGood == IndInv /\ [Next]_vars => IndInv'
<1> SUFFICES ASSUME IndInv, [Next]_vars PROVE IndInv'
  OBVIOUS
<1>1. CASE operate
  BY <1>1, OperateStep
<1>2. CASE FinishWarmUp
  BY <1>2, IndInvNext DEF IndInv, FinishWarmUp
<1>3. CASE \E a \in Addresses : ReadMiss(a) \/ Fill(a) \/ Evict(a)
  BY <1>3, ReadMissStep, FillStep, EvictStep
<1>4. CASE UNCHANGED vars
  BY <1>4, IndInvNext DEF IndInv, vars
<1> QED
  BY <1>1, <1>2, <1>3, <1>4 DEF Next, Client

(***************************************************************************)
(* The theorems                                                            *)
(***************************************************************************)

(* The controller and its client keep the inductive invariant, whichever   *)
(* requests are the oldest, whenever data returns and blocks are evicted.  *)
THEOREM ControllerIsGood == Spec => []IndInv
BY InitIsGood, StepIsGood, PTL DEF Spec

(* Every member stays in its type, so no index of an entry or of a bank    *)
(* leaves its array and no counter of scheduled requests wraps below zero. *)
THEOREM TypeCorrect == Spec => []TypeOK
BY ControllerIsGood, PartsOfIndInv, PTL

(* A request is scheduled exactly when one bank works for it and knows its *)
(* index: the checks of process() and reset_remain_requests() never fail.  *)
THEOREM BanksServeEntries == Spec => []BankServesEntry
BY ControllerIsGood, PartsOfIndInv, PTL

(* The counters are exact and only requests of the current mode hold       *)
(* banks: the assertion of reset_remain_requests() never fails.            *)
THEOREM ModesHoldBanks == Spec => []ModeHoldsBanks
BY ControllerIsGood, PartsOfIndInv, PTL

(* operate() never schedules or processes through a stale index.           *)
THEOREM IndicesAreFresh == Spec => []NextIndicesFresh
BY ControllerIsGood, PartsOfIndInv, PTL

(* Every miss of the last-level cache that waits has exactly one read in   *)
(* the queue, and every read there is waited for.                          *)
THEOREM MissesHaveOneRead == Spec => []MissHasOneRead
BY ControllerIsGood, PartsOfIndInv, PTL

(* The bounded client that the run checks is one of the clients of Spec,   *)
(* so the five hold of it too.                                             *)
THEOREM BoundedClient ==
  ProgressSpec => [](TypeOK /\ BankServesEntry /\ ModeHoldsBanks /\ NextIndicesFresh /\ MissHasOneRead)
<1>1. ProgressInit => Init
  BY DEF ProgressInit
<1>2. [ProgressNext]_progressVars => [Next]_vars
  BY DEF ProgressNext, progressVars, Arrive, Operate, Next
<1>3. ProgressSpec => []IndInv
  BY <1>1, <1>2, InitIsGood, StepIsGood, PTL DEF ProgressSpec
<1> QED
  BY <1>3, PartsOfIndInv, PTL
=============================================================================
