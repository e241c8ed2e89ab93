----------------------------- MODULE OutOfOrder -----------------------------
(***************************************************************************)
(* The back end of one core (O3_CPU in src/ooo_cpu.cc): the reorder buffer *)
(* with its register dependences, the load and the store queue with their  *)
(* memory dependences, and the requests that DTLB and L1D hold for them.   *)
(* Every action is one step of a stage; cycles, latencies, widths and the  *)
(* room in the queues of DTLB and L1D are choices of when a step happens.  *)
(***************************************************************************)
EXTENDS Integers, FiniteSets, Sequences

CONSTANTS
  ROB_SIZE, LQ_SIZE, SQ_SIZE, SCHEDULER_SIZE,
  LastAddress,   \* the addresses of the traces are 1 to LastAddress
  Registers,     \* their registers
  Programs       \* and the traces

Addresses == 1 .. LastAddress
\* What an instruction reads and writes, of memory and of registers.
Instructions == [loads : SUBSET Addresses, stores : SUBSET Addresses,
                 reads : SUBSET Registers, writes : SUBSET Registers]

ASSUME SizeAssumption ==
  {ROB_SIZE, LQ_SIZE, SQ_SIZE, SCHEDULER_SIZE} \subseteq Nat \ {0}
ASSUME ProgramAssumption == LastAddress \in Nat /\ Programs \subseteq Seq(Instructions)

VARIABLES
  program,                     \* the trace of this run
  head, tail, next_schedule,   \* places on the ring of the reorder buffer
  dispatched, retired,         \* how many instructions entered and left it
  inflight_reg,                \* inflight_reg_executions
  sq_head,                     \* the oldest entry of the store queue
  RTS1, RTL1,                  \* entries of the queues that are translated
  DTLB, L1D,                   \* the requests the two caches hold
  o3                           \* the members that the loops over memory operations change

ring == <<head, tail, next_schedule, dispatched, retired>>
requests == <<RTS1, RTL1, DTLB, L1D>>
vars == <<program, ring, inflight_reg, sq_head, requests, o3>>

RobSlots == 0 .. ROB_SIZE - 1
LqSlots == 0 .. LQ_SIZE - 1
SqSlots == 0 .. SQ_SIZE - 1
None == -1    \* UINT32_MAX, an index not given yet

-------------------------------------------------------------------------------
(* Entries. An instr_id is the position in the trace; 0 marks an empty entry. *)

Memory(n) == program[n].loads \cup program[n].stores # {}
EmptyRob == [id |-> 0, scheduled |-> "no", executed |-> "no", waits |-> {}, ops |-> 0,
             lq_index |-> [a \in Addresses |-> None], sq_index |-> [a \in Addresses |-> None],
             dependents |-> {}]
NewRob(n) ==
  [EmptyRob EXCEPT !.id = n,
                   !.ops = Cardinality(program[n].loads) + Cardinality(program[n].stores)]
EmptyLq == [id |-> 0, va |-> None, rob |-> 0, producer |-> 0]
EmptySq == [id |-> 0, va |-> None, rob |-> 0, fetched |-> FALSE]

\* The store destinations of the trace, as read_from_trace() queues them.
StoreAddresses ==
  LET upTo[n \in 0 .. Len(program)] ==
        IF n = 0 THEN <<>>
        ELSE upTo[n - 1] \o [k \in 1 .. Cardinality(program[n].stores) |-> n]
  IN upTo[Len(program)]

Init ==
  /\ program \in Programs
  /\ head = 0 /\ tail = 0 /\ next_schedule = 0
  /\ dispatched = 0 /\ retired = 0 /\ inflight_reg = 0 /\ sq_head = 0
  /\ RTS1 = {} /\ RTL1 = {} /\ DTLB = {} /\ L1D = {}
  /\ o3 = [rob |-> [i \in RobSlots |-> EmptyRob],
           LQ |-> [s \in LqSlots |-> EmptyLq], SQ |-> [s \in SqSlots |-> EmptySq],
           sq_tail |-> 0, STA |-> StoreAddresses, RTL0 |-> {}, RTS0 |-> {}, inflight_mem |-> 0,
           \* <<n, a, s>>: load a of instruction n got the data of store s to a, 0 from none
           performed |-> {}]

Instr(o, i) == program[o.rob[i].id]
Live(o) == {i \in RobSlots : o.rob[i].id # 0}
Age(i) == (i - head) % ROB_SIZE
Older(i) == {j \in RobSlots : Age(j) < Age(i)}
Smallest(S) == CHOOSE x \in S : \A y \in S : x <= y

\* The entries a scan from head to limit visits, in order.
ScanTo(limit) ==
  IF head < limit THEN [k \in 1 .. limit - head |-> head + k - 1]
  ELSE [k \in 1 .. ROB_SIZE - head + limit |-> (head + k - 1) % ROB_SIZE]

\* Mutant: the oldest store or writer is taken.
MutantNearest(S) == IF S = {} THEN None ELSE CHOOSE j \in S : \A k \in S : Age(j) <= Age(k)

\* The nearest of the older entries S, or None.
Nearest(S) == IF S = {} THEN None ELSE CHOOSE j \in S : \A k \in S : Age(j) >= Age(k)

\* F(v), where TLC computes v once.
With(v, F(_)) == CHOOSE r \in {F(x) : x \in {v}} : TRUE

\* A loop: Op(o, k) for each k in S from 1 to n, one after the other.
ForEach(o, n, S, Op(_, _)) ==
  LET upTo[k \in 0 .. n] ==
        IF k = 0 THEN o
        ELSE IF k \in S THEN With(upTo[k - 1], LAMBDA q : Op(q, k)) ELSE upTo[k - 1]
  IN upTo[n]

-------------------------------------------------------------------------------
(* Dispatch, scheduling and execution of registers *)

\* decode_and_dispatch(), add_to_rob(): the next instruction enters a free tail.
Dispatch ==
  /\ dispatched < Len(program)
  /\ o3.rob[tail].id = 0
  /\ o3' = [o3 EXCEPT !.rob[tail] = NewRob(dispatched + 1)]
  /\ tail' = (tail + 1) % ROB_SIZE
  /\ dispatched' = dispatched + 1
  /\ UNCHANGED <<program, head, next_schedule, retired, inflight_reg, sq_head, requests>>

\* reg_dependency(): for each source the nearest older entry that writes it and is not done.
reg_dependency(o, i) ==
  LET Writers(r) == {j \in Older(i) : r \in Instr(o, j).writes /\ o.rob[j].executed # "COMPLETED"}
  IN {<<Nearest(Writers(r)), r>> : r \in {x \in Instr(o, i).reads : Writers(x) # {}}}

do_scheduling(i) ==
  /\ o3' = [o3 EXCEPT !.rob[i] =
              [o3.rob[i] EXCEPT !.waits = reg_dependency(o3, i),
                                !.scheduled = IF Memory(o3.rob[i].id) THEN "INFLIGHT" ELSE "COMPLETED"]]
  /\ next_schedule' = (i + 1) % ROB_SIZE

\* schedule_instruction(), which main() calls while the entry at next_schedule is not
\* scheduled: next_fetch[1] is never set, so the scan ends where the ring wraps.
\* It stops at an empty entry and, by the cycle of an entry, anywhere: here after one.
Schedule ==
  /\ o3.rob[next_schedule].scheduled = "no"
  /\ LET scan == ScanTo(0)
         Due(k) == /\ k <= SCHEDULER_SIZE
                   /\ o3.rob[scan[k]].scheduled = "no"
                   /\ \A m \in 1 .. k : o3.rob[scan[m]].id # 0
     IN \E k \in DOMAIN scan :
          Due(k) /\ (\A m \in 1 .. k - 1 : ~Due(m)) /\ do_scheduling(scan[k])
  /\ UNCHANGED <<program, head, tail, dispatched, retired, inflight_reg, sq_head, requests>>

\* execute_instruction(), do_execution(): an entry that was put in RTE0 or RTE1 starts.
ReadyToExecute ==
  {i \in Live(o3) : /\ ~Memory(o3.rob[i].id) /\ o3.rob[i].scheduled = "COMPLETED"
                    /\ o3.rob[i].waits = {} /\ o3.rob[i].executed = "no"}
Execute ==
  /\ \E i \in ReadyToExecute : o3' = [o3 EXCEPT !.rob[i].executed = "INFLIGHT"]
  /\ inflight_reg' = inflight_reg + 1
  /\ UNCHANGED <<program, ring, sq_head, requests>>

\* Mutant: a consumer is released by the first of its producers.
Mutantreg_RAW_release(rob, i) ==
  [j \in RobSlots |->
     IF \E w \in rob[j].waits : w[1] = i THEN [rob[j] EXCEPT !.waits = {}] ELSE rob[j]]

\* reg_RAW_release(): the consumers of i wait for it no longer.
reg_RAW_release(rob, i) ==
  [j \in RobSlots |-> [rob[j] EXCEPT !.waits = {w \in rob[j].waits : w[1] # i}]]

\* update_rob(), complete_execution()
Complete ==
  /\ inflight_reg > 0 \/ o3.inflight_mem > 0
  /\ \E i \in Live(o3) :
       /\ o3.rob[i].executed = "INFLIGHT"
       /\ o3.rob[i].ops = 0
       /\ LET memory == Memory(o3.rob[i].id)
              done == [o3.rob EXCEPT ![i].executed = "COMPLETED"]
          IN /\ o3' = [o3 EXCEPT !.rob = reg_RAW_release(done, i),
                                 !.inflight_mem = @ - (IF memory THEN 1 ELSE 0)]
             /\ inflight_reg' = inflight_reg - (IF memory THEN 0 ELSE 1)
  /\ UNCHANGED <<program, ring, sq_head, requests>>

-------------------------------------------------------------------------------
(* The load and the store queue *)

\* One memory operation of ROB entry i is done.
OpDone(o, i) ==
  [o EXCEPT !.rob[i].ops = o.rob[i].ops - 1,
            !.inflight_mem = o.inflight_mem + (IF o.rob[i].ops = 1 THEN 1 ELSE 0)]

release_load_queue(o, s) == [o EXCEPT !.LQ[s] = EmptyLq]

\* The load in LQ slot s gets the data of instruction n.
Perform(o, s, n) == [o EXCEPT !.performed = @ \cup {<<o.LQ[s].id, o.LQ[s].va, n>>}]

\* Mutant: forwarding counts the operation as two.
MutantForward(o, s, a) ==
  LET l == o.LQ[s]
  IN release_load_queue(
       OpDone(OpDone(Perform(o, s, IF l.va = a THEN l.producer ELSE None), l.rob), l.rob), s)

\* The load in LQ slot s takes what its producer stores to a: forwarding. That a is the address
\* of the load is not checked, and None stands for the data of another one.
Forward(o, s, a) ==
  LET l == o.LQ[s]
  IN release_load_queue(OpDone(Perform(o, s, IF l.va = a THEN l.producer ELSE None), l.rob), s)

\* Mutant: an entry whose load has not been issued passes for a free one.
MutantFreeLq(o) == {s \in LqSlots : o.LQ[s].id = 0 \/ s \in o.RTL0}

FreeLq(o) == {s \in LqSlots : o.LQ[s].id = 0}
FreeSq(o) == {s \in SqSlots : o.SQ[s].id = 0}

\* mem_RAW_dependency(), over the older entries: the one that stores to a, or None.
mem_RAW_dependency(o, i, a) == Nearest({j \in Older(i) : a \in Instr(o, j).stores})

\* The store queue entry that a load in LQ slot s of address a can be forwarded from.
Forwarding(o, s, a) ==
  {k \in SqSlots : /\ o.SQ[k].va = a /\ o.SQ[k].id = o.LQ[s].producer
                   /\ o.SQ[k].id # 0 /\ o.SQ[k].fetched}

\* The load of a by entry i in LQ slot s, behind the entry store or behind none.
AddedLoad(o, i, a, s, store) ==
  [o EXCEPT !.rob[i].lq_index[a] = s,
            !.LQ[s] = [id |-> o.rob[i].id, va |-> a, rob |-> i,
                       producer |-> IF store = None THEN 0 ELSE o.rob[store].id]]

\* add_load_queue(): the load waits for its store, is forwarded at once, or goes to memory.
add_load_queue(o, i, a) ==
  LET s == Smallest(FreeLq(o))
      store == mem_RAW_dependency(o, i, a)
      added == AddedLoad(o, i, a, s, store)
  IN IF store = None THEN [added EXCEPT !.RTL0 = @ \cup {s}]
     ELSE LET noted == [added EXCEPT !.rob[store].dependents = added.rob[store].dependents \cup {i}]
          IN IF Forwarding(noted, s, a) = {} THEN noted ELSE Forward(noted, s, a)

\* Mutant: the store array keeps its head.
Mutantadd_store_queue(o, i, a) ==
  [o EXCEPT !.rob[i].sq_index[a] = o.sq_tail,
            !.SQ[o.sq_tail] = [id |-> o.rob[i].id, va |-> a, rob |-> i, fetched |-> FALSE],
            !.sq_tail = (o.sq_tail + 1) % SQ_SIZE,
            !.RTS0 = o.RTS0 \cup {o.sq_tail}]
\* add_store_queue(): at the tail, in the order of the store array.
add_store_queue(o, i, a) ==
  [o EXCEPT !.rob[i].sq_index[a] = o.sq_tail,
            !.SQ[o.sq_tail] = [id |-> o.rob[i].id, va |-> a, rob |-> i, fetched |-> FALSE],
            !.sq_tail = (o.sq_tail + 1) % SQ_SIZE,
            !.STA = Tail(o.STA),
            !.RTS0 = o.RTS0 \cup {o.sq_tail}]

TryLoad(o, i, a) ==
  IF o.rob[i].lq_index[a] # None \/ FreeLq(o) = {} THEN o ELSE add_load_queue(o, i, a)
\* Mutant: a store enters the store queue as soon as there is room.
MutantTryStore(o, i, a) ==
  IF o.rob[i].sq_index[a] # None \/ FreeSq(o) = {} \/ o.STA = <<>> THEN o
  ELSE add_store_queue(o, i, a)
TryStore(o, i, a) ==
  IF \/ o.rob[i].sq_index[a] # None \/ FreeSq(o) = {}
     \/ o.STA = <<>> \/ Head(o.STA) # o.rob[i].id THEN o
  ELSE add_store_queue(o, i, a)

\* check_and_add_lsq(): the loads, then the stores, as far as there is room.
AddLoads(o, i) == ForEach(o, LastAddress, Instr(o, i).loads, LAMBDA q, a : TryLoad(q, i, a))
AddStores(o, i) == ForEach(o, LastAddress, Instr(o, i).stores, LAMBDA q, a : TryStore(q, i, a))
check_and_add_lsq(o, i) == With(AddLoads(o, i), LAMBDA loaded : AddStores(loaded, i))

AllAdded(o, i) ==
  /\ \A a \in Instr(o, i).loads : o.rob[i].lq_index[a] # None
  /\ \A a \in Instr(o, i).stores : o.rob[i].sq_index[a] # None

\* The end of do_memory_scheduling(): the entry is scheduled once all its operations are added.
Scheduled(o, i) ==
  IF AllAdded(o, i)
  THEN [o EXCEPT !.rob[i] = [o.rob[i] EXCEPT !.scheduled = "COMPLETED",
                                             !.executed = IF @ = "no" THEN "INFLIGHT" ELSE @]]
  ELSE o
do_memory_scheduling(o, i) == With(check_and_add_lsq(o, i), LAMBDA tried : Scheduled(tried, i))

\* The entries at the places tried of scan, in order.
MemoryPass(o, scan, tried) ==
  ForEach(o, Len(scan), tried, LAMBDA q, k : do_memory_scheduling(q, scan[k]))

\* schedule_memory_instruction(): a pass over the scheduled entries, oldest first. The cycle of
\* an entry may end it anywhere.
ScheduleMemory ==
  /\ LET scan == ScanTo(next_schedule)
         Eligible(i) == /\ o3.rob[i].id # 0 /\ Memory(o3.rob[i].id)
                        /\ o3.rob[i].scheduled = "INFLIGHT" /\ o3.rob[i].waits = {}
         eligible == {k \in DOMAIN scan : Eligible(scan[k])}
     IN \E n \in 1 .. SCHEDULER_SIZE :
          LET tried == {k \in eligible : Cardinality({m \in eligible : m <= k}) <= n}
          IN o3' = MemoryPass(o3, scan, tried)
  /\ UNCHANGED <<program, ring, inflight_reg, sq_head, requests>>

\* What a request to DTLB or L1D carries along to find its entries again.
Request(queue, entry, slot) ==
  [queue |-> queue, slot |-> slot, rob |-> entry[slot].rob, id |-> entry[slot].id]

\* operate_lsq(), RTS0 and RTL0: a store or a load asks DTLB for its page.
TranslateStore ==
  /\ \E k \in o3.RTS0 : /\ o3' = [o3 EXCEPT !.RTS0 = @ \ {k}]
                        /\ DTLB' = DTLB \cup {Request("SQ", o3.SQ, k)}
  /\ UNCHANGED <<program, ring, inflight_reg, sq_head, RTS1, RTL1, L1D>>
TranslateLoad ==
  /\ \E s \in o3.RTL0 : /\ o3' = [o3 EXCEPT !.RTL0 = @ \ {s}]
                        /\ DTLB' = DTLB \cup {Request("LQ", o3.LQ, s)}
  /\ UNCHANGED <<program, ring, inflight_reg, sq_head, RTS1, RTL1, L1D>>

\* complete_data_fetch(), handle_merged_translation(): a translation arrives.
Translated ==
  /\ \E r \in DTLB : /\ DTLB' = DTLB \ {r}
                     /\ RTS1' = IF r.queue = "SQ" THEN RTS1 \cup {r.slot} ELSE RTS1
                     /\ RTL1' = IF r.queue = "SQ" THEN RTL1 ELSE RTL1 \cup {r.slot}
  /\ UNCHANGED <<program, ring, inflight_reg, sq_head, L1D, o3>>

\* The dependents of the store in SQ entry k whose load of its address has been added.
Consumers(o, k) ==
  {d \in o.rob[o.SQ[k].rob].dependents :
     o.SQ[k].va \in Instr(o, d).loads /\ o.rob[d].lq_index[o.SQ[k].va] # None}
ConsumerSlot(o, k, d) == o.rob[d].lq_index[o.SQ[k].va]

\* The check in execute_store() that a consumer's load names the store as its producer, which
\* it no longer does once another consumer with the same slot was served.
ForwardsMatch(o, k) ==
  \A d \in Consumers(o, k) :
    /\ o.LQ[ConsumerSlot(o, k, d)].producer = o.SQ[k].id
    /\ \A e \in Consumers(o, k) : ConsumerSlot(o, k, d) = ConsumerSlot(o, k, e) => d = e

\* execute_store(): the store is done and forwards to the loads that wait for it.
StoreDone(o, k) == OpDone([o EXCEPT !.SQ[k].fetched = TRUE], o.SQ[k].rob)
execute_store(o, k) ==
  ForEach(StoreDone(o, k), ROB_SIZE, {d + 1 : d \in Consumers(o, k)},
          LAMBDA q, n : Forward(q, ConsumerSlot(o, k, n - 1), o.SQ[k].va))

\* operate_lsq(), RTS1; a check that fails ends the program.
ExecuteStore ==
  /\ \E k \in RTS1 : /\ ForwardsMatch(o3, k)
                     /\ o3' = execute_store(o3, k)
                     /\ RTS1' = RTS1 \ {k}
  /\ UNCHANGED <<program, ring, inflight_reg, sq_head, RTL1, DTLB, L1D>>

\* The last instruction before n that stores to a, 0 if there is none.
LastStore(n, a) ==
  LET stores == {m \in 1 .. n - 1 : a \in program[m].stores}
  IN IF stores = {} THEN 0 ELSE CHOOSE m \in stores : \A k \in stores : k <= m

\* operate_lsq(), RTL1; execute_load(): L1D and its write queue hold what has retired.
ExecuteLoad ==
  /\ \E s \in RTL1 : /\ RTL1' = RTL1 \ {s}
                     /\ L1D' = L1D \cup {Request("LQ", o3.LQ, s)}
                     /\ o3' = Perform(o3, s, LastStore(retired + 1, o3.LQ[s].va))
  /\ UNCHANGED <<program, ring, inflight_reg, sq_head, RTS1, DTLB>>

\* complete_data_fetch(), handle_merged_load(): the data of a load arrives.
Loaded ==
  /\ \E r \in L1D : /\ o3' = release_load_queue(OpDone(o3, r.rob), r.slot)
                    /\ L1D' = L1D \ {r}
  /\ UNCHANGED <<program, ring, inflight_reg, sq_head, RTS1, RTL1, DTLB>>

\* retire_rob(): in order; with room in the write queue of L1D the stores leave.
Retire ==
  /\ o3.rob[head].executed = "COMPLETED"
  /\ LET stores == Instr(o3, head).stores
         released == {o3.rob[head].sq_index[a] : a \in stores}
     IN /\ o3' = [o3 EXCEPT !.SQ = [k \in SqSlots |-> IF k \in released THEN EmptySq ELSE o3.SQ[k]],
                            !.rob[head] = EmptyRob]
        /\ sq_head' = (sq_head + Cardinality(stores)) % SQ_SIZE
  /\ head' = (head + 1) % ROB_SIZE
  /\ retired' = retired + 1
  /\ UNCHANGED <<program, tail, next_schedule, dispatched, inflight_reg, requests>>

Next ==
  \/ Dispatch \/ Schedule \/ Execute \/ Complete \/ ScheduleMemory
  \/ TranslateStore \/ TranslateLoad \/ Translated
  \/ ExecuteStore \/ ExecuteLoad \/ Loaded \/ Retire

\* A cycle calls every stage, and DTLB and L1D answer: some step that can happen does.
\* Every step is progress on a finite trace, so this lets no stage starve.
Fairness == WF_vars(Next)

Spec == Init /\ [][Next]_vars /\ Fairness
-------------------------------------------------------------------------------
(* Properties *)

TypeOK ==
  /\ program \in Programs
  /\ \A i \in RobSlots :
       /\ o3.rob[i].id \in 0 .. Len(program)
       /\ o3.rob[i].scheduled \in {"no", "INFLIGHT", "COMPLETED"}
       /\ o3.rob[i].executed \in {"no", "INFLIGHT", "COMPLETED"}
       /\ o3.rob[i].waits \subseteq RobSlots \X Registers
       /\ o3.rob[i].ops \in Nat
       /\ o3.rob[i].dependents \subseteq RobSlots
  /\ {head, tail, next_schedule} \subseteq RobSlots
  /\ {sq_head, o3.sq_tail} \subseteq SqSlots
  /\ {inflight_reg, o3.inflight_mem} \subseteq Nat
  /\ o3.RTL0 \cup RTL1 \subseteq LqSlots /\ o3.RTS0 \cup RTS1 \subseteq SqSlots

LqOf(o, i) == {s \in LqSlots : o.LQ[s].id = o.rob[i].id}
SqOf(o, i) == {k \in SqSlots : o.SQ[k].id = o.rob[i].id}

\* num_mem_ops of an entry counts exactly the operations that are not added yet, wait in the
\* load queue or have not executed in the store queue, and inflight_mem_executions counts the
\* memory instructions that update_rob() has still to complete: a load that is forwarded
\* by a store, merged or answered is counted down once, whichever of them comes first. And
\* inflight_reg_executions counts the other instructions that execute.
OpsAccounted ==
  /\ \A i \in Live(o3) :
       o3.rob[i].ops =
         Cardinality({a \in Instr(o3, i).loads : o3.rob[i].lq_index[a] = None})
         + Cardinality({a \in Instr(o3, i).stores : o3.rob[i].sq_index[a] = None})
         + Cardinality(LqOf(o3, i)) + Cardinality({k \in SqOf(o3, i) : ~o3.SQ[k].fetched})
  /\ o3.inflight_mem =
       Cardinality({i \in Live(o3) : /\ Memory(o3.rob[i].id) /\ o3.rob[i].ops = 0
                                     /\ o3.rob[i].executed # "COMPLETED"})
  /\ inflight_reg =
       Cardinality({i \in Live(o3) : /\ ~Memory(o3.rob[i].id)
                                     /\ o3.rob[i].executed = "INFLIGHT"})

\* Every load gets the data of the last store before it in the trace, forwarded from the
\* store queue or, when that store has retired, from L1D: the search of add_load_queue()
\* for a producer, the late forwarding of execute_store() and the two rings agree.
LoadsSeeLastStore == \A x \in o3.performed : x[3] = LastStore(x[1], x[2])

\* An instruction executes, or asks for memory, only when the last writer before it of each
\* of its source registers is done, though a nearer writer may be scheduled later,
\* completed out of order or sit below the head on the ring.
SourcesReady ==
  \A i \in Live(o3), j \in Live(o3) :
    (/\ j \in Older(i)
     /\ \E r \in Instr(o3, i).reads \cap Instr(o3, j).writes :
          \A k \in Older(i) \ Older(j) : k # j => r \notin Instr(o3, k).writes
     /\ o3.rob[j].executed # "COMPLETED")
    => o3.rob[i].executed = "no" /\ LqOf(o3, i) = {} /\ SqOf(o3, i) = {}

\* The store queue holds its stores in program order from head to tail without a hole, so
\* that retire_rob(), which empties the entries of its instruction and then moves the head
\* on by their number, empties the ones at the head.
StoreQueueInOrder ==
  LET used == SqSlots \ FreeSq(o3)
      Place(k) == (k - sq_head) % SQ_SIZE
  IN /\ {Place(k) : k \in used} = 0 .. Cardinality(used) - 1
     /\ \A k, m \in used : Place(k) <= Place(m) => o3.SQ[k].id <= o3.SQ[m].id
     /\ (sq_head + Cardinality(used)) % SQ_SIZE = o3.sq_tail

\* What DTLB or L1D holds for the core still names the entry that asked (the check_rob() test
\* of complete_data_fetch()), and an entry of a queue is in one place only: waiting to be
\* translated or executed, in DTLB or L1D, or waiting for its store.
RequestsNameTheirEntries ==
  LET held == DTLB \cup L1D
      Places(s) == <<s \in o3.RTL0, s \in RTL1,
                     \E r \in DTLB : r.queue = "LQ" /\ r.slot = s, \E r \in L1D : r.slot = s,
                     o3.LQ[s].producer # 0>>
  IN /\ \A r \in held :
          /\ o3.rob[r.rob].id = r.id
          /\ Request(r.queue, IF r.queue = "SQ" THEN o3.SQ ELSE o3.LQ, r.slot) = r
     /\ \A s \in LqSlots \ FreeLq(o3) : Cardinality({n \in 1 .. 5 : Places(s)[n]}) = 1

\* The core never deadlocks (main.cc, "check for deadlock"): every instruction retires.
EveryInstructionRetires == <>(retired = Len(program))

\* The assertion of execute_store(): a load that is to be forwarded names the store that
\* executes as its producer.
StoreFindsItsConsumers == \A k \in RTS1 : ForwardsMatch(o3, k)
=============================================================================
