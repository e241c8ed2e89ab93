---------------------------- MODULE DRAMController ----------------------------
(***************************************************************************)
(* One channel of MEMORY_CONTROLLER (src/dram_controller.cc): the read and *)
(* the write queue, the banks, the switches between reading and writing,   *)
(* and its client, the last-level cache, which has one miss per block.     *)
(* The channels share nothing, so one is enough. Time is abstracted: which *)
(* of several due requests is the oldest, whether a request has paid its   *)
(* latency and whether the data bus is free are choices.                   *)
(***************************************************************************)
EXTENDS Integers, FiniteSets

CONSTANTS
  Addresses,          \* the blocks that are accessed; 0 marks an empty entry
  SIZE,               \* entries of each queue
  HIGH_WM, LOW_WM,    \* DRAM_WRITE_HIGH_WM, DRAM_WRITE_LOW_WM
  LOG2_DRAM_BANKS, LOG2_DRAM_COLUMNS, LOG2_DRAM_ROWS

ASSUME AddressAssumption == Addresses \subseteq Nat \ {0}
ASSUME SizeAssumption == SIZE \in [{"RQ", "WQ"} -> Nat \ {0}]
ASSUME WatermarkAssumption ==
  /\ LOW_WM \in Nat /\ HIGH_WM \in Nat
  /\ 0 < LOW_WM /\ LOW_WM <= HIGH_WM /\ HIGH_WM <= SIZE["WQ"]
ASSUME Log2Assumption ==
  LOG2_DRAM_BANKS \in Nat /\ LOG2_DRAM_COLUMNS \in Nat /\ LOG2_DRAM_ROWS \in Nat
\* Arithmetic, for the provers, which do not know the sign of a power.
ASSUME PowerAssumption ==
  /\ 2 ^ LOG2_DRAM_BANKS > 0 /\ 2 ^ LOG2_DRAM_ROWS > 0
  /\ 2 ^ (LOG2_DRAM_BANKS + LOG2_DRAM_COLUMNS) > 0

VARIABLES
  dram,              \* the controller, a record of its members
  warmup_complete,   \* all_warmup_complete >= NUM_CPUS
  miss               \* for each block, what the last-level cache's MSHR says of it

vars == <<dram, warmup_complete, miss>>

Queues == {"RQ", "WQ"}
Slots(q) == 0 .. SIZE[q] - 1
NoIndex == -1     \* request_index of a free bank; next_*_index = SIZE in the code
NoRow == -1       \* UINT32_MAX
Banks == 0 .. 2 ^ LOG2_DRAM_BANKS - 1
Rows == 0 .. 2 ^ LOG2_DRAM_ROWS - 1

dram_get_bank(a) == a % 2 ^ LOG2_DRAM_BANKS
dram_get_row(a) ==
  (a \div 2 ^ (LOG2_DRAM_BANKS + LOG2_DRAM_COLUMNS)) % 2 ^ LOG2_DRAM_ROWS

Empty == [address |-> 0, scheduled |-> FALSE]
FreeBank(row) == [working |-> FALSE, request_index |-> NoIndex, by |-> "none", open_row |-> row]

Init ==
  /\ dram = [queue |-> [q \in Queues |-> [i \in Slots(q) |-> Empty]],
             bank |-> [b \in Banks |-> FreeBank(NoRow)],
             write_mode |-> FALSE,
             scheduled |-> [q \in Queues |-> 0],
             next_schedule |-> [q \in Queues |-> NoIndex],
             next_process |-> [q \in Queues |-> NoIndex]]
  /\ warmup_complete = FALSE
  /\ miss = [a \in Addresses |-> "none"]

TypeOK ==
  /\ dram \in [queue : [Queues -> UNION {[Slots(q) -> [address : Addresses \cup {0},
                                                       scheduled : BOOLEAN]] : q \in Queues}],
               bank : [Banks -> [working : BOOLEAN, by : Queues \cup {"none"},
                                 request_index : (UNION {Slots(q) : q \in Queues}) \cup {NoIndex},
                                 open_row : Rows \cup {NoRow}]],
               write_mode : BOOLEAN,
               scheduled : [Queues -> Nat],
               next_schedule : [Queues -> Int],
               next_process : [Queues -> Int]]
  /\ \A q \in Queues : /\ DOMAIN dram.queue[q] = Slots(q)
                       /\ dram.next_schedule[q] \in Slots(q) \cup {NoIndex}
                       /\ dram.next_process[q] \in Slots(q) \cup {NoIndex}
                       /\ dram.scheduled[q] <= SIZE[q]
  /\ warmup_complete \in BOOLEAN
  /\ miss \in [Addresses -> {"none", "INFLIGHT", "COMPLETED"}]

-------------------------------------------------------------------------------
(* The queues *)

Used(d, q) == {i \in Slots(q) : d.queue[q][i].address # 0}
Scheduled(d, q) == {i \in Used(d, q) : d.queue[q][i].scheduled}
Unscheduled(d, q) == Used(d, q) \ Scheduled(d, q)
BankOf(d, q, i) == dram_get_bank(d.queue[q][i].address)
get_occupancy(d, q) == Cardinality(Used(d, q))

\* The index of the earliest event_cycle among S, any of them here, or none.
Earliest(S) == IF S = {} THEN {NoIndex} ELSE S

\* The results of update_schedule_cycle() and update_process_cycle().
update_schedule_cycle(d, q) ==
  {[d EXCEPT !.next_schedule[q] = i] : i \in Earliest(Unscheduled(d, q))}
update_process_cycle(d, q) ==
  {[d EXCEPT !.next_process[q] = i] : i \in Earliest(Scheduled(d, q))}

check_dram_queue(d, q, a) == \E i \in Slots(q) : d.queue[q][i].address = a

\* The block is stored in the first empty entry; a full queue drops it.
StoreIn(d, q, a) ==
  IF Used(d, q) = Slots(q) THEN d
  ELSE LET slot == CHOOSE i \in Slots(q) \ Used(d, q) :
                     \A j \in Slots(q) \ Used(d, q) : i <= j
       IN [d EXCEPT !.queue[q][slot] = [address |-> a, scheduled |-> FALSE]]

-------------------------------------------------------------------------------
(* Switching, scheduling and processing: sets of the possible results *)

\* Mutant: a reset that frees the banks and forgets the requests.
MutantKeepsScheduled(d, q) ==
  {[d EXCEPT !.bank = [b \in Banks |-> IF b \in {BankOf(d, q, i) : i \in Scheduled(d, q)}
                                       THEN FreeBank(NoRow) ELSE d.bank[b]],
             !.scheduled[q] = 0]}
\* Mutant: a reset that forgets the banks.
MutantKeepsBanks(d, q) ==
  {[d EXCEPT !.queue[q] = [i \in Slots(q) |-> [d.queue[q][i] EXCEPT !.scheduled = FALSE]],
             !.scheduled[q] = 0,
             !.next_process[q] = NoIndex,
             !.next_schedule[q] = CHOOSE i \in Earliest(Used(d, q)) : TRUE]}

\* reset_remain_requests(): the scheduled requests of q give their banks back, with their
\* row open if the column access had begun, and wait again.
reset_remain_requests(d, q) ==
  LET freed == {BankOf(d, q, i) : i \in Scheduled(d, q)}
      Kept(b) == {NoRow} \cup {dram_get_row(d.queue[q][i].address) :
                               i \in {j \in Scheduled(d, q) : BankOf(d, q, j) = b}}
  IN UNION {UNION {UNION {UNION {
       update_process_cycle(d4, "WQ") : d4 \in update_process_cycle(d3, "RQ")} :
         d3 \in update_schedule_cycle(d2, "WQ")} :
           d2 \in update_schedule_cycle(d1, "RQ")} :
             d1 \in {[d EXCEPT
               !.bank = [b \in Banks |-> IF b \in freed THEN FreeBank(open[b]) ELSE d.bank[b]],
               !.scheduled = [k \in Queues |->
                 d.scheduled[k] - Cardinality({b \in freed : d.bank[b].by = k})],
               !.queue[q] = [i \in Slots(q) |-> [d.queue[q][i] EXCEPT !.scheduled = FALSE]]] :
               open \in {f \in [freed -> Rows \cup {NoRow}] : \A b \in freed : f[b] \in Kept(b)}}}

StartsWriting(d) ==
  /\ ~ d.write_mode
  /\ \/ get_occupancy(d, "WQ") >= HIGH_WM
     \/ get_occupancy(d, "RQ") = 0 /\ get_occupancy(d, "WQ") > 0

\* Mutant: any read that waits ends the burst.
MutantStopsForReads(d) ==
  d.write_mode /\ (get_occupancy(d, "WQ") = 0 \/ get_occupancy(d, "RQ") > 0)

StopsWriting(d) ==
  /\ d.write_mode
  /\ \/ get_occupancy(d, "WQ") = 0
     \/ get_occupancy(d, "RQ") > 0 /\ get_occupancy(d, "WQ") < LOW_WM

\* Mutant: the mode changes and the scheduled requests stay.
MutantNoReset(d) ==
  IF StartsWriting(d) THEN {[d EXCEPT !.write_mode = TRUE]}
  ELSE IF StopsWriting(d) THEN {[d EXCEPT !.write_mode = FALSE]}
  ELSE {d}

Switched(d) ==
  IF StartsWriting(d) THEN reset_remain_requests([d EXCEPT !.write_mode = TRUE], "RQ")
  ELSE IF StopsWriting(d) THEN reset_remain_requests([d EXCEPT !.write_mode = FALSE], "WQ")
  ELSE {d}

\* The requests schedule() chooses from: those whose bank is free and has their row open,
\* or, if there is none, those whose bank is free.
Candidates(d, q) ==
  LET free == {i \in Unscheduled(d, q) : ~ d.bank[BankOf(d, q, i)].working}
      hits == {i \in free : d.bank[BankOf(d, q, i)].open_row
                            = dram_get_row(d.queue[q][i].address)}
  IN IF hits # {} THEN hits ELSE free

\* schedule(): the chosen request takes its bank.
Taken(d, q, i) ==
  [d EXCEPT !.bank[BankOf(d, q, i)] =
              [working |-> TRUE, request_index |-> i, by |-> q,
               open_row |-> dram_get_row(d.queue[q][i].address)],
            !.scheduled[q] = @ + 1,
            !.queue[q][i].scheduled = TRUE]

schedule(d, q) ==
  IF d.next_schedule[q] = NoIndex \/ Candidates(d, q) = {} THEN {d}
  ELSE UNION {UNION {update_process_cycle(d1, q) : d1 \in update_schedule_cycle(Taken(d, q, i), q)} :
                i \in Candidates(d, q)}

\* Mutant: the next index is not searched again.
MutantKeepsNext(d, q) ==
  LET i == d.next_process[q]
      b == BankOf(d, q, i)
  IN {[d EXCEPT !.bank[b] = FreeBank(d.bank[b].open_row),
                !.scheduled[q] = @ - 1,
                !.queue[q][i] = Empty]}

\* process() once the latency is paid and the bus is free: the bank is released, with its
\* row left open, and the entry is removed.
Processed(d, q) ==
  LET i == d.next_process[q]
      b == BankOf(d, q, i)
  IN update_process_cycle([d EXCEPT !.bank[b] = FreeBank(d.bank[b].open_row),
                                    !.scheduled[q] = @ - 1,
                                    !.queue[q][i] = Empty], q)

\* return_data() of the last-level cache.
Returned(m, a) == [m EXCEPT ![a] = "COMPLETED"]

-------------------------------------------------------------------------------
(* The operations *)

operate ==
  \E d1 \in Switched(dram) :
    LET q == IF d1.write_mode THEN "WQ" ELSE "RQ"
    IN \E d2 \in schedule(d1, q) :
         /\ \/ dram' = d2 /\ UNCHANGED miss
            \/ /\ d2.next_process[q] # NoIndex
               /\ dram' \in Processed(d2, q)
               /\ miss' = IF q = "RQ" THEN Returned(miss, d2.queue[q][d2.next_process[q]].address)
                                      ELSE miss
         /\ UNCHANGED warmup_complete

\* add_rq(): answered at once before the warm-up ends or from a write that waits; merged
\* with a read that waits; or stored.
add_rq(m, a) ==
  \/ /\ ~ warmup_complete \/ check_dram_queue(dram, "WQ", a)
     /\ miss' = Returned(m, a) /\ UNCHANGED dram
  \/ /\ warmup_complete /\ ~ check_dram_queue(dram, "WQ", a)
     /\ miss' = m
     /\ IF check_dram_queue(dram, "RQ", a) THEN UNCHANGED dram
        ELSE dram' \in update_schedule_cycle(StoreIn(dram, "RQ", a), "RQ")

add_wq(a) ==
  IF ~ warmup_complete \/ check_dram_queue(dram, "WQ", a) THEN UNCHANGED dram
  ELSE dram' \in update_schedule_cycle(StoreIn(dram, "WQ", a), "WQ")

\* Mutant: the cache does not look at the occupancy, and a full queue drops the request.
MutantNoRoomCheck(q) == TRUE

\* The last-level cache allocates a miss and asks for it if the read queue has room.
HasRoom(q) == get_occupancy(dram, q) # SIZE[q]

ReadMiss(a) ==
  /\ miss[a] = "none" /\ HasRoom("RQ")
  /\ add_rq([miss EXCEPT ![a] = "INFLIGHT"], a)
  /\ UNCHANGED warmup_complete

\* It fills a block that has returned, and evicts one if the write queue has room.
Fill(a) ==
  /\ miss[a] = "COMPLETED"
  /\ miss' = [miss EXCEPT ![a] = "none"]
  /\ UNCHANGED <<dram, warmup_complete>>

Evict(a) ==
  /\ HasRoom("WQ") /\ add_wq(a)
  /\ UNCHANGED <<warmup_complete, miss>>

FinishWarmUp ==
  /\ ~ warmup_complete /\ warmup_complete' = TRUE
  /\ UNCHANGED <<dram, miss>>

Client == FinishWarmUp \/ \E a \in Addresses : ReadMiss(a) \/ Fill(a) \/ Evict(a)

Next == operate \/ Client

\* main() calls operate() in every cycle.
Spec == Init /\ [][Next]_vars /\ WF_vars(operate)

-------------------------------------------------------------------------------
(* What makes it correct *)

\* The sanity checks of process() and reset_remain_requests(): a request is scheduled
\* exactly when one bank works for it and knows its index, through every removal, reuse of
\* an entry and switch of mode.
BankServesEntry ==
  /\ \A q \in Queues : \A i \in Scheduled(dram, q) :
       LET b == dram.bank[BankOf(dram, q, i)]
       IN b.working /\ b.by = q /\ b.request_index = i
  /\ \A b \in Banks : dram.bank[b].working =>
       \E q \in Queues : dram.bank[b].request_index \in Scheduled(dram, q)
                         /\ BankOf(dram, q, dram.bank[b].request_index) = b

\* Only requests of the current mode hold banks, so each counter is 0 after its queue was
\* reset, as reset_remain_requests() asserts.
ModeHoldsBanks ==
  /\ \A q \in Queues : dram.scheduled[q] = Cardinality(Scheduled(dram, q))
  /\ dram.scheduled[IF dram.write_mode THEN "RQ" ELSE "WQ"] = 0

\* The cached indices never point to a removed, reused or rescheduled entry, and are unset
\* only if there is nothing to do: a stale one would be processed in the place of another.
NextIndicesFresh ==
  \A q \in Queues : /\ dram.next_schedule[q] \in Earliest(Unscheduled(dram, q))
                    /\ dram.next_process[q] \in Earliest(Scheduled(dram, q))

\* Each miss that waits has one read in the queue and no other read is there: nothing is
\* lost, returned twice or returned to nobody.
MissHasOneRead ==
  \A a \in Addresses :
    Cardinality({i \in Slots("RQ") : dram.queue["RQ"][i].address = a})
      = IF miss[a] = "INFLIGHT" THEN 1 ELSE 0

\* A full write queue, which stalls the fills of the last-level cache, drains whatever
\* reads keep arriving.
FullWriteQueueDrains == get_occupancy(dram, "WQ") = SIZE["WQ"] ~> HasRoom("WQ")
=============================================================================
