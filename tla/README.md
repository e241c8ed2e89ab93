# SandboxPredictor in TLA+

SandboxPredictor is a fork of the ChampSim trace simulator with a family of experimental branch
predictors. This directory holds TLA+ models of its stateful parts, TLC configurations that
check them on small instances, and TLAPS proofs, for every size, of most of their safety. Paths below are relative to `src/ChampSim/`; `MC/` is `branch/mcache_candidates/`, `BP/` is
`branch/bp_candidates/`.

## The system and its parts

A core (`O3_CPU`) reads a trace, asks a branch predictor for each branch and tells it the
outcome, and sends fetches, loads and stores to its caches. `main()` is one loop: in every cycle
it lets each core retire, complete, execute and fetch, then operates each cache, then the
last-level cache and the DRAM. Everything runs in one thread; the hard behaviours are the ones of
hardware: packets of several requesters that wait, merge, are forwarded and return in any order,
queues that fill, and predictions that are trained after the state that made them has moved.

| Part | State | Operations | Talks to | What makes it correct |
|---|---|---|---|---|
| LRU, segmented-LRU and NRU miss caches (`MC/lru.cc`, `segment.cc`, `slru.cc`, `nru.cc`) | entries with age and address, the oldest slot, the last snapshot | access, snapshot, reset, get_idx | called by VIP on every misprediction of its default predictor | the right branch is evicted; a branch is cached once; an index names one branch until the next snapshot |
| VIP (`BP/vip.cc`) | a miss cache, private predictors, a scoreboard, an update counter | predict, update, reset | calls the miss cache and the predictors | each private predictor is trained on what it predicted, although a snapshot inside update moves the indices |
| Loop predictor and LTAGE (`BP/nestloop.cc`, `ltage.cc`) | entries of four ways per set, a history | predict, update, reset | LTAGE calls TAGE beside it | indices stay in the array; one entry per branch; a counted loop predicts its exit |
| TAGE (`BP/tage.cc`, `tagtable.cc`) | tagged tables, history, providers of the last prediction, reset counter | predict, update, reset | calls a base predictor | the provider that predicted is the one trained; new entries only when useful; periodic reset |
| Perceptron (`BP/perceptron.cc`) | weights, two histories, a ring of pending predictions | predict, update, reset | called by VIP and the tournament | predictions and trainings pair up |
| Gshare, tournament (`BP/gshare.cc`, `tournament.cc`) | counters, per-bucket histories, preferences | predict, update, reset | tournament calls two predictors | the outcome is compared with the prediction of the same branch |
| Caches (`src/cache.cc`, `inc/cache.h`) | read, write and prefetch queue, misses (MSHR), lines | four handlers, add_rq, add_wq, add_pq, return_data, prefetch_line | the cache above and below, the core | every miss is answered once; no reader is lost; no stored block is lost; queues never overflow |
| Packet queues (`src/block.cc`) | ring of slots, head, tail, occupancy | check, add, remove | the caches and the core | the ring is a queue |
| DRAM controller (`src/dram_controller.cc`) | queues per channel, banks, read or write mode | operate, schedule, process, add_rq, add_wq | returns to the last-level cache | each read returns once; mode switches starve nobody |
| Core (`src/ooo_cpu.cc`) | fetch buffer, reorder buffer, load and store queue | fetch, schedule, execute, complete, retire | caches, TLBs, predictor | in-order retirement, store-to-load forwarding, every instruction completes |
| Translation and main loop (`src/main.cc`) | page table and its inverse, a queue of pages | va_to_pa with page swap, operate all, deadlock check | invalidates caches and TLBs | the tables stay inverse; a swapped page leaves nothing behind |
| Replacement policies, prefetchers, tracers, stock predictors | tables of heuristics | build options, offline tools | caches | not pursued, see below |

`PROJECT.json` lists these with their status, and, under "hazards", what in each is hard to test.

## The modules

**`LRUMCache`** models `MC/lru.cc`: `entries` and `lru` are the C++ members, `savedState` the
snapshot. `Access` is the whole function: the search for a free slot or a hit, the aging loop up
to the hit's old age, the update of `lru` by the loop, and the new entry. **`StackDistance`** is
what LRU promises without slots: a sequence of branches, most recent first. `ImplementsLRU` maps
the slots to it by age, and covers the phase when the cache is not full, in which invalid entries
age too and share ages. **`LRUMCacheProofs`** holds the proofs.

**`Segment`** has each member function of the C++ class as an operator on a record of entries and
`lru`; **`SLRUMCache`** is the cache of two segments (`MC/slru.cc`), where a hit in the
probationary segment is a remove, an add and, if the protected segment was full, a second add.
**`SegmentedRecency`** is its promise, two recency lists, which `ImplementsSegmentedLRU` shows it
keeps. What each member function leaves of a segment is proved in `VIPProofs`. **`NRUMCache`** is
`MC/nru.cc`; the random choice among entries not used is a nondeterministic one.

**`VIP`** models `BP/vip.cc` over `SLRUMCache`, the cache that `branch/bplog.bpred` deploys, so
that its run checks the segmented cache too. The default and the private predictors are any
predictors: their answers are chosen freely. `waiting[i]` records what private predictor i has
predicted and not been trained on, which a perceptron keeps in a ring of four without checks
(`inc/bp_candidates.h:67-89`). Which of the two answers `predict` returns (`vip.cc:48`) is left out:
no state depends on it. **`VIPProofs`** holds the proofs about VIP and its cache.

**`NestLoop`** models `BP/nestloop.cc` with addresses as numbers, because the index arithmetic is
what may go wrong; **`LTAGE`** puts it beside a TAGE that answers anything. `predict` and
`update` alternate on one branch, as the front end calls them. **`SteadyLoop`**
runs the two on any trace that ends in one loop, for what a loop is promised. **`NestLoopProofs`** holds
the proofs.

**`TAGE`** models `BP/tage.cc` with the tagged tables of `BP/tagtable.cc`: `Predict` looks up the
main and the alternative provider, `UpdateTables` is the whole of `update`, which trains both,
allocates or decays, shifts the history and soft-resets. Numbers that are hashed are sets of bit
positions. The trace has an arbitrary part and then one branch that keeps its outcome. LTAGE takes
TAGE's answer as arbitrary, which contains what `TAGE` answers. **`TAGEProofs`** holds the proofs.

**`CacheHierarchy`** models `src/cache.cc` for one core: L1I and L1D over L2C. A packet keeps what
decides its way: block, type, fill level, the two flags saying which first-level cache wants it,
and the readers merged into it. One action per handler and outcome: hit, miss, merge, fill; each
includes the calls into the other cache, so `ReadMiss` of L1D also enqueues in L2C, merges there,
or is answered from L2C's write queue. `Read`, `Store` and `prefetch_line` are the core and the
prefetchers; `LLCReturns` is the cache below. **`CacheProgress`** adds the bound that in-order
retirement puts on the core, and fairness. **`CacheHierarchyProofs`** holds the proofs about both.

**`DRAMController`** models one channel of `src/dram_controller.cc` with its client, the last-level
cache reduced to one miss per block: `operate` is one of the switch between reads and writes,
`schedule` for a bank and `process` of a scheduled request; `add_rq` and `add_wq` are parts of the
client's `ReadMiss` and `Evict`, because the client acts on their results. The cached indices
`next_schedule` and `next_process` are state, recomputed where the code recomputes them.
**`DRAMProgress`** bounds the requests behind a waiting read, as `CacheProgress` does, and
**`DRAMProofs`** holds the proofs about both.

**`OutOfOrder`** models the back end of `src/ooo_cpu.cc`: the ring of the reorder buffer, register
dependences (`waits`), the load queue, the store queue with the store array `STA`, the rings of
entries ready to translate and to execute (as sets), and the requests that DTLB and L1D hold. What
the loops over memory operations change is one record, `o3`, and the body of a loop is an operator
on it that `ForEach` repeats. It runs a constant set of traces, chosen in `MCOutOfOrder` so that addresses and registers collide.
`performed` records which store each load got its data from; `LastStore` is the sequential machine
that `LoadsSeeLastStore` compares it with. **`Frontend`** models the part before it: reading the
trace, the fetch and the decode buffer, the marks of a line and the stall of a mispredicted
branch; execution and retirement there stand for the back end, and the dispatch of `OutOfOrder`
for the front end. **`OutOfOrderProofs`** and **`FrontendProofs`** hold the proofs about them.

`MC...` modules give the constants values; each `.cfg` is one run.

### Abstractions of the simulator models

- *Time.* `event_cycle` and latencies are dropped: a handler may run at any moment, and a fill may
  take any returned miss. This allows more orders than the cycle counts do, so what holds in the
  model holds for every latency.
  In the core and the DRAM controller likewise: an event that is due, a due bank, and which of
  several due requests is the oldest, are choices. A stage may do one entry at a time, because the
  width that ends its loop, and an entry that is not due yet, may stop it after each.
- *Sets.* Each cache has one set. Blocks of different sets never meet in a line, and meet in
  queues and misses as here.
- *Sizes.* A first-level miss is put into L2C's read queue without a check whether it fits
  (`cache.cc:676`). `QueueSizes` assumes what makes that safe and what `inc/cache.h` provides: L2C's
  read queue holds the misses of both first-level caches.
- *Last-level cache.* It answers each miss of L2C once, at any time. A moment when its queues are
  full is one when the step that needs room does not happen.
- *Stores and words.* L1D's write queue merges only stores to one word; the model queues two
  stores to a block separately, as two words would be. A load forwarded from that queue is
  answered at once and leaves the caches as they were, so it is not an action.
- *PROCESSED.* A finished read is handed to the core in the step that finishes it. The queue has
  ROB_SIZE places and the core takes packets from it every cycle.
- *Rings of the core.* RTS0, RTS1, RTL0 and RTL1 are sets: their entries are due at different
  cycles, DTLB and L1D answer in any order, and no property tells two orders apart.
- *Translation.* ITLB, DTLB and STLB are delays between asking and being answered. The page of a
  fetched instruction is translated when it is read, as `read_from_trace` has it.
- *DRAM.* Channels share nothing and the configuration has one rank, so one channel is modelled.
- *Prefetchers.* What they ask for is a constant set of (cache, block, level); any subset, in any
  order, at any time.

## The runs

States are distinct states; a run takes at most two minutes with two workers.

| Run | Instance | States | What it shows |
|---|---|---|---|
| `miss_caches` | the LRU or the NRU cache of 3 slots, 5 or 4 branches | 196,636 | the inductive invariant of the proofs, slots are stable, the cache implements LRU; in the NRU cache an entry in use is evicted only if all are, and ages keep their order |
| `vip` | 2 segments of 3, 5 interchangeable branches, snapshot every 2 updates, scores -2..1 | 469,156 | a private predictor has at most one open prediction and none survives an update; both age orders are permutations; the cache implements segmented LRU |
| `ltage` | 2 sets of 4 ways, 7 branches, then a loop of one of them | 894,138 | indices stay in the array, a branch trains one entry, a loop gets an entry and keeps it |
| `loop_exit` | a loop of 2 iterations alone, counters of 2 bits | violation | finding 4 |
| `tage` | 2 tables of 2 entries, 2 branches, 4 arbitrary outcomes, soft reset after 4 | 285,651 | a useful entry is replaced by nobody, a wrong prediction makes room in the longer tables, a steady branch is learned |
| `cache` | 2 blocks, one code and data, one data and prefetched to both levels; 1 fetch, 1 load, stores; L1D has 2 misses, L2C 1 and a read queue of 3, else 1 place; 1 operation behind a waiting read | 432,116 | returns find misses, misses are owed exactly one return, readers are carried along, a first-level cache holds a block once, every read is answered |
| `cache_lost_wake_up` | one block, fetched and prefetched as data | violation | finding 1 |
| `dram` | 3 blocks in 2 banks of 2 rows, read queue of 2, write queue of 3, 2 requests behind a waiting read | 50,872 | a scheduled request has its bank and only the current mode holds banks, the cached indices are fresh, each miss has one read, a full write queue drains, a read of the core returns |
| `lsq` | 4 traces of 6 or 7 instructions, reorder buffer of 5, load and store queue of 2 | 12,000 | operations are counted down once and executions counted, loads see the last store, registers are respected, the store queue is in order, answers find their entries, every instruction retires |
| `lsq_forwarding_assertion` | 3 instructions with two stores, one store, two loads | violation | finding 2 |
| `full_load_queue` | 6 instructions, load queue of 6 | violation | finding 3 |
| `frontend` | 5 instructions of 2 lines, fetch buffer of 3, decode buffer and reorder buffer of 2 | 57,189 | a line that is waited for is on its way, a stall has its one branch, the trace drains |

`TypeOK` of `LRUMCache`, `NestLoop`, `NRUMCache`, `CacheHierarchy`, `DRAMController` and
`OutOfOrder`, and `LTAGETypeOK`, describe the state and are checked by no run; each of them
is proved, and for `LRUMCache` it is part of `IndInv`.

*Why the bounds are enough.* Three slots are the least in which an entry can be oldest, youngest
and between; the branches outnumber the slots, so that an evicted branch comes back. In
the loop predictor five tags compete for four ways, two addresses share a tag, and counters of
one bit already saturate. Two tables make TAGE's main and alternative provider and its longer
tables, and one index bit makes the branches alias; four arbitrary outcomes fill an entry's useful
counter and let it decay before the branch becomes steady. In the caches every queue and every
miss file fills up, one line per cache makes every fill an eviction, and two blocks or readers are
what merging, forwarding and eviction relate: handlers compare addresses for equality only. The
DRAM's two rows of a bank give a row conflict, its second bank gives parallel service. The write
queue of three has the high watermark 3 and the low one 2, so that a burst of writes starts full and stops
with scheduled writes left, which the next burst finds. The core's traces are longer than the
reorder buffer, which wraps, and ask for more loads and stores than the queues hold.
Bounds on counters: `max_age`, `max_count` (loop predictor), `MinScore`, `MaxScore`,
`snapInterval` (VIP), `resetPeriod` and `Branches` (TAGE), the queue sizes, `ROBSize` (caches),
`Window` (DRAM), `TRACE_LENGTH` (front end). All but `Branches`, `ROBSize`, `Window` and
`TRACE_LENGTH` are constants of the code made small.

*Deadlock* is checked in the runs of the predictors. In `cache`, `dram`, `lsq` and `frontend`, and
the violations over the same modules, a state without a step is a cycle of `main()` in which
nothing changes, at the end of a trace or in a deadlock of the simulator; the liveness property of
the run tells these apart.

## Fairness

- `CacheProgress`, `DRAMProgress`: `WF(Operate)`: if some handler of some cache (a step of the
  controller) can do something, eventually one does. `main()` calls them in every cycle, so the
  code gives more: each gets its turn. The weak form is enough because work is finite between two
  operations of the core, and the core cannot issue for ever: `retire_rob` retires in order, so at
  most a reorder buffer's worth of operations follows a waiting read (`ROBSize`, `Window`). For `Window`
  this is so of demand reads of one core: a prefetch, the read for a store, and another core's read hold
  back no instruction of this core, and `ReadsReturn` and `FullWriteQueueDrains` say nothing of a trace
  that keeps sending other requests around such a read for ever. Without
  this bound, or the code's order of handlers, a stream of hits could hold up a fill, which the
  simulator cannot do.
- `OutOfOrder`, `Frontend`: `WF(Next)`: every cycle calls each stage, and the caches answer. On a
  finite trace every step that changes the state is progress, so no stage needs fairness of its own.
- `SteadyLoop`: `WF(RunLoop)`, from the loop on: the front end asks for the branch of the loop and
  answers with its outcome, again and again (`ooo_cpu.cc:345-385`).
- `TAGE`: the trace goes on; the step after is always enabled, so `[]<><<TRUE>>_vars` is `WF(Next)`.

## What the code does otherwise than it says

1. `src/cache.cc:768`: a read that merges into a prefetch's miss ORs the fill flags into the entry
   and then overwrites it with the read. If L1D prefetched a block that L1I then fetches, L1D is
   never answered, and a load that joins its miss waits for ever (`cache_lost_wake_up`). The run
   `cache` has no block that is both prefetched by one first-level cache and read by the
   other; nothing else is excluded from it.
2. `src/ooo_cpu.cc:1643`: a store instruction remembers the instructions that depend on it, not
   by which address. With two destinations, a nearer store to one of them and a load of both,
   `execute_store` meets a load that waits for the other store, and its assertion ends the program
   (`lsq_forwarding_assertion`).
3. `src/ooo_cpu.cc:1157`: loads take entries of the load queue in any order and keep them while
   they wait for an older store. They can fill the queue while the store waits for a register of an
   older load that finds no entry: the core stops, which "check for deadlock" (`src/main.cc:866`)
   reports as a deadlock (`full_load_queue`). The traces of `lsq` do not hold this pattern, and not
   that of finding 2.
4. `BP/nestloop.cc:174`: the outcome that completes a loop's count is also a misprediction, which
   kills the entry in the same call. "If loop count is ready, we use it to predict when to exit the
   loop" (117-118), but a count is used only in a living entry, and no exit is ever predicted
   (`loop_exit`). `CountsAreNeverUsed` and `LTAGEIsTAGE` prove how far this goes: at no size and on no
   trace is a count used, and LTAGE, in which a confident loop prediction goes before TAGE's
   (`BP/ltage.cc:16`), answers what TAGE answers.

Also seen while modelling, with the model following the code:

- `BP/vip.cc:74`: at `MAX_SCORE`, a branch that only the default predictor got right moves the score
  towards the private one, since the saturation test and the direction test share a condition
  (`NewScore`).
- `BP/tage.cc:94-97`: the comment says that a weak and correct main prediction must not allocate;
  the code allocates exactly if a weak main prediction is correct. `WrongPredictionMakesRoom` is
  therefore stated for providers that are not weak.
- `BP/tage.cc:136`: `branchCount` is compared for equality and not set back, so there is one soft
  reset, and the alternation of `resetMask` is never used.
- `src/cache.cc:364`: a store that merges into a load's miss leaves the type of the entry `LOAD`,
  and the fill a clean line, though "RFO marks cache line dirty" (`cache.cc:160`).
- In L2C a write-back may fill a block that a miss in flight fills again; nothing in the code
  promises one copy, so `L1HoldsBlockOnce` is stated for the first level.
- `MC/nru.cc:48`: when all entries are in use, the NRU cache evicts slot `lru`, which can be the
  entry used last, because a random victim leaves a gap in the ages.
- `src/ooo_cpu.cc:843-882`: `next_fetch[1]` is never set, so the scan for instructions to schedule ends
  where the ring wraps; `schedule_instruction` goes on there in a later cycle.

## What is proved

All proofs are for every value of the constants under the assumptions of the modules, which say:

- `LRUMCache`, `Segment`: a positive number of slots, `NoPC` not a branch; `VIP`: scores around 0.
- `NestLoop`: addresses are naturals, `num_entries` is 2 to the `idx_len`, the bounds are positive.
- `TAGE`: a branch is a set of bit positions, numbers and sizes of tables are positive.
- `Frontend`: the trace and every buffer have a positive length.
- `DRAMController`: no block has address 0, which marks a free slot; the watermarks are ordered and
  within the write queue, as the `#define`s of `inc/dram_controller.h` are. `PowerAssumption` is
  arithmetic that the provers do not know (a power of 2 is positive), evaluated by TLC in `dram`.
- `CacheHierarchy`: `CoreAssumption` (a reader is a fetch or a load, not both);
  `PrefetchesAssumption` (a prefetch may fill a first-level cache only if that cache asks for it:
  `prefetch_code_line` always asks L1I to fill itself, `ooo_cpu.cc:800`, and the prefetchers of L2C
  fill it or the last level); `QueueSizes` (above: 8 and 16 misses against 32 places).
- `OutOfOrder`: the sizes are positive, and a trace is a sequence of instructions on the addresses from
  1 to `LastAddress` and the registers.

`LRUMCacheProofs`: `Correct` (the inductive invariant), `TypeCorrect`, `EvictsOldest`,
`SavedIndexIsUnambiguous`, `SlotsAreStable` and `RefinesLRU`. The properties are not inductive
alone. `IndInv` adds that slots fill in order (`FilledInOrder`), that the ages of the k valid
entries are 0 to k-1 (`AgesRankUsed`), that no branch has two slots, and that the free slot j has
at least age j (`FreeSlotsAreOld`), although the aging loop moves the free slots' ages too and
makes them collide. The case that needs all of it is the miss that fills the last free slot: the
entry that then reaches the greatest age must be a valid one, the oldest, and `lru` must name it,
for from then on `access` evicts the slot `lru`. The refinement maps slot i to the place its age names;
each `Access` is a move to the front or an insertion of `StackDistance`, a `Snapshot` copies the
order, and every other step is a stutter.

The same module proves the not-recently-used cache, an instance `N` of `NRUMCache` over the same
members: `NRUTypeCorrect`, `NRUEvictsUsedLast`, `NRUAgesKeepOrder`. The first action property
needs that an entry that was hit is valid (`NInv`): the free entry the search of `access` prefers
would otherwise be one that was hit.

`NestLoopProofs`: `NestLoopTypeCorrect`, `IndexStaysInBounds`, `BranchTrainsOneEntry`, `LTAGETypeCorrect`,
and the two that settle finding 4, `CountsAreNeverUsed` and `LTAGEIsTAGE`. `IndInv` of
`NestLoop` says that the history is 0 (from which the index is a multiple of four, and two sets share no
way), every last prediction is "taken", a ready count means age 0, and a branch has one entry: `add` is
called only when no way, dead or alive, has its tag. Each outcome that makes a count ready contradicts the
last prediction, which kills the entry. The two theorems are the defect stated for every size, not a
promise of the code.

`VIPProofs`: `VIPTypeCorrect`, `AgesAlwaysOrderSlots`, `EveryPredictionIsPaired`,
`ProtectedSlotsAreStable`, `RefinesSegmentedLRU`. A segment is good
(`GoodSegment`) if its ages are a permutation, its free slots are older than its valid ones,
`lru` names the oldest, and a branch has one entry. Each member function is shown to keep
that on its own: a `remove` ages its slot to the end, and that is why the `add` that follows finds a free slot.
`GoodCache` adds that no branch is in both segments, without which the move between them, three
calls, could leave a branch twice. Pairing holds because both the question to a
private predictor and its training use the slot of the same snapshot, which the update replaces
only at its end. The refinement lists each segment by age; a call of `access` is one operation on
the two lists, and the hardest case is the hit that moves one branch up and another one down.

`TAGEProofs`: `TAGETypeCorrect`, `UsefulEntriesSurvive`, `WrongPredictionsMakeRoom`. The types alone
are not inductive: `ProvidersDiffer` says that the alternative provider has a shorter history than
the main one, so that an update trains two different tables. The action properties follow from one
argument: an update allocates in one table, chosen among those with longer histories whose entry has
the useful counter 0, and if there is none it lowers the counter of all; training and
the soft reset leave every tag alone.

`FrontendProofs`: `FrontendTypeCorrect`, `LinesAreOwed`, `StallsHaveTheirBranch`. The three together
are inductive. The proof is about one sequence, `Flags`: the unresolved branches of the
reorder buffer, the decode buffer and the fetch buffer, one after the other. Decode and dispatch
move instructions across the borders and leave the sequence as it is, so a stall keeps its
branch, which is the last of the sequence, until execution resolves it. `LineIsOwed` holds
because an instruction is marked only when L1I accepts a request for its line, and each answer
of L1I unmarks every instruction of the line.

`DRAMProofs`: `TypeCorrect`, `BanksServeEntries`, `ModesHoldBanks`, `IndicesAreFresh`,
`MissesHaveOneRead`, and `BoundedClient`, which carries them to `DRAMProgress`. `operate` makes
several calls in one step, so the invariant is stated of the controller record: `Core` (types, banks
and entries point at each other, the counters are exact) holds after every call inside
`operate`, while the cached indices and the mode (`Good`) hold again only at its end. `OneRead` relates
the queue to the client.

`CacheHierarchyProofs`: `CacheTypeCorrect`, `ReturnsFindTheirMiss`, `ReadersAreHeld`,
`L1HoldsBlocksOnce`, `MissesAreOwed`, and `ProgressIsCache`, which carries them to `CacheProgress`. The
invariant is an account between the levels (`Balanced`). For each first-level cache take the
blocks that L2C's read queue, L2C's prefetch queue and L2C's misses hold for it: no block is in two
of them, and the cache has an unanswered miss for each. Every handler moves a block from one to the
next, sends a new one, or answers one. That the read queue of L2C
always has room for a miss (`cache.cc:676` does not ask) follows from the account: its
packets map one to one into first-level misses, which are fewer than its places by `QueueSizes`.
That an account has no debt, every unanswered miss is in one of the three, is the other half, and is not
true of the code in general: it is what finding 1 breaks. `MissesAreOwed` therefore has the hypothesis
`Unshared`, that no block is prefetched into one first-level cache and read through the other. The run
`cache` has such an instance, and `cache_lost_wake_up` one where the hypothesis fails and
a wake-up is lost; the other theorems need no such condition.

`OutOfOrderProofs`: `OrderOfIssue` (an inductive invariant), `SourcesAreReady`,
`StoreQueueStaysInOrder`, `OperationsStayAccounted`, `RequestsKeepTheirEntries`, `LoadsGetTheirData`,
`StoresFindTheirLoads`, `EveryCompletionIsSeen` and `CoreTypeCorrect`. The first invariant is the conjunction of three: `RingOK`, the entries from the head on hold the instructions
from `retired + 1` to `dispatched` in order and the others are empty; `IssueOK`, an entry that is not
scheduled or still waits neither executes nor has an operation in a queue; `WaitsOK`, a scheduled
entry waits for the last writer of each of its sources until that writer is done. The last writer is
defined on the trace (`LastWriter`), the search of `reg_dependency` on the ring: that the nearest
older entry that writes the register and is not done is the last writer, when that one is not done,
follows from `RingOK` (`DependencyIsLastWriter`). The property itself is not inductive, for it says
nothing of an entry that is scheduled and waits; nor would it be if scheduling went out of
order. The memory operations are loops; what each pass keeps, the loop keeps (`ForEach` meets
its recursive function in `LoopExists` and the four lemmas after it), and what a pass does is stated
once as a relation of two cores: `Quiet` (the steps of an operation in the queues, forwarding
included) leaves all that decides the issue alone, and `Advances` gives operations to issued entries only.
The store queue needs `StoresOK` on top: the used entries are the first u places behind the head
(`Filled`), in the order of the trace, which the rest of the store array continues (`InOrder`), and
store queue and reorder buffer name each other (`StoreNames`), an instruction that executes having all
its stores there. `retire_rob` empties the entries that its instruction names and then
moves the head on by the number of its stores: that the two are the same (`ReleasedPlaces`) holds because
the oldest instruction owns an initial part of the queue and has as many stores in it as the trace says.

The accounts (`OpsOK`) stand on both. `Counted` restates the memory part of `OpsAccounted` by address: what an instruction
has left are the addresses whose load is not added or still in its slot (`LoadLeft`), and whose
store is not added or has not executed (`StoreLeft`); with `LoadNames`, which says that a used load
queue entry is the one its reorder buffer entry names, a step takes away one address of one
instruction or none. `lq_index` is stale once a load is released and its slot used again, so `LoadLeft` asks
whether the slot still holds this load, and the two sets map one to one onto the queues only because
an instr_id names one entry (`LeftIs`). `Placed` says where an operation is: a load
without a producer and a store that has not executed are in exactly one of the lists and caches, any other
entry in none, and a request equals the one its slot would make now. That an answer
counts down the right entry and frees a slot nobody else waits for, and that a retiring instruction has no
load left in the queue, are consequences. The loop of `execute_store` needs one fact more, that the
loads it has not come to are still in their slots; it comes from the check the code makes
before it forwards (`ForwardsMatch`), which is why the invariant is indexed by the pass (`ExecuteStoreStays`).

That a load gets the right data (`LoadsGetTheirData`) is the last layer, `DataOK`. `ProducersOK`: an entry of
the load queue waits for the last store before it, or for none when that store has retired, so that
what L1D answers is its data. `DependentsOK`: the list `memory_instrs_depend_on_me` of a store
instruction holds only instructions with a load it is the last store of. `GoneOK`: a load that was added and has
left the queue has its data already, that is, its store has executed; without it a store could find in its list
a dependent whose load was released and whose slot another load has. Only then is `PerformedOK`, the property
itself, inductive. A dependent is listed by instruction and searched by address, so `GoneOK` and `ProducersOK`
meet the assertion of `execute_store` (`StoresFindTheirLoads`) only if the load that is found
is one the store is the last before. That is the hypothesis `Uncrossed`, a
condition on the trace alone: when the last store before one load of an instruction also
writes the address of another of its loads, it is the last store of that one too. An
instruction of one load, or a trace whose stores have one destination each, meets it. The
four traces of `lsq` do; that of `lsq_forwarding_assertion` does not, and there the code ends
in the assertion (finding 2).

`inflight_reg_executions` counts the instructions without memory operations that execute
(`RegsCounted`), as `inflight_mem_executions` counts the memory instructions that are done (`Counted`): a pass
of `schedule_memory_instruction` starts only the latter. So `update_rob`, which looks for done instructions only
while a counter is above 0, overlooks none (`EveryCompletionIsSeen`), and neither counter, nor that of an
instruction's operations, falls below 0 (`CoreTypeCorrect`).

What the proofs changed in the models:

- `TypeOK` of `DRAMController` had a conjunct swallowed by a quantifier and so said less than it
  seemed to; it now says what its layout said.
- `TypeOK` of `CacheHierarchy` says that the queues are functions on `Caches`, and
  `Joined` names what a merge in a read queue does to the packet found there.
- `get_idx` and `get_tag` of `TAGE` are functions, and its action properties name their parts.
  `SegmentedRecency` removes a branch by its place, which is what the refinement proof reasons about.
- The loops of `OutOfOrder` are folds written as recursive functions (`ForEach`), its constants name
  the addresses and registers, and the members that no loop changes are variables of their own.

Only model-checked: liveness (`ReadsAreAnswered`, `ReadsReturn` and the like,
`LearnsSteadyBranch`, `LoopGetsEntry`: `WF` and `ENABLED` are beyond the prover).

## Not modelled, and the plan

Left out of the cache model: TLBs and the last-level cache (the same class with other
neighbours and widths), the `LLC_BYPASS` build option, prefetch metadata, statistics, and
`invalidate_entry`, which a page swap calls. `NumWay` is 1 in the run, so its LRU replacement has
one victim. Left out of the core: `handle_o3_fetch` and the part of `complete_instr_fetch` behind
its return, which nothing reaches, the decoding of trace records and of branch types, and
the latencies.

Not pursued, because the runs are spent on the parts above:

- `Perceptron` and `Tournament` (`BP/perceptron.cc`, `tournament.cc`): their arithmetic. The front end predicts
  a branch and updates with it in turn (`ooo_cpu.cc:345-385`), so their rings hold one prediction;
  `PredictionsArePaired` shows that VIP calls in step, too.
- The page table of `src/main.cc` (`va_to_pa`): the two tables and the queue of pages.
- The ring of `src/block.cc` as an implementation of the sequences that the caches use.
- Tracers (offline I/O), prefetchers and the policies of the last-level cache (their choices are
  arbitrary in the models), the predictors inherited from ChampSim, option parsing and statistics.

