--------------------------- MODULE CacheHierarchy ---------------------------
(***************************************************************************)
(* The private caches of one core, class CACHE of cache.cc: the instruc-   *)
(* tion and data caches L1I and L1D over the second-level cache L2C.       *)
(* operate() calls four handlers on each cache in every cycle; a handler   *)
(* looks at the oldest packet of its queue if its event_cycle has come.    *)
(* Latencies are abstracted: a handler may run at any moment, and the      *)
(* returned miss it fills may be any, so every timing is covered.          *)
(* The last-level cache is the environment: it answers each miss of L2C    *)
(* once, in any order, and a moment when one of its queues is full is a    *)
(* moment when the step that needs the room does not happen.               *)
(***************************************************************************)
EXTENDS Naturals, FiniteSets, Sequences, SequencesExt

CONSTANTS Code, Data,           \* the blocks the core fetches and the blocks it loads and stores
          Fetches, Loads,       \* lines being fetched, and entries of the load queue
          Prefetches,           \* [cache, addr, level]: what this build's prefetchers may ask for
          RQSize, WQSize, PQSize, MSHRSize, NumWay,   \* of each cache
          NoAddr                \* tag of an invalid line, and of an idle reader

Caches == {"L1I", "L1D", "L2C"}
L1 == {"L1I", "L1D"}
Addrs == Code \union Data
Readers == Fetches \union Loads

ASSUME CoreAssumption == NoAddr \notin Addrs /\ Fetches \intersect Loads = {}

\* prefetch_code_line() fills L1I, and no prefetcher of L2C fills a cache above its own.
ASSUME PrefetchesAssumption ==
  /\ Prefetches \subseteq [cache : Caches, addr : Addrs, level : {1, 2}]
  /\ \A p \in Prefetches : IF p.level = 1 THEN p.cache \in L1 ELSE p.cache # "L1I"

\* A miss of the first level must find room in the read queue of L2C.
ASSUME QueueSizes == /\ {RQSize, WQSize, PQSize} \subseteq [Caches -> Nat]
                     /\ {MSHRSize, NumWay} \subseteq [Caches -> Nat \ {0}]
                     /\ MSHRSize["L1I"] + MSHRSize["L1D"] <= RQSize["L2C"]

VARIABLES RQ, WQ, PQ,   \* the queues of each cache: sequences of packets, oldest first
          MSHR,         \* the misses each cache waits for: sets of packets
          block,        \* the lines of each cache (one set): tag, dirty bit and lru position
          waiting       \* the block each reader of the core waits for

vars == <<RQ, WQ, PQ, MSHR, block, waiting>>

fill_level == [c \in Caches |-> IF c \in L1 THEN 1 ELSE 2]
Types == {"LOAD", "RFO", "PREFETCH", "WRITEBACK"}

\* dep: the readers merged into this packet (lq_index_depend_on_me, rob_index_depend_on_me).
Packet == [addr : Addrs, type : Types, fill_level : {1, 2}, fill_l1i : BOOLEAN,
           fill_l1d : BOOLEAN, returned : BOOLEAN, dep : SUBSET Readers]
Line(c) == [addr : Addrs \union {NoAddr}, dirty : BOOLEAN, lru : 0 .. NumWay[c] - 1]

Request(a, type, level, i, d, dep) ==
  [addr |-> a, type |-> type, fill_level |-> level, fill_l1i |-> i, fill_l1d |-> d,
   returned |-> FALSE, dep |-> dep]

TypeOK ==
  /\ {RQ, WQ, PQ} \subseteq [Caches -> Seq(Packet)]
  /\ MSHR \in [Caches -> SUBSET Packet] /\ DOMAIN block = Caches
  /\ \A c \in Caches : /\ Len(RQ[c]) <= RQSize[c] /\ Len(WQ[c]) <= WQSize[c]
                       /\ Len(PQ[c]) <= PQSize[c] /\ Cardinality(MSHR[c]) <= MSHRSize[c]
                       /\ \A e, f \in MSHR[c] : e.addr = f.addr => e = f
                       /\ block[c] \in [1 .. NumWay[c] -> Line(c)]
                       /\ {block[c][w].lru : w \in 1 .. NumWay[c]} = 0 .. NumWay[c] - 1
  /\ waiting \in [Readers -> Addrs \union {NoAddr}]

Init ==
  /\ RQ = [c \in Caches |-> << >>]
  /\ WQ = [c \in Caches |-> << >>]
  /\ PQ = [c \in Caches |-> << >>]
  /\ MSHR = [c \in Caches |-> {}]
  /\ block = [c \in Caches |-> [w \in 1 .. NumWay[c] |-> [addr |-> NoAddr, dirty |-> FALSE, lru |-> w - 1]]]
  /\ waiting = [r \in Readers |-> NoAddr]

-----------------------------------------------------------------------------
(* Lines.                                                                  *)

Ways(c, a) == {w \in 1 .. NumWay[c] : block[c][w].addr = a}
check_hit(c, a) == Ways(c, a) # {}
HitWay(c, a) == CHOOSE w \in Ways(c, a) : \A v \in Ways(c, a) : w <= v

lru_victim(c) ==
  IF check_hit(c, NoAddr) THEN HitWay(c, NoAddr)
  ELSE CHOOSE w \in 1 .. NumWay[c] : block[c][w].lru = NumWay[c] - 1

lru_update(lines, way) ==
  [w \in DOMAIN lines |-> [lines[w] EXCEPT !.lru = IF w = way THEN 0
                                                   ELSE IF @ < lines[way].lru THEN @ + 1 ELSE @]]

fill_cache(c, way, a, dirty) ==
  lru_update([block[c] EXCEPT ![way].addr = a, ![way].dirty = dirty], way)

(* Misses.                                                                 *)

MutantInflightOnly(c, a) == \E e \in MSHR[c] : e.addr = a /\ ~ e.returned
check_mshr(c, a) == \E e \in MSHR[c] : e.addr = a
HasRoom(c) == Cardinality(MSHR[c]) < MSHRSize[c]
add_mshr(m, c, p) == [m EXCEPT ![c] = @ \union {[p EXCEPT !.returned = FALSE]}]
Completed(entries, a) == {IF e.addr = a THEN [e EXCEPT !.returned = TRUE] ELSE e : e \in entries}

\* What every hit, fill and forward does when the packet is to be filled above this cache.
return_data(m, c, p) ==
  IF p.fill_level < fill_level[c]
    THEN [m EXCEPT !["L1I"] = IF p.fill_l1i THEN Completed(@, p.addr) ELSE @,
                   !["L1D"] = IF p.fill_l1d THEN Completed(@, p.addr) ELSE @]
    ELSE m

Lesser(x, y) == IF x < y THEN x ELSE y
MutantLevelOnly(e, p) == [e EXCEPT !.fill_level = Lesser(@, p.fill_level)]
Widened(e, p) == [e EXCEPT !.fill_level = Lesser(@, p.fill_level),
                           !.fill_l1i = @ \/ p.fill_l1i, !.fill_l1d = @ \/ p.fill_l1d]

MutantDropsReader(e, p) == IF e.type = "PREFETCH" THEN [p EXCEPT !.returned = e.returned] ELSE Widened(e, p)

\* A read or a store that finds its miss in flight: a prefetch entry is overwritten.
Merged(e, p) ==
  IF e.type = "PREFETCH" THEN [p EXCEPT !.returned = e.returned]
  ELSE [Widened(e, p) EXCEPT !.dep = @ \union p.dep]

MergeMSHR(c, p) == [MSHR EXCEPT ![c] = {IF e.addr = p.addr THEN Merged(e, p) ELSE e : e \in @}]

(* Queues.                                                                 *)

check_queue(q, a) == \E i \in DOMAIN q : q[i].addr = a
Where(q, a) == CHOOSE i \in DOMAIN q : q[i].addr = a

MutantKeepsFlags(q, c, p) ==
  IF check_queue(q, p.addr) THEN [q EXCEPT ![Where(q, p.addr)].dep = @ \union p.dep]
  ELSE IF Len(q) < RQSize[c] THEN Append(q, p) ELSE q

Joined(e, p) == [e EXCEPT !.fill_l1i = @ \/ p.fill_l1i, !.fill_l1d = @ \/ p.fill_l1d,
                          !.dep = @ \union p.dep]

EnqueueRead(q, c, p) ==
  IF check_queue(q, p.addr) THEN [q EXCEPT ![Where(q, p.addr)] = Joined(@, p)]
  ELSE IF Len(q) < RQSize[c] THEN Append(q, p) ELSE q

EnqueuePrefetch(q, c, p) ==
  IF check_queue(q, p.addr) THEN [q EXCEPT ![Where(q, p.addr)] = Widened(@, p)]
  ELSE IF Len(q) < PQSize[c] THEN Append(q, p) ELSE q

\* A request that L2C finds in its write queue is answered at once.
Forwarded(c, p) == c \in L1 /\ check_queue(WQ["L2C"], p.addr)
Below(p) == [p EXCEPT !.dep = {}]

add_rq(m, q, c, p) ==
  /\ MSHR' = IF Forwarded(c, p) THEN return_data(m, "L2C", p) ELSE m
  /\ RQ' = IF c \in L1 /\ ~ Forwarded(c, p)
             THEN [q EXCEPT !["L2C"] = EnqueueRead(@, "L2C", Below(p))] ELSE q

add_pq(m, q, c, p) ==
  /\ MSHR' = IF Forwarded(c, p) THEN return_data(m, "L2C", p) ELSE m
  /\ PQ' = IF c \in L1 /\ ~ Forwarded(c, p)
             THEN [q EXCEPT !["L2C"] = EnqueuePrefetch(@, "L2C", Below(p))] ELSE q

\* The victim of a fill: a dirty one needs room in the write queue below.
add_wq(a) ==
  IF check_queue(WQ["L2C"], a) THEN WQ["L2C"]
  ELSE Append(WQ["L2C"], Request(a, "WRITEBACK", 2, FALSE, FALSE, {}))

CanEvict(c, way) == c = "L2C" \/ ~ block[c][way].dirty \/ Len(WQ["L2C"]) < WQSize["L2C"]

EvictInto(c, way) ==
  IF c = "L1D" /\ block[c][way].dirty THEN [WQ EXCEPT !["L2C"] = add_wq(block[c][way].addr)] ELSE WQ

\* Readers whose packet went to PROCESSED no longer wait.
Answered(dep) == [r \in Readers |-> IF r \in dep THEN NoAddr ELSE waiting[r]]

-----------------------------------------------------------------------------
(* The core and the prefetchers.                                           *)

\* fetch_instruction() and execute_load(): a full read queue is tried again. A load that
\* L1D forwards from its write queue is answered at once and changes nothing here.
Read(c, r, a, i, d) ==
  /\ waiting[r] = NoAddr
  /\ check_queue(RQ[c], a) \/ Len(RQ[c]) < RQSize[c]
  /\ waiting' = [waiting EXCEPT ![r] = a]
  /\ RQ' = [RQ EXCEPT ![c] = EnqueueRead(@, c, Request(a, "LOAD", 1, i, d, {r}))]
  /\ UNCHANGED <<WQ, PQ, MSHR, block>>

Fetch(r, a) == (\A s \in Fetches : waiting[s] # a) /\ Read("L1I", r, a, TRUE, FALSE)
Load(r, a) == Read("L1D", r, a, FALSE, TRUE)

\* retire_rob(). The write queue of L1D merges stores to one word only, so two stores to
\* a block may both be queued.
Store(a) ==
  /\ Len(WQ["L1D"]) < WQSize["L1D"]
  /\ WQ' = [WQ EXCEPT !["L1D"] = Append(@, Request(a, "RFO", 1, FALSE, TRUE, {}))]
  /\ UNCHANGED <<RQ, PQ, MSHR, block, waiting>>

\* prefetch_line() and prefetch_code_line(), called by whatever prefetchers are built in.
prefetch_line(p) ==
  /\ Len(PQ[p.cache]) < PQSize[p.cache]
  /\ p.cache = "L2C" => ~ check_queue(WQ["L2C"], p.addr)
  /\ PQ' = [PQ EXCEPT ![p.cache] = EnqueuePrefetch(@, p.cache,
       Request(p.addr, "PREFETCH", p.level, p.cache = "L1I", p.cache # "L1I" /\ p.level = 1, {}))]
  /\ UNCHANGED <<RQ, WQ, MSHR, block, waiting>>

-----------------------------------------------------------------------------
(* handle_fill: a returned miss takes the place of a victim.               *)

Fill(c, e) ==
  LET way == lru_victim(c) IN
  /\ e.returned /\ CanEvict(c, way)
  /\ WQ' = EvictInto(c, way)
  /\ block' = [block EXCEPT ![c] = fill_cache(c, way, e.addr, c = "L1D" /\ e.type = "RFO")]
  /\ MSHR' = return_data([MSHR EXCEPT ![c] = @ \ {e}], c, e)
  /\ waiting' = Answered(e.dep)
  /\ UNCHANGED <<RQ, PQ>>

handle_fill(c) == \E e \in MSHR[c] : Fill(c, e)

(* handle_writeback: stores in L1D, dirty victims of L1D in L2C.           *)


WriteHit(c, p) ==
  /\ check_hit(c, p.addr)
  /\ block' = [block EXCEPT ![c] = LET way == HitWay(c, p.addr)
                                       dirtied == [@ EXCEPT ![way].dirty = TRUE] IN
                                   IF p.type = "WRITEBACK" THEN dirtied ELSE lru_update(dirtied, way)]
  /\ WQ' = [WQ EXCEPT ![c] = Tail(@)]
  /\ UNCHANGED <<RQ, PQ, MSHR, waiting>>

WriteMiss(c, p) ==
  /\ c = "L1D" /\ ~ check_hit(c, p.addr) /\ ~ check_mshr(c, p.addr) /\ HasRoom(c)
  /\ add_rq(add_mshr(MSHR, c, p), RQ, c, p)
  /\ WQ' = [WQ EXCEPT ![c] = Tail(@)]
  /\ UNCHANGED <<PQ, block, waiting>>

WriteMerge(c, p) ==
  /\ c = "L1D" /\ ~ check_hit(c, p.addr) /\ check_mshr(c, p.addr)
  /\ MSHR' = MergeMSHR(c, p)
  /\ WQ' = [WQ EXCEPT ![c] = Tail(@)]
  /\ UNCHANGED <<RQ, PQ, block, waiting>>

WriteFill(c, p) ==
  LET way == lru_victim(c) IN
  /\ c # "L1D" /\ ~ check_hit(c, p.addr)
  /\ block' = [block EXCEPT ![c] = fill_cache(c, way, p.addr, TRUE)]
  /\ WQ' = [WQ EXCEPT ![c] = Tail(@)]
  /\ UNCHANGED <<RQ, PQ, MSHR, waiting>>

handle_writeback(c) == WQ[c] # << >> /\ LET p == Head(WQ[c]) IN
  WriteHit(c, p) \/ WriteMiss(c, p) \/ WriteMerge(c, p) \/ WriteFill(c, p)

(* handle_read: one round of its loop.                                     *)

ReadHit(c, p) ==
  /\ check_hit(c, p.addr)
  /\ block' = [block EXCEPT ![c] = lru_update(@, HitWay(c, p.addr))]
  /\ MSHR' = return_data(MSHR, c, p)
  /\ RQ' = [RQ EXCEPT ![c] = Tail(@)]
  /\ waiting' = Answered(p.dep)
  /\ UNCHANGED <<WQ, PQ>>

ReadMiss(c, p) ==
  /\ ~ check_hit(c, p.addr) /\ ~ check_mshr(c, p.addr) /\ HasRoom(c)
  /\ add_rq(add_mshr(MSHR, c, p), [RQ EXCEPT ![c] = Tail(@)], c, p)
  /\ UNCHANGED <<WQ, PQ, block, waiting>>

ReadMerge(c, p) ==
  /\ ~ check_hit(c, p.addr) /\ check_mshr(c, p.addr)
  /\ MSHR' = MergeMSHR(c, p)
  /\ RQ' = [RQ EXCEPT ![c] = Tail(@)]
  /\ UNCHANGED <<WQ, PQ, block, waiting>>

handle_read(c) == RQ[c] # << >> /\ LET p == Head(RQ[c]) IN
  ReadHit(c, p) \/ ReadMiss(c, p) \/ ReadMerge(c, p)

(* handle_prefetch: one round of its loop.                                 *)

PrefetchHit(c, p) ==
  /\ check_hit(c, p.addr)
  /\ block' = [block EXCEPT ![c] = lru_update(@, HitWay(c, p.addr))]
  /\ MSHR' = return_data(MSHR, c, p)
  /\ PQ' = [PQ EXCEPT ![c] = Tail(@)]
  /\ UNCHANGED <<RQ, WQ, waiting>>

MutantAboveOnly(c, p) == p.fill_level < fill_level[c]
FilledHere(c, p) == p.fill_level <= fill_level[c]

PrefetchMiss(c, p) ==
  /\ ~ check_hit(c, p.addr) /\ ~ check_mshr(c, p.addr) /\ HasRoom(c)
  /\ c \in L1 => Len(PQ["L2C"]) < PQSize["L2C"]
  /\ add_pq(IF FilledHere(c, p) THEN add_mshr(MSHR, c, p) ELSE MSHR,
            [PQ EXCEPT ![c] = Tail(@)], c, p)
  /\ UNCHANGED <<RQ, WQ, block, waiting>>

PrefetchMerge(c, p) ==
  /\ ~ check_hit(c, p.addr) /\ check_mshr(c, p.addr)
  /\ MSHR' = [MSHR EXCEPT ![c] = {IF e.addr = p.addr THEN Widened(e, p) ELSE e : e \in @}]
  /\ PQ' = [PQ EXCEPT ![c] = Tail(@)]
  /\ UNCHANGED <<RQ, WQ, block, waiting>>

handle_prefetch(c) == PQ[c] # << >> /\ LET p == Head(PQ[c]) IN
  PrefetchHit(c, p) \/ PrefetchMiss(c, p) \/ PrefetchMerge(c, p)

\* The last-level cache answers a miss of L2C.
LLCReturns(a) ==
  /\ \E e \in MSHR["L2C"] : e.addr = a /\ ~ e.returned
  /\ MSHR' = [MSHR EXCEPT !["L2C"] = Completed(@, a)]
  /\ UNCHANGED <<RQ, WQ, PQ, block, waiting>>

CoreStep ==
  \/ \E r \in Fetches, a \in Code : Fetch(r, a)
  \/ \E r \in Loads, a \in Data : Load(r, a)
  \/ \E a \in Data : Store(a)
  \/ \E p \in Prefetches : prefetch_line(p)

\* main() operates every cache in every cycle.
operate(c) == handle_fill(c) \/ handle_writeback(c) \/ handle_read(c) \/ handle_prefetch(c)
CacheStep == (\E c \in Caches : operate(c)) \/ (\E a \in Addrs : LLCReturns(a))

Next == CoreStep \/ CacheStep

Spec == Init /\ [][Next]_vars

-----------------------------------------------------------------------------
(* Properties.                                                             *)

Wants(c, p) == p.fill_level = 1 /\ IF c = "L1I" THEN p.fill_l1i ELSE p.fill_l1d

\* The packets of L2C that will return a block to first-level cache c.
Owed(c) == {p \in ToSet(RQ["L2C"]) \union ToSet(PQ["L2C"]) \union MSHR["L2C"] : Wants(c, p)}

\* The assertion of return_data(): whatever L2C is about to return to a first-level cache
\* finds the miss that waits for it.
ReturnFindsMiss == \A c \in L1 : \A p \in Owed(c) :
  \E e \in MSHR[c] : e.addr = p.addr /\ ~ e.returned

\* No lost wake-up: every miss in flight at the first level is owed by L2C, whatever was
\* merged on the way, and by one packet only.
MissIsOwed == \A c \in L1 : \A e \in MSHR[c] :
  ~ e.returned => /\ \E p \in Owed(c) : p.addr = e.addr
                  /\ Cardinality({p \in Owed(c) : p.addr = e.addr}) = 1

\* A reader of the core that waits is named by a packet of its cache: merging a read into
\* another, or into a prefetch, drops no reader.
ReaderIsHeld == \A r \in Readers : waiting[r] # NoAddr =>
  LET c == IF r \in Fetches THEN "L1I" ELSE "L1D" IN
  \E p \in ToSet(RQ[c]) \union MSHR[c] : p.addr = waiting[r] /\ r \in p.dep

\* A first-level cache holds a block once, and never a block it still waits for.
L1HoldsBlockOnce == \A c \in L1, a \in Addrs :
  Cardinality(Ways(c, a)) + Cardinality({e \in MSHR[c] : e.addr = a}) <= 1

=============================================================================
