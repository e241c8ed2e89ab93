------------------------ MODULE CacheHierarchyProofs ------------------------
(***************************************************************************)
(* Proofs about CacheHierarchy for every set of blocks, readers and        *)
(* prefetches and every size of the caches.                                *)
(***************************************************************************)
EXTENDS CacheProgress, FiniteSetTheorems, WellFoundedInduction, TLAPS

LEMMA Sizes ==
  /\ RQSize \in [Caches -> Nat] /\ WQSize \in [Caches -> Nat] /\ PQSize \in [Caches -> Nat]
  /\ MSHRSize \in [Caches -> Nat] /\ NumWay \in [Caches -> Nat \ {0}]
BY QueueSizes

(***************************************************************************)
(* The inductive invariant.                                                *)
(***************************************************************************)
Flag(d, p) == IF d = "L1I" THEN p.fill_l1i ELSE p.fill_l1d

Blocks(d) == IF d = "L1I" THEN Code ELSE Data
Prefetched(d) == {p.addr : p \in {x \in Prefetches : x.cache = d /\ x.level = 1}}

\* A packet of a first-level cache fills that cache only.
MayFill(c, d) == c \in L1 => d = c

\* What the queues and the misses of cache c hold.
ReadOf(c, p) ==
  /\ p \in Packet /\ p.fill_level = 1 /\ p.type # "PREFETCH"
  /\ \E d \in L1 : Flag(d, p)
  /\ \A d \in L1 : Flag(d, p) => MayFill(c, d) /\ p.addr \in Blocks(d)

PrefetchOf(c, p) ==
  /\ p \in Packet /\ p.type = "PREFETCH" /\ p.dep = {}
  /\ p.fill_level = 1 <=> \E d \in L1 : Flag(d, p)
  /\ \A d \in L1 : Flag(d, p) => MayFill(c, d) /\ p.addr \in Prefetched(d)

MissOf(c, e) ==
  /\ e \in Packet /\ (c \in L1 => e.fill_level = 1)
  /\ e.fill_level = 1 <=> \E d \in L1 : Flag(d, e)
  /\ \A d \in L1 : Flag(d, e) => MayFill(c, d)
  /\ e.type = "PREFETCH" => e.dep = {} /\ \A d \in L1 : Flag(d, e) => e.addr \in Prefetched(d)

LEMMA Levels == fill_level["L1I"] = 1 /\ fill_level["L1D"] = 1 /\ fill_level["L2C"] = 2
BY DEF fill_level, Caches, L1

LEMMA PacketParts ==
  ASSUME NEW p \in Packet
  PROVE  /\ p.addr \in Addrs /\ p.type \in Types /\ p.fill_level \in {1, 2}
         /\ p.fill_l1i \in BOOLEAN /\ p.fill_l1d \in BOOLEAN
         /\ p.returned \in BOOLEAN /\ p.dep \subseteq Readers
BY DEF Packet

LEMMA LesserIs ==
  ASSUME NEW x \in {1, 2}, NEW y \in {1, 2}
  PROVE  Lesser(x, y) \in {1, 2} /\ (Lesser(x, y) = 1 <=> x = 1 \/ y = 1)
BY DEF Lesser

LEMMA WidenedIs ==
  ASSUME NEW e \in Packet, NEW p \in Packet
  PROVE  LET w == Widened(e, p)
         IN  /\ w \in Packet
             /\ w.addr = e.addr /\ w.type = e.type /\ w.dep = e.dep /\ w.returned = e.returned
             /\ w.fill_level = 1 <=> e.fill_level = 1 \/ p.fill_level = 1
             /\ \A d \in L1 : Flag(d, w) <=> Flag(d, e) \/ Flag(d, p)
<1> DEFINE w == Widened(e, p)
           l == Lesser(e.fill_level, p.fill_level)
           i == e.fill_l1i \/ p.fill_l1i
           d == e.fill_l1d \/ p.fill_l1d
<1>1. l \in {1, 2} /\ (l = 1 <=> e.fill_level = 1 \/ p.fill_level = 1)
  BY PacketParts, LesserIs
<1>2. i \in BOOLEAN /\ d \in BOOLEAN
  OBVIOUS
<1>3. w = [e EXCEPT !.fill_level = l, !.fill_l1i = i, !.fill_l1d = d]
  BY Zenon DEF Widened
<1>4. /\ w \in Packet /\ w.addr = e.addr /\ w.type = e.type /\ w.dep = e.dep
      /\ w.returned = e.returned /\ w.fill_level = l
      /\ w.fill_l1i = i /\ w.fill_l1d = d
  <2> HIDE DEF l, i, d, w
  <2> QED
    BY <1>1, <1>2, <1>3 DEF Packet
<1> HIDE DEF w
<1>5. \A c \in L1 : Flag(c, w) <=> Flag(c, e) \/ Flag(c, p)
  BY Zenon, <1>4 DEF Flag
<1> QED
  BY <1>1, <1>4, <1>5 DEF w

(* A read that merges into a miss leaves a miss that holds its readers.    *)
LEMMA MergedIs ==
  ASSUME NEW c \in Caches, NEW e, MissOf(c, e), NEW p, ReadOf(c, p), e.addr = p.addr
  PROVE  LET m == Merged(e, p)
         IN  /\ MissOf(c, m) /\ m.addr = e.addr /\ m.returned = e.returned
             /\ e.dep \union p.dep \subseteq m.dep
             /\ \A d \in L1 : Flag(d, p) => Flag(d, m)
             /\ \A d \in L1 : Flag(d, m) => Flag(d, e) \/ Flag(d, p)
             /\ e.type # "PREFETCH" => \A d \in L1 : Flag(d, e) => Flag(d, m)
<1> DEFINE m == Merged(e, p)
<1>0. e \in Packet /\ p \in Packet
  BY DEF MissOf, ReadOf
<1>1. CASE e.type = "PREFETCH"
  <2> DEFINE n == [p EXCEPT !.returned = e.returned]
  <2>1. m = n
    BY <1>1 DEF Merged
  <2>2. /\ n \in Packet /\ n.addr = p.addr /\ n.type = p.type /\ n.dep = p.dep
        /\ n.returned = e.returned /\ n.fill_level = p.fill_level
        /\ n.fill_l1i = p.fill_l1i /\ n.fill_l1d = p.fill_l1d
    <3>1. e.returned \in BOOLEAN
      BY <1>0, PacketParts
    <3> QED
      BY <1>0, <3>1 DEF Packet
  <2> HIDE DEF n, m
  <2>3. \A d \in L1 : Flag(d, n) <=> Flag(d, p)
    BY Zenon, <2>2 DEF Flag
  <2>4. e.dep = {}
    BY <1>1 DEF MissOf
  <2>5. MissOf(c, n)
    BY <2>2, <2>3 DEF MissOf, ReadOf
  <2> QED
    BY <1>1, <2>1, <2>2, <2>3, <2>4, <2>5 DEF m
<1>2. CASE e.type # "PREFETCH"
  <2> DEFINE w == Widened(e, p)
             n == [w EXCEPT !.dep = w.dep \union p.dep]
  <2>1. m = n
    BY <1>2 DEF Merged
  <2>2. /\ w \in Packet
        /\ w.addr = e.addr /\ w.type = e.type /\ w.dep = e.dep /\ w.returned = e.returned
        /\ w.fill_level = 1 <=> e.fill_level = 1 \/ p.fill_level = 1
        /\ \A d \in L1 : Flag(d, w) <=> Flag(d, e) \/ Flag(d, p)
    BY <1>0, WidenedIs
  <2> HIDE DEF w
  <2>3. /\ n \in Packet /\ n.addr = e.addr /\ n.type = e.type /\ n.dep = e.dep \union p.dep
        /\ n.returned = e.returned /\ n.fill_level = w.fill_level
        /\ n.fill_l1i = w.fill_l1i /\ n.fill_l1d = w.fill_l1d
    <3>1. w.dep \union p.dep \in SUBSET Readers
      BY <1>0, <2>2, PacketParts
    <3> QED
      BY <2>2, <3>1 DEF Packet
  <2> HIDE DEF n, m
  <2>4. \A d \in L1 : Flag(d, n) <=> Flag(d, e) \/ Flag(d, p)
    <3>1. \A d \in L1 : Flag(d, n) <=> Flag(d, w)
      BY Zenon, <2>3 DEF Flag
    <3> QED
      BY <2>2, <3>1
  <2>5. MissOf(c, n)
    BY <1>2, <2>2, <2>3, <2>4 DEF MissOf, ReadOf
  <2> QED
    BY <1>2, <2>1, <2>3, <2>4, <2>5 DEF m
<1> QED
  BY <1>1, <1>2

(* So does a prefetch that merges into a miss.                             *)
LEMMA WidenedMiss ==
  ASSUME NEW c \in Caches, NEW e, MissOf(c, e), NEW p, PrefetchOf(c, p), e.addr = p.addr
  PROVE  LET w == Widened(e, p)
         IN  /\ MissOf(c, w) /\ w.addr = e.addr /\ w.returned = e.returned /\ w.dep = e.dep
             /\ \A d \in L1 : Flag(d, w) <=> Flag(d, e) \/ Flag(d, p)
<1> DEFINE w == Widened(e, p)
<1>1. e \in Packet /\ p \in Packet
  BY DEF MissOf, PrefetchOf
<1>2. /\ w \in Packet
      /\ w.addr = e.addr /\ w.type = e.type /\ w.dep = e.dep /\ w.returned = e.returned
      /\ w.fill_level = 1 <=> e.fill_level = 1 \/ p.fill_level = 1
      /\ \A d \in L1 : Flag(d, w) <=> Flag(d, e) \/ Flag(d, p)
  BY <1>1, WidenedIs
<1> HIDE DEF w
<1>3. MissOf(c, w)
  BY <1>2 DEF MissOf, PrefetchOf
<1> QED
  BY <1>2, <1>3 DEF w

(* And a prefetch that merges into a queued one leaves a prefetch.         *)
LEMMA WidenedPrefetch ==
  ASSUME NEW c \in Caches, NEW e, PrefetchOf(c, e), NEW p, PrefetchOf(c, p), e.addr = p.addr
  PROVE  LET w == Widened(e, p)
         IN  /\ PrefetchOf(c, w) /\ w.addr = e.addr
             /\ \A d \in L1 : Flag(d, w) <=> Flag(d, e) \/ Flag(d, p)
<1> DEFINE w == Widened(e, p)
<1>1. e \in Packet /\ p \in Packet
  BY DEF PrefetchOf
<1>2. /\ w \in Packet
      /\ w.addr = e.addr /\ w.type = e.type /\ w.dep = e.dep /\ w.returned = e.returned
      /\ w.fill_level = 1 <=> e.fill_level = 1 \/ p.fill_level = 1
      /\ \A d \in L1 : Flag(d, w) <=> Flag(d, e) \/ Flag(d, p)
  BY <1>1, WidenedIs
<1> HIDE DEF w
<1>3. PrefetchOf(c, w)
  BY <1>2 DEF PrefetchOf
<1> QED
  BY <1>2, <1>3 DEF w

(***************************************************************************)
(* The misses of a cache.                                                  *)
(***************************************************************************)
MissSet(c, S) ==
  /\ IsFiniteSet(S) /\ Cardinality(S) <= MSHRSize[c]
  /\ \A e \in S : MissOf(c, e)
  /\ \A e, f \in S : e.addr = f.addr => e = f

Addressed(S) == {e.addr : e \in S}
Unanswered(S) == {e.addr : e \in {f \in S : ~ f.returned}}
Asked(d, S) == {p.addr : p \in {q \in S : Flag(d, q)}}
HeldBy(S, a, r) == \E p \in S : p.addr = a /\ r \in p.dep

\* The cache that a packet is to fill asks for its block.
AskedBy(d, p) == IF Flag(d, p) THEN {p.addr} ELSE {}

LEMMA ReplacedMisses ==
  ASSUME NEW c \in Caches, NEW S, MissSet(c, S), NEW h,
         \A e \in S : MissOf(c, h[e]) /\ h[e].addr = e.addr
  PROVE  /\ MissSet(c, {h[e] : e \in S})
         /\ Addressed({h[e] : e \in S}) = Addressed(S)
<1> DEFINE T == {h[e] : e \in S}
           g == [e \in S |-> h[e]]
<1>1. g \in Surjection(S, T)
  BY DEF Surjection
<1>2. IsFiniteSet(T) /\ Cardinality(T) <= Cardinality(S)
  BY <1>1, FS_Surjection DEF MissSet
<1>3. Cardinality(T) \in Nat /\ Cardinality(S) \in Nat /\ MSHRSize[c] \in Nat
  BY <1>2, FS_CardinalityType, Sizes DEF MissSet
<1>4. Cardinality(T) <= MSHRSize[c]
  BY <1>2, <1>3 DEF MissSet
<1>5. \A e, f \in T : e.addr = f.addr => e = f
  BY DEF MissSet
<1> QED
  BY <1>2, <1>4, <1>5 DEF MissSet, Addressed

\* A return answers the misses of its block.
LEMMA CompletedMisses ==
  ASSUME NEW c \in Caches, NEW S, MissSet(c, S), NEW a
  PROVE  LET T == Completed(S, a)
         IN  /\ MissSet(c, T) /\ Addressed(T) = Addressed(S)
             /\ Unanswered(T) = Unanswered(S) \ {a}
             /\ \A d \in L1 : Asked(d, T) = Asked(d, S)
             /\ \A b, r : HeldBy(S, b, r) => HeldBy(T, b, r)
<1> DEFINE h == [e \in S |-> IF e.addr = a THEN [e EXCEPT !.returned = TRUE] ELSE e]
           T == {h[e] : e \in S}
<1>1. ASSUME NEW e \in S
      PROVE  /\ MissOf(c, h[e]) /\ h[e].addr = e.addr /\ h[e].dep = e.dep
             /\ \A d \in L1 : Flag(d, h[e]) <=> Flag(d, e)
             /\ ~ h[e].returned <=> ~ e.returned /\ e.addr # a
  <2> DEFINE f == [e EXCEPT !.returned = TRUE]
  <2>1. e \in Packet /\ MissOf(c, e)
    BY DEF MissSet, MissOf
  <2>2. /\ f \in Packet /\ f.addr = e.addr /\ f.type = e.type /\ f.dep = e.dep
        /\ f.fill_level = e.fill_level /\ f.returned = TRUE
        /\ f.fill_l1i = e.fill_l1i /\ f.fill_l1d = e.fill_l1d
    BY <2>1 DEF Packet
  <2> HIDE DEF f
  <2>3. \A d \in L1 : Flag(d, f) <=> Flag(d, e)
    BY Zenon, <2>2 DEF Flag
  <2>4. MissOf(c, f)
    BY <2>1, <2>2, <2>3 DEF MissOf
  <2>5. h[e] = IF e.addr = a THEN f ELSE e
    BY DEF f
  <2> HIDE DEF h
  <2>6. CASE e.addr = a
    BY <2>2, <2>3, <2>4, <2>5, <2>6
  <2>7. CASE e.addr # a
    BY <2>1, <2>5, <2>7
  <2> QED
    BY <2>6, <2>7
<1>2. T = Completed(S, a)
  BY DEF Completed
<1> HIDE DEF h
<1>3. MissSet(c, T) /\ Addressed(T) = Addressed(S)
  BY <1>1, ReplacedMisses
<1>4. Unanswered(T) = Unanswered(S) \ {a}
  BY <1>1 DEF Unanswered
<1>5. \A d \in L1 : Asked(d, T) = Asked(d, S)
  BY <1>1 DEF Asked
<1>6. \A b, r : HeldBy(S, b, r) => HeldBy(T, b, r)
  BY <1>1 DEF HeldBy
<1> HIDE DEF T
<1> QED
  BY <1>2, <1>3, <1>4, <1>5, <1>6

\* A read that finds its block's miss.
MergedInto(S, p) == {IF e.addr = p.addr THEN Merged(e, p) ELSE e : e \in S}

LEMMA MergedMisses ==
  ASSUME NEW c \in Caches, NEW S, MissSet(c, S), NEW p, ReadOf(c, p), p.addr \in Addressed(S)
  PROVE  LET T == MergedInto(S, p)
         IN  /\ MissSet(c, T) /\ Addressed(T) = Addressed(S)
             /\ Unanswered(T) = Unanswered(S)
             /\ \A d \in L1 : /\ Asked(d, T) \subseteq Asked(d, S) \union AskedBy(d, p)
                              /\ AskedBy(d, p) \subseteq Asked(d, T)
             /\ (\A e \in S : e.addr = p.addr /\ e.type = "PREFETCH" => \A d \in L1 : ~ Flag(d, e)) =>
                  \A d \in L1 : Asked(d, T) = Asked(d, S) \union AskedBy(d, p)
             /\ \A b, r : HeldBy(S, b, r) \/ HeldBy({p}, b, r) => HeldBy(T, b, r)
<1> DEFINE h == [e \in S |-> IF e.addr = p.addr THEN Merged(e, p) ELSE e]
           T == {h[e] : e \in S}
<1>1. ASSUME NEW e \in S
      PROVE  /\ MissOf(c, h[e]) /\ h[e].addr = e.addr /\ h[e].returned = e.returned
             /\ e.dep \subseteq h[e].dep
             /\ e.addr = p.addr => p.dep \subseteq h[e].dep
             /\ e.addr = p.addr => \A d \in L1 : Flag(d, p) => Flag(d, h[e])
             /\ \A d \in L1 : Flag(d, h[e]) => Flag(d, e) \/ (e.addr = p.addr /\ Flag(d, p))
             /\ ~ (e.addr = p.addr /\ e.type = "PREFETCH") =>
                  \A d \in L1 : Flag(d, e) => Flag(d, h[e])
  <2>1. MissOf(c, e)
    BY DEF MissSet
  <2>2. CASE e.addr = p.addr
    <3>1. h[e] = Merged(e, p)
      BY <2>2
    <3> HIDE DEF h
    <3> QED
      BY <2>1, <2>2, <3>1, MergedIs
  <2>3. CASE e.addr # p.addr
    <3>1. h[e] = e
      BY <2>3
    <3> HIDE DEF h
    <3> QED
      BY <2>1, <2>3, <3>1
  <2> QED
    BY <2>2, <2>3
<1>2. T = MergedInto(S, p)
  BY DEF MergedInto
<1> HIDE DEF h
<1>3. MissSet(c, T) /\ Addressed(T) = Addressed(S)
  BY <1>1, ReplacedMisses
<1>4. Unanswered(T) = Unanswered(S)
  BY <1>1 DEF Unanswered
<1>5. PICK m \in S : m.addr = p.addr
  BY DEF Addressed
<1>6. ASSUME NEW d \in L1
      PROVE  /\ Asked(d, T) \subseteq Asked(d, S) \union AskedBy(d, p)
             /\ AskedBy(d, p) \subseteq Asked(d, T)
  <2>1. Asked(d, T) \subseteq Asked(d, S) \union AskedBy(d, p)
    BY <1>1 DEF Asked, AskedBy
  <2>2. AskedBy(d, p) \subseteq Asked(d, T)
    BY <1>1, <1>5 DEF Asked, AskedBy
  <2> QED
    BY <2>1, <2>2
<1>7. ASSUME \A e \in S : e.addr = p.addr /\ e.type = "PREFETCH" => \A d \in L1 : ~ Flag(d, e),
             NEW d \in L1
      PROVE  Asked(d, T) = Asked(d, S) \union AskedBy(d, p)
  <2>1. \A e \in S : Flag(d, e) => Flag(d, h[e])
    BY <1>1, <1>7
  <2>2. Asked(d, S) \subseteq Asked(d, T)
    BY <1>1, <2>1 DEF Asked
  <2> QED
    BY <1>6, <2>2
<1>8. \A b, r : HeldBy(S, b, r) => HeldBy(T, b, r)
  BY <1>1 DEF HeldBy
<1>9. \A b, r : HeldBy({p}, b, r) => HeldBy(T, b, r)
  BY <1>1, <1>5 DEF HeldBy
<1> HIDE DEF T
<1> QED
  BY <1>2, <1>3, <1>4, <1>6, <1>7, <1>8, <1>9

\* A prefetch that finds its block's miss.
WidenedBy(S, p) == {IF e.addr = p.addr THEN Widened(e, p) ELSE e : e \in S}

LEMMA WidenedMisses ==
  ASSUME NEW c \in Caches, NEW S, MissSet(c, S), NEW p, PrefetchOf(c, p), p.addr \in Addressed(S)
  PROVE  LET T == WidenedBy(S, p)
         IN  /\ MissSet(c, T) /\ Addressed(T) = Addressed(S)
             /\ Unanswered(T) = Unanswered(S)
             /\ \A d \in L1 : Asked(d, T) = Asked(d, S) \union AskedBy(d, p)
             /\ \A b, r : HeldBy(S, b, r) => HeldBy(T, b, r)
<1> DEFINE h == [e \in S |-> IF e.addr = p.addr THEN Widened(e, p) ELSE e]
           T == {h[e] : e \in S}
<1>1. ASSUME NEW e \in S
      PROVE  /\ MissOf(c, h[e]) /\ h[e].addr = e.addr /\ h[e].returned = e.returned
             /\ h[e].dep = e.dep
             /\ \A d \in L1 : Flag(d, h[e]) <=> Flag(d, e) \/ (e.addr = p.addr /\ Flag(d, p))
  <2>1. MissOf(c, e)
    BY DEF MissSet
  <2>2. CASE e.addr = p.addr
    <3>1. h[e] = Widened(e, p)
      BY <2>2
    <3> HIDE DEF h
    <3> QED
      BY <2>1, <2>2, <3>1, WidenedMiss
  <2>3. CASE e.addr # p.addr
    <3>1. h[e] = e
      BY <2>3
    <3> HIDE DEF h
    <3> QED
      BY <2>1, <2>3, <3>1
  <2> QED
    BY <2>2, <2>3
<1>2. T = WidenedBy(S, p)
  BY DEF WidenedBy
<1> HIDE DEF h
<1>3. MissSet(c, T) /\ Addressed(T) = Addressed(S)
  BY <1>1, ReplacedMisses
<1>4. Unanswered(T) = Unanswered(S)
  BY <1>1 DEF Unanswered
<1>5. PICK m \in S : m.addr = p.addr
  BY DEF Addressed
<1>6. ASSUME NEW d \in L1
      PROVE  Asked(d, T) = Asked(d, S) \union AskedBy(d, p)
  <2>1. Asked(d, T) \subseteq Asked(d, S) \union AskedBy(d, p)
    BY <1>1 DEF Asked, AskedBy
  <2>2. AskedBy(d, p) \subseteq Asked(d, T)
    BY <1>1, <1>5 DEF Asked, AskedBy
  <2>3. Asked(d, S) \subseteq Asked(d, T)
    BY <1>1 DEF Asked
  <2> QED
    BY <2>1, <2>2, <2>3
<1>7. \A b, r : HeldBy(S, b, r) => HeldBy(T, b, r)
  BY <1>1 DEF HeldBy
<1> HIDE DEF T
<1> QED
  BY <1>2, <1>3, <1>4, <1>6, <1>7

\* The miss that a packet leaves.
NewMiss(p) == [p EXCEPT !.returned = FALSE]

LEMMA NewMissIs ==
  ASSUME NEW c \in Caches, NEW p,
         ReadOf(c, p) \/ (PrefetchOf(c, p) /\ (c \in L1 => p.fill_level = 1))
  PROVE  LET e == NewMiss(p)
         IN  /\ MissOf(c, e) /\ e.addr = p.addr /\ e.dep = p.dep /\ e.type = p.type
             /\ ~ e.returned /\ e.fill_level = p.fill_level
             /\ \A d \in L1 : Flag(d, e) <=> Flag(d, p)
<1> DEFINE e == NewMiss(p)
<1>1. p \in Packet
  BY DEF ReadOf, PrefetchOf
<1>2. /\ e \in Packet /\ e.addr = p.addr /\ e.dep = p.dep /\ e.type = p.type
      /\ e.returned = FALSE /\ e.fill_level = p.fill_level
      /\ e.fill_l1i = p.fill_l1i /\ e.fill_l1d = p.fill_l1d
  BY <1>1 DEF Packet, NewMiss
<1> HIDE DEF e
<1>3. \A d \in L1 : Flag(d, e) <=> Flag(d, p)
  BY Zenon, <1>2 DEF Flag
<1>4. MissOf(c, e)
  <2>1. CASE ReadOf(c, p)
    BY <1>2, <1>3, <2>1 DEF ReadOf, MissOf
  <2>2. CASE PrefetchOf(c, p) /\ (c \in L1 => p.fill_level = 1)
    BY <1>2, <1>3, <2>2 DEF PrefetchOf, MissOf
  <2> QED
    BY <2>1, <2>2
<1> QED
  BY <1>2, <1>3, <1>4 DEF e

LEMMA AddedMisses ==
  ASSUME NEW c \in Caches, NEW S, MissSet(c, S), Cardinality(S) < MSHRSize[c],
         NEW e, MissOf(c, e), ~ e.returned, e.addr \notin Addressed(S)
  PROVE  LET T == S \union {e}
         IN  /\ MissSet(c, T) /\ Addressed(T) = Addressed(S) \union {e.addr}
             /\ Unanswered(T) = Unanswered(S) \union {e.addr}
             /\ \A d \in L1 : Asked(d, T) = Asked(d, S) \union AskedBy(d, e)
             /\ \A b, r : HeldBy(S, b, r) \/ HeldBy({e}, b, r) => HeldBy(T, b, r)
<1> DEFINE T == S \union {e}
<1>1. IsFiniteSet(T) /\ Cardinality(T) = IF e \in S THEN Cardinality(S) ELSE Cardinality(S) + 1
  BY FS_AddElement DEF MissSet
<1>2. Cardinality(S) \in Nat /\ MSHRSize[c] \in Nat
  BY FS_CardinalityType, Sizes DEF MissSet
<1>3. Cardinality(T) <= MSHRSize[c]
  BY <1>1, <1>2
<1>4. MissSet(c, T)
  BY <1>1, <1>3 DEF MissSet, Addressed
<1>5. Addressed(T) = Addressed(S) \union {e.addr}
  BY DEF Addressed
<1>6. Unanswered(T) = Unanswered(S) \union {e.addr}
  BY DEF Unanswered
<1>7. \A d \in L1 : Asked(d, T) = Asked(d, S) \union AskedBy(d, e)
  BY DEF Asked, AskedBy
<1>8. \A b, r : HeldBy(S, b, r) \/ HeldBy({e}, b, r) => HeldBy(T, b, r)
  BY DEF HeldBy
<1> HIDE DEF T
<1> QED
  BY <1>4, <1>5, <1>6, <1>7, <1>8 DEF T

LEMMA RemovedMisses ==
  ASSUME NEW c \in Caches, NEW S, MissSet(c, S), NEW e \in S
  PROVE  LET T == S \ {e}
         IN  /\ MissSet(c, T) /\ Addressed(T) = Addressed(S) \ {e.addr}
             /\ Unanswered(T) = Unanswered(S) \ {e.addr}
             /\ \A d \in L1 : /\ Asked(d, S) = Asked(d, T) \union AskedBy(d, e)
                              /\ Asked(d, T) \intersect AskedBy(d, e) = {}
             /\ \A b, r : HeldBy(S, b, r) => HeldBy(T, b, r) \/ HeldBy({e}, b, r)
<1> DEFINE T == S \ {e}
<1>1. IsFiniteSet(T) /\ Cardinality(T) = Cardinality(S) - 1
  BY FS_RemoveElement DEF MissSet
<1>2. Cardinality(S) \in Nat /\ MSHRSize[c] \in Nat
  BY FS_CardinalityType, Sizes DEF MissSet
<1>3. Cardinality(T) <= MSHRSize[c]
  BY <1>1, <1>2 DEF MissSet
<1>4. MissSet(c, T)
  BY <1>1, <1>3 DEF MissSet
<1>5. \A f \in S : f.addr = e.addr => f = e
  BY DEF MissSet
<1>6. Addressed(T) = Addressed(S) \ {e.addr}
  BY <1>5 DEF Addressed
<1>7. Unanswered(T) = Unanswered(S) \ {e.addr}
  BY <1>5 DEF Unanswered
<1>8. \A d \in L1 : /\ Asked(d, S) = Asked(d, T) \union AskedBy(d, e)
                   /\ Asked(d, T) \intersect AskedBy(d, e) = {}
  BY <1>5 DEF Asked, AskedBy
<1>9. \A b, r : HeldBy(S, b, r) => HeldBy(T, b, r) \/ HeldBy({e}, b, r)
  BY DEF HeldBy
<1> HIDE DEF T
<1> QED
  BY <1>4, <1>6, <1>7, <1>8, <1>9 DEF T

(***************************************************************************)
(* The queues of a cache.                                                  *)
(***************************************************************************)
Distinct(q) == \A i, j \in DOMAIN q : q[i].addr = q[j].addr => i = j

ReadQueue(c, q) ==
  /\ q \in Seq(Packet) /\ Len(q) <= RQSize[c] /\ Distinct(q)
  /\ \A p \in ToSet(q) : ReadOf(c, p)

PrefetchQueue(c, q) ==
  /\ q \in Seq(Packet) /\ Len(q) <= PQSize[c] /\ Distinct(q)
  /\ \A p \in ToSet(q) : PrefetchOf(c, p)

LEMMA TakenQueue ==
  ASSUME NEW q \in Seq(Packet), q # << >>
  PROVE  /\ Head(q) \in Packet /\ Tail(q) \in Seq(Packet) /\ Len(Tail(q)) = Len(q) - 1
         /\ Head(q) \in ToSet(q)
         /\ \A p \in ToSet(q) : p = Head(q) \/ p \in ToSet(Tail(q))
         /\ \A p \in ToSet(Tail(q)) : p \in ToSet(q)
<1>1. Len(q) \in Nat \ {0} /\ DOMAIN q = 1 .. Len(q)
  OBVIOUS
<1>2. Head(q) = q[1] /\ q[1] \in Packet
  BY <1>1
<1>3. /\ Tail(q) \in Seq(Packet) /\ Len(Tail(q)) = Len(q) - 1
      /\ DOMAIN Tail(q) = 1 .. Len(q) - 1
      /\ \A i \in 1 .. Len(q) - 1 : Tail(q)[i] = q[i + 1]
  BY <1>1
<1>4. ASSUME NEW p \in ToSet(q) PROVE p = Head(q) \/ p \in ToSet(Tail(q))
  <2>1. PICK i \in 1 .. Len(q) : p = q[i]
    BY <1>1 DEF ToSet
  <2>2. CASE i # 1
    <3>1. i - 1 \in 1 .. Len(q) - 1 /\ (i - 1) + 1 = i
      BY <1>1, <2>2
    <3>2. p = Tail(q)[i - 1]
      BY <1>3, <2>1, <3>1
    <3> QED
      BY <1>3, <3>1, <3>2 DEF ToSet
  <2> QED
    BY <1>2, <2>1, <2>2
<1>5. ASSUME NEW p \in ToSet(Tail(q)) PROVE p \in ToSet(q)
  <2>1. PICK i \in 1 .. Len(q) - 1 : p = q[i + 1]
    BY <1>3 DEF ToSet
  <2>2. i + 1 \in 1 .. Len(q)
    BY <1>1
  <2> QED
    BY <1>1, <2>1, <2>2 DEF ToSet
<1>6. Head(q) \in ToSet(q)
  BY <1>1, <1>2 DEF ToSet
<1> QED
  BY <1>2, <1>3, <1>4, <1>5, <1>6

LEMMA TakenDistinct ==
  ASSUME NEW q \in Seq(Packet), q # << >>, Distinct(q)
  PROVE  /\ Distinct(Tail(q))
         /\ \A p \in ToSet(Tail(q)) : p.addr # Head(q).addr
<1>1. Len(q) \in Nat \ {0} /\ DOMAIN q = 1 .. Len(q) /\ Head(q) = q[1]
  OBVIOUS
<1>2. /\ DOMAIN Tail(q) = 1 .. Len(q) - 1
      /\ \A i \in 1 .. Len(q) - 1 : Tail(q)[i] = q[i + 1]
  BY <1>1
<1>3. \A i \in 1 .. Len(q) - 1 : i + 1 \in DOMAIN q /\ 1 \in DOMAIN q /\ i + 1 # 1
  BY <1>1
<1>4. ASSUME NEW i \in DOMAIN Tail(q), NEW j \in DOMAIN Tail(q),
             Tail(q)[i].addr = Tail(q)[j].addr
      PROVE  i = j
  <2>1. i + 1 = j + 1
    BY <1>2, <1>3, <1>4 DEF Distinct
  <2> QED
    BY <1>2, <2>1
<1>5. ASSUME NEW p \in ToSet(Tail(q)) PROVE p.addr # Head(q).addr
  <2>1. PICK i \in 1 .. Len(q) - 1 : p = q[i + 1]
    BY <1>2 DEF ToSet
  <2> QED
    BY <1>1, <1>3, <2>1 DEF Distinct
<1> QED
  BY <1>4, <1>5 DEF Distinct

LEMMA TakenRead ==
  ASSUME NEW c \in Caches, NEW q, ReadQueue(c, q), q # << >>
  PROVE  LET p == Head(q)
             t == Tail(q)
         IN  /\ ReadOf(c, p) /\ ReadQueue(c, t)
             /\ \A d \in L1 : /\ Asked(d, ToSet(q)) = Asked(d, ToSet(t)) \union AskedBy(d, p)
                              /\ Asked(d, ToSet(t)) \intersect AskedBy(d, p) = {}
             /\ \A b, r : HeldBy(ToSet(q), b, r) => HeldBy(ToSet(t), b, r) \/ HeldBy({p}, b, r)
<1>1. q \in Seq(Packet) /\ Distinct(q) /\ Len(q) <= RQSize[c]
  BY DEF ReadQueue
<1> DEFINE p == Head(q)
           t == Tail(q)
<1>2. /\ p \in Packet /\ t \in Seq(Packet) /\ Len(t) = Len(q) - 1 /\ p \in ToSet(q)
      /\ \A x \in ToSet(q) : x = p \/ x \in ToSet(t)
      /\ \A x \in ToSet(t) : x \in ToSet(q)
  BY <1>1, TakenQueue
<1>3. Distinct(t) /\ \A x \in ToSet(t) : x.addr # p.addr
  BY <1>1, TakenDistinct
<1>4. Len(t) <= RQSize[c]
  <2>1. Len(q) \in Nat /\ RQSize[c] \in Nat
    BY <1>1, Sizes
  <2> QED
    BY <1>1, <1>2, <2>1
<1> HIDE DEF p, t
<1>5. ReadOf(c, p) /\ ReadQueue(c, t)
  BY <1>2, <1>3, <1>4 DEF ReadQueue
<1>6. ASSUME NEW d \in L1
      PROVE  /\ Asked(d, ToSet(q)) = Asked(d, ToSet(t)) \union AskedBy(d, p)
             /\ Asked(d, ToSet(t)) \intersect AskedBy(d, p) = {}
  BY <1>2, <1>3 DEF Asked, AskedBy
<1>7. \A b, r : HeldBy(ToSet(q), b, r) => HeldBy(ToSet(t), b, r) \/ HeldBy({p}, b, r)
  BY <1>2 DEF HeldBy
<1> QED
  BY <1>5, <1>6, <1>7 DEF p, t

LEMMA TakenPrefetch ==
  ASSUME NEW c \in Caches, NEW q, PrefetchQueue(c, q), q # << >>
  PROVE  LET p == Head(q)
             t == Tail(q)
         IN  /\ PrefetchOf(c, p) /\ PrefetchQueue(c, t) /\ Len(t) = Len(q) - 1
             /\ \A d \in L1 : /\ Asked(d, ToSet(q)) = Asked(d, ToSet(t)) \union AskedBy(d, p)
                              /\ Asked(d, ToSet(t)) \intersect AskedBy(d, p) = {}
<1>1. q \in Seq(Packet) /\ Distinct(q) /\ Len(q) <= PQSize[c]
  BY DEF PrefetchQueue
<1> DEFINE p == Head(q)
           t == Tail(q)
<1>2. /\ p \in Packet /\ t \in Seq(Packet) /\ Len(t) = Len(q) - 1 /\ p \in ToSet(q)
      /\ \A x \in ToSet(q) : x = p \/ x \in ToSet(t)
      /\ \A x \in ToSet(t) : x \in ToSet(q)
  BY <1>1, TakenQueue
<1>3. Distinct(t) /\ \A x \in ToSet(t) : x.addr # p.addr
  BY <1>1, TakenDistinct
<1>4. Len(t) <= PQSize[c]
  <2>1. Len(q) \in Nat /\ PQSize[c] \in Nat
    BY <1>1, Sizes
  <2> QED
    BY <1>1, <1>2, <2>1
<1> HIDE DEF p, t
<1>5. PrefetchOf(c, p) /\ PrefetchQueue(c, t)
  BY <1>2, <1>3, <1>4 DEF PrefetchQueue
<1>6. ASSUME NEW d \in L1
      PROVE  /\ Asked(d, ToSet(q)) = Asked(d, ToSet(t)) \union AskedBy(d, p)
             /\ Asked(d, ToSet(t)) \intersect AskedBy(d, p) = {}
  BY <1>2, <1>3 DEF Asked, AskedBy
<1> QED
  BY <1>2, <1>5, <1>6 DEF p, t

\* A queue with a packet put in the place of one of the same block.
LEMMA ReplacedPacket ==
  ASSUME NEW q \in Seq(Packet), NEW k \in DOMAIN q, NEW x \in Packet, x.addr = q[k].addr
  PROVE  LET n == [q EXCEPT ![k] = x]
         IN  /\ n \in Seq(Packet) /\ Len(n) = Len(q)
             /\ Distinct(q) => Distinct(n)
             /\ \A y \in ToSet(n) : y = x \/ y \in ToSet(q)
             /\ \A y \in ToSet(q) : y = q[k] \/ y \in ToSet(n)
             /\ x \in ToSet(n) /\ q[k] \in ToSet(q)
<1> DEFINE n == [q EXCEPT ![k] = x]
<1>1. /\ n \in Seq(Packet) /\ Len(n) = Len(q) /\ DOMAIN n = DOMAIN q
      /\ \A i \in DOMAIN q : n[i] = IF i = k THEN x ELSE q[i]
  OBVIOUS
<1> HIDE DEF n
<1>2. \A i \in DOMAIN q : n[i].addr = q[i].addr
  BY <1>1
<1>3. Distinct(q) => Distinct(n)
  BY <1>1, <1>2 DEF Distinct
<1>4. \A y \in ToSet(n) : y = x \/ y \in ToSet(q)
  BY <1>1 DEF ToSet
<1>5. \A y \in ToSet(q) : y = q[k] \/ y \in ToSet(n)
  BY <1>1 DEF ToSet
<1>6. x \in ToSet(n) /\ q[k] \in ToSet(q)
  BY <1>1 DEF ToSet
<1> QED
  BY <1>1, <1>3, <1>4, <1>5, <1>6 DEF n

LEMMA AppendedPacket ==
  ASSUME NEW q \in Seq(Packet), NEW x \in Packet, ~ check_queue(q, x.addr)
  PROVE  LET n == Append(q, x)
         IN  /\ n \in Seq(Packet) /\ Len(n) = Len(q) + 1
             /\ Distinct(q) => Distinct(n)
             /\ \A y : y \in ToSet(n) <=> y = x \/ y \in ToSet(q)
<1> DEFINE n == Append(q, x)
<1>1. /\ n \in Seq(Packet) /\ Len(n) = Len(q) + 1 /\ Len(q) \in Nat
      /\ DOMAIN q = 1 .. Len(q) /\ DOMAIN n = 1 .. Len(q) + 1
      /\ \A i \in 1 .. Len(q) : n[i] = q[i]
      /\ n[Len(q) + 1] = x
  OBVIOUS
<1> HIDE DEF n
<1>2. \A i \in 1 .. Len(q) + 1 : i \in 1 .. Len(q) \/ i = Len(q) + 1
  BY <1>1
<1>3. \A i \in 1 .. Len(q) : i \in 1 .. Len(q) + 1 /\ Len(q) + 1 \in 1 .. Len(q) + 1
  BY <1>1
<1>4. Distinct(q) => Distinct(n)
  <2> SUFFICES ASSUME Distinct(q), NEW i \in DOMAIN n, NEW j \in DOMAIN n, n[i].addr = n[j].addr
               PROVE  i = j
    BY DEF Distinct
  <2>1. CASE i \in 1 .. Len(q) /\ j \in 1 .. Len(q)
    BY <1>1, <2>1 DEF Distinct
  <2>2. CASE i \in 1 .. Len(q) /\ j = Len(q) + 1
    BY <1>1, <2>2 DEF check_queue
  <2>3. CASE i = Len(q) + 1 /\ j \in 1 .. Len(q)
    BY <1>1, <2>3 DEF check_queue
  <2> QED
    BY <1>1, <1>2, <2>1, <2>2, <2>3
<1>5. ASSUME NEW y \in ToSet(n) PROVE y = x \/ y \in ToSet(q)
  <2>1. PICK i \in 1 .. Len(q) + 1 : y = n[i]
    BY <1>1 DEF ToSet
  <2> QED
    BY <1>1, <1>2, <2>1 DEF ToSet
<1>6. x \in ToSet(n)
  <2>1. Len(q) + 1 \in DOMAIN n
    BY <1>1
  <2> QED
    BY <1>1, <2>1 DEF ToSet
<1>7. ASSUME NEW y \in ToSet(q) PROVE y \in ToSet(n)
  <2>1. PICK i \in 1 .. Len(q) : y = q[i]
    BY <1>1 DEF ToSet
  <2>2. i \in DOMAIN n /\ n[i] = y
    BY <1>1, <1>3, <2>1
  <2> QED
    BY <2>2 DEF ToSet
<1> QED
  BY <1>1, <1>4, <1>5, <1>6, <1>7 DEF n

(* The packet of a read queue that another read of its block joins.        *)
LEMMA JoinedIs ==
  ASSUME NEW c \in Caches, NEW e, ReadOf(c, e), NEW p, ReadOf(c, p), e.addr = p.addr
  PROVE  LET j == Joined(e, p)
         IN  /\ ReadOf(c, j) /\ j.addr = e.addr /\ j.dep = e.dep \union p.dep
             /\ \A d \in L1 : Flag(d, j) <=> Flag(d, e) \/ Flag(d, p)
<1> DEFINE j == Joined(e, p)
           i == e.fill_l1i \/ p.fill_l1i
           f == e.fill_l1d \/ p.fill_l1d
           u == e.dep \union p.dep
<1>1. e \in Packet /\ p \in Packet
  BY DEF ReadOf
<1>2. i \in BOOLEAN /\ f \in BOOLEAN /\ u \in SUBSET Readers
  BY <1>1, PacketParts
<1>3. j = [e EXCEPT !.fill_l1i = i, !.fill_l1d = f, !.dep = u]
  BY Zenon DEF Joined
<1>4. /\ j \in Packet /\ j.addr = e.addr /\ j.type = e.type /\ j.dep = u
      /\ j.fill_level = e.fill_level /\ j.fill_l1i = i /\ j.fill_l1d = f
  <2> HIDE DEF i, f, u, j
  <2> QED
    BY <1>1, <1>2, <1>3 DEF Packet
<1> HIDE DEF j
<1>5. \A d \in L1 : Flag(d, j) <=> Flag(d, e) \/ Flag(d, p)
  BY Zenon, <1>4 DEF Flag
<1>6. ReadOf(c, j)
  BY <1>4, <1>5 DEF ReadOf
<1> QED
  BY <1>4, <1>5, <1>6 DEF j

LEMMA FoundInQueue ==
  ASSUME NEW q, NEW a, check_queue(q, a)
  PROVE  Where(q, a) \in DOMAIN q /\ q[Where(q, a)].addr = a
BY DEF check_queue, Where

\* A read joins the one of its block, or the end of the queue.
\* Queue n asks for what queue q and packet p ask for; and so for the readers they hold.
AsksForBoth(n, q, p) ==
  \A d \in L1 : Asked(d, ToSet(n)) = Asked(d, ToSet(q)) \union AskedBy(d, p)
HoldsBoth(n, q, p) ==
  \A b, r : HeldBy(ToSet(q), b, r) \/ HeldBy({p}, b, r) => HeldBy(ToSet(n), b, r)
RoomForRead(q, c, p) == check_queue(q, p.addr) \/ Len(q) < RQSize[c]

LEMMA EnqueuedRead ==
  ASSUME NEW c \in Caches, NEW q, ReadQueue(c, q), NEW p, ReadOf(c, p), RoomForRead(q, c, p)
  PROVE  /\ ReadQueue(c, EnqueueRead(q, c, p))
         /\ AsksForBoth(EnqueueRead(q, c, p), q, p)
         /\ HoldsBoth(EnqueueRead(q, c, p), q, p)
<1> DEFINE n == EnqueueRead(q, c, p)
<1>1. q \in Seq(Packet) /\ Distinct(q) /\ Len(q) <= RQSize[c] /\ \A x \in ToSet(q) : ReadOf(c, x)
  BY DEF ReadQueue
<1>2. p \in Packet
  BY DEF ReadOf
<1>3. CASE check_queue(q, p.addr)
  <2> DEFINE k == Where(q, p.addr)
             e == q[k]
             j == Joined(e, p)
  <2>1. k \in DOMAIN q /\ e.addr = p.addr
    BY <1>3, FoundInQueue
  <2>2. e \in ToSet(q)
    BY <2>1 DEF ToSet
  <2>3. n = [q EXCEPT ![k] = j]
    BY <1>3 DEF EnqueueRead
  <2>4. /\ ReadOf(c, j) /\ j.addr = e.addr /\ j.dep = e.dep \union p.dep
        /\ \A d \in L1 : Flag(d, j) <=> Flag(d, e) \/ Flag(d, p)
    BY <1>1, <2>1, <2>2, JoinedIs
  <2>5. j \in Packet
    BY <2>4 DEF ReadOf
  <2> HIDE DEF n, k, j
  <2>6. /\ n \in Seq(Packet) /\ Len(n) = Len(q) /\ Distinct(n)
        /\ \A y \in ToSet(n) : y = j \/ y \in ToSet(q)
        /\ \A y \in ToSet(q) : y = e \/ y \in ToSet(n)
        /\ j \in ToSet(n)
    BY <1>1, <2>1, <2>3, <2>4, <2>5, ReplacedPacket
  <2> HIDE DEF e
  <2>7. ReadQueue(c, n)
    BY <1>1, <2>4, <2>6 DEF ReadQueue
  <2>8. \A d \in L1 : Asked(d, ToSet(n)) = Asked(d, ToSet(q)) \union AskedBy(d, p)
    BY <2>1, <2>2, <2>4, <2>6 DEF Asked, AskedBy
  <2>9. \A b, r : HeldBy(ToSet(q), b, r) \/ HeldBy({p}, b, r) => HeldBy(ToSet(n), b, r)
    BY <2>1, <2>4, <2>6 DEF HeldBy
  <2> QED
    BY <2>7, <2>8, <2>9 DEF n, AsksForBoth, HoldsBoth
<1>4. CASE ~ check_queue(q, p.addr)
  <2>1. n = Append(q, p)
    BY <1>4 DEF EnqueueRead, RoomForRead
  <2>2. /\ n \in Seq(Packet) /\ Len(n) = Len(q) + 1 /\ Distinct(n)
        /\ \A y : y \in ToSet(n) <=> y = p \/ y \in ToSet(q)
    BY <1>1, <1>2, <1>4, <2>1, AppendedPacket
  <2>3. Len(n) <= RQSize[c]
    <3>1. Len(q) \in Nat /\ RQSize[c] \in Nat /\ Len(q) < RQSize[c]
      BY <1>1, <1>4, Sizes DEF RoomForRead
    <3> QED
      BY <2>2, <3>1
  <2> HIDE DEF n
  <2>4. ReadQueue(c, n)
    BY <1>1, <2>2, <2>3 DEF ReadQueue
  <2>5. \A d \in L1 : Asked(d, ToSet(n)) = Asked(d, ToSet(q)) \union AskedBy(d, p)
    BY <2>2 DEF Asked, AskedBy
  <2>6. \A b, r : HeldBy(ToSet(q), b, r) \/ HeldBy({p}, b, r) => HeldBy(ToSet(n), b, r)
    BY <2>2 DEF HeldBy
  <2> QED
    BY <2>4, <2>5, <2>6 DEF n, AsksForBoth, HoldsBoth
<1> QED
  BY <1>3, <1>4

LEMMA EnqueuedPrefetch ==
  ASSUME NEW c \in Caches, NEW q, PrefetchQueue(c, q), NEW p, PrefetchOf(c, p),
         check_queue(q, p.addr) \/ Len(q) < PQSize[c]
  PROVE  LET n == EnqueuePrefetch(q, c, p)
         IN  /\ PrefetchQueue(c, n)
             /\ \A d \in L1 : Asked(d, ToSet(n)) = Asked(d, ToSet(q)) \union AskedBy(d, p)
<1> DEFINE n == EnqueuePrefetch(q, c, p)
<1>1. /\ q \in Seq(Packet) /\ Distinct(q) /\ Len(q) <= PQSize[c]
      /\ \A x \in ToSet(q) : PrefetchOf(c, x)
  BY DEF PrefetchQueue
<1>2. p \in Packet
  BY DEF PrefetchOf
<1>3. CASE check_queue(q, p.addr)
  <2> DEFINE k == Where(q, p.addr)
             e == q[k]
             j == Widened(e, p)
  <2>1. k \in DOMAIN q /\ e.addr = p.addr
    BY <1>3, FoundInQueue
  <2>2. e \in ToSet(q)
    BY <2>1 DEF ToSet
  <2>3. n = [q EXCEPT ![k] = j]
    BY <1>3 DEF EnqueuePrefetch
  <2>4. /\ PrefetchOf(c, j) /\ j.addr = e.addr
        /\ \A d \in L1 : Flag(d, j) <=> Flag(d, e) \/ Flag(d, p)
    BY <1>1, <2>1, <2>2, WidenedPrefetch
  <2>5. j \in Packet
    BY <2>4 DEF PrefetchOf
  <2> HIDE DEF n, k, j
  <2>6. /\ n \in Seq(Packet) /\ Len(n) = Len(q) /\ Distinct(n)
        /\ \A y \in ToSet(n) : y = j \/ y \in ToSet(q)
        /\ \A y \in ToSet(q) : y = e \/ y \in ToSet(n)
        /\ j \in ToSet(n)
    BY <1>1, <2>1, <2>3, <2>4, <2>5, ReplacedPacket
  <2> HIDE DEF e
  <2>7. PrefetchQueue(c, n)
    BY <1>1, <2>4, <2>6 DEF PrefetchQueue
  <2>8. \A d \in L1 : Asked(d, ToSet(n)) = Asked(d, ToSet(q)) \union AskedBy(d, p)
    BY <2>1, <2>2, <2>4, <2>6 DEF Asked, AskedBy
  <2> QED
    BY <2>7, <2>8 DEF n
<1>4. CASE ~ check_queue(q, p.addr)
  <2>1. n = Append(q, p)
    BY <1>4 DEF EnqueuePrefetch
  <2>2. /\ n \in Seq(Packet) /\ Len(n) = Len(q) + 1 /\ Distinct(n)
        /\ \A y : y \in ToSet(n) <=> y = p \/ y \in ToSet(q)
    BY <1>1, <1>2, <1>4, <2>1, AppendedPacket
  <2>3. Len(n) <= PQSize[c]
    <3>1. Len(q) \in Nat /\ PQSize[c] \in Nat /\ Len(q) < PQSize[c]
      BY <1>1, <1>4, Sizes
    <3> QED
      BY <2>2, <3>1
  <2> HIDE DEF n
  <2>4. PrefetchQueue(c, n)
    BY <1>1, <2>2, <2>3 DEF PrefetchQueue
  <2>5. \A d \in L1 : Asked(d, ToSet(n)) = Asked(d, ToSet(q)) \union AskedBy(d, p)
    BY <2>2 DEF Asked, AskedBy
  <2> QED
    BY <2>4, <2>5 DEF n
<1> QED
  BY <1>3, <1>4

(***************************************************************************)
(* The lines of a cache.                                                   *)
(***************************************************************************)
WaysOf(c) == 1 .. NumWay[c]

GoodLines(c, b) ==
  /\ b \in [WaysOf(c) -> Line(c)]
  /\ {b[w].lru : w \in WaysOf(c)} = 0 .. NumWay[c] - 1
  /\ \A w \in WaysOf(c) : b[w].dirty => b[w].addr # NoAddr

LEMMA LineParts ==
  ASSUME NEW c \in Caches, NEW l \in Line(c)
  PROVE  l.addr \in Addrs \union {NoAddr} /\ l.dirty \in BOOLEAN /\ l.lru \in 0 .. NumWay[c] - 1
BY DEF Line

LEMMA LeastNumber ==
  ASSUME NEW S \in SUBSET Nat, S # {}
  PROVE  \E x \in S : \A y \in S : x <= y
<1> DEFINE R == OpToRel(<, Nat)
<1>1. \A x, y \in Nat : <<y, x>> \in R <=> y < x
  BY DEF OpToRel
<1>2. IsWellFoundedOn(R, Nat)
  BY NatLessThanWellFounded
<1> HIDE DEF R
<1>3. PICK x \in S : \A y \in S : ~(<<y, x>> \in R)
  BY <1>2, WFMin
<1>4. \A y \in S : x <= y
  <2> TAKE y \in S
  <2>1. x \in Nat /\ y \in Nat /\ ~(y < x)
    BY <1>1, <1>3
  <2> QED
    BY <2>1
<1> QED
  BY <1>4

LEMMA HitIs ==
  ASSUME NEW c \in Caches, NEW a, check_hit(c, a)
  PROVE  HitWay(c, a) \in WaysOf(c) /\ block[c][HitWay(c, a)].addr = a
<1>1. Ways(c, a) \in SUBSET Nat /\ Ways(c, a) # {}
  <2>1. NumWay[c] \in Nat
    BY Sizes
  <2> QED
    BY <2>1 DEF Ways, check_hit
<1>2. \E w \in Ways(c, a) : \A v \in Ways(c, a) : w <= v
  BY <1>1, LeastNumber
<1>3. HitWay(c, a) \in Ways(c, a)
  BY <1>2 DEF HitWay
<1> QED
  BY <1>3 DEF Ways, WaysOf

(* The victim is a line of the cache.                                      *)
LEMMA VictimIs ==
  ASSUME NEW c \in Caches, GoodLines(c, block[c])
  PROVE  lru_victim(c) \in WaysOf(c)
<1>1. CASE check_hit(c, NoAddr)
  BY <1>1, HitIs DEF lru_victim
<1>2. CASE ~ check_hit(c, NoAddr)
  <2>1. NumWay[c] \in Nat \ {0}
    BY Sizes
  <2>2. NumWay[c] - 1 \in 0 .. NumWay[c] - 1
    BY <2>1
  <2>3. \E w \in WaysOf(c) : block[c][w].lru = NumWay[c] - 1
    BY <2>2 DEF GoodLines
  <2> QED
    BY <1>2, <2>3 DEF lru_victim, WaysOf
<1> QED
  BY <1>1, <1>2

LEMMA UpdatedLines ==
  ASSUME NEW c \in Caches, NEW b, GoodLines(c, b), NEW way \in WaysOf(c)
  PROVE  LET u == lru_update(b, way)
         IN  /\ GoodLines(c, u)
             /\ \A w \in WaysOf(c) : u[w].addr = b[w].addr /\ u[w].dirty = b[w].dirty
<1> DEFINE u == lru_update(b, way)
           N == NumWay[c]
           L == b[way].lru
           new == [w \in WaysOf(c) |-> IF w = way THEN 0 ELSE IF b[w].lru < L THEN b[w].lru + 1
                                       ELSE b[w].lru]
<1>1. /\ b \in [WaysOf(c) -> Line(c)] /\ N \in Nat \ {0}
      /\ {b[w].lru : w \in WaysOf(c)} = 0 .. N - 1
      /\ \A w \in WaysOf(c) : b[w].lru \in 0 .. N - 1
  BY Sizes, LineParts DEF GoodLines
<1>2. u = [w \in WaysOf(c) |-> [b[w] EXCEPT !.lru = new[w]]]
  BY <1>1 DEF lru_update
<1>3. L \in 0 .. N - 1
  BY <1>1
<1> HIDE DEF L, N
<1>4. ASSUME NEW w \in WaysOf(c) PROVE new[w] \in 0 .. N - 1
  <2>1. b[w].lru \in 0 .. N - 1
    BY <1>1
  <2>2. new[w] = IF w = way THEN 0 ELSE IF b[w].lru < L THEN b[w].lru + 1 ELSE b[w].lru
    OBVIOUS
  <2> QED
    BY <1>1, <1>3, <2>1, <2>2
<1>5. ASSUME NEW v \in 0 .. N - 1 PROVE \E w \in WaysOf(c) : new[w] = v
  <2>1. CASE v = 0
    BY <2>1
  <2>2. CASE v # 0 /\ v <= L
    <3>1. v - 1 \in 0 .. N - 1 /\ v - 1 < L /\ (v - 1) + 1 = v
      BY <1>1, <1>3, <2>2
    <3>2. PICK w \in WaysOf(c) : b[w].lru = v - 1
      BY <1>1, <3>1
    <3>3. w # way
      BY <1>3, <3>1, <3>2 DEF L
    <3>4. new[w] = v
      BY <3>1, <3>2, <3>3
    <3> QED
      BY <3>4
  <2>3. CASE v > L
    <3>1. PICK w \in WaysOf(c) : b[w].lru = v
      BY <1>1
    <3>2. w # way /\ ~ (v < L)
      BY <1>3, <2>3, <3>1 DEF L
    <3>3. new[w] = v
      BY <3>1, <3>2
    <3> QED
      BY <3>3
  <2> QED
    BY <1>3, <2>1, <2>2, <2>3
<1> HIDE DEF new, u
<1>6. \A w \in WaysOf(c) : /\ u[w] \in Line(c) /\ u[w].lru = new[w]
                           /\ u[w].addr = b[w].addr /\ u[w].dirty = b[w].dirty
  BY <1>1, <1>2, <1>4 DEF Line, N
<1>7. u \in [WaysOf(c) -> Line(c)]
  BY <1>2, <1>6
<1>8. {u[w].lru : w \in WaysOf(c)} = 0 .. N - 1
  BY <1>4, <1>5, <1>6
<1> QED
  BY <1>6, <1>7, <1>8 DEF GoodLines, u, N

(* A fill puts its block into the way of the victim.                       *)
LEMMA FilledLines ==
  ASSUME NEW c \in Caches, GoodLines(c, block[c]), NEW way \in WaysOf(c),
         NEW a \in Addrs, NEW dirty \in BOOLEAN
  PROVE  LET u == fill_cache(c, way, a, dirty)
         IN  /\ GoodLines(c, u)
             /\ \A w \in WaysOf(c) : u[w].addr = IF w = way THEN a ELSE block[c][w].addr
<1> DEFINE f == [block[c] EXCEPT ![way].addr = a, ![way].dirty = dirty]
           l == [block[c][way] EXCEPT !.addr = a, !.dirty = dirty]
<1>1. block[c] \in [WaysOf(c) -> Line(c)]
  BY DEF GoodLines
<1>2. /\ l \in Line(c) /\ l.addr = a /\ l.lru = block[c][way].lru
  BY <1>1 DEF Line
<1>3. f = [block[c] EXCEPT ![way] = l]
  BY <1>1
<1> HIDE DEF l, f
<1>4. /\ f \in [WaysOf(c) -> Line(c)]
      /\ \A w \in WaysOf(c) : f[w] = IF w = way THEN l ELSE block[c][w]
  BY <1>1, <1>2, <1>3
<1>5. \A w \in WaysOf(c) : f[w].lru = block[c][w].lru
  BY <1>2, <1>4
<1>6. {f[w].lru : w \in WaysOf(c)} = 0 .. NumWay[c] - 1
  BY <1>5 DEF GoodLines
<1>7. \A w \in WaysOf(c) : f[w].dirty => f[w].addr # NoAddr
  BY <1>2, <1>4, CoreAssumption DEF GoodLines
<1>8. GoodLines(c, f)
  BY <1>4, <1>6, <1>7 DEF GoodLines
<1>9. fill_cache(c, way, a, dirty) = lru_update(f, way)
  BY DEF fill_cache, f
<1> QED
  BY <1>2, <1>4, <1>8, <1>9, UpdatedLines

(***************************************************************************)
(* The invariant.  What the second level is to return to a first-level     *)
(* cache is in its read queue, in its prefetch queue or among its misses,  *)
(* in one of them only, and the cache waits for it; if no block is read by *)
(* one first-level cache and prefetched by the other, that is everything   *)
(* the cache waits for.                                                    *)
(***************************************************************************)
Unshared == \A d, e \in L1 : d # e => Prefetched(d) \intersect Blocks(e) = {}

\* A variable that gives each cache something.
Map(f) == f = [c \in Caches |-> f[c]]

QueuesOK(rq, wq, pq) ==
  /\ Map(rq) /\ Map(wq) /\ Map(pq)
  /\ \A c \in Caches : ReadQueue(c, rq[c]) /\ PrefetchQueue(c, pq[c])
  /\ \A c \in Caches : wq[c] \in Seq(Packet) /\ Len(wq[c]) <= WQSize[c]
  /\ wq["L1I"] = << >> /\ \A p \in ToSet(wq["L1D"]) : ReadOf("L1D", p)

MissesOK(m) == Map(m) /\ \A c \in Caches : MissSet(c, m[c])

LinesOK(b) == DOMAIN b = Caches /\ \A c \in Caches : GoodLines(c, b[c])

OnceOK(b, m) ==
  \A c \in L1 : /\ \A v, w \in WaysOf(c) : b[c][v].addr = b[c][w].addr /\ b[c][v].addr # NoAddr => v = w
                /\ \A w \in WaysOf(c) : b[c][w].addr \notin Addressed(m[c])

Balanced(R, P, M, U) ==
  /\ R \intersect P = {} /\ R \intersect M = {} /\ P \intersect M = {}
  /\ R \union P \union M \subseteq U
  /\ Unshared => U \subseteq R \union P \union M

AccountsOK(rq, pq, m) ==
  \A d \in L1 : Balanced(Asked(d, ToSet(rq["L2C"])), Asked(d, ToSet(pq["L2C"])),
                         Asked(d, m["L2C"]), Unanswered(m[d]))

CacheOf(r) == IF r \in Fetches THEN "L1I" ELSE "L1D"

HeldOK(wt, rq, m) ==
  /\ wt \in [Readers -> Addrs \union {NoAddr}]
  /\ \A r \in Readers : wt[r] # NoAddr =>
       HeldBy(ToSet(rq[CacheOf(r)]), wt[r], r) \/ HeldBy(m[CacheOf(r)], wt[r], r)

IndInv ==
  /\ QueuesOK(RQ, WQ, PQ) /\ MissesOK(MSHR) /\ LinesOK(block)
  /\ OnceOK(block, MSHR) /\ AccountsOK(RQ, PQ, MSHR) /\ HeldOK(waiting, RQ, MSHR)

LEMMA Primed ==
  ASSUME QueuesOK(RQ', WQ', PQ'), MissesOK(MSHR'), LinesOK(block'),
         OnceOK(block', MSHR'), AccountsOK(RQ', PQ', MSHR'), HeldOK(waiting', RQ', MSHR')
  PROVE  IndInv'
BY DEF IndInv

(* A packet sent below, answered, moved to the misses or merged there.     *)
LEMMA Sent ==
  ASSUME NEW R, NEW P, NEW M, NEW U, Balanced(R, P, M, U), NEW K, K \intersect U = {}
  PROVE  /\ Balanced(R \union K, P, M, U \union K) /\ Balanced(R, P \union K, M, U \union K)
         /\ (U \union K) \ K = U
BY DEF Balanced

LEMMA Answers ==
  ASSUME NEW R, NEW P, NEW M, NEW U, NEW K, K \intersect (R \union P \union M) = {},
         \/ Balanced(R \union K, P, M, U) \/ Balanced(R, P \union K, M, U)
         \/ Balanced(R, P, M \union K, U)
  PROVE  Balanced(R, P, M, U \ K)
BY DEF Balanced

LEMMA Moved ==
  ASSUME NEW R, NEW P, NEW M, NEW U, NEW K, NEW N,
         N \subseteq M \union K, Unshared => N = M \union K,
         \/ R \intersect K = {} /\ Balanced(R \union K, P, M, U)
         \/ P \intersect K = {} /\ Balanced(R, P \union K, M, U)
  PROVE  Balanced(R, P, N, U)
BY DEF Balanced

LEMMA FirstLevel == L1 = {"L1I", "L1D"} /\ L1 \subseteq Caches /\ "L2C" \in Caches /\ "L2C" \notin L1
BY DEF L1, Caches

\* A packet of a first-level cache asks for that cache.
LEMMA AskedAbove ==
  ASSUME NEW c \in L1, NEW p, \A d \in L1 : Flag(d, p) => MayFill(c, d)
  PROVE  /\ \A d \in L1 : AskedBy(d, p) \subseteq {p.addr} /\ (d # c => AskedBy(d, p) = {})
         /\ (\E d \in L1 : Flag(d, p)) => AskedBy(c, p) = {p.addr}
BY DEF AskedBy, MayFill

LEMMA BelowIs ==
  ASSUME NEW c \in Caches, NEW p, ReadOf(c, p) \/ PrefetchOf(c, p)
  PROVE  LET b == Below(p)
         IN  /\ b.addr = p.addr /\ \A d \in L1 : AskedBy(d, b) = AskedBy(d, p)
             /\ ReadOf(c, p) => ReadOf("L2C", b)
             /\ PrefetchOf(c, p) => PrefetchOf("L2C", b)
<1> DEFINE b == Below(p)
<1>1. p \in Packet
  BY DEF ReadOf, PrefetchOf
<1>2. /\ b \in Packet /\ b.addr = p.addr /\ b.type = p.type /\ b.dep = {}
      /\ b.fill_level = p.fill_level /\ b.fill_l1i = p.fill_l1i /\ b.fill_l1d = p.fill_l1d
  BY <1>1 DEF Packet, Below
<1> HIDE DEF b
<1>3. \A d \in L1 : Flag(d, b) <=> Flag(d, p)
  BY Zenon, <1>2 DEF Flag
<1>4. \A d \in L1 : AskedBy(d, b) = AskedBy(d, p)
  BY <1>2, <1>3 DEF AskedBy
<1>5. ReadOf(c, p) => ReadOf("L2C", b)
  BY <1>2, <1>3, FirstLevel DEF ReadOf, MayFill
<1>6. PrefetchOf(c, p) => PrefetchOf("L2C", b)
  BY <1>2, <1>3, FirstLevel DEF PrefetchOf, MayFill
<1> QED
  BY <1>2, <1>4, <1>5, <1>6 DEF b

(* What return_data() of L2C leaves.                                       *)
\* Packet p is filled in a first-level cache if one of them asks for it.
AskedFromAbove(p) == p.fill_level = 1 <=> \E d \in L1 : Flag(d, p)

\* Misses r are misses m where what the first-level caches ask for by p is answered.
AnsweredAbove(r, m, p) ==
  /\ r["L2C"] = m["L2C"]
  /\ \A d \in L1 : /\ Addressed(r[d]) = Addressed(m[d])
                   /\ Unanswered(r[d]) = Unanswered(m[d]) \ AskedBy(d, p)
  /\ \A d \in L1 : \A b, x : HeldBy(m[d], b, x) => HeldBy(r[d], b, x)

LEMMA Returned ==
  ASSUME NEW m, MissesOK(m), NEW p \in Packet, AskedFromAbove(p)
  PROVE  MissesOK(return_data(m, "L2C", p)) /\ AnsweredAbove(return_data(m, "L2C", p), m, p)
<1> DEFINE r == return_data(m, "L2C", p)
           R(d) == IF Flag(d, p) THEN Completed(m[d], p.addr) ELSE m[d]
<1>1. Map(m) /\ \A c \in Caches : MissSet(c, m[c])
  BY DEF MissesOK
<1>2. CASE p.fill_level = 1
  <2>1. r = [m EXCEPT !["L1I"] = R("L1I"), !["L1D"] = R("L1D")]
    <3>1. p.fill_level < fill_level["L2C"]
      BY <1>2, Levels
    <3> QED
      BY Zenon, <3>1 DEF return_data, Flag
  <2>2. Map(r) /\ r["L1I"] = R("L1I") /\ r["L1D"] = R("L1D") /\ r["L2C"] = m["L2C"]
    <3> HIDE DEF r, R
    <3> QED
      BY <1>1, <2>1, FirstLevel DEF Map
  <2> HIDE DEF r
  <2>3. ASSUME NEW d \in L1
        PROVE  /\ r[d] = R(d) /\ MissSet(d, R(d)) /\ Addressed(R(d)) = Addressed(m[d])
               /\ Unanswered(R(d)) = Unanswered(m[d]) \ AskedBy(d, p)
               /\ \A b, x : HeldBy(m[d], b, x) => HeldBy(R(d), b, x)
    <3>1. d \in Caches /\ MissSet(d, m[d])
      BY <1>1, FirstLevel
    <3>2. r[d] = R(d)
      BY <2>2, FirstLevel
    <3>3. CASE Flag(d, p)
      <4>1. R(d) = Completed(m[d], p.addr) /\ AskedBy(d, p) = {p.addr}
        BY <3>3 DEF AskedBy
      <4> HIDE DEF R
      <4> QED
        BY <3>1, <3>2, <4>1, CompletedMisses
    <3>4. CASE ~ Flag(d, p)
      BY <3>1, <3>2, <3>4 DEF AskedBy
    <3> QED
      BY <3>3, <3>4
  <2>4. MissesOK(r)
    BY <1>1, <2>2, <2>3, FirstLevel DEF MissesOK, Caches
  <2> HIDE DEF R
  <2> QED
    BY <2>2, <2>3, <2>4 DEF r, AnsweredAbove
<1>3. CASE p.fill_level # 1
  <2>1. r = m
    <3>1. ~ (p.fill_level < fill_level["L2C"])
      BY <1>3, Levels, PacketParts
    <3> QED
      BY <3>1 DEF return_data
  <2>2. \A d \in L1 : AskedBy(d, p) = {}
    BY <1>3 DEF AskedBy, AskedFromAbove
  <2> QED
    BY <2>1, <2>2 DEF AnsweredAbove
<1> QED
  BY <1>2, <1>3

LEMMA ReturnedAbove ==
  ASSUME NEW m, NEW c \in L1, NEW p \in Packet
  PROVE  return_data(m, c, p) = m
<1>1. fill_level[c] = 1 /\ p.fill_level \in {1, 2}
  BY Levels, FirstLevel, PacketParts
<1>2. ~ (p.fill_level < fill_level[c])
  BY <1>1
<1> QED
  BY <1>2 DEF return_data

\* Packet p, which misses in cache c, is to be filled there.
MissesAt(c, p) ==
  /\ HasRoom(c) /\ ~ check_mshr(c, p.addr)
  /\ ReadOf(c, p) \/ (PrefetchOf(c, p) /\ (c \in L1 => p.fill_level = 1))

\* Misses m are those of MSHR and a new one of cache c for packet p.
AddedAt(m, c, p) ==
  /\ \A x \in Caches : x # c => m[x] = MSHR[x]
  /\ Addressed(m[c]) = Addressed(MSHR[c]) \union {p.addr}
  /\ Unanswered(m[c]) = Unanswered(MSHR[c]) \union {p.addr}
  /\ \A d \in L1 : Asked(d, m[c]) = Asked(d, MSHR[c]) \union AskedBy(d, p)
  /\ \A b, r : HeldBy(MSHR[c], b, r) \/ HeldBy({p}, b, r) => HeldBy(m[c], b, r)

LEMMA MissAdded ==
  ASSUME NEW c \in Caches, MissesOK(MSHR), NEW p, MissesAt(c, p)
  PROVE  MissesOK(add_mshr(MSHR, c, p)) /\ AddedAt(add_mshr(MSHR, c, p), c, p)
<1> DEFINE m == add_mshr(MSHR, c, p)
           e == NewMiss(p)
           T == MSHR[c] \union {e}
<1>1. Map(MSHR) /\ \A x \in Caches : MissSet(x, MSHR[x])
  BY DEF MissesOK
<1>2. /\ MissOf(c, e) /\ e.addr = p.addr /\ e.dep = p.dep /\ ~ e.returned
      /\ \A d \in L1 : Flag(d, e) <=> Flag(d, p)
  BY NewMissIs DEF MissesAt
<1>3. m = [MSHR EXCEPT ![c] = T]
  BY DEF add_mshr, NewMiss
<1> HIDE DEF e
<1>4. e.addr \notin Addressed(MSHR[c])
  BY <1>2 DEF Addressed, check_mshr, MissesAt
<1>5. /\ MissSet(c, T) /\ Addressed(T) = Addressed(MSHR[c]) \union {e.addr}
      /\ Unanswered(T) = Unanswered(MSHR[c]) \union {e.addr}
      /\ \A d \in L1 : Asked(d, T) = Asked(d, MSHR[c]) \union AskedBy(d, e)
      /\ \A b, r : HeldBy(MSHR[c], b, r) \/ HeldBy({e}, b, r) => HeldBy(T, b, r)
  BY <1>1, <1>2, <1>4, AddedMisses DEF HasRoom, MissesAt
<1>6. /\ \A d \in L1 : AskedBy(d, e) = AskedBy(d, p)
      /\ \A b, r : HeldBy({p}, b, r) => HeldBy({e}, b, r)
  BY <1>2 DEF AskedBy, HeldBy
<1> HIDE DEF T, m
<1>7. Map(m) /\ m[c] = T /\ \A x \in Caches : x # c => m[x] = MSHR[x]
  BY <1>1, <1>3 DEF Map
<1>8. MissesOK(m)
  BY <1>1, <1>5, <1>7 DEF MissesOK
<1>9. AddedAt(m, c, p)
  BY <1>2, <1>5, <1>6, <1>7 DEF AddedAt
<1> QED
  BY <1>8, <1>9 DEF m

(* A packet of the read queue of L2C stands for a miss in flight above it, *)
(* so that a cache with room for a miss finds room there too.              *)
LEMMA SlotsOf ==
  ASSUME NEW q \in Seq(Packet), Distinct(q), NEW d \in L1, NEW S, MissSet(d, S),
         Asked(d, ToSet(q)) \subseteq Unanswered(S)
  PROVE  LET I == {i \in DOMAIN q : Flag(d, q[i])}
         IN  IsFiniteSet(I) /\ Cardinality(I) <= Cardinality(S)
<1> DEFINE I == {i \in DOMAIN q : Flag(d, q[i])}
           f == [i \in I |-> CHOOSE e \in S : e.addr = q[i].addr]
<1>1. ASSUME NEW i \in I PROVE f[i] \in S /\ f[i].addr = q[i].addr
  <2>1. q[i] \in ToSet(q) /\ Flag(d, q[i])
    BY DEF ToSet
  <2>2. q[i].addr \in Unanswered(S)
    BY <2>1 DEF Asked
  <2>3. \E e \in S : e.addr = q[i].addr
    BY <2>2 DEF Unanswered
  <2> QED
    BY <2>3
<1>2. f \in Injection(I, S)
  <2>1. f \in [I -> S]
    BY <1>1
  <2>2. ASSUME NEW i \in I, NEW j \in I, f[i] = f[j] PROVE i = j
    <3>1. q[i].addr = q[j].addr
      BY <1>1, <2>2
    <3> QED
      BY <3>1 DEF Distinct
  <2> QED
    BY <2>1, <2>2 DEF Injection, IsInjective
<1>3. IsFiniteSet(S)
  BY DEF MissSet
<1> QED
  BY <1>2, <1>3, FS_Injection

LEMMA RoomBelow ==
  ASSUME MissesOK(MSHR), NEW q, ReadQueue("L2C", q),
         \A d \in L1 : Asked(d, ToSet(q)) \subseteq Unanswered(MSHR[d]),
         NEW c \in L1, HasRoom(c)
  PROVE  Len(q) < RQSize["L2C"]
<1> DEFINE I(d) == {i \in DOMAIN q : Flag(d, q[i])}
           n(d) == Cardinality(MSHR[d])
           k(d) == Cardinality(I(d))
<1>1. q \in Seq(Packet) /\ Distinct(q) /\ \A p \in ToSet(q) : ReadOf("L2C", p)
  BY DEF ReadQueue
<1>2. ASSUME NEW d \in L1
      PROVE  /\ IsFiniteSet(I(d)) /\ k(d) <= n(d) /\ n(d) <= MSHRSize[d]
             /\ k(d) \in Nat /\ n(d) \in Nat /\ MSHRSize[d] \in Nat
  <2>1. d \in Caches /\ MissSet(d, MSHR[d])
    BY FirstLevel DEF MissesOK
  <2>2. IsFiniteSet(I(d)) /\ k(d) <= n(d)
    BY <1>1, <2>1, SlotsOf
  <2>3. IsFiniteSet(MSHR[d]) /\ n(d) <= MSHRSize[d]
    BY <2>1 DEF MissSet
  <2>4. MSHRSize[d] \in Nat
    BY <2>1, Sizes
  <2> QED
    BY <2>2, <2>3, <2>4, FS_CardinalityType
<1>3. DOMAIN q = I("L1I") \union I("L1D")
  <2>1. ASSUME NEW i \in DOMAIN q PROVE \E d \in L1 : Flag(d, q[i])
    <3>1. q[i] \in ToSet(q)
      BY DEF ToSet
    <3> QED
      BY <1>1, <3>1 DEF ReadOf
  <2> QED
    BY <2>1, FirstLevel
<1> DEFINE A == I("L1I")
           B == I("L1D")
<1>4. IsFiniteSet(A) /\ IsFiniteSet(B) /\ k("L1I") = Cardinality(A) /\ k("L1D") = Cardinality(B)
  BY <1>2, FirstLevel
<1>5. /\ Cardinality(A \union B) = Cardinality(A) + Cardinality(B) - Cardinality(A \intersect B)
      /\ IsFiniteSet(A \intersect B)
  <2> HIDE DEF A, B
  <2> QED
    BY <1>4, FS_Union, FS_Intersection
<1>6. Cardinality(A \intersect B) \in Nat
  BY <1>5, FS_CardinalityType
<1>7. Len(q) \in Nat /\ DOMAIN q = 1 .. Len(q)
  BY <1>1
<1>8. Cardinality(1 .. Len(q)) = Len(q)
  BY <1>7, FS_Interval
<1>9. n(c) < MSHRSize[c]
  BY DEF HasRoom
<1>10. RQSize["L2C"] \in Nat /\ MSHRSize["L1I"] + MSHRSize["L1D"] <= RQSize["L2C"]
  BY FirstLevel, Sizes, QueueSizes
<1> HIDE DEF I, n, k
<1>11. Len(q) = Cardinality(A \union B)
  BY <1>3, <1>7, <1>8
<1> HIDE DEF A, B
<1>12. Len(q) <= k("L1I") + k("L1D")
  BY <1>2, <1>4, <1>5, <1>6, <1>11, FirstLevel
<1>13. c = "L1I" \/ c = "L1D"
  BY FirstLevel
<1> QED
  BY <1>2, <1>7, <1>9, <1>10, <1>12, <1>13, FirstLevel

(***************************************************************************)
(* The miss of a first-level cache is sent to L2C, which may answer it at  *)
(* once from its write queue.                                              *)
(***************************************************************************)
\* What is known of a miss of cache c for packet p before it is sent.
Accounted(m, d, p, rq, pq) ==
  /\ m["L2C"] = MSHR["L2C"] /\ Unanswered(m[d]) = Unanswered(MSHR[d]) \union AskedBy(d, p)
  /\ Balanced(Asked(d, ToSet(rq["L2C"])) \union AskedBy(d, p), Asked(d, ToSet(pq["L2C"])),
              Asked(d, MSHR["L2C"]), Unanswered(MSHR[d]) \union AskedBy(d, p))
  /\ Balanced(Asked(d, ToSet(rq["L2C"])), Asked(d, ToSet(pq["L2C"])) \union AskedBy(d, p),
              Asked(d, MSHR["L2C"]), Unanswered(MSHR[d]) \union AskedBy(d, p))
  /\ Balanced(Asked(d, ToSet(rq["L2C"])), Asked(d, ToSet(pq["L2C"])),
              Asked(d, MSHR["L2C"]), (Unanswered(MSHR[d]) \union AskedBy(d, p)) \ AskedBy(d, p))

LEMMA MissAccounts ==
  ASSUME NEW c \in L1, MissesOK(MSHR), NEW p, MissesAt(c, p),
         NEW rq, NEW pq, AccountsOK(rq, pq, MSHR), NEW d \in L1
  PROVE  Accounted(add_mshr(MSHR, c, p), d, p, rq, pq)
<1> DEFINE m == add_mshr(MSHR, c, p)
           K == AskedBy(d, p)
           U == Unanswered(MSHR[d])
           R == Asked(d, ToSet(rq["L2C"]))
           P == Asked(d, ToSet(pq["L2C"]))
           M == Asked(d, MSHR["L2C"])
<1>1. /\ \A x \in Caches : x # c => m[x] = MSHR[x]
      /\ Unanswered(m[c]) = Unanswered(MSHR[c]) \union {p.addr}
  <2>1. c \in Caches
    BY FirstLevel
  <2>2. AddedAt(m, c, p)
    BY Zenon, <2>1, MissAdded
  <2> HIDE DEF m
  <2> QED
    BY <2>2 DEF AddedAt
<1>2. /\ K \subseteq {p.addr} /\ (d # c => K = {}) /\ (d = c => K = {p.addr})
  <2>1. (\E x \in L1 : Flag(x, p)) /\ \A x \in L1 : Flag(x, p) => MayFill(c, x)
    BY DEF MissesAt, ReadOf, PrefetchOf
  <2> QED
    BY <2>1, AskedAbove
<1>3. p.addr \notin Unanswered(MSHR[c])
  BY DEF Unanswered, check_mshr, MissesAt
<1>4. K \intersect U = {}
  BY <1>2, <1>3
<1>5. Balanced(R, P, M, U)
  BY DEF AccountsOK
<1> HIDE DEF m, K
<1>6. m["L2C"] = MSHR["L2C"] /\ Unanswered(m[d]) = U \union K
  BY <1>1, <1>2, FirstLevel
<1> HIDE DEF U, R, P, M
<1>7. /\ Balanced(R \union K, P, M, U \union K) /\ Balanced(R, P \union K, M, U \union K)
      /\ (U \union K) \ K = U
  BY <1>4, <1>5, Sent
<1> QED
  BY <1>5, <1>6, <1>7 DEF m, K, U, R, P, M, Accounted

LEMMA EnqueuedBelow ==
  ASSUME NEW q, ReadQueue("L2C", q), Len(q) < RQSize["L2C"], NEW p, ReadOf("L2C", p)
  PROVE  /\ ReadQueue("L2C", EnqueueRead(q, "L2C", p))
         /\ AsksForBoth(EnqueueRead(q, "L2C", p), q, p)
<1>1. RoomForRead(q, "L2C", p)
  BY DEF RoomForRead
<1>2. PICK c \in Caches : c = "L2C"
  BY FirstLevel
<1>3. ReadQueue(c, q) /\ ReadOf(c, p) /\ RoomForRead(q, c, p)
  BY <1>1, <1>2
<1>4. ReadQueue(c, EnqueueRead(q, c, p)) /\ AsksForBoth(EnqueueRead(q, c, p), q, p)
  BY Zenon, <1>3, EnqueuedRead
<1> QED
  BY <1>2, <1>4

LEMMA ReadSent ==
  ASSUME NEW c \in L1, MissesOK(MSHR), HasRoom(c), NEW p, ~ check_mshr(c, p.addr), ReadOf(c, p),
         NEW q, Map(q), \A x \in Caches : ReadQueue(x, q[x]),
         NEW pq, AccountsOK(q, pq, MSHR),
         add_rq(add_mshr(MSHR, c, p), q, c, p)
  PROVE  /\ Map(RQ') /\ \A x \in Caches : ReadQueue(x, RQ'[x])
         /\ \A x \in L1 : RQ'[x] = q[x]
         /\ MissesOK(MSHR') /\ AccountsOK(RQ', pq, MSHR')
         /\ Addressed(MSHR'[c]) = Addressed(MSHR[c]) \union {p.addr}
         /\ \A x \in L1 : x # c => Addressed(MSHR'[x]) = Addressed(MSHR[x])
         /\ \A x \in L1 : \A b, r : HeldBy(MSHR[x], b, r) => HeldBy(MSHR'[x], b, r)
         /\ \A b, r : HeldBy({p}, b, r) => HeldBy(MSHR'[c], b, r)
<1> DEFINE m == add_mshr(MSHR, c, p)
           b2 == Below(p)
           n == EnqueueRead(q["L2C"], "L2C", b2)
<1>0. c \in Caches /\ p \in Packet
  BY FirstLevel DEF ReadOf
<1>1. /\ MissesOK(m) /\ \A x \in Caches : x # c => m[x] = MSHR[x]
      /\ Addressed(m[c]) = Addressed(MSHR[c]) \union {p.addr}
      /\ \A b, r : HeldBy(MSHR[c], b, r) \/ HeldBy({p}, b, r) => HeldBy(m[c], b, r)
  <2>1. MissesAt(c, p)
    BY DEF MissesAt
  <2>2. MissesOK(m) /\ AddedAt(m, c, p)
    BY Zenon, <1>0, <2>1, MissAdded
  <2> HIDE DEF m
  <2> QED
    BY <2>2 DEF AddedAt
<1>2. ASSUME NEW d \in L1
      PROVE  /\ m["L2C"] = MSHR["L2C"]
             /\ Unanswered(m[d]) = Unanswered(MSHR[d]) \union AskedBy(d, p)
             /\ Balanced(Asked(d, ToSet(q["L2C"])) \union AskedBy(d, p), Asked(d, ToSet(pq["L2C"])),
                         Asked(d, MSHR["L2C"]), Unanswered(MSHR[d]) \union AskedBy(d, p))
             /\ Balanced(Asked(d, ToSet(q["L2C"])), Asked(d, ToSet(pq["L2C"])),
                         Asked(d, MSHR["L2C"]), (Unanswered(MSHR[d]) \union AskedBy(d, p)) \ AskedBy(d, p))
  <2>1. MissesAt(c, p)
    BY DEF MissesAt
  <2>2. Accounted(m, d, p, q, pq)
    BY Zenon, <2>1, MissAccounts
  <2> HIDE DEF m
  <2> QED
    BY <2>2 DEF Accounted
<1>3. CASE Forwarded(c, p)
  <2>1. MSHR' = return_data(m, "L2C", p) /\ RQ' = q
    BY <1>3 DEF add_rq
  <2>2. AskedFromAbove(p)
    BY DEF ReadOf, AskedFromAbove
  <2> HIDE DEF m
  <2>3. /\ MissesOK(MSHR') /\ MSHR'["L2C"] = m["L2C"]
        /\ \A d \in L1 : /\ Addressed(MSHR'[d]) = Addressed(m[d])
                         /\ Unanswered(MSHR'[d]) = Unanswered(m[d]) \ AskedBy(d, p)
        /\ \A d \in L1 : \A b, x : HeldBy(m[d], b, x) => HeldBy(MSHR'[d], b, x)
    <3>1. MissesOK(MSHR') /\ AnsweredAbove(MSHR', m, p)
      BY Zenon, <1>0, <1>1, <2>1, <2>2, Returned
    <3> QED
      BY <3>1 DEF AnsweredAbove
  <2>4. AccountsOK(RQ', pq, MSHR')
    BY <1>2, <2>1, <2>3 DEF AccountsOK
  <2>5. \A x \in L1 : x \in Caches
    BY FirstLevel
  <2> QED
    BY <1>1, <2>1, <2>3, <2>4, <2>5
<1>4. CASE ~ Forwarded(c, p)
  <2>1. MSHR' = m /\ RQ' = [q EXCEPT !["L2C"] = n]
    BY <1>4 DEF add_rq
  <2>2. /\ b2.addr = p.addr /\ ReadOf("L2C", b2) /\ \A d \in L1 : AskedBy(d, b2) = AskedBy(d, p)
    BY <1>0, BelowIs
  <2>3. Len(q["L2C"]) < RQSize["L2C"]
    BY RoomBelow, FirstLevel DEF AccountsOK, Balanced
  <2> HIDE DEF b2
  <2>4. /\ ReadQueue("L2C", n)
        /\ \A d \in L1 : Asked(d, ToSet(n)) = Asked(d, ToSet(q["L2C"])) \union AskedBy(d, p)
    <3>1. ReadQueue("L2C", q["L2C"])
      BY FirstLevel
    <3>2. ReadQueue("L2C", n) /\ AsksForBoth(n, q["L2C"], b2)
      BY <2>2, <2>3, <3>1, EnqueuedBelow
    <3> QED
      BY <2>2, <3>2 DEF AsksForBoth
  <2> HIDE DEF m, n
  <2>5. /\ Map(RQ') /\ RQ'["L2C"] = n
        /\ \A x \in Caches : x # "L2C" => RQ'[x] = q[x]
    BY <2>1, FirstLevel DEF Map
  <2>6. \A x \in L1 : x \in Caches /\ x # "L2C"
    BY FirstLevel
  <2>7. AccountsOK(RQ', pq, MSHR')
    BY <1>2, <2>1, <2>4, <2>5 DEF AccountsOK
  <2>8. \A x \in Caches : ReadQueue(x, RQ'[x])
    BY <2>4, <2>5
  <2> QED
    BY <1>1, <2>1, <2>5, <2>6, <2>7, <2>8
<1> QED
  BY <1>3, <1>4

LEMMA PrefetchSent ==
  ASSUME NEW c \in L1, MissesOK(MSHR), HasRoom(c), NEW p, ~ check_mshr(c, p.addr), PrefetchOf(c, p),
         NEW q, Map(q), \A x \in Caches : PrefetchQueue(x, q[x]),
         Len(q["L2C"]) < PQSize["L2C"], NEW rq, AccountsOK(rq, q, MSHR),
         add_pq(IF FilledHere(c, p) THEN add_mshr(MSHR, c, p) ELSE MSHR, q, c, p)
  PROVE  /\ Map(PQ') /\ \A x \in Caches : PrefetchQueue(x, PQ'[x])
         /\ MissesOK(MSHR') /\ AccountsOK(rq, PQ', MSHR')
         /\ Addressed(MSHR'[c]) \subseteq Addressed(MSHR[c]) \union {p.addr}
         /\ \A x \in L1 : x # c => Addressed(MSHR'[x]) = Addressed(MSHR[x])
         /\ \A x \in L1 : \A b, r : HeldBy(MSHR[x], b, r) => HeldBy(MSHR'[x], b, r)
<1> DEFINE m == IF FilledHere(c, p) THEN add_mshr(MSHR, c, p) ELSE MSHR
           b2 == Below(p)
           n == EnqueuePrefetch(q["L2C"], "L2C", b2)
<1>0. /\ c \in Caches /\ p \in Packet /\ \A x \in L1 : x \in Caches
      /\ AskedFromAbove(p)
  BY FirstLevel DEF PrefetchOf, AskedFromAbove
<1>1. FilledHere(c, p) <=> p.fill_level = 1
  BY <1>0, PacketParts, Levels, FirstLevel DEF FilledHere
<1>2. /\ MissesOK(m) /\ \A x \in Caches : x # c => m[x] = MSHR[x]
      /\ Addressed(m[c]) \subseteq Addressed(MSHR[c]) \union {p.addr}
      /\ \A b, r : HeldBy(MSHR[c], b, r) => HeldBy(m[c], b, r)
  <2>1. CASE FilledHere(c, p)
    <3>1. p.fill_level = 1 /\ m = add_mshr(MSHR, c, p)
      BY <1>1, <2>1
    <3> HIDE DEF m
    <3>2. MissesAt(c, p)
      BY <3>1 DEF MissesAt
    <3>3. MissesOK(m) /\ AddedAt(m, c, p)
      BY Zenon, <1>0, <3>1, <3>2, MissAdded
    <3> QED
      BY <3>3 DEF AddedAt
  <2>2. CASE ~ FilledHere(c, p)
    BY <2>2
  <2> QED
    BY <2>1, <2>2
<1>3. ASSUME NEW d \in L1
      PROVE  /\ m["L2C"] = MSHR["L2C"]
             /\ Unanswered(m[d]) = Unanswered(MSHR[d]) \union AskedBy(d, p)
             /\ Balanced(Asked(d, ToSet(rq["L2C"])), Asked(d, ToSet(q["L2C"])) \union AskedBy(d, p),
                         Asked(d, MSHR["L2C"]), Unanswered(MSHR[d]) \union AskedBy(d, p))
             /\ Balanced(Asked(d, ToSet(rq["L2C"])), Asked(d, ToSet(q["L2C"])),
                         Asked(d, MSHR["L2C"]), (Unanswered(MSHR[d]) \union AskedBy(d, p)) \ AskedBy(d, p))
  <2>1. CASE FilledHere(c, p)
    <3>1. p.fill_level = 1 /\ m = add_mshr(MSHR, c, p)
      BY <1>1, <2>1
    <3> HIDE DEF m
    <3>2. MissesAt(c, p)
      BY <3>1 DEF MissesAt
    <3>3. Accounted(m, d, p, rq, q)
      BY Zenon, <3>1, <3>2, MissAccounts
    <3> QED
      BY <3>3 DEF Accounted
  <2>2. CASE ~ FilledHere(c, p)
    <3>1. m = MSHR
      BY <2>2
    <3>2. AskedBy(d, p) = {}
      BY <1>0, <1>1, <2>2 DEF AskedBy, AskedFromAbove
    <3> HIDE DEF m
    <3> QED
      BY <3>1, <3>2 DEF AccountsOK
  <2> QED
    BY <2>1, <2>2
<1> HIDE DEF m
<1>4. CASE Forwarded(c, p)
  <2>1. MSHR' = return_data(m, "L2C", p) /\ PQ' = q
    BY <1>4 DEF add_pq, m
  <2>2. /\ MissesOK(MSHR') /\ MSHR'["L2C"] = m["L2C"]
        /\ \A d \in L1 : /\ Addressed(MSHR'[d]) = Addressed(m[d])
                         /\ Unanswered(MSHR'[d]) = Unanswered(m[d]) \ AskedBy(d, p)
        /\ \A d \in L1 : \A b, x : HeldBy(m[d], b, x) => HeldBy(MSHR'[d], b, x)
    <3>1. MissesOK(MSHR') /\ AnsweredAbove(MSHR', m, p)
      BY Zenon, <1>0, <1>2, <2>1, Returned
    <3> QED
      BY <3>1 DEF AnsweredAbove
  <2>3. AccountsOK(rq, PQ', MSHR')
    BY <1>3, <2>1, <2>2 DEF AccountsOK
  <2> QED
    BY <1>0, <1>2, <2>1, <2>2, <2>3
<1>5. CASE ~ Forwarded(c, p)
  <2>1. MSHR' = m /\ PQ' = [q EXCEPT !["L2C"] = n]
    BY <1>5 DEF add_pq, m
  <2>2. /\ PrefetchOf("L2C", b2) /\ \A d \in L1 : AskedBy(d, b2) = AskedBy(d, p)
    BY <1>0, BelowIs
  <2> HIDE DEF b2
  <2>3. /\ PrefetchQueue("L2C", n)
        /\ \A d \in L1 : Asked(d, ToSet(n)) = Asked(d, ToSet(q["L2C"])) \union AskedBy(d, p)
    BY <2>2, EnqueuedPrefetch, FirstLevel
  <2> HIDE DEF n
  <2>4. /\ Map(PQ') /\ PQ'["L2C"] = n
        /\ \A x \in Caches : x # "L2C" => PQ'[x] = q[x]
    BY <2>1, FirstLevel DEF Map
  <2>5. AccountsOK(rq, PQ', MSHR')
    BY <1>3, <2>1, <2>3, <2>4 DEF AccountsOK
  <2>6. \A x \in Caches : PrefetchQueue(x, PQ'[x])
    BY <2>3, <2>4
  <2> QED
    BY <1>0, <1>2, <2>1, <2>4, <2>5, <2>6
<1> QED
  BY <1>4, <1>5

(***************************************************************************)
(* What the steps have in common: who is held, and blocks held once.       *)
(***************************************************************************)
\* The readers of dep wait no longer, the others as they did; what was held for a
\* reader still is, or the reader is one of dep.
AnsweredOnly(wt2, wt, dep) ==
  /\ wt2 \in [Readers -> Addrs \union {NoAddr}]
  /\ \A r \in Readers : wt2[r] = NoAddr \/ (wt2[r] = wt[r] /\ r \notin dep)
HeldOrIn(rq2, m2, rq, m, dep) ==
  \A c \in L1 : \A b, r : HeldBy(ToSet(rq[c]), b, r) \/ HeldBy(m[c], b, r) =>
    HeldBy(ToSet(rq2[c]), b, r) \/ HeldBy(m2[c], b, r) \/ r \in dep

LEMMA StillHeld ==
  ASSUME NEW wt, NEW rq, NEW m, HeldOK(wt, rq, m), NEW wt2, NEW rq2, NEW m2, NEW dep,
         AnsweredOnly(wt2, wt, dep), HeldOrIn(rq2, m2, rq, m, dep)
  PROVE  HeldOK(wt2, rq2, m2)
<1> SUFFICES ASSUME NEW r \in Readers, wt2[r] # NoAddr
             PROVE  HeldBy(ToSet(rq2[CacheOf(r)]), wt2[r], r) \/ HeldBy(m2[CacheOf(r)], wt2[r], r)
  BY DEF HeldOK, AnsweredOnly
<1>1. wt2[r] = wt[r] /\ r \notin dep /\ CacheOf(r) \in L1
  BY FirstLevel DEF CacheOf, AnsweredOnly
<1>2. HeldBy(ToSet(rq[CacheOf(r)]), wt2[r], r) \/ HeldBy(m[CacheOf(r)], wt2[r], r)
  BY <1>1 DEF HeldOK
<1> QED
  BY <1>1, <1>2 DEF HeldOrIn

LEMMA AnsweredIs ==
  ASSUME NEW rq, NEW m, HeldOK(waiting, rq, m), NEW dep
  PROVE  AnsweredOnly(Answered(dep), waiting, dep)
<1>1. waiting \in [Readers -> Addrs \union {NoAddr}]
  BY DEF HeldOK
<1> QED
  BY <1>1 DEF Answered, AnsweredOnly

LEMMA StillWaiting ==
  ASSUME NEW rq, NEW m, HeldOK(waiting, rq, m), NEW rq2, NEW m2,
         \A c \in L1 : \A b, r : HeldBy(ToSet(rq[c]), b, r) \/ HeldBy(m[c], b, r) =>
           HeldBy(ToSet(rq2[c]), b, r) \/ HeldBy(m2[c], b, r)
  PROVE  HeldOK(waiting, rq2, m2)
<1>1. \A r \in Readers : CacheOf(r) \in L1
  BY FirstLevel DEF CacheOf
<1> QED
  BY <1>1 DEF HeldOK

LEMMA StillOnce ==
  ASSUME OnceOK(block, MSHR), NEW b, NEW m,
         \A c \in L1 : \A w \in WaysOf(c) : b[c][w].addr = block[c][w].addr,
         \A c \in L1 : \A a \in Addressed(m[c]) : a \in Addressed(MSHR[c]) \/ ~ check_hit(c, a)
  PROVE  OnceOK(b, m)
<1> SUFFICES ASSUME NEW c \in L1
             PROVE  /\ \A v, w \in WaysOf(c) : b[c][v].addr = b[c][w].addr /\ b[c][v].addr # NoAddr => v = w
                    /\ \A w \in WaysOf(c) : b[c][w].addr \notin Addressed(m[c])
  BY DEF OnceOK
<1>1. ASSUME NEW w \in WaysOf(c) PROVE b[c][w].addr \notin Addressed(m[c])
  <2>1. block[c][w].addr \notin Addressed(MSHR[c])
    BY DEF OnceOK
  <2>2. w \in Ways(c, block[c][w].addr)
    BY DEF Ways, WaysOf
  <2>3. check_hit(c, block[c][w].addr)
    BY <2>2 DEF check_hit
  <2> QED
    BY <2>1, <2>3
<1> QED
  BY <1>1 DEF OnceOK

LEMMA OnceInLines ==
  ASSUME OnceOK(block, MSHR), MSHR' = MSHR,
         \A c \in L1 : \A w \in WaysOf(c) : block'[c][w].addr = block[c][w].addr
  PROVE  OnceOK(block', MSHR')
BY DEF OnceOK

\* A hit moves its line to the front and may set its dirty bit.
LEMMA TouchedLines ==
  ASSUME LinesOK(block), NEW c \in Caches, NEW u, GoodLines(c, u),
         \A w \in WaysOf(c) : u[w].addr = block[c][w].addr, block' = [block EXCEPT ![c] = u]
  PROVE  LinesOK(block') /\ \A x \in L1 : \A w \in WaysOf(x) : block'[x][w].addr = block[x][w].addr
<1>1. DOMAIN block = Caches /\ \A x \in Caches : GoodLines(x, block[x])
  BY DEF LinesOK
<1>2. /\ DOMAIN block' = Caches /\ \A x \in Caches : block'[x] = IF x = c THEN u ELSE block[x]
  BY <1>1
<1>3. LinesOK(block')
  BY <1>1, <1>2 DEF LinesOK
<1>4. \A x \in L1 : x \in Caches
  BY FirstLevel
<1> QED
  BY <1>2, <1>3, <1>4

\* The same misses and the same packets in the queues of L2C.
LEMMA SameAccounts ==
  ASSUME NEW rq, NEW pq, NEW m, AccountsOK(rq, pq, m), NEW rq2, NEW pq2, NEW m2,
         rq2["L2C"] = rq["L2C"], pq2["L2C"] = pq["L2C"], m2["L2C"] = m["L2C"],
         \A d \in L1 : Unanswered(m2[d]) = Unanswered(m[d])
  PROVE  AccountsOK(rq2, pq2, m2)
BY DEF AccountsOK

(***************************************************************************)
(* The steps of the core.                                                  *)
(***************************************************************************)
LEMMA RequestIs ==
  ASSUME NEW a \in Addrs, NEW type \in Types, NEW level \in {1, 2}, NEW i \in BOOLEAN,
         NEW d \in BOOLEAN, NEW dep \in SUBSET Readers, NEW p,
         p = Request(a, type, level, i, d, dep)
  PROVE  /\ p \in Packet /\ p.addr = a /\ p.type = type /\ p.fill_level = level /\ p.dep = dep
         /\ Flag("L1I", p) <=> i
         /\ Flag("L1D", p) <=> d
<1>1. /\ p \in Packet /\ p.addr = a /\ p.type = type /\ p.fill_level = level /\ p.dep = dep
      /\ p.fill_l1i = i /\ p.fill_l1d = d
  BY DEF Request, Packet
<1>2. /\ Flag("L1I", p) <=> i
      /\ Flag("L1D", p) <=> d
  BY Zenon, <1>1 DEF Flag
<1> QED
  BY <1>1, <1>2

LEMMA BlocksAre == \A d \in L1 : Blocks(d) \subseteq Addrs /\ Prefetched(d) \subseteq Addrs
<1>1. \A d \in L1 : Blocks(d) \subseteq Addrs
  BY DEF Blocks, Addrs
<1>2. \A p \in Prefetches : p.addr \in Addrs
  BY PrefetchesAssumption
<1> QED
  BY <1>1, <1>2 DEF Prefetched

LEMMA ReadStep ==
  ASSUME IndInv, NEW c \in L1, NEW r \in Readers, CacheOf(r) = c, NEW a \in Blocks(c),
         NEW i \in BOOLEAN, NEW d \in BOOLEAN, i <=> c = "L1I", d <=> c = "L1D",
         Read(c, r, a, i, d)
  PROVE  IndInv'
<1> DEFINE p == Request(a, "LOAD", 1, i, d, {r})
           n == EnqueueRead(RQ[c], c, p)
<1>0. /\ QueuesOK(RQ, WQ, PQ) /\ MissesOK(MSHR) /\ LinesOK(block)
      /\ OnceOK(block, MSHR) /\ AccountsOK(RQ, PQ, MSHR) /\ HeldOK(waiting, RQ, MSHR)
  BY DEF IndInv
<1>1. c \in Caches /\ c # "L2C" /\ a \in Addrs /\ \A x \in L1 : x \in Caches
  BY FirstLevel, BlocksAre
<1>2. /\ p \in Packet /\ p.addr = a /\ p.type = "LOAD" /\ p.fill_level = 1 /\ p.dep = {r}
      /\ Flag("L1I", p) <=> i
      /\ Flag("L1D", p) <=> d
  <2>1. "LOAD" \in Types /\ 1 \in {1, 2} /\ {r} \in SUBSET Readers
    BY DEF Types
  <2> QED
    BY <1>1, <2>1, RequestIs
<1>3. /\ check_queue(RQ[c], p.addr) \/ Len(RQ[c]) < RQSize[c]
      /\ waiting' = [waiting EXCEPT ![r] = a]
      /\ RQ' = [RQ EXCEPT ![c] = n]
      /\ UNCHANGED <<WQ, PQ, MSHR, block>>
  BY <1>2 DEF Read
<1> HIDE DEF p
<1>4. ReadOf(c, p)
  <2>1. \A x \in L1 : Flag(x, p) <=> x = c
    BY <1>2, FirstLevel
  <2> QED
    BY <1>2, <2>1 DEF ReadOf, MayFill
<1>5. /\ Map(RQ) /\ \A x \in Caches : ReadQueue(x, RQ[x])
  BY <1>0 DEF QueuesOK
<1>6. /\ ReadQueue(c, n)
      /\ \A b, x : HeldBy(ToSet(RQ[c]), b, x) \/ HeldBy({p}, b, x) => HeldBy(ToSet(n), b, x)
  <2>1. c \in Caches /\ ReadQueue(c, RQ[c]) /\ ReadOf(c, p) /\ RoomForRead(RQ[c], c, p)
    BY <1>1, <1>3, <1>4, <1>5 DEF RoomForRead
  <2>2. ReadQueue(c, n) /\ HoldsBoth(n, RQ[c], p)
    BY Zenon, <2>1, EnqueuedRead
  <2> QED
    BY <2>2 DEF HoldsBoth
<1> HIDE DEF n
<1>7. /\ Map(RQ') /\ RQ'[c] = n /\ \A x \in Caches : x # c => RQ'[x] = RQ[x]
  BY <1>1, <1>3, <1>5 DEF Map
<1>8. QueuesOK(RQ', WQ', PQ')
  BY <1>0, <1>3, <1>5, <1>6, <1>7 DEF QueuesOK
<1>9. AccountsOK(RQ', PQ', MSHR')
  <2>1. RQ'["L2C"] = RQ["L2C"]
    BY <1>1, <1>7, FirstLevel
  <2> QED
    BY <1>0, <1>3, <2>1, SameAccounts
<1>10. HeldOK(waiting', RQ', MSHR')
  <2>1. waiting \in [Readers -> Addrs \union {NoAddr}]
    BY <1>0 DEF HeldOK
  <2>2. /\ waiting' \in [Readers -> Addrs \union {NoAddr}] /\ waiting'[r] = a
        /\ \A x \in Readers : x # r => waiting'[x] = waiting[x]
    BY <1>1, <1>3, <2>1
  <2>3. HeldBy(ToSet(RQ'[c]), a, r)
    <3>1. HeldBy({p}, a, r)
      BY <1>2 DEF HeldBy
    <3> QED
      BY <1>6, <1>7, <3>1
  <2>4. \A x \in L1 : \A b, y : HeldBy(ToSet(RQ[x]), b, y) => HeldBy(ToSet(RQ'[x]), b, y)
    BY <1>1, <1>6, <1>7
  <2> SUFFICES ASSUME NEW x \in Readers, waiting'[x] # NoAddr
               PROVE  \/ HeldBy(ToSet(RQ'[CacheOf(x)]), waiting'[x], x)
                      \/ HeldBy(MSHR'[CacheOf(x)], waiting'[x], x)
    BY <2>2 DEF HeldOK
  <2>5. CASE x = r
    BY <2>2, <2>3, <2>5
  <2>6. CASE x # r
    <3>1. CacheOf(x) \in L1
      BY FirstLevel DEF CacheOf
    <3>2. \/ HeldBy(ToSet(RQ[CacheOf(x)]), waiting[x], x)
          \/ HeldBy(MSHR[CacheOf(x)], waiting[x], x)
      BY <1>0, <2>2, <2>6 DEF HeldOK
    <3> QED
      BY <1>3, <2>2, <2>4, <2>6, <3>1, <3>2
  <2> QED
    BY <2>5, <2>6
<1>11. MissesOK(MSHR') /\ LinesOK(block') /\ OnceOK(block', MSHR')
  BY <1>0, <1>3
<1> QED
  BY <1>8, <1>9, <1>10, <1>11, Primed

LEMMA LongerQueue ==
  ASSUME NEW q \in Seq(Packet), NEW x \in Packet
  PROVE  /\ Append(q, x) \in Seq(Packet) /\ Len(Append(q, x)) = Len(q) + 1
         /\ \A y \in ToSet(Append(q, x)) : y = x \/ y \in ToSet(q)
<1> DEFINE n == Append(q, x)
<1>1. /\ n \in Seq(Packet) /\ Len(n) = Len(q) + 1 /\ Len(q) \in Nat
      /\ DOMAIN q = 1 .. Len(q) /\ DOMAIN n = 1 .. Len(q) + 1
      /\ \A i \in 1 .. Len(q) : n[i] = q[i]
      /\ n[Len(q) + 1] = x
  OBVIOUS
<1> HIDE DEF n
<1>2. ASSUME NEW y \in ToSet(n) PROVE y = x \/ y \in ToSet(q)
  <2>1. PICK i \in 1 .. Len(q) + 1 : y = n[i]
    BY <1>1 DEF ToSet
  <2>2. i \in 1 .. Len(q) \/ i = Len(q) + 1
    BY <1>1
  <2> QED
    BY <1>1, <2>1, <2>2 DEF ToSet
<1> QED
  BY <1>1, <1>2 DEF n

LEMMA StoreStep ==
  ASSUME IndInv, NEW a \in Data, Store(a)
  PROVE  IndInv'
<1> DEFINE p == Request(a, "RFO", 1, FALSE, TRUE, {})
           n == Append(WQ["L1D"], p)
<1>0. /\ QueuesOK(RQ, WQ, PQ) /\ MissesOK(MSHR) /\ LinesOK(block)
      /\ OnceOK(block, MSHR) /\ AccountsOK(RQ, PQ, MSHR) /\ HeldOK(waiting, RQ, MSHR)
  BY DEF IndInv
<1>1. /\ Len(WQ["L1D"]) < WQSize["L1D"] /\ WQ' = [WQ EXCEPT !["L1D"] = n]
      /\ UNCHANGED <<RQ, PQ, MSHR, block, waiting>>
  BY DEF Store
<1>2. /\ p \in Packet /\ p.addr = a /\ p.type = "RFO" /\ p.fill_level = 1
      /\ ~ Flag("L1I", p) /\ Flag("L1D", p)
  <2>1. /\ p \in Packet /\ p.addr = a /\ p.type = "RFO" /\ p.fill_level = 1
        /\ p.fill_l1i = FALSE /\ p.fill_l1d = TRUE
    BY DEF Request, Packet, Types, Addrs
  <2> HIDE DEF p
  <2> QED
    BY Zenon, <2>1 DEF Flag
<1> HIDE DEF p
<1>3. ReadOf("L1D", p)
  <2>1. \A x \in L1 : Flag(x, p) <=> x = "L1D"
    BY <1>2, FirstLevel
  <2> QED
    BY <1>2, <2>1, FirstLevel DEF ReadOf, MayFill, Blocks
<1>4. /\ Map(WQ) /\ WQ["L1I"] = << >> /\ "L1D" \in Caches
      /\ \A c \in Caches : WQ[c] \in Seq(Packet) /\ Len(WQ[c]) <= WQSize[c]
      /\ \A x \in ToSet(WQ["L1D"]) : ReadOf("L1D", x)
  BY <1>0, FirstLevel DEF QueuesOK
<1>5. /\ n \in Seq(Packet) /\ Len(n) <= WQSize["L1D"]
      /\ \A x \in ToSet(n) : x = p \/ x \in ToSet(WQ["L1D"])
  <2>1. WQSize["L1D"] \in Nat
    BY <1>4, Sizes
  <2> DEFINE q == WQ["L1D"]
  <2>2. q \in Seq(Packet) /\ Len(q) < WQSize["L1D"] /\ Len(q) \in Nat
    BY <1>1, <1>4
  <2> HIDE DEF q
  <2>3. /\ Append(q, p) \in Seq(Packet) /\ Len(Append(q, p)) = Len(q) + 1
        /\ \A x \in ToSet(Append(q, p)) : x = p \/ x \in ToSet(q)
    BY <1>2, <2>2, LongerQueue
  <2> QED
    BY <2>1, <2>2, <2>3 DEF q
<1> HIDE DEF n
<1>6. Map(WQ') /\ WQ'["L1D"] = n /\ \A c \in Caches : c # "L1D" => WQ'[c] = WQ[c]
  BY <1>1, <1>4 DEF Map
<1>7. QueuesOK(RQ', WQ', PQ')
  <2>1. WQ'["L1I"] = << >>
    BY <1>4, <1>6, FirstLevel
  <2>2. \A c \in Caches : WQ'[c] \in Seq(Packet) /\ Len(WQ'[c]) <= WQSize[c]
    BY <1>4, <1>5, <1>6
  <2>3. \A x \in ToSet(WQ'["L1D"]) : ReadOf("L1D", x)
    BY <1>3, <1>4, <1>5, <1>6
  <2> QED
    BY <1>0, <1>1, <1>6, <2>1, <2>2, <2>3 DEF QueuesOK
<1>8. /\ MissesOK(MSHR') /\ LinesOK(block') /\ OnceOK(block', MSHR')
      /\ AccountsOK(RQ', PQ', MSHR') /\ HeldOK(waiting', RQ', MSHR')
  BY <1>0, <1>1
<1> QED
  BY <1>7, <1>8, Primed

LEMMA PrefetchLineStep ==
  ASSUME IndInv, NEW s \in Prefetches, prefetch_line(s)
  PROVE  IndInv'
<1> DEFINE c == s.cache
           i == c = "L1I"
           d == c # "L1I" /\ s.level = 1
           p == Request(s.addr, "PREFETCH", s.level, i, d, {})
           n == EnqueuePrefetch(PQ[c], c, p)
<1>0. /\ QueuesOK(RQ, WQ, PQ) /\ MissesOK(MSHR) /\ LinesOK(block)
      /\ OnceOK(block, MSHR) /\ AccountsOK(RQ, PQ, MSHR) /\ HeldOK(waiting, RQ, MSHR)
  BY DEF IndInv
<1>1. /\ c \in Caches /\ s.addr \in Addrs /\ s.level \in {1, 2}
      /\ IF s.level = 1 THEN c \in L1 ELSE c # "L1I"
  BY PrefetchesAssumption
<1>2. /\ Len(PQ[c]) < PQSize[c] /\ PQ' = [PQ EXCEPT ![c] = n]
      /\ UNCHANGED <<RQ, WQ, MSHR, block, waiting>>
  BY DEF prefetch_line
<1>3. /\ p \in Packet /\ p.addr = s.addr /\ p.type = "PREFETCH" /\ p.fill_level = s.level
      /\ p.dep = {}
      /\ Flag("L1I", p) <=> i
      /\ Flag("L1D", p) <=> d
  <2>1. "PREFETCH" \in Types /\ {} \in SUBSET Readers /\ i \in BOOLEAN /\ d \in BOOLEAN
    BY DEF Types
  <2> HIDE DEF i, d, c
  <2> QED
    BY <1>1, <2>1, RequestIs
<1> HIDE DEF p
<1>4. \A x \in L1 : Flag(x, p) <=> x = c /\ s.level = 1
  BY <1>1, <1>3, FirstLevel
<1>5. PrefetchOf(c, p)
  <2>1. s.level = 1 => c \in L1 /\ s.addr \in Prefetched(c)
    BY <1>1 DEF Prefetched
  <2> QED
    BY <1>3, <1>4, <2>1 DEF PrefetchOf, MayFill
<1>6. Map(PQ) /\ \A x \in Caches : PrefetchQueue(x, PQ[x])
  BY <1>0 DEF QueuesOK
<1> HIDE DEF i, d, c
<1>7. /\ PrefetchQueue(c, n)
      /\ \A x \in L1 : Asked(x, ToSet(n)) = Asked(x, ToSet(PQ[c])) \union AskedBy(x, p)
  <2>1. check_queue(PQ[c], p.addr) \/ Len(PQ[c]) < PQSize[c]
    BY <1>2
  <2>2. PrefetchQueue(c, PQ[c])
    BY <1>1, <1>6
  <2> QED
    BY <1>1, <1>5, <2>1, <2>2, EnqueuedPrefetch
<1> HIDE DEF n
<1>8. Map(PQ') /\ PQ'[c] = n /\ \A x \in Caches : x # c => PQ'[x] = PQ[x]
  BY <1>1, <1>2, <1>6 DEF Map
<1>9. QueuesOK(RQ', WQ', PQ')
  BY <1>0, <1>2, <1>6, <1>7, <1>8 DEF QueuesOK
<1>10. AccountsOK(RQ', PQ', MSHR')
  <2>1. CASE c = "L2C"
    <3>1. \A x \in L1 : AskedBy(x, p) = {}
      BY <1>4, <2>1, FirstLevel DEF AskedBy
    <3>2. \A x \in L1 : Asked(x, ToSet(PQ'["L2C"])) = Asked(x, ToSet(PQ["L2C"]))
      BY <1>7, <1>8, <2>1, <3>1
    <3> QED
      BY <1>0, <1>2, <3>2 DEF AccountsOK
  <2>2. CASE c # "L2C"
    <3>1. PQ'["L2C"] = PQ["L2C"]
      BY <1>8, <2>2, FirstLevel
    <3> QED
      BY <1>0, <1>2, <3>1 DEF AccountsOK
  <2> QED
    BY <2>1, <2>2
<1>11. /\ MissesOK(MSHR') /\ LinesOK(block') /\ OnceOK(block', MSHR') /\ HeldOK(waiting', RQ', MSHR')
  BY <1>0, <1>2
<1> QED
  BY <1>9, <1>10, <1>11, Primed

(***************************************************************************)
(* Fills.                                                                  *)
(***************************************************************************)
LEMMA EvictedLine ==
  ASSUME QueuesOK(RQ, WQ, PQ), LinesOK(block), NEW c \in Caches, NEW way \in WaysOf(c),
         CanEvict(c, way)
  PROVE  QueuesOK(RQ, EvictInto(c, way), PQ)
<1> DEFINE l == block[c][way]
           q == WQ["L2C"]
           p == Request(l.addr, "WRITEBACK", 2, FALSE, FALSE, {})
<1>1. CASE c = "L1D" /\ l.dirty /\ ~ check_queue(q, l.addr)
  <2>1. block[c] \in [WaysOf(c) -> Line(c)] /\ \A w \in WaysOf(c) : block[c][w].dirty => block[c][w].addr # NoAddr
    BY DEF LinesOK, GoodLines
  <2>2. l \in Line(c) /\ l.addr # NoAddr
    BY <1>1, <2>1
  <2>3. l.addr \in Addrs
    BY <2>2, LineParts
  <2> HIDE DEF l
  <2>4. p \in Packet
    BY <2>3 DEF Request, Packet, Types
  <2>5. Len(q) < WQSize["L2C"]
    BY <1>1, FirstLevel DEF CanEvict, l
  <2>6. EvictInto(c, way) = [WQ EXCEPT !["L2C"] = Append(q, p)]
    BY <1>1 DEF EvictInto, add_wq, l
  <2>7. /\ Map(WQ) /\ "L2C" \in Caches /\ q \in Seq(Packet) /\ WQSize["L2C"] \in Nat
    BY FirstLevel, Sizes DEF QueuesOK
  <2> HIDE DEF p
  <2>8. Append(q, p) \in Seq(Packet) /\ Len(Append(q, p)) <= WQSize["L2C"]
    <3> HIDE DEF q
    <3> QED
      BY <2>4, <2>5, <2>7, LongerQueue
  <2> DEFINE n == Append(q, p)
             W == [WQ EXCEPT !["L2C"] = n]
  <2> HIDE DEF n
  <2>9. Map(W) /\ W["L2C"] = n /\ \A x \in Caches : x # "L2C" => W[x] = WQ[x]
    BY <2>7 DEF Map
  <2> HIDE DEF W, q
  <2>10. QueuesOK(RQ, W, PQ)
    BY <2>8, <2>9, FirstLevel DEF QueuesOK, n
  <2> QED
    BY <2>6, <2>10 DEF W, n
<1>2. CASE c = "L1D" /\ l.dirty /\ check_queue(q, l.addr)
  <2>1. EvictInto(c, way) = [WQ EXCEPT !["L2C"] = q]
    BY <1>2 DEF EvictInto, add_wq
  <2>2. [WQ EXCEPT !["L2C"] = q] = WQ
    BY FirstLevel DEF QueuesOK, Map
  <2> QED
    BY <2>1, <2>2
<1>3. CASE ~ (c = "L1D" /\ l.dirty)
  <2>1. EvictInto(c, way) = WQ
    BY <1>3 DEF EvictInto
  <2> QED
    BY <2>1
<1> QED
  BY <1>1, <1>2, <1>3

LEMMA ReplacedLine ==
  ASSUME LinesOK(block), NEW c \in Caches, NEW a \in Addrs, NEW dirty \in BOOLEAN,
         block' = [block EXCEPT ![c] = fill_cache(c, lru_victim(c), a, dirty)]
  PROVE  /\ lru_victim(c) \in WaysOf(c) /\ LinesOK(block')
         /\ \A x \in Caches : \A w \in WaysOf(x) :
              block'[x][w].addr = IF x = c /\ w = lru_victim(c) THEN a ELSE block[x][w].addr
<1> DEFINE way == lru_victim(c)
           u == fill_cache(c, way, a, dirty)
<1>1. DOMAIN block = Caches /\ \A x \in Caches : GoodLines(x, block[x])
  BY DEF LinesOK
<1>2. way \in WaysOf(c)
  BY <1>1, VictimIs
<1> HIDE DEF way
<1>3. /\ GoodLines(c, u)
      /\ \A w \in WaysOf(c) : u[w].addr = IF w = way THEN a ELSE block[c][w].addr
  BY <1>1, <1>2, FilledLines
<1>4. block' = [block EXCEPT ![c] = u]
  BY DEF way
<1> HIDE DEF u
<1>5. DOMAIN block' = Caches /\ block'[c] = u /\ \A x \in Caches : x # c => block'[x] = block[x]
  BY <1>1, <1>4
<1>6. LinesOK(block')
  BY <1>1, <1>3, <1>5 DEF LinesOK
<1>7. \A x \in Caches : \A w \in WaysOf(x) :
        block'[x][w].addr = IF x = c /\ w = way THEN a ELSE block[x][w].addr
  BY <1>3, <1>5
<1> QED
  BY <1>2, <1>6, <1>7 DEF way

LEMMA FillStep ==
  ASSUME IndInv, NEW c \in Caches, NEW e \in MSHR[c], Fill(c, e)
  PROVE  IndInv'
<1> DEFINE way == lru_victim(c)
           dirty == c = "L1D" /\ e.type = "RFO"
           T == MSHR[c] \ {e}
           m == [MSHR EXCEPT ![c] = T]
<1>0. /\ QueuesOK(RQ, WQ, PQ) /\ MissesOK(MSHR) /\ LinesOK(block)
      /\ OnceOK(block, MSHR) /\ AccountsOK(RQ, PQ, MSHR) /\ HeldOK(waiting, RQ, MSHR)
  BY DEF IndInv
<1>1. /\ e.returned /\ CanEvict(c, way) /\ WQ' = EvictInto(c, way)
      /\ block' = [block EXCEPT ![c] = fill_cache(c, way, e.addr, dirty)]
      /\ MSHR' = return_data(m, c, e)
      /\ waiting' = Answered(e.dep) /\ RQ' = RQ /\ PQ' = PQ
  BY DEF Fill
<1>2. Map(MSHR) /\ \A x \in Caches : MissSet(x, MSHR[x])
  BY <1>0 DEF MissesOK
<1>3. MissOf(c, e) /\ e \in Packet /\ e.addr \in Addrs /\ dirty \in BOOLEAN
  <2>1. MissOf(c, e)
    BY <1>2 DEF MissSet
  <2> QED
    BY <2>1, PacketParts DEF MissOf
<1> HIDE DEF dirty
<1>4. /\ way \in WaysOf(c) /\ LinesOK(block')
      /\ \A x \in Caches : \A w \in WaysOf(x) :
           block'[x][w].addr = IF x = c /\ w = way THEN e.addr ELSE block[x][w].addr
  BY <1>0, <1>1, <1>3, ReplacedLine
<1> HIDE DEF way
<1>5. QueuesOK(RQ', WQ', PQ')
  BY <1>0, <1>1, <1>4, EvictedLine
<1>6. /\ MissSet(c, T) /\ Addressed(T) = Addressed(MSHR[c]) \ {e.addr}
      /\ Unanswered(T) = Unanswered(MSHR[c]) \ {e.addr}
      /\ \A d \in L1 : /\ Asked(d, MSHR[c]) = Asked(d, T) \union AskedBy(d, e)
                       /\ Asked(d, T) \intersect AskedBy(d, e) = {}
      /\ \A b, r : HeldBy(MSHR[c], b, r) => HeldBy(T, b, r) \/ HeldBy({e}, b, r)
  BY <1>2, RemovedMisses
<1> HIDE DEF T
<1>7. Map(m) /\ m[c] = T /\ \A x \in Caches : x # c => m[x] = MSHR[x]
  BY <1>2 DEF Map
<1> HIDE DEF m
<1>8. MissesOK(m)
  BY <1>2, <1>6, <1>7 DEF MissesOK
<1>9. \A b, r : HeldBy({e}, b, r) => r \in e.dep
  BY DEF HeldBy
<1>10. \A x \in L1 : x \in Caches /\ x # "L2C"
  BY FirstLevel
<1>11. CASE c \in L1
  <2>1. MSHR' = m
    BY <1>1, <1>3, <1>11, ReturnedAbove
  <2>2. AccountsOK(RQ', PQ', MSHR')
    <3>1. e.addr \notin Unanswered(MSHR[c])
      <4>1. \A f \in MSHR[c] : f.addr = e.addr => f = e
        BY <1>2 DEF MissSet
      <4> QED
        BY <1>1, <4>1 DEF Unanswered
    <3>2. \A d \in L1 : Unanswered(MSHR'[d]) = Unanswered(MSHR[d])
      BY <1>6, <1>7, <1>10, <2>1, <3>1
    <3>3. MSHR'["L2C"] = MSHR["L2C"]
      BY <1>7, <1>10, <1>11, <2>1, FirstLevel
    <3> QED
      BY <1>0, <1>1, <3>2, <3>3, SameAccounts
  <2>3. OnceOK(block', MSHR')
    <3> SUFFICES ASSUME NEW x \in L1
                 PROVE  /\ \A v, w \in WaysOf(x) : block'[x][v].addr = block'[x][w].addr
                                                   /\ block'[x][v].addr # NoAddr => v = w
                        /\ \A w \in WaysOf(x) : block'[x][w].addr \notin Addressed(MSHR'[x])
      BY DEF OnceOK
    <3>1. /\ \A v, w \in WaysOf(x) : block[x][v].addr = block[x][w].addr /\ block[x][v].addr # NoAddr => v = w
          /\ \A w \in WaysOf(x) : block[x][w].addr \notin Addressed(MSHR[x])
      BY <1>0 DEF OnceOK
    <3>2. e.addr \in Addressed(MSHR[c])
      BY DEF Addressed
    <3>3. CASE x = c
      BY <1>4, <1>6, <1>7, <1>10, <2>1, <3>1, <3>2, <3>3
    <3>4. CASE x # c
      BY <1>4, <1>7, <1>10, <2>1, <3>1, <3>4
    <3> QED
      BY <3>3, <3>4
  <2>4. HeldOK(waiting', RQ', MSHR')
    <3>1. \A x \in L1 : \A b, r : HeldBy(MSHR[x], b, r) => HeldBy(MSHR'[x], b, r) \/ r \in e.dep
      BY <1>6, <1>7, <1>9, <1>10, <2>1
    <3>2. HeldOrIn(RQ', MSHR', RQ, MSHR, e.dep)
      BY <1>1, <3>1 DEF HeldOrIn
    <3>3. AnsweredOnly(waiting', waiting, e.dep)
      BY <1>0, <1>1, AnsweredIs
    <3> QED
      BY Zenon, <1>0, <3>2, <3>3, StillHeld
  <2> QED
    BY <1>4, <1>5, <1>8, <2>1, <2>2, <2>3, <2>4, Primed
<1>12. CASE c = "L2C"
  <2>1. AskedFromAbove(e)
    BY <1>3 DEF MissOf, AskedFromAbove
  <2>2. /\ MissesOK(MSHR') /\ MSHR'["L2C"] = T
        /\ \A d \in L1 : /\ Addressed(MSHR'[d]) = Addressed(MSHR[d])
                         /\ Unanswered(MSHR'[d]) = Unanswered(MSHR[d]) \ AskedBy(d, e)
        /\ \A d \in L1 : \A b, x : HeldBy(MSHR[d], b, x) => HeldBy(MSHR'[d], b, x)
    <3>1. /\ MissesOK(MSHR') /\ MSHR'["L2C"] = m["L2C"]
          /\ \A d \in L1 : /\ Addressed(MSHR'[d]) = Addressed(m[d])
                           /\ Unanswered(MSHR'[d]) = Unanswered(m[d]) \ AskedBy(d, e)
          /\ \A d \in L1 : \A b, x : HeldBy(m[d], b, x) => HeldBy(MSHR'[d], b, x)
      <4>1. MSHR' = return_data(m, "L2C", e) /\ e \in Packet
        BY <1>1, <1>3, <1>12 DEF MissOf
      <4>2. MissesOK(MSHR') /\ AnsweredAbove(MSHR', m, e)
        BY Zenon, <1>8, <2>1, <4>1, Returned
      <4> QED
        BY <4>2 DEF AnsweredAbove
    <3>2. m["L2C"] = T /\ \A d \in L1 : m[d] = MSHR[d]
      BY <1>7, <1>10, <1>12
    <3> QED
      BY <3>1, <3>2
  <2>3. AccountsOK(RQ', PQ', MSHR')
    <3> SUFFICES ASSUME NEW d \in L1
                 PROVE  Balanced(Asked(d, ToSet(RQ'["L2C"])), Asked(d, ToSet(PQ'["L2C"])),
                                 Asked(d, MSHR'["L2C"]), Unanswered(MSHR'[d]))
      BY DEF AccountsOK
    <3> DEFINE K == AskedBy(d, e)
               M == Asked(d, T)
               R == Asked(d, ToSet(RQ["L2C"]))
               P == Asked(d, ToSet(PQ["L2C"]))
               U == Unanswered(MSHR[d])
    <3>1. Balanced(R, P, M \union K, U) /\ M \intersect K = {}
      BY <1>0, <1>6, <1>12 DEF AccountsOK
    <3>2. Unanswered(MSHR'[d]) = U \ K /\ Asked(d, MSHR'["L2C"]) = M
      BY <2>2
    <3> HIDE DEF K, M, R, P, U
    <3>3. K \intersect (R \union P \union M) = {}
      BY <3>1 DEF Balanced
    <3>4. Balanced(R, P, M, U \ K)
      BY <3>1, <3>3, Answers
    <3> QED
      BY <1>1, <3>2, <3>4 DEF R, P
  <2>4. OnceOK(block', MSHR')
    <3>1. \A x \in L1 : \A w \in WaysOf(x) : block'[x][w].addr = block[x][w].addr
      BY <1>4, <1>10, <1>12
    <3>2. \A x \in L1 : \A a \in Addressed(MSHR'[x]) : a \in Addressed(MSHR[x]) \/ ~ check_hit(x, a)
      BY <2>2
    <3> QED
      BY <1>0, <3>1, <3>2, StillOnce
  <2>5. HeldOK(waiting', RQ', MSHR')
    <3>1. AnsweredOnly(waiting', waiting, e.dep)
      BY <1>0, <1>1, AnsweredIs
    <3>2. HeldOrIn(RQ', MSHR', RQ, MSHR, e.dep)
      BY <1>1, <2>2 DEF HeldOrIn
    <3> QED
      BY Zenon, <1>0, <3>1, <3>2, StillHeld
  <2> QED
    BY <1>4, <1>5, <2>2, <2>3, <2>4, <2>5, Primed
<1> QED
  BY <1>11, <1>12, FirstLevel DEF Caches

(***************************************************************************)
(* Write queues.                                                           *)
(***************************************************************************)
LEMMA TakenWrite ==
  ASSUME QueuesOK(RQ, WQ, PQ), NEW c \in Caches, WQ[c] # << >>
  PROVE  LET p == Head(WQ[c])
             W == [WQ EXCEPT ![c] = Tail(@)]
         IN  /\ c # "L1I" /\ p \in Packet /\ (c = "L1D" => ReadOf(c, p))
             /\ \A rq, pq : QueuesOK(rq, WQ, pq) => QueuesOK(rq, W, pq)
<1> DEFINE q == WQ[c]
           t == Tail(q)
           W == [WQ EXCEPT ![c] = t]
<1>1. /\ Map(WQ) /\ WQ["L1I"] = << >>
      /\ \A x \in Caches : WQ[x] \in Seq(Packet) /\ Len(WQ[x]) <= WQSize[x]
      /\ \A y \in ToSet(WQ["L1D"]) : ReadOf("L1D", y)
  BY DEF QueuesOK
<1>2. q \in Seq(Packet) /\ q # << >> /\ Len(q) <= WQSize[c] /\ WQSize[c] \in Nat
  BY <1>1, Sizes
<1> HIDE DEF q
<1>3. /\ Head(q) \in Packet /\ t \in Seq(Packet) /\ Len(t) = Len(q) - 1 /\ Head(q) \in ToSet(q)
      /\ \A y \in ToSet(t) : y \in ToSet(q)
  BY <1>2, TakenQueue
<1>4. Len(t) <= WQSize[c]
  <2>1. Len(q) \in Nat
    BY <1>2
  <2> QED
    BY <1>2, <1>3, <2>1
<1>5. c = "L1D" => \A y \in ToSet(q) : ReadOf(c, y)
  BY <1>1 DEF q
<1> HIDE DEF t
<1>6. Map(W) /\ W[c] = t /\ \A x \in Caches : x # c => W[x] = WQ[x]
  BY <1>1 DEF Map
<1> HIDE DEF W
<1>7. \A x \in Caches : W[x] \in Seq(Packet) /\ Len(W[x]) <= WQSize[x]
  BY <1>1, <1>3, <1>4, <1>6
<1>8. c # "L1I"
  BY <1>1
<1>9. W["L1I"] = << >> /\ \A y \in ToSet(W["L1D"]) : ReadOf("L1D", y)
  BY <1>1, <1>3, <1>5, <1>6, <1>8, FirstLevel
<1>10. \A rq, pq : QueuesOK(rq, WQ, pq) => QueuesOK(rq, W, pq)
  BY <1>6, <1>7, <1>9 DEF QueuesOK
<1> QED
  BY <1>3, <1>5, <1>8, <1>10 DEF q, t, W

LEMMA DirtiedLines ==
  ASSUME NEW c \in Caches, NEW b, GoodLines(c, b), NEW way \in WaysOf(c), b[way].addr # NoAddr
  PROVE  LET u == [b EXCEPT ![way].dirty = TRUE]
         IN  GoodLines(c, u) /\ \A w \in WaysOf(c) : u[w].addr = b[w].addr
<1> DEFINE l == [b[way] EXCEPT !.dirty = TRUE]
           u == [b EXCEPT ![way] = l]
<1>1. b \in [WaysOf(c) -> Line(c)]
  BY DEF GoodLines
<1>2. l \in Line(c) /\ l.addr = b[way].addr /\ l.lru = b[way].lru
  BY <1>1 DEF Line
<1> HIDE DEF l
<1>3. u \in [WaysOf(c) -> Line(c)] /\ \A w \in WaysOf(c) : u[w] = IF w = way THEN l ELSE b[w]
  BY <1>1, <1>2
<1> HIDE DEF u
<1>4. \A w \in WaysOf(c) : u[w].addr = b[w].addr /\ u[w].lru = b[w].lru
  BY <1>2, <1>3
<1>5. {u[w].lru : w \in WaysOf(c)} = 0 .. NumWay[c] - 1
  BY <1>4 DEF GoodLines
<1>6. \A w \in WaysOf(c) : u[w].dirty => u[w].addr # NoAddr
  BY <1>2, <1>3 DEF GoodLines
<1>7. GoodLines(c, u)
  BY <1>3, <1>5, <1>6 DEF GoodLines
<1> QED
  BY <1>4, <1>7 DEF u, l

LEMMA WriteHitStep ==
  ASSUME IndInv, NEW c \in Caches, WQ[c] # << >>, WriteHit(c, Head(WQ[c]))
  PROVE  IndInv'
<1> DEFINE p == Head(WQ[c])
           way == HitWay(c, p.addr)
           dirtied == [block[c] EXCEPT ![way].dirty = TRUE]
           u == IF p.type = "WRITEBACK" THEN dirtied ELSE lru_update(dirtied, way)
<1>0. /\ QueuesOK(RQ, WQ, PQ) /\ MissesOK(MSHR) /\ LinesOK(block)
      /\ OnceOK(block, MSHR) /\ AccountsOK(RQ, PQ, MSHR) /\ HeldOK(waiting, RQ, MSHR)
  BY DEF IndInv
<1>1. /\ check_hit(c, p.addr) /\ block' = [block EXCEPT ![c] = u]
      /\ WQ' = [WQ EXCEPT ![c] = Tail(@)] /\ UNCHANGED <<RQ, PQ, MSHR, waiting>>
  BY DEF WriteHit
<1>2. p \in Packet /\ QueuesOK(RQ', WQ', PQ')
  BY <1>0, <1>1, TakenWrite
<1>3. p.addr # NoAddr
  BY <1>2, PacketParts, CoreAssumption
<1> HIDE DEF p
<1>4. way \in WaysOf(c) /\ block[c][way].addr = p.addr
  BY <1>1, HitIs
<1>5. GoodLines(c, block[c])
  BY <1>0 DEF LinesOK
<1> HIDE DEF way
<1>6. GoodLines(c, dirtied) /\ \A w \in WaysOf(c) : dirtied[w].addr = block[c][w].addr
  BY <1>3, <1>4, <1>5, DirtiedLines
<1> HIDE DEF dirtied
<1>7. GoodLines(c, u) /\ \A w \in WaysOf(c) : u[w].addr = block[c][w].addr
  <2>1. CASE p.type = "WRITEBACK"
    BY <1>6, <2>1
  <2>2. CASE p.type # "WRITEBACK"
    <3>1. u = lru_update(dirtied, way)
      BY <2>2
    <3> HIDE DEF u
    <3> QED
      BY <1>4, <1>6, <3>1, UpdatedLines
  <2> QED
    BY <2>1, <2>2
<1> HIDE DEF u
<1>8. LinesOK(block') /\ \A x \in L1 : \A w \in WaysOf(x) : block'[x][w].addr = block[x][w].addr
  BY <1>0, <1>1, <1>7, TouchedLines
<1>9. OnceOK(block', MSHR')
  BY <1>0, <1>1, <1>8, OnceInLines
<1> QED
  BY <1>0, <1>1, <1>2, <1>8, <1>9, Primed

LEMMA WriteFillStep ==
  ASSUME IndInv, NEW c \in Caches, WQ[c] # << >>, WriteFill(c, Head(WQ[c]))
  PROVE  IndInv'
<1> DEFINE p == Head(WQ[c])
<1>0. /\ QueuesOK(RQ, WQ, PQ) /\ MissesOK(MSHR) /\ LinesOK(block)
      /\ OnceOK(block, MSHR) /\ AccountsOK(RQ, PQ, MSHR) /\ HeldOK(waiting, RQ, MSHR)
  BY DEF IndInv
<1>1. /\ c # "L1D" /\ block' = [block EXCEPT ![c] = fill_cache(c, lru_victim(c), p.addr, TRUE)]
      /\ WQ' = [WQ EXCEPT ![c] = Tail(@)] /\ UNCHANGED <<RQ, PQ, MSHR, waiting>>
  BY DEF WriteFill
<1>2. p \in Packet /\ c # "L1I" /\ QueuesOK(RQ', WQ', PQ')
  BY <1>0, <1>1, TakenWrite
<1>3. p.addr \in Addrs /\ TRUE \in BOOLEAN
  BY <1>2, PacketParts
<1> HIDE DEF p
<1>4. /\ LinesOK(block')
      /\ \A x \in Caches : \A w \in WaysOf(x) :
           block'[x][w].addr = IF x = c /\ w = lru_victim(c) THEN p.addr ELSE block[x][w].addr
  BY <1>0, <1>1, <1>3, ReplacedLine
<1>5. \A x \in L1 : \A w \in WaysOf(x) : block'[x][w].addr = block[x][w].addr
  <2>1. \A x \in L1 : x \in Caches /\ x # c
    BY <1>1, <1>2 DEF L1, Caches
  <2> QED
    BY <1>4, <2>1
<1>6. OnceOK(block', MSHR')
  BY <1>0, <1>1, <1>5, OnceInLines
<1> QED
  BY <1>0, <1>1, <1>2, <1>4, <1>6, Primed

LEMMA WriteMissStep ==
  ASSUME IndInv, NEW c \in Caches, WQ[c] # << >>, WriteMiss(c, Head(WQ[c]))
  PROVE  IndInv'
<1> DEFINE p == Head(WQ[c])
<1>0. /\ QueuesOK(RQ, WQ, PQ) /\ MissesOK(MSHR) /\ LinesOK(block)
      /\ OnceOK(block, MSHR) /\ AccountsOK(RQ, PQ, MSHR) /\ HeldOK(waiting, RQ, MSHR)
  BY DEF IndInv
<1>1. /\ c = "L1D" /\ ~ check_hit(c, p.addr) /\ ~ check_mshr(c, p.addr) /\ HasRoom(c)
      /\ add_rq(add_mshr(MSHR, c, p), RQ, c, p)
      /\ WQ' = [WQ EXCEPT ![c] = Tail(@)] /\ UNCHANGED <<PQ, block, waiting>>
  BY DEF WriteMiss
<1>2. c \in L1 /\ ReadOf(c, p) /\ \A rq, pq : QueuesOK(rq, WQ, pq) => QueuesOK(rq, WQ', pq)
  BY <1>0, <1>1, TakenWrite, FirstLevel
<1> HIDE DEF p
<1>3. Map(RQ) /\ \A x \in Caches : ReadQueue(x, RQ[x])
  BY <1>0 DEF QueuesOK
<1>4. /\ Map(RQ') /\ \A x \in Caches : ReadQueue(x, RQ'[x])
      /\ \A x \in L1 : RQ'[x] = RQ[x]
      /\ MissesOK(MSHR') /\ AccountsOK(RQ', PQ, MSHR')
      /\ Addressed(MSHR'[c]) = Addressed(MSHR[c]) \union {p.addr}
      /\ \A x \in L1 : x # c => Addressed(MSHR'[x]) = Addressed(MSHR[x])
      /\ \A x \in L1 : \A b, r : HeldBy(MSHR[x], b, r) => HeldBy(MSHR'[x], b, r)
  BY <1>0, <1>1, <1>2, <1>3, ReadSent
<1>5. QueuesOK(RQ', WQ', PQ')
  <2>1. QueuesOK(RQ', WQ, PQ')
    BY <1>0, <1>1, <1>4 DEF QueuesOK
  <2> QED
    BY <1>2, <2>1
<1>6. OnceOK(block', MSHR')
  <2>1. \A x \in L1 : \A a \in Addressed(MSHR'[x]) : a \in Addressed(MSHR[x]) \/ ~ check_hit(x, a)
    BY <1>1, <1>4
  <2> QED
    BY <1>0, <1>1, <2>1, StillOnce
<1>7. HeldOK(waiting', RQ', MSHR')
  <2>1. \A x \in L1 : \A b, r : HeldBy(ToSet(RQ[x]), b, r) \/ HeldBy(MSHR[x], b, r) =>
          HeldBy(ToSet(RQ'[x]), b, r) \/ HeldBy(MSHR'[x], b, r)
    BY <1>4
  <2> QED
    BY <1>0, <1>1, <2>1, StillWaiting
<1> QED
  BY <1>0, <1>1, <1>4, <1>5, <1>6, <1>7, Primed

(***************************************************************************)
(* Merges, and read queues.                                                *)
(***************************************************************************)
\* Misses m are those of MSHR where packet p is merged into the miss of cache c.
MergedAt(m, c, p) ==
  /\ m[c] = MergedInto(MSHR[c], p) /\ \A x \in Caches : x # c => m[x] = MSHR[x]
  /\ \A x \in Caches : Addressed(m[x]) = Addressed(MSHR[x]) /\ Unanswered(m[x]) = Unanswered(MSHR[x])
  /\ \A x \in Caches : \A b, r : HeldBy(MSHR[x], b, r) => HeldBy(m[x], b, r)
  /\ \A b, r : HeldBy({p}, b, r) => HeldBy(m[c], b, r)

LEMMA MergedMSHR ==
  ASSUME MissesOK(MSHR), NEW c \in Caches, NEW p, ReadOf(c, p), check_mshr(c, p.addr)
  PROVE  MissesOK(MergeMSHR(c, p)) /\ MergedAt(MergeMSHR(c, p), c, p)
<1> DEFINE T == MergedInto(MSHR[c], p)
           m == MergeMSHR(c, p)
<1>1. Map(MSHR) /\ \A x \in Caches : MissSet(x, MSHR[x])
  BY DEF MissesOK
<1>2. m = [MSHR EXCEPT ![c] = T]
  BY DEF MergeMSHR, MergedInto
<1>3. p.addr \in Addressed(MSHR[c])
  BY DEF check_mshr, Addressed
<1>4. /\ MissSet(c, T) /\ Addressed(T) = Addressed(MSHR[c])
      /\ Unanswered(T) = Unanswered(MSHR[c])
      /\ \A b, r : HeldBy(MSHR[c], b, r) \/ HeldBy({p}, b, r) => HeldBy(T, b, r)
  BY <1>1, <1>3, MergedMisses
<1> HIDE DEF T, m
<1>5. Map(m) /\ m[c] = T /\ \A x \in Caches : x # c => m[x] = MSHR[x]
  BY <1>1, <1>2 DEF Map
<1>6. MissesOK(m)
  BY <1>1, <1>4, <1>5 DEF MissesOK
<1>7. MergedAt(m, c, p)
  BY <1>4, <1>5 DEF T, MergedAt
<1> QED
  BY <1>6, <1>7 DEF m

LEMMA WriteMergeStep ==
  ASSUME IndInv, NEW c \in Caches, WQ[c] # << >>, WriteMerge(c, Head(WQ[c]))
  PROVE  IndInv'
<1> DEFINE p == Head(WQ[c])
<1>0. /\ QueuesOK(RQ, WQ, PQ) /\ MissesOK(MSHR) /\ LinesOK(block)
      /\ OnceOK(block, MSHR) /\ AccountsOK(RQ, PQ, MSHR) /\ HeldOK(waiting, RQ, MSHR)
  BY DEF IndInv
<1>1. /\ c = "L1D" /\ check_mshr(c, p.addr) /\ MSHR' = MergeMSHR(c, p)
      /\ WQ' = [WQ EXCEPT ![c] = Tail(@)] /\ UNCHANGED <<RQ, PQ, block, waiting>>
  BY DEF WriteMerge
<1>2. ReadOf(c, p) /\ QueuesOK(RQ', WQ', PQ')
  BY <1>0, <1>1, TakenWrite
<1> HIDE DEF p
<1>3. /\ MissesOK(MSHR') /\ \A x \in Caches : x # c => MSHR'[x] = MSHR[x]
      /\ \A x \in Caches : Addressed(MSHR'[x]) = Addressed(MSHR[x]) /\ Unanswered(MSHR'[x]) = Unanswered(MSHR[x])
      /\ \A x \in Caches : \A b, r : HeldBy(MSHR[x], b, r) => HeldBy(MSHR'[x], b, r)
  <2>1. MissesOK(MSHR') /\ MergedAt(MSHR', c, p)
    BY Zenon, <1>0, <1>1, <1>2, MergedMSHR
  <2> QED
    BY <2>1 DEF MergedAt
<1>4. \A x \in L1 : x \in Caches
  BY FirstLevel
<1>5. AccountsOK(RQ', PQ', MSHR')
  <2>1. MSHR'["L2C"] = MSHR["L2C"]
    BY <1>1, <1>3, FirstLevel
  <2> QED
    BY <1>0, <1>1, <1>3, <1>4, <2>1, SameAccounts
<1>6. OnceOK(block', MSHR')
  BY <1>0, <1>1, <1>3, <1>4 DEF OnceOK
<1>7. HeldOK(waiting', RQ', MSHR')
  <2>1. \A x \in L1 : \A b, r : HeldBy(ToSet(RQ[x]), b, r) \/ HeldBy(MSHR[x], b, r) =>
          HeldBy(ToSet(RQ'[x]), b, r) \/ HeldBy(MSHR'[x], b, r)
    BY <1>1, <1>3, <1>4
  <2> QED
    BY <1>0, <1>1, <2>1, StillWaiting
<1> QED
  BY <1>0, <1>1, <1>2, <1>3, <1>5, <1>6, <1>7, Primed

LEMMA TakenReads ==
  ASSUME QueuesOK(RQ, WQ, PQ), NEW c \in Caches, RQ[c] # << >>, AccountsOK(RQ, PQ, MSHR)
  PROVE  LET p == Head(RQ[c])
             q == [RQ EXCEPT ![c] = Tail(@)]
         IN  /\ ReadOf(c, p) /\ Map(q) /\ \A x \in Caches : ReadQueue(x, q[x])
             /\ QueuesOK(q, WQ, PQ) /\ \A x \in Caches : x # c => q[x] = RQ[x]
             /\ c \in L1 => AccountsOK(q, PQ, MSHR)
             /\ \A d \in L1 : /\ Asked(d, ToSet(RQ[c])) = Asked(d, ToSet(q[c])) \union AskedBy(d, p)
                              /\ Asked(d, ToSet(q[c])) \intersect AskedBy(d, p) = {}
             /\ \A x \in Caches : \A b, r : HeldBy(ToSet(RQ[x]), b, r) =>
                  HeldBy(ToSet(q[x]), b, r) \/ (x = c /\ HeldBy({p}, b, r))
<1> DEFINE p == Head(RQ[c])
           t == Tail(RQ[c])
           q == [RQ EXCEPT ![c] = t]
<1>1. Map(RQ) /\ \A x \in Caches : ReadQueue(x, RQ[x])
  BY DEF QueuesOK
<1>2. /\ ReadOf(c, p) /\ ReadQueue(c, t)
      /\ \A d \in L1 : /\ Asked(d, ToSet(RQ[c])) = Asked(d, ToSet(t)) \union AskedBy(d, p)
                       /\ Asked(d, ToSet(t)) \intersect AskedBy(d, p) = {}
      /\ \A b, r : HeldBy(ToSet(RQ[c]), b, r) => HeldBy(ToSet(t), b, r) \/ HeldBy({p}, b, r)
  BY <1>1, TakenRead
<1> HIDE DEF p, t
<1>3. Map(q) /\ q[c] = t /\ \A x \in Caches : x # c => q[x] = RQ[x]
  BY <1>1 DEF Map
<1> HIDE DEF q
<1>4. \A x \in Caches : ReadQueue(x, q[x])
  BY <1>1, <1>2, <1>3
<1>5. QueuesOK(q, WQ, PQ)
  BY <1>3, <1>4 DEF QueuesOK
<1>6. ASSUME c \in L1 PROVE AccountsOK(q, PQ, MSHR)
  <2>1. q["L2C"] = RQ["L2C"]
    BY <1>3, <1>6, FirstLevel
  <2> QED
    BY <2>1, SameAccounts
<1>7. \A x \in Caches : \A b, r : HeldBy(ToSet(RQ[x]), b, r) =>
        HeldBy(ToSet(q[x]), b, r) \/ (x = c /\ HeldBy({p}, b, r))
  BY <1>2, <1>3
<1> QED
  BY <1>2, <1>3, <1>4, <1>5, <1>6, <1>7 DEF p, t, q

LEMMA ReadHitStep ==
  ASSUME IndInv, NEW c \in Caches, RQ[c] # << >>, ReadHit(c, Head(RQ[c]))
  PROVE  IndInv'
<1> DEFINE p == Head(RQ[c])
           u == lru_update(block[c], HitWay(c, p.addr))
<1>0. /\ QueuesOK(RQ, WQ, PQ) /\ MissesOK(MSHR) /\ LinesOK(block)
      /\ OnceOK(block, MSHR) /\ AccountsOK(RQ, PQ, MSHR) /\ HeldOK(waiting, RQ, MSHR)
  BY DEF IndInv
<1>1. /\ check_hit(c, p.addr) /\ block' = [block EXCEPT ![c] = u]
      /\ MSHR' = return_data(MSHR, c, p) /\ RQ' = [RQ EXCEPT ![c] = Tail(@)]
      /\ waiting' = Answered(p.dep) /\ WQ' = WQ /\ PQ' = PQ
  BY DEF ReadHit
<1>2. /\ ReadOf(c, p) /\ QueuesOK(RQ', WQ', PQ') /\ \A x \in Caches : x # c => RQ'[x] = RQ[x]
      /\ c \in L1 => AccountsOK(RQ', PQ, MSHR)
      /\ \A d \in L1 : /\ Asked(d, ToSet(RQ[c])) = Asked(d, ToSet(RQ'[c])) \union AskedBy(d, p)
                       /\ Asked(d, ToSet(RQ'[c])) \intersect AskedBy(d, p) = {}
      /\ \A x \in Caches : \A b, r : HeldBy(ToSet(RQ[x]), b, r) =>
           HeldBy(ToSet(RQ'[x]), b, r) \/ (x = c /\ HeldBy({p}, b, r))
  BY <1>0, <1>1, TakenReads
<1> HIDE DEF p
<1>4. GoodLines(c, u) /\ \A w \in WaysOf(c) : u[w].addr = block[c][w].addr
  BY <1>0, <1>1, HitIs, UpdatedLines DEF LinesOK
<1> HIDE DEF u
<1>5. LinesOK(block') /\ \A x \in L1 : \A w \in WaysOf(x) : block'[x][w].addr = block[x][w].addr
  BY <1>0, <1>1, <1>4, TouchedLines
<1>6. \A x \in L1 : x \in Caches
  BY FirstLevel
<1>7. /\ MissesOK(MSHR') /\ \A x \in L1 : Addressed(MSHR'[x]) = Addressed(MSHR[x])
      /\ \A x \in L1 : \A b, r : HeldBy(MSHR[x], b, r) => HeldBy(MSHR'[x], b, r)
      /\ AccountsOK(RQ', PQ', MSHR')
  <2>1. CASE c \in L1
    <3>1. p \in Packet
      BY <1>2 DEF ReadOf
    <3>2. MSHR' = MSHR
      BY <1>1, <2>1, <3>1, ReturnedAbove
    <3> QED
      BY <1>0, <1>1, <1>2, <2>1, <3>2
  <2>2. CASE c = "L2C"
    <3>1. p \in Packet /\ AskedFromAbove(p)
      BY <1>2 DEF ReadOf, AskedFromAbove
    <3>2. /\ MissesOK(MSHR') /\ MSHR'["L2C"] = MSHR["L2C"]
          /\ \A d \in L1 : /\ Addressed(MSHR'[d]) = Addressed(MSHR[d])
                           /\ Unanswered(MSHR'[d]) = Unanswered(MSHR[d]) \ AskedBy(d, p)
          /\ \A d \in L1 : \A b, x : HeldBy(MSHR[d], b, x) => HeldBy(MSHR'[d], b, x)
      <4>1. MSHR' = return_data(MSHR, "L2C", p)
        BY <1>1, <2>2
      <4>2. MissesOK(MSHR') /\ AnsweredAbove(MSHR', MSHR, p)
        BY Zenon, <1>0, <3>1, <4>1, Returned
      <4> QED
        BY <4>2 DEF AnsweredAbove
    <3>3. AccountsOK(RQ', PQ', MSHR')
      <4> SUFFICES ASSUME NEW d \in L1
                   PROVE  Balanced(Asked(d, ToSet(RQ'["L2C"])), Asked(d, ToSet(PQ'["L2C"])),
                                   Asked(d, MSHR'["L2C"]), Unanswered(MSHR'[d]))
        BY DEF AccountsOK
      <4> DEFINE K == AskedBy(d, p)
                 R == Asked(d, ToSet(RQ'["L2C"]))
                 P == Asked(d, ToSet(PQ["L2C"]))
                 M == Asked(d, MSHR["L2C"])
                 U == Unanswered(MSHR[d])
      <4>1. Balanced(R \union K, P, M, U) /\ R \intersect K = {}
        BY <1>0, <1>2, <2>2 DEF AccountsOK
      <4>2. Unanswered(MSHR'[d]) = U \ K /\ Asked(d, MSHR'["L2C"]) = M /\ PQ' = PQ
        BY <1>1, <3>2
      <4> HIDE DEF K, M, R, P, U
      <4>3. K \intersect (R \union P \union M) = {}
        BY <4>1 DEF Balanced
      <4>4. Balanced(R, P, M, U \ K)
        BY <4>1, <4>3, Answers
      <4> QED
        BY <4>2, <4>4 DEF R, P
    <3> QED
      BY <3>2, <3>3
  <2> QED
    BY <2>1, <2>2, FirstLevel DEF Caches
<1>8. OnceOK(block', MSHR')
  BY <1>0, <1>5, <1>7, StillOnce
<1>9. HeldOK(waiting', RQ', MSHR')
  <2>1. \A b, r : HeldBy({p}, b, r) => r \in p.dep
    BY DEF HeldBy
  <2>2. AnsweredOnly(waiting', waiting, p.dep)
    BY <1>0, <1>1, AnsweredIs
  <2>3. HeldOrIn(RQ', MSHR', RQ, MSHR, p.dep)
    BY <1>2, <1>6, <1>7, <2>1 DEF HeldOrIn
  <2> QED
    BY Zenon, <1>0, <2>2, <2>3, StillHeld
<1> QED
  BY <1>2, <1>5, <1>7, <1>8, <1>9, Primed

LEMMA ReadMissStep ==
  ASSUME IndInv, NEW c \in Caches, RQ[c] # << >>, ReadMiss(c, Head(RQ[c]))
  PROVE  IndInv'
<1> DEFINE p == Head(RQ[c])
           q == [RQ EXCEPT ![c] = Tail(@)]
<1>0. /\ QueuesOK(RQ, WQ, PQ) /\ MissesOK(MSHR) /\ LinesOK(block)
      /\ OnceOK(block, MSHR) /\ AccountsOK(RQ, PQ, MSHR) /\ HeldOK(waiting, RQ, MSHR)
  BY DEF IndInv
<1>1. /\ ~ check_hit(c, p.addr) /\ ~ check_mshr(c, p.addr) /\ HasRoom(c)
      /\ add_rq(add_mshr(MSHR, c, p), q, c, p)
      /\ WQ' = WQ /\ PQ' = PQ /\ block' = block /\ waiting' = waiting
  BY DEF ReadMiss
<1>2. /\ ReadOf(c, p) /\ Map(q) /\ \A x \in Caches : ReadQueue(x, q[x])
      /\ QueuesOK(q, WQ, PQ)
      /\ c \in L1 => AccountsOK(q, PQ, MSHR)
      /\ \A d \in L1 : /\ Asked(d, ToSet(RQ[c])) = Asked(d, ToSet(q[c])) \union AskedBy(d, p)
                       /\ Asked(d, ToSet(q[c])) \intersect AskedBy(d, p) = {}
      /\ \A x \in Caches : \A b, r : HeldBy(ToSet(RQ[x]), b, r) =>
           HeldBy(ToSet(q[x]), b, r) \/ (x = c /\ HeldBy({p}, b, r))
  BY <1>0, TakenReads
<1> HIDE DEF p, q
<1>3. \A x \in L1 : x \in Caches /\ x # "L2C"
  BY FirstLevel
<1>4. /\ Map(RQ') /\ \A x \in Caches : ReadQueue(x, RQ'[x])
      /\ \A x \in L1 : RQ'[x] = q[x]
      /\ MissesOK(MSHR') /\ AccountsOK(RQ', PQ, MSHR')
      /\ \A x \in L1 : \A a \in Addressed(MSHR'[x]) : a \in Addressed(MSHR[x]) \/ (x = c /\ a = p.addr)
      /\ \A x \in L1 : \A b, r : HeldBy(MSHR[x], b, r) => HeldBy(MSHR'[x], b, r)
      /\ c \in L1 => \A b, r : HeldBy({p}, b, r) => HeldBy(MSHR'[c], b, r)
  <2>1. CASE c \in L1
    <3>1. /\ Map(RQ') /\ \A x \in Caches : ReadQueue(x, RQ'[x])
          /\ \A x \in L1 : RQ'[x] = q[x]
          /\ MissesOK(MSHR') /\ AccountsOK(RQ', PQ, MSHR')
          /\ Addressed(MSHR'[c]) = Addressed(MSHR[c]) \union {p.addr}
          /\ \A x \in L1 : x # c => Addressed(MSHR'[x]) = Addressed(MSHR[x])
          /\ \A x \in L1 : \A b, r : HeldBy(MSHR[x], b, r) => HeldBy(MSHR'[x], b, r)
          /\ \A b, r : HeldBy({p}, b, r) => HeldBy(MSHR'[c], b, r)
      BY <1>0, <1>1, <1>2, <2>1, ReadSent
    <3>2. \A x \in L1 : \A a \in Addressed(MSHR'[x]) : a \in Addressed(MSHR[x]) \/ (x = c /\ a = p.addr)
      BY <3>1
    <3> QED
      BY <3>1, <3>2
  <2>2. CASE c = "L2C"
    <3> DEFINE m == add_mshr(MSHR, c, p)
    <3>1. MSHR' = m /\ RQ' = q
      BY <1>1, <2>2, FirstLevel DEF add_rq, Forwarded
    <3>2. /\ MissesOK(m) /\ \A x \in Caches : x # c => m[x] = MSHR[x]
          /\ \A d \in L1 : Asked(d, m[c]) = Asked(d, MSHR[c]) \union AskedBy(d, p)
      <4>1. MissesAt(c, p)
        BY <1>1, <1>2 DEF MissesAt
      <4>2. MissesOK(m) /\ AddedAt(m, c, p)
        BY Zenon, <1>0, <4>1, MissAdded
      <4> HIDE DEF m
      <4> QED
        BY <4>2 DEF AddedAt
    <3> HIDE DEF m
    <3>3. \A x \in L1 : MSHR'[x] = MSHR[x]
      BY <1>3, <2>2, <3>1, <3>2
    <3>4. AccountsOK(RQ', PQ, MSHR')
      <4> SUFFICES ASSUME NEW d \in L1
                   PROVE  Balanced(Asked(d, ToSet(RQ'["L2C"])), Asked(d, ToSet(PQ["L2C"])),
                                   Asked(d, MSHR'["L2C"]), Unanswered(MSHR'[d]))
        BY DEF AccountsOK
      <4> DEFINE K == AskedBy(d, p)
                 R == Asked(d, ToSet(q["L2C"]))
                 P == Asked(d, ToSet(PQ["L2C"]))
                 M == Asked(d, MSHR["L2C"])
                 N == Asked(d, MSHR'["L2C"])
                 U == Unanswered(MSHR[d])
      <4>1. Balanced(R \union K, P, M, U) /\ R \intersect K = {}
        BY <1>0, <1>2, <2>2 DEF AccountsOK
      <4>2. N = M \union K /\ Unanswered(MSHR'[d]) = U /\ RQ' = q
        BY <2>2, <3>1, <3>2, <3>3
      <4> HIDE DEF K, M, R, P, U, N
      <4>3. Balanced(R, P, N, U)
        BY <4>1, <4>2, Moved
      <4> QED
        BY <4>2, <4>3 DEF R, P, N
    <3>5. c \notin L1
      BY <2>2, FirstLevel
    <3> QED
      BY <1>2, <3>1, <3>2, <3>3, <3>4, <3>5
  <2> QED
    BY <2>1, <2>2, FirstLevel DEF Caches
<1>5. QueuesOK(RQ', WQ', PQ')
  BY <1>0, <1>1, <1>4 DEF QueuesOK
<1>6. OnceOK(block', MSHR')
  <2>1. \A x \in L1 : \A a \in Addressed(MSHR'[x]) : a \in Addressed(MSHR[x]) \/ ~ check_hit(x, a)
    BY <1>1, <1>4
  <2> QED
    BY <1>0, <1>1, <2>1, StillOnce
<1>7. HeldOK(waiting', RQ', MSHR')
  <2>1. \A x \in L1 : \A b, r : HeldBy(ToSet(RQ[x]), b, r) \/ HeldBy(MSHR[x], b, r) =>
          HeldBy(ToSet(RQ'[x]), b, r) \/ HeldBy(MSHR'[x], b, r)
    BY <1>2, <1>3, <1>4
  <2> QED
    BY <1>0, <1>1, <2>1, StillWaiting
<1> QED
  BY <1>0, <1>1, <1>4, <1>5, <1>6, <1>7, Primed

LEMMA ReadMergeStep ==
  ASSUME IndInv, NEW c \in Caches, RQ[c] # << >>, ReadMerge(c, Head(RQ[c]))
  PROVE  IndInv'
<1> DEFINE p == Head(RQ[c])
<1>0. /\ QueuesOK(RQ, WQ, PQ) /\ MissesOK(MSHR) /\ LinesOK(block)
      /\ OnceOK(block, MSHR) /\ AccountsOK(RQ, PQ, MSHR) /\ HeldOK(waiting, RQ, MSHR)
  BY DEF IndInv
<1>1. /\ check_mshr(c, p.addr) /\ MSHR' = MergeMSHR(c, p) /\ RQ' = [RQ EXCEPT ![c] = Tail(@)]
      /\ WQ' = WQ /\ PQ' = PQ /\ block' = block /\ waiting' = waiting
  BY DEF ReadMerge
<1>2. /\ ReadOf(c, p) /\ QueuesOK(RQ', WQ', PQ')
      /\ c \in L1 => AccountsOK(RQ', PQ, MSHR)
      /\ \A d \in L1 : /\ Asked(d, ToSet(RQ[c])) = Asked(d, ToSet(RQ'[c])) \union AskedBy(d, p)
                       /\ Asked(d, ToSet(RQ'[c])) \intersect AskedBy(d, p) = {}
      /\ \A x \in Caches : \A b, r : HeldBy(ToSet(RQ[x]), b, r) =>
           HeldBy(ToSet(RQ'[x]), b, r) \/ (x = c /\ HeldBy({p}, b, r))
  BY <1>0, <1>1, TakenReads
<1> HIDE DEF p
<1>3. /\ MissesOK(MSHR') /\ MSHR'[c] = MergedInto(MSHR[c], p)
      /\ \A x \in Caches : x # c => MSHR'[x] = MSHR[x]
      /\ \A x \in Caches : Addressed(MSHR'[x]) = Addressed(MSHR[x]) /\ Unanswered(MSHR'[x]) = Unanswered(MSHR[x])
      /\ \A x \in Caches : \A b, r : HeldBy(MSHR[x], b, r) => HeldBy(MSHR'[x], b, r)
      /\ \A b, r : HeldBy({p}, b, r) => HeldBy(MSHR'[c], b, r)
  <2>1. MissesOK(MSHR') /\ MergedAt(MSHR', c, p)
    BY Zenon, <1>0, <1>1, <1>2, MergedMSHR
  <2> QED
    BY <2>1 DEF MergedAt
<1>4. \A x \in L1 : x \in Caches /\ x # "L2C"
  BY FirstLevel
<1>5. AccountsOK(RQ', PQ', MSHR')
  <2>1. CASE c \in L1
    <3>1. MSHR'["L2C"] = MSHR["L2C"]
      BY <1>3, <1>4, <2>1, FirstLevel
    <3> QED
      BY <1>1, <1>2, <1>3, <1>4, <2>1, <3>1, SameAccounts
  <2>2. CASE c = "L2C"
    <3> DEFINE S == MSHR["L2C"]
               T == MergedInto(S, p)
    <3>1. MissSet("L2C", S) /\ MSHR'["L2C"] = T
      BY <1>0, <1>3, <2>2 DEF MissesOK
    <3>2. p.addr \in Addressed(S) /\ ReadOf("L2C", p)
      BY <1>1, <1>2, <2>2 DEF check_mshr, Addressed
    <3>3. ASSUME Unshared, NEW e \in S, e.addr = p.addr, e.type = "PREFETCH", NEW d \in L1, Flag(d, e)
          PROVE  FALSE
      <4>1. PICK f \in L1 : Flag(f, p) /\ p.addr \in Blocks(f)
        BY <3>2 DEF ReadOf
      <4>2. p.addr \in Prefetched(d)
        BY <3>1, <3>3 DEF MissSet, MissOf
      <4>3. d = f
        BY <3>3, <4>1, <4>2 DEF Unshared
      <4>4. p.addr \in Asked(d, S)
        BY <3>3 DEF Asked
      <4>5. p.addr \in Asked(d, ToSet(RQ["L2C"]))
        BY <1>2, <2>2, <4>1, <4>3 DEF AskedBy
      <4> QED
        BY <1>0, <4>4, <4>5 DEF AccountsOK, Balanced
    <3> SUFFICES ASSUME NEW d \in L1
                 PROVE  Balanced(Asked(d, ToSet(RQ'["L2C"])), Asked(d, ToSet(PQ'["L2C"])),
                                 Asked(d, MSHR'["L2C"]), Unanswered(MSHR'[d]))
      BY DEF AccountsOK
    <3> DEFINE K == AskedBy(d, p)
               R == Asked(d, ToSet(RQ'["L2C"]))
               P == Asked(d, ToSet(PQ["L2C"]))
               M == Asked(d, S)
               N == Asked(d, T)
               U == Unanswered(MSHR[d])
    <3>4. N \subseteq M \union K /\ (Unshared => N = M \union K)
      <4> HIDE DEF S
      <4>1. N \subseteq M \union K
        BY <3>1, <3>2, MergedMisses, FirstLevel
      <4>2. ASSUME Unshared PROVE N = M \union K
        <5>1. \A e \in S : e.addr = p.addr /\ e.type = "PREFETCH" => \A x \in L1 : ~ Flag(x, e)
          BY <3>3, <4>2
        <5> QED
          BY <3>1, <3>2, <5>1, MergedMisses, FirstLevel
      <4> QED
        BY <4>1, <4>2
    <3>5. Balanced(R \union K, P, M, U) /\ R \intersect K = {}
      BY <1>0, <1>2, <2>2 DEF AccountsOK
    <3>6. MSHR'["L2C"] = T /\ Unanswered(MSHR'[d]) = U /\ PQ' = PQ
      BY <1>1, <1>3, <1>4, <3>1
    <3> HIDE DEF K, M, R, P, U, N, T
    <3>7. Balanced(R, P, N, U)
      BY <3>4, <3>5, Moved
    <3> QED
      BY <3>6, <3>7 DEF R, P, N
  <2> QED
    BY <2>1, <2>2, FirstLevel DEF Caches
<1>6. OnceOK(block', MSHR')
  BY <1>0, <1>1, <1>3, <1>4 DEF OnceOK
<1>7. HeldOK(waiting', RQ', MSHR')
  <2>1. \A x \in L1 : \A b, r : HeldBy(ToSet(RQ[x]), b, r) \/ HeldBy(MSHR[x], b, r) =>
          HeldBy(ToSet(RQ'[x]), b, r) \/ HeldBy(MSHR'[x], b, r)
    BY <1>2, <1>3, <1>4
  <2> QED
    BY <1>0, <1>1, <2>1, StillWaiting
<1> QED
  BY <1>0, <1>1, <1>2, <1>3, <1>5, <1>6, <1>7, Primed

(***************************************************************************)
(* Prefetch queues, and the answers of the last level.                     *)
(***************************************************************************)
LEMMA TakenPrefetches ==
  ASSUME QueuesOK(RQ, WQ, PQ), NEW c \in Caches, PQ[c] # << >>, AccountsOK(RQ, PQ, MSHR)
  PROVE  LET p == Head(PQ[c])
             q == [PQ EXCEPT ![c] = Tail(@)]
         IN  /\ PrefetchOf(c, p) /\ Map(q) /\ \A x \in Caches : PrefetchQueue(x, q[x])
             /\ QueuesOK(RQ, WQ, q) /\ \A x \in Caches : x # c => q[x] = PQ[x]
             /\ c \in L1 => AccountsOK(RQ, q, MSHR)
             /\ \A d \in L1 : /\ Asked(d, ToSet(PQ[c])) = Asked(d, ToSet(q[c])) \union AskedBy(d, p)
                              /\ Asked(d, ToSet(q[c])) \intersect AskedBy(d, p) = {}
<1> DEFINE p == Head(PQ[c])
           t == Tail(PQ[c])
           q == [PQ EXCEPT ![c] = t]
<1>1. Map(PQ) /\ \A x \in Caches : PrefetchQueue(x, PQ[x])
  BY DEF QueuesOK
<1>2. /\ PrefetchOf(c, p) /\ PrefetchQueue(c, t)
      /\ \A d \in L1 : /\ Asked(d, ToSet(PQ[c])) = Asked(d, ToSet(t)) \union AskedBy(d, p)
                       /\ Asked(d, ToSet(t)) \intersect AskedBy(d, p) = {}
  BY <1>1, TakenPrefetch
<1> HIDE DEF p, t
<1>3. Map(q) /\ q[c] = t /\ \A x \in Caches : x # c => q[x] = PQ[x]
  BY <1>1 DEF Map
<1> HIDE DEF q
<1>4. \A x \in Caches : PrefetchQueue(x, q[x])
  BY <1>1, <1>2, <1>3
<1>5. QueuesOK(RQ, WQ, q)
  BY <1>3, <1>4 DEF QueuesOK
<1>6. ASSUME c \in L1 PROVE AccountsOK(RQ, q, MSHR)
  <2>1. q["L2C"] = PQ["L2C"]
    BY <1>3, <1>6, FirstLevel
  <2> QED
    BY <2>1, SameAccounts
<1> QED
  BY <1>2, <1>3, <1>4, <1>5, <1>6 DEF p, t, q

LEMMA PrefetchHitStep ==
  ASSUME IndInv, NEW c \in Caches, PQ[c] # << >>, PrefetchHit(c, Head(PQ[c]))
  PROVE  IndInv'
<1> DEFINE p == Head(PQ[c])
           u == lru_update(block[c], HitWay(c, p.addr))
<1>0. /\ QueuesOK(RQ, WQ, PQ) /\ MissesOK(MSHR) /\ LinesOK(block)
      /\ OnceOK(block, MSHR) /\ AccountsOK(RQ, PQ, MSHR) /\ HeldOK(waiting, RQ, MSHR)
  BY DEF IndInv
<1>1. /\ check_hit(c, p.addr) /\ block' = [block EXCEPT ![c] = u]
      /\ MSHR' = return_data(MSHR, c, p) /\ PQ' = [PQ EXCEPT ![c] = Tail(@)]
      /\ RQ' = RQ /\ WQ' = WQ /\ waiting' = waiting
  BY DEF PrefetchHit
<1>2. /\ PrefetchOf(c, p) /\ QueuesOK(RQ', WQ', PQ')
      /\ c \in L1 => AccountsOK(RQ, PQ', MSHR)
      /\ \A d \in L1 : /\ Asked(d, ToSet(PQ[c])) = Asked(d, ToSet(PQ'[c])) \union AskedBy(d, p)
                       /\ Asked(d, ToSet(PQ'[c])) \intersect AskedBy(d, p) = {}
  BY <1>0, <1>1, TakenPrefetches
<1> HIDE DEF p
<1>3. GoodLines(c, u) /\ \A w \in WaysOf(c) : u[w].addr = block[c][w].addr
  BY <1>0, <1>1, HitIs, UpdatedLines DEF LinesOK
<1> HIDE DEF u
<1>4. LinesOK(block') /\ \A x \in L1 : \A w \in WaysOf(x) : block'[x][w].addr = block[x][w].addr
  BY <1>0, <1>1, <1>3, TouchedLines
<1>5. p \in Packet /\ AskedFromAbove(p)
  BY <1>2 DEF PrefetchOf, AskedFromAbove
<1>6. /\ MissesOK(MSHR') /\ \A x \in L1 : Addressed(MSHR'[x]) = Addressed(MSHR[x])
      /\ \A x \in L1 : \A b, r : HeldBy(MSHR[x], b, r) => HeldBy(MSHR'[x], b, r)
      /\ AccountsOK(RQ', PQ', MSHR')
  <2>1. CASE c \in L1
    <3>1. MSHR' = MSHR
      BY <1>1, <1>5, <2>1, ReturnedAbove
    <3> QED
      BY <1>0, <1>1, <1>2, <2>1, <3>1
  <2>2. CASE c = "L2C"
    <3>1. /\ MissesOK(MSHR') /\ MSHR'["L2C"] = MSHR["L2C"]
          /\ \A d \in L1 : /\ Addressed(MSHR'[d]) = Addressed(MSHR[d])
                           /\ Unanswered(MSHR'[d]) = Unanswered(MSHR[d]) \ AskedBy(d, p)
          /\ \A d \in L1 : \A b, x : HeldBy(MSHR[d], b, x) => HeldBy(MSHR'[d], b, x)
      <4>1. MSHR' = return_data(MSHR, "L2C", p)
        BY <1>1, <2>2
      <4>2. MissesOK(MSHR') /\ AnsweredAbove(MSHR', MSHR, p)
        BY Zenon, <1>0, <1>5, <4>1, Returned
      <4> QED
        BY <4>2 DEF AnsweredAbove
    <3>2. AccountsOK(RQ', PQ', MSHR')
      <4> SUFFICES ASSUME NEW d \in L1
                   PROVE  Balanced(Asked(d, ToSet(RQ'["L2C"])), Asked(d, ToSet(PQ'["L2C"])),
                                   Asked(d, MSHR'["L2C"]), Unanswered(MSHR'[d]))
        BY DEF AccountsOK
      <4> DEFINE K == AskedBy(d, p)
                 R == Asked(d, ToSet(RQ["L2C"]))
                 P == Asked(d, ToSet(PQ'["L2C"]))
                 M == Asked(d, MSHR["L2C"])
                 U == Unanswered(MSHR[d])
      <4>1. Balanced(R, P \union K, M, U) /\ P \intersect K = {}
        BY <1>0, <1>2, <2>2 DEF AccountsOK
      <4>2. Unanswered(MSHR'[d]) = U \ K /\ Asked(d, MSHR'["L2C"]) = M /\ RQ' = RQ
        BY <1>1, <3>1
      <4> HIDE DEF K, M, R, P, U
      <4>3. K \intersect (R \union P \union M) = {}
        BY <4>1 DEF Balanced
      <4>4. Balanced(R, P, M, U \ K)
        BY <4>1, <4>3, Answers
      <4> QED
        BY <4>2, <4>4 DEF R, P
    <3> QED
      BY <3>1, <3>2
  <2> QED
    BY <2>1, <2>2, FirstLevel DEF Caches
<1>7. OnceOK(block', MSHR')
  BY <1>0, <1>4, <1>6, StillOnce
<1>8. HeldOK(waiting', RQ', MSHR')
  <2>1. \A x \in L1 : \A b, r : HeldBy(ToSet(RQ[x]), b, r) \/ HeldBy(MSHR[x], b, r) =>
          HeldBy(ToSet(RQ'[x]), b, r) \/ HeldBy(MSHR'[x], b, r)
    BY <1>1, <1>6
  <2> QED
    BY <1>0, <1>1, <2>1, StillWaiting
<1> QED
  BY <1>2, <1>4, <1>6, <1>7, <1>8, Primed

LEMMA PrefetchMissStep ==
  ASSUME IndInv, NEW c \in Caches, PQ[c] # << >>, PrefetchMiss(c, Head(PQ[c]))
  PROVE  IndInv'
<1> DEFINE p == Head(PQ[c])
           q == [PQ EXCEPT ![c] = Tail(@)]
<1>0. /\ QueuesOK(RQ, WQ, PQ) /\ MissesOK(MSHR) /\ LinesOK(block)
      /\ OnceOK(block, MSHR) /\ AccountsOK(RQ, PQ, MSHR) /\ HeldOK(waiting, RQ, MSHR)
  BY DEF IndInv
<1>1. /\ ~ check_hit(c, p.addr) /\ ~ check_mshr(c, p.addr) /\ HasRoom(c)
      /\ c \in L1 => Len(PQ["L2C"]) < PQSize["L2C"]
      /\ add_pq(IF FilledHere(c, p) THEN add_mshr(MSHR, c, p) ELSE MSHR, q, c, p)
      /\ RQ' = RQ /\ WQ' = WQ /\ block' = block /\ waiting' = waiting
  BY DEF PrefetchMiss
<1>2. /\ PrefetchOf(c, p) /\ Map(q) /\ \A x \in Caches : PrefetchQueue(x, q[x])
      /\ QueuesOK(RQ, WQ, q) /\ \A x \in Caches : x # c => q[x] = PQ[x]
      /\ c \in L1 => AccountsOK(RQ, q, MSHR)
      /\ \A d \in L1 : /\ Asked(d, ToSet(PQ[c])) = Asked(d, ToSet(q[c])) \union AskedBy(d, p)
                       /\ Asked(d, ToSet(q[c])) \intersect AskedBy(d, p) = {}
  BY <1>0, TakenPrefetches
<1> HIDE DEF p, q
<1>3. \A x \in L1 : x \in Caches /\ x # "L2C"
  BY FirstLevel
<1>4. /\ Map(PQ') /\ \A x \in Caches : PrefetchQueue(x, PQ'[x])
      /\ MissesOK(MSHR') /\ AccountsOK(RQ, PQ', MSHR')
      /\ \A x \in L1 : \A a \in Addressed(MSHR'[x]) : a \in Addressed(MSHR[x]) \/ (x = c /\ a = p.addr)
      /\ \A x \in L1 : \A b, r : HeldBy(MSHR[x], b, r) => HeldBy(MSHR'[x], b, r)
  <2>1. CASE c \in L1
    <3>1. Len(q["L2C"]) < PQSize["L2C"]
      BY <1>1, <1>2, <1>3, <2>1, FirstLevel
    <3>2. /\ Map(PQ') /\ \A x \in Caches : PrefetchQueue(x, PQ'[x])
          /\ MissesOK(MSHR') /\ AccountsOK(RQ, PQ', MSHR')
          /\ Addressed(MSHR'[c]) \subseteq Addressed(MSHR[c]) \union {p.addr}
          /\ \A x \in L1 : x # c => Addressed(MSHR'[x]) = Addressed(MSHR[x])
          /\ \A x \in L1 : \A b, r : HeldBy(MSHR[x], b, r) => HeldBy(MSHR'[x], b, r)
      BY <1>0, <1>1, <1>2, <2>1, <3>1, PrefetchSent
    <3>3. \A x \in L1 : \A a \in Addressed(MSHR'[x]) : a \in Addressed(MSHR[x]) \/ (x = c /\ a = p.addr)
      BY <3>2
    <3> QED
      BY <3>2, <3>3
  <2>2. CASE c = "L2C"
    <3> DEFINE m == add_mshr(MSHR, c, p)
    <3>1. MSHR' = m /\ PQ' = q
      <4>1. fill_level[c] = 2 /\ p.fill_level \in {1, 2}
        BY <1>2, <2>2, Levels, PacketParts DEF PrefetchOf
      <4>2. FilledHere(c, p)
        BY <4>1 DEF FilledHere
      <4> QED
        BY <1>1, <2>2, <4>2, FirstLevel DEF add_pq, Forwarded
    <3>2. c \notin L1
      BY <2>2, FirstLevel
    <3>3. /\ MissesOK(m) /\ \A x \in Caches : x # c => m[x] = MSHR[x]
          /\ \A d \in L1 : Asked(d, m[c]) = Asked(d, MSHR[c]) \union AskedBy(d, p)
      <4>1. MissesAt(c, p)
        BY <1>1, <1>2, <3>2 DEF MissesAt
      <4>2. MissesOK(m) /\ AddedAt(m, c, p)
        BY Zenon, <1>0, <4>1, MissAdded
      <4> HIDE DEF m
      <4> QED
        BY <4>2 DEF AddedAt
    <3> HIDE DEF m
    <3>4. \A x \in L1 : MSHR'[x] = MSHR[x]
      BY <1>3, <2>2, <3>1, <3>3
    <3>5. AccountsOK(RQ, PQ', MSHR')
      <4> SUFFICES ASSUME NEW d \in L1
                   PROVE  Balanced(Asked(d, ToSet(RQ["L2C"])), Asked(d, ToSet(PQ'["L2C"])),
                                   Asked(d, MSHR'["L2C"]), Unanswered(MSHR'[d]))
        BY DEF AccountsOK
      <4> DEFINE K == AskedBy(d, p)
                 R == Asked(d, ToSet(RQ["L2C"]))
                 P == Asked(d, ToSet(q["L2C"]))
                 M == Asked(d, MSHR["L2C"])
                 N == Asked(d, MSHR'["L2C"])
                 U == Unanswered(MSHR[d])
      <4>1. Balanced(R, P \union K, M, U) /\ P \intersect K = {}
        BY <1>0, <1>2, <2>2 DEF AccountsOK
      <4>2. N = M \union K /\ Unanswered(MSHR'[d]) = U /\ PQ' = q
        BY <2>2, <3>1, <3>3, <3>4
      <4> HIDE DEF K, M, R, P, U, N
      <4>3. Balanced(R, P, N, U)
        BY <4>1, <4>2, Moved
      <4> QED
        BY <4>2, <4>3 DEF R, P, N
    <3> QED
      BY <1>2, <3>1, <3>3, <3>4, <3>5
  <2> QED
    BY <2>1, <2>2, FirstLevel DEF Caches
<1>5. QueuesOK(RQ', WQ', PQ')
  BY <1>0, <1>1, <1>4 DEF QueuesOK
<1>6. OnceOK(block', MSHR')
  <2>1. \A x \in L1 : \A a \in Addressed(MSHR'[x]) : a \in Addressed(MSHR[x]) \/ ~ check_hit(x, a)
    BY <1>1, <1>4
  <2> QED
    BY <1>0, <1>1, <2>1, StillOnce
<1>7. HeldOK(waiting', RQ', MSHR')
  <2>1. \A x \in L1 : \A b, r : HeldBy(ToSet(RQ[x]), b, r) \/ HeldBy(MSHR[x], b, r) =>
          HeldBy(ToSet(RQ'[x]), b, r) \/ HeldBy(MSHR'[x], b, r)
    BY <1>1, <1>4
  <2> QED
    BY <1>0, <1>1, <2>1, StillWaiting
<1> QED
  BY <1>0, <1>1, <1>4, <1>5, <1>6, <1>7, Primed

LEMMA PrefetchMergeStep ==
  ASSUME IndInv, NEW c \in Caches, PQ[c] # << >>, PrefetchMerge(c, Head(PQ[c]))
  PROVE  IndInv'
<1> DEFINE p == Head(PQ[c])
           T == WidenedBy(MSHR[c], p)
<1>0. /\ QueuesOK(RQ, WQ, PQ) /\ MissesOK(MSHR) /\ LinesOK(block)
      /\ OnceOK(block, MSHR) /\ AccountsOK(RQ, PQ, MSHR) /\ HeldOK(waiting, RQ, MSHR)
  BY DEF IndInv
<1>1. /\ check_mshr(c, p.addr) /\ MSHR' = [MSHR EXCEPT ![c] = T]
      /\ PQ' = [PQ EXCEPT ![c] = Tail(@)]
      /\ RQ' = RQ /\ WQ' = WQ /\ block' = block /\ waiting' = waiting
  BY DEF PrefetchMerge, WidenedBy
<1>2. /\ PrefetchOf(c, p) /\ QueuesOK(RQ', WQ', PQ')
      /\ c \in L1 => AccountsOK(RQ, PQ', MSHR)
      /\ \A d \in L1 : /\ Asked(d, ToSet(PQ[c])) = Asked(d, ToSet(PQ'[c])) \union AskedBy(d, p)
                       /\ Asked(d, ToSet(PQ'[c])) \intersect AskedBy(d, p) = {}
  BY <1>0, <1>1, TakenPrefetches
<1> HIDE DEF p
<1>3. /\ MissSet(c, T) /\ Addressed(T) = Addressed(MSHR[c])
      /\ Unanswered(T) = Unanswered(MSHR[c])
      /\ \A d \in L1 : Asked(d, T) = Asked(d, MSHR[c]) \union AskedBy(d, p)
      /\ \A b, r : HeldBy(MSHR[c], b, r) => HeldBy(T, b, r)
  <2>1. MissSet(c, MSHR[c]) /\ p.addr \in Addressed(MSHR[c])
    BY <1>0, <1>1 DEF MissesOK, check_mshr, Addressed
  <2> QED
    BY <1>2, <2>1, WidenedMisses
<1> HIDE DEF T
<1>4. Map(MSHR') /\ MSHR'[c] = T /\ \A x \in Caches : x # c => MSHR'[x] = MSHR[x]
  BY <1>0, <1>1 DEF MissesOK, Map
<1>5. MissesOK(MSHR')
  BY <1>0, <1>3, <1>4 DEF MissesOK
<1>6. \A x \in L1 : x \in Caches /\ x # "L2C"
  BY FirstLevel
<1>7. \A x \in L1 : Addressed(MSHR'[x]) = Addressed(MSHR[x]) /\ Unanswered(MSHR'[x]) = Unanswered(MSHR[x])
  BY <1>3, <1>4, <1>6
<1>8. AccountsOK(RQ', PQ', MSHR')
  <2>1. CASE c \in L1
    <3>1. MSHR'["L2C"] = MSHR["L2C"]
      BY <1>4, <1>6, <2>1, FirstLevel
    <3> QED
      BY <1>1, <1>2, <1>7, <2>1, <3>1, SameAccounts
  <2>2. CASE c = "L2C"
    <3> SUFFICES ASSUME NEW d \in L1
                 PROVE  Balanced(Asked(d, ToSet(RQ'["L2C"])), Asked(d, ToSet(PQ'["L2C"])),
                                 Asked(d, MSHR'["L2C"]), Unanswered(MSHR'[d]))
      BY DEF AccountsOK
    <3> DEFINE K == AskedBy(d, p)
               R == Asked(d, ToSet(RQ["L2C"]))
               P == Asked(d, ToSet(PQ'["L2C"]))
               M == Asked(d, MSHR["L2C"])
               N == Asked(d, MSHR'["L2C"])
               U == Unanswered(MSHR[d])
    <3>1. Balanced(R, P \union K, M, U) /\ P \intersect K = {}
      BY <1>0, <1>2, <2>2 DEF AccountsOK
    <3>2. N = M \union K /\ Unanswered(MSHR'[d]) = U /\ RQ' = RQ
      BY <1>1, <1>3, <1>4, <1>7, <2>2
    <3> HIDE DEF K, M, R, P, U, N
    <3>3. Balanced(R, P, N, U)
      BY <3>1, <3>2, Moved
    <3> QED
      BY <3>2, <3>3 DEF R, P, N
  <2> QED
    BY <2>1, <2>2, FirstLevel DEF Caches
<1>9. OnceOK(block', MSHR')
  BY <1>0, <1>1, <1>7 DEF OnceOK
<1>10. HeldOK(waiting', RQ', MSHR')
  <2>1. \A x \in L1 : \A b, r : HeldBy(ToSet(RQ[x]), b, r) \/ HeldBy(MSHR[x], b, r) =>
          HeldBy(ToSet(RQ'[x]), b, r) \/ HeldBy(MSHR'[x], b, r)
    BY <1>1, <1>3, <1>4, <1>6
  <2> QED
    BY <1>0, <1>1, <2>1, StillWaiting
<1> QED
  BY <1>0, <1>1, <1>2, <1>5, <1>8, <1>9, <1>10, Primed

LEMMA LLCStep ==
  ASSUME IndInv, NEW a \in Addrs, LLCReturns(a)
  PROVE  IndInv'
<1> DEFINE S == MSHR["L2C"]
           T == Completed(S, a)
<1>0. /\ QueuesOK(RQ, WQ, PQ) /\ MissesOK(MSHR) /\ LinesOK(block)
      /\ OnceOK(block, MSHR) /\ AccountsOK(RQ, PQ, MSHR) /\ HeldOK(waiting, RQ, MSHR)
  BY DEF IndInv
<1>1. MSHR' = [MSHR EXCEPT !["L2C"] = T] /\ UNCHANGED <<RQ, WQ, PQ, block, waiting>>
  BY DEF LLCReturns
<1>2. MissSet("L2C", S) /\ "L2C" \in Caches /\ Map(MSHR)
  BY <1>0, FirstLevel DEF MissesOK
<1> HIDE DEF S
<1>3. MissSet("L2C", T) /\ \A d \in L1 : Asked(d, T) = Asked(d, S)
  BY <1>2, CompletedMisses
<1> HIDE DEF T
<1>4. Map(MSHR') /\ MSHR'["L2C"] = T /\ \A x \in Caches : x # "L2C" => MSHR'[x] = MSHR[x]
  BY <1>1, <1>2 DEF Map
<1>5. \A x \in L1 : MSHR'[x] = MSHR[x]
  BY <1>4, FirstLevel
<1>6. MissesOK(MSHR')
  BY <1>0, <1>3, <1>4 DEF MissesOK
<1>7. AccountsOK(RQ', PQ', MSHR')
  BY <1>0, <1>1, <1>3, <1>4, <1>5 DEF AccountsOK, S
<1>8. OnceOK(block', MSHR')
  BY <1>0, <1>1, <1>5 DEF OnceOK
<1>9. HeldOK(waiting', RQ', MSHR')
  BY <1>0, <1>1, <1>5, StillWaiting
<1> QED
  BY <1>0, <1>1, <1>6, <1>7, <1>8, <1>9, Primed

(***************************************************************************)
(* The theorems.                                                           *)
(***************************************************************************)
LEMMA InitOK == Init => IndInv
<1> SUFFICES ASSUME Init PROVE IndInv
  OBVIOUS
<1>1. /\ RQ = [c \in Caches |-> << >>] /\ WQ = [c \in Caches |-> << >>]
      /\ PQ = [c \in Caches |-> << >>] /\ MSHR = [c \in Caches |-> {}]
      /\ waiting = [r \in Readers |-> NoAddr]
  BY DEF Init
<1>2. Map(RQ) /\ Map(WQ) /\ Map(PQ) /\ Map(MSHR)
  BY <1>1 DEF Map
<1>3. \A c \in Caches : RQ[c] = << >> /\ WQ[c] = << >> /\ PQ[c] = << >> /\ MSHR[c] = {}
  BY <1>1
<1>4. /\ << >> \in Seq(Packet) /\ Len(<< >>) = 0 /\ ToSet(<< >>) = {} /\ Distinct(<< >>)
  BY DEF ToSet, Distinct
<1>5. ASSUME NEW c \in Caches
      PROVE  /\ ReadQueue(c, << >>) /\ PrefetchQueue(c, << >>) /\ 0 <= WQSize[c]
             /\ MissSet(c, {})
  <2>1. RQSize[c] \in Nat /\ WQSize[c] \in Nat /\ PQSize[c] \in Nat /\ MSHRSize[c] \in Nat
    BY Sizes
  <2>2. IsFiniteSet({}) /\ Cardinality({}) = 0
    BY FS_EmptySet
  <2>3. ReadQueue(c, << >>) /\ PrefetchQueue(c, << >>)
    BY <1>4, <2>1 DEF ReadQueue, PrefetchQueue
  <2>4. MissSet(c, {})
    BY <2>1, <2>2 DEF MissSet
  <2> QED
    BY <2>1, <2>3, <2>4
<1>6. QueuesOK(RQ, WQ, PQ)
  BY <1>2, <1>3, <1>4, <1>5, FirstLevel DEF QueuesOK
<1>7. MissesOK(MSHR)
  BY <1>2, <1>3, <1>5 DEF MissesOK
<1>8. /\ DOMAIN block = Caches
      /\ \A c \in Caches : block[c] = [w \in WaysOf(c) |-> [addr |-> NoAddr, dirty |-> FALSE, lru |-> w - 1]]
  BY DEF Init, WaysOf
<1>9. ASSUME NEW c \in Caches PROVE GoodLines(c, block[c])
  <2>1. NumWay[c] \in Nat \ {0}
    BY Sizes
  <2> DEFINE b == block[c]
             line(w) == [addr |-> NoAddr, dirty |-> FALSE, lru |-> w - 1]
  <2>2. b = [w \in WaysOf(c) |-> line(w)]
    BY <1>8
  <2>3. ASSUME NEW w \in WaysOf(c) PROVE line(w) \in Line(c)
    <3>1. w - 1 \in 0 .. NumWay[c] - 1
      BY <2>1 DEF WaysOf
    <3> QED
      BY <3>1 DEF Line
  <2>4. \A w \in WaysOf(c) : ~ line(w).dirty /\ line(w).lru = w - 1
    OBVIOUS
  <2> HIDE DEF b, line
  <2>5. b \in [WaysOf(c) -> Line(c)] /\ \A w \in WaysOf(c) : ~ b[w].dirty /\ b[w].lru = w - 1
    BY <2>2, <2>3, <2>4
  <2>6. {b[w].lru : w \in WaysOf(c)} = 0 .. NumWay[c] - 1
    <3>1. ASSUME NEW v \in 0 .. NumWay[c] - 1 PROVE \E w \in WaysOf(c) : b[w].lru = v
      <4>1. v + 1 \in WaysOf(c) /\ (v + 1) - 1 = v
        BY <2>1 DEF WaysOf
      <4> QED
        BY <2>5, <4>1
    <3>2. ASSUME NEW w \in WaysOf(c) PROVE b[w].lru \in 0 .. NumWay[c] - 1
      BY <2>1, <2>5 DEF WaysOf
    <3> QED
      BY <3>1, <3>2
  <2>7. GoodLines(c, b)
    BY <2>5, <2>6 DEF GoodLines
  <2> QED
    BY <2>7 DEF b
<1>10. LinesOK(block)
  BY <1>8, <1>9 DEF LinesOK
<1>11. OnceOK(block, MSHR)
  <2>1. \A c \in L1 : c \in Caches
    BY FirstLevel
  <2>2. \A c \in L1 : \A w \in WaysOf(c) : block[c][w].addr = NoAddr
    BY <1>8, <2>1
  <2> QED
    BY <1>3, <2>1, <2>2 DEF OnceOK, Addressed
<1>12. AccountsOK(RQ, PQ, MSHR)
  <2>1. \A d \in L1 : d \in Caches
    BY FirstLevel
  <2>2. \A d \in L1 : Asked(d, {}) = {} /\ Unanswered({}) = {}
    BY DEF Asked, Unanswered
  <2>3. \A d \in L1 : /\ Asked(d, ToSet(RQ["L2C"])) = {} /\ Asked(d, ToSet(PQ["L2C"])) = {}
                      /\ Asked(d, MSHR["L2C"]) = {} /\ Unanswered(MSHR[d]) = {}
    BY <1>3, <1>4, <2>1, <2>2, FirstLevel
  <2> QED
    BY <2>3 DEF AccountsOK, Balanced
<1>13. HeldOK(waiting, RQ, MSHR)
  BY <1>1 DEF HeldOK
<1> QED
  BY <1>6, <1>7, <1>10, <1>11, <1>12, <1>13 DEF IndInv

LEMMA CoreStepOK == IndInv /\ CoreStep => IndInv'
<1> SUFFICES ASSUME IndInv, CoreStep PROVE IndInv'
  OBVIOUS
<1>1. ASSUME NEW r \in Fetches, NEW a \in Code, Fetch(r, a) PROVE IndInv'
  <2> DEFINE c == "L1I"
             i == TRUE
             d == FALSE
  <2>1. Read(c, r, a, i, d)
    BY <1>1 DEF Fetch
  <2>2. /\ c \in L1 /\ r \in Readers /\ CacheOf(r) = c /\ a \in Blocks(c)
        /\ i \in BOOLEAN /\ d \in BOOLEAN
        /\ i <=> c = "L1I"
        /\ d <=> c = "L1D"
    BY DEF L1, Readers, CacheOf, Blocks
  <2> HIDE DEF c, i, d
  <2> QED
    BY <2>1, <2>2, ReadStep
<1>2. ASSUME NEW r \in Loads, NEW a \in Data, Load(r, a) PROVE IndInv'
  <2> DEFINE c == "L1D"
             i == FALSE
             d == TRUE
  <2>1. Read(c, r, a, i, d)
    BY <1>2 DEF Load
  <2>2. /\ c \in L1 /\ r \in Readers /\ CacheOf(r) = c /\ a \in Blocks(c)
        /\ i \in BOOLEAN /\ d \in BOOLEAN
        /\ i <=> c = "L1I"
        /\ d <=> c = "L1D"
    BY CoreAssumption DEF L1, Readers, CacheOf, Blocks
  <2> HIDE DEF c, i, d
  <2> QED
    BY <2>1, <2>2, ReadStep
<1> QED
  BY <1>1, <1>2, StoreStep, PrefetchLineStep DEF CoreStep

LEMMA CacheStepOK == IndInv /\ CacheStep => IndInv'
<1> SUFFICES ASSUME IndInv, CacheStep PROVE IndInv'
  OBVIOUS
<1>1. ASSUME NEW c \in Caches, handle_fill(c) PROVE IndInv'
  BY <1>1, FillStep DEF handle_fill
<1>2. ASSUME NEW c \in Caches, handle_writeback(c) PROVE IndInv'
  <2>1. WQ[c] # << >>
    BY <1>2 DEF handle_writeback
  <2>2. CASE WriteHit(c, Head(WQ[c]))
    BY <2>1, <2>2, WriteHitStep
  <2>3. CASE WriteMiss(c, Head(WQ[c]))
    BY <2>1, <2>3, WriteMissStep
  <2>4. CASE WriteMerge(c, Head(WQ[c]))
    BY <2>1, <2>4, WriteMergeStep
  <2>5. CASE WriteFill(c, Head(WQ[c]))
    BY <2>1, <2>5, WriteFillStep
  <2> QED
    BY <1>2, <2>2, <2>3, <2>4, <2>5 DEF handle_writeback
<1>3. ASSUME NEW c \in Caches, handle_read(c) PROVE IndInv'
  <2>1. RQ[c] # << >>
    BY <1>3 DEF handle_read
  <2>2. CASE ReadHit(c, Head(RQ[c]))
    BY <2>1, <2>2, ReadHitStep
  <2>3. CASE ReadMiss(c, Head(RQ[c]))
    BY <2>1, <2>3, ReadMissStep
  <2>4. CASE ReadMerge(c, Head(RQ[c]))
    BY <2>1, <2>4, ReadMergeStep
  <2> QED
    BY <1>3, <2>2, <2>3, <2>4 DEF handle_read
<1>4. ASSUME NEW c \in Caches, handle_prefetch(c) PROVE IndInv'
  <2>1. PQ[c] # << >>
    BY <1>4 DEF handle_prefetch
  <2>2. CASE PrefetchHit(c, Head(PQ[c]))
    BY <2>1, <2>2, PrefetchHitStep
  <2>3. CASE PrefetchMiss(c, Head(PQ[c]))
    BY <2>1, <2>3, PrefetchMissStep
  <2>4. CASE PrefetchMerge(c, Head(PQ[c]))
    BY <2>1, <2>4, PrefetchMergeStep
  <2> QED
    BY <1>4, <2>2, <2>3, <2>4 DEF handle_prefetch
<1> QED
  BY <1>1, <1>2, <1>3, <1>4, LLCStep DEF CacheStep, operate

LEMMA StepOK == IndInv /\ [Next]_vars => IndInv'
<1>1. IndInv /\ UNCHANGED vars => IndInv'
  BY DEF vars, IndInv
<1> QED
  BY <1>1, CoreStepOK, CacheStepOK DEF Next

(* Whatever the core, the prefetchers and the last level do and in what-   *)
(* ever order the handlers run, the invariant holds.                       *)
THEOREM CacheCorrect == Spec => []IndInv
BY InitOK, StepOK, PTL DEF Spec

(* The queues, the misses and the lines keep their types and sizes, and    *)
(* the lru positions of a set stay a permutation.                          *)
THEOREM CacheTypeCorrect == Spec => []TypeOK
<1>1. IndInv => TypeOK
  <2> SUFFICES ASSUME IndInv PROVE TypeOK
    OBVIOUS
  <2>1. Map(RQ) /\ Map(WQ) /\ Map(PQ) /\ Map(MSHR) /\ DOMAIN block = Caches
    BY DEF IndInv, QueuesOK, MissesOK, LinesOK
  <2>2. ASSUME NEW c \in Caches
        PROVE  /\ RQ[c] \in Seq(Packet) /\ WQ[c] \in Seq(Packet) /\ PQ[c] \in Seq(Packet)
               /\ Len(RQ[c]) <= RQSize[c] /\ Len(WQ[c]) <= WQSize[c] /\ Len(PQ[c]) <= PQSize[c]
    BY DEF IndInv, QueuesOK, ReadQueue, PrefetchQueue
  <2>3. ASSUME NEW c \in Caches
        PROVE  /\ MSHR[c] \in SUBSET Packet /\ Cardinality(MSHR[c]) <= MSHRSize[c]
               /\ \A e, f \in MSHR[c] : e.addr = f.addr => e = f
    BY DEF IndInv, MissesOK, MissSet, MissOf
  <2>4. ASSUME NEW c \in Caches
        PROVE  /\ block[c] \in [1 .. NumWay[c] -> Line(c)]
               /\ {block[c][w].lru : w \in 1 .. NumWay[c]} = 0 .. NumWay[c] - 1
    BY DEF IndInv, LinesOK, GoodLines, WaysOf
  <2>5. /\ RQ \in [Caches -> Seq(Packet)] /\ WQ \in [Caches -> Seq(Packet)]
        /\ PQ \in [Caches -> Seq(Packet)] /\ MSHR \in [Caches -> SUBSET Packet]
    BY <2>1, <2>2, <2>3 DEF Map
  <2>6. waiting \in [Readers -> Addrs \union {NoAddr}]
    BY DEF IndInv, HeldOK
  <2> QED
    BY <2>1, <2>2, <2>3, <2>4, <2>5, <2>6 DEF TypeOK
<1> QED
  BY <1>1, CacheCorrect, PTL

\* A packet of L2C that wants a first-level cache filled is asked for by it.
LEMMA WantsIs ==
  ASSUME IndInv, NEW c \in L1
  PROVE  /\ \A p : Wants(c, p) => Flag(c, p)
         /\ \A p \in ToSet(RQ["L2C"]) \union ToSet(PQ["L2C"]) \union MSHR["L2C"] :
              Wants(c, p) <=> Flag(c, p)
<1>1. \A p : Wants(c, p) <=> p.fill_level = 1 /\ Flag(c, p)
  BY Zenon DEF Wants, Flag
<1>2. ASSUME NEW p \in ToSet(RQ["L2C"]) PROVE p.fill_level = 1
  BY FirstLevel DEF IndInv, QueuesOK, ReadQueue, ReadOf
<1>3. ASSUME NEW p \in ToSet(PQ["L2C"]), Flag(c, p) PROVE p.fill_level = 1
  <2>1. PrefetchOf("L2C", p)
    BY FirstLevel DEF IndInv, QueuesOK, PrefetchQueue
  <2> QED
    BY <1>3, <2>1 DEF PrefetchOf
<1>4. ASSUME NEW p \in MSHR["L2C"], Flag(c, p) PROVE p.fill_level = 1
  <2>1. MissOf("L2C", p)
    BY FirstLevel DEF IndInv, MissesOK, MissSet
  <2> QED
    BY <1>4, <2>1 DEF MissOf
<1> QED
  BY <1>1, <1>2, <1>3, <1>4

(* The assertion of return_data(): L2C never returns a block to a first-   *)
(* level cache that has no miss in flight for it.                          *)
THEOREM ReturnsFindTheirMiss == Spec => []ReturnFindsMiss
<1>1. IndInv => ReturnFindsMiss
  <2> SUFFICES ASSUME IndInv, NEW c \in L1, NEW p \in Owed(c)
               PROVE  \E e \in MSHR[c] : e.addr = p.addr /\ ~ e.returned
    BY DEF ReturnFindsMiss
  <2>1. /\ p \in ToSet(RQ["L2C"]) \union ToSet(PQ["L2C"]) \union MSHR["L2C"]
        /\ Flag(c, p)
    BY WantsIs DEF Owed
  <2>2. p.addr \in Asked(c, ToSet(RQ["L2C"])) \union Asked(c, ToSet(PQ["L2C"])) \union Asked(c, MSHR["L2C"])
    BY <2>1 DEF Asked
  <2>3. p.addr \in Unanswered(MSHR[c])
    BY <2>2 DEF IndInv, AccountsOK, Balanced
  <2> QED
    BY <2>3 DEF Unanswered
<1> QED
  BY <1>1, CacheCorrect, PTL

(* A reader of the core that waits is named by a packet of its cache.      *)
THEOREM ReadersAreHeld == Spec => []ReaderIsHeld
<1>1. IndInv => ReaderIsHeld
  BY DEF IndInv, HeldOK, ReaderIsHeld, CacheOf, HeldBy
<1> QED
  BY <1>1, CacheCorrect, PTL

LEMMA AtMostOne ==
  ASSUME NEW S, \A x, y \in S : x = y
  PROVE  /\ Cardinality(S) \in {0, 1}
         /\ Cardinality(S) = 0 <=> S = {}
<1>1. CASE S = {}
  BY <1>1, FS_EmptySet
<1>2. CASE S # {}
  <2>1. PICK x \in S : TRUE
    BY <1>2
  <2>2. S = {x}
    BY <2>1
  <2>3. Cardinality({x}) = 1
    BY FS_Singleton
  <2>4. Cardinality(S) = 1
    BY <2>2, <2>3
  <2> QED
    BY <1>2, <2>4
<1> QED
  BY <1>1, <1>2

(* A first-level cache holds a block in one line, or waits for it, or      *)
(* neither.                                                                *)
THEOREM L1HoldsBlocksOnce == Spec => []L1HoldsBlockOnce
<1>1. IndInv => L1HoldsBlockOnce
  <2> SUFFICES ASSUME IndInv, NEW c \in L1, NEW a \in Addrs
               PROVE  Cardinality(Ways(c, a)) + Cardinality({e \in MSHR[c] : e.addr = a}) <= 1
    BY DEF L1HoldsBlockOnce
  <2> DEFINE W == Ways(c, a)
             E == {e \in MSHR[c] : e.addr = a}
  <2>1. a # NoAddr
    BY CoreAssumption
  <2>2. \A v, w \in W : v = w
    BY <2>1 DEF IndInv, OnceOK, Ways, WaysOf
  <2>3. \A e, f \in E : e = f
    BY FirstLevel DEF IndInv, MissesOK, MissSet
  <2>4. W = {} \/ E = {}
    BY DEF IndInv, OnceOK, Ways, WaysOf, Addressed
  <2> HIDE DEF W, E
  <2>5. /\ Cardinality(W) \in {0, 1} /\ Cardinality(E) \in {0, 1}
        /\ Cardinality(W) = 0 \/ Cardinality(E) = 0
    BY <2>2, <2>3, <2>4, AtMostOne
  <2>6. Cardinality(W) + Cardinality(E) <= 1
    BY <2>5
  <2> QED
    BY <2>6 DEF W, E
<1> QED
  BY <1>1, CacheCorrect, PTL

(* No lost wake-up, when no block is fetched or loaded through one first-  *)
(* level cache and prefetched into the other: every miss in flight at the  *)
(* first level is owed by one packet of L2C. Without that condition the    *)
(* overwriting of prefetch entries loses wake-ups.                         *)
THEOREM MissesAreOwed == ASSUME Unshared PROVE Spec => []MissIsOwed
<1>1. IndInv => MissIsOwed
  <2> SUFFICES ASSUME IndInv, NEW c \in L1, NEW e \in MSHR[c], ~ e.returned
               PROVE  /\ \E p \in Owed(c) : p.addr = e.addr
                      /\ Cardinality({p \in Owed(c) : p.addr = e.addr}) = 1
    BY DEF MissIsOwed
  <2> DEFINE q == RQ["L2C"]
             s == PQ["L2C"]
             m == MSHR["L2C"]
  <2>1. Balanced(Asked(c, ToSet(q)), Asked(c, ToSet(s)), Asked(c, m), Unanswered(MSHR[c]))
    BY DEF IndInv, AccountsOK
  <2>2. ReadQueue("L2C", q) /\ PrefetchQueue("L2C", s) /\ MissSet("L2C", m)
    BY FirstLevel DEF IndInv, QueuesOK, MissesOK
  <2>3. Owed(c) = {p \in ToSet(q) \union ToSet(s) \union m : Flag(c, p)}
    BY WantsIs DEF Owed
  <2> HIDE DEF q, s, m
  <2> DEFINE O == {p \in Owed(c) : p.addr = e.addr}
  <2>4. e.addr \in Asked(c, ToSet(q)) \union Asked(c, ToSet(s)) \union Asked(c, m)
    BY <2>1 DEF Balanced, Unanswered
  <2>5. O # {}
    BY <2>3, <2>4 DEF Asked
  <2>6. \A x, y \in ToSet(q) : x.addr = y.addr => x = y
    BY <2>2 DEF ReadQueue, Distinct, ToSet
  <2>7. \A x, y \in ToSet(s) : x.addr = y.addr => x = y
    BY <2>2 DEF PrefetchQueue, Distinct, ToSet
  <2>8. \A x, y \in m : x.addr = y.addr => x = y
    BY <2>2 DEF MissSet
  <2>9. \A x, y \in O : x = y
    <3> SUFFICES ASSUME NEW x \in O, NEW y \in O PROVE x = y
      OBVIOUS
    <3>1. /\ x.addr = y.addr /\ Flag(c, x) /\ Flag(c, y)
          /\ x \in ToSet(q) \/ x \in ToSet(s) \/ x \in m
          /\ y \in ToSet(q) \/ y \in ToSet(s) \/ y \in m
      BY <2>3
    <3>2. /\ ~ (x \in ToSet(q) /\ y \in ToSet(s)) /\ ~ (x \in ToSet(s) /\ y \in ToSet(q))
          /\ ~ (x \in ToSet(q) /\ y \in m) /\ ~ (x \in m /\ y \in ToSet(q))
          /\ ~ (x \in ToSet(s) /\ y \in m) /\ ~ (x \in m /\ y \in ToSet(s))
      BY <2>1, <3>1 DEF Balanced, Asked
    <3> QED
      BY <2>6, <2>7, <2>8, <3>1, <3>2
  <2> HIDE DEF O
  <2>10. Cardinality(O) = 1
    BY <2>5, <2>9, AtMostOne
  <2> QED
    BY <2>5, <2>10 DEF O
<1> QED
  BY <1>1, CacheCorrect, PTL

(* The caches under a core that retires in order are these caches: what is *)
(* proved of them holds there too.                                         *)
THEOREM ProgressIsCache == ProgressSpec => Spec
<1>1. ProgressInit => Init
  BY DEF ProgressInit
<1>2. [ProgressNext]_progressVars => [Next]_vars
  BY DEF ProgressNext, progressVars, Issue, Operate, Next
<1> QED
  BY <1>1, <1>2, PTL DEF ProgressSpec, Spec
=============================================================================
