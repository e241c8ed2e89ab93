---------------------------- MODULE FrontendProofs ----------------------------
(***************************************************************************)
(* Proofs about Frontend for every set of lines, trace length and size of  *)
(* the buffers.                                                            *)
(***************************************************************************)
EXTENDS Frontend, SequenceTheorems, WellFoundedInduction, TLAPS

LEMMA Sizes ==
  /\ TRACE_LENGTH \in Nat \ {0} /\ IFETCH_SIZE \in Nat \ {0} /\ DECODE_SIZE \in Nat \ {0}
  /\ ROB_SIZE \in Nat \ {0} /\ DECODE_WIDTH \in Nat \ {0}
BY FrontendAssumption

USE Sizes

FetchEntry == [line : Lines, fetched : {"no", "INFLIGHT", "COMPLETED"}, branch_mispredicted : BOOLEAN]
DecodeEntry == [timed : BOOLEAN, branch_mispredicted : BOOLEAN]
RobEntry == [executed : BOOLEAN, branch_mispredicted : BOOLEAN]

(***************************************************************************)
(* What the operators on the buffers return.                               *)
(***************************************************************************)

(* Marking changes the state of the instructions of some lines only.       *)
LEMMA MarkKeeps ==
  ASSUME NEW buffer \in Seq(FetchEntry), NEW lines,
         NEW state \in {"no", "INFLIGHT", "COMPLETED"}
  PROVE  /\ Mark(buffer, lines, state) \in Seq(FetchEntry)
         /\ Len(Mark(buffer, lines, state)) = Len(buffer)
         /\ \A k \in 1 .. Len(buffer) :
              /\ Mark(buffer, lines, state)[k].line = buffer[k].line
              /\ Mark(buffer, lines, state)[k].branch_mispredicted = buffer[k].branch_mispredicted
              /\ Mark(buffer, lines, state)[k].fetched =
                   IF buffer[k].line \in lines THEN state ELSE buffer[k].fetched
<1> DEFINE e(k) == IF buffer[k].line \in lines THEN [buffer[k] EXCEPT !.fetched = state] ELSE buffer[k]
<1>1. Len(buffer) \in Nat /\ DOMAIN buffer = 1 .. Len(buffer)
  OBVIOUS
<1>2. \A k \in 1 .. Len(buffer) : buffer[k] \in FetchEntry
  BY <1>1
<1>3. \A k \in 1 .. Len(buffer) :
        /\ e(k) \in FetchEntry
        /\ e(k).line = buffer[k].line
        /\ e(k).branch_mispredicted = buffer[k].branch_mispredicted
        /\ e(k).fetched = IF buffer[k].line \in lines THEN state ELSE buffer[k].fetched
  BY <1>2 DEF FetchEntry
<1>4. Mark(buffer, lines, state) = [k \in 1 .. Len(buffer) |-> e(k)]
  BY <1>1 DEF Mark
<1> HIDE DEF e
<1>5. [k \in 1 .. Len(buffer) |-> e(k)] \in [1 .. Len(buffer) -> FetchEntry]
  BY <1>3
<1>6. /\ Mark(buffer, lines, state) \in Seq(FetchEntry)
      /\ Len(Mark(buffer, lines, state)) = Len(buffer)
  BY <1>1, <1>4, <1>5
<1> QED
  BY <1>3, <1>4, <1>6

(* Of the numbers up to m that have a property with 0 there is a greatest. *)
LEMMA Greatest ==
  ASSUME NEW m \in Nat, NEW S \in SUBSET (0 .. m), S # {}
  PROVE  \E n \in S : \A k \in S : k <= n
<1> DEFINE R == OpToRel(<, Nat)
           T == {m - n : n \in S}
<1>1. \A x, y \in Nat : <<y, x>> \in R <=> y < x
  BY DEF OpToRel
<1>2. IsWellFoundedOn(R, Nat)
  BY NatLessThanWellFounded
<1>3. T \in SUBSET Nat /\ T # {}
  <2>1. \A n \in S : m - n \in Nat
    OBVIOUS
  <2> QED
    BY <2>1
<1> HIDE DEF R
<1>4. PICK x \in T : \A y \in T : ~(<<y, x>> \in R)
  BY <1>2, <1>3, WFMin
<1>5. PICK n \in S : x = m - n
  BY <1>4
<1>6. ASSUME NEW k \in S PROVE k <= n
  <2>1. m - k \in T
    OBVIOUS
  <2>2. ~(m - k < m - n)
    BY <2>1, <1>1, <1>3, <1>4, <1>5
  <2> QED
    BY <2>2
<1> QED
  BY <1>6

(* The head that passes on fits into DECODE_BUFFER.                        *)
LEMMA PassingFits ==
  ASSUME NEW buffer \in Seq(FetchEntry), DECODE_BUFFER \in Seq(DecodeEntry),
         Len(DECODE_BUFFER) <= DECODE_SIZE
  PROVE  /\ Passing(buffer) \in 0 .. Len(buffer)
         /\ Passing(buffer) <= DECODE_SIZE - Len(DECODE_BUFFER)
<1> DEFINE room == DECODE_SIZE - Len(DECODE_BUFFER)
           S == {n \in 0 .. Len(buffer) :
                   /\ \A k \in 1 .. n : buffer[k].fetched = "COMPLETED"
                   /\ n <= DECODE_WIDTH /\ n <= room}
<1>1. Len(buffer) \in Nat /\ room \in Nat /\ DECODE_WIDTH \in Nat
  OBVIOUS
<1>2. 0 \in S
  BY <1>1
<1> HIDE DEF room
<1>3. PICK n \in S : \A k \in S : k <= n
  <2>1. S \in SUBSET (0 .. Len(buffer)) /\ S # {}
    BY <1>2
  <2> HIDE DEF S
  <2> QED
    BY <1>1, <2>1, Greatest
<1>4. n = Len(buffer) \/ n = DECODE_WIDTH \/ n = room \/ buffer[n + 1].fetched # "COMPLETED"
  <2> SUFFICES ASSUME n # Len(buffer), n # DECODE_WIDTH, n # room, buffer[n + 1].fetched = "COMPLETED"
               PROVE  FALSE
    OBVIOUS
  <2>1. n + 1 \in 0 .. Len(buffer) /\ n + 1 <= DECODE_WIDTH /\ n + 1 <= room
    BY <1>1
  <2>2. \A k \in 1 .. n + 1 : buffer[k].fetched = "COMPLETED"
    BY <1>1
  <2>3. n + 1 \in S
    BY <2>1, <2>2
  <2> QED
    BY <2>3, <1>1, <1>3
<1>5. \E i \in 0 .. Len(buffer) :
        /\ \A k \in 1 .. i : buffer[k].fetched = "COMPLETED"
        /\ i <= DECODE_WIDTH /\ i <= room
        /\ i = Len(buffer) \/ i = DECODE_WIDTH \/ i = room \/ buffer[i + 1].fetched # "COMPLETED"
  BY <1>3, <1>4
<1> QED
  BY <1>5 DEF Passing, room

(* Starting the decode latency changes no length and no branch.            *)
LEMMA TimedKeeps ==
  ASSUME NEW buffer \in Seq(DecodeEntry)
  PROVE  /\ Timed(buffer) \in Seq(DecodeEntry)
         /\ Len(Timed(buffer)) = Len(buffer)
         /\ \A k \in 1 .. Len(buffer) :
              Timed(buffer)[k].branch_mispredicted = buffer[k].branch_mispredicted
<1> DEFINE Starts(k) == /\ Cardinality({j \in 1 .. k : ~buffer[j].timed}) <= DECODE_WIDTH
                        /\ (k = 1 \/ Len(buffer) < DECODE_SIZE)
           e(k) == IF Starts(k) THEN [buffer[k] EXCEPT !.timed = TRUE] ELSE buffer[k]
<1>1. Len(buffer) \in Nat /\ DOMAIN buffer = 1 .. Len(buffer)
  OBVIOUS
<1>2. Timed(buffer) = [k \in 1 .. Len(buffer) |-> e(k)]
  BY <1>1 DEF Timed
<1> HIDE DEF Starts
<1>3. \A k \in 1 .. Len(buffer) : buffer[k] \in DecodeEntry
  BY <1>1
<1>4. \A k \in 1 .. Len(buffer) :
        e(k) \in DecodeEntry /\ e(k).branch_mispredicted = buffer[k].branch_mispredicted
  BY <1>3 DEF DecodeEntry
<1> HIDE DEF e
<1>5. [k \in 1 .. Len(buffer) |-> e(k)] \in [1 .. Len(buffer) -> DecodeEntry]
  BY <1>4
<1> QED
  BY <1>1, <1>2, <1>4, <1>5

(***************************************************************************)
(* The unresolved branches as one sequence over the three buffers.         *)
(***************************************************************************)
RobFlags(rob) == [k \in DOMAIN rob |-> rob[k].branch_mispredicted /\ ~rob[k].executed]
BufferFlags(buffer) == [k \in DOMAIN buffer |-> buffer[k].branch_mispredicted]
Flags(rob, decode, fetch) == RobFlags(rob) \o BufferFlags(decode) \o BufferFlags(fetch)

Distances(flags) == {Len(flags) - k : k \in {j \in DOMAIN flags : flags[j]}}

LEMMA UnresolvedIs == Unresolved = Distances(Flags(ROB, DECODE_BUFFER, IFETCH_BUFFER))
BY DEF Unresolved, Distances, Flags, RobFlags, BufferFlags

LEMMA RobFlagsAre ==
  ASSUME NEW rob \in Seq(RobEntry)
  PROVE  /\ RobFlags(rob) \in Seq(BOOLEAN) /\ Len(RobFlags(rob)) = Len(rob)
         /\ \A k \in 1 .. Len(rob) :
              RobFlags(rob)[k] = (rob[k].branch_mispredicted /\ ~rob[k].executed)
<1>1. Len(rob) \in Nat /\ DOMAIN rob = 1 .. Len(rob)
  OBVIOUS
<1>2. RobFlags(rob) \in [1 .. Len(rob) -> BOOLEAN]
  BY <1>1 DEF RobFlags
<1> QED
  BY <1>1, <1>2 DEF RobFlags

LEMMA BufferFlagsAre ==
  ASSUME NEW S, \A e \in S : e.branch_mispredicted \in BOOLEAN, NEW buffer \in Seq(S)
  PROVE  /\ BufferFlags(buffer) \in Seq(BOOLEAN) /\ Len(BufferFlags(buffer)) = Len(buffer)
         /\ \A k \in 1 .. Len(buffer) : BufferFlags(buffer)[k] = buffer[k].branch_mispredicted
<1>1. Len(buffer) \in Nat /\ DOMAIN buffer = 1 .. Len(buffer)
  OBVIOUS
<1>2. \A k \in 1 .. Len(buffer) : buffer[k] \in S
  BY <1>1
<1>3. BufferFlags(buffer) \in [1 .. Len(buffer) -> BOOLEAN]
  BY <1>1, <1>2 DEF BufferFlags
<1> QED
  BY <1>1, <1>3 DEF BufferFlags

LEMMA ConcatOfThree ==
  ASSUME NEW S, NEW a \in Seq(S), NEW b \in Seq(S), NEW c \in Seq(S)
  PROVE  /\ a \o b \o c \in Seq(S)
         /\ Len(a \o b \o c) = Len(a) + Len(b) + Len(c)
         /\ \A k \in 1 .. Len(a) + Len(b) + Len(c) :
              (a \o b \o c)[k] = IF k <= Len(a) THEN a[k]
                                 ELSE IF k <= Len(a) + Len(b) THEN b[k - Len(a)]
                                 ELSE c[k - Len(a) - Len(b)]
<1>1. /\ a \o b \in Seq(S) /\ Len(a \o b) = Len(a) + Len(b)
      /\ \A i \in 1 .. Len(a) + Len(b) : (a \o b)[i] = IF i <= Len(a) THEN a[i] ELSE b[i - Len(a)]
  BY ConcatProperties
<1>2. /\ a \o b \o c \in Seq(S) /\ Len(a \o b \o c) = Len(a \o b) + Len(c)
      /\ \A i \in 1 .. Len(a \o b) + Len(c) :
           (a \o b \o c)[i] = IF i <= Len(a \o b) THEN (a \o b)[i] ELSE c[i - Len(a \o b)]
  BY <1>1, ConcatProperties
<1>3. Len(a) \in Nat /\ Len(b) \in Nat /\ Len(c) \in Nat
  OBVIOUS
<1> QED
  BY <1>1, <1>2, <1>3

LEMMA FlagsAre ==
  ASSUME NEW rob \in Seq(RobEntry), NEW decode \in Seq(DecodeEntry), NEW fetch \in Seq(FetchEntry)
  PROVE  /\ Flags(rob, decode, fetch) \in Seq(BOOLEAN)
         /\ Len(Flags(rob, decode, fetch)) = Len(rob) + Len(decode) + Len(fetch)
         /\ \A k \in 1 .. Len(rob) + Len(decode) + Len(fetch) :
              Flags(rob, decode, fetch)[k] =
                IF k <= Len(rob) THEN rob[k].branch_mispredicted /\ ~rob[k].executed
                ELSE IF k <= Len(rob) + Len(decode) THEN decode[k - Len(rob)].branch_mispredicted
                ELSE fetch[k - Len(rob) - Len(decode)].branch_mispredicted
<1> DEFINE a == RobFlags(rob)
           b == BufferFlags(decode)
           c == BufferFlags(fetch)
<1>1. /\ a \in Seq(BOOLEAN) /\ Len(a) = Len(rob)
      /\ \A k \in 1 .. Len(rob) : a[k] = (rob[k].branch_mispredicted /\ ~rob[k].executed)
  BY RobFlagsAre
<1>2. /\ b \in Seq(BOOLEAN) /\ Len(b) = Len(decode)
      /\ \A k \in 1 .. Len(decode) : b[k] = decode[k].branch_mispredicted
  <2>1. \A e \in DecodeEntry : e.branch_mispredicted \in BOOLEAN
    BY DEF DecodeEntry
  <2> QED
    BY <2>1, BufferFlagsAre
<1>3. /\ c \in Seq(BOOLEAN) /\ Len(c) = Len(fetch)
      /\ \A k \in 1 .. Len(fetch) : c[k] = fetch[k].branch_mispredicted
  <2>1. \A e \in FetchEntry : e.branch_mispredicted \in BOOLEAN
    BY DEF FetchEntry
  <2> QED
    BY <2>1, BufferFlagsAre
<1>4. Flags(rob, decode, fetch) = a \o b \o c
  BY DEF Flags
<1>5. Len(rob) \in Nat /\ Len(decode) \in Nat /\ Len(fetch) \in Nat
  OBVIOUS
<1> HIDE DEF a, b, c
<1>6. a \in Seq(BOOLEAN) /\ b \in Seq(BOOLEAN) /\ c \in Seq(BOOLEAN)
  BY <1>1, <1>2, <1>3
<1>7. /\ a \o b \o c \in Seq(BOOLEAN)
      /\ Len(a \o b \o c) = Len(a) + Len(b) + Len(c)
      /\ \A k \in 1 .. Len(a) + Len(b) + Len(c) :
           (a \o b \o c)[k] = IF k <= Len(a) THEN a[k]
                              ELSE IF k <= Len(a) + Len(b) THEN b[k - Len(a)]
                              ELSE c[k - Len(a) - Len(b)]
  <2>1. PICK S : S = BOOLEAN
    OBVIOUS
  <2>2. a \in Seq(S) /\ b \in Seq(S) /\ c \in Seq(S)
    BY <1>6, <2>1
  <2>3. /\ a \o b \o c \in Seq(S)
        /\ Len(a \o b \o c) = Len(a) + Len(b) + Len(c)
        /\ \A k \in 1 .. Len(a) + Len(b) + Len(c) :
             (a \o b \o c)[k] = IF k <= Len(a) THEN a[k]
                                ELSE IF k <= Len(a) + Len(b) THEN b[k - Len(a)]
                                ELSE c[k - Len(a) - Len(b)]
    BY <2>2, ConcatOfThree
  <2> QED
    BY <2>1, <2>3
<1>8. ASSUME NEW k \in 1 .. Len(rob) + Len(decode) + Len(fetch)
      PROVE  (a \o b \o c)[k] =
                IF k <= Len(rob) THEN rob[k].branch_mispredicted /\ ~rob[k].executed
                ELSE IF k <= Len(rob) + Len(decode) THEN decode[k - Len(rob)].branch_mispredicted
                ELSE fetch[k - Len(rob) - Len(decode)].branch_mispredicted
  <2>1. CASE k <= Len(rob)
    <3>1. k \in 1 .. Len(rob)
      BY <2>1, <1>5
    <3>2. (a \o b \o c)[k] = a[k]
      BY <2>1, <1>1, <1>2, <1>3, <1>5, <1>7
    <3> QED
      BY <2>1, <3>1, <3>2, <1>1, Zenon
  <2>2. CASE ~(k <= Len(rob)) /\ k <= Len(rob) + Len(decode)
    <3>1. k - Len(rob) \in 1 .. Len(decode)
      BY <2>2, <1>5
    <3>2. (a \o b \o c)[k] = b[k - Len(rob)]
      BY <2>2, <1>1, <1>2, <1>3, <1>5, <1>7
    <3> QED
      BY <2>2, <3>1, <3>2, <1>2, Zenon
  <2>3. CASE ~(k <= Len(rob)) /\ ~(k <= Len(rob) + Len(decode))
    <3>1. k - Len(rob) - Len(decode) \in 1 .. Len(fetch)
      BY <2>3, <1>5
    <3>2. (a \o b \o c)[k] = c[k - Len(rob) - Len(decode)]
      BY <2>3, <1>1, <1>2, <1>3, <1>5, <1>7
    <3> QED
      BY <2>3, <3>1, <3>2, <1>3, Zenon
  <2> QED
    BY <2>1, <2>2, <2>3, Zenon
<1> QED
  BY <1>1, <1>2, <1>3, <1>4, <1>7, <1>8

(* Two sequences of flags with the same members are the same.              *)
LEMMA SameFlags ==
  ASSUME NEW s \in Seq(BOOLEAN), NEW t \in Seq(BOOLEAN),
         Len(s) = Len(t), \A i \in 1 .. Len(s) : s[i] = t[i]
  PROVE  s = t
<1>1. PICK S : S = BOOLEAN
  OBVIOUS
<1>2. s \in Seq(S) /\ t \in Seq(S)
  BY <1>1
<1> QED
  BY <1>2, SeqEqual

(* Marking lines moves no branch.                                          *)
LEMMA FlagsOfMark ==
  ASSUME NEW rob \in Seq(RobEntry), NEW decode \in Seq(DecodeEntry), NEW fetch \in Seq(FetchEntry),
         NEW lines, NEW state \in {"no", "INFLIGHT", "COMPLETED"}
  PROVE  Flags(rob, decode, Mark(fetch, lines, state)) = Flags(rob, decode, fetch)
<1> DEFINE m == Mark(fetch, lines, state)
<1>1. /\ m \in Seq(FetchEntry) /\ Len(m) = Len(fetch)
      /\ \A k \in 1 .. Len(fetch) : m[k].branch_mispredicted = fetch[k].branch_mispredicted
  BY MarkKeeps
<1>2. BufferFlags(m) = BufferFlags(fetch)
  BY <1>1 DEF BufferFlags
<1> QED
  BY <1>2 DEF Flags

(* Passing n instructions on to DECODE_BUFFER moves no branch.             *)
Grown(decode, fetch, n) ==
  decode \o [k \in 1 .. n |-> [timed |-> FALSE, branch_mispredicted |-> fetch[k].branch_mispredicted]]
Left(fetch, n) == SubSeq(fetch, n + 1, Len(fetch))

LEMMA PassOnDecode ==
  ASSUME ROB \in Seq(RobEntry), DECODE_BUFFER \in Seq(DecodeEntry), NEW fetch \in Seq(FetchEntry),
         NEW n \in 0 .. Len(fetch),
         DECODE_BUFFER' = Grown(DECODE_BUFFER, fetch, n), IFETCH_BUFFER' = Left(fetch, n)
  PROVE  /\ DECODE_BUFFER' \in Seq(DecodeEntry) /\ Len(DECODE_BUFFER') = Len(DECODE_BUFFER) + n
         /\ IFETCH_BUFFER' \in Seq(FetchEntry) /\ Len(IFETCH_BUFFER') = Len(fetch) - n
         /\ \A k \in 1 .. Len(IFETCH_BUFFER') : IFETCH_BUFFER'[k] = fetch[n + k]
         /\ Flags(ROB, DECODE_BUFFER', IFETCH_BUFFER') = Flags(ROB, DECODE_BUFFER, fetch)
<1> DEFINE moved == [k \in 1 .. n |-> [timed |-> FALSE,
                                       branch_mispredicted |-> fetch[k].branch_mispredicted]]
           rest == SubSeq(fetch, n + 1, Len(fetch))
<1>1. /\ Len(ROB) \in Nat /\ Len(DECODE_BUFFER) \in Nat /\ Len(fetch) \in Nat /\ n \in Nat /\ n <= Len(fetch)
      /\ \A k \in 1 .. Len(fetch) : fetch[k] \in FetchEntry
  OBVIOUS
<1>2. /\ moved \in Seq(DecodeEntry) /\ Len(moved) = n
      /\ \A k \in 1 .. n : moved[k].branch_mispredicted = fetch[k].branch_mispredicted
  <2>1. \A k \in 1 .. n : fetch[k].branch_mispredicted \in BOOLEAN
    BY <1>1 DEF FetchEntry
  <2>2. moved \in [1 .. n -> DecodeEntry]
    BY <2>1 DEF DecodeEntry
  <2>3. moved \in Seq(DecodeEntry) /\ Len(moved) = n
    <3> HIDE DEF moved
    <3> QED
      BY <1>1, <2>2
  <2> QED
    BY <1>1, <2>3
<1>3. /\ rest \in Seq(FetchEntry) /\ Len(rest) = Len(fetch) - n
      /\ \A k \in 1 .. Len(rest) : rest[k] = fetch[n + k]
  <2>1. \A i \in n + 1 .. Len(fetch) : fetch[i] \in FetchEntry
    BY <1>1
  <2>2. /\ rest \in Seq(FetchEntry)
        /\ Len(rest) = IF n + 1 <= Len(fetch) THEN Len(fetch) - (n + 1) + 1 ELSE 0
        /\ \A i \in 1 .. Len(fetch) - (n + 1) + 1 : rest[i] = fetch[n + 1 + i - 1]
    BY <2>1, <1>1, SubSeqProperties
  <2>3. Len(rest) = Len(fetch) - n
    BY <2>2, <1>1
  <2>4. ASSUME NEW k \in 1 .. Len(rest) PROVE rest[k] = fetch[n + k]
    <3>1. n + 1 + k - 1 = n + k
      BY <1>1, <2>3
    <3> QED
      BY <2>2, <2>3, <3>1, <1>1
  <2> QED
    BY <2>2, <2>3, <2>4
<1> HIDE DEF moved, rest
<1>4. /\ DECODE_BUFFER \o moved \in Seq(DecodeEntry) /\ Len(DECODE_BUFFER \o moved) = Len(DECODE_BUFFER) + n
      /\ \A i \in 1 .. Len(DECODE_BUFFER) + n : (DECODE_BUFFER \o moved)[i] =
           IF i <= Len(DECODE_BUFFER) THEN DECODE_BUFFER[i] ELSE moved[i - Len(DECODE_BUFFER)]
  BY <1>2, ConcatProperties
<1>5. Flags(ROB, DECODE_BUFFER \o moved, rest) = Flags(ROB, DECODE_BUFFER, fetch)
  <2> DEFINE old == Flags(ROB, DECODE_BUFFER, fetch)
             new == Flags(ROB, DECODE_BUFFER \o moved, rest)
             L == Len(ROB) + Len(DECODE_BUFFER) + Len(fetch)
  <2>1. /\ old \in Seq(BOOLEAN) /\ Len(old) = L
        /\ \A k \in 1 .. L : old[k] =
                IF k <= Len(ROB) THEN ROB[k].branch_mispredicted /\ ~ROB[k].executed
                ELSE IF k <= Len(ROB) + Len(DECODE_BUFFER) THEN DECODE_BUFFER[k - Len(ROB)].branch_mispredicted
                ELSE fetch[k - Len(ROB) - Len(DECODE_BUFFER)].branch_mispredicted
    BY FlagsAre
  <2>2. Len(ROB) + Len(DECODE_BUFFER \o moved) + Len(rest) = L
    BY <1>1, <1>3, <1>4
  <2>3. /\ new \in Seq(BOOLEAN) /\ Len(new) = L
        /\ \A k \in 1 .. L : new[k] =
                IF k <= Len(ROB) THEN ROB[k].branch_mispredicted /\ ~ROB[k].executed
                ELSE IF k <= Len(ROB) + Len(DECODE_BUFFER) + n
                THEN (DECODE_BUFFER \o moved)[k - Len(ROB)].branch_mispredicted
                ELSE rest[k - Len(ROB) - (Len(DECODE_BUFFER) + n)].branch_mispredicted
    <3>1. PICK d : d = DECODE_BUFFER \o moved
      OBVIOUS
    <3>2. d \in Seq(DecodeEntry) /\ Len(d) = Len(DECODE_BUFFER) + n
      BY <3>1, <1>4
    <3>3. /\ Flags(ROB, d, rest) \in Seq(BOOLEAN)
          /\ Len(Flags(ROB, d, rest)) = Len(ROB) + Len(d) + Len(rest)
          /\ \A k \in 1 .. Len(ROB) + Len(d) + Len(rest) : Flags(ROB, d, rest)[k] =
                IF k <= Len(ROB) THEN ROB[k].branch_mispredicted /\ ~ROB[k].executed
                ELSE IF k <= Len(ROB) + Len(d) THEN d[k - Len(ROB)].branch_mispredicted
                ELSE rest[k - Len(ROB) - Len(d)].branch_mispredicted
      BY <3>2, <1>3, FlagsAre
    <3>4. Len(ROB) + Len(d) = Len(ROB) + Len(DECODE_BUFFER) + n /\ Len(ROB) + Len(d) + Len(rest) = L
      BY <3>1, <3>2, <2>2, <1>1
    <3> QED
      BY <3>1, <3>2, <3>3, <3>4, Zenon
  <2> HIDE DEF old, new
  <2>4. ASSUME NEW k \in 1 .. L PROVE new[k] = old[k]
    <3>1. CASE k <= Len(ROB)
      BY <3>1, <2>1, <2>3
    <3>2. CASE ~(k <= Len(ROB)) /\ k <= Len(ROB) + Len(DECODE_BUFFER)
      <4>1. k - Len(ROB) \in 1 .. Len(DECODE_BUFFER) /\ k <= Len(ROB) + Len(DECODE_BUFFER) + n
        BY <3>2, <1>1
      <4>2. (DECODE_BUFFER \o moved)[k - Len(ROB)] = DECODE_BUFFER[k - Len(ROB)]
        BY <4>1, <1>1, <1>4
      <4> QED
        BY <3>2, <4>1, <4>2, <2>1, <2>3, Zenon
    <3>3. CASE ~(k <= Len(ROB) + Len(DECODE_BUFFER)) /\ k <= Len(ROB) + Len(DECODE_BUFFER) + n
      <4>1. k - Len(ROB) - Len(DECODE_BUFFER) \in 1 .. n /\ ~(k <= Len(ROB))
        BY <3>3, <1>1
      <4>2. (DECODE_BUFFER \o moved)[k - Len(ROB)] = moved[k - Len(ROB) - Len(DECODE_BUFFER)]
        BY <3>3, <4>1, <1>1, <1>4
      <4> QED
        BY <3>3, <4>1, <4>2, <2>1, <2>3, <1>2, Zenon
    <3>4. CASE ~(k <= Len(ROB) + Len(DECODE_BUFFER) + n)
      <4>1. /\ k - Len(ROB) - (Len(DECODE_BUFFER) + n) \in 1 .. Len(rest)
            /\ n + (k - Len(ROB) - (Len(DECODE_BUFFER) + n)) = k - Len(ROB) - Len(DECODE_BUFFER)
            /\ ~(k <= Len(ROB)) /\ ~(k <= Len(ROB) + Len(DECODE_BUFFER))
        BY SMTT(30), <3>4, <1>1, <1>3
      <4>2. rest[k - Len(ROB) - (Len(DECODE_BUFFER) + n)] = fetch[k - Len(ROB) - Len(DECODE_BUFFER)]
        BY <4>1, <1>3
      <4> QED
        BY <3>4, <4>1, <4>2, <2>1, <2>3, Zenon
    <3> QED
      BY <3>1, <3>2, <3>3, <3>4, <1>1
  <2>5. \A k \in 1 .. Len(new) : new[k] = old[k]
    BY <2>3, <2>4, Zenon
  <2>6. new = old
    BY <2>1, <2>3, <2>5, SameFlags
  <2> QED
    BY <2>6 DEF new, old
<1>6. DECODE_BUFFER' = DECODE_BUFFER \o moved /\ IFETCH_BUFFER' = rest
  BY DEF moved, rest, Grown, Left
<1> QED
  BY <1>3, <1>4, <1>5, <1>6

(* Dispatching n instructions to the reorder buffer moves no branch.       *)
LEMMA PassOnDispatch ==
  ASSUME NEW rob \in Seq(RobEntry), NEW decode \in Seq(DecodeEntry), NEW fetch \in Seq(FetchEntry),
         NEW n \in 0 .. Len(decode)
  PROVE  LET moved == [k \in 1 .. n |-> [executed |-> FALSE,
                                         branch_mispredicted |-> decode[k].branch_mispredicted]]
             rest == Timed(SubSeq(decode, n + 1, Len(decode)))
         IN /\ rob \o moved \in Seq(RobEntry) /\ Len(rob \o moved) = Len(rob) + n
            /\ rest \in Seq(DecodeEntry) /\ Len(rest) = Len(decode) - n
            /\ Flags(rob \o moved, rest, fetch) = Flags(rob, decode, fetch)
<1> DEFINE moved == [k \in 1 .. n |-> [executed |-> FALSE,
                                       branch_mispredicted |-> decode[k].branch_mispredicted]]
           cut == SubSeq(decode, n + 1, Len(decode))
           rest == Timed(cut)
<1>1. /\ Len(rob) \in Nat /\ Len(decode) \in Nat /\ Len(fetch) \in Nat /\ n \in Nat /\ n <= Len(decode)
      /\ \A k \in 1 .. Len(decode) : decode[k] \in DecodeEntry
  OBVIOUS
<1>2. /\ moved \in Seq(RobEntry) /\ Len(moved) = n
      /\ \A k \in 1 .. n : (moved[k].branch_mispredicted /\ ~moved[k].executed)
                           = decode[k].branch_mispredicted
  <2>1. \A k \in 1 .. n : decode[k].branch_mispredicted \in BOOLEAN
    BY <1>1 DEF DecodeEntry
  <2>2. moved \in [1 .. n -> RobEntry]
    BY <2>1 DEF RobEntry
  <2> QED
    BY <1>1, <2>1, <2>2
<1>3. /\ rest \in Seq(DecodeEntry) /\ Len(rest) = Len(decode) - n
      /\ \A k \in 1 .. Len(rest) : rest[k].branch_mispredicted = decode[n + k].branch_mispredicted
  <2>1. \A i \in n + 1 .. Len(decode) : decode[i] \in DecodeEntry
    BY <1>1
  <2>2. /\ cut \in Seq(DecodeEntry)
        /\ Len(cut) = IF n + 1 <= Len(decode) THEN Len(decode) - (n + 1) + 1 ELSE 0
        /\ \A i \in 1 .. Len(decode) - (n + 1) + 1 : cut[i] = decode[n + 1 + i - 1]
    BY <2>1, <1>1, SubSeqProperties
  <2>3. Len(cut) = Len(decode) - n
    BY <2>2, <1>1
  <2> HIDE DEF cut
  <2>4. ASSUME NEW k \in 1 .. Len(cut) PROVE cut[k] = decode[n + k]
    <3>1. n + 1 + k - 1 = n + k
      BY <1>1, <2>3
    <3> QED
      BY <2>2, <2>3, <3>1, <1>1
  <2>5. /\ rest \in Seq(DecodeEntry) /\ Len(rest) = Len(cut)
        /\ \A k \in 1 .. Len(cut) : rest[k].branch_mispredicted = cut[k].branch_mispredicted
    BY <2>2, TimedKeeps
  <2> QED
    BY <2>3, <2>4, <2>5
<1> HIDE DEF moved, rest
<1>4. /\ rob \o moved \in Seq(RobEntry) /\ Len(rob \o moved) = Len(rob) + n
      /\ \A i \in 1 .. Len(rob) + n : (rob \o moved)[i] =
           IF i <= Len(rob) THEN rob[i] ELSE moved[i - Len(rob)]
  BY ZenonT(30), <1>2, ConcatProperties
<1>5. Flags(rob \o moved, rest, fetch) = Flags(rob, decode, fetch)
  <2> DEFINE old == Flags(rob, decode, fetch)
             new == Flags(rob \o moved, rest, fetch)
             L == Len(rob) + Len(decode) + Len(fetch)
  <2>1. /\ old \in Seq(BOOLEAN) /\ Len(old) = L
        /\ \A k \in 1 .. L : old[k] =
                IF k <= Len(rob) THEN rob[k].branch_mispredicted /\ ~rob[k].executed
                ELSE IF k <= Len(rob) + Len(decode) THEN decode[k - Len(rob)].branch_mispredicted
                ELSE fetch[k - Len(rob) - Len(decode)].branch_mispredicted
    BY FlagsAre
  <2>2. /\ new \in Seq(BOOLEAN) /\ Len(new) = L
        /\ \A k \in 1 .. L : new[k] =
                IF k <= Len(rob) + n
                THEN (rob \o moved)[k].branch_mispredicted /\ ~(rob \o moved)[k].executed
                ELSE IF k <= Len(rob) + Len(decode) THEN rest[k - (Len(rob) + n)].branch_mispredicted
                ELSE fetch[k - Len(rob) - Len(decode)].branch_mispredicted
    <3>1. PICK r : r = rob \o moved
      OBVIOUS
    <3>2. r \in Seq(RobEntry) /\ Len(r) = Len(rob) + n
      BY <3>1, <1>4
    <3>3. /\ Flags(r, rest, fetch) \in Seq(BOOLEAN)
          /\ Len(Flags(r, rest, fetch)) = Len(r) + Len(rest) + Len(fetch)
          /\ \A k \in 1 .. Len(r) + Len(rest) + Len(fetch) : Flags(r, rest, fetch)[k] =
                IF k <= Len(r) THEN r[k].branch_mispredicted /\ ~r[k].executed
                ELSE IF k <= Len(r) + Len(rest) THEN rest[k - Len(r)].branch_mispredicted
                ELSE fetch[k - Len(r) - Len(rest)].branch_mispredicted
      BY <3>2, <1>3, FlagsAre
    <3>4. /\ Len(r) + Len(rest) = Len(rob) + Len(decode) /\ Len(r) + Len(rest) + Len(fetch) = L
          /\ \A k \in 1 .. L : k - Len(r) - Len(rest) = k - Len(rob) - Len(decode)
      BY <3>2, <1>1, <1>3
    <3> QED
      BY <3>1, <3>2, <3>3, <3>4, Zenon
  <2> HIDE DEF old, new
  <2>4. ASSUME NEW k \in 1 .. L PROVE new[k] = old[k]
    <3>1. CASE k <= Len(rob)
      <4>1. k \in 1 .. Len(rob) /\ k <= Len(rob) + n
        BY <3>1, <1>1
      <4>2. (rob \o moved)[k] = rob[k]
        BY <4>1, <1>1, <1>4
      <4> QED
        BY <3>1, <4>1, <4>2, <2>1, <2>2, Zenon
    <3>2. CASE ~(k <= Len(rob)) /\ k <= Len(rob) + n
      <4>1. k - Len(rob) \in 1 .. n /\ k <= Len(rob) + Len(decode)
        BY <3>2, <1>1
      <4>2. (rob \o moved)[k] = moved[k - Len(rob)]
        BY <3>2, <4>1, <1>1, <1>4
      <4> QED
        BY <3>2, <4>1, <4>2, <2>1, <2>2, <1>2, Zenon
    <3>3. CASE ~(k <= Len(rob) + n) /\ k <= Len(rob) + Len(decode)
      <4>1. /\ k - (Len(rob) + n) \in 1 .. Len(rest)
            /\ n + (k - (Len(rob) + n)) = k - Len(rob)
            /\ ~(k <= Len(rob))
        BY <3>3, <1>1, <1>3
      <4>2. rest[k - (Len(rob) + n)].branch_mispredicted = decode[k - Len(rob)].branch_mispredicted
        BY <4>1, <1>3
      <4> QED
        BY <3>3, <4>1, <4>2, <2>1, <2>2, Zenon
    <3>4. CASE ~(k <= Len(rob) + Len(decode))
      <4>1. ~(k <= Len(rob)) /\ ~(k <= Len(rob) + n)
        BY <3>4, <1>1
      <4> QED
        BY <3>4, <4>1, <2>1, <2>2, Zenon
    <3> QED
      BY <3>1, <3>2, <3>3, <3>4, <1>1
  <2>5. \A k \in 1 .. Len(new) : new[k] = old[k]
    BY <2>2, <2>4, Zenon
  <2>6. new = old
    BY <2>1, <2>2, <2>5, SameFlags
  <2> QED
    BY <2>6 DEF new, old
<1> QED
  BY <1>3, <1>4, <1>5 DEF moved, rest

(***************************************************************************)
(* The stall in terms of the flags: only the youngest instruction may be   *)
(* an unresolved branch.                                                   *)
(***************************************************************************)
OnlyLast(flags) == \A k \in 1 .. Len(flags) : flags[k] => k = Len(flags)
LastSet(flags) == Len(flags) > 0 /\ flags[Len(flags)]

LEMMA DistancesAre ==
  ASSUME NEW flags \in Seq(BOOLEAN)
  PROVE  /\ Distances(flags) \subseteq {0} <=> OnlyLast(flags)
         /\ OnlyLast(flags) => (Distances(flags) = {0} <=> LastSet(flags))
<1>1. Len(flags) \in Nat /\ DOMAIN flags = 1 .. Len(flags)
  OBVIOUS
<1>2. \A k \in 1 .. Len(flags) : Len(flags) - k = 0 <=> k = Len(flags)
  BY <1>1
<1>3. Distances(flags) \subseteq {0} <=> OnlyLast(flags)
  <2>1. ASSUME Distances(flags) \subseteq {0} PROVE OnlyLast(flags)
    <3> SUFFICES ASSUME NEW k \in 1 .. Len(flags), flags[k] PROVE k = Len(flags)
      BY DEF OnlyLast
    <3>1. k \in {j \in DOMAIN flags : flags[j]}
      BY <1>1
    <3>2. Len(flags) - k \in Distances(flags)
      BY <3>1, Zenon DEF Distances
    <3> QED
      BY <3>2, <2>1, <1>2
  <2>2. ASSUME OnlyLast(flags) PROVE Distances(flags) \subseteq {0}
    <3> SUFFICES ASSUME NEW x \in Distances(flags) PROVE x = 0
      OBVIOUS
    <3>1. PICK k \in DOMAIN flags : flags[k] /\ x = Len(flags) - k
      BY DEF Distances
    <3> QED
      BY <3>1, <2>2, <1>1, <1>2 DEF OnlyLast
  <2> QED
    BY <2>1, <2>2
<1>4. ASSUME OnlyLast(flags) PROVE Distances(flags) = {0} <=> LastSet(flags)
  <2>1. ASSUME LastSet(flags) PROVE 0 \in Distances(flags)
    <3>1. Len(flags) \in {j \in DOMAIN flags : flags[j]} /\ Len(flags) - Len(flags) = 0
      BY <2>1, <1>1 DEF LastSet
    <3> QED
      BY <3>1 DEF Distances
  <2>2. ASSUME 0 \in Distances(flags) PROVE LastSet(flags)
    <3>1. PICK k \in 1 .. Len(flags) : flags[k] /\ Len(flags) - k = 0
      BY <2>2, <1>1 DEF Distances
    <3>2. k = Len(flags) /\ Len(flags) > 0
      BY <3>1, <1>1, <1>2
    <3> QED
      BY <3>1, <3>2, Zenon DEF LastSet
  <2> QED
    BY <2>1, <2>2, <1>3, <1>4
<1> QED
  BY <1>3, <1>4

(* Stalled says of flags what StallHasItsBranch says of the buffers.       *)
Stalled(flags, stall, resume) ==
  /\ OnlyLast(flags)
  /\ stall <=> (LastSet(flags) \/ resume)
  /\ ~(LastSet(flags) /\ resume)

MachineFlags == Flags(ROB, DECODE_BUFFER, IFETCH_BUFFER)

LEMMA TypedBuffers ==
  ASSUME TypeOK
  PROVE  /\ IFETCH_BUFFER \in Seq(FetchEntry) /\ DECODE_BUFFER \in Seq(DecodeEntry)
         /\ ROB \in Seq(RobEntry)
         /\ Len(IFETCH_BUFFER) \in Nat /\ Len(DECODE_BUFFER) \in Nat /\ Len(ROB) \in Nat
         /\ fetch_stall \in BOOLEAN /\ fetch_resume_cycle \in BOOLEAN /\ warmup_complete \in BOOLEAN
<1>1. /\ IFETCH_BUFFER \in Seq(FetchEntry) /\ DECODE_BUFFER \in Seq(DecodeEntry)
      /\ ROB \in Seq(RobEntry)
  BY DEF TypeOK, FetchEntry, DecodeEntry, RobEntry
<1> QED
  BY <1>1 DEF TypeOK

LEMMA StallForm ==
  ASSUME TypeOK
  PROVE  StallHasItsBranch <=> Stalled(MachineFlags, fetch_stall, fetch_resume_cycle)
<1>1. MachineFlags \in Seq(BOOLEAN)
  BY TypedBuffers, FlagsAre DEF MachineFlags
<1>2. Unresolved = Distances(MachineFlags)
  BY UnresolvedIs DEF MachineFlags
<1>3. /\ Unresolved \subseteq {0} <=> OnlyLast(MachineFlags)
      /\ OnlyLast(MachineFlags) => (Unresolved = {0} <=> LastSet(MachineFlags))
  BY <1>1, <1>2, DistancesAre
<1> QED
  BY <1>3, Zenon DEF StallHasItsBranch, Stalled

(* One more instruction, the youngest.                                     *)
LEMMA FlagsOfAppend ==
  ASSUME NEW rob \in Seq(RobEntry), NEW decode \in Seq(DecodeEntry), NEW fetch \in Seq(FetchEntry),
         NEW e \in FetchEntry,
         NEW resume \in BOOLEAN, Stalled(Flags(rob, decode, fetch), FALSE, resume)
  PROVE  Stalled(Flags(rob, decode, Append(fetch, e)), e.branch_mispredicted, resume)
<1> DEFINE old == Flags(rob, decode, fetch)
           new == Flags(rob, decode, Append(fetch, e))
           L == Len(rob) + Len(decode) + Len(fetch)
<1>0. Stalled(old, FALSE, resume)
  OBVIOUS
<1>1. /\ Len(rob) \in Nat /\ Len(decode) \in Nat /\ Len(fetch) \in Nat
      /\ Append(fetch, e) \in Seq(FetchEntry) /\ Len(Append(fetch, e)) = Len(fetch) + 1
      /\ \A k \in 1 .. Len(fetch) : Append(fetch, e)[k] = fetch[k]
      /\ Append(fetch, e)[Len(fetch) + 1] = e
  OBVIOUS
<1>2. /\ old \in Seq(BOOLEAN) /\ Len(old) = L
      /\ \A k \in 1 .. L : old[k] =
                IF k <= Len(rob) THEN rob[k].branch_mispredicted /\ ~rob[k].executed
                ELSE IF k <= Len(rob) + Len(decode) THEN decode[k - Len(rob)].branch_mispredicted
                ELSE fetch[k - Len(rob) - Len(decode)].branch_mispredicted
  BY FlagsAre
<1>3. /\ new \in Seq(BOOLEAN) /\ Len(new) = L + 1
      /\ \A k \in 1 .. L + 1 : new[k] =
                IF k <= Len(rob) THEN rob[k].branch_mispredicted /\ ~rob[k].executed
                ELSE IF k <= Len(rob) + Len(decode) THEN decode[k - Len(rob)].branch_mispredicted
                ELSE Append(fetch, e)[k - Len(rob) - Len(decode)].branch_mispredicted
  <2>1. PICK f : f = Append(fetch, e)
    OBVIOUS
  <2>2. f \in Seq(FetchEntry) /\ Len(f) = Len(fetch) + 1
    BY <2>1, <1>1
  <2>3. Len(rob) + Len(decode) + Len(f) = L + 1
    BY <2>2, <1>1
  <2>4. /\ Flags(rob, decode, f) \in Seq(BOOLEAN)
        /\ Len(Flags(rob, decode, f)) = Len(rob) + Len(decode) + Len(f)
        /\ \A k \in 1 .. Len(rob) + Len(decode) + Len(f) : Flags(rob, decode, f)[k] =
                IF k <= Len(rob) THEN rob[k].branch_mispredicted /\ ~rob[k].executed
                ELSE IF k <= Len(rob) + Len(decode) THEN decode[k - Len(rob)].branch_mispredicted
                ELSE f[k - Len(rob) - Len(decode)].branch_mispredicted
    BY <2>2, FlagsAre
  <2> QED
    BY <2>1, <2>3, <2>4, Zenon
<1> HIDE DEF old, new
<1>4. \A k \in 1 .. L : new[k] = old[k]
  <2> TAKE k \in 1 .. L
  <2>0. k \in 1 .. L + 1
    BY <1>1
  <2>1. CASE k <= Len(rob) + Len(decode)
    BY <2>0, <2>1, <1>2, <1>3, Zenon
  <2>2. CASE ~(k <= Len(rob) + Len(decode))
    <3>1. k - Len(rob) - Len(decode) \in 1 .. Len(fetch) /\ ~(k <= Len(rob))
      BY <2>2, <1>1
    <3>2. Append(fetch, e)[k - Len(rob) - Len(decode)] = fetch[k - Len(rob) - Len(decode)]
      BY <3>1, <1>1
    <3> QED
      BY <2>0, <2>2, <3>1, <3>2, <1>2, <1>3, Zenon
  <2> QED
    BY <2>1, <2>2
<1>5. new[L + 1] = e.branch_mispredicted
  <2>1. /\ L + 1 \in 1 .. L + 1 /\ ~(L + 1 <= Len(rob)) /\ ~(L + 1 <= Len(rob) + Len(decode))
        /\ L + 1 - Len(rob) - Len(decode) = Len(fetch) + 1
    BY <1>1
  <2>2. Append(fetch, e)[L + 1 - Len(rob) - Len(decode)] = e
    BY <2>1, <1>1
  <2>3. new[L + 1] = Append(fetch, e)[L + 1 - Len(rob) - Len(decode)].branch_mispredicted
    <3>1. PICK k : k = L + 1
      OBVIOUS
    <3>2. k \in 1 .. L + 1 /\ ~(k <= Len(rob)) /\ ~(k <= Len(rob) + Len(decode))
      BY <3>1, <2>1
    <3>3. new[k] = Append(fetch, e)[k - Len(rob) - Len(decode)].branch_mispredicted
      BY <3>2, <1>3, Zenon
    <3> QED
      BY <3>1, <3>3
  <2> QED
    BY <2>2, <2>3
<1>6. L \in Nat /\ \A k \in 1 .. L : ~old[k]
  <2>1. OnlyLast(old) /\ ~LastSet(old)
    BY <1>0, Zenon DEF Stalled
  <2> QED
    BY <2>1, <1>1, <1>2 DEF OnlyLast, LastSet
<1>7. OnlyLast(new)
  <2>1. ASSUME NEW k \in 1 .. L + 1, new[k] PROVE k = L + 1
    <3>1. ~(k \in 1 .. L)
      BY <2>1, <1>4, <1>6
    <3> QED
      BY <3>1, <1>6
  <2> QED
    BY <2>1, <1>3 DEF OnlyLast
<1>8. LastSet(new) <=> e.branch_mispredicted
  <2>1. L + 1 > 0
    BY <1>6
  <2> QED
    BY <2>1, <1>3, <1>5, Zenon DEF LastSet
<1>9. ~resume /\ e.branch_mispredicted \in BOOLEAN
  BY <1>0, Zenon DEF Stalled, FetchEntry
<1>10. Stalled(new, e.branch_mispredicted, resume)
  BY <1>7, <1>8, <1>9, Zenon DEF Stalled
<1> QED
  BY <1>10 DEF new

(* An instruction executes: if it is the branch, its resume cycle is set.  *)
Executed(rob, i) == [rob EXCEPT ![i].executed = TRUE]

LEMMA FlagsOfExecute ==
  ASSUME TypeOK, NEW i \in 1 .. Len(ROB), ~ROB[i].executed, ROB' = Executed(ROB, i),
         fetch_resume_cycle' \in BOOLEAN,
         fetch_resume_cycle' <=> fetch_resume_cycle \/ ROB[i].branch_mispredicted,
         Stalled(Flags(ROB, DECODE_BUFFER, IFETCH_BUFFER), fetch_stall, fetch_resume_cycle)
  PROVE  /\ ROB' \in Seq(RobEntry) /\ Len(ROB') = Len(ROB)
         /\ Stalled(Flags(ROB', DECODE_BUFFER, IFETCH_BUFFER), fetch_stall, fetch_resume_cycle')
<1>0. /\ ROB \in Seq(RobEntry) /\ DECODE_BUFFER \in Seq(DecodeEntry)
      /\ IFETCH_BUFFER \in Seq(FetchEntry)
      /\ fetch_stall \in BOOLEAN /\ fetch_resume_cycle \in BOOLEAN
  BY TypedBuffers
<1> USE <1>0
<1> DEFINE old == Flags(ROB, DECODE_BUFFER, IFETCH_BUFFER)
           new == Flags(ROB', DECODE_BUFFER, IFETCH_BUFFER)
           L == Len(ROB) + Len(DECODE_BUFFER) + Len(IFETCH_BUFFER)
<1>1. /\ Len(ROB) \in Nat /\ Len(DECODE_BUFFER) \in Nat /\ Len(IFETCH_BUFFER) \in Nat
      /\ DOMAIN ROB = 1 .. Len(ROB) /\ i \in 1 .. L
      /\ ROB[i] \in RobEntry
  OBVIOUS
<1>2. /\ ROB' \in Seq(RobEntry) /\ Len(ROB') = Len(ROB)
      /\ \A k \in 1 .. Len(ROB) : k # i => ROB'[k] = ROB[k]
      /\ ROB'[i].executed = TRUE
  <2>1. ROB' = [ROB EXCEPT ![i] = [ROB[i] EXCEPT !.executed = TRUE]]
    BY <1>1 DEF Executed
  <2>2. [ROB[i] EXCEPT !.executed = TRUE] \in RobEntry
    BY <1>1 DEF RobEntry
  <2>3. [ROB[i] EXCEPT !.executed = TRUE].executed = TRUE
    BY <1>1 DEF RobEntry
  <2> QED
    BY <2>1, <2>2, <2>3, <1>1, ExceptSeq
<1>3. /\ old \in Seq(BOOLEAN) /\ Len(old) = L
      /\ \A k \in 1 .. L : old[k] =
                IF k <= Len(ROB) THEN ROB[k].branch_mispredicted /\ ~ROB[k].executed
                ELSE IF k <= Len(ROB) + Len(DECODE_BUFFER) THEN DECODE_BUFFER[k - Len(ROB)].branch_mispredicted
                ELSE IFETCH_BUFFER[k - Len(ROB) - Len(DECODE_BUFFER)].branch_mispredicted
  BY FlagsAre
<1>4. /\ new \in Seq(BOOLEAN) /\ Len(new) = L
      /\ \A k \in 1 .. L : new[k] =
                IF k <= Len(ROB) THEN ROB'[k].branch_mispredicted /\ ~ROB'[k].executed
                ELSE IF k <= Len(ROB) + Len(DECODE_BUFFER) THEN DECODE_BUFFER[k - Len(ROB)].branch_mispredicted
                ELSE IFETCH_BUFFER[k - Len(ROB) - Len(DECODE_BUFFER)].branch_mispredicted
  <2>1. PICK r : r = ROB'
    OBVIOUS
  <2>2. r \in Seq(RobEntry) /\ Len(r) = Len(ROB)
    BY <2>1, <1>2
  <2>3. /\ Flags(r, DECODE_BUFFER, IFETCH_BUFFER) \in Seq(BOOLEAN)
        /\ Len(Flags(r, DECODE_BUFFER, IFETCH_BUFFER)) = Len(r) + Len(DECODE_BUFFER) + Len(IFETCH_BUFFER)
        /\ \A k \in 1 .. Len(r) + Len(DECODE_BUFFER) + Len(IFETCH_BUFFER) : Flags(r, DECODE_BUFFER, IFETCH_BUFFER)[k] =
                IF k <= Len(r) THEN r[k].branch_mispredicted /\ ~r[k].executed
                ELSE IF k <= Len(r) + Len(DECODE_BUFFER) THEN DECODE_BUFFER[k - Len(r)].branch_mispredicted
                ELSE IFETCH_BUFFER[k - Len(r) - Len(DECODE_BUFFER)].branch_mispredicted
    BY <2>2, FlagsAre
  <2> QED
    BY <2>1, <2>2, <2>3, Zenon
<1>5. Stalled(old, fetch_stall, fetch_resume_cycle)
  OBVIOUS
<1> HIDE DEF old, new
<1>6. \A k \in 1 .. L : k # i => new[k] = old[k]
  <2> TAKE k \in 1 .. L
  <2> HAVE k # i
  <2>1. CASE k <= Len(ROB)
    <3>1. k \in 1 .. Len(ROB)
      BY <2>1, <1>1
    <3> QED
      BY <2>1, <3>1, <1>2, <1>3, <1>4, Zenon
  <2>2. CASE ~(k <= Len(ROB))
    BY <2>2, <1>3, <1>4, Zenon
  <2> QED
    BY <2>1, <2>2
<1>7. /\ old[i] = ROB[i].branch_mispredicted /\ new[i] = FALSE
      /\ ROB[i].branch_mispredicted \in BOOLEAN
  <2>1. i <= Len(ROB)
    BY <1>1
  <2>2. ROB[i].branch_mispredicted \in BOOLEAN
    BY <1>1 DEF RobEntry
  <2> QED
    BY <2>1, <2>2, <1>1, <1>2, <1>3, <1>4, Zenon
<1>8. L \in Nat /\ L > 0 /\ L \in 1 .. L
  BY <1>1
<1>9. OnlyLast(old) /\ (fetch_stall <=> LastSet(old) \/ fetch_resume_cycle) /\ ~(LastSet(old) /\ fetch_resume_cycle)
  BY <1>5, Zenon DEF Stalled
<1>10. \A k \in 1 .. L : new[k] => old[k]
  BY <1>6, <1>7, Zenon
<1>11. OnlyLast(new)
  BY <1>9, <1>10, <1>3, <1>4, Zenon DEF OnlyLast
<1>12. CASE ROB[i].branch_mispredicted
  <2>1. i = L
    BY <1>12, <1>1, <1>3, <1>7, <1>9, Zenon DEF OnlyLast
  <2>2. LastSet(old)
    BY <2>1, <1>12, <1>3, <1>7, <1>8, Zenon DEF LastSet
  <2>3. ~LastSet(new)
    BY <2>1, <1>4, <1>7, Zenon DEF LastSet
  <2>4. Stalled(new, fetch_stall, fetch_resume_cycle')
    BY <2>2, <2>3, <1>9, <1>11, <1>12, Zenon DEF Stalled
  <2> QED
    BY <2>4, <1>2 DEF new
<1>13. CASE ~ROB[i].branch_mispredicted
  <2>1. \A k \in 1 .. L : new[k] = old[k]
    BY <1>13, <1>6, <1>7, Zenon
  <2>2. LastSet(new) <=> LastSet(old)
    BY <2>1, <1>3, <1>4, <1>8, Zenon DEF LastSet
  <2>3. Stalled(new, fetch_stall, fetch_resume_cycle')
    BY <2>2, <1>9, <1>11, <1>13, Zenon DEF Stalled
  <2> QED
    BY <2>3, <1>2 DEF new
<1> QED
  BY <1>12, <1>13

(* The oldest instruction retires.                                         *)
LEMMA FlagsOfRetire ==
  ASSUME NEW rob \in Seq(RobEntry), NEW decode \in Seq(DecodeEntry), NEW fetch \in Seq(FetchEntry),
         rob # <<>>, Head(rob).executed,
         NEW stall \in BOOLEAN, NEW resume \in BOOLEAN,
         Stalled(Flags(rob, decode, fetch), stall, resume)
  PROVE  /\ Tail(rob) \in Seq(RobEntry) /\ Len(Tail(rob)) = Len(rob) - 1
         /\ Stalled(Flags(Tail(rob), decode, fetch), stall, resume)
<1> DEFINE old == Flags(rob, decode, fetch)
           new == Flags(Tail(rob), decode, fetch)
           L == Len(rob) + Len(decode) + Len(fetch)
<1>1. /\ Len(rob) \in Nat \ {0} /\ Len(decode) \in Nat /\ Len(fetch) \in Nat
      /\ rob[1].executed
  OBVIOUS
<1>2. /\ Tail(rob) \in Seq(RobEntry) /\ Len(Tail(rob)) = Len(rob) - 1
      /\ \A k \in 1 .. Len(rob) - 1 : Tail(rob)[k] = rob[k + 1]
  BY HeadTailProperties
<1>3. /\ old \in Seq(BOOLEAN) /\ Len(old) = L
      /\ \A k \in 1 .. L : old[k] =
                IF k <= Len(rob) THEN rob[k].branch_mispredicted /\ ~rob[k].executed
                ELSE IF k <= Len(rob) + Len(decode) THEN decode[k - Len(rob)].branch_mispredicted
                ELSE fetch[k - Len(rob) - Len(decode)].branch_mispredicted
  BY FlagsAre
<1>4. /\ new \in Seq(BOOLEAN) /\ Len(new) = L - 1
      /\ \A k \in 1 .. L - 1 : new[k] =
                IF k <= Len(rob) - 1
                THEN Tail(rob)[k].branch_mispredicted /\ ~Tail(rob)[k].executed
                ELSE IF k <= Len(rob) - 1 + Len(decode)
                THEN decode[k - (Len(rob) - 1)].branch_mispredicted
                ELSE fetch[k - (Len(rob) - 1) - Len(decode)].branch_mispredicted
  <2>1. PICK r : r = Tail(rob)
    OBVIOUS
  <2>2. r \in Seq(RobEntry) /\ Len(r) = Len(rob) - 1
    BY <2>1, <1>2
  <2>3. Len(rob) - 1 + Len(decode) + Len(fetch) = L - 1
    BY <1>1
  <2>4. /\ Flags(r, decode, fetch) \in Seq(BOOLEAN)
        /\ Len(Flags(r, decode, fetch)) = Len(r) + Len(decode) + Len(fetch)
        /\ \A k \in 1 .. Len(r) + Len(decode) + Len(fetch) : Flags(r, decode, fetch)[k] =
                IF k <= Len(r) THEN r[k].branch_mispredicted /\ ~r[k].executed
                ELSE IF k <= Len(r) + Len(decode) THEN decode[k - Len(r)].branch_mispredicted
                ELSE fetch[k - Len(r) - Len(decode)].branch_mispredicted
    BY <2>2, FlagsAre
  <2> QED
    BY <2>1, <2>2, <2>3, <2>4, Zenon
<1>5. Stalled(old, stall, resume)
  OBVIOUS
<1> HIDE DEF old, new
<1>6. \A k \in 1 .. L - 1 : new[k] = old[k + 1]
  <2> TAKE k \in 1 .. L - 1
  <2> DEFINE j == k + 1
  <2>1. j \in 1 .. L
    BY <1>1
  <2>2. CASE k <= Len(rob) - 1
    <3>1. k \in 1 .. Len(rob) - 1 /\ j <= Len(rob)
      BY <2>2, <1>1
    <3>2. Tail(rob)[k] = rob[j]
      BY <3>1, <1>2
    <3> HIDE DEF j
    <3>3. new[k] = old[j]
      BY <2>1, <2>2, <3>1, <3>2, <1>3, <1>4, Zenon
    <3> QED
      BY <3>3 DEF j
  <2>3. CASE ~(k <= Len(rob) - 1)
    <3>1. /\ ~(j <= Len(rob))
          /\ k <= Len(rob) - 1 + Len(decode) <=> j <= Len(rob) + Len(decode)
          /\ j - Len(rob) = k - (Len(rob) - 1)
          /\ j - Len(rob) - Len(decode) = k - (Len(rob) - 1) - Len(decode)
      BY <2>3, <1>1
    <3> HIDE DEF j
    <3>2. new[k] = IF k <= Len(rob) - 1 + Len(decode)
                   THEN decode[k - (Len(rob) - 1)].branch_mispredicted
                   ELSE fetch[k - (Len(rob) - 1) - Len(decode)].branch_mispredicted
      BY <2>3, <1>4, Zenon
    <3>3. old[j] = IF j <= Len(rob) + Len(decode)
                   THEN decode[j - Len(rob)].branch_mispredicted
                   ELSE fetch[j - Len(rob) - Len(decode)].branch_mispredicted
      BY <2>1, <3>1, <1>3, Zenon
    <3>4. new[k] = old[j]
      BY <3>1, <3>2, <3>3
    <3> QED
      BY <3>4 DEF j
  <2> QED
    BY <2>2, <2>3
<1>7. old[1] = FALSE
  <2>1. 1 \in 1 .. L /\ 1 <= Len(rob)
    BY <1>1
  <2> QED
    BY <2>1, <1>1, <1>3, Zenon
<1>8. OnlyLast(old) /\ (stall <=> LastSet(old) \/ resume) /\ ~(LastSet(old) /\ resume)
  BY <1>5, Zenon DEF Stalled
<1>9. OnlyLast(new)
  <2>1. ASSUME NEW k \in 1 .. L - 1, new[k] PROVE k = L - 1
    <3>1. k + 1 \in 1 .. L /\ old[k + 1]
      BY <2>1, <1>1, <1>6
    <3>2. k + 1 = L
      BY <3>1, <1>3, <1>8 DEF OnlyLast
    <3> QED
      BY <3>2, <1>1
  <2> QED
    BY <2>1, <1>4 DEF OnlyLast
<1>10. LastSet(new) <=> LastSet(old)
  <2>1. CASE L = 1
    <3>1. ~(L - 1 > 0)
      BY <2>1
    <3> QED
      BY <2>1, <3>1, <1>3, <1>4, <1>7 DEF LastSet
  <2>2. CASE L > 1
    <3>1. L - 1 \in 1 .. L - 1 /\ (L - 1) + 1 = L /\ L > 0 /\ L - 1 > 0
      BY <2>2, <1>1
    <3>2. new[L - 1] = old[L]
      BY <3>1, <1>6
    <3> QED
      BY <3>1, <3>2, <1>3, <1>4 DEF LastSet
  <2> QED
    BY <2>1, <2>2, <1>1
<1>11. Stalled(new, stall, resume)
  BY <1>8, <1>9, <1>10, Zenon DEF Stalled
<1> QED
  BY <1>11, <1>2 DEF new

(***************************************************************************)
(* The inductive invariant: the three invariants together. LineIsOwed and  *)
(* StallHasItsBranch need the types, and nothing else.                     *)
(***************************************************************************)
Inv == TypeOK /\ LineIsOwed /\ StallHasItsBranch

LEMMA InvInit == Init => Inv
<1> SUFFICES ASSUME Init PROVE Inv
  OBVIOUS
<1>1. TypeOK
  <2>1. /\ IFETCH_BUFFER \in Seq(FetchEntry) /\ DECODE_BUFFER \in Seq(DecodeEntry)
        /\ ROB \in Seq(RobEntry)
        /\ Len(IFETCH_BUFFER) = 0 /\ Len(DECODE_BUFFER) = 0 /\ Len(ROB) = 0
    <3>1. /\ <<>> \in Seq(FetchEntry) /\ <<>> \in Seq(DecodeEntry) /\ <<>> \in Seq(RobEntry)
          /\ Len(<<>>) = 0
      BY EmptySeq
    <3> QED
      BY <3>1 DEF Init
  <2>2. L1I \in [Lines -> Nat] /\ instr_unique_id \in 0 .. TRACE_LENGTH
    BY Sizes DEF Init
  <2>3. {fetch_stall, fetch_resume_cycle, warmup_complete} \subseteq BOOLEAN
    BY DEF Init
  <2> QED
    BY <2>1, <2>2, <2>3, Sizes DEF TypeOK, FetchEntry, DecodeEntry, RobEntry
<1>2. LineIsOwed
  BY DEF Init, LineIsOwed
<1>3. StallHasItsBranch
  <2>1. MachineFlags \in Seq(BOOLEAN) /\ Len(MachineFlags) = 0
    <3>1. Len(ROB) = 0 /\ Len(DECODE_BUFFER) = 0 /\ Len(IFETCH_BUFFER) = 0
      BY EmptySeq DEF Init
    <3>2. /\ MachineFlags \in Seq(BOOLEAN)
          /\ Len(MachineFlags) = Len(ROB) + Len(DECODE_BUFFER) + Len(IFETCH_BUFFER)
      BY <1>1, TypedBuffers, FlagsAre DEF MachineFlags
    <3> QED
      BY <3>1, <3>2
  <2>2. OnlyLast(MachineFlags) /\ ~LastSet(MachineFlags)
    BY <2>1 DEF OnlyLast, LastSet
  <2>3. fetch_stall = FALSE /\ fetch_resume_cycle = FALSE
    BY DEF Init
  <2>4. Stalled(MachineFlags, fetch_stall, fetch_resume_cycle)
    BY <2>2, <2>3 DEF Stalled
  <2> QED
    BY <2>4, <1>1, StallForm
<1> QED
  BY <1>1, <1>2, <1>3 DEF Inv

LEMMA ReadKeepsInv == Inv /\ read_from_trace => Inv'
<1> SUFFICES ASSUME Inv, read_from_trace PROVE Inv'
  OBVIOUS
<1> USE DEF Inv
<1>1. PICK x \in Lines, mispredicted \in BOOLEAN :
        /\ IFETCH_BUFFER' = Append(IFETCH_BUFFER, [line |-> x, fetched |-> "no",
                                     branch_mispredicted |-> mispredicted /\ warmup_complete])
        /\ fetch_stall' = (mispredicted /\ warmup_complete)
  BY DEF read_from_trace
<1> DEFINE b == mispredicted /\ warmup_complete
           e == [line |-> x, fetched |-> "no", branch_mispredicted |-> b]
<1>2. /\ b \in BOOLEAN /\ e \in FetchEntry /\ e.branch_mispredicted = b /\ e.fetched = "no"
  BY TypedBuffers DEF FetchEntry
<1> HIDE DEF b, e
<1>3. /\ IFETCH_BUFFER' \in Seq(FetchEntry) /\ Len(IFETCH_BUFFER') = Len(IFETCH_BUFFER) + 1
      /\ \A k \in 1 .. Len(IFETCH_BUFFER) : IFETCH_BUFFER'[k] = IFETCH_BUFFER[k]
      /\ IFETCH_BUFFER'[Len(IFETCH_BUFFER) + 1] = e
      /\ Len(IFETCH_BUFFER) \in Nat /\ DOMAIN IFETCH_BUFFER = 1 .. Len(IFETCH_BUFFER)
      /\ DOMAIN IFETCH_BUFFER' = 1 .. Len(IFETCH_BUFFER) + 1
  BY <1>1, <1>2, TypedBuffers DEF e, b
<1>4. TypeOK'
  <2>1. Len(IFETCH_BUFFER') <= IFETCH_SIZE /\ (instr_unique_id \in 0 .. TRACE_LENGTH)'
    BY <1>3, Sizes DEF TypeOK, read_from_trace
  <2>2. {fetch_stall, fetch_resume_cycle, warmup_complete}' \subseteq BOOLEAN
    BY <1>1, <1>2 DEF TypeOK, read_from_trace, b
  <2> QED
    BY <1>3, <2>1, <2>2 DEF TypeOK, read_from_trace, FetchEntry
<1>5. LineIsOwed'
  BY <1>2, <1>3 DEF LineIsOwed, read_from_trace
<1>6. StallHasItsBranch'
  <2>1. Stalled(Flags(ROB, DECODE_BUFFER, IFETCH_BUFFER), FALSE, fetch_resume_cycle)
    BY StallForm DEF MachineFlags, read_from_trace, Stalled
  <2>2. Stalled(Flags(ROB, DECODE_BUFFER, Append(IFETCH_BUFFER, e)), e.branch_mispredicted,
                fetch_resume_cycle)
    BY <2>1, <1>2, TypedBuffers, FlagsOfAppend
  <2>3. Stalled(MachineFlags, fetch_stall, fetch_resume_cycle)'
    BY <2>2, <1>1, <1>2 DEF read_from_trace, MachineFlags, e, b
  <2>4. TypeOK' => (StallHasItsBranch <=> Stalled(MachineFlags, fetch_stall, fetch_resume_cycle))'
    BY StallForm, PTL
  <2> QED
    BY <2>3, <2>4, <1>4
<1> QED
  BY <1>4, <1>5, <1>6

LEMMA FetchKeepsInv == Inv /\ fetch_instruction => Inv'
<1> SUFFICES ASSUME Inv, fetch_instruction PROVE Inv'
  OBVIOUS
<1> USE DEF Inv
<1>1. PICK accepted \in SUBSET Lines, due \in BOOLEAN :
    LET ends == fetch_stall /\ fetch_resume_cycle /\ due
        sent == accepted \cap Unfetched(IFETCH_BUFFER)
        marked == Mark(IFETCH_BUFFER, ToMark(accepted), "INFLIGHT")
        n == Passing(marked)
    IN /\ fetch_stall' = (fetch_stall /\ ~ends)
       /\ fetch_resume_cycle' = (fetch_resume_cycle /\ ~ends)
       /\ L1I' = [x \in Lines |-> L1I[x] + (IF x \in sent THEN 1 ELSE 0)]
       /\ IFETCH_BUFFER' = SubSeq(marked, n + 1, Len(marked))
       /\ DECODE_BUFFER' = DECODE_BUFFER \o
            [k \in 1 .. n |-> [timed |-> FALSE, branch_mispredicted |-> marked[k].branch_mispredicted]]
       /\ UNCHANGED <<ROB, warmup_complete, instr_unique_id>>
  BY DEF fetch_instruction
<1> DEFINE ends == fetch_stall /\ fetch_resume_cycle /\ due
           sent == accepted \cap Unfetched(IFETCH_BUFFER)
           marked == Mark(IFETCH_BUFFER, sent, "INFLIGHT")
           n == Passing(marked)
           moved == [k \in 1 .. n |-> [timed |-> FALSE,
                                       branch_mispredicted |-> marked[k].branch_mispredicted]]
<1>2. /\ fetch_stall' = (fetch_stall /\ ~ends)
      /\ fetch_resume_cycle' = (fetch_resume_cycle /\ ~ends)
      /\ L1I' = [x \in Lines |-> L1I[x] + (IF x \in sent THEN 1 ELSE 0)]
      /\ IFETCH_BUFFER' = SubSeq(marked, n + 1, Len(marked))
      /\ DECODE_BUFFER' = DECODE_BUFFER \o moved
      /\ UNCHANGED <<ROB, warmup_complete, instr_unique_id>>
  BY <1>1 DEF ToMark
<1> HIDE DEF sent
<1>3. /\ marked \in Seq(FetchEntry) /\ Len(marked) = Len(IFETCH_BUFFER)
      /\ \A k \in 1 .. Len(IFETCH_BUFFER) :
           /\ marked[k].line = IFETCH_BUFFER[k].line
           /\ marked[k].fetched = IF IFETCH_BUFFER[k].line \in sent THEN "INFLIGHT"
                                  ELSE IFETCH_BUFFER[k].fetched
  BY TypedBuffers, MarkKeeps
<1>4. Flags(ROB, DECODE_BUFFER, marked) = MachineFlags
  BY TypedBuffers, FlagsOfMark DEF MachineFlags
<1> HIDE DEF marked
<1>5. n \in 0 .. Len(marked) /\ n <= DECODE_SIZE - Len(DECODE_BUFFER)
  BY <1>3, TypedBuffers, PassingFits DEF TypeOK
<1> HIDE DEF n
<1>6. /\ DECODE_BUFFER' \in Seq(DecodeEntry) /\ Len(DECODE_BUFFER') = Len(DECODE_BUFFER) + n
      /\ IFETCH_BUFFER' \in Seq(FetchEntry) /\ Len(IFETCH_BUFFER') = Len(marked) - n
      /\ \A k \in 1 .. Len(marked) - n : IFETCH_BUFFER'[k] = marked[n + k]
      /\ Flags(ROB, DECODE_BUFFER', IFETCH_BUFFER') = MachineFlags
  <2>1. DECODE_BUFFER' = Grown(DECODE_BUFFER, marked, n) /\ IFETCH_BUFFER' = Left(marked, n)
    BY <1>2 DEF Grown, Left
  <2>2. /\ ROB \in Seq(RobEntry) /\ DECODE_BUFFER \in Seq(DecodeEntry)
        /\ marked \in Seq(FetchEntry) /\ n \in 0 .. Len(marked)
    BY <1>3, <1>5, TypedBuffers
  <2>3. /\ DECODE_BUFFER' \in Seq(DecodeEntry) /\ Len(DECODE_BUFFER') = Len(DECODE_BUFFER) + n
        /\ IFETCH_BUFFER' \in Seq(FetchEntry) /\ Len(IFETCH_BUFFER') = Len(marked) - n
        /\ \A k \in 1 .. Len(IFETCH_BUFFER') : IFETCH_BUFFER'[k] = marked[n + k]
        /\ Flags(ROB, DECODE_BUFFER', IFETCH_BUFFER') = Flags(ROB, DECODE_BUFFER, marked)
    BY <2>1, <2>2, PassOnDecode
  <2> QED
    BY <2>3, <1>4, Zenon
<1>7. /\ L1I' \in [Lines -> Nat]
      /\ \A x \in Lines : L1I'[x] >= L1I[x] /\ L1I[x] \in Nat /\ (x \in sent => L1I'[x] > 0)
  BY <1>2 DEF TypeOK
<1>8. TypeOK'
  <2>1. Len(IFETCH_BUFFER') <= IFETCH_SIZE /\ Len(DECODE_BUFFER') <= DECODE_SIZE
    BY <1>3, <1>5, <1>6, TypedBuffers, Sizes DEF TypeOK
  <2>2. {fetch_stall, fetch_resume_cycle, warmup_complete}' \subseteq BOOLEAN
    BY <1>2 DEF TypeOK
  <2>3. /\ (ROB \in Seq(RobEntry))' /\ Len(ROB)' <= ROB_SIZE
        /\ (instr_unique_id \in 0 .. TRACE_LENGTH)'
    BY <1>2 DEF TypeOK, RobEntry
  <2> QED
    BY <2>1, <2>2, <2>3, <1>6, <1>7 DEF TypeOK, FetchEntry, DecodeEntry, RobEntry
<1>9. LineIsOwed'
  <2>1. DOMAIN IFETCH_BUFFER' = 1 .. Len(marked) - n
    BY <1>6
  <2>2. ASSUME NEW k \in 1 .. Len(marked) - n, IFETCH_BUFFER'[k].fetched = "INFLIGHT"
        PROVE  L1I'[IFETCH_BUFFER'[k].line] > 0
    <3>1. n + k \in 1 .. Len(IFETCH_BUFFER) /\ n + k \in DOMAIN IFETCH_BUFFER
      BY <2>2, <1>3, <1>5, TypedBuffers
    <3>2. /\ IFETCH_BUFFER'[k].line = IFETCH_BUFFER[n + k].line
          /\ \/ IFETCH_BUFFER[n + k].line \in sent
             \/ IFETCH_BUFFER[n + k].fetched = "INFLIGHT"
      BY <2>2, <3>1, <1>3, <1>6
    <3>3. IFETCH_BUFFER[n + k].line \in Lines
      <4>1. IFETCH_BUFFER[n + k] \in FetchEntry
        BY <3>1, TypedBuffers, ElementOfSeq
      <4> QED
        BY <4>1 DEF FetchEntry
    <3> QED
      BY <3>1, <3>2, <3>3, <1>7 DEF LineIsOwed
  <2> QED
    BY <2>1, <2>2 DEF LineIsOwed
<1>10. StallHasItsBranch'
  <2>1. Stalled(MachineFlags, fetch_stall, fetch_resume_cycle)
    BY StallForm
  <2>2. MachineFlags' = MachineFlags
    BY <1>2, <1>6 DEF MachineFlags
  <2>3. Stalled(MachineFlags, fetch_stall, fetch_resume_cycle)'
    BY <2>1, <2>2, <1>2, Zenon DEF Stalled
  <2>4. TypeOK' => (StallHasItsBranch <=> Stalled(MachineFlags, fetch_stall, fetch_resume_cycle))'
    BY StallForm, PTL
  <2> QED
    BY <2>3, <2>4, <1>8
<1> QED
  BY <1>8, <1>9, <1>10

LEMMA ArrivalKeepsInv == Inv /\ complete_instr_fetch => Inv'
<1> SUFFICES ASSUME Inv, complete_instr_fetch PROVE Inv'
  OBVIOUS
<1> USE DEF Inv
<1>1. PICK x \in Lines :
        /\ L1I[x] > 0
        /\ \E answered \in 1 .. L1I[x] : L1I' = [L1I EXCEPT ![x] = @ - answered]
        /\ IFETCH_BUFFER' = Mark(IFETCH_BUFFER, {x}, "COMPLETED")
        /\ UNCHANGED <<DECODE_BUFFER, ROB, fetch_stall, fetch_resume_cycle, warmup_complete,
                       instr_unique_id>>
  BY DEF complete_instr_fetch
<1>2. PICK answered \in 1 .. L1I[x] : L1I' = [L1I EXCEPT ![x] = @ - answered]
  BY <1>1
<1>3. /\ L1I' \in [Lines -> Nat]
      /\ \A y \in Lines : y # x => L1I'[y] = L1I[y]
  BY <1>2 DEF TypeOK
<1>4. /\ IFETCH_BUFFER' \in Seq(FetchEntry) /\ Len(IFETCH_BUFFER') = Len(IFETCH_BUFFER)
      /\ \A k \in 1 .. Len(IFETCH_BUFFER) :
           /\ IFETCH_BUFFER'[k].line = IFETCH_BUFFER[k].line
           /\ IFETCH_BUFFER'[k].fetched = IF IFETCH_BUFFER[k].line \in {x} THEN "COMPLETED"
                                          ELSE IFETCH_BUFFER[k].fetched
  BY <1>1, TypedBuffers, MarkKeeps
<1>5. Flags(ROB, DECODE_BUFFER, IFETCH_BUFFER') = MachineFlags
  BY <1>1, TypedBuffers, FlagsOfMark DEF MachineFlags
<1>6. TypeOK'
  BY <1>1, <1>3, <1>4 DEF TypeOK, FetchEntry
<1>7. LineIsOwed'
  <2>1. ASSUME NEW k \in 1 .. Len(IFETCH_BUFFER), IFETCH_BUFFER'[k].fetched = "INFLIGHT"
        PROVE  L1I'[IFETCH_BUFFER'[k].line] > 0
    <3>1. /\ IFETCH_BUFFER'[k].line = IFETCH_BUFFER[k].line
          /\ IFETCH_BUFFER[k].line # x /\ IFETCH_BUFFER[k].fetched = "INFLIGHT"
      BY <2>1, <1>4
    <3>2. IFETCH_BUFFER[k].line \in Lines /\ k \in DOMAIN IFETCH_BUFFER
      <4>1. IFETCH_BUFFER[k] \in FetchEntry /\ k \in DOMAIN IFETCH_BUFFER
        BY TypedBuffers, ElementOfSeq
      <4> QED
        BY <4>1 DEF FetchEntry
    <3> QED
      BY <3>1, <3>2, <1>3 DEF LineIsOwed
  <2>2. DOMAIN IFETCH_BUFFER' = 1 .. Len(IFETCH_BUFFER)
    BY <1>4
  <2> QED
    BY <2>1, <2>2 DEF LineIsOwed
<1>8. StallHasItsBranch'
  <2>1. Stalled(MachineFlags, fetch_stall, fetch_resume_cycle)
    BY StallForm
  <2>2. MachineFlags' = MachineFlags
    BY <1>1, <1>5 DEF MachineFlags
  <2>3. Stalled(MachineFlags, fetch_stall, fetch_resume_cycle)'
    BY <2>1, <2>2, <1>1
  <2>4. TypeOK' => (StallHasItsBranch <=> Stalled(MachineFlags, fetch_stall, fetch_resume_cycle))'
    BY StallForm, PTL
  <2> QED
    BY <2>3, <2>4, <1>6
<1> QED
  BY <1>6, <1>7, <1>8

LEMMA DispatchKeepsInv == Inv /\ decode_and_dispatch => Inv'
<1> SUFFICES ASSUME Inv, decode_and_dispatch PROVE Inv'
  OBVIOUS
<1> USE DEF Inv
<1>1. PICK n \in Dispatchable :
       /\ ROB' = ROB \o [k \in 1 .. n |->
            [executed |-> FALSE, branch_mispredicted |-> DECODE_BUFFER[k].branch_mispredicted]]
       /\ DECODE_BUFFER' = Timed(SubSeq(DECODE_BUFFER, n + 1, Len(DECODE_BUFFER)))
  BY DEF decode_and_dispatch
<1>2. n \in 0 .. Len(DECODE_BUFFER) /\ n <= ROB_SIZE - Len(ROB)
  BY DEF Dispatchable
<1>3. UNCHANGED <<IFETCH_BUFFER, L1I, fetch_stall, fetch_resume_cycle, warmup_complete, instr_unique_id>>
  BY DEF decode_and_dispatch
<1>4. /\ ROB' \in Seq(RobEntry) /\ Len(ROB') = Len(ROB) + n
      /\ DECODE_BUFFER' \in Seq(DecodeEntry) /\ Len(DECODE_BUFFER') = Len(DECODE_BUFFER) - n
      /\ Flags(ROB', DECODE_BUFFER', IFETCH_BUFFER) = MachineFlags
  BY <1>1, <1>2, TypedBuffers, PassOnDispatch DEF MachineFlags
<1>5. TypeOK'
  <2>1. Len(ROB') <= ROB_SIZE /\ Len(DECODE_BUFFER') <= DECODE_SIZE
    BY <1>2, <1>4, TypedBuffers, Sizes DEF TypeOK
  <2> QED
    BY <2>1, <1>3, <1>4 DEF TypeOK, DecodeEntry, RobEntry
<1>6. LineIsOwed'
  BY <1>3 DEF LineIsOwed
<1>7. StallHasItsBranch'
  <2>1. Stalled(MachineFlags, fetch_stall, fetch_resume_cycle)
    BY StallForm
  <2>2. MachineFlags' = MachineFlags
    BY <1>3, <1>4 DEF MachineFlags
  <2>3. Stalled(MachineFlags, fetch_stall, fetch_resume_cycle)'
    BY <2>1, <2>2, <1>3
  <2>4. TypeOK' => (StallHasItsBranch <=> Stalled(MachineFlags, fetch_stall, fetch_resume_cycle))'
    BY StallForm, PTL
  <2> QED
    BY <2>3, <2>4, <1>5
<1> QED
  BY <1>5, <1>6, <1>7

LEMMA ExecuteKeepsInv == Inv /\ complete_execution => Inv'
<1> SUFFICES ASSUME Inv, complete_execution PROVE Inv'
  OBVIOUS
<1> USE DEF Inv
<1>1. PICK i \in DOMAIN ROB :
       /\ ~ROB[i].executed
       /\ ROB' = [ROB EXCEPT ![i].executed = TRUE]
       /\ fetch_resume_cycle' = (fetch_resume_cycle \/ ROB[i].branch_mispredicted)
  BY DEF complete_execution
<1>2. UNCHANGED <<IFETCH_BUFFER, DECODE_BUFFER, L1I, fetch_stall, warmup_complete, instr_unique_id>>
  BY DEF complete_execution
<1>3. i \in 1 .. Len(ROB) /\ ROB[i].branch_mispredicted \in BOOLEAN
  <2>1. i \in 1 .. Len(ROB) /\ ROB[i] \in RobEntry
    BY TypedBuffers, ElementOfSeq
  <2> QED
    BY <2>1 DEF RobEntry
<1>4. Stalled(Flags(ROB, DECODE_BUFFER, IFETCH_BUFFER), fetch_stall, fetch_resume_cycle)
  BY StallForm DEF MachineFlags
<1>5. /\ ROB' \in Seq(RobEntry) /\ Len(ROB') = Len(ROB)
      /\ Stalled(Flags(ROB', DECODE_BUFFER, IFETCH_BUFFER), fetch_stall, fetch_resume_cycle')
  <2>1. fetch_resume_cycle' \in BOOLEAN
    BY <1>1, <1>3, TypedBuffers
  <2>2. fetch_resume_cycle' <=> fetch_resume_cycle \/ ROB[i].branch_mispredicted
    BY <1>1, Zenon
  <2>3. ~ROB[i].executed /\ ROB' = Executed(ROB, i)
    BY <1>1 DEF Executed
  <2> QED
    BY <2>1, <2>2, <2>3, <1>3, <1>4, FlagsOfExecute
<1>6. TypeOK'
  <2>1. {fetch_stall, fetch_resume_cycle, warmup_complete}' \subseteq BOOLEAN
    BY <1>1, <1>2, <1>3, TypedBuffers
  <2> QED
    BY <2>1, <1>2, <1>5 DEF TypeOK, RobEntry
<1>7. LineIsOwed'
  BY <1>2 DEF LineIsOwed
<1>8. StallHasItsBranch'
  <2>1. Stalled(MachineFlags, fetch_stall, fetch_resume_cycle)'
    BY <1>2, <1>5 DEF MachineFlags
  <2>2. TypeOK' => (StallHasItsBranch <=> Stalled(MachineFlags, fetch_stall, fetch_resume_cycle))'
    BY StallForm, PTL
  <2> QED
    BY <2>1, <2>2, <1>6
<1> QED
  BY <1>6, <1>7, <1>8

LEMMA RetireKeepsInv == Inv /\ retire_rob => Inv'
<1> SUFFICES ASSUME Inv, retire_rob PROVE Inv'
  OBVIOUS
<1> USE DEF Inv
<1>1. /\ ROB # <<>> /\ Head(ROB).executed /\ ROB' = Tail(ROB)
      /\ UNCHANGED <<IFETCH_BUFFER, DECODE_BUFFER, L1I, fetch_stall, fetch_resume_cycle,
                     warmup_complete, instr_unique_id>>
  BY DEF retire_rob
<1>2. Stalled(Flags(ROB, DECODE_BUFFER, IFETCH_BUFFER), fetch_stall, fetch_resume_cycle)
  BY StallForm DEF MachineFlags
<1>3. /\ ROB' \in Seq(RobEntry) /\ Len(ROB') = Len(ROB) - 1
      /\ Stalled(Flags(ROB', DECODE_BUFFER, IFETCH_BUFFER), fetch_stall, fetch_resume_cycle)
  BY <1>1, <1>2, TypedBuffers, FlagsOfRetire
<1>4. TypeOK'
  <2>1. Len(ROB') <= ROB_SIZE
    BY <1>3, TypedBuffers, Sizes DEF TypeOK
  <2> QED
    BY <2>1, <1>1, <1>3 DEF TypeOK, RobEntry
<1>5. LineIsOwed'
  BY <1>1 DEF LineIsOwed
<1>6. StallHasItsBranch'
  <2>1. Stalled(MachineFlags, fetch_stall, fetch_resume_cycle)'
    BY <1>1, <1>3 DEF MachineFlags
  <2>2. TypeOK' => (StallHasItsBranch <=> Stalled(MachineFlags, fetch_stall, fetch_resume_cycle))'
    BY StallForm, PTL
  <2> QED
    BY <2>1, <2>2, <1>4
<1> QED
  BY <1>4, <1>5, <1>6

(* Steps that change none of the buffers and neither stall variable.       *)
LEMMA OthersKeepInv == Inv /\ (finish_warmup \/ UNCHANGED vars) => Inv'
<1> SUFFICES ASSUME Inv, finish_warmup \/ UNCHANGED vars PROVE Inv'
  OBVIOUS
<1>1. /\ UNCHANGED <<IFETCH_BUFFER, DECODE_BUFFER, ROB, L1I, fetch_stall, fetch_resume_cycle,
                     instr_unique_id>>
      /\ warmup_complete' \in BOOLEAN
  BY DEF Inv, TypeOK, finish_warmup, vars
<1>2. TypeOK'
  <2>1. {fetch_stall, fetch_resume_cycle, warmup_complete}' \subseteq BOOLEAN
    BY <1>1 DEF Inv, TypeOK
  <2> QED
    BY <2>1, <1>1 DEF Inv, TypeOK
<1>3. LineIsOwed'
  BY <1>1 DEF Inv, LineIsOwed
<1>4. StallHasItsBranch'
  <2>1. Unresolved' = Unresolved
    BY <1>1 DEF Unresolved
  <2> QED
    BY <2>1, <1>1 DEF Inv, StallHasItsBranch
<1> QED
  BY <1>2, <1>3, <1>4 DEF Inv

(* Every step keeps the invariant. *)
LEMMA InvStep == Inv /\ [Next]_vars => Inv'
BY ReadKeepsInv, FetchKeepsInv, ArrivalKeepsInv, DispatchKeepsInv, ExecuteKeepsInv, RetireKeepsInv,
   OthersKeepInv DEF Next

(* The inductive invariant holds for every size of the buffers.           *)
THEOREM FrontendCorrect == Spec => []Inv
BY InvInit, InvStep, PTL DEF Spec

(* The buffers stay within their sizes.                                    *)
THEOREM FrontendTypeCorrect == Spec => []TypeOK
BY FrontendCorrect, PTL DEF Inv

(* Every instruction marked INFLIGHT has an answer of L1I coming.          *)
THEOREM LinesAreOwed == Spec => []LineIsOwed
BY FrontendCorrect, PTL DEF Inv

(* The front end is stalled exactly for one branch, the youngest           *)
(* instruction of the machine, or for its resume cycle.                    *)
THEOREM StallsHaveTheirBranch == Spec => []StallHasItsBranch
BY FrontendCorrect, PTL DEF Inv
=============================================================================
