----------------------------- MODULE SLRUMCache -----------------------------
(***************************************************************************)
(* The segmented-LRU branch-misprediction cache, slru.cc, over two         *)
(* segments of numEntries entries.  Only the protected segment is visible  *)
(* to readers, through the copy the last snapshot made of it.              *)
(***************************************************************************)
EXTENDS Segment, Sequences

VARIABLES protectedSeg, probationarySeg, savedState

vars == <<protectedSeg, probationarySeg, savedState>>

(* An age that an increment without a limit leaves out of range (add) is   *)
(* out of Slots, so the types bound the counters of both segments.         *)
TypeOK ==
  /\ protectedSeg \in Segments
  /\ probationarySeg \in Segments
  /\ savedState \in [Slots -> PCs \cup {NoPC}]

Init ==
  /\ protectedSeg = EmptySegment
  /\ probationarySeg = EmptySegment
  /\ savedState = [i \in Slots |-> NoPC]

(* What access() does to the segments, one action per place the PC may be. *)
Bump(pc) ==
  /\ contains(protectedSeg, pc)
  /\ protectedSeg' = bump(protectedSeg, pc)
  /\ UNCHANGED probationarySeg

(* Mutant: the demoted PC is dropped. *)
MutantNoDemotion(pc) ==
  /\ ~contains(protectedSeg, pc)
  /\ contains(probationarySeg, pc)
  /\ protectedSeg' = add(protectedSeg, pc).seg
  /\ probationarySeg' = remove(probationarySeg, pc)

Promote(pc) ==
  /\ ~contains(protectedSeg, pc)
  /\ contains(probationarySeg, pc)
  /\ LET added == add(protectedSeg, pc)
         rest  == remove(probationarySeg, pc)
     IN  /\ protectedSeg' = added.seg
         /\ probationarySeg' = IF added.evicted = NoPC THEN rest
                               ELSE add(rest, added.evicted).seg

Admit(pc) ==
  /\ ~contains(protectedSeg, pc)
  /\ ~contains(probationarySeg, pc)
  /\ probationarySeg' = add(probationarySeg, pc).seg
  /\ UNCHANGED protectedSeg

Touch(pc) == Bump(pc) \/ Promote(pc) \/ Admit(pc)

(* get_idx(): the first slot whose saved PC matches, or -1. *)
get_idx(pc) == LET found == {i \in Slots : savedState[i] = pc}
               IN  IF found = {} THEN -1 ELSE Min(found)

Reset ==
  /\ protectedSeg' = EmptySegment
  /\ probationarySeg' = EmptySegment
  /\ savedState' = [i \in Slots |-> NoPC]

-----------------------------------------------------------------------------
(* In both segments the ages are a permutation of the slots, every valid   *)
(* entry is younger than every free one, and lru names the oldest slot, so *)
(* add() evicts nothing while a slot is free (segment.cc:90-139).          *)
AgesOrderSlots ==
  \A s \in {protectedSeg, probationarySeg} :
    /\ \A i, j \in Slots : s.entries[i].age = s.entries[j].age => i = j
    /\ \A i \in Valid(s), j \in Slots \ Valid(s) :
         s.entries[i].age < s.entries[j].age
    /\ s.entries[s.lru].age = numEntries - 1

(* While a PC stays protected it keeps its slot, so it keeps the private   *)
(* predictor the slot indexes.                                             *)
ProtectedSlotIsStable ==
  [][\A i \in Valid(protectedSeg), j \in Valid(protectedSeg') :
       protectedSeg.entries[i].pc = protectedSeg'.entries[j].pc => i = j]_vars
-----------------------------------------------------------------------------
(* Refinement: a segment lists its valid PCs by age. *)
AtAge(s, a) == CHOOSE i \in Valid(s) : s.entries[i].age = a

ByAge(s) == [n \in 1 .. Cardinality(Valid(s)) |-> s.entries[AtAge(s, n - 1)].pc]

Recency == INSTANCE SegmentedRecency
             WITH Capacity <- numEntries,
                  protected <- ByAge(protectedSeg),
                  probationary <- ByAge(probationarySeg)

(* "Implemented Segment LRU miss cache" (README.md:25): the two segments   *)
(* are the two recency lists of a segmented LRU.                           *)
ImplementsSegmentedLRU == Recency!Spec
=============================================================================
