-------------------------- MODULE SegmentedRecency --------------------------
(***************************************************************************)
(* What a segmented LRU cache promises: two recency lists.  A PC enters    *)
(* the probationary list, a second access moves it to the protected one,   *)
(* and the PC that falls off the protected list gets a second chance as    *)
(* the youngest of the probationary list.  No slots, no age counters.      *)
(***************************************************************************)
EXTENDS Naturals, Sequences, SequencesExt

CONSTANTS PCs, Capacity

VARIABLES protected, probationary   \* most recent first

(* A list names a PC once. *)
Without(s, pc) == RemoveAt(s, CHOOSE k \in DOMAIN s : s[k] = pc)

(* The Capacity youngest of a list. *)
Youngest(s) == SubSeq(s, 1, IF Len(s) < Capacity THEN Len(s) ELSE Capacity)

Hit(pc) ==
  /\ pc \in ToSet(protected)
  /\ protected' = <<pc>> \o Without(protected, pc)
  /\ UNCHANGED probationary

Promote(pc) ==
  /\ pc \in ToSet(probationary)
  /\ protected' = Youngest(<<pc>> \o protected)
  /\ probationary' = IF Len(protected) < Capacity THEN Without(probationary, pc)
                     ELSE <<Last(protected)>> \o Without(probationary, pc)

Admit(pc) ==
  /\ pc \notin ToSet(protected) \cup ToSet(probationary)
  /\ probationary' = Youngest(<<pc>> \o probationary)
  /\ UNCHANGED protected

Clear == protected' = <<>> /\ probationary' = <<>>

Init == protected = <<>> /\ probationary = <<>>

Next == Clear \/ \E pc \in PCs : Hit(pc) \/ Promote(pc) \/ Admit(pc)

Spec == Init /\ [][Next]_<<protected, probationary>>
=============================================================================
