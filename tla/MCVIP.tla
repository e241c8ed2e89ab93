------------------------------- MODULE MCVIP -------------------------------
(* Three private predictors, two segments of three entries and five        *)
(* branches, a snapshot after every second update.  Four branches are      *)
(* enough to fill either segment and make it evict, demote or refuse, and  *)
(* a branch gets an index, loses it and gets another.  No branch is named  *)
(* by the specification, so they are interchangeable.                      *)
EXTENDS VIP, TLC

MinusTwo == -2
MCSymmetry == Permutations(PCs)
=============================================================================
