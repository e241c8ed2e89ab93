---------------------------- MODULE MCSteadyLoop ----------------------------
(* Two sets of four ways.  The tags 1 to 5 compete for set 0, so that the  *)
(* loop may find it full of entries of any age; the unsigned of three bits *)
(* makes the branches 8 and 72 share a tag, as 32 bits do for addresses    *)
(* far apart; 4 is in set 1, with the tag 0 that every entry starts with.  *)
EXTENDS SteadyLoop

ModelPCs == {8, 16, 24, 32, 40, 72, 4}

TageAnswer == {[taken |-> FALSE, confidence |-> 1]}

(* Nothing but the loop, from the empty predictor on. *)
OnlyLoop == {8}
=============================================================================
