--------------------------- MODULE StackDistance ---------------------------
(***************************************************************************)
(* What a least-recently-used cache promises.  dist[p] is the number of    *)
(* distinct other PCs touched since p was last touched, saturated at       *)
(* Capacity; a PC is cached exactly while its distance is below Capacity.  *)
(* No slot, age counter or valid bit appears here: this is the             *)
(* specification the miss cache of LRUMCache.tla is shown to implement.    *)
(***************************************************************************)
EXTENDS Integers

CONSTANTS PCs,       \* branch addresses
          Capacity   \* number of entries of the cache

VARIABLE dist

Absent == Capacity

Cached == {p \in PCs : dist[p] < Capacity}

Empty == [p \in PCs |-> Absent]

Init == dist = Empty

(* Touching pc makes it the nearest; only PCs nearer than it move away. *)
Touch(pc) ==
  dist' = [q \in PCs |-> IF q = pc THEN 0
                         ELSE IF dist[q] < dist[pc] THEN dist[q] + 1
                         ELSE dist[q]]

Clear == dist' = Empty

Next == Clear \/ \E pc \in PCs : Touch(pc)

Spec == Init /\ [][Next]_dist
=============================================================================
