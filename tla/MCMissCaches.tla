---------------------------- MODULE MCMissCaches ----------------------------
(* The two miss caches of one segment, three slots each and five or four   *)
(* branches: free slots are filled, hit and evicted in every order, with   *)
(* the snapshot taken at any moment.  A simulator is built with one of     *)
(* them, and the other stays as it was made.                               *)
EXTENDS LRUMCache

CONSTANTS LRU, NRU, NRUPCs

VARIABLES built, nruEntries, nruLru, nruSavedState

nruVars == <<nruEntries, nruLru, nruSavedState>>

N == INSTANCE NRUMCache WITH PCs <- NRUPCs, entries <- nruEntries,
                             lru <- nruLru, savedState <- nruSavedState

MCInit == built \in {LRU, NRU} /\ Init /\ N!Init

MCNext == /\ UNCHANGED built
          /\ \/ built = LRU /\ Next /\ UNCHANGED nruVars
             \/ built = NRU /\ N!Next /\ UNCHANGED vars

MCSpec == MCInit /\ [][MCNext]_<<built, vars, nruVars>>
-----------------------------------------------------------------------------
(* An entry of the NRU cache that was hit is evicted only when all were    *)
(* hit (nru.cc:51-67).                                                     *)
UsedEvictedLast == N!UsedEvictedLast

(* An access of the NRU cache never inverts the age order of two entries   *)
(* it does not touch (nru.cc:81-91).                                       *)
AgesKeepOrder == N!AgesKeepOrder
=============================================================================
