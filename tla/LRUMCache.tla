----------------------------- MODULE LRUMCache -----------------------------
(***************************************************************************)
(* The LRU branch-misprediction cache, branch/mcache_candidates/lru.cc.    *)
(*                                                                         *)
(* An entry keeps the slot it was first put in, and recency is an age      *)
(* counter in the entry, so that a slot number can serve as the index of   *)
(* a private branch predictor.  Readers never see the live entries: they   *)
(* search savedState, the copy made by the last snapshot.                  *)
(***************************************************************************)
EXTENDS Integers, FiniteSetsExt

CONSTANTS PCs,         \* branch addresses, none of them 0
          NoPC,        \* the address 0 that reset() stores
          numEntries   \* entries of the cache

ASSUME ConstantsAssumption ==
  /\ numEntries \in Nat \ {0}
  /\ NoPC \notin PCs

VARIABLES entries,     \* slot -> [valid, pc, age]
          lru,         \* slot believed to hold the oldest entry
          savedState   \* slot -> PC, as of the last snapshot

vars == <<entries, lru, savedState>>

Slots == 0 .. numEntries - 1

Entry == [valid : BOOLEAN, pc : PCs \cup {NoPC}, age : Slots]

TypeOK ==
  /\ entries \in [Slots -> Entry]
  /\ lru \in Slots
  /\ savedState \in [Slots -> PCs \cup {NoPC}]
-----------------------------------------------------------------------------
Init ==
  /\ entries = [i \in Slots |-> [valid |-> FALSE, pc |-> NoPC, age |-> i]]
  /\ lru = numEntries - 1
  /\ savedState = [i \in Slots |-> NoPC]

Hits(pc) == {i \in Slots : entries[i].valid /\ entries[i].pc = pc}

Free == {i \in Slots : ~entries[i].valid}

(* Mutant: a free slot goes before a hit. *)
MutantFreeFirst(pc) == IF Free # {} THEN Min(Free)
                       ELSE IF Hits(pc) # {} THEN Min(Hits(pc))
                       ELSE lru

(* The slot access() puts pc in: a hit first, then the first free slot,    *)
(* then the slot lru names.                                                *)
Target(pc) == IF Hits(pc) # {} THEN Min(Hits(pc))
              ELSE IF Free # {} THEN Min(Free)
              ELSE lru

(* Entries younger than this age one step; a miss ages every entry that is *)
(* not already the oldest, wherever pc goes.                               *)
AgeLimit(pc) == IF Hits(pc) # {} THEN entries[Min(Hits(pc))].age
                ELSE numEntries - 1

(* Mutant: a hit ages the older entries too. *)
MutantAgeAll(pc) == {i \in Slots : entries[i].age < numEntries - 1}

Aging(pc) == {i \in Slots : entries[i].age < AgeLimit(pc)}

(* The aging loop moves lru to each entry that reaches the last age, so    *)
(* the last of them in slot order keeps it.                                *)
BecomingOldest(pc) == {i \in Aging(pc) : entries[i].age = numEntries - 2}

Access(pc) ==
  /\ entries' = [i \in Slots |->
                   IF i = Target(pc)
                   THEN [valid |-> TRUE, pc |-> pc, age |-> 0]
                   ELSE IF i \in Aging(pc)
                        THEN [entries[i] EXCEPT !.age = @ + 1]
                        ELSE entries[i]]
  /\ lru' = IF BecomingOldest(pc) = {} THEN lru ELSE Max(BecomingOldest(pc))
  /\ UNCHANGED savedState

Snapshot ==
  /\ savedState' = [i \in Slots |-> entries[i].pc]
  /\ UNCHANGED <<entries, lru>>

Reset ==
  /\ entries' = [i \in Slots |-> [valid |-> FALSE, pc |-> NoPC, age |-> i]]
  /\ lru' = numEntries - 1
  /\ savedState' = [i \in Slots |-> NoPC]

Next == \/ \E pc \in PCs : Access(pc)
        \/ Snapshot
        \/ Reset

Spec == Init /\ [][Next]_vars

(* get_idx: the first slot whose saved PC matches, or -1. *)
GetIdx(pc) == LET found == {i \in Slots : savedState[i] = pc}
              IN  IF found = {} THEN -1 ELSE Min(found)
-----------------------------------------------------------------------------
Used == {i \in Slots : entries[i].valid}

(* Slots fill in order: access() never leaves a hole below a valid entry.  *)
FilledInOrder == \E k \in 0 .. numEntries : Used = 0 .. k - 1

(* The ages of the k valid entries are 0..k-1 without tie or gap, even     *)
(* though a miss that fills a free slot also ages the invalid entries,     *)
(* whose ages then collide at the oldest age (lru.cc:68-78).               *)
AgesRankUsed ==
  /\ \A i \in Used : entries[i].age \in Used
  /\ \A i, j \in Used : entries[i].age = entries[j].age => i = j
  /\ \A a \in Used : \E i \in Used : entries[i].age = a

(* A PC is never cached twice, so a hit has one slot.                      *)
NoDuplicatePC == \A i, j \in Used : entries[i].pc = entries[j].pc => i = j

(* A free slot holds no PC and is at least as old as its position.         *)
FreeSlotsAreOld ==
  \A j \in Slots \ Used : entries[j].pc = NoPC /\ entries[j].age >= j

(* While slots are being filled lru may name any slot, but by the time the *)
(* last one is taken, and eviction starts to use it, it names the oldest   *)
(* entry (lru.cc:46 and 74-76).                                            *)
LruIsOldestWhenFull ==
  Used = Slots => entries[lru].age = numEntries - 1

(* The index get_idx returns names the predictor of one PC only: saved     *)
(* PCs are distinct, so the first match is the only match (lru.cc:94).     *)
SavedIndexUnambiguous ==
  \A i, j \in Slots : savedState[i] = savedState[j] /\ savedState[i] # NoPC
                        => i = j

(* The inductive invariant of the cache.                                   *)
IndInv ==
  /\ TypeOK
  /\ FilledInOrder
  /\ AgesRankUsed
  /\ NoDuplicatePC
  /\ FreeSlotsAreOld
  /\ LruIsOldestWhenFull
  /\ SavedIndexUnambiguous

(* A PC keeps the slot it has while it stays cached: an access never moves *)
(* a surviving entry, so two snapshots give a PC the same private          *)
(* predictor unless it was evicted between them.                           *)
SlotIsStable ==
  [][\A i, j \in Slots :
       /\ entries[i].valid
       /\ entries'[j].valid
       /\ entries[i].pc = entries'[j].pc
       => i = j]_entries
-----------------------------------------------------------------------------
(* Refinement: the age of a cached PC is its stack distance.               *)
StackDist == [p \in PCs |-> IF Hits(p) = {} THEN numEntries
                            ELSE entries[Min(Hits(p))].age]

Recency == INSTANCE StackDistance
             WITH Capacity <- numEntries, dist <- StackDist

(* The cache holds exactly the numEntries most recently mispredicted PCs,  *)
(* whichever slots they are in: LRU as the class comment of miss_cache.h   *)
(* ("Miss cache using LRU policy") promises.                               *)
ImplementsLRU == Recency!Spec
=============================================================================
