----------------------------- MODULE NRUMCache -----------------------------
(***************************************************************************)
(* The not-recently-used branch-misprediction cache, nru.cc: a random      *)
(* entry that was never hit since it was filled is the victim, and the lru *)
(* slot only when there is none.                                           *)
(***************************************************************************)
EXTENDS Integers, FiniteSetsExt

CONSTANTS PCs, NoPC, numEntries   \* as in LRUMCache, under its assumption

VARIABLES entries,     \* slot -> [used, valid, pc, age]
          lru,         \* slot the aging loop last saw reach the oldest age
          savedState   \* slot -> PC, as of the last snapshot

vars == <<entries, lru, savedState>>

Slots == 0 .. numEntries - 1

Entry == [used : BOOLEAN, valid : BOOLEAN, pc : PCs \cup {NoPC}, age : Slots]

TypeOK ==
  /\ entries \in [Slots -> Entry]
  /\ lru \in Slots
  /\ savedState \in [Slots -> PCs \cup {NoPC}]
-----------------------------------------------------------------------------
EmptyEntries ==
  [i \in Slots |-> [used |-> FALSE, valid |-> FALSE, pc |-> NoPC, age |-> i]]

Init ==
  /\ entries = EmptyEntries
  /\ lru = numEntries - 1
  /\ savedState = [i \in Slots |-> NoPC]

Hits(pc) == {i \in Slots : entries[i].valid /\ entries[i].pc = pc}

Free == {i \in Slots : ~entries[i].valid}

Unused == {i \in Slots : entries[i].valid /\ ~entries[i].used}

(* Mutant: the lru slot is the victim even when some entry is unused. *)
MutantAlwaysLru(pc) ==
  IF Hits(pc) # {} THEN {Min(Hits(pc))}
  ELSE IF Free # {} THEN {Min(Free)} ELSE {lru}

(* The slots access() may put pc in; rand() picks where the search for an  *)
(* unused entry starts, so it may find any of them.                        *)
Targets(pc) ==
  IF Hits(pc) # {} THEN {Min(Hits(pc))}
  ELSE IF Free # {} THEN {Min(Free)}
  ELSE IF Unused # {} THEN Unused
  ELSE {lru}

AgeLimit(pc) == IF Hits(pc) # {} THEN entries[Min(Hits(pc))].age
                ELSE numEntries - 1

(* Mutant: entries that were hit do not age. *)
MutantUnusedAge(pc) == {i \in Unused : entries[i].age < AgeLimit(pc)}

(* Only valid entries age, one step, up to the age of a hit. *)
Aging(pc) == {i \in Slots : entries[i].valid /\ entries[i].age < AgeLimit(pc)}

BecomingOldest(pc) == {i \in Aging(pc) : entries[i].age = numEntries - 2}

(* access(): the slot taken records whether this was a hit as its use.     *)
Access(pc) ==
  /\ \E t \in Targets(pc) :
       entries' = [i \in Slots |->
                     IF i = t
                     THEN [used |-> Hits(pc) # {}, valid |-> TRUE, pc |-> pc, age |-> 0]
                     ELSE IF i \in Aging(pc) THEN [entries[i] EXCEPT !.age = @ + 1]
                     ELSE entries[i]]
  /\ lru' = IF BecomingOldest(pc) = {} THEN lru ELSE Max(BecomingOldest(pc))
  /\ UNCHANGED savedState

Snapshot ==
  /\ savedState' = [i \in Slots |-> entries[i].pc]
  /\ UNCHANGED <<entries, lru>>

Reset ==
  /\ entries' = EmptyEntries
  /\ lru' = numEntries - 1
  /\ savedState' = [i \in Slots |-> NoPC]

Next == \/ \E pc \in PCs : Access(pc)
        \/ Snapshot
        \/ Reset

Spec == Init /\ [][Next]_vars
-----------------------------------------------------------------------------
(* An entry that was hit loses its slot only when every entry was hit:     *)
(* free and unused entries go first (nru.cc:51-67).                        *)
UsedEvictedLast ==
  [][\A i \in Slots :
       entries[i].used /\ entries'[i].valid /\ entries'[i].pc # entries[i].pc
         => \A j \in Slots : entries[j].used]_vars

(* Ages tie, since a random victim leaves its age vacant, but an access    *)
(* never inverts the order of two entries it does not touch                *)
(* (nru.cc:81-91).                                                         *)
AgesKeepOrder ==
  [][\A pc \in PCs : Access(pc) =>
       \A i, j \in Slots :
         /\ entries[i].valid /\ entries'[i].pc = entries[i].pc /\ entries[i].pc # pc
         /\ entries[j].valid /\ entries'[j].pc = entries[j].pc /\ entries[j].pc # pc
         /\ entries[i].age <= entries[j].age
         => entries'[i].age <= entries'[j].age]_vars
=============================================================================
