------------------------------ MODULE Segment ------------------------------
(***************************************************************************)
(* One segment of the segmented-LRU cache, branch/mcache_candidates/       *)
(* segment.cc, as a value: a record of its entries and its lru slot.  Each *)
(* member function is an operator that returns the segment it leaves.      *)
(***************************************************************************)
EXTENDS Integers, FiniteSetsExt

CONSTANTS PCs,         \* branch addresses, none of them 0
          NoPC,        \* the address 0: no PC, or nothing evicted
          numEntries   \* entries of a segment

ASSUME ConstantsAssumption ==
  /\ numEntries \in Nat \ {0}
  /\ NoPC \notin PCs

Slots == 0 .. numEntries - 1

Entry == [valid : BOOLEAN, pc : PCs \cup {NoPC}, age : Slots]

Segments == [entries : [Slots -> Entry], lru : Slots]

(* reset() *)
EmptySegment ==
  [entries |-> [i \in Slots |-> [valid |-> FALSE, pc |-> NoPC, age |-> i]],
   lru     |-> numEntries - 1]

At(s, pc) == {i \in Slots : s.entries[i].valid /\ s.entries[i].pc = pc}

contains(s, pc) == At(s, pc) # {}

(* The entries of a set of slots age by one step, and lru moves to the     *)
(* last of them, in slot order, that reaches the oldest age.               *)
Aged(s, slots) ==
  LET oldest == {i \in slots : s.entries[i].age = numEntries - 2}
  IN  [entries |-> [i \in Slots |->
                      IF i \in slots THEN [s.entries[i] EXCEPT !.age = @ + 1]
                      ELSE s.entries[i]],
       lru     |-> IF oldest = {} THEN s.lru ELSE Max(oldest)]

Younger(s, i) == {j \in Slots : s.entries[j].age < s.entries[i].age}

(* Mutant: the bumped entry moves to the front of the array. *)
MutantMoveToFront(s, pc) ==
  IF ~contains(s, pc) THEN s
  ELSE LET i == Min(At(s, pc))
       IN  [s EXCEPT !.entries = [j \in Slots |-> IF j = 0 THEN s.entries[i]
                                                  ELSE IF j = i THEN s.entries[0]
                                                  ELSE s.entries[j]]]

(* A PC that is absent, or already the youngest, changes nothing. *)
bump(s, pc) ==
  IF ~contains(s, pc) THEN s
  ELSE LET i == Min(At(s, pc))
       IN  [Aged(s, Younger(s, i)) EXCEPT !.entries[i].age = 0]

(* The segment with pc in place of its lru entry, and the PC it evicts. *)
add(s, pc) ==
  LET aged == Aged(s, Slots \ {s.lru})
  IN  [seg     |-> [aged EXCEPT !.entries[s.lru] =
                      [valid |-> TRUE, pc |-> pc, age |-> 0]],
       evicted |-> IF s.entries[s.lru].valid THEN s.entries[s.lru].pc ELSE NoPC]

(* Mutant: the removed slot does not become the next victim. *)
MutantLruKept(s, pc) ==
  LET r == IF contains(s, pc) THEN Min(At(s, pc)) ELSE s.lru
      older == {i \in Slots : s.entries[i].age > s.entries[r].age}
      closed == [i \in Slots |-> IF i \in older
                                 THEN [s.entries[i] EXCEPT !.age = @ - 1]
                                 ELSE s.entries[i]]
  IN  [entries |-> [closed EXCEPT ![r] = [valid |-> FALSE, pc |-> NoPC,
                                          age |-> numEntries - 1]],
       lru     |-> s.lru]

(* The older entries close the gap, and the entry found becomes the        *)
(* invalid lru one.                                                        *)
remove(s, pc) ==
  LET r == IF contains(s, pc) THEN Min(At(s, pc)) ELSE s.lru
      older == {i \in Slots : s.entries[i].age > s.entries[r].age}
      closed == [i \in Slots |-> IF i \in older
                                 THEN [s.entries[i] EXCEPT !.age = @ - 1]
                                 ELSE s.entries[i]]
  IN  IF s.entries[r].pc = pc
      THEN [entries |-> [closed EXCEPT ![r] = [valid |-> FALSE, pc |-> NoPC,
                                               age |-> numEntries - 1]],
            lru     |-> r]
      ELSE [s EXCEPT !.entries = closed]

(* get_all() over the whole segment. *)
get_all(s) == [i \in Slots |-> IF s.entries[i].valid THEN s.entries[i].pc ELSE NoPC]
-----------------------------------------------------------------------------
Valid(s) == {i \in Slots : s.entries[i].valid}
=============================================================================
