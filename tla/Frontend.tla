------------------------------ MODULE Frontend ------------------------------
(***************************************************************************)
(* The front end of one core (O3_CPU in src/ooo_cpu.cc): instructions come *)
(* from the trace into IFETCH_BUFFER, wait there for their cache line,     *)
(* pass DECODE_BUFFER and enter the reorder buffer; a mispredicted branch  *)
(* stops the reading until it has executed. The buffers are queues; L1I    *)
(* (external) answers a request for a line later. Cycles are choices.      *)
(***************************************************************************)
EXTENDS Naturals, FiniteSets, Sequences

CONSTANTS
  Lines,             \* cache lines the instructions lie in
  TRACE_LENGTH,      \* bound: instructions that are read
  IFETCH_SIZE, DECODE_SIZE, ROB_SIZE, DECODE_WIDTH

ASSUME FrontendAssumption ==
  {TRACE_LENGTH, IFETCH_SIZE, DECODE_SIZE, ROB_SIZE, DECODE_WIDTH} \subseteq Nat \ {0}

VARIABLES
  IFETCH_BUFFER,        \* [line, fetched, branch_mispredicted]
  DECODE_BUFFER,        \* [timed: event_cycle is not 0, branch_mispredicted]
  ROB,                  \* [executed, branch_mispredicted]
  L1I,                  \* how many requests for a line L1I has still to answer
  fetch_stall,
  fetch_resume_cycle,   \* whether it is set
  warmup_complete,
  instr_unique_id       \* instructions read so far

vars == <<IFETCH_BUFFER, DECODE_BUFFER, ROB, L1I, fetch_stall, fetch_resume_cycle,
          warmup_complete, instr_unique_id>>

Init ==
  /\ IFETCH_BUFFER = <<>> /\ DECODE_BUFFER = <<>> /\ ROB = <<>>
  /\ L1I = [x \in Lines |-> 0]
  /\ fetch_stall = FALSE /\ fetch_resume_cycle = FALSE
  /\ warmup_complete = FALSE
  /\ instr_unique_id = 0

TypeOK ==
  /\ IFETCH_BUFFER \in Seq([line : Lines, fetched : {"no", "INFLIGHT", "COMPLETED"},
                            branch_mispredicted : BOOLEAN])
  /\ DECODE_BUFFER \in Seq([timed : BOOLEAN, branch_mispredicted : BOOLEAN])
  /\ ROB \in Seq([executed : BOOLEAN, branch_mispredicted : BOOLEAN])
  /\ Len(IFETCH_BUFFER) <= IFETCH_SIZE /\ Len(DECODE_BUFFER) <= DECODE_SIZE /\ Len(ROB) <= ROB_SIZE
  /\ L1I \in [Lines -> Nat]
  /\ {fetch_stall, fetch_resume_cycle, warmup_complete} \subseteq BOOLEAN
  /\ instr_unique_id \in 0 .. TRACE_LENGTH

-------------------------------------------------------------------------------
(* Reading the trace *)

\* Mutant: the reading goes on behind a mispredicted branch.
Mutantread_from_trace ==
  /\ Len(IFETCH_BUFFER) < IFETCH_SIZE
  /\ instr_unique_id < TRACE_LENGTH
  /\ \E x \in Lines, mispredicted \in BOOLEAN :
       /\ IFETCH_BUFFER' = Append(IFETCH_BUFFER, [line |-> x, fetched |-> "no",
                                    branch_mispredicted |-> mispredicted /\ warmup_complete])
       /\ fetch_stall' = (fetch_stall \/ (mispredicted /\ warmup_complete))
  /\ instr_unique_id' = instr_unique_id + 1
  /\ UNCHANGED <<DECODE_BUFFER, ROB, L1I, fetch_resume_cycle, warmup_complete>>

\* read_from_trace(), as main() calls it, and add_to_ifetch_buffer(): one more instruction,
\* whose page is translated at once; one that is mispredicted after the warm-up stalls.
read_from_trace ==
  /\ ~fetch_stall
  /\ Len(IFETCH_BUFFER) < IFETCH_SIZE
  /\ instr_unique_id < TRACE_LENGTH
  /\ \E x \in Lines, mispredicted \in BOOLEAN :
       /\ IFETCH_BUFFER' = Append(IFETCH_BUFFER, [line |-> x, fetched |-> "no",
                                    branch_mispredicted |-> mispredicted /\ warmup_complete])
       /\ fetch_stall' = (mispredicted /\ warmup_complete)
  /\ instr_unique_id' = instr_unique_id + 1
  /\ UNCHANGED <<DECODE_BUFFER, ROB, L1I, fetch_resume_cycle, warmup_complete>>

-------------------------------------------------------------------------------
(* Fetching lines *)

\* The lines that have an instruction nobody has fetched yet.
Unfetched(buffer) == {buffer[k].line : k \in {j \in DOMAIN buffer : buffer[j].fetched = "no"}}

\* Every instruction of the lines gets the state.
Mark(buffer, lines, state) ==
  [k \in DOMAIN buffer |-> IF buffer[k].line \in lines THEN [buffer[k] EXCEPT !.fetched = state]
                           ELSE buffer[k]]

\* Mutant: one instruction more is passed on than there is room for.
MutantPassing(buffer) ==
  CHOOSE n \in 0 .. Len(buffer) :
    /\ \A k \in 1 .. n : buffer[k].fetched = "COMPLETED"
    /\ n <= DECODE_WIDTH
    /\ n = Len(buffer) \/ n = DECODE_WIDTH \/ buffer[n + 1].fetched # "COMPLETED"

\* How many instructions at the head have their line and find room in DECODE_BUFFER.
Passing(buffer) ==
  CHOOSE n \in 0 .. Len(buffer) :
    /\ \A k \in 1 .. n : buffer[k].fetched = "COMPLETED"
    /\ n <= DECODE_WIDTH /\ n <= DECODE_SIZE - Len(DECODE_BUFFER)
    /\ \/ n = Len(buffer) \/ n = DECODE_WIDTH \/ n = DECODE_SIZE - Len(DECODE_BUFFER)
       \/ buffer[n + 1].fetched # "COMPLETED"

\* Mutant: the lines are marked though L1I had no room for their request.
MutantToMark(accepted) == Unfetched(IFETCH_BUFFER)

\* The lines that are marked when L1I takes the requests for the accepted ones.
ToMark(accepted) == accepted \cap Unfetched(IFETCH_BUFFER)

\* fetch_instruction(): the stall may end; the lines are requested, their instructions marked,
\* those of them that had their line already too; the head passes on to be decoded.
fetch_instruction ==
  \E accepted \in SUBSET Lines, due \in BOOLEAN :
    LET ends == fetch_stall /\ fetch_resume_cycle /\ due
        sent == accepted \cap Unfetched(IFETCH_BUFFER)
        marked == Mark(IFETCH_BUFFER, ToMark(accepted), "INFLIGHT")
        n == Passing(marked)
    IN /\ fetch_stall' = (fetch_stall /\ ~ends)
       /\ fetch_resume_cycle' = (fetch_resume_cycle /\ ~ends)
       /\ L1I' = [x \in Lines |-> L1I[x] + (IF x \in sent THEN 1 ELSE 0)]
       /\ IFETCH_BUFFER' = SubSeq(marked, n + 1, Len(marked))
       /\ DECODE_BUFFER' = DECODE_BUFFER \o
            [k \in 1 .. n |-> [timed |-> FALSE, branch_mispredicted |-> marked[k].branch_mispredicted]]
       /\ UNCHANGED <<ROB, warmup_complete, instr_unique_id>>

\* complete_instr_fetch() for L1I: the line arrives for every instruction that waits now. A
\* second request for a line may have been merged into the first, which answers both.
complete_instr_fetch ==
  \E x \in Lines :
    /\ L1I[x] > 0
    /\ \E answered \in 1 .. L1I[x] : L1I' = [L1I EXCEPT ![x] = @ - answered]
    /\ IFETCH_BUFFER' = Mark(IFETCH_BUFFER, {x}, "COMPLETED")
    /\ UNCHANGED <<DECODE_BUFFER, ROB, fetch_stall, fetch_resume_cycle, warmup_complete, instr_unique_id>>

-------------------------------------------------------------------------------
(* Decoding and dispatch; the execution stands for the back end *)

\* The decode latency starts for DECODE_WIDTH instructions, in a full buffer for the head only:
\* the second loop of decode_and_dispatch() ends where it meets the tail.
Timed(buffer) ==
  LET Untimed(k) == {j \in 1 .. k : ~buffer[j].timed}
  IN [k \in DOMAIN buffer |->
        IF Cardinality(Untimed(k)) <= DECODE_WIDTH /\ (k = 1 \/ Len(buffer) < DECODE_SIZE)
        THEN [buffer[k] EXCEPT !.timed = TRUE] ELSE buffer[k]]

\* How many instructions may be dispatched: all there is room for during the warm-up, then
\* any number of those that have paid the latency.
Dispatchable ==
  LET most == {n \in 0 .. Len(DECODE_BUFFER) : n <= DECODE_WIDTH /\ n <= ROB_SIZE - Len(ROB)}
  IN IF warmup_complete THEN {n \in most : \A k \in 1 .. n : DECODE_BUFFER[k].timed}
     ELSE {n \in most : \A m \in most : m <= n}

decode_and_dispatch ==
  /\ DECODE_BUFFER # <<>>
  /\ \E n \in Dispatchable :
       /\ ROB' = ROB \o [k \in 1 .. n |->
            [executed |-> FALSE, branch_mispredicted |-> DECODE_BUFFER[k].branch_mispredicted]]
       /\ DECODE_BUFFER' = Timed(SubSeq(DECODE_BUFFER, n + 1, Len(DECODE_BUFFER)))
  /\ UNCHANGED <<IFETCH_BUFFER, L1I, fetch_stall, fetch_resume_cycle, warmup_complete, instr_unique_id>>

\* Mutant: a branch that has executed does not say when to resume.
Mutantcomplete_execution ==
  /\ \E k \in DOMAIN ROB : ~ROB[k].executed /\ ROB' = [ROB EXCEPT ![k].executed = TRUE]
  /\ UNCHANGED <<IFETCH_BUFFER, DECODE_BUFFER, L1I, fetch_stall, fetch_resume_cycle, warmup_complete, instr_unique_id>>

\* complete_execution(): a mispredicted branch lets the reading resume.
complete_execution ==
  /\ \E k \in DOMAIN ROB :
       /\ ~ROB[k].executed
       /\ ROB' = [ROB EXCEPT ![k].executed = TRUE]
       /\ fetch_resume_cycle' = (fetch_resume_cycle \/ ROB[k].branch_mispredicted)
  /\ UNCHANGED <<IFETCH_BUFFER, DECODE_BUFFER, L1I, fetch_stall, warmup_complete, instr_unique_id>>

retire_rob ==
  /\ ROB # <<>> /\ Head(ROB).executed
  /\ ROB' = Tail(ROB)
  /\ UNCHANGED <<IFETCH_BUFFER, DECODE_BUFFER, L1I, fetch_stall, fetch_resume_cycle, warmup_complete, instr_unique_id>>

\* main(): the warm-up ends between two cycles, whatever is in flight.
finish_warmup ==
  /\ ~warmup_complete
  /\ warmup_complete' = TRUE
  /\ UNCHANGED <<IFETCH_BUFFER, DECODE_BUFFER, ROB, L1I, fetch_stall, fetch_resume_cycle, instr_unique_id>>

Next ==
  \/ read_from_trace \/ fetch_instruction \/ complete_instr_fetch
  \/ decode_and_dispatch \/ complete_execution \/ retire_rob \/ finish_warmup

\* Every cycle calls each stage and L1I answers, so some step that changes something happens;
\* on a trace of finite length every step is progress.
Spec == Init /\ [][Next]_vars /\ WF_vars(Next)

-------------------------------------------------------------------------------
(* Properties *)

\* An instruction that is marked INFLIGHT has its line on the way: L1I owes an answer, though
\* fetch_instruction() marks instructions again that have their line already, an answer
\* serves instructions that never asked, and a refused request leaves no mark.
LineIsOwed ==
  \A k \in DOMAIN IFETCH_BUFFER :
    IFETCH_BUFFER[k].fetched = "INFLIGHT" => L1I[IFETCH_BUFFER[k].line] > 0

\* The mispredicted branches in the machine, by how many instructions are younger.
Unresolved ==
  LET all == [k \in DOMAIN ROB |-> ROB[k].branch_mispredicted /\ ~ROB[k].executed]
             \o [k \in DOMAIN DECODE_BUFFER |-> DECODE_BUFFER[k].branch_mispredicted]
             \o [k \in DOMAIN IFETCH_BUFFER |-> IFETCH_BUFFER[k].branch_mispredicted]
  IN {Len(all) - k : k \in {j \in DOMAIN all : all[j]}}

\* The front end is stalled exactly while one mispredicted branch, the youngest instruction of
\* the whole machine, has not executed, or its resume cycle is set: nothing is read behind
\* the branch, and no stall is left over when it is gone, wherever the warm-up ended.
StallHasItsBranch ==
  /\ Unresolved \subseteq {0}
  /\ fetch_stall <=> (Unresolved = {0} \/ fetch_resume_cycle)
  /\ ~(Unresolved = {0} /\ fetch_resume_cycle)

\* Every stall ends and every instruction of the trace gets through the buffers.
TraceDrains ==
  <>(instr_unique_id = TRACE_LENGTH /\ <<IFETCH_BUFFER, DECODE_BUFFER, ROB>> = <<<<>>, <<>>, <<>>>>)
=============================================================================
