--------------------------- MODULE MCDRAMProgress ---------------------------
EXTENDS DRAMProgress
\* Two banks of two rows: blocks 1 and 3 are rows of one bank, 2 is in the other. A burst
\* that starts with three writes and ends below two stops with a scheduled write left.
MCAddresses == {1, 2, 3}
MCSize == [q \in Queues |-> IF q = "WQ" THEN 3 ELSE 2]
=============================================================================
