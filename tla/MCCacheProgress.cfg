SPECIFICATION ProgressSpec
CONSTANTS
  Code <- MCCode
  Data <- MCData
  Fetches = {f1}
  Loads = {l1}
  Prefetches <- MCPrefetches
  RQSize <- MCReads
  WQSize <- MCOne
  PQSize <- MCOne
  MSHRSize <- MCL1DTwo
  NumWay <- MCOne
  NoAddr = NoAddr
  ROBSize = 1
INVARIANTS ReturnFindsMiss MissIsOwed ReaderIsHeld L1HoldsBlockOnce
PROPERTY ReadsAreAnswered
\* main() counts cycles on when no handler can do anything, a stuttering step: a read that
\* waits in such a state violates the property.
CHECK_DEADLOCK FALSE
