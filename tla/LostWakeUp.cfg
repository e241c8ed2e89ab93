SPECIFICATION ProgressSpec
CONSTANTS
  Code <- MCCode
  Data <- MCCode
  Fetches = {f1}
  Loads = {l1}
  Prefetches <- MCSharedPrefetch
  RQSize <- MCL2Two
  WQSize <- MCOne
  PQSize <- MCOne
  MSHRSize <- MCOne
  NumWay <- MCOne
  NoAddr = NoAddr
  ROBSize = 2
PROPERTY ReadsAreAnswered
\* main() counts cycles on when no handler can do anything, a stuttering step: a read that
\* waits in such a state violates the property.
CHECK_DEADLOCK FALSE
