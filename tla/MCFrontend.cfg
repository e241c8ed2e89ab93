SPECIFICATION Spec
CONSTANTS
  Lines <- MCLines
  TRACE_LENGTH = 5
  IFETCH_SIZE = 3
  DECODE_SIZE = 2
  ROB_SIZE = 2
  DECODE_WIDTH = 2
INVARIANTS TypeOK LineIsOwed StallHasItsBranch
PROPERTY TraceDrains
CHECK_DEADLOCK FALSE
