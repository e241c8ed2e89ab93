SPECIFICATION Spec
CONSTANTS
  ROB_SIZE = 7
  LQ_SIZE = 6
  SQ_SIZE = 4
  SCHEDULER_SIZE = 6
  LastAddress = 5
  Registers = {1, 2}
  Programs <- MCFullLoadQueue
PROPERTY EveryInstructionRetires
CHECK_DEADLOCK FALSE
