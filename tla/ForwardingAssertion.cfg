SPECIFICATION Spec
CONSTANTS
  ROB_SIZE = 4
  LQ_SIZE = 2
  SQ_SIZE = 3
  SCHEDULER_SIZE = 4
  LastAddress = 2
  Registers = {1, 2}
  Programs <- MCCrossed
INVARIANT StoreFindsItsConsumers
CHECK_DEADLOCK FALSE
