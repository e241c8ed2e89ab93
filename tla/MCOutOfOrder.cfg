SPECIFICATION Spec
CONSTANTS
  ROB_SIZE = 5
  LQ_SIZE = 2
  SQ_SIZE = 2
  SCHEDULER_SIZE = 4
  LastAddress = 2
  Registers = {1, 2}
  Programs <- MCPrograms
INVARIANTS OpsAccounted LoadsSeeLastStore SourcesReady StoreQueueInOrder RequestsNameTheirEntries
PROPERTY EveryInstructionRetires
CHECK_DEADLOCK FALSE
