SPECIFICATION ProgressSpec
CONSTANTS
  Addresses <- MCAddresses
  SIZE <- MCSize
  HIGH_WM = 3
  LOW_WM = 2
  LOG2_DRAM_BANKS = 1
  LOG2_DRAM_COLUMNS = 0
  LOG2_DRAM_ROWS = 1
  Window = 2
INVARIANTS BankServesEntry ModeHoldsBanks NextIndicesFresh MissHasOneRead
PROPERTIES FullWriteQueueDrains ReadsReturn
CHECK_DEADLOCK FALSE
