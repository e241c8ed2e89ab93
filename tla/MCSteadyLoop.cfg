SPECIFICATION SteadySpec
CONSTANTS
  PCs <- ModelPCs
  TagePredictions <- TageAnswer
  NoPC = NoPC
  Loop = 8
  Iterations = 1
  idx_len = 1
  num_entries = 2
  tag_values = 8
  max_count = 1
  max_confidence = 3
  max_age = 1
INVARIANTS
  WaysInBounds
  OneEntryPerBranch
PROPERTIES
  LoopGetsEntry
