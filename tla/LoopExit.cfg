SPECIFICATION SteadySpec
CONSTANTS
  PCs <- OnlyLoop
  NoPC = NoPC
  TagePredictions <- TageAnswer
  Loop = 8
  Iterations = 2
  idx_len = 0
  num_entries = 1
  tag_values = 8
  max_count = 3
  max_confidence = 3
  max_age = 2
PROPERTIES LoopExitIsPredicted
