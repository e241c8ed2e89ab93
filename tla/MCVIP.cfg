SPECIFICATION VIPSpec
CONSTANTS
  PCs = {p1, p2, p3, p4, p5}
  NoPC = NoPC
  numEntries = 3
  snapInterval = 2
  MinScore <- MinusTwo
  MaxScore = 1
SYMMETRY MCSymmetry
INVARIANTS VIPTypeOK PredictionsArePaired AgesOrderSlots
PROPERTIES ProtectedSlotIsStable ImplementsSegmentedLRU
