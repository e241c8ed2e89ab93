SPECIFICATION MCSpec
CONSTANTS
  PCs = {p1, p2, p3, p4, p5}
  NRUPCs = {p1, p2, p3, p4}
  NoPC = NoPC
  numEntries = 3
  LRU = LRU
  NRU = NRU
INVARIANTS
  IndInv
PROPERTIES
  SlotIsStable
  ImplementsLRU
  UsedEvictedLast
  AgesKeepOrder
