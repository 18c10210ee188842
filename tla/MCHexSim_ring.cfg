SPECIFICATION FairSpec
CONSTANTS
  NumProcs = 3
  NumLinks = 2
  Edges <- RingEdges
  Images <- RingImages
  MaxCycles = 8
INVARIANTS
  WaiterIsParked
  ParkedIsRegistered
  DeadlockIsReal
PROPERTIES
  Simulates
  EndsByLimit
