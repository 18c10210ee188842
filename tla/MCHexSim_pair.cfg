SPECIFICATION FairSpec
CONSTANTS
  NumProcs = 2
  NumLinks = 2
  Edges <- PairEdges
  Images <- PairImages
  MaxCycles = 0
INVARIANTS
  TypeOK
  FirstToHalt
PROPERTIES
  SimulatesFairly
  StuckIsReported
