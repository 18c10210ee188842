SPECIFICATION CrossFairSpec
CONSTANTS
  NumProcs = 3
  NumLinks = 2
  Edges <- PairEdges
  Images <- PairImages
  Unrouted <- NeverWritten
  NoFlit = NoFlit
  Ack = Ack
  Threshold = 5
  MaxCycles = 24
  SimMaxCycles = 12
INVARIANTS
  NoExitIsMissed
  OutcomesAgree
  DeadlocksAgree
PROPERTIES
  EndsByLimit
