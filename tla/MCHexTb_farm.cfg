SPECIFICATION TbFairSpec
CONSTANTS
  NumProcs = 4
  NumLinks = 4
  Edges <- FarmEdges
  Images <- FarmImages
  Unrouted <- NeverWritten
  NoFlit = NoFlit
  Ack = Ack
  Threshold = 7
  MaxCycles = 0
INVARIANTS
  TypeOK
  OneToken
  ReceiverIsFree
  DeadlockIsReal
PROPERTIES
  Implements
  NobodyIsLeftBehind
  StuckIsReported
