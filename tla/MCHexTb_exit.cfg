SPECIFICATION TbSpec
CONSTANTS
  NumProcs = 2
  NumLinks = 2
  Edges <- LineEdges
  Images <- FallsThrough
  Unrouted <- NeverWritten
  NoFlit = NoFlit
  Ack = Ack
  Threshold = 12
  MaxCycles = 0
PROPERTIES
  Agrees
