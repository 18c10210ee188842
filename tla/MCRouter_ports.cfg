SPECIFICATION Spec
CONSTANTS
  NumPorts = 3
  Source <- AllPorts
  Dest <- FirstTwo
  Tag = {0}
  NoFlit = NoFlit
  Flit <- TaggedFlit
INVARIANTS
  RouterTypeOK
  NoFlitLoss
  BoundedWait
