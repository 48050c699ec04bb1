CONSTANTS
  Node = {1, 2, 3}
  Links <- MCLinks
  NoPeer = NoPeer
  NoAnn = NoAnn
  MaxConnections = 2
  MaxFailures = 2
  MaxSequence = 1
  MaxOverlaps = 1
SPECIFICATION Spec
INVARIANTS
  QuietIsTree
  QuietTreeDelivers
PROPERTY Converges
CHECK_DEADLOCK FALSE
