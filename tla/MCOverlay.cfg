CONSTANTS
  Node = {1, 2, 3}
  Links <- MCLinks
  NoPeer = NoPeer
  NoAnn = NoAnn
  NoEntry = NoEntry
  NoFrame = NoFrame
  Local = Local
  FullMask = 9
  MaxConnections = 1
  MaxFailures = 1
  MaxSequence = 0
  MaxOverlaps = 0
  MaxClock = 1
  MaxMishaps = 1
  MaxHops = 3
  MaxCached = 1
SPECIFICATION OverlaySpec
INVARIANT SnakeIsOrdered
PROPERTY SettledDelivers
CHECK_DEADLOCK FALSE
