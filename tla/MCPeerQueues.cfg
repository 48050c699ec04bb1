CONSTANTS
  f = f
  g = g
  Flow = {f, g}
  Hash <- MCHash
  Num = 2
  QueueSize = 2
  MaxTraffic = 3
  MaxProto = 2
SPECIFICATION Spec
INVARIANTS
  TypeOK
  CountIsQueued
  NeverSleepsOnWork
PROPERTIES
  InOrder
  WriterEnds
  QueuesDrain
CHECK_DEADLOCK FALSE
