CONSTANTS
  ChunkCount = 2
  RetryCount = 2
SPECIFICATION Spec
INVARIANTS
  TypeOK
  ConsentFirst
PROPERTIES
  NeverResurrected
  Promised
  SenderEnds
  RequestForgotten
CHECK_DEADLOCK FALSE
