CONSTANTS
  ChunkCount = 2
  RetryCount = 1
SPECIFICATION Spec
INVARIANT TimerSurvives
CHECK_DEADLOCK FALSE
