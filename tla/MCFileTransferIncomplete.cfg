CONSTANTS
  ChunkCount = 2
  RetryCount = 1
SPECIFICATION Spec
INVARIANT CompleteHasAllChunks
CHECK_DEADLOCK FALSE
