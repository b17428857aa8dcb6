SPECIFICATION Spec
CONSTANTS
  a = a
  b = b
  c = c
  Requests <- MCRequests
  Prompt <- MCPrompt
  Goal <- MCGoal
  Modes <- ChunkModes
  PageSize = 1
  MaxBatch = 2
  QueueSize = 2
  MaxPending = 2
INVARIANT FatalOnlyWhenStuck
CHECK_DEADLOCK FALSE
