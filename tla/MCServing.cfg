SPECIFICATION FairSpec
CONSTANTS
  a = a
  b = b
  c = c
  Requests <- MCRequests
  Prompt <- MCPrompt
  Goal <- MCGoal
  Modes <- MCModes
  PageSize = 1
  MaxBatch = 2
  QueueSize = 2
  MaxPending = 2
INVARIANTS NoBlockLost OnePlace BatchBacked StreamExact OnlyGenuineOOM
PROPERTIES EveryStreamEnds AbandonedFreed
CHECK_DEADLOCK FALSE
