SPECIFICATION FairSpec
CONSTANTS
  NumWorkers = 2
  MainWillDonate = FALSE
  Foreign = {}
  RingSize = 1
  MayFail = {}
  A = A
  B = B
  C = C
  V1 = V1
  V2 = V2
  Tasks = {A, B, C}
  Values = {V1, V2}
  Programs <- AwaitPrograms
INVARIANTS WorkConserved NoSleepOnRing SomeWorkerAwake
PROPERTY AllThreadsEnd
