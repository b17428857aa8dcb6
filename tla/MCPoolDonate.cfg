SPECIFICATION Spec
CONSTANTS
  NumWorkers = 2
  MainWillDonate = TRUE
  Foreign = {3}
  RingSize = 1
  MayFail = {C}
  A = A
  B = B
  C = C
  V1 = V1
  V2 = V2
  Tasks = {A, B, C}
  Values = {V1, V2}
  Programs <- DonateAndShutdown
INVARIANTS WorkConserved SharedWorkDrained
