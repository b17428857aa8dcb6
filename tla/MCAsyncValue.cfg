SPECIFICATION FairSpec
CONSTANTS
  Waiters = {w1, w2, w3, w4}
  w1 = w1
  w2 = w2
  w3 = w3
  w4 = w4
  NodeSlots = 3
  None = None
  Value = Value
INVARIANTS NoWaiterLost NodesSafe PayloadSafe
PROPERTY RefinesFuture
