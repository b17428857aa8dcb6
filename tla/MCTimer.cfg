SPECIFICATION FairSpec
CONSTANTS
  Chains = {a, b, c}
  a = a
  b = b
  c = c
  MaxTime = 2
  None = None
INVARIANTS ChainConserved
PROPERTIES FiresEarliest EveryChainSettles StopReturns
CHECK_DEADLOCK FALSE
