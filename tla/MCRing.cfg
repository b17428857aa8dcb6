SPECIFICATION FairSpec
CONSTANTS
  Producers = {p1, p2}
  Consumers = {c1, c2}
  p1 = p1
  p2 = p2
  c1 = c1
  c2 = c2
  Size = 2
  MaxEnqueues = 4
INVARIANTS TypeOK IndexOrder NoSlotRace SlotReady EmptyWhenRefused
PROPERTIES RefinesFifo ClaimsComplete
