SPECIFICATION FairSpec
CONSTANTS
  a1 = a1
  a2 = a2
  b1 = b1
  sa = sa
  sb = sb
  Events <- MCEvents
  Sessions <- MCSessions
  SessionOf <- MCSessionOf
  QueueCap = 2
  BatchSize = 2
  Threshold = 2
INVARIANTS
  NothingVanishes
  CallsInOrder
PROPERTY EveryEventFlushed
