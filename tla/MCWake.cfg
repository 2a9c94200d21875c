SPECIFICATION FairSpec
CONSTANTS
  p1 = p1
  p2 = p2
  Producers <- TwoProducers
  MaxSends = 3
  MaxKeys = 2
  Capacity = 2
PROPERTIES
  NoBusyLoop
  QueueIsDrained
CHECK_DEADLOCK FALSE
