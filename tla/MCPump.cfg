SPECIFICATION FairSpec
CONSTANTS
  ChanCap = 2
  MaxMsgs = 4
  MaxKeys = 1
INVARIANTS
  NothingStranded
  NothingIsLostOrReordered
PROPERTIES
  InvocationSeesItsScreen
  StopGetsThrough
  ParkedIsDelivered
CHECK_DEADLOCK FALSE
