SPECIFICATION FairSpec
CONSTANTS
  c1 = c1
  c2 = c2
  Callers <- TwoCallers
  MaxRequests = 2
  MaxEvents = 1
  ChanCap = 1
INVARIANTS
  ClosedMeansNobodyWaits
  NoWaiterLeaks
  SettledSeesTheAnnouncement
PROPERTY
  AllReturnOnceTheEngineIsGone
CHECK_DEADLOCK FALSE
