SPECIFICATION StallSpec
CONSTANTS
  Threshold = 3
  MaxGap = 2
  MaxMsgs = 3
  MaxTime = 9
INVARIANTS
  NeverSleepsThrough
PROPERTY StallIsReal
CHECK_DEADLOCK FALSE
