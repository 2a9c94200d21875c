SPECIFICATION Spec
CONSTANTS
  SendLog = 4
  Interval = 2
  Threshold = 3
  Attempts = 2
  Retry = 1
  MaxTime = 8
  MaxPauses = 1
INVARIANTS
  NoFalseWedge
  NeverOversleeps
  OnlyAnswersClearAProbe
CHECK_DEADLOCK FALSE
