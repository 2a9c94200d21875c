SPECIFICATION HoldFairSpec
CONSTANTS
  ViewLines = {a, b}
  Key = Key
  Clear = Clear
  Expanded = Expanded
  Other = Other
  None = None
  a = a
  b = b
  Kept = 1
  MaxInputs = 4
  MaxClears = 1
  MaxAsked = 1
  MaxRestarts = 1
INVARIANT HoldEndsOnItsOwnLine ReportEndsItsHold
PROPERTY TypedIsSent
CHECK_DEADLOCK FALSE
