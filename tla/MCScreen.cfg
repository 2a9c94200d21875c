SPECIFICATION Spec
CONSTANTS
  Blank = 0
  Rows = 3
  Cols = 2
  MaxEvents = 3
  MaxBarriers = 1
  Wire <- MCWire
INVARIANTS
  DrainsShowTheWiresFrame
  TerminalIsCurrent
  PredictionsStandOnTheirContent
CHECK_DEADLOCK FALSE
