SPECIFICATION CallerSpec
CONSTANTS
  c1 = c1
  c2 = c2
  Callers <- TwoCallers
  MaxSends = 2
  Lengths = {1, 2}
  PipeRoom = 1
  HasPipe = TRUE
  Writer = writer
  Nobody = nobody
  writer = writer
  nobody = nobody
INVARIANTS
  NothingOvertaken
  FramesWhole
  InlineNeverParks
PROPERTIES
  ImplementsOrderedWire
  SendReturns
  BacklogIsWritten
CHECK_DEADLOCK FALSE
