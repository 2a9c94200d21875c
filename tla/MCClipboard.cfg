SPECIFICATION FairSpec
CONSTANTS
  Registers = {"+"}
  Foreign = foreign
  MaxEngines = 2
  MaxAsked = 2
  MaxHost = 1
  MaxCopies = 1
INVARIANTS
  OnlyOvertakenGoAstray
  ShadowIsTheLastCopy
PROPERTIES
  BlockedEngineIsReleased
CHECK_DEADLOCK FALSE
