SPECIFICATION FairSpec
CONSTANTS
  Remote = TRUE
  AutoRestart = TRUE
  Budget = 2
  MaxAttempts = 2
  MaxEngines = 3
INVARIANTS
  DeathIsReal
  NeverStranded
  OneUnattendedPerOutage
PROPERTIES
  WorkingEngineIsSpared
  EveryStopIsAnswered
CHECK_DEADLOCK FALSE
