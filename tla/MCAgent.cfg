SPECIFICATION FairSpec
CONSTANTS
  MaxSessions = 2
  MaxCommands = 2
  MaxPermissions = 2
INVARIANTS
  NoAgentOutlivesItsSession
  WatchFollowsItsSession
PROPERTIES
  TurnEndsWithItsAgent
  CommandsKeepTheirOrder
CHECK_DEADLOCK FALSE
