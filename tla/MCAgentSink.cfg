SPECIFICATION Spec
CONSTANTS
  MaxSessions = 2
  MaxCommands = 2
  MaxPermissions = 1
INVARIANT NoPromptIntoADeadEnd
CHECK_DEADLOCK FALSE
