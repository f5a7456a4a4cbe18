CONSTANTS
  MaxLogins = 3
  MaxCalls = 3
SPECIFICATION FairSpec
CHECK_DEADLOCK FALSE
INVARIANTS NoCodeAfterUnload
PROPERTIES ShutdownCompletes
