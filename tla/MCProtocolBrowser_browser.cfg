CONSTANTS
  Configured <- Delays
  MaxLinks = 2
  MaxMessages = 1
  MaxPosted = 1
SPECIFICATION ProcessSpec
CHECK_DEADLOCK FALSE
INVARIANTS ConsentWaited ErrorExplained NoDeadContext
