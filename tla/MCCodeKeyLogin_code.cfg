CONSTANTS
  MaxMoves = 6
SPECIFICATION FairSpec
CHECK_DEADLOCK FALSE
INVARIANTS TypeOK NothingAwaitedInVain WaitingCodeIsPolled PollsTheShownCode
PROPERTIES ApprovalCompletes LoadingEnds
