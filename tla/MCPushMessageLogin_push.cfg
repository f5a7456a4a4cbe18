CONSTANTS
  Accounts = {a1}
  NoAccount = NoAccount
  MaxClicks = 4
  MaxHides = 2
SPECIFICATION FairSpec
CHECK_DEADLOCK FALSE
INVARIANTS TypeOK OnePushPerClick ApprovalNotLost PollInFlightAnswered
PROPERTIES ButtonComesBack
