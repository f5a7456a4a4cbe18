CONSTANTS
  Accounts = {a1, a2}
  NoAccount = NoAccount
  MaxSubmissions = 3
SPECIFICATION FairSpec
CHECK_DEADLOCK FALSE
INVARIANTS FetchExplained GrantedAccountRecorded
PROPERTIES SubmissionAnswered
