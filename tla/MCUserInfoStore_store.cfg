CONSTANTS
  Processes = {p1, p2}
  NoProcess = NoProcess
  NoFile = NoFile
  Names <- SmallNames
  Fold <- SmallFold
  Nodes = {"privacy", "service"}
  Privacy = "privacy"
  Service = "service"
  v1 = v1
  v2 = v2
  Versions = {v1, v2}
  NoVersion = NoVersion
  Unknown = Unknown
  Replies <- SomeReplies
  MaxCount = 2
  InitialTexts <- TextsLeft
  MaxHandlers = 4
  MaxFaults = 1
SPECIFICATION Spec
SYMMETRY WindowSymmetry
CHECK_DEADLOCK FALSE
INVARIANTS WholeTextRead HistoryWellFormed ReviewNotSkipped
PROPERTIES ImplementsAccountStore
