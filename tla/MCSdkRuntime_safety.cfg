CONSTANTS
  Threads = {t1, t2}
  Windows = {}
  NoWindow = NoWindow
  Sessions = {}
  MaxAttempts = 2
  MaxLogins = 2
  MaxRequests = 4
SPECIFICATION Spec
SYMMETRY CallerSymmetry
INVARIANTS TypeOK HandlesOwnedOnce NoAbandonedProcess DecisionNotDropped AnswerIsTheUsers PeerStaysConnected
