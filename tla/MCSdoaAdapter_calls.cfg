CONSTANTS
  Threads = {t1, t2}
  LoginThreads = {t1, t2}
  NoThread = NoThread
  Requests <- SomeRequests
  Sessions <- SomeSessions
SPECIFICATION Spec
INVARIANTS CallbackMatchesReturn ConnectingExplained NoDanglingCallback
