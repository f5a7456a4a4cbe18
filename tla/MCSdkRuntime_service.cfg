CONSTANTS
  Threads = {t1, t2}
  Windows = {w1}
  NoWindow = NoWindow
  Sessions <- DirectSessions
  MaxAttempts = 2
  MaxLogins = 1
  MaxRequests = 2
SPECIFICATION FairSpec
INVARIANTS TicketFromLogin
PROPERTIES SlotHandedOver ImplementsLoginService EveryCallReturns
