SPECIFICATION FairSpec
CONSTANTS
  Connection = {c1, c2, c3}
  NoConnection = NoConnection
  Call = {d1, d2, d3}
  Workers = 1
  UserThreads = 2
  ForbidHandleDrop = TRUE
INVARIANTS
  WaitedIsDrained
  NobodyIsLeftUntold
  WaitCanGoOn
  DisconnectionInv
PROPERTIES
  WaitHangsOnlyOnOthers
  ClientWaitReturns
CHECK_DEADLOCK FALSE
