SPECIFICATION FairSpec
CONSTANTS
  Connection = {c1}
  NoConnection = NoConnection
  Call = {d1, d2}
  Workers = 1
  UserThreads = 1
  ForbidHandleDrop = FALSE
PROPERTIES
  WaitEndsOnceIdle
CHECK_DEADLOCK FALSE
