SPECIFICATION FairSpec
CONSTANTS
  Message = {m1, m2}
  ServerMessage = {v1, v2}
INVARIANTS
  ClientCanGoOn
  LeftOpenIsUnused
  ClientInv
PROPERTIES
  ImplementsPromise
  DisconnectIsFinal
  ConnectingIsTold
  HandlesResolve
CHECK_DEADLOCK FALSE
