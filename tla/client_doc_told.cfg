SPECIFICATION FairSpec
CONSTANTS
  Message = {m1}
  ServerMessage = {v1}
PROPERTY
  ConnectingIsAlwaysTold
CHECK_DEADLOCK FALSE
