SPECIFICATION FairSpec
CONSTANTS
  Client = {c1, c2}
  NoClient = NoClient
  Workers = 1
PROPERTY
  HaltAlwaysEnds
CHECK_DEADLOCK FALSE
