SPECIFICATION FairSpec
CONSTANTS
  Client = {c1, c2, c3}
  NoClient = NoClient
  Workers = 1
INVARIANTS
  KnownAreTold
  HaltCanGoOn
  ExamplesInv
PROPERTIES
  HaltEnds
  LostIsForgotten
CHECK_DEADLOCK FALSE
