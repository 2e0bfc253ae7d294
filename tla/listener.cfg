SPECIFICATION FairSpec
CONSTANT
  Client = {c1, c2, c3}
INVARIANTS
  NobodyStranded
  ListenerInv
PROPERTIES
  ImplementsLine
  KnockingIsProvided
  ConnectedIsProvided
CHECK_DEADLOCK FALSE
