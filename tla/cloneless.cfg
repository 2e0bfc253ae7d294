SPECIFICATION FairSpec
CONSTANTS
  Message = {m1, m2}
  Allocation = {a1, a2, a3}
  NoAllocation = NoAllocation
  MaxVersion = 3
  NotYet = NotYet
INVARIANT
  ClonelessInv
PROPERTIES
  SharingIsCopying
  ArcComesBack
CHECK_DEADLOCK FALSE
