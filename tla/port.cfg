SPECIFICATION FairSpec
CONSTANTS
  PortCount = 5
  Ephemeral <- FewEphemeral
  AddressIsOurs = TRUE
INVARIANT
  ProbeInv
PROPERTIES
  ProbeComesNearer
  ProbeEnds
CHECK_DEADLOCK FALSE
