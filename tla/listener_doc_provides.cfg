SPECIFICATION FairSpec
CONSTANT
  Client = {c1, c2}
PROPERTY
  ListenerKeepsProviding
CHECK_DEADLOCK FALSE
