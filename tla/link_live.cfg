SPECIFICATION FairSpec
CONSTANTS
  m1 = m1
  m2 = m2
  m3 = m3
  m4 = m4
  Message = {m3, m4}
  Payload <- MixedPayload
  MaxStreams = 1
  MayBlock = {"sender"}
INVARIANT SendCanGoOn
PROPERTIES
  SendResolves
  SentIsDelivered
  LossIsReported
CHECK_DEADLOCK FALSE
