SPECIFICATION Spec
CONSTANTS
  m1 = m1
  m2 = m2
  m3 = m3
  m4 = m4
  Message = {m1, m2, m4}
  Payload <- MixedPayload
  MaxStreams = 2
  MayBlock = {"receiver"}
INVARIANTS
  SentWasReceived
  BlameIsFounded
  NewsCanGoOn
  LinkInv
PROPERTIES
  QuietAfterOurClose
  ImplementsMessaging
CHECK_DEADLOCK FALSE
