SPECIFICATION Spec
CONSTANTS
  Users <- OneUser
  Topics = {a, b}
  Handlers = {h1, h2, h3}
  Msgs = {}
  PubQos <- NoQos
  InQos <- NoQos
  SubCodes <- SubAnswers
  MaxPacketId = 2
  AckMax = 2
  CharSigned = FALSE
  AllocMayFail = TRUE
  OverlappingUnsub = FALSE
  NULL = NULL
  u1 = u1
  u2 = u2
  a = a
  b = b
  h1 = h1
  h2 = h2
  h3 = h3
  m1 = m1
  m2 = m2
INVARIANTS AckUnique NoUseAfterFree HandlerOwnership OneHandlerPerTopic
SYMMETRY HandlerSymmetry
