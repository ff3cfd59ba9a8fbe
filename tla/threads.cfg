SPECIFICATION Spec
CONSTANTS
  Users <- TwoUsers
  Topics = {}
  Handlers = {}
  Msgs = {m1, m2}
  PubQos <- Qos12
  InQos <- NoQos
  SubCodes <- SubGranted
  MaxPacketId = 2
  AckMax = 1
  CharSigned = TRUE
  AllocMayFail = FALSE
  OverlappingUnsub = FALSE
  NULL = NULL
  u1 = u1
  u2 = u2
  a = a
  b = b
  h1 = h1
  h2 = h2
  h3 = h3
  m1 = m1
  m2 = m2
INVARIANTS PublishWindow Qos2RecordedFirst
SYMMETRY ThreadSymmetry
