SPECIFICATION Spec
CONSTANTS
  MaxFd = 4
  Params <- ThreeParams
  Cas = {TRUE, FALSE}
  PublishFails = TRUE
  NULL = NULL
  p1 = p1
  p2 = p2
  p3 = p3
INVARIANTS TypeOK NoStaleDescriptor NoLeak ClosedAtEnd EncryptedOnly TlsObjectLive
