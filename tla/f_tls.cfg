SPECIFICATION Spec
CONSTANTS
  MaxFd = 2
  Params <- ThreeParams
  Cas = {TRUE}
  PublishFails = FALSE
  NULL = NULL
  p1 = p1
  p2 = p2
  p3 = p3
INVARIANT ReleasedWhenDisconnected
