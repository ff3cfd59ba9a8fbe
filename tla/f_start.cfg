SPECIFICATION Spec
CONSTANTS
  App = app
  Threads <- TwoThreads
  Ports = {"linux"}
  MaxDrops = 0
  AllocMayFail = FALSE
  ThreadMayFail = FALSE
  Reuses = {FALSE}
  NULL = NULL
  app = app
  t1 = t1
  t2 = t2
INVARIANT YieldThreadRuns
