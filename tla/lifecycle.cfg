SPECIFICATION Spec
CONSTANTS
  App = app
  Threads <- TwoThreads
  Ports = {"linux", "FreeRTOS", "RT-Thread"}
  MaxDrops = 3
  AllocMayFail = TRUE
  ThreadMayFail = TRUE
  Reuses = {TRUE, FALSE}
  NULL = NULL
  app = app
  t1 = t1
  t2 = t2
INVARIANTS TypeOK OneYieldThread StartedThreadRuns StartSafe NoUseAfterFree
PROPERTY CleanUp
