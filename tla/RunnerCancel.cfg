SPECIFICATION Spec
CONSTANTS
  MaxTasks = 2
  MaxThreads = 2
  MaxResizes = 0
  MaxUint32 = 9
  Capacity = 1
  InitialParallel = 2
  ParallelChoices = {}
  FailFast = TRUE
  NotifyEnabled = TRUE
  SlowStart = FALSE
  MayFail = {0}
  Cancellers = {c1}
  Forces = {TRUE, FALSE}
  Timer = timer
  Client = client
  NoTask = noTask
  NoProc = noProc
INVARIANTS TypeOK Custody NoLostFinish
PROPERTIES ImplementsPool
CHECK_DEADLOCK FALSE
