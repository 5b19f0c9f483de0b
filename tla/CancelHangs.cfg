SPECIFICATION FairSpec
CONSTANTS
  MaxTasks = 1
  MaxThreads = 1
  MaxResizes = 0
  MaxUint32 = 9
  Capacity = 1
  InitialParallel = 1
  ParallelChoices = {}
  FailFast = FALSE
  NotifyEnabled = FALSE
  SlowStart = FALSE
  MayFail = {}
  Cancellers = {c1}
  Forces = {FALSE}
  Timer = timer
  Client = client
  NoTask = noTask
  NoProc = noProc
PROPERTIES CancelReturns
CHECK_DEADLOCK FALSE
