SPECIFICATION FairSpec
CONSTANTS
  MaxTasks = 2
  MaxThreads = 2
  MaxResizes = 0
  MaxUint32 = 9
  Capacity = 1
  InitialParallel = 2
  ParallelChoices = {}
  FailFast = FALSE
  NotifyEnabled = TRUE
  SlowStart = TRUE
  MayFail = {}
  Cancellers = {}
  Forces = {}
  Timer = timer
  Client = client
  NoTask = noTask
  NoProc = noProc
INVARIANTS ResetGuarantee NoPanic
PROPERTIES RunReturns FinishDelivered AcceptedTasksRun
CHECK_DEADLOCK FALSE
