SPECIFICATION Spec
CONSTANTS
  MaxTasks = 2
  MaxThreads = 4
  MaxResizes = 1
  MaxUint32 = 9
  Capacity = 0
  InitialParallel = 2
  ParallelChoices = {0, 3}
  FailFast = FALSE
  NotifyEnabled = FALSE
  SlowStart = FALSE
  MayFail = {}
  Cancellers = {c1, c2}
  Forces = {TRUE}
  Timer = timer
  Client = client
  NoTask = noTask
  NoProc = noProc
SYMMETRY Symmetry
INVARIANTS KeepsWorkers CounterAccounting CancelEmptiesQueue
CHECK_DEADLOCK FALSE
