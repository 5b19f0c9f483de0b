-------------------------- MODULE RunnerProperties --------------------------
(***************************************************************************)
(* What is asked of Runner: its invariants, its liveness, the abstract     *)
(* task pool it implements, and what the comments and tests of the         *)
(* repository say of it that the code does not do.                         *)
(***************************************************************************)
EXTENDS Runner

\* Every variable has its type: the counters stay uint32s, the queue holds
\* numbers addTask has given, each goroutine is at a place of its code.
Stages == {"unborn", "refused", "passed", "counted", "queued", "taken", "running",
           "ran", "done", "dropped", "panicked"}
Labels == {"unborn", "starting", "receiving", "received", "running", "ran", "finishing",
           "result", "trimming", "idle", "sleeping", "cancelling", "forcing", "once",
           "draining", "dequeuing", "checking", "notifying", "sending", "marking",
           "shutting", "closing", "returned", "panicked"} \cup Exits

TaskTypeOK ==
  /\ taskId \in 0 .. MaxTasks
  /\ stage \in [TaskNums -> Stages]
  /\ failed \subseteq TaskNums /\ errors \subseteq TaskNums
  /\ tasks \in Seq(TaskNums)
  /\ totalTasksInQueue \in UInt32

CountTypeOK ==
  /\ threadCount \in 0 .. MaxThreads
  /\ openThreads \in UInt32 /\ activeThreads \in UInt32 /\ started \in UInt32
  /\ maxParallel \in Nat \ {0}

NotifyTypeOK ==
  /\ notifier \in {0, 1}
  /\ chan \in [{0, 1} -> [full : BOOLEAN, closed : BOOLEAN]]
  /\ notifierClosed \in BOOLEAN
  /\ notifierLock \in Procs \cup {Client, NoProc}
  /\ target \in [Procs -> {0, 1}]

CallTypeOK ==
  /\ closed \in BOOLEAN /\ cancel \in BOOLEAN
  /\ cancelOnce \in {"fresh", "running", "done"}
  /\ run \in [at : {"idle", "spawning", "waiting", "returned"}, i : Nat]
  /\ resizer \in [at : {"idle", "adding"}, new : Nat \ {0}, i : Nat, calls : Nat]
  /\ client \in [at : {"producing", "renewing", "clearing", "settled", "waiting", "notified",
                       "done"}, wasReset : BOOLEAN, watched : {0, 1}]

WorkTypeOK ==
  /\ pc \in [Procs -> Labels]
  /\ job \in [Threads -> TaskNums \cup {NoTask}]

TypeOK == TaskTypeOK /\ CountTypeOK /\ NotifyTypeOK /\ CallTypeOK /\ WorkTypeOK

-----------------------------------------------------------------------------
(* Safety.                                                                  *)

\* A worker that has taken a task from the channel and not given it up.
Busy == {"received", "running", "ran"}

\* Every task is in one place: numbers are given once, a task in the channel is
\* there once and with no worker, and a worker holds a task no other holds,
\* at the stage the worker has brought it to.  So no TaskFunc is run twice.
TaskNumbering   == \A t \in TaskNums : t >= taskId => stage[t] = "unborn"
ThreadNumbering == \A th \in Threads : th >= threadCount => pc[th] = "unborn"

QueueCustody ==
  /\ \A i \in 1 .. Len(tasks) : stage[tasks[i]] = "queued"
  /\ \A i, j \in 1 .. Len(tasks) : tasks[i] = tasks[j] => i = j

JobCustody ==
  /\ \A th \in Threads :
       /\ pc[th] \in Busy => job[th] \in TaskNums
       /\ pc[th] = "received" => stage[job[th]] = "taken"
       /\ pc[th] = "running" => stage[job[th]] = "running"
       /\ pc[th] = "ran" => stage[job[th]] = "ran"
  /\ \A th, u \in Threads :
       pc[th] \in Busy /\ pc[u] \in Busy /\ job[th] = job[u] => th = u

Custody == TaskNumbering /\ ThreadNumbering /\ QueueCustody /\ JobCustody

\* How many elements of D the function f maps into P.
Tally(f, D, P) == Cardinality({x \in D : f[x] \in P})

\* The tasks totalTasksInQueue counts, and the threads activeThreads and
\* openThreads count.
Counted  == {"counted", "queued", "taken", "running", "ran", "dropped", "panicked"}
ActiveAt == {"running"}
OpenAt   == Labels \ {"unborn", "starting", "trimmed"}

\* The atomic counters, which no lock ties together, agree with the tasks and
\* the threads they count: a task counts from the Add in addTask until its
\* worker has run it (one that Cancel drops counts for ever), a thread is
\* active while it runs a task, and open until it trims itself.  So no
\* decrement ever finds a zero and wraps.
CounterAccounting ==
  /\ totalTasksInQueue = Tally(stage, TaskNums, Counted)
  /\ activeThreads = Tally(pc, Threads, ActiveAt)
  /\ openThreads = Tally(pc, Threads, OpenAt)

\* SetMaxParallel and the section that trims threads race with Run and with
\* each other, yet while tasks may still come the runner has as many workers
\* as the smallest parallelism it was ever asked for: never none.
KeepsWorkers ==
  run.at = "waiting" /\ ~closed /\ ~cancel =>
    \A n \in 1 .. AtLeastOne(InitialParallel) :
      (\A m \in ParallelChoices : n <= AtLeastOne(m)) => Cardinality(Live) >= n

\* Somebody is on the way to the finish notification.
FinishPending ==
  \/ \E p \in Procs :
       pc[p] \in {"finishing", "checking", "notifying", "sending", "marking",
                 "shutting", "closing", "panicked"}
  \/ client.at \in {"renewing", "clearing"}

\* When tasks have been executed, none is left and nobody is about to look,
\* the channel finishedNotifier points at has been closed: whichever worker
\* decremented last, and whatever a reset, the timer or Cancel did meanwhile.
NoLostFinish ==
  NotifyEnabled /\ started > 0 /\ totalTasksInQueue = 0 /\ ~FinishPending
    => chan[notifier].closed

\* The timer of Run has not acted yet.
TimerWaits == pc[Timer] \in {"unborn", "sleeping"}

\* ResetFinishNotificationIfActive does what its comment promises: a client
\* that has produced its last task, resets and then waits is not told before
\* every task has been executed (unless the runner is cancelled, or the timer
\* of Run has found it idle).
ResetGuarantee ==
  client.wasReset /\ client.at \in {"notified", "done"} /\ ~cancel /\ TimerWaits
    => \A t \in TaskNums : stage[t] \in {"unborn", "done"}

\* Cancel(true) closes the channel before it empties it, and a second caller
\* waits for the first: when the call returns the channel is empty, whatever
\* addTask calls were on their way, and no worker will find another task.
CancelEmptiesQueue ==
  ~FailFast /\ FALSE \notin Forces /\ (\E c \in Cancellers : pc[c] = "returned")
    => closed /\ tasks = <<>>

\* finishedNotifierLock keeps the workers and the reset from sending on, or
\* closing, a closed channel: without Cancel and before the timer acts, which
\* do not take it, nothing panics.
NoPanic == Cancellers = {} /\ ~FailFast /\ TimerWaits => ~Panicked

-----------------------------------------------------------------------------
(* The abstract task pool.                                                  *)

Life(t) ==
  CASE stage[t] = "unborn"                                     -> "new"
    [] stage[t] \in {"passed", "counted", "queued", "panicked"} -> "accepted"
    [] stage[t] \in {"taken", "running"}                        -> "running"
    [] stage[t] \in {"ran", "done"}                             -> "finished"
    [] OTHER                                                   -> stage[t]

Pool == INSTANCE TaskPool WITH
  Tasks <- TaskNums, life <- [t \in TaskNums |-> Life(t)], erred <- failed,
  saved <- errors, cancelled <- cancel, returned <- (run.at = "returned")

\* The runner implements the task pool: a task is executed once or, after
\* Cancel, dropped or refused; when Run returns nothing is executing, every
\* error is in the errors map and without Cancel every task was executed.
ImplementsPool == Pool!Spec

-----------------------------------------------------------------------------
(* Liveness, under FairSpec.                                                *)

\* Once Done (or Cancel(true)) has closed the channel, Run returns: no worker
\* is left waiting for a task, for a lock or on the finish notification.
RunReturns == closed /\ run.at # "idle" ~> run.at = "returned" \/ Panicked

\* A task that addTask has accepted is executed, however threads come and go.
AcceptedTasksRun ==
  \A t \in TaskNums :
    stage[t] = "passed" /\ run.at # "idle" ~> stage[t] = "done" \/ cancel \/ Panicked

\* A client that waits for the finish notification of a running runner that
\* has executed a task is told, and so is one of a runner that gets none.
FinishDelivered ==
  client.at = "waiting" /\ run.at # "idle" /\ (SlowStart \/ started > 0)
    ~> client.at # "waiting" \/ cancel \/ Panicked

-----------------------------------------------------------------------------
(* What the comments of runner.go say and the code does not do.             *)

\* finishedNotifierLock is "a lock for the finishedNotifier check": nobody
\* sends on, or closes, a channel another goroutine has closed.
NotifierSafe == \A p \in Procs : pc[p] # "panicked"

\* AddTask "in case of cancellation event will return non nil error".
AddTaskReturns == \A t \in TaskNums : stage[t] # "panicked"

\* Cancel "stops the runner from getting new tasks and empties the tasks
\* queue": the call comes to an end.
CancelReturns ==
  \A c \in Cancellers : pc[c] = "draining" ~> pc[c] \notin {"draining", "dequeuing"}
=============================================================================
