------------------------------- MODULE Runner -------------------------------
(***************************************************************************)
(* The task runner of parallel/runner.go.  Producers hand tasks to a       *)
(* buffered channel; worker goroutines range over the channel and run      *)
(* them; other goroutines cancel the runner, change its parallelism, reset *)
(* the finish notification or wait for it, all without one common lock.    *)
(*                                                                         *)
(* A step is one access to shared state: an atomic operation, a channel    *)
(* operation, a read or a write of a field, or a critical section of a     *)
(* mutex that only protects what the section itself reads and writes.      *)
(* A task is named by its number (task.num), a goroutine by its threadId.  *)
(***************************************************************************)
EXTENDS Integers, Sequences, FiniteSets

CONSTANTS
  MaxTasks,         \* bound: calls of AddTask in a behaviour
  MaxThreads,       \* bound: goroutines created by addThread
  MaxResizes,       \* bound: calls of SetMaxParallel
  MaxUint32,        \* the largest value of the uint32 counters
  Capacity,         \* capacity of the tasks channel, as given to NewRunner
  InitialParallel,  \* maxParallel, as given to NewRunner
  ParallelChoices,  \* arguments SetMaxParallel is called with
  FailFast,         \* failFast
  NotifyEnabled,    \* finishedNotificationEnabled
  SlowStart,        \* may waitForTasksTime elapse before a task has started?
  MayFail,          \* numbers of the tasks whose TaskFunc may return an error
  Cancellers,       \* goroutines that call Cancel, once each
  Forces,           \* arguments (force) they call it with
  Timer,            \* the goroutine Run starts to detect that no task arrives
  Client,           \* the goroutine that resets the finish notification
  NoTask, NoProc    \* "no task" and "no goroutine"

TaskNums == 0 .. (MaxTasks - 1)
Threads  == 0 .. (MaxThreads - 1)
Procs    == Threads \cup Cancellers \cup {Timer}

ASSUME ConstantsAssumption ==
  /\ MaxTasks \in Nat /\ MaxThreads \in Nat /\ MaxResizes \in Nat
  /\ MaxUint32 \in Nat \ {0} /\ MaxTasks <= MaxUint32 /\ MaxThreads <= MaxUint32
  /\ Capacity \in Nat /\ InitialParallel \in Int /\ ParallelChoices \subseteq Int
  /\ FailFast \in BOOLEAN /\ NotifyEnabled \in BOOLEAN /\ SlowStart \in BOOLEAN
  /\ MayFail \subseteq TaskNums /\ Forces \subseteq BOOLEAN

ASSUME NamesAssumption ==
  /\ Timer \notin Threads /\ Timer \notin Cancellers
  /\ Cancellers \cap Threads = {}
  /\ Client \notin Procs
  /\ NoTask \notin TaskNums /\ NoProc \notin Procs \cup {Client}

VARIABLES
  \* the tasks
  taskId,               \* taskId: the next task number
  stage,                \* how far each task, and the addTask call for it, has come
  failed,               \* tasks whose TaskFunc returned an error
  tasks,                \* the tasks channel: the numbers of the tasks in it
  totalTasksInQueue,
  errors,               \* keys of the errors map
  \* the control flags
  closed,               \* the tasks channel is closed (doneOnce has run)
  cancel,
  cancelOnce,           \* "fresh", "running" or "done"
  \* the worker goroutines
  pc,                   \* where each goroutine of Procs is
  job,                  \* the task each worker has received and not finished with
  threadCount, openThreads, activeThreads, started, maxParallel,
  \* the finish notification
  notifier,             \* which channel finishedNotifier points at: 0, or 1 once reset
  chan,                 \* the channels: buffered values (at most one) and closed flag
  notifierClosed,       \* finishedNotifierChannelClosed
  notifierLock,         \* who holds finishedNotifierLock
  target,               \* the channel a goroutine in notifyFinished sends on or closes
  \* the callers
  run,                  \* the goroutine in Run: where it is, and its loop index
  resizer,              \* the goroutine in SetMaxParallel
  client                \* the goroutine that calls Done, resets or waits

taskVars   == <<taskId, stage, failed, tasks, totalTasksInQueue, errors>>
flagVars   == <<closed, cancel, cancelOnce>>
countVars  == <<threadCount, openThreads, activeThreads, started, maxParallel>>
notifyVars == <<notifier, chan, notifierClosed, notifierLock, target>>
callVars   == <<run, resizer, client>>
otherVars  == <<flagVars, countVars, notifyVars, callVars>>
quietVars  == <<taskVars, countVars, callVars, job>>
coreVars   == <<taskVars, flagVars, notifyVars>>
vars == <<taskVars, flagVars, countVars, notifyVars, callVars, pc, job>>

-----------------------------------------------------------------------------
\* Where a worker goroutine ends: its channel was closed and empty, it found
\* more open threads than maxParallel, or its task failed with failFast on.
Exits == {"ended", "trimmed", "stopped"}

Live == {th \in Threads : pc[th] \notin {"unborn"} \cup Exits}

\* NewRunner and SetMaxParallel raise smaller numbers to 1.
AtLeastOne(n) == IF n < 1 THEN 1 ELSE n

\* An unrecovered panic ends the whole program.
Panicked == \/ \E p \in Procs : pc[p] = "panicked"
            \/ \E t \in TaskNums : stage[t] = "panicked"

\* Add(1) and Add(^uint32(0)) on a uint32.
UInt32       == 0 .. MaxUint32
Increment(n) == IF n = MaxUint32 THEN 0 ELSE n + 1
Decrement(n) == IF n = 0 THEN MaxUint32 ELSE n - 1

Goto(p, label)  == pc' = [pc EXCEPT ![p] = label]
Stage(t, label) == stage' = [stage EXCEPT ![t] = label]

\* Calls of addTask that have not returned.
InFlight == {t \in TaskNums : stage[t] \in {"passed", "counted"}}

Init ==
  /\ taskId = 0
  /\ stage = [t \in TaskNums |-> "unborn"]
  /\ failed = {} /\ tasks = <<>> /\ totalTasksInQueue = 0 /\ errors = {}
  /\ closed = FALSE /\ cancel = FALSE /\ cancelOnce = "fresh"
  /\ pc = [p \in Procs |-> IF p \in Cancellers THEN "idle" ELSE "unborn"]
  /\ job = [th \in Threads |-> NoTask]
  /\ threadCount = 0 /\ openThreads = 0 /\ activeThreads = 0 /\ started = 0
  /\ maxParallel = AtLeastOne(InitialParallel)
  /\ notifier = 0
  /\ chan = [c \in {0, 1} |-> [full |-> FALSE, closed |-> FALSE]]
  /\ notifierClosed = FALSE /\ notifierLock = NoProc
  /\ target = [p \in Procs |-> 0]
  /\ run = [at |-> "idle", i |-> 0]
  /\ resizer = [at |-> "idle", new |-> 1, i |-> 0, calls |-> 0]
  /\ client = [at |-> "producing", wasReset |-> FALSE, watched |-> 0]

-----------------------------------------------------------------------------
(* addTask.  The caller may be any goroutine, a running task included.     *)

\* Takes a number and tests cancel; only addTask touches taskId, so nothing
\* can tell the two apart.
AddTask ==
  /\ client.at = "producing" /\ taskId < MaxTasks
  /\ taskId' = taskId + 1
  /\ Stage(taskId, IF cancel THEN "refused" ELSE "passed")
  /\ UNCHANGED <<otherVars, failed, tasks, totalTasksInQueue, errors, pc, job>>

AddTaskCount(t) ==
  /\ stage[t] = "passed"
  /\ totalTasksInQueue' = Increment(totalTasksInQueue)
  /\ Stage(t, "counted")
  /\ UNCHANGED <<otherVars, taskId, failed, tasks, errors, pc, job>>

\* Mutation: does not wait when the channel is full, and loses the task.
AddTaskSend_NeverWaits(t) ==
  /\ stage[t] = "counted" /\ ~closed
  /\ IF Len(tasks) < AtLeastOne(Capacity)
       THEN tasks' = Append(tasks, t) /\ Stage(t, "queued")
       ELSE UNCHANGED tasks /\ Stage(t, "dropped")
  /\ UNCHANGED <<otherVars, taskId, failed, totalTasksInQueue, errors, pc, job>>

\* Mutation: sends the shared counter in place of the number it was given.
AddTaskSend_SharedNumber(t) ==
  /\ stage[t] = "counted" /\ ~closed /\ Len(tasks) < AtLeastOne(Capacity)
  /\ tasks' = Append(tasks, taskId)
  /\ Stage(t, "queued")
  /\ UNCHANGED <<otherVars, taskId, failed, totalTasksInQueue, errors, pc, job>>

\* r.tasks <- task: waits for room in the channel.
AddTaskSend(t) ==
  /\ stage[t] = "counted" /\ ~closed /\ Len(tasks) < AtLeastOne(Capacity)
  /\ tasks' = Append(tasks, t)
  /\ Stage(t, "queued")
  /\ UNCHANGED <<otherVars, taskId, failed, totalTasksInQueue, errors, pc, job>>

\* r.tasks <- task on a closed channel, or while waiting when it is closed.
AddTaskPanic(t) ==
  /\ stage[t] = "counted" /\ closed
  /\ Stage(t, "panicked")
  /\ UNCHANGED <<otherVars, taskId, failed, tasks, totalTasksInQueue, errors, pc, job>>

-----------------------------------------------------------------------------
(* Run and addThread.                                                      *)

\* The part of addThread that runs in the caller: the WaitGroup's counter is
\* the number of threads that are neither unborn nor in Exits.
AddThread ==
  /\ threadCount < MaxThreads
  /\ threadCount' = threadCount + 1
  /\ UNCHANGED <<openThreads, activeThreads, started>>

RunStart ==
  /\ run.at = "idle"
  /\ run' = [run EXCEPT !.at = "spawning"]
  /\ IF NotifyEnabled THEN Goto(Timer, "sleeping") ELSE UNCHANGED pc
  /\ UNCHANGED <<coreVars, countVars, resizer, client, job>>

RunSpawn ==
  /\ run.at = "spawning" /\ run.i < maxParallel
  /\ AddThread /\ Goto(threadCount, "starting")
  /\ run' = [run EXCEPT !.i = @ + 1]
  /\ UNCHANGED <<coreVars, maxParallel, resizer, client, job>>

RunSpawned ==
  /\ run.at = "spawning" /\ run.i >= maxParallel
  /\ run' = [run EXCEPT !.at = "waiting"]
  /\ UNCHANGED <<coreVars, countVars, resizer, client, pc, job>>

\* threadsWaitGroup.Wait() returns.
RunReturn ==
  /\ run.at = "waiting" /\ Live = {}
  /\ run' = [run EXCEPT !.at = "returned"]
  /\ UNCHANGED <<coreVars, countVars, resizer, client, pc, job>>

\* Mutation: tells nobody that no task has arrived.
TimerElapse_Silent ==
  /\ pc[Timer] = "sleeping"
  /\ SlowStart \/ started > 0
  /\ Goto(Timer, "ended")
  /\ UNCHANGED <<otherVars, taskVars, job>>

\* The timer goroutine: no task has been executed for waitForTasksTime.
TimerElapse ==
  /\ pc[Timer] = "sleeping"
  /\ SlowStart \/ started > 0
  /\ Goto(Timer, IF started > 0 THEN "ended" ELSE "checking")
  /\ UNCHANGED <<otherVars, taskVars, job>>

-----------------------------------------------------------------------------
(* The loop of a worker goroutine.                                         *)

ThreadStart(th) ==
  /\ pc[th] = "starting"
  /\ openThreads' = Increment(openThreads)
  /\ Goto(th, "receiving")
  /\ UNCHANGED <<coreVars, threadCount, activeThreads, started, maxParallel, callVars, job>>

ThreadReceive(th) ==
  /\ pc[th] = "receiving" /\ tasks # <<>>
  /\ job' = [job EXCEPT ![th] = Head(tasks)]
  /\ tasks' = Tail(tasks)
  /\ Stage(Head(tasks), "taken")
  /\ Goto(th, "received")
  /\ UNCHANGED <<otherVars, taskId, failed, totalTasksInQueue, errors>>

\* range ends: openThreads keeps counting this thread.
ThreadEnd(th) ==
  /\ pc[th] = "receiving" /\ tasks = <<>> /\ closed
  /\ Goto(th, "ended")
  /\ UNCHANGED <<otherVars, taskVars, job>>

\* activeThreads and started go up, then t.run is called.
ThreadBegin(th) ==
  /\ pc[th] = "received"
  /\ activeThreads' = Increment(activeThreads) /\ started' = Increment(started)
  /\ Stage(job[th], "running")
  /\ Goto(th, "running")
  /\ UNCHANGED <<taskId, failed, tasks, totalTasksInQueue, errors, flagVars, notifyVars,
                 callVars, threadCount, openThreads, maxParallel, job>>

\* t.run returns, activeThreads goes down.
ThreadRan(th) ==
  /\ pc[th] = "running"
  /\ \/ failed' = failed
     \/ job[th] \in MayFail /\ failed' = failed \cup {job[th]}
  /\ activeThreads' = Decrement(activeThreads)
  /\ Stage(job[th], "ran")
  /\ Goto(th, "ran")
  /\ UNCHANGED <<taskId, tasks, totalTasksInQueue, errors, flagVars, notifyVars, callVars,
                 threadCount, openThreads, started, maxParallel, job>>

ThreadUncount(th) ==
  /\ pc[th] = "ran"
  /\ totalTasksInQueue' = Decrement(totalTasksInQueue)
  /\ Stage(job[th], "done")
  /\ Goto(th, IF NotifyEnabled THEN "finishing" ELSE "result")
  /\ UNCHANGED <<otherVars, taskId, failed, tasks, errors, job>>

\* Mutation: no lock around the check and the notification.
ThreadCheckFinished_Unlocked(th) ==
  /\ pc[th] = "finishing"
  /\ Goto(th, IF activeThreads = 0 /\ totalTasksInQueue = 0 THEN "checking" ELSE "result")
  /\ UNCHANGED <<quietVars, flagVars, notifyVars>>

\* Takes finishedNotifierLock and looks whether this was the last task.
ThreadCheckFinished(th) ==
  /\ pc[th] = "finishing" /\ notifierLock = NoProc
  /\ IF activeThreads = 0 /\ totalTasksInQueue = 0
       THEN notifierLock' = th /\ Goto(th, "checking")
       ELSE UNCHANGED notifierLock /\ Goto(th, "result")
  /\ UNCHANGED <<quietVars, flagVars, notifier, chan, notifierClosed, target>>

\* Mutation: with failFast the thread cancels before it saves the error.
ThreadResult_CancelsFirst(th) ==
  /\ pc[th] = "result"
  /\ IF job[th] \in failed
       THEN /\ errors' = IF FailFast THEN errors ELSE errors \cup {job[th]}
            /\ Goto(th, IF FailFast THEN "cancelling" ELSE "trimming")
       ELSE UNCHANGED errors /\ Goto(th, "trimming")
  /\ job' = [job EXCEPT ![th] = NoTask]
  /\ UNCHANGED <<otherVars, taskId, stage, failed, tasks, totalTasksInQueue>>

\* Saves the error (onError ran before); with failFast the thread cancels
\* the runner.
ThreadResult(th) ==
  /\ pc[th] = "result"
  /\ IF job[th] \in failed
       THEN /\ errors' = errors \cup {job[th]}
            /\ Goto(th, IF FailFast THEN "cancelling" ELSE "trimming")
       ELSE UNCHANGED errors /\ Goto(th, "trimming")
  /\ job' = [job EXCEPT ![th] = NoTask]
  /\ UNCHANGED <<otherVars, taskId, stage, failed, tasks, totalTasksInQueue>>

\* Mutation: >= for >.
ThreadTrim_AtMaximum(th) ==
  /\ pc[th] = "trimming"
  /\ IF openThreads >= maxParallel
       THEN openThreads' = Decrement(openThreads) /\ Goto(th, "trimmed")
       ELSE UNCHANGED openThreads /\ Goto(th, "receiving")
  /\ UNCHANGED <<coreVars, threadCount, activeThreads, started, maxParallel, callVars, job>>

\* Mutation: the thread closes and stays counted.
ThreadTrim_StillCounted(th) ==
  /\ pc[th] = "trimming"
  /\ Goto(th, IF openThreads > maxParallel THEN "trimmed" ELSE "receiving")
  /\ UNCHANGED <<coreVars, countVars, callVars, job>>

\* The section under openThreadsLock at the end of an iteration.
ThreadTrim(th) ==
  /\ pc[th] = "trimming"
  /\ IF openThreads > maxParallel
       THEN openThreads' = Decrement(openThreads) /\ Goto(th, "trimmed")
       ELSE UNCHANGED openThreads /\ Goto(th, "receiving")
  /\ UNCHANGED <<coreVars, threadCount, activeThreads, started, maxParallel, callVars, job>>

-----------------------------------------------------------------------------
(* Cancel, called by a canceller or, with force false, by a failing thread. *)

CancelReturn(p) == Goto(p, IF p \in Threads THEN "stopped" ELSE "returned")

CancelStore(p) ==
  /\ cancel' = TRUE
  /\ \/ p \in Threads /\ pc[p] = "cancelling" /\ Goto(p, "once")
     \/ p \in Cancellers /\ pc[p] = "idle"
        /\ \E force \in Forces : Goto(p, IF force THEN "forcing" ELSE "once")
  /\ UNCHANGED <<quietVars, closed, cancelOnce, notifyVars>>

\* force: Done() before the queue is emptied.
CancelForce(c) ==
  /\ pc[c] = "forcing"
  /\ closed' = TRUE
  /\ Goto(c, "once")
  /\ UNCHANGED <<quietVars, cancel, cancelOnce, notifyVars>>

\* Mutation: a flag instead of the Once, so that nobody waits for the first.
CancelOnce_Flag(p) ==
  /\ pc[p] = "once"
  /\ \/ cancelOnce = "fresh" /\ cancelOnce' = "running" /\ Goto(p, "draining")
     \/ cancelOnce # "fresh" /\ UNCHANGED cancelOnce /\ CancelReturn(p)
  /\ UNCHANGED <<quietVars, closed, cancel, notifyVars>>

\* cancelOnce.Do: the first caller goes in, later ones wait for it.
CancelOnce(p) ==
  /\ pc[p] = "once"
  /\ \/ cancelOnce = "fresh" /\ cancelOnce' = "running" /\ Goto(p, "draining")
     \/ cancelOnce = "done" /\ UNCHANGED cancelOnce /\ CancelReturn(p)
  /\ UNCHANGED <<quietVars, closed, cancel, notifyVars>>

\* for len(r.tasks) > 0
CancelDrain(p) ==
  /\ pc[p] = "draining"
  /\ IF tasks # <<>>
       THEN Goto(p, "dequeuing") /\ UNCHANGED cancelOnce
       ELSE IF NotifyEnabled
              THEN Goto(p, "checking") /\ UNCHANGED cancelOnce
              ELSE CancelReturn(p) /\ cancelOnce' = "done"
  /\ UNCHANGED <<quietVars, closed, cancel, notifyVars>>

\* <-r.tasks: drops a task, without taking it off totalTasksInQueue; waits
\* if a worker has emptied an open channel meanwhile.
CancelDequeue(p) ==
  /\ pc[p] = "dequeuing"
  /\ \/ /\ tasks # <<>>
        /\ tasks' = Tail(tasks)
        /\ Stage(Head(tasks), "dropped")
     \/ tasks = <<>> /\ closed /\ UNCHANGED <<tasks, stage>>
  /\ Goto(p, "draining")
  /\ UNCHANGED <<otherVars, taskId, failed, totalTasksInQueue, errors, job>>

-----------------------------------------------------------------------------
(* notifyFinished, called by a worker that holds finishedNotifierLock, and  *)
(* by Cancel and by the timer, which hold nothing.                          *)

NotifyReturn(p) ==
  IF notifierLock = p
    THEN notifierLock' = NoProc /\ Goto(p, "result") /\ UNCHANGED cancelOnce
    ELSE /\ UNCHANGED notifierLock
         /\ IF p = Timer
              THEN Goto(p, "ended") /\ UNCHANGED cancelOnce
              ELSE CancelReturn(p) /\ cancelOnce' = "done"

NotifyCheck(p) ==
  /\ pc[p] = "checking"
  /\ IF notifierClosed
       THEN NotifyReturn(p)
       ELSE Goto(p, "notifying") /\ UNCHANGED <<notifierLock, cancelOnce>>
  /\ UNCHANGED <<quietVars, closed, cancel, notifier, chan, notifierClosed, target>>

\* Reads the field finishedNotifier, to send on that channel or to close it.
NotifyAim(p) ==
  /\ \/ pc[p] = "notifying" /\ Goto(p, "sending")
     \/ pc[p] = "shutting" /\ Goto(p, "closing")
  /\ target' = [target EXCEPT ![p] = notifier]
  /\ UNCHANGED <<quietVars, flagVars, notifier, chan, notifierClosed, notifierLock>>

\* Mutation: finishedNotifier without a buffer.
NotifySend_Unbuffered(p) ==
  /\ pc[p] = "sending" /\ client.at = "waiting" /\ client.watched = target[p]
  /\ ~chan[target[p]].closed /\ ~chan[target[p]].full
  /\ chan' = [chan EXCEPT ![target[p]].full = TRUE]
  /\ Goto(p, "marking")
  /\ UNCHANGED <<quietVars, flagVars, notifier, notifierClosed, notifierLock, target>>

\* r.finishedNotifier <- true: panics on a closed channel, waits on a full one.
NotifySend(p) ==
  /\ pc[p] = "sending"
  /\ LET c == target[p] IN
     \/ chan[c].closed /\ Goto(p, "panicked") /\ UNCHANGED chan
     \/ /\ ~chan[c].closed /\ ~chan[c].full
        /\ chan' = [chan EXCEPT ![c].full = TRUE]
        /\ Goto(p, "marking")
  /\ UNCHANGED <<quietVars, flagVars, notifier, notifierClosed, notifierLock, target>>

NotifyMark(p) ==
  /\ pc[p] = "marking"
  /\ notifierClosed' = TRUE
  /\ Goto(p, "shutting")
  /\ UNCHANGED <<quietVars, flagVars, notifier, chan, notifierLock, target>>

\* close(r.finishedNotifier): panics on a channel that is closed already.
NotifyClose(p) ==
  /\ pc[p] = "closing"
  /\ IF chan[target[p]].closed
       THEN Goto(p, "panicked") /\ UNCHANGED <<chan, notifierLock, cancelOnce>>
       ELSE /\ chan' = [chan EXCEPT ![target[p]].closed = TRUE]
            /\ NotifyReturn(p)
  /\ UNCHANGED <<quietVars, closed, cancel, notifier, notifierClosed, target>>

-----------------------------------------------------------------------------
(* SetMaxParallel: no lock around maxParallel and the loop.                 *)

ResizeStart(n) ==
  LET new == AtLeastOne(n) IN
  /\ resizer.at = "idle" /\ resizer.calls < MaxResizes /\ new # maxParallel
  /\ resizer' = [at |-> "adding", new |-> new, i |-> 0, calls |-> resizer.calls + 1]
  /\ UNCHANGED <<coreVars, countVars, run, client, pc, job>>

ResizeAdd ==
  /\ resizer.at = "adding" /\ resizer.i < resizer.new - maxParallel
  /\ AddThread /\ Goto(threadCount, "starting")
  /\ resizer' = [resizer EXCEPT !.i = @ + 1]
  /\ UNCHANGED <<coreVars, maxParallel, run, client, job>>

ResizeAssign ==
  /\ resizer.at = "adding" /\ resizer.i >= resizer.new - maxParallel
  /\ maxParallel' = resizer.new
  /\ resizer' = [resizer EXCEPT !.at = "idle"]
  /\ UNCHANGED <<coreVars, threadCount, openThreads, activeThreads, started, run, client, pc, job>>

-----------------------------------------------------------------------------
(* The client: it stops producing once its AddTask calls have returned,     *)
(* then resets the notification, waits for it, and calls Done.              *)

ClientStops == client.at = "producing" /\ InFlight = {}

\* Mutation: looks at the active threads only, not at the tasks that wait.
ClientReset_IgnoresQueue ==
  /\ NotifyEnabled /\ ClientStops /\ notifierLock = NoProc
  /\ IF activeThreads = 0 \/ cancel
       THEN /\ client' = [client EXCEPT !.at = "settled", !.wasReset = TRUE]
            /\ UNCHANGED notifierLock
       ELSE /\ client' = [client EXCEPT !.at = "renewing", !.wasReset = TRUE]
            /\ notifierLock' = Client
  /\ UNCHANGED <<taskVars, flagVars, countVars, notifier, chan, notifierClosed, target,
                 run, resizer, pc, job>>

\* ResetFinishNotificationIfActive takes finishedNotifierLock and tests the
\* counters and cancel, ...
ClientReset ==
  /\ NotifyEnabled /\ ClientStops /\ notifierLock = NoProc
  /\ IF (activeThreads = 0 /\ totalTasksInQueue = 0) \/ cancel
       THEN /\ client' = [client EXCEPT !.at = "settled", !.wasReset = TRUE]
            /\ UNCHANGED notifierLock
       ELSE /\ client' = [client EXCEPT !.at = "renewing", !.wasReset = TRUE]
            /\ notifierLock' = Client
  /\ UNCHANGED <<taskVars, flagVars, countVars, notifier, chan, notifierClosed, target,
                 run, resizer, pc, job>>

\* ... points finishedNotifier at a new channel, ...
ClientRenew ==
  /\ client.at = "renewing"
  /\ client' = [client EXCEPT !.at = "clearing"]
  /\ notifier' = 1
  /\ UNCHANGED <<taskVars, flagVars, countVars, chan, notifierClosed, notifierLock, target,
                 run, resizer, pc, job>>

\* Mutation: a new channel, but still marked as closed.
ClientClear_Forgets ==
  /\ client.at = "clearing"
  /\ client' = [client EXCEPT !.at = "settled"]
  /\ notifierLock' = NoProc
  /\ UNCHANGED <<taskVars, flagVars, countVars, notifierClosed, notifier, chan, target,
                 run, resizer, pc, job>>

\* ... clears finishedNotifierChannelClosed and unlocks.
ClientClear ==
  /\ client.at = "clearing"
  /\ client' = [client EXCEPT !.at = "settled"]
  /\ notifierClosed' = FALSE /\ notifierLock' = NoProc
  /\ UNCHANGED <<taskVars, flagVars, countVars, notifier, chan, target, run, resizer, pc, job>>

\* GetFinishedNotification: reads the field once, then waits on that channel.
ClientWait ==
  /\ NotifyEnabled
  /\ ClientStops \/ client.at = "settled"
  /\ client' = [client EXCEPT !.at = "waiting", !.watched = notifier]
  /\ UNCHANGED <<coreVars, countVars, run, resizer, pc, job>>

ClientReceive ==
  /\ client.at = "waiting"
  /\ chan[client.watched].full \/ chan[client.watched].closed
  /\ chan' = [chan EXCEPT ![client.watched].full = FALSE]
  /\ client' = [client EXCEPT !.at = "notified"]
  /\ UNCHANGED <<taskVars, flagVars, countVars, notifier, notifierClosed, notifierLock, target,
                 run, resizer, pc, job>>

ClientDone ==
  /\ ClientStops \/ client.at = "notified"
  /\ client' = [client EXCEPT !.at = "done"]
  /\ closed' = TRUE
  /\ UNCHANGED <<taskVars, cancel, cancelOnce, countVars, notifyVars, run, resizer, pc, job>>

-----------------------------------------------------------------------------
AdderStep(t) == AddTaskCount(t) \/ AddTaskSend(t) \/ AddTaskPanic(t)

NotifyStep(p) ==
  NotifyCheck(p) \/ NotifyAim(p) \/ NotifySend(p) \/ NotifyMark(p) \/ NotifyClose(p)

CancelStep(p) == CancelOnce(p) \/ CancelDrain(p) \/ CancelDequeue(p)

LoopStep(th) ==
  \/ ThreadStart(th) \/ ThreadReceive(th) \/ ThreadEnd(th) \/ ThreadBegin(th)
  \/ ThreadRan(th) \/ ThreadUncount(th) \/ ThreadCheckFinished(th)
  \/ ThreadResult(th) \/ ThreadTrim(th)

ThreadStep(th)  == LoopStep(th) \/ CancelStore(th) \/ CancelStep(th) \/ NotifyStep(th)
CancellerStep(c) == CancelForce(c) \/ CancelStep(c) \/ NotifyStep(c)
TimerStep  == TimerElapse \/ NotifyStep(Timer)
RunStep    == RunSpawn \/ RunSpawned \/ RunReturn
ResizeStep == ResizeAdd \/ ResizeAssign
ClientStep ==
  \/ ClientReset \/ ClientRenew \/ ClientClear
  \/ ClientWait \/ ClientReceive \/ ClientDone

Next ==
  /\ ~Panicked
  /\ \/ AddTask
     \/ \E t \in TaskNums : AdderStep(t)
     \/ RunStart \/ RunStep
     \/ \E th \in Threads : ThreadStep(th)
     \/ \E c \in Cancellers : CancelStore(c) \/ CancellerStep(c)
     \/ TimerStep
     \/ \E n \in ParallelChoices : ResizeStart(n)
     \/ ResizeStep
     \/ ClientStep

\* Go schedules every goroutine that can run.  Nothing forces a caller to
\* start a call: to add a task, to cancel, to resize, to call Run or Done.
Fairness ==
  /\ \A t \in TaskNums : WF_vars(~Panicked /\ AdderStep(t))
  /\ \A th \in Threads : WF_vars(~Panicked /\ ThreadStep(th))
  /\ \A c \in Cancellers : WF_vars(~Panicked /\ CancellerStep(c))
  /\ WF_vars(~Panicked /\ TimerStep)
  /\ WF_vars(~Panicked /\ RunStep)
  /\ WF_vars(~Panicked /\ ResizeStep)
  /\ WF_vars(~Panicked /\ (ClientRenew \/ ClientClear \/ ClientReceive))

Spec     == Init /\ [][Next]_vars
FairSpec == Spec /\ Fairness
=============================================================================
