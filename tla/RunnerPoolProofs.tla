-------------------------- MODULE RunnerPoolProofs --------------------------
(***************************************************************************)
(* Runner keeps its workers and implements the abstract task pool: for any *)
(* number of tasks, threads and cancellers.                                *)
(***************************************************************************)
EXTENDS RunnerProofs

USE DEF taskVars, flagVars, countVars, notifyVars, callVars, otherVars, quietVars, coreVars

\* What Next does, one goroutine at a time.
LEMMA Steps ==
  ASSUME Next
  PROVE  /\ ~Panicked
         /\ \/ AddTask
            \/ \E t \in TaskNums : AddTaskCount(t) \/ AddTaskSend(t) \/ AddTaskPanic(t)
            \/ \E th \in Threads : LoopStep(th)
            \/ \E p \in Threads \cup Cancellers : CancelStore(p) \/ CancelStep(p)
            \/ \E c \in Cancellers : CancelForce(c)
            \/ \E p \in Procs : NotifyStep(p)
            \/ RunStart \/ RunSpawn \/ RunSpawned \/ RunReturn \/ TimerElapse
            \/ \E n \in ParallelChoices : ResizeStart(n)
            \/ ResizeAdd \/ ResizeAssign \/ ClientStep
BY DEF Next, AdderStep, RunStep, ThreadStep, CancellerStep, TimerStep, ResizeStep, Procs

-----------------------------------------------------------------------------
(* Workers.                                                                 *)

\* The threads that have been created and have not trimmed themselves.
InPool == Labels \ {"unborn", "trimmed"}
Pooled == Tally(pc, Threads, InPool)

\* The parallelisms below every one the runner was ever asked for.
Floor == {n \in 1 .. AtLeastOne(InitialParallel) :
            \A m \in ParallelChoices : n <= AtLeastOne(m)}

\* Run has created as many threads as its loop index says, or there are as
\* many as the floor asks for: a thread trims itself only above maxParallel.
Workers ==
  \A n \in Floor :
    /\ maxParallel >= n
    /\ resizer.at = "adding" => resizer.new >= n
    /\ Pooled >= run.i \/ Pooled >= n
    /\ run.at \in {"waiting", "returned"} => run.i >= n

\* A step that neither creates nor trims a thread leaves the pool as it is.
LEMMA PoolSame ==
  ASSUME TypeOK, Next, ~RunSpawn, ~ResizeAdd, \A th \in Threads : ~ThreadTrim(th)
  PROVE  Pooled' = Pooled
<1> WorkTypeOK /\ Timer \in Procs /\ \A th \in Threads : th \in Procs
  BY DEF TypeOK, Procs
<1>a. ASSUME UNCHANGED pc \/ \E p \in Procs \ Threads, l \in Labels : Goto(p, l)
      PROVE  Pooled' = Pooled
  <2>1. \A u \in Threads : pc'[u] = pc[u]
    BY <1>a DEF Goto, WorkTypeOK
  <2>2. QED
    BY <2>1, TallySame DEF Pooled
<1>b. ASSUME NEW p \in Procs, NEW l \in InPool, pc[p] \in InPool, Goto(p, l)
      PROVE  Pooled' = Pooled
  <2>1. \A u \in Threads : pc'[u] \in InPool <=> pc[u] \in InPool
    BY <1>b DEF Goto, WorkTypeOK
  <2>2. QED
    BY <2>1, TallySame DEF Pooled
<1>1. CASE \/ AddTask \/ RunSpawned \/ RunReturn \/ ResizeAssign \/ ClientStep
           \/ \E n \in ParallelChoices : ResizeStart(n)
           \/ \E t \in TaskNums : AddTaskCount(t) \/ AddTaskSend(t) \/ AddTaskPanic(t)
  <2>1. UNCHANGED pc
    BY <1>1 DEF AddTask, AddTaskCount, AddTaskSend, AddTaskPanic, RunSpawned, RunReturn,
       ResizeStart, ResizeAssign, ClientStep, ClientReset, ClientRenew, ClientClear, ClientWait,
       ClientReceive, ClientDone
  <2>2. QED
    BY <1>a, <2>1
<1>2. CASE RunStart \/ TimerElapse
  <2>1. UNCHANGED pc \/ \E l \in Labels : Goto(Timer, l)
    BY <1>2 DEF RunStart, TimerElapse, Labels, Exits
  <2>2. QED
    BY <1>a, <2>1, NamesAssumption
<1>3. ASSUME NEW th \in Threads, LoopStep(th), ~ThreadTrim(th) PROVE Pooled' = Pooled
  <2>1. pc[th] \in InPool /\ \E l \in InPool : Goto(th, l)
    BY <1>3 DEF LoopStep, ThreadStart, ThreadReceive, ThreadEnd, ThreadBegin, ThreadRan,
       ThreadUncount, ThreadCheckFinished, ThreadResult, InPool, Labels, Exits
  <2>2. QED
    BY <1>b, <2>1
<1>4. ASSUME NEW p \in Threads \cup Cancellers, CancelStore(p) \/ CancelStep(p)
      PROVE  Pooled' = Pooled
  <2>1. pc[p] \in InPool /\ \E l \in InPool : Goto(p, l)
    BY <1>4 DEF CancelStore, CancelStep, CancelOnce, CancelDrain, CancelDequeue, CancelReturn,
       InPool, Labels, Exits
  <2>2. QED
    BY <1>b, <2>1 DEF Procs
<1>5. ASSUME NEW c \in Cancellers, CancelForce(c) PROVE Pooled' = Pooled
  <2>1. pc[c] \in InPool /\ \E l \in InPool : Goto(c, l)
    BY <1>5 DEF CancelForce, InPool, Labels, Exits
  <2>2. QED
    BY <1>b, <2>1 DEF Procs
<1>6. ASSUME NEW p \in Procs, NotifyStep(p) PROVE Pooled' = Pooled
  <2>1. pc[p] \in InPool /\ \E l \in InPool : Goto(p, l)
    BY <1>6 DEF NotifyStep, NotifyCheck, NotifyAim, NotifySend, NotifyMark, NotifyClose,
       NotifyReturn, CancelReturn, InPool, Labels, Exits
  <2>2. QED
    BY <1>b, <2>1
<1>7. QED
  BY <1>1, <1>2, <1>3, <1>4, <1>5, <1>6, Steps

\* A thread that is created joins the pool.
LEMMA PoolGrows ==
  ASSUME TypeOK, ThreadNumbering, AddThread, Goto(threadCount, "starting")
  PROVE  Pooled' = Pooled + 1
<1>1. threadCount \in Threads /\ pc[threadCount] = "unborn" /\ WorkTypeOK
  BY AddThreadTypes DEF TypeOK, CountTypeOK, ThreadNumbering, Threads
<1>2. /\ pc[threadCount] \notin InPool /\ pc'[threadCount] \in InPool
      /\ \A th \in Threads : th # threadCount => pc'[th] = pc[th]
  BY <1>1 DEF Goto, WorkTypeOK, InPool, Labels, Procs
<1>3. QED
  BY <1>1, <1>2, TallyEnters, FiniteDomains DEF Pooled

\* One that trims itself leaves more than maxParallel - 1 behind.
LEMMA PoolShrinks ==
  ASSUME TypeOK, CounterAccounting, NEW th \in Threads, ThreadTrim(th)
  PROVE  Pooled' = Pooled \/ Pooled' >= maxParallel
<1> WorkTypeOK /\ CountTypeOK /\ th \in Procs
  BY DEF TypeOK, Procs
<1>1. CASE Goto(th, "receiving")
  <2>1. \A u \in Threads : pc'[u] \in InPool <=> pc[u] \in InPool
    BY <1>1 DEF ThreadTrim, Goto, WorkTypeOK, InPool, Labels
  <2>2. QED
    BY <2>1, TallySame DEF Pooled
<1>2. CASE openThreads > maxParallel /\ Goto(th, "trimmed")
  <2>1. /\ pc[th] \in InPool /\ pc'[th] \notin InPool
        /\ \A u \in Threads : u # th => pc'[u] = pc[u]
    BY <1>2 DEF ThreadTrim, Goto, WorkTypeOK, InPool, Labels, Procs
  <2>2. Pooled' = Pooled - 1
    BY <2>1, TallyLeaves, FiniteDomains DEF Pooled
  <2>3. openThreads <= Pooled
    <3>1. {u \in Threads : pc[u] \in OpenAt} \in SUBSET {u \in Threads : pc[u] \in InPool}
      BY DEF OpenAt, InPool
    <3>2. IsFiniteSet({u \in Threads : pc[u] \in InPool})
      BY TallyNat, FiniteDomains
    <3>3. QED
      BY <3>1, <3>2, FS_Subset DEF CounterAccounting, Pooled, Tally
  <2>4. Pooled \in Nat
    BY TallyNat, FiniteDomains DEF Pooled
  <2>5. openThreads \in Nat /\ maxParallel \in Nat
    BY ConstantsAssumption DEF CountTypeOK, UInt32
  <2>6. QED
    BY <1>2, <2>2, <2>3, <2>4, <2>5
<1>3. QED
  BY <1>1, <1>2 DEF ThreadTrim

\* Only Run, SetMaxParallel and its callers touch maxParallel and the loops.
LEMMA CallFrame ==
  ASSUME Next, ~RunStart, ~RunSpawn, ~RunSpawned, ~RunReturn, ~ResizeAdd, ~ResizeAssign,
         \A n \in ParallelChoices : ~ResizeStart(n)
  PROVE  UNCHANGED <<maxParallel, run, resizer>>
<1>1. ASSUME NEW t \in TaskNums, AddTaskCount(t) \/ AddTaskSend(t) \/ AddTaskPanic(t)
      PROVE  UNCHANGED <<maxParallel, run, resizer>>
  BY <1>1 DEF AddTaskCount, AddTaskSend, AddTaskPanic
<1>2. ASSUME NEW th \in Threads, LoopStep(th) PROVE UNCHANGED <<maxParallel, run, resizer>>
  BY <1>2 DEF LoopStep, ThreadStart, ThreadReceive, ThreadEnd, ThreadBegin, ThreadRan,
     ThreadUncount, ThreadCheckFinished, ThreadResult, ThreadTrim
<1>3. ASSUME NEW p \in Procs, CancelStore(p) \/ CancelStep(p) \/ CancelForce(p)
      PROVE  UNCHANGED <<maxParallel, run, resizer>>
  BY <1>3 DEF CancelStore, CancelStep, CancelOnce, CancelDrain, CancelDequeue, CancelForce
<1>4. ASSUME NEW p \in Procs, NotifyStep(p) PROVE UNCHANGED <<maxParallel, run, resizer>>
  BY <1>4 DEF NotifyStep, NotifyCheck, NotifyAim, NotifySend, NotifyMark, NotifyClose
<1>5. CASE AddTask \/ TimerElapse \/ ClientStep
  BY <1>5 DEF AddTask, TimerElapse, ClientStep, ClientReset, ClientRenew, ClientClear,
     ClientWait, ClientReceive, ClientDone
<1>6. QED
  BY <1>1, <1>2, <1>3, <1>4, <1>5, Steps DEF Procs

\* Run and SetMaxParallel keep the workers.
LEMMA InitWorkers == Init => Workers
<1> SUFFICES ASSUME Init, NEW n \in Floor
             PROVE  maxParallel >= n /\ Pooled >= run.i
                    /\ resizer.at = "idle" /\ run.at = "idle"
  BY DEF Workers
<1>1. Pooled \in Nat
  BY TallyNat, FiniteDomains DEF Pooled
<1>2. QED
  BY <1>1, CounterTypes, ConstantsAssumption DEF Init, Floor

\* And so they are after every step.
LEMMA NextWorkers ==
  ASSUME TypeOK, ThreadNumbering, CounterAccounting, Workers, Next
  PROVE  Workers'
<1> CountTypeOK /\ CallTypeOK
  BY DEF TypeOK
<1> SUFFICES ASSUME NEW n \in Floor
             PROVE  /\ maxParallel' >= n
                    /\ resizer'.at = "adding" => resizer'.new >= n
                    /\ Pooled' >= run'.i \/ Pooled' >= n
                    /\ run'.at \in {"waiting", "returned"} => run'.i >= n
  BY DEF Workers
<1>1. /\ maxParallel >= n
      /\ resizer.at = "adding" => resizer.new >= n
      /\ Pooled >= run.i \/ Pooled >= n
      /\ run.at \in {"waiting", "returned"} => run.i >= n
  BY DEF Workers
<1>2. Pooled \in Nat /\ n \in Nat /\ run.i \in Nat /\ maxParallel \in Nat /\ Pooled' \in Nat
  <2>1. Pooled \in Nat /\ Pooled' \in Nat
    BY TallyNat, FiniteDomains DEF Pooled
  <2>2. AtLeastOne(InitialParallel) \in Nat
    BY CounterTypes, ConstantsAssumption
  <2>3. n \in Nat
    BY <2>2 DEF Floor
  <2>4. run.i \in Nat /\ maxParallel \in Nat
    BY DEF CallTypeOK, CountTypeOK
  <2>5. QED
    BY <2>1, <2>3, <2>4
<1>3. CASE RunStart \/ RunSpawned \/ RunReturn
  <2>1. run' # run /\ ~RunSpawn
    BY <1>3 DEF RunStart, RunSpawned, RunReturn, RunSpawn, CallTypeOK
  <2>2. Pooled' = Pooled
    BY <2>1, PoolSame DEF ResizeAdd, ThreadTrim
  <2>3. QED
    BY <1>1, <1>2, <1>3, <2>2 DEF RunStart, RunSpawned, RunReturn, CallTypeOK
<1>4. CASE RunSpawn
  <2>1. Pooled' = Pooled + 1
    BY <1>4, PoolGrows DEF RunSpawn
  <2>2. run' = [run EXCEPT !.i = run.i + 1] /\ UNCHANGED <<maxParallel, resizer>>
        /\ run.at = "spawning"
    BY <1>4 DEF RunSpawn
  <2>3. run'.i = run.i + 1 /\ run'.at = "spawning"
    BY <2>2 DEF CallTypeOK
  <2>4. QED
    BY <1>1, <1>2, <2>1, <2>2, <2>3
<1>5. CASE ResizeAdd
  <2>1. Pooled' = Pooled + 1
    BY <1>5, PoolGrows DEF ResizeAdd
  <2>2. /\ UNCHANGED <<run, maxParallel>>
        /\ resizer'.at = resizer.at /\ resizer'.new = resizer.new
    BY <1>5 DEF ResizeAdd, CallTypeOK
  <2>3. QED
    BY <1>1, <1>2, <2>1, <2>2
<1>6. ASSUME NEW m \in ParallelChoices, ResizeStart(m)
      PROVE  /\ UNCHANGED <<maxParallel, run, pc>>
             /\ resizer'.new = AtLeastOne(m)
  BY <1>6 DEF ResizeStart
<1>7. ASSUME NEW m \in ParallelChoices PROVE AtLeastOne(m) >= n
  BY <1>7, CounterTypes, ConstantsAssumption DEF Floor
<1>8. CASE \E m \in ParallelChoices : ResizeStart(m)
  BY <1>1, <1>6, <1>7, <1>8 DEF Pooled
<1>9. CASE ResizeAssign
  <2>1. /\ UNCHANGED <<run, pc>> /\ resizer.at = "adding" /\ maxParallel' = resizer.new
        /\ resizer'.at = "idle"
    BY <1>9 DEF ResizeAssign, CallTypeOK
  <2>2. QED
    BY <1>1, <2>1 DEF Pooled
<1>10. CASE /\ ~RunStart /\ ~RunSpawn /\ ~RunSpawned /\ ~RunReturn
            /\ ~ResizeAdd /\ ~ResizeAssign /\ \A m \in ParallelChoices : ~ResizeStart(m)
  <2>1. UNCHANGED <<maxParallel, run, resizer>>
    BY <1>10, CallFrame
  <2>2. Pooled' = Pooled \/ Pooled' >= maxParallel
    BY <1>10, PoolSame, PoolShrinks
  <2>3. QED
    BY <1>1, <1>2, <2>1, <2>2
<1>11. QED
  BY <1>3, <1>4, <1>5, <1>8, <1>9, <1>10

-----------------------------------------------------------------------------
(* finishedNotifierLock and the way to the finish notification.             *)

NotifyPath == {"checking", "notifying", "sending", "marking", "shutting", "closing"}
OnPath     == NotifyPath \cup {"panicked"}

\* Run has not started its timer before it starts itself.
TimerIdle == run.at = "idle" => pc[Timer] = "unborn"

\* Only Run starts the timer.
LEMMA NextTimerIdle ==
  ASSUME TypeOK, TimerIdle, Next
  PROVE  TimerIdle'
<1> WorkTypeOK /\ CountTypeOK /\ CallTypeOK
  BY DEF TypeOK
<1> Timer \in Procs /\ Timer \notin Threads /\ Timer \notin Cancellers
  BY NamesAssumption DEF Procs
<1>1. CASE RunStart \/ RunSpawn \/ RunSpawned \/ RunReturn
  BY <1>1 DEF RunStart, RunSpawn, RunSpawned, RunReturn, CallTypeOK, TimerIdle
<1>2. SUFFICES ASSUME run.at = "idle", pc[Timer] = "unborn", ~RunStart, ~RunSpawn, ~RunSpawned,
                      ~RunReturn
               PROVE  pc'[Timer] = pc[Timer]
  <2>1. CASE run.at # "idle"
    <3>1. ~RunStart
      BY <2>1 DEF RunStart
    <3>2. \A n \in ParallelChoices : ResizeStart(n) => run' = run
      BY DEF ResizeStart
    <3>3. ResizeAdd \/ ResizeAssign => run' = run
      BY DEF ResizeAdd, ResizeAssign
    <3>4. run' = run \/ RunSpawn \/ RunSpawned \/ RunReturn
      BY <3>1, <3>2, <3>3, CallFrame
    <3>5. QED
      BY <1>1, <2>1, <3>4 DEF TimerIdle
  <2>2. QED
    BY <1>1, <1>2, <2>1 DEF TimerIdle
<1>3. CASE \/ AddTask \/ ResizeAssign \/ \E n \in ParallelChoices : ResizeStart(n)
           \/ \E t \in TaskNums : AddTaskCount(t) \/ AddTaskSend(t) \/ AddTaskPanic(t)
           \/ ClientStep
  BY <1>3 DEF AddTask, AddTaskCount, AddTaskSend, AddTaskPanic, ResizeStart, ResizeAssign,
     ClientStep, ClientReset, ClientRenew, ClientClear, ClientWait, ClientReceive, ClientDone
<1>4. CASE ResizeAdd
  BY <1>4, AddThreadTypes DEF ResizeAdd, Goto, WorkTypeOK
<1>5. ASSUME NEW th \in Threads, LoopStep(th) PROVE pc'[Timer] = pc[Timer]
  BY <1>5 DEF LoopStep, ThreadStart, ThreadReceive, ThreadEnd, ThreadBegin, ThreadRan,
     ThreadUncount, ThreadCheckFinished, ThreadResult, ThreadTrim, Goto, WorkTypeOK
<1>6. ASSUME NEW p \in Threads \cup Cancellers, CancelStore(p) \/ CancelStep(p)
      PROVE  pc'[Timer] = pc[Timer]
  BY <1>6 DEF CancelStore, CancelStep, CancelOnce, CancelDrain, CancelDequeue, CancelReturn,
     Goto, WorkTypeOK
<1>7. ASSUME NEW c \in Cancellers, CancelForce(c) PROVE pc'[Timer] = pc[Timer]
  BY <1>7 DEF CancelForce, Goto, WorkTypeOK
<1>8. ASSUME NEW p \in Procs, NotifyStep(p) PROVE pc'[Timer] = pc[Timer]
  BY <1>2, <1>8 DEF NotifyStep, NotifyCheck, NotifyAim, NotifySend, NotifyMark, NotifyClose,
     NotifyReturn, CancelReturn, Goto, WorkTypeOK
<1>9. ~TimerElapse
  BY <1>2 DEF TimerElapse
<1>10. QED
  BY <1>2, <1>3, <1>4, <1>5, <1>6, <1>7, <1>8, <1>9, Steps

\* A step that leaves the notification alone: it moves at most one goroutine,
\* which is not on the path and does not enter it.
OffPath ==
  /\ UNCHANGED <<notifyVars, client>>
  /\ \/ UNCHANGED pc
     \/ \E p \in Procs, l \in Labels \ OnPath : pc[p] \notin OnPath /\ Goto(p, l)

\* The steps on the path, the two that enter it without the lock, the rest.
LEMMA PathSteps ==
  ASSUME TypeOK, ThreadNumbering, TimerIdle, Next
  PROVE  \/ OffPath
         \/ \E th \in Threads : ThreadCheckFinished(th)
         \/ \E p \in Procs : NotifyStep(p)
         \/ \E p \in Threads \cup Cancellers : CancelDrain(p)
         \/ TimerElapse \/ ClientStep
<1> WorkTypeOK /\ CountTypeOK /\ Timer \in Procs /\ \A th \in Threads : th \in Procs
  BY DEF TypeOK, Procs
<1>1. CASE \/ AddTask \/ RunSpawned \/ RunReturn \/ ResizeAssign
           \/ \E n \in ParallelChoices : ResizeStart(n)
           \/ \E t \in TaskNums : AddTaskCount(t) \/ AddTaskSend(t) \/ AddTaskPanic(t)
  BY <1>1 DEF AddTask, AddTaskCount, AddTaskSend, AddTaskPanic, RunSpawned, RunReturn,
     ResizeStart, ResizeAssign, OffPath
<1>2. CASE RunSpawn \/ ResizeAdd
  <2>1. threadCount \in Threads /\ pc[threadCount] = "unborn" /\ Goto(threadCount, "starting")
    BY <1>2, AddThreadTypes DEF RunSpawn, ResizeAdd, CountTypeOK, ThreadNumbering, Threads
  <2>2. UNCHANGED <<notifyVars, client>>
    BY <1>2 DEF RunSpawn, ResizeAdd
  <2>3. QED
    BY <2>1, <2>2 DEF OffPath, OnPath, NotifyPath, Labels
<1>3. ASSUME NEW th \in Threads, LoopStep(th), ~ThreadCheckFinished(th) PROVE OffPath
  <2>1. UNCHANGED <<notifyVars, client>>
    BY <1>3 DEF LoopStep, ThreadStart, ThreadReceive, ThreadEnd, ThreadBegin, ThreadRan,
       ThreadUncount, ThreadResult, ThreadTrim
  <2>2. pc[th] \notin OnPath /\ \E l \in Labels \ OnPath : Goto(th, l)
    BY <1>3 DEF LoopStep, ThreadStart, ThreadReceive, ThreadEnd, ThreadBegin, ThreadRan,
       ThreadUncount, ThreadResult, ThreadTrim, Labels, Exits, OnPath, NotifyPath
  <2>3. QED
    BY <2>1, <2>2 DEF OffPath
<1>4. ASSUME NEW p \in Threads \cup Cancellers, CancelStore(p) \/ CancelStep(p), ~CancelDrain(p)
      PROVE  OffPath
  <2>1. UNCHANGED <<notifyVars, client>>
    BY <1>4 DEF CancelStore, CancelStep, CancelOnce, CancelDequeue
  <2>2. pc[p] \notin OnPath /\ \E l \in Labels \ OnPath : Goto(p, l)
    BY <1>4 DEF CancelStore, CancelStep, CancelOnce, CancelDequeue, CancelReturn, Labels, Exits,
       OnPath, NotifyPath
  <2>3. QED
    BY <2>1, <2>2 DEF OffPath, Procs
<1>5. ASSUME NEW c \in Cancellers, CancelForce(c) PROVE OffPath
  BY <1>5 DEF CancelForce, Labels, OnPath, NotifyPath, OffPath, Procs
<1>6. CASE RunStart
  <2>1. UNCHANGED <<notifyVars, client>>
    BY <1>6 DEF RunStart
  <2>2. UNCHANGED pc \/ Goto(Timer, "sleeping")
    BY <1>6 DEF RunStart
  <2>3. pc[Timer] \notin OnPath
    BY <1>6 DEF RunStart, TimerIdle, OnPath, NotifyPath
  <2>4. QED
    BY <2>1, <2>2, <2>3 DEF OffPath, Labels, OnPath, NotifyPath
<1>7. QED
  BY <1>1, <1>2, <1>3, <1>4, <1>5, <1>6, Steps

\* The lock is the client's while it renews the channel, or a worker's that is
\* on its way, and the channel the worker has aimed at is the current one.
Locks ==
  /\ client.at \in {"renewing", "clearing"} <=> notifierLock = Client
  /\ notifierLock \in Procs => notifierLock \in Threads /\ pc[notifierLock] \in OnPath
  /\ notifierLock \in Procs /\ pc[notifierLock] \in {"sending", "marking", "closing"}
       => target[notifierLock] = notifier

\* The lock at the beginning.
LEMMA InitLocks == Init => Locks /\ TimerIdle
BY NamesAssumption DEF Init, Locks, TimerIdle, Procs

\* A step of notifyFinished keeps the lock with its holder to the end.
LEMMA NotifyLocks ==
  ASSUME TypeOK, Locks, NEW p \in Procs, NotifyStep(p)
  PROVE  Locks'
<1> WorkTypeOK /\ NotifyTypeOK /\ Client \notin Procs /\ NoProc \notin Procs \cup {Client}
  BY NamesAssumption DEF TypeOK
<1>0. UNCHANGED <<client, notifier>>
  BY DEF NotifyStep, NotifyCheck, NotifyAim, NotifySend, NotifyMark, NotifyClose
<1>a. ASSUME NEW l \in OnPath, Goto(p, l), UNCHANGED notifierLock, pc[p] \in NotifyPath,
             \A q \in Procs : q # p => target'[q] = target[q],
             l \in {"sending", "closing"} => target'[p] = notifier,
             l = "marking" => pc[p] = "sending" /\ target'[p] = target[p]
      PROVE  Locks'
  BY <1>0, <1>a DEF Locks, Goto, WorkTypeOK
<1>b. ASSUME UNCHANGED target, NotifyReturn(p)
      PROVE  Locks'
  <2>1. \A q \in Procs : q # p => pc'[q] = pc[q]
    BY <1>b DEF NotifyReturn, CancelReturn, Goto, WorkTypeOK
  <2>2. notifierLock' = IF notifierLock = p THEN NoProc ELSE notifierLock
    BY <1>b DEF NotifyReturn
  <2>3. QED
    BY <1>0, <1>b, <2>1, <2>2 DEF Locks
<1>1. CASE NotifyCheck(p)
  BY <1>a, <1>b, <1>1 DEF NotifyCheck, OnPath, NotifyPath
<1>2. CASE NotifyAim(p)
  BY <1>a, <1>2 DEF NotifyAim, OnPath, NotifyPath, NotifyTypeOK
<1>3. CASE NotifySend(p)
  BY <1>a, <1>3 DEF NotifySend, OnPath, NotifyPath
<1>4. CASE NotifyMark(p)
  BY <1>a, <1>4 DEF NotifyMark, OnPath, NotifyPath
<1>5. CASE NotifyClose(p)
  BY <1>a, <1>b, <1>5 DEF NotifyClose, OnPath, NotifyPath
<1>6. QED
  BY <1>1, <1>2, <1>3, <1>4, <1>5 DEF NotifyStep

\* So does every other step.
LEMMA NextLocks ==
  ASSUME TypeOK, ThreadNumbering, TimerIdle, Locks, Next
  PROVE  Locks'
<1> /\ WorkTypeOK /\ NotifyTypeOK /\ CallTypeOK /\ Client \notin Procs
    /\ NoProc \notin Procs \cup {Client} /\ Timer \in Procs
  BY NamesAssumption DEF TypeOK, Procs
<1>a. ASSUME NEW p \in Procs, NEW l, Goto(p, l), pc[p] \notin OnPath,
             UNCHANGED <<notifyVars, client>>
      PROVE  Locks'
  <2>1. \A q \in Procs : q # p => pc'[q] = pc[q]
    BY <1>a DEF Goto, WorkTypeOK
  <2>2. notifierLock \in Procs => notifierLock # p
    BY <1>a DEF Locks
  <2>3. QED
    BY <1>a, <2>1, <2>2 DEF Locks
<1>1. CASE OffPath
  BY <1>a, <1>1 DEF OffPath, Locks
<1>2. ASSUME NEW th \in Threads, ThreadCheckFinished(th) PROVE Locks'
  <2>0. th \in Procs /\ th # NoProc /\ th # Client
    BY DEF Procs
  <2>1. UNCHANGED <<client, target, notifier>> /\ notifierLock = NoProc
    BY <1>2 DEF ThreadCheckFinished
  <2>2. \/ notifierLock' = th /\ pc'[th] = "checking"
        \/ notifierLock' = NoProc
    BY <1>2, <2>0 DEF ThreadCheckFinished, Goto, WorkTypeOK
  <2>3. QED
    BY <2>0, <2>1, <2>2 DEF Locks, OnPath, NotifyPath
<1>3. ASSUME NEW p \in Procs, CancelDrain(p) PROVE Locks'
  <2>1. pc[p] \notin OnPath /\ UNCHANGED <<notifyVars, client>> /\ \E l \in Labels : Goto(p, l)
    BY <1>3 DEF CancelDrain, CancelReturn, OnPath, NotifyPath, Labels, Exits
  <2>2. QED
    BY <1>a, <2>1
<1>4. CASE TimerElapse
  <2>1. pc[Timer] \notin OnPath /\ UNCHANGED <<notifyVars, client>>
        /\ \E l \in Labels : Goto(Timer, l)
    BY <1>4 DEF TimerElapse, OnPath, NotifyPath, Labels, Exits
  <2>2. QED
    BY <1>a, <2>1
<1>5. CASE ClientStep
  <2>1. CASE ClientReset
    BY <2>1 DEF ClientReset, ClientStops, Locks, CallTypeOK
  <2>2. CASE ClientRenew
    BY <2>2 DEF ClientRenew, Locks, CallTypeOK
  <2>3. CASE ClientClear
    BY <2>3 DEF ClientClear, Locks, CallTypeOK
  <2>4. CASE ClientWait \/ ClientReceive \/ ClientDone
    BY <2>4 DEF ClientWait, ClientReceive, ClientDone, ClientStops, Locks, CallTypeOK
  <2>5. QED
    BY <1>5, <2>1, <2>2, <2>3, <2>4 DEF ClientStep
<1>6. QED
  BY <1>1, <1>2, <1>3, <1>4, <1>5, PathSteps, NotifyLocks DEF Procs

\* Nobody takes a cancellation back.
LEMMA CancelStays ==
  ASSUME Next
  PROVE  cancel' = cancel \/ cancel'
<1>1. ASSUME NEW p \in Procs, CancelStep(p) \/ CancelForce(p) PROVE cancel' = cancel
  BY <1>1 DEF CancelStep, CancelOnce, CancelDrain, CancelDequeue, CancelForce
<1>2. ASSUME NEW p \in Procs, NotifyStep(p) PROVE cancel' = cancel
  BY <1>2 DEF NotifyStep, NotifyCheck, NotifyAim, NotifySend, NotifyMark, NotifyClose
<1>3. ASSUME NEW th \in Threads, LoopStep(th) PROVE cancel' = cancel
  BY <1>3 DEF LoopStep, ThreadStart, ThreadReceive, ThreadEnd, ThreadBegin, ThreadRan,
     ThreadUncount, ThreadCheckFinished, ThreadResult, ThreadTrim
<1>4. ASSUME NEW p \in Procs, CancelStore(p) PROVE cancel'
  BY <1>4 DEF CancelStore
<1>5. QED
  BY <1>1, <1>2, <1>3, <1>4, Steps
  DEF AddTask, AddTaskCount, AddTaskSend, AddTaskPanic, RunStart, RunSpawn, RunSpawned,
      RunReturn, TimerElapse, ResizeStart, ResizeAdd, ResizeAssign, ClientStep, ClientReset,
      ClientRenew, ClientClear, ClientWait, ClientReceive, ClientDone, Procs

\* Cancelled: whoever is inside Cancel, or has been stopped by it, or is on the
\* path without the lock (the timer apart), finds the flag set.
Cancelled ==
  \A p \in Procs :
    /\ pc[p] \in {"forcing", "once", "draining", "dequeuing", "stopped"} => cancel
    /\ pc[p] \in NotifyPath /\ p # notifierLock /\ p # Timer => cancel

\* Cancel sets the flag first.
LEMMA NextCancelled ==
  ASSUME TypeOK, ThreadNumbering, TimerIdle, Locks, Cancelled, Next
  PROVE  Cancelled'
<1> WorkTypeOK /\ CountTypeOK /\ Timer \in Procs /\ NoProc \notin Procs
  BY NamesAssumption DEF TypeOK, Procs
<1> DEFINE inside == {"forcing", "once", "draining", "dequeuing", "stopped"}
<1>c. cancel' = cancel \/ cancel'
  BY CancelStays
<1>a. ASSUME NEW p \in Procs, NEW l, Goto(p, l),
             notifierLock' = notifierLock \/ notifierLock \notin Procs \/ notifierLock = p,
             l \in inside \/ (l \in NotifyPath /\ p # Timer /\ p # notifierLock') => cancel'
      PROVE  Cancelled'
  <2>1. pc'[p] = l /\ \A q \in Procs : q # p => pc'[q] = pc[q]
    BY <1>a DEF Goto, WorkTypeOK
  <2>2. QED
    BY <1>a, <1>c, <2>1 DEF Cancelled
<1>b. ASSUME UNCHANGED pc, notifierLock' = notifierLock \/ notifierLock \notin Procs
      PROVE  Cancelled'
  BY <1>b, <1>c DEF Cancelled
<1>1. CASE \/ AddTask \/ RunSpawned \/ RunReturn \/ ResizeAssign
           \/ \E n \in ParallelChoices : ResizeStart(n)
           \/ \E t \in TaskNums : AddTaskCount(t) \/ AddTaskSend(t) \/ AddTaskPanic(t)
  BY <1>b, <1>1 DEF AddTask, AddTaskCount, AddTaskSend, AddTaskPanic, RunSpawned, RunReturn,
     ResizeStart, ResizeAssign
<1>2. CASE ClientStep
  <2>1. UNCHANGED pc /\ (notifierLock' = notifierLock \/ notifierLock \in {NoProc, Client})
    BY <1>2 DEF ClientStep, ClientReset, ClientRenew, ClientClear, ClientWait, ClientReceive,
       ClientDone, Locks
  <2>2. QED
    BY <1>b, <2>1, NamesAssumption
<1>3. CASE RunSpawn \/ ResizeAdd
  <2>1. threadCount \in Procs /\ Goto(threadCount, "starting") /\ UNCHANGED notifierLock
    BY <1>3, AddThreadTypes DEF RunSpawn, ResizeAdd, Procs
  <2>2. QED
    BY <1>a, <2>1 DEF NotifyPath
<1>4. CASE RunStart \/ TimerElapse
  <2>1. UNCHANGED notifierLock /\ (UNCHANGED pc \/ \E l : Goto(Timer, l) /\ l \notin inside)
    <3>1. CASE RunStart
      BY <3>1 DEF RunStart
    <3>2. CASE TimerElapse
      BY <3>2 DEF TimerElapse
    <3>3. QED
      BY <1>4, <3>1, <3>2
  <2>2. QED
    BY <1>a, <1>b, <2>1
<1>5. ASSUME NEW th \in Threads, LoopStep(th) PROVE Cancelled'
  <2>1. th \in Procs
    BY DEF Procs
  <2>2. CASE ThreadCheckFinished(th)
    BY <1>a, <2>1, <2>2 DEF ThreadCheckFinished, NotifyPath
  <2>3. CASE ~ThreadCheckFinished(th)
    <3>1. UNCHANGED notifierLock
      BY <1>5, <2>3 DEF LoopStep, ThreadStart, ThreadReceive, ThreadEnd, ThreadBegin, ThreadRan,
         ThreadUncount, ThreadResult, ThreadTrim
    <3>2. \E l \in Labels \ (inside \cup NotifyPath) : Goto(th, l)
      BY <1>5, <2>3 DEF LoopStep, ThreadStart, ThreadReceive, ThreadEnd, ThreadBegin, ThreadRan,
         ThreadUncount, ThreadResult, ThreadTrim, Labels, Exits, NotifyPath
    <3>3. QED
      BY <1>a, <2>1, <3>1, <3>2
  <2>4. QED
    BY <2>2, <2>3
<1>6. ASSUME NEW p \in Procs, CancelStore(p) \/ CancelStep(p) \/ CancelForce(p) PROVE Cancelled'
  <2>1. UNCHANGED notifierLock /\ \E l \in Labels : Goto(p, l)
    BY <1>6 DEF CancelStore, CancelStep, CancelOnce, CancelDrain, CancelDequeue, CancelForce,
       CancelReturn, Labels, Exits
  <2>2. cancel'
    BY <1>6, <1>c DEF CancelStore, CancelStep, CancelOnce, CancelDrain, CancelDequeue,
       CancelForce, Cancelled
  <2>3. QED
    BY <1>a, <2>1, <2>2
<1>7. ASSUME NEW p \in Procs, NotifyStep(p) PROVE Cancelled'
  <2>1. CASE NotifyReturn(p)
    <3>1. CASE notifierLock = p
      BY <1>a, <2>1, <3>1 DEF NotifyReturn, NotifyPath
    <3>2. CASE notifierLock # p
      <4>1. UNCHANGED notifierLock /\ \E l \in {"ended", "stopped", "returned"} : Goto(p, l)
        BY <2>1, <3>2 DEF NotifyReturn, CancelReturn
      <4>2. p # Timer => cancel
        BY <1>7, <3>2 DEF NotifyStep, NotifyCheck, NotifyAim, NotifySend, NotifyMark, NotifyClose,
           Cancelled, NotifyPath
      <4>3. p = Timer => Goto(p, "ended")
        BY <2>1, <3>2 DEF NotifyReturn
      <4>4. QED
        BY <1>a, <1>c, <4>1, <4>2, <4>3 DEF NotifyPath
    <3>3. QED
      BY <3>1, <3>2
  <2>2. CASE ~NotifyReturn(p)
    <3>1. /\ pc[p] \in NotifyPath /\ UNCHANGED notifierLock
          /\ \E l \in OnPath : Goto(p, l)
      BY <1>7, <2>2 DEF NotifyStep, NotifyCheck, NotifyAim, NotifySend, NotifyMark, NotifyClose,
         NotifyPath, OnPath
    <3>2. p # Timer /\ p # notifierLock' => cancel'
      BY <1>c, <3>1 DEF Cancelled
    <3>3. QED
      BY <1>a, <3>1, <3>2 DEF OnPath, NotifyPath
  <2>3. QED
    BY <2>1, <2>2
<1>8. QED
  BY <1>1, <1>2, <1>3, <1>4, <1>5, <1>6, <1>7, Steps DEF Procs

-----------------------------------------------------------------------------
(* The flags, the calls of addTask and the end of a worker.                 *)

\* How far one step can bring a task, and who must be there for it.
LEMMA StageMoves ==
  ASSUME TypeOK, Custody, Next, NEW t \in TaskNums
  PROVE  \/ stage'[t] = stage[t]
         \/ /\ UNCHANGED client
            /\ \/ /\ stage[t] = "unborn" /\ client.at = "producing"
                  /\ stage'[t] = IF cancel THEN "refused" ELSE "passed"
               \/ stage[t] = "passed" /\ stage'[t] = "counted"
               \/ stage[t] = "counted" /\ closed /\ stage'[t] = "panicked"
               \/ stage[t] = "counted" /\ ~closed /\ stage'[t] = "queued"
               \/ stage[t] = "queued" /\ stage'[t] \in {"taken", "dropped"}
               \/ stage[t] = "taken" /\ stage'[t] = "running"
               \/ stage[t] = "running" /\ stage'[t] = "ran"
               \/ stage[t] = "ran" /\ stage'[t] = "done"
<1> /\ TaskTypeOK /\ WorkTypeOK /\ TaskNumbering /\ ThreadNumbering /\ QueueCustody
    /\ JobCustody
  BY DEF TypeOK, Custody
<1>1. CASE AddTask
  <2>1. taskId \in TaskNums /\ stage[taskId] = "unborn"
    BY <1>1, ConstantsAssumption DEF AddTask, TaskNums, TaskTypeOK, TaskNumbering
  <2>2. QED
    BY <1>1, <2>1 DEF AddTask, Stage, TaskTypeOK
<1>2. ASSUME NEW u \in TaskNums, AddTaskCount(u) \/ AddTaskSend(u) \/ AddTaskPanic(u)
      PROVE  UNCHANGED client /\ (stage'[t] = stage[t] \/ t = u)
  BY <1>2 DEF AddTaskCount, AddTaskSend, AddTaskPanic, Stage, TaskTypeOK
<1>3. CASE \E u \in TaskNums : AddTaskCount(u) \/ AddTaskSend(u) \/ AddTaskPanic(u)
  BY <1>2, <1>3 DEF AddTaskCount, AddTaskSend, AddTaskPanic, Stage, TaskTypeOK
<1>4. ASSUME tasks # <<>>
      PROVE  Head(tasks) \in TaskNums /\ stage[Head(tasks)] = "queued"
  <2>1. Len(tasks) \in Nat /\ Len(tasks) >= 1
    BY <1>4, EmptySeq, LenProperties DEF TaskTypeOK
  <2>2. Head(tasks) = tasks[1] /\ Head(tasks) \in TaskNums
    BY <1>4, HeadTailProperties DEF TaskTypeOK
  <2>3. QED
    BY <2>1, <2>2 DEF QueueCustody
<1>5. ASSUME NEW th \in Threads, ThreadReceive(th)
      PROVE  /\ UNCHANGED client
             /\ stage'[t] = stage[t] \/ (stage[t] = "queued" /\ stage'[t] = "taken")
  BY <1>4, <1>5 DEF ThreadReceive, Stage, TaskTypeOK
<1>6. ASSUME NEW p \in Procs, CancelDequeue(p)
      PROVE  /\ UNCHANGED client
             /\ stage'[t] = stage[t] \/ (stage[t] = "queued" /\ stage'[t] = "dropped")
  BY <1>4, <1>6 DEF CancelDequeue, Stage, TaskTypeOK
<1>7. ASSUME NEW th \in Threads, ThreadBegin(th) \/ ThreadRan(th) \/ ThreadUncount(th)
      PROVE  /\ UNCHANGED client
             /\ \/ stage'[t] = stage[t]
                \/ stage[t] = "taken" /\ stage'[t] = "running"
                \/ stage[t] = "running" /\ stage'[t] = "ran"
                \/ stage[t] = "ran" /\ stage'[t] = "done"
  BY <1>7 DEF ThreadBegin, ThreadRan, ThreadUncount, Stage, TaskTypeOK, JobCustody, Busy
<1>8. ASSUME NEW th \in Threads, ThreadStart(th) \/ ThreadTrim(th)
      PROVE  UNCHANGED stage
  BY <1>8 DEF ThreadStart, ThreadTrim
<1>9. QuietStep => UNCHANGED stage
  BY QuietFrame DEF Frame
<1>10. QED
  BY <1>1, <1>3, <1>5, <1>6, <1>7, <1>8, <1>9, StepCases

\* Who closes the channel, and that it stays closed.
LEMMA ClosedStays ==
  ASSUME Next
  PROVE  \/ closed' = closed
         \/ closed' /\ \E c \in Cancellers : pc[c] = "forcing"
         \/ closed' /\ ClientDone
<1>1. ASSUME NEW p \in Procs, CancelStore(p) \/ CancelStep(p) \/ NotifyStep(p)
      PROVE  closed' = closed
  BY <1>1 DEF CancelStore, CancelStep, CancelOnce, CancelDrain, CancelDequeue, NotifyStep,
     NotifyCheck, NotifyAim, NotifySend, NotifyMark, NotifyClose
<1>2. ASSUME NEW th \in Threads, LoopStep(th) PROVE closed' = closed
  BY <1>2 DEF LoopStep, ThreadStart, ThreadReceive, ThreadEnd, ThreadBegin, ThreadRan,
     ThreadUncount, ThreadCheckFinished, ThreadResult, ThreadTrim
<1>3. ASSUME NEW c \in Cancellers, CancelForce(c) PROVE closed' /\ pc[c] = "forcing"
  BY <1>3 DEF CancelForce
<1>4. CASE ClientStep
  BY <1>4 DEF ClientStep, ClientReset, ClientRenew, ClientClear, ClientWait, ClientReceive,
     ClientDone
<1>5. QED
  BY <1>1, <1>2, <1>3, <1>4, Steps
  DEF AddTask, AddTaskCount, AddTaskSend, AddTaskPanic, RunStart, RunSpawn, RunSpawned,
      RunReturn, TimerElapse, ResizeStart, ResizeAdd, ResizeAssign, Procs

\* Nothing enters a closed channel.
LEMMA EmptyStays ==
  ASSUME Next, tasks = <<>>, closed
  PROVE  tasks' = <<>>
<1>1. ASSUME NEW th \in Threads, LoopStep(th) PROVE tasks' = tasks
  BY <1>1 DEF LoopStep, ThreadStart, ThreadReceive, ThreadEnd, ThreadBegin, ThreadRan,
     ThreadUncount, ThreadCheckFinished, ThreadResult, ThreadTrim
<1>2. ASSUME NEW p \in Procs,
             CancelStore(p) \/ CancelStep(p) \/ CancelForce(p) \/ NotifyStep(p)
      PROVE  tasks' = tasks
  BY <1>2 DEF CancelStore, CancelStep, CancelOnce, CancelDrain, CancelDequeue, CancelForce,
     NotifyStep, NotifyCheck, NotifyAim, NotifySend, NotifyMark, NotifyClose
<1>3. CASE ClientStep
  BY <1>3 DEF ClientStep, ClientReset, ClientRenew, ClientClear, ClientWait, ClientReceive,
     ClientDone
<1>4. QED
  BY <1>1, <1>2, <1>3, Steps
  DEF AddTask, AddTaskCount, AddTaskSend, AddTaskPanic, RunStart, RunSpawn, RunSpawned,
      RunReturn, TimerElapse, ResizeStart, ResizeAdd, ResizeAssign, Procs

\* Only the client moves the client.
LEMMA ClientMoves ==
  ASSUME Next
  PROVE  UNCHANGED client \/ ClientStep
<1>1. ASSUME NEW th \in Threads, LoopStep(th) PROVE UNCHANGED client
  BY <1>1 DEF LoopStep, ThreadStart, ThreadReceive, ThreadEnd, ThreadBegin, ThreadRan,
     ThreadUncount, ThreadCheckFinished, ThreadResult, ThreadTrim
<1>2. ASSUME NEW p \in Procs,
             CancelStore(p) \/ CancelStep(p) \/ CancelForce(p) \/ NotifyStep(p)
      PROVE  UNCHANGED client
  BY <1>2 DEF CancelStore, CancelStep, CancelOnce, CancelDrain, CancelDequeue, CancelForce,
     NotifyStep, NotifyCheck, NotifyAim, NotifySend, NotifyMark, NotifyClose
<1>3. QED
  BY <1>1, <1>2, Steps
  DEF AddTask, AddTaskCount, AddTaskSend, AddTaskPanic, RunStart, RunSpawn, RunSpawned,
      RunReturn, TimerElapse, ResizeStart, ResizeAdd, ResizeAssign, Procs

\* A worker ends only when the channel is closed and empty.
LEMMA EndMoves ==
  ASSUME TypeOK, Next, NEW th \in Threads, pc'[th] = "ended"
  PROVE  pc[th] = "ended" \/ (tasks = <<>> /\ closed /\ tasks' = tasks /\ closed' = closed)
<1> WorkTypeOK /\ th \in Procs /\ th # Timer /\ \A u \in Threads : u \in Procs
  BY NamesAssumption DEF TypeOK, Procs
<1>1. ASSUME NEW u \in Threads, LoopStep(u)
      PROVE  pc'[th] = pc[th] \/ (tasks = <<>> /\ closed /\ tasks' = tasks /\ closed' = closed)
  <2>1. CASE ThreadEnd(u)
    BY <2>1 DEF ThreadEnd
  <2>2. CASE ~ThreadEnd(u)
    <3>1. \E l \in Labels \ {"ended"} : Goto(u, l)
      BY <1>1, <2>2 DEF LoopStep, ThreadStart, ThreadReceive, ThreadBegin, ThreadRan,
         ThreadUncount, ThreadCheckFinished, ThreadResult, ThreadTrim, Labels, Exits
    <3>2. QED
      BY <3>1 DEF Goto, WorkTypeOK
  <2>3. QED
    BY <2>1, <2>2
<1>2. ASSUME NEW p \in Procs,
             CancelStore(p) \/ CancelStep(p) \/ CancelForce(p) \/ NotifyStep(p)
      PROVE  pc'[th] = pc[th]
  <2>1. \E l \in Labels : Goto(p, l) /\ (l = "ended" => p = Timer)
    BY <1>2 DEF CancelStore, CancelStep, CancelOnce, CancelDrain, CancelDequeue, CancelForce,
       CancelReturn, NotifyStep, NotifyCheck, NotifyAim, NotifySend, NotifyMark, NotifyClose,
       NotifyReturn, Labels, Exits
  <2>2. QED
    BY <2>1 DEF Goto, WorkTypeOK
<1>3. CASE ClientStep
  BY <1>3 DEF ClientStep, ClientReset, ClientRenew, ClientClear, ClientWait, ClientReceive,
     ClientDone
<1>4. CASE RunSpawn \/ ResizeAdd
  <2>1. threadCount \in Procs /\ Goto(threadCount, "starting")
    BY <1>4, AddThreadTypes DEF RunSpawn, ResizeAdd, Procs, TypeOK
  <2>2. QED
    BY <2>1 DEF Goto, WorkTypeOK
<1>5. CASE RunStart \/ TimerElapse
  BY <1>5 DEF RunStart, TimerElapse, Goto, WorkTypeOK
<1>6. QED
  BY <1>1, <1>2, <1>3, <1>4, <1>5, Steps
  DEF AddTask, AddTaskCount, AddTaskSend, AddTaskPanic, RunSpawned, RunReturn, ResizeStart,
      ResizeAssign, Procs

\* Without a cancellation the channel is closed by Done only, which comes after
\* the last call of addTask; so a worker that has ended, and Run when it has
\* returned, leave the channel closed and empty.
ClosedByDone  == closed /\ ~cancel => client.at = "done"
InFlightFirst == client.at # "producing" => InFlight = {}
RefusedLate   == \A t \in TaskNums : stage[t] = "refused" => cancel
EndedLast     == \A th \in Threads : pc[th] = "ended" => closed /\ (cancel \/ tasks = <<>>)
ReturnedLast  == run.at = "returned" => cancel \/ (closed /\ tasks = <<>>)
Conduct       == ClosedByDone /\ InFlightFirst /\ RefusedLate /\ EndedLast /\ ReturnedLast

\* The conduct of the callers at the beginning.
LEMMA InitConduct == Init => Conduct /\ Cancelled
BY NamesAssumption
DEF Init, Conduct, ClosedByDone, InFlightFirst, RefusedLate, EndedLast, ReturnedLast, Cancelled,
    Procs, NotifyPath

\* When Wait returns and nobody has cancelled, some worker has ended.
LEMMA SomeWorkerEnded ==
  ASSUME TypeOK, Workers, Cancelled, RunReturn, ~cancel
  PROVE  \E th \in Threads : pc[th] = "ended"
<1> WorkTypeOK /\ CallTypeOK
  BY DEF TypeOK
<1>1. 1 \in Floor
  <2>1. \A n \in Int : AtLeastOne(n) \in Nat /\ 1 <= AtLeastOne(n)
    BY CounterTypes
  <2>2. QED
    BY <2>1, ConstantsAssumption DEF Floor
<1>2. Pooled >= 1
  <2>1. run.at = "waiting" /\ run.i \in Nat /\ Pooled \in Nat
    BY TallyNat, FiniteDomains DEF RunReturn, CallTypeOK, Pooled
  <2>2. QED
    BY <1>1, <2>1 DEF Workers
<1>3. PICK th \in Threads : pc[th] \in InPool
  <2>1. CASE {th \in Threads : pc[th] \in InPool} = {}
    BY <1>2, <2>1, FS_EmptySet DEF Pooled, Tally
  <2>2. QED
    BY <2>1
<1>4. pc[th] \in {"ended", "stopped"} /\ th \in Procs
  BY <1>3 DEF RunReturn, Live, Exits, InPool, Procs
<1>5. QED
  BY <1>4 DEF Cancelled

\* Every step keeps the conduct.
LEMMA NextConduct ==
  ASSUME TypeOK, Custody, Workers, Cancelled, Conduct, Next
  PROVE  Conduct'
<1> ClosedByDone /\ InFlightFirst /\ RefusedLate /\ EndedLast /\ ReturnedLast
  BY DEF Conduct
<1> CallTypeOK /\ TaskTypeOK /\ WorkTypeOK
  BY DEF TypeOK
<1>c. cancel' = cancel \/ cancel'
  BY CancelStays
<1>d. closed => closed'
  BY ClosedStays
<1>1. ClosedByDone'
  <2>1. CASE closed' = closed
    <3>1. client.at = "done" => client'.at = "done"
      BY ClientMoves DEF ClientStep, ClientReset, ClientRenew, ClientClear, ClientWait,
         ClientReceive, ClientDone, ClientStops
    <3>2. QED
      BY <1>c, <2>1, <3>1 DEF ClosedByDone
  <2>2. CASE \E c \in Cancellers : pc[c] = "forcing"
    BY <1>c, <2>2 DEF Cancelled, ClosedByDone, Procs
  <2>3. CASE ClientDone
    BY <2>3 DEF ClientDone, ClosedByDone, CallTypeOK
  <2>4. QED
    BY <2>1, <2>2, <2>3, ClosedStays
<1>2. InFlightFirst'
  <2>1. SUFFICES ASSUME NEW t \in TaskNums, stage'[t] \in {"passed", "counted"}
                 PROVE  client'.at = "producing"
    BY DEF InFlightFirst, InFlight
  <2>2. CASE stage'[t] = stage[t]
    <3>1. t \in InFlight /\ client.at = "producing"
      BY <2>1, <2>2 DEF InFlight, InFlightFirst
    <3>2. ~ClientStep
      BY <3>1 DEF ClientStep, ClientReset, ClientRenew, ClientClear, ClientWait, ClientReceive,
         ClientDone, ClientStops
    <3>3. QED
      BY <3>1, <3>2, ClientMoves
  <2>3. CASE stage'[t] # stage[t]
    <3>1. UNCHANGED client
          /\ (stage[t] = "passed" \/ client.at = "producing")
      BY <2>1, <2>3, StageMoves
    <3>2. QED
      BY <3>1 DEF InFlight, InFlightFirst
  <2>4. QED
    BY <2>2, <2>3
<1>3. RefusedLate'
  BY <1>c, StageMoves DEF RefusedLate
<1>4. EndedLast'
  <2>1. SUFFICES ASSUME NEW th \in Threads, pc'[th] = "ended"
                 PROVE  closed' /\ (cancel' \/ tasks' = <<>>)
    BY DEF EndedLast
  <2>2. CASE pc[th] = "ended"
    BY <1>c, <1>d, <2>2, EmptyStays DEF EndedLast
  <2>3. CASE pc[th] # "ended"
    BY <2>1, <2>3, EndMoves
  <2>4. QED
    BY <2>2, <2>3
<1>5. ReturnedLast'
  <2>1. CASE RunReturn
    <3>1. CASE cancel
      BY <1>c, <3>1 DEF ReturnedLast
    <3>2. CASE ~cancel
      BY <2>1, <3>2, SomeWorkerEnded DEF RunReturn, EndedLast, ReturnedLast
    <3>3. QED
      BY <3>1, <3>2
  <2>2. CASE run'.at = "returned" => run.at = "returned"
    BY <1>c, <1>d, <2>2, EmptyStays DEF ReturnedLast
  <2>3. CASE run'.at = "returned" /\ run.at # "returned"
    <3>1. run' # run
      BY <2>3
    <3>2. ~RunStart /\ ~RunSpawn /\ ~RunSpawned
      BY <2>3 DEF RunStart, RunSpawn, RunSpawned, CallTypeOK
    <3>3. ~ResizeAdd /\ ~ResizeAssign /\ \A n \in ParallelChoices : ~ResizeStart(n)
      BY <3>1 DEF ResizeAdd, ResizeAssign, ResizeStart
    <3>4. RunReturn
      BY <3>1, <3>2, <3>3, CallFrame
    <3>5. QED
      BY <2>1, <3>4
  <2>4. QED
    BY <2>2, <2>3
<1>6. QED
  BY <1>1, <1>2, <1>3, <1>4, <1>5 DEF Conduct

-----------------------------------------------------------------------------
(* Nothing is forgotten: tasks, errors.                                     *)

\* A task taken from the channel is with a worker until it has run, one that
\* has been sent and not taken is in the channel.
Held ==
  \A t \in TaskNums :
    stage[t] \in {"taken", "running"} =>
      \E th \in Threads : job[th] = t /\ pc[th] \in {"received", "running"}
Waiting ==
  \A t \in TaskNums : stage[t] = "queued" => \E i \in 1 .. Len(tasks) : tasks[i] = t

\* An error that has not been saved is with the worker that will save it; a
\* worker that is stopped has no task any more.
Saving == OnPath \cup {"ran", "finishing", "result"}
Errors ==
  /\ errors \subseteq failed
  /\ \A t \in failed \ errors : \E th \in Threads : job[th] = t /\ pc[th] \in Saving
Relieved ==
  \A th \in Threads :
    /\ pc[th] \in {"cancelling", "once", "draining", "dequeuing"} => job[th] = NoTask
    /\ pc[th] \in NotifyPath /\ job[th] # NoTask => notifierLock = th

\* A receive from the channel leaves the other tasks in it.
LEMMA TailKeeps ==
  ASSUME tasks \in Seq(TaskNums), tasks # <<>>, Waiting, NEW t \in TaskNums, stage[t] = "queued",
         t # Head(tasks)
  PROVE  \E i \in 1 .. Len(Tail(tasks)) : Tail(tasks)[i] = t
<1>1. PICK i \in 1 .. Len(tasks) : tasks[i] = t
  BY DEF Waiting
<1>2. /\ Len(tasks) \in Nat /\ Head(tasks) = tasks[1] /\ Len(Tail(tasks)) = Len(tasks) - 1
      /\ \A j \in 1 .. Len(Tail(tasks)) : Tail(tasks)[j] = tasks[j + 1]
  BY HeadTailProperties, LenProperties
<1>3. i - 1 \in 1 .. Len(Tail(tasks))
  BY <1>1, <1>2
<1>4. QED
  BY <1>1, <1>2, <1>3

\* Every step hands a task on, or has done with it.
LEMMA NextHeld ==
  ASSUME TypeOK, Custody, Held, Waiting, Next
  PROVE  Held' /\ Waiting'
<1> TaskTypeOK /\ WorkTypeOK /\ CountTypeOK
  BY DEF TypeOK
<1> /\ TaskNumbering /\ ThreadNumbering /\ QueueCustody /\ JobCustody
    /\ \A th \in Threads : th \in Procs
  BY DEF Custody, Procs
<1>a. ASSUME NEW p \in Procs, NEW l, Goto(p, l), pc[p] \notin {"received", "running"},
             \A u \in Threads : u # p => job'[u] = job[u],
             NEW t \in TaskNums, stage[t] \in {"taken", "running"}
      PROVE  \E th \in Threads : job'[th] = t /\ pc'[th] \in {"received", "running"}
  <2>1. PICK th \in Threads : job[th] = t /\ pc[th] \in {"received", "running"}
    BY <1>a DEF Held
  <2>2. QED
    BY <1>a, <2>1 DEF Goto, WorkTypeOK
<1>1. CASE AddTask
  <2>1. \A t \in TaskNums : stage'[t] = stage[t] \/ stage'[t] \in {"refused", "passed"}
    BY <1>1 DEF AddTask, Stage, TaskTypeOK
  <2>2. UNCHANGED <<tasks, pc, job>>
    BY <1>1 DEF AddTask
  <2>3. QED
    BY <2>1, <2>2 DEF Held, Waiting
<1>2. ASSUME NEW u \in TaskNums, AddTaskCount(u) \/ AddTaskPanic(u) PROVE Held' /\ Waiting'
  <2>1. \A t \in TaskNums : stage'[t] = stage[t] \/ stage'[t] \in {"counted", "panicked"}
    BY <1>2 DEF AddTaskCount, AddTaskPanic, Stage, TaskTypeOK
  <2>2. UNCHANGED <<tasks, pc, job>>
    BY <1>2 DEF AddTaskCount, AddTaskPanic
  <2>3. QED
    BY <2>1, <2>2 DEF Held, Waiting
<1>3. ASSUME NEW u \in TaskNums, AddTaskSend(u) PROVE Held' /\ Waiting'
  <2>1. /\ stage'[u] = "queued" /\ \A t \in TaskNums : t # u => stage'[t] = stage[t]
        /\ tasks' = Append(tasks, u) /\ UNCHANGED <<pc, job>>
    BY <1>3 DEF AddTaskSend, Stage, TaskTypeOK
  <2>2. /\ Len(tasks) \in Nat /\ Len(tasks') = Len(tasks) + 1
        /\ \A i \in 1 .. Len(tasks) : tasks'[i] = tasks[i]
        /\ tasks'[Len(tasks) + 1] = u
    BY <2>1, AppendProperties, LenProperties
  <2>3. Waiting'
    <3>1. SUFFICES ASSUME NEW t \in TaskNums, stage'[t] = "queued"
                   PROVE  \E i \in 1 .. Len(tasks') : tasks'[i] = t
      BY DEF Waiting
    <3>2. CASE t = u
      BY <2>2, <3>2
    <3>3. CASE t # u
      <4>1. PICK i \in 1 .. Len(tasks) : tasks[i] = t
        BY <2>1, <3>1, <3>3 DEF Waiting
      <4>2. QED
        BY <2>2, <4>1
    <3>4. QED
      BY <3>2, <3>3
  <2>4. Held'
    BY <2>1 DEF Held
  <2>5. QED
    BY <2>3, <2>4
<1>4. ASSUME NEW th \in Threads, ThreadReceive(th) PROVE Held' /\ Waiting'
  <2>1. Head(tasks) \in TaskNums /\ tasks # <<>> /\ tasks' = Tail(tasks)
    BY <1>4, QueueTypes DEF ThreadReceive, TaskTypeOK
  <2>2. /\ stage'[Head(tasks)] = "taken"
        /\ \A t \in TaskNums : t # Head(tasks) => stage'[t] = stage[t]
        /\ job'[th] = Head(tasks) /\ \A u \in Threads : u # th => job'[u] = job[u]
        /\ pc'[th] = "received" /\ Goto(th, "received") /\ pc[th] = "receiving"
    BY <1>4, <2>1 DEF ThreadReceive, Stage, Goto, TaskTypeOK, WorkTypeOK
  <2>3. Held'
    BY <1>a, <2>2 DEF Held
  <2>4. Waiting'
    BY <2>1, <2>2, TailKeeps DEF Waiting, TaskTypeOK
  <2>5. QED
    BY <2>3, <2>4
<1>5. ASSUME NEW p \in Procs, CancelDequeue(p) PROVE Held' /\ Waiting'
  <2>1. pc[p] = "dequeuing" /\ Goto(p, "draining") /\ UNCHANGED job
    BY <1>5 DEF CancelDequeue
  <2>2. CASE tasks # <<>>
    <3>1. Head(tasks) \in TaskNums /\ tasks' = Tail(tasks)
      BY <1>5, <2>2, QueueTypes DEF CancelDequeue, TaskTypeOK
    <3>2. /\ stage'[Head(tasks)] = "dropped"
          /\ \A t \in TaskNums : t # Head(tasks) => stage'[t] = stage[t]
      BY <1>5, <2>2, <3>1 DEF CancelDequeue, Stage, TaskTypeOK
    <3>3. Held'
      BY <1>a, <2>1, <3>2 DEF Held
    <3>4. Waiting'
      BY <2>2, <3>1, <3>2, TailKeeps DEF Waiting, TaskTypeOK
    <3>5. QED
      BY <3>3, <3>4
  <2>3. CASE tasks = <<>>
    <3>1. UNCHANGED <<tasks, stage>>
      BY <1>5, <2>3 DEF CancelDequeue
    <3>2. QED
      BY <1>a, <2>1, <3>1 DEF Held, Waiting
  <2>4. QED
    BY <2>2, <2>3
<1>6. ASSUME NEW th \in Threads, ThreadBegin(th) PROVE Held' /\ Waiting'
  <2>1. /\ job[th] \in TaskNums /\ stage[job[th]] = "taken" /\ UNCHANGED <<job, tasks>>
        /\ pc'[th] = "running" /\ \A u \in Threads : u # th => pc'[u] = pc[u]
        /\ stage'[job[th]] = "running"
        /\ \A t \in TaskNums : t # job[th] => stage'[t] = stage[t]
    BY <1>6 DEF ThreadBegin, Goto, Stage, TaskTypeOK, WorkTypeOK, JobCustody, Busy
  <2>2. QED
    BY <2>1 DEF Held, Waiting
<1>7. ASSUME NEW th \in Threads, ThreadRan(th) \/ ThreadUncount(th) PROVE Held' /\ Waiting'
  <2>1. /\ job[th] \in TaskNums /\ UNCHANGED <<job, tasks>> /\ pc[th] \in {"running", "ran"}
        /\ \A u \in Threads : u # th => pc'[u] = pc[u]
        /\ stage'[job[th]] \in {"ran", "done"}
        /\ \A t \in TaskNums : t # job[th] => stage'[t] = stage[t]
    BY <1>7 DEF ThreadRan, ThreadUncount, Goto, Stage, TaskTypeOK, WorkTypeOK, JobCustody, Busy
  <2>2. Held'
    BY <2>1 DEF Held
  <2>3. Waiting'
    BY <2>1 DEF Waiting
  <2>4. QED
    BY <2>2, <2>3
<1>8. ASSUME NEW th \in Threads, ThreadStart(th) \/ ThreadTrim(th) PROVE Held' /\ Waiting'
  <2>1. /\ pc[th] \in {"starting", "trimming"} /\ (\E l : Goto(th, l))
        /\ UNCHANGED <<stage, tasks, job>>
    BY <1>8 DEF ThreadStart, ThreadTrim
  <2>2. QED
    BY <1>a, <2>1 DEF Held, Waiting
<1>9. CASE QuietStep
  <2>1. Frame
    BY <1>9, QuietFrame
  <2>2. QED
    BY <2>1 DEF Frame, Undisturbed, Busy, Held, Waiting
<1>10. QED
  BY StepCases, <1>1, <1>2, <1>3, <1>4, <1>5, <1>6, <1>7, <1>8, <1>9

\* A worker loses its task when it looks at the result, never on the way to
\* the notification, which it takes only with the lock.
LEMMA NextRelieved ==
  ASSUME TypeOK, Locks, Relieved, Next
  PROVE  Relieved'
<1> /\ WorkTypeOK /\ Timer \in Procs /\ Timer \notin Threads /\ NoProc \notin Procs
    /\ \A th \in Threads : th \in Procs
  BY NamesAssumption DEF TypeOK, Procs
<1> DEFINE inside == {"cancelling", "once", "draining", "dequeuing"}
<1>a. ASSUME NEW p \in Procs, NEW l, Goto(p, l),
             notifierLock' = notifierLock \/ notifierLock \notin Procs \/ notifierLock = p,
             \A u \in Threads : u # p => job'[u] = job[u],
             p \in Threads /\ l \in inside => job'[p] = NoTask,
             p \in Threads /\ l \in NotifyPath /\ job'[p] # NoTask => notifierLock' = p
      PROVE  Relieved'
  <2>1. pc'[p] = l /\ \A u \in Threads : u # p => pc'[u] = pc[u]
    BY <1>a DEF Goto, WorkTypeOK
  <2>2. QED
    BY <1>a, <2>1 DEF Relieved
<1>b. ASSUME UNCHANGED <<pc, job>>, notifierLock' = notifierLock \/ notifierLock \notin Procs
      PROVE  Relieved'
  BY <1>b DEF Relieved
<1>1. CASE \/ AddTask \/ RunSpawned \/ RunReturn \/ ResizeAssign
           \/ \E n \in ParallelChoices : ResizeStart(n)
           \/ \E t \in TaskNums : AddTaskCount(t) \/ AddTaskSend(t) \/ AddTaskPanic(t)
  BY <1>b, <1>1 DEF AddTask, AddTaskCount, AddTaskSend, AddTaskPanic, RunSpawned, RunReturn,
     ResizeStart, ResizeAssign
<1>2. CASE ClientStep
  <2>1. UNCHANGED <<pc, job>> /\ (notifierLock' = notifierLock \/ notifierLock \in {NoProc, Client})
    BY <1>2 DEF ClientStep, ClientReset, ClientRenew, ClientClear, ClientWait, ClientReceive,
       ClientDone, Locks
  <2>2. QED
    BY <1>b, <2>1, NamesAssumption
<1>3. CASE RunSpawn \/ ResizeAdd
  <2>1. threadCount \in Threads /\ Goto(threadCount, "starting") /\ UNCHANGED <<job, notifierLock>>
    BY <1>3, AddThreadTypes DEF RunSpawn, ResizeAdd, TypeOK
  <2>2. QED
    BY <1>a, <2>1 DEF NotifyPath
<1>4. CASE RunStart \/ TimerElapse
  <2>1. UNCHANGED <<job, notifierLock>> /\ (UNCHANGED pc \/ \E l : Goto(Timer, l))
    <3>1. CASE RunStart
      BY <3>1 DEF RunStart
    <3>2. CASE TimerElapse
      BY <3>2 DEF TimerElapse
    <3>3. QED
      BY <1>4, <3>1, <3>2
  <2>2. QED
    BY <1>a, <1>b, <2>1
<1>5. ASSUME NEW th \in Threads, LoopStep(th) PROVE Relieved'
  <2>1. \A u \in Threads : u # th => job'[u] = job[u]
    BY <1>5 DEF LoopStep, ThreadStart, ThreadReceive, ThreadEnd, ThreadBegin, ThreadRan,
       ThreadUncount, ThreadCheckFinished, ThreadResult, ThreadTrim, WorkTypeOK
  <2>2. CASE ThreadCheckFinished(th)
    BY <1>a, <2>1, <2>2 DEF ThreadCheckFinished, NotifyPath
  <2>3. CASE ThreadResult(th)
    <3>1. job'[th] = NoTask /\ UNCHANGED notifierLock /\ \E l : Goto(th, l)
      BY <2>3 DEF ThreadResult, WorkTypeOK
    <3>2. QED
      BY <1>a, <2>1, <3>1
  <2>4. CASE ~ThreadCheckFinished(th) /\ ~ThreadResult(th)
    <3>1. UNCHANGED notifierLock
      BY <1>5, <2>4 DEF LoopStep, ThreadStart, ThreadReceive, ThreadEnd, ThreadBegin, ThreadRan,
         ThreadUncount, ThreadTrim
    <3>2. \E l \in Labels \ (inside \cup NotifyPath) : Goto(th, l)
      BY <1>5, <2>4 DEF LoopStep, ThreadStart, ThreadReceive, ThreadEnd, ThreadBegin, ThreadRan,
         ThreadUncount, ThreadTrim, Labels, Exits, NotifyPath
    <3>3. QED
      BY <1>a, <2>1, <3>1, <3>2
  <2>5. QED
    BY <2>2, <2>3, <2>4
<1>6. ASSUME NEW p \in Procs, CancelStore(p) \/ CancelStep(p) PROVE Relieved'
  <2>1. UNCHANGED <<job, notifierLock>> /\ \E l : Goto(p, l)
    BY <1>6 DEF CancelStore, CancelStep, CancelOnce, CancelDrain, CancelDequeue, CancelReturn
  <2>2. p \in Threads => pc[p] \in inside
    BY <1>6, NamesAssumption DEF CancelStore, CancelStep, CancelOnce, CancelDrain, CancelDequeue
  <2>3. p \in Threads => job[p] = NoTask
    BY <2>2 DEF Relieved
  <2>4. QED
    BY <1>a, <2>1, <2>3
<1>c. ASSUME NEW c \in Cancellers, CancelForce(c) PROVE Relieved'
  <2>1. UNCHANGED <<job, notifierLock>> /\ Goto(c, "once") /\ c \in Procs /\ c \notin Threads
    BY <1>c, NamesAssumption DEF CancelForce, Procs
  <2>2. QED
    BY <1>a, <2>1
<1>7. ASSUME NEW p \in Procs, NotifyStep(p) PROVE Relieved'
  <2>0. UNCHANGED job /\ pc[p] \in NotifyPath
    BY <1>7 DEF NotifyStep, NotifyCheck, NotifyAim, NotifySend, NotifyMark, NotifyClose, NotifyPath
  <2>1. CASE NotifyReturn(p)
    <3>1. notifierLock' = notifierLock \/ notifierLock = p
      BY <2>1 DEF NotifyReturn
    <3>2. \E l \in {"result", "ended", "stopped", "returned"} : Goto(p, l)
      BY <2>1 DEF NotifyReturn, CancelReturn
    <3>3. QED
      BY <1>a, <2>0, <3>1, <3>2 DEF NotifyPath
  <2>2. CASE ~NotifyReturn(p)
    <3>1. UNCHANGED notifierLock /\ \E l \in OnPath : Goto(p, l)
      BY <1>7, <2>2 DEF NotifyStep, NotifyCheck, NotifyAim, NotifySend, NotifyMark, NotifyClose,
         NotifyPath, OnPath
    <3>2. p \in Threads /\ job'[p] # NoTask => notifierLock' = p
      BY <2>0, <3>1 DEF Relieved
    <3>3. QED
      BY <1>a, <2>0, <3>1, <3>2 DEF OnPath, NotifyPath
  <2>3. QED
    BY <2>1, <2>2
<1>8. QED
  BY <1>1, <1>2, <1>3, <1>4, <1>5, <1>6, <1>c, <1>7, Steps DEF Procs

\* An error that has not been saved stays with the worker that will save it.
LEMMA NextErrors ==
  ASSUME TypeOK, ThreadNumbering, Locks, Relieved, Errors, JobCustody, Next
  PROVE  Errors'
<1> /\ WorkTypeOK /\ TaskTypeOK /\ Timer \in Procs /\ Timer \notin Threads
    /\ NoTask \notin TaskNums /\ \A th \in Threads : th \in Procs
  BY NamesAssumption DEF TypeOK, Procs
<1>a. ASSUME NEW p \in Procs, NEW l, Goto(p, l), UNCHANGED <<errors, failed>>,
             \A u \in Threads : u # p => job'[u] = job[u],
             p \in Threads /\ pc[p] \in Saving /\ job[p] # NoTask
               => l \in Saving /\ job'[p] = job[p]
      PROVE  Errors'
  <2>1. pc'[p] = l /\ \A u \in Threads : u # p => pc'[u] = pc[u]
    BY <1>a DEF Goto, WorkTypeOK
  <2>2. ASSUME NEW t \in failed \ errors
        PROVE  \E th \in Threads : job'[th] = t /\ pc'[th] \in Saving
    <3>1. PICK th \in Threads : job[th] = t /\ pc[th] \in Saving
      BY DEF Errors
    <3>2. t # NoTask
      BY DEF TaskTypeOK
    <3>3. QED
      BY <1>a, <2>1, <3>1, <3>2
  <2>3. QED
    BY <1>a, <2>2 DEF Errors
<1>b. ASSUME UNCHANGED <<pc, job, errors, failed>>
      PROVE  Errors'
  BY <1>b DEF Errors
<1>1. CASE \/ AddTask \/ RunSpawned \/ RunReturn \/ ResizeAssign \/ ClientStep
           \/ \E n \in ParallelChoices : ResizeStart(n)
           \/ \E t \in TaskNums : AddTaskCount(t) \/ AddTaskSend(t) \/ AddTaskPanic(t)
  <2>1. UNCHANGED <<pc, job, errors, failed>>
    BY <1>1 DEF AddTask, AddTaskCount, AddTaskSend, AddTaskPanic, RunSpawned, RunReturn,
       ResizeStart, ResizeAssign, ClientStep, ClientReset, ClientRenew, ClientClear, ClientWait,
       ClientReceive, ClientDone
  <2>2. QED
    BY <1>b, <2>1
<1>2. CASE RunSpawn \/ ResizeAdd
  <2>1. /\ threadCount \in Threads /\ Goto(threadCount, "starting")
        /\ UNCHANGED <<job, errors, failed>> /\ pc[threadCount] = "unborn"
    BY <1>2, AddThreadTypes
    DEF RunSpawn, ResizeAdd, TypeOK, CountTypeOK, ThreadNumbering, Threads
  <2>2. QED
    BY <1>a, <2>1 DEF Saving, OnPath, NotifyPath
<1>3. CASE RunStart \/ TimerElapse
  <2>1. UNCHANGED <<job, errors, failed>> /\ (UNCHANGED pc \/ \E l : Goto(Timer, l))
    <3>1. CASE RunStart
      BY <3>1 DEF RunStart
    <3>2. CASE TimerElapse
      BY <3>2 DEF TimerElapse
    <3>3. QED
      BY <1>3, <3>1, <3>2
  <2>2. QED
    BY <1>a, <1>b, <2>1
<1>4. ASSUME NEW th \in Threads, ThreadRan(th) PROVE Errors'
  <2>1. /\ failed' \in {failed, failed \cup {job[th]}} /\ UNCHANGED <<errors, job>>
        /\ pc[th] = "running" /\ pc'[th] = "ran" /\ \A u \in Threads : u # th => pc'[u] = pc[u]
    BY <1>4 DEF ThreadRan, Goto, WorkTypeOK
  <2>2. pc'[th] \in Saving /\ pc[th] \notin Saving
    BY <2>1 DEF Saving, OnPath, NotifyPath
  <2>3. QED
    BY <2>1, <2>2 DEF Errors
<1>5. ASSUME NEW th \in Threads, ThreadResult(th) PROVE Errors'
  <2>1. /\ UNCHANGED failed
        /\ errors' = IF job[th] \in failed THEN errors \cup {job[th]} ELSE errors
        /\ \A u \in Threads : u # th => pc'[u] = pc[u] /\ job'[u] = job[u]
    BY <1>5 DEF ThreadResult, Goto, WorkTypeOK
  <2>2. QED
    BY <2>1 DEF Errors
<1>6. ASSUME NEW th \in Threads, LoopStep(th), ~ThreadRan(th), ~ThreadResult(th) PROVE Errors'
  <2>1. UNCHANGED <<errors, failed>>
    BY <1>6 DEF LoopStep, ThreadStart, ThreadReceive, ThreadEnd, ThreadBegin, ThreadUncount,
       ThreadCheckFinished, ThreadTrim
  <2>2. \A u \in Threads : u # th => job'[u] = job[u]
    BY <1>6 DEF LoopStep, ThreadStart, ThreadReceive, ThreadEnd, ThreadBegin, ThreadUncount,
       ThreadCheckFinished, ThreadTrim, WorkTypeOK
  <2>3. CASE ThreadUncount(th) \/ ThreadCheckFinished(th)
    <3>1. UNCHANGED job /\ \E l \in {"finishing", "result", "checking"} : Goto(th, l)
      BY <2>3 DEF ThreadUncount, ThreadCheckFinished
    <3>2. QED
      BY <1>a, <2>1, <3>1 DEF Saving, OnPath, NotifyPath
  <2>4. CASE ~ThreadUncount(th) /\ ~ThreadCheckFinished(th)
    <3>1. pc[th] \notin Saving /\ \E l : Goto(th, l)
      BY <1>6, <2>4 DEF LoopStep, ThreadStart, ThreadReceive, ThreadEnd, ThreadBegin, ThreadTrim,
         Saving, OnPath, NotifyPath
    <3>2. QED
      BY <1>a, <2>1, <2>2, <3>1
  <2>5. QED
    BY <2>3, <2>4
<1>7. ASSUME NEW p \in Procs, CancelStore(p) \/ CancelStep(p) \/ CancelForce(p) PROVE Errors'
  <2>1. UNCHANGED <<job, errors, failed>> /\ \E l : Goto(p, l)
    BY <1>7 DEF CancelStore, CancelStep, CancelOnce, CancelDrain, CancelDequeue, CancelForce,
       CancelReturn
  <2>2. pc[p] \notin Saving
    BY <1>7 DEF CancelStore, CancelStep, CancelOnce, CancelDrain, CancelDequeue, CancelForce,
       Saving, OnPath, NotifyPath
  <2>3. QED
    BY <1>a, <2>1, <2>2
<1>8. ASSUME NEW p \in Procs, NotifyStep(p) PROVE Errors'
  <2>1. UNCHANGED <<job, errors, failed>> /\ pc[p] \in NotifyPath
    BY <1>8 DEF NotifyStep, NotifyCheck, NotifyAim, NotifySend, NotifyMark, NotifyClose, NotifyPath
  <2>2. CASE NotifyReturn(p)
    <3>1. p \in Threads /\ job[p] # NoTask => Goto(p, "result")
      BY <2>1, <2>2 DEF NotifyReturn, Relieved
    <3>2. \E l : Goto(p, l)
      BY <2>2 DEF NotifyReturn, CancelReturn
    <3>3. CASE p \in Threads /\ job[p] # NoTask
      BY <1>a, <2>1, <3>1, <3>3 DEF Saving
    <3>4. CASE ~(p \in Threads /\ job[p] # NoTask)
      BY <1>a, <2>1, <3>2, <3>4
    <3>5. QED
      BY <3>3, <3>4
  <2>3. CASE ~NotifyReturn(p)
    <3>1. \E l \in OnPath : Goto(p, l)
      BY <1>8, <2>3 DEF NotifyStep, NotifyCheck, NotifyAim, NotifySend, NotifyMark, NotifyClose,
         NotifyPath, OnPath
    <3>2. QED
      BY <1>a, <2>1, <3>1 DEF Saving
  <2>4. QED
    BY <2>2, <2>3
<1>9. QED
  BY <1>1, <1>2, <1>3, <1>4, <1>5, <1>6, <1>7, <1>8, Steps DEF Procs

-----------------------------------------------------------------------------
(* The invariant that carries the theorems below.                           *)

PoolInv ==
  /\ IInv /\ Workers /\ TimerIdle /\ Locks /\ Cancelled /\ Conduct
  /\ Held /\ Waiting /\ Errors /\ Relieved

\* It holds at the beginning ...
LEMMA InitPoolInv == Init => PoolInv
<1> SUFFICES ASSUME Init PROVE PoolInv
  OBVIOUS
<1>1. IInv
  BY InitTypes, InitCustody, InitCounters
  DEF IInv, CounterAccounting, TotalOK, ActiveOK, OpenOK
<1>2. Held /\ Waiting
  BY DEF Init, Held, Waiting
<1>3. Errors /\ Relieved
  <2>1. \A th \in Threads : pc[th] = "unborn"
    BY NamesAssumption DEF Init, Procs
  <2>2. QED
    BY <2>1 DEF Init, Errors, Relieved, NotifyPath
<1>4. QED
  BY <1>1, <1>2, <1>3, InitWorkers, InitLocks, InitConduct DEF PoolInv

\* ... and every step keeps it.
LEMMA NextPoolInv == PoolInv /\ [Next]_vars => PoolInv'
<1>1. ASSUME PoolInv, Next PROVE PoolInv'
  <2>1. TypeOK /\ Custody /\ CounterAccounting /\ ThreadNumbering /\ JobCustody
    BY <1>1 DEF PoolInv, IInv, Custody
  <2>2. IInv'
    BY <1>1, <2>1, NextTypes, NextCustody, NextCounters DEF IInv
  <2>3. Workers' /\ TimerIdle' /\ Locks' /\ Cancelled' /\ Conduct'
    BY <1>1, <2>1, NextWorkers, NextTimerIdle, NextLocks, NextCancelled, NextConduct DEF PoolInv
  <2>4. Held' /\ Waiting' /\ Errors' /\ Relieved'
    BY <1>1, <2>1, NextHeld, NextErrors, NextRelieved DEF PoolInv
  <2>5. QED
    BY <2>2, <2>3, <2>4 DEF PoolInv
<1>2. ASSUME PoolInv, UNCHANGED vars PROVE PoolInv'
  <2>0. /\ UNCHANGED <<taskId, stage, failed, tasks, totalTasksInQueue, errors>>
        /\ UNCHANGED <<closed, cancel, cancelOnce>>
        /\ UNCHANGED <<threadCount, openThreads, activeThreads, started, maxParallel>>
        /\ UNCHANGED <<notifier, chan, notifierClosed, notifierLock, target>>
        /\ UNCHANGED <<run, resizer, client, pc, job>>
    BY <1>2 DEF vars
  <2>1. IInv'
    <3>1. TypeOK'
      BY <1>2, NextTypes DEF PoolInv, IInv
    <3>2. Custody' /\ CounterAccounting'
      BY <1>2, <2>0 DEF PoolInv, IInv, Custody, TaskNumbering, ThreadNumbering, QueueCustody,
         JobCustody, CounterAccounting
    <3>3. QED
      BY <3>1, <3>2 DEF IInv
  <2>2. Workers' /\ TimerIdle' /\ Locks' /\ Cancelled'
    BY <1>2, <2>0 DEF PoolInv, Workers, Pooled, TimerIdle, Locks, Cancelled
  <2>3. Conduct'
    BY <1>2, <2>0 DEF PoolInv, Conduct, ClosedByDone, InFlightFirst, InFlight, RefusedLate,
       EndedLast, ReturnedLast
  <2>4. Held' /\ Waiting' /\ Errors' /\ Relieved'
    BY <1>2, <2>0 DEF PoolInv, Held, Waiting, Errors, Relieved
  <2>5. QED
    BY <2>1, <2>2, <2>3, <2>4 DEF PoolInv
<1>3. QED
  BY <1>1, <1>2

\* So it holds always.
LEMMA PoolInvariant == Spec => []PoolInv
BY InitPoolInv, NextPoolInv, PTL DEF Spec

\* While tasks may still come the runner has as many workers as the smallest
\* parallelism it was ever asked for, however SetMaxParallel, Run and the
\* section that trims threads interleave.
THEOREM KeepsWorkersAlways == Spec => []KeepsWorkers
<1>1. ASSUME PoolInv PROVE KeepsWorkers
  <2>1. SUFFICES ASSUME run.at = "waiting", ~closed, ~cancel, NEW n \in Floor
                 PROVE  Cardinality(Live) >= n
    BY DEF KeepsWorkers, Floor
  <2>2. TypeOK /\ WorkTypeOK /\ Workers /\ Cancelled /\ EndedLast
    BY <1>1 DEF PoolInv, IInv, TypeOK, Conduct
  <2>3. Live = {th \in Threads : pc[th] \in InPool}
    <3>1. \A th \in Threads : pc[th] \notin {"ended", "stopped"} /\ pc[th] \in Labels
      BY <2>1, <2>2 DEF EndedLast, Cancelled, WorkTypeOK, Procs
    <3>2. QED
      BY <3>1 DEF Live, InPool, Exits
  <2>4. Pooled \in Nat /\ run.i \in Nat /\ n \in Nat
    <3>1. Pooled \in Nat
      BY TallyNat, FiniteDomains DEF Pooled
    <3>2. AtLeastOne(InitialParallel) \in Nat
      BY CounterTypes, ConstantsAssumption
    <3>3. n \in Nat
      BY <3>2 DEF Floor
    <3>4. run.i \in Nat
      BY <2>2 DEF TypeOK, CallTypeOK
    <3>5. QED
      BY <3>1, <3>3, <3>4
  <2>5. Pooled >= n
    BY <2>1, <2>2, <2>4 DEF Workers
  <2>6. QED
    BY <2>3, <2>5 DEF Pooled, Tally
<1>2. QED
  BY <1>1, PoolInvariant, PTL

-----------------------------------------------------------------------------
(* The refinement of TaskPool.                                              *)

Lives == [t \in TaskNums |-> Life(t)]

\* A task that moves alone moves in the pool; one that changes its stage but
\* not its life does not.
LEMMA LifeMoves ==
  ASSUME NEW t \in TaskNums, \A u \in TaskNums : u # t => stage'[u] = stage[u],
         NEW from, NEW to, Life(t) = from, Life(t)' = to
  PROVE  Pool!Move(t, from, to)
<1>1. \A u \in TaskNums : u # t => Life(u)' = Life(u)
  BY DEF Life
<1>2. Lives[t] = from /\ Lives' = [Lives EXCEPT ![t] = to]
  BY <1>1 DEF Lives
<1>3. QED
  BY <1>2 DEF Pool!Move, Lives

\* Runner keeps the state of the pool unless it does one of these.
LEMMA PoolStutters ==
  ASSUME TypeOK, Custody, Next, ~AddTask, ~RunReturn,
         \A th \in Threads : ~ThreadReceive(th) /\ ~ThreadRan(th) /\ ~ThreadResult(th),
         \A p \in Procs : ~CancelStore(p) /\ ~CancelDequeue(p)
  PROVE  UNCHANGED Pool!poolVars
<1> TaskTypeOK /\ CallTypeOK /\ JobCustody /\ ThreadNumbering
  BY DEF TypeOK, Custody
<1>1. Lives' = Lives
  <2>1. \A t \in TaskNums : Life(t)' = Life(t)
    <3>1. ASSUME NEW t \in TaskNums, AddTaskCount(t) \/ AddTaskSend(t) \/ AddTaskPanic(t),
                 NEW u \in TaskNums
          PROVE  Life(u)' = Life(u)
      BY <3>1 DEF AddTaskCount, AddTaskSend, AddTaskPanic, Stage, Life, TaskTypeOK
    <3>2. ASSUME NEW th \in Threads, ThreadBegin(th) \/ ThreadUncount(th), NEW u \in TaskNums
          PROVE  Life(u)' = Life(u)
      BY <3>2 DEF ThreadBegin, ThreadUncount, Stage, Life, TaskTypeOK, JobCustody, Busy
    <3>3. ASSUME NEW th \in Threads, ThreadStart(th) \/ ThreadTrim(th)
          PROVE  UNCHANGED stage
      BY <3>3 DEF ThreadStart, ThreadTrim
    <3>4. QuietStep => UNCHANGED stage
      BY QuietFrame DEF Frame
    <3>5. UNCHANGED stage => \A u \in TaskNums : Life(u)' = Life(u)
      BY DEF Life
    <3>6. QED
      BY <3>1, <3>2, <3>3, <3>4, <3>5, StepCases
  <2>2. QED
    BY <2>1 DEF Lives
<1>2. UNCHANGED <<failed, errors, cancel>>
  <2>1. ASSUME NEW th \in Threads, LoopStep(th) PROVE UNCHANGED <<failed, errors, cancel>>
    BY <2>1 DEF LoopStep, ThreadStart, ThreadEnd, ThreadBegin, ThreadUncount,
       ThreadCheckFinished, ThreadTrim
  <2>2. ASSUME NEW p \in Procs, CancelStep(p) \/ CancelForce(p) \/ NotifyStep(p)
        PROVE  UNCHANGED <<failed, errors, cancel>>
    BY <2>2 DEF CancelStep, CancelOnce, CancelDrain, CancelForce, NotifyStep, NotifyCheck,
       NotifyAim, NotifySend, NotifyMark, NotifyClose
  <2>3. CASE ClientStep
    BY <2>3 DEF ClientStep, ClientReset, ClientRenew, ClientClear, ClientWait, ClientReceive,
       ClientDone
  <2>4. QED
    BY <2>1, <2>2, <2>3, Steps
    DEF AddTaskCount, AddTaskSend, AddTaskPanic, RunStart, RunSpawn, RunSpawned, TimerElapse,
        ResizeStart, ResizeAdd, ResizeAssign, Procs
<1>3. (run.at = "returned")' = (run.at = "returned")
  <2>1. CASE RunStart \/ RunSpawn \/ RunSpawned
    BY <2>1 DEF RunStart, RunSpawn, RunSpawned, CallTypeOK
  <2>2. CASE ResizeAdd \/ ResizeAssign \/ \E n \in ParallelChoices : ResizeStart(n)
    BY <2>2 DEF ResizeAdd, ResizeAssign, ResizeStart
  <2>3. QED
    BY <2>1, <2>2, CallFrame
<1>4. QED
  BY <1>1, <1>2, <1>3 DEF Pool!poolVars, Lives

\* The other steps are steps of the pool.
LEMMA PoolSteps == PoolInv /\ [Next]_vars => [Pool!Next]_(Pool!poolVars)
<1> SUFFICES ASSUME PoolInv, [Next]_vars PROVE [Pool!Next]_(Pool!poolVars)
  OBVIOUS
<1> /\ TypeOK /\ Custody /\ TaskTypeOK /\ WorkTypeOK /\ TaskNumbering /\ JobCustody
    /\ Conduct /\ Held /\ Waiting /\ Errors /\ Cancelled /\ QueueCustody
  BY DEF PoolInv, IInv, TypeOK, Custody
<1>h. ASSUME tasks # <<>>
      PROVE  Head(tasks) \in TaskNums /\ stage[Head(tasks)] = "queued"
  <2>1. Len(tasks) \in Nat /\ Len(tasks) >= 1
    BY <1>h, EmptySeq, LenProperties DEF TaskTypeOK
  <2>2. Head(tasks) = tasks[1] /\ Head(tasks) \in TaskNums
    BY <1>h, HeadTailProperties DEF TaskTypeOK
  <2>3. QED
    BY <2>1, <2>2 DEF QueueCustody
<1>0. CASE UNCHANGED vars
  <2>1. UNCHANGED <<stage, failed, errors, cancel, run>>
    BY <1>0 DEF vars
  <2>2. QED
    BY <2>1 DEF Pool!poolVars, Life
<1>1. CASE AddTask
  <2>1. taskId \in TaskNums /\ stage[taskId] = "unborn"
    BY <1>1, ConstantsAssumption DEF AddTask, TaskNums, TaskTypeOK, TaskNumbering
  <2>2. /\ stage'[taskId] = IF cancel THEN "refused" ELSE "passed"
        /\ \A u \in TaskNums : u # taskId => stage'[u] = stage[u]
        /\ UNCHANGED <<failed, errors, cancel, run>>
    BY <1>1, <2>1 DEF AddTask, Stage, TaskTypeOK
  <2>3. CASE cancel
    <3>1. Pool!Move(taskId, "new", "refused")
      BY <2>1, <2>2, <2>3, LifeMoves DEF Life
    <3>2. Pool!Refuse(taskId)
      BY <2>2, <2>3, <3>1 DEF Pool!Refuse
    <3>3. QED
      BY <2>1, <3>2 DEF Pool!Next
  <2>4. CASE ~cancel
    <3>1. Pool!Move(taskId, "new", "accepted")
      BY <2>1, <2>2, <2>4, LifeMoves DEF Life
    <3>2. Pool!Accept(taskId)
      BY <2>2, <2>4, <3>1 DEF Pool!Accept
    <3>3. QED
      BY <2>1, <3>2 DEF Pool!Next
  <2>5. QED
    BY <2>3, <2>4
<1>2. ASSUME NEW th \in Threads, ThreadReceive(th) PROVE Pool!Next
  <2>1. tasks # <<>> /\ Head(tasks) \in TaskNums /\ stage[Head(tasks)] = "queued"
    BY <1>2, <1>h DEF ThreadReceive
  <2>2. /\ stage'[Head(tasks)] = "taken"
        /\ \A u \in TaskNums : u # Head(tasks) => stage'[u] = stage[u]
        /\ UNCHANGED <<failed, errors, cancel, run>>
    BY <1>2, <2>1 DEF ThreadReceive, Stage, TaskTypeOK
  <2>3. Pool!Move(Head(tasks), "accepted", "running")
    BY <2>1, <2>2, LifeMoves DEF Life
  <2>4. run.at = "returned" => cancel
    BY <2>1 DEF Conduct, ReturnedLast
  <2>5. Pool!Start(Head(tasks))
    BY <2>2, <2>3, <2>4 DEF Pool!Start
  <2>6. QED
    BY <2>1, <2>5 DEF Pool!Next
<1>3. ASSUME NEW th \in Threads, ThreadRan(th) PROVE Pool!Next
  <2>1. job[th] \in TaskNums /\ stage[job[th]] = "running"
    BY <1>3 DEF ThreadRan, JobCustody, Busy
  <2>2. /\ stage'[job[th]] = "ran"
        /\ \A u \in TaskNums : u # job[th] => stage'[u] = stage[u]
        /\ failed' \in {failed, failed \cup {job[th]}} /\ UNCHANGED <<errors, cancel, run>>
    BY <1>3, <2>1 DEF ThreadRan, Stage, TaskTypeOK
  <2>3. Pool!Move(job[th], "running", "finished")
    BY <2>1, <2>2, LifeMoves DEF Life
  <2>4. Pool!Finish(job[th])
    BY <2>2, <2>3 DEF Pool!Finish
  <2>5. QED
    BY <2>1, <2>4 DEF Pool!Next
<1>4. ASSUME NEW th \in Threads, ThreadResult(th) PROVE [Pool!Next]_(Pool!poolVars)
  <2>1. /\ UNCHANGED <<stage, failed, cancel, run>>
        /\ errors' = IF job[th] \in failed THEN errors \cup {job[th]} ELSE errors
    BY <1>4 DEF ThreadResult
  <2>2. UNCHANGED Lives
    BY <2>1 DEF Lives, Life
  <2>3. CASE job[th] \in failed
    <3>1. Pool!Save(job[th])
      BY <2>1, <2>2, <2>3 DEF Pool!Save, Lives
    <3>2. QED
      BY <2>3, <3>1 DEF Pool!Next, TaskTypeOK
  <2>4. CASE job[th] \notin failed
    BY <2>1, <2>2, <2>4 DEF Pool!poolVars, Lives
  <2>5. QED
    BY <2>3, <2>4
<1>5. ASSUME NEW p \in Procs, CancelStore(p) PROVE Pool!Next
  <2>1. UNCHANGED <<stage, failed, errors, run>> /\ cancel' = TRUE
    BY <1>5 DEF CancelStore
  <2>2. UNCHANGED Lives
    BY <2>1 DEF Lives, Life
  <2>3. Pool!Cancel
    BY <2>1, <2>2 DEF Pool!Cancel, Lives
  <2>4. QED
    BY <2>3 DEF Pool!Next
<1>6. ASSUME NEW p \in Procs, CancelDequeue(p) PROVE [Pool!Next]_(Pool!poolVars)
  <2>1. UNCHANGED <<failed, errors, cancel, run>>
    BY <1>6 DEF CancelDequeue
  <2>2. cancel
    BY <1>6 DEF CancelDequeue, Cancelled
  <2>3. CASE tasks # <<>>
    <3>1. Head(tasks) \in TaskNums /\ stage[Head(tasks)] = "queued"
      BY <1>h, <2>3
    <3>2. /\ stage'[Head(tasks)] = "dropped"
          /\ \A u \in TaskNums : u # Head(tasks) => stage'[u] = stage[u]
      BY <1>6, <2>3, <3>1 DEF CancelDequeue, Stage, TaskTypeOK
    <3>3. Pool!Move(Head(tasks), "accepted", "dropped")
      BY <3>1, <3>2, LifeMoves DEF Life
    <3>4. Pool!Drop(Head(tasks))
      BY <2>1, <2>2, <3>3 DEF Pool!Drop
    <3>5. QED
      BY <3>1, <3>4 DEF Pool!Next
  <2>4. CASE tasks = <<>>
    <3>1. UNCHANGED stage
      BY <1>6, <2>4 DEF CancelDequeue
    <3>2. QED
      BY <2>1, <3>1 DEF Pool!poolVars, Life
  <2>5. QED
    BY <2>3, <2>4
<1>7. CASE RunReturn /\ ~Panicked
  <2>1. /\ run.at = "waiting" /\ run'.at = "returned" /\ Live = {}
        /\ UNCHANGED <<stage, failed, errors, cancel>>
    BY <1>7 DEF RunReturn, CallTypeOK, TypeOK
  <2>2. UNCHANGED Lives
    BY <2>1 DEF Lives, Life
  <2>3. ASSUME NEW th \in Threads PROVE pc[th] \in {"unborn"} \cup Exits
    BY <2>1 DEF Live
  <2>4. ASSUME NEW t \in TaskNums PROVE Life(t) # "running"
    <3>1. stage[t] \notin {"taken", "running"}
      BY <2>3 DEF Held, Exits
    <3>2. QED
      BY <3>1 DEF Life, TaskTypeOK, Stages
  <2>5. errors = failed
    <3>1. \A th \in Threads : pc[th] \notin Saving
      BY <2>3 DEF Saving, OnPath, NotifyPath, Exits
    <3>2. QED
      BY <3>1 DEF Errors
  <2>6. ASSUME ~cancel, NEW t \in TaskNums PROVE Life(t) # "accepted"
    <3>1. closed /\ tasks = <<>>
      BY <1>7, <2>6, SomeWorkerEnded DEF PoolInv, Conduct, EndedLast
    <3>2. InFlight = {}
      BY <2>6, <3>1 DEF Conduct, ClosedByDone, InFlightFirst
    <3>3. stage[t] \notin {"passed", "counted", "panicked"}
      BY <1>7, <3>2 DEF InFlight, Panicked
    <3>4. stage[t] # "queued"
      <4>1. Len(tasks) = 0
        BY <3>1
      <4>2. QED
        BY <4>1 DEF Waiting
    <3>5. QED
      BY <3>3, <3>4 DEF Life, TaskTypeOK, Stages
  <2>7. Pool!Return
    BY <2>1, <2>2, <2>4, <2>5, <2>6 DEF Pool!Return, Lives
  <2>8. QED
    BY <2>7 DEF Pool!Next
<1>8. CASE /\ Next /\ ~AddTask /\ ~RunReturn
           /\ \A th \in Threads : ~ThreadReceive(th) /\ ~ThreadRan(th) /\ ~ThreadResult(th)
           /\ \A p \in Procs : ~CancelStore(p) /\ ~CancelDequeue(p)
  BY <1>8, PoolStutters
<1>9. QED
  BY <1>0, <1>1, <1>2, <1>3, <1>4, <1>5, <1>6, <1>7, <1>8, Steps

\* Runner implements the task pool: a task is executed once or, after Cancel,
\* dropped or refused; when Run returns nothing is executing, every error is
\* in the errors map and without Cancel every accepted task was executed.
THEOREM RunnerIsATaskPool == Spec => ImplementsPool
<1>1. Init => Pool!Init
  <2>1. ASSUME Init PROVE Pool!Init
    BY <2>1 DEF Init, Pool!Init, Life
  <2>2. QED
    BY <2>1
<1>2. PoolInv /\ [Next]_vars => [Pool!Next]_(Pool!poolVars)
  BY PoolSteps
<1>3. QED
  BY <1>1, <1>2, PoolInvariant, PTL DEF Spec, ImplementsPool, Pool!Spec
=============================================================================
