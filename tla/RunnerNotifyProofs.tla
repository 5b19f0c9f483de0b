------------------------- MODULE RunnerNotifyProofs -------------------------
(***************************************************************************)
(* The finish notification of Runner is neither lost nor early, nothing    *)
(* panics while only workers use it, and Cancel(true) empties the queue:   *)
(* for any number of tasks, threads and cancellers.                        *)
(***************************************************************************)
EXTENDS RunnerPoolProofs

USE DEF taskVars, flagVars, countVars, notifyVars, callVars, otherVars, quietVars, coreVars

-----------------------------------------------------------------------------
(* No finish is lost.                                                       *)

\* Somebody is about to close the current channel, or has closed it.
Closer ==
  \/ chan[notifier].closed
  \/ \E p \in Procs :
       \/ pc[p] \in {"shutting", "panicked"}
       \/ pc[p] = "closing" /\ target[p] = notifier
Finishing == \E th \in Threads : pc[th] = "finishing"

\* A channel marked as closed will be; while the client renews the channel, and
\* when the last task has been executed, somebody is still to look.
Marked   == notifierClosed /\ client.at # "clearing" => Closer
Renewed  ==
  client.at \in {"renewing", "clearing"} =>
    NotifyEnabled /\ (totalTasksInQueue = 0 => Finishing)
Finished ==
  NotifyEnabled /\ started > 0 /\ totalTasksInQueue = 0 =>
    Closer \/ Finishing \/ notifierLock \in Procs

\* A tally with a member is not zero.
LEMMA TallyPositive ==
  ASSUME NEW D, IsFiniteSet(D), NEW f, NEW P, NEW a \in D, f[a] \in P
  PROVE  Tally(f, D, P) # 0
<1>1. IsFiniteSet({x \in D : f[x] \in P}) /\ a \in {x \in D : f[x] \in P}
  BY TallyNat
<1>2. QED
  BY <1>1, FS_EmptySet DEF Tally

\* When no task is counted no thread is active.
LEMMA IdleWhenEmpty ==
  ASSUME IInv, totalTasksInQueue = 0
  PROVE  activeThreads = 0
<1>1. \A t \in TaskNums : stage[t] \notin Counted
  BY TallyPositive, FiniteDomains DEF IInv, CounterAccounting
<1>2. \A th \in Threads : pc[th] \notin ActiveAt
  BY <1>1 DEF IInv, Custody, JobCustody, Busy, Counted, ActiveAt
<1>3. {th \in Threads : pc[th] \in ActiveAt} = {}
  BY <1>2
<1>4. QED
  BY <1>3, FS_EmptySet DEF IInv, CounterAccounting, Tally

\* totalTasksInQueue becomes zero only when a worker has run a task, and no
\* task is started while it is.
LEMMA TotalZero ==
  ASSUME IInv, Next, IInv', totalTasksInQueue' = 0
  PROVE  \/ totalTasksInQueue = 0 /\ started' = started
         \/ \E th \in Threads : ThreadUncount(th)
<1> TypeOK /\ Custody /\ ThreadNumbering /\ TaskTypeOK /\ WorkTypeOK
  BY DEF IInv, TypeOK, Custody
<1>0. \A t \in TaskNums : stage'[t] \notin Counted
  BY TallyPositive, FiniteDomains DEF IInv, CounterAccounting
<1>1. ASSUME NEW t \in TaskNums, AddTaskCount(t) PROVE FALSE
  BY <1>0, <1>1 DEF AddTaskCount, Stage, TaskTypeOK, Counted
<1>2. ASSUME NEW th \in Threads, ThreadBegin(th) PROVE FALSE
  <2>1. job[th] \in TaskNums
    BY <1>2 DEF ThreadBegin, Custody, JobCustody, Busy
  <2>2. QED
    BY <1>0, <1>2, <2>1 DEF ThreadBegin, Stage, TaskTypeOK, Counted
<1>3. ASSUME NEW th \in Threads, LoopStep(th), ~ThreadBegin(th), ~ThreadUncount(th)
      PROVE  UNCHANGED <<totalTasksInQueue, started>>
  BY <1>3 DEF LoopStep, ThreadStart, ThreadReceive, ThreadEnd, ThreadRan,
     ThreadCheckFinished, ThreadResult, ThreadTrim
<1>4. ASSUME NEW p \in Procs, CancelStore(p) \/ CancelStep(p) \/ CancelForce(p) \/ NotifyStep(p)
      PROVE  UNCHANGED <<totalTasksInQueue, started>>
  BY <1>4 DEF CancelStore, CancelStep, CancelOnce, CancelDrain, CancelDequeue, CancelForce,
     NotifyStep, NotifyCheck, NotifyAim, NotifySend, NotifyMark, NotifyClose
<1>5. CASE ClientStep
  BY <1>5 DEF ClientStep, ClientReset, ClientRenew, ClientClear, ClientWait, ClientReceive,
     ClientDone
<1>6. CASE RunSpawn \/ ResizeAdd
  BY <1>6 DEF RunSpawn, ResizeAdd, AddThread
<1>7. QED
  BY <1>1, <1>2, <1>3, <1>4, <1>5, <1>6, Steps
  DEF AddTask, AddTaskSend, AddTaskPanic, RunStart, RunSpawned, RunReturn, TimerElapse,
      ResizeStart, ResizeAssign, Procs

\* Only the look at the counters ends the wait for it.
LEMMA FinishingStays ==
  ASSUME TypeOK, ThreadNumbering, Next, Finishing, \A th \in Threads : ~ThreadCheckFinished(th)
  PROVE  Finishing'
<1> WorkTypeOK /\ \A th \in Threads : th \in Procs
  BY DEF TypeOK, Procs
<1>0. PICK th \in Threads : pc[th] = "finishing"
  BY DEF Finishing
<1>a. SUFFICES ASSUME pc'[th] # "finishing" PROVE FALSE
  BY DEF Finishing
<1>b. ASSUME NEW p \in Procs, NEW l, Goto(p, l), pc[p] # "finishing" PROVE FALSE
  BY <1>0, <1>a, <1>b DEF Goto, WorkTypeOK
<1>1. ASSUME NEW u \in Threads, LoopStep(u) PROVE FALSE
  <2>1. pc[u] # "finishing" /\ \E l : Goto(u, l)
    BY <1>1 DEF LoopStep, ThreadStart, ThreadReceive, ThreadEnd, ThreadBegin, ThreadRan,
       ThreadUncount, ThreadResult, ThreadTrim
  <2>2. QED
    BY <1>b, <2>1
<1>2. ASSUME NEW p \in Procs, CancelStore(p) \/ CancelStep(p) \/ CancelForce(p) \/ NotifyStep(p)
      PROVE  FALSE
  <2>1. pc[p] # "finishing" /\ \E l : Goto(p, l)
    BY <1>2 DEF CancelStore, CancelStep, CancelOnce, CancelDrain, CancelDequeue, CancelForce,
       CancelReturn, NotifyStep, NotifyCheck, NotifyAim, NotifySend, NotifyMark, NotifyClose,
       NotifyReturn
  <2>2. QED
    BY <1>b, <2>1
<1>3. CASE RunSpawn \/ ResizeAdd
  <2>1. /\ threadCount \in Procs /\ Goto(threadCount, "starting")
        /\ pc[threadCount] = "unborn"
    BY <1>3, AddThreadTypes
    DEF RunSpawn, ResizeAdd, TypeOK, CountTypeOK, ThreadNumbering, Threads
  <2>2. QED
    BY <1>b, <2>1
<1>4. CASE RunStart \/ TimerElapse
  BY <1>0, <1>a, <1>4, NamesAssumption DEF RunStart, TimerElapse, Goto, WorkTypeOK
<1>5. CASE ClientStep
  BY <1>0, <1>a, <1>5 DEF ClientStep, ClientReset, ClientRenew, ClientClear, ClientWait,
     ClientReceive, ClientDone
<1>6. QED
  BY <1>0, <1>a, <1>1, <1>2, <1>3, <1>4, <1>5, Steps
  DEF AddTask, AddTaskCount, AddTaskSend, AddTaskPanic, RunSpawned, RunReturn, ResizeStart,
      ResizeAssign, Procs

\* Whoever is about to close the current channel closes it, unless the client
\* puts a new one in its place.
LEMMA CloserStays ==
  ASSUME TypeOK, ThreadNumbering, TimerIdle, Next, Closer, ~ClientRenew
  PROVE  Closer'
<1> WorkTypeOK /\ NotifyTypeOK /\ CallTypeOK
  BY DEF TypeOK
<1>1. CASE OffPath
  <2>1. UNCHANGED <<notifier, chan, target>>
        /\ \A p \in Procs : pc[p] \in OnPath => pc'[p] = pc[p]
    BY <1>1 DEF OffPath, Goto, WorkTypeOK
  <2>2. QED
    BY <2>1 DEF Closer, OnPath, NotifyPath
<1>2. ASSUME NEW p \in Procs, ThreadCheckFinished(p) \/ CancelDrain(p) PROVE Closer'
  <2>1. UNCHANGED <<notifier, chan, target>> /\ pc[p] \notin OnPath /\ \E l : Goto(p, l)
    BY <1>2 DEF ThreadCheckFinished, CancelDrain, CancelReturn, OnPath, NotifyPath
  <2>2. QED
    BY <2>1 DEF Closer, Goto, WorkTypeOK, OnPath, NotifyPath
<1>3. CASE TimerElapse
  <2>1. UNCHANGED <<notifier, chan, target>> /\ pc[Timer] \notin OnPath /\ \E l : Goto(Timer, l)
    BY <1>3 DEF TimerElapse, OnPath, NotifyPath
  <2>2. QED
    BY <2>1 DEF Closer, Goto, WorkTypeOK, OnPath, NotifyPath
<1>4. CASE ClientStep
  <2>1. UNCHANGED <<pc, notifier, target>> /\ \A c \in {0, 1} : chan'[c].closed = chan[c].closed
    BY <1>4 DEF ClientStep, ClientReset, ClientClear, ClientWait, ClientReceive, ClientDone,
       NotifyTypeOK, CallTypeOK
  <2>2. QED
    BY <2>1 DEF Closer, NotifyTypeOK
<1>5. ASSUME NEW p \in Procs, NotifyStep(p) PROVE Closer'
  <2>1. UNCHANGED notifier /\ \A c \in {0, 1} : chan[c].closed => chan'[c].closed
    BY <1>5 DEF NotifyStep, NotifyCheck, NotifyAim, NotifySend, NotifyMark, NotifyClose,
       NotifyTypeOK
  <2>2. CASE chan[notifier].closed
    BY <2>1, <2>2 DEF Closer, NotifyTypeOK
  <2>3. ASSUME NEW q \in Procs, pc[q] = "shutting" \/ (pc[q] = "closing" /\ target[q] = notifier)
        PROVE  Closer'
    <3>1. CASE p # q
      <4>1. pc'[q] = pc[q]
        BY <1>5, <3>1 DEF NotifyStep, NotifyCheck, NotifyAim, NotifySend, NotifyMark, NotifyClose,
           NotifyReturn, CancelReturn, Goto, WorkTypeOK
      <4>2. target'[q] = target[q]
        BY <1>5, <3>1 DEF NotifyStep, NotifyCheck, NotifyAim, NotifySend, NotifyMark, NotifyClose,
           NotifyTypeOK
      <4>3. QED
        BY <2>1, <2>3, <4>1, <4>2 DEF Closer
    <3>2. CASE p = q /\ pc[q] = "shutting"
      <4>1. pc'[p] = "closing" /\ target'[p] = notifier
        BY <1>5, <3>2 DEF NotifyStep, NotifyCheck, NotifyAim, NotifySend, NotifyMark, NotifyClose,
           Goto, WorkTypeOK, NotifyTypeOK
      <4>2. QED
        BY <2>1, <4>1 DEF Closer
    <3>3. CASE p = q /\ pc[q] = "closing"
      <4>1. target[p] = notifier /\ NotifyClose(p)
        BY <1>5, <2>3, <3>3 DEF NotifyStep, NotifyCheck, NotifyAim, NotifySend, NotifyMark
      <4>2. pc'[p] = "panicked" \/ chan'[notifier].closed
        BY <4>1 DEF NotifyClose, Goto, WorkTypeOK, NotifyTypeOK
      <4>3. QED
        BY <2>1, <4>2 DEF Closer
    <3>4. QED
      BY <2>3, <3>1, <3>2, <3>3
  <2>4. \A q \in Procs : pc[q] # "panicked"
    BY Steps DEF Panicked
  <2>5. QED
    BY <2>2, <2>3, <2>4 DEF Closer
<1>6. QED
  BY <1>1, <1>2, <1>3, <1>4, <1>5, PathSteps DEF Procs

\* The marks, the renewals and the finish at the beginning.
LEMMA InitFinish == Init => Marked /\ Renewed /\ Finished
BY DEF Init, Marked, Renewed, Finished

\* A step of notifyFinished: who marks the channel closes it, who gives up
\* found it marked.
LEMMA NotifyFinish ==
  ASSUME PoolInv, Marked, Renewed, Finished, Next, NEW p \in Procs, NotifyStep(p)
  PROVE  Marked' /\ Renewed' /\ Finished'
<1> /\ TypeOK /\ ThreadNumbering /\ TimerIdle /\ Locks /\ WorkTypeOK /\ NotifyTypeOK
    /\ Client \notin Procs
  BY NamesAssumption DEF PoolInv, IInv, TypeOK, Custody
<1>0. UNCHANGED <<client, notifier, totalTasksInQueue, started>>
  BY DEF NotifyStep, NotifyCheck, NotifyAim, NotifySend, NotifyMark, NotifyClose
<1>c. Closer => Closer'
  BY <1>0, CloserStays DEF ClientRenew, TypeOK, CallTypeOK
<1>f. Finishing => Finishing'
  <2>1. ASSUME NEW th \in Threads, ThreadCheckFinished(th), Finishing PROVE Finishing'
    <3>1. pc' = [pc EXCEPT ![th] = pc'[th]] /\ pc'[th] # pc[th]
      BY <2>1 DEF ThreadCheckFinished, Goto, WorkTypeOK, Procs
    <3>2. pc' = [pc EXCEPT ![p] = pc'[p]] /\ pc[p] # "finishing" /\ pc[th] = "finishing"
      BY <2>1 DEF ThreadCheckFinished, NotifyStep, NotifyCheck, NotifyAim, NotifySend, NotifyMark,
         NotifyClose, NotifyReturn, CancelReturn, Goto, WorkTypeOK
    <3>3. QED
      BY <3>1, <3>2 DEF WorkTypeOK, Procs
  <2>2. QED
    BY <2>1, FinishingStays
<1>1. Marked'
  <2>1. CASE NotifyMark(p)
    <3>1. pc'[p] = "shutting"
      BY <2>1 DEF NotifyMark, Goto, WorkTypeOK
    <3>2. QED
      BY <3>1 DEF Marked, Closer
  <2>2. CASE ~NotifyMark(p)
    <3>1. UNCHANGED notifierClosed
      BY <2>2 DEF NotifyStep, NotifyCheck, NotifyAim, NotifySend, NotifyClose
    <3>2. QED
      BY <1>0, <1>c, <3>1 DEF Marked
  <2>3. QED
    BY <2>1, <2>2
<1>2. Renewed'
  BY <1>0, <1>f DEF Renewed
<1>3. Finished'
  <2>1. SUFFICES ASSUME notifierLock \in Procs, notifierLock' \notin Procs PROVE Closer'
    BY <1>0, <1>c, <1>f DEF Finished
  <2>2. NotifyReturn(p) /\ notifierLock = p
    BY <2>1 DEF NotifyStep, NotifyCheck, NotifyAim, NotifySend, NotifyMark, NotifyClose,
       NotifyReturn
  <2>3. client.at # "clearing"
    BY <2>1 DEF Locks
  <2>4. CASE NotifyCheck(p)
    <3>1. pc[p] = "checking" /\ Goto(p, "result")
      BY <2>2, <2>4 DEF NotifyCheck, NotifyReturn
    <3>2. pc'[p] = "result"
      BY <3>1 DEF Goto, WorkTypeOK
    <3>3. notifierClosed
      BY <2>4, <3>2 DEF NotifyCheck, Goto, WorkTypeOK
    <3>4. QED
      BY <1>c, <2>3, <3>3 DEF Marked
  <2>5. CASE NotifyClose(p)
    <3>1. pc[p] = "closing" /\ target[p] = notifier
      BY <2>1, <2>2, <2>5 DEF NotifyClose, Locks
    <3>2. pc'[p] = "panicked" \/ chan'[notifier].closed
      BY <2>5, <3>1 DEF NotifyClose, Goto, WorkTypeOK, NotifyTypeOK
    <3>3. QED
      BY <1>0, <3>2 DEF Closer
  <2>6. QED
    BY <2>1, <2>4, <2>5 DEF NotifyStep, NotifyAim, NotifySend, NotifyMark
<1>4. QED
  BY <1>1, <1>2, <1>3

\* A step of the client: it renews the channel only while a task is counted.
LEMMA ClientFinish ==
  ASSUME PoolInv, Marked, Renewed, Finished, Next, ClientStep
  PROVE  Marked' /\ Renewed' /\ Finished'
<1> /\ TypeOK /\ ThreadNumbering /\ TimerIdle /\ Locks /\ CallTypeOK /\ IInv
    /\ Client \notin Procs /\ NoProc \notin Procs
  BY NamesAssumption DEF PoolInv, IInv, TypeOK, Custody
<1>0. UNCHANGED <<pc, totalTasksInQueue, started>>
  BY DEF ClientStep, ClientReset, ClientRenew, ClientClear, ClientWait, ClientReceive, ClientDone
<1>f. Finishing => Finishing'
  BY <1>0 DEF Finishing
<1>1. CASE ClientReset
  <2>1. UNCHANGED notifierClosed /\ notifierLock = NoProc /\ NotifyEnabled /\ Closer' = Closer
    BY <1>0, <1>1 DEF ClientReset, Closer
  <2>2. /\ client.at = "producing" /\ client'.at \in {"settled", "renewing"}
        /\ client'.at = "renewing" => ~(activeThreads = 0 /\ totalTasksInQueue = 0)
    BY <1>1 DEF ClientReset, ClientStops, CallTypeOK
  <2>3. QED
    BY <1>0, <1>f, <2>1, <2>2, IdleWhenEmpty DEF Marked, Renewed, Finished
<1>2. CASE ClientRenew
  <2>1. client.at = "renewing" /\ client'.at = "clearing"
    BY <1>2 DEF ClientRenew, CallTypeOK
  <2>2. QED
    BY <1>0, <1>f, <2>1 DEF Marked, Renewed, Finished
<1>3. CASE ClientClear
  <2>1. client.at = "clearing" /\ client'.at = "settled" /\ ~notifierClosed'
    BY <1>3 DEF ClientClear, CallTypeOK
  <2>2. QED
    BY <1>0, <1>f, <2>1 DEF Marked, Renewed, Finished
<1>4. CASE ClientWait \/ ClientReceive \/ ClientDone
  <2>1. /\ client.at \notin {"renewing", "clearing"} /\ client'.at \notin {"renewing", "clearing"}
        /\ UNCHANGED <<notifierClosed, notifierLock>>
    BY <1>4 DEF ClientWait, ClientReceive, ClientDone, ClientStops, CallTypeOK
  <2>2. Closer => Closer'
    BY <2>1, CloserStays DEF ClientRenew
  <2>3. QED
    BY <1>0, <1>f, <2>1, <2>2 DEF Marked, Renewed, Finished
<1>5. QED
  BY <1>1, <1>2, <1>3, <1>4 DEF ClientStep

\* Every step keeps the finish.
LEMMA NextFinish ==
  ASSUME PoolInv, Marked, Renewed, Finished, Next
  PROVE  Marked' /\ Renewed' /\ Finished'
<1> /\ TypeOK /\ ThreadNumbering /\ TimerIdle /\ Locks /\ WorkTypeOK /\ CallTypeOK /\ IInv
    /\ Client \notin Procs /\ NoProc \notin Procs /\ \A th \in Threads : th \in Procs
  BY NamesAssumption DEF PoolInv, IInv, TypeOK, Custody, Procs
<1>0. IInv'
  BY NextPoolInv DEF PoolInv
<1>1. ASSUME NEW th \in Threads, ThreadCheckFinished(th) PROVE Marked' /\ Renewed' /\ Finished'
  <2>1. /\ UNCHANGED <<client, notifier, notifierClosed, totalTasksInQueue, started>>
        /\ notifierLock = NoProc
        /\ activeThreads = 0 /\ totalTasksInQueue = 0 => notifierLock' = th
    BY <1>1 DEF ThreadCheckFinished
  <2>2. Closer => Closer'
    BY <2>1, CloserStays DEF ClientRenew, CallTypeOK
  <2>3. client.at \notin {"renewing", "clearing"}
    BY <2>1, NamesAssumption DEF Locks
  <2>4. QED
    BY <2>1, <2>2, <2>3, IdleWhenEmpty DEF Marked, Renewed, Finished
<1>2. ASSUME NEW th \in Threads, ThreadUncount(th) PROVE Marked' /\ Renewed' /\ Finished'
  <2>1. UNCHANGED <<client, notifierClosed>>
        /\ Goto(th, IF NotifyEnabled THEN "finishing" ELSE "result")
    BY <1>2 DEF ThreadUncount
  <2>2. NotifyEnabled => Finishing'
    BY <2>1 DEF Goto, WorkTypeOK, Finishing
  <2>3. Closer => Closer'
    BY <2>1, CloserStays DEF ClientRenew, CallTypeOK
  <2>4. QED
    BY <2>1, <2>2, <2>3 DEF Marked, Renewed, Finished
<1>3. CASE /\ ~ClientStep /\ \A p \in Procs : ~NotifyStep(p)
           /\ \A th \in Threads : ~ThreadCheckFinished(th) /\ ~ThreadUncount(th)
  <2>1. UNCHANGED <<client, notifyVars>>
    <3>1. OffPath => UNCHANGED <<client, notifyVars>>
      BY DEF OffPath
    <3>2. ASSUME NEW p \in Procs, CancelDrain(p) PROVE UNCHANGED <<client, notifyVars>>
      BY <3>2 DEF CancelDrain
    <3>3. TimerElapse => UNCHANGED <<client, notifyVars>>
      BY DEF TimerElapse
    <3>4. QED
      BY <1>3, <3>1, <3>2, <3>3, PathSteps DEF Procs
  <2>2. (Closer => Closer') /\ (Finishing => Finishing')
    BY <1>3, CloserStays, FinishingStays DEF ClientStep
  <2>3. totalTasksInQueue' = 0 => totalTasksInQueue = 0 /\ started' = started
    BY <1>0, <1>3, TotalZero
  <2>4. QED
    BY <2>1, <2>2, <2>3 DEF Marked, Renewed, Finished
<1>4. QED
  BY <1>1, <1>2, <1>3, NotifyFinish, ClientFinish

-----------------------------------------------------------------------------
(* No finish is told early, and nothing panics, while the runner is calm.   *)

\* Nobody has cancelled the runner and its timer has not acted.
Calm == ~cancel /\ TimerWaits

\* A calm runner was calm before.
LEMMA CalmBefore ==
  ASSUME PoolInv, Next, Calm'
  PROVE  Calm /\ ~TimerElapse /\ \A p \in Procs : ~CancelDrain(p)
<1> /\ WorkTypeOK /\ TimerIdle /\ CountTypeOK /\ Timer \in Procs /\ Timer \notin Threads
    /\ Timer \notin Cancellers /\ Cancelled
  BY NamesAssumption DEF PoolInv, IInv, TypeOK, Procs
<1>1. ~cancel
  BY CancelStays DEF Calm
<1>2. pc'[Timer] \in {"unborn", "sleeping"}
  BY DEF Calm, TimerWaits
<1>3. ASSUME NEW l, Goto(Timer, l) PROVE l \in {"unborn", "sleeping"}
  BY <1>2, <1>3 DEF Goto, WorkTypeOK
<1>4. ~TimerElapse
  BY <1>3 DEF TimerElapse
<1>5. TimerWaits
  <2>1. CASE RunStart
    BY <2>1 DEF RunStart, TimerIdle, TimerWaits
  <2>2. CASE NotifyStep(Timer)
    <3>1. \E l \in {"result", "ended"} \cup OnPath : Goto(Timer, l)
      BY <2>2 DEF NotifyStep, NotifyCheck, NotifyAim, NotifySend, NotifyMark, NotifyClose,
         NotifyReturn, OnPath, NotifyPath
    <3>2. QED
      BY <1>3, <3>1 DEF OnPath, NotifyPath
  <2>3. ASSUME NEW p \in Procs, p # Timer, NEW l, Goto(p, l) PROVE TimerWaits
    BY <1>2, <2>3 DEF Goto, WorkTypeOK, TimerWaits
  <2>4. UNCHANGED pc => TimerWaits
    BY <1>2 DEF TimerWaits
  <2>5. ASSUME NEW th \in Threads, LoopStep(th) PROVE TimerWaits
    <3>1. \E l : Goto(th, l)
      BY <2>5 DEF LoopStep, ThreadStart, ThreadReceive, ThreadEnd, ThreadBegin, ThreadRan,
         ThreadUncount, ThreadCheckFinished, ThreadResult, ThreadTrim
    <3>2. QED
      BY <2>3, <3>1 DEF Procs
  <2>6. ASSUME NEW p \in Threads \cup Cancellers, CancelStore(p) \/ CancelStep(p) \/ CancelForce(p)
        PROVE  TimerWaits
    <3>1. \E l : Goto(p, l)
      BY <2>6 DEF CancelStore, CancelStep, CancelOnce, CancelDrain, CancelDequeue, CancelForce,
         CancelReturn
    <3>2. QED
      BY <2>3, <3>1 DEF Procs
  <2>7. ASSUME NEW p \in Procs, p # Timer, NotifyStep(p) PROVE TimerWaits
    <3>1. \E l : Goto(p, l)
      BY <2>7 DEF NotifyStep, NotifyCheck, NotifyAim, NotifySend, NotifyMark, NotifyClose,
         NotifyReturn, CancelReturn
    <3>2. QED
      BY <2>3, <2>7, <3>1
  <2>8. CASE RunSpawn \/ ResizeAdd
    <3>1. threadCount \in Threads /\ Goto(threadCount, "starting")
      BY <2>8, AddThreadTypes DEF RunSpawn, ResizeAdd
    <3>2. QED
      BY <2>3, <3>1 DEF Procs
  <2>9. CASE ClientStep
    BY <2>4, <2>9 DEF ClientStep, ClientReset, ClientRenew, ClientClear, ClientWait,
       ClientReceive, ClientDone
  <2>10. QED
    BY <1>4, <2>1, <2>2, <2>4, <2>5, <2>6, <2>7, <2>8, <2>9, Steps
    DEF AddTask, AddTaskCount, AddTaskSend, AddTaskPanic, RunSpawned, RunReturn, ResizeStart,
        ResizeAssign
<1>6. ASSUME NEW p \in Procs, CancelDrain(p) PROVE FALSE
  BY <1>1, <1>6 DEF CancelDrain, Cancelled
<1>7. QED
  BY <1>1, <1>4, <1>5, <1>6 DEF Calm

\* The client resets once, when it has produced its last task, and waits on the
\* current channel.
ResetOnce == client.at = "producing" => ~client.wasReset
RenewOnce ==
  /\ client.at \in {"producing", "renewing"} => notifier = 0
  /\ client.at = "clearing" => notifier = 1
Watches   == client.at = "waiting" => client.watched = notifier

\* All tasks there are have been executed.
AllDone == \A t \in TaskNums : stage[t] \in {"unborn", "done"}

\* The second channel is as new until the reset is over.
Fresh == notifier = 0 \/ client.at = "clearing" => ~chan[1].full /\ ~chan[1].closed

\* A closed channel is marked; a worker past the check finds it open, and has
\* marked it before it closes it.
Guarded ==
  /\ chan[notifier].closed => notifierClosed
  /\ notifierLock \in Procs /\ pc[notifierLock] \in NotifyPath \ {"checking"}
       => ~chan[notifier].closed
  /\ notifierLock \in Procs /\ pc[notifierLock] \in {"shutting", "closing"} => notifierClosed

\* Once the reset is over, whoever holds the lock to notify, and whatever the
\* channel and the client have been told, all tasks have been executed.
Told ==
  client.wasReset /\ client.at \notin {"renewing", "clearing"} =>
    \/ AllDone
    \/ /\ notifierLock \notin Procs /\ client.at \notin {"notified", "done"}
       /\ ~chan[notifier].full /\ ~chan[notifier].closed

ClientInv == ResetOnce /\ RenewOnce /\ Watches
CalmInv   == Calm => ~Panicked /\ Fresh /\ Guarded /\ Told

\* The reset and the channels at the beginning.
LEMMA InitCalm == Init => ClientInv /\ CalmInv
<1> SUFFICES ASSUME Init PROVE ClientInv /\ CalmInv
  OBVIOUS
<1>1. ClientInv
  BY DEF Init, ClientInv, ResetOnce, RenewOnce, Watches
<1>2. ~Panicked
  BY DEF Init, Panicked
<1>3. Fresh /\ Told
  BY DEF Init, Fresh, Told
<1>4. Guarded
  BY NamesAssumption DEF Init, Guarded
<1>5. QED
  BY <1>1, <1>2, <1>3, <1>4 DEF CalmInv

\* Only the client moves itself and the field finishedNotifier.
LEMMA NextClientInv ==
  ASSUME PoolInv, ClientInv, Next
  PROVE  ClientInv'
<1> TypeOK /\ CallTypeOK /\ NotifyTypeOK /\ ThreadNumbering /\ TimerIdle
  BY DEF PoolInv, IInv, TypeOK, Custody
<1>1. CASE ClientReset
  BY <1>1 DEF ClientReset, ClientStops, ClientInv, ResetOnce, RenewOnce, Watches, CallTypeOK
<1>2. CASE ClientRenew
  BY <1>2 DEF ClientRenew, ClientInv, ResetOnce, RenewOnce, Watches, CallTypeOK
<1>3. CASE ClientClear
  BY <1>3 DEF ClientClear, ClientInv, ResetOnce, RenewOnce, Watches, CallTypeOK
<1>4. CASE ClientWait \/ ClientReceive \/ ClientDone
  BY <1>4 DEF ClientWait, ClientReceive, ClientDone, ClientStops, ClientInv, ResetOnce,
     RenewOnce, Watches, CallTypeOK
<1>5. CASE ~ClientStep
  <2>1. UNCHANGED <<client, notifier>>
    <3>1. ASSUME NEW p \in Procs,
                 ThreadCheckFinished(p) \/ NotifyStep(p) \/ CancelDrain(p)
          PROVE  UNCHANGED notifier
      BY <3>1 DEF ThreadCheckFinished, NotifyStep, NotifyCheck, NotifyAim, NotifySend,
         NotifyMark, NotifyClose, CancelDrain
    <3>2. OffPath \/ TimerElapse => UNCHANGED notifier
      BY DEF OffPath, TimerElapse
    <3>3. QED
      BY <1>5, <3>1, <3>2, PathSteps, ClientMoves DEF Procs
  <2>2. QED
    BY <2>1 DEF ClientInv, ResetOnce, RenewOnce, Watches
<1>6. QED
  BY <1>1, <1>2, <1>3, <1>4, <1>5 DEF ClientStep

\* When the client has produced its last task and no task is counted, all have
\* been executed.
LEMMA EmptyMeansDone ==
  ASSUME PoolInv, ~cancel, InFlight = {}, totalTasksInQueue = 0
  PROVE  AllDone
<1>1. ASSUME NEW t \in TaskNums PROVE stage[t] \notin Counted /\ stage[t] \in Stages
  BY TallyPositive, FiniteDomains
  DEF PoolInv, IInv, CounterAccounting, TypeOK, TaskTypeOK
<1>2. ASSUME NEW t \in TaskNums PROVE stage[t] \notin {"refused", "passed", "counted"}
  BY DEF PoolInv, Conduct, RefusedLate, InFlight
<1>3. QED
  BY <1>1, <1>2 DEF AllDone, Counted, Stages

\* It stays so when the client produces no more.
LEMMA DoneStays ==
  ASSUME PoolInv, Next, client.at # "producing", AllDone
  PROVE  AllDone'
<1> TypeOK /\ Custody
  BY DEF PoolInv, IInv
<1>1. ASSUME NEW t \in TaskNums PROVE stage'[t] \in {"unborn", "done"}
  BY StageMoves DEF AllDone
<1>2. QED
  BY <1>1 DEF AllDone

\* In a calm runner only workers that hold the lock are on the path.
LEMMA CalmPath ==
  ASSUME PoolInv, Calm, NEW p \in Procs, pc[p] \in NotifyPath
  PROVE  notifierLock = p /\ p \in Threads
         /\ client.at \notin {"renewing", "clearing"} /\ notifierLock # NoProc
<1>1. p # Timer
  BY DEF Calm, TimerWaits, NotifyPath
<1>2. notifierLock = p
  BY <1>1 DEF PoolInv, Cancelled, Calm
<1>3. QED
  BY <1>2, NamesAssumption DEF PoolInv, Locks

\* A step of notifyFinished in a calm runner.
LEMMA NotifyCalm ==
  ASSUME PoolInv, PoolInv', ClientInv, CalmInv, Next, Calm, NEW p \in Procs, NotifyStep(p)
  PROVE  ~Panicked' /\ Fresh' /\ Guarded' /\ Told'
<1> /\ WorkTypeOK /\ NotifyTypeOK /\ CallTypeOK /\ Locks
    /\ ~Panicked /\ Fresh /\ Guarded /\ Told
  BY DEF PoolInv, IInv, TypeOK, CalmInv
<1>0. UNCHANGED <<client, notifier, stage>>
  BY DEF NotifyStep, NotifyCheck, NotifyAim, NotifySend, NotifyMark, NotifyClose
<1>1. pc[p] \in NotifyPath
  BY DEF NotifyStep, NotifyCheck, NotifyAim, NotifySend, NotifyMark, NotifyClose, NotifyPath
<1>2. /\ notifierLock = p /\ notifierLock # NoProc /\ NoProc \notin Procs
      /\ client.at \notin {"renewing", "clearing"}
  BY <1>1, CalmPath, NamesAssumption
<1>3. Told'
  BY <1>0, <1>2 DEF Told, AllDone
<1>4. pc[p] \in {"sending", "closing"} => target[p] = notifier /\ ~chan[notifier].closed
  BY <1>2 DEF Locks, Guarded, NotifyPath
<1>5. ~Panicked'
  <2>1. ~NotifySend(p) \/ pc'[p] = "marking"
    BY <1>4 DEF NotifySend, Goto, WorkTypeOK
  <2>2. pc'[p] # "panicked"
    BY <1>2, <1>4, <2>1 DEF NotifyStep, NotifyCheck, NotifyAim, NotifyMark, NotifyClose,
       NotifyReturn, CancelReturn, Goto, WorkTypeOK
  <2>3. \A q \in Procs : q # p => pc'[q] = pc[q]
    BY DEF NotifyStep, NotifyCheck, NotifyAim, NotifySend, NotifyMark, NotifyClose,
       NotifyReturn, CancelReturn, Goto, WorkTypeOK
  <2>4. QED
    BY <1>0, <2>2, <2>3 DEF Panicked
<1>6. Fresh'
  <2>1. notifier = 0 => chan'[1] = chan[1]
    BY <1>4 DEF NotifyStep, NotifyCheck, NotifyAim, NotifySend, NotifyMark, NotifyClose,
       NotifyTypeOK
  <2>2. QED
    BY <1>0, <1>2, <2>1 DEF Fresh
<1>7. Guarded'
  <2>1. CASE NotifyCheck(p)
    <3>1. UNCHANGED <<chan, notifierClosed>>
      BY <2>1 DEF NotifyCheck
    <3>2. notifierLock' = NoProc
          \/ (notifierLock' = p /\ ~notifierClosed /\ pc'[p] = "notifying")
      BY <1>2, <2>1 DEF NotifyCheck, NotifyReturn, Goto, WorkTypeOK
    <3>3. QED
      BY <1>0, <1>2, <3>1, <3>2 DEF Guarded
  <2>2. CASE NotifyAim(p)
    <3>1. UNCHANGED <<chan, notifierClosed, notifierLock>>
      BY <2>2 DEF NotifyAim
    <3>2. \/ pc[p] = "notifying" /\ pc'[p] = "sending"
          \/ pc[p] = "shutting" /\ pc'[p] = "closing"
      BY <2>2 DEF NotifyAim, Goto, WorkTypeOK
    <3>3. QED
      BY <1>0, <1>2, <3>1, <3>2 DEF Guarded, NotifyPath
  <2>3. CASE NotifySend(p)
    <3>1. UNCHANGED <<notifierClosed, notifierLock>> /\ pc[p] = "sending" /\ pc'[p] = "marking"
          /\ chan'[notifier].closed = chan[notifier].closed
      BY <1>4, <2>3 DEF NotifySend, Goto, WorkTypeOK, NotifyTypeOK
    <3>2. QED
      BY <1>0, <1>2, <3>1 DEF Guarded, NotifyPath
  <2>4. CASE NotifyMark(p)
    <3>1. UNCHANGED <<chan, notifierLock>> /\ notifierClosed' /\ pc[p] = "marking"
      BY <2>4 DEF NotifyMark
    <3>2. QED
      BY <1>0, <1>2, <3>1 DEF Guarded, NotifyPath
  <2>5. CASE NotifyClose(p)
    <3>1. UNCHANGED notifierClosed /\ pc[p] = "closing" /\ notifierLock' = NoProc
      BY <1>2, <1>4, <2>5 DEF NotifyClose, NotifyReturn
    <3>2. QED
      BY <1>2, <3>1 DEF Guarded
  <2>6. QED
    BY <2>1, <2>2, <2>3, <2>4, <2>5 DEF NotifyStep
<1>8. QED
  BY <1>3, <1>5, <1>6, <1>7

\* A step of the client of a calm runner.
LEMMA ClientCalm ==
  ASSUME PoolInv, ClientInv, CalmInv, Next, Calm, ClientStep
  PROVE  ~Panicked' /\ Fresh' /\ Guarded' /\ Told'
<1> /\ NotifyTypeOK /\ CallTypeOK /\ Locks /\ ResetOnce /\ RenewOnce /\ Watches
    /\ ~Panicked /\ Fresh /\ Guarded /\ Told
    /\ Client \notin Procs /\ NoProc \notin Procs
  BY NamesAssumption DEF PoolInv, IInv, TypeOK, CalmInv, ClientInv
<1>0. UNCHANGED <<pc, stage>>
  BY DEF ClientStep, ClientReset, ClientRenew, ClientClear, ClientWait, ClientReceive, ClientDone
<1>1. ~Panicked'
  BY <1>0 DEF Panicked
<1>2. CASE ClientReset
  <2>1. /\ notifierLock = NoProc /\ notifierLock' \in {NoProc, Client} /\ InFlight = {}
        /\ UNCHANGED <<notifier, chan, notifierClosed>>
        /\ client.at = "producing" /\ client'.at \in {"settled", "renewing"}
        /\ client'.at = "settled" => totalTasksInQueue = 0
    BY <1>2 DEF ClientReset, ClientStops, CallTypeOK, Calm
  <2>2. client'.at = "settled" => AllDone
    BY <2>1, EmptyMeansDone DEF Calm
  <2>3. Told'
    BY <1>0, <2>1, <2>2 DEF Told, AllDone
  <2>4. Fresh' /\ Guarded'
    BY <1>0, <2>1 DEF Fresh, Guarded, RenewOnce
  <2>5. QED
    BY <1>1, <2>3, <2>4
<1>3. CASE ClientRenew
  <2>1. /\ client.at = "renewing" /\ client'.at = "clearing" /\ notifier' = 1 /\ notifier = 0
        /\ notifierLock = Client /\ UNCHANGED <<chan, notifierClosed, notifierLock>>
    BY <1>3 DEF ClientRenew, CallTypeOK, RenewOnce, Locks
  <2>2. QED
    BY <1>1, <2>1 DEF Fresh, Guarded, Told
<1>4. CASE ClientClear
  <2>1. /\ client.at = "clearing" /\ client'.at = "settled" /\ notifier' = 1 /\ notifier = 1
        /\ notifierLock' = NoProc /\ UNCHANGED chan
    BY <1>4 DEF ClientClear, CallTypeOK, RenewOnce
  <2>2. QED
    BY <1>1, <2>1 DEF Fresh, Guarded, Told
<1>5. CASE ClientWait
  <2>1. /\ client.at \in {"producing", "settled"} /\ client'.at = "waiting"
        /\ client'.wasReset = client.wasReset
        /\ UNCHANGED <<notifier, chan, notifierClosed, notifierLock>>
    BY <1>5 DEF ClientWait, ClientStops, CallTypeOK
  <2>2. QED
    BY <1>0, <1>1, <2>1 DEF Fresh, Guarded, Told, AllDone, ResetOnce
<1>6. CASE ClientReceive
  <2>1. /\ client.at = "waiting" /\ client'.at = "notified" /\ client'.wasReset = client.wasReset
        /\ chan[notifier].full \/ chan[notifier].closed
        /\ UNCHANGED <<notifier, notifierClosed, notifierLock>>
        /\ chan'[notifier].closed = chan[notifier].closed
        /\ notifier = 0 => chan'[1] = chan[1]
    BY <1>6 DEF ClientReceive, CallTypeOK, NotifyTypeOK, Watches
  <2>2. QED
    BY <1>0, <1>1, <2>1 DEF Fresh, Guarded, Told, AllDone
<1>7. CASE ClientDone
  <2>1. /\ client.at \in {"producing", "notified"} /\ client'.at = "done"
        /\ client'.wasReset = client.wasReset
        /\ UNCHANGED <<notifier, chan, notifierClosed, notifierLock>>
    BY <1>7 DEF ClientDone, ClientStops, CallTypeOK
  <2>2. QED
    BY <1>0, <1>1, <2>1 DEF Fresh, Guarded, Told, AllDone, ResetOnce
<1>8. QED
  BY <1>2, <1>3, <1>4, <1>5, <1>6, <1>7 DEF ClientStep

\* Every step of a runner that stays calm keeps it in order.
LEMMA NextCalm ==
  ASSUME PoolInv, ClientInv, CalmInv, Next
  PROVE  CalmInv'
<1> SUFFICES ASSUME Calm' PROVE ~Panicked' /\ Fresh' /\ Guarded' /\ Told'
  BY DEF CalmInv
<1> /\ Calm /\ ~TimerElapse /\ \A p \in Procs : ~CancelDrain(p)
  BY CalmBefore
<1> PoolInv'
  BY NextPoolInv
<1> /\ TypeOK /\ Custody /\ ThreadNumbering /\ WorkTypeOK /\ TaskTypeOK /\ CallTypeOK /\ Locks
    /\ TimerIdle /\ ResetOnce /\ ~Panicked /\ Fresh /\ Guarded /\ Told
    /\ NoProc \notin Procs /\ \A th \in Threads : th \in Procs
  BY NamesAssumption DEF PoolInv, IInv, TypeOK, Custody, CalmInv, ClientInv, Procs
<1>1. ASSUME NEW t \in TaskNums PROVE stage'[t] # "panicked"
  <2>1. CASE stage[t] = "counted" /\ closed
    BY <2>1 DEF PoolInv, Conduct, ClosedByDone, InFlightFirst, InFlight, Calm
  <2>2. stage[t] # "panicked"
    BY DEF Panicked
  <2>3. QED
    BY <2>1, <2>2, StageMoves
<1>2. client.wasReset /\ AllDone => AllDone'
  BY DoneStays DEF ResetOnce
<1>3. CASE OffPath
  <2>1. /\ UNCHANGED <<notifier, chan, notifierClosed, notifierLock, client>>
        /\ \A p \in Procs : pc[p] \in OnPath => pc'[p] = pc[p]
        /\ \A p \in Procs : pc'[p] = "panicked" => pc[p] = "panicked"
    BY <1>3 DEF OffPath, Goto, WorkTypeOK, OnPath
  <2>2. ~Panicked'
    BY <1>1, <2>1 DEF Panicked
  <2>3. Guarded'
    BY <2>1 DEF Guarded, Locks, OnPath, NotifyPath
  <2>4. Fresh' /\ Told'
    BY <1>2, <2>1 DEF Fresh, Told
  <2>5. QED
    BY <2>2, <2>3, <2>4
<1>4. ASSUME NEW th \in Threads, ThreadCheckFinished(th)
      PROVE  ~Panicked' /\ Fresh' /\ Guarded' /\ Told'
  <2>1. /\ UNCHANGED <<notifier, chan, notifierClosed, client, stage>> /\ notifierLock = NoProc
        /\ notifierLock' = NoProc
           \/ (notifierLock' = th /\ pc'[th] = "checking" /\ totalTasksInQueue = 0)
        /\ pc' = [pc EXCEPT ![th] = pc'[th]] /\ pc'[th] # "panicked"
    BY <1>4 DEF ThreadCheckFinished, Goto, WorkTypeOK
  <2>2. ~Panicked'
    BY <2>1 DEF Panicked, WorkTypeOK
  <2>3. Guarded' /\ Fresh'
    BY <2>1 DEF Guarded, Fresh
  <2>4. Told'
    <3>1. CASE client.wasReset /\ totalTasksInQueue = 0
      <4>1. InFlight = {}
        BY <3>1 DEF ResetOnce, PoolInv, Conduct, InFlightFirst
      <4>2. AllDone
        BY <3>1, <4>1, EmptyMeansDone DEF Calm
      <4>3. QED
        BY <2>1, <4>2 DEF Told, AllDone
    <3>2. CASE ~(client.wasReset /\ totalTasksInQueue = 0)
      BY <2>1, <3>2 DEF Told, AllDone
    <3>3. QED
      BY <3>1, <3>2
  <2>5. QED
    BY <2>2, <2>3, <2>4
<1>5. QED
  BY <1>3, <1>4, NotifyCalm, ClientCalm, PathSteps DEF Procs

-----------------------------------------------------------------------------
(* Without failFast only the cancellers cancel.                              *)

\* A worker gets into Cancel only with failFast.
NoSelfCancel ==
  ~FailFast => \A th \in Threads :
    /\ pc[th] \notin {"cancelling", "once", "draining", "dequeuing"}
    /\ pc[th] \in NotifyPath => notifierLock = th

\* Without cancellers, too, nobody does.
NeverCancels == Cancellers = {} /\ ~FailFast => ~cancel

\* When every canceller forces, the channel is closed before it is emptied, and
\* it is empty once one of them has gone past it.
PastDrain ==
  cancelOnce = "done" \/ \E c \in Cancellers : pc[c] \in NotifyPath \cup {"returned"}
Emptied ==
  ~FailFast /\ FALSE \notin Forces =>
    /\ \A c \in Cancellers : pc[c] \notin {"idle", "forcing"} => closed
    /\ PastDrain => closed /\ tasks = <<>>

\* At the beginning nobody has cancelled.
LEMMA InitSelfCancel == Init => NoSelfCancel /\ NeverCancels /\ Emptied
BY NamesAssumption
DEF Init, NoSelfCancel, NeverCancels, Emptied, PastDrain, NotifyPath, Procs

\* A worker without failFast stays out of Cancel, and on the path only with
\* the lock.
LEMMA NextNoSelfCancel ==
  ASSUME TypeOK, ThreadNumbering, Locks, NoSelfCancel, Next
  PROVE  NoSelfCancel'
<1> SUFFICES ASSUME ~FailFast PROVE NoSelfCancel'
  BY DEF NoSelfCancel
<1> /\ WorkTypeOK /\ CountTypeOK /\ NoProc \notin Procs /\ \A th \in Threads : th \in Procs
    /\ Timer \notin Threads /\ Cancellers \cap Threads = {} /\ Client \notin Procs
  BY NamesAssumption DEF TypeOK, Procs
<1> DEFINE inside == {"cancelling", "once", "draining", "dequeuing"}
<1>a. ASSUME NEW p \in Procs, NEW l, Goto(p, l), UNCHANGED notifierLock,
             p \in Threads => l \notin inside \cup NotifyPath
      PROVE  NoSelfCancel'
  BY <1>a DEF NoSelfCancel, Goto, WorkTypeOK
<1>b. ASSUME UNCHANGED pc, UNCHANGED notifierLock PROVE NoSelfCancel'
  BY <1>b DEF NoSelfCancel
<1>1. CASE \/ AddTask \/ RunSpawned \/ RunReturn \/ ResizeAssign
           \/ \E n \in ParallelChoices : ResizeStart(n)
           \/ \E t \in TaskNums : AddTaskCount(t) \/ AddTaskSend(t) \/ AddTaskPanic(t)
  <2>1. UNCHANGED <<pc, notifierLock>>
    BY <1>1 DEF AddTask, AddTaskCount, AddTaskSend, AddTaskPanic, RunSpawned, RunReturn,
       ResizeAssign, ResizeStart
  <2>2. QED
    BY <1>b, <2>1
<1>2. CASE RunSpawn \/ ResizeAdd
  <2>1. threadCount \in Threads /\ Goto(threadCount, "starting") /\ UNCHANGED notifierLock
    BY <1>2, AddThreadTypes DEF RunSpawn, ResizeAdd
  <2>2. QED
    BY <1>a, <2>1 DEF NotifyPath
<1>3. CASE RunStart \/ TimerElapse
  <2>1. UNCHANGED notifierLock /\ (UNCHANGED pc \/ \E l : Goto(Timer, l))
    BY <1>3 DEF RunStart, TimerElapse
  <2>2. QED
    BY <1>a, <1>b, <2>1 DEF Procs
<1>4. ASSUME NEW th \in Threads, LoopStep(th) PROVE NoSelfCancel'
  <2>1. CASE ThreadCheckFinished(th)
    <3>1. /\ notifierLock = NoProc
          /\ \/ UNCHANGED notifierLock /\ Goto(th, "result")
             \/ notifierLock' = th /\ Goto(th, "checking")
      BY <2>1 DEF ThreadCheckFinished
    <3>2. CASE UNCHANGED notifierLock /\ Goto(th, "result")
      BY <1>a, <3>2 DEF NotifyPath
    <3>3. CASE notifierLock' = th /\ Goto(th, "checking")
      BY <3>1, <3>3 DEF NoSelfCancel, Goto, WorkTypeOK
    <3>4. QED
      BY <3>1, <3>2, <3>3
  <2>2. CASE ~ThreadCheckFinished(th)
    <3>1. UNCHANGED notifierLock
      BY <1>4, <2>2 DEF LoopStep, ThreadStart, ThreadReceive, ThreadEnd, ThreadBegin, ThreadRan,
         ThreadUncount, ThreadResult, ThreadTrim
    <3>2. \E l \in {"receiving", "received", "ended", "running", "ran", "finishing", "result",
                   "trimming", "trimmed"} : Goto(th, l)
      BY <1>4, <2>2 DEF LoopStep, ThreadStart, ThreadReceive, ThreadEnd, ThreadBegin, ThreadRan,
         ThreadUncount, ThreadResult, ThreadTrim
    <3>3. QED
      BY <1>a, <3>1, <3>2 DEF NotifyPath
  <2>3. QED
    BY <2>1, <2>2
<1>5. ASSUME NEW p \in Threads \cup Cancellers,
             CancelStore(p) \/ CancelStep(p) \/ (p \in Cancellers /\ CancelForce(p))
      PROVE  NoSelfCancel'
  <2>1. p \notin Threads
    BY <1>5 DEF NoSelfCancel, CancelStore, CancelStep, CancelOnce, CancelDrain, CancelDequeue
  <2>2. UNCHANGED notifierLock /\ \E l : Goto(p, l)
    BY <1>5 DEF CancelStore, CancelStep, CancelOnce, CancelDrain, CancelDequeue, CancelForce,
       CancelReturn
  <2>3. QED
    BY <1>a, <2>1, <2>2 DEF Procs
<1>6. ASSUME NEW p \in Procs, NotifyStep(p) PROVE NoSelfCancel'
  <2>1. pc[p] \in NotifyPath
    BY <1>6 DEF NotifyStep, NotifyCheck, NotifyAim, NotifySend, NotifyMark, NotifyClose, NotifyPath
  <2>2. CASE p \notin Threads
    <3>1. UNCHANGED notifierLock
      BY <1>6, <2>2 DEF NotifyStep, NotifyCheck, NotifyAim, NotifySend, NotifyMark, NotifyClose,
         NotifyReturn, Locks
    <3>2. \E l : Goto(p, l)
      BY <1>6 DEF NotifyStep, NotifyCheck, NotifyAim, NotifySend, NotifyMark, NotifyClose,
         NotifyReturn, CancelReturn
    <3>3. QED
      BY <1>a, <2>2, <3>1, <3>2
  <2>3. CASE p \in Threads
    <3>1. notifierLock = p /\ \A th \in Threads : th # p => pc[th] \notin NotifyPath
      BY <2>1, <2>3 DEF NoSelfCancel
    <3>2. \/ \E l \in OnPath : Goto(p, l) /\ UNCHANGED notifierLock
          \/ Goto(p, "result")
      BY <1>6, <3>1 DEF NotifyStep, NotifyCheck, NotifyAim, NotifySend, NotifyMark, NotifyClose,
         NotifyReturn, NotifyPath, OnPath
    <3>3. QED
      BY <2>3, <3>1, <3>2 DEF NoSelfCancel, Goto, WorkTypeOK, NotifyPath, OnPath
  <2>4. QED
    BY <2>2, <2>3
<1>7. CASE ClientStep
  <2>1. UNCHANGED pc
    BY <1>7 DEF ClientStep, ClientReset, ClientRenew, ClientClear, ClientWait, ClientReceive,
       ClientDone
  <2>2. notifierLock' = notifierLock \/ notifierLock \notin Procs
    BY <1>7 DEF ClientStep, ClientReset, ClientRenew, ClientClear, ClientWait, ClientReceive,
       ClientDone, Locks
  <2>3. QED
    BY <2>1, <2>2 DEF NoSelfCancel
<1>8. QED
  BY <1>1, <1>2, <1>3, <1>4, <1>5, <1>6, <1>7, Steps

\* Only the cancellers of such a runner move in Cancel, and the first one
\* past the drain has found the channel closed and empty.
LEMMA NextEmptied ==
  ASSUME TypeOK, ThreadNumbering, Locks, NoSelfCancel, Emptied, Next
  PROVE  Emptied'
<1> SUFFICES ASSUME ~FailFast, FALSE \notin Forces PROVE Emptied'
  BY DEF Emptied
<1> /\ WorkTypeOK /\ CountTypeOK /\ \A th \in Threads : th \in Procs
    /\ Timer \notin Threads /\ Timer \notin Cancellers /\ Cancellers \cap Threads = {}
    /\ \A c \in Cancellers : c \in Procs
  BY NamesAssumption DEF TypeOK, Procs
<1>c. closed => closed'
  BY ClosedStays
<1>e. closed /\ tasks = <<>> => closed' /\ tasks' = <<>>
  BY <1>c, EmptyStays
<1>a. ASSUME UNCHANGED cancelOnce, \A c \in Cancellers : pc'[c] = pc[c] PROVE Emptied'
  BY <1>a, <1>c, <1>e DEF Emptied, PastDrain
<1>b. ASSUME NEW p \in Procs \ Cancellers, NEW l, Goto(p, l), UNCHANGED cancelOnce PROVE Emptied'
  BY <1>a, <1>b DEF Goto, WorkTypeOK
<1>d. ASSUME NEW p \in Cancellers, NEW l, Goto(p, l),
             l \in {"idle", "forcing"} \/ closed',
             l \in NotifyPath \cup {"returned"} \/ cancelOnce' = "done" =>
               PastDrain \/ cancelOnce = "done" \/ (closed /\ tasks = <<>>)
      PROVE  Emptied'
  <2>1. \A c \in Cancellers : c # p => pc'[c] = pc[c]
    BY <1>d DEF Goto, WorkTypeOK
  <2>2. pc'[p] = l
    BY <1>d DEF Goto, WorkTypeOK
  <2>3. PastDrain' => PastDrain \/ (closed /\ tasks = <<>>)
    BY <1>d, <2>1, <2>2 DEF PastDrain
  <2>4. QED
    BY <1>c, <1>d, <1>e, <2>1, <2>2, <2>3 DEF Emptied
<1>1. CASE \/ AddTask \/ RunSpawned \/ RunReturn \/ ResizeAssign \/ ClientStep
           \/ \E n \in ParallelChoices : ResizeStart(n)
           \/ \E t \in TaskNums : AddTaskCount(t) \/ AddTaskSend(t) \/ AddTaskPanic(t)
  <2>1. UNCHANGED <<pc, cancelOnce>>
    BY <1>1 DEF AddTask, AddTaskCount, AddTaskSend, AddTaskPanic, RunSpawned, RunReturn,
       ResizeAssign, ResizeStart, ClientStep, ClientReset, ClientRenew, ClientClear, ClientWait,
       ClientReceive, ClientDone
  <2>2. QED
    BY <1>a, <2>1
<1>2. CASE RunSpawn \/ ResizeAdd
  <2>1. threadCount \in Threads /\ Goto(threadCount, "starting") /\ UNCHANGED cancelOnce
    BY <1>2, AddThreadTypes DEF RunSpawn, ResizeAdd
  <2>2. QED
    BY <1>b, <2>1
<1>3. CASE RunStart \/ TimerElapse
  <2>1. UNCHANGED cancelOnce /\ (UNCHANGED pc \/ \E l : Goto(Timer, l))
    BY <1>3 DEF RunStart, TimerElapse
  <2>2. QED
    BY <1>a, <1>b, <2>1 DEF Procs
<1>4. ASSUME NEW th \in Threads, LoopStep(th) PROVE Emptied'
  <2>1. UNCHANGED cancelOnce /\ \E l : Goto(th, l)
    BY <1>4 DEF LoopStep, ThreadStart, ThreadReceive, ThreadEnd, ThreadBegin, ThreadRan,
       ThreadUncount, ThreadCheckFinished, ThreadResult, ThreadTrim
  <2>2. QED
    BY <1>b, <2>1
<1>5. ASSUME NEW p \in Threads \cup Cancellers, CancelStore(p) \/ CancelStep(p) PROVE Emptied'
  <2>1. p \in Cancellers
    BY <1>5 DEF NoSelfCancel, CancelStore, CancelStep, CancelOnce, CancelDrain, CancelDequeue
  <2>2. CASE CancelStore(p)
    <3>1. Goto(p, "forcing") /\ UNCHANGED cancelOnce
      BY <2>1, <2>2, ConstantsAssumption DEF CancelStore
    <3>2. QED
      BY <1>d, <2>1, <3>1 DEF NotifyPath, PastDrain
  <2>3. CASE CancelStep(p)
    <3>1. closed
      BY <2>1, <2>3 DEF Emptied, CancelStep, CancelOnce, CancelDrain, CancelDequeue
    <3>2. \/ Goto(p, "draining") /\ cancelOnce' # "done"
          \/ Goto(p, "draining") /\ UNCHANGED cancelOnce
          \/ Goto(p, "dequeuing") /\ UNCHANGED cancelOnce
          \/ (cancelOnce = "done" \/ tasks = <<>>) /\ \E l : Goto(p, l)
      BY <2>3 DEF CancelStep, CancelOnce, CancelDrain, CancelDequeue, CancelReturn
    <3>3. QED
      BY <1>c, <1>d, <2>1, <3>1, <3>2 DEF NotifyPath, PastDrain
  <2>4. QED
    BY <1>5, <2>2, <2>3
<1>6. ASSUME NEW c \in Cancellers, CancelForce(c) PROVE Emptied'
  <2>1. closed' /\ Goto(c, "once") /\ UNCHANGED cancelOnce
    BY <1>6 DEF CancelForce
  <2>2. QED
    BY <1>d, <2>1 DEF NotifyPath, PastDrain
<1>7. ASSUME NEW p \in Procs, NotifyStep(p) PROVE Emptied'
  <2>1. pc[p] \in NotifyPath /\ \E l : Goto(p, l)
    BY <1>7 DEF NotifyStep, NotifyCheck, NotifyAim, NotifySend, NotifyMark, NotifyClose, NotifyPath,
       NotifyReturn, CancelReturn
  <2>2. CASE p \in Cancellers
    <3>1. PastDrain
      BY <2>1, <2>2 DEF PastDrain
    <3>2. closed'
      BY <1>c, <3>1 DEF Emptied
    <3>3. QED
      BY <1>d, <2>1, <2>2, <3>1, <3>2
  <2>3. CASE p \notin Cancellers
    <3>1. p = Timer \/ notifierLock = p
      BY <2>1, <2>3 DEF Procs, NoSelfCancel
    <3>2. UNCHANGED cancelOnce
      BY <1>7, <3>1 DEF NotifyStep, NotifyCheck, NotifyAim, NotifySend, NotifyMark, NotifyClose,
         NotifyReturn
    <3>3. QED
      BY <1>b, <2>1, <2>3, <3>2
  <2>4. QED
    BY <2>2, <2>3
<1>8. QED
  BY <1>1, <1>2, <1>3, <1>4, <1>5, <1>6, <1>7, Steps

\* Without cancellers and failFast the flag is never set.
LEMMA NextNeverCancels ==
  ASSUME NoSelfCancel, NeverCancels, Next
  PROVE  NeverCancels'
<1> SUFFICES ASSUME Cancellers = {}, ~FailFast, cancel' PROVE FALSE
  BY DEF NeverCancels
<1>1. ~cancel
  BY DEF NeverCancels
<1>2. \A p \in Threads \cup Cancellers : ~CancelStore(p) /\ ~CancelStep(p)
  BY DEF NoSelfCancel, CancelStore, CancelStep, CancelOnce, CancelDrain, CancelDequeue
<1>3. ASSUME NEW th \in Threads, LoopStep(th) PROVE cancel' = cancel
  BY <1>3 DEF LoopStep, ThreadStart, ThreadReceive, ThreadEnd, ThreadBegin, ThreadRan,
     ThreadUncount, ThreadCheckFinished, ThreadResult, ThreadTrim
<1>4. ASSUME NEW p \in Procs, NotifyStep(p) PROVE cancel' = cancel
  BY <1>4 DEF NotifyStep, NotifyCheck, NotifyAim, NotifySend, NotifyMark, NotifyClose
<1>5. CASE \/ AddTask \/ RunStart \/ RunSpawn \/ RunSpawned \/ RunReturn \/ ResizeAdd
           \/ ResizeAssign \/ TimerElapse \/ \E n \in ParallelChoices : ResizeStart(n)
           \/ \E t \in TaskNums : AddTaskCount(t) \/ AddTaskSend(t) \/ AddTaskPanic(t)
  BY <1>1, <1>5 DEF AddTask, AddTaskCount, AddTaskSend, AddTaskPanic, RunStart, RunSpawn,
     RunSpawned, RunReturn, ResizeAdd, ResizeAssign, ResizeStart, TimerElapse
<1>6. CASE ClientStep
  BY <1>1, <1>6 DEF ClientStep, ClientReset, ClientRenew, ClientClear, ClientWait, ClientReceive,
     ClientDone
<1>7. QED
  BY <1>1, <1>2, <1>3, <1>4, <1>5, <1>6, Steps

-----------------------------------------------------------------------------
(* The invariant that carries the theorems below.                           *)

NotifyInv ==
  /\ PoolInv /\ Marked /\ Renewed /\ Finished /\ ClientInv /\ CalmInv
  /\ NoSelfCancel /\ NeverCancels /\ Emptied

\* It holds at the beginning, and every step keeps it.
LEMMA NotifyInvariant == Spec => []NotifyInv
<1>1. Init => NotifyInv
  BY InitPoolInv, InitFinish, InitCalm, InitSelfCancel DEF NotifyInv
<1>2. NotifyInv /\ [Next]_vars => NotifyInv'
  <2>1. ASSUME NotifyInv, Next PROVE NotifyInv'
    <3>1. PoolInv /\ TypeOK /\ ThreadNumbering /\ Locks
      BY <2>1 DEF NotifyInv, PoolInv, IInv, Custody
    <3>2. PoolInv' /\ Marked' /\ Renewed' /\ Finished'
      BY <2>1, NextPoolInv, NextFinish DEF NotifyInv
    <3>3. ClientInv' /\ CalmInv'
      BY <2>1, NextClientInv, NextCalm DEF NotifyInv
    <3>4. NoSelfCancel' /\ NeverCancels' /\ Emptied'
      BY <2>1, <3>1, NextNoSelfCancel, NextNeverCancels, NextEmptied DEF NotifyInv
    <3>5. QED
      BY <3>2, <3>3, <3>4 DEF NotifyInv
  <2>2. ASSUME NotifyInv, UNCHANGED vars PROVE NotifyInv'
    <3>0. /\ UNCHANGED <<taskId, stage, failed, tasks, totalTasksInQueue, errors>>
          /\ UNCHANGED <<closed, cancel, cancelOnce, started>>
          /\ UNCHANGED <<notifier, chan, notifierClosed, notifierLock, target>>
          /\ UNCHANGED <<client, pc>>
      BY <2>2 DEF vars
    <3>1. PoolInv'
      BY <2>2, NextPoolInv DEF NotifyInv
    <3>2. Marked' /\ Renewed' /\ Finished'
      BY <2>2, <3>0 DEF NotifyInv, Marked, Renewed, Finished, Closer, Finishing
    <3>3. ClientInv'
      BY <2>2, <3>0 DEF NotifyInv, ClientInv, ResetOnce, RenewOnce, Watches
    <3>4. CalmInv'
      BY <2>2, <3>0
      DEF NotifyInv, CalmInv, Calm, TimerWaits, Panicked, Fresh, Guarded, Told, AllDone
    <3>5. NoSelfCancel' /\ NeverCancels' /\ Emptied'
      BY <2>2, <3>0 DEF NotifyInv, NoSelfCancel, NeverCancels, Emptied, PastDrain
    <3>6. QED
      BY <3>1, <3>2, <3>3, <3>4, <3>5 DEF NotifyInv
  <2>3. QED
    BY <2>1, <2>2
<1>3. QED
  BY <1>1, <1>2, PTL DEF Spec

\* Whichever worker executes the last task, and whatever a reset, the timer or
\* Cancel does meanwhile, the channel of the finish notification gets closed.
THEOREM NoLostFinishAlways == Spec => []NoLostFinish
<1>1. NotifyInv => NoLostFinish
  <2>1. SUFFICES ASSUME NotifyInv, NotifyEnabled, started > 0, totalTasksInQueue = 0,
                        ~FinishPending
                 PROVE  chan[notifier].closed
    BY DEF NoLostFinish
  <2>2. \A p \in Procs : pc[p] \notin OnPath \cup {"finishing"}
    BY <2>1 DEF FinishPending, OnPath, NotifyPath
  <2>3. notifierLock \notin Procs
    BY <2>1, <2>2 DEF NotifyInv, PoolInv, Locks
  <2>4. ~Finishing
    BY <2>2 DEF Finishing, Procs
  <2>5. QED
    BY <2>1, <2>2, <2>3, <2>4 DEF NotifyInv, Finished, Closer, OnPath, NotifyPath
<1>2. QED
  BY <1>1, NotifyInvariant, PTL

\* ResetFinishNotificationIfActive keeps the promise of its comment: the client
\* is told of the end only when every task has been executed.
THEOREM ResetGuaranteeAlways == Spec => []ResetGuarantee
<1>1. NotifyInv => ResetGuarantee
  BY DEF NotifyInv, CalmInv, Calm, Told, AllDone, ResetGuarantee
<1>2. QED
  BY <1>1, NotifyInvariant, PTL

\* Nothing sends on a closed channel or closes one twice while only the workers
\* and the reset, which take finishedNotifierLock, handle it.
THEOREM NoPanicAlways == Spec => []NoPanic
<1>1. NotifyInv => NoPanic
  BY DEF NotifyInv, NeverCancels, CalmInv, Calm, NoPanic
<1>2. QED
  BY <1>1, NotifyInvariant, PTL

\* When Cancel(true) returns, to whichever of its callers, the tasks channel is
\* closed and empty.
THEOREM CancelEmptiesQueueAlways == Spec => []CancelEmptiesQueue
<1>1. NotifyInv => CancelEmptiesQueue
  BY DEF NotifyInv, Emptied, PastDrain, CancelEmptiesQueue
<1>2. QED
  BY <1>1, NotifyInvariant, PTL
=============================================================================
