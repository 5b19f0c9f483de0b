---------------------------- MODULE RunnerProofs ----------------------------
(***************************************************************************)
(* Theorems about Runner, for any number of tasks, threads and cancellers: *)
(* its types, where its tasks are, and what its counters count.            *)
(***************************************************************************)
EXTENDS RunnerProperties, TLAPS, SequenceTheorems, FiniteSetTheorems

USE DEF taskVars, flagVars, countVars, notifyVars, callVars, otherVars, quietVars, coreVars

-----------------------------------------------------------------------------
(* Type correctness.                                                        *)

\* Arithmetic on uint32 stays within it, and a parallelism is positive.
LEMMA CounterTypes ==
  /\ \A n \in UInt32 : Increment(n) \in UInt32 /\ Decrement(n) \in UInt32
  /\ 0 \in UInt32
  /\ \A n \in Int : AtLeastOne(n) \in Nat \ {0}
BY ConstantsAssumption DEF UInt32, Increment, Decrement, AtLeastOne

\* What a receive takes from a queue of task numbers, and what it leaves.
LEMMA QueueTypes ==
  ASSUME tasks \in Seq(TaskNums), tasks # <<>>
  PROVE  Head(tasks) \in TaskNums /\ Tail(tasks) \in Seq(TaskNums)
BY HeadTailProperties

\* A send, a receive or a close leaves channels channels.
ChanType == [{0, 1} -> [full : BOOLEAN, closed : BOOLEAN]]

\* What the channels hold after a send or a receive.
LEMMA ChanTypes ==
  ASSUME NEW ch \in ChanType, NEW c \in {0, 1}
  PROVE  /\ \A b \in BOOLEAN : [ch EXCEPT ![c].full = b] \in ChanType
         /\ [ch EXCEPT ![c].closed = TRUE] \in ChanType
BY DEF ChanType

\* A new thread has a new number.
LEMMA AddThreadTypes ==
  ASSUME CountTypeOK, AddThread
  PROVE  threadCount \in Threads /\ threadCount' \in 0 .. MaxThreads
BY ConstantsAssumption DEF CountTypeOK, AddThread, Threads

\* The types hold at the beginning.
LEMMA InitTypes == Init => TypeOK
<1> SUFFICES ASSUME Init PROVE TypeOK
  OBVIOUS
<1>1. TaskTypeOK
  BY ConstantsAssumption, CounterTypes, EmptySeq DEF Init, TaskTypeOK, Stages
<1>2. CountTypeOK
  BY ConstantsAssumption, CounterTypes DEF Init, CountTypeOK
<1>3. NotifyTypeOK
  BY DEF Init, NotifyTypeOK
<1>4. CallTypeOK
  <2>1. run \in [at : {"idle", "spawning", "waiting", "returned"}, i : Nat]
    BY DEF Init
  <2>2. resizer \in [at : {"idle", "adding"}, new : Nat \ {0}, i : Nat, calls : Nat]
    BY DEF Init
  <2>3. client \in [at : {"producing", "renewing", "clearing", "settled", "waiting", "notified",
                          "done"}, wasReset : BOOLEAN, watched : {0, 1}]
    BY DEF Init
  <2>4. closed \in BOOLEAN /\ cancel \in BOOLEAN /\ cancelOnce \in {"fresh", "running", "done"}
    BY DEF Init
  <2>5. QED
    BY <2>1, <2>2, <2>3, <2>4 DEF CallTypeOK
<1>5. WorkTypeOK
  BY DEF Init, WorkTypeOK, Labels, Procs
<1>6. QED
  BY <1>1, <1>2, <1>3, <1>4, <1>5 DEF TypeOK

\* Every step keeps them.
LEMMA NextTypes == TypeOK /\ [Next]_vars => TypeOK'
<1> SUFFICES ASSUME TypeOK, [Next]_vars PROVE TypeOK'
  OBVIOUS
<1> TaskTypeOK /\ CountTypeOK /\ NotifyTypeOK /\ CallTypeOK /\ WorkTypeOK
  BY DEF TypeOK
<1>1. CASE AddTask
  <2>1. TaskTypeOK'
    BY <1>1, ConstantsAssumption
    DEF AddTask, Stage, Stages, TaskTypeOK, TaskNums
  <2>2. CountTypeOK' /\ NotifyTypeOK' /\ CallTypeOK' /\ WorkTypeOK'
    BY <1>1 DEF AddTask, CountTypeOK, NotifyTypeOK, CallTypeOK, WorkTypeOK
  <2>3. QED
    BY <2>1, <2>2 DEF TypeOK
<1>2. ASSUME NEW t \in TaskNums, AddTaskCount(t) PROVE TypeOK'
  <2>1. TaskTypeOK'
    BY <1>2, CounterTypes
    DEF AddTaskCount, Stage, Stages, TaskTypeOK
  <2>2. CountTypeOK' /\ NotifyTypeOK' /\ CallTypeOK' /\ WorkTypeOK'
    BY <1>2 DEF AddTaskCount, CountTypeOK, NotifyTypeOK, CallTypeOK, WorkTypeOK
  <2>3. QED
    BY <2>1, <2>2 DEF TypeOK
<1>3. ASSUME NEW t \in TaskNums, AddTaskSend(t) PROVE TypeOK'
  <2>1. TaskTypeOK'
    BY <1>3, AppendProperties
    DEF AddTaskSend, Stage, Stages, TaskTypeOK
  <2>2. CountTypeOK' /\ NotifyTypeOK' /\ CallTypeOK' /\ WorkTypeOK'
    BY <1>3 DEF AddTaskSend, CountTypeOK, NotifyTypeOK, CallTypeOK, WorkTypeOK
  <2>3. QED
    BY <2>1, <2>2 DEF TypeOK
<1>4. ASSUME NEW t \in TaskNums, AddTaskPanic(t) PROVE TypeOK'
  <2>1. TaskTypeOK'
    BY <1>4
    DEF AddTaskPanic, Stage, Stages, TaskTypeOK
  <2>2. CountTypeOK' /\ NotifyTypeOK' /\ CallTypeOK' /\ WorkTypeOK'
    BY <1>4 DEF AddTaskPanic, CountTypeOK, NotifyTypeOK, CallTypeOK, WorkTypeOK
  <2>3. QED
    BY <2>1, <2>2 DEF TypeOK
<1>5. CASE RunStart
  <2>1. CallTypeOK'
    BY <1>5
    DEF RunStart, CallTypeOK
  <2>2. WorkTypeOK'
    BY <1>5
    DEF RunStart, Goto, Labels, Procs, WorkTypeOK
  <2>3. TaskTypeOK' /\ CountTypeOK' /\ NotifyTypeOK'
    BY <1>5 DEF RunStart, TaskTypeOK, CountTypeOK, NotifyTypeOK
  <2>4. QED
    BY <2>1, <2>2, <2>3 DEF TypeOK
<1>6. CASE RunSpawn
  <2>1. CountTypeOK'
    BY <1>6, AddThreadTypes
    DEF RunSpawn, AddThread, CountTypeOK
  <2>2. CallTypeOK'
    BY <1>6
    DEF RunSpawn, CallTypeOK
  <2>3. WorkTypeOK'
    BY <1>6, AddThreadTypes
    DEF RunSpawn, Goto, Labels, AddThread, Procs, WorkTypeOK
  <2>4. TaskTypeOK' /\ NotifyTypeOK'
    BY <1>6 DEF RunSpawn, TaskTypeOK, NotifyTypeOK, AddThread
  <2>5. QED
    BY <2>1, <2>2, <2>3, <2>4 DEF TypeOK
<1>7. CASE RunSpawned
  <2>1. CallTypeOK'
    BY <1>7
    DEF RunSpawned, CallTypeOK
  <2>2. TaskTypeOK' /\ CountTypeOK' /\ NotifyTypeOK' /\ WorkTypeOK'
    BY <1>7 DEF RunSpawned, TaskTypeOK, CountTypeOK, NotifyTypeOK, WorkTypeOK
  <2>3. QED
    BY <2>1, <2>2 DEF TypeOK
<1>8. CASE RunReturn
  <2>1. CallTypeOK'
    BY <1>8
    DEF RunReturn, CallTypeOK
  <2>2. TaskTypeOK' /\ CountTypeOK' /\ NotifyTypeOK' /\ WorkTypeOK'
    BY <1>8 DEF RunReturn, TaskTypeOK, CountTypeOK, NotifyTypeOK, WorkTypeOK
  <2>3. QED
    BY <2>1, <2>2 DEF TypeOK
<1>9. ASSUME NEW th \in Threads, ThreadStart(th) PROVE TypeOK'
  <2>1. CountTypeOK'
    BY <1>9, CounterTypes
    DEF ThreadStart, CountTypeOK
  <2>2. WorkTypeOK'
    BY <1>9
    DEF ThreadStart, Goto, Labels, Procs, WorkTypeOK
  <2>3. TaskTypeOK' /\ NotifyTypeOK' /\ CallTypeOK'
    BY <1>9 DEF ThreadStart, TaskTypeOK, NotifyTypeOK, CallTypeOK
  <2>4. QED
    BY <2>1, <2>2, <2>3 DEF TypeOK
<1>10. ASSUME NEW th \in Threads, ThreadReceive(th) PROVE TypeOK'
  <2>1. TaskTypeOK'
    BY <1>10, QueueTypes
    DEF ThreadReceive, Stage, Stages, TaskTypeOK
  <2>2. WorkTypeOK'
    BY <1>10, QueueTypes
    DEF ThreadReceive, Goto, Labels, Procs, WorkTypeOK, TaskTypeOK
  <2>3. CountTypeOK' /\ NotifyTypeOK' /\ CallTypeOK'
    BY <1>10 DEF ThreadReceive, CountTypeOK, NotifyTypeOK, CallTypeOK
  <2>4. QED
    BY <2>1, <2>2, <2>3 DEF TypeOK
<1>11. ASSUME NEW th \in Threads, ThreadEnd(th) PROVE TypeOK'
  <2>1. WorkTypeOK'
    BY <1>11
    DEF ThreadEnd, Goto, Labels, Exits, Procs, WorkTypeOK
  <2>2. TaskTypeOK' /\ CountTypeOK' /\ NotifyTypeOK' /\ CallTypeOK'
    BY <1>11 DEF ThreadEnd, TaskTypeOK, CountTypeOK, NotifyTypeOK, CallTypeOK
  <2>3. QED
    BY <2>1, <2>2 DEF TypeOK
<1>12. ASSUME NEW th \in Threads, ThreadBegin(th) PROVE TypeOK'
  <2>1. TaskTypeOK'
    BY <1>12
    DEF ThreadBegin, Stage, Stages, TaskTypeOK, WorkTypeOK, Procs
  <2>2. CountTypeOK'
    BY <1>12, CounterTypes
    DEF ThreadBegin, CountTypeOK
  <2>3. WorkTypeOK'
    BY <1>12
    DEF ThreadBegin, Goto, Labels, Procs, WorkTypeOK
  <2>4. NotifyTypeOK' /\ CallTypeOK'
    BY <1>12 DEF ThreadBegin, NotifyTypeOK, CallTypeOK
  <2>5. QED
    BY <2>1, <2>2, <2>3, <2>4 DEF TypeOK
<1>13. ASSUME NEW th \in Threads, ThreadRan(th) PROVE TypeOK'
  <2>1. TaskTypeOK'
    BY <1>13, ConstantsAssumption
    DEF ThreadRan, Stage, Stages, TaskTypeOK, WorkTypeOK, Procs
  <2>2. CountTypeOK'
    BY <1>13, CounterTypes
    DEF ThreadRan, CountTypeOK
  <2>3. WorkTypeOK'
    BY <1>13
    DEF ThreadRan, Goto, Labels, Procs, WorkTypeOK
  <2>4. NotifyTypeOK' /\ CallTypeOK'
    BY <1>13 DEF ThreadRan, NotifyTypeOK, CallTypeOK
  <2>5. QED
    BY <2>1, <2>2, <2>3, <2>4 DEF TypeOK
<1>14. ASSUME NEW th \in Threads, ThreadUncount(th) PROVE TypeOK'
  <2>1. TaskTypeOK'
    BY <1>14, CounterTypes
    DEF ThreadUncount, Stage, Stages, TaskTypeOK, WorkTypeOK, Procs
  <2>2. WorkTypeOK'
    BY <1>14
    DEF ThreadUncount, Goto, Labels, Procs, WorkTypeOK
  <2>3. CountTypeOK' /\ NotifyTypeOK' /\ CallTypeOK'
    BY <1>14 DEF ThreadUncount, CountTypeOK, NotifyTypeOK, CallTypeOK
  <2>4. QED
    BY <2>1, <2>2, <2>3 DEF TypeOK
<1>15. ASSUME NEW th \in Threads, ThreadCheckFinished(th) PROVE TypeOK'
  <2>1. NotifyTypeOK'
    BY <1>15
    DEF ThreadCheckFinished, Procs, NotifyTypeOK
  <2>2. WorkTypeOK'
    BY <1>15
    DEF ThreadCheckFinished, Goto, Labels, Procs, WorkTypeOK
  <2>3. TaskTypeOK' /\ CountTypeOK' /\ CallTypeOK'
    BY <1>15 DEF ThreadCheckFinished, TaskTypeOK, CountTypeOK, CallTypeOK
  <2>4. QED
    BY <2>1, <2>2, <2>3 DEF TypeOK
<1>16. ASSUME NEW th \in Threads, ThreadResult(th) PROVE TypeOK'
  <2>1. TaskTypeOK'
    BY <1>16
    DEF ThreadResult, Stage, Stages, TaskTypeOK, WorkTypeOK, Procs
  <2>2. WorkTypeOK'
    BY <1>16
    DEF ThreadResult, Goto, Labels, Procs, WorkTypeOK
  <2>3. CountTypeOK' /\ NotifyTypeOK' /\ CallTypeOK'
    BY <1>16 DEF ThreadResult, CountTypeOK, NotifyTypeOK, CallTypeOK
  <2>4. QED
    BY <2>1, <2>2, <2>3 DEF TypeOK
<1>17. ASSUME NEW th \in Threads, ThreadTrim(th) PROVE TypeOK'
  <2>1. CountTypeOK'
    BY <1>17, CounterTypes
    DEF ThreadTrim, CountTypeOK
  <2>2. WorkTypeOK'
    BY <1>17
    DEF ThreadTrim, Goto, Labels, Exits, Procs, WorkTypeOK
  <2>3. TaskTypeOK' /\ NotifyTypeOK' /\ CallTypeOK'
    BY <1>17 DEF ThreadTrim, TaskTypeOK, NotifyTypeOK, CallTypeOK
  <2>4. QED
    BY <2>1, <2>2, <2>3 DEF TypeOK
<1>18. ASSUME NEW p \in Procs, CancelStore(p) PROVE TypeOK'
  <2>1. CallTypeOK'
    BY <1>18
    DEF CancelStore, CallTypeOK
  <2>2. WorkTypeOK'
    BY <1>18
    DEF CancelStore, Goto, Labels, Procs, WorkTypeOK
  <2>3. TaskTypeOK' /\ CountTypeOK' /\ NotifyTypeOK'
    BY <1>18 DEF CancelStore, TaskTypeOK, CountTypeOK, NotifyTypeOK
  <2>4. QED
    BY <2>1, <2>2, <2>3 DEF TypeOK
<1>19. ASSUME NEW p \in Procs, CancelForce(p) PROVE TypeOK'
  <2>1. CallTypeOK'
    BY <1>19
    DEF CancelForce, CallTypeOK
  <2>2. WorkTypeOK'
    BY <1>19
    DEF CancelForce, Goto, Labels, Procs, WorkTypeOK
  <2>3. TaskTypeOK' /\ CountTypeOK' /\ NotifyTypeOK'
    BY <1>19 DEF CancelForce, TaskTypeOK, CountTypeOK, NotifyTypeOK
  <2>4. QED
    BY <2>1, <2>2, <2>3 DEF TypeOK
<1>20. ASSUME NEW p \in Procs, CancelOnce(p) PROVE TypeOK'
  <2>1. CallTypeOK'
    BY <1>20
    DEF CancelOnce, CallTypeOK
  <2>2. WorkTypeOK'
    BY <1>20
    DEF CancelOnce, Goto, Labels, CancelReturn, Exits, Procs, WorkTypeOK
  <2>3. TaskTypeOK' /\ CountTypeOK' /\ NotifyTypeOK'
    BY <1>20 DEF CancelOnce, TaskTypeOK, CountTypeOK, NotifyTypeOK
  <2>4. QED
    BY <2>1, <2>2, <2>3 DEF TypeOK
<1>21. ASSUME NEW p \in Procs, CancelDrain(p) PROVE TypeOK'
  <2>1. CallTypeOK'
    BY <1>21
    DEF CancelDrain, CallTypeOK
  <2>2. WorkTypeOK'
    BY <1>21
    DEF CancelDrain, Goto, Labels, CancelReturn, Exits, Procs, WorkTypeOK
  <2>3. TaskTypeOK' /\ CountTypeOK' /\ NotifyTypeOK'
    BY <1>21 DEF CancelDrain, TaskTypeOK, CountTypeOK, NotifyTypeOK
  <2>4. QED
    BY <2>1, <2>2, <2>3 DEF TypeOK
<1>22. ASSUME NEW p \in Procs, CancelDequeue(p) PROVE TypeOK'
  <2>1. TaskTypeOK'
    BY <1>22, QueueTypes
    DEF CancelDequeue, Stage, Stages, TaskTypeOK
  <2>2. WorkTypeOK'
    BY <1>22
    DEF CancelDequeue, Goto, Labels, Procs, WorkTypeOK
  <2>3. CountTypeOK' /\ NotifyTypeOK' /\ CallTypeOK'
    BY <1>22 DEF CancelDequeue, CountTypeOK, NotifyTypeOK, CallTypeOK
  <2>4. QED
    BY <2>1, <2>2, <2>3 DEF TypeOK
<1>23. ASSUME NEW p \in Procs, NotifyCheck(p) PROVE TypeOK'
  <2>1. NotifyTypeOK'
    BY <1>23
    DEF NotifyCheck, NotifyReturn, NotifyTypeOK
  <2>2. CallTypeOK'
    BY <1>23
    DEF NotifyCheck, NotifyReturn, CallTypeOK
  <2>3. WorkTypeOK'
    BY <1>23
    DEF NotifyCheck, Goto, Labels, NotifyReturn, CancelReturn, Exits, Procs, WorkTypeOK
  <2>4. TaskTypeOK' /\ CountTypeOK'
    BY <1>23 DEF NotifyCheck, TaskTypeOK, CountTypeOK
  <2>5. QED
    BY <2>1, <2>2, <2>3, <2>4 DEF TypeOK
<1>24. ASSUME NEW p \in Procs, NotifyAim(p) PROVE TypeOK'
  <2>1. NotifyTypeOK'
    BY <1>24
    DEF NotifyAim, NotifyTypeOK
  <2>2. WorkTypeOK'
    BY <1>24
    DEF NotifyAim, Goto, Labels, Procs, WorkTypeOK
  <2>3. TaskTypeOK' /\ CountTypeOK' /\ CallTypeOK'
    BY <1>24 DEF NotifyAim, TaskTypeOK, CountTypeOK, CallTypeOK
  <2>4. QED
    BY <2>1, <2>2, <2>3 DEF TypeOK
<1>25. ASSUME NEW p \in Procs, NotifySend(p) PROVE TypeOK'
  <2>1. NotifyTypeOK'
    <3>1. chan \in ChanType /\ target[p] \in {0, 1}
      BY <1>25 DEF NotifyTypeOK, ChanType
    <3>2. UNCHANGED chan \/ chan' = [chan EXCEPT ![target[p]].full = TRUE]
      BY <1>25 DEF NotifySend
    <3>3. chan' \in ChanType
      BY <3>1, <3>2, ChanTypes
    <3>4. QED
      BY <1>25, <3>3 DEF NotifySend, NotifyTypeOK, ChanType
  <2>2. WorkTypeOK'
    BY <1>25
    DEF NotifySend, Goto, Labels, Procs, WorkTypeOK
  <2>3. TaskTypeOK' /\ CountTypeOK' /\ CallTypeOK'
    BY <1>25 DEF NotifySend, TaskTypeOK, CountTypeOK, CallTypeOK
  <2>4. QED
    BY <2>1, <2>2, <2>3 DEF TypeOK
<1>26. ASSUME NEW p \in Procs, NotifyMark(p) PROVE TypeOK'
  <2>1. NotifyTypeOK'
    BY <1>26
    DEF NotifyMark, NotifyTypeOK
  <2>2. WorkTypeOK'
    BY <1>26
    DEF NotifyMark, Goto, Labels, Procs, WorkTypeOK
  <2>3. TaskTypeOK' /\ CountTypeOK' /\ CallTypeOK'
    BY <1>26 DEF NotifyMark, TaskTypeOK, CountTypeOK, CallTypeOK
  <2>4. QED
    BY <2>1, <2>2, <2>3 DEF TypeOK
<1>27. ASSUME NEW p \in Procs, NotifyClose(p) PROVE TypeOK'
  <2>1. NotifyTypeOK'
    <3>1. chan \in ChanType /\ target[p] \in {0, 1}
      BY <1>27 DEF NotifyTypeOK, ChanType
    <3>2. UNCHANGED chan \/ chan' = [chan EXCEPT ![target[p]].closed = TRUE]
      BY <1>27 DEF NotifyClose
    <3>3. chan' \in ChanType
      BY <3>1, <3>2, ChanTypes
    <3>4. QED
      BY <1>27, <3>3 DEF NotifyClose, NotifyReturn, NotifyTypeOK, ChanType
  <2>2. CallTypeOK'
    BY <1>27
    DEF NotifyClose, NotifyReturn, CallTypeOK
  <2>3. WorkTypeOK'
    BY <1>27
    DEF NotifyClose, Goto, Labels, NotifyReturn, CancelReturn, Exits, Procs, WorkTypeOK
  <2>4. TaskTypeOK' /\ CountTypeOK'
    BY <1>27 DEF NotifyClose, TaskTypeOK, CountTypeOK
  <2>5. QED
    BY <2>1, <2>2, <2>3, <2>4 DEF TypeOK
<1>28. CASE TimerElapse
  <2>1. WorkTypeOK'
    BY <1>28
    DEF TimerElapse, Goto, Labels, Exits, Procs, WorkTypeOK
  <2>2. TaskTypeOK' /\ CountTypeOK' /\ NotifyTypeOK' /\ CallTypeOK'
    BY <1>28 DEF TimerElapse, TaskTypeOK, CountTypeOK, NotifyTypeOK, CallTypeOK
  <2>3. QED
    BY <2>1, <2>2 DEF TypeOK
<1>29. ASSUME NEW n \in ParallelChoices, ResizeStart(n) PROVE TypeOK'
  <2>1. CallTypeOK'
    BY <1>29, CounterTypes, ConstantsAssumption
    DEF ResizeStart, CallTypeOK
  <2>2. TaskTypeOK' /\ CountTypeOK' /\ NotifyTypeOK' /\ WorkTypeOK'
    BY <1>29 DEF ResizeStart, TaskTypeOK, CountTypeOK, NotifyTypeOK, WorkTypeOK
  <2>3. QED
    BY <2>1, <2>2 DEF TypeOK
<1>30. CASE ResizeAdd
  <2>1. CountTypeOK'
    BY <1>30, AddThreadTypes
    DEF ResizeAdd, AddThread, CountTypeOK
  <2>2. CallTypeOK'
    BY <1>30
    DEF ResizeAdd, CallTypeOK
  <2>3. WorkTypeOK'
    BY <1>30, AddThreadTypes
    DEF ResizeAdd, Goto, Labels, AddThread, Procs, WorkTypeOK
  <2>4. TaskTypeOK' /\ NotifyTypeOK'
    BY <1>30 DEF ResizeAdd, TaskTypeOK, NotifyTypeOK, AddThread
  <2>5. QED
    BY <2>1, <2>2, <2>3, <2>4 DEF TypeOK
<1>31. CASE ResizeAssign
  <2>1. CountTypeOK'
    BY <1>31
    DEF ResizeAssign, CountTypeOK, CallTypeOK
  <2>2. CallTypeOK'
    BY <1>31
    DEF ResizeAssign, CallTypeOK
  <2>3. TaskTypeOK' /\ NotifyTypeOK' /\ WorkTypeOK'
    BY <1>31 DEF ResizeAssign, TaskTypeOK, NotifyTypeOK, WorkTypeOK
  <2>4. QED
    BY <2>1, <2>2, <2>3 DEF TypeOK
<1>32. CASE ClientReset
  <2>1. NotifyTypeOK'
    BY <1>32
    DEF ClientReset, NotifyTypeOK
  <2>2. CallTypeOK'
    BY <1>32
    DEF ClientReset, CallTypeOK
  <2>3. TaskTypeOK' /\ CountTypeOK' /\ WorkTypeOK'
    BY <1>32 DEF ClientReset, TaskTypeOK, CountTypeOK, WorkTypeOK
  <2>4. QED
    BY <2>1, <2>2, <2>3 DEF TypeOK
<1>33. CASE ClientRenew
  <2>1. NotifyTypeOK'
    BY <1>33
    DEF ClientRenew, NotifyTypeOK
  <2>2. CallTypeOK'
    BY <1>33
    DEF ClientRenew, CallTypeOK
  <2>3. TaskTypeOK' /\ CountTypeOK' /\ WorkTypeOK'
    BY <1>33 DEF ClientRenew, TaskTypeOK, CountTypeOK, WorkTypeOK
  <2>4. QED
    BY <2>1, <2>2, <2>3 DEF TypeOK
<1>34. CASE ClientClear
  <2>1. NotifyTypeOK'
    BY <1>34
    DEF ClientClear, NotifyTypeOK
  <2>2. CallTypeOK'
    BY <1>34
    DEF ClientClear, CallTypeOK
  <2>3. TaskTypeOK' /\ CountTypeOK' /\ WorkTypeOK'
    BY <1>34 DEF ClientClear, TaskTypeOK, CountTypeOK, WorkTypeOK
  <2>4. QED
    BY <2>1, <2>2, <2>3 DEF TypeOK
<1>35. CASE ClientWait
  <2>1. CallTypeOK'
    BY <1>35
    DEF ClientWait, CallTypeOK, NotifyTypeOK
  <2>2. TaskTypeOK' /\ CountTypeOK' /\ NotifyTypeOK' /\ WorkTypeOK'
    BY <1>35 DEF ClientWait, TaskTypeOK, CountTypeOK, NotifyTypeOK, WorkTypeOK
  <2>3. QED
    BY <2>1, <2>2 DEF TypeOK
<1>36. CASE ClientReceive
  <2>1. NotifyTypeOK'
    <3>1. chan \in ChanType /\ client.watched \in {0, 1}
      BY <1>36 DEF NotifyTypeOK, CallTypeOK, ChanType
    <3>2. chan' = [chan EXCEPT ![client.watched].full = FALSE]
      BY <1>36 DEF ClientReceive
    <3>3. chan' \in ChanType
      BY <3>1, <3>2, ChanTypes
    <3>4. QED
      BY <1>36, <3>3 DEF ClientReceive, NotifyTypeOK, ChanType
  <2>2. CallTypeOK'
    BY <1>36
    DEF ClientReceive, CallTypeOK
  <2>3. TaskTypeOK' /\ CountTypeOK' /\ WorkTypeOK'
    BY <1>36 DEF ClientReceive, TaskTypeOK, CountTypeOK, WorkTypeOK
  <2>4. QED
    BY <2>1, <2>2, <2>3 DEF TypeOK
<1>37. CASE ClientDone
  <2>1. CallTypeOK'
    BY <1>37
    DEF ClientDone, CallTypeOK
  <2>2. TaskTypeOK' /\ CountTypeOK' /\ NotifyTypeOK' /\ WorkTypeOK'
    BY <1>37 DEF ClientDone, TaskTypeOK, CountTypeOK, NotifyTypeOK, WorkTypeOK
  <2>3. QED
    BY <2>1, <2>2 DEF TypeOK
<1>38. CASE UNCHANGED vars
  <2>1. TaskTypeOK' /\ CountTypeOK'
    BY <1>38 DEF vars, TaskTypeOK, CountTypeOK
  <2>2. NotifyTypeOK' /\ CallTypeOK'
    BY <1>38 DEF vars, NotifyTypeOK, CallTypeOK
  <2>3. WorkTypeOK'
    BY <1>38 DEF vars, WorkTypeOK
  <2>4. QED
    BY <2>1, <2>2, <2>3 DEF TypeOK
<1>39. QED
  BY <1>1, <1>2, <1>3, <1>4, <1>5, <1>6, <1>7, <1>8, <1>9, <1>10, <1>11,
     <1>12, <1>13, <1>14, <1>15, <1>16, <1>17, <1>18, <1>19, <1>20, <1>21,
     <1>22, <1>23, <1>24, <1>25, <1>26, <1>27, <1>28, <1>29, <1>30, <1>31,
     <1>32, <1>33, <1>34, <1>35, <1>36, <1>37, <1>38
  DEF Next, AdderStep, RunStep, ThreadStep, LoopStep, CancellerStep, TimerStep, ResizeStep,
      ClientStep, CancelStep, NotifyStep, Procs

\* Every reachable state is well typed: in particular every counter stays a
\* uint32 and the queue holds numbers of tasks.
THEOREM TypeCorrectness == Spec => []TypeOK
<1>1. Init => TypeOK
  BY InitTypes
<1>2. TypeOK /\ [Next]_vars => TypeOK'
  BY NextTypes
<1>3. QED
  BY <1>1, <1>2, PTL DEF Spec

-----------------------------------------------------------------------------
(* Where the tasks are, and what the counters count.                        *)

\* The steps that move no task, no worker that holds one, and no counter.
QuietStep ==
  \/ RunStart \/ RunStep \/ TimerStep \/ ResizeStep \/ ClientStep
  \/ \E n \in ParallelChoices : ResizeStart(n)
  \/ \E c \in Cancellers : CancelForce(c)
  \/ \E p \in Procs : CancelStore(p) \/ CancelOnce(p) \/ CancelDrain(p) \/ NotifyStep(p)
  \/ \E th \in Threads : ThreadEnd(th) \/ ThreadCheckFinished(th) \/ ThreadResult(th)

\* A thread that is busy before or after such a step stays where it is, with
\* its task; none becomes open or stops being so.
Undisturbed(th) ==
  /\ pc[th] \in Busy \/ pc'[th] \in Busy => pc'[th] = pc[th] /\ job'[th] = job[th]
  /\ pc'[th] \in OpenAt <=> pc[th] \in OpenAt

Frame ==
  /\ UNCHANGED <<taskId, stage, tasks, totalTasksInQueue, openThreads, activeThreads>>
  /\ ThreadNumbering'
  /\ \A th \in Threads : Undisturbed(th)

\* One goroutine moves and, if it is a worker, it stays open and not busy.
Passes(p) ==
  /\ p \in Threads => pc[p] \in OpenAt \ Busy /\ pc'[p] \in OpenAt \ Busy
  /\ pc' = [pc EXCEPT ![p] = pc'[p]]

\* A step of a process that neither takes, starts nor ends a task is framed.
LEMMA PassesFrame ==
  ASSUME WorkTypeOK, ThreadNumbering, NEW p \in Procs, Passes(p) \/ pc' = pc,
         \A th \in Threads : th # p => job'[th] = job[th], pc[p] \in Busy => job' = job,
         UNCHANGED <<taskId, stage, tasks, totalTasksInQueue, openThreads, activeThreads>>,
         threadCount' = threadCount
  PROVE  Frame
<1>1. \A th \in Threads : Undisturbed(th)
  BY DEF WorkTypeOK, Passes, Undisturbed, Procs
<1>2. ThreadNumbering'
  BY DEF WorkTypeOK, Passes, ThreadNumbering, OpenAt, Procs
<1>3. QED
  BY <1>1, <1>2 DEF Frame

\* So is a quiet step.
LEMMA QuietFrame ==
  ASSUME TypeOK, ThreadNumbering, QuietStep
  PROVE  Frame
<1> DEFINE still == <<taskId, stage, tasks, totalTasksInQueue, openThreads, activeThreads>>
<1> WorkTypeOK /\ CountTypeOK
  BY DEF TypeOK
<1>n. Timer \in Procs /\ \A th \in Threads : th \in Procs
  BY DEF Procs
<1> Timer \notin Threads
  BY NamesAssumption
<1>a. ASSUME UNCHANGED <<still, threadCount, job>>, NEW p \in Procs, Passes(p) \/ pc' = pc
      PROVE  Frame
  BY <1>a, PassesFrame
<1>b. ASSUME AddThread, Goto(threadCount, "starting"),
             UNCHANGED <<taskId, stage, tasks, totalTasksInQueue, job>>
      PROVE  Frame
  <2>1. threadCount \in Threads /\ pc[threadCount] = "unborn"
    BY <1>b, AddThreadTypes DEF CountTypeOK, ThreadNumbering, Threads
  <2>2. pc' = [pc EXCEPT ![threadCount] = "starting"] /\ pc'[threadCount] = "starting"
    BY <1>b, <1>n, <2>1 DEF Goto, WorkTypeOK
  <2>3. \A th \in Threads : Undisturbed(th)
    BY <1>b, <2>1, <2>2 DEF Undisturbed, Busy, OpenAt, WorkTypeOK
  <2>4. ThreadNumbering'
    BY <1>b, <2>1, <2>2 DEF ThreadNumbering, AddThread, Threads, CountTypeOK, WorkTypeOK
  <2>5. QED
    BY <1>b, <2>3, <2>4 DEF Frame, AddThread
<1>1. CASE RunStart
  <2>1. Passes(Timer) \/ pc' = pc
    BY <1>1, <1>n DEF RunStart, Goto, Passes, Busy, OpenAt, Labels, Exits,
                      WorkTypeOK
  <2>2. QED
    BY <1>1, <1>n, <1>a, <2>1 DEF RunStart
<1>2. CASE RunStep
  <2>1. CASE RunSpawn
    BY <1>b, <2>1 DEF RunSpawn
  <2>2. CASE RunSpawned \/ RunReturn
    BY <1>a, <1>n, <2>2 DEF RunSpawned, RunReturn
  <2>3. QED
    BY <1>2, <2>1, <2>2 DEF RunStep
<1>3. CASE TimerElapse
  <2>1. Passes(Timer)
    BY <1>3, <1>n DEF TimerElapse, Goto, Passes, Busy, OpenAt, Labels, Exits,
                      WorkTypeOK
  <2>2. QED
    BY <1>3, <1>n, <1>a, <2>1 DEF TimerElapse
<1>4. CASE ResizeStep
  <2>1. CASE ResizeAdd
    BY <1>b, <2>1 DEF ResizeAdd
  <2>2. CASE ResizeAssign
    BY <1>a, <1>n, <2>2 DEF ResizeAssign
  <2>3. QED
    BY <1>4, <2>1, <2>2 DEF ResizeStep
<1>5. ASSUME NEW n \in ParallelChoices, ResizeStart(n) PROVE Frame
  BY <1>a, <1>n, <1>5 DEF ResizeStart
<1>6. CASE ClientStep
  <2>1. UNCHANGED <<still, threadCount, pc, job>>
    BY <1>6 DEF ClientStep, ClientReset, ClientRenew, ClientClear, ClientWait, ClientReceive,
       ClientDone
  <2>2. QED
    BY <1>a, <1>n, <2>1
<1>c. ASSUME NEW p \in Procs, CancelForce(p) \/ CancelStore(p) \/ CancelOnce(p) \/ CancelDrain(p)
      PROVE  Frame
  <2>1. UNCHANGED <<still, threadCount, job>>
    BY <1>c DEF CancelForce, CancelStore, CancelOnce, CancelDrain
  <2>2. ASSUME CancelForce(p) PROVE Passes(p)
    BY <2>2 DEF CancelForce, Goto, Passes, Busy, OpenAt, Labels, Exits,
                      WorkTypeOK
  <2>3. ASSUME CancelStore(p) PROVE Passes(p)
    BY <2>3 DEF CancelStore, Goto, Passes, Busy, OpenAt, Labels, Exits,
                      WorkTypeOK
  <2>4. ASSUME CancelOnce(p) PROVE Passes(p)
    BY <2>4 DEF CancelOnce, CancelReturn, Goto, Passes, Busy, OpenAt, Labels, Exits,
                      WorkTypeOK
  <2>5. ASSUME CancelDrain(p) PROVE Passes(p)
    BY <2>5 DEF CancelDrain, CancelReturn, Goto, Passes, Busy, OpenAt, Labels, Exits,
                      WorkTypeOK
  <2>6. QED
    BY <1>a, <1>c, <2>1, <2>2, <2>3, <2>4, <2>5
<1>7. ASSUME NEW p \in Procs, NotifyStep(p)
      PROVE  Frame
  <2>1. UNCHANGED <<still, threadCount, job>>
    BY <1>7 DEF NotifyStep, NotifyCheck, NotifyAim, NotifySend, NotifyMark, NotifyClose
  <2>2. ASSUME NotifyCheck(p) PROVE Passes(p)
    BY <2>2 DEF NotifyCheck, NotifyReturn, CancelReturn, Goto, Passes, Busy, OpenAt, Labels, Exits,
                      WorkTypeOK
  <2>3. ASSUME NotifyAim(p) PROVE Passes(p)
    BY <2>3 DEF NotifyAim, Goto, Passes, Busy, OpenAt, Labels, Exits,
                      WorkTypeOK
  <2>4. ASSUME NotifySend(p) PROVE Passes(p)
    BY <2>4 DEF NotifySend, Goto, Passes, Busy, OpenAt, Labels, Exits,
                      WorkTypeOK
  <2>5. ASSUME NotifyMark(p) PROVE Passes(p)
    BY <2>5 DEF NotifyMark, Goto, Passes, Busy, OpenAt, Labels, Exits,
                      WorkTypeOK
  <2>6. ASSUME NotifyClose(p) PROVE Passes(p)
    BY <2>6 DEF NotifyClose, NotifyReturn, CancelReturn, Goto, Passes, Busy, OpenAt, Labels, Exits,
                      WorkTypeOK
  <2>7. Passes(p)
    BY <1>7, <2>2, <2>3, <2>4, <2>5, <2>6 DEF NotifyStep
  <2>8. QED
    BY <1>a, <2>1, <2>7
<1>8. ASSUME NEW th \in Threads,
             ThreadEnd(th) \/ ThreadCheckFinished(th) \/ ThreadResult(th)
      PROVE  Frame
  <2>1. UNCHANGED <<still, threadCount>>
    BY <1>8 DEF ThreadEnd, ThreadCheckFinished, ThreadResult, WorkTypeOK
  <2>2. \A u \in Threads : u # th => job'[u] = job[u]
    BY <1>8 DEF ThreadEnd, ThreadCheckFinished, ThreadResult, WorkTypeOK
  <2>3. ASSUME ThreadEnd(th) PROVE Passes(th)
    BY <1>n, <2>3 DEF ThreadEnd, Goto, Passes, Busy, OpenAt, Labels, Exits,
                      WorkTypeOK
  <2>4. ASSUME ThreadCheckFinished(th) PROVE Passes(th)
    BY <1>n, <2>4 DEF ThreadCheckFinished, Goto, Passes, Busy, OpenAt, Labels, Exits,
                      WorkTypeOK
  <2>5. ASSUME ThreadResult(th) PROVE Passes(th)
    BY <1>n, <2>5 DEF ThreadResult, Goto, Passes, Busy, OpenAt, Labels, Exits,
                      WorkTypeOK
  <2>7. Passes(th)
    BY <1>8, <2>3, <2>4, <2>5
  <2>8. th \in Procs /\ pc[th] \notin Busy
    BY <1>n, <2>7 DEF Passes
  <2>9. QED
    BY <1>n, <2>1, <2>2, <2>7, <2>8, PassesFrame
<1>9. QED
  BY <1>1, <1>2, <1>3, <1>4, <1>5, <1>6, <1>c, <1>7, <1>8 DEF QuietStep, TimerStep, Procs

\* What Next does, with the quiet steps in one.
LEMMA StepCases ==
  ASSUME Next
  PROVE  \/ AddTask
         \/ \E t \in TaskNums : AddTaskCount(t) \/ AddTaskSend(t) \/ AddTaskPanic(t)
         \/ \E th \in Threads : \/ ThreadReceive(th) \/ ThreadBegin(th)
                                \/ ThreadRan(th) \/ ThreadUncount(th)
                                \/ ThreadStart(th) \/ ThreadTrim(th)
         \/ \E p \in Procs : CancelDequeue(p)
         \/ QuietStep
BY DEF Next, AdderStep, ThreadStep, LoopStep, CancellerStep, TimerStep, CancelStep, QuietStep,
       Procs

-----------------------------------------------------------------------------
(* Custody.                                                                 *)

\* No task is in two places at the beginning.
LEMMA InitCustody == Init => Custody
BY NamesAssumption, ConstantsAssumption DEF Init, Custody, TaskNumbering, ThreadNumbering,
   QueueCustody, JobCustody, Busy, Threads, Procs

\* Every step hands a task on to one place only.
LEMMA NextCustody ==
  ASSUME TypeOK, Custody, Next
  PROVE  Custody'
<1> TaskTypeOK /\ WorkTypeOK /\ TaskNumbering /\ ThreadNumbering /\ QueueCustody /\ JobCustody
  BY DEF TypeOK, Custody
<1>d. \A th \in Threads : th \in Procs
  BY DEF Procs
<1>1. CASE AddTask
  <2>1. taskId \in TaskNums /\ stage[taskId] = "unborn"
    BY <1>1, ConstantsAssumption DEF AddTask, TaskNums, TaskTypeOK, TaskNumbering
  <2>2. TaskNumbering'
    BY <1>1, <2>1 DEF AddTask, Stage, TaskNumbering, TaskTypeOK, TaskNums
  <2>3. QueueCustody'
    BY <1>1, <2>1 DEF AddTask, Stage, QueueCustody, TaskTypeOK
  <2>4. JobCustody' /\ ThreadNumbering'
    BY <1>1, <2>1 DEF AddTask, Stage, JobCustody, ThreadNumbering, TaskTypeOK
  <2>5. QED
    BY <2>2, <2>3, <2>4 DEF Custody
<1>2. ASSUME NEW t \in TaskNums, AddTaskCount(t) \/ AddTaskPanic(t) PROVE Custody'
  <2>1. TaskNumbering'
    BY <1>2 DEF AddTaskCount, AddTaskPanic, Stage, TaskNumbering, TaskTypeOK
  <2>2. QueueCustody'
    BY <1>2 DEF AddTaskCount, AddTaskPanic, Stage, QueueCustody, TaskTypeOK
  <2>3. UNCHANGED <<pc, job, threadCount>> /\ stage[t] \in {"passed", "counted"}
    BY <1>2 DEF AddTaskCount, AddTaskPanic
  <2>4. \A x \in TaskNums : x # t => stage'[x] = stage[x]
    BY <1>2 DEF AddTaskCount, AddTaskPanic, Stage, TaskTypeOK
  <2>5. JobCustody' /\ ThreadNumbering'
    BY <2>3, <2>4 DEF JobCustody, ThreadNumbering, Busy
  <2>6. QED
    BY <2>1, <2>2, <2>5 DEF Custody
<1>3. ASSUME NEW t \in TaskNums, AddTaskSend(t) PROVE Custody'
  <2>1. TaskNumbering'
    BY <1>3 DEF AddTaskSend, Stage, TaskNumbering, TaskTypeOK
  <2>2. QueueCustody'
    <3>1. Len(tasks') = Len(tasks) + 1 /\ tasks'[Len(tasks) + 1] = t
          /\ \A i \in 1 .. Len(tasks) : tasks'[i] = tasks[i]
      BY <1>3, AppendProperties DEF AddTaskSend, TaskTypeOK
    <3>2. \A i \in 1 .. Len(tasks) : tasks[i] \in TaskNums /\ tasks[i] # t
      BY <1>3, ElementOfSeq DEF AddTaskSend, TaskTypeOK, QueueCustody
    <3>3. stage'[t] = "queued" /\ \A x \in TaskNums : x # t => stage'[x] = stage[x]
      BY <1>3 DEF AddTaskSend, Stage, TaskTypeOK
    <3>4. Len(tasks) \in Nat
      BY LenProperties DEF TaskTypeOK
    <3>5. QED
      BY <3>1, <3>2, <3>3, <3>4 DEF QueueCustody
  <2>3. JobCustody' /\ ThreadNumbering'
    BY <1>3 DEF AddTaskSend, Stage, JobCustody, ThreadNumbering, TaskTypeOK
  <2>4. QED
    BY <2>1, <2>2, <2>3 DEF Custody
<1>4. ASSUME tasks # <<>>, tasks' = Tail(tasks), NEW v, v \notin {"unborn", "queued"},
             Stage(Head(tasks), v), taskId' = taskId
      PROVE  /\ TaskNumbering' /\ QueueCustody'
             /\ Head(tasks) \in TaskNums /\ stage[Head(tasks)] = "queued"
             /\ \A x \in TaskNums : x # Head(tasks) => stage'[x] = stage[x]
  <2>1. Len(tasks) \in Nat /\ Len(tasks) >= 1
    BY <1>4, EmptySeq, LenProperties DEF TaskTypeOK
  <2>2. /\ Head(tasks) = tasks[1] /\ Head(tasks) \in TaskNums
        /\ Len(tasks') = Len(tasks) - 1
        /\ \A i \in 1 .. Len(tasks) - 1 : tasks'[i] = tasks[i + 1]
    BY <1>4, HeadTailProperties DEF TaskTypeOK
  <2>3. \A x \in TaskNums : x # Head(tasks) => stage'[x] = stage[x]
    BY <1>4, <2>2 DEF Stage, TaskTypeOK
  <2>4. stage[Head(tasks)] = "queued"
    BY <2>1, <2>2 DEF QueueCustody
  <2>5. TaskNumbering'
    BY <1>4, <2>2, <2>3, <2>4 DEF TaskNumbering
  <2>6. \A i \in 1 .. Len(tasks) : tasks[i] \in TaskNums /\ (i # 1 => tasks[i] # Head(tasks))
    BY <2>1, <2>2, ElementOfSeq DEF TaskTypeOK, QueueCustody
  <2>7. QueueCustody'
    BY <2>1, <2>2, <2>3, <2>6 DEF QueueCustody
  <2>8. QED
    BY <2>2, <2>3, <2>4, <2>5, <2>7
<1>5. ASSUME NEW th \in Threads, ThreadReceive(th) PROVE Custody'
  <2>1. /\ TaskNumbering' /\ QueueCustody'
        /\ Head(tasks) \in TaskNums /\ stage[Head(tasks)] = "queued"
        /\ \A x \in TaskNums : x # Head(tasks) => stage'[x] = stage[x]
    BY <1>4, <1>5 DEF ThreadReceive
  <2>2. stage'[Head(tasks)] = "taken"
    BY <1>5, <2>1 DEF ThreadReceive, Stage, TaskTypeOK
  <2>3. /\ pc'[th] = "received" /\ job'[th] = Head(tasks)
        /\ \A u \in Threads : u # th => pc'[u] = pc[u] /\ job'[u] = job[u]
    BY <1>5, <1>d DEF ThreadReceive, Goto, WorkTypeOK
  <2>4. JobCustody'
    BY <2>1, <2>2, <2>3 DEF JobCustody, Busy
  <2>5. ThreadNumbering'
    BY <1>5, <2>3 DEF ThreadNumbering, ThreadReceive
  <2>6. QED
    BY <2>1, <2>4, <2>5 DEF Custody
<1>6. ASSUME NEW th \in Threads, NEW from \in Busy, NEW to, NEW v,
             pc[th] = from, Goto(th, to), job' = job, UNCHANGED <<taskId, tasks, threadCount>>,
             Stage(job[th], v),
             <<to, v>> \in {<<"running", "running">>, <<"ran", "ran">>,
                           <<"finishing", "done">>, <<"result", "done">>}
      PROVE  Custody'
  <2>1. job[th] \in TaskNums /\ stage[job[th]] \in {"taken", "running", "ran"}
    BY <1>6 DEF JobCustody, Busy
  <2>2. stage'[job[th]] = v /\ \A x \in TaskNums : x # job[th] => stage'[x] = stage[x]
    BY <1>6, <2>1 DEF Stage, TaskTypeOK
  <2>3. pc'[th] = to /\ \A u \in Threads : u # th => pc'[u] = pc[u]
    BY <1>6, <1>d DEF Goto, WorkTypeOK
  <2>4. TaskNumbering' /\ ThreadNumbering'
    BY <1>6, <2>1, <2>2, <2>3 DEF TaskNumbering, ThreadNumbering, Busy
  <2>5. \A i \in 1 .. Len(tasks) : tasks[i] \in TaskNums
    BY ElementOfSeq DEF TaskTypeOK
  <2>6. QueueCustody'
    BY <1>6, <2>1, <2>2, <2>5 DEF QueueCustody
  <2>7. JobCustody'
    BY <1>6, <2>1, <2>2, <2>3 DEF JobCustody, Busy
  <2>8. QED
    BY <2>4, <2>6, <2>7 DEF Custody
<1>7. ASSUME NEW th \in Threads, ThreadBegin(th) \/ ThreadRan(th) \/ ThreadUncount(th)
      PROVE  Custody'
  <2>1. CASE ThreadBegin(th)
    BY <1>6, <2>1 DEF ThreadBegin, Busy
  <2>2. CASE ThreadRan(th)
    BY <1>6, <2>2 DEF ThreadRan, Busy
  <2>3. CASE ThreadUncount(th)
    BY <1>6, <2>3 DEF ThreadUncount, Busy
  <2>4. QED
    BY <1>7, <2>1, <2>2, <2>3
<1>8. ASSUME UNCHANGED <<taskId, stage, tasks, threadCount, job>>, NEW p \in Procs, NEW to,
             Goto(p, to), p \in Threads => pc[p] \notin Busy \cup {"unborn"} /\ to \notin Busy
      PROVE  Custody'
  <2>1. \A u \in Threads : u # p => pc'[u] = pc[u]
    BY <1>8, <1>d DEF Goto, WorkTypeOK
  <2>2. p \in Threads => pc'[p] = to
    BY <1>8 DEF Goto, WorkTypeOK
  <2>3. TaskNumbering' /\ ThreadNumbering' /\ QueueCustody'
    BY <1>8, <2>1, <2>2 DEF TaskNumbering, ThreadNumbering, QueueCustody
  <2>4. JobCustody'
    BY <1>8, <2>1, <2>2 DEF JobCustody, Busy
  <2>5. QED
    BY <2>3, <2>4 DEF Custody
<1>9. ASSUME NEW p \in Procs, CancelDequeue(p) PROVE Custody'
  <2>1. CASE tasks = <<>>
    BY <1>8, <1>9, <2>1 DEF CancelDequeue, Busy
  <2>2. CASE tasks # <<>>
    <3>1. tasks' = Tail(tasks) /\ Stage(Head(tasks), "dropped") /\ taskId' = taskId
      BY <1>9, <2>2 DEF CancelDequeue
    <3>2. /\ TaskNumbering' /\ QueueCustody'
          /\ Head(tasks) \in TaskNums /\ stage[Head(tasks)] = "queued"
          /\ \A x \in TaskNums : x # Head(tasks) => stage'[x] = stage[x]
      BY <1>4, <2>2, <3>1
    <3>3. /\ \A u \in Threads : u # p => pc'[u] = pc[u]
          /\ p \in Threads => pc[p] = "dequeuing" /\ pc'[p] = "draining"
          /\ job' = job /\ threadCount' = threadCount
      BY <1>9, <1>d DEF CancelDequeue, Goto, WorkTypeOK
    <3>4. JobCustody' /\ ThreadNumbering'
      BY <3>2, <3>3 DEF JobCustody, ThreadNumbering, Busy
    <3>5. QED
      BY <3>2, <3>4 DEF Custody
  <2>3. QED
    BY <2>1, <2>2
<1>10. ASSUME NEW th \in Threads, ThreadStart(th) \/ ThreadTrim(th) PROVE Custody'
  <2>1. UNCHANGED <<taskId, stage, tasks, threadCount, job>>
    BY <1>10 DEF ThreadStart, ThreadTrim
  <2>2. pc[th] \notin Busy \cup {"unborn"}
    BY <1>10 DEF ThreadStart, ThreadTrim, Busy
  <2>3. Goto(th, "receiving") \/ Goto(th, "trimmed")
    BY <1>10 DEF ThreadStart, ThreadTrim
  <2>4. {"receiving", "trimmed"} \cap Busy = {}
    BY DEF Busy
  <2>5. QED
    BY <1>8, <1>d, <2>1, <2>2, <2>3, <2>4
<1>11. CASE QuietStep
  <2>1. Frame
    BY <1>11, QuietFrame
  <2>2. TaskNumbering' /\ ThreadNumbering' /\ QueueCustody'
    BY <2>1 DEF Frame, TaskNumbering, QueueCustody
  <2>3. JobCustody'
    BY <2>1 DEF Frame, Undisturbed, JobCustody, Busy
  <2>4. QED
    BY <2>2, <2>3 DEF Custody
<1>12. QED
  BY StepCases, <1>1, <1>2, <1>3, <1>5, <1>7, <1>9, <1>10, <1>11

-----------------------------------------------------------------------------
(* The counters.                                                            *)

\* A tally is unchanged when no element enters or leaves, and follows the one
\* that does.
LEMMA TallyNat ==
  ASSUME NEW D, IsFiniteSet(D), NEW f, NEW P
  PROVE  /\ Tally(f, D, P) \in Nat /\ Tally(f, D, P) <= Cardinality(D)
         /\ IsFiniteSet({x \in D : f[x] \in P}) /\ Cardinality(D) \in Nat
<1> DEFINE S == {x \in D : f[x] \in P}
<1>1. IsFiniteSet(S) /\ Cardinality(S) <= Cardinality(D)
  <2>1. S \in SUBSET D
    OBVIOUS
  <2>2. QED
    BY <2>1, FS_Subset
<1>2. Cardinality(S) \in Nat /\ Cardinality(D) \in Nat
  BY <1>1, FS_CardinalityType
<1>3. QED
  BY <1>1, <1>2 DEF Tally

\* A tally changes only with its members.
LEMMA TallySame ==
  ASSUME NEW D, NEW f, NEW g, NEW P, \A x \in D : g[x] \in P <=> f[x] \in P
  PROVE  Tally(g, D, P) = Tally(f, D, P)
<1>1. {x \in D : g[x] \in P} = {x \in D : f[x] \in P}
  OBVIOUS
<1>2. QED
  BY <1>1 DEF Tally

\* A member that enters adds one.
LEMMA TallyEnters ==
  ASSUME NEW D, IsFiniteSet(D), NEW f, NEW g, NEW P, NEW a \in D,
         f[a] \notin P, g[a] \in P, \A x \in D : x # a => g[x] = f[x]
  PROVE  /\ Tally(g, D, P) = Tally(f, D, P) + 1
         /\ Tally(f, D, P) < Cardinality(D)
<1> DEFINE S == {x \in D : f[x] \in P}
           T == {x \in D : g[x] \in P}
<1>1. T = S \cup {a} /\ a \notin S
  OBVIOUS
<1>2. IsFiniteSet(S) /\ Cardinality(S) \in Nat
  BY TallyNat DEF Tally
<1> HIDE DEF S, T
<1>3. Cardinality(T) = Cardinality(S) + 1
  BY <1>1, <1>2, FS_AddElement
<1> USE DEF S, T
<1>4. Tally(g, D, P) <= Cardinality(D) /\ Cardinality(D) \in Nat
  BY TallyNat
<1>5. QED
  BY <1>2, <1>3, <1>4 DEF Tally

\* One that leaves takes one away.
LEMMA TallyLeaves ==
  ASSUME NEW D, IsFiniteSet(D), NEW f, NEW g, NEW P, NEW a \in D,
         f[a] \in P, g[a] \notin P, \A x \in D : x # a => g[x] = f[x]
  PROVE  /\ Tally(g, D, P) = Tally(f, D, P) - 1
         /\ Tally(f, D, P) > 0
<1>1. \A x \in D : x # a => f[x] = g[x]
  OBVIOUS
<1>2. Tally(f, D, P) = Tally(g, D, P) + 1
  BY <1>1, TallyEnters
<1>3. Tally(g, D, P) \in Nat
  BY TallyNat
<1>4. QED
  BY <1>2, <1>3

\* There are no more tasks, and no more threads, than a uint32 can count.
LEMMA FiniteDomains ==
  /\ IsFiniteSet(TaskNums) /\ Cardinality(TaskNums) <= MaxUint32
  /\ IsFiniteSet(Threads) /\ Cardinality(Threads) <= MaxUint32
<1>1. MaxTasks \in Nat /\ MaxThreads \in Nat /\ MaxUint32 \in Nat
      /\ MaxTasks <= MaxUint32 /\ MaxThreads <= MaxUint32
  BY ConstantsAssumption
<1>2. ASSUME NEW n \in Nat
      PROVE  IsFiniteSet(0 .. n - 1) /\ Cardinality(0 .. n - 1) = n
  BY FS_Interval
<1>3. QED
  BY <1>1, <1>2 DEF TaskNums, Threads

TotalOK  == totalTasksInQueue = Tally(stage, TaskNums, Counted)
ActiveOK == activeThreads = Tally(pc, Threads, ActiveAt)
OpenOK   == openThreads = Tally(pc, Threads, OpenAt)

\* The counters are right at the beginning.
LEMMA InitCounters == Init => TotalOK /\ ActiveOK /\ OpenOK
<1> SUFFICES ASSUME Init PROVE TotalOK /\ ActiveOK /\ OpenOK
  OBVIOUS
<1>1. {t \in TaskNums : stage[t] \in Counted} = {}
  BY DEF Init, Counted
<1>2. {th \in Threads : pc[th] \in ActiveAt} = {}
  BY NamesAssumption DEF Init, Procs, ActiveAt
<1>3. {th \in Threads : pc[th] \in OpenAt} = {}
  BY NamesAssumption DEF Init, Procs, OpenAt
<1>4. QED
  BY <1>1, <1>2, <1>3, FS_EmptySet DEF Init, Tally, TotalOK, ActiveOK, OpenOK

\* One task moves, and totalTasksInQueue with it.
LEMMA TaskMoves ==
  ASSUME TaskTypeOK, TotalOK, NEW t \in TaskNums, NEW v \in Stages, Stage(t, v),
         \/ stage[t] \notin Counted /\ v \notin Counted /\ UNCHANGED totalTasksInQueue
         \/ stage[t] \in Counted /\ v \in Counted /\ UNCHANGED totalTasksInQueue
         \/ /\ stage[t] \notin Counted /\ v \in Counted
            /\ totalTasksInQueue' = Increment(totalTasksInQueue)
         \/ /\ stage[t] \in Counted /\ v \notin Counted
            /\ totalTasksInQueue' = Decrement(totalTasksInQueue)
  PROVE  TotalOK'
<1>1. stage'[t] = v /\ \A x \in TaskNums : x # t => stage'[x] = stage[x]
  BY DEF Stage, TaskTypeOK
<1>2. Tally(stage, TaskNums, Counted) \in Nat /\ MaxUint32 \in Nat /\ Cardinality(TaskNums) \in Nat
  BY TallyNat, FiniteDomains, ConstantsAssumption
<1>3. CASE stage[t] \in Counted <=> v \in Counted
  <2>1. Tally(stage', TaskNums, Counted) = Tally(stage, TaskNums, Counted)
    BY <1>1, <1>3, TallySame
  <2>2. QED
    BY <1>3, <2>1 DEF TotalOK
<1>4. CASE stage[t] \notin Counted /\ v \in Counted
  <2>1. /\ Tally(stage', TaskNums, Counted) = Tally(stage, TaskNums, Counted) + 1
        /\ Tally(stage, TaskNums, Counted) < Cardinality(TaskNums)
    BY <1>1, <1>4, TallyEnters, FiniteDomains
  <2>2. QED
    BY <1>2, <1>4, <2>1, FiniteDomains DEF TotalOK, Increment
<1>5. CASE stage[t] \in Counted /\ v \notin Counted
  <2>1. /\ Tally(stage', TaskNums, Counted) = Tally(stage, TaskNums, Counted) - 1
        /\ Tally(stage, TaskNums, Counted) > 0
    BY <1>1, <1>5, TallyLeaves, FiniteDomains
  <2>2. QED
    BY <1>2, <1>5, <2>1 DEF TotalOK, Decrement
<1>6. QED
  BY <1>3, <1>4, <1>5

\* One thread moves, and activeThreads and openThreads with it.
LEMMA ThreadMoves ==
  ASSUME WorkTypeOK, NEW count, NEW next, NEW P,
         count = Tally(pc, Threads, P), NEW th \in Threads, NEW to, Goto(th, to),
         \/ pc[th] \notin P /\ to \notin P /\ next = count
         \/ pc[th] \in P /\ to \in P /\ next = count
         \/ pc[th] \notin P /\ to \in P /\ next = Increment(count)
         \/ pc[th] \in P /\ to \notin P /\ next = Decrement(count)
  PROVE  next = Tally(pc', Threads, P)
<1>1. pc'[th] = to /\ \A u \in Threads : u # th => pc'[u] = pc[u]
  BY DEF Goto, WorkTypeOK, Procs
<1>2. Tally(pc, Threads, P) \in Nat /\ MaxUint32 \in Nat /\ Cardinality(Threads) \in Nat
  BY TallyNat, FiniteDomains, ConstantsAssumption
<1>3. CASE pc[th] \in P <=> to \in P
  <2>1. Tally(pc', Threads, P) = Tally(pc, Threads, P)
    BY <1>1, <1>3, TallySame
  <2>2. QED
    BY <1>3, <2>1
<1>4. CASE pc[th] \notin P /\ to \in P
  <2>1. /\ Tally(pc', Threads, P) = Tally(pc, Threads, P) + 1
        /\ Tally(pc, Threads, P) < Cardinality(Threads)
    BY <1>1, <1>4, TallyEnters, FiniteDomains
  <2>2. QED
    BY <1>2, <1>4, <2>1, FiniteDomains DEF Increment
<1>5. CASE pc[th] \in P /\ to \notin P
  <2>1. /\ Tally(pc', Threads, P) = Tally(pc, Threads, P) - 1
        /\ Tally(pc, Threads, P) > 0
    BY <1>1, <1>5, TallyLeaves, FiniteDomains
  <2>2. QED
    BY <1>2, <1>5, <2>1 DEF Decrement
<1>6. QED
  BY <1>3, <1>4, <1>5

\* Every step keeps the counters right.
LEMMA NextCounters ==
  ASSUME TypeOK, Custody, CounterAccounting, Next
  PROVE  CounterAccounting'
<1> TaskTypeOK /\ WorkTypeOK /\ TaskNumbering /\ ThreadNumbering /\ QueueCustody /\ JobCustody
  BY DEF TypeOK, Custody
<1> TotalOK /\ ActiveOK /\ OpenOK
  BY DEF CounterAccounting, TotalOK, ActiveOK, OpenOK
<1>s. SUFFICES TotalOK' /\ ActiveOK' /\ OpenOK'
  BY DEF CounterAccounting, TotalOK, ActiveOK, OpenOK
<1>a. ASSUME UNCHANGED <<pc, activeThreads, openThreads>>
      PROVE  ActiveOK' /\ OpenOK'
  BY <1>a DEF ActiveOK, OpenOK
<1>1. CASE AddTask
  <2>1. taskId \in TaskNums /\ stage[taskId] = "unborn"
    BY <1>1, ConstantsAssumption DEF AddTask, TaskNums, TaskTypeOK, TaskNumbering
  <2>2. TotalOK'
    BY <1>1, <2>1, TaskMoves DEF AddTask, Counted, Stages
  <2>3. QED
    BY <1>1, <1>a, <2>2 DEF AddTask
<1>2. ASSUME NEW t \in TaskNums, AddTaskCount(t) \/ AddTaskSend(t) \/ AddTaskPanic(t)
      PROVE  TotalOK' /\ ActiveOK' /\ OpenOK'
  <2>1. TotalOK'
    BY <1>2, TaskMoves DEF AddTaskCount, AddTaskSend, AddTaskPanic, Counted, Stages
  <2>2. QED
    BY <1>2, <1>a, <2>1 DEF AddTaskCount, AddTaskSend, AddTaskPanic
<1>3. ASSUME tasks # <<>>
      PROVE  Head(tasks) \in TaskNums /\ stage[Head(tasks)] = "queued"
  <2>1. Len(tasks) \in Nat /\ Len(tasks) >= 1
    BY <1>3, EmptySeq, LenProperties DEF TaskTypeOK
  <2>2. Head(tasks) = tasks[1] /\ Head(tasks) \in TaskNums
    BY <1>3, HeadTailProperties DEF TaskTypeOK
  <2>3. QED
    BY <2>1, <2>2 DEF QueueCustody
<1>4. ASSUME NEW th \in Threads, ThreadReceive(th) PROVE TotalOK' /\ ActiveOK' /\ OpenOK'
  <2>1. TotalOK'
    BY <1>3, <1>4, TaskMoves DEF ThreadReceive, Counted, Stages
  <2>2. ActiveOK'
    BY <1>4, ThreadMoves DEF ThreadReceive, ActiveOK, ActiveAt
  <2>3. OpenOK'
    BY <1>4, ThreadMoves DEF ThreadReceive, OpenOK, OpenAt, Labels
  <2>4. QED
    BY <2>1, <2>2, <2>3
<1>5. ASSUME NEW th \in Threads, ThreadBegin(th) PROVE TotalOK' /\ ActiveOK' /\ OpenOK'
  <2>1. job[th] \in TaskNums /\ stage[job[th]] = "taken"
    BY <1>5 DEF ThreadBegin, JobCustody, Busy
  <2>2. TotalOK'
    BY <1>5, <2>1, TaskMoves DEF ThreadBegin, Counted, Stages
  <2>3. ActiveOK'
    <3>1. /\ Goto(th, "running") /\ pc[th] \notin ActiveAt /\ "running" \in ActiveAt
          /\ activeThreads' = Increment(activeThreads)
      BY <1>5 DEF ThreadBegin, ActiveAt
    <3>2. QED
      BY <3>1, ThreadMoves DEF ActiveOK
  <2>4. OpenOK'
    BY <1>5, ThreadMoves DEF ThreadBegin, OpenOK, OpenAt, Labels
  <2>5. QED
    BY <2>2, <2>3, <2>4
<1>6. ASSUME NEW th \in Threads, ThreadRan(th) PROVE TotalOK' /\ ActiveOK' /\ OpenOK'
  <2>1. job[th] \in TaskNums /\ stage[job[th]] = "running"
    BY <1>6 DEF ThreadRan, JobCustody, Busy
  <2>2. TotalOK'
    BY <1>6, <2>1, TaskMoves DEF ThreadRan, Counted, Stages
  <2>3. ActiveOK'
    BY <1>6, ThreadMoves DEF ThreadRan, ActiveOK, ActiveAt
  <2>4. OpenOK'
    <3>1. /\ Goto(th, "ran") /\ pc[th] \in OpenAt /\ "ran" \in OpenAt
          /\ openThreads' = openThreads
      BY <1>6 DEF ThreadRan, OpenAt, Labels
    <3>2. QED
      BY <3>1, ThreadMoves DEF OpenOK
  <2>5. QED
    BY <2>2, <2>3, <2>4
<1>7. ASSUME NEW th \in Threads, ThreadUncount(th) PROVE TotalOK' /\ ActiveOK' /\ OpenOK'
  <2>1. job[th] \in TaskNums /\ stage[job[th]] = "ran"
    BY <1>7 DEF ThreadUncount, JobCustody, Busy
  <2>2. TotalOK'
    BY <1>7, <2>1, TaskMoves DEF ThreadUncount, Counted, Stages
  <2>3. ActiveOK'
    BY <1>7, ThreadMoves DEF ThreadUncount, ActiveOK, ActiveAt
  <2>4. OpenOK'
    BY <1>7, ThreadMoves DEF ThreadUncount, OpenOK, OpenAt, Labels
  <2>5. QED
    BY <2>2, <2>3, <2>4
<1>8. ASSUME NEW p \in Procs, CancelDequeue(p) PROVE TotalOK' /\ ActiveOK' /\ OpenOK'
  <2>1. TotalOK'
    <3>1. CASE tasks = <<>>
      BY <1>8, <3>1 DEF CancelDequeue, TotalOK
    <3>2. CASE tasks # <<>>
      BY <1>3, <1>8, <3>2, TaskMoves DEF CancelDequeue, Counted, Stages
    <3>3. QED
      BY <3>1, <3>2
  <2>2. Tally(pc', Threads, OpenAt) = Tally(pc, Threads, OpenAt)
    <3>1. \A th \in Threads : pc'[th] \in OpenAt <=> pc[th] \in OpenAt
      BY <1>8 DEF CancelDequeue, Goto, WorkTypeOK, OpenAt, Labels, Procs
    <3>2. QED
      BY <3>1, TallySame
  <2>3. Tally(pc', Threads, ActiveAt) = Tally(pc, Threads, ActiveAt)
    <3>1. \A th \in Threads : pc'[th] \in ActiveAt <=> pc[th] \in ActiveAt
      BY <1>8 DEF CancelDequeue, Goto, WorkTypeOK, ActiveAt, Procs
    <3>2. QED
      BY <3>1, TallySame
  <2>4. UNCHANGED <<activeThreads, openThreads>>
    BY <1>8 DEF CancelDequeue
  <2>5. QED
    BY <2>1, <2>2, <2>3, <2>4 DEF ActiveOK, OpenOK
<1>9. ASSUME NEW th \in Threads, ThreadStart(th) \/ ThreadTrim(th)
      PROVE  TotalOK' /\ ActiveOK' /\ OpenOK'
  <2>1. TotalOK'
    BY <1>9 DEF ThreadStart, ThreadTrim, TotalOK
  <2>2. CASE ThreadStart(th)
    <3>1. ActiveOK'
      BY <2>2, ThreadMoves DEF ThreadStart, ActiveOK, ActiveAt
    <3>2. OpenOK'
      <4>1. /\ Goto(th, "receiving") /\ pc[th] \notin OpenAt /\ "receiving" \in OpenAt
            /\ openThreads' = Increment(openThreads)
        BY <2>2 DEF ThreadStart, OpenAt, Labels
      <4>2. QED
        BY <4>1, ThreadMoves DEF OpenOK
    <3>3. QED
      BY <2>1, <3>1, <3>2
  <2>3. CASE ThreadTrim(th)
    <3>1. ActiveOK'
      <4>1. /\ Goto(th, "receiving") \/ Goto(th, "trimmed")
            /\ pc[th] \notin ActiveAt /\ "receiving" \notin ActiveAt /\ "trimmed" \notin ActiveAt
            /\ activeThreads' = activeThreads
        BY <2>3 DEF ThreadTrim, ActiveAt
      <4>2. QED
        BY <4>1, ThreadMoves DEF ActiveOK
    <3>2. OpenOK'
      BY <2>3, ThreadMoves DEF ThreadTrim, OpenOK, OpenAt, Labels
    <3>3. QED
      BY <2>1, <3>1, <3>2
  <2>4. QED
    BY <1>9, <2>2, <2>3
<1>10. CASE QuietStep
  <2>1. Frame
    BY <1>10, QuietFrame
  <2>2. Tally(pc', Threads, OpenAt) = Tally(pc, Threads, OpenAt)
    <3>1. \A th \in Threads : pc'[th] \in OpenAt <=> pc[th] \in OpenAt
      BY <2>1 DEF Frame, Undisturbed
    <3>2. QED
      BY <3>1, TallySame
  <2>3. Tally(pc', Threads, ActiveAt) = Tally(pc, Threads, ActiveAt)
    <3>1. \A th \in Threads : pc'[th] \in ActiveAt <=> pc[th] \in ActiveAt
      BY <2>1 DEF Frame, Undisturbed, Busy, ActiveAt
    <3>2. QED
      BY <3>1, TallySame
  <2>4. QED
    BY <2>1, <2>2, <2>3 DEF Frame, TotalOK, ActiveOK, OpenOK
<1>11. QED
  BY StepCases, <1>1, <1>2, <1>4, <1>5, <1>6, <1>7, <1>8, <1>9, <1>10

-----------------------------------------------------------------------------
(* The invariant that carries both theorems, and the theorems.              *)

IInv == TypeOK /\ Custody /\ CounterAccounting

\* The invariant holds always.
LEMMA InductiveInvariant == Spec => []IInv
<1>1. Init => IInv
  BY InitTypes, InitCustody, InitCounters
  DEF IInv, CounterAccounting, TotalOK, ActiveOK, OpenOK
<1>2. IInv /\ [Next]_vars => IInv'
  <2>1. ASSUME IInv, Next PROVE IInv'
    BY <2>1, NextTypes, NextCustody, NextCounters DEF IInv
  <2>2. ASSUME IInv, UNCHANGED vars PROVE IInv'
    <3>1. TypeOK'
      BY <2>2, NextTypes DEF IInv
    <3>2. UNCHANGED <<taskId, stage, tasks, totalTasksInQueue, pc, job, threadCount, openThreads,
                      activeThreads>>
      BY <2>2 DEF vars
    <3>3. Custody'
      BY <2>2, <3>2
      DEF IInv, Custody, TaskNumbering, ThreadNumbering, QueueCustody, JobCustody
    <3>4. CounterAccounting'
      BY <2>2, <3>2 DEF IInv, CounterAccounting
    <3>5. QED
      BY <3>1, <3>3, <3>4 DEF IInv
  <2>3. QED
    BY <2>1, <2>2
<1>3. QED
  BY <1>1, <1>2, PTL DEF Spec

\* No task is ever in two places: it is not executed twice, and a worker's
\* task is neither in the channel nor with another worker.
THEOREM CustodyAlways == Spec => []Custody
<1>1. IInv => Custody
  BY DEF IInv
<1>2. QED
  BY <1>1, InductiveInvariant, PTL

\* The counters count what they should, so no decrement ever wraps.
THEOREM CountersAlways == Spec => []CounterAccounting
<1>1. IInv => CounterAccounting
  BY DEF IInv
<1>2. QED
  BY <1>1, InductiveInvariant, PTL
=============================================================================
