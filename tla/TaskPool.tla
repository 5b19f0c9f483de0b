------------------------------ MODULE TaskPool ------------------------------
(***************************************************************************)
(* What the Runner of parallel/runner.go promises those who hand it tasks, *)
(* without channels, goroutines or counters: a task that is accepted is    *)
(* executed once, unless the runner is cancelled before it starts; Run     *)
(* returns only when nothing is executing, every error has been saved and, *)
(* without a cancellation, no accepted task is left.                       *)
(***************************************************************************)
CONSTANT Tasks

VARIABLES
  life,       \* "new", "accepted", "refused", "running", "finished", "dropped"
  erred,      \* tasks whose execution returned an error
  saved,      \* tasks whose error is in the errors map
  cancelled,  \* Cancel has been called
  returned    \* Run has returned

poolVars == <<life, erred, saved, cancelled, returned>>

Init ==
  /\ life = [t \in Tasks |-> "new"]
  /\ erred = {} /\ saved = {}
  /\ cancelled = FALSE /\ returned = FALSE

Move(t, from, to) == life[t] = from /\ life' = [life EXCEPT ![t] = to]

\* AddTask: the runner takes the task, or refuses it because it is cancelled.
Accept(t) ==
  /\ ~cancelled /\ Move(t, "new", "accepted")
  /\ UNCHANGED <<erred, saved, cancelled, returned>>

Refuse(t) ==
  /\ cancelled /\ Move(t, "new", "refused")
  /\ UNCHANGED <<erred, saved, cancelled, returned>>

\* After Run has returned only a cancelled runner may still find a task.
Start(t) ==
  /\ returned => cancelled
  /\ Move(t, "accepted", "running")
  /\ UNCHANGED <<erred, saved, cancelled, returned>>

Finish(t) ==
  /\ Move(t, "running", "finished")
  /\ erred' \in {erred, erred \cup {t}}
  /\ UNCHANGED <<saved, cancelled, returned>>

Save(t) ==
  /\ t \in erred
  /\ saved' = saved \cup {t}
  /\ UNCHANGED <<life, erred, cancelled, returned>>

Drop(t) ==
  /\ cancelled /\ Move(t, "accepted", "dropped")
  /\ UNCHANGED <<erred, saved, cancelled, returned>>

Cancel ==
  /\ cancelled' = TRUE
  /\ UNCHANGED <<life, erred, saved, returned>>

Return ==
  /\ ~returned /\ returned' = TRUE
  /\ \A t \in Tasks : life[t] # "running"
  /\ cancelled \/ \A t \in Tasks : life[t] # "accepted"
  /\ saved = erred
  /\ UNCHANGED <<life, erred, saved, cancelled>>

Next ==
  \/ \E t \in Tasks :
       Accept(t) \/ Refuse(t) \/ Start(t) \/ Finish(t) \/ Save(t) \/ Drop(t)
  \/ Cancel \/ Return

Spec == Init /\ [][Next]_poolVars
=============================================================================
