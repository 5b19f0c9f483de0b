------------------------------ MODULE TempDirs ------------------------------
(***************************************************************************)
(* io/fileutils: temporary directories, whose names hold the time they     *)
(* were made at, are removed by their owner or, when they are old, by      *)
(* whoever calls CleanOldDirs.  Owner and cleaner are different processes. *)
(* Other programs may put names there that only begin alike.               *)
(***************************************************************************)
EXTENDS Integers

CONSTANTS Dirs,        \* names of directories, unique in their lifetime
          maxFileAge, MaxTime

ASSUME TempAssumption == maxFileAge \in Nat /\ MaxTime \in Nat

Malformed == -1        \* no time stamp in the name
NoDir     == -2
Stamps    == {NoDir, Malformed} \union 0..MaxTime

VARIABLES temp,        \* the time stamps of the names in the base directory
          filled,      \* directories with something in them
          clock,
          removeAt,    \* RemoveTempDir of the owner, what it removes, its error
          removed, removeErr,
          cleanAt,     \* CleanOldDirs, the names it has read, those that are
          listed,      \* left, when it began, and its error
          names, began, cleanErr

removeVars == <<removeAt, removed, removeErr>>
cleanVars  == <<cleanAt, listed, names, began, cleanErr>>
tempVars   == <<temp, filled, clock, removeVars, cleanVars>>

Empty == [d \in Dirs |-> NoDir]
There == {d \in Dirs : temp[d] # NoDir}

TempInit ==
  /\ temp = Empty /\ filled = {} /\ clock = 0
  /\ removeAt = "idle" /\ removed = {} /\ removeErr = FALSE
  /\ cleanAt = "idle" /\ listed = Empty /\ names = {} /\ began = 0 /\ cleanErr = FALSE

\* A name is not used again while somebody still works on it.
Unused(d) == temp[d] = NoDir /\ d \notin removed /\ listed[d] = NoDir

CreateTempDir(d) ==
  /\ Unused(d) /\ temp' = [temp EXCEPT ![d] = clock] /\ filled' = filled \union {d}
  /\ UNCHANGED <<clock, removeVars, cleanVars>>

AlienCreated(d) ==
  /\ Unused(d) /\ temp' = [temp EXCEPT ![d] = Malformed]
  /\ UNCHANGED <<filled, clock, removeVars, cleanVars>>

TimePasses ==
  /\ clock < MaxTime /\ clock' = clock + 1
  /\ UNCHANGED <<temp, filled, removeVars, cleanVars>>

Gone(d)     == temp' = [temp EXCEPT ![d] = NoDir] /\ filled' = filled \ {d}
notRemoving == UNCHANGED <<clock, removeVars>>
notCleaning == UNCHANGED <<clock, cleanVars>>

RemoveTempDir(d) ==
  /\ removeAt = "idle" /\ temp[d] \notin {NoDir, Malformed}
  /\ removeAt' = "all" /\ removed' = {d}
  /\ UNCHANGED <<temp, filled, removeErr>> /\ notCleaning

RemoveAll(d) ==
  /\ removeAt = "all" /\ d \in removed
  /\ \/ Gone(d) /\ removeAt' = "returned"
     \/ removeAt' = "contents" /\ UNCHANGED <<temp, filled>>
  /\ UNCHANGED <<removed, removeErr>> /\ notCleaning

\* The directory itself is left to CleanOldDirs.
removeDirContents(d) ==
  /\ removeAt = "contents" /\ d \in removed /\ removeAt' = "returned"
  /\ \/ temp[d] # NoDir /\ filled' = filled \ {d} /\ UNCHANGED removeErr
     \/ removeErr' = TRUE /\ UNCHANGED filled
  /\ UNCHANGED <<temp, removed>> /\ notCleaning

RemoveReturns ==
  /\ removeAt = "returned" /\ removeAt' = "idle" /\ removed' = {} /\ removeErr' = FALSE
  /\ UNCHANGED <<temp, filled>> /\ notCleaning

CleanOldDirs ==
  /\ cleanAt = "idle" /\ cleanAt' = "loop"
  /\ listed' = temp /\ names' = There /\ began' = clock
  /\ UNCHANGED <<temp, filled, cleanErr>> /\ notRemoving

\* Mutation: a directory of exactly the age goes as well.
Old_Boundary(d) == listed[d] # Malformed /\ began - listed[d] >= maxFileAge

Old(d) == listed[d] # Malformed /\ began - listed[d] > maxFileAge

CleanDone(d, err) ==
  /\ names' = names \ {d} /\ cleanErr' = err
  /\ cleanAt' = IF err THEN "returned" ELSE "loop"
  /\ UNCHANGED <<listed, began>> /\ notRemoving

KeepYoung(d) ==
  /\ cleanAt = "loop" /\ d \in names /\ listed[d] # Malformed /\ ~Old(d)
  /\ CleanDone(d, FALSE) /\ UNCHANGED <<temp, filled>>

CleanOld(d) == cleanAt = "loop" /\ d \in names /\ Old(d) /\ Gone(d) /\ CleanDone(d, FALSE)

\* Mutation: goes on with the next name.
CleanFails_Continues(d) ==
  /\ cleanAt = "loop" /\ d \in names /\ (listed[d] = Malformed \/ Old(d))
  /\ CleanDone(d, FALSE) /\ UNCHANGED <<temp, filled>>

\* No time stamp in the name, or the directory cannot be removed.
CleanFails(d) ==
  /\ cleanAt = "loop" /\ d \in names /\ (listed[d] = Malformed \/ Old(d))
  /\ CleanDone(d, TRUE) /\ UNCHANGED <<temp, filled>>

CleanEnds ==
  /\ cleanAt = "loop" /\ names = {} /\ cleanAt' = "returned"
  /\ UNCHANGED <<temp, filled, listed, names, began, cleanErr>> /\ notRemoving

CleanReturns ==
  /\ cleanAt = "returned" /\ cleanAt' = "idle"
  /\ listed' = Empty /\ names' = {} /\ began' = 0 /\ cleanErr' = FALSE
  /\ UNCHANGED <<temp, filled>> /\ notRemoving

TempNext == \/ TimePasses \/ RemoveReturns \/ CleanOldDirs \/ CleanEnds \/ CleanReturns
            \/ \E d \in Dirs : \/ CreateTempDir(d) \/ AlienCreated(d)
                               \/ RemoveTempDir(d) \/ RemoveAll(d) \/ removeDirContents(d)
                               \/ KeepYoung(d) \/ CleanOld(d) \/ CleanFails(d)
TempSpec == TempInit /\ [][TempNext]_tempVars

-----------------------------------------------------------------------------
(* A directory that disappears was removed by its owner, or is older than  *)
(* maxFileAge: whoever cleans leaves the others' young directories alone,  *)
(* and never touches a name without a time stamp.                          *)
YoungKept ==
  [][\A d \in There : temp'[d] = NoDir =>
       d \in removed \/ (temp[d] # Malformed /\ clock - temp[d] > maxFileAge)]_tempVars

(* CleanOldDirs without an error has removed every old directory that it   *)
(* found, also those that RemoveTempDir could only empty; a name without a *)
(* time stamp, or a directory that resists, is an error.                   *)
CleanMeansOldGone ==
  cleanAt = "returned" /\ ~cleanErr => \A d \in There : listed[d] # Malformed /\ (listed[d] # NoDir => ~Old(d))

(* RemoveTempDir without an error has removed the directory or emptied it, *)
(* whatever is cleaned at the same time.                                   *)
RemovedOrEmpty == removeAt = "returned" /\ ~removeErr => removed \intersect filled = {}

(* Removing and cleaning report what they could not do.                    *)
NoErrorMeansGone == CleanMeansOldGone /\ RemovedOrEmpty
=============================================================================
