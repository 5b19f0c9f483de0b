----------------------------- MODULE MCStreams -----------------------------
(***************************************************************************)
(* The components that run concurrently and share nothing with each other, *)
(* side by side for model checking: each acts while the others are in      *)
(* their initial states.                                                   *)
(***************************************************************************)
EXTENDS CmdOutput, FileStream, TempDirs, Logger

Init == CmdInit /\ StreamInit /\ TempInit /\ LoggerInit

Next ==
  \/ /\ StreamInit /\ TempInit /\ LoggerInit
     /\ CmdNext /\ UNCHANGED <<streamVars, tempVars, loggerVars>>
  \/ /\ CmdInit /\ TempInit /\ LoggerInit
     /\ StreamNext /\ UNCHANGED <<cmdVars, tempVars, loggerVars>>
  \/ /\ CmdInit /\ StreamInit /\ LoggerInit
     /\ TempNext /\ UNCHANGED <<cmdVars, streamVars, loggerVars>>
  \/ /\ CmdInit /\ StreamInit /\ TempInit
     /\ LoggerNext /\ UNCHANGED <<cmdVars, streamVars, tempVars>>

Spec == /\ Init /\ [][Next]_<<cmdVars, streamVars, tempVars, loggerVars>>
        /\ WF_cmdVars(CmdStep)
        /\ WF_streamVars(SendStep) /\ WF_streamVars(RecvStep) /\ WF_streamVars(ReaderCloses)

-----------------------------------------------------------------------------
(* The type invariants, with the limits of the pipes and of the writers.   *)
TypesOK == CmdTypeOK /\ StreamTypeOK

(* The caller of a command gets its result, and both ends of a transfer    *)
(* return, although each waits for goroutines that wait for the other side.*)
CallsReturn == CmdCallReturns /\ TransferCompletes
=============================================================================
