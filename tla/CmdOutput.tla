----------------------------- MODULE CmdOutput -----------------------------
(***************************************************************************)
(* io/cmd: RunCmdWithOutputParser.  The command writes lines into two      *)
(* pipes, a goroutine scans each of them and hands the error of a pattern  *)
(* to the caller over an unbuffered channel, a third one closes the        *)
(* channel when both have ended.  A line is what processLine and the       *)
(* scanner make of it: "plain", "error" when a pattern's ExecFunc fails,   *)
(* "long" when it does not fit into the buffer of the scanner.             *)
(***************************************************************************)
EXTENDS Integers, Sequences, SequencesExt

CONSTANTS PipeSize,   \* lines that fit into a pipe
          MaxLines    \* bound of the lines per stream

ASSUME CmdAssumption == PipeSize \in Nat \ {0} /\ MaxLines \in Nat

Streams == {"stdout", "stderr"}
Lines   == {"plain", "error", "long"}

VARIABLES cmdAt,      \* where the caller is
          output,     \* what the command writes if nobody stops it
          written,    \* lines it has written to each stream
          exited,     \* whether it has ended
          pipe,       \* lines in the pipes
          scanAt,     \* the scanning goroutines: "scan", "send" or "ended"
          builder,    \* the lines in the two builders
          closed,     \* whether errChan is closed
          cmdErr,     \* what the caller returns
          captured    \* and the captured output

cmdVars == <<cmdAt, output, written, exited, pipe, scanAt, builder, closed, cmdErr, captured>>

Each(x) == [s \in Streams |-> x]

CmdInit ==
  /\ cmdAt = "idle" /\ output = Each(<<>>) /\ written = Each(0) /\ exited = FALSE
  /\ pipe = Each(<<>>) /\ scanAt = Each("ended") /\ builder = Each(<<>>)
  /\ closed = FALSE /\ cmdErr = "nil" /\ captured = Each(<<>>)

RunCmdWithOutputParser ==
  /\ cmdAt = "idle" /\ cmdAt' = "range"
  /\ output' \in [Streams -> SeqOf(Lines, MaxLines)]
  /\ scanAt' = Each("scan")
  /\ UNCHANGED <<written, exited, pipe, builder, closed, cmdErr, captured>>

\* Setenv, the pipes or Start fail, before there is a goroutine.
StartFails ==
  /\ cmdAt = "idle" /\ cmdAt' = "returned" /\ cmdErr' = "start"
  /\ UNCHANGED <<output, written, exited, pipe, scanAt, builder, closed, captured>>

CommandRuns == cmdAt # "idle" /\ cmdErr # "start" /\ ~exited

CommandWrites(s) ==
  /\ CommandRuns /\ written[s] < Len(output[s]) /\ Len(pipe[s]) < PipeSize
  /\ written' = [written EXCEPT ![s] = @ + 1]
  /\ pipe' = [pipe EXCEPT ![s] = Append(@, output[s][written[s] + 1])]
  /\ UNCHANGED <<cmdAt, output, exited, scanAt, builder, closed, cmdErr, captured>>

CommandExits ==
  /\ CommandRuns /\ exited' = TRUE
  /\ \A s \in Streams : written[s] = Len(output[s])
  /\ UNCHANGED <<cmdAt, output, written, pipe, scanAt, builder, closed, cmdErr, captured>>

CommandKilled ==
  /\ CommandRuns /\ exited' = TRUE
  /\ UNCHANGED <<cmdAt, output, written, pipe, scanAt, builder, closed, cmdErr, captured>>

\* Scan and processLine: the line of a failing pattern is kept, once its error
\* has been received; at a long line the scanner stops without a word.
ScanLine(s) ==
  /\ scanAt[s] = "scan" /\ pipe[s] # <<>>
  /\ LET line == Head(pipe[s])
     IN  /\ scanAt' = [scanAt EXCEPT ![s] = CASE line = "long"  -> "ended"
                                              [] line = "error" -> "send"
                                              [] OTHER          -> "scan"]
         /\ builder' = IF line = "plain" THEN [builder EXCEPT ![s] = Append(@, line)] ELSE builder
  /\ pipe' = [pipe EXCEPT ![s] = Tail(@)]
  /\ UNCHANGED <<cmdAt, output, written, exited, closed, cmdErr, captured>>

\* Mutation: stderr is read when stdout has ended.
Scan_OneByOne(s) == (s = "stdout" \/ scanAt["stdout"] = "ended") /\ ScanLine(s)

Scan(s) == ScanLine(s)

ScanEnds(s) ==
  /\ scanAt[s] = "scan" /\ pipe[s] = <<>> /\ exited
  /\ scanAt' = [scanAt EXCEPT ![s] = "ended"]
  /\ UNCHANGED <<cmdAt, output, written, exited, pipe, builder, closed, cmdErr, captured>>

\* The caller receives an error and returns it; the goroutine of stdout goes on
\* scanning, that of stderr ends.  Nobody receives from errChan any more.
Receive(s) ==
  /\ cmdAt = "range" /\ scanAt[s] = "send"
  /\ cmdAt' = "returned" /\ cmdErr' = "pattern"
  /\ builder' = [builder EXCEPT ![s] = Append(@, "error")]
  /\ scanAt' = [scanAt EXCEPT ![s] = IF s = "stdout" THEN "scan" ELSE "ended"]
  /\ UNCHANGED <<output, written, exited, pipe, closed, captured>>

CloseWhenEnded(streams) ==
  /\ cmdAt # "idle" /\ cmdErr # "start" /\ ~closed
  /\ \A s \in streams : scanAt[s] = "ended"
  /\ closed' = TRUE
  /\ UNCHANGED <<cmdAt, output, written, exited, pipe, scanAt, builder, cmdErr, captured>>

\* Mutation: one of the goroutines is not waited for.
CloseErrChan_One == CloseWhenEnded({"stdout"})

CloseErrChan == CloseWhenEnded(Streams)

RangeEnds ==
  /\ cmdAt = "range" /\ closed
  /\ cmdAt' = "wait" /\ captured' = builder
  /\ UNCHANGED <<output, written, exited, pipe, scanAt, builder, closed, cmdErr>>

Wait ==
  /\ cmdAt = "wait" /\ exited
  /\ cmdAt' = "returned" /\ cmdErr' \in {"nil", "status"}
  /\ UNCHANGED <<output, written, exited, pipe, scanAt, builder, closed, captured>>

\* The next call has pipes, goroutines and a channel of its own; what is left of
\* this one is followed no further.
CmdReturns ==
  /\ cmdAt = "returned" /\ cmdAt' = "idle"
  /\ output' = Each(<<>>) /\ written' = Each(0) /\ exited' = FALSE
  /\ pipe' = Each(<<>>) /\ scanAt' = Each("ended") /\ builder' = Each(<<>>)
  /\ closed' = FALSE /\ cmdErr' = "nil" /\ captured' = Each(<<>>)

CmdStep == \/ \E s \in Streams : CommandWrites(s) \/ Scan(s) \/ ScanEnds(s) \/ Receive(s)
           \/ CommandExits \/ CloseErrChan \/ RangeEnds \/ Wait
CmdNext == RunCmdWithOutputParser \/ StartFails \/ CmdStep \/ CommandKilled \/ CmdReturns
CmdSpec == CmdInit /\ [][CmdNext]_cmdVars /\ WF_cmdVars(CmdStep)

-----------------------------------------------------------------------------
CmdTypeOK ==
  /\ cmdAt \in {"idle", "range", "wait", "returned"}
  /\ cmdErr \in {"nil", "start", "pattern", "status"}
  /\ \A s \in Streams :
       /\ written[s] \in 0..Len(output[s]) /\ Len(pipe[s]) <= PipeSize
       /\ scanAt[s] \in {"scan", "send", "ended"} /\ Len(builder[s]) <= written[s]
  /\ exited \in BOOLEAN /\ closed \in BOOLEAN

NoLongLine == \A s \in Streams : ~Contains(output[s], "long")

(* When no pattern fails and no line is too long for the scanner, the      *)
(* caller gets all that the command wrote to both streams before it ended, *)
(* each in order.                                                          *)
OutputComplete ==
  cmdAt = "returned" /\ cmdErr \in {"nil", "status"} /\ NoLongLine =>
    \A s \in Streams : captured[s] = SubSeq(output[s], 1, written[s])

(* The error of a pattern is never lost: a caller that is told of none     *)
(* has got output in which every line passed its patterns, on either       *)
(* stream, and an error that is reported comes from a line.                *)
PatternErrorReported ==
  cmdAt = "returned" =>
    /\ cmdErr \in {"nil", "status"} /\ NoLongLine =>
         \A s \in Streams : ~Contains(SubSeq(output[s], 1, written[s]), "error")
    /\ cmdErr = "pattern" => \E s \in Streams : Contains(SubSeq(output[s], 1, written[s]), "error")

(* What the caller gets is what the command wrote.                         *)
OutputFaithful == OutputComplete /\ PatternErrorReported

(* The call returns, with a command that ends when its output is taken:    *)
(* the caller receives, or the channel is closed.  A line that is too long *)
(* stops its scanner, and a command that goes on writing then blocks.      *)
CmdCallReturns == (cmdAt = "range" /\ NoLongLine) ~> (cmdAt = "returned")
=============================================================================
