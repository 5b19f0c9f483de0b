---------------------------- MODULE FanoutReader ----------------------------
(***************************************************************************)
(* Reader of fanout/reader.go, used as an io.Reader: its caller calls Read *)
(* until Read returns an error.  A call of Read reads a buffer from the    *)
(* source, writes it to the pipes of all consumers and hands each consumer *)
(* what it reads from its pipe.                                            *)
(*                                                                         *)
(* The data are counted in units.  A pipe has no buffer: a write ends when *)
(* the reader has taken it, and fails when the pipe is closed.             *)
(***************************************************************************)
EXTENDS Integers, Sequences

CONSTANTS
  N,              \* number of consumers
  Units,          \* length of what the source holds
  BufferSize,     \* length of the buffer the caller gives to Read
  SourceMayFail,  \* may a read of the source fail?
  EndsWithData,   \* may a read of the source return data together with io.EOF?
  MayFail         \* positions of the consumers that may fail

Positions == 0 .. (N - 1)

ASSUME ConstantsAssumption ==
  /\ N \in Nat \ {0} /\ Units \in Nat /\ BufferSize \in Nat \ {0}
  /\ SourceMayFail \in BOOLEAN /\ EndsWithData \in BOOLEAN
  /\ MayFail \subseteq Positions

VARIABLES
  caller,     \* "calling", "waiting", "collecting", "finished" (after EOF) or "failed"
  collected,  \* messages received in this call of Read
  e,          \* its error: "none", "EOF", "source", "pipe" or "consumer"
  copier,     \* the goroutine that reads the source: where it is, and its pipe
  taken,      \* units read from the source, in all calls
  chunk,      \* units read in this call
  pending,    \* per pipe, the units of the current write not yet read
  closed,     \* per pipe, whether its writer is closed
  consumer,   \* per consumer, where the goroutine of this call is
  got,        \* per consumer, the units handed to it, in all calls
  failed,     \* the consumers that have returned an error
  done, errs  \* the two channels: the number of messages, and the errors in it

callVars     == <<caller, collected, e>>
copyVars     == <<copier, taken, chunk>>
pipeVars     == <<pending, closed>>
consumerVars == <<consumer, got, failed>>
channelVars  == <<done, errs>>
vars == <<callVars, copyVars, pipeVars, consumerVars, channelVars>>

Init ==
  /\ caller = "calling" /\ collected = 0 /\ e = "none"
  /\ copier = [at |-> "unborn", w |-> 0] /\ taken = 0 /\ chunk = 0
  /\ pending = [i \in Positions |-> 0] /\ closed = [i \in Positions |-> FALSE]
  /\ consumer = [i \in Positions |-> "unborn"]
  /\ got = [i \in Positions |-> 0]
  /\ failed = {}
  /\ done = 0 /\ errs = <<>>

-----------------------------------------------------------------------------
(* Read, and its caller.                                                   *)

Read ==
  /\ caller = "calling"
  /\ caller' = "waiting" /\ collected' = 0 /\ e' = "none"
  /\ copier' = [at |-> "reading", w |-> 0]
  /\ consumer' = [i \in Positions |-> "reading"]
  /\ UNCHANGED <<taken, chunk, pipeVars, got, failed, channelVars>>

\* wg.Wait() returns.
ReadAwaited ==
  /\ caller = "waiting" /\ copier.at = "done"
  /\ caller' = "collecting"
  /\ UNCHANGED <<collected, e, copyVars, pipeVars, consumerVars, channelVars>>

\* The select, once for each consumer: every error replaces the one before.
CollectDone ==
  /\ caller = "collecting" /\ collected < N /\ done > 0
  /\ done' = done - 1 /\ collected' = collected + 1
  /\ UNCHANGED <<caller, e, copyVars, pipeVars, consumerVars, errs>>

CollectError ==
  /\ caller = "collecting" /\ collected < N /\ errs # <<>>
  /\ e' = Head(errs) /\ errs' = Tail(errs)
  /\ collected' = collected + 1
  /\ UNCHANGED <<caller, copyVars, pipeVars, consumerVars, done>>

\* Read returns 0 and e.  The caller reads on, or stops at an error; io.EOF
\* is the end of the data to it.
ReadReturns ==
  /\ caller = "collecting" /\ collected = N
  /\ caller' = CASE e = "none" -> "calling" [] e = "EOF" -> "finished" [] OTHER -> "failed"
  /\ UNCHANGED <<collected, e, copyVars, pipeVars, consumerVars, channelVars>>

-----------------------------------------------------------------------------
(* The goroutine that reads the source.                                    *)

\* The read returns data and no error.
SourceReads ==
  /\ copier.at = "reading" /\ taken < Units
  /\ \E k \in 1 .. BufferSize :
       k <= Units - taken /\ taken' = taken + k /\ chunk' = k
  /\ copier' = [at |-> "writing", w |-> 0]
  /\ UNCHANGED <<callVars, pipeVars, consumerVars, channelVars>>

\* The read returns io.EOF or another error, kept in e; data that come with it
\* are dropped.
SourceStops ==
  /\ copier.at = "reading"
  /\ \/ taken = Units /\ e' = "EOF" /\ UNCHANGED taken
     \/ EndsWithData /\ Units - taken \in 1 .. BufferSize /\ e' = "EOF" /\ taken' = Units
     \/ SourceMayFail /\ e' = "source" /\ UNCHANGED taken
  /\ copier' = [at |-> "closing", w |-> 0]
  /\ UNCHANGED <<caller, collected, chunk, pipeVars, consumerVars, channelVars>>

\* multiWriter.Write begins the write to one pipe, or finds it closed.
WriteBegins ==
  /\ copier.at = "writing" /\ ~closed[copier.w]
  /\ pending' = [pending EXCEPT ![copier.w] = chunk]
  /\ copier' = [copier EXCEPT !.at = "writing on"]
  /\ UNCHANGED <<callVars, taken, chunk, closed, consumerVars, channelVars>>

WriteFails ==
  /\ copier.at = "writing" /\ closed[copier.w]
  /\ e' = "pipe"
  /\ copier' = [at |-> "closing", w |-> 0]
  /\ UNCHANGED <<caller, collected, taken, chunk, pipeVars, consumerVars, channelVars>>

\* Mutation: the last pipe is forgotten.
WriteEnds_OneTooFew ==
  /\ copier.at = "writing on" /\ pending[copier.w] = 0
  /\ copier' = IF copier.w >= N - 2 THEN [at |-> "closing", w |-> 0]
                                    ELSE [at |-> "writing", w |-> copier.w + 1]
  /\ UNCHANGED <<callVars, taken, chunk, pipeVars, consumerVars, channelVars>>

WriteEnds ==
  /\ copier.at = "writing on" /\ pending[copier.w] = 0
  /\ copier' = IF copier.w = N - 1 THEN [at |-> "closing", w |-> 0]
                                   ELSE [at |-> "writing", w |-> copier.w + 1]
  /\ UNCHANGED <<callVars, taken, chunk, pipeVars, consumerVars, channelVars>>

\* Mutation: the pipes stay open.
Close_Not ==
  /\ copier.at = "closing"
  /\ copier' = [copier EXCEPT !.at = "done"]
  /\ UNCHANGED <<callVars, taken, chunk, pipeVars, consumerVars, channelVars>>

\* The deferred r.close() closes every pipe, in every call, then wg.Done().
Close ==
  /\ copier.at = "closing"
  /\ closed' = [closed EXCEPT ![copier.w] = TRUE]
  /\ copier' = IF copier.w = N - 1 THEN [copier EXCEPT !.at = "done"]
                                   ELSE [copier EXCEPT !.w = @ + 1]
  /\ UNCHANGED <<callVars, taken, chunk, pending, consumerVars, channelVars>>

-----------------------------------------------------------------------------
(* The goroutine of consumer i in one call.                                *)

AtConsumer(i, label) == consumer' = [consumer EXCEPT ![i] = label]

\* One read of the pipe takes the whole write: the buffers are equally long.
PipeReads(i) ==
  /\ consumer[i] = "reading" /\ pending[i] > 0
  /\ pending' = [pending EXCEPT ![i] = 0]
  /\ AtConsumer(i, "holding")
  /\ UNCHANGED <<callVars, copyVars, closed, got, failed, channelVars>>

\* The pipe is closed: io.EOF goes to errs.
PipeEnds(i) ==
  /\ consumer[i] = "reading" /\ closed[i]
  /\ errs' = Append(errs, "EOF")
  /\ AtConsumer(i, "ended")
  /\ UNCHANGED <<callVars, copyVars, pipeVars, got, failed, done>>

\* Mutation: the consumer's error is not sent.
Consumes_Silently(i) ==
  /\ consumer[i] = "holding"
  /\ got' = [got EXCEPT ![i] = @ + chunk]
  /\ failed' \in {failed} \cup (IF i \in MayFail THEN {failed \cup {i}} ELSE {})
  /\ done' = done + 1
  /\ AtConsumer(i, "ended")
  /\ UNCHANGED <<callVars, copyVars, pipeVars, errs>>

\* The consumer's Read, and the message about it.
Consumes(i) ==
  /\ consumer[i] = "holding"
  /\ got' = [got EXCEPT ![i] = @ + chunk]
  /\ \/ done' = done + 1 /\ UNCHANGED <<errs, failed>>
     \/ /\ i \in MayFail /\ failed' = failed \cup {i}
        /\ errs' = Append(errs, "consumer")
        /\ UNCHANGED done
  /\ AtConsumer(i, "ended")
  /\ UNCHANGED <<callVars, copyVars, pipeVars>>

-----------------------------------------------------------------------------
CallerStep == Read \/ ReadAwaited \/ CollectDone \/ CollectError \/ ReadReturns

CopierStep ==
  SourceReads \/ SourceStops \/ WriteBegins \/ WriteFails \/ WriteEnds \/ Close

ConsumerStep(i) == PipeReads(i) \/ PipeEnds(i) \/ Consumes(i)

Next == CallerStep \/ CopierStep \/ \E i \in Positions : ConsumerStep(i)

\* Every goroutine that can run does, the caller reads on, the source answers
\* and the consumers' Read returns.
Fairness ==
  /\ WF_vars(CallerStep) /\ WF_vars(CopierStep)
  /\ \A i \in Positions : WF_vars(ConsumerStep(i))

Spec     == Init /\ [][Next]_vars
FairSpec == Spec /\ Fairness

-----------------------------------------------------------------------------
\* Whatever fails, the caller's loop comes to an end, and then no goroutine of
\* any call is left.
LoopEnds ==
  <>[](/\ caller \in {"finished", "failed"} /\ copier.at = "done"
       /\ \A i \in Positions : consumer[i] = "ended")

\* An error a consumer returns reaches the caller, through the errors of the
\* source, the pipes and the other consumers.
FailureReported == caller = "finished" => failed = {}

\* Whenever a call has returned, all consumers have been handed the same data,
\* also when one of them or the source has failed.
Together ==
  caller \in {"calling", "finished", "failed"} =>
    \A i, j \in Positions : got[i] = got[j]

\* "A reader that emits its read to multiple consumers": when the caller has read to
\* the end, every consumer has been handed the whole source.
EmitsWholeSource ==
  caller = "finished" => \A i \in Positions : got[i] = Units

\* "Do not wrap the read err or EOF will not be handled": the error of the source is
\* what the caller gets, so that it never takes a failed source for one that ended.
SourceErrorReturned == e = "source" ~> caller = "failed"
=============================================================================
