---------------------------- MODULE ReadAllReader ----------------------------
(***************************************************************************)
(* ReadAllReader of fanout/readall_reader.go: one goroutine copies a       *)
(* source to the pipes of all consumers, one goroutine per consumer runs   *)
(* its ReadAll on its pipe, and the caller collects what they return.      *)
(*                                                                         *)
(* The data are counted in units that have no content.  An io.Pipe has no  *)
(* buffer: a write of some units ends when its reader has taken them all,  *)
(* or with an error when the reader is closed before that.                 *)
(***************************************************************************)
EXTENDS Integers, Sequences, FiniteSets

CONSTANTS
  N,              \* number of consumers
  Units,          \* length of what the source holds
  SourceMayFail   \* may a read of the source fail?

ASSUME ConstantsAssumption ==
  N \in Nat \ {0} /\ Units \in Nat /\ SourceMayFail \in BOOLEAN

Positions == 0 .. (N - 1)

VARIABLES
  copier,       \* the copying goroutine: where it is, and the pipe it is at
  taken,        \* units it has read from the source
  chunk,        \* units in its buffer
  copyError,    \* multiWriterError: "none", "source" or "pipe"
  pending,      \* per pipe, the units of the current write not yet read
  writerClosed, readerClosed,
  consumer,     \* per consumer, where its goroutine is
  got,          \* per consumer, the units it has read
  outcome,      \* per consumer, how its ReadAll returned: "none", "data", "error"
  errs,         \* the errs channel: positions of the consumers that failed
  results,      \* the results channel
  caller,       \* the goroutine in ReadAll: where it is, and messages collected
  slots,        \* its results array: NoData, or what the consumer returned
  lastError     \* its lastError: "none", "source", "pipe" or "consumer"

pipeVars     == <<pending, writerClosed, readerClosed>>
copyVars     == <<copier, taken, chunk, copyError>>
consumerVars == <<consumer, got, outcome>>
callerVars   == <<caller, slots, lastError>>
vars == <<pipeVars, copyVars, consumerVars, callerVars, errs, results>>

\* What consumer i computes from n units, and a slot of the array without any.
Data(i, n) == <<i, n>>
NoData == <<>>

Init ==
  /\ copier = [at |-> "unborn", w |-> 0] /\ taken = 0 /\ chunk = 0
  /\ copyError = "none"
  /\ pending = [i \in Positions |-> 0]
  /\ writerClosed = [i \in Positions |-> FALSE]
  /\ readerClosed = [i \in Positions |-> FALSE]
  /\ consumer = [i \in Positions |-> "unborn"]
  /\ got = [i \in Positions |-> 0]
  /\ outcome = [i \in Positions |-> "none"]
  /\ errs = <<>> /\ results = <<>>
  /\ caller = [at |-> "idle", collected |-> 0]
  /\ slots = [i \in Positions |-> NoData] /\ lastError = "none"

-----------------------------------------------------------------------------
(* The caller of ReadAll.                                                  *)

\* Starts the goroutines and waits for the copying one.
ReadAll ==
  /\ caller.at = "idle"
  /\ caller' = [caller EXCEPT !.at = "waiting"]
  /\ consumer' = [i \in Positions |-> "choosing"]
  /\ copier' = [copier EXCEPT !.at = "reading"]
  /\ UNCHANGED <<taken, chunk, copyError, pipeVars, got, outcome, errs, results,
                 slots, lastError>>

\* wg.Wait() returns; getAllReadersResult begins.
CopyAwaited ==
  /\ caller.at = "waiting" /\ copier.at = "done"
  /\ caller' = [caller EXCEPT !.at = "collecting"]
  /\ lastError' = copyError
  /\ UNCHANGED <<copyVars, pipeVars, consumerVars, errs, results, slots>>

\* The select, once for each consumer.
CollectError ==
  /\ caller.at = "collecting" /\ caller.collected < N /\ errs # <<>>
  /\ errs' = Tail(errs)
  /\ lastError' = "consumer"
  /\ caller' = [caller EXCEPT !.collected = @ + 1]
  /\ UNCHANGED <<copyVars, pipeVars, consumerVars, results, slots>>

\* Mutation: stores the results in the order in which they arrive.
CollectResult_ByArrival ==
  /\ caller.at = "collecting" /\ caller.collected < N /\ results # <<>>
  /\ results' = Tail(results)
  /\ slots' = [slots EXCEPT ![caller.collected] = Head(results).data]
  /\ caller' = [caller EXCEPT !.collected = @ + 1]
  /\ UNCHANGED <<copyVars, pipeVars, consumerVars, errs, lastError>>

CollectResult ==
  /\ caller.at = "collecting" /\ caller.collected < N /\ results # <<>>
  /\ results' = Tail(results)
  /\ slots' = [slots EXCEPT ![Head(results).pos] = Head(results).data]
  /\ caller' = [caller EXCEPT !.collected = @ + 1]
  /\ UNCHANGED <<copyVars, pipeVars, consumerVars, errs, lastError>>

\* Mutation: returns with the first error.
Return_AtFirstError ==
  /\ caller.at = "collecting" /\ (caller.collected = N \/ lastError # "none")
  /\ caller' = [caller EXCEPT !.at = "returned"]
  /\ UNCHANGED <<copyVars, pipeVars, consumerVars, errs, results, slots, lastError>>

\* ReadAll returns the slots, or lastError; errs and results are closed.
Return ==
  /\ caller.at = "collecting" /\ caller.collected = N
  /\ caller' = [caller EXCEPT !.at = "returned"]
  /\ UNCHANGED <<copyVars, pipeVars, consumerVars, errs, results, slots, lastError>>

-----------------------------------------------------------------------------
(* The copying goroutine: io.Copy to an io.MultiWriter, which writes to the *)
(* pipes in turn and stops at the first that fails.                         *)

CopyRead ==
  /\ copier.at = "reading" /\ taken < Units
  /\ \E k \in 1 .. (Units - taken) :
       /\ taken' = taken + k /\ chunk' = k
       /\ pending' = [pending EXCEPT ![0] = k]
  /\ copier' = [at |-> "writing", w |-> 0]
  /\ UNCHANGED <<copyError, writerClosed, readerClosed, consumerVars, callerVars, errs, results>>

CopyReadFails ==
  /\ copier.at = "reading" /\ SourceMayFail
  /\ copyError' = "source"
  /\ copier' = [at |-> "closing", w |-> 0]
  /\ UNCHANGED <<taken, chunk, pipeVars, consumerVars, callerVars, errs, results>>

\* The source is at its end, which is no error for io.Copy.
CopyReadEnds ==
  /\ copier.at = "reading" /\ taken = Units
  /\ copier' = [at |-> "closing", w |-> 0]
  /\ UNCHANGED <<taken, chunk, copyError, pipeVars, consumerVars, callerVars, errs, results>>

CopyWritten ==
  /\ copier.at = "writing" /\ pending[copier.w] = 0
  /\ IF copier.w = N - 1
       THEN copier' = [at |-> "reading", w |-> 0] /\ UNCHANGED pending
       ELSE /\ copier' = [copier EXCEPT !.w = @ + 1]
            /\ pending' = [pending EXCEPT ![copier.w + 1] = chunk]
  /\ UNCHANGED <<taken, chunk, copyError, writerClosed, readerClosed, consumerVars,
                 callerVars, errs, results>>

\* Mutation: skips a pipe whose reader is closed.
CopyBroken_Skips ==
  /\ copier.at = "writing" /\ pending[copier.w] > 0 /\ readerClosed[copier.w]
  /\ pending' = [pending EXCEPT ![copier.w] = 0]
  /\ UNCHANGED <<copyVars, writerClosed, readerClosed, consumerVars, callerVars, errs, results>>

\* Mutation: stops at a closed pipe, but forgets the error.
CopyBroken_Ignored ==
  /\ copier.at = "writing" /\ pending[copier.w] > 0 /\ readerClosed[copier.w]
  /\ copier' = [at |-> "closing", w |-> 0]
  /\ UNCHANGED <<taken, chunk, copyError, pipeVars, consumerVars, callerVars, errs, results>>

\* The write finds the reader closed.
CopyBroken ==
  /\ copier.at = "writing" /\ pending[copier.w] > 0 /\ readerClosed[copier.w]
  /\ copyError' = "pipe"
  /\ copier' = [at |-> "closing", w |-> 0]
  /\ UNCHANGED <<taken, chunk, pipeVars, consumerVars, callerVars, errs, results>>

\* r.close(), one pipe at a time, then wg.Done().
CopyClose ==
  /\ copier.at = "closing"
  /\ writerClosed' = [writerClosed EXCEPT ![copier.w] = TRUE]
  /\ copier' = IF copier.w = N - 1 THEN [copier EXCEPT !.at = "done"]
                                   ELSE [copier EXCEPT !.w = @ + 1]
  /\ UNCHANGED <<taken, chunk, copyError, pending, readerClosed, consumerVars, callerVars,
                 errs, results>>

-----------------------------------------------------------------------------
(* The goroutine of consumer i.  What its ReadAll does is the caller's code: *)
(* it reads, or returns data or an error, as it likes.                       *)

AtConsumer(i, label) == consumer' = [consumer EXCEPT ![i] = label]

ConsumerReads(i) ==
  /\ consumer[i] = "choosing"
  /\ AtConsumer(i, "reading")
  /\ UNCHANGED <<copyVars, pipeVars, got, outcome, callerVars, errs, results>>

ConsumerGets(i) ==
  /\ consumer[i] = "reading" /\ pending[i] > 0
  /\ pending' = [pending EXCEPT ![i] = @ - 1]
  /\ got' = [got EXCEPT ![i] = @ + 1]
  /\ AtConsumer(i, "choosing")
  /\ UNCHANGED <<copyVars, writerClosed, readerClosed, outcome, callerVars, errs, results>>

\* The read returns io.EOF; from here on there is nothing to read.
ConsumerEnds(i) ==
  /\ consumer[i] = "reading" /\ writerClosed[i]
  /\ AtConsumer(i, "ending")
  /\ UNCHANGED <<copyVars, pipeVars, got, outcome, callerVars, errs, results>>

ConsumerReturns(i) ==
  /\ consumer[i] \in {"choosing", "ending"}
  /\ \E result \in {"data", "error"} : outcome' = [outcome EXCEPT ![i] = result]
  /\ AtConsumer(i, "returned")
  /\ UNCHANGED <<copyVars, pipeVars, got, callerVars, errs, results>>

\* Sends to errs or results, which have room for all consumers.
ConsumerSends(i) ==
  /\ consumer[i] = "returned"
  /\ IF outcome[i] = "error"
       THEN errs' = Append(errs, i) /\ UNCHANGED results
       ELSE results' = Append(results, [data |-> Data(i, got[i]), pos |-> i]) /\ UNCHANGED errs
  /\ AtConsumer(i, "sent")
  /\ UNCHANGED <<copyVars, pipeVars, got, outcome, callerVars>>

\* Mutation: the pipe stays open when the consumer returns.
ConsumerCloses_Not(i) ==
  /\ consumer[i] = "sent"
  /\ AtConsumer(i, "ended")
  /\ UNCHANGED <<copyVars, pipeVars, got, outcome, callerVars, errs, results>>

\* The deferred reader.Close().
ConsumerCloses(i) ==
  /\ consumer[i] = "sent"
  /\ readerClosed' = [readerClosed EXCEPT ![i] = TRUE]
  /\ AtConsumer(i, "ended")
  /\ UNCHANGED <<copyVars, pending, writerClosed, got, outcome, callerVars, errs, results>>

-----------------------------------------------------------------------------
CallerStep == CopyAwaited \/ CollectError \/ CollectResult \/ Return

CopierStep ==
  \/ CopyRead \/ CopyReadFails \/ CopyReadEnds
  \/ CopyWritten \/ CopyBroken \/ CopyClose

ConsumerStep(i) ==
  \/ ConsumerReads(i) \/ ConsumerGets(i) \/ ConsumerEnds(i)
  \/ ConsumerReturns(i) \/ ConsumerSends(i) \/ ConsumerCloses(i)

Next == ReadAll \/ CallerStep \/ CopierStep \/ \E i \in Positions : ConsumerStep(i)

\* Every goroutine that can run does; a consumer's ReadAll does not stop
\* forever between two reads, and the source answers.
Fairness ==
  /\ WF_vars(CallerStep) /\ WF_vars(CopierStep)
  /\ \A i \in Positions : WF_vars(ConsumerStep(i))

Spec     == Init /\ [][Next]_vars
FairSpec == Spec /\ Fairness

-----------------------------------------------------------------------------
Succeeded == caller.at = "returned" /\ lastError = "none"
Failed    == caller.at = "returned" /\ lastError # "none"

\* A nil error means that no consumer failed and every consumer received the
\* whole source: one that stops early, in the middle of a chunk or between two,
\* before or after the others have read it, makes ReadAll fail.  It fails for no
\* other reason than that, or the failure of the source or of a consumer.
SuccessMeansAll ==
  /\ Succeeded => \A i \in Positions : outcome[i] = "data" /\ got[i] = Units
  /\ Failed => \/ copyError = "source"
               \/ \E i \in Positions : outcome[i] = "error" \/ got[i] < Units

\* The results are in the order of the consumers, in whatever order the
\* consumers return.
ResultsInPlace ==
  Succeeded => \A i \in Positions : slots[i] = Data(i, got[i])

\* When ReadAll returns and closes errs and results, no consumer is still to
\* send on them (a send on a closed channel panics).
NoSendAfterClose ==
  caller.at = "returned" => \A i \in Positions : consumer[i] \in {"sent", "ended"}

\* Closing the pipe stops "all readers ... as well": once a consumer is gone that
\* has not read everything taken from the source, no more is read from it.
StopsTogether ==
  [][(\E i \in Positions : readerClosed[i] /\ got[i] < taken) => taken' = taken]_vars

\* ReadAll returns and leaves no goroutine behind, whichever consumer stops
\* reading first and wherever it does ("This scenario can cause deadlock",
\* says the test of it).
AllEnd ==
  caller.at = "waiting"
    ~> caller.at = "returned" /\ \A i \in Positions : consumer[i] = "ended"
=============================================================================
