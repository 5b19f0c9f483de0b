--------------------------- MODULE RetryExecutor ---------------------------
(***************************************************************************)
(* http/retryexecutor: Execute runs a handler until it asks for no retry,  *)
(* the context is cancelled or the attempts are used up.  The context      *)
(* belongs to somebody else: it may be cancelled, or reach its deadline,   *)
(* between any two steps.  Messages are left out.                          *)
(***************************************************************************)
EXTENDS Integers

CONSTANT RetryLimit   \* bound of the MaxRetries field

ASSUME RetryAssumption == RetryLimit \in Nat

VARIABLES retryAt,    \* where Execute is
          executor,   \* the fields MaxRetries and whether there is an interval
          attempt,    \* the loop variable i
          answer,     \* what the handler returned: shouldRetry and err
          context,    \* state of the Context field, "none" without one
          execErr,    \* what Execute returned
          late        \* attempts that began after the cancellation

retryVars == <<retryAt, executor, attempt, answer, context, execErr, late>>

Executors == [MaxRetries : -1..RetryLimit, pauses : BOOLEAN]
Answers   == [shouldRetry : BOOLEAN, err : {"nil", "failure"}]
NoAnswer  == [shouldRetry |-> FALSE, err |-> "nil"]

RetryInit ==
  /\ retryAt = "idle" /\ executor = [MaxRetries |-> 0, pauses |-> FALSE]
  /\ attempt = 0 /\ answer = NoAnswer /\ context = "none"
  /\ execErr = "nil" /\ late = 0

Execute ==
  /\ retryAt = "idle" /\ retryAt' = "loop"
  /\ executor' \in Executors
  /\ context' \in {"none", "live", "cancelled", "expired"}
  /\ UNCHANGED <<attempt, answer, execErr, late>>

ExecutionEnds(err) == retryAt' = "returned" /\ execErr' = err

ExecutionHandler ==
  /\ retryAt = "loop" /\ attempt <= executor.MaxRetries
  /\ answer' \in Answers
  /\ late' = IF context = "cancelled" THEN late + 1 ELSE late
  /\ IF answer'.shouldRetry THEN retryAt' = "check" /\ UNCHANGED execErr
                            ELSE ExecutionEnds(answer'.err)
  /\ UNCHANGED <<executor, attempt, context>>

\* The rest of the loop's body.
CheckAndPause(cancelled) ==
  /\ retryAt = "check"
  /\ IF cancelled
       THEN ExecutionEnds("cancelled") /\ UNCHANGED attempt
       ELSE /\ attempt' = attempt + 1
            /\ retryAt' = IF executor.pauses /\ attempt < executor.MaxRetries
                            THEN "sleep" ELSE "loop"
            /\ UNCHANGED execErr
  /\ UNCHANGED <<executor, answer, context, late>>

\* Mutation: the context is looked at only when there is an interval.
checkCancelled_OnlyPaused == CheckAndPause(context = "cancelled" /\ executor.pauses)
\* An expired deadline is not a cancellation.
checkCancelled == CheckAndPause(context = "cancelled")

SleepEnds ==
  /\ retryAt = "sleep" /\ retryAt' = "loop"
  /\ UNCHANGED <<executor, attempt, answer, context, execErr, late>>

GiveUp ==
  /\ retryAt = "loop" /\ attempt > executor.MaxRetries
  /\ ExecutionEnds(IF answer.err # "nil" THEN answer.err ELSE "timeout")
  /\ UNCHANGED <<executor, attempt, answer, context, late>>

ContextEnds ==
  /\ retryAt # "idle" /\ context = "live"
  /\ context' \in {"cancelled", "expired"}
  /\ UNCHANGED <<retryAt, executor, attempt, answer, execErr, late>>

\* The caller takes the result; the next call may use another executor.
ExecuteReturns ==
  /\ retryAt = "returned" /\ retryAt' = "idle"
  /\ executor' = [MaxRetries |-> 0, pauses |-> FALSE]
  /\ attempt' = 0 /\ answer' = NoAnswer /\ context' = "none"
  /\ execErr' = "nil" /\ late' = 0

RetryStep == ExecutionHandler \/ checkCancelled \/ SleepEnds \/ GiveUp \/ ExecuteReturns
RetryNext == Execute \/ RetryStep \/ ContextEnds
RetrySpec == RetryInit /\ [][RetryNext]_retryVars /\ WF_retryVars(RetryStep)

-----------------------------------------------------------------------------
(* Types, and the number of attempts: never more than MaxRetries + 1.      *)
RetryTypeOK ==
  /\ retryAt \in {"idle", "loop", "check", "sleep", "returned"}
  /\ executor \in Executors /\ answer \in Answers
  /\ context \in {"none", "live", "cancelled", "expired"}
  /\ execErr \in {"nil", "failure", "cancelled", "timeout"} /\ late \in Nat
  /\ attempt \in Nat
  /\ attempt <= executor.MaxRetries + 1 \/ attempt = 0
  /\ retryAt = "check" => attempt <= executor.MaxRetries

\* The context is tested after an attempt and not before, nor during the
\* sleep: whenever it is cancelled, at most one more attempt begins.
CancelHeeded == late <= 1

\* Execute returns nil only because the handler asked for no retry and had
\* no error: a handler that still asks for one ends in an error, whatever
\* it returned last, and a cancellation is reported only if there was one.
NilMeansDone ==
  retryAt = "returned" =>
    /\ execErr = "nil" => ~answer.shouldRetry /\ answer.err = "nil" /\ executor.MaxRetries >= 0
    /\ execErr = "cancelled" => answer.shouldRetry /\ context = "cancelled"
    /\ execErr = "timeout" => attempt > executor.MaxRetries

(* What Execute does once it is cancelled, and what its result means.      *)
HonestResult == CancelHeeded /\ NilMeansDone

(* Execute returns, with a handler that returns and a sleep that ends,     *)
(* although nothing stops an executor whose context has expired.           *)
ExecuteEnds == (retryAt = "loop") ~> (retryAt = "returned")
=============================================================================
