# TLA+ models of gofrog

gofrog is a collection of Go utilities: a parallel task runner, fan-out readers,
an LRU cache, a retry executor, helpers for files, commands, multipart streams,
archives, checksums, versions and logging. The packages are small and mostly
independent; what is hard in them is concurrency and partial failure. This
directory models the parts where that matters, checks the models with TLC and
proves the most important results with TLAPS.

- [1. Inventory](#1-inventory)
- [2. Modules](#2-modules)
- [3. The runner](#3-the-runner)
- [4. The fan-out readers](#4-the-fan-out-readers)
- [5. The LRU cache](#5-the-lru-cache)
- [6. Retries, versions, conversions](#6-retries-versions-conversions)
- [7. Files](#7-files)
- [8. Commands, streams, logger](#8-commands-streams-logger)
- [9. Runs, bounds and fairness](#9-runs-bounds-and-fairness)
- [10. Proofs](#10-proofs)
- [11. Where the code and its comments disagree](#11-where-the-code-and-its-comments-disagree)
- [12. What is not modelled](#12-what-is-not-modelled)

## 1. Inventory

| component | state | operations | what is hard | what makes it correct |
|---|---|---|---|---|
| **parallel/runner.go** task runner | the `tasks` channel, atomics `totalTasksInQueue`, `activeThreads`, `started`, `openThreads`, the fields `maxParallel`, `cancel`, `finishedNotifierChannelClosed`, the channel `finishedNotifier`, the `errors` map, a `sync.Once` and three mutexes | `AddTask*`, `Run`, `Done`, `Cancel`, `SetMaxParallel`, `GetFinishedNotification`, `ResetFinishNotificationIfActive`, the worker loop | every operation may run at the same time as every other, with no common lock; several windows between a test and the step it guards | every accepted task is run once, `Run` returns when everything is done, errors are complete, the finish is announced once and in time, workers never die out |
| **fanout/readall_reader.go** | one pipe per consumer, channels `results` and `errs` | `ReadAll` | unbuffered pipes between goroutines, consumers that stop early | success means that everyone got everything; nobody is left blocked |
| **fanout/reader.go** | pipes that live as long as the reader, channels per call | `Read` | the same, and repeated calls on the same pipes | every consumer gets the whole source; errors reach the caller |
| **lru/** | a linked list and a map of the same entries, a clock, a mutex | `Add`, `Get`, `UpdateElement`, `Remove`, `RemoveOldest`, `Clear`, `Len` | two structures kept in step; the order of use; expiry; callbacks | the least recently used entry goes, each exactly once, no expired value is returned |
| **http/retryexecutor** | a loop counter, the last answer, a context that others cancel | `Execute` | cancellation between any two steps, the last attempt | how many attempts still begin, which of four errors is returned |
| **io/cmd.go** | two pipes, two scanning goroutines, an unbuffered error channel | `RunCmdWithOutputParser`, `RunCmd`, `RunCmdOutput` | an early return with goroutines behind it, a command that blocks on a full pipe | all output is returned or the error of a pattern is, and the call returns |
| **io/multiwriter.go** | an error group with a limit | `Write` | one writer fails while others write or wait | no chunk is read before all writers have ended with the last |
| **http/filestream** | a multipart stream, files and their writers | `ReadFilesFromStream`, `WriteFilesToStream` | failure in the middle of a file, a connection that breaks, failing `Close` | success means that all files are whole, both ends return |
| **io/fileutils.go** walk | `visitedDirSymlinks`, the recursion | `Walk`, `walk`, `readDirNames`, `evalPathOfSymlink` | links that form loops, errors that come back through the recursion | it ends, tells of everything, stops at an error |
| **io/fileutils.go** move and copy | the file system | `MoveDir`, `MoveFile`, `CopyDir`, `CopyFile`, `ListFiles` | failures and crashes between system calls, repeated calls | no file is at neither place; success means done |
| **io/fileutils.go** temporary directories | names with time stamps | `CreateTempDir`, `RemoveTempDir`, `CleanOldDirs` | owners and cleaners in different processes | young directories stay, success means that the old ones are gone |
| **version** | a string | `Compare`, `AtLeast` | suffixes, padding, different lengths | an order that callers can sort by |
| **safeconvert** | none | five conversions | narrowing | the value is kept or refused |
| **log** | one logger behind `sync.Once`, its level and a mutex | `GetLogger`, `SetLogLevel`, `Debug` ... `Error` | the first use and changes of the level by many goroutines | one logger, and a message is printed at the level in force |
| **unarchive**, **crypto**, **datastructures**, **stringutils** | none of their own | - | library calls | section 12 |

Interactions: `crypto/checksum.go` and `http/filestream` write through
`io/multiwriter.go`; `http/retryexecutor` logs through `log`; `unarchive` uses
`datastructures.Set`; all of them call back into code of their user
(`TaskFunc`, `OnErrorFunc`, `ReadAllConsumer`, `OnEvicted`, `ExecutionHandler`,
`WalkFunc`), which the models represent by everything such code may do as far as
the component can tell.

`PROJECT.json` lists the hazards of this code line by line, each with the
properties that would show it going wrong.

## 2. Modules

| module | what it is |
|---|---|
| `Runner` | parallel/runner.go, one action per access to shared state |
| `TaskPool` | what the runner promises, without goroutines, channels or counters |
| `RunnerProperties` | the invariants, the liveness and the refinement of `Runner` |
| `MCRunner` | adds what TLC needs |
| `RunnerProofs` | proofs about `Runner`: types, custody of the tasks, counters |
| `RunnerPoolProofs` | its workers, and that it implements `TaskPool` |
| `RunnerNotifyProofs` | the finish notification, resets and `Cancel(true)` |
| `ReadAllReader`, `FanoutReader` | the two fan-out readers |
| `LRUCache`, `RecencyCache` | lru/, and what a cache promises without list and map |
| `RetryExecutor` | http/retryexecutor |
| `Versions`, `SafeConvert` | version/ and safeconvert/ |
| `FileTrees` | small directory trees with links, and what the system calls say of them |
| `Walk`, `FileMove`, `TempDirs` | the three parts of io/fileutils.go that keep state |
| `CmdOutput` | `RunCmdWithOutputParser` of io/cmd.go |
| `FileStream` | http/filestream over io/multiwriter.go |
| `Logger` | log/ |
| `MCUtilities`, `MCStreams` | components side by side, for TLC |
| `ReadAllReaderProofs`, `FanoutReaderProofs` | proofs about the two readers |
| `CacheProofs` | proofs about `LRUCache`, and that it implements `RecencyCache` |
| `UtilitiesProofs` | proofs about retries, versions, conversions, moves and walks |
| `StreamsProofs` | proofs about transfers, commands, temporary directories and the logger |

Each model holds some operators marked *Mutation*: a mutated form of the
operator that follows, as a plausible slip in the code would have it. They are no
part of a specification. `PROJECT.json` names, for every property of a passing
run, one of them that makes the property fail.

`FileStream` composes the two ends of a transfer and the multi-writer. `MCUtilities`
and `MCStreams` put components that share nothing into one run: each has its own
variables and acts only while the others are in their initial states, so that the
states add up instead of multiplying, and every behaviour of each component alone is
one of the composition. A component that returns to its initial state lets another begin.

No module that is proved about uses `RECURSIVE`; parameters are constants with
named assumptions. A proof module extends the modules it is about, and those below it in the table
share a file where their components share a run. Where two components have operators of the same
names the proofs are in different modules.

## 3. The runner

**State.** The variables have the names of the fields. `tasks` is the content of
the channel, `closed` tells whether it is closed, `chan` holds the (at most two)
channels `finishedNotifier` has pointed at and `notifier` which one it points at
now. `pc` says where each goroutine is, `job` which task a worker holds.
`stage[t]` is how far a task and its `addTask` call have come: `passed` (the test of
`cancel`), `counted` (added to `totalTasksInQueue`), `queued`, `taken`, `running`,
`ran`, `done`, or `refused`, `dropped`, `panicked`. `run`, `resizer` and `client` are the
goroutines in `Run`, in `SetMaxParallel`, and of the user that ends production.

**Actions.** Each is one access to shared state, in the order of the code:

- `AddTask`, `AddTaskCount`, `AddTaskSend`/`AddTaskPanic`: `addTask`.
- `RunStart`, `RunSpawn`, `RunSpawned`, `RunReturn`, `TimerElapse`: `Run`.
- `ThreadStart` ... `ThreadTrim`: one turn of the worker loop in `addThread`.
- `CancelStore`, `CancelForce`, `CancelOnce`, `CancelDrain`, `CancelDequeue`: `Cancel`.
- `NotifyCheck`, `NotifyAim`, `NotifySend`, `NotifyMark`, `NotifyClose`: `notifyFinished`,
  called by a worker, by `Cancel` and by the timer. `NotifyAim` is the read of the
  field `finishedNotifier`, which a reset may change before the send or close.
- `ResizeStart`, `ResizeAdd`, `ResizeAssign`: `SetMaxParallel`.
- `ClientReset`, `ClientRenew`, `ClientClear`: `ResetFinishNotificationIfActive`;
  `ClientWait`, `ClientReceive`: a receive from `GetFinishedNotification()`;
  `ClientDone`: `Done`.

**What is taken together, and why nothing is lost.**

- Taking a number and testing `cancel` in `addTask`: only `addTask` touches `taskId`.
- A lock and the test that follows it: what the lock protects cannot change in between.
- The loads of `activeThreads` and `totalTasksInQueue` in one condition: a task that is
  active is also in the total, so that the conjunction of the two zero tests is
  decided by the total alone, whichever is read first.
- `activeThreads` and `started` going up: `started` is only compared with zero by the
  timer, which then looks at nothing else.
- The section under `openThreadsLock`, the only place that compares and decrements
  `openThreads`.
- `threadsWaitGroup` is not a variable: its counter is the number of threads that
  are neither unborn nor at an end (`Live`).
- A sender that waits for room and one that has not begun to send look the same.
- `onError` and the save of the error: the callback belongs to the user.

`bool` fields without a lock or an atomic (`cancel`, `maxParallel`,
`finishedNotifierChannelClosed`) are data races in Go; they are modelled as accesses
that interleave, which is what the usual builds produce.

**The users.** Any number of `AddTask` calls is under way at once. The `client` calls
`Done`, or resets and waits, only after its own `AddTask` calls have returned:
calling `Done` while adding is a misuse that panics by the rules of Go. One goroutine
calls `SetMaxParallel`. Cancellers call `Cancel` once each, at any moment and with
either argument.

**Properties.** `Custody`: a task is in one place, and no two workers hold the same.
`CounterAccounting`: the three counters that no lock ties together are exactly the
number of what they count. `KeepsWorkers`: trimming, resizing and `Run` together never
leave fewer workers than the smallest parallelism asked for. `NoLostFinish`: when all
tasks are done and nobody is about to look, the notification channel has been closed.
`ResetGuarantee`: a client that resets after its last task is not told too early, as long as the
timer waits.
`CancelEmptiesQueue`: after `Cancel(true)` the queue is empty for good. `NoPanic`:
without `Cancel`, and while the timer waits, the lock excludes all double sends and closes.
`ImplementsPool`: `Runner` implements `TaskPool` under the mapping `Life`, in which a task
is *accepted* from its test of `cancel` to its receipt by a worker. Liveness:
`RunReturns`, `AcceptedTasksRun`, `FinishDelivered`.

**What the model also shows, and no property asks for:** with `failFast` the other
threads stay in `range` until somebody calls `Done`; a thread whose `range` ends, or that
stops after a failure, stays in `openThreads` (hence `OpenAt` contains those labels);
a task that had passed its test may be executed after `Cancel(false)` has returned;
`SetMaxParallel` during `Run` may give fewer or more threads than `maxParallel`, since the
threads are added before the field is assigned.

## 4. The fan-out readers

Data are counted in units without content: the properties are about who received
how much. A pipe is external code and modelled by its contract: it has no buffer; a write of
`k` units ends when the reader has taken `k`, or fails when the reader is closed; a
read waits for data or for the writer to be closed. `io.MultiWriter` writes to the pipes
in turn and stops at the first that fails; `io.Copy` turns io.EOF into success.
The consumers' own code may read on, return data or return an error after any unit.
Starting the goroutines is one step: one that has not started yet is one that has
not been scheduled yet.

`ReadAllReader`: `SuccessMeansAll` (a nil error means that everybody received
everything, and, conversely, that stopping exactly at the end is no error),
`ResultsInPlace`, `NoSendAfterClose` (no consumer sends on the channels that the
deferred calls close), `StopsTogether` (the comment that closing one pipe stops everybody),
`AllEnd` (no deadlock, no goroutine left).

`FanoutReader` has the loop of the caller as well, since the pipes outlive one call:
`LoopEnds`, `FailureReported` and `Together` hold; what does not is in section 11. A call
whose source returns data together with io.EOF drops the data (`EndsWithData`).

## 5. The LRU cache

`LRUCache` keeps the list as a sequence of element names, the entries behind them, and
the map from keys to elements, all changed as the code changes them. Every method is
one step: it runs under the mutex, or without it by a single caller. A callback
`OnEvicted` runs under that mutex and may not call the cache (it would wait for itself);
the model records its calls. The clock is a wall clock in milliseconds: it may be set
back. A `Size` of 0 means no limit, a negative one leaves the cache empty.

`ListMatchesMap`: the two structures hold the same entries, at most `Size`.
`NotifiedOnce`: exactly the entries that leave are reported, each once and with its last
value. `ImplementsRecencyCache`: the refinement of `RecencyCache`, where the order of use
is a relation between keys and eviction takes the oldest; it says that `Add` and `Get`
renew an entry's recency and `UpdateElement` does not, that `Add` renews its age and
`UpdateElement` and `Get` do not, and that no expired value is returned.

## 6. Retries, versions, conversions

`RetryExecutor`. `retryAt` is where `Execute` is, `attempt` its loop variable, `answer` what
the handler last returned. The context belongs to somebody else: `ContextEnds` cancels it,
or lets its deadline pass, between any two steps. `checkCancelled` tells the two
apart as the code does (an expired deadline is no cancellation), and the sleep does
not look at it. `HonestResult`: after a cancellation at most one more attempt
begins; a nil result means that the handler asked for no retry and had no error;
"cancelled" is reported only if it happened, "timeout" only when the attempts are
used up. Log messages and the text of the errors are left out.

`Versions`. A token is a record of what `splitNumberAndSuffix`, `strconv.Atoi` and
`strings.Compare` tell apart: how its digits are written, their value, the rank of
its suffix. `CompareVersions` says what the loop of `Compare` computes: the answer at the first
position that differs. `ReleaseOrder`: on canonical versions `Compare` is antisymmetric and
transitive, trailing zero tokens do not count, "development" is above everything.
Canonical means that a token without a suffix is a plain number that an int holds: "" and "0",
"01" and "1", or two numbers beyond the largest int, are each less than the other, which
the module states as the limit of the property.

`SafeConvert` has the five conversions at two widths. `Truncated` and `AsSigned` are what Go's
conversion does with the bits; `ValueKept` says that the value comes through or is
refused, exactly when the result type does not have it.

## 7. Files

`FileTrees` is the external part: a tree has directories, files and links, an entry is
a number, its parent a smaller one, a target any entry or nowhere. `Resolve` is what a
path leads to, `StatIsDir` and `LstatIsDir` the two ways to ask.

`Walk`. `frames` is the recursion of `walk` (path, `info.IsDir()`, names left), `visited` is
`visitedDirSymlinks`: the code's key for a link, the real path of its directory and its
name, stands for one entry. `walkFn` answers nil, `ErrSkipDir` or an error every time, and a
system call fails where the tree makes it fail and also at any other time. `told`, `cut` and
`refused` record what happened, for the properties. `DepthBounded` and `CallsReturn`: the recursion is
bounded and ends whatever the links. `WalkFaithful`: a walk without skip or failure
has told of exactly what can be reached: of the least set that has its root and, with a
directory, its names (`Reached` of `FileTrees`); the first error ends it and is what it returns.

`FileMove`. One action per system call of `MoveDir`, `MoveFile`, `CopyDir` and `CopyFile`; `dirs` is the
recursion. Every call may fail (`CallFails`), the program may stop anywhere (`Crash`), and the
caller may call again over what is there (`CallAgain`). The deferred `Close` of the copy comes after
`os.Remove` of the source and may lose delayed writes (`CloseFails`). `ListFiles` drops the error of
`ReadDir` (`unread`). `NothingLost`: a file is at its old place, or whole at the new one, or
its `Close` failed; `SuccessMeansDone`: a nil error means that everything was moved, or
everything that is not excluded copied, unless `ReadDir` failed. Directories are not removed by the code, so
`made` only says which exist. `CopyDir` is modelled for trees without links to directories
(it follows them, and a loop of links makes it run until a path is too long); the destination lies outside
the source.

`TempDirs`. `temp` gives each name its time stamp. The owner's `RemoveTempDir` and the `CleanOldDirs` of another
process interleave between their system calls; every removal may fail. `YoungKept` is an action
property: what disappears was removed by its owner or is too old.
`NoErrorMeansGone`: a cleaner without an error has left no old directory
behind, an owner without an error a directory that is gone or empty.

## 8. Commands, streams, logger

`CmdOutput`. The command writes lines into two pipes of `PipeSize` lines; each scanning goroutine
takes lines, and gives an error of a pattern to the caller over the unbuffered channel
(`Receive` is the rendezvous, and the moment the caller returns); `CloseErrChan` is the
goroutine that waits for both. A line is "plain", "error" (a pattern's `ExecFunc` fails) or "long" (more than
the 64 KB a `bufio.Scanner` takes, at which it stops without a word). `OutputFaithful`: without an
error the caller has every line of both streams in order, and no error of a
pattern is lost; `CallsReturn`: the call ends although the command blocks on full
pipes. Both have "no long line" as a premise, because the code promises nothing for one.

`FileStream`. The two ends of a transfer over a connection that holds `Capacity` items and may break. A
multipart stream is a sequence of part beginnings, chunks and the final boundary; a part ends
where the next item is not one of its chunks, so that a file that breaks off looks
complete. `WriteErrHeader` and `WriteErrText` send the nameless error part; whether the reader's
`FileWriterFunc` refuses it (`refuses`) belongs to the user, and so does closing the connection when reading has
ended (`ReaderCloses`). `Go`, `Written`, `WrittenShort` and `EgWait` are `AsyncMultiWriter.Write`. `WritersTogether`: no
chunk is read before every writer has ended with the last. `SuccessMeansWhole`: on a connection that
holds, success means that every writer has every file and the sender has not failed.
`CallsReturn`: both ends return, in every case. `crypto/checksum.go` feeds its hashes through the same multi-writer.

`Logger`. `Lock` takes the mutex and tests the level, as each printing method does; `OnceBegins` and `NewLogger` are
the function of `once.Do`. `OneLogger`: whoever prints is alone, at a level that is in force at that
moment, and no late `GetLogger` replaces the logger and forgets the level that was set.

## 9. Runs, bounds and fairness

| run | bounds | what it shows |
|---|---|---|
| `RunnerCancel` | 2 tasks (one may fail, `failFast`), 2 workers, channel of 1, one canceller with either argument | `TypeOK`, `Custody`, `NoLostFinish`, `ImplementsPool` |
| `RunnerResize` | 2 tasks, 2 workers resized once to 1 or 3 before, during or after `Run` creates its threads (4 goroutines at most), 2 cancellers with force, no notification | `KeepsWorkers`, `CounterAccounting`, `CancelEmptiesQueue` |
| `RunnerLive` | 2 tasks, 2 workers, channel of 1, one reset, the idle timer at any moment | `ResetGuarantee`, `NoPanic`, `RunReturns`, `FinishDelivered`, `AcceptedTasksRun` |
| `NotifierPanic`, `AddTaskPanics`, `CancelHangs` | the smallest instances with a counterexample | section 11 |
| `ReadAll` | 3 consumers, 2 units in chunks of 1 or 2, a source that may fail | the properties of `ReadAllReader` |
| `FanoutRead` | 3 consumers, 2 of which may fail, 3 units, buffer of 2 | the properties of `FanoutReader` that hold |
| `ReaderTruncates`, `ReaderHidesError` | 2 consumers, buffer of 1 | section 11 |
| `Utilities` | cache: 3 keys, 2 values, size 2, expiry after 1 of 3 milliseconds; retries: `MaxRetries` from -1 to 3, with and without an interval; versions: 9 tokens, at most 2 of them; conversions: largest ints 7 and 31; walks: every tree of 4 entries, with and without following links; moves and copies: trees of 4 entries with a subdirectory and at most two links | `LRUCache`, `RetryExecutor`, `Versions`, `SafeConvert`, `Walk`, `FileMove` |
| `Streams` | command: pipes of 1 line, at most 3 lines per stream; transfer: 2 files of at most 2 chunks, 3 writers, limit 2, 2 items on the connection; 2 directories, age 1, time up to 3; 3 goroutines that log | `CmdOutput`, `FileStream`, `TempDirs`, `Logger` |

*Why they are enough.* The windows of the runner lie between two goroutines, at most
three when a reset or resize joins two workers; a second task gives the queue a task
while another runs. The capacity is smaller than the number of tasks, so that
`addTask` waits, and 0 is raised to 1 as `NewRunner` does. `MaxUint32` is 9: no
counter comes near it, and one that went below zero would wrap to it and be
noticed. `MaxThreads` bounds the goroutines and is large enough never to stop `addThread`.
For the readers three positions give a first, a middle and a last pipe, and two units
give a stop in the middle and at the end of a chunk. In the cache three keys for
two places make every key's order matter. Three retries give a first, a middle and a last
attempt, and -1 none at all. The tokens are 0, 1, 1 with two suffixes, 01, 01 with a suffix, a suffix alone, and two
numbers beyond the largest int, so that every branch of `compareTokens` meets every other. Four entries
give two links to each other, to a parent and to a sibling, and a subdirectory with a
file. Pipes of one line block the command as soon as one scanner stops; three writers with a limit of two
give one that writes, one that has ended and one that waits. Two directories and three
times give an old and a young one. What the bounds leave open for the main safety
invariants the proofs of section 10 close.

`CHECK_DEADLOCK` is `FALSE` for the runner and the readers: those systems do stop, when `Run` or `ReadAll` has
returned or a panic has ended the program. That nothing stops *too early* is what the
liveness properties say. `Utilities` and `Streams` check deadlock: a caller may always call again. `RunnerResize` uses the symmetry of the two cancellers, which
differ in name only, and checks no liveness. The bounds on
calls (`MaxTasks`, `MaxResizes`, `MaxTime`) are in the guards of the actions.

*Fairness.* Weak fairness for each goroutine: Go's scheduler runs every goroutine that
can run, and a blocked one becomes able when its channel, lock or wait group does. Nothing
forces a user to start a call, so `AddTask`, `Cancel`, `SetMaxParallel`, `Run`, `Done` and
resets have none. Assumed of the user's code: a `TaskFunc` returns, a consumer does
not stop for ever between two reads, a source answers. Weak fairness is enough:
no step that a property needs is enabled and disabled again and again. A call of `Execute`, `Walk`,
`MoveDir` or `CopyDir` is one goroutine, which goes on (`WF` of `RetryStep`, `WalkStep`, `MoveStep`); a crash or a second call has no
fairness. In `CmdOutput` the steps of command, scanners and caller are taken together (`CmdStep`): each of
them is taken finitely often in a call, so that some step of the call always follows until
none is possible. In `FileStream` sender and receiver have fairness each, failures of the
sender only on a broken connection, and the reader's end is closed some time after reading.

## 10. Proofs

`tlapm M.tla`, for each of the proof modules `M`, checks every step down to the last leaf. The results hold for all
values of the constants; all they assume are the named assumptions of the module they are about,
which give the sorts of its constants and which TLC evaluates in every run. Every invariant, every
action property and both refinements that the passing runs check are theorems. Each rests on an invariant
that is a conjunction of named parts, with one lemma per action or group of actions, and was checked with TLC on
a small instance before it was proved.

### The runner

All numbers of tasks, threads and cancellers, all capacities and flags. The assumptions are
`ConstantsAssumption` and `NamesAssumption` of `Runner` (the sorts of the constants, distinct
names, and no more tasks or threads than a uint32 counts).

- **`TypeCorrectness`** (`Spec => []TypeOK`). `TypeOK` has five parts (tasks, counters,
  notification, callers, goroutines); it is inductive by itself, one step per action.
- **`CustodyAlways`** (`Spec => []Custody`) and **`CountersAlways`**
  (`Spec => []CounterAccounting`). The inductive invariant is `IInv`, the conjunction of
  `TypeOK`, `Custody` and the three counting equations. `Custody` is needed because a worker's step moves *its* task:
  only when no other worker and no place of the channel holds it does the number of
  counted tasks change by exactly one. Actions that move no task and change no
  counter are treated once, by the frame `Frame` and `QuietFrame`; for the others the
  lemmas `TallyEnters` and `TallyLeaves` say how a count changes when one element
  moves (from the library's facts on the cardinality of finite sets), `TaskMoves` and
  `ThreadMoves` apply them to tasks and threads, and the bound of the constants gives
  that `Increment` and `Decrement` do not wrap.
- **`KeepsWorkersAlways`** (`Spec => []KeepsWorkers`). `Workers` compares, for every parallelism `n` below all
  that were asked for, the threads created and not trimmed with `n` and with the loop index
  of `Run`. A thread trims itself only when `openThreads` is above `maxParallel`, and by the counting equation of
  `IInv` there are then more such threads than `n`.
- **`RunnerIsATaskPool`** (`Spec => ImplementsPool`). The invariant `PoolInv` adds to `IInv` and `Workers` what each step of `TaskPool`
  needs to know: whoever is in `Cancel` finds the flag set (`Cancelled`); `Done`, the last additions, the end of the
  workers and the return of `Run` come in this order (`Conduct`); a task is in the channel until a worker has it (`Held`,
  `Waiting`); an error that is not saved yet is with the worker that will save it (`Errors`), who is not the one that
  `failFast` stops (`Relieved`), since that one has saved it before; and the lock is held to the end of the way (`Locks`). Every action is then one action of the pool or a stutter
  under `Life`.
- **`NoLostFinishAlways`**, **`ResetGuaranteeAlways`**, **`NoPanicAlways`**, **`CancelEmptiesQueueAlways`**. `NotifyInv` extends `PoolInv`.
  `Closer`: the current channel is closed, or somebody is about to close it. It is there whenever the mark is set (`Marked`); when tasks have
  been executed and none is left, it is there or somebody is still to look at the counters or is on the way from there to the
  close (`Finished`), also while the client puts a new channel in place of the old (`Renewed`). `ClientInv` says which channel the client watches. `CalmInv` is about
  runs without `Cancel`, `failFast` or the timer: there nobody but the holder of the lock is on the path, from which come
  both the absence of panics and the promise of the reset. `Emptied` follows a `Cancel(true)` through the drain of the channel.

### The readers

- **`ReadAllHonest`**, **`ResultsOrdered`**, **`ChannelsClosedLast`**, **`SourceStops`** (`ReadAllReaderProofs`). `Copying` and `Copied` say where the
  units of the source are: pipes before the copier's have the current chunk, those after it have all but
  the chunk. `Counted`: messages collected, in `errs` and in `results` are as many as
  the consumers that have sent, so that the caller has them all when it has counted `N`
  (cardinality facts of the library). `Errors` and `Results` relate what is in the channels, the slots and
  `lastError` to the consumers that sent it. `SourceStops` is the action property `StopsTogether`, from `Copying`. Assumes its `ConstantsAssumption`.
- **`ConsumerErrorReported`**, **`ConsumersTogether`** (`FanoutReaderProofs`). The first call closes all pipes, so that a reader is in one of three
  situations: `Quiet` (nothing is on its way, and nobody has failed), `Serving` (the first chunk is being written: the pipes before
  the copier's have it, the others do not) or `Served` (all have it). Messages are counted as for `ReadAll`, where a message of the
  source or of a pipe may come in between and replace the error in `e`. Assumes its `ConstantsAssumption`.

### The cache

- **`ListAndMapAgree`**, **`EvictionsReported`**. `CacheInv`: the list has no element twice, the elements
  of the list are those of the map, with the keys under which the map has them, and there are at most `Size`. The model takes an
  element out of the list by its position (`Position`, `Unlink`), for which the lemmas say which elements
  remain and in which order; the library has no facts about `SelectSeq`.
- **`CacheImplementsRecency`** (`Spec => ImplementsRecencyCache`). The relation *newer* of `RecencyCache` is read
  off the positions in the list: putting an element in front makes its key newer than all others and leaves the others as
  they are, and the last element is the oldest. With that each method is one action of the abstract cache. Assumes the
  `ConstantsAssumption` of `LRUCache`.

### Utilities

All in `UtilitiesProofs`.

- **`ResultHonest`**. `RetryInv` adds to `HonestResult` that the call goes from `check` only to
  another attempt or to an end, and that an attempt begun after the cancellation is
  followed by the test that ends the call (`LateAttempt`). Assumes `RetryAssumption`.
- **`VersionsOrdered`**. `Before` compares two versions at the first position where they differ. That there is a first one comes from
  the least element of a set of numbers (`LeastExists`); two canonical tokens that differ are ordered one way (`TokenOrder`,
  `TokenTransitive`), and a step lemma combines the first differences of three versions. A version is taken as followed by zero
  tokens, so that zeros at its end change nothing (`ZeroAppended`). Assumes `VersionsAssumption`.
- **`ConversionsExact`**. Arithmetic modulo the width (`Truncation`), for both directions. Assumes `WidthAssumption`.
- **`MoveLosesNothing`**, for every tree. A file that is still to be moved is at its
  place (`TodoThere`), and a file is whole at the destination before it is removed
  (`CopiedFirst`). That one call does not disturb another needs `GoesDown`: the frames of the
  recursion are in different directories, each numbered after its caller's, so that no two have a
  file in common. Assumes `TreesAssumption` and `MoveAssumption`.
- **`SuccessIsComplete`** (`MoveSpec => []SuccessMeansDone`). `Covered`: every file of the tree is finished, is omitted (excluded, or below an excluded
  directory), or comes by way of an entry above it that some frame has still to do. `Operation` says what the frames may hold in a move and in
  a copy, `Outside` and `NotCopied` that nothing appears at the destination that does not belong there. The entries
  above a file are a least set (`Reached`), about which `ReachedFacts` and `ReachedLeast` are all that is needed; that every
  entry has a directory above it that is listed goes from an entry to its smaller parent.
- **`WalkDepthBounded`**. `Descending` gives each call of `walk` the link through which it was come to, or none: the calls
  that belong to one link are in ever deeper directories, and no link has two groups, since `Remembered` says that the links the
  walk is in are in `visited`. The calls are then at most as many as pairs of a link and a directory.
- **`WalkIsFaithful`** (`WalkSpec => []WalkFaithful`). As long as nothing was skipped and nothing failed, what is next to an entry that has been
  told of has been told of or is a name left in some call (`Complete`); only calls in their loop have names left, and a link
  that is remembered has been told of (`Looping`), so that skipping it loses nothing. When the outermost call returns no names are left, and
  what was told of is closed under *next to*: it contains the least such set, and by `Inside` nothing else. One case
  needed care: with `walkIntoDirSymlink` off the root is followed although it is a link, and a link back to it is told of but not
  entered. Both assume `TreesAssumption`.
- **`UtilityTypesAlways`**. The types of the components side by side: a step of the whole is a step of each
  or leaves it alone.

### Streams

All in `StreamsProofs`.

- **`WholeOrError`**, **`WritersStayTogether`**, **`LimitsKept`**. The items on the connection carry labels: which file,
  and which of its chunks. `InOrder`: as long as nothing has failed at the receiver there is a sequence of
  labels, each following from the one before (`Path`), from what the writers have to where
  the sender is. A receiver that meets the final boundary without an error has
  then seen every chunk, and the label of the error part shows that a failing sender never gets there.
  `Together`: all writers have the same chunks, but for those that still have the current one before
  them. Assumes `StreamAssumption`.
- **`OutputFaithfulAlways`**. For each of the two pipes the lines that the scanner has taken and those in the pipe are together what the command
  has written, position by position; a goroutine ends early only at an over-long line or after the caller was told of an error, and
  the caller knows of every error that is in the builders. Assumes `CmdAssumption`.
- **`RemovalReported`**, **`YoungAlwaysKept`**. `ListKept`: a name that a cleaner has listed is not
  given to a new directory; `Processed`: what the loop has left behind without an error is gone or
  was too young. The action property needs `OneRemoved` and the types. Assumes `TempAssumption`.
- **`LoggerShared`**. `MutexHeld` (whoever is past `Lock` holds the mutex) and `OnceRuns`
  (nobody is past `GetLogger` before the logger is made) give that a message stays
  admitted until it is printed, `Admitted`. Assumes `LoggerAssumption`.
- **`StreamTypesAlways`**. The types of the components side by side.

### Conditions, and what is only model-checked

Some theorems have a condition that belongs to the property and not to the proof: `NothingLost`
excepts files whose `Close` failed, `SuccessMeansDone` calls in which `ReadDir` failed; `SuccessMeansWhole` is about a connection that did not break and a receiver
that refuses the error part, `OutputFaithful` about lines that the scanner takes, `ReleaseOrder` about canonical versions,
`ResetGuarantee` and `NoPanic` about runs without `Cancel` and before the timer acts. Sections 3 to 8 say why the code promises no more.

Only model-checked is liveness, which with all use of fairness is out of TLAPS's reach: `RunReturns`, `FinishDelivered` and `AcceptedTasksRun` of the runner,
`AllEnd` of `ReadAll`, `LoopEnds` of the other reader, `CallsReturn` of the
utilities and of the streams. So are the five counterexamples of section 11.

## 11. Where the code and its comments disagree

Each is a run that TLC ends with a counterexample.

- `NotifierPanic`: `Cancel` and the idle timer call `notifyFinished` without
  `finishedNotifierLock`; racing with a worker, one of them sends on or closes a closed
  channel and the program panics.
- `AddTaskPanics`: `Cancel(true)` closes the channel under an `addTask` that has passed its
  test of `cancel`: a panic instead of the promised error.
- `CancelHangs`: `Cancel(false)` finds a task in the channel, a worker takes it, and the
  receive in `Cancel` waits for ever.
- `ReaderTruncates`: the first `Read` closes all pipes; whatever the source holds beyond
  one buffer reaches no consumer, and the caller sees a normal end.
- `ReaderHidesError`: the io.EOF of the closed pipes replaces the error of the source.

Some more were met while modelling; no run is spent on them, since they are limits
stated at the properties above, or need no interleaving to be seen:

- `GetFileInfo` calls `Lstat` when `followSymlink` is true and `Stat` when it is false
  (io/fileutils.go:267-271), the opposite of its comment at line 265. `MoveDir` (line 289) passes true and gets
  `Lstat`, the others pass false and get `Stat`; the models have what the calls do.
- `Walk` is "the same as filepath.Walk" (line 179), but an `ErrSkipDir` that `walkFn` returns for a
  file directly below the root comes out of `Walk` as an error, where filepath.Walk returns nil.
- `compareTokens` ignores the error of `Atoi` "because we strip all the non-numeric values"
  (version/version.go:72); a number out of range is an error too and is cut.
- `ReadFilesFromStream` takes an error that wraps io.EOF for the end
  (http/filestream/filestream.go:33), also when the stream was cut between two parts.
- A line of 64 KB or more stops the scanner of a command; its error is not asked for.
- `MoveFile` closes the copy after it has removed the source; `ListFiles` ignores the error of `ReadDir`;
  `CleanOldDirs` stops at the first name without a time stamp.
- After the first error of a pattern nobody receives from `errChan` (io/cmd.go:128-130): the other
  goroutine blocks for ever at its own error, and `cmd.Wait` is not called.

## 12. What is not modelled

- *Sets* (datastructures): methods over a Go map; a model would restate TLA+'s operators.
- *Wildcards* (stringutils): rewriting of strings for the regular expressions of the Go library.
- *Archives* (unarchive): extraction is done by an external library; what remains compares the paths of
  entries as strings and gives its verdict at the end, from two sets that do not depend on their order.
- *Checksums, encryption, keys* (crypto): calls of the Go library; the multi-writer that
  the checksums use is in `FileStream`.
- *Other file utilities*: downloading, unmarshalling, reading lines, searching parents, creating random files:
  one or two library calls each, without state.
- *RunCmd*, *RunCmdOutput*, *RunWithOutput* (io/cmd.go): they hand their writers to os/exec and wait.
- Of the modelled components: `SetFinishedNotification` is a constant, since it is called before `Run`;
  getters are left out, since they change nothing; what an OnEvicted callback does is
  the user's; a `CopyDir` over links to directories, and a move into the source itself, are left out.
- Misuses without a promise in the code: a second call of `ReadAll` on one reader (it sends on closed
  channels), a cache callback that calls its own cache (it waits for itself), reading the map of `Errors()` while
  workers write it. A client that reads `Errors()` at the finish notification can miss the
  last error, which is saved after it; once `Run` has returned all are there (`ImplementsPool`).
