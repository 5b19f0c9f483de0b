-------------------------- MODULE FanoutReaderProofs --------------------------
(***************************************************************************)
(* Proofs about FanoutReader, for any number of consumers, any source and  *)
(* any size of the buffer.                                                 *)
(***************************************************************************)
EXTENDS FanoutReader, FiniteSetTheorems, SequenceTheorems, TLAPS

USE DEF callVars, copyVars, pipeVars, consumerVars, channelVars

Errors == {"EOF", "source", "pipe", "consumer"}

CallTypes ==
  /\ caller \in {"calling", "waiting", "collecting", "finished", "failed"}
  /\ collected \in 0 .. N /\ e \in Errors \cup {"none"}
  /\ done \in Nat /\ errs \in Seq(Errors)
CopyTypes ==
  /\ copier \in [at : {"unborn", "reading", "writing", "writing on", "closing", "done"},
                 w : Positions]
  /\ taken \in Nat /\ chunk \in Nat
  /\ copier.at \in {"writing", "writing on"} => chunk # 0
ConsumerTypes ==
  /\ pending \in [Positions -> Nat] /\ closed \in [Positions -> BOOLEAN]
  /\ consumer \in [Positions -> {"unborn", "reading", "holding", "ended"}]
  /\ got \in [Positions -> Nat] /\ failed \subseteq Positions
ReaderTypes == CallTypes /\ CopyTypes /\ ConsumerTypes

\* The call and its copier: outside a call there is none, or the one of the
\* last call, whose messages have all been collected.
Ended == {i \in Positions : consumer[i] = "ended"}
Calls ==
  /\ caller \in {"collecting", "finished", "failed"} => copier.at = "done"
  /\ caller = "waiting" => copier.at # "unborn"
  /\ caller = "calling" => copier.at \in {"unborn", "done"}
  /\ caller = "waiting" => collected = 0
  /\ caller \in {"calling", "finished", "failed"} => copier.at = "unborn" \/ collected = N
  /\ copier.at = "unborn" =>
       /\ collected = 0 /\ done = 0 /\ errs = <<>> /\ failed = {}
       /\ \A i \in Positions : consumer[i] = "unborn" /\ got[i] = 0 /\ pending[i] = 0
  /\ copier.at # "unborn" => \A i \in Positions : consumer[i] # "unborn"

\* Every consumer that has ended has sent one message.
Messages == collected + done + Len(errs) = Cardinality(Ended)

\* A call closes all pipes, in order, and no later call finds one open.
AllOpen   == \A i \in Positions : ~closed[i]
AllClosed == \A i \in Positions : closed[i]
Pipes ==
  /\ copier.at \in {"unborn", "writing on"} => AllOpen
  /\ copier.at \in {"reading", "writing"} => AllOpen \/ AllClosed
  /\ copier.at = "closing" => \A i \in Positions : i < copier.w => closed[i]
  /\ copier.at = "done" => AllClosed

-----------------------------------------------------------------------------
(* The three situations of a call.                                          *)

\* Nothing has been written to the pipes in this call; in the first call
\* nothing else has happened to the consumers, in a later one nothing will be.
Quiet ==
  /\ failed = {} /\ \A i, j \in Positions : got[i] = got[j]
  /\ \A i \in Positions : pending[i] = 0 /\ consumer[i] # "holding"
  /\ copier.at # "writing on"
  /\ copier.at \in {"reading", "writing"} /\ AllOpen =>
       /\ e = "none" /\ errs = <<>> /\ (copier.at = "writing" => copier.w = 0)
       /\ \A i \in Positions : consumer[i] = "reading" /\ got[i] = 0

\* A consumer that has taken the chunk, one that has still to, and one whose
\* pipe is being written.
HasTaken(i) ==
  /\ pending[i] = 0 /\ consumer[i] \in {"holding", "ended"}
  /\ got[i] = IF consumer[i] = "ended" THEN chunk ELSE 0
HasNot(i)    == pending[i] = 0     /\ consumer[i] = "reading" /\ got[i] = 0
IsOffered(i) == pending[i] = chunk /\ consumer[i] = "reading" /\ got[i] = 0

\* Only consumers have reported errors, and those reports are not lost.
OnlyConsumers ==
  /\ e \in {"none", "consumer"} /\ \A k \in 1 .. Len(errs) : errs[k] = "consumer"
  /\ failed # {} => e = "consumer" \/ errs # <<>>

\* The first call writes: the consumers before the current pipe have the chunk.
Serving ==
  /\ OnlyConsumers /\ AllOpen /\ copier.at \in {"writing", "writing on"}
  /\ \A i \in Positions :
       /\ i < copier.w => HasTaken(i)
       /\ i > copier.w => HasNot(i)
       /\ i = copier.w /\ copier.at = "writing" => HasNot(i)
       /\ i = copier.w /\ copier.at = "writing on" => HasTaken(i) \/ IsOffered(i)

\* The first call has written: all consumers have the chunk.
Served ==
  /\ OnlyConsumers /\ copier.at \in {"closing", "done"}
  /\ caller \in {"waiting", "collecting", "failed"}
  /\ \A i \in Positions : HasTaken(i)

Situation == Quiet \/ Serving \/ Served
ReaderInv == ReaderTypes /\ Calls /\ Messages /\ Pipes /\ Situation

-----------------------------------------------------------------------------
(* The lemmas about the consumers that have ended.                          *)

\* The ended consumers can be counted, and all have ended when there are N.
LEMMA EndedCount ==
  /\ IsFiniteSet(Ended) /\ Cardinality(Ended) \in 0 .. N
  /\ Cardinality(Ended) = N => \A i \in Positions : consumer[i] = "ended"
<1>1. IsFiniteSet(Positions) /\ Cardinality(Positions) = N
  BY FS_Interval, ConstantsAssumption DEF Positions
<1>2. IsFiniteSet(Ended) /\ Cardinality(Ended) <= N
      /\ (Cardinality(Ended) = N => Ended = Positions)
  BY <1>1, FS_Subset DEF Ended
<1>3. QED
  BY <1>2, FS_CardinalityType, ConstantsAssumption DEF Ended

\* A consumer that ends makes one more.
LEMMA OneMoreEnded ==
  ASSUME ConsumerTypes, NEW i \in Positions, consumer[i] # "ended", AtConsumer(i, "ended")
  PROVE  Cardinality(Ended') = Cardinality(Ended) + 1
<1>1. Ended' = Ended \cup {i} /\ i \notin Ended
  BY DEF Ended, AtConsumer, ConsumerTypes
<1>2. QED
  BY <1>1, EndedCount, FS_AddElement

\* When a call has returned no message is left and every consumer has ended.
LEMMA AllCollected ==
  ASSUME CallTypes, Messages, collected = N
  PROVE  done = 0 /\ errs = <<>> /\ \A i \in Positions : consumer[i] = "ended"
<1>1. Cardinality(Ended) = N /\ done = 0 /\ Len(errs) = 0
  BY EndedCount, ConstantsAssumption DEF CallTypes, Messages
<1>2. QED
  BY <1>1, EndedCount DEF CallTypes

\* A message sent is the last one.
LEMMA ErrsSent ==
  ASSUME errs \in Seq(Errors), NEW x \in Errors
  PROVE  /\ Append(errs, x) \in Seq(Errors) /\ Append(errs, x) # <<>>
         /\ Len(Append(errs, x)) = Len(errs) + 1 /\ Len(errs) \in Nat
         /\ \A k \in 1 .. Len(errs) : Append(errs, x)[k] = errs[k]
         /\ Append(errs, x)[Len(errs) + 1] = x
BY AppendProperties, LenProperties

\* A message received is the first one.
LEMMA ErrsReceived ==
  ASSUME errs \in Seq(Errors), errs # <<>>
  PROVE  /\ Head(errs) \in Errors /\ Tail(errs) \in Seq(Errors)
         /\ Len(errs) \in Nat \ {0} /\ Len(Tail(errs)) = Len(errs) - 1
         /\ Head(errs) = errs[1]
         /\ \A k \in 1 .. Len(Tail(errs)) : Tail(errs)[k] = errs[k + 1]
BY HeadTailProperties, EmptySeq, LenProperties

\* The invariant holds at the beginning.
LEMMA InitReaderInv == Init => ReaderInv
<1> SUFFICES ASSUME Init PROVE ReaderInv
  OBVIOUS
<1>1. 0 \in Positions /\ N \in Nat
  BY ConstantsAssumption DEF Positions
<1>2. ReaderTypes
  BY <1>1 DEF Init, ReaderTypes, CallTypes, CopyTypes, ConsumerTypes
<1>3. Calls /\ Pipes
  BY DEF Init, Calls, Pipes, AllOpen
<1>4. Messages
  <2>1. Ended = {}
    BY DEF Init, Ended
  <2>2. QED
    BY <2>1, FS_EmptySet DEF Init, Messages
<1>5. Quiet
  BY DEF Init, Quiet
<1>6. QED
  BY <1>2, <1>3, <1>4, <1>5 DEF ReaderInv, Situation

-----------------------------------------------------------------------------
(* The steps of the caller.                                                 *)

\* Read starts a call in which nothing has been written.
LEMMA ReadKeeps ==
  ASSUME ReaderInv, Read
  PROVE  ReaderInv'
<1> /\ CallTypes /\ CopyTypes /\ ConsumerTypes /\ Calls /\ Messages /\ Pipes /\ Situation
  BY DEF ReaderInv, ReaderTypes
<1>1. 0 \in Positions /\ N \in Nat \ {0}
  BY ConstantsAssumption DEF Positions
<1>2. Quiet
  BY DEF Situation, Read, Calls, Serving, Served
<1>3. done = 0 /\ errs = <<>>
  BY AllCollected DEF Calls, Read
<1>4. AllOpen => copier.at = "unborn"
  BY <1>1 DEF Calls, Read, Pipes, AllOpen, AllClosed
<1>5. ReaderTypes'
  <2>1. CallTypes'
    BY <1>1 DEF Read, CallTypes
  <2>2. CopyTypes'
    BY <1>1 DEF Read, CopyTypes
  <2>3. ConsumerTypes'
    BY DEF Read, ConsumerTypes
  <2>4. QED
    BY <2>1, <2>2, <2>3 DEF ReaderTypes
<1>6. Calls' /\ Pipes'
  BY <1>3 DEF Read, Calls, Pipes, AllOpen, AllClosed
<1>7. Messages'
  <2>1. Ended' = {}
    BY DEF Read, Ended
  <2>2. QED
    BY <1>3, <2>1, FS_EmptySet DEF Read, Messages
<1>8. Quiet'
  BY <1>2, <1>3, <1>4 DEF Read, Quiet, Calls, AllOpen
<1>9. QED
  BY <1>5, <1>6, <1>7, <1>8 DEF ReaderInv, Situation

\* The caller waits for the copier, collects the messages and returns.
LEMMA CallerKeeps ==
  ASSUME ReaderInv, ReadAwaited \/ CollectDone \/ CollectError \/ ReadReturns
  PROVE  ReaderInv'
<1> /\ CallTypes /\ CopyTypes /\ ConsumerTypes /\ Calls /\ Messages /\ Pipes /\ Situation
    /\ N \in Nat \ {0}
  BY ConstantsAssumption DEF ReaderInv, ReaderTypes
<1>0. UNCHANGED <<copyVars, pipeVars, consumerVars>>
  BY DEF ReadAwaited, CollectDone, CollectError, ReadReturns
<1>1. copier.at = "done"
  BY DEF ReadAwaited, CollectDone, CollectError, ReadReturns, Calls
<1>2. ~Serving /\ Pipes'
  BY <1>0, <1>1 DEF Serving, Pipes, AllOpen, AllClosed
<1>3. Quiet => Quiet'
  BY <1>0, <1>1 DEF Quiet
<1>4. CopyTypes' /\ ConsumerTypes' /\ Ended' = Ended
  BY <1>0 DEF CopyTypes, ConsumerTypes, Ended
<1>5. CASE ReadAwaited
  <2>1. ReaderTypes' /\ Calls' /\ Messages'
    <3>1. CallTypes' /\ Messages'
      BY <1>4, <1>5 DEF ReadAwaited, CallTypes, Messages
    <3>2. Calls'
      BY <1>0, <1>1, <1>5 DEF ReadAwaited, Calls
    <3>3. QED
      BY <1>4, <3>1, <3>2 DEF ReaderTypes
  <2>2. Served => Served'
    BY <1>0, <1>5 DEF ReadAwaited, Served, OnlyConsumers, HasTaken
  <2>3. QED
    BY <1>2, <1>3, <2>1, <2>2 DEF ReaderInv, Situation
<1>6. CASE CollectDone
  <2>1. ReaderTypes' /\ Calls' /\ Messages'
    <3>1. CallTypes' /\ Messages'
      BY <1>4, <1>6 DEF CollectDone, CallTypes, Messages
    <3>2. Calls'
      BY <1>0, <1>1, <1>6 DEF CollectDone, Calls
    <3>3. QED
      BY <1>4, <3>1, <3>2 DEF ReaderTypes
  <2>2. Served => Served'
    BY <1>0, <1>6 DEF CollectDone, Served, OnlyConsumers, HasTaken
  <2>3. QED
    BY <1>2, <1>3, <2>1, <2>2 DEF ReaderInv, Situation
<1>7. CASE CollectError
  <2>1. /\ Head(errs) \in Errors /\ Tail(errs) \in Seq(Errors) /\ Len(Tail(errs)) = Len(errs) - 1
        /\ Len(errs) \in Nat \ {0} /\ Head(errs) = errs[1]
        /\ \A k \in 1 .. Len(Tail(errs)) : Tail(errs)[k] = errs[k + 1]
    BY <1>7, ErrsReceived DEF CollectError, CallTypes
  <2>2. ReaderTypes' /\ Calls'
    <3>1. CallTypes'
      BY <1>7, <2>1 DEF CollectError, CallTypes
    <3>2. Calls'
      BY <1>0, <1>1, <1>7 DEF CollectError, Calls
    <3>3. QED
      BY <1>4, <3>1, <3>2 DEF ReaderTypes
  <2>3. Messages'
    BY <1>4, <1>7, <2>1 DEF CollectError, CallTypes, Messages
  <2>4. ASSUME Served PROVE Served'
    <3>1. e' = "consumer"
      BY <1>7, <2>1, <2>4 DEF CollectError, Served, OnlyConsumers
    <3>2. \A k \in 1 .. Len(errs') : errs'[k] = "consumer"
      BY <1>7, <2>1, <2>4 DEF CollectError, Served, OnlyConsumers
    <3>3. QED
      BY <1>0, <1>7, <2>4, <3>1, <3>2 DEF CollectError, Served, OnlyConsumers, HasTaken
  <2>5. QED
    BY <1>2, <1>3, <2>2, <2>3, <2>4 DEF ReaderInv, Situation
<1>8. CASE ReadReturns
  <2>1. caller' = CASE e = "none" -> "calling" [] e = "EOF" -> "finished" [] OTHER -> "failed"
    BY <1>8 DEF ReadReturns
  <2>2. ReaderTypes' /\ Calls' /\ Messages'
    <3>1. CallTypes' /\ Messages'
      BY <1>4, <1>8, <2>1 DEF ReadReturns, CallTypes, Messages
    <3>2. caller' \in {"calling", "finished", "failed"} /\ collected' = N
      BY <1>8, <2>1 DEF ReadReturns
    <3>3. Calls'
      BY <1>0, <1>1, <3>2 DEF Calls
    <3>4. QED
      BY <1>4, <3>1, <3>3 DEF ReaderTypes
  <2>3. ASSUME Served PROVE Situation'
    <3>1. errs = <<>> /\ \A i \in Positions : consumer[i] = "ended"
      BY <1>8, AllCollected DEF ReadReturns
    <3>2. CASE e = "none"
      <4>1. failed = {} /\ \A i \in Positions : got[i] = chunk /\ pending[i] = 0
        BY <2>3, <3>1, <3>2 DEF Served, OnlyConsumers, HasTaken
      <4>2. Quiet'
        BY <1>0, <1>1, <3>1, <4>1 DEF Quiet
      <4>3. QED
        BY <4>2 DEF Situation
    <3>3. CASE e = "consumer"
      <4>1. caller' = "failed"
        BY <2>1, <3>3
      <4>2. Served'
        BY <1>0, <1>8, <2>3, <4>1 DEF ReadReturns, Served, OnlyConsumers, HasTaken
      <4>3. QED
        BY <4>2 DEF Situation
    <3>4. QED
      BY <2>3, <3>2, <3>3 DEF Served, OnlyConsumers
  <2>4. QED
    BY <1>2, <1>3, <2>2, <2>3 DEF ReaderInv, Situation
<1>9. QED
  BY <1>5, <1>6, <1>7, <1>8

-----------------------------------------------------------------------------
(* The steps of the copier.                                                 *)

\* The copier reads the source, writes to the pipes and closes them.
LEMMA CopierKeeps ==
  ASSUME ReaderInv, CopierStep
  PROVE  ReaderInv'
<1> /\ CallTypes /\ CopyTypes /\ ConsumerTypes /\ Calls /\ Messages /\ Pipes /\ Situation
    /\ N \in Nat \ {0} /\ 0 \in Positions /\ BufferSize \in Nat /\ Units \in Nat
    /\ Positions \subseteq Int
  BY ConstantsAssumption DEF ReaderInv, ReaderTypes, Positions
<1>0. UNCHANGED <<caller, collected, consumerVars, channelVars>>
  BY DEF CopierStep, SourceReads, SourceStops, WriteBegins, WriteFails, WriteEnds, Close
<1>1. caller = "waiting" /\ copier.at \notin {"unborn", "done"}
  BY DEF CopierStep, SourceReads, SourceStops, WriteBegins, WriteFails, WriteEnds, Close, Calls,
     CallTypes
<1>2. Messages'
  BY <1>0 DEF Messages, Ended
<1>3. ASSUME e' \in Errors \cup {"none"} PROVE CallTypes'
  BY <1>0, <1>3 DEF CallTypes
<1>4. ASSUME copier'.at # "unborn" PROVE Calls'
  BY <1>0, <1>1, <1>4 DEF Calls
<1>5. CASE SourceReads
  <2>1. Quiet /\ copier.at = "reading"
    BY <1>5 DEF Situation, Serving, Served, SourceReads
  <2>2. copier' = [at |-> "writing", w |-> 0] /\ UNCHANGED <<e, pipeVars>>
    BY <1>5 DEF SourceReads
  <2>3. chunk' \in Nat /\ chunk' # 0 /\ taken' \in Nat
    <3>1. PICK k \in 1 .. BufferSize : taken' = taken + k /\ chunk' = k
      BY <1>5 DEF SourceReads
    <3>2. k \in Nat /\ k # 0
      OBVIOUS
    <3>3. taken \in Nat
      BY DEF CopyTypes
    <3>4. QED
      BY <3>1, <3>2, <3>3
  <2>4. CallTypes' /\ Calls'
    BY <1>3, <1>4, <2>2 DEF CallTypes
  <2>5. CopyTypes' /\ ConsumerTypes'
    <3>1. CopyTypes'
      BY <2>2, <2>3 DEF CopyTypes
    <3>2. ConsumerTypes'
      BY <1>0, <2>2 DEF ConsumerTypes
    <3>3. QED
      BY <3>1, <3>2
  <2>6. Pipes' /\ Quiet'
    BY <1>0, <2>1, <2>2 DEF Pipes, Quiet, AllOpen, AllClosed
  <2>7. QED
    BY <1>2, <2>4, <2>5, <2>6 DEF ReaderInv, ReaderTypes, Situation
<1>6. CASE SourceStops
  <2>1. Quiet /\ copier.at = "reading"
    BY <1>6 DEF Situation, Serving, Served, SourceStops
  <2>2. /\ copier' = [at |-> "closing", w |-> 0] /\ e' \in Errors /\ taken' \in Nat
        /\ UNCHANGED <<chunk, pipeVars>>
    BY <1>6 DEF SourceStops, CopyTypes, Errors
  <2>3. CallTypes' /\ CopyTypes' /\ ConsumerTypes' /\ Calls'
    BY <1>0, <1>3, <1>4, <2>2 DEF CopyTypes, ConsumerTypes
  <2>4. Pipes' /\ Quiet'
    BY <1>0, <2>1, <2>2 DEF Pipes, Quiet, AllOpen, AllClosed, Positions
  <2>5. QED
    BY <1>2, <2>3, <2>4 DEF ReaderInv, ReaderTypes, Situation
<1>7. CASE WriteBegins
  <2>w. PICK w \in Positions : copier.w = w
    BY DEF CopyTypes
  <2>1. copier.at = "writing" /\ AllOpen /\ chunk # 0
    BY <1>7, <2>w DEF WriteBegins, Pipes, AllClosed, CopyTypes
  <2>2. /\ copier' = [copier EXCEPT !.at = "writing on"]
        /\ pending' = [pending EXCEPT ![w] = chunk]
        /\ UNCHANGED <<e, taken, chunk, closed>>
    BY <1>7, <2>w DEF WriteBegins
  <2>3. copier'.at = "writing on" /\ copier'.w = w
    BY <2>2, <2>w DEF CopyTypes
  <2>4. CallTypes' /\ Calls'
    BY <1>3, <1>4, <2>2, <2>3 DEF CallTypes
  <2>5. CopyTypes' /\ ConsumerTypes'
    BY <1>0, <2>1, <2>2, <2>3 DEF CopyTypes, ConsumerTypes
  <2>6. Pipes' /\ AllOpen'
    BY <2>1, <2>2, <2>3 DEF Pipes, AllOpen
  <2>7. /\ OnlyConsumers
        /\ \A i \in Positions : i < w => HasTaken(i)
        /\ \A i \in Positions : i >= w => HasNot(i)
    <3>1. CASE Quiet
      <4>1. e = "none" /\ errs = <<>> /\ w = 0 /\ failed = {}
        BY <2>1, <2>w, <3>1 DEF Quiet
      <4>2. \A i \in Positions : HasNot(i)
        BY <2>1, <3>1 DEF Quiet, HasNot
      <4>3. OnlyConsumers
        BY <4>1 DEF OnlyConsumers
      <4>4. \A i \in Positions : ~(i < 0)
        BY DEF Positions
      <4>5. QED
        BY <4>1, <4>2, <4>3, <4>4
    <3>2. CASE Serving
      <4>1. \A i \in Positions : i >= w => i > w \/ i = w
        BY DEF Positions
      <4>2. QED
        BY <2>1, <2>w, <3>2, <4>1 DEF Serving
    <3>3. QED
      BY <2>1, <3>1, <3>2 DEF Situation, Served
  <2>8. OnlyConsumers'
    BY <1>0, <2>2, <2>7 DEF OnlyConsumers
  <2>9. /\ \A i \in Positions : i # w => pending'[i] = pending[i]
        /\ pending'[w] = chunk
    BY <2>2 DEF ConsumerTypes
  <2>10. ASSUME NEW i \in Positions, i < w PROVE HasTaken(i)'
    <3>1. i # w
      BY <2>10 DEF Positions
    <3>2. HasTaken(i)
      BY <2>7, <2>10
    <3>3. QED
      BY <1>0, <2>2, <2>9, <3>1, <3>2 DEF HasTaken
  <2>11. \A i \in Positions : i > w => HasNot(i)'
    <3>1. \A i \in Positions : i > w => i >= w /\ i # w
      BY DEF Positions
    <3>2. QED
      BY <1>0, <2>7, <2>9, <3>1 DEF HasNot
  <2>12. IsOffered(w)'
    <3>1. HasNot(w)
      <4>1. w >= w
        BY DEF Positions
      <4>2. QED
        BY <2>7, <4>1
    <3>2. QED
      BY <1>0, <2>2, <2>9, <3>1 DEF HasNot, IsOffered
  <2>13. Serving'
    BY <2>3, <2>6, <2>8, <2>10, <2>11, <2>12 DEF Serving
  <2>14. QED
    BY <1>2, <2>4, <2>5, <2>6, <2>13 DEF ReaderInv, ReaderTypes, Situation
<1>8. CASE WriteFails
  <2>1. Quiet /\ AllClosed
    BY <1>8 DEF Situation, Serving, Served, WriteFails, Pipes, AllOpen, CopyTypes
  <2>2. /\ copier' = [at |-> "closing", w |-> 0] /\ e' \in Errors
        /\ UNCHANGED <<taken, chunk, pipeVars>>
    BY <1>8 DEF WriteFails, Errors
  <2>3. CallTypes' /\ CopyTypes' /\ ConsumerTypes' /\ Calls'
    BY <1>0, <1>3, <1>4, <2>2 DEF CopyTypes, ConsumerTypes
  <2>4. Pipes' /\ Quiet'
    BY <1>0, <2>1, <2>2 DEF Pipes, Quiet, AllOpen, AllClosed
  <2>5. QED
    BY <1>2, <2>3, <2>4 DEF ReaderInv, ReaderTypes, Situation
<1>9. CASE WriteEnds
  <2>w. PICK w \in Positions : copier.w = w
    BY DEF CopyTypes
  <2>1. copier.at = "writing on" /\ pending[w] = 0 /\ UNCHANGED <<e, taken, chunk, pipeVars>>
    BY <1>9, <2>w DEF WriteEnds
  <2>2. chunk # 0
    BY <2>1 DEF CopyTypes
  <2>3. Serving
    BY <2>1 DEF Situation, Quiet, Served
  <2>4. HasTaken(w)
    <3>1. ~IsOffered(w)
      BY <2>1, <2>2 DEF IsOffered
    <3>2. QED
      BY <2>1, <2>3, <2>w, <3>1 DEF Serving
  <2>5. \A i \in Positions : (HasTaken(i)' <=> HasTaken(i)) /\ (HasNot(i)' <=> HasNot(i))
    BY <1>0, <2>1 DEF HasTaken, HasNot
  <2>6. OnlyConsumers' /\ AllOpen'
    BY <1>0, <2>1, <2>3 DEF Serving, OnlyConsumers, AllOpen
  <2>7. CallTypes' /\ ConsumerTypes'
    BY <1>0, <1>3, <2>1 DEF CallTypes, ConsumerTypes
  <2>8. CASE w = N - 1
    <3>1. copier' = [at |-> "closing", w |-> 0]
      BY <1>9, <2>8, <2>w DEF WriteEnds
    <3>2. \A i \in Positions : HasTaken(i)'
      <4>1. \A i \in Positions : i < w \/ i = w
        BY <2>8 DEF Positions
      <4>2. QED
        BY <2>3, <2>4, <2>5, <2>w, <4>1 DEF Serving
    <3>3. Served'
      BY <1>0, <1>1, <2>6, <3>1, <3>2 DEF Served
    <3>4. CopyTypes' /\ Calls'
      BY <1>4, <2>1, <3>1 DEF CopyTypes
    <3>5. Pipes'
      <4>1. \A i \in Positions : ~(i < 0)
        BY DEF Positions
      <4>2. QED
        BY <3>1, <4>1 DEF Pipes
    <3>6. QED
      BY <1>2, <2>7, <3>3, <3>4, <3>5 DEF ReaderInv, ReaderTypes, Situation
  <2>9. CASE w # N - 1
    <3>1. w + 1 \in Positions
      BY <2>9 DEF Positions
    <3>2. copier' = [at |-> "writing", w |-> w + 1]
      BY <1>9, <2>9, <2>w DEF WriteEnds
    <3>3. \A i \in Positions : i < w + 1 => HasTaken(i)'
      <4>1. \A i \in Positions : i < w + 1 => i < w \/ i = w
        BY DEF Positions
      <4>2. QED
        BY <2>3, <2>4, <2>5, <2>w, <4>1 DEF Serving
    <3>4. \A i \in Positions : i > w + 1 \/ i = w + 1 => HasNot(i)'
      <4>1. \A i \in Positions : i > w + 1 \/ i = w + 1 => i > w
        BY DEF Positions
      <4>2. QED
        BY <2>3, <2>5, <2>w, <4>1 DEF Serving
    <3>5. Serving'
      BY <2>6, <3>2, <3>3, <3>4 DEF Serving
    <3>6. CopyTypes' /\ Calls' /\ Pipes'
      BY <1>4, <2>1, <2>2, <2>6, <3>1, <3>2 DEF CopyTypes, Pipes
    <3>7. QED
      BY <1>2, <2>7, <3>5, <3>6 DEF ReaderInv, ReaderTypes, Situation
  <2>10. QED
    BY <2>8, <2>9
<1>10. CASE Close
  <2>w. PICK w \in Positions : copier.w = w
    BY DEF CopyTypes
  <2>1. copier.at = "closing" /\ ~Serving /\ UNCHANGED <<e, taken, chunk, pending>>
    BY <1>10 DEF Close, Serving
  <2>2. closed' = [closed EXCEPT ![w] = TRUE]
    BY <1>10, <2>w DEF Close
  <2>3. \/ w = N - 1 /\ copier' = [at |-> "done", w |-> w]
        \/ w # N - 1 /\ copier' = [at |-> "closing", w |-> w + 1]
    BY <1>10, <2>1, <2>w DEF Close, CopyTypes
  <2>4. w # N - 1 => w + 1 \in Positions
    BY DEF Positions
  <2>5. copier'.at \in {"closing", "done"}
    BY <2>3
  <2>6. CallTypes' /\ Calls'
    BY <1>3, <1>4, <2>1, <2>5 DEF CallTypes
  <2>7. CopyTypes' /\ ConsumerTypes'
    <3>1. copier' \in [at : {"closing", "done"}, w : Positions]
      BY <2>3, <2>4
    <3>2. CopyTypes'
      BY <2>1, <3>1 DEF CopyTypes
    <3>3. ConsumerTypes'
      BY <1>0, <2>1, <2>2 DEF ConsumerTypes
    <3>4. QED
      BY <3>2, <3>3
  <2>8. \A i \in Positions : i < w + 1 => closed'[i]
    <3>1. \A i \in Positions : i < w + 1 => i < w \/ i = w
      BY DEF Positions
    <3>2. QED
      BY <2>1, <2>2, <2>w, <3>1 DEF Pipes, ConsumerTypes
  <2>9. w = N - 1 => \A i \in Positions : closed'[i]
    <3>1. w = N - 1 => \A i \in Positions : i < w + 1
      BY DEF Positions
    <3>2. QED
      BY <2>8, <3>1
  <2>10. Pipes'
    <3>1. CASE w = N - 1
      <4>1. copier'.at = "done" /\ AllClosed'
        BY <2>3, <2>9, <3>1 DEF AllClosed
      <4>2. QED
        BY <4>1 DEF Pipes
    <3>2. CASE w # N - 1
      <4>1. copier'.at = "closing" /\ copier'.w = w + 1
        BY <2>3, <3>2
      <4>2. QED
        BY <2>8, <4>1 DEF Pipes
    <3>3. QED
      BY <3>1, <3>2
  <2>11. Quiet => Quiet'
    BY <1>0, <2>1, <2>5 DEF Quiet
  <2>12. Served => Served'
    BY <1>0, <1>1, <2>1, <2>5 DEF Served, OnlyConsumers, HasTaken
  <2>13. QED
    BY <1>2, <2>1, <2>6, <2>7, <2>10, <2>11, <2>12 DEF ReaderInv, ReaderTypes, Situation
<1>11. QED
  BY <1>5, <1>6, <1>7, <1>8, <1>9, <1>10 DEF CopierStep

-----------------------------------------------------------------------------
(* The steps of the consumers.                                              *)

\* A consumer reads its pipe, finds it closed or handles what it has read.
LEMMA ConsumerKeeps ==
  ASSUME ReaderInv, NEW i \in Positions, ConsumerStep(i)
  PROVE  ReaderInv'
<1> /\ CallTypes /\ CopyTypes /\ ConsumerTypes /\ Calls /\ Messages /\ Pipes /\ Situation
  BY DEF ReaderInv, ReaderTypes
<1>0. UNCHANGED <<callVars, copyVars, closed>>
  BY DEF ConsumerStep, PipeReads, PipeEnds, Consumes
<1>1. copier.at # "unborn" /\ consumer[i] \in {"reading", "holding"}
  BY DEF ConsumerStep, PipeReads, PipeEnds, Consumes, Calls
<1>2. PICK l \in {"holding", "ended"} : AtConsumer(i, l)
  BY DEF ConsumerStep, PipeReads, PipeEnds, Consumes
<1>3. consumer'[i] = l /\ \A j \in Positions : j # i => consumer'[j] = consumer[j]
  BY <1>2 DEF AtConsumer, ConsumerTypes
<1>4. CopyTypes' /\ Pipes'
  BY <1>0 DEF CopyTypes, Pipes, AllOpen, AllClosed
<1>5. Calls'
  <2>1. \A j \in Positions : consumer'[j] # "unborn"
    BY <1>1, <1>3 DEF Calls
  <2>2. QED
    BY <1>0, <1>1, <2>1 DEF Calls
<1>6. CASE PipeReads(i)
  <2>1. /\ pending[i] # 0 /\ consumer[i] = "reading" /\ AtConsumer(i, "holding")
        /\ pending' = [pending EXCEPT ![i] = 0] /\ UNCHANGED <<closed, got, failed, channelVars>>
    BY <1>6 DEF PipeReads, ConsumerTypes
  <2>2. CallTypes'
    BY <1>0, <2>1 DEF CallTypes
  <2>3. ConsumerTypes'
    BY <2>1 DEF ConsumerTypes, AtConsumer
  <2>4. Messages'
    <3>1. Ended' = Ended
      BY <2>1 DEF Ended, AtConsumer, ConsumerTypes
    <3>2. QED
      BY <1>0, <2>1, <3>1 DEF Messages
  <2>5. Serving
    BY <2>1 DEF Situation, Quiet, Served, HasTaken
  <2>6. i = copier.w /\ copier.at = "writing on" /\ IsOffered(i)
    <3>1. ~HasTaken(i) /\ ~HasNot(i)
      BY <2>1 DEF HasTaken, HasNot
    <3>2. i = copier.w
      <4>1. PICK w \in Positions : copier.w = w
        BY DEF CopyTypes
      <4>2. i < w \/ i > w \/ i = w
        BY DEF Positions
      <4>3. QED
        BY <2>5, <3>1, <4>1, <4>2 DEF Serving
    <3>3. QED
      BY <2>5, <3>1, <3>2 DEF Serving
  <2>7. HasTaken(i)'
    BY <2>1, <2>6 DEF IsOffered, HasTaken, AtConsumer, ConsumerTypes
  <2>8. ASSUME NEW j \in Positions, j # i
        PROVE  (HasTaken(j) => HasTaken(j)') /\ (HasNot(j) => HasNot(j)')
    <3>1. pending'[j] = pending[j] /\ consumer'[j] = consumer[j] /\ got'[j] = got[j]
      BY <1>3, <2>1, <2>8 DEF ConsumerTypes
    <3>2. QED
      BY <1>0, <3>1 DEF HasTaken, HasNot
  <2>9. Serving'
    <3>1. OnlyConsumers' /\ AllOpen'
      BY <1>0, <2>1, <2>5 DEF Serving, OnlyConsumers, AllOpen
    <3>2. ASSUME NEW j \in Positions, j < i PROVE HasTaken(j)'
      <4>1. j # i
        BY <3>2 DEF Positions
      <4>2. HasTaken(j)
        BY <2>5, <2>6, <3>2 DEF Serving
      <4>3. QED
        BY <2>8, <4>1, <4>2
    <3>3. ASSUME NEW j \in Positions, j > i PROVE HasNot(j)'
      <4>1. j # i
        BY <3>3 DEF Positions
      <4>2. HasNot(j)
        BY <2>5, <2>6, <3>3 DEF Serving
      <4>3. QED
        BY <2>8, <4>1, <4>2
    <3>4. QED
      BY <1>0, <2>6, <2>7, <3>1, <3>2, <3>3 DEF Serving
  <2>10. QED
    BY <1>4, <1>5, <2>2, <2>3, <2>4, <2>9 DEF ReaderInv, ReaderTypes, Situation
<1>7. CASE PipeEnds(i)
  <2>1. /\ closed[i] /\ consumer[i] = "reading" /\ AtConsumer(i, "ended")
        /\ errs' = Append(errs, "EOF") /\ UNCHANGED <<pending, got, failed, done>>
    BY <1>7 DEF PipeEnds
  <2>2. Len(errs') = Len(errs) + 1 /\ errs' \in Seq(Errors) /\ Len(errs) \in Nat
    BY <2>1, ErrsSent DEF CallTypes, Errors
  <2>3. CallTypes'
    BY <1>0, <2>1, <2>2 DEF CallTypes
  <2>4. ConsumerTypes'
    BY <1>0, <2>1 DEF ConsumerTypes, AtConsumer
  <2>5. Messages'
    BY <1>0, <2>1, <2>2, OneMoreEnded, EndedCount DEF Messages, CallTypes
  <2>6. Quiet /\ ~AllOpen
    BY <2>1 DEF Situation, Serving, Served, HasTaken, AllOpen
  <2>7. Quiet'
    <3>1. \A j \in Positions : consumer'[j] # "holding"
      BY <1>3, <2>1, <2>6 DEF Quiet, AtConsumer, ConsumerTypes
    <3>2. ~AllOpen'
      BY <1>0, <2>6 DEF AllOpen
    <3>3. QED
      BY <1>0, <2>1, <2>6, <3>1, <3>2 DEF Quiet
  <2>8. QED
    BY <1>4, <1>5, <2>3, <2>4, <2>5, <2>7 DEF ReaderInv, ReaderTypes, Situation
<1>8. CASE Consumes(i)
  <2>0. chunk \in Nat
    BY DEF CopyTypes
  <2>1. /\ consumer[i] = "holding" /\ AtConsumer(i, "ended")
        /\ got' = [got EXCEPT ![i] = got[i] + chunk] /\ UNCHANGED pending
        /\ \/ done' = done + 1 /\ UNCHANGED <<errs, failed>>
           \/ failed' = failed \cup {i} /\ errs' = Append(errs, "consumer") /\ UNCHANGED done
    BY <1>8 DEF Consumes
  <2>2. /\ Append(errs, "consumer") \in Seq(Errors) /\ Append(errs, "consumer") # <<>>
        /\ Len(Append(errs, "consumer")) = Len(errs) + 1 /\ Len(errs) \in Nat
        /\ \A k \in 1 .. Len(errs) : Append(errs, "consumer")[k] = errs[k]
        /\ Append(errs, "consumer")[Len(errs) + 1] = "consumer"
    BY ErrsSent DEF CallTypes, Errors
  <2>3. CallTypes'
    <3>1. done' \in Nat /\ errs' \in Seq(Errors)
      BY <2>1, <2>2 DEF CallTypes
    <3>2. QED
      BY <1>0, <3>1 DEF CallTypes
  <2>4. ConsumerTypes'
    <3>1. got' \in [Positions -> Nat]
      BY <2>0, <2>1 DEF ConsumerTypes
    <3>2. QED
      BY <1>0, <2>1, <3>1 DEF ConsumerTypes, AtConsumer
  <2>5. Messages'
    BY <1>0, <2>1, <2>2, OneMoreEnded, EndedCount DEF Messages, CallTypes
  <2>6. OnlyConsumers /\ ~Quiet /\ HasTaken(i)
    <3>1. ~Quiet /\ ~HasNot(i) /\ ~IsOffered(i)
      BY <2>1 DEF Quiet, HasNot, IsOffered
    <3>2. HasTaken(i)
      <4>1. PICK w \in Positions : copier.w = w
        BY DEF CopyTypes
      <4>2. i < w \/ i > w \/ i = w
        BY DEF Positions
      <4>3. QED
        BY <3>1, <4>1, <4>2 DEF Situation, Serving, Served
    <3>3. QED
      BY <3>1, <3>2 DEF Situation, Serving, Served
  <2>7. OnlyConsumers'
    <3>1. CASE UNCHANGED <<errs, failed>>
      BY <1>0, <2>6, <3>1 DEF OnlyConsumers
    <3>2. CASE errs' = Append(errs, "consumer")
      <4>1. \A k \in 1 .. Len(errs') : k \in 1 .. Len(errs) \/ k = Len(errs) + 1
        BY <2>2, <3>2
      <4>2. \A k \in 1 .. Len(errs') : errs'[k] = "consumer"
        BY <2>2, <2>6, <3>2, <4>1 DEF OnlyConsumers
      <4>3. QED
        BY <1>0, <2>2, <2>6, <3>2, <4>2 DEF OnlyConsumers
    <3>3. QED
      BY <2>1, <3>1, <3>2
  <2>8. HasTaken(i)'
    <3>1. pending'[i] = 0 /\ consumer'[i] = "ended" /\ got[i] = 0 /\ got'[i] = got[i] + chunk
      BY <2>1, <2>6 DEF HasTaken, AtConsumer, ConsumerTypes
    <3>2. 0 + chunk = chunk
      BY <2>0
    <3>3. QED
      BY <1>0, <3>1, <3>2 DEF HasTaken
  <2>9. ASSUME NEW j \in Positions
        PROVE  /\ HasTaken(j) => HasTaken(j)'
               /\ HasNot(j) => HasNot(j)'
               /\ IsOffered(j) => IsOffered(j)'
    <3>1. CASE j = i
      BY <2>1, <2>8, <3>1 DEF HasNot, IsOffered
    <3>2. CASE j # i
      <4>1. pending'[j] = pending[j] /\ consumer'[j] = consumer[j] /\ got'[j] = got[j]
        BY <1>3, <2>1, <3>2 DEF ConsumerTypes
      <4>2. QED
        BY <1>0, <4>1 DEF HasTaken, HasNot, IsOffered
    <3>3. QED
      BY <3>1, <3>2
  <2>10. Situation'
    <3>1. CASE Serving
      <4>1. AllOpen'
        BY <1>0, <3>1 DEF Serving, AllOpen
      <4>2. Serving'
        BY <1>0, <2>7, <2>9, <3>1, <4>1 DEF Serving
      <4>3. QED
        BY <4>2 DEF Situation
    <3>2. CASE Served
      <4>1. Served'
        BY <1>0, <2>7, <2>9, <3>2 DEF Served
      <4>2. QED
        BY <4>1 DEF Situation
    <3>3. QED
      BY <2>6, <3>1, <3>2 DEF Situation
  <2>11. QED
    BY <1>4, <1>5, <2>3, <2>4, <2>5, <2>10 DEF ReaderInv, ReaderTypes
<1>9. QED
  BY <1>6, <1>7, <1>8 DEF ConsumerStep

-----------------------------------------------------------------------------
(* The theorems.                                                            *)

\* The invariant holds always.
LEMMA ReaderInvariant == Spec => []ReaderInv
<1>1. ReaderInv /\ [Next]_vars => ReaderInv'
  <2>1. ASSUME ReaderInv, Next PROVE ReaderInv'
    BY <2>1, ReadKeeps, CallerKeeps, CopierKeeps, ConsumerKeeps DEF Next, CallerStep
  <2>2. ASSUME ReaderInv, UNCHANGED vars PROVE ReaderInv'
    <3>1. ReaderTypes' /\ Calls' /\ Messages' /\ Pipes'
      BY <2>2 DEF vars, ReaderInv, ReaderTypes, CallTypes, CopyTypes, ConsumerTypes, Calls,
         Messages, Ended, Pipes, AllOpen, AllClosed
    <3>2. Situation'
      BY <2>2 DEF vars, ReaderInv, Situation, Quiet, Serving, Served, OnlyConsumers, HasTaken,
         HasNot, IsOffered, AllOpen
    <3>3. QED
      BY <3>1, <3>2 DEF ReaderInv
  <2>3. QED
    BY <2>1, <2>2
<1>2. QED
  BY <1>1, InitReaderInv, PTL DEF Spec

\* The error of a consumer reaches the caller of Read: a caller that has read to
\* the end has seen none, however the messages of the others, of the pipes and
\* of the source replace each other in e.
THEOREM ConsumerErrorReported == Spec => []FailureReported
<1>1. ReaderInv => FailureReported
  <2>1. SUFFICES ASSUME ReaderInv, caller = "finished" PROVE failed = {}
    BY DEF FailureReported
  <2>2. copier.at = "done"
    BY <2>1 DEF ReaderInv, Calls
  <2>3. QED
    BY <2>1, <2>2 DEF ReaderInv, Situation, Quiet, Serving, Served
<1>2. QED
  BY <1>1, ReaderInvariant, PTL

\* Whenever Read has returned, all consumers have been handed the same data,
\* whoever has failed.
THEOREM ConsumersTogether == Spec => []Together
<1>1. ReaderInv => Together
  <2>1. SUFFICES ASSUME ReaderInv, caller \in {"calling", "finished", "failed"},
                        NEW i \in Positions, NEW j \in Positions
                 PROVE  got[i] = got[j]
    BY DEF Together
  <2>2. CASE Quiet
    BY <2>2 DEF Quiet
  <2>3. CASE Serving
    BY <2>1, <2>3 DEF ReaderInv, Serving, Calls
  <2>4. CASE Served
    <3>1. collected = N
      BY <2>1, <2>4 DEF ReaderInv, Calls, Served
    <3>2. \A k \in Positions : consumer[k] = "ended"
      BY <2>1, <3>1, AllCollected DEF ReaderInv, ReaderTypes
    <3>3. QED
      BY <2>4, <3>2 DEF Served, HasTaken
  <2>5. QED
    BY <2>1, <2>2, <2>3, <2>4 DEF ReaderInv, Situation
<1>2. QED
  BY <1>1, ReaderInvariant, PTL
=============================================================================
