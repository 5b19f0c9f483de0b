-------------------------- MODULE ReadAllReaderProofs --------------------------
(***************************************************************************)
(* Proofs about ReadAllReader, for any number of consumers and any source. *)
(***************************************************************************)
EXTENDS ReadAllReader, FiniteSetTheorems, TLAPS

Messages == [data : Positions \X (0 .. Units), pos : Positions]
Slots    == (Positions \X (0 .. Units)) \cup {NoData}

CopierTypes ==
  /\ copier \in [at : {"unborn", "reading", "writing", "closing", "done"}, w : Positions]
  /\ taken \in 0 .. Units /\ chunk \in 0 .. Units
  /\ copyError \in {"none", "source", "pipe"}
  /\ pending \in [Positions -> 0 .. Units]
  /\ writerClosed \in [Positions -> BOOLEAN] /\ readerClosed \in [Positions -> BOOLEAN]

ConsumerTypes ==
  /\ consumer \in [Positions -> {"unborn", "choosing", "reading", "ending", "returned",
                                 "sent", "ended"}]
  /\ got \in [Positions -> 0 .. Units]
  /\ outcome \in [Positions -> {"none", "data", "error"}]

CallerTypes ==
  /\ errs \in Seq(Positions) /\ results \in Seq(Messages)
  /\ caller \in [at : {"idle", "waiting", "collecting", "returned"}, collected : 0 .. N]
  /\ slots \in [Positions -> Slots]
  /\ lastError \in {"none", "source", "pipe", "consumer"}

Types == CopierTypes /\ ConsumerTypes /\ CallerTypes

\* The goroutines exist once ReadAll is called, and the caller is past wg.Wait()
\* only when the copying one is done.
Stages ==
  /\ caller.at = "idle" =>
       /\ copier.at = "unborn" /\ copyError = "none"
       /\ \A i \in Positions : consumer[i] = "unborn"
  /\ copier.at = "unborn" =>
       taken = 0 /\ \A i \in Positions : pending[i] = 0 /\ got[i] = 0
  /\ caller.at \in {"collecting", "returned"} => copier.at = "done"
  /\ caller.at \in {"idle", "waiting"} => lastError = "none" /\ caller.collected = 0
  /\ caller.at = "returned" => caller.collected = N

\* Where the units taken from the source are while the copier is at work.
Copying ==
  /\ \A i \in Positions : got[i] + pending[i] <= taken
  /\ copier.at \in {"reading", "writing"} => copyError = "none"
  /\ copier.at = "reading" => \A i \in Positions : pending[i] = 0 /\ got[i] = taken
  /\ copier.at = "writing" =>
       /\ \A i \in Positions : i < copier.w => pending[i] = 0 /\ got[i] = taken
       /\ got[copier.w] + pending[copier.w] = taken
       /\ \A i \in Positions : i > copier.w => pending[i] = 0 /\ got[i] + chunk = taken

\* And when it has stopped.
Copied ==
  copier.at \in {"closing", "done"} =>
    /\ copyError = "none" =>
         taken = Units /\ \A i \in Positions : pending[i] = 0 /\ got[i] = Units
    /\ copyError = "pipe" => \E i \in Positions : pending[i] > 0 /\ consumer[i] = "ended"

\* The consumers that have sent what they returned, and what the channels, the
\* slots and lastError have of it.
Through(i) == consumer[i] \in {"sent", "ended"}
Sent       == {i \in Positions : Through(i)}

Counted == caller.collected + Len(errs) + Len(results) = Cardinality(Sent)

Consumers ==
  \A i \in Positions :
    /\ readerClosed[i] => consumer[i] = "ended"
    /\ consumer[i] = "returned" \/ Through(i) => outcome[i] # "none"

Errors ==
  /\ \A k \in 1 .. Len(errs) : Through(errs[k]) /\ outcome[errs[k]] = "error"
  /\ lastError = "consumer" => \E i \in Positions : Through(i) /\ outcome[i] = "error"
  /\ lastError # "consumer" /\ errs = <<>> =>
       \A i \in Positions : Through(i) => outcome[i] # "error"
  /\ caller.at \in {"collecting", "returned"} /\ lastError # "consumer" => lastError = copyError

Results ==
  /\ \A k \in 1 .. Len(results) :
       /\ Through(results[k].pos) /\ outcome[results[k].pos] = "data"
       /\ results[k].data = Data(results[k].pos, got[results[k].pos])
  /\ \A i \in Positions : Through(i) /\ outcome[i] = "data" =>
       \/ slots[i] = Data(i, got[i])
       \/ \E k \in 1 .. Len(results) : results[k].pos = i

ReadAllInv ==
  /\ Types /\ Stages /\ Copying /\ Copied
  /\ Counted /\ Consumers /\ Errors /\ Results

-----------------------------------------------------------------------------
\* The two ways in which a write to a pipe ends: with the last pipe, or on to
\* the next one.
LEMMA WrittenFacts ==
  ASSUME CopierTypes, CopyWritten
  PROVE  /\ copier.at = "writing" /\ pending[copier.w] = 0
         /\ UNCHANGED <<taken, chunk, copyError, writerClosed, readerClosed,
                        consumer, got, outcome>>
         /\ \/ /\ copier.w = N - 1 /\ pending' = pending
               /\ copier'.at = "reading" /\ copier'.w = 0
            \/ /\ copier.w + 1 \in Positions
               /\ copier'.at = "writing" /\ copier'.w = copier.w + 1
               /\ pending' = [pending EXCEPT ![copier.w + 1] = chunk]
         /\ copier' \in [at : {"unborn", "reading", "writing", "closing", "done"}, w : Positions]
<1> USE ConstantsAssumption DEF Positions
<1>1. copier \in [at : {"unborn", "reading", "writing", "closing", "done"}, w : Positions]
  BY DEF CopierTypes
<1>2. /\ copier.at = "writing" /\ pending[copier.w] = 0
      /\ UNCHANGED <<taken, chunk, copyError, writerClosed, readerClosed, consumer, got, outcome>>
  BY DEF CopyWritten, consumerVars
<1>3. CASE copier.w = N - 1
  <2>1. copier' = [at |-> "reading", w |-> 0] /\ pending' = pending
    BY <1>3 DEF CopyWritten
  <2> QED
    BY <1>2, <1>3, <2>1
<1>4. CASE copier.w # N - 1
  <2>1. /\ copier' = [copier EXCEPT !.w = @ + 1]
        /\ pending' = [pending EXCEPT ![copier.w + 1] = chunk]
    BY <1>4 DEF CopyWritten
  <2>2. copier.w + 1 \in Positions
    BY <1>1, <1>4
  <2> QED
    BY <1>1, <1>2, <2>1, <2>2
<1> QED
  BY <1>3, <1>4

\* A read takes one unit out of a pipe.
LEMMA GetsFacts ==
  ASSUME CopierTypes, ConsumerTypes, NEW j \in Positions, ConsumerGets(j)
  PROVE  /\ UNCHANGED <<copier, taken, chunk, copyError, writerClosed, readerClosed, outcome>>
         /\ pending[j] > 0 /\ consumer[j] = "reading"
         /\ pending'[j] = pending[j] - 1 /\ got'[j] = got[j] + 1
         /\ pending'[j] \in Nat /\ got'[j] \in Nat
         /\ \A i \in Positions : i # j =>
              pending'[i] = pending[i] /\ got'[i] = got[i] /\ consumer'[i] = consumer[i]
<1>1. pending[j] \in 0 .. Units /\ got[j] \in 0 .. Units
  BY DEF CopierTypes, ConsumerTypes
<1>2. /\ pending' = [pending EXCEPT ![j] = @ - 1] /\ got' = [got EXCEPT ![j] = @ + 1]
      /\ consumer' = [consumer EXCEPT ![j] = "choosing"]
      /\ pending[j] > 0 /\ consumer[j] = "reading"
      /\ UNCHANGED <<copier, taken, chunk, copyError, writerClosed, readerClosed, outcome>>
  BY DEF ConsumerGets, copyVars, AtConsumer
<1>3. pending[j] - 1 \in Nat /\ got[j] + 1 \in Nat
  BY <1>1, <1>2, ConstantsAssumption
<1> QED
  BY <1>2, <1>3 DEF CopierTypes, ConsumerTypes

\* The end of a write leaves the units where they are to be.
LEMMA WrittenInv ==
  ASSUME ReadAllInv, CopyWritten
  PROVE  CopierTypes' /\ Copying' /\ Copied'
<1> DEFINE w == copier.w
<1>1. /\ N \in Nat \ {0} /\ w \in 0 .. (N - 1) /\ chunk \in 0 .. Units /\ taken \in 0 .. Units
      /\ pending \in [Positions -> 0 .. Units] /\ got \in [Positions -> 0 .. Units]
  BY ConstantsAssumption DEF ReadAllInv, Types, CopierTypes, ConsumerTypes, Positions
<1>2. /\ \A i \in Positions : got[i] + pending[i] <= taken
      /\ copyError = "none"
      /\ \A i \in Positions : i < w => pending[i] = 0 /\ got[i] = taken
      /\ got[w] = taken /\ pending[w] = 0
      /\ \A i \in Positions : i > w => pending[i] = 0 /\ got[i] + chunk = taken
  <2>1. Copying /\ CopierTypes
    BY DEF ReadAllInv, Types
  <2>2. copier.at = "writing" /\ pending[w] = 0
    BY DEF CopyWritten
  <2>3. got[w] + pending[w] = taken /\ got[w] \in Nat
    BY <1>1, <2>1, <2>2 DEF Copying, Positions
  <2> QED
    BY <2>1, <2>2, <2>3 DEF Copying
<1>3. /\ UNCHANGED <<taken, chunk, copyError, writerClosed, readerClosed, got>>
      /\ copier' \in [at : {"unborn", "reading", "writing", "closing", "done"}, w : Positions]
      /\ \/ /\ w = N - 1 /\ pending' = pending
            /\ copier'.at = "reading" /\ copier'.w = 0
         \/ /\ w + 1 \in Positions
            /\ copier'.at = "writing" /\ copier'.w = w + 1
            /\ pending' = [pending EXCEPT ![w + 1] = chunk]
  BY WrittenFacts DEF ReadAllInv, Types
<1> HIDE DEF w
<1>4. CASE w = N - 1 /\ copier'.at = "reading"
  <2>1. pending' = pending
    BY <1>3, <1>4
  <2>2. \A i \in Positions : i < w \/ i = w
    BY <1>1, <1>4 DEF Positions
  <2>3. \A i \in Positions : pending[i] = 0 /\ got[i] = taken
    BY <1>2, <2>2
  <2>4. CopierTypes'
    BY <1>3, <2>1 DEF ReadAllInv, Types, CopierTypes
  <2>5. Copying' /\ Copied'
    BY <1>2, <1>3, <1>4, <2>1, <2>3 DEF Copying, Copied
  <2> QED
    BY <2>4, <2>5
<1>5. CASE copier'.at = "writing"
  <2>1. /\ w + 1 \in Positions /\ copier'.w = w + 1
        /\ pending' = [pending EXCEPT ![w + 1] = chunk]
    BY <1>3, <1>5
  <2>2. w + 1 > w
    BY <1>1
  <2>3. pending'[w + 1] = chunk /\ got[w + 1] + chunk = taken
    BY <1>1, <1>2, <2>1, <2>2
  <2>4. \A i \in Positions : i # w + 1 => pending'[i] = pending[i]
    BY <1>1, <2>1
  <2>5. CopierTypes'
    BY <1>1, <1>3, <2>1 DEF ReadAllInv, Types, CopierTypes
  <2>6. \A i \in Positions : i < w + 1 => pending'[i] = 0 /\ got[i] = taken
    <3>1. \A i \in Positions : i < w + 1 => i # w + 1 /\ (i < w \/ i = w)
      BY <1>1 DEF Positions
    <3> QED
      BY <1>2, <2>4, <3>1
  <2>7. \A i \in Positions : i > w + 1 => pending'[i] = 0 /\ got[i] + chunk = taken
    <3>1. \A i \in Positions : i > w + 1 => i # w + 1 /\ i > w
      BY <1>1 DEF Positions
    <3> QED
      BY <1>2, <2>4, <3>1
  <2>8. \A i \in Positions : got[i] + pending'[i] <= taken
    <3>1. \A i \in Positions : i = w + 1 \/ i # w + 1
      OBVIOUS
    <3>2. got[w + 1] + pending'[w + 1] <= taken
      BY <1>1, <2>1, <2>3
    <3> QED
      BY <1>2, <2>4, <3>2
  <2>9. Copying' /\ Copied'
    BY <1>1, <1>2, <1>3, <1>5, <2>1, <2>3, <2>6, <2>7, <2>8 DEF Copying, Copied
  <2> QED
    BY <2>5, <2>9
<1> QED
  BY <1>3, <1>4, <1>5

\* So does a read.
LEMMA GetsInv ==
  ASSUME ReadAllInv, NEW j \in Positions, ConsumerGets(j)
  PROVE  Copying' /\ Copied'
<1>1. /\ UNCHANGED <<copier, taken, chunk, copyError>>
      /\ pending[j] > 0 /\ consumer[j] = "reading"
      /\ pending'[j] = pending[j] - 1 /\ got'[j] = got[j] + 1
      /\ \A i \in Positions : i # j =>
           pending'[i] = pending[i] /\ got'[i] = got[i] /\ consumer'[i] = consumer[i]
  BY GetsFacts DEF ReadAllInv, Types
<1>2. /\ pending \in [Positions -> 0 .. Units] /\ got \in [Positions -> 0 .. Units]
      /\ taken \in Nat /\ copier.w \in Positions /\ Positions \subseteq Int
  BY ConstantsAssumption DEF ReadAllInv, Types, CopierTypes, ConsumerTypes, Positions
<1>3. pending[j] \in Nat /\ got[j] \in Nat
  BY <1>2, ConstantsAssumption
<1>4. got'[j] + pending'[j] = got[j] + pending[j]
  BY <1>1, <1>3
<1>5. Copying /\ Copied
  BY DEF ReadAllInv
<1>6. Copying'
  <2>1. \A i \in Positions : got'[i] + pending'[i] = got[i] + pending[i]
    BY <1>1, <1>4
  <2>2. copier.at # "reading"
    BY <1>1, <1>3, <1>5 DEF Copying
  <2>3. copier.at = "writing" => j = copier.w
    <3>0. j \in Int /\ copier.w \in Int
      BY <1>2
    <3>1. j < copier.w \/ j = copier.w \/ j > copier.w
      BY <3>0
    <3> QED
      BY <1>1, <1>3, <1>5, <3>1 DEF Copying
  <2>4. copier.at = "writing" => \A i \in Positions : i < copier.w \/ i > copier.w => i # j
    BY <1>2, <2>3
  <2>5. \A i \in Positions : got'[i] + pending'[i] <= taken
    BY <1>5, <2>1 DEF Copying
  <2> QED
    BY <1>1, <1>2, <1>5, <2>1, <2>2, <2>4, <2>5 DEF Copying
<1>7. Copied'
  <2>1. SUFFICES ASSUME copier.at \in {"closing", "done"} PROVE Copied'
    BY <1>1 DEF Copied
  <2>2. copyError # "none"
    BY <1>1, <1>3, <1>5, <2>1 DEF Copied
  <2>3. copyError = "pipe" => \E i \in Positions : pending'[i] > 0 /\ consumer'[i] = "ended"
    <3>1. ASSUME copyError = "pipe"
          PROVE  \E i \in Positions : pending[i] > 0 /\ consumer[i] = "ended"
      BY <1>5, <2>1, <3>1 DEF Copied
    <3> QED
      BY <1>1, <3>1
  <2> QED
    BY <1>1, <2>2, <2>3 DEF Copied
<1> QED
  BY <1>6, <1>7

\* The variables of the copier keep their types.
LEMMA CopierTypesStep == ReadAllInv /\ [Next]_vars => CopierTypes'
<1> SUFFICES ASSUME ReadAllInv, [Next]_vars PROVE CopierTypes'
  OBVIOUS
<1> USE ConstantsAssumption DEF ReadAllInv, Types, CopierTypes, Positions, pipeVars, copyVars,
     consumerVars, callerVars, AtConsumer
<1>1. CASE ReadAll
  BY <1>1 DEF ReadAll
<1>2. CASE CopyAwaited
  BY <1>2 DEF CopyAwaited
<1>3. CASE CollectError
  BY <1>3 DEF CollectError
<1>4. CASE CollectResult
  BY <1>4 DEF CollectResult
<1>5. CASE Return
  BY <1>5 DEF Return
<1>6. CASE CopyRead
  BY <1>6 DEF CopyRead
<1>7. CASE CopyReadFails
  BY <1>7 DEF CopyReadFails
<1>8. CASE CopyReadEnds
  BY <1>8 DEF CopyReadEnds
<1>9. CASE CopyWritten
  BY <1>9, WrittenInv
<1>10. CASE CopyBroken
  BY <1>10 DEF CopyBroken
<1>11. CASE CopyClose
  BY <1>11 DEF CopyClose
<1>12. ASSUME NEW j \in Positions, ConsumerReads(j) PROVE CopierTypes'
  BY <1>12 DEF ConsumerReads
<1>13. ASSUME NEW j \in Positions, ConsumerGets(j) PROVE CopierTypes'
  BY <1>13 DEF ConsumerGets
<1>14. ASSUME NEW j \in Positions, ConsumerEnds(j) PROVE CopierTypes'
  BY <1>14 DEF ConsumerEnds
<1>15. ASSUME NEW j \in Positions, ConsumerReturns(j) PROVE CopierTypes'
  BY <1>15 DEF ConsumerReturns
<1>16. ASSUME NEW j \in Positions, ConsumerSends(j) PROVE CopierTypes'
  BY <1>16 DEF ConsumerSends
<1>17. ASSUME NEW j \in Positions, ConsumerCloses(j) PROVE CopierTypes'
  BY <1>17 DEF ConsumerCloses
<1>18. CASE UNCHANGED vars
  BY <1>18 DEF vars
<1> QED
  BY <1>1, <1>2, <1>3, <1>4, <1>5, <1>6, <1>7, <1>8, <1>9, <1>10, <1>11, <1>12, <1>13, <1>14,
       <1>15, <1>16, <1>17, <1>18
     DEF Next, CallerStep, CopierStep, ConsumerStep

\* So do those of the consumers.
LEMMA ConsumerTypesStep == ReadAllInv /\ [Next]_vars => ConsumerTypes'
<1> SUFFICES ASSUME ReadAllInv, [Next]_vars PROVE ConsumerTypes'
  OBVIOUS
<1> USE ConstantsAssumption DEF ReadAllInv, Types, ConsumerTypes, CopierTypes, Copying,
     Positions, pipeVars, copyVars, consumerVars, callerVars, AtConsumer
<1>1. CASE ReadAll
  BY <1>1 DEF ReadAll
<1>2. CASE CopyAwaited
  BY <1>2 DEF CopyAwaited
<1>3. CASE CollectError
  BY <1>3 DEF CollectError
<1>4. CASE CollectResult
  BY <1>4 DEF CollectResult
<1>5. CASE Return
  BY <1>5 DEF Return
<1>6. CASE CopyRead
  BY <1>6 DEF CopyRead
<1>7. CASE CopyReadFails
  BY <1>7 DEF CopyReadFails
<1>8. CASE CopyReadEnds
  BY <1>8 DEF CopyReadEnds
<1>9. CASE CopyWritten
  BY <1>9 DEF CopyWritten
<1>10. CASE CopyBroken
  BY <1>10 DEF CopyBroken
<1>11. CASE CopyClose
  BY <1>11 DEF CopyClose
<1>12. ASSUME NEW j \in Positions, ConsumerReads(j) PROVE ConsumerTypes'
  BY <1>12 DEF ConsumerReads
<1>13. ASSUME NEW j \in Positions, ConsumerGets(j) PROVE ConsumerTypes'
  <2>1. /\ pending[j] \in Nat /\ pending[j] > 0 /\ got[j] \in Nat
        /\ taken \in Nat /\ taken <= Units /\ got[j] + pending[j] <= taken
    BY <1>13 DEF ConsumerGets
  <2>2. got[j] + 1 \in 0 .. Units
    BY <2>1
  <2>3. got' = [got EXCEPT ![j] = got[j] + 1] /\ AtConsumer(j, "choosing") /\ outcome' = outcome
    BY <1>13 DEF ConsumerGets
  <2> QED
    BY <2>2, <2>3
<1>14. ASSUME NEW j \in Positions, ConsumerEnds(j) PROVE ConsumerTypes'
  BY <1>14 DEF ConsumerEnds
<1>15. ASSUME NEW j \in Positions, ConsumerReturns(j) PROVE ConsumerTypes'
  BY <1>15 DEF ConsumerReturns
<1>16. ASSUME NEW j \in Positions, ConsumerSends(j) PROVE ConsumerTypes'
  BY <1>16 DEF ConsumerSends
<1>17. ASSUME NEW j \in Positions, ConsumerCloses(j) PROVE ConsumerTypes'
  BY <1>17 DEF ConsumerCloses
<1>18. CASE UNCHANGED vars
  BY <1>18 DEF vars
<1> QED
  BY <1>1, <1>2, <1>3, <1>4, <1>5, <1>6, <1>7, <1>8, <1>9, <1>10, <1>11, <1>12, <1>13, <1>14,
       <1>15, <1>16, <1>17, <1>18
     DEF Next, CallerStep, CopierStep, ConsumerStep

\* The stages are kept.
LEMMA StagesStep == ReadAllInv /\ [Next]_vars => Stages'
<1> SUFFICES ASSUME ReadAllInv, [Next]_vars PROVE Stages'
  OBVIOUS
<1> USE ConstantsAssumption DEF ReadAllInv, Types, CopierTypes, ConsumerTypes, CallerTypes,
     Stages, pipeVars, copyVars, consumerVars, callerVars, AtConsumer
<1>1. CASE ReadAll
  BY <1>1 DEF ReadAll
<1>2. CASE CopyAwaited
  BY <1>2 DEF CopyAwaited
<1>3. CASE CollectError
  BY <1>3 DEF CollectError
<1>4. CASE CollectResult
  BY <1>4 DEF CollectResult
<1>5. CASE Return
  BY <1>5 DEF Return
<1>6. CASE CopyRead
  BY <1>6 DEF CopyRead
<1>7. CASE CopyReadFails
  BY <1>7 DEF CopyReadFails
<1>8. CASE CopyReadEnds
  BY <1>8 DEF CopyReadEnds
<1>9. CASE CopyWritten
  <2>1. copier.at = "writing" /\ copier'.at \in {"reading", "writing"}
    BY <1>9, WrittenFacts
  <2> QED
    BY <1>9, <2>1 DEF CopyWritten
<1>10. CASE CopyBroken
  BY <1>10 DEF CopyBroken
<1>11. CASE CopyClose
  BY <1>11 DEF CopyClose
<1>12. ASSUME NEW j \in Positions, ConsumerReads(j) PROVE Stages'
  BY <1>12 DEF ConsumerReads
<1>13. ASSUME NEW j \in Positions, ConsumerGets(j) PROVE Stages'
  BY <1>13 DEF ConsumerGets
<1>14. ASSUME NEW j \in Positions, ConsumerEnds(j) PROVE Stages'
  BY <1>14 DEF ConsumerEnds
<1>15. ASSUME NEW j \in Positions, ConsumerReturns(j) PROVE Stages'
  BY <1>15 DEF ConsumerReturns
<1>16. ASSUME NEW j \in Positions, ConsumerSends(j) PROVE Stages'
  BY <1>16 DEF ConsumerSends
<1>17. ASSUME NEW j \in Positions, ConsumerCloses(j) PROVE Stages'
  BY <1>17 DEF ConsumerCloses
<1>18. CASE UNCHANGED vars
  BY <1>18 DEF vars
<1> QED
  BY <1>1, <1>2, <1>3, <1>4, <1>5, <1>6, <1>7, <1>8, <1>9, <1>10, <1>11, <1>12, <1>13, <1>14,
       <1>15, <1>16, <1>17, <1>18
     DEF Next, CallerStep, CopierStep, ConsumerStep

\* Copying loses no unit.
LEMMA CopyingStep == ReadAllInv /\ [Next]_vars => Copying'
<1> SUFFICES ASSUME ReadAllInv, [Next]_vars PROVE Copying'
  OBVIOUS
<1> USE ConstantsAssumption DEF ReadAllInv, Types, CopierTypes, ConsumerTypes, CallerTypes,
     Stages, Copying, Positions, pipeVars, copyVars, consumerVars, callerVars, AtConsumer
<1>1. CASE ReadAll
  BY <1>1 DEF ReadAll
<1>2. CASE CopyAwaited
  BY <1>2 DEF CopyAwaited
<1>3. CASE CollectError
  BY <1>3 DEF CollectError
<1>4. CASE CollectResult
  BY <1>4 DEF CollectResult
<1>5. CASE Return
  BY <1>5 DEF Return
<1>6. CASE CopyRead
  BY <1>6 DEF CopyRead
<1>7. CASE CopyReadFails
  BY <1>7 DEF CopyReadFails
<1>8. CASE CopyReadEnds
  BY <1>8 DEF CopyReadEnds
<1>9. CASE CopyWritten
  BY <1>9, WrittenInv
<1>10. CASE CopyBroken
  BY <1>10 DEF CopyBroken
<1>11. CASE CopyClose
  BY <1>11 DEF CopyClose
<1>12. ASSUME NEW j \in Positions, ConsumerReads(j) PROVE Copying'
  BY <1>12 DEF ConsumerReads
<1>13. ASSUME NEW j \in Positions, ConsumerGets(j) PROVE Copying'
  BY <1>13, GetsInv
<1>14. ASSUME NEW j \in Positions, ConsumerEnds(j) PROVE Copying'
  BY <1>14 DEF ConsumerEnds
<1>15. ASSUME NEW j \in Positions, ConsumerReturns(j) PROVE Copying'
  BY <1>15 DEF ConsumerReturns
<1>16. ASSUME NEW j \in Positions, ConsumerSends(j) PROVE Copying'
  BY <1>16 DEF ConsumerSends
<1>17. ASSUME NEW j \in Positions, ConsumerCloses(j) PROVE Copying'
  BY <1>17 DEF ConsumerCloses
<1>18. CASE UNCHANGED vars
  BY <1>18 DEF vars
<1> QED
  BY <1>1, <1>2, <1>3, <1>4, <1>5, <1>6, <1>7, <1>8, <1>9, <1>10, <1>11, <1>12, <1>13, <1>14,
       <1>15, <1>16, <1>17, <1>18
     DEF Next, CallerStep, CopierStep, ConsumerStep

\* Copying ends with everything, or for a reason.
LEMMA CopiedStep == ReadAllInv /\ [Next]_vars => Copied'
<1> SUFFICES ASSUME ReadAllInv, [Next]_vars PROVE Copied'
  OBVIOUS
<1> USE ConstantsAssumption DEF ReadAllInv, Types, CopierTypes, ConsumerTypes, CallerTypes,
     Stages, Copying, Copied, Consumers, Through, Positions, pipeVars, copyVars, consumerVars,
     callerVars, AtConsumer
<1>1. CASE ReadAll
  BY <1>1 DEF ReadAll
<1>2. CASE CopyAwaited
  BY <1>2 DEF CopyAwaited
<1>3. CASE CollectError
  BY <1>3 DEF CollectError
<1>4. CASE CollectResult
  BY <1>4 DEF CollectResult
<1>5. CASE Return
  BY <1>5 DEF Return
<1>6. CASE CopyRead
  BY <1>6 DEF CopyRead
<1>7. CASE CopyReadFails
  BY <1>7 DEF CopyReadFails
<1>8. CASE CopyReadEnds
  BY <1>8 DEF CopyReadEnds
<1>9. CASE CopyWritten
  BY <1>9, WrittenInv
<1>10. CASE CopyBroken
  BY <1>10 DEF CopyBroken
<1>11. CASE CopyClose
  BY <1>11 DEF CopyClose
<1>12. ASSUME NEW j \in Positions, ConsumerReads(j) PROVE Copied'
  BY <1>12 DEF ConsumerReads
<1>13. ASSUME NEW j \in Positions, ConsumerGets(j) PROVE Copied'
  BY <1>13, GetsInv
<1>14. ASSUME NEW j \in Positions, ConsumerEnds(j) PROVE Copied'
  BY <1>14 DEF ConsumerEnds
<1>15. ASSUME NEW j \in Positions, ConsumerReturns(j) PROVE Copied'
  BY <1>15 DEF ConsumerReturns
<1>16. ASSUME NEW j \in Positions, ConsumerSends(j) PROVE Copied'
  BY <1>16 DEF ConsumerSends
<1>17. ASSUME NEW j \in Positions, ConsumerCloses(j) PROVE Copied'
  BY <1>17 DEF ConsumerCloses
<1>18. CASE UNCHANGED vars
  BY <1>18 DEF vars
<1> QED
  BY <1>1, <1>2, <1>3, <1>4, <1>5, <1>6, <1>7, <1>8, <1>9, <1>10, <1>11, <1>12, <1>13, <1>14,
       <1>15, <1>16, <1>17, <1>18
     DEF Next, CallerStep, CopierStep, ConsumerStep

\* What consumers returned is kept.
LEMMA ConsumersStep == ReadAllInv /\ [Next]_vars => Consumers'
<1> SUFFICES ASSUME ReadAllInv, [Next]_vars PROVE Consumers'
  OBVIOUS
<1> USE ConstantsAssumption DEF ReadAllInv, Types, CopierTypes, ConsumerTypes, Consumers,
     Through, pipeVars, copyVars, consumerVars, callerVars, AtConsumer
<1>1. CASE ReadAll
  BY <1>1 DEF ReadAll, Stages
<1>2. CASE CopyAwaited
  BY <1>2 DEF CopyAwaited
<1>3. CASE CollectError
  BY <1>3 DEF CollectError
<1>4. CASE CollectResult
  BY <1>4 DEF CollectResult
<1>5. CASE Return
  BY <1>5 DEF Return
<1>6. CASE CopyRead
  BY <1>6 DEF CopyRead
<1>7. CASE CopyReadFails
  BY <1>7 DEF CopyReadFails
<1>8. CASE CopyReadEnds
  BY <1>8 DEF CopyReadEnds
<1>9. CASE CopyWritten
  BY <1>9 DEF CopyWritten
<1>10. CASE CopyBroken
  BY <1>10 DEF CopyBroken
<1>11. CASE CopyClose
  BY <1>11 DEF CopyClose
<1>12. ASSUME NEW j \in Positions, ConsumerReads(j) PROVE Consumers'
  BY <1>12 DEF ConsumerReads
<1>13. ASSUME NEW j \in Positions, ConsumerGets(j) PROVE Consumers'
  BY <1>13 DEF ConsumerGets
<1>14. ASSUME NEW j \in Positions, ConsumerEnds(j) PROVE Consumers'
  BY <1>14 DEF ConsumerEnds
<1>15. ASSUME NEW j \in Positions, ConsumerReturns(j) PROVE Consumers'
  BY <1>15 DEF ConsumerReturns
<1>16. ASSUME NEW j \in Positions, ConsumerSends(j) PROVE Consumers'
  BY <1>16 DEF ConsumerSends
<1>17. ASSUME NEW j \in Positions, ConsumerCloses(j) PROVE Consumers'
  BY <1>17 DEF ConsumerCloses
<1>18. CASE UNCHANGED vars
  BY <1>18 DEF vars
<1> QED
  BY <1>1, <1>2, <1>3, <1>4, <1>5, <1>6, <1>7, <1>8, <1>9, <1>10, <1>11, <1>12, <1>13, <1>14,
       <1>15, <1>16, <1>17, <1>18
     DEF Next, CallerStep, CopierStep, ConsumerStep

-----------------------------------------------------------------------------
\* The consumers can be counted.
LEMMA CountPositions ==
  /\ IsFiniteSet(Positions) /\ Cardinality(Positions) = N
  /\ IsFiniteSet(Sent) /\ Cardinality(Sent) \in Nat /\ Cardinality(Sent) <= N
  /\ Cardinality(Sent) = N => Sent = Positions
<1>1. IsFiniteSet(Positions) /\ Cardinality(Positions) = N
  BY FS_Interval, ConstantsAssumption DEF Positions
<1>2. Sent \in SUBSET Positions
  BY DEF Sent
<1>3. /\ IsFiniteSet(Sent) /\ Cardinality(Sent) <= Cardinality(Positions)
      /\ Cardinality(Positions) = Cardinality(Sent) => Positions = Sent
  BY ONLY <1>1, <1>2, FS_Subset
<1>4. Cardinality(Sent) \in Nat
  BY <1>3, FS_CardinalityType
<1> QED
  BY <1>1, <1>3, <1>4

\* What a consumer sends is one message more in a channel.
LEMMA SendFacts ==
  ASSUME ConsumerTypes, CallerTypes, NEW j \in Positions, ConsumerSends(j)
  PROVE  /\ errs' \in Seq(Positions) /\ results' \in Seq(Messages)
         /\ Len(errs') + Len(results') = Len(errs) + Len(results) + 1
         /\ \/ outcome[j] = "error" /\ errs' = Append(errs, j) /\ results' = results
            \/ /\ outcome[j] # "error" /\ errs' = errs
               /\ results' = Append(results, [data |-> Data(j, got[j]), pos |-> j])
<1>1. errs \in Seq(Positions) /\ results \in Seq(Messages)
  BY DEF CallerTypes
<1>2. CASE outcome[j] = "error"
  <2>1. errs' = Append(errs, j) /\ results' = results
    BY <1>2 DEF ConsumerSends
  <2> QED
    BY <1>1, <1>2, <2>1
<1>3. CASE outcome[j] # "error"
  <2> DEFINE m == [data |-> Data(j, got[j]), pos |-> j]
  <2>1. m \in Messages
    BY DEF ConsumerTypes, Messages, Data
  <2>2. errs' = errs /\ results' = Append(results, m)
    BY <1>3 DEF ConsumerSends
  <2>3. Append(results, m) \in Seq(Messages) /\ Len(Append(results, m)) = Len(results) + 1
    BY <1>1, <2>1
  <2> QED
    BY <1>1, <1>3, <2>2, <2>3
<1> QED
  BY <1>2, <1>3

\* What the caller collects is one message less in a channel.
LEMMA CollectFacts ==
  ASSUME CallerTypes, CollectError \/ CollectResult
  PROVE  /\ errs' \in Seq(Positions) /\ results' \in Seq(Messages)
         /\ Len(errs') + Len(results') + 1 = Len(errs) + Len(results)
         /\ caller' \in [at : {"idle", "waiting", "collecting", "returned"}, collected : 0 .. N]
         /\ caller.at = "collecting" /\ caller'.at = "collecting"
         /\ caller'.collected = caller.collected + 1
         /\ UNCHANGED <<copyVars, pipeVars, consumerVars>>
<1>1. /\ errs \in Seq(Positions) /\ results \in Seq(Messages)
      /\ caller \in [at : {"idle", "waiting", "collecting", "returned"}, collected : 0 .. N]
  BY DEF CallerTypes
<1>2. /\ caller.at = "collecting" /\ caller.collected < N
      /\ caller' = [caller EXCEPT !.collected = @ + 1]
      /\ UNCHANGED <<copyVars, pipeVars, consumerVars>>
  BY DEF CollectError, CollectResult
<1>3. caller.collected + 1 \in 0 .. N
  BY <1>1, <1>2, ConstantsAssumption
<1>4. \/ errs # <<>> /\ errs' = Tail(errs) /\ results' = results
      \/ results # <<>> /\ results' = Tail(results) /\ errs' = errs
  BY DEF CollectError, CollectResult
<1>5. /\ errs' \in Seq(Positions) /\ results' \in Seq(Messages)
      /\ Len(errs') + Len(results') + 1 = Len(errs) + Len(results)
  <2>1. \A S, q : q \in Seq(S) /\ q # <<>> =>
          Tail(q) \in Seq(S) /\ Len(Tail(q)) + 1 = Len(q) /\ Len(q) \in Nat
    OBVIOUS
  <2>2. CASE errs # <<>> /\ errs' = Tail(errs) /\ results' = results
    <3>1. errs' \in Seq(Positions) /\ Len(errs') + 1 = Len(errs) /\ Len(errs) \in Nat
      BY <1>1, <2>1, <2>2
    <3>2. Len(errs') \in Nat /\ Len(results) \in Nat
      BY <1>1, <3>1
    <3> QED
      BY <1>1, <2>2, <3>1, <3>2
  <2>3. CASE results # <<>> /\ results' = Tail(results) /\ errs' = errs
    <3>1. results' \in Seq(Messages) /\ Len(results') + 1 = Len(results) /\ Len(results) \in Nat
      BY <1>1, <2>1, <2>3
    <3>2. Len(results') \in Nat /\ Len(errs) \in Nat
      BY <1>1, <3>1
    <3> QED
      BY <1>1, <2>3, <3>1, <3>2
  <2> QED
    BY <1>4, <2>2, <2>3
<1> QED
  BY <1>1, <1>2, <1>3, <1>5

\* Every message that was sent is in a channel or has been collected.
LEMMA CountedStep == ReadAllInv /\ [Next]_vars => CallerTypes' /\ Counted'
<1> SUFFICES ASSUME ReadAllInv, [Next]_vars PROVE CallerTypes' /\ Counted'
  OBVIOUS
<1> USE ConstantsAssumption DEF ReadAllInv, Types
<1>1. CASE ReadAll
  <2>1. Sent' = Sent
    BY <1>1 DEF ReadAll, Sent, Through, Stages
  <2> QED
    BY <1>1, <2>1 DEF ReadAll, CallerTypes, Counted, Sent
<1>2. CASE CopyAwaited \/ Return
  <2>1. Sent' = Sent /\ UNCHANGED <<errs, results, slots>> /\ lastError' \in {lastError, copyError}
        /\ \E a \in {"collecting", "returned"} : caller' = [caller EXCEPT !.at = a]
    BY <1>2 DEF CopyAwaited, Return, Sent, Through, consumerVars
  <2> QED
    BY <2>1 DEF CallerTypes, CopierTypes, Counted
<1>3. CASE CollectError \/ CollectResult
  <2>1. slots' \in [Positions -> Slots]
    <3>1. CASE CollectError
      BY <3>1 DEF CollectError, CallerTypes
    <3>2. CASE CollectResult
      <4>1. results \in Seq(Messages) /\ results # <<>>
        BY <3>2 DEF CollectResult, CallerTypes
      <4>2. Head(results) \in Messages
        BY <4>1
      <4>3. Head(results).data \in Slots
        BY <4>2 DEF Messages, Slots
      <4> QED
        BY <3>2, <4>3 DEF CollectResult, CallerTypes
    <3> QED
      BY <1>3, <3>1, <3>2
  <2>2. lastError' \in {lastError, "consumer"} /\ Sent' = Sent
    BY <1>3 DEF CollectError, CollectResult, consumerVars, callerVars, Sent, Through
  <2>3. CallerTypes'
    BY <1>3, <2>1, <2>2, CollectFacts DEF CallerTypes
  <2>4. Counted'
    <3>1. /\ Len(errs') + Len(results') + 1 = Len(errs) + Len(results)
          /\ caller'.collected = caller.collected + 1
      BY <1>3, CollectFacts
    <3>2. /\ caller.collected \in Nat /\ Len(errs) \in Nat /\ Len(results) \in Nat
          /\ Len(errs') \in Nat /\ Len(results') \in Nat
      BY <2>3 DEF CallerTypes
    <3>3. caller.collected + Len(errs) + Len(results) = Cardinality(Sent)
      BY DEF Counted
    <3> QED
      BY <2>2, <3>1, <3>2, <3>3 DEF Counted
  <2> QED
    BY <2>3, <2>4
<1>4. CASE \/ CopyRead \/ CopyReadFails \/ CopyReadEnds \/ CopyWritten \/ CopyBroken \/ CopyClose
           \/ UNCHANGED vars
  <2>1. UNCHANGED <<consumerVars, callerVars, errs, results>>
    BY <1>4 DEF CopyRead, CopyReadFails, CopyReadEnds, CopyWritten, CopyBroken, CopyClose, vars
  <2> QED
    BY <2>1 DEF consumerVars, callerVars, CallerTypes, Counted, Sent, Through
<1>5. ASSUME NEW j \in Positions,
             \/ ConsumerReads(j) \/ ConsumerGets(j) \/ ConsumerEnds(j)
             \/ ConsumerReturns(j) \/ ConsumerCloses(j)
      PROVE  CallerTypes' /\ Counted'
  <2>1. UNCHANGED <<callerVars, errs, results>>
    BY <1>5 DEF ConsumerReads, ConsumerGets, ConsumerEnds, ConsumerReturns, ConsumerCloses
  <2>2. \A i \in Positions : Through(i)' <=> Through(i)
    BY <1>5 DEF ConsumerReads, ConsumerGets, ConsumerEnds, ConsumerReturns, ConsumerCloses,
                AtConsumer, ConsumerTypes, Through
  <2>3. Sent' = Sent
    BY <2>2 DEF Sent
  <2> QED
    BY <2>1, <2>3 DEF callerVars, CallerTypes, Counted
<1>6. ASSUME NEW j \in Positions, ConsumerSends(j)
      PROVE  CallerTypes' /\ Counted'
  <2>1. UNCHANGED callerVars
    BY <1>6 DEF ConsumerSends
  <2>2. CallerTypes'
    BY <1>6, <2>1, SendFacts DEF callerVars, CallerTypes
  <2>3. j \notin Sent /\ Sent' = Sent \cup {j}
    BY <1>6 DEF ConsumerSends, AtConsumer, ConsumerTypes, Sent, Through
  <2>4. Cardinality(Sent') = Cardinality(Sent) + 1
    BY <2>3, CountPositions, FS_AddElement
  <2>5. Counted'
    <3>1. Len(errs') + Len(results') = Len(errs) + Len(results) + 1 /\ caller' = caller
      BY <1>6, <2>1, SendFacts DEF callerVars
    <3>2. /\ caller.collected \in Nat /\ Len(errs) \in Nat /\ Len(results) \in Nat
          /\ Len(errs') \in Nat /\ Len(results') \in Nat
      BY <2>2 DEF CallerTypes
    <3>3. caller.collected + Len(errs) + Len(results) = Cardinality(Sent)
      BY DEF Counted
    <3> QED
      BY <2>4, <3>1, <3>2, <3>3, CountPositions DEF Counted
  <2> QED
    BY <2>2, <2>5
<1> QED
  BY <1>1, <1>2, <1>3, <1>4, <1>5, <1>6
     DEF Next, CallerStep, CopierStep, ConsumerStep

\* An error in the channel, or one collected, is that of a consumer, and none is
\* forgotten.
LEMMA ErrorsStep == ReadAllInv /\ [Next]_vars => Errors'
<1> SUFFICES ASSUME ReadAllInv, [Next]_vars PROVE Errors'
  OBVIOUS
<1>0. /\ Errors /\ Stages /\ Consumers /\ ConsumerTypes /\ errs \in Seq(Positions)
      /\ errs' \in Seq(Positions)
  BY CountedStep DEF ReadAllInv, Types, CallerTypes
<1>1. CASE ReadAll
  BY <1>0, <1>1 DEF ReadAll, Errors, Stages, Through
<1>2. CASE CopyAwaited \/ Return
  <2>1. copyError # "consumer"
    BY DEF ReadAllInv, Types, CopierTypes
  <2>2. /\ UNCHANGED <<errs, consumer, outcome, copyError>>
        /\ \/ caller.at = "waiting" /\ lastError' = copyError
           \/ caller.at = "collecting" /\ lastError' = lastError
    BY <1>2 DEF CopyAwaited, Return, consumerVars, copyVars
  <2> QED
    BY <1>0, <2>1, <2>2 DEF Errors, Stages, Through
<1>3. CASE CollectError
  <2>1. /\ errs # <<>> /\ errs' = Tail(errs) /\ lastError' = "consumer"
        /\ UNCHANGED <<consumer, outcome, copyError>>
    BY <1>3 DEF CollectError, consumerVars, copyVars
  <2>2. 1 \in 1 .. Len(errs) /\ errs[1] \in Positions
    BY <1>0, <2>1
  <2>3. \A k \in 1 .. Len(errs') : k + 1 \in 1 .. Len(errs) /\ errs'[k] = errs[k + 1]
    BY <1>0, <2>1
  <2> QED
    BY <1>0, <2>1, <2>2, <2>3 DEF Errors, Through
<1>4. CASE CollectResult
  BY <1>0, <1>4 DEF CollectResult, Errors, Through, consumerVars, copyVars
<1>5. CASE \/ CopyRead \/ CopyReadFails \/ CopyReadEnds \/ CopyWritten \/ CopyBroken \/ CopyClose
           \/ UNCHANGED vars
  <2>1. /\ UNCHANGED <<consumer, outcome, errs, caller, lastError>>
        /\ copier.at = "done" => copyError' = copyError
    BY <1>5 DEF CopyRead, CopyReadFails, CopyReadEnds, CopyWritten, CopyBroken, CopyClose, vars,
                consumerVars, callerVars, copyVars
  <2> QED
    BY <1>0, <2>1 DEF Errors, Stages, Through
<1>6. ASSUME NEW j \in Positions,
             \/ ConsumerReads(j) \/ ConsumerGets(j) \/ ConsumerEnds(j)
             \/ ConsumerReturns(j) \/ ConsumerCloses(j)
      PROVE  Errors'
  <2>1. UNCHANGED <<errs, caller, lastError, copyError>>
    BY <1>6 DEF ConsumerReads, ConsumerGets, ConsumerEnds, ConsumerReturns, ConsumerCloses,
                callerVars, copyVars
  <2>2. \A i \in Positions : /\ Through(i)' <=> Through(i)
                             /\ Through(i) => outcome'[i] = outcome[i]
    BY <1>0, <1>6 DEF ConsumerReads, ConsumerGets, ConsumerEnds, ConsumerReturns, ConsumerCloses,
                AtConsumer, ConsumerTypes, Through
  <2>3. \A k \in 1 .. Len(errs) : errs[k] \in Positions
    BY <1>0
  <2>4. ASSUME NEW k \in 1 .. Len(errs)
        PROVE  consumer'[errs[k]] \in {"sent", "ended"} /\ outcome'[errs[k]] = "error"
    <3>1. errs[k] \in Positions /\ Through(errs[k]) /\ outcome[errs[k]] = "error"
      BY <1>0, <2>3 DEF Errors
    <3> QED
      BY <2>2, <3>1 DEF Through
  <2>5. ASSUME lastError = "consumer"
        PROVE  \E i \in Positions : Through(i)' /\ outcome'[i] = "error"
    <3>1. PICK i \in Positions : Through(i) /\ outcome[i] = "error"
      BY <1>0, <2>5 DEF Errors
    <3>2. Through(i)' /\ outcome'[i] = "error"
      BY <2>2, <3>1
    <3> QED
      BY <3>2
  <2>6. ASSUME lastError # "consumer", errs = <<>>, NEW i \in Positions, Through(i)'
        PROVE  outcome'[i] # "error"
    <3>1. Through(i) /\ outcome'[i] = outcome[i]
      BY <2>2, <2>6
    <3> QED
      BY <1>0, <2>6, <3>1 DEF Errors
  <2> QED
    BY <1>0, <2>1, <2>4, <2>5, <2>6 DEF Errors, Through
<1>7. ASSUME NEW j \in Positions, ConsumerSends(j) PROVE Errors'
  <2>1. UNCHANGED <<caller, lastError, copyError, outcome>>
    BY <1>7 DEF ConsumerSends, callerVars, copyVars
  <2>2. /\ \A i \in Positions : Through(i)' <=> Through(i) \/ i = j
        /\ outcome[j] # "none"
    BY <1>0, <1>7 DEF ConsumerSends, AtConsumer, ConsumerTypes, Consumers, Through
  <2>3. \A k \in 1 .. Len(errs) : errs[k] \in Positions
    BY <1>0
  <2>4. CASE outcome[j] = "error"
    <3>1. errs' = Append(errs, j)
      BY <1>7, <2>4 DEF ConsumerSends
    <3>2. /\ errs' # <<>>
          /\ \A k \in 1 .. Len(errs') :
               (k \in 1 .. Len(errs) /\ errs'[k] = errs[k]) \/ errs'[k] = j
      BY <1>0, <3>1
    <3> QED
      BY <1>0, <2>1, <2>2, <2>3, <2>4, <3>2 DEF Errors
  <2>5. CASE outcome[j] # "error"
    <3>1. errs' = errs
      BY <1>7, <2>5 DEF ConsumerSends
    <3> QED
      BY <1>0, <2>1, <2>2, <2>3, <2>5, <3>1 DEF Errors
  <2> QED
    BY <2>4, <2>5
<1> QED
  BY <1>1, <1>2, <1>3, <1>4, <1>5, <1>6, <1>7
     DEF Next, CallerStep, CopierStep, ConsumerStep

\* A result is in the channel or in the slot of its consumer.
LEMMA ResultsStep == ReadAllInv /\ [Next]_vars => Results'
<1> SUFFICES ASSUME ReadAllInv, [Next]_vars PROVE Results'
  OBVIOUS
<1>0. /\ Results /\ Stages /\ Consumers /\ ConsumerTypes /\ slots \in [Positions -> Slots]
      /\ results \in Seq(Messages) /\ results' \in Seq(Messages)
  BY CountedStep DEF ReadAllInv, Types, CallerTypes
<1>a. \A k \in 1 .. Len(results) : results[k].pos \in Positions
  <2>1. \A k \in 1 .. Len(results) : results[k] \in Messages
    BY <1>0
  <2> QED
    BY <2>1 DEF Messages
<1>1. CASE ReadAll
  BY <1>0, <1>a, <1>1 DEF ReadAll, Results, Stages, Through
<1>2. CASE \/ CopyAwaited \/ Return \/ CollectError
           \/ CopyRead \/ CopyReadFails \/ CopyReadEnds \/ CopyWritten \/ CopyBroken \/ CopyClose
           \/ UNCHANGED vars
  <2>1. UNCHANGED <<consumer, outcome, got, results, slots>>
    BY <1>2 DEF CopyAwaited, Return, CollectError, CopyRead, CopyReadFails, CopyReadEnds,
                CopyWritten, CopyBroken, CopyClose, vars, consumerVars, callerVars
  <2> QED
    BY <1>0, <2>1 DEF Results, Through
<1>3. CASE CollectResult
  <2> DEFINE m == results[1]
  <2>1. /\ results # <<>> /\ results' = Tail(results)
        /\ slots' = [slots EXCEPT ![Head(results).pos] = Head(results).data]
        /\ UNCHANGED <<consumer, outcome, got>>
    BY <1>3 DEF CollectResult, consumerVars
  <2>2. Head(results) = m /\ 1 \in 1 .. Len(results)
    BY <1>0, <2>1
  <2>3. /\ \A k \in 1 .. Len(results') :
             k + 1 \in 1 .. Len(results) /\ results'[k] = results[k + 1]
        /\ \A k \in 1 .. Len(results) :
             k = 1 \/ (k - 1 \in 1 .. Len(results') /\ results'[k - 1] = results[k])
    BY <1>0, <2>1
  <2>4. m.pos \in Positions /\ m.data = Data(m.pos, got[m.pos])
    BY <1>0, <1>a, <2>2 DEF Results
  <2> HIDE DEF m
  <2>5. /\ slots'[m.pos] = Data(m.pos, got[m.pos])
        /\ \A i \in Positions : i # m.pos => slots'[i] = slots[i]
    BY <1>0, <2>1, <2>2, <2>4
  <2>6. \A k \in 1 .. Len(results') :
          /\ consumer'[results'[k].pos] \in {"sent", "ended"} /\ outcome'[results'[k].pos] = "data"
          /\ results'[k].data = Data(results'[k].pos, got'[results'[k].pos])
    BY <1>0, <2>1, <2>3 DEF Results, Through
  <2>7. ASSUME NEW i \in Positions, Through(i)', outcome'[i] = "data"
        PROVE  slots'[i] = Data(i, got'[i]) \/ \E k \in 1 .. Len(results') : results'[k].pos = i
    <3>1. CASE i = m.pos
      BY <2>1, <2>5, <3>1
    <3>2. CASE i # m.pos
      <4>1. slots[i] = Data(i, got[i]) \/ \E k \in 1 .. Len(results) : results[k].pos = i
        BY <1>0, <2>1, <2>7 DEF Results, Through
      <4>2. CASE \E k \in 1 .. Len(results) : results[k].pos = i
        <5>1. PICK k \in 1 .. Len(results) : results[k].pos = i
          BY <4>2
        <5>2. k # 1
          BY <3>2, <5>1 DEF m
        <5>3. k - 1 \in 1 .. Len(results') /\ results'[k - 1].pos = i
          BY <2>3, <5>1, <5>2
        <5> QED
          BY <5>3
      <4> QED
        BY <2>1, <2>5, <3>2, <4>1, <4>2
    <3> QED
      BY <3>1, <3>2
  <2> QED
    BY <2>6, <2>7 DEF Results, Through
<1>4. ASSUME NEW j \in Positions,
             \/ ConsumerReads(j) \/ ConsumerGets(j) \/ ConsumerEnds(j)
             \/ ConsumerReturns(j) \/ ConsumerCloses(j)
      PROVE  Results'
  <2>1. UNCHANGED <<results, slots>>
    BY <1>4 DEF ConsumerReads, ConsumerGets, ConsumerEnds, ConsumerReturns, ConsumerCloses,
                callerVars
  <2>2. \A i \in Positions : /\ Through(i)' <=> Through(i)
                             /\ Through(i) => outcome'[i] = outcome[i] /\ got'[i] = got[i]
    BY <1>0, <1>4 DEF ConsumerReads, ConsumerGets, ConsumerEnds, ConsumerReturns, ConsumerCloses,
                AtConsumer, ConsumerTypes, Through
  <2>3. \A k \in 1 .. Len(results') :
          /\ Through(results[k].pos)' /\ outcome'[results'[k].pos] = "data"
          /\ results'[k].data = Data(results'[k].pos, got'[results'[k].pos])
    BY <1>0, <1>a, <2>1, <2>2 DEF Results, Through
  <2>4. \A i \in Positions : Through(i)' /\ outcome'[i] = "data" =>
          slots'[i] = Data(i, got'[i]) \/ \E k \in 1 .. Len(results') : results'[k].pos = i
    BY <1>0, <2>1, <2>2 DEF Results, Through
  <2> QED
    BY <2>3, <2>4 DEF Results
<1>5. ASSUME NEW j \in Positions, ConsumerSends(j) PROVE Results'
  <2>1. UNCHANGED <<slots, got, outcome>>
    BY <1>5 DEF ConsumerSends, callerVars
  <2>2. /\ \A i \in Positions : Through(i)' <=> Through(i) \/ i = j
        /\ outcome[j] \in {"data", "error"}
    BY <1>0, <1>5 DEF ConsumerSends, AtConsumer, ConsumerTypes, Consumers, Through
  <2>3. CASE outcome[j] = "error"
    <3>1. results' = results
      BY <1>5, <2>3 DEF ConsumerSends
    <3> QED
      BY <1>0, <1>a, <2>1, <2>2, <2>3, <3>1 DEF Results
  <2>4. CASE outcome[j] = "data"
    <3> DEFINE m == [data |-> Data(j, got[j]), pos |-> j]
    <3>1. results' = Append(results, m)
      BY <1>5, <2>4 DEF ConsumerSends
    <3>2. m.pos = j /\ m.data = Data(j, got[j])
      OBVIOUS
    <3> HIDE DEF m
    <3>3. /\ \A k \in 1 .. Len(results') :
               (k \in 1 .. Len(results) /\ results'[k] = results[k]) \/ results'[k] = m
          /\ \A k \in 1 .. Len(results) : k \in 1 .. Len(results') /\ results'[k] = results[k]
          /\ Len(results') \in 1 .. Len(results') /\ results'[Len(results')] = m
      BY <1>0, <3>1
    <3>4. \A k \in 1 .. Len(results') :
            /\ consumer'[results'[k].pos] \in {"sent", "ended"}
            /\ outcome'[results'[k].pos] = "data"
            /\ results'[k].data = Data(results'[k].pos, got'[results'[k].pos])
      <4>1. ASSUME NEW k \in 1 .. Len(results'), k \in 1 .. Len(results), results'[k] = results[k]
            PROVE  /\ consumer'[results'[k].pos] \in {"sent", "ended"}
                   /\ outcome'[results'[k].pos] = "data"
                   /\ results'[k].data = Data(results'[k].pos, got'[results'[k].pos])
        BY <1>0, <1>a, <2>1, <2>2, <4>1 DEF Results, Through
      <4>2. ASSUME NEW k \in 1 .. Len(results'), results'[k] = m
            PROVE  /\ consumer'[results'[k].pos] \in {"sent", "ended"}
                   /\ outcome'[results'[k].pos] = "data"
                   /\ results'[k].data = Data(results'[k].pos, got'[results'[k].pos])
        BY <2>1, <2>2, <2>4, <3>2, <4>2 DEF Through
      <4> QED
        BY <3>3, <4>1, <4>2
    <3>5. \A i \in Positions : Through(i)' /\ outcome'[i] = "data" =>
            slots'[i] = Data(i, got'[i]) \/ \E k \in 1 .. Len(results') : results'[k].pos = i
      BY <1>0, <2>1, <2>2, <3>2, <3>3 DEF Results
    <3> QED
      BY <3>4, <3>5 DEF Results, Through
  <2> QED
    BY <2>2, <2>3, <2>4
<1> QED
  BY <1>1, <1>2, <1>3, <1>4, <1>5
     DEF Next, CallerStep, CopierStep, ConsumerStep

-----------------------------------------------------------------------------
\* The invariant holds at the beginning.
LEMMA ReadAllInvInit == Init => ReadAllInv
<1> SUFFICES ASSUME Init PROVE ReadAllInv
  OBVIOUS
<1> USE ConstantsAssumption
<1>1. 0 \in Positions /\ NoData \in Slots
  BY DEF Positions, Slots
<1>2. Types
  BY <1>1 DEF Init, Types, CopierTypes, ConsumerTypes, CallerTypes
<1>3. Stages /\ Copying /\ Copied /\ Consumers
  BY DEF Init, Stages, Copying, Copied, Consumers, Through
<1>4. Sent = {}
  BY DEF Init, Sent, Through
<1>5. Counted
  BY <1>4, FS_EmptySet DEF Init, Counted
<1>6. Errors /\ Results
  BY DEF Init, Errors, Results, Through
<1> QED
  BY <1>2, <1>3, <1>5, <1>6 DEF ReadAllInv

\* It holds always.
LEMMA ReadAllInvariant == Spec => []ReadAllInv
<1>1. ReadAllInv /\ [Next]_vars => ReadAllInv'
  BY CopierTypesStep, ConsumerTypesStep, StagesStep, CopyingStep, CopiedStep,
     ConsumersStep, CountedStep, ErrorsStep, ResultsStep DEF ReadAllInv, Types
<1> QED
  BY <1>1, ReadAllInvInit, PTL DEF Spec

\* When the caller has collected N messages, every consumer has sent one and the
\* channels are empty.
LEMMA AllCollected ==
  ReadAllInv /\ caller.at = "returned" =>
    errs = <<>> /\ results = <<>> /\ \A i \in Positions : Through(i)
<1> SUFFICES ASSUME ReadAllInv, caller.at = "returned"
    PROVE  errs = <<>> /\ results = <<>> /\ \A i \in Positions : Through(i)
  OBVIOUS
<1>1. /\ errs \in Seq(Positions) /\ results \in Seq(Messages)
      /\ caller.collected = N
      /\ caller.collected + Len(errs) + Len(results) = Cardinality(Sent)
  BY DEF ReadAllInv, Types, CallerTypes, Stages, Counted
<1>2. Len(errs) \in Nat /\ Len(results) \in Nat
  BY <1>1
<1>3. Len(errs) = 0 /\ Len(results) = 0 /\ Cardinality(Sent) = N
  BY <1>1, <1>2, CountPositions, ConstantsAssumption
<1>4. Sent = Positions
  BY <1>3, CountPositions
<1> QED
  BY <1>1, <1>3, <1>4 DEF Sent

\* The invariant implies what ReadAll promises.
LEMMA ReadAllPromises == ReadAllInv => SuccessMeansAll /\ ResultsInPlace /\ NoSendAfterClose
<1> SUFFICES ASSUME ReadAllInv, caller.at = "returned"
    PROVE  SuccessMeansAll /\ ResultsInPlace /\ NoSendAfterClose
  BY DEF SuccessMeansAll, ResultsInPlace, NoSendAfterClose, Succeeded, Failed
<1>1. errs = <<>> /\ results = <<>> /\ \A i \in Positions : Through(i)
  BY AllCollected
<1>2. NoSendAfterClose
  BY <1>1 DEF NoSendAfterClose, Through
<1>3. copier.at = "done" /\ Errors /\ Results /\ Copied /\ Copying /\ Types /\ Consumers
  BY DEF ReadAllInv, Stages
<1>4. lastError # "consumer" => lastError = copyError
  BY <1>3 DEF Errors
<1>5. ASSUME lastError = "none"
      PROVE  \A i \in Positions :
               outcome[i] = "data" /\ got[i] = Units /\ slots[i] = Data(i, got[i])
  <2>1. \A i \in Positions : outcome[i] = "data"
    BY <1>1, <1>3, <1>5 DEF Errors, Consumers, Types, ConsumerTypes
  <2>2. \A i \in Positions : got[i] = Units
    BY <1>3, <1>4, <1>5 DEF Copied
  <2>3. \A i \in Positions : slots[i] = Data(i, got[i])
    BY <1>1, <1>3, <2>1 DEF Results
  <2> QED
    BY <2>1, <2>2, <2>3
<1>6. ASSUME lastError # "none", copyError # "source"
      PROVE  \E i \in Positions : outcome[i] = "error" \/ got[i] < Units
  <2>1. CASE lastError = "consumer"
    BY <1>3, <2>1 DEF Errors
  <2>2. CASE lastError # "consumer"
    <3>1. copyError = "pipe"
      BY <1>3, <1>4, <1>6, <2>2 DEF Types, CopierTypes
    <3>2. PICK i \in Positions : pending[i] > 0
      BY <1>3, <3>1 DEF Copied
    <3>3. /\ got[i] + pending[i] <= taken /\ taken \in 0 .. Units
          /\ got[i] \in 0 .. Units /\ pending[i] \in 0 .. Units
      BY <1>3 DEF Copying, Types, CopierTypes, ConsumerTypes
    <3>4. got[i] < Units
      BY <3>2, <3>3, ConstantsAssumption
    <3> QED
      BY <3>4
  <2> QED
    BY <2>1, <2>2
<1> QED
  BY <1>2, <1>5, <1>6 DEF SuccessMeansAll, ResultsInPlace, Succeeded, Failed

(* For any number of consumers, however they read, stop or fail: ReadAll   *)
(* returns without an error only when all of them have read the whole      *)
(* source and none has failed, and never fails without a reason.           *)
THEOREM ReadAllHonest == Spec => []SuccessMeansAll
BY ReadAllInvariant, ReadAllPromises, PTL

(* Its results are in the order of the consumers, in whatever order they   *)
(* were collected.                                                         *)
THEOREM ResultsOrdered == Spec => []ResultsInPlace
BY ReadAllInvariant, ReadAllPromises, PTL

(* And when it closes errs and results nobody is still to send on them.    *)
THEOREM ChannelsClosedLast == Spec => []NoSendAfterClose
BY ReadAllInvariant, ReadAllPromises, PTL

\* Units are taken from the source only when every consumer has all before them,
\* so a consumer that is gone without them stops the copying.
LEMMA TakenTogether == ReadAllInv /\ [Next]_vars =>
  [(\E i \in Positions : readerClosed[i] /\ got[i] < taken) => taken' = taken]_vars
<1> SUFFICES ASSUME ReadAllInv, Next, NEW i \in Positions, got[i] < taken
             PROVE  taken' = taken
  BY DEF vars
<1>1. taken \in Nat
  BY ConstantsAssumption DEF ReadAllInv, Types, CopierTypes
<1>2. copier.at # "reading"
  BY <1>1 DEF ReadAllInv, Copying
<1>3. ReadAll \/ CallerStep \/ (\E j \in Positions : ConsumerStep(j)) => taken' = taken
  BY DEF ReadAll, CallerStep, CopyAwaited, CollectError, CollectResult, Return, copyVars,
         ConsumerStep, ConsumerReads, ConsumerGets, ConsumerEnds, ConsumerReturns,
         ConsumerSends, ConsumerCloses
<1>4. CopierStep => taken' = taken
  BY <1>2 DEF CopierStep, CopyRead, CopyReadFails, CopyReadEnds, CopyWritten, CopyBroken, CopyClose
<1> QED
  BY <1>3, <1>4 DEF Next

(* However many consumers there are and wherever one of them stops: nothing *)
(* more is read from the source once it is gone without all that was taken. *)
THEOREM SourceStops == Spec => StopsTogether
BY ReadAllInvariant, TakenTogether, PTL DEF Spec, StopsTogether
=============================================================================
