---------------------------- MODULE StreamsProofs ----------------------------
(***************************************************************************)
(* Proofs about FileStream, CmdOutput, TempDirs and Logger, for any files  *)
(* and writers, any numbers of lines, directories and goroutines, and the  *)
(* types of all that MCStreams puts side by side.                          *)
(***************************************************************************)
EXTENDS MCStreams, FiniteSetTheorems, SequenceTheorems, TLAPS

-----------------------------------------------------------------------------
(* Multipart streams.                                                       *)

Items == {"begin", "chunk", "boundary"} \X Parts

SendTypes ==
  /\ sendAt \in {"idle", "open", "copy", "error", "text", "close", "returned"}
  /\ size \in [FileNums -> 0 .. MaxChunks] /\ file \in 1 .. (NumFiles + 1)
  /\ sent \in 0 .. MaxChunks /\ sendErr \in BOOLEAN /\ cut \in BOOLEAN
  /\ wire \in Seq(Items) /\ Len(wire) <= Capacity
  /\ sendAt = "copy" => file <= NumFiles /\ sent <= size[file]

RecvTypes ==
  /\ recvAt \in {"idle", "next", "copy", "write", "close", "returned"}
  /\ refuses \in BOOLEAN /\ part \in Parts
  /\ partErr \in BOOLEAN /\ recvErr \in BOOLEAN
  /\ got \in [Parts -> [Writers -> Nat]]

\* Writers are at work only while a chunk is written, Limit of them at most.
AtWork ==
  /\ waiting \subseteq Writers /\ active \subseteq Writers /\ active \cap waiting = {}
  /\ Cardinality(active) <= Limit
  /\ recvAt # "write" => waiting = {} /\ active = {}
  /\ recvAt \in {"idle", "next", "copy"} => ~partErr

\* Every writer has the same chunks of a part, but for the chunk being written.
Behind(w)  == w \in waiting \cup active
Even(p)    == \A w, v \in Writers : got[p][w] = got[p][v]
Together ==
  /\ recvAt # "returned" => \A p \in Parts \ {part} : Even(p)
  /\ recvAt \in {"idle", "next", "copy", "close"} /\ ~partErr => Even(part)
  /\ recvAt = "write" /\ ~partErr =>
       \E n \in Nat : \A w \in Writers : got[part][w] = IF Behind(w) THEN n ELSE n + 1

\* A transfer begins with nothing sent and nothing received.
Fresh ==
  sendAt = "idle" =>
    /\ recvAt = "idle" /\ file = 1 /\ ~sendErr /\ wire = <<>> /\ ~cut /\ part = ErrorPart
    /\ \A p \in Parts, w \in Writers : got[p][w] = 0

\* Labels for the items on the wire: <<f, i>> for what begins file f (i = 0) or is
\* its chunk i, Done for the final boundary, Bad from the error part on.
Size(sz, f) == IF f \in FileNums THEN sz[f] ELSE 0
Labels      == (0 .. (NumFiles + 2)) \X (0 .. MaxChunks)
Done        == <<NumFiles + 1, 0>>
Bad         == <<NumFiles + 2, 0>>

\* The item that has label b after one that has label a, for files of sizes sz.
NextChunk(sz, a, item, b) ==
  a[2] < Size(sz, a[1]) /\ item = Chunk(a[1]) /\ b = <<a[1], a[2] + 1>>
NextBegin(sz, a, item, b) ==
  /\ a[2] = Size(sz, a[1]) /\ b = <<a[1] + 1, 0>>
  /\ item = IF a[1] = NumFiles THEN Boundary ELSE Begin(a[1] + 1)
After(sz, a, item, b) ==
  \/ /\ a[1] <= NumFiles
     /\ \/ NextChunk(sz, a, item, b)
        \/ NextBegin(sz, a, item, b)
        \/ item = Begin(ErrorPart) /\ b = Bad
  \/ a = Bad /\ b = Bad

\* The items of s can be labelled, when a is the label of the item before the first
\* and b that of the last.
Path(sz, s, a, b) == \E lab \in [0 .. Len(s) -> Labels] :
  /\ lab[0] = a /\ lab[Len(s)] = b
  /\ \A k \in 1 .. Len(s) : After(sz, lab[k - 1], s[k], lab[k])

\* Where the sender is after an item with label a.
SenderAfter(a) ==
  /\ sendAt # "idle"
  /\ sendAt = "open"     => ~sendErr /\ a = <<file - 1, Size(size, file - 1)>>
  /\ sendAt = "copy"     => ~sendErr /\ a = <<file, sent>>
  /\ sendAt = "error"    => sendErr /\ a[1] <= NumFiles
  /\ sendAt = "text"     => sendErr /\ a = Bad
  /\ sendAt = "close"    => a = IF sendErr THEN Bad ELSE <<NumFiles, Size(size, NumFiles)>>
  /\ sendAt = "returned" => a = IF sendErr THEN Bad ELSE Done

\* What the writers have when the last item read had label a.
WritersAfter(a) ==
  /\ a[1] = part /\ part <= NumFiles
  /\ \A w \in Writers : got[part][w] = IF Behind(w) THEN a[2] - 1 ELSE a[2]
  /\ \A f \in FileNums : f < part => Whole(f)
  /\ \A f \in FileNums, w \in Writers : f > part => got[f][w] = 0

\* The receiver has met no error yet, and the connection holds.
Sound == /\ refuses /\ ~cut /\ ~partErr /\ recvAt \in {"next", "copy", "write", "close"}

InOrder == Sound =>
  /\ \E a, b \in Labels : Path(size, wire, a, b) /\ WritersAfter(a) /\ SenderAfter(b)
  /\ recvAt \in {"next", "close"} =>
       IF wire = <<>> THEN part = ErrorPart ELSE Head(wire) # Chunk(part)

SuccessKept ==
  recvAt = "returned" /\ ~recvErr /\ refuses /\ ~cut =>
    sendAt = "returned" /\ ~sendErr /\ \A f \in FileNums : Whole(f)

StreamInv ==
  /\ SendTypes /\ RecvTypes /\ AtWork /\ Together
  /\ Fresh /\ InOrder /\ SuccessKept

-----------------------------------------------------------------------------
Sizes == [FileNums -> 0 .. MaxChunks]

\* A size is one, also that of the part without a name.
LEMMA SizeType == ASSUME NEW sz \in Sizes, NEW f PROVE Size(sz, f) \in 0 .. MaxChunks
BY StreamAssumption DEF Sizes, Size

\* No item: the labels are one.
LEMMA PathEmpty ==
  ASSUME NEW sz, NEW a \in Labels
  PROVE  /\ Path(sz, <<>>, a, a)
         /\ \A b \in Labels : Path(sz, <<>>, a, b) => a = b
<1>1. Path(sz, <<>>, a, a)
  <2> DEFINE lab == [k \in 0 .. 0 |-> a]
  <2>1. Len(<<>>) = 0 /\ 1 .. 0 = {} /\ lab \in [0 .. 0 -> Labels] /\ lab[0] = a
    OBVIOUS
  <2> HIDE DEF lab
  <2> QED
    BY <2>1 DEF Path
<1>2. ASSUME NEW b \in Labels, Path(sz, <<>>, a, b) PROVE a = b
  BY <1>2 DEF Path
<1> QED
  BY <1>1, <1>2

\* One item more at the end.
LEMMA PathAppend ==
  ASSUME NEW sz, NEW s \in Seq(Items), NEW a \in Labels, NEW b \in Labels, NEW c \in Labels,
         NEW item \in Items, Path(sz, s, a, b), After(sz, b, item, c)
  PROVE  Path(sz, Append(s, item), a, c)
<1>1. PICK lab \in [0 .. Len(s) -> Labels] :
        /\ lab[0] = a /\ lab[Len(s)] = b
        /\ \A k \in 1 .. Len(s) : After(sz, lab[k - 1], s[k], lab[k])
  BY DEF Path
<1> DEFINE t == Append(s, item)
           new == [k \in 0 .. Len(t) |-> IF k = Len(t) THEN c ELSE lab[k]]
<1>2. /\ Len(s) \in Nat /\ Len(t) = Len(s) + 1 /\ t[Len(t)] = item
      /\ \A k \in 1 .. Len(s) : t[k] = s[k]
  OBVIOUS
<1> HIDE DEF t
<1>3. /\ \A k \in 0 .. Len(s) : new[k] = lab[k]
      /\ new[Len(t)] = c
  BY <1>2
<1>4. new \in [0 .. Len(t) -> Labels]
  BY <1>1, <1>2
<1> HIDE DEF new
<1>5. ASSUME NEW k \in 1 .. Len(t) PROVE After(sz, new[k - 1], t[k], new[k])
  <2>1. CASE k = Len(t)
    BY <1>1, <1>2, <1>3, <2>1
  <2>2. CASE k # Len(t)
    <3>1. k \in 1 .. Len(s) /\ k \in 0 .. Len(s) /\ k - 1 \in 0 .. Len(s)
      BY <1>2, <2>2
    <3> QED
      BY <1>1, <1>2, <1>3, <3>1
  <2> QED
    BY <2>1, <2>2
<1>6. new[0] = a /\ new[Len(t)] = c
  BY <1>1, <1>2, <1>3
<1> QED
  BY <1>4, <1>5, <1>6 DEF Path, t

\* The first item.
LEMMA PathTail ==
  ASSUME NEW sz, NEW s \in Seq(Items), s # <<>>, NEW a \in Labels, NEW b \in Labels,
         Path(sz, s, a, b)
  PROVE  \E c \in Labels : After(sz, a, Head(s), c) /\ Path(sz, Tail(s), c, b)
<1>1. PICK lab \in [0 .. Len(s) -> Labels] :
        /\ lab[0] = a /\ lab[Len(s)] = b
        /\ \A k \in 1 .. Len(s) : After(sz, lab[k - 1], s[k], lab[k])
  BY DEF Path
<1> DEFINE t == Tail(s)
           new == [k \in 0 .. Len(t) |-> lab[k + 1]]
<1>2. /\ Len(s) \in Nat /\ Len(t) \in Nat /\ Len(s) = Len(t) + 1 /\ Head(s) = s[1]
      /\ \A k \in 1 .. Len(t) : t[k] = s[k + 1]
  OBVIOUS
<1> HIDE DEF t
<1>3. new \in [0 .. Len(t) -> Labels] /\ \A k \in 0 .. Len(t) : new[k] = lab[k + 1]
  BY <1>1, <1>2
<1> HIDE DEF new
<1>4. ASSUME NEW k \in 1 .. Len(t) PROVE After(sz, new[k - 1], t[k], new[k])
  <2>1. k + 1 \in 1 .. Len(s) /\ k \in 0 .. Len(t) /\ k - 1 \in 0 .. Len(t)
        /\ (k + 1) - 1 = k /\ (k - 1) + 1 = k
    BY <1>2
  <2>2. After(sz, lab[k], s[k + 1], lab[k + 1])
    BY <1>1, <2>1
  <2>3. new[k - 1] = lab[k] /\ new[k] = lab[k + 1] /\ t[k] = s[k + 1]
    BY <1>2, <1>3, <2>1
  <2> QED
    BY <2>2, <2>3
<1>5. After(sz, a, s[1], lab[1]) /\ lab[1] \in Labels
  <2>1. 1 \in 1 .. Len(s) /\ 1 \in 0 .. Len(s) /\ 1 - 1 = 0
    BY <1>2
  <2> QED
    BY <1>1, <2>1
<1>6. new[0] = lab[1] /\ new[Len(t)] = b
  BY <1>1, <1>2, <1>3
<1>7. Path(sz, t, lab[1], b)
  BY <1>3, <1>4, <1>6 DEF Path
<1> QED
  BY <1>2, <1>5, <1>7 DEF t

\* Nothing comes after the final boundary.
LEMMA PathDone ==
  ASSUME NEW sz, NEW s \in Seq(Items), NEW b \in Labels, Path(sz, s, Done, b)
  PROVE  b = Done
<1>1. Done \in Labels /\ Done # Bad /\ ~(Done[1] <= NumFiles)
  BY StreamAssumption DEF Done, Bad, Labels
<1>2. s = <<>>
  <2>1. SUFFICES ASSUME s # <<>> PROVE FALSE
    OBVIOUS
  <2>2. PICK c \in Labels : After(sz, Done, Head(s), c)
    BY <1>1, <2>1, PathTail
  <2> QED
    BY <1>1, <2>2 DEF After
<1> QED
  BY <1>1, <1>2, PathEmpty

-----------------------------------------------------------------------------
\* What is sent is an item.
LEMMA ItemTypes ==
  /\ Boundary \in Items /\ 0 \in Parts /\ Begin(ErrorPart) \in Items /\ Chunk(ErrorPart) \in Items
  /\ \A f \in FileNums : f \in Parts /\ Begin(f) \in Items /\ Chunk(f) \in Items
BY DEF Items, Parts, FileNums, ErrorPart, Boundary, Begin, Chunk

\* Putting an item on the wire keeps its type and its length.
LEMMA PutsFacts ==
  ASSUME SendTypes, NEW item \in Items, Puts(item)
  PROVE  wire' = Append(wire, item) /\ wire' \in Seq(Items) /\ Len(wire') <= Capacity
<1>1. wire \in Seq(Items) /\ Len(wire) < Capacity /\ wire' = Append(wire, item)
  BY DEF SendTypes, Puts
<1>2. Append(wire, item) \in Seq(Items) /\ Len(Append(wire, item)) = Len(wire) + 1
  BY <1>1
<1>3. Len(wire) \in Nat
  BY <1>1
<1> QED
  BY <1>1, <1>2, <1>3, StreamAssumption

\* So does taking one.
LEMMA TakesFacts ==
  ASSUME SendTypes, wire # <<>>, Takes
  PROVE  /\ wire' \in Seq(Items) /\ Len(wire') <= Capacity
         /\ Head(wire) \in Items /\ Head(wire)[2] \in Parts
<1>1. wire \in Seq(Items) /\ Len(wire) <= Capacity /\ wire' = Tail(wire)
  BY DEF SendTypes, Takes
<1>2. Tail(wire) \in Seq(Items) /\ Len(Tail(wire)) = Len(wire) - 1 /\ Head(wire) \in Items
  BY <1>1
<1>3. Len(wire) \in Nat
  BY <1>1
<1>4. Head(wire)[2] \in Parts
  BY <1>2 DEF Items
<1> QED
  BY <1>1, <1>2, <1>3, <1>4, StreamAssumption

\* The sender touches nothing of the receiver's.
LEMMA SendKeeps ==
  ASSUME SendStep \/ FileFails
  PROVE  UNCHANGED <<recvAt, refuses, part, waiting, active, got, partErr, recvErr, size, cut>>
BY DEF SendStep, OpenFile, CopyChunk, FileSent, FileFails, FileFailsGoingTo, WriteErrHeader,
       WriteErrText, WriteErrFails, FilesSent, CloseSender, CloseSenderFails, Sender, recvVars

\* The variables of the sender and the wire keep their types.
LEMMA SendTypesStep == StreamInv /\ [StreamNext]_streamVars => SendTypes'
<1> SUFFICES ASSUME StreamInv, [StreamNext]_streamVars PROVE SendTypes'
  OBVIOUS
<1> USE StreamAssumption DEF StreamInv, SendTypes, sendVars, recvVars
<1>1. CASE OpenFile
  <2>1. Puts(Begin(file)) /\ Begin(file) \in Items
    BY <1>1, ItemTypes DEF OpenFile, FileNums
  <2>2. wire' \in Seq(Items) /\ Len(wire') <= Capacity
    BY <2>1, PutsFacts
  <2> QED
    BY <1>1, <2>2 DEF OpenFile, Sender, FileNums
<1>2. CASE CopyChunk
  <2>1. Puts(Chunk(file)) /\ Chunk(file) \in Items
    BY <1>2, ItemTypes DEF CopyChunk, FileNums
  <2>2. wire' \in Seq(Items) /\ Len(wire') <= Capacity
    BY <2>1, PutsFacts
  <2> QED
    BY <1>2, <2>2 DEF CopyChunk, Sender, FileNums
<1>3. CASE FileSent
  BY <1>3 DEF FileSent, Sender
<1>4. CASE FileFails
  BY <1>4 DEF FileFails, FileFailsGoingTo, Sender
<1>5. CASE WriteErrHeader
  <2>1. Puts(Begin(ErrorPart)) /\ Begin(ErrorPart) \in Items
    BY <1>5, ItemTypes DEF WriteErrHeader, FileNums
  <2>2. wire' \in Seq(Items) /\ Len(wire') <= Capacity
    BY <2>1, PutsFacts
  <2> QED
    BY <1>5, <2>2 DEF WriteErrHeader, Sender, FileNums
<1>6. CASE WriteErrText
  <2>1. Puts(Chunk(ErrorPart)) /\ Chunk(ErrorPart) \in Items
    BY <1>6, ItemTypes DEF WriteErrText, FileNums
  <2>2. wire' \in Seq(Items) /\ Len(wire') <= Capacity
    BY <2>1, PutsFacts
  <2> QED
    BY <1>6, <2>2 DEF WriteErrText, Sender, FileNums
<1>7. CASE WriteErrFails
  BY <1>7 DEF WriteErrFails, Sender
<1>8. CASE FilesSent
  BY <1>8 DEF FilesSent, Sender
<1>9. CASE CloseSender
  <2>1. Puts(Boundary) /\ Boundary \in Items
    BY <1>9, ItemTypes DEF CloseSender, FileNums
  <2>2. wire' \in Seq(Items) /\ Len(wire') <= Capacity
    BY <2>1, PutsFacts
  <2> QED
    BY <1>9, <2>2 DEF CloseSender, Sender, FileNums
<1>10. CASE CloseSenderFails
  BY <1>10 DEF CloseSenderFails, Sender
<1>11. CASE Transfer
  BY <1>11 DEF Transfer
<1>12. CASE ReaderCloses
  BY <1>12 DEF ReaderCloses
<1>13. CASE ConnectionBreaks
  BY <1>13 DEF ConnectionBreaks
<1>14. CASE TransferEnds
  <2>1. wire' = <<>> /\ <<>> \in Seq(Items) /\ Len(<<>>) = 0
    BY <1>14 DEF TransferEnds
  <2>2. /\ sendAt' = "idle" /\ size' = [f \in FileNums |-> 0] /\ file' = 1 /\ sent' = 0
        /\ sendErr' = FALSE /\ cut' = FALSE
    BY <1>14 DEF TransferEnds
  <2>3. 1 \in 1 .. (NumFiles + 1) /\ 0 \in 0 .. MaxChunks /\ 0 <= Capacity
    OBVIOUS
  <2>4. size' \in [FileNums -> 0 .. MaxChunks]
    BY <2>2, <2>3
  <2> QED
    BY <2>1, <2>2, <2>3, <2>4
<1>15. CASE NextPart
  <2>1. wire' \in Seq(Items) /\ Len(wire') <= Capacity
    BY <1>15, TakesFacts DEF NextPart, atChunk
  <2> QED
    BY <1>15, <2>1 DEF NextPart, Takes, Ends, Receiver
<1>16. CASE WritersFail
  <2>1. wire' \in Seq(Items) /\ Len(wire') <= Capacity
    BY <1>16, TakesFacts DEF WritersFail, atChunk
  <2> QED
    BY <1>16, <2>1 DEF WritersFail, Takes, Ends, Receiver
<1>17. CASE LastPart
  <2>1. wire' \in Seq(Items) /\ Len(wire') <= Capacity
    BY <1>17, TakesFacts DEF LastPart, atChunk
  <2> QED
    BY <1>17, <2>1 DEF LastPart, Takes, Ends, Receiver
<1>18. CASE NextPartFails
  BY <1>18 DEF NextPartFails, Ends, Receiver
<1>19. CASE ReadChunk
  <2>1. wire' \in Seq(Items) /\ Len(wire') <= Capacity
    BY <1>19, TakesFacts DEF ReadChunk, atChunk
  <2> QED
    BY <1>19, <2>1 DEF ReadChunk, Takes, Receiver, atChunk
<1>20. CASE PartRead
  BY <1>20 DEF PartRead, Receiver
<1>21. CASE PartBroken
  BY <1>21 DEF PartBroken, Receiver
<1>22. CASE EgWait
  BY <1>22 DEF EgWait, WriteEndsWhen, Receiver
<1>23. CASE CloseWriters
  BY <1>23 DEF CloseWriters, Ends, Receiver
<1>24. ASSUME NEW x \in Writers, Go(x) PROVE SendTypes'
  BY <1>24 DEF Go, GoBelow, Receiver
<1>25. ASSUME NEW x \in Writers, Written(x) PROVE SendTypes'
  BY <1>25 DEF Written, Receiver
<1>26. ASSUME NEW x \in Writers, WrittenShort(x) PROVE SendTypes'
  BY <1>26 DEF WrittenShort, Receiver
<1>27. CASE UNCHANGED streamVars
  BY <1>27 DEF streamVars
<1> QED
  BY <1>1, <1>2, <1>3, <1>4, <1>5, <1>6, <1>7, <1>8, <1>9, <1>10, <1>11, <1>12, <1>13, <1>14,
       <1>15, <1>16, <1>17, <1>18, <1>19, <1>20, <1>21, <1>22, <1>23, <1>24, <1>25, <1>26,
       <1>27 DEF StreamNext, SendStep, RecvStep

\* So do those of the receiver.
LEMMA RecvTypesStep == StreamInv /\ [StreamNext]_streamVars => RecvTypes'
<1> SUFFICES ASSUME StreamInv, [StreamNext]_streamVars PROVE RecvTypes'
  OBVIOUS
<1> USE StreamAssumption DEF StreamInv, SendTypes, RecvTypes, sendVars, recvVars, streamVars
<1>1. CASE SendStep \/ FileFails
  BY <1>1, SendKeeps
<1>2. CASE Transfer
  BY <1>2 DEF Transfer
<1>20. CASE ReaderCloses \/ ConnectionBreaks
  BY <1>20 DEF ReaderCloses, ConnectionBreaks
<1>21. CASE TransferEnds
  <2>1. got' = [p \in Parts |-> [w \in Writers |-> 0]]
    BY <1>21 DEF TransferEnds
  <2>2. got' \in [Parts -> [Writers -> Nat]]
    BY <2>1
  <2>3. part' = 0 /\ 0 \in Parts
    BY <1>21, ItemTypes DEF TransferEnds, ErrorPart
  <2> QED
    BY <1>21, <2>2, <2>3 DEF TransferEnds
<1>3. CASE NextPart
  <2>1. part' = Head(wire)[2] /\ Head(wire)[2] \in Parts
    BY <1>3, TakesFacts DEF NextPart
  <2> QED
    BY <1>3, <2>1 DEF NextPart, Takes, Ends, Receiver
<1>4. CASE WritersFail
  <2>1. part' = Head(wire)[2] /\ Head(wire)[2] \in Parts
    BY <1>4, TakesFacts DEF WritersFail
  <2> QED
    BY <1>4, <2>1 DEF WritersFail, Takes, Ends, Receiver
<1>5. CASE LastPart
  BY <1>5 DEF LastPart, Takes, Ends, Receiver
<1>6. CASE NextPartFails
  BY <1>6 DEF NextPartFails, Ends, Receiver
<1>7. CASE ReadChunk
  BY <1>7 DEF ReadChunk, Takes, Receiver, atChunk
<1>8. CASE PartRead
  BY <1>8 DEF PartRead, Receiver
<1>9. CASE PartBroken
  BY <1>9 DEF PartBroken, Receiver
<1>10. CASE EgWait
  BY <1>10 DEF EgWait, WriteEndsWhen, Receiver
<1>11. CASE CloseWriters
  BY <1>11 DEF CloseWriters, Ends, Receiver
<1>12. ASSUME NEW x \in Writers, Go(x) PROVE RecvTypes'
  BY <1>12 DEF Go, GoBelow, Receiver
<1>13. ASSUME NEW x \in Writers, Written(x) PROVE RecvTypes'
  BY <1>13 DEF Written, Receiver
<1>14. ASSUME NEW x \in Writers, WrittenShort(x) PROVE RecvTypes'
  BY <1>14 DEF WrittenShort, Receiver
<1>15. CASE UNCHANGED streamVars
  BY <1>15 DEF streamVars
<1> QED
  BY <1>1, <1>2, <1>20, <1>21, <1>3, <1>4, <1>5, <1>6, <1>7, <1>8, <1>9, <1>10, <1>11, <1>12,
       <1>13, <1>14, <1>15 DEF StreamNext, SendStep, RecvStep

\* The writers keep to their limit.
LEMMA AtWorkStep == StreamInv /\ [StreamNext]_streamVars => AtWork'
<1> SUFFICES ASSUME StreamInv, [StreamNext]_streamVars PROVE AtWork'
  OBVIOUS
<1> USE StreamAssumption DEF StreamInv, SendTypes, RecvTypes, AtWork, sendVars, recvVars,
     streamVars
<1>1. CASE SendStep \/ FileFails
  BY <1>1, SendKeeps
<1>2. CASE Transfer
  <2>1. UNCHANGED <<waiting, active, partErr>> /\ sendAt = "idle"
    BY <1>2 DEF Transfer
  <2>2. waiting = {} /\ active = {} /\ ~partErr
    BY <2>1 DEF Fresh
  <2> QED
    BY <2>1, <2>2
<1>20. CASE ReaderCloses \/ ConnectionBreaks
  BY <1>20 DEF ReaderCloses, ConnectionBreaks
<1>21. CASE TransferEnds
  <2>1. active' = {} /\ Cardinality({}) = 0
    BY <1>21, FS_EmptySet DEF TransferEnds
  <2> QED
    BY <1>21, <2>1 DEF TransferEnds
<1>3. CASE NextPart
  BY <1>3 DEF NextPart, Takes, Ends, Receiver
<1>4. CASE WritersFail
  BY <1>4 DEF WritersFail, Takes, Ends, Receiver
<1>5. CASE LastPart
  BY <1>5 DEF LastPart, Takes, Ends, Receiver
<1>6. CASE NextPartFails
  BY <1>6 DEF NextPartFails, Ends, Receiver
<1>7. CASE ReadChunk
  BY <1>7 DEF ReadChunk, Takes, Receiver, atChunk
<1>8. CASE PartRead
  BY <1>8 DEF PartRead, Receiver
<1>9. CASE PartBroken
  BY <1>9 DEF PartBroken, Receiver
<1>10. CASE EgWait
  BY <1>10 DEF EgWait, WriteEndsWhen, Receiver
<1>11. CASE CloseWriters
  BY <1>11 DEF CloseWriters, Ends, Receiver
<1>12. ASSUME NEW x \in Writers, Go(x) PROVE AtWork'
  <2>1. IsFiniteSet(active) /\ Cardinality(active) \in Nat
    BY FS_Subset, FS_CardinalityType
  <2>2. active' = active \cup {x} /\ Cardinality(active) < Limit
    BY <1>12 DEF Go, GoBelow
  <2>3. Cardinality(active') <= Limit
    <3>1. Cardinality(active \cup {x}) =
            IF x \in active THEN Cardinality(active) ELSE Cardinality(active) + 1
      BY ONLY <2>1, FS_AddElement
    <3> QED
      BY ONLY <2>1, <2>2, <3>1, StreamAssumption
  <2> QED
    BY <1>12, <2>3 DEF Go, GoBelow, Receiver
<1>13. ASSUME NEW x \in Writers, Written(x) PROVE AtWork'
  <2>1. active' \in SUBSET active /\ IsFiniteSet(active) /\ Cardinality(active) \in Nat
    BY <1>13, FS_Subset, FS_CardinalityType DEF Written
  <2>2. Cardinality(active') \in Nat /\ Cardinality(active') <= Limit
    BY <2>1, FS_Subset, FS_CardinalityType
  <2> QED
    BY <1>13, <2>2 DEF Written, Receiver
<1>14. ASSUME NEW x \in Writers, WrittenShort(x) PROVE AtWork'
  <2>1. active' \in SUBSET active /\ IsFiniteSet(active) /\ Cardinality(active) \in Nat
    BY <1>14, FS_Subset, FS_CardinalityType DEF WrittenShort
  <2>2. Cardinality(active') \in Nat /\ Cardinality(active') <= Limit
    BY <2>1, FS_Subset, FS_CardinalityType
  <2> QED
    BY <1>14, <2>2 DEF WrittenShort, Receiver
<1>15. CASE UNCHANGED streamVars
  BY <1>15 DEF streamVars
<1> QED
  BY <1>1, <1>2, <1>20, <1>21, <1>3, <1>4, <1>5, <1>6, <1>7, <1>8, <1>9, <1>10, <1>11, <1>12,
       <1>13, <1>14, <1>15 DEF StreamNext, SendStep, RecvStep

\* The writers stay together.
LEMMA TogetherStep == StreamInv /\ [StreamNext]_streamVars => Together'
<1> SUFFICES ASSUME StreamInv, [StreamNext]_streamVars PROVE Together'
  OBVIOUS
<1> USE DEF StreamInv, Together, Even, Behind
<1>1. CASE SendStep \/ FileFails
  BY <1>1, SendKeeps
<1>2. CASE Transfer
  BY <1>2 DEF Transfer, Fresh, RecvTypes, AtWork
<1>20. CASE ReaderCloses \/ ConnectionBreaks
  BY <1>20 DEF ReaderCloses, ConnectionBreaks, sendVars, recvVars
<1>21. CASE TransferEnds
  <2>1. /\ got' = [p \in Parts |-> [w \in Writers |-> 0]] /\ recvAt' = "idle" /\ part' = ErrorPart
    BY <1>21 DEF TransferEnds
  <2>2. \A p \in Parts, w \in Writers : got'[p][w] = 0
    BY <2>1
  <2>3. part' \in Parts
    BY <2>1, ItemTypes DEF ErrorPart
  <2> QED
    BY <2>1, <2>2, <2>3
<1>3. CASE NextPart
  <2>1. /\ UNCHANGED <<got, waiting, active, partErr>> /\ recvAt = "next"
        /\ recvAt' \in {"copy", "returned"} /\ ~partErr
    BY <1>3 DEF NextPart, Ends, Receiver, AtWork
  <2>2. \A p \in Parts : Even(p)
    BY <2>1
  <2>3. part' \in Parts
    BY <1>3, TakesFacts DEF NextPart
  <2> QED
    BY <2>1, <2>2, <2>3
<1>4. CASE WritersFail
  BY <1>4 DEF WritersFail, Takes, Ends, Receiver, RecvTypes, AtWork
<1>5. CASE LastPart
  BY <1>5 DEF LastPart, Takes, Ends, Receiver, RecvTypes, AtWork
<1>6. CASE NextPartFails
  BY <1>6 DEF NextPartFails, Ends, Receiver, RecvTypes, AtWork
<1>7. CASE ReadChunk
  BY <1>7 DEF ReadChunk, Takes, Receiver, atChunk, RecvTypes, AtWork
<1>8. CASE PartRead
  BY <1>8 DEF PartRead, Receiver, RecvTypes, AtWork
<1>9. CASE PartBroken
  BY <1>9 DEF PartBroken, Receiver, RecvTypes, AtWork
<1>10. CASE EgWait
  BY <1>10 DEF EgWait, WriteEndsWhen, Receiver, RecvTypes, AtWork
<1>11. CASE CloseWriters
  <2>1. /\ UNCHANGED <<got, part, waiting, active>> /\ recvAt = "close" /\ partErr' = FALSE
        /\ \/ recvAt' = "returned"
           \/ recvAt' = "next" /\ ~partErr
    <3>1. /\ UNCHANGED <<got, part, waiting, active>> /\ recvAt = "close" /\ partErr' = FALSE
      BY <1>11 DEF CloseWriters
    <3>2. PICK err \in {partErr, TRUE} :
            IF err THEN Ends(TRUE) ELSE Receiver("next") /\ UNCHANGED recvErr
      BY <1>11 DEF CloseWriters
    <3>3. CASE err
      BY <3>1, <3>2, <3>3 DEF Ends, Receiver
    <3>4. CASE ~err
      <4>1. recvAt' = "next"
        BY <3>2, <3>4 DEF Receiver
      <4>2. ~partErr
        BY ONLY <3>4, err \in {partErr, TRUE}, Zenon
      <4> QED
        BY <3>1, <4>1, <4>2
    <3> QED
      BY <3>3, <3>4
  <2> QED
    BY <2>1
<1>12. ASSUME NEW x \in Writers, Go(x) PROVE Together'
  <2>1. /\ UNCHANGED <<got, part, partErr>> /\ recvAt = "write" /\ recvAt' = "write"
        /\ x \in waiting /\ waiting' = waiting \ {x} /\ active' = active \cup {x}
    BY <1>12 DEF Go, GoBelow, Receiver
  <2>2. waiting' \cup active' = waiting \cup active
    BY <2>1
  <2> QED
    BY <2>1, <2>2
<1>13. ASSUME NEW x \in Writers, Written(x) PROVE Together'
  BY <1>13 DEF Written, Receiver, RecvTypes, AtWork
<1>14. ASSUME NEW x \in Writers, WrittenShort(x) PROVE Together'
  BY <1>14 DEF WrittenShort, Receiver, RecvTypes, AtWork
<1>15. CASE UNCHANGED streamVars
  BY <1>15 DEF streamVars, recvVars
<1> QED
  BY <1>1, <1>2, <1>20, <1>21, <1>3, <1>4, <1>5, <1>6, <1>7, <1>8, <1>9, <1>10, <1>11, <1>12,
       <1>13, <1>14, <1>15 DEF StreamNext, SendStep, RecvStep

\* A transfer begins afresh.
LEMMA FreshStep == StreamInv /\ [StreamNext]_streamVars => Fresh'
<1> SUFFICES ASSUME StreamInv, [StreamNext]_streamVars PROVE Fresh'
  OBVIOUS
<1> USE StreamAssumption DEF StreamInv, RecvTypes, AtWork, Fresh, sendVars, recvVars,
     streamVars, broken
<1>1. CASE OpenFile \/ CopyChunk \/ FileSent \/ FileFails \/ WriteErrHeader \/ WriteErrText
     \/ WriteErrFails \/ FilesSent \/ CloseSender \/ CloseSenderFails
  BY <1>1 DEF OpenFile, Puts, Sender, CopyChunk, FileSent, FileFails, FileFailsGoingTo,
       WriteErrHeader, WriteErrText, WriteErrFails, FilesSent, CloseSender, CloseSenderFails
<1>2. CASE Transfer \/ ReaderCloses \/ ConnectionBreaks \/ TransferEnds
  BY <1>2 DEF Transfer, ReaderCloses, ConnectionBreaks, TransferEnds
<1>3. CASE NextPart \/ WritersFail \/ LastPart \/ NextPartFails \/ ReadChunk \/ PartRead
     \/ PartBroken \/ EgWait \/ CloseWriters
  BY <1>3 DEF NextPart, Takes, Ends, Receiver, WritersFail, LastPart, NextPartFails, ReadChunk,
       atChunk, PartRead, PartBroken, EgWait, WriteEndsWhen, CloseWriters
<1>4. ASSUME NEW x \in Writers, Go(x) \/ Written(x) \/ WrittenShort(x) PROVE Fresh'
  BY <1>4 DEF Go, GoBelow, Receiver, Written, WrittenShort
<1>5. CASE UNCHANGED streamVars
  BY <1>5 DEF streamVars
<1> QED
  BY <1>1, <1>2, <1>3, <1>4, <1>5 DEF StreamNext, SendStep, RecvStep

-----------------------------------------------------------------------------
\* Whatever the sender does on a connection that holds, what it has put on the wire
\* is in order.
LEMMA SenderInOrder ==
  ASSUME StreamInv, ~cut, SendStep \/ FileFails, NEW a \in Labels, NEW b \in Labels,
         Path(size, wire, a, b), SenderAfter(b)
  PROVE  \/ /\ wire' = wire /\ SenderAfter(b)'
         \/ \E item \in Items, c \in Labels :
              /\ wire' = Append(wire, item) /\ After(size, b, item, c) /\ SenderAfter(c)'
              /\ item[1] = "chunk" => item[2] # ErrorPart \/ b = Bad
<1> USE StreamAssumption DEF StreamInv
<1>1. /\ b[1] \in 0 .. (NumFiles + 2) /\ b[2] \in 0 .. MaxChunks /\ b = <<b[1], b[2]>>
      /\ file \in 1 .. (NumFiles + 1) /\ sent \in 0 .. MaxChunks /\ size \in Sizes
      /\ size' = size /\ Bad \in Labels /\ Done \in Labels
  BY SendKeeps DEF Labels, SendTypes, Sizes, Bad, Done
<1>2. CASE OpenFile
  <2>1. /\ file <= NumFiles /\ Puts(Begin(file)) /\ sendAt = "open" /\ sendAt' = "copy"
        /\ sent' = 0 /\ UNCHANGED <<file, sendErr>>
    BY <1>2 DEF OpenFile, Sender
  <2>2. file \in FileNums /\ Begin(file) \in Items /\ wire' = Append(wire, Begin(file))
    BY <1>1, <2>1, ItemTypes, PutsFacts DEF FileNums
  <2>3. ~sendErr /\ b[1] = file - 1 /\ b[2] = Size(size, b[1])
    BY <2>1 DEF SenderAfter
  <2>4. After(size, b, Begin(file), <<file, 0>>)
    <3>1. b[1] <= NumFiles /\ b[1] # NumFiles /\ b[1] + 1 = file
      BY <1>1, <2>1, <2>3
    <3> QED
      BY <2>3, <3>1 DEF After, NextBegin
  <2>50. <<file, 0>> \in Labels
    BY <1>1 DEF Labels
  <2>5. PICK c \in Labels : c = <<file, 0>>
    BY <2>50, Zenon
  <2>6. SenderAfter(c)'
    BY <2>1, <2>3, <2>5 DEF SenderAfter
  <2>7. Begin(file)[1] # "chunk"
    BY DEF Begin
  <2> QED
    BY <2>2, <2>4, <2>5, <2>6, <2>7
<1>3. CASE CopyChunk
  <2>1. /\ sent < size[file] /\ Puts(Chunk(file)) /\ sendAt = "copy" /\ sendAt' = "copy"
        /\ sent' = sent + 1 /\ UNCHANGED <<file, sendErr>>
    BY <1>3 DEF CopyChunk, Sender
  <2>2. file <= NumFiles /\ ~sendErr /\ b = <<file, sent>>
    BY <2>1 DEF SenderAfter, SendTypes
  <2>3. file \in FileNums /\ Chunk(file) \in Items /\ wire' = Append(wire, Chunk(file))
    BY <1>1, <2>1, <2>2, ItemTypes, PutsFacts DEF FileNums
  <2>4. Size(size, file) = size[file] /\ size[file] \in 0 .. MaxChunks
    BY <1>1, <2>3 DEF Size, Sizes
  <2>5. b[1] = file /\ b[2] = sent
    BY <2>2
  <2>6. After(size, b, Chunk(file), <<file, sent + 1>>)
    BY <2>1, <2>2, <2>4, <2>5 DEF After, NextChunk
  <2>70. <<file, sent + 1>> \in Labels
    BY <1>1, <2>1, <2>4 DEF Labels
  <2>7. PICK c \in Labels : c = <<file, sent + 1>>
    BY <2>70, Zenon
  <2>8. SenderAfter(c)'
    BY <2>1, <2>2, <2>7 DEF SenderAfter
  <2>9. Chunk(file)[2] # ErrorPart
    BY <1>1 DEF Chunk, ErrorPart
  <2> QED
    BY <2>3, <2>6, <2>7, <2>8, <2>9
<1>4. CASE FileSent
  <2>1. /\ sent = size[file] /\ sendAt = "copy" /\ sendAt' = "open"
        /\ file' = file + 1 /\ UNCHANGED <<sent, sendErr, wire>>
    BY <1>4 DEF FileSent, Sender
  <2>2. file <= NumFiles /\ ~sendErr /\ b = <<file, sent>>
    BY <2>1 DEF SenderAfter, SendTypes
  <2>3. file' - 1 = file /\ Size(size, file) = sent
    BY <1>1, <2>1, <2>2 DEF Size, FileNums
  <2>4. SenderAfter(b)'
    BY <1>1, <2>1, <2>2, <2>3 DEF SenderAfter
  <2> QED
    BY <2>1, <2>4
<1>5. CASE FileFails
  <2>1. /\ sendAt \in {"open", "copy"} /\ file <= NumFiles /\ sendAt' = "error"
        /\ sendErr' = TRUE /\ UNCHANGED wire
    BY <1>5 DEF FileFails, FileFailsGoingTo, Sender
  <2>2. b[1] \in {file - 1, file}
    BY <2>1 DEF SenderAfter
  <2>3. b[1] <= NumFiles
    BY <1>1, <2>1, <2>2
  <2> QED
    BY <2>1, <2>3 DEF SenderAfter
<1>6. CASE WriteErrHeader
  <2>1. /\ sendAt = "error" /\ Puts(Begin(ErrorPart)) /\ sendAt' = "text" /\ UNCHANGED sendErr
    BY <1>6 DEF WriteErrHeader, Sender
  <2>2. wire' = Append(wire, Begin(ErrorPart)) /\ Begin(ErrorPart) \in Items
    BY <2>1, ItemTypes, PutsFacts
  <2>3. After(size, b, Begin(ErrorPart), Bad) /\ sendErr
    BY <2>1 DEF SenderAfter, After
  <2>4. SenderAfter(Bad)'
    BY <2>1, <2>3 DEF SenderAfter
  <2> QED
    BY <1>1, <2>2, <2>3, <2>4 DEF Begin
<1>7. CASE WriteErrText
  <2>1. /\ sendAt = "text" /\ Puts(Chunk(ErrorPart)) /\ sendAt' = "close" /\ UNCHANGED sendErr
    BY <1>7 DEF WriteErrText, Sender
  <2>2. wire' = Append(wire, Chunk(ErrorPart)) /\ Chunk(ErrorPart) \in Items
    BY <2>1, ItemTypes, PutsFacts
  <2>3. b = Bad /\ After(size, b, Chunk(ErrorPart), Bad) /\ sendErr
    BY <2>1 DEF SenderAfter, After
  <2>4. SenderAfter(Bad)'
    BY <2>1, <2>3 DEF SenderAfter
  <2> QED
    BY <1>1, <2>2, <2>3, <2>4
<1>8. CASE WriteErrFails \/ CloseSenderFails
  BY <1>8 DEF WriteErrFails, CloseSenderFails
<1>9. CASE FilesSent
  <2>1. /\ sendAt = "open" /\ file > NumFiles /\ sendAt' = "close" /\ UNCHANGED <<sendErr, wire>>
    BY <1>9 DEF FilesSent, Sender
  <2>2. ~sendErr /\ file - 1 = NumFiles /\ b = <<file - 1, Size(size, file - 1)>>
    BY <1>1, <2>1 DEF SenderAfter
  <2> QED
    BY <1>1, <2>1, <2>2 DEF SenderAfter
<1>10. CASE CloseSender
  <2>1. /\ sendAt = "close" /\ Puts(Boundary) /\ sendAt' = "returned" /\ UNCHANGED sendErr
    BY <1>10 DEF CloseSender, Sender
  <2>2. wire' = Append(wire, Boundary) /\ Boundary \in Items
    BY <2>1, ItemTypes, PutsFacts
  <2>3. CASE sendErr
    <3>1. After(size, b, Boundary, Bad)
      BY <2>1, <2>3 DEF SenderAfter, After
    <3>2. SenderAfter(Bad)'
      BY <2>1, <2>3 DEF SenderAfter
    <3> QED
      BY <1>1, <2>2, <3>1, <3>2 DEF Boundary
  <2>4. CASE ~sendErr
    <3>1. b[1] = NumFiles /\ b[2] = Size(size, NumFiles)
      BY <2>1, <2>4 DEF SenderAfter
    <3>2. After(size, b, Boundary, Done)
      BY <3>1 DEF After, NextBegin, Done
    <3>3. SenderAfter(Done)'
      BY <2>1, <2>4 DEF SenderAfter
    <3> QED
      BY <1>1, <2>2, <3>2, <3>3 DEF Boundary
  <2> QED
    BY <2>3, <2>4
<1> QED
  BY <1>2, <1>3, <1>4, <1>5, <1>6, <1>7, <1>8, <1>9, <1>10 DEF SendStep

\* A step of the sender keeps the order.
LEMMA SenderKeepsOrder ==
  ASSUME StreamInv, SendStep \/ FileFails
  PROVE  InOrder'
<1> USE StreamAssumption
<1>1. UNCHANGED <<recvAt, refuses, part, waiting, active, got, partErr, recvErr, size, cut>>
  BY SendKeeps
<1>2. SUFFICES ASSUME Sound PROVE InOrder'
  BY <1>1 DEF InOrder, Sound
<1>3. /\ wire \in Seq(Items) /\ InOrder /\ ~cut
      /\ recvAt \in {"next", "close"} =>
           IF wire = <<>> THEN part = ErrorPart ELSE Head(wire) # Chunk(part)
  BY <1>2 DEF StreamInv, SendTypes, InOrder, Sound
<1>4. PICK a \in Labels, b \in Labels :
        Path(size, wire, a, b) /\ WritersAfter(a) /\ SenderAfter(b)
  BY <1>2, <1>3 DEF InOrder
<1>5. WritersAfter(a)'
  BY <1>1, <1>4 DEF WritersAfter, Whole, Behind
<1>6. CASE wire' = wire /\ SenderAfter(b)'
  BY <1>1, <1>3, <1>4, <1>5, <1>6 DEF InOrder
<1>7. CASE ~(wire' = wire /\ SenderAfter(b)')
  <2>1. PICK item \in Items, c \in Labels :
          /\ wire' = Append(wire, item) /\ After(size, b, item, c) /\ SenderAfter(c)'
          /\ item[1] = "chunk" => item[2] # ErrorPart \/ b = Bad
    BY <1>3, <1>4, <1>7, SenderInOrder
  <2>2. Path(size, wire', a, c)
    BY <1>3, <1>4, <2>1, PathAppend
  <2>3. /\ wire' # <<>> /\ (wire # <<>> => Head(wire') = Head(wire))
        /\ (wire = <<>> => Head(wire') = item)
    BY <1>3, <2>1
  <2>4. ASSUME wire = <<>>, part = ErrorPart PROVE item # Chunk(part)
    <3>1. a = b
      BY <1>4, <2>4, PathEmpty
    <3>2. b # Bad
      BY <1>4, <3>1 DEF WritersAfter, Bad
    <3> QED
      BY <2>1, <2>4, <3>2 DEF Chunk
  <2> QED
    BY <1>1, <1>3, <1>5, <2>1, <2>2, <2>3, <2>4 DEF InOrder
<1> QED
  BY <1>6, <1>7

\* What a receiver that has met no error finds on the wire.
LEMMA ReceiverInOrder ==
  ASSUME StreamInv, Sound, wire # <<>>
  PROVE  \E a \in Labels, b \in Labels, c \in Labels :
           /\ WritersAfter(a) /\ SenderAfter(b)
           /\ After(size, a, Head(wire), c) /\ Path(size, Tail(wire), c, b)
<1>1. wire \in Seq(Items)
  BY DEF StreamInv, SendTypes
<1>2. PICK a \in Labels, b \in Labels :
        Path(size, wire, a, b) /\ WritersAfter(a) /\ SenderAfter(b)
  BY DEF StreamInv, InOrder
<1>3. \E c \in Labels : After(size, a, Head(wire), c) /\ Path(size, Tail(wire), c, b)
  BY <1>1, <1>2, PathTail
<1> QED
  BY <1>2, <1>3

\* A chunk of the part it is at is the next one.
LEMMA ChunkInOrder ==
  ASSUME StreamInv, NEW a \in Labels, NEW c, WritersAfter(a), After(size, a, Chunk(part), c)
  PROVE  c = <<part, a[2] + 1>>
<1>1. a[1] = part /\ part <= NumFiles /\ a # Bad
  BY StreamAssumption DEF WritersAfter, Bad
<1>2. Chunk(part)[1] = "chunk" /\ Begin(ErrorPart)[1] = "begin" /\ Boundary[1] = "boundary"
      /\ Begin(a[1] + 1)[1] = "begin"
  BY DEF Chunk, Begin, Boundary
<1> QED
  BY <1>1, <1>2 DEF After, NextChunk, NextBegin

\* Anything else that is not the error part comes after the last chunk.
LEMMA NextInOrder ==
  ASSUME StreamInv, NEW a \in Labels, NEW c, NEW item, WritersAfter(a),
         After(size, a, item, c), item # Chunk(part), item # Begin(ErrorPart)
  PROVE  /\ a = <<part, Size(size, part)>> /\ c = <<part + 1, 0>>
         /\ item = IF part = NumFiles THEN Boundary ELSE Begin(part + 1)
<1>1. a[1] = part /\ part <= NumFiles /\ a # Bad /\ a = <<a[1], a[2]>>
  BY StreamAssumption DEF WritersAfter, Bad, Labels
<1> QED
  BY <1>1 DEF After, NextChunk, NextBegin

\* The steps of the receiver that change its place among the items, and the others,
\* keep the order.
LEMMA InOrderStep == StreamInv /\ [StreamNext]_streamVars => InOrder'
<1> SUFFICES ASSUME StreamInv, [StreamNext]_streamVars, Sound' PROVE InOrder'
  BY DEF InOrder
<1> USE StreamAssumption
<1>0. /\ wire \in Seq(Items) /\ size \in Sizes
      /\ got \in [Parts -> [Writers -> Nat]] /\ part \in Parts
      /\ InOrder /\ AtWork /\ Fresh /\ partErr \in BOOLEAN
      /\ refuses' /\ ~cut' /\ ~partErr' /\ recvAt' \in {"next", "copy", "write", "close"}
  BY DEF StreamInv, SendTypes, RecvTypes, Sizes, Sound
<1>1. CASE SendStep \/ FileFails
  BY <1>1, SenderKeepsOrder
<1>2. CASE Transfer
  <2>1. /\ sendAt' = "open" /\ recvAt' = "next" /\ size' \in Sizes
        /\ UNCHANGED <<file, sendErr, wire, part, waiting, active, got>>
    BY <1>2 DEF Transfer, Sizes
  <2>2. /\ file = 1 /\ ~sendErr /\ wire = <<>> /\ part = ErrorPart /\ waiting = {} /\ active = {}
        /\ \A p \in Parts, w \in Writers : got[p][w] = 0
    BY <1>0, <1>2 DEF Transfer, Fresh, AtWork
  <2>3. PICK a \in Labels : a = <<0, 0>>
    <3>1. <<0, 0>> \in Labels
      BY DEF Labels
    <3> QED
      BY <3>1, Zenon
  <2>4. Path(size', wire', a, a)
    BY <2>1, <2>2, PathEmpty
  <2>5. SenderAfter(a)'
    BY <2>1, <2>2, <2>3 DEF SenderAfter, Size, FileNums
  <2>6. WritersAfter(a)'
    <3>1. 0 \in Parts /\ \A f \in FileNums : f \in Parts /\ ~(f < 0)
      BY DEF Parts, FileNums, ErrorPart
    <3> QED
      BY <2>1, <2>2, <2>3, <3>1 DEF WritersAfter, Behind, ErrorPart
  <2> QED
    BY <2>1, <2>2, <2>4, <2>5, <2>6 DEF InOrder
<1>3. CASE ReaderCloses \/ ConnectionBreaks \/ TransferEnds \/ PartBroken
  BY <1>0, <1>3 DEF ReaderCloses, ConnectionBreaks, TransferEnds, PartBroken
<1>4. CASE WritersFail \/ LastPart \/ NextPartFails
  BY <1>0, <1>4 DEF WritersFail, LastPart, NextPartFails, Ends, Receiver
<1>5. CASE NextPart
  <2>1. /\ recvAt = "next" /\ wire # <<>> /\ Head(wire) # Boundary
        /\ wire' = Tail(wire) /\ part' = Head(wire)[2]
        /\ UNCHANGED <<waiting, active, got, partErr, sendVars, cut, refuses>>
        /\ ~(part' = ErrorPart /\ refuses) /\ recvAt' = "copy"
    BY <1>0, <1>5 DEF NextPart, Takes, Ends, Receiver
  <2>2. Sound /\ waiting = {} /\ active = {}
    BY <1>0, <2>1 DEF Sound, AtWork
  <2>3. PICK a \in Labels, b \in Labels, c \in Labels :
          /\ WritersAfter(a) /\ SenderAfter(b)
          /\ After(size, a, Head(wire), c) /\ Path(size, Tail(wire), c, b)
    BY <2>1, <2>2, ReceiverInOrder
  <2>4. Head(wire) # Chunk(part) /\ Head(wire) # Begin(ErrorPart)
    BY <1>0, <2>1, <2>2 DEF InOrder, Begin
  <2>5. /\ a = <<part, Size(size, part)>> /\ c = <<part + 1, 0>>
        /\ part # NumFiles /\ Head(wire) = Begin(part + 1)
    BY <2>1, <2>3, <2>4, NextInOrder
  <2>6. part' = part + 1 /\ part' \in FileNums /\ part \in Int
    <3>1. part <= NumFiles /\ part' = part + 1
      BY <2>1, <2>3, <2>5 DEF WritersAfter, Begin
    <3> QED
      BY <1>0, <2>5, <3>1 DEF Parts, FileNums, ErrorPart
  <2>7. \A f \in FileNums : f < part' => Whole(f)
    <3>1. ASSUME NEW f \in FileNums, f < part' PROVE Whole(f)
      <4>1. f < part \/ f = part
        BY <2>6, <3>1 DEF FileNums
      <4>2. a[2] = size[f] \/ f # part
        BY <2>5 DEF Size
      <4> QED
        BY <2>2, <2>3, <4>1, <4>2 DEF WritersAfter, Whole, Behind
    <3> QED
      BY <3>1
  <2>8. \A f \in FileNums, w \in Writers : f >= part' => got[f][w] = 0
    <3>1. \A f \in FileNums : f >= part' => f > part
      BY <2>6 DEF FileNums
    <3> QED
      BY <2>3, <3>1 DEF WritersAfter
  <2>9. WritersAfter(c)'
    <3>1. c[1] = part' /\ c[2] = 0 /\ part' <= NumFiles
      BY <2>5, <2>6 DEF FileNums
    <3>2. \A w \in Writers : got[part'][w] = 0
      BY <2>6, <2>8 DEF FileNums
    <3>3. \A f \in FileNums : f > part' => f >= part'
      BY <2>6 DEF FileNums
    <3> QED
      BY <2>1, <2>2, <2>7, <2>8, <3>1, <3>2, <3>3 DEF WritersAfter, Whole, Behind, sendVars
  <2>10. SenderAfter(b)'
    BY <2>1, <2>3 DEF SenderAfter, sendVars
  <2> QED
    BY <2>1, <2>3, <2>9, <2>10 DEF InOrder, sendVars
<1>6. CASE ReadChunk
  <2>1. /\ recvAt = "copy" /\ wire # <<>> /\ Head(wire) = Chunk(part) /\ wire' = Tail(wire)
        /\ waiting' = Writers /\ recvAt' = "write"
        /\ UNCHANGED <<part, active, got, partErr, sendVars, cut, refuses>>
    BY <1>6 DEF ReadChunk, Takes, Receiver, atChunk
  <2>2. Sound /\ waiting = {} /\ active = {}
    BY <1>0, <2>1 DEF Sound, AtWork
  <2>3. PICK a \in Labels, b \in Labels, c \in Labels :
          /\ WritersAfter(a) /\ SenderAfter(b)
          /\ After(size, a, Head(wire), c) /\ Path(size, Tail(wire), c, b)
    BY <2>1, <2>2, ReceiverInOrder
  <2>4. c = <<part, a[2] + 1>> /\ a[2] \in Nat
    BY <2>1, <2>3, ChunkInOrder DEF Labels
  <2>5. c[1] = part /\ c[2] - 1 = a[2]
    BY <2>4
  <2>6. WritersAfter(c)'
    BY <2>1, <2>2, <2>3, <2>5 DEF WritersAfter, Whole, Behind, sendVars
  <2>7. SenderAfter(b)'
    BY <2>1, <2>3 DEF SenderAfter, sendVars
  <2> QED
    BY <2>1, <2>3, <2>6, <2>7 DEF InOrder, sendVars
<1>7. CASE PartRead \/ EgWait \/ CloseWriters \/ UNCHANGED streamVars
  <2>1. /\ UNCHANGED <<wire, part, waiting, active, got, sendVars, cut, refuses>>
    BY <1>7 DEF PartRead, EgWait, WriteEndsWhen, CloseWriters, Ends, Receiver, streamVars,
         recvVars
  <2>2. /\ Sound
        /\ recvAt' \in {"next", "close"} =>
             recvAt \in {"next", "close"} \/ (wire # <<>> /\ Head(wire) # Chunk(part))
    <3>1. CASE PartRead
      BY <1>0, <2>1, <3>1 DEF PartRead, Sound, Receiver, atChunk
    <3>2. CASE EgWait
      BY <1>0, <2>1, <3>2 DEF EgWait, WriteEndsWhen, Sound, Receiver
    <3>3. CASE CloseWriters
      <4>1. recvAt = "close" /\ partErr' = FALSE
        BY <3>3 DEF CloseWriters
      <4>2. PICK err \in {partErr, TRUE} :
              IF err THEN Ends(TRUE) ELSE Receiver("next") /\ UNCHANGED recvErr
        BY <3>3 DEF CloseWriters
      <4>3. ~err
        BY <1>0, <4>2 DEF Ends, Receiver
      <4>4. ~partErr
        BY ONLY <4>3, err \in {partErr, TRUE}, Zenon
      <4> QED
        BY <1>0, <2>1, <4>1, <4>4 DEF Sound
    <3>4. CASE UNCHANGED streamVars
      BY <1>0, <3>4 DEF Sound, streamVars, recvVars
    <3> QED
      BY <1>7, <3>1, <3>2, <3>3, <3>4
  <2>3. PICK a \in Labels, b \in Labels :
          Path(size, wire, a, b) /\ WritersAfter(a) /\ SenderAfter(b)
    BY <1>0, <2>2 DEF InOrder
  <2>4. WritersAfter(a)' /\ SenderAfter(b)'
    BY <2>1, <2>3 DEF WritersAfter, SenderAfter, Whole, Behind, sendVars
  <2>5. recvAt' \in {"next", "close"} =>
          IF wire = <<>> THEN part = ErrorPart ELSE Head(wire) # Chunk(part)
    BY <1>0, <2>2 DEF InOrder
  <2> QED
    BY <2>1, <2>3, <2>4, <2>5 DEF InOrder, sendVars
<1>8. ASSUME NEW x \in Writers, Go(x) \/ Written(x) \/ WrittenShort(x) PROVE InOrder'
  <2>1. /\ UNCHANGED <<wire, part, partErr, sendVars, cut, refuses, recvAt>> /\ recvAt = "write"
        /\ ~WrittenShort(x)
    BY <1>0, <1>8 DEF Go, GoBelow, Written, WrittenShort, Receiver, AtWork
  <2>2. Sound
    BY <1>0, <2>1 DEF Sound
  <2>3. PICK a \in Labels, b \in Labels :
          Path(size, wire, a, b) /\ WritersAfter(a) /\ SenderAfter(b)
    BY <1>0, <2>2 DEF InOrder
  <2>4. SenderAfter(b)'
    BY <2>1, <2>3 DEF SenderAfter, sendVars
  <2>5. a[1] = part /\ a[2] \in Nat
    BY <2>3 DEF WritersAfter, Labels
  <2>6. WritersAfter(a)'
    <3>1. CASE Go(x)
      <4>1. got' = got /\ waiting' \cup active' = waiting \cup active
        BY <3>1 DEF Go, GoBelow
      <4> QED
        BY <2>1, <2>3, <4>1 DEF WritersAfter, Whole, Behind, sendVars
    <3>2. CASE Written(x)
      <4>1. /\ x \in active /\ got' = [got EXCEPT ![part][x] = @ + 1]
            /\ active' = active \ {x} /\ waiting' = waiting
        BY <3>2 DEF Written
      <4>2. \A w \in Writers : w # x => (Behind(w)' <=> Behind(w)) /\ got'[part][w] = got[part][w]
        BY <1>0, <4>1 DEF Behind
      <4>3. ~Behind(x)' /\ Behind(x)
        BY <1>0, <4>1 DEF Behind, AtWork
      <4>4. got'[part][x] = a[2]
        <5>1. got[part][x] = a[2] - 1 /\ got'[part][x] = got[part][x] + 1
          BY <1>0, <2>3, <4>1, <4>3 DEF WritersAfter
        <5> QED
          BY <2>5, <5>1
      <4>5. \A f \in FileNums : f # part => got'[f] = got[f]
        BY <1>0, <4>1 DEF Parts
      <4>6. \A f \in FileNums : f < part \/ f > part => f # part
        BY <1>0 DEF FileNums, Parts, ErrorPart
      <4>7. \A f \in FileNums : f < part => Whole(f)'
        BY <2>1, <2>3, <4>5, <4>6 DEF WritersAfter, Whole, sendVars
      <4>8. \A f \in FileNums, w \in Writers : f > part => got'[f][w] = 0
        BY <2>3, <4>5, <4>6 DEF WritersAfter
      <4>9. \A w \in Writers : got'[part][w] = IF Behind(w)' THEN a[2] - 1 ELSE a[2]
        BY <2>3, <4>2, <4>3, <4>4 DEF WritersAfter
      <4> QED
        BY <2>1, <2>3, <4>7, <4>8, <4>9 DEF WritersAfter
    <3> QED
      BY <1>8, <2>1, <3>1, <3>2
  <2> QED
    BY <2>1, <2>3, <2>4, <2>6 DEF InOrder, sendVars
<1> QED
  BY <1>1, <1>2, <1>3, <1>4, <1>5, <1>6, <1>7, <1>8 DEF StreamNext, RecvStep

\* The receiver succeeds only behind the final boundary, after which nothing changes.
LEMMA SuccessStep == StreamInv /\ [StreamNext]_streamVars => SuccessKept'
<1> SUFFICES ASSUME StreamInv, [StreamNext]_streamVars,
                    recvAt' = "returned", ~recvErr', refuses', ~cut'
             PROVE  sendAt' = "returned" /\ ~sendErr' /\ \A f \in FileNums : Whole(f)'
  BY DEF SuccessKept
<1> USE StreamAssumption
<1>0. AtWork /\ Fresh /\ SuccessKept /\ partErr \in BOOLEAN /\ part \in Parts
  BY DEF StreamInv, RecvTypes
<1>1. CASE SendStep \/ FileFails
  <2>1. sendAt = "returned"
    BY <1>0, <1>1, SendKeeps DEF SuccessKept
  <2> QED
    BY <1>1, <2>1 DEF SendStep, OpenFile, CopyChunk, FileSent, FileFails, FileFailsGoingTo,
       WriteErrHeader, WriteErrText, WriteErrFails, FilesSent, CloseSender, CloseSenderFails
<1>2. CASE Transfer \/ ReaderCloses \/ ConnectionBreaks \/ TransferEnds
  BY <1>0, <1>2 DEF Transfer, ReaderCloses, ConnectionBreaks, TransferEnds
<1>3. CASE UNCHANGED streamVars
  BY <1>0, <1>3 DEF streamVars, sendVars, recvVars, SuccessKept, Whole
<1>4. CASE NextPart \/ WritersFail \/ NextPartFails \/ ReadChunk \/ PartRead \/ PartBroken
     \/ EgWait
  BY <1>4 DEF NextPart, WritersFail, NextPartFails, broken, ReadChunk, PartRead, PartBroken,
       EgWait,
              WriteEndsWhen, Ends, Receiver
<1>5. CASE CloseWriters
  BY <1>5 DEF CloseWriters, Ends, Receiver
<1>6. ASSUME NEW x \in Writers, Go(x) \/ Written(x) \/ WrittenShort(x) PROVE FALSE
  BY <1>0, <1>6 DEF Go, GoBelow, Written, WrittenShort, Receiver, AtWork
<1>7. CASE LastPart
  <2>1. /\ recvAt = "next" /\ wire # <<>> /\ Head(wire) = Boundary
        /\ UNCHANGED <<sendVars, got, waiting, active, partErr, refuses, cut>>
    BY <1>7 DEF LastPart, Ends, Receiver
  <2>2. Sound /\ waiting = {} /\ active = {}
    BY <1>0, <2>1 DEF Sound, AtWork
  <2>3. PICK a \in Labels, b \in Labels, c \in Labels :
          /\ WritersAfter(a) /\ SenderAfter(b)
          /\ After(size, a, Head(wire), c) /\ Path(size, Tail(wire), c, b)
    BY <2>1, <2>2, ReceiverInOrder
  <2>4. Boundary # Chunk(part) /\ Boundary # Begin(ErrorPart) /\ Boundary # Begin(part + 1)
    BY DEF Boundary, Chunk, Begin
  <2>5. part = NumFiles /\ a = <<part, Size(size, part)>> /\ c = Done
    BY <2>1, <2>3, <2>4, NextInOrder DEF Done
  <2>6. b = Done
    <3>1. Tail(wire) \in Seq(Items)
      BY <2>1 DEF StreamInv, SendTypes
    <3> QED
      BY <2>3, <2>5, <3>1, PathDone
  <2>7. sendAt = "returned" /\ ~sendErr
    <3>1. b[1] = NumFiles + 1 /\ b # Bad
      BY <2>6 DEF Done, Bad
    <3>2. sendAt = "open" => b[1] = file - 1
      BY <2>3 DEF SenderAfter
    <3>3. sendAt = "copy" => b[1] = file
      BY <2>3 DEF SenderAfter
    <3>4. sendAt = "close" => b = Bad \/ b[1] = NumFiles
      BY <2>3 DEF SenderAfter
    <3>5. file <= NumFiles + 1 /\ file \in Int /\ (sendAt = "copy" => file <= NumFiles)
          /\ sendAt \in {"idle", "open", "copy", "error", "text", "close", "returned"}
      BY DEF StreamInv, SendTypes
    <3>6. sendAt \notin {"open", "copy", "close"}
      BY <3>1, <3>2, <3>3, <3>4, <3>5
    <3> QED
      BY <2>3, <3>1, <3>5, <3>6 DEF SenderAfter
  <2>8. \A f \in FileNums : Whole(f)
    <3>1. ASSUME NEW f \in FileNums PROVE Whole(f)
      <4>1. f < part \/ f = part
        BY <2>5, <3>1 DEF FileNums
      <4>2. a[2] = size[f] \/ f # part
        BY <2>5 DEF Size
      <4> QED
        BY <2>2, <2>3, <4>1, <4>2 DEF WritersAfter, Whole, Behind
    <3> QED
      BY <3>1
  <2> QED
    BY <2>1, <2>7, <2>8 DEF Whole, sendVars
<1> QED
  BY <1>1, <1>2, <1>3, <1>4, <1>5, <1>6, <1>7 DEF StreamNext, RecvStep

-----------------------------------------------------------------------------
\* The invariant holds at the beginning.
LEMMA StreamInvInit == StreamInit => StreamInv
<1> SUFFICES ASSUME StreamInit PROVE StreamInv
  OBVIOUS
<1> USE StreamAssumption
<1>1. SendTypes
  <2>1. 1 \in 1 .. (NumFiles + 1) /\ 0 \in 0 .. MaxChunks /\ 0 <= Capacity
    OBVIOUS
  <2>2. size \in [FileNums -> 0 .. MaxChunks]
    BY <2>1 DEF StreamInit
  <2>3. wire = <<>> /\ <<>> \in Seq(Items) /\ Len(<<>>) = 0
    BY DEF StreamInit
  <2> QED
    BY <2>1, <2>2, <2>3 DEF StreamInit, SendTypes
<1>2. RecvTypes
  <2>1. got \in [Parts -> [Writers -> Nat]]
    BY DEF StreamInit
  <2>2. part \in Parts
    BY ItemTypes DEF StreamInit, ErrorPart
  <2> QED
    BY <2>1, <2>2 DEF StreamInit, RecvTypes
<1>3. AtWork
  BY FS_EmptySet DEF StreamInit, AtWork
<1>4. Together /\ Fresh
  <2>1. part \in Parts /\ \A p \in Parts, w \in Writers : got[p][w] = 0
    BY ItemTypes DEF StreamInit, ErrorPart
  <2> QED
    BY <2>1 DEF StreamInit, Together, Even, Fresh
<1>5. InOrder /\ SuccessKept
  BY DEF StreamInit, InOrder, Sound, SuccessKept
<1> QED
  BY <1>1, <1>2, <1>3, <1>4, <1>5 DEF StreamInv

\* Every step keeps it.
LEMMA StreamInvStep == StreamInv /\ [StreamNext]_streamVars => StreamInv'
BY SendTypesStep, RecvTypesStep, AtWorkStep, TogetherStep, FreshStep, InOrderStep, SuccessStep
   DEF StreamInv

\* It holds always.
LEMMA StreamInvariant == StreamSpec => []StreamInv
BY StreamInvInit, StreamInvStep, PTL DEF StreamSpec

\* It implies the types of the module, and the limits.
LEMMA StreamInvTypes == StreamInv => StreamTypeOK
<1> SUFFICES ASSUME StreamInv PROVE StreamTypeOK
  OBVIOUS
<1>1. {sendErr, cut, refuses, partErr, recvErr} \subseteq BOOLEAN
  BY Zenon DEF StreamInv, SendTypes, RecvTypes
<1>2. file \in 1 .. NumFiles + 1
  BY DEF StreamInv, SendTypes
<1> QED
  BY <1>1, <1>2 DEF StreamInv, SendTypes, RecvTypes, AtWork, StreamTypeOK

(* For any number of files and writers, any limit and capacity, wherever a *)
(* file or a writer fails: who reads without an error, on a connection     *)
(* that holds and refusing the error part, has all files whole, and the    *)
(* sender has not failed.                                                  *)
THEOREM WholeOrError == StreamSpec => []SuccessMeansWhole
<1>1. StreamInv => SuccessMeansWhole
  BY DEF StreamInv, SuccessKept, SuccessMeansWhole
<1> QED
  BY <1>1, StreamInvariant, PTL

(* However the writers of a chunk are scheduled and fail: they have the    *)
(* same chunks whenever the next one is read.                              *)
THEOREM WritersStayTogether == StreamSpec => []WritersTogether
<1>1. StreamInv => WritersTogether
  BY DEF StreamInv, AtWork, RecvTypes, Together, Even, WritersTogether
<1> QED
  BY <1>1, StreamInvariant, PTL

(* No more than Limit writers are ever at work, and no more than Capacity  *)
(* items on the way.                                                       *)
THEOREM LimitsKept == StreamSpec => []StreamTypeOK
BY StreamInvariant, StreamInvTypes, PTL

-----------------------------------------------------------------------------
(* External commands.                                                       *)

\* The lines of stream s that its goroutine has taken from the pipe.
Taken(s) == written[s] - Len(pipe[s])

LineTypes ==
  /\ cmdAt \in {"idle", "range", "wait", "returned"}
  /\ cmdErr \in {"nil", "start", "pattern", "status"}
  /\ output \in [Streams -> Seq(Lines)] /\ written \in [Streams -> Nat]
  /\ pipe \in [Streams -> Seq(Lines)] /\ builder \in [Streams -> Seq(Lines)]
  /\ scanAt \in [Streams -> {"scan", "send", "ended"}]
  /\ exited \in BOOLEAN /\ closed \in BOOLEAN

\* What is in the pipes and in the builders is what the command wrote, in order.
LinesInOrder ==
  \A s \in Streams :
    /\ written[s] <= Len(output[s]) /\ Len(pipe[s]) <= PipeSize
    /\ Len(builder[s]) <= Taken(s)
    /\ \A i \in 1..Len(pipe[s]) : pipe[s][i] = output[s][Taken(s) + i]
    /\ \A i \in 1..Len(builder[s]) : builder[s][i] = output[s][i]

\* Before a call, and when it cannot start, there is nothing.
Started == cmdAt # "idle" /\ cmdErr # "start"
Unstarted ==
  ~Started => /\ \A s \in Streams : output[s] = <<>> /\ written[s] = 0 /\ pipe[s] = <<>>
                                    /\ builder[s] = <<>> /\ scanAt[s] = "ended"
              /\ ~exited /\ ~closed /\ cmdAt \in {"idle", "returned"}

HasLong(s) == \E i \in 1..Len(output[s]) : output[s][i] = "long"

\* How far a goroutine has got: it ends early only at a long line, or after the
\* caller was told of an error.
Scanned ==
  Started => \A s \in Streams :
    /\ scanAt[s] = "scan" => Len(builder[s]) = Taken(s)
    /\ scanAt[s] = "send" => Len(builder[s]) + 1 = Taken(s) /\ output[s][Taken(s)] = "error"
    /\ scanAt[s] = "ended" =>
         \/ HasLong(s) \/ cmdErr = "pattern"
         \/ exited /\ Len(builder[s]) = written[s]

\* The caller knows of every error in the builders, and of no other.
ErrorsKnown ==
  /\ \A s \in Streams : \A i \in 1..Len(builder[s]) :
       builder[s][i] = "error" => cmdErr = "pattern"
  /\ cmdErr = "pattern" => \E s \in Streams : \E i \in 1..written[s] : output[s][i] = "error"

\* What the caller does after the channel is closed.
CallerWaits ==
  /\ cmdAt \in {"idle", "range", "wait"} => cmdErr = "nil"
  /\ closed => \A s \in Streams : scanAt[s] = "ended"
  /\ cmdAt = "wait" \/ (cmdAt = "returned" /\ cmdErr \in {"nil", "status"}) =>
       closed /\ captured = builder

CmdInv == LineTypes /\ LinesInOrder /\ Unstarted /\ Scanned /\ ErrorsKnown /\ CallerWaits

-----------------------------------------------------------------------------
\* The call of one of several actions changes at most one stream.
LEMMA CmdInvInit == CmdInit => CmdInv
<1> SUFFICES ASSUME CmdInit PROVE CmdInv
  OBVIOUS
<1>1. \A s \in Streams : /\ output[s] = <<>> /\ written[s] = 0 /\ pipe[s] = <<>>
                         /\ builder[s] = <<>> /\ scanAt[s] = "ended"
  BY DEF CmdInit, Each
<1>2. LineTypes
  <2>1. /\ cmdAt = "idle" /\ cmdErr = "nil" /\ exited = FALSE /\ closed = FALSE
        /\ output = Each(<<>>) /\ written = Each(0) /\ pipe = Each(<<>>)
        /\ builder = Each(<<>>) /\ scanAt = Each("ended")
    BY DEF CmdInit
  <2>2. <<>> \in Seq(Lines)
    BY EmptySeq
  <2>3. \A S : \A x \in S : Each(x) \in [Streams -> S]
    BY DEF Each
  <2> QED
    BY <2>1, <2>2, <2>3 DEF LineTypes
<1>3. LinesInOrder
  BY <1>1, CmdAssumption DEF LinesInOrder, Taken
<1>4. Unstarted /\ Scanned /\ CallerWaits
  BY <1>1 DEF CmdInit, Unstarted, Started, Scanned, CallerWaits
<1>5. ErrorsKnown
  BY <1>1 DEF CmdInit, ErrorsKnown
<1> QED
  BY <1>2, <1>3, <1>4, <1>5 DEF CmdInv

\* Nothing is in a pipe or in a builder when a call starts.
LEMMA CmdInvRun ==
  ASSUME CmdInv, RunCmdWithOutputParser
  PROVE  CmdInv'
<1>1. ~Started
  BY DEF RunCmdWithOutputParser, Started
<1>2. output' \in [Streams -> Seq(Lines)]
  BY CmdAssumption DEF RunCmdWithOutputParser, SeqOf
<1>3. \A s \in Streams : /\ written'[s] = 0 /\ pipe'[s] = <<>> /\ builder'[s] = <<>>
                         /\ scanAt'[s] = "scan"
  BY <1>1 DEF RunCmdWithOutputParser, CmdInv, Unstarted, Each
<1>4. ~exited' /\ ~closed' /\ cmdErr' = "nil" /\ cmdAt' = "range"
  BY <1>1 DEF RunCmdWithOutputParser, CmdInv, Unstarted, CallerWaits
<1>5. LineTypes'
  BY <1>2, <1>4 DEF RunCmdWithOutputParser, CmdInv, LineTypes, Each
<1>6. LinesInOrder' /\ Unstarted' /\ Scanned' /\ ErrorsKnown'
  BY <1>2, <1>3, <1>4, CmdAssumption
     DEF LinesInOrder, Unstarted, Started, Scanned, ErrorsKnown, Taken
<1>7. CallerWaits'
  BY <1>4 DEF CallerWaits
<1> QED
  BY <1>5, <1>6, <1>7 DEF CmdInv

\* The command writes into a pipe behind what is there.
LEMMA CmdInvWrites ==
  ASSUME CmdInv, NEW s \in Streams, CommandWrites(s)
  PROVE  CmdInv'
<1> USE DEF CmdInv
<1> DEFINE line == output[s][written[s] + 1]
<1>1. line \in Lines
  BY DEF CommandWrites, LineTypes, LinesInOrder
<1>2. /\ pipe' = [pipe EXCEPT ![s] = Append(pipe[s], line)]
      /\ written' = [written EXCEPT ![s] = written[s] + 1]
      /\ UNCHANGED <<cmdAt, output, exited, scanAt, builder, closed, cmdErr, captured>>
      /\ written[s] < Len(output[s]) /\ Len(pipe[s]) < PipeSize /\ Started /\ ~exited
  BY DEF CommandWrites, CommandRuns, Started
<1> HIDE DEF line
<1>3. pipe' \in [Streams -> Seq(Lines)]
  BY <1>1, <1>2 DEF LineTypes
<1>4. LineTypes'
  BY <1>2, <1>3 DEF LineTypes
<1>5. \A r \in Streams : Taken(r)' = Taken(r)
  BY <1>2, <1>1 DEF LineTypes, Taken
<1>6. LinesInOrder'
  <2> SUFFICES ASSUME NEW r \in Streams
               PROVE  /\ written'[r] <= Len(output[r]) /\ Len(pipe'[r]) <= PipeSize
                      /\ Len(builder[r]) <= Taken(r)
                      /\ \A i \in 1..Len(pipe'[r]) : pipe'[r][i] = output[r][Taken(r) + i]
                      /\ \A i \in 1..Len(builder[r]) : builder[r][i] = output[r][i]
    BY <1>2, <1>5 DEF LinesInOrder
  <2>1. CASE r # s
    BY <2>1, <1>2 DEF LinesInOrder, LineTypes
  <2>2. CASE r = s
    <3>1. Len(pipe'[s]) = Len(pipe[s]) + 1
          /\ \A i \in 1..Len(pipe'[s]) :
               pipe'[s][i] = IF i <= Len(pipe[s]) THEN pipe[s][i] ELSE line
      BY <1>1, <1>2 DEF LineTypes
    <3>2. Len(pipe'[s]) <= PipeSize /\ written'[s] <= Len(output[s])
      BY <3>1, <1>2, CmdAssumption DEF LineTypes
    <3>3. \A i \in 1..Len(pipe'[s]) : pipe'[s][i] = output[s][Taken(s) + i]
      <4> SUFFICES ASSUME NEW i \in 1..Len(pipe'[s])
                   PROVE  pipe'[s][i] = output[s][Taken(s) + i]
        OBVIOUS
      <4>0. Len(pipe[s]) \in Nat
        BY DEF LineTypes
      <4>1. CASE i <= Len(pipe[s])
        <5>1. pipe'[s][i] = pipe[s][i] /\ i \in 1..Len(pipe[s])
          BY <4>1, <4>0, <3>1
        <5> QED
          BY <5>1 DEF LinesInOrder
      <4>2. CASE i = Len(pipe[s]) + 1
        <5>1. Taken(s) + i = written[s] + 1
          BY <4>2 DEF Taken, LineTypes
        <5> QED
          BY <5>1, <4>0, <4>2, <3>1 DEF line
      <4> QED
        BY <4>0, <4>1, <4>2, <3>1
    <3> QED
      BY <2>2, <3>2, <3>3, <1>2 DEF LinesInOrder
  <2> QED
    BY <2>1, <2>2
<1>7. Unstarted' /\ CallerWaits'
  BY <1>2 DEF Unstarted, Started, CallerWaits
<1>8. Scanned'
  BY <1>2, <1>5 DEF Scanned, Started, HasLong
<1>9. ErrorsKnown'
  BY <1>2 DEF ErrorsKnown, LineTypes
<1> QED
  BY <1>4, <1>6, <1>7, <1>8, <1>9

\* The scanner takes the next line, and keeps a plain one.
LEMMA CmdInvScan ==
  ASSUME CmdInv, NEW s \in Streams, Scan(s)
  PROVE  CmdInv'
<1> USE DEF CmdInv
<1> DEFINE line == Head(pipe[s])
<1>1. /\ scanAt[s] = "scan" /\ pipe[s] # <<>>
      /\ pipe' = [pipe EXCEPT ![s] = Tail(pipe[s])]
      /\ UNCHANGED <<cmdAt, output, written, exited, closed, cmdErr, captured>>
      /\ scanAt' = [scanAt EXCEPT ![s] = CASE line = "long"  -> "ended"
                                           [] line = "error" -> "send"
                                           [] OTHER          -> "scan"]
      /\ builder' = IF line = "plain" THEN [builder EXCEPT ![s] = Append(builder[s], line)]
                                      ELSE builder
  BY DEF Scan, ScanLine
<1>2. Started
  BY <1>1 DEF Unstarted
<1>3. /\ line \in Lines /\ Tail(pipe[s]) \in Seq(Lines)
      /\ Len(Tail(pipe[s])) = Len(pipe[s]) - 1
      /\ \A i \in 1..Len(Tail(pipe[s])) : Tail(pipe[s])[i] = pipe[s][i + 1]
      /\ line = pipe[s][1] /\ Len(pipe[s]) >= 1
  BY <1>1, HeadTailProperties DEF LineTypes
<1>4. line = output[s][Taken(s) + 1]
  BY <1>3 DEF LinesInOrder
<1> HIDE DEF line
<1>5. /\ LineTypes' /\ Len(pipe'[s]) = Len(pipe[s]) - 1
      /\ \A r \in Streams : r # s => pipe'[r] = pipe[r] /\ builder'[r] = builder[r]
                                     /\ scanAt'[r] = scanAt[r]
  BY <1>1, <1>3 DEF LineTypes
<1>6. Taken(s)' = Taken(s) + 1 /\ \A r \in Streams : r # s => Taken(r)' = Taken(r)
  BY <1>1, <1>5 DEF Taken, LineTypes
<1>7. Len(builder[s]) = Taken(s)
  BY <1>1, <1>2 DEF Scanned
<1>8. /\ line = "plain" => /\ Len(builder'[s]) = Len(builder[s]) + 1
                           /\ \A i \in 1..Len(builder'[s]) :
                                builder'[s][i] =
                                  IF i <= Len(builder[s]) THEN builder[s][i] ELSE line
      /\ line # "plain" => builder'[s] = builder[s]
  BY <1>1, <1>3 DEF LineTypes
<1>9. LinesInOrder'
  <2> SUFFICES ASSUME NEW r \in Streams
               PROVE  /\ written[r] <= Len(output[r]) /\ Len(pipe'[r]) <= PipeSize
                      /\ Len(builder'[r]) <= Taken(r)'
                      /\ \A i \in 1..Len(pipe'[r]) : pipe'[r][i] = output[r][Taken(r)' + i]
                      /\ \A i \in 1..Len(builder'[r]) : builder'[r][i] = output[r][i]
    BY <1>1 DEF LinesInOrder
  <2>1. CASE r # s
    BY <2>1, <1>5, <1>6 DEF LinesInOrder
  <2>2. CASE r = s
    <3>1. Taken(s) \in Nat
      BY <1>7 DEF LineTypes
    <3>2. Len(pipe'[s]) <= PipeSize /\ written[s] <= Len(output[s])
      BY <1>5, CmdAssumption DEF LinesInOrder, LineTypes
    <3>3. \A i \in 1..Len(pipe'[s]) : pipe'[s][i] = output[s][Taken(s) + 1 + i]
      <4> SUFFICES ASSUME NEW i \in 1..Len(pipe'[s])
                   PROVE  pipe'[s][i] = output[s][Taken(s) + 1 + i]
        OBVIOUS
      <4>1. pipe'[s][i] = pipe[s][i + 1] /\ i + 1 \in 1..Len(pipe[s])
        BY <1>1, <1>3, <1>5 DEF LineTypes
      <4>2. pipe[s][i + 1] = output[s][Taken(s) + (i + 1)]
        BY <4>1 DEF LinesInOrder
      <4>3. Taken(s) + (i + 1) = Taken(s) + 1 + i
        BY <3>1
      <4> QED
        BY <4>1, <4>2, <4>3
    <3>4. Len(builder'[s]) <= Taken(s) + 1
          /\ \A i \in 1..Len(builder'[s]) : builder'[s][i] = output[s][i]
      BY <1>7, <1>8, <1>4, <3>1 DEF LinesInOrder, LineTypes
    <3> QED
      BY <2>2, <3>2, <3>3, <3>4, <1>6
  <2> QED
    BY <2>1, <2>2
<1>10. Unstarted'
  BY <1>1, <1>2 DEF Unstarted, Started
<1>11. Scanned'
  <2> SUFFICES ASSUME NEW r \in Streams
               PROVE  /\ scanAt'[r] = "scan" => Len(builder'[r]) = Taken(r)'
                      /\ scanAt'[r] = "send" => /\ Len(builder'[r]) + 1 = Taken(r)'
                                                /\ output[r][Taken(r)'] = "error"
                      /\ scanAt'[r] = "ended" => \/ HasLong(r) \/ cmdErr = "pattern"
                                                 \/ exited /\ Len(builder'[r]) = written[r]
    BY <1>1 DEF Scanned, HasLong
  <2>1. CASE r # s
    BY <2>1, <1>5, <1>6, <1>2 DEF Scanned
  <2>2. CASE r = s
    <3>1. Taken(s) \in Nat /\ Taken(s) + 1 <= Len(output[s])
      BY <1>7, <1>3 DEF LineTypes, LinesInOrder, Taken
    <3>2. CASE line = "plain"
      BY <2>2, <3>1, <3>2, <1>1, <1>6, <1>7, <1>8 DEF LineTypes
    <3>3. CASE line = "error"
      BY <2>2, <3>1, <3>3, <1>1, <1>4, <1>6, <1>7, <1>8 DEF LineTypes
    <3>4. CASE line = "long"
      <4>1. HasLong(s)
        BY <3>1, <3>4, <1>4, Taken(s) + 1 \in 1..Len(output[s]) DEF HasLong, LineTypes
      <4> QED
        BY <2>2, <3>4, <4>1, <1>1 DEF LineTypes
    <3> QED
      BY <3>2, <3>3, <3>4, <1>3 DEF Lines
  <2> QED
    BY <2>1, <2>2
<1>12. ErrorsKnown'
  <2>1. \A i \in 1..Len(builder'[s]) : builder'[s][i] = "error" => cmdErr = "pattern"
    <3>1. CASE line = "plain"
      <4> SUFFICES ASSUME NEW i \in 1..Len(builder'[s]), builder'[s][i] = "error"
                   PROVE  cmdErr = "pattern"
        OBVIOUS
      <4>1. i <= Len(builder[s]) /\ builder[s][i] = "error"
        BY <3>1, <1>8
      <4> QED
        BY <4>1, Len(builder[s]) \in Nat DEF ErrorsKnown, LineTypes
    <3>2. CASE line # "plain"
      BY <3>2, <1>8 DEF ErrorsKnown
    <3> QED
      BY <3>1, <3>2
  <2> QED
    BY <2>1, <1>1, <1>5 DEF ErrorsKnown
<1>13. CallerWaits'
  <2>1. ~closed
    BY <1>1 DEF CallerWaits
  <2> QED
    BY <2>1, <1>1 DEF CallerWaits
<1> QED
  BY <1>5, <1>9, <1>10, <1>11, <1>12, <1>13

\* The scanner comes to the end of what the command has written.
LEMMA CmdInvScanEnds ==
  ASSUME CmdInv, NEW s \in Streams, ScanEnds(s)
  PROVE  CmdInv'
<1> USE DEF CmdInv
<1>1. /\ scanAt[s] = "scan" /\ pipe[s] = <<>> /\ exited
      /\ scanAt' = [scanAt EXCEPT ![s] = "ended"]
      /\ UNCHANGED <<cmdAt, output, written, exited, pipe, builder, closed, cmdErr, captured>>
  BY DEF ScanEnds
<1>2. Started /\ ~closed
  BY <1>1 DEF Unstarted, CallerWaits
<1>3. Len(builder[s]) = written[s]
  BY <1>1, <1>2 DEF Scanned, Taken, LineTypes
<1>4. LineTypes' /\ Unstarted' /\ ErrorsKnown' /\ CallerWaits'
  BY <1>1, <1>2 DEF LineTypes, Unstarted, Started, ErrorsKnown, CallerWaits
<1>5. LinesInOrder'
  BY <1>1 DEF LinesInOrder, Taken
<1>6. Scanned'
  BY <1>1, <1>2, <1>3 DEF Scanned, Started, HasLong, Taken, LineTypes
<1> QED
  BY <1>4, <1>5, <1>6

\* The caller receives the error of a line, which the goroutine then keeps.
LEMMA CmdInvReceive ==
  ASSUME CmdInv, NEW s \in Streams, Receive(s)
  PROVE  CmdInv'
<1> USE DEF CmdInv
<1>1. /\ cmdAt = "range" /\ scanAt[s] = "send"
      /\ cmdAt' = "returned" /\ cmdErr' = "pattern"
      /\ builder' = [builder EXCEPT ![s] = Append(builder[s], "error")]
      /\ scanAt' = [scanAt EXCEPT ![s] = IF s = "stdout" THEN "scan" ELSE "ended"]
      /\ UNCHANGED <<output, written, exited, pipe, closed, captured>>
  BY DEF Receive
<1>2. Started /\ ~closed
  BY <1>1 DEF Unstarted, CallerWaits
<1>3. Len(builder[s]) + 1 = Taken(s) /\ output[s][Taken(s)] = "error"
  BY <1>1, <1>2 DEF Scanned
<1>4. Len(builder[s]) \in Nat /\ Taken(s) \in 1..written[s]
  BY <1>3 DEF LineTypes, Taken
<1>5. /\ Len(builder'[s]) = Taken(s)
      /\ \A i \in 1..Len(builder'[s]) :
           builder'[s][i] = IF i <= Len(builder[s]) THEN builder[s][i] ELSE "error"
      /\ \A r \in Streams : r # s => builder'[r] = builder[r]
      /\ LineTypes'
  BY <1>1, <1>3 DEF LineTypes, Lines
<1>6. \A i \in 1..Len(builder'[s]) : builder'[s][i] = output[s][i]
  <2> SUFFICES ASSUME NEW i \in 1..Len(builder'[s]) PROVE builder'[s][i] = output[s][i]
    OBVIOUS
  <2>1. CASE i <= Len(builder[s])
    BY <2>1, <1>4, <1>5 DEF LinesInOrder
  <2>2. CASE i = Taken(s)
    BY <2>2, <1>3, <1>4, <1>5
  <2> QED
    BY <2>1, <2>2, <1>3, <1>4, <1>5
<1>7. \A r \in Streams : Taken(r)' = Taken(r)
  BY <1>1 DEF Taken
<1>8. LinesInOrder'
  <2> SUFFICES ASSUME NEW r \in Streams
               PROVE  /\ written[r] <= Len(output[r]) /\ Len(pipe[r]) <= PipeSize
                      /\ Len(builder'[r]) <= Taken(r)
                      /\ \A i \in 1..Len(pipe[r]) : pipe[r][i] = output[r][Taken(r) + i]
                      /\ \A i \in 1..Len(builder'[r]) : builder'[r][i] = output[r][i]
    BY <1>1, <1>7 DEF LinesInOrder
  <2>1. CASE r # s
    BY <2>1, <1>5 DEF LinesInOrder
  <2>2. CASE r = s
    BY <2>2, <1>4, <1>5, <1>6 DEF LinesInOrder
  <2> QED
    BY <2>1, <2>2
<1>9. Unstarted' /\ CallerWaits'
  BY <1>1, <1>2 DEF Unstarted, Started, CallerWaits, LineTypes
<1>10. Scanned'
  BY <1>1, <1>2, <1>4, <1>5, <1>7 DEF Scanned, LineTypes
<1>11. ErrorsKnown'
  BY <1>1, <1>3, <1>4 DEF ErrorsKnown
<1> QED
  BY <1>5, <1>8, <1>9, <1>10, <1>11

\* The steps of the command, of the caller and of the goroutine that closes the
\* channel touch no line.
LEMMA CmdInvRest ==
  ASSUME CmdInv,
         \/ StartFails \/ CommandExits \/ CommandKilled \/ CloseErrChan \/ RangeEnds \/ Wait
  PROVE  CmdInv'
<1> USE DEF CmdInv
<1>1. UNCHANGED <<output, written, pipe, scanAt, builder>>
  BY DEF StartFails, CommandExits, CommandKilled, CloseErrChan, CloseWhenEnded, RangeEnds, Wait
<1>2. LinesInOrder'
  BY <1>1 DEF LinesInOrder, Taken
<1>3. LineTypes'
  <2>1. /\ cmdAt' \in {"idle", "range", "wait", "returned"}
        /\ cmdErr' \in {"nil", "start", "pattern", "status"}
        /\ exited' \in BOOLEAN /\ closed' \in BOOLEAN
    BY DEF LineTypes, StartFails, CommandExits, CommandKilled, CloseErrChan, CloseWhenEnded,
           RangeEnds, Wait
  <2> QED
    BY <2>1, <1>1 DEF LineTypes
<1>4. Unstarted'
  <2>1. CASE Started
    BY <2>1, <1>1 DEF Started, Unstarted, StartFails, CommandExits, CommandKilled,
       CloseErrChan, CloseWhenEnded, RangeEnds, Wait
  <2>2. CASE ~Started
    BY <2>2, <1>1 DEF Started, Unstarted, StartFails, CommandExits, CommandKilled, CommandRuns,
       CloseErrChan, CloseWhenEnded, RangeEnds, Wait
  <2> QED
    BY <2>1, <2>2
<1>5. Started' => Started /\ (exited => exited') /\ (cmdErr = "pattern" <=> cmdErr' = "pattern")
  BY DEF Started, CallerWaits, StartFails, CommandExits, CommandKilled, CommandRuns,
     CloseErrChan, CloseWhenEnded, RangeEnds, Wait
<1>6. Scanned'
  BY <1>1, <1>5 DEF Scanned, HasLong, Taken
<1>7. cmdErr' = "pattern" <=> cmdErr = "pattern"
  BY DEF CallerWaits, StartFails, CommandExits, CommandKilled, CloseErrChan, CloseWhenEnded,
     RangeEnds, Wait
<1>8. ErrorsKnown'
  BY <1>1, <1>7 DEF ErrorsKnown
<1>9. CallerWaits'
  <2>1. CASE StartFails
    BY <2>1 DEF StartFails, CallerWaits
  <2>2. CASE CommandExits \/ CommandKilled
    BY <2>2 DEF CommandExits, CommandKilled, CallerWaits
  <2>3. CASE CloseErrChan
    BY <2>3 DEF CloseErrChan, CloseWhenEnded, CallerWaits
  <2>4. CASE RangeEnds \/ Wait
    BY <2>4 DEF RangeEnds, Wait, CallerWaits
  <2> QED
    BY <2>1, <2>2, <2>3, <2>4
<1> QED
  BY <1>2, <1>3, <1>4, <1>6, <1>8, <1>9

\* Every step keeps the invariant.
LEMMA CmdInvStep == CmdInv /\ [CmdNext]_cmdVars => CmdInv'
<1> SUFFICES ASSUME CmdInv, [CmdNext]_cmdVars PROVE CmdInv'
  OBVIOUS
<1>1. CASE CmdReturns
  <2>1. CmdInit'
    BY <1>1 DEF CmdReturns, CmdInit
  <2> QED
    BY <2>1, CmdInvInit, PTL
<1>2. CASE UNCHANGED cmdVars
  BY <1>2 DEF cmdVars, CmdInv, LineTypes, LinesInOrder, Unstarted, Started, Scanned, HasLong,
              ErrorsKnown, CallerWaits, Taken
<1> QED
  BY <1>1, <1>2, CmdInvRun, CmdInvWrites, CmdInvScan, CmdInvScanEnds, CmdInvReceive, CmdInvRest
  DEF CmdNext, CmdStep

\* What the invariant says of a caller that has returned.
LEMMA CmdInvFaithful ==
  ASSUME CmdInv
  PROVE  CmdTypeOK /\ OutputFaithful
<1> USE DEF CmdInv
<1>1. CmdTypeOK
  BY DEF CmdTypeOK, LineTypes, LinesInOrder, Taken
<1>2. ASSUME cmdAt = "returned", cmdErr \in {"nil", "status"}, NoLongLine, NEW s \in Streams
      PROVE  /\ captured[s] = SubSeq(output[s], 1, written[s])
             /\ ~Contains(SubSeq(output[s], 1, written[s]), "error")
  <2>1. Started /\ closed /\ captured[s] = builder[s] /\ scanAt[s] = "ended"
    BY <1>2 DEF Started, CallerWaits
  <2>2. ~HasLong(s)
    BY <1>2 DEF NoLongLine, HasLong, Contains
  <2>3. Len(builder[s]) = written[s]
    BY <2>1, <2>2, <1>2 DEF Scanned
  <2>4. /\ written[s] \in Nat /\ written[s] <= Len(output[s]) /\ output[s] \in Seq(Lines)
        /\ builder[s] \in Seq(Lines)
    BY DEF LineTypes, LinesInOrder
  <2> DEFINE took == SubSeq(output[s], 1, written[s])
  <2>5. took \in Seq(Lines) /\ Len(took) = written[s]
        /\ \A i \in 1..written[s] : took[i] = output[s][i]
    BY <2>4, SubSeqProperties
  <2>6. captured[s] = took
    <3> HIDE DEF took
    <3>1. \A i \in 1..written[s] : builder[s][i] = took[i]
      BY <2>3, <2>5 DEF LinesInOrder
    <3> QED
      BY <3>1, <2>1, <2>3, <2>4, <2>5, SeqEqual
  <2>7. ~Contains(took, "error")
    BY <2>1, <2>6, <1>2 DEF Contains, ErrorsKnown
  <2> QED
    BY <2>6, <2>7
<1>3. ASSUME cmdErr = "pattern"
      PROVE  \E s \in Streams : Contains(SubSeq(output[s], 1, written[s]), "error")
  <2>1. PICK s \in Streams : \E i \in 1..written[s] : output[s][i] = "error"
    BY <1>3 DEF ErrorsKnown
  <2>2. written[s] \in Nat /\ written[s] <= Len(output[s]) /\ output[s] \in Seq(Lines)
    BY DEF LineTypes, LinesInOrder
  <2>3. Len(SubSeq(output[s], 1, written[s])) = written[s]
        /\ \A i \in 1..written[s] : SubSeq(output[s], 1, written[s])[i] = output[s][i]
    BY <2>2, SubSeqProperties
  <2> QED
    BY <2>1, <2>3 DEF Contains
<1> QED
  BY <1>1, <1>2, <1>3 DEF OutputFaithful, OutputComplete, PatternErrorReported

\* The caller of a command gets what it wrote.
THEOREM OutputFaithfulAlways == CmdSpec => []OutputFaithful
BY CmdInvInit, CmdInvStep, CmdInvFaithful, PTL DEF CmdSpec

-----------------------------------------------------------------------------
(* Temporary directories.                                                   *)

TempTypeOK ==
  /\ temp \in [Dirs -> Stamps] /\ filled \subseteq Dirs /\ clock \in 0..MaxTime
  /\ removeAt \in {"idle", "all", "contents", "returned"}
  /\ removed \subseteq Dirs /\ removeErr \in BOOLEAN
  /\ cleanAt \in {"idle", "loop", "returned"}
  /\ listed \in [Dirs -> Stamps] /\ names \subseteq Dirs
  /\ began \in 0..MaxTime /\ cleanErr \in BOOLEAN

\* The owner removes one directory at a time.
OneRemoved == removeAt # "idle" => \E d \in Dirs : removed = {d}

\* While somebody cleans, a name it has listed is not given to a new directory.
ListKept ==
  /\ began <= clock
  /\ \A d \in names : listed[d] # NoDir
  /\ \A d \in Dirs : listed[d] # NoDir => temp[d] \in {listed[d], NoDir}

\* The names that the loop has left behind without an error.
Processed ==
  /\ cleanAt # "returned" => ~cleanErr
  /\ cleanAt = "returned" /\ ~cleanErr => names = {}
  /\ cleanAt # "idle" /\ ~cleanErr =>
       \A d \in Dirs \ names :
         listed[d] # NoDir => listed[d] # Malformed /\ (temp[d] = NoDir \/ ~Old(d))

TempInv == TempTypeOK /\ OneRemoved /\ ListKept /\ Processed /\ RemovedOrEmpty

-----------------------------------------------------------------------------
\* A base directory without names has the right type.
LEMMA EmptyTyped == Empty \in [Dirs -> Stamps]
<1>1. NoDir \in Stamps
  BY DEF Stamps
<1> QED
  BY <1>1 DEF Empty

\* The invariant holds at the beginning.
LEMMA TempInvInit == TempInit => TempInv
<1> SUFFICES ASSUME TempInit PROVE TempInv
  OBVIOUS
<1>1. TempTypeOK
  <2>1. temp \in [Dirs -> Stamps] /\ listed \in [Dirs -> Stamps]
    BY EmptyTyped, Zenon DEF TempInit
  <2>2. clock \in 0..MaxTime /\ began \in 0..MaxTime
    BY TempAssumption DEF TempInit
  <2> QED
    BY <2>1, <2>2 DEF TempInit, TempTypeOK
<1>2. OneRemoved /\ ListKept /\ Processed /\ RemovedOrEmpty
  BY DEF TempInit, Empty, OneRemoved, ListKept, Processed, RemovedOrEmpty
<1> QED
  BY <1>1, <1>2 DEF TempInv

\* Types are kept by every step.
LEMMA TempTypeStep == TempTypeOK /\ [TempNext]_tempVars => TempTypeOK'
<1> SUFFICES ASSUME TempTypeOK, [TempNext]_tempVars PROVE TempTypeOK'
  OBVIOUS
<1> USE TempAssumption DEF TempTypeOK, notRemoving, notCleaning, removeVars, cleanVars
<1>1. CASE TimePasses
  BY <1>1 DEF TimePasses
<1>2. CASE RemoveReturns
  BY <1>2 DEF RemoveReturns
<1>3. CASE CleanOldDirs
  BY <1>3 DEF CleanOldDirs, There
<1>4. CASE CleanEnds
  BY <1>4 DEF CleanEnds
<1>5. CASE CleanReturns
  <2>1. listed' = Empty /\ began' = 0
    BY <1>5 DEF CleanReturns
  <2>2. listed' \in [Dirs -> Stamps]
    BY <2>1, EmptyTyped, Zenon
  <2>3. began' \in 0..MaxTime
    BY <2>1
  <2> QED
    BY <1>5, <2>2, <2>3 DEF CleanReturns
<1>6. ASSUME NEW d \in Dirs, CreateTempDir(d) PROVE TempTypeOK'
  BY <1>6 DEF CreateTempDir, Stamps
<1>7. ASSUME NEW d \in Dirs, AlienCreated(d) PROVE TempTypeOK'
  BY <1>7 DEF AlienCreated, Stamps
<1>8. ASSUME NEW d \in Dirs, RemoveTempDir(d) PROVE TempTypeOK'
  BY <1>8 DEF RemoveTempDir
<1>9. ASSUME NEW d \in Dirs, RemoveAll(d) PROVE TempTypeOK'
  BY <1>9 DEF RemoveAll, Gone, Stamps
<1>10. ASSUME NEW d \in Dirs, removeDirContents(d) PROVE TempTypeOK'
  BY <1>10 DEF removeDirContents
<1>11. ASSUME NEW d \in Dirs, KeepYoung(d) PROVE TempTypeOK'
  BY <1>11 DEF KeepYoung, CleanDone
<1>12. ASSUME NEW d \in Dirs, CleanOld(d) PROVE TempTypeOK'
  BY <1>12 DEF CleanOld, CleanDone, Gone, Stamps
<1>13. ASSUME NEW d \in Dirs, CleanFails(d) PROVE TempTypeOK'
  BY <1>13 DEF CleanFails, CleanDone
<1>14. CASE UNCHANGED tempVars
  BY <1>14 DEF tempVars
<1> QED
  BY <1>1, <1>2, <1>3, <1>4, <1>5, <1>6, <1>7, <1>8, <1>9, <1>10, <1>11, <1>12, <1>13, <1>14
     DEF TempNext

\* So is the rest of the invariant.
LEMMA TempInvStep == TempInv /\ [TempNext]_tempVars => TempInv'
<1> SUFFICES ASSUME TempInv, [TempNext]_tempVars
             PROVE  (OneRemoved /\ ListKept /\ Processed /\ RemovedOrEmpty)'
  BY TempTypeStep DEF TempInv
<1> USE TempAssumption
    DEF TempInv, TempTypeOK, OneRemoved, ListKept, Processed, RemovedOrEmpty, Old,
        notRemoving, notCleaning, removeVars, cleanVars
<1> DEFINE Goal == (OneRemoved /\ ListKept /\ Processed /\ RemovedOrEmpty)'
<1>1. CASE TimePasses
  BY <1>1 DEF TimePasses
<1>2. CASE RemoveReturns
  BY <1>2 DEF RemoveReturns
<1>3. CASE CleanOldDirs
  BY <1>3 DEF CleanOldDirs, There
<1>4. CASE CleanEnds
  BY <1>4 DEF CleanEnds
<1>5. CASE CleanReturns
  BY <1>5 DEF CleanReturns, Empty
<1>6. ASSUME NEW d \in Dirs, CreateTempDir(d) PROVE Goal
  BY <1>6 DEF CreateTempDir, Unused
<1>7. ASSUME NEW d \in Dirs, AlienCreated(d) PROVE Goal
  BY <1>7 DEF AlienCreated, Unused
<1>8. ASSUME NEW d \in Dirs, RemoveTempDir(d) PROVE Goal
  BY <1>8 DEF RemoveTempDir
<1>9. ASSUME NEW d \in Dirs, RemoveAll(d) PROVE Goal
  BY <1>9 DEF RemoveAll, Gone
<1>10. ASSUME NEW d \in Dirs, removeDirContents(d) PROVE Goal
  BY <1>10 DEF removeDirContents
<1>11. ASSUME NEW d \in Dirs, KeepYoung(d) PROVE Goal
  <2>1. UNCHANGED <<temp, filled, clock, removeAt, removed, removeErr, listed, began>>
    BY <1>11 DEF KeepYoung, CleanDone
  <2>2. names' = names \ {d} /\ cleanErr' = FALSE /\ cleanAt' = "loop"
    BY <1>11 DEF KeepYoung, CleanDone
  <2>3. listed[d] # Malformed /\ ~Old(d) /\ cleanAt = "loop"
    BY <1>11 DEF KeepYoung
  <2>4. OneRemoved' /\ ListKept' /\ RemovedOrEmpty'
    BY <2>1, <2>2, <2>3
  <2>5. Processed'
    BY <2>1, <2>2, <2>3
  <2> QED
    BY <2>4, <2>5
<1>12. ASSUME NEW d \in Dirs, CleanOld(d) PROVE Goal
  <2>1. UNCHANGED <<clock, removeAt, removed, removeErr, listed, began>>
    BY <1>12 DEF CleanOld, CleanDone
  <2>2. names' = names \ {d} /\ cleanErr' = FALSE /\ cleanAt' = "loop"
    BY <1>12 DEF CleanOld, CleanDone
  <2>3. temp' = [temp EXCEPT ![d] = NoDir] /\ filled' = filled \ {d}
    BY <1>12 DEF CleanOld, Gone
  <2>4. listed[d] # Malformed /\ cleanAt = "loop" /\ d \in names
    BY <1>12 DEF CleanOld
  <2>5. OneRemoved' /\ ListKept' /\ RemovedOrEmpty'
    BY <2>1, <2>2, <2>3, <2>4
  <2>6. Processed'
    BY <2>1, <2>2, <2>3, <2>4
  <2> QED
    BY <2>5, <2>6
<1>13. ASSUME NEW d \in Dirs, CleanFails(d) PROVE Goal
  BY <1>13 DEF CleanFails, CleanDone
<1>14. CASE UNCHANGED tempVars
  BY <1>14 DEF tempVars
<1> QED
  BY <1>1, <1>2, <1>3, <1>4, <1>5, <1>6, <1>7, <1>8, <1>9, <1>10, <1>11, <1>12, <1>13, <1>14
     DEF TempNext

\* The invariant holds always.
LEMMA TempInvariant == TempSpec => []TempInv
BY TempInvInit, TempInvStep, PTL DEF TempSpec

-----------------------------------------------------------------------------
\* The invariant implies what the callers rely on.
LEMMA TempInvGone == TempInv => NoErrorMeansGone
BY DEF TempInv, TempTypeOK, Processed, NoErrorMeansGone, CleanMeansOldGone, There,
       NoDir, Malformed

(* Whoever cleans or removes, whatever fails and however the two           *)
(* interleave: a call without an error has removed what it was to remove.  *)
THEOREM RemovalReported == TempSpec => []NoErrorMeansGone
BY TempInvariant, TempInvGone, PTL

\* A name disappears by its owner or for its age.
KeepsYoung ==
  \A d \in There : temp'[d] = NoDir =>
    d \in removed \/ (temp[d] # Malformed /\ clock - temp[d] > maxFileAge)

\* No step takes away a young directory of another.
LEMMA YoungStep == TempInv /\ [TempNext]_tempVars => [KeepsYoung]_tempVars
<1> SUFFICES ASSUME TempInv, TempNext PROVE KeepsYoung
  OBVIOUS
<1> USE TempAssumption DEF TempInv, TempTypeOK, KeepsYoung, There, NoDir, Malformed
<1>1. CASE TimePasses \/ RemoveReturns \/ CleanOldDirs \/ CleanEnds \/ CleanReturns
  BY <1>1 DEF TimePasses, RemoveReturns, CleanOldDirs, CleanEnds, CleanReturns
<1>2. ASSUME NEW d \in Dirs, CreateTempDir(d) \/ AlienCreated(d) PROVE KeepsYoung
  BY <1>2 DEF CreateTempDir, AlienCreated
<1>3. ASSUME NEW d \in Dirs,
             RemoveTempDir(d) \/ removeDirContents(d) \/ KeepYoung(d) \/ CleanFails(d)
      PROVE  KeepsYoung
  BY <1>3 DEF RemoveTempDir, removeDirContents, KeepYoung, CleanFails
<1>4. ASSUME NEW d \in Dirs, RemoveAll(d) PROVE KeepsYoung
  BY <1>4 DEF RemoveAll, Gone
<1>5. ASSUME NEW d \in Dirs, CleanOld(d) PROVE KeepsYoung
  <2>1. temp[d] \in {listed[d], NoDir} /\ began <= clock /\ Old(d)
    BY <1>5 DEF CleanOld, ListKept
  <2> QED
    BY <1>5, <2>1 DEF CleanOld, Gone, Old, Stamps
<1> QED
  BY <1>1, <1>2, <1>3, <1>4, <1>5 DEF TempNext

(* No cleaner ever takes a directory that is younger than maxFileAge, or a *)
(* name without a time stamp, away from its owner.                         *)
THEOREM YoungAlwaysKept == TempSpec => YoungKept
<1>1. TempInv /\ [TempNext]_tempVars
        => [\A d \in There : temp'[d] = NoDir =>
              d \in removed \/ (temp[d] # Malformed /\ clock - temp[d] > maxFileAge)]_tempVars
  BY YoungStep DEF KeepsYoung
<1> QED
  BY <1>1, TempInvariant, PTL DEF TempSpec, YoungKept

-----------------------------------------------------------------------------
(* The logger.                                                              *)

LoggerTypeOK ==
  /\ logAt \in [Goroutines -> {"idle", "get", "make", "lock", "set", "print", "unlock"}]
  /\ call \in [Goroutines -> Calls] /\ LogLevel \in Levels /\ onceDone \in BOOLEAN

\* The mutex: whoever is past Lock holds it.
Inside(g) == logAt[g] \in {"set", "print", "unlock"}
MutexHeld == \A g \in Goroutines : Inside(g) => mu = g

\* The function of once.Do runs once, and nobody is past it before it has.
OnceRuns ==
  /\ \A g \in Goroutines : logAt[g] = "make" => once = g /\ ~onceDone
  /\ \A g \in Goroutines : logAt[g] \in {"lock", "set", "print", "unlock"} => onceDone
  /\ ~onceDone => lastSet = EnvLevel

\* A message that is printed has passed the test of its level.
Admitted == \A g \in Goroutines : logAt[g] = "print" => call[g].level <= LogLevel

LoggerInv == LoggerTypeOK /\ MutexHeld /\ OnceRuns /\ Admitted /\ SettingKept

-----------------------------------------------------------------------------
\* The invariant holds at the beginning.
LEMMA LoggerInvInit == LoggerInit => LoggerInv
<1> SUFFICES ASSUME LoggerInit PROVE LoggerInv
  OBVIOUS
<1>1. LoggerTypeOK
  <2>1. NoCall \in Calls
    BY DEF Calls, NoCall, Levels, ERROR, DEBUG
  <2>2. ERROR \in Levels
    BY DEF Levels, ERROR, DEBUG
  <2> QED
    BY <2>1, <2>2 DEF LoggerInit, LoggerTypeOK
<1>2. MutexHeld /\ OnceRuns /\ Admitted /\ SettingKept
  BY DEF LoggerInit, MutexHeld, Inside, OnceRuns, Admitted, SettingKept
<1> QED
  BY <1>1, <1>2 DEF LoggerInv

\* It is kept by every step of a goroutine.
LEMMA LoggerInvStep == LoggerInv /\ [LoggerNext]_loggerVars => LoggerInv'
<1> SUFFICES ASSUME LoggerInv, [LoggerNext]_loggerVars PROVE LoggerInv'
  OBVIOUS
<1> USE LoggerAssumption
    DEF LoggerInv, LoggerTypeOK, MutexHeld, Inside, OnceRuns, Admitted, SettingKept, At
<1>1. ASSUME NEW g \in Goroutines, Use(g) PROVE LoggerInv'
  BY <1>1 DEF Use
<1>2. ASSUME NEW g \in Goroutines, OnceBegins(g) PROVE LoggerInv'
  BY <1>2 DEF OnceBegins
<1>3. ASSUME NEW g \in Goroutines, NewLogger(g) PROVE LoggerInv'
  BY <1>3 DEF NewLogger
<1>4. ASSUME NEW g \in Goroutines, GetLogger(g) PROVE LoggerInv'
  BY <1>4 DEF GetLogger
<1>5. ASSUME NEW g \in Goroutines, Lock(g) PROVE LoggerInv'
  BY <1>5 DEF Lock, Calls, Levels, ERROR, DEBUG
<1>6. ASSUME NEW g \in Goroutines, SetLogLevel(g) PROVE LoggerInv'
  BY <1>6 DEF SetLogLevel, Calls
<1>7. ASSUME NEW g \in Goroutines, Println(g) PROVE LoggerInv'
  BY <1>7 DEF Println
<1>8. ASSUME NEW g \in Goroutines, Unlock(g) PROVE LoggerInv'
  BY <1>8 DEF Unlock, NoCall, Calls, Levels, ERROR, DEBUG
<1>9. CASE UNCHANGED loggerVars
  BY <1>9 DEF loggerVars
<1> QED
  BY <1>1, <1>2, <1>3, <1>4, <1>5, <1>6, <1>7, <1>8, <1>9 DEF LoggerNext, LoggerStep

\* It implies that the goroutines share one logger.
LEMMA LoggerInvOne == LoggerInv => OneLogger
BY DEF LoggerInv, MutexHeld, Inside, Admitted, OneLogger, PrintsAlone

(* However many goroutines log, set the level and race to be the first:    *)
(* whoever prints is alone and at a level in force, and the level that was *)
(* set last is kept.                                                       *)
THEOREM LoggerShared == LoggerSpec => []OneLogger
BY LoggerInvInit, LoggerInvStep, LoggerInvOne, PTL DEF LoggerSpec

-----------------------------------------------------------------------------
(* Side by side.                                                            *)

\* A step of the whole is a step of each component, or none of its variables.
LEMMA SideBySide ==
  ASSUME [Next]_<<cmdVars, streamVars, tempVars, loggerVars>>
  PROVE  [CmdNext]_cmdVars /\ [StreamNext]_streamVars
BY DEF Next

(* The types of the components, and with them the limits of the pipes and  *)
(* of the writers, hold in every run of the components side by side.       *)
THEOREM StreamTypesAlways == Spec => []TypesOK
<1> DEFINE Both == CmdInv /\ StreamInv
<1>1. Init => Both
  BY CmdInvInit, StreamInvInit DEF Init
<1>2. Both /\ [Next]_<<cmdVars, streamVars, tempVars, loggerVars>> => Both'
  BY SideBySide, CmdInvStep, StreamInvStep
<1>3. Both => TypesOK
  BY CmdInvFaithful, StreamInvTypes DEF TypesOK
<1> QED
  BY <1>1, <1>2, <1>3, PTL DEF Spec
=============================================================================
