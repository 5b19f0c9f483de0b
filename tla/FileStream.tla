----------------------------- MODULE FileStream -----------------------------
(***************************************************************************)
(* http/filestream over io/multiwriter: WriteFilesToStream sends files as  *)
(* parts of a multipart stream, ReadFilesFromStream hands each part to     *)
(* writers, which an AsyncMultiWriter feeds concurrently, chunk by chunk.  *)
(* A part without a file name carries the error of the sender.  What lies  *)
(* between the two may be cut; reading the stream then fails, and a reader *)
(* that has returned takes nothing more.  The multipart format is the Go   *)
(* library's: a part ends where the next one, or the final boundary,       *)
(* begins.                                                                 *)
(***************************************************************************)
EXTENDS Integers, Sequences, FiniteSets

CONSTANTS Writers,      \* the writers that FileWriterFunc gives for a file
          Limit,        \* the limit of the AsyncMultiWriter
          NumFiles,     \* the files are 1..NumFiles
          MaxChunks,    \* bound of their sizes
          Capacity      \* what the transport holds

ASSUME StreamAssumption ==
  /\ IsFiniteSet(Writers) /\ Limit \in Nat \ {0} /\ Capacity \in Nat \ {0}
  /\ NumFiles \in Nat /\ MaxChunks \in Nat

FileNums == 1..NumFiles
ErrorPart == 0                       \* has no file name
Parts == {ErrorPart} \union FileNums
Begin(p) == <<"begin", p>>
Chunk(p) == <<"chunk", p>>
Boundary == <<"boundary", ErrorPart>>

VARIABLES sendAt,     \* WriteFilesToStream
          size,       \* chunks of each file
          file,       \* the file it is at
          sent,       \* its chunks that were sent
          sendErr,    \* the error it returns
          wire,       \* what is on its way
          cut,        \* whether the connection is broken
          recvAt,     \* ReadFilesFromStream
          refuses,    \* whether FileWriterFunc refuses a part without a name
          part,       \* the part it is at
          waiting,    \* writers of the chunk that Go was not called for yet
          active,     \* writers that are writing it
          got,        \* chunks that each writer has of each part
          partErr,    \* the error of readFile
          recvErr     \* the error of ReadFilesFromStream

sendVars   == <<sendAt, size, file, sent, sendErr>>
recvVars   == <<recvAt, refuses, part, waiting, active, got, partErr, recvErr>>
streamVars == <<sendVars, wire, cut, recvVars>>

StreamInit ==
  /\ sendAt = "idle" /\ size = [f \in FileNums |-> 0] /\ file = 1 /\ sent = 0 /\ sendErr = FALSE
  /\ wire = <<>> /\ cut = FALSE
  /\ recvAt = "idle" /\ refuses = TRUE /\ part = ErrorPart /\ waiting = {} /\ active = {}
  /\ got = [p \in Parts |-> [w \in Writers |-> 0]] /\ partErr = FALSE /\ recvErr = FALSE

Transfer ==
  /\ sendAt = "idle" /\ sendAt' = "open" /\ recvAt' = "next"
  /\ size' \in [FileNums -> 0..MaxChunks] /\ refuses' \in BOOLEAN
  /\ UNCHANGED <<file, sent, sendErr, wire, cut, part, waiting, active, got, partErr, recvErr>>

-----------------------------------------------------------------------------
\* Sender.  A write to a broken connection fails, to a full one waits.
Puts(item)   == ~cut /\ Len(wire) < Capacity /\ wire' = Append(wire, item)
Sender(at)   == sendAt' = at /\ UNCHANGED <<size, cut, recvVars>>

OpenFile ==
  /\ sendAt = "open" /\ file <= NumFiles /\ Puts(Begin(file))
  /\ Sender("copy") /\ sent' = 0 /\ UNCHANGED <<file, sendErr>>

CopyChunk ==
  /\ sendAt = "copy" /\ sent < size[file] /\ Puts(Chunk(file))
  /\ Sender("copy") /\ sent' = sent + 1 /\ UNCHANGED <<file, sendErr>>

FileSent ==
  /\ sendAt = "copy" /\ sent = size[file]
  /\ Sender("open") /\ file' = file + 1 /\ UNCHANGED <<sent, sendErr, wire>>

FileFailsGoingTo(at) ==
  /\ sendAt \in {"open", "copy"} /\ file <= NumFiles
  /\ Sender(at) /\ sendErr' = TRUE /\ UNCHANGED <<file, sent, wire>>

\* Mutation: the reader of the stream is not told.
FileFails_Silently == FileFailsGoingTo("close")

\* The file cannot be opened, read or closed, or the connection is broken.
FileFails == FileFailsGoingTo("error")

\* writeErr: the error part, header and text, or a second error.
WriteErrHeader ==
  /\ sendAt = "error" /\ Puts(Begin(ErrorPart))
  /\ Sender("text") /\ UNCHANGED <<file, sent, sendErr>>

WriteErrText ==
  /\ sendAt = "text" /\ Puts(Chunk(ErrorPart))
  /\ Sender("close") /\ UNCHANGED <<file, sent, sendErr>>

WriteErrFails ==
  /\ sendAt \in {"error", "text"} /\ cut
  /\ Sender("close") /\ UNCHANGED <<file, sent, sendErr, wire>>

FilesSent ==
  /\ sendAt = "open" /\ file > NumFiles
  /\ Sender("close") /\ UNCHANGED <<file, sent, sendErr, wire>>

\* The deferred Close, which writes the final boundary in every case.
CloseSender ==
  /\ sendAt = "close" /\ Puts(Boundary)
  /\ Sender("returned") /\ UNCHANGED <<file, sent, sendErr>>

CloseSenderFails ==
  /\ sendAt = "close" /\ cut
  /\ Sender("returned") /\ sendErr' = TRUE /\ UNCHANGED <<file, sent, wire>>

\* Whoever called ReadFilesFromStream closes its end.
ReaderCloses ==
  /\ recvAt = "returned" /\ ~cut /\ cut' = TRUE
  /\ UNCHANGED <<sendVars, wire, recvVars>>

ConnectionBreaks ==
  /\ sendAt \notin {"idle", "returned"} /\ ~cut /\ cut' = TRUE
  /\ UNCHANGED <<sendVars, wire, recvVars>>

-----------------------------------------------------------------------------
\* Receiver.
Receiver(at) == recvAt' = at /\ UNCHANGED <<sendVars, cut, refuses>>
Ends(err)    == Receiver("returned") /\ recvErr' = err
Takes        == wire' = Tail(wire)
atChunk      == wire # <<>> /\ Head(wire) = Chunk(part)
broken       == wire = <<>> /\ cut /\ sendAt # "idle"

\* NextPart, then the FileWriterFunc for the part.
NextPart ==
  /\ recvAt = "next" /\ wire # <<>> /\ Head(wire) # Boundary
  /\ Takes /\ part' = Head(wire)[2]
  /\ IF part' = ErrorPart /\ refuses
       THEN Ends(TRUE)
       ELSE Receiver("copy") /\ UNCHANGED recvErr
  /\ UNCHANGED <<waiting, active, got, partErr>>

WritersFail ==
  /\ recvAt = "next" /\ wire # <<>> /\ Head(wire) # Boundary
  /\ Takes /\ part' = Head(wire)[2] /\ Ends(TRUE)
  /\ UNCHANGED <<waiting, active, got, partErr>>

LastPart ==
  /\ recvAt = "next" /\ wire # <<>> /\ Head(wire) = Boundary
  /\ Takes /\ Ends(FALSE) /\ UNCHANGED <<part, waiting, active, got, partErr>>

\* The error at the end of a broken stream may be, or wrap, io.EOF.
NextPartFails ==
  /\ recvAt = "next" /\ broken
  /\ \E err \in BOOLEAN : Ends(err)
  /\ UNCHANGED <<wire, part, waiting, active, got, partErr>>

ReadChunk ==
  /\ recvAt = "copy" /\ atChunk
  /\ Takes /\ waiting' = Writers /\ Receiver("write")
  /\ UNCHANGED <<part, active, got, partErr, recvErr>>

PartRead ==
  /\ recvAt = "copy" /\ wire # <<>> /\ ~atChunk
  /\ Receiver("close") /\ UNCHANGED <<wire, part, waiting, active, got, partErr, recvErr>>

PartBroken ==
  /\ recvAt = "copy" /\ broken /\ partErr' = TRUE
  /\ Receiver("close") /\ UNCHANGED <<wire, part, waiting, active, got, recvErr>>

GoBelow(w, limit) ==
  /\ recvAt = "write" /\ w \in waiting /\ Cardinality(active) < limit
  /\ waiting' = waiting \ {w} /\ active' = active \union {w}
  /\ Receiver("write") /\ UNCHANGED <<wire, part, got, partErr, recvErr>>

\* Mutation: the limit is exceeded by one.
Go_OverLimit(w) == GoBelow(w, Limit + 1)

\* AsyncMultiWriter.Write starts the writers, no more than Limit at a time.
Go(w) == GoBelow(w, Limit)

Written(w) ==
  /\ w \in active /\ active' = active \ {w}
  /\ got' = [got EXCEPT ![part][w] = @ + 1]
  /\ Receiver(recvAt) /\ UNCHANGED <<wire, part, waiting, partErr, recvErr>>

\* An error, or fewer bytes than the chunk has.
WrittenShort(w) ==
  /\ w \in active /\ active' = active \ {w} /\ partErr' = TRUE
  /\ Receiver(recvAt) /\ UNCHANGED <<wire, part, waiting, got, recvErr>>

WriteEndsWhen(over) ==
  /\ recvAt = "write" /\ over
  /\ Receiver(IF partErr THEN "close" ELSE "copy")
  /\ UNCHANGED <<wire, part, waiting, active, got, partErr, recvErr>>

\* Mutation: Write returns when all writers are started.
EgWait_Not == WriteEndsWhen(waiting = {})

EgWait == WriteEndsWhen(waiting = {} /\ active = {})

\* The deferred Close of the writers, each of which may fail too.
CloseWriters ==
  /\ recvAt = "close"
  /\ \E err \in {partErr, TRUE} :
       IF err THEN Ends(TRUE) ELSE Receiver("next") /\ UNCHANGED recvErr
  /\ partErr' = FALSE /\ UNCHANGED <<wire, part, waiting, active, got>>

TransferEnds ==
  /\ sendAt = "returned" /\ recvAt = "returned"
  /\ sendAt' = "idle" /\ size' = [f \in FileNums |-> 0] /\ file' = 1 /\ sent' = 0 /\ sendErr' = FALSE
  /\ wire' = <<>> /\ cut' = FALSE /\ recvAt' = "idle" /\ refuses' = TRUE /\ part' = ErrorPart
  /\ waiting' = {} /\ active' = {} /\ got' = [p \in Parts |-> [w \in Writers |-> 0]]
  /\ partErr' = FALSE /\ recvErr' = FALSE

SendStep == \/ OpenFile \/ CopyChunk \/ FileSent \/ (cut /\ FileFails) \/ WriteErrHeader \/ WriteErrText
            \/ WriteErrFails \/ FilesSent \/ CloseSender \/ CloseSenderFails
RecvStep == \/ NextPart \/ WritersFail \/ LastPart \/ NextPartFails \/ ReadChunk \/ PartRead
            \/ PartBroken \/ EgWait \/ CloseWriters
            \/ \E w \in Writers : Go(w) \/ Written(w) \/ WrittenShort(w)
StreamNext == Transfer \/ SendStep \/ FileFails \/ RecvStep \/ ReaderCloses \/ ConnectionBreaks \/ TransferEnds
StreamSpec == /\ StreamInit /\ [][StreamNext]_streamVars
              /\ WF_streamVars(SendStep) /\ WF_streamVars(RecvStep) /\ WF_streamVars(ReaderCloses)

-----------------------------------------------------------------------------
StreamTypeOK ==
  /\ sendAt \in {"idle", "open", "copy", "error", "text", "close", "returned"}
  /\ recvAt \in {"idle", "next", "copy", "write", "close", "returned"}
  /\ file \in 1..NumFiles + 1 /\ sent \in 0..MaxChunks /\ Len(wire) <= Capacity
  /\ part \in Parts /\ waiting \subseteq Writers /\ active \subseteq Writers
  /\ Cardinality(active) <= Limit
  /\ {sendErr, cut, refuses, partErr, recvErr} \subseteq BOOLEAN

(* A reader that returns no error, on a connection that holds and with a   *)
(* FileWriterFunc that refuses the nameless error part, has every file     *)
(* whole in each of its writers, and the sender has not failed: a file     *)
(* that breaks off halfway looks complete on the wire and only the error   *)
(* part after it tells.                                                    *)
Whole(p) == \A w \in Writers : got[p][w] = size[p]

SuccessMeansWhole ==
  recvAt = "returned" /\ ~recvErr /\ refuses /\ ~cut
    => ~sendErr /\ \A f \in FileNums : Whole(f)

(* The writers of a part have the same chunks whenever its next chunk, or  *)
(* the next part, is read.                                                 *)
WritersTogether ==
  recvAt \in {"next", "copy"} => \A w, v \in Writers : got[part][w] = got[part][v]

(* Both ends return, when the reader's end is closed after it has returned.*)
TransferCompletes == (sendAt = "open") ~> (sendAt = "returned" /\ recvAt = "returned")
=============================================================================
