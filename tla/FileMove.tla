------------------------------ MODULE FileMove ------------------------------
(***************************************************************************)
(* io/fileutils: MoveDir, MoveFile and CopyDir, CopyFile, one system call  *)
(* after the other.  Every call may fail, the program may stop at any      *)
(* moment, and the caller may call again with the same directories.  The   *)
(* destination lies outside the source.                                    *)
(***************************************************************************)
EXTENDS FileTrees, Sequences

CONSTANT MoveTrees   \* the trees that are moved or copied

ASSUME MoveAssumption == MoveTrees \subseteq Trees

VARIABLES moveAt,      \* the step that is next
          op,          \* "move" or "copy", includeDirs and excludeNames
          source,      \* the tree at fromPath
          from,        \* the files and links that are still there
          dest,        \* the files at toPath: "none", "part" or "whole"
          made,        \* directories for which toPath has one
          dirs,        \* the calls of MoveDir or CopyDir: directory and files left
          moveErr,     \* whether the call has failed
          unread,      \* whether ListFiles ignored an error of ReadDir
          closeFailed  \* files of which the copy could not be closed

moveVars == <<moveAt, op, source, from, dest, made, dirs, moveErr, unread, closeFailed>>

Files(tree) == {e \in Entries : tree.kind[e] # "dir"}
Flat        == [kind |-> [e \in Entries |-> "dir"], parent |-> [e \in Entries \ {Top} |-> Top],
                target |-> [e \in {} |-> Nowhere]]
NoOp        == [name |-> "move", includeDirs |-> TRUE, exclude |-> {}]

MoveInit ==
  /\ moveAt = "idle" /\ op = NoOp /\ source = Flat /\ from = {}
  /\ dest = [e \in Entries |-> "none"] /\ made = {} /\ dirs = <<>>
  /\ moveErr = FALSE /\ unread = FALSE /\ closeFailed = {}

dir  == Head(dirs).dir
todo == Head(dirs).todo
file == CHOOSE e \in todo : \A f \in todo : e <= f
done == [dirs EXCEPT ![1].todo = @ \ {file}]

\* A link is as good as its target is still there.
Readable(e) == Exists(source, e) /\ (StatIsDir(source, e) \/ Resolve(source, e) \in from)

unchangedFiles == UNCHANGED <<op, source, from, dest, made, unread, closeFailed>>
Goes(at)       == moveAt' = at /\ UNCHANGED <<dirs, moveErr>> /\ unchangedFiles
Enters(d)      == moveAt' = "mkdir" /\ dirs' = <<[dir |-> d, todo |-> {}]>> \o dirs

MoveDir ==
  /\ moveAt = "idle" /\ source' \in MoveTrees
  /\ from' = Files(source') /\ Enters(Top)
  /\ UNCHANGED <<op, dest, made, moveErr, unread, closeFailed>>

\* CopyDir follows links to directories: trees without them.
CopyDir ==
  /\ moveAt = "idle"
  /\ source' \in {t \in MoveTrees : \A e \in Entries : IsLink(t, e) => ~StatIsDir(t, e)}
  /\ \E include \in BOOLEAN, exclude \in SUBSET Children(source', Top) :
       op' = [name |-> "copy", includeDirs |-> include, exclude |-> exclude]
  /\ from' = Files(source') /\ Enters(Top)
  /\ UNCHANGED <<dest, made, moveErr, unread, closeFailed>>

CreateDirIfNotExist ==
  /\ moveAt = "mkdir" /\ moveAt' = "list" /\ made' = made \union {dir}
  /\ UNCHANGED <<op, source, from, dest, dirs, moveErr, unread, closeFailed>>

\* ReadDir gives the entries it has read, and its error is ignored; a link that
\* leads to itself makes ListFiles fail.
ListFiles ==
  /\ moveAt = "list" /\ moveAt' = "next"
  /\ LET there == Children(source, dir) \ (Files(source) \ from)
         includeDirs == op.includeDirs \/ Len(dirs) > 1
     IN  \E read \in SUBSET there :
           /\ \A e \in read : ~IsLoop(source, e)
           /\ unread' = (unread \/ read # there)
           /\ dirs' = [dirs EXCEPT ![1].todo =
                         {e \in read : source.kind[e] # "dir" \/ includeDirs}]
  /\ UNCHANGED <<op, source, from, dest, made, moveErr, closeFailed>>

\* Mutation: links to directories are followed.
NextDir_Followed ==
  /\ moveAt = "next" /\ todo # {} /\ ~(Len(dirs) = 1 /\ file \in op.exclude)
  /\ StatIsDir(source, file)
  /\ moveAt' = "mkdir" /\ dirs' = <<[dir |-> file, todo |-> {}]>> \o done
  /\ UNCHANGED moveErr /\ unchangedFiles

\* MoveDir asks lstat, CopyDir stat: the same here.
NextDir ==
  /\ moveAt = "next" /\ todo # {} /\ ~(Len(dirs) = 1 /\ file \in op.exclude)
  /\ LstatIsDir(source, file)
  /\ moveAt' = "mkdir" /\ dirs' = <<[dir |-> file, todo |-> {}]>> \o done
  /\ UNCHANGED moveErr /\ unchangedFiles

Excluded ==
  /\ moveAt = "next" /\ todo # {} /\ Len(dirs) = 1 /\ file \in op.exclude
  /\ moveAt' = "next" /\ dirs' = done /\ UNCHANGED moveErr /\ unchangedFiles

NextFile ==
  /\ moveAt = "next" /\ todo # {} /\ ~(Len(dirs) = 1 /\ file \in op.exclude)
  /\ ~LstatIsDir(source, file) /\ Goes("open")

\* Mutation: the loop of the caller ends as well.
DirDone_All ==
  /\ moveAt = "next" /\ todo = {} /\ moveAt' = "ended"
  /\ UNCHANGED <<dirs, moveErr>> /\ unchangedFiles

DirDone ==
  /\ moveAt = "next" /\ todo = {}
  /\ IF Len(dirs) = 1 THEN moveAt' = "ended" /\ UNCHANGED dirs
                      ELSE moveAt' = "next" /\ dirs' = Tail(dirs)
  /\ UNCHANGED moveErr /\ unchangedFiles

Open == moveAt = "open" /\ Readable(file) /\ Goes("create")

\* createFileForWriting, with its second attempt, or OpenFile: an existing file
\* is truncated.
Create ==
  /\ moveAt = "create" /\ moveAt' = "copy"
  /\ dest' = [dest EXCEPT ![file] = "part"]
  /\ UNCHANGED <<op, source, from, made, dirs, moveErr, unread, closeFailed>>

\* Mutation: a copy that ends early is taken for complete.
Copy_Short ==
  /\ moveAt = "copy" /\ ~StatIsDir(source, file)
  /\ \E data \in {"part", "whole"} : dest' = [dest EXCEPT ![file] = data]
  /\ moveAt' = IF op.name = "move" THEN "chmod" ELSE "close"
  /\ UNCHANGED <<op, source, from, made, dirs, moveErr, unread, closeFailed>>

\* A directory opened through a link cannot be read.
Copy ==
  /\ moveAt = "copy" /\ ~StatIsDir(source, file)
  /\ dest' = [dest EXCEPT ![file] = "whole"]
  /\ moveAt' = IF op.name = "move" THEN "chmod" ELSE "close"
  /\ UNCHANGED <<op, source, from, made, dirs, moveErr, unread, closeFailed>>

Chmod == moveAt = "chmod" /\ Goes("remove")

RemoveSource ==
  /\ moveAt = "remove" /\ moveAt' = "close" /\ from' = from \ {file}
  /\ UNCHANGED <<op, source, dest, made, dirs, moveErr, unread, closeFailed>>

\* Mutation: the loop does not go on to the next file.
Close_Stays ==
  /\ moveAt = "close"
  /\ moveAt' = IF moveErr THEN "ended" ELSE "next"
  /\ UNCHANGED <<dirs, moveErr>> /\ unchangedFiles

\* The deferred Close of the copy.
Close ==
  /\ moveAt = "close"
  /\ IF moveErr THEN moveAt' = "ended" /\ UNCHANGED dirs
                ELSE moveAt' = "next" /\ dirs' = done
  /\ UNCHANGED moveErr /\ unchangedFiles

\* It may fail, and with it writes that were delayed.
CloseFails ==
  /\ moveAt = "close" /\ moveAt' = "ended" /\ moveErr' = TRUE
  /\ \E data \in {dest[file], "part"} : dest' = [dest EXCEPT ![file] = data]
  /\ closeFailed' = closeFailed \union {file}
  /\ UNCHANGED <<op, source, from, made, dirs, unread>>

\* Every other system call may fail; once the copy is open it is closed.
CallFails ==
  /\ \/ moveAt \in {"mkdir", "list", "open", "create"} /\ moveAt' = "ended"
     \/ moveAt = "next" /\ todo # {} /\ moveAt' = "ended"
     \/ moveAt \in {"copy", "chmod", "remove"} /\ moveAt' = "close"
  /\ moveErr' = TRUE /\ UNCHANGED dirs /\ unchangedFiles

Crash ==
  /\ moveAt \notin {"idle", "ended"} /\ moveAt' = "ended" /\ moveErr' = TRUE
  /\ UNCHANGED dirs /\ unchangedFiles

CallAgain ==
  /\ moveAt = "ended" /\ moveErr
  /\ moveAt' = "mkdir" /\ dirs' = <<[dir |-> Top, todo |-> {}]>>
  /\ moveErr' = FALSE /\ unread' = FALSE
  /\ UNCHANGED <<op, source, from, dest, made, closeFailed>>

MoveReturns ==
  /\ moveAt = "ended" /\ moveAt' = "idle" /\ op' = NoOp /\ source' = Flat
  /\ from' = {} /\ dest' = [e \in Entries |-> "none"] /\ made' = {} /\ dirs' = <<>>
  /\ moveErr' = FALSE /\ unread' = FALSE /\ closeFailed' = {}

MoveStep == \/ CreateDirIfNotExist \/ ListFiles \/ NextDir \/ Excluded \/ NextFile
            \/ DirDone \/ Open \/ Create \/ Copy \/ Chmod \/ RemoveSource \/ Close
            \/ CloseFails \/ CallFails
MoveNext == MoveDir \/ CopyDir \/ MoveStep \/ Crash \/ CallAgain \/ MoveReturns
MoveSpec == MoveInit /\ [][MoveNext]_moveVars /\ WF_moveVars(MoveStep)

-----------------------------------------------------------------------------
MoveTypeOK ==
  /\ moveAt \in {"idle", "mkdir", "list", "next", "open", "create", "copy", "chmod",
                 "remove", "close", "ended"}
  /\ from \subseteq Files(source) /\ closeFailed \subseteq Files(source)
  /\ dest \in [Entries -> {"none", "part", "whole"}]
  /\ \A i \in 1..Len(dirs) : source.kind[dirs[i].dir] = "dir" /\ dirs[i].todo \subseteq Entries
  /\ made \subseteq Entries /\ moveErr \in BOOLEAN /\ unread \in BOOLEAN

(* At every moment, also after a crash, a failure and further calls, each  *)
(* file is at its old place or whole at the new one.  The exception is     *)
(* that of a copy whose Close failed, which comes after the source was     *)
(* removed.                                                                *)
NothingLost ==
  op.name = "move" =>
    \A e \in Files(source) : e \in from \/ dest[e] = "whole" \/ e \in closeFailed

\* The entries on the way up from e, and what CopyDir leaves out of the first
\* directory.
Above(e) == Reached(e, Up(source))
Excludes == op.exclude \union
              (IF op.includeDirs THEN {} ELSE Children(source, Top) \ Files(source))
Below(e) == Above(e) \intersect Excludes # {}

(* A call that returns no error, and in which ListFiles could read every   *)
(* directory, has done everything: MoveDir has left no file behind,        *)
(* CopyDir copied what is not excluded, by name in the first directory     *)
(* only, or because it is a directory.                                     *)
SuccessMeansDone ==
  moveAt = "ended" /\ ~moveErr /\ ~unread =>
    IF op.name = "move"
      THEN \A e \in Files(source) : e \notin from /\ (dest[e] = "whole" \/ e \in closeFailed)
      ELSE \A e \in Files(source) \ closeFailed : e \in from /\ dest[e] = IF Below(e) THEN "none" ELSE "whole"

(* Every call ends, in an error if need be.                                *)
MoveEnds == (moveAt = "mkdir") ~> (moveAt = "ended")
=============================================================================
