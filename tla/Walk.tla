-------------------------------- MODULE Walk --------------------------------
(***************************************************************************)
(* io/fileutils: Walk calls walkFn for the entries of a tree, and goes     *)
(* through links to directories when told to.  A link is identified by the *)
(* real path of its directory and its name, so by its entry.  walkFn       *)
(* answers as it likes; a system call fails where the tree makes it fail,  *)
(* and also at any time, since others may change the tree meanwhile.       *)
(***************************************************************************)
EXTENDS FileTrees, Sequences

VARIABLES walkAt,    \* where the innermost call of walk is
          tree,      \* the tree
          into,      \* walkIntoDirSymlink
          frames,    \* the calls of walk: path, info.IsDir() and names left
          visited,   \* visitedDirSymlinks
          walkErr,   \* what the innermost call returns
          told,      \* entries walkFn was called for
          cut,       \* whether walkFn skipped or a system call failed
          refused    \* whether walkFn returned an error other than ErrSkipDir

walkVars == <<walkAt, tree, into, frames, visited, walkErr, told, cut, refused>>

NoTree == [kind |-> [e \in Entries |-> "dir"], parent |-> [e \in Entries \ {Top} |-> Top],
           target |-> [e \in {} |-> Nowhere]]

WalkInit ==
  /\ walkAt = "idle" /\ tree = NoTree /\ into = FALSE /\ frames = <<>>
  /\ visited = {} /\ walkErr = "nil" /\ told = {} /\ cut = FALSE /\ refused = FALSE

path  == Head(frames).path
isDir == Head(frames).isDir
left  == Head(frames).left

Frame(e, dir) == [path |-> e, isDir |-> dir, left |-> {}]
Results == {"nil", "skip", "failure"}

Call(e, dir) == frames' = <<Frame(e, dir)>> \o frames /\ walkAt' = "visit"
ReturnWith(err) == walkAt' = "return" /\ walkErr' = err

\* walkFn is called for e and answers err.
Tells(e, err) ==
  /\ told' = told \union {e}
  /\ refused' = (refused \/ err = "failure")

Walk ==
  /\ walkAt = "idle" /\ tree' \in Trees /\ into' \in BOOLEAN
  /\ \E root \in {Top} \union LinksOf(tree'.kind) :
       IF Exists(tree', root)
         THEN Call(root, StatIsDir(tree', root)) /\ UNCHANGED <<walkErr, told, cut, refused>>
         ELSE \E err \in Results : /\ ReturnWith(err) /\ Tells(root, err)
                                   /\ cut' = TRUE /\ frames' = <<Frame(root, FALSE)>>
  /\ UNCHANGED visited

VisitMarking(links) ==
  /\ walkAt = "visit" /\ ~IsLoop(tree, path)
  /\ visited' = visited \union links
  /\ \E err \in Results :
       /\ Tells(path, err)
       /\ cut' = (cut \/ err = "skip")
       /\ IF err # "nil" \/ ~isDir
            THEN ReturnWith(IF isDir /\ err = "skip" THEN "nil" ELSE err)
            ELSE walkAt' = "read" /\ UNCHANGED walkErr
  /\ UNCHANGED <<tree, into, frames>>

\* Mutation: the link is not remembered.
Visit_Unmarked == VisitMarking({})
\* The beginning of walk, up to the names: a link to a directory is remembered.
Visit == VisitMarking({l \in {path} : into /\ IsLink(tree, l) /\ StatIsDir(tree, l)})

\* IsDirExists or evalPathOfSymlink fail: walkFn hears nothing of it.
VisitFails ==
  /\ walkAt = "visit" /\ ReturnWith("failure") /\ cut' = TRUE
  /\ UNCHANGED <<tree, into, frames, visited, told, refused>>

readDirNames ==
  /\ walkAt = "read" /\ walkAt' = "loop"
  /\ frames' = [frames EXCEPT ![1].left = Children(tree, Resolve(tree, path))]
  /\ UNCHANGED <<tree, into, visited, walkErr, told, cut, refused>>

readDirNamesFails ==
  /\ walkAt = "read"
  /\ \E err \in Results : ReturnWith(err) /\ Tells(path, err)
  /\ cut' = TRUE /\ UNCHANGED <<tree, into, frames, visited>>

name == CHOOSE e \in left : \A f \in left : e <= f
rest == [frames EXCEPT ![1].left = @ \ {name}]
seen == into /\ IsLink(tree, name) /\ name \in visited

SkipVisited ==
  /\ walkAt = "loop" /\ left # {} /\ seen
  /\ frames' = rest
  /\ UNCHANGED <<walkAt, tree, into, visited, walkErr, told, cut, refused>>

Descend ==
  /\ walkAt = "loop" /\ left # {} /\ ~seen
  /\ into => Exists(tree, name)
  /\ frames' = <<Frame(name, IF into THEN StatIsDir(tree, name) ELSE LstatIsDir(tree, name))>> \o rest
  /\ walkAt' = "visit"
  /\ UNCHANGED <<tree, into, visited, walkErr, told, cut, refused>>

StatFails ==
  /\ walkAt = "loop" /\ left # {} /\ ~seen
  /\ \E err \in Results :
       /\ Tells(name, err)
       /\ frames' = rest
       /\ IF err = "failure" THEN ReturnWith(err) ELSE UNCHANGED <<walkAt, walkErr>>
  /\ cut' = TRUE /\ UNCHANGED <<tree, into, visited>>

EvalPathFails ==
  /\ walkAt = "loop" /\ left # {} /\ into /\ IsLink(tree, name)
  /\ ReturnWith("failure") /\ cut' = TRUE
  /\ UNCHANGED <<tree, into, frames, visited, told, refused>>

EndOfNames ==
  /\ walkAt = "loop" /\ left = {} /\ ReturnWith("nil")
  /\ UNCHANGED <<tree, into, frames, visited, told, cut, refused>>

\* Mutation: the loop ends at the first directory whose walk returns.
Return_NoLoop ==
  /\ walkAt = "return" /\ Len(frames) > 1
  /\ frames' = Tail(frames)
  /\ IF walkErr = "failure" \/ isDir THEN UNCHANGED <<walkAt, walkErr>>
                                     ELSE walkAt' = "loop" /\ walkErr' = "nil"
  /\ UNCHANGED <<tree, into, visited, told, cut, refused>>

\* A call returns to the loop of its caller, which drops ErrSkipDir only if it
\* comes from a directory.
Return ==
  /\ walkAt = "return" /\ Len(frames) > 1
  /\ frames' = Tail(frames)
  /\ IF walkErr = "failure" \/ (walkErr = "skip" /\ ~isDir)
       THEN UNCHANGED <<walkAt, walkErr>>
       ELSE walkAt' = "loop" /\ walkErr' = "nil"
  /\ UNCHANGED <<tree, into, visited, told, cut, refused>>

WalkReturns ==
  /\ walkAt = "return" /\ Len(frames) = 1 /\ walkAt' = "idle"
  /\ tree' = NoTree /\ into' = FALSE /\ frames' = <<>> /\ visited' = {}
  /\ walkErr' = "nil" /\ told' = {} /\ cut' = FALSE /\ refused' = FALSE

WalkStep == \/ Visit \/ VisitFails \/ readDirNames \/ readDirNamesFails
            \/ SkipVisited \/ Descend \/ StatFails \/ EvalPathFails \/ EndOfNames
            \/ Return \/ WalkReturns
WalkNext == Walk \/ WalkStep
WalkSpec == WalkInit /\ [][WalkNext]_walkVars /\ WF_walkVars(WalkStep)

-----------------------------------------------------------------------------
WalkTypeOK ==
  /\ walkAt \in {"idle", "visit", "read", "loop", "return"}
  /\ into \in BOOLEAN /\ cut \in BOOLEAN /\ refused \in BOOLEAN
  /\ \A i \in 1..Len(frames) :
       /\ frames[i].path \in Entries
       /\ frames[i].left \subseteq Children(tree, Resolve(tree, frames[i].path))
  /\ visited \subseteq {e \in Entries : IsLink(tree, e) /\ StatIsDir(tree, e)}
  /\ walkErr \in Results /\ told \subseteq Entries

(* The recursion is bounded although links may lead to a directory that    *)
(* is being walked: each link is entered once at a time, and between two   *)
(* links a walk goes down the real directories.                            *)
DepthBounded ==
  LET dirs  == Cardinality({e \in Entries : tree.kind[e] = "dir"})
      links == Cardinality({e \in Entries : IsLink(tree, e)})
  IN  Len(frames) <= (links + 1) * (dirs + 1)

(* A walk in which nothing was skipped and nothing failed has told walkFn  *)
(* of every entry that can be reached from its root, through links if      *)
(* they are followed, and has not gone anywhere else.                      *)
Names(root) ==
  [e \in Entries |-> IF (e = root \/ into \/ ~IsLink(tree, e)) /\ StatIsDir(tree, e)
                        THEN Children(tree, Resolve(tree, e)) ELSE {}]
Reachable(root) == Reached(root, Names(root))

WholeTree ==
  walkAt = "return" /\ Len(frames) = 1 /\ walkErr = "nil" /\ ~cut => told = Reachable(path)

(* The first error of walkFn other than ErrSkipDir ends the walk: walkFn   *)
(* is not called again, and Walk returns that error.                       *)
ErrorStops == refused => walkAt = "return" /\ walkErr = "failure"

(* A walk visits the tree, and only as far as walkFn wants.                *)
WalkFaithful == WholeTree /\ ErrorStops

(* Every walk ends, whatever the links.                                    *)
WalkEnds == (walkAt = "visit") ~> (walkAt = "idle")
=============================================================================
