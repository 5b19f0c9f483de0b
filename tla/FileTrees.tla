----------------------------- MODULE FileTrees -----------------------------
(***************************************************************************)
(* What the operating system offers to io/fileutils: small directory trees *)
(* with symbolic links.  An entry is named by a number, its parent has a   *)
(* smaller one, and the entries of a directory are read in that order.     *)
(***************************************************************************)
EXTENDS Integers, FiniteSets

CONSTANT MaxEntries

ASSUME TreesAssumption == MaxEntries \in Nat \ {0}

Top     == 1
Entries == 1..MaxEntries
Nowhere == 0       \* the target of a dangling link

LinksOf(kind) == {e \in Entries : kind[e] = "link"}

Trees ==
  UNION {{[kind |-> kind, parent |-> parent, target |-> target] :
             parent \in {p \in [Entries \ {Top} -> Entries] :
                           \A e \in Entries \ {Top} : p[e] < e /\ kind[p[e]] = "dir"},
             target \in [LinksOf(kind) -> Entries \union {Nowhere}]} :
         kind \in {k \in [Entries -> {"dir", "file", "link"}] : k[Top] = "dir"}}

Children(tree, dir) == {e \in Entries \ {Top} : tree.parent[e] = dir}

IsLink(tree, e) == tree.kind[e] = "link"

\* What a path to e leads to (filepath.EvalSymlinks): an entry that is no link,
\* Nowhere, or, when the links are a loop, a link.
Resolve(tree, e) ==
  IF ~IsLink(tree, e) THEN e
  ELSE LET after[hops \in 0..MaxEntries] ==
             IF hops = 0 THEN e
             ELSE LET f == after[hops - 1]
                  IN  IF f # Nowhere /\ IsLink(tree, f) THEN tree.target[f] ELSE f
       IN  after[MaxEntries]

Exists(tree, e) == Resolve(tree, e) # Nowhere /\ ~IsLink(tree, Resolve(tree, e))
IsLoop(tree, e) == Resolve(tree, e) # Nowhere /\ IsLink(tree, Resolve(tree, e))

\* stat follows links, lstat does not.
StatIsDir(tree, e)  == Exists(tree, e) /\ tree.kind[Resolve(tree, e)] = "dir"
LstatIsDir(tree, e) == tree.kind[e] = "dir"

\* The entries that are reached from e over next: those in every set that has e
\* and, with an entry, what is next to it.
Reached(e, next) ==
  {x \in Entries : \A V \in SUBSET Entries : e \in V /\ (\A y \in V : next[y] \subseteq V) => x \in V}

\* From an entry to its directory.
Up(tree) == [e \in Entries |-> IF e = Top THEN {} ELSE {tree.parent[e]}]
=============================================================================
