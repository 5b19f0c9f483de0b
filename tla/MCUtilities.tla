---------------------------- MODULE MCUtilities ----------------------------
(***************************************************************************)
(* The sequential components, which share nothing, side by side: a client  *)
(* that uses one of them after the other, for model checking.  Each acts   *)
(* while the others are in their initial states.                           *)
(***************************************************************************)
EXTENDS LRUCache, RetryExecutor, Versions, SafeConvert, Walk, FileMove

tk(digits, number, suffix) == [digits |-> digits, number |-> number, suffix |-> suffix]

\* 0, 1, 1a, 1b, 01, 01a, a, and two numbers above MCMaxAtoi
MCTokens == {tk("plain", 0, 0), tk("plain", 1, 0), tk("plain", 1, 1), tk("plain", 1, 2),
             tk("padded", 1, 0), tk("padded", 1, 1), tk("none", 0, 1),
             tk("plain", 3, 0), tk("plain", 4, 0)}

\* A directory with something in it below the top, and at most two links.
MCMoveTrees == {t \in Trees : /\ \E e \in Entries \ {Top} : t.kind[e] = "dir" /\ Children(t, e) # {}
                             /\ Cardinality(LinksOf(t.kind)) <= 2}

CacheInit == Init
CacheNext == Next
CacheUnused == CacheInit /\ now = 0

AllInit == CacheInit /\ RetryInit /\ VersionInit /\ ConvertInit /\ WalkInit /\ MoveInit

AllNext ==
  \/ /\ RetryInit /\ VersionInit /\ ConvertInit /\ WalkInit /\ MoveInit
     /\ CacheNext /\ UNCHANGED <<retryVars, versionVars, convertVars, walkVars, moveVars>>
  \/ /\ CacheUnused /\ VersionInit /\ ConvertInit /\ WalkInit /\ MoveInit
     /\ RetryNext /\ UNCHANGED <<vars, versionVars, convertVars, walkVars, moveVars>>
  \/ /\ CacheUnused /\ RetryInit /\ ConvertInit /\ WalkInit /\ MoveInit
     /\ VersionNext /\ UNCHANGED <<vars, retryVars, convertVars, walkVars, moveVars>>
  \/ /\ CacheUnused /\ RetryInit /\ VersionInit /\ WalkInit /\ MoveInit
     /\ ConvertNext /\ UNCHANGED <<vars, retryVars, versionVars, walkVars, moveVars>>
  \/ /\ CacheUnused /\ RetryInit /\ VersionInit /\ ConvertInit /\ MoveInit
     /\ WalkNext /\ UNCHANGED <<vars, retryVars, versionVars, convertVars, moveVars>>
  \/ /\ CacheUnused /\ RetryInit /\ VersionInit /\ ConvertInit /\ WalkInit
     /\ MoveNext /\ UNCHANGED <<vars, retryVars, versionVars, convertVars, walkVars>>

AllSpec == /\ AllInit
           /\ [][AllNext]_<<vars, retryVars, versionVars, convertVars, walkVars, moveVars>>
           /\ WF_retryVars(RetryStep) /\ WF_walkVars(WalkStep) /\ WF_moveVars(MoveStep)

-----------------------------------------------------------------------------
(* The type invariants of the components.                                  *)
TypesOK == TypeOK /\ RetryTypeOK /\ VersionTypeOK /\ WalkTypeOK /\ MoveTypeOK

(* Retries, walks, moves and copies come to an end: each loop of retries,  *)
(* whatever the links of a tree, and after the failure of any call.        *)
CallsReturn == ExecuteEnds /\ WalkEnds /\ MoveEnds
=============================================================================
