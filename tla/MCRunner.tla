------------------------------ MODULE MCRunner ------------------------------
(***************************************************************************)
(* Runner and its properties on small instances.                           *)
(***************************************************************************)
EXTENDS RunnerProperties, TLC

\* Cancellers differ in name only (safety runs).
Symmetry == Permutations(Cancellers)
=============================================================================
