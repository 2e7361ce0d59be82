---------------------------- MODULE MCOwnership ----------------------------
(***************************************************************************)
(* A small instance of Ownership for TLC.                                  *)
(***************************************************************************)
EXTENDS Ownership, TLC

\* Calls, screens and owners are interchangeable.
Interchangeable == Permutations(Proc) \cup Permutations(Screen) \cup Permutations(Owner)
=============================================================================
