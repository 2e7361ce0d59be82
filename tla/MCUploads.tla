----------------------------- MODULE MCUploads -----------------------------
(***************************************************************************)
(* Small instances of Uploads for TLC.                                     *)
(***************************************************************************)
EXTENDS Uploads, TLC

\* Requests and files are interchangeable.
Interchangeable == Permutations(Proc) \cup Permutations(Photo)
=============================================================================
