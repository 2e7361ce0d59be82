------------------------- MODULE MCServiceRecords ---------------------------
(***************************************************************************)
(* Small instances of ServiceRecords for TLC.  No symmetry: Records checks *)
(* liveness and the refinement of History.                                 *)
(***************************************************************************)
EXTENDS ServiceRecords
=============================================================================
