---------------------------- MODULE MCRecordForm ----------------------------
(***************************************************************************)
(* Small instances of RecordForm for TLC.                                  *)
(***************************************************************************)
EXTENDS RecordForm
=============================================================================
