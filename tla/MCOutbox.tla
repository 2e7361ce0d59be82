----------------------------- MODULE MCOutbox -------------------------------
(***************************************************************************)
(* Small instances of Outbox for TLC.  No symmetry: the run checks         *)
(* liveness.                                                               *)
(***************************************************************************)
EXTENDS Outbox
=============================================================================
