---------------------------- MODULE MCImageSlots ----------------------------
(***************************************************************************)
(* Two slots of one page.                                                  *)
(***************************************************************************)
EXTENDS ImageSlots

CONSTANTS a, b
=============================================================================
