----------------------------- MODULE MCGarage -------------------------------
(***************************************************************************)
(* The garage with two tasks at a time, a plate and three readings.        *)
(***************************************************************************)
EXTENDS Garage

CONSTANTS t1, t2, p1
=============================================================================
