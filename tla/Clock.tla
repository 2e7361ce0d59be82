------------------------------- MODULE Clock -------------------------------
(***************************************************************************)
(* time.Now of the API's process, in steps of one unit.  The limiter and   *)
(* the login throttle compare it with times they keep.                     *)
(***************************************************************************)
EXTENDS Integers

CONSTANT MaxTime        \* bound: the last instant looked at

ASSUME ClockAssumption == MaxTime \in Nat

VARIABLE now

Tick == now < MaxTime /\ now' = now + 1
=============================================================================
