------------------------------ MODULE MCTimers ------------------------------
(***************************************************************************)
(* A small instance of Timers: a clock modulo 24, one hardware timer, room  *)
(* for the timer of a run and two others.                                   *)
(***************************************************************************)
EXTENDS Timers

Speeds == {2, 3}
Counts == {3}
Periods == {0, 2}
=============================================================================
