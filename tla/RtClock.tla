------------------------------- MODULE RtClock -------------------------------
(***************************************************************************)
(* What the clock of a TI-84 Plus promises to a program (ports 40 to 48):  *)
(* it shows a time, which goes on by a second for each second of the host  *)
(* while it runs and stands still otherwise, and which is set to the time  *)
(* that was written when it is told to load it. Module Hardware implements *)
(* it with a difference from the host's time.                              *)
(***************************************************************************)
EXTENDS Integers

CONSTANT Period  \* the time shown is modulo Period, a positive number

VARIABLES
  time,     \* the time that is shown
  running,
  loading,  \* the last order was to load
  written   \* what it is to be set to

clockVars == <<time, running, loading, written>>

ClockInit ==
  time \in 0 .. Period - 1 /\ running \in BOOLEAN /\ loading \in BOOLEAN
    /\ written \in 0 .. Period - 1

\* An order to load counts when the one before was not to load.
Order(run, load) ==
  /\ running' = run /\ loading' = load
  /\ time' = IF load /\ ~loading THEN written ELSE time
  /\ UNCHANGED written

Write ==
  written' \in 0 .. Period - 1 /\ UNCHANGED <<time, running, loading>>

Passes ==
  time' = (IF running THEN time + 1 ELSE time) % Period
    /\ UNCHANGED <<running, loading, written>>

ClockNext ==
  \/ \E run, load \in BOOLEAN : Order(run, load)
  \/ Write
  \/ Passes

ClockSpec == ClockInit /\ [][ClockNext]_clockVars
=============================================================================
