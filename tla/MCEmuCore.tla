------------------------------ MODULE MCEmuCore ------------------------------
(***************************************************************************)
(* Small instances of EmuCore for TLC.                                      *)
(***************************************************************************)
EXTENDS EmuCore

CONSTANTS t1, t2

\* No finished function begins another task
NoSuccessor == [t \in Task |-> NoTask]

\* t1 is a macro that is loaded, t2 the macro being played
\* (tilem_macro_load_finished)
MacroSuccessor == [t \in Task |-> IF t = t1 THEN t2 ELSE NoTask]
=============================================================================
