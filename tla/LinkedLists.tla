----------------------------- MODULE LinkedLists -----------------------------
(***************************************************************************)
(* Lists in an array: each element has the index of the next one, and 0      *)
(* ends a list.  The timers and the breakpoints of the Z80 (emu/z80.c) are   *)
(* kept like this.                                                           *)
(***************************************************************************)
EXTENDS Naturals, Sequences, FiniteSets, SequencesExt

\* What a loop that starts at first and follows the links nx goes through
Walk(nx, first) ==
  LET from[n \in 0..Cardinality(DOMAIN nx)] ==
        IF n = 0 THEN IF first = 0 THEN <<>> ELSE <<first>>
        ELSE LET s == from[n - 1] IN
             IF s = <<>> \/ nx[Last(s)] = 0 THEN s ELSE Append(s, nx[Last(s)])
  IN from[Cardinality(DOMAIN nx)]
=============================================================================
