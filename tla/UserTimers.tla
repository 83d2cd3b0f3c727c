----------------------------- MODULE UserTimers -----------------------------
(***************************************************************************)
(* A programmable timer of the calculator (emu/timers.c), one of three: a  *)
(* counter of Full steps that the program sets up with three ports, on top *)
(* of a timer of the Z80 (module Timers has those).                        *)
(***************************************************************************)
EXTENDS Integers

CONSTANTS
  Full,      \* steps of a whole turn of the counter (256)
  Units,     \* clocks of a step, for each frequency; 0 is "no frequency"
  MaxLate    \* bound: clocks by which the Z80 notices a timer too late

ASSUME UserConstants ==
  Full \in Nat \ {0} /\ Units \subseteq Nat /\ MaxLate \in Nat

VARIABLES
  frequency,  \* clocks of a step
  loopvalue,  \* the value the counter was started with, or stopped at
  status,     \* flags of the mode port: subset of UserFlag
  running,    \* is the Z80's timer set?
  left,       \* clocks until it expires, less than zero if it is overdue
  period,     \* clocks until it expires again, or zero
  pending,    \* is its interrupt requested?
  halted      \* is the Z80 halted?

userVars == <<frequency, loopvalue, status, running, left, period, pending, halted>>

UserFlag == {"loop", "interrupt", "finished", "overflow", "no_halt_int"}
Value == 0 .. Full - 1

get_duration(ticks) == frequency * ticks
normal_duration(value) == get_duration(IF value = 0 THEN Full ELSE value)
overflow_duration == get_duration(Full)

\* Mutant: the counter would be a byte without wrapping.
Mut_get_value ==
  IF ~running THEN {loopvalue}
  ELSE IF left < 0 THEN Value
  ELSE {(left * Full) \div overflow_duration}

\* A timer in real time that is overdue has any value: the microseconds wrap.
get_value ==
  IF ~running THEN {loopvalue}
  ELSE IF left < 0 THEN Value
  ELSE {((left * Full) \div overflow_duration) % Full}

-----------------------------------------------------------------------------
UserInit ==
  /\ frequency = 0 /\ loopvalue = 0 /\ status = {}
  /\ running = FALSE /\ left = 0 /\ period = 0 /\ pending = FALSE
  /\ halted \in BOOLEAN

\* As part of a reset of the calculator, which also clears the interrupts.
tilem_user_timers_reset ==
  /\ frequency' = 0 /\ loopvalue' = 0 /\ status' = {}
  /\ running' = FALSE /\ left' = 0 /\ period' = 0 /\ pending' = FALSE
  /\ halted' = FALSE

set_frequency(unit) ==
  /\ loopvalue' \in get_value /\ frequency' = unit
  /\ running' = FALSE /\ left' = 0 /\ period' = 0
  /\ UNCHANGED <<status, pending, halted>>

\* Mutant: the period would be left as it is.
Mut_mode_keeps_period(mode) ==
  /\ status' = (status \cap {"no_halt_int"}) \cup mode
  /\ pending' = FALSE
  /\ UNCHANGED <<frequency, loopvalue, running, left, period, halted>>

set_mode(mode) ==
  /\ status' = (status \cap {"no_halt_int"}) \cup mode
  /\ pending' = FALSE
  /\ period' = IF "loop" \in mode \/ loopvalue = 0
               THEN normal_duration(loopvalue) ELSE 0
  /\ UNCHANGED <<frequency, loopvalue, running, left, halted>>

start(value) ==
  /\ loopvalue' = value
  /\ IF frequency = 0 THEN UNCHANGED <<running, left, period>>
     ELSE /\ running' = TRUE /\ left' = normal_duration(value)
          /\ period' = IF value = 0 \/ "finished" \in status THEN overflow_duration
                       ELSE IF "loop" \notin status THEN 0
                       ELSE normal_duration(value)
  /\ UNCHANGED <<frequency, status, pending, halted>>

\* The Z80 runs, or its port 3 says whether a halted one is interrupted.
clock ==
  /\ running /\ left > -MaxLate
  /\ left' = left - 1
  /\ UNCHANGED <<frequency, loopvalue, status, running, period, pending, halted>>

no_halt_int(on) ==
  /\ status' = IF on THEN status \cup {"no_halt_int"} ELSE status \ {"no_halt_int"}
  /\ UNCHANGED <<frequency, loopvalue, running, left, period, pending, halted>>

halt(on) ==
  /\ halted' = on
  /\ UNCHANGED <<frequency, loopvalue, status, running, left, period, pending>>

\* The Z80 sets the timer anew, with the period it had, before it calls this.
expired ==
  /\ running /\ left <= 0
  /\ running' = (period # 0)
  /\ left' = IF period = 0 THEN 0 ELSE left + period
  /\ IF loopvalue = 0 THEN UNCHANGED <<status, pending, period>>
     ELSE /\ status' = status \cup {"finished"}
                         \cup (IF "finished" \in status THEN {"overflow"} ELSE {})
          /\ pending' = (pending \/ ("interrupt" \in status
                                     /\ ~("no_halt_int" \in status /\ halted)))
          /\ period' = IF "loop" \in status THEN overflow_duration ELSE period
  /\ UNCHANGED <<frequency, loopvalue, halted>>

UserNext ==
  \/ tilem_user_timers_reset \/ clock \/ expired
  \/ \E unit \in Units : set_frequency(unit)
  \/ \E mode \in SUBSET {"loop", "interrupt"} : set_mode(mode)
  \/ \E value \in Value : start(value)
  \/ \E on \in BOOLEAN : no_halt_int(on) \/ halt(on)

UserSpec == UserInit /\ [][UserNext]_userVars

-----------------------------------------------------------------------------
(***************************************************************************)
(* Properties                                                              *)
(***************************************************************************)
UserTypeOK ==
  /\ frequency \in Nat /\ loopvalue \in Value
  /\ status \in SUBSET UserFlag
  /\ running \in BOOLEAN /\ left \in Int /\ period \in Nat
  /\ pending \in BOOLEAN /\ halted \in BOOLEAN

(***************************************************************************)
(* Whatever the program has written since, what a running timer does when  *)
(* it expires is what its flags and its value say: after it has finished   *)
(* in a loop, a whole turn; before that, from the same value again; a      *)
(* value of zero loops for ever; without the loop flag it stops.           *)
(***************************************************************************)
UserReload ==
  running =>
    /\ frequency # 0
    /\ loopvalue = 0 => period = overflow_duration
    /\ loopvalue # 0 /\ "finished" \notin status =>
         period = IF "loop" \in status THEN normal_duration(loopvalue) ELSE 0
    /\ "finished" \in status /\ "loop" \in status => period = overflow_duration

(***************************************************************************)
(* An interrupt is pending only of a timer that has finished, with its     *)
(* interrupt enabled, since the mode was written; and an overflow has been *)
(* preceded by the end of the counter.                                     *)
(***************************************************************************)
UserPending ==
  /\ pending => {"finished", "interrupt"} \subseteq status
  /\ "overflow" \in status => "finished" \in status
=============================================================================
