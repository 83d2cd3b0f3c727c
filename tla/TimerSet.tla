------------------------------ MODULE TimerSet ------------------------------
(***************************************************************************)
(* What the Z80 timers promise (emu/tilem.h:286-320): a set of timers, each *)
(* due after some number of clocks.  A due timer fires before another one   *)
(* of its kind that is due later, it is set again exactly one period after  *)
(* the moment it was due, however late it fires, and no timer is ever left  *)
(* MaxLate clocks late.                                                     *)
(***************************************************************************)
EXTENDS Integers

CONSTANTS
  Timer,       \* names of timers
  Khz,         \* clock speeds are clocks per Khz units of real time
  MaxLate      \* no timer is as late as this

VARIABLES
  on,          \* on[k]: the timers of kind k, "cpu" or "rt", that are set
  due,         \* due[t]: clocks until t is due; 0 or less: t is due
  period,
  speed

vars == <<on, due, period, speed>>

Kind == {"cpu", "rt"}
On == on["cpu"] \cup on["rt"]

Clocks(n, k) == IF k = "rt" THEN (speed * n + Khz \div 2) \div Khz ELSE n

Init == /\ on = [k \in Kind |-> {}]
        /\ due = [t \in Timer |-> 0]
        /\ period = [t \in Timer |-> 0]
        /\ speed \in Nat

\* A timer that was off, or set already, is set to n units
Set(t, k, n, p) ==
  /\ on' = [j \in Kind |-> IF j = k THEN on[j] \cup {t} ELSE on[j] \ {t}]
  /\ due' = [due EXCEPT ![t] = Clocks(n, k)]
  /\ period' = [period EXCEPT ![t] = p]
  /\ UNCHANGED speed

Unset(t) ==
  /\ on' = [j \in Kind |-> on[j] \ {t}]
  /\ due' = [due EXCEPT ![t] = 0] /\ period' = [period EXCEPT ![t] = 0]
  /\ UNCHANGED speed

SetPeriod(t, p) ==
  /\ t \in On
  /\ period' = [period EXCEPT ![t] = p]
  /\ UNCHANGED <<on, due, speed>>

\* A timer without period is off when it has fired
Fire(t, k) ==
  /\ t \in on[k] /\ due[t] <= 0
  /\ \A u \in on[k] : due[t] <= due[u]
  /\ on' = [on EXCEPT ![k] = IF period[t] = 0 THEN @ \ {t} ELSE @]
  /\ due' = [due EXCEPT ![t] = IF period[t] = 0 THEN 0
                               ELSE @ + Clocks(period[t], k)]
  /\ UNCHANGED <<period, speed>>

\* d clocks pass
Pass(d) ==
  /\ \A t \in On : due[t] - d > -MaxLate
  /\ due' = [t \in Timer |-> IF t \in On THEN due[t] - d ELSE 0]
  /\ UNCHANGED <<on, period, speed>>

\* Real time keeps its pace when the clock does not
SetSpeed(s) ==
  /\ speed' = s
  /\ due' = [t \in Timer |->
               IF t \in on["rt"] /\ due[t] > 0
               THEN (due[t] * s + speed \div 2) \div speed ELSE due[t]]
  /\ UNCHANGED <<on, period>>

\* The moves for the numbers a bounded instance uses
Next(Number, Period, Speed, Delay) ==
  \/ \E t \in Timer, k \in Kind :
       Fire(t, k) \/ \E n \in Number, p \in Period : Set(t, k, n, p)
  \/ \E t \in Timer : Unset(t) \/ \E p \in Period : SetPeriod(t, p)
  \/ \E d \in Delay : Pass(d)
  \/ \E s \in Speed : SetSpeed(s)
=============================================================================
