-------------------------------- MODULE Timers --------------------------------
(***************************************************************************)
(* The timers of the Z80 (emu/z80.c): two sorted lists of timers, one       *)
(* counted in clocks and one in real time, the loop that calls the          *)
(* callbacks of due timers, and the run loop that lets the clock run.       *)
(*                                                                         *)
(* All of this code compares counts with the clock modulo 2^32 and never    *)
(* looks at the clock itself, so the model keeps left = count - clock of    *)
(* each timer, modulo W, and no clock.  The count of a timer in no list is  *)
(* not read before it is set again, except by the run whose timer it is:    *)
(* only these move.  TimerList has the links behind the lists.              *)
(***************************************************************************)
EXTENDS Integers, Sequences, SequencesExt

CONSTANTS
  Timer,     \* identifiers of timers
  NoTimer,   \* identifier 0
  HwTimer,   \* the hardware's timers, which are never removed
  W,         \* 2^32
  Slack,     \* 10000: a timer that is later than this is taken to be early
  Khz,       \* 1000
  Speed,     \* clock speeds
  Count, Period, \* counts and periods that timers are set to
  MaxOp,     \* most clocks of one instruction
  HaltStep,  \* 4: the clocks of one step of a halted Z80
  MaxCalls   \* bound: calls to the timer functions

ASSUME TimerConstants ==
  /\ NoTimer \notin Timer /\ HwTimer \subseteq Timer
  /\ W \in Nat /\ Slack \in 1..W /\ Khz \in Nat \ {0} /\ HaltStep \in Nat \ {0}
  /\ Speed \subseteq Nat \ {0} /\ Speed # {}
  /\ Count \subseteq Nat \ {0} /\ Period \subseteq Nat
  /\ MaxOp \in Nat /\ MaxCalls \in Nat

\* An instruction is short enough, and no timer is set so far ahead, that its
\* distance from the clock can be told
ASSUME TimerProportions ==
  /\ MaxOp < Slack /\ 2 * MaxOp < W
  /\ \A n \in Count \cup Period :
       n + Slack < W /\ \A s \in Speed : s * (n \div Khz + 1) + Slack < W

VARIABLES
  list,     \* list["cpu"] and list["rt"], the earliest timer first
  left,     \* clocks until each timer is due, modulo W
  period,
  used,     \* the timers that have a callback
  clockspeed,
  pc,       \* where z80_execute stands
  back,     \* where check_timers returns to
  intr,     \* the instruction is the acceptance of an interrupt
  incall,   \* check_timers is in a callback
  spent,    \* clocks of this instruction so far
  run,      \* the timer of tilem_z80_run, or NoTimer
  stopping,
  calls

timerVars == <<list, left, period, used, clockspeed>>
controlVars == <<pc, back, intr, incall, spent, run, stopping>>
vars == <<timerVars, controlVars, calls>>

Kind == {"cpu", "rt"}
InOp == {"op", "op2"}  \* in an instruction, before and after its port access

On == ToSet(list["cpu"]) \cup ToSet(list["rt"])

\* Clocks by which timer t is late; Slack or more: it is early
Late(t) == (-left[t]) % W
Due(t) == Late(t) < Slack

-----------------------------------------------------------------------------
(* Setting and unsetting a timer *)

Clocks(n, k) == IF k = "rt" THEN (clockspeed * n + Khz \div 2) \div Khz ELSE n

\* timer_earlier, where l is left
timer_earlier(l, t, u) == (l[t] + Slack) % W < (l[u] + Slack) % W

\* timer_insert: t goes first, or after the first and those that are earlier
timer_insert(l, s, t) ==
  IF s = <<>> \/ timer_earlier(l, t, s[1]) THEN <<t>> \o s
  ELSE LET n == CHOOSE n \in 1..Len(s) :
                  /\ \A i \in 2..n : timer_earlier(l, s[i], t)
                  /\ n = Len(s) \/ ~timer_earlier(l, s[n + 1], t)
       IN SubSeq(s, 1, n) \o <<t>> \o SubSeq(s, n + 1, Len(s))

\* timer_unset: the timer is unlinked from the list it is in, if any
Unset(t) ==
  [k \in Kind |-> IF t \in ToSet(list[k])
                  THEN RemoveAt(list[k], CHOOSE i \in DOMAIN list[k] : list[k][i] = t)
                  ELSE list[k]]

\* Mutant: the lateness of a periodic timer is forgotten
Mut_set_drifts(t, n, p, k, extra) ==
  IF n = 0
  THEN list' = Unset(t) /\ UNCHANGED <<left, period>>
  ELSE /\ left' = [left EXCEPT ![t] = Clocks(n, k) % W]
       /\ period' = [period EXCEPT ![t] = p]
       /\ list' = [Unset(t) EXCEPT ![k] = timer_insert(left', @, t)]

\* timer_unset, if t is set, and timer_set
timer_set(t, n, p, k, extra) ==
  IF n = 0
  THEN list' = Unset(t) /\ UNCHANGED <<left, period>>
  ELSE /\ left' = [left EXCEPT ![t] = (Clocks(n, k) - extra) % W]
       /\ period' = [period EXCEPT ![t] = p]
       /\ list' = [Unset(t) EXCEPT ![k] = timer_insert(left', @, t)]

-----------------------------------------------------------------------------
(* The functions that hardware, callbacks and the GUI call *)

\* Which of the free timers timer_alloc returns is not modelled here
Free == Timer \ used
NewTimer == CHOOSE t \in Free : TRUE

add_timer(n, p, k) ==
  /\ Free # {}
  /\ timer_set(NewTimer, n, p, k, 0)
  /\ used' = used \cup {NewTimer}
  /\ UNCHANGED clockspeed

set_timer(t, n, p, k) ==
  timer_set(t, n, p, k, 0) /\ UNCHANGED <<used, clockspeed>>

set_timer_period(t, p) ==
  /\ period' = [period EXCEPT ![t] = p]
  /\ UNCHANGED <<list, left, used, clockspeed>>

\* Mutant: the timer stays in its list
Mut_remove_set(t) ==
  /\ used' = used \ {t}
  /\ UNCHANGED <<list, left, period, clockspeed>>

remove_timer(t) ==
  /\ list' = Unset(t) /\ used' = used \ {t}
  /\ left' = [left EXCEPT ![t] = 0] /\ period' = [period EXCEPT ![t] = 0]
  /\ UNCHANGED clockspeed

Scaled(n, s) == (n * s + clockspeed \div 2) \div clockspeed

\* Mutant: timers that are due are scaled like the others
Mut_speed_scales_due(s) ==
  /\ clockspeed' = s
  /\ left' = [t \in Timer |-> IF t \in ToSet(list["rt"])
                              THEN Scaled(left[t], s) % W ELSE left[t]]
  /\ UNCHANGED <<list, period, used>>

\* tilem_z80_set_speed: timers that are due stay as they are
set_speed(s) ==
  /\ clockspeed' = s
  /\ left' = [t \in Timer |-> IF t \in ToSet(list["rt"]) /\ ~Due(t)
                              THEN Scaled(left[t], s) % W ELSE left[t]]
  /\ UNCHANGED <<list, period, used>>

\* The hardware is called in an instruction, in a callback and, by the reset that
\* an exception asks for, after it; the GUI calls between runs
Callable == incall \/ pc \in {"idle", "next"} \cup InOp

\* Bound: there are MaxCalls calls, and a timer is left for a run
Call ==
  /\ Callable
  /\ calls < MaxCalls /\ calls' = calls + 1
  /\ \/ /\ run # NoTimer \/ \E t \in Free : Free # {t}
        /\ \E n \in Count, p \in Period, k \in Kind : add_timer(n, p, k)
     \/ \E t \in used \ {run}, p \in Period :
          \/ \E n \in Count \cup {0}, k \in Kind : set_timer(t, n, p, k)
          \/ set_timer_period(t, p)
     \/ \E t \in used \ (HwTimer \cup {run}) : remove_timer(t)
     \/ \E s \in Speed \ {clockspeed} : set_speed(s)
  /\ UNCHANGED controlVars

-----------------------------------------------------------------------------
(* The run loop *)

Init ==
  /\ list = [k \in Kind |-> <<>>]
  /\ left = [t \in Timer |-> 0] /\ period = [t \in Timer |-> 0]
  /\ used = HwTimer /\ clockspeed \in Speed
  /\ pc = "idle" /\ back = "next" /\ intr = FALSE /\ incall = FALSE
  /\ spent = 0 /\ run = NoTimer /\ stopping = FALSE /\ calls = 0

\* tilem_z80_run and tilem_z80_run_time
run_begin ==
  /\ pc = "idle"
  /\ \E n \in Count, k \in Kind : add_timer(n, 0, k)
  /\ run' = NewTimer
  /\ pc' = "next" /\ stopping' = FALSE
  /\ UNCHANGED <<back, intr, incall, spent, calls>>

run_end ==
  /\ pc = "next" /\ stopping
  /\ remove_timer(run)
  /\ run' = NoTimer /\ pc' = "idle"
  /\ UNCHANGED <<back, intr, incall, spent, stopping, calls>>

begin_op ==
  /\ pc = "next" /\ ~stopping
  /\ pc' = "op"
  /\ UNCHANGED <<timerVars, back, intr, incall, spent, run, stopping, calls>>

\* Mutant: the difference is not taken modulo W
Mut_advance_signed(d) ==
  /\ left' = [t \in Timer |-> IF t \in On \cup {run} THEN left[t] - d ELSE left[t]]
  /\ UNCHANGED <<list, period, used, clockspeed>>

Advance(d) ==
  /\ left' = [t \in Timer |-> IF t \in On \cup {run} THEN (left[t] - d) % W
                              ELSE left[t]]
  /\ UNCHANGED <<list, period, used, clockspeed>>

\* delay(d), as often as the instruction says
delay ==
  /\ pc \in InOp
  /\ \E d \in 1..(MaxOp - spent) : Advance(d) /\ spent' = spent + d
  /\ UNCHANGED <<pc, back, intr, incall, run, stopping, calls>>

\* A breakpoint, an exception or the hardware calls tilem_z80_stop
stop ==
  /\ Callable /\ pc # "idle" /\ ~stopping /\ stopping' = TRUE
  /\ UNCHANGED <<timerVars, pc, back, intr, incall, spent, run, calls>>

begin_check(b) == pc' = "cpu" /\ back' = b

\* z80_input and z80_output check the timers before the port is accessed
port_io ==
  /\ pc = "op" /\ begin_check("op2")
  /\ UNCHANGED <<timerVars, intr, incall, spent, run, stopping, calls>>

end_op ==
  /\ pc \in InOp /\ spent > 0
  /\ begin_check(IF intr THEN "next" ELSE "done")
  /\ intr' = FALSE /\ spent' = 0
  /\ UNCHANGED <<timerVars, incall, run, stopping, calls>>

FirstDue(k) == list[k] # <<>> /\ Due(list[k][1])

\* Mutant: a timer is taken to be due when it nearly is
Mut_fire_early(k) ==
  /\ pc = k /\ ~incall /\ list[k] # <<>>
  /\ LET t == list[k][1] IN
     /\ Due(t) \/ left[t] = 1
     /\ timer_set(t, period[t], period[t], k, Late(t))
     /\ stopping' = (stopping \/ t = run) /\ incall' = (t # run)
  /\ UNCHANGED <<used, clockspeed, pc, back, intr, spent, run, calls>>

\* Mutant: a timer without a period stays in the list
Mut_fire_stays_set(k) ==
  /\ pc = k /\ ~incall /\ FirstDue(k)
  /\ LET t == list[k][1] IN
     /\ IF period[t] = 0 THEN UNCHANGED <<list, left, period>>
                         ELSE timer_set(t, period[t], period[t], k, Late(t))
     /\ stopping' = (stopping \/ t = run) /\ incall' = (t # run)
  /\ UNCHANGED <<used, clockspeed, pc, back, intr, spent, run, calls>>

\* One turn of check_timers: the first timer of the list is due; it is set again
\* and its callback is called.  The callback of the run's timer is tmr_stop.
fire(k) ==
  /\ pc = k /\ ~incall /\ FirstDue(k)
  /\ LET t == list[k][1] IN
     /\ timer_set(t, period[t], period[t], k, Late(t))
     /\ stopping' = (stopping \/ t = run) /\ incall' = (t # run)
  /\ UNCHANGED <<used, clockspeed, pc, back, intr, spent, run, calls>>

callback_return ==
  /\ incall /\ incall' = FALSE
  /\ UNCHANGED <<timerVars, pc, back, intr, spent, run, stopping, calls>>

\* check_timers goes on to the second list, and returns
check_done(k) ==
  /\ pc = k /\ ~incall /\ ~FirstDue(k)
  /\ pc' = IF k = "cpu" THEN "rt" ELSE back
  /\ UNCHANGED <<timerVars, back, intr, incall, spent, run, stopping, calls>>

\* An interrupt is accepted: as an instruction, except what follows it
accept_interrupt ==
  /\ pc = "done" /\ pc' = "op" /\ intr' = TRUE
  /\ UNCHANGED <<timerVars, back, incall, spent, run, stopping, calls>>

loop ==
  /\ pc = "done" /\ pc' = "next"
  /\ UNCHANGED <<timerVars, back, intr, incall, spent, run, stopping, calls>>

\* The Z80 is halted: fast-forward to the next timer, by whole steps
halt ==
  /\ pc = "done" /\ ~stopping /\ On # {}
  /\ LET first == {left[list[k][1]] : k \in {j \in Kind : list[j] # <<>>}}
         t1    == CHOOSE n \in first : \A m \in first : n <= m
     IN Advance(t1 - (t1 % HaltStep))
  /\ begin_check("next")
  /\ UNCHANGED <<intr, incall, spent, run, stopping, calls>>

core == \/ begin_op \/ delay \/ port_io \/ end_op \/ callback_return \/ loop
        \/ \E k \in Kind : fire(k) \/ check_done(k)
        \/ accept_interrupt \/ halt \/ run_end

Next == core \/ Call \/ run_begin \/ stop

Spec == Init /\ [][Next]_vars

-----------------------------------------------------------------------------
(* Properties *)

TypeOK ==
  /\ list \in [Kind -> Seq(Timer)]
  /\ left \in [Timer -> 0..(W - 1)] /\ period \in [Timer -> Period \cup {0}]
  /\ used \subseteq Timer /\ clockspeed \in Speed
  /\ pc \in Kind \cup {"idle", "next", "done"} \cup InOp
  /\ back \in {"op2", "done", "next"}
  /\ intr \in BOOLEAN /\ incall \in BOOLEAN /\ stopping \in BOOLEAN
  /\ spent \in 0..MaxOp /\ run \in Timer \cup {NoTimer} /\ calls \in Nat

\* However timers are added, set, fired and removed, from wherever, a timer is in
\* at most one list, once, and only if it has a callback.
OneListEach ==
  /\ \A k \in Kind : IsInjective(list[k])
  /\ ToSet(list["cpu"]) \cap ToSet(list["rt"]) = {}
  /\ On \subseteq used

\* The first timer of a list is its earliest, whatever becomes of the clock and
\* its speed: check_timers and the halted Z80 look at no other.
ListsSorted ==
  \A k \in Kind : \A i \in 2..Len(list[k]) :
    ~timer_earlier(left, list[k][i], list[k][i - 1])

\* No timer that is set has been passed by Slack clocks, after which it is taken
\* for one that is due when the clock has gone round: its callback is called when
\* the instruction finishes (emu/tilem.h:298-301).
Signed(t) == IF Due(t) THEN -Late(t) ELSE left[t]
Farthest(n, k) == IF k = "rt" THEN clockspeed * (n \div Khz + 1) ELSE n
NoneForgotten ==
  \A k \in Kind : \A t \in ToSet(list[k]) :
    \E n \in Count \cup Period : Signed(t) <= Farthest(n, k)

\* What the loops rely on: the first timer of a list is the next one due, and
\* whether it is due can be told by its distance from the clock.
TimersInOrder == ListsSorted /\ NoneForgotten

\* While a run goes on its own timer is set, so the run comes to an end and the
\* halted Z80 finds a timer (z80.c:949-952).
RunTimerSet == run # NoTimer /\ ~stopping => run \in On

\* A run that its own timer ends is not ended early, nor later than the rest of
\* the instruction and the acceptance of an interrupt (z80.c:973-991).
RunEndsInTime ==
  [][run_end /\ run \notin On => Late(run) <= 2 * MaxOp]_vars

\* The lists implement a set of timers that fire in order, without drift, and
\* are never Slack clocks late.
Abs == INSTANCE TimerSet WITH
  MaxLate <- Slack,
  on <- [k \in Kind |-> ToSet(list[k])],
  due <- [t \in Timer |-> IF t \in On THEN Signed(t) ELSE 0],
  period <- [t \in Timer |-> IF t \in On THEN period[t] ELSE 0],
  speed <- clockspeed
ImplementsTimerSet ==
  Abs!Init /\ [][Abs!Next(Count, Period \cup {0}, Speed, 1..W)]_(Abs!vars)

\* The Z80 goes on: the instruction comes to its end, and the loop calls every
\* callback that is due
FairSpec == Spec /\ WF_vars(core)

\* A run ends, whatever the callbacks do with the other timers.
RunReturns == run # NoTimer ~> run = NoTimer
=============================================================================
