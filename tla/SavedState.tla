----------------------------- MODULE SavedState -----------------------------
(***************************************************************************)
(* Saved states (emu/state.c): what a calculator keeps is written as lines *)
(* of names and values, to be read into a calculator that has been reset,  *)
(* the same one or a new one of the model that the file names. Writing may *)
(* be cut off at any byte.                                                 *)
(***************************************************************************)
EXTENDS Integers, Sequences, TLC
LOCAL INSTANCE SequencesExt
LOCAL INSTANCE FiniteSetsExt

CONSTANTS
  Hw,          \* hardware: records of model, flags, usertimers, hwregs, timers,
               \* speed (clocks per microsecond after a reset)
  Half,        \* values are below 2 * Half (2^32)
  LongTop,     \* the largest value that strtol returns (2^63 - 1)
  Left,        \* clocks that are left of a timer
  ClockSpeed,  \* clocks per microsecond
  MaxRuns      \* bound: how often the program runs

ASSUME StateConstants ==
  /\ Half \in Nat /\ LongTop \in Nat /\ MaxRuns \in Nat
  /\ Left \subseteq Nat \ {0} /\ ClockSpeed \subseteq Nat \ {0}

VARIABLES
  machine,   \* the calculator (calc): its hardware, registers, timers and memories
  savfile,   \* the state file
  kept,      \* history: the calculator as it was when all of the file was written, or
             \* its memories when some of it was
  loaded,    \* the result of the last load, or "none"
  runs       \* how often the program has run, bounded by MaxRuns

stateVars == <<machine, savfile, kept, loaded, runs>>

-----------------------------------------------------------------------------
(***************************************************************************)
(* What is saved, by the parts of a calculator                             *)
(***************************************************************************)
Cpu == <<"af", "bc", "de", "hl", "af'", "bc'", "de'", "hl'", "ix", "iy", "pc", "sp", "ir",
         "wz", "wz'", "iff1", "iff2", "im", "interrupts", "clockspeed", "halted">>
Display == <<"lcd.active", "lcd.contrast", "lcd.rowstride">>
T6A04 == <<"lcd.rowshift", "lcd.inc", "lcd.mode", "lcd.x", "lcd.y", "lcd.nextbyte",
           "lcd.busy">>
LinkPart == <<"linkport.lines", "linkport.mode">>
Assist == <<"linkport.assistflags", "linkport.assistin", "linkport.assistinbits",
            "linkport.assistout", "linkport.assistoutbits", "linkport.assistlastbyte">>
Common == <<"keypad.group", "keypad.onkeyint", "mempagemap0", "mempagemap1",
            "mempagemap2", "mempagemap3", "poweronhalt", "battery">>
FlashPart == <<"flash.unlock", "flash.state", "flash.busy", "flash.progaddr",
               "flash.progbyte", "flash.toggles", "flash.overridegroup">>
Md5 == <<"md5assist.a", "md5assist.b", "md5assist.c", "md5assist.d", "md5assist.x",
         "md5assist.t", "md5assist.shift", "md5assist.mode">>
UserTimer == <<
  <<"usertimer0.frequency", "usertimer0.loopvalue", "usertimer0.status">>,
  <<"usertimer1.frequency", "usertimer1.loopvalue", "usertimer1.status">>,
  <<"usertimer2.frequency", "usertimer2.loopvalue", "usertimer2.status">>>>

IfHas(hw, flag, names) == IF flag \in hw.flags THEN names ELSE <<>>

\* The names in the order in which they are written
WrittenNames == [hw \in Hw |->
  Cpu \o Display \o IfHas(hw, "t6a04", T6A04) \o <<"lcd.addr">> \o IfHas(hw, "link", LinkPart)
    \o IfHas(hw, "assist", Assist) \o Common \o IfHas(hw, "flash", FlashPart)
    \o IfHas(hw, "md5", Md5) \o FlattenSeq(SubSeq(UserTimer, 1, hw.usertimers))
    \o hw.hwregs]

\* Those that a file may set, whatever the hardware
KnownNames == Range(Cpu \o Display \o T6A04 \o <<"lcd.addr">> \o LinkPart \o Assist \o Common
               \o FlashPart \o Md5 \o FlattenSeq(UserTimer))

SignedNames == {"lcd.x", "lcd.y"}  \* an int, -1 at times
Readable == [hw \in Hw |-> KnownNames \cup Range(hw.hwregs)]

\* A reset leaves the battery and poweronhalt. Others stand for what it sets with 0.
ResetRegs(old, hw) ==
  [n \in Readable[hw] |-> IF n \in {"battery", "poweronhalt"} THEN old[n]
                          ELSE IF n = "clockspeed" THEN hw.speed ELSE 0]

\* tilem_calc_reset stops the timers of the programs and of the link, and starts those
\* of the hardware. Others go on.
Leftover == {"lcddelay", "flashdelay", "lcd_wait", "backlight_off"}
ResetCalc(c) ==
  [c EXCEPT !.regs = ResetRegs(@, c.hw), !.r7 = 0,
     !.timers = c.hw.timers @@ [t \in DOMAIN @ \cap Leftover |-> @[t]]]

NewCalc(hw) ==
  ResetCalc([hw |-> hw, regs |-> [n \in Readable[hw] |-> 1], r7 |-> 0, timers |-> <<>>,
         ram |-> <<0, 0>>, lcdmem |-> 0])

-----------------------------------------------------------------------------
(***************************************************************************)
(* The program runs: any registers and timers, but those of the hardware   *)
(* go on                                                                   *)
(***************************************************************************)
\* Every name has a value of its own; wide ones differ in the highest bit too.
Wide == {"interrupts", "linkport.mode", "linkport.assistflags"} \cup Range(Md5)
Position == [hw \in Hw |-> [n \in Range(WrittenNames[hw]) |->
              CHOOSE i \in DOMAIN WrittenNames[hw] : WrittenNames[hw][i] = n]]
RunRegs(hw, k, speed) ==
  [n \in Readable[hw] |->
     IF n \notin DOMAIN Position[hw] THEN 0
     ELSE IF n = "clockspeed" THEN speed
     ELSE IF n \in SignedNames THEN k - 1
     ELSE Position[hw][n] + k + (IF n \in Wide THEN Half ELSE 0)]

program_runs ==
  /\ runs < MaxRuns /\ runs' = runs + 1
  /\ \E speed \in ClockSpeed, left \in Left, on \in SUBSET machine.hw.names :
       /\ \A t \in DOMAIN machine.hw.timers : t \in on <=> t \in DOMAIN machine.timers
       /\ machine' = [machine EXCEPT
                         !.regs = RunRegs(machine.hw, runs, speed), !.r7 = 128 * (speed % 2),
                         !.timers = [t \in on |-> [left |-> left, period |-> 3,
                                                   rt |-> t \notin machine.hw.cputimers]],
                         !.ram = <<runs + 1, runs + 2>>,
                         !.lcdmem = IF machine.hw.lcdmem THEN runs + 1 ELSE 0]
  /\ UNCHANGED <<savfile, kept, loaded>>

-----------------------------------------------------------------------------
(***************************************************************************)
(* Writing                                                                 *)
(***************************************************************************)
\* tilem_z80_get_timer_microseconds, to the nearest
Microseconds(left, speed) == (left + speed \div 2) \div speed

SavedValue(c, n) ==
  IF n = "ir" THEN (c.regs[n] \div 256) * 256 + (c.regs[n] % 128) + c.r7
  ELSE c.regs[n] % (2 * Half)

TimerLine(c, t) ==
  LET tm == c.timers[t]
  IN [kind |-> "timer", name |-> t, period |-> tm.period, rt |-> tm.rt,
      value |-> IF tm.rt THEN Microseconds(tm.left, c.regs["clockspeed"]) ELSE tm.left]

Lines(c) ==
  LET names == WrittenNames[c.hw]
      timers(real) == SetToSeq({t \in DOMAIN c.timers : c.timers[t].rt = real})
  IN <<[kind |-> "model", name |-> c.hw.model]>>
       \o [i \in DOMAIN names |-> [kind |-> "reg", name |-> names[i],
                                   value |-> SavedValue(c, names[i])]]
       \o [i \in DOMAIN timers(FALSE) |-> TimerLine(c, timers(FALSE)[i])]
       \o [i \in DOMAIN timers(TRUE) |-> TimerLine(c, timers(TRUE)[i])]
       \o <<[kind |-> "block", name |-> "RAM", data |-> c.ram]>>
       \o (IF c.hw.lcdmem THEN <<[kind |-> "block", name |-> "LCD", data |-> c.lcdmem]>>
           ELSE <<>>)

Lost(c) == [ram |-> c.ram, lcdmem |-> c.lcdmem]  \* all that matters of it

NoFile == [kind |-> "none", lines |-> <<>>, open |-> FALSE]
NamedFile(lines) == [kind |-> "named", lines |-> lines, open |-> FALSE]

\* A clock without speed, from a file that was cut off there, is divided by.
Savable == machine.regs["clockspeed"] > 0

save_state ==
  /\ Savable /\ savfile' = NamedFile(Lines(machine)) /\ kept' = machine
  /\ UNCHANGED <<machine, loaded, runs>>

\* Nothing looks at the results of fprintf: the file ends somewhere, maybe within a
\* block. A line that is cut off may have lost digits, or its name.
CutFiles(lines) ==
  UNION {LET start == SubSeq(lines, 1, n - 1) IN
         {NamedFile(start)} \cup
           CASE lines[n].kind = "block" ->
                  {[NamedFile(Append(start, [lines[n] EXCEPT !.kind = "part"]))
                      EXCEPT !.open = TRUE]}
             [] lines[n].kind = "reg" ->
                  {NamedFile(Append(start, [lines[n] EXCEPT !.value = @ \div 16]))}
             [] OTHER -> {} : n \in DOMAIN lines}
save_fails ==
  /\ Savable /\ savfile = NoFile /\ savfile' \in CutFiles(Lines(machine))
  /\ kept' = Lost(machine) /\ UNCHANGED <<machine, loaded, runs>>

-----------------------------------------------------------------------------
(***************************************************************************)
(* Reading                                                                 *)
(***************************************************************************)
\* tilem_z80_set_timer: a count of 0 leaves the timer disabled
SetTimer(c, line) ==
  LET left == IF line.rt THEN line.value * c.regs["clockspeed"] ELSE line.value
      others == [t \in DOMAIN c.timers \ {line.name} |-> c.timers[t]]
  IN [c EXCEPT !.timers = IF left = 0 THEN others
        ELSE (line.name :> [left |-> left, period |-> line.period, rt |-> line.rt])
               @@ others]

\* set_ptimer: names of other hardware are ignored
set_ptimer(c, line) == IF line.name \in c.hw.names THEN SetTimer(c, line) ELSE c

\* strtol, and what the fields make of it
ReadValue(n, v) ==
  LET read == Min({v, LongTop})
  IN IF n \in SignedNames /\ read >= Half THEN read - 2 * Half ELSE read

Defined(c, line) ==
  LET v == ReadValue(line.name, line.value)
  IN CASE line.kind = "timer" -> set_ptimer(c, line)
       [] line.kind = "block" /\ line.name = "RAM" -> [c EXCEPT !.ram = line.data]
       [] line.kind = "block" /\ line.name = "LCD" /\ c.hw.lcdmem ->
            [c EXCEPT !.lcdmem = line.data]
       [] line.kind = "part" /\ line.name = "RAM" -> [c EXCEPT !.ram[1] = line.data[1]]
       [] line.kind = "reg" /\ line.name \in Readable[c.hw] ->
            [c EXCEPT !.regs[line.name] = v,
                      !.r7 = IF line.name = "ir" THEN ((v \div 128) % 2) * 128 ELSE @]
       [] OTHER -> c

\* Reading ends at the name of another model.
Heeded(c, file) ==
  LET wrong == {i \in DOMAIN file.lines : /\ file.lines[i].kind = "model"
                                          /\ file.lines[i].name # c.hw.model}
  IN IF wrong = {} THEN file.lines ELSE SubSeq(file.lines, 1, Min(wrong) - 1)

LinesRead(c, lines) ==
  LET read[n \in 0..Len(lines)] == IF n = 0 THEN c ELSE Defined(read[n - 1], lines[n])
  IN read[Len(lines)]

\* Mutant: timers would be read before the speed of the clock.
Mut_load_new_sav_file(c, file) ==
  LET late(l) == l.kind # "timer"
  IN LinesRead(c, SelectSeq(file.lines, LAMBDA l : ~late(l)) \o SelectSeq(file.lines, late))

\* load_new_sav_file, line by line: as far as it gets
load_new_sav_file(c, file) == LinesRead(c, Heeded(c, file))

Accepted(c, file) ==
  /\ ~file.open /\ Heeded(c, file) = file.lines
  /\ \E i \in DOMAIN file.lines : file.lines[i].kind = "model"

\* tilem_calc_load_state, into a calculator that is reset first
tilem_calc_load_state(c) ==
  LET new == load_new_sav_file(ResetCalc(c), savfile)
  IN IF Accepted(c, savfile) THEN new ELSE ResetCalc(new)

\* A new calculator of the model that the file names, or that the user has chosen. If
\* that fails there is the old one still.
emulator_load_state(hw) ==
  LET ok == Accepted(NewCalc(hw), savfile)
  IN /\ savfile # NoFile
     /\ machine' = IF ok THEN tilem_calc_load_state(NewCalc(hw)) ELSE machine
     /\ loaded' = IF ok THEN "loaded" ELSE "none"
     /\ UNCHANGED <<savfile, kept, runs>>

emulator_revert_state ==
  /\ savfile # NoFile
  /\ machine' = tilem_calc_load_state(machine)
  /\ loaded' = IF Accepted(machine, savfile) THEN "loaded" ELSE "rejected"
  /\ UNCHANGED <<savfile, kept, runs>>

StateInit ==
  /\ \E hw \in Hw : machine = NewCalc(hw)
  /\ savfile = NoFile /\ kept = <<>> /\ loaded = "none" /\ runs = 0

\* A behaviour ends when a file has been loaded, or rejected.
StateNext ==
  /\ loaded = "none"
  /\ \/ program_runs \/ save_state \/ save_fails
     \/ \E hw \in Hw : emulator_load_state(hw)
     \/ emulator_revert_state

-----------------------------------------------------------------------------
StateTypeOK ==
  /\ machine.hw \in Hw /\ DOMAIN machine.regs = Readable[machine.hw] /\ machine.r7 \in {0, 128}
  /\ loaded \in {"none", "loaded", "rejected"} /\ runs \in 0..MaxRuns
  /\ \A t \in DOMAIN machine.timers : t \in machine.hw.names /\ machine.timers[t].left > 0

\* The registers as a program sees them: R has seven bits of ir, and r7.
Observed(c, n) == IF n = "ir" THEN SavedValue(c, n) ELSE c.regs[n]

(***************************************************************************)
(* A calculator goes on from a file as it was when the file was written:   *)
(* all that its hardware has, with its memories, and its timers but for    *)
(* half a microsecond. A timer with less than that left never expires      *)
(* (its count is 0, which tilem_z80_set_timer takes for none), and one     *)
(* that a reset starts, or does not stop, may run where none ran.          *)
(***************************************************************************)
StateRestored ==
  loaded = "loaded" /\ "regs" \in DOMAIN kept =>
    LET speed == kept.regs["clockspeed"]
        Lasts(tm) == tm.rt => 2 * tm.left >= speed
        Near(a, b) == 2 * (a - b) <= speed /\ 2 * (b - a) <= speed
    IN /\ machine.hw = kept.hw /\ machine.ram = kept.ram /\ machine.lcdmem = kept.lcdmem
       /\ \A n \in Range(WrittenNames[machine.hw]) : Observed(machine, n) = Observed(kept, n)
       /\ \A t \in DOMAIN kept.timers : Lasts(kept.timers[t]) =>
            /\ t \in DOMAIN machine.timers
            /\ [machine.timers[t] EXCEPT !.left = 0] = [kept.timers[t] EXCEPT !.left = 0]
            /\ Near(machine.timers[t].left, kept.timers[t].left)
       /\ DOMAIN machine.timers \subseteq
            DOMAIN kept.timers \cup Leftover \cup DOMAIN machine.hw.timers

(***************************************************************************)
(* A file that ends within the memory is not accepted: where it is, the    *)
(* RAM is the one that was saved, or as it was before (the end of the file *)
(* in load_new_sav_file). The registers of such a file may be those of a   *)
(* reset in part.                                                          *)
(***************************************************************************)
MemoryWhole ==
  loaded = "loaded" /\ kept # <<>> => machine.ram = kept.ram \/ machine.ram[1] # kept.ram[1]

\* A file that is rejected leaves nothing but memory behind (tilem_calc_reset).
RejectedForgotten == loaded = "rejected" => machine.regs = ResetRegs(machine.regs, machine.hw)

SavedSound == StateRestored /\ MemoryWhole /\ RejectedForgotten
=============================================================================
