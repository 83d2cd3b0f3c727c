------------------------------ MODULE Hardware ------------------------------
(***************************************************************************)
(* The ports of the twelve models of calculator (emu/x*/x*_io.c, x*_init.c)*)
(* and what the program does with memory that changes them: interrupts and *)
(* their masks, the memory map (module Paging), the protection of the      *)
(* Flash, delays, and the clock of the later models. Here is the model of  *)
(* the calculator's hardware; the wires of the link port, the crystal      *)
(* timers and the Flash chip are in LinkPort, UserTimers and Flash.        *)
(*                                                                         *)
(* The state of the hardware is one record, s; the functions of the code   *)
(* are operators that give the record after them.                          *)
(***************************************************************************)
EXTENDS Paging

CONSTANTS
  Uses,        \* what a program does with which model: a set of records with
               \* hw, out (ports and values), in (ports), read (addresses and
               \* bytes), events (names)
  Addresses,   \* addresses that the translation is checked at
  Radix,       \* values of a byte of the clock (256)
  MaxTime      \* bound: the host's time, in seconds

Events == {"on", "link", "int", "lcd_wait", "backlight", "second", "reset"}
Interrupts == {"on_key", "timer1", "timer2", "link_active", "link_read", "link_idle",
               "link_error"}

ASSUME UsesOfModels ==
  \A u \in Uses : u.hw \in Models /\ u.events \subseteq Events
                  /\ \A o \in u.out : o[2] \in 0 .. 255

ASSUME HardwareConstants ==
  Addresses \subseteq 0 .. 4 * PageSize - 1 /\ Radix \in Nat \ {0} /\ MaxTime \in Nat

VARIABLES
  use,      \* the member of Uses that is at work
  board,    \* the hardware
  now,      \* the host's time
  matched   \* history: for each n of it, the last n bytes read from trusted
            \* pages, and nothing else, are the first n of the sequence that
            \* unlocks; the seventh byte is any

hwVars == <<use, board, now, matched>>

ProtectBytes == <<\h00, \h00, \hED, \h56, \hF3, \hD3>>

RegisterNames ==
  {"HW_VERSION", "ROM_BANK", "PORT0", "PORT2", "PORT3", "PORT4", "PORT5", "PORT6",
   "PORT7", "PORT8", "PORT9", "PORTA", "PORTB", "PORTC", "PORTE", "PORTF",
   "PORT20", "PORT21", "PORT22", "PORT23", "PORT24", "PORT25", "PORT26", "PORT27",
   "PORT28", "PORT29", "PORT2A", "PORT2B", "PORT2C", "PORT2D", "PORT2E", "PORT2F",
   "PORT39", "PORT3A", "NOEXEC", "NOEXEC1", "NOEXEC2", "NOEXEC3", "NOEXEC4",
   "NO_EXEC_RAM", "NO_EXEC_RAM_MASK", "NO_EXEC_RAM_LOWER", "NO_EXEC_RAM_UPPER",
   "FLASH_EXEC_DELAY", "FLASH_READ_DELAY", "FLASH_WRITE_DELAY", "RAM_EXEC_DELAY",
   "RAM_READ_DELAY", "RAM_WRITE_DELAY", "LCD_PORT_DELAY", "LCD_WAIT",
   "PROTECTSTATE", "CLOCK_MODE", "CLOCK_INPUT", "CLOCK_DIFF", "BACKLIGHT_ON",
   "BACKLIGHT_LEVEL"}

Num(bool) == IF bool THEN 1 ELSE 0
With(s, name, v) == [s EXCEPT !.hwregs[name] = v]
Remap(s) == [s EXCEPT !.map = setup_mapping(s.hw, s.hwregs)]

-----------------------------------------------------------------------------
(***************************************************************************)
(* What the ports of several models share                                  *)
(***************************************************************************)
\* The bit of a mask port for an interrupt
MaskBit == [on_key |-> 0, timer1 |-> 1, timer2 |-> 2, link_active |-> 4]

\* Interrupts of the set whose bit in v is clear are withdrawn.
Withdraw(s, v, which) ==
  [s EXCEPT !.ints = {i \in @ : i \in which => BitOf(v, MaskBit[i])}]

\* tilem_linkport_set_mode, with the end of dbus_update: reading and idling
\* interrupt while they last.
FlagOf == [link_active |-> "int_active", link_error |-> "int_error",
           link_read |-> "int_read", link_idle |-> "int_idle"]
link_levels(s) ==
  LET on == {i \in {"link_read", "link_idle"} : FlagOf[i] \in s.mode /\ i \in s.link}
  IN [s EXCEPT !.ints = (@ \ {"link_read", "link_idle"}) \cup on]

linkport_set_mode(s, mode) ==
  LET turned == ("assist" \in mode) # ("assist" \in s.mode)
  IN link_levels([s EXCEPT !.mode = mode,
                    !.link = IF turned THEN @ \cup {"link_idle"} ELSE @,
                    !.ints = {i \in @ : i \in {"link_active", "link_error"}
                                          => FlagOf[i] \in mode}])

ModeBit(mode, flag, on) == IF on THEN mode \cup {flag} ELSE mode \ {flag}

\* Mutant: a pending interrupt would outlive its mask.
Mut_out_mask(s, v, which) ==
  With([s EXCEPT !.onkeyint = BitOf(v, 0), !.poweronhalt = BitOf(v, 3)], "PORT3", v)

\* Port 3: the mask of the interrupts, and the power of the screen
out_mask(s, v, which) ==
  With([Withdraw(s, v, which \cup {"on_key"})
          EXCEPT !.onkeyint = BitOf(v, 0), !.poweronhalt = BitOf(v, 3)], "PORT3", v)

Timer1 == {"timer1"}
Timers12 == {"timer1", "timer2"}

raise_timer(s, i) ==
  IF BitOf(s.hwregs.PORT3, MaskBit[i]) THEN [s EXCEPT !.ints = @ \cup {i}] ELSE s

Rowstride(v) == <<10, 12, 16, 20>>[1 + ((v \div 8) % 4)]

\* A read gives the hardware after it and the value, or Elsewhere when the
\* value is the business of the wires, the keys or the screen.
Elsewhere == -1
Reads(s, v) == [board |-> s, value |-> v]

ShowKeyInts(s) == 8 * Num(~s.onkeydown) + Num("on_key" \in s.ints)
                    + 2 * Num("timer1" \in s.ints)
ShowInts(s) == ShowKeyInts(s) + 4 * Num("timer2" \in s.ints)
                 + 16 * Num("link_active" \in s.ints)

-----------------------------------------------------------------------------
(***************************************************************************)
(* TI-81                                                                   *)
(***************************************************************************)
\* The first ports that the system writes tell which hardware it is for.
x1_detect(s, p) ==
  IF s.hwregs.HW_VERSION # 0 \/ ~s.pclow THEN s
  ELSE IF p \in {5, 6} THEN Remap(With(s, "HW_VERSION", 1))
  ELSE IF p \in {\h10, \h11} THEN Remap(With([s EXCEPT !.lcd.rowstride = 15], "HW_VERSION", 2))
  ELSE s

\* The ports that there are appear over and over
x1_port(s, port) == IF s.hwregs.HW_VERSION = 1 THEN port % 8 ELSE port % 32

x1_out(s, p, v) ==
  LET next == With(s, "PORT4", v)
  IN CASE p = 0 -> [s EXCEPT !.lcd.addr = (v % 32) * 256]
       [] p = 2 -> LET t == Remap(With(s, "PORT2", v))
                   IN IF s.hwregs.HW_VERSION = 2 THEN t
                      ELSE [t EXCEPT !.lcd.contrast = 16 + (v % 32)]
       [] p = 3 -> [out_mask(s, v, Timer1) EXCEPT !.lcd.active = BitOf(v, 3)]
       [] p = 4 -> IF s.hwregs.HW_VERSION # 1 THEN next
                   ELSE [next EXCEPT !.lcd.rowstride = Rowstride(v)]
       [] p = 5 -> Remap(With(s, "PORT5", v))
       [] p = 6 -> Remap(With(s, "PORT6", v))
       [] OTHER -> s

x1_detected(s, port, v) == x1_out(s, x1_port(s, port), v)
x1_z80_out(s, port, v) == x1_detected(x1_detect(s, port), port, v)

x1_z80_in(s, port) ==
  LET p == x1_port(s, port)
  IN CASE p = 2 -> Reads(s, s.hwregs.PORT2) [] p = 3 -> Reads(s, ShowKeyInts(s))
       [] p = 5 -> Reads(s, s.hwregs.PORT5) [] p = 6 -> Reads(s, s.hwregs.PORT6)
       [] OTHER -> Reads(s, Elsewhere)

x1_z80_ptimer(s, id) == IF id = "INT" THEN raise_timer(s, "timer1") ELSE s

x1_reset(s) ==
  [s EXCEPT !.hwregs = [@ EXCEPT !.PORT3 = \h08, !.PORT2 = 0, !.PORT5 = 0, !.PORT6 = 0],
            !.map = <<0, 1, 0, 2>>,
            !.lcd.rowstride = IF s.hwregs.HW_VERSION # 2 THEN 12 ELSE @,
            !.speed = 2000]

-----------------------------------------------------------------------------
(***************************************************************************)
(* TI-82                                                                   *)
(***************************************************************************)
x2_z80_out(s, p, v) ==
  CASE p = 0 -> With(s, "PORT0", v)
    [] p = 2 -> Remap(With(s, "PORT2", v))
    [] p = 3 -> out_mask(s, v, Timer1)
    [] p = 4 -> LET t == With(s, "PORT4", v)
                IN Remap(IF s.pclow THEN With(t, "HW_VERSION", IF BitOf(v, 4) THEN 1 ELSE 2)
                         ELSE t)
    [] OTHER -> s

x2_z80_in(s, p) ==
  CASE p = 2 -> Reads(s, s.hwregs.PORT2)
    [] p = 3 -> Reads(s, ShowKeyInts(s))
    [] OTHER -> Reads(s, Elsewhere)

x2_z80_ptimer(s, id) == IF id = "INT" THEN raise_timer(s, "timer1") ELSE s

x2_reset(s) ==
  [s EXCEPT !.hwregs = [@ EXCEPT !.PORT2 = \hF8, !.PORT3 = \h0B, !.PORT4 = 0],
            !.map = <<0, 0, 9, 8>>, !.speed = 6000]

-----------------------------------------------------------------------------
(***************************************************************************)
(* TI-83 and TI-76                                                         *)
(***************************************************************************)
Periods3 == <<1667, 1852, 3889, 4321, 6111, 6790, 8333, 9259>>

x3_z80_out(s, p, v) ==
  CASE p = 0 -> Remap(With(s, "ROM_BANK", 8 * Num(BitOf(v, 4))))
    [] p = 2 -> Remap(With(s, "PORT2", v))
    [] p = 3 -> out_mask(s, v, Timers12)
    [] p = 4 -> Remap([With(s, "PORT4", v)
                  EXCEPT !.int_period = Periods3[1 + Num(BitOf(v, 4)) + 2 * ((v \div 2) % 4)]])
    [] OTHER -> s

x3_z80_in(s, p) ==
  CASE p \in {2, 6, \h0A, \h0E, \h16, \h1E} -> Reads(s, s.hwregs.PORT2)
    [] p \in {3, 7, \h0B, \h0F, \h17, \h1F} -> Reads(s, ShowKeyInts(s))
    [] OTHER -> Reads(s, Elsewhere)

x3_z80_ptimer(s, id) ==
  CASE id = "INT1" -> raise_timer(s, "timer1")
    [] id \in {"INT2A", "INT2B"} -> raise_timer(s, "timer2")
    [] OTHER -> s

x3_reset(s) ==
  [s EXCEPT !.hwregs = [@ EXCEPT !.PORT2 = \hF8, !.PORT3 = \h0B, !.PORT4 = 0, !.ROM_BANK = 0],
            !.map = <<0, 0, \h11, \h10>>, !.speed = 6000, !.int_period = 9259]

-----------------------------------------------------------------------------
(***************************************************************************)
(* TI-85 and TI-86, whose screen shows a part of the RAM                   *)
(***************************************************************************)
x5_z80_out(s, p, v) ==
  CASE p = 0 -> [s EXCEPT !.lcd.addr = (v % 64) * 256]
    [] p = 2 -> [s EXCEPT !.lcd.contrast = 16 + (v % 32)]
    [] p = 3 -> [out_mask(s, v, Timer1) EXCEPT !.lcd.active = BitOf(v, 3)]
    [] p = 4 -> [With(s, "PORT4", v) EXCEPT !.lcd.rowstride = Rowstride(v)]
    [] p = 5 -> Remap(With(s, "PORT5", v))
    [] p = 6 -> Remap(With(s, "PORT6", v))
    [] p = 7 -> With(s, "PORT7", v)
    [] OTHER -> s

x6_z80_out(s, p, v) == x5_z80_out(s, p, v)

x5_z80_in(s, p) ==
  CASE p = 3 -> Reads(s, ShowKeyInts(s)) [] p = 4 -> Reads(s, 1)
    [] p = 5 -> Reads(s, s.hwregs.PORT5) [] p = 6 -> Reads(s, s.hwregs.PORT6)
    [] OTHER -> Reads(s, Elsewhere)

x6_z80_in(s, p) == x5_z80_in(s, p)

x5_z80_ptimer(s, id) == IF id = "INT" THEN raise_timer(s, "timer1") ELSE s
x6_z80_ptimer(s, id) == IF id = "INT" THEN raise_timer(s, "timer1") ELSE s

x5_reset(s) ==
  [s EXCEPT !.hwregs = [@ EXCEPT !.PORT3 = \h0B, !.PORT4 = \h16, !.PORT5 = 0, !.PORT6 = \h40],
            !.map = <<0, 0, 8, 8>>, !.lcd.addr = \h3C00, !.speed = 6000]

x6_reset(s) ==
  [s EXCEPT !.hwregs = [@ EXCEPT !.PORT3 = \h0B, !.PORT4 = \h56, !.PORT5 = 0, !.PORT6 = 0],
            !.map = <<0, 0, 0, \h10>>, !.lcd.addr = \h3C00, !.speed = 6000]


-----------------------------------------------------------------------------
(***************************************************************************)
(* TI-73, TI-83 Plus: Flash, and the protection of it                      *)
(***************************************************************************)
Periods7 == <<1786, 4032, 5882, 8474>>

\* Ports 6 and 7 of these two models hold seven bits.
x7_z80_out(s, port, v) ==
  LET p == IF port % 32 \in 8..15 THEN port % 8 ELSE port % 32
      open == s.hwregs.PROTECTSTATE = 7
  IN CASE p = 3 -> linkport_set_mode(out_mask(s, v, Timers12),
                            ModeBit(s.mode, "int_active", BitOf(v, 4)))
       [] p = 4 -> Remap([With(s, "PORT4", v)
                     EXCEPT !.int_period = Periods7[1 + ((v \div 2) % 4)]])
       [] p = 6 -> Remap(With(s, "PORT6", v % 128))
       [] p = 7 -> Remap(With(s, "PORT7", v % 128))
       [] p \in {\h14, \h15} /\ open -> [s EXCEPT !.unlock = BitOf(v, 0)]
       [] p \in {\h16, \h17} /\ open /\ s.unlock -> With(s, "NOEXEC", 4 * (v % 16))
       [] OTHER -> s

xp_noexec(s, v) ==
  CASE s.hwregs.PORT5 = 0 -> With(s, "NOEXEC1", v)
    [] s.hwregs.PORT5 = 1 -> With(s, "NOEXEC2", v)
    [] s.hwregs.PORT5 = 2 -> With(s, "NOEXEC3", v % 16)
    [] s.hwregs.PORT5 = 7 -> With(s, "NOEXEC4", (v % 2) + 2 * Num(BitOf(v, 5)))
    [] OTHER -> s

xp_z80_out(s, port, v) ==
  LET p == IF port % 32 \in 8..15 THEN port % 8 ELSE port % 32
      open == s.hwregs.PROTECTSTATE = 7
  IN CASE p = 0 -> linkport_set_mode(s, ModeBit(s.mode, "assist", BitOf(v, 2)))
       [] p = 3 -> linkport_set_mode(out_mask(s, v, Timers12),
                            ModeBit(s.mode, "int_active", BitOf(v, 4)))
       [] p = 4 -> Remap([With(s, "PORT4", v)
                     EXCEPT !.int_period = Periods7[1 + ((v \div 2) % 4)]])
       [] p = 5 -> With(s, "PORT5", v % 8)
       [] p = 6 -> Remap(With(s, "PORT6", v % 128))
       [] p = 7 -> Remap(With(s, "PORT7", v % 128))
       [] p \in {\h14, \h15} /\ open -> [s EXCEPT !.unlock = BitOf(v, 0)]
       [] p \in {\h16, \h17} /\ open /\ s.unlock -> xp_noexec(s, v)
       [] OTHER -> s

\* The battery, in port 2, is not modelled.
x7_z80_in(s, port) ==
  LET p == IF port % 32 \in 8..15 THEN port % 8 ELSE port % 32
  IN CASE p = 3 -> Reads(s, s.hwregs.PORT3) [] p = 4 -> Reads(s, ShowInts(s))
       [] p = 6 -> Reads(s, s.hwregs.PORT6) [] p = 7 -> Reads(s, s.hwregs.PORT7)
       [] OTHER -> Reads(s, Elsewhere)

\* tilem_linkport_read_byte
linkport_read_byte(s) == link_levels([s EXCEPT !.link = (@ \ {"link_read"}) \cup {"link_idle"}])

xp_z80_in(s, port) ==
  LET p == IF port % 32 \in 8..15 THEN port % 8 ELSE port % 32
  IN CASE p = 2 -> Reads(s, 4 * Num(s.unlock) + 8 * s.hwregs.PORT5)
       [] p = 3 -> Reads(s, s.hwregs.PORT3) [] p = 4 -> Reads(s, ShowInts(s))
       [] p = 5 -> Reads(linkport_read_byte(s), Elsewhere)
       [] p = 6 -> Reads(s, s.hwregs.PORT6) [] p = 7 -> Reads(s, s.hwregs.PORT7)
       [] OTHER -> Reads(s, Elsewhere)

x7_z80_ptimer(s, id) ==
  CASE id = "INT1" -> raise_timer(s, "timer1")
    [] id \in {"INT2A", "INT2B"} -> raise_timer(s, "timer2") [] OTHER -> s
xp_z80_ptimer(s, id) ==
  CASE id = "INT1" -> raise_timer(s, "timer1")
    [] id \in {"INT2A", "INT2B"} -> raise_timer(s, "timer2") [] OTHER -> s

PlusReset(s) ==
  [s EXCEPT !.hwregs = [@ EXCEPT !.PORT3 = \h0B, !.PORT4 = \h77, !.PORT6 = \h1F,
                                 !.PORT7 = \h1F, !.PROTECTSTATE = 0],
            !.map = <<0, \h1E, \h1F, \h1F>>, !.speed = 6000, !.int_period = 8474]

x7_reset(s) == With(PlusReset(s), "NOEXEC", 0)

xp_reset(s) ==
  LET t == PlusReset(s)
  IN linkport_set_mode([t EXCEPT !.hwregs = [@ EXCEPT !.PORT5 = 0, !.NOEXEC1 = 0, !.NOEXEC2 = 0,
                                             !.NOEXEC3 = 0, !.NOEXEC4 = 0]],
              {"no_timeout"})

-----------------------------------------------------------------------------
(***************************************************************************)
(* TI-83 Plus SE and later (x4 is the TI-84 Plus): what they share         *)
(***************************************************************************)
Periods4 == <<1953, 4395, 6836, 9277>>
HasClock == {"x4", "xz", "xn", "xc"}

\* A transfer to or from the screen keeps it busy, unless the CPU is slow.
set_lcd_wait_timer(s) ==
  IF s.hwregs.PORT20 % 4 = 0 THEN s ELSE With([s EXCEPT !.lcd_wait = TRUE], "LCD_WAIT", 1)

DelayPort == <<"PORT29", "PORT2A", "PORT2B", "PORT2C">>
DelaysOf(r) ==
  LET lcdport == r[DelayPort[1 + (r.PORT20 % 4)]]
      delay(n, gate) == Num(BitOf(r.PORT2E, n) /\ BitOf(lcdport, gate))
  IN [FLASH_EXEC_DELAY |-> delay(0, 0), FLASH_READ_DELAY |-> delay(1, 0),
      FLASH_WRITE_DELAY |-> delay(2, 0), RAM_EXEC_DELAY |-> delay(4, 1),
      RAM_READ_DELAY |-> delay(5, 1), RAM_WRITE_DELAY |-> delay(6, 1),
      LCD_PORT_DELAY |-> lcdport \div 4]

setup_clockdelays(s) ==
  LET new == DelaysOf(s.hwregs)
  IN [s EXCEPT !.hwregs = [n \in DOMAIN @ |-> IF n \in DOMAIN new THEN new[n] ELSE @[n]]]


\* Ports 2 to 7; the Nspire has no port 2.
silver_system_out(s, p, v) ==
  CASE p = 2 -> IF s.hw = "xn" THEN s ELSE Withdraw(s, v, DOMAIN MaskBit)
    [] p = 3 -> linkport_set_mode([out_mask(s, v, Timers12) EXCEPT !.nohalt = (v \div 2) % 4 = 0],
                         ModeBit(s.mode, "int_active", BitOf(v, 4)))
    [] p = 4 -> Remap([With(s, "PORT4", v)
                  EXCEPT !.int_period = Periods4[1 + ((v \div 2) % 4)]])
    [] p = 5 -> Remap(With(s, "PORT5", v % 16))
    [] p = 6 -> Remap(With(s, "PORT6", v))
    [] p = 7 -> Remap(With(s, "PORT7", v))
    [] OTHER -> s

assist_mode(mode, v) ==
  ModeBit(ModeBit(ModeBit(ModeBit(mode, "int_read", BitOf(v, 0)), "int_idle", BitOf(v, 1)),
                  "int_error", BitOf(v, 2)), "assist", ~BitOf(v, 7))

\* tilem_linkport_write_byte: the assist is busy with the byte.
linkport_write_byte(s) == link_levels([s EXCEPT !.link = @ \ {"link_idle"}])

silver_link_out(s, p, v) ==
  CASE p = 8 -> linkport_set_mode(With(s, "PORT8", v), assist_mode(s.mode, v))
    [] p = 9 -> With(s, "PORT9", v) [] p = \h0A -> With(s, "PORTA", v)
    [] p = \h0B -> With(s, "PORTB", v) [] p = \h0C -> With(s, "PORTC", v)
    [] p = \h0D -> IF BitOf(s.hwregs.PORT8, 7) THEN s ELSE linkport_write_byte(s)

silver_unlock_out(s, v) ==
  IF s.hwregs.PROTECTSTATE = 7 THEN [s EXCEPT !.unlock = BitOf(v, 0)] ELSE s

\* Ports 21 to 26 limit where programs may run.
silver_limit_out(s, p, v) ==
  CASE p = \h21 -> [s EXCEPT !.hwregs = [@ EXCEPT !.PORT21 = v,
                               !.NO_EXEC_RAM_MASK = \h8000 * 2 ^ ((v \div 16) % 4) - \h400],
                             !.override = v % 4]
    [] p = \h22 -> With(s, "PORT22", v)
    [] p = \h23 -> With(s, "PORT23", v)
    [] p = \h25 -> With(With(s, "PORT25", v), "NO_EXEC_RAM_LOWER", v * \h400)
    [] p = \h26 -> With(With(s, "PORT26", v), "NO_EXEC_RAM_UPPER", v * \h400)
    [] OTHER -> s

\* Ports 20 and 27 to 2F: the speed, what is laid over the RAM, and the delays.
\* Port 2D sets the delays anew in one model.
silver_speed_out(s, p, v) ==
  CASE p = \h20 -> setup_clockdelays([With(s, "PORT20", v)
                     EXCEPT !.speed = IF v % 4 = 0 THEN 6000 ELSE 15000])
    [] p = \h27 -> With(s, "PORT27", v)
    [] p = \h28 -> With(s, "PORT28", v)
    [] p \in \h29..\h2C -> setup_clockdelays(With(s, DelayPort[p - \h28], v))
    [] p = \h2D -> LET t == With(s, "PORT2D", v)
                   IN IF s.hw = "xs" THEN setup_clockdelays(t) ELSE t
    [] p = \h2E -> setup_clockdelays(With(s, "PORT2E", v))
    [] p = \h2F -> With(s, "PORT2F", v)

\* The clock counts the host's seconds from CLOCK_DIFF, modulo four bytes.
Scale == <<1, Radix, Radix * Radix, Radix * Radix * Radix>>
ClockPeriod == Radix * Radix * Radix * Radix
Wrap(n) == n % ClockPeriod
ClockByte(n, i) == (n \div Scale[i + 1]) % Radix

\* Mutant: starting the clock would not count from the present.
Mut_clock_control(s, v) ==
  LET r == s.hwregs
      load == ~BitOf(r.CLOCK_MODE, 1) /\ BitOf(v, 1)
  IN [s EXCEPT !.hwregs.CLOCK_DIFF = IF load THEN r.CLOCK_INPUT ELSE @,
               !.hwregs.CLOCK_MODE = v % 4]

clock_control(s, v) ==
  LET r == s.hwregs
      turned == BitOf(r.CLOCK_MODE, 0) # BitOf(v, 0)
      kept == IF ~turned THEN r.CLOCK_DIFF
              ELSE IF BitOf(v, 0) THEN Wrap(r.CLOCK_DIFF - now) ELSE Wrap(r.CLOCK_DIFF + now)
      load == ~BitOf(r.CLOCK_MODE, 1) /\ BitOf(v, 1)
      loaded == IF BitOf(v, 0) THEN Wrap(r.CLOCK_INPUT - now) ELSE r.CLOCK_INPUT
  IN [s EXCEPT !.hwregs.CLOCK_DIFF = IF load THEN loaded ELSE kept,
               !.hwregs.CLOCK_MODE = v % 4]

clock_input(s, i, v) ==
  LET old == s.hwregs.CLOCK_INPUT
  IN With(s, "CLOCK_INPUT", old + ((v % Radix) - ClockByte(old, i)) * Scale[i + 1])

silver_clock_out(s, p, v) ==
  IF p = \h40 THEN clock_control(s, v) ELSE clock_input(s, p - \h41, v)

ClockPorts == \h40..\h44

x4_z80_out(s, port, v) ==
  LET p == port % 256
  IN CASE p \in 2..7 -> silver_system_out(s, p, v)
       [] p \in \h08..\h0D -> silver_link_out(s, p, v)
       [] p = \h0E -> With(s, "PORTE", v) [] p = \h0F -> With(s, "PORTF", v)
       [] p \in \h10..\h13 -> set_lcd_wait_timer(s)
       [] p = \h14 -> silver_unlock_out(s, v)
       [] p \in \h21..\h26 /\ s.unlock -> silver_limit_out(s, p, v)
       [] p \in {\h20} \cup \h27..\h2F -> silver_speed_out(s, p, v)
       [] p \in ClockPorts -> silver_clock_out(s, p, v)
       [] OTHER -> s

xz_z80_out(s, port, v) == x4_z80_out(s, port, v)
xs_z80_out(s, port, v) == IF port % 256 \in ClockPorts THEN s ELSE x4_z80_out(s, port, v)

\* The Nspire limits RAM by its pages, two masks of which the chips keep eight,
\* and asks for the unlocking sequence each time.
xn_limit_out(s, p, v) ==
  CASE p = \h21 -> [s EXCEPT !.hwregs = [@ EXCEPT !.PORT21 = v,
                      !.NO_EXEC_RAM = <<\h5555, \h9999, \hF9F9, \hFFF9>>[1 + ((v \div 16) % 4)]]]
    [] p = \h22 -> With(s, "PORT22", v) [] p = \h23 -> With(s, "PORT23", v)
    [] p = \h25 -> With(s, "PORT25", v) [] p = \h26 -> With(s, "PORT26", v)
    [] OTHER -> s

xn_z80_out(s, port, v) ==
  LET p == port % 256
      open == s.unlock /\ s.hwregs.PROTECTSTATE = 7
  IN IF p \in \h21..\h26 THEN IF open THEN xn_limit_out(s, p, v) ELSE s
     ELSE x4_z80_out(s, port, v)

\* The TI-84 Plus C has twice the Flash, and a light behind its screen.
xc_backlight_out(s, v) ==
  LET r == s.hwregs
      level == IF r.BACKLIGHT_ON = 0 THEN 0 ELSE (r.BACKLIGHT_LEVEL + 1) % 32
      rise == BitOf(v, 5) /\ ~BitOf(r.PORT3A, 5)
      fall == ~BitOf(v, 5) /\ BitOf(r.PORT3A, 5)
      t == With(s, "PORT3A", v)
  IN CASE rise -> [t EXCEPT !.hwregs.BACKLIGHT_ON = 1, !.hwregs.BACKLIGHT_LEVEL = level,
                            !.lcd.contrast = IF level = 31 THEN 0 ELSE 41 - level,
                            !.backlight = FALSE]
       [] fall -> [t EXCEPT !.backlight = TRUE]
       [] OTHER -> t

xc_z80_out(s, port, v) ==
  LET p == port % 256
  IN CASE p = \h0E -> Remap(With(s, "PORTE", v)) [] p = \h0F -> Remap(With(s, "PORTF", v))
       [] p = \h24 -> IF s.unlock THEN With(s, "PORT24", v) ELSE s
       [] p = \h39 -> With(s, "PORT39", v)
       [] p = \h3A -> xc_backlight_out(s, v)
       [] p \notin {\h0E, \h0F, \h24, \h39, \h3A} -> x4_z80_out(s, port, v)

\* What a program reads; the battery, the user timers and the flags of the
\* assist that interrupt nothing are not modelled.
PlainPort(r, p) ==
  CASE p = 3 -> r.PORT3 [] p = 5 -> r.PORT5 % 16 [] p = 6 -> r.PORT6 [] p = 7 -> r.PORT7
    [] p = 8 -> r.PORT8 [] p = \h0E -> r.PORTE % 4 [] p = \h0F -> r.PORTF % 4
    [] p = \h20 -> r.PORT20 % 4 [] p = \h21 -> (r.PORT21 % 4) + 16 * ((r.PORT21 \div 16) % 4)
    [] p = \h22 -> r.PORT22 [] p = \h23 -> r.PORT23 [] p = \h25 -> r.PORT25
    [] p = \h26 -> r.PORT26 [] p = \h27 -> r.PORT27 [] p = \h28 -> r.PORT28
    [] p = \h29 -> r.PORT29 [] p = \h2A -> r.PORT2A [] p = \h2B -> r.PORT2B
    [] p = \h2C -> r.PORT2C [] p = \h2D -> r.PORT2D % 4 [] p = \h2E -> r.PORT2E
    [] p = \h2F -> r.PORT2F [] OTHER -> Elsewhere

ShowLink(s) == Num("link_read" \in s.ints) + 2 * Num("link_idle" \in s.ints)
                 + 4 * Num("link_error" \in s.ints)

\* Port 40 tells how the clock is, 41 to 44 what it is to be set to, and 45 to
\* 48 the time, a byte each.
clock_in(s, p) ==
  LET r == s.hwregs
      time == Wrap((IF BitOf(r.CLOCK_MODE, 0) THEN now ELSE 0) + r.CLOCK_DIFF)
  IN CASE p = \h40 -> r.CLOCK_MODE
       [] p \in \h41..\h44 -> ClockByte(r.CLOCK_INPUT, p - \h41)
       [] p \in \h45..\h48 -> ClockByte(time, p - \h45)

x4_z80_in(s, port) ==
  LET p == port % 256
  IN CASE p = 2 -> Reads(s, 2 * Num(s.hwregs.LCD_WAIT = 0) + 4 * Num(s.unlock))
       [] p = 4 -> Reads(s, ShowInts(s))
       [] p = 9 -> Reads([s EXCEPT !.ints = @ \ {"link_error"}], ShowLink(s))
       [] p = \h0A -> Reads(linkport_read_byte(s), Elsewhere)
       [] p \in \h10..\h13 -> Reads(set_lcd_wait_timer(s), Elsewhere)
       [] p \in \h40..\h48 -> Reads(s, clock_in(s, p))
       [] OTHER -> Reads(s, PlainPort(s.hwregs, p))

xz_z80_in(s, port) == x4_z80_in(s, port)
xn_z80_in(s, port) == x4_z80_in(s, port)
xs_z80_in(s, port) ==
  IF port % 256 \in \h40..\h48 THEN Reads(s, Elsewhere) ELSE x4_z80_in(s, port)
xc_z80_in(s, port) ==
  LET p == port % 256
  IN CASE p = \h24 -> Reads(s, s.hwregs.PORT24) [] p = \h39 -> Reads(s, s.hwregs.PORT39)
       [] p = \h3A -> Reads(s, s.hwregs.PORT3A)
       [] p \notin {\h24, \h39, \h3A} -> x4_z80_in(s, port)

x4_z80_ptimer(s, id) ==
  CASE id = "INT1" -> raise_timer(s, "timer1")
    [] id \in {"INT2A", "INT2B"} -> raise_timer(s, "timer2")
    [] id = "LCD_WAIT" -> With([s EXCEPT !.lcd_wait = FALSE], "LCD_WAIT", 0)
    [] OTHER -> s
xs_z80_ptimer(s, id) == x4_z80_ptimer(s, id)
xz_z80_ptimer(s, id) == x4_z80_ptimer(s, id)
xn_z80_ptimer(s, id) == x4_z80_ptimer(s, id)
xc_z80_ptimer(s, id) ==
  IF id # "BACKLIGHT_OFF" THEN x4_z80_ptimer(s, id)
  ELSE [s EXCEPT !.hwregs.BACKLIGHT_ON = 0, !.hwregs.BACKLIGHT_LEVEL = 0,
                 !.lcd.contrast = 0, !.backlight = FALSE]

X4Registers ==
  [PORT3 |-> \h0B, PORT4 |-> \h07, PORT6 |-> \h3F, PORT7 |-> \h3F, PORT8 |-> \h80,
   PORT20 |-> 0, PORT21 |-> 0, PORT22 |-> \h08, PORT23 |-> \h29, PORT25 |-> \h10,
   PORT26 |-> \h20, PORT27 |-> 0, PORT28 |-> 0, PORT29 |-> \h14, PORT2A |-> \h27,
   PORT2B |-> \h2F, PORT2C |-> \h3B, PORT2D |-> \h01, PORT2E |-> \h44, PORT2F |-> \h4A,
   FLASH_READ_DELAY |-> 0, FLASH_WRITE_DELAY |-> 0, FLASH_EXEC_DELAY |-> 0,
   RAM_READ_DELAY |-> 0, RAM_WRITE_DELAY |-> 0, RAM_EXEC_DELAY |-> 0,
   LCD_PORT_DELAY |-> 5, NO_EXEC_RAM_MASK |-> \h7C00, NO_EXEC_RAM_LOWER |-> \h4000,
   NO_EXEC_RAM_UPPER |-> \h8000, PROTECTSTATE |-> 0]
x4_reset(s) ==
  [s EXCEPT !.hwregs = [n \in DOMAIN @ |-> IF n \in DOMAIN X4Registers THEN X4Registers[n]
                                           ELSE @[n]],
            !.map = <<0, \h3E, \h3F, \h3F>>, !.speed = 6000, !.int_period = 9277]

\* Twice the pages, and one group of Flash that may be changed after a reset
Larger(s) == [s EXCEPT !.hwregs = [@ EXCEPT !.PORT6 = \h7F, !.PORT7 = \h7F, !.PORT23 = \h69],
                       !.map = <<0, \h7E, \h7F, \h7F>>]

xs_reset(s) ==
  [Larger(x4_reset(s)) EXCEPT !.hwregs.PORT21 = 1, !.hwregs.PORT4 = \h77, !.override = 1]
xz_reset(s) == [Larger(x4_reset(s)) EXCEPT !.hwregs.PORT21 = 1, !.override = 1]

\* The Nspire has masks of its own for the RAM.
xn_reset(s) ==
  LET t == Larger(x4_reset(s))
      was == s.hwregs
  IN [t EXCEPT !.hwregs = [@ EXCEPT !.NO_EXEC_RAM = \h5555,
        !.NO_EXEC_RAM_MASK = was.NO_EXEC_RAM_MASK,
        !.NO_EXEC_RAM_LOWER = was.NO_EXEC_RAM_LOWER,
        !.NO_EXEC_RAM_UPPER = was.NO_EXEC_RAM_UPPER]]

xc_reset(s) ==
  [Larger(x4_reset(s)) EXCEPT
     !.hwregs = [@ EXCEPT !.PORT21 = 1, !.PORTE = 1, !.PORTF = 1, !.PORT39 = \hF0,
                          !.PORT3A = 0, !.BACKLIGHT_ON = 0, !.BACKLIGHT_LEVEL = 0],
     !.map = <<0, \hFE, \hFF, \hFF>>, !.override = 1]

-----------------------------------------------------------------------------
(***************************************************************************)
(* The hardware that is chosen when the calculator is made (hw)            *)
(***************************************************************************)
z80_out(s, p, v) ==
  CASE s.hw = "x1" -> x1_z80_out(s, p, v) [] s.hw = "x2" -> x2_z80_out(s, p, v)
    [] s.hw = "x3" -> x3_z80_out(s, p, v) [] s.hw = "x5" -> x5_z80_out(s, p, v)
    [] s.hw = "x6" -> x6_z80_out(s, p, v) [] s.hw = "x7" -> x7_z80_out(s, p, v)
    [] s.hw = "xp" -> xp_z80_out(s, p, v) [] s.hw = "x4" -> x4_z80_out(s, p, v)
    [] s.hw = "xs" -> xs_z80_out(s, p, v) [] s.hw = "xz" -> xz_z80_out(s, p, v)
    [] s.hw = "xn" -> xn_z80_out(s, p, v) [] s.hw = "xc" -> xc_z80_out(s, p, v)

z80_in(s, p) ==
  CASE s.hw = "x1" -> x1_z80_in(s, p) [] s.hw = "x2" -> x2_z80_in(s, p)
    [] s.hw = "x3" -> x3_z80_in(s, p) [] s.hw = "x5" -> x5_z80_in(s, p)
    [] s.hw = "x6" -> x6_z80_in(s, p) [] s.hw = "x7" -> x7_z80_in(s, p)
    [] s.hw = "xp" -> xp_z80_in(s, p) [] s.hw = "x4" -> x4_z80_in(s, p)
    [] s.hw = "xs" -> xs_z80_in(s, p) [] s.hw = "xz" -> xz_z80_in(s, p)
    [] s.hw = "xn" -> xn_z80_in(s, p) [] s.hw = "xc" -> xc_z80_in(s, p)

z80_ptimer(s, id) ==
  CASE s.hw = "x1" -> x1_z80_ptimer(s, id) [] s.hw = "x2" -> x2_z80_ptimer(s, id)
    [] s.hw = "x3" -> x3_z80_ptimer(s, id) [] s.hw = "x5" -> x5_z80_ptimer(s, id)
    [] s.hw = "x6" -> x6_z80_ptimer(s, id) [] s.hw = "x7" -> x7_z80_ptimer(s, id)
    [] s.hw = "xp" -> xp_z80_ptimer(s, id) [] s.hw = "x4" -> x4_z80_ptimer(s, id)
    [] s.hw = "xs" -> xs_z80_ptimer(s, id) [] s.hw = "xz" -> xz_z80_ptimer(s, id)
    [] s.hw = "xn" -> xn_z80_ptimer(s, id) [] s.hw = "xc" -> xc_z80_ptimer(s, id)

hw_reset(s) ==
  CASE s.hw = "x1" -> x1_reset(s) [] s.hw = "x2" -> x2_reset(s) [] s.hw = "x3" -> x3_reset(s)
    [] s.hw = "x5" -> x5_reset(s) [] s.hw = "x6" -> x6_reset(s) [] s.hw = "x7" -> x7_reset(s)
    [] s.hw = "xp" -> xp_reset(s) [] s.hw = "x4" -> x4_reset(s) [] s.hw = "xs" -> xs_reset(s)
    [] s.hw = "xz" -> xz_reset(s) [] s.hw = "xn" -> xn_reset(s) [] s.hw = "xc" -> xc_reset(s)

-----------------------------------------------------------------------------
(***************************************************************************)
(* Memory                                                                  *)
(***************************************************************************)
\* Mutant: the byte after the sequence would not be waited for.
Mut_protect(state, trusted, byte) ==
  CASE ~trusted -> 0
    [] trusted /\ state = 5 /\ byte = ProtectBytes[6] -> 7
    [] trusted /\ state < 5 /\ byte = ProtectBytes[state + 1] -> state + 1
    [] OTHER -> 0

\* readbyte: what is read of the pages which may unlock the Flash is followed.
protect(state, trusted, byte) ==
  CASE ~trusted -> 0
    [] trusted /\ state = 6 -> 7
    [] trusted /\ state < 6 /\ byte = ProtectBytes[IF state < 6 THEN state + 1 ELSE 1]
         -> state + 1
    [] OTHER -> 0

Guarded(s) == s.hw \in DOMAIN Trusted
IsTrusted(s, A) == page_of(s.hw, s.hwregs, s.map, A) \in Trusted[s.hw]
Refused(s, A) == read_protected(s.hw, s.unlock, page_of(s.hw, s.hwregs, s.map, A))

readbyte(s, A, byte) ==
  With(s, "PROTECTSTATE", protect(s.hwregs.PROTECTSTATE, IsTrusted(s, A), byte))

z80_rdmem(s, A, byte) == IF ~Guarded(s) \/ Refused(s, A) THEN s ELSE readbyte(s, A, byte)

\* Fetching an instruction: x7 raises an exception for a page that may not be
\* read, and reads it; all later models refuse first. An instruction 0xff at
\* 38 means that there is no system.
z80_rdmem_m1(s, A, byte) ==
  LET found == exceptions(s.hw, s.hwregs, A, page_of(s.hw, s.hwregs, s.map, A))
      refused == Guarded(s) /\ Refused(s, A)
      none == {x \in {"flash_exec"} : byte = \hFF /\ A = \h38}
  IN CASE ~Guarded(s) -> s
       [] Guarded(s) /\ s.hw = "x7" ->
            [readbyte(s, A, byte) EXCEPT
               !.exception = @ \cup found \cup none
                               \cup {x \in {"ram_exec"} : refused}]
       [] Guarded(s) /\ s.hw # "x7" /\ refused ->
            [s EXCEPT !.exception = @ \cup IF s.hw \in {"xp", "xn"} THEN found ELSE {}]
       [] OTHER -> [readbyte(s, A, byte) EXCEPT !.exception = @ \cup found \cup none]

Follow(m, trusted, byte) ==
  IF ~trusted THEN {0}
  ELSE {0} \cup {n \in 1..7 : n - 1 \in m /\ (n < 7 => byte = ProtectBytes[n])}

-----------------------------------------------------------------------------
(***************************************************************************)
(* Steps                                                                   *)
(***************************************************************************)
Stride == [x1 |-> 15, x2 |-> 15, x3 |-> 15, x5 |-> 16, x6 |-> 16, x7 |-> 15, xp |-> 15,
           x4 |-> 16, xs |-> 16, xz |-> 16, xn |-> 15, xc |-> 960]
Screen(hw) == [active |-> FALSE, addr |-> 0, contrast |-> 32, rowstride |-> Stride[hw]]

\* What all models share, then the model's own
tilem_calc_reset(s) ==
  hw_reset([s EXCEPT !.ints = {}, !.lcd = Screen(s.hw), !.mode = {}, !.link = {"link_idle"},
                  !.onkeydown = FALSE, !.onkeyint = FALSE, !.unlock = FALSE,
                  !.nohalt = FALSE])

\* tilem_calc_new: everything is zero, then it is reset.
NewBoard(hw) ==
  tilem_calc_reset(
    [hw |-> hw, hwregs |-> [n \in RegisterNames |-> 0], map |-> <<0, 0, 0, 0>>, ints |-> {},
     onkeydown |-> FALSE, onkeyint |-> FALSE, poweronhalt |-> TRUE, lcd |-> Screen(hw),
     mode |-> {}, link |-> {"link_idle"}, nohalt |-> FALSE, unlock |-> FALSE, override |-> 0,
     speed |-> 0, int_period |-> 0, lcd_wait |-> FALSE, backlight |-> FALSE,
     pclow |-> FALSE, exception |-> {}])

HwInit ==
  use \in Uses /\ board = NewBoard(use.hw) /\ now = 0 /\ matched = {0}

\* OUT, by an instruction in low memory or elsewhere
Out ==
  \E o \in use.out, low \in IF use.hw \in {"x1", "x2"} THEN BOOLEAN ELSE {FALSE} :
    /\ board' = [z80_out([board EXCEPT !.pclow = low], o[1], o[2]) EXCEPT !.pclow = FALSE]
    /\ UNCHANGED <<use, now, matched>>

In ==
  \E p \in use.in : board' = z80_in(board, p).board /\ UNCHANGED <<use, now, matched>>

Read ==
  \E r \in use.read :
    /\ board' = z80_rdmem(board, r[1], r[2])
    /\ matched' = IF ~Guarded(board) \/ Refused(board, r[1]) THEN matched
                  ELSE Follow(matched, IsTrusted(board, r[1]), r[2])
    /\ UNCHANGED <<use, now>>

Fetch ==
  \E r \in use.read :
    /\ board' = z80_rdmem_m1(board, r[1], r[2])
    /\ matched' = IF ~Guarded(board) \/ (Refused(board, r[1]) /\ use.hw # "x7") THEN matched
                  ELSE Follow(matched, IsTrusted(board, r[1]), r[2])
    /\ UNCHANGED <<use, now>>

\* At the end of the instruction
Exception ==
  /\ board.exception # {}
  /\ board' = tilem_calc_reset([board EXCEPT !.exception = {}])
  /\ UNCHANGED <<use, now, matched>>

\* tilem_keypad_press_key and tilem_keypad_release_key, of the ON key
OnKey ==
  /\ "on" \in use.events
  /\ board' = [board EXCEPT !.onkeydown = ~@,
                 !.ints = IF board.onkeyint THEN @ \cup {"on_key"} ELSE @]
  /\ UNCHANGED <<use, now, matched>>

\* The wires and the assist (module LinkPort): a byte has come, or the assist
\* is busy or idle, or a wire has changed, or something has gone wrong.
LinkChanges ==
  /\ "link" \in use.events
  /\ \E on \in SUBSET {"link_read", "link_idle"}, i \in {"none", "link_active", "link_error"} :
       board' = link_levels([board EXCEPT !.link = on,
                  !.ints = IF i # "none" /\ FlagOf[i] \in board.mode THEN @ \cup {i} ELSE @])
  /\ UNCHANGED <<use, now, matched>>

TimerRings ==
  /\ \E id \in {"INT", "INT1", "INT2A", "INT2B", "LCD_WAIT", "BACKLIGHT_OFF"} :
       /\ id = "LCD_WAIT" => board.lcd_wait
       /\ id = "BACKLIGHT_OFF" => board.backlight
       /\ (id = "INT") = (use.hw \in {"x1", "x2", "x5", "x6"})
            \/ id \in {"LCD_WAIT", "BACKLIGHT_OFF"}
       /\ "int" \in use.events \/ id \in {"LCD_WAIT", "BACKLIGHT_OFF"}
       /\ board' = z80_ptimer(board, id)
  /\ UNCHANGED <<use, now, matched>>

SecondPasses ==
  "second" \in use.events /\ now < MaxTime /\ now' = now + 1
    /\ UNCHANGED <<use, board, matched>>

HwReset ==
  "reset" \in use.events /\ board' = tilem_calc_reset(board) /\ UNCHANGED <<use, now, matched>>

HwNext ==
  \/ Out \/ In \/ Read \/ Fetch \/ Exception \/ OnKey \/ LinkChanges \/ TimerRings
  \/ SecondPasses \/ HwReset

HwSpec == HwInit /\ [][HwNext]_hwVars

-----------------------------------------------------------------------------
HwTypeOK ==
  /\ use \in Uses /\ board.hw = use.hw /\ now \in 0 .. MaxTime /\ matched \subseteq 0..7
  /\ DOMAIN board.hwregs = RegisterNames /\ \A n \in RegisterNames : board.hwregs[n] \in Nat
  /\ board.map \in [1..4 -> Nat] /\ board.ints \subseteq Interrupts
  /\ board.override \in 0..3 /\ board.exception \subseteq {"flash_exec", "ram_exec"}
  /\ {board.unlock, board.nohalt, board.onkeyint, board.onkeydown, board.poweronhalt,
      board.lcd_wait, board.backlight} \subseteq BOOLEAN

\* Every page that the program can see is one of the chips, so that no access
\* is outside the memory that tilem_calc_new allocates.
PagesInMemory ==
  \A i \in 1..4 : board.map[i] < RomPages[board.hw] + RamPages[board.hw]

\* The map is that of the ports which a program has written; but three models
\* show other pages after a reset, until a port of the map is written.
MapFollowsPorts ==
  \/ board.map = setup_mapping(board.hw, board.hwregs)
  \/ board.hw \in {"x1", "x2", "x3"} /\ board.map = tilem_calc_reset(board).map

\* What the debugger shows at an address is what the program reads there, and
\* its way back leads to the same memory; the TI-81's way back knows only one map.
TranslationRight ==
  \A A \in Addresses :
    LET pa == address(board.hw, board.hwregs, board.map, A)
        back == mem_ptol(board.hw, board.hwregs, board.map, pa)
    IN /\ mem_ltop(board.hw, board.hwregs, board.map, A) = pa
       /\ board.hw # "x1" =>
            /\ back # NoAddress
            /\ address(board.hw, board.hwregs, board.map, back) = pa

\* An interrupt is pending only while the program has it enabled, and the
\* levels of the link assist are those of its state.
EnabledOnly ==
  LET enabled == [on_key |-> board.onkeyint, timer1 |-> BitOf(board.hwregs.PORT3, 1),
                  timer2 |-> BitOf(board.hwregs.PORT3, 2)]
  IN /\ \A i \in board.ints \cap DOMAIN enabled : enabled[i]
     /\ \A i \in board.ints \cap DOMAIN FlagOf : FlagOf[i] \in board.mode
     /\ \A i \in {"link_read", "link_idle"} :
          i \in board.ints <=> FlagOf[i] \in board.mode /\ i \in board.link

\* What is kept of a port is what its value says: the delays, the groups of
\* Flash that may be changed (which a TI-84 Plus keeps over a reset) and the
\* limits of RAM.
DerivedFromPorts ==
  board.hw \in SilverModels =>
    /\ \A n \in DOMAIN DelaysOf(board.hwregs) : board.hwregs[n] = DelaysOf(board.hwregs)[n]
    /\ board.hw \notin {"x4", "xn"} => board.override = board.hwregs.PORT21 % 4
    /\ board.hw # "xn" => /\ board.hwregs.NO_EXEC_RAM_LOWER = board.hwregs.PORT25 * \h400
                          /\ board.hwregs.NO_EXEC_RAM_UPPER = board.hwregs.PORT26 * \h400

\* Nothing that waits for a timer waits in vain: the screen that is busy is
\* free again, and the light that was left on goes out.
TimersSet ==
  /\ board.hwregs.LCD_WAIT = 1 => board.lcd_wait
  /\ board.hwregs.BACKLIGHT_ON = 1 /\ ~BitOf(board.hwregs.PORT3A, 5) => board.backlight

\* After every sequence of accesses and resets the program sees pages of the
\* chips, those it has chosen, and the debugger sees the same.
PagingSound == PagesInMemory /\ MapFollowsPorts /\ TranslationRight

\* The interrupts, the delays and the timers agree with the ports, after every
\* sequence of accesses, interrupts and resets.
HardwareSound == EnabledOnly /\ DerivedFromPorts /\ TimersSet

\* In each model, memory, interrupts and timers are what the program has asked
\* for through its ports.
ModelsSound == PagingSound /\ HardwareSound

\* The Flash is unlocked only by the sequence of instructions that the pages
\* of the system hold, read without anything else in between.
UnlockEarned == [][~board.unlock /\ board'.unlock => 7 \in matched]_hwVars

\* The bytes that a program reads from the ports of the clock, one after the
\* other at one time, are those of a clock that keeps the promises of RtClock.
Shown(first) ==
  LET at(i) == z80_in(board, first + i).value
  IN IF board.hw \in HasClock
     THEN at(0) + Scale[2] * at(1) + Scale[3] * at(2) + Scale[4] * at(3) ELSE 0
Mode == IF board.hw \in HasClock THEN z80_in(board, \h40).value ELSE 0

Clock == INSTANCE RtClock WITH
  Period <- ClockPeriod, time <- Shown(\h45), written <- Shown(\h41),
  running <- BitOf(Mode, 0), loading <- BitOf(Mode, 1)

ImplementsClock == Clock!ClockSpec
=============================================================================
