---------------------------- MODULE HardwareProofs ----------------------------
(***************************************************************************)
(* Theorems about the hardware of the twelve models (Hardware): their      *)
(* ports, the pages that the program sees, what is kept of ports, the lock *)
(* of the Flash and the clock.                                             *)
(***************************************************************************)
EXTENDS Hardware, TLAPS

-----------------------------------------------------------------------------
(***************************************************************************)
(* The models, all twelve, whatever a program writes to whatever ports, in *)
(* whatever order with the interrupts, the reads of memory and the resets. *)
(*                                                                         *)
(* A board is Sound when the registers that choose pages are numbers, the  *)
(* pages it shows are in the chips, only what is enabled is pending, the   *)
(* interrupts of the link agree with its state, and who waits for a timer  *)
(* has one.  One lemma for each part of a model's ports, reads, timers and *)
(* reset says that it leaves a sound board sound, and what it does to the  *)
(* lock of the Flash; the models' handlers are put together from them, and *)
(* a step from the handlers.                                               *)
(***************************************************************************)

-----------------------------------------------------------------------------
(* Sound boards *)

Fields == {"hw", "hwregs", "map", "ints", "onkeydown", "onkeyint", "poweronhalt", "lcd",
           "mode", "link", "nohalt", "unlock", "override", "speed", "int_period",
           "lcd_wait", "backlight", "pclow", "exception"}

\* The registers that choose pages
BankRegisters ==
  {"HW_VERSION", "ROM_BANK", "PORT2", "PORT4", "PORT5", "PORT6", "PORT7", "PORTE", "PORTF"}

\* Those that the facts below say something of
ClockRegisters == {"CLOCK_MODE", "CLOCK_INPUT", "CLOCK_DIFF"}
Held == {"PORT3", "PROTECTSTATE", "LCD_WAIT", "BACKLIGHT_ON", "PORT3A"} \cup ClockRegisters

IsBoard(s) == DOMAIN s = Fields /\ DOMAIN s.hwregs = RegisterNames /\ s.hw \in Models

Numbers(s) ==
  /\ \A n \in BankRegisters : s.hwregs[n] \in Nat
  /\ s.hwregs.ROM_BANK \in {0, 8}

Pages(hw) == 0 .. (RomPages[hw] + RamPages[hw] - 1)

InChips(s) == \A i \in 1..4 : s.map[i] \in Pages(s.hw)

OneTimer == {"x1", "x2", "x5", "x6"}

Pending(s) ==
  /\ "on_key" \in s.ints => s.onkeyint
  /\ "timer1" \in s.ints => BitOf(s.hwregs.PORT3, 1)
  /\ "timer2" \in s.ints => BitOf(s.hwregs.PORT3, 2) /\ s.hw \notin OneTimer

Linked(s) ==
  /\ \A i \in s.ints \cap DOMAIN FlagOf : FlagOf[i] \in s.mode
  /\ \A i \in {"link_read", "link_idle"} :
       i \in s.ints <=> FlagOf[i] \in s.mode /\ i \in s.link

Awaited(s) ==
  /\ s.hwregs.LCD_WAIT = 1 => s.lcd_wait
  /\ s.hwregs.BACKLIGHT_ON = 1 /\ ~BitOf(s.hwregs.PORT3A, 5) => s.backlight

\* What every step keeps
Sound(s) == IsBoard(s) /\ Numbers(s) /\ InChips(s) /\ Pending(s) /\ Linked(s) /\ Awaited(s)

Clocks(s) == <<s.hwregs.CLOCK_MODE, s.hwregs.CLOCK_INPUT, s.hwregs.CLOCK_DIFF>>

\* A board after a handler that touches neither the lock nor what opens it, nor the
\* clock
Keeps(s, t) ==
  /\ Sound(t) /\ t.hw = s.hw /\ t.unlock = s.unlock
  /\ t.hwregs.PROTECTSTATE = s.hwregs.PROTECTSTATE /\ Clocks(t) = Clocks(s)

LEMMA KeepsSelf == \A s : Sound(s) => Keeps(s, s)
BY DEF Keeps

LEMMA KeepsTwice == \A s, t, u : Keeps(s, t) /\ Keeps(t, u) => Keeps(s, u)
BY DEF Keeps

\* Boards that the facts above cannot tell apart
Alike(s, t) ==
  /\ IsBoard(t) /\ t.hw = s.hw /\ t.unlock = s.unlock /\ t.hwregs = s.hwregs /\ t.map = s.map
  /\ t.ints = s.ints /\ t.onkeyint = s.onkeyint /\ t.mode = s.mode /\ t.link = s.link
  /\ t.lcd_wait = s.lcd_wait /\ t.backlight = s.backlight

LEMMA AlikeKeeps == \A s, t : Sound(s) /\ Alike(s, t) => Keeps(s, t)
<1> SUFFICES ASSUME NEW s, NEW t, Sound(s), Alike(s, t) PROVE Keeps(s, t)
    OBVIOUS
<1>1. IsBoard(t) /\ Numbers(t) BY DEF Sound, Alike, Numbers
<1>2. InChips(t) BY DEF Sound, Alike, InChips
<1>3. Pending(t) BY DEF Sound, Alike, Pending
<1>4. Linked(t) BY DEF Sound, Alike, Linked
<1>5. Awaited(t) BY DEF Sound, Alike, Awaited
<1> QED BY <1>1, <1>2, <1>3, <1>4, <1>5 DEF Sound, Alike, Keeps, Clocks

LEMMA WithBoard ==
  ASSUME NEW s, NEW name \in RegisterNames, NEW v, IsBoard(s)
  PROVE  LET t == With(s, name, v)
         IN /\ IsBoard(t) /\ t.hw = s.hw /\ t.map = s.map /\ t.unlock = s.unlock
            /\ t.ints = s.ints /\ t.onkeyint = s.onkeyint /\ t.mode = s.mode
            /\ t.link = s.link /\ t.lcd_wait = s.lcd_wait /\ t.backlight = s.backlight
            /\ t.hwregs[name] = v
            /\ \A n \in RegisterNames : n # name => t.hwregs[n] = s.hwregs[n]
BY DEF With, IsBoard, Fields

LEMMA WithKeeps ==
  \A s, name, v :
    /\ Sound(s) /\ name \in RegisterNames \ Held
    /\ name \in BankRegisters => v \in Nat
    /\ name = "ROM_BANK" => v \in {0, 8}
    => Keeps(s, With(s, name, v))
<1> SUFFICES ASSUME NEW s, NEW name, NEW v, Sound(s), name \in RegisterNames \ Held,
                    name \in BankRegisters => v \in Nat,
                    name = "ROM_BANK" => v \in {0, 8}
             PROVE Keeps(s, With(s, name, v))
    OBVIOUS
<1> DEFINE t == With(s, name, v)
<1>1. /\ IsBoard(t) /\ t.hw = s.hw /\ t.map = s.map /\ t.unlock = s.unlock
      /\ t.ints = s.ints /\ t.onkeyint = s.onkeyint /\ t.mode = s.mode /\ t.link = s.link
      /\ t.lcd_wait = s.lcd_wait /\ t.backlight = s.backlight
      /\ \A n \in RegisterNames : t.hwregs[n] = IF n = name THEN v ELSE s.hwregs[n]
    BY WithBoard DEF Sound
<1> HIDE DEF t
<1>2. BankRegisters \subseteq RegisterNames /\ Held \subseteq RegisterNames
    BY DEF BankRegisters, RegisterNames, Held, ClockRegisters
<1>3. \A n \in Held : t.hwregs[n] = s.hwregs[n] BY <1>1, <1>2
<1>4. Numbers(t) BY <1>1, <1>2 DEF Sound, Numbers, BankRegisters
<1>5. InChips(t) BY <1>1 DEF Sound, InChips
<1>6. Pending(t) BY <1>1, <1>3 DEF Sound, Pending, Held
<1>7. Linked(t) BY <1>1 DEF Sound, Linked
<1>8. Awaited(t) BY <1>1, <1>3 DEF Sound, Awaited, Held, ClockRegisters
<1>9. t.hwregs.PROTECTSTATE = s.hwregs.PROTECTSTATE /\ Clocks(t) = Clocks(s)
    BY <1>3 DEF Held, Clocks, ClockRegisters
<1> QED BY <1>1, <1>4, <1>5, <1>6, <1>7, <1>8, <1>9 DEF Keeps, t, Sound

LEMMA EvenInPages ==
  \A n \in {9, 17, 33, 71, 135, 263}, a \in Nat :
    a <= n => Even(a) \in 0..n /\ Even(a) + 1 \in 0..n
BY DEF Even

LEMMA SetupInPages ==
  ASSUME NEW s, IsBoard(s), Numbers(s)
  PROVE  \A i \in 1..4 : setup_mapping(s.hw, s.hwregs)[i] \in Pages(s.hw)
<1> DEFINE r == s.hwregs
           Inside(map, hw) == \A i \in 1..4 : map[i] \in Pages(hw)
<1>0. /\ r.HW_VERSION \in Nat /\ r.ROM_BANK \in {0, 8} /\ r.PORT2 \in Nat /\ r.PORT4 \in Nat
      /\ r.PORT5 \in Nat /\ r.PORT6 \in Nat /\ r.PORT7 \in Nat
      /\ r.PORTE \in Nat /\ r.PORTF \in Nat
    BY DEF Numbers, BankRegisters
<1> HIDE DEF r
<1>1. Inside(x1_setup_mapping(r), "x1")
  <2>1. \A ram, low : x1_page(ram, low) \in 0..2 BY DEF x1_page
  <2>2. Inside(<<0, x1_page(BitOf(r.PORT5, 6), BitOf(r.PORT5, 0)),
             x1_page(BitOf(r.PORT6, 6), BitOf(r.PORT6, 0)), 2>>, "x1")
      BY <2>1 DEF Pages, RomPages, RamPages
  <2>3. Inside(<<0, x1_page(BitOf(r.PORT2, 6), BitOf(r.PORT2, 0)),
             x1_page(BitOf(r.PORT2, 7), BitOf(r.PORT2, 3)), 2>>, "x1")
      BY <2>1 DEF Pages, RomPages, RamPages
  <2>4. Inside(<<0, 1, 0, 2>>, "x1") BY DEF Pages, RomPages, RamPages
  <2> HIDE DEF Inside
  <2> QED BY <2>2, <2>3, <2>4, Zenon DEF x1_setup_mapping
<1>2. Inside(x2_setup_mapping(r), "x2")
  <2> DEFINE a == Bank(BitOf(r.PORT2, 6), r.PORT2, 8, 2)
             b == Bank(BitOf(r.PORT2, 7), r.PORT2 \div 8, 8, 2)
  <2>1. a \in 0..9 /\ b \in 0..9 /\ 8 \in 0..9 BY <1>0 DEF Bank
  <2>2. x2_setup_mapping(r) = Paired(BitOf(r.PORT4, 0), a, Even(a) + 1, b, 8)
      BY DEF x2_setup_mapping
  <2> HIDE DEF a, b
  <2>3. Pages("x2") = 0..9 BY DEF Pages, RomPages, RamPages
  <2> QED BY <2>1, <2>2, <2>3, EvenInPages DEF Paired
<1>3. Inside(x3_setup_mapping(r), "x3")
  <2> DEFINE a == IF BitOf(r.PORT2, 6) THEN 16 + (r.PORT2 % 2) ELSE r.ROM_BANK + (r.PORT2 % 8)
             b == IF BitOf(r.PORT2, 7) THEN 16 + ((r.PORT2 \div 8) % 2)
                  ELSE r.ROM_BANK + ((r.PORT2 \div 8) % 8)
  <2>1. a \in 0..17 /\ b \in 0..17 /\ 16 \in 0..17 BY <1>0
  <2>2. x3_setup_mapping(r) = Paired(BitOf(r.PORT4, 0), a, Even(a) + 1, b, 16)
      BY DEF x3_setup_mapping
  <2> HIDE DEF a, b
  <2>3. Pages("x3") = 0..17 BY DEF Pages, RomPages, RamPages
  <2> QED BY <2>1, <2>2, <2>3, EvenInPages DEF Paired
<1>5. Inside(x5_setup_mapping(r), "x5")
  <2>1. Bank(BitOf(r.PORT5, 6), r.PORT5, 8, 2) \in 0..9
        /\ Bank(BitOf(r.PORT6, 6), r.PORT6, 8, 2) \in 0..9
      BY <1>0 DEF Bank
  <2> QED BY <2>1 DEF x5_setup_mapping, Pages, RomPages, RamPages
<1>6. Inside(x6_setup_mapping(r), "x6")
  <2>1. Bank(BitOf(r.PORT5, 6), r.PORT5, 16, 8) \in 0..23
        /\ Bank(BitOf(r.PORT6, 6), r.PORT6, 16, 8) \in 0..23
      BY <1>0 DEF Bank
  <2> QED BY <2>1 DEF x6_setup_mapping, Pages, RomPages, RamPages
<1>7. Inside(x7_setup_mapping(r), "x7") /\ Inside(xp_setup_mapping(r), "xp")
  <2> DEFINE a == Bank(BitOf(r.PORT6, 6), r.PORT6, 32, 2)
             b == Bank(BitOf(r.PORT7, 6), r.PORT7, 32, 2)
  <2>1. a \in 0..33 /\ b \in 0..33 /\ 32 \in 0..33 BY <1>0 DEF Bank
  <2>2. x7_setup_mapping(r) = Paired(BitOf(r.PORT4, 0), a, a, b, 32)
        /\ xp_setup_mapping(r) = Paired(BitOf(r.PORT4, 0), a, a, b, 32)
      BY DEF x7_setup_mapping, xp_setup_mapping
  <2> HIDE DEF a, b
  <2>3. Pages("x7") = 0..33 /\ Pages("xp") = 0..33 BY DEF Pages, RomPages, RamPages
  <2> QED BY <2>1, <2>2, <2>3, EvenInPages DEF Paired
<1>8. ASSUME NEW rom \in {64, 128}, NEW hw, Pages(hw) = 0..(rom + 7)
      PROVE  Inside(ThreeBanks(r, rom), hw)
  <2> DEFINE a == Bank(BitOf(r.PORT6, 7), r.PORT6, rom, 8)
             b == Bank(BitOf(r.PORT7, 7), r.PORT7, rom, 8)
             c == rom + (r.PORT5 % 8)
             n == rom + 7
  <2>1. a \in 0..n /\ b \in 0..n /\ c \in 0..n BY <1>0 DEF Bank
  <2>2. ThreeBanks(r, rom) = Paired(BitOf(r.PORT4, 0), a, Even(a) + 1, b, c)
      BY DEF ThreeBanks
  <2>3. n \in {71, 135} /\ Pages(hw) = 0..n BY <1>8
  <2> HIDE DEF a, b, c, n
  <2>4. /\ \A i \in 1..4 : <<0, Even(a), Even(a) + 1, b>>[i] \in 0..n
        /\ \A i \in 1..4 : <<0, a, b, c>>[i] \in 0..n
    <3>1. a \in Nat /\ a <= n /\ 0 \in 0..n BY <2>1, <2>3
    <3>2. CASE n = 71 BY <2>1, <3>1, <3>2, EvenInPages
    <3>3. CASE n = 135 BY <2>1, <3>1, <3>3, EvenInPages
    <3> QED BY <2>3, <3>2, <3>3
  <2>5. ThreeBanks(r, rom) \in {<<0, Even(a), Even(a) + 1, b>>, <<0, a, b, c>>}
      BY <2>2 DEF Paired
  <2>6. \A i \in 1..4 : ThreeBanks(r, rom)[i] \in 0..n BY <2>4, <2>5
  <2> QED BY <2>3, <2>6
<1>10. Inside(xc_setup_mapping(r), "xc")
  <2> DEFINE flash(v, high) == (v % 128) + 128 * (high % 2)
             a == IF BitOf(r.PORT6, 7) THEN 256 + (r.PORT6 % 8) ELSE flash(r.PORT6, r.PORTE)
             b == IF BitOf(r.PORT7, 7) THEN 256 + (r.PORT7 % 8) ELSE flash(r.PORT7, r.PORTF)
             c == 256 + (r.PORT5 % 8)
  <2>0. \A v, high \in Nat : flash(v, high) \in 0..263 OBVIOUS
  <2>1. a \in 0..263 /\ b \in 0..263 /\ c \in 0..263
    <3>1. flash(r.PORT6, r.PORTE) \in 0..263 /\ flash(r.PORT7, r.PORTF) \in 0..263
        BY <1>0, <2>0
    <3>2. \A v \in Nat : 256 + (v % 8) \in 0..263 OBVIOUS
    <3> HIDE DEF flash
    <3> QED BY <1>0, <3>1, <3>2
  <2>2. xc_setup_mapping(r) = Paired(BitOf(r.PORT4, 0), a, Even(a) + 1, b, c)
      BY DEF xc_setup_mapping
  <2> HIDE DEF a, b, c
  <2>3. Pages("xc") = 0..263 BY DEF Pages, RomPages, RamPages
  <2>4. /\ \A i \in 1..4 : <<0, Even(a), Even(a) + 1, b>>[i] \in 0..263
        /\ \A i \in 1..4 : <<0, a, b, c>>[i] \in 0..263
    <3>1. a \in Nat /\ a <= 263 BY <2>1
    <3>2. Even(a) \in 0..263 /\ Even(a) + 1 \in 0..263 BY <3>1, EvenInPages
    <3> QED BY <2>1, <3>2
  <2> QED BY <2>2, <2>3, <2>4 DEF Paired
<1>11. Inside(x4_setup_mapping(r), "x4") /\ Inside(xs_setup_mapping(r), "xs")
       /\ Inside(xz_setup_mapping(r), "xz") /\ Inside(xn_setup_mapping(r), "xn")
  <2>1. /\ Pages("x4") = 0..(64 + 7) /\ Pages("xs") = 0..(128 + 7)
        /\ Pages("xz") = 0..(128 + 7) /\ Pages("xn") = 0..(128 + 7)
      BY DEF Pages, RomPages, RamPages
  <2> HIDE DEF Inside
  <2> QED
      BY <1>8, <2>1 DEF x4_setup_mapping, xs_setup_mapping, xz_setup_mapping, xn_setup_mapping
<1>12. \A hw \in Models : Inside(setup_mapping(hw, r), hw)
  <2> HIDE DEF Inside
  <2> QED
      BY <1>1, <1>2, <1>3, <1>5, <1>6, <1>7, <1>10, <1>11, ZenonT(90) DEF setup_mapping, Models
<1> QED BY <1>12 DEF IsBoard, r

LEMMA RemapKeeps == \A s : Sound(s) => Keeps(s, Remap(s))
<1> SUFFICES ASSUME NEW s, Sound(s) PROVE Keeps(s, Remap(s))
    OBVIOUS
<1> DEFINE t == Remap(s)
<1>1. /\ IsBoard(t) /\ t.hw = s.hw /\ t.map = setup_mapping(s.hw, s.hwregs)
      /\ t.unlock = s.unlock /\ t.hwregs = s.hwregs
      /\ t.ints = s.ints /\ t.onkeyint = s.onkeyint /\ t.mode = s.mode /\ t.link = s.link
      /\ t.lcd_wait = s.lcd_wait /\ t.backlight = s.backlight
    BY DEF Sound, Remap, IsBoard, Fields
<1> HIDE DEF t
<1>2. Numbers(t) BY <1>1 DEF Sound, Numbers
<1>3. InChips(t) BY <1>1, SetupInPages DEF Sound, InChips
<1>4. Pending(t) BY <1>1 DEF Sound, Pending
<1>5. Linked(t) BY <1>1 DEF Sound, Linked
<1>6. Awaited(t) BY <1>1 DEF Sound, Awaited
<1> QED BY <1>1, <1>2, <1>3, <1>4, <1>5, <1>6 DEF Keeps, t, Sound, Clocks

\* A board on which only interrupts and the mode and state of the link differ
Signals(s, t) ==
  /\ IsBoard(t) /\ t.hw = s.hw /\ t.unlock = s.unlock /\ t.hwregs = s.hwregs /\ t.map = s.map
  /\ t.lcd_wait = s.lcd_wait /\ t.backlight = s.backlight

LEMMA SignalsKeep ==
  \A s, t : Sound(s) /\ Signals(s, t) /\ Pending(t) /\ Linked(t) => Keeps(s, t)
<1> SUFFICES ASSUME NEW s, NEW t, Sound(s), Signals(s, t), Pending(t), Linked(t)
             PROVE Keeps(s, t)
    OBVIOUS
<1>1. Numbers(t) BY DEF Sound, Signals, Numbers
<1>2. InChips(t) BY DEF Sound, Signals, InChips
<1>3. Awaited(t) BY DEF Sound, Signals, Awaited
<1> QED BY <1>1, <1>2, <1>3 DEF Sound, Signals, Keeps, Clocks

LEMMA WithdrawKeeps ==
  \A s, v, which : Sound(s) /\ which \subseteq DOMAIN MaskBit => Keeps(s, Withdraw(s, v, which))
<1> SUFFICES ASSUME NEW s, NEW v, NEW which, Sound(s), which \subseteq DOMAIN MaskBit
             PROVE Keeps(s, Withdraw(s, v, which))
    OBVIOUS
<1> DEFINE t == Withdraw(s, v, which)
<1>1. /\ Signals(s, t) /\ t.onkeyint = s.onkeyint /\ t.mode = s.mode /\ t.link = s.link
      /\ t.ints = {i \in s.ints : i \in which => BitOf(v, MaskBit[i])}
    BY DEF Sound, Withdraw, IsBoard, Fields, Signals
<1> HIDE DEF t
<1>2. Pending(t) BY <1>1 DEF Sound, Pending, Signals
<1>3. Linked(t) BY <1>1 DEF Sound, Linked, MaskBit
<1> QED BY <1>1, <1>2, <1>3, SignalsKeep DEF t

LEMMA LevelsKeep ==
  ASSUME NEW s, NEW t, Sound(s), Signals(s, t), Pending(t),
         \A i \in t.ints \cap {"link_active", "link_error"} : FlagOf[i] \in t.mode
  PROVE  Keeps(s, link_levels(t))
<1> DEFINE u == link_levels(t)
<1>1. /\ Signals(s, u) /\ u.onkeyint = t.onkeyint /\ u.mode = t.mode /\ u.link = t.link
      /\ u.ints = (t.ints \ {"link_read", "link_idle"})
           \cup {i \in {"link_read", "link_idle"} : FlagOf[i] \in t.mode /\ i \in t.link}
    BY DEF link_levels, IsBoard, Fields, Signals
<1> HIDE DEF u
<1>2. Pending(u) BY <1>1 DEF Pending, Signals
<1>3. Linked(u) BY <1>1 DEF Linked, FlagOf
<1> QED BY <1>1, <1>2, <1>3, SignalsKeep DEF u

LEMMA SetModeKeeps == \A s, mode : Sound(s) => Keeps(s, linkport_set_mode(s, mode))
<1> SUFFICES ASSUME NEW s, NEW mode, Sound(s) PROVE Keeps(s, linkport_set_mode(s, mode))
    OBVIOUS
<1> DEFINE turned == ("assist" \in mode) # ("assist" \in s.mode)
           t == [s EXCEPT !.mode = mode,
                    !.link = IF turned THEN @ \cup {"link_idle"} ELSE @,
                    !.ints = {i \in @ : i \in {"link_active", "link_error"}
                                          => FlagOf[i] \in mode}]
<1>1. /\ Signals(s, t) /\ t.onkeyint = s.onkeyint /\ t.mode = mode
      /\ t.ints = {i \in s.ints : i \in {"link_active", "link_error"} => FlagOf[i] \in mode}
    BY DEF Sound, IsBoard, Fields, Signals
<1>2. linkport_set_mode(s, mode) = link_levels(t) BY DEF linkport_set_mode
<1> HIDE DEF t
<1>3. Pending(t) BY <1>1 DEF Sound, Pending, Signals
<1> QED BY <1>1, <1>2, <1>3, LevelsKeep

LEMMA LinkKeeps ==
  \A s, on : Sound(s) => Keeps(s, link_levels([s EXCEPT !.link = on]))
<1> SUFFICES ASSUME NEW s, NEW on, Sound(s) PROVE Keeps(s, link_levels([s EXCEPT !.link = on]))
    OBVIOUS
<1> DEFINE t == [s EXCEPT !.link = on]
<1>1. /\ Signals(s, t) /\ t.onkeyint = s.onkeyint /\ t.mode = s.mode /\ t.ints = s.ints
    BY DEF Sound, IsBoard, Fields, Signals
<1> HIDE DEF t
<1>3. Pending(t) BY <1>1 DEF Sound, Pending, Signals
<1>4. \A i \in t.ints \cap {"link_active", "link_error"} : FlagOf[i] \in t.mode
    BY <1>1 DEF Sound, Linked, FlagOf
<1> QED BY <1>1, <1>3, <1>4, LevelsKeep DEF t

\* Port 3 takes back what its new value masks
LEMMA MaskKeeps ==
  \A s, v, which :
    /\ Sound(s) /\ which \subseteq DOMAIN MaskBit /\ "timer1" \in which
    /\ s.hw \in OneTimer \/ "timer2" \in which
    => Keeps(s, out_mask(s, v, which))
<1> SUFFICES ASSUME NEW s, NEW v, NEW which, Sound(s), which \subseteq DOMAIN MaskBit,
                    "timer1" \in which, s.hw \in OneTimer \/ "timer2" \in which
             PROVE Keeps(s, out_mask(s, v, which))
    OBVIOUS
<1> DEFINE t == Withdraw(s, v, which \cup {"on_key"})
           u == [t EXCEPT !.onkeyint = BitOf(v, 0), !.poweronhalt = BitOf(v, 3)]
           w == out_mask(s, v, which)
<1>1. /\ Signals(s, t) /\ t.onkeyint = s.onkeyint /\ t.mode = s.mode /\ t.link = s.link
      /\ t.ints = {i \in s.ints : i \in which \cup {"on_key"} => BitOf(v, MaskBit[i])}
    BY DEF Sound, Withdraw, IsBoard, Fields, Signals
<1>2. w = With(u, "PORT3", v) BY DEF out_mask
<1> HIDE DEF t, w
<1>3. /\ Signals(s, u) /\ u.onkeyint = BitOf(v, 0) /\ u.mode = s.mode /\ u.link = s.link
      /\ u.ints = t.ints
    BY <1>1 DEF Sound, IsBoard, Fields, Signals
<1> HIDE DEF u
<1>4. /\ IsBoard(w) /\ w.hw = s.hw /\ w.map = s.map /\ w.unlock = s.unlock
      /\ w.ints = t.ints /\ w.onkeyint = BitOf(v, 0) /\ w.mode = s.mode /\ w.link = s.link
      /\ w.lcd_wait = s.lcd_wait /\ w.backlight = s.backlight
      /\ \A n \in RegisterNames : w.hwregs[n] = IF n = "PORT3" THEN v ELSE s.hwregs[n]
  <2>1. "PORT3" \in RegisterNames BY DEF RegisterNames
  <2> QED BY <1>2, <1>3, <2>1, WithBoard DEF Signals
<1>5. BankRegisters \cup Held \subseteq RegisterNames /\ "PORT3" \notin BankRegisters
    BY DEF BankRegisters, RegisterNames, Held, ClockRegisters
<1>6. Numbers(w) BY <1>4, <1>5 DEF Sound, Numbers, BankRegisters
<1>7. InChips(w) BY <1>4 DEF Sound, InChips
<1>8. Pending(w) BY <1>1, <1>4, <1>5 DEF Sound, Pending, MaskBit, Held
<1>9. Linked(w)
  <2>1. \A i \in DOMAIN FlagOf : i \in w.ints => i \in s.ints BY <1>1, <1>4
  <2>2. \A i \in {"link_read", "link_idle"} : i \in s.ints => i \in w.ints
      BY <1>1, <1>4 DEF MaskBit
  <2> QED BY <1>4, <2>1, <2>2 DEF Sound, Linked, FlagOf
<1>10. Awaited(w) BY <1>4, <1>5 DEF Sound, Awaited, Held, ClockRegisters
<1>11. w.hwregs.PROTECTSTATE = s.hwregs.PROTECTSTATE /\ Clocks(w) = Clocks(s)
    BY <1>4, <1>5 DEF Held, Clocks, ClockRegisters
<1> QED BY <1>4, <1>6, <1>7, <1>8, <1>9, <1>10, <1>11 DEF Keeps, Sound, w
LEMMA RaiseKeeps ==
  \A s : Sound(s) =>
    /\ Keeps(s, raise_timer(s, "timer1"))
    /\ s.hw \notin OneTimer => Keeps(s, raise_timer(s, "timer2"))
<1> SUFFICES ASSUME NEW s, Sound(s), NEW i \in {"timer1", "timer2"},
                    i = "timer2" => s.hw \notin OneTimer
             PROVE Keeps(s, raise_timer(s, i))
    OBVIOUS
<1>1. CASE ~BitOf(s.hwregs.PORT3, MaskBit[i]) BY <1>1, KeepsSelf DEF raise_timer
<1>2. CASE BitOf(s.hwregs.PORT3, MaskBit[i])
  <2> DEFINE t == raise_timer(s, i)
  <2>1. /\ Signals(s, t) /\ t.onkeyint = s.onkeyint /\ t.mode = s.mode /\ t.link = s.link
        /\ t.ints = s.ints \cup {i}
      BY <1>2 DEF Sound, raise_timer, IsBoard, Fields, Signals
  <2> HIDE DEF t
  <2>2. Pending(t) BY <1>2, <2>1 DEF Sound, Pending, Signals, MaskBit
  <2>3. Linked(t) BY <2>1 DEF Sound, Linked, FlagOf
  <2> QED BY <2>1, <2>2, <2>3, SignalsKeep DEF t
<1> QED BY <1>1, <1>2

\* A board on which the registers that nothing is said of may differ
LEMMA RegistersKeep ==
  ASSUME NEW s, NEW t, Sound(s), IsBoard(t), t.hw = s.hw, t.unlock = s.unlock, t.map = s.map,
         t.ints = s.ints, t.onkeyint = s.onkeyint, t.mode = s.mode, t.link = s.link,
         \A n \in BankRegisters \cup {"PORT3", "PROTECTSTATE"} \cup ClockRegisters :
           t.hwregs[n] = s.hwregs[n],
         Awaited(t)
  PROVE  Keeps(s, t)
<1>1. Numbers(t) BY DEF Sound, Numbers, BankRegisters
<1>2. InChips(t) BY DEF Sound, InChips
<1>3. Pending(t) BY DEF Sound, Pending
<1>4. Linked(t) BY DEF Sound, Linked
<1> QED BY <1>1, <1>2, <1>3, <1>4 DEF Sound, Keeps, Clocks, ClockRegisters

LEMMA DelaysKeep == \A s : Sound(s) => Keeps(s, setup_clockdelays(s))
<1> SUFFICES ASSUME NEW s, Sound(s) PROVE Keeps(s, setup_clockdelays(s))
    OBVIOUS
<1> DEFINE t == setup_clockdelays(s)
           kept == BankRegisters \cup Held
<1>1. /\ IsBoard(t) /\ t.hw = s.hw /\ t.map = s.map /\ t.unlock = s.unlock
      /\ t.ints = s.ints /\ t.onkeyint = s.onkeyint /\ t.mode = s.mode /\ t.link = s.link
      /\ t.lcd_wait = s.lcd_wait /\ t.backlight = s.backlight
      /\ \A n \in RegisterNames \ DOMAIN DelaysOf(s.hwregs) : t.hwregs[n] = s.hwregs[n]
    BY DEF Sound, setup_clockdelays, IsBoard, Fields
<1>2. kept \subseteq RegisterNames \ DOMAIN DelaysOf(s.hwregs)
    BY DEF BankRegisters, Held, ClockRegisters, RegisterNames, DelaysOf
<1> HIDE DEF t
<1>3. \A n \in kept : t.hwregs[n] = s.hwregs[n] BY <1>1, <1>2
<1>4. Awaited(t) BY <1>1, <1>3 DEF Sound, Awaited, Held, ClockRegisters
<1> QED BY <1>1, <1>3, <1>4, RegistersKeep DEF t, Held, ClockRegisters

LEMMA LcdWaitKeeps == \A s : Sound(s) => Keeps(s, set_lcd_wait_timer(s))
<1> SUFFICES ASSUME NEW s, Sound(s) PROVE Keeps(s, set_lcd_wait_timer(s))
    OBVIOUS
<1>1. CASE s.hwregs.PORT20 % 4 = 0 BY <1>1, KeepsSelf DEF set_lcd_wait_timer
<1>2. CASE s.hwregs.PORT20 % 4 # 0
  <2> DEFINE t == set_lcd_wait_timer(s)
  <2>1. /\ IsBoard(t) /\ t.hw = s.hw /\ t.map = s.map /\ t.unlock = s.unlock
        /\ t.ints = s.ints /\ t.onkeyint = s.onkeyint /\ t.mode = s.mode /\ t.link = s.link
        /\ t.lcd_wait = TRUE /\ t.backlight = s.backlight
        /\ \A n \in RegisterNames \ {"LCD_WAIT"} : t.hwregs[n] = s.hwregs[n]
      BY <1>2 DEF Sound, set_lcd_wait_timer, With, IsBoard, Fields
  <2>2. BankRegisters \cup (Held \ {"LCD_WAIT"}) \subseteq RegisterNames \ {"LCD_WAIT"}
      BY DEF BankRegisters, Held, ClockRegisters, RegisterNames
  <2> HIDE DEF t
  <2>3. \A n \in BankRegisters \cup (Held \ {"LCD_WAIT"}) : t.hwregs[n] = s.hwregs[n]
      BY <2>1, <2>2
  <2>4. Awaited(t) BY <2>1, <2>3 DEF Sound, Awaited, Held, ClockRegisters
  <2> QED BY <2>1, <2>3, <2>4, RegistersKeep DEF t, Held, ClockRegisters
<1> QED BY <1>1, <1>2

\* The screen is free again
LEMMA LcdFreeKeeps ==
  \A s : Sound(s) => Keeps(s, With([s EXCEPT !.lcd_wait = FALSE], "LCD_WAIT", 0))
<1> SUFFICES ASSUME NEW s, Sound(s)
             PROVE Keeps(s, With([s EXCEPT !.lcd_wait = FALSE], "LCD_WAIT", 0))
    OBVIOUS
<1> DEFINE t == With([s EXCEPT !.lcd_wait = FALSE], "LCD_WAIT", 0)
<1>1. /\ IsBoard(t) /\ t.hw = s.hw /\ t.map = s.map /\ t.unlock = s.unlock
      /\ t.ints = s.ints /\ t.onkeyint = s.onkeyint /\ t.mode = s.mode /\ t.link = s.link
      /\ t.backlight = s.backlight /\ t.hwregs.LCD_WAIT = 0
      /\ \A n \in RegisterNames \ {"LCD_WAIT"} : t.hwregs[n] = s.hwregs[n]
  <2>1. "LCD_WAIT" \in RegisterNames BY DEF RegisterNames
  <2> QED BY <2>1 DEF Sound, With, IsBoard, Fields
<1>2. BankRegisters \cup (Held \ {"LCD_WAIT"}) \subseteq RegisterNames \ {"LCD_WAIT"}
    BY DEF BankRegisters, Held, ClockRegisters, RegisterNames
<1> HIDE DEF t
<1>3. \A n \in BankRegisters \cup (Held \ {"LCD_WAIT"}) : t.hwregs[n] = s.hwregs[n]
    BY <1>1, <1>2
<1>4. Awaited(t) BY <1>1, <1>3 DEF Sound, Awaited, Held, ClockRegisters
<1> QED BY <1>1, <1>3, <1>4, RegistersKeep DEF t, Held, ClockRegisters

\* The ports of the clock keep the rest.
LEMMA ClockPlain ==
  ASSUME NEW s, NEW name \in ClockRegisters, NEW v, Sound(s)
  PROVE  LET t == With(s, name, v)
         IN Sound(t) /\ t.hw = s.hw /\ t.unlock = s.unlock
            /\ t.hwregs.PROTECTSTATE = s.hwregs.PROTECTSTATE
            /\ t.hwregs[name] = v
            /\ \A n \in ClockRegisters : n # name => t.hwregs[n] = s.hwregs[n]
<1> DEFINE t == With(s, name, v)
<1>1. name \in RegisterNames /\ ClockRegisters \subseteq RegisterNames
    BY DEF RegisterNames, ClockRegisters
<1>2. /\ IsBoard(t) /\ t.hw = s.hw /\ t.map = s.map /\ t.unlock = s.unlock
      /\ t.ints = s.ints /\ t.onkeyint = s.onkeyint /\ t.mode = s.mode
      /\ t.link = s.link /\ t.lcd_wait = s.lcd_wait /\ t.backlight = s.backlight
      /\ t.hwregs[name] = v
      /\ \A n \in RegisterNames : n # name => t.hwregs[n] = s.hwregs[n]
    BY <1>1, WithBoard DEF Sound
<1> HIDE DEF t
<1> DEFINE kept == BankRegisters \cup {"PORT3", "PROTECTSTATE", "LCD_WAIT", "BACKLIGHT_ON", "PORT3A"}
<1>3. kept \subseteq RegisterNames \ ClockRegisters
    BY DEF RegisterNames, BankRegisters, ClockRegisters
<1>4. \A n \in kept : t.hwregs[n] = s.hwregs[n] BY <1>2, <1>3
<1>5. Numbers(t) BY <1>4 DEF Sound, Numbers, BankRegisters
<1>6. InChips(t) BY <1>2 DEF Sound, InChips
<1>7. Pending(t) BY <1>2, <1>4 DEF Sound, Pending
<1>8. Linked(t) BY <1>2 DEF Sound, Linked
<1>9. Awaited(t) BY <1>2, <1>4 DEF Sound, Awaited
<1> QED BY <1>1, <1>2, <1>4, <1>5, <1>6, <1>7, <1>8, <1>9 DEF t, Sound

\* What an order to the clock makes of the difference
NewDiff(s, v) ==
  LET r == s.hwregs
      kept == IF BitOf(r.CLOCK_MODE, 0) = BitOf(v, 0) THEN r.CLOCK_DIFF
              ELSE IF BitOf(v, 0) THEN Wrap(r.CLOCK_DIFF - now) ELSE Wrap(r.CLOCK_DIFF + now)
      loaded == IF BitOf(v, 0) THEN Wrap(r.CLOCK_INPUT - now) ELSE r.CLOCK_INPUT
  IN IF ~BitOf(r.CLOCK_MODE, 1) /\ BitOf(v, 1) THEN loaded ELSE kept

LEMMA ControlIs ==
  ASSUME NEW s, NEW v, Sound(s)
  PROVE  LET t == clock_control(s, v)
         IN /\ Sound(t) /\ t.hw = s.hw /\ t.unlock = s.unlock
            /\ t.hwregs.PROTECTSTATE = s.hwregs.PROTECTSTATE
            /\ Clocks(t) = <<v % 4, s.hwregs.CLOCK_INPUT, NewDiff(s, v)>>
<1> DEFINE d == NewDiff(s, v)
           t == With(s, "CLOCK_DIFF", d)
           u == With(t, "CLOCK_MODE", v % 4)
<1>1. clock_control(s, v) = u
  <2>1. clock_control(s, v) = [s EXCEPT !.hwregs.CLOCK_DIFF = d, !.hwregs.CLOCK_MODE = v % 4]
      BY DEF clock_control, NewDiff
  <2>2. {"CLOCK_DIFF", "CLOCK_MODE"} \subseteq RegisterNames BY DEF RegisterNames
  <2> HIDE DEF d
  <2> QED BY <2>1, <2>2 DEF With, Sound, IsBoard, Fields
<1> HIDE DEF d, u
<1>2. /\ Sound(t) /\ t.hw = s.hw /\ t.unlock = s.unlock
      /\ t.hwregs.PROTECTSTATE = s.hwregs.PROTECTSTATE
      /\ t.hwregs.CLOCK_DIFF = d /\ t.hwregs.CLOCK_INPUT = s.hwregs.CLOCK_INPUT
    BY ClockPlain DEF ClockRegisters
<1> HIDE DEF t
<1>3. /\ Sound(u) /\ u.hw = t.hw /\ u.unlock = t.unlock
      /\ u.hwregs.PROTECTSTATE = t.hwregs.PROTECTSTATE
      /\ u.hwregs.CLOCK_MODE = v % 4 /\ u.hwregs.CLOCK_DIFF = t.hwregs.CLOCK_DIFF
      /\ u.hwregs.CLOCK_INPUT = t.hwregs.CLOCK_INPUT
    BY <1>2, ClockPlain DEF ClockRegisters, u
<1> QED BY <1>1, <1>2, <1>3 DEF Clocks, d

NewInput(s, i, v) ==
  s.hwregs.CLOCK_INPUT + ((v % Radix) - ClockByte(s.hwregs.CLOCK_INPUT, i)) * Scale[i + 1]

LEMMA InputIs ==
  ASSUME NEW s, NEW i, NEW v, Sound(s)
  PROVE  LET t == clock_input(s, i, v)
         IN /\ Sound(t) /\ t.hw = s.hw /\ t.unlock = s.unlock
            /\ t.hwregs.PROTECTSTATE = s.hwregs.PROTECTSTATE
            /\ Clocks(t) = <<s.hwregs.CLOCK_MODE, NewInput(s, i, v), s.hwregs.CLOCK_DIFF>>
<1> DEFINE n == NewInput(s, i, v)
<1>1. clock_input(s, i, v) = With(s, "CLOCK_INPUT", n) BY DEF clock_input, NewInput
<1> HIDE DEF n
<1> QED BY <1>1, ClockPlain DEF ClockRegisters, Clocks, n

LEMMA ClockSounds ==
  ASSUME NEW s, NEW p, NEW v, Sound(s)
  PROVE  LET t == silver_clock_out(s, p, v)
         IN /\ Sound(t) /\ t.hw = s.hw /\ t.unlock = s.unlock
            /\ t.hwregs.PROTECTSTATE = s.hwregs.PROTECTSTATE
<1>1. p = \h40 => silver_clock_out(s, p, v) = clock_control(s, v)
    BY DEF silver_clock_out
<1>2. p # \h40 => silver_clock_out(s, p, v) = clock_input(s, p - \h41, v)
    BY DEF silver_clock_out
<1> QED BY <1>1, <1>2, ControlIs, InputIs
Plain == RegisterNames \ (Held \cup BankRegisters)

LEMMA PlainKeeps == \A s, v : Sound(s) => \A name \in Plain : Keeps(s, With(s, name, v))
BY WithKeeps DEF Plain, BankRegisters

LEMMA BankKeeps ==
  \A s : \A v \in Nat : Sound(s) => \A name \in BankRegisters \ {"ROM_BANK"} :
    Keeps(s, With(s, name, v)) /\ Keeps(s, Remap(With(s, name, v)))
<1> SUFFICES ASSUME NEW s, NEW v \in Nat, Sound(s), NEW name \in BankRegisters \ {"ROM_BANK"}
             PROVE Keeps(s, With(s, name, v)) /\ Keeps(s, Remap(With(s, name, v)))
    OBVIOUS
<1>1. name \in RegisterNames \ Held BY DEF BankRegisters, RegisterNames, Held, ClockRegisters
<1>2. Keeps(s, With(s, name, v)) BY <1>1, WithKeeps
<1> QED BY <1>2, RemapKeeps, KeepsTwice DEF Keeps

LEMMA ScreenKeeps ==
  \A s, x : Sound(s) =>
    /\ Keeps(s, [s EXCEPT !.lcd.addr = x]) /\ Keeps(s, [s EXCEPT !.lcd.contrast = x])
    /\ Keeps(s, [s EXCEPT !.lcd.rowstride = x])
<1> SUFFICES ASSUME NEW s, NEW x, Sound(s)
             PROVE /\ Keeps(s, [s EXCEPT !.lcd.addr = x]) /\ Keeps(s, [s EXCEPT !.lcd.contrast = x])
                   /\ Keeps(s, [s EXCEPT !.lcd.rowstride = x])
    OBVIOUS
<1>1. /\ Alike(s, [s EXCEPT !.lcd.addr = x]) /\ Alike(s, [s EXCEPT !.lcd.contrast = x])
      /\ Alike(s, [s EXCEPT !.lcd.rowstride = x])
    BY DEF Sound, IsBoard, Fields, Alike
<1> QED BY <1>1, AlikeKeeps

LEMMA PowerKeeps == \A s, v : Sound(s) => Keeps(s, [s EXCEPT !.lcd.active = BitOf(v, 3)])
<1> SUFFICES ASSUME NEW s, NEW v, Sound(s) PROVE Alike(s, [s EXCEPT !.lcd.active = BitOf(v, 3)])
    BY AlikeKeeps
<1> QED BY DEF Sound, IsBoard, Fields, Alike

LEMMA PeriodKeeps == \A s, x : Sound(s) => Keeps(s, [s EXCEPT !.int_period = x])
<1> SUFFICES ASSUME NEW s, NEW x, Sound(s) PROVE Alike(s, [s EXCEPT !.int_period = x])
    BY AlikeKeeps
<1> QED BY DEF Sound, IsBoard, Fields, Alike

-----------------------------------------------------------------------------
LEMMA x1_outKeeps ==
  \A s, p : \A v \in Nat : Sound(s) /\ s.hw = "x1" => Keeps(s, x1_z80_out(s, p, v))
<1>1. ASSUME NEW s, NEW p, Sound(s) PROVE Keeps(s, x1_detect(s, p))
  <2>1. Keeps(s, Remap(With(s, "HW_VERSION", 1))) BY <1>1, BankKeeps DEF BankRegisters
  <2> DEFINE u == [s EXCEPT !.lcd.rowstride = 15]
  <2>2. Keeps(s, u) BY <1>1, ScreenKeeps
  <2>3. Keeps(u, Remap(With(u, "HW_VERSION", 2)))
    <3> HIDE DEF u
    <3> QED BY <2>2, BankKeeps DEF BankRegisters, Keeps
  <2> QED BY <1>1, <2>1, <2>2, <2>3, KeepsSelf, KeepsTwice DEF x1_detect
<1>2. ASSUME NEW s, NEW p, NEW v \in Nat, Sound(s), s.hw = "x1"
      PROVE  Keeps(s, x1_out(s, p, v))
  <2>1. Keeps(s, [s EXCEPT !.lcd.addr = (v % 32) * 256]) BY <1>2, ScreenKeeps
  <2>2. Keeps(s, LET t == Remap(With(s, "PORT2", v))
                 IN IF s.hwregs.HW_VERSION = 2 THEN t
                    ELSE [t EXCEPT !.lcd.contrast = 16 + (v % 32)])
    <3> DEFINE t == Remap(With(s, "PORT2", v))
    <3>1. Keeps(s, t) BY <1>2, BankKeeps DEF BankRegisters
    <3> HIDE DEF t
    <3>2. Keeps(t, [t EXCEPT !.lcd.contrast = 16 + (v % 32)]) BY <3>1, ScreenKeeps DEF Keeps
    <3>3. Keeps(s, [t EXCEPT !.lcd.contrast = 16 + (v % 32)]) BY <3>1, <3>2, KeepsTwice
    <3> QED BY <3>1, <3>3 DEF t
  <2>3. Keeps(s, [out_mask(s, v, Timer1) EXCEPT !.lcd.active = BitOf(v, 3)])
    <3>1. Keeps(s, out_mask(s, v, Timer1)) BY <1>2, MaskKeeps DEF Timer1, MaskBit, OneTimer
    <3> QED BY <3>1, PowerKeeps, KeepsTwice DEF Keeps
  <2>4. Keeps(s, With(s, "PORT4", v))
        /\ Keeps(s, [With(s, "PORT4", v) EXCEPT !.lcd.rowstride = Rowstride(v)])
    <3> DEFINE t == With(s, "PORT4", v)
    <3>1. Keeps(s, t) BY <1>2, BankKeeps DEF BankRegisters
    <3> HIDE DEF t
    <3>2. Keeps(t, [t EXCEPT !.lcd.rowstride = Rowstride(v)]) BY <3>1, ScreenKeeps DEF Keeps
    <3>3. Keeps(s, [t EXCEPT !.lcd.rowstride = Rowstride(v)]) BY <3>1, <3>2, KeepsTwice
    <3> QED BY <3>1, <3>3 DEF t
  <2>5. Keeps(s, IF s.hwregs.HW_VERSION # 1 THEN With(s, "PORT4", v)
                 ELSE [With(s, "PORT4", v) EXCEPT !.lcd.rowstride = Rowstride(v)])
      BY <2>4
  <2>6. Keeps(s, Remap(With(s, "PORT5", v))) /\ Keeps(s, Remap(With(s, "PORT6", v)))
      BY <1>2, BankKeeps DEF BankRegisters
  <2> QED BY <1>2, <2>1, <2>2, <2>3, <2>5, <2>6, KeepsSelf, Zenon DEF x1_out
<1>3. ASSUME NEW s, NEW p, NEW v \in Nat, Sound(s), s.hw = "x1"
      PROVE  Keeps(s, x1_z80_out(s, p, v))
  <2>1. Keeps(s, x1_detect(s, p)) BY <1>1, <1>3
  <2>2. Sound(x1_detect(s, p)) /\ x1_detect(s, p).hw = "x1" BY <1>3, <2>1 DEF Keeps
  <2>3. Keeps(x1_detect(s, p), x1_out(x1_detect(s, p), x1_port(x1_detect(s, p), p), v))
      BY <1>2, <2>2
  <2> QED BY <2>1, <2>3, KeepsTwice DEF x1_z80_out, x1_detected
<1> QED BY <1>3

LEMMA x2_outKeeps ==
  \A s, p : \A v \in Nat : Sound(s) /\ s.hw = "x2" => Keeps(s, x2_z80_out(s, p, v))
<1> SUFFICES ASSUME NEW s, NEW p, NEW v \in Nat, Sound(s), s.hw = "x2"
             PROVE Keeps(s, x2_z80_out(s, p, v))
    OBVIOUS
<1>1. Keeps(s, With(s, "PORT0", v))
    BY PlainKeeps DEF Plain, RegisterNames, BankRegisters, Held, ClockRegisters
<1>2. Keeps(s, Remap(With(s, "PORT2", v))) BY BankKeeps DEF BankRegisters
<1>3. Keeps(s, out_mask(s, v, Timer1)) BY MaskKeeps DEF Timer1, MaskBit, OneTimer
<1>4. Keeps(s, LET t == With(s, "PORT4", v)
               IN Remap(IF s.pclow THEN With(t, "HW_VERSION", IF BitOf(v, 4) THEN 1 ELSE 2)
                        ELSE t))
  <2> DEFINE t == With(s, "PORT4", v)
             n == IF BitOf(v, 4) THEN 1 ELSE 2
             u == IF s.pclow THEN With(t, "HW_VERSION", n) ELSE t
  <2>1. Keeps(s, t) BY BankKeeps DEF BankRegisters
  <2>2. n \in Nat OBVIOUS
  <2> HIDE DEF t, n
  <2>3. Keeps(t, With(t, "HW_VERSION", n)) BY <2>1, <2>2, BankKeeps DEF BankRegisters, Keeps
  <2>4. Keeps(s, u) BY <2>1, <2>3, KeepsTwice
  <2> HIDE DEF u
  <2>5. Keeps(s, Remap(u)) BY <2>4, RemapKeeps, KeepsTwice DEF Keeps
  <2> QED BY <2>5 DEF t, n, u
<1> QED BY <1>1, <1>2, <1>3, <1>4, KeepsSelf, Zenon DEF x2_z80_out
\* Port 4 sets the period of the timers and pairs the banks
LEMMA PeriodPortKeeps ==
  \A s, x : \A v \in Nat : Sound(s) =>
    Keeps(s, Remap([With(s, "PORT4", v) EXCEPT !.int_period = x]))
<1> SUFFICES ASSUME NEW s, NEW x, NEW v \in Nat, Sound(s)
             PROVE Keeps(s, Remap([With(s, "PORT4", v) EXCEPT !.int_period = x]))
    OBVIOUS
<1> DEFINE t == With(s, "PORT4", v)
<1>1. Keeps(s, t) BY BankKeeps DEF BankRegisters
<1> HIDE DEF t
<1>2. Keeps(t, [t EXCEPT !.int_period = x]) BY <1>1, PeriodKeeps DEF Keeps
<1>3. Keeps([t EXCEPT !.int_period = x], Remap([t EXCEPT !.int_period = x]))
    BY <1>2, RemapKeeps DEF Keeps
<1> QED BY <1>1, <1>2, <1>3, KeepsTwice DEF t

LEMMA x3_outKeeps ==
  \A s, p : \A v \in Nat : Sound(s) /\ s.hw = "x3" => Keeps(s, x3_z80_out(s, p, v))
<1> SUFFICES ASSUME NEW s, NEW p, NEW v \in Nat, Sound(s), s.hw = "x3"
             PROVE Keeps(s, x3_z80_out(s, p, v))
    OBVIOUS
<1>1. Keeps(s, Remap(With(s, "ROM_BANK", 8 * Num(BitOf(v, 4)))))
  <2> DEFINE n == 8 * Num(BitOf(v, 4))
  <2>1. n \in {0, 8} BY DEF Num
  <2> HIDE DEF n
  <2>2. Keeps(s, With(s, "ROM_BANK", n))
      BY <2>1, WithKeeps DEF RegisterNames, Held, ClockRegisters
  <2> QED BY <2>2, RemapKeeps, KeepsTwice DEF Keeps, n
<1>2. Keeps(s, Remap(With(s, "PORT2", v))) BY BankKeeps DEF BankRegisters
<1>3. Keeps(s, out_mask(s, v, Timers12)) BY MaskKeeps DEF Timers12, MaskBit
<1>4. Keeps(s, Remap([With(s, "PORT4", v)
                  EXCEPT !.int_period = Periods3[1 + Num(BitOf(v, 4)) + 2 * ((v \div 2) % 4)]]))
    BY PeriodPortKeeps
<1> QED BY <1>1, <1>2, <1>3, <1>4, KeepsSelf, Zenon DEF x3_z80_out

LEMMA x5_outKeeps ==
  \A s, p : \A v \in Nat : Sound(s) /\ s.hw \in {"x5", "x6"} => Keeps(s, x5_z80_out(s, p, v))
<1> SUFFICES ASSUME NEW s, NEW p, NEW v \in Nat, Sound(s), s.hw \in {"x5", "x6"}
             PROVE Keeps(s, x5_z80_out(s, p, v))
    OBVIOUS
<1>1. Keeps(s, [s EXCEPT !.lcd.addr = (v % 64) * 256])
      /\ Keeps(s, [s EXCEPT !.lcd.contrast = 16 + (v % 32)])
    BY ScreenKeeps, ZenonT(60)
<1>2. Keeps(s, [out_mask(s, v, Timer1) EXCEPT !.lcd.active = BitOf(v, 3)])
  <2>1. Keeps(s, out_mask(s, v, Timer1)) BY MaskKeeps DEF Timer1, MaskBit, OneTimer
  <2> QED BY <2>1, PowerKeeps, KeepsTwice DEF Keeps
<1>3. Keeps(s, [With(s, "PORT4", v) EXCEPT !.lcd.rowstride = Rowstride(v)])
  <2> DEFINE t == With(s, "PORT4", v)
  <2>1. Keeps(s, t) BY BankKeeps DEF BankRegisters
  <2> HIDE DEF t
  <2>2. Keeps(t, [t EXCEPT !.lcd.rowstride = Rowstride(v)]) BY <2>1, ScreenKeeps DEF Keeps
  <2> QED BY <2>1, <2>2, KeepsTwice DEF t
<1>4. /\ Keeps(s, Remap(With(s, "PORT5", v))) /\ Keeps(s, Remap(With(s, "PORT6", v)))
      /\ Keeps(s, With(s, "PORT7", v))
    BY BankKeeps DEF BankRegisters
<1> QED BY <1>1, <1>2, <1>3, <1>4, KeepsSelf, Zenon DEF x5_z80_out

\* A board may come unlocked only where the sequence has been read; only those that
\* have a clock change it.
Earns(s, t) ==
  /\ \/ Clocks(t) = Clocks(s)
     \/ s.hw \in HasClock /\ \E p \in ClockPorts, v \in Nat : t = silver_clock_out(s, p, v)
  /\ Sound(t) /\ t.hw = s.hw /\ t.hwregs.PROTECTSTATE = s.hwregs.PROTECTSTATE
  /\ t.unlock => s.unlock \/ s.hwregs.PROTECTSTATE = 7

LEMMA KeepsEarns == \A s, t : Keeps(s, t) => Earns(s, t)
BY DEF Keeps, Earns

LEMMA ClockEarns ==
  ASSUME NEW s, NEW p \in ClockPorts, NEW v \in Nat, Sound(s), s.hw \in HasClock
  PROVE  Earns(s, silver_clock_out(s, p, v))
BY ClockSounds DEF Earns

LEMMA UnlockEarns ==
  \A s, x : Sound(s) /\ s.hwregs.PROTECTSTATE = 7 => Earns(s, [s EXCEPT !.unlock = x])
<1> SUFFICES ASSUME NEW s, NEW x, Sound(s), s.hwregs.PROTECTSTATE = 7
             PROVE Earns(s, [s EXCEPT !.unlock = x])
    OBVIOUS
<1> DEFINE t == [s EXCEPT !.unlock = x]
<1>1. /\ IsBoard(t) /\ t.hw = s.hw /\ t.hwregs = s.hwregs /\ t.map = s.map
      /\ t.ints = s.ints /\ t.onkeyint = s.onkeyint /\ t.mode = s.mode /\ t.link = s.link
      /\ t.lcd_wait = s.lcd_wait /\ t.backlight = s.backlight
    BY DEF Sound, IsBoard, Fields
<1> HIDE DEF t
<1>2. Numbers(t) BY <1>1 DEF Sound, Numbers
<1>3. InChips(t) BY <1>1 DEF Sound, InChips
<1>4. Pending(t) BY <1>1 DEF Sound, Pending
<1>5. Linked(t) BY <1>1 DEF Sound, Linked
<1>6. Awaited(t) BY <1>1 DEF Sound, Awaited
<1> QED BY <1>1, <1>2, <1>3, <1>4, <1>5, <1>6 DEF Earns, Sound, t, Clocks

\* Port 3 of the models with link interrupts
LEMMA MaskLinkKeeps ==
  \A s, v, mode : Sound(s) => Keeps(s, linkport_set_mode(out_mask(s, v, Timers12), mode))
<1> SUFFICES ASSUME NEW s, NEW v, NEW mode, Sound(s)
             PROVE Keeps(s, linkport_set_mode(out_mask(s, v, Timers12), mode))
    OBVIOUS
<1>1. Keeps(s, out_mask(s, v, Timers12)) BY MaskKeeps DEF Timers12, MaskBit
<1> QED BY <1>1, SetModeKeeps, KeepsTwice DEF Keeps

LEMMA x7_outEarns ==
  \A s, p : \A v \in Nat : Sound(s) => Earns(s, x7_z80_out(s, p, v))
<1> SUFFICES ASSUME NEW s, NEW port, NEW v \in Nat, Sound(s)
             PROVE Earns(s, x7_z80_out(s, port, v))
    OBVIOUS
<1> DEFINE open == s.hwregs.PROTECTSTATE = 7
<1>1. Earns(s, linkport_set_mode(out_mask(s, v, Timers12),
                          ModeBit(s.mode, "int_active", BitOf(v, 4))))
    BY MaskLinkKeeps, KeepsEarns
<1>2. Earns(s, Remap([With(s, "PORT4", v)
                     EXCEPT !.int_period = Periods7[1 + ((v \div 2) % 4)]]))
    BY PeriodPortKeeps, KeepsEarns
<1>3. Earns(s, Remap(With(s, "PORT6", v % 128))) /\ Earns(s, Remap(With(s, "PORT7", v % 128)))
  <2>1. v % 128 \in Nat OBVIOUS
  <2> QED BY <2>1, BankKeeps, KeepsEarns DEF BankRegisters
<1>4. open => Earns(s, [s EXCEPT !.unlock = BitOf(v, 0)]) BY UnlockEarns, Zenon
<1>5. Earns(s, With(s, "NOEXEC", 4 * (v % 16)))
    BY PlainKeeps, KeepsEarns DEF Plain, RegisterNames, BankRegisters, Held, ClockRegisters
<1>6. Earns(s, s) BY KeepsSelf, KeepsEarns
<1> HIDE DEF open
<1> QED BY <1>1, <1>2, <1>3, <1>4, <1>5, <1>6, Zenon DEF x7_z80_out, open

LEMMA xp_outEarns ==
  \A s, p : \A v \in Nat : Sound(s) => Earns(s, xp_z80_out(s, p, v))
<1> SUFFICES ASSUME NEW s, NEW port, NEW v \in Nat, Sound(s)
             PROVE Earns(s, xp_z80_out(s, port, v))
    OBVIOUS
<1> DEFINE open == s.hwregs.PROTECTSTATE = 7
<1>1. Earns(s, linkport_set_mode(out_mask(s, v, Timers12),
                          ModeBit(s.mode, "int_active", BitOf(v, 4))))
    BY MaskLinkKeeps, KeepsEarns
<1>2. Earns(s, Remap([With(s, "PORT4", v)
                     EXCEPT !.int_period = Periods7[1 + ((v \div 2) % 4)]]))
    BY PeriodPortKeeps, KeepsEarns
<1>3. Earns(s, Remap(With(s, "PORT6", v % 128))) /\ Earns(s, Remap(With(s, "PORT7", v % 128)))
      /\ Earns(s, With(s, "PORT5", v % 8))
  <2>1. v % 128 \in Nat /\ v % 8 \in Nat OBVIOUS
  <2> QED BY <2>1, BankKeeps, KeepsEarns DEF BankRegisters
<1>4. open => Earns(s, [s EXCEPT !.unlock = BitOf(v, 0)]) BY UnlockEarns, Zenon
<1>5. Earns(s, xp_noexec(s, v))
  <2>1. \A name \in {"NOEXEC1", "NOEXEC2", "NOEXEC3", "NOEXEC4"} : \A x : Earns(s, With(s, name, x))
      BY PlainKeeps, KeepsEarns DEF Plain, RegisterNames, BankRegisters, Held, ClockRegisters
  <2>2. /\ Earns(s, With(s, "NOEXEC1", v)) /\ Earns(s, With(s, "NOEXEC2", v))
        /\ Earns(s, With(s, "NOEXEC3", v % 16))
        /\ Earns(s, With(s, "NOEXEC4", (v % 2) + 2 * Num(BitOf(v, 5))))
      BY <2>1
  <2>3. Earns(s, s) BY KeepsSelf, KeepsEarns
  <2> QED BY <2>2, <2>3, Zenon DEF xp_noexec
<1>6. Earns(s, s) BY KeepsSelf, KeepsEarns
<1>7. Earns(s, linkport_set_mode(s, ModeBit(s.mode, "assist", BitOf(v, 2))))
    BY SetModeKeeps, KeepsEarns
<1> HIDE DEF open
<1> QED BY <1>1, <1>2, <1>3, <1>4, <1>5, <1>6, <1>7, Zenon DEF xp_z80_out, open
-----------------------------------------------------------------------------
LEMMA SystemKeeps ==
  \A s, p : \A v \in Nat : Sound(s) => Keeps(s, silver_system_out(s, p, v))
<1> SUFFICES ASSUME NEW s, NEW p, NEW v \in Nat, Sound(s)
             PROVE Keeps(s, silver_system_out(s, p, v))
    OBVIOUS
<1>1. Keeps(s, Withdraw(s, v, DOMAIN MaskBit)) BY WithdrawKeeps
<1>2. Keeps(s, IF s.hw = "xn" THEN s ELSE Withdraw(s, v, DOMAIN MaskBit))
    BY <1>1, KeepsSelf
<1>3. ASSUME NEW mode
      PROVE Keeps(s, linkport_set_mode([out_mask(s, v, Timers12)
                                          EXCEPT !.nohalt = (v \div 2) % 4 = 0], mode))
  <2> DEFINE t == out_mask(s, v, Timers12)
             u == [t EXCEPT !.nohalt = (v \div 2) % 4 = 0]
  <2>1. Keeps(s, t) BY MaskKeeps DEF Timers12, MaskBit
  <2> HIDE DEF t
  <2>2. Alike(t, u) BY <2>1 DEF Keeps, Sound, IsBoard, Fields, Alike
  <2> HIDE DEF u
  <2>3. Keeps(t, u) BY <2>1, <2>2, AlikeKeeps DEF Keeps
  <2>4. Keeps(u, linkport_set_mode(u, mode)) BY <2>3, SetModeKeeps DEF Keeps
  <2> QED BY <2>1, <2>3, <2>4, KeepsTwice DEF t, u
<1>4. Keeps(s, Remap([With(s, "PORT4", v)
                  EXCEPT !.int_period = Periods4[1 + ((v \div 2) % 4)]]))
    BY PeriodPortKeeps
<1>5. /\ Keeps(s, Remap(With(s, "PORT5", v % 16))) /\ Keeps(s, Remap(With(s, "PORT6", v)))
      /\ Keeps(s, Remap(With(s, "PORT7", v)))
  <2>1. v % 16 \in Nat OBVIOUS
  <2> QED BY <2>1, BankKeeps DEF BankRegisters
<1>6. Keeps(s, linkport_set_mode([out_mask(s, v, Timers12) EXCEPT !.nohalt = (v \div 2) % 4 = 0],
                         ModeBit(s.mode, "int_active", BitOf(v, 4))))
    BY <1>3
<1> QED BY <1>2, <1>4, <1>5, <1>6, KeepsSelf, Zenon DEF silver_system_out

LEMMA AssistKeeps ==
  \A s, p, v : Sound(s) /\ p \in \h08..\h0D => Keeps(s, silver_link_out(s, p, v))
<1> SUFFICES ASSUME NEW s, NEW p, NEW v, Sound(s), p \in \h08..\h0D
             PROVE Keeps(s, silver_link_out(s, p, v))
    OBVIOUS
<1>1. \A name \in {"PORT8", "PORT9", "PORTA", "PORTB", "PORTC"} : Keeps(s, With(s, name, v))
    BY PlainKeeps DEF Plain, RegisterNames, BankRegisters, Held, ClockRegisters
<1>2. Keeps(s, linkport_set_mode(With(s, "PORT8", v), assist_mode(s.mode, v)))
    BY <1>1, SetModeKeeps, KeepsTwice DEF Keeps
<1>3. /\ Keeps(s, With(s, "PORT9", v)) /\ Keeps(s, With(s, "PORTA", v))
      /\ Keeps(s, With(s, "PORTB", v)) /\ Keeps(s, With(s, "PORTC", v))
    BY <1>1
<1>4. Keeps(s, IF BitOf(s.hwregs.PORT8, 7) THEN s ELSE linkport_write_byte(s))
    BY LinkKeeps, KeepsSelf DEF linkport_write_byte
<1>5. p = 8 \/ p = 9 \/ p = \h0A \/ p = \h0B \/ p = \h0C \/ p = \h0D OBVIOUS
<1> QED BY <1>2, <1>3, <1>4, <1>5, Zenon DEF silver_link_out

LEMMA OverrideKeeps == \A s, x : Sound(s) => Keeps(s, [s EXCEPT !.override = x])
<1> SUFFICES ASSUME NEW s, NEW x, Sound(s) PROVE Alike(s, [s EXCEPT !.override = x])
    BY AlikeKeeps
<1> QED BY DEF Sound, IsBoard, Fields, Alike

LEMMA SpeedKeeps == \A s, x : Sound(s) => Keeps(s, [s EXCEPT !.speed = x])
<1> SUFFICES ASSUME NEW s, NEW x, Sound(s) PROVE Alike(s, [s EXCEPT !.speed = x])
    BY AlikeKeeps
<1> QED BY DEF Sound, IsBoard, Fields, Alike

LEMMA LimitKeeps == \A s, p, v : Sound(s) => Keeps(s, silver_limit_out(s, p, v))
<1> SUFFICES ASSUME NEW s, NEW p, NEW v, Sound(s) PROVE Keeps(s, silver_limit_out(s, p, v))
    OBVIOUS
<1>1. \A t, x : Sound(t) =>
        \A name \in {"PORT21", "PORT22", "PORT23", "PORT25", "PORT26", "NO_EXEC_RAM_MASK",
                     "NO_EXEC_RAM_LOWER", "NO_EXEC_RAM_UPPER"} : Keeps(t, With(t, name, x))
  <2>1. {"PORT21", "PORT22", "PORT23", "PORT25", "PORT26", "NO_EXEC_RAM_MASK",
         "NO_EXEC_RAM_LOWER", "NO_EXEC_RAM_UPPER"} \subseteq Plain
      BY DEF Plain, RegisterNames, BankRegisters, Held, ClockRegisters
  <2> QED BY <2>1, PlainKeeps
<1>2. ASSUME NEW m
      PROVE  Keeps(s, [s EXCEPT !.hwregs = [@ EXCEPT !.PORT21 = v, !.NO_EXEC_RAM_MASK = m],
                                !.override = v % 4])
  <2> DEFINE t == With(s, "PORT21", v)
             u == With(t, "NO_EXEC_RAM_MASK", m)
  <2>1. Keeps(s, t) BY <1>1
  <2>2. [s EXCEPT !.hwregs = [@ EXCEPT !.PORT21 = v, !.NO_EXEC_RAM_MASK = m], !.override = v % 4]
          = [u EXCEPT !.override = v % 4]
      BY DEF With, Sound, IsBoard, Fields
  <2> HIDE DEF t
  <2>3. Keeps(t, u) BY <1>1, <2>1 DEF Keeps
  <2> HIDE DEF u
  <2>4. Keeps(u, [u EXCEPT !.override = v % 4]) BY <2>3, OverrideKeeps DEF Keeps
  <2> QED BY <2>1, <2>2, <2>3, <2>4, KeepsTwice
<1>3. Keeps(s, With(s, "PORT22", v)) /\ Keeps(s, With(s, "PORT23", v)) BY <1>1
<1>4. Keeps(s, With(With(s, "PORT25", v), "NO_EXEC_RAM_LOWER", v * \h400))
  <2>1. Keeps(s, With(s, "PORT25", v)) BY <1>1
  <2>2. Keeps(With(s, "PORT25", v), With(With(s, "PORT25", v), "NO_EXEC_RAM_LOWER", v * \h400))
      BY <1>1, <2>1 DEF Keeps
  <2> QED BY <2>1, <2>2, KeepsTwice
<1>5. Keeps(s, With(With(s, "PORT26", v), "NO_EXEC_RAM_UPPER", v * \h400))
  <2>1. Keeps(s, With(s, "PORT26", v)) BY <1>1
  <2>2. Keeps(With(s, "PORT26", v), With(With(s, "PORT26", v), "NO_EXEC_RAM_UPPER", v * \h400))
      BY <1>1, <2>1 DEF Keeps
  <2> QED BY <2>1, <2>2, KeepsTwice
<1>6. Keeps(s, [s EXCEPT !.hwregs = [@ EXCEPT !.PORT21 = v,
                               !.NO_EXEC_RAM_MASK = \h8000 * 2 ^ ((v \div 16) % 4) - \h400],
                             !.override = v % 4])
  <2> DEFINE m == \h8000 * 2 ^ ((v \div 16) % 4) - \h400
  <2> HIDE DEF m
  <2>1. Keeps(s, [s EXCEPT !.hwregs = [@ EXCEPT !.PORT21 = v, !.NO_EXEC_RAM_MASK = m],
                           !.override = v % 4])
      BY <1>2
  <2> QED BY <2>1 DEF m
<1> DEFINE limit == [s EXCEPT !.hwregs = [@ EXCEPT !.PORT21 = v,
                               !.NO_EXEC_RAM_MASK = \h8000 * 2 ^ ((v \div 16) % 4) - \h400],
                             !.override = v % 4]
           lower == With(With(s, "PORT25", v), "NO_EXEC_RAM_LOWER", v * \h400)
           upper == With(With(s, "PORT26", v), "NO_EXEC_RAM_UPPER", v * \h400)
           first == With(s, "PORT22", v)
           last == With(s, "PORT23", v)
<1>7. Keeps(s, limit) /\ Keeps(s, lower) /\ Keeps(s, upper) /\ Keeps(s, first) /\ Keeps(s, last)
    BY <1>3, <1>4, <1>5, <1>6
<1>8. silver_limit_out(s, p, v)
        = CASE p = \h21 -> limit [] p = \h22 -> first [] p = \h23 -> last
            [] p = \h25 -> lower [] p = \h26 -> upper [] OTHER -> s
    BY DEF silver_limit_out
<1> HIDE DEF limit, lower, upper, first, last
<1>9. Keeps(s, s) BY KeepsSelf
<1> QED BY <1>7, <1>8, <1>9, Zenon

LEMMA SpeedPortKeeps ==
  \A s, p, v : Sound(s) /\ p \in {\h20} \cup \h27..\h2F => Keeps(s, silver_speed_out(s, p, v))
<1> SUFFICES ASSUME NEW s, NEW p, NEW v, Sound(s), p \in {\h20} \cup \h27..\h2F
             PROVE Keeps(s, silver_speed_out(s, p, v))
    OBVIOUS
<1> DEFINE names == {"PORT20", "PORT27", "PORT28", "PORT29", "PORT2A", "PORT2B", "PORT2C",
                     "PORT2D", "PORT2E", "PORT2F"}
<1>1. \A name \in names : Keeps(s, With(s, name, v))
  <2>1. names \subseteq Plain BY DEF Plain, RegisterNames, BankRegisters, Held, ClockRegisters
  <2> QED BY <2>1, PlainKeeps
<1>2. \A name \in names : Keeps(s, setup_clockdelays(With(s, name, v)))
  <2> HIDE DEF names
  <2> QED BY <1>1, DelaysKeep, KeepsTwice DEF Keeps
<1>3. Keeps(s, setup_clockdelays([With(s, "PORT20", v)
                     EXCEPT !.speed = IF v % 4 = 0 THEN 6000 ELSE 15000]))
  <2> DEFINE t == With(s, "PORT20", v)
             x == IF v % 4 = 0 THEN 6000 ELSE 15000
  <2>1. Keeps(s, t) BY <1>1
  <2> HIDE DEF t, x
  <2>2. Keeps(t, [t EXCEPT !.speed = x]) BY <2>1, SpeedKeeps DEF Keeps
  <2>3. Keeps([t EXCEPT !.speed = x], setup_clockdelays([t EXCEPT !.speed = x]))
      BY <2>2, DelaysKeep DEF Keeps
  <2> QED BY <2>1, <2>2, <2>3, KeepsTwice DEF t, x
<1>4. /\ Keeps(s, With(s, "PORT27", v)) /\ Keeps(s, With(s, "PORT28", v))
      /\ Keeps(s, With(s, "PORT2F", v)) /\ Keeps(s, setup_clockdelays(With(s, "PORT2E", v)))
    BY <1>1, <1>2
<1>5. p \in \h29..\h2C => Keeps(s, setup_clockdelays(With(s, DelayPort[p - \h28], v)))
  <2>1. p \in \h29..\h2C => DelayPort[p - \h28] \in names BY DEF DelayPort
  <2> HIDE DEF names
  <2> QED BY <1>2, <2>1
<1>6. Keeps(s, LET t == With(s, "PORT2D", v)
               IN IF s.hw = "xs" THEN setup_clockdelays(t) ELSE t)
    BY <1>1, <1>2
<1>7. p = \h20 \/ p = \h27 \/ p = \h28 \/ p \in \h29..\h2C \/ p = \h2D \/ p = \h2E \/ p = \h2F
    OBVIOUS
<1> DEFINE fast == setup_clockdelays([With(s, "PORT20", v)
                     EXCEPT !.speed = IF v % 4 = 0 THEN 6000 ELSE 15000])
           slow == LET t == With(s, "PORT2D", v)
                   IN IF s.hw = "xs" THEN setup_clockdelays(t) ELSE t
<1>8. silver_speed_out(s, p, v)
        = CASE p = \h20 -> fast
            [] p = \h27 -> With(s, "PORT27", v)
            [] p = \h28 -> With(s, "PORT28", v)
            [] p \in \h29..\h2C -> setup_clockdelays(With(s, DelayPort[p - \h28], v))
            [] p = \h2D -> slow
            [] p = \h2E -> setup_clockdelays(With(s, "PORT2E", v))
            [] p = \h2F -> With(s, "PORT2F", v)
    BY DEF silver_speed_out
<1>9. Keeps(s, fast) /\ Keeps(s, slow) BY <1>3, <1>6
<1> HIDE DEF fast, slow, names
<1> QED BY <1>4, <1>5, <1>7, <1>8, <1>9, Zenon
LEMMA x4_outEarns ==
  \A s, port : \A v \in Nat :
    Sound(s) /\ (s.hw \in HasClock \/ port % 256 \notin ClockPorts)
      => Earns(s, x4_z80_out(s, port, v))
<1> SUFFICES ASSUME NEW s, NEW port, NEW v \in Nat, Sound(s),
                    s.hw \in HasClock \/ port % 256 \notin ClockPorts
             PROVE Earns(s, x4_z80_out(s, port, v))
    OBVIOUS
<1> DEFINE p == port % 256
<1>1. Earns(s, silver_system_out(s, p, v)) BY SystemKeeps, KeepsEarns
<1>2. p \in \h08..\h0D => Earns(s, silver_link_out(s, p, v)) BY AssistKeeps, KeepsEarns
<1>3. Earns(s, With(s, "PORTE", v)) /\ Earns(s, With(s, "PORTF", v))
    BY BankKeeps, KeepsEarns DEF BankRegisters
<1>4. Earns(s, set_lcd_wait_timer(s)) BY LcdWaitKeeps, KeepsEarns
<1>5. Earns(s, s) BY KeepsSelf, KeepsEarns
<1>6. Earns(s, silver_unlock_out(s, v))
  <2>1. s.hwregs.PROTECTSTATE = 7 => Earns(s, [s EXCEPT !.unlock = BitOf(v, 0)])
      BY UnlockEarns, Zenon
  <2> QED BY <1>5, <2>1, Zenon DEF silver_unlock_out
<1>7. Earns(s, silver_limit_out(s, p, v)) BY LimitKeeps, KeepsEarns
<1>8. p \in {\h20} \cup \h27..\h2F => Earns(s, silver_speed_out(s, p, v))
    BY SpeedPortKeeps, KeepsEarns
<1>9. p \in ClockPorts => Earns(s, silver_clock_out(s, p, v))
  <2>1. SUFFICES ASSUME p \in ClockPorts PROVE Earns(s, silver_clock_out(s, p, v))
      OBVIOUS
  <2>2. s.hw \in HasClock BY <2>1
  <2> QED BY <2>1, <2>2, ClockEarns
<1>10. x4_z80_out(s, port, v)
         = CASE p \in 2..7 -> silver_system_out(s, p, v)
             [] p \in \h08..\h0D -> silver_link_out(s, p, v)
             [] p = \h0E -> With(s, "PORTE", v) [] p = \h0F -> With(s, "PORTF", v)
             [] p \in \h10..\h13 -> set_lcd_wait_timer(s)
             [] p = \h14 -> silver_unlock_out(s, v)
             [] p \in \h21..\h26 /\ s.unlock -> silver_limit_out(s, p, v)
             [] p \in {\h20} \cup \h27..\h2F -> silver_speed_out(s, p, v)
             [] p \in ClockPorts -> silver_clock_out(s, p, v)
             [] OTHER -> s
    BY DEF x4_z80_out
<1> HIDE DEF p
<1> QED BY <1>1, <1>2, <1>3, <1>4, <1>5, <1>6, <1>7, <1>8, <1>9, <1>10, Zenon

LEMMA xs_outEarns ==
  \A s, p : \A v \in Nat :
    Sound(s) => /\ Earns(s, xs_z80_out(s, p, v))
                /\ s.hw \in HasClock => Earns(s, xz_z80_out(s, p, v))
BY x4_outEarns, KeepsSelf, KeepsEarns DEF xs_z80_out, xz_z80_out

LEMMA xn_outEarns ==
  \A s, p : \A v \in Nat : Sound(s) /\ s.hw \in HasClock => Earns(s, xn_z80_out(s, p, v))
<1> SUFFICES ASSUME NEW s, NEW p, NEW v \in Nat, Sound(s), s.hw \in HasClock
             PROVE Earns(s, xn_z80_out(s, p, v))
    OBVIOUS
<1>1. ASSUME NEW q PROVE Keeps(s, xn_limit_out(s, q, v))
  <2>1. \A t, x : Sound(t) =>
          \A name \in {"PORT21", "PORT22", "PORT23", "PORT25", "PORT26", "NO_EXEC_RAM"} :
            Keeps(t, With(t, name, x))
    <3>1. {"PORT21", "PORT22", "PORT23", "PORT25", "PORT26", "NO_EXEC_RAM"} \subseteq Plain
        BY DEF Plain, RegisterNames, BankRegisters, Held, ClockRegisters
    <3> QED BY <3>1, PlainKeeps
  <2> DEFINE m == <<\h5555, \h9999, \hF9F9, \hFFF9>>[1 + ((v \div 16) % 4)]
             masks == [s EXCEPT !.hwregs = [@ EXCEPT !.PORT21 = v, !.NO_EXEC_RAM = m]]
             first == With(s, "PORT22", v)
             last == With(s, "PORT23", v)
             lower == With(s, "PORT25", v)
             upper == With(s, "PORT26", v)
  <2> HIDE DEF m
  <2>2. masks = With(With(s, "PORT21", v), "NO_EXEC_RAM", m)
      BY DEF With, Sound, IsBoard, Fields
  <2>3. Keeps(s, masks)
    <3>1. Keeps(s, With(s, "PORT21", v)) BY <2>1
    <3>2. Keeps(With(s, "PORT21", v), With(With(s, "PORT21", v), "NO_EXEC_RAM", m))
        BY <2>1, <3>1 DEF Keeps
    <3> QED BY <2>2, <3>1, <3>2, KeepsTwice
  <2>4. Keeps(s, first) /\ Keeps(s, last) /\ Keeps(s, lower) /\ Keeps(s, upper) /\ Keeps(s, s)
      BY <2>1, KeepsSelf
  <2>5. xn_limit_out(s, q, v)
          = CASE q = \h21 -> masks [] q = \h22 -> first [] q = \h23 -> last
              [] q = \h25 -> lower [] q = \h26 -> upper [] OTHER -> s
      BY DEF xn_limit_out, m
  <2> HIDE DEF masks, first, last, lower, upper
  <2> QED BY <2>3, <2>4, <2>5, Zenon
<1>2. Earns(s, s) /\ Earns(s, xn_limit_out(s, p % 256, v)) BY <1>1, KeepsSelf, KeepsEarns
<1> QED BY <1>2, x4_outEarns DEF xn_z80_out

LEMMA BacklightKeeps == \A s, v : Sound(s) => Keeps(s, xc_backlight_out(s, v))
<1> SUFFICES ASSUME NEW s, NEW v, Sound(s) PROVE Keeps(s, xc_backlight_out(s, v))
    OBVIOUS
<1> DEFINE r == s.hwregs
           level == IF r.BACKLIGHT_ON = 0 THEN 0 ELSE (r.BACKLIGHT_LEVEL + 1) % 32
           shade == IF level = 31 THEN 0 ELSE 41 - level
           rise == BitOf(v, 5) /\ ~BitOf(r.PORT3A, 5)
           fall == ~BitOf(v, 5) /\ BitOf(r.PORT3A, 5)
           t == With(s, "PORT3A", v)
           up == [t EXCEPT !.hwregs.BACKLIGHT_ON = 1, !.hwregs.BACKLIGHT_LEVEL = level,
                            !.lcd.contrast = shade, !.backlight = FALSE]
           down == [t EXCEPT !.backlight = TRUE]
           same == BankRegisters \cup ClockRegisters \cup {"PORT3", "PROTECTSTATE", "LCD_WAIT"}
<1>1. xc_backlight_out(s, v) = CASE rise -> up [] fall -> down [] OTHER -> t
    BY DEF xc_backlight_out
<1> HIDE DEF level, shade
<1>2. "PORT3A" \in RegisterNames /\ "BACKLIGHT_ON" \in RegisterNames
      /\ "BACKLIGHT_LEVEL" \in RegisterNames
      /\ same \subseteq RegisterNames \ {"PORT3A", "BACKLIGHT_ON", "BACKLIGHT_LEVEL"}
    BY DEF RegisterNames, BankRegisters, ClockRegisters
<1>3. /\ IsBoard(t) /\ t.hw = s.hw /\ t.map = s.map /\ t.unlock = s.unlock
      /\ t.ints = s.ints /\ t.onkeyint = s.onkeyint /\ t.mode = s.mode
      /\ t.link = s.link /\ t.lcd_wait = s.lcd_wait /\ t.backlight = s.backlight
      /\ t.hwregs.PORT3A = v
      /\ \A n \in RegisterNames : n # "PORT3A" => t.hwregs[n] = s.hwregs[n]
    BY <1>2, WithBoard DEF Sound
<1> HIDE DEF t
<1>4. /\ IsBoard(up) /\ up.hw = s.hw /\ up.map = s.map /\ up.unlock = s.unlock
      /\ up.ints = s.ints /\ up.onkeyint = s.onkeyint /\ up.mode = s.mode
      /\ up.link = s.link /\ up.lcd_wait = s.lcd_wait
      /\ up.hwregs.PORT3A = v
      /\ \A n \in same : up.hwregs[n] = s.hwregs[n]
    BY <1>2, <1>3 DEF IsBoard, Fields
<1>5. /\ IsBoard(down) /\ down.hw = s.hw /\ down.map = s.map /\ down.unlock = s.unlock
      /\ down.ints = s.ints /\ down.onkeyint = s.onkeyint /\ down.mode = s.mode
      /\ down.link = s.link /\ down.lcd_wait = s.lcd_wait /\ down.backlight = TRUE
      /\ \A n \in same : down.hwregs[n] = s.hwregs[n]
    BY <1>2, <1>3 DEF IsBoard, Fields
<1>6. rise => Keeps(s, up)
  <2>1. rise => Awaited(up) BY <1>4, <1>2 DEF Sound, Awaited
  <2> HIDE DEF up
  <2> QED BY <1>4, <2>1, RegistersKeep
<1>7. Keeps(s, down)
  <2>1. Awaited(down) BY <1>5, <1>2 DEF Sound, Awaited
  <2> HIDE DEF down
  <2> QED BY <1>5, <2>1, RegistersKeep
<1>8. ~rise /\ ~fall => Keeps(s, t)
  <2>1. ~rise /\ ~fall => Awaited(t) BY <1>2, <1>3 DEF Sound, Awaited
  <2> QED BY <1>2, <1>3, <2>1, RegistersKeep
<1> HIDE DEF rise, fall, up, down
<1> QED BY <1>1, <1>6, <1>7, <1>8, Zenon

LEMMA xc_outEarns ==
  \A s, p : \A v \in Nat : Sound(s) /\ s.hw \in HasClock => Earns(s, xc_z80_out(s, p, v))
<1> SUFFICES ASSUME NEW s, NEW port, NEW v \in Nat, Sound(s), s.hw \in HasClock
             PROVE Earns(s, xc_z80_out(s, port, v))
    OBVIOUS
<1> DEFINE p == port % 256
<1>1. Earns(s, Remap(With(s, "PORTE", v))) /\ Earns(s, Remap(With(s, "PORTF", v)))
    BY BankKeeps, KeepsEarns DEF BankRegisters
<1>2. Earns(s, IF s.unlock THEN With(s, "PORT24", v) ELSE s) /\ Earns(s, With(s, "PORT39", v))
    BY PlainKeeps, KeepsSelf, KeepsEarns
      DEF Plain, RegisterNames, BankRegisters, Held, ClockRegisters
<1>3. Earns(s, xc_backlight_out(s, v)) BY BacklightKeeps, KeepsEarns
<1>4. Earns(s, x4_z80_out(s, port, v)) BY x4_outEarns
<1> DEFINE limit == IF s.unlock THEN With(s, "PORT24", v) ELSE s
<1>5. xc_z80_out(s, port, v)
        = CASE p = \h0E -> Remap(With(s, "PORTE", v)) [] p = \h0F -> Remap(With(s, "PORTF", v))
            [] p = \h24 -> limit [] p = \h39 -> With(s, "PORT39", v)
            [] p = \h3A -> xc_backlight_out(s, v)
            [] p \notin {\h0E, \h0F, \h24, \h39, \h3A} -> x4_z80_out(s, port, v)
    BY DEF xc_z80_out
<1> HIDE DEF p, limit
<1>6. Earns(s, limit) BY <1>2 DEF limit
<1> QED BY <1>1, <1>2, <1>3, <1>4, <1>5, <1>6, Zenon
LEMMA z80_outEarns ==
  \A s, p : \A v \in Nat : Sound(s) => Earns(s, z80_out(s, p, v))
<1> SUFFICES ASSUME NEW s, NEW p, NEW v \in Nat, Sound(s) PROVE Earns(s, z80_out(s, p, v))
    OBVIOUS
<1>1. /\ s.hw = "x1" => Earns(s, x1_z80_out(s, p, v))
      /\ s.hw = "x2" => Earns(s, x2_z80_out(s, p, v))
      /\ s.hw = "x3" => Earns(s, x3_z80_out(s, p, v))
    BY x1_outKeeps, x2_outKeeps, x3_outKeeps, KeepsEarns
<1>2. /\ s.hw = "x5" => Earns(s, x5_z80_out(s, p, v))
      /\ s.hw = "x6" => Earns(s, x6_z80_out(s, p, v))
    BY x5_outKeeps, KeepsEarns DEF x6_z80_out
<1>3. Earns(s, x7_z80_out(s, p, v)) /\ Earns(s, xp_z80_out(s, p, v))
    BY x7_outEarns, xp_outEarns
<1>4. /\ s.hw = "x4" => Earns(s, x4_z80_out(s, p, v))
      /\ s.hw = "xs" => Earns(s, xs_z80_out(s, p, v))
      /\ s.hw = "xz" => Earns(s, xz_z80_out(s, p, v))
      /\ s.hw = "xn" => Earns(s, xn_z80_out(s, p, v))
      /\ s.hw = "xc" => Earns(s, xc_z80_out(s, p, v))
    BY x4_outEarns, xs_outEarns, xn_outEarns, xc_outEarns DEF HasClock
<1>5. s.hw \in Models BY DEF Sound, IsBoard
<1> QED BY <1>1, <1>2, <1>3, <1>4, <1>5, ZenonT(60) DEF z80_out, Models

-----------------------------------------------------------------------------
LEMMA ReadsKeeps == \A s, v : Reads(s, v).board = s
BY DEF Reads

LEMMA ReadByteKeeps == \A s : Sound(s) => Keeps(s, linkport_read_byte(s))
BY LinkKeeps DEF linkport_read_byte

LEMMA x4_inKeeps == \A s, p : Sound(s) => Keeps(s, x4_z80_in(s, p).board)
<1> SUFFICES ASSUME NEW s, NEW port, Sound(s) PROVE Keeps(s, x4_z80_in(s, port).board)
    OBVIOUS
<1> DEFINE p == port % 256
           quiet == [s EXCEPT !.ints = @ \ {"link_error"}]
<1>1. Keeps(s, quiet)
  <2>1. /\ Signals(s, quiet) /\ quiet.onkeyint = s.onkeyint /\ quiet.mode = s.mode
        /\ quiet.link = s.link /\ quiet.ints = s.ints \ {"link_error"}
      BY DEF Sound, IsBoard, Fields, Signals
  <2> HIDE DEF quiet
  <2>2. Pending(quiet) BY <2>1 DEF Sound, Pending, Signals
  <2>3. Linked(quiet) BY <2>1 DEF Sound, Linked
  <2> QED BY <2>1, <2>2, <2>3, SignalsKeep
<1>2. Keeps(s, s) /\ Keeps(s, linkport_read_byte(s)) /\ Keeps(s, set_lcd_wait_timer(s))
    BY KeepsSelf, ReadByteKeeps, LcdWaitKeeps
<1>3. \A v : /\ Keeps(s, Reads(s, v).board) /\ Keeps(s, Reads(quiet, v).board)
             /\ Keeps(s, Reads(linkport_read_byte(s), v).board)
             /\ Keeps(s, Reads(set_lcd_wait_timer(s), v).board)
    BY <1>1, <1>2, ReadsKeeps
<1> DEFINE wait == Reads(s, 2 * Num(s.hwregs.LCD_WAIT = 0) + 4 * Num(s.unlock))
           shown == Reads(s, ShowInts(s))
           link == Reads(quiet, ShowLink(s))
           byte == Reads(linkport_read_byte(s), Elsewhere)
           lcd == Reads(set_lcd_wait_timer(s), Elsewhere)
           clk == Reads(s, clock_in(s, p))
           plain == Reads(s, PlainPort(s.hwregs, p))
<1>4. /\ Keeps(s, wait.board) /\ Keeps(s, shown.board) /\ Keeps(s, link.board)
      /\ Keeps(s, byte.board) /\ Keeps(s, lcd.board) /\ Keeps(s, clk.board)
      /\ Keeps(s, plain.board)
    BY <1>3
<1>5. x4_z80_in(s, port)
        = CASE p = 2 -> wait [] p = 4 -> shown [] p = 9 -> link [] p = \h0A -> byte
            [] p \in \h10..\h13 -> lcd [] p \in \h40..\h48 -> clk [] OTHER -> plain
    BY DEF x4_z80_in
<1> HIDE DEF wait, shown, link, byte, lcd, clk, plain, p, quiet
<1> QED BY <1>4, <1>5, Zenon
LEMMA PlainReads == \A s : Sound(s) => \A v : Keeps(s, Reads(s, v).board)
BY KeepsSelf, ReadsKeeps

\* Before the TI-83 Plus SE a read changes nothing, but of the byte of the assist
LEMMA EarlyReads ==
  \A s, p : Sound(s) =>
    /\ Keeps(s, x1_z80_in(s, p).board) /\ Keeps(s, x2_z80_in(s, p).board)
    /\ Keeps(s, x3_z80_in(s, p).board) /\ Keeps(s, x5_z80_in(s, p).board)
    /\ Keeps(s, x7_z80_in(s, p).board) /\ Keeps(s, xp_z80_in(s, p).board)
<1> SUFFICES ASSUME NEW s, NEW p, Sound(s)
             PROVE /\ Keeps(s, x1_z80_in(s, p).board) /\ Keeps(s, x2_z80_in(s, p).board)
                   /\ Keeps(s, x3_z80_in(s, p).board) /\ Keeps(s, x5_z80_in(s, p).board)
                   /\ Keeps(s, x7_z80_in(s, p).board) /\ Keeps(s, xp_z80_in(s, p).board)
    OBVIOUS
<1>1. \A v : Keeps(s, Reads(s, v).board) BY PlainReads
<1>2. \A v : Keeps(s, Reads(linkport_read_byte(s), v).board) BY ReadByteKeeps, ReadsKeeps
<1>3. Keeps(s, x1_z80_in(s, p).board) BY <1>1, Zenon DEF x1_z80_in
<1>4. Keeps(s, x2_z80_in(s, p).board) BY <1>1, Zenon DEF x2_z80_in
<1>5. Keeps(s, x3_z80_in(s, p).board) BY <1>1, Zenon DEF x3_z80_in
<1>6. Keeps(s, x5_z80_in(s, p).board) BY <1>1, Zenon DEF x5_z80_in
<1>7. Keeps(s, x7_z80_in(s, p).board) BY <1>1, Zenon DEF x7_z80_in
<1>8. Keeps(s, xp_z80_in(s, p).board) BY <1>1, <1>2, Zenon DEF xp_z80_in
<1> QED BY <1>3, <1>4, <1>5, <1>6, <1>7, <1>8

LEMMA z80_inKeeps == \A s, p : Sound(s) => Keeps(s, z80_in(s, p).board)
<1> SUFFICES ASSUME NEW s, NEW p, Sound(s) PROVE Keeps(s, z80_in(s, p).board)
    OBVIOUS
<1>1. /\ Keeps(s, x1_z80_in(s, p).board) /\ Keeps(s, x2_z80_in(s, p).board)
      /\ Keeps(s, x3_z80_in(s, p).board) /\ Keeps(s, x5_z80_in(s, p).board)
      /\ Keeps(s, x7_z80_in(s, p).board) /\ Keeps(s, xp_z80_in(s, p).board)
      /\ Keeps(s, x6_z80_in(s, p).board)
    BY EarlyReads DEF x6_z80_in
<1>2. \A v : Keeps(s, Reads(s, v).board) BY PlainReads
<1>3. Keeps(s, x4_z80_in(s, p).board) BY x4_inKeeps
<1>4. /\ Keeps(s, xz_z80_in(s, p).board) /\ Keeps(s, xn_z80_in(s, p).board)
      /\ Keeps(s, xs_z80_in(s, p).board)
    BY <1>2, <1>3 DEF xz_z80_in, xn_z80_in, xs_z80_in
<1>5. Keeps(s, xc_z80_in(s, p).board) BY <1>2, <1>3, Zenon DEF xc_z80_in
<1>6. s.hw \in Models BY DEF Sound, IsBoard
<1> QED BY <1>1, <1>3, <1>4, <1>5, <1>6, ZenonT(60) DEF z80_in, Models

-----------------------------------------------------------------------------
LEMMA z80_ptimerKeeps ==
  \A s, id : Sound(s) => Keeps(s, z80_ptimer(s, id))
<1> SUFFICES ASSUME NEW s, NEW id, Sound(s) PROVE Keeps(s, z80_ptimer(s, id))
    OBVIOUS
<1>1. Keeps(s, s) /\ Keeps(s, raise_timer(s, "timer1")) BY KeepsSelf, RaiseKeeps
<1>2. s.hw \notin OneTimer => Keeps(s, raise_timer(s, "timer2")) BY RaiseKeeps
<1>3. /\ Keeps(s, x1_z80_ptimer(s, id)) /\ Keeps(s, x2_z80_ptimer(s, id))
      /\ Keeps(s, x5_z80_ptimer(s, id)) /\ Keeps(s, x6_z80_ptimer(s, id))
    BY <1>1 DEF x1_z80_ptimer, x2_z80_ptimer, x5_z80_ptimer, x6_z80_ptimer
<1>4. s.hw \notin OneTimer => /\ Keeps(s, x3_z80_ptimer(s, id)) /\ Keeps(s, x7_z80_ptimer(s, id))
                               /\ Keeps(s, xp_z80_ptimer(s, id))
    BY <1>1, <1>2, Zenon DEF x3_z80_ptimer, x7_z80_ptimer, xp_z80_ptimer
<1>5. s.hw \notin OneTimer => Keeps(s, x4_z80_ptimer(s, id))
  <2>1. Keeps(s, With([s EXCEPT !.lcd_wait = FALSE], "LCD_WAIT", 0)) BY LcdFreeKeeps
  <2> QED BY <1>1, <1>2, <2>1, Zenon DEF x4_z80_ptimer
<1>6. s.hw \notin OneTimer => /\ Keeps(s, xs_z80_ptimer(s, id)) /\ Keeps(s, xz_z80_ptimer(s, id))
                               /\ Keeps(s, xn_z80_ptimer(s, id))
    BY <1>5 DEF xs_z80_ptimer, xz_z80_ptimer, xn_z80_ptimer
<1>7. s.hw \notin OneTimer => Keeps(s, xc_z80_ptimer(s, id))
  <2> DEFINE t == [s EXCEPT !.hwregs.BACKLIGHT_ON = 0, !.hwregs.BACKLIGHT_LEVEL = 0,
                            !.lcd.contrast = 0, !.backlight = FALSE]
             same == BankRegisters \cup ClockRegisters \cup {"PORT3", "PROTECTSTATE", "LCD_WAIT"}
  <2>1. /\ IsBoard(t) /\ t.hw = s.hw /\ t.map = s.map /\ t.unlock = s.unlock
        /\ t.ints = s.ints /\ t.onkeyint = s.onkeyint /\ t.mode = s.mode
        /\ t.link = s.link /\ t.lcd_wait = s.lcd_wait /\ t.hwregs.BACKLIGHT_ON = 0
        /\ \A n \in RegisterNames \ {"BACKLIGHT_ON", "BACKLIGHT_LEVEL"} :
             t.hwregs[n] = s.hwregs[n]
    <3>1. "BACKLIGHT_ON" \in RegisterNames BY DEF RegisterNames
    <3> QED BY <3>1 DEF Sound, IsBoard, Fields
  <2> HIDE DEF t
  <2>2. same \subseteq RegisterNames \ {"BACKLIGHT_ON", "BACKLIGHT_LEVEL"}
      BY DEF RegisterNames, BankRegisters, ClockRegisters
  <2>3. \A n \in same : t.hwregs[n] = s.hwregs[n] BY <2>1, <2>2
  <2>4. Awaited(t) BY <2>1, <2>3 DEF Sound, Awaited
  <2>5. Keeps(s, t) BY <2>1, <2>3, <2>4, RegistersKeep
  <2> QED BY <1>5, <2>5 DEF xc_z80_ptimer, t
<1>8. s.hw \in Models BY DEF Sound, IsBoard
<1>9. s.hw \in {"x3", "x7", "xp", "x4", "xs", "xz", "xn", "xc"} => s.hw \notin OneTimer
    BY DEF OneTimer
<1> QED BY <1>3, <1>4, <1>5, <1>6, <1>7, <1>8, <1>9, ZenonT(60) DEF z80_ptimer, Models
-----------------------------------------------------------------------------
\* A model's own part of a reset, of a board without interrupts
Resets(s, t) ==
  /\ Sound(t) /\ t.hw = s.hw /\ t.unlock = s.unlock
  /\ t.hwregs.PROTECTSTATE \in {0, s.hwregs.PROTECTSTATE} /\ Clocks(t) = Clocks(s)

\* What a reset leaves of the ports and the delays that wait
Same(s, t, names) == \A n \in names : t.hwregs[n] = s.hwregs[n]

LEMMA ResetSound ==
  ASSUME NEW s, NEW t, Sound(s), s.ints = {}, IsBoard(t), t.hw = s.hw, t.unlock = s.unlock,
         t.ints = {}, t.mode = s.mode, t.link = s.link, Numbers(t), InChips(t), Awaited(t),
         t.hwregs.PROTECTSTATE \in {0, s.hwregs.PROTECTSTATE}, Clocks(t) = Clocks(s)
  PROVE  Resets(s, t)
<1>1. Pending(t) BY DEF Pending
<1>2. Linked(t) BY DEF Sound, Linked
<1> QED BY <1>1, <1>2 DEF Resets, Sound

LEMMA x1_resets ==
  ASSUME NEW s, Sound(s), s.ints = {}, s.hw = "x1"
  PROVE  Resets(s, x1_reset(s))
<1> DEFINE t == x1_reset(s)
<1>1. /\ IsBoard(t) /\ t.hw = s.hw /\ t.unlock = s.unlock /\ t.ints = {} /\ t.mode = s.mode
      /\ t.link = s.link /\ t.lcd_wait = s.lcd_wait /\ t.backlight = s.backlight
      /\ t.map = <<0, 1, 0, 2>>
      /\ t.hwregs = [s.hwregs EXCEPT !.PORT3 = \h08, !.PORT2 = 0, !.PORT5 = 0, !.PORT6 = 0]
    BY DEF Sound, x1_reset, IsBoard, Fields
<1>2. /\ t.hwregs.PORT2 = 0 /\ t.hwregs.PORT5 = 0 /\ t.hwregs.PORT6 = 0
      /\ Same(s, t, ClockRegisters \cup
              {"LCD_WAIT", "BACKLIGHT_ON", "PORT3A", "ROM_BANK", "HW_VERSION", "PORT4",
                     "PORT7", "PORTE", "PORTF", "PROTECTSTATE"})
    BY <1>1 DEF Sound, IsBoard, RegisterNames, Same, ClockRegisters
<1> HIDE DEF t
<1>3. Numbers(t) BY <1>2 DEF Sound, Numbers, Same, BankRegisters
<1>4. InChips(t) BY <1>1 DEF InChips, Pages, RomPages, RamPages
<1>5. Awaited(t) BY <1>1, <1>2 DEF Sound, Awaited, Same
<1> QED BY <1>1, <1>2, <1>3, <1>4, <1>5, ResetSound DEF t, Same, Clocks, ClockRegisters

\* What a reset of the later models leaves of a board
Restored(s, t) ==
  /\ IsBoard(t) /\ t.hw = s.hw /\ t.unlock = s.unlock /\ t.ints = {} /\ t.mode = s.mode
  /\ t.link = s.link /\ Numbers(t) /\ Awaited(t) /\ t.hwregs.PROTECTSTATE = 0
  /\ Clocks(t) = Clocks(s)

LEMMA RestoredResets ==
  ASSUME NEW s, NEW t, Sound(s), s.ints = {}, Restored(s, t), InChips(t)
  PROVE  Resets(s, t)
BY ResetSound DEF Restored

LEMMA x4_resets ==
  ASSUME NEW s, Sound(s), s.ints = {}
  PROVE  LET t == x4_reset(s)
         IN /\ Restored(s, t) /\ t.map = <<0, \h3E, \h3F, \h3F>> /\ t.lcd_wait = s.lcd_wait
            /\ t.backlight = s.backlight
<1> DEFINE t == x4_reset(s)
           set == {"PORT4", "PORT6", "PORT7", "PROTECTSTATE"}
           kept == ClockRegisters
                   \cup {"LCD_WAIT", "BACKLIGHT_ON", "PORT3A", "ROM_BANK", "HW_VERSION", "PORT2",
                    "PORT5", "PORTE", "PORTF"}
<1>1. /\ IsBoard(t) /\ t.hw = s.hw /\ t.unlock = s.unlock /\ t.ints = {} /\ t.mode = s.mode
      /\ t.link = s.link /\ t.lcd_wait = s.lcd_wait /\ t.backlight = s.backlight
      /\ t.map = <<0, \h3E, \h3F, \h3F>>
      /\ \A n \in RegisterNames :
           t.hwregs[n] = IF n \in DOMAIN X4Registers THEN X4Registers[n] ELSE s.hwregs[n]
    BY DEF Sound, x4_reset, IsBoard, Fields
<1> HIDE DEF t
<1>2. /\ set \subseteq DOMAIN X4Registers
      /\ X4Registers.PORT4 = 7 /\ X4Registers.PORT6 = \h3F /\ X4Registers.PORT7 = \h3F
      /\ X4Registers.PROTECTSTATE = 0
    BY DEF X4Registers
<1>3. kept \cap DOMAIN X4Registers = {} BY DEF X4Registers, ClockRegisters
<1>4. set \subseteq RegisterNames BY DEF RegisterNames
<1>5. kept \subseteq RegisterNames BY DEF RegisterNames, ClockRegisters
<1>6. /\ t.hwregs.PORT4 = 7 /\ t.hwregs.PORT6 = \h3F /\ t.hwregs.PORT7 = \h3F
      /\ t.hwregs.PROTECTSTATE = 0
    BY <1>1, <1>2, <1>4
<1>7. \A n \in kept : t.hwregs[n] = s.hwregs[n] BY <1>1, <1>3, <1>5
    DEF ClockRegisters
<1>8. Numbers(t) BY <1>6, <1>7 DEF Sound, Numbers, BankRegisters
<1>9. Awaited(t) BY <1>1, <1>7 DEF Sound, Awaited
<1> QED BY <1>1, <1>6, <1>7, <1>8, <1>9 DEF Restored, t, Clocks, ClockRegisters

LEMMA LargerResets ==
  ASSUME NEW s, Sound(s), s.ints = {}
  PROVE  LET t == Larger(x4_reset(s))
         IN /\ Restored(s, t) /\ t.map = <<0, \h7E, \h7F, \h7F>> /\ t.lcd_wait = s.lcd_wait
            /\ t.backlight = s.backlight
<1> DEFINE u == x4_reset(s)
           t == Larger(u)
           kept == ClockRegisters
                   \cup {"LCD_WAIT", "BACKLIGHT_ON", "PORT3A", "ROM_BANK", "HW_VERSION", "PORT2",
                    "PORT4", "PORT5", "PORTE", "PORTF", "PROTECTSTATE"}
<1>1. Restored(s, u) /\ u.lcd_wait = s.lcd_wait /\ u.backlight = s.backlight BY x4_resets
<1> HIDE DEF u
<1>2. {"PORT6", "PORT7", "PORT23"} \subseteq RegisterNames BY DEF RegisterNames
<1>3. /\ IsBoard(t) /\ t.hw = u.hw /\ t.unlock = u.unlock /\ t.ints = u.ints
      /\ t.mode = u.mode /\ t.link = u.link /\ t.lcd_wait = u.lcd_wait
      /\ t.backlight = u.backlight /\ t.map = <<0, \h7E, \h7F, \h7F>>
      /\ t.hwregs = [u.hwregs EXCEPT !.PORT6 = \h7F, !.PORT7 = \h7F, !.PORT23 = \h69]
    BY <1>1 DEF Restored, Larger, IsBoard, Fields
<1>4. DOMAIN u.hwregs = RegisterNames BY <1>1 DEF Restored, IsBoard
<1> HIDE DEF t
<1>5. kept \subseteq RegisterNames BY DEF RegisterNames, ClockRegisters
<1>6. t.hwregs.PORT6 = \h7F /\ t.hwregs.PORT7 = \h7F BY <1>2, <1>3, <1>4
<1>7. \A n \in kept : t.hwregs[n] = u.hwregs[n]
  <2>1. t.hwregs = [u.hwregs EXCEPT !.PORT6 = \h7F, !.PORT7 = \h7F, !.PORT23 = \h69] BY <1>3
  <2>2. \A n \in kept : n \in DOMAIN u.hwregs /\ n \notin {"PORT6", "PORT7", "PORT23"}
      BY <1>4, <1>5 DEF ClockRegisters
  <2> HIDE DEF kept
  <2> QED BY <2>1, <2>2
<1>8. Numbers(t) BY <1>1, <1>6, <1>7 DEF Restored, Numbers, BankRegisters
<1>9. Awaited(t) BY <1>1, <1>3, <1>7 DEF Restored, Awaited
<1> QED BY <1>1, <1>3, <1>7, <1>8, <1>9 DEF Restored, t, u, Clocks, ClockRegisters

LEMMA x2_resets ==
  ASSUME NEW s, Sound(s), s.ints = {}, s.hw = "x2"
  PROVE  Resets(s, x2_reset(s))
<1> DEFINE t == x2_reset(s)
           kept == ClockRegisters
                   \cup {"LCD_WAIT", "BACKLIGHT_ON", "PORT3A", "ROM_BANK", "HW_VERSION",
                    "PORT5", "PORT6", "PORT7", "PORTE", "PORTF", "PROTECTSTATE"}
<1>1. /\ IsBoard(t) /\ t.hw = s.hw /\ t.unlock = s.unlock /\ t.ints = {} /\ t.mode = s.mode
      /\ t.link = s.link /\ t.lcd_wait = s.lcd_wait /\ t.backlight = s.backlight
      /\ t.map = <<0, 0, 9, 8>>
      /\ t.hwregs = [s.hwregs EXCEPT !.PORT2 = \hF8, !.PORT3 = \h0B, !.PORT4 = 0]
    BY DEF Sound, x2_reset, IsBoard, Fields
<1> HIDE DEF t
<1>2. kept \subseteq RegisterNames BY DEF RegisterNames, ClockRegisters
<1>3. {"PORT2", "PORT3", "PORT4"} \subseteq RegisterNames BY DEF RegisterNames
<1>4. DOMAIN s.hwregs = RegisterNames BY DEF Sound, IsBoard
<1>5. t.hwregs.PORT2 = \hF8 /\ t.hwregs.PORT4 = 0
  <2>1. "PORT2" \in RegisterNames BY DEF RegisterNames
  <2>2. "PORT4" \in RegisterNames BY DEF RegisterNames
  <2>3. t.hwregs.PORT2 = \hF8 BY <1>1, <1>4, <2>1
  <2>4. t.hwregs.PORT4 = 0 BY <1>1, <1>4, <2>2
  <2> QED BY <2>3, <2>4
<1>6. \A n \in kept : t.hwregs[n] = s.hwregs[n]
  <2> DEFINE set == {"PORT2", "PORT3", "PORT4"}
  <2>1. \A n \in RegisterNames \ set : t.hwregs[n] = s.hwregs[n] BY <1>1, <1>4
  <2>2. kept \cap set = {} BY DEF ClockRegisters
  <2> HIDE DEF kept, set
  <2> QED BY <1>2, <2>1, <2>2
<1>7. Numbers(t) BY <1>5, <1>6 DEF Sound, Numbers, BankRegisters
<1>8. InChips(t) BY <1>1 DEF InChips, Pages, RomPages, RamPages
<1>9. Awaited(t) BY <1>1, <1>6 DEF Sound, Awaited
<1> QED BY <1>1, <1>6, <1>7, <1>8, <1>9, ResetSound DEF t, Clocks, ClockRegisters

LEMMA x3_resets ==
  ASSUME NEW s, Sound(s), s.ints = {}, s.hw = "x3"
  PROVE  Resets(s, x3_reset(s))
<1> DEFINE t == x3_reset(s)
           kept == ClockRegisters
                   \cup {"LCD_WAIT", "BACKLIGHT_ON", "PORT3A", "HW_VERSION", "PORT5", "PORT6",
                    "PORT7", "PORTE", "PORTF", "PROTECTSTATE"}
<1>1. /\ IsBoard(t) /\ t.hw = s.hw /\ t.unlock = s.unlock /\ t.ints = {} /\ t.mode = s.mode
      /\ t.link = s.link /\ t.lcd_wait = s.lcd_wait /\ t.backlight = s.backlight
      /\ t.map = <<0, 0, \h11, \h10>>
      /\ t.hwregs = [s.hwregs EXCEPT !.PORT2 = \hF8, !.PORT3 = \h0B, !.PORT4 = 0, !.ROM_BANK = 0]
    BY DEF Sound, x3_reset, IsBoard, Fields
<1> HIDE DEF t
<1>2. kept \subseteq RegisterNames BY DEF RegisterNames, ClockRegisters
<1>3. {"PORT2", "PORT3", "PORT4", "ROM_BANK"} \subseteq RegisterNames BY DEF RegisterNames
<1>4. DOMAIN s.hwregs = RegisterNames BY DEF Sound, IsBoard
<1>5. t.hwregs.PORT2 = \hF8 /\ t.hwregs.PORT4 = 0 /\ t.hwregs.ROM_BANK = 0
  <2>1. "PORT2" \in RegisterNames BY DEF RegisterNames
  <2>2. "PORT4" \in RegisterNames BY DEF RegisterNames
  <2>3. "ROM_BANK" \in RegisterNames BY DEF RegisterNames
  <2>4. t.hwregs.PORT2 = \hF8 BY <1>1, <1>4, <2>1
  <2>5. t.hwregs.PORT4 = 0 BY <1>1, <1>4, <2>2
  <2>6. t.hwregs.ROM_BANK = 0 BY <1>1, <1>4, <2>3
  <2> QED BY <2>4, <2>5, <2>6
<1>6. \A n \in kept : t.hwregs[n] = s.hwregs[n]
  <2> DEFINE set == {"PORT2", "PORT3", "PORT4", "ROM_BANK"}
  <2>1. \A n \in RegisterNames \ set : t.hwregs[n] = s.hwregs[n] BY <1>1, <1>4
  <2>2. kept \cap set = {} BY DEF ClockRegisters
  <2> HIDE DEF kept, set
  <2> QED BY <1>2, <2>1, <2>2
<1>7. Numbers(t) BY <1>5, <1>6 DEF Sound, Numbers, BankRegisters
<1>8. InChips(t) BY <1>1 DEF InChips, Pages, RomPages, RamPages
<1>9. Awaited(t) BY <1>1, <1>6 DEF Sound, Awaited
<1> QED BY <1>1, <1>6, <1>7, <1>8, <1>9, ResetSound DEF t, Clocks, ClockRegisters

LEMMA x5_resets ==
  ASSUME NEW s, Sound(s), s.ints = {}, s.hw = "x5"
  PROVE  Resets(s, x5_reset(s))
<1> DEFINE t == x5_reset(s)
           kept == ClockRegisters
                   \cup {"LCD_WAIT", "BACKLIGHT_ON", "PORT3A", "ROM_BANK", "HW_VERSION",
                    "PORT2", "PORT7", "PORTE", "PORTF", "PROTECTSTATE"}
<1>1. /\ IsBoard(t) /\ t.hw = s.hw /\ t.unlock = s.unlock /\ t.ints = {} /\ t.mode = s.mode
      /\ t.link = s.link /\ t.lcd_wait = s.lcd_wait /\ t.backlight = s.backlight
      /\ t.map = <<0, 0, 8, 8>>
      /\ t.hwregs = [s.hwregs EXCEPT !.PORT3 = \h0B, !.PORT4 = \h16, !.PORT5 = 0, !.PORT6 = \h40]
    BY DEF Sound, x5_reset, IsBoard, Fields
<1> HIDE DEF t
<1>2. kept \subseteq RegisterNames BY DEF RegisterNames, ClockRegisters
<1>3. {"PORT3", "PORT4", "PORT5", "PORT6"} \subseteq RegisterNames BY DEF RegisterNames
<1>4. DOMAIN s.hwregs = RegisterNames BY DEF Sound, IsBoard
<1>5. t.hwregs.PORT4 = \h16 /\ t.hwregs.PORT5 = 0 /\ t.hwregs.PORT6 = \h40 BY <1>1, <1>3, <1>4
<1>6. \A n \in kept : t.hwregs[n] = s.hwregs[n] BY <1>1, <1>2, <1>4
    DEF ClockRegisters
<1>7. Numbers(t) BY <1>5, <1>6 DEF Sound, Numbers, BankRegisters
<1>8. InChips(t) BY <1>1 DEF InChips, Pages, RomPages, RamPages
<1>9. Awaited(t) BY <1>1, <1>6 DEF Sound, Awaited
<1> QED BY <1>1, <1>6, <1>7, <1>8, <1>9, ResetSound DEF t, Clocks, ClockRegisters

LEMMA x6_resets ==
  ASSUME NEW s, Sound(s), s.ints = {}, s.hw = "x6"
  PROVE  Resets(s, x6_reset(s))
<1> DEFINE t == x6_reset(s)
           kept == ClockRegisters
                   \cup {"LCD_WAIT", "BACKLIGHT_ON", "PORT3A", "ROM_BANK", "HW_VERSION",
                    "PORT2", "PORT7", "PORTE", "PORTF", "PROTECTSTATE"}
<1>1. /\ IsBoard(t) /\ t.hw = s.hw /\ t.unlock = s.unlock /\ t.ints = {} /\ t.mode = s.mode
      /\ t.link = s.link /\ t.lcd_wait = s.lcd_wait /\ t.backlight = s.backlight
      /\ t.map = <<0, 0, 0, \h10>>
      /\ t.hwregs = [s.hwregs EXCEPT !.PORT3 = \h0B, !.PORT4 = \h56, !.PORT5 = 0, !.PORT6 = 0]
    BY DEF Sound, x6_reset, IsBoard, Fields
<1> HIDE DEF t
<1>2. kept \subseteq RegisterNames BY DEF RegisterNames, ClockRegisters
<1>3. {"PORT3", "PORT4", "PORT5", "PORT6"} \subseteq RegisterNames BY DEF RegisterNames
<1>4. DOMAIN s.hwregs = RegisterNames BY DEF Sound, IsBoard
<1>5. t.hwregs.PORT4 = \h56 /\ t.hwregs.PORT5 = 0 /\ t.hwregs.PORT6 = 0 BY <1>1, <1>3, <1>4
<1>6. \A n \in kept : t.hwregs[n] = s.hwregs[n] BY <1>1, <1>2, <1>4
    DEF ClockRegisters
<1>7. Numbers(t) BY <1>5, <1>6 DEF Sound, Numbers, BankRegisters
<1>8. InChips(t) BY <1>1 DEF InChips, Pages, RomPages, RamPages
<1>9. Awaited(t) BY <1>1, <1>6 DEF Sound, Awaited
<1> QED BY <1>1, <1>6, <1>7, <1>8, <1>9, ResetSound DEF t, Clocks, ClockRegisters

LEMMA PlusResets ==
  ASSUME NEW s, Sound(s), s.ints = {}
  PROVE  LET t == PlusReset(s)
         IN /\ Restored(s, t) /\ t.map = <<0, \h1E, \h1F, \h1F>> /\ t.lcd_wait = s.lcd_wait
            /\ t.backlight = s.backlight
<1> DEFINE t == PlusReset(s)
           kept == ClockRegisters
                   \cup {"LCD_WAIT", "BACKLIGHT_ON", "PORT3A", "ROM_BANK", "HW_VERSION",
                    "PORT2", "PORT5", "PORTE", "PORTF"}
<1>1. /\ IsBoard(t) /\ t.hw = s.hw /\ t.unlock = s.unlock /\ t.ints = {} /\ t.mode = s.mode
      /\ t.link = s.link /\ t.lcd_wait = s.lcd_wait /\ t.backlight = s.backlight
      /\ t.map = <<0, \h1E, \h1F, \h1F>>
      /\ t.hwregs = [s.hwregs EXCEPT !.PORT3 = \h0B, !.PORT4 = \h77, !.PORT6 = \h1F, !.PORT7 = \h1F, !.PROTECTSTATE = 0]
    BY DEF Sound, PlusReset, IsBoard, Fields
<1> HIDE DEF t
<1>2. kept \subseteq RegisterNames BY DEF RegisterNames, ClockRegisters
<1>3. {"PORT3", "PORT4", "PORT6", "PORT7", "PROTECTSTATE"} \subseteq RegisterNames
    BY DEF RegisterNames
<1>4. DOMAIN s.hwregs = RegisterNames BY DEF Sound, IsBoard
<1>5. t.hwregs.PORT4 = \h77 /\ t.hwregs.PORT6 = \h1F /\ t.hwregs.PORT7 = \h1F /\ t.hwregs.PROTECTSTATE = 0
    BY <1>1, <1>3, <1>4
<1>6. \A n \in kept : t.hwregs[n] = s.hwregs[n] BY <1>1, <1>2, <1>4
    DEF ClockRegisters
<1>7. Numbers(t) BY <1>5, <1>6 DEF Sound, Numbers, BankRegisters
<1>8. Awaited(t) BY <1>1, <1>6 DEF Sound, Awaited
<1> QED BY <1>1, <1>5, <1>6, <1>7, <1>8 DEF Restored, t, Clocks, ClockRegisters

LEMMA x7_resets ==
  ASSUME NEW s, Sound(s), s.ints = {}, s.hw = "x7"
  PROVE  Resets(s, x7_reset(s))
<1> DEFINE u == PlusReset(s)
           t == With(u, "NOEXEC", 0)
<1>1. Restored(s, u) /\ u.map = <<0, \h1E, \h1F, \h1F>> BY PlusResets
<1> HIDE DEF u
<1>2. InChips(u) BY <1>1 DEF Restored, InChips, Pages, RomPages, RamPages
<1>3. Sound(u) BY <1>1, <1>2, RestoredResets DEF Resets
<1>4. "NOEXEC" \in RegisterNames \ Held /\ "NOEXEC" \notin BankRegisters
    BY DEF RegisterNames, Held, ClockRegisters, BankRegisters
<1>5. Keeps(u, t) BY <1>3, <1>4, WithKeeps
<1>6. Resets(s, t) BY <1>1, <1>5 DEF Restored, Keeps, Resets
<1> QED BY <1>6 DEF x7_reset, u

LEMMA xp_resets ==
  ASSUME NEW s, Sound(s), s.ints = {}, s.hw = "xp"
  PROVE  Resets(s, xp_reset(s))
<1> DEFINE u == PlusReset(s)
           t == [u EXCEPT !.hwregs = [@ EXCEPT !.PORT5 = 0, !.NOEXEC1 = 0, !.NOEXEC2 = 0,
                                               !.NOEXEC3 = 0, !.NOEXEC4 = 0]]
           kept == ClockRegisters
                   \cup {"LCD_WAIT", "BACKLIGHT_ON", "PORT3A", "ROM_BANK", "HW_VERSION",
                    "PORT2", "PORT4", "PORT6", "PORT7", "PORTE", "PORTF", "PROTECTSTATE"}
<1>1. /\ Restored(s, u) /\ u.map = <<0, \h1E, \h1F, \h1F>> /\ u.lcd_wait = s.lcd_wait
      /\ u.backlight = s.backlight
    BY PlusResets
<1> HIDE DEF u
<1>2. /\ IsBoard(t) /\ t.hw = u.hw /\ t.unlock = u.unlock /\ t.ints = u.ints
      /\ t.mode = u.mode /\ t.link = u.link /\ t.map = u.map /\ t.lcd_wait = u.lcd_wait
      /\ t.backlight = u.backlight
      /\ t.hwregs = [u.hwregs EXCEPT !.PORT5 = 0, !.NOEXEC1 = 0, !.NOEXEC2 = 0,
                                     !.NOEXEC3 = 0, !.NOEXEC4 = 0]
    BY <1>1 DEF Restored, IsBoard, Fields
<1> HIDE DEF t
<1>3. kept \subseteq RegisterNames BY DEF RegisterNames, ClockRegisters
<1>4. {"PORT5", "NOEXEC1", "NOEXEC2", "NOEXEC3", "NOEXEC4"} \subseteq RegisterNames
    BY DEF RegisterNames
<1>5. DOMAIN u.hwregs = RegisterNames BY <1>1 DEF Restored, IsBoard
<1>6. t.hwregs.PORT5 = 0 BY <1>2, <1>4, <1>5
<1>7. \A n \in kept : t.hwregs[n] = u.hwregs[n] BY <1>2, <1>3, <1>5
    DEF ClockRegisters
<1>8. Numbers(t) BY <1>1, <1>6, <1>7 DEF Restored, Numbers, BankRegisters
<1>9. Awaited(t) BY <1>1, <1>2, <1>7 DEF Restored, Awaited
<1>10. Restored(s, t) BY <1>1, <1>2, <1>7, <1>8, <1>9 DEF Restored, Clocks, ClockRegisters
<1>11. InChips(t) BY <1>1, <1>2 DEF Restored, InChips, Pages, RomPages, RamPages
<1>12. Resets(s, t) BY <1>10, <1>11, RestoredResets
<1>13. Keeps(t, linkport_set_mode(t, {"no_timeout"})) BY <1>12, SetModeKeeps DEF Resets
<1>14. xp_reset(s) = linkport_set_mode(t, {"no_timeout"}) BY DEF xp_reset, t, u
<1> QED BY <1>12, <1>13, <1>14 DEF Keeps, Resets

LEMMA x4_resets_it ==
  ASSUME NEW s, Sound(s), s.ints = {}, s.hw = "x4"
  PROVE  Resets(s, x4_reset(s))
<1> DEFINE t == x4_reset(s)
<1>1. Restored(s, t) /\ t.map = <<0, \h3E, \h3F, \h3F>> BY x4_resets
<1> HIDE DEF t
<1>2. InChips(t) BY <1>1 DEF Restored, InChips, Pages, RomPages, RamPages
<1> QED BY <1>1, <1>2, RestoredResets DEF t

LEMMA xs_resets ==
  ASSUME NEW s, Sound(s), s.ints = {}, s.hw = "xs"
  PROVE  Resets(s, xs_reset(s))
<1> DEFINE u == Larger(x4_reset(s))
           t == [u EXCEPT !.hwregs.PORT21 = 1, !.hwregs.PORT4 = \h77, !.override = 1]
           kept == ClockRegisters
                   \cup {"LCD_WAIT", "BACKLIGHT_ON", "PORT3A", "ROM_BANK", "HW_VERSION",
                    "PORT2", "PORT5", "PORT6", "PORT7", "PORTE", "PORTF", "PROTECTSTATE"}
<1>1. /\ Restored(s, u) /\ u.map = <<0, \h7E, \h7F, \h7F>> /\ u.lcd_wait = s.lcd_wait
      /\ u.backlight = s.backlight
    BY LargerResets
<1> HIDE DEF u
<1>2. /\ IsBoard(t) /\ t.hw = u.hw /\ t.unlock = u.unlock /\ t.ints = u.ints
      /\ t.mode = u.mode /\ t.link = u.link /\ t.map = u.map /\ t.lcd_wait = u.lcd_wait
      /\ t.backlight = u.backlight
      /\ t.hwregs = [u.hwregs EXCEPT !.PORT21 = 1, !.PORT4 = \h77]
    BY <1>1 DEF Restored, IsBoard, Fields
<1> HIDE DEF t
<1>3. kept \subseteq RegisterNames BY DEF RegisterNames, ClockRegisters
<1>4. {"PORT21", "PORT4"} \subseteq RegisterNames BY DEF RegisterNames
<1>5. DOMAIN u.hwregs = RegisterNames BY <1>1 DEF Restored, IsBoard
<1>6. t.hwregs.PORT4 = \h77 BY <1>2, <1>4, <1>5
<1>7. \A n \in kept : t.hwregs[n] = u.hwregs[n] BY <1>2, <1>3, <1>5
    DEF ClockRegisters
<1>8. Numbers(t) BY <1>1, <1>6, <1>7 DEF Restored, Numbers, BankRegisters
<1>9. Awaited(t) BY <1>1, <1>2, <1>6, <1>7 DEF Restored, Awaited
<1>10. Restored(s, t)
    BY <1>1, <1>2, <1>6, <1>7, <1>8, <1>9 DEF Restored, Clocks, ClockRegisters
<1>11. InChips(t) BY <1>1, <1>2 DEF Restored, InChips, Pages, RomPages, RamPages
<1> QED BY <1>10, <1>11, RestoredResets DEF xs_reset, t, u

LEMMA xz_resets ==
  ASSUME NEW s, Sound(s), s.ints = {}, s.hw = "xz"
  PROVE  Resets(s, xz_reset(s))
<1> DEFINE u == Larger(x4_reset(s))
           t == [u EXCEPT !.hwregs.PORT21 = 1, !.override = 1]
           kept == ClockRegisters
                   \cup {"LCD_WAIT", "BACKLIGHT_ON", "PORT3A", "ROM_BANK", "HW_VERSION",
                    "PORT2", "PORT4", "PORT5", "PORT6", "PORT7", "PORTE", "PORTF",
                    "PROTECTSTATE"}
<1>1. /\ Restored(s, u) /\ u.map = <<0, \h7E, \h7F, \h7F>> /\ u.lcd_wait = s.lcd_wait
      /\ u.backlight = s.backlight
    BY LargerResets
<1> HIDE DEF u
<1>2. /\ IsBoard(t) /\ t.hw = u.hw /\ t.unlock = u.unlock /\ t.ints = u.ints
      /\ t.mode = u.mode /\ t.link = u.link /\ t.map = u.map /\ t.lcd_wait = u.lcd_wait
      /\ t.backlight = u.backlight
      /\ t.hwregs = [u.hwregs EXCEPT !.PORT21 = 1]
    BY <1>1 DEF Restored, IsBoard, Fields
<1> HIDE DEF t
<1>3. kept \subseteq RegisterNames BY DEF RegisterNames, ClockRegisters
<1>4. {"PORT21"} \subseteq RegisterNames BY DEF RegisterNames
<1>5. DOMAIN u.hwregs = RegisterNames BY <1>1 DEF Restored, IsBoard
<1>6. t.hwregs.PORT21 = 1 BY <1>2, <1>4, <1>5
<1>7. \A n \in kept : t.hwregs[n] = u.hwregs[n] BY <1>2, <1>3, <1>5
    DEF ClockRegisters
<1>8. Numbers(t) BY <1>1, <1>6, <1>7 DEF Restored, Numbers, BankRegisters
<1>9. Awaited(t) BY <1>1, <1>2, <1>6, <1>7 DEF Restored, Awaited
<1>10. Restored(s, t)
    BY <1>1, <1>2, <1>6, <1>7, <1>8, <1>9 DEF Restored, Clocks, ClockRegisters
<1>11. InChips(t) BY <1>1, <1>2 DEF Restored, InChips, Pages, RomPages, RamPages
<1> QED BY <1>10, <1>11, RestoredResets DEF xz_reset, t, u

LEMMA xn_resets ==
  ASSUME NEW s, Sound(s), s.ints = {}, s.hw = "xn"
  PROVE  Resets(s, xn_reset(s))
<1> DEFINE u == Larger(x4_reset(s))
           t == [u EXCEPT !.hwregs = [@ EXCEPT !.NO_EXEC_RAM = \h5555,
                   !.NO_EXEC_RAM_MASK = s.hwregs.NO_EXEC_RAM_MASK,
                   !.NO_EXEC_RAM_LOWER = s.hwregs.NO_EXEC_RAM_LOWER,
                   !.NO_EXEC_RAM_UPPER = s.hwregs.NO_EXEC_RAM_UPPER]]
           kept == ClockRegisters
                   \cup {"LCD_WAIT", "BACKLIGHT_ON", "PORT3A", "ROM_BANK", "HW_VERSION",
                    "PORT2", "PORT4", "PORT5", "PORT6", "PORT7", "PORTE", "PORTF",
                    "PROTECTSTATE"}
<1>1. /\ Restored(s, u) /\ u.map = <<0, \h7E, \h7F, \h7F>> /\ u.lcd_wait = s.lcd_wait
      /\ u.backlight = s.backlight
    BY LargerResets
<1> HIDE DEF u
<1>2. /\ IsBoard(t) /\ t.hw = u.hw /\ t.unlock = u.unlock /\ t.ints = u.ints
      /\ t.mode = u.mode /\ t.link = u.link /\ t.map = u.map /\ t.lcd_wait = u.lcd_wait
      /\ t.backlight = u.backlight
      /\ t.hwregs = [u.hwregs EXCEPT !.NO_EXEC_RAM = \h5555,
                   !.NO_EXEC_RAM_MASK = s.hwregs.NO_EXEC_RAM_MASK,
                   !.NO_EXEC_RAM_LOWER = s.hwregs.NO_EXEC_RAM_LOWER,
                   !.NO_EXEC_RAM_UPPER = s.hwregs.NO_EXEC_RAM_UPPER]
    BY <1>1 DEF Restored, IsBoard, Fields
<1> HIDE DEF t
<1>3. kept \subseteq RegisterNames BY DEF RegisterNames, ClockRegisters
<1>4. {"NO_EXEC_RAM", "NO_EXEC_RAM_MASK", "NO_EXEC_RAM_LOWER", "NO_EXEC_RAM_UPPER"} \subseteq RegisterNames
    BY DEF RegisterNames
<1>5. DOMAIN u.hwregs = RegisterNames BY <1>1 DEF Restored, IsBoard
<1>6. t.hwregs.NO_EXEC_RAM = \h5555
  <2>1. "NO_EXEC_RAM" \in RegisterNames BY DEF RegisterNames
  <2>2. t.hwregs.NO_EXEC_RAM = \h5555 BY <1>2, <1>5, <2>1
  <2> QED BY <2>2
<1>7. \A n \in kept : t.hwregs[n] = u.hwregs[n]
  <2> DEFINE set == {"NO_EXEC_RAM", "NO_EXEC_RAM_MASK", "NO_EXEC_RAM_LOWER", "NO_EXEC_RAM_UPPER"}
  <2>1. \A n \in RegisterNames \ set : t.hwregs[n] = u.hwregs[n]
    <3>1. \A f, a, b, c, d :
            LET g == [f EXCEPT !.NO_EXEC_RAM = a, !.NO_EXEC_RAM_MASK = b,
                               !.NO_EXEC_RAM_LOWER = c, !.NO_EXEC_RAM_UPPER = d]
            IN \A n \in DOMAIN f \ set : g[n] = f[n]
        OBVIOUS
    <3> DEFINE f == u.hwregs
               g == t.hwregs
               a == s.hwregs.NO_EXEC_RAM_MASK
               b == s.hwregs.NO_EXEC_RAM_LOWER
               c == s.hwregs.NO_EXEC_RAM_UPPER
               d == \h5555
    <3> HIDE DEF set, a, b, c, d, f, g
    <3>2. g = [f EXCEPT !.NO_EXEC_RAM = d, !.NO_EXEC_RAM_MASK = a,
                        !.NO_EXEC_RAM_LOWER = b, !.NO_EXEC_RAM_UPPER = c]
        BY <1>2 DEF a, b, c, d, f, g
    <3>3. \A n \in DOMAIN f \ set : g[n] = f[n] BY <3>1, <3>2, Zenon
    <3> QED BY <1>5, <3>3 DEF f, g
  <2>2. kept \cap set = {} BY DEF ClockRegisters
  <2> HIDE DEF kept, set
  <2> QED BY <1>3, <2>1, <2>2
<1>8. Numbers(t) BY <1>1, <1>6, <1>7 DEF Restored, Numbers, BankRegisters
<1>9. Awaited(t) BY <1>1, <1>2, <1>6, <1>7 DEF Restored, Awaited
<1>10. Restored(s, t)
    BY <1>1, <1>2, <1>6, <1>7, <1>8, <1>9 DEF Restored, Clocks, ClockRegisters
<1>11. InChips(t) BY <1>1, <1>2 DEF Restored, InChips, Pages, RomPages, RamPages
<1> QED BY <1>10, <1>11, RestoredResets DEF xn_reset, t, u

LEMMA xc_resets ==
  ASSUME NEW s, Sound(s), s.ints = {}, s.hw = "xc"
  PROVE  Resets(s, xc_reset(s))
<1> DEFINE u == Larger(x4_reset(s))
           t == [u EXCEPT !.hwregs = [@ EXCEPT !.PORT21 = 1, !.PORTE = 1, !.PORTF = 1, !.PORT39 = \hF0,
          !.PORT3A = 0, !.BACKLIGHT_ON = 0, !.BACKLIGHT_LEVEL = 0],
          !.map = <<0, \hFE, \hFF, \hFF>>, !.override = 1]
           kept == ClockRegisters
                   \cup {"LCD_WAIT", "ROM_BANK", "HW_VERSION", "PORT2", "PORT4", "PORT5",
                    "PORT6", "PORT7", "PROTECTSTATE"}
<1>1. /\ Restored(s, u) /\ u.map = <<0, \h7E, \h7F, \h7F>> /\ u.lcd_wait = s.lcd_wait
      /\ u.backlight = s.backlight
    BY LargerResets
<1> HIDE DEF u
<1>2. /\ IsBoard(t) /\ t.hw = u.hw /\ t.unlock = u.unlock /\ t.ints = u.ints
      /\ t.mode = u.mode /\ t.link = u.link /\ t.map = <<0, \hFE, \hFF, \hFF>> /\ t.lcd_wait = u.lcd_wait
      /\ t.backlight = u.backlight
      /\ t.hwregs = [u.hwregs EXCEPT !.PORT21 = 1, !.PORTE = 1, !.PORTF = 1, !.PORT39 = \hF0,
          !.PORT3A = 0, !.BACKLIGHT_ON = 0, !.BACKLIGHT_LEVEL = 0]
    BY <1>1 DEF Restored, IsBoard, Fields
<1> HIDE DEF t
<1>3. kept \subseteq RegisterNames BY DEF RegisterNames, ClockRegisters
<1>4. {"PORT21", "PORTE", "PORTF", "PORT39", "PORT3A", "BACKLIGHT_ON", "BACKLIGHT_LEVEL"} \subseteq RegisterNames
    BY DEF RegisterNames
<1>5. DOMAIN u.hwregs = RegisterNames BY <1>1 DEF Restored, IsBoard
<1>6. t.hwregs.PORTE = 1 /\ t.hwregs.PORTF = 1 /\ t.hwregs.BACKLIGHT_ON = 0
  <2>1. "PORTE" \in RegisterNames BY DEF RegisterNames
  <2>2. "PORTF" \in RegisterNames BY DEF RegisterNames
  <2>3. "BACKLIGHT_ON" \in RegisterNames BY DEF RegisterNames
  <2>4. t.hwregs.PORTE = 1 BY <1>2, <1>5, <2>1
  <2>5. t.hwregs.PORTF = 1 BY <1>2, <1>5, <2>2
  <2>6. t.hwregs.BACKLIGHT_ON = 0 BY <1>2, <1>5, <2>3
  <2> QED BY <2>4, <2>5, <2>6
<1>7. \A n \in kept : t.hwregs[n] = u.hwregs[n]
  <2> DEFINE set == {"PORT21", "PORTE", "PORTF", "PORT39", "PORT3A", "BACKLIGHT_ON", "BACKLIGHT_LEVEL"}
  <2>1. \A n \in RegisterNames \ set : t.hwregs[n] = u.hwregs[n] BY <1>2, <1>5
  <2>2. kept \cap set = {} BY DEF ClockRegisters
  <2> HIDE DEF kept, set
  <2> QED BY <1>3, <2>1, <2>2
<1>8. Numbers(t) BY <1>1, <1>6, <1>7 DEF Restored, Numbers, BankRegisters
<1>9. Awaited(t) BY <1>1, <1>2, <1>6, <1>7 DEF Restored, Awaited
<1>10. Restored(s, t)
    BY <1>1, <1>2, <1>6, <1>7, <1>8, <1>9 DEF Restored, Clocks, ClockRegisters
<1>11. InChips(t) BY <1>1, <1>2 DEF Restored, InChips, Pages, RomPages, RamPages
<1> QED BY <1>10, <1>11, RestoredResets DEF xc_reset, t, u

LEMMA hw_resets ==
  ASSUME NEW s, Sound(s), s.ints = {}
  PROVE  Resets(s, hw_reset(s))
<1>1. s.hw \in Models BY DEF Sound, IsBoard
<1> QED BY <1>1, x1_resets, x2_resets, x3_resets, x5_resets, x6_resets, x7_resets, xp_resets,
           x4_resets_it, xs_resets, xz_resets, xn_resets, xc_resets, Zenon DEF hw_reset, Models

LEMMA CalcResets ==
  ASSUME NEW s, Sound(s)
  PROVE  LET t == tilem_calc_reset(s)
         IN /\ Sound(t) /\ t.hw = s.hw /\ t.unlock = FALSE
            /\ t.hwregs.PROTECTSTATE \in {0, s.hwregs.PROTECTSTATE} /\ Clocks(t) = Clocks(s)
<1> DEFINE u == [s EXCEPT !.ints = {}, !.lcd = Screen(s.hw), !.mode = {},
                  !.link = {"link_idle"}, !.onkeydown = FALSE, !.onkeyint = FALSE,
                  !.unlock = FALSE, !.nohalt = FALSE]
<1>1. /\ IsBoard(u) /\ u.hw = s.hw /\ u.unlock = FALSE /\ u.hwregs = s.hwregs
      /\ u.map = s.map /\ u.ints = {} /\ u.mode = {} /\ u.lcd_wait = s.lcd_wait
      /\ u.backlight = s.backlight
    BY DEF Sound, IsBoard, Fields
<1>2. tilem_calc_reset(s) = hw_reset(u) BY DEF tilem_calc_reset
<1> HIDE DEF u
<1>3. Numbers(u) BY <1>1 DEF Sound, Numbers
<1>4. InChips(u) BY <1>1 DEF Sound, InChips
<1>5. Pending(u) BY <1>1 DEF Pending
<1>6. Linked(u) BY <1>1 DEF Linked
<1>7. Awaited(u) BY <1>1 DEF Sound, Awaited
<1>8. Resets(u, hw_reset(u)) BY <1>1, <1>3, <1>4, <1>5, <1>6, <1>7, hw_resets DEF Sound
<1> QED BY <1>1, <1>2, <1>8 DEF Resets, Clocks

LEMMA NewIsSound ==
  ASSUME NEW hw \in Models
  PROVE  LET t == NewBoard(hw)
         IN /\ Sound(t) /\ t.hw = hw /\ t.unlock = FALSE /\ t.hwregs.PROTECTSTATE = 0
            /\ Clocks(t) = <<0, 0, 0>>
<1> DEFINE u == [hw |-> hw, hwregs |-> [n \in RegisterNames |-> 0], map |-> <<0, 0, 0, 0>>,
                 ints |-> {}, onkeydown |-> FALSE, onkeyint |-> FALSE, poweronhalt |-> TRUE,
                 lcd |-> Screen(hw), mode |-> {}, link |-> {"link_idle"}, nohalt |-> FALSE,
                 unlock |-> FALSE, override |-> 0, speed |-> 0, int_period |-> 0,
                 lcd_wait |-> FALSE, backlight |-> FALSE, pclow |-> FALSE, exception |-> {}]
<1>1. NewBoard(hw) = tilem_calc_reset(u) BY DEF NewBoard
<1>2. /\ IsBoard(u) /\ u.hw = hw /\ u.ints = {} /\ u.mode = {} /\ u.map = <<0, 0, 0, 0>>
      /\ u.hwregs = [n \in RegisterNames |-> 0]
    BY DEF IsBoard, Fields
<1> HIDE DEF u
<1>3. {"HW_VERSION", "ROM_BANK", "PORT2", "PORT4", "PORT5", "PORT6", "PORT7", "PORTE", "PORTF",
       "LCD_WAIT", "BACKLIGHT_ON", "PROTECTSTATE"} \cup ClockRegisters \subseteq RegisterNames
    BY DEF RegisterNames, ClockRegisters
<1>4. Numbers(u) BY <1>2, <1>3 DEF Numbers, BankRegisters
<1>5. InChips(u)
  <2>1. 0 \in Pages(hw) BY DEF Pages, RomPages, RamPages, Models
  <2> QED BY <1>2, <2>1 DEF InChips
<1>6. Pending(u) /\ Linked(u) BY <1>2 DEF Pending, Linked
<1>7. Awaited(u) BY <1>2, <1>3 DEF Awaited
<1>8. u.hwregs.PROTECTSTATE = 0 /\ Clocks(u) = <<0, 0, 0>>
    BY <1>2, <1>3 DEF Clocks, ClockRegisters
<1>9. Sound(u) BY <1>2, <1>4, <1>5, <1>6, <1>7 DEF Sound
<1> QED BY <1>1, <1>2, <1>8, <1>9, CalcResets

-----------------------------------------------------------------------------
\* Reading memory: the state that follows the sequence, and nothing else
ReadsAs(s, t, n) ==
  /\ Sound(t) /\ t.hw = s.hw /\ t.unlock = s.unlock /\ t.hwregs.PROTECTSTATE = n
  /\ Clocks(t) = Clocks(s)

LEMMA ProtectReads ==
  ASSUME NEW s, NEW v, Sound(s)
  PROVE  ReadsAs(s, With(s, "PROTECTSTATE", v), v)
<1> DEFINE t == With(s, "PROTECTSTATE", v)
           kept == BankRegisters \cup ClockRegisters
                     \cup {"PORT3", "LCD_WAIT", "BACKLIGHT_ON", "PORT3A"}
<1>0. "PROTECTSTATE" \in RegisterNames BY DEF RegisterNames
<1>1. /\ IsBoard(t) /\ t.hw = s.hw /\ t.map = s.map /\ t.unlock = s.unlock
      /\ t.ints = s.ints /\ t.onkeyint = s.onkeyint /\ t.mode = s.mode /\ t.link = s.link
      /\ t.lcd_wait = s.lcd_wait /\ t.backlight = s.backlight
      /\ t.hwregs.PROTECTSTATE = v
      /\ \A n \in RegisterNames : n # "PROTECTSTATE" => t.hwregs[n] = s.hwregs[n]
    BY <1>0, WithBoard DEF Sound
<1> HIDE DEF t
<1>2. kept \subseteq RegisterNames BY DEF RegisterNames, BankRegisters, ClockRegisters
<1>3. "PROTECTSTATE" \notin kept BY DEF BankRegisters, ClockRegisters
<1>4. \A n \in kept : t.hwregs[n] = s.hwregs[n] BY <1>1, <1>2, <1>3
<1>5. Numbers(t) BY <1>4 DEF Sound, Numbers, BankRegisters
<1>6. InChips(t) BY <1>1 DEF Sound, InChips
<1>7. Pending(t) BY <1>1, <1>4 DEF Sound, Pending
<1>8. Linked(t) BY <1>1 DEF Sound, Linked
<1>9. Awaited(t) BY <1>1, <1>4 DEF Sound, Awaited
<1> QED BY <1>1, <1>4, <1>5, <1>6, <1>7, <1>8, <1>9
    DEF ReadsAs, Sound, t, Clocks, ClockRegisters

LEMMA ExceptionKeeps ==
  ASSUME NEW s, NEW x, Sound(s)
  PROVE  Keeps(s, [s EXCEPT !.exception = x])
<1> DEFINE t == [s EXCEPT !.exception = x]
<1>1. Alike(s, t) BY DEF Alike, Sound, IsBoard, Fields
<1> QED BY <1>1, AlikeKeeps

\* What follows the sequence is never ahead of what has been read
LEMMA ProtectFollows ==
  ASSUME NEW m \in SUBSET (0..7), NEW n \in m, NEW trusted \in BOOLEAN, NEW byte
  PROVE  protect(n, trusted, byte) \in Follow(m, trusted, byte)
<1> DEFINE F == Follow(m, trusted, byte)
           next == IF n < 6 THEN n + 1 ELSE 1
<1>1. 0 \in F BY DEF Follow
<1>2. trusted /\ n = 6 => 7 \in F BY DEF Follow
<1>3. trusted /\ n < 6 /\ byte = ProtectBytes[next] => n + 1 \in F BY DEF Follow
<1> HIDE DEF F
<1> QED BY <1>1, <1>2, <1>3, Zenon DEF protect, F

LEMMA FollowBounds ==
  \A m, trusted, byte : Follow(m, trusted, byte) \subseteq 0..7 /\ 0 \in Follow(m, trusted, byte)
BY DEF Follow

LEMMA FetchReads ==
  ASSUME NEW s, NEW A, NEW byte, Sound(s)
  PROVE  LET t == z80_rdmem_m1(s, A, byte)
             n == protect(s.hwregs.PROTECTSTATE, IsTrusted(s, A), byte)
         IN IF ~Guarded(s) \/ (Refused(s, A) /\ s.hw # "x7")
            THEN ReadsAs(s, t, s.hwregs.PROTECTSTATE) ELSE ReadsAs(s, t, n)
<1> DEFINE u == readbyte(s, A, byte)
           n == protect(s.hwregs.PROTECTSTATE, IsTrusted(s, A), byte)
           found == exceptions(s.hw, s.hwregs, A, page_of(s.hw, s.hwregs, s.map, A))
           none == {x \in {"flash_exec"} : byte = \hFF /\ A = \h38}
           refused == Guarded(s) /\ Refused(s, A)
           r7 == [u EXCEPT !.exception = @ \cup found \cup none \cup {x \in {"ram_exec"} : refused}]
           rp == [s EXCEPT !.exception = @ \cup IF s.hw \in {"xp", "xn"} THEN found ELSE {}]
           ro == [u EXCEPT !.exception = @ \cup found \cup none]
<1>1. z80_rdmem_m1(s, A, byte) =
        CASE ~Guarded(s) -> s [] Guarded(s) /\ s.hw = "x7" -> r7
          [] Guarded(s) /\ s.hw # "x7" /\ refused -> rp [] OTHER -> ro
    BY DEF z80_rdmem_m1
<1>2. ReadsAs(s, u, n) BY ProtectReads DEF readbyte
<1>3. Sound(u) BY <1>2 DEF ReadsAs
<1>4. Keeps(u, r7) /\ Keeps(u, ro)
  <2> HIDE DEF u, found, none, refused
  <2> QED BY <1>3, ExceptionKeeps
<1>5. Keeps(s, rp) BY ExceptionKeeps
<1> HIDE DEF u, n, r7, rp, ro
<1>6. ReadsAs(s, r7, n) /\ ReadsAs(s, ro, n) BY <1>2, <1>4 DEF ReadsAs, Keeps
<1>7. ReadsAs(s, rp, s.hwregs.PROTECTSTATE) /\ ReadsAs(s, s, s.hwregs.PROTECTSTATE)
    BY <1>5 DEF ReadsAs, Keeps
<1>8. CASE ~Guarded(s) BY <1>1, <1>7, <1>8, Zenon
<1>9. CASE Guarded(s) /\ s.hw = "x7" BY <1>1, <1>6, <1>9, Zenon DEF n
<1>10. CASE Guarded(s) /\ s.hw # "x7" /\ refused BY <1>1, <1>7, <1>10, Zenon
<1>11. CASE Guarded(s) /\ s.hw # "x7" /\ ~refused BY <1>1, <1>6, <1>11, Zenon DEF n
<1> QED BY <1>8, <1>9, <1>10, <1>11

-----------------------------------------------------------------------------
(***************************************************************************)
(* The inductive invariant.  UnlockEarned compares a history, matched,     *)
(* with the lock; what links them is the register that follows the         *)
(* sequence: its value is always the length of a beginning of the sequence *)
(* that has really been read.                                              *)
(***************************************************************************)
HwInv ==
  /\ Sound(board) /\ use \in Uses /\ board.hw = use.hw
  /\ matched \subseteq 0..7 /\ 0 \in matched
  /\ board.hwregs.PROTECTSTATE \in matched

LEMMA HwInit_Inv == HwInit => HwInv
<1> SUFFICES ASSUME HwInit PROVE HwInv
    OBVIOUS
<1>1. use.hw \in Models
    BY UsesOfModels DEF HwInit
<1>2. /\ Sound(NewBoard(use.hw)) /\ NewBoard(use.hw).hw = use.hw
      /\ NewBoard(use.hw).hwregs.PROTECTSTATE = 0
    BY <1>1, NewIsSound
<1> QED BY <1>2 DEF HwInit, HwInv

\* A step that keeps what the board was, or resets it
Stays(s, t) ==
  /\ Sound(t) /\ t.hw = s.hw /\ t.hwregs.PROTECTSTATE \in {0, s.hwregs.PROTECTSTATE}
  /\ t.unlock => s.unlock
  /\ Clocks(t) = Clocks(s)

LEMMA StaysInv ==
  ASSUME HwInv, Stays(board, board'), UNCHANGED <<use, matched>>
  PROVE  HwInv' /\ (board'.unlock => board.unlock) /\ Clocks(board') = Clocks(board)
BY DEF HwInv, Stays

\* What OUT makes of the clock
ClockWritten(s, t) ==
  \/ Clocks(t) = Clocks(s)
  \/ s.hw \in HasClock /\ \E v \in Nat :
       Clocks(t) = <<v % 4, s.hwregs.CLOCK_INPUT, NewDiff(s, v)>>
  \/ s.hw \in HasClock /\ \E v \in Nat, i \in 0..3 :
       Clocks(t) = <<s.hwregs.CLOCK_MODE, NewInput(s, i, v), s.hwregs.CLOCK_DIFF>>

LEMMA EarnsWrites ==
  ASSUME NEW s, NEW t, Sound(s), Earns(s, t)
  PROVE  ClockWritten(s, t)
<1>1. CASE Clocks(t) = Clocks(s) BY <1>1 DEF ClockWritten
<1>2. CASE s.hw \in HasClock /\ \E p \in ClockPorts, v \in Nat : t = silver_clock_out(s, p, v)
  <2>1. PICK p \in ClockPorts, v \in Nat : t = silver_clock_out(s, p, v) BY <1>2
  <2>2. CASE p = \h40
    <3>1. t = clock_control(s, v) BY <2>1, <2>2 DEF silver_clock_out
    <3>2. Clocks(t) = <<v % 4, s.hwregs.CLOCK_INPUT, NewDiff(s, v)>> BY <3>1, ControlIs
    <3> QED BY <1>2, <3>2 DEF ClockWritten
  <2>3. CASE p # \h40
    <3> DEFINE i == p - \h41
    <3>1. i \in 0..3 BY <2>3 DEF ClockPorts
    <3>2. t = clock_input(s, i, v) BY <2>1, <2>3 DEF silver_clock_out
    <3> HIDE DEF i
    <3>3. Clocks(t) = <<s.hwregs.CLOCK_MODE, NewInput(s, i, v), s.hwregs.CLOCK_DIFF>>
        BY <3>2, InputIs
    <3> QED BY <1>2, <3>1, <3>3 DEF ClockWritten
  <2> QED BY <2>2, <2>3
<1> QED BY <1>1, <1>2 DEF Earns

LEMMA OutStep ==
  ASSUME HwInv, Out
  PROVE  /\ HwInv' /\ (~board.unlock /\ board'.unlock => 7 \in matched) /\ now' = now
         /\ ClockWritten(board, board')
<1>1. PICK o \in use.out, low \in BOOLEAN :
        /\ board' = [z80_out([board EXCEPT !.pclow = low], o[1], o[2]) EXCEPT !.pclow = FALSE]
        /\ UNCHANGED <<use, now, matched>>
    BY DEF Out
<1>2. o[2] \in Nat BY UsesOfModels DEF HwInv
<1>3. \A s, x : Sound(s) => Keeps(s, [s EXCEPT !.pclow = x])
  <2> SUFFICES ASSUME NEW s, NEW x, Sound(s) PROVE Keeps(s, [s EXCEPT !.pclow = x])
      OBVIOUS
  <2> DEFINE t == [s EXCEPT !.pclow = x]
  <2>1. Alike(s, t) BY DEF Alike, Sound, IsBoard, Fields
  <2> QED BY <2>1, AlikeKeeps
<1> DEFINE s == [board EXCEPT !.pclow = low]
           t == z80_out(s, o[1], o[2])
<1>4. Keeps(board, s) BY <1>3 DEF HwInv
<1>5. Earns(s, t)
  <2> HIDE DEF s
  <2> QED BY <1>2, <1>4, z80_outEarns DEF Keeps
<1> HIDE DEF t
<1>6. Keeps(t, board') BY <1>1, <1>3, <1>5 DEF Earns, t
<1> HIDE DEF s
<1>7. HwInv' /\ (~board.unlock /\ board'.unlock => 7 \in matched) /\ now' = now
    BY <1>1, <1>4, <1>5, <1>6 DEF HwInv, Keeps, Earns
<1>8. ClockWritten(s, t)
  <2>1. Sound(s) BY <1>4 DEF Keeps
  <2> QED BY <1>5, <2>1, EarnsWrites
<1>9. ClockWritten(board, board')
  <2>1. s.hw = board.hw /\ Clocks(s) = Clocks(board) /\ Clocks(board') = Clocks(t)
      BY <1>4, <1>6 DEF Keeps
  <2>2. /\ s.hwregs.CLOCK_MODE = board.hwregs.CLOCK_MODE
        /\ s.hwregs.CLOCK_INPUT = board.hwregs.CLOCK_INPUT
        /\ s.hwregs.CLOCK_DIFF = board.hwregs.CLOCK_DIFF
      BY <2>1 DEF Clocks
  <2>3. \A v, i : NewDiff(s, v) = NewDiff(board, v) /\ NewInput(s, i, v) = NewInput(board, i, v)
      BY <2>2 DEF NewDiff, NewInput
  <2> QED BY <1>8, <2>1, <2>2, <2>3 DEF ClockWritten
<1> QED BY <1>7, <1>9

LEMMA ReadStep ==
  ASSUME HwInv, Read
  PROVE  HwInv' /\ (board'.unlock => board.unlock) /\ Clocks(board') = Clocks(board) /\ now' = now
<1>1. PICK r \in use.read :
        /\ board' = z80_rdmem(board, r[1], r[2])
        /\ matched' = IF ~Guarded(board) \/ Refused(board, r[1]) THEN matched
                      ELSE Follow(matched, IsTrusted(board, r[1]), r[2])
        /\ UNCHANGED <<use, now>>
    BY DEF Read
<1> DEFINE n == protect(board.hwregs.PROTECTSTATE, IsTrusted(board, r[1]), r[2])
           m == Follow(matched, IsTrusted(board, r[1]), r[2])
<1>2. CASE ~Guarded(board) \/ Refused(board, r[1])
  <2>1. board' = board /\ matched' = matched BY <1>1, <1>2 DEF z80_rdmem
  <2> QED BY <1>1, <2>1 DEF HwInv
<1>3. CASE ~(~Guarded(board) \/ Refused(board, r[1]))
  <2>1. board' = With(board, "PROTECTSTATE", n) /\ matched' = m
      BY <1>1, <1>3 DEF z80_rdmem, readbyte
  <2>2. ReadsAs(board, With(board, "PROTECTSTATE", n), n) BY ProtectReads DEF HwInv
  <2>3. IsTrusted(board, r[1]) \in BOOLEAN BY DEF IsTrusted
  <2>4. n \in m BY <2>3, ProtectFollows DEF HwInv
  <2>5. m \subseteq 0..7 /\ 0 \in m BY FollowBounds
  <2> HIDE DEF n, m
  <2>6. /\ Sound(board') /\ board'.hw = board.hw /\ board'.unlock = board.unlock
        /\ board'.hwregs.PROTECTSTATE = n /\ Clocks(board') = Clocks(board)
      BY <2>1, <2>2 DEF ReadsAs
  <2> QED BY <1>1, <2>1, <2>4, <2>5, <2>6 DEF HwInv
<1> QED BY <1>2, <1>3

LEMMA FetchStep ==
  ASSUME HwInv, Fetch
  PROVE  HwInv' /\ (board'.unlock => board.unlock) /\ Clocks(board') = Clocks(board) /\ now' = now
<1>1. PICK r \in use.read :
        /\ board' = z80_rdmem_m1(board, r[1], r[2])
        /\ matched' = IF ~Guarded(board) \/ (Refused(board, r[1]) /\ use.hw # "x7")
                      THEN matched ELSE Follow(matched, IsTrusted(board, r[1]), r[2])
        /\ UNCHANGED <<use, now>>
    BY DEF Fetch
<1> DEFINE n == protect(board.hwregs.PROTECTSTATE, IsTrusted(board, r[1]), r[2])
           m == Follow(matched, IsTrusted(board, r[1]), r[2])
           skipped == ~Guarded(board) \/ (Refused(board, r[1]) /\ board.hw # "x7")
           t == z80_rdmem_m1(board, r[1], r[2])
<1>2. IF skipped THEN ReadsAs(board, t, board.hwregs.PROTECTSTATE) ELSE ReadsAs(board, t, n)
    BY FetchReads DEF HwInv
<1>3. board' = t /\ matched' = IF skipped THEN matched ELSE m BY <1>1 DEF HwInv
<1>4. IsTrusted(board, r[1]) \in BOOLEAN BY DEF IsTrusted
<1>5. n \in m BY <1>4, ProtectFollows DEF HwInv
<1>6. m \subseteq 0..7 /\ 0 \in m BY FollowBounds
<1> HIDE DEF n, m, skipped, t
<1>7. CASE skipped
  <2>1. /\ Sound(board') /\ board'.hw = board.hw /\ board'.unlock = board.unlock
        /\ board'.hwregs.PROTECTSTATE = board.hwregs.PROTECTSTATE /\ matched' = matched
        /\ Clocks(board') = Clocks(board)
      BY <1>2, <1>3, <1>7 DEF ReadsAs
  <2> QED BY <1>1, <2>1 DEF HwInv
<1>8. CASE ~skipped
  <2>1. /\ Sound(board') /\ board'.hw = board.hw /\ board'.unlock = board.unlock
        /\ board'.hwregs.PROTECTSTATE = n /\ matched' = m /\ Clocks(board') = Clocks(board)
      BY <1>2, <1>3, <1>8 DEF ReadsAs
  <2> QED BY <1>1, <1>5, <1>6, <2>1 DEF HwInv
<1> QED BY <1>7, <1>8

LEMMA OtherSteps ==
  ASSUME HwInv, In \/ Exception \/ OnKey \/ LinkChanges \/ TimerRings \/ HwReset
  PROVE  HwInv' /\ (board'.unlock => board.unlock) /\ Clocks(board') = Clocks(board) /\ now' = now
<1>0. Sound(board) BY DEF HwInv
<1>1. Stays(board, board')
  <2>1. CASE In
    <3>1. PICK p : board' = z80_in(board, p).board BY <2>1 DEF In
    <3> QED BY <1>0, <3>1, z80_inKeeps DEF Keeps, Stays
  <2>2. CASE Exception
    <3> DEFINE s == [board EXCEPT !.exception = {}]
    <3>1. Keeps(board, s) BY <1>0, ExceptionKeeps
    <3>2. board' = tilem_calc_reset(s) BY <2>2 DEF Exception
    <3> HIDE DEF s
    <3> QED BY <3>1, <3>2, CalcResets DEF Keeps, Stays
  <2>3. CASE OnKey
    <3> DEFINE t == [board EXCEPT !.onkeydown = ~@,
                       !.ints = IF board.onkeyint THEN @ \cup {"on_key"} ELSE @]
    <3>1. /\ Signals(board, t) /\ t.onkeyint = board.onkeyint /\ t.mode = board.mode
          /\ t.link = board.link
          /\ t.ints = IF board.onkeyint THEN board.ints \cup {"on_key"} ELSE board.ints
        BY <1>0 DEF Sound, IsBoard, Fields, Signals
    <3>2. board' = t BY <2>3 DEF OnKey
    <3> HIDE DEF t
    <3>3. Pending(t) BY <1>0, <3>1 DEF Sound, Pending, Signals
    <3>4. Linked(t) BY <1>0, <3>1 DEF Sound, Linked, FlagOf
    <3> QED BY <1>0, <3>1, <3>2, <3>3, <3>4, SignalsKeep DEF Keeps, Stays
  <2>4. CASE LinkChanges
    <3>1. PICK on \in SUBSET {"link_read", "link_idle"},
               i \in {"none", "link_active", "link_error"} :
            board' = link_levels([board EXCEPT !.link = on,
                       !.ints = IF i # "none" /\ FlagOf[i] \in board.mode THEN @ \cup {i}
                                ELSE @])
        BY <2>4 DEF LinkChanges
    <3> DEFINE new == IF i # "none" /\ FlagOf[i] \in board.mode THEN board.ints \cup {i}
                      ELSE board.ints
               t == [board EXCEPT !.link = on, !.ints = new]
    <3>2. board' = link_levels(t) BY <3>1
    <3>3. /\ Signals(board, t) /\ t.onkeyint = board.onkeyint /\ t.mode = board.mode
          /\ t.ints = new
        BY <1>0 DEF Sound, IsBoard, Fields, Signals
    <3> HIDE DEF t
    <3>4. Pending(t) BY <1>0, <3>3 DEF Sound, Pending, Signals
    <3>5. \A j \in t.ints \cap {"link_active", "link_error"} : FlagOf[j] \in t.mode
        BY <1>0, <3>3 DEF Sound, Linked, FlagOf
    <3> QED BY <1>0, <3>2, <3>3, <3>4, <3>5, LevelsKeep DEF Keeps, Stays
  <2>5. CASE TimerRings
    <3>1. PICK id : board' = z80_ptimer(board, id) BY <2>5 DEF TimerRings
    <3> QED BY <1>0, <3>1, z80_ptimerKeeps DEF Keeps, Stays
  <2>6. CASE HwReset BY <1>0, <2>6, CalcResets DEF HwReset, Stays
  <2> QED BY <2>1, <2>2, <2>3, <2>4, <2>5, <2>6
<1>2. UNCHANGED <<use, matched>> /\ now' = now
    BY DEF In, Exception, OnKey, LinkChanges, TimerRings, HwReset
<1> QED BY <1>1, <1>2, StaysInv

LEMMA HwNext_Inv ==
  ASSUME HwInv, [HwNext]_hwVars
  PROVE  HwInv' /\ (~board.unlock /\ board'.unlock => 7 \in matched)
<1>1. CASE UNCHANGED hwVars BY <1>1 DEF hwVars, HwInv
<1>2. CASE SecondPasses BY <1>2 DEF SecondPasses, HwInv
<1>3. CASE Out BY <1>3, OutStep
<1>4. CASE Read BY <1>4, ReadStep
<1>5. CASE Fetch BY <1>5, FetchStep
<1>6. CASE In \/ Exception \/ OnKey \/ LinkChanges \/ TimerRings \/ HwReset
    BY <1>6, OtherSteps
<1> QED BY <1>1, <1>2, <1>3, <1>4, <1>5, <1>6 DEF HwNext

-----------------------------------------------------------------------------
(***************************************************************************)
(* The Flash comes to be unlocked only after the seven bytes of the        *)
(* sequence have been read in a row from trusted pages (readbyte, and the  *)
(* ports 14 to 17 of the models with Flash).                               *)
(***************************************************************************)
THEOREM UnlockIsEarned == HwSpec => UnlockEarned
<1>1. HwInv /\ [HwNext]_hwVars => HwInv' BY HwNext_Inv
<1>2. HwInv /\ [HwNext]_hwVars => [~board.unlock /\ board'.unlock => 7 \in matched]_hwVars
    BY HwNext_Inv
<1> QED BY <1>1, <1>2, HwInit_Inv, PTL DEF HwSpec, UnlockEarned

(***************************************************************************)
(* No access of a program leaves the memory that tilem_calc_new allocates, *)
(* whichever banks the ports choose and after a reset as well              *)
(* (setup_mapping, x*_reset).                                              *)
(***************************************************************************)
THEOREM PagesStayInMemory == HwSpec => []PagesInMemory
<1>1. HwInv /\ [HwNext]_hwVars => HwInv' BY HwNext_Inv
<1>2. HwInv => PagesInMemory
  <2> SUFFICES ASSUME HwInv, NEW i \in 1..4
               PROVE board.map[i] < RomPages[board.hw] + RamPages[board.hw]
      BY DEF PagesInMemory
  <2>1. board.map[i] \in Pages(board.hw) /\ board.hw \in Models
      BY DEF HwInv, Sound, InChips, IsBoard
  <2>2. RomPages[board.hw] \in Nat /\ RamPages[board.hw] \in Nat
      BY <2>1 DEF Models, RomPages, RamPages
  <2> QED BY <2>1, <2>2 DEF Pages
<1> QED BY <1>1, <1>2, HwInit_Inv, PTL DEF HwSpec

(***************************************************************************)
(* An interrupt whose bit in port 3 or whose mode of the link is off is    *)
(* not pending, and those of the assist follow its state                   *)
(* (x*_z80_out, tilem_linkport_set_mode).                                  *)
(***************************************************************************)
THEOREM OnlyEnabledPend == HwSpec => []EnabledOnly
<1>1. HwInv /\ [HwNext]_hwVars => HwInv' BY HwNext_Inv
<1>2. HwInv => EnabledOnly
  <2> SUFFICES ASSUME HwInv PROVE EnabledOnly
      OBVIOUS
  <2>1. Pending(board) /\ Linked(board) BY DEF HwInv, Sound
  <2>2. \A i \in board.ints \cap {"on_key", "timer1", "timer2"} :
          [on_key |-> board.onkeyint, timer1 |-> BitOf(board.hwregs.PORT3, 1),
           timer2 |-> BitOf(board.hwregs.PORT3, 2)][i]
      BY <2>1 DEF Pending
  <2> QED BY <2>1, <2>2 DEF EnabledOnly, Linked
<1> QED BY <1>1, <1>2, HwInit_Inv, PTL DEF HwSpec

(***************************************************************************)
(* A screen that is busy, or a light that is to go out, has its timer set  *)
(* (set_lcd_wait_timer, xc_z80_out), over resets too.                      *)
(***************************************************************************)
THEOREM TimersStaySet == HwSpec => []TimersSet
<1>1. HwInv /\ [HwNext]_hwVars => HwInv' BY HwNext_Inv
<1>2. HwInv => TimersSet BY DEF HwInv, Sound, Awaited, TimersSet
<1> QED BY <1>1, <1>2, HwInit_Inv, PTL DEF HwSpec

-----------------------------------------------------------------------------
(***************************************************************************)
(* The clock.  What it shows is computed from the host's time, a           *)
(* difference and whether it runs; an order to run or to stand still       *)
(* changes the difference so that the time shown stays the same.           *)
(***************************************************************************)

\* What is needed of \div and %: digits, and sums that are wrapped once or twice
LEMMA DivIs ==
  ASSUME NEW D \in Nat \ {0}, NEW q \in Int, NEW r \in 0 .. D - 1
  PROVE  (D * q + r) \div D = q /\ (D * q + r) % D = r
OBVIOUS

LEMMA DivOf ==
  ASSUME NEW D \in Nat \ {0}, NEW n \in Int
  PROVE  n \div D \in Int /\ n % D \in 0 .. D - 1 /\ n = D * (n \div D) + (n % D)
OBVIOUS

\* Two digits make a number
LEMMA Pair ==
  ASSUME NEW A \in Nat \ {0}, NEW B \in Nat \ {0}, NEW a \in 0 .. A - 1, NEW b \in 0 .. B - 1
  PROVE  a + A * b \in 0 .. A * B - 1
<1>1. A * b \in Nat /\ A * B \in Nat BY SMT
<1>2. A * b + A <= A * B
  <2>1. A * (b + 1) <= A * B BY SMT
  <2> QED BY <2>1, SMT
<1> QED BY <1>1, <1>2

LEMMA DivTwice ==
  ASSUME NEW A \in Nat \ {0}, NEW B \in Nat \ {0}, NEW n \in Int
  PROVE  n \div (A * B) = (n \div A) \div B
<1> DEFINE q == n \div A
           r == n % A
           u == q \div B
           w == q % B
<1>1. q \in Int /\ r \in 0 .. A - 1 /\ n = A * q + r BY DivOf
<1> HIDE DEF q, r
<1>2. u \in Int /\ w \in 0 .. B - 1 /\ q = B * u + w BY <1>1, DivOf
<1> HIDE DEF u, w
<1>3. r + A * w \in 0 .. A * B - 1 BY <1>1, <1>2, Pair
<1>4. A * q = (A * B) * u + A * w
  <2>1. A * q = A * (B * u + w) BY <1>2
  <2>2. \A x, y, z \in Int, v \in Int : x * (y * z + v) = (x * y) * z + x * v OBVIOUS
  <2> QED BY <1>1, <1>2, <2>1, <2>2
<1>5. A * B \in Nat \ {0} BY SMT
<1>6. (A * B) * u \in Int /\ A * w \in Int BY <1>2, <1>5
<1>7. n = (A * B) * u + (r + A * w) BY <1>1, <1>2, <1>3, <1>4, <1>6
<1>8. n \div (A * B) = u BY <1>2, <1>3, <1>5, <1>7, DivIs
<1> QED BY <1>8 DEF u, q

LEMMA WrapsOnce ==
  ASSUME NEW P \in Nat \ {0}, NEW a \in Int, NEW b \in Int
  PROVE  (a + (b % P)) % P = (a + b) % P
<1> DEFINE q == b \div P
           r == b % P
           u == (a + r) \div P
           w == (a + r) % P
<1>1. q \in Int /\ r \in 0 .. P - 1 /\ b = P * q + r BY DivOf
<1> HIDE DEF q, r
<1>2. u \in Int /\ w \in 0 .. P - 1 /\ a + r = P * u + w BY <1>1, DivOf
<1> HIDE DEF u, w
<1>3. a + b = P * (q + u) + w
  <2>1. P * (q + u) = P * q + P * u BY <1>1, <1>2
  <2>2. P * q \in Int /\ P * u \in Int BY <1>1, <1>2
  <2> QED BY <1>1, <1>2, <2>1, <2>2
<1>4. (a + b) % P = w
  <2>1. q + u \in Int BY <1>1, <1>2
  <2>2. (P * (q + u) + w) % P = w BY <1>2, <2>1, DivIs
  <2> QED BY <1>3, <2>2
<1> QED BY <1>4 DEF w, r

LEMMA ValueBounds ==
  ASSUME NEW R \in Nat \ {0}, NEW a \in 0 .. R - 1, NEW b \in 0 .. R - 1, NEW c \in 0 .. R - 1,
         NEW d \in 0 .. R - 1
  PROVE  a + R * b + (R * R) * c + (R * R * R) * d \in 0 .. R * R * R * R - 1
<1>1. a + R * b \in 0 .. R * R - 1 BY Pair
<1>2. R * R \in Nat \ {0} BY SMT
<1> DEFINE S == R * R
           x == a + R * b
<1>3. S \in Nat \ {0} /\ x \in 0 .. S - 1 BY <1>1, <1>2
<1>4. x + S * c \in 0 .. S * R - 1
  <2> HIDE DEF S, x
  <2> QED BY <1>3, Pair
<1> DEFINE T == S * R
           y == x + S * c
<1>5. T \in Nat \ {0}
  <2> HIDE DEF S
  <2> QED BY <1>3, SMT
<1>6. y + T * d \in 0 .. T * R - 1
  <2>1. y \in 0 .. T - 1 BY <1>4
  <2> HIDE DEF y, T
  <2> QED BY <1>5, <2>1, Pair
<1> QED BY <1>6

LEMMA DivBelow ==
  ASSUME NEW A \in Nat \ {0}, NEW B \in Nat \ {0}, NEW n \in 0 .. A * B - 1
  PROVE  n \div A \in 0 .. B - 1
<1> DEFINE q == n \div A
           r == n % A
<1>0. A * B \in Nat BY SMT
<1>1. q \in Int /\ r \in 0 .. A - 1 /\ n = A * q + r BY <1>0, DivOf
<1> HIDE DEF q, r
<1>2. q >= 0
  <2> SUFFICES ASSUME q <= -1 PROVE FALSE BY <1>1
  <2>1. A * q <= -A BY <1>1, SMT
  <2> QED BY <1>0, <1>1, <2>1
<1>3. q < B
  <2> SUFFICES ASSUME q >= B PROVE FALSE BY <1>1
  <2>1. A * q >= A * B BY <1>1, SMT
  <2> QED BY <1>0, <1>1, <2>1
<1> QED BY <1>1, <1>2, <1>3 DEF q

LEMMA DigitsOf ==
  ASSUME NEW R \in Nat \ {0}, NEW n \in 0 .. R * R * R * R - 1
  PROVE  n = (n % R) + R * ((n \div R) % R) + (R * R) * ((n \div (R * R)) % R)
                  + (R * R * R) * ((n \div (R * R * R)) % R)
<1> DEFINE S == R * R
           T == R * R * R
           q == n \div R
           u == q \div R
           w == u \div R
<1>0. n \in Int /\ n >= 0 /\ n < R * R * R * R BY SMT
<1>1. q \in Int /\ n % R \in 0 .. R - 1 /\ n = R * q + (n % R) BY <1>0, DivOf
<1>2. n \div S = u BY <1>0, DivTwice
<1>3. u \in Int /\ q % R \in 0 .. R - 1 /\ q = R * u + (q % R)
  <2> HIDE DEF q
  <2> QED BY <1>1, DivOf
<1>4. n \div T = w
  <2>1. S \in Nat \ {0} BY SMT
  <2>2. n \div (S * R) = (n \div S) \div R
    <3> HIDE DEF S
    <3> QED BY <1>0, <2>1, DivTwice
  <2> QED BY <1>2, <2>2
<1>5. w \in Int /\ u % R \in 0 .. R - 1 /\ u = R * w + (u % R)
  <2> HIDE DEF u
  <2> QED BY <1>3, DivOf
<1>6. w % R = w
  <2>1. T \in Nat \ {0} BY SMT
  <2>2. n \in 0 .. T * R - 1 OBVIOUS
  <2>3. n \div T \in 0 .. R - 1
    <3> HIDE DEF T
    <3> QED BY <2>1, <2>2, DivBelow
  <2>4. w \in 0 .. R - 1 BY <1>4, <2>3
  <2> HIDE DEF w
  <2> QED BY <2>4
<1> DEFINE a == n % R
           b == q % R
           c == u % R
<1>7. n = a + R * (b + R * (c + R * w))
  <2> HIDE DEF a, b, c, q, u, w
  <2> QED BY <1>1, <1>3, <1>5 DEF a, b, c
<1>8. n = a + R * b + (R * R) * c + (R * R * R) * w
  <2>1. a \in Int /\ b \in Int /\ c \in Int /\ w \in Int BY <1>1, <1>3, <1>5
  <2> HIDE DEF a, b, c, w
  <2>2. R * (b + R * (c + R * w)) = R * b + (R * R) * c + (R * R * R) * w
    <3>1. R * (c + R * w) = R * c + (R * R) * w BY <2>1
    <3>2. R * (R * c + (R * R) * w) = (R * R) * c + (R * R * R) * w BY <2>1
    <3>3. \A x \in Int : R * (b + x) = R * b + R * x BY <2>1
    <3>4. R * c + (R * R) * w \in Int BY <2>1
    <3> QED BY <3>1, <3>2, <3>3, <3>4, <2>1
  <2>3. R * b \in Int /\ (R * R) * c \in Int /\ (R * R * R) * w \in Int BY <2>1
  <2> QED BY <1>7, <2>1, <2>2, <2>3
<1> QED BY <1>2, <1>4, <1>6, <1>8

LEMMA FitsIs ==
  ASSUME NEW P \in Nat \ {0}
  PROVE  /\ \A x \in Int : x % P \in 0 .. P - 1
         /\ \A x \in 0 .. P - 1 : x % P = x
OBVIOUS

LEMMA PeriodIs == ClockPeriod \in Nat \ {0} /\ Radix \in Nat \ {0}
<1>1. Radix \in Nat \ {0} BY HardwareConstants
<1>2. Radix * Radix \in Nat \ {0} BY <1>1, SMT
<1>3. Radix * Radix * Radix \in Nat \ {0}
  <2> DEFINE S == Radix * Radix
  <2>1. S \in Nat \ {0} BY <1>2
  <2> HIDE DEF S
  <2>2. S * Radix \in Nat \ {0} BY <1>1, <2>1, SMT
  <2> QED BY <2>2 DEF S
<1>4. Radix * Radix * Radix * Radix \in Nat \ {0}
  <2> DEFINE S == Radix * Radix * Radix
  <2>1. S \in Nat \ {0} BY <1>3
  <2> HIDE DEF S
  <2>2. S * Radix \in Nat \ {0} BY <1>1, <2>1, SMT
  <2> QED BY <2>2 DEF S
<1> QED BY <1>1, <1>4 DEF ClockPeriod

\* The bytes of a time, put together, are the time
LEMMA BytesAre ==
  ASSUME NEW n \in 0 .. ClockPeriod - 1
  PROVE  /\ n = ClockByte(n, 0) + Scale[2] * ClockByte(n, 1) + Scale[3] * ClockByte(n, 2)
                + Scale[4] * ClockByte(n, 3)
         /\ \A i \in 0..3 : ClockByte(n, i) \in 0 .. Radix - 1
<1>1. Radix \in Nat \ {0} BY PeriodIs
<1>2. /\ Scale[1] = 1 /\ Scale[2] = Radix /\ Scale[3] = Radix * Radix
      /\ Scale[4] = Radix * Radix * Radix
    BY DEF Scale
<1>3. n \div 1 = n BY PeriodIs
<1>4. n = (n % Radix) + Radix * ((n \div Radix) % Radix)
          + (Radix * Radix) * ((n \div (Radix * Radix)) % Radix)
          + (Radix * Radix * Radix) * ((n \div (Radix * Radix * Radix)) % Radix)
    BY <1>1, DigitsOf DEF ClockPeriod
<1>5. /\ ClockByte(n, 0) = n % Radix /\ ClockByte(n, 1) = (n \div Radix) % Radix
      /\ ClockByte(n, 2) = (n \div (Radix * Radix)) % Radix
      /\ ClockByte(n, 3) = (n \div (Radix * Radix * Radix)) % Radix
    BY <1>2, <1>3 DEF ClockByte
<1>6. \A i \in 0..3 : ClockByte(n, i) \in 0 .. Radix - 1
  <2> SUFFICES ASSUME NEW i \in 0..3 PROVE ClockByte(n, i) \in 0 .. Radix - 1
      OBVIOUS
  <2>1. Radix * Radix \in Nat \ {0} BY <1>1, SMT
  <2>2. Radix * Radix * Radix \in Nat \ {0}
    <3> DEFINE S == Radix * Radix
    <3>1. S \in Nat \ {0} BY <2>1
    <3> HIDE DEF S
    <3>2. S * Radix \in Nat \ {0} BY <1>1, <3>1, SMT
    <3> QED BY <3>2 DEF S
  <2>3. Scale[i + 1] \in Nat \ {0}
    <3>1. i = 0 \/ i = 1 \/ i = 2 \/ i = 3 OBVIOUS
    <3> QED BY <1>1, <1>2, <2>1, <2>2, <3>1
  <2> DEFINE D == Scale[i + 1]
             q == n \div D
  <2>4. q \in Int
    <3>1. D \in Nat \ {0} BY <2>3
    <3>2. n \in Int BY PeriodIs
    <3> HIDE DEF D
    <3> QED BY <3>1, <3>2, DivOf
  <2>5. q % Radix \in 0 .. Radix - 1
    <3> HIDE DEF q
    <3> QED BY <1>1, <2>4, DivOf
  <2> QED BY <2>5 DEF ClockByte
<1> QED BY <1>2, <1>4, <1>5, <1>6

\* A byte that is replaced leaves a time
LEMMA InputFits ==
  ASSUME NEW s, NEW i \in 0..3, NEW v \in Nat, s.hwregs.CLOCK_INPUT \in 0 .. ClockPeriod - 1
  PROVE  NewInput(s, i, v) \in 0 .. ClockPeriod - 1
<1> DEFINE n == s.hwregs.CLOCK_INPUT
           R == Radix
           w == v % R
           a == ClockByte(n, 0)
           b == ClockByte(n, 1)
           c == ClockByte(n, 2)
           d == ClockByte(n, 3)
<1>1. R \in Nat \ {0} BY PeriodIs
<1>2. w \in 0 .. R - 1
  <2> HIDE DEF R
  <2> QED BY <1>1, DivOf
<1>3. /\ n = a + Scale[2] * b + Scale[3] * c + Scale[4] * d
      /\ a \in 0 .. R - 1 /\ b \in 0 .. R - 1 /\ c \in 0 .. R - 1 /\ d \in 0 .. R - 1
    BY BytesAre
<1>4. /\ Scale[1] = 1 /\ Scale[2] = R /\ Scale[3] = R * R /\ Scale[4] = R * R * R
      /\ ClockPeriod = R * R * R * R
    BY DEF Scale, ClockPeriod
<1>5. NewInput(s, i, v) = n + (w - ClockByte(n, i)) * Scale[i + 1] BY DEF NewInput
<1> HIDE DEF n, R, w, a, b, c, d
<1>6. n = a + R * b + (R * R) * c + (R * R * R) * d BY <1>3, <1>4
<1>7. /\ w + R * b + (R * R) * c + (R * R * R) * d \in 0 .. R * R * R * R - 1
      /\ a + R * w + (R * R) * c + (R * R * R) * d \in 0 .. R * R * R * R - 1
      /\ a + R * b + (R * R) * w + (R * R * R) * d \in 0 .. R * R * R * R - 1
      /\ a + R * b + (R * R) * c + (R * R * R) * w \in 0 .. R * R * R * R - 1
    BY <1>1, <1>2, <1>3, ValueBounds
<1> DEFINE S == R * R
           T == R * R * R
           x == NewInput(s, i, v)
<1>8. S \in Int /\ T \in Int BY <1>1
<1>9. i = 0 => x = w + R * b + S * c + T * d
  <2>1. i = 0 => x = n + (w - a) * 1 BY <1>4, <1>5 DEF a
  <2> HIDE DEF S, T
  <2> QED BY <1>1, <1>2, <1>3, <1>6, <1>8, <2>1 DEF S, T
<1>10. i = 1 => x = a + R * w + S * c + T * d
  <2>1. i = 1 => x = n + (w - b) * R BY <1>4, <1>5 DEF b
  <2>2. (w - b) * R = R * w - R * b BY <1>1, <1>2, <1>3
  <2>3. R * w \in Int /\ R * b \in Int /\ S * c \in Int /\ T * d \in Int BY <1>1, <1>2, <1>3, <1>8
  <2>4. n = a + R * b + S * c + T * d BY <1>6
  <2> HIDE DEF S, T, x
  <2> QED BY <1>3, <2>1, <2>2, <2>3, <2>4
<1>11. i = 2 => x = a + R * b + S * w + T * d
  <2>1. i = 2 => x = n + (w - c) * S BY <1>4, <1>5 DEF c
  <2>2. (w - c) * S = S * w - S * c
    <3> HIDE DEF S
    <3> QED BY <1>2, <1>3, <1>8
  <2>3. R * b \in Int /\ S * w \in Int /\ S * c \in Int /\ T * d \in Int BY <1>1, <1>2, <1>3, <1>8
  <2>4. n = a + R * b + S * c + T * d BY <1>6
  <2> HIDE DEF S, T, x
  <2> QED BY <1>3, <2>1, <2>2, <2>3, <2>4
<1>12. i = 3 => x = a + R * b + S * c + T * w
  <2>1. i = 3 => x = n + (w - d) * T BY <1>4, <1>5 DEF d
  <2>2. (w - d) * T = T * w - T * d
    <3> HIDE DEF T
    <3> QED BY <1>2, <1>3, <1>8
  <2>3. R * b \in Int /\ S * c \in Int /\ T * d \in Int /\ T * w \in Int BY <1>1, <1>2, <1>3, <1>8
  <2>4. n = a + R * b + S * c + T * d BY <1>6
  <2> HIDE DEF S, T, x
  <2> QED BY <1>3, <2>1, <2>2, <2>3, <2>4
<1>13. i = 0 \/ i = 1 \/ i = 2 \/ i = 3 OBVIOUS
<1> QED BY <1>4, <1>7, <1>9, <1>10, <1>11, <1>12, <1>13

LEMMA WrapIs ==
  /\ \A n \in Int : Wrap(n) \in 0 .. ClockPeriod - 1
  /\ \A n \in 0 .. ClockPeriod - 1 : Wrap(n) = n
  /\ \A m, n \in Int : Wrap(m + Wrap(n)) = Wrap(m + n)
<1>1. ClockPeriod \in Nat \ {0} BY PeriodIs
<1>2. \A m, n \in Int : (m + (n % ClockPeriod)) % ClockPeriod = (m + n) % ClockPeriod
    BY <1>1, WrapsOnce
<1> QED BY <1>1, <1>2, FitsIs DEF Wrap

LEMMA LowBits ==
  \A v \in Nat : /\ v % 4 \in 0..3
                 /\ BitOf(v % 4, 0) = BitOf(v, 0) /\ BitOf(v % 4, 1) = BitOf(v, 1)
BY DEF BitOf

\* What the clock shows at time t
TimeOf(r, t) == Wrap((IF BitOf(r.CLOCK_MODE, 0) THEN t ELSE 0) + r.CLOCK_DIFF)

InTime(s) ==
  /\ s.hwregs.CLOCK_MODE \in 0..3
  /\ s.hwregs.CLOCK_INPUT \in 0 .. ClockPeriod - 1
  /\ s.hwregs.CLOCK_DIFF \in 0 .. ClockPeriod - 1

ClockInv == HwInv /\ InTime(board) /\ now \in Nat

\* What the ports say of the clock
Shows(s, t, time, written, mode) ==
  IF s.hw \in HasClock
  THEN time = TimeOf(s.hwregs, t) /\ written = s.hwregs.CLOCK_INPUT /\ mode = s.hwregs.CLOCK_MODE
  ELSE time = 0 /\ written = 0 /\ mode = 0

LEMMA ClockPortIs ==
  ASSUME NEW s, s.hw \in HasClock, NEW p \in \h40..\h48
  PROVE  z80_in(s, p).value = clock_in(s, p)
<1>1. p % 256 = p /\ p \notin {2, 4, 9, \h0A, \h24, \h39, \h3A} /\ p \notin \h10..\h13 OBVIOUS
<1>2. \A b, v : Reads(b, v).value = v BY DEF Reads
<1>3. x4_z80_in(s, p).value = clock_in(s, p) BY <1>1, <1>2 DEF x4_z80_in
<1>4. xc_z80_in(s, p) = x4_z80_in(s, p) BY <1>1 DEF xc_z80_in
<1>5. s.hw = "x4" \/ s.hw = "xz" \/ s.hw = "xn" \/ s.hw = "xc" BY DEF HasClock
<1>6. /\ s.hw = "x4" => z80_in(s, p) = x4_z80_in(s, p)
      /\ s.hw = "xz" => z80_in(s, p) = xz_z80_in(s, p)
      /\ s.hw = "xn" => z80_in(s, p) = xn_z80_in(s, p)
      /\ s.hw = "xc" => z80_in(s, p) = xc_z80_in(s, p)
    BY DEF z80_in
<1> QED BY <1>3, <1>4, <1>5, <1>6 DEF xz_z80_in, xn_z80_in

LEMMA ShownIs == ClockInv => Shows(board, now, Shown(\h45), Shown(\h41), Mode)
<1> SUFFICES ASSUME ClockInv PROVE Shows(board, now, Shown(\h45), Shown(\h41), Mode)
    OBVIOUS
<1>1. CASE board.hw \notin HasClock BY <1>1 DEF Shows, Shown, Mode
<1>2. CASE board.hw \in HasClock
  <2> DEFINE r == board.hwregs
             time == TimeOf(r, now)
  <2>1. \A p \in \h40..\h48 : z80_in(board, p).value = clock_in(board, p) BY <1>2, ClockPortIs
  <2>2. time \in 0 .. ClockPeriod - 1
    <3>1. (IF BitOf(r.CLOCK_MODE, 0) THEN now ELSE 0) + r.CLOCK_DIFF \in Int
        BY DEF ClockInv, InTime
    <3> QED BY <3>1, WrapIs DEF TimeOf
  <2>3. Mode = r.CLOCK_MODE BY <1>2, <2>1 DEF Mode, clock_in
  <2>4. \A i \in 0..3 : z80_in(board, \h45 + i).value = ClockByte(time, i)
    <3> SUFFICES ASSUME NEW i \in 0..3 PROVE z80_in(board, \h45 + i).value = ClockByte(time, i)
        OBVIOUS
    <3>1. \h45 + i \in \h40..\h48 /\ \h45 + i \in \h45..\h48 /\ \h45 + i \notin \h41..\h44
          /\ \h45 + i # \h40 /\ (\h45 + i) - \h45 = i
        OBVIOUS
    <3>2. clock_in(board, \h45 + i) = ClockByte(time, (\h45 + i) - \h45)
        BY <3>1 DEF clock_in, TimeOf
    <3> QED BY <2>1, <3>1, <3>2
  <2>5. \A i \in 0..3 : z80_in(board, \h41 + i).value = ClockByte(r.CLOCK_INPUT, i)
    <3> SUFFICES ASSUME NEW i \in 0..3
                 PROVE z80_in(board, \h41 + i).value = ClockByte(r.CLOCK_INPUT, i)
        OBVIOUS
    <3>1. \h41 + i \in \h40..\h48 /\ \h41 + i \in \h41..\h44
          /\ \h41 + i # \h40 /\ (\h41 + i) - \h41 = i
        OBVIOUS
    <3>2. clock_in(board, \h41 + i) = ClockByte(r.CLOCK_INPUT, (\h41 + i) - \h41)
        BY <3>1 DEF clock_in
    <3> QED BY <2>1, <3>1, <3>2
  <2>6. r.CLOCK_INPUT \in 0 .. ClockPeriod - 1 BY DEF ClockInv, InTime
  <2>7. Shown(\h45) = ClockByte(time, 0) + Scale[2] * ClockByte(time, 1)
                        + Scale[3] * ClockByte(time, 2) + Scale[4] * ClockByte(time, 3)
    <3> HIDE DEF time
    <3> QED BY <1>2, <2>4 DEF Shown
  <2>8. Shown(\h41) = ClockByte(r.CLOCK_INPUT, 0) + Scale[2] * ClockByte(r.CLOCK_INPUT, 1)
                        + Scale[3] * ClockByte(r.CLOCK_INPUT, 2)
                        + Scale[4] * ClockByte(r.CLOCK_INPUT, 3)
    <3> HIDE DEF r
    <3> QED BY <1>2, <2>5 DEF Shown
  <2>9. Shown(\h45) = time
    <3> HIDE DEF time
    <3> QED BY <2>2, <2>7, BytesAre
  <2>10. Shown(\h41) = r.CLOCK_INPUT
    <3> HIDE DEF r
    <3> QED BY <2>6, <2>8, BytesAre
  <2> QED BY <1>2, <2>3, <2>9, <2>10 DEF Shows
<1> QED BY <1>1, <1>2

LEMMA ShownIsNext == ClockInv' => Shows(board, now, Shown(\h45), Shown(\h41), Mode)'
BY ShownIs, PTL

\* Port 40: the time that is loaded is that which was written; else the time shown stays
LEMMA ControlShows ==
  ASSUME NEW s, NEW t, NEW v \in Nat, InTime(s), now \in Nat,
         Clocks(t) = <<v % 4, s.hwregs.CLOCK_INPUT, NewDiff(s, v)>>
  PROVE  /\ InTime(t)
         /\ TimeOf(t.hwregs, now) = IF BitOf(v, 1) /\ ~BitOf(s.hwregs.CLOCK_MODE, 1)
                                    THEN s.hwregs.CLOCK_INPUT ELSE TimeOf(s.hwregs, now)
<1> DEFINE m == BitOf(s.hwregs.CLOCK_MODE, 0)
           on == BitOf(v, 0)
           load == BitOf(v, 1) /\ ~BitOf(s.hwregs.CLOCK_MODE, 1)
           input == s.hwregs.CLOCK_INPUT
           diff == s.hwregs.CLOCK_DIFF
           d == NewDiff(s, v)
           P == 0 .. ClockPeriod - 1
<1>1. /\ t.hwregs.CLOCK_MODE = v % 4 /\ t.hwregs.CLOCK_INPUT = input /\ t.hwregs.CLOCK_DIFF = d
    BY DEF Clocks
<1>2. d = IF load THEN IF on THEN Wrap(input - now) ELSE input
          ELSE IF m = on THEN diff ELSE IF on THEN Wrap(diff - now) ELSE Wrap(diff + now)
    BY DEF NewDiff
<1>3. TimeOf(t.hwregs, now) = Wrap((IF on THEN now ELSE 0) + d) BY <1>1, LowBits DEF TimeOf
<1>4. TimeOf(s.hwregs, now) = Wrap((IF m THEN now ELSE 0) + diff) BY DEF TimeOf
<1>5. input \in P /\ diff \in P BY DEF InTime
<1>6. /\ input \in Int /\ diff \in Int /\ now \in Int /\ input - now \in Int
      /\ diff - now \in Int /\ diff + now \in Int
    BY <1>5, PeriodIs
<1>7. m \in BOOLEAN /\ on \in BOOLEAN BY DEF BitOf
<1>8. v % 4 \in 0..3 BY LowBits
<1> HIDE DEF m, on, load, input, diff, d, P
<1>9. \A n \in Int : Wrap(n) \in P BY WrapIs DEF P
<1>10. \A n \in P : Wrap(n) = n BY WrapIs DEF P
<1>11. \A a, n \in Int : Wrap(a + Wrap(n)) = Wrap(a + n) BY WrapIs
<1>12. d \in P BY <1>2, <1>5, <1>6, <1>9
<1>13. InTime(t) BY <1>1, <1>5, <1>8, <1>12 DEF InTime, P
<1>14. load => Wrap((IF on THEN now ELSE 0) + d) = input
  <2>1. now + (input - now) = input /\ 0 + input = input BY <1>6
  <2>2. Wrap(now + Wrap(input - now)) = Wrap(now + (input - now)) BY <1>6, <1>11
  <2>3. Wrap(input) = input BY <1>5, <1>10
  <2> QED BY <1>2, <2>1, <2>2, <2>3
<1>15. ~load => Wrap((IF on THEN now ELSE 0) + d) = Wrap((IF m THEN now ELSE 0) + diff)
  <2>1. CASE m = on BY <1>2, <2>1
  <2>2. CASE on /\ ~m
    <3>1. now + (diff - now) = 0 + diff BY <1>6
    <3>2. Wrap(now + Wrap(diff - now)) = Wrap(now + (diff - now)) BY <1>6, <1>11
    <3> QED BY <1>2, <2>2, <3>1, <3>2
  <2>3. CASE ~on /\ m
    <3>1. 0 + (diff + now) = now + diff BY <1>6
    <3>2. Wrap(0 + Wrap(diff + now)) = Wrap(0 + (diff + now)) BY <1>6, <1>11
    <3> QED BY <1>2, <2>3, <3>1, <3>2
  <2> QED BY <1>7, <2>1, <2>2, <2>3
<1>16. TimeOf(t.hwregs, now) = IF load THEN input ELSE TimeOf(s.hwregs, now)
    BY <1>3, <1>4, <1>14, <1>15
<1> QED BY <1>13, <1>16 DEF load, input

LEMMA SecondShows ==
  ASSUME NEW s, InTime(s), now \in Nat
  PROVE  TimeOf(s.hwregs, now + 1) =
           (IF BitOf(s.hwregs.CLOCK_MODE, 0) THEN TimeOf(s.hwregs, now) + 1
            ELSE TimeOf(s.hwregs, now)) % ClockPeriod
<1> DEFINE m == BitOf(s.hwregs.CLOCK_MODE, 0)
           diff == s.hwregs.CLOCK_DIFF
           k == now + diff
<1>1. diff \in 0 .. ClockPeriod - 1 BY DEF InTime
<1>2. diff \in Int /\ now \in Int /\ k \in Int /\ Wrap(k) \in Int /\ Wrap(0 + diff) \in Int
  <2>1. diff \in Int /\ now \in Int BY <1>1, PeriodIs
  <2>2. k \in Int /\ 0 + diff \in Int BY <2>1
  <2> HIDE DEF k, diff
  <2>3. \A n \in Int : Wrap(n) \in Int BY WrapIs, PeriodIs
  <2> QED BY <2>1, <2>2, <2>3
<1>3. TimeOf(s.hwregs, now) = IF m THEN Wrap(k) ELSE Wrap(0 + diff) BY DEF TimeOf
<1>4. TimeOf(s.hwregs, now + 1) = IF m THEN Wrap((now + 1) + diff) ELSE Wrap(0 + diff)
    BY DEF TimeOf
<1>5. (now + 1) + diff = 1 + k BY <1>2
<1> HIDE DEF m, diff, k
<1>6. Wrap(1 + Wrap(k)) = Wrap(1 + k) BY <1>2, WrapIs
<1>7. Wrap(k) + 1 = 1 + Wrap(k) BY <1>2
<1>8. Wrap(0 + diff) \in 0 .. ClockPeriod - 1
  <2>1. 0 + diff \in Int BY <1>2
  <2> QED BY <2>1, WrapIs
<1>9. Wrap(Wrap(0 + diff)) = Wrap(0 + diff) BY <1>8, WrapIs
<1>10. \A n : Wrap(n) = n % ClockPeriod BY DEF Wrap
<1> QED BY <1>3, <1>4, <1>5, <1>6, <1>7, <1>9, <1>10 DEF m

\* A board whose clock is the same shows the same
LEMMA SameClock ==
  ASSUME NEW s, NEW t, Clocks(t) = Clocks(s), t.hw = s.hw
  PROVE  /\ InTime(s) => InTime(t)
         /\ \A n : TimeOf(t.hwregs, n) = TimeOf(s.hwregs, n)
         /\ \A n, time, written, mode :
              Shows(t, n, time, written, mode) <=> Shows(s, n, time, written, mode)
<1>1. /\ t.hwregs.CLOCK_MODE = s.hwregs.CLOCK_MODE /\ t.hwregs.CLOCK_INPUT = s.hwregs.CLOCK_INPUT
      /\ t.hwregs.CLOCK_DIFF = s.hwregs.CLOCK_DIFF
    BY DEF Clocks
<1>2. \A n : TimeOf(t.hwregs, n) = TimeOf(s.hwregs, n) BY <1>1 DEF TimeOf
<1> QED BY <1>1, <1>2 DEF InTime, Shows

LEMMA ClockMoves ==
  ASSUME HwInv, [HwNext]_hwVars
  PROVE  /\ HwInv' /\ board'.hw = board.hw
         /\ \/ Clocks(board') = Clocks(board) /\ now' \in {now, now + 1}
            \/ ClockWritten(board, board') /\ now' = now
<1>1. HwInv' BY HwNext_Inv
<1>2. use' = use
    BY DEF HwNext, hwVars, Out, In, Read, Fetch, Exception, OnKey, LinkChanges, TimerRings,
           SecondPasses, HwReset
<1>3. board'.hw = board.hw BY <1>1, <1>2 DEF HwInv
<1>4. CASE UNCHANGED hwVars BY <1>1, <1>3, <1>4 DEF hwVars
<1>5. CASE SecondPasses BY <1>1, <1>3, <1>5 DEF SecondPasses
<1>6. CASE Out BY <1>1, <1>3, <1>6, OutStep
<1>7. CASE Read BY <1>1, <1>3, <1>7, ReadStep
<1>8. CASE Fetch BY <1>1, <1>3, <1>8, FetchStep
<1>9. CASE In \/ Exception \/ OnKey \/ LinkChanges \/ TimerRings \/ HwReset
    BY <1>1, <1>3, <1>9, OtherSteps
<1> QED BY <1>4, <1>5, <1>6, <1>7, <1>8, <1>9 DEF HwNext

LEMMA ClockInit_Inv == HwInit => ClockInv /\ Clock!ClockInit
<1> SUFFICES ASSUME HwInit PROVE ClockInv /\ Clock!ClockInit
    OBVIOUS
<1>1. HwInv BY HwInit_Inv
<1>2. Clocks(board) = <<0, 0, 0>>
  <2>1. use.hw \in Models BY UsesOfModels DEF HwInit
  <2> QED BY <2>1, NewIsSound DEF HwInit
<1>3. InTime(board) /\ now = 0
  <2>1. 0 \in 0 .. ClockPeriod - 1 BY PeriodIs
  <2> QED BY <1>2, <2>1 DEF Clocks, InTime, HwInit
<1>4. ClockInv BY <1>1, <1>3 DEF ClockInv
<1>5. Shows(board, now, Shown(\h45), Shown(\h41), Mode) BY <1>4, ShownIs
<1>6. /\ board.hwregs.CLOCK_MODE = 0 /\ board.hwregs.CLOCK_INPUT = 0
      /\ board.hwregs.CLOCK_DIFF = 0
    BY <1>2 DEF Clocks
<1>7. 0 \in 0 .. ClockPeriod - 1 BY PeriodIs
<1>8. TimeOf(board.hwregs, now) \in 0 .. ClockPeriod - 1
  <2>1. (IF BitOf(board.hwregs.CLOCK_MODE, 0) THEN now ELSE 0) + board.hwregs.CLOCK_DIFF \in Int
      BY <1>3, <1>6
  <2> QED BY <2>1, WrapIs DEF TimeOf
<1>9. /\ Shown(\h45) \in 0 .. ClockPeriod - 1 /\ Shown(\h41) \in 0 .. ClockPeriod - 1
    BY <1>5, <1>6, <1>7, <1>8 DEF Shows
<1>10. BitOf(Mode, 0) \in BOOLEAN /\ BitOf(Mode, 1) \in BOOLEAN BY DEF BitOf
<1> QED BY <1>4, <1>9, <1>10 DEF Clock!ClockInit

LEMMA ClockNext_Inv ==
  ASSUME ClockInv, [HwNext]_hwVars
  PROVE  ClockInv' /\ [Clock!ClockNext]_(Clock!clockVars)
<1> DEFINE time == Shown(\h45)
           written == Shown(\h41)
           after == time'
           input == written'
<1>1. /\ HwInv' /\ board'.hw = board.hw
      /\ \/ Clocks(board') = Clocks(board) /\ now' \in {now, now + 1}
         \/ ClockWritten(board, board') /\ now' = now
    BY ClockMoves DEF ClockInv
<1>2. InTime(board) /\ now \in Nat BY DEF ClockInv
<1>3. Shows(board, now, time, written, Mode) BY ShownIs
<1>4. ClockInv' => Shows(board', now', after, input, Mode') BY ShownIsNext
<1>5. ASSUME ClockInv', after = time, input = written, Mode' = Mode
      PROVE  [Clock!ClockNext]_(Clock!clockVars)
    BY <1>5 DEF Clock!clockVars
<1> HIDE DEF time, written, after, input
<1>6. CASE Clocks(board') = Clocks(board) /\ now' = now
  <2>1. ClockInv' BY <1>1, <1>2, <1>6, SameClock DEF ClockInv
  <2>2. Shows(board, now, after, input, Mode') BY <1>1, <1>4, <1>6, <2>1, SameClock
  <2>3. after = time /\ input = written /\ Mode' = Mode BY <1>3, <2>2 DEF Shows
  <2> QED BY <1>5, <2>1, <2>3
<1>7. CASE Clocks(board') = Clocks(board) /\ now' = now + 1
  <2>1. ClockInv' BY <1>1, <1>2, <1>7, SameClock DEF ClockInv
  <2>2. Shows(board, now + 1, after, input, Mode') BY <1>1, <1>4, <1>7, <2>1, SameClock
  <2>3. CASE board.hw \notin HasClock
    <3>1. after = time /\ input = written /\ Mode' = Mode BY <1>3, <2>2, <2>3 DEF Shows
    <3> QED BY <1>5, <2>1, <3>1
  <2>4. CASE board.hw \in HasClock
    <3>1. /\ time = TimeOf(board.hwregs, now) /\ Mode = board.hwregs.CLOCK_MODE
          /\ after = TimeOf(board.hwregs, now + 1)
          /\ input = written /\ Mode' = Mode
        BY <1>3, <2>2, <2>4 DEF Shows
    <3>2. after = (IF BitOf(Mode, 0) THEN time + 1 ELSE time) % ClockPeriod
        BY <1>2, <3>1, SecondShows
    <3>3. Clock!Passes
        BY <3>1, <3>2 DEF Clock!Passes, time, after, written, input
    <3> QED BY <2>1, <3>3 DEF Clock!ClockNext
  <2> QED BY <2>3, <2>4
<1>8. ASSUME board.hw \in HasClock, NEW v \in Nat, now' = now,
             Clocks(board') = <<v % 4, board.hwregs.CLOCK_INPUT, NewDiff(board, v)>>
      PROVE  ClockInv' /\ [Clock!ClockNext]_(Clock!clockVars)
  <2>1. /\ InTime(board')
        /\ TimeOf(board'.hwregs, now) =
             IF BitOf(v, 1) /\ ~BitOf(board.hwregs.CLOCK_MODE, 1)
             THEN board.hwregs.CLOCK_INPUT ELSE TimeOf(board.hwregs, now)
      BY <1>2, <1>8, ControlShows
  <2>2. ClockInv' BY <1>1, <1>2, <1>8, <2>1 DEF ClockInv
  <2>3. /\ time = TimeOf(board.hwregs, now) /\ written = board.hwregs.CLOCK_INPUT
        /\ Mode = board.hwregs.CLOCK_MODE
      BY <1>3, <1>8 DEF Shows
  <2>4. /\ after = TimeOf(board'.hwregs, now) /\ input = board'.hwregs.CLOCK_INPUT
        /\ Mode' = board'.hwregs.CLOCK_MODE
      BY <1>1, <1>4, <1>8, <2>2 DEF Shows
  <2>5. board'.hwregs.CLOCK_INPUT = board.hwregs.CLOCK_INPUT /\ board'.hwregs.CLOCK_MODE = v % 4
      BY <1>8 DEF Clocks
  <2>6. /\ after = IF BitOf(v, 1) /\ ~BitOf(Mode, 1) THEN written ELSE time
        /\ input = written /\ Mode' = v % 4
      BY <2>1, <2>3, <2>4, <2>5
  <2>7. BitOf(Mode', 0) = BitOf(v, 0) /\ BitOf(Mode', 1) = BitOf(v, 1) BY <2>6, LowBits
  <2>8. BitOf(Mode, 0)' = BitOf(Mode', 0) /\ BitOf(Mode, 1)' = BitOf(Mode', 1) BY DEF BitOf
  <2>9. BitOf(v, 0) \in BOOLEAN /\ BitOf(v, 1) \in BOOLEAN BY DEF BitOf
  <2>10. Clock!Order(BitOf(v, 0), BitOf(v, 1))
      BY <2>6, <2>7, <2>8 DEF Clock!Order, time, after, written, input
  <2> QED BY <2>2, <2>9, <2>10 DEF Clock!ClockNext
<1>9. ASSUME board.hw \in HasClock, NEW v \in Nat, NEW i \in 0..3, now' = now,
             Clocks(board') = <<board.hwregs.CLOCK_MODE, NewInput(board, i, v),
                                board.hwregs.CLOCK_DIFF>>
      PROVE  ClockInv' /\ [Clock!ClockNext]_(Clock!clockVars)
  <2>1. /\ board'.hwregs.CLOCK_MODE = board.hwregs.CLOCK_MODE
        /\ board'.hwregs.CLOCK_INPUT = NewInput(board, i, v)
        /\ board'.hwregs.CLOCK_DIFF = board.hwregs.CLOCK_DIFF
      BY <1>9 DEF Clocks
  <2>2. NewInput(board, i, v) \in 0 .. ClockPeriod - 1 BY <1>2, InputFits DEF InTime
  <2>3. InTime(board') BY <1>2, <2>1, <2>2 DEF InTime
  <2>4. ClockInv' BY <1>1, <1>2, <1>9, <2>3 DEF ClockInv
  <2>5. TimeOf(board'.hwregs, now) = TimeOf(board.hwregs, now) BY <2>1 DEF TimeOf
  <2>6. time = TimeOf(board.hwregs, now) /\ Mode = board.hwregs.CLOCK_MODE
      BY <1>3, <1>9 DEF Shows
  <2>7. /\ after = TimeOf(board'.hwregs, now) /\ input = board'.hwregs.CLOCK_INPUT
        /\ Mode' = board'.hwregs.CLOCK_MODE
      BY <1>1, <1>4, <1>9, <2>4 DEF Shows
  <2>8. after = time /\ Mode' = Mode /\ input \in 0 .. ClockPeriod - 1
      BY <2>1, <2>2, <2>5, <2>6, <2>7
  <2>9. Clock!Write BY <2>8 DEF Clock!Write, time, after, written, input
  <2> QED BY <2>4, <2>9 DEF Clock!ClockNext
<1> QED BY <1>1, <1>6, <1>7, <1>8, <1>9 DEF ClockWritten

(***************************************************************************)
(* The clock of a TI-84 Plus is a clock: what a program reads from ports   *)
(* 45 to 48 goes on by a second for each second of the host while it runs, *)
(* stays as it is when it is started or stopped, and is set only by an     *)
(* order to load (x4_z80_out and x4_z80_in, ports 40 to 48), however the   *)
(* program's accesses, the interrupts and the resets come between.         *)
(***************************************************************************)
THEOREM ClockImplemented == HwSpec => ImplementsClock
<1>1. HwInit => ClockInv /\ Clock!ClockInit BY ClockInit_Inv
<1>2. ClockInv /\ [HwNext]_hwVars => ClockInv' /\ [Clock!ClockNext]_(Clock!clockVars)
    BY ClockNext_Inv
<1> QED BY <1>1, <1>2, PTL DEF HwSpec, ImplementsClock, Clock!ClockSpec

-----------------------------------------------------------------------------
(***************************************************************************)
(* What is kept of ports.  The memory map, the delays, the limits of RAM   *)
(* and the groups of Flash are computed where a port is written and used   *)
(* until the next write.  A board is Kept when they are what its ports     *)
(* say.  A handler either leaves alone what they are made of, or makes     *)
(* them anew.                                                              *)
(***************************************************************************)
\* The registers that a model's map is made of
BanksOf ==
  [x1 |-> {"HW_VERSION", "PORT2", "PORT5", "PORT6"}, x2 |-> {"PORT2", "PORT4"},
   x3 |-> {"ROM_BANK", "PORT2", "PORT4"}, x5 |-> {"PORT5", "PORT6"},
   x6 |-> {"PORT5", "PORT6"}, x7 |-> {"PORT4", "PORT6", "PORT7"},
   xp |-> {"PORT4", "PORT6", "PORT7"}, x4 |-> {"PORT4", "PORT5", "PORT6", "PORT7"},
   xs |-> {"PORT4", "PORT5", "PORT6", "PORT7"}, xz |-> {"PORT4", "PORT5", "PORT6", "PORT7"},
   xn |-> {"PORT4", "PORT5", "PORT6", "PORT7"},
   xc |-> {"PORT4", "PORT5", "PORT6", "PORT7", "PORTE", "PORTF"}]

DelaySources == {"PORT20", "PORT29", "PORT2A", "PORT2B", "PORT2C", "PORT2E"}
Delays == {"FLASH_EXEC_DELAY", "FLASH_READ_DELAY", "FLASH_WRITE_DELAY", "RAM_EXEC_DELAY",
           "RAM_READ_DELAY", "RAM_WRITE_DELAY", "LCD_PORT_DELAY"}
Limits == {"PORT21", "PORT25", "PORT26", "NO_EXEC_RAM_LOWER", "NO_EXEC_RAM_UPPER"}
Overlays == {"PORT27", "PORT28"}

\* The maps of three models after a reset
ResetMap == [x1 |-> <<0, 1, 0, 2>>, x2 |-> <<0, 0, 9, 8>>, x3 |-> <<0, 0, 17, 16>>]

MapRight(s) ==
  \/ s.map = setup_mapping(s.hw, s.hwregs)
  \/ s.hw \in DOMAIN ResetMap /\ s.map = ResetMap[s.hw]

DelaysRight(s) == \A n \in Delays : s.hwregs[n] = DelaysOf(s.hwregs)[n]

LimitsRight(s) ==
  /\ s.hw \notin {"x4", "xn"} => s.override = s.hwregs.PORT21 % 4
  /\ s.hw # "xn" => /\ s.hwregs.NO_EXEC_RAM_LOWER = s.hwregs.PORT25 * \h400
                    /\ s.hwregs.NO_EXEC_RAM_UPPER = s.hwregs.PORT26 * \h400

Bytes(s) ==
  s.hwregs.PORT20 \in 0..255 /\ s.hwregs.PORT27 \in 0..255 /\ s.hwregs.PORT28 \in 0..255

Kept(s) ==
  /\ IsBoard(s) /\ MapRight(s) /\ Bytes(s)
  /\ s.hw \in SilverModels => DelaysRight(s) /\ LimitsRight(s)

\* What nothing is kept of, in any model
Loose ==
  RegisterNames \ (BankRegisters \cup DelaySources \cup Delays \cup Limits \cup Overlays)

\* What nothing is kept of in one model
Free(hw) ==
  RegisterNames \ (BanksOf[hw] \cup DelaySources \cup Delays \cup Limits \cup Overlays)

Banks == BankRegisters \cup Loose
Pace == DelaySources \cup Loose

\* Only these registers may differ
Leaves(s, t, names) ==
  /\ IsBoard(t) /\ t.hw = s.hw /\ t.map = s.map /\ t.override = s.override
  /\ \A n \in RegisterNames \ names : t.hwregs[n] = s.hwregs[n]

LEMMA NamesAre ==
  /\ BankRegisters \subseteq RegisterNames /\ DelaySources \subseteq RegisterNames
  /\ Delays \subseteq RegisterNames /\ Limits \subseteq RegisterNames
  /\ Overlays \subseteq RegisterNames
<1>1. BankRegisters \subseteq RegisterNames BY DEF BankRegisters, RegisterNames
<1>2. DelaySources \subseteq RegisterNames BY DEF DelaySources, RegisterNames
<1>3. Delays \subseteq RegisterNames BY DEF Delays, RegisterNames
<1>4. Limits \subseteq RegisterNames BY DEF Limits, RegisterNames
<1>5. Overlays \subseteq RegisterNames BY DEF Overlays, RegisterNames
<1> QED BY <1>1, <1>2, <1>3, <1>4, <1>5

LEMMA NamesApart ==
  /\ BankRegisters \cap DelaySources = {} /\ BankRegisters \cap Delays = {}
  /\ BankRegisters \cap Limits = {} /\ BankRegisters \cap Overlays = {}
  /\ DelaySources \cap Delays = {} /\ DelaySources \cap Limits = {}
  /\ DelaySources \cap Overlays = {} /\ Delays \cap Limits = {} /\ Delays \cap Overlays = {}
  /\ Limits \cap Overlays = {}
BY DEF BankRegisters, DelaySources, Delays, Limits, Overlays

LEMMA BanksAre == \A hw \in Models : BanksOf[hw] \subseteq BankRegisters
BY DEF BanksOf, Models, BankRegisters

LEMMA LeavesSelf == \A s, names : IsBoard(s) => Leaves(s, s, names)
BY DEF Leaves

LEMMA LeavesThen ==
  \A s, t, u, a, b, c :
    Leaves(s, t, a) /\ Leaves(t, u, b) /\ a \subseteq c /\ b \subseteq c => Leaves(s, u, c)
BY DEF Leaves

LEMMA LeavesMore == \A s, t, a, c : Leaves(s, t, a) /\ a \subseteq c => Leaves(s, t, c)
BY DEF Leaves

LEMMA LeavesWith ==
  \A s, v : \A name \in RegisterNames : IsBoard(s) =>
    Leaves(s, With(s, name, v), {name}) /\ With(s, name, v).hwregs[name] = v
BY DEF With, IsBoard, Fields, Leaves

-----------------------------------------------------------------------------
\* A map depends on the banks of its model
LEMMA SetupAgrees ==
  ASSUME NEW hw \in Models, NEW r, NEW q, \A n \in BanksOf[hw] : q[n] = r[n]
  PROVE  setup_mapping(hw, q) = setup_mapping(hw, r)
<1>1. CASE hw = "x1"
  <2>1. /\ q.HW_VERSION = r.HW_VERSION /\ q.PORT2 = r.PORT2 /\ q.PORT5 = r.PORT5
        /\ q.PORT6 = r.PORT6
      BY <1>1 DEF BanksOf
  <2> QED BY <1>1, <2>1 DEF setup_mapping, x1_setup_mapping
<1>2. CASE hw = "x2"
  <2>1. q.PORT2 = r.PORT2 /\ q.PORT4 = r.PORT4 BY <1>2 DEF BanksOf
  <2> QED BY <1>2, <2>1 DEF setup_mapping, x2_setup_mapping
<1>3. CASE hw = "x3"
  <2>1. q.PORT2 = r.PORT2 /\ q.PORT4 = r.PORT4 /\ q.ROM_BANK = r.ROM_BANK
      BY <1>3 DEF BanksOf
  <2> QED BY <1>3, <2>1 DEF setup_mapping, x3_setup_mapping
<1>4. CASE hw \in {"x5", "x6"}
  <2>1. q.PORT5 = r.PORT5 /\ q.PORT6 = r.PORT6 BY <1>4 DEF BanksOf
  <2> QED BY <1>4, <2>1 DEF setup_mapping, x5_setup_mapping, x6_setup_mapping
<1>5. CASE hw \in {"x7", "xp"}
  <2>1. q.PORT4 = r.PORT4 /\ q.PORT6 = r.PORT6 /\ q.PORT7 = r.PORT7 BY <1>5 DEF BanksOf
  <2> QED BY <1>5, <2>1 DEF setup_mapping, x7_setup_mapping, xp_setup_mapping
<1>6. CASE hw \in {"x4", "xs", "xz", "xn"}
  <2>1. /\ q.PORT4 = r.PORT4 /\ q.PORT5 = r.PORT5 /\ q.PORT6 = r.PORT6
        /\ q.PORT7 = r.PORT7
      BY <1>6 DEF BanksOf
  <2>2. \A rom : ThreeBanks(q, rom) = ThreeBanks(r, rom) BY <2>1 DEF ThreeBanks
  <2> QED BY <1>6, <2>2 DEF setup_mapping, x4_setup_mapping, xs_setup_mapping,
                            xz_setup_mapping, xn_setup_mapping
<1>7. CASE hw = "xc"
  <2>1. /\ q.PORT4 = r.PORT4 /\ q.PORT5 = r.PORT5 /\ q.PORT6 = r.PORT6
        /\ q.PORT7 = r.PORT7 /\ q.PORTE = r.PORTE /\ q.PORTF = r.PORTF
      BY <1>7 DEF BanksOf
  <2> QED BY <1>7, <2>1 DEF setup_mapping, xc_setup_mapping
<1> QED BY <1>1, <1>2, <1>3, <1>4, <1>5, <1>6, <1>7 DEF Models

\* The delays depend on their sources
LEMMA DelaysAgree ==
  ASSUME NEW r, NEW q, r.PORT20 \in Nat, \A n \in DelaySources : q[n] = r[n]
  PROVE  DelaysOf(q) = DelaysOf(r)
<1>1. q.PORT20 = r.PORT20 /\ q.PORT2E = r.PORT2E BY DEF DelaySources
<1>2. DelayPort[1 + (r.PORT20 % 4)] \in DelaySources BY DEF DelayPort, DelaySources
<1>3. q[DelayPort[1 + (q.PORT20 % 4)]] = r[DelayPort[1 + (r.PORT20 % 4)]] BY <1>1, <1>2
<1> QED BY <1>1, <1>3 DEF DelaysOf

LEMMA LeavesKept ==
  ASSUME NEW s, NEW t, Kept(s), Leaves(s, t, Free(s.hw))
  PROVE  Kept(t)
<1> DEFINE used == BanksOf[s.hw] \cup DelaySources \cup Delays \cup Limits \cup Overlays
<1>1. s.hw \in Models BY DEF Kept, IsBoard
<1>2. used \subseteq RegisterNames BY <1>1, NamesAre, BanksAre
<1>3. \A n \in used : t.hwregs[n] = s.hwregs[n] BY <1>2 DEF Leaves, Free
<1>4. /\ \A n \in BanksOf[s.hw] : t.hwregs[n] = s.hwregs[n]
      /\ \A n \in DelaySources : t.hwregs[n] = s.hwregs[n]
      /\ \A n \in Delays : t.hwregs[n] = s.hwregs[n]
      /\ \A n \in Limits : t.hwregs[n] = s.hwregs[n]
      /\ \A n \in Overlays : t.hwregs[n] = s.hwregs[n]
    BY <1>3
<1> HIDE DEF used
<1>5. MapRight(t)
  <2>1. setup_mapping(s.hw, t.hwregs) = setup_mapping(s.hw, s.hwregs)
      BY <1>1, <1>4, SetupAgrees
  <2> QED BY <2>1 DEF Kept, MapRight, Leaves
<1>6. Bytes(t) BY <1>4 DEF Kept, Bytes, DelaySources, Overlays
<1>7. DelaysRight(s) => DelaysRight(t)
  <2>1. s.hwregs.PORT20 \in Nat BY DEF Kept, Bytes
  <2>2. DelaysOf(t.hwregs) = DelaysOf(s.hwregs) BY <1>4, <2>1, DelaysAgree
  <2> QED BY <1>4, <2>2 DEF DelaysRight
<1>8. LimitsRight(s) => LimitsRight(t) BY <1>4 DEF LimitsRight, Limits, Leaves
<1> QED BY <1>5, <1>6, <1>7, <1>8 DEF Kept, Leaves

LEMMA LooseKept == \A s, t : Kept(s) /\ Leaves(s, t, Loose) => Kept(t)
<1> SUFFICES ASSUME NEW s, NEW t, Kept(s), Leaves(s, t, Loose) PROVE Kept(t)
    OBVIOUS
<1>1. Loose \subseteq Free(s.hw) BY BanksAre DEF Loose, Free, Kept, IsBoard
<1> QED BY <1>1, LeavesMore, LeavesKept

\* Of a map that is made anew it does not matter what the banks were.
LEMMA RemapKept ==
  ASSUME NEW s, NEW u, Kept(s), Leaves(s, u, Banks)
  PROVE  Kept(Remap(u))
<1> DEFINE t == Remap(u)
<1>1. /\ IsBoard(t) /\ t.hw = s.hw /\ t.map = setup_mapping(t.hw, t.hwregs)
      /\ t.override = s.override /\ t.hwregs = u.hwregs
    BY DEF Remap, Leaves, IsBoard, Fields
<1> HIDE DEF t
<1>2. /\ \A n \in DelaySources : t.hwregs[n] = s.hwregs[n]
      /\ \A n \in Delays : t.hwregs[n] = s.hwregs[n]
      /\ \A n \in Limits : t.hwregs[n] = s.hwregs[n]
      /\ \A n \in Overlays : t.hwregs[n] = s.hwregs[n]
    BY <1>1, NamesAre, NamesApart DEF Leaves, Banks, Loose
<1>3. Bytes(t) BY <1>2 DEF Kept, Bytes, DelaySources, Overlays
<1>4. DelaysRight(s) => DelaysRight(t)
  <2>1. s.hwregs.PORT20 \in Nat BY DEF Kept, Bytes
  <2>2. DelaysOf(t.hwregs) = DelaysOf(s.hwregs) BY <1>2, <2>1, DelaysAgree
  <2> QED BY <1>2, <2>2 DEF DelaysRight
<1>5. LimitsRight(s) => LimitsRight(t) BY <1>1, <1>2 DEF LimitsRight, Limits
<1>6. MapRight(t) BY <1>1 DEF MapRight
<1> QED BY <1>1, <1>3, <1>4, <1>5, <1>6 DEF Kept, t

\* So it is with the delays.
LEMMA SlowedKept ==
  ASSUME NEW s, NEW u, Kept(s), Leaves(s, u, Pace), u.hwregs.PORT20 \in 0..255
  PROVE  Kept(setup_clockdelays(u))
<1> DEFINE t == setup_clockdelays(u)
           new == DelaysOf(u.hwregs)
<1>1. DOMAIN new = Delays BY DEF DelaysOf, Delays
<1>2. /\ IsBoard(t) /\ t.hw = s.hw /\ t.map = s.map /\ t.override = s.override
      /\ \A n \in RegisterNames :
           t.hwregs[n] = IF n \in Delays THEN new[n] ELSE u.hwregs[n]
  <2> HIDE DEF new
  <2> QED BY <1>1 DEF setup_clockdelays, Leaves, IsBoard, Fields, new
<1> HIDE DEF t, new
<1>3. /\ \A n \in BankRegisters : t.hwregs[n] = s.hwregs[n]
      /\ \A n \in Limits : t.hwregs[n] = s.hwregs[n]
      /\ \A n \in Overlays : t.hwregs[n] = s.hwregs[n]
      /\ \A n \in DelaySources : t.hwregs[n] = u.hwregs[n]
      /\ \A n \in Delays : t.hwregs[n] = new[n]
    BY <1>2, NamesAre, NamesApart DEF Leaves, Pace, Loose
<1>4. t.hwregs.PORT20 \in 0..255 BY <1>3 DEF DelaySources
<1>5. Bytes(t) BY <1>3, <1>4 DEF Kept, Bytes, Overlays
<1>6. DelaysRight(t)
  <2>1. u.hwregs.PORT20 \in Nat OBVIOUS
  <2>2. DelaysOf(t.hwregs) = new BY <1>3, <2>1, DelaysAgree DEF new
  <2> QED BY <1>3, <2>2 DEF DelaysRight
<1>7. LimitsRight(s) => LimitsRight(t) BY <1>2, <1>3 DEF LimitsRight, Limits
<1>8. MapRight(t)
  <2>1. s.hw \in Models BY DEF Kept, IsBoard
  <2>2. setup_mapping(s.hw, t.hwregs) = setup_mapping(s.hw, s.hwregs)
      BY <1>3, <2>1, BanksAre, SetupAgrees
  <2> QED BY <1>2, <2>2 DEF Kept, MapRight
<1> QED BY <1>2, <1>5, <1>6, <1>7, <1>8 DEF Kept, t

-----------------------------------------------------------------------------
\* What touches nothing that anything is kept of
LEMMA LooseNames ==
  {"PORT0", "PORT3", "PORT8", "PORT9", "PORTA", "PORTB", "PORTC", "PORT22", "PORT23", "PORT24",
   "PORT2D", "PORT2F", "PORT39", "PORT3A", "NOEXEC", "NOEXEC1", "NOEXEC2", "NOEXEC3",
   "NOEXEC4", "NO_EXEC_RAM", "NO_EXEC_RAM_MASK", "LCD_WAIT", "PROTECTSTATE",
   "CLOCK_MODE", "CLOCK_INPUT", "CLOCK_DIFF", "BACKLIGHT_ON", "BACKLIGHT_LEVEL"} \subseteq Loose
BY DEF Loose, RegisterNames, BankRegisters, DelaySources, Delays, Limits, Overlays

LEMMA LooseWith ==
  \A s, v : \A name \in Loose : IsBoard(s) => Leaves(s, With(s, name, v), Loose)
<1> SUFFICES ASSUME NEW s, NEW v, NEW name \in Loose, IsBoard(s)
             PROVE Leaves(s, With(s, name, v), Loose)
    OBVIOUS
<1>1. name \in RegisterNames BY DEF Loose
<1>2. Leaves(s, With(s, name, v), {name}) BY <1>1, LeavesWith
<1> QED BY <1>2, LeavesMore

LEMMA WithdrawLeaves == \A s, v, which : IsBoard(s) => Leaves(s, Withdraw(s, v, which), Loose)
BY DEF Withdraw, IsBoard, Fields, Leaves

LEMMA LevelsLeave == \A s : IsBoard(s) => Leaves(s, link_levels(s), Loose)
BY DEF link_levels, IsBoard, Fields, Leaves

LEMMA SetModeLeaves == \A s, mode : IsBoard(s) => Leaves(s, linkport_set_mode(s, mode), Loose)
<1> SUFFICES ASSUME NEW s, NEW mode, IsBoard(s)
             PROVE Leaves(s, linkport_set_mode(s, mode), Loose)
    OBVIOUS
<1> DEFINE turned == ("assist" \in mode) # ("assist" \in s.mode)
           t == [s EXCEPT !.mode = mode,
                    !.link = IF turned THEN @ \cup {"link_idle"} ELSE @,
                    !.ints = {i \in @ : i \in {"link_active", "link_error"}
                                          => FlagOf[i] \in mode}]
<1>1. Leaves(s, t, Loose) BY DEF IsBoard, Fields, Leaves
<1>2. linkport_set_mode(s, mode) = link_levels(t) BY DEF linkport_set_mode
<1> HIDE DEF t
<1>3. Leaves(t, link_levels(t), Loose) BY <1>1, LevelsLeave DEF Leaves
<1> QED BY <1>1, <1>2, <1>3, LeavesThen

LEMMA MaskLeaves == \A s, v, which : IsBoard(s) => Leaves(s, out_mask(s, v, which), Loose)
<1> SUFFICES ASSUME NEW s, NEW v, NEW which, IsBoard(s)
             PROVE Leaves(s, out_mask(s, v, which), Loose)
    OBVIOUS
<1> DEFINE t == Withdraw(s, v, which \cup {"on_key"})
           u == [t EXCEPT !.onkeyint = BitOf(v, 0), !.poweronhalt = BitOf(v, 3)]
<1>1. Leaves(s, t, Loose) BY WithdrawLeaves
<1>2. out_mask(s, v, which) = With(u, "PORT3", v) BY DEF out_mask
<1> HIDE DEF t
<1>3. Leaves(t, u, Loose) BY <1>1 DEF IsBoard, Fields, Leaves
<1> HIDE DEF u
<1>4. Leaves(u, With(u, "PORT3", v), Loose) BY <1>3, LooseWith, LooseNames DEF Leaves
<1> QED BY <1>1, <1>2, <1>3, <1>4, LeavesThen

LEMMA RaiseLeaves == \A s, i : IsBoard(s) => Leaves(s, raise_timer(s, i), Loose)
BY DEF raise_timer, IsBoard, Fields, Leaves

LEMMA LinkLeaves ==
  \A s, on : IsBoard(s) => Leaves(s, link_levels([s EXCEPT !.link = on]), Loose)
<1> SUFFICES ASSUME NEW s, NEW on, IsBoard(s)
             PROVE Leaves(s, link_levels([s EXCEPT !.link = on]), Loose)
    OBVIOUS
<1> DEFINE t == [s EXCEPT !.link = on]
<1>1. Leaves(s, t, Loose) BY DEF Leaves, IsBoard, Fields
<1> HIDE DEF t
<1>2. Leaves(t, link_levels(t), Loose) BY <1>1, LevelsLeave DEF Leaves
<1> QED BY <1>1, <1>2, LeavesThen DEF t

LEMMA LcdWaitLeaves == \A s : IsBoard(s) => Leaves(s, set_lcd_wait_timer(s), Loose)
<1> SUFFICES ASSUME NEW s, IsBoard(s) PROVE Leaves(s, set_lcd_wait_timer(s), Loose)
    OBVIOUS
<1> DEFINE t == [s EXCEPT !.lcd_wait = TRUE]
<1>1. Leaves(s, t, Loose) BY DEF Leaves, IsBoard, Fields
<1> HIDE DEF t
<1>2. Leaves(t, With(t, "LCD_WAIT", 1), Loose) BY <1>1, LooseWith, LooseNames DEF Leaves
<1>3. Leaves(s, With(t, "LCD_WAIT", 1), Loose) BY <1>1, <1>2, LeavesThen
<1> QED BY <1>3, LeavesSelf DEF set_lcd_wait_timer, t

\* Port 3 of the models with one timer
LEMMA ScreenMaskLeaves ==
  \A s, v, which : IsBoard(s) =>
    Leaves(s, [out_mask(s, v, which) EXCEPT !.lcd.active = BitOf(v, 3)], Loose)
<1> SUFFICES ASSUME NEW s, NEW v, NEW which, IsBoard(s)
             PROVE Leaves(s, [out_mask(s, v, which) EXCEPT !.lcd.active = BitOf(v, 3)], Loose)
    OBVIOUS
<1> DEFINE t == out_mask(s, v, which)
<1>1. Leaves(s, t, Loose) BY MaskLeaves
<1> HIDE DEF t
<1>2. Leaves(t, [t EXCEPT !.lcd.active = BitOf(v, 3)], Loose)
    BY <1>1 DEF Leaves, IsBoard, Fields
<1> QED BY <1>1, <1>2, LeavesThen DEF t

\* A bank that is written and shown
LEMMA BankKept ==
  \A s, v : \A name \in BankRegisters : Kept(s) => Kept(Remap(With(s, name, v)))
<1> SUFFICES ASSUME NEW s, NEW v, NEW name \in BankRegisters, Kept(s)
             PROVE Kept(Remap(With(s, name, v)))
    OBVIOUS
<1>1. Leaves(s, With(s, name, v), Banks) BY NamesAre, LeavesWith, LeavesMore DEF Kept, Banks
<1> QED BY <1>1, RemapKept

\* A register that nothing is kept of in this model
LEMMA FreeKept == \A s, v : \A name \in Free(s.hw) : Kept(s) => Kept(With(s, name, v))
<1> SUFFICES ASSUME NEW s, NEW v, NEW name \in Free(s.hw), Kept(s) PROVE Kept(With(s, name, v))
    OBVIOUS
<1>1. name \in RegisterNames BY DEF Free
<1>2. Leaves(s, With(s, name, v), {name}) BY <1>1, LeavesWith DEF Kept
<1>3. Leaves(s, With(s, name, v), Free(s.hw)) BY <1>2, LeavesMore
<1> QED BY <1>3, LeavesKept

LEMMA PeriodPortKept ==
  \A s, v, x : Kept(s) => Kept(Remap([With(s, "PORT4", v) EXCEPT !.int_period = x]))
<1> SUFFICES ASSUME NEW s, NEW v, NEW x, Kept(s)
             PROVE Kept(Remap([With(s, "PORT4", v) EXCEPT !.int_period = x]))
    OBVIOUS
<1> DEFINE t == With(s, "PORT4", v)
<1>1. Leaves(s, t, Banks)
  <2>1. "PORT4" \in BankRegisters BY DEF BankRegisters
  <2> QED BY <2>1, NamesAre, LeavesWith, LeavesMore DEF Kept, Banks
<1> HIDE DEF t
<1>2. Leaves(t, [t EXCEPT !.int_period = x], Banks) BY <1>1 DEF Leaves, IsBoard, Fields
<1>3. Leaves(s, [t EXCEPT !.int_period = x], Banks) BY <1>1, <1>2, LeavesThen
<1> QED BY <1>3, RemapKept DEF t

-----------------------------------------------------------------------------
\* The TI-81 to the TI-86
LEMMA x1_outKept == \A s, p, v : Kept(s) /\ s.hw = "x1" => Kept(x1_z80_out(s, p, v))
<1>1. ASSUME NEW s, NEW p, Kept(s), s.hw = "x1"
      PROVE  Kept(x1_detect(s, p)) /\ x1_detect(s, p).hw = "x1"
  <2>0. "HW_VERSION" \in BankRegisters BY DEF BankRegisters
  <2>1. Kept(Remap(With(s, "HW_VERSION", 1))) BY <1>1, <2>0, BankKept
  <2> DEFINE u == [s EXCEPT !.lcd.rowstride = 15]
  <2>2. Leaves(s, u, Loose) BY <1>1 DEF Kept, Leaves, IsBoard, Fields
  <2> HIDE DEF u
  <2>3. Kept(u) BY <1>1, <2>2, LooseKept
  <2>4. Kept(Remap(With(u, "HW_VERSION", 2))) BY <2>0, <2>3, BankKept
  <2>5. /\ Remap(With(s, "HW_VERSION", 1)).hw = "x1"
        /\ Remap(With(u, "HW_VERSION", 2)).hw = "x1"
      BY <1>1, <2>2, <2>3 DEF Remap, With, Kept, IsBoard, Fields, Leaves
  <2> QED BY <1>1, <2>1, <2>4, <2>5 DEF x1_detect, u
<1>2. ASSUME NEW s, NEW p, NEW v, Kept(s), s.hw = "x1" PROVE Kept(x1_out(s, p, v))
  <2>0. IsBoard(s) BY <1>2 DEF Kept
  <2>1. Kept([s EXCEPT !.lcd.addr = (v % 32) * 256])
    <3>1. Leaves(s, [s EXCEPT !.lcd.addr = (v % 32) * 256], Loose)
        BY <2>0 DEF Leaves, IsBoard, Fields
    <3> QED BY <1>2, <3>1, LooseKept
  <2>2. Kept(LET t == Remap(With(s, "PORT2", v))
             IN IF s.hwregs.HW_VERSION = 2 THEN t ELSE [t EXCEPT !.lcd.contrast = 16 + (v % 32)])
    <3> DEFINE t == Remap(With(s, "PORT2", v))
    <3>1. Kept(t) BY <1>2, BankKept DEF BankRegisters
    <3> HIDE DEF t
    <3>2. Leaves(t, [t EXCEPT !.lcd.contrast = 16 + (v % 32)], Loose)
        BY <3>1 DEF Kept, Leaves, IsBoard, Fields
    <3>3. Kept([t EXCEPT !.lcd.contrast = 16 + (v % 32)]) BY <3>1, <3>2, LooseKept
    <3> QED BY <3>1, <3>3 DEF t
  <2>3. Kept([out_mask(s, v, Timer1) EXCEPT !.lcd.active = BitOf(v, 3)])
      BY <1>2, <2>0, ScreenMaskLeaves, LooseKept
  <2>4. Kept(IF s.hwregs.HW_VERSION # 1 THEN With(s, "PORT4", v)
             ELSE [With(s, "PORT4", v) EXCEPT !.lcd.rowstride = Rowstride(v)])
    <3> DEFINE t == With(s, "PORT4", v)
    <3>1. "PORT4" \in Free(s.hw)
        BY <1>2 DEF Free, BanksOf, RegisterNames, DelaySources, Delays, Limits, Overlays
    <3>2. Kept(t) BY <1>2, <3>1, FreeKept
    <3> HIDE DEF t
    <3>3. Leaves(t, [t EXCEPT !.lcd.rowstride = Rowstride(v)], Loose)
        BY <3>2 DEF Kept, Leaves, IsBoard, Fields
    <3>4. Kept([t EXCEPT !.lcd.rowstride = Rowstride(v)]) BY <3>2, <3>3, LooseKept
    <3> QED BY <3>2, <3>4 DEF t
  <2>5. Kept(Remap(With(s, "PORT5", v))) /\ Kept(Remap(With(s, "PORT6", v)))
      BY <1>2, BankKept DEF BankRegisters
  <2> QED BY <1>2, <2>1, <2>2, <2>3, <2>4, <2>5, Zenon DEF x1_out
<1> QED BY <1>1, <1>2 DEF x1_z80_out, x1_detected

LEMMA x2_outKept == \A s, p, v : Kept(s) => Kept(x2_z80_out(s, p, v))
<1> SUFFICES ASSUME NEW s, NEW p, NEW v, Kept(s) PROVE Kept(x2_z80_out(s, p, v))
    OBVIOUS
<1>0. IsBoard(s) BY DEF Kept
<1>1. Kept(With(s, "PORT0", v)) BY <1>0, LooseWith, LooseNames, LooseKept
<1>2. Kept(Remap(With(s, "PORT2", v))) BY BankKept DEF BankRegisters
<1>3. Kept(out_mask(s, v, Timer1)) BY <1>0, MaskLeaves, LooseKept
<1>4. Kept(LET t == With(s, "PORT4", v)
           IN Remap(IF s.pclow THEN With(t, "HW_VERSION", IF BitOf(v, 4) THEN 1 ELSE 2)
                    ELSE t))
  <2> DEFINE t == With(s, "PORT4", v)
             n == IF BitOf(v, 4) THEN 1 ELSE 2
             u == IF s.pclow THEN With(t, "HW_VERSION", n) ELSE t
  <2>0. {"PORT4", "HW_VERSION"} \subseteq BankRegisters BY DEF BankRegisters
  <2>1. Leaves(s, t, Banks)
    <3>1. "PORT4" \in RegisterNames /\ {"PORT4"} \subseteq Banks BY <2>0, NamesAre DEF Banks
    <3> QED BY <1>0, <3>1, LeavesWith, LeavesMore
  <2> HIDE DEF t, n
  <2>2. Leaves(t, With(t, "HW_VERSION", n), Banks)
    <3>1. IsBoard(t) BY <2>1 DEF Leaves
    <3>2. "HW_VERSION" \in RegisterNames /\ {"HW_VERSION"} \subseteq Banks
        BY <2>0, NamesAre DEF Banks
    <3> QED BY <3>1, <3>2, LeavesWith, LeavesMore
  <2>3. Leaves(s, u, Banks) BY <2>1, <2>2, LeavesThen
  <2> HIDE DEF u
  <2>4. Kept(Remap(u)) BY <2>3, RemapKept
  <2> QED BY <2>4 DEF t, n, u
<1> QED BY <1>1, <1>2, <1>3, <1>4, Zenon DEF x2_z80_out

LEMMA x3_outKept == \A s, p, v : Kept(s) => Kept(x3_z80_out(s, p, v))
<1> SUFFICES ASSUME NEW s, NEW p, NEW v, Kept(s) PROVE Kept(x3_z80_out(s, p, v))
    OBVIOUS
<1>1. /\ Kept(Remap(With(s, "ROM_BANK", 8 * Num(BitOf(v, 4)))))
      /\ Kept(Remap(With(s, "PORT2", v)))
    BY BankKept DEF BankRegisters
<1>2. Kept(out_mask(s, v, Timers12)) BY MaskLeaves, LooseKept DEF Kept
<1>3. Kept(Remap([With(s, "PORT4", v)
            EXCEPT !.int_period = Periods3[1 + Num(BitOf(v, 4)) + 2 * ((v \div 2) % 4)]]))
    BY PeriodPortKept
<1> QED BY <1>1, <1>2, <1>3, Zenon DEF x3_z80_out

LEMMA x5_outKept ==
  \A s, p, v : Kept(s) /\ s.hw \in {"x5", "x6"} => Kept(x5_z80_out(s, p, v))
<1> SUFFICES ASSUME NEW s, NEW p, NEW v, Kept(s), s.hw \in {"x5", "x6"}
             PROVE Kept(x5_z80_out(s, p, v))
    OBVIOUS
<1>0. IsBoard(s) BY DEF Kept
<1>1. Kept([s EXCEPT !.lcd.addr = (v % 64) * 256])
      /\ Kept([s EXCEPT !.lcd.contrast = 16 + (v % 32)])
  <2>1. /\ Leaves(s, [s EXCEPT !.lcd.addr = (v % 64) * 256], Loose)
        /\ Leaves(s, [s EXCEPT !.lcd.contrast = 16 + (v % 32)], Loose)
      BY <1>0 DEF Leaves, IsBoard, Fields
  <2> QED BY <2>1, LooseKept
<1>2. Kept([out_mask(s, v, Timer1) EXCEPT !.lcd.active = BitOf(v, 3)])
    BY <1>0, ScreenMaskLeaves, LooseKept
<1>3. {"PORT4", "PORT7"} \subseteq Free(s.hw)
    BY DEF Free, BanksOf, RegisterNames, DelaySources, Delays, Limits, Overlays
<1>4. Kept([With(s, "PORT4", v) EXCEPT !.lcd.rowstride = Rowstride(v)])
  <2> DEFINE t == With(s, "PORT4", v)
  <2>1. Kept(t) BY <1>3, FreeKept
  <2> HIDE DEF t
  <2>2. Leaves(t, [t EXCEPT !.lcd.rowstride = Rowstride(v)], Loose)
      BY <2>1 DEF Kept, Leaves, IsBoard, Fields
  <2> QED BY <2>1, <2>2, LooseKept DEF t
<1>5. Kept(Remap(With(s, "PORT5", v))) /\ Kept(Remap(With(s, "PORT6", v)))
    BY BankKept DEF BankRegisters
<1>6. Kept(With(s, "PORT7", v)) BY <1>3, FreeKept
<1> QED BY <1>1, <1>2, <1>4, <1>5, <1>6, Zenon DEF x5_z80_out

-----------------------------------------------------------------------------
\* The TI-73 and the TI-83 Plus
LEMMA PlusPortsKept ==
  ASSUME NEW s, NEW v, Kept(s)
  PROVE  /\ \A mode : Kept(linkport_set_mode(s, mode))
                      /\ Kept(linkport_set_mode(out_mask(s, v, Timers12), mode))
         /\ \A x : /\ Kept(Remap([With(s, "PORT4", v) EXCEPT !.int_period = x]))
                   /\ Kept(Remap(With(s, "PORT6", x))) /\ Kept(Remap(With(s, "PORT7", x)))
                   /\ Kept([s EXCEPT !.unlock = x])
<1>0. IsBoard(s) BY DEF Kept
<1>1. ASSUME NEW mode
      PROVE  Kept(linkport_set_mode(s, mode))
             /\ Kept(linkport_set_mode(out_mask(s, v, Timers12), mode))
  <2>1. Kept(out_mask(s, v, Timers12)) BY <1>0, MaskLeaves, LooseKept
  <2>2. \A t : Kept(t) => Kept(linkport_set_mode(t, mode))
      BY SetModeLeaves, LooseKept DEF Kept
  <2> QED BY <2>1, <2>2
<1>2. ASSUME NEW x
      PROVE  /\ Kept(Remap([With(s, "PORT4", v) EXCEPT !.int_period = x]))
             /\ Kept(Remap(With(s, "PORT6", x))) /\ Kept(Remap(With(s, "PORT7", x)))
             /\ Kept([s EXCEPT !.unlock = x])
  <2>1. {"PORT6", "PORT7"} \subseteq BankRegisters BY DEF BankRegisters
  <2>2. Leaves(s, [s EXCEPT !.unlock = x], Loose) BY <1>0 DEF Leaves, IsBoard, Fields
  <2> QED BY <2>1, <2>2, PeriodPortKept, BankKept, LooseKept
<1> QED BY <1>1, <1>2

LEMMA x7_outKept == \A s, p, v : Kept(s) => Kept(x7_z80_out(s, p, v))
<1> SUFFICES ASSUME NEW s, NEW p, NEW v, Kept(s) PROVE Kept(x7_z80_out(s, p, v))
    OBVIOUS
<1>1. Kept(With(s, "NOEXEC", 4 * (v % 16))) BY LooseWith, LooseNames, LooseKept DEF Kept
<1> QED BY <1>1, PlusPortsKept, ZenonT(40) DEF x7_z80_out

LEMMA xp_outKept == \A s, p, v : Kept(s) /\ s.hw = "xp" => Kept(xp_z80_out(s, p, v))
<1> SUFFICES ASSUME NEW s, NEW p, NEW v, Kept(s), s.hw = "xp" PROVE Kept(xp_z80_out(s, p, v))
    OBVIOUS
<1>1. \A x : /\ Kept(With(s, "NOEXEC1", x)) /\ Kept(With(s, "NOEXEC2", x))
             /\ Kept(With(s, "NOEXEC3", x)) /\ Kept(With(s, "NOEXEC4", x))
    BY LooseWith, LooseNames, LooseKept DEF Kept
<1>2. Kept(xp_noexec(s, v)) BY <1>1, Zenon DEF xp_noexec
<1>3. Kept(With(s, "PORT5", v % 8))
  <2>1. "PORT5" \in Free(s.hw)
      BY DEF Free, BanksOf, RegisterNames, DelaySources, Delays, Limits, Overlays
  <2> QED BY <2>1, FreeKept
<1> QED BY <1>2, <1>3, PlusPortsKept, ZenonT(40) DEF xp_z80_out

-----------------------------------------------------------------------------
\* The models from the TI-83 Plus SE on
LEMMA SystemKept == \A s, p, v : Kept(s) => Kept(silver_system_out(s, p, v))
<1> SUFFICES ASSUME NEW s, NEW p, NEW v, Kept(s) PROVE Kept(silver_system_out(s, p, v))
    OBVIOUS
<1>0. IsBoard(s) BY DEF Kept
<1>1. Kept(IF s.hw = "xn" THEN s ELSE Withdraw(s, v, DOMAIN MaskBit))
    BY <1>0, WithdrawLeaves, LooseKept
<1>2. ASSUME NEW mode
      PROVE Kept(linkport_set_mode([out_mask(s, v, Timers12)
                                      EXCEPT !.nohalt = (v \div 2) % 4 = 0], mode))
  <2> DEFINE t == out_mask(s, v, Timers12)
             u == [t EXCEPT !.nohalt = (v \div 2) % 4 = 0]
  <2>1. Leaves(s, t, Loose) BY <1>0, MaskLeaves
  <2> HIDE DEF t
  <2>2. Leaves(t, u, Loose) BY <2>1 DEF Leaves, IsBoard, Fields
  <2> HIDE DEF u
  <2>3. Leaves(u, linkport_set_mode(u, mode), Loose) BY <2>2, SetModeLeaves DEF Leaves
  <2>4. Leaves(s, linkport_set_mode(u, mode), Loose) BY <2>1, <2>2, <2>3, LeavesThen
  <2> QED BY <2>4, LooseKept DEF t, u
<1>3. Kept(Remap([With(s, "PORT4", v) EXCEPT !.int_period = Periods4[1 + ((v \div 2) % 4)]]))
    BY PeriodPortKept
<1>4. /\ Kept(Remap(With(s, "PORT5", v % 16))) /\ Kept(Remap(With(s, "PORT6", v)))
      /\ Kept(Remap(With(s, "PORT7", v)))
  <2>1. {"PORT5", "PORT6", "PORT7"} \subseteq BankRegisters BY DEF BankRegisters
  <2> QED BY <2>1, BankKept
<1>5. Kept(linkport_set_mode([out_mask(s, v, Timers12) EXCEPT !.nohalt = (v \div 2) % 4 = 0],
                             ModeBit(s.mode, "int_active", BitOf(v, 4))))
    BY <1>2
<1> QED BY <1>1, <1>3, <1>4, <1>5, Zenon DEF silver_system_out

LEMMA AssistKept ==
  \A s, p, v : Kept(s) /\ p \in \h08..\h0D => Kept(silver_link_out(s, p, v))
<1> SUFFICES ASSUME NEW s, NEW p, NEW v, Kept(s), p \in \h08..\h0D
             PROVE Kept(silver_link_out(s, p, v))
    OBVIOUS
<1>0. IsBoard(s) BY DEF Kept
<1>1. \A name \in {"PORT8", "PORT9", "PORTA", "PORTB", "PORTC"} : Kept(With(s, name, v))
  <2>1. {"PORT8", "PORT9", "PORTA", "PORTB", "PORTC"} \subseteq Loose BY LooseNames
  <2> QED BY <1>0, <2>1, LooseWith, LooseKept
<1>2. Kept(linkport_set_mode(With(s, "PORT8", v), assist_mode(s.mode, v)))
  <2>1. Kept(With(s, "PORT8", v)) BY <1>1
  <2> QED BY <2>1, SetModeLeaves, LooseKept DEF Kept
<1>3. Kept(IF BitOf(s.hwregs.PORT8, 7) THEN s ELSE linkport_write_byte(s))
    BY <1>0, LinkLeaves, LooseKept DEF linkport_write_byte
<1>4. p = 8 \/ p = 9 \/ p = \h0A \/ p = \h0B \/ p = \h0C \/ p = \h0D OBVIOUS
<1>5. /\ Kept(With(s, "PORT9", v)) /\ Kept(With(s, "PORTA", v))
      /\ Kept(With(s, "PORTB", v)) /\ Kept(With(s, "PORTC", v))
    BY <1>1
<1> QED BY <1>2, <1>3, <1>4, <1>5, Zenon DEF silver_link_out

\* The ports of the limits, with what is kept of them
LEMMA LimitsKept ==
  ASSUME NEW s, NEW t, Kept(s), IsBoard(t), t.hw = s.hw, t.map = s.map, LimitsRight(t),
         \A n \in RegisterNames \ (Limits \cup Loose) : t.hwregs[n] = s.hwregs[n]
  PROVE  Kept(t)
<1>1. /\ \A n \in BankRegisters : t.hwregs[n] = s.hwregs[n]
      /\ \A n \in DelaySources : t.hwregs[n] = s.hwregs[n]
      /\ \A n \in Delays : t.hwregs[n] = s.hwregs[n]
      /\ \A n \in Overlays : t.hwregs[n] = s.hwregs[n]
    BY NamesAre, NamesApart DEF Loose
<1>2. MapRight(t)
  <2>1. s.hw \in Models BY DEF Kept, IsBoard
  <2>2. setup_mapping(s.hw, t.hwregs) = setup_mapping(s.hw, s.hwregs)
      BY <1>1, <2>1, BanksAre, SetupAgrees
  <2> QED BY <2>2 DEF Kept, MapRight
<1>3. Bytes(t) BY <1>1 DEF Kept, Bytes, DelaySources, Overlays
<1>4. DelaysRight(s) => DelaysRight(t)
  <2>1. s.hwregs.PORT20 \in Nat BY DEF Kept, Bytes
  <2>2. DelaysOf(t.hwregs) = DelaysOf(s.hwregs) BY <1>1, <2>1, DelaysAgree
  <2> QED BY <1>1, <2>2 DEF DelaysRight
<1> QED BY <1>2, <1>3, <1>4 DEF Kept

LEMMA LimitPortKept ==
  \A s, p, v : Kept(s) /\ s.hw \in SilverModels => Kept(silver_limit_out(s, p, v))
<1> SUFFICES ASSUME NEW s, NEW p, NEW v, Kept(s), s.hw \in SilverModels
             PROVE Kept(silver_limit_out(s, p, v))
    OBVIOUS
<1>0. IsBoard(s) /\ LimitsRight(s) BY DEF Kept
<1> DEFINE limit == [s EXCEPT !.hwregs = [@ EXCEPT !.PORT21 = v,
                               !.NO_EXEC_RAM_MASK = \h8000 * 2 ^ ((v \div 16) % 4) - \h400],
                             !.override = v % 4]
           lower == With(With(s, "PORT25", v), "NO_EXEC_RAM_LOWER", v * \h400)
           upper == With(With(s, "PORT26", v), "NO_EXEC_RAM_UPPER", v * \h400)
           first == With(s, "PORT22", v)
           last == With(s, "PORT23", v)
<1>1. Limits \subseteq RegisterNames /\ "NO_EXEC_RAM_MASK" \in Loose
      /\ "NO_EXEC_RAM_MASK" \in RegisterNames /\ "NO_EXEC_RAM_MASK" \notin Limits
    BY NamesAre, LooseNames DEF Limits, RegisterNames
<1>2. Kept(limit)
  <2> DEFINE m == \h8000 * 2 ^ ((v \div 16) % 4) - \h400
  <2> HIDE DEF m
  <2> DEFINE t == [s EXCEPT !.hwregs = [@ EXCEPT !.PORT21 = v, !.NO_EXEC_RAM_MASK = m],
                            !.override = v % 4]
  <2>1. {"PORT21", "NO_EXEC_RAM_MASK"} \subseteq RegisterNames BY <1>1 DEF Limits
  <2>2. /\ IsBoard(t) /\ t.hw = s.hw /\ t.map = s.map /\ t.override = v % 4
        /\ t.hwregs.PORT21 = v
        /\ \A n \in RegisterNames \ {"PORT21", "NO_EXEC_RAM_MASK"} : t.hwregs[n] = s.hwregs[n]
      BY <1>0, <2>1 DEF IsBoard, Fields
  <2>3. limit = t BY DEF m
  <2> HIDE DEF t, limit
  <2>4. \A n \in Limits \ {"PORT21"} : t.hwregs[n] = s.hwregs[n] BY <1>1, <2>2
  <2>5. LimitsRight(t) BY <1>0, <2>2, <2>4 DEF LimitsRight, Limits
  <2>6. {"PORT21", "NO_EXEC_RAM_MASK"} \subseteq Limits \cup Loose BY <1>1 DEF Limits
  <2> QED BY <2>2, <2>3, <2>5, <2>6, LimitsKept
<1>3. Kept(lower)
  <2> DEFINE u == With(s, "PORT25", v)
             x == v * \h400
             t == With(u, "NO_EXEC_RAM_LOWER", x)
  <2>0. {"PORT25", "NO_EXEC_RAM_LOWER"} \subseteq Limits BY DEF Limits
  <2>1. Leaves(s, u, {"PORT25"}) /\ u.hwregs.PORT25 = v BY <1>0, <1>1, <2>0, LeavesWith
  <2> HIDE DEF u, x
  <2>2. Leaves(u, t, {"NO_EXEC_RAM_LOWER"}) /\ t.hwregs.NO_EXEC_RAM_LOWER = x
      BY <1>1, <2>0, <2>1, LeavesWith DEF Leaves
  <2> HIDE DEF t
  <2>3. /\ IsBoard(t) /\ t.hw = s.hw /\ t.map = s.map /\ t.override = s.override
        /\ t.hwregs.PORT25 = v /\ t.hwregs.NO_EXEC_RAM_LOWER = x
        /\ \A n \in RegisterNames \ {"PORT25", "NO_EXEC_RAM_LOWER"} : t.hwregs[n] = s.hwregs[n]
      BY <1>1, <2>0, <2>1, <2>2 DEF Leaves
  <2>4. /\ t.hwregs.PORT21 = s.hwregs.PORT21 /\ t.hwregs.PORT26 = s.hwregs.PORT26
        /\ t.hwregs.NO_EXEC_RAM_UPPER = s.hwregs.NO_EXEC_RAM_UPPER
      BY <1>1, <2>3 DEF Limits
  <2>5. LimitsRight(t) BY <1>0, <2>3, <2>4 DEF LimitsRight, x
  <2>6. Kept(t) BY <2>0, <2>3, <2>5, LimitsKept
  <2> QED BY <2>6 DEF t, u, x
<1>4. Kept(upper)
  <2> DEFINE u == With(s, "PORT26", v)
             x == v * \h400
             t == With(u, "NO_EXEC_RAM_UPPER", x)
  <2>0. {"PORT26", "NO_EXEC_RAM_UPPER"} \subseteq Limits BY DEF Limits
  <2>1. Leaves(s, u, {"PORT26"}) /\ u.hwregs.PORT26 = v BY <1>0, <1>1, <2>0, LeavesWith
  <2> HIDE DEF u, x
  <2>2. Leaves(u, t, {"NO_EXEC_RAM_UPPER"}) /\ t.hwregs.NO_EXEC_RAM_UPPER = x
      BY <1>1, <2>0, <2>1, LeavesWith DEF Leaves
  <2> HIDE DEF t
  <2>3. /\ IsBoard(t) /\ t.hw = s.hw /\ t.map = s.map /\ t.override = s.override
        /\ t.hwregs.PORT26 = v /\ t.hwregs.NO_EXEC_RAM_UPPER = x
        /\ \A n \in RegisterNames \ {"PORT26", "NO_EXEC_RAM_UPPER"} : t.hwregs[n] = s.hwregs[n]
      BY <1>1, <2>0, <2>1, <2>2 DEF Leaves
  <2>4. /\ t.hwregs.PORT21 = s.hwregs.PORT21 /\ t.hwregs.PORT25 = s.hwregs.PORT25
        /\ t.hwregs.NO_EXEC_RAM_LOWER = s.hwregs.NO_EXEC_RAM_LOWER
      BY <1>1, <2>3 DEF Limits
  <2>5. LimitsRight(t) BY <1>0, <2>3, <2>4 DEF LimitsRight, x
  <2>6. Kept(t) BY <2>0, <2>3, <2>5, LimitsKept
  <2> QED BY <2>6 DEF t, u, x
<1>5. Kept(first) /\ Kept(last) BY <1>0, LooseWith, LooseNames, LooseKept
<1>6. silver_limit_out(s, p, v)
        = CASE p = \h21 -> limit [] p = \h22 -> first [] p = \h23 -> last
            [] p = \h25 -> lower [] p = \h26 -> upper [] OTHER -> s
    BY DEF silver_limit_out
<1> HIDE DEF limit, lower, upper, first, last
<1> QED BY <1>2, <1>3, <1>4, <1>5, <1>6, Zenon

LEMMA OverlayKept ==
  \A s : \A v \in 0..255, name \in Overlays : Kept(s) => Kept(With(s, name, v))
<1> SUFFICES ASSUME NEW s, NEW v \in 0..255, NEW name \in Overlays, Kept(s)
             PROVE Kept(With(s, name, v))
    OBVIOUS
<1> DEFINE t == With(s, name, v)
<1>1. Leaves(s, t, {name}) /\ t.hwregs[name] = v BY NamesAre, LeavesWith DEF Kept
<1> HIDE DEF t
<1>2. /\ \A n \in BankRegisters : t.hwregs[n] = s.hwregs[n]
      /\ \A n \in DelaySources : t.hwregs[n] = s.hwregs[n]
      /\ \A n \in Delays : t.hwregs[n] = s.hwregs[n]
      /\ \A n \in Limits : t.hwregs[n] = s.hwregs[n]
      /\ \A n \in Overlays : t.hwregs[n] = IF n = name THEN v ELSE s.hwregs[n]
    BY <1>1, NamesAre, NamesApart DEF Leaves
<1>3. MapRight(t)
  <2>1. s.hw \in Models BY DEF Kept, IsBoard
  <2>2. setup_mapping(s.hw, t.hwregs) = setup_mapping(s.hw, s.hwregs)
      BY <1>2, <2>1, BanksAre, SetupAgrees
  <2> QED BY <1>1, <2>2 DEF Kept, MapRight, Leaves
<1>4. Bytes(t) BY <1>2 DEF Kept, Bytes, DelaySources, Overlays
<1>5. DelaysRight(s) => DelaysRight(t)
  <2>1. s.hwregs.PORT20 \in Nat BY DEF Kept, Bytes
  <2>2. DelaysOf(t.hwregs) = DelaysOf(s.hwregs) BY <1>2, <2>1, DelaysAgree
  <2> QED BY <1>2, <2>2 DEF DelaysRight
<1>6. LimitsRight(s) => LimitsRight(t) BY <1>1, <1>2 DEF LimitsRight, Limits, Leaves
<1> QED BY <1>1, <1>3, <1>4, <1>5, <1>6 DEF Kept, Leaves, t

LEMMA SpeedPortKept ==
  \A s, p : \A v \in 0..255 :
    Kept(s) /\ p \in {\h20} \cup \h27..\h2F => Kept(silver_speed_out(s, p, v))
<1> SUFFICES ASSUME NEW s, NEW p, NEW v \in 0..255, Kept(s), p \in {\h20} \cup \h27..\h2F
             PROVE Kept(silver_speed_out(s, p, v))
    OBVIOUS
<1>0. IsBoard(s) /\ s.hwregs.PORT20 \in 0..255 BY DEF Kept, Bytes
<1>1. \A name \in DelaySources \ {"PORT20"} : Kept(setup_clockdelays(With(s, name, v)))
  <2> SUFFICES ASSUME NEW name \in DelaySources \ {"PORT20"}
               PROVE Kept(setup_clockdelays(With(s, name, v)))
      OBVIOUS
  <2>1. name \in RegisterNames /\ {name} \subseteq Pace /\ "PORT20" \in RegisterNames
      BY NamesAre DEF Pace, DelaySources
  <2>2. Leaves(s, With(s, name, v), {name}) BY <1>0, <2>1, LeavesWith
  <2>3. Leaves(s, With(s, name, v), Pace) BY <2>1, <2>2, LeavesMore
  <2>4. With(s, name, v).hwregs.PORT20 = s.hwregs.PORT20 BY <2>1, <2>2 DEF Leaves
  <2> QED BY <1>0, <2>3, <2>4, SlowedKept
<1> DEFINE fast == setup_clockdelays([With(s, "PORT20", v)
                     EXCEPT !.speed = IF v % 4 = 0 THEN 6000 ELSE 15000])
           slow == LET t == With(s, "PORT2D", v)
                   IN IF s.hw = "xs" THEN setup_clockdelays(t) ELSE t
<1>2. Kept(fast)
  <2> DEFINE t == With(s, "PORT20", v)
             x == IF v % 4 = 0 THEN 6000 ELSE 15000
             u == [t EXCEPT !.speed = x]
  <2>1. "PORT20" \in RegisterNames /\ {"PORT20"} \subseteq Pace
      BY NamesAre DEF Pace, DelaySources
  <2>2. Leaves(s, t, {"PORT20"}) /\ t.hwregs.PORT20 = v BY <1>0, <2>1, LeavesWith
  <2> HIDE DEF t, x
  <2>3. Leaves(t, u, {}) /\ u.hwregs = t.hwregs BY <2>2 DEF Leaves, IsBoard, Fields
  <2> HIDE DEF u
  <2>4. Leaves(s, u, Pace) BY <2>1, <2>2, <2>3, LeavesThen
  <2>5. Kept(setup_clockdelays(u)) BY <2>2, <2>3, <2>4, SlowedKept
  <2> QED BY <2>5 DEF t, x, u
<1>3. Kept(slow)
  <2> DEFINE t == With(s, "PORT2D", v)
  <2>1. Leaves(s, t, Loose) BY <1>0, LooseWith, LooseNames
  <2>2. t.hwregs.PORT20 = s.hwregs.PORT20
      BY <2>1, NamesAre DEF Leaves, Loose, DelaySources
  <2> HIDE DEF t
  <2>3. Leaves(s, t, Pace) BY <2>1, LeavesMore DEF Pace
  <2>4. Kept(setup_clockdelays(t)) BY <1>0, <2>2, <2>3, SlowedKept
  <2> QED BY <2>1, <2>4, LooseKept DEF t
<1>4. Kept(With(s, "PORT27", v)) /\ Kept(With(s, "PORT28", v)) BY OverlayKept DEF Overlays
<1>5. Kept(With(s, "PORT2F", v)) BY <1>0, LooseWith, LooseNames, LooseKept
<1>6. Kept(setup_clockdelays(With(s, "PORT2E", v))) BY <1>1 DEF DelaySources
<1>7. p \in \h29..\h2C => Kept(setup_clockdelays(With(s, DelayPort[p - \h28], v)))
  <2>1. p \in \h29..\h2C => DelayPort[p - \h28] \in DelaySources \ {"PORT20"}
      BY DEF DelayPort, DelaySources
  <2> QED BY <1>1, <2>1
<1>8. p = \h20 \/ p = \h27 \/ p = \h28 \/ p \in \h29..\h2C \/ p = \h2D \/ p = \h2E \/ p = \h2F
    OBVIOUS
<1>9. silver_speed_out(s, p, v)
        = CASE p = \h20 -> fast
            [] p = \h27 -> With(s, "PORT27", v)
            [] p = \h28 -> With(s, "PORT28", v)
            [] p \in \h29..\h2C -> setup_clockdelays(With(s, DelayPort[p - \h28], v))
            [] p = \h2D -> slow
            [] p = \h2E -> setup_clockdelays(With(s, "PORT2E", v))
            [] p = \h2F -> With(s, "PORT2F", v)
    BY DEF silver_speed_out
<1> HIDE DEF fast, slow
<1> QED BY <1>2, <1>3, <1>4, <1>5, <1>6, <1>7, <1>8, <1>9, Zenon

LEMMA ClockKept == \A s, p, v : Kept(s) => Kept(silver_clock_out(s, p, v))
<1> SUFFICES ASSUME NEW s, NEW p, NEW v, Kept(s) PROVE Kept(silver_clock_out(s, p, v))
    OBVIOUS
<1>0. IsBoard(s) BY DEF Kept
<1>1. \A i, x : Kept(clock_input(s, i, x))
    BY <1>0, LooseWith, LooseNames, LooseKept DEF clock_input
<1>2. Kept(clock_control(s, v))
  <2> DEFINE d == NewDiff(s, v)
             t == [s EXCEPT !.hwregs.CLOCK_DIFF = d, !.hwregs.CLOCK_MODE = v % 4]
             u == With(s, "CLOCK_DIFF", d)
             w == With(u, "CLOCK_MODE", v % 4)
  <2>1. clock_control(s, v) = t BY DEF clock_control, NewDiff
  <2> HIDE DEF d
  <2>2. t = w BY <1>0 DEF With, IsBoard, Fields
  <2>3. Kept(u) BY <1>0, LooseWith, LooseNames, LooseKept
  <2> HIDE DEF u, t
  <2>4. Kept(w) BY <2>3, LooseWith, LooseNames, LooseKept DEF Kept
  <2> QED BY <2>1, <2>2, <2>4
<1> QED BY <1>1, <1>2 DEF silver_clock_out

LEMMA x4_outKept ==
  \A s, port : \A v \in 0..255 :
    Kept(s) /\ s.hw \in SilverModels /\ (s.hw = "xc" => port % 256 \notin {\h0E, \h0F})
      => Kept(x4_z80_out(s, port, v))
<1> SUFFICES ASSUME NEW s, NEW port, NEW v \in 0..255, Kept(s), s.hw \in SilverModels,
                    s.hw = "xc" => port % 256 \notin {\h0E, \h0F}
             PROVE Kept(x4_z80_out(s, port, v))
    OBVIOUS
<1> DEFINE p == port % 256
<1>0. IsBoard(s) BY DEF Kept
<1>1. Kept(silver_system_out(s, p, v)) BY SystemKept
<1>2. p \in \h08..\h0D => Kept(silver_link_out(s, p, v)) BY AssistKept
<1>3. s.hw # "xc" => Kept(With(s, "PORTE", v)) /\ Kept(With(s, "PORTF", v))
  <2>1. s.hw # "xc" => {"PORTE", "PORTF"} \subseteq Free(s.hw)
      BY DEF Free, BanksOf, RegisterNames, DelaySources, Delays, Limits, Overlays,
             SilverModels
  <2> QED BY <2>1, FreeKept
<1>4. Kept(set_lcd_wait_timer(s)) BY <1>0, LcdWaitLeaves, LooseKept
<1>5. Kept(silver_unlock_out(s, v))
  <2>1. Leaves(s, [s EXCEPT !.unlock = BitOf(v, 0)], Loose) BY <1>0 DEF Leaves, IsBoard, Fields
  <2> QED BY <2>1, LooseKept DEF silver_unlock_out
<1>6. Kept(silver_limit_out(s, p, v)) BY LimitPortKept
<1>7. p \in {\h20} \cup \h27..\h2F => Kept(silver_speed_out(s, p, v)) BY SpeedPortKept
<1>8. Kept(silver_clock_out(s, p, v)) BY ClockKept
<1>9. x4_z80_out(s, port, v)
         = CASE p \in 2..7 -> silver_system_out(s, p, v)
             [] p \in \h08..\h0D -> silver_link_out(s, p, v)
             [] p = \h0E -> With(s, "PORTE", v) [] p = \h0F -> With(s, "PORTF", v)
             [] p \in \h10..\h13 -> set_lcd_wait_timer(s)
             [] p = \h14 -> silver_unlock_out(s, v)
             [] p \in \h21..\h26 /\ s.unlock -> silver_limit_out(s, p, v)
             [] p \in {\h20} \cup \h27..\h2F -> silver_speed_out(s, p, v)
             [] p \in ClockPorts -> silver_clock_out(s, p, v)
             [] OTHER -> s
    BY DEF x4_z80_out
<1>10. s.hw = "xc" => p # \h0E /\ p # \h0F OBVIOUS
<1> HIDE DEF p
<1>11. CASE s.hw # "xc" BY <1>1, <1>2, <1>3, <1>4, <1>5, <1>6, <1>7, <1>8, <1>9, <1>11, Zenon
<1>12. CASE s.hw = "xc" BY <1>1, <1>2, <1>4, <1>5, <1>6, <1>7, <1>8, <1>9, <1>10, <1>12, Zenon
<1> QED BY <1>11, <1>12

LEMMA xn_outKept ==
  \A s, p : \A v \in 0..255 : Kept(s) /\ s.hw = "xn" => Kept(xn_z80_out(s, p, v))
<1> SUFFICES ASSUME NEW s, NEW p, NEW v \in 0..255, Kept(s), s.hw = "xn"
             PROVE Kept(xn_z80_out(s, p, v))
    OBVIOUS
<1>0. IsBoard(s) BY DEF Kept
<1>1. \A t, x : \A name \in Limits : Kept(t) /\ t.hw = "xn" => Kept(With(t, name, x))
  <2> SUFFICES ASSUME NEW t, NEW x, NEW name \in Limits, Kept(t), t.hw = "xn"
               PROVE Kept(With(t, name, x))
      OBVIOUS
  <2>1. Leaves(t, With(t, name, x), {name}) BY NamesAre, LeavesWith DEF Kept
  <2>2. LimitsRight(With(t, name, x)) BY <2>1 DEF LimitsRight, Leaves
  <2>3. \A n \in RegisterNames \ (Limits \cup Loose) :
          With(t, name, x).hwregs[n] = t.hwregs[n]
      BY <2>1 DEF Leaves
  <2> QED BY <2>1, <2>2, <2>3, LimitsKept DEF Leaves
<1>2. Kept(xn_limit_out(s, p % 256, v))
  <2> DEFINE q == p % 256
             m == <<\h5555, \h9999, \hF9F9, \hFFF9>>[1 + ((v \div 16) % 4)]
             masks == [s EXCEPT !.hwregs = [@ EXCEPT !.PORT21 = v, !.NO_EXEC_RAM = m]]
             first == With(s, "PORT22", v)
             last == With(s, "PORT23", v)
             lower == With(s, "PORT25", v)
             upper == With(s, "PORT26", v)
  <2> HIDE DEF m, q
  <2>1. Kept(masks)
    <3>1. masks = With(With(s, "PORT21", v), "NO_EXEC_RAM", m)
        BY <1>0 DEF With, IsBoard, Fields
    <3>2. Kept(With(s, "PORT21", v)) BY <1>1 DEF Limits
    <3>3. Kept(With(With(s, "PORT21", v), "NO_EXEC_RAM", m))
        BY <3>2, LooseWith, LooseNames, LooseKept DEF Kept
    <3> QED BY <3>1, <3>3
  <2>2. Kept(first) /\ Kept(last) BY <1>0, LooseWith, LooseNames, LooseKept
  <2>3. Kept(lower) /\ Kept(upper) BY <1>1 DEF Limits
  <2>4. xn_limit_out(s, q, v)
          = CASE q = \h21 -> masks [] q = \h22 -> first [] q = \h23 -> last
              [] q = \h25 -> lower [] q = \h26 -> upper [] OTHER -> s
      BY DEF xn_limit_out, m
  <2> HIDE DEF masks, first, last, lower, upper
  <2> QED BY <2>1, <2>2, <2>3, <2>4, Zenon DEF q
<1>3. Kept(x4_z80_out(s, p, v)) BY x4_outKept DEF SilverModels
<1> QED BY <1>2, <1>3 DEF xn_z80_out

LEMMA BacklightKept == \A s, v : Kept(s) => Kept(xc_backlight_out(s, v))
<1> SUFFICES ASSUME NEW s, NEW v, Kept(s) PROVE Kept(xc_backlight_out(s, v))
    OBVIOUS
<1> DEFINE r == s.hwregs
           level == IF r.BACKLIGHT_ON = 0 THEN 0 ELSE (r.BACKLIGHT_LEVEL + 1) % 32
           shade == IF level = 31 THEN 0 ELSE 41 - level
           rise == BitOf(v, 5) /\ ~BitOf(r.PORT3A, 5)
           fall == ~BitOf(v, 5) /\ BitOf(r.PORT3A, 5)
           t == With(s, "PORT3A", v)
           up == [t EXCEPT !.hwregs.BACKLIGHT_ON = 1, !.hwregs.BACKLIGHT_LEVEL = level,
                            !.lcd.contrast = shade, !.backlight = FALSE]
           down == [t EXCEPT !.backlight = TRUE]
<1>1. xc_backlight_out(s, v) = CASE rise -> up [] fall -> down [] OTHER -> t
    BY DEF xc_backlight_out
<1> HIDE DEF level, shade
<1>2. Kept(t) BY LooseWith, LooseNames, LooseKept DEF Kept
<1> HIDE DEF t
<1>3. Leaves(t, up, {"BACKLIGHT_ON", "BACKLIGHT_LEVEL"}) /\ Leaves(t, down, Loose)
    BY <1>2 DEF Kept, Leaves, IsBoard, Fields
<1>4. Leaves(t, up, Loose) BY <1>3, LeavesMore, LooseNames
<1>5. Kept(up) /\ Kept(down) BY <1>2, <1>3, <1>4, LooseKept
<1> HIDE DEF up, down, rise, fall
<1> QED BY <1>1, <1>2, <1>5, Zenon

LEMMA xc_outKept ==
  \A s, p : \A v \in 0..255 : Kept(s) /\ s.hw = "xc" => Kept(xc_z80_out(s, p, v))
<1> SUFFICES ASSUME NEW s, NEW port, NEW v \in 0..255, Kept(s), s.hw = "xc"
             PROVE Kept(xc_z80_out(s, port, v))
    OBVIOUS
<1> DEFINE p == port % 256
           limit == IF s.unlock THEN With(s, "PORT24", v) ELSE s
<1>1. Kept(Remap(With(s, "PORTE", v))) /\ Kept(Remap(With(s, "PORTF", v)))
    BY BankKept DEF BankRegisters
<1>2. Kept(limit) /\ Kept(With(s, "PORT39", v))
    BY LooseWith, LooseNames, LooseKept DEF Kept
<1>3. Kept(xc_backlight_out(s, v)) BY BacklightKept
<1>4. p \notin {\h0E, \h0F} => Kept(x4_z80_out(s, port, v)) BY x4_outKept DEF SilverModels
<1>5. xc_z80_out(s, port, v)
        = CASE p = \h0E -> Remap(With(s, "PORTE", v)) [] p = \h0F -> Remap(With(s, "PORTF", v))
            [] p = \h24 -> limit [] p = \h39 -> With(s, "PORT39", v)
            [] p = \h3A -> xc_backlight_out(s, v)
            [] p \notin {\h0E, \h0F, \h24, \h39, \h3A} -> x4_z80_out(s, port, v)
    BY DEF xc_z80_out
<1> HIDE DEF p, limit
<1> QED BY <1>1, <1>2, <1>3, <1>4, <1>5, Zenon

LEMMA z80_outKept == \A s, p : \A v \in 0..255 : Kept(s) => Kept(z80_out(s, p, v))
<1> SUFFICES ASSUME NEW s, NEW p, NEW v \in 0..255, Kept(s) PROVE Kept(z80_out(s, p, v))
    OBVIOUS
<1>1. /\ s.hw = "x1" => Kept(x1_z80_out(s, p, v))
      /\ s.hw = "x2" => Kept(x2_z80_out(s, p, v))
      /\ s.hw = "x3" => Kept(x3_z80_out(s, p, v))
    BY x1_outKept, x2_outKept, x3_outKept
<1>2. /\ s.hw = "x5" => Kept(x5_z80_out(s, p, v))
      /\ s.hw = "x6" => Kept(x6_z80_out(s, p, v))
    BY x5_outKept DEF x6_z80_out
<1>3. /\ s.hw = "x7" => Kept(x7_z80_out(s, p, v))
      /\ s.hw = "xp" => Kept(xp_z80_out(s, p, v))
    BY x7_outKept, xp_outKept
<1>4. /\ s.hw = "x4" => Kept(x4_z80_out(s, p, v))
      /\ s.hw = "xs" => Kept(xs_z80_out(s, p, v))
      /\ s.hw = "xz" => Kept(xz_z80_out(s, p, v))
    BY x4_outKept DEF SilverModels, xs_z80_out, xz_z80_out
<1>5. /\ s.hw = "xn" => Kept(xn_z80_out(s, p, v))
      /\ s.hw = "xc" => Kept(xc_z80_out(s, p, v))
    BY xn_outKept, xc_outKept
<1>6. s.hw \in Models BY DEF Kept, IsBoard
<1> QED BY <1>1, <1>2, <1>3, <1>4, <1>5, <1>6, ZenonT(60) DEF z80_out, Models

-----------------------------------------------------------------------------
\* Reading ports, the timers and memory
LEMMA z80_inKept == \A s, p : Kept(s) => Kept(z80_in(s, p).board)
<1> SUFFICES ASSUME NEW s, NEW port, Kept(s) PROVE Kept(z80_in(s, port).board)
    OBVIOUS
<1> DEFINE p == port % 256
           quiet == [s EXCEPT !.ints = @ \ {"link_error"}]
<1>0. IsBoard(s) BY DEF Kept
<1>1. Kept(quiet)
  <2>1. Leaves(s, quiet, Loose) BY <1>0 DEF Leaves, IsBoard, Fields
  <2> QED BY <2>1, LooseKept
<1>2. Kept(linkport_read_byte(s)) BY <1>0, LinkLeaves, LooseKept DEF linkport_read_byte
<1>3. Kept(set_lcd_wait_timer(s)) BY <1>0, LcdWaitLeaves, LooseKept
<1>4. \A v : /\ Kept(Reads(s, v).board) /\ Kept(Reads(quiet, v).board)
             /\ Kept(Reads(linkport_read_byte(s), v).board)
             /\ Kept(Reads(set_lcd_wait_timer(s), v).board)
    BY <1>1, <1>2, <1>3, ReadsKeeps
<1>5. Kept(x4_z80_in(s, port).board)
  <2> DEFINE wait == Reads(s, 2 * Num(s.hwregs.LCD_WAIT = 0) + 4 * Num(s.unlock))
             shown == Reads(s, ShowInts(s))
             link == Reads(quiet, ShowLink(s))
             byte == Reads(linkport_read_byte(s), Elsewhere)
             lcd == Reads(set_lcd_wait_timer(s), Elsewhere)
             clk == Reads(s, clock_in(s, p))
             plain == Reads(s, PlainPort(s.hwregs, p))
  <2>1. /\ Kept(wait.board) /\ Kept(shown.board) /\ Kept(link.board) /\ Kept(byte.board)
        /\ Kept(lcd.board) /\ Kept(clk.board) /\ Kept(plain.board)
      BY <1>4
  <2>2. x4_z80_in(s, port)
          = CASE p = 2 -> wait [] p = 4 -> shown [] p = 9 -> link [] p = \h0A -> byte
              [] p \in \h10..\h13 -> lcd [] p \in \h40..\h48 -> clk [] OTHER -> plain
      BY DEF x4_z80_in
  <2> HIDE DEF wait, shown, link, byte, lcd, clk, plain, p, quiet
  <2> QED BY <2>1, <2>2, Zenon
<1>6. Kept(x1_z80_in(s, port).board) BY <1>4, Zenon DEF x1_z80_in
<1>7. Kept(x2_z80_in(s, port).board) BY <1>4, Zenon DEF x2_z80_in
<1>8. Kept(x3_z80_in(s, port).board) BY <1>4, Zenon DEF x3_z80_in
<1>9. Kept(x5_z80_in(s, port).board) BY <1>4, Zenon DEF x5_z80_in
<1>10. Kept(x6_z80_in(s, port).board) BY <1>9 DEF x6_z80_in
<1>11. Kept(x7_z80_in(s, port).board) BY <1>4, Zenon DEF x7_z80_in
<1>12. Kept(xp_z80_in(s, port).board) BY <1>4, Zenon DEF xp_z80_in
<1>13. /\ Kept(xz_z80_in(s, port).board) /\ Kept(xn_z80_in(s, port).board)
       /\ Kept(xs_z80_in(s, port).board)
    BY <1>4, <1>5 DEF xz_z80_in, xn_z80_in, xs_z80_in
<1>14. Kept(xc_z80_in(s, port).board) BY <1>4, <1>5, Zenon DEF xc_z80_in
<1>15. s.hw \in Models BY <1>0 DEF IsBoard
<1> QED BY <1>5, <1>6, <1>7, <1>8, <1>9, <1>10, <1>11, <1>12, <1>13, <1>14, <1>15, Zenon
        DEF z80_in, Models

LEMMA z80_ptimerKept == \A s, id : Kept(s) => Kept(z80_ptimer(s, id))
<1> SUFFICES ASSUME NEW s, NEW id, Kept(s) PROVE Kept(z80_ptimer(s, id))
    OBVIOUS
<1>0. IsBoard(s) BY DEF Kept
<1>1. \A i : Kept(raise_timer(s, i)) BY <1>0, RaiseLeaves, LooseKept
<1>2. Kept(With([s EXCEPT !.lcd_wait = FALSE], "LCD_WAIT", 0))
  <2> DEFINE t == [s EXCEPT !.lcd_wait = FALSE]
  <2>1. Leaves(s, t, Loose) BY <1>0 DEF Leaves, IsBoard, Fields
  <2> HIDE DEF t
  <2>2. Kept(t) BY <2>1, LooseKept
  <2>3. Kept(With(t, "LCD_WAIT", 0)) BY <2>2, LooseWith, LooseNames, LooseKept DEF Kept
  <2> QED BY <2>3 DEF t
<1>3. Kept(x4_z80_ptimer(s, id)) BY <1>1, <1>2, Zenon DEF x4_z80_ptimer
<1>4. Kept(xc_z80_ptimer(s, id))
  <2> DEFINE t == [s EXCEPT !.hwregs.BACKLIGHT_ON = 0, !.hwregs.BACKLIGHT_LEVEL = 0,
                            !.lcd.contrast = 0, !.backlight = FALSE]
  <2>1. Leaves(s, t, {"BACKLIGHT_ON", "BACKLIGHT_LEVEL"})
      BY <1>0 DEF Leaves, IsBoard, Fields
  <2>2. Leaves(s, t, Loose) BY <2>1, LeavesMore, LooseNames
  <2>3. Kept(t) BY <2>2, LooseKept
  <2> QED BY <1>3, <2>3 DEF xc_z80_ptimer
<1>5. /\ Kept(x1_z80_ptimer(s, id)) /\ Kept(x2_z80_ptimer(s, id))
      /\ Kept(x5_z80_ptimer(s, id)) /\ Kept(x6_z80_ptimer(s, id))
    BY <1>1 DEF x1_z80_ptimer, x2_z80_ptimer, x5_z80_ptimer, x6_z80_ptimer
<1>6. /\ Kept(x3_z80_ptimer(s, id)) /\ Kept(x7_z80_ptimer(s, id))
      /\ Kept(xp_z80_ptimer(s, id))
    BY <1>1, Zenon DEF x3_z80_ptimer, x7_z80_ptimer, xp_z80_ptimer
<1>7. /\ Kept(xs_z80_ptimer(s, id)) /\ Kept(xz_z80_ptimer(s, id))
      /\ Kept(xn_z80_ptimer(s, id))
    BY <1>3 DEF xs_z80_ptimer, xz_z80_ptimer, xn_z80_ptimer
<1>8. s.hw \in Models BY <1>0 DEF IsBoard
<1> QED BY <1>3, <1>4, <1>5, <1>6, <1>7, <1>8, ZenonT(60) DEF z80_ptimer, Models

LEMMA RdmemKept ==
  \A s, A, byte :
    Kept(s) => Kept(z80_rdmem(s, A, byte)) /\ Kept(z80_rdmem_m1(s, A, byte))
<1> SUFFICES ASSUME NEW s, NEW A, NEW byte, Kept(s)
             PROVE Kept(z80_rdmem(s, A, byte)) /\ Kept(z80_rdmem_m1(s, A, byte))
    OBVIOUS
<1> DEFINE u == readbyte(s, A, byte)
           found == exceptions(s.hw, s.hwregs, A, page_of(s.hw, s.hwregs, s.map, A))
           none == {x \in {"flash_exec"} : byte = \hFF /\ A = \h38}
           refused == Guarded(s) /\ Refused(s, A)
           r7 == [u EXCEPT !.exception = @ \cup found \cup none \cup {x \in {"ram_exec"} : refused}]
           rp == [s EXCEPT !.exception = @ \cup IF s.hw \in {"xp", "xn"} THEN found ELSE {}]
           ro == [u EXCEPT !.exception = @ \cup found \cup none]
<1>1. z80_rdmem_m1(s, A, byte) =
        CASE ~Guarded(s) -> s [] Guarded(s) /\ s.hw = "x7" -> r7
          [] Guarded(s) /\ s.hw # "x7" /\ refused -> rp [] OTHER -> ro
    BY DEF z80_rdmem_m1
<1>2. Kept(u) BY LooseWith, LooseNames, LooseKept DEF readbyte, Kept
<1>3. Kept(z80_rdmem(s, A, byte)) BY <1>2 DEF z80_rdmem
<1>4. \A t, x : Kept(t) => Kept([t EXCEPT !.exception = x])
  <2> SUFFICES ASSUME NEW t, NEW x, Kept(t) PROVE Kept([t EXCEPT !.exception = x])
      OBVIOUS
  <2>1. Leaves(t, [t EXCEPT !.exception = x], Loose) BY DEF Kept, Leaves, IsBoard, Fields
  <2> QED BY <2>1, LooseKept
<1> HIDE DEF u, found, none, refused
<1>5. Kept(r7) /\ Kept(rp) /\ Kept(ro) BY <1>2, <1>4
<1> HIDE DEF r7, rp, ro
<1> QED BY <1>1, <1>3, <1>5, Zenon

-----------------------------------------------------------------------------
(***************************************************************************)
(* Resets.  Whatever the map and the delays were, a reset makes them those *)
(* of the ports that it sets, but for the three models of ResetMap.        *)
(***************************************************************************)
\* The registers that a reset may have changed
Changed(s, t, names) ==
  IsBoard(t) /\ t.hw = s.hw /\ \A n \in RegisterNames \ names : t.hwregs[n] = s.hwregs[n]

Measured == {"PORT20", "PORT27", "PORT28"}

LEMMA EarlyKept ==
  ASSUME NEW s, NEW t, NEW names, Bytes(s), Changed(s, t, names), names \cap Measured = {},
         t.hw \notin SilverModels, MapRight(t)
  PROVE  Kept(t)
<1>1. Measured \subseteq RegisterNames BY DEF Measured, RegisterNames
<1>2. \A n \in Measured : t.hwregs[n] = s.hwregs[n] BY <1>1 DEF Changed
<1>3. Bytes(t) BY <1>2 DEF Bytes, Measured
<1> QED BY <1>3 DEF Kept, Changed

LEMMA EarlyResets ==
  ASSUME NEW s, IsBoard(s), Bytes(s), s.hw \in {"x1", "x2", "x3"}
  PROVE  Kept(hw_reset(s)) /\ hw_reset(s).map = ResetMap[s.hw]
<1>0. s.hw \notin SilverModels BY DEF SilverModels
<1>1. CASE s.hw = "x1"
  <2> DEFINE t == x1_reset(s)
             set == {"PORT3", "PORT2", "PORT5", "PORT6"}
  <2>0. /\ IsBoard(t) /\ t.hw = s.hw /\ t.map = <<0, 1, 0, 2>>
        /\ t.hwregs = [s.hwregs EXCEPT !.PORT3 = \h08, !.PORT2 = 0, !.PORT5 = 0, !.PORT6 = 0]
      BY DEF x1_reset, IsBoard, Fields
  <2>2. hw_reset(s) = t BY <1>1 DEF hw_reset
  <2> HIDE DEF t
  <2>1. Changed(s, t, set) /\ t.map = <<0, 1, 0, 2>> BY <2>0 DEF Changed, IsBoard
  <2>3. MapRight(t) /\ t.map = ResetMap[s.hw] BY <1>1, <2>1 DEF MapRight, ResetMap, Changed
  <2>4. set \cap Measured = {} BY DEF Measured
  <2> QED BY <1>0, <2>1, <2>2, <2>3, <2>4, EarlyKept DEF Changed
<1>2. CASE s.hw = "x2"
  <2> DEFINE t == x2_reset(s)
             set == {"PORT2", "PORT3", "PORT4"}
  <2>0. /\ IsBoard(t) /\ t.hw = s.hw /\ t.map = <<0, 0, 9, 8>>
        /\ t.hwregs = [s.hwregs EXCEPT !.PORT2 = \hF8, !.PORT3 = \h0B, !.PORT4 = 0]
      BY DEF x2_reset, IsBoard, Fields
  <2>2. hw_reset(s) = t BY <1>2 DEF hw_reset
  <2> HIDE DEF t
  <2>1. Changed(s, t, set) /\ t.map = <<0, 0, 9, 8>> BY <2>0 DEF Changed, IsBoard
  <2>3. MapRight(t) /\ t.map = ResetMap[s.hw] BY <1>2, <2>1 DEF MapRight, ResetMap, Changed
  <2>4. set \cap Measured = {} BY DEF Measured
  <2> QED BY <1>0, <2>1, <2>2, <2>3, <2>4, EarlyKept DEF Changed
<1>3. CASE s.hw = "x3"
  <2> DEFINE t == x3_reset(s)
             set == {"PORT2", "PORT3", "PORT4", "ROM_BANK"}
  <2>0. /\ IsBoard(t) /\ t.hw = s.hw /\ t.map = <<0, 0, 17, 16>>
        /\ t.hwregs = [s.hwregs EXCEPT !.PORT2 = \hF8, !.PORT3 = \h0B, !.PORT4 = 0, !.ROM_BANK = 0]
      BY DEF x3_reset, IsBoard, Fields
  <2>2. hw_reset(s) = t BY <1>3 DEF hw_reset
  <2> HIDE DEF t
  <2>1. Changed(s, t, set) /\ t.map = <<0, 0, 17, 16>> BY <2>0 DEF Changed, IsBoard
  <2>3. MapRight(t) /\ t.map = ResetMap[s.hw] BY <1>3, <2>1 DEF MapRight, ResetMap, Changed
  <2>4. set \cap Measured = {} BY DEF Measured
  <2> QED BY <1>0, <2>1, <2>2, <2>3, <2>4, EarlyKept DEF Changed
<1> QED BY <1>1, <1>2, <1>3

LEMMA x5_resetKept ==
  ASSUME NEW s, IsBoard(s), Bytes(s), s.hw = "x5"
  PROVE  Kept(x5_reset(s))
<1> DEFINE t == x5_reset(s)
           set == {"PORT3", "PORT4", "PORT5", "PORT6"}
<1>1. /\ IsBoard(t) /\ t.hw = s.hw /\ t.map = <<0, 0, 8, 8>>
      /\ t.hwregs = [s.hwregs EXCEPT !.PORT3 = \h0B, !.PORT4 = \h16, !.PORT5 = 0, !.PORT6 = \h40]
    BY DEF x5_reset, IsBoard, Fields
<1> HIDE DEF t
<1>7. Changed(s, t, set) BY <1>1 DEF Changed, IsBoard
<1>2. {"PORT5", "PORT6"} \subseteq RegisterNames BY DEF RegisterNames
<1>3. t.hwregs.PORT5 = 0 /\ t.hwregs.PORT6 = \h40 BY <1>1, <1>2 DEF IsBoard
<1>4. setup_mapping("x5", t.hwregs) = <<0, 0, 8, 8>>
    BY <1>3 DEF setup_mapping, x5_setup_mapping, Bank, BitOf
<1>5. MapRight(t) BY <1>1, <1>4 DEF MapRight, Changed
<1>6. set \cap Measured = {} /\ t.hw \notin SilverModels
    BY <1>1 DEF Measured, SilverModels, Changed
<1> QED BY <1>5, <1>6, <1>7, EarlyKept DEF t

LEMMA x6_resetKept ==
  ASSUME NEW s, IsBoard(s), Bytes(s), s.hw = "x6"
  PROVE  Kept(x6_reset(s))
<1> DEFINE t == x6_reset(s)
           set == {"PORT3", "PORT4", "PORT5", "PORT6"}
<1>1. /\ IsBoard(t) /\ t.hw = s.hw /\ t.map = <<0, 0, 0, 16>>
      /\ t.hwregs = [s.hwregs EXCEPT !.PORT3 = \h0B, !.PORT4 = \h56, !.PORT5 = 0, !.PORT6 = 0]
    BY DEF x6_reset, IsBoard, Fields
<1> HIDE DEF t
<1>7. Changed(s, t, set) BY <1>1 DEF Changed, IsBoard
<1>2. {"PORT5", "PORT6"} \subseteq RegisterNames BY DEF RegisterNames
<1>3. t.hwregs.PORT5 = 0 /\ t.hwregs.PORT6 = 0 BY <1>1, <1>2 DEF IsBoard
<1>4. setup_mapping("x6", t.hwregs) = <<0, 0, 0, 16>>
    BY <1>3 DEF setup_mapping, x6_setup_mapping, Bank, BitOf
<1>5. MapRight(t) BY <1>1, <1>4 DEF MapRight, Changed
<1>6. set \cap Measured = {} /\ t.hw \notin SilverModels
    BY <1>1 DEF Measured, SilverModels, Changed
<1> QED BY <1>5, <1>6, <1>7, EarlyKept DEF t

LEMMA Plus_resetKept ==
  ASSUME NEW s, IsBoard(s), Bytes(s), s.hw \in PlusModels
  PROVE  Kept(PlusReset(s)) /\ PlusReset(s).hw = s.hw
<1> DEFINE t == PlusReset(s)
           set == {"PORT3", "PORT4", "PORT6", "PORT7", "PROTECTSTATE"}
<1>1. /\ IsBoard(t) /\ t.hw = s.hw /\ t.map = <<0, 30, 31, 31>>
      /\ t.hwregs = [s.hwregs EXCEPT !.PORT3 = \h0B, !.PORT4 = \h77, !.PORT6 = \h1F,
                                     !.PORT7 = \h1F, !.PROTECTSTATE = 0]
    BY DEF PlusReset, IsBoard, Fields
<1> HIDE DEF t
<1>2. {"PORT4", "PORT6", "PORT7"} \subseteq RegisterNames BY DEF RegisterNames
<1>3. t.hwregs.PORT4 = \h77 /\ t.hwregs.PORT6 = \h1F /\ t.hwregs.PORT7 = \h1F
    BY <1>1, <1>2 DEF IsBoard
<1>4. \A n \in RegisterNames \ set : t.hwregs[n] = s.hwregs[n] BY <1>1 DEF IsBoard
<1>5. /\ setup_mapping("x7", t.hwregs) = <<0, 30, 31, 31>>
      /\ setup_mapping("xp", t.hwregs) = <<0, 30, 31, 31>>
    BY <1>3 DEF setup_mapping, x7_setup_mapping, xp_setup_mapping, Bank, BitOf, Paired, Even
<1>6. MapRight(t) BY <1>1, <1>5 DEF MapRight, PlusModels
<1>7. set \cap Measured = {} /\ t.hw \notin SilverModels
    BY <1>1 DEF Measured, SilverModels, PlusModels
<1> QED BY <1>1, <1>4, <1>6, <1>7, EarlyKept DEF t, Changed

LEMMA x7_resetKept ==
  ASSUME NEW s, IsBoard(s), Bytes(s), s.hw = "x7"
  PROVE  Kept(x7_reset(s))
<1>1. Kept(PlusReset(s)) BY Plus_resetKept DEF PlusModels
<1> QED BY <1>1, LooseWith, LooseNames, LooseKept DEF x7_reset, Kept

LEMMA xp_resetKept ==
  ASSUME NEW s, IsBoard(s), Bytes(s), s.hw = "xp"
  PROVE  Kept(xp_reset(s))
<1> DEFINE u == PlusReset(s)
           set == {"PORT5", "NOEXEC1", "NOEXEC2", "NOEXEC3", "NOEXEC4"}
           t == [u EXCEPT !.hwregs = [@ EXCEPT !.PORT5 = 0, !.NOEXEC1 = 0, !.NOEXEC2 = 0,
                                               !.NOEXEC3 = 0, !.NOEXEC4 = 0]]
<1>1. Kept(u) /\ u.hw = "xp" BY Plus_resetKept DEF PlusModels
<1>2. xp_reset(s) = linkport_set_mode(t, {"no_timeout"}) BY DEF xp_reset
<1> HIDE DEF u
<1>3. Leaves(u, t, set) BY <1>1 DEF Kept, Leaves, IsBoard, Fields
<1> HIDE DEF t
<1>4. set \subseteq Free("xp")
    BY DEF Free, BanksOf, RegisterNames, DelaySources, Delays, Limits, Overlays
<1>5. Kept(t) BY <1>1, <1>3, <1>4, LeavesMore, LeavesKept
<1> QED BY <1>2, <1>5, SetModeLeaves, LooseKept DEF Kept

\* The models from the TI-83 Plus SE on: a reset sets all that the delays are made of.
Paced == DelaySources \cup Delays \cup Overlays
RamLimits == {"PORT25", "PORT26", "NO_EXEC_RAM_LOWER", "NO_EXEC_RAM_UPPER"}

Fresh(t, names) == IsBoard(t) /\ \A n \in names : t.hwregs[n] = X4Registers[n]

LEMMA PacedAre ==
  Paced \cup RamLimits \subseteq RegisterNames /\ Paced \cup RamLimits \subseteq DOMAIN X4Registers
<1>1. RamLimits \subseteq RegisterNames BY DEF RamLimits, RegisterNames
<1>2. Paced \subseteq RegisterNames BY NamesAre DEF Paced
<1>3. RamLimits \subseteq DOMAIN X4Registers BY DEF RamLimits, X4Registers
<1>4. Paced \subseteq DOMAIN X4Registers
    BY DEF Paced, DelaySources, Delays, Overlays, X4Registers
<1> QED BY <1>1, <1>2, <1>3, <1>4

LEMMA FreshPaced ==
  ASSUME NEW t, Fresh(t, Paced)
  PROVE  Bytes(t) /\ DelaysRight(t)
<1>1. /\ t.hwregs.PORT20 = 0 /\ t.hwregs.PORT27 = 0 /\ t.hwregs.PORT28 = 0
      /\ t.hwregs.PORT29 = \h14 /\ t.hwregs.PORT2E = \h44
    BY DEF Fresh, Paced, DelaySources, Overlays, X4Registers
<1>2. /\ t.hwregs.FLASH_EXEC_DELAY = 0 /\ t.hwregs.FLASH_READ_DELAY = 0
      /\ t.hwregs.FLASH_WRITE_DELAY = 0 /\ t.hwregs.RAM_EXEC_DELAY = 0
      /\ t.hwregs.RAM_READ_DELAY = 0 /\ t.hwregs.RAM_WRITE_DELAY = 0
      /\ t.hwregs.LCD_PORT_DELAY = 5
    BY DEF Fresh, Paced, Delays, X4Registers
<1>3. ~BitOf(\h14, 0) /\ ~BitOf(\h14, 1) BY DEF BitOf
<1>4. t.hwregs[DelayPort[1 + (t.hwregs.PORT20 % 4)]] = \h14 BY <1>1 DEF DelayPort
<1>5. DelaysOf(t.hwregs)
        = [FLASH_EXEC_DELAY |-> 0, FLASH_READ_DELAY |-> 0, FLASH_WRITE_DELAY |-> 0,
           RAM_EXEC_DELAY |-> 0, RAM_READ_DELAY |-> 0, RAM_WRITE_DELAY |-> 0,
           LCD_PORT_DELAY |-> 5]
    BY <1>3, <1>4 DEF DelaysOf, Num
<1>6. DelaysRight(t) BY <1>2, <1>5 DEF DelaysRight, Delays
<1> QED BY <1>1, <1>6 DEF Bytes

LEMMA FreshKept ==
  ASSUME NEW t, Fresh(t, Paced), MapRight(t),
         t.hw # "xn" => Fresh(t, RamLimits),
         t.hw \notin {"x4", "xn"} => t.override = t.hwregs.PORT21 % 4
  PROVE  Kept(t)
<1>1. Bytes(t) /\ DelaysRight(t) BY FreshPaced
<1>2. t.hw # "xn" => /\ t.hwregs.NO_EXEC_RAM_LOWER = t.hwregs.PORT25 * \h400
                     /\ t.hwregs.NO_EXEC_RAM_UPPER = t.hwregs.PORT26 * \h400
  <2> SUFFICES ASSUME t.hw # "xn"
               PROVE /\ t.hwregs.NO_EXEC_RAM_LOWER = t.hwregs.PORT25 * \h400
                     /\ t.hwregs.NO_EXEC_RAM_UPPER = t.hwregs.PORT26 * \h400
      OBVIOUS
  <2>1. /\ t.hwregs.PORT25 = \h10 /\ t.hwregs.PORT26 = \h20
        /\ t.hwregs.NO_EXEC_RAM_LOWER = \h4000 /\ t.hwregs.NO_EXEC_RAM_UPPER = \h8000
      BY DEF Fresh, RamLimits, X4Registers
  <2> QED BY <2>1
<1>3. LimitsRight(t) BY <1>2 DEF LimitsRight
<1> QED BY <1>1, <1>3 DEF Kept, Fresh

LEMMA FreshStays ==
  \A s, t, set, names : Fresh(s, names) /\ Changed(s, t, set) /\ names \cap set = {}
                          /\ names \subseteq RegisterNames => Fresh(t, names)
BY DEF Fresh, Changed

LEMMA x4_fresh ==
  ASSUME NEW s, IsBoard(s)
  PROVE  LET t == x4_reset(s)
         IN /\ Fresh(t, Paced \cup RamLimits) /\ t.hw = s.hw /\ t.map = <<0, 62, 63, 63>>
            /\ t.hwregs.PORT4 = 7 /\ t.hwregs.PORT6 = 63 /\ t.hwregs.PORT7 = 63
<1> DEFINE t == x4_reset(s)
<1>1. /\ IsBoard(t) /\ t.hw = s.hw /\ t.map = <<0, 62, 63, 63>>
      /\ \A n \in RegisterNames :
           t.hwregs[n] = IF n \in DOMAIN X4Registers THEN X4Registers[n] ELSE s.hwregs[n]
    BY DEF x4_reset, IsBoard, Fields
<1> HIDE DEF t
<1>2. Fresh(t, Paced \cup RamLimits) BY <1>1, PacedAre DEF Fresh
<1>3. /\ {"PORT4", "PORT6", "PORT7"} \subseteq DOMAIN X4Registers
      /\ X4Registers.PORT4 = 7 /\ X4Registers.PORT6 = 63 /\ X4Registers.PORT7 = 63
    BY DEF X4Registers
<1>4. {"PORT4", "PORT6", "PORT7"} \subseteq RegisterNames BY DEF RegisterNames
<1> QED BY <1>1, <1>2, <1>3, <1>4 DEF t

LEMMA Larger_fresh ==
  ASSUME NEW s, IsBoard(s)
  PROVE  LET t == Larger(x4_reset(s))
         IN /\ Fresh(t, Paced \cup RamLimits) /\ t.hw = s.hw /\ t.map = <<0, 126, 127, 127>>
            /\ t.hwregs.PORT4 = 7 /\ t.hwregs.PORT6 = 127 /\ t.hwregs.PORT7 = 127
<1> DEFINE u == x4_reset(s)
           t == Larger(u)
           set == {"PORT6", "PORT7", "PORT23"}
<1>1. Fresh(u, Paced \cup RamLimits) /\ u.hw = s.hw /\ u.hwregs.PORT4 = 7 BY x4_fresh
<1> HIDE DEF u
<1>2. /\ IsBoard(t) /\ t.hw = u.hw /\ t.map = <<0, 126, 127, 127>>
      /\ t.hwregs = [u.hwregs EXCEPT !.PORT6 = \h7F, !.PORT7 = \h7F, !.PORT23 = \h69]
    BY <1>1 DEF Fresh, Larger, IsBoard, Fields
<1> HIDE DEF t
<1>3. DOMAIN u.hwregs = RegisterNames BY <1>1 DEF Fresh, IsBoard
<1>4. Changed(u, t, set) BY <1>2, <1>3 DEF Changed
<1>5. (Paced \cup RamLimits) \cap set = {}
    BY DEF Paced, RamLimits, DelaySources, Delays, Overlays
<1>6. Fresh(t, Paced \cup RamLimits) BY <1>1, <1>4, <1>5, PacedAre, FreshStays
<1>7. {"PORT4", "PORT6", "PORT7"} \subseteq RegisterNames BY DEF RegisterNames
<1>8. t.hwregs.PORT4 = 7 BY <1>1, <1>4, <1>7 DEF Changed
<1>9. t.hwregs.PORT6 = 127 /\ t.hwregs.PORT7 = 127 BY <1>2, <1>3, <1>7
<1> QED BY <1>1, <1>2, <1>6, <1>8, <1>9 DEF t, u

\* The last two pages of the Flash, in both halves of a wide bank
LEMMA ThreeBanksWide ==
  ASSUME NEW r, NEW rom \in {64, 128}, BitOf(r.PORT4, 0), r.PORT6 = rom - 1, r.PORT7 = rom - 1
  PROVE  ThreeBanks(r, rom) = <<0, rom - 2, rom - 1, rom - 1>>
BY DEF ThreeBanks, Bank, BitOf, Paired, Even

LEMMA x4_resetKept ==
  ASSUME NEW s, IsBoard(s), s.hw = "x4"
  PROVE  Kept(x4_reset(s))
<1> DEFINE t == x4_reset(s)
<1>1. /\ Fresh(t, Paced \cup RamLimits) /\ t.hw = "x4" /\ t.map = <<0, 62, 63, 63>>
      /\ t.hwregs.PORT4 = 7 /\ t.hwregs.PORT6 = 63 /\ t.hwregs.PORT7 = 63
    BY x4_fresh
<1> HIDE DEF t
<1>2. BitOf(7, 0) BY DEF BitOf
<1>3. setup_mapping("x4", t.hwregs) = <<0, 62, 63, 63>>
    BY <1>1, <1>2, ThreeBanksWide DEF setup_mapping, x4_setup_mapping
<1>4. MapRight(t) BY <1>1, <1>3 DEF MapRight
<1>5. Fresh(t, Paced) /\ Fresh(t, RamLimits) BY <1>1 DEF Fresh
<1> QED BY <1>1, <1>4, <1>5, FreshKept DEF t

LEMMA xs_resetKept ==
  ASSUME NEW s, IsBoard(s), s.hw = "xs"
  PROVE  Kept(xs_reset(s))
<1> DEFINE u == Larger(x4_reset(s))
           t == [u EXCEPT !.hwregs.PORT21 = 1, !.hwregs.PORT4 = \h77, !.override = 1]
           set == {"PORT21", "PORT4"}
<1>1. /\ Fresh(u, Paced \cup RamLimits) /\ u.hw = "xs" /\ u.map = <<0, 126, 127, 127>>
      /\ u.hwregs.PORT6 = 127 /\ u.hwregs.PORT7 = 127
    BY Larger_fresh
<1> HIDE DEF u
<1>2. /\ IsBoard(t) /\ t.hw = u.hw /\ t.map = u.map /\ t.override = 1
      /\ t.hwregs = [u.hwregs EXCEPT !.PORT21 = 1, !.PORT4 = \h77]
    BY <1>1 DEF Fresh, IsBoard, Fields
<1> HIDE DEF t
<1>3. DOMAIN u.hwregs = RegisterNames BY <1>1 DEF Fresh, IsBoard
<1>4. {"PORT21", "PORT4", "PORT6", "PORT7"} \subseteq RegisterNames BY DEF RegisterNames
<1>5. Changed(u, t, set) BY <1>2, <1>3 DEF Changed
<1>6. t.hwregs.PORT21 = 1 /\ t.hwregs.PORT4 = \h77 BY <1>2, <1>3, <1>4
<1>7. t.hwregs.PORT6 = 127 /\ t.hwregs.PORT7 = 127 BY <1>1, <1>4, <1>5 DEF Changed
<1>8. (Paced \cup RamLimits) \cap set = {}
    BY DEF Paced, RamLimits, DelaySources, Delays, Overlays
<1>9. Fresh(t, Paced \cup RamLimits) BY <1>1, <1>5, <1>8, PacedAre, FreshStays
<1>10. Fresh(t, Paced) /\ Fresh(t, RamLimits) BY <1>9 DEF Fresh
<1>11. BitOf(\h77, 0) BY DEF BitOf
<1>12. setup_mapping("xs", t.hwregs) = <<0, 126, 127, 127>>
    BY <1>6, <1>7, <1>11, ThreeBanksWide DEF setup_mapping, xs_setup_mapping
<1>13. MapRight(t) BY <1>1, <1>2, <1>12 DEF MapRight
<1>14. t.override = t.hwregs.PORT21 % 4 BY <1>2, <1>6
<1> QED BY <1>10, <1>13, <1>14, FreshKept DEF t, u, xs_reset

LEMMA xz_resetKept ==
  ASSUME NEW s, IsBoard(s), s.hw = "xz"
  PROVE  Kept(xz_reset(s))
<1> DEFINE u == Larger(x4_reset(s))
           t == [u EXCEPT !.hwregs.PORT21 = 1, !.override = 1]
           set == {"PORT21"}
<1>1. /\ Fresh(u, Paced \cup RamLimits) /\ u.hw = "xz" /\ u.map = <<0, 126, 127, 127>>
      /\ u.hwregs.PORT4 = 7 /\ u.hwregs.PORT6 = 127 /\ u.hwregs.PORT7 = 127
    BY Larger_fresh
<1> HIDE DEF u
<1>2. /\ IsBoard(t) /\ t.hw = u.hw /\ t.map = u.map /\ t.override = 1
      /\ t.hwregs = [u.hwregs EXCEPT !.PORT21 = 1]
    BY <1>1 DEF Fresh, IsBoard, Fields
<1> HIDE DEF t
<1>3. DOMAIN u.hwregs = RegisterNames BY <1>1 DEF Fresh, IsBoard
<1>4. {"PORT21", "PORT4", "PORT6", "PORT7"} \subseteq RegisterNames BY DEF RegisterNames
<1>5. Changed(u, t, set) BY <1>2, <1>3 DEF Changed
<1>6. t.hwregs.PORT21 = 1 BY <1>2, <1>3, <1>4
<1>7. t.hwregs.PORT4 = 7 /\ t.hwregs.PORT6 = 127 /\ t.hwregs.PORT7 = 127
    BY <1>1, <1>4, <1>5 DEF Changed
<1>8. (Paced \cup RamLimits) \cap set = {}
    BY DEF Paced, RamLimits, DelaySources, Delays, Overlays
<1>9. Fresh(t, Paced \cup RamLimits) BY <1>1, <1>5, <1>8, PacedAre, FreshStays
<1>10. Fresh(t, Paced) /\ Fresh(t, RamLimits) BY <1>9 DEF Fresh
<1>11. BitOf(7, 0) BY DEF BitOf
<1>12. setup_mapping("xz", t.hwregs) = <<0, 126, 127, 127>>
    BY <1>7, <1>11, ThreeBanksWide DEF setup_mapping, xz_setup_mapping
<1>13. MapRight(t) BY <1>1, <1>2, <1>12 DEF MapRight
<1>14. t.override = t.hwregs.PORT21 % 4 BY <1>2, <1>6
<1> QED BY <1>10, <1>13, <1>14, FreshKept DEF t, u, xz_reset

LEMMA xn_resetKept ==
  ASSUME NEW s, IsBoard(s), s.hw = "xn"
  PROVE  Kept(xn_reset(s))
<1> DEFINE u == Larger(x4_reset(s))
           a == s.hwregs.NO_EXEC_RAM_MASK
           b == s.hwregs.NO_EXEC_RAM_LOWER
           c == s.hwregs.NO_EXEC_RAM_UPPER
           t == [u EXCEPT !.hwregs = [@ EXCEPT !.NO_EXEC_RAM = \h5555, !.NO_EXEC_RAM_MASK = a,
                   !.NO_EXEC_RAM_LOWER = b, !.NO_EXEC_RAM_UPPER = c]]
           set == {"NO_EXEC_RAM", "NO_EXEC_RAM_MASK", "NO_EXEC_RAM_LOWER", "NO_EXEC_RAM_UPPER"}
<1>1. /\ Fresh(u, Paced \cup RamLimits) /\ u.hw = "xn" /\ u.map = <<0, 126, 127, 127>>
      /\ u.hwregs.PORT4 = 7 /\ u.hwregs.PORT6 = 127 /\ u.hwregs.PORT7 = 127
    BY Larger_fresh
<1>2. xn_reset(s) = t BY DEF xn_reset
<1> HIDE DEF u, a, b, c
<1>3. /\ IsBoard(t) /\ t.hw = u.hw /\ t.map = u.map
      /\ t.hwregs = [u.hwregs EXCEPT !.NO_EXEC_RAM = \h5555, !.NO_EXEC_RAM_MASK = a,
                       !.NO_EXEC_RAM_LOWER = b, !.NO_EXEC_RAM_UPPER = c]
    BY <1>1 DEF Fresh, IsBoard, Fields
<1> HIDE DEF t
<1>4. DOMAIN u.hwregs = RegisterNames BY <1>1 DEF Fresh, IsBoard
<1>5. {"PORT4", "PORT6", "PORT7"} \subseteq RegisterNames BY DEF RegisterNames
<1>6. \A n \in RegisterNames \ set : t.hwregs[n] = u.hwregs[n]
  <2>1. \A f, w, x, y, z :
          LET g == [f EXCEPT !.NO_EXEC_RAM = w, !.NO_EXEC_RAM_MASK = x,
                             !.NO_EXEC_RAM_LOWER = y, !.NO_EXEC_RAM_UPPER = z]
          IN \A n \in DOMAIN f \ set : g[n] = f[n]
      OBVIOUS
  <2> DEFINE f == u.hwregs
             g == t.hwregs
             w == \h5555
  <2> HIDE DEF set, f, g, w
  <2>2. g = [f EXCEPT !.NO_EXEC_RAM = w, !.NO_EXEC_RAM_MASK = a,
                      !.NO_EXEC_RAM_LOWER = b, !.NO_EXEC_RAM_UPPER = c]
      BY <1>3 DEF f, g, w
  <2>3. \A n \in DOMAIN f \ set : g[n] = f[n] BY <2>1, <2>2, Zenon
  <2> QED BY <1>4, <2>3 DEF f, g
<1>7. Changed(u, t, set) BY <1>3, <1>6 DEF Changed
<1>8. t.hwregs.PORT4 = 7 /\ t.hwregs.PORT6 = 127 /\ t.hwregs.PORT7 = 127
    BY <1>1, <1>5, <1>7 DEF Changed
<1>9. Paced \cap set = {} BY DEF Paced, DelaySources, Delays, Overlays
<1>10. Fresh(u, Paced) BY <1>1 DEF Fresh
<1>11. Fresh(t, Paced) BY <1>7, <1>9, <1>10, PacedAre, FreshStays
<1>12. BitOf(7, 0) BY DEF BitOf
<1>13. setup_mapping("xn", t.hwregs) = <<0, 126, 127, 127>>
    BY <1>8, <1>12, ThreeBanksWide DEF setup_mapping, xn_setup_mapping
<1>14. MapRight(t) BY <1>1, <1>3, <1>13 DEF MapRight
<1> QED BY <1>1, <1>2, <1>3, <1>11, <1>14, FreshKept

LEMMA xc_resetKept ==
  ASSUME NEW s, IsBoard(s), s.hw = "xc"
  PROVE  Kept(xc_reset(s))
<1> DEFINE u == Larger(x4_reset(s))
           t == [u EXCEPT
                   !.hwregs = [@ EXCEPT !.PORT21 = 1, !.PORTE = 1, !.PORTF = 1, !.PORT39 = \hF0,
                                 !.PORT3A = 0, !.BACKLIGHT_ON = 0, !.BACKLIGHT_LEVEL = 0],
                   !.map = <<0, \hFE, \hFF, \hFF>>, !.override = 1]
           set == {"PORT21", "PORTE", "PORTF", "PORT39", "PORT3A", "BACKLIGHT_ON",
                   "BACKLIGHT_LEVEL"}
<1>1. /\ Fresh(u, Paced \cup RamLimits) /\ u.hw = "xc"
      /\ u.hwregs.PORT4 = 7 /\ u.hwregs.PORT6 = 127 /\ u.hwregs.PORT7 = 127
    BY Larger_fresh
<1>2. xc_reset(s) = t BY DEF xc_reset
<1> HIDE DEF u
<1>3. /\ IsBoard(t) /\ t.hw = u.hw /\ t.map = <<0, 254, 255, 255>> /\ t.override = 1
      /\ t.hwregs = [u.hwregs EXCEPT !.PORT21 = 1, !.PORTE = 1, !.PORTF = 1, !.PORT39 = \hF0,
                       !.PORT3A = 0, !.BACKLIGHT_ON = 0, !.BACKLIGHT_LEVEL = 0]
    BY <1>1 DEF Fresh, IsBoard, Fields
<1> HIDE DEF t
<1>4. DOMAIN u.hwregs = RegisterNames BY <1>1 DEF Fresh, IsBoard
<1>5. /\ {"PORT4", "PORT6", "PORT7", "PORT21", "PORTE", "PORTF"} \subseteq RegisterNames
      /\ {"PORT4", "PORT6", "PORT7"} \cap set = {}
    BY DEF RegisterNames
<1>6. \A n \in RegisterNames \ set : t.hwregs[n] = u.hwregs[n] BY <1>3, <1>4
<1>7. Changed(u, t, set) BY <1>3, <1>6 DEF Changed
<1>8. t.hwregs.PORT4 = 7 /\ t.hwregs.PORT6 = 127 /\ t.hwregs.PORT7 = 127
    BY <1>1, <1>5, <1>6
<1>9. t.hwregs.PORT21 = 1 /\ t.hwregs.PORTE = 1 /\ t.hwregs.PORTF = 1
  <2>1. "PORT21" \in RegisterNames /\ "PORTE" \in RegisterNames /\ "PORTF" \in RegisterNames
      BY <1>5
  <2>2. t.hwregs.PORT21 = 1 BY <1>3, <1>4, <2>1
  <2>3. t.hwregs.PORTE = 1 BY <1>3, <1>4, <2>1
  <2>4. t.hwregs.PORTF = 1 BY <1>3, <1>4, <2>1
  <2> QED BY <2>2, <2>3, <2>4
<1>10. (Paced \cup RamLimits) \cap set = {}
    BY DEF Paced, RamLimits, DelaySources, Delays, Overlays
<1>11. Fresh(t, Paced \cup RamLimits) BY <1>1, <1>7, <1>10, PacedAre, FreshStays
<1>12. Fresh(t, Paced) /\ Fresh(t, RamLimits) BY <1>11 DEF Fresh
<1>13. setup_mapping("xc", t.hwregs) = <<0, 254, 255, 255>>
  <2>1. BitOf(7, 0) /\ ~BitOf(127, 7) BY DEF BitOf
  <2> QED BY <1>8, <1>9, <2>1 DEF setup_mapping, xc_setup_mapping, Paired, Even
<1>14. MapRight(t) BY <1>1, <1>3, <1>13 DEF MapRight
<1>15. t.override = t.hwregs.PORT21 % 4 BY <1>3, <1>9
<1> QED BY <1>2, <1>12, <1>14, <1>15, FreshKept

LEMMA hw_resetKept ==
  ASSUME NEW s, IsBoard(s), Bytes(s)
  PROVE  /\ Kept(hw_reset(s))
         /\ s.hw \in {"x1", "x2", "x3"} => hw_reset(s).map = ResetMap[s.hw]
<1>1. CASE s.hw \in {"x1", "x2", "x3"} BY <1>1, EarlyResets
<1>2. CASE s.hw \notin {"x1", "x2", "x3"}
  <2>1. s.hw \in Models BY DEF IsBoard
  <2> QED BY <1>2, <2>1, x5_resetKept, x6_resetKept, x7_resetKept, xp_resetKept, x4_resetKept,
             xs_resetKept, xz_resetKept, xn_resetKept, xc_resetKept, Zenon DEF hw_reset, Models
<1> QED BY <1>1, <1>2

LEMMA CalcResetKept ==
  ASSUME NEW s, IsBoard(s), Bytes(s)
  PROVE  /\ Kept(tilem_calc_reset(s))
         /\ s.hw \in {"x1", "x2", "x3"} => tilem_calc_reset(s).map = ResetMap[s.hw]
<1> DEFINE u == [s EXCEPT !.ints = {}, !.lcd = Screen(s.hw), !.mode = {},
                  !.link = {"link_idle"}, !.onkeydown = FALSE, !.onkeyint = FALSE,
                  !.unlock = FALSE, !.nohalt = FALSE]
<1>1. IsBoard(u) /\ u.hw = s.hw /\ u.hwregs = s.hwregs BY DEF IsBoard, Fields
<1>2. tilem_calc_reset(s) = hw_reset(u) BY DEF tilem_calc_reset
<1> HIDE DEF u
<1>3. Bytes(u) BY <1>1 DEF Bytes
<1> QED BY <1>1, <1>2, <1>3, hw_resetKept

LEMMA NewIsKept == \A hw \in Models : Kept(NewBoard(hw))
<1> SUFFICES ASSUME NEW hw \in Models PROVE Kept(NewBoard(hw))
    OBVIOUS
<1> DEFINE u == [hw |-> hw, hwregs |-> [n \in RegisterNames |-> 0], map |-> <<0, 0, 0, 0>>,
                 ints |-> {}, onkeydown |-> FALSE, onkeyint |-> FALSE, poweronhalt |-> TRUE,
                 lcd |-> Screen(hw), mode |-> {}, link |-> {"link_idle"}, nohalt |-> FALSE,
                 unlock |-> FALSE, override |-> 0, speed |-> 0, int_period |-> 0,
                 lcd_wait |-> FALSE, backlight |-> FALSE, pclow |-> FALSE, exception |-> {}]
<1>1. NewBoard(hw) = tilem_calc_reset(u) BY DEF NewBoard
<1>2. IsBoard(u) /\ u.hwregs = [n \in RegisterNames |-> 0] BY DEF IsBoard, Fields
<1> HIDE DEF u
<1>3. {"PORT20", "PORT27", "PORT28"} \subseteq RegisterNames BY DEF RegisterNames
<1>4. Bytes(u) BY <1>2, <1>3 DEF Bytes
<1> QED BY <1>1, <1>2, <1>4, CalcResetKept

-----------------------------------------------------------------------------
(***************************************************************************)
(* A board is sound and what is kept of its ports is right.                *)
(***************************************************************************)
KeptInv == HwInv /\ Kept(board)

LEMMA KeptInit == HwInit => KeptInv
<1> SUFFICES ASSUME HwInit PROVE KeptInv
    OBVIOUS
<1>1. use.hw \in Models BY UsesOfModels DEF HwInit
<1>2. Kept(board) BY <1>1, NewIsKept DEF HwInit
<1> QED BY <1>2, HwInit_Inv DEF KeptInv

LEMMA OutKept ==
  ASSUME KeptInv, Out
  PROVE  Kept(board')
<1>1. PICK o \in use.out, low \in BOOLEAN :
        board' = [z80_out([board EXCEPT !.pclow = low], o[1], o[2]) EXCEPT !.pclow = FALSE]
    BY DEF Out
<1>2. o[2] \in 0..255 BY UsesOfModels DEF KeptInv, HwInv
<1>3. \A s, x : Kept(s) => Kept([s EXCEPT !.pclow = x])
  <2> SUFFICES ASSUME NEW s, NEW x, Kept(s) PROVE Kept([s EXCEPT !.pclow = x])
      OBVIOUS
  <2>1. Leaves(s, [s EXCEPT !.pclow = x], Loose) BY DEF Kept, Leaves, IsBoard, Fields
  <2> QED BY <2>1, LooseKept
<1> DEFINE s == [board EXCEPT !.pclow = low]
           t == z80_out(s, o[1], o[2])
<1>4. Kept(s) BY <1>3 DEF KeptInv
<1>5. board' = [t EXCEPT !.pclow = FALSE] BY <1>1
<1>6. Kept(t)
  <2> HIDE DEF s
  <2> QED BY <1>2, <1>4, z80_outKept
<1> HIDE DEF t
<1> QED BY <1>3, <1>5, <1>6

LEMMA OthersKept ==
  ASSUME KeptInv, In \/ Read \/ Fetch \/ Exception \/ OnKey \/ LinkChanges \/ TimerRings
                    \/ HwReset
  PROVE  Kept(board')
<1>0. Kept(board) /\ IsBoard(board) BY DEF KeptInv, Kept
<1>1. CASE In BY <1>0, <1>1, z80_inKept DEF In
<1>2. CASE Read \/ Fetch BY <1>0, <1>2, RdmemKept DEF Read, Fetch
<1>3. CASE Exception
  <2> DEFINE s == [board EXCEPT !.exception = {}]
  <2>1. IsBoard(s) /\ s.hwregs = board.hwregs BY <1>0 DEF IsBoard, Fields
  <2>2. board' = tilem_calc_reset(s) BY <1>3 DEF Exception
  <2> HIDE DEF s
  <2>3. Bytes(s) BY <1>0, <2>1 DEF Kept, Bytes
  <2> QED BY <2>1, <2>2, <2>3, CalcResetKept
<1>4. CASE OnKey
  <2> DEFINE keys == IF board.onkeyint THEN board.ints \cup {"on_key"} ELSE board.ints
  <2>1. board' = [board EXCEPT !.onkeydown = ~@, !.ints = keys] BY <1>4 DEF OnKey
  <2> HIDE DEF keys
  <2>2. Leaves(board, board', Loose) BY <1>0, <2>1 DEF Leaves, IsBoard, Fields
  <2> QED BY <1>0, <2>2, LooseKept
<1>5. CASE LinkChanges
  <2>1. PICK on \in SUBSET {"link_read", "link_idle"},
             i \in {"none", "link_active", "link_error"} :
          board' = link_levels([board EXCEPT !.link = on,
                     !.ints = IF i # "none" /\ FlagOf[i] \in board.mode THEN @ \cup {i}
                              ELSE @])
      BY <1>5 DEF LinkChanges
  <2> DEFINE new == IF i # "none" /\ FlagOf[i] \in board.mode THEN board.ints \cup {i}
                    ELSE board.ints
             t == [board EXCEPT !.link = on, !.ints = new]
  <2>2. board' = link_levels(t) BY <2>1
  <2> HIDE DEF new
  <2>3. Leaves(board, t, Loose) BY <1>0 DEF Leaves, IsBoard, Fields
  <2> HIDE DEF t
  <2>4. Kept(t) BY <1>0, <2>3, LooseKept
  <2> QED BY <2>2, <2>4, LevelsLeave, LooseKept DEF Kept
<1>6. CASE TimerRings BY <1>0, <1>6, z80_ptimerKept DEF TimerRings
<1>7. CASE HwReset BY <1>0, <1>7, CalcResetKept DEF HwReset, Kept
<1> QED BY <1>1, <1>2, <1>3, <1>4, <1>5, <1>6, <1>7

LEMMA KeptNext ==
  ASSUME KeptInv, [HwNext]_hwVars
  PROVE  KeptInv'
<1>1. HwInv' BY HwNext_Inv DEF KeptInv
<1>2. CASE UNCHANGED hwVars BY <1>1, <1>2 DEF hwVars, KeptInv
<1>3. CASE SecondPasses BY <1>1, <1>3 DEF SecondPasses, KeptInv
<1>4. CASE Out BY <1>1, <1>4, OutKept DEF KeptInv
<1>5. CASE In \/ Read \/ Fetch \/ Exception \/ OnKey \/ LinkChanges \/ TimerRings \/ HwReset
    BY <1>1, <1>5, OthersKept DEF KeptInv
<1> QED BY <1>2, <1>3, <1>4, <1>5 DEF HwNext

-----------------------------------------------------------------------------
\* Every model sees its first page in the first quarter.
LEMMA BootSeen ==
  ASSUME NEW s, s.hw \in Models, MapRight(s)
  PROVE  s.map[1] = 0
<1>1. \A r : setup_mapping(s.hw, r)[1] = 0
  <2>1. \A r : x1_setup_mapping(r)[1] = 0 BY DEF x1_setup_mapping
  <2>2. \A wide, a, odd, b, top : Paired(wide, a, odd, b, top)[1] = 0 BY DEF Paired
  <2>3. \A r : x2_setup_mapping(r)[1] = 0 BY <2>2 DEF x2_setup_mapping
  <2>4. \A r : x3_setup_mapping(r)[1] = 0 BY <2>2 DEF x3_setup_mapping
  <2>5. \A r : x5_setup_mapping(r)[1] = 0 /\ x6_setup_mapping(r)[1] = 0
      BY DEF x5_setup_mapping, x6_setup_mapping
  <2>6. \A r : x7_setup_mapping(r)[1] = 0 /\ xp_setup_mapping(r)[1] = 0
      BY <2>2 DEF x7_setup_mapping, xp_setup_mapping
  <2>7. \A r, rom : ThreeBanks(r, rom)[1] = 0 BY <2>2 DEF ThreeBanks
  <2>8. \A r : xc_setup_mapping(r)[1] = 0 BY <2>2 DEF xc_setup_mapping
  <2> QED BY <2>1, <2>3, <2>4, <2>5, <2>6, <2>7, <2>8, ZenonT(60)
          DEF Models, setup_mapping, x4_setup_mapping, xs_setup_mapping, xz_setup_mapping,
              xn_setup_mapping
<1>2. \A hw \in {"x1", "x2", "x3"} : ResetMap[hw][1] = 0 BY DEF ResetMap
<1>3. DOMAIN ResetMap = {"x1", "x2", "x3"} BY DEF ResetMap
<1> QED BY <1>1, <1>2, <1>3 DEF MapRight

\* The address of a byte of a page, or of a quarter
At(page, w) == page * PageSize + w
Offsets == 0 .. PageSize - 1
Space == 0 .. 4 * PageSize - 1

LEMMA AddressParts ==
  /\ \A q \in Int : \A w \in Offsets : Quarter(At(q, w)) = q /\ Within(At(q, w)) = w
  /\ \A A \in Space :
       /\ Quarter(A) \in 0..3 /\ Within(A) \in Offsets /\ A = At(Quarter(A), Within(A))
<1>1. ASSUME NEW q \in Int, NEW w \in Offsets
      PROVE  Quarter(At(q, w)) = q /\ Within(At(q, w)) = w
    BY DEF Quarter, Within, At, Offsets, PageSize
<1>2. ASSUME NEW A \in Space
      PROVE  /\ Quarter(A) \in 0..3 /\ Within(A) \in Offsets
             /\ A = At(Quarter(A), Within(A))
  <2>1. PageSize \in Nat BY DEF PageSize
  <2>2. A \in Int /\ 0 <= A /\ A < 4 * PageSize BY <2>1 DEF Space
  <2> QED BY <2>2 DEF Quarter, Within, At, Offsets, PageSize
<1>3. \A q \in Int : \A w \in Offsets : Quarter(At(q, w)) = q /\ Within(At(q, w)) = w
    BY <1>1
<1>4. \A A \in Space :
        /\ Quarter(A) \in 0..3 /\ Within(A) \in Offsets /\ A = At(Quarter(A), Within(A))
    BY <1>2
<1> QED BY <1>3, <1>4

\* The page that is seen, quarter by quarter: what is laid over the RAM stays in
\* its quarter.
Seen(r, map, q, w, ram) ==
  CASE q = 2 -> IF w < 64 * r.PORT28 THEN ram + 1 ELSE map[3]
    [] q = 3 -> IF w >= PageSize - 64 * r.PORT27 THEN ram ELSE map[4]
    [] OTHER -> map[q + 1]

LEMMA OverlaidIs ==
  ASSUME NEW r, NEW map, NEW ram, r.PORT27 \in 0..255, r.PORT28 \in 0..255,
         NEW q \in 0..3, NEW w \in Offsets
  PROVE  Overlaid(r, map, At(q, w), ram) = Seen(r, map, q, w, ram)
<1> DEFINE A == At(q, w)
           m == Mapped(map, A)
           low == r.PORT28
           high == r.PORT27
<1>1. A = q * 16384 + w /\ w \in 0..16383 BY DEF At, Offsets, PageSize
<1>2. m = map[q + 1] BY AddressParts DEF Mapped
<1>3. Overlaid(r, map, A, ram)
        = CASE A >= \h8000 /\ A > \hFFFF - 64 * high -> ram
            [] A >= \h8000 /\ A <= \hFFFF - 64 * high /\ A < \h8000 + 64 * low
                 -> ram + 1
            [] OTHER -> m
    BY DEF Overlaid
<1>4. low \in 0..255 /\ high \in 0..255 OBVIOUS
<1>5. Seen(r, map, q, w, ram)
        = CASE q = 2 -> IF w < 64 * low THEN ram + 1 ELSE map[3]
            [] q = 3 -> IF w >= 16384 - 64 * high THEN ram ELSE map[4]
            [] OTHER -> map[q + 1]
    BY DEF Seen, PageSize
<1> HIDE DEF A, m, low, high
<1>6. CASE q = 0 \/ q = 1
  <2>1. A < 32768 /\ A \in Int BY <1>1, <1>6
  <2>2. ~(A >= \h8000) BY <2>1
  <2>3. Overlaid(r, map, A, ram) = m BY <1>3, <2>2
  <2>4. Seen(r, map, q, w, ram) = map[q + 1] BY <1>5, <1>6
  <2> QED BY <1>2, <2>3, <2>4 DEF A
<1>7. CASE q = 2
  <2>1. A = 32768 + w BY <1>1, <1>7
  <2>2. /\ A >= \h8000 /\ ~(A > \hFFFF - 64 * high) /\ A <= \hFFFF - 64 * high
        /\ A < \h8000 + 64 * low <=> w < 64 * low
      BY <1>4, <1>1, <2>1
  <2>3. Overlaid(r, map, A, ram) = IF w < 64 * low THEN ram + 1 ELSE m
      BY <1>3, <2>2
  <2>4. Seen(r, map, q, w, ram) = IF w < 64 * low THEN ram + 1 ELSE map[3] BY <1>5, <1>7
  <2> QED BY <1>2, <1>7, <2>3, <2>4 DEF A
<1>8. CASE q = 3
  <2>1. A = 49152 + w BY <1>1, <1>8
  <2>2. /\ A >= \h8000 /\ ~(A < \h8000 + 64 * low)
        /\ A > \hFFFF - 64 * high <=> w >= 16384 - 64 * high
      BY <1>4, <1>1, <2>1
  <2>3. Overlaid(r, map, A, ram) = IF w >= 16384 - 64 * high THEN ram ELSE m
      BY <1>3, <2>2
  <2>4. Seen(r, map, q, w, ram) = IF w >= 16384 - 64 * high THEN ram ELSE map[4]
      BY <1>5, <1>8
  <2> QED BY <1>2, <1>8, <2>3, <2>4 DEF A
<1> QED BY <1>6, <1>7, <1>8

\* The way back, by way of a quarter that shows the page
LEMMA BackSeen ==
  ASSUME NEW r, NEW map, NEW ram, map[1] = 0,
         NEW q \in 0..3, NEW w \in Offsets, NEW page \in Nat,
         page = Seen(r, map, q, w, ram)
  PROVE  \E k \in 0..3 : /\ OverlaidToLogical(r, map, At(page, w), ram) = At(k, w)
                         /\ Seen(r, map, k, w, ram) = page
<1> DEFINE third == page = IF w < 64 * r.PORT28 THEN ram + 1 ELSE map[3]
           fourth == page = IF w >= PageSize - 64 * r.PORT27 THEN ram ELSE map[4]
           back == OverlaidToLogical(r, map, At(page, w), ram)
<1>1. Quarter(At(page, w)) = page /\ Within(At(page, w)) = w BY AddressParts
<1>2. back = CASE page = 0 -> w
               [] page # 0 /\ page = map[2] -> \h4000 + w
               [] page # 0 /\ page # map[2] /\ third -> \h8000 + w
               [] page # 0 /\ page # map[2] /\ ~third /\ fourth -> \hC000 + w
               [] OTHER -> NoAddress
    BY <1>1 DEF OverlaidToLogical
<1>3. /\ Seen(r, map, 0, w, ram) = map[1] /\ Seen(r, map, 1, w, ram) = map[2]
      /\ third <=> page = Seen(r, map, 2, w, ram)
      /\ fourth <=> page = Seen(r, map, 3, w, ram)
    BY DEF Seen
<1>4. page = 0 \/ page = map[2] \/ third \/ fourth
  <2>1. q = 0 \/ q = 1 \/ q = 2 \/ q = 3 OBVIOUS
  <2> HIDE DEF third, fourth
  <2> QED BY <1>3, <2>1
<1>5. /\ At(0, w) = w /\ At(1, w) = \h4000 + w
      /\ At(2, w) = \h8000 + w /\ At(3, w) = \hC000 + w
    BY DEF At, PageSize, Offsets
<1> HIDE DEF back, third, fourth
<1>6. CASE page = 0
  <2>1. back = At(0, w) BY <1>2, <1>5, <1>6
  <2> QED BY <1>3, <1>6, <2>1 DEF back
<1>7. CASE page # 0 /\ page = map[2]
  <2>1. back = At(1, w) BY <1>2, <1>5, <1>7
  <2> QED BY <1>3, <1>7, <2>1 DEF back
<1>8. CASE page # 0 /\ page # map[2] /\ third
  <2>1. back = At(2, w) BY <1>2, <1>5, <1>8
  <2> QED BY <1>3, <1>8, <2>1 DEF back
<1>9. CASE page # 0 /\ page # map[2] /\ ~third /\ fourth
  <2>1. back = At(3, w) BY <1>2, <1>5, <1>9
  <2> QED BY <1>3, <1>9, <2>1 DEF back
<1> QED BY <1>4, <1>6, <1>7, <1>8, <1>9

\* The way back of the models without overlays
LEMMA BackMapped ==
  ASSUME NEW map, NEW q \in 0..3, NEW w \in Offsets, map[q + 1] \in Nat
  PROVE  \E k \in 0..3 : /\ x2_mem_ptol(map, At(map[q + 1], w)) = At(k, w)
                         /\ map[k + 1] = map[q + 1]
<1> DEFINE page == map[q + 1]
           pa == At(page, w)
           shows == {i \in 0..3 : map[i + 1] = page}
           k == CHOOSE i \in shows : \A j \in shows : i <= j
<1>1. Quarter(pa) = page /\ Within(pa) = w BY AddressParts
<1>2. q \in shows OBVIOUS
<1>3. x2_mem_ptol(map, pa) = At(k, w) BY <1>1, <1>2 DEF x2_mem_ptol, At
<1>4. \E i \in shows : \A j \in shows : i <= j
  <2>0. shows \subseteq 0..3 OBVIOUS
  <2> HIDE DEF shows
  <2>1. CASE 0 \in shows BY <2>0, <2>1
  <2>2. CASE 0 \notin shows /\ 1 \in shows BY <2>0, <2>2
  <2>3. CASE 0 \notin shows /\ 1 \notin shows /\ 2 \in shows BY <2>0, <2>3
  <2>4. CASE 0 \notin shows /\ 1 \notin shows /\ 2 \notin shows /\ 3 \in shows
      BY <2>0, <2>4
  <2>5. 0 \in shows \/ 1 \in shows \/ 2 \in shows \/ 3 \in shows BY <1>2, <2>0
  <2> QED BY <2>1, <2>2, <2>3, <2>4, <2>5
<1>5. k \in shows
  <2> HIDE DEF shows
  <2> QED BY <1>4
<1> HIDE DEF k
<1> QED BY <1>3, <1>5

LEMMA Translates ==
  ASSUME NEW s, IsBoard(s), MapRight(s), Bytes(s), InChips(s), NEW A \in Space
  PROVE  LET pa == address(s.hw, s.hwregs, s.map, A)
             back == mem_ptol(s.hw, s.hwregs, s.map, pa)
         IN /\ mem_ltop(s.hw, s.hwregs, s.map, A) = pa
            /\ s.hw # "x1" => /\ back # NoAddress
                              /\ address(s.hw, s.hwregs, s.map, back) = pa
<1> DEFINE r == s.hwregs
           map == s.map
           q == Quarter(A)
           w == Within(A)
           pa == address(s.hw, r, map, A)
           back == mem_ptol(s.hw, r, map, pa)
<1>0. s.hw \in Models BY DEF IsBoard
<1>1. q \in 0..3 /\ w \in Offsets /\ A = At(q, w) BY AddressParts
<1>2. map[1] = 0 BY <1>0, BootSeen
<1>3. \A k \in 0..3 : map[k + 1] \in Nat BY DEF InChips, Pages
<1> HIDE DEF q, w
<1>4. \A k \in 0..3 : At(k, w) # NoAddress BY <1>1 DEF NoAddress, PageSize, At, Offsets
<1>5. \A k \in 0..3 : Mapped(map, At(k, w)) = map[k + 1]
    BY <1>1, AddressParts DEF Mapped
<1>6. \A k \in 0..3 : Within(At(k, w)) = w BY <1>1, AddressParts
<1>7. CASE s.hw = "x1"
  <2>1. map[q + 1] \in 0..2
    <3>1. q + 1 \in 1..4 BY <1>1
    <3> QED BY <1>7, <3>1 DEF InChips, Pages, RomPages, RamPages
  <2> DEFINE at == At(map[q + 1], w)
  <2>2. page_of(s.hw, r, map, A) = map[q + 1] BY <1>1, <1>5, <1>7 DEF page_of, SilverModels
  <2>3. pa = Mirrored(at) BY <1>1, <1>6, <1>7, <2>2 DEF address, At
  <2>4. mem_ltop(s.hw, r, map, A) = IF at >= \h8000 THEN \h8000 + (at % \h2000) ELSE at
      BY <1>1, <1>5, <1>6, <1>7 DEF mem_ltop, x1_mem_ltop, At
  <2>5. at \in Nat BY <1>1, <2>1 DEF PageSize, At, Offsets
  <2> HIDE DEF at
  <2>6. Mirrored(at) = IF at >= \h8000 THEN \h8000 + (at % \h2000) ELSE at
      BY <2>5 DEF Mirrored
  <2> QED BY <1>7, <2>3, <2>4, <2>6
<1>8. CASE s.hw \notin SilverModels \cup {"x1"}
  <2>1. \A k \in 0..3 : address(s.hw, r, map, At(k, w)) = At(map[k + 1], w)
      BY <1>5, <1>6, <1>8 DEF address, page_of, At
  <2>2. pa = At(map[q + 1], w) BY <1>1, <2>1
  <2>3. mem_ltop(s.hw, r, map, A) = At(map[q + 1], w)
      BY <1>1, <1>5, <1>6, <1>8 DEF mem_ltop, x2_mem_ltop, SilverModels, At
  <2>4. back = x2_mem_ptol(map, pa) BY <1>8 DEF mem_ptol, SilverModels
  <2>5. PICK k \in 0..3 : back = At(k, w) /\ map[k + 1] = map[q + 1]
      BY <1>1, <1>3, <2>2, <2>4, BackMapped
  <2>6. address(s.hw, r, map, back) = pa BY <2>1, <2>2, <2>5
  <2>7. back # NoAddress BY <1>4, <2>5
  <2> QED BY <2>2, <2>3, <2>6, <2>7
<1>9. CASE s.hw \in SilverModels
  <2> DEFINE ram == RomPages[s.hw]
  <2>1. ram \in Nat BY <1>9 DEF RomPages, SilverModels
  <2>2. mem_ltop(s.hw, r, map, A) = At(Overlaid(r, map, A, ram), Within(A))
      BY <1>9 DEF mem_ltop, SilverModels, RomPages, x4_mem_ltop, xs_mem_ltop, xz_mem_ltop,
                  xn_mem_ltop, xc_mem_ltop, At
  <2>3. back = OverlaidToLogical(r, map, pa, ram)
      BY <1>9 DEF mem_ptol, SilverModels, RomPages, x4_mem_ptol, xs_mem_ptol, xz_mem_ptol,
                  xn_mem_ptol, xc_mem_ptol
  <2>4. \A B : address(s.hw, r, map, B) = At(Overlaid(r, map, B, ram), Within(B))
      BY <1>9 DEF address, page_of, SilverModels, At
  <2> HIDE DEF ram
  <2>5. \A k \in 0..3 : Overlaid(r, map, At(k, w), ram) = Seen(r, map, k, w, ram)
      BY <1>1, OverlaidIs DEF Bytes
  <2> DEFINE page == Seen(r, map, q, w, ram)
  <2>6. page \in Nat BY <1>1, <1>3, <2>1 DEF Seen
  <2>7. pa = At(page, w) BY <1>1, <1>6, <2>4, <2>5
  <2>8. PICK k \in 0..3 : back = At(k, w) /\ Seen(r, map, k, w, ram) = page
      BY <1>1, <1>2, <2>3, <2>6, <2>7, BackSeen
  <2>9. address(s.hw, r, map, back) = pa BY <1>6, <2>4, <2>5, <2>7, <2>8
  <2>10. back # NoAddress BY <1>4, <2>8
  <2>11. mem_ltop(s.hw, r, map, A) = pa BY <2>2, <2>4
  <2> QED BY <2>9, <2>10, <2>11
<1> QED BY <1>7, <1>8, <1>9

-----------------------------------------------------------------------------
(***************************************************************************)
(* Whatever a program writes to the ports and whenever the calculator is   *)
(* reset, the pages it sees are in the chips and are those of the ports    *)
(* (or of the reset, in three models: setup_mapping, x*_reset), and the    *)
(* debugger's translation agrees with the program's, and leads back        *)
(* (x*_mem_ltop, x*_mem_ptol).                                             *)
(***************************************************************************)
THEOREM PagingIsSound == HwSpec => []PagingSound
<1>1. KeptInv => MapFollowsPorts
  <2> SUFFICES ASSUME KeptInv PROVE MapFollowsPorts
      OBVIOUS
  <2>1. IsBoard(board) /\ Bytes(board) /\ MapRight(board) BY DEF KeptInv, Kept
  <2>2. DOMAIN ResetMap = {"x1", "x2", "x3"} BY DEF ResetMap
  <2>3. board.hw \in DOMAIN ResetMap => tilem_calc_reset(board).map = ResetMap[board.hw]
      BY <2>1, <2>2, CalcResetKept
  <2> QED BY <2>1, <2>2, <2>3 DEF MapFollowsPorts, MapRight
<1>2. KeptInv => TranslationRight
  <2> SUFFICES ASSUME KeptInv PROVE TranslationRight
      OBVIOUS
  <2>1. IsBoard(board) /\ Bytes(board) /\ MapRight(board) /\ InChips(board)
      BY DEF KeptInv, Kept, HwInv, Sound
  <2>2. Addresses \subseteq Space BY HardwareConstants, PTL DEF Space
  <2>3. ASSUME NEW A \in Addresses
        PROVE  LET pa == address(board.hw, board.hwregs, board.map, A)
                   back == mem_ptol(board.hw, board.hwregs, board.map, pa)
               IN /\ mem_ltop(board.hw, board.hwregs, board.map, A) = pa
                  /\ board.hw # "x1" =>
                       /\ back # NoAddress
                       /\ address(board.hw, board.hwregs, board.map, back) = pa
      BY <2>1, <2>2, Translates
  <2> QED BY <2>3 DEF TranslationRight
<1>3. KeptInv /\ [HwNext]_hwVars => KeptInv' BY KeptNext
<1> QED BY <1>1, <1>2, <1>3, KeptInit, PagesStayInMemory, PTL DEF HwSpec, PagingSound

(***************************************************************************)
(* What is kept of the ports that set delays, the groups of Flash and the  *)
(* limits of RAM is what they say (setup_clockdelays, x*_z80_out, x*_reset *)
(* of the models from the TI-83 Plus SE on); so are the interrupts, and    *)
(* who waits for a timer has one.                                          *)
(***************************************************************************)
THEOREM HardwareIsSound == HwSpec => []HardwareSound
<1>1. KeptInv => DerivedFromPorts
  <2> SUFFICES ASSUME KeptInv, board.hw \in SilverModels
               PROVE /\ \A n \in DOMAIN DelaysOf(board.hwregs) :
                          board.hwregs[n] = DelaysOf(board.hwregs)[n]
                     /\ LimitsRight(board)
      BY DEF DerivedFromPorts, LimitsRight
  <2>1. DelaysRight(board) /\ LimitsRight(board) BY DEF KeptInv, Kept
  <2>2. DOMAIN DelaysOf(board.hwregs) = Delays BY DEF DelaysOf, Delays
  <2> QED BY <2>1, <2>2 DEF DelaysRight
<1>2. KeptInv /\ [HwNext]_hwVars => KeptInv' BY KeptNext
<1> QED BY <1>1, <1>2, KeptInit, OnlyEnabledPend, TimersStaySet, PTL DEF HwSpec, HardwareSound

\* The two together, which a run checks: what is kept of ports, all the while,
\* is what the ports say (x*_z80_out, x*_reset).
THEOREM ModelsAreSound == HwSpec => []ModelsSound
<1>1. PagingSound /\ HardwareSound => ModelsSound BY DEF ModelsSound
<1> QED BY <1>1, PagingIsSound, HardwareIsSound, PTL
===============================================================================
