------------------------------- MODULE Flash -------------------------------
(***************************************************************************)
(* The Flash chip (emu/flash.c), as the calculator's memory and ports use  *)
(* it (emu/x4: the other models with Flash do the same).                   *)
(*                                                                         *)
(* A program on the calculator writes commands to the chip: AA to an       *)
(* address that ends in AAA, 55 to one that ends in 555, then the command. *)
(* The chip is busy for a time after a command, and a read then returns a  *)
(* status. Of a byte in the chip only bit 7 is modelled, the one a program *)
(* compares while it polls the status; a value written is one of the bytes *)
(* that the chip tells apart, or a byte of data.                           *)
(***************************************************************************)
EXTENDS Naturals, Sequences

CONSTANTS
  Addr,         \* addresses of the chip
  Low,          \* Low[a] is "AAA" or "555" when a ends so, else "other"
  SectorOf,     \* the sector of an address
  Groups,       \* the protection groups that may be overridden
  GroupsOf      \* the groups that protect a sector

ASSUME FlashConstants ==
  /\ Low \in [Addr -> {"AAA", "555", "other"}]
  /\ GroupsOf \in [{SectorOf[a] : a \in Addr} -> SUBSET Groups]
  /\ Addr # {} /\ "none" \notin Addr

VARIABLES
  state,         \* of the command sequence
  busy,          \* what the chip is doing
  delay,         \* is the timer FLASH_DELAY set?
  unlock,        \* may the chip be written at all?
  overridegroup, \* groups whose protection is off
  emuflags,      \* is the delay of the chip emulated?
  mem,           \* bit 7 of each byte
  prog,          \* the address and the bit last programmed
  asked,         \* history: the last programming, until it is made void
  log            \* history: the last five writes of command bytes, the
                 \* latest first, since any other write

flashVars == <<state, busy, delay, unlock, overridegroup, emuflags, mem, prog,
               asked, log>>
chipVars == <<unlock, overridegroup, emuflags>>

States == {"READ", "AA", "55", "PROG", "ERASE", "ERAA", "ER55", "ERROR",
           "FASTMODE", "FASTPROG", "FASTEXIT"}

\* The bytes that are commands, and two more.
Written == {"AA", "55", "80", "A0", "F0", "90", "20", "30", "10", "FF", "00"}
Bit7(v) == IF v \in {"AA", "80", "A0", "F0", "90", "FF"} THEN 1 ELSE 0

sector_writable(s) == GroupsOf[s] \subseteq overridegroup
Writable(a) == sector_writable(SectorOf[a])

NoLog == <<"x", "x", "x", "x", "x">>
NoneAsked == [addr |-> "none", bit |-> 0]

-----------------------------------------------------------------------------
(***************************************************************************)
(* What the functions of the chip do                                       *)
(***************************************************************************)
\* a delay that is not emulated leaves the chip idle
set_busy(mode) ==
  IF emuflags THEN busy' = mode /\ delay' = TRUE ELSE UNCHANGED <<busy, delay>>

\* Programming only clears bits; asking for a one over a zero is an error.
program_byte(a, v, done) ==
  /\ mem' = [mem EXCEPT ![a] = IF Bit7(v) = 0 THEN 0 ELSE @]
  /\ prog' = [addr |-> a, bit |-> Bit7(v)]
  /\ asked' = prog'
  /\ state' = IF done # "READ" THEN done
              ELSE IF mem'[a] # Bit7(v) THEN "ERROR" ELSE "READ"
  /\ set_busy("PROGRAM")

try_program(a, v, done) ==
  IF Writable(a) THEN program_byte(a, v, done)
  ELSE state' = done /\ UNCHANGED <<busy, delay, mem, prog, asked>>

\* Mutant: the protection of the sectors would not be looked at.
Mut_erase_all(sectors) ==
  LET gone == {a \in Addr : SectorOf[a] \in sectors}
  IN IF gone = {} THEN UNCHANGED <<busy, delay, mem, prog, asked>>
     ELSE /\ mem' = [a \in Addr |-> IF a \in gone THEN 1 ELSE mem[a]]
          /\ \E a \in gone : prog' = [prog EXCEPT !.addr = a]
          /\ asked' = NoneAsked
          /\ set_busy("ERASE_WAIT")

\* Erase those of the sectors that may be written.
erase_sectors(sectors) ==
  LET gone == {a \in Addr : SectorOf[a] \in sectors /\ Writable(a)}
  IN IF gone = {} THEN UNCHANGED <<busy, delay, mem, prog, asked>>
     ELSE /\ mem' = [a \in Addr |-> IF a \in gone THEN 1 ELSE mem[a]]
          /\ \E a \in gone : prog' = [prog EXCEPT !.addr = a]
          /\ asked' = NoneAsked
          /\ set_busy("ERASE_WAIT")

Goto(s) == state' = s /\ UNCHANGED <<busy, delay, mem, prog, asked>>

-----------------------------------------------------------------------------
FlashInit ==
  /\ state = "READ" /\ busy = "no" /\ delay = FALSE
  /\ unlock = FALSE /\ overridegroup = {} /\ emuflags \in BOOLEAN
  /\ mem \in [Addr -> {0, 1}]
  /\ prog = [addr |-> CHOOSE a \in Addr : TRUE, bit |-> 0]
  /\ asked = NoneAsked /\ log = NoLog

\* The two unlocking writes, and a command after them.
First(a, v) == Low[a] = "AAA" /\ v = "AA"
Second(a, v) == Low[a] = "555" /\ v = "55"
Command(a, v, c) == Low[a] = "AAA" /\ v = c

\* What a write is to the datasheet's sequence.
Token(a, v) == IF First(a, v) THEN "aa"
               ELSE IF Second(a, v) THEN "55"
               ELSE IF Command(a, v, "80") THEN "80" ELSE "x"

Logged(a, v) ==
  IF Token(a, v) = "x" THEN NoLog
  ELSE <<Token(a, v), log[1], log[2], log[3], log[4]>>

Accepts == unlock /\ busy \notin {"PROGRAM", "ERASE"}

\* The next state of a command sequence, when the write is one of a sequence.
NextState(a, v) ==
  IF state = "READ" /\ First(a, v) THEN "AA"
  ELSE IF state = "AA" /\ Second(a, v) THEN "55"
  ELSE IF state = "55" /\ Command(a, v, "20") THEN "FASTMODE"
  ELSE IF state = "55" /\ Command(a, v, "80") THEN "ERASE"
  ELSE IF state = "55" /\ Command(a, v, "A0") THEN "PROG"
  ELSE IF state = "ERASE" /\ First(a, v) THEN "ERAA"
  ELSE IF state = "ERAA" /\ Second(a, v) THEN "ER55"
  ELSE IF state = "FASTMODE" /\ v = "90" THEN "FASTEXIT"
  ELSE IF state = "FASTMODE" /\ v = "A0" THEN "FASTPROG"
  ELSE IF state = "FASTEXIT" /\ v # "F0" THEN "FASTMODE" ELSE "READ"

Erasing(a, v) == state = "ER55" /\ (v = "30" \/ Command(a, v, "10"))
Sectors(a, v) == IF v = "30" THEN {SectorOf[a]} ELSE {SectorOf[b] : b \in Addr}

tilem_flash_write_byte(a, v) ==
  /\ Accepts
  /\ log' = Logged(a, v)
  /\ UNCHANGED chipVars
  /\ \/ state = "PROG" /\ try_program(a, v, "READ")
     \/ state = "FASTPROG" /\ try_program(a, v, "FASTMODE")
     \/ Erasing(a, v) /\ state' = "READ" /\ erase_sectors(Sectors(a, v))
     \/ /\ state \notin {"PROG", "FASTPROG"} /\ ~Erasing(a, v)
        /\ Goto(NextState(a, v))

\* Bit 7 of what is read: a status while the chip is busy, and after an
\* error; else the contents.
Status(a) ==
  CASE busy = "PROGRAM" -> 1 - prog.bit
    [] busy \in {"ERASE", "ERASE_WAIT"} -> 0
    [] busy = "no" /\ state = "ERROR" -> 1 - prog.bit
    [] OTHER -> mem[a]

\* A read of the contents in the middle of a sequence breaks it off.
tilem_flash_read_byte ==
  /\ busy = "no" /\ state \notin {"READ", "FASTMODE", "ERROR"}
  /\ state' = "READ" /\ log' = NoLog
  /\ UNCHANGED <<busy, delay, chipVars, mem, prog, asked>>

\* Mutant: the erasing itself would not be timed.
Mut_timer_once ==
  /\ delay
  /\ busy' = (IF busy = "ERASE_WAIT" THEN "ERASE" ELSE "no") /\ delay' = FALSE
  /\ UNCHANGED <<state, chipVars, mem, prog, asked, log>>

tilem_flash_delay_timer ==
  /\ delay
  /\ IF busy = "ERASE_WAIT" THEN busy' = "ERASE" /\ delay' = TRUE
     ELSE busy' = "no" /\ delay' = FALSE
  /\ UNCHANGED <<state, chipVars, mem, prog, asked, log>>

\* Port 14, from the pages that are trusted; port 21, while unlocked.
out_unlock(u) ==
  /\ unlock' = u
  /\ UNCHANGED <<state, busy, delay, overridegroup, emuflags, mem, prog,
                 asked, log>>

out_override(groups) ==
  /\ unlock /\ overridegroup' = groups
  /\ UNCHANGED <<state, busy, delay, unlock, emuflags, mem, prog, asked, log>>

\* A reset of the calculator leaves the timer as it is.
tilem_flash_reset ==
  /\ state' = "READ" /\ busy' = "no" /\ unlock' = FALSE
  /\ log' = NoLog
  /\ UNCHANGED <<delay, overridegroup, emuflags, mem, prog, asked>>

FlashNext ==
  \/ \E a \in Addr, v \in Written : tilem_flash_write_byte(a, v)
  \/ tilem_flash_read_byte
  \/ tilem_flash_delay_timer
  \/ \E u \in BOOLEAN : out_unlock(u)
  \/ \E groups \in SUBSET Groups : out_override(groups)
  \/ tilem_flash_reset

FlashSpec == FlashInit /\ [][FlashNext]_flashVars

-----------------------------------------------------------------------------
(***************************************************************************)
(* Properties                                                              *)
(***************************************************************************)
FlashTypeOK ==
  /\ state \in States
  /\ busy \in {"no", "PROGRAM", "ERASE_WAIT", "ERASE"} /\ delay \in BOOLEAN
  /\ unlock \in BOOLEAN /\ overridegroup \in SUBSET Groups /\ emuflags \in BOOLEAN
  /\ mem \in [Addr -> {0, 1}]
  /\ prog \in [addr : Addr, bit : {0, 1}]
  /\ asked \in [addr : Addr, bit : {0, 1}] \cup {NoneAsked}
  /\ log \in [1 .. 5 -> {"x", "aa", "55", "80"}]

(***************************************************************************)
(* A byte is erased only by the sixth write of the datasheet's sequence    *)
(* (AA, 55, 80, AA, 55, then 10 or 30), with no other write the chip       *)
(* accepts and no read in between, while the chip is unlocked, and never   *)
(* in a sector whose protection is on.                                     *)
(***************************************************************************)
FlashErased ==
  [][\A a \in Addr : mem[a] = 0 /\ mem'[a] = 1 =>
       unlock /\ Writable(a) /\ log = <<"55", "aa", "80", "55", "aa">>]_flashVars

(***************************************************************************)
(* A program that polls the address it has programmed, until bit 7 is the  *)
(* one it wrote, is not told so before the chip is done, nor ever when the *)
(* byte could not be programmed.                                           *)
(***************************************************************************)
FlashPoll ==
  \A a \in Addr, b \in {0, 1} :
    asked = [addr |-> a, bit |-> b] /\ Status(a) = b => busy = "no" /\ mem[a] = b

(***************************************************************************)
(* The chip is never busy without a timer that will end it, whatever is    *)
(* written or reset meanwhile.                                             *)
(***************************************************************************)
FlashBusyTimed == busy # "no" => delay

(***************************************************************************)
(* What the chip tells while it works is true, and it comes to an end.     *)
(***************************************************************************)
FlashStatus == FlashPoll /\ FlashBusyTimed
=============================================================================
