------------------------------ MODULE OldState ------------------------------
(***************************************************************************)
(* State files of older versions (load_old_sav_file of emu/state.c). They  *)
(* have no names: the memory map, 19 registers in the order of the bytes   *)
(* of the machine that wrote them, a port, the RAM, the display, and       *)
(* bytes that may be missing at the end. What wrote them is not in the     *)
(* repository; it is taken to have written what a calculator had.          *)
(***************************************************************************)
EXTENDS Integers, Sequences, FiniteSets

CONSTANTS
  Original,   \* calculators that old versions have saved: records of the fields below
  EndLength   \* bound: how many bytes of the end of a file may be there

ASSUME OldConstants == EndLength \subseteq Nat

VARIABLES
  original,  \* the calculator that was saved
  oldfile,   \* the file
  fresh,     \* the calculator that has loaded it
  outcome    \* "none", "loaded" or "rejected"

oldVars == <<original, oldfile, fresh, outcome>>

-----------------------------------------------------------------------------
(***************************************************************************)
(* Models and their ports. A page at or above rom is one of the RAM.       *)
(***************************************************************************)
Model ==
  [ti82  |-> [rom |-> 8, ram |-> 2, bit |-> 64], ti83  |-> [rom |-> 16, ram |-> 2, bit |-> 64],
   ti85  |-> [rom |-> 8, ram |-> 2, bit |-> 64], ti86  |-> [rom |-> 16, ram |-> 8, bit |-> 64],
   ti73  |-> [rom |-> 32, ram |-> 2, bit |-> 64], ti84p |-> [rom |-> 64, ram |-> 8, bit |-> 128]]

HasBit(v, bit) == (v \div bit) % 2 = 1
EvenPage(p) == p - (p % 2)
HasT6A04 == {"ti82", "ti83", "ti73", "ti84p"}
Logical == {"ti82", "ti83", "ti85"}   \* old files have the RAM in the order of addresses
Flashed == {"ti73", "ti84p"}

\* What a port makes of a value (setup_mapping of x5, x6, x7 and x4)
PortPage(m, v) ==
  IF HasBit(v, Model[m].bit) THEN Model[m].rom + (v % Model[m].ram) ELSE v % Model[m].rom

\* Both pages of the TI-82 and TI-83 come from one port, the half of the ROM from
\* another (setup_mapping of x2 and x3, not paired).
OnePortPages(m, bank, v) ==
  LET HalfPage(ram, n) == IF ram THEN Model[m].rom + (n % 2) ELSE bank + (n % 8)
  IN <<HalfPage(HasBit(v, 64), v), HalfPage(HasBit(v, 128), v \div 8)>>

\* The map of a calculator with these ports
OldPageMap(m, ports) ==
  LET A == PortPage(m, ports.a)  B == PortPage(m, ports.b)
  IN IF m \in {"ti82", "ti83"}
     THEN <<0, OnePortPages(m, ports.bank, ports.a)[1],
            OnePortPages(m, ports.bank, ports.a)[2], Model[m].rom>>
     ELSE IF ports.paired
     THEN <<0, EvenPage(A), IF m = "ti73" THEN A ELSE EvenPage(A) + 1, B>>
     ELSE <<0, A, B, Model[m].rom>>

-----------------------------------------------------------------------------
(***************************************************************************)
(* A file, as an older version left it                                     *)
(***************************************************************************)
RegCount == 19
Bytes4(v, big) == IF big THEN <<0, 0, v \div 256, v % 256>> ELSE <<v % 256, v \div 256, 0, 0>>
Swap(ram) == <<ram[2], ram[1]>>

\* The bytes at the end
End(c) ==
  CASE c.model \in {"ti82", "ti83"} -> c.lcd
    [] c.model = "ti85" -> <<c.ports.b>>
    [] c.model \in Flashed -> c.lcd \o <<7, IF c.ports.paired THEN 1 ELSE 0>> \o c.rest
    [] OTHER -> <<>>

FileOf(c, big) ==
  [map |-> OldPageMap(c.model, c.ports), words |-> [i \in 1..RegCount |-> Bytes4(c.regs[i], big)],
   port |-> c.ports.a, ram |-> IF c.model \in Logical THEN Swap(c.ram) ELSE c.ram,
   end |-> End(c), short |-> FALSE]

OldInit ==
  /\ original \in Original
  /\ \E big \in BOOLEAN, n \in EndLength, short \in BOOLEAN :
       LET f == FileOf(original, big)
       IN oldfile = [f EXCEPT !.short = short,
                              !.end = SubSeq(@, 1, IF n < Len(@) THEN n ELSE Len(@))]
  /\ fresh = [reset |-> TRUE] /\ outcome = "none"

-----------------------------------------------------------------------------
(***************************************************************************)
(* Reading                                                                 *)
(***************************************************************************)
\* Which half of the four bytes is used more often?
Littler(words) ==
  LET little == {i \in DOMAIN words : words[i][1] # 0 \/ words[i][2] # 0}
      big == {i \in DOMAIN words : words[i][3] # 0 \/ words[i][4] # 0}
  IN Cardinality(little) > Cardinality(big)

ReadRegs(words) ==
  [i \in DOMAIN words |-> IF Littler(words) THEN words[i][1] + 256 * words[i][2]
                          ELSE words[i][4] + 256 * words[i][3]]

\* The value for the port of a page of the map
PagePort(m, p) ==
  CASE m = "ti85" -> IF p >= 8 THEN p + \h38 ELSE p
    [] m = "ti86" -> IF p >= 16 THEN p + \h30 ELSE p
    [] OTHER -> IF p >= Model[m].rom THEN (p % 32) + Model[m].bit ELSE p

\* The n-th byte of the end, or what a reset has set
Ending(n, default) == IF n <= Len(oldfile.end) THEN oldfile.end[n] ELSE default
ResetEnd == <<1, 0, 0, 7>>  \* lcd.mode, x, y and inc

PortsRead(m) ==
  LET map == oldfile.map
      paired == Ending(5, 0) # 0
  IN CASE m \in {"ti82", "ti83"} ->
            [a |-> oldfile.port, b |-> 0, paired |-> FALSE,
             bank |-> IF m = "ti83" THEN 8 * ((map[2] \div 8) % 2) ELSE 0]
       [] m = "ti85" -> [a |-> PagePort(m, map[2]), b |-> Ending(1, \h40),
                         paired |-> FALSE, bank |-> 0]
       [] m = "ti86" -> [a |-> PagePort(m, map[2]), b |-> PagePort(m, map[3]),
                         paired |-> FALSE, bank |-> 0]
       [] m \in Flashed ->
            [a |-> PagePort(m, map[IF paired THEN 3 ELSE 2]),
             b |-> PagePort(m, map[IF paired THEN 4 ELSE 3]), paired |-> paired, bank |-> 0]

load_old_sav_file ==
  LET m == original.model
      r == ReadRegs(oldfile.words)
      first == IF m \in HasT6A04 THEN [i \in 1..3 |-> Ending(i, ResetEnd[i])] ELSE <<0, 0, 0>>
  IN /\ outcome = "none"
     /\ IF oldfile.short THEN outcome' = "rejected" /\ fresh' = [reset |-> TRUE]
        ELSE /\ outcome' = "loaded"
             /\ fresh' = [reset |-> FALSE, map |-> OldPageMap(m, PortsRead(m)),
                          regs |-> [i \in 1..RegCount |->
                            CASE i \in {13, 14} -> IF r[i] # 0 THEN 1 ELSE 0
                              [] i = 19 -> (r[i] \div 128) * 128
                              [] OTHER -> r[i]],
                          lcd |-> first,
                          rest |-> [i \in 1..8 |-> Ending(i + 5, 0)],
                          ram |-> IF m \in Logical THEN Swap(oldfile.ram) ELSE oldfile.ram]
     /\ UNCHANGED <<original, oldfile>>

OldNext == load_old_sav_file

-----------------------------------------------------------------------------
OldTypeOK == outcome \in {"none", "loaded", "rejected"} /\ original \in Original

(***************************************************************************)
(* The calculator is the one that was saved: its registers, on whatever    *)
(* machine they were written (16 bits of four bytes, so that at most one   *)
(* half is used), its RAM in the order of pages, and its memory map, which *)
(* the file has as pages and the calculator gets through its ports. With   *)
(* a page of RAM in the first bank, a TI-83 forgets the half of its ROM;   *)
(* a file that is too short to tell the mode of the map has the simpler    *)
(* one.                                                                    *)
(***************************************************************************)
MapTold ==
  CASE original.model \in Flashed -> original.ports.paired => Len(oldfile.end) >= 5
    [] original.model = "ti83" -> oldfile.map[2] < 16 \/ original.ports.bank = 0
    [] original.model = "ti85" -> Len(oldfile.end) >= 1
    [] OTHER -> TRUE

OldRestored ==
  outcome = "loaded" =>
    /\ fresh.regs = original.regs /\ fresh.ram = original.ram
    /\ MapTold => fresh.map = OldPageMap(original.model, original.ports)
=============================================================================
