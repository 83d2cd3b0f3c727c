------------------------------ MODULE ColorLcd ------------------------------
(***************************************************************************)
(* The colour display's controller as a program sees it                    *)
(* (emu/xc/xc_lcd.c): a register is chosen through one port and read or    *)
(* written through another, a byte at a time. Register 22 stands for the   *)
(* memory, where two or three bytes make a pixel; each pixel written moves *)
(* the current position within a window.                                   *)
(***************************************************************************)
EXTENDS Integers, FiniteSets, TLC

CONSTANTS
  Width, Height,  \* columns and rows of the memory (320, 240)
  XcIndex,        \* registers that the program chooses
  XcByte,         \* bytes that it writes
  XcStart,        \* what the registers are at first: records of Window's fields
  MaxXcBytes      \* bound: bytes read and written

ASSUME ColorConstants ==
  /\ Width \in Nat \ {0} /\ Height \in Nat \ {0} /\ MaxXcBytes \in Nat
  /\ XcIndex \cup XcByte \subseteq 0..255

VARIABLES
  xc,       \* the registers and the state of the ports
  xcmem,    \* the memory: place -> <<first, second, third channel>>, six bits each
  active,   \* lcd.active
  painted,  \* history: where the program has put a pixel of 16 bits, and which
  swept,    \* history: places written since the position was last set
  again,    \* history: one of them was written twice before all of the window was
  word,     \* history: bytes of the word that the program is writing
  xcbytes   \* the number of bytes, bounded by MaxXcBytes

xcVars == <<xc, xcmem, active, painted, swept, again, word, xcbytes>>

Place == (0..Height - 1) \X (0..Width - 1)
Set(bits, mask) == (bits \div mask) % 2 = 1  \* is the bit of this mask set?

\* The bits of R01 and R03
FLIP_COLUMNS == \h100
BIT18 == \h8000  UNPACKED == \h4000  BGR == \h1000  ORG == \h80
COLINC == \h20  ROWINC == \h10  COLFIRST == 8

-----------------------------------------------------------------------------
(***************************************************************************)
(* The registers that the rest depends on, each with its significant bits. *)
(* The others only keep what is written to them.                           *)
(***************************************************************************)
get_reg_mask == (1 :> \h500) @@ (3 :> \hD0B8) @@ (7 :> \h313B) @@ (\h20 :> \hFF)
  @@ (\h21 :> \h1FF) @@ (\h50 :> \hFF) @@ (\h51 :> \hFF) @@ (\h52 :> \h1FF)
  @@ (\h53 :> \h1FF)

Registers == DOMAIN get_reg_mask

RECURSIVE Masked(_, _)
Masked(v, mask) ==
  IF mask = 0 THEN 0 ELSE 2 * Masked(v \div 2, mask \div 2) + (v % 2) * (mask % 2)

ColorInit ==
  /\ \E s \in XcStart :
       xc = [index |-> \h22, read_state |-> 0, write_state |-> 0, write_buffer |-> 0,
             buf1 |-> 0, buf2 |-> 0, x |-> s.x, y |-> s.y,
             reg |-> s.reg @@ (7 :> 0) @@ (\h20 :> 0) @@ (\h21 :> 0)]
  /\ xcmem = [p \in Place |-> <<0, 0, 0>>] /\ active = FALSE
  /\ painted = <<>> /\ swept = {} /\ again = FALSE /\ word = 0 /\ xcbytes = 0

\* A choice of register is two bytes, of which the first does not matter.
xc_lcd_control(val) ==
  /\ xc' = [xc EXCEPT !.index = val, !.read_state = 0, !.write_state = 0]
  /\ word' = 0
  /\ UNCHANGED <<xcmem, active, painted, swept, again, xcbytes>>

\* Where the window begins, in the directions of the mode
set_org(s, mode) ==
  IF ~Set(mode, ORG) THEN s
  ELSE [s EXCEPT !.x = s.reg[IF Set(mode, COLINC) THEN \h52 ELSE \h53],
                 !.y = s.reg[IF Set(mode, ROWINC) THEN \h50 ELSE \h51]]

set_loc(s) ==
  IF Set(s.reg[3], ORG) THEN set_org(s, s.reg[3])
  ELSE [s EXCEPT !.x = s.reg[\h21], !.y = s.reg[\h20]]

write_reg(s, index, value) ==
  LET stored == [s EXCEPT !.reg[index] = Masked(value, get_reg_mask[index])]
  IN CASE index \notin Registers -> s
       [] index \in {\h20, \h21} -> set_loc(stored)
       [] index \in \h50..\h53 -> set_org(stored, stored.reg[3])
       [] index = 3 /\ Set(value, ORG) -> set_loc(stored)
       [] OTHER -> stored

-----------------------------------------------------------------------------
(***************************************************************************)
(* Pixels                                                                  *)
(***************************************************************************)
\* The place in the memory, as stored from the top
Current(s) ==
  LET row == s.y % Height
  IN <<IF Set(s.reg[1], FLIP_COLUMNS) THEN Height - 1 - row ELSE row, s.x % Width>>

Swapped(p) == <<p[3], p[2], p[1]>>
InOrder(p, mode) == IF Set(mode, BGR) THEN p ELSE Swapped(p)

\* 16 bits have no room for the lowest bit of the first and the third channel.
Read16(p) == (p[1] \div 2) * 2^11 + p[2] * 2^5 + p[3] \div 2
get_pixel16(s) == Read16(InOrder(xcmem[Current(s)], s.reg[3]))

xc_lcd_read ==
  /\ xcbytes < MaxXcBytes /\ xcbytes' = xcbytes + 1
  /\ xc' = IF xc.index = \h22 /\ xc.read_state = 0
           THEN [xc EXCEPT !.buf1 = xc.buf2, !.buf2 = get_pixel16(xc), !.read_state = 1]
           ELSE [xc EXCEPT !.read_state = 1 - @]
  /\ UNCHANGED <<xcmem, active, painted, swept, again, word>>

\* The next in a direction, and whether the window begins anew there
Next1(at, forward, first, last) ==
  IF forward THEN IF at < last THEN [at |-> at + 1, wraps |-> FALSE]
                  ELSE [at |-> first, wraps |-> TRUE]
  ELSE IF at > first THEN [at |-> at - 1, wraps |-> FALSE]
       ELSE [at |-> last, wraps |-> TRUE]

update_col(s) == Next1(s.x, Set(s.reg[3], COLINC), s.reg[\h52], s.reg[\h53])
update_row(s) == Next1(s.y, Set(s.reg[3], ROWINC), s.reg[\h50], s.reg[\h51])

MovedOn(s) ==
  LET col == update_col(s)  row == update_row(s)
  IN IF Set(s.reg[3], COLFIRST)
     THEN [s EXCEPT !.x = col.at, !.y = IF col.wraps THEN row.at ELSE @]
     ELSE [s EXCEPT !.y = row.at, !.x = IF row.wraps THEN col.at ELSE @]

\* Is the current position within a window that lies in the memory?
Positioned(s) ==
  /\ s.reg[\h50] <= s.y /\ s.y <= s.reg[\h51] /\ s.reg[\h51] < Height
  /\ s.reg[\h52] <= s.x /\ s.x <= s.reg[\h53] /\ s.reg[\h53] < Width

put_pixel(s, p) ==
  /\ xcmem' = [xcmem EXCEPT ![Current(s)] = InOrder(p, s.reg[3])]
  /\ xc' = MovedOn(s)
  /\ LET all == (s.reg[\h51] + 1 - s.reg[\h50]) * (s.reg[\h53] + 1 - s.reg[\h52])
         seen == swept \cup {Current(s)}
     IN /\ swept' = IF Positioned(s) /\ Cardinality(seen) < all THEN seen ELSE {}
        /\ again' = (again \/ (Positioned(s) /\ Current(s) \in swept))

\* The first and the third channel get their highest bit as their lowest one.
Widened(v) ==
  LET r == (v \div 2^11) % 32  b == v % 32
  IN <<2 * r + r \div 16, (v \div 2^5) % 64, 2 * b + b \div 16>>

put_pixel16(s, v) ==
  /\ put_pixel(s, Widened(v))
  /\ painted' = (Current(s) :> [v |-> v % 2^16, bgr |-> Set(s.reg[3], BGR)]) @@ painted

\* 18 bits in the top six of each of three bytes, or packed
Channels18(v, mode) ==
  IF Set(mode, UNPACKED) THEN <<v \div 2^18, (v \div 2^10) % 64, (v \div 4) % 64>>
  ELSE <<(v \div 2^12) % 64, (v \div 2^6) % 64, v % 64>>

xc_lcd_write(val) ==
  LET state == xc.write_state
      mode == xc.reg[3]
      value == xc.write_buffer * 256 + val
      unit == IF xc.index = \h22 /\ Set(mode, BIT18) THEN 3 ELSE 2
      s == [xc EXCEPT !.read_state = 0, !.write_buffer = value % 2^16,
                      !.write_state = IF unit = 3 THEN (IF state >= 2 THEN 0 ELSE state + 1)
                                      ELSE IF state = 0 THEN 1 ELSE 0]
  IN /\ xcbytes < MaxXcBytes /\ xcbytes' = xcbytes + 1
     /\ word' = (word + 1) % unit
     /\ IF s.write_state # 0
        THEN xc' = s /\ UNCHANGED <<xcmem, active, painted, swept, again>>
        ELSE IF xc.index # \h22
        THEN /\ xc' = write_reg(s, xc.index, value % 2^16)
             /\ active' = IF xc.index = 7 THEN value % 4 = 3 ELSE active
             /\ swept' = {} /\ UNCHANGED <<xcmem, painted, again>>
        ELSE /\ UNCHANGED active
             /\ IF unit = 2 THEN put_pixel16(s, value)
                ELSE /\ put_pixel(s, Channels18(value, mode))
                     /\ painted' = [p \in DOMAIN painted \ {Current(s)} |-> painted[p]]

ColorNext ==
  \/ \E v \in XcIndex : xc_lcd_control(v)
  \/ xc_lcd_read \/ \E v \in XcByte : xc_lcd_write(v)

ColorSpec == ColorInit /\ [][ColorNext]_xcVars

-----------------------------------------------------------------------------
ColorTypeOK ==
  /\ xcmem \in [Place -> (0..63) \X (0..63) \X (0..63)]
  /\ xc.index \in 0..255 /\ xc.read_state \in 0..1 /\ xc.write_state \in 0..2
  /\ xc.x \in 0..511 /\ xc.y \in 0..255 /\ DOMAIN xc.reg = Registers

(***************************************************************************)
(* The window is filled before any of its places is written again,         *)
(* whatever the directions, from wherever in it the program begins         *)
(* (update_col, update_row and the order in which put_pixel takes them).   *)
(***************************************************************************)
WindowSwept == ~again

\* A pixel of 16 bits can be read back where it was written, in the same order of
\* channels, however the rows are flipped meanwhile (put_pixel16, get_pixel16).
PixelKept ==
  LET p == Current(xc)
  IN p \in DOMAIN painted /\ painted[p].bgr = Set(xc.reg[3], BGR)
       => get_pixel16(xc) = painted[p].v

\* A choice of register begins a new word, so that bytes of two words are never
\* joined (xc_lcd_control).
WordsWhole == xc.write_state = word

ColorSound == WindowSwept /\ PixelKept /\ WordsWhole
=============================================================================
