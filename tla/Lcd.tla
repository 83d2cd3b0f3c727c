-------------------------------- MODULE Lcd --------------------------------
(***************************************************************************)
(* The monochrome display (emu/lcd.c): the T6A04 controller, which a       *)
(* program gives columns of eight or of six bits, and the picture that the *)
(* host takes of it. A column of six bits may lie in two bytes; the        *)
(* controller moves on to the next one by itself, and is busy for a while  *)
(* after each access, which a program has to wait for.                     *)
(***************************************************************************)
EXTENDS Integers, Functions

CONSTANTS
  RowBytes,      \* bytes of a row of the controller's memory (15 or 16)
  LcdRows,        \* its rows (64)
  LcdCommand,  \* bytes that the program writes to the command port
  LcdValue,    \* bytes that the program writes
  MaxAccess    \* bound: reads and writes of the memory

ASSUME LcdConstants ==
  RowBytes \in Nat \ {0} /\ LcdRows \in 1..64 /\ MaxAccess \in Nat
    /\ LcdCommand \cup LcdValue \subseteq 0..255

VARIABLES
  lcd,        \* the registers of the controller
  lcdmem,     \* its memory, as bytes
  lcdtimer,   \* the timer that ends busy: off, set, or late (it has expired, but
              \* its callback has not run)
  drawn,      \* history: the dots, as the program has meant them to be
  meant,      \* history: what is in nextbyte, the bits of a column or <<>>
  accesses    \* the number of accesses, bounded by MaxAccess

lcdVars == <<lcd, lcdmem, lcdtimer, drawn, meant, accesses>>

Dots == 8 * RowBytes
Bytes == 0 .. LcdRows * RowBytes - 1

\* Bit n of a byte, and the byte with the lowest n bits of v in place of its
\* bits at..at + n - 1
Dot(byte, n) == (byte \div 2^n) % 2
Spliced(byte, at, n, v) == byte + ((v % 2^n) - ((byte \div 2^at) % 2^n)) * 2^at

\* BUSY: a timer that has expired is as good as one whose callback has run.
Busy == lcd.busy /\ lcdtimer = "set"

\* SET_BUSY, where the delay is emulated
AfterAccess(s) == IF s.emuflags THEN [s EXCEPT !.busy = TRUE] ELSE s
TimerAfterAccess == IF lcd.emuflags THEN "set" ELSE lcdtimer

-----------------------------------------------------------------------------
(***************************************************************************)
(* The controller                                                          *)
(***************************************************************************)
ResetLcd(delay) ==
  [emuflags |-> delay, active |-> FALSE, contrast |-> 32, mode |-> 1, inc |-> 7,
   x |-> 0, y |-> 0, rowshift |-> 0, nextbyte |-> 0, busy |-> FALSE]

LcdInit ==
  /\ lcd \in {ResetLcd(delay) : delay \in BOOLEAN}
  /\ lcdmem = [b \in Bytes |-> 0] /\ lcdtimer = "off"
  /\ drawn = [y \in 0..LcdRows - 1 |-> [c \in 0..Dots - 1 |-> 0]]
  /\ meant = <<>> /\ accesses = 0

\* A reset leaves the memory and the timer.
lcd_reset ==
  /\ lcd' = ResetLcd(lcd.emuflags)
  /\ meant' = <<>> /\ UNCHANGED <<lcdmem, lcdtimer, drawn, accesses>>

lcd_delay_timer ==
  /\ lcdtimer # "off" /\ lcdtimer' = "off" /\ lcd' = [lcd EXCEPT !.busy = FALSE]
  /\ UNCHANGED <<lcdmem, drawn, meant, accesses>>

LcdTimeGoes ==
  lcdtimer = "set" /\ lcdtimer' = "late" /\ UNCHANGED <<lcd, lcdmem, drawn, meant, accesses>>

\* What each command sets, a range of values at a time
Controlled(s, v) ==
  CASE v <= 1 -> [s EXCEPT !.mode = v]
    [] v = 2 -> [s EXCEPT !.active = FALSE]
    [] v = 3 -> [s EXCEPT !.active = TRUE]
    [] v \in 4..7 -> [s EXCEPT !.inc = v]
    [] v \in \h20..\h3F -> [s EXCEPT !.x = v - \h20]
    [] v \in \h80..\hBF -> [s EXCEPT !.y = v - \h80]
    [] v \in \h40..\h7F -> [s EXCEPT !.rowshift = v - \h40]
    [] v >= \hC0 -> [s EXCEPT !.contrast = v - \hC0]
    [] OTHER -> s

t6a04_control(v) ==
  /\ IF Busy THEN UNCHANGED <<lcd, lcdtimer>>
     ELSE lcd' = AfterAccess(Controlled(lcd, v)) /\ lcdtimer' = TimerAfterAccess
  /\ UNCHANGED <<lcdmem, drawn, meant, accesses>>

\* The place of an access: an index that has left the memory comes back at the
\* other end.
Limit(mode) == IF mode = 1 THEN RowBytes ELSE (RowBytes * 8 + 5) \div 6
Placed(s) ==
  LET limit == Limit(s.mode)
  IN [s EXCEPT !.x = IF @ >= limit THEN 0 ELSE IF @ < 0 THEN limit - 1 ELSE @,
               !.y = IF @ >= LcdRows THEN 0 ELSE IF @ < 0 THEN LcdRows - 1 ELSE @]

Moved(s) ==
  CASE s.inc = 4 -> [s EXCEPT !.y = @ - 1] [] s.inc = 5 -> [s EXCEPT !.y = @ + 1]
    [] s.inc = 6 -> [s EXCEPT !.x = @ - 1] [] s.inc = 7 -> [s EXCEPT !.x = @ + 1]

\* The bits of a column, from the left: those within the row
Column(s) ==
  LET n == IF s.mode = 1 THEN 8 ELSE 6
  IN [i \in {j \in 0..n - 1 : n * s.x + j < Dots} |-> n * s.x + i]

\* Six bits from two bytes; the last column goes on in what is behind the row
\* and, in the last row, behind the memory: any byte.
FetchSix(s, beyond) ==
  LET col == 6 * s.x
      ofs == s.y * RowBytes + (col \div 8)
      next == IF ofs + 1 \in Bytes THEN lcdmem[ofs + 1] ELSE beyond
  IN ((256 * lcdmem[ofs] + next) \div 2^(10 - (col % 8))) % 256

t6a04_read ==
  /\ accesses < MaxAccess /\ accesses' = accesses + 1
  /\ IF Busy THEN UNCHANGED <<lcd, lcdtimer, meant>>
     ELSE LET s == Placed(lcd)
          IN /\ \E beyond \in {0, 255} :
                  lcd' = AfterAccess(Moved([s EXCEPT !.nextbyte =
                           IF s.mode = 1 THEN lcdmem[s.x + RowBytes * s.y]
                           ELSE FetchSix(s, beyond)]))
             /\ meant' = [i \in DOMAIN Column(s) |-> drawn[s.y][Column(s)[i]]]
             /\ lcdtimer' = TimerAfterAccess
  /\ UNCHANGED <<lcdmem, drawn>>

\* Mutant: the second byte of a column would be written at the end of a row too.
Mut_StoreSix(m, s, v) ==
  LET col == 6 * s.x
      ofs == s.y * RowBytes + (col \div 8)
      shift == col % 8
      first == Spliced(m[ofs], 0, 8 - shift, (v % 64) \div 2^(shift - 2))
      rest == (ofs + 1) % (LcdRows * RowBytes)
  IN IF shift <= 2 THEN [m EXCEPT ![ofs] = Spliced(@, 2 - shift, 6, v)]
     ELSE [m EXCEPT ![ofs] = first, ![rest] = Spliced(@, 10 - shift, shift - 2, v)]

\* Six bits into one byte, or into the end of one and the start of the next
StoreSix(m, s, v) ==
  LET col == 6 * s.x
      ofs == s.y * RowBytes + (col \div 8)
      shift == col % 8
      first == Spliced(m[ofs], 0, 8 - shift, (v % 64) \div 2^(shift - 2))
  IN IF shift <= 2 THEN [m EXCEPT ![ofs] = Spliced(@, 2 - shift, 6, v)]
     ELSE IF col \div 8 >= RowBytes - 1 THEN [m EXCEPT ![ofs] = first]
     ELSE [m EXCEPT ![ofs] = first, ![ofs + 1] = Spliced(@, 10 - shift, shift - 2, v)]

t6a04_write(v) ==
  /\ accesses < MaxAccess /\ accesses' = accesses + 1
  /\ IF Busy THEN UNCHANGED <<lcd, lcdmem, lcdtimer, drawn>>
     ELSE LET s == Placed(lcd)
              cols == Column(s)
              n == IF s.mode = 1 THEN 8 ELSE 6
          IN /\ lcd' = AfterAccess(Moved(s)) /\ lcdtimer' = TimerAfterAccess
             /\ lcdmem' = IF s.mode = 1 THEN [lcdmem EXCEPT ![s.x + RowBytes * s.y] = v]
                          ELSE StoreSix(lcdmem, s, v)
             /\ drawn' = [drawn EXCEPT ![s.y] = [c \in 0..Dots - 1 |->
                  IF c \in Range(cols) THEN Dot(v, n - 1 - (c - n * s.x)) ELSE @[c]]]
  /\ UNCHANGED meant

\* The bytes of the picture, the rows turned by rowshift
t6a04_get_data(i, k) == lcdmem[((i + lcd.rowshift) % LcdRows) * RowBytes + k]

LcdNext ==
  \/ lcd_reset \/ lcd_delay_timer \/ LcdTimeGoes
  \/ \E v \in LcdCommand : t6a04_control(v)
  \/ t6a04_read \/ \E v \in LcdValue : t6a04_write(v)

LcdSpec == LcdInit /\ [][LcdNext]_lcdVars

-----------------------------------------------------------------------------
LcdTypeOK ==
  /\ DOMAIN lcd = DOMAIN ResetLcd(TRUE) /\ lcd.nextbyte \in 0..255
  /\ lcd.x \in -1..\h3F /\ lcd.y \in -1..LcdRows /\ lcdmem \in [Bytes -> 0..255]
  /\ lcdtimer \in {"off", "set", "late"} /\ accesses \in 0..MaxAccess

\* Every dot of the picture is what the program drew last there, in columns of
\* six bits or of eight, wherever they lie in the bytes (t6a04_write).
PictureDrawn ==
  \A i \in 0..LcdRows - 1, k \in 0..RowBytes - 1, n \in 0..7 :
    Dot(t6a04_get_data(i, k), 7 - n) = drawn[(i + lcd.rowshift) % LcdRows][8 * k + n]

\* The byte that the next read returns holds the bits of the column that was
\* looked at, those within the row (t6a04_read).
NextByteRight ==
  LET n == IF 7 \in DOMAIN meant THEN 8 ELSE 6
  IN \A i \in DOMAIN meant : Dot(lcd.nextbyte, n - 1 - i) = meant[i]

\* A controller that is busy has a timer that ends it (set_delay_timer and
\* tilem_lcd_reset).
BusyEnds == lcd.busy => lcdtimer # "off"

LcdSound == PictureDrawn /\ NextByteRight /\ BusyEnds
=============================================================================
