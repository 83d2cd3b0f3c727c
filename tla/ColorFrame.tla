----------------------------- MODULE ColorFrame -----------------------------
(***************************************************************************)
(* The picture that the host takes of the colour display (xc_get_frame of  *)
(* emu/xc/xc_lcd.c): a row of the memory put together on the screen from   *)
(* the base image, or from two partial images, with parts of the screen    *)
(* that show no image. One channel of one row stands for all of them.      *)
(***************************************************************************)
EXTENDS Integers

CONSTANTS
  Columns,    \* columns of the screen and of the memory (320)
  Setup       \* what the program sets the registers to: records of Init's fields

\* R60 counts columns by eights
ASSUME FrameConstants == Columns \in Nat \ {0} /\ Columns % 8 = 0

VARIABLES
  setup,     \* the registers that the picture depends on
  image,     \* the row of the memory: column -> level, 0..63
  frame,     \* the row of the buffer
  floating,  \* is there a part of the screen that no image is driven to? Then the
             \* stamp of the picture differs from all others
  taken     \* the number of pictures taken, at most two

frameVars == <<setup, image, frame, floating, taken>>

FrameColumn == 0..Columns - 1

\* Levels of the memory with all bits different from column to column
FrameInit ==
  /\ setup \in Setup /\ image = [c \in FrameColumn |-> (7 * c + 3) % 64]
  /\ frame = [c \in FrameColumn |-> 0] /\ floating = FALSE /\ taken = 0

-----------------------------------------------------------------------------
(***************************************************************************)
(* Parts of a row. A part is the columns at..at + n - 1 of the row r.      *)
(***************************************************************************)
Part(at, n) == {c \in FrameColumn : at <= c /\ c < at + n}

fill_floating(r, at, n) ==
  [c \in FrameColumn |-> IF c \in Part(at, n) /\ r[c] < 63 THEN r[c] + 1 ELSE r[c]]

fill_nondisplay(r, at, n, black) ==
  [c \in FrameColumn |-> IF c \in Part(at, n) THEN (IF black THEN 0 ELSE 63) ELSE r[c]]

Shade(v, s) ==
  LET shown == IF s.invert THEN 63 - v ELSE v
  IN IF s.msb THEN (shown \div 32) * 63 ELSE shown

\* Levels that are not inverted are copied as they are, flipped or not.
fill_image(r, at, from, n, s) ==
  [c \in FrameColumn |->
     IF c \notin Part(at, n) THEN r[c]
     ELSE Shade(image[IF s.flip /\ s.invert THEN from + n - 1 - (c - at)
                      ELSE from + (c - at)], s)]

\* An image that goes on at the other end of the memory is put there in two pieces.
fill_scrolled_image(r, at, offset, n, s) ==
  LET from == IF offset > Columns THEN offset % Columns ELSE offset
      n1 == Columns - from
      n2 == n - n1
  IN IF n2 <= 0 THEN fill_image(r, at, from, n, s)
     ELSE IF s.flip
     THEN fill_image(fill_image(r, at + n2, from, n1, s), at, 0, n2, s)
     ELSE fill_image(fill_image(r, at, from, n1, s), at + n1, 0, n2, s)

\* The two halves of an interlaced row take turns.
Interlaced(r) == [c \in FrameColumn |-> r[(c \div 2) + (c % 2) * (Columns \div 2)]]

fill_row(r, before, after, i1, i2, s) ==
  LET n == Columns - before - after
      Float(q, at, m) == IF s.interlaced THEN fill_nondisplay(q, at, m, FALSE)
                         ELSE fill_floating(q, at, m)
      Drawn(q, i) == IF i.size = 0 THEN q
                     ELSE fill_scrolled_image(q, before + i.pos, i.start, i.size, s)
      framed == Float(r, 0, before)
      blank == IF i1.size # n /\ i2.size # n
               THEN fill_nondisplay(framed, before, n, s.ndl_black) ELSE framed
      out == Float(Drawn(Drawn(blank, i1), i2), before + n, after)
  IN IF s.interlaced THEN Interlaced(out) ELSE out

-----------------------------------------------------------------------------
(***************************************************************************)
(* The picture                                                             *)
(***************************************************************************)
Least(a, b) == IF a < b THEN a ELSE b
NoImage == [pos |-> 0, start |-> 0, size |-> 0]
Folded(v) == IF v > Columns THEN v - Columns ELSE v

\* A partial image, cut off where the displayed columns end
Partial(p, count) ==
  LET pos == Least(Folded(p.pos), count)
      size == Folded(p.end) + 1 - Folded(p.start)
  IN [pos |-> pos, start |-> Folded(p.start),
      size |-> Least(IF size < 0 THEN size + Columns ELSE size, count - pos)]

\* The columns of the base image that the screen displays
FirstShown(s) == Least(8 * s.scn, Columns)
CountShown(s) == Least(8 * s.nl + 8, Columns - FirstShown(s))

\* The offset of the base image is multiplied twice by the three bytes of a pixel.
Images(s) ==
  IF s.base
  THEN <<[pos |-> 0, start |-> 3 * s.scroll, size |-> CountShown(s)],
         NoImage>>
  ELSE <<IF s.show1 THEN Partial(s.partial1, CountShown(s)) ELSE NoImage,
         IF s.show0 THEN Partial(s.partial0, CountShown(s)) ELSE NoImage>>

Flipped(i, s) == IF s.flip THEN [i EXCEPT !.pos = Columns - (i.pos + i.size)] ELSE i

xc_get_frame ==
  LET s == setup
      start == FirstShown(s)
      rest == Columns - start - CountShown(s)
      images == Images(s)
  IN /\ taken < 2 /\ taken' = taken + 1
     /\ IF ~s.on THEN frame' = [c \in FrameColumn |-> 0] /\ floating' = FALSE
        ELSE /\ frame' = fill_row(frame, IF s.flip THEN rest ELSE start,
                                  IF s.flip THEN start ELSE rest,
                                  Flipped(images[1], s), Flipped(images[2], s), s)
             /\ floating' = (start + rest > 0)
     /\ UNCHANGED <<setup, image>>

FrameNext == xc_get_frame

FrameSpec == FrameInit /\ [][FrameNext]_frameVars

-----------------------------------------------------------------------------
FrameTypeOK == frame \in [FrameColumn -> 0..63] /\ taken \in 0..2 /\ floating \in BOOLEAN

(***************************************************************************)
(* What a column of the screen shows, by what the registers mean: the      *)
(* columns from left to right, in turn if they are interlaced, or from     *)
(* right to left if they are flipped; the image 0 before the image 1; an   *)
(* image that goes around the end of the memory.                           *)
(***************************************************************************)
InImage(j, p) ==
  LET last == IF p.start <= p.end THEN p.end ELSE p.end + Columns
  IN j - p.pos \in 0..last - p.start
Source(j, p) == Shade(image[(p.start + j - p.pos) % Columns], setup)

Expected(c, before) ==
  LET s == setup
      scan == IF ~s.interlaced THEN c ELSE (c \div 2) + (c % 2) * (Columns \div 2)
      j == (IF s.flip THEN Columns - 1 - scan ELSE scan) - FirstShown(s)
  IN IF j \notin 0..CountShown(s) - 1 THEN IF s.interlaced THEN 63 ELSE before
     ELSE IF s.base THEN Shade(image[(s.scroll + j) % Columns], s)
     ELSE IF s.show0 /\ InImage(j, s.partial0) THEN Source(j, s.partial0)
     ELSE IF s.show1 /\ InImage(j, s.partial1) THEN Source(j, s.partial1)
     ELSE IF s.ndl_black THEN 0 ELSE 63

\* R6A is the number of columns to scroll the base image by (xc_lcd.c:138-141), but
\* xc_get_frame scrolls it three times as far: is that the same place?
ScrolledAsMeant(s) == s.base => (3 * s.scroll) % Columns = s.scroll % Columns

(***************************************************************************)
(* The picture is the one that the registers describe, except where the    *)
(* base image is scrolled to another place (ScrolledAsMeant), and where a  *)
(* row is flipped with its levels as they are, or without being displayed  *)
(* whole, which fill_image and the positions do not expect. Columns        *)
(* without an image drift from what they showed to white.                  *)
(***************************************************************************)
FrameRight ==
  LET s == setup
  IN taken > 0 /\ s.on /\ ScrolledAsMeant(s)
       /\ (s.flip => s.invert /\ CountShown(s) = Columns) =>
       \A c \in FrameColumn : frame[c] = Expected(c, taken)
=============================================================================
