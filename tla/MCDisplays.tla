----------------------------- MODULE MCDisplays -----------------------------
(***************************************************************************)
(* Small instances of the displays and of the pictures that the host makes *)
(* of them. A behaviour is one of one of them.                             *)
(***************************************************************************)
EXTENDS Lcd, ColorLcd, ColorFrame, LcdImage, GrayLcd, TLC

\* What a program may have set up: rows flipped or not, pixels of 16 or of 18 bits,
\* each direction first, and windows of two by one or two columns
Windows ==
  {[x |-> x, y |-> 0,
    reg |-> (1 :> flip) @@ (3 :> mode) @@ (\h50 :> 0) @@ (\h51 :> 1) @@ (\h52 :> 1)
              @@ (\h53 :> last)] :
   x \in 1..2, flip \in {0, FLIP_COLUMNS}, last \in 1..2,
   mode \in {\h1038, \h90, \h28, \h8010, \hC008}}

\* Images that are whole, that go around the end of the memory, and that are cut off
Images01 == {[pos |-> 0, start |-> 0, end |-> 15], [pos |-> 3, start |-> 14, end |-> 2],
             [pos |-> 5, start |-> 4, end |-> 13]}

\* What is displayed: all columns, some of them at either end or in the middle, none
Displayed == {<<0, 1>>, <<0, 0>>, <<1, 0>>, <<1, 5>>, <<2, 0>>}

\* The base image, scrolled or not, or both of the partial ones; by half the screen,
\* which is the same place as three halves, the image goes around the end of the memory
Bases == {[base |-> b # -1, scroll |-> IF b = -1 THEN 0 ELSE b] : b \in {-1, 0, 3, 8, 13}}

Setups ==
  {[on |-> TRUE, base |-> b.base, scroll |-> b.scroll, show0 |-> TRUE, show1 |-> TRUE,
    partial0 |-> p, partial1 |-> q, scn |-> d[1], nl |-> d[2], flip |-> f,
    interlaced |-> i, invert |-> v, msb |-> m, ndl_black |-> f] :
   b \in Bases, p, q \in Images01, d \in Displayed, f, i, v, m \in BOOLEAN}
  \cup {[on |-> FALSE]}

Pattern(w, h, top) ==
  [y \in 0..h - 1 |-> [x \in 0..w - 1 |-> (37 * x + 53 * y + 29 * x * y) % (top + 1)]]

Buffers ==
  {[format |-> f, width |-> w, height |-> h, contrast |-> c,
    data |-> Pattern(w, h, IF f = "gray" THEN 128 ELSE 63)] :
   f \in {"gray", "rgb"}, w \in {1, 2, 3, 5}, h \in {2, 3}, c \in {0, 20, 32, 63}}

VARIABLE display  \* the one at work

displayVars == <<lcdVars, xcVars, frameVars, imageVars, grayVars, display>>

OtherDisplays ==
  /\ display # "lcd" => UNCHANGED lcdVars
  /\ display # "color" => UNCHANGED xcVars
  /\ display # "frame" => UNCHANGED frameVars
  /\ display # "image" => UNCHANGED imageVars
  /\ display # "gray" => UNCHANGED grayVars

\* Those that are not at work have no state
AnyInit ==
  /\ IF display = "lcd" THEN LcdInit
     ELSE /\ lcd = <<>> /\ lcdmem = <<>> /\ lcdtimer = <<>> /\ drawn = <<>>
          /\ meant = <<>> /\ accesses = <<>>
  /\ IF display = "color" THEN ColorInit
     ELSE /\ xc = <<>> /\ xcmem = <<>> /\ active = <<>> /\ painted = <<>>
          /\ swept = <<>> /\ again = <<>> /\ word = <<>> /\ xcbytes = <<>>
  /\ IF display = "frame" THEN FrameInit
     ELSE /\ setup = <<>> /\ image = <<>> /\ frame = <<>> /\ floating = <<>>
          /\ taken = <<>>
  /\ IF display = "image" THEN ImageInit
     ELSE /\ buf = <<>> /\ pixels = <<>> /\ how = <<>>
  /\ IF display = "gray" THEN GrayInit
     ELSE /\ dot = <<>> /\ lit = <<>> /\ lastlcdwrite = <<>> /\ glcd = <<>>
          /\ lcd_buffer = <<>> /\ lcd_update_pending = <<>> /\ window = <<>>
          /\ waited = <<>> /\ frames = <<>> /\ changes = <<>> /\ missed = <<>>
          /\ switched = <<>> /\ switches = <<>>

DisplayInit == display \in {"lcd", "color", "frame", "image", "gray"} /\ AnyInit
DisplayIdle == display = "none" /\ AnyInit

DisplayNext ==
  /\ UNCHANGED display /\ OtherDisplays
  /\ \/ display = "lcd" /\ LcdNext
     \/ display = "color" /\ ColorNext
     \/ display = "frame" /\ FrameNext
     \/ display = "image" /\ ImageNext
     \/ display = "gray" /\ GrayNext

\* The variables of the display at work have their types
DisplayTypeOK ==
  CASE display = "lcd" -> LcdTypeOK [] display = "color" -> ColorTypeOK
    [] display = "frame" -> FrameTypeOK [] display = "image" -> ImageTypeOK
    [] display = "gray" -> GrayTypeOK

(***************************************************************************)
(* What the user sees is what the program has drawn: in the memory of      *)
(* either controller, in the frame that the host takes of it, in the image *)
(* of the size of the window, and in the window itself.                    *)
(***************************************************************************)
DisplaysSound ==
  CASE display = "lcd" -> LcdSound [] display = "color" -> ColorSound
    [] display = "frame" -> FrameRight [] display = "image" -> ImageSound
    [] display = "gray" -> GraySound
    [] OTHER -> TRUE
=============================================================================
