------------------------------ MODULE LcdImage ------------------------------
(***************************************************************************)
(* A picture of the display drawn in the size of a window or of a          *)
(* screenshot (emu/grayimage.c): each dot takes the level of the nearest   *)
(* one, or the mean of those that it lies upon, and then a colour that     *)
(* depends on the contrast. One channel stands for the three of a colour.  *)
(***************************************************************************)
EXTENDS Integers, Sequences, FiniteSetsExt

CONSTANTS
  Buffer,    \* pictures: records of their format, width, height, contrast and data
  Extent     \* the widths and heights that they are drawn in

ASSUME ImageConstants == Extent \subseteq Nat \ {0}

VARIABLES
  buf,       \* the picture
  pixels,     \* what has been drawn: place -> colour
  how        \* in which way, or "none"

imageVars == <<buf, pixels, how>>

ImageInit == buf \in Buffer /\ pixels = <<>> /\ how = [scale |-> "none"]

-----------------------------------------------------------------------------
(***************************************************************************)
(* Scales. Both go through the inputs and the outputs side by side.        *)
(***************************************************************************)
\* scale1d_fast: the input of each output. e is how far the input k reaches past
\* the middle of the output t.
Nearest(incount, outcount, t) ==
  LET e(k) == (k + 1) * outcount - incount \div 2 - t * incount
  IN Min({k \in 0..t * incount + incount : e(k) >= 0})

\* The loop of scale2d_smooth and add_scale1d_smooth: how much of each input comes to
\* each output, where an input is outcount and an output incount units long
RECURSIVE Shares(_, _, _, _, _, _)
Shares(incount, outcount, in_rem, out_rem, k, t) ==
  IF t = outcount THEN {}
  ELSE IF in_rem < out_rem
  THEN {<<k, t, in_rem>>}
         \cup Shares(incount, outcount, outcount, out_rem - in_rem, k + 1, t)
  ELSE {<<k, t, out_rem>>}
         \cup Shares(incount, outcount, in_rem - out_rem, incount, k, t + 1)

\* add_scale1d_exact: each input comes to the same number of outputs.
Exact(incount, outcount) ==
  {<<k, k * (outcount \div incount) + j, incount>> :
     k \in 0..incount - 1, j \in 0..(outcount \div incount) - 1}

RowShares(b, h) == Shares(b.height, h, h, b.height, 0, 0)
ColumnShares(b, w) ==
  IF w % b.width = 0 THEN Exact(b.width, w) ELSE Shares(b.width, w, w, b.width, 0, 0)

\* scale2d_smooth: a sum over the inputs of the rows and of the columns
Smooth(b, w, h, x, y) ==
  MapThenSumSet(LAMBDA r :
      MapThenSumSet(LAMBDA c : r[3] * c[3] * b.data[r[1]][c[1]],
                    {c \in ColumnShares(b, w) : c[2] = x}),
    {r \in RowShares(b, h) : r[2] = y})

-----------------------------------------------------------------------------
(***************************************************************************)
(* Colours                                                                 *)
(***************************************************************************)
\* The index into the palette, 0..255, of a level of 0..128
PaletteIndex(contrast, v) ==
  LET cbase == IF contrast < 32 THEN 0 ELSE (contrast - 32) * 8
      cfact == IF contrast < 32 THEN contrast * 8 ELSE 255 - cbase
  IN (v * cfact) \div 128 + cbase

\* The level of a colour, 0..63, at the brightness of the backlight
Brightened(contrast, v) ==
  LET factor == contrast * 32
  IN (v * (IF factor >= 63335 \div 63 THEN 65535 \div 63 ELSE factor)) \div 256

Coloured(b, v) ==
  IF b.format = "gray" THEN PaletteIndex(b.contrast, v) ELSE Brightened(b.contrast, v)

Drawing(b, w, h, scaletype) ==
  LET fast == scaletype = "fast" \/ (w % b.width = 0 /\ h % b.height = 0)
      Near(x, y) == b.data[Nearest(b.height, h, y)][Nearest(b.width, w, x)]
      Mean(x, y) == Smooth(b, w, h, x, y) \div (b.width * b.height)
  IN [y \in 0..h - 1 |-> [x \in 0..w - 1 |->
        IF b.contrast = 0 THEN 0
        ELSE Coloured(b, IF fast THEN Near(x, y) ELSE Mean(x, y))]]

\* A picture of a colour display has no indices.
tilem_draw_lcd_image_indexed(w, h, scaletype) ==
  /\ how.scale = "none" /\ buf.format = "gray"
  /\ pixels' = Drawing(buf, w, h, scaletype)
  /\ how' = [scale |-> scaletype, w |-> w, h |-> h] /\ UNCHANGED buf

tilem_draw_lcd_image_rgb(w, h, scaletype) ==
  /\ how.scale = "none"
  /\ pixels' = Drawing(buf, w, h, scaletype)
  /\ how' = [scale |-> scaletype, w |-> w, h |-> h] /\ UNCHANGED buf

ImageNext ==
  \E w, h \in Extent, s \in {"fast", "smooth"} :
    tilem_draw_lcd_image_indexed(w, h, s) \/ tilem_draw_lcd_image_rgb(w, h, s)

ImageSpec == ImageInit /\ [][ImageNext]_imageVars

-----------------------------------------------------------------------------
ImageTypeOK == how.scale \in {"none", "fast", "smooth"} /\ buf \in Buffer

(***************************************************************************)
(* A dot drawn fast has the level of the input that its middle lies in;    *)
(* one drawn smoothly the mean of the picture over it, weighted by areas,  *)
(* rounded down: no input is left out and none past the end is read        *)
(* (scale1d_fast, scale2d_smooth).                                         *)
(***************************************************************************)
Overlap(k, outcount, t, incount) ==
  LET first == Max({k * outcount, t * incount})
      last == Min({(k + 1) * outcount, (t + 1) * incount})
  IN Max({0, last - first})

Area(x, y) ==
  MapThenSumSet(LAMBDA p : buf.data[p[1]][p[2]] * Overlap(p[1], how.h, y, buf.height)
                                                * Overlap(p[2], how.w, x, buf.width),
                (0..buf.height - 1) \X (0..buf.width - 1))

\* The inputs that reach to the middle of the output t, of which one or, where the
\* middle is between two, the one before it is meant
Middle(incount, outcount, t) ==
  {k \in 0..incount - 1 :
     /\ k * outcount < Max({1, t * incount + incount \div 2})
     /\ t * incount + incount \div 2 <= (k + 1) * outcount}

DrawnRight ==
  how.scale # "none" /\ buf.contrast > 0 =>
    \A y \in 0..how.h - 1, x \in 0..how.w - 1 :
      IF how.scale = "fast"
      THEN \E k \in Middle(buf.height, how.h, y), j \in Middle(buf.width, how.w, x) :
             pixels[y][x] = Coloured(buf, buf.data[k][j])
      ELSE pixels[y][x] = Coloured(buf, Area(x, y) \div (buf.width * buf.height))

\* Every colour is a byte, darker where the level is higher (get_contrast_settings,
\* and the bound of the factor in draw_rgb_from_rgb_fast).
ColoursInOrder ==
  LET top == IF buf.format = "gray" THEN 128 ELSE 63
  IN how.scale # "none" =>
       /\ \A y \in 0..how.h - 1, x \in 0..how.w - 1 : pixels[y][x] \in 0..255
       /\ \A v \in 0..top - 1 : Coloured(buf, v) <= Coloured(buf, v + 1)

ImageSound == DrawnRight /\ ColoursInOrder
=============================================================================
