------------------------------ MODULE GrayLcd ------------------------------
(***************************************************************************)
(* Levels of gray from a display that only knows dark and light: a program *)
(* makes a dot flicker, emu/graylcd.c samples it and counts how long it is *)
(* dark and light within a window of the last frames, and gui/emulator.c   *)
(* has the window drawn anew when a frame may differ from the last one.    *)
(* One dot stands for all of them; a program that writes to the display    *)
(* without changing it has written to another dot.                         *)
(***************************************************************************)
EXTENDS Integers, Sequences

CONSTANTS
  WindowSize,  \* frames in the sampling window (4)
  PerFrame,    \* numbers of samples between two frames (about 150)
  Modulus,     \* of the counters (2^16): more than the samples of a window
  MaxWrites,   \* bound: writes to the display
  MaxSwitches, \* bound: how often the display is switched without a write
  MaxFrames    \* bound: frames

ASSUME GrayConstants ==
  /\ WindowSize \in Nat \ {0} /\ PerFrame \subseteq Nat \ {0}
  /\ MaxWrites \in Nat /\ MaxSwitches \in Nat /\ MaxFrames \in Nat
  /\ Modulus \in Nat /\ \A n \in PerFrame : WindowSize * n < Modulus

VARIABLES
  dot, lit,       \* the dot as the display has it, and whether the display is on
  lastlcdwrite,   \* the time of the last write: the number of writes
  glcd,           \* the sampler
  lcd_buffer,     \* the frame: its stamp, whether it is off, its level (0..128)
  lcd_update_pending,
  window,         \* what the window shows
  waited,         \* samples since the last frame
  frames,         \* the number of frames, bounded by MaxFrames
  switches,       \* the number of switches without a write, bounded by MaxSwitches
  changes,        \* history: numbers of the samples that saw a change
  missed,         \* history: the last write that a frame saw before a sample did
  switched        \* history: the writes after which the display was switched on or off
                  \* without being written to, since the window was last drawn for it

grayVars == <<dot, lit, lastlcdwrite, glcd, lcd_buffer, lcd_update_pending, window,
              waited, frames, changes, missed, switched,
              switches>>

FrameSlot == 0..WindowSize - 1
NoCounts == [ndark |-> 0, nlight |-> 0, ndarkseg |-> 0, nlightseg |-> 0]
FrameOf(stamp, off, level) == [stamp |-> stamp, off |-> off, level |-> level]

\* tilem_gray_lcd_new: frames before the first one get stamps that no frame has
GrayInit ==
  /\ dot = 0 /\ lit = TRUE /\ lastlcdwrite = 0 /\ waited = 0 /\ frames = 0
  /\ glcd = [t |-> 0, lcdupdatetime |-> -1, bit |-> 0, tchange |-> 0, cur |-> NoCounts,
             base |-> [i \in FrameSlot |-> NoCounts], tframestart |-> [i \in FrameSlot |-> 0],
             framestamp |-> [i \in FrameSlot |-> -i], framenum |-> 0]
  /\ lcd_buffer = FrameOf(0, FALSE, 0) /\ window = lcd_buffer
  /\ lcd_update_pending = FALSE /\ changes = <<>> /\ missed = -1
  /\ switched = {} /\ switches = 0

-----------------------------------------------------------------------------
(***************************************************************************)
(* The program                                                             *)
(***************************************************************************)
\* What is written to the display leaves a stamp: dots, and the commands that switch
\* a T6A04 on and off.
WriteDot(d, l) ==
  /\ lastlcdwrite < MaxWrites /\ lastlcdwrite' = lastlcdwrite + 1
  /\ (d = dot \/ l = lit) /\ dot' = d /\ lit' = l
  /\ UNCHANGED <<glcd, lcd_buffer, lcd_update_pending, window, waited, frames, changes,
                 missed, switched, switches>>

\* The ports that switch the displays of other models, a reset, and a HALT that
\* powers the calculator off or the end of it leave none.
SwitchLcd ==
  /\ switches < MaxSwitches /\ switches' = switches + 1
  /\ lit' = ~lit /\ switched' = switched \cup {lastlcdwrite}
  /\ UNCHANGED <<dot, lastlcdwrite, glcd, lcd_buffer, lcd_update_pending, window, waited,
                 frames, changes, missed>>

-----------------------------------------------------------------------------
(***************************************************************************)
(* The sampler                                                             *)
(***************************************************************************)
\* A change ends a segment, dark or light.
Counted(c, bit, delta) ==
  IF bit = 1
  THEN [c EXCEPT !.ndark = (@ + delta) % Modulus, !.ndarkseg = (@ + 1) % Modulus]
  ELSE [c EXCEPT !.nlight = (@ + delta) % Modulus, !.nlightseg = (@ + 1) % Modulus]

tmr_screen_sample ==
  LET t == glcd.t + 1
  IN /\ \E n \in PerFrame : waited < n
     /\ waited' = waited + 1
     /\ IF lastlcdwrite = glcd.lcdupdatetime \/ dot = glcd.bit
        THEN /\ glcd' = [glcd EXCEPT !.t = t, !.lcdupdatetime = lastlcdwrite]
             /\ UNCHANGED changes
        ELSE /\ glcd' = [glcd EXCEPT !.t = t, !.lcdupdatetime = lastlcdwrite, !.bit = dot,
                                     !.tchange = t,
                                     !.cur = Counted(@, glcd.bit, t - glcd.tchange)]
             /\ changes' = Append(changes, t)
     /\ UNCHANGED <<dot, lit, lastlcdwrite, lcd_buffer, lcd_update_pending, window, frames,
                    missed, switched, switches>>

\* The counts of the window
Since(c, b) == [f \in DOMAIN c |-> (c[f] - b[f]) % Modulus]

\* What is left of the current segment counts if it is longer than the average.
Longer(w, bit, delta) ==
  IF bit = 1 THEN delta * w.ndarkseg >= w.ndark ELSE delta * w.nlightseg >= w.nlight

GrayLevel(w) ==
  LET fd == w.ndark * w.nlightseg
      fl == w.nlight * w.ndarkseg
  IN IF fd + fl = 0 THEN (IF w.ndark > 0 THEN 128 ELSE 0) ELSE (fd * 128) \div (fd + fl)

\* Where the current segment begins, within the window
SegmentStart(g, tbase) == IF g.tchange < tbase THEN tbase ELSE g.tchange

-----------------------------------------------------------------------------
(***************************************************************************)
(* Frames (gui/emulator.c), and the window that shows them                 *)
(***************************************************************************)
\* tilem_gray_lcd_get_frame, where `other' is a stamp that differs from all others
GetFrame(other) ==
  LET slot == glcd.framenum
      tbase == glcd.tframestart[slot]
      start == SegmentStart(glcd, tbase)
      w == Since(glcd.cur, glcd.base[slot])
      delta == glcd.t - start
      counts == IF Longer(w, dot, delta) THEN Counted(w, dot, delta) ELSE w
      stamp == IF glcd.framestamp[slot] = lastlcdwrite THEN lastlcdwrite ELSE other
  IN IF ~lit THEN lcd_buffer' = FrameOf(lastlcdwrite, TRUE, lcd_buffer.level)
                  /\ UNCHANGED glcd
     ELSE /\ lcd_buffer' = FrameOf(stamp, FALSE, GrayLevel(counts))
          /\ glcd' = [glcd EXCEPT !.framestamp[slot] = lastlcdwrite,
                        !.tframestart[slot] = glcd.t, !.tchange = start,
                        !.base[slot] = glcd.cur, !.framenum = (@ + 1) % WindowSize]

tmr_screen_update ==
  /\ frames < MaxFrames /\ frames' = frames + 1 /\ waited \in PerFrame /\ waited' = 0
  /\ GetFrame(-WindowSize - frames)
  /\ lcd_update_pending' = (lcd_update_pending \/ lcd_buffer'.stamp # lcd_buffer.stamp)
  /\ missed' = IF lit /\ glcd.lcdupdatetime # lastlcdwrite THEN lastlcdwrite ELSE missed
  /\ UNCHANGED <<dot, lit, lastlcdwrite, window, changes, switched, switches>>

\* A frame while the emulator is paused or the calculator is off: it is shown
\* whatever its stamp.
update_screen_mono ==
  /\ lcd_buffer' = FrameOf(lastlcdwrite, ~lit, IF lit THEN 128 * dot ELSE lcd_buffer.level)
  /\ lcd_update_pending' = TRUE /\ switched' = {}
  /\ UNCHANGED <<dot, lit, lastlcdwrite, glcd, window, waited, frames, changes, missed,
                 switches>>

screen_repaint ==
  /\ window' = lcd_buffer /\ lcd_update_pending' = FALSE
  /\ UNCHANGED <<dot, lit, lastlcdwrite, glcd, lcd_buffer, waited, frames, changes, missed,
                 switched, switches>>

GrayNext ==
  \/ \E d \in 0..1, l \in BOOLEAN : WriteDot(d, l)
  \/ SwitchLcd
  \/ tmr_screen_sample \/ tmr_screen_update \/ update_screen_mono \/ screen_repaint

GraySpec == GrayInit /\ [][GrayNext]_grayVars

-----------------------------------------------------------------------------
GrayTypeOK ==
  /\ lcd_buffer.level \in 0..128 /\ dot \in 0..1 /\ lit \in BOOLEAN
  /\ \A f \in DOMAIN NoCounts : glcd.cur[f] \in 0..Modulus - 1
  /\ glcd.tchange <= glcd.t /\ glcd.framenum \in FrameSlot

(***************************************************************************)
(* A window that is not to be drawn anew shows the last frame: a frame     *)
(* that differs from the one before has another stamp. That fails where a  *)
(* frame saw a write before a sample did: when the window has gone past    *)
(* it, the level changes and the stamp does not. It also fails where the   *)
(* display is switched without a write: until the next write, or until the *)
(* core thread waits, the window may go on showing a display that is off.  *)
(***************************************************************************)
WindowCurrent ==
  ~lcd_update_pending /\ lcd_buffer.stamp \notin {missed} \cup switched =>
    /\ window.off = lcd_buffer.off
    /\ ~window.off => window.level = lcd_buffer.level

\* The level that the next frame gets when it is taken now
NextLevel ==
  LET slot == glcd.framenum
      w == Since(glcd.cur, glcd.base[slot])
      delta == glcd.t - SegmentStart(glcd, glcd.tframestart[slot])
  IN GrayLevel(IF Longer(w, dot, delta) THEN Counted(w, dot, delta) ELSE w)

\* The samples of the window that the next frame has
WindowStart == glcd.tframestart[glcd.framenum]

(***************************************************************************)
(* A dot that was dark, or light, all through the window is black, or      *)
(* white: the counters, which wrap, and the segment that began before the  *)
(* window leave nothing behind.                                            *)
(***************************************************************************)
SteadyIsPlain ==
  (\A i \in DOMAIN changes : changes[i] <= WindowStart)
    /\ dot = glcd.bit /\ glcd.t - WindowStart \in 1..Modulus - 1
    => NextLevel = 128 * dot

(***************************************************************************)
(* A dot that is dark for a samples and light for b, again and again, has  *)
(* the share of a among a + b, wherever the window cuts the flicker.       *)
(***************************************************************************)
FlickerIsShare ==
  LET n == Len(changes)
      begin(i) == IF i = 0 THEN 0 ELSE changes[i]
      length(i) == changes[i] - begin(i - 1)     \* of the segment that i ends
      inside == {i \in 1..n : changes[i] > WindowStart}
      dark(i) == (n - i) % 2 = glcd.bit       \* was the segment dark?
  IN \A a, b \in 1..WindowSize :
       /\ \A i \in inside : length(i) = IF dark(i) THEN a ELSE b
       /\ \E i, j \in inside : i # j
       /\ dot = glcd.bit /\ glcd.t - changes[n] <= IF dot = 1 THEN a ELSE b
       => NextLevel = (128 * a) \div (a + b)

GraySound == WindowCurrent /\ SteadyIsPlain /\ FlickerIsShare
=============================================================================
