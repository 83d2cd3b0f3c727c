------------------------------ MODULE Animation ------------------------------
(***************************************************************************)
(* Animations of the calculator's screen: they are recorded frame by frame  *)
(* while the program runs (gui/animation.c, tmr_screen_update of           *)
(* gui/emulator.c), shown in the screenshot dialog, and written as GIF       *)
(* images with the time that each is to be shown (gui/animatedgif.c).        *)
(* A picture is a model value; what is drawn of it is that value with the    *)
(* contrast, or nothing when the contrast is 0.                              *)
(***************************************************************************)
EXTENDS Integers, Sequences, FiniteSets
LOCAL INSTANCE SequencesExt
LOCAL INSTANCE FiniteSetsExt

CONSTANTS
  Picture,      \* contents of the display
  Contrast,     \* contrasts, 0 among them
  FrameTime,    \* milliseconds from one update of the screen to the next (30)
  DurationTop,  \* durations are below this (2^24)
  MinDelay,     \* MIN_FRAME_DELAY, in 1/100 s (6)
  DelayTop,     \* one byte of the delay is written: it is below this (256)
  Speed,        \* speeds, as records of num and den
  Passed,       \* milliseconds that may pass until the preview looks again
  MaxDraws,     \* bound: changes of the screen
  MaxUpdates,   \* bound: updates of the screen while recording
  MaxLooks,     \* bound: times that the preview looks at the clock
  MaxMade       \* bound: recordings and screenshots

ASSUME AnimationConstants ==
  /\ Contrast \subseteq 0..63 /\ FrameTime \in Nat \ {0} /\ DurationTop \in Nat \ {0}
  /\ MinDelay \in Nat /\ DelayTop \in Nat /\ Passed \subseteq Nat
  /\ \A s \in Speed : s.num \in Nat \ {0} /\ s.den \in Nat \ {0}

VARIABLES
  screen,    \* the display, with the time of its last change
  emu_buffer,       \* what has last been taken of it (emu->lcd_buffer)
  anim,      \* emu->anim: the animation that is recorded, or NoAnim
  shown,     \* the animation in the dialog, or NoAnim
  iter,      \* the preview: a frame, how much of its time has passed, the speed of the
             \* animation, and how often the preview has looked at the clock
  gif,       \* images and delays in the file, with the speed that it was written for
  seen,      \* history: what was taken of the display, per update
  looked,    \* history: the time that the preview has gone through
  recording, \* may the user end a recording, but not begin one?
  made       \* how many recordings and screenshots there were, bounded by MaxMade

animVars == <<screen, emu_buffer, anim, shown, iter, gif, seen, looked, made, recording>>

Junk == "junk"  \* data of a frame that has not been initialized
NoAnim == <<>>
NoGif == [images |-> <<>>, speed |-> NoAnim]

-----------------------------------------------------------------------------
\* tilem_lcd_get_frame and tilem_gray_lcd_get_frame: of a display that is off only
\* the contrast is taken
Taken ==
  [data |-> IF screen.contrast = 0 THEN emu_buffer.data ELSE screen.data,
   contrast |-> screen.contrast, stamp |-> screen.stamp]

NewAnimation == [frames |-> <<[data |-> Junk, contrast |-> 0, duration |-> 0]>>, last_stamp |-> 0]

Longer_by(a, ms) == [a EXCEPT !.frames[Len(a.frames)].duration = (@ + ms) % DurationTop]

\* tilem_animation_append_frame; a frame without a duration is used again
append_frame(a, b, ms) ==
  LET end == Last(a.frames)
      same == end.contrast = b.contrast /\ (a.last_stamp = b.stamp \/ end.data = b.data)
      frame == [data |-> b.data, contrast |-> b.contrast, duration |-> ms]
      more == IF same THEN Longer_by(a, ms)
              ELSE IF end.duration = 0 THEN [a EXCEPT !.frames[Len(a.frames)] = frame]
              ELSE [a EXCEPT !.frames = Append(@, frame)]
  IN [more EXCEPT !.last_stamp = b.stamp]

\* The first contrast of an animation that is not 0; it is drawn as 32
base_contrast(frames) ==
  LET i == SelectInSeq(frames, LAMBDA f : f.contrast # 0)
  IN IF i = 0 THEN 0 ELSE frames[i].contrast

adjust_contrast(frames, contrast) ==
  IF contrast = 0 THEN 0 ELSE Max({0, Min({63, contrast - base_contrast(frames) + 32})})

\* What is drawn, of a frame or of anything like it
Drawn_of(f, frames) ==
  LET c == adjust_contrast(frames, f.contrast)
  IN IF c = 0 THEN [contrast |-> 0] ELSE [contrast |-> c, data |-> f.data]

-----------------------------------------------------------------------------
(* Recording *)

\* The program draws, or turns the display on or off, or changes the contrast
draw(d, c) ==
  /\ screen.stamp < MaxDraws
  /\ screen' = [data |-> d, contrast |-> c,
                stamp |-> IF d = screen.data THEN screen.stamp ELSE screen.stamp + 1]
  /\ screen' # screen
  /\ UNCHANGED <<emu_buffer, anim, shown, iter, gif, seen, looked, made, recording>>

\* tmr_screen_update
screen_update ==
  /\ anim # NoAnim => Len(seen) < MaxUpdates
  /\ emu_buffer' = Taken
  /\ IF anim = NoAnim THEN UNCHANGED <<anim, seen>>
     ELSE anim' = append_frame(anim, emu_buffer', FrameTime) /\ seen' = Append(seen, emu_buffer')
  /\ UNCHANGED <<screen, shown, iter, gif, looked, made, recording>>

begin_animation ==
  /\ ~recording /\ made < MaxMade /\ made' = made + 1 /\ recording' = TRUE
  /\ anim' = NewAnimation /\ seen' = <<>> /\ emu_buffer' = Taken
  /\ UNCHANGED <<screen, shown, iter, gif, looked>>

\* The preview begins anew
Preview(a) ==
  shown' = a /\ gif' = NoGif /\ looked' = 0 /\ iter' = [iter EXCEPT !.frame = 1, !.elapsed = 0]

\* Nothing is shown of a recording that has been given up
end_animation ==
  /\ recording /\ recording' = FALSE /\ Preview(anim) /\ anim' = NoAnim
  /\ UNCHANGED <<screen, emu_buffer, seen, made>>

\* A recording that goes on when the calculator is replaced is given up
cancel_animation ==
  /\ anim # NoAnim /\ anim' = NoAnim /\ seen' = <<>>
  /\ UNCHANGED <<screen, emu_buffer, shown, iter, gif, looked, made, recording>>

\* grab_screen, and tilem_calc_emulator_get_screenshot
get_screenshot ==
  /\ ~recording /\ made < MaxMade /\ made' = made + 1
  /\ emu_buffer' = Taken /\ seen' = <<emu_buffer'>>
  /\ Preview(append_frame(NewAnimation, emu_buffer', 1))
  /\ UNCHANGED <<screen, anim, recording>>

-----------------------------------------------------------------------------
(* The preview *)

is_static(a) == Len(a.frames) = 1

animation_speed_changed(s) ==
  /\ ~recording /\ shown # NoAnim /\ iter' = [iter EXCEPT !.speed = s]
  /\ UNCHANGED <<screen, emu_buffer, anim, shown, gif, seen, looked, made, recording>>

\* The frame that is shown ms after the beginning of frame i
Advanced(frames, i, ms) ==
  LET go[n \in 0..(ms \div FrameTime) + 1] ==
        IF n = 0 THEN [frame |-> i, elapsed |-> ms]
        ELSE LET at == go[n - 1] IN
             IF at.elapsed < frames[at.frame].duration THEN at
             ELSE [frame |-> IF at.frame < Len(frames) THEN at.frame + 1 ELSE 1,
                   elapsed |-> at.elapsed - frames[at.frame].duration]
  IN go[(ms \div FrameTime) + 1]

\* tilem_anim_iter_advance, after some milliseconds: fractions of them are lost
advance(ms) ==
  LET at == Advanced(shown.frames, iter.frame,
                     ((ms * iter.speed.num) \div iter.speed.den) + iter.elapsed)
  IN /\ shown # NoAnim /\ ~is_static(shown) /\ iter.looks < MaxLooks
     /\ iter' = [frame |-> at.frame, elapsed |-> at.elapsed, speed |-> iter.speed,
                 looks |-> iter.looks + 1]
     /\ looked' = looked + ((ms * iter.speed.num) \div iter.speed.den)
     /\ UNCHANGED <<screen, emu_buffer, anim, shown, gif, seen, made, recording>>

-----------------------------------------------------------------------------
(* The file *)

\* One frame more: t is the time that is not shown yet, by the numerator of the
\* speed; a frame that would be shown too briefly is left out, but for the last one
With_frame(acc, frames, i, speed) ==
  LET t == acc.t + frames[i].duration * speed.den
      n == t \div (10 * speed.num)
  IN IF n < MinDelay /\ i < Len(frames) THEN [acc EXCEPT !.t = t]
     ELSE [t |-> t - n * 10 * speed.num,
           images |-> Append(acc.images, [frame |-> i, n |-> n,
                                          delay |-> Max({n, MinDelay}) % DelayTop])]

\* tilem_animation_write_gif
write_gif ==
  LET frames == shown.frames
      start == [t |-> MinDelay * 5 * iter.speed.num, images |-> <<>>]
      moving == FoldLeft(LAMBDA acc, i : With_frame(acc, frames, i, iter.speed),
                         start, [i \in DOMAIN frames |-> i]).images
  IN /\ ~recording /\ shown # NoAnim
     /\ gif' = [speed |-> iter.speed,
                images |-> IF is_static(shown) THEN <<[frame |-> 1, n |-> 0, delay |-> 0]>>
                           ELSE moving]
     /\ UNCHANGED <<screen, emu_buffer, anim, shown, iter, seen, looked, made, recording>>

-----------------------------------------------------------------------------
AnimationInit ==
  /\ screen = [data |-> CHOOSE d \in Picture : TRUE, contrast |-> 0, stamp |-> 0]
  /\ emu_buffer = [data |-> Junk, contrast |-> 0, stamp |-> 0]
  /\ anim = NoAnim /\ shown = NoAnim /\ gif = NoGif /\ seen = <<>> /\ looked = 0 /\ made = 0
  /\ recording = FALSE
  /\ \E s \in Speed : iter = [frame |-> 1, elapsed |-> 0, speed |-> s, looks |-> 0]

\* What the program draws while an animation is shown is left out, unless another one
\* is recorded
AnimationNext ==
  \/ (recording \/ shown = NoAnim) /\ ((\E d \in Picture, c \in Contrast : draw(d, c)) \/ screen_update)
  \/ begin_animation \/ cancel_animation \/ get_screenshot
  \/ end_animation
  \/ \E s \in Speed : animation_speed_changed(s)
  \/ \E ms \in Passed : advance(ms)
  \/ write_gif

-----------------------------------------------------------------------------
AnimationTypeOK ==
  /\ screen.stamp \in 0..MaxDraws /\ Len(seen) <= MaxUpdates
  /\ iter.looks \in 0..MaxLooks /\ made \in 0..MaxMade
  /\ anim # NoAnim => recording
  /\ shown # NoAnim => iter.frame \in DOMAIN shown.frames

\* What a recording shows, per update
Replayed(a) ==
  FlattenSeq([i \in DOMAIN a.frames |->
    [k \in 1..((a.frames[i].duration + FrameTime - 1) \div FrameTime) |->
      Drawn_of(a.frames[i], a.frames)]])
TakenPictures == [k \in DOMAIN seen |-> Drawn_of(seen[k], seen)]
Fits == Len(seen) * FrameTime < DurationTop

\* A recording shows, at each time, what was on the display: frames are joined only
\* if they look the same, be it that the display was off and changed meanwhile
\* (gui/animation.c:550-567).  Left out are recordings so long that the duration
\* of a frame may go round.
RecordingRight == anim # NoAnim /\ Fits => Replayed(anim) = TakenPictures

\* The preview shows what was on the display as long after the beginning as it has
\* gone, over and over (gui/animation.c:384-422).
PreviewRight ==
  anim = NoAnim /\ shown # NoAnim /\ seen # <<>> /\ Fits =>
    Replayed(shown) = TakenPictures
      /\ (~is_static(shown) =>
           Drawn_of(shown.frames[iter.frame], shown.frames)
             = TakenPictures[((looked \div FrameTime) % Len(seen)) + 1])

\* In the file, each image ends, as far as can be told in hundredths of seconds, half
\* of the shortest delay after what it shows did, and none but the last is shown for
\* longer than that or more briefly than allowed; the last one is the last frame.
\* Delays that do not fit in a byte are left out, of which only one is written.
GifTimed ==
  LET speed == gif.speed
      images == gif.images
      Shown(k) == FoldLeft(LAMBDA t, i : t + shown.frames[i].duration, 0,
                           [i \in 1..images[k].frame |-> i])
      Until(k) == 10 * FoldLeft(LAMBDA t, i : t + images[i].delay, 0, [i \in 1..k |-> i])
      late(k) == Until(k) * speed.num - Shown(k) * speed.den
  IN gif # NoGif /\ ~is_static(shown) /\ (\A k \in DOMAIN images : images[k].n < DelayTop) =>
       /\ Last(images).frame = Len(shown.frames)
       /\ \A k \in DOMAIN images :
            /\ images[k].delay >= MinDelay
            /\ late(k) > (5 * MinDelay - 10) * speed.num
            /\ k < Len(images) => late(k) <= 5 * MinDelay * speed.num

AnimationSound == RecordingRight /\ PreviewRight /\ GifTimed
=============================================================================
