------------------------------ MODULE AudioOut ------------------------------
(***************************************************************************)
(* Audio output: gui/audiodev.c and the audio part of gui/emucore.c and    *)
(* gui/emulator.c.                                                         *)
(*                                                                         *)
(* Three threads. The core thread fills a chunk of samples while the Z80   *)
(* runs, gives it to the device and waits for the next one, with the lock  *)
(* released. The device's thread (SDL) calls io_callback, which copies the *)
(* chunks out. The GUI thread changes the settings and replaces the        *)
(* calculator whenever the core thread does not hold the lock. A step of a *)
(* thread is what it does between two points at which another can see it.  *)
(*                                                                         *)
(* A unit stands for the bytes between two places where a chunk may be     *)
(* split; what is written in a unit is the number of the chunk it belongs  *)
(* to, counted from 1 since the device was opened; 0 is silence.           *)
(***************************************************************************)
EXTENDS Integers, FiniteSets

CONSTANTS
  LatencyChunks,  \* latency_chunks: how many chunks may be filled ahead
  NChunks,        \* nchunks: the length of the ring
  ChunkSize,      \* units in a chunk
  MaxLen,         \* the most units the device asks for at once
  MaxChunks       \* bound: chunks played through one device

(***************************************************************************)
(* What the loop that doubles nchunks leaves behind; that NChunks is a     *)
(* power of two only lets the code write the step around it as a mask.      *)
(***************************************************************************)
ASSUME AudioConstants ==
  /\ LatencyChunks \in Nat \ {0}
  /\ NChunks \in Nat /\ NChunks > LatencyChunks
  /\ ChunkSize \in Nat \ {0}
  /\ MaxLen \in Nat \ {0}
  /\ MaxChunks \in Nat

VARIABLES
  core,           \* where the core thread is
  device,         \* does a device exist ...
  audio_device,   \* ... and has the emulator taken it (emu->audio_device)?
  chunks,         \* chunk -> unit -> number of the chunk written there
  chunk_state,    \* chunk -> is it filled?
  write_chunk, read_chunk, read_pos,
  buffer_pending, initial_fill, buffer_count,
  playing,        \* SDL_PauseAudio(0) has been called
  alive,          \* the device's thread has not died
  written, heard, \* chunks filled and played since the device was opened
  io, io_len,     \* where io_callback is, and what it still has to deliver
  filter,         \* "none", "off" or "on"
  filter_chunk, buffer_remaining,
  enable_audio, audio_error, options_changed, ext_cable, ext_cable_changed,
  paused, task_abort,
  loader          \* tilem_calc_emulator_load_state: "idle", "cancel", "load"

ringVars == <<chunks, chunk_state, write_chunk, read_chunk, read_pos,
              buffer_pending, initial_fill, buffer_count, playing,
              written, heard>>
ioVars == <<io, io_len, alive>>
filterVars == <<filter, filter_chunk, buffer_remaining>>
setVars == <<enable_audio, audio_error, options_changed, ext_cable,
             ext_cable_changed, paused, task_abort, loader>>
audioVars == <<core, device, audio_device, ringVars, ioVars, filterVars, setVars>>

Chunk == 0 .. NChunks - 1
Unit == 1 .. ChunkSize

(***************************************************************************)
(* Where the core thread has released the lock, or waits for it: here, and *)
(* only here, the GUI thread can change what the lock protects.            *)
(***************************************************************************)
Unlocked == {"cable", "open", "open_get", "open_failed", "opened",
             "play", "get", "get_failed", "got",
             "sleep", "wait", "abort_wait"}

\* Mutant: the ring does not close.
Mut_next_chunk(c) == c + 1

NextChunk(c) == IF c = NChunks - 1 THEN 0 ELSE c + 1

AudioInit ==
  /\ core = "top" /\ device = FALSE /\ audio_device = FALSE
  /\ chunks = [c \in Chunk |-> [u \in Unit |-> 0]]
  /\ chunk_state = [c \in Chunk |-> FALSE]
  /\ write_chunk = 0 /\ read_chunk = 0 /\ read_pos = 0
  /\ buffer_pending = FALSE
  /\ initial_fill = LatencyChunks /\ buffer_count = LatencyChunks
  /\ playing = FALSE /\ written = 0 /\ heard = 0
  /\ io = "idle" /\ io_len = 0 /\ alive = TRUE
  /\ filter = "none" /\ filter_chunk = 0 /\ buffer_remaining = 0
  /\ enable_audio \in BOOLEAN /\ audio_error = FALSE
  /\ options_changed = FALSE
  /\ ext_cable = FALSE /\ ext_cable_changed = FALSE
  /\ paused = FALSE /\ task_abort = FALSE /\ loader = "idle"

Goto(p) == core' = p

(***************************************************************************)
(* The device's thread: io_callback. The chunk is read in "copy" and given *)
(* back in two steps, the state and then the semaphore.                    *)
(***************************************************************************)
io_callback(len) ==
  /\ io = "idle" /\ alive /\ device /\ playing
  /\ io' = "loop" /\ io_len' = len
  /\ UNCHANGED <<core, device, audio_device, ringVars, alive, filterVars, setVars>>

\* the chunk would be given back before it is copied
Mut_free_first ==
  /\ io = "loop"
  /\ IF io_len > 0 /\ chunk_state[read_chunk]
     THEN /\ io' = "copy"
          /\ chunk_state' = [chunk_state EXCEPT ![read_chunk] = FALSE]
          /\ buffer_count' = buffer_count + 1
     ELSE io' = "idle" /\ UNCHANGED <<chunk_state, buffer_count>>
  /\ UNCHANGED <<core, device, audio_device, chunks, write_chunk, read_chunk,
                 read_pos, buffer_pending, initial_fill, playing, written, heard,
                 io_len, alive, filterVars, setVars>>

io_loop ==
  /\ io = "loop"
  /\ io' = IF io_len > 0 /\ chunk_state[read_chunk] THEN "copy" ELSE "idle"
  /\ UNCHANGED <<core, device, audio_device, ringVars, io_len, alive,
                 filterVars, setVars>>

io_copy ==
  /\ io = "copy"
  /\ LET n == ChunkSize - read_pos
     IN \/ /\ io_len >= n
           /\ io' = "free" /\ io_len' = io_len - n
           /\ UNCHANGED read_pos
        \/ /\ io_len < n
           /\ io' = "idle" /\ io_len' = 0
           /\ read_pos' = read_pos + io_len
  /\ UNCHANGED <<core, device, audio_device, chunks, chunk_state, write_chunk,
                 read_chunk, buffer_pending, initial_fill, buffer_count,
                 playing, written, heard, alive, filterVars, setVars>>

io_free ==
  /\ io = "free"
  /\ chunk_state' = [chunk_state EXCEPT ![read_chunk] = FALSE]
  /\ read_chunk' = NextChunk(read_chunk)
  /\ read_pos' = 0
  /\ heard' = heard + 1
  /\ io' = "post"
  /\ UNCHANGED <<core, device, audio_device, chunks, write_chunk, buffer_pending,
                 initial_fill, buffer_count, playing, written, io_len, alive,
                 filterVars, setVars>>

io_post ==
  /\ io = "post"
  /\ buffer_count' = buffer_count + 1
  /\ io' = "loop"
  /\ UNCHANGED <<core, device, audio_device, chunks, chunk_state, write_chunk,
                 read_chunk, read_pos, buffer_pending, initial_fill, playing,
                 written, heard, io_len, alive, filterVars, setVars>>

\* The device's thread dies "for no apparent reason".
io_dies ==
  /\ device /\ alive /\ io = "idle"
  /\ alive' = FALSE
  /\ UNCHANGED <<core, device, audio_device, ringVars, io, io_len, filterVars,
                 setVars>>

(***************************************************************************)
(* The core thread. SDL_AudioQuit, in tilem_audio_device_close, waits for  *)
(* a callback that is running.                                             *)
(***************************************************************************)
device_close ==
  /\ device' = FALSE
  /\ (device => io = "idle")

\* the filter would keep its buffer when the device is closed
Mut_close_keeps ==
  /\ device_close
  /\ audio_device' = FALSE
  /\ UNCHANGED <<filter, filter_chunk, buffer_remaining>>

\* audio_close, but for the filter's state, which it leaves alone.
audio_close ==
  /\ device_close
  /\ audio_device' = FALSE
  /\ filter_chunk' = 0 /\ buffer_remaining' = 0
  /\ UNCHANGED filter

\* tilem_em_run as far as update_audio: an external cable that was changed is
\* set up with the lock released.
em_run ==
  /\ core = "top"
  /\ Goto(IF ext_cable_changed THEN "cable" ELSE "update")
  /\ ext_cable_changed' = FALSE
  /\ UNCHANGED <<device, audio_device, ringVars, ioVars, filterVars,
                 enable_audio, audio_error, options_changed, ext_cable, paused,
                 task_abort, loader>>

init_ext_cable ==
  /\ core = "cable"
  /\ \E on \in BOOLEAN : ext_cable' = on
  /\ Goto("update")
  /\ UNCHANGED <<device, audio_device, ringVars, ioVars, filterVars,
                 enable_audio, audio_error, options_changed, ext_cable_changed,
                 paused, task_abort, loader>>

AudioWanted == enable_audio /\ ~ext_cable /\ ~audio_error

\* update_audio, first half: close the device, keep it, or begin to open one.
update_audio ==
  /\ core = "update"
  /\ \/ /\ ~AudioWanted
        /\ audio_close
        /\ Goto("check")
        /\ UNCHANGED options_changed
     \/ /\ AudioWanted /\ audio_device /\ ~options_changed
        /\ Goto("check")
        /\ UNCHANGED <<device, audio_device, filterVars, options_changed>>
     \/ /\ AudioWanted /\ (~audio_device \/ options_changed)
        /\ (IF options_changed THEN audio_close
            ELSE UNCHANGED <<device, audio_device, filterVars>>)
        /\ options_changed' = FALSE
        /\ Goto("open")
  /\ UNCHANGED <<ringVars, ioVars, enable_audio, audio_error, ext_cable,
                 ext_cable_changed, paused, task_abort, loader>>

\* audio_open with the lock released: tilem_audio_device_open, which may fail,
\* and the first half of tilem_audio_device_get_buffer.
device_open ==
  /\ core = "open"
  /\ \/ /\ Goto("open_failed")
        /\ UNCHANGED <<device, ringVars, alive>>
     \/ /\ chunks' = [c \in Chunk |-> [u \in Unit |-> 0]]
        /\ chunk_state' = [c \in Chunk |-> FALSE]
        /\ write_chunk' = 0 /\ read_chunk' = 0 /\ read_pos' = 0
        /\ initial_fill' = LatencyChunks /\ buffer_count' = LatencyChunks
        /\ playing' = FALSE /\ written' = 0 /\ heard' = 0
        /\ buffer_pending' = TRUE
        /\ device' = TRUE /\ alive' = TRUE
        /\ Goto("open_get")
  /\ UNCHANGED <<audio_device, io, io_len, filterVars, setVars>>

\* get_buffer would take the timeout for a permit
Mut_get_any ==
  /\ core \in {"open_get", "get"}
  /\ Goto(IF core = "get" THEN "got" ELSE "opened")
  /\ UNCHANGED <<device, audio_device, ringVars, ioVars, filterVars, setVars>>

\* SDL_SemWaitTimeout in tilem_audio_device_get_buffer.
get_buffer ==
  /\ core \in {"open_get", "get"}
  /\ buffer_count > 0
  /\ buffer_count' = buffer_count - 1
  /\ Goto(IF core = "get" THEN "got" ELSE "opened")
  /\ UNCHANGED <<device, audio_device, chunks, chunk_state, write_chunk,
                 read_chunk, read_pos, buffer_pending, initial_fill, playing,
                 written, heard, ioVars, filterVars, setVars>>

get_timeout ==
  /\ core \in {"open_get", "get"}
  /\ buffer_count = 0
  /\ Goto(IF core = "get" THEN "get_failed" ELSE "open_failed")
  /\ UNCHANGED <<device, audio_device, ringVars, ioVars, filterVars, setVars>>

\* audio_open and update_audio when there was an error: take the lock, close.
audio_failed ==
  /\ core \in {"open_failed", "get_failed"}
  /\ IF core = "get_failed" THEN audio_close
     ELSE device_close /\ UNCHANGED <<audio_device, filterVars>>
  /\ audio_error' = TRUE
  /\ Goto(IF core = "get_failed" THEN "updated" ELSE "check")
  /\ UNCHANGED <<ringVars, ioVars, enable_audio, options_changed, ext_cable,
                 ext_cable_changed, paused, task_abort, loader>>

\* audio_set_buffer, with the lock taken again; it makes a filter for the
\* calculator if there is none.
audio_set_buffer ==
  /\ core \in {"opened", "got"}
  /\ audio_device' = TRUE
  /\ filter' = "on" /\ filter_chunk' = write_chunk
  /\ buffer_remaining' = ChunkSize
  /\ Goto(IF core = "got" THEN "updated" ELSE "check")
  /\ UNCHANGED <<device, ringVars, ioVars, setVars>>

\* update_audio, second half: a full buffer is played.
audio_check ==
  /\ core = "check"
  /\ IF ~audio_device
     THEN /\ filter' = IF filter = "on" THEN "off" ELSE filter
          /\ Goto("updated")
     ELSE /\ UNCHANGED filter
          /\ Goto(IF filter # "none" /\ buffer_remaining = 0
                  THEN "play" ELSE "updated")
  /\ UNCHANGED <<device, audio_device, ringVars, ioVars, filter_chunk,
                 buffer_remaining, setVars>>

\* the ring would begin to play one chunk too late
Mut_play_late ==
  /\ core = "play" /\ written < MaxChunks
  /\ chunk_state' = [chunk_state EXCEPT ![write_chunk] = TRUE]
  /\ write_chunk' = NextChunk(write_chunk)
  /\ written' = written + 1
  /\ initial_fill' = IF initial_fill > 0 THEN initial_fill - 1 ELSE 0
  /\ playing' = (playing \/ initial_fill = 0)
  /\ buffer_pending' = TRUE
  /\ Goto("get")
  /\ UNCHANGED <<device, audio_device, chunks, read_chunk, read_pos,
                 buffer_count, heard, ioVars, filterVars, setVars>>

\* tilem_audio_device_play_buffer, and the first half of get_buffer.
play_buffer ==
  /\ core = "play" /\ written < MaxChunks
  /\ chunk_state' = [chunk_state EXCEPT ![write_chunk] = TRUE]
  /\ write_chunk' = NextChunk(write_chunk)
  /\ written' = written + 1
  /\ initial_fill' = IF initial_fill > 0 THEN initial_fill - 1 ELSE 0
  /\ playing' = (playing \/ initial_fill = 1)
  /\ buffer_pending' = TRUE
  /\ Goto("get")
  /\ UNCHANGED <<device, audio_device, chunks, read_chunk, read_pos,
                 buffer_count, heard, ioVars, filterVars, setVars>>

\* tilem_em_run after update_audio: give up, stop (paused, or asleep, which
\* the calculator may be at any time), or run the Z80.
em_run_z80 ==
  /\ core = "updated"
  /\ \/ /\ task_abort /\ Goto("abort_wait")
        /\ UNCHANGED <<device, audio_device, filterVars>>
     \/ /\ ~task_abort /\ audio_close /\ Goto("wait")
     \/ /\ ~task_abort /\ ~paused /\ Goto("run")
        /\ UNCHANGED <<device, audio_device, filterVars>>
  /\ UNCHANGED <<ringVars, ioVars, setVars>>

\* The sample timer fires: put_frame. A full buffer stops the Z80.
put_frame ==
  /\ core = "run" /\ filter = "on" /\ buffer_remaining > 0
  /\ chunks' = [chunks EXCEPT
       ![filter_chunk][ChunkSize - buffer_remaining + 1] = written + 1]
  /\ buffer_remaining' = buffer_remaining - 1
  /\ UNCHANGED <<core, device, audio_device, chunk_state, write_chunk,
                 read_chunk, read_pos, buffer_pending, initial_fill,
                 buffer_count, playing, written, heard, ioVars, filter,
                 filter_chunk, setVars>>

\* The run is over. Only without a device does the core thread sleep.
run_end ==
  /\ core = "run"
  /\ Goto(IF audio_device THEN "top" ELSE "sleep")
  /\ UNCHANGED <<device, audio_device, ringVars, ioVars, filterVars, setVars>>

\* It has slept, or was woken up; in tilem_em_main it waits again while tasks
\* are being cancelled.
core_resume ==
  /\ \/ core \in {"sleep", "wait"} /\ Goto("top")
     \/ core = "abort_wait" /\ ~task_abort /\ Goto("top")
  /\ UNCHANGED <<device, audio_device, ringVars, ioVars, filterVars, setVars>>

(***************************************************************************)
(* The GUI thread.                                                         *)
(***************************************************************************)
set_audio(enable) ==
  /\ core \in Unlocked
  /\ enable_audio' = enable /\ audio_error' = FALSE
  /\ UNCHANGED <<core, device, audio_device, ringVars, ioVars, filterVars,
                 options_changed, ext_cable, ext_cable_changed, paused,
                 task_abort, loader>>

set_audio_options ==
  /\ core \in Unlocked
  /\ options_changed' = TRUE /\ audio_error' = FALSE
  /\ UNCHANGED <<core, device, audio_device, ringVars, ioVars, filterVars,
                 enable_audio, ext_cable, ext_cable_changed, paused,
                 task_abort, loader>>

set_link_cable ==
  /\ core \in Unlocked
  /\ ext_cable_changed' = TRUE
  /\ UNCHANGED <<core, device, audio_device, ringVars, ioVars, filterVars,
                 enable_audio, audio_error, options_changed, ext_cable, paused,
                 task_abort, loader>>

set_paused(p) ==
  /\ core \in Unlocked
  /\ paused' = p
  /\ UNCHANGED <<core, device, audio_device, ringVars, ioVars, filterVars,
                 enable_audio, audio_error, options_changed, ext_cable,
                 ext_cable_changed, task_abort, loader>>

\* audio_load_state: cancel_tasks, which may wait until a running task has ended ...
load_begin ==
  /\ loader = "idle" /\ core \in Unlocked
  /\ loader' = "cancel" /\ task_abort' = TRUE
  /\ UNCHANGED <<core, device, audio_device, ringVars, ioVars, filterVars,
                 enable_audio, audio_error, options_changed, ext_cable,
                 ext_cable_changed, paused>>

load_cancelled ==
  /\ loader = "cancel" /\ core \in Unlocked
  /\ loader' = "load" /\ task_abort' = FALSE
  /\ UNCHANGED <<core, device, audio_device, ringVars, ioVars, filterVars,
                 enable_audio, audio_error, options_changed, ext_cable,
                 ext_cable_changed, paused>>

\* What tilem_audio_filter_free flushes: silence to the end of the buffer.
Flushed == [u \in Unit |->
  IF u > ChunkSize - buffer_remaining THEN written + 1 ELSE chunks[filter_chunk][u]]

\* ... and, after the files are read, the calculator is replaced.
audio_load_state ==
  /\ loader = "load" /\ core \in Unlocked
  /\ loader' = "idle"
  /\ chunks' = IF filter # "none" /\ buffer_remaining > 0
               THEN [chunks EXCEPT ![filter_chunk] = Flushed] ELSE chunks
  /\ filter' = "none" /\ filter_chunk' = 0 /\ buffer_remaining' = 0
  /\ UNCHANGED <<core, device, audio_device, chunk_state, write_chunk,
                 read_chunk, read_pos, buffer_pending, initial_fill,
                 buffer_count, playing, written, heard, ioVars, enable_audio,
                 audio_error, options_changed, ext_cable, ext_cable_changed,
                 paused, task_abort>>

IoStep == io_loop \/ io_copy \/ io_free \/ io_post

CoreStep ==
  \/ em_run \/ init_ext_cable \/ update_audio \/ device_open \/ get_buffer
  \/ audio_failed \/ audio_set_buffer \/ audio_check \/ play_buffer
  \/ em_run_z80 \/ put_frame \/ run_end \/ core_resume

GuiStep ==
  \/ \E b \in BOOLEAN : set_audio(b) \/ set_paused(b)
  \/ set_audio_options \/ set_link_cable
  \/ load_begin \/ load_cancelled \/ audio_load_state

AudioNext ==
  \/ IoStep \/ io_dies \/ (\E n \in 1 .. MaxLen : io_callback(n))
  \/ CoreStep \/ get_timeout
  \/ GuiStep

AudioSpec == AudioInit /\ [][AudioNext]_audioVars

(***************************************************************************)
(* Threads are scheduled; a device that plays and whose thread is alive    *)
(* asks for data again and again; the timeout passes when it is dead.      *)
(***************************************************************************)
DeviceStep == IoStep \/ \E n \in 1 .. MaxLen : io_callback(n)
WaitStep == CoreStep \/ (~alive /\ get_timeout)

AudioFair == WF_audioVars(DeviceStep) /\ WF_audioVars(WaitStep)

AudioFairSpec == AudioSpec /\ AudioFair

-----------------------------------------------------------------------------
(***************************************************************************)
(* Properties                                                              *)
(***************************************************************************)
CorePlaces == Unlocked \cup {"top", "update", "check", "updated", "run"}

RingTypeOK ==
  /\ chunks \in [Chunk -> [Unit -> Nat]]
  /\ chunk_state \in [Chunk -> BOOLEAN]
  /\ write_chunk \in Chunk /\ read_chunk \in Chunk
  /\ read_pos \in 0 .. ChunkSize - 1
  /\ buffer_pending \in BOOLEAN /\ playing \in BOOLEAN
  /\ initial_fill \in 0 .. LatencyChunks
  /\ buffer_count \in 0 .. LatencyChunks
  /\ written \in Nat /\ heard \in Nat

SettingTypeOK ==
  /\ enable_audio \in BOOLEAN /\ audio_error \in BOOLEAN
  /\ options_changed \in BOOLEAN /\ ext_cable \in BOOLEAN
  /\ ext_cable_changed \in BOOLEAN /\ paused \in BOOLEAN
  /\ task_abort \in BOOLEAN /\ loader \in {"idle", "cancel", "load"}

AudioTypeOK ==
  /\ core \in CorePlaces /\ device \in BOOLEAN /\ audio_device \in BOOLEAN
  /\ RingTypeOK
  /\ alive \in BOOLEAN /\ io_len \in Nat
  /\ io \in {"idle", "loop", "copy", "free", "post"}
  /\ filter \in {"none", "off", "on"} /\ filter_chunk \in Chunk
  /\ buffer_remaining \in 0 .. ChunkSize
  /\ SettingTypeOK

(***************************************************************************)
(* What io_callback is copying to the speaker is the chunk whose turn it   *)
(* is, complete: no sample is played twice, left out, or overwritten by    *)
(* the filter while it is copied, although nothing but chunk_state, set    *)
(* without a lock, keeps the two threads apart.                            *)
(***************************************************************************)
AudioInOrder ==
  io = "copy" => \A u \in read_pos + 1 .. ChunkSize :
                   chunks[read_chunk][u] = heard + 1

\* Does the core thread hold a permit that get_buffer took?
Holding == buffer_pending /\ core \notin {"open_get", "get", "get_failed", "open_failed"}

Held == IF Holding THEN 1 ELSE 0       \* the permit of the core thread
Freed == IF io = "post" THEN 1 ELSE 0  \* that of a chunk not yet posted

\* How many chunks io_callback plays before it comes to this one
Ahead(c) == IF c >= read_chunk THEN c - read_chunk ELSE c + NChunks - read_chunk

(***************************************************************************)
(* The semaphore buffer_count agrees with the ring: every permit is free,  *)
(* with the core thread, or spent on a chunk that is filled (or was, until *)
(* io_callback posts it), so that the core thread never runs more than     *)
(* LatencyChunks ahead and never fills a chunk that is being played.       *)
(***************************************************************************)
PermitsCounted ==
  device =>
    /\ buffer_count + (written - heard) + Held + Freed = LatencyChunks
    /\ \A c \in Chunk : chunk_state[c] <=> Ahead(c) < written - heard

(***************************************************************************)
(* Only a chunk that get_buffer gave, of the device that is open, is       *)
(* written by the filter; the sample timer runs on while the core thread   *)
(* changes devices and the GUI thread frees the filter.                    *)
(***************************************************************************)
FilterOwnsChunk ==
  buffer_remaining > 0 =>
    /\ device /\ audio_device /\ Holding
    /\ filter_chunk = write_chunk /\ ~chunk_state[write_chunk]

(***************************************************************************)
(* get_buffer waits for a chunk that comes back: as long as the device's   *)
(* thread lives, the core thread does not wait for ever (nor, therefore,   *)
(* until its timeout). The device is started by play_buffer only when      *)
(* initial_fill chunks are filled, by the thread that waits.               *)
(***************************************************************************)
GetReturns == core \in {"open_get", "get"} ~> core \notin {"open_get", "get"}

(***************************************************************************)
(* update_audio takes for granted, with g_return_if_fail, that there is a  *)
(* filter whenever there is a device.                                      *)
(***************************************************************************)
FilterWhenDevice == core = "check" /\ audio_device => filter # "none"

=============================================================================
