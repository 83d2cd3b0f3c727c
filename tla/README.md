# TLA+ models of TilEm

TilEm emulates the Z80-based TI graphing calculators. This directory holds a
formal model of it: the two threads of the GTK program and the third one that
plays sound, what moves bytes between calculators, the emulated processor with
its timers, memory, ports, Flash and displays, and what the program makes of
them in the debugger, in files and in images. Every module is translated from
the C or C++ source; file names below are relative to `src/`.

- *checked* means that TLC explored every state of a small instance;
- *proved* means that TLAPS checked a proof for every value of the constants.

`PROJECT.json` lists, for each definition, the source lines it models (`map`),
for each property a change of the model that breaks it (`mutants`; the operators
called `Mut_...` in the modules), for each run what it is for, and what is hard
to test in this code (`hazards`) with the properties that look for it.

## 1. The system

    GTK main loop (GUI thread)                 core thread         SDL thread
    gui/event.c, emuwin.c, link.c, ...         gui/emucore.c       gui/audiodev.c
          |                                          |                  |
          |  gui/emulator.c: operations that take    | task_queue,      | ring of
          |  calc_mutex, queue tasks, wait for them  | tilem_em_run     | chunks
          +----------- TilemCalcEmulator ------------+------------------+
                             |
                      TilemCalc (emu/calcs.c)
        Z80 (z80.c, z80*.h): registers, breakpoints, timers, run loop
           |             |            |          |            |
        x1 ... xc:    timers.c     link.c     flash.c     lcd.c, xc_lcd.c,
        ports, memory              link port              graylcd.c, keypad.c

The Qt program (`gui-qt/`) runs the same calculator in a thread of its own each.

| component | state | operations | talks to | what is hard | what makes it correct |
|---|---|---|---|---|---|
| core thread, task queue, emulator lock (`gui/emucore.c`, `gui/emulator.c`) | mutex, two conditions, waiting counter, queue, flags, the calculator pointer | begin a task, cancel, load_state, free, pause, run, em_run, run_task | every other part of the GUI | two threads, lock given up in the middle of operations, wake-ups, cancellation | no task lost or run after it was cancelled; nobody waits for ever; a calculator is not freed under a task |
| macros (`gui/macro.c`) | recorded actions, playback | load, play, record | tasks, key queue, Z80 without the lock | runs unlocked; finished callbacks begin tasks | as above |
| progress window (`gui/pbar.c`) | title, fraction, cancel button | update, cancel | cancel_tasks | called back while tasks run | cancel ends what it shows |
| link transfer (`gui/link.c`, `sendfile.c`, `rcvmenu.c`, `ti81prg.c`) | per-task file and result | send, receive, list | tasks, virtual cable, libticalcs | long I/O, abort, unlocked stretches | a transfer ends; results belong to its task |
| audio (`gui/audiodev.c`, `emu/audio.c`) | ring of chunks, semaphore, filter's pointer into the ring | open, get and play a chunk, callback, close | core thread, SDL's thread, GUI | three threads, a device that dies, load_state | what is written is played once and in order; nobody writes what is played |
| keyboard input (`gui/event.c`, key queue in `gui/emulator.c`) | queue, timer id, current and held key, key maps | press, release, focus out, mouse, playback timer | keypad, Z80 timers | events against the timer; reset; load_state | order kept, no key stuck, held key can be let go |
| Z80 timers and run loop (`emu/z80.c`) | two sorted lists in one array, clock, speed, stop flags | add, set, remove, set_speed, check_timers, run, halt | all hardware; GUI between runs | wrapping clock, callbacks that change the lists | none lost, none passed over, in order, no drift, runs end |
| breakpoints (`emu/z80.c`, `gui/debugger.c`, `gui/breakpoints.c`) | lists by type in one array; the debugger's own list, its step | add, remove, enable, walk, step | run loop, debugger, audio | lists patched while they are walked | each is in the list of its type and known to who set it |
| instruction core (`emu/z80*.h`) | registers, flags | one per opcode | memory and ports of the model | flags, prefixes, block instructions under interrupts | programs compute what they mean |
| link port (`emu/link.c`) | two wires, link assist, GrayLink state | port writes, assist timer, send and get a byte | Z80, core thread | handshake of three parties, errors | bytes arrive once, in order, unchanged |
| user timers (`emu/timers.c`) | frequency, loop counter, status | port writes, expiry | Z80 timers, interrupts | expiry against writes | period and flags follow the ports |
| Flash (`emu/flash.c`) | command state, busy, toggles | write, read, delay timer | Z80 timers, memory | delayed completion; two modes | commands complete; nothing else is erased |
| displays (`emu/lcd.c`, `xc/xc_lcd.c`, `monolcd.c`, `graylcd.c`, `grayimage.c`) | contents, position, busy; sample window | port writes, timer, read a frame, draw | timers, GUI | half words, windows, sampling | the user sees what was drawn |
| models (`emu/x1` ... `emu/xc`) | registers of the ports, memory map | in, out, reset, read, write | all hardware | cached copies of ports, protection | map, masks and delays are what the ports say |
| keypad (`emu/keypad.c`) | keys down, group, ON key | press, release, read | interrupts | ON-key interrupt | matrix reads |
| calculator, ROM, saved state (`emu/calcs.c`, `rom.c`, `state.c`) | the whole machine | new, copy, free, load, save | everything | rounding, old formats, cut-off files | load after save restores |
| certificates, checksum (`emu/cert.c`, `md5.c`) | none | fix certificate, hash | ROM | byte layout | result of the algorithm |
| disassembler (`db/`) | symbol tables | load, lookup, print, previous address | debugger | lines of many lengths, wrap-around | a line says what the processor does |
| debugger, memory windows (`gui/debugger.c`, `disasmview.c`, ...) | list of lines, widgets | pause, step, move, edit | emulator lock | page maps that change | shows the program, also after moves |
| screenshots, animations (`gui/animation.c`, `animatedgif.c`, `gifencod.c`) | frames with durations | append, advance, save | core thread | joining frames, code widths | plays back in the time it was recorded in |
| windows, settings, skins (`gui/emuwin.c`, ...) | widgets, settings file | - | - | none | - |
| Qt interface (`gui-qt/`) | a thread per calculator, link buffers | send, receive, forward | same core | threads, cross-calculator link | bytes in order, no buffer stays full |

## 2. Plan

Written, in this order:

1. `TaskService`, `EmuCore`, `EmuCoreProofs`: the two threads, which implement an
   abstract service of tasks.
2. `KeyQueue`: input and playback; `HostProofs` for it, for `QtLink` and for
   the audio output.
3. `TimerSet`, `Timers`, `TimersProofs`: the Z80 timers, which implement a set of timers
   without drift; `LinkedLists`, `TimerList`, `TimerListProofs`: the links of their lists.
4. `AudioOut`: the ring between three threads.
5. `LinkPort`, `QtLink`: bytes between calculators, on the wires and between threads.
6. `Flash`, `UserTimers`; `Breakpoints`, `BreakpointsProofs`. `LinkedListProofs` has the
   lemmas about lists in arrays that the proofs of timers and breakpoints share.
7. `Z80Alu`, `Z80`: the processor. `Paging`, `Hardware`, `RtClock`: the twelve models, whose
   clock implements an abstract one. `HardwareProofs`: for the models;
   `DeviceProofs`: for the Flash, the user timers and the link port.
8. `Lcd`, `ColorLcd`, `ColorFrame`, `LcdImage`, `GrayLcd`: displays.
9. `Disasm`, `DisasmView`; `SavedState`, `OldState`; `Animation`, `Gif`.

Left:

- proofs: the pending invariants of `GrayLcd` and of the files;
- a composition of `EmuCore` with `KeyQueue` and `Timers`, in which load_state frees
  the timers that others remember: so far each of the two findings about it
  (`keyqueue_load`, `audio_load`) has load_state as an action of its own module;
- certificates, the ROM's model, `md5.c`, the settings of the windows.

## 3. Modules

### EmuCore (`gui/emucore.c`, `gui/emulator.c`, parts of `macro.c`, `link.c`, `pbar.c`)

Two processes. `core` is the program counter of `tilem_em_main`, `gui` that of the
GUI thread, which runs one operation of `emulator.c` at a time (`act`, `after`,
`outer` remember what it does with the lock, what follows, and which operation
called `cancel_tasks`). A step of a thread is what it does between two points
at which the other can see it: `g_mutex_lock`, `g_mutex_unlock`, `g_cond_wait`.
`calc_lock_waiting` is the counter of `emulator.c:52`; the code increments it
after the lock has been taken, and so does the model.

| model | code |
|---|---|
| `tilem_calc_emulator_lock`, `tilem_calc_emulator_unlock` | the functions of that name, with the signal of `emulator.c:61` |
| `tilem_em_lock`, `tilem_em_unlock`, `tilem_em_check_yield` | the macros of `emucore.h` |
| `begin_task`, `pause`, `run`, `press_key`, `set_device`, `swap_calc`, `set_exiting` | what an operation of `emulator.c` does under the lock |
| `cancel_begin` ... `cancel_end` | `cancel_tasks` in `emucore.c`, before, between and after its waits |
| `run_task`, `task_unlock`, `task_return` | `run_task` and a task's `mainf`; `task_unlock` stands for every place where a task releases the lock |
| `em_run_io`, `em_run_abort`, `em_run_wait`, `em_run_z80` | the four ways through `tilem_em_run` |
| `report_idle` | `emucore.c:719-722` |
| `taskfinished` | the idle callbacks on the main loop |
| `spurious_wakeup` | `g_cond_wait`, which may return without a signal |

The calculator is reduced to which one it is (`calc`), whether a task runs it
outside the lock (`in_use`), whether it is powered off, and a parity that makes a
slice of Z80 time a visible step. What a task does is a budget of `em_run` calls
and unlocked stretches, after which it returns either status. The history
variables `fate` and `doomed` only record.

A running task may wait in `tilem_em_run` for two reasons. While the emulator is paused
nothing of its time passes. And a task of `Receives` (a link transfer, which calls
`tilem_em_get_byte`) lets a calculator that is off sleep, as the idle loop does: all other
calls of a task pass `keep_awake`. Such a wait counts as the whole slice (`*elapsed =
timeout`), but only once it has ended. So the timeout of `ilp_recv` does not
pass while the calculator stays off and nobody touches it: a transfer may wait for ever
(`StuckReceiving`), until a key, another operation or a cancellation wakes the core thread.
We met this while modelling; `TaskFinishes` excepts it, `WaitJustified` names it, and
`CancelReturns` holds in it too.

`TaskService` is the abstract specification: a queue of tasks with a status
each. A task is begun at the end, started from the head, returns, or is dropped;
each is then reported once, as finished or as cancelled. `ImplementsTaskService`
says that `EmuCore` implements it, with the status computed from where a task is.

### KeyQueue (`gui/event.c`, `gui/emulator.c`)

One action for each event handler and one for the playback callback
`tmr_key_queue`. A handler is one step: it changes the keypad and the queue
under the lock. `armed` says whether the calculator that is loaded has the timer
behind `key_queue_timer`; `load_state` replaces the calculator, and with it the
timers, so the two may differ. `typed` and `pressed` are histories. A host key is
bound to a sequence of scan codes; a sequence longer than one goes to the queue, a
single key to the keypad or, while the queue plays, to the queue.

### TimerSet, Timers, TimerList (`emu/z80.c`)

`Timers` has the two lists as sequences and everything that happens to them: the
five functions that hardware and GUI call (`Call`), the loop of `z80_execute`
(`begin_op`, `delay`, `stop`, `port_io`, `end_op`, `accept_interrupt`, `loop`,
`halt`), `check_timers` one timer at a time (`fire`, `callback_return`,
`check_done`), and the runs (`run_begin`, `run_end`). Since the code never looks at
the clock but only at differences modulo 2^32, the model keeps `left[t]`, the
difference between a timer's count and the clock modulo `W`. This is exact, and it
leaves no unbounded counter. `Slack` is the code's 10000.

`TimerSet` is the abstract specification: a set of timers, each due in an integer
number of clocks. A timer fires no earlier than it is due, before later ones of its
kind; it is set again one period after the moment it was due; and time never
passes a timer by `MaxLate`. `ImplementsTimerSet` maps `left` to a signed number.

`TimerList` models what `Timers` abstracts: the links of the array, the free list
and the growth of the array. A timer's count is only a rank, since nothing else
matters to the links.

One thing is left out that the code can reach: an instruction may have any number of
DD and FD prefixes, and from 2500 on it takes longer than the 10000 clocks that
`check_timers` allows a timer to be late. Such a timer counts as one that is due when
the clock has gone round. `TimerProportions` excludes it: `MaxOp < Slack`.

### AudioOut (`gui/audiodev.c`, `emu/audio.c`, parts of `gui/emucore.c`, `gui/emulator.c`)

The ring of chunks between the core thread, which fills them while the Z80 runs, and
SDL's thread, which copies them out in requests of any size, with a semaphore and one
flag a chunk between them. `core` and `io` are their program counters; a copy is a step
for each unit, then the chunk is marked free, then a permit is posted. The
GUI thread switches sound on and off, changes the options, pauses and loads a
calculator. The device's thread may die, whereupon `get_buffer` runs into its timeout.
What is written into a unit is the number of its chunk, so that `heard` can be compared
with what was meant. SDL, threads and the semaphore are external.

### LinkPort (`emu/link.c`, byte functions of `gui/emucore.c`, `gui/link.c`)

Two wires that either side can pull low. Each function of `link.c` is an operator from
the state of the port to the next: the link assist that moves bytes by itself, the GrayLink
that the program emulates for a cable to the computer, and the loop of `dbus_update`,
which lets the sides answer each other until nothing changes. The loop is a function of the
number of `turns`, up to `MaxTurns`; that it is over by then is proved (`LoopEnds`), so the
bound leaves nothing out. A calculator without an
assist moves each bit itself (`z80`, `bits`). `em_begin` ... `em_give_up` are
`tilem_em_send_byte` and `tilem_em_get_byte`, with their timeouts. `due` and `owed` are
the bytes under way. After an error or an interrupted byte (`disturbed`) nothing is
promised until a reset, and `MaxDisturbed` steps are allowed until then.

### QtLink (`gui-qt/calc.cpp`, `calclink.cpp`, `linkbuffer.h`, `connectionmanager.cpp`)

The thread of `Calc::run`, a `FileSender` and the GUI thread that forwards bytes between
calculators when the signal `bytesAvailable` is delivered, with the two `LinkBuffer`s
between them. The steps are the calls that take the buffer's mutex. Two ways to a dead end
are in the code and are excepted by `QtDrains`: a byte that the calculator has written is
only fetched while `m_input` is empty, and `m_input` is only sent while none is there;
and `m_link_lock` stays set when the byte that set it is thrown away by an error or a
reset.

### UserTimers (`emu/timers.c`) and Flash (`emu/flash.c`)

`UserTimers` is one of the three crystal timers above a Z80 timer: its three ports, and
what happens when it expires. It may be noticed late, and a program may read or write
any port before that.

`Flash` is the command machine: what follows which write, programming, erasing a sector
or the chip, fast mode, protection groups, resets, the delay timer, and a read while it
works. It has both modes of the emulator, with and without delays. An address is "AAA",
"555" or neither, which is all the commands distinguish, and a byte is its bit 7, which
is all that polling looks at. The log of the last five writes is a history.

### Breakpoints (`emu/z80.c`, `gui/debugger.c`, `gui/breakpoints.c`)

The array of breakpoints with its eleven doubly linked lists and the free list, the walk
of the core thread over one of them while functions of breakpoints remove and add
others, and those who set them: the debugger's list, with the window between removing and
setting in `change_breakpoint`; its step, which the GUI thread cancels while
`bptest_step_over` replaces it; the audio filter. Which addresses match is left
out: a walk may call any function. `WalkInList` states the one way in which a walk leaves
its list: behind a step-over that has replaced itself it goes on with the slot's new
successor. `ShapesOfDebugger` says of `DbShape` what the dialog makes: the types that
`get_core_bp_type` knows (`debugger.c:1309-1348`), of which `parse_input` lets no port be
executed (`gui/breakpoints.c:178-235`).

### Z80Alu, Z80 (`emu/z80cmds.h`, `z80main.h`, `z80cb.h`, `z80ed.h`, `z80ddfd.h`, `z80.c`)

`Z80Alu` is the arithmetic with its flags, on numbers of 8 and 16 bits. `Z80` is every
instruction as an operator from a state of the processor to the next, taken apart by the
fields of the opcode and not case by case; prefixes; the handling of undocumented
instructions; the loop of `z80_execute` with interrupts of the three modes, the delay of
EI, and HALT. Memory is flat. `MCZ80` has programs with what they are to compute:
arithmetic of signed, unsigned and decimal numbers, multiplication, block moves, calls,
indexed accesses; an interrupt comes anywhere in them, with a handler that exchanges
the registers. Each opcode is also executed once, for `Z80TypeOK`.
The clocks of an instruction are left out; while reading them we noticed that ADD A,(IX+d)
takes 7 in `z80ddfd.h`, where its neighbours take 15.

### Paging, Hardware, RtClock (`emu/x1` ... `emu/xc`)

`Paging` is the memory map of each of the twelve models, from the values of the
ports, with the translations between logical and physical addresses. `Hardware` has the
ports: interrupts with their masks, the delays, Flash unlocking by a sequence of
instructions, limits of execution, the clock, the link's registers, the light; what
reading or executing memory changes; the ON key, the periodic timers and reset.
Where models do the same there is one operator, mapped to one of them. `MCHardware` lists
purposes, each a few ports and values of one model that belong together.

`RtClock` is what the clock of a TI-84 Plus promises, with a time that goes on or stands
still; `ImplementsClock` shows that `Hardware` implements it with a difference to
the host's time.

Resets leave more than one might think, and `HardwareSound` and `PagingSound` say so: a TI-84
Plus keeps its protection override, and the TI-81, TI-82 and TI-83 keep their page maps until
the next write. The TI-81's 8 KB of RAM may be passed by a display whose address is near its end.

### Lcd, ColorLcd, ColorFrame, LcdImage, GrayLcd (`emu/lcd.c`, `xc/xc_lcd.c`, `grayimage.c`, `graylcd.c`)

The way of a dot to the window. `Lcd` is the T6A04 with columns of six or eight bits
that may lie across bytes, the movement of the address, its dummy read and its busy
delay. `ColorLcd` is the colour controller's bytes, words and window in all directions;
`ColorFrame` the base and partial images with scrolling, flipping and blank parts.
`LcdImage` draws a picture in another size, by the nearest dot or by area, and with the
contrast. `GrayLcd` samples a flickering dot, counts in a circular window and decides
whether the window has to be drawn again; the display is switched by a write that leaves
a stamp (`WriteDot`: the commands of a T6A04), or without one (`SwitchLcd`).

What is drawn is not what the comments say in some cases, which the properties leave
out. In `FrameRight`: the scroll offset is multiplied by three twice (comment at R6A), so
that the base image is right only where three times as far is the same place
(`ScrolledAsMeant`); rows are flipped only when the levels are inverted (comment at R60), and
at a wrong place when fewer than all columns are displayed. In `WindowCurrent`: a frame that
sees a write before a sample does keeps its stamp when the next one differs (`missed`; the
comment in `graylcd.c` around line 172 expects it not to); and a frame of a display that has
been switched since the last write keeps the stamp of that write (`switched`). The ports of
the TI-81, TI-85 and TI-86 (`x1_io.c:172`, `x5_io.c:125`, `x6_io.c:125`), a reset
(`lcd.c:67`), and a HALT with `poweronhalt` 0 or its end (`graylcd.c:164-169`) leave no
stamp, and `emulator.c:106` then draws nothing. The window is right again with the next
write, or when the core thread waits because it is paused or the calculator is off
(`update_screen_mono`).

### Disasm, DisasmView (`db/disasm.c`, `db/prevaddr.c`, `gui/disasmview.c`)

`Disasm` is the symbol tables with their binary searches and files, the tables of
instructions reduced to the arguments of each pattern, what a line shows of them, and the
search for the line above an address. `LinesRight` compares them with `Z80`: the processor
goes on at the next line or where the operand says, and takes its constants from where
the line does. Macros such as B_CALL differ from the processor on purpose.
`DisasmView` is the list in the debugger, its cursor, moves by lines, pages and bytes, the
switch between logical and physical addresses, and the icons of breakpoints.

Seen on the way: the search for the line above reads outside of its buffer when a line
goes over the end of the memory and round (`Stray`; the result is then arbitrary); targets
of relative jumps are printed unmasked there.

### SavedState, OldState (`emu/state.c`, load and revert in `gui/emulator.c`)

`SavedState` writes the lines of a saved calculator as names and values, may be
cut off after any of them or in the middle of a number, and reads them into a calculator
that was reset, with the widths that `strtol` and the variables have. `OldState` reads the
binary files of versions whose writer is no longer in the repository: their byte order
and what they have at the end are found out from the values.

What `StateRestored` leaves out, since the code does it: a timer with less than half
a microsecond left is saved as 0 and never runs again, a busy Flash then stays
busy; timers that a reset starts may run on; the battery and the power state survive
a reset. A file that is cut off behind the RAM is taken for a whole one; one that ends
in the number of `clockspeed` gives a speed of 0, by which the next save divides. An old
file of a TI-83 with a RAM page in the first bank does not tell the half of its ROM.

### Animation, Gif (`gui/animation.c`, `animatedgif.c`, `screenshot.c`, `gifencod.c`)

`Animation` records frames and joins equal ones, shows them in the dialog at a chosen
speed, and turns durations into delays of a GIF file. `Gif` is the compressor: a tree of
strings, codes of growing width, bytes, and blocks of 255. The reference is a decoder
written from what the format says.

Seen on the way, and excepted: delays of more than 2.55 seconds lose their high byte
(`write_extension_block`, whose comment says two bytes); an image whose last code
reaches two bytes past a block loses one (`gifencod.c:242-252`); a frame's 24-bit duration
wraps; loading a calculator cancels a recording.

### Composition

Parts that share no state are checked by one run: `MCDevices` (parts of the calculator),
`MCEmulator` (the processor, and what the emulator makes of a calculator: sound, displays,
disassembly, files) and `MCHost` (the user interfaces) have a variable `part`; a behaviour is one of one
part, and the others have no state or stay as they begin. TLC then visits the sum of their
states, and each action of each part is in the next-state relation. `MCZ80`, `MCHardware`,
`MCDisplays` and `MCDisasm` hold the instances of groups of parts. Where parts do share state the modules do:
`EmuCore` has the tasks of macros and link transfers, `KeyQueue`, `AudioOut` and
`Breakpoints` have load_state, `Hardware` uses `Paging`, `MCDisasm` uses `Z80`.

## 4. What is checked

| run | module | states | question |
|---|---|---|---|
| emucore_safety | MCEmuCore | 534,164 | all interleavings of two tasks, devices, both speed settings, pause, cancel, load_state, free, without deadlock; implements TaskService |
| emucore_live | MCEmuCore | 67,314 | lock granted, cancel returns, tasks end unless they wait for a calculator that is off, with the speed limit on |
| emucore_starve | MCEmuCore | violation | lock granted at full speed |
| emucore_macro | MCEmuCore | violation | cancel_tasks with a macro load |
| emucore_unlocked | MCEmuCore | violation | the lock and a macro playback |
| emucore_lostwake | MCEmuCore | violation | a task begun during device I/O |
| emulator | MCEmulator | 1,676,388 | audio: three threads over one ring (order, permits, who owns a chunk; get_buffer returns). Beside it the processor, displays, disassembly and files, each on its own |
| audio_load | AudioOut | violation | the filter after load_state |
| timers | MCTimers | 981,191 | the run loop and any two calls of the timer functions, in safety and refinement; a run returns |
| host | MCHost | 37,538 | keys: order, stuck keys, held keys, playback; Qt link: order, no buffer stays full |
| keyqueue_load | MCHost | violation | queued keys after load_state |
| devices | MCDevices | 486,853 | six parts of the calculator, each in all orders of its operations |

Properties of `devices`, and of the parts of `emulator` beside the audio, each stated by
the module of its part:

| property | part | says |
|---|---|---|
| `ListsSound` | TimerList | links in both directions agree, every timer in exactly one list or free, sorted |
| `LinkIntact`, `LinkSettled` | LinkPort | bytes arrive once, in order, unchanged, unless something failed; no call leaves a side that still has to answer |
| `FlashStatus`, `FlashErased` | Flash | the status tells the truth and a busy chip gets ready; erasing takes all six writes |
| `UserReload` | UserTimers | what a timer does when it expires is what its ports say |
| `BpSound` | Breakpoints | lists linked, every breakpoint known to who set it, walks stay in their list |
| `Z80Sound` | Z80 | programs compute what they mean wherever interrupted; interrupts do not pile up |
| `ModelsSound` | Hardware | the program sees the pages its ports choose, and the debugger sees the same; masks, delays, limits and timers are what the ports say |
| `UnlockEarned`, `ImplementsClock` | Hardware | Flash unlocked only by the sequence; the clock is one |
| `ShownRight` | displays, Disasm | the picture is what was drawn; lines are what the processor does |
| `FilesSound` | files | what is read is what was written; recordings play back in time; the GIF decodes to the image |

### Bounds

*EmuCore.* Two tasks are enough for a queue with something behind the running
task, which is what cancellation and a failing task act on; `t1` is a link transfer, which
receives, and `t2` a macro, which runs the calculator unlocked. `MaxCalc = 2` lets load_state replace the calculator
once, with a task on either. `Budget = 2` allows two unlocked stretches or em_run
calls in a task (1 in the liveness runs, where each only adds another round).
The GUI may press, pause and cancel without bound.

*AudioOut.* Three chunks, of which two are filled before the device starts, and two
units each: the ring goes round, a request ends within a chunk or at its end,
and either side can be a whole ring ahead. `MaxChunks = 4` chunks are written from one
opening of the device to the next.

*KeyQueue.* Two keys and three bindings (a single key, a sequence that contains
the same key, a single key that begins it) make every collision possible; five
typed keys are two sequences and a key, so that a sequence is begun while another
is played; two loads.

*QtLink.* A circular part of one byte (`Cap`) makes a buffer of two bytes one that has
overflowed into the rest; two bytes in `m_input` from two senders, two written.

*Timers.* `W = 24` and `Slack = 4` keep the proportions that matter: `Slack`
exceeds an instruction (2) and the acceptance of an interrupt (2) less one, and
the longest wait (3 at the highest speed, 5) is less than `W - Slack`. Three timers
are the hardware's, that of the run and one more, added by a call; a call leaves a
timer for the run, since the code never lacks one. `MaxCalls = 2` calls of any
kind, anywhere. Without the calls the run loop is unbounded: the clock
goes round many times. Symmetry is not used: timers are numbers, and new ones
are allocated by CHOOSE.

*Devices.* TimerList: the array grows to 4 (`MaxTimers = 6` excludes the next size, 10),
and two ranks give earlier, equal and later. LinkPort: bytes of two bits, all four of
them; its proofs are for any number. Flash: two addresses, one in a protected sector.
UserTimers: a counter of four steps, noticed up to one clock late. Breakpoints: two of the
debugger's, which it has no order of (symmetry), and `MaxSlots = 5`, one growth of the array.
Hardware: the values in `MCHardware`,
among them the ends of each port's range; addresses at the ends of the quarters of memory
and of what ports 27 and 28 lay over them.

*Emulator.* The audio as above. Z80: the programs of `MCZ80`. Displays: rows of 4 bytes, which hold a column of
six bits in all its positions; 3 accesses; windows of the colour memory of 3 by 2; a
sampling window of two frames, which a third one goes past, with two writes and two
switches without a write (off and on again) anywhere; the base image at four offsets, of
which two are displayed as meant, one of them around the end of the memory. Disassembler: memories of 20 bytes in five
banks, every opcode, and sequences of the bytes that differ most in length; `Window` and
`RewindLimit` keep their proportion. SavedState: values of 12 bits for 32, two
calculators with most and fewest parts; `MaxRuns = 2`. OldState: the page maps of every
model. Animation: two pictures, three contrasts, three updates. Gif: two-bit pixels, codes
below 16, blocks of 8 bytes: images of up to 30 pixels fill the table and several blocks.

### Fairness

*EmuCore.* Weak fairness for the steps of a thread that holds the lock or needs
none: threads are scheduled. Strong fairness for taking the mutex: it may be free
only for moments, and a mutex that is free again and again is assumed to be
granted in the end (GLib promises no more and no less; without it no program that
shares a lock makes progress). Strong fairness for the idle callbacks, which the main
loop dispatches between operations. No fairness for the user.
`Fairness` and the budget assume that a task that is not kept waiting ends, which is what
`mainf`'s own timeouts are for (they do not pass in `StuckReceiving`, nor while the emulator
is paused); and, in `emucore_live`, that the speed limit is on: then the core thread
sleeps outside the lock in every slice. `emucore_starve` shows what happens
without it.

*AudioOut.* Weak fairness for SDL's thread, which asks for data again and again while it
lives and plays, and for the core thread, whose timeout passes when the other has died.

*KeyQueue.* Weak fairness for the playback timer: it is set while the queue is
played and the calculator is kept awake by `key_queue_timer` (`calc_asleep`).

*QtLink.* Weak fairness for the loop of `Calc::run`; strong fairness for the program on
the calculator taking the byte that is on the wires, since `QtDrains` is about one that
listens.

*Timers.* Weak fairness for the core: the Z80 goes on. Calls have none.

## 5. What is proved

All proofs are for any number of tasks, chunks, keys, bindings, timers, addresses and
sectors, breakpoints, bits in a byte, under the assumptions named in the module that declares the constants.

*EmuCoreProofs.* `TypeCorrect`, `NoWaiterSeen`, `NoWaitForEachOther` hold under
`ConstantsOK` alone, so for any tasks that receive. `NoWaitForEachOther` allows a task the
wait of a receive for a calculator that is off, the one that it begins without being paused,
and says that no cancellation is then under way. `CancelComplete` and `NeverFreedUnderTask`
also assume that no finished function begins a task (`NoChains`), without which they are
false (`emucore_macro`). None of these invariants is inductive: that the core
thread waits justly depends on who holds the lock and on which side of
`cancel_tasks` the GUI thread is. The inductive invariant adds to the types which
program counters hold the mutex (`LockInv`), that
the counter is one exactly while the GUI thread is between lock and unlock, which
task state goes with which program counter of the core thread, and what
`cancel_tasks` has established at each of its points. There is one step per
action of `Next`. `TaskServiceImplemented` is the refinement: `TaskInv` adds to the
invariant how the queue, the task in hand and the finished callbacks make up the tasks of
the service, each in one place, and every action then is a step of `TaskService` or leaves
its variables alone. It assumes that no task is begun by two others: every begin of the code
makes a task of its own.

*HostProofs.* The two parts of `MCHost`, whose steps are those of one or the other.
`KInv` is the types, the order of the queue, that no key is stuck, and `OwnerInv`: whenever
a key is to be held at the end of the playback, the window remembers the host key of the
sequence. `OwnerInv` is the strengthening: `HeldKeyHasOwner` speaks only of the moment
after the playback. The order of the queue rests on lemmas about `Reverse`, since the code
keeps the queue in reverse and prepends each new sequence. `OneAtATime` is an action
property, proved from the types. `QtDeliversInOrder` is that the bytes a sender still owes
are the one under way followed by the receiver's `m_input`; `QtInv` adds the
types, which say where the buffers overflow.

For the audio output: `AudioTypes`, `AudioPermits`, `AudioFilter` and `AudioOrder`. `AInv` adds
to the four properties where each thread may be with and without a device (`PlaceInv`), that
a chunk is filled exactly if its turn is between the device and the filter, counted
modulo the ring (`RingInv`, `Ahead`), and how far the chunk in hand is filled
(`FillInv`). The order rests on `PermitsCounted`: the chunk that the core thread gets is not
one that the device has still to play. Closing the device while it copies keeps the
invariant since nothing is heard of a closed device.

*TimersProofs.* `TimerTypes`, `InOneList` and `RunHasTimer` hold under
`TimerConstants` alone, so also for clocks and instructions for which
`NoneForgotten` fails. The invariant `TInv` is `TypeOK`, `OneListEach` and
`RunInv`, which adds to `RunTimerSet` that a run's timer is in use and that there is one
except between runs. The argument goes by sets: `InsertKeepsSet` and `UnsetLists` say
that the two list functions add and take out one timer and repeat none, wherever it
goes; `SetKeepsLists`, `AddKeeps`, `RemoveKeeps`, `AdvanceKeeps` and `SpeedKeeps` lift this to
each kind of change; `TInvStep` has a case for each action. That `timer_insert` finds a
place needs a least element, which `LeastNat` takes from the well-foundedness of
`<`.

`TimersStayInOrder`, `RunsEndInTime` and `TimerSetImplemented` also assume
`TimerProportions`: an instruction takes fewer than `Slack` clocks, and the clocks of every
count and period, at every speed, stay `Slack` below `W`. In the code they do: the
longest time is the 32 seconds of a user timer, at no more than 15 MHz 480 million clocks, and
`W` is 2^32. Without it the
statements are false, since a remainder then no longer says which side of the clock a timer
is on. `Sign` is the distance that a remainder stands for and `Fit` the distances that can
be told apart; `SignIs`, `LeftIs` and `LeftLess` are the arithmetic of both, and `EarlierIs`
says that among them `timer_earlier` compares distances. `InsertKeepsOrder` and
`OrderOfRest` then are about sorted lists. The invariant `OInv` says of each list that it is
sorted and that no timer is farther ahead than its clock speed allows (`Bounded`), and by
where `z80_execute` stands how late a timer (`Latest`) and a run's own timer (`RunLatest`)
can be: not at all between two instructions, by the clocks so far in one, by a whole
instruction while the timers are checked after it. `Bounded` counts real time in whole units
of `Khz` and one more, because this bound, unlike the count itself, survives the rounding of
any number of changes of speed (`ScaledWithin`). The refinement has a lemma for each
kind of change (`SetImplements` ... `SpeedImplements`): a step of the loop is a step of
`TimerSet` or leaves it alone.

*TimerListProofs.* `ListsStaySound` for any number of timers and any size of the array.
The invariant `LInv` says that there are three sequences of timers (the two lists and the
free ones) that the links `next` run through and the links `prev` run back through, that no
timer is twice in them, and that the two lists are sorted. The model's own view of a list
follows the links a step at a time (`Walk` of `LinkedLists`): `WalkIs` of *LinkedListProofs*
shows that it finds such a sequence, and `BeforeIs` that the place where `timer_insert`
stops is the one the sequence gives. Both are induction on the length, over a set of numbers
(`Induction`), which needs no operator parameter. What an element put before a list or taken
out of it does to the links (`PushRuns`, `DropRuns`, `PushBack`, `DropBack`) is in
*LinkedListProofs* too, for breakpoints as well as timers.
`InsertKeeps`, `UnsetKeeps`, `AllocKeeps`, `FreeKeeps` and `GrowKeeps` each
name the sequences after one function of the list; the actions combine them.

*BreakpointsProofs.* `BpStaysSound` for an array of any size, any breakpoints of the debugger
and any order of the core thread, the debugger and the audio filter, under
`ShapesOfDebugger`. The invariant has three parts. `Listed`: a sequence for each type runs
along the links in both directions and has exactly the slots of that type, so none is in two
lists or in a circle (`TakeThreads`, `GrowThreads` and the lemmas about `bp_rem` keep it).
`Owned`: who knows which breakpoint. Nobody knows one that is free, no two know the same
one, and each that is set is known to someone, so that a removal never takes another's. It
does not hold of the variables as they are: between `cancel_remove` and `cancel_clear`
`step_bp` names a breakpoint that is gone, and after load_state so does everything the
debugger knows until it notices. There `StepId` and `Ids` count it as knowing none.
`AtInv`: where a walk stands. It is in its list, or, if a step-over has replaced itself, in
the list that the step breakpoint moved to, which holds as long as `StepId` is that
breakpoint: a walk has the lock, and the sections without it (`cancel_test`,
`cancel_clear`, the debugger's notice of a new calculator) change neither (`GuiFrame`).
The functions of the core thread and the sections of the debugger each have a lemma that
says what they do to `Owned`; `BpKept` has a case for each action.

*HardwareProofs.* For the twelve models: the pages that are mapped exist
(`PagesStayInMemory`), the Flash gets unlocked only by the whole sequence
(`UnlockIsEarned`), an interrupt is pending only if its source is enabled
(`OnlyEnabledPend`), and what a busy screen or a light that is to go out waits for stays set
(`TimersStaySet`). `HwInv` adds to
them what `Sound` says of every board of a model: its registers' names, that they are
numbers, in which range the bank registers are, and that the bytes seen so far of the
unlock sequence are those that `PROTECTSTATE` counts. It assumes of the constants that
what is written to a port is a byte (`UsesOfModels`), and of `HardwareConstants` that the
addresses looked at are in memory and a digit of the clock has values. There is one lemma
per port handler, and one per kind of change (`BankKeeps`, `MaskKeeps`, ...) that they cite.

The clock of the TI-84 Plus models implements `RtClock` (`ClockImplemented`), for digits of any
base. `ClockInv` adds to `HwInv` that the registers of the clock are in range (`InTime`), without
which a clock that stands still would not show its difference, nor a loaded one its
input. `ShownIs` says that what the four ports show are the digits of the time (`BytesAre`), `InputFits` that replacing one digit of
the input stays in range, `ControlShows` and `SecondShows` what an order and a second do to
the time shown; every other handler keeps the three registers (`Clocks`).

What is computed from ports and kept is what the ports say (`ModelsAreSound`, from
`PagingIsSound` and `HardwareIsSound`). The invariant `KeptInv` is `HwInv` and `Kept`: the map is that of the bank registers
(or, in three models, that of the reset), the delays are those of the ports they are made of,
and so are the limits of RAM and the groups of Flash that may be changed. A handler that
writes nothing that they are made of (`Loose`) leaves them right (`Leaves`, `LooseKept`); one that
writes some of it makes the rest anew, and there is one lemma for each port that does. A reset
makes them from nothing: in the older models by following which registers it has changed
(`Changed`, `Measured`), from the TI-83 Plus SE on from the values that it sets (`Fresh`). The debugger's
translation is compared with the program's quarter by quarter (`Seen`, `OverlaidIs`, `BackSeen`):
what ports 27 and 28 lay over RAM is less than a quarter of memory, so that neither
reaches into the other's, and whatever quarter the way back chooses shows the same page.

*DeviceProofs.* For the Flash, `FlashStatusRight` and `FlashErases`. `Begun` is the strengthening: where the
chip is in a sequence, the log of writes says how it came there. With it a write that
erases (`Erases`) or programs (`Programs`) follows the whole sequence. `Asked` relates what
was asked to what the chip last programmed, from which polling is right.

For the user timers, `UserReloads` and `UserInterrupts`, from their conjunction with the
types, which is inductive. `Durations` and `ProductPositive` are the arithmetic: products
are beyond the linear arithmetic of the provers.

For the link port, with bytes of any number of bits: `BytesIntact`, `WiresSettle`,
`LinkTypes` and `LoopEnds`. The invariant `LInv` says that between two calls, until
something fails, the port rests (`Resting`), or one byte is coming to the calculator
(`Coming`), or one is going from it (`Going`). Of a byte under way `k` bits have been shown.
The handshake (`Shake`) allows four states of the two pairs of wires for that `k`, and they say
whether the receiver has all `k` bits or one fewer (`Taken`); the bits that the sender still
has and those that the receiver has are then the two parts of the byte. A turn of the loop
may move a byte on by several of these states, and each part of a turn (`gray_turn`,
`assist_turn`) keeps the invariant: `GrayTurnKeeps`, `AssistTurnKeeps`, whence `UpdateKeeps`
by induction on the number of turns. There is one lemma for each action (`ReadHolds` ...
`CableHolds`) about what it does to the registers before the wires are looked at. That the loop
ends follows from a rank (`Left`: twice the bits still to be shown, and what the assist owes
to a wire) that every turn that moves a wire lowers (`LessLeft`). That it leaves the wires
settled follows from its last turn, which has moved nothing: then neither side has anything to
answer (`GrayRests`, `AssistRests`), and a call that looks again finds the same
(`UpdateStays`). After a failure the invariant keeps the types and that no register overflows,
which is all that `LoopEnds` needs.

*Only checked.* Liveness (proofs of it need ENABLED). `Z80`, `ColorLcd` and `LcdImage`,
which are recursive. The other displays, the
disassembler and the files, where the value lies in comparing data with a reference.

## 6. What the models found

By a run whose counterexample contradicts the source's own words:

1. **The yield protocol never yields** (`emucore_starve`). `calc_lock_waiting` is
   incremented after `g_mutex_lock` returns (`emulator.c:52-53`), so the core thread never
   sees a non-zero counter while it holds the mutex; `NoWaiterSeen` proves it for any
   tasks. The comment above says the counter is there to ask the core thread to yield.
   At full speed the GUI thread depends on the mutex being handed over by chance. The branch
   of `tilem_em_check_yield` that yields is thereby dead.
2. **Cancelling a macro load begins the playback** (`emucore_macro`):
   `tilem_macro_load_finished` ignores `cancelled` (`macro.c:260`).
3. **A macro runs the calculator without the lock** (`emucore_unlocked`,
   `macro.c:183-185`), against what the lock is documented to give.
4. **A task begun during device I/O may not wake the core thread**
   (`emucore_lostwake`): the signal is sent while the core thread is in I/O inside
   `tilem_em_run`, which then waits without looking at the queue again.
5. **Loading a calculator stops the key queue** (`keyqueue_load`):
   `key_queue_timer` still names a timer of the old calculator, so no new one is added.
6. **Loading a calculator silences it** (`audio_load`): the filter is freed, the device
   stays open, and only opening a device makes a filter.

What else differs from a comment or from what one would expect is excepted in a property,
and named in section 3 at its module: dead ends of the Qt link, prefixes, step-over in a
walk, resets, a transfer from a calculator that is off, the colour display, gray levels and
displays switched without a write, saved timers and files that are cut off,
delays and last bytes of GIF files.

## 7. What is not modelled

- Certificates and checksums (`cert.c`, `md5.c`), the model of a ROM (`rom.c`), the state-loaded
  hooks: sequential functions over byte arrays that keep nothing.
- The clocks of instructions; the filter's arithmetic (`audio.c`), palettes, gamma and
  dithering; the text of a line of disassembly.
- Windows, dialogs, menus, settings, skins, file selection, the views of memory, stack and
  registers: no state that another part depends on, other than through the operations
  modelled in `EmuCore`, `KeyQueue` and `Breakpoints`.
- Libraries (GTK, GLib, SDL, Qt, libticables, libticalcs): external; mutexes, conditions,
  semaphores, signals and idle callbacks are modelled by how the code uses them.
- Parts of the modelled files: the pacing arithmetic of `tilem_em_run`, recording of macros,
  keys held down with the middle mouse button, drag and drop, the row scan of the keypad.
- Timer ids that are out of range: no caller passes one.

Hazards without a property, in addition to those that `PROJECT.json` lists: option
strings freed by `set_audio_options` while `device_open` uses them outside the lock; a Qt
file queued while the sender's thread is about to end; an error in fast mode that the Flash
chip's next state overwrites; `set_breakpoint_type`, by which only the Qt program
moves a breakpoint to another list with the `prev` it had; a program that
reads the four bytes of the clock while a second passes; `PC` used
unmasked in `check_mem_breakpoints` (`z80.c:940`); the fast path of
`tilem_draw_lcd_image_indexed`, which ignores `rowstride`; gray counters of 16 bits while
the display is off for a long time.
