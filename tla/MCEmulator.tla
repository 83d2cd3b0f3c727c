----------------------------- MODULE MCEmulator -----------------------------
(***************************************************************************)
(* Small instances of the emulated processor, and of what the emulator     *)
(* makes of a calculator: its sound, its displays, the debugger's listing  *)
(* of its program, and the files that it writes and reads, which share no  *)
(* state. A behaviour is one of one part; the others stay as they begin,   *)
(* so that TLC visits the sum of their states and not the product.         *)
(***************************************************************************)
EXTENDS AudioOut, MCDisplays, MCDisasm, SavedState, OldState, Animation, Gif

-----------------------------------------------------------------------------
(***************************************************************************)
(* The files that the program writes and reads: saved calculators, new and *)
(* old, and recordings of the screen. A behaviour is one of one of them.   *)
(***************************************************************************)
Hws ==
  {[model |-> "ti84pse", flags |-> {"t6a04", "link", "assist", "flash", "md5"},
    usertimers |-> 3, hwregs |-> <<"port20">>, names |-> {"int1", "flashdelay", "user1"},
    cputimers |-> {"user1"}, timers |-> [int1 |-> [left |-> 16, period |-> 20, rt |-> TRUE]],
    speed |-> 6, lcdmem |-> TRUE],
   [model |-> "ti85", flags |-> {"link"}, usertimers |-> 0, hwregs |-> <<"port5", "port6">>,
    names |-> {"int1", "lcddelay"}, cputimers |-> {"user1"},
    timers |-> [int1 |-> [left |-> 16, period |-> 20, rt |-> TRUE]], speed |-> 6,
    lcdmem |-> FALSE]}

\* Calculators that old versions have saved, of every model: a few pages in each bank,
\* and registers of which some use the lower and some the upper half of their bytes
Reg(k) ==
  [i \in 1..19 |-> CASE i \in {13, 14} -> k % 2 [] i = 15 -> 0 [] i = 19 -> 128 * (k % 2)
                     [] i \in 16..18 -> (i * k) % 256 [] OTHER -> (i * k * 64) % 65536]
PortsSet(m) ==
  {[a |-> a, b |-> b, paired |-> p, bank |-> k] :
   a \in {3, 67, 130, 193}, b \in {0, 5, 65, 131},
   p \in (IF m \in Flashed THEN BOOLEAN ELSE {FALSE}),
   k \in (IF m = "ti83" THEN {0, 8} ELSE {0})}
OldCalc(m, p, k) ==
  [model |-> m, ports |-> p, regs |-> Reg(k), ram |-> <<1, 2>>, lcd |-> <<0, 1, 2>>,
   rest |-> <<1, 2, 3, 4, 5, 6, 7, 8>>]
Originals ==
  UNION {{OldCalc(m, p, 1001) : p \in PortsSet(m)}
           \cup {OldCalc(m, [a |-> 3, b |-> 5, paired |-> FALSE, bank |-> 0], k) :
                 k \in {0, 1, 1024}} : m \in DOMAIN Model}

\* Half as fast, and twice
Speeds == {[num |-> 1, den |-> 2], [num |-> 2, den |-> 1]}

\* Up to four pixels, over and over: what fills the table again and again
Cycled(w, n) == [i \in 1..n |-> w[((i - 1) % Len(w)) + 1]]
Rasters == {Cycled(w, n) : w \in UNION {[1..k -> {0, 1, 3}] : k \in 1..4}, n \in 1..30}

VARIABLE file  \* the kind of file

filesVars == <<stateVars, oldVars, animVars, gifVars, file>>

OtherFiles ==
  /\ file # "saved" => UNCHANGED stateVars
  /\ file # "old" => UNCHANGED oldVars
  /\ file # "animation" => UNCHANGED animVars
  /\ file # "gif" => UNCHANGED gifVars

\* Those that are not at work have no state
FilesAnyInit ==
  /\ IF file = "saved" THEN StateInit
     ELSE /\ machine = <<>> /\ savfile = <<>> /\ kept = <<>> /\ loaded = <<>>
          /\ runs = <<>>
  /\ IF file = "old" THEN OldInit
     ELSE /\ original = <<>> /\ oldfile = <<>> /\ fresh = <<>> /\ outcome = <<>>
  /\ IF file = "animation" THEN AnimationInit
     ELSE /\ screen = <<>> /\ emu_buffer = <<>> /\ anim = <<>> /\ shown = <<>>
          /\ iter = <<>> /\ gif = <<>> /\ seen = <<>> /\ looked = <<>> /\ made = <<>>
          /\ recording = <<>>
  /\ IF file = "gif" THEN GifInit
     ELSE /\ raster = <<>> /\ blocks = <<>>

FilesInit == file \in {"saved", "old", "animation", "gif"} /\ FilesAnyInit
FilesIdle == file = "none" /\ FilesAnyInit

FilesNext ==
  /\ UNCHANGED file /\ OtherFiles
  /\ \/ file = "saved" /\ StateNext
     \/ file = "old" /\ OldNext
     \/ file = "animation" /\ AnimationNext
     \/ file = "gif" /\ GifNext

-----------------------------------------------------------------------------
VARIABLE part  \* the part that is at work

emulatorVars == <<audioVars, cpuVars, displayVars, disasmVars, filesVars, part>>

Others(p) ==
  /\ p # "audio" => UNCHANGED audioVars
  /\ p # "z80" => UNCHANGED cpuVars
  /\ p # "display" => UNCHANGED displayVars
  /\ p # "disasm" => UNCHANGED disasmVars
  /\ p # "files" => UNCHANGED filesVars

\* Parts that are not at work begin in one way only, or have no state
EmulatorInit ==
  /\ part \in {"audio", "z80", "display", "disasm", "files"}
  /\ AudioInit /\ (part # "audio" => enable_audio /\ ~ext_cable)
  /\ IF part = "z80" THEN Z80Init ELSE ints = <<>> /\ program = <<>> /\ cpu = <<>>
  /\ IF part = "display" THEN DisplayInit ELSE DisplayIdle
  /\ IF part = "disasm" THEN DisassemblerInit ELSE DisassemblerIdle
  /\ IF part = "files" THEN FilesInit ELSE FilesIdle

EmulatorNext ==
  /\ UNCHANGED part /\ Others(part)
  /\ \/ part = "audio" /\ AudioNext
     \/ part = "z80" /\ Z80Next
     \/ part = "display" /\ DisplayNext
     \/ part = "disasm" /\ DisassemblerNext
     \/ part = "files" /\ FilesNext

EmulatorFairSpec ==
  /\ EmulatorInit /\ [][EmulatorNext]_emulatorVars
  /\ WF_audioVars(part = "audio" /\ DeviceStep)
  /\ WF_audioVars(part = "audio" /\ WaitStep)

\* What a program of the Z80 should compute is computed, and no interrupt disturbs it.
Z80Sound == part = "z80" => Z80TypeOK /\ ProgramsRight /\ HandlersNotNested

(***************************************************************************)
(* What the user is shown is right: the display, in each of the stages on  *)
(* its way to the window, and in the debugger the program.                 *)
(***************************************************************************)
ShownRight ==
  /\ part = "display" => DisplayTypeOK /\ DisplaysSound
  /\ part = "disasm" => DisassemblerTypeOK /\ DisassemblerRight

(***************************************************************************)
(* What is read is what was written: the state of a calculator, be it of   *)
(* another version or on another machine; the pictures of a recording and  *)
(* their times, in the preview and in the GIF file; and the image in it.   *)
(***************************************************************************)
FilesSound ==
  CASE file = "saved" -> StateTypeOK /\ SavedSound
    [] file = "old" -> OldTypeOK /\ OldRestored
    [] file = "animation" -> AnimationTypeOK /\ AnimationSound
    [] file = "gif" -> GifTypeOK /\ GifSound
    [] OTHER -> TRUE
=============================================================================
