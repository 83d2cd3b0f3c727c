------------------------------- MODULE EmuCore -------------------------------
(***************************************************************************)
(* The two threads of the GTK program and what they share: the emulator    *)
(* lock (calc_mutex, calc_lock_waiting, calc_wakeup_cond), the task queue   *)
(* with its cancellation (task_queue, task_busy, task_abort,                *)
(* task_finished_cond), the pause and exit flags, and the calculator that   *)
(* load_state replaces.                                                     *)
(*                                                                         *)
(* The core thread is tilem_em_main (gui/emucore.c).  The GUI thread is the *)
(* GTK main loop: it runs one operation of gui/emulator.c at a time and the *)
(* task-finished callbacks the core thread leaves in the idle queue.        *)
(*                                                                         *)
(* A step is what a thread does between two points where the other one can  *)
(* observe it: taking the mutex, giving it up, waiting on a condition.      *)
(* External link cables and audio devices are reduced to one flag, device:  *)
(* while it is set, tilem_em_run may give up the mutex around device I/O.   *)
(***************************************************************************)
EXTENDS Naturals, Sequences, FiniteSets

CONSTANTS
  Task,            \* the tasks the user and the callbacks ever begin
  NoTask,          \* "no task"
  Successor,       \* Successor[t]: the task that finishedf of t begins
  ChainsOnCancel,  \* the tasks whose finishedf does so even when cancelled
  RunsUnlocked,    \* the tasks that run the calculator without the mutex
  Receives,        \* the tasks that wait for bytes from the calculator
  Budget,          \* bound: em_run calls and unlocked sections of a task
  MaxCalc,         \* bound: calculators ever loaded
  LimitChoices,    \* the speed-limit settings the user chooses from
  DeviceChoices    \* whether the user attaches a device

\* Every call of tilem_calc_emulator_begin makes a task of its own, so no task
\* succeeds two others.
ASSUME ConstantsOK ==
  /\ NoTask \notin Task
  /\ Successor \in [Task -> Task \cup {NoTask}]
  /\ \A t, u \in Task : Successor[t] = Successor[u] => t = u \/ Successor[t] = NoTask
  /\ ChainsOnCancel \subseteq Task
  /\ RunsUnlocked \subseteq Task
  /\ Receives \subseteq Task
  /\ Budget \in Nat
  /\ MaxCalc \in Nat \ {0}
  /\ LimitChoices \subseteq BOOLEAN
  /\ DeviceChoices \subseteq BOOLEAN

VARIABLES
  calc_mutex,        \* who holds the emulator lock
  calc_lock_waiting, \* the atomic counter that check_yield reads
  core,              \* where the core thread is
  gui,               \* where the GUI thread is
  act,               \* what the GUI thread does once it has the lock
  arg,               \* the task it then begins
  after,             \* where it continues after unlocking
  outer,             \* the operation whose cancel_tasks is under way
  task_queue, task_busy, task_abort,
  old_queue,         \* cancel_tasks' local oldqueue
  cur,               \* the task the core thread runs
  budget,            \* what is left of that task's work
  idle_queue,        \* taskfinished callbacks waiting for the GTK main loop
  fate,              \* history: what has become of each task
  doomed,            \* history: the tasks cancelled while still queued
  paused, exiting, limit_speed, device,
  asleep,            \* calc_asleep(emu): the CPU is powered off
  clock,             \* parity of the slices of Z80 time run so far
  calc,              \* which calculator emu->calc points to
  in_use             \* the calculator an unlocked task section runs, or 0

lockVars == <<calc_mutex, calc_lock_waiting>>
guiVars  == <<gui, act, arg, after, outer, old_queue>>
taskVars == <<task_queue, task_busy, task_abort, cur, budget, idle_queue>>
history  == <<fate, doomed>>
flags    == <<paused, exiting, limit_speed, device>>
z80Vars  == <<asleep, clock, calc, in_use>>
vars == <<lockVars, core, guiVars, taskVars, history, flags, z80Vars>>

Elements(s) == {s[i] : i \in DOMAIN s}
\* The callbacks run_task leaves for the tasks it drops
Cancelled(s) == [i \in DOMAIN s |-> [task |-> s[i], cancelled |-> TRUE]]
Roots == {t \in Task : \A u \in Task : Successor[u] # t}

CoreFree == {"None", "Start", "Waiting", "Woken", "Sleep", "Io", "Out", "Done"}
CoreBusy == {"Loop", "Task", "Run"}
GuiHeld  == {"Locked", "RawHeld"}
GuiFree  == {"Idle", "Lock", "Drain", "RawLock", "WaitFinished",
             "FinishedWoken", "Loading", "Join", "Done"}
Acts     == {"begin", "pause", "run", "press", "device", "abort", "swap", "exit"}

ThreadTypes ==
  /\ calc_mutex \in {"none", "gui", "core"}
  /\ calc_lock_waiting \in {0, 1}
  /\ core \in CoreFree \cup CoreBusy
  /\ gui \in GuiFree \cup GuiHeld
  /\ act \in Acts
  /\ arg \in Task \cup {NoTask}
  /\ after \in {"Idle", "Drain", "Loading", "Join"}
  /\ outer \in {"none", "cancel", "load", "free"}

TaskTypes ==
  /\ task_queue \in Seq(Task) /\ old_queue \in Seq(Task)
  /\ idle_queue \in Seq([task : Task, cancelled : BOOLEAN])
  /\ task_busy \in BOOLEAN /\ task_abort \in BOOLEAN
  /\ cur \in Task \cup {NoTask}
  /\ budget \in 0..Budget
  /\ fate \in [Task -> {"none", "begun", "finished", "cancelled"}]
  /\ doomed \subseteq Task

CalcTypes ==
  /\ paused \in BOOLEAN /\ exiting \in BOOLEAN
  /\ limit_speed \in BOOLEAN /\ device \in BOOLEAN
  /\ asleep \in BOOLEAN /\ clock \in {0, 1}
  /\ calc \in 1..MaxCalc /\ in_use \in 0..MaxCalc

TypeOK == ThreadTypes /\ TaskTypes /\ CalcTypes

\* tilem_calc_emulator_new, and a first calculator loaded before the window
\* opens; the core thread does not exist before the first "run".
Init ==
  /\ calc_mutex = "none" /\ calc_lock_waiting = 0
  /\ core = "None" /\ gui = "Idle"
  /\ act = "run" /\ arg = NoTask /\ after = "Idle" /\ outer = "none"
  /\ task_queue = <<>> /\ old_queue = <<>> /\ idle_queue = <<>>
  /\ task_busy = FALSE /\ task_abort = FALSE /\ cur = NoTask /\ budget = 0
  /\ fate = [t \in Task |-> "none"] /\ doomed = {}
  /\ paused = FALSE /\ exiting = FALSE
  /\ limit_speed \in LimitChoices /\ device = FALSE
  /\ asleep \in BOOLEAN /\ clock = 0 /\ calc = 1 /\ in_use = 0

-----------------------------------------------------------------------------
(* The emulator lock as the GUI thread uses it *)

\* tilem_calc_emulator_lock: the counter is incremented once the mutex is held
tilem_calc_emulator_lock ==
  /\ gui = "Lock" /\ calc_mutex = "none"
  /\ calc_mutex' = "gui"
  /\ calc_lock_waiting' = calc_lock_waiting + 1
  /\ gui' = "Locked"
  /\ UNCHANGED <<core, act, arg, after, outer, old_queue, taskVars, history,
                 flags, z80Vars>>

\* g_cond_signal or g_cond_broadcast on calc_wakeup_cond: only the core thread
\* ever waits there
Signalled == IF core = "Waiting" THEN "Woken" ELSE core

\* Mutants: the counter is not decremented; the condition is not signalled
Mut_unlock_no_decrement ==
  /\ calc_lock_waiting' = calc_lock_waiting
  /\ core' = Signalled /\ calc_mutex' = "none"
Mut_unlock_no_signal ==
  /\ calc_lock_waiting' = calc_lock_waiting - 1
  /\ core' = core /\ calc_mutex' = "none"

\* tilem_calc_emulator_unlock, as the end of the step that holds the lock
tilem_calc_emulator_unlock ==
  /\ calc_lock_waiting' = calc_lock_waiting - 1
  /\ core' = IF calc_lock_waiting = 1 THEN Signalled ELSE core
  /\ calc_mutex' = "none"

Holding(a) == gui = "Locked" /\ act = a
Leave      == gui' = after /\ UNCHANGED <<act, arg, after>>

\* Mutant: g_queue_push_head
Mut_begin_push_head ==
  /\ Holding("begin")
  /\ task_queue' = <<arg>> \o task_queue
  /\ fate' = [fate EXCEPT ![arg] = "begun"]
  /\ tilem_calc_emulator_unlock /\ Leave
  /\ UNCHANGED <<outer, old_queue, task_busy, task_abort, cur, budget,
                 idle_queue, doomed, flags, z80Vars>>

\* tilem_calc_emulator_begin: the task joins the queue
begin_task ==
  /\ Holding("begin")
  /\ task_queue' = Append(task_queue, arg)
  /\ fate' = [fate EXCEPT ![arg] = "begun"]
  /\ tilem_calc_emulator_unlock /\ Leave
  /\ UNCHANGED <<outer, old_queue, task_busy, task_abort, cur, budget,
                 idle_queue, doomed, flags, z80Vars>>

pause ==
  /\ Holding("pause")
  /\ paused' = TRUE
  /\ tilem_calc_emulator_unlock /\ Leave
  /\ UNCHANGED <<outer, old_queue, taskVars, history, exiting, limit_speed,
                 device, z80Vars>>

\* tilem_calc_emulator_run: the first call creates the core thread
run ==
  /\ Holding("run")
  /\ paused' = FALSE
  /\ calc_lock_waiting' = calc_lock_waiting - 1
  /\ calc_mutex' = "none"
  /\ core' = IF core = "None" THEN "Start"
             ELSE IF calc_lock_waiting = 1 THEN Signalled ELSE core
  /\ Leave
  /\ UNCHANGED <<outer, old_queue, taskVars, history, exiting, limit_speed,
                 device, z80Vars>>

\* press_key and every other operation that changes the calculator in place:
\* the ON key wakes a CPU that is powered off
press_key ==
  /\ Holding("press")
  /\ asleep' \in BOOLEAN /\ (asleep' => asleep)
  /\ tilem_calc_emulator_unlock /\ Leave
  /\ UNCHANGED <<outer, old_queue, taskVars, history, flags, clock, calc, in_use>>

\* set_link_cable, set_audio: a device is attached or removed
set_device ==
  /\ Holding("device")
  /\ device' = ~device
  /\ tilem_calc_emulator_unlock /\ Leave
  /\ UNCHANGED <<outer, old_queue, taskVars, history, paused, exiting,
                 limit_speed, z80Vars>>

\* The first critical section of tilem_calc_emulator_cancel_tasks
cancel_begin ==
  /\ Holding("abort")
  /\ task_abort' = TRUE
  /\ old_queue' = task_queue
  /\ task_queue' = <<>>
  /\ doomed' = doomed \cup Elements(task_queue)
  /\ tilem_calc_emulator_unlock /\ Leave
  /\ UNCHANGED <<outer, task_busy, cur, budget, idle_queue, fate, flags,
                 z80Vars>>

\* The critical section of tilem_calc_emulator_load_state: the old calculator
\* is freed and emu->calc is replaced
swap_calc ==
  /\ Holding("swap")
  /\ calc' = calc + 1
  /\ asleep' \in BOOLEAN
  /\ outer' = "none"
  /\ tilem_calc_emulator_unlock /\ Leave
  /\ UNCHANGED <<old_queue, taskVars, history, flags, clock, in_use>>

\* The critical section of tilem_calc_emulator_free
set_exiting ==
  /\ Holding("exit")
  /\ exiting' = TRUE
  /\ tilem_calc_emulator_unlock /\ Leave
  /\ UNCHANGED <<outer, old_queue, taskVars, history, paused, limit_speed,
                 device, z80Vars>>

-----------------------------------------------------------------------------
(* The GTK main loop *)

\* Ask for the lock, to do a and continue at next
WantLock(a, t, next) ==
  /\ gui' = "Lock" /\ act' = a /\ arg' = t /\ after' = next

\* The user begins a task, or uses a control of the main window
UserAct ==
  /\ gui = "Idle"
  /\ \/ \E t \in Roots : fate[t] = "none" /\ WantLock("begin", t, "Idle")
     \/ \E a \in {"pause", "run", "press"} : WantLock(a, NoTask, "Idle")
     \/ (~device) \in DeviceChoices /\ WantLock("device", NoTask, "Idle")
  /\ UNCHANGED <<lockVars, core, outer, old_queue, taskVars, history, flags, z80Vars>>

\* tilem_calc_emulator_set_limit_speed takes no lock
set_limit_speed ==
  /\ gui = "Idle"
  /\ limit_speed' \in LimitChoices
  /\ UNCHANGED <<lockVars, core, guiVars, taskVars, history, paused, exiting,
                 device, z80Vars>>

\* The operations that begin with cancel_tasks: the progress window's Cancel
\* button, load_state and free
UserCancel ==
  /\ gui = "Idle"
  /\ outer' \in {"cancel", "load", "free"}
  /\ outer' = "load" => calc < MaxCalc
  /\ WantLock("abort", NoTask, "Drain")
  /\ UNCHANGED <<lockVars, core, old_queue, taskVars, history, flags, z80Vars>>

\* finishedf(emu, userdata, cancelled) of task t, called at GUI location here
CallFinished(t, cancelled, here) ==
  /\ fate' = [fate EXCEPT ![t] = IF cancelled THEN "cancelled" ELSE "finished"]
  /\ IF Successor[t] # NoTask /\ (~cancelled \/ t \in ChainsOnCancel)
     THEN WantLock("begin", Successor[t], here)
     ELSE gui' = here /\ UNCHANGED <<act, arg, after>>

\* taskfinished: the main loop runs the oldest idle callback.  It also does so
\* inside the model-choice dialog of load_state.
taskfinished ==
  /\ gui \in {"Idle", "Loading"}
  /\ idle_queue # <<>>
  /\ idle_queue' = Tail(idle_queue)
  /\ CallFinished(Head(idle_queue).task, Head(idle_queue).cancelled, gui)
  /\ UNCHANGED <<lockVars, core, outer, old_queue, task_queue, task_busy,
                 task_abort, cur, budget, doomed, flags, z80Vars>>

\* cancel_tasks calls finishedf for each task it took from the queue
cancel_drain ==
  /\ gui = "Drain" /\ old_queue # <<>>
  /\ old_queue' = Tail(old_queue)
  /\ CallFinished(Head(old_queue), TRUE, "Drain")
  /\ UNCHANGED <<lockVars, core, outer, taskVars, doomed, flags, z80Vars>>

cancel_drained ==
  /\ gui = "Drain" /\ old_queue = <<>>
  /\ gui' = "RawLock"
  /\ UNCHANGED <<lockVars, core, act, arg, after, outer, old_queue, taskVars,
                 history, flags, z80Vars>>

\* The plain g_mutex_lock of cancel_tasks; g_cond_wait takes the mutex again
\* in the same way
cancel_lock ==
  /\ gui \in {"RawLock", "FinishedWoken"} /\ calc_mutex = "none"
  /\ calc_mutex' = "gui"
  /\ gui' = "RawHeld"
  /\ UNCHANGED <<calc_lock_waiting, core, act, arg, after, outer, old_queue,
                 taskVars, history, flags, z80Vars>>

\* while (emu->task_busy) g_cond_wait(task_finished_cond)
cancel_wait ==
  /\ gui = "RawHeld" /\ task_busy
  /\ gui' = "WaitFinished"
  /\ calc_mutex' = "none"
  /\ UNCHANGED <<calc_lock_waiting, core, act, arg, after, outer, old_queue,
                 taskVars, history, flags, z80Vars>>

\* What the caller of cancel_tasks does next: the Cancel button has finished,
\* load_state looks for its files, free goes on to stop the core thread
CancelCaller ==
  \/ /\ outer = "cancel" /\ gui' = "Idle" /\ outer' = "none"
     /\ UNCHANGED <<act, arg, after>>
  \/ outer = "load" /\ gui' = "Loading" /\ UNCHANGED <<outer, act, arg, after>>
  \/ outer = "free" /\ WantLock("exit", NoTask, "Join") /\ UNCHANGED outer

\* Mutant: cancel_tasks does not wait for the running task
Mut_cancel_no_wait ==
  /\ gui = "RawHeld"
  /\ task_abort' = FALSE
  /\ core' = Signalled
  /\ calc_mutex' = "none"
  /\ CancelCaller
  /\ UNCHANGED <<calc_lock_waiting, old_queue, task_queue, task_busy, cur,
                 budget, idle_queue, history, flags, z80Vars>>

\* The end of cancel_tasks
cancel_end ==
  /\ gui = "RawHeld" /\ ~task_busy
  /\ task_abort' = FALSE
  /\ core' = Signalled
  /\ calc_mutex' = "none"
  /\ CancelCaller
  /\ UNCHANGED <<calc_lock_waiting, old_queue, task_queue, task_busy, cur,
                 budget, idle_queue, history, flags, z80Vars>>

\* load_state opens and reads the files: it fails, or it goes on to replace
\* the calculator
load_files ==
  /\ gui = "Loading"
  /\ \/ gui' = "Idle" /\ outer' = "none" /\ UNCHANGED <<act, arg, after>>
     \/ WantLock("swap", NoTask, "Idle") /\ UNCHANGED outer
  /\ UNCHANGED <<lockVars, core, old_queue, taskVars, history, flags, z80Vars>>

\* g_thread_join in tilem_calc_emulator_free
join ==
  /\ gui = "Join" /\ core \in {"None", "Done"}
  /\ gui' = "Done"
  /\ UNCHANGED <<lockVars, core, act, arg, after, outer, old_queue, taskVars,
                 history, flags, z80Vars>>

\* The program has ended
Terminated == gui = "Done" /\ UNCHANGED vars

-----------------------------------------------------------------------------
(* The core thread *)

Caller == IF task_busy THEN "Task" ELSE "Loop"

\* tilem_em_check_yield: wait to be signalled if the counter says that another
\* thread wants the lock
tilem_em_check_yield(next) ==
  IF calc_lock_waiting # 0
  THEN core' = "Waiting" /\ calc_mutex' = "none"
  ELSE core' = next /\ calc_mutex' = calc_mutex

\* Mutant: the mutex is not released
Mut_em_unlock_keeps(next) ==
  core' = next /\ UNCHANGED calc_mutex

\* tilem_em_unlock
tilem_em_unlock(next) ==
  /\ core' = IF calc_lock_waiting # 0 THEN "Waiting" ELSE next
  /\ calc_mutex' = "none"

\* tilem_em_lock, and the end of g_cond_wait(calc_wakeup_cond)
tilem_em_lock ==
  /\ core \in {"Start", "Woken", "Sleep", "Io", "Out"} /\ calc_mutex = "none"
  /\ calc_mutex' = "core"
  /\ core' = IF core = "Io" THEN "Run" ELSE Caller
  /\ in_use' = 0
  /\ UNCHANGED <<calc_lock_waiting, guiVars, taskVars, history, flags, asleep,
                 clock, calc>>

\* g_cond_wait may return without a signal
spurious_wakeup ==
  /\ \/ core = "Waiting" /\ core' = "Woken" /\ gui' = gui
     \/ gui = "WaitFinished" /\ gui' = "FinishedWoken" /\ core' = core
  /\ UNCHANGED <<lockVars, act, arg, after, outer, old_queue, taskVars,
                 history, flags, z80Vars>>

\* tilem_em_main: the next task is taken from the queue; run_task starts it
run_task ==
  /\ core = "Loop" /\ ~exiting /\ task_queue # <<>>
  /\ cur' = Head(task_queue)
  /\ task_queue' = Tail(task_queue)
  /\ task_busy' = TRUE
  /\ budget' \in 0..Budget
  /\ core' = "Task"
  /\ UNCHANGED <<lockVars, guiVars, task_abort, idle_queue, fate, doomed,
                 flags, z80Vars>>

\* Mutant: task_finished_cond is not signalled
Mut_report_idle_silent ==
  /\ core = "Loop" /\ ~exiting /\ task_queue = <<>> /\ task_abort
  /\ core' = "Waiting"
  /\ calc_mutex' = "none"
  /\ UNCHANGED <<calc_lock_waiting, guiVars, taskVars, history, flags, z80Vars>>

\* tilem_em_main: no task is left and cancel_tasks is waiting
report_idle ==
  /\ core = "Loop" /\ ~exiting /\ task_queue = <<>> /\ task_abort
  /\ gui' = IF gui = "WaitFinished" THEN "FinishedWoken" ELSE gui
  /\ core' = "Waiting"
  /\ calc_mutex' = "none"
  /\ UNCHANGED <<calc_lock_waiting, act, arg, after, outer, old_queue,
                 taskVars, history, flags, z80Vars>>

\* A call of tilem_em_run by the idle loop or by the running task
InEmRun ==
  \/ core = "Run"
  \/ core = "Loop" /\ ~exiting /\ task_queue = <<>> /\ ~task_abort
  \/ core = "Task" /\ ~task_abort /\ budget > 0

\* init_ext_cable and update_audio give up the mutex around device I/O
em_run_io ==
  /\ core # "Run" /\ InEmRun /\ device
  /\ tilem_em_unlock("Io")
  /\ UNCHANGED <<calc_lock_waiting, guiVars, taskVars, history, flags, z80Vars>>

em_run_abort ==
  /\ InEmRun /\ (exiting \/ task_abort)
  /\ core' = Caller
  /\ UNCHANGED <<lockVars, guiVars, taskVars, history, flags, z80Vars>>

\* Work is done, or a timeout passes
Progress == budget' \in {b \in 0..Budget : b < budget}

\* The calls that do not keep the calculator awake are those of the idle loop and
\* of tilem_em_get_byte (keep_awake is FALSE)
LetsSleep == task_busy => cur \in Receives

\* Paused, or powered off and not kept awake: wait to be woken.  Having waited
\* for a calculator that is off counts as the whole time slice, having been
\* paused as nothing (elapsed).
em_run_wait ==
  /\ InEmRun /\ ~exiting /\ ~task_abort
  /\ \/ paused /\ UNCHANGED budget
     \/ /\ ~paused /\ asleep /\ LetsSleep
        /\ IF task_busy THEN Progress ELSE UNCHANGED budget
  /\ core' = "Waiting"
  /\ calc_mutex' = "none"
  /\ UNCHANGED <<calc_lock_waiting, guiVars, task_queue, task_busy, task_abort,
                 cur, idle_queue, history, flags, z80Vars>>

\* The Z80 runs for a time slice; a breakpoint pauses the emulator; then the
\* mutex is released to sleep or to serve the cable, or kept.  The functions
\* of a task may fast-forward (ff_events).  All but tilem_em_get_byte run the Z80
\* though it is powered off (keep_awake), and a task that receives calls them too.
em_run_z80 ==
  /\ InEmRun /\ ~exiting /\ ~task_abort
  /\ ~paused /\ (task_busy \/ ~asleep)
  /\ clock' = 1 - clock
  /\ asleep' \in BOOLEAN
  /\ paused' \in BOOLEAN
  /\ IF task_busy THEN Progress ELSE UNCHANGED budget
  /\ \E ff \in {FALSE, task_busy} :
       \/ /\ (limit_speed /\ ~ff) \/ device
          /\ tilem_em_unlock("Sleep")
       \/ /\ ~limit_speed \/ ff \/ device
          /\ tilem_em_check_yield(Caller)
  /\ UNCHANGED <<calc_lock_waiting, guiVars, task_queue, task_busy, task_abort,
                 cur, idle_queue, history, exiting, limit_speed, device, calc,
                 in_use>>

\* mainf gives up the mutex: a link transfer calls into ticalcs, a macro runs
\* the calculator (run_with_key_slowly)
task_unlock ==
  /\ core = "Task" /\ budget > 0
  /\ budget' = budget - 1
  /\ in_use' = IF cur \in RunsUnlocked THEN calc ELSE 0
  /\ tilem_em_unlock("Out")
  /\ UNCHANGED <<calc_lock_waiting, guiVars, task_queue, task_busy, task_abort,
                 cur, idle_queue, history, flags, asleep, clock, calc>>

\* mainf returns; if it returns FALSE run_task cancels everything queued.
\* Macros do not look at task_abort.
task_return ==
  /\ core = "Task"
  /\ budget = 0 \/ (task_abort /\ cur \notin RunsUnlocked)
  /\ \E status \in BOOLEAN :
       LET result == [task |-> cur, cancelled |-> FALSE] IN
       IF status
       THEN /\ idle_queue' = Append(idle_queue, result)
            /\ UNCHANGED <<task_queue, doomed>>
       ELSE /\ idle_queue' = Append(idle_queue, result) \o Cancelled(task_queue)
            /\ doomed' = doomed \cup Elements(task_queue)
            /\ task_queue' = <<>>
  /\ task_busy' = FALSE
  /\ cur' = NoTask /\ budget' = 0
  /\ core' = "Loop"
  /\ UNCHANGED <<lockVars, guiVars, task_abort, fate, flags, z80Vars>>

\* tilem_em_main returns
core_exit ==
  /\ core = "Loop" /\ exiting
  /\ tilem_em_unlock("Done")
  /\ UNCHANGED <<calc_lock_waiting, guiVars, taskVars, history, flags, z80Vars>>

-----------------------------------------------------------------------------
GuiLocked == \/ begin_task \/ pause \/ run \/ press_key \/ set_device
             \/ cancel_begin \/ swap_calc \/ set_exiting
GuiCancel == cancel_drain \/ cancel_drained \/ cancel_wait \/ cancel_end
GuiUser   == UserAct \/ set_limit_speed \/ UserCancel
CoreStep  == \/ run_task \/ report_idle \/ em_run_io \/ em_run_abort
             \/ em_run_wait \/ em_run_z80 \/ task_unlock \/ task_return
             \/ core_exit

Next == \/ tilem_calc_emulator_lock \/ cancel_lock
        \/ GuiLocked \/ GuiCancel \/ GuiUser
        \/ taskfinished \/ load_files \/ join \/ Terminated
        \/ tilem_em_lock \/ CoreStep \/ spurious_wakeup

Spec == Init /\ [][Next]_vars

\* A thread that can go on does so; a thread blocked on the mutex gets it if it
\* is free again and again; the main loop serves its idle callbacks.
Fairness ==
  /\ WF_vars(CoreStep) /\ SF_vars(tilem_em_lock)
  /\ SF_vars(tilem_calc_emulator_lock) /\ SF_vars(cancel_lock)
  /\ WF_vars(GuiLocked) /\ WF_vars(GuiCancel)
  /\ WF_vars(load_files) /\ WF_vars(join)
  /\ SF_vars(taskfinished)

FairSpec == Spec /\ Fairness

-----------------------------------------------------------------------------
(* Properties *)

\* Whenever the core thread holds the mutex the counter is zero: the GUI thread
\* counts itself only after it has the mutex (emulator.c:52-53), so the test of
\* tilem_em_check_yield (emucore.h:75) never finds anyone to yield to.
CoreNeverSeesWaiter == calc_mutex = "core" => calc_lock_waiting = 0

\* If the core thread waits on calc_wakeup_cond then what made it wait still
\* holds, and it is not the thread that a waiting cancel_tasks depends on
\* (emucore.c:564,574,721 against the signals of emulator.c:61 and emucore.c:94).
\* A task waits only while it may go on, and then because the emulator is paused
\* or because it receives from a calculator that is off.
WaitJustified ==
  core = "Waiting" =>
    /\ IF task_busy THEN ~task_abort /\ (paused \/ (asleep /\ cur \in Receives))
                    ELSE paused \/ asleep \/ task_abort
    /\ gui # "WaitFinished"

\* "Unlock emulator and ... wake up the core thread.  This also serves to resume
\* emulation if the calculator has been powered off" (emulator.c:58-60): the idle
\* core thread does not wait while a task is in the queue.
QueuedTaskWakesCore == core = "Waiting" /\ ~task_busy => task_queue = <<>>

\* Between the end of cancel_tasks and the end of the operation that called it
AfterCancel == \/ gui = "Loading"
               \/ gui \in {"Lock", "Locked"} /\ act \in {"swap", "exit"}

\* "Cancel all pending tasks.  If a task is currently running, this will wait
\* for it to finish" (emucore.c:67-68): when load_state replaces the calculator
\* and when free tells the core thread to exit, no task is queued or running.
CancelLeavesNothing == AfterCancel => task_queue = <<>> /\ ~task_busy

\* A calculator that a task is running outside the lock is never freed under it
\* by load_state (emulator.c:404-407).
NeverFreedInUse == in_use # 0 => in_use = calc

\* "Lock calculator so we can directly access it from outside the core thread"
\* (emulator.h:153-154): while the GUI thread has the lock no task is running
\* the calculator.
LockExcludesRunning == calc_mutex = "gui" => in_use = 0

\* What becomes of each task, as emulator.h tells it
AbstractStatus(t) ==
  IF fate[t] = "none" THEN "new"
  ELSE IF fate[t] # "begun" THEN fate[t]
  ELSE IF t = cur THEN "running"
  ELSE IF t \in Elements(task_queue) THEN "queued"
  ELSE IF t \in doomed THEN "dropped" ELSE "ran"

Service == INSTANCE TaskService
             WITH queue <- task_queue, status <- [t \in Task |-> AbstractStatus(t)]

\* The queue, the core thread, the idle callbacks and cancel_tasks together keep
\* the promises of emulator.h:248-268.
ImplementsTaskService == Service!Spec

\* Whoever asks for the emulator lock gets it (emulator.c:45-49).
LockGranted == gui = "Lock" ~> gui = "Locked"

\* cancel_tasks, and load_state and free that call it, always return: the
\* running task is told to stop, and nobody waits for a signal that was sent.
CancelReturns == outer # "none" ~> outer = "none" \/ gui = "Done"

\* The timeout of tilem_em_get_byte does not pass while the calculator is off: the
\* task waits for as long as nobody presses a key or cancels (emucore.c:570-577 by
\* way of 806-808).
StuckReceiving == core = "Waiting" /\ task_busy /\ asleep

\* Every task that was begun is finished or cancelled, unless the emulator is
\* paused or exits, or a transfer goes on waiting for a calculator that is off.
TaskFinishes == \A t \in Task :
  fate[t] = "begun" ~> \/ fate[t] # "begun" \/ paused \/ exiting
                       \/ core = "None" \/ StuckReceiving
=============================================================================
