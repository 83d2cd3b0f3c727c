---------------------------- MODULE EmuCoreProofs ----------------------------
(***************************************************************************)
(* Theorems about EmuCore, for every set of tasks and every bound.          *)
(*                                                                         *)
(* Three strengthenings carry the proofs.  LockInv ties the two program     *)
(* counters to the mutex and to the counter of waiting threads.  CoreInv    *)
(* ties the core thread's place to the task it runs.  GuiInv says what an   *)
(* operation of the GUI thread has established on its way to the lock.      *)
(***************************************************************************)
EXTENDS EmuCore, SequenceTheorems, TLAPS

LockInv ==
  /\ calc_mutex = "gui" <=> gui \in GuiHeld
  /\ calc_mutex = "core" <=> core \in CoreBusy
  /\ calc_lock_waiting = IF gui = "Locked" THEN 1 ELSE 0

CoreInv ==
  /\ task_busy <=> cur \in Task
  /\ core \in {"Task", "Out"} => task_busy
  /\ core \in {"None", "Start", "Loop", "Done"} => ~task_busy
  /\ in_use # 0 => core = "Out"

Asking == gui \in {"Lock", "Locked"}

\* Inside cancel_tasks, from its first unlock to its end
Cancelling ==
  \/ gui \in {"Drain", "RawLock", "RawHeld", "WaitFinished", "FinishedWoken"}
  \/ Asking /\ act = "begin" /\ after = "Drain"

GuiInv ==
  /\ Asking /\ act = "begin" => arg \in Task
  /\ Asking /\ act = "abort" => after = "Drain"
  /\ Asking /\ act = "swap" => after = "Idle"
  /\ Asking /\ act = "exit" => after = "Join"
  /\ Asking /\ act \in {"pause", "run", "press", "device"} => after = "Idle"
  /\ gui = "Loading" \/ (Asking /\ (act = "swap" \/ after = "Loading"))
       => outer = "load"
  /\ outer = "load" => calc < MaxCalc
  /\ Cancelling => task_abort

IInv == TypeOK /\ LockInv /\ CoreInv /\ GuiInv

-----------------------------------------------------------------------------
\* The callbacks that run_task leaves for the tasks it drops, one for each task
\* that was queued (emucore.c:694-698).
LEMMA CancelledType ==
  ASSUME NEW S, NEW s \in Seq(S)
  PROVE  Cancelled(s) \in Seq([task : S, cancelled : BOOLEAN])
<1>1. DOMAIN s = 1..Len(s) /\ Len(s) \in Nat
  OBVIOUS
<1>2. \A i \in 1..Len(s) : s[i] \in S
  OBVIOUS
<1>3. Cancelled(s) = [i \in 1..Len(s) |-> [task |-> s[i], cancelled |-> TRUE]]
  BY <1>1 DEF Cancelled
<1>4. QED
  BY <1>1, <1>2, <1>3

LEMMA ElementsType ==
  ASSUME NEW S, NEW s \in Seq(S)
  PROVE  Elements(s) \subseteq S
BY DEF Elements

LEMMA IInvInit == Init => IInv
<1> SUFFICES ASSUME Init PROVE IInv
  OBVIOUS
<1>1. TypeOK
  <2>1. limit_speed \in BOOLEAN
    BY ConstantsOK DEF Init
  <2>2. /\ task_queue \in Seq(Task) /\ old_queue \in Seq(Task)
        /\ idle_queue \in Seq([task : Task, cancelled : BOOLEAN])
    BY DEF Init
  <2>3. /\ fate \in [Task -> {"none", "begun", "finished", "cancelled"}]
        /\ calc \in 1..MaxCalc /\ in_use \in 0..MaxCalc /\ budget \in 0..Budget
    BY ConstantsOK DEF Init
  <2>4. QED
    BY <2>1, <2>2, <2>3 DEF Init, TypeOK, ThreadTypes, TaskTypes, CalcTypes,
       GuiFree, CoreFree, Acts
<1>2. LockInv /\ CoreInv /\ GuiInv
  BY ConstantsOK DEF Init, LockInv, CoreInv, GuiInv, Cancelling, Asking,
     GuiHeld, CoreBusy
<1>3. QED
  BY <1>1, <1>2 DEF IInv

LEMMA IInvStep == IInv /\ [Next]_vars => IInv'
<1> SUFFICES ASSUME IInv, [Next]_vars PROVE IInv'
  OBVIOUS
<1> USE ConstantsOK
    DEF IInv, TypeOK, ThreadTypes, TaskTypes, CalcTypes,
        LockInv, CoreInv, GuiInv, Cancelling, Asking,
        GuiFree, GuiHeld, CoreFree, CoreBusy, Acts,
        lockVars, guiVars, taskVars, history, flags, z80Vars
<1>1. CASE tilem_calc_emulator_lock
  BY <1>1 DEF tilem_calc_emulator_lock
<1>2. CASE cancel_lock
  BY <1>2 DEF cancel_lock
<1>3. CASE begin_task
  BY <1>3 DEF begin_task, Holding, Leave, tilem_calc_emulator_unlock, Signalled
<1>4. CASE pause
  BY <1>4 DEF pause, Holding, Leave, tilem_calc_emulator_unlock, Signalled
<1>5. CASE run
  <2>1. core' \in CoreFree \cup CoreBusy /\ (core' \in CoreBusy <=> core \in CoreBusy)
    BY <1>5 DEF run, Signalled
  <2>2. /\ core' \in {"Task", "Out"} => core \in {"Task", "Out"}
        /\ core' \in {"None", "Start", "Loop", "Done"} => core \in {"None", "Start", "Loop", "Done"}
        /\ core = "Out" => core' = "Out"
    BY <1>5 DEF run, Signalled
  <2> HIDE DEF CoreFree, CoreBusy
  <2>3. QED
    <3>1. ThreadTypes'
      BY <1>5, <2>1, <2>2 DEF run, Holding, Leave
    <3>2. TaskTypes'
      BY <1>5, <2>1, <2>2 DEF run, Holding, Leave
    <3>3. CalcTypes'
      BY <1>5, <2>1, <2>2 DEF run, Holding, Leave
    <3>4. LockInv'
      BY <1>5, <2>1, <2>2 DEF run, Holding, Leave
    <3>5. CoreInv'
      BY <1>5, <2>1, <2>2 DEF run, Holding, Leave
    <3>6. GuiInv'
      BY <1>5, <2>1, <2>2 DEF run, Holding, Leave
    <3>7. QED
      BY <3>1, <3>2, <3>3, <3>4, <3>5, <3>6
<1>6. CASE press_key
  BY <1>6 DEF press_key, Holding, Leave, tilem_calc_emulator_unlock, Signalled
<1>7. CASE set_device
  BY <1>7 DEF set_device, Holding, Leave, tilem_calc_emulator_unlock, Signalled
<1>8. CASE cancel_begin
  BY <1>8, ElementsType DEF cancel_begin, Holding, Leave, tilem_calc_emulator_unlock, Signalled
<1>9. CASE swap_calc
  BY <1>9 DEF swap_calc, Holding, Leave, tilem_calc_emulator_unlock, Signalled
<1>10. CASE set_exiting
  BY <1>10 DEF set_exiting, Holding, Leave, tilem_calc_emulator_unlock, Signalled
<1>11. CASE cancel_drain
  BY <1>11 DEF cancel_drain, CallFinished, WantLock
<1>12. CASE cancel_drained
  BY <1>12 DEF cancel_drained
<1>13. CASE cancel_wait
  BY <1>13 DEF cancel_wait
<1>14. CASE cancel_end
  <2>1. /\ core' \in CoreFree \cup CoreBusy /\ (core' \in CoreBusy <=> core \in CoreBusy)
        /\ core' \in {"Task", "Out", "None", "Start", "Loop", "Done"} => core' = core
        /\ core = "Out" => core' = "Out"
    BY <1>14 DEF cancel_end, Signalled
  <2> HIDE DEF CoreFree, CoreBusy
  <2>2. CASE outer = "cancel" /\ gui' = "Idle" /\ outer' = "none" /\ UNCHANGED <<act, arg, after>>
    <3>1. ThreadTypes'
      BY <1>14, <2>1, <2>2 DEF cancel_end
    <3>2. TaskTypes'
      BY <1>14, <2>1, <2>2 DEF cancel_end
    <3>3. CalcTypes'
      BY <1>14, <2>1, <2>2 DEF cancel_end
    <3>4. LockInv'
      BY <1>14, <2>1, <2>2 DEF cancel_end
    <3>5. CoreInv'
      BY <1>14, <2>1, <2>2 DEF cancel_end
    <3>6. GuiInv'
      BY <1>14, <2>1, <2>2 DEF cancel_end
    <3>7. QED
      BY <3>1, <3>2, <3>3, <3>4, <3>5, <3>6
  <2>3. CASE outer = "load" /\ gui' = "Loading" /\ UNCHANGED <<outer, act, arg, after>>
    <3>1. ThreadTypes'
      BY <1>14, <2>1, <2>3 DEF cancel_end
    <3>2. TaskTypes'
      BY <1>14, <2>1, <2>3 DEF cancel_end
    <3>3. CalcTypes'
      BY <1>14, <2>1, <2>3 DEF cancel_end
    <3>4. LockInv'
      BY <1>14, <2>1, <2>3 DEF cancel_end
    <3>5. CoreInv'
      BY <1>14, <2>1, <2>3 DEF cancel_end
    <3>6. GuiInv'
      BY <1>14, <2>1, <2>3 DEF cancel_end
    <3>7. QED
      BY <3>1, <3>2, <3>3, <3>4, <3>5, <3>6
  <2>4. CASE outer = "free" /\ WantLock("exit", NoTask, "Join") /\ UNCHANGED outer
    BY <1>14, <2>1, <2>4, ZenonT(60) DEF cancel_end, WantLock
  <2>5. QED
    BY <1>14, <2>2, <2>3, <2>4 DEF cancel_end, CancelCaller
<1>15. CASE UserAct
  BY <1>15 DEF UserAct, WantLock, Roots
<1>16. CASE set_limit_speed
  BY <1>16 DEF set_limit_speed
<1>17. CASE UserCancel
  BY <1>17 DEF UserCancel, WantLock
<1>18. CASE taskfinished
  <2>1. /\ Head(idle_queue) \in [task : Task, cancelled : BOOLEAN]
        /\ Tail(idle_queue) \in Seq([task : Task, cancelled : BOOLEAN])
    <3> DEFINE R == [task : Task, cancelled : BOOLEAN]
    <3>1. idle_queue \in Seq(R) /\ idle_queue # <<>>
      BY <1>18 DEF taskfinished
    <3> HIDE DEF R
    <3>2. Head(idle_queue) \in R /\ Tail(idle_queue) \in Seq(R)
      BY <3>1
    <3>3. QED
      BY <3>2 DEF R
  <2>2. Head(idle_queue).task \in Task
    BY <2>1
  <2>3. Successor[Head(idle_queue).task] \in Task \cup {NoTask}
    BY <2>2
  <2> DEFINE t == Head(idle_queue).task
             c == Head(idle_queue).cancelled
  <2>4. /\ t \in Task /\ Successor[t] \in Task \cup {NoTask}
        /\ idle_queue' \in Seq([task : Task, cancelled : BOOLEAN])
        /\ CallFinished(t, c, gui)
        /\ gui \in {"Idle", "Loading"}
        /\ UNCHANGED <<lockVars, core, outer, old_queue, task_queue, task_busy,
                        task_abort, cur, budget, doomed, flags, z80Vars>>
    BY <1>18, <2>1, <2>2, <2>3 DEF taskfinished
  <2> HIDE DEF t, c
  <2>5. QED
    BY <2>4 DEF CallFinished, WantLock
<1>19. CASE load_files
  BY <1>19 DEF load_files, WantLock
<1>20. CASE join
  BY <1>20 DEF join
<1>21. CASE Terminated
  BY <1>21 DEF Terminated, vars
<1>22. CASE tilem_em_lock
  BY <1>22 DEF tilem_em_lock, Caller
<1>23. CASE run_task
  BY <1>23 DEF run_task
<1>24. CASE report_idle
  BY <1>24 DEF report_idle
<1>25. CASE em_run_io
  BY <1>25 DEF em_run_io, tilem_em_unlock, InEmRun
<1>26. CASE em_run_abort
  BY <1>26 DEF em_run_abort, Caller, InEmRun
<1>27. CASE em_run_wait
  <2>1. budget' \in 0..Budget
    BY <1>27 DEF em_run_wait, Progress
  <2>2. QED
    BY <1>27, <2>1 DEF em_run_wait, InEmRun
<1>28. CASE em_run_z80
  <2>1. budget' \in 0..Budget
    BY <1>28 DEF em_run_z80, Progress
  <2>2. QED
    BY <1>28, <2>1 DEF em_run_z80, tilem_em_unlock, tilem_em_check_yield, Caller, InEmRun
<1>29. CASE task_unlock
  BY <1>29 DEF task_unlock, tilem_em_unlock
<1>30. CASE task_return
  <2>1. cur \in Task /\ core = "Task" /\ task_busy
    BY <1>30 DEF task_return
  <2>2. <<[task |-> cur, cancelled |-> FALSE]>> \in Seq([task : Task, cancelled : BOOLEAN])
    BY <2>1
  <2>3. Cancelled(task_queue) \in Seq([task : Task, cancelled : BOOLEAN])
    BY CancelledType
  <2>4. Append(idle_queue, [task |-> cur, cancelled |-> FALSE])
          \in Seq([task : Task, cancelled : BOOLEAN])
    BY <2>1
  <2>5. idle_queue' \in Seq([task : Task, cancelled : BOOLEAN])
    <3> DEFINE R == [task : Task, cancelled : BOOLEAN]
               one == Append(idle_queue, [task |-> cur, cancelled |-> FALSE])
    <3>1. one \o Cancelled(task_queue) \in Seq(R)
      <4> HIDE DEF R, one
      <4>1. one \in Seq(R) /\ Cancelled(task_queue) \in Seq(R)
        BY <2>3, <2>4 DEF R, one
      <4>2. QED
        BY <4>1
    <3>2. QED
      BY <1>30, <2>4, <3>1 DEF task_return
  <2>6. task_queue' \in Seq(Task) /\ doomed' \subseteq Task
    <3>1. Elements(task_queue) \subseteq Task
      BY ElementsType
    <3>2. \/ task_queue' = task_queue /\ doomed' = doomed
          \/ task_queue' = <<>> /\ doomed' = doomed \cup Elements(task_queue)
      <4>1. PICK status \in BOOLEAN :
              IF status
              THEN UNCHANGED <<task_queue, doomed>>
              ELSE /\ doomed' = doomed \cup Elements(task_queue)
                   /\ task_queue' = <<>>
        BY <1>30 DEF task_return
      <4>2. QED
        BY <4>1
    <3>3. task_queue' \in Seq(Task)
      <4>1. <<>> \in Seq(Task)
        OBVIOUS
      <4>2. QED
        BY <3>2, <4>1
    <3>4. doomed' \subseteq Task
      BY <3>1, <3>2
    <3>5. QED
      BY <3>3, <3>4
  <2>7. QED
    <3>1. ThreadTypes'
      BY <1>30, <2>1, <2>5, <2>6 DEF task_return
    <3>2. TaskTypes'
      <4>1. /\ UNCHANGED <<old_queue, task_abort, fate>>
            /\ task_busy' = FALSE /\ cur' = NoTask /\ budget' = 0
        BY <1>30 DEF task_return
      <4>2. old_queue' \in Seq(Task) /\ task_abort' \in BOOLEAN /\ task_busy' \in BOOLEAN
        BY <4>1
      <4>3. budget' \in 0..Budget /\ cur' \in Task \cup {NoTask}
        BY <4>1
      <4>4. fate' \in [Task -> {"none", "begun", "finished", "cancelled"}]
        BY <4>1
      <4>5. QED
        BY <2>5, <2>6, <4>2, <4>3, <4>4
    <3>3. CalcTypes'
      BY <1>30, <2>1, <2>5, <2>6 DEF task_return
    <3>4. LockInv'
      BY <1>30, <2>1, <2>5, <2>6 DEF task_return
    <3>5. CoreInv'
      BY <1>30, <2>1, <2>5, <2>6 DEF task_return
    <3>6. GuiInv'
      BY <1>30, <2>1, <2>5, <2>6 DEF task_return
    <3>7. QED
      BY <3>1, <3>2, <3>3, <3>4, <3>5, <3>6
<1>31. CASE core_exit
  BY <1>31 DEF core_exit, tilem_em_unlock
<1>32. CASE spurious_wakeup
  BY <1>32 DEF spurious_wakeup
<1>33. CASE UNCHANGED vars
  BY <1>33 DEF vars
<1>34. QED
  BY <1>1, <1>2, <1>3, <1>4, <1>5, <1>6, <1>7, <1>8, <1>9, <1>10, <1>11,
     <1>12, <1>13, <1>14, <1>15, <1>16, <1>17, <1>18, <1>19, <1>20, <1>21,
     <1>22, <1>23, <1>24, <1>25, <1>26, <1>27, <1>28, <1>29, <1>30, <1>31,
     <1>32, <1>33
     DEF Next, GuiLocked, GuiCancel, GuiUser, CoreStep

-----------------------------------------------------------------------------
(* The theorems *)

LEMMA IInvAlways == Spec => []IInv
BY IInvInit, IInvStep, PTL DEF Spec

\* Every variable keeps its type, whatever the two threads interleave; in
\* particular the counter of waiting threads is never negative and never above
\* one (emulator.c:53,59).
THEOREM TypeCorrect == Spec => []TypeOK
<1>1. IInv => TypeOK
  BY DEF IInv
<1>2. QED
  BY <1>1, IInvAlways, PTL

\* The counter that tilem_em_check_yield reads (emucore.h:75) is zero whenever
\* the core thread can read it: the yield of emulator.c:45-49 never happens.
THEOREM NoWaiterSeen == Spec => []CoreNeverSeesWaiter
<1>1. IInv => CoreNeverSeesWaiter
  BY DEF IInv, LockInv, CoreNeverSeesWaiter, GuiHeld
<1>2. QED
  BY <1>1, IInvAlways, PTL

-----------------------------------------------------------------------------
(* Waiting.  WaitJustified is inductive once IInv is known. *)

LEMMA WaitStep == IInv /\ WaitJustified /\ [Next]_vars => WaitJustified'
<1> SUFFICES ASSUME IInv, WaitJustified, [Next]_vars PROVE WaitJustified'
  OBVIOUS
<1>a. /\ calc_mutex = "gui" <=> gui \in GuiHeld
      /\ calc_mutex = "core" <=> core \in CoreBusy
      /\ calc_lock_waiting = IF gui = "Locked" THEN 1 ELSE 0
      /\ core \in {"Task", "Out"} => task_busy
      /\ core = "Loop" => ~task_busy
      /\ Cancelling => task_abort
  BY DEF IInv, LockInv, CoreInv, GuiInv
<1>b. core \in CoreBusy => calc_lock_waiting = 0
  BY <1>a DEF GuiHeld
<1>c. /\ task_busy \in BOOLEAN /\ task_abort \in BOOLEAN /\ paused \in BOOLEAN
      /\ asleep \in BOOLEAN
  BY DEF IInv, TypeOK, TaskTypes, CalcTypes
<1> USE DEF WaitJustified, Cancelling, GuiHeld, CoreBusy, taskVars, guiVars,
            flags, z80Vars, lockVars, history
\* The steps that signal calc_wakeup_cond leave the core thread awake.
<1>1. CASE GuiLocked \/ cancel_end
  <2>1. GuiLocked => core' # "Waiting"
    BY <1>a DEF GuiLocked, begin_task, pause, run, press_key, set_device,
       cancel_begin, swap_calc, set_exiting, tilem_calc_emulator_unlock,
       Holding, Signalled
  <2>2. cancel_end => core' # "Waiting"
    BY DEF cancel_end, Signalled
  <2>3. QED
    BY <1>1, <2>1, <2>2
\* The steps of the GUI thread that do not: only cancel_wait could leave both
\* threads waiting, and task_abort has then kept the core thread awake.
<1>2. CASE \/ tilem_calc_emulator_lock \/ cancel_lock \/ cancel_drained
           \/ cancel_wait \/ load_files \/ join \/ GuiUser
  BY <1>2, <1>a DEF tilem_calc_emulator_lock, cancel_lock, cancel_drained,
     cancel_wait, load_files, join, GuiUser, UserAct, set_limit_speed,
     UserCancel, WantLock
<1>3. CASE cancel_drain \/ taskfinished
  BY <1>3, <1>a DEF cancel_drain, taskfinished, CallFinished, WantLock
<1>4. CASE em_run_wait \/ report_idle
  <2>1. CASE em_run_wait
    BY <2>1, <1>a, <1>c DEF em_run_wait, LetsSleep, InEmRun
  <2>2. CASE report_idle
    BY <2>2, <1>a, <1>c DEF report_idle, InEmRun
  <2>3. QED
    BY <1>4, <2>1, <2>2
<1>5. CASE \/ tilem_em_lock \/ run_task \/ em_run_io \/ em_run_abort
           \/ task_unlock \/ task_return \/ core_exit
  BY <1>5, <1>b DEF tilem_em_lock, run_task, em_run_io, em_run_abort,
     task_unlock, task_return, core_exit, tilem_em_unlock, Caller, InEmRun
<1>6. CASE em_run_z80
  BY <1>6, <1>b DEF em_run_z80, tilem_em_unlock, tilem_em_check_yield, Caller,
     InEmRun
<1>7. CASE spurious_wakeup
  BY <1>7 DEF spurious_wakeup
<1>8. CASE UNCHANGED vars \/ Terminated
  BY <1>8 DEF vars, Terminated
<1>9. QED
  BY <1>1, <1>2, <1>3, <1>4, <1>5, <1>6, <1>7, <1>8 DEF Next, GuiCancel, CoreStep

\* When the core thread waits on calc_wakeup_cond the reason for which it began
\* to wait holds, and cancel_tasks is not waiting for it: no interleaving of
\* begin, cancel_tasks, pause and the idle loop makes the two threads wait for
\* each other, for any tasks, devices and speed.  The one wait that a running task
\* begins without the emulator being paused is that of tilem_em_get_byte for a
\* calculator that is off (emucore.c:570-577 by way of 806-808), and then nobody
\* has asked for a cancellation.
THEOREM NoWaitForEachOther == Spec => []WaitJustified
<1>1. Init => WaitJustified
  BY DEF Init, WaitJustified
<1>2. QED
  BY <1>1, WaitStep, IInvAlways, PTL DEF Spec

-----------------------------------------------------------------------------
(* Cancellation, when no finished function begins another task *)

NoChains == \A t \in Task : Successor[t] = NoTask

CancelInv ==
  /\ Asking /\ act = "begin" => after = "Idle"
  /\ Cancelling \/ AfterCancel => task_queue = <<>>
  /\ AfterCancel => ~task_busy
  /\ NeverFreedInUse

LEMMA CancelStep ==
  ASSUME NoChains
  PROVE  IInv /\ CancelInv /\ [Next]_vars => CancelInv'
<1> SUFFICES ASSUME IInv, CancelInv, [Next]_vars PROVE CancelInv'
  OBVIOUS
<1>a. /\ calc_mutex = "core" <=> core \in CoreBusy
      /\ calc_mutex = "gui" <=> gui \in GuiHeld
      /\ core \in {"Task", "Out"} => task_busy
      /\ core = "Loop" => ~task_busy
      /\ in_use # 0 => core = "Out"
      /\ Asking /\ act = "abort" => after = "Drain"
      /\ Asking /\ act \in {"pause", "run", "press", "device", "swap"} => after = "Idle"
      /\ Asking /\ act = "exit" => after = "Join"
      /\ act \in Acts /\ calc \in Nat \ {0}
  BY ConstantsOK DEF IInv, LockInv, CoreInv, GuiInv, TypeOK, ThreadTypes, CalcTypes
<1> USE DEF CancelInv, Cancelling, AfterCancel, Asking, NeverFreedInUse,
            GuiHeld, CoreBusy, taskVars, guiVars, flags, z80Vars, lockVars, history
<1>1. CASE begin_task
  BY <1>1, <1>a DEF begin_task, Holding, Leave
<1>2. CASE cancel_begin
  BY <1>2, <1>a DEF cancel_begin, Holding, Leave
\* The calculator is replaced when no task is running, so none is in use.
<1>3. CASE swap_calc
  BY <1>3, <1>a DEF swap_calc, Holding, Leave
<1>4. CASE pause \/ run \/ press_key \/ set_device \/ set_exiting
  BY <1>4, <1>a DEF pause, run, press_key, set_device, set_exiting, Holding, Leave
<1>5. CASE cancel_end
  BY <1>5, <1>a DEF cancel_end, CancelCaller, WantLock
<1>6. CASE cancel_drain
  <2>1. \/ gui' = "Drain" /\ UNCHANGED <<act, arg, after>>
       \/ Head(old_queue) \notin Task
    BY <1>6, NoChains DEF cancel_drain, CallFinished, NoChains
  <2>2. Head(old_queue) \in Task
    BY <1>6 DEF cancel_drain, IInv, TypeOK, TaskTypes
  <2>3. QED
    BY <1>6, <2>1, <2>2 DEF cancel_drain
<1>7. CASE taskfinished
  <2> DEFINE R == [task : Task, cancelled : BOOLEAN]
  <2>1. Head(idle_queue) \in R
    <3>1. idle_queue \in Seq(R) /\ idle_queue # <<>>
      BY <1>7 DEF taskfinished, IInv, TypeOK, TaskTypes
    <3> HIDE DEF R
    <3>2. QED
      BY <3>1
  <2>2. Successor[Head(idle_queue).task] = NoTask
    BY <2>1, NoChains DEF NoChains
  <2>3. gui' = gui /\ UNCHANGED <<act, arg, after>>
    BY <1>7, <2>2 DEF taskfinished, CallFinished
  <2>4. QED
    BY <1>7, <2>3 DEF taskfinished
<1>8. CASE \/ tilem_calc_emulator_lock \/ cancel_lock \/ cancel_drained
           \/ cancel_wait \/ load_files \/ join \/ GuiUser
  BY <1>8, <1>a DEF tilem_calc_emulator_lock, cancel_lock, cancel_drained,
     cancel_wait, load_files, join, GuiUser, UserAct, set_limit_speed,
     UserCancel, WantLock
<1>9. CASE run_task
  BY <1>9, <1>a DEF run_task
<1>10. CASE task_unlock
  BY <1>10, <1>a DEF task_unlock
<1>11. CASE task_return
  BY <1>11, <1>a DEF task_return
<1>12. CASE report_idle \/ spurious_wakeup
  BY <1>12, <1>a DEF report_idle, spurious_wakeup
<1>13. CASE \/ tilem_em_lock \/ em_run_io \/ em_run_abort \/ em_run_wait
            \/ em_run_z80 \/ core_exit
  BY <1>13, <1>a DEF tilem_em_lock, em_run_io, em_run_abort, em_run_wait,
     em_run_z80, core_exit
<1>14. CASE UNCHANGED vars \/ Terminated
  BY <1>14 DEF vars, Terminated
<1>15. QED
  BY <1>1, <1>2, <1>3, <1>4, <1>5, <1>6, <1>7, <1>8, <1>9, <1>10, <1>11,
     <1>12, <1>13, <1>14 DEF Next, GuiLocked, GuiCancel, CoreStep

LEMMA CancelAlways == ASSUME NoChains PROVE Spec => []CancelInv
<1>1. Init => CancelInv
  BY DEF Init, CancelInv, Cancelling, AfterCancel, Asking, NeverFreedInUse
<1>2. IInv /\ CancelInv /\ [Next]_vars => CancelInv'
  BY NoChains, CancelStep
<1>3. QED
  BY <1>1, <1>2, IInvAlways, PTL DEF Spec

\* "Cancel all pending tasks.  If a task is currently running, this will wait for
\* it to finish" (emucore.c:67-68) holds as long as no finished function begins
\* another task.
THEOREM CancelComplete == ASSUME NoChains PROVE Spec => []CancelLeavesNothing
<1>1. CancelInv => CancelLeavesNothing
  BY DEF CancelInv, CancelLeavesNothing
<1>2. QED
  BY <1>1, CancelAlways, NoChains, PTL

\* load_state never frees the calculator that a task is running without the
\* lock (emulator.c:404-407), as long as no finished function begins a task.
THEOREM NeverFreedUnderTask == ASSUME NoChains PROVE Spec => []NeverFreedInUse
<1>1. CancelInv => NeverFreedInUse
  BY DEF CancelInv
<1>2. QED
  BY <1>1, CancelAlways, NoChains, PTL

-----------------------------------------------------------------------------
(* Sequences of tasks *)

Distinct(s) == \A i, j \in DOMAIN s : s[i] = s[j] => i = j
Tasks(q) == [i \in DOMAIN q |-> q[i].task]
Result(t, c) == [task |-> t, cancelled |-> c]

LEMMA AppendElements ==
  ASSUME NEW S, NEW s \in Seq(S), NEW x \in S
  PROVE  /\ Elements(Append(s, x)) = Elements(s) \cup {x}
         /\ Distinct(s) /\ x \notin Elements(s) => Distinct(Append(s, x))
<1>1. /\ Append(s, x) \in Seq(S) /\ Len(Append(s, x)) = Len(s) + 1
      /\ Len(s) \in Nat /\ DOMAIN s = 1..Len(s)
      /\ DOMAIN Append(s, x) = 1..Len(s) + 1
      /\ \A i \in 1..Len(s) : Append(s, x)[i] = s[i]
      /\ Append(s, x)[Len(s) + 1] = x
  OBVIOUS
<1>2. Elements(Append(s, x)) = Elements(s) \cup {x}
  BY <1>1 DEF Elements
<1>3. Distinct(s) /\ x \notin Elements(s) => Distinct(Append(s, x))
  BY <1>1 DEF Elements, Distinct
<1>4. QED
  BY <1>2, <1>3

LEMMA TailElements ==
  ASSUME NEW S, NEW s \in Seq(S), s # <<>>
  PROVE  /\ Head(s) \in S /\ Tail(s) \in Seq(S)
         /\ Elements(s) = {Head(s)} \cup Elements(Tail(s))
         /\ Distinct(s) => Distinct(Tail(s)) /\ Head(s) \notin Elements(Tail(s))
<1>1. /\ Len(s) \in Nat \ {0} /\ DOMAIN s = 1..Len(s)
      /\ Head(s) = s[1] /\ Head(s) \in S
      /\ Tail(s) \in Seq(S) /\ DOMAIN Tail(s) = 1..Len(s) - 1
      /\ \A i \in 1..Len(s) - 1 : Tail(s)[i] = s[i + 1]
  OBVIOUS
<1>2. Elements(s) = {Head(s)} \cup Elements(Tail(s))
  <2>1. \A i \in DOMAIN s : s[i] \in {Head(s)} \cup Elements(Tail(s))
    <3> SUFFICES ASSUME NEW i \in DOMAIN s, i # 1 PROVE s[i] \in Elements(Tail(s))
      BY <1>1
    <3>1. i - 1 \in DOMAIN Tail(s) /\ Tail(s)[i - 1] = s[i]
      BY <1>1
    <3>2. QED
      BY <3>1 DEF Elements
  <2>2. \A i \in DOMAIN Tail(s) : Tail(s)[i] \in Elements(s)
    <3> SUFFICES ASSUME NEW i \in DOMAIN Tail(s) PROVE Tail(s)[i] \in Elements(s)
      OBVIOUS
    <3>1. i + 1 \in DOMAIN s /\ Tail(s)[i] = s[i + 1]
      BY <1>1
    <3>2. QED
      BY <3>1 DEF Elements
  <2>3. Head(s) \in Elements(s)
    BY <1>1 DEF Elements
  <2>4. QED
    BY <2>1, <2>2, <2>3 DEF Elements
<1>3. Distinct(s) => Distinct(Tail(s)) /\ Head(s) \notin Elements(Tail(s))
  BY <1>1 DEF Elements, Distinct
<1>4. QED
  BY <1>1, <1>2, <1>3

LEMMA ConcatElements ==
  ASSUME NEW S, NEW s \in Seq(S), NEW t \in Seq(S)
  PROVE  /\ s \o t \in Seq(S)
         /\ Elements(s \o t) = Elements(s) \cup Elements(t)
         /\ Distinct(s) /\ Distinct(t) /\ Elements(s) \cap Elements(t) = {}
              => Distinct(s \o t)
<1>1. /\ s \o t \in Seq(S) /\ Len(s) \in Nat /\ Len(t) \in Nat
      /\ DOMAIN s = 1..Len(s) /\ DOMAIN t = 1..Len(t)
      /\ DOMAIN (s \o t) = 1..Len(s) + Len(t)
      /\ \A i \in 1..Len(s) : (s \o t)[i] = s[i]
      /\ \A i \in 1..Len(t) : (s \o t)[Len(s) + i] = t[i]
  OBVIOUS
<1> DEFINE both == s \o t
<1>2. /\ DOMAIN both = 1..Len(s) + Len(t)
      /\ \A i \in DOMAIN s : both[i] = s[i]
      /\ \A i \in DOMAIN t : both[Len(s) + i] = t[i]
  BY <1>1
<1> HIDE DEF both
<1>3. \A i \in DOMAIN both : i \in DOMAIN s \/ i - Len(s) \in DOMAIN t
  BY <1>1, <1>2
<1>4. \A i \in DOMAIN both : i \notin DOMAIN s => both[i] = t[i - Len(s)]
  BY <1>1, <1>2
<1>5. Elements(both) = Elements(s) \cup Elements(t)
  <2>1. \A i \in DOMAIN both : both[i] \in Elements(s) \cup Elements(t)
    BY <1>2, <1>3, <1>4 DEF Elements
  <2>2. \A i \in DOMAIN s : i \in DOMAIN both /\ s[i] = both[i]
    BY <1>1, <1>2
  <2>3. \A i \in DOMAIN t : Len(s) + i \in DOMAIN both /\ t[i] = both[Len(s) + i]
    BY <1>1, <1>2
  <2>4. QED
    BY <2>1, <2>2, <2>3 DEF Elements
<1>6. Distinct(s) /\ Distinct(t) /\ Elements(s) \cap Elements(t) = {} => Distinct(both)
  <2> SUFFICES ASSUME Distinct(s), Distinct(t), Elements(s) \cap Elements(t) = {},
                      NEW i \in DOMAIN both, NEW j \in DOMAIN both, both[i] = both[j]
               PROVE  i = j
    BY DEF Distinct
  <2>1. \A k \in DOMAIN both : IF k \in DOMAIN s THEN both[k] \in Elements(s)
                               ELSE both[k] \in Elements(t)
    BY <1>2, <1>3, <1>4 DEF Elements
  <2>2. i \in DOMAIN s <=> j \in DOMAIN s
    BY <2>1
  <2>3. CASE i \in DOMAIN s
    BY <1>2, <2>2, <2>3 DEF Distinct
  <2>4. CASE i \notin DOMAIN s
    <3>1. t[i - Len(s)] = t[j - Len(s)]
      BY <1>4, <2>2, <2>4
    <3>2. i - Len(s) \in DOMAIN t /\ j - Len(s) \in DOMAIN t
      BY <1>3, <2>2, <2>4
    <3>3. i - Len(s) = j - Len(s)
      BY <3>1, <3>2 DEF Distinct
    <3>4. QED
      BY <1>1, <1>2, <3>3
  <2>5. QED
    BY <2>3, <2>4
<1>7. QED
  BY <1>1, <1>5, <1>6 DEF both
\* Every callback says whether its task is in d
Marked(q, d) == \A i \in DOMAIN q : q[i].cancelled <=> q[i].task \in d
Callback == [task : Task, cancelled : BOOLEAN]

LEMMA TasksType ==
  ASSUME NEW q \in Seq(Callback)
  PROVE  /\ Tasks(q) \in Seq(Task) /\ Len(Tasks(q)) = Len(q)
         /\ Tasks(q) = [i \in 1..Len(q) |-> q[i].task]
<1>1. /\ Len(q) \in Nat /\ DOMAIN q = 1..Len(q)
      /\ \A i \in 1..Len(q) : q[i] \in Callback
  OBVIOUS
<1>2. \A i \in 1..Len(q) : q[i].task \in Task
  BY <1>1 DEF Callback
<1>3. QED
  BY <1>1, <1>2 DEF Tasks

LEMMA TasksOfAppend ==
  ASSUME NEW q \in Seq(Callback), NEW t \in Task, NEW c \in BOOLEAN
  PROVE  /\ Tasks(q) \in Seq(Task)
         /\ Append(q, Result(t, c)) \in Seq(Callback)
         /\ Tasks(Append(q, Result(t, c))) = Append(Tasks(q), t)
         /\ \A d : Marked(q, d) /\ (c <=> t \in d) => Marked(Append(q, Result(t, c)), d)
<1> DEFINE r == Result(t, c)
<1>1. r \in Callback /\ r.task = t /\ r.cancelled = c
  BY DEF Callback, Result
<1> HIDE DEF r
<1>2. /\ Len(q) \in Nat /\ DOMAIN q = 1..Len(q) /\ Append(q, r) \in Seq(Callback)
      /\ DOMAIN Append(q, r) = 1..Len(q) + 1
      /\ \A i \in 1..Len(q) : Append(q, r)[i] = q[i] /\ q[i] \in Callback
      /\ Append(q, r)[Len(q) + 1] = r
  BY <1>1
<1>4. Tasks(q) \in Seq(Task) /\ Tasks(q) = [i \in 1..Len(q) |-> q[i].task]
  BY TasksType
<1>5. Len(Tasks(q)) = Len(q)
  BY TasksType
<1>6. Tasks(Append(q, r)) = Append(Tasks(q), t)
  <2>1. Tasks(Append(q, r)) = [i \in 1..Len(q) + 1 |-> IF i = Len(q) + 1 THEN t ELSE q[i].task]
    BY <1>1, <1>2 DEF Tasks
  <2>2. Append(Tasks(q), t) = [i \in 1..Len(q) + 1 |-> IF i = Len(q) + 1 THEN t ELSE q[i].task]
    BY <1>2, <1>4, <1>5
  <2>3. QED
    BY <2>1, <2>2
<1>7. \A d : Marked(q, d) /\ (c <=> t \in d) => Marked(Append(q, r), d)
  BY <1>1, <1>2 DEF Marked
<1>8. QED
  BY <1>2, <1>4, <1>6, <1>7 DEF r

LEMMA TasksOfTail ==
  ASSUME NEW q \in Seq(Callback), q # <<>>
  PROVE  /\ Head(q) \in Callback /\ Tail(q) \in Seq(Callback)
         /\ Tasks(q) \in Seq(Task) /\ Tasks(q) # <<>>
         /\ Head(Tasks(q)) = Head(q).task /\ Tasks(Tail(q)) = Tail(Tasks(q))
         /\ \A d : Marked(q, d) => /\ Marked(Tail(q), d)
                                   /\ Head(q).cancelled <=> Head(q).task \in d
<1>1. /\ Len(q) \in Nat \ {0} /\ DOMAIN q = 1..Len(q)
      /\ Head(q) = q[1] /\ Head(q) \in Callback
      /\ Tail(q) \in Seq(Callback) /\ DOMAIN Tail(q) = 1..Len(q) - 1
      /\ \A i \in 1..Len(q) - 1 : Tail(q)[i] = q[i + 1]
      /\ \A i \in 1..Len(q) : q[i] \in Callback
  OBVIOUS
<1>3. Tasks(q) = [i \in 1..Len(q) |-> q[i].task]
  BY TasksType
<1>4. Tasks(q) \in Seq(Task) /\ Len(Tasks(q)) = Len(q)
  BY TasksType
<1>5. Tasks(q) # <<>> /\ Head(Tasks(q)) = Head(q).task
  BY <1>1, <1>3, <1>4
<1>6. Tasks(Tail(q)) = Tail(Tasks(q))
  <2>1. Len(Tail(q)) = Len(q) - 1
    BY HeadTailProperties
  <2>2. /\ Tasks(Tail(q)) \in Seq(Task) /\ Len(Tasks(Tail(q))) = Len(q) - 1
        /\ Tasks(Tail(q)) = [i \in 1..Len(q) - 1 |-> Tail(q)[i].task]
    BY <1>1, <2>1, TasksType
  <2>3. /\ Tail(Tasks(q)) \in Seq(Task) /\ Len(Tail(Tasks(q))) = Len(q) - 1
        /\ \A i \in 1..Len(q) - 1 : Tail(Tasks(q))[i] = Tasks(q)[i + 1]
    BY <1>1, <1>4, <1>5, HeadTailProperties
  <2>4. \A i \in 1..Len(q) - 1 : Tasks(Tail(q))[i] = Tail(Tasks(q))[i]
    BY <1>1, <1>3, <2>2, <2>3
  <2>5. QED
    BY <2>2, <2>3, <2>4, SeqEqual
<1>7. \A d : Marked(q, d) => Marked(Tail(q), d) /\ (Head(q).cancelled <=> Head(q).task \in d)
  BY <1>1 DEF Marked
<1>8. QED
  BY <1>1, <1>4, <1>5, <1>6, <1>7

LEMMA TasksOfConcat ==
  ASSUME NEW q \in Seq(Callback), NEW s \in Seq(Task)
  PROVE  /\ q \o Cancelled(s) \in Seq(Callback)
         /\ Tasks(q) \in Seq(Task)
         /\ Tasks(q \o Cancelled(s)) = Tasks(q) \o s
         /\ \A d : Marked(q, d) /\ Elements(s) \subseteq d => Marked(q \o Cancelled(s), d)
<1> DEFINE c == Cancelled(s)
<1>1. /\ Len(s) \in Nat /\ DOMAIN s = 1..Len(s)
      /\ \A i \in 1..Len(s) : s[i] \in Task
  OBVIOUS
<1>2. c \in Seq(Callback)
  BY CancelledType DEF Callback
<1>3. c = [i \in 1..Len(s) |-> [task |-> s[i], cancelled |-> TRUE]]
  BY <1>1 DEF Cancelled
<1>4. Len(c) = Len(s) /\ \A i \in 1..Len(s) : c[i].task = s[i] /\ c[i].cancelled
  BY <1>1, <1>2, <1>3
<1> HIDE DEF c
<1>5. /\ Len(q) \in Nat /\ DOMAIN q = 1..Len(q)
      /\ \A i \in 1..Len(q) : q[i] \in Callback
  OBVIOUS
<1>6. /\ q \o c \in Seq(Callback) /\ DOMAIN (q \o c) = 1..Len(q) + Len(s)
      /\ \A i \in 1..Len(q) + Len(s) :
           (q \o c)[i] = IF i <= Len(q) THEN q[i] ELSE c[i - Len(q)]
  BY <1>1, <1>2, <1>4, <1>5, SMTT(20)
<1>8. Tasks(q) \in Seq(Task) /\ Tasks(q) = [i \in 1..Len(q) |-> q[i].task]
  BY TasksType
<1>9. Len(Tasks(q)) = Len(q)
  BY TasksType
<1>10. \A i \in 1..Len(q) + Len(s) : i > Len(q) => i - Len(q) \in 1..Len(s)
  BY <1>1, <1>5
<1>11. Tasks(q \o c) = Tasks(q) \o s
  <2>1. Tasks(q \o c) = [i \in 1..Len(q) + Len(s) |->
                            IF i <= Len(q) THEN q[i].task ELSE s[i - Len(q)]]
    BY <1>1, <1>4, <1>5, <1>6, <1>10 DEF Tasks
  <2>2. Tasks(q) \o s = [i \in 1..Len(q) + Len(s) |->
                            IF i <= Len(q) THEN Tasks(q)[i] ELSE s[i - Len(q)]]
    BY <1>1, <1>5, <1>8, <1>9
  <2>3. QED
    BY <1>1, <1>5, <1>8, <2>1, <2>2
<1>12. \A d : Marked(q, d) /\ Elements(s) \subseteq d => Marked(q \o c, d)
  <2> SUFFICES ASSUME NEW d, Marked(q, d), Elements(s) \subseteq d,
                      NEW i \in 1..Len(q) + Len(s)
               PROVE  (q \o c)[i].cancelled <=> (q \o c)[i].task \in d
    BY <1>6 DEF Marked
  <2>1. CASE i <= Len(q)
    BY <1>5, <1>6, <2>1 DEF Marked
  <2>2. CASE ~ (i <= Len(q))
    <3>1. i - Len(q) \in 1..Len(s) /\ (q \o c)[i] = c[i - Len(q)]
      BY <1>1, <1>5, <1>6, <2>2
    <3>2. s[i - Len(q)] \in d
      BY <1>1, <3>1 DEF Elements
    <3>3. QED
      BY <1>4, <3>1, <3>2
  <2>3. QED
    BY <2>1, <2>2
<1>13. QED
  BY <1>6, <1>8, <1>11, <1>12 DEF c
-----------------------------------------------------------------------------
(* Where each task is.  A task is in one place at a time: the queue, the core *)
(* thread, the list cancel_tasks took, or an idle callback; the history says *)
(* which of them have been dropped.                                          *)

QueueInv ==
  /\ Distinct(task_queue) /\ Distinct(old_queue) /\ Distinct(Tasks(idle_queue))
  /\ cur \notin Elements(task_queue)
  /\ Elements(Tasks(idle_queue)) \cap Elements(task_queue) = {}
  /\ Elements(Tasks(idle_queue)) \cap Elements(old_queue) = {}
  /\ cur \notin Elements(Tasks(idle_queue))

FateInv ==
  /\ \A t \in Elements(task_queue) : fate[t] = "begun"
  /\ \A t \in Elements(old_queue) : fate[t] = "begun"
  /\ \A t \in Elements(Tasks(idle_queue)) : fate[t] = "begun"
  /\ cur \in Task => fate[cur] = "begun"
  /\ \A t \in doomed : fate[t] # "none"

DoomedInv ==
  /\ Elements(task_queue) \cap doomed = {}
  /\ Elements(old_queue) \subseteq doomed
  /\ cur \notin doomed
  /\ Marked(idle_queue, doomed)

\* The GUI thread begins, or is about to begin
Beginning == Asking /\ act = "begin"

\* A task that another one's finished function begins has not been begun, nor
\* asked for, before that function is called.
AskingInv ==
  /\ Beginning => fate[arg] = "none"
  /\ \A t \in Task :
       Successor[t] # NoTask /\ fate[t] \notin {"finished", "cancelled"} =>
         /\ fate[Successor[t]] = "none"
         /\ ~ (Beginning /\ arg = Successor[t])

TaskInv == QueueInv /\ FateInv /\ DoomedInv /\ AskingInv

LEMMA TaskInvInit == Init => TaskInv
<1> SUFFICES ASSUME Init PROVE TaskInv
  OBVIOUS
<1>1. Tasks(<<>>) = <<>> /\ Elements(<<>>) = {} /\ Distinct(<<>>) /\ Marked(<<>>, {})
  BY DEF Tasks, Elements, Distinct, Marked
<1>2. QED
  BY <1>1, ConstantsOK DEF Init, TaskInv, QueueInv, FateInv, DoomedInv, AskingInv,
     Beginning, Asking

placeVars == <<task_queue, old_queue, idle_queue, cur, fate, doomed>>

\* A step that moves no task and asks for none
LEMMA TaskInvFrame ==
  ASSUME TaskInv, UNCHANGED placeVars,
         Beginning' => Beginning /\ arg' = arg
  PROVE  TaskInv'
<1>1. QueueInv' /\ FateInv' /\ DoomedInv'
  BY DEF TaskInv, QueueInv, FateInv, DoomedInv, placeVars, Marked, Tasks,
     Elements, Distinct
<1>2. AskingInv'
  BY DEF TaskInv, AskingInv, placeVars
<1>3. QED
  BY <1>1, <1>2 DEF TaskInv

\* finishedf is called, once, for a task that has been begun
LEMMA TaskInvFinish ==
  ASSUME TypeOK, TaskInv, NEW t \in Task, NEW c \in BOOLEAN, NEW here,
         CallFinished(t, c, here), here \notin {"Lock", "Locked"},
         fate[t] = "begun", ~ Asking,
         t \notin Elements(task_queue)', t \notin Elements(old_queue)',
         t \notin Elements(Tasks(idle_queue))', t # cur', UNCHANGED cur,
         Elements(task_queue)' \subseteq Elements(task_queue),
         Elements(old_queue)' \subseteq Elements(old_queue),
         Elements(Tasks(idle_queue))' \subseteq Elements(Tasks(idle_queue)),
         UNCHANGED doomed
  PROVE  FateInv' /\ AskingInv'
<1>1. /\ fate \in [Task -> {"none", "begun", "finished", "cancelled"}]
      /\ doomed \subseteq Task
      /\ Elements(task_queue) \subseteq Task /\ Elements(old_queue) \subseteq Task
  BY ElementsType DEF TypeOK, TaskTypes
<1>2. /\ fate' = [fate EXCEPT ![t] = IF c THEN "cancelled" ELSE "finished"]
      /\ fate'[t] \in {"finished", "cancelled"}
      /\ \A u \in Task : u # t => fate'[u] = fate[u]
      /\ \A u \in Task : fate'[u] = "none" <=> fate[u] = "none"
  BY <1>1 DEF CallFinished
<1>3. Elements(Tasks(idle_queue)) \subseteq Task
  <2>1. idle_queue \in Seq(Callback)
    BY DEF TypeOK, TaskTypes, Callback
  <2>2. QED
    BY <2>1, TasksType, ElementsType
<1>4. FateInv'
  BY <1>1, <1>2, <1>3 DEF TaskInv, FateInv
<1>5. AskingInv'
  <2>1. Beginning' => arg' = Successor[t] /\ Successor[t] # NoTask
    BY DEF CallFinished, WantLock, Beginning, Asking
  <2>2. \A u \in Task : Successor[u] \in Task \cup {NoTask}
    BY ConstantsOK
  <2>3. Successor[t] # NoTask => fate[Successor[t]] = "none"
    BY DEF TaskInv, AskingInv
  <2>4. \A u \in Task : u # t /\ Successor[u] # NoTask => Successor[u] # Successor[t]
    BY ConstantsOK
  <2>5. Beginning' => fate'[arg'] = "none"
    BY <1>2, <2>1, <2>2, <2>3
  <2>6. ASSUME NEW u \in Task, Successor[u] # NoTask, fate'[u] \notin {"finished", "cancelled"}
        PROVE  /\ fate'[Successor[u]] = "none"
               /\ ~ (Beginning' /\ arg' = Successor[u])
    <3>1. u # t /\ fate[u] = fate'[u]
      BY <1>2, <2>6
    <3>2. fate[Successor[u]] = "none"
      BY <2>6, <3>1 DEF TaskInv, AskingInv
    <3>3. QED
      BY <1>2, <2>1, <2>2, <2>4, <2>6, <3>1, <3>2
  <2>7. QED
    BY <2>5, <2>6 DEF AskingInv
<1>6. QED
  BY <1>4, <1>5
LEMMA TaskInvStep == IInv /\ TaskInv /\ [Next]_vars => TaskInv'
<1> SUFFICES ASSUME IInv, TaskInv, [Next]_vars PROVE TaskInv'
  OBVIOUS
<1>a. /\ TypeOK /\ GuiInv
      /\ core = "Loop" => cur = NoTask
      /\ core = "Task" => cur \in Task
  BY DEF IInv, CoreInv, TypeOK, TaskTypes, ThreadTypes
<1>b. /\ task_queue \in Seq(Task) /\ old_queue \in Seq(Task)
      /\ idle_queue \in Seq(Callback)
      /\ fate \in [Task -> {"none", "begun", "finished", "cancelled"}]
      /\ doomed \subseteq Task
  BY <1>a DEF TypeOK, TaskTypes, Callback
<1>c. /\ Elements(task_queue) \subseteq Task /\ Elements(old_queue) \subseteq Task
      /\ Tasks(idle_queue) \in Seq(Task) /\ Elements(Tasks(idle_queue)) \subseteq Task
  BY <1>b, ElementsType, TasksType
<1>d. Elements(<<>>) = {} /\ Distinct(<<>>)
  BY DEF Elements, Distinct
<1>1. CASE begin_task
  <2>1. arg \in Task /\ fate[arg] = "none" /\ Beginning /\ ~ Beginning'
    <3>1. gui = "Locked" /\ act = "begin" /\ gui' = after
      BY <1>1 DEF begin_task, Holding, Leave
    <3>2. after \notin {"Lock", "Locked"}
      BY <1>a DEF TypeOK, ThreadTypes
    <3>3. QED
      BY <1>a, <3>1, <3>2 DEF GuiInv, TaskInv, AskingInv, Beginning, Asking
  <2>2. /\ task_queue' = Append(task_queue, arg)
        /\ fate' = [fate EXCEPT ![arg] = "begun"]
        /\ UNCHANGED <<old_queue, cur, idle_queue, doomed>>
    BY <1>1 DEF begin_task
  <2>3. /\ arg \notin Elements(task_queue) /\ arg \notin Elements(old_queue)
        /\ arg \notin Elements(Tasks(idle_queue)) /\ arg # cur /\ arg \notin doomed
    BY <2>1 DEF TaskInv, FateInv
  <2>4. Elements(task_queue)' = Elements(task_queue) \cup {arg} /\ Distinct(task_queue)'
    BY <1>b, <2>1, <2>2, <2>3, AppendElements DEF TaskInv, QueueInv
  <2>5. QueueInv'
    BY <2>2, <2>3, <2>4 DEF TaskInv, QueueInv
  <2>6. FateInv'
    BY <1>b, <1>c, <2>1, <2>2, <2>4 DEF TaskInv, FateInv
  <2>7. DoomedInv'
    BY <2>2, <2>3, <2>4 DEF TaskInv, DoomedInv
  <2>8. AskingInv'
    <3>1. \A t \in Task : Successor[t] \in Task \cup {NoTask}
      BY ConstantsOK
    <3>2. QED
      BY <1>b, <2>1, <2>2, <3>1 DEF TaskInv, AskingInv
  <2>9. QED
    BY <2>5, <2>6, <2>7, <2>8 DEF TaskInv
<1>2. CASE cancel_begin
  <2>1. /\ old_queue' = task_queue /\ task_queue' = <<>>
        /\ doomed' = doomed \cup Elements(task_queue)
        /\ UNCHANGED <<cur, idle_queue, fate>>
    BY <1>2 DEF cancel_begin
  <2>2. ~ Beginning /\ ~ Beginning'
    BY <1>2, <1>a DEF cancel_begin, Holding, Leave, Beginning, Asking, TypeOK, ThreadTypes
  <2>3. QueueInv'
    BY <1>d, <2>1 DEF TaskInv, QueueInv
  <2>4. FateInv'
    BY <1>d, <2>1 DEF TaskInv, FateInv
  <2>5. DoomedInv'
    <3>1. Marked(idle_queue, doomed')
      <4>1. \A i \in DOMAIN idle_queue : idle_queue[i].task \notin Elements(task_queue)
        BY DEF TaskInv, QueueInv, Elements, Tasks
      <4>2. QED
        BY <2>1, <4>1 DEF TaskInv, DoomedInv, Marked
    <3>2. cur \notin doomed'
      BY <2>1 DEF TaskInv, DoomedInv, QueueInv
    <3>3. QED
      BY <1>d, <2>1, <3>1, <3>2 DEF DoomedInv, Marked
  <2>6. AskingInv'
    BY <2>1, <2>2 DEF TaskInv, AskingInv
  <2>7. QED
    BY <2>3, <2>4, <2>5, <2>6 DEF TaskInv
<1>3. CASE run_task
  <2>1. /\ task_queue # <<>> /\ cur' = Head(task_queue) /\ task_queue' = Tail(task_queue)
        /\ cur = NoTask
        /\ UNCHANGED <<gui, act, arg, old_queue, idle_queue, fate, doomed>>
    BY <1>3, <1>a DEF run_task, guiVars
  <2>2. /\ Head(task_queue) \in Task
        /\ Elements(task_queue) = {Head(task_queue)} \cup Elements(task_queue')
        /\ Distinct(task_queue') /\ Head(task_queue) \notin Elements(task_queue')
    BY <1>b, <2>1, TailElements DEF TaskInv, QueueInv
  <2>3. QueueInv'
    BY <2>1, <2>2 DEF TaskInv, QueueInv
  <2>4. FateInv'
    BY <2>1, <2>2 DEF TaskInv, FateInv
  <2>5. DoomedInv'
    BY <2>1, <2>2 DEF TaskInv, DoomedInv
  <2>6. AskingInv'
    BY <2>1 DEF TaskInv, AskingInv, Beginning, Asking
  <2>7. QED
    BY <2>3, <2>4, <2>5, <2>6 DEF TaskInv
<1>4. CASE task_return
  <2>1. cur \in Task /\ cur' = NoTask /\ UNCHANGED <<gui, act, arg, old_queue, fate>>
    BY <1>4, <1>a DEF task_return, guiVars
  <2> DEFINE one == Append(idle_queue, Result(cur, FALSE))
  <2>2. /\ one \in Seq(Callback) /\ Tasks(one) = Append(Tasks(idle_queue), cur)
        /\ Marked(one, doomed)
    BY <1>b, <2>1, TasksOfAppend DEF TaskInv, DoomedInv
  <2>3. /\ Elements(Tasks(one)) = Elements(Tasks(idle_queue)) \cup {cur}
        /\ Distinct(Tasks(one))
        /\ Elements(Tasks(one)) \cap Elements(task_queue) = {}
        /\ Elements(Tasks(one)) \cap Elements(old_queue) = {}
    <3> DEFINE waiting == Tasks(idle_queue)
    <3>a. /\ waiting \in Seq(Task) /\ Distinct(waiting) /\ cur \notin Elements(waiting)
          /\ Tasks(one) = Append(waiting, cur)
      BY <1>c, <2>2 DEF TaskInv, QueueInv
    <3> HIDE DEF waiting, one
    <3>b. Elements(Tasks(one)) = Elements(waiting) \cup {cur} /\ Distinct(Tasks(one))
      BY <2>1, <3>a, AppendElements
    <3>1. Elements(Tasks(one)) = Elements(Tasks(idle_queue)) \cup {cur} /\ Distinct(Tasks(one))
      BY <3>b DEF waiting
    <3>2. cur \notin Elements(old_queue)
      BY DEF TaskInv, DoomedInv
    <3>3. QED
      BY <3>1, <3>2 DEF TaskInv, QueueInv
  <2>4. NoTask \notin Task
    BY ConstantsOK
  <2>5. CASE idle_queue' = one /\ UNCHANGED <<task_queue, doomed>>
    <3> HIDE DEF one
    <3>1. Tasks(idle_queue)' = Tasks(one)
      BY <2>5
    <3>2. QueueInv'
      BY <1>c, <2>1, <2>3, <2>4, <2>5, <3>1 DEF TaskInv, QueueInv
    <3>3. FateInv'
      BY <2>1, <2>3, <2>4, <2>5, <3>1 DEF TaskInv, FateInv
    <3>4. DoomedInv'
      BY <1>b, <2>1, <2>2, <2>4, <2>5 DEF TaskInv, DoomedInv
    <3>5. AskingInv'
      BY <2>1 DEF TaskInv, AskingInv, Beginning, Asking
    <3>6. QED
      BY <3>2, <3>3, <3>4, <3>5 DEF TaskInv
  <2>6. CASE /\ idle_queue' = one \o Cancelled(task_queue) /\ task_queue' = <<>>
             /\ doomed' = doomed \cup Elements(task_queue)
    <3> HIDE DEF one
    <3>1. /\ idle_queue' \in Seq(Callback)
          /\ Tasks(one) \in Seq(Task)
          /\ Tasks(idle_queue)' = Tasks(one) \o task_queue
      BY <1>b, <2>2, <2>6, TasksOfConcat
    <3>2. /\ Elements(Tasks(idle_queue)') = Elements(Tasks(one)) \cup Elements(task_queue)
          /\ Distinct(Tasks(idle_queue)')
      BY <1>b, <2>3, <3>1, ConcatElements DEF TaskInv, QueueInv
    <3>3. Elements(task_queue) \cap Elements(old_queue) = {}
      BY DEF TaskInv, DoomedInv
    <3>4. QueueInv'
      BY <1>c, <1>d, <2>1, <2>3, <2>4, <2>6, <3>2, <3>3 DEF TaskInv, QueueInv
    <3>5. FateInv'
      BY <1>d, <2>1, <2>3, <2>4, <2>6, <3>2 DEF TaskInv, FateInv
    <3>6. DoomedInv'
      <4>1. Marked(one, doomed')
        <5>1. \A i \in DOMAIN one : one[i].task \notin Elements(task_queue)
          BY <2>3 DEF Elements, Tasks
        <5>2. QED
          BY <2>2, <2>6, <5>1 DEF Marked
      <4>2. Marked(idle_queue', doomed')
        BY <1>b, <2>2, <2>6, <4>1, TasksOfConcat
      <4>3. QED
        BY <1>b, <1>c, <1>d, <2>1, <2>4, <2>6, <4>2 DEF TaskInv, DoomedInv
    <3>7. AskingInv'
      BY <2>1 DEF TaskInv, AskingInv, Beginning, Asking
    <3>8. QED
      BY <3>4, <3>5, <3>6, <3>7 DEF TaskInv
  <2>7. QED
    BY <1>4, <2>5, <2>6 DEF task_return, Result
<1>5. CASE taskfinished
  <2> DEFINE t == Head(idle_queue).task
             c == Head(idle_queue).cancelled
  <2>1. /\ idle_queue # <<>> /\ idle_queue' = Tail(idle_queue)
        /\ CallFinished(t, c, gui) /\ gui \in {"Idle", "Loading"}
        /\ UNCHANGED <<old_queue, task_queue, cur, doomed>>
    BY <1>5 DEF taskfinished
  <2>2. /\ t \in Task /\ c \in BOOLEAN
        /\ Tasks(idle_queue) # <<>> /\ Head(Tasks(idle_queue)) = t
        /\ Tasks(idle_queue') = Tail(Tasks(idle_queue))
        /\ Marked(idle_queue', doomed)
    BY <1>b, <2>1, TasksOfTail DEF TaskInv, DoomedInv, Callback
  <2> HIDE DEF t, c
  <2>3. /\ Elements(Tasks(idle_queue)) = {t} \cup Elements(Tasks(idle_queue'))
        /\ Distinct(Tasks(idle_queue')) /\ t \notin Elements(Tasks(idle_queue'))
    BY <1>c, <2>2, TailElements DEF TaskInv, QueueInv
  <2>4. /\ fate[t] = "begun" /\ t \notin Elements(task_queue)
        /\ t \notin Elements(old_queue) /\ t # cur
    BY <2>3 DEF TaskInv, QueueInv, FateInv
  <2>5. QueueInv'
    BY <2>1, <2>3 DEF TaskInv, QueueInv
  <2>6. FateInv' /\ AskingInv'
    <3>1. ~ Asking
      BY <2>1 DEF Asking
    <3>2. QED
      BY <1>a, <2>1, <2>2, <2>3, <2>4, <3>1, TaskInvFinish
  <2>7. DoomedInv'
    BY <2>1, <2>2 DEF TaskInv, DoomedInv
  <2>8. QED
    BY <2>5, <2>6, <2>7 DEF TaskInv
<1>6. CASE cancel_drain
  <2> DEFINE t == Head(old_queue)
  <2>1. /\ gui = "Drain" /\ old_queue # <<>> /\ old_queue' = Tail(old_queue)
        /\ CallFinished(t, TRUE, "Drain")
        /\ UNCHANGED <<task_queue, cur, idle_queue, doomed>>
    BY <1>6 DEF cancel_drain, taskVars
  <2>2. /\ t \in Task
        /\ Elements(old_queue) = {t} \cup Elements(old_queue')
        /\ Distinct(old_queue') /\ t \notin Elements(old_queue')
    BY <1>b, <2>1, TailElements DEF TaskInv, QueueInv
  <2> HIDE DEF t
  <2>3. /\ fate[t] = "begun" /\ t \in doomed /\ t \notin Elements(task_queue)
        /\ t \notin Elements(Tasks(idle_queue)) /\ t # cur
    BY <2>2 DEF TaskInv, QueueInv, FateInv, DoomedInv
  <2>4. QueueInv'
    BY <2>1, <2>2 DEF TaskInv, QueueInv
  <2>5. FateInv' /\ AskingInv'
    <3>1. ~ Asking
      BY <2>1 DEF Asking
    <3>2. QED
      BY <1>a, <2>1, <2>2, <2>3, <3>1, TaskInvFinish
  <2>6. DoomedInv'
    BY <2>1, <2>2 DEF TaskInv, DoomedInv
  <2>7. QED
    BY <2>4, <2>5, <2>6 DEF TaskInv
<1>7. CASE UserAct
  <2>1. UNCHANGED placeVars /\ ~ Beginning
    BY <1>7 DEF UserAct, placeVars, taskVars, history, Beginning, Asking
  <2>2. QueueInv' /\ FateInv' /\ DoomedInv'
    BY <2>1 DEF TaskInv, QueueInv, FateInv, DoomedInv, placeVars, Marked, Tasks,
       Elements, Distinct
  <2>3. Beginning' => arg' \in Roots /\ fate[arg'] = "none"
    BY <1>7 DEF UserAct, WantLock, Beginning, Asking
  <2>4. AskingInv'
    BY <2>1, <2>3 DEF TaskInv, AskingInv, placeVars, Roots
  <2>5. QED
    BY <2>2, <2>4 DEF TaskInv
<1> USE DEF placeVars, Beginning, Asking, taskVars, guiVars, history
<1>8. CASE \/ pause \/ run \/ press_key \/ set_device \/ swap_calc \/ set_exiting
  <2>1. UNCHANGED placeVars /\ ~ Beginning'
    BY <1>8, <1>a DEF pause, run, press_key, set_device, swap_calc, set_exiting,
       Holding, Leave, TypeOK, ThreadTypes
  <2>2. QED
    BY <2>1, TaskInvFrame
<1>9. CASE \/ tilem_calc_emulator_lock \/ cancel_lock \/ cancel_drained \/ cancel_wait
           \/ cancel_end \/ set_limit_speed \/ UserCancel \/ load_files \/ join
  <2>1. UNCHANGED placeVars /\ (Beginning' => Beginning /\ arg' = arg)
    BY <1>9 DEF tilem_calc_emulator_lock, cancel_lock, cancel_drained, cancel_wait,
       cancel_end, CancelCaller, set_limit_speed, UserCancel, load_files, join, WantLock
  <2>2. QED
    BY <2>1, TaskInvFrame
<1>10. CASE \/ tilem_em_lock \/ spurious_wakeup \/ report_idle \/ em_run_io
            \/ em_run_abort \/ em_run_wait \/ em_run_z80 \/ task_unlock \/ core_exit
  <2>1. UNCHANGED placeVars /\ (Beginning' => Beginning /\ arg' = arg)
    BY <1>10 DEF tilem_em_lock, spurious_wakeup, report_idle, em_run_io,
       em_run_abort, em_run_wait, em_run_z80, task_unlock, core_exit
  <2>2. QED
    BY <2>1, TaskInvFrame
<1>11. CASE Terminated \/ UNCHANGED vars
  <2>1. UNCHANGED placeVars /\ (Beginning' => Beginning /\ arg' = arg)
    BY <1>11 DEF Terminated, vars
  <2>2. QED
    BY <2>1, TaskInvFrame
<1>12. QED
  BY <1>1, <1>2, <1>3, <1>4, <1>5, <1>6, <1>7, <1>8, <1>9, <1>10, <1>11
     DEF Next, GuiLocked, GuiCancel, GuiUser, CoreStep
LEMMA TaskInvAlways == Spec => []TaskInv
BY TaskInvInit, TaskInvStep, IInvAlways, PTL DEF Spec

-----------------------------------------------------------------------------
(* The task service.  Each step of the two threads is one step of the service *)
(* or leaves it alone.                                                       *)

LEMMA ServiceStutters ==
  ASSUME UNCHANGED placeVars
  PROVE  UNCHANGED Service!vars
BY DEF placeVars, Service!vars, AbstractStatus, Elements

LEMMA ServiceInit == Init => Service!Init
<1> SUFFICES ASSUME Init PROVE Service!Init
  OBVIOUS
<1>1. \A t \in Task : AbstractStatus(t) = "new"
  BY DEF Init, AbstractStatus
<1>2. QED
  BY <1>1 DEF Init, Service!Init
\* One task moves
LEMMA ServiceMove ==
  ASSUME NEW t \in Task, NEW from, NEW to, AbstractStatus(t) = from,
         \A u \in Task : AbstractStatus(u)' = IF u = t THEN to ELSE AbstractStatus(u)
  PROVE  Service!Move(t, from, to)
BY DEF Service!Move

\* finishedf tells the task what the service says has become of it
LEMMA ServiceFinish ==
  ASSUME NEW t \in Task, NEW c \in BOOLEAN, NEW here, CallFinished(t, c, here),
         fate \in [Task -> {"none", "begun", "finished", "cancelled"}],
         fate[t] = "begun", t \notin Elements(task_queue), t # cur, c <=> t \in doomed,
         UNCHANGED <<task_queue, cur, doomed>>
  PROVE  Service!Finish(t)
<1>1. fate' = [fate EXCEPT ![t] = IF c THEN "cancelled" ELSE "finished"]
  BY DEF CallFinished
<1>2. AbstractStatus(t) = IF c THEN "dropped" ELSE "ran"
  BY DEF AbstractStatus
<1>3. CASE c
  <2>1. \A u \in Task : AbstractStatus(u)' = IF u = t THEN "cancelled" ELSE AbstractStatus(u)
    BY <1>1, <1>3 DEF AbstractStatus, Elements
  <2>2. Service!Move(t, "dropped", "cancelled")
    BY <1>2, <1>3, <2>1, ServiceMove
  <2>3. QED
    BY <2>2 DEF Service!Finish
<1>4. CASE ~ c
  <2>1. \A u \in Task : AbstractStatus(u)' = IF u = t THEN "finished" ELSE AbstractStatus(u)
    BY <1>1, <1>4 DEF AbstractStatus, Elements
  <2>2. Service!Move(t, "ran", "finished")
    BY <1>2, <1>4, <2>1, ServiceMove
  <2>3. QED
    BY <2>2 DEF Service!Finish
<1>5. QED
  BY <1>3, <1>4

LEMMA ServiceStep ==
  IInv /\ TaskInv /\ [Next]_vars => [Service!Next]_(Service!vars)
<1> SUFFICES ASSUME IInv, TaskInv, [Next]_vars
             PROVE  Service!Next \/ UNCHANGED Service!vars
  OBVIOUS
<1>a. /\ TypeOK /\ GuiInv /\ QueueInv /\ FateInv /\ DoomedInv /\ AskingInv
      /\ core = "Loop" => cur = NoTask
      /\ core = "Task" => cur \in Task
  BY DEF IInv, CoreInv, TypeOK, TaskTypes, ThreadTypes, TaskInv
<1>b. /\ task_queue \in Seq(Task) /\ old_queue \in Seq(Task)
      /\ idle_queue \in Seq(Callback)
      /\ fate \in [Task -> {"none", "begun", "finished", "cancelled"}]
      /\ doomed \subseteq Task /\ NoTask \notin Task
  BY <1>a, ConstantsOK DEF TypeOK, TaskTypes, Callback
<1>c. Elements(task_queue) \subseteq Task /\ Elements(<<>>) = {}
  BY <1>b, ElementsType DEF Elements
<1>d. \A t \in Task :
        /\ t \in Elements(task_queue) => fate[t] = "begun" /\ t # cur /\ t \notin doomed
        /\ t = cur => fate[t] = "begun" /\ t \notin doomed
        /\ t \in doomed => fate[t] # "none"
  BY <1>a DEF FateInv, QueueInv, DoomedInv
<1>1. CASE begin_task
  <2>1. arg \in Task /\ fate[arg] = "none"
    BY <1>1, <1>a DEF begin_task, Holding, GuiInv, AskingInv, Beginning, Asking
  <2> PICK t \in Task : t = arg
    BY <2>1
  <2>2. /\ task_queue' = Append(task_queue, t)
        /\ fate' = [fate EXCEPT ![t] = "begun"]
        /\ UNCHANGED <<cur, doomed>>
    BY <1>1 DEF begin_task
  <2>3. Elements(task_queue)' = Elements(task_queue) \cup {t}
    BY <1>b, <2>2, AppendElements
  <2>4. fate[t] = "none" /\ AbstractStatus(t) = "new"
    BY <2>1 DEF AbstractStatus
  <2>5. \A u \in Task : AbstractStatus(u)' = IF u = t THEN "queued" ELSE AbstractStatus(u)
    BY <1>b, <1>d, <2>2, <2>3, <2>4 DEF AbstractStatus
  <2>6. Service!Begin(t)
    BY <2>2, <2>4, <2>5, ServiceMove DEF Service!Begin
  <2>7. QED
    BY <2>6 DEF Service!Next
<1>2. CASE run_task
  <2>1. task_queue # <<>> /\ Head(task_queue) \in Task
    BY <1>2, <1>b, TailElements DEF run_task
  <2> PICK t \in Task : t = Head(task_queue)
    BY <2>1
  <2>2. /\ cur' = t /\ task_queue' = Tail(task_queue)
        /\ cur = NoTask /\ UNCHANGED <<fate, doomed>>
    BY <1>2, <1>a DEF run_task
  <2>3. /\ Elements(task_queue) = {t} \cup Elements(task_queue')
        /\ t \notin Elements(task_queue')
    BY <1>a, <1>b, <2>1, <2>2, TailElements DEF QueueInv
  <2>4. AbstractStatus(t) = "queued"
    BY <1>d, <2>3 DEF AbstractStatus
  <2>5. \A u \in Task : AbstractStatus(u)' = IF u = t THEN "running" ELSE AbstractStatus(u)
    BY <1>b, <1>d, <2>2, <2>3 DEF AbstractStatus
  <2>6. \A u \in Task : AbstractStatus(u) # "running"
    BY <1>b, <2>2 DEF AbstractStatus
  <2>7. Service!Start(t)
    BY <2>1, <2>2, <2>4, <2>5, <2>6, ServiceMove DEF Service!Start
  <2>8. QED
    BY <2>7 DEF Service!Next
<1>3. CASE task_return
  <2>1. cur \in Task /\ cur' = NoTask /\ UNCHANGED fate
    BY <1>3, <1>a DEF task_return
  <2> PICK t \in Task : t = cur
    BY <2>1
  <2>2. AbstractStatus(t) = "running"
    BY <1>d DEF AbstractStatus
  <2>3. CASE UNCHANGED <<task_queue, doomed>>
    <3>1. \A u \in Task : AbstractStatus(u)' = IF u = t THEN "ran" ELSE AbstractStatus(u)
      BY <1>b, <1>d, <2>1, <2>3 DEF AbstractStatus
    <3>2. Service!ReturnTrue(t)
      BY <2>2, <2>3, <3>1, ServiceMove DEF Service!ReturnTrue
    <3>3. QED
      BY <3>2 DEF Service!Next
  <2>4. CASE task_queue' = <<>> /\ doomed' = doomed \cup Elements(task_queue)
    <3>1. \A u \in Task : AbstractStatus(u)' =
            IF u = t THEN "ran"
            ELSE IF AbstractStatus(u) = "queued" THEN "dropped" ELSE AbstractStatus(u)
      BY <1>b, <1>c, <1>d, <2>1, <2>4 DEF AbstractStatus
    <3>2. Service!ReturnFalse(t)
      BY <2>2, <2>4, <3>1 DEF Service!ReturnFalse
    <3>3. QED
      BY <3>2 DEF Service!Next
  <2>5. QED
    BY <1>3, <2>3, <2>4 DEF task_return
<1>4. CASE cancel_begin
  <2>1. /\ task_queue' = <<>> /\ doomed' = doomed \cup Elements(task_queue)
        /\ UNCHANGED <<cur, fate>>
    BY <1>4 DEF cancel_begin
  <2>2. \A u \in Task : AbstractStatus(u)' =
          IF AbstractStatus(u) = "queued" THEN "dropped" ELSE AbstractStatus(u)
    BY <1>b, <1>c, <1>d, <2>1 DEF AbstractStatus
  <2>3. Service!Cancel
    BY <2>1, <2>2 DEF Service!Cancel
  <2>4. QED
    BY <2>3 DEF Service!Next
<1>5. CASE taskfinished
  <2>1. idle_queue # <<>>
    BY <1>5 DEF taskfinished
  <2>2. /\ Head(idle_queue).task \in Task /\ Head(idle_queue).cancelled \in BOOLEAN
        /\ Head(idle_queue).cancelled <=> Head(idle_queue).task \in doomed
        /\ Tasks(idle_queue) \in Seq(Task) /\ Tasks(idle_queue) # <<>>
        /\ Head(Tasks(idle_queue)) = Head(idle_queue).task
    BY <1>a, <1>b, <2>1, TasksOfTail DEF DoomedInv, Callback
  <2> PICK t \in Task, c \in BOOLEAN : t = Head(idle_queue).task /\ c = Head(idle_queue).cancelled
    BY <2>2
  <2>3. CallFinished(t, c, gui) /\ UNCHANGED <<task_queue, cur, doomed>>
    BY <1>5 DEF taskfinished
  <2>4. t \in Elements(Tasks(idle_queue)) /\ (c <=> t \in doomed)
    BY <2>2, TailElements
  <2>5. fate[t] = "begun" /\ t \notin Elements(task_queue) /\ t # cur
    BY <1>a, <2>4 DEF QueueInv, FateInv
  <2>6. Service!Finish(t)
    BY <1>b, <2>3, <2>4, <2>5, ServiceFinish
  <2>7. QED
    BY <2>6 DEF Service!Next
<1>6. CASE cancel_drain
  <2>1. /\ old_queue # <<>> /\ Head(old_queue) \in Task
        /\ Head(old_queue) \in Elements(old_queue)
    BY <1>6, <1>b, TailElements DEF cancel_drain
  <2> PICK t \in Task : t = Head(old_queue)
    BY <2>1
  <2>2. CallFinished(t, TRUE, "Drain") /\ UNCHANGED <<task_queue, cur, doomed>>
    BY <1>6 DEF cancel_drain, taskVars
  <2>3. fate[t] = "begun" /\ t \in doomed /\ t \notin Elements(task_queue) /\ t # cur
    BY <1>a, <1>d, <2>1 DEF FateInv, DoomedInv
  <2>4. Service!Finish(t)
    BY <1>b, <2>2, <2>3, ServiceFinish
  <2>5. QED
    BY <2>4 DEF Service!Next
<1> USE DEF placeVars, taskVars, guiVars, history
<1>7. CASE GuiLocked /\ ~ begin_task /\ ~ cancel_begin
  BY <1>7, ServiceStutters DEF GuiLocked, pause, run, press_key, set_device,
     swap_calc, set_exiting
<1>8. CASE \/ tilem_calc_emulator_lock \/ cancel_lock \/ cancel_drained \/ cancel_wait
           \/ cancel_end \/ GuiUser \/ load_files \/ join
  BY <1>8, ServiceStutters DEF tilem_calc_emulator_lock, cancel_lock, cancel_drained,
     cancel_wait, cancel_end, GuiUser, UserAct, set_limit_speed, UserCancel,
     load_files, join
<1>9. CASE \/ tilem_em_lock \/ spurious_wakeup \/ report_idle \/ em_run_io
           \/ em_run_abort \/ em_run_wait \/ em_run_z80 \/ task_unlock \/ core_exit
  BY <1>9, ServiceStutters DEF tilem_em_lock, spurious_wakeup, report_idle, em_run_io,
     em_run_abort, em_run_wait, em_run_z80, task_unlock, core_exit
<1>10. CASE Terminated \/ UNCHANGED vars
  BY <1>10, ServiceStutters DEF Terminated, vars
<1>11. QED
  BY <1>1, <1>2, <1>3, <1>4, <1>5, <1>6, <1>7, <1>8, <1>9, <1>10
     DEF Next, GuiLocked, GuiCancel, CoreStep
\* The queue, the core thread, the idle callbacks and cancel_tasks together keep
\* the promises of emulator.h:248-268, for any tasks, however many, and whatever
\* their finished functions begin: tasks run one at a time in the order they were
\* begun, each finished function is called once, and it is told that its task was
\* cancelled exactly when the task was dropped before it ran.
THEOREM TaskServiceImplemented == Spec => ImplementsTaskService
<1>1. IInv /\ TaskInv /\ [Next]_vars => [Service!Next]_(Service!vars)
  BY ServiceStep
<1>2. QED
  BY ServiceInit, <1>1, IInvAlways, TaskInvAlways, PTL
     DEF Spec, ImplementsTaskService, Service!Spec
=============================================================================
