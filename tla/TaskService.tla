----------------------------- MODULE TaskService -----------------------------
(***************************************************************************)
(* What gui/emulator.h promises of tilem_calc_emulator_begin and            *)
(* tilem_calc_emulator_cancel_tasks, without threads or locks: tasks run    *)
(* one at a time in the order they were begun; a task that returns FALSE    *)
(* and a cancellation drop everything still queued; the finished function   *)
(* of every task is called once, and told whether the task was dropped.     *)
(***************************************************************************)
EXTENDS Sequences, FiniteSets

CONSTANTS Task

VARIABLES
  queue,   \* tasks begun and not yet started, oldest first
  status   \* where each task is in its life

vars == <<queue, status>>

Status == {"new", "queued", "running", "ran", "dropped", "finished", "cancelled"}

TypeOK == queue \in Seq(Task) /\ status \in [Task -> Status]

Init == queue = <<>> /\ status = [t \in Task |-> "new"]

Move(t, from, to) == status[t] = from /\ status' = [status EXCEPT ![t] = to]

Begin(t) == Move(t, "new", "queued") /\ queue' = Append(queue, t)

Start(t) ==
  /\ \A u \in Task : status[u] # "running"
  /\ queue # <<>> /\ t = Head(queue) /\ queue' = Tail(queue)
  /\ Move(t, "queued", "running")

ReturnTrue(t) == Move(t, "running", "ran") /\ UNCHANGED queue

\* Everything queued is dropped, as t (if running) returns FALSE
ReturnFalse(t) ==
  /\ status[t] = "running"
  /\ queue' = <<>>
  /\ status' = [u \in Task |-> IF u = t THEN "ran"
                               ELSE IF status[u] = "queued" THEN "dropped"
                               ELSE status[u]]

Cancel ==
  /\ queue' = <<>>
  /\ status' = [u \in Task |-> IF status[u] = "queued" THEN "dropped" ELSE status[u]]

\* finishedf(..., cancelled)
Finish(t) ==
  /\ Move(t, "ran", "finished") \/ Move(t, "dropped", "cancelled")
  /\ UNCHANGED queue

Next ==
  \/ Cancel
  \/ \E t \in Task : \/ Begin(t) \/ Start(t) \/ ReturnTrue(t)
                     \/ ReturnFalse(t) \/ Finish(t)

Spec == Init /\ [][Next]_vars
=============================================================================
