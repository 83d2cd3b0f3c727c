------------------------------- MODULE QtLink -------------------------------
(***************************************************************************)
(* The link of a calculator in the Qt interface: gui-qt/calc.cpp,          *)
(* calclink.cpp, linkbuffer.h and connectionmanager.cpp.                   *)
(*                                                                         *)
(* Three threads share a calculator's two LinkBuffers. The thread that     *)
(* runs the calculator (Calc::run) moves a byte at a time between them and *)
(* the emulated GrayLink. A FileSender sends files: it puts bytes into     *)
(* m_input and waits until they are gone, or waits for bytes in m_output.  *)
(* The GUI thread forwards what a calculator has written to the one that   *)
(* is connected to it, when the signal bytesAvailable is delivered.        *)
(*                                                                         *)
(* The GrayLink is abstracted to the byte it is sending to the calculator  *)
(* and the byte it has received; LinkPort has its details.                 *)
(***************************************************************************)
EXTENDS Naturals, Sequences, SequencesExt

CONSTANTS
  QtByte,    \* the bytes
  Cap,       \* size of the circular part of a LinkBuffer (1024)
  MaxQueued, \* bound: bytes in m_input
  MaxWritten \* bound: bytes the calculator writes that nobody has taken, and
             \* signals that are not delivered

ASSUME QtConstants == {Cap, MaxQueued, MaxWritten} \subseteq Nat \ {0}

VARIABLES
  m_input, m_output, \* the bytes in the two buffers
  m_link_lock,       \* is the byte that is being sent waited for?
  m_broadcast,       \* is the GUI thread told of what the calculator writes?
  out, in,           \* the byte under way to the calculator; from it: <<>> or one
  run,               \* the thread in Calc::run: "pump", "batch", "emu", "after"
  res,               \* why the emulation stopped
  slots,             \* signals bytesAvailable that are not delivered yet
  sender,            \* the FileSender: "idle", "work", "sent", "receive"
  kept,              \* m_broadcast as the sender found it
  due,               \* history: bytes put into m_input, not yet at the calculator
  amiss,             \* history: the calculator got a byte that was not the next
  stuck              \* history: a byte was dropped while the lock waited for it

qtVars == <<m_input, m_output, m_link_lock, m_broadcast, out, in, run, res,
            slots, sender, kept, due, amiss, stuck>>
buffers == <<m_input, m_output>>
senderVars == <<sender, kept>>
histVars == <<due, amiss, stuck>>

count(buffer) == IF Len(buffer) > Cap THEN Cap ELSE Len(buffer)
ready == out = <<>> /\ in = <<>>

QtInit ==
  /\ m_input = <<>> /\ m_output = <<>> /\ m_link_lock = FALSE
  /\ m_broadcast = TRUE /\ out = <<>> /\ in = <<>> /\ run = "pump" /\ res = {}
  /\ slots = 0 /\ sender = "idle" /\ kept = TRUE
  /\ due = <<>> /\ amiss = FALSE /\ stuck = FALSE

\* The calculator has read byte b.
Arrives(b) ==
  /\ amiss' = (amiss \/ due = <<>> \/ Head(due) # b)
  /\ due' = IF due = <<>> THEN due ELSE Tail(due)
  /\ UNCHANGED stuck

\* The byte under way is lost.
Drop ==
  /\ out' = <<>> /\ in' = <<>>
  /\ due' = IF out = <<>> THEN due ELSE Tail(due)
  /\ stuck' = (stuck \/ (out # <<>> /\ m_link_lock))
  /\ UNCHANGED amiss

-----------------------------------------------------------------------------
(***************************************************************************)
(* Calc::run                                                               *)
(***************************************************************************)
\* The next byte goes to the calculator, which may take it at once.
\* Mutant: only a byte that is taken at once would leave the buffer.
Mut_send_twice(next, lock) ==
  /\ m_input # <<>> /\ ready
  /\ \/ /\ Arrives(Head(m_input)) /\ run' = "batch" /\ m_input' = Tail(m_input)
        /\ UNCHANGED <<m_link_lock, out>>
     \/ /\ out' = <<Head(m_input)>> /\ run' = next /\ m_link_lock' = lock
        /\ UNCHANGED <<m_input, histVars>>
  /\ res' = {}
  /\ UNCHANGED <<m_output, m_broadcast, in, slots, senderVars>>

send(next, lock) ==
  /\ m_input # <<>> /\ ready
  /\ m_input' = Tail(m_input)
  /\ \/ /\ Arrives(Head(m_input)) /\ run' = "batch"
        /\ UNCHANGED <<m_link_lock, out>>
     \/ /\ out' = <<Head(m_input)>> /\ run' = next /\ m_link_lock' = lock
        /\ UNCHANGED histVars
  /\ res' = {}
  /\ UNCHANGED <<m_output, m_broadcast, in, slots, senderVars>>

run_send == run = "pump" /\ ~m_link_lock /\ send("emu", TRUE)

\* Further bytes, as long as the calculator takes them; the last one does not
\* take the lock, even if it is still under way.
run_batch ==
  /\ run = "batch"
  /\ \/ send("emu", m_link_lock)
     \/ /\ m_input = <<>> \/ ~ready
        /\ run' = "emu"
        /\ UNCHANGED <<buffers, m_link_lock, m_broadcast, out, in, res, slots,
                       senderVars, histVars>>

run_get ==
  /\ run = "pump" /\ ~m_link_lock /\ m_input = <<>>
  /\ m_output' = m_output \o in /\ in' = <<>>
  /\ slots' = IF in # <<>> /\ m_broadcast THEN slots + 1 ELSE slots
  /\ run' = "emu" /\ res' = {}
  /\ UNCHANGED <<m_input, m_link_lock, m_broadcast, out, senderVars, histVars>>

run_locked ==
  /\ run = "pump" /\ (m_link_lock \/ (m_input # <<>> /\ ~ready))
  /\ run' = "emu" /\ res' = {}
  /\ UNCHANGED <<buffers, m_link_lock, m_broadcast, out, in, slots, senderVars,
                 histVars>>

\* The emulation runs until its time is over, or it is stopped: by a byte that
\* the calculator has read or written, or an error on the wires.
calc_takes ==
  /\ run = "emu" /\ out # <<>>
  /\ Arrives(Head(out)) /\ out' = <<>>
  /\ run' = "after" /\ res' = {"write"}
  /\ UNCHANGED <<buffers, m_link_lock, m_broadcast, in, slots, senderVars>>

calc_writes(b) ==
  /\ run = "emu" /\ ready
  /\ Len(m_output) < MaxWritten /\ slots < MaxWritten
  /\ in' = <<b>> /\ run' = "after" /\ res' = {"read"}
  /\ UNCHANGED <<buffers, m_link_lock, m_broadcast, out, slots, senderVars, histVars>>

calc_error ==
  /\ run = "emu"
  /\ Drop /\ run' = "after" /\ res' = {"error"}
  /\ UNCHANGED <<buffers, m_link_lock, m_broadcast, slots, senderVars>>

calc_runs ==
  /\ run = "emu"
  /\ run' = "after" /\ res' = {}
  /\ UNCHANGED <<buffers, m_link_lock, m_broadcast, out, in, slots, senderVars,
                 histVars>>

\* Mutant: the lock would be kept until the next byte.
Mut_keep_lock ==
  /\ run = "after"
  /\ m_link_lock' = m_link_lock
  /\ IF "error" \in res THEN Drop ELSE UNCHANGED <<out, in, histVars>>
  /\ run' = "pump"
  /\ UNCHANGED <<buffers, m_broadcast, res, slots, senderVars>>

run_after ==
  /\ run = "after"
  /\ m_link_lock' = (m_link_lock /\ "write" \notin res)
  /\ IF "error" \in res THEN Drop ELSE UNCHANGED <<out, in, histVars>>
  /\ run' = "pump"
  /\ UNCHANGED <<buffers, m_broadcast, res, slots, senderVars>>

-----------------------------------------------------------------------------
(***************************************************************************)
(* The FileSender: the library that sends the file calls the functions of  *)
(* the internal cable, ilp_..., in an order of its own.                    *)
(***************************************************************************)
pumpVars == <<m_link_lock, run, res>>

sender_begins ==
  /\ sender = "idle" /\ sender' = "work"
  /\ kept' = m_broadcast /\ m_broadcast' = FALSE
  /\ UNCHANGED <<buffers, pumpVars, out, in, slots, histVars>>

ilp_reset ==
  /\ sender = "work" /\ Drop
  /\ UNCHANGED <<buffers, pumpVars, m_broadcast, slots, senderVars>>

ilp_send(b) ==
  /\ sender = "work" /\ Len(m_input) < MaxQueued
  /\ m_input' = Append(m_input, b) /\ due' = Append(due, b)
  /\ sender' = "sent"
  /\ UNCHANGED <<m_output, pumpVars, m_broadcast, out, in, slots, kept, amiss, stuck>>

ilp_sent ==
  /\ sender = "sent" /\ m_input = <<>>
  /\ sender' = "work"
  /\ UNCHANGED <<buffers, pumpVars, m_broadcast, out, in, slots, kept, histVars>>

ilp_recv ==
  /\ sender = "work" /\ count(m_output) > 0
  /\ m_output' = Tail(m_output)
  /\ UNCHANGED <<m_input, pumpVars, m_broadcast, out, in, slots, senderVars, histVars>>

sender_ends ==
  /\ sender = "work" /\ sender' = "idle" /\ m_broadcast' = kept
  /\ UNCHANGED <<buffers, pumpVars, out, in, slots, kept, histVars>>

(***************************************************************************)
(* The GUI thread: the other calculator's bytes arrive in m_input, and its *)
(* own are forwarded when a signal is delivered.                           *)
(***************************************************************************)
connection_sends(b) ==
  /\ Len(m_input) < MaxQueued
  /\ m_input' = Append(m_input, b) /\ due' = Append(due, b)
  /\ UNCHANGED <<m_output, pumpVars, m_broadcast, out, in, slots, senderVars,
                 amiss, stuck>>

bytesAvailable ==
  /\ slots > 0 /\ slots' = slots - 1
  /\ m_output' = SubSeq(m_output, count(m_output) + 1, Len(m_output))
  /\ UNCHANGED <<m_input, pumpVars, m_broadcast, out, in, senderVars, histVars>>

QtNext ==
  \/ run_send \/ run_batch \/ run_get \/ run_locked
  \/ calc_takes \/ calc_error \/ calc_runs \/ run_after
  \/ \E b \in QtByte : calc_writes(b) \/ ilp_send(b) \/ connection_sends(b)
  \/ sender_begins \/ ilp_reset \/ ilp_sent \/ ilp_recv \/ sender_ends
  \/ bytesAvailable

QtSpec == QtInit /\ [][QtNext]_qtVars

\* The calculator is run again and again, by its thread; a calculator that
\* listens takes the byte in some of the slices it is run for.
PumpStep == run_send \/ run_batch \/ run_get \/ run_locked \/ calc_runs \/ run_after
QtFair == WF_qtVars(PumpStep) /\ SF_qtVars(calc_takes)
QtFairSpec == QtSpec /\ QtFair

-----------------------------------------------------------------------------
(***************************************************************************)
(* Properties                                                              *)
(***************************************************************************)
QtBuffersTyped ==
  /\ m_input \in Seq(QtByte) /\ m_output \in Seq(QtByte) /\ due \in Seq(QtByte)
  /\ out \in Seq(QtByte) /\ Len(out) \in {0, 1}
  /\ in \in Seq(QtByte) /\ Len(in) \in {0, 1}

QtFlagsTyped ==
  /\ m_link_lock \in BOOLEAN /\ m_broadcast \in BOOLEAN /\ kept \in BOOLEAN
  /\ amiss \in BOOLEAN /\ stuck \in BOOLEAN

QtTypeOK ==
  /\ QtBuffersTyped /\ QtFlagsTyped
  /\ run \in {"pump", "batch", "emu", "after"} /\ slots \in Nat
  /\ sender \in {"idle", "work", "sent"}
  /\ res \subseteq {"read", "write", "error"}

(***************************************************************************)
(* The calculator gets the bytes of both senders in the order in which     *)
(* they were put into the buffer, each once, but for those that an error   *)
(* or a reset throws away.                                                 *)
(***************************************************************************)
QtInOrder == ~amiss

(***************************************************************************)
(* The buffer of a calculator that listens does not stay full, unless the  *)
(* byte that holds the lock was thrown away (only the end of that byte     *)
(* releases the lock) or the calculator has written a byte meanwhile (only *)
(* an empty m_input lets it be fetched).                                   *)
(***************************************************************************)
QtDrains ==
  (Len(m_input) = MaxQueued) ~> (Len(m_input) < MaxQueued \/ stuck \/ in # <<>>)
=============================================================================
