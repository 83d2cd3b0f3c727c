---------------------------- MODULE Breakpoints ----------------------------
(***************************************************************************)
(* The calculator's breakpoints (emu/z80.c:172-273, 447-479, 692-725), an    *)
(* array threaded by eleven lists, and those who set them: the debugger's    *)
(* breakpoints, its temporary breakpoint for stepping (gui/debugger.c) and   *)
(* the audio filter's.  The core thread walks the lists while it holds the   *)
(* emulator lock; the GUI thread takes the lock for each change.             *)
(* Slot 0 only ends lists: what is written to its links is always 0.         *)
(***************************************************************************)
EXTENDS Integers, Sequences, FiniteSets, SequencesExt, LinkedLists

CONSTANTS
  DbBp,      \* the breakpoints the debugger may have
  DbShape,   \* what the user may set them to: type, modes and disabled
  MaxSlots,  \* bound: the array never grows beyond this
  MaxShows   \* bound: idle callbacks of show_debugger that wait

\* What the breakpoint dialog makes: ports are not executed, and get_core_bp_type
\* knows no other types and modes
ASSUME ShapesOfDebugger ==
  \A shape \in DbShape :
    /\ shape.type \in {"logical", "physical", "port", "opcode"}
    /\ shape.modes \subseteq (IF shape.type = "port" THEN {"r", "w"} ELSE {"r", "w", "x"})

List == {"mr", "mx", "mw", "mpr", "mpx", "mpw", "pr", "pw", "op"}
Func == {"none", "step", "step_over", "finish", "link"}

VARIABLES
  slots,     \* breakpoints[]: type, testfunc, next, prev
  head,      \* the first breakpoint of each list, and of the free ones
  step_bp, link_bp, db,
  paused, shows,
  core,      \* what the core thread does: "out" of tilem_z80_run, or in it
  gui        \* what the GUI thread does between two of its locked sections

z80Vars == <<slots, head>>
bpVars == <<slots, head, step_bp, link_bp, db, paused, shows, core, gui>>

Slot == DOMAIN slots
NoBp == [set |-> FALSE]
Idle == [op |-> "idle", at |-> "idle"]

\* The breakpoints of a list, from its head to the end
ChainOf(first) == Walk([n \in Slot |-> slots[n].next], first)

BpInit ==
  /\ slots = <<>> /\ head = [l \in List \cup {"free"} |-> 0]
  /\ step_bp = 0 /\ link_bp = 0 /\ db = [b \in DbBp |-> NoBp]
  /\ paused \in BOOLEAN /\ shows = 0 /\ core = [at |-> "out"] /\ gui = Idle

-----------------------------------------------------------------------------
(* The array and its lists, from one state z of them to another *)

Array == [s |-> slots, h |-> head]
IsArray(z) == slots' = z.s /\ head' = z.h

\* Mutant: a freed breakpoint keeps its link
Mut_bp_free(z, n) ==
  [s |-> [z.s EXCEPT ![n].type = "free", ![n].func = "none", ![n].prev = 0],
   h |-> [z.h EXCEPT !["free"] = n]]

bp_free(z, n) ==
  [s |-> [z.s EXCEPT ![n] = [type |-> "free", func |-> "none", next |-> z.h["free"],
                             prev |-> 0]],
   h |-> [z.h EXCEPT !["free"] = n]]

\* The array holds 0, 2, 6, 14... slots, slot 0 among them
Grown(n) == IF n = 0 THEN 1 ELSE 2 * n + 3

\* bp_alloc: the new slots are freed one after the other, 0 before them all
Fill(z) ==
  LET n == Len(z.s) IN
  IF z.h["free"] # 0 THEN z
  ELSE [s |-> z.s \o [k \in 1..(Grown(n) - n) |->
                       [type |-> "free", func |-> "none",
                        next |-> IF k = 1 THEN 0 ELSE n + k - 1, prev |-> 0]],
        h |-> [z.h EXCEPT !["free"] = Grown(n)]]

bp_add(z, n, type) ==
  LET first == z.h[type]
      linked == [z.s EXCEPT ![n].next = first]
  IN [s |-> IF first = 0 THEN linked ELSE [linked EXCEPT ![first].prev = n],
      h |-> [z.h EXCEPT ![type] = n]]

bp_rem(z, n) ==
  LET p == z.s[n].prev
      q == z.s[n].next
      after == IF p = 0 THEN z.s ELSE [z.s EXCEPT ![p].next = q]
  IN [s |-> IF q = 0 THEN after ELSE [after EXCEPT ![q].prev = p],
      h |-> IF z.h[z.s[n].type] = n THEN [z.h EXCEPT ![z.s[n].type] = q] ELSE z.h]

\* The slot that tilem_z80_add_breakpoint will take
NewSlot(z) == Fill(z).h["free"]

add_breakpoint(z, type, func) ==
  LET n == NewSlot(z)
      taken == [s |-> [Fill(z).s EXCEPT ![n].type = type, ![n].func = func, ![n].prev = 0],
                h |-> [Fill(z).h EXCEPT !["free"] = Fill(z).s[n].next]]
  IN bp_add(taken, n, type)

\* tilem_z80_remove_breakpoint, which complains of a breakpoint that is not one
Valid(z, n) == n \in DOMAIN z.s /\ z.s[n].type # "free"
remove_breakpoint(z, n) == IF Valid(z, n) THEN bp_free(bp_rem(z, n), n) ELSE z

Bounded(z) == Len(Fill(z).s) <= MaxSlots

-----------------------------------------------------------------------------
(* The core thread *)

\* tilem_em_run calls tilem_z80_run with the lock
run_begin ==
  /\ core.at = "out" /\ ~paused
  /\ core' = [at |-> "run", stop |-> FALSE]
  /\ UNCHANGED <<z80Vars, step_bp, link_bp, db, paused, shows, gui>>

\* An instruction has the list l checked: memory, port, or the opcode
check_begin(l) ==
  /\ core.at = "run" /\ head[l] # 0
  /\ core' = [at |-> "check", stop |-> core.stop, list |-> l, bp |-> head[l]]
  /\ UNCHANGED <<z80Vars, step_bp, link_bp, db, paused, shows, gui>>

\* The walk goes on with what follows its breakpoint in z
WalkOn(z, stop) ==
  LET q == z.s[core.bp].next IN
  core' = IF q = 0 THEN [at |-> "run", stop |-> stop]
          ELSE [core EXCEPT !.bp = q, !.stop = stop]

\* The address is out of range, or the function says no; bptest_step_over is
\* set for every opcode
check_misses ==
  /\ core.at = "check" /\ slots[core.bp].func # "step_over"
  /\ WalkOn(Array, core.stop)
  /\ UNCHANGED <<z80Vars, step_bp, link_bp, db, paused, shows, gui>>

\* There is no function, or it says yes; link_callback never does
check_hits ==
  /\ core.at = "check" /\ slots[core.bp].func \in {"none", "step", "finish"}
  /\ WalkOn(Array, TRUE)
  /\ UNCHANGED <<z80Vars, step_bp, link_bp, db, paused, shows, gui>>

\* bptest_step_over puts a plain breakpoint in its own place, and says no
bptest_step_over ==
  /\ core.at = "check" /\ slots[core.bp].func = "step_over"
  /\ LET z == remove_breakpoint(Array, step_bp)
         new == add_breakpoint(z, "mx", "none")
     IN Bounded(z) /\ IsArray(new) /\ step_bp' = NewSlot(z) /\ WalkOn(new, core.stop)
  /\ UNCHANGED <<link_bp, db, paused, shows, gui>>

\* tilem_z80_run returns; a breakpoint pauses, and the debugger will be shown
run_end ==
  /\ core.at = "run" /\ core' = [at |-> "out"]
  /\ IF core.stop THEN shows < MaxShows /\ paused' = TRUE /\ shows' = shows + 1
     ELSE UNCHANGED <<paused, shows>>
  /\ UNCHANGED <<z80Vars, step_bp, link_bp, db, gui>>

\* timer_on and timer_off of the audio filter, called by update_audio
audio_on ==
  /\ core.at = "out" /\ link_bp = 0 /\ Bounded(Array)
  /\ IsArray(add_breakpoint(Array, "pw", "link")) /\ link_bp' = NewSlot(Array)
  /\ UNCHANGED <<step_bp, db, paused, shows, core, gui>>

audio_off ==
  /\ core.at = "out" /\ link_bp # 0
  /\ IsArray(remove_breakpoint(Array, link_bp)) /\ link_bp' = 0
  /\ UNCHANGED <<step_bp, db, paused, shows, core, gui>>

CoreStep ==
  \/ run_begin \/ run_end \/ \E l \in List : check_begin(l)
  \/ check_misses \/ check_hits \/ bptest_step_over \/ audio_on \/ audio_off
-----------------------------------------------------------------------------
(* The GUI thread.  An action ends where the next locked section begins. *)

Locked == core.at = "out"

\* What the user asks for, and where cancel_step_bp stands in it
Stepping == {"step", "step_over", "finish"}

action_run ==
  /\ gui = Idle /\ gui' = [op |-> "run", at |-> "cancel"]
  /\ UNCHANGED <<z80Vars, step_bp, link_bp, db, paused, shows, core>>

\* tilem_debugger_show, by the user, or by the callback of a breakpoint
tilem_debugger_show ==
  /\ gui = Idle /\ Locked /\ paused' = TRUE
  /\ \/ shows' = shows
     \/ shows > 0 /\ shows' = shows - 1
  /\ gui' = [op |-> "show", at |-> "cancel"]
  /\ UNCHANGED <<z80Vars, step_bp, link_bp, db, core>>

\* tilem_debugger_hide resumes without cancel_step_bp
tilem_debugger_hide ==
  /\ gui = Idle /\ gui' = [op |-> "run", at |-> "done"]
  /\ UNCHANGED <<z80Vars, step_bp, link_bp, db, paused, shows, core>>

\* action_step, action_step_over, action_finish
step_begin ==
  /\ gui = Idle /\ paused
  /\ \E op \in Stepping : gui' = [op |-> op, at |-> "cancel"]
  /\ UNCHANGED <<z80Vars, step_bp, link_bp, db, paused, shows, core>>

\* cancel_step_bp looks at step_bp without the lock, removes what it finds
\* under the lock, and forgets it without the lock
cancel_test ==
  /\ gui.at = "cancel"
  /\ gui' = [gui EXCEPT !.at = IF step_bp = 0 THEN "done" ELSE "remove"]
  /\ UNCHANGED <<z80Vars, step_bp, link_bp, db, paused, shows, core>>

cancel_remove ==
  /\ gui.at = "remove" /\ Locked
  /\ IsArray(remove_breakpoint(Array, step_bp))
  /\ gui' = [gui EXCEPT !.at = "clear"]
  /\ UNCHANGED <<step_bp, link_bp, db, paused, shows, core>>

cancel_clear ==
  /\ gui.at = "clear" /\ step_bp' = 0 /\ gui' = [gui EXCEPT !.at = "done"]
  /\ UNCHANGED <<z80Vars, link_bp, db, paused, shows, core>>

show_done ==
  /\ gui.at = "done" /\ gui.op = "show" /\ gui' = Idle
  /\ UNCHANGED <<z80Vars, step_bp, link_bp, db, paused, shows, core>>

\* tilem_calc_emulator_run
run_done ==
  /\ gui.at = "done" /\ gui.op = "run" /\ Locked
  /\ paused' = FALSE /\ gui' = Idle
  /\ UNCHANGED <<z80Vars, step_bp, link_bp, db, shows, core>>

run_with_step_condition ==
  /\ gui.at = "done" /\ gui.op \in Stepping /\ Locked /\ Bounded(Array)
  /\ IsArray(add_breakpoint(Array, "op", gui.op)) /\ step_bp' = NewSlot(Array)
  /\ gui' = [op |-> "run", at |-> "done"]
  /\ UNCHANGED <<link_bp, db, paused, shows, core>>

CancelSteps ==
  \/ cancel_test \/ cancel_remove \/ cancel_clear
  \/ show_done \/ run_done \/ run_with_step_condition
-----------------------------------------------------------------------------
(* The debugger's breakpoints *)

get_core_bp_type(type, mode) ==
  IF type = "opcode" THEN "op"
  ELSE [logical |-> [r |-> "mr", w |-> "mw", x |-> "mx"],
        physical |-> [r |-> "mpr", w |-> "mpw", x |-> "mpx"],
        port |-> [r |-> "pr", w |-> "pw"]][type][mode]

Installed(shape) == IF shape.disabled THEN {} ELSE shape.modes

\* set_bp: one core breakpoint for each mode, and their ids
set_bp(z0, shape) ==
  LET add(acc, m) ==
        IF m \notin Installed(shape) THEN acc
        ELSE [z |-> add_breakpoint(acc.z, get_core_bp_type(shape.type, m), "none"),
              id |-> [acc.id EXCEPT ![m] = NewSlot(acc.z)]]
  IN add(add(add([z |-> z0, id |-> [m \in {"r", "w", "x"} |-> 0]], "x"), "w"), "r")

unset_bp(z0, id) ==
  LET remove(z, m) == IF id[m] = 0 THEN z ELSE remove_breakpoint(z, id[m])
  IN remove(remove(remove(z0, "x"), "w"), "r")

Install(b, shape) ==
  LET set == set_bp(Array, shape) IN
  /\ Len(set.z.s) <= MaxSlots
  /\ IsArray(set.z) /\ db' = [db EXCEPT ![b] = [set |-> TRUE, shape |-> shape, id |-> set.id]]

tilem_debugger_add_breakpoint(b) ==
  /\ gui = Idle /\ Locked /\ ~db[b].set
  /\ \E shape \in DbShape : Install(b, shape)
  /\ UNCHANGED <<step_bp, link_bp, paused, shows, core, gui>>

tilem_debugger_remove_breakpoint(b) ==
  /\ gui = Idle /\ Locked /\ db[b].set
  /\ IsArray(unset_bp(Array, db[b].id)) /\ db' = [db EXCEPT ![b] = NoBp]
  /\ UNCHANGED <<step_bp, link_bp, paused, shows, core, gui>>

\* tilem_debugger_change_breakpoint unsets it, and sets it in a section of its own
change_begin(b) ==
  /\ gui = Idle /\ Locked /\ db[b].set
  /\ IsArray(unset_bp(Array, db[b].id))
  /\ \E shape \in DbShape :
       /\ gui' = [op |-> "change", at |-> "set", bp |-> b]
       /\ db' = [db EXCEPT ![b] = [set |-> TRUE, shape |-> shape,
                                   id |-> [m \in {"r", "w", "x"} |-> 0]]]
  /\ UNCHANGED <<step_bp, link_bp, paused, shows, core>>

change_set ==
  /\ gui.at = "set" /\ Locked /\ Install(gui.bp, db[gui.bp].shape) /\ gui' = Idle
  /\ UNCHANGED <<step_bp, link_bp, paused, shows, core>>

\* tilem_calc_emulator_load_state replaces the calculator and the audio filter
\* under the lock, and tells the debugger after it
load_calc ==
  /\ gui = Idle /\ Locked
  /\ slots' = <<>> /\ head' = [l \in List \cup {"free"} |-> 0] /\ link_bp' = 0
  /\ gui' = [op |-> "load", at |-> "changed"]
  /\ UNCHANGED <<step_bp, db, paused, shows, core>>

tilem_debugger_calc_changed ==
  /\ gui.at = "changed" /\ step_bp' = 0 /\ db' = [b \in DbBp |-> NoBp] /\ gui' = Idle
  /\ UNCHANGED <<z80Vars, link_bp, paused, shows, core>>

BpNext ==
  \/ CoreStep \/ CancelSteps \/ change_set \/ load_calc \/ tilem_debugger_calc_changed
  \/ action_run \/ tilem_debugger_show \/ tilem_debugger_hide \/ step_begin
  \/ \E b \in DbBp : \/ tilem_debugger_add_breakpoint(b)
                     \/ tilem_debugger_remove_breakpoint(b) \/ change_begin(b)

BpSpec == BpInit /\ [][BpNext]_bpVars
-----------------------------------------------------------------------------
(* Properties *)

\* Every variable has its type: lists and links name slots
BpTypeOK ==
  /\ slots \in [Slot -> [type : List \cup {"free"}, func : Func,
                         next : 0..MaxSlots, prev : 0..MaxSlots]]
  /\ Len(slots) <= MaxSlots
  /\ head \in [List \cup {"free"} -> {0} \cup Slot]
  /\ step_bp \in 0..MaxSlots /\ link_bp \in 0..MaxSlots
  /\ \A b \in DbBp : db[b].set => db[b].id \in [{"r", "w", "x"} -> 0..MaxSlots]
  /\ paused \in BOOLEAN /\ shows \in 0..MaxShows

\* Every slot is once in the list of its type, whose links agree both ways, or
\* free (bp_add, bp_rem, bp_free, bp_alloc)
BpLinked ==
  \A l \in List \cup {"free"} :
    LET c == ChainOf(head[l]) IN
    /\ ToSet(c) = {n \in Slot : slots[n].type = l} /\ IsInjective(c)
    /\ l # "free" =>
         \A k \in DOMAIN c : slots[c[k]].prev = IF k = 1 THEN 0 ELSE c[k - 1]

\* The breakpoints that someone knows
Known ==
  {step_bp, link_bp} \cup {db[b].id[m] : b \in {c \in DbBp : db[c].set}, m \in {"r", "w", "x"}}

\* Outside of cancel_step_bp and of the loading of a calculator every breakpoint
\* in a list is known to one of those who set breakpoints, so that it can be
\* removed, and what they know is in the list they put it in (dbg->step_bp,
\* bp->id, af->link_bp)
BpOwned ==
  /\ gui.at \notin {"clear", "changed"} =>
       /\ Known \ {0} = {n \in Slot : slots[n].type # "free"}
       /\ step_bp # 0 => slots[step_bp].type \in {"op", "mx"}
       /\ \A b \in DbBp : db[b].set => \A m \in {"r", "w", "x"} :
            db[b].id[m] # 0 =>
              slots[db[b].id[m]].type = get_core_bp_type(db[b].shape.type, m)
  /\ link_bp # 0 => slots[link_bp].type = "pw" /\ slots[link_bp].func = "link"

\* A walk through a list is at a breakpoint of that list.  There is one way to
\* leave it: behind a step-over that replaced itself the walk goes on through the
\* memory breakpoints that follow its successor (check_breakpoints reads the link
\* after the function has returned)
WalkInList ==
  core.at = "check" =>
    \/ slots[core.bp].type = core.list
    \/ core.list = "op" /\ step_bp # 0 /\ slots[step_bp].type = "mx"
       /\ slots[core.bp].type = "mx"

\* The breakpoints are linked and known to those who set them: none is lost, none
\* is in two lists, and none is removed in place of another, nor
\* does one of another list run when a list is walked.
BpSound == BpLinked /\ BpOwned /\ WalkInList
=============================================================================
