------------------------------ MODULE KeyQueue ------------------------------
(***************************************************************************)
(* How key presses of the host reach the calculator's keypad: the event     *)
(* handlers of gui/event.c, the input queue of gui/emulator.c and the Z80   *)
(* timer that plays it back in the core thread.                             *)
(*                                                                         *)
(* Every handler changes the keypad and the queue under the emulator lock,  *)
(* and the variables it changes outside it belong to the GUI thread alone,  *)
(* so a handler is one step.  Recording a macro, and keys held down for     *)
(* good with the middle mouse button, are left out.                         *)
(***************************************************************************)
EXTENDS Naturals, Sequences, SequencesExt

CONSTANTS
  Key,      \* scan codes of the calculator's keys
  NoKey,    \* scan code 0
  Host,     \* hardware key codes of the host keyboard
  NoHost,   \* hardware key code 0
  Binding,  \* Binding[h]: the scan codes that host key h stands for
  MaxTyped, \* bound: keys ever put into the queue
  MaxLoads  \* bound: calculators ever loaded

ASSUME KeyConstants ==
  /\ NoKey \notin Key /\ NoHost \notin Host
  /\ Binding \in [Host -> Seq(Key) \ {<<>>}]
  /\ MaxTyped \in Nat /\ MaxLoads \in Nat

VARIABLES
  key_queue,         \* the next key to press is the last one
  key_queue_timer,   \* emu->key_queue_timer # 0
  key_queue_pressed, key_queue_cur, key_queue_hold,
  armed,             \* the calculator's timer that calls tmr_key_queue is set
  keysdown,          \* calc->keypad
  keypress_keycodes, \* the host key that holds each key down
  sequence_keycode,  \* the host key that began the last sequence
  mouse_key,         \* the key under the mouse button
  typed, pressed,    \* history: keys put into and taken from the queue
  loads

queueVars == <<key_queue, key_queue_timer, key_queue_pressed, key_queue_cur,
               key_queue_hold, armed>>
windowVars == <<keypress_keycodes, sequence_keycode, mouse_key>>
historyVars == <<typed, pressed, loads>>
keyVars == <<queueVars, keysdown, windowVars, historyVars>>

KeyTypeOK ==
  /\ key_queue \in Seq(Key)
  /\ key_queue_timer \in BOOLEAN /\ armed \in BOOLEAN
  /\ key_queue_pressed \in BOOLEAN /\ key_queue_hold \in BOOLEAN
  /\ key_queue_cur \in Key \cup {NoKey}
  /\ keysdown \subseteq Key
  /\ keypress_keycodes \in [Key -> Host \cup {NoHost}]
  /\ sequence_keycode \in Host \cup {NoHost}
  /\ mouse_key \in Key \cup {NoKey}
  /\ typed \in Seq(Key) /\ pressed \in Seq(Key)
  /\ loads \in Nat

KeyInit ==
  /\ key_queue = <<>> /\ key_queue_timer = FALSE /\ armed = FALSE
  /\ key_queue_pressed = FALSE /\ key_queue_cur = NoKey
  /\ key_queue_hold = FALSE
  /\ keysdown = {}
  /\ keypress_keycodes = [k \in Key |-> NoHost]
  /\ sequence_keycode = NoHost /\ mouse_key = NoKey
  /\ typed = <<>> /\ pressed = <<>> /\ loads = 0

-----------------------------------------------------------------------------
\* Mutant: new keys go in front of the old ones
Mut_queue_in_front(keys) ==
  /\ key_queue' = key_queue \o Reverse(keys)
  /\ typed' = typed \o keys
  /\ key_queue_hold' = TRUE
  /\ key_queue_timer' = TRUE
  /\ armed' = (armed \/ ~key_queue_timer)
  /\ UNCHANGED <<key_queue_pressed, key_queue_cur>>

\* queue_keys: the queue is kept in reverse, and the timer is added unless
\* there is one already
queue_keys(keys) ==
  /\ key_queue' = Reverse(keys) \o key_queue
  /\ typed' = typed \o keys
  /\ key_queue_hold' = TRUE
  /\ key_queue_timer' = TRUE
  /\ armed' = (armed \/ ~key_queue_timer)
  /\ UNCHANGED <<key_queue_pressed, key_queue_cur>>

\* tilem_calc_emulator_press_or_queue of the one key of h, and what
\* key_press_event notes of it
press_or_queue(h) ==
  LET key == Head(Binding[h]) IN
  IF key_queue_timer
  THEN /\ queue_keys(<<key>>)
       /\ sequence_keycode' = h
       /\ UNCHANGED <<keysdown, keypress_keycodes>>
  ELSE /\ keysdown' = keysdown \cup {key}
       /\ keypress_keycodes' = [keypress_keycodes EXCEPT ![key] = h]
       /\ UNCHANGED <<queueVars, sequence_keycode, typed>>

\* A repeated key is ignored
IsDown(h) == \/ \E k \in Key : keypress_keycodes[k] = h
             \/ sequence_keycode = h

key_press_event(h) ==
  /\ ~IsDown(h)
  /\ Len(typed) + Len(Binding[h]) <= MaxTyped \/ (Len(Binding[h]) = 1 /\ ~key_queue_timer)
  /\ IF Len(Binding[h]) = 1
     THEN press_or_queue(h)
     ELSE /\ queue_keys(Binding[h])
          /\ sequence_keycode' = h
          /\ UNCHANGED <<keysdown, keypress_keycodes>>
  /\ UNCHANGED <<mouse_key, pressed, loads>>

\* Mutant: the hold is left in place
Mut_release_keeps_hold(down) ==
  /\ IF ~key_queue_timer /\ key_queue_pressed
     THEN /\ keysdown' = down \ {key_queue_cur}
          /\ key_queue_pressed' = FALSE /\ key_queue_cur' = NoKey
     ELSE /\ keysdown' = down
          /\ UNCHANGED <<key_queue_pressed, key_queue_cur>>
  /\ UNCHANGED key_queue_hold

\* tilem_calc_emulator_release_queued_key, when the keys down are already down
release_queued_key(down) ==
  /\ key_queue_hold' = (key_queue_hold /\ ~key_queue_timer)
  /\ IF ~key_queue_timer /\ key_queue_pressed
     THEN /\ keysdown' = down \ {key_queue_cur}
          /\ key_queue_pressed' = FALSE /\ key_queue_cur' = NoKey
     ELSE /\ keysdown' = down
          /\ UNCHANGED <<key_queue_pressed, key_queue_cur>>

\* release_keycode for the host keys in H
release_keycode(H) ==
  LET released == {k \in Key : keypress_keycodes[k] \in H} IN
  /\ keypress_keycodes' =
       [k \in Key |-> IF k \in released THEN NoHost ELSE keypress_keycodes[k]]
  /\ IF sequence_keycode \in H
     THEN release_queued_key(keysdown \ released) /\ sequence_keycode' = NoHost
     ELSE /\ keysdown' = keysdown \ released
          /\ UNCHANGED <<sequence_keycode, key_queue_hold, key_queue_pressed,
                         key_queue_cur>>
  /\ UNCHANGED <<key_queue, key_queue_timer, armed, mouse_key, historyVars>>

key_release_event(h) == release_keycode({h})
focus_out_event      == release_keycode(Host)

\* Mutant: scan code 0 is pressed like any other
Mut_press_no_key(key) ==
  /\ key # mouse_key
  /\ keysdown' = (keysdown \ {mouse_key}) \cup {key}
  /\ mouse_key' = key
  /\ UNCHANGED <<queueVars, keypress_keycodes, sequence_keycode, historyVars>>

\* press_mouse_key: at most one key is down because of the mouse
press_mouse_key(key) ==
  /\ key # mouse_key
  /\ keysdown' = (keysdown \ {mouse_key}) \cup ({key} \cap Key)
  /\ mouse_key' = key
  /\ UNCHANGED <<queueVars, keypress_keycodes, sequence_keycode, historyVars>>

\* tmr_key_queue removes its timer
remove_timer ==
  /\ key_queue_timer' = FALSE /\ armed' = FALSE
  /\ UNCHANGED <<key_queue, key_queue_pressed, key_queue_cur, keysdown, pressed>>

\* The next key of the queue goes down
press_next ==
  LET nextkey == Last(key_queue) IN
  /\ key_queue' = Front(key_queue)
  /\ keysdown' = keysdown \cup {nextkey}
  /\ key_queue_pressed' = TRUE /\ key_queue_cur' = nextkey
  /\ pressed' = Append(pressed, nextkey)
  /\ UNCHANGED <<key_queue_timer, armed>>

\* Mutant: the key is not released
Mut_release_forgotten ==
  /\ key_queue_pressed' = FALSE /\ key_queue_cur' = NoKey
  /\ UNCHANGED <<key_queue, key_queue_timer, armed, keysdown, pressed>>

release_current ==
  /\ keysdown' = keysdown \ {key_queue_cur}
  /\ key_queue_pressed' = FALSE /\ key_queue_cur' = NoKey
  /\ UNCHANGED <<key_queue, key_queue_timer, armed, pressed>>

\* Mutant: a key is held although more keys are queued
Mut_tmr_hold_first ==
  /\ armed
  /\ \/ key_queue_pressed /\ ~key_queue_hold /\ release_current
     \/ key_queue_pressed /\ key_queue_hold /\ remove_timer
     \/ ~key_queue_pressed /\ key_queue # <<>> /\ press_next
     \/ ~key_queue_pressed /\ key_queue = <<>> /\ remove_timer
  /\ UNCHANGED <<key_queue_hold, windowVars, typed, loads>>

\* The timer callback, in the core thread
tmr_key_queue ==
  /\ armed
  /\ \/ key_queue_pressed /\ (key_queue # <<>> \/ ~key_queue_hold) /\ release_current
     \/ key_queue_pressed /\ key_queue = <<>> /\ key_queue_hold /\ remove_timer
     \/ ~key_queue_pressed /\ key_queue # <<>> /\ press_next
     \/ ~key_queue_pressed /\ key_queue = <<>> /\ remove_timer
  /\ UNCHANGED <<key_queue_hold, windowVars, typed, loads>>

\* tilem_calc_emulator_reset: the keypad forgets which keys are down
reset ==
  /\ keysdown # {} /\ keysdown' = {}
  /\ UNCHANGED <<queueVars, windowVars, historyVars>>

\* tilem_calc_emulator_load_state: a new calculator, with none of the old one's
\* timers and no key down; the queue stays as it is
load_state ==
  /\ loads < MaxLoads /\ loads' = loads + 1
  /\ armed' = FALSE /\ keysdown' = {}
  /\ UNCHANGED <<key_queue, key_queue_timer, key_queue_pressed, key_queue_cur,
                 key_queue_hold, windowVars, typed, pressed>>

KeyNext ==
  \/ \E h \in Host : key_press_event(h) \/ key_release_event(h)
  \/ \E k \in Key \cup {NoKey} : press_mouse_key(k)
  \/ focus_out_event \/ tmr_key_queue \/ reset \/ load_state

KeySpec == KeyInit /\ [][KeyNext]_keyVars

\* A timer that is set expires as long as the calculator runs, and it is kept
\* running while key_queue_timer is set (calc_asleep)
KeyFairSpec == KeySpec /\ WF_keyVars(tmr_key_queue)

-----------------------------------------------------------------------------
(* Properties *)

\* The keys that were pressed and the queue (kept in reverse, emulator.c:809-820)
\* are together the keys that were typed: nothing is lost, doubled or reordered
\* by queueing more keys while others are played back.
QueueInOrder == typed = pressed \o Reverse(key_queue)

\* A key is down only because of a host key, the mouse or the playback: the
\* handlers of event.c leave no key stuck.
NoStuckKey ==
  \A k \in keysdown : \/ keypress_keycodes[k] # NoHost
                      \/ key_queue_pressed /\ key_queue_cur = k
                      \/ mouse_key = k

\* When the playback has ended with its last key held down, the host key whose
\* release will let it go is still known to the window (event.c:370-375).
HeldKeyHasOwner ==
  key_queue_pressed /\ ~key_queue_timer => sequence_keycode # NoHost

\* Whatever key is down, something that is still to come lets it go: no handler,
\* reset or load leaves one that nothing owns.
KeysOwned == NoStuckKey /\ HeldKeyHasOwner

\* The playback lets one key go before it presses the next, so the calculator
\* sees two presses even of the same key (emulator.c:771-777).
OneKeyAtATime ==
  [][pressed' # pressed => ~key_queue_pressed /\ Len(pressed') = Len(pressed) + 1]_keyVars

\* Every queued key is pressed in the end ("Sequence of keys to be pressed",
\* emulator.h:87).
QueuedKeysPressed ==
  \A n \in 1..MaxTyped : Len(typed) >= n ~> Len(pressed) >= n

\* It is, unless a calculator is loaded in the middle of the playback.
PressedUnlessLoaded ==
  \A n \in 1..MaxTyped : Len(typed) >= n ~> Len(pressed) >= n \/ loads > 0

\* Once the host's keys and mouse button have been let go, so are the
\* calculator's keys.
KeysReleased ==
  <>[](/\ \A h \in Host : ~IsDown(h)
       /\ mouse_key = NoKey) => <>[](keysdown = {})
=============================================================================
