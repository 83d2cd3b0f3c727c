------------------------------ MODULE LinkPort ------------------------------
(***************************************************************************)
(* The link port of the calculator: emu/link.c, and the functions of       *)
(* gui/emucore.c that move a byte through it.                              *)
(*                                                                         *)
(* Two wires, each pulled low by the calculator ("lines", by the Z80 or by *)
(* the link assist) or by the other side ("extlines", the emulated         *)
(* GrayLink or a BlackLink). A bit is one wire pulled low, acknowledged    *)
(* with the other one. A byte is a sequence of NBits bits, in the order in *)
(* which they are sent; 2 on the wires is a one and 1 a zero.              *)
(*                                                                         *)
(* Every function of link.c is an operator from the state of the port to   *)
(* the state it leaves; a step is one call.                                *)
(***************************************************************************)
EXTENDS Integers, SequencesExt

CONSTANTS
  NBits,      \* bits in a byte
  LinkModes,  \* the modes the Z80 may set, subsets of ModeFlag
  MaxDisturbed \* bound: steps after a failure before something is reset

ModeFlag == {"assist", "no_timeout", "int_active", "int_read", "int_idle", "int_error"}
AssistFlag == {"read_byte", "read_busy", "read_error", "write_busy", "write_error"}

ASSUME LinkConstants ==
  NBits \in Nat \ {0} /\ LinkModes \subseteq SUBSET ModeFlag
  /\ MaxDisturbed \in Nat \ {0}

Bit == {1, 2}
Byte == [1 .. NBits -> Bit]

VARIABLES
  lp,         \* the link port
  peer,       \* what the core thread does with it: "idle", "send", "sent", "get"
  z80,        \* a program that handles the wires itself: what it does ...
  bits,       \* ... and the bits of its byte, to be sent or received
  due, owed,  \* history: bytes under way to, and from, the calculator
  amiss,      \* history: a byte came that was not the next one under way
  disturbed   \* history: steps since something went wrong that may cost a
              \* byte, 0 if nothing has

linkVars == <<lp, peer, z80, bits, due, owed, amiss, disturbed>>

-----------------------------------------------------------------------------
(***************************************************************************)
(* The wires                                                               *)
(***************************************************************************)
Other(l) == 3 - l

Stop(p, reason) == [p EXCEPT !.stops = @ \cup {reason}]

dbus_interrupt(p, type, flag) ==
  IF flag \in p.mode THEN [p EXCEPT !.interrupts = @ \cup {type}] ELSE p

dbus_set_lines(p, l) ==
  IF l # p.lines /\ p.linkemu = "black" THEN Stop([p EXCEPT !.lines = l], "state")
  ELSE [p EXCEPT !.lines = l]

\* Is a wire that the calculator leaves high changed from l to m?
Seen(lines, l, m) ==
  \E w \in Bit : /\ lines \notin {w, 3}
                 /\ (l \in {w, 3}) # (m \in {w, 3})

dbus_set_extlines(p, l) ==
  [(IF Seen(p.lines, p.extlines, l) THEN dbus_interrupt(p, "active", "int_active") ELSE p)
     EXCEPT !.extlines = l]

set_timeout(p) == IF "no_timeout" \in p.mode THEN p ELSE [p EXCEPT !.timer = TRUE]
clear_timeout(p) == [p EXCEPT !.timer = FALSE]

assist_timer(p) ==
  LET busy == IF "write_busy" \in p.flags THEN "write_busy" ELSE "read_busy"
      error == IF busy = "write_busy" THEN "write_error" ELSE "read_error"
      expired == [p EXCEPT !.timer = FALSE]
  IN IF busy \in p.flags
     THEN dbus_interrupt([expired EXCEPT !.flags = (@ \ {busy}) \cup {error}],
                         "error", "int_error")
     ELSE expired

\* Both wires are pulled low by the other side: an error
assist_error(p, busy, error) ==
  dbus_interrupt(
    clear_timeout(dbus_set_lines(
      [p EXCEPT !.flags = (@ \ {busy}) \cup {error}], 0)), "error", "int_error")

assist_update_write(p) ==
  CASE p.extlines = 0 /\ p.lines = 0 /\ p.out # <<>> ->
         set_timeout(dbus_set_lines([p EXCEPT !.out = Tail(@)], Head(p.out)))
    [] p.extlines = 0 /\ p.lines = 0 /\ p.out = <<>> ->
         clear_timeout([p EXCEPT !.flags = @ \ {"write_busy"}])
    [] p.extlines \in Bit /\ p.extlines = Other(p.lines) ->
         clear_timeout(dbus_set_lines(p, 0))
    [] p.extlines = 3 -> assist_error(p, "write_busy", "write_error")
    [] OTHER -> p

assist_update_read(p) ==
  CASE p.extlines = 0 ->
         LET in == IF p.lines \in Bit THEN Append(p.in, Other(p.lines)) ELSE p.in
             q == [p EXCEPT !.in = in]
         IN dbus_set_lines(
              IF Len(in) >= NBits
              THEN clear_timeout([q EXCEPT
                     !.flags = (@ \ {"read_busy"}) \cup {"read_byte"}])
              ELSE set_timeout(q), 0)
    [] p.extlines \in Bit ->
         set_timeout(dbus_set_lines([p EXCEPT !.flags = @ \cup {"read_busy"}],
                                    Other(p.extlines)))
    [] p.extlines = 3 -> assist_error(p, "read_busy", "read_error")

\* grayoutbits is one more than the bits that are still to be sent: the last
\* one is over when the calculator has let go of the wires.
graylink_update_write(p) ==
  CASE p.lines = 0 /\ p.extlines = 0 /\ p.grayoutbits > 1 ->
         dbus_set_extlines([p EXCEPT !.grayout = Tail(@), !.grayoutbits = @ - 1],
                           Head(p.grayout))
    [] p.lines = 0 /\ p.extlines = 0 /\ p.grayoutbits <= 1 ->
         Stop([p EXCEPT !.grayoutbits = 0], "write_byte")
    [] p.lines \in Bit /\ p.extlines = Other(p.lines) -> dbus_set_extlines(p, 0)
    [] p.lines = 3 -> Stop([dbus_set_extlines(p, 0) EXCEPT !.grayoutbits = 0], "error")
    [] OTHER -> p

graylink_update_read(p) ==
  CASE p.lines = 0 ->
         LET in == IF p.extlines \in Bit
                   THEN Append(p.grayin, Other(p.extlines)) ELSE p.grayin
             q == [p EXCEPT !.grayin = in]
         IN dbus_set_extlines(IF Len(in) >= NBits THEN Stop(q, "read_byte") ELSE q, 0)
    [] p.lines \in Bit -> dbus_set_extlines(p, Other(p.lines))
    [] p.lines = 3 -> Stop([dbus_set_extlines(p, 0) EXCEPT !.grayin = <<>>], "error")

\* One turn of the loop in dbus_update
gray_turn(p) ==
  IF p.linkemu # "gray" THEN p
  ELSE IF p.grayoutbits > 0 THEN graylink_update_write(p)
  ELSE IF Len(p.grayin) # NBits THEN graylink_update_read(p)
  ELSE p

assist_turn(p) ==
  IF "write_busy" \in p.flags THEN assist_update_write(p)
  ELSE IF "assist" \in p.mode /\ "read_byte" \notin p.flags THEN assist_update_read(p)
  ELSE p

\* the loop would be left after one turn
Mut_settle_once(p) == assist_turn(gray_turn(p))

\* The loop in dbus_update takes turns until one in which the assist leaves the
\* wires as they are: never more than MaxTurns.
turn(s) ==
  LET q == gray_turn(s.port)
      r == assist_turn(q)
  IN IF s.on THEN [port |-> r, on |-> r.lines # q.lines] ELSE s

MaxTurns == 4 * NBits + 4

turns(p) ==
  LET after[n \in 0 .. MaxTurns] ==
        IF n = 0 THEN [port |-> p, on |-> TRUE] ELSE turn(after[n - 1])
  IN after

settle(p) == turns(p)[MaxTurns].port

Announced(q) ==
  LET on == (IF "read_byte" \in q.flags /\ "int_read" \in q.mode THEN {"read"} ELSE {})
              \cup (IF /\ q.flags \cap {"read_busy", "write_busy"} = {}
                       /\ "int_idle" \in q.mode THEN {"idle"} ELSE {})
  IN [q EXCEPT !.interrupts = (@ \ {"read", "idle"}) \cup on]

dbus_update(p) == Announced(settle(p))

-----------------------------------------------------------------------------
(***************************************************************************)
(* The functions of the link port                                          *)
(***************************************************************************)
reset(p) ==
  [clear_timeout(dbus_set_lines(p, 0)) EXCEPT
     !.mode = {}, !.flags = {}, !.in = <<>>, !.out = <<>>]

get_lines(p) == {w \in Bit : p.lines \notin {w, 3} /\ p.extlines \notin {w, 3}}

set_lines(p, l) ==
  dbus_update(IF "assist" \notin p.mode /\ "write_busy" \notin p.flags
              THEN dbus_set_lines(p, l) ELSE p)

read_byte(p) ==
  dbus_update([p EXCEPT !.flags = @ \ {"read_byte", "read_busy"}, !.in = <<>>])

\* the next byte would be begun while the one before is sent
Mut_write_busy(p, byte) ==
  dbus_update([dbus_set_lines(p, 0) EXCEPT
                 !.out = byte, !.flags = @ \cup {"write_busy"}])

write_byte(p, byte) ==
  IF p.flags \cap {"read_busy", "write_busy"} # {} THEN p
  ELSE dbus_update([dbus_set_lines(p, 0) EXCEPT
                      !.out = byte, !.flags = @ \cup {"write_busy"}])

set_link_mode(p, mode) ==
  LET q == IF ("assist" \in mode) # ("assist" \in p.mode)
           THEN clear_timeout([dbus_set_lines(p, 0) EXCEPT
                                 !.flags = @ \ {"read_busy", "write_busy"}])
           ELSE p
      off == (IF "int_active" \in mode THEN {} ELSE {"active"})
               \cup (IF "int_error" \in mode THEN {} ELSE {"error"})
  IN dbus_update([q EXCEPT !.interrupts = @ \ off, !.mode = mode])

blacklink_set_lines(p, l) == dbus_update(dbus_set_extlines(p, l))

graylink_reset(p) ==
  dbus_update(dbus_set_extlines(
    [p EXCEPT !.grayin = <<>>, !.grayout = <<>>, !.grayoutbits = 0], 0))

graylink_ready(p) == p.grayoutbits = 0 /\ p.grayin = <<>>

graylink_send_byte(p, byte) ==
  dbus_update([dbus_set_extlines(p, 0) EXCEPT !.grayoutbits = NBits + 1, !.grayout = byte])

\* The byte is taken when it is complete; the wires are not looked at again.
TakeByte(q) == IF Len(q.grayin) = NBits THEN [q EXCEPT !.grayin = <<>>] ELSE q
graylink_get_byte(p) == TakeByte(dbus_update(p))

-----------------------------------------------------------------------------
(***************************************************************************)
(* The steps                                                               *)
(***************************************************************************)
Rest(queue) == IF queue = <<>> THEN queue ELSE Tail(queue)

NewPort(emu) ==
  [lines |-> 0, extlines |-> 0, linkemu |-> emu, mode |-> {}, flags |-> {},
   in |-> <<>>, out |-> <<>>,
   grayin |-> <<>>, grayout |-> <<>>, grayoutbits |-> 0,
   timer |-> FALSE, interrupts |-> {}, stops |-> {}]

LinkInit ==
  /\ \E emu \in {"none", "black"} : lp = NewPort(emu)
  /\ peer = "idle" /\ z80 = "idle" /\ bits = <<>>
  /\ due = <<>> /\ owed = <<>> /\ amiss = FALSE /\ disturbed = 0

Failed(p) == "error" \in p.stops \/ p.flags \cap {"read_error", "write_error"} # {}

\* Nothing is in the middle of a byte, and no program has begun one.
Quiet(p) == /\ p.lines = 0 /\ p.extlines = 0 /\ p.in = <<>> /\ p.grayin = <<>>
            /\ p.grayoutbits = 0 /\ z80 = "idle"
            /\ p.flags \cap {"read_busy", "write_busy", "read_byte"} = {}

\* The port is left as p, with the bytes to and from under way. What may cost
\* a byte, "if" or a failure, gives up those under way ...
Leave(p, to, from, if) ==
  /\ lp' = p
  /\ disturbed' = CASE disturbed > 0 -> Min({disturbed + 1, MaxDisturbed})
                    [] disturbed = 0 -> IF if \/ Failed(p) THEN 1 ELSE 0
  /\ due' = IF disturbed' > 0 THEN <<>> ELSE to
  /\ owed' = IF disturbed' > 0 THEN <<>> ELSE from

Keep(p) == Leave(p, due, owed, FALSE) /\ UNCHANGED amiss
Risk(p, if) == Leave(p, due, owed, if) /\ UNCHANGED amiss

\* ... until the port is reset and that leaves it quiet.
Reset(p) ==
  IF (disturbed = 0 /\ Quiet(lp)) \/ (Quiet(p) /\ ~Failed(p))
  THEN /\ lp' = p /\ disturbed' = 0
       /\ IF disturbed = 0 /\ Quiet(lp) THEN UNCHANGED <<due, owed>>
          ELSE due' = <<>> /\ owed' = <<>>
       /\ UNCHANGED amiss
  ELSE Risk(p, TRUE)

Arrives(queue, byte) ==
  amiss' = (amiss \/ (disturbed = 0 /\ (queue = <<>> \/ Head(queue) # byte)))

(***************************************************************************)
(* The calculator with a link assist: the ports of the x4 and others.      *)
(***************************************************************************)
timer_expires ==
  /\ lp.timer
  /\ Keep(assist_timer(lp))
  /\ UNCHANGED <<peer, z80, bits>>

z80_read ==
  /\ "read_byte" \in lp.flags
  /\ Arrives(due, lp.in)
  /\ Leave(read_byte(lp), Rest(due), owed, FALSE)
  /\ UNCHANGED <<peer, z80, bits>>

\* Both sides may begin at once: that is an error the protocol allows.
z80_write(byte) ==
  /\ z80 = "idle"
  /\ LET q == write_byte(lp, byte)
     IN IF lp.flags \cap {"read_busy", "write_busy"} = {}
        THEN Leave(q, due, Append(owed, byte), lp.grayoutbits > 0)
        ELSE Leave(q, due, owed, FALSE)
  /\ UNCHANGED <<peer, z80, bits, amiss>>

\* The transfer that is interrupted, if there is one, fails.
z80_mode(mode) ==
  /\ Risk(set_link_mode(lp, mode), ~Quiet(lp))
  /\ UNCHANGED <<peer, z80, bits>>

z80_reset ==
  /\ Risk(reset(lp), ~Quiet(lp))
  /\ z80' = "idle" /\ bits' = <<>>
  /\ UNCHANGED peer

(***************************************************************************)
(* A program of the calculator that sends and receives with the wires.     *)
(***************************************************************************)
Raw == "assist" \notin lp.mode /\ "write_busy" \notin lp.flags

raw_send(byte) ==
  /\ Raw /\ z80 = "idle" /\ get_lines(lp) = Bit
  /\ z80' = "low" /\ bits' = byte
  /\ Leave(set_lines(lp, Head(byte)), due, Append(owed, byte), lp.grayoutbits > 0)
  /\ UNCHANGED <<peer, amiss>>

\* The other side acknowledges, then lets go: on to the next bit.
raw_acknowledged ==
  /\ Raw /\ z80 = "low" /\ get_lines(lp) = {}
  /\ z80' = "high" /\ bits' = Tail(bits)
  /\ Keep(set_lines(lp, 0))
  /\ UNCHANGED peer

raw_next ==
  /\ Raw /\ z80 = "high" /\ get_lines(lp) = Bit
  /\ IF bits = <<>>
     THEN z80' = "idle" /\ UNCHANGED <<lp, due, owed, amiss, disturbed>>
     ELSE z80' = "low" /\ Keep(set_lines(lp, Head(bits)))
  /\ UNCHANGED <<peer, bits>>

raw_receive ==
  /\ Raw /\ z80 \in {"idle", "receive"} /\ get_lines(lp) \in {{1}, {2}}
  /\ LET high == CHOOSE w \in Bit : get_lines(lp) = {w}
     IN /\ bits' = Append(bits, Other(high))
        /\ Keep(set_lines(lp, high))
  /\ z80' = "ack"
  /\ UNCHANGED peer

raw_bit ==
  /\ Raw /\ z80 = "ack" /\ get_lines(lp) = {Other(lp.lines)}
  /\ LET q == set_lines(lp, 0)
     IN IF Len(bits) = NBits
        THEN /\ z80' = "idle" /\ bits' = <<>>
             /\ Arrives(due, bits) /\ Leave(q, Rest(due), owed, FALSE)
        ELSE z80' = "receive" /\ Keep(q) /\ UNCHANGED bits
  /\ UNCHANGED peer

(***************************************************************************)
(* The core thread: tilem_em_send_byte and tilem_em_get_byte, which run    *)
(* the Z80 in between. Without them nobody is at the other end.            *)
(***************************************************************************)
Gray(p) == [p EXCEPT !.linkemu = "gray"]
None(p) == [p EXCEPT !.linkemu = "none"]

em_begin(what) ==
  /\ peer = "idle" /\ lp.linkemu # "black"
  /\ peer' = what /\ Keep(Gray(lp))
  /\ UNCHANGED <<z80, bits>>

em_send_byte(byte) ==
  /\ peer = "send" /\ graylink_ready(lp)
  /\ peer' = "sent"
  /\ Leave(graylink_send_byte(lp, byte), Append(due, byte), owed, owed # <<>>)
  /\ UNCHANGED <<z80, bits, amiss>>

em_sent ==
  /\ peer = "sent" /\ graylink_ready(lp)
  /\ peer' = "idle" /\ Keep(None(lp))
  /\ UNCHANGED <<z80, bits>>

em_get_byte ==
  /\ peer = "get"
  /\ LET in == dbus_update(lp).grayin
         q == graylink_get_byte(lp)
     IN IF Len(in) = NBits
        THEN /\ peer' = "idle" /\ Arrives(owed, in)
             /\ Leave(None(q), due, Rest(owed), FALSE)
        ELSE Keep(q) /\ UNCHANGED peer
  /\ UNCHANGED <<z80, bits>>

\* The Z80 has run for a while and was stopped: an error ends the transfer.
em_run_link ==
  /\ lp.stops # {}
  /\ LET q == [lp EXCEPT !.stops = {}]
     IN IF "error" \in lp.stops /\ peer # "idle"
        THEN peer' = "idle" /\ Keep(None(q))
        ELSE Keep(q) /\ UNCHANGED peer
  /\ UNCHANGED <<z80, bits>>

\* The timeout has passed, or the task is cancelled: the port stays as it is,
em_give_up ==
  /\ peer # "idle"
  /\ peer' = "idle" /\ Keep(None(lp))
  /\ UNCHANGED <<z80, bits>>

\* until the next transfer begins with a reset.
em_reset ==
  /\ peer = "idle" /\ lp.linkemu # "black"
  /\ Reset(graylink_reset(Gray(lp)))
  /\ UNCHANGED <<peer, z80, bits>>

\* A real cable in raw mode: update_ext_cable_raw.
cable_lines(l) ==
  /\ lp.linkemu = "black"
  /\ Risk(blacklink_set_lines(lp, l), TRUE)
  /\ UNCHANGED <<peer, z80, bits>>

LinkNext ==
  \/ /\ disturbed < MaxDisturbed
     /\ \/ timer_expires \/ z80_read
        \/ \E byte \in Byte : z80_write(byte) \/ raw_send(byte) \/ em_send_byte(byte)
        \/ \E mode \in LinkModes : z80_mode(mode)
        \/ raw_acknowledged \/ raw_next \/ raw_receive \/ raw_bit
        \/ \E what \in {"send", "get"} : em_begin(what)
        \/ em_sent \/ em_get_byte
        \/ \E l \in 0 .. 3 : cable_lines(l)
  \/ z80_reset \/ em_run_link \/ em_give_up \/ em_reset

LinkSpec == LinkInit /\ [][LinkNext]_linkVars

-----------------------------------------------------------------------------
(***************************************************************************)
(* Properties                                                              *)
(***************************************************************************)
Bits == UNION {[1 .. n -> Bit] : n \in 0 .. NBits}

LinkTypeOK ==
  /\ lp.lines \in 0 .. 3 /\ lp.extlines \in 0 .. 3
  /\ lp.linkemu \in {"none", "gray", "black"}
  /\ lp.mode \in LinkModes \cup {{}} /\ lp.flags \subseteq AssistFlag
  /\ {lp.in, lp.out, lp.grayin, lp.grayout, bits} \subseteq Bits
  /\ lp.grayoutbits \in 0 .. NBits + 1
  /\ lp.timer \in BOOLEAN
  /\ lp.interrupts \subseteq {"active", "read", "idle", "error"}
  /\ lp.stops \subseteq {"state", "read_byte", "write_byte", "error"}
  /\ peer \in {"idle", "send", "sent", "get"}
  /\ z80 \in {"idle", "low", "high", "receive", "ack"}

(***************************************************************************)
(* Bytes arrive unchanged, in order, none lost and none twice, in both     *)
(* directions, with the assist and without, as long as nothing has failed  *)
(* or been interrupted in the middle of a byte.                            *)
(***************************************************************************)
LinkIntact ==
  disturbed = 0 =>
    /\ ~amiss
    /\ Quiet(lp) => due = <<>> /\ owed = <<>>

(***************************************************************************)
(* After every call but get_byte and the timer, the wires are settled:     *)
(* looking at them once more would change none of them, so that neither    *)
(* side waits for something that has already happened.                     *)
(***************************************************************************)
Wires(p) == <<p.lines, p.extlines, p.in, p.out, p.grayin, p.grayoutbits>>

LinkSettled ==
  [][\/ Wires(lp') = Wires(lp) \/ lp'.linkemu # lp.linkemu
     \/ Wires(dbus_update(lp')) = Wires(lp')
     \/ em_get_byte \/ timer_expires \/ z80_reset]_linkVars
=============================================================================
