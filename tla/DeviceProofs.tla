----------------------------- MODULE DeviceProofs -----------------------------
(***************************************************************************)
(* Theorems about the devices that a model is made of: the Flash chip      *)
(* (Flash), the programmable timers (UserTimers) and the link port         *)
(* (LinkPort), in this order.                                              *)
(***************************************************************************)
EXTENDS Flash, UserTimers, LinkPort, SequenceTheorems, WellFoundedInduction, TLAPS

-----------------------------------------------------------------------------
(***************************************************************************)
(* The Flash chip, for every set of addresses and any sectors and          *)
(* protection groups.                                                      *)
(***************************************************************************)

\* Where the chip is in a sequence, the log says how it came there.
Begun ==
  /\ state = "AA" => log[1] = "aa"
  /\ state = "55" => log[1] = "55" /\ log[2] = "aa"
  /\ state = "ERASE" => log[1] = "80" /\ log[2] = "55" /\ log[3] = "aa"
  /\ state = "ERAA" =>
       log[1] = "aa" /\ log[2] = "80" /\ log[3] = "55" /\ log[4] = "aa"
  /\ state = "ER55" => /\ log[1] = "55" /\ log[2] = "aa" /\ log[3] = "80"
                       /\ log[4] = "55" /\ log[5] = "aa"

\* What was asked for is what the chip has programmed last, and it is void
\* while sectors are erased; only an emulated delay makes the chip busy.
Asked ==
  /\ asked # NoneAsked => asked = prog /\ busy \notin {"ERASE_WAIT", "ERASE"}
  /\ busy # "no" => emuflags

FlashInv == FlashTypeOK /\ Begun /\ Asked /\ FlashBusyTimed

LEMMA Bit7Type == ASSUME NEW v PROVE Bit7(v) \in {0, 1}
  BY DEF Bit7

\* A tuple of five tokens is a log.
LEMMA LogType ==
  ASSUME NEW t \in {"x", "aa", "55", "80"}, log \in [1 .. 5 -> {"x", "aa", "55", "80"}]
  PROVE <<t, log[1], log[2], log[3], log[4]>> \in [1 .. 5 -> {"x", "aa", "55", "80"}]
  BY SMT

LEMMA NoLogType == NoLog \in [1 .. 5 -> {"x", "aa", "55", "80"}]
  BY SMT DEF NoLog

LEMMA LoggedType ==
  ASSUME NEW a \in Addr, NEW v, log \in [1 .. 5 -> {"x", "aa", "55", "80"}]
  PROVE Logged(a, v) \in [1 .. 5 -> {"x", "aa", "55", "80"}]
  BY LogType, NoLogType DEF Logged, Token

LEMMA NextStateType ==
  ASSUME NEW a, NEW v PROVE NextState(a, v) \in States
  BY DEF NextState, States

-----------------------------------------------------------------------------
(***************************************************************************)
(* The invariant                                                           *)
(***************************************************************************)
LEMMA FlashStart == ASSUME FlashInit PROVE FlashInv
<1>1. prog \in [addr : Addr, bit : {0, 1}]
  BY FlashConstants DEF FlashInit
<1>2. FlashTypeOK
  BY <1>1, NoLogType DEF FlashInit, FlashTypeOK, States
<1>. QED
  BY <1>2 DEF FlashInit, FlashInv, Begun, Asked, FlashBusyTimed

\* Programming, also of a sector that is protected.
LEMMA Programs ==
  ASSUME FlashInv, NEW a \in Addr, NEW v \in Written,
         NEW done \in {"READ", "FASTMODE"}, try_program(a, v, done),
         UNCHANGED chipVars, log' = Logged(a, v)
  PROVE FlashInv'
<1>. USE DEF FlashInv
<1>1. log' \in [1 .. 5 -> {"x", "aa", "55", "80"}]
  BY LoggedType DEF FlashTypeOK
<1>2. CASE ~Writable(a)
  BY <1>1, <1>2 DEF try_program, FlashTypeOK, States, Begun, Asked, FlashBusyTimed, chipVars
<1>3. CASE Writable(a)
  <2>1. program_byte(a, v, done)
    BY <1>3 DEF try_program
  <2>2. state' \in {"READ", "FASTMODE", "ERROR"}
    BY <2>1 DEF program_byte
  <2>3. mem' \in [Addr -> {0, 1}]
    BY <2>1 DEF program_byte, FlashTypeOK
  <2>4. prog' = [addr |-> a, bit |-> Bit7(v)] /\ asked' = prog'
    BY <2>1 DEF program_byte
  <2>5. prog' \in [addr : Addr, bit : {0, 1}]
    BY <2>4, Bit7Type
  <2>6. /\ emuflags => busy' = "PROGRAM" /\ delay' = TRUE
        /\ ~emuflags => UNCHANGED <<busy, delay>>
    BY <2>1 DEF program_byte, set_busy
  <2>7. FlashTypeOK'
    BY <1>1, <2>2, <2>3, <2>4, <2>5, <2>6 DEF FlashTypeOK, States, chipVars
  <2>8. Asked' /\ FlashBusyTimed'
    BY <2>4, <2>6 DEF Asked, FlashBusyTimed, chipVars
  <2>. QED
    BY <2>2, <2>7, <2>8 DEF Begun
<1>. QED
  BY <1>2, <1>3

LEMMA Erases ==
  ASSUME FlashInv, NEW a \in Addr, NEW v \in Written, NEW S,
         erase_sectors(S), state' = "READ",
         UNCHANGED chipVars, log' = Logged(a, v)
  PROVE FlashInv'
<1>. USE DEF FlashInv
<1>1. log' \in [1 .. 5 -> {"x", "aa", "55", "80"}]
  BY LoggedType DEF FlashTypeOK
<1>. DEFINE gone == {b \in Addr : SectorOf[b] \in S /\ Writable(b)}
<1>2. CASE gone = {}
  BY <1>1, <1>2 DEF erase_sectors, FlashTypeOK, States, Begun, Asked, FlashBusyTimed, chipVars
<1>3. CASE gone # {}
  <2>1. /\ mem' = [b \in Addr |-> IF b \in gone THEN 1 ELSE mem[b]]
        /\ asked' = NoneAsked
        /\ set_busy("ERASE_WAIT")
    BY <1>3 DEF erase_sectors
  <2>2. PICK b \in gone : prog' = [prog EXCEPT !.addr = b]
    BY <1>3 DEF erase_sectors
  <2>3. prog' \in [addr : Addr, bit : {0, 1}]
    BY <2>2 DEF FlashTypeOK
  <2>4. /\ emuflags => busy' = "ERASE_WAIT" /\ delay' = TRUE
        /\ ~emuflags => UNCHANGED <<busy, delay>>
    BY <2>1 DEF set_busy
  <2>5. mem' \in [Addr -> {0, 1}]
    BY <2>1 DEF FlashTypeOK
  <2>6. FlashTypeOK'
    BY <1>1, <2>1, <2>3, <2>4, <2>5 DEF FlashTypeOK, States, chipVars
  <2>. QED
    BY <2>1, <2>4, <2>6 DEF Begun, Asked, FlashBusyTimed, chipVars
<1>. QED
  BY <1>2, <1>3

\* A write that is a step of a sequence, or breaks one off.
LEMMA Follows ==
  ASSUME FlashInv, NEW a \in Addr, NEW v \in Written, Goto(NextState(a, v)),
         UNCHANGED chipVars, log' = Logged(a, v)
  PROVE FlashInv'
<1>. USE DEF FlashInv
<1>1. log' \in [1 .. 5 -> {"x", "aa", "55", "80"}]
  BY LoggedType DEF FlashTypeOK
<1>2. FlashTypeOK' /\ Asked' /\ FlashBusyTimed'
  BY <1>1, NextStateType DEF Goto, FlashTypeOK, Asked, FlashBusyTimed, chipVars
<1>3. Token(a, v) # "x" =>
        /\ log'[1] = Token(a, v) /\ log'[2] = log[1] /\ log'[3] = log[2]
        /\ log'[4] = log[3] /\ log'[5] = log[4]
  BY DEF Logged
<1>4. Begun'
  BY <1>3 DEF Begun, Goto, NextState, Token, First, Second, Command
<1>. QED
  BY <1>2, <1>4

LEMMA FlashStep == ASSUME FlashInv, [FlashNext]_flashVars PROVE FlashInv'
<1>1. ASSUME NEW a \in Addr, NEW v \in Written, tilem_flash_write_byte(a, v)
      PROVE FlashInv'
  BY <1>1, Programs, Erases, Follows DEF tilem_flash_write_byte
<1>2. CASE tilem_flash_read_byte
  BY <1>2, NoLogType DEF tilem_flash_read_byte, FlashInv, FlashTypeOK, States,
       Begun, Asked, FlashBusyTimed, chipVars
<1>3. CASE tilem_flash_delay_timer
  BY <1>3 DEF tilem_flash_delay_timer, FlashInv, FlashTypeOK, Begun, Asked,
       FlashBusyTimed, chipVars
<1>4. ASSUME NEW u \in BOOLEAN, out_unlock(u) PROVE FlashInv'
  BY <1>4 DEF out_unlock, FlashInv, FlashTypeOK, Begun, Asked, FlashBusyTimed
<1>5. ASSUME NEW g \in SUBSET Groups, out_override(g) PROVE FlashInv'
  BY <1>5 DEF out_override, FlashInv, FlashTypeOK, Begun, Asked, FlashBusyTimed
<1>6. CASE tilem_flash_reset
  BY <1>6, NoLogType DEF tilem_flash_reset, FlashInv, FlashTypeOK, States,
       Begun, Asked, FlashBusyTimed
<1>7. CASE UNCHANGED flashVars
  BY <1>7 DEF flashVars, FlashInv, FlashTypeOK, Begun, Asked, FlashBusyTimed
<1>. QED
  BY <1>1, <1>2, <1>3, <1>4, <1>5, <1>6, <1>7 DEF FlashNext

(***************************************************************************)
(* The chip keeps to its types, and where it is in a command sequence the  *)
(* writes before have been those of the sequence.                          *)
(***************************************************************************)
THEOREM FlashTypes == FlashSpec => [](FlashTypeOK /\ Begun)
<1>1. FlashSpec => []FlashInv
  BY FlashStart, FlashStep, PTL DEF FlashSpec
<1>2. FlashInv => FlashTypeOK /\ Begun
  BY DEF FlashInv
<1>. QED
  BY <1>1, <1>2, PTL

(***************************************************************************)
(* A busy chip has its timer running.                                      *)
(***************************************************************************)
LEMMA FlashEnds == FlashSpec => []FlashBusyTimed
<1>1. FlashSpec => []FlashInv
  BY FlashStart, FlashStep, PTL DEF FlashSpec
<1>2. FlashInv => FlashBusyTimed
  BY DEF FlashInv
<1>. QED
  BY <1>1, <1>2, PTL

(***************************************************************************)
(* A program that polls what it has programmed is never told that it is    *)
(* done when it is not.                                                    *)
(***************************************************************************)
LEMMA FlashPolls == FlashSpec => []FlashPoll
<1>1. FlashSpec => []FlashInv
  BY FlashStart, FlashStep, PTL DEF FlashSpec
<1>2. ASSUME FlashInv PROVE FlashPoll
  <2>1. SUFFICES ASSUME NEW a \in Addr, NEW b \in {0, 1},
                        asked = [addr |-> a, bit |-> b], Status(a) = b
                 PROVE busy = "no" /\ mem[a] = b
    BY DEF FlashPoll
  <2>2. asked # NoneAsked
    BY <2>1, FlashConstants DEF NoneAsked
  <2>3. prog.bit = b /\ busy \notin {"ERASE_WAIT", "ERASE"}
    BY <1>2, <2>1, <2>2 DEF FlashInv, Asked
  <2>4. busy \in {"no", "PROGRAM"}
    BY <1>2, <2>3 DEF FlashInv, FlashTypeOK
  <2>5. 1 - b # b
    OBVIOUS
  <2>. QED
    BY <2>1, <2>3, <2>4, <2>5 DEF Status
<1>. QED
  BY <1>1, <1>2, PTL

(***************************************************************************)
(* The chip's status is right and its work ends (tilem_flash_read_byte,    *)
(* tilem_flash_delay_timer), for all addresses, sectors and groups.        *)
(***************************************************************************)
THEOREM FlashStatusRight == FlashSpec => []FlashStatus
<1>1. FlashPoll /\ FlashBusyTimed => FlashStatus
  BY DEF FlashStatus
<1>. QED
  BY <1>1, FlashPolls, FlashEnds, PTL


(***************************************************************************)
(* Nothing is erased but by a whole command sequence, in sectors that may  *)
(* be written.                                                             *)
(***************************************************************************)
THEOREM FlashErases == FlashSpec => FlashErased
<1>1. FlashSpec => []FlashInv
  BY FlashStart, FlashStep, PTL DEF FlashSpec
<1>2. ASSUME FlashInv, [FlashNext]_flashVars,
             NEW a \in Addr, mem[a] = 0, mem'[a] = 1
      PROVE unlock /\ Writable(a) /\ log = <<"55", "aa", "80", "55", "aa">>
  <2>1. PICK c \in Addr, v \in Written : tilem_flash_write_byte(c, v)
    BY <1>2 DEF FlashNext, flashVars, tilem_flash_read_byte,
         tilem_flash_delay_timer, out_unlock, out_override, tilem_flash_reset
  <2>2. ASSUME NEW done \in {"READ", "FASTMODE"}, try_program(c, v, done) PROVE FALSE
    BY <1>2, <2>2 DEF try_program, program_byte, FlashInv, FlashTypeOK
  <2>3. Erasing(c, v) /\ erase_sectors(Sectors(c, v))
    BY <1>2, <2>1, <2>2 DEF tilem_flash_write_byte, Goto
  <2>4. Writable(a)
    BY <1>2, <2>3 DEF erase_sectors
  <2>5. state = "ER55" /\ unlock
    BY <2>1, <2>3 DEF Erasing, tilem_flash_write_byte, Accepts
  <2>6. log = <<"55", "aa", "80", "55", "aa">>
    BY <1>2, <2>5 DEF FlashInv, Begun, FlashTypeOK
  <2>. QED
    BY <2>4, <2>5, <2>6
<1>3. FlashInv /\ [FlashNext]_flashVars =>
        [\A a \in Addr : mem[a] = 0 /\ mem'[a] = 1 =>
           unlock /\ Writable(a) /\ log = <<"55", "aa", "80", "55", "aa">>]_flashVars
  BY <1>2
<1>. QED
  BY <1>1, <1>3, PTL DEF FlashSpec, FlashErased

-----------------------------------------------------------------------------
(***************************************************************************)
(* The programmable timers, for a counter of any length and every set of   *)
(* frequencies.                                                            *)
(***************************************************************************)

UserInv == UserTypeOK /\ UserReload /\ UserPending

LEMMA ProductNat == ASSUME NEW m \in Nat, NEW n \in Nat PROVE m * n \in Nat
  OBVIOUS

LEMMA Durations ==
  ASSUME UserTypeOK, NEW value \in Value
  PROVE normal_duration(value) \in Nat /\ overflow_duration \in Nat
<1>1. frequency \in Nat /\ Full \in Nat /\ value \in Nat
  BY UserConstants DEF UserTypeOK, Value
<1>. QED
  BY <1>1, ProductNat DEF normal_duration, overflow_duration, get_duration

LEMMA ProductPositive ==
  ASSUME NEW m \in Nat \ {0}, NEW n \in Nat \ {0} PROVE m * n \in Nat \ {0}
<1>1. m * n >= n
  OBVIOUS
<1>. QED
  BY <1>1, ProductNat

\* A timer that is overdue has lost count, but has a value.
LEMMA GetValueType == ASSUME UserTypeOK, UserReload PROVE get_value \subseteq Value
<1>1. CASE running /\ left >= 0
  <2>. DEFINE d == overflow_duration
              v == (left * Full) \div d
  <2>1. Full \in Nat \ {0}
    BY UserConstants
  <2>2. frequency \in Nat \ {0}
    BY <1>1, UserConstants DEF UserTypeOK, UserReload
  <2>3. d \in Nat \ {0}
    BY <2>1, <2>2, ProductPositive DEF overflow_duration, get_duration
  <2>4. left \in Nat
    BY <1>1 DEF UserTypeOK
  <2>5. left * Full \in Nat
    BY <2>1, <2>4, ProductNat
  <2>. HIDE DEF d
  <2>6. v \in Int
    BY <2>3, <2>5
  <2>. HIDE DEF v
  <2>7. v % Full \in Value
    BY <2>1, <2>6 DEF Value
  <2>. QED
    BY <1>1, <2>7 DEF get_value, UserTypeOK, v, d
<1>. QED
  BY <1>1 DEF get_value, UserTypeOK

-----------------------------------------------------------------------------
LEMMA IdleTimer ==
  ASSUME loopvalue = 0, frequency = 0, status = {}, left = 0, period = 0,
         running = FALSE, pending = FALSE, halted \in BOOLEAN
  PROVE UserInv
<1>1. 0 \in Value
  BY UserConstants DEF Value
<1>2. frequency \in Nat /\ left \in Int /\ period \in Nat
  OBVIOUS
<1>3. running \in BOOLEAN /\ pending \in BOOLEAN /\ status \in SUBSET UserFlag
  BY Zenon
<1>4. UserTypeOK
  BY <1>1, <1>2, <1>3, Zenon DEF UserTypeOK
<1>5. UserReload /\ UserPending
  BY DEF UserReload, UserPending
<1>. QED
  BY <1>4, <1>5 DEF UserInv

LEMMA UserStart == ASSUME UserInit PROVE UserInv
  BY IdleTimer, Zenon DEF UserInit

LEMMA UserStep == ASSUME UserInv, [UserNext]_userVars PROVE UserInv'
<1>. USE DEF UserInv, UserPending
<1>1. CASE tilem_user_timers_reset
  <2>1. 0 \in Value
    BY UserConstants DEF Value
  <2>a. frequency' \in Nat /\ left' \in Int /\ period' \in Nat
    BY <1>1 DEF tilem_user_timers_reset
  <2>b. running' \in BOOLEAN /\ pending' \in BOOLEAN /\ status' \in SUBSET UserFlag
    BY <1>1, Zenon DEF tilem_user_timers_reset
  <2>2. UserTypeOK'
    BY <1>1, <2>1, <2>a, <2>b, Zenon DEF tilem_user_timers_reset, UserTypeOK
  <2>3. UserReload' /\ UserPending'
    BY <1>1 DEF tilem_user_timers_reset, UserReload
  <2>. QED
    BY <2>2, <2>3
<1>2. CASE clock
  BY <1>2 DEF clock, UserTypeOK, UserReload, overflow_duration, normal_duration,
       get_duration
<1>3. CASE expired
  <2>1. overflow_duration \in Nat
    BY Durations, UserConstants DEF UserTypeOK
  <2>2. /\ left' \in Int /\ period' \in Nat
        /\ overflow_duration' = overflow_duration
        /\ normal_duration(loopvalue)' = normal_duration(loopvalue)
    BY <1>3, <2>1 DEF expired, UserTypeOK, overflow_duration, normal_duration,
         get_duration
  <2>3. status' \in SUBSET UserFlag /\ pending' \in BOOLEAN
    BY <1>3 DEF expired, UserTypeOK, UserFlag
  <2>4. UserTypeOK'
    BY <1>3, <2>2, <2>3 DEF expired, UserTypeOK
  <2>5. UserReload'
    BY <1>3, <2>2 DEF expired, UserReload, UserTypeOK
  <2>6. UserPending'
    BY <1>3 DEF expired, UserTypeOK
  <2>. QED
    BY <2>4, <2>5, <2>6
<1>4. ASSUME NEW unit \in Units, set_frequency(unit) PROVE UserInv'
  <2>1. loopvalue' \in Value
    BY <1>4, GetValueType DEF set_frequency
  <2>a. frequency' \in Nat /\ left' \in Int /\ period' \in Nat
    BY <1>4, UserConstants DEF set_frequency
  <2>2. UserTypeOK'
    BY <1>4, <2>1, <2>a, Zenon DEF set_frequency, UserTypeOK
  <2>3. UserReload' /\ UserPending'
    BY <1>4 DEF set_frequency, UserReload
  <2>. QED
    BY <2>2, <2>3
<1>5. ASSUME NEW mode \in SUBSET {"loop", "interrupt"}, set_mode(mode) PROVE UserInv'
  <2>1. /\ overflow_duration' = overflow_duration
        /\ normal_duration(loopvalue)' = normal_duration(loopvalue)
        /\ normal_duration(loopvalue) \in Nat
        /\ loopvalue = 0 => normal_duration(loopvalue) = overflow_duration
    BY <1>5, Durations DEF set_mode, UserTypeOK, overflow_duration, normal_duration,
         get_duration
  <2>2. /\ "finished" \notin status' /\ "overflow" \notin status'
        /\ ("loop" \in status') <=> ("loop" \in mode)
        /\ status' \in SUBSET UserFlag
    BY <1>5 DEF set_mode, UserTypeOK, UserFlag
  <2>. QED
    BY <1>5, <2>1, <2>2 DEF set_mode, UserTypeOK, UserReload
<1>6. ASSUME NEW value \in Value, start(value) PROVE UserInv'
  <2>1. /\ overflow_duration' = overflow_duration
        /\ normal_duration(loopvalue)' = normal_duration(value)
        /\ normal_duration(value) \in Nat /\ overflow_duration \in Nat
        /\ value = 0 => normal_duration(value) = overflow_duration
    BY <1>6, Durations DEF start, UserTypeOK, overflow_duration, normal_duration,
         get_duration
  <2>a. left' \in Int /\ period' \in Nat
    BY <1>6, <2>1 DEF start, UserTypeOK
  <2>b. running' \in BOOLEAN
    BY <1>6, Zenon DEF start, UserTypeOK
  <2>3. UserTypeOK'
    BY <1>6, <2>a, <2>b, Zenon DEF start, UserTypeOK
  <2>4. UserReload'
    BY <1>6, <2>1 DEF start, UserReload
  <2>5. UserPending'
    BY <1>6 DEF start
  <2>. QED
    BY <2>3, <2>4, <2>5
<1>7. ASSUME NEW on \in BOOLEAN, no_halt_int(on) \/ halt(on) PROVE UserInv'
  <2>1. /\ status' \in SUBSET UserFlag /\ halted' \in BOOLEAN
        /\ \A f \in UserFlag \ {"no_halt_int"} : (f \in status') <=> (f \in status)
        /\ UNCHANGED <<frequency, loopvalue, running, left, period, pending>>
    BY <1>7 DEF no_halt_int, halt, UserTypeOK, UserFlag
  <2>2. /\ ("finished" \in status') <=> ("finished" \in status)
        /\ ("interrupt" \in status') <=> ("interrupt" \in status)
        /\ ("overflow" \in status') <=> ("overflow" \in status)
        /\ ("loop" \in status') <=> ("loop" \in status)
    BY <2>1 DEF UserFlag
  <2>3. UserTypeOK'
    BY <2>1 DEF UserTypeOK
  <2>4. UserReload'
    BY <2>1, <2>2 DEF UserReload, overflow_duration, normal_duration, get_duration
  <2>. QED
    BY <2>1, <2>2, <2>3, <2>4
<1>8. CASE UNCHANGED userVars
  BY <1>8 DEF userVars, UserTypeOK, UserReload, overflow_duration, normal_duration,
       get_duration
<1>. QED
  BY <1>1, <1>2, <1>3, <1>4, <1>5, <1>6, <1>7, <1>8 DEF UserNext

(***************************************************************************)
(* A running timer does, when it expires, what its flags and value say.    *)
(***************************************************************************)
THEOREM UserReloads == UserSpec => []UserReload
<1>1. UserSpec => []UserInv
  BY UserStart, UserStep, PTL DEF UserSpec
<1>2. UserInv => UserReload
  BY DEF UserInv
<1>. QED
  BY <1>1, <1>2, PTL

(***************************************************************************)
(* No interrupt without a finished timer that is to raise one.             *)
(***************************************************************************)
THEOREM UserInterrupts == UserSpec => [](UserTypeOK /\ UserPending)
<1>1. UserSpec => []UserInv
  BY UserStart, UserStep, PTL DEF UserSpec
<1>2. UserInv => UserTypeOK /\ UserPending
  BY DEF UserInv
<1>. QED
  BY <1>1, <1>2, PTL

-----------------------------------------------------------------------------
(***************************************************************************)
(* The link port                                                           *)
(*                                                                         *)
(* Between two calls, the port rests, or a byte is Coming to the           *)
(* calculator, or one is Going from it; k of its bits have been shown, and *)
(* the two pairs of wires say how many of them the receiver has (Taken).   *)
(* Each turn of the loop of dbus_update keeps that (GrayTurnKeeps,         *)
(* AssistTurnKeeps), hence the whole loop, which ends (LoopEnds).          *)
(***************************************************************************)

Port ==
  [lines : 0 .. 3, extlines : 0 .. 3, linkemu : {"none", "gray", "black"},
   mode : LinkModes \cup {{}}, flags : SUBSET AssistFlag,
   in : Seq(Bit), out : Seq(Bit), grayin : Seq(Bit), grayout : Seq(Bit),
   grayoutbits : Nat, timer : BOOLEAN,
   interrupts : SUBSET {"active", "read", "idle", "error"},
   stops : SUBSET {"state", "read_byte", "write_byte", "error"}]

\* The registers hold no more than a byte, and the counter is that of the rest.
Fits(p) ==
  /\ Len(p.out) <= NBits /\ Len(p.grayin) <= NBits /\ Len(p.grayout) <= NBits
  /\ Len(p.in) <= NBits /\ (Len(p.in) = NBits => "read_byte" \in p.flags)
  /\ p.grayoutbits <= NBits + 1
  /\ p.grayoutbits > 0 => Len(p.grayout) = p.grayoutbits - 1 /\ p.grayin = <<>>

FirstBits(s, byte, n) == Len(s) = n /\ \A i \in 1 .. n : s[i] = byte[i]
LastBits(s, byte, n) == Len(s) = n /\ \A i \in 1 .. n : s[i] = byte[NBits - n + i]

\* The sender's wires s and the receiver's r, after k bits of the byte have been shown
Shake(s, r, byte, k) ==
  \/ s = 0 /\ r = 0
  \/ k > 0 /\ s = byte[k] /\ r \in {0, Other(byte[k])}
  \/ k > 0 /\ s = 0 /\ r = Other(byte[k])

\* How many of them the receiver has
Taken(s, r, k) == IF s = 0 /\ r = 0 THEN k ELSE k - 1

\* The calculator has begun neither to send nor to receive.
Free(p, z, bs) ==
  /\ bs = <<>> /\ z \in {"idle", "high"} /\ (z = "high" => "assist" \notin p.mode)
  /\ "write_busy" \in p.flags => p.out = <<>>
  /\ "read_byte" \notin p.flags => p.in = <<>>

Resting(p, z, bs) ==
  /\ Free(p, z, bs) /\ p.lines = 0 /\ p.extlines = 0 /\ p.grayoutbits <= 1
  /\ p.grayin = <<>> \/ (Len(p.grayin) = NBits /\ p.grayoutbits = 0)

RawPort(p) == "assist" \notin p.mode /\ "write_busy" \notin p.flags

\* The byte c is sent to the calculator, and k bits of it have been shown.
Coming(p, z, bs, c, k) ==
  LET n == Taken(p.extlines, p.lines, k) IN
  /\ p.grayoutbits = NBits + 1 - k /\ LastBits(p.grayout, c, NBits - k) /\ p.grayin = <<>>
  /\ Shake(p.extlines, p.lines, c, k) /\ n < NBits
  /\ \/ Free(p, z, bs) /\ n = 0 /\ p.lines = 0
     \/ /\ "assist" \in p.mode /\ p.flags \cap {"read_byte", "write_busy"} = {}
        /\ z = "idle" /\ bs = <<>> /\ FirstBits(p.in, c, n)
     \/ /\ RawPort(p) /\ z \in {"receive", "ack"} /\ (z = "ack" <=> p.lines # 0)
        /\ FirstBits(bs, c, IF z = "ack" THEN n + 1 ELSE n)

\* The byte b is sent by the calculator, and k bits of it have been shown.
Going(p, z, bs, b, k) ==
  LET n == Taken(p.lines, p.extlines, k) IN
  /\ p.grayoutbits = 0 /\ Shake(p.lines, p.extlines, b, k) /\ n < NBits
  /\ "read_byte" \notin p.flags => p.in = <<>>
  /\ \/ "write_busy" \in p.flags /\ z = "idle" /\ bs = <<>> /\ LastBits(p.out, b, NBits - k)
     \/ RawPort(p) /\ z = "low" /\ p.lines # 0 /\ LastBits(bs, b, NBits - k + 1)
     \/ RawPort(p) /\ z = "high" /\ p.lines = 0 /\ k > 0 /\ LastBits(bs, b, NBits - k)
  /\ \/ FirstBits(p.grayin, b, n)
     \/ Len(p.grayin) = NBits /\ n = 0 /\ p.extlines = 0

\* Bytes that have come but are still to be taken
Received(p) == IF "read_byte" \in p.flags THEN <<p.in>> ELSE <<>>
GrayReceived(p) == IF Len(p.grayin) = NBits THEN <<p.grayin>> ELSE <<>>

Underway(p, z, bs, to, from) ==
  \/ Resting(p, z, bs) /\ to = Received(p) /\ from = GrayReceived(p)
  \/ \E c \in Byte, k \in 0 .. NBits :
       Coming(p, z, bs, c, k) /\ to = Append(Received(p), c) /\ from = <<>>
  \/ \E b \in Byte, k \in 0 .. NBits :
       Going(p, z, bs, b, k) /\ to = Received(p) /\ from = Append(GrayReceived(p), b)

PortSound(p) ==
  /\ ~Failed(p)
  /\ "read_byte" \in p.flags => "assist" \in p.mode /\ Len(p.in) = NBits
  /\ "assist" \notin p.mode => p.in = <<>>

BitsFit ==
  /\ bits \in Seq(Bit) /\ Len(bits) <= NBits
  /\ z80 = "idle" => bits = <<>>
  /\ z80 = "receive" => Len(bits) < NBits
  /\ z80 = "low" => bits # <<>>

LInv ==
  /\ lp \in Port /\ Fits(lp) /\ BitsFit
  /\ peer \in {"idle", "send", "sent", "get"}
  /\ z80 \in {"idle", "low", "high", "receive", "ack"}
  /\ disturbed \in Nat /\ ~amiss
  /\ IF disturbed = 0 THEN PortSound(lp) /\ Underway(lp, z80, bits, due, owed)
     ELSE due = <<>> /\ owed = <<>>
-----------------------------------------------------------------------------
(* Numbers and repetition *)

\* A set that has 0, and with a number the next, has them all.
LEMMA CountUp ==
  ASSUME NEW T, 0 \in T, \A n \in Nat : n \in T => n + 1 \in T
  PROVE  \A n \in Nat : n \in T
<1> SUFFICES ASSUME NEW m \in Nat, m \notin T PROVE FALSE
  OBVIOUS
<1> DEFINE R == OpToRel(<, Nat)
           U == {n \in Nat : n \notin T}
<1>1. IsWellFoundedOn(R, Nat)
  BY NatLessThanWellFounded
<1>2. \A a, b \in Nat : a < b => <<a, b>> \in R
  BY Zenon DEF OpToRel
<1>3. U # {} /\ U \subseteq Nat
  OBVIOUS
<1> HIDE DEF R
<1>4. PICK n \in U : \A k \in U : ~(<<k, n>> \in R)
  <2> HIDE DEF U
  <2>1. QED
    BY <1>1, <1>3, WFMin
<1>5. n \in Nat /\ n # 0 /\ n - 1 \in Nat /\ n - 1 < n
  BY <1>4
<1>6. n - 1 \notin U
  BY <1>2, <1>4, <1>5
<1>7. QED
  BY <1>4, <1>5, <1>6

\* F can be applied to a over and over, M times.
Repeated(S, F, a, M) ==
  \E g \in [0 .. M -> S] : g[0] = a /\ \A n \in 1 .. M : g[n] = F[g[n - 1]]

LEMMA Repeat ==
  ASSUME NEW S, NEW F \in [S -> S], NEW a \in S, NEW M \in Nat
  PROVE  Repeated(S, F, a, M)
<1> DEFINE P(m) == \E g \in [0 .. m -> S] : g[0] = a /\ \A n \in 1 .. m : g[n] = F[g[n - 1]]
           T == {m \in Nat : P(m)}
<1>1. 0 \in T
  <2> DEFINE g == [n \in 0 .. 0 |-> a]
  <2>1. g \in [0 .. 0 -> S] /\ g[0] = a /\ \A n \in 1 .. 0 : g[n] = F[g[n - 1]]
    OBVIOUS
  <2>2. QED
    BY <2>1
<1>2. ASSUME NEW m \in Nat, m \in T PROVE m + 1 \in T
  <2>1. PICK g \in [0 .. m -> S] : g[0] = a /\ \A n \in 1 .. m : g[n] = F[g[n - 1]]
    BY <1>2
  <2> DEFINE h == [n \in 0 .. m + 1 |-> IF n = m + 1 THEN F[g[m]] ELSE g[n]]
  <2>2. h \in [0 .. m + 1 -> S] /\ h[0] = a
    BY <2>1
  <2>3. ASSUME NEW n \in 1 .. m + 1 PROVE h[n] = F[h[n - 1]]
    BY <2>1
  <2>4. P(m + 1)
    <3> HIDE DEF h
    <3>1. QED
      BY <2>2, <2>3
  <2>5. QED
    BY <2>4
<1>3. M \in T
  <2> HIDE DEF T
  <2>1. QED
    BY <1>1, <1>2, CountUp
<1>4. QED
  BY <1>3 DEF Repeated


-----------------------------------------------------------------------------
(* The loop of dbus_update *)

LEMMA BitsInByte == NBits \in Nat \ {0} /\ MaxTurns \in Nat \ {0}
BY LinkConstants DEF MaxTurns

\* The loop stays among ports that both of its sides stay among, and one turn
\* follows the other.
LEMMA TurnsAre ==
  ASSUME NEW S, NEW p \in S, \A q \in S : gray_turn(q) \in S /\ assist_turn(q) \in S
  PROVE  /\ turns(p) \in [0 .. MaxTurns -> [port : S, on : BOOLEAN]]
         /\ turns(p)[0] = [port |-> p, on |-> TRUE]
         /\ \A n \in 1 .. MaxTurns : turns(p)[n] = turn(turns(p)[n - 1])
<1> DEFINE St == [port : S, on : BOOLEAN]
           F == [s \in St |-> turn(s)]
           a == [port |-> p, on |-> TRUE]
           M == MaxTurns
           Rec(f) == f = [n \in 0 .. M |-> IF n = 0 THEN a ELSE turn(f[n - 1])]
           f == CHOOSE g : Rec(g)
<1>1. turns(p) = f
  BY DEF turns
<1>2. a \in St /\ M \in Nat
  BY BitsInByte
<1>3. F \in [St -> St]
  BY DEF turn
<1> HIDE DEF a, M
<1>4. PICK g \in [0 .. M -> St] : g[0] = a /\ \A n \in 1 .. M : g[n] = F[g[n - 1]]
  <2> HIDE DEF F, St, f
  <2>1. Repeated(St, F, a, M)
    BY <1>2, <1>3, Repeat
  <2>2. QED
    BY <2>1 DEF Repeated
<1>5. ASSUME NEW n \in 1 .. M PROVE g[n - 1] \in St /\ g[n] = turn(g[n - 1])
  <2> HIDE DEF St, f
  <2>1. n - 1 \in 0 .. M
    BY <1>2
  <2>2. g[n - 1] \in St /\ g[n] = F[g[n - 1]]
    BY <1>4, <2>1
  <2>3. QED
    BY <2>2
<1> HIDE DEF F, St
<1>6. Rec(g)
  <2>1. g = [n \in 0 .. M |-> g[n]]
    BY <1>4
  <2>2. \A n \in 0 .. M : g[n] = IF n = 0 THEN a ELSE turn(g[n - 1])
    BY <1>2, <1>4, <1>5
  <2>3. QED
    BY <2>1, <2>2
<1>7. Rec(f)
  <2> HIDE DEF Rec
  <2>1. QED
    BY <1>6
<1>8. DOMAIN f = 0 .. M /\ \A n \in 0 .. M : f[n] = IF n = 0 THEN a ELSE turn(f[n - 1])
  <2> HIDE DEF f
  <2>1. QED
    BY <1>7
<1> HIDE DEF f
<1>9. \A n \in 0 .. M : f[n] = g[n]
  <2> DEFINE T == {n \in Nat : n \in 0 .. M => f[n] = g[n]}
  <2>1. 0 \in T
    BY <1>2, <1>4, <1>8
  <2>2. ASSUME NEW n \in Nat, n \in T PROVE n + 1 \in T
    <3>1. CASE n + 1 \in 0 .. M
      <4>1. n \in 0 .. M /\ n + 1 \in 1 .. M /\ n + 1 # 0 /\ (n + 1) - 1 = n
        BY <1>2, <3>1
      <4>2. f[n + 1] = turn(f[n]) /\ g[n + 1] = turn(g[n])
        BY <1>5, <1>8, <3>1, <4>1
      <4>3. QED
        BY <2>2, <4>1, <4>2
    <3>2. QED
      BY <2>2, <3>1
  <2>3. \A n \in Nat : n \in T
    <3> HIDE DEF T
    <3>1. QED
      BY <2>1, <2>2, CountUp
  <2>4. QED
    BY <2>3
<1>10. f \in [0 .. M -> St]
  <2>1. f = g
    <3> HIDE DEF f
    <3>1. QED
      BY <1>4, <1>7, <1>8, <1>9
  <2>2. QED
    BY <1>4, <2>1
<1>11. f[0] = a /\ \A n \in 1 .. M : f[n] = turn(f[n - 1])
  BY <1>2, <1>8
<1>12. QED
  BY <1>1, <1>10, <1>11 DEF St, a, M

LEMMA SettleKeeps ==
  ASSUME NEW S, NEW p \in S, \A q \in S : gray_turn(q) \in S /\ assist_turn(q) \in S
  PROVE  settle(p) \in S
<1>1. turns(p) \in [0 .. MaxTurns -> [port : S, on : BOOLEAN]]
  BY TurnsAre
<1>2. MaxTurns \in 0 .. MaxTurns
  BY BitsInByte
<1>3. QED
  BY <1>1, <1>2 DEF settle

-----------------------------------------------------------------------------
(* What the functions of the wires do to a port, timers and interrupts aside *)

\* q is p with other wires.
Like(q, p, l, x) ==
  /\ q \in Port /\ q.lines = l /\ q.extlines = x
  /\ q.mode = p.mode /\ q.linkemu = p.linkemu /\ q.flags = p.flags
  /\ q.in = p.in /\ q.out = p.out /\ q.grayin = p.grayin /\ q.grayout = p.grayout
  /\ q.grayoutbits = p.grayoutbits
  /\ "error" \in q.stops <=> "error" \in p.stops

LEMMA OtherBit == \A w \in Bit : Other(w) \in Bit /\ Other(w) # w /\ Other(Other(w)) = w
BY DEF Bit, Other

LEMMA WiresSet ==
  ASSUME NEW p \in Port, NEW l \in 0 .. 3,
         NEW type \in {"active", "read", "idle", "error"}, NEW flag
  PROVE  /\ Like(dbus_interrupt(p, type, flag), p, p.lines, p.extlines)
         /\ Like(dbus_set_lines(p, l), p, l, p.extlines)
         /\ Like(dbus_set_extlines(p, l), p, p.lines, l)
         /\ Like(set_timeout(p), p, p.lines, p.extlines)
         /\ Like(clear_timeout(p), p, p.lines, p.extlines)
<1>1. \A q \in Port : Like(dbus_interrupt(q, type, flag), q, q.lines, q.extlines)
  BY ZenonT(60) DEF Port, Like, dbus_interrupt
<1>2. Like(dbus_set_lines(p, l), p, l, p.extlines)
  BY DEF Port, Like, dbus_set_lines, Stop
<1>3. Like(dbus_set_extlines(p, l), p, p.lines, l)
  BY DEF Port, Like, dbus_set_extlines, dbus_interrupt
<1>4. Like(set_timeout(p), p, p.lines, p.extlines)
  BY DEF Port, Like, set_timeout
<1>5. Like(clear_timeout(p), p, p.lines, p.extlines)
  BY DEF Port, Like, clear_timeout
<1>6. QED
  BY <1>1, <1>2, <1>3, <1>4, <1>5

\* What the assist may change
AssistDid(q, p, l, flags, in, out) ==
  /\ q \in Port /\ q.lines = l /\ q.flags = flags /\ q.in = in /\ q.out = out
  /\ q.extlines = p.extlines /\ q.mode = p.mode /\ q.linkemu = p.linkemu
  /\ q.grayin = p.grayin /\ q.grayout = p.grayout /\ q.grayoutbits = p.grayoutbits
  /\ "error" \in q.stops <=> "error" \in p.stops

\* What the GrayLink may change
GrayDid(q, p, x, in, out, n, failed) ==
  /\ q \in Port /\ q.extlines = x /\ q.grayin = in /\ q.grayout = out /\ q.grayoutbits = n
  /\ q.lines = p.lines /\ q.mode = p.mode /\ q.linkemu = p.linkemu
  /\ q.flags = p.flags /\ q.in = p.in /\ q.out = p.out
  /\ "error" \in q.stops <=> failed

LEMMA AssistErrs ==
  ASSUME NEW p \in Port, NEW was, NEW error \in AssistFlag
  PROVE  AssistDid(assist_error(p, was, error), p, 0, (p.flags \ {was}) \cup {error}, p.in, p.out)
<1> DEFINE a == [p EXCEPT !.flags = (@ \ {was}) \cup {error}]
           b == dbus_set_lines(a, 0)
           c == clear_timeout(b)
           d == dbus_interrupt(c, "error", "int_error")
<1>1. /\ a \in Port /\ a.flags = (p.flags \ {was}) \cup {error}
      /\ AssistDid(a, p, p.lines, a.flags, p.in, p.out)
  BY DEF Port, AssistDid
<1>2. d = assist_error(p, was, error)
  BY DEF assist_error
<1> HIDE DEF a
<1>3. Like(b, a, 0, a.extlines)
  BY <1>1, WiresSet
<1> HIDE DEF b
<1>4. Like(c, b, b.lines, b.extlines)
  BY <1>3, WiresSet DEF Like
<1> HIDE DEF c
<1>5. Like(d, c, c.lines, c.extlines)
  BY <1>4, WiresSet DEF Like
<1> HIDE DEF d
<1>6. QED
  BY <1>1, <1>2, <1>3, <1>4, <1>5 DEF AssistDid, Like

LEMMA AssistWrite ==
  ASSUME NEW p \in Port
  PROVE  LET q == assist_update_write(p) IN
         /\ p.extlines = 0 /\ p.lines = 0 /\ p.out # <<>> =>
              AssistDid(q, p, Head(p.out), p.flags, p.in, Tail(p.out))
         /\ p.extlines = 0 /\ p.lines = 0 /\ p.out = <<>> =>
              AssistDid(q, p, 0, p.flags \ {"write_busy"}, p.in, p.out)
         /\ p.extlines \in Bit /\ p.extlines = Other(p.lines) =>
              AssistDid(q, p, 0, p.flags, p.in, p.out)
         /\ p.extlines = 3 =>
              AssistDid(q, p, 0, (p.flags \ {"write_busy"}) \cup {"write_error"}, p.in, p.out)
         /\ p.extlines = 0 /\ p.lines # 0 => q = p
         /\ p.extlines \in Bit /\ p.extlines # Other(p.lines) => q = p
<1> DEFINE q == assist_update_write(p)
<1>0. 0 \notin Bit /\ 3 \notin Bit /\ Bit \subseteq 0 .. 3
  BY DEF Bit
<1>1. ASSUME p.extlines = 0, p.lines = 0, p.out # <<>>
      PROVE  AssistDid(q, p, Head(p.out), p.flags, p.in, Tail(p.out))
  <2> DEFINE a == [p EXCEPT !.out = Tail(@)]
             b == dbus_set_lines(a, Head(p.out))
  <2>1. q = set_timeout(b)
    BY <1>0, <1>1 DEF assist_update_write
  <2>2. Head(p.out) \in Bit /\ Tail(p.out) \in Seq(Bit)
    BY <1>1 DEF Port
  <2>3. a \in Port /\ AssistDid(a, p, p.lines, p.flags, p.in, Tail(p.out))
    BY <2>2 DEF Port, AssistDid
  <2> HIDE DEF a
  <2>4. Like(b, a, Head(p.out), a.extlines)
    BY <1>0, <2>2, <2>3, WiresSet
  <2> HIDE DEF b
  <2>5. Like(set_timeout(b), b, b.lines, b.extlines)
    BY <2>4, WiresSet, SMTT(30) DEF Like
  <2>6. QED
    BY <2>1, <2>3, <2>4, <2>5 DEF AssistDid, Like
<1>2. ASSUME p.extlines = 0, p.lines = 0, p.out = <<>>
      PROVE  AssistDid(q, p, 0, p.flags \ {"write_busy"}, p.in, p.out)
  <2> DEFINE a == [p EXCEPT !.flags = @ \ {"write_busy"}]
  <2>1. q = clear_timeout(a)
    BY <1>0, <1>2 DEF assist_update_write
  <2>2. a \in Port /\ AssistDid(a, p, 0, p.flags \ {"write_busy"}, p.in, p.out)
    BY <1>2 DEF Port, AssistDid
  <2> HIDE DEF a
  <2>3. Like(clear_timeout(a), a, a.lines, a.extlines)
    BY <2>2, WiresSet
  <2>4. QED
    BY <2>1, <2>2, <2>3 DEF AssistDid, Like
<1>3. ASSUME p.extlines \in Bit, p.extlines = Other(p.lines)
      PROVE  AssistDid(q, p, 0, p.flags, p.in, p.out)
  <2> DEFINE b == dbus_set_lines(p, 0)
  <2>1. q = clear_timeout(b)
    BY <1>0, <1>3 DEF assist_update_write
  <2>2. Like(b, p, 0, p.extlines)
    BY WiresSet
  <2> HIDE DEF b
  <2>3. Like(clear_timeout(b), b, b.lines, b.extlines)
    BY <2>2, WiresSet DEF Like
  <2>4. QED
    BY <2>1, <2>2, <2>3 DEF AssistDid, Like
<1>4. ASSUME p.extlines = 3
      PROVE  AssistDid(q, p, 0, (p.flags \ {"write_busy"}) \cup {"write_error"}, p.in, p.out)
  <2>1. q = assist_error(p, "write_busy", "write_error")
    BY <1>0, <1>4 DEF assist_update_write
  <2>2. QED
    BY <2>1, AssistErrs DEF AssistFlag
<1>5. p.extlines = 0 /\ p.lines # 0 => q = p
  BY <1>0 DEF assist_update_write
<1>6. p.extlines \in Bit /\ p.extlines # Other(p.lines) => q = p
  BY <1>0 DEF assist_update_write
<1>7. QED
  BY <1>1, <1>2, <1>3, <1>4, <1>5, <1>6

\* The bits received when the other wire is let go
WithBit(s, l) == IF l \in Bit THEN Append(s, Other(l)) ELSE s

LEMMA WithBitIs ==
  ASSUME NEW s \in Seq(Bit), NEW l \in 0 .. 3
  PROVE  /\ WithBit(s, l) \in Seq(Bit)
         /\ Len(WithBit(s, l)) = IF l \in Bit THEN Len(s) + 1 ELSE Len(s)
BY OtherBit DEF WithBit

LEMMA AssistRead ==
  ASSUME NEW p \in Port
  PROVE  LET q == assist_update_read(p) IN
         /\ p.extlines = 0 =>
              AssistDid(q, p, 0,
                IF Len(WithBit(p.in, p.lines)) >= NBits
                THEN (p.flags \ {"read_busy"}) \cup {"read_byte"} ELSE p.flags,
                WithBit(p.in, p.lines), p.out)
         /\ p.extlines \in Bit =>
              AssistDid(q, p, Other(p.extlines), p.flags \cup {"read_busy"}, p.in, p.out)
         /\ p.extlines = 3 =>
              AssistDid(q, p, 0, (p.flags \ {"read_busy"}) \cup {"read_error"}, p.in, p.out)
<1> DEFINE q == assist_update_read(p)
<1>0. 0 \notin Bit /\ 3 \notin Bit /\ Bit \subseteq 0 .. 3
  BY DEF Bit
<1>1. ASSUME p.extlines = 0
      PROVE  AssistDid(q, p, 0,
               IF Len(WithBit(p.in, p.lines)) >= NBits
               THEN (p.flags \ {"read_busy"}) \cup {"read_byte"} ELSE p.flags,
               WithBit(p.in, p.lines), p.out)
  <2> DEFINE in == WithBit(p.in, p.lines)
             r == [p EXCEPT !.in = in]
             f == [r EXCEPT !.flags = (@ \ {"read_busy"}) \cup {"read_byte"}]
             b == IF Len(in) >= NBits THEN clear_timeout(f) ELSE set_timeout(r)
  <2>1. q = dbus_set_lines(b, 0)
    BY <1>0, <1>1 DEF assist_update_read, WithBit
  <2>2. in \in Seq(Bit)
    BY WithBitIs DEF Port
  <2> HIDE DEF in
  <2>3. r \in Port /\ AssistDid(r, p, p.lines, p.flags, in, p.out)
    BY <2>2 DEF Port, AssistDid
  <2>4. f \in Port /\ AssistDid(f, p, p.lines, (p.flags \ {"read_busy"}) \cup {"read_byte"}, in, p.out)
    BY <2>2 DEF Port, AssistDid, AssistFlag
  <2> HIDE DEF r, f
  <2>5. AssistDid(b, p, p.lines, IF Len(in) >= NBits
                  THEN (p.flags \ {"read_busy"}) \cup {"read_byte"} ELSE p.flags, in, p.out)
    <3>1. Like(clear_timeout(f), f, f.lines, f.extlines) /\ Like(set_timeout(r), r, r.lines, r.extlines)
      BY <2>3, <2>4, WiresSet
    <3>2. QED
      BY <2>3, <2>4, <3>1 DEF AssistDid, Like
  <2> HIDE DEF b
  <2>6. Like(dbus_set_lines(b, 0), b, 0, b.extlines)
    BY <2>5, WiresSet DEF AssistDid
  <2>7. QED
    BY <2>1, <2>5, <2>6 DEF AssistDid, Like, in
<1>2. ASSUME p.extlines \in Bit
      PROVE  AssistDid(q, p, Other(p.extlines), p.flags \cup {"read_busy"}, p.in, p.out)
  <2> DEFINE a == [p EXCEPT !.flags = @ \cup {"read_busy"}]
             b == dbus_set_lines(a, Other(p.extlines))
  <2>1. q = set_timeout(b)
    BY <1>0, <1>2 DEF assist_update_read
  <2>2. a \in Port /\ AssistDid(a, p, p.lines, p.flags \cup {"read_busy"}, p.in, p.out)
    BY DEF Port, AssistDid, AssistFlag
  <2> HIDE DEF a
  <2>3. Like(b, a, Other(p.extlines), a.extlines)
    BY <1>0, <1>2, <2>2, OtherBit, WiresSet
  <2> HIDE DEF b
  <2>4. Like(set_timeout(b), b, b.lines, b.extlines)
    BY <2>3, WiresSet DEF Like
  <2>5. QED
    BY <2>1, <2>2, <2>3, <2>4 DEF AssistDid, Like
<1>3. ASSUME p.extlines = 3
      PROVE  AssistDid(q, p, 0, (p.flags \ {"read_busy"}) \cup {"read_error"}, p.in, p.out)
  <2>1. q = assist_error(p, "read_busy", "read_error")
    BY <1>0, <1>3 DEF assist_update_read
  <2>2. QED
    BY <2>1, AssistErrs DEF AssistFlag
<1>4. QED
  BY <1>1, <1>2, <1>3

LEMMA Stops ==
  ASSUME NEW p \in Port, NEW reason \in {"state", "read_byte", "write_byte"}
  PROVE  Like(Stop(p, reason), p, p.lines, p.extlines)
BY DEF Port, Like, Stop

LEMMA GrayWrite ==
  ASSUME NEW p \in Port, p.grayoutbits > 1 => p.grayout # <<>>
  PROVE  LET q == graylink_update_write(p) IN
         /\ p.lines = 0 /\ p.extlines = 0 /\ p.grayoutbits > 1 =>
              GrayDid(q, p, Head(p.grayout), p.grayin, Tail(p.grayout), p.grayoutbits - 1, "error" \in p.stops)
         /\ p.lines = 0 /\ p.extlines = 0 /\ p.grayoutbits <= 1 =>
              GrayDid(q, p, 0, p.grayin, p.grayout, 0, "error" \in p.stops)
         /\ p.lines \in Bit /\ p.extlines = Other(p.lines) =>
              GrayDid(q, p, 0, p.grayin, p.grayout, p.grayoutbits, "error" \in p.stops)
         /\ p.lines = 3 => GrayDid(q, p, 0, p.grayin, p.grayout, 0, TRUE)
         /\ p.lines = 0 /\ p.extlines # 0 => q = p
         /\ p.lines \in Bit /\ p.extlines # Other(p.lines) => q = p
<1> DEFINE q == graylink_update_write(p)
<1>0. 0 \notin Bit /\ 3 \notin Bit /\ Bit \subseteq 0 .. 3 /\ p.grayoutbits \in Nat
  BY DEF Bit, Port
<1>1. ASSUME p.lines = 0, p.extlines = 0, p.grayoutbits > 1
      PROVE  GrayDid(q, p, Head(p.grayout), p.grayin, Tail(p.grayout), p.grayoutbits - 1, "error" \in p.stops)
  <2> DEFINE a == [p EXCEPT !.grayout = Tail(@), !.grayoutbits = @ - 1]
  <2>1. q = dbus_set_extlines(a, Head(p.grayout))
    BY <1>0, <1>1 DEF graylink_update_write
  <2>2. Head(p.grayout) \in Bit /\ Tail(p.grayout) \in Seq(Bit)
    BY <1>1 DEF Port
  <2>3. a \in Port
    <3>1. p.grayoutbits - 1 \in Nat
      BY <1>0, <1>1
    <3>2. QED
      BY <2>2, <3>1 DEF Port
  <2>4. GrayDid(a, p, p.extlines, p.grayin, Tail(p.grayout), p.grayoutbits - 1, "error" \in p.stops)
    <3>1. QED
      BY <2>3 DEF GrayDid, Port
  <2> HIDE DEF a
  <2>5. Like(dbus_set_extlines(a, Head(p.grayout)), a, a.lines, Head(p.grayout))
    BY <1>0, <2>2, <2>3, WiresSet
  <2>6. QED
    BY <1>1, <2>1, <2>4, <2>5 DEF GrayDid, Like
<1>2. ASSUME p.lines = 0, p.extlines = 0, p.grayoutbits <= 1
      PROVE  GrayDid(q, p, 0, p.grayin, p.grayout, 0, "error" \in p.stops)
  <2> DEFINE a == [p EXCEPT !.grayoutbits = 0]
  <2>1. q = Stop(a, "write_byte")
    BY <1>0, <1>2 DEF graylink_update_write
  <2>2. a \in Port
    BY DEF Port
  <2>3. GrayDid(a, p, 0, p.grayin, p.grayout, 0, "error" \in p.stops)
    BY <1>2, <2>2 DEF Port, GrayDid
  <2> HIDE DEF a
  <2>4. Like(Stop(a, "write_byte"), a, a.lines, a.extlines)
    BY <2>2, Stops
  <2>5. QED
    BY <1>2, <2>1, <2>3, <2>4 DEF GrayDid, Like
<1>3. ASSUME p.lines \in Bit, p.extlines = Other(p.lines)
      PROVE  GrayDid(q, p, 0, p.grayin, p.grayout, p.grayoutbits, "error" \in p.stops)
  <2>1. q = dbus_set_extlines(p, 0)
    BY <1>0, <1>3 DEF graylink_update_write
  <2>2. Like(dbus_set_extlines(p, 0), p, p.lines, 0)
    BY WiresSet
  <2>3. QED
    BY <1>0, <1>3, <2>1, <2>2 DEF GrayDid, Like
<1>4. ASSUME p.lines = 3 PROVE GrayDid(q, p, 0, p.grayin, p.grayout, 0, TRUE)
  <2> DEFINE a == dbus_set_extlines(p, 0)
             b == [a EXCEPT !.grayoutbits = 0]
  <2>1. q = [b EXCEPT !.stops = @ \cup {"error"}]
    BY <1>0, <1>4 DEF graylink_update_write, Stop
  <2>2. Like(a, p, p.lines, 0)
    BY WiresSet
  <2> HIDE DEF a
  <2>3. b \in Port /\ GrayDid(b, p, 0, p.grayin, p.grayout, 0, "error" \in p.stops)
    <3>1. a \in Port
      BY <2>2 DEF Like
    <3>2. b \in Port
      BY <3>1 DEF Port
    <3>3. b = [a EXCEPT !.grayoutbits = 0]
      OBVIOUS
    <3> HIDE DEF b
    <3>4. QED
      BY <2>2, <3>1, <3>2, <3>3, ZenonT(60) DEF GrayDid, Like, Port
  <2> HIDE DEF b
  <2>4. q \in Port /\ "error" \in q.stops
    <3>0. [b EXCEPT !.stops = @ \cup {"error"}] \in Port
      BY <2>3 DEF Port
    <3>1. q \in Port
      BY <2>1, <3>0
    <3>2. b.stops \cup {"error"} = q.stops
      BY <2>1, <2>3 DEF Port
    <3>3. QED
      BY <3>1, <3>2
  <2>5. QED
    BY <2>1, <2>3, <2>4 DEF GrayDid, Port
<1>5. p.lines = 0 /\ p.extlines # 0 => q = p
  BY <1>0 DEF graylink_update_write
<1>6. p.lines \in Bit /\ p.extlines # Other(p.lines) => q = p
  BY <1>0 DEF graylink_update_write
<1>7. QED
  BY <1>1, <1>2, <1>3, <1>4, <1>5, <1>6

LEMMA GrayRead ==
  ASSUME NEW p \in Port
  PROVE  LET q == graylink_update_read(p) IN
         /\ p.lines = 0 =>
              GrayDid(q, p, 0, WithBit(p.grayin, p.extlines), p.grayout, p.grayoutbits, "error" \in p.stops)
         /\ p.lines \in Bit =>
              GrayDid(q, p, Other(p.lines), p.grayin, p.grayout, p.grayoutbits, "error" \in p.stops)
         /\ p.lines = 3 => GrayDid(q, p, 0, <<>>, p.grayout, p.grayoutbits, TRUE)
<1> DEFINE q == graylink_update_read(p)
<1>0. 0 \notin Bit /\ 3 \notin Bit /\ Bit \subseteq 0 .. 3
  BY DEF Bit
<1>1. ASSUME p.lines = 0
      PROVE  GrayDid(q, p, 0, WithBit(p.grayin, p.extlines), p.grayout, p.grayoutbits, "error" \in p.stops)
  <2> DEFINE in == WithBit(p.grayin, p.extlines)
             a == [p EXCEPT !.grayin = in]
             b == IF Len(in) >= NBits THEN Stop(a, "read_byte") ELSE a
  <2>1. q = dbus_set_extlines(b, 0)
    BY <1>0, <1>1 DEF graylink_update_read, WithBit
  <2>2. in \in Seq(Bit)
    BY WithBitIs DEF Port
  <2> HIDE DEF in
  <2>3. a \in Port /\ Like(a, [p EXCEPT !.grayin = in], p.lines, p.extlines)
    BY <2>2 DEF Port, Like
  <2>4. GrayDid(a, p, p.extlines, in, p.grayout, p.grayoutbits, "error" \in p.stops)
    BY <1>1, <2>2 DEF Port, GrayDid
  <2> HIDE DEF a
  <2>5. Like(b, a, a.lines, a.extlines)
    BY <2>3, Stops DEF Like
  <2> HIDE DEF b
  <2>6. Like(dbus_set_extlines(b, 0), b, b.lines, 0)
    <3>1. b \in Port
      BY <2>5 DEF Like
    <3>2. QED
      BY <3>1, WiresSet
  <2>7. QED
    BY <2>1, <2>4, <2>5, <2>6 DEF GrayDid, Like, in
<1>2. ASSUME p.lines \in Bit
      PROVE  GrayDid(q, p, Other(p.lines), p.grayin, p.grayout, p.grayoutbits, "error" \in p.stops)
  <2>1. q = dbus_set_extlines(p, Other(p.lines))
    BY <1>0, <1>2 DEF graylink_update_read
  <2>2. Like(dbus_set_extlines(p, Other(p.lines)), p, p.lines, Other(p.lines))
    BY <1>0, <1>2, OtherBit, WiresSet
  <2>3. QED
    BY <1>0, <1>2, <2>1, <2>2 DEF GrayDid, Like
<1>3. ASSUME p.lines = 3 PROVE GrayDid(q, p, 0, <<>>, p.grayout, p.grayoutbits, TRUE)
  <2> DEFINE a == dbus_set_extlines(p, 0)
             b == [a EXCEPT !.grayin = <<>>]
  <2>1. q = [b EXCEPT !.stops = @ \cup {"error"}]
    BY <1>0, <1>3 DEF graylink_update_read, Stop
  <2>2. Like(a, p, p.lines, 0)
    BY WiresSet
  <2> HIDE DEF a
  <2>3. b \in Port /\ GrayDid(b, p, 0, <<>>, p.grayout, p.grayoutbits, "error" \in p.stops)
    <3>1. a \in Port
      BY <2>2 DEF Like
    <3>2. b \in Port
      <4>1. <<>> \in Seq(Bit)
        OBVIOUS
      <4>2. QED
        BY <3>1, <4>1 DEF Port
    <3>3. b = [a EXCEPT !.grayin = <<>>]
      OBVIOUS
    <3> HIDE DEF b
    <3>4. QED
      BY <2>2, <3>1, <3>2, <3>3 DEF GrayDid, Like, Port
  <2> HIDE DEF b
  <2>4. q \in Port /\ "error" \in q.stops
    <3>0. [b EXCEPT !.stops = @ \cup {"error"}] \in Port
      BY <2>3 DEF Port
    <3>1. q \in Port
      BY <2>1, <3>0
    <3>2. b.stops \cup {"error"} = q.stops
      BY <2>1, <2>3 DEF Port
    <3>3. QED
      BY <3>1, <3>2
  <2>5. QED
    BY <2>1, <2>3, <2>4 DEF GrayDid, Port
<1>4. QED
  BY <1>1, <1>2, <1>3

LEMMA Announces ==
  ASSUME NEW p \in Port
  PROVE  Like(Announced(p), p, p.lines, p.extlines)
BY DEF Port, Like, Announced

(***************************************************************************)
(* The port keeps its type                                                 *)
(***************************************************************************)
Ports == {p \in Port : Fits(p)}

LEMMA TurnTypes ==
  ASSUME NEW p \in Ports
  PROVE  gray_turn(p) \in Ports /\ assist_turn(p) \in Ports
<1>0. /\ p \in Port /\ Fits(p) /\ NBits \in Nat /\ NBits > 0
      /\ 0 \notin Bit /\ 3 \notin Bit /\ p.lines \in {0, 3} \cup Bit /\ p.extlines \in {0, 3} \cup Bit
      /\ p.in \in Seq(Bit) /\ p.out \in Seq(Bit) /\ p.grayin \in Seq(Bit) /\ p.grayout \in Seq(Bit)
      /\ p.grayoutbits \in Nat
  BY BitsInByte DEF Ports, Port, Bit
<1>1. p.grayoutbits > 1 => p.grayout # <<>>
  BY <1>0 DEF Fits
<1>2. graylink_update_write(p) \in Ports
  <2>1. CASE p.lines = 0 /\ p.extlines = 0 /\ p.grayoutbits > 1
    <3>1. GrayDid(graylink_update_write(p), p, Head(p.grayout), p.grayin, Tail(p.grayout), p.grayoutbits - 1, "error" \in p.stops)
      BY <1>0, <1>1, <2>1, GrayWrite
    <3> DEFINE rest == Tail(p.grayout)
    <3>2. Len(rest) = (p.grayoutbits - 1) - 1 /\ Len(p.grayout) = p.grayoutbits - 1
      BY <1>0, <1>1, <2>1 DEF Fits
    <3> HIDE DEF rest
    <3>3. QED
      <4>1. Len(graylink_update_write(p).grayout) = (p.grayoutbits - 1) - 1
        BY <3>1, <3>2 DEF GrayDid, rest
      <4> DEFINE q == graylink_update_write(p)
      <4>2. /\ q \in Port /\ q.grayoutbits = p.grayoutbits - 1 /\ q.grayin = p.grayin
            /\ q.flags = p.flags /\ q.in = p.in /\ q.out = p.out
        BY <3>1 DEF GrayDid
      <4> HIDE DEF q
      <4>3. Fits(p) /\ p.grayoutbits \in Nat /\ p.grayoutbits > 1 /\ NBits \in Nat
        BY <1>0, <2>1 DEF Ports
      <4>4. Len(q.grayout) = q.grayoutbits - 1 /\ q.grayin = <<>>
        BY <4>1, <4>2, <4>3 DEF Fits, q
      <4>5. q.grayoutbits <= NBits + 1 /\ Len(q.grayout) <= NBits /\ Len(q.grayin) <= NBits
        BY <4>2, <4>3, <4>4 DEF Fits
      <4>6. Fits(q)
        BY <4>2, <4>3, <4>4, <4>5 DEF Fits
      <4>7. QED
        BY <4>2, <4>6 DEF Ports, q
  <2>2. CASE p.lines = 0 /\ p.extlines = 0 /\ p.grayoutbits <= 1
    <3>1. GrayDid(graylink_update_write(p), p, 0, p.grayin, p.grayout, 0, "error" \in p.stops)
      BY <1>0, <1>1, <2>2, GrayWrite
    <3>2. QED
      BY <1>0, <3>1 DEF GrayDid, Fits, Ports
  <2>3. CASE p.lines \in Bit /\ p.extlines = Other(p.lines)
    <3>1. GrayDid(graylink_update_write(p), p, 0, p.grayin, p.grayout, p.grayoutbits, "error" \in p.stops)
      BY <1>0, <1>1, <2>3, GrayWrite
    <3>2. QED
      BY <1>0, <3>1 DEF GrayDid, Fits, Ports
  <2>4. CASE p.lines = 3
    <3>1. GrayDid(graylink_update_write(p), p, 0, p.grayin, p.grayout, 0, TRUE)
      BY <1>0, <1>1, <2>4, GrayWrite
    <3>2. QED
      BY <1>0, <3>1 DEF GrayDid, Fits, Ports
  <2>5. CASE (p.lines = 0 /\ p.extlines # 0) \/ (p.lines \in Bit /\ p.extlines # Other(p.lines))
    BY <1>0, <1>1, <2>5, GrayWrite
  <2>6. QED
    BY <1>0, <2>1, <2>2, <2>3, <2>4, <2>5
<1>3. ~(p.grayoutbits > 0) /\ Len(p.grayin) # NBits => graylink_update_read(p) \in Ports
  <2> SUFFICES ASSUME ~(p.grayoutbits > 0), Len(p.grayin) # NBits PROVE graylink_update_read(p) \in Ports
    OBVIOUS
  <2>1. Len(p.grayin) < NBits
    BY <1>0 DEF Fits
  <2>2. CASE p.lines = 0
    <3>1. GrayDid(graylink_update_read(p), p, 0, WithBit(p.grayin, p.extlines), p.grayout, p.grayoutbits, "error" \in p.stops)
      BY <2>2, GrayRead, <1>0
    <3>2. Len(WithBit(p.grayin, p.extlines)) <= NBits
      BY <1>0, <2>1, WithBitIs DEF Port
    <3>3. QED
      BY <1>0, <3>1, <3>2 DEF GrayDid, Fits, Ports
  <2>3. CASE p.lines \in Bit
    <3>1. GrayDid(graylink_update_read(p), p, Other(p.lines), p.grayin, p.grayout, p.grayoutbits, "error" \in p.stops)
      BY <1>0, <2>3, GrayRead
    <3>2. QED
      BY <1>0, <3>1 DEF GrayDid, Fits, Ports
  <2>4. CASE p.lines = 3
    <3>1. GrayDid(graylink_update_read(p), p, 0, <<>>, p.grayout, p.grayoutbits, TRUE)
      BY <1>0, <2>4, GrayRead
    <3>2. Len(<<>>) = 0
      OBVIOUS
    <3>3. QED
      BY <1>0, <3>1, <3>2 DEF GrayDid, Fits, Ports
  <2>5. QED
    BY <1>0, <2>2, <2>3, <2>4
<1>4. gray_turn(p) \in Ports
  BY <1>2, <1>3 DEF gray_turn
<1>5. assist_update_write(p) \in Ports
  <2>1. CASE p.extlines = 0 /\ p.lines = 0 /\ p.out # <<>>
    <3>1. AssistDid(assist_update_write(p), p, Head(p.out), p.flags, p.in, Tail(p.out))
      BY <1>0, <2>1, AssistWrite
    <3>2. Len(Tail(p.out)) = Len(p.out) - 1 /\ Len(p.out) \in Nat
      BY <1>0, <2>1
    <3>3. Len(assist_update_write(p).out) <= NBits
      BY <1>0, <3>1, <3>2 DEF AssistDid, Fits
    <3>4. QED
      BY <1>0, <3>1, <3>3 DEF AssistDid, Fits, Ports
  <2>2. CASE p.extlines = 0 /\ p.lines = 0 /\ p.out = <<>>
    <3>1. AssistDid(assist_update_write(p), p, 0, p.flags \ {"write_busy"}, p.in, p.out)
      BY <1>0, <2>2, AssistWrite
    <3>2. QED
      BY <1>0, <3>1 DEF AssistDid, Fits, Ports
  <2>3. CASE p.extlines \in Bit /\ p.extlines = Other(p.lines)
    <3>1. AssistDid(assist_update_write(p), p, 0, p.flags, p.in, p.out)
      BY <1>0, <2>3, AssistWrite
    <3>2. QED
      BY <1>0, <3>1 DEF AssistDid, Fits, Ports
  <2>4. CASE p.extlines = 3
    <3>1. AssistDid(assist_update_write(p), p, 0,
                    (p.flags \ {"write_busy"}) \cup {"write_error"}, p.in, p.out)
      BY <1>0, <2>4, AssistWrite
    <3>2. QED
      BY <1>0, <3>1 DEF AssistDid, Fits, Ports
  <2>5. CASE (p.extlines = 0 /\ p.lines # 0) \/ (p.extlines \in Bit /\ p.extlines # Other(p.lines))
    BY <1>0, <2>5, AssistWrite
  <2>6. QED
    BY <1>0, <2>1, <2>2, <2>3, <2>4, <2>5
<1>6. "read_byte" \notin p.flags => assist_update_read(p) \in Ports
  <2> SUFFICES ASSUME "read_byte" \notin p.flags PROVE assist_update_read(p) \in Ports
    OBVIOUS
  <2>1. Len(p.in) < NBits
    BY <1>0 DEF Fits
  <2>2. CASE p.extlines = 0
    <3>1. AssistDid(assist_update_read(p), p, 0,
                IF Len(WithBit(p.in, p.lines)) >= NBits
                THEN (p.flags \ {"read_busy"}) \cup {"read_byte"} ELSE p.flags,
                WithBit(p.in, p.lines), p.out)
      BY <1>0, <2>2, AssistRead
    <3>2. Len(WithBit(p.in, p.lines)) \in Nat /\ Len(WithBit(p.in, p.lines)) <= NBits
      BY <1>0, <2>1, WithBitIs DEF Port
    <3>3. QED
      BY <1>0, <3>1, <3>2 DEF AssistDid, Fits, Ports
  <2>3. CASE p.extlines \in Bit
    <3>1. AssistDid(assist_update_read(p), p, Other(p.extlines), p.flags \cup {"read_busy"}, p.in, p.out)
      BY <1>0, <2>3, AssistRead
    <3>2. QED
      BY <1>0, <3>1 DEF AssistDid, Fits, Ports
  <2>4. CASE p.extlines = 3
    <3>1. AssistDid(assist_update_read(p), p, 0,
                    (p.flags \ {"read_busy"}) \cup {"read_error"}, p.in, p.out)
      BY <1>0, <2>4, AssistRead
    <3>2. QED
      BY <1>0, <3>1 DEF AssistDid, Fits, Ports
  <2>5. QED
    BY <1>0, <2>2, <2>3, <2>4
<1>7. assist_turn(p) \in Ports
  BY <1>0, <1>5, <1>6 DEF assist_turn, Ports
<1>8. QED
  BY <1>4, <1>7

LEMMA LikeFits ==
  ASSUME NEW p \in Ports, NEW q, NEW l, NEW x, Like(q, p, l, x)
  PROVE  q \in Ports
BY DEF Like, Ports, Fits

LEMMA UpdateTypes ==
  ASSUME NEW p \in Ports
  PROVE  dbus_update(p) \in Ports
<1>1. settle(p) \in Ports
  BY TurnTypes, SettleKeeps
<1>2. Like(Announced(settle(p)), settle(p), settle(p).lines, settle(p).extlines)
  BY <1>1, Announces DEF Ports
<1>3. QED
  BY <1>1, <1>2, LikeFits DEF dbus_update

-----------------------------------------------------------------------------
(* The bits of a byte *)

LEMMA FullByte ==
  ASSUME NEW s \in Seq(Bit), NEW byte \in Byte, FirstBits(s, byte, NBits)
  PROVE  s = byte
<1>1. NBits \in Nat /\ Len(s) = NBits /\ s \in [1 .. NBits -> Bit] /\ byte \in [1 .. NBits -> Bit]
  BY BitsInByte, LenProperties DEF FirstBits, Byte
<1>2. \A i \in 1 .. NBits : s[i] = byte[i]
  BY DEF FirstBits
<1>3. QED
  BY <1>1, <1>2

LEMMA OneBitMore ==
  ASSUME NEW s \in Seq(Bit), NEW byte \in Byte, NEW n \in 0 .. NBits - 1, FirstBits(s, byte, n)
  PROVE  FirstBits(Append(s, byte[n + 1]), byte, n + 1)
<1>1. n + 1 \in 1 .. NBits /\ byte[n + 1] \in Bit /\ Len(s) = n
  BY BitsInByte DEF Byte, FirstBits
<1>2. Len(Append(s, byte[n + 1])) = n + 1
  BY <1>1
<1>3. \A i \in 1 .. n + 1 : Append(s, byte[n + 1])[i] = IF i = n + 1 THEN byte[n + 1] ELSE s[i]
  BY <1>1
<1>4. QED
  BY <1>2, <1>3 DEF FirstBits

LEMMA OneBitLess ==
  ASSUME NEW s \in Seq(Bit), NEW byte \in Byte, NEW n \in 1 .. NBits, LastBits(s, byte, n)
  PROVE  /\ s # <<>> /\ Head(s) = byte[NBits - n + 1]
         /\ Tail(s) \in Seq(Bit) /\ LastBits(Tail(s), byte, n - 1)
<1>1. Len(s) = n /\ s # <<>> /\ NBits \in Nat
  BY BitsInByte DEF LastBits
<1>2. Tail(s) \in Seq(Bit) /\ Len(Tail(s)) = n - 1 /\ \A i \in 1 .. n - 1 : Tail(s)[i] = s[i + 1]
  BY <1>1
<1>3. Head(s) = s[1] /\ s[1] = byte[NBits - n + 1]
  BY <1>1 DEF LastBits
<1>4. ASSUME NEW i \in 1 .. n - 1 PROVE Tail(s)[i] = byte[NBits - (n - 1) + i]
  <2>1. i + 1 \in 1 .. n /\ NBits - n + (i + 1) = NBits - (n - 1) + i
    BY <1>1
  <2>2. s[i + 1] = byte[NBits - n + (i + 1)]
    BY <2>1 DEF LastBits
  <2>3. QED
    BY <1>2, <2>1, <2>2
<1>5. QED
  BY <1>1, <1>2, <1>3, <1>4 DEF LastBits

-----------------------------------------------------------------------------
(* Each side's turn keeps the bytes that are under way *)

LEMMA PortTypes ==
  ASSUME NEW p \in Ports
  PROVE  /\ p \in Port /\ Fits(p) /\ NBits \in Nat /\ NBits > 0
         /\ 0 \notin Bit /\ 3 \notin Bit
         /\ p.lines \in {0, 3} \cup Bit /\ p.extlines \in {0, 3} \cup Bit
         /\ p.in \in Seq(Bit) /\ p.out \in Seq(Bit)
         /\ p.grayin \in Seq(Bit) /\ p.grayout \in Seq(Bit)
         /\ p.grayoutbits \in Nat
BY BitsInByte DEF Ports, Port, Bit

LEMMA GrayTurnKeeps ==
  ASSUME NEW p \in Ports, NEW z, NEW bs \in Seq(Bit), NEW to, NEW from,
         PortSound(p), Underway(p, z, bs, to, from)
  PROVE  PortSound(gray_turn(p)) /\ Underway(gray_turn(p), z, bs, to, from)
<1> DEFINE q == gray_turn(p)
           w == graylink_update_write(p)
           r == graylink_update_read(p)
           e == "error" \in p.stops
<1> USE PortTypes
<1>0. p.grayoutbits > 1 => p.grayout # <<>>
  BY DEF Fits
<1>1. SUFFICES ASSUME q # p
               PROVE  PortSound(q) /\ Underway(q, z, bs, to, from)
  BY Zenon
<1>2. (p.grayoutbits > 0 /\ q = w) \/ (p.grayoutbits = 0 /\ Len(p.grayin) # NBits /\ q = r)
  BY <1>1 DEF gray_turn
<1> HIDE DEF q
<1>3. ASSUME NEW x, NEW in, NEW out, NEW n, GrayDid(q, p, x, in, out, n, e)
      PROVE  PortSound(q) /\ Received(q) = Received(p)
  BY <1>3 DEF PortSound, GrayDid, Failed, Received
<1>4. CASE Resting(p, z, bs) /\ to = Received(p) /\ from = GrayReceived(p)
  <2>1. GrayDid(q, p, 0, p.grayin, p.grayout, 0, e)
    <3>1. CASE p.grayoutbits > 0 /\ q = w
      BY <1>0, <1>4, <3>1, GrayWrite DEF Resting
    <3>2. CASE p.grayoutbits = 0 /\ Len(p.grayin) # NBits /\ q = r
      <4>1. GrayDid(r, p, 0, WithBit(p.grayin, p.extlines), p.grayout, p.grayoutbits, e)
        BY <1>4, GrayRead DEF Resting
      <4>2. WithBit(p.grayin, p.extlines) = p.grayin
        BY <1>4 DEF Resting, WithBit
      <4>3. QED
        BY <3>2, <4>1, <4>2
    <3>3. QED
      BY <1>2, <3>1, <3>2
  <2>2. Resting(q, z, bs) /\ GrayReceived(q) = GrayReceived(p)
    BY <1>4, <2>1 DEF Resting, Free, GrayDid, GrayReceived
  <2>3. QED
    BY <1>3, <1>4, <2>1, <2>2 DEF Underway
<1>5. ASSUME NEW c \in Byte, NEW k \in 0 .. NBits,
             Coming(p, z, bs, c, k), to = Append(Received(p), c), from = <<>>
      PROVE  PortSound(q) /\ Underway(q, z, bs, to, from)
  <2>1. /\ p.grayoutbits = NBits + 1 - k /\ LastBits(p.grayout, c, NBits - k) /\ p.grayin = <<>>
        /\ Shake(p.extlines, p.lines, c, k) /\ Taken(p.extlines, p.lines, k) < NBits
        /\ k \in Nat /\ k <= NBits
    BY <1>5 DEF Coming
  <2>2. q = w
    BY <1>2, <2>1
  <2>3. \A i \in 1 .. NBits : c[i] \in Bit /\ Other(c[i]) \in Bit
    BY OtherBit DEF Byte
  <2>4. CASE p.lines = 0 /\ p.extlines = 0
    <3>1. k < NBits /\ NBits - k \in 1 .. NBits /\ p.grayoutbits > 1
      BY <2>1, <2>4 DEF Taken
    <3>2. GrayDid(q, p, Head(p.grayout), p.grayin, Tail(p.grayout), p.grayoutbits - 1, e)
      BY <1>0, <2>2, <2>4, <3>1, GrayWrite
    <3>3. Head(p.grayout) = c[k + 1] /\ LastBits(Tail(p.grayout), c, NBits - (k + 1))
      <4>1. /\ Head(p.grayout) = c[NBits - (NBits - k) + 1]
            /\ LastBits(Tail(p.grayout), c, (NBits - k) - 1)
        BY <2>1, <3>1, OneBitLess, SMTT(30)
      <4>2. NBits - (NBits - k) + 1 = k + 1 /\ (NBits - k) - 1 = NBits - (k + 1)
        BY <2>1
      <4>3. QED
        BY <4>1, <4>2
    <3>4. /\ q.grayoutbits = NBits + 1 - (k + 1) /\ LastBits(q.grayout, c, NBits - (k + 1))
          /\ q.grayin = <<>> /\ q.extlines = c[k + 1] /\ q.lines = 0
          /\ q.mode = p.mode /\ q.flags = p.flags /\ q.in = p.in /\ q.out = p.out
      BY <2>1, <2>4, <3>2, <3>3 DEF GrayDid
    <3>5. c[k + 1] # 0 /\ k + 1 \in 0 .. NBits /\ k + 1 > 0 /\ (k + 1) - 1 = k
      BY <2>1, <2>3, <3>1
    <3>6. Coming(q, z, bs, c, k + 1)
      <4>1. Shake(q.extlines, q.lines, c, k + 1) /\ Taken(q.extlines, q.lines, k + 1) = k
        BY <3>4, <3>5 DEF Shake, Taken
      <4>2. Taken(p.extlines, p.lines, k) = k
        BY <2>4 DEF Taken
      <4>3. QED
        BY <1>5, <2>4, <3>1, <3>4, <4>1, <4>2 DEF Coming, Free, RawPort
    <3>7. QED
      BY <1>3, <1>5, <3>2, <3>5, <3>6 DEF Underway
  <2>5. CASE p.lines \in Bit /\ p.extlines = Other(p.lines)
    <3>1. GrayDid(q, p, 0, p.grayin, p.grayout, p.grayoutbits, e)
      BY <1>0, <2>2, <2>5, GrayWrite
    <3>2. /\ k > 0 /\ p.extlines = c[k] /\ p.lines = Other(c[k])
      BY <2>1, <2>5, OtherBit DEF Shake
    <3>3. /\ q.grayoutbits = p.grayoutbits /\ q.grayout = p.grayout /\ q.grayin = <<>>
          /\ q.extlines = 0 /\ q.lines = Other(c[k]) /\ q.lines # 0 /\ p.lines # 0
          /\ q.mode = p.mode /\ q.flags = p.flags /\ q.in = p.in /\ q.out = p.out /\ q.lines = p.lines
      BY <2>1, <2>5, <3>1, <3>2 DEF GrayDid
    <3>4. /\ Shake(q.extlines, q.lines, c, k) /\ Taken(q.extlines, q.lines, k) = k - 1
          /\ Taken(p.extlines, p.lines, k) = k - 1
      BY <3>2, <3>3 DEF Shake, Taken
    <3>5. Coming(q, z, bs, c, k)
      BY <1>5, <3>3, <3>4 DEF Coming, Free, RawPort
    <3>6. QED
      BY <1>3, <1>5, <3>1, <3>5 DEF Underway
  <2>6. CASE \/ p.lines = 0 /\ p.extlines # 0
             \/ p.lines \in Bit /\ p.extlines # Other(p.lines)
    BY <1>0, <1>1, <2>2, <2>6, GrayWrite
  <2>7. p.lines # 3
    BY <2>1, <2>3, OtherBit DEF Shake
  <2>8. QED
    BY <2>4, <2>5, <2>6, <2>7
<1>6. ASSUME NEW b \in Byte, NEW k \in 0 .. NBits,
             Going(p, z, bs, b, k), to = Received(p), from = Append(GrayReceived(p), b)
      PROVE  PortSound(q) /\ Underway(q, z, bs, to, from)
  <2>1. /\ p.grayoutbits = 0 /\ Shake(p.lines, p.extlines, b, k)
        /\ Taken(p.lines, p.extlines, k) < NBits
        /\ k \in Nat /\ k <= NBits
    BY <1>6 DEF Going
  <2>2. q = r /\ Len(p.grayin) # NBits
    BY <1>2, <2>1
  <2>3. /\ \A i \in 1 .. NBits : b[i] \in Bit /\ Other(b[i]) \in Bit /\ Other(Other(b[i])) = b[i]
        /\ FirstBits(p.grayin, b, Taken(p.lines, p.extlines, k)) /\ GrayReceived(p) = <<>>
    BY <1>6, <2>2, OtherBit DEF Byte, Going, GrayReceived
  <2>4. CASE p.lines = 0 /\ p.extlines = 0
    <3>1. GrayDid(q, p, 0, WithBit(p.grayin, p.extlines), p.grayout, p.grayoutbits, e)
      BY <2>2, <2>4, GrayRead
    <3>2. WithBit(p.grayin, p.extlines) = p.grayin
      BY <2>4 DEF WithBit
    <3>3. Going(q, z, bs, b, k) /\ GrayReceived(q) = GrayReceived(p)
      BY <1>6, <2>4, <3>1, <3>2 DEF Going, GrayDid, RawPort, GrayReceived
    <3>4. QED
      BY <1>3, <1>6, <3>1, <3>3 DEF Underway
  <2>5. CASE p.lines = 0 /\ p.extlines # 0
    <3> DEFINE in == Append(p.grayin, b[k])
    <3>1. k > 0 /\ p.extlines = Other(b[k]) /\ p.extlines \in Bit /\ Other(p.extlines) = b[k]
      BY <2>1, <2>3, <2>5 DEF Shake
    <3>2. GrayDid(q, p, 0, in, p.grayout, p.grayoutbits, e)
      <4>1. GrayDid(q, p, 0, WithBit(p.grayin, p.extlines), p.grayout, p.grayoutbits, e)
        BY <2>2, <2>5, GrayRead
      <4>2. WithBit(p.grayin, p.extlines) = in
        BY <3>1 DEF WithBit
      <4>3. QED
        BY <4>1, <4>2
    <3>3. FirstBits(in, b, k) /\ Taken(p.lines, p.extlines, k) = k - 1
      <4>1. Taken(p.lines, p.extlines, k) = k - 1 /\ k - 1 \in 0 .. NBits - 1 /\ (k - 1) + 1 = k
        BY <2>1, <2>5, <3>1 DEF Taken
      <4>2. QED
        BY <2>3, <4>1, OneBitMore
    <3>4. /\ q.lines = 0 /\ q.extlines = 0 /\ q.grayin = in /\ q.grayoutbits = 0 /\ in \in Seq(Bit)
          /\ q.mode = p.mode /\ q.flags = p.flags /\ q.in = p.in /\ q.out = p.out
      BY <2>1, <2>5, <3>2 DEF GrayDid, Port
    <3> HIDE DEF in
    <3>5. CASE k < NBits
      <4>1. Going(q, z, bs, b, k)
        <5>1. Shake(q.lines, q.extlines, b, k) /\ Taken(q.lines, q.extlines, k) = k
          BY <3>4 DEF Shake, Taken
        <5>2. QED
          BY <1>6, <2>5, <3>1, <3>3, <3>4, <3>5, <5>1 DEF Going, RawPort
      <4>2. GrayReceived(q) = GrayReceived(p)
        BY <2>1, <2>3, <3>3, <3>4, <3>5 DEF GrayReceived, FirstBits
      <4>3. QED
        BY <1>3, <1>6, <3>2, <4>1, <4>2 DEF Underway
    <3>6. CASE k = NBits
      <4>1. in = b /\ Len(in) = NBits
        BY <3>3, <3>4, <3>6, FullByte DEF FirstBits
      <4>2. GrayReceived(q) = Append(<<>>, b)
        BY <3>4, <4>1 DEF GrayReceived
      <4>3. \A s \in Seq(Bit) : LastBits(s, b, NBits - k) => s = <<>>
        BY <3>6 DEF LastBits
      <4>4. Resting(q, z, bs)
        <5>1. "write_busy" \in p.flags => z = "idle" /\ bs = <<>> /\ p.out = <<>>
          BY <1>6, <4>3 DEF Going, RawPort
        <5>2. "write_busy" \notin p.flags => RawPort(p) /\ z = "high" /\ LastBits(bs, b, NBits - k)
          BY <1>6, <2>5 DEF Going
        <5>3. "write_busy" \notin p.flags => bs = <<>>
          BY <5>2, <3>6 DEF LastBits
        <5>4. QED
          BY <1>6, <3>4, <4>1, <5>1, <5>2, <5>3 DEF Resting, Free, Going, RawPort
      <4>5. QED
        BY <1>3, <1>6, <2>3, <3>2, <4>2, <4>4 DEF Underway
    <3>7. QED
      BY <2>1, <3>5, <3>6
  <2>6. CASE p.lines \in Bit
    <3>1. GrayDid(q, p, Other(p.lines), p.grayin, p.grayout, p.grayoutbits, e)
      BY <2>2, <2>6, GrayRead
    <3>2. k > 0 /\ p.lines = b[k] /\ p.lines # 0
      BY <2>1, <2>6 DEF Shake
    <3>3. Shake(q.lines, q.extlines, b, k) /\ q.lines = p.lines
      BY <3>1, <3>2 DEF GrayDid, Shake
    <3>4. Taken(q.lines, q.extlines, k) = k - 1 /\ Taken(p.lines, p.extlines, k) = k - 1
      BY <3>2, <3>3 DEF Taken
    <3>5. Going(q, z, bs, b, k) /\ GrayReceived(q) = GrayReceived(p)
      BY <1>6, <2>3, <3>1, <3>3, <3>4 DEF Going, GrayDid, RawPort, GrayReceived
    <3>6. QED
      BY <1>3, <1>6, <3>1, <3>5 DEF Underway
  <2>7. p.lines # 3
    BY <2>1, <2>3 DEF Shake
  <2>8. QED
    BY <2>4, <2>5, <2>6, <2>7
<1>7. QED
  BY <1>4, <1>5, <1>6 DEF Underway

LEMMA AssistTurnKeeps ==
  ASSUME NEW p \in Ports, NEW z, NEW bs \in Seq(Bit), NEW to, NEW from,
         PortSound(p), Underway(p, z, bs, to, from)
  PROVE  PortSound(assist_turn(p)) /\ Underway(assist_turn(p), z, bs, to, from)
<1> DEFINE q == assist_turn(p)
           w == assist_update_write(p)
           r == assist_update_read(p)
<1> USE PortTypes
<1>1. SUFFICES ASSUME q # p
               PROVE  PortSound(q) /\ Underway(q, z, bs, to, from)
  BY Zenon
<1>2. \/ "write_busy" \in p.flags /\ q = w
      \/ "assist" \in p.mode /\ p.flags \cap {"read_byte", "write_busy"} = {} /\ q = r
  BY <1>1 DEF assist_turn
<1> HIDE DEF q
<1>3. ASSUME NEW l, NEW out,
             \/ AssistDid(q, p, l, p.flags, p.in, out)
             \/ AssistDid(q, p, l, p.flags \ {"write_busy"}, p.in, out)
             \/ AssistDid(q, p, l, p.flags \cup {"read_busy"}, p.in, out)
      PROVE  PortSound(q) /\ Received(q) = Received(p) /\ GrayReceived(q) = GrayReceived(p)
  BY <1>3 DEF PortSound, AssistDid, Failed, Received, GrayReceived
<1>4. CASE Resting(p, z, bs) /\ to = Received(p) /\ from = GrayReceived(p)
  <2>1. CASE "write_busy" \in p.flags /\ q = w
    <3>1. AssistDid(q, p, 0, p.flags \ {"write_busy"}, p.in, p.out)
      BY <1>4, <2>1, AssistWrite DEF Resting, Free
    <3>2. Resting(q, z, bs)
      BY <1>4, <3>1 DEF Resting, Free, AssistDid
    <3>3. QED
      BY <1>3, <1>4, <3>1, <3>2 DEF Underway
  <2>2. CASE p.flags \cap {"read_byte", "write_busy"} = {} /\ q = r
    <3>1. p.in = <<>> /\ WithBit(p.in, p.lines) = <<>> /\ Len(<<>>) = 0
      BY <1>4, <2>2 DEF Resting, Free, WithBit
    <3>2. AssistDid(q, p, 0, p.flags, p.in, p.out)
      <4>1. AssistDid(q, p, 0,
                IF Len(WithBit(p.in, p.lines)) >= NBits
                THEN (p.flags \ {"read_busy"}) \cup {"read_byte"} ELSE p.flags,
                WithBit(p.in, p.lines), p.out)
        BY <1>4, <2>2, AssistRead DEF Resting
      <4>2. QED
        BY <3>1, <4>1
    <3>3. Resting(q, z, bs)
      BY <1>4, <3>2 DEF Resting, Free, AssistDid
    <3>4. QED
      BY <1>3, <1>4, <3>2, <3>3 DEF Underway
  <2>3. QED
    BY <1>2, <2>1, <2>2
<1>5. ASSUME NEW c \in Byte, NEW k \in 0 .. NBits,
             Coming(p, z, bs, c, k), to = Append(Received(p), c), from = <<>>
      PROVE  PortSound(q) /\ Underway(q, z, bs, to, from)
  <2> DEFINE n == Taken(p.extlines, p.lines, k)
  <2>1. /\ p.grayoutbits = NBits + 1 - k /\ p.grayin = <<>>
        /\ Shake(p.extlines, p.lines, c, k) /\ n < NBits
        /\ k \in Nat /\ k <= NBits
    BY <1>5 DEF Coming
  <2>2. /\ \A i \in 1 .. NBits : c[i] \in Bit /\ Other(c[i]) \in Bit /\ Other(Other(c[i])) = c[i]
        /\ p.extlines # 3
    <3>1. \A i \in 1 .. NBits : c[i] \in Bit /\ Other(c[i]) \in Bit /\ Other(Other(c[i])) = c[i]
      BY OtherBit DEF Byte
    <3>2. k > 0 => k \in 1 .. NBits
      BY <2>1
    <3>3. QED
      BY <2>1, <3>1, <3>2 DEF Shake
  <2>3. CASE "write_busy" \in p.flags /\ q = w
    <3>1. Free(p, z, bs) /\ n = 0 /\ p.lines = 0 /\ p.out = <<>>
      BY <1>5, <2>3 DEF Coming, RawPort, Free
    <3>2. p.extlines = 0
      <4>1. Other(0) = 3
        BY DEF Other
      <4>2. QED
        BY <1>1, <2>2, <2>3, <3>1, <4>1, AssistWrite
    <3>3. AssistDid(q, p, 0, p.flags \ {"write_busy"}, p.in, p.out)
      BY <2>3, <3>1, <3>2, AssistWrite
    <3>4. Coming(q, z, bs, c, k)
      BY <1>5, <3>1, <3>3 DEF Coming, Free, AssistDid
    <3>5. QED
      BY <1>3, <1>5, <3>3, <3>4 DEF Underway
  <2>4. CASE "assist" \in p.mode /\ p.flags \cap {"read_byte", "write_busy"} = {} /\ q = r
    <3>1. z = "idle" /\ bs = <<>> /\ FirstBits(p.in, c, n)
      <4>1. CASE Free(p, z, bs) /\ n = 0
        BY <2>4, <4>1 DEF Free, FirstBits
      <4>2. QED
        BY <1>5, <2>4, <4>1 DEF Coming, RawPort
    <3>2. Received(p) = <<>>
      BY <2>4 DEF Received
    <3>3. CASE p.extlines \in Bit
      <4>1. AssistDid(q, p, Other(p.extlines), p.flags \cup {"read_busy"}, p.in, p.out)
        BY <2>4, <3>3, AssistRead
      <4>2. k > 0 /\ p.extlines = c[k] /\ p.extlines # 0
        BY <2>1, <3>3 DEF Shake
      <4>3. Shake(q.extlines, q.lines, c, k) /\ q.extlines = p.extlines
        BY <4>1, <4>2 DEF Shake, AssistDid
      <4>4. Taken(q.extlines, q.lines, k) = n
        BY <4>2, <4>3 DEF Taken
      <4> HIDE DEF n
      <4>5. Coming(q, z, bs, c, k)
        BY <1>5, <2>1, <2>4, <3>1, <4>1, <4>3, <4>4 DEF Coming, AssistDid
      <4>6. QED
        BY <1>3, <1>5, <4>1, <4>5 DEF Underway
    <3>4. CASE p.extlines = 0 /\ p.lines = 0
      <4>1. WithBit(p.in, p.lines) = p.in /\ Len(p.in) < NBits
        BY <2>1, <3>1, <3>4 DEF WithBit, FirstBits
      <4>2. AssistDid(q, p, 0, p.flags, p.in, p.out)
        <5>1. AssistDid(q, p, 0,
                IF Len(WithBit(p.in, p.lines)) >= NBits
                THEN (p.flags \ {"read_busy"}) \cup {"read_byte"} ELSE p.flags,
                WithBit(p.in, p.lines), p.out)
          BY <2>4, <3>4, AssistRead
        <5>2. ~(Len(p.in) >= NBits)
          BY <4>1
        <5>3. QED
          BY <4>1, <5>1, <5>2
      <4>3. Coming(q, z, bs, c, k)
        BY <1>5, <2>4, <3>1, <3>4, <4>2 DEF Coming, AssistDid
      <4>4. QED
        BY <1>3, <1>5, <4>2, <4>3 DEF Underway
    <3>5. CASE p.extlines = 0 /\ p.lines # 0
      <4> DEFINE in == Append(p.in, c[k])
                 flags == IF Len(in) >= NBits
                          THEN (p.flags \ {"read_busy"}) \cup {"read_byte"} ELSE p.flags
      <4>1. k > 0 /\ p.lines = Other(c[k]) /\ n = k - 1 /\ k - 1 \in 0 .. NBits - 1 /\ (k - 1) + 1 = k
        BY <2>1, <3>5 DEF Shake, Taken
      <4>2. WithBit(p.in, p.lines) = in
        BY <2>2, <4>1 DEF WithBit
      <4>3. AssistDid(q, p, 0, flags, in, p.out)
        <5>1. AssistDid(q, p, 0,
                IF Len(WithBit(p.in, p.lines)) >= NBits
                THEN (p.flags \ {"read_busy"}) \cup {"read_byte"} ELSE p.flags,
                WithBit(p.in, p.lines), p.out)
          BY <2>4, <3>5, AssistRead
        <5>2. QED
          BY <4>2, <5>1
      <4>4. FirstBits(in, c, k) /\ Len(in) = k
        BY <3>1, <4>1, OneBitMore DEF FirstBits
      <4>5. in \in Seq(Bit)
        BY <4>3 DEF AssistDid, Port
      <4> HIDE DEF in, n
      <4>6. CASE k < NBits
        <5>1. flags = p.flags
          BY <2>1, <4>4, <4>6
        <5>2. /\ q.lines = 0 /\ q.extlines = 0 /\ q.flags = p.flags /\ q.in = in
              /\ q.grayoutbits = p.grayoutbits /\ q.grayout = p.grayout /\ q.grayin = p.grayin
              /\ q.mode = p.mode
          BY <3>5, <4>3, <5>1 DEF AssistDid
        <5>3. Coming(q, z, bs, c, k)
          <6>1. Shake(q.extlines, q.lines, c, k) /\ Taken(q.extlines, q.lines, k) = k
            BY <5>2 DEF Shake, Taken
          <6>2. QED
            BY <1>5, <2>4, <3>1, <4>4, <4>6, <5>2, <6>1 DEF Coming
        <5>4. PortSound(q)
          BY <2>4, <4>3, <5>1 DEF PortSound, AssistDid, Failed
        <5>5. Received(q) = Received(p)
          BY <2>4, <5>2 DEF Received
        <5>6. QED
          BY <1>5, <5>3, <5>4, <5>5 DEF Underway
      <4>7. CASE k = NBits
        <5>1. flags = (p.flags \ {"read_busy"}) \cup {"read_byte"}
          BY <4>4, <4>7
        <5>2. in = c
          BY <4>4, <4>5, <4>7, FullByte
        <5>3. /\ q.lines = 0 /\ q.extlines = 0 /\ q.in = in /\ q.mode = p.mode
              /\ q.flags = (p.flags \ {"read_busy"}) \cup {"read_byte"}
              /\ q.grayoutbits = 1 /\ q.grayin = <<>>
          BY <2>1, <3>5, <4>3, <4>7, <5>1 DEF AssistDid
        <5>4. Resting(q, z, bs)
          BY <2>4, <3>1, <5>3 DEF Resting, Free
        <5>5. PortSound(q)
          BY <2>4, <4>3, <4>4, <4>7, <5>3 DEF PortSound, AssistDid, Failed
        <5>6. Received(q) = Append(<<>>, c) /\ GrayReceived(q) = <<>>
          BY <5>2, <5>3 DEF Received, GrayReceived
        <5>7. QED
          BY <1>5, <3>2, <5>4, <5>5, <5>6 DEF Underway
      <4>8. QED
        BY <2>1, <4>6, <4>7
    <3>6. QED
      BY <2>2, <3>3, <3>4, <3>5
  <2>5. QED
    BY <1>2, <2>3, <2>4
<1>6. ASSUME NEW b \in Byte, NEW k \in 0 .. NBits,
             Going(p, z, bs, b, k), to = Received(p), from = Append(GrayReceived(p), b)
      PROVE  PortSound(q) /\ Underway(q, z, bs, to, from)
  <2> DEFINE n == Taken(p.lines, p.extlines, k)
  <2>1. /\ p.grayoutbits = 0 /\ Shake(p.lines, p.extlines, b, k) /\ n < NBits
        /\ k \in Nat /\ k <= NBits
    BY <1>6 DEF Going
  <2>2. /\ "write_busy" \in p.flags /\ q = w
        /\ z = "idle" /\ bs = <<>> /\ LastBits(p.out, b, NBits - k)
    BY <1>2, <1>6 DEF Going, RawPort
  <2>3. /\ \A i \in 1 .. NBits : b[i] \in Bit /\ Other(b[i]) \in Bit /\ Other(Other(b[i])) = b[i]
        /\ p.extlines # 3
    <3>1. \A i \in 1 .. NBits : b[i] \in Bit /\ Other(b[i]) \in Bit /\ Other(Other(b[i])) = b[i]
      BY OtherBit DEF Byte
    <3>2. k > 0 => k \in 1 .. NBits
      BY <2>1
    <3>3. QED
      BY <2>1, <3>1, <3>2 DEF Shake
  <2>4. CASE p.lines = 0 /\ p.extlines = 0
    <3>1. n = k /\ NBits - k \in 1 .. NBits
      BY <2>1, <2>4 DEF Taken
    <3>2. p.out # <<>> /\ Head(p.out) = b[k + 1] /\ LastBits(Tail(p.out), b, NBits - (k + 1))
      <4>1. /\ p.out # <<>> /\ Head(p.out) = b[NBits - (NBits - k) + 1]
            /\ LastBits(Tail(p.out), b, (NBits - k) - 1)
        BY <2>2, <3>1, OneBitLess
      <4>2. NBits - (NBits - k) + 1 = k + 1 /\ (NBits - k) - 1 = NBits - (k + 1)
        BY <2>1
      <4>3. QED
        BY <4>1, <4>2
    <3>3. AssistDid(q, p, Head(p.out), p.flags, p.in, Tail(p.out))
      BY <2>2, <2>4, <3>2, AssistWrite
    <3>4. /\ q.lines = b[k + 1] /\ q.extlines = 0 /\ q.flags = p.flags /\ q.in = p.in
          /\ LastBits(q.out, b, NBits - (k + 1)) /\ q.mode = p.mode
          /\ q.grayoutbits = 0 /\ q.grayin = p.grayin
      BY <2>1, <2>4, <3>2, <3>3 DEF AssistDid
    <3>5. b[k + 1] # 0 /\ k + 1 \in 0 .. NBits /\ k + 1 > 0 /\ (k + 1) - 1 = k
      BY <2>1, <2>3, <3>1
    <3>6. Shake(q.lines, q.extlines, b, k + 1) /\ Taken(q.lines, q.extlines, k + 1) = n
      BY <3>1, <3>4, <3>5 DEF Shake, Taken
    <3>7. Going(q, z, bs, b, k + 1)
      <4> HIDE DEF n
      <4>1. \/ FirstBits(p.grayin, b, n)
            \/ Len(p.grayin) = NBits /\ n = 0 /\ p.extlines = 0
        BY <1>6 DEF Going, n
      <4>2. "read_byte" \notin p.flags => p.in = <<>>
        BY <1>6 DEF Going
      <4>3. QED
        BY <2>1, <2>2, <3>4, <3>6, <4>1, <4>2 DEF Going
    <3>8. QED
      BY <1>3, <1>6, <3>3, <3>5, <3>7 DEF Underway
  <2>5. CASE p.extlines \in Bit /\ p.extlines = Other(p.lines)
    <3>1. AssistDid(q, p, 0, p.flags, p.in, p.out)
      BY <2>2, <2>5, AssistWrite
    <3>2. k > 0 /\ p.lines = b[k] /\ p.extlines = Other(b[k]) /\ p.lines # 0 /\ p.extlines # 0
      <4>1. Other(0) = 3
        BY DEF Other
      <4>2. QED
        BY <2>1, <2>3, <2>5, <4>1 DEF Shake
    <3>3. Shake(q.lines, q.extlines, b, k) /\ q.extlines = p.extlines
      BY <3>1, <3>2 DEF Shake, AssistDid
    <3>4. Taken(q.lines, q.extlines, k) = n
      BY <3>2, <3>3 DEF Taken
    <3>5. Going(q, z, bs, b, k)
      <4> HIDE DEF n
      <4>1. FirstBits(p.grayin, b, n)
        BY <1>6, <3>2 DEF Going, n
      <4>2. "read_byte" \notin p.flags => p.in = <<>>
        BY <1>6 DEF Going
      <4>3. QED
        BY <2>1, <2>2, <3>1, <3>3, <3>4, <4>1, <4>2 DEF Going, AssistDid
    <3>6. QED
      BY <1>3, <1>6, <3>1, <3>5 DEF Underway
  <2>6. QED
    BY <1>1, <2>2, <2>3, <2>4, <2>5, AssistWrite
<1>7. QED
  BY <1>4, <1>5, <1>6 DEF Underway

\* What is under way is told from the wires, the registers and the counter.
PortsAlike(q, p) ==
  /\ q.lines = p.lines /\ q.extlines = p.extlines /\ q.mode = p.mode /\ q.flags = p.flags
  /\ q.in = p.in /\ q.out = p.out /\ q.grayin = p.grayin /\ q.grayout = p.grayout
  /\ q.grayoutbits = p.grayoutbits
  /\ "error" \in q.stops => "error" \in p.stops

LEMMA PortsAlikeKeep ==
  ASSUME NEW p, NEW q, PortsAlike(q, p), NEW z, NEW bs, NEW to, NEW from,
         PortSound(p), Underway(p, z, bs, to, from)
  PROVE  PortSound(q) /\ Underway(q, z, bs, to, from)
<1>1. PortSound(q)
  BY DEF PortsAlike, PortSound, Failed
<1>2. /\ q.lines = p.lines /\ q.extlines = p.extlines /\ q.mode = p.mode /\ q.flags = p.flags
      /\ q.in = p.in /\ q.out = p.out /\ q.grayin = p.grayin /\ q.grayout = p.grayout
      /\ q.grayoutbits = p.grayoutbits
  BY DEF PortsAlike
<1>3. /\ Resting(q, z, bs) <=> Resting(p, z, bs)
      /\ Received(q) = Received(p) /\ GrayReceived(q) = GrayReceived(p)
      /\ \A c \in Byte, k \in 0 .. NBits : Coming(q, z, bs, c, k) <=> Coming(p, z, bs, c, k)
      /\ \A c \in Byte, k \in 0 .. NBits : Going(q, z, bs, c, k) <=> Going(p, z, bs, c, k)
  BY <1>2 DEF Resting, Free, Received, GrayReceived, Coming, Going, RawPort
<1>4. CASE Resting(p, z, bs) /\ to = Received(p) /\ from = GrayReceived(p)
  BY <1>1, <1>3, <1>4 DEF Underway
<1>5. ASSUME NEW c \in Byte, NEW k \in 0 .. NBits,
             Coming(p, z, bs, c, k), to = Append(Received(p), c), from = <<>>
      PROVE  Underway(q, z, bs, to, from)
  <2>1. Coming(q, z, bs, c, k) /\ to = Append(Received(q), c)
    BY <1>3, <1>5
  <2>2. QED
    BY <1>5, <2>1 DEF Underway
<1>6. ASSUME NEW b \in Byte, NEW k \in 0 .. NBits,
             Going(p, z, bs, b, k), to = Received(p), from = Append(GrayReceived(p), b)
      PROVE  Underway(q, z, bs, to, from)
  <2>1. Going(q, z, bs, b, k) /\ to = Received(q) /\ from = Append(GrayReceived(q), b)
    BY <1>3, <1>6
  <2>2. QED
    BY <2>1 DEF Underway
<1>7. QED
  BY <1>1, <1>4, <1>5, <1>6 DEF Underway

\* Looking at the wires keeps the bytes that are under way.
LEMMA UpdateKeeps ==
  ASSUME NEW p \in Ports, NEW z, NEW bs \in Seq(Bit), NEW to, NEW from,
         PortSound(p), Underway(p, z, bs, to, from)
  PROVE  PortSound(dbus_update(p)) /\ Underway(dbus_update(p), z, bs, to, from)
<1> DEFINE S == {q \in Ports : PortSound(q) /\ Underway(q, z, bs, to, from)}
           r == settle(p)
           q == dbus_update(p)
<1>1. p \in S /\ \A x \in S : gray_turn(x) \in S /\ assist_turn(x) \in S
  BY TurnTypes, GrayTurnKeeps, AssistTurnKeeps
<1>2. r \in S
  <2> HIDE DEF S
  <2>1. QED
    BY <1>1, SettleKeeps
<1>3. q \in Ports /\ Like(q, r, r.lines, r.extlines)
  BY <1>2, UpdateTypes, Announces DEF Ports, dbus_update
<1> HIDE DEF q, r
<1>4. PortsAlike(q, r)
  BY <1>3 DEF Like, PortsAlike
<1>5. QED
  BY <1>2, <1>4, PortsAlikeKeep DEF q

-----------------------------------------------------------------------------
(* The loop of dbus_update ends *)

\* How much is left to happen on the wires: the assist's own bits, those of the
\* GrayLink, and what the assist still owes to a wire.
Left(p) ==
  IF "write_busy" \in p.flags
  THEN 2 * Len(p.out) + 2 * p.grayoutbits + (IF p.lines = 0 THEN 0 ELSE 1)
  ELSE 2 * p.grayoutbits + (IF p.extlines \in Bit /\ p.lines # Other(p.extlines) THEN 2
                            ELSE IF p.lines = 0 THEN 0 ELSE 1)

LEMMA LeftIs == ASSUME NEW p \in Ports PROVE Left(p) \in Nat /\ Left(p) < MaxTurns
<1>1. /\ Len(p.out) \in Nat /\ Len(p.out) <= NBits /\ p.grayoutbits \in Nat
      /\ p.grayoutbits <= NBits + 1 /\ NBits \in Nat /\ NBits > 0
  BY PortTypes DEF Fits
<1> DEFINE L == Len(p.out)
           g == p.grayoutbits
<1>2. \/ Left(p) \in {2 * L + 2 * g, 2 * L + 2 * g + 1}
      \/ Left(p) \in {2 * g, 2 * g + 1, 2 * g + 2}
  <2> HIDE DEF L, g
  <2>1. CASE "write_busy" \in p.flags
    <3>1. Left(p) = 2 * L + 2 * g + (IF p.lines = 0 THEN 0 ELSE 1)
      BY <2>1 DEF Left, L, g
    <3>2. QED
      BY <1>1, <3>1 DEF L, g
  <2>2. CASE "write_busy" \notin p.flags
    <3>1. Left(p) = 2 * g + (IF p.extlines \in Bit /\ p.lines # Other(p.extlines) THEN 2
                            ELSE IF p.lines = 0 THEN 0 ELSE 1)
      BY <2>2 DEF Left, g
    <3>2. QED
      BY <1>1, <3>1 DEF g
  <2>3. QED
    BY <2>1, <2>2
<1>3. L \in Nat /\ L <= NBits /\ g \in Nat /\ g <= NBits + 1 /\ NBits \in Nat /\ NBits > 0
      /\ MaxTurns = 4 * NBits + 4
  BY <1>1 DEF MaxTurns
<1> HIDE DEF L, g
<1>4. QED
  BY <1>2, <1>3

\* What the GrayLink's turn leaves
LEMMA GrayTurn ==
  ASSUME NEW p \in Ports
  PROVE  LET q == gray_turn(p) IN
         /\ q.lines = p.lines /\ q.flags = p.flags /\ q.out = p.out /\ q.in = p.in
         /\ q.mode = p.mode /\ q.grayoutbits <= p.grayoutbits
         /\ \/ q.extlines = p.extlines
            \/ q.extlines = 0
            \/ p.lines = 0 /\ p.extlines = 0 /\ q.grayoutbits = p.grayoutbits - 1
            \/ p.lines \in Bit /\ q.extlines = Other(p.lines)
<1> DEFINE q == gray_turn(p)
           w == graylink_update_write(p)
           r == graylink_update_read(p)
           Goal(x) ==
             /\ x.lines = p.lines /\ x.flags = p.flags /\ x.out = p.out /\ x.in = p.in
             /\ x.mode = p.mode /\ x.grayoutbits <= p.grayoutbits
             /\ \/ x.extlines = p.extlines
                \/ x.extlines = 0
                \/ p.lines = 0 /\ p.extlines = 0 /\ x.grayoutbits = p.grayoutbits - 1
                \/ p.lines \in Bit /\ x.extlines = Other(p.lines)
<1> USE PortTypes
<1>1. q = p \/ (q = w /\ p.grayoutbits > 0) \/ q = r
  BY DEF gray_turn
<1>2. Goal(p)
  OBVIOUS
<1>3. ASSUME p.grayoutbits > 0 PROVE Goal(w)
  <2>0. p.grayoutbits > 1 => p.grayout # <<>>
    BY DEF Fits
  <2>1. CASE p.lines = 0 /\ p.extlines = 0 /\ p.grayoutbits > 1
    <3>1. p.grayout # <<>>
      BY <2>1 DEF Fits
    <3>2. QED
      BY <2>1, <3>1, GrayWrite DEF GrayDid
  <2>2. CASE p.lines = 0 /\ p.extlines = 0 /\ p.grayoutbits <= 1
    BY <1>3, <2>0, <2>2, GrayWrite DEF GrayDid
  <2>4. CASE p.lines \in Bit /\ p.extlines = Other(p.lines)
    BY <1>3, <2>0, <2>4, GrayWrite DEF GrayDid
  <2>5. CASE p.lines = 3
    BY <1>3, <2>0, <2>5, GrayWrite DEF GrayDid
  <2>6. CASE \/ p.lines = 0 /\ p.extlines # 0
             \/ p.lines \in Bit /\ p.extlines # Other(p.lines)
    <3>1. w = p
      <4> HIDE DEF w
      <4>1. QED
        BY <2>0, <2>6, GrayWrite DEF w
    <3>2. QED
      BY <1>2, <3>1
  <2>3. QED
    BY <1>3, <2>1, <2>2, <2>4, <2>5, <2>6
<1>4. Goal(r)
  BY GrayRead DEF GrayDid
<1>5. QED
  BY <1>1, <1>2, <1>3, <1>4

\* A turn in which the assist changes a wire leaves less.
LEMMA LessLeft ==
  ASSUME NEW p \in Ports, assist_turn(gray_turn(p)).lines # gray_turn(p).lines
  PROVE  Left(assist_turn(gray_turn(p))) < Left(p)
<1> DEFINE q == gray_turn(p)
           r == assist_turn(q)
           w == assist_update_write(q)
           d == assist_update_read(q)
<1>1. q \in Ports /\ r \in Ports
  BY TurnTypes
<1>2. /\ q.lines = p.lines /\ q.flags = p.flags /\ q.out = p.out
      /\ q.grayoutbits <= p.grayoutbits /\ q.grayoutbits \in Nat /\ p.grayoutbits \in Nat
      /\ \/ q.extlines = p.extlines
         \/ q.extlines = 0
         \/ p.lines = 0 /\ p.extlines = 0 /\ q.grayoutbits = p.grayoutbits - 1
         \/ p.lines \in Bit /\ q.extlines = Other(p.lines)
  BY <1>1, GrayTurn, PortTypes
<1>3. r.lines # q.lines
  OBVIOUS
<1>9. q.grayoutbits <= p.grayoutbits /\ q.grayoutbits \in Nat /\ p.grayoutbits \in Nat
  BY <1>2
<1>4. \/ "write_busy" \in q.flags /\ r = w
      \/ "write_busy" \notin q.flags /\ r = d
  BY <1>3 DEF assist_turn
<1>5. /\ 0 \notin Bit /\ 3 \notin Bit /\ q.lines \in {0, 3} \cup Bit /\ q.extlines \in {0, 3} \cup Bit
      /\ q.out \in Seq(Bit) /\ Other(0) = 3 /\ Other(3) = 0 /\ p.extlines \in {0, 3} \cup Bit
      /\ \A x \in Bit : Other(x) \in Bit /\ Other(Other(x)) = x
  BY <1>1, PortTypes, OtherBit DEF Other
<1> HIDE DEF q, r
<1>6. ASSUME "write_busy" \in q.flags, r = w PROVE Left(r) < Left(p)
  <2>0. Len(p.out) \in Nat /\ Left(p) = 2 * Len(p.out) + 2 * p.grayoutbits + (IF p.lines = 0 THEN 0 ELSE 1)
    BY <1>1, <1>2, <1>5, <1>6 DEF Left
  <2>1. CASE q.extlines = 0 /\ q.lines = 0 /\ q.out # <<>>
    <3>1. AssistDid(r, q, Head(q.out), q.flags, q.in, Tail(q.out))
      BY <1>1, <1>6, <2>1, AssistWrite, PortTypes
    <3>2. r.out = Tail(p.out) /\ r.grayoutbits = q.grayoutbits /\ "write_busy" \in r.flags
      BY <1>2, <1>6, <3>1 DEF AssistDid
    <3>3. Len(p.out) > 0 /\ Len(r.out) = Len(p.out) - 1
      BY <1>2, <1>5, <2>1, <3>2
    <3>4. Left(r) \in {2 * Len(r.out) + 2 * r.grayoutbits, 2 * Len(r.out) + 2 * r.grayoutbits + 1}
      <4> DEFINE L == Len(r.out)
                 g == r.grayoutbits
      <4>1. Left(r) = 2 * L + 2 * g + (IF r.lines = 0 THEN 0 ELSE 1)
        BY <3>2 DEF Left
      <4>2. L \in Nat /\ g \in Nat
        BY <1>9, <2>0, <3>2, <3>3
      <4> HIDE DEF L, g
      <4>3. Left(r) \in {2 * L + 2 * g, 2 * L + 2 * g + 1}
        BY <4>1, <4>2
      <4>4. QED
        BY <4>3 DEF L, g
    <3>5. Left(p) = 2 * Len(p.out) + 2 * p.grayoutbits
      <4>1. p.lines = 0
        BY <1>2, <2>1
      <4>2. QED
        BY <1>9, <2>0, <4>1
    <3> DEFINE L == Len(p.out)
               M == Len(r.out)
               g == p.grayoutbits
               h == r.grayoutbits
    <3>6. L \in Nat /\ M \in Nat /\ g \in Nat /\ h \in Nat /\ h <= g /\ M = L - 1
      BY <1>9, <2>0, <3>2, <3>3
    <3>7. Left(r) \in {2 * M + 2 * h, 2 * M + 2 * h + 1} /\ Left(p) = 2 * L + 2 * g
      BY <3>4, <3>5
    <3> HIDE DEF L, M, g, h
    <3>8. QED
      BY <3>6, <3>7
  <2>2. CASE q.extlines = 0 /\ q.lines = 0 /\ q.out = <<>>
    <3>1. AssistDid(r, q, 0, q.flags \ {"write_busy"}, q.in, q.out)
      BY <1>1, <1>6, <2>2, AssistWrite, PortTypes
    <3>2. QED
      BY <1>3, <2>2, <3>1 DEF AssistDid
  <2>3. CASE q.extlines \in Bit /\ q.extlines = Other(q.lines)
    <3>1. AssistDid(r, q, 0, q.flags, q.in, q.out)
      BY <1>1, <1>6, <2>3, AssistWrite, PortTypes
    <3>2. r.out = p.out /\ r.grayoutbits = q.grayoutbits /\ "write_busy" \in r.flags /\ r.lines = 0
      BY <1>2, <1>6, <3>1 DEF AssistDid
    <3>3. Left(r) = 2 * Len(p.out) + 2 * q.grayoutbits + 0
      BY <3>2 DEF Left
    <3>4. Left(p) = 2 * Len(p.out) + 2 * p.grayoutbits + 1
      <4>1. p.lines # 0
        BY <1>2, <1>3, <3>2
      <4>2. QED
        BY <2>0, <4>1
    <3> DEFINE L == Len(p.out)
               g == p.grayoutbits
               h == q.grayoutbits
    <3>5. L \in Nat /\ g \in Nat /\ h \in Nat /\ h <= g
      BY <1>9, <2>0
    <3>6. Left(r) = 2 * L + 2 * h + 0 /\ Left(p) = 2 * L + 2 * g + 1
      BY <3>3, <3>4
    <3> HIDE DEF L, g, h
    <3>7. QED
      BY <3>5, <3>6
  <2>4. CASE q.extlines = 3
    <3>1. AssistDid(r, q, 0, (q.flags \ {"write_busy"}) \cup {"write_error"}, q.in, q.out)
      BY <1>1, <1>6, <2>4, AssistWrite, PortTypes
    <3>2. /\ r.extlines = 3 /\ r.grayoutbits = q.grayoutbits /\ "write_busy" \notin r.flags
          /\ r.lines = 0
      BY <1>2, <1>6, <2>4, <3>1 DEF AssistDid
    <3>3. Left(r) = 2 * q.grayoutbits
      BY <1>2, <1>5, <3>2 DEF Left
    <3>4. Left(p) = 2 * Len(p.out) + 2 * p.grayoutbits + 1
      <4>1. p.lines # 0
        BY <1>2, <1>3, <3>2
      <4>2. QED
        BY <2>0, <4>1
    <3> DEFINE L == Len(p.out)
               g == p.grayoutbits
               h == q.grayoutbits
    <3>5. L \in Nat /\ g \in Nat /\ h \in Nat /\ h <= g
      BY <1>9, <2>0
    <3>6. Left(r) = 2 * h /\ Left(p) = 2 * L + 2 * g + 1
      BY <3>3, <3>4
    <3> HIDE DEF L, g, h
    <3>7. QED
      BY <3>5, <3>6
  <2>5. CASE \/ q.extlines = 0 /\ q.lines # 0
             \/ q.extlines \in Bit /\ q.extlines # Other(q.lines)
    BY <1>1, <1>3, <1>6, <2>5, AssistWrite, PortTypes
  <2>6. QED
    BY <1>5, <2>1, <2>2, <2>3, <2>4, <2>5
<1>7. ASSUME "write_busy" \notin q.flags, r = d PROVE Left(r) < Left(p)
  <2> DEFINE owes == IF p.extlines \in Bit /\ p.lines # Other(p.extlines) THEN 2
                     ELSE IF p.lines = 0 THEN 0 ELSE 1
  <2>0. Left(p) = 2 * p.grayoutbits + owes
    BY <1>2, <1>7 DEF Left
  <2>1. CASE q.extlines \in {0, 3}
    <3>1. \E flags, in : AssistDid(r, q, 0, flags, in, q.out) /\ "write_busy" \notin flags
      <4>1. CASE q.extlines = 0
        <5> DEFINE in == WithBit(q.in, q.lines)
                   flags == IF Len(in) >= NBits
                            THEN (q.flags \ {"read_busy"}) \cup {"read_byte"} ELSE q.flags
        <5>1. AssistDid(r, q, 0, flags, in, q.out)
          BY <1>1, <1>7, <4>1, AssistRead, PortTypes
        <5>2. "write_busy" \notin flags
          BY <1>7
        <5> HIDE DEF in, flags
        <5>3. QED
          BY <5>1, <5>2
      <4>2. CASE q.extlines = 3
        <5> DEFINE flags == (q.flags \ {"read_busy"}) \cup {"read_error"}
        <5>1. AssistDid(r, q, 0, flags, q.in, q.out)
          BY <1>1, <1>7, <4>2, AssistRead, PortTypes
        <5>2. "write_busy" \notin flags
          BY <1>7
        <5> HIDE DEF flags
        <5>3. QED
          BY <5>1, <5>2
      <4>3. QED
        BY <2>1, <4>1, <4>2
    <3>2. /\ r.lines = 0 /\ r.extlines = q.extlines /\ r.grayoutbits = q.grayoutbits
          /\ "write_busy" \notin r.flags
      BY <3>1 DEF AssistDid
    <3>3. Left(r) = 2 * q.grayoutbits
      BY <1>2, <1>5, <2>1, <3>2 DEF Left
    <3>4. owes \in {1, 2}
      BY <1>2, <1>3, <3>2
    <3> HIDE DEF owes
    <3> DEFINE g == p.grayoutbits
               h == q.grayoutbits
    <3>5. g \in Nat /\ h \in Nat /\ h <= g /\ Left(r) = 2 * h /\ Left(p) = 2 * g + owes
      BY <1>9, <2>0, <3>3
    <3> HIDE DEF g, h
    <3>6. QED
      BY <3>4, <3>5
  <2>2. CASE q.extlines \in Bit
    <3>1. AssistDid(r, q, Other(q.extlines), q.flags \cup {"read_busy"}, q.in, q.out)
      BY <1>1, <1>7, <2>2, AssistRead, PortTypes
    <3>2. /\ r.lines = Other(q.extlines) /\ r.extlines = q.extlines
          /\ r.grayoutbits = q.grayoutbits /\ "write_busy" \notin r.flags
      BY <1>7, <3>1 DEF AssistDid
    <3>3. Left(r) = 2 * q.grayoutbits + 1
      BY <1>2, <1>5, <2>2, <3>2 DEF Left
    <3>4. CASE q.extlines = p.extlines
      <4>1. owes = 2
        BY <1>2, <1>3, <2>2, <3>2, <3>4
      <4> HIDE DEF owes
      <4> DEFINE g == p.grayoutbits
                 h == q.grayoutbits
      <4>2. g \in Nat /\ h \in Nat /\ h <= g /\ Left(r) = 2 * h + 1 /\ Left(p) = 2 * g + owes
        BY <1>9, <2>0, <3>3
      <4> HIDE DEF g, h
      <4>3. QED
        BY <4>1, <4>2
    <3>5. CASE p.lines = 0 /\ p.extlines = 0 /\ q.grayoutbits = p.grayoutbits - 1
      <4>1. owes = 0
        BY <1>5, <3>5
      <4> HIDE DEF owes
      <4> DEFINE g == p.grayoutbits
                 h == q.grayoutbits
      <4>2. g \in Nat /\ h = g - 1 /\ Left(r) = 2 * h + 1 /\ Left(p) = 2 * g + owes
        BY <1>9, <2>0, <3>3, <3>5
      <4> HIDE DEF g, h
      <4>3. QED
        BY <4>1, <4>2
    <3>6. CASE p.lines \in Bit /\ q.extlines = Other(p.lines)
      BY <1>2, <1>3, <1>5, <3>2, <3>6
    <3>7. QED
      BY <1>2, <1>5, <2>2, <3>4, <3>5, <3>6
  <2>3. QED
    BY <1>5, <2>1, <2>2
<1>8. QED
  BY <1>4, <1>6, <1>7 DEF q, r

(***************************************************************************)
(* The loop of dbus_update ends within MaxTurns turns, whatever the port   *)
(* is in: the model's bound never cuts it short.                           *)
(***************************************************************************)
THEOREM LoopEnds ==
  ASSUME NEW p \in Ports
  PROVE  ~turns(p)[MaxTurns].on
<1> DEFINE s(n) == turns(p)[n]
           T == {n \in Nat : n <= MaxTurns /\ s(n).on => Left(s(n).port) + n < MaxTurns}
<1>1. /\ \A n \in 0 .. MaxTurns : s(n).port \in Ports /\ s(n).on \in BOOLEAN
      /\ s(0) = [port |-> p, on |-> TRUE]
      /\ \A n \in 1 .. MaxTurns : s(n) = turn(s(n - 1))
  BY TurnTypes, TurnsAre, ZenonT(60)
<1>2. MaxTurns \in Nat
  BY BitsInByte
<1> HIDE DEF s
<1>3. 0 \in T
  <2>1. s(0).port = p
    BY <1>1
  <2>2. QED
    BY <1>2, <2>1, LeftIs
<1>4. ASSUME NEW n \in Nat, n \in T PROVE n + 1 \in T
  <2> SUFFICES ASSUME n + 1 <= MaxTurns, s(n + 1).on
               PROVE  Left(s(n + 1).port) + (n + 1) < MaxTurns
    OBVIOUS
  <2>1. n \in 0 .. MaxTurns /\ n + 1 \in 1 .. MaxTurns /\ n + 1 \in 0 .. MaxTurns /\ (n + 1) - 1 = n
    BY <1>2
  <2>2. s(n + 1) = turn(s(n))
    BY <1>1, <2>1
  <2> DEFINE a == s(n).port
             q == gray_turn(a)
             r == assist_turn(q)
  <2>3. s(n).on /\ s(n + 1).port = r /\ r.lines # q.lines
    BY <1>1, <2>1, <2>2 DEF turn
  <2>4. Left(a) + n < MaxTurns
    BY <1>4, <2>1, <2>3
  <2>5. a \in Ports
    BY <1>1, <2>1
  <2>6. Left(r) < Left(a)
    BY <2>3, <2>5, LessLeft
  <2>7. r \in Ports
    BY <2>5, TurnTypes
  <2>8. Left(a) \in Nat /\ Left(r) \in Nat
    BY <2>5, <2>7, LeftIs
  <2> HIDE DEF a, q, r
  <2>9. QED
    BY <1>2, <2>3, <2>4, <2>6, <2>8
<1>5. \A n \in Nat : n \in T
  <2> HIDE DEF T
  <2>1. QED
    BY <1>3, <1>4, CountUp
<1>6. MaxTurns \in T /\ MaxTurns \in 0 .. MaxTurns
  BY <1>2, <1>5
<1>7. Left(s(MaxTurns).port) \in Nat
  BY <1>1, <1>6, LeftIs
<1>8. QED
  BY <1>2, <1>6, <1>7 DEF s

-----------------------------------------------------------------------------
(* The loop of dbus_update leaves the wires settled *)

\* The GrayLink has nothing to do ...
GrayRests(p) ==
  p.linkemu = "gray" =>
    IF p.grayoutbits > 0
    THEN /\ p.lines # 3 /\ ~(p.lines = 0 /\ p.extlines = 0)
         /\ p.lines \in Bit => p.extlines # Other(p.lines)
    ELSE Len(p.grayin) # NBits =>
           /\ p.extlines = IF p.lines \in Bit THEN Other(p.lines) ELSE 0
           /\ p.lines = 3 => p.grayin = <<>>

\* ... and neither has the assist.
AssistRests(p) ==
  IF "write_busy" \in p.flags
  THEN /\ p.extlines # 3 /\ ~(p.lines = 0 /\ p.extlines = 0)
       /\ p.extlines \in Bit => p.extlines # Other(p.lines)
  ELSE "assist" \in p.mode /\ "read_byte" \notin p.flags =>
         p.lines = IF p.extlines \in Bit THEN Other(p.extlines) ELSE 0

LEMMA GrayCases ==
  ASSUME NEW p \in Ports
  PROVE  \/ gray_turn(p) = p /\ p.linkemu # "gray"
         \/ gray_turn(p) = p /\ p.linkemu = "gray" /\ p.grayoutbits = 0 /\ Len(p.grayin) = NBits
         \/ gray_turn(p) = graylink_update_write(p) /\ p.linkemu = "gray" /\ p.grayoutbits > 0
         \/ /\ gray_turn(p) = graylink_update_read(p) /\ p.linkemu = "gray"
            /\ p.grayoutbits = 0 /\ Len(p.grayin) # NBits
BY PortTypes DEF gray_turn

LEMMA GraySettles ==
  ASSUME NEW p \in Ports
  PROVE  GrayRests(gray_turn(p))
<1> DEFINE q == gray_turn(p)
           w == graylink_update_write(p)
           r == graylink_update_read(p)
<1> USE PortTypes
<1>1. ASSUME p.grayoutbits > 0 PROVE GrayRests(w)
  <2>0. /\ p.grayoutbits > 1 => p.grayout # <<>> /\ Head(p.grayout) \in Bit
        /\ p.grayin = <<>> /\ Len(<<>>) = 0
    BY <1>1 DEF Fits
  <2>1. CASE p.lines = 0 /\ p.extlines = 0 /\ p.grayoutbits > 1
    <3>1. w.lines = 0 /\ w.extlines = Head(p.grayout) /\ w.grayoutbits = p.grayoutbits - 1
      BY <2>0, <2>1, GrayWrite DEF GrayDid
    <3>2. w.grayoutbits > 0 /\ w.lines # 3 /\ w.lines \notin Bit /\ w.extlines # 0
      BY <2>0, <2>1, <3>1
    <3>3. QED
      BY <3>2 DEF GrayRests
  <2>2. CASE p.lines = 0 /\ p.extlines = 0 /\ p.grayoutbits <= 1
    <3>1. w.lines = 0 /\ w.extlines = 0 /\ w.grayoutbits = 0
      BY <2>0, <2>2, GrayWrite DEF GrayDid
    <3>2. ~(w.grayoutbits > 0) /\ w.lines # 3 /\ w.lines \notin Bit
      BY <3>1
    <3>3. QED
      BY <3>1, <3>2 DEF GrayRests
  <2>3. CASE p.lines \in Bit /\ p.extlines = Other(p.lines)
    <3>1. w.lines = p.lines /\ w.extlines = 0 /\ w.grayoutbits = p.grayoutbits
      BY <2>0, <2>3, GrayWrite DEF GrayDid
    <3>2. w.grayoutbits > 0 /\ w.lines # 3 /\ w.lines # 0 /\ w.extlines # Other(w.lines)
      BY <1>1, <2>3, <3>1, OtherBit
    <3>3. QED
      BY <3>2 DEF GrayRests
  <2>4. CASE p.lines = 3
    <3>1. w.lines = 3 /\ w.extlines = 0 /\ w.grayoutbits = 0 /\ w.grayin = <<>>
      BY <2>0, <2>4, GrayWrite DEF GrayDid
    <3>2. ~(w.grayoutbits > 0) /\ w.lines \notin Bit
      BY <3>1
    <3>3. QED
      BY <3>1, <3>2 DEF GrayRests
  <2>5. CASE \/ p.lines = 0 /\ p.extlines # 0
             \/ p.lines \in Bit /\ p.extlines # Other(p.lines)
    <3>1. w = p
      <4> HIDE DEF w
      <4>1. QED
        BY <2>0, <2>5, GrayWrite DEF w
    <3>2. p.lines # 3 /\ ~(p.lines = 0 /\ p.extlines = 0)
      BY <2>5
    <3>3. QED
      BY <1>1, <2>5, <3>1, <3>2 DEF GrayRests
  <2>6. QED
    BY <2>1, <2>2, <2>3, <2>4, <2>5
<1>2. ASSUME p.grayoutbits = 0 PROVE GrayRests(r)
  <2>1. CASE p.lines = 0
    <3>1. r.lines = 0 /\ r.extlines = 0 /\ r.grayoutbits = 0
      BY <1>2, <2>1, GrayRead DEF GrayDid
    <3>2. ~(r.grayoutbits > 0) /\ r.lines # 3 /\ r.lines \notin Bit
      BY <3>1
    <3>3. QED
      BY <3>1, <3>2 DEF GrayRests
  <2>2. CASE p.lines \in Bit
    <3>1. r.lines = p.lines /\ r.extlines = Other(p.lines) /\ r.grayoutbits = 0
      BY <1>2, <2>2, GrayRead DEF GrayDid
    <3>2. ~(r.grayoutbits > 0) /\ r.lines # 3
      BY <2>2, <3>1
    <3>3. QED
      BY <2>2, <3>1, <3>2 DEF GrayRests
  <2>3. CASE p.lines = 3
    <3>1. r.lines = 3 /\ r.extlines = 0 /\ r.grayoutbits = 0 /\ r.grayin = <<>>
      BY <1>2, <2>3, GrayRead DEF GrayDid
    <3>2. ~(r.grayoutbits > 0) /\ r.lines \notin Bit
      BY <3>1
    <3>3. QED
      BY <3>1, <3>2 DEF GrayRests
  <2>4. QED
    BY <2>1, <2>2, <2>3
<1>3. CASE q = p
  <2>1. p.linkemu # "gray" \/ (~(p.grayoutbits > 0) /\ Len(p.grayin) = NBits)
        \/ (q = w /\ p.grayoutbits > 0) \/ (q = r /\ p.grayoutbits = 0)
    BY GrayCases
  <2>2. CASE p.linkemu # "gray" \/ (~(p.grayoutbits > 0) /\ Len(p.grayin) = NBits)
    BY <1>3, <2>2 DEF GrayRests
  <2>3. QED
    BY <1>1, <1>2, <1>3, <2>1, <2>2
<1>4. CASE q # p
  BY <1>1, <1>2, <1>4, GrayCases
<1>5. QED
  BY <1>3, <1>4

\* A turn in which the assist changes no wire leaves both with nothing to do.
LEMMA AssistSettles ==
  ASSUME NEW p \in Ports, GrayRests(p), assist_turn(p).lines = p.lines
  PROVE  GrayRests(assist_turn(p)) /\ AssistRests(assist_turn(p))
<1> DEFINE r == assist_turn(p)
           w == assist_update_write(p)
           d == assist_update_read(p)
<1> USE PortTypes
<1>0. r.lines = p.lines
  OBVIOUS
<1>1. \/ "write_busy" \in p.flags /\ r = w
      \/ "write_busy" \notin p.flags /\ r = d
      \/ r = p /\ "write_busy" \notin p.flags /\ ("assist" \notin p.mode \/ "read_byte" \in p.flags)
  BY DEF assist_turn
<1>2. SUFFICES GrayRests(r) /\ AssistRests(r)
  OBVIOUS
<1> HIDE DEF r
<1>3. ASSUME NEW l, NEW flags, NEW in, NEW out, AssistDid(r, p, l, flags, in, out)
      PROVE  GrayRests(r) /\ r.lines = l /\ r.flags = flags /\ r.extlines = p.extlines
  BY <1>0, <1>3 DEF AssistDid, GrayRests
<1>4. CASE "write_busy" \in p.flags /\ r = w
  <2>1. CASE p.extlines = 0 /\ p.lines = 0 /\ p.out # <<>>
    <3>1. r.lines = Head(p.out) /\ Head(p.out) \in Bit
      <4>1. AssistDid(r, p, Head(p.out), p.flags, p.in, Tail(p.out))
        BY <1>4, <2>1, AssistWrite
      <4>2. Head(p.out) \in Bit
        BY <2>1
      <4>3. QED
        BY <1>3, <4>1, <4>2
    <3>2. QED
      BY <1>0, <2>1, <3>1
  <2>2. CASE p.extlines = 0 /\ p.lines = 0 /\ p.out = <<>>
    <3> DEFINE flags == p.flags \ {"write_busy"}
    <3>1. AssistDid(r, p, 0, flags, p.in, p.out) /\ "write_busy" \notin flags
      BY <1>4, <2>2, AssistWrite
    <3> HIDE DEF flags
    <3>2. GrayRests(r) /\ r.lines = 0 /\ r.flags = flags /\ r.extlines = 0
      BY <1>3, <2>2, <3>1
    <3>3. QED
      BY <3>1, <3>2 DEF AssistRests
  <2>3. CASE p.extlines \in Bit /\ p.extlines = Other(p.lines)
    <3>1. r.lines = 0 /\ p.lines # 0
      <4>1. Other(0) = 3
        BY DEF Other
      <4>2. AssistDid(r, p, 0, p.flags, p.in, p.out)
        BY <1>4, <2>3, AssistWrite
      <4>3. QED
        BY <1>3, <2>3, <4>1, <4>2
    <3>2. QED
      BY <1>0, <3>1
  <2>4. CASE p.extlines = 3
    <3> DEFINE flags == (p.flags \ {"write_busy"}) \cup {"write_error"}
    <3>1. AssistDid(r, p, 0, flags, p.in, p.out) /\ "write_busy" \notin flags
      BY <1>4, <2>4, AssistWrite
    <3> HIDE DEF flags
    <3>2. GrayRests(r) /\ r.lines = 0 /\ r.flags = flags /\ r.extlines = 3
      BY <1>3, <2>4, <3>1
    <3>3. QED
      BY <3>1, <3>2 DEF AssistRests
  <2>5. CASE \/ p.extlines = 0 /\ p.lines # 0
             \/ p.extlines \in Bit /\ p.extlines # Other(p.lines)
    <3>1. r = p
      BY <1>4, <2>5, AssistWrite
    <3>2. QED
      BY <1>4, <2>5, <3>1 DEF AssistRests
  <2>6. QED
    BY <2>1, <2>2, <2>3, <2>4, <2>5
<1>5. CASE "write_busy" \notin p.flags /\ r = d
  <2>1. CASE p.extlines = 0
    <3> DEFINE in == WithBit(p.in, p.lines)
               flags == IF Len(in) >= NBits
                        THEN (p.flags \ {"read_busy"}) \cup {"read_byte"} ELSE p.flags
    <3>1. AssistDid(r, p, 0, flags, in, p.out) /\ "write_busy" \notin flags
      <4>1. AssistDid(r, p, 0, flags, in, p.out)
        BY <1>5, <2>1, AssistRead
      <4>2. "write_busy" \notin flags
        BY <1>5
      <4>3. QED
        BY <4>1, <4>2
    <3> HIDE DEF in, flags
    <3>2. GrayRests(r) /\ r.lines = 0 /\ r.flags = flags /\ r.extlines = 0
      BY <1>3, <2>1, <3>1
    <3>3. QED
      BY <3>1, <3>2 DEF AssistRests
  <2>2. CASE p.extlines \in Bit
    <3> DEFINE flags == p.flags \cup {"read_busy"}
    <3>1. AssistDid(r, p, Other(p.extlines), flags, p.in, p.out) /\ "write_busy" \notin flags
      BY <1>5, <2>2, AssistRead
    <3> HIDE DEF flags
    <3>2. GrayRests(r) /\ r.lines = Other(p.extlines) /\ r.flags = flags /\ r.extlines = p.extlines
      BY <1>3, <3>1
    <3>3. QED
      BY <2>2, <3>1, <3>2 DEF AssistRests
  <2>3. CASE p.extlines = 3
    <3> DEFINE flags == (p.flags \ {"read_busy"}) \cup {"read_error"}
    <3>1. AssistDid(r, p, 0, flags, p.in, p.out) /\ "write_busy" \notin flags
      BY <1>5, <2>3, AssistRead
    <3> HIDE DEF flags
    <3>2. GrayRests(r) /\ r.lines = 0 /\ r.flags = flags /\ r.extlines = 3
      BY <1>3, <2>3, <3>1
    <3>3. QED
      BY <3>1, <3>2 DEF AssistRests
  <2>4. QED
    BY <2>1, <2>2, <2>3
<1>6. CASE r = p /\ "write_busy" \notin p.flags /\ ("assist" \notin p.mode \/ "read_byte" \in p.flags)
  BY <1>6 DEF AssistRests
<1>7. QED
  BY <1>1, <1>4, <1>5, <1>6

\* Then one more turn changes nothing of the wires.
LEMMA GrayStays ==
  ASSUME NEW p \in Ports, GrayRests(p), AssistRests(p)
  PROVE  Wires(gray_turn(p)) = Wires(p) /\ AssistRests(gray_turn(p))
<1> DEFINE q == gray_turn(p)
           w == graylink_update_write(p)
           r == graylink_update_read(p)
<1> USE PortTypes
<1>1. SUFFICES ASSUME q # p PROVE Wires(q) = Wires(p) /\ AssistRests(q)
  BY Zenon
<1>2. \/ q = w /\ p.linkemu = "gray" /\ p.grayoutbits > 0
      \/ /\ q = r /\ p.linkemu = "gray" /\ p.grayoutbits = 0 /\ ~(p.grayoutbits > 0)
         /\ Len(p.grayin) # NBits
  BY <1>1, GrayCases
<1> HIDE DEF q
<1>3. CASE q = w /\ p.linkemu = "gray" /\ p.grayoutbits > 0
  <2>0. p.grayoutbits > 1 => p.grayout # <<>>
    BY DEF Fits
  <2>1. \/ p.lines = 0 /\ p.extlines # 0
        \/ p.lines \in Bit /\ p.extlines # Other(p.lines)
    BY <1>3 DEF GrayRests
  <2>2. w = p
    <3> HIDE DEF w
    <3>1. QED
      BY <2>0, <2>1, GrayWrite DEF w
  <2>3. QED
    BY <1>1, <1>3, <2>2
<1>4. CASE /\ q = r /\ p.linkemu = "gray" /\ p.grayoutbits = 0 /\ ~(p.grayoutbits > 0)
           /\ Len(p.grayin) # NBits
  <2>1. /\ p.extlines = IF p.lines \in Bit THEN Other(p.lines) ELSE 0
        /\ p.lines = 3 => p.grayin = <<>>
    BY <1>4 DEF GrayRests
  <2>2. \E failed : GrayDid(q, p, p.extlines, p.grayin, p.grayout, p.grayoutbits, failed)
    <3>1. CASE p.lines = 0
      <4>1. p.extlines = 0 /\ WithBit(p.grayin, p.extlines) = p.grayin
        BY <2>1, <3>1 DEF WithBit
      <4>2. QED
        BY <1>4, <3>1, <4>1, GrayRead
    <3>2. CASE p.lines \in Bit
      BY <1>4, <2>1, <3>2, GrayRead
    <3>3. CASE p.lines = 3
      BY <1>4, <2>1, <3>3, GrayRead
    <3>4. QED
      BY <3>1, <3>2, <3>3
  <2>3. QED
    BY <2>2 DEF GrayDid, Wires, AssistRests
<1>5. QED
  BY <1>2, <1>3, <1>4

LEMMA AssistStays ==
  ASSUME NEW p \in Ports, AssistRests(p)
  PROVE  Wires(assist_turn(p)) = Wires(p)
<1> DEFINE r == assist_turn(p)
           w == assist_update_write(p)
           d == assist_update_read(p)
<1> USE PortTypes
<1>1. SUFFICES ASSUME r # p PROVE Wires(r) = Wires(p)
  BY Zenon
<1>2. \/ "write_busy" \in p.flags /\ r = w
      \/ "write_busy" \notin p.flags /\ "assist" \in p.mode /\ "read_byte" \notin p.flags /\ r = d
  BY <1>1 DEF assist_turn
<1> HIDE DEF r
<1>3. CASE "write_busy" \in p.flags /\ r = w
  <2>1. \/ p.extlines = 0 /\ p.lines # 0
        \/ p.extlines \in Bit /\ p.extlines # Other(p.lines)
    BY <1>3 DEF AssistRests
  <2>2. QED
    BY <1>1, <1>3, <2>1, AssistWrite
<1>4. CASE "write_busy" \notin p.flags /\ "assist" \in p.mode /\ "read_byte" \notin p.flags /\ r = d
  <2>1. p.lines = IF p.extlines \in Bit THEN Other(p.extlines) ELSE 0
    BY <1>4 DEF AssistRests
  <2>2. \E flags : AssistDid(r, p, p.lines, flags, p.in, p.out)
    <3>1. CASE p.extlines = 0
      <4>1. p.lines = 0 /\ WithBit(p.in, p.lines) = p.in
        BY <2>1, <3>1 DEF WithBit
      <4>2. QED
        BY <1>4, <3>1, <4>1, AssistRead
    <3>2. CASE p.extlines \in Bit
      BY <1>4, <2>1, <3>2, AssistRead
    <3>3. CASE p.extlines = 3
      BY <1>4, <2>1, <3>3, AssistRead
    <3>4. QED
      BY <3>1, <3>2, <3>3
  <2>3. QED
    BY <2>2 DEF AssistDid, Wires
<1>5. QED
  BY <1>2, <1>3, <1>4

LEMMA UpdateSettles ==
  ASSUME NEW p \in Ports
  PROVE  GrayRests(dbus_update(p)) /\ AssistRests(dbus_update(p))
<1> DEFINE s(n) == turns(p)[n]
           T == {n \in Nat : n <= MaxTurns /\ ~s(n).on =>
                               GrayRests(s(n).port) /\ AssistRests(s(n).port)}
<1>1. /\ \A n \in 0 .. MaxTurns : s(n).port \in Ports /\ s(n).on \in BOOLEAN
      /\ s(0) = [port |-> p, on |-> TRUE]
      /\ \A n \in 1 .. MaxTurns : s(n) = turn(s(n - 1))
  BY TurnTypes, TurnsAre, ZenonT(60)
<1>2. MaxTurns \in Nat
  BY BitsInByte
<1>0. ~s(MaxTurns).on
  BY LoopEnds
<1> HIDE DEF s
<1>3. 0 \in T
  BY <1>1
<1>4. ASSUME NEW n \in Nat, n \in T PROVE n + 1 \in T
  <2> SUFFICES ASSUME n + 1 <= MaxTurns, ~s(n + 1).on
               PROVE  GrayRests(s(n + 1).port) /\ AssistRests(s(n + 1).port)
    OBVIOUS
  <2>1. n \in 0 .. MaxTurns /\ n + 1 \in 1 .. MaxTurns /\ n + 1 \in 0 .. MaxTurns /\ (n + 1) - 1 = n
    BY <1>2
  <2>2. s(n + 1) = turn(s(n)) /\ s(n).port \in Ports
    BY <1>1, <2>1
  <2> DEFINE q == gray_turn(s(n).port)
  <2>3. CASE s(n).on
    <3>1. s(n + 1).port = assist_turn(q) /\ assist_turn(q).lines = q.lines
      <4> DEFINE a == assist_turn(q)
      <4>1. s(n + 1) = [port |-> a, on |-> a.lines # q.lines]
        BY <2>2, <2>3 DEF turn
      <4>2. a.lines # q.lines => (a.lines # q.lines) = TRUE
        OBVIOUS
      <4> HIDE DEF a, q
      <4>4. a.lines # q.lines => s(n + 1) = [port |-> a, on |-> TRUE]
        BY <4>1, <4>2, Zenon
      <4>5. s(n + 1).port = a /\ a.lines = q.lines
        BY <4>1, <4>4
      <4>3. QED
        BY <4>5 DEF a, q
    <3>2. q \in Ports /\ GrayRests(q)
      BY <2>2, TurnTypes, GraySettles
    <3> HIDE DEF q
    <3>3. QED
      BY <3>1, <3>2, AssistSettles
  <2>4. CASE ~s(n).on
    <3>1. s(n + 1) = s(n)
      BY <2>2, <2>4 DEF turn
    <3>2. QED
      BY <1>4, <2>1, <2>4, <3>1
  <2>5. QED
    BY <2>3, <2>4
<1>5. \A n \in Nat : n \in T
  <2> HIDE DEF T
  <2>1. QED
    BY <1>3, <1>4, CountUp
<1>6. settle(p) \in Ports /\ GrayRests(settle(p)) /\ AssistRests(settle(p))
  <2>1. MaxTurns \in T /\ MaxTurns \in 0 .. MaxTurns
    BY <1>2, <1>5
  <2>2. QED
    BY <1>0, <1>1, <1>2, <2>1 DEF settle, s
<1>7. Like(dbus_update(p), settle(p), settle(p).lines, settle(p).extlines)
  BY <1>6, Announces DEF dbus_update, Ports
<1>8. QED
  BY <1>6, <1>7 DEF Like, GrayRests, AssistRests

\* Looking at settled wires changes none.
LEMMA UpdateStays ==
  ASSUME NEW p \in Ports, GrayRests(p), AssistRests(p)
  PROVE  Wires(dbus_update(p)) = Wires(p)
<1> DEFINE s(n) == turns(p)[n]
           r == assist_turn(gray_turn(p))
           T == {n \in Nat : n + 1 <= MaxTurns => s(n + 1) = [port |-> r, on |-> FALSE]}
<1>1. /\ s(0) = [port |-> p, on |-> TRUE]
      /\ \A n \in 1 .. MaxTurns : s(n) = turn(s(n - 1))
  BY TurnTypes, TurnsAre
<1>2. MaxTurns \in Nat /\ MaxTurns > 0
  BY BitsInByte
<1>3. r \in Ports /\ Wires(r) = Wires(p) /\ r.lines = gray_turn(p).lines
  <2>1. gray_turn(p) \in Ports /\ r \in Ports
    BY TurnTypes
  <2>2. Wires(r) = Wires(gray_turn(p)) /\ Wires(gray_turn(p)) = Wires(p)
    BY <2>1, GrayStays, AssistStays
  <2>3. r.lines = gray_turn(p).lines
    <3> DEFINE q == gray_turn(p)
    <3>1. Wires(r) = Wires(q)
      BY <2>2
    <3> HIDE DEF q, r
    <3>2. r.lines = q.lines
      BY <3>1 DEF Wires
    <3>3. QED
      BY <3>2 DEF q
  <2>4. QED
    BY <2>1, <2>2, <2>3
<1>4. turn([port |-> p, on |-> TRUE]) = [port |-> r, on |-> FALSE]
  BY <1>3 DEF turn
<1> HIDE DEF s, r
<1>5. 0 \in T
  <2>1. 1 \in 1 .. MaxTurns /\ 1 - 1 = 0 /\ 0 + 1 = 1
    BY <1>2
  <2>2. QED
    BY <1>1, <1>4, <2>1
<1>6. ASSUME NEW n \in Nat, n \in T PROVE n + 1 \in T
  <2> SUFFICES ASSUME (n + 1) + 1 <= MaxTurns PROVE s((n + 1) + 1) = [port |-> r, on |-> FALSE]
    OBVIOUS
  <2>1. n + 1 <= MaxTurns /\ (n + 1) + 1 \in 1 .. MaxTurns /\ ((n + 1) + 1) - 1 = n + 1
    BY <1>2
  <2>2. s((n + 1) + 1) = turn(s(n + 1)) /\ s(n + 1) = [port |-> r, on |-> FALSE]
    BY <1>1, <1>6, <2>1
  <2>3. QED
    BY <2>2 DEF turn
<1>7. \A n \in Nat : n \in T
  <2> HIDE DEF T
  <2>1. QED
    BY <1>5, <1>6, CountUp
<1>8. settle(p) = r
  <2>1. MaxTurns - 1 \in T /\ (MaxTurns - 1) + 1 = MaxTurns
    BY <1>2, <1>7
  <2>2. s(MaxTurns) = [port |-> r, on |-> FALSE]
    BY <1>2, <2>1
  <2>3. QED
    BY <2>2 DEF settle, s
<1>9. Like(dbus_update(p), r, r.lines, r.extlines)
  BY <1>3, <1>8, Announces DEF dbus_update, Ports
<1>10. Wires(dbus_update(p)) = Wires(r)
  BY <1>9 DEF Like, Wires
<1>11. QED
  BY <1>3, <1>10

LEMMA LookTwice ==
  ASSUME NEW p \in Ports
  PROVE  Wires(dbus_update(dbus_update(p))) = Wires(dbus_update(p))
BY UpdateTypes, UpdateSettles, UpdateStays

-----------------------------------------------------------------------------
(* What the functions leave, before the wires are looked at *)

LEMMA ByteIs == \A byte \in Byte : /\ byte \in Seq(Bit) /\ Len(byte) = NBits
                                   /\ FirstBits(byte, byte, NBits) /\ LastBits(byte, byte, NBits)
<1> SUFFICES ASSUME NEW byte \in Byte
             PROVE  /\ byte \in Seq(Bit) /\ Len(byte) = NBits
                    /\ FirstBits(byte, byte, NBits) /\ LastBits(byte, byte, NBits)
  OBVIOUS
<1>1. byte \in Seq(Bit) /\ Len(byte) = NBits /\ NBits \in Nat
  BY BitsInByte DEF Byte
<1>2. \A i \in 1 .. NBits : NBits - NBits + i = i
  BY <1>1
<1>3. QED
  BY <1>1, <1>2 DEF FirstBits, LastBits

LEMMA QuietRests ==
  ASSUME NEW p \in Ports, NEW bs, NEW to, NEW from, NEW z, Quiet(p), z = z80,
         Underway(p, z, bs, to, from)
  PROVE  Resting(p, z, bs) /\ to = <<>> /\ from = <<>> /\ Received(p) = <<>> /\ GrayReceived(p) = <<>>
<1> USE PortTypes
<1>1. p.grayoutbits = 0 /\ z = "idle" /\ "write_busy" \notin p.flags
  BY DEF Quiet
<1>2. \A c \in Byte, k \in 0 .. NBits : ~Coming(p, z, bs, c, k) /\ ~Going(p, z, bs, c, k)
  BY <1>1 DEF Coming, Going
<1>3. Resting(p, z, bs) /\ to = Received(p) /\ from = GrayReceived(p)
  BY <1>2 DEF Underway
<1>4. Len(<<>>) = 0
  OBVIOUS
<1>5. Received(p) = <<>> /\ GrayReceived(p) = <<>>
  BY <1>4 DEF Received, GrayReceived, Quiet
<1>6. QED
  BY <1>3, <1>5

\* Set free, the calculator's side of a port at rest is at rest again.
LEMMA QuietIs ==
  ASSUME NEW p \in Ports, p.lines = 0, p.extlines = 0, p.in = <<>>, p.grayin = <<>>,
         p.grayoutbits = 0, p.flags \cap {"write_busy", "read_byte"} = {}, ~Failed(p)
  PROVE  PortSound(p) /\ Underway(p, "idle", <<>>, <<>>, <<>>)
<1> USE PortTypes
<1>1. Len(<<>>) = 0
  OBVIOUS
<1>2. Received(p) = <<>> /\ GrayReceived(p) = <<>>
  BY <1>1 DEF Received, GrayReceived
<1>3. Resting(p, "idle", <<>>)
  BY DEF Resting, Free
<1>4. QED
  BY <1>2, <1>3 DEF PortSound, Underway

\* Setting the wires
LEMMA LinesTypes ==
  ASSUME NEW p \in Ports, NEW l \in 0 .. 3
  PROVE  /\ dbus_set_lines(p, l) \in Ports /\ dbus_set_extlines(p, l) \in Ports
         /\ Like(dbus_set_lines(p, l), p, l, p.extlines)
         /\ Like(dbus_set_extlines(p, l), p, p.lines, l)
BY WiresSet, LikeFits DEF Ports

-----------------------------------------------------------------------------
(* The steps *)

LEMMA Leaves ==
  ASSUME NEW p, NEW to, NEW from, NEW if, Leave(p, to, from, if),
         disturbed \in Nat, disturbed > 0 => due = <<>> /\ owed = <<>>
  PROVE  /\ lp' = p /\ disturbed' \in Nat
         /\ disturbed' > 0 => due' = <<>> /\ owed' = <<>>
         /\ disturbed' = 0 => disturbed = 0 /\ ~if /\ ~Failed(p) /\ due' = to /\ owed' = from
<1>1. MaxDisturbed \in Nat /\ MaxDisturbed > 0
  BY LinkConstants
<1>2. CASE disturbed > 0
  <2> DEFINE M == Min({disturbed + 1, MaxDisturbed})
  <2>1. \E x \in {disturbed + 1, MaxDisturbed} : \A y \in {disturbed + 1, MaxDisturbed} : x <= y
    BY <1>1
  <2>2. M \in {disturbed + 1, MaxDisturbed}
    BY <2>1 DEF Min
  <2>3. disturbed' = M
    BY <1>2 DEF Leave
  <2> HIDE DEF M
  <2>4. disturbed' \in Nat /\ disturbed' > 0
    BY <1>1, <2>2, <2>3
  <2>5. QED
    BY <2>4 DEF Leave
<1>3. CASE disturbed = 0
  BY <1>3 DEF Leave
<1>4. QED
  BY <1>2, <1>3

\* Looking at the wires once more changes none, or the step changed none.
Looks == Wires(dbus_update(lp')) = Wires(lp') \/ Wires(lp') = Wires(lp)

LEMMA Looking ==
  ASSUME NEW p \in Ports, lp' = dbus_update(p)
  PROVE  Looks
BY LookTwice DEF Looks

PeerTypes == peer \in {"idle", "send", "sent", "get"}
Z80Types == z80 \in {"idle", "low", "high", "receive", "ack"}

LEMMA Keeping ==
  ASSUME LInv, NEW p \in Ports, NEW to, NEW from, NEW if, Leave(p, to, from, if),
         BitsFit', PeerTypes', Z80Types', ~amiss',
         disturbed = 0 /\ ~if /\ ~Failed(p) => PortSound(p) /\ Underway(p, z80', bits', to, from)
  PROVE  LInv'
<1>1. /\ lp' = p /\ disturbed' \in Nat
      /\ disturbed' > 0 => due' = <<>> /\ owed' = <<>>
      /\ disturbed' = 0 => disturbed = 0 /\ ~if /\ ~Failed(p) /\ due' = to /\ owed' = from
  <2>1. disturbed \in Nat /\ (disturbed > 0 => due = <<>> /\ owed = <<>>)
    BY DEF LInv
  <2>2. QED
    BY <2>1, Leaves
<1>2. CASE disturbed' = 0
  <2>1. PortSound(lp)' /\ Underway(lp, z80, bits, due, owed)'
    BY <1>1, <1>2
  <2>2. QED
    BY <1>1, <1>2, <2>1 DEF LInv, Ports, PeerTypes, Z80Types
<1>3. CASE disturbed' # 0
  BY <1>1, <1>3 DEF LInv, Ports, PeerTypes, Z80Types
<1>4. QED
  BY <1>2, <1>3

\* Nothing of the port changes that tells what is under way.
LEMMA KeepingAlike ==
  ASSUME LInv, NEW p \in Ports, PortsAlike(p, lp), Keep(p), PeerTypes', UNCHANGED <<z80, bits>>
  PROVE  LInv'
<1>1. disturbed = 0 => PortSound(p) /\ Underway(p, z80, bits, due, owed)
  BY PortsAlikeKeep DEF LInv
<1>2. BitsFit' /\ Z80Types' /\ ~amiss'
  BY DEF LInv, BitsFit, Z80Types, Keep
<1>3. QED
  BY <1>1, <1>2, Keeping DEF Keep

LEMMA InitHolds == LinkInit => LInv
<1> SUFFICES ASSUME LinkInit PROVE LInv
  OBVIOUS
<1>1. PICK emu \in {"none", "black"} : lp = NewPort(emu)
  BY DEF LinkInit
<1>2. Len(<<>>) = 0 /\ <<>> \in Seq(Bit) /\ NBits \in Nat /\ NBits > 0
  BY BitsInByte
<1>3. lp \in Ports
  BY <1>1, <1>2 DEF NewPort, Ports, Port, Fits
<1>4. PortSound(lp) /\ Underway(lp, "idle", <<>>, <<>>, <<>>)
  BY <1>1, <1>3, QuietIs DEF NewPort, Failed
<1>5. QED
  BY <1>2, <1>3, <1>4 DEF LinkInit, LInv, BitsFit, Ports

LEMMA StateTypes ==
  ASSUME LInv
  PROVE  /\ lp \in Ports /\ bits \in Seq(Bit) /\ ~amiss
         /\ disturbed = 0 => PortSound(lp) /\ Underway(lp, z80, bits, due, owed)
         /\ BitsFit /\ PeerTypes /\ Z80Types
         /\ ~(disturbed = 0) => due = <<>> /\ owed = <<>>
BY DEF LInv, Ports, BitsFit, PeerTypes, Z80Types

\* Nothing of the Z80's program changes.
LEMMA SameProgram ==
  ASSUME LInv, UNCHANGED <<z80, bits>>
  PROVE  BitsFit' /\ Z80Types'
BY DEF LInv, BitsFit, Z80Types

LEMMA TimerHolds == ASSUME LInv, timer_expires PROVE LInv'
<1> USE StateTypes
<1> DEFINE p == assist_timer(lp)
           e == [lp EXCEPT !.timer = FALSE]
           f(was, error) == [e EXCEPT !.flags = (@ \ {was}) \cup {error}]
<1>1. Keep(p) /\ UNCHANGED <<peer, z80, bits>> /\ PeerTypes'
  BY DEF timer_expires, PeerTypes
<1>2. e \in Ports /\ PortsAlike(e, lp)
  BY DEF Ports, Port, Fits, PortsAlike
<1>3. ASSUME NEW was \in {"write_busy", "read_busy"}, NEW error \in {"write_error", "read_error"}
      PROVE  LET q == dbus_interrupt(f(was, error), "error", "int_error") IN q \in Ports /\ Failed(q)
  <2> DEFINE g == f(was, error)
             q == dbus_interrupt(g, "error", "int_error")
  <2>1. g \in Ports /\ error \in g.flags
    BY <1>2 DEF Ports, Port, Fits, AssistFlag
  <2> HIDE DEF g
  <2>2. Like(q, g, g.lines, g.extlines)
    BY <2>1, WiresSet DEF Ports
  <2>3. q \in Ports /\ error \in q.flags
    BY <2>1, <2>2, LikeFits DEF Like
  <2>4. error \in q.flags \cap {"read_error", "write_error"}
    BY <2>3
  <2> HIDE DEF q
  <2>5. q.flags \cap {"read_error", "write_error"} # {}
    BY <2>4
  <2>6. Failed(q)
    BY <2>5, Zenon DEF Failed
  <2>7. q \in Ports
    BY <2>3
  <2>8. QED
    BY <2>6, <2>7 DEF q, g
<1>4. CASE lp.flags \cap {"write_busy", "read_busy"} = {}
  <2>1. p = e
    BY <1>4 DEF assist_timer
  <2>2. QED
    BY <1>1, <1>2, <2>1, KeepingAlike
<1>5. CASE lp.flags \cap {"write_busy", "read_busy"} # {}
  <2>1. p \in Ports /\ Failed(p)
    <3>1. CASE "write_busy" \in lp.flags
      <4>1. p = dbus_interrupt(f("write_busy", "write_error"), "error", "int_error")
        BY <3>1 DEF assist_timer
      <4>2. QED
        BY <1>3, <4>1
    <3>2. CASE "write_busy" \notin lp.flags
      <4>1. p = dbus_interrupt(f("read_busy", "read_error"), "error", "int_error")
        BY <1>5, <3>2 DEF assist_timer
      <4>2. QED
        BY <1>3, <4>1
    <3>3. QED
      BY <3>1, <3>2
  <2> HIDE DEF p
  <2>2. Leave(p, due, owed, FALSE) /\ ~amiss'
    BY <1>1 DEF Keep
  <2>3. QED
    BY <1>1, <2>1, <2>2, SameProgram, Keeping
<1>6. QED
  BY <1>4, <1>5

LEMMA TwoInLine ==
  ASSUME NEW x, NEW y
  PROVE  LET two == Append(<<x>>, y) IN two # <<>> /\ Head(two) = x /\ Tail(two) = Append(<<>>, y)
<1> DEFINE S == {x, y}
<1>1. <<x>> \in Seq(S) /\ <<x>> # <<>> /\ Head(<<x>>) = x /\ Tail(<<x>>) = <<>> /\ y \in S
  OBVIOUS
<1>2. Append(<<x>>, y) # <<>>
  BY <1>1, AppendProperties
<1>3. Head(Append(<<x>>, y)) = x /\ Tail(Append(<<x>>, y)) = Append(<<>>, y)
  <2> HIDE DEF S
  <2>1. QED
    BY <1>1, HeadTailAppend
<1>4. QED
  BY <1>2, <1>3

LEMMA ReadHolds == ASSUME LInv, z80_read PROVE LInv' /\ Looks
<1> USE StateTypes
<1> DEFINE a == [lp EXCEPT !.flags = @ \ {"read_byte", "read_busy"}, !.in = <<>>]
           p == read_byte(lp)
<1>1. /\ "read_byte" \in lp.flags /\ Arrives(due, lp.in)
      /\ Leave(p, Rest(due), owed, FALSE) /\ UNCHANGED <<peer, z80, bits>> /\ PeerTypes'
  BY DEF z80_read, PeerTypes
<1>2. a \in Ports /\ p = dbus_update(a)
  <2>1. Len(<<>>) = 0 /\ <<>> \in Seq(Bit) /\ NBits > 0 /\ NBits \in Nat
    BY BitsInByte
  <2>2. a \in Port
    BY <2>1 DEF Ports, Port
  <2>3. Fits(a)
    BY <2>1 DEF Ports, Port, Fits
  <2>4. QED
    BY <2>2, <2>3 DEF read_byte, Ports
<1>3. /\ a.lines = lp.lines /\ a.extlines = lp.extlines /\ a.mode = lp.mode
      /\ a.flags = lp.flags \ {"read_byte", "read_busy"} /\ a.in = <<>> /\ a.out = lp.out
      /\ a.grayin = lp.grayin /\ a.grayout = lp.grayout /\ a.grayoutbits = lp.grayoutbits
      /\ a.stops = lp.stops
  BY DEF Ports, Port
<1> HIDE DEF a, p
<1>4. ASSUME disturbed = 0
      PROVE  /\ PortSound(a) /\ Underway(a, z80, bits, Rest(due), owed)
             /\ due # <<>> /\ Head(due) = lp.in
  <2>1. PortSound(lp) /\ Underway(lp, z80, bits, due, owed) /\ "assist" \in lp.mode
    BY <1>1, <1>4 DEF PortSound
  <2>2. PortSound(a)
    BY <1>3, <2>1 DEF PortSound, Failed
  <2>3. /\ Received(lp) = <<lp.in>> /\ Received(a) = <<>> /\ GrayReceived(a) = GrayReceived(lp)
    BY <1>1, <1>3 DEF Received, GrayReceived
  <2>4. Free(lp, z80, bits) => Free(a, z80, bits)
    BY <1>3 DEF Free
  <2>5. CASE Resting(lp, z80, bits) /\ due = Received(lp) /\ owed = GrayReceived(lp)
    <3>1. Resting(a, z80, bits)
      BY <1>3, <2>4, <2>5 DEF Resting
    <3>2. due # <<>> /\ Head(due) = lp.in /\ Rest(due) = <<>>
      BY <2>3, <2>5 DEF Rest
    <3>3. QED
      BY <2>2, <2>3, <2>5, <3>1, <3>2 DEF Underway
  <2>6. ASSUME NEW c \in Byte, NEW k \in 0 .. NBits,
               Coming(lp, z80, bits, c, k), due = Append(Received(lp), c), owed = <<>>
        PROVE  /\ PortSound(a) /\ Underway(a, z80, bits, Rest(due), owed)
               /\ due # <<>> /\ Head(due) = lp.in
    <3>1. Coming(a, z80, bits, c, k)
      BY <1>1, <1>3, <2>1, <2>4, <2>6 DEF Coming, RawPort
    <3>2. due # <<>> /\ Head(due) = lp.in /\ Rest(due) = Append(<<>>, c)
      <4>1. due = Append(<<lp.in>>, c)
        BY <2>3, <2>6
      <4>2. QED
        BY <4>1, TwoInLine DEF Rest
    <3>3. QED
      BY <2>2, <2>3, <2>6, <3>1, <3>2 DEF Underway
  <2>7. ASSUME NEW b \in Byte, NEW k \in 0 .. NBits,
               Going(lp, z80, bits, b, k), due = Received(lp), owed = Append(GrayReceived(lp), b)
        PROVE  /\ PortSound(a) /\ Underway(a, z80, bits, Rest(due), owed)
               /\ due # <<>> /\ Head(due) = lp.in
    <3>1. Going(a, z80, bits, b, k)
      BY <1>1, <1>3, <2>1, <2>7 DEF Going, RawPort
    <3>2. due # <<>> /\ Head(due) = lp.in /\ Rest(due) = <<>>
      BY <2>3, <2>7 DEF Rest
    <3>3. QED
      BY <2>2, <2>3, <2>7, <3>1, <3>2 DEF Underway
  <2>8. QED
    BY <2>1, <2>5, <2>6, <2>7 DEF Underway
<1>5. ~amiss'
  BY <1>1, <1>4 DEF Arrives
<1>6. p \in Ports /\ (disturbed = 0 => PortSound(p) /\ Underway(p, z80, bits, Rest(due), owed))
  BY <1>2, <1>4, UpdateTypes, UpdateKeeps
<1>7. Looks
  BY <1>1, <1>2, Looking DEF Leave
<1>8. QED
  BY <1>7, <1>1, <1>5, <1>6, SameProgram, Keeping

\* A byte is begun: the registers of the assist, and the port, are free.
LEMMA GoingBegins ==
  ASSUME NEW p \in Ports, NEW a \in Ports, NEW byte \in Byte, NEW z, NEW z2, NEW bs, NEW bs2,
         Resting(p, z, bs), PortSound(p), p.grayoutbits = 0,
         a.extlines = 0, a.mode = p.mode, a.in = p.in, a.grayin = p.grayin, a.grayoutbits = 0,
         "error" \in a.stops <=> "error" \in p.stops,
         \/ /\ a.lines = 0 /\ a.flags = p.flags \cup {"write_busy"} /\ a.out = byte
            /\ z2 = "idle" /\ bs2 = <<>>
         \/ /\ a.lines = byte[1] /\ a.flags = p.flags /\ RawPort(p) /\ z2 = "low" /\ bs2 = byte
  PROVE  PortSound(a) /\ Underway(a, z2, bs2, Received(p), Append(GrayReceived(p), byte))
<1> USE PortTypes
<1>1. PortSound(a) /\ Received(a) = Received(p) /\ GrayReceived(a) = GrayReceived(p)
  BY DEF PortSound, Failed, Received, GrayReceived
<1>2. "read_byte" \notin p.flags => p.in = <<>>
  BY DEF Resting, Free
<1>3. FirstBits(p.grayin, byte, 0) \/ Len(p.grayin) = NBits
  <2>1. Len(<<>>) = 0
    OBVIOUS
  <2>2. QED
    BY <2>1 DEF Resting, FirstBits
<1>4. CASE /\ a.lines = 0 /\ a.flags = p.flags \cup {"write_busy"} /\ a.out = byte
           /\ z2 = "idle" /\ bs2 = <<>>
  <2>1. Shake(a.lines, a.extlines, byte, 0) /\ Taken(a.lines, a.extlines, 0) = 0
    BY <1>4 DEF Shake, Taken
  <2>2. LastBits(a.out, byte, NBits - 0) /\ 0 \in 0 .. NBits
    BY <1>4, ByteIs
  <2>3. Going(a, z2, bs2, byte, 0)
    BY <1>2, <1>3, <1>4, <2>1, <2>2 DEF Going
  <2>4. QED
    BY <1>1, <2>2, <2>3 DEF Underway
<1>5. CASE /\ a.lines = byte[1] /\ a.flags = p.flags /\ RawPort(p) /\ z2 = "low" /\ bs2 = byte
  <2>1. byte[1] \in Bit /\ byte[1] # 0 /\ 1 \in 0 .. NBits
    <3>1. 1 \in 1 .. NBits /\ 1 \in 0 .. NBits
      BY BitsInByte
    <3>2. \A i \in 1 .. NBits : byte[i] \in Bit
      BY DEF Byte
    <3>3. QED
      BY <3>1, <3>2, Zenon
  <2>2. Shake(a.lines, a.extlines, byte, 1) /\ Taken(a.lines, a.extlines, 1) = 0
    BY <1>5, <2>1 DEF Shake, Taken
  <2>3. LastBits(bs2, byte, NBits - 1 + 1) /\ RawPort(a)
    BY <1>5, ByteIs DEF RawPort
  <2>4. Going(a, z2, bs2, byte, 1)
    BY <1>2, <1>3, <1>5, <2>1, <2>2, <2>3 DEF Going
  <2>5. QED
    BY <1>1, <2>1, <2>4 DEF Underway
<1>6. QED
  BY <1>4, <1>5

\* The wires of the calculator are set to l.
LEMMA SetsLines ==
  ASSUME NEW p \in Ports, NEW l \in 0 .. 3
  PROVE  LET a == dbus_set_lines(p, l) IN
         /\ a \in Ports /\ Like(a, p, l, p.extlines)
         /\ PortSound(p) => PortSound(a)
         /\ Received(a) = Received(p) /\ GrayReceived(a) = GrayReceived(p)
<1> DEFINE a == dbus_set_lines(p, l)
<1>1. a \in Ports /\ Like(a, p, l, p.extlines)
  BY LinesTypes
<1> HIDE DEF a
<1>2. /\ PortSound(p) => PortSound(a)
      /\ Received(a) = Received(p) /\ GrayReceived(a) = GrayReceived(p)
  BY <1>1 DEF Like, PortSound, Failed, Received, GrayReceived
<1>3. QED
  BY <1>1, <1>2 DEF a

LEMMA WriteHolds == ASSUME LInv, NEW byte \in Byte, z80_write(byte) PROVE LInv' /\ Looks
<1> USE StateTypes
<1> DEFINE p == write_byte(lp, byte)
           b == dbus_set_lines(lp, 0)
           a == [b EXCEPT !.out = byte, !.flags = @ \cup {"write_busy"}]
<1>1. z80 = "idle" /\ UNCHANGED <<peer, z80, bits, amiss>> /\ PeerTypes' /\ ~amiss'
  BY DEF z80_write, PeerTypes
<1>2. CASE lp.flags \cap {"read_busy", "write_busy"} # {}
  <2>1. p = lp /\ Leave(lp, due, owed, FALSE)
    BY <1>2 DEF z80_write, write_byte
  <2>2. PortsAlike(lp, lp)
    BY DEF PortsAlike
  <2>3. Looks
    BY <2>1 DEF Leave, Looks
  <2>4. QED
    BY <1>1, <2>1, <2>2, <2>3, KeepingAlike DEF Keep
<1>3. CASE lp.flags \cap {"read_busy", "write_busy"} = {}
  <2>1. p = dbus_update(a) /\ Leave(p, due, Append(owed, byte), lp.grayoutbits > 0)
    BY <1>3 DEF z80_write, write_byte
  <2>2. b \in Ports /\ Like(b, lp, 0, lp.extlines)
    BY SetsLines
  <2> HIDE DEF b
  <2>3. a \in Ports
    <3>1. byte \in Seq(Bit) /\ Len(byte) = NBits /\ NBits \in Nat
      BY ByteIs, BitsInByte
    <3>2. a \in Port
      BY <2>2, <3>1 DEF Ports, Port, AssistFlag
    <3>3. Fits(a)
      BY <2>2, <3>1 DEF Ports, Port, Fits
    <3>4. QED
      BY <3>2, <3>3 DEF Ports
  <2>4. /\ a.lines = 0 /\ a.extlines = lp.extlines /\ a.mode = lp.mode
        /\ a.flags = lp.flags \cup {"write_busy"} /\ a.in = lp.in /\ a.out = byte
        /\ a.grayin = lp.grayin /\ a.grayoutbits = lp.grayoutbits
        /\ "error" \in a.stops <=> "error" \in lp.stops
    <3>1. b \in Port
      BY <2>2 DEF Like
    <3>2. /\ a.lines = b.lines /\ a.extlines = b.extlines /\ a.mode = b.mode
          /\ a.flags = b.flags \cup {"write_busy"} /\ a.in = b.in /\ a.out = byte
          /\ a.grayin = b.grayin /\ a.grayoutbits = b.grayoutbits /\ a.stops = b.stops
      BY <3>1 DEF Port
    <3>3. QED
      BY <2>2, <3>2 DEF Like
  <2> HIDE DEF a, p
  <2>5. ASSUME disturbed = 0, ~(lp.grayoutbits > 0)
        PROVE  PortSound(a) /\ Underway(a, z80, bits, due, Append(owed, byte))
    <3>0. lp.grayoutbits = 0
      BY <2>5, PortTypes
    <3>1. \A c \in Byte, k \in 0 .. NBits : ~Coming(lp, z80, bits, c, k) /\ ~Going(lp, z80, bits, c, k)
      BY <1>1, <1>3, <3>0, BitsInByte DEF Coming, Going
    <3>2. /\ Resting(lp, z80, bits) /\ PortSound(lp)
          /\ due = Received(lp) /\ owed = GrayReceived(lp)
      BY <2>5, <3>1 DEF Underway
    <3>3. a.extlines = 0 /\ bits = <<>>
      BY <1>1, <2>4, <3>2 DEF Resting, Free
    <3>4. QED
      BY <1>1, <2>3, <2>4, <3>0, <3>2, <3>3, GoingBegins
  <2>6. p \in Ports /\ (disturbed = 0 /\ ~(lp.grayoutbits > 0) =>
                          PortSound(p) /\ Underway(p, z80, bits, due, Append(owed, byte)))
    BY <2>1, <2>3, <2>5, UpdateTypes, UpdateKeeps
  <2>7. Looks
    BY <2>1, <2>3, Looking DEF Leave
  <2>8. QED
    BY <1>1, <2>1, <2>6, <2>7, SameProgram, Keeping
<1>4. QED
  BY <1>2, <1>3

\* The mode is set, or everything reset, while nothing is under way.
LEMMA ModeHolds == ASSUME LInv, NEW mode \in LinkModes, z80_mode(mode) PROVE LInv' /\ Looks
<1> USE StateTypes
<1> DEFINE p == set_link_mode(lp, mode)
           s == dbus_set_lines(lp, 0)
           u == [s EXCEPT !.flags = @ \ {"read_busy", "write_busy"}]
           t == clear_timeout(u)
           q == IF ("assist" \in mode) # ("assist" \in lp.mode) THEN t ELSE lp
           off == (IF "int_active" \in mode THEN {} ELSE {"active"})
                    \cup (IF "int_error" \in mode THEN {} ELSE {"error"})
           a == [q EXCEPT !.interrupts = @ \ off, !.mode = mode]
<1>1. Risk(p, ~Quiet(lp)) /\ UNCHANGED <<peer, z80, bits>> /\ PeerTypes' /\ ~amiss'
  BY DEF z80_mode, PeerTypes, Risk
<1>2. p = dbus_update(a)
  BY DEF set_link_mode
<1>3. /\ q \in Ports /\ q.lines \in {0, lp.lines} /\ q.extlines = lp.extlines
      /\ q.flags \subseteq lp.flags /\ q.in = lp.in /\ q.grayin = lp.grayin
      /\ q.grayoutbits = lp.grayoutbits
      /\ "error" \in q.stops <=> "error" \in lp.stops
  <2>1. s \in Ports /\ Like(s, lp, 0, lp.extlines)
    BY SetsLines
  <2> HIDE DEF s
  <2>2. /\ u \in Ports /\ u.lines = 0 /\ u.extlines = s.extlines
        /\ u.flags = s.flags \ {"read_busy", "write_busy"} /\ u.in = s.in /\ u.grayin = s.grayin
        /\ u.grayoutbits = s.grayoutbits /\ u.stops = s.stops
    BY <2>1 DEF Ports, Port, Fits, Like
  <2> HIDE DEF u
  <2>3. Like(t, u, u.lines, u.extlines)
    BY <2>2, WiresSet DEF Ports
  <2>4. t \in Ports
    BY <2>2, <2>3, LikeFits
  <2> HIDE DEF t
  <2>5. /\ t \in Ports /\ t.lines = 0 /\ t.extlines = lp.extlines
        /\ t.flags \subseteq lp.flags /\ t.in = lp.in /\ t.grayin = lp.grayin
        /\ t.grayoutbits = lp.grayoutbits
        /\ "error" \in t.stops <=> "error" \in lp.stops
    BY <2>1, <2>2, <2>3, <2>4 DEF Like
  <2>6. QED
    BY <2>5
<1> HIDE DEF q
<1>4. /\ a \in Ports /\ a.lines \in {0, lp.lines} /\ a.extlines = lp.extlines
      /\ a.flags \subseteq lp.flags /\ a.in = lp.in /\ a.grayin = lp.grayin
      /\ a.grayoutbits = lp.grayoutbits
      /\ "error" \in a.stops <=> "error" \in lp.stops
  <2>1. a \in Port
    BY <1>3 DEF Ports, Port
  <2>2. Fits(a)
    BY <1>3 DEF Ports, Port, Fits
  <2>3. /\ a.lines = q.lines /\ a.extlines = q.extlines /\ a.flags = q.flags
        /\ a.in = q.in /\ a.grayin = q.grayin /\ a.grayoutbits = q.grayoutbits /\ a.stops = q.stops
    BY <1>3 DEF Ports, Port
  <2> HIDE DEF a
  <2>4. QED
    BY <1>3, <2>1, <2>2, <2>3 DEF Ports
<1> HIDE DEF a, p
<1>5. ASSUME disturbed = 0, Quiet(lp)
      PROVE  PortSound(a) /\ Underway(a, z80, bits, due, owed)
  <2>1. PortSound(lp) /\ due = <<>> /\ owed = <<>>
    BY <1>5, QuietRests
  <2>2. z80 = "idle" /\ bits = <<>>
    BY <1>5 DEF Quiet, BitsFit
  <2>3. /\ a.lines = 0 /\ a.extlines = 0 /\ a.in = <<>> /\ a.grayin = <<>> /\ a.grayoutbits = 0
        /\ a.flags \cap {"write_busy", "read_byte"} = {}
    BY <1>4, <1>5 DEF Quiet
  <2>4. ~Failed(a)
    BY <1>4, <2>1 DEF PortSound, Failed
  <2>5. QED
    BY <1>4, <2>1, <2>2, <2>3, <2>4, QuietIs
<1>6. p \in Ports /\ (disturbed = 0 /\ Quiet(lp) => PortSound(p) /\ Underway(p, z80, bits, due, owed))
  BY <1>2, <1>4, <1>5, UpdateTypes, UpdateKeeps
<1>7. Leave(p, due, owed, ~Quiet(lp))
  BY <1>1 DEF Risk
<1> HIDE DEF Quiet
<1>8. Looks
  BY <1>2, <1>4, <1>7, Looking DEF Leave
<1>9. QED
  BY <1>8, <1>1, <1>6, <1>7, SameProgram, Keeping

LEMMA ResetHolds == ASSUME LInv, z80_reset PROVE LInv'
<1> USE StateTypes
<1> DEFINE p == reset(lp)
           s == dbus_set_lines(lp, 0)
           t == clear_timeout(s)
<1>1. /\ Risk(p, ~Quiet(lp)) /\ z80' = "idle" /\ bits' = <<>> /\ UNCHANGED peer
      /\ PeerTypes' /\ ~amiss'
  BY DEF z80_reset, PeerTypes, Risk
<1>2. s \in Ports /\ Like(s, lp, 0, lp.extlines)
  BY SetsLines
<1>3. p = [t EXCEPT !.mode = {}, !.flags = {}, !.in = <<>>, !.out = <<>>]
  BY DEF reset
<1> HIDE DEF s
<1>4. Like(t, s, s.lines, s.extlines)
  BY <1>2, WiresSet DEF Ports
<1>5. t \in Ports
  BY <1>2, <1>4, LikeFits
<1> HIDE DEF t, p
<1>6. Len(<<>>) = 0 /\ <<>> \in Seq(Bit) /\ NBits > 0 /\ NBits \in Nat
  BY BitsInByte
<1>7. /\ p \in Ports /\ p.lines = t.lines /\ p.extlines = t.extlines /\ p.flags = {}
      /\ p.in = <<>> /\ p.grayin = t.grayin /\ p.grayoutbits = t.grayoutbits /\ p.stops = t.stops
  <2>1. p \in Port
    BY <1>3, <1>5, <1>6 DEF Ports, Port
  <2>2. Fits(p)
    BY <1>3, <1>5, <1>6 DEF Ports, Port, Fits
  <2>3. /\ p.lines = t.lines /\ p.extlines = t.extlines /\ p.flags = {}
        /\ p.in = <<>> /\ p.grayin = t.grayin /\ p.grayoutbits = t.grayoutbits /\ p.stops = t.stops
    BY <1>3, <1>5 DEF Ports, Port
  <2>4. QED
    BY <2>1, <2>2, <2>3 DEF Ports
<1>8. ASSUME disturbed = 0, Quiet(lp)
      PROVE  PortSound(p) /\ Underway(p, "idle", <<>>, due, owed)
  <2>1. PortSound(lp) /\ due = <<>> /\ owed = <<>>
    BY <1>8, QuietRests
  <2>2. p.lines = 0 /\ p.extlines = 0 /\ p.grayin = <<>> /\ p.grayoutbits = 0
    BY <1>2, <1>4, <1>7, <1>8 DEF Quiet, Like
  <2>3. ~Failed(p)
    BY <1>2, <1>4, <1>7, <2>1 DEF PortSound, Failed, Like
  <2>4. QED
    BY <1>7, <2>1, <2>2, <2>3, QuietIs
<1>9. Leave(p, due, owed, ~Quiet(lp)) /\ BitsFit' /\ Z80Types'
  <2>1. BitsFit' /\ Z80Types'
    BY <1>1, <1>6 DEF BitsFit, Z80Types
  <2>2. QED
    BY <1>1, <2>1 DEF Risk
<1> HIDE DEF Quiet
<1>10. QED
  BY <1>1, <1>7, <1>8, <1>9, Keeping

-----------------------------------------------------------------------------
(* A program that handles the wires itself *)

\* What such a program sees
LEMMA RawSees ==
  ASSUME NEW p \in Ports
  PROVE  /\ get_lines(p) = Bit => p.lines = 0 /\ p.extlines = 0
         /\ get_lines(p) = {} /\ p.lines \in Bit /\ p.extlines \in {0, Other(p.lines)}
              => p.extlines = Other(p.lines)
         /\ get_lines(p) = {Other(p.lines)} => p.lines \in Bit /\ p.extlines \notin {Other(p.lines), 3}
         /\ \A w \in Bit : get_lines(p) = {w} /\ p.lines = 0 => p.extlines = Other(w)
         /\ \A w \in Bit : get_lines(p) = {w} => ~(p.lines = 0 /\ p.extlines = 0)
<1>1. p.lines \in 0 .. 3 /\ p.extlines \in 0 .. 3
  BY DEF Ports, Port
<1>2. get_lines(p) \subseteq Bit /\ 1 \in Bit /\ 2 \in Bit
  BY DEF get_lines, Bit
<1>3. \A w \in Bit : w \in get_lines(p) <=> p.lines \notin {w, 3} /\ p.extlines \notin {w, 3}
  BY DEF get_lines
<1>4. ASSUME get_lines(p) = Bit PROVE p.lines = 0 /\ p.extlines = 0
  <2>1. /\ p.lines \notin {1, 3} /\ p.extlines \notin {1, 3}
        /\ p.lines \notin {2, 3} /\ p.extlines \notin {2, 3}
    BY <1>2, <1>3, <1>4
  <2>2. QED
    BY <1>1, <2>1
<1>5. ASSUME get_lines(p) = {}, p.lines \in Bit, p.extlines \in {0, Other(p.lines)}
      PROVE  p.extlines = Other(p.lines)
  <2>1. Other(p.lines) \in Bit /\ Other(p.lines) # p.lines /\ p.lines # 3
    BY <1>5 DEF Bit, Other
  <2>2. p.extlines \in {Other(p.lines), 3}
    BY <1>3, <1>5, <2>1
  <2>3. QED
    BY <1>5, <2>2
<1>6. ASSUME get_lines(p) = {Other(p.lines)}
      PROVE  p.lines \in Bit /\ p.extlines \notin {Other(p.lines), 3}
  <2>1. Other(p.lines) \in Bit
    BY <1>2, <1>6
  <2>2. QED
    BY <1>1, <1>3, <1>6, <2>1 DEF Other, Bit
<1>7. ASSUME NEW w \in Bit, get_lines(p) = {w}, p.lines = 0
      PROVE  p.extlines = Other(w)
  <2>1. Other(w) \in Bit /\ Other(w) # w
    BY OtherBit
  <2>2. p.extlines \notin {w, 3} /\ p.extlines \in {Other(w), 3}
    BY <1>3, <1>7, <2>1 DEF Bit
  <2>3. QED
    BY <2>2
<1>8. ASSUME NEW w \in Bit, get_lines(p) = {w} PROVE ~(p.lines = 0 /\ p.extlines = 0)
  <2>1. Other(w) \in Bit /\ Other(w) # w /\ 0 # Other(w) /\ 0 # 3
    BY OtherBit DEF Bit
  <2>2. QED
    BY <1>3, <1>8, <2>1
<1>9. QED
  BY <1>4, <1>5, <1>6, <1>7, <1>8

\* Its wires are its own.
LEMMA RawSets ==
  ASSUME LInv, Raw, NEW l \in 0 .. 3
  PROVE  LET a == dbus_set_lines(lp, l) IN
         /\ set_lines(lp, l) = dbus_update(a) /\ set_lines(lp, l) \in Ports
         /\ a \in Ports /\ Like(a, lp, l, lp.extlines)
         /\ PortSound(lp) => PortSound(a)
         /\ Received(a) = Received(lp) /\ GrayReceived(a) = GrayReceived(lp)
         /\ RawPort(lp) /\ RawPort(a)
<1> DEFINE a == dbus_set_lines(lp, l)
<1>1. set_lines(lp, l) = dbus_update(a)
  BY DEF set_lines, Raw
<1>2. /\ a \in Ports /\ Like(a, lp, l, lp.extlines)
      /\ PortSound(lp) => PortSound(a)
      /\ Received(a) = Received(lp) /\ GrayReceived(a) = GrayReceived(lp)
  BY StateTypes, SetsLines
<1> HIDE DEF a
<1>3. RawPort(lp) /\ RawPort(a)
  BY <1>2 DEF Raw, RawPort, Like
<1>4. QED
  BY <1>1, <1>2, <1>3, UpdateTypes DEF a

LEMMA RawSendHolds == ASSUME LInv, NEW byte \in Byte, raw_send(byte) PROVE LInv' /\ Looks
<1> USE StateTypes
<1> DEFINE l == Head(byte)
           a == dbus_set_lines(lp, l)
           p == set_lines(lp, l)
<1>1. /\ Raw /\ z80 = "idle" /\ get_lines(lp) = Bit /\ z80' = "low" /\ bits' = byte
      /\ Leave(p, due, Append(owed, byte), lp.grayoutbits > 0) /\ PeerTypes' /\ ~amiss'
  BY DEF raw_send, PeerTypes
<1>2. /\ byte \in Seq(Bit) /\ Len(byte) = NBits /\ NBits \in Nat /\ NBits > 0
      /\ byte # <<>> /\ l = byte[1] /\ l \in Bit /\ l \in 0 .. 3 /\ l # 0
  <2>1. byte \in Seq(Bit) /\ Len(byte) = NBits /\ NBits \in Nat /\ NBits > 0
    BY ByteIs, BitsInByte
  <2>2. byte # <<>> /\ Head(byte) = byte[1] /\ Head(byte) \in Bit
    BY <2>1
  <2>3. QED
    BY <2>1, <2>2 DEF Bit
<1>3. BitsFit' /\ Z80Types'
  BY <1>1, <1>2 DEF BitsFit, Z80Types
<1> HIDE DEF l
<1>4. /\ p = dbus_update(a) /\ p \in Ports /\ a \in Ports /\ Like(a, lp, l, lp.extlines)
      /\ RawPort(lp)
  BY <1>1, <1>2, RawSets
<1>5. lp.lines = 0 /\ lp.extlines = 0
  BY <1>1, RawSees
<1> HIDE DEF a, p
<1>6. ASSUME disturbed = 0, ~(lp.grayoutbits > 0)
      PROVE  PortSound(a) /\ Underway(a, "low", byte, due, Append(owed, byte))
  <2>0. lp.grayoutbits = 0
    BY <1>6, PortTypes
  <2>1. \A c \in Byte, k \in 0 .. NBits : ~Coming(lp, z80, bits, c, k) /\ ~Going(lp, z80, bits, c, k)
    BY <1>1, <1>4, <2>0, BitsInByte DEF Coming, Going, RawPort
  <2>2. /\ Resting(lp, z80, bits) /\ PortSound(lp)
        /\ due = Received(lp) /\ owed = GrayReceived(lp)
    BY <1>6, <2>1 DEF Underway
  <2>3. /\ a.extlines = 0 /\ a.mode = lp.mode /\ a.in = lp.in /\ a.grayin = lp.grayin
        /\ a.grayoutbits = 0 /\ a.lines = byte[1] /\ a.flags = lp.flags
        /\ "error" \in a.stops <=> "error" \in lp.stops
    BY <1>2, <1>4, <1>5, <2>0 DEF Like
  <2>4. QED
    BY <1>4, <2>0, <2>2, <2>3, GoingBegins
<1>7. disturbed = 0 /\ ~(lp.grayoutbits > 0) =>
         PortSound(p) /\ Underway(p, z80', bits', due, Append(owed, byte))
  BY <1>1, <1>2, <1>4, <1>6, UpdateKeeps
<1>8. Looks
  BY <1>1, <1>4, Looking DEF Leave
<1>9. QED
  BY <1>8, <1>1, <1>3, <1>4, <1>7, Keeping

\* The other side has taken the bit: the wire is let go.
LEMMA RawAcknowledgedHolds == ASSUME LInv, raw_acknowledged PROVE LInv' /\ Looks
<1> USE StateTypes
<1> DEFINE a == dbus_set_lines(lp, 0)
           p == set_lines(lp, 0)
<1>1. /\ Raw /\ z80 = "low" /\ get_lines(lp) = {} /\ z80' = "high" /\ bits' = Tail(bits)
      /\ Keep(p) /\ PeerTypes'
  BY DEF raw_acknowledged, PeerTypes
<1>2. bits # <<>> /\ Tail(bits) \in Seq(Bit) /\ Len(Tail(bits)) = Len(bits) - 1
  BY <1>1 DEF BitsFit
<1>3. BitsFit' /\ Z80Types'
  <2>1. Len(Tail(bits)) <= NBits
    BY <1>2, BitsInByte DEF BitsFit
  <2>2. QED
    BY <1>1, <1>2, <2>1 DEF BitsFit, Z80Types
<1>4. /\ p = dbus_update(a) /\ p \in Ports /\ a \in Ports /\ Like(a, lp, 0, lp.extlines)
      /\ RawPort(lp) /\ RawPort(a)
      /\ PortSound(lp) => PortSound(a)
      /\ Received(a) = Received(lp) /\ GrayReceived(a) = GrayReceived(lp)
  BY <1>1, RawSets
<1> HIDE DEF a, p
<1>5. ASSUME disturbed = 0
      PROVE  PortSound(a) /\ Underway(a, "high", Tail(bits), due, owed)
  <2>1. PICK b \in Byte, k \in 0 .. NBits :
          Going(lp, "low", bits, b, k) /\ due = Received(lp) /\ owed = Append(GrayReceived(lp), b)
    BY <1>1, <1>5 DEF Underway, Resting, Coming, Free
  <2>2. k \in Nat /\ k <= NBits /\ NBits \in Nat /\ 0 \notin Bit
    BY BitsInByte DEF Bit
  <2>3. /\ lp.lines # 0 /\ LastBits(bits, b, NBits - k + 1) /\ Shake(lp.lines, lp.extlines, b, k)
        /\ lp.grayoutbits = 0 /\ Taken(lp.lines, lp.extlines, k) < NBits
        /\ "read_byte" \notin lp.flags => lp.in = <<>>
        /\ \/ FirstBits(lp.grayin, b, Taken(lp.lines, lp.extlines, k))
           \/ lp.extlines = 0
    BY <2>1 DEF Going
  <2>4. k > 0 /\ lp.lines = b[k] /\ lp.lines \in Bit /\ lp.extlines \in {0, Other(b[k])}
    <3>1. k > 0 /\ lp.lines = b[k] /\ lp.extlines \in {0, Other(b[k])}
      BY <2>3 DEF Shake
    <3>2. k \in 1 .. NBits
      BY <2>2, <3>1
    <3>3. QED
      BY <3>1, <3>2 DEF Byte
  <2>5. lp.extlines = Other(b[k]) /\ lp.extlines # 0
    <3>1. lp.extlines = Other(b[k])
      BY <1>1, <2>4, RawSees
    <3>2. QED
      BY <2>2, <2>4, <3>1, OtherBit
  <2>6. /\ a.lines = 0 /\ a.extlines = lp.extlines /\ a.flags = lp.flags /\ a.in = lp.in
        /\ a.grayin = lp.grayin /\ a.grayoutbits = lp.grayoutbits
    BY <1>4 DEF Like
  <2>7. /\ Shake(a.lines, a.extlines, b, k)
        /\ Taken(a.lines, a.extlines, k) = k - 1 /\ Taken(lp.lines, lp.extlines, k) = k - 1
    BY <2>3, <2>4, <2>5, <2>6 DEF Shake, Taken
  <2>8. LastBits(Tail(bits), b, NBits - k)
    <3>1. NBits - k + 1 \in 1 .. NBits /\ (NBits - k + 1) - 1 = NBits - k
      BY <2>2, <2>4
    <3>2. LastBits(Tail(bits), b, (NBits - k + 1) - 1)
      BY <2>3, <3>1, OneBitLess
    <3>3. QED
      BY <3>1, <3>2
  <2>9. Going(a, "high", Tail(bits), b, k)
    BY <1>4, <2>3, <2>4, <2>5, <2>6, <2>7, <2>8 DEF Going
  <2>10. QED
    BY <1>4, <1>5, <2>1, <2>9 DEF Underway
<1>6. disturbed = 0 => PortSound(p) /\ Underway(p, z80', bits', due, owed)
  BY <1>1, <1>2, <1>4, <1>5, UpdateKeeps
<1>7. Looks
  BY <1>1, <1>4, Looking DEF Keep, Leave
<1>8. QED
  BY <1>7, <1>1, <1>3, <1>4, <1>6, Keeping DEF Keep

\* The other side has let go too: the next bit, if there is one.
LEMMA RawNextHolds == ASSUME LInv, raw_next PROVE LInv' /\ Looks
<1> USE StateTypes
<1> DEFINE l == Head(bits)
           a == dbus_set_lines(lp, l)
           p == set_lines(lp, l)
<1>1. Raw /\ z80 = "high" /\ get_lines(lp) = Bit /\ UNCHANGED <<peer, bits>> /\ PeerTypes'
  BY DEF raw_next, PeerTypes
<1>2. lp.lines = 0 /\ lp.extlines = 0 /\ NBits \in Nat /\ RawPort(lp)
  BY <1>1, RawSees, BitsInByte DEF Raw, RawPort
<1>3. CASE bits = <<>>
  <2>1. z80' = "idle" /\ UNCHANGED <<lp, due, owed, amiss, disturbed>>
    BY <1>3 DEF raw_next
  <2>2. BitsFit' /\ Z80Types'
    BY <1>1, <1>3, <2>1 DEF BitsFit, Z80Types
  <2>3. ASSUME disturbed = 0 PROVE Underway(lp, "idle", <<>>, due, owed)
    <3>1. \A b \in Byte, k \in 0 .. NBits : ~Going(lp, "high", <<>>, b, k)
      <4> SUFFICES ASSUME NEW b \in Byte, NEW k \in 0 .. NBits, Going(lp, "high", <<>>, b, k)
                   PROVE  FALSE
        OBVIOUS
      <4>1. LastBits(<<>>, b, NBits - k) /\ Taken(lp.lines, lp.extlines, k) < NBits
        BY DEF Going
      <4>2. Len(<<>>) = 0
        OBVIOUS
      <4>3. QED
        BY <1>2, <4>1, <4>2 DEF LastBits, Taken
    <3>2. Free(lp, "high", <<>>) => Free(lp, "idle", <<>>)
      BY DEF Free
    <3>3. CASE Resting(lp, "high", <<>>) /\ due = Received(lp) /\ owed = GrayReceived(lp)
      BY <3>2, <3>3 DEF Resting, Underway
    <3>4. ASSUME NEW c \in Byte, NEW k \in 0 .. NBits,
                 Coming(lp, "high", <<>>, c, k), due = Append(Received(lp), c), owed = <<>>
          PROVE  Underway(lp, "idle", <<>>, due, owed)
      <4>1. Coming(lp, "idle", <<>>, c, k)
        BY <3>2, <3>4 DEF Coming
      <4>2. QED
        BY <3>4, <4>1 DEF Underway
    <3>5. QED
      BY <1>1, <1>3, <2>3, <3>1, <3>3, <3>4 DEF Underway
  <2>4. /\ lp' \in Port /\ Fits(lp') /\ disturbed' \in Nat /\ ~amiss'
        /\ ~(disturbed' = 0) => due' = <<>> /\ owed' = <<>>
    BY <2>1 DEF LInv
  <2>5. disturbed' = 0 => PortSound(lp') /\ Underway(lp', z80', bits', due', owed')
    BY <1>1, <1>3, <2>1, <2>3
  <2>6. Looks
    BY <2>1 DEF Looks
  <2>7. QED
    BY <1>1, <2>2, <2>4, <2>5, <2>6 DEF LInv, PeerTypes, Z80Types
<1>4. CASE bits # <<>>
  <2>1. z80' = "low" /\ Keep(p)
    BY <1>4 DEF raw_next
  <2>2. BitsFit' /\ Z80Types'
    BY <1>1, <1>4, <2>1 DEF BitsFit, Z80Types
  <2>3. l \in Bit /\ l \in 0 .. 3 /\ l # 0
    BY <1>4 DEF Bit
  <2> HIDE DEF l
  <2>4. /\ p = dbus_update(a) /\ p \in Ports /\ a \in Ports /\ Like(a, lp, l, lp.extlines)
        /\ RawPort(a)
        /\ PortSound(lp) => PortSound(a)
        /\ Received(a) = Received(lp) /\ GrayReceived(a) = GrayReceived(lp)
    BY <1>1, <2>3, RawSets
  <2> HIDE DEF a, p
  <2>5. ASSUME disturbed = 0
        PROVE  PortSound(a) /\ Underway(a, "low", bits, due, owed)
    <3>1. PICK b \in Byte, k \in 0 .. NBits :
            Going(lp, "high", bits, b, k) /\ due = Received(lp) /\ owed = Append(GrayReceived(lp), b)
      BY <1>1, <1>4, <2>5 DEF Underway, Resting, Coming, Free
    <3>2. /\ k > 0 /\ k \in Nat /\ LastBits(bits, b, NBits - k) /\ Taken(lp.lines, lp.extlines, k) = k
          /\ k < NBits /\ lp.grayoutbits = 0
          /\ "read_byte" \notin lp.flags => lp.in = <<>>
          /\ FirstBits(lp.grayin, b, k)
      BY <1>2, <3>1 DEF Going, Taken
    <3>3. l = b[k + 1] /\ k + 1 \in 0 .. NBits
      <4>1. NBits - k \in 1 .. NBits /\ NBits - (NBits - k) + 1 = k + 1 /\ k + 1 \in 0 .. NBits
        BY <1>2, <3>2
      <4>2. Head(bits) = b[NBits - (NBits - k) + 1]
        BY <3>2, <4>1, OneBitLess
      <4>3. QED
        BY <4>1, <4>2 DEF l
    <3>4. /\ a.lines = l /\ a.extlines = 0 /\ a.flags = lp.flags /\ a.in = lp.in
          /\ a.grayin = lp.grayin /\ a.grayoutbits = lp.grayoutbits
      BY <1>2, <2>4 DEF Like
    <3>5. Shake(a.lines, a.extlines, b, k + 1) /\ Taken(a.lines, a.extlines, k + 1) = k
      BY <2>3, <3>2, <3>3, <3>4 DEF Shake, Taken
    <3>6. LastBits(bits, b, NBits - (k + 1) + 1)
      <4>1. NBits - (k + 1) + 1 = NBits - k
        BY <1>2, <3>2
      <4>2. QED
        BY <3>2, <4>1
    <3>7. Going(a, "low", bits, b, k + 1)
      BY <2>3, <2>4, <3>2, <3>4, <3>5, <3>6 DEF Going
    <3>8. QED
      BY <2>4, <2>5, <3>1, <3>3, <3>7 DEF Underway
  <2>6. disturbed = 0 => PortSound(p) /\ Underway(p, z80', bits', due, owed)
    BY <1>1, <2>1, <2>4, <2>5, UpdateKeeps
  <2>7. Looks
    BY <2>1, <2>4, Looking DEF Keep, Leave
  <2>8. QED
    BY <1>1, <2>1, <2>2, <2>4, <2>6, <2>7, Keeping DEF Keep
<1>5. QED
  BY <1>3, <1>4

\* A wire is low: the program takes the bit and acknowledges it.
LEMMA RawReceiveHolds == ASSUME LInv, raw_receive PROVE LInv' /\ Looks
<1> USE StateTypes
<1> DEFINE h == CHOOSE w \in Bit : get_lines(lp) = {w}
           a == dbus_set_lines(lp, h)
           p == set_lines(lp, h)
<1>1. /\ Raw /\ z80 \in {"idle", "receive"} /\ get_lines(lp) \in {{1}, {2}}
      /\ bits' = Append(bits, Other(h)) /\ z80' = "ack" /\ Keep(p) /\ PeerTypes'
  BY DEF raw_receive, PeerTypes
<1>2. h \in Bit /\ get_lines(lp) = {h}
  <2>1. \E w \in Bit : get_lines(lp) = {w}
    BY <1>1 DEF Bit
  <2>2. QED
    BY <2>1
<1> HIDE DEF h
<1>3. h \in 0 .. 3 /\ h # 0 /\ Other(h) \in Bit /\ Other(Other(h)) = h
  BY <1>2, OtherBit DEF Bit
<1>4. BitsFit' /\ Z80Types'
  <2>1. Len(bits) < NBits /\ NBits \in Nat
    <3>1. Len(<<>>) = 0
      OBVIOUS
    <3>2. QED
      BY <1>1, <3>1, BitsInByte DEF BitsFit
  <2>2. bits' \in Seq(Bit) /\ Len(bits') = Len(bits) + 1
    BY <1>1, <1>3
  <2>3. QED
    BY <1>1, <2>1, <2>2 DEF BitsFit, Z80Types
<1>5. /\ p = dbus_update(a) /\ p \in Ports /\ a \in Ports /\ Like(a, lp, h, lp.extlines)
      /\ RawPort(lp) /\ RawPort(a)
      /\ PortSound(lp) => PortSound(a)
      /\ Received(a) = Received(lp) /\ GrayReceived(a) = GrayReceived(lp)
  BY <1>1, <1>3, RawSets
<1> HIDE DEF a, p
<1>6. ASSUME disturbed = 0
      PROVE  PortSound(a) /\ Underway(a, "ack", Append(bits, Other(h)), due, owed)
  <2>1. ~(lp.lines = 0 /\ lp.extlines = 0)
    BY <1>2, RawSees
  <2>2. \A b \in Byte, k \in 0 .. NBits : ~Going(lp, z80, bits, b, k)
    BY <1>1, <1>5 DEF Going, RawPort
  <2>3. PICK c \in Byte, k \in 0 .. NBits :
          Coming(lp, z80, bits, c, k) /\ due = Append(Received(lp), c) /\ owed = <<>>
    BY <1>6, <2>1, <2>2 DEF Underway, Resting
  <2> DEFINE n == Taken(lp.extlines, lp.lines, k)
  <2>4. k \in Nat /\ k <= NBits /\ NBits \in Nat /\ 0 \notin Bit
    BY BitsInByte DEF Bit
  <2>5. /\ lp.grayoutbits = NBits + 1 - k /\ LastBits(lp.grayout, c, NBits - k)
        /\ lp.grayin = <<>> /\ Shake(lp.extlines, lp.lines, c, k) /\ n < NBits
    BY <2>3 DEF Coming
  <2>6. lp.lines = 0 /\ FirstBits(bits, c, n)
    <3>1. CASE Free(lp, z80, bits) /\ n = 0 /\ lp.lines = 0
      BY <3>1 DEF Free, FirstBits
    <3>2. CASE z80 \in {"receive", "ack"} /\ (z80 = "ack" <=> lp.lines # 0)
               /\ FirstBits(bits, c, IF z80 = "ack" THEN n + 1 ELSE n)
      BY <1>1, <3>2
    <3>3. QED
      BY <1>5, <2>3, <3>1, <3>2 DEF Coming, RawPort
  <2>7. /\ k > 0 /\ lp.extlines = c[k] /\ n = k - 1 /\ k - 1 \in 0 .. NBits - 1 /\ (k - 1) + 1 = k
        /\ c[k] \in Bit
    <3>1. k > 0 /\ lp.extlines = c[k]
      BY <2>1, <2>5, <2>6 DEF Shake
    <3>2. n = k - 1
      BY <2>1, <2>6 DEF Taken
    <3>3. k \in 1 .. NBits
      BY <2>4, <3>1
    <3>4. QED
      BY <2>4, <3>1, <3>2, <3>3 DEF Byte
  <2>8. Other(h) = c[k] /\ h = Other(c[k])
    <3>1. lp.extlines = Other(h)
      BY <1>2, <2>6, RawSees
    <3>2. QED
      BY <1>3, <2>7, <3>1
  <2>9. /\ a.lines = Other(c[k]) /\ a.lines # 0 /\ a.extlines = c[k]
        /\ a.grayoutbits = lp.grayoutbits /\ a.grayout = lp.grayout /\ a.grayin = lp.grayin
    BY <1>3, <1>5, <2>7, <2>8 DEF Like
  <2>10. Shake(a.extlines, a.lines, c, k) /\ Taken(a.extlines, a.lines, k) = n
    BY <2>4, <2>7, <2>9 DEF Shake, Taken
  <2>11. FirstBits(Append(bits, Other(h)), c, n + 1)
    <3>1. FirstBits(Append(bits, c[(k - 1) + 1]), c, (k - 1) + 1)
      BY <2>6, <2>7, OneBitMore
    <3>2. QED
      BY <2>7, <2>8, <3>1
  <2> HIDE DEF n
  <2>12. Coming(a, "ack", Append(bits, Other(h)), c, k)
    BY <1>5, <2>5, <2>9, <2>10, <2>11 DEF Coming
  <2>13. QED
    BY <1>5, <1>6, <2>3, <2>12 DEF Underway
<1>7. disturbed = 0 => PortSound(p) /\ Underway(p, z80', bits', due, owed)
  <2>1. Append(bits, Other(h)) \in Seq(Bit)
    BY <1>3
  <2>2. QED
    BY <1>1, <1>5, <1>6, <2>1, UpdateKeeps
<1>8. Looks
  BY <1>1, <1>5, Looking DEF Keep, Leave
<1>9. QED
  BY <1>8, <1>1, <1>4, <1>5, <1>7, Keeping DEF Keep

\* The other side has let go: the bit is over, and with the last one the byte.
LEMMA RawBitHolds == ASSUME LInv, raw_bit PROVE LInv' /\ Looks
<1> USE StateTypes
<1> DEFINE a == dbus_set_lines(lp, 0)
           p == set_lines(lp, 0)
<1>1. Raw /\ z80 = "ack" /\ get_lines(lp) = {Other(lp.lines)} /\ PeerTypes'
  BY DEF raw_bit, PeerTypes
<1>2. \/ /\ Len(bits) = NBits /\ z80' = "idle" /\ bits' = <<>>
         /\ Arrives(due, bits) /\ Leave(p, Rest(due), owed, FALSE)
      \/ Len(bits) # NBits /\ z80' = "receive" /\ Keep(p) /\ bits' = bits
  BY DEF raw_bit
<1>3. BitsFit' /\ Z80Types'
  <2>1. Len(<<>>) = 0 /\ <<>> \in Seq(Bit) /\ NBits \in Nat /\ Len(bits) \in Nat /\ Len(bits) <= NBits
    BY BitsInByte DEF BitsFit
  <2>2. CASE z80' = "idle" /\ bits' = <<>>
    BY <2>1, <2>2 DEF BitsFit, Z80Types
  <2>3. CASE Len(bits) # NBits /\ z80' = "receive" /\ bits' = bits
    BY <2>1, <2>3 DEF BitsFit, Z80Types
  <2>4. QED
    BY <1>2, <2>2, <2>3
<1>4. /\ p = dbus_update(a) /\ p \in Ports /\ a \in Ports /\ Like(a, lp, 0, lp.extlines)
      /\ RawPort(lp) /\ RawPort(a)
      /\ PortSound(lp) => PortSound(a)
      /\ Received(a) = Received(lp) /\ GrayReceived(a) = GrayReceived(lp)
  BY <1>1, RawSets
<1>5. lp.lines \in Bit /\ lp.extlines \notin {Other(lp.lines), 3}
  BY <1>1, RawSees
<1> HIDE DEF a, p
<1>6. ASSUME disturbed = 0
      PROVE  \E c \in Byte, k \in 0 .. NBits :
               /\ due = Append(Received(lp), c) /\ owed = <<>> /\ Received(lp) = <<>>
               /\ k > 0 /\ FirstBits(bits, c, k) /\ PortSound(lp) /\ lp.in = <<>>
               /\ lp.grayoutbits = NBits + 1 - k /\ LastBits(lp.grayout, c, NBits - k)
               /\ lp.grayin = <<>> /\ lp.extlines = 0
  <2>0. 0 \notin Bit /\ NBits \in Nat
    BY BitsInByte DEF Bit
  <2>1. PortSound(lp) /\ Received(lp) = <<>> /\ lp.in = <<>>
    BY <1>4, <1>6 DEF PortSound, Received, RawPort
  <2>2. PICK c \in Byte, k \in 0 .. NBits :
          Coming(lp, "ack", bits, c, k) /\ due = Append(Received(lp), c) /\ owed = <<>>
    BY <1>1, <1>6 DEF Underway, Resting, Going, Free
  <2>3. /\ lp.grayoutbits = NBits + 1 - k /\ LastBits(lp.grayout, c, NBits - k)
        /\ lp.grayin = <<>> /\ Shake(lp.extlines, lp.lines, c, k)
        /\ FirstBits(bits, c, Taken(lp.extlines, lp.lines, k) + 1)
    BY <2>2 DEF Coming, Free
  <2>4. k > 0 /\ lp.lines = Other(c[k]) /\ lp.extlines \in {0, c[k]}
    BY <1>5, <2>0, <2>3 DEF Shake
  <2>5. c[k] \in Bit /\ Other(lp.lines) = c[k]
    <3>1. k \in 1 .. NBits
      BY <2>0, <2>4
    <3>2. c[k] \in Bit
      BY <3>1 DEF Byte
    <3>3. QED
      BY <2>4, <3>2, OtherBit
  <2>6. lp.extlines = 0 /\ Taken(lp.extlines, lp.lines, k) + 1 = k
    BY <1>5, <2>0, <2>4, <2>5 DEF Taken
  <2>7. QED
    BY <2>1, <2>2, <2>3, <2>4, <2>6
<1>7. /\ a.lines = 0 /\ a.extlines = lp.extlines /\ a.flags = lp.flags /\ a.in = lp.in
      /\ a.grayin = lp.grayin /\ a.grayout = lp.grayout /\ a.grayoutbits = lp.grayoutbits
  BY <1>4 DEF Like
<1>8. ASSUME Len(bits) = NBits PROVE LInv'
  <2>1. z80' = "idle" /\ bits' = <<>> /\ Arrives(due, bits) /\ Leave(p, Rest(due), owed, FALSE)
    BY <1>2, <1>8
  <2>2. ASSUME disturbed = 0
        PROVE  /\ PortSound(a) /\ Underway(a, "idle", <<>>, Rest(due), owed)
               /\ due # <<>> /\ Head(due) = bits
    <3>1. PICK c \in Byte, k \in 0 .. NBits :
               /\ due = Append(Received(lp), c) /\ owed = <<>> /\ Received(lp) = <<>>
               /\ k > 0 /\ FirstBits(bits, c, k) /\ PortSound(lp) /\ lp.in = <<>>
               /\ lp.grayoutbits = NBits + 1 - k /\ LastBits(lp.grayout, c, NBits - k)
               /\ lp.grayin = <<>> /\ lp.extlines = 0
      BY <1>6, <2>2
    <3>2. k = NBits /\ bits = c
      BY <1>8, <3>1, FullByte DEF FirstBits
    <3>3. due = <<bits>> /\ due # <<>> /\ Head(due) = bits /\ Rest(due) = <<>>
      BY <3>1, <3>2 DEF Rest
    <3>4. lp.grayoutbits = 1
      BY <3>1, <3>2, BitsInByte
    <3>5. Resting(a, "idle", <<>>)
      BY <1>4, <1>7, <3>1, <3>4 DEF Resting, Free, RawPort
    <3>6. GrayReceived(a) = <<>> /\ Received(a) = <<>>
      <4>1. Len(<<>>) = 0
        OBVIOUS
      <4>2. QED
        BY <1>4, <1>7, <3>1, <4>1, BitsInByte DEF GrayReceived
    <3>7. QED
      BY <1>4, <3>1, <3>3, <3>5, <3>6 DEF Underway
  <2>3. ~amiss'
    BY <2>1, <2>2 DEF Arrives
  <2>4. disturbed = 0 => PortSound(p) /\ Underway(p, z80', bits', Rest(due), owed)
    <3>1. <<>> \in Seq(Bit)
      OBVIOUS
    <3>2. QED
      BY <1>4, <2>1, <2>2, <3>1, UpdateKeeps
  <2>5. QED
    BY <1>1, <1>3, <1>4, <2>1, <2>3, <2>4, Keeping
<1>9. ASSUME Len(bits) # NBits PROVE LInv'
  <2>1. z80' = "receive" /\ Keep(p) /\ bits' = bits
    BY <1>2, <1>9
  <2>2. ASSUME disturbed = 0
        PROVE  PortSound(a) /\ Underway(a, "receive", bits, due, owed)
    <3>1. PICK c \in Byte, k \in 0 .. NBits :
               /\ due = Append(Received(lp), c) /\ owed = <<>> /\ Received(lp) = <<>>
               /\ k > 0 /\ FirstBits(bits, c, k) /\ PortSound(lp) /\ lp.in = <<>>
               /\ lp.grayoutbits = NBits + 1 - k /\ LastBits(lp.grayout, c, NBits - k)
               /\ lp.grayin = <<>> /\ lp.extlines = 0
      BY <1>6, <2>2
    <3>2. k < NBits
      BY <1>9, <3>1, BitsInByte DEF FirstBits
    <3>3. Shake(a.extlines, a.lines, c, k) /\ Taken(a.extlines, a.lines, k) = k
      BY <1>7, <3>1 DEF Shake, Taken
    <3>4. Coming(a, "receive", bits, c, k)
      BY <1>4, <1>7, <3>1, <3>2, <3>3 DEF Coming
    <3>5. QED
      BY <1>4, <3>1, <3>4 DEF Underway
  <2>3. disturbed = 0 => PortSound(p) /\ Underway(p, z80', bits', due, owed)
    BY <1>4, <2>1, <2>2, UpdateKeeps
  <2>4. QED
    BY <1>1, <1>3, <1>4, <2>1, <2>3, Keeping DEF Keep
<1>10. Looks
  BY <1>2, <1>4, Looking DEF Keep, Leave
<1>11. QED
  BY <1>10, <1>8, <1>9

-----------------------------------------------------------------------------
(* The core thread *)

\* The other end is put on, or taken off: the wires stay.
LEMMA Emulation ==
  ASSUME NEW p \in Ports
  PROVE  /\ Gray(p) \in Ports /\ PortsAlike(Gray(p), p) /\ None(p) \in Ports /\ PortsAlike(None(p), p)
         /\ [p EXCEPT !.stops = {}] \in Ports /\ PortsAlike([p EXCEPT !.stops = {}], p)
<1>1. Gray(p) \in Ports /\ PortsAlike(Gray(p), p)
  BY DEF Ports, Port, Fits, PortsAlike, Gray
<1>2. None(p) \in Ports /\ PortsAlike(None(p), p)
  BY DEF Ports, Port, Fits, PortsAlike, None
<1>3. [p EXCEPT !.stops = {}] \in Ports /\ PortsAlike([p EXCEPT !.stops = {}], p)
  BY DEF Ports, Port, Fits, PortsAlike
<1>4. QED
  BY <1>1, <1>2, <1>3

LEMMA EmulationHolds ==
  ASSUME LInv,
         \/ \E what \in {"send", "get"} : em_begin(what)
         \/ em_sent \/ em_give_up \/ em_run_link
  PROVE  LInv' /\ Looks
<1> USE StateTypes
<1> DEFINE q == [lp EXCEPT !.stops = {}]
<1>1. /\ Gray(lp) \in Ports /\ PortsAlike(Gray(lp), lp)
      /\ None(lp) \in Ports /\ PortsAlike(None(lp), lp)
      /\ q \in Ports /\ PortsAlike(q, lp)
  BY Emulation
<1>6. ASSUME NEW p, PortsAlike(p, lp), Keep(p) PROVE Looks
  BY <1>6 DEF Keep, Leave, Looks, PortsAlike, Wires
<1>2. CASE \E what \in {"send", "get"} : em_begin(what)
  <2>1. PeerTypes' /\ Keep(Gray(lp)) /\ UNCHANGED <<z80, bits>>
    BY <1>2 DEF em_begin, PeerTypes
  <2>2. QED
    BY <1>1, <1>6, <2>1, KeepingAlike
<1>3. CASE em_sent \/ em_give_up
  <2>1. PeerTypes' /\ Keep(None(lp)) /\ UNCHANGED <<z80, bits>>
    BY <1>3 DEF em_sent, em_give_up, PeerTypes
  <2>2. QED
    BY <1>1, <1>6, <2>1, KeepingAlike
<1>4. CASE em_run_link
  <2>1. PeerTypes' /\ (Keep(None(q)) \/ Keep(q)) /\ UNCHANGED <<z80, bits>>
    BY <1>4 DEF em_run_link, PeerTypes
  <2>2. None(q) \in Ports /\ PortsAlike(None(q), q)
    BY <1>1, Emulation
  <2> HIDE DEF q
  <2>3. PortsAlike(None(q), lp)
    BY <1>1, <2>2 DEF PortsAlike
  <2>4. QED
    BY <1>1, <1>6, <2>1, <2>2, <2>3, KeepingAlike
<1>5. QED
  BY <1>2, <1>3, <1>4

LEMMA SendByteHolds == ASSUME LInv, NEW byte \in Byte, em_send_byte(byte) PROVE LInv' /\ Looks
<1> USE StateTypes
<1> DEFINE b == dbus_set_extlines(lp, 0)
           a == [b EXCEPT !.grayoutbits = NBits + 1, !.grayout = byte]
           p == graylink_send_byte(lp, byte)
<1>1. /\ lp.grayoutbits = 0 /\ lp.grayin = <<>> /\ PeerTypes' /\ UNCHANGED <<z80, bits>>
      /\ Leave(p, Append(due, byte), owed, owed # <<>>) /\ ~amiss'
  BY DEF em_send_byte, PeerTypes, graylink_ready
<1>2. p = dbus_update(a)
  BY DEF graylink_send_byte
<1>3. b \in Ports /\ Like(b, lp, lp.lines, 0)
  BY LinesTypes
<1> HIDE DEF b
<1>4. /\ byte \in Seq(Bit) /\ Len(byte) = NBits /\ NBits \in Nat /\ NBits > 0
      /\ LastBits(byte, byte, NBits)
  BY ByteIs, BitsInByte
<1>5. a \in Ports
  <2>1. a \in Port
    <3>1. b \in Port /\ NBits + 1 \in Nat /\ byte \in Seq(Bit)
      BY <1>3, <1>4 DEF Like
    <3>2. QED
      BY <3>1 DEF Port
  <2>2. Fits(a)
    <3>1. /\ a.grayoutbits = NBits + 1 /\ a.grayout = byte /\ a.out = b.out /\ a.in = b.in
          /\ a.grayin = b.grayin /\ a.flags = b.flags
      BY <1>3 DEF Ports, Port
    <3>2. Fits(b)
      BY <1>3 DEF Ports
    <3>4. b.grayin = <<>>
      BY <1>1, <1>3 DEF Like
    <3> HIDE DEF a
    <3>3. QED
      BY <1>1, <1>4, <3>1, <3>2, <3>4 DEF Fits
  <2>3. QED
    BY <2>1, <2>2 DEF Ports
<1>6. /\ a.lines = lp.lines /\ a.extlines = 0 /\ a.mode = lp.mode /\ a.flags = lp.flags
      /\ a.in = lp.in /\ a.out = lp.out /\ a.grayin = <<>> /\ a.grayoutbits = NBits + 1
      /\ a.grayout = byte
      /\ "error" \in a.stops <=> "error" \in lp.stops
  <2>1. b \in Port
    BY <1>3 DEF Like
  <2>2. /\ a.lines = b.lines /\ a.extlines = b.extlines /\ a.mode = b.mode /\ a.flags = b.flags
        /\ a.in = b.in /\ a.out = b.out /\ a.grayin = b.grayin /\ a.grayoutbits = NBits + 1
        /\ a.grayout = byte /\ a.stops = b.stops
    BY <2>1 DEF Port
  <2>3. QED
    BY <1>1, <1>3, <2>2 DEF Like
<1> HIDE DEF a, p
<1>7. ASSUME disturbed = 0, ~(owed # <<>>)
      PROVE  PortSound(a) /\ Underway(a, z80, bits, Append(due, byte), owed)
  <2>1. \A c \in Byte, k \in 0 .. NBits : ~Coming(lp, z80, bits, c, k)
    BY <1>1, <1>4 DEF Coming
  <2>2. \A x : Append(GrayReceived(lp), x) # <<>>
    <3>1. \A x : Append(<<>>, x) # <<>>
      OBVIOUS
    <3>2. GrayReceived(lp) = <<>>
      <4>1. Len(<<>>) = 0
        OBVIOUS
      <4>2. QED
        BY <1>1, <1>4, <4>1 DEF GrayReceived
    <3>3. QED
      BY <3>1, <3>2
  <2>3. Resting(lp, z80, bits) /\ PortSound(lp) /\ due = Received(lp)
    BY <1>7, <2>1, <2>2 DEF Underway
  <2>4. PortSound(a) /\ Received(a) = Received(lp)
    BY <1>6, <2>3 DEF PortSound, Failed, Received
  <2>5. Shake(a.extlines, a.lines, byte, 0) /\ Taken(a.extlines, a.lines, 0) = 0 /\ a.lines = 0
    BY <1>6, <2>3 DEF Shake, Taken, Resting
  <2>6. LastBits(a.grayout, byte, NBits - 0) /\ 0 \in 0 .. NBits /\ NBits + 1 - 0 = NBits + 1
    BY <1>4, <1>6
  <2>7. Free(a, z80, bits)
    BY <1>6, <2>3 DEF Resting, Free
  <2>8. Coming(a, z80, bits, byte, 0)
    BY <1>4, <1>6, <2>5, <2>6, <2>7 DEF Coming
  <2>9. QED
    BY <1>7, <2>3, <2>4, <2>6, <2>8 DEF Underway
<1>8. p \in Ports /\ (disturbed = 0 /\ ~(owed # <<>>) =>
                        PortSound(p) /\ Underway(p, z80, bits, Append(due, byte), owed))
  BY <1>2, <1>5, <1>7, UpdateTypes, UpdateKeeps
<1>9. Looks
  BY <1>1, <1>2, <1>5, Looking DEF Leave
<1>10. QED
  BY <1>9, <1>1, <1>8, SameProgram, Keeping

LEMMA GetByteHolds == ASSUME LInv, em_get_byte PROVE LInv'
<1> USE StateTypes
<1> DEFINE r == dbus_update(lp)
           t == [r EXCEPT !.grayin = <<>>]
           p == None(t)
<1>1. UNCHANGED <<z80, bits>> /\ PeerTypes'
  BY DEF em_get_byte, PeerTypes
<1>2. \/ /\ Len(r.grayin) = NBits /\ Arrives(owed, r.grayin)
         /\ Leave(p, due, Rest(owed), FALSE)
      \/ Len(r.grayin) # NBits /\ Keep(r)
  BY DEF em_get_byte, graylink_get_byte, TakeByte
<1>3. r \in Ports /\ (disturbed = 0 => PortSound(r) /\ Underway(r, z80, bits, due, owed))
  BY UpdateTypes, UpdateKeeps
<1> HIDE DEF r
<1>4. CASE Len(r.grayin) # NBits /\ Keep(r)
  BY <1>1, <1>3, <1>4, SameProgram, Keeping DEF Keep
<1>5. CASE Len(r.grayin) = NBits /\ Arrives(owed, r.grayin) /\ Leave(p, due, Rest(owed), FALSE)
  <2>0. Len(<<>>) = 0 /\ <<>> \in Seq(Bit) /\ NBits > 0 /\ NBits \in Nat
    BY BitsInByte
  <2>1. t \in Ports
    <3>1. t \in Port
      BY <1>3, <2>0 DEF Ports, Port
    <3>2. Fits(t)
      BY <1>3, <2>0 DEF Ports, Port, Fits
    <3>3. QED
      BY <3>1, <3>2 DEF Ports
  <2>2. /\ t.lines = r.lines /\ t.extlines = r.extlines /\ t.mode = r.mode /\ t.flags = r.flags
        /\ t.in = r.in /\ t.out = r.out /\ t.grayin = <<>> /\ t.grayout = r.grayout
        /\ t.grayoutbits = r.grayoutbits /\ t.stops = r.stops
    BY <1>3 DEF Ports, Port
  <2> HIDE DEF t
  <2>3. p \in Ports /\ PortsAlike(p, t)
    BY <2>1, Emulation
  <2> HIDE DEF p
  <2>4. ASSUME disturbed = 0
        PROVE  /\ PortSound(t) /\ Underway(t, z80, bits, due, Rest(owed))
               /\ owed # <<>> /\ Head(owed) = r.grayin
    <3>1. GrayReceived(r) = <<r.grayin>> /\ GrayReceived(t) = <<>> /\ Received(t) = Received(r)
      BY <1>5, <2>0, <2>2 DEF GrayReceived, Received
    <3>2. PortSound(t)
      BY <1>3, <2>2, <2>4 DEF PortSound, Failed
    <3>3. CASE Resting(r, z80, bits) /\ due = Received(r) /\ owed = GrayReceived(r)
      <4>1. Resting(t, z80, bits)
        BY <2>2, <3>3 DEF Resting, Free
      <4>2. owed # <<>> /\ Head(owed) = r.grayin /\ Rest(owed) = <<>>
        BY <3>1, <3>3 DEF Rest
      <4>3. QED
        BY <3>1, <3>2, <3>3, <4>1, <4>2 DEF Underway
    <3>4. \A c \in Byte, k \in 0 .. NBits : ~Coming(r, z80, bits, c, k)
      BY <1>5, <2>0 DEF Coming
    <3>5. ASSUME NEW b \in Byte, NEW k \in 0 .. NBits,
                 Going(r, z80, bits, b, k), due = Received(r), owed = Append(GrayReceived(r), b)
          PROVE  /\ PortSound(t) /\ Underway(t, z80, bits, due, Rest(owed))
                 /\ owed # <<>> /\ Head(owed) = r.grayin
      <4>1. Taken(r.lines, r.extlines, k) = 0
        BY <1>5, <2>0, <3>5 DEF Going, FirstBits
      <4>2. FirstBits(t.grayin, b, Taken(t.lines, t.extlines, k))
        BY <2>0, <2>2, <4>1 DEF FirstBits
      <4>3. Going(t, z80, bits, b, k)
        BY <2>2, <3>5, <4>2 DEF Going, RawPort
      <4>4. owed = Append(<<r.grayin>>, b)
        BY <3>1, <3>5
      <4>5. owed # <<>> /\ Head(owed) = r.grayin /\ Rest(owed) = Append(<<>>, b)
        BY <4>4, TwoInLine DEF Rest
      <4>6. QED
        BY <3>1, <3>2, <3>5, <4>3, <4>5 DEF Underway
    <3>6. QED
      BY <1>3, <2>4, <3>3, <3>4, <3>5 DEF Underway
  <2>5. ~amiss'
    BY <1>5, <2>4 DEF Arrives
  <2>6. disturbed = 0 => PortSound(p) /\ Underway(p, z80, bits, due, Rest(owed))
    BY <2>3, <2>4, PortsAlikeKeep
  <2>7. QED
    BY <1>1, <1>5, <2>3, <2>5, <2>6, SameProgram, Keeping
<1>6. QED
  BY <1>2, <1>4, <1>5

\* A reset that leaves the port quiet begins anew.
LEMMA GrayResetHolds == ASSUME LInv, em_reset PROVE LInv' /\ Looks
<1> USE StateTypes
<1> DEFINE g == Gray(lp)
           f == [g EXCEPT !.grayin = <<>>, !.grayout = <<>>, !.grayoutbits = 0]
           a == dbus_set_extlines(f, 0)
           p == graylink_reset(g)
<1>1. Reset(p) /\ UNCHANGED <<z80, bits>> /\ PeerTypes'
  BY DEF em_reset, PeerTypes
<1>2. p = dbus_update(a)
  BY DEF graylink_reset
<1>3. g \in Ports /\ PortsAlike(g, lp)
  BY Emulation
<1> HIDE DEF g
<1>4. /\ f \in Ports /\ f.lines = g.lines /\ f.flags = g.flags /\ f.in = g.in /\ f.stops = g.stops
      /\ f.grayin = <<>> /\ f.grayoutbits = 0
  <2>1. Len(<<>>) = 0 /\ <<>> \in Seq(Bit) /\ NBits > 0 /\ NBits \in Nat
    BY BitsInByte
  <2>2. f \in Port
    BY <1>3, <2>1 DEF Ports, Port
  <2>3. Fits(f)
    BY <1>3, <2>1 DEF Ports, Port, Fits
  <2>4. /\ f.lines = g.lines /\ f.flags = g.flags /\ f.in = g.in /\ f.stops = g.stops
        /\ f.grayin = <<>> /\ f.grayoutbits = 0
    BY <1>3 DEF Ports, Port
  <2>5. QED
    BY <2>2, <2>3, <2>4 DEF Ports
<1> HIDE DEF f
<1>5. a \in Ports /\ Like(a, f, f.lines, 0)
  BY <1>4, LinesTypes
<1> HIDE DEF a, p
<1>6. p \in Ports
  BY <1>2, <1>5, UpdateTypes
<1>7. ASSUME disturbed = 0 /\ Quiet(lp) PROVE LInv'
  <2>1. lp' = p /\ disturbed' = 0 /\ UNCHANGED <<due, owed, amiss>>
    BY <1>1, <1>7 DEF Reset
  <2>2. PortSound(lp) /\ due = <<>> /\ owed = <<>>
    BY <1>7, QuietRests
  <2>3. z80 = "idle" /\ bits = <<>>
    BY <1>7 DEF Quiet, BitsFit
  <2>4. /\ a.lines = 0 /\ a.extlines = 0 /\ a.in = <<>> /\ a.grayin = <<>> /\ a.grayoutbits = 0
        /\ a.flags \cap {"write_busy", "read_byte"} = {}
    BY <1>3, <1>4, <1>5, <1>7 DEF Quiet, Like, PortsAlike
  <2>5. ~Failed(a)
    BY <1>3, <1>4, <1>5, <2>2 DEF PortSound, Failed, Like, PortsAlike
  <2>6. PortSound(a) /\ Underway(a, "idle", <<>>, <<>>, <<>>)
    BY <1>5, <2>4, <2>5, QuietIs
  <2>7. PortSound(p) /\ Underway(p, "idle", <<>>, <<>>, <<>>)
    <3>1. <<>> \in Seq(Bit)
      OBVIOUS
    <3>2. QED
      BY <1>2, <1>5, <2>6, <3>1, UpdateKeeps
  <2>8. PortSound(lp)' /\ Underway(lp, z80, bits, due, owed)'
    BY <1>1, <2>1, <2>2, <2>3, <2>7
  <2>9. QED
    BY <1>1, <1>6, <2>1, <2>8, SameProgram DEF LInv, Ports, PeerTypes, Z80Types
<1>8. ASSUME ~(disturbed = 0 /\ Quiet(lp)) /\ Quiet(p) /\ ~Failed(p) PROVE LInv'
  <2>1. lp' = p /\ disturbed' = 0 /\ due' = <<>> /\ owed' = <<>> /\ ~amiss'
    BY <1>1, <1>8 DEF Reset
  <2>2. z80 = "idle" /\ bits = <<>>
    BY <1>8 DEF Quiet, BitsFit
  <2>3. PortSound(p) /\ Underway(p, "idle", <<>>, <<>>, <<>>)
    BY <1>6, <1>8, QuietIs DEF Quiet
  <2>4. PortSound(lp)' /\ Underway(lp, z80, bits, due, owed)'
    BY <1>1, <2>1, <2>2, <2>3
  <2>5. QED
    BY <1>1, <1>6, <2>1, <2>4, SameProgram DEF LInv, Ports, PeerTypes, Z80Types
<1>9. ASSUME ~(disturbed = 0 /\ Quiet(lp)) /\ ~(Quiet(p) /\ ~Failed(p)) PROVE LInv'
  <2>1. Leave(p, due, owed, TRUE) /\ ~amiss'
    BY <1>1, <1>9 DEF Reset, Risk
  <2>2. QED
    BY <1>1, <1>6, <2>1, SameProgram, Keeping
<1>10. Looks
  BY <1>1, <1>2, <1>5, Looking DEF Reset, Risk, Leave
<1>11. QED
  BY <1>7, <1>8, <1>9, <1>10

LEMMA CableHolds == ASSUME LInv, NEW l \in 0 .. 3, cable_lines(l) PROVE LInv' /\ Looks
<1> USE StateTypes
<1> DEFINE p == blacklink_set_lines(lp, l)
<1>1. Leave(p, due, owed, TRUE) /\ ~amiss' /\ PeerTypes' /\ UNCHANGED <<z80, bits>>
  BY DEF cable_lines, Risk, PeerTypes
<1>2. p \in Ports /\ Looks
  <2> DEFINE a == dbus_set_extlines(lp, l)
  <2>1. a \in Ports /\ p = dbus_update(a) /\ lp' = p
    BY <1>1, LinesTypes DEF blacklink_set_lines, Leave
  <2> HIDE DEF a, p
  <2>2. QED
    BY <2>1, UpdateTypes, Looking
<1> HIDE DEF p
<1>3. QED
  BY <1>1, <1>2, SameProgram, Keeping

\* A step keeps the invariant, and all but the timer's, get_byte's and the reset's
\* leave the wires settled.
LEMMA StepHolds ==
  ASSUME LInv, LinkNext
  PROVE  LInv' /\ (Looks \/ timer_expires \/ z80_reset \/ em_get_byte)
<1>1. CASE timer_expires \/ z80_reset \/ em_get_byte
  BY <1>1, TimerHolds, ResetHolds, GetByteHolds
<1>2. CASE ~(timer_expires \/ z80_reset \/ em_get_byte)
  BY <1>2, ReadHolds, WriteHolds, ModeHolds, RawSendHolds, RawAcknowledgedHolds, RawNextHolds,
     RawReceiveHolds, RawBitHolds, EmulationHolds, SendByteHolds, GrayResetHolds, CableHolds
  DEF LinkNext
<1>3. QED
  BY <1>1, <1>2

LEMMA StutterHolds == LInv /\ UNCHANGED linkVars => LInv'
<1> SUFFICES ASSUME LInv, UNCHANGED linkVars PROVE LInv'
  OBVIOUS
<1>1. lp' = lp /\ UNCHANGED <<peer, z80, bits, due, owed, amiss, disturbed>>
  BY DEF linkVars
<1>2. BitsFit'
  BY <1>1 DEF LInv, BitsFit
<1>3. disturbed' = 0 => PortSound(lp') /\ Underway(lp', z80', bits', due', owed')
  BY <1>1 DEF LInv
<1>4. QED
  BY <1>1, <1>2, <1>3 DEF LInv

(***************************************************************************)
(* Until something fails, between any two calls the port rests or has one  *)
(* byte on the wires, half of it with each side as the wires say.          *)
(***************************************************************************)
THEOREM LinkHolds == LinkSpec => []LInv
<1>1. LInv /\ [LinkNext]_linkVars => LInv'
  BY StepHolds, StutterHolds
<1>2. QED
  BY <1>1, InitHolds, PTL DEF LinkSpec

(***************************************************************************)
(* With every number of bits, bytes come through the link port unchanged   *)
(* and in order, none lost and none twice, until something fails.          *)
(***************************************************************************)
THEOREM BytesIntact == LinkSpec => []LinkIntact
<1>1. LInv => LinkIntact
  <2> SUFFICES ASSUME LInv, disturbed = 0, Quiet(lp) PROVE due = <<>> /\ owed = <<>>
    BY DEF LinkIntact, LInv
  <2>1. lp \in Ports /\ Underway(lp, z80, bits, due, owed)
    BY StateTypes
  <2>2. QED
    BY <2>1, QuietRests
<1>2. QED
  BY <1>1, LinkHolds, PTL

\* Its registers never hold more than a byte.
THEOREM LinkTypes == LinkSpec => []LinkTypeOK
<1>1. LInv => LinkTypeOK
  <2> SUFFICES ASSUME LInv PROVE LinkTypeOK
    OBVIOUS
  <2>1. \A s \in Seq(Bit) : Len(s) <= NBits => s \in Bits
    <3> SUFFICES ASSUME NEW s \in Seq(Bit), Len(s) <= NBits PROVE s \in Bits
      OBVIOUS
    <3>1. Len(s) \in 0 .. NBits /\ s \in [1 .. Len(s) -> Bit]
      BY BitsInByte, LenProperties
    <3>2. QED
      BY <3>1 DEF Bits
  <2>2. /\ lp.in \in Bits /\ lp.out \in Bits /\ lp.grayin \in Bits /\ lp.grayout \in Bits
        /\ bits \in Bits
    BY <2>1 DEF LInv, Port, Fits, BitsFit
  <2>3. lp.grayoutbits \in 0 .. NBits + 1
    BY BitsInByte DEF LInv, Port, Fits
  <2>4. QED
    BY <2>2, <2>3 DEF LinkTypeOK, LInv, Port
<1>2. QED
  BY <1>1, LinkHolds, PTL

(***************************************************************************)
(* Every call but get_byte, the timer and the reset leaves the wires as    *)
(* the loop of dbus_update would leave them once more.                     *)
(***************************************************************************)
THEOREM WiresSettle == LinkSpec => LinkSettled
<1> DEFINE A == \/ Wires(lp') = Wires(lp) \/ lp'.linkemu # lp.linkemu
                \/ Wires(dbus_update(lp')) = Wires(lp')
                \/ em_get_byte \/ timer_expires \/ z80_reset
<1>1. LInv /\ [LinkNext]_linkVars => [A]_linkVars
  <2> SUFFICES ASSUME LInv, LinkNext PROVE A
    OBVIOUS
  <2>1. Looks \/ timer_expires \/ z80_reset \/ em_get_byte
    BY StepHolds
  <2>2. QED
    BY <2>1, Zenon DEF Looks
<1>2. QED
  BY <1>1, LinkHolds, PTL DEF LinkSpec, LinkSettled

=============================================================================
