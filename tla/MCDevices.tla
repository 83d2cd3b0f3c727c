------------------------------ MODULE MCDevices ------------------------------
(***************************************************************************)
(* Small instances of parts of the emulated calculator, which share no     *)
(* state. A behaviour is one of one part; the others stay as they begin,   *)
(* so that TLC visits the sum of their states and not the product.         *)
(***************************************************************************)
EXTENDS TimerList, LinkPort, Flash, UserTimers, Breakpoints, MCHardware, TLC

\* The two addresses that take part in the commands, one of them in a sector that
\* is protected
Addrs == {"pAAA", "q555"}
Lows == ("pAAA" :> "AAA") @@ ("q555" :> "555")
SectorMap == ("pAAA" :> "p") @@ ("q555" :> "q")
SectorGroups == ("p" :> {}) @@ ("q" :> {"g"})

\* Without the link assist, and with all of its interrupts
Modes == {{}, {"assist", "int_read", "int_idle", "int_error"}}

\* What the user may set a breakpoint to
Shapes == {[type |-> t, modes |-> {"x"}, disabled |-> FALSE] : t \in {"logical", "opcode"}}

\* The debugger has no order of its breakpoints
Alike == Permutations(DbBp)

VARIABLE part  \* the part that is at work

Others(p) ==
  /\ p # "timers" => UNCHANGED listVars
  /\ p # "link" => UNCHANGED linkVars
  /\ p # "flash" => UNCHANGED flashVars
  /\ p # "user" => UNCHANGED userVars
  /\ p # "breakpoints" => UNCHANGED bpVars
  /\ p # "hardware" => UNCHANGED hwVars

\* Parts that are not at work begin in one way only
DevicesInit ==
  /\ part \in {"timers", "link", "flash", "user", "breakpoints", "hardware"}
  /\ ListInit /\ LinkInit /\ (part # "link" => lp = NewPort("none"))
  /\ BpInit /\ (part # "breakpoints" => ~paused)
  /\ UserInit /\ (part # "user" => ~halted)
  /\ FlashInit /\ (part # "flash" => ~emuflags /\ \A a \in Addr : mem[a] = 0)
  /\ HwInit /\ (part # "hardware" => use = Outputs("x1", BankPorts["x1"], {"reset"}))

DevicesNext ==
  /\ UNCHANGED part /\ Others(part)
  /\ \/ part = "timers" /\ ListNext
     \/ part = "link" /\ LinkNext
     \/ part = "flash" /\ FlashNext
     \/ part = "user" /\ UserNext
     \/ part = "breakpoints" /\ BpNext
     \/ part = "hardware" /\ HwNext

DevicesSpec ==
  DevicesInit
    /\ [][DevicesNext]_<<listVars, linkVars, flashVars, userVars, bpVars, hwVars, part>>

\* The variables of the part at work have their types
DevicesTypeOK ==
  CASE part = "timers" -> ListTypeOK [] part = "link" -> LinkTypeOK
    [] part = "flash" -> FlashTypeOK [] part = "user" -> UserTypeOK
    [] part = "breakpoints" -> BpTypeOK [] part = "hardware" -> HwTypeOK
=============================================================================
