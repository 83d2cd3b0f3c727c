------------------------------ MODULE MCDisasm ------------------------------
(***************************************************************************)
(* Small instances of the disassembler: its tables while symbol files are   *)
(* read, its lines against what the emulated processor does with the same    *)
(* bytes, its search for the previous line, and the list in the debugger.    *)
(***************************************************************************)
EXTENDS DisasmView, MCZ80

Word(digit, b, hex, name) == [digit |-> digit, bit |-> b, hex |-> hex, name |-> name]
Numbered(n) == Word(TRUE, -1, n, "0")
Text(name) == Word(FALSE, -1, -1, name)
Pairing(a, b) == [kind |-> "words", first |-> a, second |-> b]

\* Values in front of names and behind them; a number that looks like a name; flags
SymLines ==
  {[kind |-> "section", table |-> t] : t \in {"labels", "macros"}}
    \cup {[kind |-> "comment", first |-> Text("x"), second |-> Text("x")],
          Pairing(Word(FALSE, -1, 40960, "A000"), Text("start")),
          Pairing(Text("start"), Numbered(5)), Pairing(Numbered(5), Text("flags")),
          Pairing(Numbered(7), Text("start")), Pairing(Numbered(5), Text("end")),
          Pairing(Numbered(9), Text("end")), Pairing(Word(TRUE, 3, 2, "0"), Text("flags"))}

Sym(name, value) == [name |-> name, value |-> value]
Macros == [call |-> <<[letter |-> "c", at |-> -1]>>,
           data |-> <<[letter |-> "b", at |-> 1], [letter |-> "w", at |-> -1]>>]
Tables ==
  [labels |-> <<Sym("first", 2), Sym("middle", 300), Sym("high", 33000), Sym("flags", 35000)>>,
   romcalls |-> <<Sym("call", 300)>>, flags |-> <<Sym("byte", 2), Sym("whole", 4096 + 34)>>,
   macros |-> <<Sym("call", 239), Sym("data", 60909)>>]
ViewLabels == [NoTables EXCEPT !.labels = <<Sym("first", 2), Sym("middle", 6)>>]

\* Memories of five banks: a few bytes over and over, of instructions of all lengths
Repeated(w) == [a \in 0..19 |-> w[(a % Len(w)) + 1]]
ShortBytes == {Repeated(w) : w \in [1..4 -> {0, 6, 221, 54}]}
ViewBytes == {Repeated(<<1, 0, 6>>)}
OneCode == {Repeated(<<0>>)}
SymBytes == {Repeated(<<239, 2, 3, 237, 237, 4, 5, 6, 0, 253, 203, 2, 94>>)}

\* Every opcode, and jumps back, in front of zeros
Padded(code) == [a \in 0..19 |-> IF a < Len(code) THEN code[a + 1] ELSE 0]
Opcodes ==
  {Padded(prefix \o <<op, 2, 3>>) : prefix \in {<<>>, <<203>>, <<237>>, <<221>>}, op \in 0..255}
    \cup {Padded(<<253, 203, 2, op>>) : op \in 0..255}
    \cup {Padded(<<op, 200>>) : op \in {16, 24, 32}}
Memories == OneCode \cup ShortBytes \cup ViewBytes \cup SymBytes \cup Opcodes

Flat == [i \in 0..3 |-> i]
Maps == {Flat, (0 :> 0) @@ (1 :> 3) @@ (2 :> 4) @@ (3 :> 3)}

Exec(type, start, end) == [type |-> type, mode |-> {"exec"}, start |-> start, end |-> end,
                           disabled |-> FALSE]
Breaks == {<<Exec("physical", 14, 14), Exec("logical", 3, 7)>>}
Strays == {Missed, 1}
Asks == {[addr |-> 2, logical |-> TRUE], [addr |-> 14, logical |-> FALSE]}

-----------------------------------------------------------------------------
(***************************************************************************)
(* A line against the processor, which executes it with all flags set and   *)
(* reset and with one and two turns to go for DJNZ.  Registers hold 254 in   *)
(* each byte and the memory from 770 on holds 7, if not changed by the line.  *)
(***************************************************************************)
Ran(code, F, b) ==
  Turn([Blank EXCEPT !.reg = [[r \in Register |-> 254] EXCEPT !.b = b], !.SP = 65278, !.F = F,
                     !.mem = [a \in Org..Org + 19 |-> code[a - Org]]
                               @@ (770 :> 7) @@ (771 :> 7)])

\* Prefixes without effect are lines of their own
FirstLine ==
  LET skip[a \in 0..4] ==
        IF bytes[a] \in {221, 253} /\ get_instruction_info(FetchLine(TRUE, a, 4)).base = 0
        THEN skip[a + 1] ELSE a
  IN skip[0]
OperandValue(p) == p.at + p.plus

\* Instructions that go to where no operand says: RET, JP (HL), HALT, and the ones
\* that repeat themselves
GoesElsewhere(first) ==
  LET op == bytes[first] IN
  \/ op \in {118, 201, 233} \/ (op > 191 /\ op % 8 = 0)
  \/ op = 221 /\ bytes[first + 1] = 233
  \/ op = 237 /\ (bytes[first + 1] \in 176..191 \/ bytes[first + 1] % 8 = 5)

\* What is shown of an instruction is what the processor makes of it: it goes on
\* with the next line or where the operand says, both if that depends on flags;
\* and it takes its constants, addresses and bits from where the operands say.
LineRight(first, shown, next, ran) ==
  LET Of(letters) == {OperandValue(shown[i].shown) :
                        i \in {j \in DOMAIN shown : shown[j].letter \in letters}}
      goes == {t.PC : t \in ran}
      t == CHOOSE t \in ran : TRUE
      op == bytes[IF bytes[first] \in {221, 253, 237} THEN first + 1 ELSE first]
      ix == 65278
      target == Of({"j", "r", "z"})
  IN /\ target # {} => target \subseteq goes /\ goes \subseteq target \cup {next}
     /\ target = {} => goes = {next} \/ GoesElsewhere(first)
     /\ \A w \in Of({"w"}) : \E p \in DOMAIN HighOf \cup {"sp"} : Get(t, p) = w
     /\ \A w \in Of({"a"}) :
          readb(t, w) = 254 \/ (\E r \in Register : t.reg[r] = 7) \/ t.SP = 1799
     /\ op < 64 /\ op % 8 = 6 /\ shown # <<>> /\ bytes[first] # 237 =>
          LET n == OperandValue(shown[Len(shown)].shown)
              at == IF Of({"s"}) = {} THEN 65278 ELSE ix + CHOOSE d \in Of({"s"}) : TRUE
          IN IF op = 54 THEN readb(t, at) = n ELSE \E r \in Register : t.reg[r] = n
     /\ bytes[first] = 253 /\ bytes[first + 3] > 191 /\ shown[1].letter = "f" =>
          readb(t, ix + OperandValue(shown[1].shown.to)) = 2^shown[1].shown.bit

LineAt(first) ==
  LineRight(first, disassemble_pattern(FetchLine(TRUE, first, 6), Org + first),
            Org + NextAddress(TRUE, first),
            {Ran(bytes, F, b) : F \in {{}, Flag}, b \in {1, 2}})
LinesRight == LineAt(FirstLine)

-----------------------------------------------------------------------------
VARIABLE task  \* what is checked of the disassembler

disasmVars == <<viewVars, task>>

DisassemblerInit ==
  \/ task = "symbols" /\ stray = Missed /\ ViewInit(NoTables, SymBytes) /\ mempagemap = Flat
  \/ task = "names" /\ stray = Missed /\ ViewInit(Tables, SymBytes) /\ mempagemap = Flat
  \/ task = "lines" /\ stray = Missed /\ ViewInit(NoTables, Opcodes) /\ mempagemap = Flat
  \/ task = "before" /\ stray = Missed /\ ViewInit(NoTables, ShortBytes) /\ mempagemap = Flat
  \/ task = "list" /\ ViewInit(ViewLabels, ViewBytes) /\ mempagemap = Flat
DisassemblerIdle ==
  /\ task = "none" /\ dasm = <<>> /\ curtbl = <<>> /\ nlines = <<>> /\ wanted = <<>>
  /\ bytes = <<>> /\ mempagemap = <<>> /\ stray = <<>> /\ dv = <<>>
  /\ breakpoints = <<>> /\ command = <<>>
DisassemblerNext ==
  /\ UNCHANGED task
  /\ \/ task = "symbols" /\ UNCHANGED <<dv, breakpoints, command>>
        /\ \E line \in SymLines : read_symbol_line(line)
     \/ task = "list" /\ ViewNext

DisassemblerTypeOK == DisasmTypeOK /\ ViewTypeOK

\* What the debugger shows of the program is right: the names of addresses, the
\* lines and their operands, the line before one, and the list with its cursor and
\* its breakpoints.
DisassemblerRight ==
  CASE task = "symbols" -> TablesRight /\ NamesRight({0, 5, 7, 9, 300, 40960, 40970, 41024})
    [] task = "names" -> NamesRight({0, 2, 6, 255, 300, 363, 364, 33000, 33063, 33064,
                                     35000, 35002, 40000})
    [] task = "lines" -> LinesRight
    [] task = "before" -> PreviousRight
    [] task = "list" -> ListRight /\ IconsAgree /\ ToggleRight
    [] OTHER -> TRUE
=============================================================================
