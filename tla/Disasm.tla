------------------------------- MODULE Disasm -------------------------------
(***************************************************************************)
(* The disassembler (db/disasm.c) and the search for the line before an     *)
(* address (db/prevaddr.c): tables of named values that symbol files fill,   *)
(* the table of instructions, what a line shows of its operands, and where   *)
(* the next and the previous line begin.                                     *)
(* A pattern is the list of its arguments, each with its letter; mnemonics,  *)
(* register names and the size of the text buffer are left out.              *)
(***************************************************************************)
EXTENDS Integers, Sequences, FiniteSets
LOCAL INSTANCE SequencesExt
LOCAL INSTANCE FiniteSetsExt

CONSTANTS
  Code,      \* contents of the memory, as functions from 0..size - 1
  SymLine,   \* lines of symbol files
  MacroArgs, \* the arguments of a macro: from its name to a list of arguments
  MacroBytes, \* longest opcode of a macro (4)
  FlagsName, \* the name "flags", of the label that flags are relative to
  BankSize,  \* bytes in a bank of the address space, which has four (2^14)
  PageMap,   \* page maps: functions from 0..3 to pages
  Window,    \* longest line, and lines to look back for (REWIND_WINDOW_SIZE)
  RewindLimit, \* bytes to look back (REWIND_LIMIT)
  Stray,     \* values that a read outside of destbuf can give
  MaxLines   \* bound: lines of symbol files

ASSUME DisasmConstants ==
  /\ BankSize \in Nat \ {0} /\ Window \in Nat \ {0} /\ RewindLimit \in Nat
  /\ MaxLines \in Nat /\ MacroBytes \in 1..4

VARIABLES
  dasm,      \* the tables, sorted by value
  curtbl,    \* the section of the file that is read
  nlines,    \* lines that have been read
  wanted,     \* history: per table, which name stands for which value
  bytes,     \* the memory of the calculator
  mempagemap, \* the page that each bank shows
  stray      \* what happens to be in the memory around destbuf

dasmVars == <<dasm, curtbl, nlines, wanted, bytes, mempagemap, stray>>

Table == {"labels", "romcalls", "flags", "macros"}
NoTables == [t \in Table |-> <<>>]

-----------------------------------------------------------------------------
(* Tables of symbols *)

Lesser(sym, value, orEqual) == sym.value < value \/ (orEqual /\ sym.value = value)

\* The search by halves: how many symbols are below the value
Bisect(stab, value, orEqual) ==
  LET go[b, e \in 0..Len(stab)] ==
        LET i == (b + e) \div 2 IN
        IF b >= e THEN b
        ELSE IF Lesser(stab[i + 1], value, orEqual) THEN go[i + 1, e] ELSE go[b, i]
  IN go[0, Len(stab)]

\* A table of no or of one symbol
OfValue(stab, p, value) == IF p <= Len(stab) /\ stab[p].value = value THEN <<stab[p]>> ELSE <<>>
find_symbol(stab, value) == OfValue(stab, Bisect(stab, value, FALSE) + 1, value)

find_prev_symbol(stab, value) ==
  LET p == Bisect(stab, value, TRUE) IN IF p > 0 THEN <<stab[p]>> ELSE <<>>

find_symbol_by_name(stab, name) == SelectInSeq(stab, LAMBDA s : s.name = name)

set_symbol(stab, name, value) ==
  LET old == find_symbol_by_name(stab, name)
      left == IF old = 0 THEN stab ELSE RemoveAt(stab, old)
      p == Bisect(left, value, FALSE)
      sym == [name |-> name, value |-> value]
  IN IF old # 0 /\ stab[old].value = value THEN stab
     ELSE IF find_symbol(left, value) # <<>> THEN ReplaceAt(left, p + 1, sym)
     ELSE InsertAt(left, p + 1, sym)

-----------------------------------------------------------------------------
(* Symbol files.  A word is taken apart into the number that it is, if any,  *)
(* with the bit in front of a comma, and the name that it is.                *)

NoNumber == -1

parse_sym_value(word) ==
  IF word.hex = NoNumber \/ word.bit = NoNumber THEN word.hex
  ELSE 4096 + 16 * word.hex + word.bit

\* The name and the value of a line of two words: the value comes first if it
\* begins with a decimal digit
parse_sym_line(line) ==
  IF line.first.digit THEN [name |-> line.second.name, value |-> parse_sym_value(line.first)]
  ELSE [name |-> line.first.name, value |-> parse_sym_value(line.second)]

\* What the tables mean when a name has been given a value, which no other has
Named(names, name, value) ==
  {s \in names : s.name # name /\ s.value # value} \cup {[name |-> name, value |-> value]}

\* tilem_disasm_read_symbol_file, one line
read_symbol_line(line) ==
  /\ nlines < MaxLines /\ nlines' = nlines + 1
  /\ IF line.kind = "section" THEN curtbl' = line.table /\ UNCHANGED <<dasm, wanted>>
     ELSE
       LET sym == parse_sym_line(line) IN
       /\ UNCHANGED curtbl
       /\ IF line.kind = "comment" \/ sym.value = NoNumber THEN UNCHANGED <<dasm, wanted>>
          ELSE /\ dasm' = [dasm EXCEPT ![curtbl] = set_symbol(@, sym.name, sym.value)]
               /\ wanted' = [wanted EXCEPT ![curtbl] = Named(@, sym.name, sym.value)]
  /\ UNCHANGED <<bytes, mempagemap, stray>>

-----------------------------------------------------------------------------
(* Instructions *)

\* An argument takes the bytes behind the last one, or at an explicit place
Arg(letter) == [letter |-> letter, at |-> -1]
Args(letters) == [i \in DOMAIN letters |-> Arg(letters[i])]

insts_main ==
  [op \in 0..255 |->
    LET x == op \div 64
        z == op % 8
    IN CASE op \in {1, 17, 33, 49} -> [length |-> 3, args |-> <<"w">>]
         [] op \in {34, 42, 50, 58} -> [length |-> 3, args |-> <<"a">>]
         [] op \in {16, 24, 32, 40, 48, 56} -> [length |-> 2, args |-> <<"r">>]
         [] (x \in {0, 3} /\ z = 6) \/ op \in {211, 219} -> [length |-> 2, args |-> <<"b">>]
         [] (x = 3 /\ z \in {2, 4}) \/ op \in {195, 205} -> [length |-> 3, args |-> <<"j">>]
         [] x = 3 /\ z = 7 -> [length |-> 1, args |-> <<"z">>]
         [] OTHER -> [length |-> 1, args |-> <<>>]]

\* The instructions with an index register; the others, of which only the prefix
\* is shown, have no pattern
insts_ddfd ==
  [op \in 0..255 |->
    LET y == (op \div 8) % 8
        z == op % 8
        indexed == [length |-> 3, args |-> <<"i", "s">>]
        pair == [length |-> 2, args |-> <<"i">>]
    IN CASE op = 33 -> [length |-> 4, args |-> <<"i", "w">>]
         [] op = 34 -> [length |-> 4, args |-> <<"a", "i">>]
         [] op = 42 -> [length |-> 4, args |-> <<"i", "a">>]
         [] op \in {38, 46} -> [length |-> 3, args |-> <<"i", "b">>]
         [] op = 54 -> [length |-> 4, args |-> <<"i", "s", "b">>]
         [] op \in {52, 53} -> indexed
         [] op \in 64..127 /\ op # 118 /\ (y = 6 \/ z = 6) -> indexed
         [] op \in 128..191 /\ z = 6 -> indexed
         [] op \in {9, 25, 41, 57, 35, 43, 36, 37, 44, 45, 225, 227, 229, 233, 249} -> pair
         [] op \in 64..127 /\ y # 6 /\ z # 6 /\ {y, z} \cap {4, 5} # {} -> pair
         [] op \in 128..191 /\ z \in {4, 5} -> pair
         [] OTHER -> [length |-> 1, args |-> <<"none">>]]

insts_cb == [op \in 0..255 |-> [length |-> 2, args |-> <<>>]]

\* With BIT the register in the opcode has no effect
insts_ddfdcb ==
  [op \in 0..255 |->
    [length |-> 4,
     args |-> IF op \in 64..127 \/ (op > 127 /\ op % 8 = 6) THEN <<"f">> ELSE <<"i", "s">>]]

insts_ed ==
  [op \in 0..255 |->
    CASE op \in 64..127 /\ op % 8 = 3 -> [length |-> 4, args |-> <<"a">>]
      [] op \in 64..127 /\ op % 8 # 3 /\ op \notin {119, 127} -> [length |-> 2, args |-> <<>>]
      [] op \in 160..191 /\ op % 8 < 4 -> [length |-> 2, args |-> <<>>]
      [] OTHER -> [length |-> 2, args |-> <<"none">>]]

ArgBytes(letter) ==
  CASE letter \in {"b", "C", "r", "s"} -> 1
    [] letter \in {"a", "c", "f", "j", "w"} -> 2
    [] OTHER -> 0

\* Where each argument is, relative to the first one, and how many bytes they take
\* (pattern_arg_size and disassemble_pattern count in the same way)
Places(args) ==
  FoldLeft(LAMBDA acc, arg :
             LET at == IF arg.at = -1 THEN acc.size ELSE arg.at
             IN [at |-> Append(acc.at, at), size |-> Max({acc.size, at + ArgBytes(arg.letter)})],
           [at |-> <<>>, size |-> 0], args)
pattern_arg_size(args) == Places(args).size

\* The number that the first n bytes make
Prefix(instr, n) == FoldLeft(LAMBDA acc, i : (256 * acc) + instr[i - 1], 0, [i \in 1..n |-> i])

InstPattern(instr) ==
  CASE instr[0] = 237 -> insts_ed[instr[1]]
    [] instr[0] \in {221, 253} /\ instr[1] = 203 -> insts_ddfdcb[instr[3]]
    [] instr[0] \in {221, 253} /\ instr[1] # 203 -> insts_ddfd[instr[1]]
    [] instr[0] = 203 -> insts_cb[instr[1]]
    [] OTHER -> insts_main[instr[0]]

OfMacro(n, args) == [length |-> n + pattern_arg_size(args), base |-> n, args |-> args]
OfInstruction(ii, base) ==
  IF ii.args = <<"none">>
    THEN [length |-> ii.length, base |-> 0, args |-> [i \in 1..ii.length |-> Arg("b")]]
  ELSE [length |-> ii.length, base |-> base, args |-> Args(ii.args)]

\* A macro's opcode is the shortest one that has a name: the macro as a table of no or
\* of one symbol
macro_of(instr) ==
  FoldLeft(LAMBDA found, n :
             IF found.macro # <<>> THEN found
             ELSE [bytes |-> n, macro |-> find_symbol(dasm.macros, Prefix(instr, n))],
           [bytes |-> 0, macro |-> <<>>], [n \in 1..MacroBytes |-> n])
InfoOf(instr, found) ==
  IF instr[0] # 0 /\ found.macro # <<>> THEN OfMacro(found.bytes, MacroArgs[found.macro[1].name])
  ELSE OfInstruction(InstPattern(instr), IF instr[0] \in {203, 221, 237, 253} THEN 2 ELSE 1)
get_instruction_info(instr) == InfoOf(instr, macro_of(instr))

-----------------------------------------------------------------------------
(***************************************************************************)
(* What is shown of an operand: a name and what is to be added to it, or a *)
(* number.  The name that is shown stands for the value `at`.              *)
(***************************************************************************)
Number(n) == [name |-> "none", at |-> 0, plus |-> n]
Relative_to(sym, n) == [name |-> sym.name, at |-> sym.value, plus |-> n]

\* Behind the label "flags" everything is relative to it, be it a flag's name or not
print_word(w, autonum, autodiff) ==
  LET prev == find_prev_symbol(dasm.labels, w)
      far == w - prev[1].value
  IN IF (autonum /\ w < 256) \/ prev = <<>> THEN Number(w)
     ELSE IF \/ prev[1].name = FlagsName \/ far = 0
             \/ (autodiff /\ w > 32768 /\ far < 64)
       THEN Relative_to(prev[1], far)
     ELSE Number(w)

print_romcall(w) ==
  LET sym == find_symbol(dasm.romcalls, w)
  IN IF sym = <<>> THEN Number(w) ELSE Relative_to(sym[1], 0)

Displacement(b) == IF b < 128 THEN b ELSE b - 256

\* Bit and displacement from IX or IY: a flag that has a name, a byte of flags
\* that has one, a number
print_flag(bit, offset, prefix) ==
  LET whole == find_symbol(dasm.flags, 4096 + 16 * offset + bit)
      part == find_symbol(dasm.flags, offset)
  IN [bit |-> bit,
      to |-> IF prefix = 253 /\ whole # <<>> THEN Relative_to([whole[1] EXCEPT !.value = offset], 0)
             ELSE IF prefix = 253 /\ part # <<>> THEN Relative_to(part[1], 0)
             ELSE Number(Displacement(offset))]

\* The operand at a place, with the bytes of the line and the address of it
print_operand(letter, ibuf, offs, pc) ==
  LET w == ibuf[offs] + 256 * ibuf[offs + 1] IN
  CASE letter = "a" -> print_word(w, FALSE, TRUE)
    [] letter = "b" -> Number(ibuf[offs])
    [] letter = "c" -> print_romcall(w)
    [] letter = "C" -> print_romcall(ibuf[offs])
    [] letter = "f" -> print_flag((ibuf[offs + 1] \div 8) % 8, ibuf[offs], ibuf[0])
    [] letter = "j" -> print_word(w, FALSE, FALSE)
    [] letter = "r" -> print_word(pc + offs + 1 + Displacement(ibuf[offs]), FALSE, FALSE)
    [] letter = "s" ->
         LET sym == find_symbol(dasm.flags, ibuf[offs]) IN
         IF ibuf[0] = 253 /\ sym # <<>> THEN Relative_to(sym[1], 0)
         ELSE Number(Displacement(ibuf[offs]))
    [] letter = "w" -> print_word(w, TRUE, TRUE)
    [] letter = "z" -> print_word(8 * ((ibuf[0] \div 8) % 8), FALSE, FALSE)
    [] letter = "i" -> Number(ibuf[0])

\* What a line shows, from its bytes: where it ends, and its operands
OperandsShown(info, ibuf, pc) ==
  LET at == Places(info.args).at
  IN [i \in DOMAIN at |->
       [letter |-> info.args[i].letter,
        shown |-> print_operand(info.args[i].letter, ibuf, info.base + at[i], pc)]]
disassemble_pattern(ibuf, pc) == OperandsShown(get_instruction_info(ibuf), ibuf, pc)

-----------------------------------------------------------------------------
(* The memory, by address of the whole (phys) or as the processor sees it *)

Size == Cardinality(DOMAIN bytes)
Space(phys) == IF phys THEN Size ELSE 4 * BankSize

hw_mem_ltop(a) == mempagemap[a \div BankSize] * BankSize + (a % BankSize)

\* The first bank that shows the address, if any
Showing(a) == {i \in 0..3 : mempagemap[i] = a \div BankSize}
hw_mem_ptol(a) ==
  IF Showing(a) = {} THEN NoNumber ELSE Min(Showing(a)) * BankSize + (a % BankSize)
default_ptol(a) == IF hw_mem_ptol(a) = NoNumber THEN (a % BankSize) + BankSize ELSE hw_mem_ptol(a)

FetchLine(phys, addr, n) ==
  [i \in 0..n - 1 |->
    LET a == (addr + i) % Space(phys) IN bytes[IF phys THEN a ELSE hw_mem_ltop(a)]]

\* tilem_disasm_disassemble: the address of the next line, and this one's operands
NextAddress(phys, addr) ==
  (addr + get_instruction_info(FetchLine(phys, addr, 4)).length) % Space(phys)
Operands(phys, addr) ==
  disassemble_pattern(FetchLine(phys, addr, Max({4, Window + 1})),
                      IF phys THEN default_ptol(addr) ELSE addr)

-----------------------------------------------------------------------------
(***************************************************************************)
(* tilem_disasm_guess_prev_address.  before[n] is the address of the line   *)
(* before addr in the disassembly that begins n bytes before addr, or -1 if *)
(* that misses addr.  After a line that goes around the end of the memory    *)
(* the code reads outside of destbuf.                                        *)
(***************************************************************************)
Missed == -1

\* By way of the next line of the disassembly, n bytes before addr
Via(before, addr, n, next) ==
  IF n > addr THEN Missed
  ELSE IF next = addr THEN addr - n
  ELSE IF next < addr - n THEN stray
  ELSE IF next < addr THEN before[addr - next]
  ELSE Missed
FurtherUp(before, phys, addr, n) ==
  Append(before, Via(before, addr, n, NextAddress(phys, addr - n)))
LinesBefore(phys, addr, limit) ==
  LET before[n \in 0..limit] ==
        IF n = 0 THEN <<>> ELSE FurtherUp(before[n - 1], phys, addr, n)
  IN before[limit]

\* The line that all of Window disassemblies in a row agree upon, of those that hit
Agreed(before, otherwise) ==
  LET hits(n) == {before[m] : m \in (n - Window + 1)..n} \ {Missed}
      stops == {n \in Window..RewindLimit : Cardinality(hits(n)) < 2}
  IN IF stops # {} /\ hits(Min(stops)) # {}
       THEN CHOOSE a \in hits(Min(stops)) : TRUE
     ELSE otherwise
guess_prev_address(phys, addr) ==
  Agreed(LinesBefore(phys, addr, RewindLimit), (addr - 1) % Space(phys))

-----------------------------------------------------------------------------
\* With tables of which the values ascend, and any of some memories
DisasmInit(tables, memories) ==
  /\ dasm = tables /\ wanted = [t \in Table |-> Range(tables[t])]
  /\ curtbl = "labels" /\ nlines = 0
  /\ bytes \in memories /\ mempagemap \in PageMap /\ stray \in Stray

DisasmTypeOK ==
  /\ \A t \in Table : \A i \in DOMAIN dasm[t] : dasm[t][i].value \in Nat
  /\ curtbl \in Table /\ nlines \in 0..MaxLines
  /\ bytes \in Code /\ mempagemap \in PageMap /\ stray \in Stray

\* Whatever files define whatever names anew, a table gives each name the value that
\* was given to it last, unless that has since been given to another name, and its
\* values ascend, as the searches by halves in db/disasm.c:81-119 rely upon.
TablesRight ==
  \A t \in Table :
    /\ Range(dasm[t]) = wanted[t] /\ Len(dasm[t]) = Cardinality(wanted[t])
    /\ \A i \in 1..Len(dasm[t]) - 1 : dasm[t][i].value < dasm[t][i + 1].value

\* A number that is shown as a name, with or without a difference, is what it is
\* shown as (db/disasm.c:809-840), for words that do and that do not look like
\* addresses.
NamesRight(words) ==
  \A w \in words, autonum, autodiff \in BOOLEAN :
    LET p == print_word(w, autonum, autodiff) IN
    /\ p.at + p.plus = w /\ p.plus >= 0
    /\ p.name # "none" => [name |-> p.name, value |-> p.at] \in wanted.labels

\* The line that is taken for the one before an address ends there, or is a single
\* byte; and where all disassemblies that begin a line's length or more further up
\* and come to the address do so by way of one line, it is that line
\* (db/prevaddr.c:75-97).
\* Left out are addresses below lines that go around the end of the memory, which
\* the search does not expect.
PreviousRight ==
  \A phys \in BOOLEAN :
    LET onward == {a \in 0..Space(phys) - 1 : NextAddress(phys, a) > a}
    IN \A addr \in 1..Space(phys) - 1 :
         LET p == guess_prev_address(phys, addr)
             before == LinesBefore(phys, addr, addr)
             far == {before[n] : n \in Window..addr} \ {Missed}
         IN 0..addr - 1 \subseteq onward =>
              /\ NextAddress(phys, p) = addr \/ p = addr - 1
              /\ Cardinality(far) = 1 => p \in far
=============================================================================
