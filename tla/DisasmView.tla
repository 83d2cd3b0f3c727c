----------------------------- MODULE DisasmView -----------------------------
(***************************************************************************)
(* The list of disassembled lines in the debugger (gui/disasmview.c).  The  *)
(* list holds as many lines as fit; moving the cursor beyond them makes a    *)
(* new one.  A position is twice an address, plus one for the instruction    *)
(* when a label's line is above it.  The program may change the page map     *)
(* at any time, which the list shows when it is made anew.                   *)
(***************************************************************************)
EXTENDS Disasm
LOCAL INSTANCE SequencesExt
LOCAL INSTANCE FiniteSetsExt
LOCAL INSTANCE TLC

CONSTANTS
  Fitting,     \* lines that fit
  Count,     \* how far the cursor is moved at a time
  GoTo,      \* addresses the user asks for, with whether they are logical
  LineBp,    \* lists of breakpoints that other dialogs have set
  MaxAsked   \* bound: times that the user asks for something

ASSUME ViewConstants == Fitting \in Nat \ {0} /\ Count \subseteq Nat \ {0}

VARIABLES
  dv,          \* the list
  breakpoints, \* the debugger's, in order
  command      \* history: what the user last asked for, and how it was before

viewVars == <<dasmVars, dv, breakpoints, command>>

NoPos == -1
NoCommand == [name |-> "none", want |-> NoPos, before |-> 0, nth |-> 0]

POS_TO_ADDR(pos) == pos \div 2
ADDR_TO_POS(addr) == 2 * addr

Labelled(logical, addr) ==
  find_symbol(dasm.labels, IF logical THEN addr ELSE default_ptol(addr)) # <<>>

get_next_pos(logical, pos) ==
  IF pos % 2 = 0 /\ Labelled(logical, POS_TO_ADDR(pos)) THEN pos + 1
  ELSE ADDR_TO_POS(NextAddress(~logical, POS_TO_ADDR(pos)))

\* The last line of the instruction at a2, above the one at addr
Above(logical, addr, a2) ==
  ADDR_TO_POS(a2) + IF a2 # addr /\ Labelled(logical, a2) THEN 1 ELSE 0
get_prev_pos(logical, pos) ==
  IF pos % 2 = 1 THEN pos - 1
  ELSE Above(logical, POS_TO_ADDR(pos), guess_prev_address(~logical, POS_TO_ADDR(pos)))

\* The lines from pos on, to the one that is n further down or up
LinesDown(logical, pos, n) ==
  FoldLeft(LAMBDA lines, i : Append(lines, get_next_pos(logical, Last(lines))), <<pos>>,
           [i \in 1..n |-> i])
LinesUp(logical, pos, n) ==
  FoldLeft(LAMBDA lines, i : Append(lines, get_prev_pos(logical, Last(lines))), <<pos>>,
           [i \in 1..n |-> i])
Down(logical, pos, n) == Last(LinesDown(logical, pos, n))
Up(logical, pos, n) == Last(LinesUp(logical, pos, n))

-----------------------------------------------------------------------------
(* Breakpoints on a line *)

Covers(bp, addr) == addr \in bp.start..bp.end

\* Whether a breakpoint is for a logical or for a physical address
At_logical(bp, addr) ==
  /\ "exec" \in bp.mode /\ ~bp.disabled
  /\ Covers(bp, IF bp.type = "logical" THEN addr ELSE hw_mem_ltop(addr))

At_physical(bp, addr) ==
  /\ "exec" \in bp.mode /\ ~bp.disabled
  /\ IF bp.type = "physical" THEN Covers(bp, addr)
     ELSE \E i \in 0..3 :
            LET la == i * BankSize + (addr % BankSize)
            IN hw_mem_ltop(la) = addr /\ Covers(bp, la)

At_line(bp, pos) ==
  IF dv.logical THEN At_logical(bp, POS_TO_ADDR(pos)) ELSE At_physical(bp, POS_TO_ADDR(pos))

\* The first breakpoint of a line, or 0, and how many there are
find_line_bp(pos) == SelectInSeq(breakpoints, LAMBDA bp : At_line(bp, pos))
LineBps(pos) == Cardinality({i \in DOMAIN breakpoints : At_line(breakpoints[i], pos)})

\* The list of breakpoints when that of a line is toggled: it is removed, unless it
\* is for more than this line, when it is disabled
Toggled(pos) ==
  LET n == find_line_bp(pos)
      bp == breakpoints[n]
  IN IF n = 0
       THEN Append(breakpoints, [type |-> IF dv.logical THEN "logical" ELSE "physical",
                                 mode |-> {"exec"}, disabled |-> FALSE,
                                 start |-> POS_TO_ADDR(pos), end |-> POS_TO_ADDR(pos)])
     ELSE IF bp.mode # {"exec"} \/ bp.start # bp.end
       THEN [breakpoints EXCEPT ![n].disabled = TRUE]
     ELSE RemoveAt(breakpoints, n)

-----------------------------------------------------------------------------
(* The list *)

\* A list of lines, with the cursor on the line of selectpos if it is there
ListOf(logical, lines, selectpos) ==
  LET at == {i \in 1..Fitting : lines[i] = selectpos}
  IN [logical |-> logical, rows |-> Front(lines), endpos |-> Last(lines),
      cursor |-> IF at = {} THEN 0 ELSE Max(at), stale |-> FALSE]
refresh_disassembly(logical, pos, selectpos) ==
  ListOf(logical, LinesDown(logical, pos, Fitting), selectpos)

startpos == dv.rows[1]
CursorPos == IF dv.cursor = 0 THEN NoPos ELSE dv.rows[dv.cursor]

Show(pos, selectpos) == dv' = refresh_disassembly(dv.logical, pos, selectpos)
\* What is asked of a list that is out of date is not held against it
Asked(name, want, before) ==
  /\ command.nth < MaxAsked
  /\ LET new == [name |-> name, want |-> want, before |-> before]
     IN command' = [nth |-> command.nth + 1] @@ (IF dv.stale THEN NoCommand ELSE new)
\* What GTK does when the cursor stays within the list
Within_list(n) == dv' = [dv EXCEPT !.cursor = IF @ = 0 THEN 1 ELSE Max({1, Min({Fitting, @ + n})})]

Undisturbed == UNCHANGED <<dasmVars, breakpoints>>

\* The line of the cursor counts from 0; without a cursor it is the first one
move_up_lines(count) ==
  LET linenum == IF dv.cursor = 0 THEN 0 ELSE dv.cursor - 1
      pos == Up(dv.logical, startpos, count - linenum)
  IN /\ IF linenum >= count THEN Within_list(-count) /\ Asked("within", NoPos, 0)
        ELSE Show(pos, pos) /\ Asked("up", startpos, count - linenum)
     /\ Undisturbed

\* Beyond the end of the list, the list follows until the line that is wanted is
\* its last one; without a cursor the line above the first one counts
move_down_lines(count) ==
  LET linenum == dv.cursor - 1
      more == count - (Fitting - linenum)
  IN /\ IF linenum + count < Fitting THEN Within_list(count) /\ Asked("within", NoPos, 0)
        ELSE /\ Show(Down(dv.logical, get_next_pos(dv.logical, startpos), more),
                     Down(dv.logical, dv.endpos, more))
             /\ Asked("down", Down(dv.logical, startpos, linenum + count), 0)
     /\ Undisturbed

\* Pages are changed without a cursor: no line is at an odd position before one
move_pages(count) ==
  LET up == Up(dv.logical, startpos, Fitting * (-count))
      down == Down(dv.logical, dv.endpos, Fitting * (count - 1))
      pos == IF count < 0 THEN up ELSE down
  IN /\ Show(pos, pos - 1)
     /\ IF count < 0 THEN Asked("up", startpos, Fitting * (-count))
        ELSE Asked("page", Down(dv.logical, startpos, Fitting * count), 0)
     /\ Undisturbed

\* move_bytes, by a bank or by a byte
move_bytes(count) ==
  LET pos == IF dv.cursor = 0 THEN startpos ELSE CursorPos
      addr == (POS_TO_ADDR(pos) + count) % Space(~dv.logical)
  IN /\ Show(ADDR_TO_POS(addr), ADDR_TO_POS(addr))
     /\ Asked("select", ADDR_TO_POS(addr), 0) /\ Undisturbed

\* The position of an address in the other kind of list
pos_to(logical, pos) ==
  LET to == IF logical THEN default_ptol(POS_TO_ADDR(pos)) ELSE hw_mem_ltop(POS_TO_ADDR(pos))
  IN IF pos = NoPos THEN NoPos ELSE ADDR_TO_POS(to) + (pos % 2)

set_logical(logical) ==
  /\ logical # dv.logical
  /\ dv' = refresh_disassembly(logical, pos_to(logical, startpos), pos_to(logical, CursorPos))
  /\ Asked("mode", NoPos, 0) /\ Undisturbed

\* An address that the list cannot show is ignored; one that it does is selected
go_to_address(addr, logical) ==
  LET to == CASE logical = dv.logical -> addr
              [] logical /\ ~dv.logical -> hw_mem_ltop(addr)
              [] ~logical /\ dv.logical -> hw_mem_ptol(addr)
      pos == ADDR_TO_POS(to)
      at == {i \in 1..Fitting : dv.rows[i] = pos}
  IN /\ IF to = NoNumber THEN UNCHANGED <<dv, command>>
        ELSE /\ IF pos \in startpos..dv.endpos - 1 /\ at # {}
                  THEN dv' = [dv EXCEPT !.cursor = Min(at)]
                ELSE Show(pos, pos)
             /\ Asked("select", pos, 0)
     /\ Undisturbed

\* The list is made anew when it changes; the breakpoints of a line are counted
toggle_breakpoint ==
  /\ CursorPos # NoPos
  /\ breakpoints' = Toggled(CursorPos)
  /\ Show(startpos, CursorPos)
  /\ Asked("toggle", CursorPos, LineBps(CursorPos))
  /\ UNCHANGED dasmVars

refresh == dv.stale /\ Show(startpos, CursorPos) /\ Asked("refresh", NoPos, 0) /\ Undisturbed

\* The user selects a line
select(i) == dv' = [dv EXCEPT !.cursor = i] /\ Asked("click", NoPos, 0) /\ Undisturbed

\* The program changes the page map
remap ==
  /\ mempagemap' \in PageMap \ {mempagemap}
  /\ dv' = [dv EXCEPT !.stale = TRUE] /\ Asked("remap", NoPos, 0)
  /\ UNCHANGED <<dasm, curtbl, nlines, wanted, bytes, stray, breakpoints>>

ViewInit(tables, memories) ==
  /\ DisasmInit(tables, memories)
  /\ breakpoints \in LineBp
  /\ dv = refresh_disassembly(TRUE, 0, NoPos) /\ command = NoCommand

ViewNext ==
  \/ \E n \in Count : move_up_lines(n) \/ move_down_lines(n) \/ move_pages(n) \/ move_pages(-n)
  \/ \E n \in {-BankSize, -1, 1, BankSize} : move_bytes(n)
  \/ \E logical \in BOOLEAN : set_logical(logical)
  \/ \E g \in GoTo : go_to_address(g.addr, g.logical)
  \/ \E i \in 1..Fitting : select(i)
  \/ toggle_breakpoint \/ refresh \/ remap

-----------------------------------------------------------------------------
ViewTypeOK ==
  /\ dv.logical \in BOOLEAN /\ dv.cursor \in 0..Fitting
  /\ \A i \in 1..Fitting : POS_TO_ADDR(dv.rows[i]) \in 0..Space(~dv.logical) - 1

\* The list shows one line after the other, and the one that the user moved to or
\* asked for is selected: down from the cursor by as many lines, or at the address.
\* Up, there are as many lines as asked for from the new start to the old one
\* again, unless the search for one of them gave up.
ListRight ==
  ~dv.stale =>
    /\ \A i \in 1..Fitting - 1 : dv.rows[i + 1] = get_next_pos(dv.logical, dv.rows[i])
    /\ dv.endpos = get_next_pos(dv.logical, dv.rows[Fitting])
    /\ command.name \in {"down", "select"} => CursorPos = command.want
    /\ command.name = "page" => startpos = command.want
    /\ command.name = "up" =>
         LET path == LinesUp(dv.logical, command.want, command.before)
         IN (\A n \in 1..command.before : get_next_pos(dv.logical, path[n + 1]) = path[n]) =>
              Down(dv.logical, startpos, command.before) = command.want

\* The icon of a breakpoint is beside an address of the whole memory when it is
\* beside one that shows it to the processor, or when the breakpoint is for that
\* address itself (gui/disasmview.c:269-342).
IconsAgree ==
  LET Has(P(_)) == \E i \in DOMAIN breakpoints : P(breakpoints[i])
      own(pa) == Has(LAMBDA bp : /\ bp.type = "physical" /\ "exec" \in bp.mode
                                 /\ ~bp.disabled /\ Covers(bp, pa))
      shown == {hw_mem_ltop(la) : la \in {la \in 0..Space(FALSE) - 1 :
                                           Has(LAMBDA bp : At_logical(bp, la))}}
  IN \A pa \in DOMAIN bytes : Has(LAMBDA bp : At_physical(bp, pa)) <=> own(pa) \/ pa \in shown

\* Toggling where there is no breakpoint makes one; where there are some it takes
\* one away from the line, which stays selected (gui/disasmview.c:364-401, 854-868).
ToggleRight ==
  command.name = "toggle" /\ ~dv.stale =>
    /\ CursorPos = command.want
    /\ LineBps(command.want) = IF command.before = 0 THEN 1 ELSE command.before - 1
=============================================================================
