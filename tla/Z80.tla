-------------------------------- MODULE Z80 --------------------------------
(***************************************************************************)
(* The instructions of the emulated Z80 (emu/z80main.h, z80cb.h, z80ed.h,    *)
(* z80ddfd.h) and the loop that executes them and accepts interrupts         *)
(* (emu/z80.c:854-950).  An instruction is an operator from one state of the *)
(* processor to the next.  Opcodes are taken apart into the fields x, y, z,  *)
(* which stand for bits 7-6, 5-3 and 2-0.                                    *)
(* Left out: the clock; the memory and port breakpoints (Breakpoints); the   *)
(* high words of the register pairs, which each use masks off; the refresh   *)
(* register, which reads as an arbitrary number.  The memory is one flat RAM *)
(* that holds 0 where nothing was written.                                   *)
(***************************************************************************)
EXTENDS Z80Alu, TLC

CONSTANTS
  Program,   \* programs: where each starts and ends, with what results
  Noise      \* numbers that the data bus, a port and R may read as

VARIABLES cpu, program, ints

cpuVars == <<cpu, program, ints>>

HighOf == [bc |-> "b", de |-> "d", hl |-> "h", ix |-> "ixh", iy |-> "iyh", wz |-> "w"]
LowOf == [bc |-> "c", de |-> "e", hl |-> "l", ix |-> "ixl", iy |-> "iyl", wz |-> "z"]
Shadow == [b |-> "b2", c |-> "c2", d |-> "d2", e |-> "e2", h |-> "h2", l |-> "l2",
           w |-> "w2", z |-> "z2"]
Register == {HighOf[p] : p \in DOMAIN HighOf} \cup {LowOf[p] : p \in DOMAIN LowOf}
            \cup {Shadow[r] : r \in DOMAIN Shadow} \cup {"a", "a2", "i"}

-----------------------------------------------------------------------------
(* Registers and memory *)

Get(s, p) == IF p = "sp" THEN s.SP ELSE 256 * s.reg[HighOf[p]] + s.reg[LowOf[p]]
Put(s, p, v) ==
  IF p = "sp" THEN [s EXCEPT !.SP = v % 65536]
  ELSE [s EXCEPT !.reg[HighOf[p]] = (v \div 256) % 256, !.reg[LowOf[p]] = v % 256]
AF(s) == 256 * s.reg.a + FlagByte(s.F)
PutAF(s, v) == [s EXCEPT !.reg.a = v \div 256, !.F = ByteFlags(v % 256)]

readb(s, a) == IF a % 65536 \in DOMAIN s.mem THEN s.mem[a % 65536] ELSE 0
readw(s, a) == readb(s, a) + 256 * readb(s, a + 1)
writeb(s, a, v) == [s EXCEPT !.mem = ((a % 65536) :> v) @@ @]
writew(s, a, v) == writeb(writeb(s, a, v % 256), a + 1, (v \div 256) % 256)

\* A port that the hardware answers at random, and one that acknowledges
input(s) == s.noise
output(s) == [s EXCEPT !.interrupts = FALSE]

Skip(s, n) == [s EXCEPT !.PC = (@ + n) % 65536]
Jump(s, a) == [s EXCEPT !.PC = a % 65536]
Imm8(s) == readb(s, s.PC)
Imm16(s) == readw(s, s.PC)
Offset(s) == IF Imm8(s) < 128 THEN Imm8(s) ELSE Imm8(s) - 256

push(s, v) == writew([s EXCEPT !.SP = (@ - 2) % 65536], s.SP - 2, v)
Top(s) == readw(s, s.SP)
Popped(s) == [s EXCEPT !.SP = (@ + 2) % 65536]

\* Operand k of an instruction: a register, or what HL points at
Reg8 == <<"b", "c", "d", "e", "h", "l", "(hl)", "a">>
Operand(s, k) == IF k = 6 THEN readb(s, Get(s, "hl")) ELSE s.reg[Reg8[k + 1]]
PutOperand(s, k, v) ==
  IF k = 6 THEN writeb(s, Get(s, "hl"), v) ELSE [s EXCEPT !.reg[Reg8[k + 1]] = v]

\* Pair p of an instruction, with HL or the index register in HL's place
Pair(p, hl) == <<"bc", "de", hl, "sp">>[p + 1]

Cond(s, y) ==
  LET flag == <<"Z", "Z", "C", "C", "P", "P", "S", "S">>[y + 1] IN
  IF y % 2 = 0 THEN flag \notin s.F ELSE flag \in s.F

\* Operations on A, and on an operand
InA(s, r) == [s EXCEPT !.reg.a = r.res, !.F = r.F]
AluA(s, k, v) == InA(s, Alu(k, s.reg.a, v, s.F))
WithFlags(s, r) == [s EXCEPT !.F = r.F]
Apply(s, k, r) == PutOperand(WithFlags(s, r), k, r.res)

\* UNDOCUMENTED: stop, skip or reset instead of the instruction
Undocumented(s, then) ==
  LET t == IF "break_undoc" \in s.emuflags THEN [s EXCEPT !.stopping = TRUE] ELSE s IN
  IF "skip_undoc" \in s.emuflags THEN t
  ELSE IF "reset_undoc" \in s.emuflags THEN [t EXCEPT !.exception = TRUE]
  ELSE [then EXCEPT !.stopping = t.stopping]

-----------------------------------------------------------------------------
(* z80cb.h: a rotation, a bit that is tested, reset or set *)

BitSet(v, b) == IF BitOf(v, b) THEN v ELSE v + 2^b
BitReset(v, b) == IF BitOf(v, b) THEN v - 2^b ELSE v

\* The new value of an operand v, with flags
CbResult(x, y, v, F) ==
  CASE x = 0 -> rot(y, v, F)
    [] x = 2 -> [res |-> BitReset(v, y), F |-> F]
    [] x = 3 -> [res |-> BitSet(v, y), F |-> F]

exec_cb(s, op) ==
  LET x == op \div 64
      y == (op \div 8) % 8
      k == op % 8
      v == Operand(s, k)
      from == IF k = 6 THEN s.reg.w ELSE IF BitOf(v, y) THEN 2^y ELSE 0
      done == IF x = 1 THEN [s EXCEPT !.F = bit(y, v, from, s.F)]
              ELSE Apply(s, k, CbResult(x, y, v, s.F))
  IN IF x = 0 /\ y = 6 THEN Undocumented(s, done) ELSE done

\* With an index the operand is what WZ points at; the register is a copy
exec_ddcb(s, op) ==
  LET x == op \div 64
      y == (op \div 8) % 8
      k == op % 8
      v == readb(s, Get(s, "wz"))
      r == CbResult(x, y, v, s.F)
      written == WithFlags(writeb(s, Get(s, "wz"), r.res), r)
      done == IF x = 1 THEN [s EXCEPT !.F = bit(y, v, s.reg.w, s.F)]
              ELSE IF k = 6 THEN written
              ELSE [written EXCEPT !.reg[Reg8[k + 1]] = r.res]
  IN IF k # 6 \/ (x = 0 /\ y = 6) THEN Undocumented(s, done) ELSE done

-----------------------------------------------------------------------------
(* z80ed.h *)

\* ldi, ldd, cpi, cpd, ini, ind, outi, outd; d is 1 or -1
BlockStep(s, k, d) ==
  LET hl == Get(s, "hl")
      v == IF k = 2 THEN input(s) ELSE readb(s, hl)
      moved == Put(s, "hl", hl + d)
      fewer == Put(moved, "bc", Get(s, "bc") - 1)
      bc == Get(fewer, "bc")
      count == (s.reg.b - 1) % 256
      read == [Put(writeb(moved, hl, v), "wz", Get(s, "bc") + d) EXCEPT !.reg.b = count]
      less == [moved EXCEPT !.reg.b = count]
      sent == Put(output(less), "wz", Get(less, "bc") + d)
  IN CASE k = 0 -> LET copy == Put(writeb(fewer, Get(s, "de"), v), "de", Get(s, "de") + d)
                   IN [copy EXCEPT !.F = FlagsOfCopy(v, bc, s.F)]
       [] k = 1 -> [fewer EXCEPT !.F = FlagsOfSearch(s.reg.a, v, bc, s.F)]
       [] k = 2 -> [read EXCEPT !.F = FlagsOfBlockIO(v, count, read.reg.z + v)]
       [] k = 3 -> [sent EXCEPT !.F = FlagsOfBlockIO(v, count, sent.reg.l + v)]

\* Has a repeated one still something to do?
Unfinished(t, k) ==
  CASE k = 0 -> Get(t, "bc") # 0
    [] k = 1 -> Get(t, "bc") # 0 /\ "Z" \notin t.F
    [] k \in {2, 3} -> t.reg.b # 0

\* Mutant: a repeated instruction goes back one byte too few
Mut_Again(t, y, k) == IF y >= 6 /\ Unfinished(t, k) THEN Skip(t, -1) ELSE t

\* ldir and the like go back to themselves until they are done
Again(t, y, k) == IF y >= 6 /\ Unfinished(t, k) THEN Skip(t, -2) ELSE t
exec_block(s, y, k) == Again(BlockStep(s, k, IF y % 2 = 0 THEN 1 ELSE -1), y, k)

\* IN r, (C) and OUT (C), r; without a register they are undocumented
exec_in(s, y) ==
  LET t == Put(s, "wz", Get(s, "bc"))
      f == [t EXCEPT !.F = Logic(input(t), s.F \cap {"C"}).F]
  IN IF y = 6 THEN Undocumented(s, f) ELSE PutOperand(f, y, input(t))
exec_out(s, y) == IF y = 6 THEN Undocumented(s, output(s)) ELSE output(s)

\* ADC HL, rp and SBC HL, rp
exec_hl16(s, p, q) ==
  LET hl == Get(s, "hl")
      rp == Get(s, Pair(p, "hl"))
      r == IF q = 0 THEN sbc16(hl, rp, s.F) ELSE adc16(hl, rp, s.F)
  IN WithFlags(Put(Put(s, "wz", hl + 1), "hl", r.res), r)

\* LD (nn), rp and LD rp, (nn)
LoadWord(s, rp, q) ==
  LET nn == Imm16(s)
      t == Put(Skip(s, 2), "wz", nn + 1)
  IN IF q = 0 THEN writew(t, nn, Get(s, rp)) ELSE Put(t, rp, readw(s, nn))

\* LD A, I and LD A, R tell whether interrupts are enabled
LoadIR(s, v) ==
  [s EXCEPT !.reg.a = v,
            !.F = SXY(v) \cup Zero(v) \cup If(s.IFF2, "P") \cup (s.F \cap {"C"})]

\* rrd, rld: the digits of A and of what HL points at
exec_digits(s, left) ==
  LET v == Operand(s, 6)
      a == s.reg.a
      res == ((a \div 16) * 16) + IF left THEN v \div 16 ELSE v % 16
      mem == IF left THEN ((v * 16) % 256) + (a % 16) ELSE (v \div 16) + ((a * 16) % 256)
      t == writeb(Put(s, "wz", Get(s, "hl") + 1), Get(s, "hl"), mem)
  IN [t EXCEPT !.reg.a = res, !.F = Logic(res, s.F \cap {"C"}).F]

exec_ed7(s, y) ==
  CASE y = 0 -> [s EXCEPT !.reg.i = s.reg.a]
    [] y = 1 -> s
    [] y = 2 -> LoadIR(s, s.reg.i)
    [] y = 3 -> LoadIR(s, s.noise)
    [] y \in {4, 5} -> exec_digits(s, y = 5)

\* RETN, RETI and their copies
exec_retn(s) == [Popped(Jump(s, Top(s))) EXCEPT !.IFF1 = s.IFF2]

\* An opcode that is none of these does nothing, or stops
exec_ed(s, op) ==
  LET x == op \div 64
      y == (op \div 8) % 8
      z == op % 8
  IN CASE x = 1 /\ z = 0 -> exec_in(s, y)
       [] x = 1 /\ z = 1 -> exec_out(s, y)
       [] x = 1 /\ z = 2 -> exec_hl16(s, y \div 2, y % 2)
       [] x = 1 /\ z = 3 -> LoadWord(s, Pair(y \div 2, "hl"), y % 2)
       [] x = 1 /\ z = 4 ->
            LET t == InA(s, neg(s.reg.a)) IN IF y = 0 THEN t ELSE Undocumented(s, t)
       [] x = 1 /\ z = 5 -> IF y < 2 THEN exec_retn(s) ELSE Undocumented(s, exec_retn(s))
       [] x = 1 /\ z = 6 ->
            LET t == [s EXCEPT !.IM = <<0, 0, 1, 2>>[(y % 4) + 1]]
            IN IF y \in {0, 2, 3} THEN t ELSE Undocumented(s, t)
       [] x = 1 /\ z = 7 /\ y < 6 -> exec_ed7(s, y)
       [] x = 2 /\ y >= 4 /\ z < 4 -> exec_block(s, y, z)
       [] OTHER -> IF "break_invalid" \in s.emuflags THEN [s EXCEPT !.stopping = TRUE] ELSE s

-----------------------------------------------------------------------------
(* z80main.h *)

\* What HL, or an index register in its place, takes part in as a word
exec_word(s, op) ==
  LET hl == Get(s, "hl") IN
  CASE op % 16 = 9 /\ op < 64 ->
         LET r == add16(hl, Get(s, Pair(op \div 16, "hl")), s.F)
         IN WithFlags(Put(Put(s, "wz", hl + 1), "hl", r.res), r)
    [] op = 33 -> Put(Skip(s, 2), "hl", Imm16(s))
    [] op \in {34, 42} -> LoadWord(s, "hl", IF op = 34 THEN 0 ELSE 1)
    [] op = 35 -> Put(s, "hl", hl + 1)
    [] op = 43 -> Put(s, "hl", hl - 1)
    [] op = 225 -> Put(Popped(s), "hl", Top(s))
    [] op = 227 -> LET t == Put(s, "wz", Top(s)) IN Put(writew(t, s.SP, hl), "hl", Top(s))
    [] op = 229 -> push(s, hl)
    [] op = 233 -> Jump(s, hl)
    [] op = 249 -> Put(s, "sp", hl)
WordOps == {9, 25, 33, 34, 35, 41, 42, 43, 57, 225, 227, 229, 233, 249}

\* jr, djnz: to the offset, or past it
Relative(s, taken) ==
  LET there == s.PC + 1 + Offset(s)
  IN IF taken THEN Jump(Put(s, "wz", there), there) ELSE Skip(s, 1)

ExAF(s) == [s EXCEPT !.reg.a = s.reg.a2, !.reg.a2 = s.reg.a, !.F = s.F2, !.F2 = s.F]
Exx(s) ==
  [s EXCEPT !.reg = [r \in Register |->
     IF r \in DOMAIN Shadow THEN s.reg[Shadow[r]]
     ELSE IF \E q \in DOMAIN Shadow : Shadow[q] = r
       THEN s.reg[CHOOSE q \in DOMAIN Shadow : Shadow[q] = r]
     ELSE s.reg[r]]]

\* LD through BC or DE, and A through an address
Indirect(s, y) ==
  LET at == Get(s, IF y < 2 THEN "bc" ELSE "de")
      nn == Imm16(s)
  IN CASE y \in {0, 2} -> writeb([s EXCEPT !.reg.w = s.reg.a], at, s.reg.a)
       [] y \in {1, 3} -> [Put(s, "wz", at + 1) EXCEPT !.reg.a = readb(s, at)]
       [] y = 6 -> writeb([Skip(s, 2) EXCEPT !.reg.w = s.reg.a], nn, s.reg.a)
       [] y = 7 -> [Put(Skip(s, 2), "wz", nn + 1) EXCEPT !.reg.a = readb(s, nn)]

\* The last column: rotations of A, daa, cpl, scf, ccf
Accumulator(s, y) ==
  CASE y < 4 -> InA(s, rota(y, s.reg.a, s.F))
    [] y = 4 -> InA(s, daa(s.reg.a, s.F))
    [] y = 5 -> InA(s, cpl(s.reg.a, s.F))
    [] y = 6 -> [s EXCEPT !.F = @ \cup {"C"}]
    [] y = 7 -> [s EXCEPT !.F = (@ \ {"C"}) \cup ({"C"} \ @)]

exec_x0(s, y, z) ==
  LET p == Pair(y \div 2, "hl")
      less == [s EXCEPT !.reg.b = (@ - 1) % 256]
  IN CASE z = 0 /\ y = 0 -> s
       [] z = 0 /\ y = 1 -> ExAF(s)
       [] z = 0 /\ y = 2 -> Relative(less, less.reg.b # 0)
       [] z = 0 /\ y = 3 -> Relative(s, TRUE)
       [] z = 0 /\ y > 3 -> Relative(s, Cond(s, y - 4))
       [] z = 1 -> Put(Skip(s, 2), p, Imm16(s))
       [] z = 2 -> Indirect(s, y)
       [] z = 3 -> Put(s, p, Get(s, p) + (IF y % 2 = 0 THEN 1 ELSE -1))
       [] z = 4 -> Apply(s, y, inc(Operand(s, y), s.F))
       [] z = 5 -> Apply(s, y, dec(Operand(s, y), s.F))
       [] z = 6 -> PutOperand(Skip(s, 1), y, Imm8(s))
       [] z = 7 -> Accumulator(s, y)

\* call and ret: WZ gets the address, taken or not
Call(s, taken) ==
  LET t == Put(Skip(s, 2), "wz", Imm16(s))
  IN IF taken THEN Jump(push(t, t.PC), Imm16(s)) ELSE t
Return(s) == Jump(Put(Popped(s), "wz", Top(s)), Top(s))

\* OUT (n), A and IN A, (n)
exec_port(s, out) ==
  LET t == [Skip(s, 1) EXCEPT !.reg.w = s.reg.a, !.reg.z = Imm8(s)]
  IN IF out THEN output(t) ELSE [t EXCEPT !.reg.a = input(t)]

exec_x3(s, y, z) ==
  LET p == y \div 2
      goto == Put(s, "wz", Imm16(s))
      de == Get(s, "de")
  IN CASE z = 0 -> IF Cond(s, y) THEN Return(s) ELSE s
       [] z = 1 /\ y = 6 -> PutAF(Popped(s), Top(s))
       [] z = 1 /\ y \in {0, 2} -> Put(Popped(s), Pair(p, "hl"), Top(s))
       [] z = 1 /\ y = 1 -> Return(s)
       [] z = 1 /\ y = 3 -> Exx(s)
       [] z = 2 -> IF Cond(s, y) THEN Jump(goto, Imm16(s)) ELSE Skip(goto, 2)
       [] z = 3 /\ y = 0 -> Jump(goto, Imm16(s))
       [] z = 3 /\ y \in {2, 3} -> exec_port(s, y = 2)
       [] z = 3 /\ y = 5 -> Put(Put(s, "de", Get(s, "hl")), "hl", de)
       [] z = 3 /\ y \in {6, 7} -> [s EXCEPT !.IFF1 = (y = 7), !.IFF2 = (y = 7)]
       [] z = 4 -> Call(s, Cond(s, y))
       [] z = 5 /\ y = 1 -> Call(s, TRUE)
       [] z = 5 /\ y \in {0, 2} -> push(s, Get(s, Pair(p, "hl")))
       [] z = 5 /\ y = 6 -> push(s, AF(s))
       [] z = 6 -> AluA(Skip(s, 1), y, Imm8(s))
       [] z = 7 -> Jump(push(s, s.PC), 8 * y)

\* An instruction without a prefix; halting is up to the loop
exec_plain(s, op) ==
  LET x == op \div 64
      y == (op \div 8) % 8
      z == op % 8
  IN CASE op \in WordOps -> exec_word(s, op)
       [] x = 0 /\ op \notin WordOps -> exec_x0(s, y, z)
       [] x = 1 -> IF op = 118 THEN s ELSE PutOperand(s, y, Operand(s, z))
       [] x = 2 -> AluA(s, y, Operand(s, z))
       [] x = 3 /\ op \notin WordOps -> exec_x3(s, y, z)

-----------------------------------------------------------------------------
(* z80ddfd.h *)

\* The index register in HL's place, and back
Exchanged(s, ix) ==
  [s EXCEPT !.reg.h = s.reg[HighOf[ix]], !.reg.l = s.reg[LowOf[ix]],
            !.reg[HighOf[ix]] = s.reg.h, !.reg[LowOf[ix]] = s.reg.l]

\* Opcodes with H or L for an operand, which stands for half the index register
Halves ==
  {op \in 0..191 :
     LET y == (op \div 8) % 8
         z == op % 8
     IN \/ op < 64 /\ y \in {4, 5} /\ z \in {4, 5, 6}
        \/ op \in 64..127 /\ {y, z} \cap {4, 5} # {} /\ y # 6 /\ z # 6
        \/ op >= 128 /\ z \in {4, 5}}
\* Opcodes with (HL) for an operand, which stands for (IX + d)
ByHL == {52, 53, 54} \cup {op \in 64..191 : op # 118 /\ (op % 8 = 6 \/ op \in 112..119)}

exec_displaced(s, op, ix) ==
  LET y == (op \div 8) % 8
      at == Get(s, ix) + Offset(s)
      t == Skip(s, 1)
      v == readb(s, at)
      r == IF op = 52 THEN inc(v, s.F) ELSE dec(v, s.F)
  IN CASE op \in {52, 53} -> WithFlags(writeb(Put(t, "wz", at), at, r.res), r)
       [] op = 54 -> writeb(Skip(t, 1), at, Imm8(t))
       [] op \in 64..127 /\ op % 8 = 6 -> PutOperand(t, y, v)
       [] op \in 112..119 -> writeb(t, at, Operand(s, op % 8))
       [] op > 127 -> AluA(t, y, v)

-----------------------------------------------------------------------------
(* z80_execute_opcode.  s.op is what it returns as far as the loop looks at  *)
(* it: the opcode behind any number of prefixes that change nothing, or -1.  *)

RECURSIVE z80_execute_opcode(_, _)
z80_execute_opcode(s, op) ==
  LET t == Skip([s EXCEPT !.op = -1], 1)  \* behind a second byte
      op2 == Imm8(s)
      ix == IF op = 221 THEN "ix" ELSE "iy"
  IN CASE op = 203 -> exec_cb(t, op2)
       [] op = 237 -> exec_ed(t, op2)
       [] op \in {221, 253} ->
            CASE op2 \in WordOps -> Exchanged(exec_plain(Exchanged(t, ix), op2), ix)
              [] op2 \in Halves ->
                   Undocumented(t, Exchanged(exec_plain(Exchanged(t, ix), op2), ix))
              [] op2 \in ByHL -> exec_displaced(t, op2, ix)
              [] op2 = 203 ->
                   LET at == Put(t, "wz", Get(t, ix) + Offset(t))
                   IN exec_ddcb(Skip(at, 2), Imm8(Skip(at, 1)))
              [] OTHER -> z80_execute_opcode(Skip(s, 1), op2)
       [] OTHER -> exec_plain([s EXCEPT !.op = op], op)

\* What is left of a processor that is reset
tilem_z80_reset(s) ==
  [s EXCEPT !.reg = [r \in Register |-> 255], !.F = Flag, !.F2 = Flag, !.SP = 65535, !.PC = 0,
            !.IFF1 = FALSE, !.IFF2 = FALSE, !.IM = 0,
            !.interrupts = FALSE, !.halted = FALSE]

\* An interrupt is accepted
Accept(s) ==
  LET t == [s EXCEPT !.IFF1 = FALSE, !.IFF2 = FALSE, !.halted = FALSE] IN
  CASE t.IM = 0 -> [z80_execute_opcode(t, t.noise) EXCEPT !.op = t.op]
    [] t.IM = 1 -> Jump(push(t, t.PC), 56)
    [] t.IM = 2 -> Jump(push(t, t.PC), readw(t, 256 * t.reg.i + t.noise))

\* Between two instructions: not behind EI, an interrupt is accepted; else HALT
\* goes back to itself
Boundary(s) ==
  LET accepts == s.interrupts /\ s.IFF1 /\ s.op # 251 IN
  CASE accepts -> Accept(s)
    [] ~accepts /\ s.op = 118 -> Skip([s EXCEPT !.halted = TRUE], -1)
    [] OTHER -> s

\* Behind an instruction that has raised an exception
Excepted(t) ==
  LET u == IF t.exception /\ "break_exceptions" \in t.emuflags
             THEN [t EXCEPT !.stopping = TRUE] ELSE t
  IN IF t.exception /\ "ignore_exceptions" \notin t.emuflags THEN tilem_z80_reset(u) ELSE u

\* One turn of the loop of z80_execute
Turn(s) ==
  LET begun == [s EXCEPT !.exception = FALSE, !.stopping = FALSE]
  IN Excepted(Boundary(z80_execute_opcode(Skip(begun, 1), Imm8(s))))

-----------------------------------------------------------------------------
(* The machine: a program that runs to its end *)

Z80Init ==
  /\ program \in Program
  /\ cpu = program.start
  /\ ints = 0

\* A program of a single instruction ends wherever that leads
Finished == IF program.end = -1 THEN cpu.op # -2 ELSE cpu.PC = program.end

z80_execute ==
  /\ ~Finished
  /\ \E n \in Noise : cpu' = [Turn([cpu EXCEPT !.noise = n]) EXCEPT !.noise = 0]
  /\ UNCHANGED <<program, ints>>

\* The hardware asks for an interrupt, until an output acknowledges it
hardware_interrupt ==
  /\ ints < program.ints /\ ~cpu.interrupts /\ ~Finished
  /\ ints' = ints + 1
  /\ cpu' = [cpu EXCEPT !.interrupts = TRUE]
  /\ UNCHANGED program

Z80Next == z80_execute \/ hardware_interrupt

Z80Spec == Z80Init /\ [][Z80Next]_cpuVars

-----------------------------------------------------------------------------
(* Properties *)

\* The processor keeps within its registers, whatever it executes.
Z80TypeOK ==
  /\ cpu.reg \in [Register -> Octet]
  /\ cpu.F \subseteq Flag /\ cpu.F2 \subseteq Flag
  /\ cpu.PC \in 0..65535 /\ cpu.SP \in 0..65535 /\ cpu.IM \in 0..2
  /\ \A a \in DOMAIN cpu.mem : a \in 0..65535 /\ cpu.mem[a] \in Octet
  /\ ints \in 0..program.ints

\* A program that has come to its end has computed what it is meant to compute,
\* in registers, flags and memory, however often and wherever it was interrupted
\* by a handler that keeps to its own registers (z80.c:876-947, z80cmds.h).
ProgramsRight ==
  Finished =>
    /\ \A r \in DOMAIN program.reg : cpu.reg[r] = program.reg[r]
    /\ cpu.F \cap program.seen = program.F
    /\ \A a \in DOMAIN program.mem : readb(cpu, a) = program.mem[a]

\* Handlers that enable interrupts as their last step but one do not pile up
\* on the stack, for EI takes effect behind the instruction that follows it
\* (z80.c:885-886): no more is pushed than the program and one handler push.
HandlersNotNested ==
  \/ cpu.SP \in (program.start.SP - 2 * (program.depth + 1))..program.start.SP
  \/ program.depth = -1
=============================================================================
