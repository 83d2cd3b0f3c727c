-------------------------------- MODULE MCZ80 --------------------------------
(***************************************************************************)
(* Programs for the emulated Z80, each with the results that arithmetic,     *)
(* decimal numbers or the meaning of the instruction ask for.                *)
(***************************************************************************)
EXTENDS Z80
LOCAL INSTANCE FiniteSetsExt

\* Numbers that the data bus tends to read as (z80.c:890-901)
Bus == {63, 127, 191, 255}

At(addr, bytes) == [a \in addr..(addr + Len(bytes) - 1) |-> bytes[a - addr + 1]]

Org == 256    \* where programs are
Data == 512   \* where their data are
Stack == 1024

\* EX AF, AF'; EXX; LD A, n; OUT (3), A; INC B; EXX; EX AF, AF'; EI; RETI
Handler == <<8, 217, 62, 119, 211, 3, 4, 217, 8, 251, 237, 77>>

Blank == [reg |-> [r \in Register |-> 0], F |-> {}, F2 |-> {}, PC |-> Org, SP |-> Stack,
          IFF1 |-> TRUE, IFF2 |-> TRUE, IM |-> 1, halted |-> FALSE, interrupts |-> FALSE,
          stopping |-> FALSE, exception |-> FALSE, mem |-> At(56, Handler), op |-> -2,
          noise |-> 0, emuflags |-> {}]

\* A program with registers and data that ends behind its code
Prog(code, regs, data) ==
  [start |-> [Blank EXCEPT !.reg = regs @@ @, !.mem = At(Org, code) @@ At(Data, data) @@ @],
   end |-> Org + Len(code), reg |-> <<>>, seen |-> {}, F |-> {}, mem |-> <<>>,
   ints |-> 0, depth |-> 0]
WithCarry(p, c) == [p EXCEPT !.start.F = If(c = 1, "C")]
Gives(p, regs) == [p EXCEPT !.reg = regs]
Leaves(p, data) == [p EXCEPT !.mem = At(Data, data)]
GivesFlags(p, seen, F) == [p EXCEPT !.seen = seen, !.F = F]
Interrupted(p, n) == [p EXCEPT !.ints = n]

-----------------------------------------------------------------------------
(* Arithmetic, against signed and unsigned numbers of `size` values *)

Signed(x, size) == IF 2 * x >= size THEN x - size ELSE x

\* What x + y + c and x - y - c are, with half being the weight of the half carry
SumOf(x, y, c, size, half) ==
  [res |-> (x + y + c) % size,
   F |-> If(x + y + c >= size, "C") \cup If((x % half) + (y % half) + c >= half, "H")
         \cup If(Signed(x, size) + Signed(y, size) + c
                   \notin (-(size \div 2))..((size \div 2) - 1), "P")
         \cup If((x + y + c) % size = 0, "Z") \cup If(2 * ((x + y + c) % size) >= size, "S")]
DiffOf(x, y, c, size, half) ==
  [res |-> (x - y - c) % size,
   F |-> {"N"} \cup If(x < y + c, "C") \cup If((x % half) < (y % half) + c, "H")
         \cup If(Signed(x, size) - Signed(y, size) - c
                   \notin (-(size \div 2))..((size \div 2) - 1), "P")
         \cup If((x - y - c) % size = 0, "Z") \cup If(2 * ((x - y - c) % size) >= size, "S")]
Plain == {"S", "Z", "H", "P", "N", "C"}

BitsOf(x) == {n \in 0..7 : (x \div 2^n) % 2 = 1}
OfBits(B) ==
  LET res == MapThenSumSet(LAMBDA n : 2^n, B) IN
  [res |-> res, F |-> If(Cardinality(B) % 2 = 0, "P") \cup If(B = {}, "Z") \cup If(7 \in B, "S")]

Alu8(k, a, v, c) ==
  LET both == BitsOf(a) \cap BitsOf(v)
      either == BitsOf(a) \cup BitsOf(v)
  IN CASE k = 0 -> SumOf(a, v, 0, 256, 16)
       [] k = 1 -> SumOf(a, v, c, 256, 16)
       [] k \in {2, 7} -> DiffOf(a, v, 0, 256, 16)
       [] k = 3 -> DiffOf(a, v, c, 256, 16)
       [] k = 4 -> [OfBits(both) EXCEPT !.F = @ \cup {"H"}]
       [] k = 5 -> OfBits(either \ both)
       [] k = 6 -> OfBits(either)

\* op A, B
Arithmetic8 ==
  {LET r == Alu8(k, a, v, c)
       p == Prog(<<128 + 8 * k>>, [a |-> a, b |-> v], <<>>)
   IN GivesFlags(Gives(WithCarry(p, c), [a |-> IF k = 7 THEN a ELSE r.res]), Plain, r.F) :
   k \in 0..7, a \in {0, 1, 15, 127, 128, 255}, v \in {0, 1, 16, 127, 128, 255}, c \in {0, 1}}

\* NEG, from 0; ADC HL, BC and SBC HL, BC
Negated ==
  {LET r == DiffOf(0, a, 0, 256, 16)
   IN GivesFlags(Gives(Prog(<<237, 68>>, [a |-> a], <<>>), [a |-> r.res]), Plain, r.F) :
   a \in {0, 1, 16, 127, 128, 255}}
Arithmetic16 ==
  {LET r == IF op = 74 THEN SumOf(x, y, c, 65536, 4096) ELSE DiffOf(x, y, c, 65536, 4096)
       p == Prog(<<237, op>>, [h |-> x \div 256, l |-> x % 256,
                               b |-> y \div 256, c |-> y % 256], <<>>)
   IN GivesFlags(Gives(WithCarry(p, c), [h |-> r.res \div 256, l |-> r.res % 256]), Plain, r.F) :
   op \in {66, 74}, x \in {0, 1, 4095, 32767, 32768, 65535},
   y \in {0, 1, 4096, 32767, 32768, 65535}, c \in {0, 1}}

\* Decimal numbers: ADD A, B or SUB B, then DAA
Packed(n) == ((n \div 10) * 16) + (n % 10)
Decimals == {0, 1, 9, 10, 45, 55, 90, 99}
Decimal ==
  {LET n == IF op = 128 THEN x + y ELSE x - y
       p == Prog(<<op, 39>>, [a |-> Packed(x), b |-> Packed(y)], <<>>)
   IN GivesFlags(Gives(p, [a |-> Packed(n % 100)]), {"C"}, If(n \notin 0..99, "C")) :
   op \in {128, 144}, x \in Decimals, y \in Decimals}

-----------------------------------------------------------------------------
(* Loops, which are interrupted *)

\* Two decimal numbers of four digits at DE and HL:
\* OR A; LD A, (DE); ADC A, (HL); DAA; LD (DE), A; INC HL; INC DE; DJNZ
AddDigits ==
  {LET code == <<183, 26, 142, 39, 18, 35, 19, 16, -8 % 256>>
       p == Prog(code, [b |-> 2, d |-> 2, e |-> 0, h |-> 2, l |-> 2],
                 <<Packed(x % 100), Packed(x \div 100), Packed(y % 100), Packed(y \div 100)>>)
       n == (x + y) % 10000
   IN Interrupted(Leaves(p, <<Packed(n % 100), Packed(n \div 100)>>), 1) :
   x \in {1, 5050, 9999}, y \in {1, 4950, 9999}}

\* B times: ADD HL, HL; RL C; JR NC; ADD HL, DE; DJNZ
Multiply ==
  {LET code == <<41, 203, 17, 48, 1, 25, 16, -8 % 256>>
       p == Prog(code, [b |-> 8, c |-> x, e |-> y], <<>>)
   IN Interrupted(Gives(p, [h |-> (x * y) \div 256, l |-> (x * y) % 256]), 1) :
   x \in {0, 85, 255}, y \in {3, 255}}

\* LDIR and LDDR; LDIR from a byte to the next one fills; CPIR finds a byte
Blocks ==
  {Interrupted(p, 1) : p \in
    {Leaves(Prog(<<237, 176>>, [h |-> 2, l |-> 0, d |-> 2, e |-> 3, c |-> 3], <<7, 8, 9>>),
            <<7, 8, 9, 7, 8, 9, 0>>),
     Leaves(Prog(<<237, 184>>, [h |-> 2, l |-> 2, d |-> 2, e |-> 3, c |-> 3], <<7, 8, 9>>),
            <<7, 7, 8, 9, 0>>),
     Leaves(Prog(<<237, 176>>, [h |-> 2, l |-> 0, d |-> 2, e |-> 1, c |-> 4], <<7>>),
            <<7, 7, 7, 7, 7, 0>>)}
    \cup {GivesFlags(Gives(Prog(<<237, 177>>, [h |-> 2, l |-> 0, a |-> v, c |-> 3], <<7, 8, 9>>),
                           [l |-> n, c |-> 3 - n]),
                     {"Z", "P"}, If(v \in 7..9, "Z") \cup If(n < 3, "P")) :
          <<v, n>> \in {<<7, 1>>, <<8, 2>>, <<9, 3>>, <<0, 3>>}}}

\* OTIR, INIR: count B down
BlockIO ==
  {Interrupted(Gives(Prog(<<237, op>>, [h |-> 2, b |-> 2], <<>>), [b |-> 0, h |-> 2, l |-> 2]), 1) :
   op \in {178, 179}}

\* A number of three digits is shifted left: RLD; DEC HL; RLD; LD HL, nn
Shift ==
  {Interrupted(Leaves(Prog(<<237, 111, 43, 237, 111>>, [a |-> 5, h |-> 2, l |-> 1], <<18, 52>>),
                      <<35, 69>>), 1)}

\* CALL f; JR to the end; f: PUSH BC; LD B, 3; loop: INC A; DJNZ loop; POP BC; RET;
\* with a jump over f
Subroutine ==
  {[Interrupted(Gives(Prog(<<205, 5, 1, 24, 8, 197, 6, 3, 60, 16, -3 % 256, 193, 201>>,
                           [b |-> 9], <<>>), [a |-> 3, b |-> 9]), 1) EXCEPT !.depth = 2]}

\* LD (IX-1), 5; INC (IX-1); SET 7, (IX-1); LD A, (IY+1); LD IXL, A, behind
\* prefixes that have no effect
Indexed ==
  {Interrupted(Gives(Leaves(
     Prog(<<221, 54, 255, 5, 221, 52, 255, 221, 203, 255, 254, 253, 126, 1, 253, 221, 221, 111>>,
          [ixh |-> 2, ixl |-> 1, iyh |-> 2, iyl |-> 0], <<0, 8>>),
     <<134, 8>>), [a |-> 8, ixh |-> 2, ixl |-> 8]), 1)}

\* HALT; INC A, twice, with an interrupt for each HALT
Halting == {Interrupted(Gives(Prog(<<118, 60, 118, 60>>, <<>>, <<>>), [a |-> 2, b2 |-> 2]), 2)}

\* LD (HL), 1; INC HL; LD (HL), 2, in interrupt mode 0, where the bus holds an
\* instruction, and 2, where a table of 2s leads to a handler behind the data
Vectors ==
  {LET p == Leaves(Prog(<<54, 1, 35, 54, 2>>, [h |-> 2, i |-> 3], <<0, 0>> \o Handler), <<1, 2>>)
   IN Interrupted([p EXCEPT !.start.IM = m, !.start.SP = 2048,
                            !.start.mem = [a \in 768..1024 |-> 2] @@ @], 1) : m \in {0, 2}}

-----------------------------------------------------------------------------
(* Every opcode, once *)

Flags == {{}, {"skip_undoc", "break_undoc", "break_invalid"}, {"reset_undoc", "break_exceptions"}}
Once ==
  {[Prog(code, [r \in Register |-> 254], <<>>) EXCEPT !.start.emuflags = flags,
                                                      !.end = -1, !.depth = -1] :
   code \in {prefix \o <<op, 2, 3>> : prefix \in {<<>>, <<203>>, <<237>>, <<221>>}, op \in 0..255}
            \cup {<<253, 203, 2, op>> : op \in 0..255},
   flags \in Flags}

Programs ==
  Arithmetic8 \cup Negated \cup Arithmetic16 \cup Decimal \cup AddDigits \cup Multiply
    \cup Blocks \cup BlockIO \cup Shift \cup Subroutine \cup Indexed \cup Halting
    \cup Vectors \cup Once
=============================================================================
