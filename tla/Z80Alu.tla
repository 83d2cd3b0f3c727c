------------------------------- MODULE Z80Alu -------------------------------
(***************************************************************************)
(* The arithmetic of the emulated Z80 (emu/z80cmds.h): what each operation   *)
(* makes of its operands and of the flags.  Bytes and words are numbers, the *)
(* flag register is the set of the flags that are set.                       *)
(***************************************************************************)
EXTENDS Integers, FiniteSets, Sequences

Octet == 0..255
Flag == {"S", "Z", "Y", "H", "X", "P", "N", "C"}
Weight == [S |-> 128, Z |-> 64, Y |-> 32, H |-> 16, X |-> 8, P |-> 4, N |-> 2, C |-> 1]

BitOf(x, n) == (x \div 2^n) % 2 = 1
If(cond, f) == IF cond THEN {f} ELSE {}

\* F as a byte, and back
FlagByte(F) ==
  LET sum[n \in 0..8] ==
        IF n = 0 THEN 0
        ELSE sum[n - 1] + IF \E f \in F : Weight[f] = 2^(n - 1) THEN 2^(n - 1) ELSE 0
  IN sum[8]
ByteFlags(v) == {f \in Flag : (v \div Weight[f]) % 2 = 1}

\* The flags that are bits of a result
Copied(res, flags) == {f \in flags : (res \div Weight[f]) % 2 = 1}
SXY(res) == Copied(res, {"S", "X", "Y"})
XY(res) == Copied(res, {"X", "Y"})
Zero(res) == If(res = 0, "Z")

\* parity_table
Parity(res) == If(Cardinality({n \in 0..7 : BitOf(res, n)}) % 2 = 0, "P")

\* arg1 ^ arg2 ^ res at a bit
Odd(x, y, r, n) == Cardinality({k \in 1..3 : BitOf(<<x, y, r>>[k], n)}) % 2 = 1

\* add8, adc8: the operands, and what is carried in
adc8(x, y, c) ==
  LET sum == x + y + c
      res == sum % 256
  IN [res |-> res,
      F |-> SXY(res) \cup Zero(res) \cup If(Odd(x, y, sum, 4), "H")
            \cup If(BitOf(x, 7) = BitOf(y, 7) /\ BitOf(x, 7) # BitOf(sum, 7), "P")
            \cup If(sum >= 256, "C")]

\* sub8, sbc8 and cp, in 16 bits
sbc8(x, y, c) ==
  LET dif == (x - y - c) % 65536
      res == dif % 256
  IN [res |-> res,
      F |-> SXY(res) \cup Zero(res) \cup If(Odd(x, y, dif, 4), "H")
            \cup If(BitOf(x, 7) # BitOf(y, 7) /\ BitOf(x, 7) # BitOf(dif, 7), "P")
            \cup {"N"} \cup If(BitOf(dif, 8), "C")]

\* and, xor, or
ByBits(x, y, op(_, _)) ==
  LET sum[n \in 0..8] ==
        IF n = 0 THEN 0
        ELSE sum[n - 1] + IF op(BitOf(x, n - 1), BitOf(y, n - 1)) THEN 2^(n - 1) ELSE 0
  IN sum[8]
And(p, q) == p /\ q
Xor(p, q) == p # q
Or(p, q) == p \/ q
Logic(res, more) == [res |-> res, F |-> SXY(res) \cup Zero(res) \cup Parity(res) \cup more]

\* ADD, ADC, SUB, SBC, AND, XOR, OR, CP, in the order of the opcodes; CP keeps A
Alu(k, a, v, F) ==
  LET c == IF "C" \in F THEN 1 ELSE 0 IN
  CASE k = 0 -> adc8(a, v, 0)
    [] k = 1 -> adc8(a, v, c)
    [] k = 2 -> sbc8(a, v, 0)
    [] k = 3 -> sbc8(a, v, c)
    [] k = 4 -> Logic(ByBits(a, v, And), {"H"})
    [] k = 5 -> Logic(ByBits(a, v, Xor), {})
    [] k = 6 -> Logic(ByBits(a, v, Or), {})
    [] k = 7 -> [sbc8(a, v, 0) EXCEPT !.res = a]

inc(v, F) ==
  LET res == (v + 1) % 256 IN
  [res |-> res, F |-> SXY(res) \cup Zero(res) \cup If(BitOf(v, 4) # BitOf(res, 4), "H")
                      \cup If(res = 128, "P") \cup (F \cap {"C"})]

dec(v, F) ==
  LET res == (v - 1) % 256 IN
  [res |-> res, F |-> SXY(res) \cup Zero(res) \cup If(BitOf(v, 4) # BitOf(res, 4), "H")
                      \cup If(res = 127, "P") \cup {"N"} \cup (F \cap {"C"})]

neg(v) ==
  LET res == (-v) % 256 IN
  [res |-> res, F |-> SXY(res) \cup Zero(res) \cup If(BitOf(v, 4) # BitOf(res, 4), "H")
                      \cup If(v = 128, "P") \cup {"N"} \cup If(v # 0, "C")]

cpl(v, F) ==
  [res |-> 255 - v, F |-> XY(255 - v) \cup {"H", "N"} \cup (F \cap {"S", "Z", "P", "C"})]

\* daa_table, by H, N, C and A
daa(a, F) ==
  LET low == "H" \in F \/ a % 16 > 9
      high == "C" \in F \/ a > 153
      fix == (IF low THEN 6 ELSE 0) + (IF high THEN 96 ELSE 0)
      res == (IF "N" \in F THEN a - fix ELSE a + fix) % 256
  IN [res |-> res, F |-> SXY(res) \cup Zero(res) \cup If(BitOf(a, 4) # BitOf(res, 4), "H")
                         \cup Parity(res) \cup (F \cap {"N"}) \cup If(high, "C")]

add16(x, y, F) ==
  LET sum == x + y IN
  [res |-> sum % 65536,
   F |-> (F \cap {"S", "Z", "P"}) \cup XY((sum \div 256) % 256)
         \cup If(Odd(x, y, sum, 12), "H") \cup If(sum >= 65536, "C")]

adc16(x, y, F) ==
  LET sum == x + y + (IF "C" \in F THEN 1 ELSE 0)
      res == sum % 65536
  IN [res |-> res,
      F |-> SXY(res \div 256) \cup Zero(res) \cup If(Odd(x, y, sum, 12), "H")
            \cup If(BitOf(x, 15) = BitOf(y, 15) /\ BitOf(x, 15) # BitOf(sum, 15), "P")
            \cup If(sum >= 65536, "C")]

\* In 32 bits; only the lowest 17 are looked at
sbc16(x, y, F) ==
  LET dif == (x - y - (IF "C" \in F THEN 1 ELSE 0)) % 131072
      res == dif % 65536
  IN [res |-> res,
      F |-> SXY(res \div 256) \cup Zero(res) \cup If(Odd(x, y, dif, 12), "H")
            \cup If(BitOf(x, 15) # BitOf(y, 15) /\ BitOf(x, 15) # BitOf(dif, 15), "P")
            \cup {"N"} \cup If(BitOf(dif, 16), "C")]

\* rlc, rrc, rl, rr, sla, sra, slia, srl, in the order of the opcodes: what is
\* shifted in at which end, and out
Rotated(k, v, F) ==
  LET top == IF BitOf(v, 7) THEN 1 ELSE 0
      low == v % 2
      c == IF "C" \in F THEN 1 ELSE 0
      left(in) == [res |-> (2 * v + in) % 256, out |-> BitOf(v, 7)]
      right(in) == [res |-> v \div 2 + 128 * in, out |-> BitOf(v, 0)]
  IN CASE k = 0 -> left(top) [] k = 1 -> right(low)
       [] k = 2 -> left(c)   [] k = 3 -> right(c)
       [] k = 4 -> left(0)   [] k = 5 -> right(top)
       [] k = 6 -> left(1)   [] k = 7 -> right(0)

rot(k, v, F) ==
  LET r == Rotated(k, v, F) IN
  [res |-> r.res, F |-> Logic(r.res, If(r.out, "C")).F]

\* rlca, rrca, rla, rra
rota(k, a, F) ==
  LET r == Rotated(k, a, F) IN
  [res |-> r.res,
   F |-> (F \cap {"S", "Z", "P"}) \cup XY(r.res) \cup If(r.out, "C")]

\* BIT b: the bit itself decides S, Z and P; X and Y come from elsewhere
bit(b, v, from, F) ==
  If(b = 7 /\ BitOf(v, 7), "S") \cup (IF BitOf(v, b) THEN {} ELSE {"Z", "P"})
    \cup XY(from) \cup {"H"} \cup (F \cap {"C"})

\* ldi, ldd: P tells that BC is not yet 0; Y is bit 1 of the byte
FlagsOfCopy(v, bc, F) ==
  (F \cap {"S", "Z", "C"}) \cup If(BitOf(v, 1), "Y") \cup If(BitOf(v, 3), "X") \cup If(bc # 0, "P")

\* cpi, cpd
FlagsOfSearch(a, v, bc, F) ==
  LET r == sbc8(a, v, 0)
      res2 == (r.res - (IF "H" \in r.F THEN 1 ELSE 0)) % 256
  IN (r.F \cap {"S", "Z", "H", "N"}) \cup If(BitOf(res2, 1), "Y") \cup If(BitOf(res2, 3), "X")
       \cup If(bc # 0, "P") \cup (F \cap {"C"})

\* ini, ind, outi, outd: k is the byte and what it is added to
FlagsOfBlockIO(v, count, k) ==
  SXY(count) \cup Zero(count) \cup (IF k > 255 THEN {"H", "C"} ELSE {})
    \cup Parity(ByBits(k % 8, count, Xor)) \cup If(BitOf(v, 7), "N")
=============================================================================
