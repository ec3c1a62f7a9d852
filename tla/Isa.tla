--------------------------------- MODULE Isa ---------------------------------
(***************************************************************************)
(* The integer instructions of RISC-V with the compressed ones, as the     *)
(* manual defines them: what a program relies on.  An immediate is given,  *)
(* as in the manual, by the number of the immediate bit that each bit of   *)
(* the instruction is; a result, by the numbers the operands stand for.    *)
(***************************************************************************)
EXTENDS Words, Sequences

CONSTANTS Code, Loaded, Begin, TrapPC

VARIABLES
    x,    \* the registers, the first of which is zero
    f,    \* the floating-point registers
    pc,
    raw,  \* the last instruction in memory
    done  \* and what it means
vars == <<x, f, pc, raw, done>>

Init ==
    /\ \E b \in Begin :
          /\ pc = b[1]
          /\ x = [r \in 0 .. 31 |-> IF r = 0 THEN 0 ELSE b[2][r]]
    /\ f = [r \in 0 .. 31 |-> 0]
    /\ raw = <<>>
    /\ done = [name |-> "none", rd |-> 0, rs1 |-> 0, rs2 |-> 0, imm |-> 0, length |-> 0]

-----------------------------------------------------------------------------
(* Instructions and their operands.                                        *)

\* Bit places[k] of an instruction is bit weights[k] of the immediate.
Unsigned(bit, places, weights) ==
    LET sum[k \in 0 .. Len(places)] ==
            IF k = 0 THEN 0 ELSE sum[k - 1] + bit[places[k]] * Pow2[weights[k]]
    IN  sum[Len(places)]
\* The first place is the sign.
SignedImm(bit, places, weights) ==
    Unsigned(bit, places, weights) - bit[places[1]] * Pow2[weights[1] + 1]

Down(hi, lo) == [k \in 1 .. hi - lo + 1 |-> hi + 1 - k]

Inst(name, rd, rs1, rs2, imm, length) ==
    [name |-> name, rd |-> rd, rs1 |-> rs1, rs2 |-> rs2, imm |-> imm, length |-> length]

Branches == {"beq", "bne", "blt", "bge", "bltu", "bgeu"}
RegReg ==
    {"add", "sub", "and", "or", "xor", "sll", "srl", "sra", "slt", "sltu",
     "addw", "subw", "sllw", "srlw", "sraw", "mul", "mulh", "mulhsu", "mulhu",
     "div", "divu", "rem", "remu", "mulw", "divw", "divuw", "remw", "remuw"}
Moves == {"fmv.w.x", "fmv.x.w", "fmv.d.x", "fmv.x.d"}

\* The names of the instructions of 4 bytes; a fence and the instructions of
\* the privileged manual are one each, and so are loads and stores.
Name(op, f3, f7) ==
    LET Of(names) == names[f3 + 1]
    IN  CASE op = 51 /\ f7 = 0 -> Of(<<"add", "sll", "slt", "sltu", "xor", "srl", "or", "and">>)
          [] op = 51 /\ f7 = 1 ->
                Of(<<"mul", "mulh", "mulhsu", "mulhu", "div", "divu", "rem", "remu">>)
          [] op \in {51, 59} /\ f7 = 32 /\ f3 \in {0, 5} ->
                IF op = 51 THEN <<"sub", "sra">>[1 + (f3 \div 5)]
                ELSE <<"subw", "sraw">>[1 + (f3 \div 5)]
          [] op = 59 /\ f7 = 0 /\ f3 \in {0, 1, 5} ->
                Of(<<"addw", "sllw", "none", "none", "none", "srlw">>)
          [] op = 59 /\ f7 = 1 /\ f3 \notin {1, 2, 3} ->
                Of(<<"mulw", "none", "none", "none", "divw", "divuw", "remw", "remuw">>)
          [] op = 19 /\ f3 \notin {1, 5} ->
                Of(<<"addi", "none", "slti", "sltiu", "xori", "none", "ori", "andi">>)
          [] op = 19 /\ f3 \in {1, 5} /\ f7 \in {0, 1} -> IF f3 = 1 THEN "slli" ELSE "srli"
          [] op = 19 /\ f3 = 5 /\ f7 \in {32, 33} -> "srai"
          [] op = 27 /\ f3 = 0 -> "addiw"
          [] op = 27 /\ f3 \in {1, 5} /\ f7 = 0 -> IF f3 = 1 THEN "slliw" ELSE "srliw"
          [] op = 27 /\ f3 = 5 /\ f7 = 32 -> "sraiw"
          [] op = 99 /\ f3 \notin {2, 3} ->
                Of(<<"beq", "bne", "none", "none", "blt", "bge", "bltu", "bgeu">>)
          [] op = 3 /\ f3 # 7 -> "load"
          [] op = 35 /\ f3 < 4 -> "store"
          [] op = 7 /\ f3 = 3 -> "fld"
          [] op = 39 /\ f3 = 3 -> "fsd"
          [] op = 55 -> "lui"
          [] op = 23 -> "auipc"
          [] op = 111 -> "jal"
          [] op = 103 /\ f3 = 0 -> "jalr"
          [] op = 15 /\ f3 \in {0, 1} -> "fence"
          [] op = 115 /\ f3 = 0 /\ f7 = 9 -> "fence"
          [] op = 115 /\ f3 # 4 /\ ~(f3 = 0 /\ f7 = 9) -> "system"
          [] op = 83 /\ f3 = 0 /\ f7 \in {112, 113} -> <<"fmv.x.w", "fmv.x.d">>[f7 - 111]
          [] op = 83 /\ f3 = 0 /\ f7 \in {120, 121} -> <<"fmv.w.x", "fmv.d.x">>[f7 - 119]
          [] OTHER -> "illegal"

Field(bit, hi, lo) == Unsigned(bit, Down(hi, lo), Down(hi - lo, 0))

Rd(bit) == Field(bit, 11, 7)
Rs1(bit) == Field(bit, 19, 15)
Rs2(bit) == Field(bit, 24, 20)
Shift(bit) == Field(bit, 25, 20)

ImmI(bit) == SignedImm(bit, Down(31, 20), Down(11, 0))
ImmS(bit) == SignedImm(bit, Down(31, 25) \o Down(11, 7), Down(11, 0))
ImmB(bit) ==
    SignedImm(bit, <<31>> \o Down(30, 25) \o Down(11, 8) \o <<7>>,
              <<12>> \o Down(10, 1) \o <<11>>)
ImmU(bit) == SignedImm(bit, Down(31, 12), Down(19, 0)) * 4096
ImmJ(bit) ==
    SignedImm(bit, <<31>> \o Down(30, 21) \o <<20>> \o Down(19, 12),
              <<20>> \o Down(10, 1) \o <<11>> \o Down(19, 12))

WithOperands(n, bit) ==
    CASE n \in {"illegal", "fence"} -> Inst(n, 0, 0, 0, 0, 4)
      [] n \in RegReg -> Inst(n, Rd(bit), Rs1(bit), Rs2(bit), 0, 4)
      [] n \in Moves -> Inst(n, Rd(bit), Rs1(bit), 0, 0, 4)
      [] n \in {"store", "fsd"} -> Inst(n, 0, Rs1(bit), Rs2(bit), ImmS(bit), 4)
      [] n \in Branches -> Inst(n, 0, Rs1(bit), Rs2(bit), ImmB(bit), 4)
      [] n \in {"lui", "auipc"} -> Inst(n, Rd(bit), 0, 0, ImmU(bit), 4)
      [] n = "jal" -> Inst(n, Rd(bit), 0, 0, ImmJ(bit), 4)
      [] n \in {"slli", "srli", "srai"} -> Inst(n, Rd(bit), Rs1(bit), 0, Shift(bit), 4)
      [] n \in {"slliw", "srliw", "sraiw"} -> Inst(n, Rd(bit), Rs1(bit), 0, Rs2(bit), 4)
      [] n = "system" -> Inst(n, 0, 0, 0, ImmI(bit), 4)
      [] OTHER -> Inst(n, Rd(bit), Rs1(bit), 0, ImmI(bit), 4)

WordBits(code) == [i \in 0 .. 31 |-> (code[1 + (i \div 16)] \div Pow2[i % 16]) % 2]

MeaningW(code) ==
    LET bit == WordBits(code)
    IN  WithOperands(Name(Field(bit, 6, 0), Field(bit, 14, 12), Field(bit, 31, 25)), bit)

\* The compressed instructions: the fields that name a register, in three bits
\* or in five, and the one that tells the instructions of a quadrant apart.
Short1(bit) == Unsigned(bit, <<9, 8, 7>>, <<2, 1, 0>>) + 8   \* rs1' and rd'
Short2(bit) == Unsigned(bit, <<4, 3, 2>>, <<2, 1, 0>>) + 8   \* rs2', and rd' of a load
Long1(bit) == Unsigned(bit, Down(11, 7), Down(4, 0))
Long2(bit) == Unsigned(bit, Down(6, 2), Down(4, 0))
Column(bit) == Unsigned(bit, <<15, 14, 13>>, <<2, 1, 0>>)

CI == <<12, 6, 5, 4, 3, 2>>
CL == <<12, 11, 10, 6, 5>>
CSS == Down(12, 7)

OfI(n, rd, rs1, imm) == Inst(n, rd, rs1, 0, imm, 2)
OfR(n, rd, rs1, rs2) == Inst(n, rd, rs1, rs2, 0, 2)
OfS(n, rs1, rs2, imm) == Inst(n, 0, rs1, rs2, imm, 2)
OfJ(n, rd, imm) == Inst(n, rd, 0, 0, imm, 2)

Meaning0(zero, bit) ==
    LET column == Column(bit)  rs1 == Short1(bit)  rs2 == Short2(bit)
        U(places, weights) == Unsigned(bit, places, weights)
    IN  CASE zero \/ column \in {1, 4, 5} -> Inst("illegal", 0, 0, 0, 0, 2)
          [] ~zero /\ column = 0 ->
                OfI("addi", rs2, 2, U(Down(12, 5), <<5, 4, 9, 8, 7, 6, 2, 3>>))
          [] column = 2 -> OfI("load", rs2, rs1, U(CL, <<5, 4, 3, 2, 6>>))
          [] column = 3 -> OfI("load", rs2, rs1, U(CL, <<5, 4, 3, 7, 6>>))
          [] column = 6 -> OfS("store", rs1, rs2, U(CL, <<5, 4, 3, 2, 6>>))
          [] column = 7 -> OfS("store", rs1, rs2, U(CL, <<5, 4, 3, 7, 6>>))

\* The fourth column, on the short registers.
Meaning4(bit) ==
    LET group == Unsigned(bit, <<11, 10>>, <<1, 0>>)
        which == Unsigned(bit, <<12, 6, 5>>, <<2, 1, 0>>)
        rd == Short1(bit)
    IN  CASE group < 2 ->
                OfI(<<"srli", "srai">>[group + 1], rd, rd, Unsigned(bit, CI, Down(5, 0)))
          [] group = 2 -> OfI("andi", rd, rd, SignedImm(bit, CI, Down(5, 0)))
          [] group = 3 ->
                OfR(<<"sub", "xor", "or", "and", "subw", "addw">>[1 + which], rd, rd, Short2(bit))

Meaning1(bit) ==
    LET column == Column(bit)  rd == Long1(bit)
        S(places, weights) == SignedImm(bit, places, weights)
    IN  CASE column = 0 -> OfI("addi", rd, rd, IF rd = 0 THEN 0 ELSE S(CI, Down(5, 0)))
          [] column = 1 -> OfI("addiw", rd, rd, S(CI, Down(5, 0)))
          [] column = 2 -> OfI("addi", rd, 0, S(CI, Down(5, 0)))
          [] column = 3 /\ rd = 2 -> OfI("addi", 2, 2, S(CI, <<9, 4, 6, 8, 7, 5>>))
          [] column = 3 /\ rd # 2 -> OfJ("lui", rd, S(CI, Down(17, 12)))
          [] column = 4 -> Meaning4(bit)
          [] column = 5 -> OfJ("jal", 0, S(Down(12, 2), <<11, 4, 9, 8, 10, 6, 7, 3, 2, 1, 5>>))
          [] column \in {6, 7} ->
                OfS(<<"beq", "bne">>[column - 5], Short1(bit), 0,
                    S(<<12, 11, 10>> \o Down(6, 2), <<8, 4, 3, 7, 6, 2, 1, 5>>))

Meaning2(bit) ==
    LET column == Column(bit)  rd == Long1(bit)  rs2 == Long2(bit)
        U(places, weights) == Unsigned(bit, places, weights)
    IN  CASE column = 0 -> OfI("slli", rd, rd, U(CI, Down(5, 0)))
          [] column = 1 -> OfI("fld", rd, 2, U(CI, <<5, 4, 3, 8, 7, 6>>))
          [] column = 2 -> OfI("load", rd, 2, U(CI, <<5, 4, 3, 2, 7, 6>>))
          [] column = 3 -> OfI("load", rd, 2, U(CI, <<5, 4, 3, 8, 7, 6>>))
          [] column = 4 /\ rs2 = 0 /\ bit[12] = 0 -> OfI("jalr", 0, rd, 0)
          [] column = 4 /\ rs2 = 0 /\ bit[12] = 1 ->
                IF rd = 0 THEN Inst("system", 0, 0, 0, 1, 2) ELSE OfI("jalr", 1, rd, 0)
          [] column = 4 /\ rs2 # 0 -> OfR("add", rd, IF bit[12] = 1 THEN rd ELSE 0, rs2)
          [] column = 5 -> OfS("fsd", 2, rs2, U(CSS, <<5, 4, 3, 8, 7, 6>>))
          [] column = 6 -> OfS("store", 2, rs2, U(CSS, <<5, 4, 3, 2, 7, 6>>))
          [] column = 7 -> OfS("store", 2, rs2, U(CSS, <<5, 4, 3, 8, 7, 6>>))

ShortBits(c) == [i \in 0 .. 15 |-> (c \div Pow2[i]) % 2]

MeaningC(c) ==
    LET bit == ShortBits(c)
    IN  CASE c % 4 = 0 -> Meaning0(c = 0, bit)
          [] c % 4 = 1 -> Meaning1(bit)
          [] c % 4 = 2 -> Meaning2(bit)

Meaning(code) == IF Len(code) = 1 THEN MeaningC(code[1]) ELSE MeaningW(code)

-----------------------------------------------------------------------------
(* Results.                                                                *)

Sgn(v) == Signed(v, Full)

Magnitude(v) == IF v < 0 THEN -v ELSE v

\* The quotient rounded towards zero: what is left is smaller than the
\* divisor and has the sign of the dividend.
Quot(v, w) ==
    IF w = 0 THEN -1
    ELSE CHOOSE q \in -Magnitude(v) .. Magnitude(v) :
            LET r == v - w * q
            IN  Magnitude(r) < Magnitude(w) /\ (r = 0 \/ (r < 0) = (v < 0))
Rem(v, w) == IF w = 0 THEN v ELSE v - w * Quot(v, w)

\* The numbers with n values: a and b unsigned, sa and sb signed, s a shift.
Value(name, a, b, n, bits) ==
    LET sa == Signed(a, n)  sb == Signed(b, n)  s == b % bits
    IN  CASE name = "add" -> a + b
          [] name = "sub" -> a - b
          [] name = "and" -> FromBits({i \in Bits(a) : i \in Bits(b)})
          [] name = "or" -> a + FromBits({i \in Bits(b) : i \notin Bits(a)})
          [] name = "xor" -> a + b - 2 * FromBits({i \in Bits(a) : i \in Bits(b)})
          [] name = "sll" -> a * Pow2[s]
          [] name = "srl" -> a \div Pow2[s]
          [] name = "sra" -> sa \div Pow2[s]
          [] name = "slt" -> IF sa < sb THEN 1 ELSE 0
          [] name = "sltu" -> IF a < b THEN 1 ELSE 0
          [] name = "mul" -> a * b
          [] name = "mulh" -> (sa * sb) \div n
          [] name = "mulhsu" -> (sa * b) \div n
          [] name = "mulhu" -> (a * b) \div n
          [] name = "div" -> Quot(sa, sb)
          [] name = "divu" -> Quot(a, b)
          [] name = "rem" -> Rem(sa, sb)
          [] name = "remu" -> Rem(a, b)

\* The instructions on the lower halves, whose result is sign-extended.
OnHalves ==
    [addw |-> "add", subw |-> "sub", sllw |-> "sll", srlw |-> "srl", sraw |-> "sra",
     mulw |-> "mul", divw |-> "div", divuw |-> "divu", remw |-> "rem", remuw |-> "remu"]

Result(name, a, b) ==
    IF name \in DOMAIN OnHalves
    THEN Signed(Value(OnHalves[name], a % Half, b % Half, Half, HalfBits) % Half, Half) % Full
    ELSE Value(name, a, b, Full, XLen) % Full

WithImmediate ==
    [addi |-> "add", andi |-> "and", ori |-> "or", xori |-> "xor", slti |-> "slt",
     sltiu |-> "sltu", slli |-> "sll", srli |-> "srl", srai |-> "sra", addiw |-> "addw",
     slliw |-> "sllw", srliw |-> "srlw", sraiw |-> "sraw"]

Condition(name, a, b) ==
    CASE name = "beq" -> a = b
      [] name = "bne" -> a # b
      [] name = "blt" -> Sgn(a) < Sgn(b)
      [] name = "bge" -> ~(Sgn(a) < Sgn(b))
      [] name = "bltu" -> a < b
      [] name = "bgeu" -> ~(a < b)

-----------------------------------------------------------------------------
(* Steps.                                                                  *)

Set(rd, v) == x' = [x EXCEPT ![rd] = IF rd = 0 THEN 0 ELSE v]
Advance(offset) == pc' = (pc + offset) % Full

Step(i) ==
    LET a == x[i.rs1]  b == x[i.rs2]
    IN     \/ /\ i.name \in RegReg
              /\ Set(i.rd, Result(i.name, a, b)) /\ Advance(i.length) /\ UNCHANGED f
           \/ /\ i.name \in DOMAIN WithImmediate
              /\ Set(i.rd, Result(WithImmediate[i.name], a, i.imm % Full))
              /\ Advance(i.length) /\ UNCHANGED f
           \/ /\ i.name = "lui" /\ Set(i.rd, i.imm % Full)
              /\ Advance(i.length) /\ UNCHANGED f
           \/ /\ i.name = "auipc" /\ Set(i.rd, (pc + i.imm) % Full)
              /\ Advance(i.length) /\ UNCHANGED f
           \/ /\ i.name \in Branches
              /\ Advance(IF Condition(i.name, a, b) THEN i.imm ELSE i.length)
              /\ UNCHANGED <<x, f>>
           \/ /\ i.name = "jal" /\ Set(i.rd, (pc + i.length) % Full)
              /\ Advance(i.imm) /\ UNCHANGED f
           \/ /\ i.name = "jalr" /\ Set(i.rd, (pc + i.length) % Full)
              /\ pc' = 2 * (((a + i.imm) % Full) \div 2) /\ UNCHANGED f
           \/ /\ i.name = "load" /\ \E v \in Loaded : Set(i.rd, v)
              /\ Advance(i.length) /\ UNCHANGED f
           \/ /\ i.name = "fld" /\ \E v \in Loaded : f' = [f EXCEPT ![i.rd] = v]
              /\ Advance(i.length) /\ UNCHANGED x
           \/ /\ i.name \in {"store", "fsd", "fence"}
              /\ Advance(i.length) /\ UNCHANGED <<x, f>>
           \/ /\ i.name = "fmv.w.x" /\ f' = [f EXCEPT ![i.rd] = (a % Half) + (Half - 1) * Half]
              /\ Advance(i.length) /\ UNCHANGED x
           \/ /\ i.name = "fmv.d.x" /\ f' = [f EXCEPT ![i.rd] = a]
              /\ Advance(i.length) /\ UNCHANGED x
           \/ /\ i.name = "fmv.x.w" /\ Set(i.rd, Signed(f[i.rs1] % Half, Half) % Full)
              /\ Advance(i.length) /\ UNCHANGED f
           \/ /\ i.name = "fmv.x.d" /\ Set(i.rd, f[i.rs1])
              /\ Advance(i.length) /\ UNCHANGED f
           \/ /\ i.name \in {"illegal", "system"}
              /\ pc' = TrapPC /\ UNCHANGED <<x, f>>

Next ==
    /\ raw' \in Code[pc]
    /\ done' = Meaning(raw')
    /\ Step(done')

Spec == Init /\ [][Next]_vars
=============================================================================
