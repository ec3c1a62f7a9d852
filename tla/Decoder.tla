------------------------------- MODULE Decoder -------------------------------
(***************************************************************************)
(* From the bits of an instruction to the handler that runs and the        *)
(* operands it is given: the expansion of a compressed instruction, the    *)
(* fields and immediates of a word, the handler registered for it.         *)
(*                                                                         *)
(* Instructions are in memory as one or two numbers of 16 bits; a word is  *)
(* the record of its fields.                                               *)
(***************************************************************************)
EXTENDS Words, SequencesExt

\* (c >> low) & mask, for a mask of that many ones.
Cut(c, low, width) == (c \div Pow2[low]) % Pow2[width]
\* The same bits shifted left to where they belong.
Put(c, low, width, to) == Cut(c, low, width) * Pow2[to]

\* second_half << 16 | first_half, cut into fields.
Fields(first, second) ==
    [op |-> Cut(first, 0, 7), rd |-> Cut(first, 7, 5), f3 |-> Cut(first, 12, 3),
     rs1 |-> Cut(first, 15, 1) + Put(second, 0, 4, 1), rs2 |-> Cut(second, 4, 5),
     f7 |-> Cut(second, 9, 7)]

-----------------------------------------------------------------------------
(* Processor::decompress: the word a compressed instruction stands for.    *)

\* An immediate is cut to the bits its place has: imm & 0xFFF.
MakeI(imm, rs1, f3, rd, op) ==
    [op |-> op, rd |-> rd, f3 |-> f3, rs1 |-> rs1,
     rs2 |-> imm % 32, f7 |-> (imm \div 32) % 128]
MakeS(imm, rs2, rs1, f3, op) ==
    [op |-> op, rd |-> imm % 32, f3 |-> f3, rs1 |-> rs1, rs2 |-> rs2,
     f7 |-> (imm \div 32) % 128]
MakeR(f7, rs2, rs1, f3, rd, op) ==
    [op |-> op, rd |-> rd, f3 |-> f3, rs1 |-> rs1, rs2 |-> rs2, f7 |-> f7]
MakeU(imm, rd) ==
    [op |-> 55, rd |-> rd, f3 |-> Cut(imm, 12, 3), rs1 |-> Cut(imm, 15, 5),
     rs2 |-> Cut(imm, 20, 5), f7 |-> Cut(imm, 25, 7)]
MakeJ(imm) ==
    [op |-> 111, rd |-> 0, f3 |-> Cut(imm, 12, 3), rs1 |-> Cut(imm, 15, 5),
     rs2 |-> Put(imm, 1, 4, 1) + Cut(imm, 11, 1),
     f7 |-> Put(imm, 20, 1, 6) + Cut(imm, 5, 6)]
MakeB(imm, rs1, f3) ==
    [op |-> 99, rd |-> Put(imm, 1, 4, 1) + Cut(imm, 11, 1), f3 |-> f3, rs1 |-> rs1,
     rs2 |-> 0, f7 |-> Put(imm, 12, 1, 6) + Cut(imm, 5, 6)]

\* 0xFFFFFFFF, which no handler takes.
IllegalWord == MakeR(127, 31, 31, 7, 31, 127)

RegC(c, low) == Cut(c, low, 3) + 8
RegF(c) == Cut(c, 7, 5)
Rs2F(c) == Cut(c, 2, 5)
Sign(c, weight) == IF Cut(c, 12, 1) = 1 THEN -weight ELSE 0

Imm6(c) == Cut(c, 2, 5) + Sign(c, 32)
Shamt6(c) == Cut(c, 2, 5) + Put(c, 12, 1, 5)
ImmWord(c) == Put(c, 6, 1, 2) + Put(c, 10, 3, 3) + Put(c, 5, 1, 6)
ImmDouble(c) == Put(c, 10, 3, 3) + Put(c, 5, 2, 6)
ImmDoubleSp(c) == Put(c, 5, 2, 3) + Put(c, 12, 1, 5) + Put(c, 2, 3, 6)
ImmStoreSp(c) == Put(c, 10, 3, 3) + Put(c, 7, 3, 6)

Quadrant0(c) ==
    LET rd == RegC(c, 2)  rs1 == RegC(c, 7)  f3 == Cut(c, 13, 3)
    IN  CASE f3 = 0 /\ c # 0 ->
                MakeI(Put(c, 7, 4, 6) + Put(c, 11, 2, 4) + Put(c, 5, 1, 3) + Put(c, 6, 1, 2),
                      2, 0, rd, 19)
          [] f3 = 2 -> MakeI(ImmWord(c), rs1, 2, rd, 3)
          [] f3 = 3 -> MakeI(ImmDouble(c), rs1, 3, rd, 3)
          [] f3 = 6 -> MakeS(ImmWord(c), rd, rs1, 2, 35)
          [] f3 = 7 -> MakeS(ImmDouble(c), rd, rs1, 3, 35)
          [] OTHER -> IllegalWord

\* C.SUB, C.XOR, C.OR, C.AND, C.SUBW, C.ADDW.
Arith(c, rd) ==
    LET rs2 == RegC(c, 2)  which == Cut(c, 5, 2)
    IN  IF Cut(c, 12, 1) = 1
        THEN IF which > 1 THEN IllegalWord
             ELSE MakeR(IF which = 0 THEN 32 ELSE 0, rs2, rd, 0, rd, 59)
        ELSE MakeR(IF which = 0 THEN 32 ELSE 0, rs2, rd, <<0, 4, 6, 7>>[which + 1], rd, 51)

ImmAddi16Sp(c) ==
    Put(c, 6, 1, 4) + Put(c, 2, 1, 5) + Put(c, 5, 1, 6) + Put(c, 3, 2, 7) + Sign(c, 512)

\* Seeded fault: two bits of the offset of C.J change places.
ImmJump_Swapped(c) ==
    Put(c, 3, 3, 1) + Put(c, 11, 1, 4) + Put(c, 2, 1, 5) + Put(c, 6, 1, 6) + Put(c, 7, 1, 7)
        + Put(c, 9, 2, 8) + Put(c, 8, 1, 10) + Put(c, 12, 1, 11) + Sign(c, 4096)
ImmJump(c) ==
    Put(c, 3, 3, 1) + Put(c, 11, 1, 4) + Put(c, 2, 1, 5) + Put(c, 7, 1, 6) + Put(c, 6, 1, 7)
        + Put(c, 9, 2, 8) + Put(c, 8, 1, 10) + Put(c, 12, 1, 11) + Sign(c, 4096)

\* Bit 8 and the ones 0xFFFFFE00 sets above it.
ImmBranch(c) ==
    Put(c, 3, 2, 1) + Put(c, 10, 2, 3) + Put(c, 2, 1, 5) + Put(c, 5, 2, 6)
        + Put(c, 12, 1, 8) + Sign(c, 512)

Quadrant1(c) ==
    LET rd == RegF(c)  rdc == RegC(c, 7)  f3 == Cut(c, 13, 3)  f2 == Cut(c, 10, 2)
    IN  CASE f3 = 0 -> IF rd = 0 THEN MakeI(0, 0, 0, 0, 19) ELSE MakeI(Imm6(c), rd, 0, rd, 19)
          [] f3 = 1 -> MakeI(Imm6(c), rd, 0, rd, 27)
          [] f3 = 2 -> MakeI(Imm6(c), 0, 0, rd, 19)
          [] f3 = 3 /\ rd = 2 -> MakeI(ImmAddi16Sp(c), 2, 0, 2, 19)
          [] f3 = 3 /\ rd # 2 -> MakeU(Put(c, 2, 5, 12) + Sign(c, 131072), rd)
          [] f3 = 4 /\ f2 = 0 -> MakeI(Shamt6(c), rdc, 5, rdc, 19)
          [] f3 = 4 /\ f2 = 1 -> MakeI(1024 + Shamt6(c), rdc, 5, rdc, 19)
          [] f3 = 4 /\ f2 = 2 -> MakeI(Imm6(c), rdc, 7, rdc, 19)
          [] f3 = 4 /\ f2 = 3 -> Arith(c, rdc)
          [] f3 = 5 -> MakeJ(ImmJump(c))
          [] f3 \in {6, 7} -> MakeB(ImmBranch(c), rdc, f3 - 6)

\* C.JR, C.MV, C.EBREAK, C.JALR, C.ADD.
Moves(c, rd, rs2) ==
    LET link == Cut(c, 12, 1)
    IN  IF rs2 # 0 THEN MakeR(0, rs2, IF link = 0 THEN 0 ELSE rd, 0, rd, 51)
        ELSE IF link = 1 /\ rd = 0 THEN MakeI(1, 0, 0, 0, 115)
        ELSE MakeI(0, rd, 0, link, 103)

Quadrant2(c) ==
    LET rd == RegF(c)  rs2 == Rs2F(c)  f3 == Cut(c, 13, 3)
    IN  CASE f3 = 0 -> MakeI(Shamt6(c), rd, 1, rd, 19)
          [] f3 = 1 -> MakeI(ImmDoubleSp(c), 2, 3, rd, 7)
          [] f3 = 2 -> MakeI(Put(c, 4, 3, 2) + Put(c, 12, 1, 5) + Put(c, 2, 2, 6), 2, 2, rd, 3)
          [] f3 = 3 -> MakeI(ImmDoubleSp(c), 2, 3, rd, 3)
          [] f3 = 4 -> Moves(c, rd, rs2)
          [] f3 = 5 -> MakeS(ImmStoreSp(c), rs2, 2, 3, 39)
          [] f3 = 6 -> MakeS(Put(c, 9, 4, 2) + Put(c, 7, 2, 6), rs2, 2, 2, 35)
          [] f3 = 7 -> MakeS(ImmStoreSp(c), rs2, 2, 3, 35)

Decompress(c) ==
    CASE c % 4 = 0 -> Quadrant0(c)
      [] c % 4 = 1 -> Quadrant1(c)
      [] c % 4 = 2 -> Quadrant2(c)

-----------------------------------------------------------------------------
(* Interpreter::decode.                                                    *)

SignExtend(x, bits) == IF x < Pow2[bits - 1] THEN x ELSE x - Pow2[bits]

Format(op) ==
    CASE op \in {15, 19, 27, 3, 103, 115, 7} -> "I"
      [] op \in {35, 39} -> "S"
      [] op = 99 -> "B"
      [] op \in {55, 23} -> "U"
      [] op = 111 -> "J"
      [] OTHER -> "R"

DecodeI(w) == SignExtend(w.f7 * 32 + w.rs2, 12)
DecodeS(w) == SignExtend(w.f7 * 32 + w.rd, 12)
DecodeB(w) ==
    SignExtend(Cut(w.f7, 6, 1) * 4096 + Cut(w.rd, 0, 1) * 2048
               + Cut(w.f7, 0, 6) * 32 + Cut(w.rd, 1, 4) * 2, 13)
DecodeU(w) == SignExtend(w.f7 * 8192 + w.rs2 * 256 + w.rs1 * 8 + w.f3, 20) * 4096
DecodeJ(w) ==
    SignExtend(Cut(w.f7, 6, 1) * 1048576 + (w.rs1 * 8 + w.f3) * 4096
               + Cut(w.rs2, 0, 1) * 2048 + Cut(w.f7, 0, 6) * 32 + Cut(w.rs2, 1, 4) * 2, 21)

Immediate(w) ==
    CASE Format(w.op) = "I" -> DecodeI(w)
      [] Format(w.op) = "S" -> DecodeS(w)
      [] Format(w.op) = "B" -> DecodeB(w)
      [] Format(w.op) = "U" -> DecodeU(w)
      [] Format(w.op) = "J" -> DecodeJ(w)
      [] Format(w.op) = "R" -> 0

-----------------------------------------------------------------------------
(* Interpreter::handle: the handler that was registered for a word.        *)

AnyField == -1

\* register_r with one opcode for several handlers, register_i and the others.
Reg(op, f7, names) ==
    [k \in DOMAIN names |-> <<op, names[k][1], f7, names[k][2]>>]

\* In the order of init_default_instructions.  The SYSTEM handlers are one
\* here, and the atomics are left out: other modules have them.
Rules ==
    Reg(51, 0, <<<<0, "add">>>>) \o Reg(51, 32, <<<<0, "sub">>>>)
    \o Reg(19, AnyField, <<<<0, "addi">>>>)
    \o Reg(3, AnyField, <<<<2, "load">>>>) \o Reg(35, AnyField, <<<<2, "store">>>>)
    \o Reg(99, AnyField, <<<<0, "beq">>>>) \o Reg(111, AnyField, <<<<AnyField, "jal">>>>)
    \o Reg(15, AnyField, <<<<0, "fence">>>>) \o Reg(115, 9, <<<<0, "fence">>>>)
    \o Reg(15, AnyField, <<<<1, "fence">>>>)
    \o Reg(3, AnyField, <<<<0, "load">>, <<1, "load">>, <<3, "load">>, <<4, "load">>,
                             <<5, "load">>, <<6, "load">>>>)
    \o Reg(55, AnyField, <<<<AnyField, "lui">>>>)
    \o Reg(35, AnyField, <<<<0, "store">>, <<1, "store">>, <<3, "store">>>>)
    \o Reg(99, AnyField, <<<<1, "bne">>, <<4, "blt">>, <<5, "bge">>, <<6, "bltu">>, <<7, "bgeu">>>>)
    \o Reg(103, AnyField, <<<<0, "jalr">>>>)
    \o Reg(51, 0, <<<<7, "and">>, <<6, "or">>, <<4, "xor">>, <<1, "sll">>, <<5, "srl">>>>)
    \o Reg(51, 32, <<<<5, "sra">>>>)
    \o Reg(51, 0, <<<<2, "slt">>, <<3, "sltu">>>>)
    \o Reg(19, 0, <<<<1, "slli">>, <<5, "srli">>>>) \o Reg(19, 32, <<<<5, "srai">>>>)
    \o Reg(59, 0, <<<<0, "addw">>>>) \o Reg(59, 32, <<<<0, "subw">>>>)
    \o Reg(59, 0, <<<<1, "sllw">>, <<5, "srlw">>>>) \o Reg(59, 32, <<<<5, "sraw">>>>)
    \o Reg(19, AnyField, <<<<7, "andi">>, <<6, "ori">>, <<4, "xori">>>>)
    \o Reg(27, AnyField, <<<<0, "addiw">>>>)
    \o Reg(19, AnyField, <<<<2, "slti">>, <<3, "sltiu">>>>)
    \o Reg(23, AnyField, <<<<AnyField, "auipc">>>>)
    \o Reg(27, 0, <<<<1, "slliw">>, <<5, "srliw">>>>) \o Reg(27, 32, <<<<5, "sraiw">>>>)
    \o Reg(115, AnyField, [k \in 1 .. 7 |-> <<<<0, 1, 2, 3, 5, 6, 7>>[k], "system">>])
    \o Reg(39, AnyField, <<<<3, "fsd">>>>) \o Reg(7, AnyField, <<<<3, "fld">>>>)
    \o Reg(83, 120, <<<<0, "fmv.w.x">>>>) \o Reg(83, 112, <<<<0, "fmv.x.w">>>>)
    \o Reg(83, 121, <<<<0, "fmv.d.x">>>>) \o Reg(83, 113, <<<<0, "fmv.x.d">>>>)
    \o Reg(51, 1, <<<<0, "mul">>, <<1, "mulh">>, <<2, "mulhsu">>, <<3, "mulhu">>,
                            <<4, "div">>, <<5, "divu">>, <<6, "rem">>, <<7, "remu">>>>)
    \o Reg(59, 1, <<<<0, "mulw">>, <<4, "divw">>, <<5, "divuw">>, <<6, "remw">>, <<7, "remuw">>>>)

\* The funct7 handle looks up: in a shift, bit 5 of the amount is cleared.
LookupF7(w) ==
    IF w.op \in {19, 27} /\ w.f3 \in {1, 5} THEN w.f7 - (w.f7 % 2) ELSE w.f7

Handler(w) ==
    LET k == SelectInSeq(Rules, LAMBDA r :
                 r[1] = w.op /\ r[2] \in {w.f3, AnyField} /\ r[3] \in {LookupF7(w), AnyField})
    IN  IF k = 0 THEN "illegal" ELSE Rules[k][4]

Operation(w, length) ==
    [name |-> Handler(w), rd |-> w.rd, rs1 |-> w.rs1, rs2 |-> w.rs2,
     imm |-> Immediate(w), length |-> length]

\* The start of step: two bytes unless the last two bits are ones.
Decode(code) ==
    IF code[1] % 4 # 3 THEN Operation(Decompress(code[1]), 2)
    ELSE Operation(Fields(code[1], code[2]), 4)
=============================================================================
