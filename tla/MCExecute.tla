------------------------------ MODULE MCExecute ------------------------------
(***************************************************************************)
(* Instructions for TLC, on registers of 8 bits.  At address 0 memory may  *)
(* hold any of the compressed instructions, and words with every immediate *)
(* of each format; from address 16 on, each of the other instructions.     *)
(***************************************************************************)
EXTENDS Execute

\* What the manual reserves of the compressed instructions; what changes
\* nothing (writes to x0 by C.LI, C.MV and C.ADD); a jump or a branch to itself.
Reserved(c) ==
    LET rd == RegF(c)
        key == <<c % 4, c \div 8192>>
    IN  \/ key = <<0, 0>> /\ c # 0 /\ Cut(c, 5, 8) = 0
        \/ key = <<1, 1>> /\ rd = 0
        \/ key = <<1, 3>> /\ Cut(c, 12, 1) = 0 /\ Cut(c, 2, 5) = 0
        \/ key = <<1, 4>> /\ Cut(c, 10, 3) = 7 /\ Cut(c, 6, 1) = 1
        \/ key \in {<<2, 2>>, <<2, 3>>} /\ rd = 0
        \/ c = 32770
Hint(c) ==
    /\ RegF(c) = 0
    /\ \/ c % 4 = 1 /\ c \div 8192 = 2
       \/ c % 4 = 2 /\ c \div 8192 = 4 /\ Rs2F(c) # 0
ToItself(c) ==
    /\ c % 4 = 1
    /\ \/ c \div 8192 = 5 /\ ImmJump(c) % Full = 0
       \/ c \div 8192 \in {6, 7} /\ ImmBranch(c) % Full = 0

Short == {<<c>> : c \in {c \in HalfWord : c % 4 # 3 /\ ~Reserved(c) /\ ~Hint(c) /\ ~ToItself(c)}}

\* The fields of a word as memory holds them.
Halves(w) ==
    <<w.op + w.rd * 128 + w.f3 * 4096 + (w.rs1 % 2) * 32768,
      (w.rs1 \div 2) + w.rs2 * 16 + w.f7 * 512>>
R(f7, rs2, rs1, f3, rd, op) == Halves(MakeR(f7, rs2, rs1, f3, rd, op))
I(imm, rs1, f3, rd, op) == Halves(MakeI(imm, rs1, f3, rd, op))

\* addi x1, x2 with every immediate; sw with every offset; beq x3, x3 with
\* every offset; lui, auipc and jal with every bit of the immediate.
Uppers == {2 ^ k : k \in 0 .. 19} \cup {2 ^ k + 4096 : k \in 0 .. 19} \cup {1048575, 699050}
Long ==
    {I(imm, 2, 0, 1, 19) : imm \in 0 .. 4095}
    \cup {Halves(MakeS(imm, 3, 2, 2, 35)) : imm \in 0 .. 4095}
    \cup {R(f7, 3, 3, 0, rd, 99) : f7 \in 0 .. 127, rd \in 1 .. 31}
    \cup {R(u \div 8192, (u \div 256) % 32, (u \div 8) % 32, u % 8, 1, op) :
             u \in Uppers, op \in {55, 23, 111}}

\* Jumps and branches to themselves are left out here too.
Long0 ==
    {code \in Long :
        LET w == Fields(code[1], code[2])
        IN  Format(w.op) \in {"B", "J"} => Immediate(w) % Full # 0}

\* Counting them makes TLC sort the set, in which it then looks instructions up.
AtZero == Short \cup Long0
ASSUME AtZeroAssumption == Cardinality(AtZero) > 50000

RegisterR ==
    {R(r[1], 2, 1, r[2], 4, 51) : r \in ({0, 1} \X (0 .. 7)) \cup {<<32, 0>>, <<32, 5>>}}
    \cup {R(r[1], 2, 1, r[2], 4, 59) :
             r \in ({0, 32} \X {0, 5}) \cup {<<0, 1>>} \cup ({1} \X {0, 4, 5, 6, 7})}
RegisterI ==
    {I(imm, 1, f3, 4, 19) : imm \in {1, 255, 2047, 4095}, f3 \in {0, 2, 3, 4, 6, 7}}
    \cup {I(imm, 1, 0, 4, 27) : imm \in {1, 4095}}
    \cup {I(s, 1, f3, 4, 19) : s \in {0, 1, 33, 63}, f3 \in {1, 5}}
    \cup {I(1024 + s, 1, 5, 4, 19) : s \in {1, 33}}
    \cup {I(s, 1, f3, 4, 27) : s \in {0, 3, 31}, f3 \in {1, 5}}
    \cup {I(1024 + s, 1, 5, 4, 27) : s \in {3, 31}}
Branching ==
    {Halves([MakeB(imm, 1, f3) EXCEPT !.rs2 = 2]) : imm \in {20, -6}, f3 \in {0, 1, 4, 5, 6, 7}}
Moving ==
    {I(imm, rs1, 0, rd, 103) : imm \in {7, 4090}, rs1 \in {6, 7}, rd \in {0, 1, 6}}
    \cup {I(8, 2, f3, 5, 3) : f3 \in 0 .. 6} \cup {I(8, 2, 3, 0, 3), I(8, 2, 3, 5, 7)}
    \cup {Halves(MakeS(8, 4, 2, f3, 35)) : f3 \in 0 .. 3}
    \cup {Halves(MakeS(8, 4, 2, 3, 39)), I(0, 0, 0, 0, 15), I(0, 0, 1, 0, 15), R(9, 0, 0, 0, 0, 115)}
    \cup {I(imm, 1, 1, 5, 115) : imm \in {768, 833}} \cup {I(1, 0, 0, 0, 115)}
    \cup {R(f7, 0, 4, 0, 5, 83) : f7 \in {120, 121}}
Back == {R(f7, 0, 5, 0, 6, 83) : f7 \in {112, 113}}

\* Words no handler takes.
Unknown ==
    {R(127, 31, 31, 7, 31, 127), R(2, 2, 1, 0, 4, 51), R(32, 2, 1, 1, 4, 51), R(0, 2, 1, 2, 4, 59),
     R(32, 0, 1, 1, 4, 19), R(16, 0, 1, 5, 4, 19), R(0, 0, 1, 2, 4, 27), I(0, 1, 7, 4, 3),
     I(0, 1, 1, 4, 103), R(0, 2, 1, 2, 4, 99), R(0, 2, 1, 4, 4, 35), I(0, 0, 2, 0, 15), I(0, 0, 4, 0, 115),
     R(120, 0, 4, 1, 5, 83), R(8, 0, 4, 0, 5, 83), I(0, 2, 2, 5, 7), R(0, 0, 1, 0, 4, 123)}

MCCode ==
    [pc \in Word |->
        CASE pc = 0 -> AtZero
          [] pc = 16 -> RegisterR \cup RegisterI \cup Branching
          [] pc = 32 -> Moving \cup Unknown
          [] pc = 36 -> Back
          [] OTHER -> {}]

Numbers == {0, 1, 2, 7, 9, 16, 127, 128, 143, 240, 255}
Others == [r \in 1 .. 31 |-> 7 * r]
MCBegin ==
    {<<0, Others>>, <<32, Others>>}
    \cup {<<16, [Others EXCEPT ![1] = a, ![2] = b]>> : a \in Numbers, b \in Numbers}
MCLoaded == {129}

\* addi x0, x1, 1
ZeroCode == [pc \in Word |-> IF pc % 4 = 0 THEN {I(1, 1, 0, 0, 19), I(0, 0, 0, 2, 19)} ELSE {}]
ZeroBegin == {<<0, Others>>}
=============================================================================
