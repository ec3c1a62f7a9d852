------------------------------- MODULE Execute -------------------------------
(***************************************************************************)
(* The registers of the hart and its program counter under the handlers    *)
(* that compute, move, branch and jump.  One step is one Processor::step   *)
(* whose fetch succeeded: expand, decode, execute, adjust the program      *)
(* counter.  Memory accesses, traps and CSRs are what other modules have;  *)
(* here a load returns some value and a trap goes to the handler.          *)
(***************************************************************************)
EXTENDS Alu, Decoder

CONSTANTS
    Code,      \* Code[pc]: the instructions memory may hold at pc
    Loaded,    \* what a load may return
    StackWord, \* what registers[0] may hold when the processor is made
    Begin,     \* program counters with what registers 1 to 31 hold there
    TrapPC     \* where a trap goes

HalfWord == 0 .. 65535

ASSUME ProgramAssumption ==
    /\ DOMAIN Code = Word /\ TrapPC \in Word
    /\ \A pc \in Word : \A code \in Code[pc] :
          /\ code \in Seq(HalfWord)
          /\ Len(code) = IF code[1] % 4 = 3 THEN 2 ELSE 1
    /\ Loaded \subseteq Word /\ StackWord \subseteq Word
    /\ \A b \in Begin : b[1] \in Word /\ b[2] \in [1 .. 31 -> Word]

VARIABLES
    registers, f_registers, program_counter,
    raw, inst \* the last instruction in memory and as its handler got it
vars == <<registers, f_registers, program_counter, raw, inst>>

RegNum == 0 .. 31
NoInst == [name |-> "none", rd |-> 0, rs1 |-> 0, rs2 |-> 0, imm |-> 0, length |-> 0]

\* The constructor leaves registers[0] as the stack had it: write_reg skips 0.
Init ==
    /\ \E b \in Begin, v \in StackWord :
          /\ program_counter = b[1]
          /\ registers = [r \in RegNum |-> IF r = 0 THEN v ELSE b[2][r]]
    /\ f_registers = [r \in RegNum |-> 0]
    /\ raw = <<>> /\ inst = NoInst

\* write_reg; nothing else of the code keeps register 0.
WriteReg(rd, v) == IF rd = 0 THEN registers ELSE [registers EXCEPT ![rd] = v]

\* The handlers that assign registers[inst.rd] themselves.
Direct == {"add", "sub", "addi", "mulhu", "fmv.x.w", "fmv.x.d"}

SetReg(f, rd, v) == IF f \in Direct THEN [registers EXCEPT ![rd] = v] ELSE WriteReg(rd, v)

RegRegOps == BaseOps \cup MulOps

\* The handlers with an immediate compute what one with a register does.
RegImmOps ==
    [addi |-> "add", andi |-> "and", ori |-> "or", xori |-> "xor", slti |-> "slt",
     sltiu |-> "sltu", slli |-> "sll", srli |-> "srl", srai |-> "sra", addiw |-> "addw",
     slliw |-> "sllw", srliw |-> "srlw", sraiw |-> "sraw"]

BranchOps == {"beq", "bne", "blt", "bge", "bltu", "bgeu"}

Taken(f, a, b) ==
    CASE f = "beq"  -> a = b
      [] f = "bne"  -> a # b
      [] f = "blt"  -> Signed(a, Full) < Signed(b, Full)
      [] f = "bge"  -> Signed(a, Full) >= Signed(b, Full)
      [] f = "bltu" -> a < b
      [] f = "bgeu" -> a >= b

At(offset) == (program_counter + offset) % Full

\* The end of step: the program counter is advanced unless it changed.
Retire(target, length) ==
    program_counter' = IF target = program_counter THEN At(length) ELSE target

Continue(i) == Retire(program_counter, i.length)

Arithmetic(i) ==
    /\ \/ i.name \in RegRegOps
          /\ registers' = SetReg(i.name, i.rd, Compute(i.name, registers[i.rs1], registers[i.rs2]))
       \/ i.name \in DOMAIN RegImmOps
          /\ registers' = SetReg(i.name, i.rd,
                 Compute(RegImmOps[i.name], registers[i.rs1], i.imm % Full))
    /\ Continue(i)
    /\ UNCHANGED f_registers

Upper(i) ==
    /\ i.name \in {"lui", "auipc"}
    /\ registers' = WriteReg(i.rd, IF i.name = "lui" THEN i.imm % Full ELSE At(i.imm))
    /\ Continue(i)
    /\ UNCHANGED f_registers

Branch(i) ==
    /\ i.name \in BranchOps
    /\ Retire(IF Taken(i.name, registers[i.rs1], registers[i.rs2])
              THEN At(i.imm) ELSE program_counter, i.length)
    /\ UNCHANGED <<registers, f_registers>>

\* jalr clears the last bit of its target, which it reads before the link.
Jump(i) ==
    /\ \/ i.name = "jal" /\ Retire(At(i.imm), i.length)
       \/ /\ i.name = "jalr"
          /\ LET target == (registers[i.rs1] + i.imm) % Full
             IN  Retire(target - (target % 2), i.length)
    /\ registers' = WriteReg(i.rd, At(i.length))
    /\ UNCHANGED f_registers

\* A load into register 0 is not made at all.
Access(i) ==
    /\ \/ /\ i.name = "load" /\ i.rd # 0
          /\ \E v \in Loaded : registers' = WriteReg(i.rd, v)
          /\ UNCHANGED f_registers
       \/ /\ i.name = "fld"
          /\ \E v \in Loaded : f_registers' = [f_registers EXCEPT ![i.rd] = v]
          /\ UNCHANGED registers
       \/ /\ i.name \in {"load", "store", "fsd", "fence"}
          /\ i.name = "load" => i.rd = 0
          /\ UNCHANGED <<registers, f_registers>>
    /\ Continue(i)

\* A single in a floating-point register has ones above it.
Boxed(x) == (x % Half) + (Full - Half)

FloatMove(i) ==
    /\ \/ /\ i.name \in {"fmv.w.x", "fmv.d.x"}
          /\ f_registers' = [f_registers EXCEPT ![i.rd] =
                 IF i.name = "fmv.w.x" THEN Boxed(registers[i.rs1]) ELSE registers[i.rs1]]
          /\ UNCHANGED registers
       \/ /\ i.name \in {"fmv.x.w", "fmv.x.d"}
          /\ registers' = SetReg(i.name, i.rd,
                 IF i.name = "fmv.x.w" THEN ExtendHalf(f_registers[i.rs1]) ELSE f_registers[i.rs1])
          /\ UNCHANGED f_registers
    /\ Continue(i)

\* raiseTrap, and the SYSTEM handlers, of which this module takes ebreak.
Trap(i) ==
    /\ i.name \in {"illegal", "system"}
    /\ Retire(TrapPC, i.length)
    /\ UNCHANGED <<registers, f_registers>>

\* Interpreter::handle and the end of step; write_reg(0, 0) changes nothing.
Handle(i) ==
    \/ Arithmetic(i)
    \/ Upper(i)
    \/ Branch(i)
    \/ Jump(i)
    \/ Access(i)
    \/ FloatMove(i)
    \/ Trap(i)

Next ==
    \E code \in Code[program_counter] :
        /\ raw' = code
        /\ inst' = Decode(code)
        /\ Handle(inst')

Spec == Init /\ [][Next]_vars

-----------------------------------------------------------------------------
(* Properties.                                                             *)

Int32Min == -2147483647 - 1
Int32Max == 2147483647

\* Every register holds a word and the program counter is an address, however
\* the intermediate results of the handlers overflowed.
TypeOK ==
    /\ registers \in [RegNum -> Word]
    /\ f_registers \in [RegNum -> Word]
    /\ program_counter \in Word
    /\ inst.rd \in RegNum /\ inst.rs1 \in RegNum /\ inst.rs2 \in RegNum
    /\ inst.imm \in Int32Min .. Int32Max /\ inst.length \in {0, 2, 4}

\* "32 general-purpose 64-bit registers" (README), all set "to a low state"
\* when the processor is made: register 0 reads as zero.
ZeroRegister == registers[0] = 0

\* The operands its handler reads of an instruction; a shift reads no more of
\* its immediate than the amount.
Operands(f) ==
    CASE f \in RegRegOps -> {"rd", "rs1", "rs2"}
      [] f \in BranchOps \cup {"store", "fsd"} -> {"rs1", "rs2", "imm"}
      [] f \in {"jal", "lui", "auipc"} -> {"rd", "imm"}
      [] f \in {"fmv.w.x", "fmv.x.w", "fmv.d.x", "fmv.x.d"} -> {"rd", "rs1"}
      [] f \in {"illegal", "fence", "none"} -> {}
      [] f = "system" -> {"imm"}
      [] OTHER -> {"rd", "rs1", "imm"}

Shown(i) ==
    LET Read(field, v) == IF field \in Operands(i.name) THEN v ELSE 0
    IN  [name |-> i.name, rd |-> Read("rd", i.rd), rs1 |-> Read("rs1", i.rs1),
         rs2 |-> Read("rs2", i.rs2), length |-> i.length,
         imm |-> Read("imm", CASE i.name \in {"slli", "srli", "srai"} -> i.imm % 64
                               [] i.name \in {"slliw", "srliw", "sraiw"} -> i.imm % 32
                               [] OTHER -> i.imm)]

\* Expansion, decoding, dispatch and execution together do what the manual
\* says of each instruction: the operands, with the immediate put together
\* from its bits, the result and where the program continues.
Architecture == INSTANCE Isa WITH
    x <- registers, f <- f_registers, pc <- program_counter, done <- Shown(inst)

IsaSpec == Architecture!Spec
=============================================================================
