------------------------------ MODULE HartOps ------------------------------
(***************************************************************************)
(* The functions of the hart of the RV64 simulator, as operators on a hart *)
(* record g: the trap entry, the CSR file, the physical-memory view of the *)
(* bus, the translation of a fetch address and the fetch of Processor::    *)
(* step, and the system instructions.  An operator whose outcome the build *)
(* or the memory contents decide returns the set of its outcomes.          *)
(*                                                                         *)
(* A register of bits is the set of the numbers of the bits that are set,  *)
(* so & is \cap, | is \cup and & ~ is \ .  Only the state that control     *)
(* depends on is kept: general registers, memory contents, mcause, mtval   *)
(* and the other CSRs that nothing reads are data and left out.            *)
(***************************************************************************)
EXTENDS Integers

CONSTANTS
    AddrSpace,    \* number of addresses; an address is taken modulo it (2^64)
    RamBase,      \* Bus::ram_base
    RamSize,      \* Memory::size
    PageSize,     \* 4096: where a 4-byte fetch is split in two translations
    Uart,         \* the addresses of UART::contains
    Msip,         \* 0x02000000
    ClintWords,   \* addresses a 4-byte read finds in the CLINT
    ClintDoubles, \* addresses an 8-byte read finds in the CLINT
    Interrupts,   \* the interrupt numbers in use
    Hosted,       \* Host build: an IO and an Environment are installed;
                  \* in the Core build io and env are null
    PmpViews      \* the PMP configurations a program writes, see PmpView

Addr == 0 .. AddrSpace - 1
Wrap(a) == a % AddrSpace

ASSUME AddressAssumption ==
    /\ AddrSpace \in Nat \ {0}
    /\ RamBase \in Addr /\ RamSize \in Nat /\ PageSize \in Nat \ {0}
    /\ Uart \subseteq Addr /\ Msip \in Addr
    /\ ClintWords \subseteq Addr /\ ClintDoubles \subseteq Addr
    /\ Hosted \in BOOLEAN

ASSUME InterruptAssumption ==
    Interrupts \subseteq Nat /\ {3, 7} \subseteq Interrupts

\* What checkPMP answers depends on the entry that matches an address first:
\* the addresses whose entry is locked, and those whose entry allows a load
\* and a store.
PmpView == [lock : SUBSET Addr, load : SUBSET Addr, store : SUBSET Addr]
PmpNone == [lock |-> {}, load |-> {}, store |-> {}]
PmpOpen == [lock |-> {}, load |-> Addr, store |-> Addr]

ASSUME PmpAssumption == PmpViews \subseteq PmpView

-----------------------------------------------------------------------------
(* Privilege modes, status bits and trap causes.                           *)

User == 0
Supervisor == 1
Machine == 3
Modes == 0 .. 3         \* mret can install 2, which no enumerator names

SIE == 1
MIE == 3
SPIE == 5
MPIE == 7
SPP == 8
MPP == {11, 12}
StatusBits == {SIE, MIE, SPIE, MPIE, SPP} \cup MPP
SSTATUS_MASK == {SIE, SPIE, SPP}

\* Seeded fault: MPP shifted by ten bits.
MppMode_Shift10(ms) == (IF 11 \in ms THEN 2 ELSE 0) + (IF 12 \in ms THEN 4 ELSE 0)

\* MPP as a number, and a mode as the bits of MPP.
MppMode(ms) == (IF 11 \in ms THEN 1 ELSE 0) + (IF 12 \in ms THEN 2 ELSE 0)
MppBits(m) == (IF m \in {1, 3} THEN {11} ELSE {}) \cup (IF m \in {2, 3} THEN {12} ELSE {})

INSTRUCTION_ACCESS_FAULT == 1
ILLEGAL_INSTRUCTION == 2
BREAKPOINT == 3
LOAD_ACCESS_FAULT == 5
STORE_ACCESS_FAULT == 7
ECALL_FROM_U_MODE == 8
ECALL_FROM_S_MODE == 9
ECALL_FROM_M_MODE == 11
Exceptions == 0 .. 15

TrapVec == [base : Addr, flag : 0 .. 3]
SatpModes == 0 .. 15
SATP_MODE_BARE == 0
SATP_MODE_SV39 == 8

\* traps counts the calls of raiseTrap in the last step, up to two; alive is
\* FALSE once the process has ended.
HartState ==
    [mode : Modes, pc : Addr, mstatus : SUBSET StatusBits,
     medeleg : SUBSET Exceptions, mideleg : SUBSET Interrupts,
     mie : SUBSET Interrupts, mip : SUBSET Interrupts,
     mtvec : TrapVec, stvec : TrapVec, mepc : Addr, sepc : Addr,
     satp : SatpModes, pmp : PmpView, msip : BOOLEAN,
     trap_pending : BOOLEAN, traps : 0 .. 2, alive : BOOLEAN]

-----------------------------------------------------------------------------
(* Processor::raiseTrap.                                                   *)

Vector(tvec, intr, code) ==
    Wrap(tvec.base + (IF tvec.flag = 1 /\ intr THEN 4 * code ELSE 0))

Count(n) == IF n < 2 THEN n + 1 ELSE n

\* Seeded fault: a trap of machine mode can be delegated.
Delegated_AnyMode(g, intr, code) ==
    code \in (IF intr THEN g.mideleg ELSE g.medeleg)

Delegated(g, intr, code) ==
    /\ g.mode <= Supervisor
    /\ code \in (IF intr THEN g.mideleg ELSE g.medeleg)

SupervisorEntryStatus(g) ==
    (g.mstatus \ SSTATUS_MASK)
        \cup (IF SIE \in g.mstatus THEN {SPIE} ELSE {})
        \cup (IF g.mode = Supervisor THEN {SPP} ELSE {})

MachineEntryStatus(g) ==
    (g.mstatus \ ({MIE, MPIE} \cup MPP))
        \cup (IF MIE \in g.mstatus THEN {MPIE} ELSE {})
        \cup MppBits(g.mode)

EnterSupervisor(g, intr, code, epc) ==
    [g EXCEPT !.sepc = epc,
              !.mstatus = SupervisorEntryStatus(g),
              !.mode = Supervisor,
              !.pc = Vector(g.stvec, intr, code),
              !.trap_pending = TRUE,
              !.traps = Count(@)]

EnterMachine(g, intr, code, epc) ==
    [g EXCEPT !.mepc = epc,
              !.mstatus = MachineEntryStatus(g),
              !.mode = Machine,
              !.pc = Vector(g.mtvec, intr, code),
              !.trap_pending = TRUE,
              !.traps = Count(@)]

RaiseTrap(g, intr, code, epc) ==
    IF Delegated(g, intr, code)
    THEN EnterSupervisor(g, intr, code, epc)
    ELSE EnterMachine(g, intr, code, epc)

RaiseException(g, code) == RaiseTrap(g, FALSE, code, g.pc)

-----------------------------------------------------------------------------
(* The bus: which accesses are allowed, which find a target, what they     *)
(* raise.  Contents are data; a store changes the hart through msip only.  *)

PmpAllows(g, a, perms) ==
    \/ g.mode = Machine /\ a \notin g.pmp.lock
    \/ a \in perms

\* The bound of readHalf, readWord and readDouble: one byte too far, and
\* computed modulo the address space.
RamHit(a, n) ==
    /\ a >= RamBase
    /\ IF n = 1 THEN a < RamBase + RamSize
                ELSE Wrap(a + n - 1) <= RamBase + RamSize

ReadHit(a, n) ==
    \/ n = 1 /\ a \in Uart
    \/ n = 4 /\ a \in ClintWords
    \/ n = 8 /\ a \in ClintDoubles
    \/ RamHit(a, n)

ReadOk(g, a, n) == PmpAllows(g, a, g.pmp.load) /\ ReadHit(a, n)

BusRead(g, a, n) ==
    IF ReadOk(g, a, n) THEN g ELSE RaiseException(g, LOAD_ACCESS_FAULT)

-----------------------------------------------------------------------------
(* The CSR file.                                                           *)

PrivRequired(a) == (a \div 256) % 4
ReadOnly(a) == (a \div 1024) % 4 = 3

ReadableOnly == {\h015, \hB00, \hB02, \hC00, \hC01, \hC02,
                 \hF11, \hF12, \hF13, \hF14}
Writable ==
    {\h001, \h002, \h003, \h100, \h104, \h105, \h106, \h10A, \h120,
     \h140, \h141, \h142, \h143, \h144, \h180,
     \h300, \h301, \h302, \h303, \h304, \h305, \h306, \h30A,
     \h340, \h341, \h342, \h343, \h344}
        \cup (\h3A0 .. \h3EF) \cup (\hB03 .. \hB1F) \cup (\h320 .. \h33F)
Readable == ReadableOnly \cup Writable

CanRead(g, a) == g.mode >= PrivRequired(a) /\ a \in Readable
CanWrite(g, a) == g.mode >= PrivRequired(a) /\ ~ReadOnly(a) /\ a \in Writable

\* The CSRs that are registers of bits, and their values as readCSRRaw
\* returns them.
BitCsrs == {\h100, \h120, \h300, \h302, \h303, \h304, \h104, \h344, \h144}

CsrBits(g, a) ==
    CASE a \in {\h100, \h120} -> g.mstatus \cap SSTATUS_MASK
      [] a = \h300 -> g.mstatus
      [] a = \h302 -> g.medeleg
      [] a = \h303 -> g.mideleg
      [] a = \h304 -> g.mie
      [] a = \h104 -> g.mie \cap g.mideleg
      [] a = \h344 -> g.mip
      [] a = \h144 -> g.mip \cap g.mideleg
      [] OTHER -> {}

PmpCsrs == {\h3A0 + 2 * i : i \in 0 .. 7} \cup (\h3B0 .. \h3EF)

\* The values a register can be given.
CsrType(a) ==
    CASE a \in {\h100, \h120, \h300} -> SUBSET StatusBits
      [] a = \h302 -> SUBSET Exceptions
      [] a \in {\h303, \h304, \h104, \h344, \h144} -> SUBSET Interrupts
      [] a \in {\h305, \h105} -> TrapVec
      [] a \in {\h341, \h141} -> Addr
      [] a = \h180 -> SatpModes
      [] a \in PmpCsrs -> PmpViews
      [] OTHER -> {0}

\* Seeded fault: the supervisor's view writes every bit.
Masked_Unmasked(old, v, mask) == v

\* A register written through a view: only the bits of the mask change.
Masked(old, v, mask) == (old \ mask) \cup (v \cap mask)

\* Seeded fault: machine timer and software interrupts can be delegated.
MidelegValue_Unmasked(v) == v

\* The bits of medeleg and mideleg that can be set.
MedelegValue(v) == v \ {ECALL_FROM_M_MODE}
MidelegValue(v) == v \ {3, 7}

WriteCSRRaw(g, a, v) ==
    CASE a \in {\h100, \h120} ->
            [g EXCEPT !.mstatus = Masked(g.mstatus, v, SSTATUS_MASK)]
      [] a = \h300 -> [g EXCEPT !.mstatus = v]
      [] a = \h302 -> [g EXCEPT !.medeleg = MedelegValue(v)]
      [] a = \h303 -> [g EXCEPT !.mideleg = MidelegValue(v)]
      [] a = \h304 -> [g EXCEPT !.mie = v]
      [] a = \h104 -> [g EXCEPT !.mie = Masked(g.mie, v, g.mideleg)]
      [] a = \h344 -> [g EXCEPT !.mip = v]
      [] a = \h144 -> [g EXCEPT !.mip = Masked(g.mip, v, g.mideleg)]
      [] a = \h305 -> [g EXCEPT !.mtvec = v]
      [] a = \h105 -> [g EXCEPT !.stvec = v]
      [] a = \h341 -> [g EXCEPT !.mepc = v]
      [] a = \h141 -> [g EXCEPT !.sepc = v]
      [] a = \h180 -> [g EXCEPT !.satp = v]
      [] a \in PmpCsrs -> [g EXCEPT !.pmp = v]
      [] OTHER -> g

\* raiseTrap(ILLEGAL_INSTRUCTION, program_counter, bus.readWord(program_counter)):
\* the read may itself trap and move the program counter, and C++ does not
\* say which of the two arguments is evaluated first.
IllegalAtPC(g) ==
    LET r == BusRead(g, g.pc, 4)
    IN  {RaiseTrap(r, FALSE, ILLEGAL_INSTRUCTION, epc) : epc \in {g.pc, r.pc}}

\* The accessors report an error on io before they raise the trap: without
\* an IO the process ends there.
CsrError(g) == IF Hosted THEN IllegalAtPC(g) ELSE {[g EXCEPT !.alive = FALSE]}

ReadCSR(g, a) == IF CanRead(g, a) THEN {g} ELSE CsrError(g)
ReadValue(g, a) == IF CanRead(g, a) THEN CsrBits(g, a) ELSE {}

WriteCSR(g, a, v) ==
    IF CanWrite(g, a) THEN {WriteCSRRaw(g, a, v)} ELSE CsrError(g)

\* Bus::writeWord to msip goes through the privileged accessors, whatever
\* the mode of the hart that stores.
MsipWrite(g, v) ==
    LET m == [g EXCEPT !.msip = v]
        old == ReadValue(m, \h344)
        new == IF v THEN old \cup {3} ELSE old \ {3}
    IN  UNION {WriteCSR(r, \h344, new) : r \in ReadCSR(m, \h344)}

BusWrite(g, a, n) ==
    IF ~PmpAllows(g, a, g.pmp.store)
    THEN {RaiseException(g, STORE_ACCESS_FAULT)}
    ELSE IF n = 4 /\ a = Msip
    THEN UNION {MsipWrite(g, v) : v \in BOOLEAN}
    ELSE {g}

-----------------------------------------------------------------------------
(* The system instructions.                                                *)

ECallCause(m) ==
    IF m = User THEN ECALL_FROM_U_MODE
    ELSE IF m = Supervisor THEN ECALL_FROM_S_MODE
    ELSE ECALL_FROM_M_MODE

MretStatus(ms) ==
    (ms \ ({MIE} \cup MPP))
        \cup {MPIE} \cup (IF MPIE \in ms THEN {MIE} ELSE {})

\* Seeded fault: sret forgets SPIE.
SretStatus_DropsSpie(ms) == (ms \ {SIE, SPP}) \cup {SPIE}

SretStatus(ms) ==
    (ms \ {SIE, SPP})
        \cup {SPIE} \cup (IF SPIE \in ms THEN {SIE} ELSE {})

MretTaken(g) ==
    [g EXCEPT !.mstatus = MretStatus(g.mstatus),
              !.pc = g.mepc,
              !.mode = MppMode(g.mstatus)]

SretTaken(g) ==
    [g EXCEPT !.mstatus = SretStatus(g.mstatus),
              !.pc = g.sepc,
              !.mode = IF SPP \in g.mstatus THEN Supervisor ELSE User]

ExecMret(g) == IF g.mode < Machine THEN IllegalAtPC(g) ELSE {MretTaken(g)}

\* raiseTrap(ILLEGAL_INSTRUCTION, inst.pc, bus.readWord(inst.pc)): the pc of
\* the instruction is fixed, the read may trap first.
IllegalAtInst(g) ==
    RaiseTrap(BusRead(g, g.pc, 4), FALSE, ILLEGAL_INSTRUCTION, g.pc)

ExecSret(g) ==
    IF g.mode < Supervisor THEN IllegalAtInst(g) ELSE SretTaken(g)

\* A csrrw, csrrs or csrrc and its immediate form.  rd and src say whether
\* the destination register and the source operand are not zero; the result
\* records whether the instruction ran to its end.
CsrReads(op, rd) == op # "rw" \/ rd
CsrWritesBack(op, src) == op = "rw" \/ src

\* old | v and old & ~v; the result is any value where the register is not
\* kept as a set of bits.
CsrNewValue(g, a, op, v) ==
    CASE op = "rs" /\ a \in BitCsrs -> CsrBits(g, a) \cup v
      [] op = "rc" /\ a \in BitCsrs -> CsrBits(g, a) \ v
      [] OTHER -> v

\* Seeded fault: no return after a read that trapped.
ExecCsr_NoReturn(g, a, op, rd, src, v) ==
    UNION {
        IF CsrWritesBack(op, src)
        THEN {[h |-> w, done |-> CanWrite(r, a)] :
                w \in WriteCSR(r, a, CsrNewValue(r, a, op, v))}
        ELSE {[h |-> r, done |-> CanRead(g, a)]}
      : r \in IF CsrReads(op, rd) THEN ReadCSR(g, a) ELSE {g}}

ExecCsr(g, a, op, rd, src, v) ==
    UNION {
        IF CsrReads(op, rd) /\ r.trap_pending
        THEN {[h |-> r, done |-> FALSE]}
        ELSE IF CsrWritesBack(op, src)
        THEN {[h |-> w, done |-> CanWrite(r, a)] :
                w \in WriteCSR(r, a, CsrNewValue(r, a, op, v))}
        ELSE {[h |-> r, done |-> TRUE]}
      : r \in IF CsrReads(op, rd) THEN ReadCSR(g, a) ELSE {g}}

-----------------------------------------------------------------------------
(* Translation of a fetch address and the fetch itself.                    *)

\* Seeded fault: the walk fails without a trap.
Sv39Outcomes_Silent(g) ==
    {[h |-> g, ok |-> b, pa |-> p] : b \in BOOLEAN, p \in Addr}

\* The Sv39 walk reads page-table entries from memory, which is data: it
\* finds some physical address, or raises an access fault at the program
\* counter; an entry that cannot be read raises a fault of its own first and
\* then reads as zero.
Sv39Outcomes(g) ==
    LET fault(s) == [h |-> RaiseException(s, INSTRUCTION_ACCESS_FAULT),
                     ok |-> FALSE, pa |-> 0]
    IN  {[h |-> g, ok |-> TRUE, pa |-> p] : p \in Addr}
            \cup {fault(g)}
            \cup {fault(BusRead(g, p, 8)) : p \in Addr}

Translate(g, va) ==
    IF g.mode = Machine THEN {[h |-> g, ok |-> TRUE, pa |-> va]}
    ELSE IF ~CanRead(g, \h180)
    \* readCSR traps and returns 0, which is the bare mode
    THEN {[h |-> x, ok |-> TRUE, pa |-> va] : x \in CsrError(g)}
    ELSE IF g.satp = SATP_MODE_BARE THEN {[h |-> g, ok |-> TRUE, pa |-> va]}
    ELSE IF g.satp # SATP_MODE_SV39 THEN {[h |-> g, ok |-> FALSE, pa |-> 0]}
    ELSE Sv39Outcomes(g)

\* The forms a fetch can have: "half" and "word" instructions read whole;
\* "none" when the first half could not be read (it reads as 0, no
\* instruction); "low" when the second half could not be read (it reads as
\* 0, and the first half is still executed); "failed" when a translation
\* failed and step returned.
Fetched(g, before, len, form) ==
    [h |-> g, before |-> before, len |-> len, form |-> form]

SecondHalf(g, before, pa) ==
    IF ReadOk(g, pa, 2)
    THEN Fetched(g, before, 4, "word")
    ELSE Fetched(RaiseException(g, LOAD_ACCESS_FAULT), before, 4, "low")

\* Seeded fault: a failed translation of the second half is ignored.
WideFetch_IgnoresFailure(g, pa) ==
    IF g.pc % PageSize = PageSize - 2
    THEN {SecondHalf(t.h, g.pc, IF t.ok THEN t.pa ELSE Wrap(pa + 2))
            : t \in Translate(g, Wrap(g.pc + 2))}
    ELSE {SecondHalf(g, g.pc, Wrap(pa + 2))}

\* The second half of an instruction that crosses a page is translated on
\* its own.
WideFetch(g, pa) ==
    IF g.pc % PageSize = PageSize - 2
    THEN {IF t.ok THEN SecondHalf(t.h, g.pc, t.pa)
                  ELSE Fetched(t.h, g.pc, 0, "failed")
            : t \in Translate(g, Wrap(g.pc + 2))}
    ELSE {SecondHalf(g, g.pc, Wrap(pa + 2))}

FetchAt(g, pa) ==
    IF ReadOk(g, pa, 2)
    THEN {Fetched(g, g.pc, 2, "half")} \cup WideFetch(g, pa)
    ELSE {Fetched(RaiseException(g, LOAD_ACCESS_FAULT), g.pc, 2, "none")}

Fetch(g) ==
    UNION {IF t.ok THEN FetchAt(t.h, t.pa)
                   ELSE {Fetched(t.h, g.pc, 0, "failed")}
            : t \in Translate(g, g.pc)}

\* Seeded fault: the program counter always advances.
Retire_Always(g, before, len) ==
    [g EXCEPT !.trap_pending = FALSE, !.pc = Wrap(@ + len)]

\* The end of step: an instruction that left the program counter where it
\* was falls through to the next one.
Retire(g, before, len) ==
    [g EXCEPT !.trap_pending = FALSE,
              !.pc = IF @ = before THEN Wrap(@ + len) ELSE @]

StartStep(g) == [g EXCEPT !.traps = 0]
=============================================================================
