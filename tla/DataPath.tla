------------------------------ MODULE DataPath -------------------------------
(***************************************************************************)
(* The data side of the loads, stores and atomics: what Bus and Memory do  *)
(* with the bytes, the reservation of lr and sc, and the change of mode a  *)
(* trap makes in the middle of an instruction.  One action is one such     *)
(* instruction; Elsewhere is everything the hart does between two of them. *)
(***************************************************************************)
EXTENDS HartOps

CONSTANTS
    Byte,         \* the values of a byte; 0 is one
    Widths,       \* the sizes of loads and stores
    AtomicWidths, \* the sizes of lr, sc and the AMOs
    DataAddrs,    \* the addresses the program computes
    DataWords(_), \* the words of n bytes that it stores
    Stores,       \* mtimecmp: where a store of n bytes finds the timer
    DataModes,    \* the modes it runs in
    Delegations   \* the values of medeleg

Offset == 0 .. RamSize - 1
Word(n) == [0 .. n - 1 -> Byte]
\* Seeded fault: one byte too many.
Zeros_TooLong(n) == [i \in 0 .. n |-> 0]

Zeros(n) == [i \in 0 .. n - 1 |-> 0]
NoAddr == -1

\* What an instruction leaves in rd: a word, or a note of how it ended.
Returned(v) == [note |-> "word", word |-> v]
Note(s) == [note |-> s, word |-> <<>>]

ASSUME DataAssumption ==
    /\ RamSize < AddrSpace /\ RamBase + RamSize <= AddrSpace
    /\ 0 \in Byte
    /\ AtomicWidths \subseteq Widths /\ Widths \subseteq {1, 2, 4, 8}
    /\ DataAddrs \subseteq Addr
    /\ \A n \in Widths : DataWords(n) \subseteq Word(n)
    /\ Stores \subseteq Addr \X {4, 8}
    /\ DataModes \subseteq Modes /\ Delegations \subseteq SUBSET Exceptions

VARIABLES
    h,                 \* the hart
    memory,            \* Memory::memory
    load_reservation,
    reservation_valid,
    answer,            \* what the last instruction left in rd
    wild               \* an access left the array; nothing is known after it
vars == <<h, memory, load_reservation, reservation_valid, answer, wild>>

Idle(m, p, d) ==
    [mode |-> m, pc |-> 0, mstatus |-> {},
     medeleg |-> d, mideleg |-> {}, mie |-> {}, mip |-> {},
     mtvec |-> [base |-> 0, flag |-> 0], stvec |-> [base |-> 0, flag |-> 0],
     mepc |-> 0, sepc |-> 0, satp |-> SATP_MODE_BARE, pmp |-> p,
     msip |-> FALSE, trap_pending |-> FALSE, traps |-> 0, alive |-> TRUE]

Init ==
    /\ h = Idle(Machine, PmpOpen, {})
    /\ memory = [o \in Offset |-> 0]
    /\ load_reservation = 0 /\ reservation_valid = FALSE
    /\ answer = Note("none")
    /\ wild = FALSE

-----------------------------------------------------------------------------
(* Memory: the bound is checked on the last byte, modulo the address space. *)

\* Seeded fault: no bound.
Checked_Never(o, n) == TRUE

Checked(o, n) == Wrap(o + n - 1) < RamSize

Touches(o, n) == {Wrap(o + i) : i \in 0 .. n - 1}
Wild(o, n) == Checked(o, n) /\ ~(Touches(o, n) \subseteq Offset)

MemRead(m, o, n) ==
    IF Checked(o, n) /\ ~Wild(o, n)
    THEN [i \in 0 .. n - 1 |-> m[Wrap(o + i)]]
    ELSE Zeros(n)

MemWrite(m, o, n, v) ==
    IF Checked(o, n) /\ ~Wild(o, n)
    THEN [b \in Offset |-> IF b \in Touches(o, n) THEN v[b - o] ELSE m[b]]
    ELSE m

-----------------------------------------------------------------------------
(* Bus: what an access of hart g returns, and what it leaves in memory m.  *)

Device(a, n) ==
    \/ n = 1 /\ a \in Uart
    \/ n = 4 /\ a \in ClintWords
    \/ n = 8 /\ a \in ClintDoubles

StoredElsewhere(a, n) ==
    \/ n = 1 /\ a \in Uart
    \/ n = 4 /\ a = Msip
    \/ <<a, n>> \in Stores

ReadsRam(g, a, n) ==
    PmpAllows(g, a, g.pmp.load) /\ ~Device(a, n) /\ RamHit(a, n)

\* Seeded fault: a store is checked as a load is.
WritesRam_AsLoad(g, a, n) ==
    PmpAllows(g, a, g.pmp.load) /\ ~StoredElsewhere(a, n) /\ RamHit(a, n)

WritesRam(g, a, n) ==
    PmpAllows(g, a, g.pmp.store) /\ ~StoredElsewhere(a, n) /\ RamHit(a, n)

Returns(g, m, a, n) ==
    IF ReadsRam(g, a, n) THEN {MemRead(m, Wrap(a - RamBase), n)}
    ELSE IF PmpAllows(g, a, g.pmp.load) /\ Device(a, n) THEN Word(n)
    ELSE {Zeros(n)}

Leaves(g, m, a, n, v) ==
    IF WritesRam(g, a, n) THEN MemWrite(m, Wrap(a - RamBase), n, v) ELSE m

-----------------------------------------------------------------------------
(* The instructions.                                                       *)

\* The instruction leaves the hart as g and answers r, unless it trapped.
\* What else the trap or msip did to the hart is in Hart.
Retires(g, r) ==
    /\ h' = Idle(g.mode, g.pmp, g.medeleg)
    /\ answer' = IF g.traps > 0 THEN Note("trap") ELSE r

Strays(g, a, n) ==
    (ReadsRam(g, a, n) \/ WritesRam(g, a, n)) /\ Wild(Wrap(a - RamBase), n)

Load(a, n) ==
    /\ ~wild
    /\ \E r \in Returns(h, memory, a, n) : Retires(BusRead(h, a, n), Returned(r))
    /\ wild' = Strays(h, a, n)
    /\ UNCHANGED <<memory, load_reservation, reservation_valid>>

Store(a, n, v) ==
    /\ ~wild
    /\ \E k \in BusWrite(h, a, n) : Retires(k, Note("none"))
    /\ memory' = Leaves(h, memory, a, n, v)
    /\ wild' = Strays(h, a, n)
    /\ UNCHANGED <<load_reservation, reservation_valid>>

\* The store follows the load even when the load trapped, and then runs in
\* the mode of the trap.
Amo(a, n, v) ==
    /\ ~wild
    /\ LET k == BusRead(h, a, n)
       IN  /\ \E r \in Returns(h, memory, a, n), l \in BusWrite(k, a, n) :
                 Retires(l, Returned(r))
           /\ memory' = Leaves(k, memory, a, n, v)
           /\ wild' = (Strays(h, a, n) \/ Strays(k, a, n))
    /\ UNCHANGED <<load_reservation, reservation_valid>>

\* The reservation is made even when the load trapped.
LoadReserved(a, n) ==
    /\ ~wild
    /\ \E r \in Returns(h, memory, a, n) : Retires(BusRead(h, a, n), Returned(r))
    /\ wild' = Strays(h, a, n)
    /\ load_reservation' = a
    /\ reservation_valid' = TRUE
    /\ UNCHANGED memory

\* Seeded fault: any reservation will do.
Reserved_Any(a) == reservation_valid

Reserved(a) == reservation_valid /\ load_reservation = a

StoreConditional(a, n, v) ==
    /\ ~wild
    /\ \/ /\ Reserved(a)
          /\ \E k \in BusWrite(h, a, n) : Retires(k, Note("stored"))
          /\ memory' = Leaves(h, memory, a, n, v)
          /\ wild' = Strays(h, a, n)
       \/ /\ ~Reserved(a)
          /\ Retires(h, Note("failed"))
          /\ UNCHANGED <<memory, wild>>
    /\ reservation_valid' = FALSE
    /\ UNCHANGED load_reservation

\* Traps, returns and CSR writes: the hart comes back to memory in any mode.
Elsewhere ==
    /\ ~wild
    /\ \E m \in DataModes, p \in PmpViews, d \in Delegations : h' = Idle(m, p, d)
    /\ answer' = Note("none")
    /\ UNCHANGED <<memory, load_reservation, reservation_valid, wild>>

Next ==
    \/ Elsewhere
    \/ \E a \in DataAddrs, n \in Widths :
          Load(a, n) \/ \E v \in DataWords(n) : Store(a, n, v)
    \/ \E a \in DataAddrs, n \in AtomicWidths :
          \/ LoadReserved(a, n)
          \/ \E v \in DataWords(n) : Amo(a, n, v) \/ StoreConditional(a, n, v)

Spec == Init /\ [][Next]_vars

-----------------------------------------------------------------------------
(* Properties.                                                             *)

Answers ==
    {Note(s) : s \in {"none", "trap", "stored", "failed"}}
        \cup UNION {{Returned(v) : v \in Word(n)} : n \in Widths}

TypeOK ==
    /\ h \in HartState
    /\ memory \in [Offset -> Byte]
    /\ load_reservation \in Addr /\ reservation_valid \in BOOLEAN
    /\ answer \in Answers
    /\ wild \in BOOLEAN

\* The program sees one array of bytes, with atomic AMOs and reservations,
\* through the offsets, the two bounds and the byte order of Bus and Memory.
Flat == INSTANCE FlatMemory WITH
    Addrs <- DataAddrs, StoreWords <- DataWords,
    Cells <- RamBase .. RamBase + RamSize - 1,
    cell <- [a \in RamBase .. RamBase + RamSize - 1 |-> memory[a - RamBase]],
    reserved <- IF reservation_valid THEN load_reservation ELSE NoAddr

FlatSpec == Flat!Spec

\* Memory.h: "Memory is protected from processor".  No access leaves the
\* array, whatever address the program computes.
AccessesInBounds == ~wild

\* The bytes a hart may not store to, by the PMP it runs under.
Denied(g) == {o \in Offset : ~PmpAllows(g, RamBase + o, g.pmp.store)}

\* README.md: "Protected RAM".  An instruction never changes a byte that PMP
\* denies to the mode it began in.
ProtectedRam == [][ \A o \in Denied(h) : memory'[o] = memory[o] ]_vars

\* PMP is asked about the first byte of an access only: a byte is out of
\* reach when every access that covers it begins where a store is denied.
OutOfReach(g) ==
    {o \in Offset : \A n \in Widths, i \in 0 .. 7 :
        i < n /\ RamBase + o - i >= RamBase
            => ~PmpAllows(g, RamBase + o - i, g.pmp.store)}

\* An instruction that did not trap into machine mode changed no byte out of
\* its reach: a trap delegated to the supervisor in the middle of an AMO, a
\* reservation made under another PMP, a word that wraps around the address
\* space do not open the memory.
DeniedUnlessMachine ==
    [][ h'.mode # Machine => \A o \in OutOfReach(h) : memory'[o] = memory[o] ]_vars
=============================================================================
