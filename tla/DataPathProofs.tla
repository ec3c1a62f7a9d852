--------------------------- MODULE DataPathProofs ----------------------------
(***************************************************************************)
(* The data path, for every address space, memory size, set of bytes, PMP  *)
(* and program: its types, and, where the memory does not begin in the     *)
(* first seven addresses, that no access leaves the array, that the        *)
(* program sees the flat memory of FlatMemory and that a byte PMP keeps out *)
(* of reach stays as it is.                                                *)
(***************************************************************************)
EXTENDS DataPath, HartOpsProofs

\* The base of the Host build is far above it, that of the Core build is 0.
BaseClearOfZero == RamBase >= 7

Sizes == {1, 2, 4, 8}

-----------------------------------------------------------------------------
(* Addresses and offsets.                                                  *)

LEMMA WrapSmall == ASSUME NEW x \in Addr PROVE Wrap(x) = x
  BY AddressAssumption DEF Wrap, Addr

LEMMA SizeTypes ==
  /\ Widths \subseteq Sizes /\ AtomicWidths \subseteq Widths
  /\ AddrSpace \in Nat /\ RamBase \in Nat /\ RamSize \in Nat /\ RamSize < AddrSpace
  /\ RamBase + RamSize <= AddrSpace
  /\ DataAddrs \subseteq Addr
  BY AddressAssumption, DataAssumption DEF Sizes, Addr

\* Above the first seven addresses the offset of an access cannot wrap.
LEMMA OffsetPlain ==
  ASSUME BaseClearOfZero, NEW a \in Addr, NEW n \in Sizes, a >= RamBase
  PROVE  \A i \in 0 .. n - 1 : /\ a - RamBase + i \in Addr
                               /\ Wrap(a - RamBase) + i = a - RamBase + i
                               /\ Wrap(Wrap(a - RamBase) + i) = a - RamBase + i
  <1>1. a - RamBase \in Addr
    BY SizeTypes DEF Addr, BaseClearOfZero
  <1>2. Wrap(a - RamBase) = a - RamBase BY <1>1, WrapSmall
  <1>3. \A i \in 0 .. n - 1 : a - RamBase + i \in Addr
    BY SizeTypes DEF Addr, BaseClearOfZero, Sizes
  <1> QED BY <1>2, <1>3, WrapSmall

LEMMA HitAbove == ASSUME NEW a, NEW n, RamHit(a, n) PROVE a >= RamBase
  BY DEF RamHit

LEMMA NeverWild ==
  ASSUME BaseClearOfZero, NEW a \in Addr, NEW n \in Sizes, RamHit(a, n)
  PROVE  ~Wild(Wrap(a - RamBase), n)
  <1> SUFFICES ASSUME Checked(Wrap(a - RamBase), n), NEW i \in 0 .. n - 1
               PROVE  Wrap(Wrap(a - RamBase) + i) \in Offset
    BY DEF Wild, Touches
  <1>1. a >= RamBase BY HitAbove
  <1>2. n - 1 \in 0 .. n - 1 BY DEF Sizes
  <1>3. Wrap(Wrap(a - RamBase) + (n - 1)) = a - RamBase + (n - 1)
    BY <1>1, <1>2, OffsetPlain
  <1>4. Wrap(a - RamBase) + n - 1 = Wrap(a - RamBase) + (n - 1)
    <2>1. a - RamBase \in Int BY SizeTypes DEF Addr
    <2>2. Wrap(a - RamBase) \in Int BY <2>1, WrapType, AddrInt
    <2> QED BY <2>2 DEF Sizes
  <1>5. a - RamBase + (n - 1) < RamSize
    BY <1>3, <1>4 DEF Checked
  <1>6. Wrap(Wrap(a - RamBase) + i) = a - RamBase + i
    BY <1>1, OffsetPlain
  <1>7. a - RamBase + i \in Offset
    BY <1>1, <1>5, SizeTypes DEF Offset, Addr, Sizes
  <1> QED BY <1>6, <1>7

LEMMA NeverStrays ==
  ASSUME BaseClearOfZero, NEW g, NEW a \in Addr, NEW n \in Sizes
  PROVE  Strays(g, a, n) = FALSE
  BY NeverWild DEF Strays, ReadsRam, WritesRam

-----------------------------------------------------------------------------
(* Types.                                                                  *)

LEMMA IdleType ==
  ASSUME NEW m \in Modes, NEW p \in PmpView, NEW d \in SUBSET Exceptions
  PROVE  Idle(m, p, d) \in HartState
  <1>1. 0 \in Addr BY AddressAssumption DEF Addr
  <1>2. [base |-> 0, flag |-> 0] \in TrapVec BY <1>1 DEF TrapVec
  <1>3. SATP_MODE_BARE \in SatpModes BY DEF SATP_MODE_BARE, SatpModes
  <1> QED BY <1>1, <1>2, <1>3 DEF Idle, HartState

LEMMA RetiresType ==
  ASSUME NEW g \in HartState, NEW r, Retires(g, r), r \in Answers
  PROVE  h' \in HartState /\ answer' \in Answers
  <1>1. g.mode \in Modes /\ g.pmp \in PmpView /\ g.medeleg \in SUBSET Exceptions
    BY FieldTypes
  <1>2. Note("trap") \in Answers BY DEF Answers
  <1> QED BY <1>1, <1>2, IdleType DEF Retires

LEMMA ReturnsType ==
  ASSUME NEW g, NEW m \in [Offset -> Byte], NEW a, NEW n \in Sizes
  PROVE  Returns(g, m, a, n) \subseteq Word(n)
  <1>1. Zeros(n) \in Word(n)
    BY DataAssumption DEF Zeros, Word
  <1>2. \A o : MemRead(m, o, n) \in Word(n)
    BY <1>1 DEF MemRead, Wild, Touches, Word
  <1> QED BY <1>1, <1>2 DEF Returns

LEMMA LeavesType ==
  ASSUME BaseClearOfZero, NEW g, NEW m \in [Offset -> Byte], NEW a \in Addr,
         NEW n \in Sizes, NEW v \in Word(n)
  PROVE  Leaves(g, m, a, n, v) \in [Offset -> Byte]
  <1>1. CASE ~WritesRam(g, a, n) BY <1>1 DEF Leaves
  <1>2. CASE WritesRam(g, a, n)
    <2> DEFINE o == Wrap(a - RamBase)
    <2>1. RamHit(a, n) BY <1>2 DEF WritesRam
    <2>2. a >= RamBase BY <2>1, HitAbove
    <2>3. ASSUME NEW b \in Offset, b \in Touches(o, n) PROVE v[b - o] \in Byte
      <3>1. PICK i \in 0 .. n - 1 : b = Wrap(o + i)
        BY <2>3 DEF Touches
      <3>2. b = o + i BY <3>1, <2>2, OffsetPlain
      <3>3. o \in Int
        <4>1. a - RamBase \in Int BY SizeTypes DEF Addr
        <4> QED BY <4>1, WrapType, AddrInt
      <3>4. b - o = i BY <3>2, <3>3 DEF Sizes
      <3> QED BY <3>4 DEF Word
    <2>4. MemWrite(m, o, n, v) \in [Offset -> Byte]
      BY <2>3 DEF MemWrite
    <2> QED BY <1>2, <2>4 DEF Leaves
  <1> QED BY <1>1, <1>2

LEMMA AnswerTypes ==
  /\ \A n \in Widths : \A v \in Word(n) : Returned(v) \in Answers
  /\ \A s \in {"none", "trap", "stored", "failed"} : Note(s) \in Answers
  BY DEF Answers

LEMMA DataInit == Init => TypeOK /\ AccessesInBounds
  <1> SUFFICES ASSUME Init PROVE TypeOK /\ AccessesInBounds OBVIOUS
  <1>1. PmpOpen \in PmpView BY DEF PmpOpen, PmpView
  <1>2. Machine \in Modes BY ModeTypes
  <1>3. h \in HartState BY <1>1, <1>2, IdleType DEF Init
  <1>4. memory \in [Offset -> Byte] BY DataAssumption DEF Init
  <1>5. load_reservation \in Addr BY AddressAssumption DEF Init, Addr
  <1>6. answer \in Answers BY AnswerTypes DEF Init
  <1> QED BY <1>3, <1>4, <1>5, <1>6 DEF Init, TypeOK, AccessesInBounds

LEMMA DataNext ==
  ASSUME BaseClearOfZero, TypeOK, AccessesInBounds, [Next]_vars
  PROVE  TypeOK' /\ AccessesInBounds'
  <1> USE DEF TypeOK, AccessesInBounds
  <1>1. Widths \subseteq Sizes /\ AtomicWidths \subseteq Widths /\ DataAddrs \subseteq Addr
    BY SizeTypes
  <1>2. \A n \in Widths : DataWords(n) \subseteq Word(n) BY DataAssumption
  <1>4. CASE Elsewhere
    <2>1. PICK m \in DataModes, p \in PmpViews, d \in Delegations : h' = Idle(m, p, d)
      BY <1>4 DEF Elsewhere
    <2>2. m \in Modes /\ p \in PmpView /\ d \in SUBSET Exceptions
      BY DataAssumption, PmpAssumption
    <2>3. h' \in HartState BY <2>1, <2>2, IdleType
    <2> QED BY <1>4, <2>3, AnswerTypes DEF Elsewhere
  <1>5. ASSUME NEW a \in DataAddrs, NEW n \in Widths, Load(a, n)
        PROVE  TypeOK' /\ AccessesInBounds'
    <2>1. PICK r \in Returns(h, memory, a, n) : Retires(BusRead(h, a, n), Returned(r))
      BY <1>5 DEF Load
    <2>2. Returned(r) \in Answers BY <1>1, ReturnsType, AnswerTypes
    <2>3. h' \in HartState /\ answer' \in Answers
      BY <2>1, <2>2, BusReadType, RetiresType
    <2>4. wild' = FALSE BY <1>1, <1>5, NeverStrays DEF Load
    <2> QED BY <1>5, <2>3, <2>4 DEF Load
  <1>6. ASSUME NEW a \in DataAddrs, NEW n \in Widths, NEW v \in DataWords(n),
               Store(a, n, v)
        PROVE  TypeOK' /\ AccessesInBounds'
    <2>1. PICK k \in BusWrite(h, a, n) : Retires(k, Note("none"))
      BY <1>6 DEF Store
    <2>2. k \in HartState BY BusWriteType
    <2>3. h' \in HartState /\ answer' \in Answers
      BY <2>1, <2>2, AnswerTypes, RetiresType
    <2>4. wild' = FALSE BY <1>1, <1>6, NeverStrays DEF Store
    <2>5. memory' \in [Offset -> Byte] BY <1>1, <1>2, <1>6, LeavesType DEF Store
    <2> QED BY <1>6, <2>3, <2>4, <2>5 DEF Store
  <1>7. ASSUME NEW a \in DataAddrs, NEW n \in AtomicWidths, LoadReserved(a, n)
        PROVE  TypeOK' /\ AccessesInBounds'
    <2>1. PICK r \in Returns(h, memory, a, n) : Retires(BusRead(h, a, n), Returned(r))
      BY <1>7 DEF LoadReserved
    <2>2. Returned(r) \in Answers BY <1>1, ReturnsType, AnswerTypes
    <2>3. h' \in HartState /\ answer' \in Answers
      BY <2>1, <2>2, BusReadType, RetiresType
    <2>4. wild' = FALSE BY <1>1, <1>7, NeverStrays DEF LoadReserved
    <2> QED BY <1>1, <1>7, <2>3, <2>4 DEF LoadReserved
  <1>8. ASSUME NEW a \in DataAddrs, NEW n \in AtomicWidths, NEW v \in DataWords(n),
               Amo(a, n, v)
        PROVE  TypeOK' /\ AccessesInBounds'
    <2>1. PICK r \in Returns(h, memory, a, n), l \in BusWrite(BusRead(h, a, n), a, n) :
              Retires(l, Returned(r))
      BY <1>8 DEF Amo
    <2>2. Returned(r) \in Answers BY <1>1, ReturnsType, AnswerTypes
    <2>3. BusRead(h, a, n) \in HartState BY BusReadType
    <2>4. l \in HartState BY <2>3, BusWriteType
    <2>5. h' \in HartState /\ answer' \in Answers
      BY <2>1, <2>2, <2>4, RetiresType
    <2>6. wild' = FALSE BY <1>1, <1>8, NeverStrays DEF Amo
    <2>7. memory' \in [Offset -> Byte] BY <1>1, <1>2, <1>8, LeavesType DEF Amo
    <2> QED BY <1>8, <2>5, <2>6, <2>7 DEF Amo
  <1>9. ASSUME NEW a \in DataAddrs, NEW n \in AtomicWidths, NEW v \in DataWords(n),
               StoreConditional(a, n, v)
        PROVE  TypeOK' /\ AccessesInBounds'
    <2>1. CASE Reserved(a)
      <3>1. PICK k \in BusWrite(h, a, n) : Retires(k, Note("stored"))
        BY <1>9, <2>1 DEF StoreConditional
      <3>2. k \in HartState BY BusWriteType
      <3>3. h' \in HartState /\ answer' \in Answers
        BY <3>1, <3>2, AnswerTypes, RetiresType
      <3>4. wild' = FALSE BY <1>1, <1>9, <2>1, NeverStrays DEF StoreConditional
      <3>5. memory' \in [Offset -> Byte]
        BY <1>1, <1>2, <1>9, <2>1, LeavesType DEF StoreConditional
      <3> QED BY <1>9, <3>3, <3>4, <3>5 DEF StoreConditional
    <2>2. CASE ~Reserved(a)
      <3>1. Retires(h, Note("failed")) BY <1>9, <2>2 DEF StoreConditional
      <3>2. h' \in HartState /\ answer' \in Answers
        BY <3>1, AnswerTypes, RetiresType
      <3>3. /\ memory' = memory /\ wild' = wild
            /\ reservation_valid' = FALSE /\ load_reservation' = load_reservation
        BY <1>9, <2>2 DEF StoreConditional
      <3> QED BY <3>2, <3>3
    <2> QED BY <2>1, <2>2
  <1>10. CASE UNCHANGED vars
    BY <1>10 DEF vars
  <1> QED BY <1>4, <1>5, <1>6, <1>7, <1>8, <1>9, <1>10 DEF Next

\* The values the data path keeps are values it can hold.
THEOREM DataTypeCorrect == BaseClearOfZero => (Spec => []TypeOK)
  <1> SUFFICES ASSUME BaseClearOfZero PROVE Spec => []TypeOK
    OBVIOUS
  <1>1. TypeOK /\ AccessesInBounds /\ [Next]_vars => TypeOK' /\ AccessesInBounds'
    BY DataNext
  <1> QED BY DataInit, <1>1, PTL DEF Spec

\* With a memory clear of the first seven addresses no access leaves the
\* array, whatever address is computed: the two bounds of Bus and Memory,
\* each of which can wrap, cannot both pass.
THEOREM HostAccessesInBounds == BaseClearOfZero => (Spec => []AccessesInBounds)
  <1> SUFFICES ASSUME BaseClearOfZero PROVE Spec => []AccessesInBounds
    OBVIOUS
  <1>1. TypeOK /\ AccessesInBounds /\ [Next]_vars => TypeOK' /\ AccessesInBounds'
    BY DataNext
  <1> QED BY DataInit, <1>1, PTL DEF Spec

-----------------------------------------------------------------------------
(* A trap is counted, and stays counted to the end of the instruction.     *)

LEMMA RaiseTrapCounts ==
  ASSUME NEW g \in HartState, NEW intr, NEW code, NEW epc
  PROVE  RaiseTrap(g, intr, code, epc).traps > 0
  <1>1. Count(g.traps) > 0 BY FieldTypes DEF Count
  <1>2. EnterSupervisor(g, intr, code, epc).traps = Count(g.traps)
    BY DEF EnterSupervisor, HartState
  <1>3. EnterMachine(g, intr, code, epc).traps = Count(g.traps)
    BY DEF EnterMachine, HartState
  <1> QED BY <1>1, <1>2, <1>3 DEF RaiseTrap

LEMMA ReadCounts ==
  ASSUME NEW g \in HartState, NEW a, NEW n
  PROVE  /\ g.traps > 0 => BusRead(g, a, n).traps > 0
         /\ BusRead(g, a, n).traps > 0 \/ (BusRead(g, a, n) = g /\ ReadOk(g, a, n))
  BY RaiseTrapCounts DEF BusRead, RaiseException

LEMMA CsrErrorCounts ==
  ASSUME NEW g \in HartState, g.traps > 0
  PROVE  \A k \in CsrError(g) : k.traps > 0
  <1>1. BusRead(g, g.pc, 4) \in HartState BY BusReadType
  <1>2. \A k \in IllegalAtPC(g) : k.traps > 0
    BY <1>1, RaiseTrapCounts DEF IllegalAtPC
  <1>3. [g EXCEPT !.alive = FALSE].traps > 0 BY DEF HartState
  <1> QED BY <1>2, <1>3 DEF CsrError

LEMMA MsipCounts ==
  ASSUME NEW g \in HartState, g.traps > 0, NEW v \in BOOLEAN
  PROVE  \A k \in MsipWrite(g, v) : k.traps > 0
  <1> DEFINE m == [g EXCEPT !.msip = v]
             old == ReadValue(m, \h344)
             new == IF v THEN old \cup {3} ELSE old \ {3}
  <1>1. m \in HartState BY UpdateTypes
  <1>2. m.traps > 0 BY DEF HartState
  <1>3. MsipWrite(g, v) = UNION {WriteCSR(r, \h344, new) : r \in ReadCSR(m, \h344)}
    BY DEF MsipWrite
  <1> HIDE DEF m, old, new
  <1>4. ASSUME NEW r \in ReadCSR(m, \h344), NEW k \in WriteCSR(r, \h344, new)
        PROVE  k.traps > 0
    <2>1. r \in HartState BY <1>1, CsrAccessTypes
    <2>2. r.traps > 0 BY <1>1, <1>2, CsrErrorCounts DEF ReadCSR
    <2>3. CASE CanWrite(r, \h344)
      <3>1. k = WriteCSRRaw(r, \h344, new) BY <2>3 DEF WriteCSR
      <3>2. WriteCSRRaw(r, \h344, new) = [r EXCEPT !.mip = new] BY CsrWrites
      <3>3. k = [r EXCEPT !.mip = new] BY <3>1, <3>2
      <3>4. k.traps = r.traps BY <2>1, <3>3 DEF HartState
      <3> QED BY <2>2, <3>4
    <2>4. CASE ~CanWrite(r, \h344)
      <3>1. k \in CsrError(r) BY <2>4 DEF WriteCSR
      <3> QED BY <2>1, <2>2, <3>1, CsrErrorCounts
    <2> QED BY <2>3, <2>4
  <1> QED BY <1>3, <1>4

LEMMA WriteCounts ==
  ASSUME NEW g \in HartState, NEW a, NEW n, NEW k \in BusWrite(g, a, n)
  PROVE  /\ g.traps > 0 => k.traps > 0
         /\ k.traps > 0 \/ PmpAllows(g, a, g.pmp.store)
  <1>1. RaiseException(g, STORE_ACCESS_FAULT).traps > 0
    BY RaiseTrapCounts DEF RaiseException
  <1> QED BY <1>1, MsipCounts DEF BusWrite

-----------------------------------------------------------------------------
(* What a read and a write do to the flat memory.                          *)

Cells == RamBase .. RamBase + RamSize - 1
CellsOf(m) == [c \in Cells |-> m[c - RamBase]]
Within(a, n) == \A i \in 0 .. n - 1 : a + i \in Cells
Written(m, a, n, v) ==
    IF Within(a, n)
    THEN [c \in Cells |-> IF c \in a .. a + n - 1 THEN v[c - a] ELSE CellsOf(m)[c]]
    ELSE CellsOf(m)

\* No device answers inside the memory.
DevicesOutside ==
    \A a \in Addr, n \in Widths : Device(a, n) \/ StoredElsewhere(a, n) => ~Within(a, n)

LEMMA WithinHits ==
  ASSUME NEW a \in Addr, NEW n \in Sizes
  PROVE  Within(a, n) <=> a >= RamBase /\ a - RamBase + (n - 1) < RamSize
  <1>1. 0 \in 0 .. n - 1 /\ n - 1 \in 0 .. n - 1 BY DEF Sizes
  <1>2. ASSUME Within(a, n) PROVE a >= RamBase /\ a - RamBase + (n - 1) < RamSize
    <2>1. a + 0 \in Cells /\ a + (n - 1) \in Cells BY <1>1, <1>2 DEF Within
    <2> QED BY <2>1, SizeTypes DEF Cells, Addr, Sizes
  <1>3. ASSUME a >= RamBase, a - RamBase + (n - 1) < RamSize PROVE Within(a, n)
    BY <1>3, SizeTypes DEF Within, Cells, Addr, Sizes
  <1> QED BY <1>2, <1>3

\* An access within the memory passes both bounds.
LEMMA WithinChecked ==
  ASSUME BaseClearOfZero, NEW a \in Addr, NEW n \in Sizes
  PROVE  /\ Within(a, n) => RamHit(a, n)
         /\ a >= RamBase => (Checked(Wrap(a - RamBase), n) <=> Within(a, n))
  <1>1. n - 1 \in 0 .. n - 1 BY DEF Sizes
  <1>2. ASSUME Within(a, n) PROVE RamHit(a, n)
    <2>1. a >= RamBase /\ a - RamBase + (n - 1) < RamSize BY <1>2, WithinHits
    <2>2. a + n - 1 \in Addr BY <2>1, SizeTypes DEF Addr, Sizes
    <2>3. Wrap(a + n - 1) = a + n - 1 BY <2>2, WrapSmall
    <2> QED BY <2>1, <2>3, SizeTypes DEF RamHit, Addr, Sizes
  <1>3. ASSUME a >= RamBase PROVE Checked(Wrap(a - RamBase), n) <=> Within(a, n)
    <2>1. Wrap(Wrap(a - RamBase) + (n - 1)) = a - RamBase + (n - 1)
      BY <1>1, <1>3, OffsetPlain
    <2>2. Wrap(a - RamBase) + n - 1 = Wrap(a - RamBase) + (n - 1)
      <3>1. a - RamBase \in Int BY SizeTypes DEF Addr
      <3>2. Wrap(a - RamBase) \in Int BY <3>1, WrapType, AddrInt
      <3> QED BY <3>2 DEF Sizes
    <2>3. Checked(Wrap(a - RamBase), n) <=> a - RamBase + (n - 1) < RamSize
      BY <2>1, <2>2 DEF Checked
    <2> QED BY <1>3, <2>3, WithinHits
  <1> QED BY <1>2, <1>3

LEMMA CellAt ==
  ASSUME NEW m, NEW x, x \in Cells, NEW y, y = x - RamBase
  PROVE  m[y] = CellsOf(m)[x]
  BY DEF CellsOf

LEMMA ReadFlat ==
  ASSUME BaseClearOfZero, DevicesOutside,
         NEW g, NEW m \in [Offset -> Byte], NEW a \in Addr, NEW n \in Widths,
         ReadOk(g, a, n), Within(a, n), NEW r \in Returns(g, m, a, n)
  PROVE  r = [i \in 0 .. n - 1 |-> CellsOf(m)[a + i]]
  <1>1. n \in Sizes BY SizeTypes
  <1>2. a >= RamBase /\ RamHit(a, n) BY <1>1, WithinHits, WithinChecked
  <1>3. ReadsRam(g, a, n)
    BY <1>2 DEF ReadsRam, ReadOk, DevicesOutside
  <1>4. r = MemRead(m, Wrap(a - RamBase), n) BY <1>3 DEF Returns
  <1>5. Checked(Wrap(a - RamBase), n) BY <1>1, <1>2, WithinChecked
  <1>6. ~Wild(Wrap(a - RamBase), n) BY <1>1, <1>2, NeverWild
  <1>7. r = [i \in 0 .. n - 1 |-> m[Wrap(Wrap(a - RamBase) + i)]]
    BY <1>4, <1>5, <1>6 DEF MemRead
  <1>8. ASSUME NEW i \in 0 .. n - 1
        PROVE  m[Wrap(Wrap(a - RamBase) + i)] = CellsOf(m)[a + i]
    <2>1. Wrap(Wrap(a - RamBase) + i) = a - RamBase + i
      BY <1>1, <1>2, OffsetPlain
    <2>2. a + i \in Cells BY DEF Within
    <2>3. a - RamBase + i = (a + i) - RamBase
      BY SizeTypes, <1>1 DEF Addr, Sizes
    <2> QED BY <2>1, <2>2, <2>3, CellAt
  <1> QED BY <1>7, <1>8

LEMMA MemWriteFlat ==
  ASSUME BaseClearOfZero, NEW m \in [Offset -> Byte], NEW a \in Addr,
         NEW n \in Sizes, NEW v, RamHit(a, n)
  PROVE  CellsOf(MemWrite(m, Wrap(a - RamBase), n, v)) = Written(m, a, n, v)
  <1> DEFINE o == Wrap(a - RamBase)
  <1>1. a >= RamBase BY HitAbove
  <1>2. ~Wild(o, n) BY NeverWild
  <1>3. Checked(o, n) <=> Within(a, n) BY <1>1, WithinChecked
  <1>4. CASE ~Within(a, n)
    BY <1>3, <1>4 DEF MemWrite, Written
  <1>5. CASE Within(a, n)
    <2>1. MemWrite(m, o, n, v) =
            [b \in Offset |-> IF b \in Touches(o, n) THEN v[b - o] ELSE m[b]]
      BY <1>2, <1>3, <1>5 DEF MemWrite
    <2>2. 0 \in 0 .. n - 1 BY DEF Sizes
    <2>3. a - RamBase \in Addr BY <1>1, SizeTypes DEF Addr
    <2>4. o = a - RamBase BY <2>3, WrapSmall
    <2>5. \A i \in 0 .. n - 1 : Wrap(o + i) = a - RamBase + i
      BY <1>1, OffsetPlain
    <2>6. ASSUME NEW c \in Cells
          PROVE  /\ c - RamBase \in Offset
                 /\ c - RamBase \in Touches(o, n) <=> c \in a .. a + n - 1
                 /\ c - RamBase - o = c - a
      <3>1. c - RamBase \in Offset BY SizeTypes DEF Cells, Offset
      <3>2. c - RamBase - o = c - a BY <2>4, SizeTypes DEF Cells, Addr
      <3>3. ASSUME c - RamBase \in Touches(o, n) PROVE c \in a .. a + n - 1
        <4>1. PICK i \in 0 .. n - 1 : c - RamBase = a - RamBase + i
          BY <2>5, <3>3 DEF Touches
        <4> QED BY <4>1, SizeTypes DEF Cells, Addr, Sizes
      <3>4. ASSUME c \in a .. a + n - 1 PROVE c - RamBase \in Touches(o, n)
        <4>1. c - a \in 0 .. n - 1 BY <3>4, SizeTypes DEF Cells, Addr, Sizes
        <4>2. Wrap(o + (c - a)) = a - RamBase + (c - a) BY <2>5, <4>1
        <4>3. a - RamBase + (c - a) = c - RamBase BY SizeTypes DEF Cells, Addr
        <4> QED BY <4>1, <4>2, <4>3 DEF Touches
      <3> QED BY <3>1, <3>2, <3>3, <3>4
    <2> HIDE DEF o
    <2>7. ASSUME NEW c \in Cells
          PROVE  MemWrite(m, o, n, v)[c - RamBase] =
                   IF c \in a .. a + n - 1 THEN v[c - a] ELSE CellsOf(m)[c]
      BY <2>1, <2>6 DEF CellsOf
    <2>8. CellsOf(MemWrite(m, o, n, v)) =
            [c \in Cells |-> IF c \in a .. a + n - 1 THEN v[c - a] ELSE CellsOf(m)[c]]
      BY <2>7 DEF CellsOf
    <2> QED BY <1>5, <2>8 DEF Written, o
  <1> QED BY <1>4, <1>5

LEMMA LeavesFlat ==
  ASSUME BaseClearOfZero, DevicesOutside,
         NEW g, NEW m \in [Offset -> Byte], NEW a \in Addr, NEW n \in Widths, NEW v
  PROVE  /\ \/ Leaves(g, m, a, n, v) = m
            \/ CellsOf(Leaves(g, m, a, n, v)) = Written(m, a, n, v)
         /\ PmpAllows(g, a, g.pmp.store) =>
              CellsOf(Leaves(g, m, a, n, v)) = Written(m, a, n, v)
  <1>1. n \in Sizes BY SizeTypes
  <1>2. CASE WritesRam(g, a, n)
    <2>1. RamHit(a, n) BY <1>2 DEF WritesRam
    <2> QED BY <1>1, <1>2, <2>1, MemWriteFlat DEF Leaves
  <1>3. CASE ~WritesRam(g, a, n)
    <2>1. Leaves(g, m, a, n, v) = m BY <1>3 DEF Leaves
    <2>2. ASSUME PmpAllows(g, a, g.pmp.store) PROVE ~Within(a, n)
      BY <1>1, <1>3, <2>2, WithinChecked DEF WritesRam, DevicesOutside
    <2> QED BY <2>1, <2>2 DEF Written
  <1> QED BY <1>2, <1>3

-----------------------------------------------------------------------------
(* The data path implements FlatMemory, when the memory is clear of the    *)
(* first seven addresses and no device answers inside it.                  *)

Held == IF reservation_valid THEN load_reservation ELSE NoAddr

\* Between two instructions no trap is counted.
Settled == h.traps = 0

-----------------------------------------------------------------------------
(* The actions of FlatMemory, under the refinement mapping.                *)

FlatRead(a, n) ==
    \/ Within(a, n) /\ answer' = Returned([i \in 0 .. n - 1 |-> CellsOf(memory)[a + i]])
    \/ ~Within(a, n) /\ answer'.note = "word" /\ answer'.word \in Word(n)
    \/ answer' = Note("trap")

FlatWrite(a, n, v) == CellsOf(memory') = Written(memory, a, n, v)

LEMMA MapRead == ASSUME NEW a, NEW n PROVE Flat!Read(a, n) <=> FlatRead(a, n)
  BY DEF Flat!Read, Flat!Inside, Flat!Bytes, Flat!Returned, Flat!Note, Flat!Word,
         FlatRead, Within, CellsOf, Cells, Returned, Note, Word

LEMMA MapWrite ==
  ASSUME NEW a, NEW n, NEW v PROVE Flat!Write(a, n, v) <=> FlatWrite(a, n, v)
  BY DEF Flat!Write, Flat!Inside, Flat!Put, FlatWrite, Written, Within, CellsOf, Cells

LEMMA MapStep ==
  ASSUME NEW a, NEW n, NEW v
  PROVE  /\ FlatRead(a, n) /\ memory' = memory /\ Held' = Held => Flat!Load(a, n)
         /\ /\ \/ FlatWrite(a, n, v) /\ answer' = Note("none")
               \/ memory' = memory /\ answer' = Note("trap")
            /\ Held' = Held
            => Flat!Store(a, n, v)
         /\ /\ FlatRead(a, n)
            /\ FlatWrite(a, n, v) \/ (answer' = Note("trap") /\ memory' = memory)
            /\ Held' = Held
            => Flat!Amo(a, n, v)
         /\ FlatRead(a, n) /\ Held' = a /\ memory' = memory => Flat!LoadReserved(a, n)
         /\ /\ \/ Held = a /\ FlatWrite(a, n, v) /\ answer' = Note("stored")
               \/ Held = a /\ memory' = memory /\ answer' = Note("trap")
               \/ Held # a /\ memory' = memory /\ answer' = Note("failed")
            /\ Held' = NoAddr
            => Flat!StoreConditional(a, n, v)
  <1>1. Flat!Load(a, n) <=> Flat!Read(a, n) /\ CellsOf(memory') = CellsOf(memory) /\ Held' = Held
    BY DEF Flat!Load, CellsOf, Cells, Held
  <1>2. Flat!Store(a, n, v) <=>
          /\ \/ Flat!Write(a, n, v) /\ answer' = Note("none")
             \/ CellsOf(memory') = CellsOf(memory) /\ answer' = Note("trap")
          /\ Held' = Held
    BY DEF Flat!Store, CellsOf, Cells, Held, Flat!Note, Note
  <1>3. Flat!Amo(a, n, v) <=>
          /\ Flat!Read(a, n)
          /\ Flat!Write(a, n, v) \/ (answer' = Note("trap") /\ CellsOf(memory') = CellsOf(memory))
          /\ Held' = Held
    BY DEF Flat!Amo, CellsOf, Cells, Held, Flat!Note, Note
  <1>4. Flat!LoadReserved(a, n) <=>
          Flat!Read(a, n) /\ Held' = a /\ CellsOf(memory') = CellsOf(memory)
    BY DEF Flat!LoadReserved, CellsOf, Cells, Held
  <1>5. Flat!StoreConditional(a, n, v) <=>
          /\ \/ Held = a /\ Flat!Write(a, n, v) /\ answer' = Note("stored")
             \/ Held = a /\ CellsOf(memory') = CellsOf(memory) /\ answer' = Note("trap")
             \/ Held # a /\ CellsOf(memory') = CellsOf(memory) /\ answer' = Note("failed")
          /\ Held' = NoAddr
    BY DEF Flat!StoreConditional, CellsOf, Cells, Held, Flat!Note, Note
  <1>6. memory' = memory => CellsOf(memory') = CellsOf(memory) OBVIOUS
  <1> QED BY <1>1, <1>2, <1>3, <1>4, <1>5, <1>6, MapRead, MapWrite

-----------------------------------------------------------------------------
(* The instructions.                                                       *)

LEMMA AnswersRead ==
  ASSUME BaseClearOfZero, DevicesOutside, TypeOK,
         NEW a \in Addr, NEW n \in Widths, NEW r \in Returns(h, memory, a, n),
         NEW l \in HartState, Retires(l, Returned(r)),
         l.traps > 0 \/ ReadOk(h, a, n)
  PROVE  FlatRead(a, n)
  <1>1. CASE l.traps > 0 BY <1>1 DEF Retires, FlatRead
  <1>2. CASE ~(l.traps > 0)
    <2>1. answer' = Returned(r) BY <1>2 DEF Retires
    <2>2. n \in Sizes /\ memory \in [Offset -> Byte] BY SizeTypes DEF TypeOK
    <2>3. r \in Word(n) BY <2>2, ReturnsType
    <2>4. CASE Within(a, n)
      <3>1. r = [i \in 0 .. n - 1 |-> CellsOf(memory)[a + i]]
        BY <1>2, <2>2, <2>4, ReadFlat
      <3> QED BY <2>1, <2>4, <3>1 DEF FlatRead
    <2>5. CASE ~Within(a, n)
      <3>1. answer'.note = "word" /\ answer'.word = r BY <2>1 DEF Returned
      <3> QED BY <2>3, <2>5, <3>1 DEF FlatRead
    <2> QED BY <2>4, <2>5
  <1> QED BY <1>1, <1>2

LEMMA StoreStep ==
  ASSUME BaseClearOfZero, DevicesOutside, TypeOK,
         NEW g \in HartState, NEW a \in Addr, NEW n \in Widths, NEW v,
         NEW k \in BusWrite(g, a, n), memory' = Leaves(g, memory, a, n, v)
  PROVE  /\ memory' = memory \/ FlatWrite(a, n, v)
         /\ k.traps > 0 \/ FlatWrite(a, n, v)
  <1>1. memory \in [Offset -> Byte] BY DEF TypeOK
  <1>2. k.traps > 0 \/ PmpAllows(g, a, g.pmp.store) BY WriteCounts
  <1> QED BY <1>1, <1>2, LeavesFlat DEF FlatWrite

\* A store that traps changes no byte: msip is not in the array.
LEMMA TrappedStore ==
  ASSUME NEW g, ~(g.traps > 0), NEW m, NEW a, NEW n, NEW v,
         NEW k \in BusWrite(g, a, n), k.traps > 0
  PROVE  Leaves(g, m, a, n, v) = m
  <1>1. ~PmpAllows(g, a, g.pmp.store) \/ (n = 4 /\ a = Msip)
    BY DEF BusWrite
  <1> QED BY <1>1 DEF Leaves, WritesRam, StoredElsewhere

LEMMA HeldKept ==
  (reservation_valid' = reservation_valid /\ load_reservation' = load_reservation)
    => Held' = Held
  BY DEF Held

LEMMA StepMaps ==
  ASSUME BaseClearOfZero, DevicesOutside, TypeOK, Settled, Next
  PROVE  Flat!Next
  <1>1. DataAddrs \subseteq Addr /\ AtomicWidths \subseteq Widths /\ h \in HartState
    BY SizeTypes DEF TypeOK
  <1>2. ~(h.traps > 0) BY DEF Settled
  <1>3. CASE Elsewhere
    <2>1. /\ answer' = Note("none") /\ memory' = memory
          /\ reservation_valid' = reservation_valid /\ load_reservation' = load_reservation
      BY <1>3 DEF Elsewhere
    <2>2. Flat!Elsewhere BY <2>1 DEF Flat!Elsewhere, Flat!Note, Note
    <2> QED BY <2>2 DEF Flat!Next
  <1>4. ASSUME NEW a \in DataAddrs, NEW n \in Widths, Load(a, n)
        PROVE  Flat!Load(a, n)
    <2>1. PICK r \in Returns(h, memory, a, n) : Retires(BusRead(h, a, n), Returned(r))
      BY <1>4 DEF Load
    <2>2. FlatRead(a, n) BY <1>1, <2>1, BusReadType, ReadCounts, AnswersRead
    <2>3. memory' = memory /\ Held' = Held BY <1>4, HeldKept DEF Load
    <2> QED BY <2>2, <2>3, MapStep
  <1>5. ASSUME NEW a \in DataAddrs, NEW n \in Widths, NEW v \in DataWords(n),
               Store(a, n, v)
        PROVE  Flat!Store(a, n, v)
    <2>1. PICK k \in BusWrite(h, a, n) : Retires(k, Note("none"))
      BY <1>5 DEF Store
    <2>2. memory' = Leaves(h, memory, a, n, v) /\ Held' = Held
      BY <1>5, HeldKept DEF Store
    <2>3. CASE k.traps > 0
      <3>1. memory' = memory BY <1>2, <2>2, <2>3, TrappedStore
      <3>2. answer' = Note("trap") BY <2>1, <2>3 DEF Retires
      <3> QED BY <2>2, <3>1, <3>2, MapStep
    <2>4. CASE ~(k.traps > 0)
      <3>1. FlatWrite(a, n, v) BY <1>1, <2>2, <2>4, StoreStep
      <3>2. answer' = Note("none") BY <2>1, <2>4 DEF Retires
      <3> QED BY <2>2, <3>1, <3>2, MapStep
    <2> QED BY <2>3, <2>4
  <1>6. ASSUME NEW a \in DataAddrs, NEW n \in AtomicWidths, NEW v \in DataWords(n),
               Amo(a, n, v)
        PROVE  Flat!Amo(a, n, v)
    <2> DEFINE k == BusRead(h, a, n)
    <2>1. PICK r \in Returns(h, memory, a, n), l \in BusWrite(k, a, n) :
              Retires(l, Returned(r))
      BY <1>6 DEF Amo
    <2>2. k \in HartState BY <1>1, BusReadType
    <2>3. l \in HartState BY <2>2, BusWriteType
    <2>4. memory' = Leaves(k, memory, a, n, v) /\ Held' = Held
      BY <1>6, HeldKept DEF Amo
    <2>5. k.traps > 0 \/ ReadOk(h, a, n) BY <1>1, ReadCounts
    <2> HIDE DEF k
    <2>6. l.traps > 0 \/ ReadOk(h, a, n) BY <2>2, <2>5, WriteCounts
    <2>7. FlatRead(a, n) BY <1>1, <2>1, <2>3, <2>6, AnswersRead
    <2>8. /\ memory' = memory \/ FlatWrite(a, n, v)
          /\ l.traps > 0 \/ FlatWrite(a, n, v)
      BY <1>1, <2>2, <2>4, StoreStep
    <2>9. l.traps > 0 => answer' = Note("trap") BY <2>1 DEF Retires
    <2> QED BY <2>4, <2>7, <2>8, <2>9, MapStep
  <1>7. ASSUME NEW a \in DataAddrs, NEW n \in AtomicWidths, LoadReserved(a, n)
        PROVE  Flat!LoadReserved(a, n)
    <2>1. PICK r \in Returns(h, memory, a, n) : Retires(BusRead(h, a, n), Returned(r))
      BY <1>7 DEF LoadReserved
    <2>2. FlatRead(a, n) BY <1>1, <2>1, BusReadType, ReadCounts, AnswersRead
    <2>3. memory' = memory /\ Held' = a BY <1>7 DEF LoadReserved, Held
    <2> QED BY <2>2, <2>3, MapStep
  <1>8. ASSUME NEW a \in DataAddrs, NEW n \in AtomicWidths, NEW v \in DataWords(n),
               StoreConditional(a, n, v)
        PROVE  Flat!StoreConditional(a, n, v)
    <2>1. Held' = NoAddr BY <1>8 DEF StoreConditional, Held
    <2>2. CASE Reserved(a)
      <3>1. PICK k \in BusWrite(h, a, n) : Retires(k, Note("stored"))
        BY <1>8, <2>2 DEF StoreConditional
      <3>2. memory' = Leaves(h, memory, a, n, v)
        BY <1>8, <2>2 DEF StoreConditional
      <3>3. Held = a BY <2>2 DEF Reserved, Held
      <3>4. CASE k.traps > 0
        <4>1. memory' = memory BY <1>2, <3>2, <3>4, TrappedStore
        <4>2. answer' = Note("trap") BY <3>1, <3>4 DEF Retires
        <4> QED BY <2>1, <3>3, <4>1, <4>2, MapStep
      <3>5. CASE ~(k.traps > 0)
        <4>1. FlatWrite(a, n, v) BY <1>1, <3>2, <3>5, StoreStep
        <4>2. answer' = Note("stored") BY <3>1, <3>5 DEF Retires
        <4> QED BY <2>1, <3>3, <4>1, <4>2, MapStep
      <3> QED BY <3>4, <3>5
    <2>3. CASE ~Reserved(a)
      <3>1. Retires(h, Note("failed")) /\ memory' = memory
        BY <1>8, <2>3 DEF StoreConditional
      <3>2. answer' = Note("failed") BY <1>2, <3>1 DEF Retires
      <3>3. a # NoAddr BY <1>1 DEF Addr, NoAddr
      <3>4. Held # a BY <2>3, <3>3 DEF Reserved, Held
      <3> QED BY <2>1, <3>1, <3>2, <3>4, MapStep
    <2> QED BY <2>2, <2>3
  <1> QED BY <1>1, <1>3, <1>4, <1>5, <1>6, <1>7, <1>8 DEF Next, Flat!Next

-----------------------------------------------------------------------------
(* The theorem.                                                            *)

LEMMA IdleSettled == ASSUME NEW m, NEW p, NEW d PROVE Idle(m, p, d).traps = 0
  BY DEF Idle

LEMMA SettledNext == ASSUME Settled, [Next]_vars PROVE Settled'
  <1>1. CASE Elsewhere BY <1>1, IdleSettled DEF Elsewhere, Settled
  <1>2. ASSUME NEW g, NEW r, Retires(g, r) PROVE Settled'
    BY <1>2, IdleSettled DEF Retires, Settled
  <1>3. CASE UNCHANGED vars BY <1>3 DEF vars, Settled
  <1>4. ASSUME NEW a, NEW n, Load(a, n) \/ LoadReserved(a, n) PROVE Settled'
    BY <1>2, <1>4 DEF Load, LoadReserved
  <1>5. ASSUME NEW a, NEW n, NEW v,
               Store(a, n, v) \/ Amo(a, n, v) \/ StoreConditional(a, n, v)
        PROVE  Settled'
    BY <1>2, <1>5 DEF Store, Amo, StoreConditional
  <1> QED BY <1>1, <1>3, <1>4, <1>5 DEF Next

LEMMA InitMaps ==
  ASSUME TypeOK, Init PROVE Flat!Init
  <1>1. \A c \in Cells : c - RamBase \in Offset
    BY SizeTypes DEF Cells, Offset
  <1>2. CellsOf(memory) \in [Cells -> Byte]
    BY <1>1 DEF TypeOK, CellsOf
  <1>3. CellsOf(memory) =
          [c \in RamBase .. RamBase + RamSize - 1 |-> memory[c - RamBase]]
    BY DEF CellsOf, Cells
  <1>4. Held = NoAddr /\ answer = Note("none") BY DEF Init, Held
  <1> QED BY <1>2, <1>3, <1>4 DEF Flat!Init, Cells, Held, Flat!Note, Note

LEMMA StutterMaps == ASSUME UNCHANGED vars PROVE UNCHANGED Flat!vars
  BY DEF vars, Flat!vars

\* Bus and Memory, with their offsets, two bounds and byte order, and the lr,
\* sc and AMO handlers, give the program one flat array of bytes.
THEOREM ImplementsFlatMemory ==
  BaseClearOfZero /\ DevicesOutside => (Spec => FlatSpec)
  <1> SUFFICES ASSUME BaseClearOfZero, DevicesOutside PROVE Spec => FlatSpec
    OBVIOUS
  <1>1. Init => TypeOK /\ AccessesInBounds /\ Settled /\ Flat!Init
    <2>1. Init => Settled BY IdleSettled DEF Init, Settled
    <2> QED BY <2>1, DataInit, InitMaps
  <1>2. /\ TypeOK /\ AccessesInBounds /\ Settled /\ [Next]_vars
        => /\ TypeOK' /\ AccessesInBounds' /\ Settled'
           /\ [Flat!Next]_Flat!vars
    BY DataNext, SettledNext, StepMaps, StutterMaps
  <1> QED BY <1>1, <1>2, PTL DEF Spec, FlatSpec, Flat!Spec

-----------------------------------------------------------------------------
(* The bytes out of reach.                                                 *)

\* A hart in machine mode stays there whatever traps.
LEMMA RaiseTrapFields ==
  ASSUME NEW g \in HartState, NEW code, NEW epc
  PROVE  /\ RaiseTrap(g, FALSE, code, epc).pmp = g.pmp
         /\ g.mode = Machine => RaiseTrap(g, FALSE, code, epc).mode = Machine
  <1>1. EnterSupervisor(g, FALSE, code, epc).pmp = g.pmp
    BY DEF EnterSupervisor, HartState
  <1>2. /\ EnterMachine(g, FALSE, code, epc).pmp = g.pmp
        /\ EnterMachine(g, FALSE, code, epc).mode = Machine
    BY DEF EnterMachine, HartState
  <1>3. g.mode = Machine => ~Delegated(g, FALSE, code)
    BY DEF Delegated, Machine, Supervisor
  <1> QED BY <1>1, <1>2, <1>3 DEF RaiseTrap

LEMMA ReadFields ==
  ASSUME NEW g \in HartState, NEW a, NEW n
  PROVE  /\ BusRead(g, a, n).pmp = g.pmp
         /\ g.mode = Machine => BusRead(g, a, n).mode = Machine
  BY RaiseTrapFields DEF BusRead, RaiseException

LEMMA CsrErrorMachine ==
  ASSUME NEW g \in HartState, g.mode = Machine
  PROVE  \A k \in CsrError(g) : k.mode = Machine
  <1>1. BusRead(g, g.pc, 4) \in HartState /\ BusRead(g, g.pc, 4).mode = Machine
    BY BusReadType, ReadFields
  <1>2. \A epc : RaiseTrap(BusRead(g, g.pc, 4), FALSE, ILLEGAL_INSTRUCTION, epc).mode
                   = Machine
    BY <1>1, RaiseTrapFields
  <1>3. \A k \in IllegalAtPC(g) : k.mode = Machine
    BY <1>2 DEF IllegalAtPC
  <1>4. [g EXCEPT !.alive = FALSE].mode = Machine BY DEF HartState
  <1> QED BY <1>3, <1>4 DEF CsrError

LEMMA MsipMachine ==
  ASSUME NEW g \in HartState, g.mode = Machine, NEW v \in BOOLEAN
  PROVE  \A k \in MsipWrite(g, v) : k.mode = Machine
  <1> DEFINE m == [g EXCEPT !.msip = v]
             old == ReadValue(m, \h344)
             new == IF v THEN old \cup {3} ELSE old \ {3}
  <1>1. m \in HartState BY UpdateTypes
  <1>2. m.mode = Machine BY DEF HartState
  <1>3. MsipWrite(g, v) = UNION {WriteCSR(r, \h344, new) : r \in ReadCSR(m, \h344)}
    BY DEF MsipWrite
  <1> HIDE DEF m, old, new
  <1>4. ASSUME NEW r \in ReadCSR(m, \h344), NEW k \in WriteCSR(r, \h344, new)
        PROVE  k.mode = Machine
    <2>1. r \in HartState BY <1>1, CsrAccessTypes
    <2>2. r.mode = Machine BY <1>1, <1>2, CsrErrorMachine DEF ReadCSR
    <2>3. CASE CanWrite(r, \h344)
      <3>1. k = WriteCSRRaw(r, \h344, new) BY <2>3 DEF WriteCSR
      <3>2. WriteCSRRaw(r, \h344, new) = [r EXCEPT !.mip = new] BY CsrWrites
      <3>3. k = [r EXCEPT !.mip = new] BY <3>1, <3>2
      <3>4. k.mode = r.mode BY <2>1, <3>3 DEF HartState
      <3> QED BY <2>2, <3>4
    <2>4. CASE ~CanWrite(r, \h344)
      <3>1. k \in CsrError(r) BY <2>4 DEF WriteCSR
      <3> QED BY <2>1, <2>2, <3>1, CsrErrorMachine
    <2> QED BY <2>3, <2>4
  <1> QED BY <1>3, <1>4

LEMMA WriteMachine ==
  ASSUME NEW g \in HartState, g.mode = Machine, NEW a, NEW n, NEW k \in BusWrite(g, a, n)
  PROVE  k.mode = Machine
  <1>1. RaiseException(g, STORE_ACCESS_FAULT).mode = Machine
    BY RaiseTrapFields DEF RaiseException
  <1> QED BY <1>1, MsipMachine DEF BusWrite

\* A store writes the bytes from its address on, and begins where it may.
LEMMA OutOfReachKept ==
  ASSUME BaseClearOfZero, NEW g, NEW m \in [Offset -> Byte], NEW a \in DataAddrs,
         NEW n \in Widths, NEW v, NEW o \in OutOfReach(g)
  PROVE  Leaves(g, m, a, n, v)[o] = m[o]
  <1> DEFINE s == Wrap(a - RamBase)
  <1>1. a \in Addr /\ n \in Sizes /\ o \in Offset
    BY SizeTypes DEF OutOfReach
  <1>2. CASE ~WritesRam(g, a, n)
    BY <1>2 DEF Leaves
  <1>3. CASE WritesRam(g, a, n)
    <2>1. RamHit(a, n) /\ PmpAllows(g, a, g.pmp.store) BY <1>3 DEF WritesRam
    <2>2. a >= RamBase BY <2>1, HitAbove
    <2>3. o \notin Touches(s, n)
      <3>1. SUFFICES ASSUME NEW i \in 0 .. n - 1, o = Wrap(s + i) PROVE FALSE
        BY DEF Touches
      <3>2. o = a - RamBase + i BY <1>1, <2>2, <3>1, OffsetPlain
      <3>3. RamBase + o - i = a BY <1>1, <3>2, SizeTypes DEF Addr, Sizes
      <3>4. i \in 0 .. 7 /\ i < n BY <1>1 DEF Sizes
      <3>5. ~PmpAllows(g, a, g.pmp.store)
        BY <2>2, <3>3, <3>4 DEF OutOfReach
      <3> QED BY <2>1, <3>5
    <2> HIDE DEF s
    <2>4. MemWrite(m, s, n, v)[o] = m[o]
      BY <1>1, <2>3 DEF MemWrite
    <2> QED BY <1>3, <2>4 DEF Leaves, s
  <1> QED BY <1>2, <1>3

\* Below machine mode the mode does not matter to PMP.
LEMMA SameReach ==
  ASSUME NEW g, NEW k, k.mode # Machine, k.pmp = g.pmp
  PROVE  OutOfReach(g) \subseteq OutOfReach(k)
  BY DEF OutOfReach, PmpAllows

\* An AMO stores in the mode of the trap its load raised: if that is machine
\* mode, so is the mode in which the instruction ends.
THEOREM DeniedKept == BaseClearOfZero => (Spec => DeniedUnlessMachine)
  <1> SUFFICES ASSUME BaseClearOfZero PROVE Spec => DeniedUnlessMachine
    OBVIOUS
  <1>1. TypeOK /\ [Next]_vars =>
          [ h'.mode # Machine =>
              \A o \in OutOfReach(h) : memory'[o] = memory[o] ]_vars
    <2> SUFFICES ASSUME TypeOK, Next, h'.mode # Machine, NEW o \in OutOfReach(h)
                 PROVE  memory'[o] = memory[o]
      OBVIOUS
    <2>1. h \in HartState /\ memory \in [Offset -> Byte] BY DEF TypeOK
    <2>2. AtomicWidths \subseteq Widths BY SizeTypes
    <2>3. CASE Elsewhere BY <2>3 DEF Elsewhere
    <2>4. ASSUME NEW a \in DataAddrs, NEW n \in Widths, Load(a, n)
          PROVE  memory'[o] = memory[o]
      BY <2>4 DEF Load
    <2>5. ASSUME NEW a \in DataAddrs, NEW n \in Widths, NEW v \in DataWords(n),
                 Store(a, n, v)
          PROVE  memory'[o] = memory[o]
      BY <2>1, <2>5, OutOfReachKept DEF Store
    <2>6. ASSUME NEW a \in DataAddrs, NEW n \in AtomicWidths, LoadReserved(a, n)
          PROVE  memory'[o] = memory[o]
      BY <2>6 DEF LoadReserved
    <2>7. ASSUME NEW a \in DataAddrs, NEW n \in AtomicWidths, NEW v \in DataWords(n),
                 StoreConditional(a, n, v)
          PROVE  memory'[o] = memory[o]
      BY <2>1, <2>2, <2>7, OutOfReachKept DEF StoreConditional
    <2>8. ASSUME NEW a \in DataAddrs, NEW n \in AtomicWidths, NEW v \in DataWords(n),
                 Amo(a, n, v)
          PROVE  memory'[o] = memory[o]
      <3> DEFINE k == BusRead(h, a, n)
      <3>1. PICK l \in BusWrite(k, a, n) : h'.mode = l.mode
        BY <2>8 DEF Amo, Retires, Idle
      <3>2. k \in HartState /\ k.pmp = h.pmp
        BY <2>1, BusReadType, ReadFields
      <3>3. memory' = Leaves(k, memory, a, n, v) BY <2>8 DEF Amo
      <3> HIDE DEF k
      <3>4. k.mode # Machine BY <3>1, <3>2, WriteMachine
      <3>5. o \in OutOfReach(k) BY <3>2, <3>4, SameReach
      <3> QED BY <2>1, <2>2, <3>3, <3>5, OutOfReachKept
    <2> QED BY <2>3, <2>4, <2>5, <2>6, <2>7, <2>8 DEF Next
  <1> QED BY <1>1, DataTypeCorrect, PTL DEF Spec, DeniedUnlessMachine
=============================================================================
