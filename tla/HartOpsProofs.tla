--------------------------- MODULE HartOpsProofs ----------------------------
(***************************************************************************)
(* Lemmas about the operators of HartOps, for every address space and      *)
(* memory that its assumptions allow: each keeps the hart in HartState.    *)
(***************************************************************************)
EXTENDS HartOps, TLAPS

-----------------------------------------------------------------------------
(* The operators of HartOps keep the hart in HartState.                    *)

LEMMA FieldTypes ==
  ASSUME NEW g \in HartState
  PROVE  /\ g.mode \in Modes /\ g.pc \in Addr /\ g.mstatus \in SUBSET StatusBits
         /\ g.medeleg \in SUBSET Exceptions /\ g.mideleg \in SUBSET Interrupts
         /\ g.mie \in SUBSET Interrupts /\ g.mip \in SUBSET Interrupts
         /\ g.mtvec \in TrapVec /\ g.stvec \in TrapVec
         /\ g.mepc \in Addr /\ g.sepc \in Addr /\ g.satp \in SatpModes
         /\ g.pmp \in PmpView /\ g.traps \in 0 .. 2
  BY DEF HartState

\* Replacing one field by a value of its type.
LEMMA UpdateTypes ==
  ASSUME NEW g \in HartState
  PROVE  /\ \A x \in Modes : [g EXCEPT !.mode = x] \in HartState
         /\ \A x \in Addr : [g EXCEPT !.pc = x] \in HartState
         /\ \A x \in SUBSET StatusBits : [g EXCEPT !.mstatus = x] \in HartState
         /\ \A x \in SUBSET Exceptions : [g EXCEPT !.medeleg = x] \in HartState
         /\ \A x \in SUBSET Interrupts : [g EXCEPT !.mideleg = x] \in HartState
         /\ \A x \in SUBSET Interrupts : [g EXCEPT !.mie = x] \in HartState
         /\ \A x \in SUBSET Interrupts : [g EXCEPT !.mip = x] \in HartState
         /\ \A x \in TrapVec : [g EXCEPT !.mtvec = x] \in HartState
         /\ \A x \in TrapVec : [g EXCEPT !.stvec = x] \in HartState
         /\ \A x \in Addr : [g EXCEPT !.mepc = x] \in HartState
         /\ \A x \in Addr : [g EXCEPT !.sepc = x] \in HartState
         /\ \A x \in SatpModes : [g EXCEPT !.satp = x] \in HartState
         /\ \A x \in PmpView : [g EXCEPT !.pmp = x] \in HartState
         /\ \A x \in BOOLEAN : [g EXCEPT !.msip = x] \in HartState
         /\ \A x \in BOOLEAN : [g EXCEPT !.trap_pending = x] \in HartState
         /\ \A x \in 0 .. 2 : [g EXCEPT !.traps = x] \in HartState
         /\ \A x \in BOOLEAN : [g EXCEPT !.alive = x] \in HartState
  BY DEF HartState

LEMMA WrapType == ASSUME NEW a \in Int PROVE Wrap(a) \in Addr
  BY AddressAssumption DEF Wrap, Addr

LEMMA AddrInt == Addr \subseteq Int
  BY DEF Addr

LEMMA CountType == ASSUME NEW n \in 0 .. 2 PROVE Count(n) \in 0 .. 2
  BY DEF Count

LEMMA VectorType ==
  ASSUME NEW tvec \in TrapVec, NEW intr \in BOOLEAN, NEW code \in Nat
  PROVE  Vector(tvec, intr, code) \in Addr
  <1>1. tvec.base \in Int BY AddrInt DEF TrapVec
  <1>2. tvec.base + (IF tvec.flag = 1 /\ intr THEN 4 * code ELSE 0) \in Int
    BY <1>1
  <1> QED BY <1>2, WrapType DEF Vector

LEMMA EntryStatusTypes ==
  ASSUME NEW g \in HartState
  PROVE  /\ SupervisorEntryStatus(g) \in SUBSET StatusBits
         /\ MachineEntryStatus(g) \in SUBSET StatusBits
  <1>1. g.mstatus \in SUBSET StatusBits BY FieldTypes
  <1> QED BY <1>1 DEF SupervisorEntryStatus, MachineEntryStatus, StatusBits,
                      SSTATUS_MASK, MppBits, MPP, SIE, MIE, SPIE, MPIE, SPP

LEMMA ModeTypes == User \in Modes /\ Supervisor \in Modes /\ Machine \in Modes
  BY DEF Modes, User, Supervisor, Machine

LEMMA RaiseTrapType ==
  ASSUME NEW g \in HartState, NEW intr \in BOOLEAN, NEW code \in Nat, NEW epc \in Addr
  PROVE  RaiseTrap(g, intr, code, epc) \in HartState
  <1>1. /\ Vector(g.stvec, intr, code) \in Addr
        /\ Vector(g.mtvec, intr, code) \in Addr
        /\ Count(g.traps) \in 0 .. 2
        /\ TRUE \in BOOLEAN
    BY FieldTypes, VectorType, CountType
  <1>2. EnterSupervisor(g, intr, code, epc) \in HartState
    BY <1>1, EntryStatusTypes, ModeTypes, UpdateTypes, Zenon DEF EnterSupervisor
  <1>3. EnterMachine(g, intr, code, epc) \in HartState
    BY <1>1, EntryStatusTypes, ModeTypes, UpdateTypes, Zenon DEF EnterMachine
  <1> QED BY <1>2, <1>3 DEF RaiseTrap

LEMMA ExceptionCodes ==
  /\ Exceptions \subseteq Nat
  /\ {INSTRUCTION_ACCESS_FAULT, ILLEGAL_INSTRUCTION, BREAKPOINT,
      LOAD_ACCESS_FAULT, STORE_ACCESS_FAULT, ECALL_FROM_U_MODE,
      ECALL_FROM_S_MODE, ECALL_FROM_M_MODE} \subseteq Exceptions
  BY DEF Exceptions, INSTRUCTION_ACCESS_FAULT, ILLEGAL_INSTRUCTION, BREAKPOINT,
         LOAD_ACCESS_FAULT, STORE_ACCESS_FAULT, ECALL_FROM_U_MODE,
         ECALL_FROM_S_MODE, ECALL_FROM_M_MODE

LEMMA RaiseExceptionType ==
  ASSUME NEW g \in HartState, NEW code \in Exceptions
  PROVE  RaiseException(g, code) \in HartState
  BY RaiseTrapType, FieldTypes, ExceptionCodes DEF RaiseException

LEMMA BusReadType ==
  ASSUME NEW g \in HartState, NEW a, NEW n
  PROVE  BusRead(g, a, n) \in HartState
  BY RaiseExceptionType, ExceptionCodes DEF BusRead

LEMMA IllegalTypes ==
  ASSUME NEW g \in HartState
  PROVE  /\ IllegalAtPC(g) \subseteq HartState
         /\ IllegalAtInst(g) \in HartState
         /\ CsrError(g) \subseteq HartState
  <1>1. /\ BusRead(g, g.pc, 4) \in HartState
        /\ g.pc \in Addr
        /\ ILLEGAL_INSTRUCTION \in Nat
    BY BusReadType, FieldTypes, ExceptionCodes
  <1>2. BusRead(g, g.pc, 4).pc \in Addr
    BY <1>1, FieldTypes
  <1>3. IllegalAtPC(g) \subseteq HartState
    BY <1>1, <1>2, RaiseTrapType DEF IllegalAtPC
  <1>4. IllegalAtInst(g) \in HartState
    BY <1>1, RaiseTrapType DEF IllegalAtInst
  <1>5. [g EXCEPT !.alive = FALSE] \in HartState
    BY UpdateTypes
  <1> QED BY <1>3, <1>4, <1>5 DEF CsrError

\* The CSRs written as whole registers are none of the PMP registers.
LEMMA NotPmp ==
  ASSUME NEW a \in {\h100, \h120, \h300, \h302, \h303, \h304, \h104, \h344, \h144,
                    \h305, \h105, \h341, \h141, \h180}
  PROVE  a \notin PmpCsrs
  BY DEF PmpCsrs

LEMMA CsrTypes ==
  /\ \A a \in {\h100, \h120, \h300} : CsrType(a) = SUBSET StatusBits
  /\ CsrType(\h302) = SUBSET Exceptions
  /\ \A a \in {\h303, \h304, \h104, \h344, \h144} : CsrType(a) = SUBSET Interrupts
  /\ \A a \in {\h305, \h105} : CsrType(a) = TrapVec
  /\ \A a \in {\h341, \h141} : CsrType(a) = Addr
  /\ CsrType(\h180) = SatpModes
  /\ \A a \in PmpCsrs : CsrType(a) = PmpViews
  BY NotPmp DEF CsrType

\* What each write does, one register at a time.
LEMMA CsrWrites ==
  ASSUME NEW g, NEW v
  PROVE  /\ \A a \in {\h100, \h120} : WriteCSRRaw(g, a, v) =
              [g EXCEPT !.mstatus = Masked(g.mstatus, v, SSTATUS_MASK)]
         /\ WriteCSRRaw(g, \h300, v) = [g EXCEPT !.mstatus = v]
         /\ WriteCSRRaw(g, \h302, v) = [g EXCEPT !.medeleg = MedelegValue(v)]
         /\ WriteCSRRaw(g, \h303, v) = [g EXCEPT !.mideleg = MidelegValue(v)]
         /\ WriteCSRRaw(g, \h304, v) = [g EXCEPT !.mie = v]
         /\ WriteCSRRaw(g, \h104, v) = [g EXCEPT !.mie = Masked(g.mie, v, g.mideleg)]
         /\ WriteCSRRaw(g, \h344, v) = [g EXCEPT !.mip = v]
         /\ WriteCSRRaw(g, \h144, v) = [g EXCEPT !.mip = Masked(g.mip, v, g.mideleg)]
         /\ WriteCSRRaw(g, \h305, v) = [g EXCEPT !.mtvec = v]
         /\ WriteCSRRaw(g, \h105, v) = [g EXCEPT !.stvec = v]
         /\ WriteCSRRaw(g, \h341, v) = [g EXCEPT !.mepc = v]
         /\ WriteCSRRaw(g, \h141, v) = [g EXCEPT !.sepc = v]
         /\ WriteCSRRaw(g, \h180, v) = [g EXCEPT !.satp = v]
  BY NotPmp DEF WriteCSRRaw

LEMMA PmpWrite ==
  ASSUME NEW g, NEW v, NEW a \in PmpCsrs
  PROVE  WriteCSRRaw(g, a, v) = [g EXCEPT !.pmp = v]
  BY NotPmp DEF WriteCSRRaw

BitCsrNumbers == {\h100, \h120, \h300, \h302, \h303, \h304, \h104, \h344, \h144}
WordCsrNumbers == {\h305, \h105, \h341, \h141, \h180}

LEMMA CsrWriteNone ==
  ASSUME NEW g, NEW v, NEW a,
         a \notin BitCsrNumbers, a \notin WordCsrNumbers, a \notin PmpCsrs
  PROVE  WriteCSRRaw(g, a, v) = g
  BY DEF WriteCSRRaw, BitCsrNumbers, WordCsrNumbers

LEMMA MaskedType ==
  ASSUME NEW S, NEW old \in SUBSET S, NEW v \in SUBSET S, NEW mask
  PROVE  Masked(old, v, mask) \in SUBSET S
  BY DEF Masked

LEMMA WriteCSRRawType ==
  ASSUME NEW g \in HartState, NEW a, NEW v \in CsrType(a)
  PROVE  WriteCSRRaw(g, a, v) \in HartState
  <1>1. CASE a \in {\h100, \h120}
    <2>1. v \in SUBSET StatusBits BY <1>1, CsrTypes
    <2>2. Masked(g.mstatus, v, SSTATUS_MASK) \in SUBSET StatusBits BY <2>1, FieldTypes, MaskedType
    <2>3. WriteCSRRaw(g, a, v) = [g EXCEPT !.mstatus = Masked(g.mstatus, v, SSTATUS_MASK)]
      BY <1>1, CsrWrites
    <2> QED BY <2>2, <2>3, UpdateTypes
  <1>2. CASE a = \h300
    <2>1. v \in SUBSET StatusBits BY <1>2, CsrTypes
    <2>2. WriteCSRRaw(g, a, v) = [g EXCEPT !.mstatus = v]
      BY <1>2, CsrWrites
    <2> QED BY <2>1, <2>2, UpdateTypes
  <1>3. CASE a = \h302
    <2>1. v \in SUBSET Exceptions BY <1>3, CsrTypes
    <2>2. MedelegValue(v) \in SUBSET Exceptions BY <2>1 DEF MedelegValue
    <2>3. WriteCSRRaw(g, a, v) = [g EXCEPT !.medeleg = MedelegValue(v)]
      BY <1>3, CsrWrites
    <2> QED BY <2>2, <2>3, UpdateTypes
  <1>4. CASE a = \h303
    <2>1. v \in SUBSET Interrupts BY <1>4, CsrTypes
    <2>2. MidelegValue(v) \in SUBSET Interrupts BY <2>1 DEF MidelegValue
    <2>3. WriteCSRRaw(g, a, v) = [g EXCEPT !.mideleg = MidelegValue(v)]
      BY <1>4, CsrWrites
    <2> QED BY <2>2, <2>3, UpdateTypes
  <1>5. CASE a = \h304
    <2>1. v \in SUBSET Interrupts BY <1>5, CsrTypes
    <2>2. WriteCSRRaw(g, a, v) = [g EXCEPT !.mie = v]
      BY <1>5, CsrWrites
    <2> QED BY <2>1, <2>2, UpdateTypes
  <1>6. CASE a = \h104
    <2>1. v \in SUBSET Interrupts BY <1>6, CsrTypes
    <2>2. Masked(g.mie, v, g.mideleg) \in SUBSET Interrupts BY <2>1, FieldTypes, MaskedType
    <2>3. WriteCSRRaw(g, a, v) = [g EXCEPT !.mie = Masked(g.mie, v, g.mideleg)]
      BY <1>6, CsrWrites
    <2> QED BY <2>2, <2>3, UpdateTypes
  <1>7. CASE a = \h344
    <2>1. v \in SUBSET Interrupts BY <1>7, CsrTypes
    <2>2. WriteCSRRaw(g, a, v) = [g EXCEPT !.mip = v]
      BY <1>7, CsrWrites
    <2> QED BY <2>1, <2>2, UpdateTypes
  <1>8. CASE a = \h144
    <2>1. v \in SUBSET Interrupts BY <1>8, CsrTypes
    <2>2. Masked(g.mip, v, g.mideleg) \in SUBSET Interrupts BY <2>1, FieldTypes, MaskedType
    <2>3. WriteCSRRaw(g, a, v) = [g EXCEPT !.mip = Masked(g.mip, v, g.mideleg)]
      BY <1>8, CsrWrites
    <2> QED BY <2>2, <2>3, UpdateTypes
  <1>9. CASE a = \h305
    <2>1. v \in TrapVec BY <1>9, CsrTypes
    <2>2. WriteCSRRaw(g, a, v) = [g EXCEPT !.mtvec = v]
      BY <1>9, CsrWrites
    <2> QED BY <2>1, <2>2, UpdateTypes
  <1>10. CASE a = \h105
    <2>1. v \in TrapVec BY <1>10, CsrTypes
    <2>2. WriteCSRRaw(g, a, v) = [g EXCEPT !.stvec = v]
      BY <1>10, CsrWrites
    <2> QED BY <2>1, <2>2, UpdateTypes
  <1>11. CASE a = \h341
    <2>1. v \in Addr BY <1>11, CsrTypes
    <2>2. WriteCSRRaw(g, a, v) = [g EXCEPT !.mepc = v]
      BY <1>11, CsrWrites
    <2> QED BY <2>1, <2>2, UpdateTypes
  <1>12. CASE a = \h141
    <2>1. v \in Addr BY <1>12, CsrTypes
    <2>2. WriteCSRRaw(g, a, v) = [g EXCEPT !.sepc = v]
      BY <1>12, CsrWrites
    <2> QED BY <2>1, <2>2, UpdateTypes
  <1>13. CASE a = \h180
    <2>1. v \in SatpModes BY <1>13, CsrTypes
    <2>2. WriteCSRRaw(g, a, v) = [g EXCEPT !.satp = v]
      BY <1>13, CsrWrites
    <2> QED BY <2>1, <2>2, UpdateTypes
  <1>14. CASE a \in PmpCsrs
    <2>1. v \in PmpView BY <1>14, CsrTypes, PmpAssumption
    <2>2. WriteCSRRaw(g, a, v) = [g EXCEPT !.pmp = v]
      BY <1>14, PmpWrite
    <2> QED BY <2>1, <2>2, UpdateTypes
  <1>15. CASE a \notin BitCsrNumbers /\ a \notin WordCsrNumbers /\ a \notin PmpCsrs
    BY <1>15, CsrWriteNone
  <1> QED
    BY <1>1, <1>2, <1>3, <1>4, <1>5, <1>6, <1>7, <1>8, <1>9, <1>10, <1>11,
       <1>12, <1>13, <1>14, <1>15 DEF BitCsrNumbers, WordCsrNumbers

LEMMA CsrAccessTypes ==
  ASSUME NEW g \in HartState, NEW a
  PROVE  /\ ReadCSR(g, a) \subseteq HartState
         /\ \A v \in CsrType(a) : WriteCSR(g, a, v) \subseteq HartState
  BY IllegalTypes, WriteCSRRawType DEF ReadCSR, WriteCSR

LEMMA CsrBitsTypes ==
  ASSUME NEW g \in HartState
  PROVE  \A a \in BitCsrNumbers : CsrBits(g, a) \in CsrType(a)
  <1>1. /\ CsrBits(g, \h100) = g.mstatus \cap SSTATUS_MASK
        /\ CsrBits(g, \h120) = g.mstatus \cap SSTATUS_MASK
        /\ CsrBits(g, \h300) = g.mstatus
        /\ CsrBits(g, \h302) = g.medeleg
        /\ CsrBits(g, \h303) = g.mideleg
        /\ CsrBits(g, \h304) = g.mie
        /\ CsrBits(g, \h104) = g.mie \cap g.mideleg
        /\ CsrBits(g, \h344) = g.mip
        /\ CsrBits(g, \h144) = g.mip \cap g.mideleg
    BY DEF CsrBits
  <1>2. /\ g.mstatus \in SUBSET StatusBits /\ g.medeleg \in SUBSET Exceptions
        /\ g.mideleg \in SUBSET Interrupts /\ g.mie \in SUBSET Interrupts
        /\ g.mip \in SUBSET Interrupts
    BY FieldTypes
  <1>3. /\ CsrType(\h100) = SUBSET StatusBits /\ CsrType(\h120) = SUBSET StatusBits
        /\ CsrType(\h300) = SUBSET StatusBits /\ CsrType(\h302) = SUBSET Exceptions
        /\ CsrType(\h303) = SUBSET Interrupts /\ CsrType(\h304) = SUBSET Interrupts
        /\ CsrType(\h104) = SUBSET Interrupts /\ CsrType(\h344) = SUBSET Interrupts
        /\ CsrType(\h144) = SUBSET Interrupts
    BY CsrTypes
  <1> QED BY <1>1, <1>2, <1>3 DEF BitCsrNumbers

LEMMA MsipWriteType ==
  ASSUME NEW g \in HartState, NEW v \in BOOLEAN
  PROVE  MsipWrite(g, v) \subseteq HartState
  <1> DEFINE m == [g EXCEPT !.msip = v]
             old == ReadValue(m, \h344)
             new == IF v THEN old \cup {3} ELSE old \ {3}
  <1>1. m \in HartState BY UpdateTypes
  <1> HIDE DEF m
  <1>2. old \in SUBSET Interrupts
    <2>1. CsrBits(m, \h344) = m.mip BY DEF CsrBits
    <2> QED BY <1>1, <2>1, FieldTypes DEF ReadValue
  <1>3. new \in CsrType(\h344)
    BY <1>2, CsrTypes, InterruptAssumption
  <1>4. \A r \in ReadCSR(m, \h344) : WriteCSR(r, \h344, new) \subseteq HartState
    BY <1>1, <1>3, CsrAccessTypes
  <1>5. MsipWrite(g, v) = UNION {WriteCSR(r, \h344, new) : r \in ReadCSR(m, \h344)}
    BY DEF MsipWrite, m
  <1> HIDE DEF old, new
  <1> QED BY <1>4, <1>5

LEMMA BusWriteType ==
  ASSUME NEW g \in HartState, NEW a, NEW n
  PROVE  BusWrite(g, a, n) \subseteq HartState
  <1>1. RaiseException(g, STORE_ACCESS_FAULT) \in HartState
    BY RaiseExceptionType, ExceptionCodes
  <1>2. UNION {MsipWrite(g, v) : v \in BOOLEAN} \subseteq HartState
    BY MsipWriteType
  <1> QED BY <1>1, <1>2 DEF BusWrite

LEMMA CsrNewValueType ==
  ASSUME NEW g \in HartState, NEW a, NEW op, NEW v \in CsrType(a)
  PROVE  CsrNewValue(g, a, op, v) \in CsrType(a)
  <1>1. CASE a \in BitCsrs
    <2>1. CsrBits(g, a) \in CsrType(a)
      BY <1>1, CsrBitsTypes DEF BitCsrs, BitCsrNumbers
    <2>2. PICK S : CsrType(a) = SUBSET S
      BY <1>1, CsrTypes DEF BitCsrs
    <2>3. (CsrBits(g, a) \cup v) \in SUBSET S /\ (CsrBits(g, a) \ v) \in SUBSET S
      BY <2>1, <2>2
    <2> QED BY <2>2, <2>3 DEF CsrNewValue
  <1>2. CASE a \notin BitCsrs
    BY <1>2 DEF CsrNewValue
  <1> QED BY <1>1, <1>2

LEMMA ExecCsrType ==
  ASSUME NEW g \in HartState, NEW a, NEW op, NEW rd, NEW src, NEW v \in CsrType(a),
         NEW r \in ExecCsr(g, a, op, rd, src, v)
  PROVE  r.h \in HartState
  <1>1. PICK k \in (IF CsrReads(op, rd) THEN ReadCSR(g, a) ELSE {g}) :
          r \in IF CsrReads(op, rd) /\ k.trap_pending
                THEN {[h |-> k, done |-> FALSE]}
                ELSE IF CsrWritesBack(op, src)
                THEN {[h |-> w, done |-> CanWrite(k, a)] :
                        w \in WriteCSR(k, a, CsrNewValue(k, a, op, v))}
                ELSE {[h |-> k, done |-> TRUE]}
    BY DEF ExecCsr
  <1>2. k \in HartState
    BY <1>1, CsrAccessTypes
  <1>3. WriteCSR(k, a, CsrNewValue(k, a, op, v)) \subseteq HartState
    BY <1>2, CsrAccessTypes, CsrNewValueType
  <1>4. CASE r = [h |-> k, done |-> FALSE] \/ r = [h |-> k, done |-> TRUE]
    BY <1>2, <1>4
  <1>5. CASE \E w \in WriteCSR(k, a, CsrNewValue(k, a, op, v)) :
                r = [h |-> w, done |-> CanWrite(k, a)]
    BY <1>3, <1>5
  <1> QED BY <1>1, <1>4, <1>5

-----------------------------------------------------------------------------
(* System instructions, translation and fetch.                             *)

LEMMA ReturnTypes ==
  ASSUME NEW g \in HartState
  PROVE  MretTaken(g) \in HartState /\ SretTaken(g) \in HartState
  <1>1. g.mstatus \in SUBSET StatusBits /\ g.mepc \in Addr /\ g.sepc \in Addr
    BY FieldTypes
  <1>2. /\ MretStatus(g.mstatus) \in SUBSET StatusBits
        /\ SretStatus(g.mstatus) \in SUBSET StatusBits
    BY <1>1 DEF MretStatus, SretStatus, StatusBits, MPP, SIE, MIE, SPIE, MPIE, SPP
  <1>3. /\ MppMode(g.mstatus) \in Modes
        /\ (IF SPP \in g.mstatus THEN Supervisor ELSE User) \in Modes
    BY DEF MppMode, Modes, Supervisor, User
  <1>4. MretTaken(g) \in HartState
    BY <1>1, <1>2, <1>3, UpdateTypes, Zenon DEF MretTaken
  <1>5. SretTaken(g) \in HartState
    BY <1>1, <1>2, <1>3, UpdateTypes, Zenon DEF SretTaken
  <1> QED BY <1>4, <1>5

LEMMA ExecReturnTypes ==
  ASSUME NEW g \in HartState
  PROVE  ExecMret(g) \subseteq HartState /\ ExecSret(g) \in HartState
  BY ReturnTypes, IllegalTypes DEF ExecMret, ExecSret

Translations == [h : HartState, ok : BOOLEAN, pa : Addr]

LEMMA Sv39Type ==
  ASSUME NEW g \in HartState
  PROVE  Sv39Outcomes(g) \subseteq Translations
  <1> DEFINE fault(s) == [h |-> RaiseException(s, INSTRUCTION_ACCESS_FAULT),
                          ok |-> FALSE, pa |-> 0]
  <1>1. 0 \in Addr BY AddressAssumption DEF Addr
  <1>2. ASSUME NEW s \in HartState PROVE fault(s) \in Translations
    BY <1>1, RaiseExceptionType, ExceptionCodes DEF Translations
  <1>3. \A p \in Addr : BusRead(g, p, 8) \in HartState
    BY BusReadType
  <1>4. \A p \in Addr : [h |-> g, ok |-> TRUE, pa |-> p] \in Translations
    BY DEF Translations
  <1>5. Sv39Outcomes(g) = {[h |-> g, ok |-> TRUE, pa |-> p] : p \in Addr}
                            \cup {fault(g)}
                            \cup {fault(BusRead(g, p, 8)) : p \in Addr}
    BY DEF Sv39Outcomes
  <1> HIDE DEF fault
  <1> QED BY <1>2, <1>3, <1>4, <1>5

LEMMA TranslateType ==
  ASSUME NEW g \in HartState, NEW va \in Addr
  PROVE  Translate(g, va) \subseteq Translations
  <1>1. 0 \in Addr BY AddressAssumption DEF Addr
  <1>2. \A x \in HartState, ok \in BOOLEAN, p \in Addr :
            [h |-> x, ok |-> ok, pa |-> p] \in Translations
    BY DEF Translations
  <1>3. \A x \in CsrError(g) : [h |-> x, ok |-> TRUE, pa |-> va] \in Translations
    BY <1>2, IllegalTypes
  <1> QED BY <1>1, <1>2, <1>3, Sv39Type DEF Translate

Forms == {"half", "word", "low", "none", "failed"}
FetchResults == [h : HartState, before : Addr, len : {0, 2, 4}, form : Forms]

LEMMA FetchedType ==
  ASSUME NEW g \in HartState, NEW before \in Addr, NEW len \in {0, 2, 4},
         NEW form \in Forms
  PROVE  Fetched(g, before, len, form) \in FetchResults
  BY DEF Fetched, FetchResults

LEMMA SecondHalfType ==
  ASSUME NEW g \in HartState, NEW before \in Addr, NEW pa
  PROVE  SecondHalf(g, before, pa) \in FetchResults
  <1>1. RaiseException(g, LOAD_ACCESS_FAULT) \in HartState
    BY RaiseExceptionType, ExceptionCodes
  <1>2. "word" \in Forms /\ "low" \in Forms /\ 4 \in {0, 2, 4}
    BY DEF Forms
  <1> QED BY <1>1, <1>2, FetchedType DEF SecondHalf

LEMMA NextHalf == ASSUME NEW a \in Addr PROVE Wrap(a + 2) \in Addr
  <1>1. a + 2 \in Int BY AddrInt
  <1> QED BY <1>1, WrapType

LEMMA WideFetchType ==
  ASSUME NEW g \in HartState, NEW pa \in Addr
  PROVE  WideFetch(g, pa) \subseteq FetchResults
  <1>1. g.pc \in Addr BY FieldTypes
  <1>2. Translate(g, Wrap(g.pc + 2)) \subseteq Translations
    BY <1>1, NextHalf, TranslateType
  <1>3. ASSUME NEW t \in Translate(g, Wrap(g.pc + 2))
        PROVE  (IF t.ok THEN SecondHalf(t.h, g.pc, t.pa)
                        ELSE Fetched(t.h, g.pc, 0, "failed")) \in FetchResults
    <2>1. t.h \in HartState BY <1>2 DEF Translations
    <2>2. "failed" \in Forms /\ 0 \in {0, 2, 4} BY DEF Forms
    <2>3. SecondHalf(t.h, g.pc, t.pa) \in FetchResults BY <1>1, <2>1, SecondHalfType
    <2>4. Fetched(t.h, g.pc, 0, "failed") \in FetchResults
      BY <1>1, <2>1, <2>2, FetchedType
    <2> QED BY <2>3, <2>4
  <1>4. SecondHalf(g, g.pc, Wrap(pa + 2)) \in FetchResults
    BY <1>1, SecondHalfType
  <1> QED BY <1>3, <1>4 DEF WideFetch

LEMMA FetchAtType ==
  ASSUME NEW g \in HartState, NEW pa \in Addr
  PROVE  FetchAt(g, pa) \subseteq FetchResults
  <1>1. g.pc \in Addr BY FieldTypes
  <1>2. RaiseException(g, LOAD_ACCESS_FAULT) \in HartState
    BY RaiseExceptionType, ExceptionCodes
  <1>3. "half" \in Forms /\ "none" \in Forms /\ 2 \in {0, 2, 4}
    BY DEF Forms
  <1>4. /\ Fetched(g, g.pc, 2, "half") \in FetchResults
        /\ Fetched(RaiseException(g, LOAD_ACCESS_FAULT), g.pc, 2, "none") \in FetchResults
    BY <1>1, <1>2, <1>3, FetchedType
  <1> QED BY <1>4, WideFetchType DEF FetchAt

LEMMA FetchType ==
  ASSUME NEW g \in HartState
  PROVE  Fetch(g) \subseteq FetchResults
  <1>1. g.pc \in Addr BY FieldTypes
  <1>2. Translate(g, g.pc) \subseteq Translations
    BY <1>1, TranslateType
  <1>3. ASSUME NEW t \in Translate(g, g.pc)
        PROVE  (IF t.ok THEN FetchAt(t.h, t.pa)
                        ELSE {Fetched(t.h, g.pc, 0, "failed")}) \subseteq FetchResults
    <2>1. t.h \in HartState /\ t.pa \in Addr BY <1>2 DEF Translations
    <2>2. "failed" \in Forms /\ 0 \in {0, 2, 4} BY DEF Forms
    <2>3. FetchAt(t.h, t.pa) \subseteq FetchResults BY <2>1, FetchAtType
    <2>4. Fetched(t.h, g.pc, 0, "failed") \in FetchResults
      BY <1>1, <2>1, <2>2, FetchedType
    <2> QED BY <2>3, <2>4
  <1> QED BY <1>3 DEF Fetch

LEMMA RetireType ==
  ASSUME NEW g \in HartState, NEW before, NEW len \in {0, 2, 4}
  PROVE  Retire(g, before, len) \in HartState
  <1>1. g.pc \in Addr BY FieldTypes
  <1>2. g.pc + len \in Int
    <2>1. g.pc \in Int BY <1>1, AddrInt
    <2>2. len \in Int OBVIOUS
    <2> HIDE DEF HartState
    <2> QED BY <2>1, <2>2
  <1>3. (IF g.pc = before THEN Wrap(g.pc + len) ELSE g.pc) \in Addr
    BY <1>1, <1>2, WrapType
  <1>4. FALSE \in BOOLEAN OBVIOUS
  <1> QED BY <1>3, <1>4, UpdateTypes, Zenon DEF Retire
=============================================================================
