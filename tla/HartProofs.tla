----------------------------- MODULE HartProofs ------------------------------
(***************************************************************************)
(* Type correctness of the hart and what it protects, for every address    *)
(* space, memory, program and set of CSR values that the assumptions of    *)
(* HartOps and Hart allow: the supervisor never changes the machine's      *)
(* configuration, a return undoes the trap it returns from, and a step     *)
(* that traps saves the hart it interrupted and loses no privilege.        *)
(***************************************************************************)
EXTENDS Hart, HartOpsProofs

-----------------------------------------------------------------------------
(* Type correctness of the hart.                                           *)

LEMMA FetchesType ==
  ASSUME h \in HartState, NEW forms
  PROVE  Fetches(forms) \subseteq FetchResults
  <1>1. 0 \in 0 .. 2 OBVIOUS
  <1>2. StartStep(h) \in HartState BY <1>1, UpdateTypes DEF StartStep
  <1> QED BY <1>2, FetchType DEF Fetches

LEMMA FinishType ==
  ASSUME NEW f \in FetchResults, NEW g \in HartState,
         NEW kind \in Outcomes, Finish(f, g, kind)
  PROVE  TypeOK'
  <1>1. f.len \in {0, 2, 4} BY DEF FetchResults
  <1>2. h' \in HartState BY <1>1, RetireType DEF Finish
  <1>3. last' \in Outcomes BY DEF Finish, Outcome, Outcomes
  <1> QED BY <1>2, <1>3 DEF TypeOK

LEMMA InitType == Init => TypeOK
  <1> SUFFICES ASSUME Init PROVE TypeOK OBVIOUS
  <1>1. 0 \in Addr BY AddressAssumption DEF Addr
  <1>2. PmpNone \in PmpView /\ PmpOpen \in PmpView
    BY ProgramAssumption, PmpAssumption
  <1>3. [base |-> 0, flag |-> 0] \in TrapVec BY <1>1 DEF TrapVec
  <1>4. (IF OpenSbi THEN MPP ELSE {}) \in SUBSET StatusBits BY DEF StatusBits
  <1>5. Machine \in Modes /\ SATP_MODE_BARE \in SatpModes
    BY DEF Modes, Machine, SATP_MODE_BARE, SatpModes
  <1>6. BootPc \in Addr BY ProgramAssumption
  <1>7. Boot \in HartState
    BY <1>1, <1>2, <1>3, <1>4, <1>5, <1>6 DEF Boot, HartState
  <1> QED BY <1>7 DEF Init, TypeOK, Outcomes

LEMMA FetchedHart ==
  ASSUME h \in HartState, NEW forms, NEW f \in Fetches(forms)
  PROVE  f \in FetchResults /\ f.h \in HartState
  BY FetchesType DEF FetchResults

LEMMA NextType == TypeOK /\ [Next]_vars => TypeOK'
  <1> SUFFICES ASSUME TypeOK, [Next]_vars PROVE TypeOK' OBVIOUS
  <1> USE DEF TypeOK
  <1>a. {"failed", "low", "csr_done", "csr_dropped", "ecall", "user", "other"}
            \subseteq Outcomes
    BY DEF Outcomes
  <1>1. CASE FetchFails
    <2>1. PICK f \in Fetches({"failed"}) :
              h' = f.h /\ last' = IF h.mode = User THEN "user" ELSE "failed"
      BY <1>1 DEF FetchFails
    <2> QED BY <1>a, <2>1, FetchedHart
  <1>2. CASE Illegal
    <2>1. PICK f \in Fetches({"half", "word", "low", "none"}) :
              Finish(f, RaiseException(f.h, ILLEGAL_INSTRUCTION), "other")
      BY <1>2 DEF Illegal
    <2> QED BY <1>a, <2>1, FetchedHart, RaiseExceptionType, ExceptionCodes, FinishType
  <1>3. CASE Plain
    <2>1. PICK f \in Fetches({"half", "word", "low"}) : Finish(f, f.h, "other")
      BY <1>3 DEF Plain
    <2> QED BY <1>a, <2>1, FetchedHart, FinishType
  <1>4. CASE Jump
    <2>1. PICK f \in Fetches({"half", "word", "low"}), t \in JumpTargets :
              Finish(f, [f.h EXCEPT !.pc = t], "other")
      BY <1>4 DEF Jump
    <2>2. [f.h EXCEPT !.pc = t] \in HartState
      <3>1. f.h \in HartState BY FetchedHart
      <3>2. t \in Addr BY ProgramAssumption
      <3> QED BY <3>1, <3>2, UpdateTypes
    <2> QED BY <1>a, <2>1, <2>2, FetchedHart, FinishType
  <1>5. CASE Load
    <2>1. PICK f \in Fetches({"half", "word", "low"}), x \in Accesses :
              Finish(f, BusRead(f.h, x[1], x[2]), "other")
      BY <1>5 DEF Load
    <2> QED BY <1>a, <2>1, FetchedHart, BusReadType, FinishType
  <1>6. CASE Store
    <2>1. PICK f \in Fetches({"half", "word", "low"}), x \in Accesses :
               \E g \in BusWrite(f.h, x[1], x[2]) : Finish(f, g, "other")
      BY <1>6 DEF Store
    <2>0. PICK g \in BusWrite(f.h, x[1], x[2]) : Finish(f, g, "other")
      BY <2>1
    <2>2. g \in HartState BY FetchedHart, BusWriteType
    <2> QED BY <1>a, <2>0, <2>2, FetchedHart, FinishType
  <1>7. CASE Amo
    <2>1. PICK f \in Fetches({"word", "low"}), x \in Accesses :
               \E g \in BusWrite(BusRead(f.h, x[1], x[2]), x[1], x[2]) :
                  Finish(f, g, "other")
      BY <1>7 DEF Amo
    <2>0. PICK g \in BusWrite(BusRead(f.h, x[1], x[2]), x[1], x[2]) :
              Finish(f, g, "other")
      BY <2>1
    <2>2. BusRead(f.h, x[1], x[2]) \in HartState BY FetchedHart, BusReadType
    <2>3. g \in HartState BY <2>2, BusWriteType
    <2> QED BY <1>a, <2>0, <2>3, FetchedHart, FinishType
  <1>8. CASE Csr
    <2>1. PICK f \in Fetches({"word"}), a \in CsrAddrs, op \in {"rw", "rs", "rc"},
               rd \in BOOLEAN, src \in BOOLEAN :
              \E v \in CsrValues[a] : \E r \in ExecCsr(f.h, a, op, rd, src, v) :
                  Finish(f, r.h, IF r.done THEN "csr_done" ELSE "csr_dropped")
      BY <1>8 DEF Csr
    <2>0. PICK v \in CsrValues[a] : \E r \in ExecCsr(f.h, a, op, rd, src, v) :
              Finish(f, r.h, IF r.done THEN "csr_done" ELSE "csr_dropped")
      BY <2>1
    <2>5. PICK r \in ExecCsr(f.h, a, op, rd, src, v) :
              Finish(f, r.h, IF r.done THEN "csr_done" ELSE "csr_dropped")
      BY <2>0
    <2>2. v \in CsrType(a) BY ProgramAssumption
    <2>3. r.h \in HartState BY <2>2, FetchedHart, ExecCsrType
    <2>4. (IF r.done THEN "csr_done" ELSE "csr_dropped") \in Outcomes BY <1>a
    <2> QED BY <2>5, <2>3, <2>4, FetchedHart, FinishType
  <1>9. CASE CsrLow
    <2>1. PICK f \in Fetches({"low"}), op \in {"rw", "rs", "rc"},
               rd \in BOOLEAN, src \in BOOLEAN :
              \E r \in ExecCsr(f.h, 0, op, rd, src, 0) : Finish(f, r.h, "low")
      BY <1>9 DEF CsrLow
    <2>0. PICK r \in ExecCsr(f.h, 0, op, rd, src, 0) : Finish(f, r.h, "low")
      BY <2>1
    <2>2. 0 \in CsrType(0) BY DEF CsrType, PmpCsrs
    <2>3. r.h \in HartState BY <2>2, FetchedHart, ExecCsrType
    <2> QED BY <1>a, <2>0, <2>3, FetchedHart, FinishType
  <1>10. CASE Ecall
    <2>1. PICK f \in Fetches({"word", "low"}) :
              Finish(f, RaiseException(f.h, ECallCause(f.h.mode)), "ecall")
      BY <1>10 DEF Ecall
    <2>2. ECallCause(f.h.mode) \in Exceptions BY ExceptionCodes DEF ECallCause
    <2>3. RaiseException(f.h, ECallCause(f.h.mode)) \in HartState
      BY <2>2, FetchedHart, RaiseExceptionType
    <2> QED BY <1>a, <2>1, <2>3, FetchedHart, FinishType
  <1>11. CASE EnvCall
    <2>1. PICK f \in Fetches({"word", "low"}) :
             \/ Finish(f, f.h, "ecall")
             \/ \E x \in Accesses :
                 \/ Finish(f, BusRead(f.h, x[1], 1), "ecall")
                 \/ Finish(f, BusRead(BusRead(f.h, x[1], 1), Wrap(x[1] + 1), 1), "ecall")
                 \/ \E g \in BusWrite(f.h, x[1], 1) :
                       \/ Finish(f, g, "ecall")
                       \/ \E k \in BusWrite(g, Wrap(x[1] + 1), 1) : Finish(f, k, "ecall")
      BY <1>11 DEF EnvCall
    <2>2. f \in FetchResults /\ f.h \in HartState BY FetchedHart
    <2>3. CASE Finish(f, f.h, "ecall")
      BY <1>a, <2>2, <2>3, FinishType
    <2>4. ASSUME NEW x \in Accesses, Finish(f, BusRead(f.h, x[1], 1), "ecall")
          PROVE  TypeOK'
      BY <1>a, <2>2, <2>4, BusReadType, FinishType
    <2>5. ASSUME NEW x \in Accesses,
                 Finish(f, BusRead(BusRead(f.h, x[1], 1), Wrap(x[1] + 1), 1), "ecall")
          PROVE  TypeOK'
      <3>1. BusRead(f.h, x[1], 1) \in HartState BY <2>2, BusReadType
      <3>2. BusRead(BusRead(f.h, x[1], 1), Wrap(x[1] + 1), 1) \in HartState
        BY <3>1, BusReadType
      <3> QED BY <1>a, <2>2, <2>5, <3>2, FinishType
    <2>6. ASSUME NEW x \in Accesses, NEW g \in BusWrite(f.h, x[1], 1),
                 Finish(f, g, "ecall")
          PROVE  TypeOK'
      <3>1. g \in HartState BY <2>2, BusWriteType
      <3> QED BY <1>a, <2>2, <2>6, <3>1, FinishType
    <2>7. ASSUME NEW x \in Accesses, NEW g \in BusWrite(f.h, x[1], 1),
                 NEW k \in BusWrite(g, Wrap(x[1] + 1), 1), Finish(f, k, "ecall")
          PROVE  TypeOK'
      <3>1. g \in HartState BY <2>2, BusWriteType
      <3>2. k \in HartState BY <3>1, BusWriteType
      <3> QED BY <1>a, <2>2, <2>7, <3>2, FinishType
    <2> QED BY <2>1, <2>3, <2>4, <2>5, <2>6, <2>7
  <1>12. CASE EnvExit
    <2>1. PICK f \in Fetches({"word", "low"}) : h' = [f.h EXCEPT !.alive = FALSE]
      BY <1>12 DEF EnvExit
    <2>2. [f.h EXCEPT !.alive = FALSE] \in HartState BY FetchedHart, UpdateTypes
    <2>3. last' = "ecall" BY <1>12 DEF EnvExit
    <2> QED BY <1>a, <2>1, <2>2, <2>3
  <1>13. CASE Ebreak
    <2>1. PICK f \in Fetches({"half", "word"}) :
              Finish(f, RaiseException(f.h, BREAKPOINT), "other")
      BY <1>13 DEF Ebreak
    <2> QED BY <1>a, <2>1, FetchedHart, RaiseExceptionType, ExceptionCodes, FinishType
  <1>14. CASE Mret
    <2>1. PICK f \in Fetches({"word"}) : \E g \in ExecMret(f.h) : Finish(f, g, "other")
      BY <1>14 DEF Mret
    <2>0. PICK g \in ExecMret(f.h) : Finish(f, g, "other")
      BY <2>1
    <2>2. g \in HartState BY FetchedHart, ExecReturnTypes
    <2> QED BY <1>a, <2>0, <2>2, FetchedHart, FinishType
  <1>15. CASE Sret
    <2>1. PICK f \in Fetches({"word"}) : Finish(f, ExecSret(f.h), "other")
      BY <1>15 DEF Sret
    <2> QED BY <1>a, <2>1, FetchedHart, ExecReturnTypes, FinishType
  <1>16. CASE BadSystem
    <2>1. PICK f \in Fetches({"word"}) : Finish(f, IllegalAtInst(f.h), "other")
      BY <1>16 DEF BadSystem
    <2> QED BY <1>a, <2>1, FetchedHart, IllegalTypes, FinishType
  <1>17. CASE UNCHANGED vars
    BY <1>17 DEF vars
  <1> QED
    BY <1>1, <1>2, <1>3, <1>4, <1>5, <1>6, <1>7, <1>8, <1>9, <1>10, <1>11,
       <1>12, <1>13, <1>14, <1>15, <1>16, <1>17 DEF Next

\* Every register of the hart keeps a value it can hold, whatever the program.
THEOREM TypeCorrect == Spec => []TypeOK
  <1> QED BY InitType, NextType, PTL DEF Spec

-----------------------------------------------------------------------------
(* The relation every part of a step but a CSR write and a return keeps:   *)
(* k comes after g, with the machine's configuration as it was, and its    *)
(* trap context too unless the hart is now in machine mode.                *)

SameConfig(g, k) ==
    /\ k.medeleg = g.medeleg /\ k.mideleg = g.mideleg
    /\ k.mtvec = g.mtvec /\ k.pmp = g.pmp
    /\ k.mie \ k.mideleg = g.mie \ g.mideleg

SameContext(g, k) ==
    /\ k.mstatus \ SSTATUS_MASK = g.mstatus \ SSTATUS_MASK
    /\ k.mepc = g.mepc
    /\ k.mip \ k.mideleg = g.mip \ g.mideleg

Confined(g, k) ==
    /\ SameConfig(g, k)
    /\ k.mode = Machine \/ (g.mode # Machine /\ SameContext(g, k))

LEMMA ConfinedSelf == ASSUME NEW g PROVE Confined(g, g)
  BY DEF Confined, SameConfig, SameContext

LEMMA ConfinedChain ==
  ASSUME NEW g, NEW k, NEW l, Confined(g, k), Confined(k, l)
  PROVE  Confined(g, l)
  BY DEF Confined, SameConfig, SameContext

\* Fields that no property protects can take any value.
LEMMA UnprotectedFields ==
  ASSUME NEW g \in HartState, NEW x
  PROVE  /\ Confined(g, [g EXCEPT !.pc = x])
         /\ Confined(g, [g EXCEPT !.traps = x])
         /\ Confined(g, [g EXCEPT !.alive = x])
         /\ Confined(g, [g EXCEPT !.msip = x])
         /\ Confined(g, [g EXCEPT !.trap_pending = x])
         /\ Confined(g, [g EXCEPT !.stvec = x])
         /\ Confined(g, [g EXCEPT !.sepc = x])
         /\ Confined(g, [g EXCEPT !.satp = x])
  BY DEF Confined, SameConfig, SameContext, HartState

LEMMA EnterSupervisorFields ==
  ASSUME NEW g \in HartState, NEW intr, NEW code, NEW epc,
         NEW k, k = EnterSupervisor(g, intr, code, epc)
  PROVE  /\ k.mode = Supervisor /\ k.sepc = epc
         /\ k.mstatus = SupervisorEntryStatus(g)
         /\ k.trap_pending
         /\ k.medeleg = g.medeleg /\ k.mideleg = g.mideleg
         /\ k.mie = g.mie /\ k.mip = g.mip
         /\ k.mtvec = g.mtvec /\ k.mepc = g.mepc /\ k.pmp = g.pmp
  BY DEF EnterSupervisor, HartState

LEMMA EnterMachineFields ==
  ASSUME NEW g \in HartState, NEW intr, NEW code, NEW epc,
         NEW k, k = EnterMachine(g, intr, code, epc)
  PROVE  /\ k.mode = Machine /\ k.mepc = epc
         /\ k.mstatus = MachineEntryStatus(g)
         /\ k.trap_pending
         /\ k.medeleg = g.medeleg /\ k.mideleg = g.mideleg
         /\ k.mie = g.mie /\ k.mip = g.mip
         /\ k.mtvec = g.mtvec /\ k.pmp = g.pmp
  BY DEF EnterMachine, HartState

LEMMA RaiseTrapConfined ==
  ASSUME NEW g \in HartState, NEW intr, NEW code, NEW epc
  PROVE  /\ Confined(g, RaiseTrap(g, intr, code, epc))
         /\ RaiseTrap(g, intr, code, epc).trap_pending
  <1> PICK k : k = RaiseTrap(g, intr, code, epc) OBVIOUS
  <1>1. CASE Delegated(g, intr, code)
    <2>1. k = EnterSupervisor(g, intr, code, epc)
      BY <1>1 DEF RaiseTrap
    <2>2. g.mode # Machine
      BY <1>1, FieldTypes DEF Delegated, Supervisor, Machine, Modes
    <2>3. SupervisorEntryStatus(g) \ SSTATUS_MASK = g.mstatus \ SSTATUS_MASK
      BY DEF SupervisorEntryStatus, SSTATUS_MASK, SIE, SPIE, SPP
    <2>4. /\ k.mstatus = SupervisorEntryStatus(g) /\ k.trap_pending
          /\ k.medeleg = g.medeleg /\ k.mideleg = g.mideleg
          /\ k.mie = g.mie /\ k.mip = g.mip
          /\ k.mtvec = g.mtvec /\ k.mepc = g.mepc /\ k.pmp = g.pmp
      BY <2>1, EnterSupervisorFields
    <2>5. SameConfig(g, k) /\ SameContext(g, k)
      BY <2>3, <2>4 DEF SameConfig, SameContext
    <2> QED BY <2>2, <2>4, <2>5 DEF Confined
  <1>2. CASE ~Delegated(g, intr, code)
    <2>1. k = EnterMachine(g, intr, code, epc)
      BY <1>2 DEF RaiseTrap
    <2>2. /\ k.mode = Machine /\ k.trap_pending
          /\ k.medeleg = g.medeleg /\ k.mideleg = g.mideleg /\ k.mie = g.mie
          /\ k.mtvec = g.mtvec /\ k.pmp = g.pmp
      BY <2>1, EnterMachineFields
    <2> QED BY <2>2 DEF Confined, SameConfig
  <1> QED BY <1>1, <1>2

LEMMA RaiseExceptionConfined ==
  ASSUME NEW g \in HartState, NEW code
  PROVE  Confined(g, RaiseException(g, code))
  BY RaiseTrapConfined DEF RaiseException

LEMMA BusReadConfined ==
  ASSUME NEW g \in HartState, NEW a, NEW n
  PROVE  Confined(g, BusRead(g, a, n))
  BY RaiseExceptionConfined, ConfinedSelf DEF BusRead

LEMMA IllegalConfined ==
  ASSUME NEW g \in HartState
  PROVE  /\ \A k \in IllegalAtPC(g) : Confined(g, k) /\ k.trap_pending
         /\ Confined(g, IllegalAtInst(g))
         /\ \A k \in CsrError(g) :
               Confined(g, k) /\ (Hosted => k.trap_pending)
  <1>1. BusRead(g, g.pc, 4) \in HartState /\ Confined(g, BusRead(g, g.pc, 4))
    BY BusReadType, BusReadConfined
  <1>2. \A epc :
          LET k == RaiseTrap(BusRead(g, g.pc, 4), FALSE, ILLEGAL_INSTRUCTION, epc)
          IN  Confined(g, k) /\ k.trap_pending
    BY <1>1, RaiseTrapConfined, ConfinedChain
  <1>3. \A k \in IllegalAtPC(g) : Confined(g, k) /\ k.trap_pending
    BY <1>2 DEF IllegalAtPC
  <1>4. Confined(g, IllegalAtInst(g))
    BY <1>2 DEF IllegalAtInst
  <1>5. Confined(g, [g EXCEPT !.alive = FALSE])
    BY UnprotectedFields
  <1> QED BY <1>3, <1>4, <1>5 DEF CsrError

\* A store changes the hart through msip only, which machine mode alone can
\* reach in mip.
LEMMA CsrErrorConfined ==
  ASSUME NEW g \in HartState, NEW a, NEW v, ~CanWrite(g, a)
  PROVE  \A k \in WriteCSR(g, a, v) : Confined(g, k)
  BY IllegalConfined DEF WriteCSR

LEMMA MipWriteConfined ==
  ASSUME NEW g \in HartState, NEW v
  PROVE  \A k \in WriteCSR(g, \h344, v) : Confined(g, k)
  <1>1. CASE CanWrite(g, \h344)
    <2>1. g.mode = Machine
      BY <1>1, FieldTypes DEF CanWrite, PrivRequired, Modes, Machine
    <2>2. WriteCSR(g, \h344, v) = {[g EXCEPT !.mip = v]}
      BY <1>1, CsrWrites DEF WriteCSR
    <2>3. Confined(g, [g EXCEPT !.mip = v])
      BY <2>1 DEF Confined, SameConfig, HartState
    <2> QED BY <2>2, <2>3
  <1> QED BY <1>1, CsrErrorConfined

LEMMA MsipWriteConfined ==
  ASSUME NEW g \in HartState, NEW v \in BOOLEAN
  PROVE  \A k \in MsipWrite(g, v) : Confined(g, k)
  <1>1. ASSUME NEW m \in HartState, Confined(g, m), NEW new,
               NEW r \in ReadCSR(m, \h344), NEW k \in WriteCSR(r, \h344, new)
        PROVE  Confined(g, k)
    <2>1. r \in HartState /\ Confined(m, r)
      BY CsrAccessTypes, IllegalConfined, ConfinedSelf DEF ReadCSR
    <2>2. Confined(r, k) BY <2>1, MipWriteConfined
    <2>3. Confined(m, k) BY <2>1, <2>2, ConfinedChain
    <2> QED BY <1>1, <2>3, ConfinedChain
  <1>2. [g EXCEPT !.msip = v] \in HartState /\ Confined(g, [g EXCEPT !.msip = v])
    BY UpdateTypes, UnprotectedFields
  <1> QED BY <1>1, <1>2 DEF MsipWrite

LEMMA BusWriteConfined ==
  ASSUME NEW g \in HartState, NEW a, NEW n
  PROVE  \A k \in BusWrite(g, a, n) : Confined(g, k)
  <1>1. Confined(g, g) BY ConfinedSelf
  <1>2. Confined(g, RaiseException(g, STORE_ACCESS_FAULT))
    BY RaiseExceptionConfined
  <1> QED BY <1>1, <1>2, MsipWriteConfined DEF BusWrite

-----------------------------------------------------------------------------
(* The fetch.  A hart that may read satp, and reads its instruction whole, *)
(* is unchanged by the fetch.                                              *)

LEMMA TranslateConfined ==
  ASSUME NEW g \in HartState, NEW va
  PROVE  /\ \A t \in Translate(g, va) : Confined(g, t.h)
         /\ g.mode # User => \A t \in Translate(g, va) : t.ok => t.h = g
  <1>1. Confined(g, g) BY ConfinedSelf
  <1>2. \A t \in Sv39Outcomes(g) : Confined(g, t.h) /\ (t.ok => t.h = g)
    <2> DEFINE fault(s) == [h |-> RaiseException(s, INSTRUCTION_ACCESS_FAULT),
                            ok |-> FALSE, pa |-> 0]
    <2>1. \A s \in HartState : Confined(s, fault(s).h) /\ fault(s).ok = FALSE
      BY RaiseExceptionConfined
    <2>2. \A p : BusRead(g, p, 8) \in HartState /\ Confined(g, BusRead(g, p, 8))
      BY BusReadType, BusReadConfined
    <2> HIDE DEF fault
    <2>3. \A p : Confined(g, fault(BusRead(g, p, 8)).h)
                  /\ fault(BusRead(g, p, 8)).ok = FALSE
      BY <2>1, <2>2, ConfinedChain
    <2>4. Sv39Outcomes(g) = {[h |-> g, ok |-> TRUE, pa |-> p] : p \in Addr}
                              \cup {fault(g)}
                              \cup {fault(BusRead(g, p, 8)) : p \in Addr}
      BY DEF Sv39Outcomes, fault
    <2> QED BY <1>1, <2>1, <2>3, <2>4
  <1>3. \A x \in CsrError(g) : Confined(g, x)
    BY IllegalConfined
  <1>4. \A t \in Translate(g, va) : Confined(g, t.h)
    BY <1>1, <1>2, <1>3 DEF Translate
  <1>5. ASSUME g.mode # User PROVE CanRead(g, \h180)
    BY <1>5, FieldTypes DEF CanRead, PrivRequired, Modes, User, Readable, Writable
  <1>6. ASSUME g.mode # User, NEW t \in Translate(g, va), t.ok PROVE t.h = g
    BY <1>2, <1>5, <1>6 DEF Translate
  <1> QED BY <1>4, <1>6

Whole == {"half", "word"}

LEMMA SecondHalfConfined ==
  ASSUME NEW g \in HartState, NEW before, NEW pa
  PROVE  /\ Confined(g, SecondHalf(g, before, pa).h)
         /\ SecondHalf(g, before, pa).form \in Whole => SecondHalf(g, before, pa).h = g
  <1>1. Confined(g, g) BY ConfinedSelf
  <1>2. Confined(g, RaiseException(g, LOAD_ACCESS_FAULT)) BY RaiseExceptionConfined
  <1> QED BY <1>1, <1>2 DEF SecondHalf, Fetched, Whole

LEMMA WideFetchConfined ==
  ASSUME NEW g \in HartState, NEW pa \in Addr
  PROVE  \A f \in WideFetch(g, pa) :
            /\ Confined(g, f.h)
            /\ g.mode # User /\ f.form \in Whole => f.h = g
  <1>1. g.pc \in Addr BY FieldTypes
  <1>2. \A t \in Translate(g, Wrap(g.pc + 2)) : t.h \in HartState
    BY <1>1, NextHalf, TranslateType DEF Translations
  <1>3. ASSUME NEW t \in Translate(g, Wrap(g.pc + 2)),
               NEW f, f = IF t.ok THEN SecondHalf(t.h, g.pc, t.pa)
                                  ELSE Fetched(t.h, g.pc, 0, "failed")
        PROVE  /\ Confined(g, f.h)
               /\ g.mode # User /\ f.form \in Whole => f.h = g
    <2>1. Confined(g, t.h) /\ (g.mode # User /\ t.ok => t.h = g)
      BY TranslateConfined
    <2>2. t.h \in HartState BY <1>2
    <2>3. CASE t.ok
      <3>1. f = SecondHalf(t.h, g.pc, t.pa) BY <1>3, <2>3
      <3>2. Confined(t.h, f.h) /\ (f.form \in Whole => f.h = t.h)
        BY <2>2, <3>1, SecondHalfConfined
      <3>3. Confined(g, f.h) BY <2>1, <3>2, ConfinedChain
      <3> QED BY <2>1, <2>3, <3>2, <3>3
    <2>4. CASE ~t.ok
      BY <1>3, <2>1, <2>4 DEF Fetched, Whole
    <2> QED BY <2>3, <2>4
  <1>4. /\ Confined(g, SecondHalf(g, g.pc, Wrap(pa + 2)).h)
        /\ SecondHalf(g, g.pc, Wrap(pa + 2)).form \in Whole
              => SecondHalf(g, g.pc, Wrap(pa + 2)).h = g
    BY SecondHalfConfined
  <1> QED BY <1>3, <1>4 DEF WideFetch

LEMMA FetchAtConfined ==
  ASSUME NEW g \in HartState, NEW pa \in Addr
  PROVE  \A f \in FetchAt(g, pa) :
            /\ Confined(g, f.h)
            /\ g.mode # User /\ f.form \in Whole => f.h = g
  <1>1. Confined(g, g) BY ConfinedSelf
  <1>2. Confined(g, RaiseException(g, LOAD_ACCESS_FAULT)) BY RaiseExceptionConfined
  <1>3. CASE ReadOk(g, pa, 2)
    <2>1. FetchAt(g, pa) = {Fetched(g, g.pc, 2, "half")} \cup WideFetch(g, pa)
      BY <1>3 DEF FetchAt
    <2> QED BY <1>1, <2>1, WideFetchConfined DEF Fetched
  <1>4. CASE ~ReadOk(g, pa, 2)
    BY <1>2, <1>4 DEF FetchAt, Fetched, Whole
  <1> QED BY <1>3, <1>4

LEMMA FetchConfined ==
  ASSUME NEW g \in HartState
  PROVE  \A f \in Fetch(g) :
            /\ Confined(g, f.h)
            /\ g.mode # User /\ f.form \in Whole => f.h = g
  <1>1. g.pc \in Addr BY FieldTypes
  <1>2. \A t \in Translate(g, g.pc) : t.h \in HartState /\ t.pa \in Addr
    BY <1>1, TranslateType DEF Translations
  <1>3. ASSUME NEW t \in Translate(g, g.pc),
               NEW f \in IF t.ok THEN FetchAt(t.h, t.pa)
                                 ELSE {Fetched(t.h, g.pc, 0, "failed")}
        PROVE  /\ Confined(g, f.h)
               /\ g.mode # User /\ f.form \in Whole => f.h = g
    <2>1. Confined(g, t.h) /\ (g.mode # User /\ t.ok => t.h = g)
      BY TranslateConfined
    <2>2. t.h \in HartState /\ t.pa \in Addr BY <1>2
    <2>3. CASE t.ok
      <3>1. f \in FetchAt(t.h, t.pa) BY <2>3
      <3>2. /\ Confined(t.h, f.h)
            /\ t.h.mode # User /\ f.form \in Whole => f.h = t.h
        BY <2>2, <3>1, FetchAtConfined
      <3>3. Confined(g, f.h) BY <2>1, <3>2, ConfinedChain
      <3> QED BY <2>1, <2>3, <3>2, <3>3
    <2>4. CASE ~t.ok
      <3>1. f = Fetched(t.h, g.pc, 0, "failed") BY <2>4
      <3> QED BY <2>1, <3>1 DEF Fetched, Whole
    <2> QED BY <2>3, <2>4
  <1> QED BY <1>3 DEF Fetch

-----------------------------------------------------------------------------
(* CSR instructions and returns below machine mode.                        *)

MachineCsrs == {\h300, \h302, \h303, \h304, \h305, \h341, \h344} \cup PmpCsrs

LEMMA MachineCsrPrivilege ==
  ASSUME NEW a \in MachineCsrs
  PROVE  PrivRequired(a) = 3
  BY DEF MachineCsrs, PmpCsrs, PrivRequired

\* A register below the machine's is written through its view.
LEMMA ViewWriteConfined ==
  ASSUME NEW g \in HartState, NEW a, NEW v, a \notin MachineCsrs, g.mode # Machine
  PROVE  Confined(g, WriteCSRRaw(g, a, v))
  <1>1. CASE a \in {\h100, \h120}
    <2>1. WriteCSRRaw(g, a, v) = [g EXCEPT !.mstatus = Masked(g.mstatus, v, SSTATUS_MASK)]
      BY <1>1, CsrWrites
    <2>2. Masked(g.mstatus, v, SSTATUS_MASK) \ SSTATUS_MASK = g.mstatus \ SSTATUS_MASK
      BY DEF Masked
    <2> QED BY <2>1, <2>2 DEF Confined, SameConfig, SameContext, HartState
  <1>2. CASE a = \h104
    <2>1. WriteCSRRaw(g, a, v) = [g EXCEPT !.mie = Masked(g.mie, v, g.mideleg)]
      BY <1>2, CsrWrites
    <2>2. Masked(g.mie, v, g.mideleg) \ g.mideleg = g.mie \ g.mideleg
      BY DEF Masked
    <2> QED BY <2>1, <2>2 DEF Confined, SameConfig, SameContext, HartState
  <1>3. CASE a = \h144
    <2>1. WriteCSRRaw(g, a, v) = [g EXCEPT !.mip = Masked(g.mip, v, g.mideleg)]
      BY <1>3, CsrWrites
    <2>2. Masked(g.mip, v, g.mideleg) \ g.mideleg = g.mip \ g.mideleg
      BY DEF Masked
    <2> QED BY <2>1, <2>2 DEF Confined, SameConfig, SameContext, HartState
  <1>4. CASE a = \h105
    <2>1. WriteCSRRaw(g, a, v) = [g EXCEPT !.stvec = v] BY <1>4, CsrWrites
    <2> QED BY <2>1, UnprotectedFields
  <1>5. CASE a = \h141
    <2>1. WriteCSRRaw(g, a, v) = [g EXCEPT !.sepc = v] BY <1>5, CsrWrites
    <2> QED BY <2>1, UnprotectedFields
  <1>6. CASE a = \h180
    <2>1. WriteCSRRaw(g, a, v) = [g EXCEPT !.satp = v] BY <1>6, CsrWrites
    <2> QED BY <2>1, UnprotectedFields
  <1>7. CASE a \notin BitCsrNumbers /\ a \notin WordCsrNumbers /\ a \notin PmpCsrs
    BY <1>7, CsrWriteNone, ConfinedSelf
  <1> QED
    BY <1>1, <1>2, <1>3, <1>4, <1>5, <1>6, <1>7
    DEF MachineCsrs, BitCsrNumbers, WordCsrNumbers

LEMMA LowerWriteConfined ==
  ASSUME NEW g \in HartState, NEW a, NEW v, g.mode # Machine
  PROVE  \A k \in WriteCSR(g, a, v) : Confined(g, k)
  <1>1. CASE CanWrite(g, a)
    <2>1. g.mode >= PrivRequired(a) BY <1>1 DEF CanWrite
    <2>2. g.mode < 3 BY FieldTypes DEF Modes, Machine
    <2>3. a \notin MachineCsrs BY <2>1, <2>2, MachineCsrPrivilege, FieldTypes DEF Modes
    <2>4. WriteCSR(g, a, v) = {WriteCSRRaw(g, a, v)} BY <1>1 DEF WriteCSR
    <2> QED BY <2>3, <2>4, ViewWriteConfined
  <1> QED BY <1>1, CsrErrorConfined

LEMMA LowerCsrConfined ==
  ASSUME NEW g \in HartState, NEW a, NEW op, NEW rd, NEW src, NEW v, g.mode # Machine
  PROVE  \A r \in ExecCsr(g, a, op, rd, src, v) : Confined(g, r.h)
  <1> SUFFICES ASSUME NEW r \in ExecCsr(g, a, op, rd, src, v)
               PROVE  Confined(g, r.h)
    OBVIOUS
  <1>1. PICK k \in (IF CsrReads(op, rd) THEN ReadCSR(g, a) ELSE {g}) :
          r \in IF CsrReads(op, rd) /\ k.trap_pending
                THEN {[h |-> k, done |-> FALSE]}
                ELSE IF CsrWritesBack(op, src)
                THEN {[h |-> w, done |-> CanWrite(k, a)] :
                        w \in WriteCSR(k, a, CsrNewValue(k, a, op, v))}
                ELSE {[h |-> k, done |-> TRUE]}
    BY DEF ExecCsr
  <1>2. k \in HartState /\ Confined(g, k)
    BY <1>1, CsrAccessTypes, IllegalConfined, ConfinedSelf DEF ReadCSR
  <1>3. CASE r = [h |-> k, done |-> FALSE] \/ r = [h |-> k, done |-> TRUE]
    BY <1>2, <1>3
  <1>4. ASSUME ~(CsrReads(op, rd) /\ k.trap_pending),
               NEW w \in WriteCSR(k, a, CsrNewValue(k, a, op, v)),
               r = [h |-> w, done |-> CanWrite(k, a)]
        PROVE  Confined(g, r.h)
    \* the write runs only when the read did not trap
    <2>1. k.mode = g.mode
      <3>1. CASE k = g BY <3>1
      <3>2. CASE k # g
        <4>1. CsrReads(op, rd) /\ k \in CsrError(g)
          BY <1>1, <3>2 DEF ReadCSR
        <4>2. ~Hosted BY <1>4, <4>1, IllegalConfined
        <4>3. k = [g EXCEPT !.alive = FALSE] BY <4>1, <4>2 DEF CsrError
        <4> QED BY <4>3 DEF HartState
      <3> QED BY <3>1, <3>2
    <2>2. Confined(k, w) BY <1>2, <2>1, LowerWriteConfined
    <2>3. Confined(g, w) BY <1>2, <2>2, ConfinedChain
    <2> QED BY <1>4, <2>3
  <1> QED BY <1>1, <1>3, <1>4

\* CSR 0, which a CSR instruction with an unread second half names, is none.
LEMMA LowCsrConfined ==
  ASSUME NEW g \in HartState, NEW op, NEW rd, NEW src
  PROVE  \A r \in ExecCsr(g, 0, op, rd, src, 0) : Confined(g, r.h)
  <1>1. \A k : ~CanRead(k, 0) /\ ~CanWrite(k, 0)
    BY DEF CanRead, CanWrite, Readable, ReadableOnly, Writable
  <1> SUFFICES ASSUME NEW r \in ExecCsr(g, 0, op, rd, src, 0)
               PROVE  Confined(g, r.h)
    OBVIOUS
  <1>2. PICK k \in (IF CsrReads(op, rd) THEN ReadCSR(g, 0) ELSE {g}) :
          r \in IF CsrReads(op, rd) /\ k.trap_pending
                THEN {[h |-> k, done |-> FALSE]}
                ELSE IF CsrWritesBack(op, src)
                THEN {[h |-> w, done |-> CanWrite(k, 0)] :
                        w \in WriteCSR(k, 0, CsrNewValue(k, 0, op, 0))}
                ELSE {[h |-> k, done |-> TRUE]}
    BY DEF ExecCsr
  <1>3. k \in HartState /\ Confined(g, k)
    BY <1>2, CsrAccessTypes, IllegalConfined, ConfinedSelf DEF ReadCSR
  <1>4. \A w \in WriteCSR(k, 0, CsrNewValue(k, 0, op, 0)) : Confined(k, w)
    BY <1>1, <1>3, CsrErrorConfined
  <1>5. \A w \in WriteCSR(k, 0, CsrNewValue(k, 0, op, 0)) : Confined(g, w)
    BY <1>3, <1>4, ConfinedChain
  <1> QED BY <1>2, <1>3, <1>5

\* sret restores the supervisor's half of mstatus.
LEMMA SretConfined ==
  ASSUME NEW g \in HartState, g.mode # Machine
  PROVE  Confined(g, ExecSret(g))
  <1>1. CASE g.mode < Supervisor
    BY <1>1, IllegalConfined DEF ExecSret
  <1>2. CASE ~(g.mode < Supervisor)
    <2>1. SretStatus(g.mstatus) \ SSTATUS_MASK = g.mstatus \ SSTATUS_MASK
      BY DEF SretStatus, SSTATUS_MASK, SIE, SPIE, SPP
    <2>2. SretTaken(g).mstatus = SretStatus(g.mstatus)
      BY DEF SretTaken, HartState
    <2>3. /\ SretTaken(g).medeleg = g.medeleg /\ SretTaken(g).mideleg = g.mideleg
          /\ SretTaken(g).mie = g.mie /\ SretTaken(g).mip = g.mip
          /\ SretTaken(g).mtvec = g.mtvec /\ SretTaken(g).mepc = g.mepc
          /\ SretTaken(g).pmp = g.pmp
      BY DEF SretTaken, HartState
    <2>4. Confined(g, SretTaken(g))
      BY <2>1, <2>2, <2>3 DEF Confined, SameConfig, SameContext
    <2> QED BY <1>2, <2>4 DEF ExecSret
  <1> QED BY <1>1, <1>2

LEMMA MretConfined ==
  ASSUME NEW g \in HartState, g.mode # Machine
  PROVE  \A k \in ExecMret(g) : Confined(g, k)
  <1>1. g.mode < Machine BY FieldTypes DEF Modes, Machine
  <1> QED BY <1>1, IllegalConfined DEF ExecMret

-----------------------------------------------------------------------------
(* Whole steps.                                                            *)

LEMMA StartStepConfined ==
  ASSUME NEW g \in HartState
  PROVE  /\ StartStep(g) \in HartState
         /\ Confined(g, StartStep(g))
         /\ StartStep(g).mode = g.mode
  <1>1. 0 \in 0 .. 2 OBVIOUS
  <1>2. StartStep(g) \in HartState BY <1>1, UpdateTypes DEF StartStep
  <1>3. Confined(g, StartStep(g)) BY UnprotectedFields DEF StartStep
  <1>4. StartStep(g).mode = g.mode BY DEF StartStep, HartState
  <1> QED BY <1>2, <1>3, <1>4

LEMMA FetchesConfined ==
  ASSUME h \in HartState, NEW forms, NEW f \in Fetches(forms)
  PROVE  /\ Confined(h, f.h)
         /\ f.form \in forms
         /\ h.mode # User /\ f.form \in Whole => f.h = StartStep(h)
  <1>2. /\ StartStep(h) \in HartState /\ Confined(h, StartStep(h))
        /\ StartStep(h).mode = h.mode
    BY StartStepConfined
  <1>3. f \in Fetch(StartStep(h)) /\ f.form \in forms BY DEF Fetches
  <1>4. /\ Confined(StartStep(h), f.h)
        /\ h.mode # User /\ f.form \in Whole => f.h = StartStep(h)
    BY <1>2, <1>3, FetchConfined
  <1>5. Confined(h, f.h) BY <1>2, <1>4, ConfinedChain
  <1> QED BY <1>3, <1>4, <1>5

LEMMA RetireConfined ==
  ASSUME NEW g \in HartState, NEW before, NEW len
  PROVE  Confined(g, Retire(g, before, len))
  BY DEF Retire, Confined, SameConfig, SameContext, HartState

LEMMA FinishConfined ==
  ASSUME NEW f, NEW g \in HartState, NEW kind,
         Confined(h, f.h), Confined(f.h, g), Finish(f, g, kind)
  PROVE  Confined(h, h')
  <1>1. Confined(g, h') BY RetireConfined DEF Finish
  <1>2. Confined(h, g) BY ConfinedChain
  <1> QED BY <1>1, <1>2, ConfinedChain

LEMMA FetchedConfined ==
  ASSUME h \in HartState, NEW forms, NEW f \in Fetches(forms)
  PROVE  /\ f.h \in HartState
         /\ Confined(h, f.h)
         /\ forms = {"word"} /\ h.mode # User => f.h.mode = h.mode
  <1>1. f.h \in HartState BY FetchedHart
  <1>2. Confined(h, f.h) BY FetchesConfined
  <1>3. ASSUME forms = {"word"}, h.mode # User PROVE f.h.mode = h.mode
    <2>1. f.form \in Whole BY <1>3, FetchesConfined DEF Whole
    <2>2. f.h = StartStep(h) BY <1>3, <2>1, FetchesConfined
    <2> QED BY <2>2, StartStepConfined
  <1> QED BY <1>1, <1>2, <1>3

\* The steps that write no CSR and return from no trap.
LEMMA OrdinaryConfined ==
  ASSUME h \in HartState,
         \/ FetchFails \/ Illegal \/ Plain \/ Jump \/ Load \/ Store \/ Amo
         \/ CsrLow \/ Ecall \/ EnvCall \/ EnvExit \/ Ebreak \/ BadSystem
  PROVE  Confined(h, h')
  <1>1. CASE FetchFails
    <2>1. PICK f \in Fetches({"failed"}) : h' = f.h
      BY <1>1 DEF FetchFails
    <2> QED BY <2>1, FetchedConfined
  <1>2. CASE Illegal
    <2>1. PICK f \in Fetches({"half", "word", "low", "none"}) :
              Finish(f, RaiseException(f.h, ILLEGAL_INSTRUCTION), "other")
      BY <1>2 DEF Illegal
    <2>2. f.h \in HartState /\ Confined(h, f.h) BY FetchedConfined
    <2>3. Confined(f.h, RaiseException(f.h, ILLEGAL_INSTRUCTION))
      BY <2>2, RaiseExceptionConfined
    <2>4. RaiseException(f.h, ILLEGAL_INSTRUCTION) \in HartState
      BY <2>2, RaiseExceptionType, ExceptionCodes
    <2> QED BY <2>1, <2>2, <2>3, <2>4, FinishConfined
  <1>3. CASE Plain
    <2>1. PICK f \in Fetches({"half", "word", "low"}) : Finish(f, f.h, "other")
      BY <1>3 DEF Plain
    <2>2. f.h \in HartState /\ Confined(h, f.h) BY FetchedConfined
    <2>3. Confined(f.h, f.h) BY ConfinedSelf
    <2> QED BY <2>1, <2>2, <2>3, FinishConfined
  <1>4. CASE Jump
    <2>1. PICK f \in Fetches({"half", "word", "low"}), t \in JumpTargets :
              Finish(f, [f.h EXCEPT !.pc = t], "other")
      BY <1>4 DEF Jump
    <2>2. f.h \in HartState /\ Confined(h, f.h) BY FetchedConfined
    <2>3. Confined(f.h, [f.h EXCEPT !.pc = t]) BY <2>2, UnprotectedFields
    <2>4. t \in Addr BY ProgramAssumption
    <2>5. [f.h EXCEPT !.pc = t] \in HartState BY <2>2, <2>4, UpdateTypes
    <2> QED BY <2>1, <2>2, <2>3, <2>5, FinishConfined
  <1>5. CASE Load
    <2>1. PICK f \in Fetches({"half", "word", "low"}), x \in Accesses :
              Finish(f, BusRead(f.h, x[1], x[2]), "other")
      BY <1>5 DEF Load
    <2>2. f.h \in HartState /\ Confined(h, f.h) BY FetchedConfined
    <2>3. Confined(f.h, BusRead(f.h, x[1], x[2])) BY <2>2, BusReadConfined
    <2>4. BusRead(f.h, x[1], x[2]) \in HartState BY <2>2, BusReadType
    <2> QED BY <2>1, <2>2, <2>3, <2>4, FinishConfined
  <1>6. CASE Store
    <2>1. PICK f \in Fetches({"half", "word", "low"}), x \in Accesses :
               \E g \in BusWrite(f.h, x[1], x[2]) : Finish(f, g, "other")
      BY <1>6 DEF Store
    <2>2. PICK g \in BusWrite(f.h, x[1], x[2]) : Finish(f, g, "other")
      BY <2>1
    <2>3. f.h \in HartState /\ Confined(h, f.h) BY FetchedConfined
    <2>4. g \in HartState BY <2>3, BusWriteType
    <2>5. Confined(f.h, g) BY <2>3, BusWriteConfined
    <2> QED BY <2>2, <2>3, <2>4, <2>5, FinishConfined
  <1>7. CASE Amo
    <2>1. PICK f \in Fetches({"word", "low"}), x \in Accesses :
               \E g \in BusWrite(BusRead(f.h, x[1], x[2]), x[1], x[2]) :
                  Finish(f, g, "other")
      BY <1>7 DEF Amo
    <2>2. PICK g \in BusWrite(BusRead(f.h, x[1], x[2]), x[1], x[2]) :
              Finish(f, g, "other")
      BY <2>1
    <2>3. f.h \in HartState /\ Confined(h, f.h) BY FetchedConfined
    <2>4. /\ BusRead(f.h, x[1], x[2]) \in HartState
          /\ Confined(f.h, BusRead(f.h, x[1], x[2]))
      BY <2>3, BusReadType, BusReadConfined
    <2>5. g \in HartState BY <2>4, BusWriteType
    <2>6. Confined(BusRead(f.h, x[1], x[2]), g) BY <2>4, BusWriteConfined
    <2>7. Confined(f.h, g) BY <2>4, <2>6, ConfinedChain
    <2> QED BY <2>2, <2>3, <2>5, <2>7, FinishConfined
  <1>8. CASE CsrLow
    <2>1. PICK f \in Fetches({"low"}), op \in {"rw", "rs", "rc"},
               rd \in BOOLEAN, src \in BOOLEAN :
              \E r \in ExecCsr(f.h, 0, op, rd, src, 0) : Finish(f, r.h, "low")
      BY <1>8 DEF CsrLow
    <2>2. PICK r \in ExecCsr(f.h, 0, op, rd, src, 0) : Finish(f, r.h, "low")
      BY <2>1
    <2>3. f.h \in HartState /\ Confined(h, f.h) BY FetchedConfined
    <2>4. 0 \in CsrType(0) BY DEF CsrType, PmpCsrs
    <2>5. r.h \in HartState BY <2>3, <2>4, ExecCsrType
    <2>6. Confined(f.h, r.h) BY <2>3, LowCsrConfined
    <2> QED BY <2>2, <2>3, <2>5, <2>6, FinishConfined
  <1>9. CASE Ecall
    <2>1. PICK f \in Fetches({"word", "low"}) :
              Finish(f, RaiseException(f.h, ECallCause(f.h.mode)), "ecall")
      BY <1>9 DEF Ecall
    <2>2. f.h \in HartState /\ Confined(h, f.h) BY FetchedConfined
    <2>3. ECallCause(f.h.mode) \in Exceptions BY ExceptionCodes DEF ECallCause
    <2>4. RaiseException(f.h, ECallCause(f.h.mode)) \in HartState
      BY <2>2, <2>3, RaiseExceptionType
    <2>5. Confined(f.h, RaiseException(f.h, ECallCause(f.h.mode)))
      BY <2>2, RaiseExceptionConfined
    <2> QED BY <2>1, <2>2, <2>4, <2>5, FinishConfined
  <1>10. CASE EnvCall
    <2>1. PICK f \in Fetches({"word", "low"}) :
             \/ Finish(f, f.h, "ecall")
             \/ \E x \in Accesses :
                 \/ Finish(f, BusRead(f.h, x[1], 1), "ecall")
                 \/ Finish(f, BusRead(BusRead(f.h, x[1], 1), Wrap(x[1] + 1), 1), "ecall")
                 \/ \E g \in BusWrite(f.h, x[1], 1) :
                       \/ Finish(f, g, "ecall")
                       \/ \E k \in BusWrite(g, Wrap(x[1] + 1), 1) : Finish(f, k, "ecall")
      BY <1>10 DEF EnvCall
    <2>2. f.h \in HartState /\ Confined(h, f.h) BY FetchedConfined
    <2>3. Confined(f.h, f.h) BY ConfinedSelf
    <2>4. ASSUME NEW g \in HartState, Confined(f.h, g), Finish(f, g, "ecall")
          PROVE  Confined(h, h')
      BY <2>2, <2>4, FinishConfined
    <2>5. \A a : /\ BusRead(f.h, a, 1) \in HartState
                 /\ Confined(f.h, BusRead(f.h, a, 1))
      BY <2>2, BusReadType, BusReadConfined
    <2>6. \A a, b : /\ BusRead(BusRead(f.h, a, 1), b, 1) \in HartState
                    /\ Confined(f.h, BusRead(BusRead(f.h, a, 1), b, 1))
      BY <2>5, BusReadType, BusReadConfined, ConfinedChain
    <2>7. ASSUME NEW a, NEW g \in BusWrite(f.h, a, 1)
          PROVE  g \in HartState /\ Confined(f.h, g)
      BY <2>2, BusWriteType, BusWriteConfined
    <2>8. ASSUME NEW a, NEW g \in BusWrite(f.h, a, 1),
                 NEW b, NEW k \in BusWrite(g, b, 1)
          PROVE  k \in HartState /\ Confined(f.h, k)
      <3>1. g \in HartState /\ Confined(f.h, g) BY <2>7
      <3>2. k \in HartState /\ Confined(g, k)
        BY <3>1, BusWriteType, BusWriteConfined
      <3> QED BY <3>1, <3>2, ConfinedChain
    <2>9. CASE Finish(f, f.h, "ecall") BY <2>2, <2>3, <2>4, <2>9
    <2>10. ASSUME NEW x \in Accesses,
                  \/ Finish(f, BusRead(f.h, x[1], 1), "ecall")
                  \/ Finish(f, BusRead(BusRead(f.h, x[1], 1), Wrap(x[1] + 1), 1), "ecall")
           PROVE  Confined(h, h')
      BY <2>4, <2>5, <2>6, <2>10
    <2>11. ASSUME NEW x \in Accesses, NEW g \in BusWrite(f.h, x[1], 1),
                  \/ Finish(f, g, "ecall")
                  \/ \E k \in BusWrite(g, Wrap(x[1] + 1), 1) : Finish(f, k, "ecall")
           PROVE  Confined(h, h')
      BY <2>4, <2>7, <2>8, <2>11
    <2> QED BY <2>1, <2>9, <2>10, <2>11
  <1>11. CASE EnvExit
    <2>1. PICK f \in Fetches({"word", "low"}) : h' = [f.h EXCEPT !.alive = FALSE]
      BY <1>11 DEF EnvExit
    <2>2. f.h \in HartState /\ Confined(h, f.h) BY FetchedConfined
    <2>3. Confined(f.h, h') BY <2>1, <2>2, UnprotectedFields
    <2> QED BY <2>2, <2>3, ConfinedChain
  <1>12. CASE Ebreak
    <2>1. PICK f \in Fetches({"half", "word"}) :
              Finish(f, RaiseException(f.h, BREAKPOINT), "other")
      BY <1>12 DEF Ebreak
    <2>2. f.h \in HartState /\ Confined(h, f.h) BY FetchedConfined
    <2>3. Confined(f.h, RaiseException(f.h, BREAKPOINT))
      BY <2>2, RaiseExceptionConfined
    <2>4. RaiseException(f.h, BREAKPOINT) \in HartState
      BY <2>2, RaiseExceptionType, ExceptionCodes
    <2> QED BY <2>1, <2>2, <2>3, <2>4, FinishConfined
  <1>13. CASE BadSystem
    <2>1. PICK f \in Fetches({"word"}) : Finish(f, IllegalAtInst(f.h), "other")
      BY <1>13 DEF BadSystem
    <2>2. f.h \in HartState /\ Confined(h, f.h) BY FetchedConfined
    <2>3. IllegalAtInst(f.h) \in HartState BY <2>2, IllegalTypes
    <2>4. Confined(f.h, IllegalAtInst(f.h)) BY <2>2, IllegalConfined
    <2> QED BY <2>1, <2>2, <2>3, <2>4, FinishConfined
  <1> QED
    BY <1>1, <1>2, <1>3, <1>4, <1>5, <1>6, <1>7, <1>8, <1>9, <1>10, <1>11,
       <1>12, <1>13

\* CSR instructions and returns of a supervisor.
LEMMA SystemConfined ==
  ASSUME h \in HartState, h.mode = Supervisor, Csr \/ Mret \/ Sret
  PROVE  Confined(h, h')
  <1>1. h.mode # User /\ Supervisor # Machine BY DEF User, Supervisor, Machine
  <1>2. \A f \in Fetches({"word"}) :
           f.h \in HartState /\ Confined(h, f.h) /\ f.h.mode # Machine
    BY <1>1, FetchedConfined
  <1>3. CASE Csr
    <2>1. PICK f \in Fetches({"word"}), a \in CsrAddrs, op \in {"rw", "rs", "rc"},
               rd \in BOOLEAN, src \in BOOLEAN :
              \E v \in CsrValues[a] : \E r \in ExecCsr(f.h, a, op, rd, src, v) :
                  Finish(f, r.h, IF r.done THEN "csr_done" ELSE "csr_dropped")
      BY <1>3 DEF Csr
    <2>2. PICK v \in CsrValues[a] : \E r \in ExecCsr(f.h, a, op, rd, src, v) :
              Finish(f, r.h, IF r.done THEN "csr_done" ELSE "csr_dropped")
      BY <2>1
    <2>3. PICK r \in ExecCsr(f.h, a, op, rd, src, v) :
              Finish(f, r.h, IF r.done THEN "csr_done" ELSE "csr_dropped")
      BY <2>2
    <2>4. v \in CsrType(a) BY ProgramAssumption
    <2>5. r.h \in HartState BY <1>2, <2>4, ExecCsrType
    <2>6. Confined(f.h, r.h) BY <1>2, LowerCsrConfined
    <2> QED BY <1>2, <2>3, <2>5, <2>6, FinishConfined
  <1>4. CASE Mret
    <2>1. PICK f \in Fetches({"word"}) : \E g \in ExecMret(f.h) : Finish(f, g, "other")
      BY <1>4 DEF Mret
    <2>2. PICK g \in ExecMret(f.h) : Finish(f, g, "other")
      BY <2>1
    <2>3. g \in HartState BY <1>2, ExecReturnTypes
    <2>4. Confined(f.h, g) BY <1>2, MretConfined
    <2> QED BY <1>2, <2>2, <2>3, <2>4, FinishConfined
  <1>5. CASE Sret
    <2>1. PICK f \in Fetches({"word"}) : Finish(f, ExecSret(f.h), "other")
      BY <1>5 DEF Sret
    <2>2. ExecSret(f.h) \in HartState BY <1>2, ExecReturnTypes
    <2>3. Confined(f.h, ExecSret(f.h)) BY <1>2, SretConfined
    <2> QED BY <1>2, <2>1, <2>2, <2>3, FinishConfined
  <1> QED BY <1>3, <1>4, <1>5

\* Whatever the supervisor runs, the machine's configuration stays as it is,
\* and its trap context too unless the step traps into machine mode.
THEOREM SupervisorIsolated == Spec => SupervisorIsolation
  <1>1. TypeOK /\ [Next]_vars =>
          [ h.mode = Supervisor =>
              /\ MachineConfig(h') = MachineConfig(h)
              /\ h'.mode # Machine => MachineContext(h') = MachineContext(h) ]_vars
    <2> SUFFICES ASSUME TypeOK, Next, h.mode = Supervisor
                 PROVE  /\ MachineConfig(h') = MachineConfig(h)
                        /\ h'.mode # Machine => MachineContext(h') = MachineContext(h)
      OBVIOUS
    <2>1. h \in HartState BY DEF TypeOK
    <2>2. Confined(h, h')
      BY <2>1, OrdinaryConfined, SystemConfined DEF Next
    <2>3. SameConfig(h, h') /\ (h'.mode # Machine => SameContext(h, h'))
      BY <2>2 DEF Confined
    <2>4. MachineConfig(h') = MachineConfig(h)
      BY <2>3 DEF SameConfig, MachineConfig
    <2>5. SameContext(h, h') => MachineContext(h') = MachineContext(h)
      BY DEF SameContext, MachineContext
    <2> QED BY <2>3, <2>4, <2>5
  <1> QED BY <1>1, TypeCorrect, PTL DEF Spec, SupervisorIsolation

-----------------------------------------------------------------------------
(* The delegations the masks exclude, and the machine's interrupt lines.   *)

Ceiling(g) == ECALL_FROM_M_MODE \notin g.medeleg /\ g.mideleg \cap {3, 7} = {}

LEMMA CeilingKept ==
  ASSUME NEW g, NEW k, Ceiling(g), k.medeleg = g.medeleg, k.mideleg = g.mideleg
  PROVE  Ceiling(k)
  BY DEF Ceiling

LEMMA ConfinedCeiling ==
  ASSUME NEW g, NEW k, Confined(g, k), Ceiling(g)
  PROVE  Ceiling(k)
  BY CeilingKept DEF Confined, SameConfig

\* The registers that are not medeleg or mideleg leave both alone.
LEMMA OtherFieldsCeiling ==
  ASSUME NEW g \in HartState, NEW x, Ceiling(g)
  PROVE  /\ Ceiling([g EXCEPT !.mstatus = x]) /\ Ceiling([g EXCEPT !.mie = x])
         /\ Ceiling([g EXCEPT !.mip = x]) /\ Ceiling([g EXCEPT !.mtvec = x])
         /\ Ceiling([g EXCEPT !.stvec = x]) /\ Ceiling([g EXCEPT !.mepc = x])
         /\ Ceiling([g EXCEPT !.sepc = x]) /\ Ceiling([g EXCEPT !.satp = x])
         /\ Ceiling([g EXCEPT !.pmp = x])
  BY DEF Ceiling, HartState

LEMMA WriteCeiling ==
  ASSUME NEW g \in HartState, NEW a, NEW v, Ceiling(g)
  PROVE  Ceiling(WriteCSRRaw(g, a, v))
  <1>1. CASE a = \h302
    <2>1. WriteCSRRaw(g, a, v) = [g EXCEPT !.medeleg = MedelegValue(v)]
      BY <1>1, CsrWrites
    <2> QED BY <2>1 DEF Ceiling, MedelegValue, HartState
  <1>2. CASE a = \h303
    <2>1. WriteCSRRaw(g, a, v) = [g EXCEPT !.mideleg = MidelegValue(v)]
      BY <1>2, CsrWrites
    <2> QED BY <2>1 DEF Ceiling, MidelegValue, HartState
  <1>3. CASE a \in {\h100, \h120}
    <2>1. WriteCSRRaw(g, a, v) = [g EXCEPT !.mstatus = Masked(g.mstatus, v, SSTATUS_MASK)]
      BY <1>3, CsrWrites
    <2> QED BY <2>1, OtherFieldsCeiling
  <1>4. CASE a = \h300
    <2>1. WriteCSRRaw(g, a, v) = [g EXCEPT !.mstatus = v]
      BY <1>4, CsrWrites
    <2> QED BY <2>1, OtherFieldsCeiling
  <1>5. CASE a = \h304
    <2>1. WriteCSRRaw(g, a, v) = [g EXCEPT !.mie = v]
      BY <1>5, CsrWrites
    <2> QED BY <2>1, OtherFieldsCeiling
  <1>7. CASE a = \h104
    <2>1. WriteCSRRaw(g, a, v) = [g EXCEPT !.mie = Masked(g.mie, v, g.mideleg)]
      BY <1>7, CsrWrites
    <2> QED BY <2>1, OtherFieldsCeiling
  <1>8. CASE a = \h344
    <2>1. WriteCSRRaw(g, a, v) = [g EXCEPT !.mip = v]
      BY <1>8, CsrWrites
    <2> QED BY <2>1, OtherFieldsCeiling
  <1>9. CASE a = \h144
    <2>1. WriteCSRRaw(g, a, v) = [g EXCEPT !.mip = Masked(g.mip, v, g.mideleg)]
      BY <1>9, CsrWrites
    <2> QED BY <2>1, OtherFieldsCeiling
  <1>10. CASE a = \h305
    <2>1. WriteCSRRaw(g, a, v) = [g EXCEPT !.mtvec = v]
      BY <1>10, CsrWrites
    <2> QED BY <2>1, OtherFieldsCeiling
  <1>11. CASE a = \h105
    <2>1. WriteCSRRaw(g, a, v) = [g EXCEPT !.stvec = v]
      BY <1>11, CsrWrites
    <2> QED BY <2>1, OtherFieldsCeiling
  <1>12. CASE a = \h341
    <2>1. WriteCSRRaw(g, a, v) = [g EXCEPT !.mepc = v]
      BY <1>12, CsrWrites
    <2> QED BY <2>1, OtherFieldsCeiling
  <1>13. CASE a = \h141
    <2>1. WriteCSRRaw(g, a, v) = [g EXCEPT !.sepc = v]
      BY <1>13, CsrWrites
    <2> QED BY <2>1, OtherFieldsCeiling
  <1>14. CASE a = \h180
    <2>1. WriteCSRRaw(g, a, v) = [g EXCEPT !.satp = v]
      BY <1>14, CsrWrites
    <2> QED BY <2>1, OtherFieldsCeiling
  <1>15. CASE a \in PmpCsrs
    <2>1. WriteCSRRaw(g, a, v) = [g EXCEPT !.pmp = v]
      BY <1>15, PmpWrite
    <2> QED BY <2>1, OtherFieldsCeiling
  <1>6. CASE a \notin BitCsrNumbers /\ a \notin WordCsrNumbers /\ a \notin PmpCsrs
    <2>1. WriteCSRRaw(g, a, v) = g BY <1>6, CsrWriteNone
    <2> QED BY <2>1
  <1> QED
    BY <1>1, <1>2, <1>3, <1>4, <1>5, <1>6, <1>7, <1>8, <1>9, <1>10, <1>11,
       <1>12, <1>13, <1>14, <1>15 DEF BitCsrNumbers, WordCsrNumbers

LEMMA CsrCeiling ==
  ASSUME NEW g \in HartState, NEW a, NEW op, NEW rd, NEW src, NEW v, Ceiling(g)
  PROVE  \A r \in ExecCsr(g, a, op, rd, src, v) : Ceiling(r.h)
  <1> SUFFICES ASSUME NEW r \in ExecCsr(g, a, op, rd, src, v)
               PROVE  Ceiling(r.h)
    OBVIOUS
  <1>1. PICK k \in (IF CsrReads(op, rd) THEN ReadCSR(g, a) ELSE {g}) :
          r \in IF CsrReads(op, rd) /\ k.trap_pending
                THEN {[h |-> k, done |-> FALSE]}
                ELSE IF CsrWritesBack(op, src)
                THEN {[h |-> w, done |-> CanWrite(k, a)] :
                        w \in WriteCSR(k, a, CsrNewValue(k, a, op, v))}
                ELSE {[h |-> k, done |-> TRUE]}
    BY DEF ExecCsr
  <1>2. k \in HartState /\ Confined(g, k)
    BY <1>1, CsrAccessTypes, IllegalConfined, ConfinedSelf DEF ReadCSR
  <1>3. Ceiling(k) BY <1>2, ConfinedCeiling
  <1>4. ASSUME NEW w \in WriteCSR(k, a, CsrNewValue(k, a, op, v))
        PROVE  Ceiling(w)
    <2>1. CASE CanWrite(k, a)
      <3>1. w = WriteCSRRaw(k, a, CsrNewValue(k, a, op, v))
        BY <1>4, <2>1 DEF WriteCSR
      <3> QED BY <1>2, <1>3, <3>1, WriteCeiling
    <2>2. CASE ~CanWrite(k, a)
      <3>1. Confined(k, w) BY <1>2, <1>4, <2>2, CsrErrorConfined
      <3> QED BY <1>3, <3>1, ConfinedCeiling
    <2> QED BY <2>1, <2>2
  <1> QED BY <1>1, <1>3, <1>4

LEMMA ReturnCeiling ==
  ASSUME NEW g \in HartState, Ceiling(g)
  PROVE  /\ \A k \in ExecMret(g) : Ceiling(k)
         /\ Ceiling(ExecSret(g))
  <1>1. Ceiling(MretTaken(g))
    <2>1. MretTaken(g).medeleg = g.medeleg /\ MretTaken(g).mideleg = g.mideleg
      BY DEF MretTaken, HartState
    <2> QED BY <2>1, CeilingKept
  <1>2. Ceiling(SretTaken(g))
    <2>1. SretTaken(g).medeleg = g.medeleg /\ SretTaken(g).mideleg = g.mideleg
      BY DEF SretTaken, HartState
    <2> QED BY <2>1, CeilingKept
  <1>3. (\A k \in IllegalAtPC(g) : Ceiling(k)) /\ Ceiling(IllegalAtInst(g))
    BY IllegalConfined, ConfinedCeiling
  <1> QED BY <1>1, <1>2, <1>3 DEF ExecMret, ExecSret

LEMMA FinishCeiling ==
  ASSUME NEW f, NEW g \in HartState, NEW kind, Finish(f, g, kind), Ceiling(g)
  PROVE  Ceiling(h')
  <1>1. Confined(g, h') BY RetireConfined DEF Finish
  <1> QED BY <1>1, ConfinedCeiling

LEMMA NextCeiling ==
  TypeOK /\ Ceiling(h) /\ [Next]_vars => Ceiling(h')
  <1> SUFFICES ASSUME TypeOK, Ceiling(h), [Next]_vars PROVE Ceiling(h')
    OBVIOUS
  <1>1. h \in HartState BY DEF TypeOK
  <1>2. ASSUME NEW f \in Fetches({"word"})
        PROVE  f.h \in HartState /\ Ceiling(f.h)
    BY <1>1, FetchedConfined, ConfinedCeiling
  <1>3. CASE Csr
    <2>1. PICK f \in Fetches({"word"}), a \in CsrAddrs, op \in {"rw", "rs", "rc"},
               rd \in BOOLEAN, src \in BOOLEAN :
              \E v \in CsrValues[a] : \E r \in ExecCsr(f.h, a, op, rd, src, v) :
                  Finish(f, r.h, IF r.done THEN "csr_done" ELSE "csr_dropped")
      BY <1>3 DEF Csr
    <2>2. PICK v \in CsrValues[a] : \E r \in ExecCsr(f.h, a, op, rd, src, v) :
              Finish(f, r.h, IF r.done THEN "csr_done" ELSE "csr_dropped")
      BY <2>1
    <2>3. PICK r \in ExecCsr(f.h, a, op, rd, src, v) :
              Finish(f, r.h, IF r.done THEN "csr_done" ELSE "csr_dropped")
      BY <2>2
    <2>4. v \in CsrType(a) BY ProgramAssumption
    <2>5. r.h \in HartState BY <1>2, <2>4, ExecCsrType
    <2>6. Ceiling(r.h) BY <1>2, CsrCeiling
    <2> QED BY <2>3, <2>5, <2>6, FinishCeiling
  <1>4. CASE Mret
    <2>1. PICK f \in Fetches({"word"}) : \E g \in ExecMret(f.h) : Finish(f, g, "other")
      BY <1>4 DEF Mret
    <2>2. PICK g \in ExecMret(f.h) : Finish(f, g, "other")
      BY <2>1
    <2>3. g \in HartState /\ Ceiling(g) BY <1>2, ExecReturnTypes, ReturnCeiling
    <2> QED BY <2>2, <2>3, FinishCeiling
  <1>5. CASE Sret
    <2>1. PICK f \in Fetches({"word"}) : Finish(f, ExecSret(f.h), "other")
      BY <1>5 DEF Sret
    <2>2. ExecSret(f.h) \in HartState /\ Ceiling(ExecSret(f.h))
      BY <1>2, ExecReturnTypes, ReturnCeiling
    <2> QED BY <2>1, <2>2, FinishCeiling
  <1>6. CASE UNCHANGED vars
    BY <1>6 DEF vars, Ceiling
  <1>7. CASE \/ FetchFails \/ Illegal \/ Plain \/ Jump \/ Load \/ Store \/ Amo
             \/ CsrLow \/ Ecall \/ EnvCall \/ EnvExit \/ Ebreak \/ BadSystem
    <2>1. Confined(h, h') BY <1>1, <1>7, OrdinaryConfined
    <2> QED BY <2>1, ConfinedCeiling
  <1> QED BY <1>3, <1>4, <1>5, <1>6, <1>7 DEF Next

\* The masks of medeleg and mideleg hold whatever the program writes to them
\* and whichever mode it runs in.
THEOREM DelegationBounded == Spec => []DelegationCeiling
  <1>1. Init => DelegationCeiling
    BY DEF Init, Boot, DelegationCeiling
  <1>2. TypeOK /\ DelegationCeiling /\ [Next]_vars => DelegationCeiling'
    BY NextCeiling DEF DelegationCeiling, Ceiling
  <1> QED BY <1>1, <1>2, TypeCorrect, PTL DEF Spec

\* The machine's timer and software interrupt bits are out of the
\* supervisor's reach: no delegation, and no step of it, opens them.
THEOREM MachineLinesKept == Spec => MachineLinesProtected
  <1>1. TypeOK /\ DelegationCeiling /\ [Next]_vars =>
          [ h.mode = Supervisor /\ h'.mode # Machine =>
              /\ h'.mie \cap {3, 7} = h.mie \cap {3, 7}
              /\ h'.mip \cap {3, 7} = h.mip \cap {3, 7} ]_vars
    <2> SUFFICES ASSUME TypeOK, DelegationCeiling, Next,
                        h.mode = Supervisor, h'.mode # Machine
                 PROVE  /\ h'.mie \cap {3, 7} = h.mie \cap {3, 7}
                        /\ h'.mip \cap {3, 7} = h.mip \cap {3, 7}
      OBVIOUS
    <2>1. h \in HartState BY DEF TypeOK
    <2>2. Confined(h, h')
      BY <2>1, OrdinaryConfined, SystemConfined DEF Next
    <2>3. /\ h'.mideleg = h.mideleg
          /\ h'.mie \ h'.mideleg = h.mie \ h.mideleg
          /\ h'.mip \ h'.mideleg = h.mip \ h.mideleg
      BY <2>2 DEF Confined, SameConfig, SameContext
    <2>4. h.mideleg \cap {3, 7} = {} BY DEF DelegationCeiling
    <2> QED BY <2>3, <2>4
  <1> QED
    BY <1>1, TypeCorrect, DelegationBounded, PTL DEF Spec, MachineLinesProtected

-----------------------------------------------------------------------------
(* A return undoes the trap it returns from.                               *)

\* MPP holds every mode, and SPP the two modes that can be delegated from.
LEMMA SupervisorReturn ==
  ASSUME NEW g \in HartState, NEW intr, NEW c, NEW t, Delegated(g, intr, c),
         t = EnterSupervisor(g, intr, c, g.pc)
  PROVE  /\ SretTaken(t).mode = g.mode
         /\ SretTaken(t).pc = g.pc
         /\ (SIE \in SretTaken(t).mstatus) <=> (SIE \in g.mstatus)
  <1>1. g.mode = User \/ g.mode = Supervisor
    BY FieldTypes DEF Delegated, Modes, User, Supervisor
  <1>2. t.mstatus = SupervisorEntryStatus(g) /\ t.sepc = g.pc
    BY EnterSupervisorFields
  <1>3. /\ (SPP \in t.mstatus) <=> (g.mode = Supervisor)
        /\ (SPIE \in t.mstatus) <=> (SIE \in g.mstatus)
    BY <1>2 DEF SupervisorEntryStatus, SSTATUS_MASK, SIE, SPIE, SPP
  <1>4. DOMAIN t = DOMAIN g
    BY DEF EnterSupervisor
  <1>5. /\ SretTaken(t).mode = IF SPP \in t.mstatus THEN Supervisor ELSE User
        /\ SretTaken(t).pc = t.sepc
        /\ SretTaken(t).mstatus = SretStatus(t.mstatus)
    BY <1>4 DEF SretTaken, HartState
  <1>6. (SIE \in SretStatus(t.mstatus)) <=> (SPIE \in t.mstatus)
    BY DEF SretStatus, SIE, SPIE, SPP
  <1> QED BY <1>1, <1>2, <1>3, <1>5, <1>6

LEMMA MachineReturn ==
  ASSUME NEW g \in HartState, NEW intr, NEW c, NEW t,
         t = EnterMachine(g, intr, c, g.pc)
  PROVE  /\ MretTaken(t).mode = g.mode
         /\ MretTaken(t).pc = g.pc
         /\ (MIE \in MretTaken(t).mstatus) <=> (MIE \in g.mstatus)
  <1>1. g.mode \in {0, 1, 2, 3} BY FieldTypes DEF Modes
  <1>2. t.mstatus = MachineEntryStatus(g) /\ t.mepc = g.pc
    BY EnterMachineFields
  <1>3. /\ (11 \in t.mstatus) <=> (g.mode \in {1, 3})
        /\ (12 \in t.mstatus) <=> (g.mode \in {2, 3})
        /\ (MPIE \in t.mstatus) <=> (MIE \in g.mstatus)
    BY <1>2 DEF MachineEntryStatus, MppBits, MPP, MIE, MPIE
  <1>4. MppMode(t.mstatus) = g.mode
    BY <1>1, <1>3 DEF MppMode
  <1>5. DOMAIN t = DOMAIN g
    BY DEF EnterMachine
  <1>6. /\ MretTaken(t).mode = MppMode(t.mstatus)
        /\ MretTaken(t).pc = t.mepc
        /\ MretTaken(t).mstatus = MretStatus(t.mstatus)
    BY <1>5 DEF MretTaken, HartState
  <1>7. (MIE \in MretStatus(t.mstatus)) <=> (MPIE \in t.mstatus)
    BY DEF MretStatus, MPP, MIE, MPIE
  <1> QED BY <1>2, <1>3, <1>4, <1>6, <1>7

\* What the return from the mode of t leaves of the hart g it interrupted.
Restored(g, t) ==
    LET ie == IF t.mode = Machine THEN MIE ELSE SIE
        r == IF t.mode = Machine THEN MretTaken(t) ELSE SretTaken(t)
    IN  /\ r.mode = g.mode
        /\ r.pc = g.pc
        /\ (ie \in r.mstatus) <=> (ie \in g.mstatus)

LEMMA TrapReturn ==
  ASSUME NEW g \in HartState, NEW intr, NEW c
  PROVE  Restored(g, RaiseTrap(g, intr, c, g.pc))
  <1> SUFFICES ASSUME NEW t, t = RaiseTrap(g, intr, c, g.pc) PROVE Restored(g, t)
    OBVIOUS
  <1>1. CASE Delegated(g, intr, c)
    <2>1. t = EnterSupervisor(g, intr, c, g.pc)
      BY <1>1 DEF RaiseTrap
    <2>2. t.mode # Machine
      BY <2>1, EnterSupervisorFields DEF Supervisor, Machine
    <2>3. /\ SretTaken(t).mode = g.mode
          /\ SretTaken(t).pc = g.pc
          /\ (SIE \in SretTaken(t).mstatus) <=> (SIE \in g.mstatus)
      BY <1>1, <2>1, SupervisorReturn
    <2> QED BY <2>2, <2>3 DEF Restored
  <1>2. CASE ~Delegated(g, intr, c)
    <2>1. t = EnterMachine(g, intr, c, g.pc)
      BY <1>2 DEF RaiseTrap
    <2>2. t.mode = Machine BY <2>1, EnterMachineFields
    <2>3. /\ MretTaken(t).mode = g.mode
          /\ MretTaken(t).pc = g.pc
          /\ (MIE \in MretTaken(t).mstatus) <=> (MIE \in g.mstatus)
      BY <2>1, MachineReturn
    <2> QED BY <2>2, <2>3 DEF Restored
  <1> QED BY <1>1, <1>2

\* mret and sret find the mode, the pc and the interrupt enable where
\* raiseTrap put them, in every reachable state and for every exception.
THEOREM TrapReturnExact == Spec => []TrapReturnRoundTrip
  <1>1. TypeOK => TrapReturnRoundTrip
    <2>1. ASSUME h \in HartState, NEW c
          PROVE  Restored(h, RaiseException(h, c))
      BY <2>1, TrapReturn, Zenon DEF RaiseException
    <2> QED BY <2>1, Zenon DEF TypeOK, TrapReturnRoundTrip, Restored
  <1> QED BY <1>1, TypeCorrect, PTL

-----------------------------------------------------------------------------
(* The traps of a step.                                                    *)

\* k differs from g in nothing a trap saves or goes by.
Same(g, k) ==
    /\ k.mode = g.mode /\ k.pc = g.pc /\ k.mstatus = g.mstatus
    /\ k.mtvec = g.mtvec /\ k.stvec = g.stvec
    /\ k.mepc = g.mepc /\ k.sepc = g.sepc

\* k is g after one exception at its program counter.
Trapped(g, k) ==
    \/ /\ k.mode = Machine /\ k.mepc = g.pc /\ k.pc = g.mtvec.base
       /\ k.mstatus = MachineEntryStatus(g)
    \/ /\ g.mode <= Supervisor
       /\ k.mode = Supervisor /\ k.sepc = g.pc /\ k.pc = g.stvec.base
       /\ k.mstatus = SupervisorEntryStatus(g)

\* The relation every part of a step but a jump, a CSR write and a return
\* keeps: no mode is left for a lower one, satp stays, and the first trap is
\* taken from the hart as it was.
Orderly(g, k) ==
    /\ k.mode >= g.mode
    /\ k.satp = g.satp
    /\ \/ k.traps = g.traps /\ Same(g, k)
       \/ g.traps = 0 /\ k.traps = 1 /\ Trapped(g, k)
       \/ k.traps = 2

LEMMA OrderlySelf == ASSUME NEW g \in HartState PROVE Orderly(g, g)
  BY FieldTypes DEF Orderly, Same, Modes

LEMMA SameTrapped ==
  ASSUME NEW g, NEW k, NEW l
  PROVE  /\ Same(g, k) /\ Same(k, l) => Same(g, l)
         /\ Same(g, k) /\ Trapped(k, l) => Trapped(g, l)
         /\ Trapped(g, k) /\ Same(k, l) => Trapped(g, l)
  BY DEF Same, Trapped, MachineEntryStatus, SupervisorEntryStatus

LEMMA OrderlyChain ==
  ASSUME NEW g \in HartState, NEW k \in HartState, NEW l \in HartState,
         Orderly(g, k), Orderly(k, l)
  PROVE  Orderly(g, l)
  <1>1. g.mode \in Int /\ k.mode \in Int /\ l.mode \in Int
    BY FieldTypes DEF Modes
  <1> QED BY <1>1, SameTrapped DEF Orderly

LEMMA VectorBase ==
  ASSUME NEW tvec \in TrapVec, NEW code
  PROVE  Vector(tvec, FALSE, code) = tvec.base
  <1>1. tvec.base \in Addr BY DEF TrapVec
  <1>2. tvec.base \in Int /\ 0 <= tvec.base /\ tvec.base < AddrSpace
    BY <1>1, AddressAssumption DEF Addr
  <1>3. tvec.base % AddrSpace = tvec.base
    BY <1>2, AddressAssumption
  <1>4. Vector(tvec, FALSE, code) = Wrap(tvec.base + 0)
    BY Zenon DEF Vector
  <1>5. tvec.base + 0 = tvec.base BY <1>2
  <1>6. Wrap(tvec.base) = tvec.base BY <1>3 DEF Wrap
  <1> QED BY <1>4, <1>5, <1>6, Zenon

LEMMA CountCases ==
  ASSUME NEW n \in 0 .. 2
  PROVE  /\ Count(n) > 0
         /\ (n = 0 /\ Count(n) = 1) \/ Count(n) = 2
         /\ n > 0 => Count(n) = 2
  BY DEF Count

\* The first exception is orderly at the program counter, a later one anywhere.
LEMMA RaiseTrapOrderly ==
  ASSUME NEW g \in HartState, NEW code, NEW epc, epc = g.pc \/ g.traps > 0
  PROVE  /\ Orderly(g, RaiseTrap(g, FALSE, code, epc))
         /\ RaiseTrap(g, FALSE, code, epc).traps > 0
  <1> SUFFICES ASSUME NEW k, k = RaiseTrap(g, FALSE, code, epc)
               PROVE  Orderly(g, k) /\ k.traps > 0
    OBVIOUS
  <1>1. g.mode \in 0 .. 3 /\ g.traps \in 0 .. 2 BY FieldTypes DEF Modes
  <1>2. /\ Vector(g.stvec, FALSE, code) = g.stvec.base
        /\ Vector(g.mtvec, FALSE, code) = g.mtvec.base
    BY FieldTypes, VectorBase
  <1>3. k.traps = Count(g.traps) /\ k.satp = g.satp
    BY DEF RaiseTrap, EnterSupervisor, EnterMachine, HartState
  <1>4. /\ k.traps > 0
        /\ (g.traps = 0 /\ k.traps = 1) \/ k.traps = 2
        /\ g.traps > 0 => k.traps = 2
    BY <1>1, <1>3, CountCases
  <1>5. ASSUME k.mode >= g.mode, epc = g.pc => Trapped(g, k)
        PROVE  Orderly(g, k)
    BY <1>3, <1>4, <1>5 DEF Orderly
  <1>6. CASE Delegated(g, FALSE, code)
    <2>1. k = EnterSupervisor(g, FALSE, code, epc)
      BY <1>6 DEF RaiseTrap
    <2>2. /\ k.mode = Supervisor /\ k.sepc = epc
          /\ k.mstatus = SupervisorEntryStatus(g)
          /\ k.pc = Vector(g.stvec, FALSE, code)
      BY <2>1 DEF EnterSupervisor, HartState
    <2>3. g.mode <= Supervisor BY <1>6 DEF Delegated
    <2>4. k.mode = 1 /\ g.mode <= 1 BY <2>2, <2>3 DEF Supervisor
    <2>5. k.mode >= g.mode BY <1>1, <2>4
    <2>6. epc = g.pc => Trapped(g, k)
      BY <1>2, <2>2, <2>3, Zenon DEF Trapped
    <2> QED BY <1>4, <1>5, <2>5, <2>6
  <1>7. CASE ~Delegated(g, FALSE, code)
    <2>1. k = EnterMachine(g, FALSE, code, epc)
      BY <1>7 DEF RaiseTrap
    <2>2. /\ k.mode = Machine /\ k.mepc = epc
          /\ k.mstatus = MachineEntryStatus(g)
          /\ k.pc = Vector(g.mtvec, FALSE, code)
      BY <2>1 DEF EnterMachine, HartState
    <2>3. k.mode = 3 BY <2>2 DEF Machine
    <2>4. k.mode >= g.mode
      <3>1. 3 >= g.mode BY <1>1
      <3> QED BY <2>3, <3>1
    <2>5. epc = g.pc => Trapped(g, k)
      BY <1>2, <2>2, Zenon DEF Trapped
    <2> QED BY <1>4, <1>5, <2>4, <2>5
  <1> QED BY <1>6, <1>7

LEMMA RaiseExceptionOrderly ==
  ASSUME NEW g \in HartState, NEW code
  PROVE  /\ Orderly(g, RaiseException(g, code))
         /\ RaiseException(g, code).traps > 0
  BY RaiseTrapOrderly DEF RaiseException

LEMMA BusReadOrderly ==
  ASSUME NEW g \in HartState, NEW a, NEW n
  PROVE  /\ Orderly(g, BusRead(g, a, n))
         /\ BusRead(g, a, n) = g \/ BusRead(g, a, n).traps > 0
  BY RaiseExceptionOrderly, OrderlySelf DEF BusRead

LEMMA IllegalOrderly ==
  ASSUME NEW g \in HartState
  PROVE  /\ \A k \in IllegalAtPC(g) : Orderly(g, k)
         /\ Orderly(g, IllegalAtInst(g))
         /\ \A k \in CsrError(g) : Orderly(g, k)
  <1> DEFINE r == BusRead(g, g.pc, 4)
  <1>1. /\ r \in HartState /\ Orderly(g, r)
        /\ r = g \/ r.traps > 0
    BY BusReadType, BusReadOrderly
  <1>2. /\ IllegalAtPC(g) \subseteq HartState /\ IllegalAtInst(g) \in HartState
    BY IllegalTypes
  <1>3. ASSUME NEW epc \in {g.pc, r.pc},
               RaiseTrap(r, FALSE, ILLEGAL_INSTRUCTION, epc) \in HartState
        PROVE  Orderly(g, RaiseTrap(r, FALSE, ILLEGAL_INSTRUCTION, epc))
    <2>1. epc = r.pc \/ r.traps > 0 BY <1>1
    <2>2. Orderly(r, RaiseTrap(r, FALSE, ILLEGAL_INSTRUCTION, epc))
      BY <1>1, <2>1, RaiseTrapOrderly
    <2> QED BY <1>1, <1>3, <2>2, OrderlyChain
  <1>4. \A k \in IllegalAtPC(g) : Orderly(g, k)
    BY <1>2, <1>3 DEF IllegalAtPC
  <1>5. Orderly(g, IllegalAtInst(g))
    BY <1>2, <1>3 DEF IllegalAtInst
  <1>6. Orderly(g, [g EXCEPT !.alive = FALSE])
    BY FieldTypes DEF Orderly, Same, HartState, Modes
  <1> QED BY <1>4, <1>5, <1>6 DEF CsrError

LEMMA CsrReadOrderly ==
  ASSUME NEW g \in HartState, NEW a
  PROVE  \A k \in ReadCSR(g, a) : k \in HartState /\ Orderly(g, k)
  BY CsrAccessTypes, IllegalOrderly, OrderlySelf DEF ReadCSR

LEMMA MipWriteOrderly ==
  ASSUME NEW g \in HartState, NEW v \in SUBSET Interrupts
  PROVE  \A k \in WriteCSR(g, \h344, v) : k \in HartState /\ Orderly(g, k)
  <1>1. v \in CsrType(\h344) BY CsrTypes
  <1>2. WriteCSR(g, \h344, v) \subseteq HartState BY <1>1, CsrAccessTypes
  <1>3. CASE CanWrite(g, \h344)
    <2>1. WriteCSR(g, \h344, v) = {[g EXCEPT !.mip = v]}
      BY <1>3, CsrWrites DEF WriteCSR
    <2>2. Orderly(g, [g EXCEPT !.mip = v])
      BY FieldTypes DEF Orderly, Same, HartState, Modes
    <2> QED BY <1>2, <2>1, <2>2
  <1>4. CASE ~CanWrite(g, \h344)
    BY <1>2, <1>4, IllegalOrderly DEF WriteCSR
  <1> QED BY <1>3, <1>4

LEMMA MsipWriteOrderly ==
  ASSUME NEW g \in HartState, NEW v \in BOOLEAN
  PROVE  \A k \in MsipWrite(g, v) : Orderly(g, k)
  <1>1. ASSUME NEW m \in HartState, Orderly(g, m), NEW new \in SUBSET Interrupts,
               NEW r \in ReadCSR(m, \h344), NEW k \in WriteCSR(r, \h344, new)
        PROVE  Orderly(g, k)
    <2>1. r \in HartState /\ Orderly(m, r) BY CsrReadOrderly
    <2>2. k \in HartState /\ Orderly(r, k) BY <2>1, MipWriteOrderly
    <2>3. Orderly(m, k) BY <2>1, <2>2, OrderlyChain
    <2> QED BY <1>1, <2>2, <2>3, OrderlyChain
  <1>2. [g EXCEPT !.msip = v] \in HartState
    BY UpdateTypes
  <1>3. Orderly(g, [g EXCEPT !.msip = v])
    BY FieldTypes DEF Orderly, Same, HartState, Modes
  <1>4. ASSUME NEW m \in HartState
        PROVE  /\ ReadValue(m, \h344) \cup {3} \in SUBSET Interrupts
               /\ ReadValue(m, \h344) \ {3} \in SUBSET Interrupts
    <2>1. CsrBits(m, \h344) = m.mip BY DEF CsrBits
    <2> QED BY <2>1, FieldTypes, InterruptAssumption DEF ReadValue
  <1> QED BY <1>1, <1>2, <1>3, <1>4 DEF MsipWrite

LEMMA BusWriteOrderly ==
  ASSUME NEW g \in HartState, NEW a, NEW n
  PROVE  \A k \in BusWrite(g, a, n) : Orderly(g, k)
  <1>1. Orderly(g, g) BY OrderlySelf
  <1>2. Orderly(g, RaiseException(g, STORE_ACCESS_FAULT))
    BY RaiseExceptionOrderly
  <1> QED BY <1>1, <1>2, MsipWriteOrderly DEF BusWrite

LEMMA Sv39Orderly ==
  ASSUME NEW g \in HartState
  PROVE  \A t \in Sv39Outcomes(g) :
            Orderly(g, t.h) /\ (~t.ok => t.h.traps > 0)
  <1> DEFINE fault(s) == [h |-> RaiseException(s, INSTRUCTION_ACCESS_FAULT),
                          ok |-> FALSE, pa |-> 0]
  <1>1. ASSUME NEW s \in HartState, Orderly(g, s)
        PROVE  Orderly(g, fault(s).h) /\ fault(s).h.traps > 0
    <2>1. RaiseException(s, INSTRUCTION_ACCESS_FAULT) \in HartState
      BY RaiseExceptionType, ExceptionCodes
    <2>2. /\ Orderly(s, RaiseException(s, INSTRUCTION_ACCESS_FAULT))
          /\ RaiseException(s, INSTRUCTION_ACCESS_FAULT).traps > 0
      BY RaiseExceptionOrderly
    <2>3. Orderly(g, RaiseException(s, INSTRUCTION_ACCESS_FAULT))
      BY <1>1, <2>1, <2>2, OrderlyChain
    <2> QED BY <2>2, <2>3
  <1>2. Orderly(g, g) BY OrderlySelf
  <1>3. \A p : BusRead(g, p, 8) \in HartState /\ Orderly(g, BusRead(g, p, 8))
    BY BusReadType, BusReadOrderly
  <1>4. Sv39Outcomes(g) = {[h |-> g, ok |-> TRUE, pa |-> p] : p \in Addr}
                            \cup {fault(g)}
                            \cup {fault(BusRead(g, p, 8)) : p \in Addr}
    BY DEF Sv39Outcomes
  <1> HIDE DEF fault
  <1> QED BY <1>1, <1>2, <1>3, <1>4

LEMMA TranslateOrderly ==
  ASSUME NEW g \in HartState, NEW va
  PROVE  \A t \in Translate(g, va) :
            /\ Orderly(g, t.h)
            /\ ~t.ok /\ g.satp \in {SATP_MODE_BARE, SATP_MODE_SV39} => t.h.traps > 0
  <1>1. Orderly(g, g) BY OrderlySelf
  <1>2. \A x \in CsrError(g) : Orderly(g, x) BY IllegalOrderly
  <1> QED BY <1>1, <1>2, Sv39Orderly DEF Translate

\* What Orderly says of a fetch, for a hart that may read satp: the program
\* counter it keeps for the end of step is the hart's, and a fetch that
\* failed has trapped.
FetchOrderly(g, f) ==
    /\ Orderly(g, f.h)
    /\ g.mode # User =>
          /\ f.before = g.pc
          /\ f.form = "failed" /\ g.satp \in {SATP_MODE_BARE, SATP_MODE_SV39}
                => f.h.traps > 0

LEMMA SecondHalfOrderly ==
  ASSUME NEW g \in HartState, NEW before, NEW pa
  PROVE  /\ Orderly(g, SecondHalf(g, before, pa).h)
         /\ SecondHalf(g, before, pa).before = before
         /\ SecondHalf(g, before, pa).form # "failed"
  <1>1. Orderly(g, g) BY OrderlySelf
  <1>2. Orderly(g, RaiseException(g, LOAD_ACCESS_FAULT)) BY RaiseExceptionOrderly
  <1> QED BY <1>1, <1>2 DEF SecondHalf, Fetched

LEMMA WideFetchOrderly ==
  ASSUME NEW g \in HartState, NEW pa \in Addr
  PROVE  \A f \in WideFetch(g, pa) : FetchOrderly(g, f)
  <1>1. g.pc \in Addr BY FieldTypes
  <1>2. \A t \in Translate(g, Wrap(g.pc + 2)) : t.h \in HartState /\ t.pa \in Addr
    BY <1>1, NextHalf, TranslateType DEF Translations
  <1>3. ASSUME NEW t \in Translate(g, Wrap(g.pc + 2))
        PROVE  FetchOrderly(g, IF t.ok THEN SecondHalf(t.h, g.pc, t.pa)
                                       ELSE Fetched(t.h, g.pc, 0, "failed"))
    <2>1. /\ Orderly(g, t.h)
          /\ ~t.ok /\ g.satp \in {SATP_MODE_BARE, SATP_MODE_SV39} => t.h.traps > 0
      BY TranslateOrderly
    <2>2. t.h \in HartState /\ t.pa \in Addr BY <1>2
    <2>3. ASSUME t.ok PROVE FetchOrderly(g, SecondHalf(t.h, g.pc, t.pa))
      <3>1. SecondHalf(t.h, g.pc, t.pa).h \in HartState
        BY <1>1, <2>2, SecondHalfType DEF FetchResults
      <3>2. /\ Orderly(t.h, SecondHalf(t.h, g.pc, t.pa).h)
            /\ SecondHalf(t.h, g.pc, t.pa).before = g.pc
            /\ SecondHalf(t.h, g.pc, t.pa).form # "failed"
        BY <2>2, SecondHalfOrderly
      <3>3. Orderly(g, SecondHalf(t.h, g.pc, t.pa).h)
        BY <2>1, <2>2, <3>1, <3>2, OrderlyChain
      <3> QED BY <3>2, <3>3 DEF FetchOrderly
    <2>4. ASSUME ~t.ok PROVE FetchOrderly(g, Fetched(t.h, g.pc, 0, "failed"))
      BY <2>1, <2>4 DEF FetchOrderly, Fetched
    <2> QED BY <2>3, <2>4
  <1>4. FetchOrderly(g, SecondHalf(g, g.pc, Wrap(pa + 2)))
    BY SecondHalfOrderly DEF FetchOrderly
  <1> QED BY <1>3, <1>4 DEF WideFetch

LEMMA FetchAtOrderly ==
  ASSUME NEW g \in HartState, NEW pa \in Addr
  PROVE  \A f \in FetchAt(g, pa) : FetchOrderly(g, f)
  <1>1. FetchOrderly(g, Fetched(g, g.pc, 2, "half"))
    BY OrderlySelf DEF FetchOrderly, Fetched
  <1>2. FetchOrderly(g, Fetched(RaiseException(g, LOAD_ACCESS_FAULT), g.pc, 2, "none"))
    BY RaiseExceptionOrderly DEF FetchOrderly, Fetched
  <1> QED BY <1>1, <1>2, WideFetchOrderly DEF FetchAt

LEMMA FetchIsOrderly ==
  ASSUME NEW g \in HartState
  PROVE  \A f \in Fetch(g) : FetchOrderly(g, f)
  <1>1. g.pc \in Addr BY FieldTypes
  <1>2. ASSUME NEW t \in Translate(g, g.pc),
               NEW f \in IF t.ok THEN FetchAt(t.h, t.pa)
                                 ELSE {Fetched(t.h, g.pc, 0, "failed")}
        PROVE  FetchOrderly(g, f)
    <2>1. /\ Orderly(g, t.h)
          /\ ~t.ok /\ g.satp \in {SATP_MODE_BARE, SATP_MODE_SV39} => t.h.traps > 0
          /\ g.mode # User /\ t.ok => t.h = g
      BY TranslateOrderly, TranslateConfined
    <2>2. t.h \in HartState /\ t.pa \in Addr
      BY <1>1, TranslateType DEF Translations
    <2>3. CASE t.ok
      <3>1. f \in FetchAt(t.h, t.pa) BY <2>3
      <3>2. FetchOrderly(t.h, f) BY <2>2, <3>1, FetchAtOrderly
      <3>3. f.h \in HartState
        BY <2>2, <3>1, FetchAtType DEF FetchResults
      <3>4. Orderly(g, f.h)
        BY <2>1, <2>2, <3>2, <3>3, OrderlyChain DEF FetchOrderly
      <3> QED BY <2>1, <2>3, <3>2, <3>4 DEF FetchOrderly
    <2>4. CASE ~t.ok
      <3>1. f = Fetched(t.h, g.pc, 0, "failed") BY <2>4
      <3> QED BY <2>1, <2>4, <3>1 DEF FetchOrderly, Fetched
    <2> QED BY <2>3, <2>4
  <1> QED BY <1>2 DEF Fetch

\* A CSR instruction that runs to its end raises no trap, one that does not
\* is orderly, and satp changes by a write of satp only.
LEMMA RawWriteFields ==
  ASSUME NEW g \in HartState, NEW a, NEW v
  PROVE  /\ WriteCSRRaw(g, a, v).traps = g.traps
         /\ WriteCSRRaw(g, a, v).satp = IF a = \h180 THEN v ELSE g.satp
  <1>1. CASE a \in PmpCsrs
    <2>1. WriteCSRRaw(g, a, v) = [g EXCEPT !.pmp = v] BY <1>1, PmpWrite
    <2>2. a # \h180 BY <1>1, NotPmp DEF WordCsrNumbers
    <2> QED BY <2>1, <2>2 DEF HartState
  <1>2. CASE a \notin PmpCsrs
    BY <1>2 DEF WriteCSRRaw, HartState
  <1> QED BY <1>1, <1>2

LEMMA CsrOrderly ==
  ASSUME NEW g \in HartState, NEW a, NEW op, NEW rd, NEW src, NEW v \in CsrType(a),
         NEW r \in ExecCsr(g, a, op, rd, src, v)
  PROVE  /\ r.done => r.h.traps = g.traps
         /\ ~r.done => Orderly(g, r.h)
         /\ r.h.satp = g.satp \/ (a = \h180 /\ r.h.satp = v)
  <1>1. PICK k \in (IF CsrReads(op, rd) THEN ReadCSR(g, a) ELSE {g}) :
          r \in IF CsrReads(op, rd) /\ k.trap_pending
                THEN {[h |-> k, done |-> FALSE]}
                ELSE IF CsrWritesBack(op, src)
                THEN {[h |-> w, done |-> CanWrite(k, a)] :
                        w \in WriteCSR(k, a, CsrNewValue(k, a, op, v))}
                ELSE {[h |-> k, done |-> TRUE]}
    BY DEF ExecCsr
  <1>2. k \in HartState /\ Orderly(g, k)
    BY <1>1, CsrReadOrderly, OrderlySelf
  <1>3. k.satp = g.satp BY <1>2 DEF Orderly
  <1>4. ~(CsrReads(op, rd) /\ k.trap_pending) => k.traps = g.traps
    <2>1. SUFFICES ASSUME ~(CsrReads(op, rd) /\ k.trap_pending), k # g
                   PROVE  k.traps = g.traps
      OBVIOUS
    <2>2. CsrReads(op, rd) /\ k \in CsrError(g)
      BY <1>1, <2>1 DEF ReadCSR
    <2>3. ~Hosted BY <2>1, <2>2, IllegalConfined
    <2>4. k = [g EXCEPT !.alive = FALSE] BY <2>2, <2>3 DEF CsrError
    <2> QED BY <2>4 DEF HartState
  <1>5. CASE CsrReads(op, rd) /\ k.trap_pending
    <2>1. r = [h |-> k, done |-> FALSE] BY <1>1, <1>5
    <2> QED BY <1>2, <1>3, <2>1
  <1>6. CASE ~(CsrReads(op, rd) /\ k.trap_pending) /\ ~CsrWritesBack(op, src)
    <2>1. r = [h |-> k, done |-> TRUE] BY <1>1, <1>6
    <2> QED BY <1>3, <1>4, <1>6, <2>1
  <1>7. CASE ~(CsrReads(op, rd) /\ k.trap_pending) /\ CsrWritesBack(op, src)
    <2>1. PICK w \in WriteCSR(k, a, CsrNewValue(k, a, op, v)) :
              r = [h |-> w, done |-> CanWrite(k, a)]
      BY <1>1, <1>7
    <2>2. CASE CanWrite(k, a)
      <3>1. w = WriteCSRRaw(k, a, CsrNewValue(k, a, op, v))
        BY <2>1, <2>2 DEF WriteCSR
      <3>2. a = \h180 => CsrNewValue(k, a, op, v) = v
        BY DEF CsrNewValue, BitCsrs
      <3>3. /\ w.traps = k.traps
            /\ w.satp = IF a = \h180 THEN CsrNewValue(k, a, op, v) ELSE k.satp
        BY <1>2, <3>1, RawWriteFields
      <3>4. r.h = w /\ r.done BY <2>1, <2>2
      <3> QED BY <1>3, <1>4, <1>7, <3>2, <3>3, <3>4
    <2>3. CASE ~CanWrite(k, a)
      <3>1. w \in CsrError(k) BY <2>1, <2>3 DEF WriteCSR
      <3>2. w \in HartState /\ Orderly(k, w)
        BY <1>2, <3>1, IllegalTypes, IllegalOrderly
      <3>3. Orderly(g, w) BY <1>2, <3>2, OrderlyChain
      <3>4. w.satp = g.satp BY <3>3 DEF Orderly
      <3>5. r.h = w /\ ~r.done BY <2>1, <2>3
      <3> QED BY <3>3, <3>4, <3>5
    <2> QED BY <2>2, <2>3
  <1> QED BY <1>5, <1>6, <1>7

\* CSR 0 is never read nor written.
LEMMA LowCsrOrderly ==
  ASSUME NEW g \in HartState, NEW op, NEW rd, NEW src,
         NEW r \in ExecCsr(g, 0, op, rd, src, 0)
  PROVE  r.h \in HartState /\ Orderly(g, r.h)
  <1>1. \A k : ~CanRead(k, 0) /\ ~CanWrite(k, 0)
    BY DEF CanRead, CanWrite, Readable, ReadableOnly, Writable
  <1>2. PICK k \in (IF CsrReads(op, rd) THEN ReadCSR(g, 0) ELSE {g}) :
          r \in IF CsrReads(op, rd) /\ k.trap_pending
                THEN {[h |-> k, done |-> FALSE]}
                ELSE IF CsrWritesBack(op, src)
                THEN {[h |-> w, done |-> CanWrite(k, 0)] :
                        w \in WriteCSR(k, 0, CsrNewValue(k, 0, op, 0))}
                ELSE {[h |-> k, done |-> TRUE]}
    BY DEF ExecCsr
  <1>3. k \in HartState /\ Orderly(g, k)
    BY <1>2, CsrReadOrderly, OrderlySelf
  <1>4. ASSUME NEW w \in WriteCSR(k, 0, CsrNewValue(k, 0, op, 0))
        PROVE  w \in HartState /\ Orderly(g, w)
    <2>1. w \in CsrError(k) BY <1>1, <1>4 DEF WriteCSR
    <2>2. w \in HartState /\ Orderly(k, w)
      BY <1>3, <2>1, IllegalTypes, IllegalOrderly
    <2> QED BY <1>3, <2>2, OrderlyChain
  <1> QED BY <1>2, <1>3, <1>4

-----------------------------------------------------------------------------
(* What a step does to the traps, in whatever mode it began.               *)

Saved(g, k) ==
    IF k.mode = Machine THEN SavedInMachine(g, k) ELSE SavedInSupervisor(g, k)

LEMMA TrappedSaved ==
  ASSUME NEW g \in HartState, NEW k, Trapped(g, k)
  PROVE  Saved(g, k) /\ k.pc = IF k.mode = Machine THEN g.mtvec.base ELSE g.stvec.base
  <1>1. g.mode \in 0 .. 3 BY FieldTypes DEF Modes
  <1>2. CASE /\ k.mode = Machine /\ k.mepc = g.pc /\ k.pc = g.mtvec.base
             /\ k.mstatus = MachineEntryStatus(g)
    <2>1. /\ (11 \in k.mstatus) <=> (g.mode \in {1, 3})
          /\ (12 \in k.mstatus) <=> (g.mode \in {2, 3})
          /\ (MPIE \in k.mstatus) <=> (MIE \in g.mstatus)
          /\ MIE \notin k.mstatus
      BY <1>2 DEF MachineEntryStatus, MppBits, MPP, MIE, MPIE
    <2>2. MppMode(k.mstatus) = g.mode BY <1>1, <2>1 DEF MppMode
    <2> QED BY <1>2, <2>1, <2>2 DEF Saved, SavedInMachine
  <1>3. CASE /\ g.mode <= Supervisor
             /\ k.mode = Supervisor /\ k.sepc = g.pc /\ k.pc = g.stvec.base
             /\ k.mstatus = SupervisorEntryStatus(g)
    <2>1. /\ (SPP \in k.mstatus) <=> (g.mode = Supervisor)
          /\ (SPIE \in k.mstatus) <=> (SIE \in g.mstatus)
          /\ SIE \notin k.mstatus
      BY <1>3 DEF SupervisorEntryStatus, SSTATUS_MASK, SIE, SPIE, SPP
    <2>2. k.mode # Machine BY <1>3 DEF Supervisor, Machine
    <2> QED BY <1>3, <2>1, <2>2 DEF Saved, SavedInSupervisor
  <1> QED BY <1>2, <1>3 DEF Trapped

\* A step in order, from g to k.
InOrder(g, k) ==
    /\ k.traps > 0 => k.mode >= g.mode
    /\ k.traps = 1 => Saved(g, k)

LEMMA StartStepFields ==
  ASSUME NEW g \in HartState
  PROVE  LET s == StartStep(g)
         IN  s.traps = 0 /\ s.satp = g.satp /\ Same(g, s)
  BY DEF StartStep, Same, HartState

LEMMA OrderlyInOrder ==
  ASSUME h \in HartState, NEW k, Orderly(StartStep(h), k)
  PROVE  /\ InOrder(h, k) /\ k.satp = h.satp
         /\ k.traps = 1 => k.pc = IF k.mode = Machine THEN h.mtvec.base ELSE h.stvec.base
  <1>1. /\ StartStep(h).traps = 0 /\ StartStep(h).satp = h.satp
        /\ Same(h, StartStep(h))
    BY StartStepFields
  <1>2. StartStep(h).mode = h.mode BY <1>1 DEF Same
  <1>3. ASSUME k.traps = 1 PROVE Trapped(h, k)
    BY <1>1, <1>3, SameTrapped DEF Orderly
  <1> QED BY <1>1, <1>2, <1>3, TrappedSaved DEF Orderly, InOrder

LEMMA RetireInOrder ==
  ASSUME h \in HartState, NEW k \in HartState, NEW len, Orderly(StartStep(h), k)
  PROVE  InOrder(h, Retire(k, h.pc, len))
  <1> SUFFICES ASSUME NEW l, l = Retire(k, h.pc, len) PROVE InOrder(h, l)
    OBVIOUS
  <1>1. /\ l.traps = k.traps /\ l.mode = k.mode /\ l.mstatus = k.mstatus
        /\ l.mepc = k.mepc /\ l.sepc = k.sepc
        /\ l.pc = k.pc \/ k.pc = h.pc
    BY DEF Retire, HartState
  <1>2. /\ InOrder(h, k)
        /\ k.traps = 1 => k.pc = IF k.mode = Machine THEN h.mtvec.base ELSE h.stvec.base
    BY OrderlyInOrder
  <1> QED BY <1>1, <1>2 DEF InOrder, Saved, SavedInMachine, SavedInSupervisor

Sv39OrBare == {SATP_MODE_BARE, SATP_MODE_SV39}

\* satp is as it was, or what the program writes to it.
SatpKept(g, k) ==
    k.satp = g.satp \/ (\h180 \in CsrAddrs /\ k.satp \in CsrValues[\h180])

StepInOrder ==
    /\ h'.traps > 0 => h'.mode >= h.mode
    /\ last' = "csr_done" => h'.traps = 0
    /\ h'.traps = 1 /\ last' \notin {"user", "low"} => Saved(h, h')
    /\ last' = "failed" /\ h.satp \in Sv39OrBare => h'.traps > 0
    /\ SatpKept(h, h')

LEMMA FetchesOrderly ==
  ASSUME h \in HartState, NEW forms, NEW f \in Fetches(forms)
  PROVE  /\ f.h \in HartState /\ f.form \in forms
         /\ Orderly(StartStep(h), f.h)
         /\ h.mode # User =>
               /\ f.before = h.pc
               /\ f.form = "failed" /\ h.satp \in Sv39OrBare => f.h.traps > 0
               /\ f.form \in Whole => f.h = StartStep(h)
  <1>1. StartStep(h) \in HartState BY StartStepConfined
  <1>2. /\ StartStep(h).satp = h.satp /\ StartStep(h).mode = h.mode
        /\ StartStep(h).pc = h.pc
    BY StartStepFields DEF Same
  <1>3. f \in Fetch(StartStep(h)) /\ f.form \in forms BY DEF Fetches
  <1>4. FetchOrderly(StartStep(h), f) BY <1>1, <1>3, FetchIsOrderly
  <1>5. f.h \in HartState BY FetchedHart
  <1>6. h.mode # User /\ f.form \in Whole => f.h = StartStep(h)
    BY FetchesConfined
  <1> QED BY <1>2, <1>3, <1>4, <1>5, <1>6 DEF FetchOrderly, Sv39OrBare

LEMMA LeastMode ==
  ASSUME h \in HartState, h' \in HartState, h.mode = User
  PROVE  h'.mode >= h.mode
  BY FieldTypes DEF Modes, User

\* The steps whose parts are all orderly.
LEMMA FinishOrderly ==
  ASSUME h \in HartState, h' \in HartState, NEW forms, NEW f \in Fetches(forms),
         NEW g \in HartState, Orderly(f.h, g),
         NEW kind \in {"csr_dropped", "other", "ecall", "low"}, Finish(f, g, kind)
  PROVE  StepInOrder
  <1>1. StartStep(h) \in HartState BY StartStepConfined
  <1>2. /\ f.h \in HartState /\ Orderly(StartStep(h), f.h)
        /\ h.mode # User => f.before = h.pc
    BY FetchesOrderly
  <1>3. Orderly(StartStep(h), g) BY <1>1, <1>2, OrderlyChain
  <1>4. h' = Retire(g, f.before, f.len) /\ last' = Outcome(f, kind)
    BY DEF Finish
  <1>5. g.satp = h.satp BY <1>3, OrderlyInOrder
  <1>6. SatpKept(h, h')
    BY <1>4, <1>5 DEF Retire, HartState, SatpKept
  <1>7. last' \notin {"csr_done", "failed"} BY <1>4 DEF Outcome
  <1>8. CASE h.mode = User
    <2>1. last' = "user" BY <1>4, <1>8 DEF Outcome
    <2> QED BY <1>6, <1>7, <1>8, <2>1, LeastMode DEF StepInOrder
  <1>9. CASE h.mode # User
    <2>1. h' = Retire(g, h.pc, f.len) BY <1>2, <1>4, <1>9
    <2>2. InOrder(h, h') BY <1>3, <2>1, RetireInOrder
    <2> QED BY <1>6, <1>7, <2>2 DEF StepInOrder, InOrder
  <1> QED BY <1>8, <1>9

\* The steps that raise no trap of their own: only their fetch could.
LEMMA FinishQuiet ==
  ASSUME h \in HartState, h' \in HartState, NEW forms, NEW f \in Fetches(forms),
         forms \subseteq Whole, NEW g \in HartState, g.traps = f.h.traps,
         SatpKept(f.h, g), NEW kind \in {"csr_done", "other"}, Finish(f, g, kind)
  PROVE  StepInOrder
  <1>1. /\ f.h.satp = h.satp
        /\ h.mode # User => f.h.traps = 0
    <2>1. /\ Orderly(StartStep(h), f.h) /\ f.form \in Whole
          /\ h.mode # User /\ f.form \in Whole => f.h = StartStep(h)
      BY FetchesOrderly
    <2> QED BY <2>1, OrderlyInOrder, StartStepFields
  <1>2. h' = Retire(g, f.before, f.len) /\ last' = Outcome(f, kind)
    BY DEF Finish
  <1>3. h'.traps = g.traps /\ h'.satp = g.satp
    BY <1>2 DEF Retire, HartState
  <1>4. SatpKept(h, h') BY <1>1, <1>3 DEF SatpKept
  <1>5. last' # "failed" BY <1>2 DEF Outcome
  <1>6. CASE h.mode = User
    <2>1. last' = "user" BY <1>2, <1>6 DEF Outcome
    <2> QED BY <1>4, <1>6, <2>1, LeastMode DEF StepInOrder
  <1>7. CASE h.mode # User
    <2>1. h'.traps = 0 BY <1>1, <1>3, <1>7
    <2> QED BY <1>4, <1>5, <2>1 DEF StepInOrder
  <1> QED BY <1>6, <1>7

\* The steps that end where their fetch, or the environment, ended them.
LEMMA CutShort ==
  ASSUME h \in HartState, Orderly(StartStep(h), h'), last' # "csr_done",
         last' = "failed" /\ h.satp \in Sv39OrBare => h'.traps > 0
  PROVE  StepInOrder
  <1>1. InOrder(h, h') /\ h'.satp = h.satp BY OrderlyInOrder
  <1> QED BY <1>1 DEF StepInOrder, InOrder, SatpKept

\* A jump moves the program counter, so it is orderly in the mode only.
LEMMA JumpInOrder ==
  ASSUME h \in HartState, h' \in HartState, Jump
  PROVE  StepInOrder
  <1>1. PICK f \in Fetches({"half", "word", "low"}), t \in JumpTargets :
            Finish(f, [f.h EXCEPT !.pc = t], "other")
    BY DEF Jump
  <1>2. /\ f.h \in HartState /\ f.form \in {"half", "word", "low"}
        /\ Orderly(StartStep(h), f.h)
        /\ h.mode # User /\ f.form \in Whole => f.h = StartStep(h)
    BY FetchesOrderly
  <1>3. InOrder(h, f.h) /\ f.h.satp = h.satp BY <1>2, OrderlyInOrder
  <1>4. /\ h' = Retire([f.h EXCEPT !.pc = t], f.before, f.len)
        /\ last' = Outcome(f, "other")
    BY <1>1 DEF Finish
  <1>5. h'.traps = f.h.traps /\ h'.mode = f.h.mode /\ h'.satp = f.h.satp
    BY <1>2, <1>4 DEF Retire, HartState
  <1>6. last' \notin {"csr_done", "failed"} BY <1>4 DEF Outcome
  <1>7. ASSUME last' \notin {"user", "low"} PROVE h'.traps = 0
    <2>1. h.mode # User /\ f.form # "low" BY <1>4, <1>7 DEF Outcome
    <2>2. f.form \in Whole BY <1>2, <2>1 DEF Whole
    <2>3. f.h = StartStep(h) BY <1>2, <2>1, <2>2
    <2> QED BY <1>5, <2>3, StartStepFields
  <1> QED BY <1>3, <1>5, <1>6, <1>7 DEF StepInOrder, InOrder, SatpKept

\* The accesses a step makes.
LEMMA AccessesOrderly ==
  ASSUME NEW g \in HartState
  PROVE  /\ \A a, n : BusRead(g, a, n) \in HartState /\ Orderly(g, BusRead(g, a, n))
         /\ \A a, n : \A k \in BusWrite(g, a, n) : k \in HartState /\ Orderly(g, k)
  BY BusReadType, BusReadOrderly, BusWriteType, BusWriteOrderly

LEMMA TwoAccesses ==
  ASSUME NEW g \in HartState, NEW k \in HartState, Orderly(g, k)
  PROVE  /\ \A a, n : BusRead(k, a, n) \in HartState /\ Orderly(g, BusRead(k, a, n))
         /\ \A a, n : \A l \in BusWrite(k, a, n) : l \in HartState /\ Orderly(g, l)
  BY AccessesOrderly, OrderlyChain

LEMMA ExceptionsOrderly ==
  ASSUME NEW g \in HartState, NEW c \in Exceptions
  PROVE  RaiseException(g, c) \in HartState /\ Orderly(g, RaiseException(g, c))
  BY RaiseExceptionType, ExceptionCodes, RaiseExceptionOrderly DEF Exceptions

LEMMA EnvCallInOrder ==
  ASSUME h \in HartState, h' \in HartState, EnvCall
  PROVE  StepInOrder
  <1>1. PICK f \in Fetches({"word", "low"}) :
           \/ Finish(f, f.h, "ecall")
           \/ \E x \in Accesses :
               \/ Finish(f, BusRead(f.h, x[1], 1), "ecall")
               \/ Finish(f, BusRead(BusRead(f.h, x[1], 1), Wrap(x[1] + 1), 1), "ecall")
               \/ \E g \in BusWrite(f.h, x[1], 1) :
                     \/ Finish(f, g, "ecall")
                     \/ \E k \in BusWrite(g, Wrap(x[1] + 1), 1) : Finish(f, k, "ecall")
    BY DEF EnvCall
  <1>2. f.h \in HartState /\ Orderly(f.h, f.h) BY FetchesOrderly, OrderlySelf
  <1>3. ASSUME NEW g \in HartState, Orderly(f.h, g), Finish(f, g, "ecall")
        PROVE  StepInOrder
    BY <1>3, FinishOrderly
  <1>4. CASE Finish(f, f.h, "ecall") BY <1>2, <1>3, <1>4
  <1>5. ASSUME NEW x \in Accesses,
               \/ Finish(f, BusRead(f.h, x[1], 1), "ecall")
               \/ Finish(f, BusRead(BusRead(f.h, x[1], 1), Wrap(x[1] + 1), 1), "ecall")
        PROVE  StepInOrder
    <2>1. /\ BusRead(f.h, x[1], 1) \in HartState
          /\ Orderly(f.h, BusRead(f.h, x[1], 1))
      BY <1>2, AccessesOrderly
    <2> QED BY <1>2, <1>3, <1>5, <2>1, TwoAccesses
  <1>6. ASSUME NEW x \in Accesses, NEW g \in BusWrite(f.h, x[1], 1),
               \/ Finish(f, g, "ecall")
               \/ \E k \in BusWrite(g, Wrap(x[1] + 1), 1) : Finish(f, k, "ecall")
        PROVE  StepInOrder
    <2>1. g \in HartState /\ Orderly(f.h, g) BY <1>2, AccessesOrderly
    <2>2. \A k \in BusWrite(g, Wrap(x[1] + 1), 1) :
              k \in HartState /\ Orderly(f.h, k)
      BY <1>2, <2>1, TwoAccesses
    <2> QED BY <1>3, <1>6, <2>1, <2>2
  <1> QED BY <1>1, <1>4, <1>5, <1>6

LEMMA CsrInOrder ==
  ASSUME h \in HartState, h' \in HartState, Csr
  PROVE  StepInOrder
  <1>1. PICK f \in Fetches({"word"}), a \in CsrAddrs, op \in {"rw", "rs", "rc"},
             rd \in BOOLEAN, src \in BOOLEAN :
            \E v \in CsrValues[a] : \E r \in ExecCsr(f.h, a, op, rd, src, v) :
                Finish(f, r.h, IF r.done THEN "csr_done" ELSE "csr_dropped")
    BY DEF Csr
  <1>2. PICK v \in CsrValues[a] : \E r \in ExecCsr(f.h, a, op, rd, src, v) :
            Finish(f, r.h, IF r.done THEN "csr_done" ELSE "csr_dropped")
    BY <1>1
  <1>3. PICK r \in ExecCsr(f.h, a, op, rd, src, v) :
            Finish(f, r.h, IF r.done THEN "csr_done" ELSE "csr_dropped")
    BY <1>2
  <1>4. v \in CsrType(a) BY ProgramAssumption
  <1>5. f.h \in HartState BY FetchesOrderly
  <1>6. r.h \in HartState BY <1>4, <1>5, ExecCsrType
  <1>7. /\ r.done => r.h.traps = f.h.traps
        /\ ~r.done => Orderly(f.h, r.h)
        /\ r.h.satp = f.h.satp \/ (a = \h180 /\ r.h.satp = v)
    BY <1>4, <1>5, CsrOrderly
  <1>8. CASE r.done
    <2>1. SatpKept(f.h, r.h) BY <1>7 DEF SatpKept
    <2>2. {"word"} \subseteq Whole BY DEF Whole
    <2>3. Finish(f, r.h, "csr_done") BY <1>3, <1>8
    <2> QED BY <1>6, <1>7, <1>8, <2>1, <2>2, <2>3, FinishQuiet
  <1>9. CASE ~r.done
    <2>1. Finish(f, r.h, "csr_dropped") BY <1>3, <1>9
    <2> QED BY <1>6, <1>7, <1>9, <2>1, FinishOrderly
  <1> QED BY <1>8, <1>9

LEMMA ReturnsInOrder ==
  ASSUME h \in HartState, h' \in HartState, Mret \/ Sret
  PROVE  StepInOrder
  <1>1. {"word"} \subseteq Whole BY DEF Whole
  <1>2. ASSUME NEW f \in Fetches({"word"}), NEW g \in HartState,
               Finish(f, g, "other"),
               \/ Orderly(f.h, g)
               \/ g.traps = f.h.traps /\ g.satp = f.h.satp
        PROVE  StepInOrder
    <2>1. CASE Orderly(f.h, g) BY <1>2, <2>1, FinishOrderly
    <2>2. CASE g.traps = f.h.traps /\ g.satp = f.h.satp
      <3>1. SatpKept(f.h, g) BY <2>2 DEF SatpKept
      <3> QED BY <1>1, <1>2, <2>2, <3>1, FinishQuiet
    <2> QED BY <1>2, <2>1, <2>2
  <1>3. ASSUME NEW g \in HartState
        PROVE  /\ MretTaken(g).traps = g.traps /\ MretTaken(g).satp = g.satp
               /\ SretTaken(g).traps = g.traps /\ SretTaken(g).satp = g.satp
    BY DEF MretTaken, SretTaken, HartState
  <1>4. CASE Mret
    <2>1. PICK f \in Fetches({"word"}) : \E g \in ExecMret(f.h) : Finish(f, g, "other")
      BY <1>4 DEF Mret
    <2>2. PICK g \in ExecMret(f.h) : Finish(f, g, "other") BY <2>1
    <2>3. f.h \in HartState BY FetchesOrderly
    <2>4. g \in HartState BY <2>3, ExecReturnTypes
    <2>5. Orderly(f.h, g) \/ g = MretTaken(f.h)
      BY <2>3, IllegalOrderly DEF ExecMret
    <2> QED BY <1>2, <1>3, <2>2, <2>3, <2>4, <2>5
  <1>5. CASE Sret
    <2>1. PICK f \in Fetches({"word"}) : Finish(f, ExecSret(f.h), "other")
      BY <1>5 DEF Sret
    <2>2. f.h \in HartState BY FetchesOrderly
    <2>3. ExecSret(f.h) \in HartState BY <2>2, ExecReturnTypes
    <2>4. Orderly(f.h, ExecSret(f.h)) \/ ExecSret(f.h) = SretTaken(f.h)
      BY <2>2, IllegalOrderly DEF ExecSret
    <2> QED BY <1>2, <1>3, <2>1, <2>2, <2>3, <2>4
  <1> QED BY <1>4, <1>5

LEMMA NextInOrder ==
  ASSUME h \in HartState, h' \in HartState, Next
  PROVE  StepInOrder
  <1>1. CASE FetchFails
    <2>1. PICK f \in Fetches({"failed"}) :
              h' = f.h /\ last' = IF h.mode = User THEN "user" ELSE "failed"
      BY <1>1 DEF FetchFails
    <2>2. /\ Orderly(StartStep(h), h')
          /\ h.mode # User /\ h.satp \in Sv39OrBare => h'.traps > 0
      BY <2>1, FetchesOrderly
    <2> QED BY <2>1, <2>2, CutShort
  <1>2. CASE EnvExit
    <2>1. PICK f \in Fetches({"word", "low"}) : h' = [f.h EXCEPT !.alive = FALSE]
      BY <1>2 DEF EnvExit
    <2>2. last' = "ecall" BY <1>2 DEF EnvExit
    <2>3. f.h \in HartState /\ Orderly(StartStep(h), f.h) BY FetchesOrderly
    <2>4. Orderly(f.h, h')
      BY <2>1, <2>3, FieldTypes DEF Orderly, Same, HartState, Modes
    <2>5. Orderly(StartStep(h), h')
      BY <2>3, <2>4, StartStepConfined, OrderlyChain
    <2> QED BY <2>2, <2>5, CutShort
  <1>3. CASE Illegal
    <2>1. PICK f \in Fetches({"half", "word", "low", "none"}) :
              Finish(f, RaiseException(f.h, ILLEGAL_INSTRUCTION), "other")
      BY <1>3 DEF Illegal
    <2>2. ILLEGAL_INSTRUCTION \in Exceptions BY ExceptionCodes
    <2> QED BY <2>1, <2>2, FetchesOrderly, ExceptionsOrderly, FinishOrderly
  <1>4. CASE Plain
    <2>1. PICK f \in Fetches({"half", "word", "low"}) : Finish(f, f.h, "other")
      BY <1>4 DEF Plain
    <2> QED BY <2>1, FetchesOrderly, OrderlySelf, FinishOrderly
  <1>5. CASE Load
    <2>1. PICK f \in Fetches({"half", "word", "low"}), x \in Accesses :
              Finish(f, BusRead(f.h, x[1], x[2]), "other")
      BY <1>5 DEF Load
    <2> QED BY <2>1, FetchesOrderly, AccessesOrderly, FinishOrderly
  <1>6. CASE Store
    <2>1. PICK f \in Fetches({"half", "word", "low"}), x \in Accesses :
               \E g \in BusWrite(f.h, x[1], x[2]) : Finish(f, g, "other")
      BY <1>6 DEF Store
    <2> QED BY <2>1, FetchesOrderly, AccessesOrderly, FinishOrderly
  <1>7. CASE Amo
    <2>1. PICK f \in Fetches({"word", "low"}), x \in Accesses :
               \E g \in BusWrite(BusRead(f.h, x[1], x[2]), x[1], x[2]) :
                  Finish(f, g, "other")
      BY <1>7 DEF Amo
    <2>2. f.h \in HartState BY FetchesOrderly
    <2>3. \A g \in BusWrite(BusRead(f.h, x[1], x[2]), x[1], x[2]) :
              g \in HartState /\ Orderly(f.h, g)
      BY <2>2, AccessesOrderly, TwoAccesses
    <2> QED BY <2>1, <2>3, FinishOrderly
  <1>8. CASE CsrLow
    <2>1. PICK f \in Fetches({"low"}), op \in {"rw", "rs", "rc"},
               rd \in BOOLEAN, src \in BOOLEAN :
              \E r \in ExecCsr(f.h, 0, op, rd, src, 0) : Finish(f, r.h, "low")
      BY <1>8 DEF CsrLow
    <2>2. PICK r \in ExecCsr(f.h, 0, op, rd, src, 0) : Finish(f, r.h, "low")
      BY <2>1
    <2>3. r.h \in HartState /\ Orderly(f.h, r.h)
      BY FetchesOrderly, LowCsrOrderly
    <2> QED BY <2>2, <2>3, FinishOrderly
  <1>9. CASE Ecall
    <2>1. PICK f \in Fetches({"word", "low"}) :
              Finish(f, RaiseException(f.h, ECallCause(f.h.mode)), "ecall")
      BY <1>9 DEF Ecall
    <2>2. ECallCause(f.h.mode) \in Exceptions BY ExceptionCodes DEF ECallCause
    <2> QED BY <2>1, <2>2, FetchesOrderly, ExceptionsOrderly, FinishOrderly
  <1>10. CASE Ebreak
    <2>1. PICK f \in Fetches({"half", "word"}) :
              Finish(f, RaiseException(f.h, BREAKPOINT), "other")
      BY <1>10 DEF Ebreak
    <2>2. BREAKPOINT \in Exceptions BY ExceptionCodes
    <2> QED BY <2>1, <2>2, FetchesOrderly, ExceptionsOrderly, FinishOrderly
  <1>11. CASE BadSystem
    <2>1. PICK f \in Fetches({"word"}) : Finish(f, IllegalAtInst(f.h), "other")
      BY <1>11 DEF BadSystem
    <2> QED BY <2>1, FetchesOrderly, IllegalTypes, IllegalOrderly, FinishOrderly
  <1> QED
    BY <1>1, <1>2, <1>3, <1>4, <1>5, <1>6, <1>7, <1>8, <1>9, <1>10, <1>11,
       JumpInOrder, EnvCallInOrder, CsrInOrder, ReturnsInOrder DEF Next

LEMMA StepsInOrder ==
  ASSUME TypeOK, TypeOK', Next
  PROVE  StepInOrder
  BY NextInOrder DEF TypeOK

\* Whatever traps, and however often, a step that trapped is not less
\* privileged than it was: raiseTrap never picks a mode below the hart's.
THEOREM TrapsRaisePrivilege == Spec => NoTrapLowersPrivilege
  <1>1. TypeOK /\ TypeOK' /\ [Next]_vars =>
          [h'.traps > 0 => h'.mode >= h.mode]_vars
    BY StepsInOrder DEF StepInOrder
  <1> QED BY <1>1, TypeCorrect, PTL DEF Spec, NoTrapLowersPrivilege

\* The CSR handlers return before the write when the read trapped, so an
\* instruction that ran to its end raised nothing.
THEOREM TrappedCsrStops == Spec => TrappedCsrHasNoEffect
  <1>1. TypeOK /\ TypeOK' /\ [Next]_vars =>
          [last' = "csr_done" => h'.traps = 0]_vars
    BY StepsInOrder DEF StepInOrder
  <1> QED BY <1>1, TypeCorrect, PTL DEF Spec, TrappedCsrHasNoEffect

\* The one trap of a step finds the program counter, the mode and the
\* interrupt enable that the step began with, whichever access, check or
\* instruction raised it.
THEOREM TrapsPrecise == Spec => SingleTrapIsPrecise
  <1>1. TypeOK /\ TypeOK' /\ [Next]_vars =>
          [ h'.traps = 1 /\ last' \notin {"user", "low"} =>
              IF h'.mode = Machine THEN SavedInMachine(h, h')
                                   ELSE SavedInSupervisor(h, h') ]_vars
    BY StepsInOrder DEF StepInOrder, Saved
  <1> QED BY <1>1, TypeCorrect, PTL DEF Spec, SingleTrapIsPrecise

\* A program that gives satp no mode but bare and Sv39 is told of every
\* fetch that failed.
THEOREM FailuresTrap ==
  ASSUME \h180 \in CsrAddrs => CsrValues[\h180] \subseteq Sv39OrBare
  PROVE  Spec => FailedStepTraps
  <1> DEFINE SatpOK == h.satp \in Sv39OrBare
  <1>1. Init => SatpOK
    BY DEF Init, Boot, Sv39OrBare
  <1>2. TypeOK /\ TypeOK' /\ SatpOK /\ [Next]_vars => SatpOK'
    <2>1. CASE UNCHANGED vars BY <2>1 DEF vars
    <2>2. ASSUME TypeOK, TypeOK', SatpOK, Next PROVE SatpOK'
      <3>1. SatpKept(h, h') BY <2>2, StepsInOrder DEF StepInOrder
      <3> QED BY <2>2, <3>1 DEF SatpKept
    <2> QED BY <2>1, <2>2
  <1>3. TypeOK /\ TypeOK' /\ SatpOK /\ [Next]_vars =>
          [last' = "failed" => h'.traps > 0]_vars
    BY StepsInOrder DEF StepInOrder
  <1> HIDE DEF SatpOK
  <1> QED BY <1>1, <1>2, <1>3, TypeCorrect, PTL DEF Spec, FailedStepTraps
=============================================================================
