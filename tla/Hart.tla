-------------------------------- MODULE Hart --------------------------------
(***************************************************************************)
(* The hart as a state machine: one action is one call of Processor::step, *)
(* by the kind of instruction it executes.  Everything a step does, from   *)
(* the translation of the program counter to the adjustment of it at the   *)
(* end, is in the action, with the traps raised on the way; the program,   *)
(* its data and the contents of memory are arbitrary.                      *)
(***************************************************************************)
EXTENDS HartOps

CONSTANTS
    BootPc,      \* ISystem::boot: program_counter
    OpenSbi,     \* whether OpenSBISystem or DefaultSystem booted
    Program,     \* the kinds of instruction the program is made of
    Lengths,     \* the encodings it uses: 2 and 4 bytes
    JumpTargets, \* where its jumps and branches go
    Accesses,    \* its data accesses: <<address, bytes>>
    CsrAddrs,    \* the CSRs it names
    CsrValues    \* the values it gives them: [CsrAddrs -> sets]

Kinds == {"plain", "jump", "load", "store", "amo", "csr", "ecall", "ebreak",
          "mret", "sret", "badsystem", "illegal"}

ASSUME ProgramAssumption ==
    /\ BootPc \in Addr /\ OpenSbi \in BOOLEAN
    /\ Program \subseteq Kinds
    /\ Lengths \subseteq {2, 4}
    /\ JumpTargets \subseteq Addr
    /\ Accesses \subseteq Addr \X {1, 2, 4, 8}
    /\ CsrAddrs \subseteq 0 .. 4095
    /\ \A a \in CsrAddrs : CsrValues[a] \subseteq CsrType(a)
    /\ PmpNone \in PmpViews /\ PmpOpen \in PmpViews

VARIABLES
    h,     \* the hart
    last   \* what the last step was, for the properties: see Outcomes
vars == <<h, last>>

\* "failed": step returned false; "low": the second half of the instruction
\* could not be read; "csr_done", "csr_dropped": a CSR instruction that ran
\* to its end, or returned early; "ecall": an ecall; "user": the step began
\* in user mode; "other": anything else.
Outcomes == {"boot", "failed", "low", "csr_done", "csr_dropped", "ecall",
             "user", "other"}

-----------------------------------------------------------------------------
Boot ==
    [mode |-> Machine, pc |-> BootPc,
     mstatus |-> IF OpenSbi THEN MPP ELSE {},
     medeleg |-> {}, mideleg |-> {}, mie |-> {}, mip |-> {},
     mtvec |-> [base |-> 0, flag |-> 0], stvec |-> [base |-> 0, flag |-> 0],
     mepc |-> 0, sepc |-> 0, satp |-> SATP_MODE_BARE,
     pmp |-> IF OpenSbi THEN PmpOpen ELSE PmpNone,
     msip |-> FALSE, trap_pending |-> FALSE, traps |-> 0,
     alive |-> TRUE]

Init == h = Boot /\ last = "boot"

\* The fetches of this step that deliver one of the given forms.
Fetches(forms) == {f \in Fetch(StartStep(h)) :
                     /\ f.form \in forms
                     /\ f.form \in {"half", "word", "low"} => f.len \in Lengths}

Outcome(f, kind) ==
    IF h.mode = User THEN "user" ELSE IF f.form = "low" THEN "low" ELSE kind

\* interpreter.handle leaves the hart as g; the rest of step follows.
Finish(f, g, kind) ==
    /\ h' = Retire(g, f.before, f.len)
    /\ last' = Outcome(f, kind)

Executes(kind) == h.alive /\ kind \in Program

-----------------------------------------------------------------------------
(* step returned false: a translation failed.                              *)
FetchFails ==
    /\ h.alive
    /\ \E f \in Fetches({"failed"}) :
          /\ h' = f.h
          /\ last' = IF h.mode = User THEN "user" ELSE "failed"

\* No handler for the word, or a first half that could not be read.
Illegal ==
    /\ h.alive
    /\ \E f \in Fetches({"half", "word", "low", "none"}) :
          /\ f.form # "none" => "illegal" \in Program
          /\ Finish(f, RaiseException(f.h, ILLEGAL_INSTRUCTION), "other")

\* Arithmetic, untaken branches, fences, wfi, a load to register 0, a failed
\* store-conditional: nothing but data changes.
Plain ==
    /\ Executes("plain")
    /\ \E f \in Fetches({"half", "word", "low"}) : Finish(f, f.h, "other")

\* jal, jalr and taken branches.
Jump ==
    /\ Executes("jump")
    /\ \E f \in Fetches({"half", "word", "low"}), t \in JumpTargets :
          Finish(f, [f.h EXCEPT !.pc = t], "other")

Load ==
    /\ Executes("load")
    /\ \E f \in Fetches({"half", "word", "low"}), x \in Accesses :
          Finish(f, BusRead(f.h, x[1], x[2]), "other")

Store ==
    /\ Executes("store")
    /\ \E f \in Fetches({"half", "word", "low"}), x \in Accesses :
          \E g \in BusWrite(f.h, x[1], x[2]) : Finish(f, g, "other")

\* An AMO stores even when its load trapped.
Amo ==
    /\ Executes("amo")
    /\ \E f \in Fetches({"word", "low"}), x \in Accesses :
          /\ x[2] \in {4, 8}
          /\ \E g \in BusWrite(BusRead(f.h, x[1], x[2]), x[1], x[2]) :
                Finish(f, g, "other")

\* A CSR instruction whose second half was not read names CSR 0.
Csr ==
    /\ Executes("csr")
    /\ \E f \in Fetches({"word"}), a \in CsrAddrs, op \in {"rw", "rs", "rc"},
          rd \in BOOLEAN, src \in BOOLEAN :
          \E v \in CsrValues[a] : \E r \in ExecCsr(f.h, a, op, rd, src, v) :
             Finish(f, r.h, IF r.done THEN "csr_done" ELSE "csr_dropped")

CsrLow ==
    /\ Executes("csr")
    /\ \E f \in Fetches({"low"}), op \in {"rw", "rs", "rc"},
          rd \in BOOLEAN, src \in BOOLEAN :
          \E r \in ExecCsr(f.h, 0, op, rd, src, 0) : Finish(f, r.h, "low")

\* Without an environment ecall traps.
Ecall ==
    /\ Executes("ecall") /\ ~Hosted
    /\ \E f \in Fetches({"word", "low"}) :
          Finish(f, RaiseException(f.h, ECallCause(f.h.mode)), "ecall")

\* handle_ecall: SYS_WRITE and SYS_READ move a buffer byte by byte and go on
\* after a byte that faults (buffers of up to two bytes); brk and unknown
\* calls change only data.
EnvCall ==
    /\ Executes("ecall") /\ Hosted
    /\ \E f \in Fetches({"word", "low"}) :
          \/ Finish(f, f.h, "ecall")
          \/ \E x \in Accesses :
                \/ Finish(f, BusRead(f.h, x[1], 1), "ecall")
                \/ Finish(f, BusRead(BusRead(f.h, x[1], 1), Wrap(x[1] + 1), 1), "ecall")
                \/ \E g \in BusWrite(f.h, x[1], 1) :
                      \/ Finish(f, g, "ecall")
                      \/ \E k \in BusWrite(g, Wrap(x[1] + 1), 1) : Finish(f, k, "ecall")

\* SYS_EXIT ends the simulator in the middle of the step.
EnvExit ==
    /\ Executes("ecall") /\ Hosted
    /\ \E f \in Fetches({"word", "low"}) : h' = [f.h EXCEPT !.alive = FALSE]
    /\ last' = "ecall"

Ebreak ==
    /\ Executes("ebreak")
    /\ \E f \in Fetches({"half", "word"}) :
          Finish(f, RaiseException(f.h, BREAKPOINT), "other")

Mret ==
    /\ Executes("mret")
    /\ \E f \in Fetches({"word"}) :
          \E g \in ExecMret(f.h) : Finish(f, g, "other")

Sret ==
    /\ Executes("sret")
    /\ \E f \in Fetches({"word"}) : Finish(f, ExecSret(f.h), "other")

\* A SYSTEM word that names none of the five operations.
BadSystem ==
    /\ Executes("badsystem")
    /\ \E f \in Fetches({"word"}) : Finish(f, IllegalAtInst(f.h), "other")

Next ==
    \/ FetchFails \/ Illegal \/ Plain \/ Jump \/ Load \/ Store \/ Amo
    \/ Csr \/ CsrLow \/ Ecall \/ EnvCall \/ EnvExit \/ Ebreak
    \/ Mret \/ Sret \/ BadSystem

Spec == Init /\ [][Next]_vars

-----------------------------------------------------------------------------
(* Properties.                                                             *)

\* Every register of the hart holds a value it can hold.
TypeOK == h \in HartState /\ last \in Outcomes

\* The masks of writeCSRRaw keep three delegations impossible, whatever the
\* program writes: M-mode ecalls and the two machine interrupt lines.
DelegationCeiling ==
    ECALL_FROM_M_MODE \notin h.medeleg /\ h.mideleg \cap {3, 7} = {}

\* What only machine mode may configure.
MachineConfig(g) ==
    <<g.medeleg, g.mideleg, g.mtvec, g.pmp, g.mie \ g.mideleg>>

\* What only machine mode and a trap into it may change.
MachineContext(g) ==
    <<g.mstatus \ SSTATUS_MASK, g.mepc, g.mip \ g.mideleg>>

\* A step that begins in supervisor mode never changes the machine's
\* configuration, and unless it traps into machine mode it leaves the
\* machine's trap context and the undelegated interrupt bits alone: the
\* privilege checks of readCSR and writeCSR, the masks of sstatus, sie and
\* sip, and the traps raised on the way leave no path around them.
SupervisorIsolation ==
    [][ h.mode = Supervisor =>
          /\ MachineConfig(h') = MachineConfig(h)
          /\ h'.mode # Machine => MachineContext(h') = MachineContext(h) ]_vars

\* The machine timer and software lines are never the supervisor's: a step
\* of supervisor mode that stays there leaves bits 3 and 7 of mie and mip
\* alone, whatever machine mode delegated before.
MachineLinesProtected ==
    [][ h.mode = Supervisor /\ h'.mode # Machine =>
          /\ h'.mie \cap {3, 7} = h.mie \cap {3, 7}
          /\ h'.mip \cap {3, 7} = h.mip \cap {3, 7} ]_vars

\* What the saved context of a trap into the given mode must say of the hart
\* g that was interrupted.
SavedInSupervisor(g, k) ==
    /\ k.sepc = g.pc
    /\ (SPP \in k.mstatus) = (g.mode = Supervisor)
    /\ (SPIE \in k.mstatus) = (SIE \in g.mstatus)
    /\ SIE \notin k.mstatus
    /\ k.pc = g.stvec.base \/ g.stvec.base = g.pc

SavedInMachine(g, k) ==
    /\ k.mepc = g.pc
    /\ MppMode(k.mstatus) = g.mode
    /\ (MPIE \in k.mstatus) = (MIE \in g.mstatus)
    /\ MIE \notin k.mstatus
    /\ k.pc = g.mtvec.base \/ g.mtvec.base = g.pc

\* A step that raised exactly one trap saved the interrupted pc, mode and
\* interrupt enable, turned interrupts off and continues at the handler:
\* whichever of the fetch, the access, the CSR check or the environment
\* raised it.  (A handler entered from its own first instruction is entered
\* past it, and an instruction fetched by halves may still run after the
\* trap: both are excluded, as are the steps of user mode.)
SingleTrapIsPrecise ==
    [][ h'.traps = 1 /\ last' \notin {"user", "low"} =>
          IF h'.mode = Machine THEN SavedInMachine(h, h')
                               ELSE SavedInSupervisor(h, h') ]_vars

\* Returning from a trap just taken restores the mode, the pc and the
\* interrupt enable, for every exception and every delegation: raiseTrap and
\* xRET agree on where each is kept.
TrapReturnRoundTrip ==
    \A c \in Exceptions :
        LET t == RaiseException(h, c)
            ie == IF t.mode = Machine THEN MIE ELSE SIE
            r == IF t.mode = Machine THEN MretTaken(t) ELSE SretTaken(t)
        IN  /\ r.mode = h.mode
            /\ r.pc = h.pc
            /\ (ie \in r.mstatus) <=> (ie \in h.mstatus)

\* A step that trapped never ends in a less privileged mode than it began.
NoTrapLowersPrivilege == [][ h'.traps > 0 => h'.mode >= h.mode ]_vars

\* A CSR instruction that trapped had no effect of its own: its handler
\* returns before the write, which would run in the mode of the trap.
TrappedCsrHasNoEffect == [][ last' = "csr_done" => h'.traps = 0 ]_vars

\* CSR.cpp, exec_csrrw: "2. Unconditionally write".  A CSR instruction that
\* raises no trap runs to its end.
UntrappedCsrCompletes == [][ last' = "csr_dropped" /\ h'.alive => h'.traps > 0 ]_vars

\* README.md: "Standard CSR Registers with Privilege States".  No step of
\* user mode changes the machine's configuration.
UserIsolation ==
    [][ h.mode = User => MachineConfig(h') = MachineConfig(h) ]_vars

\* Processor.h, step: "Execute the next step in the program execution".  A
\* step that could not fetch its instruction reports it by a trap.
FailedStepTraps == [][ last' = "failed" => h'.traps > 0 ]_vars
=============================================================================
