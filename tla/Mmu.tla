--------------------------------- MODULE Mmu ---------------------------------
(***************************************************************************)
(* The hart with its protection and translation in full: pmpcfg, pmpaddr   *)
(* and the page-table entries in memory, the Sv39 walk over them through   *)
(* the bus, and the fetch that needs both.  The instructions are those     *)
(* that change this state or the mode; what each does besides is Hart's.   *)
(* This module implements Hart, which knows only what PMP and the walk can *)
(* come to.                                                                *)
(***************************************************************************)
EXTENDS Hart, Pmp

CONSTANTS
    TableSize,   \* entries of a page table: 512
    PpnCount,    \* physical page numbers: 2^44
    Ptes,        \* the entries a program stores
    BootPtes,    \* what the loaded program has as entries
    Roots,       \* the page numbers it writes to satp
    CfgBytes,    \* what it writes to the bytes of a pmpcfg
    AddrWrites   \* what it writes to a pmpaddr

PteSize == 8
Ppns == 0 .. PpnCount - 1
Pte == [v : BOOLEAN, r : BOOLEAN, w : BOOLEAN, x : BOOLEAN, u : BOOLEAN,
        ppn : Ppns]
ZeroPte == [v |-> FALSE, r |-> FALSE, w |-> FALSE, x |-> FALSE, u |-> FALSE,
            ppn |-> 0]

\* Where an entry can be: the aligned doublewords of memory.
Slots == {p \in Addr : /\ p % PteSize = 0
                       /\ RamBase <= p /\ p + PteSize <= RamBase + RamSize}

\* OpenSBISystem::boot: 0x1F to pmpcfg0 and all ones to pmpaddr0.
BootByte == [a |-> NAPOT, r |-> TRUE, w |-> TRUE, l |-> FALSE]
BootCfg == [i \in Entries |-> IF OpenSbi /\ i = 0 THEN BootByte ELSE PmpReset]
\* Seeded fault: pmpaddr0 is left as it was reset.
BootAddr_Reset == [i \in Entries |-> 0]

BootAddr == [i \in Entries |-> IF OpenSbi /\ i = 0 THEN AddrSpace - 1 ELSE 0]

Cfgs == [Entries -> CfgBytes \cup {PmpReset, BootByte}]
Addrs == [Entries -> AddrWrites \cup {0, AddrSpace - 1}]

ASSUME TableAssumption ==
    /\ TableSize \in Nat \ {0} /\ PageSize = PteSize * TableSize
    /\ PpnCount \in Nat \ {0} /\ PpnCount % (TableSize * TableSize) = 0
    /\ PpnCount * PageSize <= AddrSpace /\ AddrSpace % PageSize = 0
    /\ Ptes \subseteq Pte /\ BootPtes \subseteq [Slots -> Pte]
    /\ Roots \subseteq Ppns

\* An all-ones pmpaddr covers every address, for an address space of 2^w;
\* and the views of Hart are those of the entries that can be written here.
ASSUME ViewAssumption ==
    /\ CfgBytes \subseteq Cfg /\ AddrWrites \subseteq Addr
    /\ Grain(AddrSpace - 1) \in Nat /\ Grain(AddrSpace - 1) >= AddrSpace
    /\ \A a \in PmpCsrs \cap CsrAddrs :
          {View(cfg, addr) : cfg \in Cfgs, addr \in Addrs} \subseteq CsrValues[a]

VARIABLES
    pmpcfg, pmpaddr,
    ptes,        \* the entries in memory
    root         \* the page number in satp
mmuVars == <<h, last, pmpcfg, pmpaddr, ptes, root>>

MmuInit ==
    /\ Init
    /\ pmpcfg = BootCfg /\ pmpaddr = BootAddr
    /\ ptes \in BootPtes
    /\ root = 0

-----------------------------------------------------------------------------
(* The walk of Processor::translate, as hart g, over the entries m.        *)

\* The pages an entry of level i spans.
Span(i) == IF i = 0 THEN 1 ELSE IF i = 1 THEN TableSize ELSE TableSize * TableSize

Vpn(va, i) == ((va \div PageSize) \div Span(i)) % TableSize

Valid(e) == e.v /\ (e.r \/ ~e.w)
Leaf(e) == e.r \/ e.w \/ e.x

\* What a leaf must have to be fetched through.
Suits(g, e, i) ==
    /\ e.x
    /\ g.mode = User => e.u
    /\ g.mode = Supervisor => ~e.u
    /\ e.ppn % Span(i) = 0

\* adjusted_ppn * PAGE_SIZE + offset
PageAt(e, i, va) ==
    LET low == (va \div PageSize) % Span(i)
    IN  Wrap(((e.ppn - (e.ppn % Span(i))) + low) * PageSize + (va % PageSize))

\* Bus::readDouble: zero where the bus refuses or memory has less than eight
\* bytes.
EntryAt(g, m, p) == IF ReadOk(g, p, PteSize) /\ p \in DOMAIN m THEN m[p] ELSE ZeroPte

\* One round of the loop, at level i in the table of page ppn.
Visit(g, m, va, i, ppn) ==
    LET p == Wrap(ppn * PageSize + PteSize * Vpn(va, i))
        e == EntryAt(g, m, p)
    IN  [form |-> IF ~Valid(e) THEN "fault"
                  ELSE IF ~Leaf(e) THEN "table"
                  ELSE IF Suits(g, e, i) THEN "leaf" ELSE "fault",
         ppn |-> e.ppn,
         pa |-> PageAt(e, i, va),
         h |-> BusRead(g, p, PteSize)]

Descend(g, m, va, i, w) == IF w.form = "table" THEN Visit(g, m, va, i, w.ppn) ELSE w

\* A walk that runs out of levels faults; a fault is raised at the program
\* counter, wherever a refused read has moved it.
Walk(g, m, r, va) ==
    LET w == Descend(g, m, va, 0, Descend(g, m, va, 1, Visit(g, m, va, 2, r)))
    IN  IF w.form = "leaf"
        THEN [h |-> w.h, ok |-> TRUE, pa |-> w.pa]
        ELSE [h |-> RaiseException(w.h, INSTRUCTION_ACCESS_FAULT),
              ok |-> FALSE, pa |-> 0]

Walks(g) == g.mode # Machine /\ CanRead(g, \h180) /\ g.satp = SATP_MODE_SV39

MmuTranslate(g, m, r, va) ==
    IF Walks(g) THEN {Walk(g, m, r, va)} ELSE Translate(g, va)

-----------------------------------------------------------------------------
(* The fetch of Processor::step, with the addresses it reads.              *)

Read(f, at) == [f |-> f, at |-> at]

\* Seeded fault: the second half is read next to the first, page or not.
MmuWide_SamePage(g, m, r, pa) ==
    {Read(SecondHalf(g, g.pc, Wrap(pa + 2)), <<pa, Wrap(pa + 2)>>)}

MmuWide(g, m, r, pa) ==
    IF g.pc % PageSize = PageSize - 2
    THEN {IF t.ok THEN Read(SecondHalf(t.h, g.pc, t.pa), <<pa, t.pa>>)
                  ELSE Read(Fetched(t.h, g.pc, 0, "failed"), <<pa>>)
            : t \in MmuTranslate(g, m, r, Wrap(g.pc + 2))}
    ELSE {Read(SecondHalf(g, g.pc, Wrap(pa + 2)), <<pa, Wrap(pa + 2)>>)}

MmuFetchAt(g, m, r, pa) ==
    IF ReadOk(g, pa, 2)
    THEN {Read(Fetched(g, g.pc, 2, "half"), <<pa>>)} \cup MmuWide(g, m, r, pa)
    ELSE {Read(Fetched(RaiseException(g, LOAD_ACCESS_FAULT), g.pc, 2, "none"), <<pa>>)}

MmuFetch(g, m, r) ==
    UNION {IF t.ok THEN MmuFetchAt(t.h, m, r, t.pa)
                   ELSE {Read(Fetched(t.h, g.pc, 0, "failed"), <<>>)}
            : t \in MmuTranslate(g, m, r, g.pc)}

\* mtime and mtimecmp answer a doubleword read before memory does.
Entry(clint) ==
    [p \in Slots \cup ClintDoubles |-> IF p \in ClintDoubles THEN clint[p] ELSE ptes[p]]

MmuFetches(forms) ==
    {s \in UNION {MmuFetch(StartStep(h), Entry(clint), root)
                    : clint \in [ClintDoubles -> Pte]} :
        /\ s.f.form \in forms
        /\ s.f.form \in {"half", "word", "low"} => s.f.len \in Lengths}

-----------------------------------------------------------------------------
(* The steps.                                                              *)

KeepsTables == UNCHANGED <<pmpcfg, pmpaddr, ptes, root>>

MmuFetchFails ==
    /\ h.alive
    /\ \E s \in MmuFetches({"failed"}) :
          /\ h' = s.f.h
          /\ last' = IF h.mode = User THEN "user" ELSE "failed"
    /\ KeepsTables

MmuIllegal ==
    /\ h.alive
    /\ \E s \in MmuFetches({"half", "word", "low", "none"}) :
          /\ s.f.form # "none" => "illegal" \in Program
          /\ Finish(s.f, RaiseException(s.f.h, ILLEGAL_INSTRUCTION), "other")
    /\ KeepsTables

MmuJump ==
    /\ Executes("jump")
    /\ \E s \in MmuFetches({"half", "word", "low"}), t \in JumpTargets :
          /\ Finish(s.f, [s.f.h EXCEPT !.pc = t], "other")
    /\ KeepsTables

\* A store of an aligned doubleword, outside memory dropped.
MmuStore ==
    /\ Executes("store")
    /\ \E s \in MmuFetches({"half", "word", "low"}), x \in Accesses, e \in Ptes :
          /\ x[2] = PteSize /\ x[1] % PteSize = 0
          /\ \E g \in BusWrite(s.f.h, x[1], PteSize) : Finish(s.f, g, "other")
          /\ ptes' = IF x[1] \in Slots /\ PmpAllows(s.f.h, x[1], s.f.h.pmp.store)
                     THEN [ptes EXCEPT ![x[1]] = e] ELSE ptes
    /\ UNCHANGED <<pmpcfg, pmpaddr, root>>

MmuMret ==
    /\ Executes("mret")
    /\ \E s \in MmuFetches({"word"}) :
          /\ \E g \in ExecMret(s.f.h) : Finish(s.f, g, "other")
    /\ KeepsTables

\* What the registers can be after a write to CSR a: a pmpcfg holds the bytes
\* of eight entries.
CfgsAfter(a) ==
    {c \in Cfgs : \A i \in Entries :
        c[i] \in IF a = \h3A0 + 2 * (i \div 8) THEN CfgBytes ELSE {pmpcfg[i]}}
AddrsAfter(a) ==
    {d \in Addrs : \A i \in Entries :
        d[i] \in IF a = \h3B0 + i THEN AddrWrites ELSE {pmpaddr[i]}}
RootsAfter(a) == IF a = \h180 THEN Roots ELSE {root}

\* csrrw and csrrwi, with the old value wanted or not.
MmuCsr ==
    /\ Executes("csr")
    /\ \E a \in CsrAddrs :
       \E c \in CfgsAfter(a), d \in AddrsAfter(a), n \in RootsAfter(a) :
       \E v \in IF a \in PmpCsrs THEN {View(c, d)} ELSE CsrValues[a] :
       \E s \in MmuFetches({"word"}), rd \in BOOLEAN :
       \E r \in ExecCsr(s.f.h, a, "rw", rd, TRUE, v) :
          /\ Finish(s.f, r.h, IF r.done THEN "csr_done" ELSE "csr_dropped")
          /\ IF r.done THEN pmpcfg' = c /\ pmpaddr' = d /\ root' = n
                       ELSE UNCHANGED <<pmpcfg, pmpaddr, root>>
    /\ UNCHANGED ptes

MmuNext == MmuFetchFails \/ MmuIllegal \/ MmuJump \/ MmuStore \/ MmuMret \/ MmuCsr

MmuSpec == MmuInit /\ [][MmuNext]_mmuVars

-----------------------------------------------------------------------------
(* Properties.                                                             *)

\* The registers hold what was written to them, and what PMP answers, which
\* raiseTrap, the bus and the CSR file never touch, is what they say.
MmuTypeOK ==
    /\ h \in HartState /\ last \in Outcomes
    /\ pmpcfg \in Cfgs /\ pmpaddr \in Addrs
    /\ ptes \in [Slots -> Pte] /\ root \in Ppns
    /\ h.pmp = View(pmpcfg, pmpaddr)

\* The tables that a walk for va can be in at level i, of the entries m.
TableOf(va, i, t) == t * PageSize + PteSize * Vpn(va, i)
Below(m, va, i, ts) ==
    {m[q].ppn : q \in {q \in DOMAIN m : /\ \E t \in ts : q = TableOf(va, i, t)
                                        /\ m[q].v /\ ~Leaf(m[q])}}
Tables(m, va, i) ==
    CASE i = 2 -> {root}
      [] i = 1 -> Below(m, va, 2, {root})
      [] i = 0 -> Below(m, va, 1, Below(m, va, 2, {root}))

\* The Sv39 mapping as a relation, with no order of reading: where the tables
\* let supervisor code execute address va from.
Executable(e, i) == e.v /\ e.x /\ ~e.u /\ (e.w => e.r) /\ e.ppn % Span(i) = 0
MappedAt(m, va, i) ==
    {m[q].ppn * PageSize + (va % (PageSize * Span(i))) :
        q \in {q \in DOMAIN m : /\ \E t \in Tables(m, va, i) : q = TableOf(va, i, t)
                                /\ Executable(m[q], i)}}
Mapped(m, va) == UNION {MappedAt(m, va, i) : i \in 0 .. 2}

\* Whatever the tables, satp and PMP were made to be, by whichever steps, and
\* whatever the clock reads where the tables lie in the CLINT: supervisor code
\* that is fetched whole has each half of its instruction from where the tables
\* map it executable, and from where PMP lets supervisor code read (translate,
\* the fetch over a page end, checkPMP).  An odd program counter, which only
\* xRET can install, is left out: the code looks for the page end at 0xFFE.
FetchesMappedCode ==
    h.alive /\ h.mode = Supervisor /\ h.satp = SATP_MODE_SV39 /\ h.pc % 2 = 0 =>
        \A clint \in [ClintDoubles -> Pte] :
        \A s \in MmuFetch(StartStep(h), Entry(clint), root) :
            s.f.form \in {"half", "word"} =>
                \A k \in DOMAIN s.at :
                    /\ s.at[k] \in Mapped(Entry(clint), Wrap(h.pc + 2 * (k - 1)))
                    /\ s.at[k] \in h.pmp.load

\* A region as the manual has it, for registers that do not reach beyond the
\* address space: from one to the next, one granule, or the naturally aligned
\* power of two that the ones at the end of the register stand for.  A power of
\* two has no odd divisor but 1.
Powers == {n \in 1 .. AddrSpace : \A d \in 1 .. n : n % d = 0 /\ d % 2 = 1 => d = 1}
Region(i) ==
    LET a == pmpaddr[i]
    IN  CASE pmpcfg[i].a = TOR -> (IF i = 0 THEN 0 ELSE 4 * pmpaddr[i - 1]) .. 4 * a - 1
          [] pmpcfg[i].a = NA4 -> 4 * a .. 4 * a + 3
          [] pmpcfg[i].a = NAPOT ->
                LET n == CHOOSE n \in Powers : a % (2 * n) = n - 1
                IN  4 * (a - (n - 1)) .. 4 * (a - (n - 1)) + 8 * n - 1
          [] OTHER -> {}
InRange(i) ==
    \/ 4 * pmpaddr[i] + 3 \in Addr /\ (pmpcfg[i].a = NA4 => 4 * pmpaddr[i] + 4 \in Addr)
    \/ pmpcfg[i].a = NAPOT /\ pmpaddr[i] = AddrSpace - 1

Granted(region, field) ==
    {p \in Addr : \E i \in Entries :
        /\ p \in region[i] /\ pmpcfg[i][field]
        /\ \A j \in 0 .. i - 1 : p \notin region[j]}

\* After any writes to pmpcfg and pmpaddr in any order, the bus allows what the
\* regions of the manual allow, the first of them that holds an address
\* deciding (checkPMP).  Registers beyond the address space excepted, which the
\* code shifts out, and a granule that ends it, whose end wraps to 0.
GrantsByRegion ==
    LET region == [i \in Entries |-> Region(i)]
    IN  (\A i \in Entries : InRange(i)) =>
            h.pmp = [lock |-> Granted(region, "l"), load |-> Granted(region, "r"),
                     store |-> Granted(region, "w")]
=============================================================================
