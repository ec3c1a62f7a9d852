----------------------------- MODULE MmuProofs ------------------------------
(***************************************************************************)
(* The hart with its PMP entries and page tables implements Hart, which    *)
(* knows only what they can come to, for every address space, number of    *)
(* PMP entries, size of the tables, contents of them, and program; its     *)
(* walk finds the mapping of Sv39, and its PMP scan the manual's regions.  *)
(***************************************************************************)
EXTENDS Mmu, HartProofs, WellFoundedInduction

-----------------------------------------------------------------------------
(* The scan of checkPMP and the view of it.                                *)

\* A set of numbers has a least one.
LEMMA LeastNumber ==
  ASSUME NEW T, T \subseteq Nat, T # {}
  PROVE  \E x \in T : \A y \in T : x <= y
  <1> DEFINE R == {ss \in Nat \X Nat : ss[1] < ss[2]}
  <1>1. IsWellFoundedOn(R, Nat) BY NatLessThanWellFounded DEF OpToRel
  <1>2. PICK x \in T : \A y \in T : <<y, x>> \notin R
    <2> HIDE DEF R
    <2> QED BY <1>1, WFMin
  <1>3. \A y \in T : ~(y < x) BY <1>2
  <1> QED BY <1>3

\* An address that some entry matches is decided by one of them.
LEMMA SomeEntryDecides ==
  ASSUME NEW cfg, NEW addr, NEW p, NEW j \in Entries, p \in Matches(cfg, addr, j)
  PROVE  \E i \in Entries : p \in Decides(cfg, addr, i)
  <1> DEFINE T == {i \in Entries : p \in Matches(cfg, addr, i)}
  <1>1. T \subseteq Nat /\ T # {} BY DEF Entries
  <1> HIDE DEF T
  <1>2. PICK i \in T : \A k \in T : i <= k BY <1>1, LeastNumber
  <1> USE DEF T
  <1>3. i \in Entries /\ i \in Nat /\ p \in Matches(cfg, addr, i) BY <1>1
  <1>4. ASSUME NEW k \in 0 .. i - 1 PROVE p \notin Matches(cfg, addr, k)
    <2>1. k \in Entries /\ ~(i <= k) BY <1>3, PmpCountAssumption DEF Entries
    <2> QED BY <1>2, <2>1
  <1>5. p \in Decides(cfg, addr, i) BY <1>3, <1>4 DEF Decides
  <1> QED BY <1>3, <1>5

\* No address is decided by two entries.
LEMMA OneEntryDecides ==
  ASSUME NEW cfg, NEW addr, NEW p, NEW i \in Entries, NEW j \in Entries,
         p \in Decides(cfg, addr, i), p \in Decides(cfg, addr, j)
  PROVE  i = j
  <1>1. p \in Matches(cfg, addr, i) /\ p \in Matches(cfg, addr, j) BY DEF Decides
  <1>2. i \in Nat /\ j \in Nat BY DEF Entries
  <1>3. ~(i < j)
    <2>1. i < j => i \in 0 .. j - 1 BY <1>2
    <2>2. i \notin 0 .. j - 1 BY <1>1 DEF Decides
    <2> QED BY <2>1, <2>2
  <1>4. ~(j < i)
    <2>1. j < i => j \in 0 .. i - 1 BY <1>2
    <2>2. j \notin 0 .. i - 1 BY <1>1 DEF Decides
    <2> QED BY <2>1, <2>2
  <1> QED BY <1>2, <1>3, <1>4

\* The addresses of the entries that have a permission.
Having(cfg, addr, field) ==
    UNION {Decides(cfg, addr, i) : i \in {i \in Entries : cfg[i][field]}}

LEMMA ViewFields ==
  ASSUME NEW cfg, NEW addr
  PROVE  View(cfg, addr) = [lock |-> Having(cfg, addr, "l"),
                            load |-> Having(cfg, addr, "r"),
                            store |-> Having(cfg, addr, "w")]
  BY DEF View, Having

\* checkPMP as written, entry by entry, allows what the view allows: the sets
\* of PmpView lose nothing the bus can tell.
THEOREM CheckIsView ==
  ASSUME NEW g, NEW cfg \in [Entries -> Cfg], NEW addr, NEW p, NEW type \in {"r", "w"},
         g.pmp = View(cfg, addr)
  PROVE  CheckPmp(g.mode, cfg, addr, p, type)
           <=> PmpAllows(g, p, Having(cfg, addr, type))
  <1>1. g.pmp.lock = Having(cfg, addr, "l") BY ViewFields
  <1>2. \A i \in Entries : cfg[i].l \in BOOLEAN /\ cfg[i][type] \in BOOLEAN
    BY DEF Cfg
  <1>3. CASE \E i \in Entries : p \in Matches(cfg, addr, i)
    <2>1. PICK i \in Entries : p \in Decides(cfg, addr, i)
      BY <1>3, SomeEntryDecides
    <2>2. \A j \in Entries : p \in Decides(cfg, addr, j) => j = i
      BY <2>1, OneEntryDecides
    <2>3. (p \in Having(cfg, addr, "l")) <=> cfg[i].l
      BY <2>1, <2>2 DEF Having
    <2>4. (p \in Having(cfg, addr, type)) <=> cfg[i][type]
      BY <2>1, <2>2 DEF Having
    <2>5. CheckPmp(g.mode, cfg, addr, p, type)
            <=> ((g.mode = Machine /\ ~cfg[i].l) \/ cfg[i][type])
      BY <1>3, <2>1, <2>2 DEF CheckPmp
    <2> QED BY <1>1, <2>3, <2>4, <2>5 DEF PmpAllows
  <1>4. CASE \A i \in Entries : p \notin Matches(cfg, addr, i)
    <2>1. \A i \in Entries : p \notin Decides(cfg, addr, i) BY <1>4 DEF Decides
    <2>2. p \notin Having(cfg, addr, "l") /\ p \notin Having(cfg, addr, type)
      BY <2>1 DEF Having
    <2>3. CheckPmp(g.mode, cfg, addr, p, type) <=> g.mode = Machine
      BY <1>4, <2>1 DEF CheckPmp
    <2> QED BY <1>1, <2>2, <2>3 DEF PmpAllows
  <1> QED BY <1>3, <1>4
-----------------------------------------------------------------------------
(* Boot: pmpcfg0 and pmpaddr0 of OpenSBISystem open every address.         *)

LEMMA SmallQuotient ==
  ASSUME NEW a \in Nat, NEW b \in Nat, a < b
  PROVE  a \div b = 0
  OBVIOUS

\* A mask shifted out of the register matches every address.
LEMMA AllOnesMatch ==
  ASSUME OpenSbi
  PROVE  Matches(BootCfg, BootAddr, 0) = Addr
  <1> DEFINE grain == Grain(AddrSpace - 1)
  <1>1. 0 \in Entries BY PmpCountAssumption DEF Entries
  <1>2. BootCfg[0] = BootByte /\ BootAddr[0] = AddrSpace - 1
    BY <1>1 DEF BootCfg, BootAddr
  <1>3. BootCfg[0].a = NAPOT BY <1>2 DEF BootByte
  <1>4. grain \in Nat /\ grain >= AddrSpace BY ViewAssumption
  <1>5. AddrSpace \in Nat \ {0} BY AddressAssumption
  <1> HIDE DEF grain
  <1>6. (AddrSpace - 1) \div grain = 0
    <2>1. AddrSpace - 1 \in Nat /\ AddrSpace - 1 < grain BY <1>4, <1>5
    <2> QED BY <1>4, <2>1, SmallQuotient
  <1>7. ASSUME NEW p \in Addr PROVE (p \div Granule) \div grain = 0
    <2>1. p \in Nat /\ p < AddrSpace BY <1>5 DEF Addr
    <2>2. p \div 4 \in Nat /\ p \div 4 <= p BY <2>1
    <2>3. p \div 4 < grain BY <1>4, <1>5, <2>1, <2>2
    <2> QED BY <1>4, <2>2, <2>3, SmallQuotient DEF Granule
  <1>8. Matches(BootCfg, BootAddr, 0)
          = {p \in Addr : (p \div Granule) \div grain = (AddrSpace - 1) \div grain}
    BY <1>2, <1>3 DEF Matches, grain, TOR, NA4, NAPOT
  <1> QED BY <1>6, <1>7, <1>8

\* An entry that is off matches nothing.
LEMMA OffMatchesNothing ==
  ASSUME NEW i \in Entries, BootCfg[i] = PmpReset
  PROVE  Matches(BootCfg, BootAddr, i) = {}
  <1>1. BootCfg[i].a = OFF BY DEF PmpReset
  <1> QED BY <1>1 DEF Matches, OFF, TOR, NA4, NAPOT

LEMMA BootView ==
  View(BootCfg, BootAddr) = IF OpenSbi THEN PmpOpen ELSE PmpNone
  <1>1. ASSUME NEW i \in Entries, ~OpenSbi \/ i # 0
        PROVE  BootCfg[i] = PmpReset /\ Decides(BootCfg, BootAddr, i) = {}
    <2>1. BootCfg[i] = PmpReset BY <1>1 DEF BootCfg
    <2> QED BY <2>1, OffMatchesNothing DEF Decides
  <1>2. ~PmpReset.l /\ ~PmpReset.r /\ ~PmpReset.w BY DEF PmpReset
  <1>3. ~BootByte.l /\ BootByte.r /\ BootByte.w BY DEF BootByte
  <1>4. 0 \in Entries BY PmpCountAssumption DEF Entries
  <1>5. CASE OpenSbi
    <2>1. Decides(BootCfg, BootAddr, 0) = Addr
      <3>1. 0 .. 0 - 1 = {} OBVIOUS
      <3>2. Decides(BootCfg, BootAddr, 0) = Matches(BootCfg, BootAddr, 0)
        BY <3>1 DEF Decides
      <3> QED BY <1>5, <3>2, AllOnesMatch
    <2>2. BootCfg[0] = BootByte BY <1>4, <1>5 DEF BootCfg
    <2>3. Having(BootCfg, BootAddr, "l") = {}
      BY <1>1, <1>2, <1>3, <2>2 DEF Having
    <2>4. /\ Having(BootCfg, BootAddr, "r") = Addr
          /\ Having(BootCfg, BootAddr, "w") = Addr
      BY <1>1, <1>2, <1>3, <1>4, <2>1, <2>2 DEF Having
    <2> QED BY <1>5, <2>3, <2>4, ViewFields DEF PmpOpen
  <1>6. CASE ~OpenSbi
    <2>1. /\ Having(BootCfg, BootAddr, "l") = {}
          /\ Having(BootCfg, BootAddr, "r") = {}
          /\ Having(BootCfg, BootAddr, "w") = {}
      BY <1>1, <1>6 DEF Having
    <2> QED BY <1>6, <2>1, ViewFields DEF PmpNone
  <1> QED BY <1>5, <1>6

-----------------------------------------------------------------------------
(* The walk comes to one of the outcomes of Hart.                          *)

Memory == [Slots \cup ClintDoubles -> Pte]

LEMMA IntQuotient ==
  ASSUME NEW a \in Int, NEW b \in Nat \ {0}
  PROVE  a \div b \in Int /\ a % b \in Int
  OBVIOUS

LEMMA TableSizes ==
  /\ TableSize \in Nat \ {0} /\ PageSize \in Nat \ {0}
  /\ \A i \in 0 .. 2 : Span(i) \in Nat \ {0}
  <1>1. TableSize \in Nat \ {0} BY TableAssumption
  <1>2. TableSize * TableSize \in Nat \ {0} BY <1>1
  <1> QED BY <1>1, <1>2, AddressAssumption DEF Span

LEMMA EntryType ==
  ASSUME NEW g, NEW m \in Memory, NEW p
  PROVE  /\ EntryAt(g, m, p) \in Pte
         /\ ~ReadOk(g, p, PteSize) => EntryAt(g, m, p) = ZeroPte
  <1>1. 0 \in Ppns BY TableAssumption DEF Ppns
  <1>2. ZeroPte \in Pte BY <1>1 DEF ZeroPte, Pte
  <1>3. DOMAIN m = Slots \cup ClintDoubles /\ \A q \in DOMAIN m : m[q] \in Pte
    BY DEF Memory
  <1> QED BY <1>2, <1>3 DEF EntryAt

\* A round that does not fault has read its entry, and a leaf gives an address.
VisitResult(g, w) ==
    /\ \E p \in Addr : w.h = BusRead(g, p, 8)
    /\ w.form # "fault" => w.h = g
    /\ w.pa \in Addr /\ w.ppn \in Int

LEMMA VisitType ==
  ASSUME NEW g, NEW m \in Memory, NEW va \in Int, NEW i \in 0 .. 2, NEW ppn \in Int
  PROVE  VisitResult(g, Visit(g, m, va, i, ppn))
  <1> DEFINE p == Wrap(ppn * PageSize + PteSize * Vpn(va, i))
             e == EntryAt(g, m, p)
             w == Visit(g, m, va, i, ppn)
  <1>1. Vpn(va, i) \in Int
    <2>1. va \div PageSize \in Int BY TableSizes, IntQuotient
    <2>2. (va \div PageSize) \div Span(i) \in Int BY <2>1, TableSizes, IntQuotient
    <2>3. ((va \div PageSize) \div Span(i)) % TableSize \in Int
      BY <2>2, TableSizes, IntQuotient
    <2> QED BY <2>3 DEF Vpn
  <1>2. p \in Addr
    <2>1. ppn * PageSize + PteSize * Vpn(va, i) \in Int
      BY <1>1, TableSizes DEF PteSize
    <2> QED BY <2>1, WrapType
  <1>3. e \in Pte /\ (~ReadOk(g, p, PteSize) => e = ZeroPte) BY EntryType
  <1>4. e.ppn \in Int BY <1>3 DEF Pte, Ppns
  <1>5. PageAt(e, i, va) \in Addr
    <2>1. e.ppn % Span(i) \in Int BY <1>4, TableSizes, IntQuotient
    <2>2. va \div PageSize \in Int /\ va % PageSize \in Int
      BY TableSizes, IntQuotient
    <2>3. (va \div PageSize) % Span(i) \in Int BY <2>2, TableSizes, IntQuotient
    <2>4. ((e.ppn - (e.ppn % Span(i))) + ((va \div PageSize) % Span(i))) * PageSize
            + (va % PageSize) \in Int
      BY <1>4, <2>1, <2>2, <2>3, TableSizes
    <2> QED BY <2>4, WrapType DEF PageAt
  <1> HIDE DEF p, e
  <1>6. /\ w.h = BusRead(g, p, 8) /\ w.pa = PageAt(e, i, va) /\ w.ppn = e.ppn
        /\ w.form # "fault" => Valid(e)
    BY DEF Visit, p, e, PteSize
  <1>7. w.form # "fault" => w.h = g
    <2>1. ~Valid(ZeroPte) BY DEF Valid, ZeroPte
    <2>2. w.form # "fault" => ReadOk(g, p, 8) BY <1>3, <1>6, <2>1 DEF PteSize
    <2> QED BY <1>6, <2>2 DEF BusRead
  <1> HIDE DEF w
  <1>8. VisitResult(g, w) BY <1>2, <1>4, <1>5, <1>6, <1>7 DEF VisitResult
  <1> QED BY <1>8 DEF w

LEMMA DescendType ==
  ASSUME NEW g, NEW m \in Memory, NEW va \in Int, NEW i \in 0 .. 2,
         NEW w, VisitResult(g, w)
  PROVE  VisitResult(g, Descend(g, m, va, i, w))
  <1>1. w.ppn \in Int BY DEF VisitResult
  <1>2. VisitResult(g, Visit(g, m, va, i, w.ppn)) BY <1>1, VisitType
  <1> QED BY <1>2 DEF Descend

LEMMA WalkOutcome ==
  ASSUME NEW g, NEW m \in Memory, NEW r \in Int, NEW va \in Int
  PROVE  Walk(g, m, r, va) \in Sv39Outcomes(g)
  <1> DEFINE w == Descend(g, m, va, 0, Descend(g, m, va, 1, Visit(g, m, va, 2, r)))
             fault(s) == [h |-> RaiseException(s, INSTRUCTION_ACCESS_FAULT),
                          ok |-> FALSE, pa |-> 0]
  <1>1. VisitResult(g, w)
    <2> 0 \in 0 .. 2 /\ 1 \in 0 .. 2 /\ 2 \in 0 .. 2 OBVIOUS
    <2>1. VisitResult(g, Visit(g, m, va, 2, r)) BY VisitType
    <2>2. VisitResult(g, Descend(g, m, va, 1, Visit(g, m, va, 2, r)))
      BY <2>1, DescendType
    <2> QED BY <2>2, DescendType
  <1>2. Walk(g, m, r, va) = IF w.form = "leaf"
                            THEN [h |-> w.h, ok |-> TRUE, pa |-> w.pa]
                            ELSE fault(w.h)
    BY DEF Walk
  <1>3. Sv39Outcomes(g) = {[h |-> g, ok |-> TRUE, pa |-> p] : p \in Addr}
                            \cup {fault(g)} \cup {fault(BusRead(g, p, 8)) : p \in Addr}
    BY DEF Sv39Outcomes
  <1> HIDE DEF w, fault
  <1>4. CASE w.form = "leaf"
    <2>1. w.h = g /\ w.pa \in Addr BY <1>1, <1>4 DEF VisitResult
    <2> QED BY <1>2, <1>3, <1>4, <2>1
  <1>5. CASE w.form # "leaf"
    <2>1. PICK p \in Addr : w.h = BusRead(g, p, 8) BY <1>1 DEF VisitResult
    <2> QED BY <1>2, <1>3, <1>5, <2>1
  <1> QED BY <1>4, <1>5

LEMMA TranslateOutcome ==
  ASSUME NEW g, NEW m \in Memory, NEW r \in Int, NEW va \in Int
  PROVE  MmuTranslate(g, m, r, va) \subseteq Translate(g, va)
  <1>1. CASE Walks(g)
    <2>1. Translate(g, va) = Sv39Outcomes(g)
      BY <1>1 DEF Walks, Translate, SATP_MODE_BARE, SATP_MODE_SV39
    <2>2. MmuTranslate(g, m, r, va) = {Walk(g, m, r, va)}
      BY <1>1 DEF MmuTranslate
    <2> QED BY <2>1, <2>2, WalkOutcome
  <1>2. CASE ~Walks(g)
    BY <1>2 DEF MmuTranslate
  <1> QED BY <1>1, <1>2
-----------------------------------------------------------------------------
(* The fetch delivers what the fetch of Hart may.                          *)

LEMMA WideOutcome ==
  ASSUME NEW g \in HartState, NEW m \in Memory, NEW r \in Int, NEW pa
  PROVE  \A s \in MmuWide(g, m, r, pa) : s.f \in WideFetch(g, pa)
  <1>1. Wrap(g.pc + 2) \in Int BY FieldTypes, NextHalf, AddrInt
  <1>2. CASE g.pc % PageSize = PageSize - 2
    <2>1. MmuTranslate(g, m, r, Wrap(g.pc + 2)) \subseteq Translate(g, Wrap(g.pc + 2))
      BY <1>1, TranslateOutcome
    <2> QED BY <1>2, <2>1 DEF MmuWide, WideFetch, Read
  <1>3. CASE g.pc % PageSize # PageSize - 2
    BY <1>3 DEF MmuWide, WideFetch, Read
  <1> QED BY <1>2, <1>3

LEMMA FetchAtOutcome ==
  ASSUME NEW g \in HartState, NEW m \in Memory, NEW r \in Int, NEW pa
  PROVE  \A s \in MmuFetchAt(g, m, r, pa) : s.f \in FetchAt(g, pa)
  <1>1. CASE ReadOk(g, pa, 2)
    BY <1>1, WideOutcome DEF MmuFetchAt, FetchAt, Read
  <1>2. CASE ~ReadOk(g, pa, 2)
    BY <1>2 DEF MmuFetchAt, FetchAt, Read
  <1> QED BY <1>1, <1>2

LEMMA FetchOutcome ==
  ASSUME NEW g \in HartState, NEW m \in Memory, NEW r \in Int
  PROVE  \A s \in MmuFetch(g, m, r) : s.f \in Fetch(g)
  <1> SUFFICES ASSUME NEW s \in MmuFetch(g, m, r) PROVE s.f \in Fetch(g)
    OBVIOUS
  <1>1. g.pc \in Addr /\ g.pc \in Int BY FieldTypes, AddrInt
  <1>2. PICK t \in MmuTranslate(g, m, r, g.pc) :
           s \in IF t.ok THEN MmuFetchAt(t.h, m, r, t.pa)
                        ELSE {Read(Fetched(t.h, g.pc, 0, "failed"), <<>>)}
    BY DEF MmuFetch
  <1>3. t \in Translate(g, g.pc) BY <1>1, TranslateOutcome
  <1>4. t.h \in HartState BY <1>1, <1>3, TranslateType DEF Translations
  <1>5. s.f \in IF t.ok THEN FetchAt(t.h, t.pa)
                       ELSE {Fetched(t.h, g.pc, 0, "failed")}
    BY <1>2, <1>4, FetchAtOutcome DEF Read
  <1> QED BY <1>3, <1>5 DEF Fetch

LEMMA MmuFetchesOutcome ==
  ASSUME MmuTypeOK, NEW forms, NEW s \in MmuFetches(forms)
  PROVE  s.f \in Fetches(forms)
  <1>1. h \in HartState /\ ptes \in [Slots -> Pte] /\ root \in Int
    BY DEF MmuTypeOK, Ppns
  <1>2. StartStep(h) \in HartState BY <1>1, StartStepConfined
  <1>3. PICK clint \in [ClintDoubles -> Pte] :
           s \in MmuFetch(StartStep(h), Entry(clint), root)
    BY DEF MmuFetches
  <1>4. Entry(clint) \in Memory BY <1>1 DEF Entry, Memory
  <1>5. s.f \in Fetch(StartStep(h)) BY <1>1, <1>2, <1>3, <1>4, FetchOutcome
  <1> QED BY <1>5 DEF MmuFetches, Fetches

-----------------------------------------------------------------------------
(* Every step is a step of Hart.                                           *)

\* What a CSR instruction that came to r does to the state.
CsrEffect(a, c, d, n, v, f, r) ==
    /\ a \in PmpCsrs => v = View(c, d)
    /\ Finish(f, r.h, IF r.done THEN "csr_done" ELSE "csr_dropped")
    /\ IF r.done THEN pmpcfg' = c /\ pmpaddr' = d /\ root' = n
                 ELSE UNCHANGED <<pmpcfg, pmpaddr, root>>

LEMMA MmuCsrStep ==
  ASSUME MmuTypeOK, MmuCsr
  PROVE  \E a \in CsrAddrs :
         \E c \in CfgsAfter(a), d \in AddrsAfter(a), n \in RootsAfter(a) :
         \E v \in CsrValues[a], f \in Fetches({"word"}), rd \in BOOLEAN :
         \E r \in ExecCsr(f.h, a, "rw", rd, TRUE, v) : CsrEffect(a, c, d, n, v, f, r)
  <1>1. PICK a \in CsrAddrs :
          \E c \in CfgsAfter(a), d \in AddrsAfter(a), n \in RootsAfter(a) :
          \E v \in IF a \in PmpCsrs THEN {View(c, d)} ELSE CsrValues[a] :
          \E s \in MmuFetches({"word"}), rd \in BOOLEAN :
          \E r \in ExecCsr(s.f.h, a, "rw", rd, TRUE, v) :
             /\ Finish(s.f, r.h, IF r.done THEN "csr_done" ELSE "csr_dropped")
             /\ IF r.done THEN pmpcfg' = c /\ pmpaddr' = d /\ root' = n
                          ELSE UNCHANGED <<pmpcfg, pmpaddr, root>>
    BY DEF MmuCsr
  <1>2. PICK c \in CfgsAfter(a), d \in AddrsAfter(a), n \in RootsAfter(a) :
          \E v \in IF a \in PmpCsrs THEN {View(c, d)} ELSE CsrValues[a] :
          \E s \in MmuFetches({"word"}), rd \in BOOLEAN :
          \E r \in ExecCsr(s.f.h, a, "rw", rd, TRUE, v) :
             /\ Finish(s.f, r.h, IF r.done THEN "csr_done" ELSE "csr_dropped")
             /\ IF r.done THEN pmpcfg' = c /\ pmpaddr' = d /\ root' = n
                          ELSE UNCHANGED <<pmpcfg, pmpaddr, root>>
    BY <1>1
  <1>3. PICK v \in IF a \in PmpCsrs THEN {View(c, d)} ELSE CsrValues[a] :
          \E s \in MmuFetches({"word"}), rd \in BOOLEAN :
          \E r \in ExecCsr(s.f.h, a, "rw", rd, TRUE, v) :
             /\ Finish(s.f, r.h, IF r.done THEN "csr_done" ELSE "csr_dropped")
             /\ IF r.done THEN pmpcfg' = c /\ pmpaddr' = d /\ root' = n
                          ELSE UNCHANGED <<pmpcfg, pmpaddr, root>>
    BY <1>2
  <1>4. PICK s \in MmuFetches({"word"}), rd \in BOOLEAN :
          \E r \in ExecCsr(s.f.h, a, "rw", rd, TRUE, v) :
             /\ Finish(s.f, r.h, IF r.done THEN "csr_done" ELSE "csr_dropped")
             /\ IF r.done THEN pmpcfg' = c /\ pmpaddr' = d /\ root' = n
                          ELSE UNCHANGED <<pmpcfg, pmpaddr, root>>
    BY <1>3
  <1>5. s.f \in Fetches({"word"}) BY MmuFetchesOutcome
  <1>6. (a \in PmpCsrs => v = View(c, d)) /\ v \in CsrValues[a]
    <2>1. c \in Cfgs /\ d \in Addrs BY DEF CfgsAfter, AddrsAfter
    <2>2. a \in PmpCsrs => View(c, d) \in CsrValues[a] BY <2>1, ViewAssumption
    <2> QED BY <1>3, <2>2
  <1>7. PICK r \in ExecCsr(s.f.h, a, "rw", rd, TRUE, v) : CsrEffect(a, c, d, n, v, s.f, r)
    BY <1>4, <1>6 DEF CsrEffect
  <1> QED BY <1>5, <1>6, <1>7

LEMMA MmuStepImplements ==
  ASSUME MmuTypeOK
  PROVE  /\ MmuFetchFails => FetchFails
         /\ MmuIllegal => Illegal
         /\ MmuJump => Jump
         /\ MmuStore => Store
         /\ MmuMret => Mret
         /\ MmuCsr => Csr
  <1>1. \A forms : \A s \in MmuFetches(forms) : s.f \in Fetches(forms)
    BY MmuFetchesOutcome
  <1>2. MmuFetchFails => FetchFails BY <1>1 DEF MmuFetchFails, FetchFails
  <1>3. MmuIllegal => Illegal BY <1>1 DEF MmuIllegal, Illegal
  <1>4. MmuJump => Jump BY <1>1 DEF MmuJump, Jump
  <1>5. MmuStore => Store
    <2> SUFFICES ASSUME MmuStore PROVE Store OBVIOUS
    <2>1. PICK s \in MmuFetches({"half", "word", "low"}), x \in Accesses, e \in Ptes :
             /\ x[2] = PteSize
             /\ \E g \in BusWrite(s.f.h, x[1], PteSize) : Finish(s.f, g, "other")
      BY DEF MmuStore
    <2>2. s.f \in Fetches({"half", "word", "low"}) BY <1>1
    <2>3. \E g \in BusWrite(s.f.h, x[1], x[2]) : Finish(s.f, g, "other") BY <2>1
    <2>4. Executes("store") BY DEF MmuStore
    <2> QED BY <2>2, <2>3, <2>4 DEF Store
  <1>6. MmuMret => Mret BY <1>1 DEF MmuMret, Mret
  <1>7. MmuCsr => Csr
    <2> SUFFICES ASSUME MmuCsr PROVE Csr OBVIOUS
    <2>1. PICK a \in CsrAddrs :
            \E c \in CfgsAfter(a), d \in AddrsAfter(a), n \in RootsAfter(a) :
            \E v \in CsrValues[a], f \in Fetches({"word"}), rd \in BOOLEAN :
            \E r \in ExecCsr(f.h, a, "rw", rd, TRUE, v) : CsrEffect(a, c, d, n, v, f, r)
      BY MmuCsrStep
    <2>2. PICK f \in Fetches({"word"}), rd \in BOOLEAN :
            \E v \in CsrValues[a] : \E r \in ExecCsr(f.h, a, "rw", rd, TRUE, v) :
               Finish(f, r.h, IF r.done THEN "csr_done" ELSE "csr_dropped")
      BY <2>1 DEF CsrEffect
    <2>3. Executes("csr") BY DEF MmuCsr
    <2> QED BY <2>2, <2>3 DEF Csr
  <1> QED BY <1>2, <1>3, <1>4, <1>5, <1>6, <1>7

LEMMA MmuNextImplements == MmuTypeOK /\ [MmuNext]_mmuVars => [Next]_vars
  <1> SUFFICES ASSUME MmuTypeOK, [MmuNext]_mmuVars PROVE [Next]_vars OBVIOUS
  <1>1. CASE MmuNext BY <1>1, MmuStepImplements DEF MmuNext, Next
  <1>2. CASE UNCHANGED mmuVars BY <1>2 DEF mmuVars, vars
  <1> QED BY <1>1, <1>2

-----------------------------------------------------------------------------
(* The registers keep their types, and PMP answers what they say.          *)

LEMMA WriteKeepsPmp ==
  ASSUME NEW g \in HartState, NEW a, NEW v, a \notin PmpCsrs
  PROVE  WriteCSRRaw(g, a, v).pmp = g.pmp
  <1>1. CASE a \in BitCsrNumbers BY <1>1, CsrWrites DEF BitCsrNumbers, HartState
  <1>2. CASE a \in WordCsrNumbers BY <1>2, CsrWrites DEF WordCsrNumbers, HartState
  <1>3. CASE a \notin BitCsrNumbers /\ a \notin WordCsrNumbers
    BY <1>3, CsrWriteNone
  <1> QED BY <1>1, <1>2, <1>3

LEMMA ConfinedPmp ==
  ASSUME NEW g, NEW k, Confined(g, k)
  PROVE  k.pmp = g.pmp
  BY DEF Confined, SameConfig

\* A csrrw that ran to its end, on a PMP register, left there what it wrote.
PmpAfter(g, a, v, r) ==
    /\ r.done /\ a \in PmpCsrs => r.h.pmp = v
    /\ ~(r.done /\ a \in PmpCsrs) => r.h.pmp = g.pmp

LEMMA CsrPmp ==
  ASSUME NEW g \in HartState, NEW a, NEW rd, NEW src, NEW v,
         NEW r \in ExecCsr(g, a, "rw", rd, src, v)
  PROVE  PmpAfter(g, a, v, r)
  <1> USE DEF PmpAfter
  <1>1. PICK k \in (IF CsrReads("rw", rd) THEN ReadCSR(g, a) ELSE {g}) :
          r \in IF CsrReads("rw", rd) /\ k.trap_pending
                THEN {[h |-> k, done |-> FALSE]}
                ELSE IF CsrWritesBack("rw", src)
                THEN {[h |-> w, done |-> CanWrite(k, a)] :
                        w \in WriteCSR(k, a, CsrNewValue(k, a, "rw", v))}
                ELSE {[h |-> k, done |-> TRUE]}
    BY DEF ExecCsr
  <1>2. k \in HartState /\ k.pmp = g.pmp
    <2>1. k \in HartState /\ Confined(g, k)
      BY <1>1, CsrAccessTypes, IllegalConfined, ConfinedSelf DEF ReadCSR
    <2> QED BY <2>1, ConfinedPmp
  <1>3. CsrWritesBack("rw", src) /\ CsrNewValue(k, a, "rw", v) = v
    BY DEF CsrWritesBack, CsrNewValue
  <1>4. CASE r = [h |-> k, done |-> FALSE]
    BY <1>2, <1>4
  <1>5. ASSUME NEW w \in WriteCSR(k, a, v), r = [h |-> w, done |-> CanWrite(k, a)]
        PROVE  PmpAfter(g, a, v, r)
    <2>1. CASE CanWrite(k, a) /\ a \in PmpCsrs
      <3>1. w = [k EXCEPT !.pmp = v] BY <2>1, PmpWrite DEF WriteCSR
      <3> QED BY <1>2, <1>5, <2>1, <3>1 DEF HartState
    <2>2. CASE CanWrite(k, a) /\ a \notin PmpCsrs
      <3>1. w = WriteCSRRaw(k, a, v) BY <2>2 DEF WriteCSR
      <3> QED BY <1>2, <1>5, <2>2, <3>1, WriteKeepsPmp
    <2>3. CASE ~CanWrite(k, a)
      <3>1. Confined(k, w) BY <1>2, <2>3, CsrErrorConfined
      <3> QED BY <1>2, <1>5, <2>3, <3>1, ConfinedPmp
    <2> QED BY <2>1, <2>2, <2>3
  <1> QED BY <1>1, <1>3, <1>4, <1>5

\* A register that is not one of PMP leaves all of those as they are.
LEMMA OtherCsr ==
  ASSUME MmuTypeOK, NEW a, a \notin PmpCsrs,
         NEW c \in CfgsAfter(a), NEW d \in AddrsAfter(a)
  PROVE  c = pmpcfg /\ d = pmpaddr
  <1>1. ASSUME NEW i \in Entries PROVE c[i] = pmpcfg[i] /\ d[i] = pmpaddr[i]
    <2>1. i \in 0 .. 63 BY PmpCountAssumption DEF Entries
    <2>2. i \div 8 \in 0 .. 7 BY <2>1
    <2>3. \h3A0 + 2 * (i \div 8) \in PmpCsrs BY <2>2 DEF PmpCsrs
    <2>4. \h3B0 + i \in PmpCsrs BY <2>1 DEF PmpCsrs
    <2>5. a # \h3A0 + 2 * (i \div 8) /\ a # \h3B0 + i BY <2>3, <2>4
    <2>6. c[i] \in {pmpcfg[i]} BY <2>5, Zenon DEF CfgsAfter
    <2>7. d[i] \in {pmpaddr[i]} BY <2>5, Zenon DEF AddrsAfter
    <2> QED BY <2>6, <2>7
  <1>2. c \in Cfgs /\ d \in Addrs BY DEF CfgsAfter, AddrsAfter
  <1>3. pmpcfg \in Cfgs /\ pmpaddr \in Addrs BY DEF MmuTypeOK
  <1> QED BY <1>1, <1>2, <1>3 DEF Cfgs, Addrs

LEMMA MmuInitType == MmuInit => MmuTypeOK
  <1> SUFFICES ASSUME MmuInit PROVE MmuTypeOK OBVIOUS
  <1>1. h \in HartState /\ last \in Outcomes BY InitType DEF MmuInit, TypeOK
  <1>2. pmpcfg \in Cfgs /\ pmpaddr \in Addrs
    BY DEF MmuInit, BootCfg, BootAddr, Cfgs, Addrs
  <1>3. ptes \in [Slots -> Pte] /\ root \in Ppns
    BY TableAssumption DEF MmuInit, Ppns
  <1>4. h.pmp = View(pmpcfg, pmpaddr) BY BootView DEF MmuInit, Init, Boot
  <1> QED BY <1>1, <1>2, <1>3, <1>4 DEF MmuTypeOK

LEMMA MmuNextType == MmuTypeOK /\ [MmuNext]_mmuVars => MmuTypeOK'
  <1> SUFFICES ASSUME MmuTypeOK, [MmuNext]_mmuVars PROVE MmuTypeOK' OBVIOUS
  <1>1. h \in HartState /\ TypeOK BY DEF MmuTypeOK, TypeOK
  <1>2. h' \in HartState /\ last' \in Outcomes
    BY <1>1, MmuNextImplements, NextType DEF TypeOK
  <1>3. CASE UNCHANGED mmuVars BY <1>3 DEF mmuVars, MmuTypeOK
  <1>4. CASE MmuFetchFails \/ MmuIllegal \/ MmuJump \/ MmuMret
    <2>1. UNCHANGED <<pmpcfg, pmpaddr, ptes, root>>
      BY <1>4 DEF MmuFetchFails, MmuIllegal, MmuJump, MmuMret, KeepsTables
    <2>2. h'.pmp = h.pmp
      <3>1. CASE MmuFetchFails \/ MmuIllegal \/ MmuJump
        <4>1. Confined(h, h') BY <1>1, <3>1, MmuStepImplements, OrdinaryConfined
        <4> QED BY <4>1, ConfinedPmp
      <3>2. CASE MmuMret
        <4>1. PICK f \in Fetches({"word"}) : \E g \in ExecMret(f.h) : Finish(f, g, "other")
          BY <3>2, MmuStepImplements DEF Mret
        <4>2. PICK g \in ExecMret(f.h) : Finish(f, g, "other") BY <4>1
        <4>3. f.h \in HartState /\ f.h.pmp = h.pmp
          BY <1>1, FetchedConfined, ConfinedPmp
        <4>4. g \in HartState BY <4>3, ExecReturnTypes
        <4>5. g.pmp = f.h.pmp
          <5>1. MretTaken(f.h).pmp = f.h.pmp BY <4>3 DEF MretTaken, HartState
          <5>2. \A k \in IllegalAtPC(f.h) : k.pmp = f.h.pmp
            BY <4>3, IllegalConfined, ConfinedPmp
          <5> QED BY <5>1, <5>2 DEF ExecMret
        <4>6. h'.pmp = g.pmp BY <4>2, <4>4, RetireConfined, ConfinedPmp DEF Finish
        <4> QED BY <4>3, <4>5, <4>6
      <3> QED BY <1>4, <3>1, <3>2
    <2> QED BY <1>2, <2>1, <2>2 DEF MmuTypeOK
  <1>5. CASE MmuStore
    <2>1. UNCHANGED <<pmpcfg, pmpaddr, root>> BY <1>5 DEF MmuStore
    <2>2. ptes' \in [Slots -> Pte]
      <3>1. PICK x \in Accesses, e \in Ptes :
              ptes' = [ptes EXCEPT ![x[1]] = e] \/ ptes' = ptes
        BY <1>5 DEF MmuStore
      <3>2. e \in Pte /\ ptes \in [Slots -> Pte] BY TableAssumption DEF MmuTypeOK
      <3> QED BY <3>1, <3>2
    <2>3. h'.pmp = h.pmp
      <3>1. Confined(h, h') BY <1>1, <1>5, MmuStepImplements, OrdinaryConfined
      <3> QED BY <3>1, ConfinedPmp
    <2> QED BY <1>2, <2>1, <2>2, <2>3 DEF MmuTypeOK
  <1>6. CASE MmuCsr
    <2>1. PICK a \in CsrAddrs :
            \E c \in CfgsAfter(a), d \in AddrsAfter(a), n \in RootsAfter(a) :
            \E v \in CsrValues[a], f \in Fetches({"word"}), rd \in BOOLEAN :
            \E r \in ExecCsr(f.h, a, "rw", rd, TRUE, v) : CsrEffect(a, c, d, n, v, f, r)
      BY <1>6, MmuCsrStep
    <2>2. PICK c \in CfgsAfter(a), d \in AddrsAfter(a), n \in RootsAfter(a) :
            \E v \in CsrValues[a], f \in Fetches({"word"}), rd \in BOOLEAN :
            \E r \in ExecCsr(f.h, a, "rw", rd, TRUE, v) : CsrEffect(a, c, d, n, v, f, r)
      BY <2>1
    <2>3. PICK v \in CsrValues[a], f \in Fetches({"word"}), rd \in BOOLEAN :
            \E r \in ExecCsr(f.h, a, "rw", rd, TRUE, v) : CsrEffect(a, c, d, n, v, f, r)
      BY <2>2
    <2>4. PICK r \in ExecCsr(f.h, a, "rw", rd, TRUE, v) : CsrEffect(a, c, d, n, v, f, r)
      BY <2>3
    <2>5. f.h \in HartState /\ f.h.pmp = h.pmp BY <1>1, FetchedConfined, ConfinedPmp
    <2>6. /\ r.done /\ a \in PmpCsrs => r.h.pmp = v
          /\ ~(r.done /\ a \in PmpCsrs) => r.h.pmp = h.pmp
      <3>1. r \in ExecCsr(f.h, a, "rw", rd, TRUE, v) BY <2>4
      <3>2. PmpAfter(f.h, a, v, r) BY <2>5, <3>1, CsrPmp
      <3> QED BY <2>5, <3>2 DEF PmpAfter
    <2>7. r.h \in HartState
      <3>1. v \in CsrType(a) BY ProgramAssumption
      <3> QED BY <2>4, <2>5, <3>1, ExecCsrType
    <2>8. h'.pmp = r.h.pmp
      BY <2>4, <2>7, RetireConfined, ConfinedPmp DEF CsrEffect, Finish
    <2>9. c \in Cfgs /\ d \in Addrs /\ n \in Ppns
      BY TableAssumption DEF CfgsAfter, AddrsAfter, RootsAfter, MmuTypeOK
    <2>10. ptes' = ptes BY <1>6 DEF MmuCsr
    <2>11. /\ pmpcfg' \in Cfgs /\ pmpaddr' \in Addrs /\ root' \in Ppns
           /\ ptes' \in [Slots -> Pte]
      BY <2>4, <2>9, <2>10 DEF CsrEffect, MmuTypeOK
    <2>12. h'.pmp = View(pmpcfg', pmpaddr')
      <3>1. CASE r.done /\ a \in PmpCsrs
        BY <2>4, <2>6, <2>8, <3>1 DEF CsrEffect
      <3>2. CASE r.done /\ a \notin PmpCsrs
        <4>1. pmpcfg' = pmpcfg /\ pmpaddr' = pmpaddr
          BY <2>4, <3>2, OtherCsr DEF CsrEffect
        <4> QED BY <2>6, <2>8, <3>2, <4>1 DEF MmuTypeOK
      <3>3. CASE ~r.done
        <4>1. pmpcfg' = pmpcfg /\ pmpaddr' = pmpaddr BY <2>4, <3>3 DEF CsrEffect
        <4> QED BY <2>6, <2>8, <3>3, <4>1 DEF MmuTypeOK
      <3> QED BY <3>1, <3>2, <3>3
    <2> QED BY <1>2, <2>11, <2>12 DEF MmuTypeOK
  <1> QED BY <1>3, <1>4, <1>5, <1>6 DEF MmuNext

\* Every register holds what it can hold, and what PMP answers is always what
\* pmpcfg and pmpaddr say: no trap, store, return or CSR instruction parts them.
THEOREM MmuTypeCorrect == MmuSpec => []MmuTypeOK
  <1> QED BY MmuInitType, MmuNextType, PTL DEF MmuSpec

\* The hart with entries and tables does nothing that Hart does not: its PMP
\* registers are a PmpView, its walk one of Sv39Outcomes, at every step.
THEOREM ImplementsHart == MmuSpec => Spec
  <1>1. MmuInit => Init BY DEF MmuInit
  <1> QED BY <1>1, MmuTypeCorrect, MmuNextImplements, PTL DEF MmuSpec, Spec

\* So the supervisor is confined under real tables and entries too.
THEOREM MmuSupervisorIsolated == MmuSpec => SupervisorIsolation
  BY ImplementsHart, SupervisorIsolated, PTL


-----------------------------------------------------------------------------
(* Quotients and remainders.                                               *)

LEMMA MoreOf == \A a, b, c \in Nat : a <= b => a * c <= b * c
OBVIOUS

LEMMA Products ==
  \A a, b, c \in Nat : /\ a * b \in Nat /\ (a * b) * c = a * (b * c)
                      /\ (a + b) * c = a * c + b * c /\ a * (b + c) = a * b + a * c
OBVIOUS

LEMMA Division ==
  ASSUME NEW a \in Nat, NEW b \in Nat \ {0}
  PROVE  /\ a \div b \in Nat /\ a % b \in Nat /\ a % b < b
         /\ a = b * (a \div b) + (a % b)
OBVIOUS

\* There is one quotient and one remainder.
LEMMA OneRemainder ==
  ASSUME NEW b \in Nat \ {0}, NEW t \in Nat, NEW u \in Nat, NEW c \in 0 .. b - 1,
         NEW d \in 0 .. b - 1, b * t + c = b * u + d
  PROVE  t = u /\ c = d
  <1>1. \A x, y \in Nat : x < y => b * x + b <= b * y
    <2> TAKE x, y \in Nat
    <2> HAVE x < y
    <2>1. (x + 1) * b <= y * b BY MoreOf
    <2> QED BY <2>1
  <1>2. PICK p \in Nat, q \in Nat : p = b * t /\ q = b * u
    OBVIOUS
  <1>3. ~(t < u)
    <2>1. t < u => p + b <= q BY <1>1, <1>2
    <2> QED BY <1>2, <2>1
  <1>4. ~(u < t)
    <2>1. u < t => q + b <= p BY <1>1, <1>2
    <2> QED BY <1>2, <2>1
  <1> QED BY <1>2, <1>3, <1>4

LEMMA Quotient ==
  ASSUME NEW a \in Nat, NEW b \in Nat \ {0}, NEW t \in Nat, NEW c \in 0 .. b - 1, a = b * t + c
  PROVE  a \div b = t /\ a % b = c
  <1>1. PICK q \in Nat, r \in 0 .. b - 1 : q = a \div b /\ r = a % b /\ a = b * q + r
    BY Division
  <1> QED BY <1>1, OneRemainder

\* The offset in a span of pages: the pages of it before, and the offset in one.
LEMMA OffsetInSpan ==
  ASSUME NEW va \in Nat, NEW P \in Nat \ {0}, NEW S \in Nat \ {0}
  PROVE  ((va \div P) % S) * P + (va % P) = va % (P * S)
  <1>1. PICK q \in Nat, r \in 0 .. P - 1 : q = va \div P /\ r = va % P /\ va = P * q + r
    BY Division
  <1>2. PICK t \in Nat, l \in 0 .. S - 1 : t = q \div S /\ l = q % S /\ q = S * t + l
    BY Division
  <1>3. P * S \in Nat \ {0} /\ P * l + r \in Nat
    OBVIOUS
  <1>4. P * l + r < P * S
    <2>1. (l + 1) * P <= S * P BY <1>2, MoreOf
    <2> QED BY <1>1, <2>1
  <1>5. va = (P * S) * t + (P * l + r)
    <2>1. P * q = P * (S * t) + P * l /\ P * (S * t) = (P * S) * t
      BY <1>2, Products
    <2>2. (P * S) * t \in Nat /\ P * l \in Nat
      BY <1>3, Products
    <2> QED BY <1>1, <2>1, <2>2
  <1>6. va % (P * S) = P * l + r
    <2>1. PICK b \in Nat \ {0}, c \in Nat : b = P * S /\ c = P * l + r
      BY <1>3
    <2>2. c \in 0 .. b - 1 /\ va = b * t + c
      BY <1>4, <1>5, <2>1
    <2> QED BY <2>1, <2>2, Quotient
  <1> QED BY <1>1, <1>2, <1>6

-----------------------------------------------------------------------------
(* The places a walk reads and comes to are in the address space.          *)

LEMMA WrapSmall == \A a \in 0 .. AddrSpace - 1 : Wrap(a) = a
  BY AddressAssumption DEF Wrap

LEMMA Frames ==
  ASSUME NEW n \in Ppns, NEW o \in 0 .. PageSize - 1
  PROVE  n * PageSize + o \in 0 .. AddrSpace - 1
  <1>1. PICK c \in Nat, s \in Nat : c = PpnCount /\ s = PageSize /\ n \in 0 .. c - 1 /\ o \in 0 .. s - 1
    BY TableAssumption, TableSizes DEF Ppns
  <1>2. (n + 1) * s <= c * s BY <1>1, MoreOf
  <1>3. c * s <= AddrSpace BY <1>1, TableAssumption
  <1>4. AddrSpace \in Nat BY AddressAssumption
  <1> QED BY <1>1, <1>2, <1>3, <1>4

LEMMA VpnType ==
  ASSUME NEW va \in Nat, NEW i \in 0 .. 2
  PROVE  Vpn(va, i) \in 0 .. TableSize - 1
  <1>1. va \div PageSize \in Nat BY TableSizes, Division
  <1>2. (va \div PageSize) \div Span(i) \in Nat BY <1>1, TableSizes, Division
  <1> QED BY <1>2, TableSizes, Division DEF Vpn

LEMMA TablePlace ==
  ASSUME NEW va \in Nat, NEW i \in 0 .. 2, NEW t \in Ppns
  PROVE  Wrap(t * PageSize + PteSize * Vpn(va, i)) = TableOf(va, i, t)
  <1>1. PICK v \in 0 .. TableSize - 1 : v = Vpn(va, i) BY VpnType
  <1>2. PteSize * v \in 0 .. PageSize - 1
    BY <1>1, TableAssumption DEF PteSize
  <1>3. t * PageSize + PteSize * v \in 0 .. AddrSpace - 1
    BY <1>2, Frames
  <1> QED BY <1>1, <1>3, WrapSmall DEF TableOf

\* An aligned superpage lies within the physical pages.
LEMMA SpanDivides ==
  ASSUME NEW i \in 0 .. 2
  PROVE  PpnCount % Span(i) = 0
  <1>1. PICK c \in Nat \ {0}, T \in Nat \ {0} : c = PpnCount /\ T = TableSize
    BY TableAssumption
  <1>2. T * T \in Nat \ {0} OBVIOUS
  <1>3. PICK z \in Nat : c = (T * T) * z
    <2>1. c % (T * T) = 0 BY <1>1, TableAssumption
    <2>2. PICK b \in Nat \ {0} : b = T * T BY <1>2
    <2>3. c = b * (c \div b) + (c % b) /\ c \div b \in Nat BY Division
    <2> QED BY <2>1, <2>2, <2>3
  <1>4. CASE i = 0
    <2>1. c % 1 = 0 OBVIOUS
    <2> QED BY <1>1, <1>4, <2>1 DEF Span
  <1>5. CASE i = 1
    <2>1. T * z \in Nat /\ c = T * (T * z) + 0 BY <1>3
    <2>2. PICK y \in Nat : y = T * z BY <2>1
    <2>3. c = T * y + 0 /\ 0 \in 0 .. T - 1 BY <2>1, <2>2
    <2>4. c % T = 0 BY <2>3, Quotient
    <2> QED BY <1>1, <1>5, <2>4 DEF Span
  <1>6. CASE i = 2
    <2>1. c % (T * T) = 0 BY <1>1, TableAssumption
    <2> QED BY <1>1, <1>6, <2>1 DEF Span
  <1> QED BY <1>4, <1>5, <1>6

LEMMA WithinSpan ==
  ASSUME NEW n \in Ppns, NEW i \in 0 .. 2, n % Span(i) = 0, NEW l \in 0 .. Span(i) - 1
  PROVE  n + l \in Ppns
  <1>1. PICK S \in Nat \ {0}, c \in Nat : S = Span(i) /\ c = PpnCount /\ n \in 0 .. c - 1
    BY TableSizes, TableAssumption DEF Ppns
  <1>2. PICK x \in Nat : n = S * x
    <2>1. PICK m \in Nat : m = n BY <1>1
    <2>2. m = S * (m \div S) + (m % S) /\ m \div S \in Nat BY Division
    <2>3. PICK x \in Nat : x = m \div S BY <2>2
    <2>4. m % S = 0 BY <1>1, <2>1
    <2>5. S * x \in Nat BY Products
    <2>6. m = S * x BY <2>2, <2>3, <2>4, <2>5
    <2> QED BY <2>1, <2>3, <2>6, Zenon
  <1>3. PICK y \in Nat : c = S * y
    <2>1. c = S * (c \div S) + (c % S) /\ c \div S \in Nat BY <1>1, Division
    <2>2. PICK y \in Nat : y = c \div S BY <2>1
    <2>3. c % S = 0 BY <1>1, SpanDivides
    <2>4. S * y \in Nat BY Products
    <2> QED BY <2>1, <2>2, <2>3, <2>4
  <1>4. x < y
    <2>1. y <= x => y * S <= x * S BY MoreOf
    <2> QED BY <1>1, <1>2, <1>3, <2>1
  <1>5. S * x + S <= S * y
    <2>1. (x + 1) * S <= y * S BY <1>4, MoreOf
    <2> QED BY <2>1
  <1> QED BY <1>1, <1>2, <1>3, <1>5 DEF Ppns

\* Where a leaf maps an address to.
LEMMA LeafPlace ==
  ASSUME NEW va \in Nat, NEW i \in 0 .. 2, NEW e, e.ppn \in Ppns, e.ppn % Span(i) = 0
  PROVE  /\ PageAt(e, i, va) = e.ppn * PageSize + (va % (PageSize * Span(i)))
         /\ \E n \in Ppns : PageAt(e, i, va) = n * PageSize + (va % PageSize)
  <1>1. PICK P \in Nat \ {0}, S \in Nat \ {0}, n \in Ppns :
           P = PageSize /\ S = Span(i) /\ n = e.ppn /\ n \in Nat
    BY TableSizes DEF Ppns
  <1>2. PICK l \in 0 .. S - 1 : l = (va \div P) % S
    <2>1. va \div P \in Nat BY Division
    <2> QED BY <2>1, Division
  <1>3. PICK o \in 0 .. P - 1 : o = va % P
    BY Division
  <1>4. n + l \in Ppns /\ (n + l) * P + o \in 0 .. AddrSpace - 1
    BY <1>1, WithinSpan, Frames
  <1>5. PageAt(e, i, va) = Wrap((n + l) * P + o)
    <2>1. (n - (n % S)) + l = n + l
      BY <1>1
    <2> QED BY <1>1, <1>2, <1>3, <2>1 DEF PageAt
  <1>6. PageAt(e, i, va) = (n + l) * P + o
    BY <1>4, <1>5, WrapSmall
  <1>7. l * P + o = va % (P * S)
    BY <1>2, <1>3, OffsetInSpan
  <1>8. (n + l) * P + o = n * P + (l * P + o)
    <2>1. PICK x \in Nat, y \in Nat : x = n * P /\ y = l * P /\ (n + l) * P = x + y
      BY <1>1, Products
    <2> QED BY <2>1
  <1> QED BY <1>1, <1>3, <1>4, <1>6, <1>7, <1>8

-----------------------------------------------------------------------------
(* The walk comes to where the tables map.                                 *)

LEMMA VisitMapped ==
  ASSUME NEW g, NEW m \in Memory, NEW va \in Nat, NEW i \in 0 .. 2, NEW t \in Ppns,
         t \in Tables(m, va, i), g.mode = Supervisor
  PROVE  LET w == Visit(g, m, va, i, t)
         IN  /\ w.form = "leaf" => w.h = g /\ w.pa \in MappedAt(m, va, i)
             /\ w.form = "table" => w.ppn \in Below(m, va, i, Tables(m, va, i)) /\ w.ppn \in Ppns
  <1> DEFINE p == TableOf(va, i, t)
             e == EntryAt(g, m, p)
             w == Visit(g, m, va, i, t)
  <1>1. Wrap(t * PageSize + PteSize * Vpn(va, i)) = p
    BY TablePlace
  <1>2. e \in Pte /\ (~ReadOk(g, p, PteSize) => e = ZeroPte)
    BY EntryType
  <1> HIDE DEF p
  <1>3. /\ w.h = BusRead(g, p, PteSize) /\ w.pa = PageAt(e, i, va) /\ w.ppn = e.ppn
        /\ w.form = IF ~Valid(e) THEN "fault" ELSE IF ~Leaf(e) THEN "table"
                    ELSE IF Suits(g, e, i) THEN "leaf" ELSE "fault"
    BY <1>1 DEF Visit
  <1> HIDE DEF w
  <1>4. ASSUME w.form # "fault" PROVE Valid(e) /\ p \in DOMAIN m /\ e = m[p] /\ w.h = g
    <2>1. Valid(e) BY <1>3, <1>4
    <2>2. ~Valid(ZeroPte) BY DEF Valid, ZeroPte
    <2>3. p \in DOMAIN m /\ e = m[p] /\ ReadOk(g, p, PteSize)
      BY <1>2, <2>1, <2>2 DEF EntryAt
    <2> QED BY <1>3, <2>1, <2>3 DEF BusRead
  <1> HIDE DEF e
  <1>5. ASSUME w.form = "leaf" PROVE w.h = g /\ w.pa \in MappedAt(m, va, i)
    <2>1. Valid(e) /\ p \in DOMAIN m /\ e = m[p] /\ w.h = g
      BY <1>4, <1>5
    <2>2. Suits(g, e, i)
      BY <1>3, <1>5
    <2>3. e.x /\ ~e.u /\ e.ppn % Span(i) = 0 /\ e.v /\ (e.w => e.r)
      BY <2>1, <2>2 DEF Suits, Valid, Supervisor, User
    <2>4. Executable(m[p], i)
      BY <2>1, <2>3 DEF Executable
    <2>5. w.pa = m[p].ppn * PageSize + (va % (PageSize * Span(i)))
      <3>1. e.ppn \in Ppns BY <1>2 DEF Pte
      <3> QED BY <1>3, <2>1, <2>3, <3>1, LeafPlace
    <2> QED BY <2>1, <2>4, <2>5 DEF MappedAt, p
  <1>6. ASSUME w.form = "table"
        PROVE  w.ppn \in Below(m, va, i, Tables(m, va, i)) /\ w.ppn \in Ppns
    <2>1. Valid(e) /\ p \in DOMAIN m /\ e = m[p] /\ ~Leaf(e)
      BY <1>3, <1>4, <1>6
    <2>2. m[p].v /\ ~Leaf(m[p]) /\ w.ppn = m[p].ppn
      BY <1>3, <2>1 DEF Valid
    <2>3. w.ppn \in Ppns
      BY <1>2, <1>3 DEF Pte
    <2> QED BY <2>1, <2>2, <2>3 DEF Below, p
  <1> QED BY <1>5, <1>6 DEF w

\* What is fetched through is a leaf of the tables below the root.
LEMMA WalkMapped ==
  ASSUME NEW g, NEW m \in Memory, NEW va \in Nat, root \in Ppns, g.mode = Supervisor,
         Walk(g, m, root, va).ok
  PROVE  Walk(g, m, root, va).h = g /\ Walk(g, m, root, va).pa \in Mapped(m, va)
  <1>1. PICK a : a = Visit(g, m, va, 2, root) OBVIOUS
  <1>2. PICK b : b = Descend(g, m, va, 1, a) OBVIOUS
  <1>3. PICK c : c = Descend(g, m, va, 0, b) OBVIOUS
  <1>4. Walk(g, m, root, va) = IF c.form = "leaf"
                               THEN [h |-> c.h, ok |-> TRUE, pa |-> c.pa]
                               ELSE [h |-> RaiseException(c.h, INSTRUCTION_ACCESS_FAULT),
                                     ok |-> FALSE, pa |-> 0]
    BY <1>1, <1>2, <1>3 DEF Walk
  <1>5. c.form = "leaf" /\ Walk(g, m, root, va).h = c.h /\ Walk(g, m, root, va).pa = c.pa
    BY <1>4
  <1>6. \A i \in 0 .. 2 : \A x \in MappedAt(m, va, i) : x \in Mapped(m, va)
    BY DEF Mapped
  <1>7. /\ root \in Tables(m, va, 2)
        /\ Below(m, va, 2, Tables(m, va, 2)) = Tables(m, va, 1)
        /\ Below(m, va, 1, Tables(m, va, 1)) = Tables(m, va, 0)
    BY DEF Tables
  <1>8. /\ a.form = "leaf" => a.h = g /\ a.pa \in Mapped(m, va)
        /\ a.form = "table" => a.ppn \in Tables(m, va, 1) /\ a.ppn \in Ppns
    BY <1>1, <1>6, <1>7, VisitMapped
  <1>9. /\ b.form = "leaf" => b.h = g /\ b.pa \in Mapped(m, va)
        /\ b.form = "table" => b.ppn \in Tables(m, va, 0) /\ b.ppn \in Ppns
    <2>1. CASE a.form = "table"
      BY <1>2, <1>6, <1>7, <1>8, <2>1, VisitMapped DEF Descend
    <2>2. CASE a.form # "table"
      BY <1>2, <1>8, <2>2 DEF Descend
    <2> QED BY <2>1, <2>2
  <1>10. c.form = "leaf" => c.h = g /\ c.pa \in Mapped(m, va)
    <2>1. CASE b.form = "table"
      BY <1>3, <1>6, <1>9, <2>1, VisitMapped DEF Descend
    <2>2. CASE b.form # "table"
      BY <1>3, <1>9, <2>2 DEF Descend
    <2> QED BY <2>1, <2>2
  <1> QED BY <1>5, <1>10

\* Within a page, what follows an address is mapped to what follows its place.
LEMMA FollowsInPage ==
  ASSUME NEW m \in Memory, NEW va \in Addr, (va % PageSize) + 2 < PageSize,
         NEW pa \in Mapped(m, va)
  PROVE  Wrap(va + 2) = va + 2 /\ Wrap(pa + 2) = pa + 2 /\ pa + 2 \in Mapped(m, va + 2)
  <1>1. PICK P \in Nat \ {0} : P = PageSize
    BY TableSizes
  <1>2. va \in Nat /\ AddrSpace \in Nat \ {0} /\ va < AddrSpace
    BY AddressAssumption DEF Addr
  <1>3. PICK q \in Nat, o \in Nat : q = va \div P /\ o = va % P /\ va = P * q + o /\ o + 2 < P
    BY <1>1, <1>2, Division
  <1>4. (va + 2) \div P = q /\ (va + 2) % P = o + 2
    <2>1. P * q \in Nat /\ va + 2 = P * q + (o + 2) BY <1>3, Products
    <2>2. o + 2 \in 0 .. P - 1 /\ va + 2 \in Nat BY <1>2, <1>3
    <2> QED BY <2>1, <2>2, Quotient
  <1>5. va + 2 < AddrSpace
    <2>1. PICK z \in Nat : AddrSpace = P * z
      <3>1. AddrSpace = P * (AddrSpace \div P) + (AddrSpace % P) /\ AddrSpace \div P \in Nat
        BY <1>2, Division
      <3>2. PICK z \in Nat : z = AddrSpace \div P BY <3>1
      <3>3. AddrSpace % P = 0 BY <1>1, TableAssumption
      <3>4. P * z \in Nat BY Products
      <3>5. AddrSpace = P * z BY <3>1, <3>2, <3>3, <3>4
      <3> QED BY <3>5, Zenon
    <2>2. PICK x \in Nat, y \in Nat : x = P * q /\ y = P * z BY Products
    <2>3. q < z
      <3>1. z <= q => z * P <= q * P BY MoreOf
      <3>2. z * P = y /\ q * P = x BY <2>2
      <3> QED BY <1>2, <1>3, <2>1, <2>2, <3>1, <3>2
    <2>4. x + P <= y
      <3>1. (q + 1) * P <= z * P BY <2>3, MoreOf
      <3>2. (q + 1) * P = x + P /\ z * P = y BY <2>2, Products
      <3> QED BY <3>1, <3>2
    <2> QED BY <1>3, <2>1, <2>2, <2>4
  <1>6. \A i \in 0 .. 2 : Vpn(va + 2, i) = Vpn(va, i)
    BY <1>1, <1>3, <1>4 DEF Vpn
  <1>7. \A i \in 0 .. 2 : Tables(m, va + 2, i) = Tables(m, va, i)
    <2>1. \A i \in 0 .. 2 : \A ts : Below(m, va + 2, i, ts) = Below(m, va, i, ts)
      BY <1>6 DEF Below, TableOf
    <2> QED BY <2>1 DEF Tables
  <1>8. PICK i \in 0 .. 2 : pa \in MappedAt(m, va, i)
    BY DEF Mapped
  <1>9. PICK a \in DOMAIN m : /\ \E t \in Tables(m, va, i) : a = TableOf(va, i, t)
                              /\ Executable(m[a], i)
                              /\ pa = m[a].ppn * PageSize + (va % (PageSize * Span(i)))
    BY <1>8 DEF MappedAt
  <1>10. PICK S \in Nat \ {0} : S = Span(i)
    BY TableSizes
  <1>11. (va + 2) % (P * S) = (va % (P * S)) + 2
    <2>1. PICK k \in Nat : k = (q % S) * P
      <3>1. q % S \in Nat BY Division
      <3> QED BY <3>1, Products
    <2>2. k + o = va % (P * S)
      BY <1>2, <1>3, <2>1, OffsetInSpan
    <2>3. k + (o + 2) = (va + 2) % (P * S)
      <3>1. va + 2 \in Nat BY <1>2
      <3>2. (((va + 2) \div P) % S) * P + ((va + 2) % P) = (va + 2) % (P * S)
        BY <3>1, OffsetInSpan
      <3> QED BY <1>4, <2>1, <3>2
    <2> QED BY <2>2, <2>3
  <1>12. m[a].ppn \in Ppns /\ m[a].ppn % Span(i) = 0
    <2>1. m[a] \in Pte BY DEF Memory
    <2> QED BY <1>9, <2>1 DEF Pte, Executable
  <1>13. PICK n \in Ppns : pa = n * P + o
    <2>1. /\ PageAt(m[a], i, va) = m[a].ppn * PageSize + (va % (PageSize * Span(i)))
          /\ \E n \in Ppns : PageAt(m[a], i, va) = n * PageSize + (va % PageSize)
      BY <1>2, <1>12, LeafPlace
    <2> QED BY <1>1, <1>3, <1>9, <2>1
  <1>14. pa \in Nat /\ pa + 2 \in 0 .. AddrSpace - 1
    <2>1. o + 2 \in 0 .. PageSize - 1 /\ o \in 0 .. PageSize - 1 BY <1>1, <1>3
    <2>2. n * P + (o + 2) \in 0 .. AddrSpace - 1 /\ n * P + o \in 0 .. AddrSpace - 1
      BY <1>1, <2>1, Frames
    <2>3. n * P \in Nat
      <3>1. n \in Nat BY DEF Ppns
      <3> QED BY <3>1, Products
    <2> QED BY <1>2, <1>3, <1>13, <2>2, <2>3
  <1>15. pa + 2 = m[a].ppn * PageSize + ((va + 2) % (PageSize * Span(i)))
    <2>1. PICK x \in Nat : x = m[a].ppn * PageSize
      <3>1. m[a].ppn \in Nat BY <1>12 DEF Ppns
      <3> QED BY <1>1, <3>1, Products
    <2>2. PICK y \in Nat : y = va % (P * S) /\ (va + 2) % (P * S) = y + 2
      <3>1. P * S \in Nat \ {0} BY Products
      <3>2. va % (P * S) \in Nat BY <1>2, <3>1, Division
      <3> QED BY <1>11, <3>2
    <2> QED BY <1>1, <1>9, <1>10, <2>1, <2>2
  <1>16. pa + 2 \in MappedAt(m, va + 2, i)
    <2>1. \E t \in Tables(m, va + 2, i) : a = TableOf(va + 2, i, t)
      BY <1>6, <1>7, <1>9 DEF TableOf
    <2> QED BY <1>9, <1>15, <2>1 DEF MappedAt
  <1>17. Wrap(va + 2) = va + 2 /\ Wrap(pa + 2) = pa + 2
    BY <1>2, <1>5, <1>14, WrapSmall
  <1> QED BY <1>16, <1>17 DEF Mapped

\* A read that the bus answers is one that PMP allows.
LEMMA ReadIsGranted ==
  ASSUME NEW g, g.mode = Supervisor, NEW p, NEW n, ReadOk(g, p, n)
  PROVE  p \in g.pmp.load
  BY DEF ReadOk, PmpAllows, Supervisor, Machine

\* Supervisor code is translated by a walk.
LEMMA SupervisorWalks ==
  ASSUME NEW g, g.mode = Supervisor, g.satp = SATP_MODE_SV39, NEW m, NEW r, NEW va
  PROVE  MmuTranslate(g, m, r, va) = {Walk(g, m, r, va)}
  <1>1. CanRead(g, \h180)
    BY DEF CanRead, PrivRequired, Readable, Writable, Supervisor
  <1> QED BY <1>1 DEF MmuTranslate, Walks, Supervisor, Machine

LEMMA FetchMapped ==
  ASSUME MmuTypeOK, h.mode = Supervisor, h.satp = SATP_MODE_SV39, h.pc % 2 = 0,
         NEW clint \in [ClintDoubles -> Pte],
         NEW s \in MmuFetch(StartStep(h), Entry(clint), root),
         s.f.form \in {"half", "word"},
         NEW k \in DOMAIN s.at
  PROVE  /\ s.at[k] \in Mapped(Entry(clint), Wrap(h.pc + 2 * (k - 1)))
         /\ s.at[k] \in h.pmp.load
  <1>1. PICK g : g = StartStep(h) /\ g.mode = Supervisor /\ g.satp = SATP_MODE_SV39
                 /\ g.pc = h.pc /\ g.pmp = h.pmp
    BY DEF StartStep, MmuTypeOK, HartState
  <1>2. h.pc \in Addr /\ h.pc \in Nat
    BY DEF MmuTypeOK, HartState, Addr
  <1>3. PICK m \in Memory : m = Entry(clint)
    BY DEF Entry, Memory, MmuTypeOK
  <1>4. root \in Ppns
    BY DEF MmuTypeOK
  <1>5. PICK t : /\ t = Walk(g, m, root, h.pc)
                 /\ s \in IF t.ok THEN MmuFetchAt(t.h, m, root, t.pa)
                          ELSE {Read(Fetched(t.h, h.pc, 0, "failed"), <<>>)}
    BY <1>1, <1>3, SupervisorWalks DEF MmuFetch
  <1>6. t.ok
    BY <1>5 DEF Read, Fetched
  <1>7. t.h = g /\ t.pa \in Mapped(m, h.pc)
    BY <1>1, <1>2, <1>4, <1>5, <1>6, WalkMapped
  <1>8. PICK pa : pa = t.pa /\ s \in MmuFetchAt(g, m, root, pa) /\ pa \in Mapped(m, h.pc)
    BY <1>5, <1>6, <1>7
  <1>9. ReadOk(g, pa, 2)
    BY <1>8 DEF MmuFetchAt, Read, Fetched
  <1>10. pa \in h.pmp.load
    BY <1>1, <1>9, ReadIsGranted
  <1>11. Wrap(h.pc) = h.pc
    BY <1>2, WrapSmall DEF Addr
  <1>12. Wrap(h.pc + 2 * (1 - 1)) = h.pc
    BY <1>2, <1>11
  <1>13. CASE s = Read(Fetched(g, h.pc, 2, "half"), <<pa>>)
    <2>1. s.at = <<pa>> BY <1>13 DEF Read
    <2>2. k = 1 /\ s.at[k] = pa BY <2>1
    <2> QED BY <1>3, <1>8, <1>10, <1>12, <2>2
  <1>14. CASE s \in MmuWide(g, m, root, pa)
    <2>1. PICK pb : /\ s = Read(SecondHalf(g, h.pc, pb), <<pa, pb>>)
                    /\ pb \in Mapped(m, Wrap(h.pc + 2))
      <3>1. CASE h.pc % PageSize = PageSize - 2
        <4>1. PICK u : /\ u = Walk(g, m, root, Wrap(h.pc + 2))
                       /\ s = IF u.ok THEN Read(SecondHalf(u.h, h.pc, u.pa), <<pa, u.pa>>)
                              ELSE Read(Fetched(u.h, h.pc, 0, "failed"), <<pa>>)
          BY <1>1, <1>14, <3>1, SupervisorWalks DEF MmuWide
        <4>2. u.ok
          BY <4>1 DEF Read, Fetched
        <4>3. Wrap(h.pc + 2) \in Nat
          BY <1>2, NextHalf DEF Addr
        <4>4. u.h = g /\ u.pa \in Mapped(m, Wrap(h.pc + 2))
          BY <1>1, <1>4, <4>1, <4>2, <4>3, WalkMapped
        <4> QED BY <4>1, <4>2, <4>4
      <3>2. CASE h.pc % PageSize # PageSize - 2
        <4>1. s = Read(SecondHalf(g, h.pc, Wrap(pa + 2)), <<pa, Wrap(pa + 2)>>)
          BY <1>1, <1>14, <3>2 DEF MmuWide
        <4>2. (h.pc % PageSize) + 2 < PageSize
          <5>1. PICK n \in Nat \ {0} : PageSize = 8 * n
            BY TableAssumption DEF PteSize
          <5>2. PICK P \in Nat \ {0} : P = PageSize /\ P = 2 * (4 * n)
            BY <5>1, TableSizes
          <5>3. PICK c \in Nat : c = h.pc BY <1>2
          <5>4. PICK q \in Nat, o \in Nat : c = P * q + o /\ o = c % P /\ o < P
            BY Division
          <5>5. P * q = 2 * (4 * n * q)
            BY <5>2
          <5>6. c % 2 = 0
            BY <5>3
          <5>7. o % 2 = 0
            <6>1. PICK y \in Nat : y = 4 * n * q OBVIOUS
            <6>2. c = 2 * y + o BY <5>4, <5>5, <6>1
            <6> QED BY <5>6, <6>2
          <5>8. o # P - 2
            BY <3>2, <5>2, <5>3, <5>4
          <5>9. PICK x \in Nat : P = 2 * x
            BY <5>2
          <5>10. o + 2 < P
            <6>1. PICK w \in Nat : o = 2 * w
              <7>1. o = 2 * (o \div 2) /\ o \div 2 \in Nat BY <5>7
              <7> QED BY <7>1
            <6>2. 2 * w < 2 * x
              <7>1. o < P BY <5>4
              <7> QED BY <5>9, <6>1, <7>1
            <6>3. 2 * w # 2 * x - 2 BY <5>8, <5>9, <6>1
            <6>4. 2 * w + 2 < 2 * x BY <6>2, <6>3
            <6> QED BY <5>9, <6>1, <6>4
          <5> QED BY <5>2, <5>3, <5>4, <5>10
        <4>3. /\ Wrap(h.pc + 2) = h.pc + 2 /\ Wrap(pa + 2) = pa + 2
              /\ pa + 2 \in Mapped(m, h.pc + 2)
          BY <1>2, <1>8, <4>2, FollowsInPage
        <4> QED BY <4>1, <4>3
      <3> QED BY <3>1, <3>2
    <2>2. s.at = <<pa, pb>> /\ s.f = SecondHalf(g, h.pc, pb)
      BY <2>1 DEF Read
    <2>3. ReadOk(g, pb, 2)
      BY <2>2 DEF SecondHalf, Fetched
    <2>4. pb \in h.pmp.load
      BY <1>1, <2>3, ReadIsGranted
    <2>5. (k = 1 /\ s.at[k] = pa) \/ (k = 2 /\ s.at[k] = pb)
      BY <2>2
    <2>6. Wrap(h.pc + 2 * (2 - 1)) = Wrap(h.pc + 2)
      BY <1>2
    <2> QED BY <1>3, <1>8, <1>10, <1>12, <2>1, <2>4, <2>5, <2>6
  <1>15. s = Read(Fetched(g, h.pc, 2, "half"), <<pa>>) \/ s \in MmuWide(g, m, root, pa)
    BY <1>1, <1>8, <1>9 DEF MmuFetchAt
  <1> QED BY <1>13, <1>14, <1>15

\* Supervisor code comes from where the tables map it executable and PMP lets
\* it be read, each half of an instruction by itself, for every content of the
\* tables, however they lie, and every program.
THEOREM FetchesWhereMapped == MmuSpec => []FetchesMappedCode
  <1>1. MmuTypeOK => FetchesMappedCode
    BY FetchMapped DEF FetchesMappedCode
  <1> QED BY <1>1, MmuTypeCorrect, PTL

-----------------------------------------------------------------------------
(* Ones is the function its equation describes.                            *)

UpTo(f, n) ==
    /\ f \in [0 .. n -> Nat]
    /\ \A k \in 0 .. n : f[k] = IF k % 2 = 1 THEN 2 * f[k \div 2] ELSE 1

LEMMA Half == \A k \in Nat : k \div 2 \in 0 .. k /\ (k >= 1 => k \div 2 <= k - 1)
OBVIOUS

LEMMA UpToExists == \A n \in Nat : \E f : UpTo(f, n)
  <1> DEFINE T == {n \in Nat : ~ \E f : UpTo(f, n)}
  <1>1. SUFFICES ASSUME T # {} PROVE FALSE
    OBVIOUS
  <1>2. PICK n \in T : \A y \in T : n <= y
    <2>1. T \subseteq Nat OBVIOUS
    <2> HIDE DEF T
    <2> QED BY <1>1, <2>1, LeastNumber
  <1>3. n \in Nat /\ ~ \E f : UpTo(f, n)
    OBVIOUS
  <1>4. CASE n = 0
    <2>1. UpTo([k \in 0 .. 0 |-> 1], 0)
      BY DEF UpTo
    <2> QED BY <1>3, <1>4, <2>1
  <1>5. CASE n # 0
    <2>1. n - 1 \in Nat /\ n - 1 \notin T
      BY <1>2, <1>3, <1>5
    <2>2. PICK f : UpTo(f, n - 1)
      BY <2>1
    <2> DEFINE g == [k \in 0 .. n |-> IF k = n THEN IF n % 2 = 1 THEN 2 * f[n \div 2] ELSE 1
                                      ELSE f[k]]
    <2>3. n \div 2 \in 0 .. n - 1
      BY <1>3, <1>5, Half
    <2>4. \A k \in 0 .. n - 1 : f[k] \in Nat
      BY <2>2 DEF UpTo
    <2>5. g \in [0 .. n -> Nat]
      <3>1. ASSUME NEW k \in 0 .. n PROVE g[k] \in Nat
        <4>1. CASE k = n BY <2>3, <2>4, <4>1
        <4>2. CASE k # n
          <5>1. k \in 0 .. n - 1 BY <1>3, <4>2
          <5> QED BY <2>4, <4>2, <5>1
        <4> QED BY <4>1, <4>2
      <3> QED BY <3>1
    <2>6. ASSUME NEW k \in 0 .. n PROVE g[k] = IF k % 2 = 1 THEN 2 * g[k \div 2] ELSE 1
      <3>1. CASE k = n
        <4>1. g[n \div 2] = f[n \div 2] BY <1>3, <2>3
        <4> QED BY <3>1, <4>1
      <3>2. CASE k # n
        <4>1. k \in 0 .. n - 1 /\ k \in Nat BY <1>3, <3>2
        <4>2. k \div 2 \in 0 .. k BY <4>1, Half
        <4>3. k \div 2 \in 0 .. n - 1 /\ k \div 2 \in 0 .. n /\ k \div 2 # n
          BY <1>3, <4>1, <4>2
        <4>4. g[k] = f[k] /\ g[k \div 2] = f[k \div 2] BY <3>2, <4>3
        <4>5. f[k] = IF k % 2 = 1 THEN 2 * f[k \div 2] ELSE 1 BY <2>2, <4>1 DEF UpTo
        <4> QED BY <4>4, <4>5
      <3> QED BY <3>1, <3>2
    <2> HIDE DEF g
    <2>7. UpTo(g, n)
      BY <2>5, <2>6 DEF UpTo
    <2> QED BY <1>3, <2>7
  <1> QED BY <1>4, <1>5

LEMMA UpToAgree ==
  ASSUME NEW n \in Nat, NEW m \in Nat, NEW f, NEW g, UpTo(f, n), UpTo(g, m)
  PROVE  \A k \in Nat : k <= n /\ k <= m => f[k] = g[k]
  <1> DEFINE T == {k \in Nat : k <= n /\ k <= m /\ f[k] # g[k]}
  <1>1. SUFFICES ASSUME T # {} PROVE FALSE
    OBVIOUS
  <1>2. PICK k \in T : \A y \in T : k <= y
    <2>1. T \subseteq Nat OBVIOUS
    <2> HIDE DEF T
    <2> QED BY <1>1, <2>1, LeastNumber
  <1>3. k \in 0 .. n /\ k \in 0 .. m /\ k \in Nat /\ f[k] # g[k]
    OBVIOUS
  <1>4. /\ f[k] = IF k % 2 = 1 THEN 2 * f[k \div 2] ELSE 1
        /\ g[k] = IF k % 2 = 1 THEN 2 * g[k \div 2] ELSE 1
    BY <1>3 DEF UpTo
  <1>5. k % 2 = 1
    BY <1>3, <1>4
  <1>6. k \div 2 \in Nat /\ k \div 2 < k
    BY <1>3, <1>5, Half
  <1>7. k \div 2 \notin T
    BY <1>2, <1>3, <1>6
  <1>8. f[k \div 2] = g[k \div 2]
    BY <1>3, <1>6, <1>7
  <1> QED BY <1>3, <1>4, <1>8

LEMMA OnesEquation ==
  \A a \in Nat : Ones[a] = IF a % 2 = 1 THEN 2 * Ones[a \div 2] ELSE 1
  <1> DEFINE first(n) == CHOOSE f : UpTo(f, n)
             F == [n \in Nat |-> first(n)[n]]
  <1>1. \A n \in Nat : UpTo(first(n), n)
    BY UpToExists
  <1> HIDE DEF first
  <1>2. ASSUME NEW n \in Nat
        PROVE  F[n] = IF n % 2 = 1 THEN 2 * F[n \div 2] ELSE 1
    <2>1. PICK k \in Nat : k = n \div 2 /\ k <= n
      BY Half
    <2>2. UpTo(first(n), n) /\ UpTo(first(k), k)
      BY <1>1
    <2>3. first(n)[n] = IF n % 2 = 1 THEN 2 * first(n)[k] ELSE 1
      BY <2>1, <2>2 DEF UpTo
    <2>4. first(n)[k] = first(k)[k]
      BY <2>1, <2>2, UpToAgree
    <2>5. F[n] = first(n)[n] /\ F[k] = first(k)[k]
      OBVIOUS
    <2> QED BY <2>1, <2>3, <2>4, <2>5
  <1>3. F = [a \in Nat |-> IF a % 2 = 1 THEN 2 * F[a \div 2] ELSE 1]
    <2>1. F = [a \in Nat |-> F[a]]
      OBVIOUS
    <2> HIDE DEF F
    <2> QED BY <1>2, <2>1
  <1> HIDE DEF F
  <1>4. Ones = [a \in Nat |-> IF a % 2 = 1 THEN 2 * Ones[a \div 2] ELSE 1]
    BY <1>3 DEF Ones
  <1> QED BY <1>4

-----------------------------------------------------------------------------
(* Powers of two.                                                          *)

IsPower(n) == n \in Nat \ {0} /\ \A d \in 1 .. n : n % d = 0 /\ d % 2 = 1 => d = 1

LEMMA PowersAre == Powers = {n \in 1 .. AddrSpace : IsPower(n)}
  <1>1. AddrSpace \in Nat BY AddressAssumption
  <1> QED BY <1>1 DEF Powers, IsPower

LEMMA Even == \A n \in Nat : n % 2 = 1 \/ \E m \in Nat : n = 2 * m /\ m = n \div 2
  <1> TAKE n \in Nat
  <1> SUFFICES ASSUME n % 2 # 1 PROVE \E m \in Nat : n = 2 * m /\ m = n \div 2
    OBVIOUS
  <1>1. n % 2 = 0 /\ n \div 2 \in Nat /\ n = 2 * (n \div 2)
    OBVIOUS
  <1> QED BY <1>1

\* What divides a number divides its double, and an odd divisor of the double
\* divides the number.
LEMMA OddDivides ==
  ASSUME NEW m \in Nat \ {0}, NEW d \in Nat \ {0}
  PROVE  /\ m % d = 0 => (2 * m) % d = 0
         /\ d % 2 = 1 /\ (2 * m) % d = 0 => m % d = 0
  <1>1. ASSUME m % d = 0 PROVE (2 * m) % d = 0
    <2>1. PICK q \in Nat : m = d * q
      <3>1. PICK q \in Nat : q = m \div d BY Division
      <3>2. m = d * (m \div d) + (m % d) BY Division
      <3>3. d * q \in Nat BY Products
      <3>4. m = d * q BY <1>1, <3>1, <3>2, <3>3
      <3> QED BY <3>4, Zenon
    <2>2. d * (2 * q) = 2 * (d * q) /\ 2 * q \in Nat BY Products
    <2>3. PICK u \in Nat : u = 2 * q OBVIOUS
    <2>4. 2 * m = d * u + 0 /\ 0 \in 0 .. d - 1 /\ 2 * m \in Nat BY <2>1, <2>2, <2>3
    <2> QED BY <2>4, Quotient
  <1>2. ASSUME d % 2 = 1, (2 * m) % d = 0 PROVE m % d = 0
    <2>1. PICK q \in Nat : 2 * m = d * q
      <3>1. PICK n \in Nat : n = 2 * m OBVIOUS
      <3>2. PICK q \in Nat : q = n \div d BY Division
      <3>3. n = d * (n \div d) + (n % d) BY Division
      <3>4. d * q \in Nat BY Products
      <3>5. n = d * q BY <1>2, <3>1, <3>2, <3>3, <3>4
      <3> QED BY <3>1, <3>5, Zenon
    <2>2. PICK x \in Nat : d = 2 * x + 1
      <3>1. d = 2 * (d \div 2) + 1 /\ d \div 2 \in Nat BY <1>2
      <3> QED BY <3>1
    <2>3. q % 2 # 1
      <3> SUFFICES ASSUME q % 2 = 1 PROVE FALSE
        OBVIOUS
      <3>1. PICK y \in Nat : q = 2 * y + 1
        <4>1. q = 2 * (q \div 2) + 1 /\ q \div 2 \in Nat OBVIOUS
        <4> QED BY <4>1
      <3>2. d * q = 2 * (x * q) + q BY <2>2, Products
      <3>3. PICK z \in Nat : z = x * q BY Products
      <3>4. 2 * m = 2 * z + (2 * y + 1) BY <2>1, <3>1, <3>2, <3>3
      <3> QED BY <3>4
    <2>4. PICK h2 \in Nat : q = 2 * h2 BY <2>3, Even
    <2>5. d * q = 2 * (d * h2) /\ d * h2 \in Nat BY <2>4, Products
    <2>6. m = d * h2 + 0 /\ 0 \in 0 .. d - 1
      <3>1. PICK w \in Nat : w = d * h2 BY <2>5
      <3> QED BY <2>1, <2>5, <3>1
    <2> QED BY <2>6, Quotient
  <1> QED BY <1>1, <1>2

\* A power of two other than 1 is the double of one, and a double is one.
LEMMA Doubled ==
  /\ IsPower(1)
  /\ \A m \in Nat : IsPower(m) => IsPower(2 * m)
  /\ \A n \in Nat : IsPower(n) /\ n # 1 => \E m \in Nat : n = 2 * m /\ IsPower(m)
  <1>1. IsPower(1)
    BY DEF IsPower
  <1>2. ASSUME NEW m \in Nat, IsPower(m) PROVE IsPower(2 * m)
    <2>1. m \in Nat \ {0} BY <1>2 DEF IsPower
    <2>2. ASSUME NEW d \in 1 .. 2 * m, (2 * m) % d = 0, d % 2 = 1 PROVE d = 1
      <3>1. d \in Nat \ {0} OBVIOUS
      <3>2. m % d = 0 BY <2>1, <2>2, <3>1, OddDivides
      <3>3. d <= m
        <4>1. d > m => m % d = m BY <2>1, <3>1
        <4> QED BY <2>1, <3>1, <3>2, <4>1
      <3>4. d \in 1 .. m BY <2>1, <3>1, <3>3
      <3> QED BY <1>2, <2>2, <3>2, <3>4 DEF IsPower
    <2> QED BY <2>1, <2>2 DEF IsPower
  <1>3. ASSUME NEW n \in Nat, IsPower(n), n # 1 PROVE \E m \in Nat : n = 2 * m /\ IsPower(m)
    <2>1. n \in Nat \ {0} BY <1>3 DEF IsPower
    <2>2. n % 2 # 1
      <3>1. n % n = 0 /\ n \in 1 .. n BY <2>1
      <3> QED BY <1>3, <3>1 DEF IsPower
    <2>3. PICK m \in Nat : n = 2 * m BY <2>2, Even
    <2>4. m \in Nat \ {0} BY <2>1, <2>3
    <2>5. ASSUME NEW d \in 1 .. m, m % d = 0, d % 2 = 1 PROVE d = 1
      <3>1. d \in Nat \ {0} /\ d \in 1 .. n BY <2>3, <2>4
      <3>2. n % d = 0 BY <2>3, <2>4, <2>5, <3>1, OddDivides
      <3> QED BY <1>3, <2>5, <3>1, <3>2 DEF IsPower
    <2> QED BY <2>3, <2>4, <2>5 DEF IsPower
  <1> QED BY <1>1, <1>2, <1>3

\* The double of a power of two divides the greater ones.
LEMMA GreaterPower ==
  ASSUME NEW n \in Nat, NEW m \in Nat, IsPower(n), IsPower(m), n < m
  PROVE  \E z \in Nat : m = (2 * n) * z
  <1> DEFINE Good(a, b) == \E z \in Nat : b = (2 * a) * z
             T == {b \in Nat : IsPower(b) /\ \E a \in Nat : IsPower(a) /\ a < b /\ ~Good(a, b)}
  <1>1. SUFFICES ASSUME T # {} PROVE FALSE
    OBVIOUS
  <1>2. PICK b \in T : \A y \in T : b <= y
    <2>1. T \subseteq Nat OBVIOUS
    <2> HIDE DEF T
    <2> QED BY <1>1, <2>1, LeastNumber
  <1>3. b \in Nat /\ IsPower(b)
    OBVIOUS
  <1>4. PICK a \in Nat : IsPower(a) /\ a < b /\ ~Good(a, b)
    OBVIOUS
  <1>5. a \in Nat \ {0} /\ b # 1
    BY <1>4 DEF IsPower
  <1>6. PICK c \in Nat : b = 2 * c /\ IsPower(c)
    BY <1>3, <1>5, Doubled
  <1>7. CASE a = 1
    <2>1. b = (2 * a) * c BY <1>6, <1>7
    <2> QED BY <1>4, <2>1
  <1>8. CASE a # 1
    <2>1. PICK e \in Nat : a = 2 * e /\ IsPower(e)
      BY <1>4, <1>8, Doubled
    <2>2. e < c /\ c < b
      BY <1>4, <1>5, <1>6, <2>1
    <2>3. c \notin T
      BY <1>2, <1>3, <2>2
    <2>4. PICK z \in Nat : c = (2 * e) * z
      BY <1>6, <2>1, <2>2, <2>3
    <2>5. 2 * ((2 * e) * z) = (2 * (2 * e)) * z
      <3>1. 2 * e \in Nat BY Products
      <3> QED BY <3>1, Products
    <2>6. b = (2 * a) * z
      BY <1>6, <2>1, <2>4, <2>5
    <2> QED BY <1>4, <2>6
  <1> QED BY <1>7, <1>8

\* The ones at the end of a, as the code's loop counts them, stand for the one
\* power of two that the manual asks for.
LEMMA OnesFacts ==
  ASSUME NEW a \in Nat
  PROVE  /\ Ones[a] \in Nat \ {0} /\ IsPower(Ones[a])
         /\ a % (2 * Ones[a]) = Ones[a] - 1 /\ Ones[a] <= a + 1
  <1> DEFINE Fine(b) == /\ Ones[b] \in Nat \ {0} /\ IsPower(Ones[b])
                        /\ b % (2 * Ones[b]) = Ones[b] - 1 /\ Ones[b] <= b + 1
             T == {b \in Nat : ~Fine(b)}
  <1>1. SUFFICES ASSUME T # {} PROVE FALSE
    OBVIOUS
  <1>2. PICK b \in T : \A y \in T : b <= y
    <2>1. T \subseteq Nat OBVIOUS
    <2> HIDE DEF T
    <2> QED BY <1>1, <2>1, LeastNumber
  <1>3. b \in Nat /\ ~Fine(b)
    OBVIOUS
  <1>4. CASE b % 2 = 1
    <2>1. PICK c \in Nat : b = 2 * c + 1 /\ c = b \div 2 /\ c < b
      <3>1. b = 2 * (b \div 2) + 1 /\ b \div 2 \in Nat BY <1>3, <1>4
      <3> QED BY <3>1
    <2>2. Fine(c)
      BY <1>2, <1>3, <2>1
    <2> HIDE DEF Fine
    <2>3. PICK m \in Nat \ {0} : /\ m = Ones[c] /\ IsPower(m)
                                 /\ c % (2 * m) = m - 1 /\ m <= c + 1
      BY <2>2 DEF Fine
    <2>4. PICK n \in Nat \ {0} : n = 2 * m
      BY <2>3
    <2>5. Ones[b] = n
      BY <1>3, <1>4, <2>1, <2>3, <2>4, OnesEquation
    <2>6. PICK q \in Nat : c = n * q + (m - 1)
      <3>1. c = n * (c \div n) + (c % n) /\ c \div n \in Nat BY Division
      <3>2. c % n = m - 1 BY <2>3, <2>4
      <3>3. PICK q \in Nat : q = c \div n BY <3>1
      <3>4. c = n * q + (m - 1) BY <3>1, <3>2, <3>3
      <3> QED BY <3>4
    <2>7. b % (2 * n) = n - 1
      <3>1. PICK k \in Nat \ {0} : k = 2 * n BY <2>4
      <3>2. (2 * n) * q = 2 * (n * q) /\ n * q \in Nat BY Products
      <3>3. PICK z \in Nat : z = n * q BY <3>2
      <3>4. k * q = 2 * z BY <3>1, <3>2, <3>3
      <3>5. c = z + (m - 1) BY <2>6, <3>3
      <3>6. b = 2 * z + (n - 1) BY <2>1, <2>4, <3>5
      <3>7. b = k * q + (n - 1) /\ n - 1 \in 0 .. k - 1 BY <2>4, <3>1, <3>4, <3>6
      <3>8. b % k = n - 1 BY <1>3, <3>7, Quotient
      <3> QED BY <3>1, <3>8
    <2>8. n <= b + 1
      BY <2>1, <2>3, <2>4
    <2>9. IsPower(n)
      BY <2>3, <2>4, Doubled
    <2>10. Fine(b)
      BY <2>5, <2>7, <2>8, <2>9 DEF Fine
    <2> QED BY <1>3, <2>10 DEF Fine
  <1>5. CASE b % 2 # 1
    <2>1. Ones[b] = 1
      BY <1>3, <1>5, OnesEquation
    <2>2. b % 2 = 0 /\ 1 <= b + 1
      BY <1>3, <1>5
    <2> QED BY <1>3, <2>1, <2>2, Doubled
  <1> QED BY <1>4, <1>5

LEMMA LastOfSpan ==
  ASSUME NEW d \in Nat \ {0}, NEW t \in Nat
  PROVE  (d * t + (d - 1)) % d = d - 1
  <1>1. PICK c \in 0 .. d - 1 : c = d - 1 OBVIOUS
  <1>2. PICK b \in Nat : b = d * t + c BY Products
  <1>3. b % d = c BY <1>2, Quotient
  <1> QED BY <1>1, <1>2, <1>3

LEMMA OnePower ==
  ASSUME NEW a \in Nat, NEW n \in Nat, NEW m \in Nat, IsPower(n), IsPower(m),
         a % (2 * n) = n - 1, a % (2 * m) = m - 1
  PROVE  ~(n < m)
  <1> SUFFICES ASSUME n < m PROVE FALSE
    OBVIOUS
  <1>1. n \in Nat \ {0} /\ m \in Nat \ {0}
    BY DEF IsPower
  <1>2. PICK d \in Nat \ {0} : d = 2 * n BY <1>1
  <1>3. PICK e \in Nat \ {0} : e = 2 * m BY <1>1
  <1>4. PICK z \in Nat : m = d * z
    BY <1>2, GreaterPower
  <1>5. PICK q \in Nat : a = e * q + (m - 1)
    <2>1. a = e * (a \div e) + (a % e) /\ a \div e \in Nat BY Division
    <2>2. a % e = m - 1 BY <1>3
    <2>3. PICK q \in Nat : q = a \div e BY <2>1
    <2>4. a = e * q + (m - 1) BY <2>1, <2>2, <2>3
    <2> QED BY <2>4
  <1>6. z # 0
    BY <1>1, <1>4
  <1>7. PICK w \in Nat : z = w + 1
    <2>1. z - 1 \in Nat /\ z = (z - 1) + 1 BY <1>6
    <2> QED BY <2>1
  <1>8. m = d * w + d
    BY <1>4, <1>7, Products
  <1>9. PICK u \in Nat : u = z * q BY Products
  <1>10. e * q = 2 * (d * u)
    <2>1. e = 2 * (d * z) BY <1>3, <1>4
    <2>2. (d * z) * q = d * u /\ d * z \in Nat BY <1>9, Products
    <2>3. (2 * (d * z)) * q = 2 * ((d * z) * q) BY <2>2, Products
    <2> QED BY <2>1, <2>2, <2>3
  <1>11. PICK t \in Nat : t = 2 * u + w OBVIOUS
  <1>12. d * t = 2 * (d * u) + d * w
    <2>1. d * (2 * u) = 2 * (d * u) BY Products
    <2>2. d * (2 * u + w) = d * (2 * u) + d * w BY Products
    <2> QED BY <1>11, <2>1, <2>2
  <1>13. a = d * t + (d - 1)
    <2>1. PICK x, y \in Nat : x = d * u /\ y = d * w BY Products
    <2>2. a = 2 * x + (y + d - 1) BY <1>5, <1>8, <1>10, <2>1
    <2>3. d * t = 2 * x + y BY <1>12, <2>1
    <2>4. PICK v \in Nat : v = d * t BY Products
    <2> QED BY <2>2, <2>3, <2>4
  <1>14. a % d = d - 1
    <2>1. (d * t + (d - 1)) % d = d - 1 BY LastOfSpan, Zenon
    <2> QED BY <1>13, <2>1, Zenon
  <1> QED BY <1>1, <1>2, <1>14

LEMMA RegionPower ==
  ASSUME NEW a \in Addr
  PROVE  (CHOOSE n \in Powers : a % (2 * n) = n - 1) = Ones[a]
  <1>1. a \in Nat /\ a + 1 <= AddrSpace /\ AddrSpace \in Nat
    BY AddressAssumption DEF Addr
  <1>2. PICK o \in Nat \ {0} : o = Ones[a] /\ IsPower(o) /\ a % (2 * o) = o - 1 /\ o <= a + 1
    BY <1>1, OnesFacts
  <1>3. o \in Powers
    BY <1>1, <1>2, PowersAre
  <1>4. ASSUME NEW n \in Powers, a % (2 * n) = n - 1 PROVE n = o
    <2>1. n \in Nat /\ IsPower(n) BY PowersAre
    <2>2. ~(n < o) /\ ~(o < n) BY <1>1, <1>2, <1>4, <2>1, OnePower
    <2> QED BY <1>2, <2>1, <2>2
  <1> DEFINE P(n) == a % (2 * n) = n - 1
  <1>5. P(o) BY <1>2
  <1>6. \A n \in Powers : P(n) => n = o BY <1>4
  <1> HIDE DEF P
  <1>7. (CHOOSE n \in Powers : P(n)) = o
    BY <1>3, <1>5, <1>6
  <1> QED BY <1>2, <1>7 DEF P

-----------------------------------------------------------------------------
(* Entry by entry, the addresses checkPMP matches are the manual's.        *)

Inside(a) == 4 * a + 3 \in Addr

LEMMA PmpRegisters ==
  ASSUME MmuTypeOK, NEW i \in Entries
  PROVE  pmpaddr[i] \in Addr /\ pmpcfg[i] \in Cfg
  <1>1. AddrSpace - 1 \in Addr /\ 0 \in Addr
    BY AddressAssumption DEF Addr
  <1>2. PmpReset \in Cfg /\ BootByte \in Cfg
    BY DEF PmpReset, BootByte, Cfg, OFF, TOR, NA4, NAPOT
  <1> QED BY <1>1, <1>2, ViewAssumption DEF MmuTypeOK, Cfgs, Addrs

\* The branch of NAPOT, unfolded once: the power stays a CHOOSE.
LEMMA NapotIs ==
  /\ NAPOT # TOR /\ NAPOT # NA4
  BY DEF NAPOT, TOR, NA4

LEMMA ShiftedInside ==
  ASSUME NEW a \in Addr, Inside(a)
  PROVE  Shifted(a) = 4 * a
  <1>1. a \in Nat BY DEF Addr
  <1>2. 4 * a \in 0 .. AddrSpace - 1 BY <1>1, AddressAssumption DEF Inside, Addr
  <1> QED BY <1>2, WrapSmall DEF Shifted, Granule

LEMMA ShiftedTop ==
  ASSUME AddrSpace >= 4
  PROVE  Shifted(AddrSpace - 1) = AddrSpace - 4
  <1>1. PICK n \in Nat \ {0} : n = AddrSpace /\ n >= 4 BY AddressAssumption
  <1>2. 4 * (n - 1) = n * 3 + (n - 4) /\ n - 4 \in 0 .. n - 1 /\ 4 * (n - 1) \in Nat
    BY <1>1
  <1>3. (4 * (n - 1)) % n = n - 4
    BY <1>1, <1>2, Quotient
  <1> QED BY <1>1, <1>3 DEF Shifted, Granule, Wrap

LEMMA TorMatches ==
  ASSUME MmuTypeOK, NEW i \in Entries, pmpcfg[i].a = TOR, \A j \in Entries : InRange(j)
  PROVE  Matches(pmpcfg, pmpaddr, i) = Region(i) \cap Addr
  <1>1. PICK a \in Addr : a = pmpaddr[i]
    BY PmpRegisters
  <1>2. Inside(a) /\ Shifted(a) = 4 * a
    <2>1. InRange(i) OBVIOUS
    <2>2. Inside(a) BY <1>1, <2>1 DEF InRange, Inside, TOR, NAPOT
    <2> QED BY <2>2, ShiftedInside
  <1>3. a \in Nat /\ AddrSpace \in Nat /\ 4 * a + 4 <= AddrSpace
    BY <1>2, AddressAssumption DEF Inside, Addr
  <1>4. Matches(pmpcfg, pmpaddr, i) =
          {p \in Addr : p >= (IF i = 0 THEN 0 ELSE Shifted(pmpaddr[i - 1])) /\ p < 4 * a}
    BY <1>1, <1>2 DEF Matches, TOR, NA4, NAPOT
  <1>5. Region(i) = (IF i = 0 THEN 0 ELSE 4 * pmpaddr[i - 1]) .. 4 * a - 1
    BY <1>1 DEF Region, TOR, NA4, NAPOT
  <1>6. \A p \in Addr : p \in Nat
    BY DEF Addr
  <1>7. CASE i = 0
    <2>1. Region(i) = 0 .. 4 * a - 1
      BY <1>5, <1>7
    <2>2. Matches(pmpcfg, pmpaddr, i) = {p \in Addr : p >= 0 /\ p < 4 * a}
      BY <1>4, <1>7
    <2>3. ASSUME NEW p \in Addr PROVE p >= 0 /\ p < 4 * a <=> p \in 0 .. 4 * a - 1
      BY <1>3, <1>6
    <2> QED BY <2>1, <2>2, <2>3
  <1>8. CASE i # 0
    <2>1. i - 1 \in Entries
      BY <1>8, PmpCountAssumption DEF Entries
    <2>2. PICK b \in Addr : b = pmpaddr[i - 1]
      BY <2>1, PmpRegisters
    <2>3. b \in Nat BY DEF Addr
    <2>4. CASE Inside(b)
      <3>1. Shifted(b) = 4 * b BY <2>4, ShiftedInside
      <3>2. Region(i) = 4 * b .. 4 * a - 1
        BY <1>5, <1>8, <2>2
      <3>3. Matches(pmpcfg, pmpaddr, i) = {p \in Addr : p >= 4 * b /\ p < 4 * a}
        BY <1>4, <1>8, <2>2, <3>1
      <3>4. ASSUME NEW p \in Addr PROVE p >= 4 * b /\ p < 4 * a <=> p \in 4 * b .. 4 * a - 1
        BY <1>3, <1>6, <2>3
      <3> QED BY <3>2, <3>3, <3>4
    <2>5. CASE ~Inside(b)
      <3>1. b = AddrSpace - 1
        BY <2>1, <2>2, <2>5 DEF InRange, Inside
      <3>2. Shifted(b) = AddrSpace - 4
        BY <1>3, <3>1, ShiftedTop
      <3>3. Matches(pmpcfg, pmpaddr, i) = {p \in Addr : p >= AddrSpace - 4 /\ p < 4 * a}
        BY <1>4, <1>8, <2>2, <3>2
      <3>4. Region(i) = 4 * b .. 4 * a - 1
        BY <1>5, <1>8, <2>2
      <3>5. Matches(pmpcfg, pmpaddr, i) = {}
        <4>1. ASSUME NEW p \in Addr PROVE ~(p >= AddrSpace - 4 /\ p < 4 * a)
          BY <1>3, <1>6
        <4> QED BY <3>3, <4>1
      <3>6. Region(i) = {}
        BY <1>3, <3>1, <3>4
      <3> QED BY <3>5, <3>6
    <2> QED BY <2>4, <2>5
  <1> QED BY <1>7, <1>8

LEMMA Na4Matches ==
  ASSUME MmuTypeOK, NEW i \in Entries, pmpcfg[i].a = NA4, InRange(i)
  PROVE  Matches(pmpcfg, pmpaddr, i) = Region(i) \cap Addr
  <1>1. PICK a \in Addr : a = pmpaddr[i]
    BY PmpRegisters
  <1>2. Inside(a) /\ 4 * a + 4 \in Addr
    BY <1>1 DEF InRange, Inside, NA4, NAPOT
  <1>3. Shifted(a) = 4 * a /\ a \in Nat
    BY <1>2, ShiftedInside DEF Addr
  <1>4. Wrap(4 * a + 4) = 4 * a + 4
    BY <1>2, WrapSmall DEF Addr
  <1>5. Matches(pmpcfg, pmpaddr, i) = {p \in Addr : p >= 4 * a /\ p < 4 * a + 4}
    BY <1>1, <1>3, <1>4 DEF Matches, TOR, NA4, NAPOT, Granule
  <1>6. Region(i) = 4 * a .. 4 * a + 3
    BY <1>1 DEF Region, TOR, NA4, NAPOT
  <1>7. \A p \in Addr : p \in Nat
    BY DEF Addr
  <1>8. ASSUME NEW p \in Addr PROVE p >= 4 * a /\ p < 4 * a + 4 <=> p \in 4 * a .. 4 * a + 3
    BY <1>3, <1>7
  <1> QED BY <1>5, <1>6, <1>8

LEMMA NapotMatches ==
  ASSUME MmuTypeOK, NEW i \in Entries, pmpcfg[i].a = NAPOT
  PROVE  Matches(pmpcfg, pmpaddr, i) = Region(i) \cap Addr
  <1>1. PICK a \in Addr : a = pmpaddr[i] /\ a \in Nat
    BY PmpRegisters DEF Addr
  <1>2. PICK n \in Nat \ {0} : n = Ones[a] /\ a % (2 * n) = n - 1
    BY <1>1, OnesFacts
  <1>3. PICK d \in Nat \ {0} : d = 2 * n
    BY <1>2
  <1>4. PICK q \in Nat : q = a \div d /\ a = d * q + (n - 1)
    <2>1. a = d * (a \div d) + (a % d) /\ a \div d \in Nat BY <1>1, Division
    <2>2. a % d = n - 1 BY <1>2, <1>3
    <2> QED BY <2>1, <2>2
  <1>5. PICK z \in Nat : z = d * q
    BY Products
  <1>6. Matches(pmpcfg, pmpaddr, i) = {p \in Addr : (p \div 4) \div d = q}
    <2>1. Grain(pmpaddr[i]) = d
      BY <1>1, <1>2, <1>3 DEF Grain
    <2>2. Matches(pmpcfg, pmpaddr, i) =
            {p \in Addr : (p \div Granule) \div Grain(pmpaddr[i])
                             = pmpaddr[i] \div Grain(pmpaddr[i])}
      BY NapotIs, Zenon DEF Matches
    <2>3. Granule = 4 BY DEF Granule
    <2> QED BY <1>1, <1>4, <2>1, <2>2, <2>3
  <1>7. Region(i) = 4 * (a - (n - 1)) .. 4 * (a - (n - 1)) + 8 * n - 1
    <2>1. (CHOOSE m \in Powers : a % (2 * m) = m - 1) = n
      BY <1>1, <1>2, RegionPower
    <2>2. Region(i) = LET m == CHOOSE m \in Powers : a % (2 * m) = m - 1
                      IN  4 * (a - (m - 1)) .. 4 * (a - (m - 1)) + 8 * m - 1
      BY <1>1, Zenon, NapotIs DEF Region
    <2> QED BY <2>1, <2>2
  <1>8. Region(i) = 4 * z .. 4 * z + 4 * d - 1
    <2>1. a = z + (n - 1)
      BY <1>4, <1>5
    <2>2. 8 * n = 4 * d
      BY <1>3
    <2>3. 4 * (a - (n - 1)) = 4 * z
      BY <1>1, <2>1
    <2> QED BY <1>7, <2>2, <2>3
  <1>9. ASSUME NEW p \in Addr PROVE (p \div 4) \div d = q <=> p \in 4 * z .. 4 * z + 4 * d - 1
    <2>1. PICK u \in Nat, r \in 0 .. 3 : u = p \div 4 /\ p = 4 * u + r
      <3>1. p \in Nat BY DEF Addr
      <3>2. p \div 4 \in Nat /\ p % 4 \in 0 .. 3 /\ p = 4 * (p \div 4) + (p % 4) BY <3>1
      <3> QED BY <3>2
    <2>2. PICK x \in Nat, y \in 0 .. d - 1 : x = u \div d /\ u = d * x + y
      <3>1. u \div d \in Nat /\ u % d \in Nat /\ u % d < d /\ u = d * (u \div d) + (u % d)
        BY Division
      <3>2. u % d \in 0 .. d - 1 BY <3>1
      <3> QED BY <3>1, <3>2
    <2>3. x = q => p \in 4 * z .. 4 * z + 4 * d - 1
      <3> HAVE x = q
      <3>1. u = z + y BY <1>5, <2>2
      <3> QED BY <1>3, <2>1, <2>2, <3>1
    <2>4. p \in 4 * z .. 4 * z + 4 * d - 1 => x = q
      <3> HAVE p \in 4 * z .. 4 * z + 4 * d - 1
      <3>1. z <= u /\ u <= z + d - 1 BY <1>3, <2>1
      <3>2. PICK c \in 0 .. d - 1 : u = z + c
        <4>1. u - z \in 0 .. d - 1 /\ u = z + (u - z) BY <1>3, <2>1, <3>1
        <4> QED BY <4>1
      <3>3. u = d * q + c BY <1>5, <3>2
      <3>4. u \div d = q BY <2>1, <3>3, Quotient
      <3> QED BY <2>2, <3>4
    <2> QED BY <2>1, <2>2, <2>3, <2>4
  <1> QED BY <1>6, <1>8, <1>9

LEMMA MatchesRegion ==
  ASSUME MmuTypeOK, \A j \in Entries : InRange(j), NEW i \in Entries
  PROVE  Matches(pmpcfg, pmpaddr, i) = Region(i) \cap Addr
  <1>1. pmpcfg[i].a \in {OFF, TOR, NA4, NAPOT}
    BY PmpRegisters DEF Cfg, OFF, TOR, NA4, NAPOT
  <1>2. CASE pmpcfg[i].a = OFF
    <2>1. Matches(pmpcfg, pmpaddr, i) = {} /\ Region(i) = {}
      BY <1>2 DEF Matches, Region, OFF, TOR, NA4, NAPOT
    <2> QED BY <2>1
  <1> QED BY <1>1, <1>2, TorMatches, Na4Matches, NapotMatches

\* The first region that holds an address decides, as the first match does.
LEMMA HavingIsGranted ==
  ASSUME MmuTypeOK, \A j \in Entries : InRange(j), NEW field
  PROVE  Having(pmpcfg, pmpaddr, field) = Granted([i \in Entries |-> Region(i)], field)
  <1> DEFINE region == [i \in Entries |-> Region(i)]
  <1>1. \A i \in Entries : \A j \in 0 .. i - 1 : j \in Entries
    BY PmpCountAssumption DEF Entries
  <1>2. \A i \in Entries : \A p \in Addr : p \in Matches(pmpcfg, pmpaddr, i) <=> p \in region[i]
    BY MatchesRegion
  <1>3. \A i \in Entries : Matches(pmpcfg, pmpaddr, i) \subseteq Addr
    BY MatchesRegion
  <1> HIDE DEF region
  <1>4. ASSUME NEW i \in Entries, NEW p
        PROVE  p \in Decides(pmpcfg, pmpaddr, i)
                 <=> p \in Addr /\ p \in region[i] /\ \A j \in 0 .. i - 1 : p \notin region[j]
    BY <1>1, <1>2, <1>3 DEF Decides
  <1>5. \A p : p \in Having(pmpcfg, pmpaddr, field)
               <=> \E i \in Entries : pmpcfg[i][field] /\ p \in Decides(pmpcfg, pmpaddr, i)
    BY DEF Having
  <1>6. \A p : p \in Granted(region, field)
               <=> p \in Addr /\ \E i \in Entries :
                      /\ p \in region[i] /\ pmpcfg[i][field]
                      /\ \A j \in 0 .. i - 1 : p \notin region[j]
    BY DEF Granted
  <1>7. \A p : p \in Having(pmpcfg, pmpaddr, field) <=> p \in Granted(region, field)
    BY <1>4, <1>5, <1>6
  <1>8. Having(pmpcfg, pmpaddr, field) = Granted(region, field)
    BY <1>7
  <1> QED BY <1>8 DEF region

\* The bus allows what the regions of the manual allow, for every number of
\* entries and every history of writes to them: the mask checkPMP builds from
\* the ones at the end of pmpaddr is the manual's power of two, of any size.
THEOREM GrantsAsRegions == MmuSpec => []GrantsByRegion
  <1>1. MmuTypeOK => GrantsByRegion
    <2> SUFFICES ASSUME MmuTypeOK, \A i \in Entries : InRange(i)
                 PROVE  LET region == [i \in Entries |-> Region(i)]
                        IN  h.pmp = [lock |-> Granted(region, "l"),
                                     load |-> Granted(region, "r"),
                                     store |-> Granted(region, "w")]
      BY DEF GrantsByRegion
    <2>1. h.pmp = View(pmpcfg, pmpaddr) BY DEF MmuTypeOK
    <2> QED BY <2>1, ViewFields, HavingIsGranted
  <1> QED BY <1>1, MmuTypeCorrect, PTL
=============================================================================
