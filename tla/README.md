# A verification of the RV64 simulator

The repository simulates one RV64 hart with its bus, memory, CLINT and UART,
boots OpenSBI or a bare program on it, and runs it in a single thread. This
directory holds TLA+ models of it, TLC runs that check them on small
instances, and TLAPS proofs for every size. `PROJECT.json` maps every
definition to the lines it models and lists the runs, hazards and theorems.

- Check a run: `tlc -config MCHartTraps.cfg MCHart`.
- Check proofs: `tlapm HartProofs.tla`, and so the other seven `*Proofs` modules
  (each within five minutes).

Source paths below are relative to the repository's `src`, headers to its
`include`.

## 1. Inventory

| Component | Source | State | Operations | What makes it correct | Modules |
|---|---|---|---|---|---|
| Processor | `Core/Processor.cpp` | pc, mode, `trap_pending` | `step`, `run`, `raiseTrap` | each trap saves exactly what was interrupted; a step that cannot fetch traps; no way to a higher privilege but a trap | `HartOps`, `Hart` |
| PMP, Sv39 | `checkPMP`, `translate` in `Core/Processor.cpp` | pmpcfg, pmpaddr, satp, the page tables | the scan, the walk | PMP grants what its regions say; code is fetched from where the tables map it | `Pmp`, `Mmu` |
| CSR file | `Core/ProcessorCSR.cpp` | the CSRs | `readCSR`, `writeCSR` and their raw forms | privilege and read-only checks; masks; sstatus, sie and sip are views | `HartOps`, `Hart` |
| System instructions | `Instructions/CSR.cpp` | none | ecall, ebreak, mret, sret, wfi, six CSR instructions | return undoes trap; an instruction that trapped has no further effect | `HartOps`, `Hart` |
| Bus, CLINT | `Core/Bus.cpp` | msip, mtime, mtimecmp | reads and writes of 1, 2, 4, 8 bytes | PMP before device before memory; msip only by those allowed to change mip | `HartOps`, `DataPath` |
| Memory | `Core/Memory.cpp` | the byte array | the same sizes | no access outside; little-endian composition | `DataPath` |
| Loads, stores, atomics | `Instructions/{Loads,Stores,Atomics}.cpp` | reservation | lr, sc, AMOs, loads, stores | one flat array; an AMO is one step; sc only after its lr | `DataPath` |
| Interpreter, registry | `Core/{Interpreter,InstructionRegistry,DefaultRegistry}.cpp` | the hash table | `register_*`, `lookup`, `decode`, `handle` | every word reaches the handler of its format | `Registry`, `Decoder` |
| Compressed instructions | `Core/ProcessorCDecompressor.cpp` | none | `decompress` | each stands for the instruction the manual says | `Decoder` |
| Arithmetic, branches | `Instructions/{RV64I,Arithmetic,Mul,Float,Branches}.cpp` | the registers | one handler each | the manual's values; x0 is zero | `Alu`, `Execute` |
| Environment | `Host/WindowsEnvironment.cpp` | heap end | `handle_ecall` | its accesses are those of the calling hart | `Hart` |
| UART | `Core/UART.cpp` | eight registers | `readByte`, `writeByte` | prints what is sent; a poll never hangs | `Uart` |
| Debug | `Core/Debug.cpp` | ring of 8192 characters | `recordChar`, `dump`, ... | a dump is the last of the trace, in order | `Debug` |
| Systems, loader, CLI | `systems/*.h`, `Host.cpp`, `Host/*.cpp` | config, memory | `parseCommandLine`, `load`, `boot` | what the firmware needs is where its registers point | `Host` |
| Device tree builder, libfdt | `core/DTBBuilder.h`, `lib/libfdt` | one buffer | the calls of `build`, `fdt_sw`, `fdt_pack` | a reader finds what was written; blocks do not overlap | `DTBBuilder`, `FdtWriter` |
| Interrupts | `checkInterrupts` | mip, mie, mstatus | two traps | has no caller | |

**How they interact.** Everything is a synchronous call. `main` parses the
command line, makes the machine, loads the payload and has the system boot
(registers, device tree, firmware); then `Processor::step` runs: fetch
(translate, Bus, PMP, Memory), decode, registry lookup, handler. Handlers call
the bus and the CSR file. Any of these may call `raiseTrap`, *which changes
mode, pc and mstatus at once* while the callers above it go on. The Host build
puts an environment in front of ecall; the Core build has none.

**What is hard.** There are no threads. On the hart the difficulty is
re-entrancy: a trap is not an exception that unwinds but a state change in the
middle of an instruction, which then continues in another mode, with another
pc, under other PMP rules. Two or more traps can nest in one step. So the
interleavings that matter are of the parts of one instruction with the traps
raised between them, over long sequences of instructions that set up
delegation, PMP and translation. Around it: sums that wrap at the end of the
address space, two layers of bounds that disagree by one, formats that overlap
in the decoder's table, immediates scattered over eight bit fields, a ring at
its limit, a buffer filled from both ends by calls whose failures nobody looks
at. `PROJECT.json` lists each hazard at its line.

## 2. The modules

```
HartOps --+- Hart ---- MCHart            HartOpsProofs, HartProofs
          |    ^
          |    | implements
          +- Pmp - Mmu - MCMmu           MmuProofs
          |
          +- DataPath -- MCDataPath      DataPathProofs
                | implements
             FlatMemory

Registry ---- MCRegistry                 RegistryProofs
   | implements
Dispatch

Words - Alu, Decoder - Execute - MCExecute   ExecuteProofs, IsaProofs
                          | implements
                         Isa

FdtWriter, Debug, Uart - Host (with DTBBuilder) - MCHost    HostProofs
    |        | implement
DeviceTree, TraceLog
```

### HartOps: the functions of the hart

Operators on a record `g`, the hart. Each stands for a C++ function and does
everything that function does, calls included: `RaiseTrap`, `BusRead`,
`BusWrite`, `ReadCSR`, `WriteCSR`, `ExecCsr`, `ExecMret`, `Translate`, `Fetch`,
`Retire`. Where memory contents or the build decide, the operator returns the
set of outcomes. What to know when reading it:

- A register of bits is the set of numbers of the bits set. General
  registers, memory contents, mcause, mtval and counters are left out: control
  never depends on them except through a value that is then arbitrary.
- `IllegalAtPC` is a set because `raiseTrap(.., program_counter,
  bus.readWord(program_counter))` leaves it to the compiler whether the
  argument that may trap is evaluated before or after the one that reads
  `program_counter`.
- Only a fetch is translated: loads, stores and the environment use their
  addresses as physical ones. A fetch is checked by PMP as a *load*, for the
  code reads it with `readHalf`.
- PMP is asked about the first byte of an access only. `PmpView` is its
  outcome (which addresses are locked, open to loads, open to stores), and
  `Sv39Outcomes` that of a page walk (a physical address, or a fault with the
  traps raised on the way). `Mmu` has the two algorithms.
- A store that hits no device and no memory is dropped without a trap.
- In the Core build the CSR error path dereferences a null `io`; the model
  ends the run there (`alive`), as it does for the environment's exit.

### Hart: the state machine

One action per kind of instruction, each a whole `Processor::step`: clear
`traps`, translate and fetch (in halves when it crosses a page), decode,
execute, and adjust pc unless it moved. The program is arbitrary: at every
step any instruction of `Program` with any operand of the constants.
`h` is the hart, `last` a note of what the step was, read by properties only.
`traps` counts `raiseTrap` calls of the step (0, 1, "2 or more").
`PmpNone` and `PmpOpen` are the views with no entry set and with one entry
that opens everything.

### Pmp and Mmu

`Pmp` is `checkPMP` over its entries: the registers, the shift by two in 64
bits, the mask of a NAPOT region from the ones at the end of its register, the
scan in order. `View` is what the entries amount to for `HartOps`.
`Mmu` is the hart with `pmpcfg`, `pmpaddr`, the page-table entries in memory
and the page number of satp. `Walk` is the loop of `translate` over entries it
reads through the bus; `MmuFetch` is the fetch of `step` with the addresses
it read. Its instructions are those that change this state or the mode (CSR
writes, stores of entries, mret, a jump, traps); each is the action of `Hart`
of that name with the outcomes it may have cut down to the one these registers
and tables give. So `MmuSpec` implements `Spec` of `Hart`, and what is proved
of `Hart` holds of it.

### DataPath and FlatMemory

`DataPath` adds the bytes that `Hart` leaves out: `Bus` hit tests, offsets,
`Memory` bounds, byte order, lr, sc and AMO, with the PMP check and the trap
between the two halves of an AMO. `Elsewhere` is everything the hart does
between two such instructions. `wild` says that an access left the array, after
which the program has no defined behaviour and the model stops.
`FlatMemory` is what a program relies on: an array of cells, accesses inside
it that are atomic, a reservation, and stores that are refused or not.

### Registry and Dispatch

`Registry` is the open-addressing table with masks and the key that
`Interpreter::handle` looks up in it. A word is its opcode, funct3 and funct7;
a mask is a set of those fields. `Dispatch` is an ordered list of rules of
which the first that selects a word wins. `log`, the registrations made, is
there for the refinement. `Selects` is the format test stated without
keys: opcode, then funct3 and funct7 where the format has them, the last bit
of funct7 not counting in a shift.

### Words, Alu, Decoder, Execute; and Isa

`Decoder` is `decompress` (a compressed instruction taken apart and put
together as a 32-bit word), `decode` with the five immediates, and the handler
a word reaches. `Alu` is what the handlers compute, as they compute it: the
high products from four partial products with their carries, the divisions
with their special cases, the narrowing casts; on registers of `2 * HalfBits`
bits, 8 in the run. `Execute` has the registers: `write_reg`, which skips
register 0, the handlers that assign `registers[rd]` without it, the clearing
of register 0 at both ends of a step, links and jumps, and the comparison of
the program counter with its old value.

`Isa` is the manual: an immediate is a list of which instruction bit is which
immediate bit; a high product is the product divided by the word; register 0
is zero. It shares only `Words` with the code's side.

### FdtWriter, DTBBuilder, Debug, Uart, Host; DeviceTree and TraceLog

`FdtWriter` is libfdt's sequential writer as `build` uses it: the state kept in
the header, room computed as a difference, the two blocks growing towards each
other, a name added before there is room for its property and taken back,
`finish` moving the names over the gap, `pack` moving them once more. Bytes
are lengths, and what is read of them later: tags with names or name offsets.
`DTBBuilder` is `build` as the list of its calls with the real lengths.
`DeviceTree` is what a client means by them: each call that succeeds adds a
token, and failed ones nothing. `Tokens`, what a reader of the buffer finds,
is the refinement.

`Debug` is the ring; `TraceLog`, the last characters of a log, its abstract
form. `Uart` is the eight registers with the divisor latch.
`Host` composes them: the command line, the machine with the trace on or
not, the payload, either system's boot with the calls of `build` one by one,
firmware and tree copied in, and a guest that drives the UART, prints the
trace and exits. A file or buffer copied into memory is recorded as a range in
the order of writing, cut off where the bus drops it.

## 3. The runs

| Run | Config | Distinct states | What it asks |
|---|---|---|---|
| `hart_traps` | `MCHartTraps` | 30 699 | Core build: are trap entry and return exact over every order of status, delegation, vector and PMP writes |
| `hart_isolation` | `MCHartIsolation` | 69 761 | OpenSBI boot: can supervisor code reach the machine's configuration by CSRs, returns, msip or traps |
| `hart_fetch` | `MCHartFetch` | 43 129 | fetches of both lengths across pages, translated or not: is each trap precise, does each failure trap |
| `mmu` | `MCMmu` | 30 203 | does PMP grant what its regions say, and is code fetched from where the page tables map it |
| `data_host` | `MCDataHost` | 12 148 | Host memory layout: is it one flat array with atomic AMOs |
| `registry` | `MCRegistry` | 10 340 | is the hash table an ordered list of rules, full or not, in every order of registration |
| `exec` | `MCExecute` | 71 689 | does every instruction, compressed or not, do what the manual says |
| `host` | `MCHost` | 82 559 | what is in memory, on the console and in the trace, for every kind of command line and file; does the program come to an end |
| `hart_stale_trap`, `hart_user`, `data_amo`, `exec_x0` | the four others | | the disagreements of section 6 |

**Bounds.** The state spaces are finite by the constants alone; no run has a
state constraint.

- In the runs of `Hart` and `DataPath`, `AddrSpace` is 12 or 16, so that
  addresses wrap, with memory in the middle (Host) or at 0 (Core), and pages of
  8 bytes, so that memory crosses a page. The comparisons in the code are
  between sums of an address and at most 7 (or a page), so the interesting
  relations (before, at the first byte, at the last, one beyond, wrapped) all
  occur.
- Each run of the hart takes one family of CSRs with two or three values
  each: enough to delegate a cause or not, select each mode in MPP, point the
  vector elsewhere, and open or close PMP. The families are those that
  interact in one of the questions.
- `mmu` has 128 addresses in pages of 16 bytes with memory at 64 to 95, tables
  of two entries and so three bits of page number, two PMP entries, which can
  be off, TOR, NA4 or (as booted) NAPOT over granules inside the tables and the
  code, and four sets of tables: 4-byte instructions over a page end, leaves at
  every level, superpages aligned and not, tables that contain themselves, a
  user page, one entry a program can clear.
- `data_host` has accesses of 1 and 4 bytes at the first, an inner and the
  last byte and at a device, and a PMP view that denies stores from the second
  byte on, so that a store may begin below what it must not touch. `TypeOK` and
  `AccessesInBounds` and the refinement are proved for all sizes.
- `registry` has four slots and six patterns in three opcodes of which two
  begin at the same slot: all collisions, the wrap and the full table occur.
- `exec` keeps all 65 536 compressed words and every 12-bit immediate of the I,
  S and B formats, and each bit of the U and J ones, at full width; only
  registers are narrow, 8 bits, with 11 values each at the edges for both
  operands. Left out of the input: what the manual reserves, instructions with
  no effect but a write to x0 (section 6), and a jump or branch to itself, which
  the code lets fall through (`MCExecute` names each).
- `host` has the lengths of the real tree in buffers of 25 sizes, 4096 among
  them: each call fails in one of them. Addresses and memory sizes are
  the real ones; files end at, before and beyond the next one and memory.
  The ring has 4 characters where the code has 8192, and lines of 3, so that
  the head wraps inside a line and at its end.

**Deadlock.** `CHECK_DEADLOCK FALSE` is set where the system may really stop:
the environment's exit and the Core build's CSR error end the process, the
data path stops after a wild access, the Host program ends. The restricted
instruction sets of the runs can also leave a hart with nothing to execute.
`registry` is checked for deadlock.

**Fairness.** `Host` assumes `WF_vars(Next)`: the program is one thread that
waits for no one, so it goes on as long as it has a next step. Its two liveness
properties need more than that: parsing and building could go in circles, and
the guest's poll waits for a register that the guest's own stores must not be
able to change. No other specification has fairness: a hart's program may do
anything, for ever, and what ought to happen to it eventually, an interrupt,
has no caller in this code.

**Mutants.** Every property of a passing run comes with a seeded fault, beside
the definition it would replace (`Delegated_AnyMode`, `Grain_Short`, ...).

## 4. The properties

- `TrapReturnRoundTrip`: in every reachable state, for each exception, the
  return from a trap just taken restores mode, pc and interrupt enable.
- `SingleTrapIsPrecise`: a step that raised one trap saved the interrupted
  pc, mode and interrupt enable, whoever raised it. Excluded, because the code
  does otherwise: a handler entered at its own pc falls through to the next
  instruction (`step` compares pc with its old value); an instruction whose
  second half was unreadable still runs; steps of user mode (section 6).
- `NoTrapLowersPrivilege`: nor do two traps in one step.
- `SupervisorIsolation`, `MachineLinesProtected`, `DelegationCeiling`: what
  supervisor mode can never change, whatever was delegated to it. The checks
  of `readCSR`/`writeCSR`, the masks of the views, the msip store (which goes
  through `writeCSR` with the mode of the store and may trap twice) and the
  traps of fetch and access have to work together for it.
- `TrappedCsrHasNoEffect`, `FailedStepTraps`: no part of an instruction runs
  on after a trap; no failure is silent.
- `GrantsByRegion`: after any writes to the PMP registers, the addresses
  granted are those of the manual's regions, the first that holds an address
  deciding. Registers that reach beyond the address space are excepted; the
  code shifts their top bits out. An NA4 granule at its very end too: its end wraps to 0.
- `FetchesMappedCode`: what supervisor code fetches without a trap comes, for
  each half of the instruction, from where the tables in memory map it
  executable (`Mapped`, a relation with no order of reading) and from where
  PMP lets it be read. An odd program counter is excepted (section 5).
- `FlatSpec`, `AccessesInBounds`, `DeniedUnlessMachine`: the refinement of the
  flat array; no wrap leaves the array; PMP holds for bytes no allowed access
  can reach, also through delegated traps in mid-AMO.
- `DispatchSpec`: the refinement of the list of rules.
- `IsaSpec`: the refinement of the manual: the registers, the program
  counter and the operands each handler is given.
- `BlocksDisjoint`, `NoOrphanName`, `TreeSpec`: in the buffer of the device
  tree structure and names stay apart, a property without room leaves no name,
  and a reader finds exactly the calls that succeeded, in order.
- `BootImages`: when OpenSBI begins, the tree its a1 points to is complete and
  whole in memory for every `--memory` (sizes of 4 GB and more excepted:
  `memory_kb * 1024` wraps in 32 bits and the tree is then lost), and firmware
  and payload are whole if each ends before the next begins.
- `ConsoleText`: the console is what was sent while the divisor latch was shut.
- `TraceSpec`: a dump is the last characters of the trace, in order.
- `Boots`, `DriverSends`: every command line comes to a running guest, an exit
  or an exception; a guest that polls before each byte comes to its end.

## 5. The proofs

All theorems hold for every value of the constants that satisfies the named
assumptions (`AddressAssumption` and its companions in `HartOps`,
`ProgramAssumption`, `TableAssumption`, `ViewAssumption`, `DataAssumption`,
`RegistryAssumption`, `WriterAssumption`, `HistoryAssumption`,
`HostAssumption`), which TLC evaluates in the runs. Those that say more than what a constant is:

- `TableAssumption`: pages tile the address space and the page numbers, as
  4096-byte pages do 2^64 addresses and 2^44 page numbers.
- `WordAssumption`: `Half` is 2 to the `HalfBits`, a multiple of `HalfBits`
  (so is 2^32 of 32); `ImplementsIsa` has in addition that `HalfBits` divides
  32: the shifts cut their amounts from operands taken modulo these.
- `HostAssumption`: files have a length or are absent, `stoul` returns a number
  or throws, messages are text.
- `BuildAssumption`: `build` starts a tree, writes nodes and properties,
  finishes, packs, and all of it would fit into the 4096 bytes of the buffer
  even if no two properties shared a name and each call took up what the
  longest does: 54 calls of at most 55 bytes. The run evaluates it on the real
  list.
- `BaseClearOfZero`, `DevicesOutside`, no third mode in satp, and the hypotheses
  of `ImplementsIsa`: named in the statements of the theorems, and explained
  below or in section 6.

| Theorem | Module | Argument |
|---|---|---|
| `TypeCorrect` | `HartProofs` | `TypeOK` is inductive: `HartOpsProofs` shows that every operator keeps `HartState`, `NextType` goes through the actions |
| `SupervisorIsolated` | `HartProofs` | `Confined(g, k)`, "configuration unchanged, and context too unless now in machine mode", is reflexive and transitive along the parts of a step; each operator but CSR writes and returns keeps it from any mode below machine, and those two from supervisor mode. So any nesting of traps inside one step is covered |
| `DelegationBounded` | `HartProofs` | the ceiling is inductive: only `WriteCSR` assigns the two registers, through its masks |
| `MachineLinesKept` | `HartProofs` | from the two above: a line that is never delegated is in `mie \ mideleg` |
| `TrapReturnExact` | `HartProofs` | follows from `TypeOK`; the sets of status bits are compared bit by bit |
| `TrapsPrecise`, `TrapsRaisePrivilege` | `HartProofs` | `Orderly(g, k)`, "no lower mode, the same satp, and either no trap and nothing a trap saves changed, or the first trap, taken from `g` as it was, or two", is again a relation along the parts of a step; jumps, CSR writes and returns break it, but those run only after a fetch that raised nothing. `RetireInOrder` carries it over the last adjustment of the pc |
| `TrappedCsrStops`, `FailuresTrap` | `HartProofs` | from the same lemma on steps (`NextInOrder`); the second assumes that the program gives satp no third mode and shows that satp then stays bare or Sv39 |
| `CheckIsView` | `MmuProofs` | if an entry matches there is a least one, by the least-number principle, and it decides; then case by case on its fields |
| `MmuTypeCorrect` | `MmuProofs` | `h.pmp = View(pmpcfg, pmpaddr)` is inductive: no operator of the fetch or of a trap touches `h.pmp`, and a CSR write sets both sides |
| `ImplementsHart`, `MmuSupervisorIsolated` | `MmuProofs` | a walk comes to one of `Sv39Outcomes` (each visit is a bus read followed by a choice), so each fetch is a fetch of `Hart`, and each action one of `Hart`'s; the second follows from `SupervisorIsolated` |
| `FetchesWhereMapped` | `MmuProofs` | by induction on the levels of the walk, the address it returns is the page that `Mapped` relates to this address plus the offset (`LeafPlace`: a superpage of aligned entries is a range of pages); a half word at an even address does not leave its page, and the second half is the same lemma from the next address |
| `GrantsAsRegions` | `MmuProofs` | entry by entry `Matches` is the manual's region; for NAPOT, `Ones` satisfies its recursive equation (`OnesEquation`), so the mask is the least power of two above the ones at the end, and two addresses have the same quotient by it exactly when they lie in one aligned range of that size |
| `DataTypeCorrect`, `HostAccessesInBounds` | `DataPathProofs` | `TypeOK /\ AccessesInBounds` is inductive |
| `ImplementsFlatMemory` | `DataPathProofs` | each action maps to the action of `FlatMemory` of the same name, with `Settled` (no trap is pending between instructions) added to the invariant |
| `DeniedKept` | `DataPathProofs` | a store writes from its address on, which PMP let it begin at; below machine mode PMP answers alike in both modes, and a hart that an AMO's load took to machine mode ends there |
| `RegistryFits`, `ImplementsDispatch` | `RegistryProofs` | see below |
| `BlocksKeptApart`, `NoNameLeftBehind`, `WritesTheTree` | `HostProofs` | see below |
| `DumpShowsTheLast` | `HostProofs` | `RingInv` keeps the head inside the ring and says in which phases nothing waits to be recorded; then `Contents`, read from the head around, changes with each character as the log does, before the ring wraps, when it does and after |
| `HostTypeCorrect` | `HostProofs` | inductive together with `RingInv` and with what the parser's index, the files' places and the ring's characters are in each phase |
| `ConsoleShowsTheText` | `HostProofs` | see below |
| `GuestBoots` | `HostProofs` | see below |
| `TypeCorrect` (of `Execute`) | `ExecuteProofs` | `TypeOK` is inductive: every handler's result is a word (`ComputeType`), every immediate fits 32 bits, every field its register number (`DecodedFields`) |
| `ComputesResults` | `ExecuteProofs` | see below |
| `DecodesAsManual` | `IsaProofs` | see below |
| `ImplementsIsa` | `IsaProofs` | each of the seven groups of handlers maps to the disjunct of `Isa` for the operands it was given, and those are the manual's by `DecodesAsManual`; the registers agree but for register 0, which the hypothesis keeps zero |
| `GuestTree` | `HostProofs` | `Host` changes the writer's state by `NextCall` alone, so what is shown of the writer alone holds of the program |

**Why the data path needs `BaseClearOfZero`.** The bus tests `address >=
ram_base` and `address + n - 1 <= ram_base + size`, memory `offset + n - 1 <
size`; every sum wraps. If memory begins at 7 or above, an access that passes
the first test has an offset at most `AddrSpace - 7`, and `offset + n - 1`
cannot wrap. At 0, as the Core build has it, both can wrap: an access in the
last addresses then passes both tests. `ImplementsFlatMemory` also assumes
`DevicesOutside`: no device lies inside the memory, as in both layouts.

**Why the registry needs a stronger invariant.** `TypeOK` says nothing of
where a pattern lies. `Placed` does: there is an injection from the log to the
slots such that every slot the *k*-th pattern's probe passed over holds an
earlier pattern. Then, along the probe for a word, the patterns that select it
are met in the order of the log; and as the injection is onto exactly when the
log is as long as the table, a registration is dropped only when it is full.
Both need that a probe of `TABLE_SIZE` steps meets every slot.

**Why the tree needs two invariants.** `LayoutInv` bounds the blocks: the
sizes are natural, the offsets lie where the header says, and structure and
names fit between the header and the end. `NamesInv` says what is in them:
every place of the strings block is read as one name only and lies in the
block, and so does what every property points to. That a token reads as the
same name after a call needs both: a new name lies beyond all that were there,
and `finish` moves names and offsets by the same distance. `TreeInv` is both
invariants, and the refinement follows.

**Why the console needs the latch.** `ConsoleText` says what was printed, not
why the next store will be treated likewise. `ConsoleInv` adds that the divisor
latch is open in the register exactly if the last store to the line control
register opened it. The text is the stores numbered by their rank among those
sent, so the step needs that one more store is the last of them
(`CountedLast`).

**Why the boot needs the builder's arithmetic.** The tree is complete in memory
only if no call of `build` failed, and nothing looks whether one did. `BuildInv`
says, after `k` calls, that the two blocks together take at most `(k - 2)`
times the longest call, and that token *i* of the tree is that of the *i*-th
call that adds one; `BuildAssumption` then leaves no call without room.
`BootInv` says which of the three images has been written in each phase, and
where. The theorem is then about numbers: tree and firmware end within the
least memory the system accepts.

**Why the results need powers of two.** The handlers work with remainders,
shifts and half products, `Isa` with the numbers the operands stand for.
`Pow2` is shown to satisfy its equation (by the least counterexample), and from
`Pow2[m + n] = Pow2[m] * Pow2[n]` follow the shifts; a word is the sum of its
bits (`BitsOfWord`), from which follow `and`, `or` and `xor`; `UpperWord` shows
that the four partial products with their carries give the upper word of the
product of any width; and `QuotIs` that the quotient the C division truncates
to is the one the manual describes, -2^(n-1) / -1 and division by zero
included.

**Why every instruction is decoded as in the manual.** `Decoder` cuts a field
with a shift and a mask and puts the pieces of an immediate together; `Isa`
says of each bit of an instruction which bit of the immediate it is. Both are
taken down to the bits: a field is the sum of its bits with their weights
(`CutMore`, one bit at a time), and so is `Unsigned`, whose recursive function
`SumSteps` unfolds. The registry is a sequence searched from the front.
`RulesRight` takes it apart into the lists it is registered with: every rule
is right (its handler is the instruction `Isa` names, wherever the rule
applies), every encoding with a name has a rule, and the one encoding for which
rules disagree, sfence.vma among the system instructions, meets its own first.
So the first rule found is right (`HandlerNamed`). The compressed instructions
go one step further: the expander builds a word from the pieces, and the
decoder takes it apart again (`MadeI` and its companions), which gives back
what was put in because the immediates fit (`ImmJumpRange` and its companions);
then quadrant by quadrant.

**What `ImplementsIsa` assumes, and why.** `[]ZeroRegister` because the code
does not ensure it (`exec_x0`); that nothing jumps, branches or traps to its
own address, because `step` takes a program counter that did not change for
one that has still to be advanced; `NoneReserved`, that the program has none
of the encodings, reserved by the manual, of which the program and `Isa` think
differently (`Reserved`: SLLIW, SRLIW and SRAIW by 32 or more, and two rows of
the compressed arithmetic); and `Loaded # {}`, because a load into x0 is skipped,
which `Isa` has as a load of something.

**Only model-checked:** `Boots` and `DriverSends`, which are liveness under
fairness. The theorems about `Mmu` exclude an odd program counter (which only
mret and sret can install, from an odd mepc or sepc; the code looks for the
page end at 0xFFE and reads such an instruction across it by one translation)
and, as the property does, an NA4 granule at the very end of the address space,
whose end wraps to 0 in the code.

## 6. Where the code disagrees with what is said of it

Each run below finds one such behaviour; `PROJECT.json` quotes both sides.

1. `hart_stale_trap`: `step` clears `trap_pending` only at the end of a step
   that executed. After a failed translation it stays set, and the first CSR
   instruction of the handler is dropped (`Processor.cpp:65`).
2. `hart_user`: `translate` reads satp with the privilege check of an
   instruction. In user mode it traps, returns 0, which means "bare", and
   the user's instruction runs in the mode of the trap (`Processor.cpp:267`).
3. `data_amo`: an AMO stores after its load was refused, in machine mode
   (`Atomics.cpp:68`).
4. `exec_x0`: nothing ever clears register 0, `write_reg` skips it, and six
   handlers write it (`Processor.cpp:17`).

Known and modelled as the code has it, without a run of their own: a mode in
satp other than bare and Sv39 makes `translate` fail without a trap, for ever
(`Processor.cpp:277`); the environment of the Host build answers the ecalls of
a supervisor under OpenSBI too (`CSR.cpp:10`); with memory at 0 an access can
wrap past both bounds (`Memory.cpp:37`); a jump to itself falls through
(`Processor.cpp:104`); SLLIW, SRLIW and SRAIW by 32 or more, which the manual
reserves, are executed as the shift by 32 less, since `handle` clears bit 5 of
the amount for the words too (`Interpreter.cpp:166`).

## 7. Not modelled, and why

- `checkInterrupts`, and with it the timer and software interrupts: nothing
  calls it. No behaviour of the program contains an interrupt.
- What a load makes of its bytes (sign or zeros above them), mcause, mtval,
  mtime, and the arithmetic of an AMO: data, any value in the models.
- The translation of loads and stores: `translate` has the cases, no caller
  uses them.
- The wording of messages, what `--debug` echoes on the console, the console
  itself.
- The `main` of the Core build, which boots the default system with nothing
  loaded.
- The rest of libfdt (readers, editors, overlays, `fdt_resize`): vendored and
  without a caller in the program.

## 8. What is left

1. That a hart whose fetches and data accesses go to one memory sees its own
   stores: `Mmu` and `DataPath` composed.
2. If `checkInterrupts` gets a caller: its two decisions on one reading of the
   interrupt enable, and that a due interrupt is taken.
