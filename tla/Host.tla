-------------------------------- MODULE Host ---------------------------------
(***************************************************************************)
(* The Host program from its command line to a running guest: the command  *)
(* line is parsed, the machine is made, the payload is loaded, the system  *)
(* boots - DefaultSystem, or OpenSBISystem, which builds the device tree   *)
(* and copies firmware and tree into memory - and the guest, here a driver *)
(* of the UART that is traced, runs.  The program is sequential: what      *)
(* varies is what it is given.                                             *)
(*                                                                         *)
(* Addresses are relative to the beginning of RAM, 0x80000000.             *)
(***************************************************************************)
EXTENDS FdtWriter, Debug, Uart, FiniteSetsExt

CONSTANTS
    Setups, \* records of args, payload, firmware and guest
    Stoul,  \* the arguments that are numbers, with their values
    Lines   \* what each part of the program writes to the trace

\* A file is the number of its bytes, or absent.  The guest is what it does to
\* the UART, instruction by instruction.
Absent == -1
Store(offset, value) == [op |-> "store", offset |-> offset, value |-> value]
Poll == [op |-> "poll"]     \* a load of LSR and a branch back to it
Break == [op |-> "ebreak"]  \* its handler returns to the next instruction
Exit == [op |-> "exit"]     \* SYS_EXIT

Instruction ==
    [op : {"store"}, offset : 0 .. 7, value : 0 .. 255] \cup [op : {"poll", "ebreak", "exit"}]
FileSize == Nat \cup {Absent}

ASSUME HostAssumption ==
    /\ \A part \in {"hardware", "loader", "boot", "store", "load", "mret"} :
          Lines[part] \in Seq(Chars)
    /\ Setups \subseteq [args : Seq(STRING), payload : FileSize, firmware : FileSize,
                         guest : Seq(Instruction)]
    /\ \A s \in DOMAIN Stoul : Stoul[s] \in Nat

VARIABLES
    setup,
    phase,
    arg_i,    \* the i of parseCommandLine
    config,
    mem_size,
    writes,   \* the files and buffers copied into memory, in order
    cpu,
    next      \* the next instruction of the guest
hostVars == <<setup, phase, arg_i, config, mem_size, writes, cpu, next>>
vars == <<hostVars, fdtVars, debugVars, uartVars>>

DefaultKb == 531072
MinimumKb == 50000
WrapKb == 4194304     \* kilobytes of a 32-bit size
PayloadAt == 2097152  \* 0x80200000
DtbAt == 35651584     \* getRamBase() + 0x2200000
FdtBuffer == 4096     \* sizeof(fdt_buf)

\* DTBBuilder::build begins a tree, writes nodes and properties, finishes the
\* tree and packs it.  The buffer has room for all of that, and would have if
\* no two properties shared a name and each call took up what the longest does.
IsToken(c) == c.op \in {"begin_node", "end_node", "property"}
Room(c) ==
    CASE c.op = "begin_node" -> TagSize + TagAlign(NameLength[c.name] + 1)
      [] c.op = "property" -> PropertySize + TagAlign(c.len) + NameLength[c.name] + 1
      [] OTHER -> TagSize

ASSUME BuildAssumption ==
    LET n == Len(Program)
    IN  /\ n >= 4
        /\ Program[1].op = "create" /\ Program[2].op = "finish_reservemap"
        /\ \A k \in 3 .. n - 2 : IsToken(Program[k])
        /\ Program[n - 1].op = "finish" /\ Program[n].op = "pack"
        /\ \E most \in 0 .. FdtBuffer :
              /\ \A k \in 3 .. n - 2 : Room(Program[k]) <= most
              /\ HeaderSize + ReserveEntry + (n - 4) * most + TagSize <= FdtBuffer

Init ==
    /\ WriterInit /\ DebugInit /\ UartInit
    /\ setup \in Setups
    /\ phase = "arguments" /\ arg_i = 2
    /\ config = [memory_kb |-> DefaultKb, system |-> "default", trace |-> FALSE, valid |-> FALSE]
    /\ mem_size = 0 /\ writes = <<>>
    /\ cpu = [pc |-> "zero", sp |-> 0, a1 |-> 0]
    /\ next = 1

-----------------------------------------------------------------------------
(* parseCommandLine.  args[1] is the payload's name.                       *)

Argument == setup.args[arg_i]
Given == setup.args[arg_i + 1]
HasValue == arg_i + 1 <= Len(setup.args)

\* Seeded fault: the value is looked at again as an option, for ever.
AfterValue_Again(k) == k
AfterValue(k) == k + 2

Unparsed == UNCHANGED <<setup, mem_size, writes, cpu, next, fdtVars, debugVars, uartVars>>

ParseStart ==
    /\ phase = "arguments"
    /\ IF setup.args = <<>>
       THEN phase' = "create" /\ UNCHANGED config
       ELSE phase' = "parse" /\ config' = [config EXCEPT !.valid = TRUE]
    /\ UNCHANGED arg_i /\ Unparsed

ParseFlag ==
    /\ phase = "parse" /\ arg_i <= Len(setup.args) /\ Argument \in {"--debug", "--trace"}
    /\ config' = IF Argument = "--trace" THEN [config EXCEPT !.trace = TRUE] ELSE config
    /\ arg_i' = arg_i + 1
    /\ UNCHANGED phase /\ Unparsed

\* stoul throws when its argument is no number, and nothing catches it.
ParseMemory ==
    /\ phase = "parse" /\ arg_i <= Len(setup.args) /\ Argument = "--memory" /\ HasValue
    /\ IF Given \in DOMAIN Stoul
       THEN /\ config' = [config EXCEPT !.memory_kb = Stoul[Given]]
            /\ arg_i' = AfterValue(arg_i)
            /\ UNCHANGED phase
       ELSE phase' = "aborted" /\ UNCHANGED <<arg_i, config>>
    /\ Unparsed

ParseSystem ==
    /\ phase = "parse" /\ arg_i <= Len(setup.args) /\ Argument = "--system" /\ HasValue
    /\ config' = [config EXCEPT !.system =
                     IF Given \in {"opensbi", "sbi"} THEN "opensbi" ELSE "default"]
    /\ arg_i' = AfterValue(arg_i)
    /\ UNCHANGED phase /\ Unparsed

ParseError ==
    /\ phase = "parse" /\ arg_i <= Len(setup.args)
    /\ Argument \notin {"--debug", "--trace"}
    /\ Argument \in {"--memory", "--system"} => ~HasValue
    /\ config' = [config EXCEPT !.valid = FALSE]
    /\ phase' = "create"
    /\ UNCHANGED arg_i /\ Unparsed

ParseEnd ==
    /\ phase = "parse" /\ arg_i > Len(setup.args)
    /\ phase' = "create"
    /\ UNCHANGED <<arg_i, config>> /\ Unparsed

-----------------------------------------------------------------------------
(* main.  What logs waits until the message before it is recorded.         *)

\* Seeded fault: a smaller memory is left as it is.
SystemKb_Any(c) == c.memory_kb
SystemKb(c) ==
    IF c.system = "opensbi" /\ c.memory_kb < MinimumKb THEN MinimumKb ELSE c.memory_kb

\* config.memory_kb * 1024 in 32 bits.
Bytes(kb) == (kb % WrapKb) * 1024

MakeMachine ==
    /\ phase = "create"
    /\ config' = [config EXCEPT !.memory_kb = SystemKb(config)]
    /\ IF config.valid
       THEN /\ mem_size' = Bytes(SystemKb(config))
            /\ EnableTrace(config.trace) /\ Say(Lines["hardware"])
            /\ phase' = "payload"
       ELSE /\ phase' = "exit"
            /\ UNCHANGED <<mem_size, tr, message>>
    /\ UNCHANGED <<setup, arg_i, writes, cpu, next, fdtVars, ring, dumped, uartVars>>

\* size bytes written over the bus from address at on: those past the end of
\* memory are dropped.
Put(what, at, size) ==
    writes' = Append(writes, [what |-> what, at |-> at, len |-> Max({0, Min({size, mem_size - at})})])

\* InjectionLoader::load.
Load(what, at, size) ==
    IF size = Absent THEN UNCHANGED <<writes, message>>
    ELSE Put(what, at, size) /\ Say(Lines["loader"])

LoadPayload ==
    /\ phase = "payload" /\ message = <<>>
    /\ Load("payload", IF config.system = "opensbi" THEN PayloadAt ELSE 0, setup.payload)
    /\ phase' = "boot"
    /\ UNCHANGED <<setup, arg_i, config, mem_size, cpu, next, fdtVars, tr, ring, dumped, uartVars>>

\* DefaultSystem::boot: the stack begins at the size of memory, not its end.
BootDefault ==
    /\ phase = "boot" /\ message = <<>> /\ config.system = "default"
    /\ cpu' = [cpu EXCEPT !.pc = "ram", !.sp = mem_size]
    /\ phase' = "run"
    /\ UNCHANGED <<setup, arg_i, config, mem_size, writes, next, fdtVars, debugVars, uartVars>>

\* OpenSBISystem::boot: the registers, the calls of DTBBuilder::build one by
\* one, what is made of its result, the firmware and the copy of the tree.
BootOpenSbi ==
    /\ phase = "boot" /\ message = <<>> /\ config.system = "opensbi"
    /\ cpu' = [pc |-> "ram", sp |-> DtbAt, a1 |-> DtbAt]
    /\ phase' = "build"
    /\ UNCHANGED <<setup, arg_i, config, mem_size, writes, next, fdtVars, debugVars, uartVars>>

Build ==
    /\ phase = "build" /\ NextCall
    /\ UNCHANGED <<hostVars, debugVars, uartVars>>

Built ==
    /\ phase = "build" /\ calls = Len(Program)
    /\ IF totalsize <= 0
       THEN phase' = "run" /\ Say(Lines["boot"])
       ELSE phase' = "firmware" /\ UNCHANGED message
    /\ UNCHANGED <<setup, arg_i, config, mem_size, writes, cpu, next, fdtVars, tr, ring, dumped,
                   uartVars>>

LoadFirmware ==
    /\ phase = "firmware"
    /\ Load("firmware", 0, setup.firmware)
    /\ phase' = "copy"
    /\ UNCHANGED <<setup, arg_i, config, mem_size, cpu, next, fdtVars, tr, ring, dumped, uartVars>>

CopyTree ==
    /\ phase = "copy" /\ message = <<>>
    /\ Put("tree", DtbAt, totalsize) /\ Say(Lines["boot"])
    /\ phase' = "run"
    /\ UNCHANGED <<setup, arg_i, config, mem_size, cpu, next, fdtVars, tr, ring, dumped, uartVars>>

-----------------------------------------------------------------------------
(* cpu.run().                                                              *)

Code == IF config.system = "opensbi" THEN "firmware" ELSE "payload"
Loaded == \E k \in 1 .. Len(writes) : writes[k].what = Code /\ writes[k].len > 0

Runs(op) ==
    /\ phase = "run" /\ message = <<>> /\ Loaded
    /\ next <= Len(setup.guest) /\ setup.guest[next].op = op

GuestStores ==
    /\ Runs("store")
    /\ UartWriteByte(setup.guest[next].offset, setup.guest[next].value)
    /\ Say(Lines["store"])
    /\ next' = next + 1
    /\ UNCHANGED <<setup, phase, arg_i, config, mem_size, writes, cpu, fdtVars, tr, ring, dumped>>

\* The transmitter is empty: bits 5 and 6 of LSR.
GuestPolls ==
    /\ Runs("poll")
    /\ Say(Lines["load"])
    /\ next' = IF (UartReadByte(LineStatus) \div 32) % 2 = 1 THEN next + 1 ELSE next
    /\ UNCHANGED <<setup, phase, arg_i, config, mem_size, writes, cpu, fdtVars, tr, ring, dumped,
                   uartVars>>

GuestBreaks ==
    /\ Runs("ebreak")
    /\ Dump /\ Say(Lines["mret"])
    /\ next' = next + 1
    /\ UNCHANGED <<setup, phase, arg_i, config, mem_size, writes, cpu, fdtVars, tr, ring, uartVars>>

GuestExits ==
    /\ Runs("exit")
    /\ phase' = "exit"
    /\ UNCHANGED <<setup, arg_i, config, mem_size, writes, cpu, next, fdtVars, debugVars, uartVars>>

Record == RecordChar /\ UNCHANGED <<hostVars, fdtVars, uartVars>>

Next ==
    \/ ParseStart \/ ParseFlag \/ ParseMemory \/ ParseSystem \/ ParseError \/ ParseEnd
    \/ MakeMachine \/ LoadPayload
    \/ BootDefault \/ BootOpenSbi \/ Build \/ Built \/ LoadFirmware \/ CopyTree
    \/ GuestStores \/ GuestPolls \/ GuestBreaks \/ GuestExits
    \/ Record

\* One thread of a program that waits for nothing.
Spec == Init /\ [][Next]_vars /\ WF_vars(Next)

-----------------------------------------------------------------------------
(* Properties.                                                             *)

TypeOK ==
    /\ WriterTypeOK
    /\ setup \in Setups
    /\ phase \in {"arguments", "parse", "create", "payload", "boot", "build", "firmware", "copy",
                  "run", "exit", "aborted"}
    /\ arg_i \in 2 .. Max({2, Len(setup.args) + 1})
    /\ config \in [memory_kb : Nat, system : {"default", "opensbi"}, trace : BOOLEAN,
                   valid : BOOLEAN]
    /\ mem_size \in Nat
    /\ writes \in Seq([what : {"payload", "firmware", "tree"}, at : Nat, len : Nat])
    /\ cpu \in [pc : {"zero", "ram"}, sp : Nat, a1 : Nat]
    /\ next \in 1 .. Len(setup.guest) + 1
    /\ tr \in BOOLEAN /\ wrapped \in BOOLEAN
    /\ message \in Seq(Chars) /\ dumped \in Seq(Chars)
    /\ history \in [0 .. HistorySize - 1 -> Chars \cup {Nul}]
    /\ head \in 0 .. HistorySize - 1
    /\ uart_registers \in [0 .. 7 -> 0 .. 255]
    /\ console \in Seq(0 .. 255)

\* What a byte of memory holds: the last thing written over it.
Covers(w, a) == w.at <= a /\ a < w.at + w.len
Holds(what, a) ==
    \E k \in 1 .. Len(writes) :
        /\ writes[k].what = what /\ Covers(writes[k], a)
        /\ \A later \in k + 1 .. Len(writes) : ~Covers(writes[later], a)

\* The bytes at which what a range holds can change.
Edges == {writes[k].at : k \in 1 .. Len(writes)} \cup
         {writes[k].at + writes[k].len : k \in 1 .. Len(writes)}
InMemory(what, at, size) ==
    \A a \in {at, at + size - 1} \cup {e \in Edges : at <= e /\ e < at + size} : Holds(what, a)

\* Under OpenSBI, when the firmware begins, a1 points to a finished tree with
\* every node and property of DTBBuilder::build, whole in memory, whatever
\* --memory asked for and whatever the files overlap; firmware and payload are
\* whole too if each ends before the next begins.  Sizes that wrap in 32 bits
\* (WrapKb) and other buffers than the 4096 bytes of the code are left out.
TokenCalls == {k \in 1 .. Len(Program) : IsToken(Program[k])}
BootImages ==
    /\ phase = "run" /\ config.system = "opensbi"
    /\ config.memory_kb < WrapKb /\ buf_size = FdtBuffer
    => /\ magic = "complete" /\ cpu.a1 = DtbAt
       /\ Len(Tokens) = Cardinality(TokenCalls)
       /\ \A k \in TokenCalls :
             Program[k].name \in Tokens[Cardinality({j \in TokenCalls : j <= k})].names
       /\ InMemory("tree", DtbAt, totalsize)
       /\ setup.firmware \in 1 .. PayloadAt => InMemory("firmware", 0, setup.firmware)
       /\ /\ setup.payload \in 1 .. DtbAt - PayloadAt
          /\ setup.firmware <= PayloadAt
          => InMemory("payload", PayloadAt, setup.payload)

\* The console shows, in order, the bytes the guest sent while it did not have
\* the divisor latch open, and none of the divisor (UART::writeByte).
Stores(k, offset) == setup.guest[k].op = "store" /\ setup.guest[k].offset = offset
Open(k) ==
    \E j \in 1 .. k - 1 :
        /\ Stores(j, LineControl) /\ setup.guest[j].value >= DivisorLatch
        /\ \A later \in j + 1 .. k - 1 : ~Stores(later, LineControl)
Sent == {k \in 1 .. next - 1 : Stores(k, 0) /\ ~Open(k)}
ConsoleText ==
    /\ Len(console) = Cardinality(Sent)
    /\ \A k \in Sent : console[Cardinality({j \in Sent : j <= k})] = setup.guest[k].value

\* Every command line leads to a running guest, to an exit or to the exception
\* of stoul: parsing goes forward, and so does the making of the tree, whatever
\* of its calls fail.
Boots == <>(phase \in {"run", "exit", "aborted"})

\* A driver that polls LSR before each byte is never kept waiting, whatever it
\* wrote to the other registers and to LSR itself: the guest comes to its end.
DriverSends == []((phase = "run" /\ Loaded) => <>(phase = "exit"))
=============================================================================
