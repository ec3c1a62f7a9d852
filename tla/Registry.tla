------------------------------ MODULE Registry -------------------------------
(***************************************************************************)
(* InstructionRegistry, a hash table of masked keys with linear probing,   *)
(* and the key Interpreter::handle looks up in it.  A word is its opcode,  *)
(* funct3 and funct7; a mask is the set of the fields it compares.         *)
(***************************************************************************)
EXTENDS Integers, Sequences

CONSTANTS
    TableSize,  \* TABLE_SIZE
    Opcodes, Funct3, Funct7,
    FormatR,    \* the opcodes get_format gives the format R
    System,     \* 0x73
    ShiftOps,   \* 0x13 and 0x1B, whose funct3 1 and 5 are shifts
    Handlers,
    None,       \* nullptr
    Patterns    \* what the register_ functions are called with

Fields == {"op", "f3", "f7"}
\* get_mask: R; I, S and B; U, J and OPCODE_ONLY.
Masks == {Fields, {"op", "f3"}, {"op"}}

Words == [op : Opcodes, f3 : Funct3, f7 : Funct7]
Entries == [key : Words, mask : Masks, func : Handlers]

ShiftWord(w) == w.op \in ShiftOps /\ w.f3 \in {1, 5}

\* A pattern is 0 where its format has no field; the formats whose funct7 the
\* interpreter keeps are the only ones that register with it, and shifts
\* register with an even one.
ASSUME RegistryAssumption ==
    /\ \E b \in 0 .. 31 : TableSize = 2 ^ b
    /\ TableSize \in Nat \ {0}
    /\ Opcodes \subseteq Nat /\ Funct7 \subseteq Nat
    /\ 0 \in Funct7 /\ \A f \in Funct7 : f - (f % 2) \in Funct7
    /\ None \notin Handlers
    /\ FormatR \cap ShiftOps = {}
    /\ Patterns \subseteq Entries
    /\ \A p \in Patterns : \A f \in Fields \ p.mask : p.key[f] = 0
    /\ \A p \in Patterns : p.mask = Fields =>
          \/ p.key.op \in FormatR \cup {System}
          \/ ShiftWord(p.key) /\ p.key.f7 % 2 = 0

VARIABLES
    table,
    running, \* main: init has returned
    found,   \* the last instruction and what handle got for it
    log      \* the registrations that were made, for the properties
vars == <<table, running, found, log>>

Slots == 0 .. TableSize - 1
Empty == [key |-> [f \in Fields |-> None], mask |-> {}, func |-> None]

Init ==
    /\ table = [s \in Slots |-> Empty]
    /\ running = FALSE
    /\ found = None
    /\ log = <<>>

\* The d-th slot probed for an opcode: index & (TABLE_SIZE - 1) keeps the
\* remainder, as TABLE_SIZE is a power of two.
Slot(op, d) == (op + d) % TableSize

Vacant(op, d) == table[Slot(op, d)].func = None

\* Seeded fault: the probe of a full table ends in a break, not a return.
Register_OverwritesWhenFull(p) ==
    /\ ~running
    /\ \E d \in Slots :
          /\ \/ Vacant(p.key.op, d) /\ \A e \in 0 .. d - 1 : ~Vacant(p.key.op, e)
             \/ d = 0 /\ \A e \in Slots : ~Vacant(p.key.op, e)
          /\ table' = [table EXCEPT ![Slot(p.key.op, d)] = p]
          /\ log' = Append(log, p)
    /\ UNCHANGED <<running, found>>

\* register_inst: the first free slot, or none.
Register(p) ==
    /\ ~running
    /\ \/ \E d \in Slots :
             /\ Vacant(p.key.op, d) /\ \A e \in 0 .. d - 1 : ~Vacant(p.key.op, e)
             /\ table' = [table EXCEPT ![Slot(p.key.op, d)] = p]
             /\ log' = Append(log, p)
       \/ (\A d \in Slots : ~Vacant(p.key.op, d)) /\ UNCHANGED <<table, log>>
    /\ UNCHANGED <<running, found>>

Start == ~running /\ running' = TRUE /\ UNCHANGED <<table, found, log>>

\* Seeded fault: bit 5 of a shift amount stays in funct7.
LookupKey_KeepsShamt(w) ==
    [w EXCEPT !.f7 = IF w.op \in FormatR \cup ShiftOps \cup {System} THEN @ ELSE 0]

\* The funct7 that handle looks up: bit 5 of a shift amount is cleared, and
\* it is 0 where it is part of an immediate.
LookupKey(w) ==
    [w EXCEPT !.f7 =
        IF w.op \in FormatR THEN @
        ELSE IF ShiftWord(w) THEN @ - (@ % 2)
        ELSE IF w.op = System THEN @ ELSE 0]

\* (raw & mask) == key
Matches(e, x) == \A f \in Fields : IF f \in e.mask THEN x[f] = e.key[f] ELSE e.key[f] = 0

Stops(x, d) == Vacant(x.op, d) \/ Matches(table[Slot(x.op, d)], x)

\* lookup: to the first match, a free slot or the slot it began at.
Lookup(x, r) ==
    \/ \E d \in Slots :
          /\ Stops(x, d) /\ \A e \in 0 .. d - 1 : ~Stops(x, e)
          /\ r = table[Slot(x.op, d)].func
    \/ (\A d \in Slots : ~Stops(x, d)) /\ r = None

Handle(w) ==
    /\ running
    /\ \E r \in Handlers \cup {None} : Lookup(LookupKey(w), r) /\ found' = [word |-> w, func |-> r]
    /\ UNCHANGED <<table, running, log>>

\* DefaultRegistry registers each of its handlers once.
Next ==
    \/ \E p \in Patterns : (\A k \in DOMAIN log : log[k] # p) /\ Register(p)
    \/ Start
    \/ \E w \in Words : Handle(w)

Spec == Init /\ [][Next]_vars

-----------------------------------------------------------------------------
(* Properties.                                                             *)

\* Every slot holds an entry or is free, and no more is registered than fits.
TypeOK ==
    /\ table \in [Slots -> Patterns \cup {Empty}]
    /\ running \in BOOLEAN
    /\ found \in [word : Words, func : Handlers \cup {None}] \cup {None}
    /\ log \in Seq(Patterns) /\ Len(log) <= TableSize

\* A word has the format of a pattern: the opcode, and where the format has
\* them funct3 and funct7, of which a shift ignores the last bit.
Selects(p, w) ==
    \A f \in p.mask :
        IF f = "f7" /\ ShiftWord(w) THEN w.f7 - (w.f7 % 2) = p.key.f7 ELSE w[f] = p.key[f]

\* Probing through the entries of other opcodes, around the end of the table
\* and with the normalised key, a word finds the handler registered first
\* among those of its format; a handler is dropped only when the table is full.
Order == INSTANCE Dispatch WITH
    Rules <- Patterns, Capacity <- TableSize, rules <- log

DispatchSpec == Order!Spec
=============================================================================
