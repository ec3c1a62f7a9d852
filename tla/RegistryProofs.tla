--------------------------- MODULE RegistryProofs ----------------------------
(***************************************************************************)
(* For every table, set of patterns and order of registration, the hash    *)
(* table implements the ordered list of rules.  Each registered pattern    *)
(* has a slot of its own, and every slot its probe passed over was taken   *)
(* by a pattern registered before it: so a lookup that follows the same    *)
(* probe meets the matching patterns in the order of their registration.   *)
(***************************************************************************)
EXTENDS Registry, FunctionTheorems, FiniteSetTheorems, TLAPS

\* The index of a probe is masked to the table.
LEMMA ProbeStaysInTable ==
    ASSUME NEW op \in Nat, NEW d \in Nat
    PROVE  Slot(op, d) \in Slots
<1>1. \A n \in Nat \ {0}, a \in Int : a % n \in 0 .. n - 1
  BY Z3
<1> QED
  BY <1>1, RegistryAssumption DEF Slot, Slots

\* TABLE_SIZE is a positive number.
LEMMA TableSizeType == TableSize \in Nat \ {0}
  BY RegistryAssumption

\* A probe that goes once around the table meets every slot.
LEMMA ProbeMeetsEverySlot ==
    ASSUME NEW op \in Nat, NEW s \in Slots
    PROVE  \E d \in Slots : Slot(op, d) = s
<1> DEFINE r == op % TableSize
           q == op \div TableSize
<1>1. TableSize \in Nat \ {0} /\ s \in 0 .. TableSize - 1
  BY RegistryAssumption DEF Slots
<1>2. r \in 0 .. TableSize - 1 /\ q \in Int /\ op = TableSize * q + r
  BY <1>1, Z3
<1>3. ASSUME NEW k \in Int PROVE (TableSize * k + s) % TableSize = s
  BY <1>1, Z3
<1>4. CASE s >= r
  <2>1. op + (s - r) = TableSize * q + s
    BY <1>1, <1>2
  <2>2. s - r \in Slots
    BY <1>1, <1>2, <1>4 DEF Slots
  <2> QED
    BY <1>2, <1>3, <2>1, <2>2 DEF Slot
<1>5. CASE s < r
  <2>1. TableSize * (q + 1) = TableSize * q + TableSize
    BY <1>1, <1>2, Z3
  <2>2. op + (s - r + TableSize) = TableSize * (q + 1) + s
    BY <1>1, <1>2, <2>1
  <2>3. s - r + TableSize \in Slots
    BY <1>1, <1>2, <1>5 DEF Slots
  <2> QED
    BY <1>2, <1>3, <2>2, <2>3 DEF Slot
<1> QED
  BY <1>1, <1>2, <1>4, <1>5

-----------------------------------------------------------------------------
(* What a pattern selects.                                                 *)

\* Normalising funct7 leaves the opcode, which decides where a probe begins.
LEMMA KeepsOpcode == ASSUME NEW w \in Words PROVE LookupKey(w).op = w.op
  BY DEF LookupKey, Words

\* The masked comparison with the normalised key is the test of the format.
LEMMA MatchesIsSelects ==
    ASSUME NEW p \in Patterns, NEW w \in Words
    PROVE  Matches(p, LookupKey(w)) <=> Selects(p, w)
<1> DEFINE x == LookupKey(w)
<1>1. p \in Entries /\ \A f \in Fields \ p.mask : p.key[f] = 0
  BY RegistryAssumption
<1>2. Matches(p, x) <=> \A f \in p.mask : x[f] = p.key[f]
  BY <1>1 DEF Matches, Entries, Masks, Fields
<1>3. x.op = w.op /\ x.f3 = w.f3
  BY DEF LookupKey, Words
<1>4. CASE p.mask = Fields
  <2>1. x.op = p.key.op /\ x.f3 = p.key.f3 =>
          x.f7 = IF ShiftWord(w) THEN w.f7 - (w.f7 % 2) ELSE w.f7
    BY <1>1, <1>3, <1>4, RegistryAssumption DEF LookupKey, Words, ShiftWord
  <2> QED
    BY <1>2, <1>3, <1>4, <2>1 DEF Selects, Fields
<1>5. CASE p.mask # Fields
  BY <1>1, <1>2, <1>3, <1>5 DEF Selects, Entries, Masks, Fields
<1> QED
  BY <1>4, <1>5

\* A pattern that selects a word has its opcode.
LEMMA SelectsOpcode ==
    ASSUME NEW p \in Patterns, NEW w \in Words, Selects(p, w)
    PROVE  p.key.op = w.op
  BY RegistryAssumption DEF Selects, Entries, Masks, Fields

\* Opcodes are numbers.
LEMMA PatternOpcode == ASSUME NEW p \in Patterns PROVE p.key.op \in Nat
  BY RegistryAssumption DEF Entries, Words

\* No handler is nullptr.
LEMMA HandlerIsNoNone == ASSUME NEW p \in Patterns PROVE p.func \in Handlers /\ p.func # None
  BY RegistryAssumption DEF Entries

-----------------------------------------------------------------------------
(* The place of each registered pattern.                                   *)

\* Each pattern of the log has its own slot, and the other slots are free.
Holds(place) ==
    /\ place \in Injection(1 .. Len(log), Slots)
    /\ \A k \in 1 .. Len(log) : table[place[k]] = log[k]
    /\ \A s \in Slots : table[s] = Empty \/ \E k \in 1 .. Len(log) : place[k] = s

\* The slots the k-th pattern's probe passed over hold earlier ones.
Probed(place, k) ==
    \E d \in Slots :
        /\ place[k] = Slot(log[k].key.op, d)
        /\ \A e \in 0 .. d - 1 : \E j \in 1 .. k - 1 : place[j] = Slot(log[k].key.op, e)

Placed == \E place : Holds(place) /\ \A k \in 1 .. Len(log) : Probed(place, k)

Types ==
    /\ table \in [Slots -> Patterns \cup {Empty}]
    /\ running \in BOOLEAN
    /\ found \in [word : Words, func : Handlers \cup {None}] \cup {None}
    /\ log \in Seq(Patterns)

IInv == Types /\ Placed

\* Slots that are not vacant are those of registered patterns.
LEMMA Occupied ==
    ASSUME Types, NEW place, Holds(place), NEW op \in Nat, NEW d \in Slots
    PROVE  ~Vacant(op, d) <=> \E k \in 1 .. Len(log) : place[k] = Slot(op, d)
<1>0. d \in Nat
  BY DEF Slots
<1>1. Slot(op, d) \in Slots
  BY <1>0, ProbeStaysInTable
<1>2. ASSUME NEW k \in 1 .. Len(log), place[k] = Slot(op, d) PROVE ~Vacant(op, d)
  BY <1>2, HandlerIsNoNone DEF Types, Holds, Vacant
<1>3. ASSUME table[Slot(op, d)] = Empty PROVE Vacant(op, d)
  BY <1>3 DEF Vacant, Empty
<1>4. table[Slot(op, d)] = Empty \/ \E k \in 1 .. Len(log) : place[k] = Slot(op, d)
  BY <1>1 DEF Holds
<1> QED
  BY <1>2, <1>3, <1>4

\* No more is registered than fits, and the table is full when all of its
\* slots are taken.
LEMMA Occupancy ==
    ASSUME Types, NEW place, Holds(place)
    PROVE  /\ Len(log) \in Nat /\ Len(log) <= TableSize
           /\ Len(log) = TableSize <=>
                  \A s \in Slots : \E k \in 1 .. Len(log) : place[k] = s
<1>1. TableSize \in Nat \ {0} /\ Len(log) \in Nat
  BY RegistryAssumption DEF Types
<1>2. IsFiniteSet(Slots) /\ Cardinality(Slots) = TableSize
  <2>1. TableSize - 1 \in Int /\ ~(0 > TableSize - 1)
    BY <1>1
  <2>2. /\ IsFiniteSet(0 .. TableSize - 1)
        /\ Cardinality(0 .. TableSize - 1) = (TableSize - 1) - 0 + 1
    BY <2>1, FS_Interval
  <2> QED
    BY <1>1, <2>2 DEF Slots
<1>3. Cardinality(1 .. Len(log)) = Len(log)
  <2>1. \A n \in Int : Cardinality(1 .. n) = IF 1 > n THEN 0 ELSE n - 1 + 1
    BY FS_Interval
  <2>2. Cardinality(1 .. Len(log)) = IF 1 > Len(log) THEN 0 ELSE Len(log) - 1 + 1
    BY <1>1, <2>1
  <2> QED
    BY <1>1, <2>2
<1>4. /\ Cardinality(1 .. Len(log)) <= Cardinality(Slots)
      /\ Cardinality(1 .. Len(log)) = Cardinality(Slots) <=> place \in Surjection(1 .. Len(log), Slots)
  BY <1>2, FS_Injection DEF Holds
<1>5. place \in Surjection(1 .. Len(log), Slots) <=>
          \A s \in Slots : \E k \in 1 .. Len(log) : place[k] = s
  BY DEF Surjection, Holds, Injection
<1> QED
  BY <1>1, <1>2, <1>3, <1>4, <1>5

-----------------------------------------------------------------------------
(* Registration.                                                           *)

\* register_inst gives a new pattern a slot of its own at the end of its probe,
\* and drops it only when every slot is taken.
LEMMA RegisterStep ==
    ASSUME IInv, NEW p \in Patterns, Register(p)
    PROVE  IInv' /\ Order!Register(p)
<1> DEFINE op == p.key.op
           n == Len(log)
<1>1. PICK place : Holds(place) /\ \A k \in 1 .. n : Probed(place, k)
  BY DEF IInv, Placed
<1>2. Types /\ op \in Nat /\ n \in Nat /\ log \in Seq(Patterns)
  BY PatternOpcode DEF IInv, Types
<1>3. CASE UNCHANGED <<table, log>> /\ \A d \in Slots : ~Vacant(op, d)
  <2>1. ASSUME NEW s \in Slots PROVE \E k \in 1 .. n : place[k] = s
    <3>1. PICK d \in Slots : Slot(op, d) = s
      BY <1>2, ProbeMeetsEverySlot
    <3>2. ~Vacant(op, d)
      BY <1>3
    <3> QED
      BY <1>1, <1>2, <3>1, <3>2, Occupied
  <2>2. n = TableSize
    BY <1>1, <1>2, <2>1, Occupancy
  <2>3. UNCHANGED <<running, found>> /\ ~running
    BY DEF Register
  <2>4. IInv'
    <3>1. Types'
      BY <1>2, <1>3, <2>3 DEF Types
    <3>2. Placed'
      BY <1>3 DEF IInv, Placed, Holds, Probed
    <3> QED
      BY <3>1, <3>2 DEF IInv
  <2> QED
    BY <1>3, <2>2, <2>3, <2>4 DEF Order!Register
<1>4. ASSUME NEW d \in Slots,
             Vacant(op, d), \A e \in 0 .. d - 1 : ~Vacant(op, e),
             table' = [table EXCEPT ![Slot(op, d)] = p],
             log' = Append(log, p)
      PROVE  IInv' /\ Order!Register(p)
  <2> DEFINE slot == Slot(op, d)
  <2>p. PICK new : new = [k \in 1 .. n + 1 |-> IF k = n + 1 THEN slot ELSE place[k]]
    OBVIOUS
  <2>0. d \in Nat /\ \A e \in 0 .. d - 1 : e \in Slots
    BY TableSizeType DEF Slots
  <2>1. slot \in Slots /\ \A k \in 1 .. n : place[k] # slot
    BY <1>1, <1>2, <1>4, <2>0, Occupied, ProbeStaysInTable
  <2>2. /\ Len(log') = n + 1 /\ log' \in Seq(Patterns)
        /\ log'[n + 1] = p
        /\ \A k \in 1 .. n : log'[k] = log[k]
    BY <1>2, <1>4
  <2>3. UNCHANGED <<running, found>> /\ ~running
    BY DEF Register
  <2>4. Types'
    BY <1>2, <1>4, <2>1, <2>2, <2>3 DEF Types
  <2>5. place \in [1 .. n -> Slots]
    BY <1>1 DEF Holds, Injection
  <2>6. new[n + 1] = slot /\ \A k \in 1 .. n : k \in 1 .. n + 1 /\ new[k] = place[k]
    BY <1>2, <2>p
  <2> HIDE DEF slot
  <2>7. Holds(new)'
    <3>1. new \in Injection(1 .. n + 1, Slots)
      <4>1. new \in [1 .. n + 1 -> Slots]
        BY <1>2, <2>1, <2>5, <2>p
      <4>2. ASSUME NEW i \in 1 .. n + 1, NEW j \in 1 .. n + 1, new[i] = new[j] PROVE i = j
        <5>1. i \in 1 .. n /\ j \in 1 .. n => i = j
          BY <1>1, <2>6, <4>2 DEF Holds, Injection, IsInjective
        <5> QED
          BY <1>2, <2>1, <2>6, <4>2, <5>1
      <4> QED
        BY <4>1, <4>2 DEF Injection, IsInjective
    <3>2. \A k \in 1 .. n + 1 : table'[new[k]] = log'[k]
      <4>1. \A k \in 1 .. n : table'[new[k]] = log'[k]
        BY <1>1, <1>2, <1>4, <2>1, <2>2, <2>5, <2>6 DEF Holds, Types, slot
      <4>2. table'[new[n + 1]] = log'[n + 1]
        BY <1>2, <1>4, <2>1, <2>2, <2>6 DEF Types, slot
      <4> QED
        BY <1>2, <4>1, <4>2
    <3>3. ASSUME NEW s \in Slots
          PROVE  table'[s] = Empty \/ \E k \in 1 .. n + 1 : new[k] = s
      <4>1. CASE s = slot
        BY <1>2, <2>6, <4>1
      <4>2. CASE s # slot
        <5>1. table'[s] = table[s]
          BY <1>2, <1>4, <4>2 DEF Types, slot
        <5> QED
          BY <1>1, <2>6, <5>1 DEF Holds
      <4> QED
        BY <4>1, <4>2
    <3> QED
      BY <2>2, <3>1, <3>2, <3>3 DEF Holds, Slots
  <2>8. ASSUME NEW k \in 1 .. n + 1 PROVE Probed(new, k)'
    <3>1. CASE k = n + 1
      <4>1. ASSUME NEW e \in 0 .. d - 1 PROVE \E j \in 1 .. n : new[j] = Slot(op, e)
        <5>1. e \in Slots /\ ~Vacant(op, e)
          BY <1>4, <2>0
        <5>2. PICK j \in 1 .. n : place[j] = Slot(op, e)
          BY <1>1, <1>2, <5>1, Occupied
        <5> QED
          BY <2>6, <5>2
      <4>2. new[k] = Slot(op, d) /\ log'[k].key.op = op
        BY <2>2, <2>6, <3>1 DEF slot
      <4>3. 1 .. k - 1 = 1 .. n
        BY <1>2, <3>1
      <4> QED
        BY <4>1, <4>2, <4>3 DEF Probed, Slot, Slots
    <3>2. CASE k # n + 1
      <4>1. k \in 1 .. n /\ log'[k] = log[k] /\ new[k] = place[k]
        BY <1>2, <2>2, <2>6, <3>2
      <4>2. \A j \in 1 .. k - 1 : new[j] = place[j]
        BY <1>2, <2>6, <4>1
      <4>3. Probed(place, k)
        BY <1>1, <4>1
      <4> QED
        BY <4>1, <4>2, <4>3 DEF Probed, Slot, Slots
    <3> QED
      BY <3>1, <3>2
  <2>9. Placed'
    BY <2>2, <2>7, <2>8 DEF Placed
  <2>10. n < TableSize
    BY <1>1, <1>2, <2>1, Occupancy, RegistryAssumption
  <2> QED
    BY <1>4, <2>3, <2>4, <2>9, <2>10 DEF IInv, Order!Register
<1> QED
  BY <1>3, <1>4 DEF Register

-----------------------------------------------------------------------------
(* Lookup.                                                                 *)

\* A pattern that selects the word lies where the probe for the word stops.
LEMMA SelectedIsOnProbe ==
    ASSUME Types, NEW place, Holds(place), NEW w \in Words,
           NEW k \in 1 .. Len(log), Probed(place, k), Selects(log[k], w)
    PROVE  \E d \in Slots :
               /\ place[k] = Slot(w.op, d) /\ Stops(LookupKey(w), d)
               /\ \A e \in 0 .. d - 1 : \E j \in 1 .. k - 1 : place[j] = Slot(w.op, e)
<1>1. log[k] \in Patterns
  BY DEF Types
<1>2. log[k].key.op = w.op /\ LookupKey(w).op = w.op
  BY <1>1, SelectsOpcode, KeepsOpcode
<1>3. Matches(log[k], LookupKey(w))
  BY <1>1, MatchesIsSelects
<1>4. table[place[k]] = log[k]
  BY DEF Holds
<1> QED
  BY <1>2, <1>3, <1>4 DEF Probed, Stops

\* When the probe stops at a pattern, that pattern is the first of the log
\* that selects the word: the probe of an earlier one would have stopped
\* before, and an earlier one further on would have been registered after it.
LEMMA StopsAtFirst ==
    ASSUME Types, NEW place, Holds(place), \A k \in 1 .. Len(log) : Probed(place, k),
           NEW w \in Words, NEW d \in Slots, Stops(LookupKey(w), d),
           \A e \in 0 .. d - 1 : ~Stops(LookupKey(w), e),
           NEW k \in 1 .. Len(log), Selects(log[k], w)
    PROVE  \E i \in 1 .. k : place[i] = Slot(w.op, d)
<1>1. PICK g \in Slots :
          /\ place[k] = Slot(w.op, g) /\ Stops(LookupKey(w), g)
          /\ \A e \in 0 .. g - 1 : \E j \in 1 .. k - 1 : place[j] = Slot(w.op, e)
  BY SelectedIsOnProbe
<1>2. d \in Nat /\ g \in Nat /\ k \in Nat
  BY TableSizeType DEF Slots, Types
<1>3. ~(g < d)
  BY <1>1, <1>2
<1>4. CASE g = d
  BY <1>1, <1>2, <1>4
<1>5. CASE d < g
  <2>1. PICK j \in 1 .. k - 1 : place[j] = Slot(w.op, d)
    BY <1>1, <1>2, <1>5
  <2> QED
    BY <1>2, <2>1
<1> QED
  BY <1>2, <1>3, <1>4, <1>5

\* What lookup returns is the handler of the first pattern that selects the
\* word, or nullptr when none does.
LEMMA LookupStep ==
    ASSUME IInv, NEW w \in Words, NEW r, Lookup(LookupKey(w), r)
    PROVE  \/ \E k \in 1 .. Len(log) : Order!First(w, k) /\ r = log[k].func
           \/ (\A k \in 1 .. Len(log) : ~Selects(log[k], w)) /\ r = None
<1> DEFINE x == LookupKey(w)
<1>1. PICK place : Holds(place) /\ \A k \in 1 .. Len(log) : Probed(place, k)
  BY DEF IInv, Placed
<1>2. Types /\ w.op \in Nat /\ x.op = w.op
  BY KeepsOpcode, RegistryAssumption DEF IInv, Words
<1>3. CASE r = None /\ \A d \in Slots : ~Stops(x, d)
  BY <1>1, <1>2, <1>3, SelectedIsOnProbe
<1>4. ASSUME NEW d \in Slots, Stops(x, d), \A e \in 0 .. d - 1 : ~Stops(x, e),
             r = table[Slot(w.op, d)].func
      PROVE  \/ \E k \in 1 .. Len(log) : Order!First(w, k) /\ r = log[k].func
             \/ (\A k \in 1 .. Len(log) : ~Selects(log[k], w)) /\ r = None
  <2>1. ASSUME NEW k \in 1 .. Len(log), Selects(log[k], w)
        PROVE  \E i \in 1 .. k : place[i] = Slot(w.op, d)
    BY <1>1, <1>2, <1>4, <2>1, StopsAtFirst
  <2>2. CASE Vacant(w.op, d)
    <3>1. \A k \in 1 .. Len(log) : place[k] # Slot(w.op, d)
      BY <1>1, <1>2, <2>2, Occupied
    <3>2. \A k \in 1 .. Len(log) : ~Selects(log[k], w)
      BY <1>2, <2>1, <3>1 DEF Types
    <3> QED
      BY <1>4, <2>2, <3>2 DEF Vacant
  <2>3. CASE ~Vacant(w.op, d)
    <3>1. PICK k \in 1 .. Len(log) : place[k] = Slot(w.op, d)
      BY <1>1, <1>2, <2>3, Occupied
    <3>2. table[Slot(w.op, d)] = log[k] /\ log[k] \in Patterns
      BY <1>1, <1>2, <3>1 DEF Holds, Types
    <3>3. Selects(log[k], w)
      <4>1. Matches(table[Slot(w.op, d)], x)
        BY <1>2, <1>4, <2>3 DEF Stops
      <4> QED
        BY <3>2, <4>1, MatchesIsSelects
    <3>4. ASSUME NEW j \in 1 .. k - 1, Selects(log[j], w) PROVE FALSE
      <4>1. k \in Nat /\ j \in 1 .. Len(log) /\ j < k
        BY <1>2 DEF Types
      <4>2. PICK i \in 1 .. j : place[i] = Slot(w.op, d)
        BY <2>1, <3>4, <4>1
      <4>3. i \in 1 .. Len(log) /\ i < k
        BY <4>1
      <4> QED
        BY <1>1, <3>1, <4>1, <4>2, <4>3 DEF Holds, Injection, IsInjective
    <3> QED
      BY <1>4, <3>2, <3>3, <3>4 DEF Order!First
  <2> QED
    BY <2>2, <2>3
<1> QED
  BY <1>2, <1>3, <1>4 DEF Lookup

-----------------------------------------------------------------------------
(* The theorems.                                                           *)

\* An empty table places an empty log.
LEMMA InitHolds == ASSUME Init PROVE IInv /\ Order!Init
<1>1. Types
  <2>1. table \in [Slots -> Patterns \cup {Empty}]
    BY DEF Init
  <2>2. log \in Seq(Patterns)
    BY DEF Init
  <2>3. running \in BOOLEAN /\ found = None
    BY DEF Init
  <2> QED
    BY <2>1, <2>2, <2>3 DEF Types
<1>2. PICK place : place = [k \in 1 .. 0 |-> 0]
  OBVIOUS
<1>3. Len(log) = 0 /\ 1 .. Len(log) = {}
  BY DEF Init
<1>4. place \in [1 .. Len(log) -> Slots]
  BY <1>2, <1>3
<1>5. Holds(place) /\ \A k \in 1 .. Len(log) : Probed(place, k)
  BY <1>3, <1>4 DEF Holds, Injection, IsInjective, Init
<1> QED
  BY <1>1, <1>5 DEF IInv, Placed, Init, Order!Init

\* What leaves the table and the log alone leaves every pattern in its place.
LEMMA PlacesKept ==
    ASSUME IInv, UNCHANGED <<table, log>>,
           running' \in BOOLEAN,
           found' \in [word : Words, func : Handlers \cup {None}] \cup {None}
    PROVE  IInv'
<1>1. Types'
  BY DEF IInv, Types
<1>2. Placed'
  BY DEF IInv, Placed, Holds, Probed
<1> QED
  BY <1>1, <1>2 DEF IInv

\* Every instruction handled maps to one dispatched by the ordered list.
LEMMA HandleStep ==
    ASSUME IInv, NEW w \in Words, Handle(w)
    PROVE  IInv' /\ Order!Handle(w)
<1>1. PICK r \in Handlers \cup {None} :
          Lookup(LookupKey(w), r) /\ found' = [word |-> w, func |-> r]
  BY DEF Handle
<1>2. running /\ UNCHANGED <<table, running, log>>
  BY DEF Handle
<1>3. IInv'
  BY <1>1, <1>2, PlacesKept DEF IInv, Types
<1>4. \/ \E k \in 1 .. Len(log) : Order!First(w, k) /\ r = log[k].func
      \/ (\A k \in 1 .. Len(log) : ~Selects(log[k], w)) /\ r = None
  BY <1>1, LookupStep
<1> QED
  BY <1>1, <1>2, <1>3, <1>4 DEF Order!Handle

\* Each step keeps the places and maps to a step of the ordered list.
LEMMA NextHolds == ASSUME IInv, [Next]_vars PROVE IInv' /\ [Order!Next]_Order!vars
<1>1. ASSUME NEW p \in Patterns, Register(p) PROVE IInv' /\ [Order!Next]_Order!vars
  BY <1>1, RegisterStep DEF Order!Next
<1>2. ASSUME Start PROVE IInv' /\ [Order!Next]_Order!vars
  BY <1>2, PlacesKept DEF Start, IInv, Types, Order!Next, Order!Start
<1>3. ASSUME NEW w \in Words, Handle(w) PROVE IInv' /\ [Order!Next]_Order!vars
  BY <1>3, HandleStep DEF Order!Next
<1>4. ASSUME UNCHANGED vars PROVE IInv' /\ [Order!Next]_Order!vars
  BY <1>4, PlacesKept DEF vars, IInv, Types, Order!vars
<1> QED
  BY <1>1, <1>2, <1>3, <1>4 DEF Next

\* The places bound the number of registrations.
LEMMA TypesFit == ASSUME IInv PROVE TypeOK
<1>1. PICK place : Holds(place)
  BY DEF IInv, Placed
<1> QED
  BY <1>1, Occupancy DEF IInv, Types, TypeOK

\* The slots hold patterns or are free, and no more is registered than fits:
\* a registration that went around the table has changed nothing.
THEOREM RegistryFits == Spec => []TypeOK
<1>1. Spec => []IInv
  BY InitHolds, NextHolds, PTL DEF Spec
<1> QED
  BY <1>1, TypesFit, PTL

\* For every table and every order of registration, handle gives an
\* instruction to the handler registered first among those of its format.
THEOREM ImplementsDispatch == Spec => DispatchSpec
<1>1. Init => IInv /\ Order!Init
  BY InitHolds
<1>2. IInv /\ [Next]_vars => IInv' /\ [Order!Next]_Order!vars
  BY NextHolds
<1> QED
  BY <1>1, <1>2, PTL DEF Spec, DispatchSpec, Order!Spec
=============================================================================
