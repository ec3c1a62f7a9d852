----------------------------- MODULE FlatMemory ------------------------------
(***************************************************************************)
(* What the loads, stores and atomics promise a program: the memory is one *)
(* array of bytes, an access inside it that is not refused reads or writes *)
(* exactly the bytes it names, an AMO does both in one step, and a store-  *)
(* conditional stores only at the address the last load-reserved named.    *)
(***************************************************************************)
EXTENDS Integers

CONSTANTS
    Cells,   \* the addresses of the memory
    Addrs,   \* the addresses a program computes
    Byte,
    Widths,  \* the sizes of an access
    StoreWords(_), \* the words of n bytes it stores
    NoAddr   \* no reservation

Word(n) == [0 .. n - 1 -> Byte]
\* What an instruction returns: a word, or a note.
Returned(v) == [note |-> "word", word |-> v]
Note(s) == [note |-> s, word |-> <<>>]

VARIABLES
    cell,      \* the bytes of the memory
    reserved,  \* the address reserved, or NoAddr
    answer     \* what the last instruction returned
vars == <<cell, reserved, answer>>

Inside(a, n) == \A i \in 0 .. n - 1 : a + i \in Cells
Bytes(a, n) == [i \in 0 .. n - 1 |-> cell[a + i]]
Put(a, n, v) ==
    [c \in Cells |-> IF c \in a .. a + n - 1 THEN v[c - a] ELSE cell[c]]

Init ==
    /\ cell \in [Cells -> Byte]
    /\ reserved = NoAddr
    /\ answer = Note("none")

\* Outside the memory there may be a device, or nothing.
Read(a, n) ==
    \/ Inside(a, n) /\ answer' = Returned(Bytes(a, n))
    \/ ~Inside(a, n) /\ answer'.note = "word" /\ answer'.word \in Word(n)
    \/ answer' = Note("trap")

Write(a, n, v) == cell' = IF Inside(a, n) THEN Put(a, n, v) ELSE cell

Load(a, n) == Read(a, n) /\ UNCHANGED <<cell, reserved>>

Store(a, n, v) ==
    /\ \/ Write(a, n, v) /\ answer' = Note("none")
       \/ UNCHANGED cell /\ answer' = Note("trap")
    /\ UNCHANGED reserved

\* A refused AMO may have been refused one half only.
Amo(a, n, v) ==
    /\ Read(a, n)
    /\ Write(a, n, v) \/ (answer' = Note("trap") /\ UNCHANGED cell)
    /\ UNCHANGED reserved

LoadReserved(a, n) == Read(a, n) /\ reserved' = a /\ UNCHANGED cell

StoreConditional(a, n, v) ==
    /\ \/ reserved = a /\ Write(a, n, v) /\ answer' = Note("stored")
       \/ reserved = a /\ UNCHANGED cell /\ answer' = Note("trap")
       \/ reserved # a /\ UNCHANGED cell /\ answer' = Note("failed")
    /\ reserved' = NoAddr

\* Instructions that have nothing to do with memory.
Elsewhere == answer' = Note("none") /\ UNCHANGED <<cell, reserved>>

Next ==
    \/ Elsewhere
    \/ \E a \in Addrs, n \in Widths :
          \/ Load(a, n)
          \/ LoadReserved(a, n)
          \/ \E v \in StoreWords(n) :
                Store(a, n, v) \/ Amo(a, n, v) \/ StoreConditional(a, n, v)

Spec == Init /\ [][Next]_vars
=============================================================================
