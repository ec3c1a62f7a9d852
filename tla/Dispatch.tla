------------------------------ MODULE Dispatch -------------------------------
(***************************************************************************)
(* What the instruction registry promises the interpreter: an instruction  *)
(* goes to the handler that was registered first among those whose format  *)
(* it has, and only a full registry refuses a handler.                     *)
(***************************************************************************)
EXTENDS Integers, Sequences

CONSTANTS
    Rules,         \* what can be registered: a handler func for a format
    Words,         \* the instructions
    Selects(_, _), \* whether a rule has the format of a word
    None,          \* no handler
    Capacity

VARIABLES
    rules,   \* the registered rules, in order
    running, \* the hart runs: all handlers are registered
    found    \* the last instruction and its handler
vars == <<rules, running, found>>

Init == rules = <<>> /\ running = FALSE /\ found = None

Register(p) ==
    /\ ~running
    /\ \/ Len(rules) < Capacity /\ rules' = Append(rules, p)
       \/ Len(rules) = Capacity /\ UNCHANGED rules
    /\ UNCHANGED <<running, found>>

Start == ~running /\ running' = TRUE /\ UNCHANGED <<rules, found>>

First(w, k) ==
    /\ k \in 1 .. Len(rules) /\ Selects(rules[k], w)
    /\ \A j \in 1 .. k - 1 : ~Selects(rules[j], w)

Handle(w) ==
    /\ running
    /\ \/ \E k \in 1 .. Len(rules) : First(w, k) /\ found' = [word |-> w, func |-> rules[k].func]
       \/ (\A k \in 1 .. Len(rules) : ~Selects(rules[k], w)) /\ found' = [word |-> w, func |-> None]
    /\ UNCHANGED <<rules, running>>

Next ==
    \/ \E p \in Rules : Register(p)
    \/ Start
    \/ \E w \in Words : Handle(w)

Spec == Init /\ [][Next]_vars
=============================================================================
