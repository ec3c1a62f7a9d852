----------------------------- MODULE MCRegistry ------------------------------
(***************************************************************************)
(* A table of four slots, so that it fills, and three opcodes: 2 and 3 are *)
(* next to each other and 6 begins at the slot of 2, so that entries       *)
(* collide, and probing for 3 goes around the end of the table.  Opcode 2  *)
(* is a register format, 3 is SYSTEM and 6 has shifts.                     *)
(***************************************************************************)
EXTENDS Registry

Entry(op, f3, f7, mask, func) ==
    [key |-> [op |-> op, f3 |-> f3, f7 |-> f7], mask |-> mask, func |-> func]

MCPatterns ==
    {Entry(2, 0, 2, Fields, "sub"),
     Entry(2, 0, 0, {"op"}, "auipc"),
     Entry(3, 0, 3, Fields, "sfence"),
     Entry(3, 0, 0, {"op", "f3"}, "system"),
     Entry(6, 1, 2, Fields, "srai"),
     Entry(6, 0, 0, {"op", "f3"}, "addi")}
=============================================================================
