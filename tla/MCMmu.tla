------------------------------- MODULE MCMmu -------------------------------
(***************************************************************************)
(* A small address space for translation: pages of 16 bytes with tables of *)
(* two entries, so that a virtual address has three bits of page number.   *)
(* Memory is pages 4 and 5, for code and tables, which can be tables of    *)
(* each other.                                                             *)
(***************************************************************************)
EXTENDS Mmu

PteOf(r, w, x, u, n) ==
    [v |-> TRUE, r |-> r, w |-> w, x |-> x, u |-> u, ppn |-> n]
Table(n) == PteOf(FALSE, FALSE, FALSE, FALSE, n)
Code(n) == PteOf(TRUE, FALSE, TRUE, FALSE, n)

MCPtes == {ZeroPte}

\* The root is page 4 and page 5 below it, with page 4 again or a leaf as the
\* last: a leaf at page 4 is aligned at any level, one at page 5 is not.
Tables4(a, b, c, d) ==
    [p \in Slots |-> CASE p = 64 -> a [] p = 72 -> b [] p = 80 -> c [] p = 88 -> d]
MCBootPtes ==
    {Tables4(Table(5), Code(4), Table(4), Code(4)),
     Tables4(Table(5), Code(5), Table(4), Code(5)),
     Tables4(Table(5), PteOf(TRUE, FALSE, TRUE, TRUE, 5), Table(4), Table(4)),
     Tables4(Code(4), Table(4), Code(5), Code(5))}

CfgByte(a, r, w, l) == [a |-> a, r |-> r, w |-> w, l |-> l]
MCCfgBytes == {CfgByte(TOR, TRUE, TRUE, FALSE), CfgByte(NA4, TRUE, FALSE, TRUE)}
MCAddrWrites == {19, 21}
AllViews == {View(c, d) : c \in Cfgs, d \in Addrs}
MCViews == AllViews

MCAccesses == {<<72, 8>>}
MCCsrAddrs == {\h180, \h300, \h341, \h3A0, \h3B0, \h3B1}
MCCsrValues ==
    [a \in MCCsrAddrs |->
        CASE a = \h180 -> {SATP_MODE_SV39}
          [] a = \h300 -> {{11}}
          [] a = \h305 -> {[base |-> 64, flag |-> 0]}
          [] a = \h341 -> {30}
          [] OTHER -> MCViews]
=============================================================================
