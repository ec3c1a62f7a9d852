------------------------------ MODULE MCHart -------------------------------
(***************************************************************************)
(* Small programs for TLC on the hart.  Addresses are 0 .. 11 or 0 .. 15,  *)
(* with memory in the middle and the trap vectors in it; each run takes    *)
(* one family of CSRs and of values written to them.                       *)
(***************************************************************************)
EXTENDS Hart

MCPmp == {PmpNone, PmpOpen}
MTvecs == {[base |-> 8, flag |-> 0]}

\* Trap set-up in the Core build: status, delegation and vectors, and two
\* data addresses, one in memory and one outside.
TrapAccesses == {<<0, 8>>, <<10, 8>>}
TrapAddrs == {\h100, \h300, \h302, \h305, \h3A0}
TrapValues ==
    [a \in TrapAddrs |->
        CASE a = \h100 -> {{SIE}}
          [] a = \h300 -> {{11, SIE}, {12, MIE}}
          [] a = \h302 -> {{2, 3, 5, 8, 11}}
          [] a = \h305 -> {[base |-> 4, flag |-> 0]}
          [] OTHER -> {PmpOpen}]

\* Delegation and the interrupt registers, with stores to msip.
IsolationAccesses == {<<4, 4>>, <<14, 4>>}
IsolationAddrs == {\h104, \h144, \h300, \h302, \h303, \h304, \h305, \h344}
IsolationValues ==
    [a \in IsolationAddrs |->
        CASE a = \h300 -> {{11}}
          [] a = \h302 -> {{2, 5, 7}}
          [] a = \h303 -> {{1, 3}}
          [] a = \h305 -> MTvecs
          [] OTHER -> {{1, 3}, {}}]

\* Fetch: translation modes, PMP and the delegation of fetch faults, on
\* pages of eight bytes.
FetchAccesses == {<<4, 8>>}
FetchAddrs == {\h180, \h300, \h302, \h305, \h3A0}
FetchValues ==
    [a \in FetchAddrs |->
        CASE a = \h180 -> {0, 8}
          [] a = \h300 -> {{11}}
          [] a = \h302 -> {{1, 5}}
          [] a = \h305 -> MTvecs
          [] OTHER -> MCPmp]
=============================================================================
