----------------------------- MODULE MCDataPath ------------------------------
(***************************************************************************)
(* Small memories for the data path.  Accesses have 1 and 4 bytes; PMP     *)
(* opens everything or nothing, or allows only loads from the second byte  *)
(* of the memory on.                                                       *)
(***************************************************************************)
EXTENDS DataPath

MCBytes == {0, 1}
Upper == {a \in Addr : a > RamBase}
MCPmpWhole == {PmpNone, PmpOpen}
MCPmp == {PmpNone, PmpOpen,
          [lock |-> {}, load |-> Addr, store |-> Addr \ Upper]}
MCDataWords(n) == {[i \in 0 .. n - 1 |-> i % 2], [i \in 0 .. n - 1 |-> 1]}
MCStores == {<<2, 4>>}
MCDelegations == {{}, {LOAD_ACCESS_FAULT, STORE_ACCESS_FAULT}}
=============================================================================
