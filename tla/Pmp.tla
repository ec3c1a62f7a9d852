--------------------------------- MODULE Pmp ---------------------------------
(***************************************************************************)
(* Physical memory protection: Processor::checkPMP over its entries, and   *)
(* the view of it that HartOps works with.  An entry is the byte of pmpcfg *)
(* taken apart; a register pmpaddr is as wide as an address.               *)
(***************************************************************************)
EXTENDS HartOps

CONSTANTS
    PmpCount     \* the entries checkPMP scans: 64

ASSUME PmpCountAssumption == PmpCount \in 1 .. 64

Entries == 0 .. PmpCount - 1

OFF == 0
TOR == 1
NA4 == 2
NAPOT == 3
Cfg == [a : OFF .. NAPOT, r : BOOLEAN, w : BOOLEAN, l : BOOLEAN]
PmpReset == [a |-> OFF, r |-> FALSE, w |-> FALSE, l |-> FALSE]

-----------------------------------------------------------------------------
(* checkPMP.                                                               *)

Granule == 4

\* pmpaddr << 2, in 64 bits.
Shifted(a) == Wrap(Granule * a)

\* 2^k for the k ones at the end of a.
Ones[a \in Nat] == IF a % 2 = 1 THEN 2 * Ones[a \div 2] ELSE 1

\* Seeded fault: the mask is not shifted past the trailing 0.
Grain_Short(a) == Ones[a]

\* The bits the mask clears are the trailing ones of pmpaddr and the 0 above
\* them; a mask shifted out of the register clears all.
Grain(a) == 2 * Ones[a]

\* The addresses entry i matches.
Matches(cfg, addr, i) ==
    LET start == Shifted(addr[i])
        grain == Grain(addr[i])
    IN  CASE cfg[i].a = TOR ->
                {p \in Addr : p >= (IF i = 0 THEN 0 ELSE Shifted(addr[i - 1])) /\ p < start}
          [] cfg[i].a = NA4 -> {p \in Addr : p >= start /\ p < Wrap(start + Granule)}
          [] cfg[i].a = NAPOT ->
                {p \in Addr : (p \div Granule) \div grain = addr[i] \div grain}
          [] OTHER -> {}

\* The first entry that matches decides.
Decides(cfg, addr, i) ==
    Matches(cfg, addr, i) \ UNION {Matches(cfg, addr, j) : j \in 0 .. i - 1}

CheckPmp(mode, cfg, addr, p, type) ==
    \/ \E i \in Entries :
          /\ p \in Decides(cfg, addr, i)
          /\ \/ mode = Machine /\ ~cfg[i].l
             \/ cfg[i][type]
    \/ mode = Machine /\ \A i \in Entries : p \notin Matches(cfg, addr, i)

-----------------------------------------------------------------------------
(* What the entries amount to for HartOps, where only the outcome counts.  *)

View(cfg, addr) ==
    LET decides == [i \in Entries |-> Decides(cfg, addr, i)]
        having(field) == UNION {decides[i] : i \in {i \in Entries : cfg[i][field]}}
    IN  [lock |-> having("l"), load |-> having("r"), store |-> having("w")]
=============================================================================
