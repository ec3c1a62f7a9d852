-------------------------------- MODULE Words --------------------------------
(***************************************************************************)
(* Machine words: the values of the general registers, read as unsigned    *)
(* or signed numbers, as halves and as sets of bits.                       *)
(***************************************************************************)
EXTENDS Integers

CONSTANTS
    HalfBits, \* 32
    Half      \* 2^32, the values of the lower half of a word

\* 2^n, by recursion on n.
Pow2[n \in Nat] == IF n = 0 THEN 1 ELSE 2 * Pow2[n - 1]

\* The amount of a shift on a half is cut from a half as from a word.
ASSUME WordAssumption ==
    /\ HalfBits \in Nat \ {0} /\ Half \in Nat \ {0, 1}
    /\ Half = Pow2[HalfBits] /\ Half % HalfBits = 0

XLen == 2 * HalfBits
Full == Half * Half
Word == 0 .. Full - 1

\* x, below n, as a two's complement number.
Signed(x, n) == IF x < n \div 2 THEN x ELSE x - n

Bits(x) == {i \in 0 .. XLen - 1 : (x \div Pow2[i]) % 2 = 1}
FromBits(s) ==
    LET below[n \in Nat] ==
            IF n = 0 THEN 0
            ELSE below[n - 1] + (IF n - 1 \in s THEN Pow2[n - 1] ELSE 0)
    IN  below[XLen]
=============================================================================
