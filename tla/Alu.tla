--------------------------------- MODULE Alu ---------------------------------
(***************************************************************************)
(* What the arithmetic, multiplication and division handlers compute from  *)
(* two words, as the code computes it.  An immediate takes the place of    *)
(* the second word.                                                        *)
(***************************************************************************)
EXTENDS Words

\* static_cast<int64_t>(static_cast<int32_t>(x)), stored in a register.
\* Seeded fault: the narrowed value is stored without wrapping.
ExtendHalf_Unwrapped(x) == Signed(x % Half, Half)
ExtendHalf(x) == Signed(x % Half, Half) % Full

Less(x, y) == IF x < y THEN 1 ELSE 0

\* Shift amounts: & 0x3F and & 0x1F.
Shamt(x) == x % XLen
ShamtW(x) == x % HalfBits

Abs(x) == IF x < 0 THEN -x ELSE x

\* C++ division rounds towards zero, and a remainder has the dividend's sign.
Quotient(x, y) ==
    LET q == Abs(x) \div Abs(y) IN IF (x < 0) = (y < 0) THEN q ELSE -q
Remainder(x, y) == x - y * Quotient(x, y)

\* Division of numbers of which there are n, with the two cases C++ leaves
\* undefined taken out first.
Divide(x, y, n) ==
    IF y = 0 THEN -1
    ELSE IF x = -(n \div 2) /\ y = -1 THEN x
    ELSE Quotient(x, y)

Modulo(x, y, n) ==
    IF y = 0 THEN x
    ELSE IF x = -(n \div 2) /\ y = -1 THEN 0
    ELSE Remainder(x, y)

\* Seeded fault: the carry out of the second cross product is lost.
MultiplyHigh_DropsCarry(u, v) ==
    LET t == (u \div Half) * (v % Half) + ((u % Half) * (v % Half)) \div Half
    IN  (u \div Half) * (v \div Half) + t \div Half

\* multiply_high_u64: the upper word of a product, from products of halves.
MultiplyHigh(u, v) ==
    LET uLo == u % Half   uHi == u \div Half
        vLo == v % Half   vHi == v \div Half
        t == uHi * vLo + (uLo * vLo) \div Half
        k == (uLo * vHi + (t % Half)) \div Half
    IN  uHi * vHi + t \div Half + k

Correction(x, y) == IF Signed(x, Full) < 0 THEN y ELSE 0

BaseOps ==
    {"add", "sub", "and", "or", "xor", "sll", "srl", "sra", "slt", "sltu",
     "addw", "subw", "sllw", "srlw", "sraw"}
MulOps ==
    {"mul", "mulh", "mulhsu", "mulhu", "div", "divu", "rem", "remu",
     "mulw", "divw", "divuw", "remw", "remuw"}

Base(f, a, b) ==
    CASE f = "add"  -> (a + b) % Full
      [] f = "sub"  -> (a - b) % Full
      [] f = "and"  -> FromBits(Bits(a) \cap Bits(b))
      [] f = "or"   -> FromBits(Bits(a) \cup Bits(b))
      [] f = "xor"  -> FromBits((Bits(a) \cup Bits(b)) \ (Bits(a) \cap Bits(b)))
      [] f = "sll"  -> (a * Pow2[Shamt(b)]) % Full
      [] f = "srl"  -> a \div Pow2[Shamt(b)]
      [] f = "sra"  -> (Signed(a, Full) \div Pow2[Shamt(b)]) % Full
      [] f = "slt"  -> Less(Signed(a, Full), Signed(b, Full))
      [] f = "sltu" -> Less(a, b)
      [] f = "addw" -> ExtendHalf(a + b)
      [] f = "subw" -> ExtendHalf(a - b)
      [] f = "sllw" -> ExtendHalf((a % Half) * Pow2[ShamtW(b)])
      [] f = "srlw" -> ExtendHalf((a % Half) \div Pow2[ShamtW(b)])
      [] f = "sraw" -> ExtendHalf(Signed(a % Half, Half) \div Pow2[ShamtW(b)])

\* mulw multiplies two ints: an overflow, undefined in C++, wraps in the build.
Mul(f, a, b) ==
    LET sa == Signed(a, Full)         sb == Signed(b, Full)
        wa == Signed(a % Half, Half)  wb == Signed(b % Half, Half)
        ua == a % Half                ub == b % Half
    IN  CASE f = "mul"    -> (a * b) % Full
          [] f = "mulh"   -> (MultiplyHigh(a, b) - Correction(a, b) - Correction(b, a)) % Full
          [] f = "mulhsu" -> (MultiplyHigh(a, b) - Correction(a, b)) % Full
          [] f = "mulhu"  -> MultiplyHigh(a, b)
          [] f = "div"    -> Divide(sa, sb, Full) % Full
          [] f = "divu"   -> IF b = 0 THEN Full - 1 ELSE a \div b
          [] f = "rem"    -> Modulo(sa, sb, Full) % Full
          [] f = "remu"   -> IF b = 0 THEN a ELSE a % b
          [] f = "mulw"   -> ExtendHalf(wa * wb)
          [] f = "divw"   -> Divide(wa, wb, Half) % Full
          [] f = "divuw"  -> IF ub = 0 THEN Full - 1 ELSE ExtendHalf(ua \div ub)
          [] f = "remw"   -> Modulo(wa, wb, Half) % Full
          [] f = "remuw"  -> IF ub = 0 THEN ExtendHalf(ua) ELSE ExtendHalf(ua % ub)

Compute(f, a, b) == IF f \in BaseOps THEN Base(f, a, b) ELSE Mul(f, a, b)
=============================================================================
