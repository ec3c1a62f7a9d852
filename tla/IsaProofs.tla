------------------------------ MODULE IsaProofs -------------------------------
(***************************************************************************)
(* Expansion and decoding give every instruction the meaning that the      *)
(* manual gives it, for all encodings but the reserved ones; with the      *)
(* handlers of ExecuteProofs, Execute implements Isa.                      *)
(*                                                                         *)
(* The decoder of Execute cuts fields with shifts and masks and looks a    *)
(* handler up in the registry; Isa numbers bits and names the encodings.   *)
(* The proof goes down to the bits of an instruction: a field is the sum   *)
(* of its bits, each with its weight, and so is an immediate of Isa.  The  *)
(* registry is taken apart into the lists it is registered with.           *)
(***************************************************************************)
EXTENDS ExecuteProofs, SequenceTheorems

\* The encodings that the manual reserves and of which program and Isa think
\* differently: SLLIW, SRLIW and SRAIW by 32 or more, which the program executes
\* as the shift by 32 less, since handle clears bit 5 of the amount when it looks
\* the handler up; and two rows of the fourth column of quadrant 1, which the
\* program takes for illegal and Isa does not mention.
ReservedShift(op, f3, f7) == op = 27 /\ f3 \in {1, 5} /\ f7 % 2 = 1
ReservedArith(c) ==
    Cut(c, 13, 3) = 4 /\ Cut(c, 10, 2) = 3 /\ Cut(c, 12, 1) = 1 /\ Cut(c, 5, 2) > 1

Reserved(code) ==
    IF code[1] % 4 # 3 THEN code[1] % 4 = 1 /\ ReservedArith(code[1])
    ELSE LET w == Fields(code[1], code[2]) IN ReservedShift(w.op, w.f3, w.f7)
NoneReserved == \A pc \in Word : \A code \in Code[pc] : ~Reserved(code)

-----------------------------------------------------------------------------
(* Unsigned, as the sum that it is.                                        *)

\* The partial sums that Unsigned is defined by.
SumOf(bit, places, weights) ==
    CHOOSE sum : sum = [k \in 0 .. Len(places) |->
        IF k = 0 THEN 0 ELSE sum[k - 1] + bit[places[k]] * Pow2[weights[k]]]

\* What one bit of an instruction adds to the immediate.
Term(bit, i, j) == bit[i] * Pow2[j]

\* The places and weights of a number of n bits, and its terms.
HasTerms(bit, places, weights, n) ==
    /\ Len(places) = n
    /\ \A k \in 1 .. n : bit[places[k]] \in Int /\ weights[k] \in Nat

\* Unsigned is the last partial sum.
Summed(bit, places, weights, n) ==
    /\ SumOf(bit, places, weights) \in [0 .. n -> Int]
    /\ SumOf(bit, places, weights)[0] = 0
    /\ \A k \in 1 .. n :
          SumOf(bit, places, weights)[k]
            = SumOf(bit, places, weights)[k - 1] + Term(bit, places[k], weights[k])
    /\ Architecture!Unsigned(bit, places, weights) = SumOf(bit, places, weights)[n]

\* The sum of the bits of an immediate, term by term.
LEMMA SumSteps ==
  ASSUME NEW bit, NEW places, NEW weights, NEW n \in Nat, HasTerms(bit, places, weights, n)
  PROVE  Summed(bit, places, weights, n)
  <1>0. Len(places) = n /\ \A k \in 1 .. n : bit[places[k]] * Pow2[weights[k]] \in Int
    <2>1. ASSUME NEW k \in 1 .. n PROVE bit[places[k]] * Pow2[weights[k]] \in Int
      <3>1. PICK x \in Int : x = bit[places[k]] BY DEF HasTerms
      <3>2. PICK y \in Int : y = Pow2[weights[k]] BY Pow2Type DEF HasTerms
      <3> QED BY <3>1, <3>2, Products
    <2> QED BY <2>1 DEF HasTerms
  <1> DEFINE term(k) == bit[places[k]] * Pow2[weights[k]]
             F == [p \in Nat \X Int |-> p[2] + (IF p[1] \in 1 .. n THEN term(p[1]) ELSE 0)]
  <1>1. \A k \in 1 .. n : term(k) \in Int
    BY <1>0
  <1>2. \A k \in Nat : \A v \in Int : F[<<k, v>>] = v + (IF k \in 1 .. n THEN term(k) ELSE 0)
    OBVIOUS
  <1>3. F \in [Nat \X Int -> Int] /\ 0 \in Int
    <2>1. ASSUME NEW p \in Nat \X Int
          PROVE  p[2] + (IF p[1] \in 1 .. n THEN term(p[1]) ELSE 0) \in Int
      <3> HIDE DEF term
      <3> QED BY <1>1
    <2> QED BY <2>1
  <1>4. \A k \in 1 .. n : term(k) = bit[places[k]] * Pow2[weights[k]]
    OBVIOUS
  <1> HIDE DEF F, term
  <1>5. PICK s : Steps(F, 0, s, n)
    BY <1>3, StepsExist
  <1>6. s \in [0 .. n -> Int]
        /\ \A k \in 0 .. n : s[k] = IF k = 0 THEN 0 ELSE F[<<k, s[k - 1]>>]
    BY <1>5 DEF Steps
  <1>7. ASSUME NEW k \in 0 .. n PROVE s[k] = IF k = 0 THEN 0 ELSE s[k - 1] + term(k)
    <2>1. k # 0 => k - 1 \in 0 .. n /\ k \in 1 .. n /\ k \in Nat OBVIOUS
    <2>2. k # 0 => s[k - 1] \in Int BY <1>6, <2>1
    <2>3. k # 0 => F[<<k, s[k - 1]>>] = s[k - 1] + term(k) BY <1>2, <2>1, <2>2
    <2> QED BY <1>6, <2>3
  <1>8. s = [k \in 0 .. n |-> IF k = 0 THEN 0 ELSE s[k - 1] + bit[places[k]] * Pow2[weights[k]]]
    BY <1>6, <1>7 DEF term
  <1> DEFINE sum == SumOf(bit, places, weights)
  <1>9. sum = [k \in 0 .. n |->
                  IF k = 0 THEN 0 ELSE sum[k - 1] + bit[places[k]] * Pow2[weights[k]]]
    <2>1. s = [k \in 0 .. Len(places) |->
                  IF k = 0 THEN 0 ELSE s[k - 1] + bit[places[k]] * Pow2[weights[k]]]
      BY <1>0, <1>8
    <2>2. SumOf(bit, places, weights) = [k \in 0 .. Len(places) |->
             IF k = 0 THEN 0
             ELSE SumOf(bit, places, weights)[k - 1] + bit[places[k]] * Pow2[weights[k]]]
      BY <2>1 DEF SumOf
    <2> QED BY <1>0, <2>2
  <1>10. Architecture!Unsigned(bit, places, weights) = sum[n]
    <2>1. Architecture!Unsigned(bit, places, weights) = SumOf(bit, places, weights)[Len(places)]
      BY SameWords DEF Architecture!Unsigned, SumOf
    <2> QED BY <1>0, <2>1
  <1> HIDE DEF sum
  <1>11. \A k \in 0 .. n : sum[k] = IF k = 0 THEN 0 ELSE sum[k - 1] + term(k)
    BY <1>9 DEF term
  <1>12. \A k \in 0 .. n : sum[k] \in Int
    <2> DEFINE T == {k \in 0 .. n : sum[k] \notin Int}
    <2>1. SUFFICES ASSUME T # {} PROVE FALSE
      OBVIOUS
    <2>2. PICK k \in T : \A y \in T : k <= y
      <3>1. T \subseteq Nat OBVIOUS
      <3> HIDE DEF T
      <3> QED BY <2>1, <3>1, LeastNumber
    <2>3. k \in 0 .. n /\ sum[k] \notin Int OBVIOUS
    <2>4. k # 0 BY <1>11, <2>3
    <2>5. k - 1 \in 0 .. n /\ k - 1 \notin T /\ k \in 1 .. n BY <2>2, <2>3, <2>4
    <2>6. sum[k - 1] \in Int BY <2>5
    <2> QED BY <1>1, <1>11, <2>3, <2>4, <2>5, <2>6
  <1>13. sum \in [0 .. n -> Int]
    BY <1>9, <1>12
  <1>14. sum[0] = 0 /\ \A k \in 1 .. n : sum[k] = sum[k - 1] + term(k)
    <2>1. 0 \in 0 .. n /\ \A k \in 1 .. n : k \in 0 .. n /\ k # 0 OBVIOUS
    <2> QED BY <1>11, <2>1
  <1> QED BY <1>10, <1>13, <1>14 DEF sum, term, Summed, Term

\* One bit of c, and the next field down with it.
Bit(c, i) == (c \div Pow2[i]) % 2

\* A bit is 0 or 1; a field is its lowest bit and twice the rest.
LEMMA BitType == \A c \in Nat : \A i \in Nat : Bit(c, i) \in 0 .. 1
  <1> TAKE c \in Nat, i \in Nat
  <1>1. PICK p \in Nat \ {0} : p = Pow2[i] BY Pow2Type
  <1>2. c \div p \in Int BY <1>1, Division
  <1> QED BY <1>1, <1>2 DEF Bit

LEMMA CutNone == \A c \in Nat : \A i \in Nat : Cut(c, i, 0) = 0
  <1> TAKE c \in Nat, i \in Nat
  <1>1. PICK p \in Nat \ {0} : p = Pow2[i] BY Pow2Type
  <1>2. c \div p \in Int BY <1>1, Division
  <1> QED BY <1>1, <1>2, Pow2Step DEF Cut

LEMMA CutOne == \A c, i : Cut(c, i, 1) = Bit(c, i)
  BY SmallPowers DEF Cut, Bit

\* What a half and a rest are.
LEMMA Halving == \A y \in Nat : \E z \in Nat,
  t \in 0 .. 1 : z = y \div 2 /\ t = y % 2 /\ y = 2 * z + t
  <1> TAKE y \in Nat
  <1>1. 2 \in Nat \ {0} /\ 2 - 1 = 1 OBVIOUS
  <1>2. \E q \in Nat, r \in 0 .. 2 - 1 : q = y \div 2 /\ r = y % 2 /\ y = 2 * q + r
    BY <1>1, DivisionNat
  <1> QED BY <1>1, <1>2

LEMMA CutMore ==
  ASSUME NEW c \in Nat, NEW i \in Nat, NEW m \in Nat
  PROVE  Cut(c, i, m + 1) = 2 * Cut(c, i + 1, m) + Bit(c, i)
  <1>1. PICK p \in Nat \ {0} : p = Pow2[i] BY Pow2Type
  <1>2. PICK q \in Nat \ {0} : q = Pow2[m] BY Pow2Type
  <1>3. Pow2[i + 1] = 2 * p /\ Pow2[m + 1] = 2 * q BY <1>1, <1>2, Pow2Step
  <1>4. PICK y \in Nat, r \in 0 .. p - 1 : y = c \div p /\ r = c % p /\ c = p * y + r
    BY <1>1, DivisionNat, Zenon
  <1>5. PICK z \in Nat, t \in 0 .. 1 : z = y \div 2 /\ t = y % 2 /\ y = 2 * z + t
      BY <1>4, Halving
  <1>6. c \div (2 * p) = z
    <2>1. PICK pz \in Int, py \in Int, pt \in Int : pz = p * z /\ py = p * y /\ pt = p * t
      BY Products
    <2>2. py = 2 * pz + pt
      <3>1. p * y = p * (2 * z) + p * t BY <1>5, Products
      <3>2. p * (2 * z) = 2 * (p * z)
        <4>1. p * (2 * z) = (2 * z) * p /\ (2 * z) * p = 2 * (z * p) /\ z * p = p * z
          BY Products
        <4> QED BY <4>1
      <3> QED BY <2>1, <3>1, <3>2
    <2>3. pt = 0 \/ pt = p BY <1>5, <2>1
    <2>4. PICK b \in Nat \ {0} : b = 2 * p OBVIOUS
    <2>5. PICK u \in 0 .. b - 1 : u = pt + r BY <2>3, <2>4
    <2>6. c = 2 * pz + u
      <3>1. c = py + r BY <1>4, <2>1, Zenon
      <3>2. c \in Int /\ r \in Int BY <1>4
      <3> QED BY <2>1, <2>2, <2>5, <3>1, <3>2
    <2>7. b * z = 2 * pz
      <3>1. (2 * p) * z = 2 * (p * z) BY Products
      <3> QED BY <2>1, <2>4, <3>1
    <2>8. c = b * z + u BY <2>6, <2>7
    <2>9. c \div b = z BY <2>8, OneQuotient
    <2> QED BY <2>4, <2>9
  <1>7. y % (2 * q) = 2 * (z % q) + t
    <2>1. PICK e \in Nat, r1 \in 0 .. q - 1 : e = z \div q /\ r1 = z % q /\ z = q * e + r1
      BY DivisionNat, Zenon
    <2>2. PICK qe \in Int : qe = q * e BY Products
    <2>3. PICK b \in Nat \ {0} : b = 2 * q OBVIOUS
    <2>4. PICK u \in 0 .. b - 1 : u = 2 * r1 + t BY <2>3
    <2>5. b * e = 2 * qe BY <2>2, <2>3, Products
    <2>6. y = b * e + u /\ e \in Int BY <1>5, <2>1, <2>2, <2>4, <2>5
    <2>7. y % b = u BY <2>6, OneQuotient
    <2> QED BY <2>1, <2>3, <2>4, <2>7
  <1>8. Cut(c, i, m + 1) = y % (2 * q) BY <1>2, <1>3, <1>1, <1>4 DEF Cut
  <1>9. Cut(c, i + 1, m) = z % q BY <1>1, <1>2, <1>3, <1>6 DEF Cut
  <1>10. Bit(c, i) = t BY <1>1, <1>4, <1>5 DEF Bit
  <1> QED BY <1>7, <1>8, <1>9, <1>10

\* Unsigned and SignedImm of 2 to 20 places, written out.
LEMMA TermType ==
  ASSUME NEW b, NEW i, NEW j \in Nat, b[i] \in Int
  PROVE  Term(b, i, j) \in Int
BY Pow2Type, Products DEF Term

LEMMA Sum2 ==
  ASSUME NEW b, NEW p, NEW w, HasTerms(b, p, w, 2)
  PROVE  Architecture!Unsigned(b, p, w)
         = Term(b, p[1], w[1]) + Term(b, p[2], w[2])
  <1>1. PICK s : /\ s[0] = 0 /\ Architecture!Unsigned(b, p, w) = s[2]
                 /\ \A k \in 1 .. 2 : s[k] = s[k - 1] + Term(b, p[k], w[k])
    <2>1. Summed(b, p, w, 2) BY SumSteps
    <2> QED BY <2>1, Zenon DEF Summed
  <1>2. \A k \in 1 .. 2 : Term(b, p[k], w[k]) \in Int
    BY TermType DEF HasTerms
  <1>3. /\ s[1] = s[0] + Term(b, p[1], w[1]) /\ s[2] = s[1] + Term(b, p[2], w[2])
    BY <1>1
  <1> QED BY <1>1, <1>2, <1>3

LEMMA Sum3 ==
  ASSUME NEW b, NEW p, NEW w, HasTerms(b, p, w, 3)
  PROVE  Architecture!Unsigned(b, p, w)
         = Term(b, p[1], w[1]) + Term(b, p[2], w[2]) + Term(b, p[3], w[3])
  <1>1. PICK s : /\ s[0] = 0 /\ Architecture!Unsigned(b, p, w) = s[3]
                 /\ \A k \in 1 .. 3 : s[k] = s[k - 1] + Term(b, p[k], w[k])
    <2>1. Summed(b, p, w, 3) BY SumSteps
    <2> QED BY <2>1, Zenon DEF Summed
  <1>2. \A k \in 1 .. 3 : Term(b, p[k], w[k]) \in Int
    BY TermType DEF HasTerms
  <1>3. /\ s[1] = s[0] + Term(b, p[1], w[1]) /\ s[2] = s[1] + Term(b, p[2], w[2])
        /\ s[3] = s[2] + Term(b, p[3], w[3])
    BY <1>1
  <1> QED BY <1>1, <1>2, <1>3

LEMMA Sum5 ==
  ASSUME NEW b, NEW p, NEW w, HasTerms(b, p, w, 5)
  PROVE  Architecture!Unsigned(b, p, w)
         = Term(b, p[1], w[1]) + Term(b, p[2], w[2]) + Term(b, p[3], w[3])
           + Term(b, p[4], w[4]) + Term(b, p[5], w[5])
  <1>1. PICK s : /\ s[0] = 0 /\ Architecture!Unsigned(b, p, w) = s[5]
                 /\ \A k \in 1 .. 5 : s[k] = s[k - 1] + Term(b, p[k], w[k])
    <2>1. Summed(b, p, w, 5) BY SumSteps
    <2> QED BY <2>1, Zenon DEF Summed
  <1>2. \A k \in 1 .. 5 : Term(b, p[k], w[k]) \in Int
    BY TermType DEF HasTerms
  <1>3. /\ s[1] = s[0] + Term(b, p[1], w[1]) /\ s[2] = s[1] + Term(b, p[2], w[2])
        /\ s[3] = s[2] + Term(b, p[3], w[3]) /\ s[4] = s[3] + Term(b, p[4], w[4])
        /\ s[5] = s[4] + Term(b, p[5], w[5])
    BY <1>1
  <1> QED BY <1>1, <1>2, <1>3

LEMMA Sum6 ==
  ASSUME NEW b, NEW p, NEW w, HasTerms(b, p, w, 6)
  PROVE  Architecture!Unsigned(b, p, w)
         = Term(b, p[1], w[1]) + Term(b, p[2], w[2]) + Term(b, p[3], w[3])
           + Term(b, p[4], w[4]) + Term(b, p[5], w[5]) + Term(b, p[6], w[6])
  <1>1. PICK s : /\ s[0] = 0 /\ Architecture!Unsigned(b, p, w) = s[6]
                 /\ \A k \in 1 .. 6 : s[k] = s[k - 1] + Term(b, p[k], w[k])
    <2>1. Summed(b, p, w, 6) BY SumSteps
    <2> QED BY <2>1, Zenon DEF Summed
  <1>2. \A k \in 1 .. 6 : Term(b, p[k], w[k]) \in Int
    BY TermType DEF HasTerms
  <1>3. /\ s[1] = s[0] + Term(b, p[1], w[1]) /\ s[2] = s[1] + Term(b, p[2], w[2])
        /\ s[3] = s[2] + Term(b, p[3], w[3]) /\ s[4] = s[3] + Term(b, p[4], w[4])
        /\ s[5] = s[4] + Term(b, p[5], w[5]) /\ s[6] = s[5] + Term(b, p[6], w[6])
    BY <1>1
  <1> QED BY <1>1, <1>2, <1>3

LEMMA Sum7 ==
  ASSUME NEW b, NEW p, NEW w, HasTerms(b, p, w, 7)
  PROVE  Architecture!Unsigned(b, p, w)
         = Term(b, p[1], w[1]) + Term(b, p[2], w[2]) + Term(b, p[3], w[3])
           + Term(b, p[4], w[4]) + Term(b, p[5], w[5]) + Term(b, p[6], w[6])
           + Term(b, p[7], w[7])
  <1>1. PICK s : /\ s[0] = 0 /\ Architecture!Unsigned(b, p, w) = s[7]
                 /\ \A k \in 1 .. 7 : s[k] = s[k - 1] + Term(b, p[k], w[k])
    <2>1. Summed(b, p, w, 7) BY SumSteps
    <2> QED BY <2>1, Zenon DEF Summed
  <1>2. \A k \in 1 .. 7 : Term(b, p[k], w[k]) \in Int
    BY TermType DEF HasTerms
  <1>3. /\ s[1] = s[0] + Term(b, p[1], w[1]) /\ s[2] = s[1] + Term(b, p[2], w[2])
        /\ s[3] = s[2] + Term(b, p[3], w[3]) /\ s[4] = s[3] + Term(b, p[4], w[4])
        /\ s[5] = s[4] + Term(b, p[5], w[5]) /\ s[6] = s[5] + Term(b, p[6], w[6])
        /\ s[7] = s[6] + Term(b, p[7], w[7])
    BY <1>1
  <1> QED BY <1>1, <1>2, <1>3

LEMMA Sum8 ==
  ASSUME NEW b, NEW p, NEW w, HasTerms(b, p, w, 8)
  PROVE  Architecture!Unsigned(b, p, w)
         = Term(b, p[1], w[1]) + Term(b, p[2], w[2]) + Term(b, p[3], w[3])
           + Term(b, p[4], w[4]) + Term(b, p[5], w[5]) + Term(b, p[6], w[6])
           + Term(b, p[7], w[7]) + Term(b, p[8], w[8])
  <1>1. PICK s : /\ s[0] = 0 /\ Architecture!Unsigned(b, p, w) = s[8]
                 /\ \A k \in 1 .. 8 : s[k] = s[k - 1] + Term(b, p[k], w[k])
    <2>1. Summed(b, p, w, 8) BY SumSteps
    <2> QED BY <2>1, Zenon DEF Summed
  <1>2. \A k \in 1 .. 8 : Term(b, p[k], w[k]) \in Int
    BY TermType DEF HasTerms
  <1>3. /\ s[1] = s[0] + Term(b, p[1], w[1]) /\ s[2] = s[1] + Term(b, p[2], w[2])
        /\ s[3] = s[2] + Term(b, p[3], w[3]) /\ s[4] = s[3] + Term(b, p[4], w[4])
        /\ s[5] = s[4] + Term(b, p[5], w[5]) /\ s[6] = s[5] + Term(b, p[6], w[6])
        /\ s[7] = s[6] + Term(b, p[7], w[7]) /\ s[8] = s[7] + Term(b, p[8], w[8])
    BY <1>1
  <1> QED BY <1>1, <1>2, <1>3

LEMMA Sum11 ==
  ASSUME NEW b, NEW p, NEW w, HasTerms(b, p, w, 11)
  PROVE  Architecture!Unsigned(b, p, w)
         = Term(b, p[1], w[1]) + Term(b, p[2], w[2]) + Term(b, p[3], w[3])
           + Term(b, p[4], w[4]) + Term(b, p[5], w[5]) + Term(b, p[6], w[6])
           + Term(b, p[7], w[7]) + Term(b, p[8], w[8]) + Term(b, p[9], w[9])
           + Term(b, p[10], w[10]) + Term(b, p[11], w[11])
  <1>1. PICK s : /\ s[0] = 0 /\ Architecture!Unsigned(b, p, w) = s[11]
                 /\ \A k \in 1 .. 11 : s[k] = s[k - 1] + Term(b, p[k], w[k])
    <2>1. Summed(b, p, w, 11) BY SumSteps
    <2> QED BY <2>1, Zenon DEF Summed
  <1>2. \A k \in 1 .. 11 : Term(b, p[k], w[k]) \in Int
    BY TermType DEF HasTerms
  <1>3. /\ s[1] = s[0] + Term(b, p[1], w[1]) /\ s[2] = s[1] + Term(b, p[2], w[2])
        /\ s[3] = s[2] + Term(b, p[3], w[3]) /\ s[4] = s[3] + Term(b, p[4], w[4])
        /\ s[5] = s[4] + Term(b, p[5], w[5]) /\ s[6] = s[5] + Term(b, p[6], w[6])
        /\ s[7] = s[6] + Term(b, p[7], w[7]) /\ s[8] = s[7] + Term(b, p[8], w[8])
        /\ s[9] = s[8] + Term(b, p[9], w[9]) /\ s[10] = s[9] + Term(b, p[10], w[10])
        /\ s[11] = s[10] + Term(b, p[11], w[11])
    BY <1>1
  <1> QED BY <1>1, <1>2, <1>3

LEMMA Sum12 ==
  ASSUME NEW b, NEW p, NEW w, HasTerms(b, p, w, 12)
  PROVE  Architecture!Unsigned(b, p, w)
         = Term(b, p[1], w[1]) + Term(b, p[2], w[2]) + Term(b, p[3], w[3])
           + Term(b, p[4], w[4]) + Term(b, p[5], w[5]) + Term(b, p[6], w[6])
           + Term(b, p[7], w[7]) + Term(b, p[8], w[8]) + Term(b, p[9], w[9])
           + Term(b, p[10], w[10]) + Term(b, p[11], w[11]) + Term(b, p[12], w[12])
  <1>1. PICK s : /\ s[0] = 0 /\ Architecture!Unsigned(b, p, w) = s[12]
                 /\ \A k \in 1 .. 12 : s[k] = s[k - 1] + Term(b, p[k], w[k])
    <2>1. Summed(b, p, w, 12) BY SumSteps
    <2> QED BY <2>1, Zenon DEF Summed
  <1>2. \A k \in 1 .. 12 : Term(b, p[k], w[k]) \in Int
    BY TermType DEF HasTerms
  <1>3. /\ s[1] = s[0] + Term(b, p[1], w[1]) /\ s[2] = s[1] + Term(b, p[2], w[2])
        /\ s[3] = s[2] + Term(b, p[3], w[3]) /\ s[4] = s[3] + Term(b, p[4], w[4])
        /\ s[5] = s[4] + Term(b, p[5], w[5]) /\ s[6] = s[5] + Term(b, p[6], w[6])
        /\ s[7] = s[6] + Term(b, p[7], w[7]) /\ s[8] = s[7] + Term(b, p[8], w[8])
        /\ s[9] = s[8] + Term(b, p[9], w[9]) /\ s[10] = s[9] + Term(b, p[10], w[10])
        /\ s[11] = s[10] + Term(b, p[11], w[11]) /\ s[12] = s[11] + Term(b, p[12], w[12])
    BY <1>1
  <1> QED BY <1>1, <1>2, <1>3

\* The sum of twenty, in six parts.
SixParts(b, p, w, A, B, C, D, E, G) ==
  /\ Architecture!Unsigned(b, p, w) = A + B + C + D + E + G
  /\ A = Term(b, p[1], w[1])
  /\ B = Term(b, p[2], w[2]) + Term(b, p[3], w[3]) + Term(b, p[4], w[4])
         + Term(b, p[5], w[5]) + Term(b, p[6], w[6]) + Term(b, p[7], w[7])
  /\ C = Term(b, p[8], w[8]) + Term(b, p[9], w[9]) + Term(b, p[10], w[10])
         + Term(b, p[11], w[11])
  /\ D = Term(b, p[12], w[12])
  /\ E = Term(b, p[13], w[13]) + Term(b, p[14], w[14]) + Term(b, p[15], w[15])
         + Term(b, p[16], w[16]) + Term(b, p[17], w[17])
  /\ G = Term(b, p[18], w[18]) + Term(b, p[19], w[19]) + Term(b, p[20], w[20])

LEMMA Sum20 ==
  ASSUME NEW b, NEW p, NEW w, HasTerms(b, p, w, 20)
  PROVE  \E A, B, C, D, E, G \in Int : SixParts(b, p, w, A, B, C, D, E, G)
  <1>1. PICK s : /\ s[0] = 0 /\ Architecture!Unsigned(b, p, w) = s[20]
                 /\ \A k \in 1 .. 20 : s[k] = s[k - 1] + Term(b, p[k], w[k])
    <2>1. Summed(b, p, w, 20) BY SumSteps
    <2> QED BY <2>1, Zenon DEF Summed
  <1>2. /\ Term(b, p[1], w[1]) \in Int /\ Term(b, p[2], w[2]) \in Int
        /\ Term(b, p[3], w[3]) \in Int /\ Term(b, p[4], w[4]) \in Int
        /\ Term(b, p[5], w[5]) \in Int /\ Term(b, p[6], w[6]) \in Int
        /\ Term(b, p[7], w[7]) \in Int /\ Term(b, p[8], w[8]) \in Int
        /\ Term(b, p[9], w[9]) \in Int /\ Term(b, p[10], w[10]) \in Int
        /\ Term(b, p[11], w[11]) \in Int /\ Term(b, p[12], w[12]) \in Int
        /\ Term(b, p[13], w[13]) \in Int /\ Term(b, p[14], w[14]) \in Int
        /\ Term(b, p[15], w[15]) \in Int /\ Term(b, p[16], w[16]) \in Int
        /\ Term(b, p[17], w[17]) \in Int /\ Term(b, p[18], w[18]) \in Int
        /\ Term(b, p[19], w[19]) \in Int /\ Term(b, p[20], w[20]) \in Int
    BY TermType DEF HasTerms
  <1>3. /\ s[1] = s[0] + Term(b, p[1], w[1]) /\ s[2] = s[1] + Term(b, p[2], w[2])
        /\ s[3] = s[2] + Term(b, p[3], w[3]) /\ s[4] = s[3] + Term(b, p[4], w[4])
        /\ s[5] = s[4] + Term(b, p[5], w[5]) /\ s[6] = s[5] + Term(b, p[6], w[6])
        /\ s[7] = s[6] + Term(b, p[7], w[7]) /\ s[8] = s[7] + Term(b, p[8], w[8])
        /\ s[9] = s[8] + Term(b, p[9], w[9]) /\ s[10] = s[9] + Term(b, p[10], w[10])
        /\ s[11] = s[10] + Term(b, p[11], w[11]) /\ s[12] = s[11] + Term(b, p[12], w[12])
        /\ s[13] = s[12] + Term(b, p[13], w[13]) /\ s[14] = s[13] + Term(b, p[14], w[14])
        /\ s[15] = s[14] + Term(b, p[15], w[15]) /\ s[16] = s[15] + Term(b, p[16], w[16])
        /\ s[17] = s[16] + Term(b, p[17], w[17]) /\ s[18] = s[17] + Term(b, p[18], w[18])
        /\ s[19] = s[18] + Term(b, p[19], w[19]) /\ s[20] = s[19] + Term(b, p[20], w[20])
    BY <1>1
  <1>4. /\ s[0] \in Int /\ s[1] \in Int /\ s[2] \in Int /\ s[3] \in Int /\ s[4] \in Int
        /\ s[5] \in Int /\ s[6] \in Int /\ s[7] \in Int /\ s[8] \in Int /\ s[9] \in Int
        /\ s[10] \in Int /\ s[11] \in Int /\ s[12] \in Int /\ s[13] \in Int /\ s[14] \in Int
        /\ s[15] \in Int /\ s[16] \in Int /\ s[17] \in Int /\ s[18] \in Int /\ s[19] \in Int
        /\ s[20] \in Int
    BY <1>1, <1>2, <1>3
  <1>5. PICK A \in Int : A = s[1] - s[0] /\ A
               = Term(b, p[1], w[1])
    BY <1>2, <1>3, <1>4
  <1>6. PICK B \in Int : B = s[7] - s[1] /\ B
               = Term(b, p[2], w[2]) + Term(b, p[3], w[3]) + Term(b, p[4], w[4])
               + Term(b, p[5], w[5]) + Term(b, p[6], w[6]) + Term(b, p[7], w[7])
    BY <1>2, <1>3, <1>4
  <1>7. PICK C \in Int : C = s[11] - s[7] /\ C
               = Term(b, p[8], w[8]) + Term(b, p[9], w[9]) + Term(b, p[10], w[10])
               + Term(b, p[11], w[11])
    BY <1>2, <1>3, <1>4
  <1>8. PICK D \in Int : D = s[12] - s[11] /\ D
               = Term(b, p[12], w[12])
    BY <1>2, <1>3, <1>4
  <1>9. PICK E \in Int : E = s[17] - s[12] /\ E
               = Term(b, p[13], w[13]) + Term(b, p[14], w[14]) + Term(b, p[15], w[15])
               + Term(b, p[16], w[16]) + Term(b, p[17], w[17])
    BY <1>2, <1>3, <1>4
  <1>10. PICK G \in Int : G = s[20] - s[17] /\ G
               = Term(b, p[18], w[18]) + Term(b, p[19], w[19]) + Term(b, p[20], w[20])
    BY <1>2, <1>3, <1>4
  <1>11. s[20] = A + B + C + D + E + G
    <2>1. s[0] = 0 BY <1>1
    <2>2. s[7] = A + B BY <2>1, <1>4, <1>5, <1>6
    <2>3. s[12] = A + B + C + D BY <2>2, <1>4, <1>7, <1>8
    <2> QED BY <2>3, <1>4, <1>9, <1>10
  <1>12. Architecture!Unsigned(b, p, w) = A + B + C + D + E + G BY <1>1, <1>11
  <1>13. SixParts(b, p, w, A, B, C, D, E, G)
    BY <1>5, <1>6, <1>7, <1>8, <1>9, <1>10, <1>12, Zenon DEF SixParts
  <1> QED BY <1>5, <1>6, <1>7, <1>8, <1>9, <1>10, <1>13, Zenon

-----------------------------------------------------------------------------
(* The bits of an instruction, and the fields that the decoder cuts.       *)

\* The powers of two that the immediates reach.
LEMMA LargePowers ==
  /\ Pow2[14] = 16384 /\ Pow2[15] = 32768 /\ Pow2[16] = 65536 /\ Pow2[17] = 131072
  /\ Pow2[18] = 262144
  <1>1. /\ Pow2[13 + 1] = 2 * Pow2[13] /\ Pow2[14 + 1] = 2 * Pow2[14]
        /\ Pow2[15 + 1] = 2 * Pow2[15] /\ Pow2[16 + 1] = 2 * Pow2[16]
        /\ Pow2[17 + 1] = 2 * Pow2[17]
    BY Pow2Step, Zenon
  <1> QED BY <1>1, SmallPowers, SMT

LEMMA Puts == \A c, low, width :
  /\ Put(c, low, width, 1) = Cut(c, low, width) * 2
  /\ Put(c, low, width, 2) = Cut(c, low, width) * 4
  /\ Put(c, low, width, 3) = Cut(c, low, width) * 8
  /\ Put(c, low, width, 4) = Cut(c, low, width) * 16
  /\ Put(c, low, width, 5) = Cut(c, low, width) * 32
  /\ Put(c, low, width, 6) = Cut(c, low, width) * 64
  /\ Put(c, low, width, 7) = Cut(c, low, width) * 128
  /\ Put(c, low, width, 8) = Cut(c, low, width) * 256
  /\ Put(c, low, width, 10) = Cut(c, low, width) * 1024
  /\ Put(c, low, width, 11) = Cut(c, low, width) * 2048
  /\ Put(c, low, width, 12) = Cut(c, low, width) * 4096
BY SmallPowers, SMT DEF Put

\* A field is the sum of its bits.
LEMMA FieldBits ==
  ASSUME NEW c \in Nat, NEW i \in Nat
  PROVE  /\ Cut(c, i, 1) = Bit(c, i)
         /\ Cut(c, i, 2) = 2 * Bit(c, i + 1) + Bit(c, i)
         /\ Cut(c, i, 3) = 4 * Bit(c, i + 2) + 2 * Bit(c, i + 1) + Bit(c, i)
         /\ Cut(c, i, 4) = 8 * Bit(c, i + 3) + 4 * Bit(c, i + 2) + 2 * Bit(c, i + 1) + Bit(c, i)
         /\ Cut(c, i, 5) = 16 * Bit(c, i + 4) + 8 * Bit(c, i + 3) + 4 * Bit(c, i + 2)
            + 2 * Bit(c, i + 1)
             + Bit(c, i)
         /\ Cut(c, i, 6) = 32 * Bit(c, i + 5) + 16 * Bit(c, i + 4) + 8 * Bit(c, i + 3)
            + 4 * Bit(c, i + 2)
             + 2 * Bit(c, i + 1) + Bit(c, i)
         /\ Cut(c, i, 7) = 64 * Bit(c, i + 6) + 32 * Bit(c, i + 5) + 16 * Bit(c, i + 4)
             + 8 * Bit(c, i + 3) + 4 * Bit(c, i + 2) + 2 * Bit(c, i + 1) + Bit(c, i)
  <1>1. /\ Cut(c, i, 1 + 1) = 2 * Cut(c, i + 1, 1) + Bit(c, i)
        /\ Cut(c, i + 1, 1 + 1) = 2 * Cut(c, (i + 1) + 1, 1) + Bit(c, i + 1)
        /\ Cut(c, i + 2, 1 + 1) = 2 * Cut(c, (i + 2) + 1, 1) + Bit(c, i + 2)
        /\ Cut(c, i + 3, 1 + 1) = 2 * Cut(c, (i + 3) + 1, 1) + Bit(c, i + 3)
        /\ Cut(c, i + 4, 1 + 1) = 2 * Cut(c, (i + 4) + 1, 1) + Bit(c, i + 4)
        /\ Cut(c, i + 5, 1 + 1) = 2 * Cut(c, (i + 5) + 1, 1) + Bit(c, i + 5)
        /\ Cut(c, i, 2 + 1) = 2 * Cut(c, i + 1, 2) + Bit(c, i)
        /\ Cut(c, i + 1, 2 + 1) = 2 * Cut(c, (i + 1) + 1, 2) + Bit(c, i + 1)
        /\ Cut(c, i + 2, 2 + 1) = 2 * Cut(c, (i + 2) + 1, 2) + Bit(c, i + 2)
        /\ Cut(c, i + 3, 2 + 1) = 2 * Cut(c, (i + 3) + 1, 2) + Bit(c, i + 3)
        /\ Cut(c, i + 4, 2 + 1) = 2 * Cut(c, (i + 4) + 1, 2) + Bit(c, i + 4)
        /\ Cut(c, i, 3 + 1) = 2 * Cut(c, i + 1, 3) + Bit(c, i)
        /\ Cut(c, i + 1, 3 + 1) = 2 * Cut(c, (i + 1) + 1, 3) + Bit(c, i + 1)
        /\ Cut(c, i + 2, 3 + 1) = 2 * Cut(c, (i + 2) + 1, 3) + Bit(c, i + 2)
        /\ Cut(c, i + 3, 3 + 1) = 2 * Cut(c, (i + 3) + 1, 3) + Bit(c, i + 3)
        /\ Cut(c, i, 4 + 1) = 2 * Cut(c, i + 1, 4) + Bit(c, i)
        /\ Cut(c, i + 1, 4 + 1) = 2 * Cut(c, (i + 1) + 1, 4) + Bit(c, i + 1)
        /\ Cut(c, i + 2, 4 + 1) = 2 * Cut(c, (i + 2) + 1, 4) + Bit(c, i + 2)
        /\ Cut(c, i, 5 + 1) = 2 * Cut(c, i + 1, 5) + Bit(c, i)
        /\ Cut(c, i + 1, 5 + 1) = 2 * Cut(c, (i + 1) + 1, 5) + Bit(c, i + 1)
        /\ Cut(c, i, 6 + 1) = 2 * Cut(c, i + 1, 6) + Bit(c, i)
    BY CutMore
  <1>2. /\ Cut(c, i, 1) = Bit(c, i) /\ Cut(c, i + 1, 1) = Bit(c, i + 1)
        /\ Cut(c, i + 2, 1) = Bit(c, i + 2) /\ Cut(c, i + 3, 1) = Bit(c, i + 3)
        /\ Cut(c, i + 4, 1) = Bit(c, i + 4) /\ Cut(c, i + 5, 1) = Bit(c, i + 5)
        /\ Cut(c, i + 6, 1) = Bit(c, i + 6)
    BY CutOne
  <1>3. /\ Bit(c, i) \in Int /\ Bit(c, i + 1) \in Int /\ Bit(c, i + 2) \in Int
        /\ Bit(c, i + 3) \in Int /\ Bit(c, i + 4) \in Int /\ Bit(c, i + 5) \in Int
        /\ Bit(c, i + 6) \in Int
    BY BitType
  <1> QED BY <1>1, <1>2, <1>3

\* The bits as Isa numbers them: of a compressed instruction, of a word.
HalfBit(c) == [i \in 0 .. 15 |-> (c \div Pow2[i]) % 2]
WordBit(a, b) == [i \in 0 .. 31 |-> (<<a, b>>[1 + (i \div 16)] \div Pow2[i % 16]) % 2]

\* The bits of the halves are 0 or 1; a word has those of its two halves.
LEMMA BitsOfHalf ==
  ASSUME NEW c \in Nat
  PROVE  /\ \A i \in 0 .. 15 : Bit(c, i) \in Int /\ Bit(c, i) \in 0 .. 1
         /\ HalfBit(c)[0] \in Int /\ HalfBit(c)[1] \in Int /\ HalfBit(c)[2] \in Int
         /\ HalfBit(c)[3] \in Int /\ HalfBit(c)[4] \in Int /\ HalfBit(c)[5] \in Int
         /\ HalfBit(c)[6] \in Int /\ HalfBit(c)[7] \in Int /\ HalfBit(c)[8] \in Int
         /\ HalfBit(c)[9] \in Int /\ HalfBit(c)[10] \in Int /\ HalfBit(c)[11] \in Int
         /\ HalfBit(c)[12] \in Int /\ HalfBit(c)[13] \in Int /\ HalfBit(c)[14] \in Int
         /\ HalfBit(c)[15] \in Int
BY BitType DEF HalfBit, Bit

LEMMA BitsOfWord32 ==
  ASSUME NEW a \in Nat, NEW b \in Nat
  PROVE  /\ \A i \in 0 .. 15 : WordBit(a, b)[i] = Bit(a, i)
         /\ \A i \in 16 .. 31 : WordBit(a, b)[i] = Bit(b, i - 16)
         /\ WordBit(a, b)[0] \in Int /\ WordBit(a, b)[1] \in Int /\ WordBit(a, b)[2] \in Int
         /\ WordBit(a, b)[3] \in Int /\ WordBit(a, b)[4] \in Int /\ WordBit(a, b)[5] \in Int
         /\ WordBit(a, b)[6] \in Int /\ WordBit(a, b)[7] \in Int /\ WordBit(a, b)[8] \in Int
         /\ WordBit(a, b)[9] \in Int /\ WordBit(a, b)[10] \in Int
         /\ WordBit(a, b)[11] \in Int /\ WordBit(a, b)[12] \in Int
         /\ WordBit(a, b)[13] \in Int /\ WordBit(a, b)[14] \in Int
         /\ WordBit(a, b)[15] \in Int /\ WordBit(a, b)[16] \in Int
         /\ WordBit(a, b)[17] \in Int /\ WordBit(a, b)[18] \in Int
         /\ WordBit(a, b)[19] \in Int /\ WordBit(a, b)[20] \in Int
         /\ WordBit(a, b)[21] \in Int /\ WordBit(a, b)[22] \in Int
         /\ WordBit(a, b)[23] \in Int /\ WordBit(a, b)[24] \in Int
         /\ WordBit(a, b)[25] \in Int /\ WordBit(a, b)[26] \in Int
         /\ WordBit(a, b)[27] \in Int /\ WordBit(a, b)[28] \in Int
         /\ WordBit(a, b)[29] \in Int /\ WordBit(a, b)[30] \in Int
         /\ WordBit(a, b)[31] \in Int
  <1>1. ASSUME NEW i \in 0 .. 15
        PROVE  WordBit(a, b)[i] = Bit(a, i) /\ WordBit(a, b)[i] \in Int
    <2>1. i \div 16 = 0 /\ i % 16 = i /\ 1 + 0 = 1 /\ i \in 0 .. 31 OBVIOUS
    <2>2. WordBit(a, b)[i] = (<<a, b>>[1] \div Pow2[i]) % 2
      BY <2>1, Zenon DEF WordBit
    <2>3. <<a, b>>[1] = a OBVIOUS
    <2>4. Bit(a, i) \in 0 .. 1 BY BitType
    <2>5. WordBit(a, b)[i] = Bit(a, i) BY <2>2, <2>3, Zenon DEF Bit
    <2> QED BY <2>4, <2>5
  <1>2. ASSUME NEW i \in 16 .. 31
        PROVE  WordBit(a, b)[i] = Bit(b, i - 16) /\ WordBit(a, b)[i] \in Int
    <2>1. i \div 16 = 1 /\ i % 16 = i - 16 /\ 1 + 1 = 2 /\ i \in 0 .. 31 OBVIOUS
    <2>2. WordBit(a, b)[i] = (<<a, b>>[2] \div Pow2[i - 16]) % 2
      BY <2>1, Zenon DEF WordBit
    <2>3. <<a, b>>[2] = b OBVIOUS
    <2>4. i - 16 \in Nat OBVIOUS
    <2>5. Bit(b, i - 16) \in 0 .. 1 BY <2>4, BitType
    <2>6. WordBit(a, b)[i] = Bit(b, i - 16) BY <2>2, <2>3, Zenon DEF Bit
    <2> QED BY <2>5, <2>6
  <1> QED BY <1>1, <1>2

\* What each bit of an instruction weighs in an immediate.
LEMMA HalfTerms ==
  ASSUME NEW c \in Nat, NEW i \in 0 .. 15
  PROVE  /\ Term(HalfBit(c), i, 0) = Bit(c, i) /\ Term(HalfBit(c), i, 1) = 2 * Bit(c, i)
         /\ Term(HalfBit(c), i, 2) = 4 * Bit(c, i) /\ Term(HalfBit(c), i, 3) = 8 * Bit(c, i)
         /\ Term(HalfBit(c), i, 4) = 16 * Bit(c, i)
         /\ Term(HalfBit(c), i, 5) = 32 * Bit(c, i)
         /\ Term(HalfBit(c), i, 6) = 64 * Bit(c, i)
         /\ Term(HalfBit(c), i, 7) = 128 * Bit(c, i)
         /\ Term(HalfBit(c), i, 8) = 256 * Bit(c, i)
         /\ Term(HalfBit(c), i, 9) = 512 * Bit(c, i)
         /\ Term(HalfBit(c), i, 10) = 1024 * Bit(c, i)
         /\ Term(HalfBit(c), i, 11) = 2048 * Bit(c, i)
         /\ Term(HalfBit(c), i, 12) = 4096 * Bit(c, i)
         /\ Term(HalfBit(c), i, 13) = 8192 * Bit(c, i)
         /\ Term(HalfBit(c), i, 14) = 16384 * Bit(c, i)
         /\ Term(HalfBit(c), i, 15) = 32768 * Bit(c, i)
         /\ Term(HalfBit(c), i, 16) = 65536 * Bit(c, i)
         /\ Term(HalfBit(c), i, 17) = 131072 * Bit(c, i)
         /\ Term(HalfBit(c), i, 18) = 262144 * Bit(c, i)
  <1>1. HalfBit(c)[i] = Bit(c, i) BY DEF HalfBit, Bit
  <1> QED BY <1>1, BitType, SmallPowers, LargePowers, SMT DEF Term

\* The immediates that have no name of their own in the decoder.
WideImm(c) == Put(c, 7, 4, 6) + Put(c, 11, 2, 4) + Put(c, 5, 1, 3) + Put(c, 6, 1, 2)
WordSpImm(c) == Put(c, 4, 3, 2) + Put(c, 12, 1, 5) + Put(c, 2, 2, 6)
StoreWordSpImm(c) == Put(c, 9, 4, 2) + Put(c, 7, 2, 6)
UpperImm(c) == Put(c, 2, 5, 12) + Sign(c, 131072)

\* The places and weights that Isa counts down, one by one.
LEMMA Downs ==
  /\ Architecture!Down(2, 0) = <<2, 1, 0>>
  /\ Architecture!Down(4, 0) = <<4, 3, 2, 1, 0>>
  /\ Architecture!Down(5, 0) = <<5, 4, 3, 2, 1, 0>>
  /\ Architecture!Down(6, 0) = <<6, 5, 4, 3, 2, 1, 0>>
  /\ Architecture!Down(6, 2) = <<6, 5, 4, 3, 2>>
  /\ Architecture!Down(10, 1) = <<10, 9, 8, 7, 6, 5, 4, 3, 2, 1>>
  /\ Architecture!Down(11, 0) = <<11, 10, 9, 8, 7, 6, 5, 4, 3, 2, 1, 0>>
  /\ Architecture!Down(11, 7) = <<11, 10, 9, 8, 7>>
  /\ Architecture!Down(11, 8) = <<11, 10, 9, 8>>
  /\ Architecture!Down(12, 2) = <<12, 11, 10, 9, 8, 7, 6, 5, 4, 3, 2>>
  /\ Architecture!Down(12, 5) = <<12, 11, 10, 9, 8, 7, 6, 5>>
  /\ Architecture!Down(12, 7) = <<12, 11, 10, 9, 8, 7>>
  /\ Architecture!Down(14, 12) = <<14, 13, 12>>
  /\ Architecture!Down(17, 12) = <<17, 16, 15, 14, 13, 12>>
  /\ Architecture!Down(19, 0)
     = <<19, 18, 17, 16, 15, 14, 13, 12, 11, 10, 9, 8, 7, 6, 5, 4, 3, 2, 1, 0>>
  /\ Architecture!Down(19, 12) = <<19, 18, 17, 16, 15, 14, 13, 12>>
  /\ Architecture!Down(19, 15) = <<19, 18, 17, 16, 15>>
  /\ Architecture!Down(24, 20) = <<24, 23, 22, 21, 20>>
  /\ Architecture!Down(25, 20) = <<25, 24, 23, 22, 21, 20>>
  /\ Architecture!Down(30, 21) = <<30, 29, 28, 27, 26, 25, 24, 23, 22, 21>>
  /\ Architecture!Down(30, 25) = <<30, 29, 28, 27, 26, 25>>
  /\ Architecture!Down(31, 12)
     = <<31, 30, 29, 28, 27, 26, 25, 24, 23, 22, 21, 20, 19, 18, 17, 16, 15, 14, 13, 12>>
  /\ Architecture!Down(31, 20) = <<31, 30, 29, 28, 27, 26, 25, 24, 23, 22, 21, 20>>
  /\ Architecture!Down(31, 25) = <<31, 30, 29, 28, 27, 26, 25>>
BY DEF Architecture!Down

\* How two tuples are joined.
LEMMA Joins ==
  ASSUME NEW s \in Seq(Int), NEW t \in Seq(Int), NEW u \in Seq(Int), Len(u) = Len(s) + Len(t),
         \A k \in 1 .. Len(s) : u[k] = s[k], \A k \in 1 .. Len(t) : u[Len(s) + k] = t[k]
  PROVE  s \o t = u
  <1>1. s \o t \in Seq(Int) /\ Len(s \o t) = Len(u) OBVIOUS
  <1>2. ASSUME NEW k \in 1 .. Len(s \o t) PROVE (s \o t)[k] = u[k]
    <2>1. CASE k \in 1 .. Len(s) BY <2>1
    <2>2. CASE k \notin 1 .. Len(s)
      <3>1. PICK j \in 1 .. Len(t) : k = Len(s) + j
        <4>1. k - Len(s) \in 1 .. Len(t) /\ k = Len(s) + (k - Len(s)) BY <2>2
        <4> QED BY <4>1
      <3>2. (s \o t)[Len(s) + j] = t[j] OBVIOUS
      <3> QED BY <3>1, <3>2
    <2> QED BY <2>1, <2>2
  <1> QED BY <1>1, <1>2, SeqEqual

\* Those of the immediates in several pieces.
LEMMA BranchPlaces ==
  <<12, 11, 10>> \o Architecture!Down(6, 2)
    = <<12, 11, 10, 6, 5, 4, 3, 2>>
  <1>1. <<12, 11, 10>> \o <<6, 5, 4, 3, 2>>
        = <<12, 11, 10, 6, 5, 4, 3, 2>>
    <2> DEFINE s == <<12, 11, 10>>
               t == <<6, 5, 4, 3, 2>>
               u == <<12, 11, 10, 6, 5, 4, 3, 2>>
    <2>1. /\ s \in Seq(Int) /\ t \in Seq(Int) /\ u \in Seq(Int)
          /\ Len(s) = 3 /\ Len(t) = 5 /\ Len(u) = 8
      OBVIOUS
    <2>2. /\ u[1] = s[1] /\ u[2] = s[2] /\ u[3] = s[3] /\ u[3 + 1] = t[1] /\ u[3 + 2] = t[2]
          /\ u[3 + 3] = t[3] /\ u[3 + 4] = t[4] /\ u[3 + 5] = t[5]
      OBVIOUS
    <2> HIDE DEF s, t, u
    <2>3. /\ \A k \in 1 .. Len(s) : u[k] = s[k]
          /\ \A k \in 1 .. Len(t) : u[Len(s) + k] = t[k]
          /\ Len(u) = Len(s) + Len(t)
      BY <2>1, <2>2
    <2>4. s \o t = u BY <2>1, <2>3, Joins, Zenon
    <2> QED BY <2>4, Zenon DEF s, t, u
  <1>2. /\ Architecture!Down(6, 2) = <<6, 5, 4, 3, 2>>
    BY Downs, Zenon
  <1> QED BY <1>1, <1>2, Zenon

LEMMA StorePlaces ==
  Architecture!Down(31, 25) \o Architecture!Down(11, 7)
    = <<31, 30, 29, 28, 27, 26, 25, 11, 10, 9, 8, 7>>
  <1>1. <<31, 30, 29, 28, 27, 26, 25>> \o <<11, 10, 9, 8, 7>>
        = <<31, 30, 29, 28, 27, 26, 25, 11, 10, 9, 8, 7>>
    <2> DEFINE s == <<31, 30, 29, 28, 27, 26, 25>>
               t == <<11, 10, 9, 8, 7>>
               u == <<31, 30, 29, 28, 27, 26, 25, 11, 10, 9, 8, 7>>
    <2>1. /\ s \in Seq(Int) /\ t \in Seq(Int) /\ u \in Seq(Int)
          /\ Len(s) = 7 /\ Len(t) = 5 /\ Len(u) = 12
      OBVIOUS
    <2>2. /\ u[1] = s[1] /\ u[2] = s[2] /\ u[3] = s[3] /\ u[4] = s[4] /\ u[5] = s[5]
          /\ u[6] = s[6] /\ u[7] = s[7] /\ u[7 + 1] = t[1] /\ u[7 + 2] = t[2]
          /\ u[7 + 3] = t[3] /\ u[7 + 4] = t[4] /\ u[7 + 5] = t[5]
      OBVIOUS
    <2> HIDE DEF s, t, u
    <2>3. /\ \A k \in 1 .. Len(s) : u[k] = s[k]
          /\ \A k \in 1 .. Len(t) : u[Len(s) + k] = t[k]
          /\ Len(u) = Len(s) + Len(t)
      BY <2>1, <2>2
    <2>4. s \o t = u BY <2>1, <2>3, Joins, Zenon
    <2> QED BY <2>4, Zenon DEF s, t, u
  <1>2. /\ Architecture!Down(31, 25) = <<31, 30, 29, 28, 27, 26, 25>>
        /\ Architecture!Down(11, 7) = <<11, 10, 9, 8, 7>>
    BY Downs, Zenon
  <1> QED BY <1>1, <1>2, Zenon

LEMMA WideBranchPlaces ==
  <<31>> \o Architecture!Down(30, 25) \o Architecture!Down(11, 8) \o <<7>>
    = <<31, 30, 29, 28, 27, 26, 25, 11, 10, 9, 8, 7>>
  <1>1. <<31>> \o <<30, 29, 28, 27, 26, 25>>
        = <<31, 30, 29, 28, 27, 26, 25>>
    <2> DEFINE s == <<31>>
               t == <<30, 29, 28, 27, 26, 25>>
               u == <<31, 30, 29, 28, 27, 26, 25>>
    <2>1. /\ s \in Seq(Int) /\ t \in Seq(Int) /\ u \in Seq(Int)
          /\ Len(s) = 1 /\ Len(t) = 6 /\ Len(u) = 7
      OBVIOUS
    <2>2. /\ u[1] = s[1] /\ u[1 + 1] = t[1] /\ u[1 + 2] = t[2] /\ u[1 + 3] = t[3]
          /\ u[1 + 4] = t[4] /\ u[1 + 5] = t[5] /\ u[1 + 6] = t[6]
      OBVIOUS
    <2> HIDE DEF s, t, u
    <2>3. /\ \A k \in 1 .. Len(s) : u[k] = s[k]
          /\ \A k \in 1 .. Len(t) : u[Len(s) + k] = t[k]
          /\ Len(u) = Len(s) + Len(t)
      BY <2>1, <2>2
    <2>4. s \o t = u BY <2>1, <2>3, Joins, Zenon
    <2> QED BY <2>4, Zenon DEF s, t, u
  <1>2. <<31, 30, 29, 28, 27, 26, 25>> \o <<11, 10, 9, 8>>
        = <<31, 30, 29, 28, 27, 26, 25, 11, 10, 9, 8>>
    <2> DEFINE s == <<31, 30, 29, 28, 27, 26, 25>>
               t == <<11, 10, 9, 8>>
               u == <<31, 30, 29, 28, 27, 26, 25, 11, 10, 9, 8>>
    <2>1. /\ s \in Seq(Int) /\ t \in Seq(Int) /\ u \in Seq(Int)
          /\ Len(s) = 7 /\ Len(t) = 4 /\ Len(u) = 11
      OBVIOUS
    <2>2. /\ u[1] = s[1] /\ u[2] = s[2] /\ u[3] = s[3] /\ u[4] = s[4] /\ u[5] = s[5]
          /\ u[6] = s[6] /\ u[7] = s[7] /\ u[7 + 1] = t[1] /\ u[7 + 2] = t[2]
          /\ u[7 + 3] = t[3] /\ u[7 + 4] = t[4]
      OBVIOUS
    <2> HIDE DEF s, t, u
    <2>3. /\ \A k \in 1 .. Len(s) : u[k] = s[k]
          /\ \A k \in 1 .. Len(t) : u[Len(s) + k] = t[k]
          /\ Len(u) = Len(s) + Len(t)
      BY <2>1, <2>2
    <2>4. s \o t = u BY <2>1, <2>3, Joins, Zenon
    <2> QED BY <2>4, Zenon DEF s, t, u
  <1>3. <<31, 30, 29, 28, 27, 26, 25, 11, 10, 9, 8>> \o <<7>>
        = <<31, 30, 29, 28, 27, 26, 25, 11, 10, 9, 8, 7>>
    <2> DEFINE s == <<31, 30, 29, 28, 27, 26, 25, 11, 10, 9, 8>>
               t == <<7>>
               u == <<31, 30, 29, 28, 27, 26, 25, 11, 10, 9, 8, 7>>
    <2>1. /\ s \in Seq(Int) /\ t \in Seq(Int) /\ u \in Seq(Int)
          /\ Len(s) = 11 /\ Len(t) = 1 /\ Len(u) = 12
      OBVIOUS
    <2>2. /\ u[1] = s[1] /\ u[2] = s[2] /\ u[3] = s[3] /\ u[4] = s[4] /\ u[5] = s[5]
          /\ u[6] = s[6] /\ u[7] = s[7] /\ u[8] = s[8] /\ u[9] = s[9] /\ u[10] = s[10]
          /\ u[11] = s[11] /\ u[11 + 1] = t[1]
      OBVIOUS
    <2> HIDE DEF s, t, u
    <2>3. /\ \A k \in 1 .. Len(s) : u[k] = s[k]
          /\ \A k \in 1 .. Len(t) : u[Len(s) + k] = t[k]
          /\ Len(u) = Len(s) + Len(t)
      BY <2>1, <2>2
    <2>4. s \o t = u BY <2>1, <2>3, Joins, Zenon
    <2> QED BY <2>4, Zenon DEF s, t, u
  <1>4. /\ Architecture!Down(30, 25) = <<30, 29, 28, 27, 26, 25>>
        /\ Architecture!Down(11, 8) = <<11, 10, 9, 8>>
    BY Downs, Zenon
  <1> QED BY <1>1, <1>2, <1>3, <1>4, Zenon

LEMMA WideBranchWeights ==
  <<12>> \o Architecture!Down(10, 1) \o <<11>>
    = <<12, 10, 9, 8, 7, 6, 5, 4, 3, 2, 1, 11>>
  <1>1. <<12>> \o <<10, 9, 8, 7, 6, 5, 4, 3, 2, 1>>
        = <<12, 10, 9, 8, 7, 6, 5, 4, 3, 2, 1>>
    <2> DEFINE s == <<12>>
               t == <<10, 9, 8, 7, 6, 5, 4, 3, 2, 1>>
               u == <<12, 10, 9, 8, 7, 6, 5, 4, 3, 2, 1>>
    <2>1. /\ s \in Seq(Int) /\ t \in Seq(Int) /\ u \in Seq(Int)
          /\ Len(s) = 1 /\ Len(t) = 10 /\ Len(u) = 11
      OBVIOUS
    <2>2. /\ u[1] = s[1] /\ u[1 + 1] = t[1] /\ u[1 + 2] = t[2] /\ u[1 + 3] = t[3]
          /\ u[1 + 4] = t[4] /\ u[1 + 5] = t[5] /\ u[1 + 6] = t[6] /\ u[1 + 7] = t[7]
          /\ u[1 + 8] = t[8] /\ u[1 + 9] = t[9] /\ u[1 + 10] = t[10]
      OBVIOUS
    <2> HIDE DEF s, t, u
    <2>3. /\ \A k \in 1 .. Len(s) : u[k] = s[k]
          /\ \A k \in 1 .. Len(t) : u[Len(s) + k] = t[k]
          /\ Len(u) = Len(s) + Len(t)
      BY <2>1, <2>2
    <2>4. s \o t = u BY <2>1, <2>3, Joins, Zenon
    <2> QED BY <2>4, Zenon DEF s, t, u
  <1>2. <<12, 10, 9, 8, 7, 6, 5, 4, 3, 2, 1>> \o <<11>>
        = <<12, 10, 9, 8, 7, 6, 5, 4, 3, 2, 1, 11>>
    <2> DEFINE s == <<12, 10, 9, 8, 7, 6, 5, 4, 3, 2, 1>>
               t == <<11>>
               u == <<12, 10, 9, 8, 7, 6, 5, 4, 3, 2, 1, 11>>
    <2>1. /\ s \in Seq(Int) /\ t \in Seq(Int) /\ u \in Seq(Int)
          /\ Len(s) = 11 /\ Len(t) = 1 /\ Len(u) = 12
      OBVIOUS
    <2>2. /\ u[1] = s[1] /\ u[2] = s[2] /\ u[3] = s[3] /\ u[4] = s[4] /\ u[5] = s[5]
          /\ u[6] = s[6] /\ u[7] = s[7] /\ u[8] = s[8] /\ u[9] = s[9] /\ u[10] = s[10]
          /\ u[11] = s[11] /\ u[11 + 1] = t[1]
      OBVIOUS
    <2> HIDE DEF s, t, u
    <2>3. /\ \A k \in 1 .. Len(s) : u[k] = s[k]
          /\ \A k \in 1 .. Len(t) : u[Len(s) + k] = t[k]
          /\ Len(u) = Len(s) + Len(t)
      BY <2>1, <2>2
    <2>4. s \o t = u BY <2>1, <2>3, Joins, Zenon
    <2> QED BY <2>4, Zenon DEF s, t, u
  <1>3. /\ Architecture!Down(10, 1) = <<10, 9, 8, 7, 6, 5, 4, 3, 2, 1>>
    BY Downs, Zenon
  <1> QED BY <1>1, <1>2, <1>3, Zenon

LEMMA WideJumpPlaces ==
  <<31>> \o Architecture!Down(30, 21) \o <<20>> \o Architecture!Down(19, 12)
    = <<31, 30, 29, 28, 27, 26, 25, 24, 23, 22, 21, 20, 19, 18, 17, 16, 15, 14, 13, 12>>
  <1>1. <<31>> \o <<30, 29, 28, 27, 26, 25, 24, 23, 22, 21>>
        = <<31, 30, 29, 28, 27, 26, 25, 24, 23, 22, 21>>
    <2> DEFINE s == <<31>>
               t == <<30, 29, 28, 27, 26, 25, 24, 23, 22, 21>>
               u == <<31, 30, 29, 28, 27, 26, 25, 24, 23, 22, 21>>
    <2>1. /\ s \in Seq(Int) /\ t \in Seq(Int) /\ u \in Seq(Int)
          /\ Len(s) = 1 /\ Len(t) = 10 /\ Len(u) = 11
      OBVIOUS
    <2>2. /\ u[1] = s[1] /\ u[1 + 1] = t[1] /\ u[1 + 2] = t[2] /\ u[1 + 3] = t[3]
          /\ u[1 + 4] = t[4] /\ u[1 + 5] = t[5] /\ u[1 + 6] = t[6] /\ u[1 + 7] = t[7]
          /\ u[1 + 8] = t[8] /\ u[1 + 9] = t[9] /\ u[1 + 10] = t[10]
      OBVIOUS
    <2> HIDE DEF s, t, u
    <2>3. /\ \A k \in 1 .. Len(s) : u[k] = s[k]
          /\ \A k \in 1 .. Len(t) : u[Len(s) + k] = t[k]
          /\ Len(u) = Len(s) + Len(t)
      BY <2>1, <2>2
    <2>4. s \o t = u BY <2>1, <2>3, Joins, Zenon
    <2> QED BY <2>4, Zenon DEF s, t, u
  <1>2. <<31, 30, 29, 28, 27, 26, 25, 24, 23, 22, 21>> \o <<20>>
        = <<31, 30, 29, 28, 27, 26, 25, 24, 23, 22, 21, 20>>
    <2> DEFINE s == <<31, 30, 29, 28, 27, 26, 25, 24, 23, 22, 21>>
               t == <<20>>
               u == <<31, 30, 29, 28, 27, 26, 25, 24, 23, 22, 21, 20>>
    <2>1. /\ s \in Seq(Int) /\ t \in Seq(Int) /\ u \in Seq(Int)
          /\ Len(s) = 11 /\ Len(t) = 1 /\ Len(u) = 12
      OBVIOUS
    <2>2. /\ u[1] = s[1] /\ u[2] = s[2] /\ u[3] = s[3] /\ u[4] = s[4] /\ u[5] = s[5]
          /\ u[6] = s[6] /\ u[7] = s[7] /\ u[8] = s[8] /\ u[9] = s[9] /\ u[10] = s[10]
          /\ u[11] = s[11] /\ u[11 + 1] = t[1]
      OBVIOUS
    <2> HIDE DEF s, t, u
    <2>3. /\ \A k \in 1 .. Len(s) : u[k] = s[k]
          /\ \A k \in 1 .. Len(t) : u[Len(s) + k] = t[k]
          /\ Len(u) = Len(s) + Len(t)
      BY <2>1, <2>2
    <2>4. s \o t = u BY <2>1, <2>3, Joins, Zenon
    <2> QED BY <2>4, Zenon DEF s, t, u
  <1>3. <<31, 30, 29, 28, 27, 26, 25, 24, 23, 22, 21, 20>> \o <<19, 18, 17, 16, 15, 14, 13, 12>>
        = <<31, 30, 29, 28, 27, 26, 25, 24, 23, 22, 21, 20, 19, 18, 17, 16, 15, 14, 13, 12>>
    <2> DEFINE s == <<31, 30, 29, 28, 27, 26, 25, 24, 23, 22, 21, 20>>
               t == <<19, 18, 17, 16, 15, 14, 13, 12>>
               u == <<31, 30, 29, 28, 27, 26, 25, 24, 23, 22, 21, 20, 19, 18, 17, 16, 15, 14,
                    13, 12>>
    <2>1. /\ s \in Seq(Int) /\ t \in Seq(Int) /\ u \in Seq(Int)
          /\ Len(s) = 12 /\ Len(t) = 8 /\ Len(u) = 20
      OBVIOUS
    <2>2. /\ u[1] = s[1] /\ u[2] = s[2] /\ u[3] = s[3] /\ u[4] = s[4] /\ u[5] = s[5]
          /\ u[6] = s[6] /\ u[7] = s[7] /\ u[8] = s[8] /\ u[9] = s[9] /\ u[10] = s[10]
          /\ u[11] = s[11] /\ u[12] = s[12] /\ u[12 + 1] = t[1] /\ u[12 + 2] = t[2]
          /\ u[12 + 3] = t[3] /\ u[12 + 4] = t[4] /\ u[12 + 5] = t[5] /\ u[12 + 6] = t[6]
          /\ u[12 + 7] = t[7] /\ u[12 + 8] = t[8]
      OBVIOUS
    <2> HIDE DEF s, t, u
    <2>3. /\ \A k \in 1 .. Len(s) : u[k] = s[k]
          /\ \A k \in 1 .. Len(t) : u[Len(s) + k] = t[k]
          /\ Len(u) = Len(s) + Len(t)
      BY <2>1, <2>2
    <2>4. s \o t = u BY <2>1, <2>3, Joins, Zenon
    <2> QED BY <2>4, Zenon DEF s, t, u
  <1>4. /\ Architecture!Down(30, 21) = <<30, 29, 28, 27, 26, 25, 24, 23, 22, 21>>
        /\ Architecture!Down(19, 12) = <<19, 18, 17, 16, 15, 14, 13, 12>>
    BY Downs, Zenon
  <1> QED BY <1>1, <1>2, <1>3, <1>4, Zenon

LEMMA WideJumpWeights ==
  <<20>> \o Architecture!Down(10, 1) \o <<11>> \o Architecture!Down(19, 12)
    = <<20, 10, 9, 8, 7, 6, 5, 4, 3, 2, 1, 11, 19, 18, 17, 16, 15, 14, 13, 12>>
  <1>1. <<20>> \o <<10, 9, 8, 7, 6, 5, 4, 3, 2, 1>>
        = <<20, 10, 9, 8, 7, 6, 5, 4, 3, 2, 1>>
    <2> DEFINE s == <<20>>
               t == <<10, 9, 8, 7, 6, 5, 4, 3, 2, 1>>
               u == <<20, 10, 9, 8, 7, 6, 5, 4, 3, 2, 1>>
    <2>1. /\ s \in Seq(Int) /\ t \in Seq(Int) /\ u \in Seq(Int)
          /\ Len(s) = 1 /\ Len(t) = 10 /\ Len(u) = 11
      OBVIOUS
    <2>2. /\ u[1] = s[1] /\ u[1 + 1] = t[1] /\ u[1 + 2] = t[2] /\ u[1 + 3] = t[3]
          /\ u[1 + 4] = t[4] /\ u[1 + 5] = t[5] /\ u[1 + 6] = t[6] /\ u[1 + 7] = t[7]
          /\ u[1 + 8] = t[8] /\ u[1 + 9] = t[9] /\ u[1 + 10] = t[10]
      OBVIOUS
    <2> HIDE DEF s, t, u
    <2>3. /\ \A k \in 1 .. Len(s) : u[k] = s[k]
          /\ \A k \in 1 .. Len(t) : u[Len(s) + k] = t[k]
          /\ Len(u) = Len(s) + Len(t)
      BY <2>1, <2>2
    <2>4. s \o t = u BY <2>1, <2>3, Joins, Zenon
    <2> QED BY <2>4, Zenon DEF s, t, u
  <1>2. <<20, 10, 9, 8, 7, 6, 5, 4, 3, 2, 1>> \o <<11>>
        = <<20, 10, 9, 8, 7, 6, 5, 4, 3, 2, 1, 11>>
    <2> DEFINE s == <<20, 10, 9, 8, 7, 6, 5, 4, 3, 2, 1>>
               t == <<11>>
               u == <<20, 10, 9, 8, 7, 6, 5, 4, 3, 2, 1, 11>>
    <2>1. /\ s \in Seq(Int) /\ t \in Seq(Int) /\ u \in Seq(Int)
          /\ Len(s) = 11 /\ Len(t) = 1 /\ Len(u) = 12
      OBVIOUS
    <2>2. /\ u[1] = s[1] /\ u[2] = s[2] /\ u[3] = s[3] /\ u[4] = s[4] /\ u[5] = s[5]
          /\ u[6] = s[6] /\ u[7] = s[7] /\ u[8] = s[8] /\ u[9] = s[9] /\ u[10] = s[10]
          /\ u[11] = s[11] /\ u[11 + 1] = t[1]
      OBVIOUS
    <2> HIDE DEF s, t, u
    <2>3. /\ \A k \in 1 .. Len(s) : u[k] = s[k]
          /\ \A k \in 1 .. Len(t) : u[Len(s) + k] = t[k]
          /\ Len(u) = Len(s) + Len(t)
      BY <2>1, <2>2
    <2>4. s \o t = u BY <2>1, <2>3, Joins, Zenon
    <2> QED BY <2>4, Zenon DEF s, t, u
  <1>3. <<20, 10, 9, 8, 7, 6, 5, 4, 3, 2, 1, 11>> \o <<19, 18, 17, 16, 15, 14, 13, 12>>
        = <<20, 10, 9, 8, 7, 6, 5, 4, 3, 2, 1, 11, 19, 18, 17, 16, 15, 14, 13, 12>>
    <2> DEFINE s == <<20, 10, 9, 8, 7, 6, 5, 4, 3, 2, 1, 11>>
               t == <<19, 18, 17, 16, 15, 14, 13, 12>>
               u == <<20, 10, 9, 8, 7, 6, 5, 4, 3, 2, 1, 11, 19, 18, 17, 16, 15, 14, 13, 12>>
    <2>1. /\ s \in Seq(Int) /\ t \in Seq(Int) /\ u \in Seq(Int)
          /\ Len(s) = 12 /\ Len(t) = 8 /\ Len(u) = 20
      OBVIOUS
    <2>2. /\ u[1] = s[1] /\ u[2] = s[2] /\ u[3] = s[3] /\ u[4] = s[4] /\ u[5] = s[5]
          /\ u[6] = s[6] /\ u[7] = s[7] /\ u[8] = s[8] /\ u[9] = s[9] /\ u[10] = s[10]
          /\ u[11] = s[11] /\ u[12] = s[12] /\ u[12 + 1] = t[1] /\ u[12 + 2] = t[2]
          /\ u[12 + 3] = t[3] /\ u[12 + 4] = t[4] /\ u[12 + 5] = t[5] /\ u[12 + 6] = t[6]
          /\ u[12 + 7] = t[7] /\ u[12 + 8] = t[8]
      OBVIOUS
    <2> HIDE DEF s, t, u
    <2>3. /\ \A k \in 1 .. Len(s) : u[k] = s[k]
          /\ \A k \in 1 .. Len(t) : u[Len(s) + k] = t[k]
          /\ Len(u) = Len(s) + Len(t)
      BY <2>1, <2>2
    <2>4. s \o t = u BY <2>1, <2>3, Joins, Zenon
    <2> QED BY <2>4, Zenon DEF s, t, u
  <1>4. /\ Architecture!Down(10, 1) = <<10, 9, 8, 7, 6, 5, 4, 3, 2, 1>>
        /\ Architecture!Down(19, 12) = <<19, 18, 17, 16, 15, 14, 13, 12>>
    BY Downs, Zenon
  <1> QED BY <1>1, <1>2, <1>3, <1>4, Zenon

\* The fields of the compressed instructions are those of Isa.
LEMMA Short1Is ==
  ASSUME NEW c \in Nat
  PROVE  Architecture!Unsigned(HalfBit(c), <<9, 8, 7>>, <<2, 1, 0>>)
           = Cut(c, 7, 3)
  <1> DEFINE p == <<9, 8, 7>>
             w == <<2, 1, 0>>
  <1>1. HasTerms(HalfBit(c), p, w, 3)
    BY BitsOfHalf DEF HasTerms
  <1>2. /\ p[1] = 9 /\ p[2] = 8 /\ p[3] = 7
        /\ w[1] = 2 /\ w[2] = 1 /\ w[3] = 0
    OBVIOUS
  <1> HIDE DEF p, w
  <1>3. Architecture!Unsigned(HalfBit(c), p, w)
        = 4 * Bit(c, 9) + 2 * Bit(c, 8) + Bit(c, 7)
    <2>1. Architecture!Unsigned(HalfBit(c), p, w)
          = Term(HalfBit(c), 9, 2) + Term(HalfBit(c), 8, 1) + Term(HalfBit(c), 7, 0)
      BY <1>1, <1>2, Sum3, Zenon
    <2> QED BY <2>1, HalfTerms, SMT
  <1>4. /\ Cut(c, 7, 3) = 4 * Bit(c, 9) + 2 * Bit(c, 8) + Bit(c, 7)
    BY FieldBits
  <1>5. /\ Bit(c, 9) \in 0 .. 1 /\ Bit(c, 8) \in 0 .. 1 /\ Bit(c, 7) \in 0 .. 1
    BY BitsOfHalf
  <1> QED BY <1>3, <1>4, <1>5, SMT DEF p, w

LEMMA Short2Is ==
  ASSUME NEW c \in Nat
  PROVE  Architecture!Unsigned(HalfBit(c), <<4, 3, 2>>, <<2, 1, 0>>)
           = Cut(c, 2, 3)
  <1> DEFINE p == <<4, 3, 2>>
             w == <<2, 1, 0>>
  <1>1. HasTerms(HalfBit(c), p, w, 3)
    BY BitsOfHalf DEF HasTerms
  <1>2. /\ p[1] = 4 /\ p[2] = 3 /\ p[3] = 2
        /\ w[1] = 2 /\ w[2] = 1 /\ w[3] = 0
    OBVIOUS
  <1> HIDE DEF p, w
  <1>3. Architecture!Unsigned(HalfBit(c), p, w)
        = 4 * Bit(c, 4) + 2 * Bit(c, 3) + Bit(c, 2)
    <2>1. Architecture!Unsigned(HalfBit(c), p, w)
          = Term(HalfBit(c), 4, 2) + Term(HalfBit(c), 3, 1) + Term(HalfBit(c), 2, 0)
      BY <1>1, <1>2, Sum3, Zenon
    <2> QED BY <2>1, HalfTerms, SMT
  <1>4. /\ Cut(c, 2, 3) = 4 * Bit(c, 4) + 2 * Bit(c, 3) + Bit(c, 2)
    BY FieldBits
  <1>5. /\ Bit(c, 4) \in 0 .. 1 /\ Bit(c, 3) \in 0 .. 1 /\ Bit(c, 2) \in 0 .. 1
    BY BitsOfHalf
  <1> QED BY <1>3, <1>4, <1>5, SMT DEF p, w

LEMMA ColumnIs ==
  ASSUME NEW c \in Nat
  PROVE  Architecture!Unsigned(HalfBit(c), <<15, 14, 13>>, <<2, 1, 0>>)
           = Cut(c, 13, 3)
  <1> DEFINE p == <<15, 14, 13>>
             w == <<2, 1, 0>>
  <1>1. HasTerms(HalfBit(c), p, w, 3)
    BY BitsOfHalf DEF HasTerms
  <1>2. /\ p[1] = 15 /\ p[2] = 14 /\ p[3] = 13
        /\ w[1] = 2 /\ w[2] = 1 /\ w[3] = 0
    OBVIOUS
  <1> HIDE DEF p, w
  <1>3. Architecture!Unsigned(HalfBit(c), p, w)
        = 4 * Bit(c, 15) + 2 * Bit(c, 14) + Bit(c, 13)
    <2>1. Architecture!Unsigned(HalfBit(c), p, w)
          = Term(HalfBit(c), 15, 2) + Term(HalfBit(c), 14, 1) + Term(HalfBit(c), 13, 0)
      BY <1>1, <1>2, Sum3, Zenon
    <2> QED BY <2>1, HalfTerms, SMT
  <1>4. /\ Cut(c, 13, 3) = 4 * Bit(c, 15) + 2 * Bit(c, 14) + Bit(c, 13)
    BY FieldBits
  <1>5. /\ Bit(c, 15) \in 0 .. 1 /\ Bit(c, 14) \in 0 .. 1 /\ Bit(c, 13) \in 0 .. 1
    BY BitsOfHalf
  <1> QED BY <1>3, <1>4, <1>5, SMT DEF p, w

LEMMA WhichIs ==
  ASSUME NEW c \in Nat
  PROVE  Architecture!Unsigned(HalfBit(c), <<12, 6, 5>>, <<2, 1, 0>>)
           = 4 * Cut(c, 12, 1) + Cut(c, 5, 2)
  <1> DEFINE p == <<12, 6, 5>>
             w == <<2, 1, 0>>
  <1>1. HasTerms(HalfBit(c), p, w, 3)
    BY BitsOfHalf DEF HasTerms
  <1>2. /\ p[1] = 12 /\ p[2] = 6 /\ p[3] = 5
        /\ w[1] = 2 /\ w[2] = 1 /\ w[3] = 0
    OBVIOUS
  <1> HIDE DEF p, w
  <1>3. Architecture!Unsigned(HalfBit(c), p, w)
        = 4 * Bit(c, 12) + 2 * Bit(c, 6) + Bit(c, 5)
    <2>1. Architecture!Unsigned(HalfBit(c), p, w)
          = Term(HalfBit(c), 12, 2) + Term(HalfBit(c), 6, 1) + Term(HalfBit(c), 5, 0)
      BY <1>1, <1>2, Sum3, Zenon
    <2> QED BY <2>1, HalfTerms, SMT
  <1>4. /\ Cut(c, 12, 1) = Bit(c, 12) /\ Cut(c, 5, 2) = 2 * Bit(c, 6) + Bit(c, 5)
    BY FieldBits
  <1>5. /\ Bit(c, 12) \in 0 .. 1 /\ Bit(c, 6) \in 0 .. 1 /\ Bit(c, 5) \in 0 .. 1
    BY BitsOfHalf
  <1> QED BY <1>3, <1>4, <1>5, SMT DEF p, w

LEMMA GroupIs ==
  ASSUME NEW c \in Nat
  PROVE  Architecture!Unsigned(HalfBit(c), <<11, 10>>, <<1, 0>>)
           = Cut(c, 10, 2)
  <1> DEFINE p == <<11, 10>>
             w == <<1, 0>>
  <1>1. HasTerms(HalfBit(c), p, w, 2)
    BY BitsOfHalf DEF HasTerms
  <1>2. /\ p[1] = 11 /\ p[2] = 10
        /\ w[1] = 1 /\ w[2] = 0
    OBVIOUS
  <1> HIDE DEF p, w
  <1>3. Architecture!Unsigned(HalfBit(c), p, w)
        = 2 * Bit(c, 11) + Bit(c, 10)
    <2>1. Architecture!Unsigned(HalfBit(c), p, w)
          = Term(HalfBit(c), 11, 1) + Term(HalfBit(c), 10, 0)
      BY <1>1, <1>2, Sum2, Zenon
    <2> QED BY <2>1, HalfTerms, SMT
  <1>4. /\ Cut(c, 10, 2) = 2 * Bit(c, 11) + Bit(c, 10)
    BY FieldBits
  <1>5. /\ Bit(c, 11) \in 0 .. 1 /\ Bit(c, 10) \in 0 .. 1
    BY BitsOfHalf
  <1> QED BY <1>3, <1>4, <1>5, SMT DEF p, w

LEMMA Long1Is ==
  ASSUME NEW c \in Nat
  PROVE  Architecture!Unsigned(HalfBit(c), Architecture!Down(11, 7), Architecture!Down(4, 0))
           = Cut(c, 7, 5)
  <1> DEFINE p == <<11, 10, 9, 8, 7>>
             w == <<4, 3, 2, 1, 0>>
  <1>1. HasTerms(HalfBit(c), p, w, 5)
    BY BitsOfHalf DEF HasTerms
  <1>2. /\ p[1] = 11 /\ p[2] = 10 /\ p[3] = 9 /\ p[4] = 8 /\ p[5] = 7
        /\ w[1] = 4 /\ w[2] = 3 /\ w[3] = 2 /\ w[4] = 1 /\ w[5] = 0
    OBVIOUS
  <1> HIDE DEF p, w
  <1>3. Architecture!Unsigned(HalfBit(c), p, w)
        = 16 * Bit(c, 11) + 8 * Bit(c, 10) + 4 * Bit(c, 9) + 2 * Bit(c, 8) + Bit(c, 7)
    <2>1. Architecture!Unsigned(HalfBit(c), p, w)
          = Term(HalfBit(c), 11, 4) + Term(HalfBit(c), 10, 3) + Term(HalfBit(c), 9, 2)
            + Term(HalfBit(c), 8, 1) + Term(HalfBit(c), 7, 0)
      BY <1>1, <1>2, Sum5, Zenon
    <2> QED BY <2>1, HalfTerms, SMT
  <1>4. /\ Cut(c, 7, 5) = 16 * Bit(c, 11) + 8 * Bit(c, 10) + 4 * Bit(c, 9) + 2 * Bit(c, 8)
           + Bit(c, 7)
    BY FieldBits
  <1>5. /\ Bit(c, 11) \in 0 .. 1 /\ Bit(c, 10) \in 0 .. 1 /\ Bit(c, 9) \in 0 .. 1
        /\ Bit(c, 8) \in 0 .. 1 /\ Bit(c, 7) \in 0 .. 1
    BY BitsOfHalf
  <1>7. Architecture!Down(11, 7) = p /\ Architecture!Down(4, 0) = w
    BY Downs, Zenon DEF p, w
  <1>8. Architecture!Unsigned(HalfBit(c), p, w) = Cut(c, 7, 5)
    BY <1>3, <1>4, <1>5, SMT
  <1> QED BY <1>7, <1>8, Zenon

LEMMA Long2Is ==
  ASSUME NEW c \in Nat
  PROVE  Architecture!Unsigned(HalfBit(c), Architecture!Down(6, 2), Architecture!Down(4, 0))
           = Cut(c, 2, 5)
  <1> DEFINE p == <<6, 5, 4, 3, 2>>
             w == <<4, 3, 2, 1, 0>>
  <1>1. HasTerms(HalfBit(c), p, w, 5)
    BY BitsOfHalf DEF HasTerms
  <1>2. /\ p[1] = 6 /\ p[2] = 5 /\ p[3] = 4 /\ p[4] = 3 /\ p[5] = 2
        /\ w[1] = 4 /\ w[2] = 3 /\ w[3] = 2 /\ w[4] = 1 /\ w[5] = 0
    OBVIOUS
  <1> HIDE DEF p, w
  <1>3. Architecture!Unsigned(HalfBit(c), p, w)
        = 16 * Bit(c, 6) + 8 * Bit(c, 5) + 4 * Bit(c, 4) + 2 * Bit(c, 3) + Bit(c, 2)
    <2>1. Architecture!Unsigned(HalfBit(c), p, w)
          = Term(HalfBit(c), 6, 4) + Term(HalfBit(c), 5, 3) + Term(HalfBit(c), 4, 2)
            + Term(HalfBit(c), 3, 1) + Term(HalfBit(c), 2, 0)
      BY <1>1, <1>2, Sum5, Zenon
    <2> QED BY <2>1, HalfTerms, SMT
  <1>4. /\ Cut(c, 2, 5) = 16 * Bit(c, 6) + 8 * Bit(c, 5) + 4 * Bit(c, 4) + 2 * Bit(c, 3)
           + Bit(c, 2)
    BY FieldBits
  <1>5. /\ Bit(c, 6) \in 0 .. 1 /\ Bit(c, 5) \in 0 .. 1 /\ Bit(c, 4) \in 0 .. 1
        /\ Bit(c, 3) \in 0 .. 1 /\ Bit(c, 2) \in 0 .. 1
    BY BitsOfHalf
  <1>7. Architecture!Down(6, 2) = p /\ Architecture!Down(4, 0) = w
    BY Downs, Zenon DEF p, w
  <1>8. Architecture!Unsigned(HalfBit(c), p, w) = Cut(c, 2, 5)
    BY <1>3, <1>4, <1>5, SMT
  <1> QED BY <1>7, <1>8, Zenon

\* And so are their immediates.
LEMMA WideIs ==
  ASSUME NEW c \in Nat
  PROVE  Architecture!Unsigned(HalfBit(c), Architecture!Down(12, 5), <<5, 4, 9, 8, 7, 6, 2, 3>>)
           = WideImm(c)
  <1> DEFINE p == <<12, 11, 10, 9, 8, 7, 6, 5>>
             w == <<5, 4, 9, 8, 7, 6, 2, 3>>
  <1>1. HasTerms(HalfBit(c), p, w, 8)
    BY BitsOfHalf DEF HasTerms
  <1>2. /\ p[1] = 12 /\ p[2] = 11 /\ p[3] = 10 /\ p[4] = 9 /\ p[5] = 8 /\ p[6] = 7
        /\ p[7] = 6 /\ p[8] = 5
        /\ w[1] = 5 /\ w[2] = 4 /\ w[3] = 9 /\ w[4] = 8 /\ w[5] = 7 /\ w[6] = 6 /\ w[7] = 2
        /\ w[8] = 3
    OBVIOUS
  <1> HIDE DEF p, w
  <1>3. Architecture!Unsigned(HalfBit(c), p, w)
        = 32 * Bit(c, 12) + 16 * Bit(c, 11) + 512 * Bit(c, 10) + 256 * Bit(c, 9)
          + 128 * Bit(c, 8) + 64 * Bit(c, 7) + 4 * Bit(c, 6) + 8 * Bit(c, 5)
    <2>1. Architecture!Unsigned(HalfBit(c), p, w)
          = Term(HalfBit(c), 12, 5) + Term(HalfBit(c), 11, 4) + Term(HalfBit(c), 10, 9)
            + Term(HalfBit(c), 9, 8) + Term(HalfBit(c), 8, 7) + Term(HalfBit(c), 7, 6)
            + Term(HalfBit(c), 6, 2) + Term(HalfBit(c), 5, 3)
      BY <1>1, <1>2, Sum8, Zenon
    <2> QED BY <2>1, HalfTerms, SMT
  <1>4. /\ Cut(c, 7, 4) = 8 * Bit(c, 10) + 4 * Bit(c, 9) + 2 * Bit(c, 8) + Bit(c, 7)
        /\ Cut(c, 11, 2) = 2 * Bit(c, 12) + Bit(c, 11) /\ Cut(c, 5, 1) = Bit(c, 5)
        /\ Cut(c, 6, 1) = Bit(c, 6)
    BY FieldBits
  <1>5. /\ Bit(c, 12) \in 0 .. 1 /\ Bit(c, 11) \in 0 .. 1 /\ Bit(c, 10) \in 0 .. 1
        /\ Bit(c, 9) \in 0 .. 1 /\ Bit(c, 8) \in 0 .. 1 /\ Bit(c, 7) \in 0 .. 1
        /\ Bit(c, 6) \in 0 .. 1 /\ Bit(c, 5) \in 0 .. 1
    BY BitsOfHalf
  <1>7. Architecture!Down(12, 5) = p /\ <<5, 4, 9, 8, 7, 6, 2, 3>> = w
    BY Downs, Zenon DEF p, w
  <1>8. Architecture!Unsigned(HalfBit(c), p, w) = WideImm(c)
    BY <1>3, <1>4, <1>5, Puts, SMT DEF WideImm
  <1> QED BY <1>7, <1>8, Zenon

LEMMA OfWordIs ==
  ASSUME NEW c \in Nat
  PROVE  Architecture!Unsigned(HalfBit(c), <<12, 11, 10, 6, 5>>, <<5, 4, 3, 2, 6>>)
           = ImmWord(c)
  <1> DEFINE p == <<12, 11, 10, 6, 5>>
             w == <<5, 4, 3, 2, 6>>
  <1>1. HasTerms(HalfBit(c), p, w, 5)
    BY BitsOfHalf DEF HasTerms
  <1>2. /\ p[1] = 12 /\ p[2] = 11 /\ p[3] = 10 /\ p[4] = 6 /\ p[5] = 5
        /\ w[1] = 5 /\ w[2] = 4 /\ w[3] = 3 /\ w[4] = 2 /\ w[5] = 6
    OBVIOUS
  <1> HIDE DEF p, w
  <1>3. Architecture!Unsigned(HalfBit(c), p, w)
        = 32 * Bit(c, 12) + 16 * Bit(c, 11) + 8 * Bit(c, 10) + 4 * Bit(c, 6)
          + 64 * Bit(c, 5)
    <2>1. Architecture!Unsigned(HalfBit(c), p, w)
          = Term(HalfBit(c), 12, 5) + Term(HalfBit(c), 11, 4) + Term(HalfBit(c), 10, 3)
            + Term(HalfBit(c), 6, 2) + Term(HalfBit(c), 5, 6)
      BY <1>1, <1>2, Sum5, Zenon
    <2> QED BY <2>1, HalfTerms, SMT
  <1>4. /\ Cut(c, 6, 1) = Bit(c, 6)
        /\ Cut(c, 10, 3) = 4 * Bit(c, 12) + 2 * Bit(c, 11) + Bit(c, 10)
        /\ Cut(c, 5, 1) = Bit(c, 5)
    BY FieldBits
  <1>5. /\ Bit(c, 12) \in 0 .. 1 /\ Bit(c, 11) \in 0 .. 1 /\ Bit(c, 10) \in 0 .. 1
        /\ Bit(c, 6) \in 0 .. 1 /\ Bit(c, 5) \in 0 .. 1
    BY BitsOfHalf
  <1> QED BY <1>3, <1>4, <1>5, Puts, SMT DEF p, w, ImmWord

LEMMA OfDoubleIs ==
  ASSUME NEW c \in Nat
  PROVE  Architecture!Unsigned(HalfBit(c), <<12, 11, 10, 6, 5>>, <<5, 4, 3, 7, 6>>)
           = ImmDouble(c)
  <1> DEFINE p == <<12, 11, 10, 6, 5>>
             w == <<5, 4, 3, 7, 6>>
  <1>1. HasTerms(HalfBit(c), p, w, 5)
    BY BitsOfHalf DEF HasTerms
  <1>2. /\ p[1] = 12 /\ p[2] = 11 /\ p[3] = 10 /\ p[4] = 6 /\ p[5] = 5
        /\ w[1] = 5 /\ w[2] = 4 /\ w[3] = 3 /\ w[4] = 7 /\ w[5] = 6
    OBVIOUS
  <1> HIDE DEF p, w
  <1>3. Architecture!Unsigned(HalfBit(c), p, w)
        = 32 * Bit(c, 12) + 16 * Bit(c, 11) + 8 * Bit(c, 10) + 128 * Bit(c, 6)
          + 64 * Bit(c, 5)
    <2>1. Architecture!Unsigned(HalfBit(c), p, w)
          = Term(HalfBit(c), 12, 5) + Term(HalfBit(c), 11, 4) + Term(HalfBit(c), 10, 3)
            + Term(HalfBit(c), 6, 7) + Term(HalfBit(c), 5, 6)
      BY <1>1, <1>2, Sum5, Zenon
    <2> QED BY <2>1, HalfTerms, SMT
  <1>4. /\ Cut(c, 10, 3) = 4 * Bit(c, 12) + 2 * Bit(c, 11) + Bit(c, 10)
        /\ Cut(c, 5, 2) = 2 * Bit(c, 6) + Bit(c, 5)
    BY FieldBits
  <1>5. /\ Bit(c, 12) \in 0 .. 1 /\ Bit(c, 11) \in 0 .. 1 /\ Bit(c, 10) \in 0 .. 1
        /\ Bit(c, 6) \in 0 .. 1 /\ Bit(c, 5) \in 0 .. 1
    BY BitsOfHalf
  <1> QED BY <1>3, <1>4, <1>5, Puts, SMT DEF p, w, ImmDouble

LEMMA AmountIs ==
  ASSUME NEW c \in Nat
  PROVE  Architecture!Unsigned(HalfBit(c), <<12, 6, 5, 4, 3, 2>>, Architecture!Down(5, 0))
           = Shamt6(c)
  <1> DEFINE p == <<12, 6, 5, 4, 3, 2>>
             w == <<5, 4, 3, 2, 1, 0>>
  <1>1. HasTerms(HalfBit(c), p, w, 6)
    BY BitsOfHalf DEF HasTerms
  <1>2. /\ p[1] = 12 /\ p[2] = 6 /\ p[3] = 5 /\ p[4] = 4 /\ p[5] = 3 /\ p[6] = 2
        /\ w[1] = 5 /\ w[2] = 4 /\ w[3] = 3 /\ w[4] = 2 /\ w[5] = 1 /\ w[6] = 0
    OBVIOUS
  <1> HIDE DEF p, w
  <1>3. Architecture!Unsigned(HalfBit(c), p, w)
        = 32 * Bit(c, 12) + 16 * Bit(c, 6) + 8 * Bit(c, 5) + 4 * Bit(c, 4) + 2 * Bit(c, 3)
          + Bit(c, 2)
    <2>1. Architecture!Unsigned(HalfBit(c), p, w)
          = Term(HalfBit(c), 12, 5) + Term(HalfBit(c), 6, 4) + Term(HalfBit(c), 5, 3)
            + Term(HalfBit(c), 4, 2) + Term(HalfBit(c), 3, 1) + Term(HalfBit(c), 2, 0)
      BY <1>1, <1>2, Sum6, Zenon
    <2> QED BY <2>1, HalfTerms, SMT
  <1>4. /\ Cut(c, 2, 5) = 16 * Bit(c, 6) + 8 * Bit(c, 5) + 4 * Bit(c, 4) + 2 * Bit(c, 3)
           + Bit(c, 2)
        /\ Cut(c, 12, 1) = Bit(c, 12)
    BY FieldBits
  <1>5. /\ Bit(c, 12) \in 0 .. 1 /\ Bit(c, 6) \in 0 .. 1 /\ Bit(c, 5) \in 0 .. 1
        /\ Bit(c, 4) \in 0 .. 1 /\ Bit(c, 3) \in 0 .. 1 /\ Bit(c, 2) \in 0 .. 1
    BY BitsOfHalf
  <1>7. <<12, 6, 5, 4, 3, 2>> = p /\ Architecture!Down(5, 0) = w
    BY Downs, Zenon DEF p, w
  <1>8. Architecture!Unsigned(HalfBit(c), p, w) = Shamt6(c)
    BY <1>3, <1>4, <1>5, Puts, SMT DEF Shamt6
  <1> QED BY <1>7, <1>8, Zenon

LEMMA WordSpIs ==
  ASSUME NEW c \in Nat
  PROVE  Architecture!Unsigned(HalfBit(c), <<12, 6, 5, 4, 3, 2>>, <<5, 4, 3, 2, 7, 6>>)
           = WordSpImm(c)
  <1> DEFINE p == <<12, 6, 5, 4, 3, 2>>
             w == <<5, 4, 3, 2, 7, 6>>
  <1>1. HasTerms(HalfBit(c), p, w, 6)
    BY BitsOfHalf DEF HasTerms
  <1>2. /\ p[1] = 12 /\ p[2] = 6 /\ p[3] = 5 /\ p[4] = 4 /\ p[5] = 3 /\ p[6] = 2
        /\ w[1] = 5 /\ w[2] = 4 /\ w[3] = 3 /\ w[4] = 2 /\ w[5] = 7 /\ w[6] = 6
    OBVIOUS
  <1> HIDE DEF p, w
  <1>3. Architecture!Unsigned(HalfBit(c), p, w)
        = 32 * Bit(c, 12) + 16 * Bit(c, 6) + 8 * Bit(c, 5) + 4 * Bit(c, 4) + 128 * Bit(c, 3)
          + 64 * Bit(c, 2)
    <2>1. Architecture!Unsigned(HalfBit(c), p, w)
          = Term(HalfBit(c), 12, 5) + Term(HalfBit(c), 6, 4) + Term(HalfBit(c), 5, 3)
            + Term(HalfBit(c), 4, 2) + Term(HalfBit(c), 3, 7) + Term(HalfBit(c), 2, 6)
      BY <1>1, <1>2, Sum6, Zenon
    <2> QED BY <2>1, HalfTerms, SMT
  <1>4. /\ Cut(c, 4, 3) = 4 * Bit(c, 6) + 2 * Bit(c, 5) + Bit(c, 4)
        /\ Cut(c, 12, 1) = Bit(c, 12) /\ Cut(c, 2, 2) = 2 * Bit(c, 3) + Bit(c, 2)
    BY FieldBits
  <1>5. /\ Bit(c, 12) \in 0 .. 1 /\ Bit(c, 6) \in 0 .. 1 /\ Bit(c, 5) \in 0 .. 1
        /\ Bit(c, 4) \in 0 .. 1 /\ Bit(c, 3) \in 0 .. 1 /\ Bit(c, 2) \in 0 .. 1
    BY BitsOfHalf
  <1> QED BY <1>3, <1>4, <1>5, Puts, SMT DEF p, w, WordSpImm

LEMMA DoubleSpIs ==
  ASSUME NEW c \in Nat
  PROVE  Architecture!Unsigned(HalfBit(c), <<12, 6, 5, 4, 3, 2>>, <<5, 4, 3, 8, 7, 6>>)
           = ImmDoubleSp(c)
  <1> DEFINE p == <<12, 6, 5, 4, 3, 2>>
             w == <<5, 4, 3, 8, 7, 6>>
  <1>1. HasTerms(HalfBit(c), p, w, 6)
    BY BitsOfHalf DEF HasTerms
  <1>2. /\ p[1] = 12 /\ p[2] = 6 /\ p[3] = 5 /\ p[4] = 4 /\ p[5] = 3 /\ p[6] = 2
        /\ w[1] = 5 /\ w[2] = 4 /\ w[3] = 3 /\ w[4] = 8 /\ w[5] = 7 /\ w[6] = 6
    OBVIOUS
  <1> HIDE DEF p, w
  <1>3. Architecture!Unsigned(HalfBit(c), p, w)
        = 32 * Bit(c, 12) + 16 * Bit(c, 6) + 8 * Bit(c, 5) + 256 * Bit(c, 4)
          + 128 * Bit(c, 3) + 64 * Bit(c, 2)
    <2>1. Architecture!Unsigned(HalfBit(c), p, w)
          = Term(HalfBit(c), 12, 5) + Term(HalfBit(c), 6, 4) + Term(HalfBit(c), 5, 3)
            + Term(HalfBit(c), 4, 8) + Term(HalfBit(c), 3, 7) + Term(HalfBit(c), 2, 6)
      BY <1>1, <1>2, Sum6, Zenon
    <2> QED BY <2>1, HalfTerms, SMT
  <1>4. /\ Cut(c, 5, 2) = 2 * Bit(c, 6) + Bit(c, 5) /\ Cut(c, 12, 1) = Bit(c, 12)
        /\ Cut(c, 2, 3) = 4 * Bit(c, 4) + 2 * Bit(c, 3) + Bit(c, 2)
    BY FieldBits
  <1>5. /\ Bit(c, 12) \in 0 .. 1 /\ Bit(c, 6) \in 0 .. 1 /\ Bit(c, 5) \in 0 .. 1
        /\ Bit(c, 4) \in 0 .. 1 /\ Bit(c, 3) \in 0 .. 1 /\ Bit(c, 2) \in 0 .. 1
    BY BitsOfHalf
  <1> QED BY <1>3, <1>4, <1>5, Puts, SMT DEF p, w, ImmDoubleSp

LEMMA StoreWordSpIs ==
  ASSUME NEW c \in Nat
  PROVE  Architecture!Unsigned(HalfBit(c), Architecture!Down(12, 7), <<5, 4, 3, 2, 7, 6>>)
           = StoreWordSpImm(c)
  <1> DEFINE p == <<12, 11, 10, 9, 8, 7>>
             w == <<5, 4, 3, 2, 7, 6>>
  <1>1. HasTerms(HalfBit(c), p, w, 6)
    BY BitsOfHalf DEF HasTerms
  <1>2. /\ p[1] = 12 /\ p[2] = 11 /\ p[3] = 10 /\ p[4] = 9 /\ p[5] = 8 /\ p[6] = 7
        /\ w[1] = 5 /\ w[2] = 4 /\ w[3] = 3 /\ w[4] = 2 /\ w[5] = 7 /\ w[6] = 6
    OBVIOUS
  <1> HIDE DEF p, w
  <1>3. Architecture!Unsigned(HalfBit(c), p, w)
        = 32 * Bit(c, 12) + 16 * Bit(c, 11) + 8 * Bit(c, 10) + 4 * Bit(c, 9)
          + 128 * Bit(c, 8) + 64 * Bit(c, 7)
    <2>1. Architecture!Unsigned(HalfBit(c), p, w)
          = Term(HalfBit(c), 12, 5) + Term(HalfBit(c), 11, 4) + Term(HalfBit(c), 10, 3)
            + Term(HalfBit(c), 9, 2) + Term(HalfBit(c), 8, 7) + Term(HalfBit(c), 7, 6)
      BY <1>1, <1>2, Sum6, Zenon
    <2> QED BY <2>1, HalfTerms, SMT
  <1>4. /\ Cut(c, 9, 4) = 8 * Bit(c, 12) + 4 * Bit(c, 11) + 2 * Bit(c, 10) + Bit(c, 9)
        /\ Cut(c, 7, 2) = 2 * Bit(c, 8) + Bit(c, 7)
    BY FieldBits
  <1>5. /\ Bit(c, 12) \in 0 .. 1 /\ Bit(c, 11) \in 0 .. 1 /\ Bit(c, 10) \in 0 .. 1
        /\ Bit(c, 9) \in 0 .. 1 /\ Bit(c, 8) \in 0 .. 1 /\ Bit(c, 7) \in 0 .. 1
    BY BitsOfHalf
  <1>7. Architecture!Down(12, 7) = p /\ <<5, 4, 3, 2, 7, 6>> = w
    BY Downs, Zenon DEF p, w
  <1>8. Architecture!Unsigned(HalfBit(c), p, w) = StoreWordSpImm(c)
    BY <1>3, <1>4, <1>5, Puts, SMT DEF StoreWordSpImm
  <1> QED BY <1>7, <1>8, Zenon

LEMMA StoreSpIs ==
  ASSUME NEW c \in Nat
  PROVE  Architecture!Unsigned(HalfBit(c), Architecture!Down(12, 7), <<5, 4, 3, 8, 7, 6>>)
           = ImmStoreSp(c)
  <1> DEFINE p == <<12, 11, 10, 9, 8, 7>>
             w == <<5, 4, 3, 8, 7, 6>>
  <1>1. HasTerms(HalfBit(c), p, w, 6)
    BY BitsOfHalf DEF HasTerms
  <1>2. /\ p[1] = 12 /\ p[2] = 11 /\ p[3] = 10 /\ p[4] = 9 /\ p[5] = 8 /\ p[6] = 7
        /\ w[1] = 5 /\ w[2] = 4 /\ w[3] = 3 /\ w[4] = 8 /\ w[5] = 7 /\ w[6] = 6
    OBVIOUS
  <1> HIDE DEF p, w
  <1>3. Architecture!Unsigned(HalfBit(c), p, w)
        = 32 * Bit(c, 12) + 16 * Bit(c, 11) + 8 * Bit(c, 10) + 256 * Bit(c, 9)
          + 128 * Bit(c, 8) + 64 * Bit(c, 7)
    <2>1. Architecture!Unsigned(HalfBit(c), p, w)
          = Term(HalfBit(c), 12, 5) + Term(HalfBit(c), 11, 4) + Term(HalfBit(c), 10, 3)
            + Term(HalfBit(c), 9, 8) + Term(HalfBit(c), 8, 7) + Term(HalfBit(c), 7, 6)
      BY <1>1, <1>2, Sum6, Zenon
    <2> QED BY <2>1, HalfTerms, SMT
  <1>4. /\ Cut(c, 10, 3) = 4 * Bit(c, 12) + 2 * Bit(c, 11) + Bit(c, 10)
        /\ Cut(c, 7, 3) = 4 * Bit(c, 9) + 2 * Bit(c, 8) + Bit(c, 7)
    BY FieldBits
  <1>5. /\ Bit(c, 12) \in 0 .. 1 /\ Bit(c, 11) \in 0 .. 1 /\ Bit(c, 10) \in 0 .. 1
        /\ Bit(c, 9) \in 0 .. 1 /\ Bit(c, 8) \in 0 .. 1 /\ Bit(c, 7) \in 0 .. 1
    BY BitsOfHalf
  <1>7. Architecture!Down(12, 7) = p /\ <<5, 4, 3, 8, 7, 6>> = w
    BY Downs, Zenon DEF p, w
  <1>8. Architecture!Unsigned(HalfBit(c), p, w) = ImmStoreSp(c)
    BY <1>3, <1>4, <1>5, Puts, SMT DEF ImmStoreSp
  <1> QED BY <1>7, <1>8, Zenon

LEMMA SixIs ==
  ASSUME NEW c \in Nat
  PROVE  Architecture!SignedImm(HalfBit(c), <<12, 6, 5, 4, 3, 2>>, Architecture!Down(5, 0))
           = Imm6(c)
  <1> DEFINE p == <<12, 6, 5, 4, 3, 2>>
             w == <<5, 4, 3, 2, 1, 0>>
  <1>1. HasTerms(HalfBit(c), p, w, 6)
    BY BitsOfHalf DEF HasTerms
  <1>2. /\ p[1] = 12 /\ p[2] = 6 /\ p[3] = 5 /\ p[4] = 4 /\ p[5] = 3 /\ p[6] = 2
        /\ w[1] = 5 /\ w[2] = 4 /\ w[3] = 3 /\ w[4] = 2 /\ w[5] = 1 /\ w[6] = 0
    OBVIOUS
  <1> HIDE DEF p, w
  <1>3. Architecture!Unsigned(HalfBit(c), p, w)
        = 32 * Bit(c, 12) + 16 * Bit(c, 6) + 8 * Bit(c, 5) + 4 * Bit(c, 4) + 2 * Bit(c, 3)
          + Bit(c, 2)
    <2>1. Architecture!Unsigned(HalfBit(c), p, w)
          = Term(HalfBit(c), 12, 5) + Term(HalfBit(c), 6, 4) + Term(HalfBit(c), 5, 3)
            + Term(HalfBit(c), 4, 2) + Term(HalfBit(c), 3, 1) + Term(HalfBit(c), 2, 0)
      BY <1>1, <1>2, Sum6, Zenon
    <2> QED BY <2>1, HalfTerms, SMT
  <1>4. /\ Cut(c, 2, 5) = 16 * Bit(c, 6) + 8 * Bit(c, 5) + 4 * Bit(c, 4) + 2 * Bit(c, 3)
           + Bit(c, 2)
        /\ Cut(c, 12, 1) = Bit(c, 12)
    BY FieldBits
  <1>5. /\ Bit(c, 12) \in 0 .. 1 /\ Bit(c, 6) \in 0 .. 1 /\ Bit(c, 5) \in 0 .. 1
        /\ Bit(c, 4) \in 0 .. 1 /\ Bit(c, 3) \in 0 .. 1 /\ Bit(c, 2) \in 0 .. 1
    BY BitsOfHalf
  <1>6. Architecture!SignedImm(HalfBit(c), p, w)
        = Architecture!Unsigned(HalfBit(c), p, w) - 64 * Bit(c, 12)
    BY <1>2, HalfTerms, SameWords, SMT DEF Architecture!SignedImm, Term
  <1>7. <<12, 6, 5, 4, 3, 2>> = p /\ Architecture!Down(5, 0) = w
    BY Downs, Zenon DEF p, w
  <1>8. Architecture!SignedImm(HalfBit(c), p, w) = Imm6(c)
    BY <1>3, <1>4, <1>5, <1>6, Puts, SMT DEF Imm6, Sign
  <1> QED BY <1>7, <1>8, Zenon

LEMMA SixteenIs ==
  ASSUME NEW c \in Nat
  PROVE  Architecture!SignedImm(HalfBit(c), <<12, 6, 5, 4, 3, 2>>, <<9, 4, 6, 8, 7, 5>>)
           = ImmAddi16Sp(c)
  <1> DEFINE p == <<12, 6, 5, 4, 3, 2>>
             w == <<9, 4, 6, 8, 7, 5>>
  <1>1. HasTerms(HalfBit(c), p, w, 6)
    BY BitsOfHalf DEF HasTerms
  <1>2. /\ p[1] = 12 /\ p[2] = 6 /\ p[3] = 5 /\ p[4] = 4 /\ p[5] = 3 /\ p[6] = 2
        /\ w[1] = 9 /\ w[2] = 4 /\ w[3] = 6 /\ w[4] = 8 /\ w[5] = 7 /\ w[6] = 5
    OBVIOUS
  <1> HIDE DEF p, w
  <1>3. Architecture!Unsigned(HalfBit(c), p, w)
        = 512 * Bit(c, 12) + 16 * Bit(c, 6) + 64 * Bit(c, 5) + 256 * Bit(c, 4)
          + 128 * Bit(c, 3) + 32 * Bit(c, 2)
    <2>1. Architecture!Unsigned(HalfBit(c), p, w)
          = Term(HalfBit(c), 12, 9) + Term(HalfBit(c), 6, 4) + Term(HalfBit(c), 5, 6)
            + Term(HalfBit(c), 4, 8) + Term(HalfBit(c), 3, 7) + Term(HalfBit(c), 2, 5)
      BY <1>1, <1>2, Sum6, Zenon
    <2> QED BY <2>1, HalfTerms, SMT
  <1>4. /\ Cut(c, 6, 1) = Bit(c, 6) /\ Cut(c, 2, 1) = Bit(c, 2) /\ Cut(c, 5, 1) = Bit(c, 5)
        /\ Cut(c, 3, 2) = 2 * Bit(c, 4) + Bit(c, 3) /\ Cut(c, 12, 1) = Bit(c, 12)
    BY FieldBits
  <1>5. /\ Bit(c, 12) \in 0 .. 1 /\ Bit(c, 6) \in 0 .. 1 /\ Bit(c, 5) \in 0 .. 1
        /\ Bit(c, 4) \in 0 .. 1 /\ Bit(c, 3) \in 0 .. 1 /\ Bit(c, 2) \in 0 .. 1
    BY BitsOfHalf
  <1>6. Architecture!SignedImm(HalfBit(c), p, w)
        = Architecture!Unsigned(HalfBit(c), p, w) - 1024 * Bit(c, 12)
    BY <1>2, HalfTerms, SameWords, SMT DEF Architecture!SignedImm, Term
  <1> QED BY <1>3, <1>4, <1>5, <1>6, Puts, SMT DEF p, w, ImmAddi16Sp, Sign

LEMMA UpperIs ==
  ASSUME NEW c \in Nat
  PROVE  Architecture!SignedImm(HalfBit(c), <<12, 6, 5, 4, 3, 2>>, Architecture!Down(17, 12))
           = UpperImm(c)
  <1> DEFINE p == <<12, 6, 5, 4, 3, 2>>
             w == <<17, 16, 15, 14, 13, 12>>
  <1>1. HasTerms(HalfBit(c), p, w, 6)
    BY BitsOfHalf DEF HasTerms
  <1>2. /\ p[1] = 12 /\ p[2] = 6 /\ p[3] = 5 /\ p[4] = 4 /\ p[5] = 3 /\ p[6] = 2
        /\ w[1] = 17 /\ w[2] = 16 /\ w[3] = 15 /\ w[4] = 14 /\ w[5] = 13 /\ w[6] = 12
    OBVIOUS
  <1> HIDE DEF p, w
  <1>3. Architecture!Unsigned(HalfBit(c), p, w)
        = 131072 * Bit(c, 12) + 65536 * Bit(c, 6) + 32768 * Bit(c, 5) + 16384 * Bit(c, 4)
          + 8192 * Bit(c, 3) + 4096 * Bit(c, 2)
    <2>1. Architecture!Unsigned(HalfBit(c), p, w)
          = Term(HalfBit(c), 12, 17) + Term(HalfBit(c), 6, 16) + Term(HalfBit(c), 5, 15)
            + Term(HalfBit(c), 4, 14) + Term(HalfBit(c), 3, 13) + Term(HalfBit(c), 2, 12)
      BY <1>1, <1>2, Sum6, Zenon
    <2> QED BY <2>1, HalfTerms, SMT
  <1>4. /\ Cut(c, 2, 5) = 16 * Bit(c, 6) + 8 * Bit(c, 5) + 4 * Bit(c, 4) + 2 * Bit(c, 3)
           + Bit(c, 2)
        /\ Cut(c, 12, 1) = Bit(c, 12)
    BY FieldBits
  <1>5. /\ Bit(c, 12) \in 0 .. 1 /\ Bit(c, 6) \in 0 .. 1 /\ Bit(c, 5) \in 0 .. 1
        /\ Bit(c, 4) \in 0 .. 1 /\ Bit(c, 3) \in 0 .. 1 /\ Bit(c, 2) \in 0 .. 1
    BY BitsOfHalf
  <1>6. Architecture!SignedImm(HalfBit(c), p, w)
        = Architecture!Unsigned(HalfBit(c), p, w) - 262144 * Bit(c, 12)
    BY <1>2, HalfTerms, SameWords, SMT DEF Architecture!SignedImm, Term
  <1>7. <<12, 6, 5, 4, 3, 2>> = p /\ Architecture!Down(17, 12) = w
    BY Downs, Zenon DEF p, w
  <1>8. Architecture!SignedImm(HalfBit(c), p, w) = UpperImm(c)
    BY <1>3, <1>4, <1>5, <1>6, Puts, SMT DEF UpperImm, Sign
  <1> QED BY <1>7, <1>8, Zenon

LEMMA OfJumpIs ==
  ASSUME NEW c \in Nat
  PROVE  Architecture!SignedImm(HalfBit(c), Architecture!Down(12, 2),
        <<11, 4, 9, 8, 10, 6, 7, 3, 2, 1, 5>>)
           = ImmJump(c)
  <1> DEFINE p == <<12, 11, 10, 9, 8, 7, 6, 5, 4, 3, 2>>
             w == <<11, 4, 9, 8, 10, 6, 7, 3, 2, 1, 5>>
  <1>1. HasTerms(HalfBit(c), p, w, 11)
    BY BitsOfHalf DEF HasTerms
  <1>2. /\ p[1] = 12 /\ p[2] = 11 /\ p[3] = 10 /\ p[4] = 9 /\ p[5] = 8 /\ p[6] = 7
        /\ p[7] = 6 /\ p[8] = 5 /\ p[9] = 4 /\ p[10] = 3 /\ p[11] = 2
        /\ w[1] = 11 /\ w[2] = 4 /\ w[3] = 9 /\ w[4] = 8 /\ w[5] = 10 /\ w[6] = 6
        /\ w[7] = 7 /\ w[8] = 3 /\ w[9] = 2 /\ w[10] = 1 /\ w[11] = 5
    OBVIOUS
  <1> HIDE DEF p, w
  <1>3. Architecture!Unsigned(HalfBit(c), p, w)
        = 2048 * Bit(c, 12) + 16 * Bit(c, 11) + 512 * Bit(c, 10) + 256 * Bit(c, 9)
          + 1024 * Bit(c, 8) + 64 * Bit(c, 7) + 128 * Bit(c, 6) + 8 * Bit(c, 5)
          + 4 * Bit(c, 4) + 2 * Bit(c, 3) + 32 * Bit(c, 2)
    <2>1. Architecture!Unsigned(HalfBit(c), p, w)
          = Term(HalfBit(c), 12, 11) + Term(HalfBit(c), 11, 4) + Term(HalfBit(c), 10, 9)
            + Term(HalfBit(c), 9, 8) + Term(HalfBit(c), 8, 10) + Term(HalfBit(c), 7, 6)
            + Term(HalfBit(c), 6, 7) + Term(HalfBit(c), 5, 3) + Term(HalfBit(c), 4, 2)
            + Term(HalfBit(c), 3, 1) + Term(HalfBit(c), 2, 5)
      BY <1>1, <1>2, Sum11, Zenon
    <2> QED BY <2>1, HalfTerms, SMT
  <1>4. /\ Cut(c, 3, 3) = 4 * Bit(c, 5) + 2 * Bit(c, 4) + Bit(c, 3)
        /\ Cut(c, 11, 1) = Bit(c, 11) /\ Cut(c, 2, 1) = Bit(c, 2)
        /\ Cut(c, 7, 1) = Bit(c, 7) /\ Cut(c, 6, 1) = Bit(c, 6)
        /\ Cut(c, 9, 2) = 2 * Bit(c, 10) + Bit(c, 9) /\ Cut(c, 8, 1) = Bit(c, 8)
        /\ Cut(c, 12, 1) = Bit(c, 12)
    BY FieldBits
  <1>5. /\ Bit(c, 12) \in 0 .. 1 /\ Bit(c, 11) \in 0 .. 1 /\ Bit(c, 10) \in 0 .. 1
        /\ Bit(c, 9) \in 0 .. 1 /\ Bit(c, 8) \in 0 .. 1 /\ Bit(c, 7) \in 0 .. 1
        /\ Bit(c, 6) \in 0 .. 1 /\ Bit(c, 5) \in 0 .. 1 /\ Bit(c, 4) \in 0 .. 1
        /\ Bit(c, 3) \in 0 .. 1 /\ Bit(c, 2) \in 0 .. 1
    BY BitsOfHalf
  <1>6. Architecture!SignedImm(HalfBit(c), p, w)
        = Architecture!Unsigned(HalfBit(c), p, w) - 4096 * Bit(c, 12)
    BY <1>2, HalfTerms, SameWords, SMT DEF Architecture!SignedImm, Term
  <1>7. Architecture!Down(12, 2) = p /\ <<11, 4, 9, 8, 10, 6, 7, 3, 2, 1, 5>> = w
    BY Downs, Zenon DEF p, w
  <1>8. Architecture!SignedImm(HalfBit(c), p, w) = ImmJump(c)
    BY <1>3, <1>4, <1>5, <1>6, Puts, SMT DEF ImmJump, Sign
  <1> QED BY <1>7, <1>8, Zenon

LEMMA OfBranchIs ==
  ASSUME NEW c \in Nat
  PROVE  Architecture!SignedImm(HalfBit(c), <<12, 11, 10>> \o Architecture!Down(6, 2),
        <<8, 4, 3, 7, 6, 2, 1, 5>>)
           = ImmBranch(c)
  <1> DEFINE p == <<12, 11, 10, 6, 5, 4, 3, 2>>
             w == <<8, 4, 3, 7, 6, 2, 1, 5>>
  <1>1. HasTerms(HalfBit(c), p, w, 8)
    BY BitsOfHalf DEF HasTerms
  <1>2. /\ p[1] = 12 /\ p[2] = 11 /\ p[3] = 10 /\ p[4] = 6 /\ p[5] = 5 /\ p[6] = 4
        /\ p[7] = 3 /\ p[8] = 2
        /\ w[1] = 8 /\ w[2] = 4 /\ w[3] = 3 /\ w[4] = 7 /\ w[5] = 6 /\ w[6] = 2 /\ w[7] = 1
        /\ w[8] = 5
    OBVIOUS
  <1> HIDE DEF p, w
  <1>3. Architecture!Unsigned(HalfBit(c), p, w)
        = 256 * Bit(c, 12) + 16 * Bit(c, 11) + 8 * Bit(c, 10) + 128 * Bit(c, 6)
          + 64 * Bit(c, 5) + 4 * Bit(c, 4) + 2 * Bit(c, 3) + 32 * Bit(c, 2)
    <2>1. Architecture!Unsigned(HalfBit(c), p, w)
          = Term(HalfBit(c), 12, 8) + Term(HalfBit(c), 11, 4) + Term(HalfBit(c), 10, 3)
            + Term(HalfBit(c), 6, 7) + Term(HalfBit(c), 5, 6) + Term(HalfBit(c), 4, 2)
            + Term(HalfBit(c), 3, 1) + Term(HalfBit(c), 2, 5)
      BY <1>1, <1>2, Sum8, Zenon
    <2> QED BY <2>1, HalfTerms, SMT
  <1>4. /\ Cut(c, 3, 2) = 2 * Bit(c, 4) + Bit(c, 3)
        /\ Cut(c, 10, 2) = 2 * Bit(c, 11) + Bit(c, 10) /\ Cut(c, 2, 1) = Bit(c, 2)
        /\ Cut(c, 5, 2) = 2 * Bit(c, 6) + Bit(c, 5) /\ Cut(c, 12, 1) = Bit(c, 12)
    BY FieldBits
  <1>5. /\ Bit(c, 12) \in 0 .. 1 /\ Bit(c, 11) \in 0 .. 1 /\ Bit(c, 10) \in 0 .. 1
        /\ Bit(c, 6) \in 0 .. 1 /\ Bit(c, 5) \in 0 .. 1 /\ Bit(c, 4) \in 0 .. 1
        /\ Bit(c, 3) \in 0 .. 1 /\ Bit(c, 2) \in 0 .. 1
    BY BitsOfHalf
  <1>6. Architecture!SignedImm(HalfBit(c), p, w)
        = Architecture!Unsigned(HalfBit(c), p, w) - 512 * Bit(c, 12)
    BY <1>2, HalfTerms, SameWords, SMT DEF Architecture!SignedImm, Term
  <1>7. <<12, 11, 10>> \o Architecture!Down(6, 2) = p /\ <<8, 4, 3, 7, 6, 2, 1, 5>> = w
    BY BranchPlaces, Downs, Zenon DEF p, w
  <1>8. Architecture!SignedImm(HalfBit(c), p, w) = ImmBranch(c)
    BY <1>3, <1>4, <1>5, <1>6, Puts, SMT DEF ImmBranch, Sign
  <1> QED BY <1>7, <1>8, Zenon

-----------------------------------------------------------------------------
(* The fields and the immediates of a word.                                *)

\* What each bit of a word weighs.
LEMMA WordTerms ==
  ASSUME NEW a \in Nat, NEW b \in Nat
  PROVE  /\ \A i \in 0 .. 15 :
               /\ Term(WordBit(a, b), i, 0) = Bit(a, i)
               /\ Term(WordBit(a, b), i, 1) = 2 * Bit(a, i)
               /\ Term(WordBit(a, b), i, 2) = 4 * Bit(a, i)
               /\ Term(WordBit(a, b), i, 3) = 8 * Bit(a, i)
               /\ Term(WordBit(a, b), i, 4) = 16 * Bit(a, i)
               /\ Term(WordBit(a, b), i, 5) = 32 * Bit(a, i)
               /\ Term(WordBit(a, b), i, 6) = 64 * Bit(a, i)
               /\ Term(WordBit(a, b), i, 7) = 128 * Bit(a, i)
               /\ Term(WordBit(a, b), i, 8) = 256 * Bit(a, i)
               /\ Term(WordBit(a, b), i, 9) = 512 * Bit(a, i)
               /\ Term(WordBit(a, b), i, 10) = 1024 * Bit(a, i)
               /\ Term(WordBit(a, b), i, 11) = 2048 * Bit(a, i)
               /\ Term(WordBit(a, b), i, 12) = 4096 * Bit(a, i)
               /\ Term(WordBit(a, b), i, 13) = 8192 * Bit(a, i)
               /\ Term(WordBit(a, b), i, 14) = 16384 * Bit(a, i)
               /\ Term(WordBit(a, b), i, 15) = 32768 * Bit(a, i)
               /\ Term(WordBit(a, b), i, 16) = 65536 * Bit(a, i)
               /\ Term(WordBit(a, b), i, 17) = 131072 * Bit(a, i)
               /\ Term(WordBit(a, b), i, 18) = 262144 * Bit(a, i)
               /\ Term(WordBit(a, b), i, 19) = 524288 * Bit(a, i)
               /\ Term(WordBit(a, b), i, 20) = 1048576 * Bit(a, i)
         /\ \A i \in 16 .. 31 :
               /\ Term(WordBit(a, b), i, 0) = Bit(b, i - 16)
               /\ Term(WordBit(a, b), i, 1) = 2 * Bit(b, i - 16)
               /\ Term(WordBit(a, b), i, 2) = 4 * Bit(b, i - 16)
               /\ Term(WordBit(a, b), i, 3) = 8 * Bit(b, i - 16)
               /\ Term(WordBit(a, b), i, 4) = 16 * Bit(b, i - 16)
               /\ Term(WordBit(a, b), i, 5) = 32 * Bit(b, i - 16)
               /\ Term(WordBit(a, b), i, 6) = 64 * Bit(b, i - 16)
               /\ Term(WordBit(a, b), i, 7) = 128 * Bit(b, i - 16)
               /\ Term(WordBit(a, b), i, 8) = 256 * Bit(b, i - 16)
               /\ Term(WordBit(a, b), i, 9) = 512 * Bit(b, i - 16)
               /\ Term(WordBit(a, b), i, 10) = 1024 * Bit(b, i - 16)
               /\ Term(WordBit(a, b), i, 11) = 2048 * Bit(b, i - 16)
               /\ Term(WordBit(a, b), i, 12) = 4096 * Bit(b, i - 16)
               /\ Term(WordBit(a, b), i, 13) = 8192 * Bit(b, i - 16)
               /\ Term(WordBit(a, b), i, 14) = 16384 * Bit(b, i - 16)
               /\ Term(WordBit(a, b), i, 15) = 32768 * Bit(b, i - 16)
               /\ Term(WordBit(a, b), i, 16) = 65536 * Bit(b, i - 16)
               /\ Term(WordBit(a, b), i, 17) = 131072 * Bit(b, i - 16)
               /\ Term(WordBit(a, b), i, 18) = 262144 * Bit(b, i - 16)
               /\ Term(WordBit(a, b), i, 19) = 524288 * Bit(b, i - 16)
               /\ Term(WordBit(a, b), i, 20) = 1048576 * Bit(b, i - 16)
  <1>1. ASSUME NEW i \in 0 .. 15
        PROVE  /\ Term(WordBit(a, b), i, 0) = Bit(a, i)
               /\ Term(WordBit(a, b), i, 1) = 2 * Bit(a, i)
               /\ Term(WordBit(a, b), i, 2) = 4 * Bit(a, i)
               /\ Term(WordBit(a, b), i, 3) = 8 * Bit(a, i)
               /\ Term(WordBit(a, b), i, 4) = 16 * Bit(a, i)
               /\ Term(WordBit(a, b), i, 5) = 32 * Bit(a, i)
               /\ Term(WordBit(a, b), i, 6) = 64 * Bit(a, i)
               /\ Term(WordBit(a, b), i, 7) = 128 * Bit(a, i)
               /\ Term(WordBit(a, b), i, 8) = 256 * Bit(a, i)
               /\ Term(WordBit(a, b), i, 9) = 512 * Bit(a, i)
               /\ Term(WordBit(a, b), i, 10) = 1024 * Bit(a, i)
               /\ Term(WordBit(a, b), i, 11) = 2048 * Bit(a, i)
               /\ Term(WordBit(a, b), i, 12) = 4096 * Bit(a, i)
               /\ Term(WordBit(a, b), i, 13) = 8192 * Bit(a, i)
               /\ Term(WordBit(a, b), i, 14) = 16384 * Bit(a, i)
               /\ Term(WordBit(a, b), i, 15) = 32768 * Bit(a, i)
               /\ Term(WordBit(a, b), i, 16) = 65536 * Bit(a, i)
               /\ Term(WordBit(a, b), i, 17) = 131072 * Bit(a, i)
               /\ Term(WordBit(a, b), i, 18) = 262144 * Bit(a, i)
               /\ Term(WordBit(a, b), i, 19) = 524288 * Bit(a, i)
               /\ Term(WordBit(a, b), i, 20) = 1048576 * Bit(a, i)
    <2>1. WordBit(a, b)[i] = Bit(a, i) BY BitsOfWord32
    <2> QED BY <2>1, BitType, SmallPowers, LargePowers, SMT DEF Term
  <1>2. ASSUME NEW i \in 16 .. 31
        PROVE  /\ Term(WordBit(a, b), i, 0) = Bit(b, i - 16)
               /\ Term(WordBit(a, b), i, 1) = 2 * Bit(b, i - 16)
               /\ Term(WordBit(a, b), i, 2) = 4 * Bit(b, i - 16)
               /\ Term(WordBit(a, b), i, 3) = 8 * Bit(b, i - 16)
               /\ Term(WordBit(a, b), i, 4) = 16 * Bit(b, i - 16)
               /\ Term(WordBit(a, b), i, 5) = 32 * Bit(b, i - 16)
               /\ Term(WordBit(a, b), i, 6) = 64 * Bit(b, i - 16)
               /\ Term(WordBit(a, b), i, 7) = 128 * Bit(b, i - 16)
               /\ Term(WordBit(a, b), i, 8) = 256 * Bit(b, i - 16)
               /\ Term(WordBit(a, b), i, 9) = 512 * Bit(b, i - 16)
               /\ Term(WordBit(a, b), i, 10) = 1024 * Bit(b, i - 16)
               /\ Term(WordBit(a, b), i, 11) = 2048 * Bit(b, i - 16)
               /\ Term(WordBit(a, b), i, 12) = 4096 * Bit(b, i - 16)
               /\ Term(WordBit(a, b), i, 13) = 8192 * Bit(b, i - 16)
               /\ Term(WordBit(a, b), i, 14) = 16384 * Bit(b, i - 16)
               /\ Term(WordBit(a, b), i, 15) = 32768 * Bit(b, i - 16)
               /\ Term(WordBit(a, b), i, 16) = 65536 * Bit(b, i - 16)
               /\ Term(WordBit(a, b), i, 17) = 131072 * Bit(b, i - 16)
               /\ Term(WordBit(a, b), i, 18) = 262144 * Bit(b, i - 16)
               /\ Term(WordBit(a, b), i, 19) = 524288 * Bit(b, i - 16)
               /\ Term(WordBit(a, b), i, 20) = 1048576 * Bit(b, i - 16)
    <2>1. WordBit(a, b)[i] = Bit(b, i - 16) BY BitsOfWord32
    <2>2. i - 16 \in Nat OBVIOUS
    <2> QED BY <2>1, <2>2, BitType, SmallPowers, LargePowers, SMT DEF Term
  <1> QED BY <1>1, <1>2

\* A field of five or of seven bits, cut again.
LEMMA CutFields ==
  /\ \A v \in 0 .. 31 : Cut(v, 0, 1) = v % 2 /\ Cut(v, 1, 4) = v \div 2
  /\ \A v \in 0 .. 127 : Cut(v, 0, 6) = v % 64 /\ Cut(v, 6, 1) = v \div 64
BY SmallPowers, SMT DEF Cut

\* Fields and immediates in bits.
LEMMA CutFive ==
  ASSUME NEW e, NEW v4 \in 0 .. 1, NEW v3 \in 0 .. 1, NEW v2 \in 0 .. 1, NEW v1 \in 0 .. 1,
         NEW v0 \in 0 .. 1, e = 16 * v4 + 8 * v3 + 4 * v2 + 2 * v1 + v0
  PROVE  Cut(e, 0, 1) = v0 /\ Cut(e, 1, 4) = 8 * v4 + 4 * v3 + 2 * v2 + v1
  <1>1. PICK h \in 0 .. 15 : h = 8 * v4 + 4 * v3 + 2 * v2 + v1 OBVIOUS
  <1>2. e = 2 * h + v0 /\ e \in 0 .. 31 BY <1>1
  <1>3. e % 2 = v0 /\ e \div 2 = h BY <1>2
  <1> QED BY <1>1, <1>2, <1>3, CutFields

LEMMA CutSeven ==
  ASSUME NEW e, NEW v6 \in 0 .. 1, NEW v5 \in 0 .. 1, NEW v4 \in 0 .. 1, NEW v3 \in 0 .. 1,
         NEW v2 \in 0 .. 1, NEW v1 \in 0 .. 1, NEW v0 \in 0 .. 1,
         e = 64 * v6 + 32 * v5 + 16 * v4 + 8 * v3 + 4 * v2 + 2 * v1 + v0
  PROVE  /\ Cut(e, 0, 6) = 32 * v5 + 16 * v4 + 8 * v3 + 4 * v2 + 2 * v1 + v0
         /\ Cut(e, 6, 1) = v6
  <1>1. PICK h \in 0 .. 63 : h = 32 * v5 + 16 * v4 + 8 * v3 + 4 * v2 + 2 * v1 + v0 OBVIOUS
  <1>2. e = 64 * v6 + h /\ e \in 0 .. 127 BY <1>1
  <1>3. e % 64 = h /\ e \div 64 = v6 BY <1>2
  <1> QED BY <1>1, <1>2, <1>3, CutFields

LEMMA BitsRange ==
  ASSUME NEW a \in Nat, NEW b \in Nat
  PROVE  /\ Bit(a, 0) \in 0 .. 1 /\ Bit(a, 1) \in 0 .. 1 /\ Bit(a, 2) \in 0 .. 1
         /\ Bit(a, 3) \in 0 .. 1 /\ Bit(a, 4) \in 0 .. 1 /\ Bit(a, 5) \in 0 .. 1
         /\ Bit(a, 6) \in 0 .. 1 /\ Bit(a, 7) \in 0 .. 1 /\ Bit(a, 8) \in 0 .. 1
         /\ Bit(a, 9) \in 0 .. 1 /\ Bit(a, 10) \in 0 .. 1 /\ Bit(a, 11) \in 0 .. 1
         /\ Bit(a, 12) \in 0 .. 1 /\ Bit(a, 13) \in 0 .. 1 /\ Bit(a, 14) \in 0 .. 1
         /\ Bit(a, 15) \in 0 .. 1 /\ Bit(b, 0) \in 0 .. 1 /\ Bit(b, 1) \in 0 .. 1
         /\ Bit(b, 2) \in 0 .. 1 /\ Bit(b, 3) \in 0 .. 1 /\ Bit(b, 4) \in 0 .. 1
         /\ Bit(b, 5) \in 0 .. 1 /\ Bit(b, 6) \in 0 .. 1 /\ Bit(b, 7) \in 0 .. 1
         /\ Bit(b, 8) \in 0 .. 1 /\ Bit(b, 9) \in 0 .. 1 /\ Bit(b, 10) \in 0 .. 1
         /\ Bit(b, 11) \in 0 .. 1 /\ Bit(b, 12) \in 0 .. 1 /\ Bit(b, 13) \in 0 .. 1
         /\ Bit(b, 14) \in 0 .. 1 /\ Bit(b, 15) \in 0 .. 1
BY BitType

LEMMA FieldsAre ==
  ASSUME NEW a \in Nat, NEW b \in Nat
  PROVE  /\ Fields(a, b).op = 64 * Bit(a, 6) + 32 * Bit(a, 5) + 16 * Bit(a, 4) + 8 * Bit(a, 3)
             + 4 * Bit(a, 2) + 2 * Bit(a, 1) + Bit(a, 0)
         /\ Fields(a, b).rd = 16 * Bit(a, 11) + 8 * Bit(a, 10) + 4 * Bit(a, 9) + 2 * Bit(a, 8)
             + Bit(a, 7)
         /\ Fields(a, b).f3 = 4 * Bit(a, 14) + 2 * Bit(a, 13) + Bit(a, 12)
         /\ Fields(a, b).rs1 = 16 * Bit(b, 3) + 8 * Bit(b, 2) + 4 * Bit(b, 1) + 2 * Bit(b, 0)
            + Bit(a, 15)
         /\ Fields(a, b).rs2 = 16 * Bit(b, 8) + 8 * Bit(b, 7) + 4 * Bit(b, 6) + 2 * Bit(b, 5)
            + Bit(b, 4)
         /\ Fields(a, b).f7 = 64 * Bit(b, 15) + 32 * Bit(b, 14) + 16 * Bit(b, 13)
            + 8 * Bit(b, 12)
             + 4 * Bit(b, 11) + 2 * Bit(b, 10) + Bit(b, 9)
  <1>1. /\ Cut(a, 0, 7) = 64 * Bit(a, 6) + 32 * Bit(a, 5) + 16 * Bit(a, 4) + 8 * Bit(a, 3)
             + 4 * Bit(a, 2) + 2 * Bit(a, 1) + Bit(a, 0)
        /\ Cut(a, 7, 5) = 16 * Bit(a, 11) + 8 * Bit(a, 10) + 4 * Bit(a, 9) + 2 * Bit(a, 8)
             + Bit(a, 7)
        /\ Cut(a, 12, 3) = 4 * Bit(a, 14) + 2 * Bit(a, 13) + Bit(a, 12)
        /\ Cut(a, 15, 1) = Bit(a, 15)
        /\ Cut(b, 0, 4) = 8 * Bit(b, 3) + 4 * Bit(b, 2) + 2 * Bit(b, 1) + Bit(b, 0)
        /\ Cut(b, 4, 5) = 16 * Bit(b, 8) + 8 * Bit(b, 7) + 4 * Bit(b, 6) + 2 * Bit(b, 5)
           + Bit(b, 4)
        /\ Cut(b, 9, 7) = 64 * Bit(b, 15) + 32 * Bit(b, 14) + 16 * Bit(b, 13) + 8 * Bit(b, 12)
             + 4 * Bit(b, 11) + 2 * Bit(b, 10) + Bit(b, 9)
    BY FieldBits
  <1>2. Put(b, 0, 4, 1) = Cut(b, 0, 4) * 2 BY Puts
  <1>3. /\ Fields(a, b).op = Cut(a, 0, 7) /\ Fields(a, b).rd = Cut(a, 7, 5)
        /\ Fields(a, b).f3 = Cut(a, 12, 3)
        /\ Fields(a, b).rs1 = Cut(a, 15, 1) + Put(b, 0, 4, 1)
        /\ Fields(a, b).rs2 = Cut(b, 4, 5) /\ Fields(a, b).f7 = Cut(b, 9, 7)
    BY DEF Fields
  <1> QED BY <1>1, <1>2, <1>3, BitsRange, SMT

\* The value of an immediate of 12, 13, 20 or 21 bits, whose first is the sign.
LEMMA SignExtends ==
  /\ \A x \in Int : SignExtend(x, 12) = IF x < 2048 THEN x ELSE x - 4096
  /\ \A x \in Int : SignExtend(x, 13) = IF x < 4096 THEN x ELSE x - 8192
  /\ \A x \in Int : SignExtend(x, 20) = IF x < 524288 THEN x ELSE x - 1048576
  /\ \A x \in Int : SignExtend(x, 21) = IF x < 1048576 THEN x ELSE x - 2097152
  <1>1. /\ 12 - 1 = 11 /\ 13 - 1 = 12 /\ 20 - 1 = 19 /\ 21 - 1 = 20 OBVIOUS
  <1> QED BY <1>1, SmallPowers, SMT DEF SignExtend

\* The fields of a word are those of Isa.
LEMMA WordOp ==
  ASSUME NEW a \in Nat, NEW b \in Nat
  PROVE  Architecture!Unsigned(WordBit(a, b),
             Architecture!Down(6, 0),
             Architecture!Down(6, 0))
           = Fields(a, b).op
  <1> DEFINE p == <<6, 5, 4, 3, 2, 1, 0>>
             w == <<6, 5, 4, 3, 2, 1, 0>>
  <1>1. HasTerms(WordBit(a, b), p, w, 7)
    BY BitsOfWord32 DEF HasTerms
  <1>2. /\ p[1] = 6 /\ p[2] = 5 /\ p[3] = 4 /\ p[4] = 3 /\ p[5] = 2 /\ p[6] = 1 /\ p[7] = 0
        /\ w[1] = 6 /\ w[2] = 5 /\ w[3] = 4 /\ w[4] = 3 /\ w[5] = 2 /\ w[6] = 1 /\ w[7] = 0
    OBVIOUS
  <1> HIDE DEF p, w
  <1>3. Architecture!Unsigned(WordBit(a, b), p, w)
        = 64 * Bit(a, 6) + 32 * Bit(a, 5) + 16 * Bit(a, 4) + 8 * Bit(a, 3) + 4 * Bit(a, 2)
          + 2 * Bit(a, 1) + Bit(a, 0)
    <2>1. Architecture!Unsigned(WordBit(a, b), p, w)
          = Term(WordBit(a, b), 6, 6) + Term(WordBit(a, b), 5, 5)
            + Term(WordBit(a, b), 4, 4) + Term(WordBit(a, b), 3, 3)
            + Term(WordBit(a, b), 2, 2) + Term(WordBit(a, b), 1, 1)
            + Term(WordBit(a, b), 0, 0)
      BY <1>1, <1>2, Sum7, Zenon
    <2>2. /\ Term(WordBit(a, b), 6, 6) = 64 * Bit(a, 6)
          /\ Term(WordBit(a, b), 5, 5) = 32 * Bit(a, 5)
          /\ Term(WordBit(a, b), 4, 4) = 16 * Bit(a, 4)
          /\ Term(WordBit(a, b), 3, 3) = 8 * Bit(a, 3)
          /\ Term(WordBit(a, b), 2, 2) = 4 * Bit(a, 2)
          /\ Term(WordBit(a, b), 1, 1) = 2 * Bit(a, 1)
          /\ Term(WordBit(a, b), 0, 0) = Bit(a, 0)
      BY WordTerms, SMT
    <2> QED BY <2>1, <2>2, SMT
  <1>5. Architecture!Down(6, 0) = p
    BY Downs, Zenon DEF p
  <1>6. Architecture!Down(6, 0) = w
    BY Downs, Zenon DEF w
  <1>7. Architecture!Unsigned(WordBit(a, b), p, w) = Fields(a, b).op
    BY <1>3, FieldsAre, SMT
  <1> QED BY <1>5, <1>6, <1>7, Zenon

LEMMA WordRd ==
  ASSUME NEW a \in Nat, NEW b \in Nat
  PROVE  Architecture!Unsigned(WordBit(a, b),
             Architecture!Down(11, 7),
             Architecture!Down(4, 0))
           = Fields(a, b).rd
  <1> DEFINE p == <<11, 10, 9, 8, 7>>
             w == <<4, 3, 2, 1, 0>>
  <1>1. HasTerms(WordBit(a, b), p, w, 5)
    BY BitsOfWord32 DEF HasTerms
  <1>2. /\ p[1] = 11 /\ p[2] = 10 /\ p[3] = 9 /\ p[4] = 8 /\ p[5] = 7
        /\ w[1] = 4 /\ w[2] = 3 /\ w[3] = 2 /\ w[4] = 1 /\ w[5] = 0
    OBVIOUS
  <1> HIDE DEF p, w
  <1>3. Architecture!Unsigned(WordBit(a, b), p, w)
        = 16 * Bit(a, 11) + 8 * Bit(a, 10) + 4 * Bit(a, 9) + 2 * Bit(a, 8) + Bit(a, 7)
    <2>1. Architecture!Unsigned(WordBit(a, b), p, w)
          = Term(WordBit(a, b), 11, 4) + Term(WordBit(a, b), 10, 3)
            + Term(WordBit(a, b), 9, 2) + Term(WordBit(a, b), 8, 1)
            + Term(WordBit(a, b), 7, 0)
      BY <1>1, <1>2, Sum5, Zenon
    <2>2. /\ Term(WordBit(a, b), 11, 4) = 16 * Bit(a, 11)
          /\ Term(WordBit(a, b), 10, 3) = 8 * Bit(a, 10)
          /\ Term(WordBit(a, b), 9, 2) = 4 * Bit(a, 9)
          /\ Term(WordBit(a, b), 8, 1) = 2 * Bit(a, 8)
          /\ Term(WordBit(a, b), 7, 0) = Bit(a, 7)
      BY WordTerms, SMT
    <2> QED BY <2>1, <2>2, SMT
  <1>5. Architecture!Down(11, 7) = p
    BY Downs, Zenon DEF p
  <1>6. Architecture!Down(4, 0) = w
    BY Downs, Zenon DEF w
  <1>7. Architecture!Unsigned(WordBit(a, b), p, w) = Fields(a, b).rd
    BY <1>3, FieldsAre, SMT
  <1> QED BY <1>5, <1>6, <1>7, Zenon

LEMMA WordF3 ==
  ASSUME NEW a \in Nat, NEW b \in Nat
  PROVE  Architecture!Unsigned(WordBit(a, b),
             Architecture!Down(14, 12),
             Architecture!Down(2, 0))
           = Fields(a, b).f3
  <1> DEFINE p == <<14, 13, 12>>
             w == <<2, 1, 0>>
  <1>1. HasTerms(WordBit(a, b), p, w, 3)
    BY BitsOfWord32 DEF HasTerms
  <1>2. /\ p[1] = 14 /\ p[2] = 13 /\ p[3] = 12
        /\ w[1] = 2 /\ w[2] = 1 /\ w[3] = 0
    OBVIOUS
  <1> HIDE DEF p, w
  <1>3. Architecture!Unsigned(WordBit(a, b), p, w)
        = 4 * Bit(a, 14) + 2 * Bit(a, 13) + Bit(a, 12)
    <2>1. Architecture!Unsigned(WordBit(a, b), p, w)
          = Term(WordBit(a, b), 14, 2) + Term(WordBit(a, b), 13, 1)
            + Term(WordBit(a, b), 12, 0)
      BY <1>1, <1>2, Sum3, Zenon
    <2>2. /\ Term(WordBit(a, b), 14, 2) = 4 * Bit(a, 14)
          /\ Term(WordBit(a, b), 13, 1) = 2 * Bit(a, 13)
          /\ Term(WordBit(a, b), 12, 0) = Bit(a, 12)
      BY WordTerms, SMT
    <2> QED BY <2>1, <2>2, SMT
  <1>5. Architecture!Down(14, 12) = p
    BY Downs, Zenon DEF p
  <1>6. Architecture!Down(2, 0) = w
    BY Downs, Zenon DEF w
  <1>7. Architecture!Unsigned(WordBit(a, b), p, w) = Fields(a, b).f3
    BY <1>3, FieldsAre, SMT
  <1> QED BY <1>5, <1>6, <1>7, Zenon

LEMMA WordRs1 ==
  ASSUME NEW a \in Nat, NEW b \in Nat
  PROVE  Architecture!Unsigned(WordBit(a, b),
             Architecture!Down(19, 15),
             Architecture!Down(4, 0))
           = Fields(a, b).rs1
  <1> DEFINE p == <<19, 18, 17, 16, 15>>
             w == <<4, 3, 2, 1, 0>>
  <1>1. HasTerms(WordBit(a, b), p, w, 5)
    BY BitsOfWord32 DEF HasTerms
  <1>2. /\ p[1] = 19 /\ p[2] = 18 /\ p[3] = 17 /\ p[4] = 16 /\ p[5] = 15
        /\ w[1] = 4 /\ w[2] = 3 /\ w[3] = 2 /\ w[4] = 1 /\ w[5] = 0
    OBVIOUS
  <1> HIDE DEF p, w
  <1>3. Architecture!Unsigned(WordBit(a, b), p, w)
        = 16 * Bit(b, 3) + 8 * Bit(b, 2) + 4 * Bit(b, 1) + 2 * Bit(b, 0) + Bit(a, 15)
    <2>1. Architecture!Unsigned(WordBit(a, b), p, w)
          = Term(WordBit(a, b), 19, 4) + Term(WordBit(a, b), 18, 3)
            + Term(WordBit(a, b), 17, 2) + Term(WordBit(a, b), 16, 1)
            + Term(WordBit(a, b), 15, 0)
      BY <1>1, <1>2, Sum5, Zenon
    <2>2. /\ Term(WordBit(a, b), 19, 4) = 16 * Bit(b, 3)
          /\ Term(WordBit(a, b), 18, 3) = 8 * Bit(b, 2)
          /\ Term(WordBit(a, b), 17, 2) = 4 * Bit(b, 1)
          /\ Term(WordBit(a, b), 16, 1) = 2 * Bit(b, 0)
          /\ Term(WordBit(a, b), 15, 0) = Bit(a, 15)
      BY WordTerms, SMT
    <2> QED BY <2>1, <2>2, SMT
  <1>5. Architecture!Down(19, 15) = p
    BY Downs, Zenon DEF p
  <1>6. Architecture!Down(4, 0) = w
    BY Downs, Zenon DEF w
  <1>7. Architecture!Unsigned(WordBit(a, b), p, w) = Fields(a, b).rs1
    BY <1>3, FieldsAre, SMT
  <1> QED BY <1>5, <1>6, <1>7, Zenon

LEMMA WordRs2 ==
  ASSUME NEW a \in Nat, NEW b \in Nat
  PROVE  Architecture!Unsigned(WordBit(a, b),
             Architecture!Down(24, 20),
             Architecture!Down(4, 0))
           = Fields(a, b).rs2
  <1> DEFINE p == <<24, 23, 22, 21, 20>>
             w == <<4, 3, 2, 1, 0>>
  <1>1. HasTerms(WordBit(a, b), p, w, 5)
    BY BitsOfWord32 DEF HasTerms
  <1>2. /\ p[1] = 24 /\ p[2] = 23 /\ p[3] = 22 /\ p[4] = 21 /\ p[5] = 20
        /\ w[1] = 4 /\ w[2] = 3 /\ w[3] = 2 /\ w[4] = 1 /\ w[5] = 0
    OBVIOUS
  <1> HIDE DEF p, w
  <1>3. Architecture!Unsigned(WordBit(a, b), p, w)
        = 16 * Bit(b, 8) + 8 * Bit(b, 7) + 4 * Bit(b, 6) + 2 * Bit(b, 5) + Bit(b, 4)
    <2>1. Architecture!Unsigned(WordBit(a, b), p, w)
          = Term(WordBit(a, b), 24, 4) + Term(WordBit(a, b), 23, 3)
            + Term(WordBit(a, b), 22, 2) + Term(WordBit(a, b), 21, 1)
            + Term(WordBit(a, b), 20, 0)
      BY <1>1, <1>2, Sum5, Zenon
    <2>2. /\ Term(WordBit(a, b), 24, 4) = 16 * Bit(b, 8)
          /\ Term(WordBit(a, b), 23, 3) = 8 * Bit(b, 7)
          /\ Term(WordBit(a, b), 22, 2) = 4 * Bit(b, 6)
          /\ Term(WordBit(a, b), 21, 1) = 2 * Bit(b, 5)
          /\ Term(WordBit(a, b), 20, 0) = Bit(b, 4)
      BY WordTerms, SMT
    <2> QED BY <2>1, <2>2, SMT
  <1>5. Architecture!Down(24, 20) = p
    BY Downs, Zenon DEF p
  <1>6. Architecture!Down(4, 0) = w
    BY Downs, Zenon DEF w
  <1>7. Architecture!Unsigned(WordBit(a, b), p, w) = Fields(a, b).rs2
    BY <1>3, FieldsAre, SMT
  <1> QED BY <1>5, <1>6, <1>7, Zenon

LEMMA WordF7 ==
  ASSUME NEW a \in Nat, NEW b \in Nat
  PROVE  Architecture!Unsigned(WordBit(a, b),
             Architecture!Down(31, 25),
             Architecture!Down(6, 0))
           = Fields(a, b).f7
  <1> DEFINE p == <<31, 30, 29, 28, 27, 26, 25>>
             w == <<6, 5, 4, 3, 2, 1, 0>>
  <1>1. HasTerms(WordBit(a, b), p, w, 7)
    BY BitsOfWord32 DEF HasTerms
  <1>2. /\ p[1] = 31 /\ p[2] = 30 /\ p[3] = 29 /\ p[4] = 28 /\ p[5] = 27 /\ p[6] = 26
        /\ p[7] = 25
        /\ w[1] = 6 /\ w[2] = 5 /\ w[3] = 4 /\ w[4] = 3 /\ w[5] = 2 /\ w[6] = 1 /\ w[7] = 0
    OBVIOUS
  <1> HIDE DEF p, w
  <1>3. Architecture!Unsigned(WordBit(a, b), p, w)
        = 64 * Bit(b, 15) + 32 * Bit(b, 14) + 16 * Bit(b, 13) + 8 * Bit(b, 12)
          + 4 * Bit(b, 11) + 2 * Bit(b, 10) + Bit(b, 9)
    <2>1. Architecture!Unsigned(WordBit(a, b), p, w)
          = Term(WordBit(a, b), 31, 6) + Term(WordBit(a, b), 30, 5)
            + Term(WordBit(a, b), 29, 4) + Term(WordBit(a, b), 28, 3)
            + Term(WordBit(a, b), 27, 2) + Term(WordBit(a, b), 26, 1)
            + Term(WordBit(a, b), 25, 0)
      BY <1>1, <1>2, Sum7, Zenon
    <2>2. /\ Term(WordBit(a, b), 31, 6) = 64 * Bit(b, 15)
          /\ Term(WordBit(a, b), 30, 5) = 32 * Bit(b, 14)
          /\ Term(WordBit(a, b), 29, 4) = 16 * Bit(b, 13)
          /\ Term(WordBit(a, b), 28, 3) = 8 * Bit(b, 12)
          /\ Term(WordBit(a, b), 27, 2) = 4 * Bit(b, 11)
          /\ Term(WordBit(a, b), 26, 1) = 2 * Bit(b, 10)
          /\ Term(WordBit(a, b), 25, 0) = Bit(b, 9)
      BY WordTerms, SMT
    <2> QED BY <2>1, <2>2, SMT
  <1>5. Architecture!Down(31, 25) = p
    BY Downs, Zenon DEF p
  <1>6. Architecture!Down(6, 0) = w
    BY Downs, Zenon DEF w
  <1>7. Architecture!Unsigned(WordBit(a, b), p, w) = Fields(a, b).f7
    BY <1>3, FieldsAre, SMT
  <1> QED BY <1>5, <1>6, <1>7, Zenon

LEMMA WordShift ==
  ASSUME NEW a \in Nat, NEW b \in Nat
  PROVE  Architecture!Unsigned(WordBit(a, b),
             Architecture!Down(25, 20),
             Architecture!Down(5, 0))
           = DecodeI(Fields(a, b)) % 64
  <1> DEFINE p == <<25, 24, 23, 22, 21, 20>>
             w == <<5, 4, 3, 2, 1, 0>>
  <1>1. HasTerms(WordBit(a, b), p, w, 6)
    BY BitsOfWord32 DEF HasTerms
  <1>2. /\ p[1] = 25 /\ p[2] = 24 /\ p[3] = 23 /\ p[4] = 22 /\ p[5] = 21 /\ p[6] = 20
        /\ w[1] = 5 /\ w[2] = 4 /\ w[3] = 3 /\ w[4] = 2 /\ w[5] = 1 /\ w[6] = 0
    OBVIOUS
  <1> HIDE DEF p, w
  <1>3. Architecture!Unsigned(WordBit(a, b), p, w)
        = 32 * Bit(b, 9) + 16 * Bit(b, 8) + 8 * Bit(b, 7) + 4 * Bit(b, 6) + 2 * Bit(b, 5)
          + Bit(b, 4)
    <2>1. Architecture!Unsigned(WordBit(a, b), p, w)
          = Term(WordBit(a, b), 25, 5) + Term(WordBit(a, b), 24, 4)
            + Term(WordBit(a, b), 23, 3) + Term(WordBit(a, b), 22, 2)
            + Term(WordBit(a, b), 21, 1) + Term(WordBit(a, b), 20, 0)
      BY <1>1, <1>2, Sum6, Zenon
    <2>2. /\ Term(WordBit(a, b), 25, 5) = 32 * Bit(b, 9)
          /\ Term(WordBit(a, b), 24, 4) = 16 * Bit(b, 8)
          /\ Term(WordBit(a, b), 23, 3) = 8 * Bit(b, 7)
          /\ Term(WordBit(a, b), 22, 2) = 4 * Bit(b, 6)
          /\ Term(WordBit(a, b), 21, 1) = 2 * Bit(b, 5)
          /\ Term(WordBit(a, b), 20, 0) = Bit(b, 4)
      BY WordTerms, SMT
    <2> QED BY <2>1, <2>2, SMT
  <1>5. Architecture!Down(25, 20) = p
    BY Downs, Zenon DEF p
  <1>6. Architecture!Down(5, 0) = w
    BY Downs, Zenon DEF w
  <1>7. Architecture!Unsigned(WordBit(a, b), p, w) = DecodeI(Fields(a, b)) % 64
    <2> DEFINE F == Fields(a, b)
    <2>1. /\ F.f7 = 64 * Bit(b, 15) + 32 * Bit(b, 14) + 16 * Bit(b, 13) + 8 * Bit(b, 12)
               + 4 * Bit(b, 11) + 2 * Bit(b, 10) + Bit(b, 9)
          /\ F.rs2 = 16 * Bit(b, 8) + 8 * Bit(b, 7) + 4 * Bit(b, 6) + 2 * Bit(b, 5)
               + Bit(b, 4)
      BY FieldsAre
    <2>2. /\ Bit(b, 4) \in 0 .. 1 /\ Bit(b, 5) \in 0 .. 1 /\ Bit(b, 6) \in 0 .. 1
          /\ Bit(b, 7) \in 0 .. 1 /\ Bit(b, 8) \in 0 .. 1 /\ Bit(b, 9) \in 0 .. 1
          /\ Bit(b, 10) \in 0 .. 1 /\ Bit(b, 11) \in 0 .. 1 /\ Bit(b, 12) \in 0 .. 1
          /\ Bit(b, 13) \in 0 .. 1 /\ Bit(b, 14) \in 0 .. 1 /\ Bit(b, 15) \in 0 .. 1
      BY BitsRange
    <2> HIDE DEF F
    <2>5. F.f7 * 32 + F.rs2
          = 2048 * Bit(b, 15) + 1024 * Bit(b, 14) + 512 * Bit(b, 13) + 256 * Bit(b, 12)
            + 128 * Bit(b, 11) + 64 * Bit(b, 10) + 32 * Bit(b, 9) + 16 * Bit(b, 8)
            + 8 * Bit(b, 7) + 4 * Bit(b, 6) + 2 * Bit(b, 5) + Bit(b, 4)
      BY <2>1, <2>2, SMT
    <2>6. PICK x \in Int : x = 2048 * Bit(b, 15) + 1024 * Bit(b, 14) + 512 * Bit(b, 13)
          + 256 * Bit(b, 12)
            + 128 * Bit(b, 11) + 64 * Bit(b, 10) + 32 * Bit(b, 9) + 16 * Bit(b, 8)
            + 8 * Bit(b, 7) + 4 * Bit(b, 6) + 2 * Bit(b, 5) + Bit(b, 4)
      BY <2>2, SMT
    <2>7. DecodeI(F) = (IF x < 2048 THEN x ELSE x - 4096)
      BY <2>5, <2>6, SignExtends, SMT DEF DecodeI
    <2>8. PICK h \in 0 .. 63 : h = 32 * Bit(b, 15) + 16 * Bit(b, 14) + 8 * Bit(b, 13)
          + 4 * Bit(b, 12)
            + 2 * Bit(b, 11) + Bit(b, 10)
      BY <2>2, SMT
    <2>9. PICK y \in 0 .. 63 : y = Architecture!Unsigned(WordBit(a, b), p, w)
      BY <1>3, <2>2, SMT
    <2>10. x = 64 * h + y
      <3>1. 64 * h = 2048 * Bit(b, 15) + 1024 * Bit(b, 14) + 512 * Bit(b, 13)
              + 256 * Bit(b, 12) + 128 * Bit(b, 11) + 64 * Bit(b, 10)
        BY <2>2, <2>8, SMT
      <3>2. PICK u \in Int : u = 2048 * Bit(b, 15) + 1024 * Bit(b, 14) + 512 * Bit(b, 13)
              + 256 * Bit(b, 12) + 128 * Bit(b, 11) + 64 * Bit(b, 10)
        BY <2>2, SMT
      <3>3. x = u + y BY <1>3, <2>2, <2>6, <2>9, <3>2, SMT
      <3> QED BY <3>1, <3>2, <3>3, SMT
    <2>11. x % 64 = y /\ (x - 4096) % 64 = y
      <3>1. x - 4096 = 64 * (h - 64) + y /\ h - 64 \in Int BY <2>10
      <3> QED BY <2>10, <3>1, OneQuotient, SMT
    <2> QED BY <2>7, <2>9, <2>10, <2>11, SMT DEF F
  <1> QED BY <1>5, <1>6, <1>7, Zenon

\* And so are its immediates, format by format.
LEMMA WordImmI ==
  ASSUME NEW a \in Nat, NEW b \in Nat
  PROVE  Architecture!SignedImm(WordBit(a, b),
             Architecture!Down(31, 20),
             Architecture!Down(11, 0))
           = DecodeI(Fields(a, b))
  <1> DEFINE p == <<31, 30, 29, 28, 27, 26, 25, 24, 23, 22, 21, 20>>
             w == <<11, 10, 9, 8, 7, 6, 5, 4, 3, 2, 1, 0>>
  <1>1. HasTerms(WordBit(a, b), p, w, 12)
    BY BitsOfWord32 DEF HasTerms
  <1>2. /\ p[1] = 31 /\ p[2] = 30 /\ p[3] = 29 /\ p[4] = 28 /\ p[5] = 27 /\ p[6] = 26
        /\ p[7] = 25 /\ p[8] = 24 /\ p[9] = 23 /\ p[10] = 22 /\ p[11] = 21 /\ p[12] = 20
        /\ w[1] = 11 /\ w[2] = 10 /\ w[3] = 9 /\ w[4] = 8 /\ w[5] = 7 /\ w[6] = 6
        /\ w[7] = 5 /\ w[8] = 4 /\ w[9] = 3 /\ w[10] = 2 /\ w[11] = 1 /\ w[12] = 0
    OBVIOUS
  <1> HIDE DEF p, w
  <1>3. Architecture!Unsigned(WordBit(a, b), p, w)
        = 2048 * Bit(b, 15) + 1024 * Bit(b, 14) + 512 * Bit(b, 13) + 256 * Bit(b, 12)
          + 128 * Bit(b, 11) + 64 * Bit(b, 10) + 32 * Bit(b, 9) + 16 * Bit(b, 8)
          + 8 * Bit(b, 7) + 4 * Bit(b, 6) + 2 * Bit(b, 5) + Bit(b, 4)
    <2>1. Architecture!Unsigned(WordBit(a, b), p, w)
          = Term(WordBit(a, b), 31, 11) + Term(WordBit(a, b), 30, 10)
            + Term(WordBit(a, b), 29, 9) + Term(WordBit(a, b), 28, 8)
            + Term(WordBit(a, b), 27, 7) + Term(WordBit(a, b), 26, 6)
            + Term(WordBit(a, b), 25, 5) + Term(WordBit(a, b), 24, 4)
            + Term(WordBit(a, b), 23, 3) + Term(WordBit(a, b), 22, 2)
            + Term(WordBit(a, b), 21, 1) + Term(WordBit(a, b), 20, 0)
      BY <1>1, <1>2, Sum12, Zenon
    <2>2. /\ Term(WordBit(a, b), 31, 11) = 2048 * Bit(b, 15)
          /\ Term(WordBit(a, b), 30, 10) = 1024 * Bit(b, 14)
          /\ Term(WordBit(a, b), 29, 9) = 512 * Bit(b, 13)
          /\ Term(WordBit(a, b), 28, 8) = 256 * Bit(b, 12)
          /\ Term(WordBit(a, b), 27, 7) = 128 * Bit(b, 11)
          /\ Term(WordBit(a, b), 26, 6) = 64 * Bit(b, 10)
          /\ Term(WordBit(a, b), 25, 5) = 32 * Bit(b, 9)
          /\ Term(WordBit(a, b), 24, 4) = 16 * Bit(b, 8)
          /\ Term(WordBit(a, b), 23, 3) = 8 * Bit(b, 7)
          /\ Term(WordBit(a, b), 22, 2) = 4 * Bit(b, 6)
          /\ Term(WordBit(a, b), 21, 1) = 2 * Bit(b, 5)
          /\ Term(WordBit(a, b), 20, 0) = Bit(b, 4)
      BY WordTerms, SMT
    <2> QED BY <2>1, <2>2, SMT
  <1>4. Architecture!SignedImm(WordBit(a, b), p, w)
        = Architecture!Unsigned(WordBit(a, b), p, w) - 4096 * Bit(b, 15)
    <2>1. Architecture!SignedImm(WordBit(a, b), p, w)
          = Architecture!Unsigned(WordBit(a, b), p, w) - WordBit(a, b)[31] * Pow2[11 + 1]
      BY <1>2, SameWords, Zenon DEF Architecture!SignedImm
    <2>2. Term(WordBit(a, b), 31, 12) = 4096 * Bit(b, 15) BY WordTerms, SMT
    <2>3. 11 + 1 = 12 OBVIOUS
    <2> QED BY <2>1, <2>2, <2>3, SMT DEF Term
  <1>5. Architecture!Down(31, 20) = p
    BY Downs, Zenon DEF p
  <1>6. Architecture!Down(11, 0) = w
    BY Downs, Zenon DEF w
  <1>7. Architecture!SignedImm(WordBit(a, b), p, w) = DecodeI(Fields(a, b))
    <2> DEFINE F == Fields(a, b)
    <2>1. /\ F.f7 = 64 * Bit(b, 15) + 32 * Bit(b, 14) + 16 * Bit(b, 13) + 8 * Bit(b, 12)
               + 4 * Bit(b, 11) + 2 * Bit(b, 10) + Bit(b, 9)
          /\ F.rs2 = 16 * Bit(b, 8) + 8 * Bit(b, 7) + 4 * Bit(b, 6) + 2 * Bit(b, 5)
               + Bit(b, 4)
      BY FieldsAre
    <2>2. /\ Bit(b, 4) \in 0 .. 1 /\ Bit(b, 5) \in 0 .. 1 /\ Bit(b, 6) \in 0 .. 1
          /\ Bit(b, 7) \in 0 .. 1 /\ Bit(b, 8) \in 0 .. 1 /\ Bit(b, 9) \in 0 .. 1
          /\ Bit(b, 10) \in 0 .. 1 /\ Bit(b, 11) \in 0 .. 1 /\ Bit(b, 12) \in 0 .. 1
          /\ Bit(b, 13) \in 0 .. 1 /\ Bit(b, 14) \in 0 .. 1 /\ Bit(b, 15) \in 0 .. 1
      BY BitsRange
    <2> HIDE DEF F
    <2>5. F.f7 * 32 + F.rs2
          = 2048 * Bit(b, 15) + 1024 * Bit(b, 14) + 512 * Bit(b, 13) + 256 * Bit(b, 12)
            + 128 * Bit(b, 11) + 64 * Bit(b, 10) + 32 * Bit(b, 9) + 16 * Bit(b, 8)
            + 8 * Bit(b, 7) + 4 * Bit(b, 6) + 2 * Bit(b, 5) + Bit(b, 4)
      BY <2>1, <2>2, SMT
    <2>6. PICK x \in Int : x = 2048 * Bit(b, 15) + 1024 * Bit(b, 14) + 512 * Bit(b, 13)
          + 256 * Bit(b, 12)
            + 128 * Bit(b, 11) + 64 * Bit(b, 10) + 32 * Bit(b, 9) + 16 * Bit(b, 8)
            + 8 * Bit(b, 7) + 4 * Bit(b, 6) + 2 * Bit(b, 5) + Bit(b, 4)
      BY <2>2, SMT
    <2>7. DecodeI(F) = (IF x < 2048 THEN x ELSE x - 4096)
      BY <2>5, <2>6, SignExtends, SMT DEF DecodeI
    <2>8. Architecture!SignedImm(WordBit(a, b), p, w) = IF x < 2048 THEN x ELSE x - 4096
      BY <1>3, <1>4, <2>2, <2>6, SMT
    <2> QED BY <2>7, <2>8, SMT DEF F
  <1> QED BY <1>5, <1>6, <1>7, Zenon

LEMMA WordImmS ==
  ASSUME NEW a \in Nat, NEW b \in Nat
  PROVE  Architecture!SignedImm(WordBit(a, b),
             Architecture!Down(31, 25) \o Architecture!Down(11, 7),
             Architecture!Down(11, 0))
           = DecodeS(Fields(a, b))
  <1> DEFINE p == <<31, 30, 29, 28, 27, 26, 25, 11, 10, 9, 8, 7>>
             w == <<11, 10, 9, 8, 7, 6, 5, 4, 3, 2, 1, 0>>
  <1>1. HasTerms(WordBit(a, b), p, w, 12)
    BY BitsOfWord32 DEF HasTerms
  <1>2. /\ p[1] = 31 /\ p[2] = 30 /\ p[3] = 29 /\ p[4] = 28 /\ p[5] = 27 /\ p[6] = 26
        /\ p[7] = 25 /\ p[8] = 11 /\ p[9] = 10 /\ p[10] = 9 /\ p[11] = 8 /\ p[12] = 7
        /\ w[1] = 11 /\ w[2] = 10 /\ w[3] = 9 /\ w[4] = 8 /\ w[5] = 7 /\ w[6] = 6
        /\ w[7] = 5 /\ w[8] = 4 /\ w[9] = 3 /\ w[10] = 2 /\ w[11] = 1 /\ w[12] = 0
    OBVIOUS
  <1> HIDE DEF p, w
  <1>3. Architecture!Unsigned(WordBit(a, b), p, w)
        = 2048 * Bit(b, 15) + 1024 * Bit(b, 14) + 512 * Bit(b, 13) + 256 * Bit(b, 12)
          + 128 * Bit(b, 11) + 64 * Bit(b, 10) + 32 * Bit(b, 9) + 16 * Bit(a, 11)
          + 8 * Bit(a, 10) + 4 * Bit(a, 9) + 2 * Bit(a, 8) + Bit(a, 7)
    <2>1. Architecture!Unsigned(WordBit(a, b), p, w)
          = Term(WordBit(a, b), 31, 11) + Term(WordBit(a, b), 30, 10)
            + Term(WordBit(a, b), 29, 9) + Term(WordBit(a, b), 28, 8)
            + Term(WordBit(a, b), 27, 7) + Term(WordBit(a, b), 26, 6)
            + Term(WordBit(a, b), 25, 5) + Term(WordBit(a, b), 11, 4)
            + Term(WordBit(a, b), 10, 3) + Term(WordBit(a, b), 9, 2)
            + Term(WordBit(a, b), 8, 1) + Term(WordBit(a, b), 7, 0)
      BY <1>1, <1>2, Sum12, Zenon
    <2>2. /\ Term(WordBit(a, b), 31, 11) = 2048 * Bit(b, 15)
          /\ Term(WordBit(a, b), 30, 10) = 1024 * Bit(b, 14)
          /\ Term(WordBit(a, b), 29, 9) = 512 * Bit(b, 13)
          /\ Term(WordBit(a, b), 28, 8) = 256 * Bit(b, 12)
          /\ Term(WordBit(a, b), 27, 7) = 128 * Bit(b, 11)
          /\ Term(WordBit(a, b), 26, 6) = 64 * Bit(b, 10)
          /\ Term(WordBit(a, b), 25, 5) = 32 * Bit(b, 9)
          /\ Term(WordBit(a, b), 11, 4) = 16 * Bit(a, 11)
          /\ Term(WordBit(a, b), 10, 3) = 8 * Bit(a, 10)
          /\ Term(WordBit(a, b), 9, 2) = 4 * Bit(a, 9)
          /\ Term(WordBit(a, b), 8, 1) = 2 * Bit(a, 8)
          /\ Term(WordBit(a, b), 7, 0) = Bit(a, 7)
      BY WordTerms, SMT
    <2> QED BY <2>1, <2>2, SMT
  <1>4. Architecture!SignedImm(WordBit(a, b), p, w)
        = Architecture!Unsigned(WordBit(a, b), p, w) - 4096 * Bit(b, 15)
    <2>1. Architecture!SignedImm(WordBit(a, b), p, w)
          = Architecture!Unsigned(WordBit(a, b), p, w) - WordBit(a, b)[31] * Pow2[11 + 1]
      BY <1>2, SameWords, Zenon DEF Architecture!SignedImm
    <2>2. Term(WordBit(a, b), 31, 12) = 4096 * Bit(b, 15) BY WordTerms, SMT
    <2>3. 11 + 1 = 12 OBVIOUS
    <2> QED BY <2>1, <2>2, <2>3, SMT DEF Term
  <1>5. Architecture!Down(31, 25) \o Architecture!Down(11, 7) = p
    BY Downs, StorePlaces, Zenon DEF p
  <1>6. Architecture!Down(11, 0) = w
    BY Downs, StorePlaces, Zenon DEF w
  <1>7. Architecture!SignedImm(WordBit(a, b), p, w) = DecodeS(Fields(a, b))
    <2> DEFINE F == Fields(a, b)
    <2>1. /\ F.f7 = 64 * Bit(b, 15) + 32 * Bit(b, 14) + 16 * Bit(b, 13) + 8 * Bit(b, 12)
               + 4 * Bit(b, 11) + 2 * Bit(b, 10) + Bit(b, 9)
          /\ F.rd = 16 * Bit(a, 11) + 8 * Bit(a, 10) + 4 * Bit(a, 9) + 2 * Bit(a, 8)
               + Bit(a, 7)
      BY FieldsAre
    <2>2. /\ Bit(a, 7) \in 0 .. 1 /\ Bit(a, 8) \in 0 .. 1 /\ Bit(a, 9) \in 0 .. 1
          /\ Bit(a, 10) \in 0 .. 1 /\ Bit(a, 11) \in 0 .. 1 /\ Bit(b, 4) \in 0 .. 1
          /\ Bit(b, 5) \in 0 .. 1 /\ Bit(b, 6) \in 0 .. 1 /\ Bit(b, 7) \in 0 .. 1
          /\ Bit(b, 8) \in 0 .. 1 /\ Bit(b, 9) \in 0 .. 1 /\ Bit(b, 10) \in 0 .. 1
          /\ Bit(b, 11) \in 0 .. 1 /\ Bit(b, 12) \in 0 .. 1 /\ Bit(b, 13) \in 0 .. 1
          /\ Bit(b, 14) \in 0 .. 1 /\ Bit(b, 15) \in 0 .. 1
      BY BitsRange
    <2> HIDE DEF F
    <2>5. F.f7 * 32 + F.rd
          = 2048 * Bit(b, 15) + 1024 * Bit(b, 14) + 512 * Bit(b, 13) + 256 * Bit(b, 12)
            + 128 * Bit(b, 11) + 64 * Bit(b, 10) + 32 * Bit(b, 9) + 16 * Bit(a, 11)
            + 8 * Bit(a, 10) + 4 * Bit(a, 9) + 2 * Bit(a, 8) + Bit(a, 7)
      BY <2>1, <2>2, SMT
    <2>6. PICK x \in Int : x = 2048 * Bit(b, 15) + 1024 * Bit(b, 14) + 512 * Bit(b, 13)
          + 256 * Bit(b, 12)
            + 128 * Bit(b, 11) + 64 * Bit(b, 10) + 32 * Bit(b, 9) + 16 * Bit(a, 11)
            + 8 * Bit(a, 10) + 4 * Bit(a, 9) + 2 * Bit(a, 8) + Bit(a, 7)
      BY <2>2, SMT
    <2>7. DecodeS(F) = (IF x < 2048 THEN x ELSE x - 4096)
      BY <2>5, <2>6, SignExtends, SMT DEF DecodeS
    <2>8. Architecture!SignedImm(WordBit(a, b), p, w) = IF x < 2048 THEN x ELSE x - 4096
      BY <1>3, <1>4, <2>2, <2>6, SMT
    <2> QED BY <2>7, <2>8, SMT DEF F
  <1> QED BY <1>5, <1>6, <1>7, Zenon

LEMMA WordImmB ==
  ASSUME NEW a \in Nat, NEW b \in Nat
  PROVE  Architecture!SignedImm(WordBit(a, b),
             <<31>> \o Architecture!Down(30, 25) \o Architecture!Down(11, 8) \o <<7>>,
             <<12>> \o Architecture!Down(10, 1) \o <<11>>)
           = DecodeB(Fields(a, b))
  <1> DEFINE p == <<31, 30, 29, 28, 27, 26, 25, 11, 10, 9, 8, 7>>
             w == <<12, 10, 9, 8, 7, 6, 5, 4, 3, 2, 1, 11>>
  <1>1. HasTerms(WordBit(a, b), p, w, 12)
    BY BitsOfWord32 DEF HasTerms
  <1>2. /\ p[1] = 31 /\ p[2] = 30 /\ p[3] = 29 /\ p[4] = 28 /\ p[5] = 27 /\ p[6] = 26
        /\ p[7] = 25 /\ p[8] = 11 /\ p[9] = 10 /\ p[10] = 9 /\ p[11] = 8 /\ p[12] = 7
        /\ w[1] = 12 /\ w[2] = 10 /\ w[3] = 9 /\ w[4] = 8 /\ w[5] = 7 /\ w[6] = 6
        /\ w[7] = 5 /\ w[8] = 4 /\ w[9] = 3 /\ w[10] = 2 /\ w[11] = 1 /\ w[12] = 11
    OBVIOUS
  <1> HIDE DEF p, w
  <1>3. Architecture!Unsigned(WordBit(a, b), p, w)
        = 4096 * Bit(b, 15) + 1024 * Bit(b, 14) + 512 * Bit(b, 13) + 256 * Bit(b, 12)
          + 128 * Bit(b, 11) + 64 * Bit(b, 10) + 32 * Bit(b, 9) + 16 * Bit(a, 11)
          + 8 * Bit(a, 10) + 4 * Bit(a, 9) + 2 * Bit(a, 8) + 2048 * Bit(a, 7)
    <2>1. Architecture!Unsigned(WordBit(a, b), p, w)
          = Term(WordBit(a, b), 31, 12) + Term(WordBit(a, b), 30, 10)
            + Term(WordBit(a, b), 29, 9) + Term(WordBit(a, b), 28, 8)
            + Term(WordBit(a, b), 27, 7) + Term(WordBit(a, b), 26, 6)
            + Term(WordBit(a, b), 25, 5) + Term(WordBit(a, b), 11, 4)
            + Term(WordBit(a, b), 10, 3) + Term(WordBit(a, b), 9, 2)
            + Term(WordBit(a, b), 8, 1) + Term(WordBit(a, b), 7, 11)
      BY <1>1, <1>2, Sum12, Zenon
    <2>2. /\ Term(WordBit(a, b), 31, 12) = 4096 * Bit(b, 15)
          /\ Term(WordBit(a, b), 30, 10) = 1024 * Bit(b, 14)
          /\ Term(WordBit(a, b), 29, 9) = 512 * Bit(b, 13)
          /\ Term(WordBit(a, b), 28, 8) = 256 * Bit(b, 12)
          /\ Term(WordBit(a, b), 27, 7) = 128 * Bit(b, 11)
          /\ Term(WordBit(a, b), 26, 6) = 64 * Bit(b, 10)
          /\ Term(WordBit(a, b), 25, 5) = 32 * Bit(b, 9)
          /\ Term(WordBit(a, b), 11, 4) = 16 * Bit(a, 11)
          /\ Term(WordBit(a, b), 10, 3) = 8 * Bit(a, 10)
          /\ Term(WordBit(a, b), 9, 2) = 4 * Bit(a, 9)
          /\ Term(WordBit(a, b), 8, 1) = 2 * Bit(a, 8)
          /\ Term(WordBit(a, b), 7, 11) = 2048 * Bit(a, 7)
      BY WordTerms, SMT
    <2> QED BY <2>1, <2>2, SMT
  <1>4. Architecture!SignedImm(WordBit(a, b), p, w)
        = Architecture!Unsigned(WordBit(a, b), p, w) - 8192 * Bit(b, 15)
    <2>1. Architecture!SignedImm(WordBit(a, b), p, w)
          = Architecture!Unsigned(WordBit(a, b), p, w) - WordBit(a, b)[31] * Pow2[12 + 1]
      BY <1>2, SameWords, Zenon DEF Architecture!SignedImm
    <2>2. Term(WordBit(a, b), 31, 13) = 8192 * Bit(b, 15) BY WordTerms, SMT
    <2>3. 12 + 1 = 13 OBVIOUS
    <2> QED BY <2>1, <2>2, <2>3, SMT DEF Term
  <1>5. <<31>> \o Architecture!Down(30, 25) \o Architecture!Down(11, 8) \o <<7>> = p
    BY Downs, WideBranchPlaces, WideBranchWeights, Zenon DEF p
  <1>6. <<12>> \o Architecture!Down(10, 1) \o <<11>> = w
    BY Downs, WideBranchPlaces, WideBranchWeights, Zenon DEF w
  <1>7. Architecture!SignedImm(WordBit(a, b), p, w) = DecodeB(Fields(a, b))
    <2> DEFINE F == Fields(a, b)
    <2>1. /\ F.f7 = 64 * Bit(b, 15) + 32 * Bit(b, 14) + 16 * Bit(b, 13) + 8 * Bit(b, 12)
               + 4 * Bit(b, 11) + 2 * Bit(b, 10) + Bit(b, 9)
          /\ F.rd = 16 * Bit(a, 11) + 8 * Bit(a, 10) + 4 * Bit(a, 9) + 2 * Bit(a, 8)
               + Bit(a, 7)
      BY FieldsAre
    <2>2. /\ Bit(a, 7) \in 0 .. 1 /\ Bit(a, 8) \in 0 .. 1 /\ Bit(a, 9) \in 0 .. 1
          /\ Bit(a, 10) \in 0 .. 1 /\ Bit(a, 11) \in 0 .. 1 /\ Bit(b, 4) \in 0 .. 1
          /\ Bit(b, 5) \in 0 .. 1 /\ Bit(b, 6) \in 0 .. 1 /\ Bit(b, 7) \in 0 .. 1
          /\ Bit(b, 8) \in 0 .. 1 /\ Bit(b, 9) \in 0 .. 1 /\ Bit(b, 10) \in 0 .. 1
          /\ Bit(b, 11) \in 0 .. 1 /\ Bit(b, 12) \in 0 .. 1 /\ Bit(b, 13) \in 0 .. 1
          /\ Bit(b, 14) \in 0 .. 1 /\ Bit(b, 15) \in 0 .. 1
      BY BitsRange
    <2> HIDE DEF F
    <2>3. /\ Cut(F.f7, 6, 1) = Bit(b, 15)
          /\ Cut(F.f7, 0, 6) = 32 * Bit(b, 14) + 16 * Bit(b, 13) + 8 * Bit(b, 12)
             + 4 * Bit(b, 11)
               + 2 * Bit(b, 10) + Bit(b, 9)
      BY <2>1, <2>2, CutSeven, SMT
    <2>4. /\ Cut(F.rd, 0, 1) = Bit(a, 7)
          /\ Cut(F.rd, 1, 4) = 8 * Bit(a, 11) + 4 * Bit(a, 10) + 2 * Bit(a, 9) + Bit(a, 8)
      BY <2>1, <2>2, CutFive, SMT
    <2>5. Cut(F.f7, 6, 1) * 4096 + Cut(F.rd, 0, 1) * 2048 + Cut(F.f7, 0, 6) * 32
          + Cut(F.rd, 1, 4) * 2
          = 4096 * Bit(b, 15) + 1024 * Bit(b, 14) + 512 * Bit(b, 13) + 256 * Bit(b, 12)
            + 128 * Bit(b, 11) + 64 * Bit(b, 10) + 32 * Bit(b, 9) + 16 * Bit(a, 11)
            + 8 * Bit(a, 10) + 4 * Bit(a, 9) + 2 * Bit(a, 8) + 2048 * Bit(a, 7)
      BY <2>1, <2>2, <2>3, <2>4, SMT
    <2>6. PICK x \in Int : x = 4096 * Bit(b, 15) + 1024 * Bit(b, 14) + 512 * Bit(b, 13)
          + 256 * Bit(b, 12)
            + 128 * Bit(b, 11) + 64 * Bit(b, 10) + 32 * Bit(b, 9) + 16 * Bit(a, 11)
            + 8 * Bit(a, 10) + 4 * Bit(a, 9) + 2 * Bit(a, 8) + 2048 * Bit(a, 7)
      BY <2>2, SMT
    <2>7. DecodeB(F) = (IF x < 4096 THEN x ELSE x - 8192)
      BY <2>5, <2>6, SignExtends, SMT DEF DecodeB
    <2>8. Architecture!SignedImm(WordBit(a, b), p, w) = IF x < 4096 THEN x ELSE x - 8192
      BY <1>3, <1>4, <2>2, <2>6, SMT
    <2> QED BY <2>7, <2>8, SMT DEF F
  <1> QED BY <1>5, <1>6, <1>7, Zenon

LEMMA WordImmU ==
  ASSUME NEW a \in Nat, NEW b \in Nat
  PROVE  Architecture!SignedImm(WordBit(a, b), Architecture!Down(31, 12),
        Architecture!Down(19, 0)) * 4096
           = DecodeU(Fields(a, b))
  <1> DEFINE p == <<31, 30, 29, 28, 27, 26, 25, 24, 23, 22, 21, 20, 19, 18, 17, 16, 15, 14,
                    13, 12>>
             w == <<19, 18, 17, 16, 15, 14, 13, 12, 11, 10, 9, 8, 7, 6, 5, 4, 3, 2, 1, 0>>
             F == Fields(a, b)
  <1>1. HasTerms(WordBit(a, b), p, w, 20)
    BY BitsOfWord32 DEF HasTerms
  <1>2. /\ p[1] = 31 /\ w[1] = 19
    OBVIOUS
  <1>3. /\ p[2] = 30 /\ p[3] = 29 /\ p[4] = 28 /\ p[5] = 27 /\ p[6] = 26 /\ p[7] = 25
        /\ w[2] = 18 /\ w[3] = 17 /\ w[4] = 16 /\ w[5] = 15 /\ w[6] = 14 /\ w[7] = 13
    OBVIOUS
  <1>4. /\ p[8] = 24 /\ p[9] = 23 /\ p[10] = 22 /\ p[11] = 21 /\ w[8] = 12 /\ w[9] = 11
        /\ w[10] = 10 /\ w[11] = 9
    OBVIOUS
  <1>5. /\ p[12] = 20 /\ w[12] = 8
    OBVIOUS
  <1>6. /\ p[13] = 19 /\ p[14] = 18 /\ p[15] = 17 /\ p[16] = 16 /\ p[17] = 15 /\ w[13] = 7
        /\ w[14] = 6 /\ w[15] = 5 /\ w[16] = 4 /\ w[17] = 3
    OBVIOUS
  <1>7. /\ p[18] = 14 /\ p[19] = 13 /\ p[20] = 12 /\ w[18] = 2 /\ w[19] = 1 /\ w[20] = 0
    OBVIOUS
  <1> HIDE DEF p, w
  <1>8. PICK A, B, C, D, E, G \in Int : SixParts(WordBit(a, b), p, w, A, B, C, D, E, G)
    BY <1>1, Sum20, Zenon
  <1>9. A = 524288 * Bit(b, 15)
    <2>1. A = Term(WordBit(a, b), 31, 19)
      BY <1>2, <1>8, Zenon DEF SixParts
    <2>2. /\ Term(WordBit(a, b), 31, 19) = 524288 * Bit(b, 15)
      BY WordTerms, SMT
    <2> QED BY <2>1, <2>2, SMT
  <1>10. B = 262144 * Bit(b, 14) + 131072 * Bit(b, 13) + 65536 * Bit(b, 12) + 32768 * Bit(b, 11)
        + 16384 * Bit(b, 10) + 8192 * Bit(b, 9)
    <2>1. B = Term(WordBit(a, b), 30, 18) + Term(WordBit(a, b), 29, 17)
            + Term(WordBit(a, b), 28, 16) + Term(WordBit(a, b), 27, 15)
            + Term(WordBit(a, b), 26, 14) + Term(WordBit(a, b), 25, 13)
      BY <1>3, <1>8, Zenon DEF SixParts
    <2>2. /\ Term(WordBit(a, b), 30, 18) = 262144 * Bit(b, 14)
          /\ Term(WordBit(a, b), 29, 17) = 131072 * Bit(b, 13)
          /\ Term(WordBit(a, b), 28, 16) = 65536 * Bit(b, 12)
          /\ Term(WordBit(a, b), 27, 15) = 32768 * Bit(b, 11)
          /\ Term(WordBit(a, b), 26, 14) = 16384 * Bit(b, 10)
          /\ Term(WordBit(a, b), 25, 13) = 8192 * Bit(b, 9)
      BY WordTerms, SMT
    <2> QED BY <2>1, <2>2, SMT
  <1>11. C = 4096 * Bit(b, 8) + 2048 * Bit(b, 7) + 1024 * Bit(b, 6) + 512 * Bit(b, 5)
    <2>1. C = Term(WordBit(a, b), 24, 12) + Term(WordBit(a, b), 23, 11)
            + Term(WordBit(a, b), 22, 10) + Term(WordBit(a, b), 21, 9)
      BY <1>4, <1>8, Zenon DEF SixParts
    <2>2. /\ Term(WordBit(a, b), 24, 12) = 4096 * Bit(b, 8)
          /\ Term(WordBit(a, b), 23, 11) = 2048 * Bit(b, 7)
          /\ Term(WordBit(a, b), 22, 10) = 1024 * Bit(b, 6)
          /\ Term(WordBit(a, b), 21, 9) = 512 * Bit(b, 5)
      BY WordTerms, SMT
    <2> QED BY <2>1, <2>2, SMT
  <1>12. D = 256 * Bit(b, 4)
    <2>1. D = Term(WordBit(a, b), 20, 8)
      BY <1>5, <1>8, Zenon DEF SixParts
    <2>2. /\ Term(WordBit(a, b), 20, 8) = 256 * Bit(b, 4)
      BY WordTerms, SMT
    <2> QED BY <2>1, <2>2, SMT
  <1>13. E = 128 * Bit(b, 3) + 64 * Bit(b, 2) + 32 * Bit(b, 1) + 16 * Bit(b, 0) + 8 * Bit(a, 15)
    <2>1. E = Term(WordBit(a, b), 19, 7) + Term(WordBit(a, b), 18, 6)
            + Term(WordBit(a, b), 17, 5) + Term(WordBit(a, b), 16, 4)
            + Term(WordBit(a, b), 15, 3)
      BY <1>6, <1>8, Zenon DEF SixParts
    <2>2. /\ Term(WordBit(a, b), 19, 7) = 128 * Bit(b, 3)
          /\ Term(WordBit(a, b), 18, 6) = 64 * Bit(b, 2)
          /\ Term(WordBit(a, b), 17, 5) = 32 * Bit(b, 1)
          /\ Term(WordBit(a, b), 16, 4) = 16 * Bit(b, 0)
          /\ Term(WordBit(a, b), 15, 3) = 8 * Bit(a, 15)
      BY WordTerms, SMT
    <2> QED BY <2>1, <2>2, SMT
  <1>14. G = 4 * Bit(a, 14) + 2 * Bit(a, 13) + Bit(a, 12)
    <2>1. G = Term(WordBit(a, b), 14, 2) + Term(WordBit(a, b), 13, 1)
            + Term(WordBit(a, b), 12, 0)
      BY <1>7, <1>8, Zenon DEF SixParts
    <2>2. /\ Term(WordBit(a, b), 14, 2) = 4 * Bit(a, 14)
          /\ Term(WordBit(a, b), 13, 1) = 2 * Bit(a, 13)
          /\ Term(WordBit(a, b), 12, 0) = Bit(a, 12)
      BY WordTerms, SMT
    <2> QED BY <2>1, <2>2, SMT
  <1>0. PICK z \in Int : z = 1048576 * Bit(b, 15) BY BitsRange, SMT
  <1>15. Architecture!SignedImm(WordBit(a, b), p, w) = A + B + C + D + E + G - z
    <2>1. p[1] = 31 /\ w[1] = 19 BY <1>2
    <2>2. Architecture!SignedImm(WordBit(a, b), p, w)
          = Architecture!Unsigned(WordBit(a, b), p, w) - WordBit(a, b)[31] * Pow2[19 + 1]
      BY <2>1, SameWords, Zenon DEF Architecture!SignedImm
    <2>3. WordBit(a, b)[31] = Bit(b, 15) BY BitsOfWord32, SMT
    <2>4. WordBit(a, b)[31] * Pow2[19 + 1] = z BY <1>0, <2>3, SmallPowers, BitsRange, SMT
    <2>5. Architecture!Unsigned(WordBit(a, b), p, w) = A + B + C + D + E + G
        BY <1>8, Zenon DEF SixParts
    <2>6. Architecture!SignedImm(WordBit(a, b), p, w)
          = Architecture!Unsigned(WordBit(a, b), p, w) - z BY <2>2, <2>4, Zenon
    <2> QED BY <2>5, <2>6, SMT
  <1>16. /\ F.f7 = 64 * Bit(b, 15) + 32 * Bit(b, 14) + 16 * Bit(b, 13) + 8 * Bit(b, 12)
              + 4 * Bit(b, 11) + 2 * Bit(b, 10) + Bit(b, 9)
         /\ F.rs2 = 16 * Bit(b, 8) + 8 * Bit(b, 7) + 4 * Bit(b, 6) + 2 * Bit(b, 5) + Bit(b, 4)
         /\ F.rs1 = 16 * Bit(b, 3) + 8 * Bit(b, 2) + 4 * Bit(b, 1) + 2 * Bit(b, 0)
              + Bit(a, 15)
         /\ F.f3 = 4 * Bit(a, 14) + 2 * Bit(a, 13) + Bit(a, 12)
    BY FieldsAre
  <1>17. /\ Bit(a, 12) \in 0 .. 1 /\ Bit(a, 13) \in 0 .. 1 /\ Bit(a, 14) \in 0 .. 1
         /\ Bit(a, 15) \in 0 .. 1 /\ Bit(b, 0) \in 0 .. 1 /\ Bit(b, 1) \in 0 .. 1
         /\ Bit(b, 2) \in 0 .. 1 /\ Bit(b, 3) \in 0 .. 1 /\ Bit(b, 4) \in 0 .. 1
         /\ Bit(b, 5) \in 0 .. 1 /\ Bit(b, 6) \in 0 .. 1 /\ Bit(b, 7) \in 0 .. 1
         /\ Bit(b, 8) \in 0 .. 1 /\ Bit(b, 9) \in 0 .. 1 /\ Bit(b, 10) \in 0 .. 1
         /\ Bit(b, 11) \in 0 .. 1 /\ Bit(b, 12) \in 0 .. 1 /\ Bit(b, 13) \in 0 .. 1
         /\ Bit(b, 14) \in 0 .. 1 /\ Bit(b, 15) \in 0 .. 1
    BY BitsRange
  <1> HIDE DEF F
  <1>18. PICK s \in 0 .. 1 : s = Bit(b, 15) BY <1>17
  <1>19. PICK h \in 0 .. 63 : h = 32 * Bit(b, 14) + 16 * Bit(b, 13) + 8 * Bit(b, 12)
        + 4 * Bit(b, 11)
            + 2 * Bit(b, 10) + Bit(b, 9)
    BY <1>17, SMT
  <1>20. PICK v1 \in 0 .. 31, v3 \in 0 .. 7 : v1 = F.rs1 /\ v3 = F.f3
    BY <1>16, <1>17, SMT
  <1>21. F.f7 = 64 * s + h BY <1>16, <1>17, <1>18, <1>19, SMT
  <1>22. PICK v2 \in 0 .. 31 : v2 = F.rs2 BY <1>16, <1>17, SMT
  <1>23. A = 524288 * s /\ B = 8192 * h BY <1>9, <1>10, <1>17, <1>18, <1>19, SMT
  <1>24. C + D = 256 * v2 BY <1>11, <1>12, <1>16, <1>17, <1>22, SMT
  <1>25. E = 8 * v1 BY <1>13, <1>16, <1>17, <1>20, SMT
  <1>26. G = v3 BY <1>14, <1>16, <1>17, <1>20, SMT
  <1>27. PICK x \in Int : x = 524288 * s + 8192 * h + 256 * v2 + 8 * v1 + v3 OBVIOUS
  <1>28. F.f7 * 8192 + F.rs2 * 256 + F.rs1 * 8 + F.f3 = x BY <1>20, <1>21, <1>22, <1>27, SMT
  <1>29. x < 524288 <=> s = 0 BY <1>27, SMT
  <1>30. SignExtend(x, 20) = x - 1048576 * s BY <1>18, <1>29, SignExtends, SMT
  <1>31. Architecture!SignedImm(WordBit(a, b), p, w) = x - 1048576 * s
    BY <1>0, <1>15, <1>18, <1>23, <1>24, <1>25, <1>26, <1>27, SMT
  <1>32. DecodeU(F) = SignExtend(x, 20) * 4096 BY <1>28, SMT DEF DecodeU
  <1>33. Architecture!SignedImm(WordBit(a, b), p, w) = SignExtend(x, 20)
    BY <1>30, <1>31, SMT
  <1>34. Architecture!SignedImm(WordBit(a, b), p, w) * 4096 = DecodeU(F) BY <1>32, <1>33, SMT
  <1>35. Architecture!Down(31, 12) = p
    BY Downs, Zenon DEF p
  <1>36. Architecture!Down(19, 0) = w
    BY Downs, Zenon DEF w
  <1> QED BY <1>35, <1>36, <1>34, SMT DEF F

LEMMA WordImmJ ==
  ASSUME NEW a \in Nat, NEW b \in Nat
  PROVE  Architecture!SignedImm(WordBit(a, b),
             <<31>> \o Architecture!Down(30, 21) \o <<20>> \o Architecture!Down(19, 12),
             <<20>> \o Architecture!Down(10, 1) \o <<11>> \o Architecture!Down(19, 12))
           = DecodeJ(Fields(a, b))
  <1> DEFINE p == <<31, 30, 29, 28, 27, 26, 25, 24, 23, 22, 21, 20, 19, 18, 17, 16, 15, 14,
                    13, 12>>
             w == <<20, 10, 9, 8, 7, 6, 5, 4, 3, 2, 1, 11, 19, 18, 17, 16, 15, 14, 13, 12>>
             F == Fields(a, b)
  <1>1. HasTerms(WordBit(a, b), p, w, 20)
    BY BitsOfWord32 DEF HasTerms
  <1>2. /\ p[1] = 31 /\ w[1] = 20
    OBVIOUS
  <1>3. /\ p[2] = 30 /\ p[3] = 29 /\ p[4] = 28 /\ p[5] = 27 /\ p[6] = 26 /\ p[7] = 25
        /\ w[2] = 10 /\ w[3] = 9 /\ w[4] = 8 /\ w[5] = 7 /\ w[6] = 6 /\ w[7] = 5
    OBVIOUS
  <1>4. /\ p[8] = 24 /\ p[9] = 23 /\ p[10] = 22 /\ p[11] = 21 /\ w[8] = 4 /\ w[9] = 3
        /\ w[10] = 2 /\ w[11] = 1
    OBVIOUS
  <1>5. /\ p[12] = 20 /\ w[12] = 11
    OBVIOUS
  <1>6. /\ p[13] = 19 /\ p[14] = 18 /\ p[15] = 17 /\ p[16] = 16 /\ p[17] = 15 /\ w[13] = 19
        /\ w[14] = 18 /\ w[15] = 17 /\ w[16] = 16 /\ w[17] = 15
    OBVIOUS
  <1>7. /\ p[18] = 14 /\ p[19] = 13 /\ p[20] = 12 /\ w[18] = 14 /\ w[19] = 13 /\ w[20] = 12
    OBVIOUS
  <1> HIDE DEF p, w
  <1>8. PICK A, B, C, D, E, G \in Int : SixParts(WordBit(a, b), p, w, A, B, C, D, E, G)
    BY <1>1, Sum20, Zenon
  <1>9. A = 1048576 * Bit(b, 15)
    <2>1. A = Term(WordBit(a, b), 31, 20)
      BY <1>2, <1>8, Zenon DEF SixParts
    <2>2. /\ Term(WordBit(a, b), 31, 20) = 1048576 * Bit(b, 15)
      BY WordTerms, SMT
    <2> QED BY <2>1, <2>2, SMT
  <1>10. B = 1024 * Bit(b, 14) + 512 * Bit(b, 13) + 256 * Bit(b, 12) + 128 * Bit(b, 11)
        + 64 * Bit(b, 10) + 32 * Bit(b, 9)
    <2>1. B = Term(WordBit(a, b), 30, 10) + Term(WordBit(a, b), 29, 9)
            + Term(WordBit(a, b), 28, 8) + Term(WordBit(a, b), 27, 7)
            + Term(WordBit(a, b), 26, 6) + Term(WordBit(a, b), 25, 5)
      BY <1>3, <1>8, Zenon DEF SixParts
    <2>2. /\ Term(WordBit(a, b), 30, 10) = 1024 * Bit(b, 14)
          /\ Term(WordBit(a, b), 29, 9) = 512 * Bit(b, 13)
          /\ Term(WordBit(a, b), 28, 8) = 256 * Bit(b, 12)
          /\ Term(WordBit(a, b), 27, 7) = 128 * Bit(b, 11)
          /\ Term(WordBit(a, b), 26, 6) = 64 * Bit(b, 10)
          /\ Term(WordBit(a, b), 25, 5) = 32 * Bit(b, 9)
      BY WordTerms, SMT
    <2> QED BY <2>1, <2>2, SMT
  <1>11. C = 16 * Bit(b, 8) + 8 * Bit(b, 7) + 4 * Bit(b, 6) + 2 * Bit(b, 5)
    <2>1. C = Term(WordBit(a, b), 24, 4) + Term(WordBit(a, b), 23, 3)
            + Term(WordBit(a, b), 22, 2) + Term(WordBit(a, b), 21, 1)
      BY <1>4, <1>8, Zenon DEF SixParts
    <2>2. /\ Term(WordBit(a, b), 24, 4) = 16 * Bit(b, 8)
          /\ Term(WordBit(a, b), 23, 3) = 8 * Bit(b, 7)
          /\ Term(WordBit(a, b), 22, 2) = 4 * Bit(b, 6)
          /\ Term(WordBit(a, b), 21, 1) = 2 * Bit(b, 5)
      BY WordTerms, SMT
    <2> QED BY <2>1, <2>2, SMT
  <1>12. D = 2048 * Bit(b, 4)
    <2>1. D = Term(WordBit(a, b), 20, 11)
      BY <1>5, <1>8, Zenon DEF SixParts
    <2>2. /\ Term(WordBit(a, b), 20, 11) = 2048 * Bit(b, 4)
      BY WordTerms, SMT
    <2> QED BY <2>1, <2>2, SMT
  <1>13. E = 524288 * Bit(b, 3) + 262144 * Bit(b, 2) + 131072 * Bit(b, 1) + 65536 * Bit(b, 0)
        + 32768 * Bit(a, 15)
    <2>1. E = Term(WordBit(a, b), 19, 19) + Term(WordBit(a, b), 18, 18)
            + Term(WordBit(a, b), 17, 17) + Term(WordBit(a, b), 16, 16)
            + Term(WordBit(a, b), 15, 15)
      BY <1>6, <1>8, Zenon DEF SixParts
    <2>2. /\ Term(WordBit(a, b), 19, 19) = 524288 * Bit(b, 3)
          /\ Term(WordBit(a, b), 18, 18) = 262144 * Bit(b, 2)
          /\ Term(WordBit(a, b), 17, 17) = 131072 * Bit(b, 1)
          /\ Term(WordBit(a, b), 16, 16) = 65536 * Bit(b, 0)
          /\ Term(WordBit(a, b), 15, 15) = 32768 * Bit(a, 15)
      BY WordTerms, SMT
    <2> QED BY <2>1, <2>2, SMT
  <1>14. G = 16384 * Bit(a, 14) + 8192 * Bit(a, 13) + 4096 * Bit(a, 12)
    <2>1. G = Term(WordBit(a, b), 14, 14) + Term(WordBit(a, b), 13, 13)
            + Term(WordBit(a, b), 12, 12)
      BY <1>7, <1>8, Zenon DEF SixParts
    <2>2. /\ Term(WordBit(a, b), 14, 14) = 16384 * Bit(a, 14)
          /\ Term(WordBit(a, b), 13, 13) = 8192 * Bit(a, 13)
          /\ Term(WordBit(a, b), 12, 12) = 4096 * Bit(a, 12)
      BY WordTerms, SMT
    <2> QED BY <2>1, <2>2, SMT
  <1>0. PICK z \in Int : z = 2097152 * Bit(b, 15) BY BitsRange, SMT
  <1>15. Architecture!SignedImm(WordBit(a, b), p, w) = A + B + C + D + E + G - z
    <2>1. p[1] = 31 /\ w[1] = 20 BY <1>2
    <2>2. Architecture!SignedImm(WordBit(a, b), p, w)
          = Architecture!Unsigned(WordBit(a, b), p, w) - WordBit(a, b)[31] * Pow2[20 + 1]
      BY <2>1, SameWords, Zenon DEF Architecture!SignedImm
    <2>3. WordBit(a, b)[31] = Bit(b, 15) BY BitsOfWord32, SMT
    <2>4. WordBit(a, b)[31] * Pow2[20 + 1] = z BY <1>0, <2>3, SmallPowers, BitsRange, SMT
    <2>5. Architecture!Unsigned(WordBit(a, b), p, w) = A + B + C + D + E + G
        BY <1>8, Zenon DEF SixParts
    <2>6. Architecture!SignedImm(WordBit(a, b), p, w)
          = Architecture!Unsigned(WordBit(a, b), p, w) - z BY <2>2, <2>4, Zenon
    <2> QED BY <2>5, <2>6, SMT
  <1>16. /\ F.f7 = 64 * Bit(b, 15) + 32 * Bit(b, 14) + 16 * Bit(b, 13) + 8 * Bit(b, 12)
              + 4 * Bit(b, 11) + 2 * Bit(b, 10) + Bit(b, 9)
         /\ F.rs2 = 16 * Bit(b, 8) + 8 * Bit(b, 7) + 4 * Bit(b, 6) + 2 * Bit(b, 5) + Bit(b, 4)
         /\ F.rs1 = 16 * Bit(b, 3) + 8 * Bit(b, 2) + 4 * Bit(b, 1) + 2 * Bit(b, 0)
              + Bit(a, 15)
         /\ F.f3 = 4 * Bit(a, 14) + 2 * Bit(a, 13) + Bit(a, 12)
    BY FieldsAre
  <1>17. /\ Bit(a, 12) \in 0 .. 1 /\ Bit(a, 13) \in 0 .. 1 /\ Bit(a, 14) \in 0 .. 1
         /\ Bit(a, 15) \in 0 .. 1 /\ Bit(b, 0) \in 0 .. 1 /\ Bit(b, 1) \in 0 .. 1
         /\ Bit(b, 2) \in 0 .. 1 /\ Bit(b, 3) \in 0 .. 1 /\ Bit(b, 4) \in 0 .. 1
         /\ Bit(b, 5) \in 0 .. 1 /\ Bit(b, 6) \in 0 .. 1 /\ Bit(b, 7) \in 0 .. 1
         /\ Bit(b, 8) \in 0 .. 1 /\ Bit(b, 9) \in 0 .. 1 /\ Bit(b, 10) \in 0 .. 1
         /\ Bit(b, 11) \in 0 .. 1 /\ Bit(b, 12) \in 0 .. 1 /\ Bit(b, 13) \in 0 .. 1
         /\ Bit(b, 14) \in 0 .. 1 /\ Bit(b, 15) \in 0 .. 1
    BY BitsRange
  <1> HIDE DEF F
  <1>18. PICK s \in 0 .. 1 : s = Bit(b, 15) BY <1>17
  <1>19. PICK h \in 0 .. 63 : h = 32 * Bit(b, 14) + 16 * Bit(b, 13) + 8 * Bit(b, 12)
        + 4 * Bit(b, 11)
            + 2 * Bit(b, 10) + Bit(b, 9)
    BY <1>17, SMT
  <1>20. PICK v1 \in 0 .. 31, v3 \in 0 .. 7 : v1 = F.rs1 /\ v3 = F.f3
    BY <1>16, <1>17, SMT
  <1>21. Cut(F.f7, 6, 1) = s /\ Cut(F.f7, 0, 6) = h
    <2>1. F.f7 = 64 * Bit(b, 15) + 32 * Bit(b, 14) + 16 * Bit(b, 13) + 8 * Bit(b, 12)
              + 4 * Bit(b, 11) + 2 * Bit(b, 10) + Bit(b, 9)
      BY <1>16
    <2>2. /\ Bit(b, 9) \in 0 .. 1 /\ Bit(b, 10) \in 0 .. 1 /\ Bit(b, 11) \in 0 .. 1
          /\ Bit(b, 12) \in 0 .. 1 /\ Bit(b, 13) \in 0 .. 1 /\ Bit(b, 14) \in 0 .. 1
          /\ Bit(b, 15) \in 0 .. 1
      BY <1>17
    <2>3. /\ Cut(F.f7, 0, 6) = 32 * Bit(b, 14) + 16 * Bit(b, 13) + 8 * Bit(b, 12)
             + 4 * Bit(b, 11)
                + 2 * Bit(b, 10) + Bit(b, 9)
          /\ Cut(F.f7, 6, 1) = Bit(b, 15)
      BY <2>1, <2>2, CutSeven, SMT
    <2> QED BY <2>3, <1>18, <1>19, SMT
  <1>22. PICK l \in 0 .. 1, q \in 0 .. 15 :
           /\ l = Bit(b, 4) /\ q = 8 * Bit(b, 8) + 4 * Bit(b, 7) + 2 * Bit(b, 6) + Bit(b, 5)
    BY <1>17, SMT
  <1>23. Cut(F.rs2, 0, 1) = l /\ Cut(F.rs2, 1, 4) = q BY <1>16, <1>17, <1>22, CutFive, SMT
  <1>24. A = 1048576 * s /\ B = 32 * h BY <1>9, <1>10, <1>17, <1>18, <1>19, SMT
  <1>25. C = 2 * q /\ D = 2048 * l BY <1>11, <1>12, <1>17, <1>22, SMT
  <1>26. E = 32768 * v1 BY <1>13, <1>16, <1>17, <1>20, SMT
  <1>27. G = 4096 * v3 BY <1>14, <1>16, <1>17, <1>20, SMT
  <1>28. PICK x \in Int :
           x = 1048576 * s + 32768 * v1 + 4096 * v3 + 2048 * l + 32 * h + 2 * q
    OBVIOUS
  <1>29. s * 1048576 + (v1 * 8 + v3) * 4096 + l * 2048 + h * 32 + q * 2 = x BY <1>28, SMT
  <1>30. x < 1048576 <=> s = 0 BY <1>28, SMT
  <1>31. SignExtend(x, 21) = x - 2097152 * s BY <1>18, <1>30, SignExtends, SMT
  <1>32. Architecture!SignedImm(WordBit(a, b), p, w) = x - 2097152 * s
    BY <1>0, <1>15, <1>18, <1>24, <1>25, <1>26, <1>27, <1>28, SMT
  <1>33. DecodeJ(F) = SignExtend(x, 21)
    BY <1>20, <1>21, <1>23, <1>29, SMT DEF DecodeJ
  <1>34. Architecture!SignedImm(WordBit(a, b), p, w) = DecodeJ(F) BY <1>31, <1>32, <1>33, SMT
  <1>35. <<31>> \o Architecture!Down(30, 21) \o <<20>> \o Architecture!Down(19, 12) = p
    BY Downs, WideJumpPlaces, WideJumpWeights, Zenon DEF p
  <1>36. <<20>> \o Architecture!Down(10, 1) \o <<11>> \o Architecture!Down(19, 12) = w
    BY Downs, WideJumpPlaces, WideJumpWeights, Zenon DEF w
  <1> QED BY <1>35, <1>36, <1>34, Zenon DEF F

-----------------------------------------------------------------------------
(* The rules of the registry, one by one.                                  *)

\* Sequences that are written out, for the provers.
LEMMA IsSequence ==
  ASSUME NEW S, NEW n \in Nat, NEW f \in [1 .. n -> S]
  PROVE  f \in Seq(S) /\ Len(f) = n
  <1>1. f \in Seq(S) OBVIOUS
  <1>2. DOMAIN f = 1 .. n /\ DOMAIN f = 1 .. Len(f) /\ Len(f) \in Nat
      BY <1>1, LenProperties, Zenon
  <1> QED BY <1>1, <1>2

\* The rule r takes an instruction.
Takes(r, op, f3, f7) ==
    r[1] = op /\ r[2] \in {f3, AnyField} /\ r[3] \in {f7, AnyField}

\* The funct7 that handle looks up.
Looked(op, f3, f7) == IF op \in {19, 27} /\ f3 \in {1, 5} THEN f7 - (f7 % 2) ELSE f7

\* The rule of sfence.vma comes before that of the other SYSTEM instructions.
Sfence(op, f3, f7) == op = 115 /\ f3 = 0 /\ f7 = 9

\* A rule for m3 and m7, of which AnyField is all, is for f3 and f7.
Fits(op, m3, m7, f3, f7) ==
    /\ ~ReservedShift(op, f3, f7) /\ ~Sfence(op, f3, f7)
    /\ m3 \in {f3, AnyField} /\ m7 \in {Looked(op, f3, f7), AnyField}

\* What a rule takes has the name that it has in the manual.
Right(r) ==
    \A f3 \in 0 .. 7, f7 \in 0 .. 127 :
        Fits(r[1], r[2], r[3], f3, f7) => Architecture!Name(r[1], f3, f7) = r[4]

\* All the rules of a sequence are right.
IsRules(s) == \E S : s \in Seq(S)
AllRight(s) == IsRules(s) /\ \A k \in 1 .. Len(s) : Right(s[k])

\* The rules s take what a rule with these fields takes.
Met(s, op, f3, f7) == \E k \in 1 .. Len(s) : Takes(s[k], op, f3, f7)

\* A sequence has a rule for all of m3 and m7; t has all that s has.
Covers(s, op, m3, m7) ==
    \A f3, f7 : m3 \in {f3, AnyField} /\ m7 \in {f7, AnyField} => Met(s, op, f3, f7)
Within(s, t) == \A op, f3, f7 : Met(s, op, f3, f7) => Met(t, op, f3, f7)

\* No rule of s is for a SYSTEM instruction; the rule of sfence.vma is the first one.
Lacks(s) == \A k \in 1 .. Len(s) : s[k][1] # 115

\* Every rule of sfence.vma is met before another of its opcode.
Fenced(s) ==
    \E k \in 1 .. Len(s) : /\ s[k][4] = "fence" /\ Takes(s[k], 115, 0, 9)
                           /\ \A j \in 1 .. k - 1 : s[j][1] # 115

\* A handler that s gives is given by t: s is its beginning.
Before(s, t) ==
    /\ Len(s) \in Nat /\ Len(t) \in Nat /\ Len(s) <= Len(t)
    /\ \A k \in 1 .. Len(s) : t[k] = s[k]

\* What holds of two sequences holds of both joined.
LEMMA RulesJoined ==
  ASSUME NEW s, NEW t, IsRules(s), IsRules(t)
  PROVE  /\ IsRules(s \o t) /\ Len(s) \in Nat /\ Len(t) \in Nat /\ Len(s \o t) = Len(s) + Len(t)
         /\ \A k \in 1 .. Len(s) : (s \o t)[k] = s[k]
         /\ \A k \in 1 .. Len(t) : (s \o t)[Len(s) + k] = t[k]
  <1>1. PICK S, T : s \in Seq(S) /\ t \in Seq(T) BY DEF IsRules
  <1>2. s \in Seq(S \cup T) /\ t \in Seq(S \cup T) BY <1>1
  <1>3. s \o t \in Seq(S \cup T) BY <1>2
  <1> QED BY <1>2, <1>3 DEF IsRules

LEMMA RightJoined ==
  ASSUME NEW s, NEW t, AllRight(s), AllRight(t)
  PROVE  /\ AllRight(s \o t) /\ Within(s, s \o t) /\ Within(t, s \o t)
         /\ Before(s, s \o t)
  <1>1. /\ IsRules(s \o t) /\ Len(s) \in Nat /\ Len(t) \in Nat /\ Len(s \o t) = Len(s) + Len(t)
        /\ \A k \in 1 .. Len(s) : (s \o t)[k] = s[k]
        /\ \A k \in 1 .. Len(t) : (s \o t)[Len(s) + k] = t[k]
    BY RulesJoined DEF AllRight
  <1>2. ASSUME NEW k \in 1 .. Len(s \o t) PROVE Right((s \o t)[k])
    <2>1. CASE k \in 1 .. Len(s) BY <1>1, <2>1, Zenon DEF AllRight
    <2>2. CASE k \notin 1 .. Len(s)
      <3>1. k - Len(s) \in 1 .. Len(t) /\ Len(s) + (k - Len(s)) = k BY <1>1, <2>2
      <3>2. (s \o t)[Len(s) + (k - Len(s))] = t[k - Len(s)] BY <1>1, <3>1, Zenon
      <3>3. Right(t[k - Len(s)]) BY <3>1, Zenon DEF AllRight
      <3> QED BY <3>1, <3>2, <3>3, Zenon
    <2> QED BY <2>1, <2>2
  <1>3. Within(s, s \o t)
    <2>1. \A k \in 1 .. Len(s) : k \in 1 .. Len(s \o t) BY <1>1
    <2> QED BY <1>1, <2>1, Zenon DEF Within, Met
  <1>4. Within(t, s \o t)
    <2>1. \A k \in 1 .. Len(t) : Len(s) + k \in 1 .. Len(s \o t) BY <1>1
    <2> QED BY <1>1, <2>1, Zenon DEF Within, Met
  <1>5. Before(s, s \o t)
    <2>1. Len(s \o t) \in Nat /\ Len(s) <= Len(s \o t) BY <1>1
    <2> QED BY <1>1, <2>1, Zenon DEF Before
  <1>6. AllRight(s \o t) BY <1>1, <1>2, Zenon DEF AllRight
  <1> QED BY <1>3, <1>4, <1>5, <1>6

LEMMA LacksJoined ==
  ASSUME NEW s, NEW t, IsRules(s), IsRules(t), Lacks(s)
  PROVE  /\ Lacks(t) => Lacks(s \o t)
         /\ Fenced(t) => Fenced(s \o t)
  <1>1. /\ IsRules(s \o t) /\ Len(s) \in Nat /\ Len(t) \in Nat /\ Len(s \o t) = Len(s) + Len(t)
        /\ \A k \in 1 .. Len(s) : (s \o t)[k] = s[k]
        /\ \A k \in 1 .. Len(t) : (s \o t)[Len(s) + k] = t[k]
    BY RulesJoined
  <1>3. ASSUME Lacks(t), NEW k \in 1 .. Len(s \o t) PROVE (s \o t)[k][1] # 115
    <2>1. CASE k \in 1 .. Len(s) BY <1>1, <2>1, Zenon DEF Lacks
    <2>2. CASE k \notin 1 .. Len(s)
      <3>1. k - Len(s) \in 1 .. Len(t) /\ Len(s) + (k - Len(s)) = k BY <1>1, <2>2
      <3>2. (s \o t)[Len(s) + (k - Len(s))] = t[k - Len(s)] BY <1>1, <3>1, Zenon
      <3>3. (s \o t)[k] = t[k - Len(s)] BY <3>1, <3>2, Zenon
      <3>4. t[k - Len(s)][1] # 115 BY <1>3, <3>1, Zenon DEF Lacks
      <3> QED BY <3>3, <3>4, Zenon
    <2> QED BY <2>1, <2>2
  <1>4. ASSUME Fenced(t) PROVE Fenced(s \o t)
    <2>1. PICK k \in 1 .. Len(t) : /\ t[k][4] = "fence" /\ Takes(t[k], 115, 0, 9)
                                  /\ \A j \in 1 .. k - 1 : t[j][1] # 115
      BY <1>4, Zenon DEF Fenced
    <2>2. Len(s) + k \in 1 .. Len(s \o t) /\ (s \o t)[Len(s) + k] = t[k] BY <1>1
    <2>3. ASSUME NEW j \in 1 .. (Len(s) + k) - 1 PROVE (s \o t)[j][1] # 115
      <3>1. CASE j \in 1 .. Len(s) BY <1>1, <3>1, Zenon DEF Lacks
      <3>2. CASE j \notin 1 .. Len(s)
        <4>1. /\ j - Len(s) \in 1 .. Len(t) /\ j - Len(s) \in 1 .. k - 1
              /\ Len(s) + (j - Len(s)) = j
          BY <1>1, <3>2
        <4>2. (s \o t)[Len(s) + (j - Len(s))] = t[j - Len(s)] BY <1>1, <4>1, Zenon
        <4>3. (s \o t)[j] = t[j - Len(s)] BY <4>1, <4>2, Zenon
        <4>4. t[j - Len(s)][1] # 115 BY <2>1, <4>1, Zenon
        <4> QED BY <4>3, <4>4, Zenon
      <3> QED BY <3>1, <3>2
    <2>4. PICK n : n = Len(s) + k OBVIOUS
    <2>5. n \in 1 .. Len(s \o t) /\ (s \o t)[n] = t[k]
          /\ \A j \in 1 .. n - 1 : (s \o t)[j][1] # 115
      BY <2>2, <2>3, <2>4, Zenon
    <2> QED BY <2>1, <2>5, Zenon DEF Fenced
  <1> QED BY <1>3, <1>4, Zenon DEF Lacks

LEMMA BeforeBefore ==
  ASSUME NEW s, NEW t, NEW u, Before(s, t), Before(t, u)
  PROVE  Before(s, u)
  <1>1. Len(s) <= Len(u) /\ \A k \in 1 .. Len(s) : k \in 1 .. Len(t) BY DEF Before
  <1> QED BY <1>1, Zenon DEF Before

LEMMA FencedBefore ==
  ASSUME NEW s, NEW t, Before(s, t), Fenced(s)
  PROVE  Fenced(t)
  <1>1. PICK k \in 1 .. Len(s) : /\ s[k][4] = "fence" /\ Takes(s[k], 115, 0, 9)
                                /\ \A j \in 1 .. k - 1 : s[j][1] # 115
    BY Zenon DEF Fenced
  <1>2. k \in 1 .. Len(t) BY DEF Before
  <1>3. \A j \in 1 .. k - 1 : j \in 1 .. Len(s) BY DEF Before
  <1>4. t[k] = s[k] /\ \A j \in 1 .. k - 1 : t[j] = s[j] BY <1>3, Zenon DEF Before
  <1>5. /\ t[k][4] = "fence" /\ Takes(t[k], 115, 0, 9)
        /\ \A j \in 1 .. k - 1 : t[j][1] # 115
    <2>1. ASSUME NEW j \in 1 .. k - 1 PROVE t[j][1] # 115
      <3>1. t[j] = s[j] /\ s[j][1] # 115 BY <1>1, <1>4, Zenon
      <3> QED BY <3>1, Zenon
    <2> QED BY <1>1, <1>4, <2>1, Zenon
  <1> QED BY <1>2, <1>5, Zenon DEF Fenced

LEMMA FencedRule ==
  ASSUME NEW s, Len(s) = 1, NEW r, s[1] = r, r[1] = 115, r[2] = 0, r[3] = 9, r[4] = "fence"
  PROVE  Fenced(s)
  <1>1. Takes(r, 115, 0, 9) BY Zenon DEF Takes
  <1>2. 1 \in 1 .. 1 /\ 1 .. 1 - 1 = {} OBVIOUS
  <1> QED BY <1>1, <1>2, Zenon DEF Fenced

LEMMA CoversWithin ==
  ASSUME NEW s, NEW t, NEW op, NEW m3, NEW m7, Covers(s, op, m3, m7), Within(s, t)
  PROVE  Covers(t, op, m3, m7)
BY Zenon DEF Covers, Within

\* What Reg makes of a list of handlers.
LEMMA RegIs ==
  ASSUME NEW op, NEW f7, NEW T, NEW names \in Seq(T)
  PROVE  /\ IsRules(Reg(op, f7, names)) /\ Len(Reg(op, f7, names)) = Len(names)
         /\ \A k \in 1 .. Len(names) : Reg(op, f7, names)[k]
            = <<op, names[k][1], f7, names[k][2]>>
  <1> DEFINE R == {<<op, x[1], f7, x[2]>> : x \in T}
  <1>1. names \in [1 .. Len(names) -> T] /\ Len(names) \in Nat
        /\ DOMAIN names = 1 .. Len(names) OBVIOUS
  <1>2. Reg(op, f7, names) = [k \in 1 .. Len(names) |-> <<op, names[k][1], f7, names[k][2]>>]
    BY <1>1, Zenon DEF Reg
  <1>3. \A k \in 1 .. Len(names) : names[k] \in T BY <1>1
  <1>4. \A k \in 1 .. Len(names) : <<op, names[k][1], f7, names[k][2]>> \in R BY <1>3, Zenon
  <1> HIDE DEF R
  <1>5. Reg(op, f7, names) \in [1 .. Len(names) -> R] BY <1>2, <1>4, Zenon
  <1>6. /\ Reg(op, f7, names) \in Seq(R) /\ Len(Reg(op, f7, names)) = Len(names)
    BY <1>1, <1>5, IsSequence
  <1>7. \A k \in 1 .. Len(names) : Reg(op, f7, names)[k] = <<op, names[k][1], f7, names[k][2]>>
    BY <1>2, Zenon
  <1> QED BY <1>6, <1>7, Zenon DEF IsRules

\* Rules with one operation code are right when each of them is.
LEMMA RegRight ==
  ASSUME NEW op, NEW f7, NEW T, NEW names \in Seq(T),
         \A k \in 1 .. Len(names) : Right(<<op, names[k][1], f7, names[k][2]>>)
  PROVE  /\ AllRight(Reg(op, f7, names))
         /\ \A k \in 1 .. Len(names) : Covers(Reg(op, f7, names), op, names[k][1], f7)
         /\ op # 115 => Lacks(Reg(op, f7, names))
  <1>1. /\ IsRules(Reg(op, f7, names)) /\ Len(Reg(op, f7, names)) = Len(names)
        /\ \A k \in 1 .. Len(names) : Reg(op, f7, names)[k]
           = <<op, names[k][1], f7, names[k][2]>>
    BY RegIs
  <1>2. ASSUME NEW k \in 1 .. Len(names) PROVE Right(Reg(op, f7, names)[k])
    <2>1. Reg(op, f7, names)[k] = <<op, names[k][1], f7, names[k][2]>> BY <1>1, Zenon
    <2> QED BY <2>1, Zenon
  <1>3. ASSUME NEW k \in 1 .. Len(names), NEW g3, NEW g7,
               names[k][1] \in {g3, AnyField}, f7 \in {g7, AnyField}
        PROVE  Met(Reg(op, f7, names), op, g3, g7)
    <2>1. PICK r : r = <<op, names[k][1], f7, names[k][2]>> OBVIOUS
    <2>2. r[1] = op /\ r[2] = names[k][1] /\ r[3] = f7 BY <2>1
    <2>3. Takes(r, op, g3, g7) BY <2>2, <1>3, Zenon DEF Takes
    <2>4. Reg(op, f7, names)[k] = r BY <1>1, <2>1, Zenon
    <2> QED BY <1>1, <2>3, <2>4, Zenon DEF Met
  <1>4. AllRight(Reg(op, f7, names)) BY <1>1, <1>2, Zenon DEF AllRight
  <1>5. ASSUME NEW k \in 1 .. Len(names)
        PROVE  Covers(Reg(op, f7, names), op, names[k][1], f7)
    BY <1>3, SMT DEF Covers
  <1>6. ASSUME op # 115, NEW k \in 1 .. Len(names) PROVE Reg(op, f7, names)[k][1] # 115
    <2>1. PICK r : r = <<op, names[k][1], f7, names[k][2]>> OBVIOUS
    <2>2. r[1] = op BY <2>1
    <2> QED BY <1>1, <1>6, <2>1, <2>2, Zenon
  <1> QED BY <1>1, <1>4, <1>5, <1>6, Zenon DEF Lacks

\* The name that the manual gives to the encodings a rule is for.
Named(op, m3, m7, name) ==
    \A f3 \in 0 .. 7, f7 \in 0 .. 127 :
        Fits(op, m3, m7, f3, f7) => Architecture!Name(op, f3, f7) = name

LEMMA RightNamed ==
  ASSUME NEW op, NEW m3, NEW m7, NEW name, Named(op, m3, m7, name)
  PROVE  Right(<<op, m3, m7, name>>)
  <1>1. PICK r : r = <<op, m3, m7, name>> OBVIOUS
  <1>2. r[1] = op /\ r[2] = m3 /\ r[3] = m7 /\ r[4] = name BY <1>1
  <1>3. Right(r) BY <1>2, Zenon DEF Right, Named
  <1> QED BY <1>1, <1>3, Zenon

\* The numbers that clearing the lowest bit leaves.
LEMMA Evens ==
  \A n \in 0 .. 127 : /\ n - (n % 2) = 0 => n \in {0, 1}
                      /\ n - (n % 2) = 32 => n \in {32, 33}
                      /\ n \in {0, 32} => n - (n % 2) = n
OBVIOUS

\* The lists of the registry by length: their rules are right and cover them.
LEMMA Reg1 ==
  ASSUME NEW op, NEW f7, NEW n1, NEW s1,
         Right(<<op, n1, f7, s1>>)
  PROVE  /\ AllRight(Reg(op, f7, <<<<n1, s1>>>>))
         /\ Covers(Reg(op, f7, <<<<n1, s1>>>>), op, n1, f7)
         /\ op # 115 => Lacks(Reg(op, f7, <<<<n1, s1>>>>))
  <1>1. PICK a1 : a1 = <<n1, s1>> OBVIOUS
  <1>2. /\ a1[1] = n1 /\ a1[2] = s1
    BY <1>1
  <1>3. <<a1>> \in Seq({a1}) /\ Len(<<a1>>) = 1 OBVIOUS
  <1>4. /\ <<a1>>[1] = a1
    OBVIOUS
  <1>5. ASSUME NEW k \in 1 .. 1
        PROVE  Right(<<op, <<a1>>[k][1], f7, <<a1>>[k][2]>>)
    <2>1. k = 1 OBVIOUS
    <2> QED BY <1>2, <1>4, <2>1
  <1>6. /\ AllRight(Reg(op, f7, <<a1>>))
        /\ \A k \in 1 .. 1 : Covers(Reg(op, f7, <<a1>>), op, <<a1>>[k][1], f7)
        /\ op # 115 => Lacks(Reg(op, f7, <<a1>>))
    BY <1>3, <1>5, RegRight, Zenon
  <1>7. /\ Covers(Reg(op, f7, <<a1>>), op, n1, f7)
    <2>1. 1 \in 1 .. 1 OBVIOUS
    <2> QED BY <1>2, <1>4, <1>6, <2>1, Zenon
  <1> QED BY <1>6, <1>7, <1>1, Zenon

LEMMA Reg2 ==
  ASSUME NEW op, NEW f7, NEW n1, NEW s1, NEW n2, NEW s2,
         Right(<<op, n1, f7, s1>>), Right(<<op, n2, f7, s2>>)
  PROVE  /\ AllRight(Reg(op, f7, <<<<n1, s1>>, <<n2, s2>>>>))
         /\ Covers(Reg(op, f7, <<<<n1, s1>>, <<n2, s2>>>>), op, n1, f7)
         /\ Covers(Reg(op, f7, <<<<n1, s1>>, <<n2, s2>>>>), op, n2, f7)
  <1>1. PICK a1 : a1 = <<n1, s1>> OBVIOUS
  <1>2. PICK a2 : a2 = <<n2, s2>> OBVIOUS
  <1>3. /\ a1[1] = n1 /\ a1[2] = s1 /\ a2[1] = n2 /\ a2[2] = s2
    BY <1>1, <1>2
  <1>4. <<a1, a2>> \in Seq({a1, a2}) /\ Len(<<a1, a2>>) = 2 OBVIOUS
  <1>5. /\ <<a1, a2>>[1] = a1 /\ <<a1, a2>>[2] = a2
    OBVIOUS
  <1>6. ASSUME NEW k \in 1 .. 2
        PROVE  Right(<<op, <<a1, a2>>[k][1], f7, <<a1, a2>>[k][2]>>)
    <2>1. k = 1 \/ k = 2 OBVIOUS
    <2> QED BY <1>3, <1>5, <2>1
  <1>7. /\ AllRight(Reg(op, f7, <<a1, a2>>))
        /\ \A k \in 1 .. 2 : Covers(Reg(op, f7, <<a1, a2>>), op, <<a1, a2>>[k][1], f7)
    BY <1>4, <1>6, RegRight, Zenon
  <1>8. /\ Covers(Reg(op, f7, <<a1, a2>>), op, n1, f7)
         /\ Covers(Reg(op, f7, <<a1, a2>>), op, n2, f7)
    <2>1. 1 \in 1 .. 2 /\ 2 \in 1 .. 2 OBVIOUS
    <2> QED BY <1>3, <1>5, <1>7, <2>1, Zenon
  <1> QED BY <1>7, <1>8, <1>1, <1>2, Zenon

LEMMA Reg3 ==
  ASSUME NEW op, NEW f7, NEW n1, NEW s1, NEW n2, NEW s2, NEW n3, NEW s3,
         Right(<<op, n1, f7, s1>>), Right(<<op, n2, f7, s2>>), Right(<<op, n3, f7, s3>>)
  PROVE  /\ AllRight(Reg(op, f7, <<<<n1, s1>>, <<n2, s2>>, <<n3, s3>>>>))
         /\ Covers(Reg(op, f7, <<<<n1, s1>>, <<n2, s2>>, <<n3, s3>>>>), op, n1, f7)
         /\ Covers(Reg(op, f7, <<<<n1, s1>>, <<n2, s2>>, <<n3, s3>>>>), op, n2, f7)
         /\ Covers(Reg(op, f7, <<<<n1, s1>>, <<n2, s2>>, <<n3, s3>>>>), op, n3, f7)
  <1>1. PICK a1 : a1 = <<n1, s1>> OBVIOUS
  <1>2. PICK a2 : a2 = <<n2, s2>> OBVIOUS
  <1>3. PICK a3 : a3 = <<n3, s3>> OBVIOUS
  <1>4. /\ a1[1] = n1 /\ a1[2] = s1 /\ a2[1] = n2 /\ a2[2] = s2 /\ a3[1] = n3 /\ a3[2] = s3
    BY <1>1, <1>2, <1>3
  <1>5. <<a1, a2, a3>> \in Seq({a1, a2, a3}) /\ Len(<<a1, a2, a3>>) = 3 OBVIOUS
  <1>6. /\ <<a1, a2, a3>>[1] = a1 /\ <<a1, a2, a3>>[2] = a2 /\ <<a1, a2, a3>>[3] = a3
    OBVIOUS
  <1>7. ASSUME NEW k \in 1 .. 3
        PROVE  Right(<<op, <<a1, a2, a3>>[k][1], f7, <<a1, a2, a3>>[k][2]>>)
    <2>1. k = 1 \/ k = 2 \/ k = 3 OBVIOUS
    <2> QED BY <1>4, <1>6, <2>1
  <1>8. /\ AllRight(Reg(op, f7, <<a1, a2, a3>>))
        /\ \A k \in 1 .. 3 : Covers(Reg(op, f7, <<a1, a2, a3>>), op, <<a1, a2, a3>>[k][1], f7)
    BY <1>5, <1>7, RegRight, Zenon
  <1>9. /\ Covers(Reg(op, f7, <<a1, a2, a3>>), op, n1, f7)
         /\ Covers(Reg(op, f7, <<a1, a2, a3>>), op, n2, f7)
         /\ Covers(Reg(op, f7, <<a1, a2, a3>>), op, n3, f7)
    <2>1. 1 \in 1 .. 3 /\ 2 \in 1 .. 3 /\ 3 \in 1 .. 3 OBVIOUS
    <2> QED BY <1>4, <1>6, <1>8, <2>1, Zenon
  <1> QED BY <1>8, <1>9, <1>1, <1>2, <1>3, Zenon

\* Five rules with the names of the manual, and what is shown of them.
Each5(op, f7, n1, s1, n2, s2, n3, s3, n4, s4, n5, s5) ==
    /\ Right(<<op, n1, f7, s1>>)
    /\ Right(<<op, n2, f7, s2>>)
    /\ Right(<<op, n3, f7, s3>>)
    /\ Right(<<op, n4, f7, s4>>)
    /\ Right(<<op, n5, f7, s5>>)

Good5(s, op, f7, n1, n2, n3, n4, n5) ==
    /\ AllRight(s)
    /\ Covers(s, op, n1, f7)
    /\ Covers(s, op, n2, f7)
    /\ Covers(s, op, n3, f7)
    /\ Covers(s, op, n4, f7)
    /\ Covers(s, op, n5, f7)

LEMMA Reg5 ==
  ASSUME NEW op, NEW f7, NEW n1, NEW s1, NEW n2, NEW s2, NEW n3, NEW s3, NEW n4, NEW s4,
        NEW n5, NEW s5,
         Each5(op, f7, n1, s1, n2, s2, n3, s3, n4, s4, n5, s5)
  PROVE  Good5(Reg(op, f7, <<<<n1, s1>>, <<n2, s2>>, <<n3, s3>>, <<n4, s4>>, <<n5, s5>>>>), op,
        f7, n1, n2, n3, n4, n5)
  <1>1. PICK a1 : a1 = <<n1, s1>> OBVIOUS
  <1>2. PICK a2 : a2 = <<n2, s2>> OBVIOUS
  <1>3. PICK a3 : a3 = <<n3, s3>> OBVIOUS
  <1>4. PICK a4 : a4 = <<n4, s4>> OBVIOUS
  <1>5. PICK a5 : a5 = <<n5, s5>> OBVIOUS
  <1>6. /\ a1[1] = n1 /\ a1[2] = s1 /\ a2[1] = n2 /\ a2[2] = s2 /\ a3[1] = n3 /\ a3[2] = s3
         /\ a4[1] = n4 /\ a4[2] = s4 /\ a5[1] = n5 /\ a5[2] = s5
    BY <1>1, <1>2, <1>3, <1>4, <1>5
  <1>7. <<a1, a2, a3, a4, a5>> \in Seq({a1, a2, a3, a4, a5})
        /\ Len(<<a1, a2, a3, a4, a5>>) = 5 OBVIOUS
  <1>8. /\ <<a1, a2, a3, a4, a5>>[1] = a1 /\ <<a1, a2, a3, a4, a5>>[2] = a2
         /\ <<a1, a2, a3, a4, a5>>[3] = a3 /\ <<a1, a2, a3, a4, a5>>[4] = a4
         /\ <<a1, a2, a3, a4, a5>>[5] = a5
    OBVIOUS
  <1>9. ASSUME NEW k \in 1 .. 5
        PROVE  Right(<<op, <<a1, a2, a3, a4, a5>>[k][1], f7, <<a1, a2, a3, a4, a5>>[k][2]>>)
    <2>1. k = 1 \/ k = 2 \/ k = 3 \/ k = 4 \/ k = 5 OBVIOUS
    <2> QED BY <1>6, <1>8, <2>1 DEF Each5
  <1>10. /\ AllRight(Reg(op, f7, <<a1, a2, a3, a4, a5>>))
        /\ \A k \in 1 .. 5 : Covers(Reg(op, f7, <<a1, a2, a3, a4, a5>>), op,
           <<a1, a2, a3, a4, a5>>[k][1], f7)
    BY <1>7, <1>9, RegRight, Zenon
  <1>11. /\ Covers(Reg(op, f7, <<a1, a2, a3, a4, a5>>), op, n1, f7)
         /\ Covers(Reg(op, f7, <<a1, a2, a3, a4, a5>>), op, n2, f7)
         /\ Covers(Reg(op, f7, <<a1, a2, a3, a4, a5>>), op, n3, f7)
         /\ Covers(Reg(op, f7, <<a1, a2, a3, a4, a5>>), op, n4, f7)
         /\ Covers(Reg(op, f7, <<a1, a2, a3, a4, a5>>), op, n5, f7)
    <2>1. 1 \in 1 .. 5 /\ 2 \in 1 .. 5 /\ 3 \in 1 .. 5 /\ 4 \in 1 .. 5 /\ 5 \in 1 .. 5 OBVIOUS
    <2> QED BY <1>6, <1>8, <1>10, <2>1, Zenon
  <1>12. Good5(Reg(op, f7, <<a1, a2, a3, a4, a5>>), op, f7, n1, n2, n3, n4, n5)
      BY <1>10, <1>11, Zenon DEF Good5
  <1> QED BY <1>12, <1>1, <1>2, <1>3, <1>4, <1>5, Zenon

\* The same for six.
Each6(op, f7, n1, s1, n2, s2, n3, s3, n4, s4, n5, s5, n6, s6) ==
    /\ Right(<<op, n1, f7, s1>>)
    /\ Right(<<op, n2, f7, s2>>)
    /\ Right(<<op, n3, f7, s3>>)
    /\ Right(<<op, n4, f7, s4>>)
    /\ Right(<<op, n5, f7, s5>>)
    /\ Right(<<op, n6, f7, s6>>)

Good6(s, op, f7, n1, n2, n3, n4, n5, n6) ==
    /\ AllRight(s)
    /\ Covers(s, op, n1, f7)
    /\ Covers(s, op, n2, f7)
    /\ Covers(s, op, n3, f7)
    /\ Covers(s, op, n4, f7)
    /\ Covers(s, op, n5, f7)
    /\ Covers(s, op, n6, f7)

LEMMA Reg6 ==
  ASSUME NEW op, NEW f7, NEW n1, NEW s1, NEW n2, NEW s2, NEW n3, NEW s3, NEW n4, NEW s4,
        NEW n5, NEW s5,
         NEW n6, NEW s6,
         Each6(op, f7, n1, s1, n2, s2, n3, s3, n4, s4, n5, s5, n6, s6)
  PROVE  Good6(Reg(op, f7, <<<<n1, s1>>, <<n2, s2>>, <<n3, s3>>, <<n4, s4>>, <<n5, s5>>,
                              <<n6, s6>>>>), op, f7, n1, n2, n3, n4, n5, n6)
  <1>1. PICK a1 : a1 = <<n1, s1>> OBVIOUS
  <1>2. PICK a2 : a2 = <<n2, s2>> OBVIOUS
  <1>3. PICK a3 : a3 = <<n3, s3>> OBVIOUS
  <1>4. PICK a4 : a4 = <<n4, s4>> OBVIOUS
  <1>5. PICK a5 : a5 = <<n5, s5>> OBVIOUS
  <1>6. PICK a6 : a6 = <<n6, s6>> OBVIOUS
  <1>7. /\ a1[1] = n1 /\ a1[2] = s1 /\ a2[1] = n2 /\ a2[2] = s2 /\ a3[1] = n3 /\ a3[2] = s3
         /\ a4[1] = n4 /\ a4[2] = s4 /\ a5[1] = n5 /\ a5[2] = s5 /\ a6[1] = n6 /\ a6[2] = s6
    BY <1>1, <1>2, <1>3, <1>4, <1>5, <1>6
  <1>8. <<a1, a2, a3, a4, a5, a6>> \in Seq({a1, a2, a3, a4, a5, a6})
        /\ Len(<<a1, a2, a3, a4, a5, a6>>) = 6 OBVIOUS
  <1>9. /\ <<a1, a2, a3, a4, a5, a6>>[1] = a1 /\ <<a1, a2, a3, a4, a5, a6>>[2] = a2
         /\ <<a1, a2, a3, a4, a5, a6>>[3] = a3 /\ <<a1, a2, a3, a4, a5, a6>>[4] = a4
         /\ <<a1, a2, a3, a4, a5, a6>>[5] = a5 /\ <<a1, a2, a3, a4, a5, a6>>[6] = a6
    OBVIOUS
  <1>10. ASSUME NEW k \in 1 .. 6
        PROVE  Right(<<op, <<a1, a2, a3, a4, a5, a6>>[k][1], f7,
              <<a1, a2, a3, a4, a5, a6>>[k][2]>>)
    <2>1. k = 1 \/ k = 2 \/ k = 3 \/ k = 4 \/ k = 5 \/ k = 6 OBVIOUS
    <2> QED BY <1>7, <1>9, <2>1 DEF Each6
  <1>11. /\ AllRight(Reg(op, f7, <<a1, a2, a3, a4, a5, a6>>))
        /\ \A k \in 1 .. 6 : Covers(Reg(op, f7, <<a1, a2, a3, a4, a5, a6>>), op,
           <<a1, a2, a3, a4, a5, a6>>[k][1], f7)
    BY <1>8, <1>10, RegRight, Zenon
  <1>12. /\ Covers(Reg(op, f7, <<a1, a2, a3, a4, a5, a6>>), op, n1, f7)
         /\ Covers(Reg(op, f7, <<a1, a2, a3, a4, a5, a6>>), op, n2, f7)
         /\ Covers(Reg(op, f7, <<a1, a2, a3, a4, a5, a6>>), op, n3, f7)
         /\ Covers(Reg(op, f7, <<a1, a2, a3, a4, a5, a6>>), op, n4, f7)
         /\ Covers(Reg(op, f7, <<a1, a2, a3, a4, a5, a6>>), op, n5, f7)
         /\ Covers(Reg(op, f7, <<a1, a2, a3, a4, a5, a6>>), op, n6, f7)
    <2>1. 1 \in 1 .. 6 /\ 2 \in 1 .. 6 /\ 3 \in 1 .. 6 /\ 4 \in 1 .. 6 /\ 5 \in 1 .. 6
          /\ 6 \in 1 .. 6 OBVIOUS
    <2> QED BY <1>7, <1>9, <1>11, <2>1, Zenon
  <1>13. Good6(Reg(op, f7, <<a1, a2, a3, a4, a5, a6>>), op, f7, n1, n2, n3, n4, n5, n6)
      BY <1>11, <1>12, Zenon DEF Good6
  <1> QED BY <1>13, <1>1, <1>2, <1>3, <1>4, <1>5, <1>6, Zenon

\* The same for eight, in the order of funct3.
Each8(op, f7, s1, s2, s3, s4, s5, s6, s7, s8) ==
    /\ Right(<<op, 0, f7, s1>>)
    /\ Right(<<op, 1, f7, s2>>)
    /\ Right(<<op, 2, f7, s3>>)
    /\ Right(<<op, 3, f7, s4>>)
    /\ Right(<<op, 4, f7, s5>>)
    /\ Right(<<op, 5, f7, s6>>)
    /\ Right(<<op, 6, f7, s7>>)
    /\ Right(<<op, 7, f7, s8>>)

Good8(s, op, f7) ==
    /\ AllRight(s)
    /\ Covers(s, op, 0, f7)
    /\ Covers(s, op, 1, f7)
    /\ Covers(s, op, 2, f7)
    /\ Covers(s, op, 3, f7)
    /\ Covers(s, op, 4, f7)
    /\ Covers(s, op, 5, f7)
    /\ Covers(s, op, 6, f7)
    /\ Covers(s, op, 7, f7)

LEMMA Reg8 ==
  ASSUME NEW op, NEW f7, NEW s1, NEW s2, NEW s3, NEW s4, NEW s5,
         NEW s6, NEW s7, NEW s8,
         Each8(op, f7, s1, s2, s3, s4, s5, s6, s7, s8)
  PROVE  Good8(Reg(op, f7, <<<<0, s1>>, <<1, s2>>, <<2, s3>>, <<3, s4>>, <<4, s5>>,
                              <<5, s6>>, <<6, s7>>, <<7, s8>>>>), op, f7)
  <1>1. PICK a1 : a1 = <<0, s1>> OBVIOUS
  <1>2. PICK a2 : a2 = <<1, s2>> OBVIOUS
  <1>3. PICK a3 : a3 = <<2, s3>> OBVIOUS
  <1>4. PICK a4 : a4 = <<3, s4>> OBVIOUS
  <1>5. PICK a5 : a5 = <<4, s5>> OBVIOUS
  <1>6. PICK a6 : a6 = <<5, s6>> OBVIOUS
  <1>7. PICK a7 : a7 = <<6, s7>> OBVIOUS
  <1>8. PICK a8 : a8 = <<7, s8>> OBVIOUS
  <1>9. /\ a1[1] = 0 /\ a1[2] = s1 /\ a2[1] = 1 /\ a2[2] = s2 /\ a3[1] = 2 /\ a3[2] = s3
         /\ a4[1] = 3 /\ a4[2] = s4 /\ a5[1] = 4 /\ a5[2] = s5 /\ a6[1] = 5 /\ a6[2] = s6
         /\ a7[1] = 6 /\ a7[2] = s7 /\ a8[1] = 7 /\ a8[2] = s8
    BY <1>1, <1>2, <1>3, <1>4, <1>5, <1>6, <1>7, <1>8
  <1>10. <<a1, a2, a3, a4, a5, a6, a7, a8>> \in Seq({a1, a2, a3, a4, a5, a6, a7, a8})
        /\ Len(<<a1, a2, a3, a4, a5, a6, a7, a8>>) = 8 OBVIOUS
  <1>11. /\ <<a1, a2, a3, a4, a5, a6, a7, a8>>[1] = a1
         /\ <<a1, a2, a3, a4, a5, a6, a7, a8>>[2] = a2
         /\ <<a1, a2, a3, a4, a5, a6, a7, a8>>[3] = a3
         /\ <<a1, a2, a3, a4, a5, a6, a7, a8>>[4] = a4
         /\ <<a1, a2, a3, a4, a5, a6, a7, a8>>[5] = a5
         /\ <<a1, a2, a3, a4, a5, a6, a7, a8>>[6] = a6
         /\ <<a1, a2, a3, a4, a5, a6, a7, a8>>[7] = a7
         /\ <<a1, a2, a3, a4, a5, a6, a7, a8>>[8] = a8
    OBVIOUS
  <1>12. ASSUME NEW k \in 1 .. 8
        PROVE  Right(<<op, <<a1, a2, a3, a4, a5, a6, a7, a8>>[k][1], f7,
              <<a1, a2, a3, a4, a5, a6, a7, a8>>[k][2]>>)
    <2>1. k = 1 \/ k = 2 \/ k = 3 \/ k = 4 \/ k = 5 \/ k = 6 \/ k = 7 \/ k = 8 OBVIOUS
    <2> QED BY <1>9, <1>11, <2>1 DEF Each8
  <1>13. /\ AllRight(Reg(op, f7, <<a1, a2, a3, a4, a5, a6, a7, a8>>))
        /\ \A k \in 1 .. 8 : Covers(Reg(op, f7, <<a1, a2, a3, a4, a5, a6, a7, a8>>), op,
           <<a1, a2, a3, a4, a5, a6, a7, a8>>[k][1], f7)
    BY <1>10, <1>12, RegRight, Zenon
  <1>14. /\ Covers(Reg(op, f7, <<a1, a2, a3, a4, a5, a6, a7, a8>>), op, 0, f7)
         /\ Covers(Reg(op, f7, <<a1, a2, a3, a4, a5, a6, a7, a8>>), op, 1, f7)
         /\ Covers(Reg(op, f7, <<a1, a2, a3, a4, a5, a6, a7, a8>>), op, 2, f7)
         /\ Covers(Reg(op, f7, <<a1, a2, a3, a4, a5, a6, a7, a8>>), op, 3, f7)
         /\ Covers(Reg(op, f7, <<a1, a2, a3, a4, a5, a6, a7, a8>>), op, 4, f7)
         /\ Covers(Reg(op, f7, <<a1, a2, a3, a4, a5, a6, a7, a8>>), op, 5, f7)
         /\ Covers(Reg(op, f7, <<a1, a2, a3, a4, a5, a6, a7, a8>>), op, 6, f7)
         /\ Covers(Reg(op, f7, <<a1, a2, a3, a4, a5, a6, a7, a8>>), op, 7, f7)
    <2>1. 1 \in 1 .. 8 /\ 2 \in 1 .. 8 /\ 3 \in 1 .. 8 /\ 4 \in 1 .. 8 /\ 5 \in 1 .. 8
          /\ 6 \in 1 .. 8 /\ 7 \in 1 .. 8 /\ 8 \in 1 .. 8 OBVIOUS
    <2> QED BY <1>9, <1>11, <1>13, <2>1, Zenon
  <1>15. Good8(Reg(op, f7, <<a1, a2, a3, a4, a5, a6, a7, a8>>), op, f7)
      BY <1>13, <1>14, Zenon DEF Good8
  <1> QED BY <1>15, <1>1, <1>2, <1>3, <1>4, <1>5, <1>6, <1>7, <1>8, Zenon

\* Three sequences, and eight.
LEMMA Joined3 ==
  ASSUME NEW s1, NEW s2, NEW s3,
         AllRight(s1), AllRight(s2), AllRight(s3)
  PROVE  /\ AllRight(s1 \o s2 \o s3)
         /\ Within(s1, s1 \o s2 \o s3)
         /\ Within(s2, s1 \o s2 \o s3)
         /\ Within(s3, s1 \o s2 \o s3)
         /\ Before(s1, s1 \o s2 \o s3)
         /\ Lacks(s1) /\ Lacks(s2) /\ Lacks(s3) => Lacks(s1 \o s2 \o s3)
  <1> DEFINE p1 == s1
             p2 == p1 \o s2
             p3 == p2 \o s3
  <1>1. AllRight(p1) OBVIOUS
  <1>2. /\ AllRight(p2) /\ Within(p1, p2) /\ Within(s2, p2) /\ Before(p1, p2)
        /\ Lacks(p1) /\ Lacks(s2) => Lacks(p2)
    <2> HIDE DEF p1
    <2> QED BY <1>1, RightJoined, LacksJoined, Zenon DEF p2, AllRight
  <1>3. /\ AllRight(p3) /\ Within(p2, p3) /\ Within(s3, p3) /\ Before(p2, p3)
        /\ Lacks(p2) /\ Lacks(s3) => Lacks(p3)
    <2> HIDE DEF p2
    <2> QED BY <1>2, RightJoined, LacksJoined, Zenon DEF p3, AllRight
  <1> HIDE DEF p2, p3
  <1>4. /\ Within(s1, p3) /\ Within(s2, p3) /\ Within(s3, p3)
    BY <1>1, <1>2, <1>3, Zenon DEF Within
  <1>5. Lacks(s1) /\ Lacks(s2) /\ Lacks(s3) => Lacks(p3)
    BY <1>2, <1>3, Zenon DEF p1
  <1>6. Before(s1, p3)
    <2>2. Before(s1, p2) BY <1>2, Zenon DEF p1
    <2>3. Before(s1, p3) BY <1>3, <2>2, BeforeBefore, Zenon
    <2> QED BY <2>3
  <1> QED BY <1>3, <1>4, <1>5, <1>6, Zenon DEF p2, p3

LEMMA Joined8 ==
  ASSUME NEW s1, NEW s2, NEW s3, NEW s4, NEW s5, NEW s6, NEW s7, NEW s8,
         AllRight(s1), AllRight(s2), AllRight(s3), AllRight(s4), AllRight(s5), AllRight(s6),
         AllRight(s7), AllRight(s8)
  PROVE  /\ AllRight(s1 \o s2 \o s3 \o s4 \o s5 \o s6 \o s7 \o s8)
         /\ Within(s1, s1 \o s2 \o s3 \o s4 \o s5 \o s6 \o s7 \o s8)
         /\ Within(s2, s1 \o s2 \o s3 \o s4 \o s5 \o s6 \o s7 \o s8)
         /\ Within(s3, s1 \o s2 \o s3 \o s4 \o s5 \o s6 \o s7 \o s8)
         /\ Within(s4, s1 \o s2 \o s3 \o s4 \o s5 \o s6 \o s7 \o s8)
         /\ Within(s5, s1 \o s2 \o s3 \o s4 \o s5 \o s6 \o s7 \o s8)
         /\ Within(s6, s1 \o s2 \o s3 \o s4 \o s5 \o s6 \o s7 \o s8)
         /\ Within(s7, s1 \o s2 \o s3 \o s4 \o s5 \o s6 \o s7 \o s8)
         /\ Within(s8, s1 \o s2 \o s3 \o s4 \o s5 \o s6 \o s7 \o s8)
         /\ Before(s1, s1 \o s2 \o s3 \o s4 \o s5 \o s6 \o s7 \o s8)
         /\ Lacks(s1) /\ Lacks(s2) /\ Lacks(s3) /\ Lacks(s4) /\ Lacks(s5) /\ Lacks(s6)
            /\ Lacks(s7) /\ Lacks(s8) => Lacks(s1 \o s2 \o s3 \o s4 \o s5 \o s6 \o s7 \o s8)
  <1> DEFINE p1 == s1
             p2 == p1 \o s2
             p3 == p2 \o s3
             p4 == p3 \o s4
             p5 == p4 \o s5
             p6 == p5 \o s6
             p7 == p6 \o s7
             p8 == p7 \o s8
  <1>1. AllRight(p1) OBVIOUS
  <1>2. /\ AllRight(p2) /\ Within(p1, p2) /\ Within(s2, p2) /\ Before(p1, p2)
        /\ Lacks(p1) /\ Lacks(s2) => Lacks(p2)
    <2> HIDE DEF p1
    <2> QED BY <1>1, RightJoined, LacksJoined, Zenon DEF p2, AllRight
  <1>3. /\ AllRight(p3) /\ Within(p2, p3) /\ Within(s3, p3) /\ Before(p2, p3)
        /\ Lacks(p2) /\ Lacks(s3) => Lacks(p3)
    <2> HIDE DEF p2
    <2> QED BY <1>2, RightJoined, LacksJoined, Zenon DEF p3, AllRight
  <1>4. /\ AllRight(p4) /\ Within(p3, p4) /\ Within(s4, p4) /\ Before(p3, p4)
        /\ Lacks(p3) /\ Lacks(s4) => Lacks(p4)
    <2> HIDE DEF p3
    <2> QED BY <1>3, RightJoined, LacksJoined, Zenon DEF p4, AllRight
  <1>5. /\ AllRight(p5) /\ Within(p4, p5) /\ Within(s5, p5) /\ Before(p4, p5)
        /\ Lacks(p4) /\ Lacks(s5) => Lacks(p5)
    <2> HIDE DEF p4
    <2> QED BY <1>4, RightJoined, LacksJoined, Zenon DEF p5, AllRight
  <1>6. /\ AllRight(p6) /\ Within(p5, p6) /\ Within(s6, p6) /\ Before(p5, p6)
        /\ Lacks(p5) /\ Lacks(s6) => Lacks(p6)
    <2> HIDE DEF p5
    <2> QED BY <1>5, RightJoined, LacksJoined, Zenon DEF p6, AllRight
  <1>7. /\ AllRight(p7) /\ Within(p6, p7) /\ Within(s7, p7) /\ Before(p6, p7)
        /\ Lacks(p6) /\ Lacks(s7) => Lacks(p7)
    <2> HIDE DEF p6
    <2> QED BY <1>6, RightJoined, LacksJoined, Zenon DEF p7, AllRight
  <1>8. /\ AllRight(p8) /\ Within(p7, p8) /\ Within(s8, p8) /\ Before(p7, p8)
        /\ Lacks(p7) /\ Lacks(s8) => Lacks(p8)
    <2> HIDE DEF p7
    <2> QED BY <1>7, RightJoined, LacksJoined, Zenon DEF p8, AllRight
  <1> HIDE DEF p2, p3, p4, p5, p6, p7, p8
  <1>9. /\ Within(s1, p8) /\ Within(s2, p8) /\ Within(s3, p8) /\ Within(s4, p8)
         /\ Within(s5, p8) /\ Within(s6, p8) /\ Within(s7, p8) /\ Within(s8, p8)
    BY <1>1, <1>2, <1>3, <1>4, <1>5, <1>6, <1>7, <1>8, Zenon DEF Within
  <1>10. Lacks(s1) /\ Lacks(s2) /\ Lacks(s3) /\ Lacks(s4) /\ Lacks(s5) /\ Lacks(s6)
        /\ Lacks(s7) /\ Lacks(s8) => Lacks(p8)
    BY <1>2, <1>3, <1>4, <1>5, <1>6, <1>7, <1>8, Zenon DEF p1
  <1>11. Before(s1, p8)
    <2>2. Before(s1, p2) BY <1>2, Zenon DEF p1
    <2>3. Before(s1, p3) BY <1>3, <2>2, BeforeBefore, Zenon
    <2>4. Before(s1, p4) BY <1>4, <2>3, BeforeBefore, Zenon
    <2>5. Before(s1, p5) BY <1>5, <2>4, BeforeBefore, Zenon
    <2>6. Before(s1, p6) BY <1>6, <2>5, BeforeBefore, Zenon
    <2>7. Before(s1, p7) BY <1>7, <2>6, BeforeBefore, Zenon
    <2>8. Before(s1, p8) BY <1>8, <2>7, BeforeBefore, Zenon
    <2> QED BY <2>8
  <1> QED BY <1>8, <1>9, <1>10, <1>11, Zenon DEF p2, p3, p4, p5, p6, p7, p8

\* The whole registry: its rules are right, and sfence.vma comes first.
LEMMA RulesRight ==
  /\ AllRight(Rules) /\ Fenced(Rules)
  /\ Covers(Rules, 51, 0, 0)
  /\ Covers(Rules, 51, 0, 32)
  /\ Covers(Rules, 19, 0, AnyField)
  /\ Covers(Rules, 3, 2, AnyField)
  /\ Covers(Rules, 35, 2, AnyField)
  /\ Covers(Rules, 99, 0, AnyField)
  /\ Covers(Rules, 111, AnyField, AnyField)
  /\ Covers(Rules, 15, 0, AnyField)
  /\ Covers(Rules, 115, 0, 9)
  /\ Covers(Rules, 15, 1, AnyField)
  /\ Covers(Rules, 3, 0, AnyField)
  /\ Covers(Rules, 3, 1, AnyField)
  /\ Covers(Rules, 3, 3, AnyField)
  /\ Covers(Rules, 3, 4, AnyField)
  /\ Covers(Rules, 3, 5, AnyField)
  /\ Covers(Rules, 3, 6, AnyField)
  /\ Covers(Rules, 55, AnyField, AnyField)
  /\ Covers(Rules, 35, 0, AnyField)
  /\ Covers(Rules, 35, 1, AnyField)
  /\ Covers(Rules, 35, 3, AnyField)
  /\ Covers(Rules, 99, 1, AnyField)
  /\ Covers(Rules, 99, 4, AnyField)
  /\ Covers(Rules, 99, 5, AnyField)
  /\ Covers(Rules, 99, 6, AnyField)
  /\ Covers(Rules, 99, 7, AnyField)
  /\ Covers(Rules, 103, 0, AnyField)
  /\ Covers(Rules, 51, 7, 0)
  /\ Covers(Rules, 51, 6, 0)
  /\ Covers(Rules, 51, 4, 0)
  /\ Covers(Rules, 51, 1, 0)
  /\ Covers(Rules, 51, 5, 0)
  /\ Covers(Rules, 51, 5, 32)
  /\ Covers(Rules, 51, 2, 0)
  /\ Covers(Rules, 51, 3, 0)
  /\ Covers(Rules, 19, 1, 0)
  /\ Covers(Rules, 19, 5, 0)
  /\ Covers(Rules, 19, 5, 32)
  /\ Covers(Rules, 59, 0, 0)
  /\ Covers(Rules, 59, 0, 32)
  /\ Covers(Rules, 59, 1, 0)
  /\ Covers(Rules, 59, 5, 0)
  /\ Covers(Rules, 59, 5, 32)
  /\ Covers(Rules, 19, 7, AnyField)
  /\ Covers(Rules, 19, 6, AnyField)
  /\ Covers(Rules, 19, 4, AnyField)
  /\ Covers(Rules, 27, 0, AnyField)
  /\ Covers(Rules, 19, 2, AnyField)
  /\ Covers(Rules, 19, 3, AnyField)
  /\ Covers(Rules, 23, AnyField, AnyField)
  /\ Covers(Rules, 27, 1, 0)
  /\ Covers(Rules, 27, 5, 0)
  /\ Covers(Rules, 27, 5, 32)
  /\ Covers(Rules, 115, 0, AnyField)
  /\ Covers(Rules, 115, 1, AnyField)
  /\ Covers(Rules, 115, 2, AnyField)
  /\ Covers(Rules, 115, 3, AnyField)
  /\ Covers(Rules, 115, 5, AnyField)
  /\ Covers(Rules, 115, 6, AnyField)
  /\ Covers(Rules, 115, 7, AnyField)
  /\ Covers(Rules, 39, 3, AnyField)
  /\ Covers(Rules, 7, 3, AnyField)
  /\ Covers(Rules, 83, 0, 120)
  /\ Covers(Rules, 83, 0, 112)
  /\ Covers(Rules, 83, 0, 121)
  /\ Covers(Rules, 83, 0, 113)
  /\ Covers(Rules, 51, 0, 1)
  /\ Covers(Rules, 51, 1, 1)
  /\ Covers(Rules, 51, 2, 1)
  /\ Covers(Rules, 51, 3, 1)
  /\ Covers(Rules, 51, 4, 1)
  /\ Covers(Rules, 51, 5, 1)
  /\ Covers(Rules, 51, 6, 1)
  /\ Covers(Rules, 51, 7, 1)
  /\ Covers(Rules, 59, 0, 1)
  /\ Covers(Rules, 59, 4, 1)
  /\ Covers(Rules, 59, 5, 1)
  /\ Covers(Rules, 59, 6, 1)
  /\ Covers(Rules, 59, 7, 1)
  <1> DEFINE c1 == Reg(51, 0, <<<<0, "add">>>>)
             c2 == Reg(51, 32, <<<<0, "sub">>>>)
             c3 == Reg(19, AnyField, <<<<0, "addi">>>>)
             c4 == Reg(3, AnyField, <<<<2, "load">>>>)
             c5 == Reg(35, AnyField, <<<<2, "store">>>>)
             c6 == Reg(99, AnyField, <<<<0, "beq">>>>)
             c7 == Reg(111, AnyField, <<<<AnyField, "jal">>>>)
             c8 == Reg(15, AnyField, <<<<0, "fence">>>>)
             c9 == Reg(115, 9, <<<<0, "fence">>>>)
             c10 == Reg(15, AnyField, <<<<1, "fence">>>>)
             c11 == Reg(3, AnyField, <<<<0, "load">>, <<1, "load">>, <<3, "load">>,
                              <<4, "load">>, <<5, "load">>, <<6, "load">>>>)
             c12 == Reg(55, AnyField, <<<<AnyField, "lui">>>>)
             c13 == Reg(35, AnyField, <<<<0, "store">>, <<1, "store">>, <<3, "store">>>>)
             c14 == Reg(99, AnyField, <<<<1, "bne">>, <<4, "blt">>, <<5, "bge">>,
                              <<6, "bltu">>, <<7, "bgeu">>>>)
             c15 == Reg(103, AnyField, <<<<0, "jalr">>>>)
             c16 == Reg(51, 0, <<<<7, "and">>, <<6, "or">>, <<4, "xor">>, <<1, "sll">>,
                              <<5, "srl">>>>)
             c17 == Reg(51, 32, <<<<5, "sra">>>>)
             c18 == Reg(51, 0, <<<<2, "slt">>, <<3, "sltu">>>>)
             c19 == Reg(19, 0, <<<<1, "slli">>, <<5, "srli">>>>)
             c20 == Reg(19, 32, <<<<5, "srai">>>>)
             c21 == Reg(59, 0, <<<<0, "addw">>>>)
             c22 == Reg(59, 32, <<<<0, "subw">>>>)
             c23 == Reg(59, 0, <<<<1, "sllw">>, <<5, "srlw">>>>)
             c24 == Reg(59, 32, <<<<5, "sraw">>>>)
             c25 == Reg(19, AnyField, <<<<7, "andi">>, <<6, "ori">>, <<4, "xori">>>>)
             c26 == Reg(27, AnyField, <<<<0, "addiw">>>>)
             c27 == Reg(19, AnyField, <<<<2, "slti">>, <<3, "sltiu">>>>)
             c28 == Reg(23, AnyField, <<<<AnyField, "auipc">>>>)
             c29 == Reg(27, 0, <<<<1, "slliw">>, <<5, "srliw">>>>)
             c30 == Reg(27, 32, <<<<5, "sraiw">>>>)

                                          c31 == Reg(115, AnyField,
                                          [k \in 1 .. 7 |-> <<<<0, 1, 2, 3, 5, 6, 7>>[k],
                                          "system">>])
             c32 == Reg(39, AnyField, <<<<3, "fsd">>>>)
             c33 == Reg(7, AnyField, <<<<3, "fld">>>>)
             c34 == Reg(83, 120, <<<<0, "fmv.w.x">>>>)
             c35 == Reg(83, 112, <<<<0, "fmv.x.w">>>>)
             c36 == Reg(83, 121, <<<<0, "fmv.d.x">>>>)
             c37 == Reg(83, 113, <<<<0, "fmv.x.d">>>>)
             c38 == Reg(51, 1, <<<<0, "mul">>, <<1, "mulh">>, <<2, "mulhsu">>,
                              <<3, "mulhu">>, <<4, "div">>, <<5, "divu">>, <<6, "rem">>,
                              <<7, "remu">>>>)
             c39 == Reg(59, 1, <<<<0, "mulw">>, <<4, "divw">>, <<5, "divuw">>,
                              <<6, "remw">>, <<7, "remuw">>>>)
  <1>1. /\ AllRight(c1) /\ Lacks(c1) /\ Covers(c1, 51, 0, 0)
    <2>1. Right(<<51, 0, 0, "add">>)
      <3>1. Architecture!Name(51, 0, 0) = "add"
        BY SMT DEF Architecture!Name
      <3> QED BY <3>1, SMT DEF Right, Fits, Looked, ReservedShift, Sfence, AnyField
    <2>2. 51 # 115 OBVIOUS
    <2> QED BY <2>1, <2>2, Reg1, Zenon
  <1>2. /\ AllRight(c2) /\ Lacks(c2) /\ Covers(c2, 51, 0, 32)
    <2>1. Right(<<51, 0, 32, "sub">>)
      <3>1. Architecture!Name(51, 0, 32) = "sub"
        BY SMT DEF Architecture!Name
      <3> QED BY <3>1, SMT DEF Right, Fits, Looked, ReservedShift, Sfence, AnyField
    <2>2. 51 # 115 OBVIOUS
    <2> QED BY <2>1, <2>2, Reg1, Zenon
  <1>3. /\ AllRight(c3) /\ Lacks(c3) /\ Covers(c3, 19, 0, AnyField)
    <2>1. Right(<<19, 0, AnyField, "addi">>)
      <3>1. \A f7 \in 0 .. 127 : Architecture!Name(19, 0, f7) = "addi"
        BY SMT DEF Architecture!Name
      <3> QED BY <3>1, Evens, SMT DEF Right, Fits, Looked, ReservedShift, Sfence, AnyField
    <2>2. 19 # 115 OBVIOUS
    <2> QED BY <2>1, <2>2, Reg1, Zenon
  <1>4. /\ AllRight(c4) /\ Lacks(c4) /\ Covers(c4, 3, 2, AnyField)
    <2>1. Right(<<3, 2, AnyField, "load">>)
      <3>1. \A f7 \in 0 .. 127 : Architecture!Name(3, 2, f7) = "load"
        BY SMT DEF Architecture!Name
      <3> QED BY <3>1, SMT DEF Right, Fits, Looked, ReservedShift, Sfence, AnyField
    <2>2. 3 # 115 OBVIOUS
    <2> QED BY <2>1, <2>2, Reg1, Zenon
  <1>5. /\ AllRight(c5) /\ Lacks(c5) /\ Covers(c5, 35, 2, AnyField)
    <2>1. Right(<<35, 2, AnyField, "store">>)
      <3>1. \A f7 \in 0 .. 127 : Architecture!Name(35, 2, f7) = "store"
        BY SMT DEF Architecture!Name
      <3> QED BY <3>1, SMT DEF Right, Fits, Looked, ReservedShift, Sfence, AnyField
    <2>2. 35 # 115 OBVIOUS
    <2> QED BY <2>1, <2>2, Reg1, Zenon
  <1>6. /\ AllRight(c6) /\ Lacks(c6) /\ Covers(c6, 99, 0, AnyField)
    <2>1. Right(<<99, 0, AnyField, "beq">>)
      <3>1. \A f7 \in 0 .. 127 : Architecture!Name(99, 0, f7) = "beq"
        BY SMT DEF Architecture!Name
      <3> QED BY <3>1, SMT DEF Right, Fits, Looked, ReservedShift, Sfence, AnyField
    <2>2. 99 # 115 OBVIOUS
    <2> QED BY <2>1, <2>2, Reg1, Zenon
  <1>7. /\ AllRight(c7) /\ Lacks(c7) /\ Covers(c7, 111, AnyField, AnyField)
    <2>1. Right(<<111, AnyField, AnyField, "jal">>)
      <3>1. \A f3 \in 0 .. 7, f7 \in 0 .. 127 : Architecture!Name(111, f3, f7) = "jal"
        BY SMT DEF Architecture!Name
      <3> QED BY <3>1, SMT DEF Right, Fits, Looked, ReservedShift, Sfence, AnyField
    <2>2. 111 # 115 OBVIOUS
    <2> QED BY <2>1, <2>2, Reg1, Zenon
  <1>8. /\ AllRight(c8) /\ Lacks(c8) /\ Covers(c8, 15, 0, AnyField)
    <2>1. Right(<<15, 0, AnyField, "fence">>)
      <3>1. \A f7 \in 0 .. 127 : Architecture!Name(15, 0, f7) = "fence"
        BY SMT DEF Architecture!Name
      <3> QED BY <3>1, SMT DEF Right, Fits, Looked, ReservedShift, Sfence, AnyField
    <2>2. 15 # 115 OBVIOUS
    <2> QED BY <2>1, <2>2, Reg1, Zenon
  <1>9. /\ AllRight(c9) /\ Fenced(c9) /\ Covers(c9, 115, 0, 9)
    <2>1. Right(<<115, 0, 9, "fence">>)
      <3>1. Architecture!Name(115, 0, 9) = "fence"
        BY SMT DEF Architecture!Name
      <3>2. ASSUME NEW g3 \in 0 .. 7, NEW g7 \in 0 .. 127,
                  Fits(115, 0, 9, g3, g7)
           PROVE  Architecture!Name(115, g3, g7) = "fence"
        <4>1. g3 = 0 BY <3>2, SMT DEF Fits, AnyField
        <4>2. g7 = 9 BY <3>2, SMT DEF Fits, Looked, AnyField
        <4> QED BY <3>1, <4>1, <4>2
      <3>3. Named(115, 0, 9, "fence") BY <3>2, Zenon DEF Named
      <3> QED BY <3>3, RightNamed, Zenon
    <2> DEFINE names == <<<<0, "fence">>>>
    <2>2. PICK a : a = <<0, "fence">> OBVIOUS
    <2>3. a[1] = 0 /\ a[2] = "fence" /\ <<a>> \in Seq({a}) /\ <<a>>[1] = a /\ Len(<<a>>) = 1
        BY <2>2
    <2>4. PICK t : t = <<a>> OBVIOUS
    <2>5. /\ Len(Reg(115, 9, <<a>>)) = 1
          /\ Reg(115, 9, <<a>>)[1] = <<115, <<a>>[1][1], 9, <<a>>[1][2]>>
      <3>1. t \in Seq({a}) /\ Len(t) = 1 BY <2>3, <2>4, Zenon
      <3>2. /\ Len(Reg(115, 9, t)) = Len(t)
            /\ \A k \in 1 .. Len(t) : Reg(115, 9, t)[k] = <<115, t[k][1], 9, t[k][2]>>
        <4>1. PICK op, f7 : op = 115 /\ f7 = 9 OBVIOUS
        <4>2. /\ Len(Reg(op, f7, t)) = Len(t)
              /\ \A k \in 1 .. Len(t) : Reg(op, f7, t)[k] = <<op, t[k][1], f7, t[k][2]>>
          BY <3>1, RegIs
        <4> QED BY <4>1, <4>2, Zenon
      <3>3. 1 \in 1 .. Len(t) BY <3>1
      <3>4. Reg(115, 9, t)[1] = <<115, t[1][1], 9, t[1][2]>> BY <3>2, <3>3, Zenon
      <3> QED BY <2>4, <3>1, <3>2, <3>4, Zenon
    <2>6. PICK r : r = <<115, 0, 9, "fence">> OBVIOUS
    <2>7. Reg(115, 9, <<a>>)[1] = r BY <2>3, <2>5, <2>6, Zenon
    <2>8. r[1] = 115 /\ r[2] = 0 /\ r[3] = 9 /\ r[4] = "fence" BY <2>6
    <2>9. Fenced(Reg(115, 9, <<a>>)) BY <2>5, <2>7, <2>8, FencedRule, Zenon
    <2>10. Fenced(c9) BY <2>2, <2>9, Zenon
    <2> QED BY <2>1, <2>10, Reg1, Zenon
  <1>10. /\ AllRight(c10) /\ Covers(c10, 15, 1, AnyField)
    <2>1. Right(<<15, 1, AnyField, "fence">>)
      <3>1. \A f7 \in 0 .. 127 : Architecture!Name(15, 1, f7) = "fence"
        BY SMT DEF Architecture!Name
      <3> QED BY <3>1, SMT DEF Right, Fits, Looked, ReservedShift, Sfence, AnyField
    <2> QED BY <2>1, Reg1, Zenon
  <1>11. /\ AllRight(c11) /\ Covers(c11, 3, 0, AnyField) /\ Covers(c11, 3, 1, AnyField)
         /\ Covers(c11, 3, 3, AnyField) /\ Covers(c11, 3, 4, AnyField)
         /\ Covers(c11, 3, 5, AnyField) /\ Covers(c11, 3, 6, AnyField)
    <2>1. Right(<<3, 0, AnyField, "load">>)
      <3>1. \A f7 \in 0 .. 127 : Architecture!Name(3, 0, f7) = "load"
        BY SMT DEF Architecture!Name
      <3> QED BY <3>1, SMT DEF Right, Fits, Looked, ReservedShift, Sfence, AnyField
    <2>2. Right(<<3, 1, AnyField, "load">>)
      <3>1. \A f7 \in 0 .. 127 : Architecture!Name(3, 1, f7) = "load"
        BY SMT DEF Architecture!Name
      <3> QED BY <3>1, SMT DEF Right, Fits, Looked, ReservedShift, Sfence, AnyField
    <2>3. Right(<<3, 3, AnyField, "load">>)
      <3>1. \A f7 \in 0 .. 127 : Architecture!Name(3, 3, f7) = "load"
        BY SMT DEF Architecture!Name
      <3> QED BY <3>1, SMT DEF Right, Fits, Looked, ReservedShift, Sfence, AnyField
    <2>4. Right(<<3, 4, AnyField, "load">>)
      <3>1. \A f7 \in 0 .. 127 : Architecture!Name(3, 4, f7) = "load"
        BY SMT DEF Architecture!Name
      <3> QED BY <3>1, SMT DEF Right, Fits, Looked, ReservedShift, Sfence, AnyField
    <2>5. Right(<<3, 5, AnyField, "load">>)
      <3>1. \A f7 \in 0 .. 127 : Architecture!Name(3, 5, f7) = "load"
        BY SMT DEF Architecture!Name
      <3> QED BY <3>1, SMT DEF Right, Fits, Looked, ReservedShift, Sfence, AnyField
    <2>6. Right(<<3, 6, AnyField, "load">>)
      <3>1. \A f7 \in 0 .. 127 : Architecture!Name(3, 6, f7) = "load"
        BY SMT DEF Architecture!Name
      <3> QED BY <3>1, SMT DEF Right, Fits, Looked, ReservedShift, Sfence, AnyField
    <2>7. PICK op, e7, n1, s1, n2, s2, n3, s3, n4, s4, n5, s5, n6, s6 :
             op = 3 /\ e7 = AnyField /\ n1 = 0 /\ s1 = "load" /\ n2 = 1 /\ s2 = "load"
             /\ n3 = 3 /\ s3 = "load" /\ n4 = 4 /\ s4 = "load" /\ n5 = 5 /\ s5 = "load"
                /\ n6 = 6 /\ s6 = "load" OBVIOUS
    <2>8. /\ Right(<<op, n1, e7, s1>>) /\ Right(<<op, n2, e7, s2>>)
           /\ Right(<<op, n3, e7, s3>>) /\ Right(<<op, n4, e7, s4>>)
           /\ Right(<<op, n5, e7, s5>>) /\ Right(<<op, n6, e7, s6>>)
      BY <2>7, <2>1, <2>2, <2>3, <2>4, <2>5, <2>6, Zenon
    <2>9. Each6(op, e7, n1, s1, n2, s2, n3, s3, n4, s4, n5, s5, n6, s6) BY <2>8, Zenon DEF Each6
    <2>10. Good6(Reg(op, e7,
          <<<<n1, s1>>, <<n2, s2>>, <<n3, s3>>, <<n4, s4>>, <<n5, s5>>, <<n6, s6>>>>), op, e7,
          n1, n2, n3, n4, n5, n6)
      BY <2>9, Reg6, Zenon
    <2>11. Good6(c11, 3, AnyField, 0, 1, 3, 4, 5, 6) BY <2>7, <2>10, Zenon
    <2> HIDE DEF c11
    <2> QED BY <2>11, Zenon DEF Good6
  <1>12. /\ AllRight(c12) /\ Covers(c12, 55, AnyField, AnyField)
    <2>1. Right(<<55, AnyField, AnyField, "lui">>)
      <3>1. \A f3 \in 0 .. 7, f7 \in 0 .. 127 : Architecture!Name(55, f3, f7) = "lui"
        BY SMT DEF Architecture!Name
      <3> QED BY <3>1, SMT DEF Right, Fits, Looked, ReservedShift, Sfence, AnyField
    <2> QED BY <2>1, Reg1, Zenon
  <1>13. /\ AllRight(c13) /\ Covers(c13, 35, 0, AnyField) /\ Covers(c13, 35, 1, AnyField)
         /\ Covers(c13, 35, 3, AnyField)
    <2>1. Right(<<35, 0, AnyField, "store">>)
      <3>1. \A f7 \in 0 .. 127 : Architecture!Name(35, 0, f7) = "store"
        BY SMT DEF Architecture!Name
      <3> QED BY <3>1, SMT DEF Right, Fits, Looked, ReservedShift, Sfence, AnyField
    <2>2. Right(<<35, 1, AnyField, "store">>)
      <3>1. \A f7 \in 0 .. 127 : Architecture!Name(35, 1, f7) = "store"
        BY SMT DEF Architecture!Name
      <3> QED BY <3>1, SMT DEF Right, Fits, Looked, ReservedShift, Sfence, AnyField
    <2>3. Right(<<35, 3, AnyField, "store">>)
      <3>1. \A f7 \in 0 .. 127 : Architecture!Name(35, 3, f7) = "store"
        BY SMT DEF Architecture!Name
      <3> QED BY <3>1, SMT DEF Right, Fits, Looked, ReservedShift, Sfence, AnyField
    <2> QED BY <2>1, <2>2, <2>3, Reg3, Zenon
  <1>14. /\ AllRight(c14) /\ Covers(c14, 99, 1, AnyField) /\ Covers(c14, 99, 4, AnyField)
         /\ Covers(c14, 99, 5, AnyField) /\ Covers(c14, 99, 6, AnyField)
         /\ Covers(c14, 99, 7, AnyField)
    <2>1. Right(<<99, 1, AnyField, "bne">>)
      <3>1. \A f7 \in 0 .. 127 : Architecture!Name(99, 1, f7) = "bne"
        BY SMT DEF Architecture!Name
      <3> QED BY <3>1, SMT DEF Right, Fits, Looked, ReservedShift, Sfence, AnyField
    <2>2. Right(<<99, 4, AnyField, "blt">>)
      <3>1. \A f7 \in 0 .. 127 : Architecture!Name(99, 4, f7) = "blt"
        BY SMT DEF Architecture!Name
      <3> QED BY <3>1, SMT DEF Right, Fits, Looked, ReservedShift, Sfence, AnyField
    <2>3. Right(<<99, 5, AnyField, "bge">>)
      <3>1. \A f7 \in 0 .. 127 : Architecture!Name(99, 5, f7) = "bge"
        BY SMT DEF Architecture!Name
      <3> QED BY <3>1, SMT DEF Right, Fits, Looked, ReservedShift, Sfence, AnyField
    <2>4. Right(<<99, 6, AnyField, "bltu">>)
      <3>1. \A f7 \in 0 .. 127 : Architecture!Name(99, 6, f7) = "bltu"
        BY SMT DEF Architecture!Name
      <3> QED BY <3>1, SMT DEF Right, Fits, Looked, ReservedShift, Sfence, AnyField
    <2>5. Right(<<99, 7, AnyField, "bgeu">>)
      <3>1. \A f7 \in 0 .. 127 : Architecture!Name(99, 7, f7) = "bgeu"
        BY SMT DEF Architecture!Name
      <3> QED BY <3>1, SMT DEF Right, Fits, Looked, ReservedShift, Sfence, AnyField
    <2>6. PICK op, e7, n1, s1, n2, s2, n3, s3, n4, s4, n5, s5 :
             op = 99 /\ e7 = AnyField /\ n1 = 1 /\ s1 = "bne" /\ n2 = 4 /\ s2 = "blt"
             /\ n3 = 5 /\ s3 = "bge" /\ n4 = 6 /\ s4 = "bltu" /\ n5 = 7 /\ s5 = "bgeu" OBVIOUS
    <2>7. /\ Right(<<op, n1, e7, s1>>) /\ Right(<<op, n2, e7, s2>>)
           /\ Right(<<op, n3, e7, s3>>) /\ Right(<<op, n4, e7, s4>>)
           /\ Right(<<op, n5, e7, s5>>)
      BY <2>6, <2>1, <2>2, <2>3, <2>4, <2>5, Zenon
    <2>8. Each5(op, e7, n1, s1, n2, s2, n3, s3, n4, s4, n5, s5) BY <2>7, Zenon DEF Each5
    <2>9. Good5(Reg(op, e7, <<<<n1, s1>>, <<n2, s2>>, <<n3, s3>>, <<n4, s4>>, <<n5, s5>>>>),
          op, e7, n1, n2, n3, n4, n5)
      BY <2>8, Reg5, Zenon
    <2>10. Good5(c14, 99, AnyField, 1, 4, 5, 6, 7) BY <2>6, <2>9, Zenon
    <2> HIDE DEF c14
    <2> QED BY <2>10, Zenon DEF Good5
  <1>15. /\ AllRight(c15) /\ Covers(c15, 103, 0, AnyField)
    <2>1. Right(<<103, 0, AnyField, "jalr">>)
      <3>1. \A f7 \in 0 .. 127 : Architecture!Name(103, 0, f7) = "jalr"
        BY SMT DEF Architecture!Name
      <3> QED BY <3>1, SMT DEF Right, Fits, Looked, ReservedShift, Sfence, AnyField
    <2> QED BY <2>1, Reg1, Zenon
  <1>16. /\ AllRight(c16) /\ Covers(c16, 51, 7, 0) /\ Covers(c16, 51, 6, 0)
         /\ Covers(c16, 51, 4, 0) /\ Covers(c16, 51, 1, 0) /\ Covers(c16, 51, 5, 0)
    <2>1. Right(<<51, 7, 0, "and">>)
      <3>1. Architecture!Name(51, 7, 0) = "and"
        BY SMT DEF Architecture!Name
      <3> QED BY <3>1, SMT DEF Right, Fits, Looked, ReservedShift, Sfence, AnyField
    <2>2. Right(<<51, 6, 0, "or">>)
      <3>1. Architecture!Name(51, 6, 0) = "or"
        BY SMT DEF Architecture!Name
      <3> QED BY <3>1, SMT DEF Right, Fits, Looked, ReservedShift, Sfence, AnyField
    <2>3. Right(<<51, 4, 0, "xor">>)
      <3>1. Architecture!Name(51, 4, 0) = "xor"
        BY SMT DEF Architecture!Name
      <3> QED BY <3>1, SMT DEF Right, Fits, Looked, ReservedShift, Sfence, AnyField
    <2>4. Right(<<51, 1, 0, "sll">>)
      <3>1. Architecture!Name(51, 1, 0) = "sll"
        BY SMT DEF Architecture!Name
      <3> QED BY <3>1, SMT DEF Right, Fits, Looked, ReservedShift, Sfence, AnyField
    <2>5. Right(<<51, 5, 0, "srl">>)
      <3>1. Architecture!Name(51, 5, 0) = "srl"
        BY SMT DEF Architecture!Name
      <3> QED BY <3>1, SMT DEF Right, Fits, Looked, ReservedShift, Sfence, AnyField
    <2>6. PICK op, e7, n1, s1, n2, s2, n3, s3, n4, s4, n5, s5 :
             op = 51 /\ e7 = 0 /\ n1 = 7 /\ s1 = "and" /\ n2 = 6 /\ s2 = "or" /\ n3 = 4
             /\ s3 = "xor" /\ n4 = 1 /\ s4 = "sll" /\ n5 = 5 /\ s5 = "srl" OBVIOUS
    <2>7. /\ Right(<<op, n1, e7, s1>>) /\ Right(<<op, n2, e7, s2>>)
           /\ Right(<<op, n3, e7, s3>>) /\ Right(<<op, n4, e7, s4>>)
           /\ Right(<<op, n5, e7, s5>>)
      BY <2>6, <2>1, <2>2, <2>3, <2>4, <2>5, Zenon
    <2>8. Each5(op, e7, n1, s1, n2, s2, n3, s3, n4, s4, n5, s5) BY <2>7, Zenon DEF Each5
    <2>9. Good5(Reg(op, e7, <<<<n1, s1>>, <<n2, s2>>, <<n3, s3>>, <<n4, s4>>, <<n5, s5>>>>),
          op, e7, n1, n2, n3, n4, n5)
      BY <2>8, Reg5, Zenon
    <2>10. Good5(c16, 51, 0, 7, 6, 4, 1, 5) BY <2>6, <2>9, Zenon
    <2> HIDE DEF c16
    <2> QED BY <2>10, Zenon DEF Good5
  <1>17. /\ AllRight(c17) /\ Covers(c17, 51, 5, 32)
    <2>1. Right(<<51, 5, 32, "sra">>)
      <3>1. Architecture!Name(51, 5, 32) = "sra"
        BY SMT DEF Architecture!Name
      <3> QED BY <3>1, SMT DEF Right, Fits, Looked, ReservedShift, Sfence, AnyField
    <2> QED BY <2>1, Reg1, Zenon
  <1>18. /\ AllRight(c18) /\ Covers(c18, 51, 2, 0) /\ Covers(c18, 51, 3, 0)
    <2>1. Right(<<51, 2, 0, "slt">>)
      <3>1. Architecture!Name(51, 2, 0) = "slt"
        BY SMT DEF Architecture!Name
      <3> QED BY <3>1, SMT DEF Right, Fits, Looked, ReservedShift, Sfence, AnyField
    <2>2. Right(<<51, 3, 0, "sltu">>)
      <3>1. Architecture!Name(51, 3, 0) = "sltu"
        BY SMT DEF Architecture!Name
      <3> QED BY <3>1, SMT DEF Right, Fits, Looked, ReservedShift, Sfence, AnyField
    <2> QED BY <2>1, <2>2, Reg2, Zenon
  <1>19. /\ AllRight(c19) /\ Covers(c19, 19, 1, 0) /\ Covers(c19, 19, 5, 0)
    <2>1. Right(<<19, 1, 0, "slli">>)
      <3>1. \A f7 \in {0, 1} : Architecture!Name(19, 1, f7) = "slli"
        BY SMT DEF Architecture!Name
      <3> QED BY <3>1, Evens, SMT DEF Right, Fits, Looked, ReservedShift, Sfence, AnyField
    <2>2. Right(<<19, 5, 0, "srli">>)
      <3>1. \A f7 \in {0, 1} : Architecture!Name(19, 5, f7) = "srli"
        BY SMT DEF Architecture!Name
      <3> QED BY <3>1, Evens, SMT DEF Right, Fits, Looked, ReservedShift, Sfence, AnyField
    <2> QED BY <2>1, <2>2, Reg2, Zenon
  <1>20. /\ AllRight(c20) /\ Covers(c20, 19, 5, 32)
    <2>1. Right(<<19, 5, 32, "srai">>)
      <3>1. \A f7 \in {32, 33} : Architecture!Name(19, 5, f7) = "srai"
        BY SMT DEF Architecture!Name
      <3> QED BY <3>1, Evens, SMT DEF Right, Fits, Looked, ReservedShift, Sfence, AnyField
    <2> QED BY <2>1, Reg1, Zenon
  <1>21. /\ AllRight(c21) /\ Covers(c21, 59, 0, 0)
    <2>1. Right(<<59, 0, 0, "addw">>)
      <3>1. Architecture!Name(59, 0, 0) = "addw"
        BY SMT DEF Architecture!Name
      <3> QED BY <3>1, SMT DEF Right, Fits, Looked, ReservedShift, Sfence, AnyField
    <2> QED BY <2>1, Reg1, Zenon
  <1>22. /\ AllRight(c22) /\ Covers(c22, 59, 0, 32)
    <2>1. Right(<<59, 0, 32, "subw">>)
      <3>1. Architecture!Name(59, 0, 32) = "subw"
        BY SMT DEF Architecture!Name
      <3> QED BY <3>1, SMT DEF Right, Fits, Looked, ReservedShift, Sfence, AnyField
    <2> QED BY <2>1, Reg1, Zenon
  <1>23. /\ AllRight(c23) /\ Covers(c23, 59, 1, 0) /\ Covers(c23, 59, 5, 0)
    <2>1. Right(<<59, 1, 0, "sllw">>)
      <3>1. Architecture!Name(59, 1, 0) = "sllw"
        BY SMT DEF Architecture!Name
      <3> QED BY <3>1, SMT DEF Right, Fits, Looked, ReservedShift, Sfence, AnyField
    <2>2. Right(<<59, 5, 0, "srlw">>)
      <3>1. Architecture!Name(59, 5, 0) = "srlw"
        BY SMT DEF Architecture!Name
      <3> QED BY <3>1, SMT DEF Right, Fits, Looked, ReservedShift, Sfence, AnyField
    <2> QED BY <2>1, <2>2, Reg2, Zenon
  <1>24. /\ AllRight(c24) /\ Covers(c24, 59, 5, 32)
    <2>1. Right(<<59, 5, 32, "sraw">>)
      <3>1. Architecture!Name(59, 5, 32) = "sraw"
        BY SMT DEF Architecture!Name
      <3> QED BY <3>1, SMT DEF Right, Fits, Looked, ReservedShift, Sfence, AnyField
    <2> QED BY <2>1, Reg1, Zenon
  <1>25. /\ AllRight(c25) /\ Covers(c25, 19, 7, AnyField) /\ Covers(c25, 19, 6, AnyField)
         /\ Covers(c25, 19, 4, AnyField)
    <2>1. Right(<<19, 7, AnyField, "andi">>)
      <3>1. \A f7 \in 0 .. 127 : Architecture!Name(19, 7, f7) = "andi"
        BY SMT DEF Architecture!Name
      <3> QED BY <3>1, Evens, SMT DEF Right, Fits, Looked, ReservedShift, Sfence, AnyField
    <2>2. Right(<<19, 6, AnyField, "ori">>)
      <3>1. \A f7 \in 0 .. 127 : Architecture!Name(19, 6, f7) = "ori"
        BY SMT DEF Architecture!Name
      <3> QED BY <3>1, Evens, SMT DEF Right, Fits, Looked, ReservedShift, Sfence, AnyField
    <2>3. Right(<<19, 4, AnyField, "xori">>)
      <3>1. \A f7 \in 0 .. 127 : Architecture!Name(19, 4, f7) = "xori"
        BY SMT DEF Architecture!Name
      <3> QED BY <3>1, Evens, SMT DEF Right, Fits, Looked, ReservedShift, Sfence, AnyField
    <2> QED BY <2>1, <2>2, <2>3, Reg3, Zenon
  <1>26. /\ AllRight(c26) /\ Covers(c26, 27, 0, AnyField)
    <2>1. Right(<<27, 0, AnyField, "addiw">>)
      <3>1. \A f7 \in 0 .. 127 : Architecture!Name(27, 0, f7) = "addiw"
        BY SMT DEF Architecture!Name
      <3>2. ASSUME NEW g3 \in 0 .. 7, NEW g7 \in 0 .. 127,
                  Fits(27, 0, AnyField, g3, g7)
           PROVE  Architecture!Name(27, g3, g7) = "addiw"
        <4>1. g3 = 0 BY <3>2, SMT DEF Fits, AnyField
        <4> QED BY <3>1, <4>1
      <3>3. Named(27, 0, AnyField, "addiw") BY <3>2, Zenon DEF Named
      <3> QED BY <3>3, RightNamed, Zenon
    <2> QED BY <2>1, Reg1, Zenon
  <1>27. /\ AllRight(c27) /\ Covers(c27, 19, 2, AnyField) /\ Covers(c27, 19, 3, AnyField)
    <2>1. Right(<<19, 2, AnyField, "slti">>)
      <3>1. \A f7 \in 0 .. 127 : Architecture!Name(19, 2, f7) = "slti"
        BY SMT DEF Architecture!Name
      <3> QED BY <3>1, Evens, SMT DEF Right, Fits, Looked, ReservedShift, Sfence, AnyField
    <2>2. Right(<<19, 3, AnyField, "sltiu">>)
      <3>1. \A f7 \in 0 .. 127 : Architecture!Name(19, 3, f7) = "sltiu"
        BY SMT DEF Architecture!Name
      <3> QED BY <3>1, Evens, SMT DEF Right, Fits, Looked, ReservedShift, Sfence, AnyField
    <2> QED BY <2>1, <2>2, Reg2, Zenon
  <1>28. /\ AllRight(c28) /\ Covers(c28, 23, AnyField, AnyField)
    <2>1. Right(<<23, AnyField, AnyField, "auipc">>)
      <3>1. \A f3 \in 0 .. 7, f7 \in 0 .. 127 : Architecture!Name(23, f3, f7) = "auipc"
        BY SMT DEF Architecture!Name
      <3> QED BY <3>1, SMT DEF Right, Fits, Looked, ReservedShift, Sfence, AnyField
    <2> QED BY <2>1, Reg1, Zenon
  <1>29. /\ AllRight(c29) /\ Covers(c29, 27, 1, 0) /\ Covers(c29, 27, 5, 0)
    <2>1. Right(<<27, 1, 0, "slliw">>)
      <3>1. Architecture!Name(27, 1, 0) = "slliw"
        BY SMT DEF Architecture!Name
      <3>2. ASSUME NEW g3 \in 0 .. 7, NEW g7 \in 0 .. 127,
                  Fits(27, 1, 0, g3, g7)
           PROVE  Architecture!Name(27, g3, g7) = "slliw"
        <4>1. g3 = 1 BY <3>2, SMT DEF Fits, AnyField
        <4>2. g7 % 2 # 1 BY <3>2, <4>1, SMT DEF Fits, ReservedShift
        <4>3. Looked(27, g3, g7) = g7 - (g7 % 2) BY <4>1, SMT DEF Looked
        <4>4. g7 - (g7 % 2) = 0 BY <3>2, <4>3, SMT DEF Fits, AnyField
        <4>5. g7 = 0 BY <4>2, <4>4, Evens, SMT
        <4> QED BY <3>1, <4>1, <4>5
      <3>3. Named(27, 1, 0, "slliw") BY <3>2, Zenon DEF Named
      <3> QED BY <3>3, RightNamed, Zenon
    <2>2. Right(<<27, 5, 0, "srliw">>)
      <3>1. Architecture!Name(27, 5, 0) = "srliw"
        BY SMT DEF Architecture!Name
      <3>2. ASSUME NEW g3 \in 0 .. 7, NEW g7 \in 0 .. 127,
                  Fits(27, 5, 0, g3, g7)
           PROVE  Architecture!Name(27, g3, g7) = "srliw"
        <4>1. g3 = 5 BY <3>2, SMT DEF Fits, AnyField
        <4>2. g7 % 2 # 1 BY <3>2, <4>1, SMT DEF Fits, ReservedShift
        <4>3. Looked(27, g3, g7) = g7 - (g7 % 2) BY <4>1, SMT DEF Looked
        <4>4. g7 - (g7 % 2) = 0 BY <3>2, <4>3, SMT DEF Fits, AnyField
        <4>5. g7 = 0 BY <4>2, <4>4, Evens, SMT
        <4> QED BY <3>1, <4>1, <4>5
      <3>3. Named(27, 5, 0, "srliw") BY <3>2, Zenon DEF Named
      <3> QED BY <3>3, RightNamed, Zenon
    <2> QED BY <2>1, <2>2, Reg2, Zenon
  <1>30. /\ AllRight(c30) /\ Covers(c30, 27, 5, 32)
    <2>1. Right(<<27, 5, 32, "sraiw">>)
      <3>1. Architecture!Name(27, 5, 32) = "sraiw"
        BY SMT DEF Architecture!Name
      <3>2. ASSUME NEW g3 \in 0 .. 7, NEW g7 \in 0 .. 127,
                  Fits(27, 5, 32, g3, g7)
           PROVE  Architecture!Name(27, g3, g7) = "sraiw"
        <4>1. g3 = 5 BY <3>2, SMT DEF Fits, AnyField
        <4>2. g7 % 2 # 1 BY <3>2, <4>1, SMT DEF Fits, ReservedShift
        <4>3. Looked(27, g3, g7) = g7 - (g7 % 2) BY <4>1, SMT DEF Looked
        <4>4. g7 - (g7 % 2) = 32 BY <3>2, <4>3, SMT DEF Fits, AnyField
        <4>5. g7 = 32 BY <4>2, <4>4, Evens, SMT
        <4> QED BY <3>1, <4>1, <4>5
      <3>3. Named(27, 5, 32, "sraiw") BY <3>2, Zenon DEF Named
      <3> QED BY <3>3, RightNamed, Zenon
    <2> QED BY <2>1, Reg1, Zenon
  <1>31. /\ AllRight(c31) /\ Covers(c31, 115, 0, AnyField) /\ Covers(c31, 115, 1, AnyField)
         /\ Covers(c31, 115, 2, AnyField) /\ Covers(c31, 115, 3, AnyField)
         /\ Covers(c31, 115, 5, AnyField) /\ Covers(c31, 115, 6, AnyField)
         /\ Covers(c31, 115, 7, AnyField)
    <2>1. Right(<<115, 0, AnyField, "system">>)
      <3>1. \A f7 \in 0 .. 127 : f7 # 9 => Architecture!Name(115, 0, f7) = "system"
        BY SMT DEF Architecture!Name
      <3>2. ASSUME NEW g3 \in 0 .. 7, NEW g7 \in 0 .. 127,
                  Fits(115, 0, AnyField, g3, g7)
           PROVE  Architecture!Name(115, g3, g7) = "system"
        <4>1. g3 = 0 BY <3>2, SMT DEF Fits, AnyField
        <4>2. g7 # 9 BY <3>2, <4>1, SMT DEF Fits, Sfence
        <4> QED BY <3>1, <4>1, <4>2
      <3>3. Named(115, 0, AnyField, "system") BY <3>2, Zenon DEF Named
      <3> QED BY <3>3, RightNamed, Zenon
    <2>2. Right(<<115, 1, AnyField, "system">>)
      <3>1. \A f7 \in 0 .. 127 : Architecture!Name(115, 1, f7) = "system"
        BY SMT DEF Architecture!Name
      <3>2. ASSUME NEW g3 \in 0 .. 7, NEW g7 \in 0 .. 127,
                  Fits(115, 1, AnyField, g3, g7)
           PROVE  Architecture!Name(115, g3, g7) = "system"
        <4>1. g3 = 1 BY <3>2, SMT DEF Fits, AnyField
        <4> QED BY <3>1, <4>1
      <3>3. Named(115, 1, AnyField, "system") BY <3>2, Zenon DEF Named
      <3> QED BY <3>3, RightNamed, Zenon
    <2>3. Right(<<115, 2, AnyField, "system">>)
      <3>1. \A f7 \in 0 .. 127 : Architecture!Name(115, 2, f7) = "system"
        BY SMT DEF Architecture!Name
      <3>2. ASSUME NEW g3 \in 0 .. 7, NEW g7 \in 0 .. 127,
                  Fits(115, 2, AnyField, g3, g7)
           PROVE  Architecture!Name(115, g3, g7) = "system"
        <4>1. g3 = 2 BY <3>2, SMT DEF Fits, AnyField
        <4> QED BY <3>1, <4>1
      <3>3. Named(115, 2, AnyField, "system") BY <3>2, Zenon DEF Named
      <3> QED BY <3>3, RightNamed, Zenon
    <2>4. Right(<<115, 3, AnyField, "system">>)
      <3>1. \A f7 \in 0 .. 127 : Architecture!Name(115, 3, f7) = "system"
        BY SMT DEF Architecture!Name
      <3>2. ASSUME NEW g3 \in 0 .. 7, NEW g7 \in 0 .. 127,
                  Fits(115, 3, AnyField, g3, g7)
           PROVE  Architecture!Name(115, g3, g7) = "system"
        <4>1. g3 = 3 BY <3>2, SMT DEF Fits, AnyField
        <4> QED BY <3>1, <4>1
      <3>3. Named(115, 3, AnyField, "system") BY <3>2, Zenon DEF Named
      <3> QED BY <3>3, RightNamed, Zenon
    <2>5. Right(<<115, 5, AnyField, "system">>)
      <3>1. \A f7 \in 0 .. 127 : Architecture!Name(115, 5, f7) = "system"
        BY SMT DEF Architecture!Name
      <3>2. ASSUME NEW g3 \in 0 .. 7, NEW g7 \in 0 .. 127,
                  Fits(115, 5, AnyField, g3, g7)
           PROVE  Architecture!Name(115, g3, g7) = "system"
        <4>1. g3 = 5 BY <3>2, SMT DEF Fits, AnyField
        <4> QED BY <3>1, <4>1
      <3>3. Named(115, 5, AnyField, "system") BY <3>2, Zenon DEF Named
      <3> QED BY <3>3, RightNamed, Zenon
    <2>6. Right(<<115, 6, AnyField, "system">>)
      <3>1. \A f7 \in 0 .. 127 : Architecture!Name(115, 6, f7) = "system"
        BY SMT DEF Architecture!Name
      <3>2. ASSUME NEW g3 \in 0 .. 7, NEW g7 \in 0 .. 127,
                  Fits(115, 6, AnyField, g3, g7)
           PROVE  Architecture!Name(115, g3, g7) = "system"
        <4>1. g3 = 6 BY <3>2, SMT DEF Fits, AnyField
        <4> QED BY <3>1, <4>1
      <3>3. Named(115, 6, AnyField, "system") BY <3>2, Zenon DEF Named
      <3> QED BY <3>3, RightNamed, Zenon
    <2>7. Right(<<115, 7, AnyField, "system">>)
      <3>1. \A f7 \in 0 .. 127 : Architecture!Name(115, 7, f7) = "system"
        BY SMT DEF Architecture!Name
      <3>2. ASSUME NEW g3 \in 0 .. 7, NEW g7 \in 0 .. 127,
                  Fits(115, 7, AnyField, g3, g7)
           PROVE  Architecture!Name(115, g3, g7) = "system"
        <4>1. g3 = 7 BY <3>2, SMT DEF Fits, AnyField
        <4> QED BY <3>1, <4>1
      <3>3. Named(115, 7, AnyField, "system") BY <3>2, Zenon DEF Named
      <3> QED BY <3>3, RightNamed, Zenon
    <2> DEFINE names == [k \in 1 .. 7 |-> <<<<0, 1, 2, 3, 5, 6, 7>>[k], "system">>]
               T == {<<f3, "system">> : f3 \in Int}
    <2>8. names \in [1 .. 7 -> T]
      <3>1. ASSUME NEW k \in 1 .. 7 PROVE <<0, 1, 2, 3, 5, 6, 7>>[k] \in Int
        <4>1. k = 1 \/ k = 2 \/ k = 3 \/ k = 4 \/ k = 5 \/ k = 6 \/ k = 7 OBVIOUS
        <4>2. PICK t : t = <<0, 1, 2, 3, 5, 6, 7>> OBVIOUS
        <4>3. /\ t[1] \in Int /\ t[2] \in Int /\ t[3] \in Int /\ t[4] \in Int
              /\ t[5] \in Int /\ t[6] \in Int /\ t[7] \in Int BY <4>2
        <4>4. t[k] \in Int BY <4>1, <4>3
        <4> QED BY <4>2, <4>4, Zenon
      <3> QED BY <3>1, Zenon
    <2>9. ASSUME NEW k \in 1 .. 7 PROVE Right(<<115, names[k][1], AnyField, names[k][2]>>)
      <3>1. names[k][1] = <<0, 1, 2, 3, 5, 6, 7>>[k] /\ names[k][2] = "system" OBVIOUS
      <3>2. PICK f3 : f3 = <<0, 1, 2, 3, 5, 6, 7>>[k] OBVIOUS
      <3>3. f3 = 0 \/ f3 = 1 \/ f3 = 2 \/ f3 = 3 \/ f3 = 5 \/ f3 = 6 \/ f3 = 7 BY <3>2
      <3>4. Right(<<115, f3, AnyField, "system">>)
          BY <3>3, <2>1, <2>2, <2>3, <2>4, <2>5, <2>6, <2>7, Zenon
      <3> QED BY <3>1, <3>2, <3>4, Zenon
    <2>10. /\ names[1][1] = 0 /\ names[2][1] = 1 /\ names[3][1] = 2 /\ names[4][1] = 3
           /\ names[5][1] = 5 /\ names[6][1] = 6 /\ names[7][1] = 7 OBVIOUS
    <2> HIDE DEF names, T
    <2>11. names \in Seq(T) /\ Len(names) = 7 BY <2>8, IsSequence
    <2>12. /\ AllRight(Reg(115, AnyField, names))
           /\ \A k \in 1 .. 7 : Covers(Reg(115, AnyField, names), 115, names[k][1], AnyField)
      BY <2>9, <2>11, RegRight, Zenon
    <2>13. /\ Covers(Reg(115, AnyField, names), 115, 0, AnyField)
           /\ Covers(Reg(115, AnyField, names), 115, 1, AnyField)
           /\ Covers(Reg(115, AnyField, names), 115, 2, AnyField)
           /\ Covers(Reg(115, AnyField, names), 115, 3, AnyField)
           /\ Covers(Reg(115, AnyField, names), 115, 5, AnyField)
           /\ Covers(Reg(115, AnyField, names), 115, 6, AnyField)
           /\ Covers(Reg(115, AnyField, names), 115, 7, AnyField)
      <3>1. 1 \in 1 .. 7 /\ 2 \in 1 .. 7 /\ 3 \in 1 .. 7 /\ 4 \in 1 .. 7 /\ 5 \in 1 .. 7
            /\ 6 \in 1 .. 7 /\ 7 \in 1 .. 7 OBVIOUS
      <3> QED BY <2>10, <2>12, <3>1, Zenon
    <2> QED BY <2>12, <2>13, Zenon DEF names
  <1>32. /\ AllRight(c32) /\ Covers(c32, 39, 3, AnyField)
    <2>1. Right(<<39, 3, AnyField, "fsd">>)
      <3>1. \A f7 \in 0 .. 127 : Architecture!Name(39, 3, f7) = "fsd"
        BY SMT DEF Architecture!Name
      <3> QED BY <3>1, SMT DEF Right, Fits, Looked, ReservedShift, Sfence, AnyField
    <2> QED BY <2>1, Reg1, Zenon
  <1>33. /\ AllRight(c33) /\ Covers(c33, 7, 3, AnyField)
    <2>1. Right(<<7, 3, AnyField, "fld">>)
      <3>1. \A f7 \in 0 .. 127 : Architecture!Name(7, 3, f7) = "fld"
        BY SMT DEF Architecture!Name
      <3> QED BY <3>1, SMT DEF Right, Fits, Looked, ReservedShift, Sfence, AnyField
    <2> QED BY <2>1, Reg1, Zenon
  <1>34. /\ AllRight(c34) /\ Covers(c34, 83, 0, 120)
    <2>1. Right(<<83, 0, 120, "fmv.w.x">>)
      <3>1. Architecture!Name(83, 0, 120) = "fmv.w.x"
        BY SMT DEF Architecture!Name
      <3> QED BY <3>1, SMT DEF Right, Fits, Looked, ReservedShift, Sfence, AnyField
    <2> QED BY <2>1, Reg1, Zenon
  <1>35. /\ AllRight(c35) /\ Covers(c35, 83, 0, 112)
    <2>1. Right(<<83, 0, 112, "fmv.x.w">>)
      <3>1. Architecture!Name(83, 0, 112) = "fmv.x.w"
        BY SMT DEF Architecture!Name
      <3> QED BY <3>1, SMT DEF Right, Fits, Looked, ReservedShift, Sfence, AnyField
    <2> QED BY <2>1, Reg1, Zenon
  <1>36. /\ AllRight(c36) /\ Covers(c36, 83, 0, 121)
    <2>1. Right(<<83, 0, 121, "fmv.d.x">>)
      <3>1. Architecture!Name(83, 0, 121) = "fmv.d.x"
        BY SMT DEF Architecture!Name
      <3> QED BY <3>1, SMT DEF Right, Fits, Looked, ReservedShift, Sfence, AnyField
    <2> QED BY <2>1, Reg1, Zenon
  <1>37. /\ AllRight(c37) /\ Covers(c37, 83, 0, 113)
    <2>1. Right(<<83, 0, 113, "fmv.x.d">>)
      <3>1. Architecture!Name(83, 0, 113) = "fmv.x.d"
        BY SMT DEF Architecture!Name
      <3> QED BY <3>1, SMT DEF Right, Fits, Looked, ReservedShift, Sfence, AnyField
    <2> QED BY <2>1, Reg1, Zenon
  <1>38. /\ AllRight(c38) /\ Covers(c38, 51, 0, 1) /\ Covers(c38, 51, 1, 1)
         /\ Covers(c38, 51, 2, 1) /\ Covers(c38, 51, 3, 1) /\ Covers(c38, 51, 4, 1)
         /\ Covers(c38, 51, 5, 1) /\ Covers(c38, 51, 6, 1) /\ Covers(c38, 51, 7, 1)
    <2>1. Right(<<51, 0, 1, "mul">>)
      <3>1. Architecture!Name(51, 0, 1) = "mul"
        BY SMT DEF Architecture!Name
      <3> QED BY <3>1, SMT DEF Right, Fits, Looked, ReservedShift, Sfence, AnyField
    <2>2. Right(<<51, 1, 1, "mulh">>)
      <3>1. Architecture!Name(51, 1, 1) = "mulh"
        BY SMT DEF Architecture!Name
      <3> QED BY <3>1, SMT DEF Right, Fits, Looked, ReservedShift, Sfence, AnyField
    <2>3. Right(<<51, 2, 1, "mulhsu">>)
      <3>1. Architecture!Name(51, 2, 1) = "mulhsu"
        BY SMT DEF Architecture!Name
      <3> QED BY <3>1, SMT DEF Right, Fits, Looked, ReservedShift, Sfence, AnyField
    <2>4. Right(<<51, 3, 1, "mulhu">>)
      <3>1. Architecture!Name(51, 3, 1) = "mulhu"
        BY SMT DEF Architecture!Name
      <3> QED BY <3>1, SMT DEF Right, Fits, Looked, ReservedShift, Sfence, AnyField
    <2>5. Right(<<51, 4, 1, "div">>)
      <3>1. Architecture!Name(51, 4, 1) = "div"
        BY SMT DEF Architecture!Name
      <3> QED BY <3>1, SMT DEF Right, Fits, Looked, ReservedShift, Sfence, AnyField
    <2>6. Right(<<51, 5, 1, "divu">>)
      <3>1. Architecture!Name(51, 5, 1) = "divu"
        BY SMT DEF Architecture!Name
      <3> QED BY <3>1, SMT DEF Right, Fits, Looked, ReservedShift, Sfence, AnyField
    <2>7. Right(<<51, 6, 1, "rem">>)
      <3>1. Architecture!Name(51, 6, 1) = "rem"
        BY SMT DEF Architecture!Name
      <3> QED BY <3>1, SMT DEF Right, Fits, Looked, ReservedShift, Sfence, AnyField
    <2>8. Right(<<51, 7, 1, "remu">>)
      <3>1. Architecture!Name(51, 7, 1) = "remu"
        BY SMT DEF Architecture!Name
      <3> QED BY <3>1, SMT DEF Right, Fits, Looked, ReservedShift, Sfence, AnyField
    <2>9. PICK op, e7, s1, s2, s3, s4, s5, s6, s7, s8 :
             op = 51 /\ e7 = 1 /\ s1 = "mul" /\ s2 = "mulh" /\ s3 = "mulhsu" /\ s4 = "mulhu"
             /\ s5 = "div" /\ s6 = "divu" /\ s7 = "rem" /\ s8 = "remu" OBVIOUS
    <2>10. /\ Right(<<op, 0, e7, s1>>) /\ Right(<<op, 1, e7, s2>>)
           /\ Right(<<op, 2, e7, s3>>) /\ Right(<<op, 3, e7, s4>>)
           /\ Right(<<op, 4, e7, s5>>) /\ Right(<<op, 5, e7, s6>>)
           /\ Right(<<op, 6, e7, s7>>) /\ Right(<<op, 7, e7, s8>>)
      BY <2>9, <2>1, <2>2, <2>3, <2>4, <2>5, <2>6, <2>7, <2>8, Zenon
    <2>11. Each8(op, e7, s1, s2, s3, s4, s5, s6, s7, s8) BY <2>10, Zenon DEF Each8
    <2>12. Good8(Reg(op, e7,
          <<<<0, s1>>, <<1, s2>>, <<2, s3>>, <<3, s4>>, <<4, s5>>, <<5, s6>>, <<6, s7>>,
          <<7, s8>>>>), op, e7)
      BY <2>11, Reg8, Zenon
    <2>13. Good8(c38, 51, 1) BY <2>9, <2>12, Zenon
    <2> HIDE DEF c38
    <2> QED BY <2>13, Zenon DEF Good8
  <1>39. /\ AllRight(c39) /\ Covers(c39, 59, 0, 1) /\ Covers(c39, 59, 4, 1)
         /\ Covers(c39, 59, 5, 1) /\ Covers(c39, 59, 6, 1) /\ Covers(c39, 59, 7, 1)
    <2>1. Right(<<59, 0, 1, "mulw">>)
      <3>1. Architecture!Name(59, 0, 1) = "mulw"
        BY SMT DEF Architecture!Name
      <3> QED BY <3>1, SMT DEF Right, Fits, Looked, ReservedShift, Sfence, AnyField
    <2>2. Right(<<59, 4, 1, "divw">>)
      <3>1. Architecture!Name(59, 4, 1) = "divw"
        BY SMT DEF Architecture!Name
      <3> QED BY <3>1, SMT DEF Right, Fits, Looked, ReservedShift, Sfence, AnyField
    <2>3. Right(<<59, 5, 1, "divuw">>)
      <3>1. Architecture!Name(59, 5, 1) = "divuw"
        BY SMT DEF Architecture!Name
      <3> QED BY <3>1, SMT DEF Right, Fits, Looked, ReservedShift, Sfence, AnyField
    <2>4. Right(<<59, 6, 1, "remw">>)
      <3>1. Architecture!Name(59, 6, 1) = "remw"
        BY SMT DEF Architecture!Name
      <3> QED BY <3>1, SMT DEF Right, Fits, Looked, ReservedShift, Sfence, AnyField
    <2>5. Right(<<59, 7, 1, "remuw">>)
      <3>1. Architecture!Name(59, 7, 1) = "remuw"
        BY SMT DEF Architecture!Name
      <3> QED BY <3>1, SMT DEF Right, Fits, Looked, ReservedShift, Sfence, AnyField
    <2>6. PICK op, e7, n1, s1, n2, s2, n3, s3, n4, s4, n5, s5 :
             op = 59 /\ e7 = 1 /\ n1 = 0 /\ s1 = "mulw" /\ n2 = 4 /\ s2 = "divw" /\ n3 = 5
             /\ s3 = "divuw" /\ n4 = 6 /\ s4 = "remw" /\ n5 = 7 /\ s5 = "remuw" OBVIOUS
    <2>7. /\ Right(<<op, n1, e7, s1>>) /\ Right(<<op, n2, e7, s2>>)
           /\ Right(<<op, n3, e7, s3>>) /\ Right(<<op, n4, e7, s4>>)
           /\ Right(<<op, n5, e7, s5>>)
      BY <2>6, <2>1, <2>2, <2>3, <2>4, <2>5, Zenon
    <2>8. Each5(op, e7, n1, s1, n2, s2, n3, s3, n4, s4, n5, s5) BY <2>7, Zenon DEF Each5
    <2>9. Good5(Reg(op, e7, <<<<n1, s1>>, <<n2, s2>>, <<n3, s3>>, <<n4, s4>>, <<n5, s5>>>>),
          op, e7, n1, n2, n3, n4, n5)
      BY <2>8, Reg5, Zenon
    <2>10. Good5(c39, 59, 1, 0, 4, 5, 6, 7) BY <2>6, <2>9, Zenon
    <2> HIDE DEF c39
    <2> QED BY <2>10, Zenon DEF Good5
  <1> DEFINE p1 == c1 \o c2 \o c3 \o c4 \o c5 \o c6 \o c7 \o c8
             p2 == p1 \o c9
             p3 == p2 \o c10 \o c11 \o c12 \o c13 \o c14 \o c15 \o c16
             p4 == p3 \o c17 \o c18 \o c19 \o c20 \o c21 \o c22 \o c23
             p5 == p4 \o c24 \o c25 \o c26 \o c27 \o c28 \o c29 \o c30
             p6 == p5 \o c31 \o c32 \o c33 \o c34 \o c35 \o c36 \o c37
             p7 == p6 \o c38 \o c39
  <1> HIDE DEF c1, c2, c3, c4, c5, c6, c7, c8, c9, c10, c11, c12, c13, c14, c15, c16, c17, c18,
           c19, c20, c21, c22, c23, c24, c25, c26, c27, c28, c29, c30, c31, c32, c33, c34,
           c35, c36, c37, c38, c39
  <1>40. /\ AllRight(p1) /\ Lacks(p1) /\ Within(c1, p1) /\ Within(c2, p1) /\ Within(c3, p1)
         /\ Within(c4, p1) /\ Within(c5, p1) /\ Within(c6, p1) /\ Within(c7, p1)
         /\ Within(c8, p1)
    <2> QED BY Joined8, <1>1, <1>2, <1>3, <1>4, <1>5, <1>6, <1>7, <1>8, Zenon DEF p1
  <1>41. /\ AllRight(p2) /\ Fenced(p2) /\ Within(p1, p2) /\ Within(c9, p2)
    <2> HIDE DEF p1
    <2> QED BY RightJoined, <1>40, <1>9, LacksJoined, Zenon DEF p2, AllRight
  <1>42. /\ AllRight(p3) /\ Before(p2, p3) /\ Within(p2, p3) /\ Within(c10, p3)
         /\ Within(c11, p3) /\ Within(c12, p3) /\ Within(c13, p3) /\ Within(c14, p3)
         /\ Within(c15, p3) /\ Within(c16, p3)
    <2> HIDE DEF p2
    <2> QED BY Joined8, <1>41, <1>10, <1>11, <1>12, <1>13, <1>14, <1>15, <1>16, Zenon DEF p3
  <1>43. /\ AllRight(p4) /\ Before(p3, p4) /\ Within(p3, p4) /\ Within(c17, p4)
         /\ Within(c18, p4) /\ Within(c19, p4) /\ Within(c20, p4) /\ Within(c21, p4)
         /\ Within(c22, p4) /\ Within(c23, p4)
    <2> HIDE DEF p3
    <2> QED BY Joined8, <1>42, <1>17, <1>18, <1>19, <1>20, <1>21, <1>22, <1>23, Zenon DEF p4
  <1>44. /\ AllRight(p5) /\ Before(p4, p5) /\ Within(p4, p5) /\ Within(c24, p5)
         /\ Within(c25, p5) /\ Within(c26, p5) /\ Within(c27, p5) /\ Within(c28, p5)
         /\ Within(c29, p5) /\ Within(c30, p5)
    <2> HIDE DEF p4
    <2> QED BY Joined8, <1>43, <1>24, <1>25, <1>26, <1>27, <1>28, <1>29, <1>30, Zenon DEF p5
  <1>45. /\ AllRight(p6) /\ Before(p5, p6) /\ Within(p5, p6) /\ Within(c31, p6)
         /\ Within(c32, p6) /\ Within(c33, p6) /\ Within(c34, p6) /\ Within(c35, p6)
         /\ Within(c36, p6) /\ Within(c37, p6)
    <2> HIDE DEF p5
    <2> QED BY Joined8, <1>44, <1>31, <1>32, <1>33, <1>34, <1>35, <1>36, <1>37, Zenon DEF p6
  <1>46. /\ AllRight(p7) /\ Before(p6, p7) /\ Within(p6, p7) /\ Within(c38, p7)
         /\ Within(c39, p7)
    <2> HIDE DEF p6
    <2> QED BY Joined3, <1>45, <1>38, <1>39, Zenon DEF p7
  <1> HIDE DEF p1, p2, p3, p4, p5, p6, p7
  <1>47. p7 = Rules
      BY Zenon
        DEF Rules, p1, p2, p3, p4, p5, p6, p7, c1, c2, c3, c4, c5, c6, c7, c8, c9, c10, c11,
            c12, c13, c14, c15, c16, c17, c18,
         c19, c20, c21, c22, c23, c24, c25, c26, c27, c28, c29, c30, c31, c32, c33, c34, c35,
         c36, c37, c38, c39
  <1>48. /\ Within(c1, Rules) /\ Within(c2, Rules) /\ Within(c3, Rules) /\ Within(c4, Rules)
         /\ Within(c5, Rules) /\ Within(c6, Rules) /\ Within(c7, Rules) /\ Within(c8, Rules)
    BY <1>40, <1>41, <1>42, <1>43, <1>44, <1>45, <1>46, <1>47, Zenon DEF Within
  <1>49. /\ Covers(Rules, 51, 0, 0) /\ Covers(Rules, 51, 0, 32)
         /\ Covers(Rules, 19, 0, AnyField) /\ Covers(Rules, 3, 2, AnyField)
         /\ Covers(Rules, 35, 2, AnyField) /\ Covers(Rules, 99, 0, AnyField)
         /\ Covers(Rules, 111, AnyField, AnyField) /\ Covers(Rules, 15, 0, AnyField)
    <2>1. /\ Covers(Rules, 51, 0, 0)
      BY <1>48, <1>1, CoversWithin, Zenon
    <2>2. /\ Covers(Rules, 51, 0, 32)
      BY <1>48, <1>2, CoversWithin, Zenon
    <2>3. /\ Covers(Rules, 19, 0, AnyField)
      BY <1>48, <1>3, CoversWithin, Zenon
    <2>4. /\ Covers(Rules, 3, 2, AnyField)
      BY <1>48, <1>4, CoversWithin, Zenon
    <2>5. /\ Covers(Rules, 35, 2, AnyField)
      BY <1>48, <1>5, CoversWithin, Zenon
    <2>6. /\ Covers(Rules, 99, 0, AnyField)
      BY <1>48, <1>6, CoversWithin, Zenon
    <2>7. /\ Covers(Rules, 111, AnyField, AnyField)
      BY <1>48, <1>7, CoversWithin, Zenon
    <2>8. /\ Covers(Rules, 15, 0, AnyField)
      BY <1>48, <1>8, CoversWithin, Zenon
    <2> QED BY <2>1, <2>2, <2>3, <2>4, <2>5, <2>6, <2>7, <2>8, Zenon
  <1>50. /\ Within(c9, Rules)
    BY <1>41, <1>42, <1>43, <1>44, <1>45, <1>46, <1>47, Zenon DEF Within
  <1>51. /\ Covers(Rules, 115, 0, 9)
    <2>1. /\ Covers(Rules, 115, 0, 9)
      BY <1>50, <1>9, CoversWithin, Zenon
    <2> QED BY <2>1, Zenon
  <1>52. /\ Within(c10, Rules) /\ Within(c11, Rules) /\ Within(c12, Rules)
         /\ Within(c13, Rules) /\ Within(c14, Rules) /\ Within(c15, Rules)
         /\ Within(c16, Rules)
    BY <1>42, <1>43, <1>44, <1>45, <1>46, <1>47, Zenon DEF Within
  <1>53. /\ Covers(Rules, 15, 1, AnyField) /\ Covers(Rules, 3, 0, AnyField)
         /\ Covers(Rules, 3, 1, AnyField) /\ Covers(Rules, 3, 3, AnyField)
         /\ Covers(Rules, 3, 4, AnyField) /\ Covers(Rules, 3, 5, AnyField)
         /\ Covers(Rules, 3, 6, AnyField) /\ Covers(Rules, 55, AnyField, AnyField)
         /\ Covers(Rules, 35, 0, AnyField) /\ Covers(Rules, 35, 1, AnyField)
         /\ Covers(Rules, 35, 3, AnyField) /\ Covers(Rules, 99, 1, AnyField)
         /\ Covers(Rules, 99, 4, AnyField) /\ Covers(Rules, 99, 5, AnyField)
         /\ Covers(Rules, 99, 6, AnyField) /\ Covers(Rules, 99, 7, AnyField)
         /\ Covers(Rules, 103, 0, AnyField) /\ Covers(Rules, 51, 7, 0)
         /\ Covers(Rules, 51, 6, 0) /\ Covers(Rules, 51, 4, 0) /\ Covers(Rules, 51, 1, 0)
         /\ Covers(Rules, 51, 5, 0)
    <2>1. /\ Covers(Rules, 15, 1, AnyField)
      BY <1>52, <1>10, CoversWithin, Zenon
    <2>2. /\ Covers(Rules, 3, 0, AnyField) /\ Covers(Rules, 3, 1, AnyField)
          /\ Covers(Rules, 3, 3, AnyField) /\ Covers(Rules, 3, 4, AnyField)
          /\ Covers(Rules, 3, 5, AnyField) /\ Covers(Rules, 3, 6, AnyField)
      <3>1. Covers(Rules, 3, 0, AnyField) BY <1>52, <1>11, CoversWithin, Zenon
      <3>2. Covers(Rules, 3, 1, AnyField) BY <1>52, <1>11, CoversWithin, Zenon
      <3>3. Covers(Rules, 3, 3, AnyField) BY <1>52, <1>11, CoversWithin, Zenon
      <3>4. Covers(Rules, 3, 4, AnyField) BY <1>52, <1>11, CoversWithin, Zenon
      <3>5. Covers(Rules, 3, 5, AnyField) BY <1>52, <1>11, CoversWithin, Zenon
      <3>6. Covers(Rules, 3, 6, AnyField) BY <1>52, <1>11, CoversWithin, Zenon
      <3> QED BY <3>1, <3>2, <3>3, <3>4, <3>5, <3>6, Zenon
    <2>3. /\ Covers(Rules, 55, AnyField, AnyField)
      BY <1>52, <1>12, CoversWithin, Zenon
    <2>4. /\ Covers(Rules, 35, 0, AnyField) /\ Covers(Rules, 35, 1, AnyField)
          /\ Covers(Rules, 35, 3, AnyField)
      BY <1>52, <1>13, CoversWithin, Zenon
    <2>5. /\ Covers(Rules, 99, 1, AnyField) /\ Covers(Rules, 99, 4, AnyField)
          /\ Covers(Rules, 99, 5, AnyField) /\ Covers(Rules, 99, 6, AnyField)
          /\ Covers(Rules, 99, 7, AnyField)
      <3>1. Covers(Rules, 99, 1, AnyField) BY <1>52, <1>14, CoversWithin, Zenon
      <3>2. Covers(Rules, 99, 4, AnyField) BY <1>52, <1>14, CoversWithin, Zenon
      <3>3. Covers(Rules, 99, 5, AnyField) BY <1>52, <1>14, CoversWithin, Zenon
      <3>4. Covers(Rules, 99, 6, AnyField) BY <1>52, <1>14, CoversWithin, Zenon
      <3>5. Covers(Rules, 99, 7, AnyField) BY <1>52, <1>14, CoversWithin, Zenon
      <3> QED BY <3>1, <3>2, <3>3, <3>4, <3>5, Zenon
    <2>6. /\ Covers(Rules, 103, 0, AnyField)
      BY <1>52, <1>15, CoversWithin, Zenon
    <2>7. /\ Covers(Rules, 51, 7, 0) /\ Covers(Rules, 51, 6, 0) /\ Covers(Rules, 51, 4, 0)
          /\ Covers(Rules, 51, 1, 0) /\ Covers(Rules, 51, 5, 0)
      <3>1. Covers(Rules, 51, 7, 0) BY <1>52, <1>16, CoversWithin, Zenon
      <3>2. Covers(Rules, 51, 6, 0) BY <1>52, <1>16, CoversWithin, Zenon
      <3>3. Covers(Rules, 51, 4, 0) BY <1>52, <1>16, CoversWithin, Zenon
      <3>4. Covers(Rules, 51, 1, 0) BY <1>52, <1>16, CoversWithin, Zenon
      <3>5. Covers(Rules, 51, 5, 0) BY <1>52, <1>16, CoversWithin, Zenon
      <3> QED BY <3>1, <3>2, <3>3, <3>4, <3>5, Zenon
    <2> QED BY <2>1, <2>2, <2>3, <2>4, <2>5, <2>6, <2>7, Zenon
  <1>54. /\ Within(c17, Rules) /\ Within(c18, Rules) /\ Within(c19, Rules)
         /\ Within(c20, Rules) /\ Within(c21, Rules) /\ Within(c22, Rules)
         /\ Within(c23, Rules)
    BY <1>43, <1>44, <1>45, <1>46, <1>47, Zenon DEF Within
  <1>55. /\ Covers(Rules, 51, 5, 32) /\ Covers(Rules, 51, 2, 0) /\ Covers(Rules, 51, 3, 0)
         /\ Covers(Rules, 19, 1, 0) /\ Covers(Rules, 19, 5, 0) /\ Covers(Rules, 19, 5, 32)
         /\ Covers(Rules, 59, 0, 0) /\ Covers(Rules, 59, 0, 32) /\ Covers(Rules, 59, 1, 0)
         /\ Covers(Rules, 59, 5, 0)
    <2>1. /\ Covers(Rules, 51, 5, 32)
      BY <1>54, <1>17, CoversWithin, Zenon
    <2>2. /\ Covers(Rules, 51, 2, 0) /\ Covers(Rules, 51, 3, 0)
      BY <1>54, <1>18, CoversWithin, Zenon
    <2>3. /\ Covers(Rules, 19, 1, 0) /\ Covers(Rules, 19, 5, 0)
      BY <1>54, <1>19, CoversWithin, Zenon
    <2>4. /\ Covers(Rules, 19, 5, 32)
      BY <1>54, <1>20, CoversWithin, Zenon
    <2>5. /\ Covers(Rules, 59, 0, 0)
      BY <1>54, <1>21, CoversWithin, Zenon
    <2>6. /\ Covers(Rules, 59, 0, 32)
      BY <1>54, <1>22, CoversWithin, Zenon
    <2>7. /\ Covers(Rules, 59, 1, 0) /\ Covers(Rules, 59, 5, 0)
      BY <1>54, <1>23, CoversWithin, Zenon
    <2> QED BY <2>1, <2>2, <2>3, <2>4, <2>5, <2>6, <2>7, Zenon
  <1>56. /\ Within(c24, Rules) /\ Within(c25, Rules) /\ Within(c26, Rules)
         /\ Within(c27, Rules) /\ Within(c28, Rules) /\ Within(c29, Rules)
         /\ Within(c30, Rules)
    BY <1>44, <1>45, <1>46, <1>47, Zenon DEF Within
  <1>57. /\ Covers(Rules, 59, 5, 32) /\ Covers(Rules, 19, 7, AnyField)
         /\ Covers(Rules, 19, 6, AnyField) /\ Covers(Rules, 19, 4, AnyField)
         /\ Covers(Rules, 27, 0, AnyField) /\ Covers(Rules, 19, 2, AnyField)
         /\ Covers(Rules, 19, 3, AnyField) /\ Covers(Rules, 23, AnyField, AnyField)
         /\ Covers(Rules, 27, 1, 0) /\ Covers(Rules, 27, 5, 0) /\ Covers(Rules, 27, 5, 32)
    <2>1. /\ Covers(Rules, 59, 5, 32)
      BY <1>56, <1>24, CoversWithin, Zenon
    <2>2. /\ Covers(Rules, 19, 7, AnyField) /\ Covers(Rules, 19, 6, AnyField)
          /\ Covers(Rules, 19, 4, AnyField)
      BY <1>56, <1>25, CoversWithin, Zenon
    <2>3. /\ Covers(Rules, 27, 0, AnyField)
      BY <1>56, <1>26, CoversWithin, Zenon
    <2>4. /\ Covers(Rules, 19, 2, AnyField) /\ Covers(Rules, 19, 3, AnyField)
      BY <1>56, <1>27, CoversWithin, Zenon
    <2>5. /\ Covers(Rules, 23, AnyField, AnyField)
      BY <1>56, <1>28, CoversWithin, Zenon
    <2>6. /\ Covers(Rules, 27, 1, 0) /\ Covers(Rules, 27, 5, 0)
      BY <1>56, <1>29, CoversWithin, Zenon
    <2>7. /\ Covers(Rules, 27, 5, 32)
      BY <1>56, <1>30, CoversWithin, Zenon
    <2> QED BY <2>1, <2>2, <2>3, <2>4, <2>5, <2>6, <2>7, Zenon
  <1>58. /\ Within(c31, Rules) /\ Within(c32, Rules) /\ Within(c33, Rules)
         /\ Within(c34, Rules) /\ Within(c35, Rules) /\ Within(c36, Rules)
         /\ Within(c37, Rules)
    BY <1>45, <1>46, <1>47, Zenon DEF Within
  <1>59. /\ Covers(Rules, 115, 0, AnyField) /\ Covers(Rules, 115, 1, AnyField)
         /\ Covers(Rules, 115, 2, AnyField) /\ Covers(Rules, 115, 3, AnyField)
         /\ Covers(Rules, 115, 5, AnyField) /\ Covers(Rules, 115, 6, AnyField)
         /\ Covers(Rules, 115, 7, AnyField) /\ Covers(Rules, 39, 3, AnyField)
         /\ Covers(Rules, 7, 3, AnyField) /\ Covers(Rules, 83, 0, 120)
         /\ Covers(Rules, 83, 0, 112) /\ Covers(Rules, 83, 0, 121)
         /\ Covers(Rules, 83, 0, 113)
    <2>1. /\ Covers(Rules, 115, 0, AnyField) /\ Covers(Rules, 115, 1, AnyField)
          /\ Covers(Rules, 115, 2, AnyField) /\ Covers(Rules, 115, 3, AnyField)
          /\ Covers(Rules, 115, 5, AnyField) /\ Covers(Rules, 115, 6, AnyField)
          /\ Covers(Rules, 115, 7, AnyField)
      <3>1. Covers(Rules, 115, 0, AnyField) BY <1>58, <1>31, CoversWithin, Zenon
      <3>2. Covers(Rules, 115, 1, AnyField) BY <1>58, <1>31, CoversWithin, Zenon
      <3>3. Covers(Rules, 115, 2, AnyField) BY <1>58, <1>31, CoversWithin, Zenon
      <3>4. Covers(Rules, 115, 3, AnyField) BY <1>58, <1>31, CoversWithin, Zenon
      <3>5. Covers(Rules, 115, 5, AnyField) BY <1>58, <1>31, CoversWithin, Zenon
      <3>6. Covers(Rules, 115, 6, AnyField) BY <1>58, <1>31, CoversWithin, Zenon
      <3>7. Covers(Rules, 115, 7, AnyField) BY <1>58, <1>31, CoversWithin, Zenon
      <3> QED BY <3>1, <3>2, <3>3, <3>4, <3>5, <3>6, <3>7, Zenon
    <2>2. /\ Covers(Rules, 39, 3, AnyField)
      BY <1>58, <1>32, CoversWithin, Zenon
    <2>3. /\ Covers(Rules, 7, 3, AnyField)
      BY <1>58, <1>33, CoversWithin, Zenon
    <2>4. /\ Covers(Rules, 83, 0, 120)
      BY <1>58, <1>34, CoversWithin, Zenon
    <2>5. /\ Covers(Rules, 83, 0, 112)
      BY <1>58, <1>35, CoversWithin, Zenon
    <2>6. /\ Covers(Rules, 83, 0, 121)
      BY <1>58, <1>36, CoversWithin, Zenon
    <2>7. /\ Covers(Rules, 83, 0, 113)
      BY <1>58, <1>37, CoversWithin, Zenon
    <2> QED BY <2>1, <2>2, <2>3, <2>4, <2>5, <2>6, <2>7, Zenon
  <1>60. /\ Within(c38, Rules) /\ Within(c39, Rules)
    BY <1>46, <1>47, Zenon DEF Within
  <1>61. /\ Covers(Rules, 51, 0, 1) /\ Covers(Rules, 51, 1, 1) /\ Covers(Rules, 51, 2, 1)
         /\ Covers(Rules, 51, 3, 1) /\ Covers(Rules, 51, 4, 1) /\ Covers(Rules, 51, 5, 1)
         /\ Covers(Rules, 51, 6, 1) /\ Covers(Rules, 51, 7, 1) /\ Covers(Rules, 59, 0, 1)
         /\ Covers(Rules, 59, 4, 1) /\ Covers(Rules, 59, 5, 1) /\ Covers(Rules, 59, 6, 1)
         /\ Covers(Rules, 59, 7, 1)
    <2>1. /\ Covers(Rules, 51, 0, 1) /\ Covers(Rules, 51, 1, 1) /\ Covers(Rules, 51, 2, 1)
          /\ Covers(Rules, 51, 3, 1) /\ Covers(Rules, 51, 4, 1) /\ Covers(Rules, 51, 5, 1)
          /\ Covers(Rules, 51, 6, 1) /\ Covers(Rules, 51, 7, 1)
      <3>1. Covers(Rules, 51, 0, 1) BY <1>60, <1>38, CoversWithin, Zenon
      <3>2. Covers(Rules, 51, 1, 1) BY <1>60, <1>38, CoversWithin, Zenon
      <3>3. Covers(Rules, 51, 2, 1) BY <1>60, <1>38, CoversWithin, Zenon
      <3>4. Covers(Rules, 51, 3, 1) BY <1>60, <1>38, CoversWithin, Zenon
      <3>5. Covers(Rules, 51, 4, 1) BY <1>60, <1>38, CoversWithin, Zenon
      <3>6. Covers(Rules, 51, 5, 1) BY <1>60, <1>38, CoversWithin, Zenon
      <3>7. Covers(Rules, 51, 6, 1) BY <1>60, <1>38, CoversWithin, Zenon
      <3>8. Covers(Rules, 51, 7, 1) BY <1>60, <1>38, CoversWithin, Zenon
      <3> QED BY <3>1, <3>2, <3>3, <3>4, <3>5, <3>6, <3>7, <3>8, Zenon
    <2>2. /\ Covers(Rules, 59, 0, 1) /\ Covers(Rules, 59, 4, 1) /\ Covers(Rules, 59, 5, 1)
          /\ Covers(Rules, 59, 6, 1) /\ Covers(Rules, 59, 7, 1)
      <3>1. Covers(Rules, 59, 0, 1) BY <1>60, <1>39, CoversWithin, Zenon
      <3>2. Covers(Rules, 59, 4, 1) BY <1>60, <1>39, CoversWithin, Zenon
      <3>3. Covers(Rules, 59, 5, 1) BY <1>60, <1>39, CoversWithin, Zenon
      <3>4. Covers(Rules, 59, 6, 1) BY <1>60, <1>39, CoversWithin, Zenon
      <3>5. Covers(Rules, 59, 7, 1) BY <1>60, <1>39, CoversWithin, Zenon
      <3> QED BY <3>1, <3>2, <3>3, <3>4, <3>5, Zenon
    <2> QED BY <2>1, <2>2, Zenon
  <1>62. AllRight(Rules) /\ Fenced(Rules)
    <2>1. Fenced(p2) BY <1>41, Zenon
    <2>2. Fenced(p3) BY <1>42, <2>1, FencedBefore, Zenon
    <2>3. Fenced(p4) BY <1>43, <2>2, FencedBefore, Zenon
    <2>4. Fenced(p5) BY <1>44, <2>3, FencedBefore, Zenon
    <2>5. Fenced(p6) BY <1>45, <2>4, FencedBefore, Zenon
    <2>6. Fenced(p7) BY <1>46, <2>5, FencedBefore, Zenon
    <2> QED BY <1>46, <1>47, <2>6, Zenon
  <1> QED BY <1>62, <1>49, <1>51, <1>53, <1>55, <1>57, <1>59, <1>61, Zenon

-----------------------------------------------------------------------------
(* The handler that is registered is the instruction of the manual.        *)

\* Some rule is for the encoding.
Reached(op, f3, f7) == Met(Rules, op, f3, Looked(op, f3, f7))

LEMMA Reaches ==
  ASSUME NEW op, NEW f3, NEW f7, NEW m3, NEW m7, Covers(Rules, op, m3, m7),
         m3 \in {f3, AnyField}, m7 \in {Looked(op, f3, f7), AnyField}
  PROVE  Reached(op, f3, f7)
BY Zenon DEF Covers, Reached

\* An encoding with a name in the manual has a rule.
LEMMA NamesReached ==
  ASSUME NEW op \in 0 .. 127, NEW f3 \in 0 .. 7, NEW f7 \in 0 .. 127,
         ~ReservedShift(op, f3, f7), Architecture!Name(op, f3, f7) # "illegal"
  PROVE  Reached(op, f3, f7)
  <1>1. \/ op = 51 /\ f7 = 0
        \/ op = 51 /\ f7 = 1
        \/ op = 51 /\ f7 = 32 /\ f3 \in {0, 5}
        \/ op = 59 /\ f7 = 32 /\ f3 \in {0, 5}
        \/ op = 59 /\ f7 = 0 /\ f3 \in {0, 1, 5}
        \/ op = 59 /\ f7 = 1 /\ f3 \notin {1, 2, 3}
        \/ op = 19 /\ f3 \notin {1, 5}
        \/ op = 19 /\ f3 \in {1, 5} /\ f7 \in {0, 1}
        \/ op = 19 /\ f3 = 5 /\ f7 \in {32, 33}
        \/ op = 27 /\ f3 = 0
        \/ op = 27 /\ f3 \in {1, 5} /\ f7 = 0
        \/ op = 27 /\ f3 = 5 /\ f7 = 32
        \/ op = 99 /\ f3 \notin {2, 3}
        \/ op = 3 /\ f3 # 7
        \/ op = 35 /\ f3 < 4
        \/ op = 7 /\ f3 = 3
        \/ op = 39 /\ f3 = 3
        \/ op \in {55, 23, 111}
        \/ op = 103 /\ f3 = 0
        \/ op = 15 /\ f3 \in {0, 1}
        \/ op = 115 /\ f3 = 0 /\ f7 = 9
        \/ op = 115 /\ f3 # 4
        \/ op = 83 /\ f3 = 0 /\ f7 \in {112, 113, 120, 121}
    BY SMT DEF Architecture!Name
  <1>2. CASE op = 51 /\ f7 = 0
    <2>1. Looked(op, f3, f7) = 0 BY <1>2, SMT DEF Looked, ReservedShift
    <2>2. f3 = 0 \/ f3 = 1 \/ f3 = 2 \/ f3 = 3 \/ f3 = 4 \/ f3 = 5 \/ f3 = 6 \/ f3 = 7
        BY <1>2, SMT
    <2>3. Covers(Rules, op, f3, 0)
      <3>1. CASE f3 = 0 BY <1>2, <3>1, RulesRight, Zenon
      <3>2. CASE f3 = 1 BY <1>2, <3>2, RulesRight, Zenon
      <3>3. CASE f3 = 2 BY <1>2, <3>3, RulesRight, Zenon
      <3>4. CASE f3 = 3 BY <1>2, <3>4, RulesRight, Zenon
      <3>5. CASE f3 = 4 BY <1>2, <3>5, RulesRight, Zenon
      <3>6. CASE f3 = 5 BY <1>2, <3>6, RulesRight, Zenon
      <3>7. CASE f3 = 6 BY <1>2, <3>7, RulesRight, Zenon
      <3>8. CASE f3 = 7 BY <1>2, <3>8, RulesRight, Zenon
      <3> QED BY <2>2, <3>1, <3>2, <3>3, <3>4, <3>5, <3>6, <3>7, <3>8, Zenon
    <2> QED BY <2>1, <2>3, Reaches, Zenon
  <1>3. CASE op = 51 /\ f7 = 1
    <2>1. Looked(op, f3, f7) = 1 BY <1>3, SMT DEF Looked, ReservedShift
    <2>2. f3 = 0 \/ f3 = 1 \/ f3 = 2 \/ f3 = 3 \/ f3 = 4 \/ f3 = 5 \/ f3 = 6 \/ f3 = 7
        BY <1>3, SMT
    <2>3. Covers(Rules, op, f3, 1)
      <3>1. CASE f3 = 0 BY <1>3, <3>1, RulesRight, Zenon
      <3>2. CASE f3 = 1 BY <1>3, <3>2, RulesRight, Zenon
      <3>3. CASE f3 = 2 BY <1>3, <3>3, RulesRight, Zenon
      <3>4. CASE f3 = 3 BY <1>3, <3>4, RulesRight, Zenon
      <3>5. CASE f3 = 4 BY <1>3, <3>5, RulesRight, Zenon
      <3>6. CASE f3 = 5 BY <1>3, <3>6, RulesRight, Zenon
      <3>7. CASE f3 = 6 BY <1>3, <3>7, RulesRight, Zenon
      <3>8. CASE f3 = 7 BY <1>3, <3>8, RulesRight, Zenon
      <3> QED BY <2>2, <3>1, <3>2, <3>3, <3>4, <3>5, <3>6, <3>7, <3>8, Zenon
    <2> QED BY <2>1, <2>3, Reaches, Zenon
  <1>4. CASE op = 51 /\ f7 = 32 /\ f3 \in {0, 5}
    <2>1. Looked(op, f3, f7) = 32 BY <1>4, SMT DEF Looked, ReservedShift
    <2>2. f3 = 0 \/ f3 = 5 BY <1>4, SMT
    <2>3. Covers(Rules, op, f3, 32)
      <3>1. CASE f3 = 0 BY <1>4, <3>1, RulesRight, Zenon
      <3>2. CASE f3 = 5 BY <1>4, <3>2, RulesRight, Zenon
      <3> QED BY <2>2, <3>1, <3>2, Zenon
    <2> QED BY <2>1, <2>3, Reaches, Zenon
  <1>5. CASE op = 59 /\ f7 = 32 /\ f3 \in {0, 5}
    <2>1. Looked(op, f3, f7) = 32 BY <1>5, SMT DEF Looked, ReservedShift
    <2>2. f3 = 0 \/ f3 = 5 BY <1>5, SMT
    <2>3. Covers(Rules, op, f3, 32)
      <3>1. CASE f3 = 0 BY <1>5, <3>1, RulesRight, Zenon
      <3>2. CASE f3 = 5 BY <1>5, <3>2, RulesRight, Zenon
      <3> QED BY <2>2, <3>1, <3>2, Zenon
    <2> QED BY <2>1, <2>3, Reaches, Zenon
  <1>6. CASE op = 59 /\ f7 = 0 /\ f3 \in {0, 1, 5}
    <2>1. Looked(op, f3, f7) = 0 BY <1>6, SMT DEF Looked, ReservedShift
    <2>2. f3 = 0 \/ f3 = 1 \/ f3 = 5 BY <1>6, SMT
    <2>3. Covers(Rules, op, f3, 0)
      <3>1. CASE f3 = 0 BY <1>6, <3>1, RulesRight, Zenon
      <3>2. CASE f3 = 1 BY <1>6, <3>2, RulesRight, Zenon
      <3>3. CASE f3 = 5 BY <1>6, <3>3, RulesRight, Zenon
      <3> QED BY <2>2, <3>1, <3>2, <3>3, Zenon
    <2> QED BY <2>1, <2>3, Reaches, Zenon
  <1>7. CASE op = 59 /\ f7 = 1 /\ f3 \notin {1, 2, 3}
    <2>1. Looked(op, f3, f7) = 1 BY <1>7, SMT DEF Looked, ReservedShift
    <2>2. f3 = 0 \/ f3 = 4 \/ f3 = 5 \/ f3 = 6 \/ f3 = 7 BY <1>7, SMT
    <2>3. Covers(Rules, op, f3, 1)
      <3>1. CASE f3 = 0 BY <1>7, <3>1, RulesRight, Zenon
      <3>2. CASE f3 = 4 BY <1>7, <3>2, RulesRight, Zenon
      <3>3. CASE f3 = 5 BY <1>7, <3>3, RulesRight, Zenon
      <3>4. CASE f3 = 6 BY <1>7, <3>4, RulesRight, Zenon
      <3>5. CASE f3 = 7 BY <1>7, <3>5, RulesRight, Zenon
      <3> QED BY <2>2, <3>1, <3>2, <3>3, <3>4, <3>5, Zenon
    <2> QED BY <2>1, <2>3, Reaches, Zenon
  <1>8. CASE op = 19 /\ f3 \notin {1, 5}
    <2>1. AnyField \in {Looked(op, f3, f7), AnyField} BY Zenon
    <2>2. f3 = 0 \/ f3 = 2 \/ f3 = 3 \/ f3 = 4 \/ f3 = 6 \/ f3 = 7 BY <1>8, SMT
    <2>3. Covers(Rules, op, f3, AnyField)
      <3>1. CASE f3 = 0 BY <1>8, <3>1, RulesRight, Zenon
      <3>2. CASE f3 = 2 BY <1>8, <3>2, RulesRight, Zenon
      <3>3. CASE f3 = 3 BY <1>8, <3>3, RulesRight, Zenon
      <3>4. CASE f3 = 4 BY <1>8, <3>4, RulesRight, Zenon
      <3>5. CASE f3 = 6 BY <1>8, <3>5, RulesRight, Zenon
      <3>6. CASE f3 = 7 BY <1>8, <3>6, RulesRight, Zenon
      <3> QED BY <2>2, <3>1, <3>2, <3>3, <3>4, <3>5, <3>6, Zenon
    <2> QED BY <2>1, <2>3, Reaches, Zenon
  <1>9. CASE op = 19 /\ f3 \in {1, 5} /\ f7 \in {0, 1}
    <2>1. Looked(op, f3, f7) = 0 BY <1>9, SMT DEF Looked, ReservedShift
    <2>2. f3 = 1 \/ f3 = 5 BY <1>9, SMT
    <2>3. Covers(Rules, op, f3, 0)
      <3>1. CASE f3 = 1 BY <1>9, <3>1, RulesRight, Zenon
      <3>2. CASE f3 = 5 BY <1>9, <3>2, RulesRight, Zenon
      <3> QED BY <2>2, <3>1, <3>2, Zenon
    <2> QED BY <2>1, <2>3, Reaches, Zenon
  <1>10. CASE op = 19 /\ f3 = 5 /\ f7 \in {32, 33}
    <2>1. Looked(op, f3, f7) = 32 BY <1>10, SMT DEF Looked, ReservedShift
    <2>2. Covers(Rules, op, f3, 32) BY <1>10, RulesRight, Zenon
    <2> QED BY <2>1, <2>2, Reaches, Zenon
  <1>11. CASE op = 27 /\ f3 = 0
    <2>1. AnyField \in {Looked(op, f3, f7), AnyField} BY Zenon
    <2>2. Covers(Rules, op, f3, AnyField) BY <1>11, RulesRight, Zenon
    <2> QED BY <2>1, <2>2, Reaches, Zenon
  <1>12. CASE op = 27 /\ f3 \in {1, 5} /\ f7 = 0
    <2>1. Looked(op, f3, f7) = 0 BY <1>12, SMT DEF Looked, ReservedShift
    <2>2. f3 = 1 \/ f3 = 5 BY <1>12, SMT
    <2>3. Covers(Rules, op, f3, 0)
      <3>1. CASE f3 = 1 BY <1>12, <3>1, RulesRight, Zenon
      <3>2. CASE f3 = 5 BY <1>12, <3>2, RulesRight, Zenon
      <3> QED BY <2>2, <3>1, <3>2, Zenon
    <2> QED BY <2>1, <2>3, Reaches, Zenon
  <1>13. CASE op = 27 /\ f3 = 5 /\ f7 = 32
    <2>1. Looked(op, f3, f7) = 32 BY <1>13, SMT DEF Looked, ReservedShift
    <2>2. Covers(Rules, op, f3, 32) BY <1>13, RulesRight, Zenon
    <2> QED BY <2>1, <2>2, Reaches, Zenon
  <1>14. CASE op = 99 /\ f3 \notin {2, 3}
    <2>1. AnyField \in {Looked(op, f3, f7), AnyField} BY Zenon
    <2>2. f3 = 0 \/ f3 = 1 \/ f3 = 4 \/ f3 = 5 \/ f3 = 6 \/ f3 = 7 BY <1>14, SMT
    <2>3. Covers(Rules, op, f3, AnyField)
      <3>1. CASE f3 = 0 BY <1>14, <3>1, RulesRight, Zenon
      <3>2. CASE f3 = 1 BY <1>14, <3>2, RulesRight, Zenon
      <3>3. CASE f3 = 4 BY <1>14, <3>3, RulesRight, Zenon
      <3>4. CASE f3 = 5 BY <1>14, <3>4, RulesRight, Zenon
      <3>5. CASE f3 = 6 BY <1>14, <3>5, RulesRight, Zenon
      <3>6. CASE f3 = 7 BY <1>14, <3>6, RulesRight, Zenon
      <3> QED BY <2>2, <3>1, <3>2, <3>3, <3>4, <3>5, <3>6, Zenon
    <2> QED BY <2>1, <2>3, Reaches, Zenon
  <1>15. CASE op = 3 /\ f3 # 7
    <2>1. AnyField \in {Looked(op, f3, f7), AnyField} BY Zenon
    <2>2. f3 = 0 \/ f3 = 1 \/ f3 = 2 \/ f3 = 3 \/ f3 = 4 \/ f3 = 5 \/ f3 = 6 BY <1>15, SMT
    <2>3. Covers(Rules, op, f3, AnyField)
      <3>1. CASE f3 = 0 BY <1>15, <3>1, RulesRight, Zenon
      <3>2. CASE f3 = 1 BY <1>15, <3>2, RulesRight, Zenon
      <3>3. CASE f3 = 2 BY <1>15, <3>3, RulesRight, Zenon
      <3>4. CASE f3 = 3 BY <1>15, <3>4, RulesRight, Zenon
      <3>5. CASE f3 = 4 BY <1>15, <3>5, RulesRight, Zenon
      <3>6. CASE f3 = 5 BY <1>15, <3>6, RulesRight, Zenon
      <3>7. CASE f3 = 6 BY <1>15, <3>7, RulesRight, Zenon
      <3> QED BY <2>2, <3>1, <3>2, <3>3, <3>4, <3>5, <3>6, <3>7, Zenon
    <2> QED BY <2>1, <2>3, Reaches, Zenon
  <1>16. CASE op = 35 /\ f3 < 4
    <2>1. AnyField \in {Looked(op, f3, f7), AnyField} BY Zenon
    <2>2. f3 = 0 \/ f3 = 1 \/ f3 = 2 \/ f3 = 3 BY <1>16, SMT
    <2>3. Covers(Rules, op, f3, AnyField)
      <3>1. CASE f3 = 0 BY <1>16, <3>1, RulesRight, Zenon
      <3>2. CASE f3 = 1 BY <1>16, <3>2, RulesRight, Zenon
      <3>3. CASE f3 = 2 BY <1>16, <3>3, RulesRight, Zenon
      <3>4. CASE f3 = 3 BY <1>16, <3>4, RulesRight, Zenon
      <3> QED BY <2>2, <3>1, <3>2, <3>3, <3>4, Zenon
    <2> QED BY <2>1, <2>3, Reaches, Zenon
  <1>17. CASE op = 7 /\ f3 = 3
    <2>1. AnyField \in {Looked(op, f3, f7), AnyField} BY Zenon
    <2>2. Covers(Rules, op, f3, AnyField) BY <1>17, RulesRight, Zenon
    <2> QED BY <2>1, <2>2, Reaches, Zenon
  <1>18. CASE op = 39 /\ f3 = 3
    <2>1. AnyField \in {Looked(op, f3, f7), AnyField} BY Zenon
    <2>2. Covers(Rules, op, f3, AnyField) BY <1>18, RulesRight, Zenon
    <2> QED BY <2>1, <2>2, Reaches, Zenon
  <1>19. CASE op \in {55, 23, 111}
    <2>1. CASE op = 55
      <3>1. Covers(Rules, op, AnyField, AnyField) BY <2>1, RulesRight, Zenon
      <3> QED BY <3>1, Reaches, Zenon
    <2>2. CASE op = 23
      <3>1. Covers(Rules, op, AnyField, AnyField) BY <2>2, RulesRight, Zenon
      <3> QED BY <3>1, Reaches, Zenon
    <2>3. CASE op = 111
      <3>1. Covers(Rules, op, AnyField, AnyField) BY <2>3, RulesRight, Zenon
      <3> QED BY <3>1, Reaches, Zenon
    <2> QED BY <1>19, <2>1, <2>2, <2>3
  <1>20. CASE op = 103 /\ f3 = 0
    <2>1. AnyField \in {Looked(op, f3, f7), AnyField} BY Zenon
    <2>2. Covers(Rules, op, f3, AnyField) BY <1>20, RulesRight, Zenon
    <2> QED BY <2>1, <2>2, Reaches, Zenon
  <1>21. CASE op = 15 /\ f3 \in {0, 1}
    <2>1. AnyField \in {Looked(op, f3, f7), AnyField} BY Zenon
    <2>2. f3 = 0 \/ f3 = 1 BY <1>21, SMT
    <2>3. Covers(Rules, op, f3, AnyField)
      <3>1. CASE f3 = 0 BY <1>21, <3>1, RulesRight, Zenon
      <3>2. CASE f3 = 1 BY <1>21, <3>2, RulesRight, Zenon
      <3> QED BY <2>2, <3>1, <3>2, Zenon
    <2> QED BY <2>1, <2>3, Reaches, Zenon
  <1>22. CASE op = 115 /\ f3 = 0 /\ f7 = 9
    <2>1. Looked(op, f3, f7) = 9 BY <1>22, SMT DEF Looked, ReservedShift
    <2>2. Covers(Rules, op, f3, 9) BY <1>22, RulesRight, Zenon
    <2> QED BY <2>1, <2>2, Reaches, Zenon
  <1>23. CASE op = 115 /\ f3 # 4
    <2>1. AnyField \in {Looked(op, f3, f7), AnyField} BY Zenon
    <2>2. f3 = 0 \/ f3 = 1 \/ f3 = 2 \/ f3 = 3 \/ f3 = 5 \/ f3 = 6 \/ f3 = 7 BY <1>23, SMT
    <2>3. Covers(Rules, op, f3, AnyField)
      <3>1. CASE f3 = 0 BY <1>23, <3>1, RulesRight, Zenon
      <3>2. CASE f3 = 1 BY <1>23, <3>2, RulesRight, Zenon
      <3>3. CASE f3 = 2 BY <1>23, <3>3, RulesRight, Zenon
      <3>4. CASE f3 = 3 BY <1>23, <3>4, RulesRight, Zenon
      <3>5. CASE f3 = 5 BY <1>23, <3>5, RulesRight, Zenon
      <3>6. CASE f3 = 6 BY <1>23, <3>6, RulesRight, Zenon
      <3>7. CASE f3 = 7 BY <1>23, <3>7, RulesRight, Zenon
      <3> QED BY <2>2, <3>1, <3>2, <3>3, <3>4, <3>5, <3>6, <3>7, Zenon
    <2> QED BY <2>1, <2>3, Reaches, Zenon
  <1>24. CASE op = 83 /\ f3 = 0 /\ f7 \in {112, 113, 120, 121}
    <2>1. Looked(op, f3, f7) = f7 BY <1>24, SMT DEF Looked
    <2>2. CASE f7 = 120
      <3>1. Covers(Rules, op, f3, f7) BY <1>24, <2>2, RulesRight, Zenon
      <3> QED BY <2>1, <3>1, Reaches, Zenon
    <2>3. CASE f7 = 112
      <3>1. Covers(Rules, op, f3, f7) BY <1>24, <2>3, RulesRight, Zenon
      <3> QED BY <2>1, <3>1, Reaches, Zenon
    <2>4. CASE f7 = 121
      <3>1. Covers(Rules, op, f3, f7) BY <1>24, <2>4, RulesRight, Zenon
      <3> QED BY <2>1, <3>1, Reaches, Zenon
    <2>5. CASE f7 = 113
      <3>1. Covers(Rules, op, f3, f7) BY <1>24, <2>5, RulesRight, Zenon
      <3> QED BY <2>1, <3>1, Reaches, Zenon
    <2> QED BY <1>24, <2>2, <2>3, <2>4, <2>5
  <1> QED
      BY <1>1, <1>2, <1>3, <1>4, <1>5, <1>6, <1>7, <1>8, <1>9, <1>10, <1>11, <1>12, <1>13,
         <1>14, <1>15, <1>16, <1>17, <1>18, <1>19, <1>20, <1>21, <1>22, <1>23, <1>24

\* The rules for a word, the first of which is its handler.
Matching(w) ==
    {i \in 1 .. Len(Rules) :
       /\ Rules[i][1] = w.op /\ Rules[i][2] \in {w.f3, AnyField}
       /\ Rules[i][3] \in {LookupF7(w), AnyField}}

LEMMA HandlerIs ==
  ASSUME NEW w
  PROVE  Handler(w) = IF Matching(w) = {} THEN "illegal"
                      ELSE IF Min(Matching(w))
                      = 0 THEN "illegal" ELSE Rules[Min(Matching(w))][4]
BY Zenon DEF Handler, SelectInSeq, Matching

LEMMA MatchingMet ==
  ASSUME NEW w, NEW i
  PROVE  i \in Matching(w) <=> i \in 1 .. Len(Rules)
        /\ Takes(Rules[i], w.op, w.f3, Looked(w.op, w.f3, w.f7))
BY Zenon DEF Matching, Takes, Looked, LookupF7

\* The handler of a word is its instruction in the manual.
LEMMA HandlerNamed ==
  ASSUME NEW w, w.op \in 0 .. 127, w.f3 \in 0 .. 7, w.f7 \in 0 .. 127,
         ~ReservedShift(w.op, w.f3, w.f7)
  PROVE  Handler(w) = Architecture!Name(w.op, w.f3, w.f7)
  <1>0. Len(Rules) \in Nat
    <2>1. PICK S : Rules \in Seq(S) BY RulesRight, Zenon DEF AllRight, IsRules
    <2> QED BY <2>1, LenProperties, Zenon
  <1>1. CASE Matching(w) = {}
    <2>1. Handler(w) = "illegal" BY <1>1, HandlerIs, Zenon
    <2>2. ~Reached(w.op, w.f3, w.f7) BY <1>1, MatchingMet, Zenon DEF Reached, Met
    <2> QED BY <2>1, <2>2, NamesReached, Zenon
  <1>2. CASE Matching(w) # {}
    <2>1. \A i \in Matching(w) : i \in Nat /\ i # 0
      <3>1. \A i : i \in 1 .. Len(Rules) => i \in Nat /\ i # 0 BY <1>0
      <3> QED BY <3>1, MatchingMet, Zenon
    <2>2. PICK m \in Matching(w) : \A i \in Matching(w) : m <= i
      <3>1. PICK i : i \in Matching(w) BY <1>2, Zenon
      <3>2. i \in Nat BY <2>1, <3>1
      <3> QED BY <1>2, <2>1, <3>1, <3>2, LeastNumber, Zenon
    <2>3. Min(Matching(w)) = m
      <3>1. \A i : i \in Matching(w) /\ (\A j \in Matching(w) : i <= j) => i = m BY <2>1, <2>2
      <3> QED BY <2>2, <3>1, Zenon DEF Min
    <2>4. Handler(w) = Rules[m][4] BY <1>2, <2>1, <2>2, <2>3, HandlerIs, Zenon
    <2>5. m \in 1 .. Len(Rules) /\ Takes(Rules[m], w.op, w.f3, Looked(w.op, w.f3, w.f7))
      BY <2>2, MatchingMet, Zenon
    <2>6. CASE Sfence(w.op, w.f3, w.f7)
      <3>1. w.op = 115 /\ w.f3 = 0 /\ w.f7 = 9 BY <2>6 DEF Sfence
      <3>2. Looked(w.op, w.f3, w.f7) = 9 BY <3>1, SMT DEF Looked
      <3>3. PICK k \in 1 .. Len(Rules) : /\ Rules[k][4] = "fence" /\ Takes(Rules[k], 115, 0, 9)
                                        /\ \A j \in 1 .. k - 1 : Rules[j][1] # 115
        BY RulesRight, Zenon DEF Fenced
      <3>4. k \in Matching(w) BY <3>1, <3>2, <3>3, MatchingMet, Zenon
      <3>5. m <= k BY <2>2, <3>4, Zenon
      <3>6. Rules[m][1] = 115 BY <2>5, <3>1, Zenon DEF Takes
      <3>7. m \notin 1 .. k - 1 BY <3>3, <3>6, Zenon
      <3>8. m = k
        <4>1. m \in 1 .. Len(Rules) BY <2>5, Zenon
        <4> QED BY <1>0, <3>5, <3>7, <4>1
      <3>9. Architecture!Name(w.op, w.f3, w.f7) = "fence" BY <3>1, SMT DEF Architecture!Name
      <3>10. Rules[k][4] = "fence" BY <3>3, Zenon
      <3>11. Rules[m][4] = "fence" BY <3>8, <3>10, Zenon
      <3> QED BY <2>4, <3>9, <3>11, Zenon
    <2>7. CASE ~Sfence(w.op, w.f3, w.f7)
      <3>1. Right(Rules[m]) BY <2>5, RulesRight, Zenon DEF AllRight
      <3>2. PICK r : r = Rules[m] OBVIOUS
      <3>3. r[1] = w.op /\ Fits(r[1], r[2], r[3], w.f3, w.f7)
        BY <2>5, <2>7, <3>2, Zenon DEF Takes, Fits
      <3> QED BY <2>4, <3>1, <3>2, <3>3, Zenon DEF Right
    <2> QED BY <2>6, <2>7
  <1> QED BY <1>1, <1>2

-----------------------------------------------------------------------------
(* What is shown of an instruction.                                        *)

\* The instructions with an immediate that is used as it is.
PlainImm == {"addi", "slti", "sltiu", "xori", "ori", "andi", "addiw", "jalr", "load", "fld"}

\* The groups of instructions that Isa and Execute name.
LEMMA NamesAre ==
  ASSUME NEW op \in 0 .. 127, NEW f3 \in 0 .. 7, NEW f7 \in 0 .. 127, NEW n,
         n = Architecture!Name(op, f3, f7)
  PROVE  \/ n \in {"illegal", "fence"}
         \/ n \in Architecture!RegReg
         \/ n \in Architecture!Moves
         \/ n \in {"store", "fsd"} /\ Format(op) = "S"
         \/ n \in Architecture!Branches /\ Format(op) = "B"
         \/ n \in {"lui", "auipc"} /\ Format(op) = "U"
         \/ n = "jal" /\ Format(op) = "J"
         \/ n \in ShiftOps /\ Format(op) = "I"
         \/ n \in HalfShiftOps /\ Format(op) = "I"
         \/ n = "system" /\ Format(op) = "I"
         \/ n \in PlainImm /\ Format(op) = "I"
  <1>1. \/ n = "illegal"
        \/ op = 51 /\ f7 = 0
        \/ op = 51 /\ f7 = 1
        \/ op = 51 /\ f7 = 32 /\ f3 \in {0, 5}
        \/ op = 59 /\ f7 = 32 /\ f3 \in {0, 5}
        \/ op = 59 /\ f7 = 0 /\ f3 \in {0, 1, 5}
        \/ op = 59 /\ f7 = 1 /\ f3 \notin {1, 2, 3}
        \/ op = 19 /\ f3 \notin {1, 5}
        \/ op = 19 /\ f3 \in {1, 5} /\ f7 \in {0, 1}
        \/ op = 19 /\ f3 = 5 /\ f7 \in {32, 33}
        \/ op = 27 /\ f3 = 0
        \/ op = 27 /\ f3 \in {1, 5} /\ f7 = 0
        \/ op = 27 /\ f3 = 5 /\ f7 = 32
        \/ op = 99 /\ f3 \notin {2, 3}
        \/ op = 3 /\ f3 # 7
        \/ op = 35 /\ f3 < 4
        \/ op = 7 /\ f3 = 3
        \/ op = 39 /\ f3 = 3
        \/ op \in {55, 23, 111}
        \/ op = 103 /\ f3 = 0
        \/ op = 15 /\ f3 \in {0, 1}
        \/ op = 115 /\ f3 = 0 /\ f7 = 9
        \/ op = 115 /\ f3 # 4
        \/ op = 83 /\ f3 = 0 /\ f7 \in {112, 113, 120, 121}
    BY SMT DEF Architecture!Name
  <1>2. CASE op = 51 /\ f7 = 0
    <2>1. n \in Architecture!RegReg
      BY <1>2, SMT
        DEF Architecture!Name, Architecture!RegReg, Architecture!Moves, Architecture!Branches,
         ShiftOps, HalfShiftOps, PlainImm, Format
    <2> QED BY <2>1, Zenon
  <1>3. CASE op = 51 /\ f7 = 1
    <2>1. n \in Architecture!RegReg
      BY <1>3, SMT
        DEF Architecture!Name, Architecture!RegReg, Architecture!Moves, Architecture!Branches,
         ShiftOps, HalfShiftOps, PlainImm, Format
    <2> QED BY <2>1, Zenon
  <1>4. CASE op = 51 /\ f7 = 32 /\ f3 \in {0, 5}
    <2>1. n \in Architecture!RegReg
      BY <1>4, SMT
        DEF Architecture!Name, Architecture!RegReg, Architecture!Moves, Architecture!Branches,
         ShiftOps, HalfShiftOps, PlainImm, Format
    <2> QED BY <2>1, Zenon
  <1>5. CASE op = 59 /\ f7 = 32 /\ f3 \in {0, 5}
    <2>1. n \in Architecture!RegReg
      BY <1>5, SMT
        DEF Architecture!Name, Architecture!RegReg, Architecture!Moves, Architecture!Branches,
         ShiftOps, HalfShiftOps, PlainImm, Format
    <2> QED BY <2>1, Zenon
  <1>6. CASE op = 59 /\ f7 = 0 /\ f3 \in {0, 1, 5}
    <2>1. n \in Architecture!RegReg
      BY <1>6, SMT
        DEF Architecture!Name, Architecture!RegReg, Architecture!Moves, Architecture!Branches,
         ShiftOps, HalfShiftOps, PlainImm, Format
    <2> QED BY <2>1, Zenon
  <1>7. CASE op = 59 /\ f7 = 1 /\ f3 \notin {1, 2, 3}
    <2>1. n \in Architecture!RegReg
      BY <1>7, SMT
        DEF Architecture!Name, Architecture!RegReg, Architecture!Moves, Architecture!Branches,
         ShiftOps, HalfShiftOps, PlainImm, Format
    <2> QED BY <2>1, Zenon
  <1>8. CASE op = 19 /\ f3 \notin {1, 5}
    <2>1. n \in PlainImm /\ Format(op) = "I"
      BY <1>8, SMT
        DEF Architecture!Name, Architecture!RegReg, Architecture!Moves, Architecture!Branches,
         ShiftOps, HalfShiftOps, PlainImm, Format
    <2> QED BY <2>1, Zenon
  <1>9. CASE op = 19 /\ f3 \in {1, 5} /\ f7 \in {0, 1}
    <2>1. n \in ShiftOps /\ Format(op) = "I"
      BY <1>9, SMT
        DEF Architecture!Name, Architecture!RegReg, Architecture!Moves, Architecture!Branches,
         ShiftOps, HalfShiftOps, PlainImm, Format
    <2> QED BY <2>1, Zenon
  <1>10. CASE op = 19 /\ f3 = 5 /\ f7 \in {32, 33}
    <2>1. n \in ShiftOps /\ Format(op) = "I"
      BY <1>10, SMT
        DEF Architecture!Name, Architecture!RegReg, Architecture!Moves, Architecture!Branches,
         ShiftOps, HalfShiftOps, PlainImm, Format
    <2> QED BY <2>1, Zenon
  <1>11. CASE op = 27 /\ f3 = 0
    <2>1. n \in PlainImm /\ Format(op) = "I"
      BY <1>11, SMT
        DEF Architecture!Name, Architecture!RegReg, Architecture!Moves, Architecture!Branches,
         ShiftOps, HalfShiftOps, PlainImm, Format
    <2> QED BY <2>1, Zenon
  <1>12. CASE op = 27 /\ f3 \in {1, 5} /\ f7 = 0
    <2>1. n \in HalfShiftOps /\ Format(op) = "I"
      BY <1>12, SMT
        DEF Architecture!Name, Architecture!RegReg, Architecture!Moves, Architecture!Branches,
         ShiftOps, HalfShiftOps, PlainImm, Format
    <2> QED BY <2>1, Zenon
  <1>13. CASE op = 27 /\ f3 = 5 /\ f7 = 32
    <2>1. n \in HalfShiftOps /\ Format(op) = "I"
      BY <1>13, SMT
        DEF Architecture!Name, Architecture!RegReg, Architecture!Moves, Architecture!Branches,
         ShiftOps, HalfShiftOps, PlainImm, Format
    <2> QED BY <2>1, Zenon
  <1>14. CASE op = 99 /\ f3 \notin {2, 3}
    <2>1. n \in Architecture!Branches /\ Format(op) = "B"
      BY <1>14, SMT
        DEF Architecture!Name, Architecture!RegReg, Architecture!Moves, Architecture!Branches,
         ShiftOps, HalfShiftOps, PlainImm, Format
    <2> QED BY <2>1, Zenon
  <1>15. CASE op = 3 /\ f3 # 7
    <2>1. n \in PlainImm /\ Format(op) = "I"
      BY <1>15, SMT
        DEF Architecture!Name, Architecture!RegReg, Architecture!Moves, Architecture!Branches,
         ShiftOps, HalfShiftOps, PlainImm, Format
    <2> QED BY <2>1, Zenon
  <1>16. CASE op = 35 /\ f3 < 4
    <2>1. n \in {"store", "fsd"} /\ Format(op) = "S"
      BY <1>16, SMT
        DEF Architecture!Name, Architecture!RegReg, Architecture!Moves, Architecture!Branches,
         ShiftOps, HalfShiftOps, PlainImm, Format
    <2> QED BY <2>1, Zenon
  <1>17. CASE op = 7 /\ f3 = 3
    <2>1. n \in PlainImm /\ Format(op) = "I"
      BY <1>17, SMT
        DEF Architecture!Name, Architecture!RegReg, Architecture!Moves, Architecture!Branches,
         ShiftOps, HalfShiftOps, PlainImm, Format
    <2> QED BY <2>1, Zenon
  <1>18. CASE op = 39 /\ f3 = 3
    <2>1. n \in {"store", "fsd"} /\ Format(op) = "S"
      BY <1>18, SMT
        DEF Architecture!Name, Architecture!RegReg, Architecture!Moves, Architecture!Branches,
         ShiftOps, HalfShiftOps, PlainImm, Format
    <2> QED BY <2>1, Zenon
  <1>19. CASE op \in {55, 23, 111}
    <2>1. CASE op = 55
      <3>1. n = "lui" /\ Format(op) = "U" BY <2>1, SMT DEF Architecture!Name, Format
      <3> QED BY <3>1, Zenon
    <2>2. CASE op = 23
      <3>1. n = "auipc" /\ Format(op) = "U" BY <2>2, SMT DEF Architecture!Name, Format
      <3> QED BY <3>1, Zenon
    <2>3. CASE op = 111
      <3>1. n = "jal" /\ Format(op) = "J" BY <2>3, SMT DEF Architecture!Name, Format
      <3> QED BY <3>1, Zenon
    <2> QED BY <1>19, <2>1, <2>2, <2>3
  <1>20. CASE op = 103 /\ f3 = 0
    <2>1. n \in PlainImm /\ Format(op) = "I"
      BY <1>20, SMT
        DEF Architecture!Name, Architecture!RegReg, Architecture!Moves, Architecture!Branches,
         ShiftOps, HalfShiftOps, PlainImm, Format
    <2> QED BY <2>1, Zenon
  <1>21. CASE op = 15 /\ f3 \in {0, 1}
    <2>1. n \in {"illegal", "fence"}
      BY <1>21, SMT
        DEF Architecture!Name, Architecture!RegReg, Architecture!Moves, Architecture!Branches,
         ShiftOps, HalfShiftOps, PlainImm, Format
    <2> QED BY <2>1, Zenon
  <1>22. CASE op = 115 /\ f3 = 0 /\ f7 = 9
    <2>1. n \in {"illegal", "fence"}
      BY <1>22, SMT
        DEF Architecture!Name, Architecture!RegReg, Architecture!Moves, Architecture!Branches,
         ShiftOps, HalfShiftOps, PlainImm, Format
    <2> QED BY <2>1, Zenon
  <1>23. CASE op = 115 /\ f3 # 4
    <2>1. (n = "system" /\ Format(op) = "I") \/ n = "fence"
        BY <1>23, SMT DEF Architecture!Name, Format
    <2> QED BY <2>1, Zenon
  <1>24. CASE op = 83 /\ f3 = 0 /\ f7 \in {112, 113, 120, 121}
    <2>1. n \in Architecture!Moves
      BY <1>24, SMT
        DEF Architecture!Name, Architecture!RegReg, Architecture!Moves, Architecture!Branches,
         ShiftOps, HalfShiftOps, PlainImm, Format
    <2> QED BY <2>1, Zenon
  <1> QED
      BY <1>1, <1>2, <1>3, <1>4, <1>5, <1>6, <1>7, <1>8, <1>9, <1>10, <1>11, <1>12, <1>13,
         <1>14, <1>15, <1>16, <1>17, <1>18, <1>19, <1>20, <1>21, <1>22, <1>23, <1>24, Zenon

\* Which operands each group has.
LEMMA OperandsExact ==
  /\ \A n \in {"illegal", "fence"} : Operands(n) = {}
  /\ \A n \in Architecture!RegReg : Operands(n) = {"rd", "rs1", "rs2"}
  /\ \A n \in Architecture!Moves : Operands(n) = {"rd", "rs1"}
  /\ \A n \in {"store", "fsd"} \cup Architecture!Branches : Operands(n) = {"rs1", "rs2", "imm"}
  /\ \A n \in {"lui", "auipc", "jal"} : Operands(n) = {"rd", "imm"}
  /\ \A n \in ShiftOps \cup HalfShiftOps \cup PlainImm : Operands(n) = {"rd", "rs1", "imm"}
  /\ Operands("system") = {"imm"}
  <1> USE DEF Operands, RegRegOps, BaseOps, MulOps, BranchOps
  <1>1. \A n \in {"illegal", "fence"} : Operands(n) = {} OBVIOUS
  <1>2. \A n \in Architecture!RegReg : Operands(n) = {"rd", "rs1", "rs2"}
      BY DEF Architecture!RegReg
  <1>3. \A n \in Architecture!Moves : Operands(n) = {"rd", "rs1"} BY DEF Architecture!Moves
  <1>4. \A n \in {"store", "fsd"} : Operands(n) = {"rs1", "rs2", "imm"} OBVIOUS
  <1>5. \A n \in Architecture!Branches : Operands(n) = {"rs1", "rs2", "imm"}
    BY DEF Architecture!Branches
  <1>6. \A n \in {"lui", "auipc", "jal"} : Operands(n) = {"rd", "imm"} OBVIOUS
  <1>7. \A n \in ShiftOps \cup HalfShiftOps \cup PlainImm : Operands(n) = {"rd", "rs1", "imm"}
    BY DEF ShiftOps, HalfShiftOps, PlainImm
  <1>8. Operands("system") = {"imm"} OBVIOUS
  <1> QED BY <1>1, <1>2, <1>3, <1>4, <1>5, <1>6, <1>7, <1>8, Zenon

\* What is shown of an instruction is a record of the same six fields.
LEMMA ShownInst ==
  ASSUME NEW i
  PROVE  Shown(i) = Architecture!Inst(i.name,
                        IF "rd" \in Operands(i.name) THEN i.rd ELSE 0,
                        IF "rs1" \in Operands(i.name) THEN i.rs1 ELSE 0,
                        IF "rs2" \in Operands(i.name) THEN i.rs2 ELSE 0,
                        IF "imm" \in Operands(i.name) THEN ImmShown(i) ELSE 0, i.length)
BY DEF Shown, Architecture!Inst, ImmShown, ShiftOps, HalfShiftOps

\* The groups are apart.
LEMMA Differences ==
  /\ 11 - 7 = 4 /\ 19 - 15 = 4 /\ 24 - 20 = 4 /\ 25 - 20 = 5 /\ 14 - 12 = 2 /\ 31 - 25 = 6
     /\ 6 - 0 = 6
OBVIOUS

-----------------------------------------------------------------------------
(* The operands of a word.                                                 *)

\* The weights of the fields.
LEMMA DownsOfFields ==
  /\ Architecture!Down(6 - 0, 0) = Architecture!Down(6, 0)
  /\ Architecture!Down(11 - 7, 0) = Architecture!Down(4, 0)
  /\ Architecture!Down(14 - 12, 0) = Architecture!Down(2, 0)
  /\ Architecture!Down(19 - 15, 0) = Architecture!Down(4, 0)
  /\ Architecture!Down(24 - 20, 0) = Architecture!Down(4, 0)
  /\ Architecture!Down(31 - 25, 0) = Architecture!Down(6, 0)
  /\ Architecture!Down(25 - 20, 0) = Architecture!Down(5, 0)
  <1>1. /\ 11 - 7 = 4 /\ 19 - 15 = 4 /\ 24 - 20 = 4 /\ 25 - 20 = 5 /\ 14 - 12 = 2
        /\ 31 - 25 = 6 /\ 6 - 0 = 6
    OBVIOUS
  <1> QED BY <1>1

\* The fields of w are the bits of Isa.
FieldsIn(bit, w) ==
    /\ Architecture!Field(bit, 6, 0) = w.op /\ Architecture!Field(bit, 11, 7) = w.rd
    /\ Architecture!Field(bit, 14, 12) = w.f3 /\ Architecture!Field(bit, 19, 15) = w.rs1
    /\ Architecture!Field(bit, 24, 20) = w.rs2 /\ Architecture!Field(bit, 31, 25) = w.f7
    /\ Architecture!Field(bit, 25, 20) = DecodeI(w) % 64

LEMMA FieldsOfWord ==
  ASSUME NEW a \in Nat, NEW b \in Nat
  PROVE  FieldsIn(WordBit(a, b), Fields(a, b))
  <1>1. Architecture!Field(WordBit(a, b), 6, 0) = Fields(a, b).op
    BY DownsOfFields, WordOp, Zenon DEF Architecture!Field
  <1>2. Architecture!Field(WordBit(a, b), 11, 7) = Fields(a, b).rd
    BY DownsOfFields, WordRd, Zenon DEF Architecture!Field
  <1>3. Architecture!Field(WordBit(a, b), 14, 12) = Fields(a, b).f3
    BY DownsOfFields, WordF3, Zenon DEF Architecture!Field
  <1>4. Architecture!Field(WordBit(a, b), 19, 15) = Fields(a, b).rs1
    BY DownsOfFields, WordRs1, Zenon DEF Architecture!Field
  <1>5. Architecture!Field(WordBit(a, b), 24, 20) = Fields(a, b).rs2
    BY DownsOfFields, WordRs2, Zenon DEF Architecture!Field
  <1>6. Architecture!Field(WordBit(a, b), 31, 25) = Fields(a, b).f7
    BY DownsOfFields, WordF7, Zenon DEF Architecture!Field
  <1>7. Architecture!Field(WordBit(a, b), 25, 20) = DecodeI(Fields(a, b)) % 64
    BY DownsOfFields, WordShift, Zenon DEF Architecture!Field
  <1> QED BY <1>1, <1>2, <1>3, <1>4, <1>5, <1>6, <1>7, Zenon DEF FieldsIn

\* The immediates of w are those of Isa.
ImmediatesIn(bit, w) ==
    /\ Architecture!ImmI(bit) = DecodeI(w) /\ Architecture!ImmS(bit) = DecodeS(w)
    /\ Architecture!ImmB(bit) = DecodeB(w) /\ Architecture!ImmU(bit) = DecodeU(w)
    /\ Architecture!ImmJ(bit) = DecodeJ(w)

LEMMA ImmediatesOfWord ==
  ASSUME NEW a \in Nat, NEW b \in Nat
  PROVE  ImmediatesIn(WordBit(a, b), Fields(a, b))
  <1>1. Architecture!ImmI(WordBit(a, b)) = DecodeI(Fields(a, b))
    BY WordImmI, Zenon DEF Architecture!ImmI
  <1>2. Architecture!ImmS(WordBit(a, b)) = DecodeS(Fields(a, b))
    BY WordImmS, Zenon DEF Architecture!ImmS
  <1>3. Architecture!ImmB(WordBit(a, b)) = DecodeB(Fields(a, b))
    BY WordImmB, Zenon DEF Architecture!ImmB
  <1>4. Architecture!ImmU(WordBit(a, b)) = DecodeU(Fields(a, b))
    BY WordImmU DEF Architecture!ImmU
  <1>5. Architecture!ImmJ(WordBit(a, b)) = DecodeJ(Fields(a, b))
    BY WordImmJ, Zenon DEF Architecture!ImmJ
  <1> QED BY <1>1, <1>2, <1>3, <1>4, <1>5, Zenon DEF ImmediatesIn

\* The names of the three other groups.
LEMMA NamesApart ==
  /\ \A n \in Architecture!RegReg : n \notin {"illegal", "fence"}
  /\ \A n \in Architecture!Moves : n \notin {"illegal", "fence"} /\ n \notin Architecture!RegReg
  /\ \A n \in {"store", "fsd"} :
        n \notin {"illegal", "fence"} /\ n \notin Architecture!RegReg
        /\ n \notin Architecture!Moves
  /\ \A n \in Architecture!Branches :
        /\ n \notin {"illegal", "fence"} /\ n \notin Architecture!RegReg
           /\ n \notin Architecture!Moves
        /\ n \notin {"store", "fsd"}
  /\ \A n \in {"lui", "auipc", "jal", "system"} \cup ShiftOps \cup HalfShiftOps \cup PlainImm :
        /\ n \notin {"illegal", "fence"} /\ n \notin Architecture!RegReg
           /\ n \notin Architecture!Moves
        /\ n \notin {"store", "fsd"} /\ n \notin Architecture!Branches
  /\ \A n \in PlainImm \cup {"system"} : 
        n \notin {"lui", "auipc"} /\ n # "jal" /\ n \notin ShiftOps /\ n \notin HalfShiftOps
  /\ \A n \in ShiftOps : n \notin {"lui", "auipc"} /\ n # "jal" /\ n \notin HalfShiftOps
     /\ n # "system"
  /\ \A n \in HalfShiftOps : n \notin {"lui", "auipc"} /\ n # "jal" /\ n \notin ShiftOps
     /\ n # "system"
  /\ \A n \in PlainImm : n # "system"
BY SMT
  DEF Architecture!RegReg, Architecture!Moves, Architecture!Branches, ShiftOps, HalfShiftOps,
      PlainImm

\* The operands of Isa, group by group.
LEMMA WithOperandsIs ==
  ASSUME NEW bit, NEW n
  PROVE  /\ n \in {"illegal", "fence"} =>
               Architecture!WithOperands(n, bit) =
                 Architecture!Inst(n, 0, 0, 0, 0, 4)
         /\ n \in Architecture!RegReg =>
               Architecture!WithOperands(n, bit) =
                 Architecture!Inst(n, Architecture!Rd(bit), Architecture!Rs1(bit),
                 Architecture!Rs2(bit), 0, 4)
         /\ n \in Architecture!Moves =>
               Architecture!WithOperands(n, bit) =
                 Architecture!Inst(n, Architecture!Rd(bit), Architecture!Rs1(bit), 0, 0, 4)
         /\ n \in {"store", "fsd"} =>
               Architecture!WithOperands(n, bit) =
                 Architecture!Inst(n, 0, Architecture!Rs1(bit), Architecture!Rs2(bit),
                 Architecture!ImmS(bit), 4)
         /\ n \in Architecture!Branches =>
               Architecture!WithOperands(n, bit) =
                 Architecture!Inst(n, 0, Architecture!Rs1(bit), Architecture!Rs2(bit),
                 Architecture!ImmB(bit), 4)
         /\ n \in {"lui", "auipc"} =>
               Architecture!WithOperands(n, bit) =
                 Architecture!Inst(n, Architecture!Rd(bit), 0, 0, Architecture!ImmU(bit), 4)
         /\ n = "jal" =>
               Architecture!WithOperands(n, bit) =
                 Architecture!Inst(n, Architecture!Rd(bit), 0, 0, Architecture!ImmJ(bit), 4)
         /\ n \in ShiftOps =>
               Architecture!WithOperands(n, bit) =
                 Architecture!Inst(n, Architecture!Rd(bit), Architecture!Rs1(bit), 0,
                 Architecture!Shift(bit), 4)
         /\ n \in HalfShiftOps =>
               Architecture!WithOperands(n, bit) =
                 Architecture!Inst(n, Architecture!Rd(bit), Architecture!Rs1(bit), 0,
                 Architecture!Rs2(bit), 4)
         /\ n = "system" =>
               Architecture!WithOperands(n, bit) =
                 Architecture!Inst(n, 0, 0, 0, Architecture!ImmI(bit), 4)
         /\ n \in PlainImm =>
               Architecture!WithOperands(n, bit) =
                 Architecture!Inst(n, Architecture!Rd(bit), Architecture!Rs1(bit), 0,
                 Architecture!ImmI(bit), 4)
  <1>1. ASSUME n \in {"illegal", "fence"}
        PROVE  Architecture!WithOperands(n, bit) =
                 Architecture!Inst(n, 0, 0, 0, 0, 4)
    <2>1. ~(n \in Architecture!RegReg)
        BY <1>1, NamesApart, SMT DEF ShiftOps, HalfShiftOps, PlainImm
    <2>2. ~(n \in Architecture!Moves)
        BY <1>1, NamesApart, SMT DEF ShiftOps, HalfShiftOps, PlainImm
    <2>3. ~(n \in {"store", "fsd"})
        BY <1>1, NamesApart, SMT DEF ShiftOps, HalfShiftOps, PlainImm
    <2>4. ~(n \in Architecture!Branches)
        BY <1>1, NamesApart, SMT DEF ShiftOps, HalfShiftOps, PlainImm
    <2>5. ~(n \in {"lui", "auipc"})
        BY <1>1, NamesApart, SMT DEF ShiftOps, HalfShiftOps, PlainImm
    <2>6. ~(n = "jal") BY <1>1, NamesApart, SMT DEF ShiftOps, HalfShiftOps, PlainImm
    <2>7. ~(n \in {"slli", "srli", "srai"})
        BY <1>1, NamesApart, SMT DEF ShiftOps, HalfShiftOps, PlainImm
    <2>8. ~(n \in {"slliw", "srliw", "sraiw"})
        BY <1>1, NamesApart, SMT DEF ShiftOps, HalfShiftOps, PlainImm
    <2>9. ~(n = "system") BY <1>1, NamesApart, SMT DEF ShiftOps, HalfShiftOps, PlainImm
    <2> QED
        BY <1>1, <2>1, <2>2, <2>3, <2>4, <2>5, <2>6, <2>7, <2>8, <2>9, Zenon
          DEF Architecture!WithOperands, ShiftOps, HalfShiftOps
  <1>2. ASSUME n \in Architecture!RegReg
        PROVE  Architecture!WithOperands(n, bit) =
                 Architecture!Inst(n, Architecture!Rd(bit), Architecture!Rs1(bit),
                 Architecture!Rs2(bit), 0, 4)
    <2>1. ~(n \in {"illegal", "fence"})
        BY <1>2, NamesApart, SMT DEF ShiftOps, HalfShiftOps, PlainImm
    <2>2. ~(n \in Architecture!Moves)
        BY <1>2, NamesApart, SMT DEF ShiftOps, HalfShiftOps, PlainImm
    <2>3. ~(n \in {"store", "fsd"})
        BY <1>2, NamesApart, SMT DEF ShiftOps, HalfShiftOps, PlainImm
    <2>4. ~(n \in Architecture!Branches)
        BY <1>2, NamesApart, SMT DEF ShiftOps, HalfShiftOps, PlainImm
    <2>5. ~(n \in {"lui", "auipc"})
        BY <1>2, NamesApart, SMT DEF ShiftOps, HalfShiftOps, PlainImm
    <2>6. ~(n = "jal") BY <1>2, NamesApart, SMT DEF ShiftOps, HalfShiftOps, PlainImm
    <2>7. ~(n \in {"slli", "srli", "srai"})
        BY <1>2, NamesApart, SMT DEF ShiftOps, HalfShiftOps, PlainImm
    <2>8. ~(n \in {"slliw", "srliw", "sraiw"})
        BY <1>2, NamesApart, SMT DEF ShiftOps, HalfShiftOps, PlainImm
    <2>9. ~(n = "system") BY <1>2, NamesApart, SMT DEF ShiftOps, HalfShiftOps, PlainImm
    <2> QED
        BY <1>2, <2>1, <2>2, <2>3, <2>4, <2>5, <2>6, <2>7, <2>8, <2>9, Zenon
          DEF Architecture!WithOperands, ShiftOps, HalfShiftOps
  <1>3. ASSUME n \in Architecture!Moves
        PROVE  Architecture!WithOperands(n, bit) =
                 Architecture!Inst(n, Architecture!Rd(bit), Architecture!Rs1(bit), 0, 0, 4)
    <2>1. ~(n \in {"illegal", "fence"})
        BY <1>3, NamesApart, SMT DEF ShiftOps, HalfShiftOps, PlainImm
    <2>2. ~(n \in Architecture!RegReg)
        BY <1>3, NamesApart, SMT DEF ShiftOps, HalfShiftOps, PlainImm
    <2>3. ~(n \in {"store", "fsd"})
        BY <1>3, NamesApart, SMT DEF ShiftOps, HalfShiftOps, PlainImm
    <2>4. ~(n \in Architecture!Branches)
        BY <1>3, NamesApart, SMT DEF ShiftOps, HalfShiftOps, PlainImm
    <2>5. ~(n \in {"lui", "auipc"})
        BY <1>3, NamesApart, SMT DEF ShiftOps, HalfShiftOps, PlainImm
    <2>6. ~(n = "jal") BY <1>3, NamesApart, SMT DEF ShiftOps, HalfShiftOps, PlainImm
    <2>7. ~(n \in {"slli", "srli", "srai"})
        BY <1>3, NamesApart, SMT DEF ShiftOps, HalfShiftOps, PlainImm
    <2>8. ~(n \in {"slliw", "srliw", "sraiw"})
        BY <1>3, NamesApart, SMT DEF ShiftOps, HalfShiftOps, PlainImm
    <2>9. ~(n = "system") BY <1>3, NamesApart, SMT DEF ShiftOps, HalfShiftOps, PlainImm
    <2> QED
        BY <1>3, <2>1, <2>2, <2>3, <2>4, <2>5, <2>6, <2>7, <2>8, <2>9, Zenon
          DEF Architecture!WithOperands, ShiftOps, HalfShiftOps
  <1>4. ASSUME n \in {"store", "fsd"}
        PROVE  Architecture!WithOperands(n, bit) =
                 Architecture!Inst(n, 0, Architecture!Rs1(bit), Architecture!Rs2(bit),
                 Architecture!ImmS(bit), 4)
    <2>1. ~(n \in {"illegal", "fence"})
        BY <1>4, NamesApart, SMT DEF ShiftOps, HalfShiftOps, PlainImm
    <2>2. ~(n \in Architecture!RegReg)
        BY <1>4, NamesApart, SMT DEF ShiftOps, HalfShiftOps, PlainImm
    <2>3. ~(n \in Architecture!Moves)
        BY <1>4, NamesApart, SMT DEF ShiftOps, HalfShiftOps, PlainImm
    <2>4. ~(n \in Architecture!Branches)
        BY <1>4, NamesApart, SMT DEF ShiftOps, HalfShiftOps, PlainImm
    <2>5. ~(n \in {"lui", "auipc"})
        BY <1>4, NamesApart, SMT DEF ShiftOps, HalfShiftOps, PlainImm
    <2>6. ~(n = "jal") BY <1>4, NamesApart, SMT DEF ShiftOps, HalfShiftOps, PlainImm
    <2>7. ~(n \in {"slli", "srli", "srai"})
        BY <1>4, NamesApart, SMT DEF ShiftOps, HalfShiftOps, PlainImm
    <2>8. ~(n \in {"slliw", "srliw", "sraiw"})
        BY <1>4, NamesApart, SMT DEF ShiftOps, HalfShiftOps, PlainImm
    <2>9. ~(n = "system") BY <1>4, NamesApart, SMT DEF ShiftOps, HalfShiftOps, PlainImm
    <2> QED
        BY <1>4, <2>1, <2>2, <2>3, <2>4, <2>5, <2>6, <2>7, <2>8, <2>9, Zenon
          DEF Architecture!WithOperands, ShiftOps, HalfShiftOps
  <1>5. ASSUME n \in Architecture!Branches
        PROVE  Architecture!WithOperands(n, bit) =
                 Architecture!Inst(n, 0, Architecture!Rs1(bit), Architecture!Rs2(bit),
                 Architecture!ImmB(bit), 4)
    <2>1. ~(n \in {"illegal", "fence"})
        BY <1>5, NamesApart, SMT DEF ShiftOps, HalfShiftOps, PlainImm
    <2>2. ~(n \in Architecture!RegReg)
        BY <1>5, NamesApart, SMT DEF ShiftOps, HalfShiftOps, PlainImm
    <2>3. ~(n \in Architecture!Moves)
        BY <1>5, NamesApart, SMT DEF ShiftOps, HalfShiftOps, PlainImm
    <2>4. ~(n \in {"store", "fsd"})
        BY <1>5, NamesApart, SMT DEF ShiftOps, HalfShiftOps, PlainImm
    <2>5. ~(n \in {"lui", "auipc"})
        BY <1>5, NamesApart, SMT DEF ShiftOps, HalfShiftOps, PlainImm
    <2>6. ~(n = "jal") BY <1>5, NamesApart, SMT DEF ShiftOps, HalfShiftOps, PlainImm
    <2>7. ~(n \in {"slli", "srli", "srai"})
        BY <1>5, NamesApart, SMT DEF ShiftOps, HalfShiftOps, PlainImm
    <2>8. ~(n \in {"slliw", "srliw", "sraiw"})
        BY <1>5, NamesApart, SMT DEF ShiftOps, HalfShiftOps, PlainImm
    <2>9. ~(n = "system") BY <1>5, NamesApart, SMT DEF ShiftOps, HalfShiftOps, PlainImm
    <2> QED
        BY <1>5, <2>1, <2>2, <2>3, <2>4, <2>5, <2>6, <2>7, <2>8, <2>9, Zenon
          DEF Architecture!WithOperands, ShiftOps, HalfShiftOps
  <1>6. ASSUME n \in {"lui", "auipc"}
        PROVE  Architecture!WithOperands(n, bit) =
                 Architecture!Inst(n, Architecture!Rd(bit), 0, 0, Architecture!ImmU(bit), 4)
    <2>1. ~(n \in {"illegal", "fence"})
        BY <1>6, NamesApart, SMT DEF ShiftOps, HalfShiftOps, PlainImm
    <2>2. ~(n \in Architecture!RegReg)
        BY <1>6, NamesApart, SMT DEF ShiftOps, HalfShiftOps, PlainImm
    <2>3. ~(n \in Architecture!Moves)
        BY <1>6, NamesApart, SMT DEF ShiftOps, HalfShiftOps, PlainImm
    <2>4. ~(n \in {"store", "fsd"})
        BY <1>6, NamesApart, SMT DEF ShiftOps, HalfShiftOps, PlainImm
    <2>5. ~(n \in Architecture!Branches)
        BY <1>6, NamesApart, SMT DEF ShiftOps, HalfShiftOps, PlainImm
    <2> QED
        BY <1>6, <2>1, <2>2, <2>3, <2>4, <2>5, Zenon
          DEF Architecture!WithOperands, ShiftOps, HalfShiftOps
  <1>7. ASSUME n = "jal"
        PROVE  Architecture!WithOperands(n, bit) =
                 Architecture!Inst(n, Architecture!Rd(bit), 0, 0, Architecture!ImmJ(bit), 4)
    <2>1. ~(n \in {"illegal", "fence"})
        BY <1>7, NamesApart, SMT DEF ShiftOps, HalfShiftOps, PlainImm
    <2>2. ~(n \in Architecture!RegReg)
        BY <1>7, NamesApart, SMT DEF ShiftOps, HalfShiftOps, PlainImm
    <2>3. ~(n \in Architecture!Moves)
        BY <1>7, NamesApart, SMT DEF ShiftOps, HalfShiftOps, PlainImm
    <2>4. ~(n \in {"store", "fsd"})
        BY <1>7, NamesApart, SMT DEF ShiftOps, HalfShiftOps, PlainImm
    <2>5. ~(n \in Architecture!Branches)
        BY <1>7, NamesApart, SMT DEF ShiftOps, HalfShiftOps, PlainImm
    <2>6. ~(n \in {"lui", "auipc"})
        BY <1>7, NamesApart, SMT DEF ShiftOps, HalfShiftOps, PlainImm
    <2> QED
        BY <1>7, <2>1, <2>2, <2>3, <2>4, <2>5, <2>6, Zenon
          DEF Architecture!WithOperands, ShiftOps, HalfShiftOps
  <1>8. ASSUME n \in ShiftOps
        PROVE  Architecture!WithOperands(n, bit) =
                 Architecture!Inst(n, Architecture!Rd(bit), Architecture!Rs1(bit), 0,
                 Architecture!Shift(bit), 4)
    <2>1. ~(n \in {"illegal", "fence"})
        BY <1>8, NamesApart, SMT DEF ShiftOps, HalfShiftOps, PlainImm
    <2>2. ~(n \in Architecture!RegReg)
        BY <1>8, NamesApart, SMT DEF ShiftOps, HalfShiftOps, PlainImm
    <2>3. ~(n \in Architecture!Moves)
        BY <1>8, NamesApart, SMT DEF ShiftOps, HalfShiftOps, PlainImm
    <2>4. ~(n \in {"store", "fsd"})
        BY <1>8, NamesApart, SMT DEF ShiftOps, HalfShiftOps, PlainImm
    <2>5. ~(n \in Architecture!Branches)
        BY <1>8, NamesApart, SMT DEF ShiftOps, HalfShiftOps, PlainImm
    <2>6. ~(n \in {"lui", "auipc"})
        BY <1>8, NamesApart, SMT DEF ShiftOps, HalfShiftOps, PlainImm
    <2>7. ~(n = "jal") BY <1>8, NamesApart, SMT DEF ShiftOps, HalfShiftOps, PlainImm
    <2> QED
        BY <1>8, <2>1, <2>2, <2>3, <2>4, <2>5, <2>6, <2>7, Zenon
          DEF Architecture!WithOperands, ShiftOps, HalfShiftOps
  <1>9. ASSUME n \in HalfShiftOps
        PROVE  Architecture!WithOperands(n, bit) =
                 Architecture!Inst(n, Architecture!Rd(bit), Architecture!Rs1(bit), 0,
                 Architecture!Rs2(bit), 4)
    <2>1. ~(n \in {"illegal", "fence"})
        BY <1>9, NamesApart, SMT DEF ShiftOps, HalfShiftOps, PlainImm
    <2>2. ~(n \in Architecture!RegReg)
        BY <1>9, NamesApart, SMT DEF ShiftOps, HalfShiftOps, PlainImm
    <2>3. ~(n \in Architecture!Moves)
        BY <1>9, NamesApart, SMT DEF ShiftOps, HalfShiftOps, PlainImm
    <2>4. ~(n \in {"store", "fsd"})
        BY <1>9, NamesApart, SMT DEF ShiftOps, HalfShiftOps, PlainImm
    <2>5. ~(n \in Architecture!Branches)
        BY <1>9, NamesApart, SMT DEF ShiftOps, HalfShiftOps, PlainImm
    <2>6. ~(n \in {"lui", "auipc"})
        BY <1>9, NamesApart, SMT DEF ShiftOps, HalfShiftOps, PlainImm
    <2>7. ~(n = "jal") BY <1>9, NamesApart, SMT DEF ShiftOps, HalfShiftOps, PlainImm
    <2>8. ~(n \in {"slli", "srli", "srai"})
        BY <1>9, NamesApart, SMT DEF ShiftOps, HalfShiftOps, PlainImm
    <2> QED
        BY <1>9, <2>1, <2>2, <2>3, <2>4, <2>5, <2>6, <2>7, <2>8, Zenon
          DEF Architecture!WithOperands, ShiftOps, HalfShiftOps
  <1>10. ASSUME n = "system"
        PROVE  Architecture!WithOperands(n, bit) =
                 Architecture!Inst(n, 0, 0, 0, Architecture!ImmI(bit), 4)
    <2>1. ~(n \in {"illegal", "fence"})
        BY <1>10, NamesApart, SMT DEF ShiftOps, HalfShiftOps, PlainImm
    <2>2. ~(n \in Architecture!RegReg)
        BY <1>10, NamesApart, SMT DEF ShiftOps, HalfShiftOps, PlainImm
    <2>3. ~(n \in Architecture!Moves)
        BY <1>10, NamesApart, SMT DEF ShiftOps, HalfShiftOps, PlainImm
    <2>4. ~(n \in {"store", "fsd"})
        BY <1>10, NamesApart, SMT DEF ShiftOps, HalfShiftOps, PlainImm
    <2>5. ~(n \in Architecture!Branches)
        BY <1>10, NamesApart, SMT DEF ShiftOps, HalfShiftOps, PlainImm
    <2>6. ~(n \in {"lui", "auipc"})
        BY <1>10, NamesApart, SMT DEF ShiftOps, HalfShiftOps, PlainImm
    <2>7. ~(n = "jal") BY <1>10, NamesApart, SMT DEF ShiftOps, HalfShiftOps, PlainImm
    <2>8. ~(n \in {"slli", "srli", "srai"})
        BY <1>10, NamesApart, SMT DEF ShiftOps, HalfShiftOps, PlainImm
    <2>9. ~(n \in {"slliw", "srliw", "sraiw"})
        BY <1>10, NamesApart, SMT DEF ShiftOps, HalfShiftOps, PlainImm
    <2> QED
        BY <1>10, <2>1, <2>2, <2>3, <2>4, <2>5, <2>6, <2>7, <2>8, <2>9, Zenon
          DEF Architecture!WithOperands, ShiftOps, HalfShiftOps
  <1>11. ASSUME n \in PlainImm
        PROVE  Architecture!WithOperands(n, bit) =
                 Architecture!Inst(n, Architecture!Rd(bit), Architecture!Rs1(bit), 0,
                 Architecture!ImmI(bit), 4)
    <2>1. ~(n \in {"illegal", "fence"})
        BY <1>11, NamesApart, SMT DEF ShiftOps, HalfShiftOps, PlainImm
    <2>2. ~(n \in Architecture!RegReg)
        BY <1>11, NamesApart, SMT DEF ShiftOps, HalfShiftOps, PlainImm
    <2>3. ~(n \in Architecture!Moves)
        BY <1>11, NamesApart, SMT DEF ShiftOps, HalfShiftOps, PlainImm
    <2>4. ~(n \in {"store", "fsd"})
        BY <1>11, NamesApart, SMT DEF ShiftOps, HalfShiftOps, PlainImm
    <2>5. ~(n \in Architecture!Branches)
        BY <1>11, NamesApart, SMT DEF ShiftOps, HalfShiftOps, PlainImm
    <2>6. ~(n \in {"lui", "auipc"})
        BY <1>11, NamesApart, SMT DEF ShiftOps, HalfShiftOps, PlainImm
    <2>7. ~(n = "jal") BY <1>11, NamesApart, SMT DEF ShiftOps, HalfShiftOps, PlainImm
    <2>8. ~(n \in {"slli", "srli", "srai"})
        BY <1>11, NamesApart, SMT DEF ShiftOps, HalfShiftOps, PlainImm
    <2>9. ~(n \in {"slliw", "srliw", "sraiw"})
        BY <1>11, NamesApart, SMT DEF ShiftOps, HalfShiftOps, PlainImm
    <2>10. ~(n = "system") BY <1>11, NamesApart, SMT DEF ShiftOps, HalfShiftOps, PlainImm
    <2> QED
        BY <1>11, <2>1, <2>2, <2>3, <2>4, <2>5, <2>6, <2>7, <2>8, <2>9, <2>10, Zenon
          DEF Architecture!WithOperands, ShiftOps, HalfShiftOps
  <1> QED BY <1>1, <1>2, <1>3, <1>4, <1>5, <1>6, <1>7, <1>8, <1>9, <1>10, <1>11, Zenon

\* The fields have the ranges that their widths give.
LEMMA FieldsRanges ==
  ASSUME NEW a \in Nat, NEW b \in Nat, NEW w, w = Fields(a, b)
  PROVE  /\ w.op \in 0 .. 127 /\ w.rd \in 0 .. 31 /\ w.f3 \in 0 .. 7 /\ w.rs1 \in 0 .. 31
         /\ w.rs2 \in 0 .. 31 /\ w.f7 \in 0 .. 127
  <1>1. /\ w.op = Cut(a, 0, 7) /\ w.rd = Cut(a, 7, 5) /\ w.f3 = Cut(a, 12, 3)
        /\ w.rs1 = Cut(a, 15, 1) + Put(b, 0, 4, 1) /\ w.rs2 = Cut(b, 4, 5)
           /\ w.f7 = Cut(b, 9, 7)
    BY DEF Fields
  <1>2. \A c \in Nat : \A i \in 0 .. 15 : c \div Pow2[i] \in Nat
    <2>1. TAKE c \in Nat
    <2>2. TAKE i \in 0 .. 15
    <2>3. PICK p \in Nat \ {0} : p = Pow2[i] BY Pow2Type
    <2>4. c \div p \in Nat OBVIOUS
    <2> QED BY <2>3, <2>4, Zenon
  <1>3. \A c \in Nat : \A i \in 0 .. 15 :
           /\ Cut(c, i, 1) \in 0 .. 1 /\ Cut(c, i, 3) \in 0 .. 7 /\ Cut(c, i, 4) \in 0 .. 15
           /\ Cut(c, i, 5) \in 0 .. 31 /\ Cut(c, i, 7) \in 0 .. 127
    <2>1. TAKE c \in Nat
    <2>2. TAKE i \in 0 .. 15
    <2>3. PICK q \in Nat : q = c \div Pow2[i] BY <1>2
    <2>4. Pow2[1] = 2 /\ Pow2[3] = 8 /\ Pow2[4] = 16 /\ Pow2[5] = 32 /\ Pow2[7] = 128
      BY SmallPowers, SMT
    <2>5. /\ Cut(c, i, 1) = q % 2 /\ Cut(c, i, 3) = q % 8 /\ Cut(c, i, 4) = q % 16
          /\ Cut(c, i, 5) = q % 32 /\ Cut(c, i, 7) = q % 128
      BY <2>3, <2>4, SMT DEF Cut
    <2> QED BY <2>5, SMT
  <1>4. Cut(a, 15, 1) \in 0 .. 1 /\ Cut(b, 0, 4) \in 0 .. 15 BY <1>3
  <1>5. Put(b, 0, 4, 1) = Cut(b, 0, 4) * 2 BY Puts
  <1>6. w.rs1 \in 0 .. 31 BY <1>1, <1>4, <1>5
  <1>7. w.op \in 0 .. 127 /\ w.rd \in 0 .. 31 /\ w.f3 \in 0 .. 7 /\ w.rs2 \in 0 .. 31
        /\ w.f7 \in 0 .. 127
    <2>1. /\ Cut(a, 0, 7) \in 0 .. 127 /\ Cut(a, 7, 5) \in 0 .. 31 /\ Cut(a, 12, 3) \in 0 .. 7
          /\ Cut(b, 4, 5) \in 0 .. 31 /\ Cut(b, 9, 7) \in 0 .. 127
      BY <1>3
    <2> QED BY <1>1, <2>1, Zenon
  <1> QED BY <1>6, <1>7, Zenon

LEMMA WordBitsAre == \A a, b : Architecture!WordBits(<<a, b>>) = WordBit(a, b)
  <1>1. TAKE a, b
  <1>2. Architecture!WordBits(<<a, b>>) = WordBit(a, b)
      BY SameWords, Zenon DEF Architecture!WordBits, WordBit
  <1> QED BY <1>2

\* A shift of a half is by the low five bits.
LEMMA HalfAmount ==
  ASSUME NEW w, w.f7 \in 0 .. 127, w.rs2 \in 0 .. 31
  PROVE  DecodeI(w) % 32 = w.rs2
  <1>1. PICK u \in 0 .. 127, v \in 0 .. 31 : w.f7 = u /\ w.rs2 = v OBVIOUS
  <1>2. DecodeI(w) = u * 32 + v \/ DecodeI(w) = u * 32 + v - 4096
    BY <1>1, SignExtends DEF DecodeI
  <1>3. (u * 32 + v) % 32 = v BY <1>1
  <1>4. (u * 32 + v - 4096) % 32 = v BY <1>1
  <1> QED BY <1>1, <1>2, <1>3, <1>4

LEMMA FormatsApart ==
  ASSUME NEW w
  PROVE  /\ Format(w.op) = "I" => Immediate(w) = DecodeI(w)
         /\ Format(w.op) = "S" => Immediate(w) = DecodeS(w)
         /\ Format(w.op) = "B" => Immediate(w) = DecodeB(w)
         /\ Format(w.op) = "U" => Immediate(w) = DecodeU(w)
         /\ Format(w.op) = "J" => Immediate(w) = DecodeJ(w)
BY Zenon DEF Immediate

\* What the handler of a word of one of the groups is shown.
LEMMA ShownOf ==
  ASSUME NEW w, NEW n, n = Handler(w), NEW length, NEW i, i = Operation(w, length)
  PROVE  /\ i.name = n /\ i.rd = w.rd /\ i.rs1 = w.rs1 /\ i.rs2 = w.rs2 /\ i.imm = Immediate(w)
         /\ i.length = length
         /\ Shown(i) = Architecture!Inst(n,
               IF "rd" \in Operands(n) THEN w.rd ELSE 0,
               IF "rs1" \in Operands(n) THEN w.rs1 ELSE 0,
               IF "rs2" \in Operands(n) THEN w.rs2 ELSE 0,
               IF "imm" \in Operands(n) THEN ImmShown(i) ELSE 0, length)
  <1>1. /\ i.name = n /\ i.rd = w.rd /\ i.rs1 = w.rs1 /\ i.rs2 = w.rs2 /\ i.imm = Immediate(w)
        /\ i.length = length
    BY DEF Operation
  <1> QED BY <1>1, ShownInst, Zenon

\* What is shown of an instruction in each group.
ShownInGroup(w, n, length) ==
    /\ n \in {"illegal", "fence"} =>
         Shown(Operation(w, length)) = Architecture!Inst(n, 0, 0, 0, 0, length)
    /\ n \in Architecture!RegReg =>
         Shown(Operation(w, length)) = Architecture!Inst(n, w.rd, w.rs1, w.rs2, 0, length)
    /\ n \in Architecture!Moves =>
         Shown(Operation(w, length)) = Architecture!Inst(n, w.rd, w.rs1, 0, 0, length)
    /\ n \in {"store", "fsd"} /\ Format(w.op) = "S" =>
         Shown(Operation(w, length)) = Architecture!Inst(n, 0, w.rs1, w.rs2, DecodeS(w), length)
    /\ n \in Architecture!Branches /\ Format(w.op) = "B" =>
         Shown(Operation(w, length)) = Architecture!Inst(n, 0, w.rs1, w.rs2, DecodeB(w), length)
    /\ n \in {"lui", "auipc"} /\ Format(w.op) = "U" =>
         Shown(Operation(w, length)) = Architecture!Inst(n, w.rd, 0, 0, DecodeU(w), length)
    /\ n = "jal" /\ Format(w.op) = "J" =>
         Shown(Operation(w, length)) = Architecture!Inst(n, w.rd, 0, 0, DecodeJ(w), length)
    /\ n \in ShiftOps /\ Format(w.op) = "I" =>
         Shown(Operation(w, length))
         = Architecture!Inst(n, w.rd, w.rs1, 0, DecodeI(w) % 64, length)
    /\ n \in HalfShiftOps /\ Format(w.op) = "I" =>
         Shown(Operation(w, length))
         = Architecture!Inst(n, w.rd, w.rs1, 0, DecodeI(w) % 32, length)
    /\ n = "system" /\ Format(w.op) = "I" =>
         Shown(Operation(w, length)) = Architecture!Inst(n, 0, 0, 0, DecodeI(w), length)
    /\ n \in PlainImm /\ Format(w.op) = "I" =>
         Shown(Operation(w, length)) = Architecture!Inst(n, w.rd, w.rs1, 0, DecodeI(w), length)

LEMMA ShownByGroup ==
  ASSUME NEW w, NEW n, n = Handler(w), NEW length
  PROVE  ShownInGroup(w, n, length)
  <1> DEFINE i == Operation(w, length)
  <1>0. /\ i.name = n /\ i.imm = Immediate(w)
        /\ Shown(i) = Architecture!Inst(n,
               IF "rd" \in Operands(n) THEN w.rd ELSE 0,
               IF "rs1" \in Operands(n) THEN w.rs1 ELSE 0,
               IF "rs2" \in Operands(n) THEN w.rs2 ELSE 0,
               IF "imm" \in Operands(n) THEN ImmShown(i) ELSE 0, length)
    BY ShownOf
  <1> HIDE DEF i
  <1>1. ASSUME n \in {"illegal", "fence"}
        PROVE  Shown(i) = Architecture!Inst(n, 0, 0, 0, 0, length)
    <2>1. Operands(n) = {} BY <1>1, OperandsExact, Zenon
    <2>2. /\ "rd" \notin Operands(n)
          /\ "rs1" \notin Operands(n)
          /\ "rs2" \notin Operands(n)
          /\ "imm" \notin Operands(n)
      BY <2>1, SMT
    <2> QED BY <1>0, <2>2, Zenon
  <1>2. ASSUME n \in Architecture!RegReg
        PROVE  Shown(i) = Architecture!Inst(n, w.rd, w.rs1, w.rs2, 0, length)
    <2>1. Operands(n) = {"rd", "rs1", "rs2"} BY <1>2, OperandsExact, Zenon
    <2>2. /\ "rd" \in Operands(n)
          /\ "rs1" \in Operands(n)
          /\ "rs2" \in Operands(n)
          /\ "imm" \notin Operands(n)
      BY <2>1, SMT
    <2> QED BY <1>0, <2>2, Zenon
  <1>3. ASSUME n \in Architecture!Moves
        PROVE  Shown(i) = Architecture!Inst(n, w.rd, w.rs1, 0, 0, length)
    <2>1. Operands(n) = {"rd", "rs1"} BY <1>3, OperandsExact, Zenon
    <2>2. /\ "rd" \in Operands(n)
          /\ "rs1" \in Operands(n)
          /\ "rs2" \notin Operands(n)
          /\ "imm" \notin Operands(n)
      BY <2>1, SMT
    <2> QED BY <1>0, <2>2, Zenon
  <1>4. ASSUME n \in {"store", "fsd"} /\ Format(w.op) = "S"
        PROVE  Shown(i) = Architecture!Inst(n, 0, w.rs1, w.rs2, DecodeS(w), length)
    <2>1. Operands(n) = {"rs1", "rs2", "imm"} BY <1>4, OperandsExact, Zenon
    <2>2. /\ "rd" \notin Operands(n)
          /\ "rs1" \in Operands(n)
          /\ "rs2" \in Operands(n)
          /\ "imm" \in Operands(n)
      BY <2>1, SMT
    <2>3. Immediate(w) = DecodeS(w) BY <1>4, FormatsApart, Zenon
    <2>4. ImmShown(i) = DecodeS(w)
      <3>1. n \notin ShiftOps /\ n \notin HalfShiftOps
        BY <1>4, NamesApart, SMT DEF ShiftOps, HalfShiftOps, PlainImm
      <3> QED BY <1>0, <2>3, <3>1, Zenon DEF ImmShown
    <2> QED BY <1>0, <2>2, <2>4, Zenon
  <1>5. ASSUME n \in Architecture!Branches /\ Format(w.op) = "B"
        PROVE  Shown(i) = Architecture!Inst(n, 0, w.rs1, w.rs2, DecodeB(w), length)
    <2>1. Operands(n) = {"rs1", "rs2", "imm"} BY <1>5, OperandsExact, Zenon
    <2>2. /\ "rd" \notin Operands(n)
          /\ "rs1" \in Operands(n)
          /\ "rs2" \in Operands(n)
          /\ "imm" \in Operands(n)
      BY <2>1, SMT
    <2>3. Immediate(w) = DecodeB(w) BY <1>5, FormatsApart, Zenon
    <2>4. ImmShown(i) = DecodeB(w)
      <3>1. n \notin ShiftOps /\ n \notin HalfShiftOps
        BY <1>5, NamesApart, SMT DEF ShiftOps, HalfShiftOps, PlainImm, Architecture!Branches
      <3> QED BY <1>0, <2>3, <3>1, Zenon DEF ImmShown
    <2> QED BY <1>0, <2>2, <2>4, Zenon
  <1>6. ASSUME n \in {"lui", "auipc"} /\ Format(w.op) = "U"
        PROVE  Shown(i) = Architecture!Inst(n, w.rd, 0, 0, DecodeU(w), length)
    <2>1. Operands(n) = {"rd", "imm"} BY <1>6, OperandsExact, Zenon
    <2>2. /\ "rd" \in Operands(n)
          /\ "rs1" \notin Operands(n)
          /\ "rs2" \notin Operands(n)
          /\ "imm" \in Operands(n)
      BY <2>1, SMT
    <2>3. Immediate(w) = DecodeU(w) BY <1>6, FormatsApart, Zenon
    <2>4. ImmShown(i) = DecodeU(w)
      <3>1. n \notin ShiftOps /\ n \notin HalfShiftOps
        BY <1>6, NamesApart, SMT DEF ShiftOps, HalfShiftOps, PlainImm
      <3> QED BY <1>0, <2>3, <3>1, Zenon DEF ImmShown
    <2> QED BY <1>0, <2>2, <2>4, Zenon
  <1>7. ASSUME n = "jal" /\ Format(w.op) = "J"
        PROVE  Shown(i) = Architecture!Inst(n, w.rd, 0, 0, DecodeJ(w), length)
    <2>1. Operands(n) = {"rd", "imm"} BY <1>7, OperandsExact, Zenon
    <2>2. /\ "rd" \in Operands(n)
          /\ "rs1" \notin Operands(n)
          /\ "rs2" \notin Operands(n)
          /\ "imm" \in Operands(n)
      BY <2>1, SMT
    <2>3. Immediate(w) = DecodeJ(w) BY <1>7, FormatsApart, Zenon
    <2>4. ImmShown(i) = DecodeJ(w)
      <3>1. n \notin ShiftOps /\ n \notin HalfShiftOps
        BY <1>7, NamesApart, SMT DEF ShiftOps, HalfShiftOps, PlainImm
      <3> QED BY <1>0, <2>3, <3>1, Zenon DEF ImmShown
    <2> QED BY <1>0, <2>2, <2>4, Zenon
  <1>8. ASSUME n \in ShiftOps /\ Format(w.op) = "I"
        PROVE  Shown(i) = Architecture!Inst(n, w.rd, w.rs1, 0, DecodeI(w) % 64, length)
    <2>1. Operands(n) = {"rd", "rs1", "imm"} BY <1>8, OperandsExact, Zenon
    <2>2. /\ "rd" \in Operands(n)
          /\ "rs1" \in Operands(n)
          /\ "rs2" \notin Operands(n)
          /\ "imm" \in Operands(n)
      BY <2>1, SMT
    <2>3. Immediate(w) = DecodeI(w) BY <1>8, FormatsApart, Zenon
    <2>4. ImmShown(i) = DecodeI(w) % 64
      <3>1. n \notin HalfShiftOps BY <1>8, NamesApart, Zenon
      <3> QED BY <1>0, <1>8, <2>3, <3>1, Zenon DEF ImmShown
    <2> QED BY <1>0, <2>2, <2>4, Zenon
  <1>9. ASSUME n \in HalfShiftOps /\ Format(w.op) = "I"
        PROVE  Shown(i) = Architecture!Inst(n, w.rd, w.rs1, 0, DecodeI(w) % 32, length)
    <2>1. Operands(n) = {"rd", "rs1", "imm"} BY <1>9, OperandsExact, Zenon
    <2>2. /\ "rd" \in Operands(n)
          /\ "rs1" \in Operands(n)
          /\ "rs2" \notin Operands(n)
          /\ "imm" \in Operands(n)
      BY <2>1, SMT
    <2>3. Immediate(w) = DecodeI(w) BY <1>9, FormatsApart, Zenon
    <2>4. ImmShown(i) = DecodeI(w) % 32
      <3>1. n \notin ShiftOps BY <1>9, NamesApart, Zenon
      <3> QED BY <1>0, <1>9, <2>3, <3>1, Zenon DEF ImmShown
    <2> QED BY <1>0, <2>2, <2>4, Zenon
  <1>10. ASSUME n = "system" /\ Format(w.op) = "I"
        PROVE  Shown(i) = Architecture!Inst(n, 0, 0, 0, DecodeI(w), length)
    <2>1. Operands(n) = {"imm"} BY <1>10, OperandsExact, Zenon
    <2>2. /\ "rd" \notin Operands(n)
          /\ "rs1" \notin Operands(n)
          /\ "rs2" \notin Operands(n)
          /\ "imm" \in Operands(n)
      BY <2>1, SMT
    <2>3. Immediate(w) = DecodeI(w) BY <1>10, FormatsApart, Zenon
    <2>4. ImmShown(i) = DecodeI(w)
      <3>1. n \notin ShiftOps /\ n \notin HalfShiftOps
        BY <1>10, NamesApart, SMT DEF ShiftOps, HalfShiftOps, PlainImm
      <3> QED BY <1>0, <2>3, <3>1, Zenon DEF ImmShown
    <2> QED BY <1>0, <2>2, <2>4, Zenon
  <1>11. ASSUME n \in PlainImm /\ Format(w.op) = "I"
        PROVE  Shown(i) = Architecture!Inst(n, w.rd, w.rs1, 0, DecodeI(w), length)
    <2>1. Operands(n) = {"rd", "rs1", "imm"} BY <1>11, OperandsExact, Zenon
    <2>2. /\ "rd" \in Operands(n)
          /\ "rs1" \in Operands(n)
          /\ "rs2" \notin Operands(n)
          /\ "imm" \in Operands(n)
      BY <2>1, SMT
    <2>3. Immediate(w) = DecodeI(w) BY <1>11, FormatsApart, Zenon
    <2>4. ImmShown(i) = DecodeI(w)
      <3>1. n \notin ShiftOps /\ n \notin HalfShiftOps
        BY <1>11, NamesApart, SMT DEF ShiftOps, HalfShiftOps, PlainImm
      <3> QED BY <1>0, <2>3, <3>1, Zenon DEF ImmShown
    <2> QED BY <1>0, <2>2, <2>4, Zenon
  <1> QED
      BY <1>1, <1>2, <1>3, <1>4, <1>5, <1>6, <1>7, <1>8, <1>9, <1>10, <1>11, Zenon
        DEF i, ShownInGroup

\* Each name is in a group, and its opcode has the format of the group.
InGroup(op, n) ==
    \/ n \in {"illegal", "fence"}
    \/ n \in Architecture!RegReg
    \/ n \in Architecture!Moves
    \/ n \in {"store", "fsd"} /\ Format(op) = "S"
    \/ n \in Architecture!Branches /\ Format(op) = "B"
    \/ n \in {"lui", "auipc"} /\ Format(op) = "U"
    \/ n = "jal" /\ Format(op) = "J"
    \/ n \in ShiftOps /\ Format(op) = "I"
    \/ n \in HalfShiftOps /\ Format(op) = "I"
    \/ n = "system" /\ Format(op) = "I"
    \/ n \in PlainImm /\ Format(op) = "I"

LEMMA NamesGrouped ==
  \A op \in 0 .. 127, f3 \in 0 .. 7,
  f7 \in 0 .. 127 : InGroup(op, Architecture!Name(op, f3, f7))
  <1>1. SUFFICES ASSUME NEW op \in 0 .. 127, NEW f3 \in 0 .. 7, NEW f7 \in 0 .. 127
                 PROVE  InGroup(op, Architecture!Name(op, f3, f7))
    OBVIOUS
  <1>2. PICK n : n = Architecture!Name(op, f3, f7) OBVIOUS
  <1>3. InGroup(op, n) BY <1>2, NamesAre, Zenon DEF InGroup
  <1> QED BY <1>2, <1>3, Zenon

\* A word that is not reserved is decoded as the manual does.
LEMMA WordDecodes ==
  ASSUME NEW a \in Nat, NEW b \in Nat, NEW w, w = Fields(a, b),
         ~ReservedShift(w.op, w.f3, w.f7)
  PROVE  Shown(Operation(w, 4)) = Architecture!MeaningW(<<a, b>>)
  <1> DEFINE bit == WordBit(a, b)
  <1>1. /\ w.op \in 0 .. 127 /\ w.rd \in 0 .. 31 /\ w.f3 \in 0 .. 7 /\ w.rs1 \in 0 .. 31
        /\ w.rs2 \in 0 .. 31 /\ w.f7 \in 0 .. 127
    BY FieldsRanges, Zenon
  <1>2. PICK n : n = Handler(w) OBVIOUS
  <1>3. n = Architecture!Name(w.op, w.f3, w.f7) BY <1>1, <1>2, HandlerNamed, Zenon
  <1>4. FieldsIn(bit, w) BY FieldsOfWord, Zenon
  <1>5. Architecture!MeaningW(<<a, b>>) = Architecture!WithOperands(n, bit)
    BY <1>3, <1>4, WordBitsAre, Zenon DEF Architecture!MeaningW, FieldsIn
  <1>6. /\ Architecture!Rd(bit) = w.rd /\ Architecture!Rs1(bit) = w.rs1
           /\ Architecture!Rs2(bit) = w.rs2
        /\ Architecture!Shift(bit) = DecodeI(w) % 64
    BY <1>4, Zenon
      DEF Architecture!Rd, Architecture!Rs1, Architecture!Rs2, Architecture!Shift, FieldsIn
  <1>7. /\ Architecture!ImmI(bit) = DecodeI(w) /\ Architecture!ImmS(bit) = DecodeS(w)
        /\ Architecture!ImmB(bit) = DecodeB(w) /\ Architecture!ImmU(bit) = DecodeU(w)
        /\ Architecture!ImmJ(bit) = DecodeJ(w)
    BY ImmediatesOfWord, Zenon DEF ImmediatesIn
  <1>8. DecodeI(w) % 32 = w.rs2 BY <1>1, HalfAmount, Zenon
  <1>20. ShownInGroup(w, n, 4) BY <1>2, ShownByGroup, Zenon
  <1> HIDE DEF bit
  <1>9. CASE n \in {"illegal", "fence"}
    <2>1. Shown(Operation(w, 4)) = Architecture!Inst(n, 0, 0, 0, 0, 4)
        BY <1>20, <1>9, Zenon DEF ShownInGroup
    <2> QED BY <1>5, <1>6, <1>7, <1>8, <1>9, <2>1, WithOperandsIs, Zenon
  <1>10. CASE n \in Architecture!RegReg
    <2>1. Shown(Operation(w, 4)) = Architecture!Inst(n, w.rd, w.rs1, w.rs2, 0, 4)
        BY <1>20, <1>10, Zenon DEF ShownInGroup
    <2> QED BY <1>5, <1>6, <1>7, <1>8, <1>10, <2>1, WithOperandsIs, Zenon
  <1>11. CASE n \in Architecture!Moves
    <2>1. Shown(Operation(w, 4)) = Architecture!Inst(n, w.rd, w.rs1, 0, 0, 4)
        BY <1>20, <1>11, Zenon DEF ShownInGroup
    <2> QED BY <1>5, <1>6, <1>7, <1>8, <1>11, <2>1, WithOperandsIs, Zenon
  <1>12. CASE n \in {"store", "fsd"} /\ Format(w.op) = "S"
    <2>1. Shown(Operation(w, 4)) = Architecture!Inst(n, 0, w.rs1, w.rs2, DecodeS(w), 4)
        BY <1>20, <1>12, Zenon DEF ShownInGroup
    <2> QED BY <1>5, <1>6, <1>7, <1>8, <1>12, <2>1, WithOperandsIs, Zenon
  <1>13. CASE n \in Architecture!Branches /\ Format(w.op) = "B"
    <2>1. Shown(Operation(w, 4)) = Architecture!Inst(n, 0, w.rs1, w.rs2, DecodeB(w), 4)
        BY <1>20, <1>13, Zenon DEF ShownInGroup
    <2> QED BY <1>5, <1>6, <1>7, <1>8, <1>13, <2>1, WithOperandsIs, Zenon
  <1>14. CASE n \in {"lui", "auipc"} /\ Format(w.op) = "U"
    <2>1. Shown(Operation(w, 4)) = Architecture!Inst(n, w.rd, 0, 0, DecodeU(w), 4)
        BY <1>20, <1>14, Zenon DEF ShownInGroup
    <2> QED BY <1>5, <1>6, <1>7, <1>8, <1>14, <2>1, WithOperandsIs, Zenon
  <1>15. CASE n = "jal" /\ Format(w.op) = "J"
    <2>1. Shown(Operation(w, 4)) = Architecture!Inst(n, w.rd, 0, 0, DecodeJ(w), 4)
        BY <1>20, <1>15, Zenon DEF ShownInGroup
    <2> QED BY <1>5, <1>6, <1>7, <1>8, <1>15, <2>1, WithOperandsIs, Zenon
  <1>16. CASE n \in ShiftOps /\ Format(w.op) = "I"
    <2>1. Shown(Operation(w, 4)) = Architecture!Inst(n, w.rd, w.rs1, 0, DecodeI(w) % 64, 4)
        BY <1>20, <1>16, Zenon DEF ShownInGroup
    <2> QED BY <1>5, <1>6, <1>7, <1>8, <1>16, <2>1, WithOperandsIs, Zenon
  <1>17. CASE n \in HalfShiftOps /\ Format(w.op) = "I"
    <2>1. Shown(Operation(w, 4)) = Architecture!Inst(n, w.rd, w.rs1, 0, DecodeI(w) % 32, 4)
        BY <1>20, <1>17, Zenon DEF ShownInGroup
    <2> QED BY <1>5, <1>6, <1>7, <1>8, <1>17, <2>1, WithOperandsIs, Zenon
  <1>18. CASE n = "system" /\ Format(w.op) = "I"
    <2>1. Shown(Operation(w, 4)) = Architecture!Inst(n, 0, 0, 0, DecodeI(w), 4)
        BY <1>20, <1>18, Zenon DEF ShownInGroup
    <2> QED BY <1>5, <1>6, <1>7, <1>8, <1>18, <2>1, WithOperandsIs, Zenon
  <1>19. CASE n \in PlainImm /\ Format(w.op) = "I"
    <2>1. Shown(Operation(w, 4)) = Architecture!Inst(n, w.rd, w.rs1, 0, DecodeI(w), 4)
        BY <1>20, <1>19, Zenon DEF ShownInGroup
    <2> QED BY <1>5, <1>6, <1>7, <1>8, <1>19, <2>1, WithOperandsIs, Zenon
  <1>21. \/ n \in {"illegal", "fence"}
         \/ n \in Architecture!RegReg
         \/ n \in Architecture!Moves
         \/ n \in {"store", "fsd"} /\ Format(w.op) = "S"
         \/ n \in Architecture!Branches /\ Format(w.op) = "B"
         \/ n \in {"lui", "auipc"} /\ Format(w.op) = "U"
         \/ n = "jal" /\ Format(w.op) = "J"
         \/ n \in ShiftOps /\ Format(w.op) = "I"
         \/ n \in HalfShiftOps /\ Format(w.op) = "I"
         \/ n = "system" /\ Format(w.op) = "I"
         \/ n \in PlainImm /\ Format(w.op) = "I"
    BY <1>1, <1>3, NamesGrouped, Zenon DEF InGroup
  <1> QED
      BY <1>9, <1>10, <1>11, <1>12, <1>13, <1>14, <1>15, <1>16, <1>17, <1>18, <1>19, <1>21,
         Zenon

-----------------------------------------------------------------------------
(* Words that are built and decoded again.                                 *)

\* A word of an instruction n with a form that is not reserved.
Describes(w, op, f3, f7, n) ==
    /\ w.op = op /\ w.f3 = f3 /\ w.f7 = f7
    /\ op \in 0 .. 127 /\ f3 \in 0 .. 7 /\ f7 \in 0 .. 127
    /\ (op # 27 \/ f3 = 0)
    /\ Architecture!Name(op, f3, f7) = n

\* The handler of a word is the one the manual names, and is shown what it is.
LEMMA NamedShown ==
  \A w, op, f3, f7, n : Describes(w, op, f3, f7, n) => ShownInGroup(w, n, 2)
  <1>1. SUFFICES ASSUME NEW w, NEW op, NEW f3, NEW f7, NEW n, Describes(w, op, f3, f7, n)
                 PROVE  ShownInGroup(w, n, 2)
    BY Zenon
  <1>2. /\ w.op = op /\ w.f3 = f3 /\ w.f7 = f7
        /\ op \in 0 .. 127 /\ f3 \in 0 .. 7 /\ f7 \in 0 .. 127
        /\ (op # 27 \/ f3 = 0) /\ Architecture!Name(op, f3, f7) = n
    BY <1>1, Zenon DEF Describes
  <1>3. ~ReservedShift(op, f3, f7) BY <1>2, SMT DEF ReservedShift
  <1>4. n = Handler(w) BY <1>2, <1>3, HandlerNamed, Zenon
  <1> QED BY <1>4, ShownByGroup, Zenon

\* A word that MakeX builds, when the decoder takes it apart.
LEMMA MadeI ==
  ASSUME NEW imm \in Int, -2048 <= imm, imm <= 2047, NEW rs1, NEW f3, NEW rd, NEW op, NEW w,
         w = MakeI(imm, rs1, f3, rd, op)
  PROVE  /\ w.op = op /\ w.f3 = f3 /\ w.rd = rd /\ w.rs1 = rs1 /\ w.f7 \in 0 .. 127
         /\ DecodeI(w) = imm
         /\ w.f7 = (imm \div 32) % 128
  <1>1. /\ w.op = op /\ w.f3 = f3 /\ w.rd = rd /\ w.rs1 = rs1 /\ w.rs2 = imm % 32
        /\ w.f7 = (imm \div 32) % 128
    BY DEF MakeI
  <1>2. PICK q \in Int, r \in 0 .. 31 : q = imm \div 32 /\ r = imm % 32
        /\ imm = 32 * q + r OBVIOUS
  <1>3. -64 <= q /\ q <= 63 BY <1>2
  <1>4. PICK u \in 0 .. 127 : u = q % 128 OBVIOUS
  <1>5. u = q \/ u = q + 128 BY <1>3, <1>4
  <1>6. q >= 0 => u = q BY <1>3, <1>4
  <1>7. q < 0 => u = q + 128 BY <1>3, <1>4
  <1>8. DecodeI(w) = SignExtend(u * 32 + r, 12) BY <1>1, <1>2, <1>4 DEF DecodeI
  <1>9. DecodeI(w) = IF u * 32 + r < 2048 THEN u * 32 + r ELSE u * 32 + r - 4096
    BY <1>8, SignExtends, SMT
  <1>10. DecodeI(w) = imm BY <1>2, <1>3, <1>6, <1>7, <1>9, SMT
  <1>11. w.f7 \in 0 .. 127 BY <1>1, <1>2, <1>4
  <1> QED BY <1>1, <1>10, <1>11

LEMMA MadeS ==
  ASSUME NEW imm \in Nat, imm <= 2047, NEW rs1, NEW f3, NEW rs2, NEW op, NEW w,
         w = MakeS(imm, rs2, rs1, f3, op)
  PROVE  /\ w.op = op /\ w.f3 = f3 /\ w.rs2 = rs2 /\ w.rs1 = rs1 /\ w.f7 \in 0 .. 127
         /\ DecodeS(w) = imm
  <1>1. /\ w.op = op /\ w.f3 = f3 /\ w.rs2 = rs2 /\ w.rs1 = rs1 /\ w.rd = imm % 32
        /\ w.f7 = (imm \div 32) % 128
    BY DEF MakeS
  <1>2. PICK q \in Int, r \in 0 .. 31 : q = imm \div 32 /\ r = imm % 32
        /\ imm = 32 * q + r OBVIOUS
  <1>3. 0 <= q /\ q <= 63 BY <1>2
  <1>4. q % 128 = q BY <1>3
  <1>5. w.f7 = q /\ w.rd = r BY <1>1, <1>2, <1>4
  <1>8. DecodeS(w) = SignExtend(q * 32 + r, 12) BY <1>5 DEF DecodeS
  <1>9. DecodeS(w) = IF q * 32 + r < 2048 THEN q * 32 + r ELSE q * 32 + r - 4096
    BY <1>8, SignExtends, SMT
  <1>10. DecodeS(w) = imm BY <1>2, <1>3, <1>9, SMT
  <1>11. w.f7 \in 0 .. 127 BY <1>3, <1>5
  <1> QED BY <1>1, <1>10, <1>11

LEMMA MadeU ==
  ASSUME NEW k \in Int, -32 <= k, k <= 31, NEW rd, NEW imm, imm = 4096 * k, NEW w,
        w = MakeU(imm, rd)
  PROVE  /\ w.op = 55 /\ w.rd = rd /\ w.f3 \in 0 .. 7 /\ w.f7 \in 0 .. 127
         /\ DecodeU(w) = imm
  <1>1. /\ w.op = 55 /\ w.rd = rd /\ w.f3 = Cut(imm, 12, 3) /\ w.rs1 = Cut(imm, 15, 5)
        /\ w.rs2 = Cut(imm, 20, 5) /\ w.f7 = Cut(imm, 25, 7)
    BY DEF MakeU
  <1>2. /\ Pow2[12] = 4096 /\ Pow2[15] = 32768 /\ Pow2[20] = 1048576 /\ Pow2[25] = 33554432
        /\ Pow2[3] = 8 /\ Pow2[5] = 32 /\ Pow2[7] = 128
    <2>1. /\ Pow2[21 + 1] = 2 * Pow2[21] /\ Pow2[22 + 1] = 2 * Pow2[22]
          /\ Pow2[23 + 1] = 2 * Pow2[23] /\ Pow2[24 + 1] = 2 * Pow2[24]
      BY Pow2Step, Zenon
    <2> QED BY <2>1, SmallPowers, LargePowers, SMT
  <1>3. /\ w.f3 = (imm \div 4096) % 8 /\ w.rs1 = (imm \div 32768) % 32
        /\ w.rs2 = (imm \div 1048576) % 32 /\ w.f7 = (imm \div 33554432) % 128
    BY <1>1, <1>2, SMT DEF Cut
  <1>4. PICK q \in Int, r \in 0 .. 7 : q = k \div 8 /\ r = k % 8 /\ k = 8 * q + r OBVIOUS
  <1>5. imm \div 4096 = k /\ imm \div 32768 = q BY <1>4, SMT
  <1>6. CASE k >= 0
    <2>1. q % 32 = q /\ q \in 0 .. 31 BY <1>4, <1>6, SMT
    <2>2. imm \div 1048576 = 0 /\ imm \div 33554432 = 0 BY <1>6, SMT
    <2>3. w.f3 = r /\ w.rs1 = q /\ w.rs2 = 0 /\ w.f7 = 0 BY <1>3, <1>4, <1>5, <2>1, <2>2, SMT
    <2>4. DecodeU(w) = SignExtend(8 * q + r, 20) * 4096 BY <1>4, <2>1, <2>3, SMT DEF DecodeU
    <2>5. SignExtend(k, 20) = k BY SignExtends, SMT
    <2> QED BY <1>1, <1>4, <2>3, <2>4, <2>5, SMT
  <1>7. CASE k < 0
    <2>1. q % 32 = q + 32 /\ q \in -4 .. -1 BY <1>4, <1>7, SMT
    <2>2. imm \div 1048576 = -1 /\ imm \div 33554432 = -1 BY <1>7, SMT
    <2>3. (-1) % 32 = 31 /\ (-1) % 128 = 127
      <3>1. PICK s \in 0 .. 1 : s = 1 OBVIOUS
      <3>2. (-s) % 32 = 31 * s /\ (-s) % 128 = 127 * s BY SMT
      <3> QED BY <3>1, <3>2, SMT
    <2>4. w.f3 = r /\ w.rs1 = q + 32 /\ w.rs2 = 31 /\ w.f7 = 127
      BY <1>3, <1>4, <1>5, <2>1, <2>2, <2>3, SMT
    <2>5. DecodeU(w) = SignExtend(1048576 + k, 20) * 4096 BY <1>4, <2>1, <2>4, SMT DEF DecodeU
    <2>6. SignExtend(1048576 + k, 20) = k BY <1>7, SignExtends, SMT
    <2> QED BY <1>1, <1>4, <2>4, <2>5, <2>6, SMT
  <1> QED BY <1>6, <1>7

\* The parts of the offset of a short jump or branch.
Parts(imm, s, h, m) ==
    /\ Cut(imm, 1, 4) = m /\ Cut(imm, 5, 6) = h /\ Cut(imm, 11, 1) = s
    /\ Cut(imm, 12, 1) = s /\ Cut(imm, 12, 3) = 7 * s /\ Cut(imm, 15, 5) = 31 * s
    /\ Cut(imm, 20, 1) = s /\ imm = 32 * h + 2 * m - 2048 * s

\* The parts of the immediates of branches and jumps, put together again.
LEMMA Offsets ==
  ASSUME NEW k \in Int, -1024 <= k, k <= 1023, NEW imm, imm = 2 * k
  PROVE  \E s \in 0 .. 1, h \in 0 .. 63, m \in 0 .. 15 : Parts(imm, s, h, m)
  <1>1. /\ Pow2[1] = 2 /\ Pow2[4] = 16 /\ Pow2[5] = 32 /\ Pow2[6] = 64 /\ Pow2[11] = 2048
        /\ Pow2[12] = 4096 /\ Pow2[3] = 8 /\ Pow2[15] = 32768 /\ Pow2[20] = 1048576
    BY SmallPowers, LargePowers, SMT
  <1>2. PICK q \in Int, m \in 0 .. 15 : q = k \div 16 /\ m = k % 16 /\ k = 16 * q + m OBVIOUS
  <1>3. imm \in Int /\ imm \div 2 = k /\ imm \div 32 = q BY <1>2, SMT
  <1>4. PICK s \in 0 .. 1 : IF k < 0 THEN s = 1 ELSE s = 0 OBVIOUS
  <1>5. PICK h \in 0 .. 63 : h = q % 64 OBVIOUS
  <1>6. h = q + 64 * s BY <1>2, <1>4, <1>5, SMT
  <1>7. imm \div 2048 = -s /\ imm \div 4096 = -s /\ imm \div 32768 = -s /\ imm \div 1048576 = -s
    BY <1>4, SMT
  <1>8. (-s) % 2 = s /\ (-s) % 8 = 7 * s /\ (-s) % 32 = 31 * s BY SMT
  <1>9. /\ Cut(imm, 1, 4) = m /\ Cut(imm, 5, 6) = h /\ Cut(imm, 11, 1) = s
        /\ Cut(imm, 12, 1) = s /\ Cut(imm, 12, 3) = 7 * s /\ Cut(imm, 15, 5) = 31 * s
        /\ Cut(imm, 20, 1) = s
    BY <1>1, <1>2, <1>3, <1>5, <1>7, <1>8, SMT DEF Cut
  <1>10. imm = 32 * h + 2 * m - 2048 * s BY <1>2, <1>6, SMT
  <1>11. Parts(imm, s, h, m) BY <1>9, <1>10, SMT DEF Parts
  <1> QED BY <1>11

LEMMA MadeJ ==
  ASSUME NEW k \in Int, -1024 <= k, k <= 1023, NEW imm, imm = 2 * k, NEW w, w = MakeJ(imm)
  PROVE  /\ w.op = 111 /\ w.rd = 0 /\ w.f3 \in 0 .. 7 /\ w.f7 \in 0 .. 127
         /\ DecodeJ(w) = imm
  <1>1. PICK s \in 0 .. 1, h \in 0 .. 63, m \in 0 .. 15 : Parts(imm, s, h, m) BY Offsets
  <1>2. /\ w.op = 111 /\ w.rd = 0 /\ w.f3 = Cut(imm, 12, 3) /\ w.rs1 = Cut(imm, 15, 5)
        /\ w.rs2 = Put(imm, 1, 4, 1) + Cut(imm, 11, 1)
        /\ w.f7 = Put(imm, 20, 1, 6) + Cut(imm, 5, 6)
    BY DEF MakeJ
  <1>3. Put(imm, 1, 4, 1) = Cut(imm, 1, 4) * 2 /\ Put(imm, 20, 1, 6) = Cut(imm, 20, 1) * 64
    BY Puts, SMT
  <1>4. /\ Cut(imm, 1, 4) = m /\ Cut(imm, 5, 6) = h /\ Cut(imm, 11, 1) = s
        /\ Cut(imm, 12, 3) = 7 * s /\ Cut(imm, 15, 5) = 31 * s /\ Cut(imm, 20, 1) = s
        /\ imm = 32 * h + 2 * m - 2048 * s
    BY <1>1, SMT DEF Parts
  <1>5. w.f3 = 7 * s /\ w.rs1 = 31 * s /\ w.rs2 = 2 * m + s /\ w.f7 = 64 * s + h
    BY <1>2, <1>3, <1>4, SMT
  <1>6. PICK u \in 0 .. 31, v \in 0 .. 127 : u = 2 * m + s /\ v = 64 * s + h OBVIOUS
  <1>7. u % 2 = s /\ u \div 2 = m /\ v % 64 = h /\ v \div 64 = s BY <1>6, SMT
  <1>8. Cut(u, 0, 1) = s /\ Cut(u, 1, 4) = m /\ Cut(v, 0, 6) = h /\ Cut(v, 6, 1) = s
    BY <1>6, <1>7, CutFields, Zenon
  <1>9. Cut(w.rs2, 0, 1) = s /\ Cut(w.rs2, 1, 4) = m /\ Cut(w.f7, 0, 6) = h
        /\ Cut(w.f7, 6, 1) = s
    <2>1. w.rs2 = u /\ w.f7 = v BY <1>5, <1>6, Zenon
    <2> QED BY <1>8, <2>1, Zenon
  <1>10. PICK t \in Int : t = s * 1048576 + ((31 * s) * 8 + 7 * s) * 4096 + s * 2048 + h * 32
        + m * 2
    BY SMT
  <1>11. DecodeJ(w) = SignExtend(t, 21) BY <1>5, <1>9, <1>10, SMT DEF DecodeJ
  <1>12. SignExtend(t, 21) = IF t < 1048576 THEN t ELSE t - 2097152 BY SignExtends, SMT
  <1>13. SignExtend(t, 21) = imm BY <1>4, <1>10, <1>12, SMT
  <1>14. DecodeJ(w) = imm BY <1>11, <1>13, Zenon
  <1>15. w.f3 \in 0 .. 7 /\ w.f7 \in 0 .. 127 BY <1>5, SMT
  <1> QED BY <1>2, <1>14, <1>15

LEMMA MadeB ==
  ASSUME NEW k \in Int, -1024 <= k, k <= 1023, NEW imm, imm = 2 * k, NEW rs1, NEW f3, NEW w,
         w = MakeB(imm, rs1, f3)
  PROVE  /\ w.op = 99 /\ w.rs1 = rs1 /\ w.f3 = f3 /\ w.rs2 = 0 /\ w.f7 \in 0 .. 127
         /\ DecodeB(w) = imm
  <1>1. PICK s \in 0 .. 1, h \in 0 .. 63, m \in 0 .. 15 : Parts(imm, s, h, m) BY Offsets
  <1>2. /\ w.op = 99 /\ w.rs1 = rs1 /\ w.f3 = f3 /\ w.rs2 = 0
        /\ w.rd = Put(imm, 1, 4, 1) + Cut(imm, 11, 1)
        /\ w.f7 = Put(imm, 12, 1, 6) + Cut(imm, 5, 6)
    BY DEF MakeB
  <1>3. Put(imm, 1, 4, 1) = Cut(imm, 1, 4) * 2 /\ Put(imm, 12, 1, 6) = Cut(imm, 12, 1) * 64
    BY Puts, SMT
  <1>4. /\ Cut(imm, 1, 4) = m /\ Cut(imm, 5, 6) = h /\ Cut(imm, 11, 1) = s
        /\ Cut(imm, 12, 1) = s /\ imm = 32 * h + 2 * m - 2048 * s
    BY <1>1, SMT DEF Parts
  <1>5. w.rd = 2 * m + s /\ w.f7 = 64 * s + h BY <1>2, <1>3, <1>4, SMT
  <1>6. PICK u \in 0 .. 31, v \in 0 .. 127 : u = 2 * m + s /\ v = 64 * s + h OBVIOUS
  <1>7. u % 2 = s /\ u \div 2 = m /\ v % 64 = h /\ v \div 64 = s BY <1>6, SMT
  <1>8. Cut(u, 0, 1) = s /\ Cut(u, 1, 4) = m /\ Cut(v, 0, 6) = h /\ Cut(v, 6, 1) = s
    BY <1>6, <1>7, CutFields, Zenon
  <1>9. Cut(w.rd, 0, 1) = s /\ Cut(w.rd, 1, 4) = m /\ Cut(w.f7, 0, 6) = h /\ Cut(w.f7, 6, 1) = s
    <2>1. w.rd = u /\ w.f7 = v BY <1>5, <1>6, Zenon
    <2> QED BY <1>8, <2>1, Zenon
  <1>10. PICK t \in Int : t = s * 4096 + s * 2048 + h * 32 + m * 2 BY SMT
  <1>11. DecodeB(w) = SignExtend(t, 13) BY <1>9, <1>10, SMT DEF DecodeB
  <1>12. SignExtend(t, 13) = IF t < 4096 THEN t ELSE t - 8192 BY SignExtends, SMT
  <1>13. SignExtend(t, 13) = imm BY <1>4, <1>10, <1>12, SMT
  <1>14. DecodeB(w) = imm BY <1>11, <1>13, Zenon
  <1>15. w.f7 \in 0 .. 127 BY <1>5, SMT
  <1> QED BY <1>2, <1>14, <1>15

\* The immediates of the expanded instructions.
Imm12 == {i \in Int : -2048 <= i /\ i <= 2047}
Offset11 == {i \in Nat : i <= 2047}
UpperOf(k) == 4096 * k
Uppers == {i \in Int : \E k \in -32 .. 31 : i = UpperOf(k)}
Evenly == {i \in Int : \E k \in Int : -1024 <= k /\ k <= 1023 /\ i = 2 * k}

\* The decoder finds the immediate that the word was built with.
LEMMA Imm12I ==
  ASSUME NEW imm \in Imm12, NEW rs1, NEW f3, NEW rd, NEW op, NEW w,
        w = MakeI(imm, rs1, f3, rd, op)
  PROVE  /\ w.op = op /\ w.f3 = f3 /\ w.rd = rd /\ w.rs1 = rs1 /\ w.f7 \in 0 .. 127
         /\ DecodeI(w) = imm
         /\ w.f7 = (imm \div 32) % 128
  <1>1. imm \in Int /\ -2048 <= imm /\ imm <= 2047 BY SMT DEF Imm12
  <1> QED BY <1>1, MadeI, SMT

LEMMA Offset11S ==
  ASSUME NEW imm \in Offset11, NEW rs1, NEW f3, NEW rs2, NEW op, NEW w,
        w = MakeS(imm, rs2, rs1, f3, op)
  PROVE  /\ w.op = op /\ w.f3 = f3 /\ w.rs2 = rs2 /\ w.rs1 = rs1 /\ w.f7 \in 0 .. 127
         /\ DecodeS(w) = imm
  <1>1. imm \in Nat /\ imm <= 2047 BY SMT DEF Offset11
  <1> QED BY <1>1, MadeS, SMT

LEMMA UppersU ==
  ASSUME NEW imm \in Uppers, NEW rd, NEW w, w = MakeU(imm, rd)
  PROVE  w.op = 55 /\ w.rd = rd /\ w.f3 \in 0 .. 7 /\ w.f7 \in 0 .. 127 /\ DecodeU(w) = imm
  <1>0. imm \in Int /\ \E k \in -32 .. 31 : imm = UpperOf(k) BY Zenon DEF Uppers
  <1>1. PICK k \in -32 .. 31 : imm = UpperOf(k) BY <1>0, Zenon
  <1>2. k \in Int /\ -32 <= k /\ k <= 31 OBVIOUS
  <1> QED BY <1>1, <1>2, MadeU, SMT DEF UpperOf

LEMMA EvenlyJ ==
  ASSUME NEW imm \in Evenly, NEW w, w = MakeJ(imm)
  PROVE  w.op = 111 /\ w.rd = 0 /\ w.f3 \in 0 .. 7 /\ w.f7 \in 0 .. 127 /\ DecodeJ(w) = imm
  <1>1. PICK k \in Int : -1024 <= k /\ k <= 1023 /\ imm = 2 * k BY SMT DEF Evenly
  <1> QED BY <1>1, MadeJ, SMT

LEMMA EvenlyB ==
  ASSUME NEW imm \in Evenly, NEW rs1, NEW f3, NEW w, w = MakeB(imm, rs1, f3)
  PROVE  /\ w.op = 99 /\ w.rs1 = rs1 /\ w.f3 = f3 /\ w.rs2 = 0 /\ w.f7 \in 0 .. 127
         /\ DecodeB(w) = imm
  <1>1. PICK k \in Int : -1024 <= k /\ k <= 1023 /\ imm = 2 * k BY SMT DEF Evenly
  <1> QED BY <1>1, MadeB, SMT

\* Instructions with an immediate that are no shifts.
PlainRow(n, op, f3) ==
    \/ n = "addi" /\ op = 19 /\ f3 = 0
    \/ n = "andi" /\ op = 19 /\ f3 = 7
    \/ n = "addiw" /\ op = 27 /\ f3 = 0
    \/ n = "load" /\ op = 3 /\ f3 = 2
    \/ n = "load" /\ op = 3 /\ f3 = 3
    \/ n = "fld" /\ op = 7 /\ f3 = 3
    \/ n = "jalr" /\ op = 103 /\ f3 = 0

LEMMA PlainNames ==
  ASSUME NEW n, NEW op, NEW f3, NEW f7 \in 0 .. 127, PlainRow(n, op, f3)
  PROVE  /\ Architecture!Name(op, f3, f7) = n /\ n \in PlainImm /\ Format(op) = "I"
         /\ op \in 0 .. 127 /\ f3 \in 0 .. 7 /\ (op # 27 \/ f3 = 0)
  <1>1. CASE n = "addi" /\ op = 19 /\ f3 = 0
    BY <1>1, SMT DEF Architecture!Name, PlainImm, Format
  <1>2. CASE n = "andi" /\ op = 19 /\ f3 = 7
    BY <1>2, SMT DEF Architecture!Name, PlainImm, Format
  <1>3. CASE n = "addiw" /\ op = 27 /\ f3 = 0
    BY <1>3, SMT DEF Architecture!Name, PlainImm, Format
  <1>4. CASE n = "load" /\ op = 3 /\ f3 = 2
    BY <1>4, SMT DEF Architecture!Name, PlainImm, Format
  <1>5. CASE n = "load" /\ op = 3 /\ f3 = 3
    BY <1>5, SMT DEF Architecture!Name, PlainImm, Format
  <1>6. CASE n = "fld" /\ op = 7 /\ f3 = 3
    BY <1>6, SMT DEF Architecture!Name, PlainImm, Format
  <1>7. CASE n = "jalr" /\ op = 103 /\ f3 = 0
    BY <1>7, SMT DEF Architecture!Name, PlainImm, Format
  <1> QED BY <1>1, <1>2, <1>3, <1>4, <1>5, <1>6, <1>7, Zenon DEF PlainRow

\* What is shown of the words that the expander builds.
LEMMA PlainShown ==
  ASSUME NEW imm \in Imm12, NEW rs1, NEW rd, NEW n, NEW op, NEW f3,
         PlainRow(n, op, f3)
  PROVE  Shown(Operation(MakeI(imm, rs1, f3, rd, op), 2)) = Architecture!OfI(n, rd, rs1, imm)
  <1>1. PICK w : w = MakeI(imm, rs1, f3, rd, op) OBVIOUS
  <1>2. /\ w.op = op /\ w.f3 = f3 /\ w.rd = rd /\ w.rs1 = rs1 /\ w.f7 \in 0 .. 127
        /\ DecodeI(w) = imm
    BY <1>1, Imm12I
  <1>3. PICK f7 \in 0 .. 127 : w.f7 = f7 BY <1>2
  <1>4. /\ Architecture!Name(op, f3, f7) = n /\ n \in PlainImm /\ Format(op) = "I"
        /\ op \in 0 .. 127 /\ f3 \in 0 .. 7 /\ (op # 27 \/ f3 = 0)
    BY PlainNames
  <1>20. Describes(w, op, f3, f7, n) BY <1>2, <1>3, <1>4 DEF Describes
  <1>5. ShownInGroup(w, n, 2) BY <1>20, NamedShown, Zenon
  <1>21. Format(w.op) = "I" BY <1>2, <1>3, <1>4
  <1>6. Shown(Operation(w, 2)) = Architecture!Inst(n, w.rd, w.rs1, 0, DecodeI(w), 2)
    BY <1>2, <1>4, <1>5, <1>21, Zenon DEF ShownInGroup
  <1>22. Shown(Operation(w, 2)) = Architecture!OfI(n, rd, rs1, imm)
    BY <1>2, <1>6, Zenon DEF Architecture!OfI
  <1> QED BY <1>1, <1>22, Zenon

LEMMA ShiftShown ==
  ASSUME NEW amount \in 0 .. 63, NEW high \in 0 .. 1, NEW r, NEW f3 \in {1, 5},
        high = 1 => f3 = 5,
         NEW n, n = IF high = 1 THEN "srai" ELSE IF f3 = 1 THEN "slli" ELSE "srli"
  PROVE  Shown(Operation(MakeI(1024 * high + amount, r, f3, r, 19), 2))
        = Architecture!OfI(n, r, r, amount)
  <1>1. PICK imm \in Int : imm = 1024 * high + amount OBVIOUS
  <1>2. PICK w : w = MakeI(imm, r, f3, r, 19) OBVIOUS
  <1>3. /\ w.op = 19 /\ w.f3 = f3 /\ w.rd = r /\ w.rs1 = r /\ w.f7 \in 0 .. 127
        /\ DecodeI(w) = imm /\ w.f7 = (imm \div 32) % 128
    <2>1. imm \in Imm12 BY <1>1, SMT DEF Imm12
    <2> QED BY <1>2, <2>1, Imm12I
  <1>4. PICK f7 \in 0 .. 127 : w.f7 = f7 BY <1>3
  <1>5. f7 \in {32 * high, 32 * high + 1}
    <2>1. PICK q \in Int : q = imm \div 32 OBVIOUS
    <2>2. q \in {32 * high, 32 * high + 1} BY <1>1, <2>1
    <2>3. q % 128 = q BY <2>2
    <2> QED BY <1>3, <1>4, <2>1, <2>2, <2>3
  <1>6. imm % 64 = amount BY <1>1
  <1>7. Architecture!Name(19, f3, f7) = n /\ n \in ShiftOps
    <2>1. CASE high = 1 /\ f3 = 5
      <3>1. f7 \in {32, 33} BY <1>5, <2>1
      <3> QED BY <2>1, <3>1, SMT DEF Architecture!Name, ShiftOps
    <2>2. CASE high = 0
      <3>1. f7 \in {0, 1} BY <1>5, <2>2
      <3> QED BY <2>2, <3>1, SMT DEF Architecture!Name, ShiftOps
    <2> QED BY <2>1, <2>2
  <1>8. Format(19) = "I" /\ 19 \in 0 .. 127 /\ f3 \in 0 .. 7 /\ 19 # 27 BY SMT DEF Format
  <1>20. Describes(w, 19, f3, f7, n) BY <1>3, <1>4, <1>7, <1>8 DEF Describes
  <1>9. ShownInGroup(w, n, 2) BY <1>20, NamedShown, Zenon
  <1>21. Format(w.op) = "I" BY <1>3, <1>4, <1>7, <1>8
  <1>10. Shown(Operation(w, 2)) = Architecture!Inst(n, w.rd, w.rs1, 0, DecodeI(w) % 64, 2)
    BY <1>3, <1>7, <1>8, <1>9, <1>21, Zenon DEF ShownInGroup
  <1>11. Shown(Operation(w, 2)) = Architecture!OfI(n, r, r, amount)
    BY <1>3, <1>6, <1>10, Zenon DEF Architecture!OfI
  <1> QED BY <1>1, <1>2, <1>11, Zenon

StoreRow(n, op, f3) ==
    \/ n = "store" /\ op = 35 /\ f3 = 2
    \/ n = "store" /\ op = 35 /\ f3 = 3
    \/ n = "fsd" /\ op = 39 /\ f3 = 3

LEMMA StoreNames ==
  ASSUME NEW n, NEW op, NEW f3, NEW f7 \in 0 .. 127, StoreRow(n, op, f3)
  PROVE  /\ Architecture!Name(op, f3, f7) = n /\ n \in {"store", "fsd"} /\ Format(op) = "S"
         /\ op \in 0 .. 127 /\ f3 \in 0 .. 7 /\ (op # 27 \/ f3 = 0)
  <1>1. CASE n = "store" /\ op = 35 /\ f3 = 2
    BY <1>1, SMT DEF Architecture!Name, Format
  <1>2. CASE n = "store" /\ op = 35 /\ f3 = 3
    BY <1>2, SMT DEF Architecture!Name, Format
  <1>3. CASE n = "fsd" /\ op = 39 /\ f3 = 3
    BY <1>3, SMT DEF Architecture!Name, Format
  <1> QED BY <1>1, <1>2, <1>3, Zenon DEF StoreRow

LEMMA StoreShown ==
  ASSUME NEW imm \in Offset11, NEW rs1, NEW rs2, NEW n, NEW op, NEW f3, StoreRow(n, op, f3)
  PROVE  Shown(Operation(MakeS(imm, rs2, rs1, f3, op), 2)) = Architecture!OfS(n, rs1, rs2, imm)
  <1>1. PICK w : w = MakeS(imm, rs2, rs1, f3, op) OBVIOUS
  <1>2. /\ w.op = op /\ w.f3 = f3 /\ w.rs2 = rs2 /\ w.rs1 = rs1 /\ w.f7 \in 0 .. 127
        /\ DecodeS(w) = imm
    BY <1>1, Offset11S
  <1>3. PICK f7 \in 0 .. 127 : w.f7 = f7 BY <1>2
  <1>4. /\ Architecture!Name(op, f3, f7) = n /\ n \in {"store", "fsd"} /\ Format(op) = "S"
        /\ op \in 0 .. 127 /\ f3 \in 0 .. 7 /\ (op # 27 \/ f3 = 0)
    BY StoreNames
  <1>20. Describes(w, op, f3, f7, n) BY <1>2, <1>3, <1>4 DEF Describes
  <1>5. ShownInGroup(w, n, 2) BY <1>20, NamedShown, Zenon
  <1>21. Format(w.op) = "S" BY <1>2, <1>3, <1>4
  <1>6. Shown(Operation(w, 2)) = Architecture!Inst(n, 0, w.rs1, w.rs2, DecodeS(w), 2)
    BY <1>2, <1>4, <1>5, <1>21, Zenon DEF ShownInGroup
  <1>22. Shown(Operation(w, 2)) = Architecture!OfS(n, rs1, rs2, imm)
    BY <1>2, <1>6, Zenon DEF Architecture!OfS
  <1> QED BY <1>1, <1>22, Zenon

RegRow(n, op, f3, f7) ==
    \/ n = "add" /\ op = 51 /\ f3 = 0 /\ f7 = 0
    \/ n = "sub" /\ op = 51 /\ f3 = 0 /\ f7 = 32
    \/ n = "xor" /\ op = 51 /\ f3 = 4 /\ f7 = 0
    \/ n = "or" /\ op = 51 /\ f3 = 6 /\ f7 = 0
    \/ n = "and" /\ op = 51 /\ f3 = 7 /\ f7 = 0
    \/ n = "addw" /\ op = 59 /\ f3 = 0 /\ f7 = 0
    \/ n = "subw" /\ op = 59 /\ f3 = 0 /\ f7 = 32

LEMMA RegNames ==
  ASSUME NEW n, NEW op, NEW f3, NEW f7, RegRow(n, op, f3, f7)
  PROVE  /\ Architecture!Name(op, f3, f7) = n /\ n \in Architecture!RegReg /\ f7 \in 0 .. 127
         /\ op \in 0 .. 127 /\ f3 \in 0 .. 7 /\ (op # 27 \/ f3 = 0)
  <1>1. CASE n = "add" /\ op = 51 /\ f3 = 0 /\ f7 = 0
    BY <1>1, SMT DEF Architecture!Name, Architecture!RegReg
  <1>2. CASE n = "sub" /\ op = 51 /\ f3 = 0 /\ f7 = 32
    BY <1>2, SMT DEF Architecture!Name, Architecture!RegReg
  <1>3. CASE n = "xor" /\ op = 51 /\ f3 = 4 /\ f7 = 0
    BY <1>3, SMT DEF Architecture!Name, Architecture!RegReg
  <1>4. CASE n = "or" /\ op = 51 /\ f3 = 6 /\ f7 = 0
    BY <1>4, SMT DEF Architecture!Name, Architecture!RegReg
  <1>5. CASE n = "and" /\ op = 51 /\ f3 = 7 /\ f7 = 0
    BY <1>5, SMT DEF Architecture!Name, Architecture!RegReg
  <1>6. CASE n = "addw" /\ op = 59 /\ f3 = 0 /\ f7 = 0
    BY <1>6, SMT DEF Architecture!Name, Architecture!RegReg
  <1>7. CASE n = "subw" /\ op = 59 /\ f3 = 0 /\ f7 = 32
    BY <1>7, SMT DEF Architecture!Name, Architecture!RegReg
  <1> QED BY <1>1, <1>2, <1>3, <1>4, <1>5, <1>6, <1>7, Zenon DEF RegRow

LEMMA RegShown ==
  ASSUME NEW rs1, NEW rs2, NEW rd, NEW n, NEW op, NEW f3, NEW f7, RegRow(n, op, f3, f7)
  PROVE  Shown(Operation(MakeR(f7, rs2, rs1, f3, rd, op), 2))
        = Architecture!OfR(n, rd, rs1, rs2)
  <1>1. PICK w : w = MakeR(f7, rs2, rs1, f3, rd, op) OBVIOUS
  <1>2. /\ w.op = op /\ w.f3 = f3 /\ w.rs2 = rs2 /\ w.rs1 = rs1 /\ w.rd = rd /\ w.f7 = f7
    BY <1>1 DEF MakeR
  <1>4. /\ Architecture!Name(op, f3, f7) = n /\ n \in Architecture!RegReg /\ f7 \in 0 .. 127
        /\ op \in 0 .. 127 /\ f3 \in 0 .. 7 /\ (op # 27 \/ f3 = 0)
    BY RegNames
  <1>20. Describes(w, op, f3, f7, n) BY <1>2, <1>4 DEF Describes
  <1>5. ShownInGroup(w, n, 2) BY <1>20, NamedShown, Zenon
  <1>6. Shown(Operation(w, 2)) = Architecture!Inst(n, w.rd, w.rs1, w.rs2, 0, 2)
    BY <1>2, <1>4, <1>5, Zenon DEF ShownInGroup
  <1>22. Shown(Operation(w, 2)) = Architecture!OfR(n, rd, rs1, rs2)
    BY <1>2, <1>6, Zenon DEF Architecture!OfR
  <1> QED BY <1>1, <1>22, Zenon

LEMMA UpperShown ==
  ASSUME NEW imm \in Uppers, NEW rd
  PROVE  Shown(Operation(MakeU(imm, rd), 2)) = Architecture!OfJ("lui", rd, imm)
  <1>1. PICK w : w = MakeU(imm, rd) OBVIOUS
  <1>2. w.op = 55 /\ w.rd = rd /\ w.f3 \in 0 .. 7 /\ w.f7 \in 0 .. 127 /\ DecodeU(w) = imm
    BY <1>1, UppersU
  <1>3. PICK f7 \in 0 .. 127, f3 \in 0 .. 7 : w.f7 = f7 /\ w.f3 = f3 BY <1>2
  <1>8. PICK n : n = "lui" OBVIOUS
  <1>4. Architecture!Name(55, f3, f7) = n /\ Format(55) = "U" /\ 55 \in 0 .. 127 /\ 55 # 27
    BY <1>8, SMT DEF Architecture!Name, Format
  <1>20. Describes(w, 55, f3, f7, n) BY <1>2, <1>3, <1>4 DEF Describes
  <1>5. ShownInGroup(w, n, 2) BY <1>20, NamedShown, Zenon
  <1>21. Format(w.op) = "U" BY <1>2, <1>3, <1>4
  <1>6. Shown(Operation(w, 2)) = Architecture!Inst(n, w.rd, 0, 0, DecodeU(w), 2)
    BY <1>2, <1>8, <1>4, <1>5, <1>21, Zenon DEF ShownInGroup
  <1>7. Shown(Operation(w, 2)) = Architecture!OfJ(n, rd, imm)
      BY <1>2, <1>6, Zenon DEF Architecture!OfJ
  <1> QED BY <1>1, <1>8, <1>7, Zenon

LEMMA JumpShown ==
  ASSUME NEW imm \in Evenly
  PROVE  Shown(Operation(MakeJ(imm), 2)) = Architecture!OfJ("jal", 0, imm)
  <1>1. PICK w : w = MakeJ(imm) OBVIOUS
  <1>2. w.op = 111 /\ w.rd = 0 /\ w.f3 \in 0 .. 7 /\ w.f7 \in 0 .. 127 /\ DecodeJ(w) = imm
    BY <1>1, EvenlyJ
  <1>3. PICK f7 \in 0 .. 127, f3 \in 0 .. 7 : w.f7 = f7 /\ w.f3 = f3 BY <1>2
  <1>8. PICK n : n = "jal" OBVIOUS
  <1>4. Architecture!Name(111, f3, f7) = n /\ Format(111) = "J" /\ 111 \in 0 .. 127 /\ 111 # 27
    BY <1>8, SMT DEF Architecture!Name, Format
  <1>20. Describes(w, 111, f3, f7, n) BY <1>2, <1>3, <1>4 DEF Describes
  <1>5. ShownInGroup(w, n, 2) BY <1>20, NamedShown, Zenon
  <1>21. Format(w.op) = "J" BY <1>2, <1>3, <1>4
  <1>6. Shown(Operation(w, 2)) = Architecture!Inst(n, w.rd, 0, 0, DecodeJ(w), 2)
    BY <1>2, <1>8, <1>4, <1>5, <1>21, Zenon DEF ShownInGroup
  <1>7. Shown(Operation(w, 2)) = Architecture!OfJ(n, 0, imm)
      BY <1>2, <1>6, Zenon DEF Architecture!OfJ
  <1> QED BY <1>1, <1>8, <1>7, Zenon

LEMMA BranchShown ==
  ASSUME NEW imm \in Evenly, NEW rs1, NEW f3 \in 0 .. 1, NEW n,
         n = IF f3 = 0 THEN "beq" ELSE "bne"
  PROVE  Shown(Operation(MakeB(imm, rs1, f3), 2)) = Architecture!OfS(n, rs1, 0, imm)
  <1>1. PICK w : w = MakeB(imm, rs1, f3) OBVIOUS
  <1>2. w.op = 99 /\ w.rs1 = rs1 /\ w.f3 = f3 /\ w.rs2 = 0 /\ w.f7 \in 0 .. 127
        /\ DecodeB(w) = imm
    BY <1>1, EvenlyB
  <1>3. PICK f7 \in 0 .. 127 : w.f7 = f7 BY <1>2
  <1>4. /\ Architecture!Name(99, f3, f7) = n /\ n \in Architecture!Branches /\ Format(99) = "B"
        /\ 99 \in 0 .. 127 /\ 99 # 27 /\ f3 \in 0 .. 7
    BY SMT DEF Architecture!Name, Architecture!Branches, Format
  <1>20. Describes(w, 99, f3, f7, n) BY <1>2, <1>3, <1>4 DEF Describes
  <1>5. ShownInGroup(w, n, 2) BY <1>20, NamedShown, Zenon
  <1>21. Format(w.op) = "B" BY <1>2, <1>3, <1>4
  <1>6. Shown(Operation(w, 2)) = Architecture!Inst(n, 0, w.rs1, w.rs2, DecodeB(w), 2)
    BY <1>2, <1>4, <1>5, <1>21, Zenon DEF ShownInGroup
  <1>22. Shown(Operation(w, 2)) = Architecture!OfS(n, rs1, 0, imm)
    BY <1>2, <1>6, Zenon DEF Architecture!OfS
  <1> QED BY <1>1, <1>22, Zenon

LEMMA IllegalShown == Shown(Operation(IllegalWord, 2))
  = Architecture!Inst("illegal", 0, 0, 0, 0, 2)
  <1>1. PICK w : w = IllegalWord OBVIOUS
  <1>2. w.op = 127 /\ w.f3 = 7 /\ w.f7 = 127 BY <1>1 DEF IllegalWord, MakeR
  <1>3. PICK n : n = "illegal" OBVIOUS
  <1>4. /\ Architecture!Name(127, 7, 127) = n /\ 127 \in 0 .. 127 /\ 7 \in 0 .. 7 /\ 127 # 27
        /\ n \in {"illegal", "fence"}
    BY <1>3, SMT DEF Architecture!Name
  <1>20. Describes(w, 127, 7, 127, n) BY <1>2, <1>4 DEF Describes
  <1>5. ShownInGroup(w, n, 2) BY <1>20, NamedShown, Zenon
  <1>6. Shown(Operation(w, 2)) = Architecture!Inst(n, 0, 0, 0, 0, 2)
    BY <1>4, <1>5, Zenon DEF ShownInGroup
  <1> QED BY <1>1, <1>3, <1>6, Zenon

LEMMA BreakShown ==
  Shown(Operation(MakeI(1, 0, 0, 0, 115), 2)) = Architecture!Inst("system", 0, 0, 0, 1, 2)
  <1>0. PICK imm \in Imm12 : imm = 1 BY SMT DEF Imm12
  <1>1. PICK w : w = MakeI(imm, 0, 0, 0, 115) OBVIOUS
  <1>2. w.op = 115 /\ w.f3 = 0 /\ w.f7 = (imm \div 32) % 128 /\ DecodeI(w) = imm
      BY <1>0, <1>1, Imm12I
  <1>3. w.f7 = 0 BY <1>0, <1>2, SMT
  <1>4. PICK n : n = "system" OBVIOUS
  <1>5. /\ Architecture!Name(115, 0, 0) = n /\ 115 \in 0 .. 127 /\ 0 \in 0 .. 7 /\ 115 # 27
        /\ 0 \in 0 .. 127 /\ Format(115) = "I"
    BY <1>4, SMT DEF Architecture!Name, Format
  <1>20. Describes(w, 115, 0, 0, n) BY <1>2, <1>3, <1>5 DEF Describes
  <1>6. ShownInGroup(w, n, 2) BY <1>20, NamedShown, Zenon
  <1>21. Format(w.op) = "I" BY <1>2, <1>3, <1>5
  <1>7. Shown(Operation(w, 2)) = Architecture!Inst(n, 0, 0, 0, DecodeI(w), 2)
    BY <1>2, <1>4, <1>5, <1>6, <1>21, Zenon DEF ShownInGroup
  <1> QED BY <1>0, <1>1, <1>2, <1>4, <1>7, Zenon

-----------------------------------------------------------------------------
(* The fields of the compressed instructions.                              *)

\* The ranges of fields and immediates.
LEMMA CutRange ==
  ASSUME NEW c \in Nat, NEW i \in 0 .. 15
  PROVE  /\ Cut(c, i, 1) \in 0 .. 1 /\ Cut(c, i, 2) \in 0 .. 3 /\ Cut(c, i, 3) \in 0 .. 7
         /\ Cut(c, i, 4) \in 0 .. 15 /\ Cut(c, i, 5) \in 0 .. 31
  <1>1. PICK p \in Nat \ {0} : p = Pow2[i] BY Pow2Type
  <1>2. PICK q \in Nat : q = c \div p OBVIOUS
  <1>3. Pow2[1] = 2 /\ Pow2[2] = 4 /\ Pow2[3] = 8 /\ Pow2[4] = 16 /\ Pow2[5] = 32
    BY SmallPowers, SMT
  <1>4. /\ Cut(c, i, 1) = q % 2 /\ Cut(c, i, 2) = q % 4 /\ Cut(c, i, 3) = q % 8
        /\ Cut(c, i, 4) = q % 16 /\ Cut(c, i, 5) = q % 32
    BY <1>1, <1>2, <1>3, SMT DEF Cut
  <1> QED BY <1>4, SMT

LEMMA WideImmRange == ASSUME NEW c \in Nat PROVE WideImm(c) \in Imm12
  <1>1. PICK k0 \in 0 .. 15 : k0 = Cut(c, 7, 4) BY CutRange
  <1>2. PICK k1 \in 0 .. 3 : k1 = Cut(c, 11, 2) BY CutRange
  <1>3. PICK k2 \in 0 .. 1 : k2 = Cut(c, 5, 1) BY CutRange
  <1>4. PICK k3 \in 0 .. 1 : k3 = Cut(c, 6, 1) BY CutRange
  <1>5. /\ Put(c, 7, 4, 6) = Cut(c, 7, 4) * 64
        /\ Put(c, 11, 2, 4) = Cut(c, 11, 2) * 16
        /\ Put(c, 5, 1, 3) = Cut(c, 5, 1) * 8
        /\ Put(c, 6, 1, 2) = Cut(c, 6, 1) * 4
    BY Puts, SMT
  <1>6. WideImm(c) = 64 * k0 + 16 * k1 + 8 * k2 + 4 * k3
      BY <1>1, <1>2, <1>3, <1>4, <1>5, SMT DEF WideImm
  <1> QED BY <1>6, SMT DEF Imm12

LEMMA ImmWordRange == ASSUME NEW c \in Nat PROVE ImmWord(c) \in Imm12 /\ ImmWord(c) \in Offset11
  <1>1. PICK k0 \in 0 .. 1 : k0 = Cut(c, 6, 1) BY CutRange
  <1>2. PICK k1 \in 0 .. 7 : k1 = Cut(c, 10, 3) BY CutRange
  <1>3. PICK k2 \in 0 .. 1 : k2 = Cut(c, 5, 1) BY CutRange
  <1>4. /\ Put(c, 6, 1, 2) = Cut(c, 6, 1) * 4
        /\ Put(c, 10, 3, 3) = Cut(c, 10, 3) * 8
        /\ Put(c, 5, 1, 6) = Cut(c, 5, 1) * 64
    BY Puts, SMT
  <1>5. ImmWord(c) = 4 * k0 + 8 * k1 + 64 * k2 BY <1>1, <1>2, <1>3, <1>4, SMT DEF ImmWord
  <1> QED BY <1>5, SMT DEF Imm12, Offset11

LEMMA ImmDoubleRange == ASSUME NEW c \in Nat
  PROVE ImmDouble(c) \in Imm12 /\ ImmDouble(c) \in Offset11
  <1>1. PICK k0 \in 0 .. 7 : k0 = Cut(c, 10, 3) BY CutRange
  <1>2. PICK k1 \in 0 .. 3 : k1 = Cut(c, 5, 2) BY CutRange
  <1>3. /\ Put(c, 10, 3, 3) = Cut(c, 10, 3) * 8
        /\ Put(c, 5, 2, 6) = Cut(c, 5, 2) * 64
    BY Puts, SMT
  <1>4. ImmDouble(c) = 8 * k0 + 64 * k1 BY <1>1, <1>2, <1>3, SMT DEF ImmDouble
  <1> QED BY <1>4, SMT DEF Imm12, Offset11

LEMMA ImmDoubleSpRange == ASSUME NEW c \in Nat PROVE ImmDoubleSp(c) \in Imm12
  <1>1. PICK k0 \in 0 .. 3 : k0 = Cut(c, 5, 2) BY CutRange
  <1>2. PICK k1 \in 0 .. 1 : k1 = Cut(c, 12, 1) BY CutRange
  <1>3. PICK k2 \in 0 .. 7 : k2 = Cut(c, 2, 3) BY CutRange
  <1>4. /\ Put(c, 5, 2, 3) = Cut(c, 5, 2) * 8
        /\ Put(c, 12, 1, 5) = Cut(c, 12, 1) * 32
        /\ Put(c, 2, 3, 6) = Cut(c, 2, 3) * 64
    BY Puts, SMT
  <1>5. ImmDoubleSp(c) = 8 * k0 + 32 * k1 + 64 * k2
      BY <1>1, <1>2, <1>3, <1>4, SMT DEF ImmDoubleSp
  <1> QED BY <1>5, SMT DEF Imm12

LEMMA WordSpImmRange == ASSUME NEW c \in Nat PROVE WordSpImm(c) \in Imm12
  <1>1. PICK k0 \in 0 .. 7 : k0 = Cut(c, 4, 3) BY CutRange
  <1>2. PICK k1 \in 0 .. 1 : k1 = Cut(c, 12, 1) BY CutRange
  <1>3. PICK k2 \in 0 .. 3 : k2 = Cut(c, 2, 2) BY CutRange
  <1>4. /\ Put(c, 4, 3, 2) = Cut(c, 4, 3) * 4
        /\ Put(c, 12, 1, 5) = Cut(c, 12, 1) * 32
        /\ Put(c, 2, 2, 6) = Cut(c, 2, 2) * 64
    BY Puts, SMT
  <1>5. WordSpImm(c) = 4 * k0 + 32 * k1 + 64 * k2 BY <1>1, <1>2, <1>3, <1>4, SMT DEF WordSpImm
  <1> QED BY <1>5, SMT DEF Imm12

LEMMA ImmStoreSpRange == ASSUME NEW c \in Nat PROVE ImmStoreSp(c) \in Offset11
  <1>1. PICK k0 \in 0 .. 7 : k0 = Cut(c, 10, 3) BY CutRange
  <1>2. PICK k1 \in 0 .. 7 : k1 = Cut(c, 7, 3) BY CutRange
  <1>3. /\ Put(c, 10, 3, 3) = Cut(c, 10, 3) * 8
        /\ Put(c, 7, 3, 6) = Cut(c, 7, 3) * 64
    BY Puts, SMT
  <1>4. ImmStoreSp(c) = 8 * k0 + 64 * k1 BY <1>1, <1>2, <1>3, SMT DEF ImmStoreSp
  <1> QED BY <1>4, SMT DEF Offset11

LEMMA StoreWordSpImmRange == ASSUME NEW c \in Nat PROVE StoreWordSpImm(c) \in Offset11
  <1>1. PICK k0 \in 0 .. 15 : k0 = Cut(c, 9, 4) BY CutRange
  <1>2. PICK k1 \in 0 .. 3 : k1 = Cut(c, 7, 2) BY CutRange
  <1>3. /\ Put(c, 9, 4, 2) = Cut(c, 9, 4) * 4
        /\ Put(c, 7, 2, 6) = Cut(c, 7, 2) * 64
    BY Puts, SMT
  <1>4. StoreWordSpImm(c) = 4 * k0 + 64 * k1 BY <1>1, <1>2, <1>3, SMT DEF StoreWordSpImm
  <1> QED BY <1>4, SMT DEF Offset11

LEMMA Shamt6Range == ASSUME NEW c \in Nat PROVE Shamt6(c) \in 0 .. 63
  <1>1. PICK k0 \in 0 .. 31 : k0 = Cut(c, 2, 5) BY CutRange
  <1>2. PICK k1 \in 0 .. 1 : k1 = Cut(c, 12, 1) BY CutRange
  <1>3. /\ Put(c, 12, 1, 5) = Cut(c, 12, 1) * 32
    BY Puts, SMT
  <1>4. Shamt6(c) = k0 + 32 * k1 BY <1>1, <1>2, <1>3, SMT DEF Shamt6
  <1> QED BY <1>4, SMT

LEMMA Imm6Range == ASSUME NEW c \in Nat PROVE Imm6(c) \in Imm12
  <1>1. PICK k0 \in 0 .. 31 : k0 = Cut(c, 2, 5) BY CutRange
  <1>2. PICK s \in 0 .. 1 : s = Cut(c, 12, 1) BY CutRange
  <1>3. Sign(c, 32) = -(32 * s) BY <1>1, <1>2, SMT DEF Sign
  <1>5. Imm6(c) = k0 - 32 * s BY <1>1, <1>2, <1>3, SMT DEF Imm6
  <1> QED BY <1>5, SMT DEF Imm12

LEMMA ImmAddi16SpRange == ASSUME NEW c \in Nat PROVE ImmAddi16Sp(c) \in Imm12
  <1>1. PICK k0 \in 0 .. 1 : k0 = Cut(c, 6, 1) BY CutRange
  <1>2. PICK k1 \in 0 .. 1 : k1 = Cut(c, 2, 1) BY CutRange
  <1>3. PICK k2 \in 0 .. 1 : k2 = Cut(c, 5, 1) BY CutRange
  <1>4. PICK k3 \in 0 .. 3 : k3 = Cut(c, 3, 2) BY CutRange
  <1>5. PICK s \in 0 .. 1 : s = Cut(c, 12, 1) BY CutRange
  <1>6. Sign(c, 512) = -(512 * s) BY <1>1, <1>2, <1>3, <1>4, <1>5, SMT DEF Sign
  <1>7. /\ Put(c, 6, 1, 4) = Cut(c, 6, 1) * 16
        /\ Put(c, 2, 1, 5) = Cut(c, 2, 1) * 32
        /\ Put(c, 5, 1, 6) = Cut(c, 5, 1) * 64
        /\ Put(c, 3, 2, 7) = Cut(c, 3, 2) * 128
    BY Puts, SMT
  <1>8. ImmAddi16Sp(c) = 16 * k0 + 32 * k1 + 64 * k2 + 128 * k3 - 512 * s
      BY <1>1, <1>2, <1>3, <1>4, <1>5, <1>6, <1>7, SMT DEF ImmAddi16Sp
  <1> QED BY <1>8, SMT DEF Imm12

LEMMA UpperImmRange == ASSUME NEW c \in Nat PROVE UpperImm(c) \in Uppers
  <1>1. PICK k0 \in 0 .. 31 : k0 = Cut(c, 2, 5) BY CutRange
  <1>2. PICK s \in 0 .. 1 : s = Cut(c, 12, 1) BY CutRange
  <1>3. Sign(c, 131072) = -(131072 * s) BY <1>1, <1>2, SMT DEF Sign
  <1>4. /\ Put(c, 2, 5, 12) = Cut(c, 2, 5) * 4096
    BY Puts, SMT
  <1>5. UpperImm(c) = 4096 * k0 - 131072 * s BY <1>1, <1>2, <1>3, <1>4, SMT DEF UpperImm
  <1>6. PICK k \in -32 .. 31 : k = k0 - 32 * s OBVIOUS
  <1>7. UpperImm(c) = UpperOf(k) /\ UpperImm(c) \in Int BY <1>5, <1>6, SMT DEF UpperOf
  <1> QED BY <1>7, Zenon DEF Uppers

LEMMA ImmJumpRange == ASSUME NEW c \in Nat PROVE ImmJump(c) \in Evenly
  <1>1. PICK k0 \in 0 .. 7 : k0 = Cut(c, 3, 3) BY CutRange
  <1>2. PICK k1 \in 0 .. 1 : k1 = Cut(c, 11, 1) BY CutRange
  <1>3. PICK k2 \in 0 .. 1 : k2 = Cut(c, 2, 1) BY CutRange
  <1>4. PICK k3 \in 0 .. 1 : k3 = Cut(c, 7, 1) BY CutRange
  <1>5. PICK k4 \in 0 .. 1 : k4 = Cut(c, 6, 1) BY CutRange
  <1>6. PICK k5 \in 0 .. 3 : k5 = Cut(c, 9, 2) BY CutRange
  <1>7. PICK k6 \in 0 .. 1 : k6 = Cut(c, 8, 1) BY CutRange
  <1>8. PICK k7 \in 0 .. 1 : k7 = Cut(c, 12, 1) BY CutRange
  <1>9. Sign(c, 4096) = -(4096 * k7)
      BY <1>1, <1>2, <1>3, <1>4, <1>5, <1>6, <1>7, <1>8, SMT DEF Sign
  <1>10. /\ Put(c, 3, 3, 1) = Cut(c, 3, 3) * 2
        /\ Put(c, 11, 1, 4) = Cut(c, 11, 1) * 16
        /\ Put(c, 2, 1, 5) = Cut(c, 2, 1) * 32
        /\ Put(c, 7, 1, 6) = Cut(c, 7, 1) * 64
        /\ Put(c, 6, 1, 7) = Cut(c, 6, 1) * 128
        /\ Put(c, 9, 2, 8) = Cut(c, 9, 2) * 256
        /\ Put(c, 8, 1, 10) = Cut(c, 8, 1) * 1024
        /\ Put(c, 12, 1, 11) = Cut(c, 12, 1) * 2048
    BY Puts, SMT
  <1>11. ImmJump(c) = 2 * k0 + 16 * k1 + 32 * k2 + 64 * k3 + 128 * k4 + 256 * k5 + 1024 * k6
        + 2048 * k7 - 4096 * k7
            BY <1>1, <1>2, <1>3, <1>4, <1>5, <1>6, <1>7, <1>8, <1>9, <1>10, SMT DEF ImmJump
  <1>12. PICK k \in Int : k = k0 + 8 * k1 + 16 * k2 + 32 * k3 + 64 * k4 + 128 * k5 + 512 * k6
        + 1024 * k7 - 2048 * k7 BY SMT
  <1>13. -1024 <= k /\ k <= 1023 BY <1>12, SMT
  <1>14. ImmJump(c) = 2 * k /\ ImmJump(c) \in Int BY <1>11, <1>12, SMT
  <1> QED BY <1>13, <1>14, SMT DEF Evenly

LEMMA ImmBranchRange == ASSUME NEW c \in Nat PROVE ImmBranch(c) \in Evenly
  <1>1. PICK k0 \in 0 .. 3 : k0 = Cut(c, 3, 2) BY CutRange
  <1>2. PICK k1 \in 0 .. 3 : k1 = Cut(c, 10, 2) BY CutRange
  <1>3. PICK k2 \in 0 .. 1 : k2 = Cut(c, 2, 1) BY CutRange
  <1>4. PICK k3 \in 0 .. 3 : k3 = Cut(c, 5, 2) BY CutRange
  <1>5. PICK k4 \in 0 .. 1 : k4 = Cut(c, 12, 1) BY CutRange
  <1>6. Sign(c, 512) = -(512 * k4) BY <1>1, <1>2, <1>3, <1>4, <1>5, SMT DEF Sign
  <1>7. /\ Put(c, 3, 2, 1) = Cut(c, 3, 2) * 2
        /\ Put(c, 10, 2, 3) = Cut(c, 10, 2) * 8
        /\ Put(c, 2, 1, 5) = Cut(c, 2, 1) * 32
        /\ Put(c, 5, 2, 6) = Cut(c, 5, 2) * 64
        /\ Put(c, 12, 1, 8) = Cut(c, 12, 1) * 256
    BY Puts, SMT
  <1>8. ImmBranch(c) = 2 * k0 + 8 * k1 + 32 * k2 + 64 * k3 + 256 * k4 - 512 * k4
      BY <1>1, <1>2, <1>3, <1>4, <1>5, <1>6, <1>7, SMT DEF ImmBranch
  <1>9. PICK k \in Int : k = k0 + 4 * k1 + 16 * k2 + 32 * k3 + 128 * k4 - 256 * k4 BY SMT
  <1>10. -1024 <= k /\ k <= 1023 BY <1>9, SMT
  <1>11. ImmBranch(c) = 2 * k /\ ImmBranch(c) \in Int BY <1>8, <1>9, SMT
  <1> QED BY <1>10, <1>11, SMT DEF Evenly

\* The fields of a compressed instruction, together.
LEMMA ShortFields ==
  ASSUME NEW c \in Nat
  PROVE  /\ Architecture!Column(HalfBit(c)) = Cut(c, 13, 3)
         /\ Architecture!Short1(HalfBit(c)) = RegC(c, 7)
            /\ Architecture!Short2(HalfBit(c)) = RegC(c, 2)
         /\ Architecture!Long1(HalfBit(c)) = RegF(c) /\ Architecture!Long2(HalfBit(c)) = Rs2F(c)
         /\ HalfBit(c)[12] = Cut(c, 12, 1)
  <1>1. Architecture!Column(HalfBit(c)) = Cut(c, 13, 3)
      BY ColumnIs, Zenon DEF Architecture!Column
  <1>2. Architecture!Short1(HalfBit(c)) = RegC(c, 7)
      BY Short1Is, Zenon DEF Architecture!Short1, RegC
  <1>3. Architecture!Short2(HalfBit(c)) = RegC(c, 2)
      BY Short2Is, Zenon DEF Architecture!Short2, RegC
  <1>4. Architecture!Long1(HalfBit(c)) = RegF(c) BY Long1Is, Zenon DEF Architecture!Long1, RegF
  <1>5. Architecture!Long2(HalfBit(c)) = Rs2F(c) BY Long2Is, Zenon DEF Architecture!Long2, Rs2F
  <1>6. HalfBit(c)[12] = Cut(c, 12, 1) BY CutOne DEF HalfBit, Bit
  <1> QED BY <1>1, <1>2, <1>3, <1>4, <1>5, <1>6, Zenon

-----------------------------------------------------------------------------
(* The quadrants.                                                          *)

LEMMA ZeroImm == 0 \in Imm12
BY SMT DEF Imm12

\* Quadrant by quadrant, a compressed instruction is expanded to the word
\* that means what the manual says of it.
LEMMA Quadrant0Is ==
  ASSUME NEW c \in Nat
  PROVE  Shown(Operation(Quadrant0(c), 2)) = Architecture!Meaning0(c = 0, HalfBit(c))
  <1>1. /\ Architecture!Column(HalfBit(c)) = Cut(c, 13, 3)
        /\ Architecture!Short1(HalfBit(c)) = RegC(c, 7)
           /\ Architecture!Short2(HalfBit(c)) = RegC(c, 2)
        /\ Architecture!Long1(HalfBit(c)) = RegF(c) /\ Architecture!Long2(HalfBit(c)) = Rs2F(c)
        /\ HalfBit(c)[12] = Cut(c, 12, 1)
    BY ShortFields
  <1>2. Cut(c, 13, 3) \in 0 .. 7 BY CutRange
  <1>3. CASE Cut(c, 13, 3) = 0 /\ c # 0
    <2>1. Quadrant0(c) = MakeI(WideImm(c), 2, 0, RegC(c, 2), 19)
      BY <1>3, SMT DEF Quadrant0, WideImm
    <2>2. PlainRow("addi", 19, 0) BY SMT DEF PlainRow
    <2>3. Shown(Operation(MakeI(WideImm(c), 2, 0, RegC(c, 2), 19), 2))
          = Architecture!OfI("addi", RegC(c, 2), 2, WideImm(c))
      BY <2>2, WideImmRange, PlainShown
    <2>6. ~(c = 0 \/ Architecture!Column(HalfBit(c)) \in {1, 4, 5}) BY <1>3, <1>1, SMT
    <2>7. (c # 0 /\ Architecture!Column(HalfBit(c)) = 0) BY <1>3, <1>1, SMT
    <2>10. Architecture!Column(HalfBit(c)) # 2 BY <1>3, <1>1, SMT
    <2>11. Architecture!Column(HalfBit(c)) # 3 BY <1>3, <1>1, SMT
    <2>14. Architecture!Column(HalfBit(c)) # 6 BY <1>3, <1>1, SMT
    <2>15. Architecture!Column(HalfBit(c)) # 7 BY <1>3, <1>1, SMT
    <2>4. Architecture!Meaning0(c = 0, HalfBit(c))
          = Architecture!OfI("addi", Architecture!Short2(HalfBit(c)), 2,
          Architecture!Unsigned(HalfBit(c), Architecture!Down(12, 5),
          <<5, 4, 9, 8, 7, 6, 2, 3>>))
      BY <2>6, <2>7, <2>10, <2>11, <2>14, <2>15, Zenon
        DEF Architecture!Meaning0, Architecture!CL, Architecture!CI, Architecture!CSS
    <2>5. Architecture!OfI("addi", Architecture!Short2(HalfBit(c)), 2,
          Architecture!Unsigned(HalfBit(c), Architecture!Down(12, 5),
          <<5, 4, 9, 8, 7, 6, 2, 3>>)) = Architecture!OfI("addi", RegC(c, 2), 2, WideImm(c))
      BY <1>1, WideIs, Zenon
    <2> QED BY <2>1, <2>3, <2>4, <2>5, Zenon
  <1>4. CASE Cut(c, 13, 3) = 2 /\ c # 0
    <2>1. Quadrant0(c) = MakeI(ImmWord(c), RegC(c, 7), 2, RegC(c, 2), 3)
      BY <1>4, SMT DEF Quadrant0
    <2>2. PlainRow("load", 3, 2) BY SMT DEF PlainRow
    <2>3. Shown(Operation(MakeI(ImmWord(c), RegC(c, 7), 2, RegC(c, 2), 3), 2))
          = Architecture!OfI("load", RegC(c, 2), RegC(c, 7), ImmWord(c))
      BY <2>2, ImmWordRange, PlainShown
    <2>6. ~(c = 0 \/ Architecture!Column(HalfBit(c)) \in {1, 4, 5}) BY <1>4, <1>1, SMT
    <2>7. ~(c # 0 /\ Architecture!Column(HalfBit(c)) = 0) BY <1>4, <1>1, SMT
    <2>10. Architecture!Column(HalfBit(c)) = 2 BY <1>4, <1>1, SMT
    <2>11. Architecture!Column(HalfBit(c)) # 3 BY <1>4, <1>1, SMT
    <2>14. Architecture!Column(HalfBit(c)) # 6 BY <1>4, <1>1, SMT
    <2>15. Architecture!Column(HalfBit(c)) # 7 BY <1>4, <1>1, SMT
    <2>4. Architecture!Meaning0(c = 0, HalfBit(c))
          = Architecture!OfI("load", Architecture!Short2(HalfBit(c)),
          Architecture!Short1(HalfBit(c)),
          Architecture!Unsigned(HalfBit(c), <<12, 11, 10, 6, 5>>, <<5, 4, 3, 2, 6>>))
      BY <2>6, <2>7, <2>10, <2>11, <2>14, <2>15, Zenon
        DEF Architecture!Meaning0, Architecture!CL, Architecture!CI, Architecture!CSS
    <2>5. Architecture!OfI("load", Architecture!Short2(HalfBit(c)),
          Architecture!Short1(HalfBit(c)),
          Architecture!Unsigned(HalfBit(c), <<12, 11, 10, 6, 5>>, <<5, 4, 3, 2, 6>>))
          = Architecture!OfI("load", RegC(c, 2), RegC(c, 7), ImmWord(c))
      BY <1>1, OfWordIs, Zenon
    <2> QED BY <2>1, <2>3, <2>4, <2>5, Zenon
  <1>5. CASE Cut(c, 13, 3) = 3 /\ c # 0
    <2>1. Quadrant0(c) = MakeI(ImmDouble(c), RegC(c, 7), 3, RegC(c, 2), 3)
      BY <1>5, SMT DEF Quadrant0
    <2>2. PlainRow("load", 3, 3) BY SMT DEF PlainRow
    <2>3. Shown(Operation(MakeI(ImmDouble(c), RegC(c, 7), 3, RegC(c, 2), 3), 2))
          = Architecture!OfI("load", RegC(c, 2), RegC(c, 7), ImmDouble(c))
      BY <2>2, ImmDoubleRange, PlainShown
    <2>6. ~(c = 0 \/ Architecture!Column(HalfBit(c)) \in {1, 4, 5}) BY <1>5, <1>1, SMT
    <2>7. ~(c # 0 /\ Architecture!Column(HalfBit(c)) = 0) BY <1>5, <1>1, SMT
    <2>10. Architecture!Column(HalfBit(c)) # 2 BY <1>5, <1>1, SMT
    <2>11. Architecture!Column(HalfBit(c)) = 3 BY <1>5, <1>1, SMT
    <2>14. Architecture!Column(HalfBit(c)) # 6 BY <1>5, <1>1, SMT
    <2>15. Architecture!Column(HalfBit(c)) # 7 BY <1>5, <1>1, SMT
    <2>4. Architecture!Meaning0(c = 0, HalfBit(c))
          = Architecture!OfI("load", Architecture!Short2(HalfBit(c)),
          Architecture!Short1(HalfBit(c)),
          Architecture!Unsigned(HalfBit(c), <<12, 11, 10, 6, 5>>, <<5, 4, 3, 7, 6>>))
      BY <2>6, <2>7, <2>10, <2>11, <2>14, <2>15, Zenon
        DEF Architecture!Meaning0, Architecture!CL, Architecture!CI, Architecture!CSS
    <2>5. Architecture!OfI("load", Architecture!Short2(HalfBit(c)),
          Architecture!Short1(HalfBit(c)),
          Architecture!Unsigned(HalfBit(c), <<12, 11, 10, 6, 5>>, <<5, 4, 3, 7, 6>>))
          = Architecture!OfI("load", RegC(c, 2), RegC(c, 7), ImmDouble(c))
      BY <1>1, OfDoubleIs, Zenon
    <2> QED BY <2>1, <2>3, <2>4, <2>5, Zenon
  <1>6. CASE Cut(c, 13, 3) = 6 /\ c # 0
    <2>1. Quadrant0(c) = MakeS(ImmWord(c), RegC(c, 2), RegC(c, 7), 2, 35)
      BY <1>6, SMT DEF Quadrant0
    <2>2. StoreRow("store", 35, 2) BY SMT DEF StoreRow
    <2>3. Shown(Operation(MakeS(ImmWord(c), RegC(c, 2), RegC(c, 7), 2, 35), 2))
          = Architecture!OfS("store", RegC(c, 7), RegC(c, 2), ImmWord(c))
      BY <2>2, ImmWordRange, StoreShown
    <2>6. ~(c = 0 \/ Architecture!Column(HalfBit(c)) \in {1, 4, 5}) BY <1>6, <1>1, SMT
    <2>7. ~(c # 0 /\ Architecture!Column(HalfBit(c)) = 0) BY <1>6, <1>1, SMT
    <2>10. Architecture!Column(HalfBit(c)) # 2 BY <1>6, <1>1, SMT
    <2>11. Architecture!Column(HalfBit(c)) # 3 BY <1>6, <1>1, SMT
    <2>14. Architecture!Column(HalfBit(c)) = 6 BY <1>6, <1>1, SMT
    <2>15. Architecture!Column(HalfBit(c)) # 7 BY <1>6, <1>1, SMT
    <2>4. Architecture!Meaning0(c = 0, HalfBit(c))
          = Architecture!OfS("store", Architecture!Short1(HalfBit(c)),
          Architecture!Short2(HalfBit(c)),
          Architecture!Unsigned(HalfBit(c), <<12, 11, 10, 6, 5>>, <<5, 4, 3, 2, 6>>))
      BY <2>6, <2>7, <2>10, <2>11, <2>14, <2>15, Zenon
        DEF Architecture!Meaning0, Architecture!CL, Architecture!CI, Architecture!CSS
    <2>5. Architecture!OfS("store", Architecture!Short1(HalfBit(c)),
          Architecture!Short2(HalfBit(c)),
          Architecture!Unsigned(HalfBit(c), <<12, 11, 10, 6, 5>>, <<5, 4, 3, 2, 6>>))
          = Architecture!OfS("store", RegC(c, 7), RegC(c, 2), ImmWord(c))
      BY <1>1, OfWordIs, Zenon
    <2> QED BY <2>1, <2>3, <2>4, <2>5, Zenon
  <1>7. CASE Cut(c, 13, 3) = 7 /\ c # 0
    <2>1. Quadrant0(c) = MakeS(ImmDouble(c), RegC(c, 2), RegC(c, 7), 3, 35)
      BY <1>7, SMT DEF Quadrant0
    <2>2. StoreRow("store", 35, 3) BY SMT DEF StoreRow
    <2>3. Shown(Operation(MakeS(ImmDouble(c), RegC(c, 2), RegC(c, 7), 3, 35), 2))
          = Architecture!OfS("store", RegC(c, 7), RegC(c, 2), ImmDouble(c))
      BY <2>2, ImmDoubleRange, StoreShown
    <2>6. ~(c = 0 \/ Architecture!Column(HalfBit(c)) \in {1, 4, 5}) BY <1>7, <1>1, SMT
    <2>7. ~(c # 0 /\ Architecture!Column(HalfBit(c)) = 0) BY <1>7, <1>1, SMT
    <2>10. Architecture!Column(HalfBit(c)) # 2 BY <1>7, <1>1, SMT
    <2>11. Architecture!Column(HalfBit(c)) # 3 BY <1>7, <1>1, SMT
    <2>14. Architecture!Column(HalfBit(c)) # 6 BY <1>7, <1>1, SMT
    <2>15. Architecture!Column(HalfBit(c)) = 7 BY <1>7, <1>1, SMT
    <2>4. Architecture!Meaning0(c = 0, HalfBit(c))
          = Architecture!OfS("store", Architecture!Short1(HalfBit(c)),
          Architecture!Short2(HalfBit(c)),
          Architecture!Unsigned(HalfBit(c), <<12, 11, 10, 6, 5>>, <<5, 4, 3, 7, 6>>))
      BY <2>6, <2>7, <2>10, <2>11, <2>14, <2>15, Zenon
        DEF Architecture!Meaning0, Architecture!CL, Architecture!CI, Architecture!CSS
    <2>5. Architecture!OfS("store", Architecture!Short1(HalfBit(c)),
          Architecture!Short2(HalfBit(c)),
          Architecture!Unsigned(HalfBit(c), <<12, 11, 10, 6, 5>>, <<5, 4, 3, 7, 6>>))
          = Architecture!OfS("store", RegC(c, 7), RegC(c, 2), ImmDouble(c))
      BY <1>1, OfDoubleIs, Zenon
    <2> QED BY <2>1, <2>3, <2>4, <2>5, Zenon
  <1>8. CASE c = 0 \/ Cut(c, 13, 3) \in {1, 4, 5}
    <2>0. c = 0 => Cut(c, 13, 3) = 0 BY SmallPowers, SMT DEF Cut
    <2>1. Quadrant0(c) = IllegalWord BY <1>8, <2>0, SMT DEF Quadrant0
    <2>3. c = 0 \/ Architecture!Column(HalfBit(c)) \in {1, 4, 5} BY <1>8, <1>1, SMT
    <2>4. ~(c # 0 /\ Architecture!Column(HalfBit(c)) = 0) BY <1>8, <1>1, SMT
    <2>5. Architecture!Column(HalfBit(c)) \notin {2, 3, 6, 7} BY <1>8, <2>0, <1>1, SMT
    <2>2. Architecture!Meaning0(c = 0, HalfBit(c)) = Architecture!Inst("illegal", 0, 0, 0, 0, 2)
      BY <2>3, <2>4, <2>5, Zenon DEF Architecture!Meaning0
    <2> QED BY <2>1, <2>2, IllegalShown, Zenon
  <1> QED BY <1>2, <1>3, <1>4, <1>5, <1>6, <1>7, <1>8, SMT

\* What tells the instructions of the fourth column apart.
Group(c) == Architecture!Unsigned(HalfBit(c), <<11, 10>>, <<1, 0>>)
Which(c) == Architecture!Unsigned(HalfBit(c), <<12, 6, 5>>, <<2, 1, 0>>)

LEMMA Column4Is ==
  ASSUME NEW c \in Nat, Cut(c, 13, 3) = 4, ~ReservedArith(c)
  PROVE  Shown(Operation(Quadrant1(c), 2)) = Architecture!Meaning4(HalfBit(c))
  <1>1. /\ Architecture!Column(HalfBit(c)) = Cut(c, 13, 3)
        /\ Architecture!Short1(HalfBit(c)) = RegC(c, 7)
           /\ Architecture!Short2(HalfBit(c)) = RegC(c, 2)
        /\ Architecture!Long1(HalfBit(c)) = RegF(c) /\ Architecture!Long2(HalfBit(c)) = Rs2F(c)
        /\ HalfBit(c)[12] = Cut(c, 12, 1)
    BY ShortFields
  <1>2. Cut(c, 13, 3) \in 0 .. 7 BY CutRange
  <1>3. Group(c) = Cut(c, 10, 2) BY GroupIs, Zenon DEF Group
  <1>4. Which(c) = 4 * Cut(c, 12, 1) + Cut(c, 5, 2) BY WhichIs, Zenon DEF Which
  <1>5. Cut(c, 10, 2) \in 0 .. 3 /\ Cut(c, 12, 1) \in 0 .. 1 /\ Cut(c, 5, 2) \in 0 .. 3
      BY CutRange
  <1>6. CASE Cut(c, 10, 2) = 0
    <2>2. Shamt6(c) \in 0 .. 63 BY Shamt6Range
    <2>1. Quadrant1(c) = MakeI(1024 * 0 + Shamt6(c), RegC(c, 7), 5, RegC(c, 7), 19)
      BY <1>6, <2>2, SMT DEF Quadrant1, Arith, ReservedArith
    <2>6. PICK n : n = "srli" OBVIOUS
    <2>7. n = IF 0 = 1 THEN "srai" ELSE IF 5 = 1 THEN "slli" ELSE "srli" BY <2>6
    <2>8. 0 \in 0 .. 1 /\ 5 \in {1, 5} /\ (0 = 1 => 5 = 5) OBVIOUS
    <2>9. Shown(Operation(MakeI(1024 * 0 + Shamt6(c), RegC(c, 7), 5, RegC(c, 7), 19), 2))
          = Architecture!OfI(n, RegC(c, 7), RegC(c, 7), Shamt6(c))
      BY <2>2, <2>7, <2>8, ShiftShown
    <2>3. Shown(Operation(MakeI(1024 * 0 + Shamt6(c), RegC(c, 7), 5, RegC(c, 7), 19), 2))
          = Architecture!OfI("srli", RegC(c, 7), RegC(c, 7), Shamt6(c))
      BY <2>6, <2>9, Zenon
    <2>10. Group(c) < 2 BY <1>6, <1>3, <1>5, SMT
    <2>11. ~(Group(c) = 2) BY <1>6, <1>3, <1>5, SMT
    <2>12. ~(Group(c) = 3) BY <1>6, <1>3, <1>5, SMT
    <2>4. Architecture!Meaning4(HalfBit(c))
          = Architecture!OfI(<<"srli", "srai">>[Group(c) + 1], Architecture!Short1(HalfBit(c)),
          Architecture!Short1(HalfBit(c)),
          Architecture!Unsigned(HalfBit(c), Architecture!CI, Architecture!Down(5, 0)))
      BY <2>10, <2>11, <2>12, Zenon
        DEF Group, Which, Architecture!Meaning4, Architecture!CL, Architecture!CI,
            Architecture!CSS
    <2>20. <<"srli", "srai">>[Group(c) + 1] = "srli" BY <1>6, <1>3, SMT
    <2>21. Architecture!Unsigned(HalfBit(c), Architecture!CI, Architecture!Down(5, 0))
          = Shamt6(c)
        BY AmountIs, Zenon DEF Architecture!CI
    <2>5. Architecture!OfI(<<"srli", "srai">>[Group(c) + 1], Architecture!Short1(HalfBit(c)),
          Architecture!Short1(HalfBit(c)),
          Architecture!Unsigned(HalfBit(c), Architecture!CI, Architecture!Down(5, 0)))
      = Architecture!OfI("srli", RegC(c, 7), RegC(c, 7), Shamt6(c))
      BY <2>20, <2>21, <1>1, Zenon
    <2> QED BY <2>1, <2>3, <2>4, <2>5, Zenon
  <1>7. CASE Cut(c, 10, 2) = 1
    <2>2. Shamt6(c) \in 0 .. 63 BY Shamt6Range
    <2>1. Quadrant1(c) = MakeI(1024 * 1 + Shamt6(c), RegC(c, 7), 5, RegC(c, 7), 19)
      BY <1>7, <2>2, SMT DEF Quadrant1, Arith, ReservedArith
    <2>6. PICK n : n = "srai" OBVIOUS
    <2>7. n = IF 1 = 1 THEN "srai" ELSE IF 5 = 1 THEN "slli" ELSE "srli" BY <2>6
    <2>8. 1 \in 0 .. 1 /\ 5 \in {1, 5} /\ (1 = 1 => 5 = 5) OBVIOUS
    <2>9. Shown(Operation(MakeI(1024 * 1 + Shamt6(c), RegC(c, 7), 5, RegC(c, 7), 19), 2))
          = Architecture!OfI(n, RegC(c, 7), RegC(c, 7), Shamt6(c))
      BY <2>2, <2>7, <2>8, ShiftShown
    <2>3. Shown(Operation(MakeI(1024 * 1 + Shamt6(c), RegC(c, 7), 5, RegC(c, 7), 19), 2))
          = Architecture!OfI("srai", RegC(c, 7), RegC(c, 7), Shamt6(c))
      BY <2>6, <2>9, Zenon
    <2>10. Group(c) < 2 BY <1>7, <1>3, <1>5, SMT
    <2>11. ~(Group(c) = 2) BY <1>7, <1>3, <1>5, SMT
    <2>12. ~(Group(c) = 3) BY <1>7, <1>3, <1>5, SMT
    <2>4. Architecture!Meaning4(HalfBit(c))
          = Architecture!OfI(<<"srli", "srai">>[Group(c) + 1], Architecture!Short1(HalfBit(c)),
          Architecture!Short1(HalfBit(c)),
          Architecture!Unsigned(HalfBit(c), Architecture!CI, Architecture!Down(5, 0)))
      BY <2>10, <2>11, <2>12, Zenon
        DEF Group, Which, Architecture!Meaning4, Architecture!CL, Architecture!CI,
            Architecture!CSS
    <2>20. <<"srli", "srai">>[Group(c) + 1] = "srai" BY <1>7, <1>3, SMT
    <2>21. Architecture!Unsigned(HalfBit(c), Architecture!CI, Architecture!Down(5, 0))
          = Shamt6(c)
        BY AmountIs, Zenon DEF Architecture!CI
    <2>5. Architecture!OfI(<<"srli", "srai">>[Group(c) + 1], Architecture!Short1(HalfBit(c)),
          Architecture!Short1(HalfBit(c)),
          Architecture!Unsigned(HalfBit(c), Architecture!CI, Architecture!Down(5, 0)))
      = Architecture!OfI("srai", RegC(c, 7), RegC(c, 7), Shamt6(c))
      BY <2>20, <2>21, <1>1, Zenon
    <2> QED BY <2>1, <2>3, <2>4, <2>5, Zenon
  <1>8. CASE Cut(c, 10, 2) = 2
    <2>1. Quadrant1(c) = MakeI(Imm6(c), RegC(c, 7), 7, RegC(c, 7), 19)
      BY <1>8, SMT DEF Quadrant1, Arith, ReservedArith
    <2>2. PlainRow("andi", 19, 7) BY SMT DEF PlainRow
    <2>3. Shown(Operation(MakeI(Imm6(c), RegC(c, 7), 7, RegC(c, 7), 19), 2))
          = Architecture!OfI("andi", RegC(c, 7), RegC(c, 7), Imm6(c))
      BY <2>2, Imm6Range, PlainShown
    <2>10. ~(Group(c) < 2) BY <1>8, <1>3, <1>5, SMT
    <2>11. Group(c) = 2 BY <1>8, <1>3, <1>5, SMT
    <2>12. ~(Group(c) = 3) BY <1>8, <1>3, <1>5, SMT
    <2>4. Architecture!Meaning4(HalfBit(c))
          = Architecture!OfI("andi", Architecture!Short1(HalfBit(c)),
          Architecture!Short1(HalfBit(c)),
          Architecture!SignedImm(HalfBit(c), Architecture!CI, Architecture!Down(5, 0)))
      BY <2>10, <2>11, <2>12, Zenon
        DEF Group, Which, Architecture!Meaning4, Architecture!CL, Architecture!CI,
            Architecture!CSS
    <2>5. Architecture!OfI("andi", Architecture!Short1(HalfBit(c)),
          Architecture!Short1(HalfBit(c)),
          Architecture!SignedImm(HalfBit(c), Architecture!CI, Architecture!Down(5, 0)))
      = Architecture!OfI("andi", RegC(c, 7), RegC(c, 7), Imm6(c))
      BY <1>1, SixIs, Zenon DEF Architecture!CI
    <2> QED BY <2>1, <2>3, <2>4, <2>5, Zenon
  <1>9. CASE Cut(c, 10, 2) = 3 /\ Cut(c, 12, 1) = 0 /\ Cut(c, 5, 2) = 0
    <2>1. Quadrant1(c) = MakeR(32, RegC(c, 2), RegC(c, 7), 0, RegC(c, 7), 51)
      BY <1>9, SMT DEF Quadrant1, Arith, ReservedArith
    <2>2. RegRow("sub", 51, 0, 32) BY SMT DEF RegRow
    <2>3. Shown(Operation(MakeR(32, RegC(c, 2), RegC(c, 7), 0, RegC(c, 7), 51), 2))
          = Architecture!OfR("sub", RegC(c, 7), RegC(c, 7), RegC(c, 2))
      BY <2>2, RegShown
    <2>10. ~(Group(c) < 2) BY <1>9, <1>3, <1>5, SMT
    <2>11. ~(Group(c) = 2) BY <1>9, <1>3, <1>5, SMT
    <2>12. Group(c) = 3 BY <1>9, <1>3, <1>5, SMT
    <2>4. Architecture!Meaning4(HalfBit(c))
          = Architecture!OfR(<<"sub", "xor", "or", "and", "subw", "addw">>[1 + Which(c)],
          Architecture!Short1(HalfBit(c)), Architecture!Short1(HalfBit(c)),
          Architecture!Short2(HalfBit(c)))
      BY <2>10, <2>11, <2>12, Zenon
        DEF Group, Which, Architecture!Meaning4, Architecture!CL, Architecture!CI,
            Architecture!CSS
    <2>19. Which(c) = 0 BY <1>9, <1>4, SMT
    <2>20. <<"sub", "xor", "or", "and", "subw", "addw">>[1 + Which(c)] = "sub" BY <2>19, SMT
    <2>5. Architecture!OfR(<<"sub", "xor", "or", "and", "subw", "addw">>[1 + Which(c)],
          Architecture!Short1(HalfBit(c)), Architecture!Short1(HalfBit(c)),
          Architecture!Short2(HalfBit(c)))
      = Architecture!OfR("sub", RegC(c, 7), RegC(c, 7), RegC(c, 2))
      BY <2>20, <1>1, Zenon
    <2> QED BY <2>1, <2>3, <2>4, <2>5, Zenon
  <1>10. CASE Cut(c, 10, 2) = 3 /\ Cut(c, 12, 1) = 0 /\ Cut(c, 5, 2) = 1
    <2>1. Quadrant1(c) = MakeR(0, RegC(c, 2), RegC(c, 7), 4, RegC(c, 7), 51)
      BY <1>10, SMT DEF Quadrant1, Arith, ReservedArith
    <2>2. RegRow("xor", 51, 4, 0) BY SMT DEF RegRow
    <2>3. Shown(Operation(MakeR(0, RegC(c, 2), RegC(c, 7), 4, RegC(c, 7), 51), 2))
          = Architecture!OfR("xor", RegC(c, 7), RegC(c, 7), RegC(c, 2))
      BY <2>2, RegShown
    <2>10. ~(Group(c) < 2) BY <1>10, <1>3, <1>5, SMT
    <2>11. ~(Group(c) = 2) BY <1>10, <1>3, <1>5, SMT
    <2>12. Group(c) = 3 BY <1>10, <1>3, <1>5, SMT
    <2>4. Architecture!Meaning4(HalfBit(c))
          = Architecture!OfR(<<"sub", "xor", "or", "and", "subw", "addw">>[1 + Which(c)],
          Architecture!Short1(HalfBit(c)), Architecture!Short1(HalfBit(c)),
          Architecture!Short2(HalfBit(c)))
      BY <2>10, <2>11, <2>12, Zenon
        DEF Group, Which, Architecture!Meaning4, Architecture!CL, Architecture!CI,
            Architecture!CSS
    <2>19. Which(c) = 1 BY <1>10, <1>4, SMT
    <2>20. <<"sub", "xor", "or", "and", "subw", "addw">>[1 + Which(c)] = "xor" BY <2>19, SMT
    <2>5. Architecture!OfR(<<"sub", "xor", "or", "and", "subw", "addw">>[1 + Which(c)],
          Architecture!Short1(HalfBit(c)), Architecture!Short1(HalfBit(c)),
          Architecture!Short2(HalfBit(c)))
      = Architecture!OfR("xor", RegC(c, 7), RegC(c, 7), RegC(c, 2))
      BY <2>20, <1>1, Zenon
    <2> QED BY <2>1, <2>3, <2>4, <2>5, Zenon
  <1>11. CASE Cut(c, 10, 2) = 3 /\ Cut(c, 12, 1) = 0 /\ Cut(c, 5, 2) = 2
    <2>1. Quadrant1(c) = MakeR(0, RegC(c, 2), RegC(c, 7), 6, RegC(c, 7), 51)
      BY <1>11, SMT DEF Quadrant1, Arith, ReservedArith
    <2>2. RegRow("or", 51, 6, 0) BY SMT DEF RegRow
    <2>3. Shown(Operation(MakeR(0, RegC(c, 2), RegC(c, 7), 6, RegC(c, 7), 51), 2))
          = Architecture!OfR("or", RegC(c, 7), RegC(c, 7), RegC(c, 2))
      BY <2>2, RegShown
    <2>10. ~(Group(c) < 2) BY <1>11, <1>3, <1>5, SMT
    <2>11. ~(Group(c) = 2) BY <1>11, <1>3, <1>5, SMT
    <2>12. Group(c) = 3 BY <1>11, <1>3, <1>5, SMT
    <2>4. Architecture!Meaning4(HalfBit(c))
          = Architecture!OfR(<<"sub", "xor", "or", "and", "subw", "addw">>[1 + Which(c)],
          Architecture!Short1(HalfBit(c)), Architecture!Short1(HalfBit(c)),
          Architecture!Short2(HalfBit(c)))
      BY <2>10, <2>11, <2>12, Zenon
        DEF Group, Which, Architecture!Meaning4, Architecture!CL, Architecture!CI,
            Architecture!CSS
    <2>19. Which(c) = 2 BY <1>11, <1>4, SMT
    <2>20. <<"sub", "xor", "or", "and", "subw", "addw">>[1 + Which(c)] = "or" BY <2>19, SMT
    <2>5. Architecture!OfR(<<"sub", "xor", "or", "and", "subw", "addw">>[1 + Which(c)],
          Architecture!Short1(HalfBit(c)), Architecture!Short1(HalfBit(c)),
          Architecture!Short2(HalfBit(c)))
      = Architecture!OfR("or", RegC(c, 7), RegC(c, 7), RegC(c, 2))
      BY <2>20, <1>1, Zenon
    <2> QED BY <2>1, <2>3, <2>4, <2>5, Zenon
  <1>12. CASE Cut(c, 10, 2) = 3 /\ Cut(c, 12, 1) = 0 /\ Cut(c, 5, 2) = 3
    <2>1. Quadrant1(c) = MakeR(0, RegC(c, 2), RegC(c, 7), 7, RegC(c, 7), 51)
      BY <1>12, SMT DEF Quadrant1, Arith, ReservedArith
    <2>2. RegRow("and", 51, 7, 0) BY SMT DEF RegRow
    <2>3. Shown(Operation(MakeR(0, RegC(c, 2), RegC(c, 7), 7, RegC(c, 7), 51), 2))
          = Architecture!OfR("and", RegC(c, 7), RegC(c, 7), RegC(c, 2))
      BY <2>2, RegShown
    <2>10. ~(Group(c) < 2) BY <1>12, <1>3, <1>5, SMT
    <2>11. ~(Group(c) = 2) BY <1>12, <1>3, <1>5, SMT
    <2>12. Group(c) = 3 BY <1>12, <1>3, <1>5, SMT
    <2>4. Architecture!Meaning4(HalfBit(c))
          = Architecture!OfR(<<"sub", "xor", "or", "and", "subw", "addw">>[1 + Which(c)],
          Architecture!Short1(HalfBit(c)), Architecture!Short1(HalfBit(c)),
          Architecture!Short2(HalfBit(c)))
      BY <2>10, <2>11, <2>12, Zenon
        DEF Group, Which, Architecture!Meaning4, Architecture!CL, Architecture!CI,
            Architecture!CSS
    <2>19. Which(c) = 3 BY <1>12, <1>4, SMT
    <2>20. <<"sub", "xor", "or", "and", "subw", "addw">>[1 + Which(c)] = "and" BY <2>19, SMT
    <2>5. Architecture!OfR(<<"sub", "xor", "or", "and", "subw", "addw">>[1 + Which(c)],
          Architecture!Short1(HalfBit(c)), Architecture!Short1(HalfBit(c)),
          Architecture!Short2(HalfBit(c)))
      = Architecture!OfR("and", RegC(c, 7), RegC(c, 7), RegC(c, 2))
      BY <2>20, <1>1, Zenon
    <2> QED BY <2>1, <2>3, <2>4, <2>5, Zenon
  <1>13. CASE Cut(c, 10, 2) = 3 /\ Cut(c, 12, 1) = 1 /\ Cut(c, 5, 2) = 0
    <2>1. Quadrant1(c) = MakeR(32, RegC(c, 2), RegC(c, 7), 0, RegC(c, 7), 59)
      BY <1>13, SMT DEF Quadrant1, Arith, ReservedArith
    <2>2. RegRow("subw", 59, 0, 32) BY SMT DEF RegRow
    <2>3. Shown(Operation(MakeR(32, RegC(c, 2), RegC(c, 7), 0, RegC(c, 7), 59), 2))
          = Architecture!OfR("subw", RegC(c, 7), RegC(c, 7), RegC(c, 2))
      BY <2>2, RegShown
    <2>10. ~(Group(c) < 2) BY <1>13, <1>3, <1>5, SMT
    <2>11. ~(Group(c) = 2) BY <1>13, <1>3, <1>5, SMT
    <2>12. Group(c) = 3 BY <1>13, <1>3, <1>5, SMT
    <2>4. Architecture!Meaning4(HalfBit(c))
          = Architecture!OfR(<<"sub", "xor", "or", "and", "subw", "addw">>[1 + Which(c)],
          Architecture!Short1(HalfBit(c)), Architecture!Short1(HalfBit(c)),
          Architecture!Short2(HalfBit(c)))
      BY <2>10, <2>11, <2>12, Zenon
        DEF Group, Which, Architecture!Meaning4, Architecture!CL, Architecture!CI,
            Architecture!CSS
    <2>19. Which(c) = 4 BY <1>13, <1>4, SMT
    <2>20. <<"sub", "xor", "or", "and", "subw", "addw">>[1 + Which(c)] = "subw" BY <2>19, SMT
    <2>5. Architecture!OfR(<<"sub", "xor", "or", "and", "subw", "addw">>[1 + Which(c)],
          Architecture!Short1(HalfBit(c)), Architecture!Short1(HalfBit(c)),
          Architecture!Short2(HalfBit(c)))
      = Architecture!OfR("subw", RegC(c, 7), RegC(c, 7), RegC(c, 2))
      BY <2>20, <1>1, Zenon
    <2> QED BY <2>1, <2>3, <2>4, <2>5, Zenon
  <1>14. CASE Cut(c, 10, 2) = 3 /\ Cut(c, 12, 1) = 1 /\ Cut(c, 5, 2) = 1
    <2>1. Quadrant1(c) = MakeR(0, RegC(c, 2), RegC(c, 7), 0, RegC(c, 7), 59)
      BY <1>14, SMT DEF Quadrant1, Arith, ReservedArith
    <2>2. RegRow("addw", 59, 0, 0) BY SMT DEF RegRow
    <2>3. Shown(Operation(MakeR(0, RegC(c, 2), RegC(c, 7), 0, RegC(c, 7), 59), 2))
          = Architecture!OfR("addw", RegC(c, 7), RegC(c, 7), RegC(c, 2))
      BY <2>2, RegShown
    <2>10. ~(Group(c) < 2) BY <1>14, <1>3, <1>5, SMT
    <2>11. ~(Group(c) = 2) BY <1>14, <1>3, <1>5, SMT
    <2>12. Group(c) = 3 BY <1>14, <1>3, <1>5, SMT
    <2>4. Architecture!Meaning4(HalfBit(c))
          = Architecture!OfR(<<"sub", "xor", "or", "and", "subw", "addw">>[1 + Which(c)],
          Architecture!Short1(HalfBit(c)), Architecture!Short1(HalfBit(c)),
          Architecture!Short2(HalfBit(c)))
      BY <2>10, <2>11, <2>12, Zenon
        DEF Group, Which, Architecture!Meaning4, Architecture!CL, Architecture!CI,
            Architecture!CSS
    <2>19. Which(c) = 5 BY <1>14, <1>4, SMT
    <2>20. <<"sub", "xor", "or", "and", "subw", "addw">>[1 + Which(c)] = "addw" BY <2>19, SMT
    <2>5. Architecture!OfR(<<"sub", "xor", "or", "and", "subw", "addw">>[1 + Which(c)],
          Architecture!Short1(HalfBit(c)), Architecture!Short1(HalfBit(c)),
          Architecture!Short2(HalfBit(c)))
      = Architecture!OfR("addw", RegC(c, 7), RegC(c, 7), RegC(c, 2))
      BY <2>20, <1>1, Zenon
    <2> QED BY <2>1, <2>3, <2>4, <2>5, Zenon
  <1> QED
      BY <1>5, <1>6, <1>7, <1>8, <1>9, <1>10, <1>11, <1>12, <1>13, <1>14, SMT DEF ReservedArith

LEMMA Quadrant1Is ==
  ASSUME NEW c \in Nat, ~ReservedArith(c)
  PROVE  Shown(Operation(Quadrant1(c), 2)) = Architecture!Meaning1(HalfBit(c))
  <1>1. /\ Architecture!Column(HalfBit(c)) = Cut(c, 13, 3)
        /\ Architecture!Short1(HalfBit(c)) = RegC(c, 7)
           /\ Architecture!Short2(HalfBit(c)) = RegC(c, 2)
        /\ Architecture!Long1(HalfBit(c)) = RegF(c) /\ Architecture!Long2(HalfBit(c)) = Rs2F(c)
        /\ HalfBit(c)[12] = Cut(c, 12, 1)
    BY ShortFields
  <1>2. Cut(c, 13, 3) \in 0 .. 7 BY CutRange
  <1>3. CASE Cut(c, 13, 3) = 0 /\ RegF(c) # 0
    <2>1. Quadrant1(c) = MakeI(Imm6(c), RegF(c), 0, RegF(c), 19)
      BY <1>3, SMT DEF Quadrant1
    <2>2. PlainRow("addi", 19, 0) BY SMT DEF PlainRow
    <2>3. Shown(Operation(MakeI(Imm6(c), RegF(c), 0, RegF(c), 19), 2))
          = Architecture!OfI("addi", RegF(c), RegF(c), Imm6(c))
      BY <2>2, Imm6Range, PlainShown
    <2>10. Architecture!Column(HalfBit(c)) = 0 BY <1>3, <1>1, SMT
    <2>11. ~(Architecture!Column(HalfBit(c)) = 1) BY <1>3, <1>1, SMT
    <2>12. ~(Architecture!Column(HalfBit(c)) = 2) BY <1>3, <1>1, SMT
    <2>13. ~((Architecture!Column(HalfBit(c)) = 3 /\ Architecture!Long1(HalfBit(c)) = 2))
        BY <1>3, <1>1, SMT
    <2>14. ~((Architecture!Column(HalfBit(c)) = 3 /\ Architecture!Long1(HalfBit(c)) # 2))
        BY <1>3, <1>1, SMT
    <2>15. ~(Architecture!Column(HalfBit(c)) = 4) BY <1>3, <1>1, SMT
    <2>16. ~(Architecture!Column(HalfBit(c)) = 5) BY <1>3, <1>1, SMT
    <2>17. ~(Architecture!Column(HalfBit(c)) \in {6, 7}) BY <1>3, <1>1, SMT
    <2>4. Architecture!Meaning1(HalfBit(c))
          = Architecture!OfI("addi", Architecture!Long1(HalfBit(c)),
          Architecture!Long1(HalfBit(c)),
          IF Architecture!Long1(HalfBit(c))
          = 0 THEN 0 ELSE Architecture!SignedImm(HalfBit(c), Architecture!CI,
          Architecture!Down(5, 0)))
      BY <2>10, <2>11, <2>12, <2>13, <2>14, <2>15, <2>16, <2>17, Zenon
        DEF Architecture!Meaning1, Architecture!CL, Architecture!CI, Architecture!CSS
    <2>5. Architecture!OfI("addi", Architecture!Long1(HalfBit(c)),
          Architecture!Long1(HalfBit(c)),
          IF Architecture!Long1(HalfBit(c))
          = 0 THEN 0 ELSE Architecture!SignedImm(HalfBit(c), Architecture!CI,
          Architecture!Down(5, 0)))
      = Architecture!OfI("addi", RegF(c), RegF(c), Imm6(c))
      BY <1>1, <1>3, SixIs, Zenon DEF Architecture!CI
    <2> QED BY <2>1, <2>3, <2>4, <2>5, Zenon
  <1>4. CASE Cut(c, 13, 3) = 0 /\ RegF(c) = 0
    <2>1. Quadrant1(c) = MakeI(0, 0, 0, 0, 19)
      BY <1>4, SMT DEF Quadrant1
    <2>2. PlainRow("addi", 19, 0) BY SMT DEF PlainRow
    <2>3. Shown(Operation(MakeI(0, 0, 0, 0, 19), 2)) = Architecture!OfI("addi", 0, 0, 0)
      BY <2>2, ZeroImm, PlainShown
    <2>10. Architecture!Column(HalfBit(c)) = 0 BY <1>4, <1>1, SMT
    <2>11. ~(Architecture!Column(HalfBit(c)) = 1) BY <1>4, <1>1, SMT
    <2>12. ~(Architecture!Column(HalfBit(c)) = 2) BY <1>4, <1>1, SMT
    <2>13. ~((Architecture!Column(HalfBit(c)) = 3 /\ Architecture!Long1(HalfBit(c)) = 2))
        BY <1>4, <1>1, SMT
    <2>14. ~((Architecture!Column(HalfBit(c)) = 3 /\ Architecture!Long1(HalfBit(c)) # 2))
        BY <1>4, <1>1, SMT
    <2>15. ~(Architecture!Column(HalfBit(c)) = 4) BY <1>4, <1>1, SMT
    <2>16. ~(Architecture!Column(HalfBit(c)) = 5) BY <1>4, <1>1, SMT
    <2>17. ~(Architecture!Column(HalfBit(c)) \in {6, 7}) BY <1>4, <1>1, SMT
    <2>4. Architecture!Meaning1(HalfBit(c))
          = Architecture!OfI("addi", Architecture!Long1(HalfBit(c)),
          Architecture!Long1(HalfBit(c)),
          IF Architecture!Long1(HalfBit(c))
          = 0 THEN 0 ELSE Architecture!SignedImm(HalfBit(c), Architecture!CI,
          Architecture!Down(5, 0)))
      BY <2>10, <2>11, <2>12, <2>13, <2>14, <2>15, <2>16, <2>17, Zenon
        DEF Architecture!Meaning1, Architecture!CL, Architecture!CI, Architecture!CSS
    <2>5. Architecture!OfI("addi", Architecture!Long1(HalfBit(c)),
          Architecture!Long1(HalfBit(c)),
          IF Architecture!Long1(HalfBit(c))
          = 0 THEN 0 ELSE Architecture!SignedImm(HalfBit(c), Architecture!CI,
          Architecture!Down(5, 0)))
      = Architecture!OfI("addi", 0, 0, 0)
      BY <1>1, <1>4, Zenon
    <2> QED BY <2>1, <2>3, <2>4, <2>5, Zenon
  <1>5. CASE Cut(c, 13, 3) = 1
    <2>1. Quadrant1(c) = MakeI(Imm6(c), RegF(c), 0, RegF(c), 27)
      BY <1>5, SMT DEF Quadrant1
    <2>2. PlainRow("addiw", 27, 0) BY SMT DEF PlainRow
    <2>3. Shown(Operation(MakeI(Imm6(c), RegF(c), 0, RegF(c), 27), 2))
          = Architecture!OfI("addiw", RegF(c), RegF(c), Imm6(c))
      BY <2>2, Imm6Range, PlainShown
    <2>10. ~(Architecture!Column(HalfBit(c)) = 0) BY <1>5, <1>1, SMT
    <2>11. Architecture!Column(HalfBit(c)) = 1 BY <1>5, <1>1, SMT
    <2>12. ~(Architecture!Column(HalfBit(c)) = 2) BY <1>5, <1>1, SMT
    <2>13. ~((Architecture!Column(HalfBit(c)) = 3 /\ Architecture!Long1(HalfBit(c)) = 2))
        BY <1>5, <1>1, SMT
    <2>14. ~((Architecture!Column(HalfBit(c)) = 3 /\ Architecture!Long1(HalfBit(c)) # 2))
        BY <1>5, <1>1, SMT
    <2>15. ~(Architecture!Column(HalfBit(c)) = 4) BY <1>5, <1>1, SMT
    <2>16. ~(Architecture!Column(HalfBit(c)) = 5) BY <1>5, <1>1, SMT
    <2>17. ~(Architecture!Column(HalfBit(c)) \in {6, 7}) BY <1>5, <1>1, SMT
    <2>4. Architecture!Meaning1(HalfBit(c))
          = Architecture!OfI("addiw", Architecture!Long1(HalfBit(c)),
          Architecture!Long1(HalfBit(c)),
          Architecture!SignedImm(HalfBit(c), Architecture!CI, Architecture!Down(5, 0)))
      BY <2>10, <2>11, <2>12, <2>13, <2>14, <2>15, <2>16, <2>17, Zenon
        DEF Architecture!Meaning1, Architecture!CL, Architecture!CI, Architecture!CSS
    <2>5. Architecture!OfI("addiw", Architecture!Long1(HalfBit(c)),
          Architecture!Long1(HalfBit(c)),
          Architecture!SignedImm(HalfBit(c), Architecture!CI, Architecture!Down(5, 0)))
      = Architecture!OfI("addiw", RegF(c), RegF(c), Imm6(c))
      BY <1>1, SixIs, Zenon DEF Architecture!CI
    <2> QED BY <2>1, <2>3, <2>4, <2>5, Zenon
  <1>6. CASE Cut(c, 13, 3) = 2
    <2>1. Quadrant1(c) = MakeI(Imm6(c), 0, 0, RegF(c), 19)
      BY <1>6, SMT DEF Quadrant1
    <2>2. PlainRow("addi", 19, 0) BY SMT DEF PlainRow
    <2>3. Shown(Operation(MakeI(Imm6(c), 0, 0, RegF(c), 19), 2))
          = Architecture!OfI("addi", RegF(c), 0, Imm6(c))
      BY <2>2, Imm6Range, PlainShown
    <2>10. ~(Architecture!Column(HalfBit(c)) = 0) BY <1>6, <1>1, SMT
    <2>11. ~(Architecture!Column(HalfBit(c)) = 1) BY <1>6, <1>1, SMT
    <2>12. Architecture!Column(HalfBit(c)) = 2 BY <1>6, <1>1, SMT
    <2>13. ~((Architecture!Column(HalfBit(c)) = 3 /\ Architecture!Long1(HalfBit(c)) = 2))
        BY <1>6, <1>1, SMT
    <2>14. ~((Architecture!Column(HalfBit(c)) = 3 /\ Architecture!Long1(HalfBit(c)) # 2))
        BY <1>6, <1>1, SMT
    <2>15. ~(Architecture!Column(HalfBit(c)) = 4) BY <1>6, <1>1, SMT
    <2>16. ~(Architecture!Column(HalfBit(c)) = 5) BY <1>6, <1>1, SMT
    <2>17. ~(Architecture!Column(HalfBit(c)) \in {6, 7}) BY <1>6, <1>1, SMT
    <2>4. Architecture!Meaning1(HalfBit(c))
          = Architecture!OfI("addi", Architecture!Long1(HalfBit(c)), 0,
          Architecture!SignedImm(HalfBit(c), Architecture!CI, Architecture!Down(5, 0)))
      BY <2>10, <2>11, <2>12, <2>13, <2>14, <2>15, <2>16, <2>17, Zenon
        DEF Architecture!Meaning1, Architecture!CL, Architecture!CI, Architecture!CSS
    <2>5. Architecture!OfI("addi", Architecture!Long1(HalfBit(c)), 0,
          Architecture!SignedImm(HalfBit(c), Architecture!CI, Architecture!Down(5, 0)))
      = Architecture!OfI("addi", RegF(c), 0, Imm6(c))
      BY <1>1, SixIs, Zenon DEF Architecture!CI
    <2> QED BY <2>1, <2>3, <2>4, <2>5, Zenon
  <1>7. CASE Cut(c, 13, 3) = 3 /\ RegF(c) = 2
    <2>1. Quadrant1(c) = MakeI(ImmAddi16Sp(c), 2, 0, 2, 19)
      BY <1>7, SMT DEF Quadrant1
    <2>2. PlainRow("addi", 19, 0) BY SMT DEF PlainRow
    <2>3. Shown(Operation(MakeI(ImmAddi16Sp(c), 2, 0, 2, 19), 2))
          = Architecture!OfI("addi", 2, 2, ImmAddi16Sp(c))
      BY <2>2, ImmAddi16SpRange, PlainShown
    <2>10. ~(Architecture!Column(HalfBit(c)) = 0) BY <1>7, <1>1, SMT
    <2>11. ~(Architecture!Column(HalfBit(c)) = 1) BY <1>7, <1>1, SMT
    <2>12. ~(Architecture!Column(HalfBit(c)) = 2) BY <1>7, <1>1, SMT
    <2>13. (Architecture!Column(HalfBit(c)) = 3 /\ Architecture!Long1(HalfBit(c)) = 2)
        BY <1>7, <1>1, SMT
    <2>14. ~((Architecture!Column(HalfBit(c)) = 3 /\ Architecture!Long1(HalfBit(c)) # 2))
        BY <1>7, <1>1, SMT
    <2>15. ~(Architecture!Column(HalfBit(c)) = 4) BY <1>7, <1>1, SMT
    <2>16. ~(Architecture!Column(HalfBit(c)) = 5) BY <1>7, <1>1, SMT
    <2>17. ~(Architecture!Column(HalfBit(c)) \in {6, 7}) BY <1>7, <1>1, SMT
    <2>4. Architecture!Meaning1(HalfBit(c))
          = Architecture!OfI("addi", 2, 2,
          Architecture!SignedImm(HalfBit(c), Architecture!CI, <<9, 4, 6, 8, 7, 5>>))
      BY <2>10, <2>11, <2>12, <2>13, <2>14, <2>15, <2>16, <2>17, Zenon
        DEF Architecture!Meaning1, Architecture!CL, Architecture!CI, Architecture!CSS
    <2>5. Architecture!OfI("addi", 2, 2,
          Architecture!SignedImm(HalfBit(c), Architecture!CI, <<9, 4, 6, 8, 7, 5>>))
      = Architecture!OfI("addi", 2, 2, ImmAddi16Sp(c))
      BY SixteenIs, Zenon DEF Architecture!CI
    <2> QED BY <2>1, <2>3, <2>4, <2>5, Zenon
  <1>8. CASE Cut(c, 13, 3) = 3 /\ RegF(c) # 2
    <2>1. Quadrant1(c) = MakeU(UpperImm(c), RegF(c))
      BY <1>8, SMT DEF Quadrant1, UpperImm
    <2>3. Shown(Operation(MakeU(UpperImm(c), RegF(c)), 2))
          = Architecture!OfJ("lui", RegF(c), UpperImm(c))
      BY UpperImmRange, UpperShown
    <2>10. ~(Architecture!Column(HalfBit(c)) = 0) BY <1>8, <1>1, SMT
    <2>11. ~(Architecture!Column(HalfBit(c)) = 1) BY <1>8, <1>1, SMT
    <2>12. ~(Architecture!Column(HalfBit(c)) = 2) BY <1>8, <1>1, SMT
    <2>13. ~((Architecture!Column(HalfBit(c)) = 3 /\ Architecture!Long1(HalfBit(c)) = 2))
        BY <1>8, <1>1, SMT
    <2>14. (Architecture!Column(HalfBit(c)) = 3 /\ Architecture!Long1(HalfBit(c)) # 2)
        BY <1>8, <1>1, SMT
    <2>15. ~(Architecture!Column(HalfBit(c)) = 4) BY <1>8, <1>1, SMT
    <2>16. ~(Architecture!Column(HalfBit(c)) = 5) BY <1>8, <1>1, SMT
    <2>17. ~(Architecture!Column(HalfBit(c)) \in {6, 7}) BY <1>8, <1>1, SMT
    <2>4. Architecture!Meaning1(HalfBit(c))
          = Architecture!OfJ("lui", Architecture!Long1(HalfBit(c)),
          Architecture!SignedImm(HalfBit(c), Architecture!CI, Architecture!Down(17, 12)))
      BY <2>10, <2>11, <2>12, <2>13, <2>14, <2>15, <2>16, <2>17, Zenon
        DEF Architecture!Meaning1, Architecture!CL, Architecture!CI, Architecture!CSS
    <2>5. Architecture!OfJ("lui", Architecture!Long1(HalfBit(c)),
          Architecture!SignedImm(HalfBit(c), Architecture!CI, Architecture!Down(17, 12)))
      = Architecture!OfJ("lui", RegF(c), UpperImm(c))
      BY <1>1, UpperIs, Zenon DEF Architecture!CI
    <2> QED BY <2>1, <2>3, <2>4, <2>5, Zenon
  <1>9. CASE Cut(c, 13, 3) = 5
    <2>1. Quadrant1(c) = MakeJ(ImmJump(c))
      BY <1>9, SMT DEF Quadrant1
    <2>3. Shown(Operation(MakeJ(ImmJump(c)), 2)) = Architecture!OfJ("jal", 0, ImmJump(c))
      BY ImmJumpRange, JumpShown
    <2>10. ~(Architecture!Column(HalfBit(c)) = 0) BY <1>9, <1>1, SMT
    <2>11. ~(Architecture!Column(HalfBit(c)) = 1) BY <1>9, <1>1, SMT
    <2>12. ~(Architecture!Column(HalfBit(c)) = 2) BY <1>9, <1>1, SMT
    <2>13. ~((Architecture!Column(HalfBit(c)) = 3 /\ Architecture!Long1(HalfBit(c)) = 2))
        BY <1>9, <1>1, SMT
    <2>14. ~((Architecture!Column(HalfBit(c)) = 3 /\ Architecture!Long1(HalfBit(c)) # 2))
        BY <1>9, <1>1, SMT
    <2>15. ~(Architecture!Column(HalfBit(c)) = 4) BY <1>9, <1>1, SMT
    <2>16. Architecture!Column(HalfBit(c)) = 5 BY <1>9, <1>1, SMT
    <2>17. ~(Architecture!Column(HalfBit(c)) \in {6, 7}) BY <1>9, <1>1, SMT
    <2>4. Architecture!Meaning1(HalfBit(c))
          = Architecture!OfJ("jal", 0,
          Architecture!SignedImm(HalfBit(c), Architecture!Down(12, 2),
          <<11, 4, 9, 8, 10, 6, 7, 3, 2, 1, 5>>))
      BY <2>10, <2>11, <2>12, <2>13, <2>14, <2>15, <2>16, <2>17, Zenon
        DEF Architecture!Meaning1, Architecture!CL, Architecture!CI, Architecture!CSS
    <2>5. Architecture!OfJ("jal", 0,
          Architecture!SignedImm(HalfBit(c), Architecture!Down(12, 2),
          <<11, 4, 9, 8, 10, 6, 7, 3, 2, 1, 5>>))
      = Architecture!OfJ("jal", 0, ImmJump(c))
      BY OfJumpIs, Zenon
    <2> QED BY <2>1, <2>3, <2>4, <2>5, Zenon
  <1>10. CASE Cut(c, 13, 3) = 6
    <2>1. Quadrant1(c) = MakeB(ImmBranch(c), RegC(c, 7), 0)
      BY <1>10, SMT DEF Quadrant1
    <2>6. PICK n : n = "beq" OBVIOUS
    <2>7. n = IF 0 = 0 THEN "beq" ELSE "bne" BY <2>6
    <2>8. 0 \in 0 .. 1 OBVIOUS
    <2>9. Shown(Operation(MakeB(ImmBranch(c), RegC(c, 7), 0), 2))
          = Architecture!OfS(n, RegC(c, 7), 0, ImmBranch(c))
      BY <2>7, <2>8, ImmBranchRange, BranchShown
    <2>3. Shown(Operation(MakeB(ImmBranch(c), RegC(c, 7), 0), 2))
          = Architecture!OfS("beq", RegC(c, 7), 0, ImmBranch(c))
      BY <2>6, <2>9, Zenon
    <2>10. ~(Architecture!Column(HalfBit(c)) = 0) BY <1>10, <1>1, SMT
    <2>11. ~(Architecture!Column(HalfBit(c)) = 1) BY <1>10, <1>1, SMT
    <2>12. ~(Architecture!Column(HalfBit(c)) = 2) BY <1>10, <1>1, SMT
    <2>13. ~((Architecture!Column(HalfBit(c)) = 3 /\ Architecture!Long1(HalfBit(c)) = 2))
        BY <1>10, <1>1, SMT
    <2>14. ~((Architecture!Column(HalfBit(c)) = 3 /\ Architecture!Long1(HalfBit(c)) # 2))
        BY <1>10, <1>1, SMT
    <2>15. ~(Architecture!Column(HalfBit(c)) = 4) BY <1>10, <1>1, SMT
    <2>16. ~(Architecture!Column(HalfBit(c)) = 5) BY <1>10, <1>1, SMT
    <2>17. Architecture!Column(HalfBit(c)) \in {6, 7} BY <1>10, <1>1, SMT
    <2>4. Architecture!Meaning1(HalfBit(c))
          = Architecture!OfS(<<"beq", "bne">>[Architecture!Column(HalfBit(c)) - 5],
          Architecture!Short1(HalfBit(c)), 0,
          Architecture!SignedImm(HalfBit(c), <<12, 11, 10>> \o Architecture!Down(6, 2),
          <<8, 4, 3, 7, 6, 2, 1, 5>>))
      BY <2>10, <2>11, <2>12, <2>13, <2>14, <2>15, <2>16, <2>17, Zenon
        DEF Architecture!Meaning1, Architecture!CL, Architecture!CI, Architecture!CSS
    <2>20. <<"beq", "bne">>[Architecture!Column(HalfBit(c)) - 5] = "beq" BY <1>10, <1>1, SMT
    <2>5. Architecture!OfS(<<"beq", "bne">>[Architecture!Column(HalfBit(c)) - 5],
          Architecture!Short1(HalfBit(c)), 0,
          Architecture!SignedImm(HalfBit(c), <<12, 11, 10>> \o Architecture!Down(6, 2),
          <<8, 4, 3, 7, 6, 2, 1, 5>>))
      = Architecture!OfS("beq", RegC(c, 7), 0, ImmBranch(c))
      BY <1>1, <2>20, OfBranchIs, Zenon
    <2> QED BY <2>1, <2>3, <2>4, <2>5, Zenon
  <1>11. CASE Cut(c, 13, 3) = 7
    <2>1. Quadrant1(c) = MakeB(ImmBranch(c), RegC(c, 7), 1)
      BY <1>11, SMT DEF Quadrant1
    <2>6. PICK n : n = "bne" OBVIOUS
    <2>7. n = IF 1 = 0 THEN "beq" ELSE "bne" BY <2>6
    <2>8. 1 \in 0 .. 1 OBVIOUS
    <2>9. Shown(Operation(MakeB(ImmBranch(c), RegC(c, 7), 1), 2))
          = Architecture!OfS(n, RegC(c, 7), 0, ImmBranch(c))
      BY <2>7, <2>8, ImmBranchRange, BranchShown
    <2>3. Shown(Operation(MakeB(ImmBranch(c), RegC(c, 7), 1), 2))
          = Architecture!OfS("bne", RegC(c, 7), 0, ImmBranch(c))
      BY <2>6, <2>9, Zenon
    <2>10. ~(Architecture!Column(HalfBit(c)) = 0) BY <1>11, <1>1, SMT
    <2>11. ~(Architecture!Column(HalfBit(c)) = 1) BY <1>11, <1>1, SMT
    <2>12. ~(Architecture!Column(HalfBit(c)) = 2) BY <1>11, <1>1, SMT
    <2>13. ~((Architecture!Column(HalfBit(c)) = 3 /\ Architecture!Long1(HalfBit(c)) = 2))
        BY <1>11, <1>1, SMT
    <2>14. ~((Architecture!Column(HalfBit(c)) = 3 /\ Architecture!Long1(HalfBit(c)) # 2))
        BY <1>11, <1>1, SMT
    <2>15. ~(Architecture!Column(HalfBit(c)) = 4) BY <1>11, <1>1, SMT
    <2>16. ~(Architecture!Column(HalfBit(c)) = 5) BY <1>11, <1>1, SMT
    <2>17. Architecture!Column(HalfBit(c)) \in {6, 7} BY <1>11, <1>1, SMT
    <2>4. Architecture!Meaning1(HalfBit(c))
          = Architecture!OfS(<<"beq", "bne">>[Architecture!Column(HalfBit(c)) - 5],
          Architecture!Short1(HalfBit(c)), 0,
          Architecture!SignedImm(HalfBit(c), <<12, 11, 10>> \o Architecture!Down(6, 2),
          <<8, 4, 3, 7, 6, 2, 1, 5>>))
      BY <2>10, <2>11, <2>12, <2>13, <2>14, <2>15, <2>16, <2>17, Zenon
        DEF Architecture!Meaning1, Architecture!CL, Architecture!CI, Architecture!CSS
    <2>20. <<"beq", "bne">>[Architecture!Column(HalfBit(c)) - 5] = "bne" BY <1>11, <1>1, SMT
    <2>5. Architecture!OfS(<<"beq", "bne">>[Architecture!Column(HalfBit(c)) - 5],
          Architecture!Short1(HalfBit(c)), 0,
          Architecture!SignedImm(HalfBit(c), <<12, 11, 10>> \o Architecture!Down(6, 2),
          <<8, 4, 3, 7, 6, 2, 1, 5>>))
      = Architecture!OfS("bne", RegC(c, 7), 0, ImmBranch(c))
      BY <1>1, <2>20, OfBranchIs, Zenon
    <2> QED BY <2>1, <2>3, <2>4, <2>5, Zenon
  <1>12. CASE Cut(c, 13, 3) = 4
    <2>10. ~(Architecture!Column(HalfBit(c)) = 0) BY <1>12, <1>1, SMT
    <2>11. ~(Architecture!Column(HalfBit(c)) = 1) BY <1>12, <1>1, SMT
    <2>12. ~(Architecture!Column(HalfBit(c)) = 2) BY <1>12, <1>1, SMT
    <2>13. ~((Architecture!Column(HalfBit(c)) = 3 /\ Architecture!Long1(HalfBit(c)) = 2))
        BY <1>12, <1>1, SMT
    <2>14. ~((Architecture!Column(HalfBit(c)) = 3 /\ Architecture!Long1(HalfBit(c)) # 2))
        BY <1>12, <1>1, SMT
    <2>15. Architecture!Column(HalfBit(c)) = 4 BY <1>12, <1>1, SMT
    <2>16. ~(Architecture!Column(HalfBit(c)) = 5) BY <1>12, <1>1, SMT
    <2>17. ~(Architecture!Column(HalfBit(c)) \in {6, 7}) BY <1>12, <1>1, SMT
    <2>1. Architecture!Meaning1(HalfBit(c)) = Architecture!Meaning4(HalfBit(c))
      BY <2>10, <2>11, <2>12, <2>13, <2>14, <2>15, <2>16, <2>17, Zenon DEF Architecture!Meaning1
    <2> QED BY <1>12, <2>1, Column4Is, Zenon
  <1> QED BY <1>2, <1>3, <1>4, <1>5, <1>6, <1>7, <1>8, <1>9, <1>10, <1>11, <1>12, SMT

LEMMA Quadrant2Is ==
  ASSUME NEW c \in Nat
  PROVE  Shown(Operation(Quadrant2(c), 2)) = Architecture!Meaning2(HalfBit(c))
  <1>1. /\ Architecture!Column(HalfBit(c)) = Cut(c, 13, 3)
        /\ Architecture!Short1(HalfBit(c)) = RegC(c, 7)
           /\ Architecture!Short2(HalfBit(c)) = RegC(c, 2)
        /\ Architecture!Long1(HalfBit(c)) = RegF(c) /\ Architecture!Long2(HalfBit(c)) = Rs2F(c)
        /\ HalfBit(c)[12] = Cut(c, 12, 1)
    BY ShortFields
  <1>2. Cut(c, 13, 3) \in 0 .. 7 BY CutRange
  <1>3. Cut(c, 12, 1) \in 0 .. 1 BY CutRange
  <1>4. CASE Cut(c, 13, 3) = 0
    <2>2. Shamt6(c) \in 0 .. 63 BY Shamt6Range
    <2>1. Quadrant2(c) = MakeI(1024 * 0 + Shamt6(c), RegF(c), 1, RegF(c), 19)
      BY <1>4, <2>2, SMT DEF Quadrant2
    <2>6. PICK n : n = "slli" OBVIOUS
    <2>7. n = IF 0 = 1 THEN "srai" ELSE IF 1 = 1 THEN "slli" ELSE "srli" BY <2>6
    <2>8. 0 \in 0 .. 1 /\ 1 \in {1, 5} /\ (0 = 1 => 1 = 5) OBVIOUS
    <2>9. Shown(Operation(MakeI(1024 * 0 + Shamt6(c), RegF(c), 1, RegF(c), 19), 2))
          = Architecture!OfI(n, RegF(c), RegF(c), Shamt6(c))
      BY <2>2, <2>7, <2>8, ShiftShown
    <2>3. Shown(Operation(MakeI(1024 * 0 + Shamt6(c), RegF(c), 1, RegF(c), 19), 2))
          = Architecture!OfI("slli", RegF(c), RegF(c), Shamt6(c))
      BY <2>6, <2>9, Zenon
    <2>10. Architecture!Column(HalfBit(c)) = 0 BY <1>4, <1>1, SMT
    <2>11. ~(Architecture!Column(HalfBit(c)) = 1) BY <1>4, <1>1, SMT
    <2>12. ~(Architecture!Column(HalfBit(c)) = 2) BY <1>4, <1>1, SMT
    <2>13. ~(Architecture!Column(HalfBit(c)) = 3) BY <1>4, <1>1, SMT
    <2>14. ~((Architecture!Column(HalfBit(c)) = 4 /\ Architecture!Long2(HalfBit(c)) = 0
          /\ HalfBit(c)[12] = 0)) BY <1>4, <1>1, SMT
    <2>15. ~((Architecture!Column(HalfBit(c)) = 4 /\ Architecture!Long2(HalfBit(c)) = 0
          /\ HalfBit(c)[12] = 1)) BY <1>4, <1>1, SMT
    <2>16. ~((Architecture!Column(HalfBit(c)) = 4 /\ Architecture!Long2(HalfBit(c)) # 0))
        BY <1>4, <1>1, SMT
    <2>17. ~(Architecture!Column(HalfBit(c)) = 5) BY <1>4, <1>1, SMT
    <2>18. ~(Architecture!Column(HalfBit(c)) = 6) BY <1>4, <1>1, SMT
    <2>19. ~(Architecture!Column(HalfBit(c)) = 7) BY <1>4, <1>1, SMT
    <2>4. Architecture!Meaning2(HalfBit(c))
          = Architecture!OfI("slli", Architecture!Long1(HalfBit(c)),
          Architecture!Long1(HalfBit(c)),
          Architecture!Unsigned(HalfBit(c), Architecture!CI, Architecture!Down(5, 0)))
      BY <2>10, <2>11, <2>12, <2>13, <2>14, <2>15, <2>16, <2>17, <2>18, <2>19, Zenon
        DEF Architecture!Meaning2, Architecture!CL, Architecture!CI, Architecture!CSS
    <2>5. Architecture!OfI("slli", Architecture!Long1(HalfBit(c)),
          Architecture!Long1(HalfBit(c)),
          Architecture!Unsigned(HalfBit(c), Architecture!CI, Architecture!Down(5, 0)))
      = Architecture!OfI("slli", RegF(c), RegF(c), Shamt6(c))
      BY <1>1, AmountIs, Zenon DEF Architecture!CI
    <2> QED BY <2>1, <2>3, <2>4, <2>5, Zenon
  <1>5. CASE Cut(c, 13, 3) = 1
    <2>1. Quadrant2(c) = MakeI(ImmDoubleSp(c), 2, 3, RegF(c), 7)
      BY <1>5, SMT DEF Quadrant2
    <2>2. PlainRow("fld", 7, 3) BY SMT DEF PlainRow
    <2>3. Shown(Operation(MakeI(ImmDoubleSp(c), 2, 3, RegF(c), 7), 2))
          = Architecture!OfI("fld", RegF(c), 2, ImmDoubleSp(c))
      BY <2>2, ImmDoubleSpRange, PlainShown
    <2>10. ~(Architecture!Column(HalfBit(c)) = 0) BY <1>5, <1>1, SMT
    <2>11. Architecture!Column(HalfBit(c)) = 1 BY <1>5, <1>1, SMT
    <2>12. ~(Architecture!Column(HalfBit(c)) = 2) BY <1>5, <1>1, SMT
    <2>13. ~(Architecture!Column(HalfBit(c)) = 3) BY <1>5, <1>1, SMT
    <2>14. ~((Architecture!Column(HalfBit(c)) = 4 /\ Architecture!Long2(HalfBit(c)) = 0
          /\ HalfBit(c)[12] = 0)) BY <1>5, <1>1, SMT
    <2>15. ~((Architecture!Column(HalfBit(c)) = 4 /\ Architecture!Long2(HalfBit(c)) = 0
          /\ HalfBit(c)[12] = 1)) BY <1>5, <1>1, SMT
    <2>16. ~((Architecture!Column(HalfBit(c)) = 4 /\ Architecture!Long2(HalfBit(c)) # 0))
        BY <1>5, <1>1, SMT
    <2>17. ~(Architecture!Column(HalfBit(c)) = 5) BY <1>5, <1>1, SMT
    <2>18. ~(Architecture!Column(HalfBit(c)) = 6) BY <1>5, <1>1, SMT
    <2>19. ~(Architecture!Column(HalfBit(c)) = 7) BY <1>5, <1>1, SMT
    <2>4. Architecture!Meaning2(HalfBit(c))
          = Architecture!OfI("fld", Architecture!Long1(HalfBit(c)), 2,
          Architecture!Unsigned(HalfBit(c), Architecture!CI, <<5, 4, 3, 8, 7, 6>>))
      BY <2>10, <2>11, <2>12, <2>13, <2>14, <2>15, <2>16, <2>17, <2>18, <2>19, Zenon
        DEF Architecture!Meaning2, Architecture!CL, Architecture!CI, Architecture!CSS
    <2>5. Architecture!OfI("fld", Architecture!Long1(HalfBit(c)), 2,
          Architecture!Unsigned(HalfBit(c), Architecture!CI, <<5, 4, 3, 8, 7, 6>>))
      = Architecture!OfI("fld", RegF(c), 2, ImmDoubleSp(c))
      BY <1>1, DoubleSpIs, Zenon DEF Architecture!CI
    <2> QED BY <2>1, <2>3, <2>4, <2>5, Zenon
  <1>6. CASE Cut(c, 13, 3) = 2
    <2>1. Quadrant2(c) = MakeI(WordSpImm(c), 2, 2, RegF(c), 3)
      BY <1>6, SMT DEF Quadrant2, WordSpImm
    <2>2. PlainRow("load", 3, 2) BY SMT DEF PlainRow
    <2>3. Shown(Operation(MakeI(WordSpImm(c), 2, 2, RegF(c), 3), 2))
          = Architecture!OfI("load", RegF(c), 2, WordSpImm(c))
      BY <2>2, WordSpImmRange, PlainShown
    <2>10. ~(Architecture!Column(HalfBit(c)) = 0) BY <1>6, <1>1, SMT
    <2>11. ~(Architecture!Column(HalfBit(c)) = 1) BY <1>6, <1>1, SMT
    <2>12. Architecture!Column(HalfBit(c)) = 2 BY <1>6, <1>1, SMT
    <2>13. ~(Architecture!Column(HalfBit(c)) = 3) BY <1>6, <1>1, SMT
    <2>14. ~((Architecture!Column(HalfBit(c)) = 4 /\ Architecture!Long2(HalfBit(c)) = 0
          /\ HalfBit(c)[12] = 0)) BY <1>6, <1>1, SMT
    <2>15. ~((Architecture!Column(HalfBit(c)) = 4 /\ Architecture!Long2(HalfBit(c)) = 0
          /\ HalfBit(c)[12] = 1)) BY <1>6, <1>1, SMT
    <2>16. ~((Architecture!Column(HalfBit(c)) = 4 /\ Architecture!Long2(HalfBit(c)) # 0))
        BY <1>6, <1>1, SMT
    <2>17. ~(Architecture!Column(HalfBit(c)) = 5) BY <1>6, <1>1, SMT
    <2>18. ~(Architecture!Column(HalfBit(c)) = 6) BY <1>6, <1>1, SMT
    <2>19. ~(Architecture!Column(HalfBit(c)) = 7) BY <1>6, <1>1, SMT
    <2>4. Architecture!Meaning2(HalfBit(c))
          = Architecture!OfI("load", Architecture!Long1(HalfBit(c)), 2,
          Architecture!Unsigned(HalfBit(c), Architecture!CI, <<5, 4, 3, 2, 7, 6>>))
      BY <2>10, <2>11, <2>12, <2>13, <2>14, <2>15, <2>16, <2>17, <2>18, <2>19, Zenon
        DEF Architecture!Meaning2, Architecture!CL, Architecture!CI, Architecture!CSS
    <2>5. Architecture!OfI("load", Architecture!Long1(HalfBit(c)), 2,
          Architecture!Unsigned(HalfBit(c), Architecture!CI, <<5, 4, 3, 2, 7, 6>>))
      = Architecture!OfI("load", RegF(c), 2, WordSpImm(c))
      BY <1>1, WordSpIs, Zenon DEF Architecture!CI
    <2> QED BY <2>1, <2>3, <2>4, <2>5, Zenon
  <1>7. CASE Cut(c, 13, 3) = 3
    <2>1. Quadrant2(c) = MakeI(ImmDoubleSp(c), 2, 3, RegF(c), 3)
      BY <1>7, SMT DEF Quadrant2
    <2>2. PlainRow("load", 3, 3) BY SMT DEF PlainRow
    <2>3. Shown(Operation(MakeI(ImmDoubleSp(c), 2, 3, RegF(c), 3), 2))
          = Architecture!OfI("load", RegF(c), 2, ImmDoubleSp(c))
      BY <2>2, ImmDoubleSpRange, PlainShown
    <2>10. ~(Architecture!Column(HalfBit(c)) = 0) BY <1>7, <1>1, SMT
    <2>11. ~(Architecture!Column(HalfBit(c)) = 1) BY <1>7, <1>1, SMT
    <2>12. ~(Architecture!Column(HalfBit(c)) = 2) BY <1>7, <1>1, SMT
    <2>13. Architecture!Column(HalfBit(c)) = 3 BY <1>7, <1>1, SMT
    <2>14. ~((Architecture!Column(HalfBit(c)) = 4 /\ Architecture!Long2(HalfBit(c)) = 0
          /\ HalfBit(c)[12] = 0)) BY <1>7, <1>1, SMT
    <2>15. ~((Architecture!Column(HalfBit(c)) = 4 /\ Architecture!Long2(HalfBit(c)) = 0
          /\ HalfBit(c)[12] = 1)) BY <1>7, <1>1, SMT
    <2>16. ~((Architecture!Column(HalfBit(c)) = 4 /\ Architecture!Long2(HalfBit(c)) # 0))
        BY <1>7, <1>1, SMT
    <2>17. ~(Architecture!Column(HalfBit(c)) = 5) BY <1>7, <1>1, SMT
    <2>18. ~(Architecture!Column(HalfBit(c)) = 6) BY <1>7, <1>1, SMT
    <2>19. ~(Architecture!Column(HalfBit(c)) = 7) BY <1>7, <1>1, SMT
    <2>4. Architecture!Meaning2(HalfBit(c))
          = Architecture!OfI("load", Architecture!Long1(HalfBit(c)), 2,
          Architecture!Unsigned(HalfBit(c), Architecture!CI, <<5, 4, 3, 8, 7, 6>>))
      BY <2>10, <2>11, <2>12, <2>13, <2>14, <2>15, <2>16, <2>17, <2>18, <2>19, Zenon
        DEF Architecture!Meaning2, Architecture!CL, Architecture!CI, Architecture!CSS
    <2>5. Architecture!OfI("load", Architecture!Long1(HalfBit(c)), 2,
          Architecture!Unsigned(HalfBit(c), Architecture!CI, <<5, 4, 3, 8, 7, 6>>))
      = Architecture!OfI("load", RegF(c), 2, ImmDoubleSp(c))
      BY <1>1, DoubleSpIs, Zenon DEF Architecture!CI
    <2> QED BY <2>1, <2>3, <2>4, <2>5, Zenon
  <1>8. CASE Cut(c, 13, 3) = 4 /\ Rs2F(c) = 0 /\ Cut(c, 12, 1) = 0
    <2>1. Quadrant2(c) = MakeI(0, RegF(c), 0, 0, 103)
      BY <1>8, SMT DEF Quadrant2, Moves
    <2>2. PlainRow("jalr", 103, 0) BY SMT DEF PlainRow
    <2>3. Shown(Operation(MakeI(0, RegF(c), 0, 0, 103), 2))
          = Architecture!OfI("jalr", 0, RegF(c), 0)
      BY <2>2, ZeroImm, PlainShown
    <2>10. ~(Architecture!Column(HalfBit(c)) = 0) BY <1>8, <1>1, SMT
    <2>11. ~(Architecture!Column(HalfBit(c)) = 1) BY <1>8, <1>1, SMT
    <2>12. ~(Architecture!Column(HalfBit(c)) = 2) BY <1>8, <1>1, SMT
    <2>13. ~(Architecture!Column(HalfBit(c)) = 3) BY <1>8, <1>1, SMT
    <2>14. (Architecture!Column(HalfBit(c)) = 4 /\ Architecture!Long2(HalfBit(c)) = 0
          /\ HalfBit(c)[12] = 0) BY <1>8, <1>1, SMT
    <2>15. ~((Architecture!Column(HalfBit(c)) = 4 /\ Architecture!Long2(HalfBit(c)) = 0
          /\ HalfBit(c)[12] = 1)) BY <1>8, <1>1, SMT
    <2>16. ~((Architecture!Column(HalfBit(c)) = 4 /\ Architecture!Long2(HalfBit(c)) # 0))
        BY <1>8, <1>1, SMT
    <2>17. ~(Architecture!Column(HalfBit(c)) = 5) BY <1>8, <1>1, SMT
    <2>18. ~(Architecture!Column(HalfBit(c)) = 6) BY <1>8, <1>1, SMT
    <2>19. ~(Architecture!Column(HalfBit(c)) = 7) BY <1>8, <1>1, SMT
    <2>4. Architecture!Meaning2(HalfBit(c))
          = Architecture!OfI("jalr", 0, Architecture!Long1(HalfBit(c)), 0)
      BY <2>10, <2>11, <2>12, <2>13, <2>14, <2>15, <2>16, <2>17, <2>18, <2>19, Zenon
        DEF Architecture!Meaning2, Architecture!CL, Architecture!CI, Architecture!CSS
    <2>5. Architecture!OfI("jalr", 0, Architecture!Long1(HalfBit(c)), 0)
      = Architecture!OfI("jalr", 0, RegF(c), 0)
      BY <1>1, Zenon
    <2> QED BY <2>1, <2>3, <2>4, <2>5, Zenon
  <1>9. CASE Cut(c, 13, 3) = 4 /\ Rs2F(c) = 0 /\ Cut(c, 12, 1) = 1 /\ RegF(c) = 0
    <2>1. Quadrant2(c) = MakeI(1, 0, 0, 0, 115)
      BY <1>9, SMT DEF Quadrant2, Moves
    <2>3. Shown(Operation(MakeI(1, 0, 0, 0, 115), 2))
          = Architecture!Inst("system", 0, 0, 0, 1, 2)
      BY BreakShown
    <2>10. ~(Architecture!Column(HalfBit(c)) = 0) BY <1>9, <1>1, SMT
    <2>11. ~(Architecture!Column(HalfBit(c)) = 1) BY <1>9, <1>1, SMT
    <2>12. ~(Architecture!Column(HalfBit(c)) = 2) BY <1>9, <1>1, SMT
    <2>13. ~(Architecture!Column(HalfBit(c)) = 3) BY <1>9, <1>1, SMT
    <2>14. ~((Architecture!Column(HalfBit(c)) = 4 /\ Architecture!Long2(HalfBit(c)) = 0
          /\ HalfBit(c)[12] = 0)) BY <1>9, <1>1, SMT
    <2>15. (Architecture!Column(HalfBit(c)) = 4 /\ Architecture!Long2(HalfBit(c)) = 0
          /\ HalfBit(c)[12] = 1) BY <1>9, <1>1, SMT
    <2>16. ~((Architecture!Column(HalfBit(c)) = 4 /\ Architecture!Long2(HalfBit(c)) # 0))
        BY <1>9, <1>1, SMT
    <2>17. ~(Architecture!Column(HalfBit(c)) = 5) BY <1>9, <1>1, SMT
    <2>18. ~(Architecture!Column(HalfBit(c)) = 6) BY <1>9, <1>1, SMT
    <2>19. ~(Architecture!Column(HalfBit(c)) = 7) BY <1>9, <1>1, SMT
    <2>4. Architecture!Meaning2(HalfBit(c))
          = (IF Architecture!Long1(HalfBit(c))
          = 0 THEN Architecture!Inst("system", 0, 0, 0, 1, 2) ELSE Architecture!OfI("jalr", 1,
          Architecture!Long1(HalfBit(c)), 0))
      BY <2>10, <2>11, <2>12, <2>13, <2>14, <2>15, <2>16, <2>17, <2>18, <2>19, Zenon
        DEF Architecture!Meaning2, Architecture!CL, Architecture!CI, Architecture!CSS
    <2>5. (IF Architecture!Long1(HalfBit(c))
          = 0 THEN Architecture!Inst("system", 0, 0, 0, 1, 2) ELSE Architecture!OfI("jalr", 1,
          Architecture!Long1(HalfBit(c)), 0))
      = Architecture!Inst("system", 0, 0, 0, 1, 2)
      BY <1>1, <1>9, Zenon
    <2> QED BY <2>1, <2>3, <2>4, <2>5, Zenon
  <1>10. CASE Cut(c, 13, 3) = 4 /\ Rs2F(c) = 0 /\ Cut(c, 12, 1) = 1 /\ RegF(c) # 0
    <2>1. Quadrant2(c) = MakeI(0, RegF(c), 0, 1, 103)
      BY <1>10, SMT DEF Quadrant2, Moves
    <2>2. PlainRow("jalr", 103, 0) BY SMT DEF PlainRow
    <2>3. Shown(Operation(MakeI(0, RegF(c), 0, 1, 103), 2))
          = Architecture!OfI("jalr", 1, RegF(c), 0)
      BY <2>2, ZeroImm, PlainShown
    <2>10. ~(Architecture!Column(HalfBit(c)) = 0) BY <1>10, <1>1, SMT
    <2>11. ~(Architecture!Column(HalfBit(c)) = 1) BY <1>10, <1>1, SMT
    <2>12. ~(Architecture!Column(HalfBit(c)) = 2) BY <1>10, <1>1, SMT
    <2>13. ~(Architecture!Column(HalfBit(c)) = 3) BY <1>10, <1>1, SMT
    <2>14. ~((Architecture!Column(HalfBit(c)) = 4 /\ Architecture!Long2(HalfBit(c)) = 0
          /\ HalfBit(c)[12] = 0)) BY <1>10, <1>1, SMT
    <2>15. (Architecture!Column(HalfBit(c)) = 4 /\ Architecture!Long2(HalfBit(c)) = 0
          /\ HalfBit(c)[12] = 1) BY <1>10, <1>1, SMT
    <2>16. ~((Architecture!Column(HalfBit(c)) = 4 /\ Architecture!Long2(HalfBit(c)) # 0))
        BY <1>10, <1>1, SMT
    <2>17. ~(Architecture!Column(HalfBit(c)) = 5) BY <1>10, <1>1, SMT
    <2>18. ~(Architecture!Column(HalfBit(c)) = 6) BY <1>10, <1>1, SMT
    <2>19. ~(Architecture!Column(HalfBit(c)) = 7) BY <1>10, <1>1, SMT
    <2>4. Architecture!Meaning2(HalfBit(c))
          = (IF Architecture!Long1(HalfBit(c))
          = 0 THEN Architecture!Inst("system", 0, 0, 0, 1, 2) ELSE Architecture!OfI("jalr", 1,
          Architecture!Long1(HalfBit(c)), 0))
      BY <2>10, <2>11, <2>12, <2>13, <2>14, <2>15, <2>16, <2>17, <2>18, <2>19, Zenon
        DEF Architecture!Meaning2, Architecture!CL, Architecture!CI, Architecture!CSS
    <2>5. (IF Architecture!Long1(HalfBit(c))
          = 0 THEN Architecture!Inst("system", 0, 0, 0, 1, 2) ELSE Architecture!OfI("jalr", 1,
          Architecture!Long1(HalfBit(c)), 0))
      = Architecture!OfI("jalr", 1, RegF(c), 0)
      BY <1>1, <1>10, Zenon
    <2> QED BY <2>1, <2>3, <2>4, <2>5, Zenon
  <1>11. CASE Cut(c, 13, 3) = 4 /\ Rs2F(c) # 0 /\ Cut(c, 12, 1) = 0
    <2>1. Quadrant2(c) = MakeR(0, Rs2F(c), 0, 0, RegF(c), 51)
      BY <1>11, SMT DEF Quadrant2, Moves
    <2>2. RegRow("add", 51, 0, 0) BY SMT DEF RegRow
    <2>3. Shown(Operation(MakeR(0, Rs2F(c), 0, 0, RegF(c), 51), 2))
          = Architecture!OfR("add", RegF(c), 0, Rs2F(c))
      BY <2>2, RegShown
    <2>10. ~(Architecture!Column(HalfBit(c)) = 0) BY <1>11, <1>1, SMT
    <2>11. ~(Architecture!Column(HalfBit(c)) = 1) BY <1>11, <1>1, SMT
    <2>12. ~(Architecture!Column(HalfBit(c)) = 2) BY <1>11, <1>1, SMT
    <2>13. ~(Architecture!Column(HalfBit(c)) = 3) BY <1>11, <1>1, SMT
    <2>14. ~((Architecture!Column(HalfBit(c)) = 4 /\ Architecture!Long2(HalfBit(c)) = 0
          /\ HalfBit(c)[12] = 0)) BY <1>11, <1>1, SMT
    <2>15. ~((Architecture!Column(HalfBit(c)) = 4 /\ Architecture!Long2(HalfBit(c)) = 0
          /\ HalfBit(c)[12] = 1)) BY <1>11, <1>1, SMT
    <2>16. (Architecture!Column(HalfBit(c)) = 4 /\ Architecture!Long2(HalfBit(c)) # 0)
        BY <1>11, <1>1, SMT
    <2>17. ~(Architecture!Column(HalfBit(c)) = 5) BY <1>11, <1>1, SMT
    <2>18. ~(Architecture!Column(HalfBit(c)) = 6) BY <1>11, <1>1, SMT
    <2>19. ~(Architecture!Column(HalfBit(c)) = 7) BY <1>11, <1>1, SMT
    <2>4. Architecture!Meaning2(HalfBit(c))
          = Architecture!OfR("add", Architecture!Long1(HalfBit(c)),
          IF HalfBit(c)[12] = 1 THEN Architecture!Long1(HalfBit(c)) ELSE 0,
          Architecture!Long2(HalfBit(c)))
      BY <2>10, <2>11, <2>12, <2>13, <2>14, <2>15, <2>16, <2>17, <2>18, <2>19, Zenon
        DEF Architecture!Meaning2, Architecture!CL, Architecture!CI, Architecture!CSS
    <2>20. HalfBit(c)[12] # 1 BY <1>11, <1>1, SMT
    <2>5. Architecture!OfR("add", Architecture!Long1(HalfBit(c)),
          IF HalfBit(c)[12] = 1 THEN Architecture!Long1(HalfBit(c)) ELSE 0,
          Architecture!Long2(HalfBit(c)))
      = Architecture!OfR("add", RegF(c), 0, Rs2F(c))
      BY <1>1, <2>20, Zenon
    <2> QED BY <2>1, <2>3, <2>4, <2>5, Zenon
  <1>12. CASE Cut(c, 13, 3) = 4 /\ Rs2F(c) # 0 /\ Cut(c, 12, 1) = 1
    <2>1. Quadrant2(c) = MakeR(0, Rs2F(c), RegF(c), 0, RegF(c), 51)
      BY <1>12, SMT DEF Quadrant2, Moves
    <2>2. RegRow("add", 51, 0, 0) BY SMT DEF RegRow
    <2>3. Shown(Operation(MakeR(0, Rs2F(c), RegF(c), 0, RegF(c), 51), 2))
          = Architecture!OfR("add", RegF(c), RegF(c), Rs2F(c))
      BY <2>2, RegShown
    <2>10. ~(Architecture!Column(HalfBit(c)) = 0) BY <1>12, <1>1, SMT
    <2>11. ~(Architecture!Column(HalfBit(c)) = 1) BY <1>12, <1>1, SMT
    <2>12. ~(Architecture!Column(HalfBit(c)) = 2) BY <1>12, <1>1, SMT
    <2>13. ~(Architecture!Column(HalfBit(c)) = 3) BY <1>12, <1>1, SMT
    <2>14. ~((Architecture!Column(HalfBit(c)) = 4 /\ Architecture!Long2(HalfBit(c)) = 0
          /\ HalfBit(c)[12] = 0)) BY <1>12, <1>1, SMT
    <2>15. ~((Architecture!Column(HalfBit(c)) = 4 /\ Architecture!Long2(HalfBit(c)) = 0
          /\ HalfBit(c)[12] = 1)) BY <1>12, <1>1, SMT
    <2>16. (Architecture!Column(HalfBit(c)) = 4 /\ Architecture!Long2(HalfBit(c)) # 0)
        BY <1>12, <1>1, SMT
    <2>17. ~(Architecture!Column(HalfBit(c)) = 5) BY <1>12, <1>1, SMT
    <2>18. ~(Architecture!Column(HalfBit(c)) = 6) BY <1>12, <1>1, SMT
    <2>19. ~(Architecture!Column(HalfBit(c)) = 7) BY <1>12, <1>1, SMT
    <2>4. Architecture!Meaning2(HalfBit(c))
          = Architecture!OfR("add", Architecture!Long1(HalfBit(c)),
          IF HalfBit(c)[12] = 1 THEN Architecture!Long1(HalfBit(c)) ELSE 0,
          Architecture!Long2(HalfBit(c)))
      BY <2>10, <2>11, <2>12, <2>13, <2>14, <2>15, <2>16, <2>17, <2>18, <2>19, Zenon
        DEF Architecture!Meaning2, Architecture!CL, Architecture!CI, Architecture!CSS
    <2>20. HalfBit(c)[12] = 1 BY <1>12, <1>1, SMT
    <2>5. Architecture!OfR("add", Architecture!Long1(HalfBit(c)),
          IF HalfBit(c)[12] = 1 THEN Architecture!Long1(HalfBit(c)) ELSE 0,
          Architecture!Long2(HalfBit(c)))
      = Architecture!OfR("add", RegF(c), RegF(c), Rs2F(c))
      BY <1>1, <2>20, Zenon
    <2> QED BY <2>1, <2>3, <2>4, <2>5, Zenon
  <1>13. CASE Cut(c, 13, 3) = 5
    <2>1. Quadrant2(c) = MakeS(ImmStoreSp(c), Rs2F(c), 2, 3, 39)
      BY <1>13, SMT DEF Quadrant2
    <2>2. StoreRow("fsd", 39, 3) BY SMT DEF StoreRow
    <2>3. Shown(Operation(MakeS(ImmStoreSp(c), Rs2F(c), 2, 3, 39), 2))
          = Architecture!OfS("fsd", 2, Rs2F(c), ImmStoreSp(c))
      BY <2>2, ImmStoreSpRange, StoreShown
    <2>10. ~(Architecture!Column(HalfBit(c)) = 0) BY <1>13, <1>1, SMT
    <2>11. ~(Architecture!Column(HalfBit(c)) = 1) BY <1>13, <1>1, SMT
    <2>12. ~(Architecture!Column(HalfBit(c)) = 2) BY <1>13, <1>1, SMT
    <2>13. ~(Architecture!Column(HalfBit(c)) = 3) BY <1>13, <1>1, SMT
    <2>14. ~((Architecture!Column(HalfBit(c)) = 4 /\ Architecture!Long2(HalfBit(c)) = 0
          /\ HalfBit(c)[12] = 0)) BY <1>13, <1>1, SMT
    <2>15. ~((Architecture!Column(HalfBit(c)) = 4 /\ Architecture!Long2(HalfBit(c)) = 0
          /\ HalfBit(c)[12] = 1)) BY <1>13, <1>1, SMT
    <2>16. ~((Architecture!Column(HalfBit(c)) = 4 /\ Architecture!Long2(HalfBit(c)) # 0))
        BY <1>13, <1>1, SMT
    <2>17. Architecture!Column(HalfBit(c)) = 5 BY <1>13, <1>1, SMT
    <2>18. ~(Architecture!Column(HalfBit(c)) = 6) BY <1>13, <1>1, SMT
    <2>19. ~(Architecture!Column(HalfBit(c)) = 7) BY <1>13, <1>1, SMT
    <2>4. Architecture!Meaning2(HalfBit(c))
          = Architecture!OfS("fsd", 2, Architecture!Long2(HalfBit(c)),
          Architecture!Unsigned(HalfBit(c), Architecture!CSS, <<5, 4, 3, 8, 7, 6>>))
      BY <2>10, <2>11, <2>12, <2>13, <2>14, <2>15, <2>16, <2>17, <2>18, <2>19, Zenon
        DEF Architecture!Meaning2, Architecture!CL, Architecture!CI, Architecture!CSS
    <2>5. Architecture!OfS("fsd", 2, Architecture!Long2(HalfBit(c)),
          Architecture!Unsigned(HalfBit(c), Architecture!CSS, <<5, 4, 3, 8, 7, 6>>))
      = Architecture!OfS("fsd", 2, Rs2F(c), ImmStoreSp(c))
      BY <1>1, StoreSpIs, Zenon DEF Architecture!CSS
    <2> QED BY <2>1, <2>3, <2>4, <2>5, Zenon
  <1>14. CASE Cut(c, 13, 3) = 6
    <2>1. Quadrant2(c) = MakeS(StoreWordSpImm(c), Rs2F(c), 2, 2, 35)
      BY <1>14, SMT DEF Quadrant2, StoreWordSpImm
    <2>2. StoreRow("store", 35, 2) BY SMT DEF StoreRow
    <2>3. Shown(Operation(MakeS(StoreWordSpImm(c), Rs2F(c), 2, 2, 35), 2))
          = Architecture!OfS("store", 2, Rs2F(c), StoreWordSpImm(c))
      BY <2>2, StoreWordSpImmRange, StoreShown
    <2>10. ~(Architecture!Column(HalfBit(c)) = 0) BY <1>14, <1>1, SMT
    <2>11. ~(Architecture!Column(HalfBit(c)) = 1) BY <1>14, <1>1, SMT
    <2>12. ~(Architecture!Column(HalfBit(c)) = 2) BY <1>14, <1>1, SMT
    <2>13. ~(Architecture!Column(HalfBit(c)) = 3) BY <1>14, <1>1, SMT
    <2>14. ~((Architecture!Column(HalfBit(c)) = 4 /\ Architecture!Long2(HalfBit(c)) = 0
          /\ HalfBit(c)[12] = 0)) BY <1>14, <1>1, SMT
    <2>15. ~((Architecture!Column(HalfBit(c)) = 4 /\ Architecture!Long2(HalfBit(c)) = 0
          /\ HalfBit(c)[12] = 1)) BY <1>14, <1>1, SMT
    <2>16. ~((Architecture!Column(HalfBit(c)) = 4 /\ Architecture!Long2(HalfBit(c)) # 0))
        BY <1>14, <1>1, SMT
    <2>17. ~(Architecture!Column(HalfBit(c)) = 5) BY <1>14, <1>1, SMT
    <2>18. Architecture!Column(HalfBit(c)) = 6 BY <1>14, <1>1, SMT
    <2>19. ~(Architecture!Column(HalfBit(c)) = 7) BY <1>14, <1>1, SMT
    <2>4. Architecture!Meaning2(HalfBit(c))
          = Architecture!OfS("store", 2, Architecture!Long2(HalfBit(c)),
          Architecture!Unsigned(HalfBit(c), Architecture!CSS, <<5, 4, 3, 2, 7, 6>>))
      BY <2>10, <2>11, <2>12, <2>13, <2>14, <2>15, <2>16, <2>17, <2>18, <2>19, Zenon
        DEF Architecture!Meaning2, Architecture!CL, Architecture!CI, Architecture!CSS
    <2>5. Architecture!OfS("store", 2, Architecture!Long2(HalfBit(c)),
          Architecture!Unsigned(HalfBit(c), Architecture!CSS, <<5, 4, 3, 2, 7, 6>>))
      = Architecture!OfS("store", 2, Rs2F(c), StoreWordSpImm(c))
      BY <1>1, StoreWordSpIs, Zenon DEF Architecture!CSS
    <2> QED BY <2>1, <2>3, <2>4, <2>5, Zenon
  <1>15. CASE Cut(c, 13, 3) = 7
    <2>1. Quadrant2(c) = MakeS(ImmStoreSp(c), Rs2F(c), 2, 3, 35)
      BY <1>15, SMT DEF Quadrant2
    <2>2. StoreRow("store", 35, 3) BY SMT DEF StoreRow
    <2>3. Shown(Operation(MakeS(ImmStoreSp(c), Rs2F(c), 2, 3, 35), 2))
          = Architecture!OfS("store", 2, Rs2F(c), ImmStoreSp(c))
      BY <2>2, ImmStoreSpRange, StoreShown
    <2>10. ~(Architecture!Column(HalfBit(c)) = 0) BY <1>15, <1>1, SMT
    <2>11. ~(Architecture!Column(HalfBit(c)) = 1) BY <1>15, <1>1, SMT
    <2>12. ~(Architecture!Column(HalfBit(c)) = 2) BY <1>15, <1>1, SMT
    <2>13. ~(Architecture!Column(HalfBit(c)) = 3) BY <1>15, <1>1, SMT
    <2>14. ~((Architecture!Column(HalfBit(c)) = 4 /\ Architecture!Long2(HalfBit(c)) = 0
          /\ HalfBit(c)[12] = 0)) BY <1>15, <1>1, SMT
    <2>15. ~((Architecture!Column(HalfBit(c)) = 4 /\ Architecture!Long2(HalfBit(c)) = 0
          /\ HalfBit(c)[12] = 1)) BY <1>15, <1>1, SMT
    <2>16. ~((Architecture!Column(HalfBit(c)) = 4 /\ Architecture!Long2(HalfBit(c)) # 0))
        BY <1>15, <1>1, SMT
    <2>17. ~(Architecture!Column(HalfBit(c)) = 5) BY <1>15, <1>1, SMT
    <2>18. ~(Architecture!Column(HalfBit(c)) = 6) BY <1>15, <1>1, SMT
    <2>19. Architecture!Column(HalfBit(c)) = 7 BY <1>15, <1>1, SMT
    <2>4. Architecture!Meaning2(HalfBit(c))
          = Architecture!OfS("store", 2, Architecture!Long2(HalfBit(c)),
          Architecture!Unsigned(HalfBit(c), Architecture!CSS, <<5, 4, 3, 8, 7, 6>>))
      BY <2>10, <2>11, <2>12, <2>13, <2>14, <2>15, <2>16, <2>17, <2>18, <2>19, Zenon
        DEF Architecture!Meaning2, Architecture!CL, Architecture!CI, Architecture!CSS
    <2>5. Architecture!OfS("store", 2, Architecture!Long2(HalfBit(c)),
          Architecture!Unsigned(HalfBit(c), Architecture!CSS, <<5, 4, 3, 8, 7, 6>>))
      = Architecture!OfS("store", 2, Rs2F(c), ImmStoreSp(c))
      BY <1>1, StoreSpIs, Zenon DEF Architecture!CSS
    <2> QED BY <2>1, <2>3, <2>4, <2>5, Zenon
  <1> QED
      BY <1>2, <1>3, <1>4, <1>5, <1>6, <1>7, <1>8, <1>9, <1>10, <1>11, <1>12, <1>13, <1>14,
         <1>15, SMT

-----------------------------------------------------------------------------
(* All codes.                                                              *)

\* A compressed instruction that is not reserved is decoded as the manual does.
LEMMA ShortDecodes ==
  ASSUME NEW c \in Nat, c % 4 # 3, ~(c % 4 = 1 /\ ReservedArith(c))
  PROVE  Shown(Operation(Decompress(c), 2)) = Architecture!MeaningC(c)
  <1>1. Architecture!ShortBits(c) = HalfBit(c)
    BY SameWords, Zenon DEF Architecture!ShortBits, HalfBit
  <1>2. c % 4 \in {0, 1, 2} BY SMT
  <1>3. CASE c % 4 = 0
    <2>0. c % 4 # 1 /\ c % 4 # 2 BY <1>3, SMT
    <2>1. Decompress(c) = Quadrant0(c) BY <1>3, <2>0, Zenon DEF Decompress
    <2>2. Architecture!MeaningC(c) = Architecture!Meaning0(c = 0, Architecture!ShortBits(c))
      BY <1>3, <2>0, Zenon DEF Architecture!MeaningC
    <2> QED BY <1>1, <2>1, <2>2, Quadrant0Is, Zenon
  <1>4. CASE c % 4 = 1
    <2>0. c % 4 # 0 /\ c % 4 # 2 BY <1>4, SMT
    <2>1. Decompress(c) = Quadrant1(c) BY <1>4, <2>0, Zenon DEF Decompress
    <2>2. Architecture!MeaningC(c) = Architecture!Meaning1(Architecture!ShortBits(c))
      BY <1>4, <2>0, Zenon DEF Architecture!MeaningC
    <2> QED BY <1>1, <1>4, <2>1, <2>2, Quadrant1Is, Zenon
  <1>5. CASE c % 4 = 2
    <2>0. c % 4 # 0 /\ c % 4 # 1 BY <1>5, SMT
    <2>1. Decompress(c) = Quadrant2(c) BY <1>5, <2>0, Zenon DEF Decompress
    <2>2. Architecture!MeaningC(c) = Architecture!Meaning2(Architecture!ShortBits(c))
      BY <1>5, <2>0, Zenon DEF Architecture!MeaningC
    <2> QED BY <1>1, <2>1, <2>2, Quadrant2Is, Zenon
  <1> QED BY <1>2, <1>3, <1>4, <1>5, Zenon

THEOREM DecodesAsManual == NoneReserved => DecodesAsTheManual
  <1> SUFFICES ASSUME NoneReserved, NEW pc \in Word, NEW code \in Code[pc]
               PROVE  Shown(Decode(code)) = Architecture!Meaning(code)
    BY Zenon DEF DecodesAsTheManual
  <1>1. code \in Seq(HalfWord) /\ Len(code) = IF code[1] % 4 = 3 THEN 2 ELSE 1
    BY ProgramAssumption, Zenon
  <1>2. ~Reserved(code) BY Zenon DEF NoneReserved
  <1>3. \A n \in HalfWord : n \in Nat BY SMT DEF HalfWord
  <1> HIDE DEF HalfWord
  <1>4. CASE code[1] % 4 # 3
    <2>1. Len(code) = 1 BY <1>1, <1>4, Zenon
    <2>2. code[1] \in Nat
      <3>1. 1 \in 1 .. Len(code) BY <2>1, SMT
      <3> QED BY <1>1, <1>3, <3>1, ElementOfSeq, Zenon
    <2>3. Architecture!Meaning(code) = Architecture!MeaningC(code[1])
      BY <2>1, Zenon DEF Architecture!Meaning
    <2>4. Decode(code) = Operation(Decompress(code[1]), 2) BY <1>4, Zenon DEF Decode
    <2>5. ~(code[1] % 4 = 1 /\ ReservedArith(code[1])) BY <1>2, <1>4, Zenon DEF Reserved
    <2> QED BY <1>4, <2>2, <2>3, <2>4, <2>5, ShortDecodes, Zenon
  <1>5. CASE code[1] % 4 = 3
    <2>1. Len(code) = 2 BY <1>1, <1>5, Zenon
    <2>2. code[1] \in Nat /\ code[2] \in Nat
      <3>1. 1 \in 1 .. Len(code) /\ 2 \in 1 .. Len(code) BY <2>1, SMT
      <3> QED BY <1>1, <1>3, <3>1, ElementOfSeq, Zenon
    <2>3. code = <<code[1], code[2]>>
      <3>1. code \in Seq(HalfWord) BY <1>1
      <3> QED BY <2>1, <3>1, SMT
    <2>4. Architecture!Meaning(code) = Architecture!MeaningW(code)
      <3>1. Len(code) # 1 BY <2>1, SMT
      <3> QED BY <3>1, Zenon DEF Architecture!Meaning
    <2>5. Decode(code) = Operation(Fields(code[1], code[2]), 4) BY <1>5, Zenon DEF Decode
    <2> DEFINE w == Fields(code[1], code[2])
    <2>6. ~ReservedShift(w.op, w.f3, w.f7) BY <1>2, <1>5, Zenon DEF Reserved
    <2> HIDE DEF w
    <2>7. w = Fields(code[1], code[2]) BY Zenon DEF w
    <2>8. Shown(Operation(w, 4)) = Architecture!MeaningW(<<code[1], code[2]>>)
      BY <2>2, <2>6, <2>7, WordDecodes, Zenon
    <2> QED BY <2>3, <2>4, <2>5, <2>7, <2>8, Zenon
  <1> QED BY <1>4, <1>5, Zenon

\* A program without reserved instructions that keeps zero in register 0, and
\* whose jumps, branches and traps go somewhere else, is executed as the manual
\* says, whatever the width of the registers, the instructions and the values
\* loaded: expansion, decoding, dispatch and handlers together implement the
\* specification of Isa.
THEOREM ImplementsIsa ==
  ASSUME Loaded # {}, 32 % HalfBits = 0, NoneReserved
  PROVE  Spec /\ []ZeroRegister /\ [][~ToItself(inst')]_vars => IsaSpec
  <1>1. Init /\ ZeroRegister => Architecture!Init BY InitAsIsa
  <1>2. TypeOK /\ ZeroRegister /\ ZeroRegister' /\ [Next]_vars /\ [~ToItself(inst')]_vars
          => [Architecture!Next]_(Architecture!vars)
    BY DecodesAsManual, StepAsIsa
  <1>3. Spec => []TypeOK BY TypeCorrect
  <1> QED BY <1>1, <1>2, <1>3, PTL DEF Spec, IsaSpec, Architecture!Spec
=============================================================================
