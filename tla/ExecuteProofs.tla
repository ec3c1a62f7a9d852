---------------------------- MODULE ExecuteProofs ----------------------------
(***************************************************************************)
(* Proofs about the arithmetic and the execution of instructions, for      *)
(* registers of any width: what each handler computes is what the manual   *)
(* says, the registers keep their type, and every step is one of Isa.      *)
(* The parts, in order: powers of two, quotients and bits; the handlers;   *)
(* decoding; the types; the steps.                                         *)
(***************************************************************************)
EXTENDS Execute, WellFoundedInduction, TLAPS

-----------------------------------------------------------------------------
(* Definitions by recursion on numbers.                                    *)

\* A set of numbers has a least one.
LEMMA LeastNumber ==
  ASSUME NEW T, T \subseteq Nat, T # {}
  PROVE  \E x \in T : \A y \in T : x <= y
  <1> DEFINE R == {ss \in Nat \X Nat : ss[1] < ss[2]}
  <1>1. IsWellFoundedOn(R, Nat) BY NatLessThanWellFounded DEF OpToRel
  <1>2. PICK x \in T : \A y \in T : <<y, x>> \notin R
    <2> HIDE DEF R
    <2> QED BY <1>1, WFMin
  <1>3. \A y \in T : ~(y < x) BY <1>2
  <1> QED BY <1>3

\* F makes the value at n of the one at n - 1.
Steps(F, c, f, n) ==
    /\ f \in [0 .. n -> Int]
    /\ \A k \in 0 .. n : f[k] = IF k = 0 THEN c ELSE F[<<k, f[k - 1]>>]

LEMMA StepsExist ==
  ASSUME NEW F \in [Nat \X Int -> Int], NEW c \in Int
  PROVE  \A n \in Nat : \E f : Steps(F, c, f, n)
  <1> DEFINE T == {n \in Nat : ~ \E f : Steps(F, c, f, n)}
  <1>1. SUFFICES ASSUME T # {} PROVE FALSE
    OBVIOUS
  <1>2. PICK n \in T : \A y \in T : n <= y
    <2>1. T \subseteq Nat OBVIOUS
    <2> HIDE DEF T
    <2> QED BY <1>1, <2>1, LeastNumber
  <1>3. n \in Nat /\ ~ \E f : Steps(F, c, f, n)
    OBVIOUS
  <1>4. CASE n = 0
    <2>1. Steps(F, c, [k \in 0 .. 0 |-> c], 0)
      BY DEF Steps
    <2> QED BY <1>3, <1>4, <2>1
  <1>5. CASE n # 0
    <2>1. n - 1 \in Nat /\ n - 1 \notin T
      BY <1>2, <1>3, <1>5
    <2>2. PICK f : Steps(F, c, f, n - 1)
      BY <2>1
    <2> DEFINE g == [k \in 0 .. n |-> IF k = n THEN F[<<n, f[n - 1]>>] ELSE f[k]]
    <2>3. \A k \in 0 .. n - 1 : f[k] \in Int
      BY <2>2 DEF Steps
    <2>4. F[<<n, f[n - 1]>>] \in Int
      <3>1. n - 1 \in 0 .. n - 1 BY <2>1
      <3>2. <<n, f[n - 1]>> \in Nat \X Int BY <1>3, <2>3, <3>1
      <3> QED BY <3>2
    <2>5. g \in [0 .. n -> Int]
      <3>1. ASSUME NEW k \in 0 .. n PROVE g[k] \in Int
        <4>1. CASE k = n BY <2>4, <4>1
        <4>2. CASE k # n
          <5>1. k \in 0 .. n - 1 BY <1>3, <4>2
          <5> QED BY <2>3, <4>2, <5>1
        <4> QED BY <4>1, <4>2
      <3> QED BY <3>1
    <2>6. ASSUME NEW k \in 0 .. n PROVE g[k] = IF k = 0 THEN c ELSE F[<<k, g[k - 1]>>]
      <3>1. CASE k = n
        <4>1. n - 1 \in 0 .. n /\ n - 1 # n BY <1>3, <1>5
        <4>2. g[n - 1] = f[n - 1] BY <4>1
        <4> QED BY <1>5, <3>1, <4>2
      <3>2. CASE k # n
        <4>1. k \in 0 .. n - 1 /\ k \in Nat BY <1>3, <3>2
        <4>2. g[k] = f[k] BY <3>2
        <4>3. f[k] = IF k = 0 THEN c ELSE F[<<k, f[k - 1]>>] BY <2>2, <4>1 DEF Steps
        <4>4. k # 0 => k - 1 \in 0 .. n /\ k - 1 # n BY <1>3, <4>1
        <4>5. k # 0 => g[k - 1] = f[k - 1] BY <4>4
        <4> QED BY <4>2, <4>3, <4>5
      <3> QED BY <3>1, <3>2
    <2> HIDE DEF g
    <2>7. Steps(F, c, g, n)
      BY <2>5, <2>6 DEF Steps
    <2> QED BY <1>3, <2>7
  <1> QED BY <1>4, <1>5

LEMMA StepsAgree ==
  ASSUME NEW F, NEW c, NEW n \in Nat, NEW m \in Nat, NEW f, NEW g,
         Steps(F, c, f, n), Steps(F, c, g, m)
  PROVE  \A k \in Nat : k <= n /\ k <= m => f[k] = g[k]
  <1> DEFINE T == {k \in Nat : k <= n /\ k <= m /\ f[k] # g[k]}
  <1>1. SUFFICES ASSUME T # {} PROVE FALSE
    OBVIOUS
  <1>2. PICK k \in T : \A y \in T : k <= y
    <2>1. T \subseteq Nat OBVIOUS
    <2> HIDE DEF T
    <2> QED BY <1>1, <2>1, LeastNumber
  <1>3. k \in 0 .. n /\ k \in 0 .. m /\ k \in Nat /\ f[k] # g[k]
    OBVIOUS
  <1>4. /\ f[k] = IF k = 0 THEN c ELSE F[<<k, f[k - 1]>>]
        /\ g[k] = IF k = 0 THEN c ELSE F[<<k, g[k - 1]>>]
    BY <1>3 DEF Steps
  <1>5. k # 0
    BY <1>3, <1>4
  <1>6. k - 1 \in Nat /\ k - 1 <= n /\ k - 1 <= m /\ ~(k <= k - 1)
    BY <1>3, <1>5
  <1>7. k - 1 \notin T
    BY <1>2, <1>3, <1>6
  <1>8. f[k - 1] = g[k - 1]
    BY <1>3, <1>6, <1>7
  <1> QED BY <1>3, <1>4, <1>8

LEMMA Recursion ==
  ASSUME NEW F \in [Nat \X Int -> Int], NEW c \in Int
  PROVE  \E f \in [Nat -> Int] :
            \A n \in Nat : f[n] = IF n = 0 THEN c ELSE F[<<n, f[n - 1]>>]
  <1> DEFINE first(n) == CHOOSE f : Steps(F, c, f, n)
             G == [n \in Nat |-> first(n)[n]]
  <1>1. \A n \in Nat : Steps(F, c, first(n), n)
    BY StepsExist
  <1> HIDE DEF first
  <1>2. \A n \in Nat : G[n] = first(n)[n] /\ first(n)[n] \in Int
    BY <1>1 DEF Steps
  <1>3. ASSUME NEW n \in Nat
        PROVE  G[n] = IF n = 0 THEN c ELSE F[<<n, G[n - 1]>>]
    <2>1. CASE n = 0
      <3>1. Steps(F, c, first(n), n) /\ n \in 0 .. n
        BY <1>1
      <3>2. first(n)[n] = c
        BY <2>1, <3>1 DEF Steps
      <3> QED BY <1>2, <2>1, <3>2
    <2>2. CASE n # 0
      <3>1. PICK k \in Nat : k = n - 1 /\ k <= n
        BY <2>2
      <3>2. Steps(F, c, first(n), n) /\ Steps(F, c, first(k), k)
        BY <1>1
      <3>3. first(n)[n] = F[<<n, first(n)[k]>>]
        BY <2>2, <3>1, <3>2 DEF Steps
      <3>4. first(n)[k] = first(k)[k]
        BY <3>1, <3>2, StepsAgree
      <3>5. G[n] = first(n)[n] /\ G[k] = first(k)[k]
        OBVIOUS
      <3> QED BY <2>2, <3>1, <3>3, <3>4, <3>5
    <2> QED BY <2>1, <2>2
  <1>4. G \in [Nat -> Int]
    BY <1>2
  <1> HIDE DEF G
  <1> QED BY <1>3, <1>4

-----------------------------------------------------------------------------
(* Powers of two.                                                          *)

LEMMA Pow2Equation ==
  /\ Pow2 \in [Nat -> Int]
  /\ \A n \in Nat : Pow2[n] = IF n = 0 THEN 1 ELSE 2 * Pow2[n - 1]
  <1> DEFINE F == [p \in Nat \X Int |-> 2 * p[2]]
  <1>1. F \in [Nat \X Int -> Int] /\ 1 \in Int
    OBVIOUS
  <1>2. \A n \in Nat : \A v \in Int : F[<<n, v>>] = 2 * v
    OBVIOUS
  <1> HIDE DEF F
  <1>3. PICK f \in [Nat -> Int] : \A n \in Nat : f[n] = IF n = 0 THEN 1 ELSE F[<<n, f[n - 1]>>]
    BY <1>1, Recursion
  <1>4. ASSUME NEW n \in Nat PROVE f[n] = IF n = 0 THEN 1 ELSE 2 * f[n - 1]
    <2>1. n # 0 => n - 1 \in Nat OBVIOUS
    <2>2. n # 0 => f[n - 1] \in Int BY <2>1
    <2> QED BY <1>2, <1>3, <2>2
  <1>5. f = [n \in Nat |-> IF n = 0 THEN 1 ELSE 2 * f[n - 1]]
    BY <1>4
  <1>6. Pow2 = [n \in Nat |-> IF n = 0 THEN 1 ELSE 2 * Pow2[n - 1]]
    BY <1>5 DEF Pow2
  <1>7. \A n \in Nat : Pow2[n] = IF n = 0 THEN 1 ELSE 2 * Pow2[n - 1]
    BY <1>6
  <1>8. ASSUME NEW n \in Nat PROVE Pow2[n] \in Int
    <2> DEFINE T == {k \in Nat : Pow2[k] \notin Int}
    <2>1. SUFFICES ASSUME T # {} PROVE FALSE
      OBVIOUS
    <2>2. PICK k \in T : \A y \in T : k <= y
      <3>1. T \subseteq Nat OBVIOUS
      <3> HIDE DEF T
      <3> QED BY <2>1, <3>1, LeastNumber
    <2>3. k \in Nat /\ Pow2[k] \notin Int OBVIOUS
    <2>4. k # 0 BY <1>7, <2>3
    <2>5. k - 1 \in Nat /\ k - 1 \notin T BY <2>2, <2>3, <2>4
    <2>6. Pow2[k - 1] \in Int BY <2>5
    <2> QED BY <1>7, <2>3, <2>4, <2>6
  <1>9. DOMAIN Pow2 = Nat
    BY <1>6
  <1>10. Pow2 = [n \in Nat |-> Pow2[n]]
    BY <1>6, <1>9
  <1> QED BY <1>7, <1>8, <1>10

LEMMA Pow2Step == Pow2[0] = 1 /\ \A n \in Nat : Pow2[n + 1] = 2 * Pow2[n]
  <1>1. Pow2[0] = 1
    BY Pow2Equation
  <1>2. ASSUME NEW n \in Nat PROVE Pow2[n + 1] = 2 * Pow2[n]
    <2>1. n + 1 \in Nat /\ n + 1 # 0 /\ (n + 1) - 1 = n OBVIOUS
    <2> QED BY <2>1, Pow2Equation
  <1> QED BY <1>1, <1>2

LEMMA Pow2Type == \A n \in Nat : Pow2[n] \in Nat \ {0}
  <1> DEFINE T == {k \in Nat : Pow2[k] \notin Nat \ {0}}
  <1>1. SUFFICES ASSUME T # {} PROVE FALSE
    OBVIOUS
  <1>2. PICK k \in T : \A y \in T : k <= y
    <2>1. T \subseteq Nat OBVIOUS
    <2> HIDE DEF T
    <2> QED BY <1>1, <2>1, LeastNumber
  <1>3. k \in Nat /\ Pow2[k] \notin Nat \ {0} OBVIOUS
  <1>4. k # 0 BY <1>3, Pow2Step
  <1>5. k - 1 \in Nat /\ k - 1 \notin T /\ (k - 1) + 1 = k BY <1>2, <1>3, <1>4
  <1>6. PICK p \in Nat \ {0} : Pow2[k - 1] = p BY <1>5
  <1>7. Pow2[k] = 2 * p BY <1>5, <1>6, Pow2Step
  <1> QED BY <1>3, <1>7

LEMMA Pow2Sum == \A m, n \in Nat : Pow2[m + n] = Pow2[m] * Pow2[n]
  <1> TAKE m \in Nat
  <1> DEFINE T == {k \in Nat : Pow2[m + k] # Pow2[m] * Pow2[k]}
  <1>1. SUFFICES ASSUME T # {} PROVE FALSE
    OBVIOUS
  <1>2. PICK k \in T : \A y \in T : k <= y
    <2>1. T \subseteq Nat OBVIOUS
    <2> HIDE DEF T
    <2> QED BY <1>1, <2>1, LeastNumber
  <1>3. k \in Nat /\ Pow2[m + k] # Pow2[m] * Pow2[k] OBVIOUS
  <1>4. PICK p \in Nat : Pow2[m] = p BY Pow2Type
  <1>5. k # 0
    <2> SUFFICES ASSUME k = 0 PROVE FALSE
      OBVIOUS
    <2>1. m + k = m /\ p * 1 = p OBVIOUS
    <2> QED BY <1>3, <1>4, <2>1, Pow2Step
  <1>6. PICK j \in Nat : k = j + 1 /\ j \notin T
    <2>1. k - 1 \in Nat /\ k - 1 \notin T /\ k = (k - 1) + 1 BY <1>2, <1>3, <1>5
    <2> QED BY <2>1
  <1>7. PICK q, r \in Nat : Pow2[j] = q /\ Pow2[m + j] = r
    <2>1. m + j \in Nat OBVIOUS
    <2> QED BY <2>1, Pow2Type
  <1>8. r = p * q BY <1>4, <1>6, <1>7
  <1>9. Pow2[k] = 2 * q BY <1>6, <1>7, Pow2Step
  <1>10. Pow2[m + k] = 2 * r
    <2>1. m + k = (m + j) + 1 /\ m + j \in Nat BY <1>6
    <2> QED BY <1>7, <2>1, Pow2Step
  <1>11. p * (2 * q) = 2 * (p * q)
    OBVIOUS
  <1> QED BY <1>3, <1>4, <1>8, <1>9, <1>10, <1>11

LEMMA Pow2Grows == \A m, n \in Nat : m <= n => Pow2[m] <= Pow2[n]
  <1> TAKE m, n \in Nat
  <1> HAVE m <= n
  <1>1. PICK k \in Nat : n = m + k
    <2>1. n - m \in Nat /\ n = m + (n - m) OBVIOUS
    <2> QED BY <2>1
  <1>2. PICK p \in Nat \ {0}, q \in Nat \ {0} : p = Pow2[m] /\ q = Pow2[k]
    BY Pow2Type
  <1>3. p <= p * q
    OBVIOUS
  <1> QED BY <1>1, <1>2, <1>3, Pow2Sum

-----------------------------------------------------------------------------
(* Quotients and remainders.                                               *)

LEMMA Products ==
  \A a, b, c \in Int : /\ a * b \in Int /\ a * b = b * a /\ (a * b) * c = a * (b * c)
                      /\ (a + b) * c = a * c + b * c /\ (a - b) * c = a * c - b * c
                      /\ a * (b + c) = a * b + a * c /\ a * (b - c) = a * b - a * c
OBVIOUS

LEMMA Grow == \A a, b \in Int : \A c \in Nat : a <= b => a * c <= b * c
OBVIOUS

LEMMA Division ==
  ASSUME NEW a \in Int, NEW b \in Nat \ {0}
  PROVE  /\ a \div b \in Int /\ a % b \in 0 .. b - 1
         /\ a = b * (a \div b) + (a % b)
OBVIOUS

LEMMA DivisionNat ==
  ASSUME NEW a \in Nat, NEW b \in Nat \ {0}
  PROVE  \E q \in Nat, r \in 0 .. b - 1 : q = a \div b /\ r = a % b /\ a = b * q + r
  <1>1. a \div b \in Nat /\ a % b \in 0 .. b - 1 /\ a = b * (a \div b) + (a % b)
    OBVIOUS
  <1> QED BY <1>1

LEMMA OneRest ==
  ASSUME NEW b \in Nat \ {0}, NEW t \in Int, NEW u \in Int, NEW c \in 0 .. b - 1,
         NEW d \in 0 .. b - 1, b * t + c = b * u + d
  PROVE  t = u /\ c = d
  <1>1. \A x, y \in Int : x < y => b * x + b <= b * y
    <2> TAKE x, y \in Int
    <2> HAVE x < y
    <2>1. (x + 1) * b <= y * b BY Grow
    <2>2. (x + 1) * b = b * x + b /\ y * b = b * y BY Products
    <2> QED BY <2>1, <2>2
  <1>2. PICK p, q \in Int : p = b * t /\ q = b * u
    BY Products
  <1>3. ~(t < u)
    <2> SUFFICES ASSUME t < u PROVE FALSE
      OBVIOUS
    <2>1. p + b <= q BY <1>1, <1>2
    <2> QED BY <1>2, <2>1
  <1>4. ~(u < t)
    <2> SUFFICES ASSUME u < t PROVE FALSE
      OBVIOUS
    <2>1. q + b <= p BY <1>1, <1>2
    <2> QED BY <1>2, <2>1
  <1>5. t = u
    BY <1>3, <1>4
  <1> QED BY <1>2, <1>5

LEMMA OneQuotient ==
  ASSUME NEW a \in Int, NEW b \in Nat \ {0}, NEW t \in Int, NEW c \in 0 .. b - 1, a = b * t + c
  PROVE  a \div b = t /\ a % b = c
  <1>1. PICK q \in Int, r \in 0 .. b - 1 : q = a \div b /\ r = a % b /\ a = b * q + r
    BY Division
  <1> QED BY <1>1, OneRest

\* Multiples of b do not count in what b leaves.
LEMMA Congruent ==
  ASSUME NEW a \in Int, NEW b \in Nat \ {0}, NEW z \in Int
  PROVE  (a + b * z) % b = a % b
  <1>1. PICK q \in Int, r \in 0 .. b - 1 : q = a \div b /\ r = a % b /\ a = b * q + r
    BY Division
  <1>2. PICK p, y \in Int : p = b * q /\ y = b * z
    BY Products
  <1>3. PICK e \in Int : e = q + z
    OBVIOUS
  <1>4. b * e = p + y
    BY <1>2, <1>3, Products
  <1>5. PICK x \in Int : x = a + b * z
    BY <1>2
  <1>6. x = b * e + r
    <2>1. PICK n \in Int : n = b * e BY Products
    <2>2. n = p + y BY <1>4, <2>1
    <2> QED BY <1>1, <1>2, <1>5, <2>1, <2>2
  <1>7. x % b = r
    BY <1>6, OneQuotient
  <1> QED BY <1>1, <1>5, <1>7

LEMMA Small ==
  ASSUME NEW b \in Nat \ {0}, NEW a \in 0 .. b - 1
  PROVE  a % b = a /\ a \div b = 0
  <1>1. a = b * 0 + a /\ a \in Int /\ 0 \in Int
    OBVIOUS
  <1> QED BY <1>1, OneQuotient

\* What b leaves of x, plus a multiple of b, is x.
LEMMA RestOf ==
  ASSUME NEW x \in Int, NEW b \in Nat \ {0}
  PROVE  \E z \in Int : x = (x % b) + b * z /\ x % b = x - b * z
  <1>1. PICK q \in Int, r \in 0 .. b - 1 : q = x \div b /\ r = x % b /\ x = b * q + r
    BY Division
  <1>2. PICK p \in Int : p = b * q BY Products
  <1>3. x = r + b * q /\ r = x - b * q
    BY <1>1, <1>2
  <1> QED BY <1>1, <1>3, Zenon

\* Sums, differences and products may be taken of what b leaves.
LEMMA RestOfSum ==
  ASSUME NEW x \in Int, NEW y \in Int, NEW b \in Nat \ {0}
  PROVE  /\ ((x % b) + (y % b)) % b = (x + y) % b
         /\ ((x % b) - (y % b)) % b = (x - y) % b
         /\ ((x % b) * (y % b)) % b = (x * y) % b
  <1>1. PICK u \in 0 .. b - 1, z \in Int : u = x % b /\ x = u + b * z
    BY RestOf, Division
  <1>2. PICK v \in 0 .. b - 1, w \in Int : v = y % b /\ y = v + b * w
    BY RestOf, Division
  <1>3. PICK p, q \in Int : p = b * z /\ q = b * w /\ x = u + p /\ y = v + q
    <2>1. PICK p, q \in Int : p = b * z /\ q = b * w BY Products
    <2>2. x = u + p /\ y = v + q BY <1>1, <1>2, <2>1
    <2> QED BY <2>1, <2>2
  <1>4. (u + v) % b = (x + y) % b
    <2>1. PICK e \in Int : e = z + w OBVIOUS
    <2>2. b * e = p + q BY <1>3, <2>1, Products
    <2>3. PICK s \in Int : s = u + v OBVIOUS
    <2>4. x + y = s + b * e
      <3>1. PICK n \in Int : n = b * e BY Products
      <3>2. n = p + q BY <2>2, <3>1
      <3> QED BY <1>3, <2>3, <3>1, <3>2
    <2>5. (s + b * e) % b = s % b BY Congruent
    <2> QED BY <2>3, <2>4, <2>5
  <1>5. (u - v) % b = (x - y) % b
    <2>1. PICK e \in Int : e = z - w OBVIOUS
    <2>2. b * e = p - q BY <1>3, <2>1, Products
    <2>3. PICK s \in Int : s = u - v OBVIOUS
    <2>4. x - y = s + b * e
      <3>1. PICK n \in Int : n = b * e BY Products
      <3>2. n = p - q BY <2>2, <3>1
      <3> QED BY <1>3, <2>3, <3>1, <3>2
    <2>5. (s + b * e) % b = s % b BY Congruent
    <2> QED BY <2>3, <2>4, <2>5
  <1>6. (u * v) % b = (x * y) % b
    <2>1. PICK s \in Int : s = u * v BY Products
    <2>2. PICK e1, e2, e3 \in Int : e1 = u * w /\ e2 = z * v /\ e3 = z * q BY Products
    <2>3. PICK e \in Int : e = e1 + e2 + e3 OBVIOUS
    <2>4. x * y = (u + p) * (v + q) BY <1>1, <1>2, <1>3
    <2>5. (u + p) * (v + q) = u * v + u * q + p * v + p * q
      BY Products
    <2>6. u * q = b * e1
      BY <1>3, <2>2, Products
    <2>7. p * v = b * e2 /\ p * q = b * e3
      BY <1>3, <2>2, Products
    <2>8. b * e = b * e1 + b * e2 + b * e3
      BY <2>3, Products
    <2>9. x * y = s + b * e
      BY <2>1, <2>4, <2>5, <2>6, <2>7, <2>8, Products
    <2>10. (s + b * e) % b = s % b BY Congruent
    <2> QED BY <2>1, <2>9, <2>10
  <1> QED BY <1>1, <1>2, <1>4, <1>5, <1>6

-----------------------------------------------------------------------------
(* A word and the set of its bits.                                         *)

Digits(s) ==
    CHOOSE below : below = [n \in Nat |->
        IF n = 0 THEN 0 ELSE below[n - 1] + (IF n - 1 \in s THEN Pow2[n - 1] ELSE 0)]

LEMMA FromBitsIs == \A s : FromBits(s) = Digits(s)[XLen]
  BY Zenon DEF FromBits, Digits

LEMMA DigitsEquation ==
  ASSUME NEW s
  PROVE  /\ Digits(s)[0] = 0
         /\ \A n \in Nat : Digits(s)[n + 1] = Digits(s)[n] + (IF n \in s THEN Pow2[n] ELSE 0)
  <1> DEFINE term(k) == IF k \in s THEN Pow2[k] ELSE 0
             F == [p \in Nat \X Int |-> p[2] + (IF p[1] = 0 THEN 0 ELSE term(p[1] - 1))]
  <1>1. \A k \in Nat : term(k) \in Int
    BY Pow2Type
  <1>2. \A n \in Nat : \A v \in Int :
           F[<<n, v>>] = v + (IF n = 0 THEN 0 ELSE term(n - 1))
    OBVIOUS
  <1>3. F \in [Nat \X Int -> Int] /\ 0 \in Int
    <2>1. ASSUME NEW p \in Nat \X Int
          PROVE  p[2] + (IF p[1] = 0 THEN 0 ELSE term(p[1] - 1)) \in Int
      <3>1. p[1] # 0 => p[1] - 1 \in Nat OBVIOUS
      <3> HIDE DEF term
      <3> QED BY <1>1, <3>1
    <2> QED BY <2>1
  <1> HIDE DEF F, term
  <1>4. PICK f \in [Nat -> Int] : \A n \in Nat : f[n] = IF n = 0 THEN 0 ELSE F[<<n, f[n - 1]>>]
    BY <1>3, Recursion
  <1>5. ASSUME NEW n \in Nat PROVE f[n] = IF n = 0 THEN 0 ELSE f[n - 1] + term(n - 1)
    <2>1. n # 0 => n - 1 \in Nat OBVIOUS
    <2>2. n # 0 => f[n - 1] \in Int BY <2>1
    <2> QED BY <1>2, <1>4, <2>2
  <1>6. f = [n \in Nat |->
               IF n = 0 THEN 0 ELSE f[n - 1] + (IF n - 1 \in s THEN Pow2[n - 1] ELSE 0)]
    BY <1>5 DEF term
  <1>7. Digits(s) = [n \in Nat |->
          IF n = 0 THEN 0 ELSE Digits(s)[n - 1] + (IF n - 1 \in s THEN Pow2[n - 1] ELSE 0)]
    BY <1>6 DEF Digits
  <1>8. ASSUME NEW n \in Nat
        PROVE  Digits(s)[n + 1] = Digits(s)[n] + (IF n \in s THEN Pow2[n] ELSE 0)
    <2>1. n + 1 \in Nat /\ n + 1 # 0 /\ (n + 1) - 1 = n OBVIOUS
    <2> QED BY <1>7, <2>1
  <1> QED BY <1>7, <1>8

LEMMA DigitsRange == \A s : \A n \in Nat : Digits(s)[n] \in 0 .. Pow2[n] - 1
  <1> TAKE s
  <1> DEFINE T == {k \in Nat : Digits(s)[k] \notin 0 .. Pow2[k] - 1}
  <1>1. SUFFICES ASSUME T # {} PROVE FALSE
    OBVIOUS
  <1>2. PICK k \in T : \A y \in T : k <= y
    <2>1. T \subseteq Nat OBVIOUS
    <2> HIDE DEF T
    <2> QED BY <1>1, <2>1, LeastNumber
  <1>3. k \in Nat /\ Digits(s)[k] \notin 0 .. Pow2[k] - 1 OBVIOUS
  <1>4. k # 0 BY <1>3, Pow2Step, DigitsEquation
  <1>5. PICK j \in Nat : k = j + 1 /\ j \notin T
    <2>1. k - 1 \in Nat /\ k - 1 \notin T /\ k = (k - 1) + 1 BY <1>2, <1>3, <1>4
    <2> QED BY <2>1
  <1>6. PICK p \in Nat \ {0} : p = Pow2[j] /\ Pow2[k] = 2 * p BY <1>5, Pow2Type, Pow2Step
  <1>7. PICK d \in 0 .. p - 1 : d = Digits(s)[j] BY <1>5, <1>6
  <1>8. Digits(s)[k] = d \/ Digits(s)[k] = d + p
    BY <1>5, <1>6, <1>7, DigitsEquation
  <1> QED BY <1>3, <1>6, <1>7, <1>8

LEMMA FullIsPow2 == Full = Pow2[XLen] /\ XLen \in Nat \ {0} /\ Full \in Nat \ {0, 1} /\ Half < Full
  <1>1. PICK h \in Nat \ {0, 1}, k \in Nat \ {0} : h = Half /\ k = HalfBits /\ h = Pow2[k]
    BY WordAssumption
  <1>2. Pow2[k + k] = h * h
    BY <1>1, Pow2Sum
  <1>3. 2 * k = k + k /\ k + k \in Nat \ {0}
    OBVIOUS
  <1>4. h * h \in Nat \ {0, 1} /\ h < h * h
    <2>1. 2 * h <= h * h /\ h * h \in Int BY Grow, Products
    <2> QED BY <2>1
  <1> QED BY <1>1, <1>2, <1>3, <1>4 DEF Full, XLen

LEMMA FromBitsType == \A s : FromBits(s) \in Word
  BY FromBitsIs, DigitsRange, FullIsPow2 DEF Word

\* The n bits at the end of a number are what 2^n leaves of it.
LEMMA DigitsOf ==
  ASSUME NEW a \in Nat
  PROVE  \A n \in 0 .. XLen : Digits(Bits(a))[n] = a % Pow2[n]
  <1> DEFINE T == {k \in Nat : k <= XLen /\ Digits(Bits(a))[k] # a % Pow2[k]}
  <1>1. SUFFICES ASSUME T # {} PROVE FALSE
    BY FullIsPow2
  <1>2. PICK k \in T : \A y \in T : k <= y
    <2>1. T \subseteq Nat OBVIOUS
    <2> HIDE DEF T
    <2> QED BY <1>1, <2>1, LeastNumber
  <1>3. k \in Nat /\ k <= XLen /\ Digits(Bits(a))[k] # a % Pow2[k] /\ XLen \in Nat
    BY FullIsPow2
  <1>4. k # 0
    <2>1. a % 1 = 0 OBVIOUS
    <2> QED BY <1>3, <2>1, Pow2Step, DigitsEquation
  <1>5. PICK j \in Nat : k = j + 1 /\ j \notin T /\ j \in 0 .. XLen - 1
    <2>1. k - 1 \in Nat /\ k - 1 \notin T /\ k = (k - 1) + 1 /\ k - 1 \in 0 .. XLen - 1
      BY <1>2, <1>3, <1>4
    <2> QED BY <2>1
  <1>6. PICK p \in Nat \ {0} : p = Pow2[j] /\ Pow2[k] = 2 * p
    BY <1>5, Pow2Type, Pow2Step
  <1>7. Digits(Bits(a))[j] = a % p
    BY <1>3, <1>5, <1>6
  <1>8. PICK q \in Nat, r \in 0 .. p - 1 : q = a \div p /\ r = a % p /\ a = p * q + r
    BY DivisionNat
  <1>9. PICK t \in Nat, e \in 0 .. 1 : e = q % 2 /\ q = 2 * t + e
    <2>1. q \div 2 \in Nat /\ q % 2 \in 0 .. 1 /\ q = 2 * (q \div 2) + (q % 2) OBVIOUS
    <2> QED BY <2>1
  <1>10. j \in Bits(a) <=> e = 1
    BY <1>5, <1>6, <1>8, <1>9 DEF Bits
  <1>11. Digits(Bits(a))[k] = r + (IF e = 1 THEN p ELSE 0)
    BY <1>5, <1>6, <1>7, <1>8, <1>10, DigitsEquation
  <1>12. PICK m \in Nat \ {0} : m = 2 * p
    OBVIOUS
  <1>13. PICK x \in Int : x = p * t
    BY Products
  <1>14. p * q = 2 * x + p * e
    BY <1>9, <1>13, Products
  <1>15. m * t = 2 * x
    BY <1>12, <1>13, Products
  <1>16. CASE e = 0
    <2>1. a = m * t + r /\ r \in 0 .. m - 1
      <3>1. p * e = 0 BY <1>16
      <3> QED BY <1>8, <1>12, <1>13, <1>14, <1>15, <3>1
    <2>2. a % m = r BY <2>1, OneQuotient
    <2> QED BY <1>3, <1>6, <1>11, <1>12, <1>16, <2>2
  <1>17. CASE e = 1
    <2>0. PICK c \in Int : c = p + r OBVIOUS
    <2>1. a = m * t + c /\ c \in 0 .. m - 1
      <3>1. p * e = p BY <1>17
      <3> QED BY <1>8, <1>12, <1>13, <1>14, <1>15, <2>0, <3>1
    <2>2. a % m = c BY <2>1, OneQuotient
    <2> QED BY <1>3, <1>6, <1>11, <1>12, <1>17, <2>0, <2>2
  <1> QED BY <1>16, <1>17

LEMMA BitsOfWord == \A a \in Word : FromBits(Bits(a)) = a
  <1> TAKE a \in Word
  <1>1. a \in Nat /\ a \in 0 .. Full - 1 /\ XLen \in 0 .. XLen
    BY FullIsPow2 DEF Word
  <1>2. FromBits(Bits(a)) = a % Full
    BY <1>1, FromBitsIs, DigitsOf, FullIsPow2
  <1> QED BY <1>1, <1>2, FullIsPow2, Small

\* The sums that a disjunction and an exclusive one come to.
LEMMA BitSums ==
  ASSUME NEW s, NEW t
  PROVE  /\ FromBits(s \cup t) = FromBits(s) + FromBits(t \ s)
         /\ FromBits((s \cup t) \ (s \cap t)) = FromBits(s) + FromBits(t) - 2 * FromBits(s \cap t)
  <1> DEFINE Holds(n) ==
               /\ Digits(s \cup t)[n] = Digits(s)[n] + Digits(t \ s)[n]
               /\ Digits((s \cup t) \ (s \cap t))[n]
                    = Digits(s)[n] + Digits(t)[n] - 2 * Digits(s \cap t)[n]
             T == {k \in Nat : ~Holds(k)}
  <1>1. ASSUME T # {} PROVE FALSE
    <2>1. PICK k \in T : \A y \in T : k <= y
      <3>1. T \subseteq Nat OBVIOUS
      <3> HIDE DEF T
      <3> QED BY <1>1, <3>1, LeastNumber
    <2>2. k \in Nat /\ ~Holds(k) OBVIOUS
    <2>3. k # 0
      <3>1. Holds(0) BY DigitsEquation
      <3> HIDE DEF Holds
      <3> QED BY <2>2, <3>1
    <2>4. PICK j \in Nat : k = j + 1 /\ Holds(j)
      <3>1. k - 1 \in Nat /\ k = (k - 1) + 1 /\ ~(k <= k - 1) BY <2>2, <2>3
      <3>2. k - 1 \notin T
        <4> HIDE DEF T
        <4> QED BY <2>1, <3>1
      <3>3. Holds(k - 1)
        <4> HIDE DEF Holds
        <4> QED BY <3>1, <3>2
      <3> HIDE DEF Holds
      <3> QED BY <3>1, <3>3
    <2>5. PICK p \in Int : p = Pow2[j] BY Pow2Type
    <2>6. PICK a, b, c, d, x, y \in Int :
            /\ a = Digits(s)[j] /\ b = Digits(t)[j] /\ c = Digits(s \cap t)[j]
            /\ d = Digits(t \ s)[j] /\ x = Digits(s \cup t)[j]
            /\ y = Digits((s \cup t) \ (s \cap t))[j]
      <3>1. \A r : Digits(r)[j] \in Int BY DigitsRange
      <3> QED BY <3>1
    <2>7. x = a + d /\ y = a + b - 2 * c
      BY <2>4, <2>6
    <2>8. /\ Digits(s)[k] = a + (IF j \in s THEN p ELSE 0)
          /\ Digits(t)[k] = b + (IF j \in t THEN p ELSE 0)
          /\ Digits(s \cap t)[k] = c + (IF j \in s /\ j \in t THEN p ELSE 0)
          /\ Digits(t \ s)[k] = d + (IF j \in t /\ j \notin s THEN p ELSE 0)
          /\ Digits(s \cup t)[k] = x + (IF j \in s \/ j \in t THEN p ELSE 0)
          /\ Digits((s \cup t) \ (s \cap t))[k]
               = y + (IF (j \in s \/ j \in t) /\ ~(j \in s /\ j \in t) THEN p ELSE 0)
      BY <2>4, <2>5, <2>6, DigitsEquation
    <2>9. Holds(k)
      <3>1. CASE j \in s /\ j \in t BY <2>7, <2>8, <3>1
      <3>2. CASE j \in s /\ j \notin t BY <2>7, <2>8, <3>2
      <3>3. CASE j \notin s /\ j \in t BY <2>7, <2>8, <3>3
      <3>4. CASE j \notin s /\ j \notin t BY <2>7, <2>8, <3>4
      <3> QED BY <3>1, <3>2, <3>3, <3>4
    <2> HIDE DEF Holds
    <2> QED BY <2>2, <2>9
  <1>2. Holds(XLen)
    <2> HIDE DEF Holds
    <2> QED BY <1>1, FullIsPow2
  <1> QED BY <1>2, FromBitsIs

-----------------------------------------------------------------------------
(* The upper word of a product.                                            *)

LEMMA Halved ==
  ASSUME NEW x \in Word
  PROVE  \E hi \in 0 .. Half - 1, lo \in 0 .. Half - 1 :
            hi = x \div Half /\ lo = x % Half /\ x = Half * hi + lo
  <1>1. PICK h \in Nat \ {0} : h = Half BY WordAssumption
  <1>2. x \in Nat /\ x < h * h BY <1>1 DEF Word, Full
  <1>3. PICK q \in Nat, r \in 0 .. h - 1 : q = x \div h /\ r = x % h /\ x = h * q + r
    BY <1>2, DivisionNat
  <1>4. q < h
    <2> SUFFICES ASSUME h <= q PROVE FALSE
      OBVIOUS
    <2>1. h * h <= q * h BY <2>1, Grow
    <2>2. PICK y, z \in Int : y = h * h /\ z = h * q /\ z = q * h BY Products
    <2> QED BY <1>2, <1>3, <2>1, <2>2
  <1> QED BY <1>1, <1>3, <1>4

\* multiply_high_u64 adds the cross products and their carries in the right
\* places: it is the upper word of the product.
LEMMA UpperWord ==
  ASSUME NEW u \in Word, NEW v \in Word
  PROVE  MultiplyHigh(u, v) = (u * v) \div Full
  <1>1. PICK h \in Nat \ {0} : h = Half BY WordAssumption
  <1>2. PICK uh \in 0 .. h - 1, ul \in 0 .. h - 1 :
           uh = u \div h /\ ul = u % h /\ u = h * uh + ul
    BY <1>1, Halved
  <1>3. PICK vh \in 0 .. h - 1, vl \in 0 .. h - 1 :
           vh = v \div h /\ vl = v % h /\ v = h * vh + vl
    BY <1>1, Halved
  <1>4. PICK A, B, C, D \in Nat : A = uh * vh /\ B = uh * vl /\ C = ul * vh /\ D = ul * vl
    <2>1. \A x, y \in Nat : x * y \in Nat OBVIOUS
    <2> QED BY <2>1
  <1>5. PICK p \in Nat, r \in 0 .. h - 1 : p = D \div h /\ r = D % h /\ D = h * p + r
    BY DivisionNat
  <1>6. PICK t \in Nat : t = B + p OBVIOUS
  <1>7. PICK t1 \in Nat, t0 \in 0 .. h - 1 : t1 = t \div h /\ t0 = t % h /\ t = h * t1 + t0
    BY DivisionNat
  <1>8. PICK c \in Nat : c = C + t0 OBVIOUS
  <1>9. PICK k \in Nat, s \in 0 .. h - 1 : k = c \div h /\ s = c % h /\ c = h * k + s
    BY DivisionNat
  <1>10. MultiplyHigh(u, v) = A + t1 + k
    BY <1>1, <1>2, <1>3, <1>4, <1>5, <1>6, <1>7, <1>8, <1>9 DEF MultiplyHigh
  <1>11. PICK F \in Nat \ {0} : F = Full /\ F = h * h
    BY <1>1, FullIsPow2 DEF Full
  <1>12. u * v = F * A + h * B + h * C + D
    <2>1. (h * uh + ul) * (h * vh + vl)
            = (h * uh) * (h * vh) + (h * uh) * vl + ul * (h * vh) + ul * vl
      <3>1. PICK x, y \in Int : x = h * uh /\ y = h * vh BY Products
      <3>2. (x + ul) * (y + vl) = x * y + x * vl + ul * y + ul * vl BY Products
      <3> QED BY <3>1, <3>2
    <2>2. (h * uh) * (h * vh) = F * A
      <3>1. (h * uh) * (h * vh) = (h * h) * (uh * vh) OBVIOUS
      <3> QED BY <1>4, <1>11, <3>1
    <2>3. (h * uh) * vl = h * B /\ ul * (h * vh) = h * C
      <3>1. (h * uh) * vl = h * (uh * vl) /\ ul * (h * vh) = h * (ul * vh) OBVIOUS
      <3> QED BY <1>4, <3>1
    <2> QED BY <1>2, <1>3, <1>4, <2>1, <2>2, <2>3
  <1>13. h * t = F * t1 + h * t0
    <2>1. h * (h * t1 + t0) = (h * h) * t1 + h * t0 OBVIOUS
    <2> QED BY <1>7, <1>11, <2>1
  <1>14. h * c = F * k + h * s
    <2>1. h * (h * k + s) = (h * h) * k + h * s OBVIOUS
    <2> QED BY <1>9, <1>11, <2>1
  <1>15. h * t = h * B + h * p /\ h * c = h * C + h * t0
    BY <1>6, <1>8, Products
  <1>16. F * (A + t1 + k) = F * A + F * t1 + F * k
    OBVIOUS
  <1>17. PICK low \in Int : low = h * s + r BY Products
  <1>18. u * v = F * (A + t1 + k) + low
    <2>1. PICK FA, Ft, Fk, hB, hC, hp, hs, h0, X \in Int :
             /\ FA = F * A /\ Ft = F * t1 /\ Fk = F * k /\ hB = h * B /\ hC = h * C
             /\ hp = h * p /\ hs = h * s /\ h0 = h * t0 /\ X = u * v
      <3>1. u \in Int /\ v \in Int BY FullIsPow2 DEF Word
      <3> QED BY <3>1, Products
    <2>2. X = FA + hB + hC + D /\ D = hp + r BY <1>5, <1>12, <2>1
    <2>3. hB + hp = Ft + h0 /\ hC + h0 = Fk + hs BY <1>13, <1>14, <1>15, <2>1
    <2>4. X = FA + Ft + Fk + (hs + r) BY <2>2, <2>3
    <2>5. low = hs + r BY <1>17, <2>1
    <2> QED BY <1>16, <2>1, <2>4, <2>5
  <1>19. low \in 0 .. F - 1
    <2>1. s * h <= (h - 1) * h /\ (h - 1) * h = h * h - h /\ s * h = h * s
      BY Grow, Products
    <2>2. PICK x, y \in Int : x = h * s /\ y = h * h BY Products
    <2>3. x >= 0 BY <2>2
    <2> QED BY <1>11, <1>17, <2>1, <2>2, <2>3
  <1>20. PICK X \in Int, m \in Int : X = u * v /\ m = A + t1 + k
    <2>1. u \in Int /\ v \in Int BY FullIsPow2 DEF Word
    <2> QED BY <2>1, Products
  <1>21. X \div F = m
    <2>1. X = F * m + low BY <1>18, <1>20
    <2> QED BY <1>19, <2>1, OneQuotient
  <1> QED BY <1>10, <1>11, <1>20, <1>21

LEMMA UpperWordType == \A u, v \in Word : (u * v) \div Full \in Word
  <1> TAKE u, v \in Word
  <1>1. PICK F \in Nat \ {0} : F = Full /\ u \in 0 .. F - 1 /\ v \in 0 .. F - 1
    BY FullIsPow2 DEF Word
  <1>2. PICK X \in Nat : X = u * v
    <2>1. \A x, y \in Nat : x * y \in Nat OBVIOUS
    <2>2. u \in Nat /\ v \in Nat BY <1>1
    <2> QED BY <2>1, <2>2
  <1>3. PICK q \in Nat, r \in 0 .. F - 1 : q = X \div F /\ X = F * q + r
    BY DivisionNat
  <1>4. q < F
    <2> SUFFICES ASSUME F <= q PROVE FALSE
      OBVIOUS
    <2>1. F * F <= q * F /\ q * F = F * q BY Grow, Products
    <2>2. u * v <= F * v /\ v * F <= F * F /\ F * v = v * F BY <1>1, Grow, Products
    <2>3. F * F - F < F * F OBVIOUS
    <2>4. (F - 1) * F = F * F - F /\ v * F <= (F - 1) * F BY <1>1, Grow, Products
    <2>5. PICK x, y, z \in Int : x = F * F /\ y = F * q /\ z = F * v
      <3>1. v \in Int BY <1>1
      <3> QED BY <3>1, Products
    <2> QED BY <1>2, <1>3, <2>1, <2>2, <2>3, <2>4, <2>5
  <1> QED BY <1>1, <1>2, <1>3, <1>4 DEF Word

-----------------------------------------------------------------------------
(* The words of Isa are those of Execute.                                  *)

LEMMA SameWords ==
  /\ Architecture!XLen = XLen /\ Architecture!Full = Full
  /\ \A x, n : Architecture!Signed(x, n) = Signed(x, n)
  /\ Architecture!Pow2 = Pow2
  BY DEF Architecture!XLen, XLen, Architecture!Full, Full, Architecture!Signed, Signed,
         Architecture!Pow2, Pow2

LEMMA SameBits ==
  /\ \A x : Architecture!Bits(x) = Bits(x)
  /\ \A s : Architecture!FromBits(s) = FromBits(s)
  BY SameWords DEF Architecture!Bits, Bits, Architecture!FromBits, FromBits

-----------------------------------------------------------------------------
(* What the handlers compute is what the manual says.                      *)

LEMMA WordFacts ==
  /\ Half \in Nat \ {0, 1} /\ Full \in Nat \ {0, 1} /\ HalfBits \in Nat \ {0} /\ XLen \in Nat \ {0}
  /\ Full = Half * Half
  BY WordAssumption, FullIsPow2 DEF Full

LEMMA SignedType == \A x, n \in Int : Signed(x, n) \in Int
  <1> TAKE x, n \in Int
  <1>1. n \div 2 \in Int OBVIOUS
  <1> QED BY <1>1 DEF Signed

\* A number and its signed reading leave the same.
LEMMA SignedRest ==
  ASSUME NEW x \in Int, NEW n \in Nat \ {0}
  PROVE  Signed(x, n) % n = x % n
  <1>1. CASE x < n \div 2 BY <1>1 DEF Signed
  <1>2. CASE ~(x < n \div 2)
    <2>1. Signed(x, n) = x - n BY <1>2 DEF Signed
    <2>2. PICK z \in Int : z = -1 OBVIOUS
    <2>3. x + n * z = x - n BY <2>2
    <2>4. (x + n * z) % n = x % n BY Congruent
    <2> QED BY <2>1, <2>3, <2>4
  <1> QED BY <1>1, <1>2

LEMMA HalfOf == \A x \in Int : x % Half \in 0 .. Half - 1 /\ x % Half \in Int
  BY WordFacts, Division

Value(f, a, b, n, k) == Architecture!Value(f, a, b, n, k)
Result(f, a, b) == Architecture!Result(f, a, b)

LEMMA ResultFull ==
  ASSUME NEW f, f \notin DOMAIN Architecture!OnHalves, NEW a, NEW b
  PROVE  Result(f, a, b) = Value(f, a, b, Full, XLen) % Full
  BY SameWords DEF Result, Value, Architecture!Result

LEMMA ResultHalf ==
  ASSUME NEW f \in DOMAIN Architecture!OnHalves, NEW a, NEW b
  PROVE  Result(f, a, b) =
           ExtendHalf(Value(Architecture!OnHalves[f], a % Half, b % Half, Half, HalfBits))
  BY SameWords DEF Result, Value, Architecture!Result, ExtendHalf

LEMMA ExtendRest ==
  ASSUME NEW x, NEW y, x % Half = y % Half
  PROVE  ExtendHalf(x) = ExtendHalf(y)
  BY DEF ExtendHalf

LEMMA ExtendType == \A x \in Int : ExtendHalf(x) \in Word
  <1> TAKE x \in Int
  <1>1. x % Half \in Int /\ Half \in Int BY HalfOf, WordFacts
  <1>2. Signed(x % Half, Half) \in Int BY <1>1, SignedType
  <1> QED BY <1>2, WordFacts, Division DEF ExtendHalf, Word

LEMMA WordRest == \A x \in Word : x % Full = x /\ x \in Int /\ x \in Nat
  BY WordFacts, Small DEF Word

\* Addition, subtraction and comparison.
LEMMA SumResults ==
  ASSUME NEW a \in Word, NEW b \in Word
  PROVE  /\ Base("add", a, b) = Result("add", a, b)
         /\ Base("sub", a, b) = Result("sub", a, b)
         /\ Base("slt", a, b) = Result("slt", a, b)
         /\ Base("sltu", a, b) = Result("sltu", a, b)
  <1>1. \A f \in {"add", "sub", "slt", "sltu"} : f \notin DOMAIN Architecture!OnHalves
    BY DEF Architecture!OnHalves
  <1>2. 0 % Full = 0 /\ 1 % Full = 1
    BY WordFacts, Small
  <1>3. Value("add", a, b, Full, XLen) = a + b
    BY DEF Value, Architecture!Value
  <1>4. Value("sub", a, b, Full, XLen) = a - b
    BY DEF Value, Architecture!Value
  <1>5. Value("slt", a, b, Full, XLen) = IF Signed(a, Full) < Signed(b, Full) THEN 1 ELSE 0
    BY SameWords DEF Value, Architecture!Value
  <1>6. Value("sltu", a, b, Full, XLen) = IF a < b THEN 1 ELSE 0
    BY DEF Value, Architecture!Value
  <1>7. /\ Base("add", a, b) = (a + b) % Full
        /\ Base("sub", a, b) = (a - b) % Full
        /\ Base("slt", a, b) = Less(Signed(a, Full), Signed(b, Full))
        /\ Base("sltu", a, b) = Less(a, b)
    BY DEF Base
  <1>8. /\ Less(Signed(a, Full), Signed(b, Full)) \in {0, 1} /\ Less(a, b) \in {0, 1}
    BY DEF Less
  <1> QED BY <1>1, <1>2, <1>3, <1>4, <1>5, <1>6, <1>7, ResultFull DEF Less

LEMMA BitResults ==
  ASSUME NEW a \in Word, NEW b \in Word
  PROVE  /\ Base("and", a, b) = Result("and", a, b)
         /\ Base("or", a, b) = Result("or", a, b)
         /\ Base("xor", a, b) = Result("xor", a, b)
  <1> DEFINE A == Bits(a)
             B == Bits(b)
  <1>1. \A f \in {"and", "or", "xor"} : f \notin DOMAIN Architecture!OnHalves
    BY DEF Architecture!OnHalves
  <1>2. FromBits(A) = a /\ FromBits(B) = b
    BY BitsOfWord
  <1>3. /\ Base("and", a, b) = FromBits(A \cap B)
        /\ Base("or", a, b) = FromBits(A \cup B)
        /\ Base("xor", a, b) = FromBits((A \cup B) \ (A \cap B))
    BY DEF Base
  <1>4. Value("and", a, b, Full, XLen) = FromBits({i \in A : i \in B})
    BY SameBits DEF Value, Architecture!Value
  <1>5. Value("or", a, b, Full, XLen) = a + FromBits({i \in B : i \notin A})
    BY SameBits DEF Value, Architecture!Value
  <1>6. Value("xor", a, b, Full, XLen) = a + b - 2 * FromBits({i \in A : i \in B})
    BY SameBits DEF Value, Architecture!Value
  <1> HIDE DEF A, B
  <1>7. {i \in A : i \in B} = A \cap B /\ {i \in B : i \notin A} = B \ A
    OBVIOUS
  <1>8. /\ FromBits(A \cup B) = a + FromBits(B \ A)
        /\ FromBits((A \cup B) \ (A \cap B)) = a + b - 2 * FromBits(A \cap B)
    BY <1>2, BitSums
  <1>9. \A s : FromBits(s) % Full = FromBits(s)
    BY FromBitsType, WordRest
  <1> QED BY <1>1, <1>3, <1>4, <1>5, <1>6, <1>7, <1>8, <1>9, ResultFull

\* Shifts: the amount in a half is cut from the lower half of a word as from
\* the whole.
LEMMA ShiftAmounts ==
  ASSUME NEW b \in Word
  PROVE  /\ ShamtW(b) = (b % Half) % HalfBits
         /\ Shamt(b) \in Nat /\ ShamtW(b) \in Nat
  <1>1. PICK h \in Nat \ {0}, k \in Nat \ {0} : h = Half /\ k = HalfBits /\ h % k = 0
    BY WordAssumption
  <1>2. b \in Int BY WordRest
  <1>3. PICK x \in Int : h = k * x
    <2>1. PICK x \in Int, r \in 0 .. k - 1 : r = h % k /\ h = k * x + r
      BY Division
    <2>2. h = k * x BY <1>1, <2>1
    <2> QED BY <2>2
  <1>4. PICK z \in Int : b % h = b - h * z
    BY <1>2, RestOf
  <1>5. PICK y \in Int : y = -(x * z)
    <2>1. x * z \in Int BY Products
    <2> QED BY <2>1
  <1>6. b - h * z = b + k * y
    <2>1. (k * x) * z = k * (x * z) BY Products
    <2>2. PICK p \in Int : p = x * z BY Products
    <2>3. k * (-p) = -(k * p) OBVIOUS
    <2>4. PICK q \in Int : q = k * p BY Products
    <2>5. h * z = q BY <1>3, <2>1, <2>2, <2>4
    <2>6. k * y = -q BY <1>5, <2>2, <2>3, <2>4
    <2> QED BY <1>2, <2>5, <2>6
  <1>7. (b + k * y) % k = b % k
    BY <1>2, Congruent
  <1>8. b % XLen \in Nat /\ b % k \in Nat
    BY <1>2, WordFacts, Division
  <1> QED BY <1>1, <1>4, <1>6, <1>7, <1>8 DEF ShamtW, Shamt

LEMMA ShiftResults ==
  ASSUME NEW a \in Word, NEW b \in Word
  PROVE  /\ Base("sll", a, b) = Result("sll", a, b)
         /\ Base("srl", a, b) = Result("srl", a, b)
         /\ Base("sra", a, b) = Result("sra", a, b)
  <1>1. \A f \in {"sll", "srl", "sra"} : f \notin DOMAIN Architecture!OnHalves
    BY DEF Architecture!OnHalves
  <1>2. Value("sll", a, b, Full, XLen) = a * Pow2[b % XLen]
    BY SameWords DEF Value, Architecture!Value
  <1>3. Value("srl", a, b, Full, XLen) = a \div Pow2[b % XLen]
    BY SameWords DEF Value, Architecture!Value
  <1>4. Value("sra", a, b, Full, XLen) = Signed(a, Full) \div Pow2[b % XLen]
    BY SameWords DEF Value, Architecture!Value
  <1>5. /\ Base("sll", a, b) = (a * Pow2[b % XLen]) % Full
        /\ Base("srl", a, b) = a \div Pow2[b % XLen]
        /\ Base("sra", a, b) = (Signed(a, Full) \div Pow2[b % XLen]) % Full
    BY DEF Base, Shamt
  <1>6. a \div Pow2[b % XLen] \in Word
    <2>1. PICK p \in Nat \ {0} : p = Pow2[b % XLen]
      BY ShiftAmounts, Pow2Type DEF Shamt
    <2>2. a \in Nat BY WordRest
    <2>3. PICK q \in Nat, r \in 0 .. p - 1 : q = a \div p /\ a = p * q + r
      BY <2>2, DivisionNat
    <2>4. q <= a
      <3>1. 1 * q <= p * q BY Grow
      <3>2. PICK y \in Int : y = p * q BY Products
      <3> QED BY <2>3, <3>1, <3>2
    <2> QED BY <2>1, <2>2, <2>3, <2>4, WordFacts DEF Word
  <1> QED BY <1>1, <1>2, <1>3, <1>4, <1>5, <1>6, ResultFull, WordRest

LEMMA HalfSumResults ==
  ASSUME NEW a \in Word, NEW b \in Word
  PROVE  /\ Base("addw", a, b) = Result("addw", a, b)
         /\ Base("subw", a, b) = Result("subw", a, b)
  <1>1. /\ "addw" \in DOMAIN Architecture!OnHalves /\ Architecture!OnHalves["addw"] = "add"
        /\ "subw" \in DOMAIN Architecture!OnHalves /\ Architecture!OnHalves["subw"] = "sub"
    BY DEF Architecture!OnHalves
  <1>2. /\ Value("add", a % Half, b % Half, Half, HalfBits) = (a % Half) + (b % Half)
        /\ Value("sub", a % Half, b % Half, Half, HalfBits) = (a % Half) - (b % Half)
    BY DEF Value, Architecture!Value
  <1>3. Base("addw", a, b) = ExtendHalf(a + b) /\ Base("subw", a, b) = ExtendHalf(a - b)
    BY DEF Base
  <1>4. a \in Int /\ b \in Int BY WordRest
  <1>5. /\ ((a % Half) + (b % Half)) % Half = (a + b) % Half
        /\ ((a % Half) - (b % Half)) % Half = (a - b) % Half
    <2>1. PICK h \in Nat \ {0} : h = Half BY WordFacts
    <2>2. PICK x, y \in Int : x = a /\ y = b BY <1>4
    <2>3. /\ ((x % h) + (y % h)) % h = (x + y) % h
          /\ ((x % h) - (y % h)) % h = (x - y) % h
      BY RestOfSum
    <2> QED BY <2>1, <2>2, <2>3
  <1> QED BY <1>1, <1>2, <1>3, <1>5, ResultHalf, ExtendRest

LEMMA HalfShiftResults ==
  ASSUME NEW a \in Word, NEW b \in Word
  PROVE  /\ Base("sllw", a, b) = Result("sllw", a, b)
         /\ Base("srlw", a, b) = Result("srlw", a, b)
         /\ Base("sraw", a, b) = Result("sraw", a, b)
  <1>1. /\ "sllw" \in DOMAIN Architecture!OnHalves /\ Architecture!OnHalves["sllw"] = "sll"
        /\ "srlw" \in DOMAIN Architecture!OnHalves /\ Architecture!OnHalves["srlw"] = "srl"
        /\ "sraw" \in DOMAIN Architecture!OnHalves /\ Architecture!OnHalves["sraw"] = "sra"
    BY DEF Architecture!OnHalves
  <1>2. /\ Value("sll", a % Half, b % Half, Half, HalfBits) = (a % Half) * Pow2[ShamtW(b)]
        /\ Value("srl", a % Half, b % Half, Half, HalfBits) = (a % Half) \div Pow2[ShamtW(b)]
        /\ Value("sra", a % Half, b % Half, Half, HalfBits)
             = Signed(a % Half, Half) \div Pow2[ShamtW(b)]
    BY SameWords, ShiftAmounts DEF Value, Architecture!Value
  <1>3. /\ Base("sllw", a, b) = ExtendHalf((a % Half) * Pow2[ShamtW(b)])
        /\ Base("srlw", a, b) = ExtendHalf((a % Half) \div Pow2[ShamtW(b)])
        /\ Base("sraw", a, b) = ExtendHalf(Signed(a % Half, Half) \div Pow2[ShamtW(b)])
    BY DEF Base
  <1> QED BY <1>1, <1>2, <1>3, ResultHalf

\* A negative number is short of its word by the number of words.
LEMMA SignedIs ==
  ASSUME NEW n \in Nat \ {0}, NEW x \in 0 .. n - 1
  PROVE  \/ Signed(x, n) = x /\ ~(Signed(x, n) < 0) /\ x < n \div 2
         \/ Signed(x, n) = x - n /\ Signed(x, n) < 0 /\ x >= n \div 2
  BY DEF Signed

LEMMA QuotientMoved ==
  ASSUME NEW x \in Int, NEW n \in Nat \ {0}, NEW z \in Int
  PROVE  (x + n * z) \div n = (x \div n) + z
  <1>1. PICK q \in Int, r \in 0 .. n - 1 : q = x \div n /\ x = n * q + r
    BY Division
  <1>2. PICK p, y \in Int : p = n * q /\ y = n * z BY Products
  <1>3. PICK e \in Int : e = q + z OBVIOUS
  <1>4. n * e = p + y BY <1>2, <1>3, Products
  <1>5. PICK w \in Int : w = x + n * z BY <1>2
  <1>6. w = n * e + r
    <2>1. PICK m \in Int : m = n * e BY Products
    <2>2. m = p + y BY <1>4, <2>1
    <2> QED BY <1>1, <1>2, <1>5, <2>1, <2>2
  <1>7. w \div n = e BY <1>6, OneQuotient
  <1> QED BY <1>1, <1>3, <1>5, <1>7

LEMMA ProductResults ==
  ASSUME NEW a \in Word, NEW b \in Word
  PROVE  /\ Mul("mul", a, b) = Result("mul", a, b)
         /\ Mul("mulhu", a, b) = Result("mulhu", a, b)
         /\ Mul("mulhsu", a, b) = Result("mulhsu", a, b)
         /\ Mul("mulh", a, b) = Result("mulh", a, b)
  <1>1. \A f \in {"mul", "mulhu", "mulhsu", "mulh"} : f \notin DOMAIN Architecture!OnHalves
    BY DEF Architecture!OnHalves
  <1>2. PICK F \in Nat \ {0} : F = Full /\ a \in 0 .. F - 1 /\ b \in 0 .. F - 1
    BY WordFacts DEF Word
  <1>3. /\ Value("mul", a, b, Full, XLen) = a * b
        /\ Value("mulhu", a, b, Full, XLen) = (a * b) \div F
        /\ Value("mulhsu", a, b, Full, XLen) = (Signed(a, F) * b) \div F
        /\ Value("mulh", a, b, Full, XLen) = (Signed(a, F) * Signed(b, F)) \div F
    BY <1>2, SameWords DEF Value, Architecture!Value
  <1>4. PICK q \in Word : q = MultiplyHigh(a, b) /\ q = (a * b) \div F
    BY <1>2, UpperWord, UpperWordType
  <1>5. /\ Mul("mul", a, b) = (a * b) % F
        /\ Mul("mulhu", a, b) = q
        /\ Mul("mulhsu", a, b) = (q - Correction(a, b)) % F
        /\ Mul("mulh", a, b) = (q - Correction(a, b) - Correction(b, a)) % F
    BY <1>2, <1>4 DEF Mul
  <1>6. PICK d \in 0 .. 1 : Signed(a, F) = a - F * d /\ (Signed(a, F) < 0 <=> d = 1)
    <2>1. CASE Signed(a, F) = a /\ ~(Signed(a, F) < 0)
      <3>1. a - F * 0 = a BY <1>2
      <3> QED BY <2>1, <3>1
    <2>2. CASE Signed(a, F) = a - F /\ Signed(a, F) < 0
      <3>1. a - F * 1 = a - F BY <1>2
      <3> QED BY <2>2, <3>1
    <2> QED BY <1>2, <2>1, <2>2, SignedIs
  <1>7. PICK e \in 0 .. 1 : Signed(b, F) = b - F * e /\ (Signed(b, F) < 0 <=> e = 1)
    <2>1. CASE Signed(b, F) = b /\ ~(Signed(b, F) < 0)
      <3>1. b - F * 0 = b BY <1>2
      <3> QED BY <2>1, <3>1
    <2>2. CASE Signed(b, F) = b - F /\ Signed(b, F) < 0
      <3>1. b - F * 1 = b - F BY <1>2
      <3> QED BY <2>2, <3>1
    <2> QED BY <1>2, <2>1, <2>2, SignedIs
  <1>8. Correction(a, b) = d * b /\ Correction(b, a) = e * a
    <2>1. 0 * b = 0 /\ 1 * b = b /\ 0 * a = 0 /\ 1 * a = a BY <1>2
    <2> QED BY <1>2, <1>6, <1>7, <2>1 DEF Correction
  <1>9. PICK P, x, y, w \in Int : P = a * b /\ x = d * b /\ y = e * a /\ w = d * e
    <2>1. a \in Int /\ b \in Int BY <1>2
    <2> QED BY <2>1, Products
  <1>10. Mul("mulhsu", a, b) = Result("mulhsu", a, b)
    <2>1. PICK z \in Int : z = -x OBVIOUS
    <2>2. Signed(a, F) * b = P + F * z
      <3>1. a \in Int /\ b \in Int /\ d \in Int BY <1>2
      <3>2. (a - F * d) * b = a * b - (F * d) * b
        <4>1. F * d \in Int BY Products
        <4> QED BY <3>1, <4>1, Products
      <3>3. (F * d) * b = F * (d * b) BY <3>1, Products
      <3>4. F * z = -(F * x) BY <2>1
      <3>5. PICK m \in Int : m = F * x BY Products
      <3> QED BY <1>6, <1>9, <3>2, <3>3, <3>4, <3>5
    <2>3. (P + F * z) \div F = (P \div F) + z
      BY QuotientMoved
    <2>4. q \in Int BY WordRest
    <2>5. q + z = q - x BY <2>1, <2>4
    <2> QED BY <1>1, <1>2, <1>3, <1>4, <1>5, <1>8, <1>9, <2>2, <2>3, <2>5, ResultFull
  <1>11. Mul("mulh", a, b) = Result("mulh", a, b)
    <2>1. PICK m, n \in Int : m = F * d /\ n = F * e BY Products
    <2>2. PICK k \in Int : k = F * w BY Products
    <2>3. PICK z \in Int : z = k - x - y OBVIOUS
    <2>4. Signed(a, F) * Signed(b, F) = P + F * z
      <3>1. a \in Int /\ b \in Int /\ d \in Int /\ e \in Int BY <1>2
      <3>2. (a - m) * (b - n) = a * b - m * b - n * a + m * n
        BY <3>1, Products
      <3>3. m * b = F * x BY <1>9, <2>1, <3>1, Products
      <3>4. n * a = F * y BY <1>9, <2>1, <3>1, Products
      <3>5. m * n = F * k
        <4>1. (F * d) * (F * e) = F * (F * (d * e)) OBVIOUS
        <4> QED BY <1>9, <2>1, <2>2, <4>1
      <3>6. F * z = F * k - F * x - F * y
        BY <2>3
      <3>7. PICK Fx, Fy, Fk \in Int : Fx = F * x /\ Fy = F * y /\ Fk = F * k
        BY Products
      <3>8. F * z = Fk - Fx - Fy /\ (a - m) * (b - n) = P - Fx - Fy + Fk
        BY <1>9, <3>2, <3>3, <3>4, <3>5, <3>6, <3>7
      <3>9. (a - m) * (b - n) = P + F * z BY <3>7, <3>8
      <3> QED BY <1>6, <1>7, <2>1, <3>9
    <2>5. (P + F * z) \div F = (P \div F) + z
      BY QuotientMoved
    <2>6. q \in Int BY WordRest
    <2>7. PICK c \in Int : c = q - x - y BY <2>6
    <2>8. q + z = c + F * w BY <2>2, <2>3, <2>6, <2>7
    <2>9. (c + F * w) % F = c % F BY Congruent
    <2> QED BY <1>1, <1>2, <1>3, <1>4, <1>5, <1>8, <1>9, <2>4, <2>5, <2>7, <2>8, <2>9, ResultFull
  <1> QED BY <1>1, <1>2, <1>3, <1>4, <1>5, <1>10, <1>11, ResultFull, WordRest

LEMMA HalfProductResults ==
  ASSUME NEW a \in Word, NEW b \in Word
  PROVE  Mul("mulw", a, b) = Result("mulw", a, b)
  <1>1. "mulw" \in DOMAIN Architecture!OnHalves /\ Architecture!OnHalves["mulw"] = "mul"
    BY DEF Architecture!OnHalves
  <1>2. Value("mul", a % Half, b % Half, Half, HalfBits) = (a % Half) * (b % Half)
    BY DEF Value, Architecture!Value
  <1>3. Mul("mulw", a, b) = ExtendHalf(Signed(a % Half, Half) * Signed(b % Half, Half))
    BY DEF Mul
  <1>4. PICK h \in Nat \ {0} : h = Half BY WordFacts
  <1>5. PICK x \in 0 .. h - 1, y \in 0 .. h - 1 : x = a % h /\ y = b % h
    BY <1>4, HalfOf, WordRest
  <1>6. PICK s, t \in Int : s = Signed(x, h) /\ t = Signed(y, h)
    <2>1. x \in Int /\ y \in Int /\ h \in Int OBVIOUS
    <2> QED BY <2>1, SignedType
  <1>7. s % h = x % h /\ t % h = y % h
    BY <1>6, SignedRest
  <1>8. (s * t) % h = (x * y) % h
    <2>1. ((s % h) * (t % h)) % h = (s * t) % h BY RestOfSum
    <2>2. ((x % h) * (y % h)) % h = (x * y) % h
      <3>1. x \in Int /\ y \in Int OBVIOUS
      <3> QED BY <3>1, RestOfSum
    <2> QED BY <1>7, <2>1, <2>2
  <1> QED BY <1>1, <1>2, <1>3, <1>4, <1>5, <1>6, <1>8, ResultHalf, ExtendRest

-----------------------------------------------------------------------------
(* Division.                                                               *)

LEMMA QuotientBy ==
  ASSUME NEW x \in Int, NEW y \in Int
  PROVE  /\ x < 0 /\ y < 0 => Quotient(x, y) = Abs(x) \div Abs(y)
         /\ ~(x < 0) /\ ~(y < 0) => Quotient(x, y) = Abs(x) \div Abs(y)
         /\ x < 0 /\ ~(y < 0) => Quotient(x, y) = -(Abs(x) \div Abs(y))
         /\ ~(x < 0) /\ y < 0 => Quotient(x, y) = -(Abs(x) \div Abs(y))
  <1>1. x < 0 /\ y < 0 => (x < 0) = (y < 0)
    OBVIOUS
  <1>2. ~(x < 0) /\ ~(y < 0) => (x < 0) = (y < 0)
    OBVIOUS
  <1>3. x < 0 /\ ~(y < 0) => ~((x < 0) = (y < 0))
    OBVIOUS
  <1>4. ~(x < 0) /\ y < 0 => ~((x < 0) = (y < 0))
    OBVIOUS
  <1> QED BY <1>1, <1>2, <1>3, <1>4, Zenon DEF Quotient

LEMMA NonNegative == \A x \in Nat : \A y \in Nat \ {0} :
    Quotient(x, y) = x \div y /\ x \div y \in Nat
  <1> TAKE x \in Nat
  <1> TAKE y \in Nat \ {0}
  <1>1. Abs(x) = x /\ Abs(y) = y /\ ~(x < 0) /\ ~(y < 0)
    BY DEF Abs
  <1>2. x \div y \in Nat BY DivisionNat
  <1> QED BY <1>1, <1>2 DEF Quotient

\* The quotient of the magnitudes, with its sign: what is left of x has the
\* sign of x and is smaller than y.
LEMMA QuotientFacts ==
  ASSUME NEW x \in Int, NEW y \in Int, y # 0
  PROVE  \E q \in Int, r \in Int :
            /\ q = Quotient(x, y) /\ x = y * q + r
            /\ -Abs(x) <= q /\ q <= Abs(x)
            /\ -Abs(y) < r /\ r < Abs(y)
            /\ (x >= 0 => r >= 0 /\ r <= x) /\ (x < 0 => r <= 0 /\ r >= x)
  <1>1. PICK m \in Nat, d \in Nat \ {0} : m = Abs(x) /\ d = Abs(y)
    BY DEF Abs
  <1>2. PICK p \in Nat, s \in 0 .. d - 1 : p = m \div d /\ m = d * p + s
    BY DivisionNat
  <1>3. PICK c \in Nat : c = d * p
    <2>1. \A u, v \in Nat : u * v \in Nat OBVIOUS
    <2> QED BY <2>1
  <1>4. m = c + s /\ s <= m
    BY <1>2, <1>3
  <1>5. p <= m
    <2>1. 1 * p <= d * p BY Grow
    <2> QED BY <1>3, <1>4, <2>1
  <1>6. CASE x >= 0 /\ y > 0
    <2>1. x = m /\ y = d BY <1>1, <1>6 DEF Abs
    <2>2. Quotient(x, y) = p
      <3>1. ~(x < 0) /\ ~(y < 0) BY <1>6
      <3>2. Quotient(x, y) = Abs(x) \div Abs(y) BY <3>1, QuotientBy
      <3> QED BY <1>1, <1>2, <3>2
    <2>3. x = y * p + s BY <1>2, <2>1
    <2>4. /\ -Abs(x) <= p /\ p <= Abs(x) /\ -Abs(y) < s /\ s < Abs(y)
          /\ (x >= 0 => s >= 0 /\ s <= x) /\ (x < 0 => s <= 0 /\ s >= x)
      BY <1>1, <1>4, <1>5, <2>1
    <2>5. p \in Int /\ s \in Int OBVIOUS
    <2> QED BY <2>2, <2>3, <2>4, <2>5
  <1>7. CASE x >= 0 /\ y < 0
    <2>1. x = m /\ y = -d BY <1>1, <1>7 DEF Abs
    <2>2. PICK q \in Int : q = -p OBVIOUS
    <2>3. Quotient(x, y) = q BY <1>1, <1>2, <1>7, <2>2, QuotientBy
    <2>4. y * q = d * p BY <2>1, <2>2
    <2>5. x = y * q + s BY <1>2, <2>1, <2>4
    <2> QED BY <1>1, <1>4, <1>5, <1>7, <2>1, <2>2, <2>3, <2>5
  <1>8. CASE x < 0 /\ y > 0
    <2>1. x = -m /\ y = d BY <1>1, <1>8 DEF Abs
    <2>2. PICK q \in Int, r \in Int : q = -p /\ r = -s OBVIOUS
    <2>3. Quotient(x, y) = q BY <1>1, <1>2, <1>8, <2>2, QuotientBy
    <2>4. y * q = -c BY <1>3, <2>1, <2>2
    <2>5. x = y * q + r BY <1>4, <2>1, <2>2, <2>4
    <2> QED BY <1>1, <1>4, <1>5, <1>8, <2>1, <2>2, <2>3, <2>5
  <1>9. CASE x < 0 /\ y < 0
    <2>1. x = -m /\ y = -d BY <1>1, <1>9 DEF Abs
    <2>2. PICK r \in Int : r = -s OBVIOUS
    <2>3. Quotient(x, y) = p BY <1>1, <1>2, <1>9, QuotientBy
    <2>4. y * p = -c BY <1>3, <2>1
    <2>5. x = y * p + r BY <1>4, <2>1, <2>2, <2>4
    <2> QED BY <1>1, <1>4, <1>5, <1>9, <2>1, <2>2, <2>3, <2>5
  <1> QED BY <1>6, <1>7, <1>8, <1>9

\* There is one quotient that leaves less than y with the sign of x.
LEMMA OneSignedQuotient ==
  ASSUME NEW x \in Int, NEW y \in Int, y # 0, NEW q \in Int, NEW r \in Int,
         NEW t \in Int, NEW s \in Int, x = y * q + r, x = y * t + s,
         -Abs(y) < r, r < Abs(y), -Abs(y) < s, s < Abs(y),
         r = 0 \/ (r < 0 <=> x < 0), s = 0 \/ (s < 0 <=> x < 0)
  PROVE  q = t /\ r = s
  <1>1. PICK d \in Nat \ {0} : d = Abs(y) BY DEF Abs
  <1>2. PICK u, v \in Int : u = y * q /\ v = y * t BY Products
  <1>3. PICK e, f \in Int : /\ e = (IF y > 0 THEN q ELSE -q)
                            /\ f = (IF y > 0 THEN t ELSE -t)
    <2>1. (IF y > 0 THEN q ELSE -q) \in Int /\ (IF y > 0 THEN t ELSE -t) \in Int
      OBVIOUS
    <2> QED BY <2>1
  <1>4. u = d * e /\ v = d * f
    <2>1. CASE y > 0
      <3>1. d = y /\ e = q /\ f = t BY <1>1, <1>3, <2>1 DEF Abs
      <3> QED BY <1>2, <3>1
    <2>2. CASE ~(y > 0)
      <3>1. d = -y /\ e = -q /\ f = -t BY <1>1, <1>3, <2>2 DEF Abs
      <3>2. (-y) * (-q) = y * q /\ (-y) * (-t) = y * t OBVIOUS
      <3> QED BY <1>2, <3>1, <3>2
    <2> QED BY <2>1, <2>2
  <1>5. CASE x >= 0
    <2>1. r \in 0 .. d - 1 /\ s \in 0 .. d - 1 BY <1>1, <1>5
    <2>2. d * e + r = d * f + s BY <1>2, <1>4
    <2>3. e = f /\ r = s BY <2>1, <2>2, OneRest
    <2> QED BY <1>3, <2>3
  <1>6. CASE x < 0
    <2>1. PICK i, j \in 0 .. d - 1 : i = -r /\ j = -s BY <1>1, <1>6
    <2>2. PICK g, k \in Int : g = -e /\ k = -f OBVIOUS
    <2>3. d * g = -u /\ d * k = -v BY <1>4, <2>2
    <2>4. d * g + i = d * k + j
      <3>1. u + r = v + s BY <1>2
      <3> QED BY <2>1, <2>3, <3>1
    <2>5. g = k /\ i = j BY <2>1, <2>4, OneRest
    <2> QED BY <1>3, <2>1, <2>2, <2>5
  <1> QED BY <1>5, <1>6

LEMMA QuotIs ==
  ASSUME NEW x \in Int, NEW y \in Int, y # 0
  PROVE  Architecture!Quot(x, y) = Quotient(x, y)
  <1> DEFINE left(q) == x - y * q
             Fit(q) == /\ Abs(left(q)) < Abs(y)
                       /\ left(q) = 0 \/ (left(q) < 0) = (x < 0)
  <1>1. \A v : Architecture!Magnitude(v) = Abs(v)
    BY DEF Architecture!Magnitude, Abs
  <1>2. Architecture!Quot(x, y) = CHOOSE q \in -Abs(x) .. Abs(x) : Fit(q)
    BY <1>1 DEF Architecture!Quot
  <1>3. PICK p \in Int, r \in Int :
            /\ p = Quotient(x, y) /\ x = y * p + r
            /\ -Abs(x) <= p /\ p <= Abs(x)
            /\ -Abs(y) < r /\ r < Abs(y)
            /\ (x >= 0 => r >= 0 /\ r <= x) /\ (x < 0 => r <= 0 /\ r >= x)
    BY QuotientFacts
  <1>4. Abs(x) \in Int /\ Abs(y) \in Int
    BY DEF Abs
  <1>5. p \in -Abs(x) .. Abs(x)
    BY <1>3, <1>4
  <1>6. Fit(p)
    <2>1. left(p) = r
      <3>1. PICK m \in Int : m = y * p BY Products
      <3> QED BY <1>3, <3>1
    <2>2. Abs(r) < Abs(y) BY <1>3, <1>4 DEF Abs
    <2>3. r = 0 \/ (r < 0) = (x < 0) BY <1>3
    <2> HIDE DEF left
    <2> QED BY <2>1, <2>2, <2>3
  <1>7. ASSUME NEW q \in -Abs(x) .. Abs(x), Fit(q) PROVE q = p
    <2>1. q \in Int BY <1>4
    <2>2. PICK s \in Int : s = left(q)
      <3>1. PICK m \in Int : m = y * q BY <2>1, Products
      <3> QED BY <3>1
    <2>3. x = y * q + s
      <3>1. PICK m \in Int : m = y * q BY <2>1, Products
      <3> QED BY <2>2, <3>1
    <2>4. Abs(s) < Abs(y) /\ (s = 0 \/ (s < 0 <=> x < 0))
      <3> HIDE DEF left
      <3> QED BY <1>7, <2>2
    <2>5. -Abs(y) < s /\ s < Abs(y) BY <1>4, <2>4 DEF Abs
    <2>6. r = 0 \/ (r < 0 <=> x < 0) BY <1>3
    <2> QED BY <1>3, <2>1, <2>3, <2>4, <2>5, <2>6, OneSignedQuotient
  <1> HIDE DEF Fit
  <1>8. (CHOOSE q \in -Abs(x) .. Abs(x) : Fit(q)) = p
    BY <1>5, <1>6, <1>7
  <1> QED BY <1>2, <1>3, <1>8

-----------------------------------------------------------------------------
(* The results of the division handlers.                                   *)

LEMMA EvenHalf == 2 * (Half \div 2) = Half /\ Half \div 2 \in Nat \ {0}
  <1>1. PICK k \in Nat : HalfBits = k + 1
    <2>1. HalfBits - 1 \in Nat /\ HalfBits = (HalfBits - 1) + 1 BY WordFacts
    <2> QED BY <2>1
  <1>2. PICK p \in Nat \ {0} : p = Pow2[k] BY Pow2Type
  <1>3. Half = 2 * p BY <1>1, <1>2, Pow2Step, WordAssumption
  <1> QED BY <1>3

LEMMA EvenFull == 2 * (Full \div 2) = Full /\ Full \div 2 \in Nat \ {0}
  <1>1. PICK p \in Nat \ {0} : Half = 2 * p BY EvenHalf
  <1>2. PICK m \in Nat \ {0} : m = p * Half
    <2>1. \A u, v \in Nat \ {0} : u * v \in Nat \ {0} OBVIOUS
    <2> QED BY <2>1, WordFacts
  <1>3. Full = 2 * m
    <2>1. (2 * p) * Half = 2 * (p * Half) BY Products, WordFacts
    <2> QED BY <1>1, <1>2, <2>1, WordFacts
  <1> QED BY <1>3

\* Divide and Modulo are the quotient and the rest, modulo n: the two cases
\* taken out first included.
LEMMA DivideIs ==
  ASSUME NEW n \in Nat \ {0}, 2 * (n \div 2) = n, NEW x \in Int, NEW y \in Int
  PROVE  /\ Divide(x, y, n) \in Int /\ Modulo(x, y, n) \in Int
         /\ Architecture!Quot(x, y) \in Int /\ Architecture!Rem(x, y) \in Int
         /\ Divide(x, y, n) % n = Architecture!Quot(x, y) % n
         /\ Modulo(x, y, n) = Architecture!Rem(x, y)
         /\ ~(x = -(n \div 2) /\ y = -1) => Divide(x, y, n) = Architecture!Quot(x, y)
  <1>1. CASE y = 0
    <2>1. Divide(x, y, n) = -1 /\ Modulo(x, y, n) = x
      BY <1>1 DEF Divide, Modulo
    <2>2. Architecture!Quot(x, y) = -1 /\ Architecture!Rem(x, y) = x
      BY <1>1 DEF Architecture!Quot, Architecture!Rem
    <2>3. -1 \in Int OBVIOUS
    <2> QED BY <2>1, <2>2, <2>3
  <1>2. CASE y # 0
    <2>1. PICK q \in Int, r \in Int :
            /\ q = Quotient(x, y) /\ x = y * q + r
            /\ -Abs(y) < r /\ r < Abs(y)
      BY <1>2, QuotientFacts
    <2>2. Architecture!Quot(x, y) = q
      BY <1>2, <2>1, QuotIs
    <2>3. Remainder(x, y) = r
      <3>1. PICK m \in Int : m = y * q BY Products
      <3> QED BY <2>1, <3>1 DEF Remainder
    <2>4. Architecture!Rem(x, y) = r
      <3>1. PICK m \in Int : m = y * q BY Products
      <3>2. Architecture!Rem(x, y) = x - y * Architecture!Quot(x, y)
        BY <1>2 DEF Architecture!Rem
      <3> QED BY <2>1, <2>2, <3>1, <3>2
    <2>5. CASE x = -(n \div 2) /\ y = -1
      <3>1. Divide(x, y, n) = x /\ Modulo(x, y, n) = 0
        BY <1>2, <2>5 DEF Divide, Modulo
      <3>2. r = 0 /\ q = -x
        <4>1. y = -1 BY <2>5, Zenon
        <4>2. y + 1 = 0 BY <4>1
        <4>3. Abs(y) = 1
          <5>1. y < 0 BY <4>2
          <5> QED BY <4>2, <5>1 DEF Abs
        <4>4. r = 0 BY <2>1, <4>3
        <4>5. y * q = -q BY <4>1
        <4> QED BY <2>1, <4>4, <4>5
      <3>3. PICK z \in Int : z = 1 OBVIOUS
      <3>4. q = x + n * z
        BY <2>5, <3>2, <3>3
      <3>5. (x + n * z) % n = x % n
        BY Congruent
      <3> QED BY <2>2, <2>4, <2>5, <3>1, <3>2, <3>4, <3>5
    <2>6. CASE ~(x = -(n \div 2) /\ y = -1)
      <3>1. Divide(x, y, n) = q /\ Modulo(x, y, n) = r
        BY <1>2, <2>1, <2>3, <2>6 DEF Divide, Modulo
      <3> QED BY <2>2, <2>4, <3>1
    <2> QED BY <2>5, <2>6
  <1> QED BY <1>1, <1>2

LEMMA DivisionResults ==
  ASSUME NEW a \in Word, NEW b \in Word
  PROVE  /\ Mul("div", a, b) = Result("div", a, b)
         /\ Mul("divu", a, b) = Result("divu", a, b)
         /\ Mul("rem", a, b) = Result("rem", a, b)
         /\ Mul("remu", a, b) = Result("remu", a, b)
  <1>1. \A f \in {"div", "divu", "rem", "remu"} : f \notin DOMAIN Architecture!OnHalves
    BY DEF Architecture!OnHalves
  <1>2. PICK F \in Nat \ {0, 1} : F = Full /\ a \in 0 .. F - 1 /\ b \in 0 .. F - 1
    BY WordFacts DEF Word
  <1>3. PICK sa, sb \in Int : sa = Signed(a, F) /\ sb = Signed(b, F)
    <2>1. a \in Int /\ b \in Int /\ F \in Int BY <1>2
    <2> QED BY <2>1, SignedType
  <1>4. /\ Value("div", a, b, Full, XLen) = Architecture!Quot(sa, sb)
        /\ Value("divu", a, b, Full, XLen) = Architecture!Quot(a, b)
        /\ Value("rem", a, b, Full, XLen) = Architecture!Rem(sa, sb)
        /\ Value("remu", a, b, Full, XLen) = Architecture!Rem(a, b)
    BY <1>2, <1>3, SameWords DEF Value, Architecture!Value
  <1>5. /\ Mul("div", a, b) = Divide(sa, sb, F) % F
        /\ Mul("divu", a, b) = (IF b = 0 THEN F - 1 ELSE a \div b)
        /\ Mul("rem", a, b) = Modulo(sa, sb, F) % F
        /\ Mul("remu", a, b) = (IF b = 0 THEN a ELSE a % b)
    BY <1>2, <1>3 DEF Mul
  <1>6. Divide(sa, sb, F) % F = Architecture!Quot(sa, sb) % F /\ Modulo(sa, sb, F) = Architecture!Rem(sa, sb)
    BY <1>2, DivideIs, EvenFull
  <1>7. CASE b = 0
    <2>1. Architecture!Quot(a, b) = -1 /\ Architecture!Rem(a, b) = a
      BY <1>7 DEF Architecture!Quot, Architecture!Rem
    <2>2. (-1) % F = F - 1
      <3>1. PICK t \in Int, c \in 0 .. F - 1, x \in Int : t = -1 /\ c = F - 1 /\ x = -1 BY <1>2
      <3>2. x = F * t + c BY <3>1
      <3>3. x % F = c BY <3>2, OneQuotient
      <3> QED BY <3>1, <3>3
    <2>3. a % F = a BY <1>2, Small
    <2> QED BY <1>1, <1>2, <1>4, <1>5, <1>6, <1>7, <2>1, <2>2, <2>3, ResultFull
  <1>8. CASE b # 0
    <2>1. a \in Nat /\ b \in Nat \ {0} BY <1>2, <1>8
    <2>2. PICK q \in Nat, r \in 0 .. b - 1 : q = a \div b /\ r = a % b /\ a = b * q + r
      BY <2>1, DivisionNat
    <2>3. Architecture!Quot(a, b) = q
      BY <2>1, <2>2, QuotIs, NonNegative
    <2>4. Architecture!Rem(a, b) = r
      <3>1. PICK m \in Int : m = b * q BY <2>1, Products
      <3>2. Architecture!Rem(a, b) = a - b * Architecture!Quot(a, b)
        BY <1>8 DEF Architecture!Rem
      <3>3. Architecture!Rem(a, b) = a - m BY <3>1, <3>2, <2>3
      <3>4. a = m + r BY <2>2, <3>1
      <3> QED BY <2>1, <3>3, <3>4
    <2>5. q \in 0 .. F - 1 /\ r \in 0 .. F - 1
      <3>1. 1 * q <= b * q BY <2>1, Grow
      <3>2. PICK m \in Int : m = b * q BY <2>1, Products
      <3> QED BY <1>2, <2>1, <2>2, <3>1, <3>2
    <2>6. q % F = q /\ r % F = r BY <1>2, <2>5, Small
    <2> QED BY <1>1, <1>2, <1>4, <1>5, <1>6, <1>8, <2>2, <2>3, <2>4, <2>6, ResultFull
  <1> QED BY <1>7, <1>8

\* A number that a half can hold with its sign survives the narrowing.
LEMMA Narrowed ==
  ASSUME NEW x \in Int, -(Half \div 2) <= x, x < Half \div 2
  PROVE  ExtendHalf(x) = x % Full
  <1>1. PICK h \in Nat \ {0}, k \in Nat \ {0} : h = Half /\ k = h \div 2 /\ h = 2 * k
    BY EvenHalf, WordFacts
  <1>2. Signed(x % h, h) = x
    <2>1. CASE x >= 0
      <3>1. x \in 0 .. h - 1 BY <1>1, <2>1
      <3>2. x % h = x BY <3>1, Small
      <3> QED BY <1>1, <3>2 DEF Signed
    <2>2. CASE x < 0
      <3>1. PICK t \in Int, c \in 0 .. h - 1 : t = -1 /\ c = x + h BY <1>1, <2>2
      <3>2. x = h * t + c BY <3>1
      <3>3. x % h = c BY <3>2, OneQuotient
      <3>4. ~(c < h \div 2) BY <1>1, <3>1
      <3> QED BY <3>1, <3>3, <3>4 DEF Signed
    <2> QED BY <2>1, <2>2
  <1> QED BY <1>1, <1>2 DEF ExtendHalf

LEMMA SignedRange ==
  ASSUME NEW h \in Nat \ {0}, 2 * (h \div 2) = h, NEW x \in 0 .. h - 1
  PROVE  Signed(x, h) \in Int /\ -(h \div 2) <= Signed(x, h) /\ Signed(x, h) < h \div 2
  BY DEF Signed

LEMMA HalfDivisionResults ==
  ASSUME NEW a \in Word, NEW b \in Word
  PROVE  /\ Mul("divw", a, b) = Result("divw", a, b)
         /\ Mul("divuw", a, b) = Result("divuw", a, b)
         /\ Mul("remw", a, b) = Result("remw", a, b)
         /\ Mul("remuw", a, b) = Result("remuw", a, b)
  <1>1. /\ "divw" \in DOMAIN Architecture!OnHalves /\ Architecture!OnHalves["divw"] = "div"
        /\ "divuw" \in DOMAIN Architecture!OnHalves /\ Architecture!OnHalves["divuw"] = "divu"
        /\ "remw" \in DOMAIN Architecture!OnHalves /\ Architecture!OnHalves["remw"] = "rem"
        /\ "remuw" \in DOMAIN Architecture!OnHalves /\ Architecture!OnHalves["remuw"] = "remu"
    BY DEF Architecture!OnHalves
  <1>2. PICK h \in Nat \ {0, 1} : h = Half /\ 2 * (h \div 2) = h
    BY WordFacts, EvenHalf
  <1>3. PICK x \in 0 .. h - 1, y \in 0 .. h - 1 : x = a % h /\ y = b % h
    BY <1>2, HalfOf, WordRest
  <1>4. PICK wa, wb \in Int :
           /\ wa = Signed(x, h) /\ wb = Signed(y, h)
           /\ -(h \div 2) <= wa /\ wa < h \div 2 /\ -(h \div 2) <= wb /\ wb < h \div 2
    BY <1>2, SignedRange
  <1>5. /\ Value("div", a % Half, b % Half, Half, HalfBits) = Architecture!Quot(wa, wb)
        /\ Value("divu", a % Half, b % Half, Half, HalfBits) = Architecture!Quot(x, y)
        /\ Value("rem", a % Half, b % Half, Half, HalfBits) = Architecture!Rem(wa, wb)
        /\ Value("remu", a % Half, b % Half, Half, HalfBits) = Architecture!Rem(x, y)
    BY <1>2, <1>3, <1>4, SameWords DEF Value, Architecture!Value
  <1>6. /\ Mul("divw", a, b) = Divide(wa, wb, h) % Full
        /\ Mul("divuw", a, b) = (IF y = 0 THEN Full - 1 ELSE ExtendHalf(x \div y))
        /\ Mul("remw", a, b) = Modulo(wa, wb, h) % Full
        /\ Mul("remuw", a, b) = (IF y = 0 THEN ExtendHalf(x) ELSE ExtendHalf(x % y))
    BY <1>2, <1>3, <1>4 DEF Mul
  <1>7. PICK D, R, Q \in Int :
           /\ D = Divide(wa, wb, h) /\ R = Modulo(wa, wb, h) /\ Q = Architecture!Quot(wa, wb)
           /\ D % h = Q % h /\ R = Architecture!Rem(wa, wb)
           /\ ~(wa = -(h \div 2) /\ wb = -1) => D = Q
    <2>1. /\ Divide(wa, wb, h) \in Int /\ Modulo(wa, wb, h) \in Int
          /\ Architecture!Quot(wa, wb) \in Int
          /\ Divide(wa, wb, h) % h = Architecture!Quot(wa, wb) % h
          /\ Modulo(wa, wb, h) = Architecture!Rem(wa, wb)
          /\ ~(wa = -(h \div 2) /\ wb = -1) => Divide(wa, wb, h) = Architecture!Quot(wa, wb)
      BY <1>2, DivideIs
    <2> QED BY <2>1
  <1>8. -(h \div 2) <= D /\ D < h \div 2 /\ -(h \div 2) <= R /\ R < h \div 2
    <2>0. PICK k \in Nat \ {0} : /\ k = h \div 2 /\ h = 2 * k
                                 /\ -k <= wa /\ wa < k /\ -k <= wb /\ wb < k
      <3>1. PICK k \in Nat \ {0} : k = h \div 2 /\ h = 2 * k BY <1>2
      <3> QED BY <1>4, <3>1
    <2>a. SUFFICES -k <= D /\ D < k /\ -k <= R /\ R < k
      BY <2>0
    <2>1. CASE wb = 0
      <3>1. D = -1 /\ R = wa BY <1>7, <2>1 DEF Divide, Modulo
      <3>2. -k <= -1 /\ -1 < k OBVIOUS
      <3> QED BY <2>0, <3>1, <3>2
    <2>2. CASE wb # 0 /\ wa = -(h \div 2) /\ wb = -1
      <3>1. D = wa /\ R = 0 BY <1>7, <2>2 DEF Divide, Modulo
      <3>2. -k <= 0 /\ 0 < k OBVIOUS
      <3> QED BY <2>0, <3>1, <3>2
    <2>3. CASE wb # 0 /\ ~(wa = -(h \div 2) /\ wb = -1)
      <3>1. D = Quotient(wa, wb) /\ R = Remainder(wa, wb)
        BY <1>7, <2>3 DEF Divide, Modulo
      <3>2. PICK q \in Int, r \in Int :
            /\ q = Quotient(wa, wb) /\ wa = wb * q + r
            /\ -Abs(wa) <= q /\ q <= Abs(wa)
            /\ (wa >= 0 => r >= 0 /\ r <= wa) /\ (wa < 0 => r <= 0 /\ r >= wa)
        BY <2>3, QuotientFacts
      <3>3. R = r
        <4>1. PICK m \in Int : m = wb * q BY Products
        <4> QED BY <3>1, <3>2, <4>1 DEF Remainder
      <3>4. -k <= q /\ q <= k
        BY <2>0, <3>2 DEF Abs
      <3>5. q # k
        <4> SUFFICES ASSUME q = k PROVE FALSE
          OBVIOUS
        <4>1. wa = -k
          BY <2>0, <3>2 DEF Abs
        <4>2. PICK m \in Int : m = wb * k BY Products
        <4>3. m = -k - r /\ r <= 0 /\ r >= wa
          <5>1. wa = m + r BY <3>2, <4>2
          <5>2. wa < 0 BY <2>0, <4>1
          <5>3. r <= 0 /\ r >= wa BY <3>2, <5>2
          <5>4. m = wa - r BY <5>1
          <5> QED BY <4>1, <5>3, <5>4
        <4>4. CASE wb > 0
          <5>1. 1 * k <= wb * k BY <4>4, Grow
          <5> QED BY <2>0, <4>1, <4>2, <4>3, <5>1
        <4>5. CASE wb < -1
          <5>1. wb * k <= (-2) * k BY <4>5, Grow
          <5>2. m <= -(2 * k) BY <4>2, <5>1
          <5> QED BY <2>0, <4>1, <4>3, <5>2
        <4>6. wb # -1 BY <2>0, <2>3, <4>1
        <4> QED BY <2>3, <4>4, <4>5, <4>6
      <3>6. -k <= r /\ r < k
        <4>1. CASE wa >= 0 BY <2>0, <3>2, <4>1
        <4>2. CASE wa < 0 BY <2>0, <3>2, <4>2
        <4> QED BY <4>1, <4>2
      <3> QED BY <3>1, <3>2, <3>3, <3>4, <3>5, <3>6
    <2> QED BY <2>1, <2>2, <2>3
  <1>9. Mul("divw", a, b) = Result("divw", a, b)
    <2>1. ExtendHalf(D) = D % Full BY <1>2, <1>8, Narrowed
    <2>2. ExtendHalf(D) = ExtendHalf(Q) BY <1>2, <1>7, ExtendRest
    <2> QED BY <1>1, <1>5, <1>6, <1>7, <2>1, <2>2, ResultHalf
  <1>10. Mul("remw", a, b) = Result("remw", a, b)
    <2>1. ExtendHalf(R) = R % Full BY <1>2, <1>8, Narrowed
    <2> QED BY <1>1, <1>5, <1>6, <1>7, <2>1, ResultHalf
  <1>11. Mul("divuw", a, b) = Result("divuw", a, b) /\ Mul("remuw", a, b) = Result("remuw", a, b)
    <2>1. CASE y = 0
      <3>1. Architecture!Quot(x, y) = -1 /\ Architecture!Rem(x, y) = x
        BY <2>1 DEF Architecture!Quot, Architecture!Rem
      <3>2. ExtendHalf(-1) = (-1) % Full
        BY <1>2, Narrowed
      <3>3. (-1) % Full = Full - 1
        <4>1. PICK F \in Nat \ {0, 1} : F = Full BY WordFacts
        <4>2. PICK t \in Int, c \in 0 .. F - 1, z \in Int : t = -1 /\ c = F - 1 /\ z = -1 OBVIOUS
        <4>3. z = F * t + c BY <4>2
        <4>4. z % F = c BY <4>3, OneQuotient
        <4> QED BY <4>1, <4>2, <4>4
      <3> QED BY <1>1, <1>5, <1>6, <2>1, <3>1, <3>2, <3>3, ResultHalf
    <2>2. CASE y # 0
      <3>1. x \in Nat /\ y \in Nat \ {0} BY <2>2
      <3>2. PICK q \in Nat, r \in 0 .. y - 1 : q = x \div y /\ r = x % y /\ x = y * q + r
        BY <3>1, DivisionNat
      <3>3. Architecture!Quot(x, y) = q
        BY <3>1, <3>2, QuotIs, NonNegative
      <3>4. Architecture!Rem(x, y) = r
        <4>1. PICK m \in Int : m = y * q BY <3>1, Products
        <4>2. Architecture!Rem(x, y) = x - y * Architecture!Quot(x, y)
          BY <2>2 DEF Architecture!Rem
        <4>3. Architecture!Rem(x, y) = x - m BY <4>1, <4>2, <3>3
        <4>4. x = m + r BY <3>2, <4>1
        <4> QED BY <3>1, <4>3, <4>4
      <3> QED BY <1>1, <1>5, <1>6, <2>2, <3>2, <3>3, <3>4, ResultHalf
    <2> QED BY <2>1, <2>2
  <1> QED BY <1>9, <1>10, <1>11

\* Every arithmetic, multiplication and division handler computes what the
\* manual says, for every pair of words of any width.
THEOREM ComputesResults ==
  ASSUME NEW f \in RegRegOps, NEW a \in Word, NEW b \in Word
  PROVE  Compute(f, a, b) = Architecture!Result(f, a, b)
  <1>1. CASE f \in BaseOps
    <2>1. Compute(f, a, b) = Base(f, a, b) BY <1>1 DEF Compute
    <2> QED BY <1>1, <2>1, SumResults, BitResults, ShiftResults, HalfSumResults,
               HalfShiftResults DEF BaseOps, Result
  <1>2. CASE f \in MulOps
    <2>1. Compute(f, a, b) = Mul(f, a, b) BY <1>2 DEF Compute, BaseOps, MulOps
    <2> QED BY <1>2, <2>1, ProductResults, HalfProductResults, DivisionResults,
               HalfDivisionResults DEF MulOps, Result
  <1> QED BY <1>1, <1>2 DEF RegRegOps

-----------------------------------------------------------------------------
(* What a handler computes is a word.                                      *)

LEMMA RestType == \A x \in Int : x % Full \in Word
  <1>1. PICK F \in Nat \ {0, 1} : F = Full BY WordFacts
  <1> QED BY <1>1 DEF Word

LEMMA SmallerType ==
  ASSUME NEW a \in Word, NEW n \in Nat \ {0}
  PROVE  a \div n \in Word /\ a % n \in Word
  <1>1. PICK F \in Nat \ {0, 1} : F = Full BY WordFacts
  <1>2. a \in 0 .. F - 1 BY <1>1 DEF Word
  <1>3. PICK q \in Nat, r \in 0 .. n - 1 : q = a \div n /\ r = a % n /\ a = n * q + r
    BY <1>2, DivisionNat
  <1>4. PICK m \in Nat : m = n * q /\ q * n = m BY <1>3, Products
  <1>5. q * 1 <= q * n BY <1>3, Grow, Products
  <1>6. q <= m BY <1>4, <1>5
  <1>7. q <= F - 1 /\ r <= F - 1 BY <1>2, <1>3, <1>4, <1>6
  <1> QED BY <1>1, <1>3, <1>7 DEF Word

LEMMA BaseType ==
  ASSUME NEW f \in BaseOps, NEW a \in Word, NEW b \in Word
  PROVE  Base(f, a, b) \in Word
  <1>1. PICK F \in Nat \ {0, 1} : F = Full BY WordFacts
  <1>0. PICK h \in Nat \ {0, 1} : h = Half BY WordFacts
  <1>2. a \in Int /\ b \in Int /\ a \in Nat /\ b \in Nat BY WordRest
  <1>3. a % Half \in Int /\ a % Half \in Nat BY <1>0, <1>2, HalfOf
  <1>4. Signed(a, Full) \in Int /\ Signed(b, Full) \in Int /\ Signed(a % Half, Half) \in Int
    <2>1. \A x \in Int : Signed(x, F) \in Int /\ Signed(x, h) \in Int BY SignedType
    <2> QED BY <1>0, <1>1, <1>2, <1>3, <2>1
  <1>5. PICK s \in Nat \ {0} : s = Pow2[Shamt(b)]
    BY ShiftAmounts, Pow2Type
  <1>6. PICK t \in Nat \ {0} : t = Pow2[ShamtW(b)]
    BY ShiftAmounts, Pow2Type
  <1>7. 0 \in Word /\ 1 \in Word BY WordFacts DEF Word
  <1>a. CASE f = "add" BY <1>a, <1>2, RestType DEF Base
  <1>b. CASE f = "sub" BY <1>b, <1>2, RestType DEF Base
  <1>c. CASE f \in {"and", "or", "xor"} BY <1>c, FromBitsType DEF Base
  <1>d. CASE f = "sll"
    <2>1. a * s \in Int BY <1>2, Products
    <2> QED BY <1>d, <1>5, <2>1, RestType DEF Base
  <1>e. CASE f = "srl" BY <1>e, <1>5, SmallerType DEF Base
  <1>f. CASE f = "sra"
    <2>1. Signed(a, Full) \div s \in Int BY <1>4, Division
    <2> QED BY <1>f, <1>5, <2>1, RestType DEF Base
  <1>g. CASE f \in {"slt", "sltu"} BY <1>g, <1>7 DEF Base, Less
  <1>h. CASE f \in {"addw", "subw"}
    <2>1. a + b \in Int /\ a - b \in Int BY <1>2
    <2> QED BY <1>h, <2>1, ExtendType DEF Base
  <1>i. CASE f = "sllw"
    <2>1. (a % Half) * t \in Int BY <1>3, Products
    <2> QED BY <1>i, <1>6, <2>1, ExtendType DEF Base
  <1>j. CASE f = "srlw"
    <2>1. (a % Half) \div t \in Int BY <1>3, Division
    <2> QED BY <1>j, <1>6, <2>1, ExtendType DEF Base
  <1>k. CASE f = "sraw"
    <2>1. Signed(a % Half, Half) \div t \in Int BY <1>4, Division
    <2> QED BY <1>k, <1>6, <2>1, ExtendType DEF Base
  <1> QED BY <1>a, <1>b, <1>c, <1>d, <1>e, <1>f, <1>g, <1>h, <1>i, <1>j, <1>k DEF BaseOps

LEMMA MulType ==
  ASSUME NEW f \in MulOps, NEW a \in Word, NEW b \in Word
  PROVE  Mul(f, a, b) \in Word
  <1> DEFINE sa == Signed(a, Full)         sb == Signed(b, Full)
             wa == Signed(a % Half, Half)  wb == Signed(b % Half, Half)
  <1>0. PICK h \in Nat \ {0, 1} : h = Half BY WordFacts
  <1>1. PICK F \in Nat \ {0, 1} : F = Full BY WordFacts
  <1>2. a \in Int /\ b \in Int /\ a \in Nat /\ b \in Nat BY WordRest
  <1>3. /\ a % Half \in Int /\ a % Half \in Nat
        /\ b % Half \in Int /\ b % Half \in Nat
    BY <1>0, <1>2, HalfOf
  <1>4. sa \in Int /\ sb \in Int /\ wa \in Int /\ wb \in Int
    <2>1. \A x \in Int : Signed(x, F) \in Int /\ Signed(x, h) \in Int BY SignedType
    <2> QED BY <1>0, <1>1, <1>2, <1>3, <2>1
  <1>5. Full - 1 \in Word BY WordFacts DEF Word
  <1>6. MultiplyHigh(a, b) \in Word /\ MultiplyHigh(a, b) \in Int
    BY UpperWord, UpperWordType, WordRest
  <1>7. Correction(a, b) \in Int /\ Correction(b, a) \in Int BY <1>2 DEF Correction
  <1>a. CASE f = "mul"
    <2>1. a * b \in Int BY <1>2, Products
    <2> QED BY <1>a, <2>1, RestType DEF Mul
  <1>b. CASE f \in {"mulh", "mulhsu"}
    <2>1. /\ MultiplyHigh(a, b) - Correction(a, b) - Correction(b, a) \in Int
          /\ MultiplyHigh(a, b) - Correction(a, b) \in Int
      BY <1>6, <1>7
    <2> QED BY <1>b, <2>1, RestType DEF Mul
  <1>c. CASE f = "mulhu" BY <1>c, <1>6 DEF Mul
  <1>d. CASE f \in {"div", "rem"}
    <2>1. Divide(sa, sb, Full) \in Int /\ Modulo(sa, sb, Full) \in Int
      BY <1>4, WordFacts, EvenFull, DivideIs
    <2> QED BY <1>d, <2>1, RestType DEF Mul
  <1>e. CASE f = "divu"
    <2>1. CASE b = 0 BY <1>e, <1>5, <2>1 DEF Mul
    <2>2. CASE b # 0
      <3>1. b \in Nat \ {0} BY <1>2, <2>2
      <3> QED BY <1>e, <2>2, <3>1, SmallerType DEF Mul
    <2> QED BY <2>1, <2>2
  <1>f. CASE f = "remu"
    <2>1. CASE b = 0 BY <1>f, <2>1 DEF Mul
    <2>2. CASE b # 0
      <3>1. b \in Nat \ {0} BY <1>2, <2>2
      <3> QED BY <1>f, <2>2, <3>1, SmallerType DEF Mul
    <2> QED BY <2>1, <2>2
  <1>g. CASE f = "mulw"
    <2>1. wa * wb \in Int BY <1>4, Products
    <2> QED BY <1>g, <2>1, ExtendType DEF Mul
  <1>h. CASE f \in {"divw", "remw"}
    <2>1. Divide(wa, wb, Half) \in Int /\ Modulo(wa, wb, Half) \in Int
      BY <1>4, WordFacts, EvenHalf, DivideIs
    <2> QED BY <1>h, <2>1, RestType DEF Mul
  <1>i. CASE f \in {"divuw", "remuw"}
    <2>1. CASE b % Half = 0 BY <1>i, <1>3, <1>5, <2>1, ExtendType DEF Mul
    <2>2. CASE b % Half # 0
      <3>1. b % Half \in Nat \ {0} BY <1>3, <2>2
      <3>2. PICK m \in Int, n \in Nat \ {0} : m = a % Half /\ n = b % Half BY <1>3, <3>1
      <3>3. m \div n \in Int /\ m % n \in Int BY <3>2, Division
      <3>4. (a % Half) \div (b % Half) \in Int /\ (a % Half) % (b % Half) \in Int
        BY <3>2, <3>3
      <3> QED BY <1>i, <2>2, <3>4, ExtendType DEF Mul
    <2> QED BY <2>1, <2>2
  <1> QED BY <1>a, <1>b, <1>c, <1>d, <1>e, <1>f, <1>g, <1>h, <1>i DEF MulOps

LEMMA ComputeType ==
  ASSUME NEW f \in RegRegOps, NEW a \in Word, NEW b \in Word
  PROVE  Compute(f, a, b) \in Word
  <1>1. f \in BaseOps \/ f \in MulOps BY DEF RegRegOps
  <1> QED BY <1>1, BaseType, MulType DEF Compute

-----------------------------------------------------------------------------
(* The fields of a word and their immediate.                               *)

LEMMA CutType ==
  ASSUME NEW c \in Int, NEW low \in Nat, NEW width \in Nat
  PROVE  Cut(c, low, width) \in 0 .. Pow2[width] - 1
  <1>1. PICK p \in Nat \ {0} : p = Pow2[low] BY Pow2Type
  <1>2. PICK q \in Nat \ {0} : q = Pow2[width] BY Pow2Type
  <1>3. PICK d \in Int : d = c \div p BY <1>1, Division
  <1>4. d % q \in 0 .. q - 1 BY <1>2, <1>3, Division
  <1> QED BY <1>1, <1>2, <1>3, <1>4 DEF Cut

LEMMA SmallPowers ==
  /\ Pow2[0] = 1 /\ Pow2[1] = 2 /\ Pow2[2] = 4 /\ Pow2[3] = 8 /\ Pow2[4] = 16
  /\ Pow2[5] = 32 /\ Pow2[6] = 64 /\ Pow2[7] = 128 /\ Pow2[8] = 256 /\ Pow2[9] = 512
  /\ Pow2[10] = 1024 /\ Pow2[11] = 2048 /\ Pow2[12] = 4096 /\ Pow2[13] = 8192
  /\ Pow2[19] = 524288 /\ Pow2[20] = 1048576 /\ Pow2[21] = 2097152
  <1>1. /\ Pow2[0] = 1 /\ Pow2[0 + 1] = 2 * Pow2[0] /\ Pow2[1 + 1] = 2 * Pow2[1]
        /\ Pow2[2 + 1] = 2 * Pow2[2] /\ Pow2[3 + 1] = 2 * Pow2[3] /\ Pow2[4 + 1] = 2 * Pow2[4]
        /\ Pow2[5 + 1] = 2 * Pow2[5] /\ Pow2[6 + 1] = 2 * Pow2[6] /\ Pow2[7 + 1] = 2 * Pow2[7]
        /\ Pow2[8 + 1] = 2 * Pow2[8] /\ Pow2[9 + 1] = 2 * Pow2[9] /\ Pow2[10 + 1] = 2 * Pow2[10]
        /\ Pow2[11 + 1] = 2 * Pow2[11] /\ Pow2[12 + 1] = 2 * Pow2[12]
        /\ Pow2[13 + 1] = 2 * Pow2[13] /\ Pow2[14 + 1] = 2 * Pow2[14]
        /\ Pow2[15 + 1] = 2 * Pow2[15] /\ Pow2[16 + 1] = 2 * Pow2[16]
        /\ Pow2[17 + 1] = 2 * Pow2[17] /\ Pow2[18 + 1] = 2 * Pow2[18]
        /\ Pow2[19 + 1] = 2 * Pow2[19] /\ Pow2[20 + 1] = 2 * Pow2[20]
    BY Pow2Step, Zenon
  <1> QED BY <1>1

\* How many values a field of n bits has, for the widths there are.
LEMMA CutTypes ==
  ASSUME NEW c \in Int, NEW low \in Nat
  PROVE  /\ Cut(c, low, 1) \in 0 .. 1 /\ Cut(c, low, 2) \in 0 .. 3 /\ Cut(c, low, 3) \in 0 .. 7
         /\ Cut(c, low, 4) \in 0 .. 15 /\ Cut(c, low, 5) \in 0 .. 31
         /\ Cut(c, low, 6) \in 0 .. 63 /\ Cut(c, low, 7) \in 0 .. 127
  <1>1. /\ Cut(c, low, 1) \in 0 .. Pow2[1] - 1 /\ Cut(c, low, 2) \in 0 .. Pow2[2] - 1
        /\ Cut(c, low, 3) \in 0 .. Pow2[3] - 1 /\ Cut(c, low, 4) \in 0 .. Pow2[4] - 1
        /\ Cut(c, low, 5) \in 0 .. Pow2[5] - 1 /\ Cut(c, low, 6) \in 0 .. Pow2[6] - 1
        /\ Cut(c, low, 7) \in 0 .. Pow2[7] - 1
    BY CutType
  <1> QED BY <1>1, SmallPowers

LEMMA PutType ==
  ASSUME NEW c \in Int, NEW low \in Nat, NEW width \in Nat, NEW to \in Nat
  PROVE  Put(c, low, width, to) \in Nat
  <1>1. PICK x \in Nat : x = Cut(c, low, width)
    <2>1. Pow2[width] \in Nat BY Pow2Type
    <2> QED BY <2>1, CutType
  <1>2. PICK p \in Nat : p = Pow2[to] BY Pow2Type
  <1>3. x * p \in Nat OBVIOUS
  <1> QED BY <1>1, <1>2, <1>3 DEF Put

\* Words as the records of their fields.
FieldRecords ==
    [op : 0 .. 127, rd : 0 .. 31, f3 : 0 .. 7, rs1 : 0 .. 31, rs2 : 0 .. 31, f7 : 0 .. 127]

LEMMA FieldsType ==
  ASSUME NEW a \in Nat, NEW b \in Nat
  PROVE  Fields(a, b) \in FieldRecords
  <1>1. PICK x \in 0 .. 1 : x = Cut(a, 15, 1) BY CutTypes
  <1>2. PICK y \in 0 .. 15 : y = Cut(b, 0, 4) BY CutTypes
  <1>3. Put(b, 0, 4, 1) = y * 2 BY <1>2, SmallPowers DEF Put
  <1>4. Cut(a, 15, 1) + Put(b, 0, 4, 1) \in 0 .. 31 BY <1>1, <1>3
  <1>0. a \in Int /\ b \in Int OBVIOUS
  <1>5. Cut(a, 0, 7) \in 0 .. 127 /\ Cut(a, 7, 5) \in 0 .. 31 /\ Cut(a, 12, 3) \in 0 .. 7
    BY <1>0, CutTypes
  <1>6. Cut(b, 4, 5) \in 0 .. 31 /\ Cut(b, 9, 7) \in 0 .. 127
    BY <1>0, CutTypes
  <1> QED BY <1>4, <1>5, <1>6, SMT DEF Fields, FieldRecords

Immediates == Int32Min .. Int32Max

LEMMA Int32Bounds == Int32Min \in Int /\ Int32Max \in Int
BY SMT DEF Int32Min, Int32Max

LEMMA SmallBounds ==
  \A x \in Int : x + 1048576 \in Nat /\ 1048576 - x \in Nat => Int32Min <= x /\ x <= Int32Max
BY SMT DEF Int32Min, Int32Max

LEMMA UpperBounds ==
  \A x \in Int : x + 524288 \in Nat /\ 524287 - x \in Nat => Int32Min <= x * 4096 /\ x * 4096 <= Int32Max
BY SMT DEF Int32Min, Int32Max

LEMMA SmallImmediate == \A x \in Int : x + 1048576 \in Nat /\ 1048576 - x \in Nat => x \in Immediates
BY SMT, SmallBounds, Int32Bounds DEF Immediates

LEMMA UpperImmediate == \A x \in Int : x + 524288 \in Nat /\ 524287 - x \in Nat => x * 4096 \in Immediates
BY SMT, UpperBounds, Int32Bounds DEF Immediates

LEMMA SignExtendType ==
  /\ \A x \in Nat : x < 4096 => SignExtend(x, 12) \in Immediates
  /\ \A x \in Nat : x < 8192 => SignExtend(x, 13) \in Immediates
  /\ \A x \in Nat : x < 1048576 => SignExtend(x, 20) * 4096 \in Immediates
  /\ \A x \in Nat : x < 2097152 => SignExtend(x, 21) \in Immediates
  <1>1. /\ 12 - 1 = 11 /\ 13 - 1 = 12 /\ 20 - 1 = 19 /\ 21 - 1 = 20 OBVIOUS
  <1>2. \A x \in Nat : x < 4096 => SignExtend(x, 12) \in Immediates
    <2>1. TAKE x \in Nat
    <2>0. HAVE x < 4096
    <2>2. SignExtend(x, 12) = IF x < 2048 THEN x ELSE x - 4096
      BY <1>1, SmallPowers DEF SignExtend
    <2> QED BY SMT, <2>0, <2>2, SmallImmediate
  <1>3. \A x \in Nat : x < 8192 => SignExtend(x, 13) \in Immediates
    <2>1. TAKE x \in Nat
    <2>0. HAVE x < 8192
    <2>2. SignExtend(x, 13) = IF x < 4096 THEN x ELSE x - 8192
      BY <1>1, SmallPowers DEF SignExtend
    <2> QED BY SMT, <2>0, <2>2, SmallImmediate
  <1>4. \A x \in Nat : x < 1048576 => SignExtend(x, 20) * 4096 \in Immediates
    <2>1. TAKE x \in Nat
    <2>0. HAVE x < 1048576
    <2>2. SignExtend(x, 20) = IF x < 524288 THEN x ELSE x - 1048576
      BY <1>1, SmallPowers DEF SignExtend
    <2>3. PICK y \in Int : /\ y = SignExtend(x, 20)
                          /\ y + 524288 \in Nat /\ 524287 - y \in Nat
      BY <2>0, <2>2, SMT
    <2> QED BY SMT, <2>3, UpperImmediate
  <1>5. \A x \in Nat : x < 2097152 => SignExtend(x, 21) \in Immediates
    <2>1. TAKE x \in Nat
    <2>0. HAVE x < 2097152
    <2>2. SignExtend(x, 21) = IF x < 1048576 THEN x ELSE x - 2097152
      BY <1>1, SmallPowers DEF SignExtend
    <2> QED BY SMT, <2>0, <2>2, SmallImmediate
  <1> QED BY <1>2, <1>3, <1>4, <1>5, SMT

LEMMA ImmediateType ==
  ASSUME NEW w \in FieldRecords
  PROVE  Immediate(w) \in Immediates
  <1>1. PICK op \in 0 .. 127, rd \in 0 .. 31, f3 \in 0 .. 7, rs1 \in 0 .. 31, rs2 \in 0 .. 31,
             f7 \in 0 .. 127 :
          /\ w.op = op /\ w.rd = rd /\ w.f3 = f3 /\ w.rs1 = rs1 /\ w.rs2 = rs2 /\ w.f7 = f7
    BY DEF FieldRecords
  <1>0. rd \in Int /\ rs2 \in Int /\ f7 \in Int OBVIOUS
  <1>2. DecodeI(w) \in Immediates
    <2>1. f7 * 32 + rs2 \in Nat /\ f7 * 32 + rs2 < 4096 BY SMT
    <2> QED BY <1>1, <2>1, SignExtendType, SMT DEF DecodeI
  <1>3. DecodeS(w) \in Immediates
    <2>1. f7 * 32 + rd \in Nat /\ f7 * 32 + rd < 4096 BY SMT
    <2> QED BY <1>1, <2>1, SignExtendType, SMT DEF DecodeS
  <1>4. DecodeB(w) \in Immediates
    <2>1. PICK p \in 0 .. 1, q \in 0 .. 1, r \in 0 .. 63, s \in 0 .. 15 :
            /\ p = Cut(f7, 6, 1) /\ q = Cut(rd, 0, 1)
            /\ r = Cut(f7, 0, 6) /\ s = Cut(rd, 1, 4)
      BY <1>0, CutTypes
    <2>2. p * 4096 + q * 2048 + r * 32 + s * 2 \in Nat /\ p * 4096 + q * 2048 + r * 32 + s * 2 < 8192
      BY SMT
    <2> QED BY <1>1, <2>1, <2>2, SignExtendType, SMT DEF DecodeB
  <1>5. DecodeU(w) \in Immediates
    <2>1. /\ f7 * 8192 + rs2 * 256 + rs1 * 8 + f3 \in Nat
          /\ f7 * 8192 + rs2 * 256 + rs1 * 8 + f3 < 1048576
      BY SMT
    <2> QED BY <1>1, <2>1, SignExtendType, SMT DEF DecodeU
  <1>6. DecodeJ(w) \in Immediates
    <2>1. PICK p \in 0 .. 1, q \in 0 .. 1, r \in 0 .. 63, s \in 0 .. 15 :
            /\ p = Cut(f7, 6, 1) /\ q = Cut(rs2, 0, 1)
            /\ r = Cut(f7, 0, 6) /\ s = Cut(rs2, 1, 4)
      BY <1>0, CutTypes
    <2>2. /\ p * 1048576 + (rs1 * 8 + f3) * 4096 + q * 2048 + r * 32 + s * 2 \in Nat
          /\ p * 1048576 + (rs1 * 8 + f3) * 4096 + q * 2048 + r * 32 + s * 2 < 2097152
      BY SMT
    <2> QED BY <1>1, <2>1, <2>2, SignExtendType, SMT DEF DecodeJ
  <1>7. 0 \in Immediates BY SmallImmediate, SMT
  <1>8. Format(w.op) \in {"I", "S", "B", "U", "J", "R"}
    <2> DEFINE z == w.op
    <2>1. CASE z \in {15, 19, 27, 3, 103, 115, 7} BY <2>1 DEF Format
    <2>2. CASE z \in {35, 39} BY <2>2 DEF Format
    <2>3. CASE z = 99 BY <2>3 DEF Format
    <2>4. CASE z \in {55, 23} BY <2>4 DEF Format
    <2>5. CASE z = 111 BY <2>5 DEF Format
    <2>6. CASE z \notin {15, 19, 27, 3, 103, 115, 7, 35, 39, 99, 55, 23, 111}
      BY <2>6, Zenon DEF Format
    <2> QED BY <2>1, <2>2, <2>3, <2>4, <2>5, <2>6
  <1> QED BY <1>2, <1>3, <1>4, <1>5, <1>6, <1>7, <1>8, Zenon DEF Immediate

-----------------------------------------------------------------------------
(* What a compressed instruction expands to has the fields of a word.      *)

Reg32 == 0 .. 31
Three == 0 .. 7
Seven == 0 .. 127

LEMMA ImmFields ==
  ASSUME NEW imm \in Int
  PROVE  imm % 32 \in Reg32 /\ (imm \div 32) % 128 \in Seven
  <1>1. PICK d \in Int : d = imm \div 32 OBVIOUS
  <1>2. d % 128 \in 0 .. 127 OBVIOUS
  <1> QED BY <1>1, <1>2 DEF Reg32, Seven

LEMMA FieldRecordsAre == FieldRecords = [op : Seven, rd : Reg32, f3 : Three, rs1 : Reg32, rs2 : Reg32, f7 : Seven]
BY Zenon DEF FieldRecords, Seven, Reg32, Three

LEMMA MakeIType ==
  ASSUME NEW imm \in Int, NEW rs1 \in Reg32, NEW f3 \in Three, NEW rd \in Reg32, NEW op \in Seven
  PROVE  MakeI(imm, rs1, f3, rd, op) \in FieldRecords
BY ImmFields, FieldRecordsAre, SMT DEF MakeI

LEMMA MakeSType ==
  ASSUME NEW imm \in Int, NEW rs2 \in Reg32, NEW rs1 \in Reg32, NEW f3 \in Three, NEW op \in Seven
  PROVE  MakeS(imm, rs2, rs1, f3, op) \in FieldRecords
BY ImmFields, FieldRecordsAre, SMT DEF MakeS

LEMMA MakeRType ==
  ASSUME NEW f7 \in Seven, NEW rs2 \in Reg32, NEW rs1 \in Reg32, NEW f3 \in Three, NEW rd \in Reg32,
         NEW op \in Seven
  PROVE  MakeR(f7, rs2, rs1, f3, rd, op) \in FieldRecords
BY FieldRecordsAre, SMT DEF MakeR

LEMMA Literals ==
  /\ 0 \in Reg32 /\ 1 \in Reg32 /\ 2 \in Reg32 /\ 31 \in Reg32
  /\ 0 \in Three /\ 1 \in Three /\ 2 \in Three /\ 3 \in Three /\ 4 \in Three /\ 5 \in Three
  /\ 6 \in Three /\ 7 \in Three
  /\ 0 \in Seven /\ 3 \in Seven /\ 7 \in Seven /\ 19 \in Seven /\ 27 \in Seven /\ 32 \in Seven
  /\ 35 \in Seven /\ 39 \in Seven /\ 51 \in Seven /\ 55 \in Seven /\ 59 \in Seven
  /\ 99 \in Seven /\ 103 \in Seven /\ 111 \in Seven /\ 115 \in Seven /\ 127 \in Seven
BY SMT DEF Reg32, Three, Seven

LEMMA MakeUType ==
  ASSUME NEW imm \in Int, NEW rd \in Reg32
  PROVE  MakeU(imm, rd) \in FieldRecords
  <1>1. /\ Cut(imm, 12, 3) \in Three /\ Cut(imm, 15, 5) \in Reg32
        /\ Cut(imm, 20, 5) \in Reg32 /\ Cut(imm, 25, 7) \in Seven
    BY CutTypes DEF Three, Reg32, Seven
  <1> QED BY <1>1, FieldRecordsAre, Literals, SMT DEF MakeU

\* Four bits and one, one bit and six: the parts a jump's immediate is cut into.
LEMMA Joined ==
  ASSUME NEW imm \in Int, NEW i \in Nat, NEW j \in Nat
  PROVE  /\ Put(imm, i, 4, 1) + Cut(imm, j, 1) \in Reg32
         /\ Put(imm, i, 1, 6) + Cut(imm, j, 6) \in Seven
  <1>1. PICK a \in 0 .. 15, b \in 0 .. 1, c \in 0 .. 1, d \in 0 .. 63 :
          /\ a = Cut(imm, i, 4) /\ b = Cut(imm, j, 1)
          /\ c = Cut(imm, i, 1) /\ d = Cut(imm, j, 6)
    BY CutTypes
  <1>2. Put(imm, i, 4, 1) = a * 2 /\ Put(imm, i, 1, 6) = c * 64
    BY <1>1, SmallPowers DEF Put
  <1>3. a * 2 + b \in Reg32 /\ c * 64 + d \in Seven BY DEF Reg32, Seven
  <1> QED BY <1>1, <1>2, <1>3

LEMMA MakeJType ==
  ASSUME NEW imm \in Int
  PROVE  MakeJ(imm) \in FieldRecords
  <1>1. Cut(imm, 12, 3) \in Three /\ Cut(imm, 15, 5) \in Reg32
    BY CutTypes DEF Three, Reg32
  <1>2. /\ Put(imm, 1, 4, 1) + Cut(imm, 11, 1) \in Reg32
        /\ Put(imm, 20, 1, 6) + Cut(imm, 5, 6) \in Seven
    BY Joined
  <1> QED BY <1>1, <1>2, FieldRecordsAre, Literals, SMT DEF MakeJ

LEMMA MakeBType ==
  ASSUME NEW imm \in Int, NEW rs1 \in Reg32, NEW f3 \in Three
  PROVE  MakeB(imm, rs1, f3) \in FieldRecords
  <1>1. /\ Put(imm, 1, 4, 1) + Cut(imm, 11, 1) \in Reg32
        /\ Put(imm, 12, 1, 6) + Cut(imm, 5, 6) \in Seven
    BY Joined
  <1> QED BY <1>1, FieldRecordsAre, Literals, SMT DEF MakeB

LEMMA IllegalType == IllegalWord \in FieldRecords
BY MakeRType, Literals DEF IllegalWord

\* Every immediate that is put together is a number, every register has five bits.
LEMMA OperandTypes ==
  ASSUME NEW c \in Int
  PROVE  /\ RegF(c) \in Reg32 /\ Rs2F(c) \in Reg32
         /\ \A low \in Nat : RegC(c, low) \in Reg32
         /\ Cut(c, 13, 3) \in Three /\ Cut(c, 10, 2) \in 0 .. 3 /\ Cut(c, 12, 1) \in 0 .. 1
         /\ Cut(c, 5, 2) \in 0 .. 3
  <1>1. ASSUME NEW low \in Nat PROVE RegC(c, low) \in Reg32
    <2>1. PICK a \in 0 .. 7 : a = Cut(c, low, 3) BY CutTypes
    <2>2. a + 8 \in Reg32 BY DEF Reg32
    <2> QED BY <2>1, <2>2 DEF RegC
  <1>2. RegF(c) \in Reg32 /\ Rs2F(c) \in Reg32 BY CutTypes DEF RegF, Rs2F, Reg32
  <1>3. /\ Cut(c, 13, 3) \in Three /\ Cut(c, 10, 2) \in 0 .. 3 /\ Cut(c, 12, 1) \in 0 .. 1
        /\ Cut(c, 5, 2) \in 0 .. 3
    BY CutTypes DEF Three
  <1> QED BY <1>1, <1>2, <1>3

LEMMA ImmediateTypes ==
  ASSUME NEW c \in Int
  PROVE  /\ Imm6(c) \in Int /\ Shamt6(c) \in Int /\ 1024 + Shamt6(c) \in Int /\ ImmWord(c) \in Int
         /\ ImmDouble(c) \in Int /\ ImmDoubleSp(c) \in Int /\ ImmStoreSp(c) \in Int
         /\ ImmAddi16Sp(c) \in Int /\ ImmJump(c) \in Int /\ ImmBranch(c) \in Int
         /\ Put(c, 2, 5, 12) + Sign(c, 131072) \in Int
         /\ Put(c, 7, 4, 6) + Put(c, 11, 2, 4) + Put(c, 5, 1, 3) + Put(c, 6, 1, 2) \in Int
         /\ Put(c, 4, 3, 2) + Put(c, 12, 1, 5) + Put(c, 2, 2, 6) \in Int
         /\ Put(c, 9, 4, 2) + Put(c, 7, 2, 6) \in Int
  <1>1. \A low, width, to \in Nat : Put(c, low, width, to) \in Int
    <2>1. \A low, width, to \in Nat : Put(c, low, width, to) \in Nat BY PutType
    <2> QED BY <2>1
  <1>2. \A n \in Int : Sign(c, n) \in Int BY DEF Sign
  <1>3. Cut(c, 2, 5) \in Int BY CutTypes
  <1>4. Imm6(c) \in Int
    <2>1. Sign(c, 32) \in Int BY <1>2
    <2> QED BY <1>3, <2>1 DEF Imm6
  <1>5. Shamt6(c) \in Int /\ 1024 + Shamt6(c) \in Int
    <2>1. Put(c, 12, 1, 5) \in Int BY <1>1
    <2>2. Shamt6(c) \in Int BY <1>3, <2>1 DEF Shamt6
    <2> QED BY <2>2
  <1>6. ImmWord(c) \in Int /\ ImmDouble(c) \in Int /\ ImmDoubleSp(c) \in Int /\ ImmStoreSp(c) \in Int
    <2>1. /\ Put(c, 6, 1, 2) \in Int /\ Put(c, 10, 3, 3) \in Int /\ Put(c, 5, 1, 6) \in Int
          /\ Put(c, 5, 2, 6) \in Int /\ Put(c, 5, 2, 3) \in Int /\ Put(c, 12, 1, 5) \in Int
          /\ Put(c, 2, 3, 6) \in Int /\ Put(c, 7, 3, 6) \in Int
      BY <1>1
    <2> QED BY <2>1 DEF ImmWord, ImmDouble, ImmDoubleSp, ImmStoreSp
  <1>7. ImmAddi16Sp(c) \in Int /\ ImmBranch(c) \in Int
    <2>1. /\ Put(c, 6, 1, 4) \in Int /\ Put(c, 2, 1, 5) \in Int /\ Put(c, 5, 1, 6) \in Int
          /\ Put(c, 3, 2, 7) \in Int /\ Put(c, 3, 2, 1) \in Int /\ Put(c, 10, 2, 3) \in Int
          /\ Put(c, 5, 2, 6) \in Int /\ Put(c, 12, 1, 8) \in Int
      BY <1>1
    <2>2. Sign(c, 512) \in Int BY <1>2
    <2> QED BY <2>1, <2>2 DEF ImmAddi16Sp, ImmBranch
  <1>8. ImmJump(c) \in Int
    <2>1. /\ Put(c, 3, 3, 1) \in Int /\ Put(c, 11, 1, 4) \in Int /\ Put(c, 2, 1, 5) \in Int
          /\ Put(c, 7, 1, 6) \in Int /\ Put(c, 6, 1, 7) \in Int /\ Put(c, 9, 2, 8) \in Int
          /\ Put(c, 8, 1, 10) \in Int /\ Put(c, 12, 1, 11) \in Int
      BY <1>1
    <2>2. Sign(c, 4096) \in Int BY <1>2, SMT
    <2> QED BY <2>1, <2>2 DEF ImmJump
  <1>9. Put(c, 2, 5, 12) + Sign(c, 131072) \in Int
    <2>1. Put(c, 2, 5, 12) \in Int BY <1>1
    <2>2. Sign(c, 131072) \in Int BY <1>2, SMT
    <2> QED BY <2>1, <2>2, SMT
  <1>10. /\ Put(c, 7, 4, 6) + Put(c, 11, 2, 4) + Put(c, 5, 1, 3) + Put(c, 6, 1, 2) \in Int
         /\ Put(c, 4, 3, 2) + Put(c, 12, 1, 5) + Put(c, 2, 2, 6) \in Int
         /\ Put(c, 9, 4, 2) + Put(c, 7, 2, 6) \in Int
    <2>1. /\ Put(c, 7, 4, 6) \in Int /\ Put(c, 11, 2, 4) \in Int /\ Put(c, 5, 1, 3) \in Int
          /\ Put(c, 6, 1, 2) \in Int /\ Put(c, 4, 3, 2) \in Int /\ Put(c, 12, 1, 5) \in Int
          /\ Put(c, 2, 2, 6) \in Int /\ Put(c, 9, 4, 2) \in Int /\ Put(c, 7, 2, 6) \in Int
      BY <1>1
    <2> QED BY <2>1
  <1> QED BY <1>4, <1>5, <1>6, <1>7, <1>8, <1>9, <1>10, SMT

LEMMA Quadrant0Type ==
  ASSUME NEW c \in Int
  PROVE  Quadrant0(c) \in FieldRecords
  <1> DEFINE f3 == Cut(c, 13, 3)
             wide == Put(c, 7, 4, 6) + Put(c, 11, 2, 4) + Put(c, 5, 1, 3) + Put(c, 6, 1, 2)
  <1>1. RegC(c, 2) \in Reg32 /\ RegC(c, 7) \in Reg32 BY OperandTypes
  <1>a. wide \in Int /\ ImmWord(c) \in Int /\ ImmDouble(c) \in Int BY ImmediateTypes, SMT
  <1> HIDE DEF wide
  <1>2. /\ MakeI(wide, 2, 0, RegC(c, 2), 19) \in FieldRecords
        /\ MakeI(ImmWord(c), RegC(c, 7), 2, RegC(c, 2), 3) \in FieldRecords
        /\ MakeI(ImmDouble(c), RegC(c, 7), 3, RegC(c, 2), 3) \in FieldRecords
    BY <1>1, <1>a, Literals, MakeIType
  <1>3. /\ MakeS(ImmWord(c), RegC(c, 2), RegC(c, 7), 2, 35) \in FieldRecords
        /\ MakeS(ImmDouble(c), RegC(c, 2), RegC(c, 7), 3, 35) \in FieldRecords
    BY <1>1, <1>a, Literals, MakeSType
  <1> QED BY <1>2, <1>3, IllegalType, Zenon DEF Quadrant0, wide

LEMMA ArithType ==
  ASSUME NEW c \in Int, NEW rd \in Reg32
  PROVE  Arith(c, rd) \in FieldRecords
  <1> DEFINE rs2 == RegC(c, 2)
             which == Cut(c, 5, 2)
             f7 == IF which = 0 THEN 32 ELSE 0
             f3 == <<0, 4, 6, 7>>[which + 1]
  <1>1. rs2 \in Reg32 /\ f7 \in Seven BY OperandTypes, Literals
  <1>2. f3 \in Three
    <2>1. PICK w \in 0 .. 3 : w = which BY OperandTypes
    <2>2. <<0, 4, 6, 7>>[w + 1] \in Three BY Literals
    <2> QED BY <2>1, <2>2
  <1>3. MakeR(f7, rs2, rd, 0, rd, 59) \in FieldRecords /\ MakeR(f7, rs2, rd, f3, rd, 51) \in FieldRecords
    BY <1>1, <1>2, Literals, MakeRType
  <1> QED BY <1>3, IllegalType, Zenon DEF Arith

LEMMA Quadrant1Type ==
  ASSUME NEW c \in Int
  PROVE  Quadrant1(c) \in FieldRecords
  <1> DEFINE f3 == Cut(c, 13, 3)
             f2 == Cut(c, 10, 2)
             rd == RegF(c)
             rdc == RegC(c, 7)
             up == Put(c, 2, 5, 12) + Sign(c, 131072)
  <1>1. rd \in Reg32 /\ rdc \in Reg32 BY OperandTypes
  <1>2. Imm6(c) \in Int /\ ImmAddi16Sp(c) \in Int /\ ImmJump(c) \in Int /\ ImmBranch(c) \in Int
        /\ Shamt6(c) \in Int /\ 1024 + Shamt6(c) \in Int /\ up \in Int /\ 0 \in Int
    BY ImmediateTypes, SMT
  <1>3. /\ MakeI(0, 0, 0, 0, 19) \in FieldRecords /\ MakeI(Imm6(c), rd, 0, rd, 19) \in FieldRecords
        /\ MakeI(Imm6(c), rd, 0, rd, 27) \in FieldRecords
        /\ MakeI(Imm6(c), 0, 0, rd, 19) \in FieldRecords
        /\ MakeI(ImmAddi16Sp(c), 2, 0, 2, 19) \in FieldRecords
        /\ MakeI(Shamt6(c), rdc, 5, rdc, 19) \in FieldRecords
        /\ MakeI(1024 + Shamt6(c), rdc, 5, rdc, 19) \in FieldRecords
        /\ MakeI(Imm6(c), rdc, 7, rdc, 19) \in FieldRecords
    <2> HIDE DEF up, rd, rdc
    <2> QED BY <1>1, <1>2, Literals, MakeIType
  <1>4. /\ MakeU(up, rd) \in FieldRecords /\ Arith(c, rdc) \in FieldRecords
        /\ MakeJ(ImmJump(c)) \in FieldRecords
    <2> HIDE DEF up, rd, rdc
    <2> QED BY <1>1, <1>2, MakeUType, MakeJType, ArithType
  <1>5. f3 \in {6, 7} => MakeB(ImmBranch(c), rdc, f3 - 6) \in FieldRecords
    <2>1. f3 \in {6, 7} => f3 - 6 \in Three BY DEF Three
    <2> HIDE DEF f3, rdc
    <2> QED BY <1>1, <1>2, <2>1, MakeBType
  <1>6. /\ f3 = 0 \/ f3 = 1 \/ f3 = 2 \/ f3 = 3 \/ f3 = 4 \/ f3 = 5 \/ f3 \in {6, 7}
        /\ f2 = 0 \/ f2 = 1 \/ f2 = 2 \/ f2 = 3
    BY OperandTypes DEF Three
  <1> DEFINE Q == Quadrant1(c)
  <1>7. /\ f3 = 0 => Q = IF rd = 0 THEN MakeI(0, 0, 0, 0, 19) ELSE MakeI(Imm6(c), rd, 0, rd, 19)
        /\ f3 = 1 => Q = MakeI(Imm6(c), rd, 0, rd, 27)
        /\ f3 = 2 => Q = MakeI(Imm6(c), 0, 0, rd, 19)
        /\ f3 = 3 /\ rd = 2 => Q = MakeI(ImmAddi16Sp(c), 2, 0, 2, 19)
        /\ f3 = 3 /\ rd # 2 => Q = MakeU(up, rd)
        /\ f3 = 4 /\ f2 = 0 => Q = MakeI(Shamt6(c), rdc, 5, rdc, 19)
        /\ f3 = 4 /\ f2 = 1 => Q = MakeI(1024 + Shamt6(c), rdc, 5, rdc, 19)
        /\ f3 = 4 /\ f2 = 2 => Q = MakeI(Imm6(c), rdc, 7, rdc, 19)
        /\ f3 = 4 /\ f2 = 3 => Q = Arith(c, rdc)
        /\ f3 = 5 => Q = MakeJ(ImmJump(c))
        /\ f3 \in {6, 7} => Q = MakeB(ImmBranch(c), rdc, f3 - 6)
    BY SMT DEF Quadrant1
  <1> HIDE DEF f3, f2, rd, rdc, up, Q
  <1>8. Q \in FieldRecords
    <2>1. CASE f3 = 4 BY <1>3, <1>4, <1>6, <1>7, <2>1
    <2>2. CASE f3 # 4 BY <1>3, <1>4, <1>5, <1>6, <1>7, <2>2
    <2> QED BY <2>1, <2>2
  <1> QED BY <1>8, SMT DEF Q

LEMMA MovesType ==
  ASSUME NEW c \in Int, NEW rd \in Reg32, NEW rs2 \in Reg32
  PROVE  Moves(c, rd, rs2) \in FieldRecords
  <1> DEFINE link == Cut(c, 12, 1)
             rs1 == IF link = 0 THEN 0 ELSE rd
  <1>1. rs1 \in Reg32 /\ link \in Reg32
    BY OperandTypes DEF Reg32
  <1>2. MakeR(0, rs2, rs1, 0, rd, 51) \in FieldRecords
    BY <1>1, Literals, MakeRType
  <1>3. MakeI(1, 0, 0, 0, 115) \in FieldRecords /\ MakeI(0, rd, 0, link, 103) \in FieldRecords
    <2>1. 0 \in Int /\ 1 \in Int OBVIOUS
    <2> QED BY <1>1, <2>1, Literals, MakeIType
  <1> QED BY <1>2, <1>3, Zenon DEF Moves

LEMMA Quadrant2Type ==
  ASSUME NEW c \in Int
  PROVE  Quadrant2(c) \in FieldRecords
  <1> DEFINE f3 == Cut(c, 13, 3)
             rd == RegF(c)
             rs2 == Rs2F(c)
             lw == Put(c, 4, 3, 2) + Put(c, 12, 1, 5) + Put(c, 2, 2, 6)
             sw == Put(c, 9, 4, 2) + Put(c, 7, 2, 6)
  <1>1. rd \in Reg32 /\ rs2 \in Reg32 BY OperandTypes
  <1>2. Shamt6(c) \in Int /\ ImmDoubleSp(c) \in Int /\ ImmStoreSp(c) \in Int /\ lw \in Int /\ sw \in Int
    BY ImmediateTypes, SMT
  <1> HIDE DEF lw, sw, rd, rs2
  <1>3. /\ MakeI(Shamt6(c), rd, 1, rd, 19) \in FieldRecords
        /\ MakeI(ImmDoubleSp(c), 2, 3, rd, 7) \in FieldRecords
        /\ MakeI(lw, 2, 2, rd, 3) \in FieldRecords
        /\ MakeI(ImmDoubleSp(c), 2, 3, rd, 3) \in FieldRecords
    BY <1>1, <1>2, Literals, MakeIType
  <1>4. /\ MakeS(ImmStoreSp(c), rs2, 2, 3, 39) \in FieldRecords
        /\ MakeS(sw, rs2, 2, 2, 35) \in FieldRecords
        /\ MakeS(ImmStoreSp(c), rs2, 2, 3, 35) \in FieldRecords
    BY <1>1, <1>2, Literals, MakeSType
  <1>5. Moves(c, rd, rs2) \in FieldRecords BY <1>1, MovesType
  <1>6. f3 = 0 \/ f3 = 1 \/ f3 = 2 \/ f3 = 3 \/ f3 = 4 \/ f3 = 5 \/ f3 = 6 \/ f3 = 7
    BY OperandTypes DEF Three
  <1> DEFINE Q == Quadrant2(c)
  <1>7. /\ f3 = 0 => Q = MakeI(Shamt6(c), rd, 1, rd, 19)
        /\ f3 = 1 => Q = MakeI(ImmDoubleSp(c), 2, 3, rd, 7)
        /\ f3 = 2 => Q = MakeI(lw, 2, 2, rd, 3)
        /\ f3 = 3 => Q = MakeI(ImmDoubleSp(c), 2, 3, rd, 3)
        /\ f3 = 4 => Q = Moves(c, rd, rs2)
        /\ f3 = 5 => Q = MakeS(ImmStoreSp(c), rs2, 2, 3, 39)
        /\ f3 = 6 => Q = MakeS(sw, rs2, 2, 2, 35)
        /\ f3 = 7 => Q = MakeS(ImmStoreSp(c), rs2, 2, 3, 35)
    BY DEF Quadrant2, lw, sw, rd, rs2
  <1> HIDE DEF f3, Q
  <1>8. Q \in FieldRecords BY <1>3, <1>4, <1>5, <1>6, <1>7, Zenon
  <1> QED BY <1>8, SMT DEF Q

LEMMA DecompressType ==
  ASSUME NEW c \in Int, c % 4 # 3
  PROVE  Decompress(c) \in FieldRecords
  <1>1. c % 4 = 0 \/ c % 4 = 1 \/ c % 4 = 2 OBVIOUS
  <1> QED BY <1>1, Quadrant0Type, Quadrant1Type, Quadrant2Type, Zenon DEF Decompress

\* An instruction as its handler gets it.
Decoded ==
    [name : {Handler(w) : w \in FieldRecords}, rd : RegNum, rs1 : RegNum, rs2 : RegNum,
     imm : Int32Min .. Int32Max, length : {2, 4}]

LEMMA DecodeType ==
  ASSUME NEW pc \in Word, NEW code \in Code[pc]
  PROVE  Decode(code) \in Decoded
  <1>1. code \in Seq(HalfWord) /\ Len(code) = IF code[1] % 4 = 3 THEN 2 ELSE 1
    BY ProgramAssumption
  <1>2. code[1] \in Nat /\ (code[1] % 4 = 3 => code[2] \in Nat)
    <2>1. \A k \in 1 .. Len(code) : code[k] \in HalfWord BY <1>1
    <2>2. HalfWord \subseteq Nat BY SMT DEF HalfWord
    <2>3. 1 \in 1 .. Len(code) /\ (code[1] % 4 = 3 => 2 \in 1 .. Len(code)) BY <1>1
    <2> QED BY <2>1, <2>2, <2>3
  <1>3. ASSUME NEW w \in FieldRecords, NEW length \in {2, 4}
        PROVE  Operation(w, length) \in Decoded
    <2>1. Immediate(w) \in Int32Min .. Int32Max BY ImmediateType DEF Immediates
    <2>2. w.rd \in RegNum /\ w.rs1 \in RegNum /\ w.rs2 \in RegNum
      BY FieldRecordsAre DEF Reg32, RegNum
    <2>3. Handler(w) \in {Handler(v) : v \in FieldRecords} OBVIOUS
    <2> QED BY <2>1, <2>2, <2>3, SMT DEF Operation, Decoded
  <1>4. CASE code[1] % 4 # 3
    <2>1. code[1] \in Int BY <1>2
    <2>2. Decompress(code[1]) \in FieldRecords BY <1>4, <2>1, DecompressType
    <2> QED BY <1>3, <1>4, <2>2 DEF Decode
  <1>5. CASE code[1] % 4 = 3
    <2>1. Fields(code[1], code[2]) \in FieldRecords BY <1>2, <1>5, FieldsType
    <2> QED BY <1>3, <1>5, <2>1 DEF Decode
  <1> QED BY <1>4, <1>5

-----------------------------------------------------------------------------
(* A step keeps the types.                                                 *)

\* What is true of the hart and of the instruction its handler is given.
Typed(i) ==
    /\ registers \in [RegNum -> Word] /\ f_registers \in [RegNum -> Word]
    /\ program_counter \in Word /\ i \in Decoded

HartTypes ==
    /\ registers \in [RegNum -> Word] /\ f_registers \in [RegNum -> Word]
    /\ program_counter \in Word

LEMMA DecodedFields ==
  ASSUME NEW i \in Decoded
  PROVE  /\ i.rd \in RegNum /\ i.rs1 \in RegNum /\ i.rs2 \in RegNum
         /\ i.imm \in Int /\ i.imm \in Int32Min .. Int32Max /\ i.length \in {2, 4} /\ i.length \in Int
  <1>1. /\ i.rd \in RegNum /\ i.rs1 \in RegNum /\ i.rs2 \in RegNum
        /\ i.imm \in Int32Min .. Int32Max /\ i.length \in {2, 4}
    BY SMT DEF Decoded
  <1>2. \A a, b \in Int : \A z \in a .. b : z \in Int OBVIOUS
  <1>3. i.imm \in Int BY <1>1, <1>2, Int32Bounds, SMT
  <1> QED BY <1>1, <1>3, SMT

LEMMA AtType == \A offset \in Int : program_counter \in Word => At(offset) \in Word
  <1>1. \A p \in Word : p \in Int BY WordRest
  <1> QED BY <1>1, RestType DEF At

LEMMA RetireType ==
  ASSUME program_counter \in Word, NEW target \in Word, NEW length \in Int, Retire(target, length)
  PROVE  program_counter' \in Word
BY AtType DEF Retire

LEMMA ContinueType ==
  ASSUME program_counter \in Word, NEW i \in Decoded, Continue(i)
  PROVE  program_counter' \in Word
BY RetireType, DecodedFields DEF Continue

LEMMA WriteRegType ==
  ASSUME registers \in [RegNum -> Word], NEW rd \in RegNum, NEW v \in Word
  PROVE  WriteReg(rd, v) \in [RegNum -> Word] /\ \A f : SetReg(f, rd, v) \in [RegNum -> Word]
BY DEF WriteReg, SetReg

LEMMA RegImmTypes == \A f \in DOMAIN RegImmOps : RegImmOps[f] \in RegRegOps
BY DEF RegImmOps, RegRegOps, BaseOps

LEMMA ArithmeticTypes ==
  ASSUME HartTypes, NEW i \in Decoded, Arithmetic(i)
  PROVE  HartTypes'
  <1>1. program_counter' \in Word BY ContinueType DEF Arithmetic, HartTypes
  <1>2. f_registers' \in [RegNum -> Word] BY DEF Arithmetic, HartTypes
  <1>3. PICK a \in Word, b \in Word, c \in Word :
          a = registers[i.rs1] /\ b = registers[i.rs2] /\ c = i.imm % Full
    BY DecodedFields, RestType DEF HartTypes
  <1>4. CASE /\ i.name \in RegRegOps
             /\ registers' = SetReg(i.name, i.rd, Compute(i.name, registers[i.rs1], registers[i.rs2]))
    <2>1. Compute(i.name, a, b) \in Word BY <1>4, ComputeType
    <2>2. registers' = SetReg(i.name, i.rd, Compute(i.name, a, b)) BY <1>3, <1>4
    <2>3. registers' \in [RegNum -> Word]
      BY <2>1, <2>2, WriteRegType, DecodedFields DEF HartTypes
    <2> QED BY <1>1, <1>2, <2>3 DEF HartTypes
  <1>5. CASE /\ i.name \in DOMAIN RegImmOps
             /\ registers' = SetReg(i.name, i.rd,
                    Compute(RegImmOps[i.name], registers[i.rs1], i.imm % Full))
    <2>1. RegImmOps[i.name] \in RegRegOps BY <1>5, RegImmTypes
    <2>2. Compute(RegImmOps[i.name], a, c) \in Word BY <2>1, ComputeType
    <2>3. registers' = SetReg(i.name, i.rd, Compute(RegImmOps[i.name], a, c)) BY <1>3, <1>5
    <2>4. registers' \in [RegNum -> Word]
      BY <2>2, <2>3, WriteRegType, DecodedFields DEF HartTypes
    <2> QED BY <1>1, <1>2, <2>4 DEF HartTypes
  <1> QED BY <1>4, <1>5 DEF Arithmetic

LEMMA UpperTypes ==
  ASSUME HartTypes, NEW i \in Decoded, Upper(i)
  PROVE  HartTypes'
  <1>1. program_counter' \in Word BY ContinueType DEF Upper, HartTypes
  <1>2. i.imm % Full \in Word /\ At(i.imm) \in Word
    BY DecodedFields, RestType, AtType DEF HartTypes
  <1>3. registers' \in [RegNum -> Word]
    BY <1>2, WriteRegType, DecodedFields DEF Upper, HartTypes
  <1> QED BY <1>1, <1>3 DEF Upper, HartTypes

LEMMA BranchTypes ==
  ASSUME HartTypes, NEW i \in Decoded, Branch(i)
  PROVE  HartTypes'
  <1>1. PICK t \in Word : Retire(t, i.length)
    BY DecodedFields, AtType DEF Branch, HartTypes
  <1>2. program_counter' \in Word BY <1>1, RetireType, DecodedFields DEF HartTypes
  <1> QED BY <1>2 DEF Branch, HartTypes

LEMMA JumpTypes ==
  ASSUME HartTypes, NEW i \in Decoded, Jump(i)
  PROVE  HartTypes'
  <1>1. \E t \in Word : Retire(t, i.length)
    <2>1. CASE i.name = "jal" /\ Retire(At(i.imm), i.length)
      BY <2>1, DecodedFields, AtType DEF HartTypes
    <2>2. CASE /\ i.name = "jalr"
               /\ LET target == (registers[i.rs1] + i.imm) % Full
                  IN  Retire(target - (target % 2), i.length)
      <3>1. registers[i.rs1] + i.imm \in Int
        <4>1. registers[i.rs1] \in Word BY DecodedFields DEF HartTypes
        <4>2. registers[i.rs1] \in Int BY <4>1, WordRest
        <4> QED BY <4>2, DecodedFields
      <3>2. PICK t \in Word : t = (registers[i.rs1] + i.imm) % Full BY <3>1, RestType
      <3>3. t - (t % 2) \in Word
        <4>1. PICK F \in Nat \ {0, 1} : F = Full BY WordFacts
        <4>2. t \in 0 .. F - 1 BY <4>1 DEF Word
        <4>3. t % 2 \in 0 .. 1 /\ t % 2 <= t BY <4>2
        <4> QED BY <4>1, <4>2, <4>3 DEF Word
      <3> QED BY <2>2, <3>2, <3>3
    <2> QED BY <2>1, <2>2 DEF Jump
  <1>2. program_counter' \in Word BY <1>1, RetireType, DecodedFields DEF HartTypes
  <1>3. At(i.length) \in Word BY DecodedFields, AtType DEF HartTypes
  <1>4. registers' \in [RegNum -> Word] BY <1>3, WriteRegType, DecodedFields DEF Jump, HartTypes
  <1> QED BY <1>2, <1>4 DEF Jump, HartTypes

LEMMA AccessTypes ==
  ASSUME HartTypes, NEW i \in Decoded, Access(i)
  PROVE  HartTypes'
  <1>1. program_counter' \in Word BY ContinueType DEF Access, HartTypes
  <1>2. \A v \in Loaded : v \in Word BY ProgramAssumption
  <1>3. CASE \E v \in Loaded : registers' = WriteReg(i.rd, v) /\ UNCHANGED f_registers
    <2>1. registers' \in [RegNum -> Word] BY <1>2, <1>3, WriteRegType, DecodedFields DEF HartTypes
    <2> QED BY <1>1, <1>3, <2>1 DEF HartTypes
  <1>4. CASE \E v \in Loaded : f_registers' = [f_registers EXCEPT ![i.rd] = v] /\ UNCHANGED registers
    <2>1. f_registers' \in [RegNum -> Word] BY <1>2, <1>4, DecodedFields DEF HartTypes
    <2> QED BY <1>1, <1>4, <2>1 DEF HartTypes
  <1>5. CASE UNCHANGED <<registers, f_registers>> BY <1>1, <1>5 DEF HartTypes
  <1> QED BY <1>3, <1>4, <1>5 DEF Access

LEMMA BoxedType == \A x \in Word : Boxed(x) \in Word
  <1>1. PICK h \in Nat \ {0, 1}, F \in Nat \ {0, 1} : h = Half /\ F = Full /\ h < F
    BY WordFacts, FullIsPow2
  <1>2. ASSUME NEW x \in Word PROVE Boxed(x) \in Word
    <2>1. x \in Int BY WordRest
    <2>2. PICK r \in 0 .. h - 1 : r = x % h BY <2>1
    <2>3. r + (F - h) \in 0 .. F - 1 BY <1>1
    <2> QED BY <1>1, <2>2, <2>3 DEF Boxed, Word
  <1> QED BY <1>2

LEMMA FloatMoveTypes ==
  ASSUME HartTypes, NEW i \in Decoded, FloatMove(i)
  PROVE  HartTypes'
  <1>1. program_counter' \in Word BY ContinueType DEF FloatMove, HartTypes
  <1>2. registers[i.rs1] \in Word /\ f_registers[i.rs1] \in Word BY DecodedFields DEF HartTypes
  <1>3. Boxed(registers[i.rs1]) \in Word BY <1>2, BoxedType
  <1>4. ExtendHalf(f_registers[i.rs1]) \in Word
    <2>1. f_registers[i.rs1] \in Int BY <1>2, WordRest
    <2> QED BY <2>1, ExtendType
  <1>5. CASE /\ f_registers' = [f_registers EXCEPT ![i.rd] =
                    IF i.name = "fmv.w.x" THEN Boxed(registers[i.rs1]) ELSE registers[i.rs1]]
             /\ UNCHANGED registers
    <2>1. f_registers' \in [RegNum -> Word] BY <1>2, <1>3, <1>5, DecodedFields DEF HartTypes
    <2> QED BY <1>1, <1>5, <2>1 DEF HartTypes
  <1>6. CASE /\ registers' = SetReg(i.name, i.rd,
                    IF i.name = "fmv.x.w" THEN ExtendHalf(f_registers[i.rs1]) ELSE f_registers[i.rs1])
             /\ UNCHANGED f_registers
    <2>1. registers' \in [RegNum -> Word]
      BY <1>2, <1>4, <1>6, WriteRegType, DecodedFields DEF HartTypes
    <2> QED BY <1>1, <1>6, <2>1 DEF HartTypes
  <1> QED BY <1>5, <1>6 DEF FloatMove

LEMMA TrapTypes ==
  ASSUME HartTypes, NEW i \in Decoded, Trap(i)
  PROVE  HartTypes'
  <1>1. TrapPC \in Word BY ProgramAssumption
  <1>2. program_counter' \in Word BY <1>1, RetireType, DecodedFields DEF Trap, HartTypes
  <1> QED BY <1>2 DEF Trap, HartTypes

LEMMA TypesInit == Init => TypeOK
  <1> SUFFICES ASSUME Init PROVE TypeOK OBVIOUS
  <1>1. PICK b \in Begin, v \in StackWord :
          /\ program_counter = b[1]
          /\ registers = [r \in RegNum |-> IF r = 0 THEN v ELSE b[2][r]]
    BY DEF Init
  <1>2. v \in Word /\ b[1] \in Word /\ b[2] \in [1 .. 31 -> Word] BY ProgramAssumption
  <1>3. \A r \in RegNum : r # 0 => r \in 1 .. 31 BY DEF RegNum
  <1>4. registers \in [RegNum -> Word] BY <1>1, <1>2, <1>3
  <1>5. 0 \in Word BY WordFacts DEF Word
  <1>6. f_registers \in [RegNum -> Word] BY <1>5 DEF Init
  <1>7. 0 \in Int32Min .. Int32Max BY SmallImmediate, SMT DEF Immediates
  <1>8. 0 \in RegNum BY DEF RegNum
  <1>9. /\ inst.rd = 0 /\ inst.rs1 = 0 /\ inst.rs2 = 0 /\ inst.imm = 0 /\ inst.length = 0
    BY DEF Init, NoInst
  <1> QED BY <1>1, <1>2, <1>4, <1>6, <1>7, <1>8, <1>9, SMT DEF TypeOK

LEMMA TypesStep == TypeOK /\ [Next]_vars => TypeOK'
  <1> SUFFICES ASSUME TypeOK, [Next]_vars PROVE TypeOK' OBVIOUS
  <1>1. CASE UNCHANGED vars BY <1>1, SMT DEF vars, TypeOK
  <1>2. CASE Next
    <2>1. PICK code \in Code[program_counter] : inst' = Decode(code) /\ Handle(inst')
      BY <1>2 DEF Next
    <2>2. HartTypes BY SMT DEF TypeOK, HartTypes
    <2>3. inst' \in Decoded BY <2>1, <2>2, DecodeType DEF HartTypes
    <2>4. HartTypes'
      BY <2>1, <2>2, <2>3, ArithmeticTypes, UpperTypes, BranchTypes, JumpTypes, AccessTypes,
         FloatMoveTypes, TrapTypes DEF Handle
    <2>5. /\ inst'.rd \in RegNum /\ inst'.rs1 \in RegNum /\ inst'.rs2 \in RegNum
          /\ inst'.imm \in Int32Min .. Int32Max /\ inst'.length \in {2, 4}
      BY <2>3, DecodedFields, SMT
    <2>6. inst'.length \in {0, 2, 4} BY <2>5
    <2> QED BY <2>4, <2>5, <2>6, SMT DEF TypeOK, HartTypes
  <1> QED BY <1>1, <1>2

\* Whatever the instructions in memory, the registers hold words, the program
\* counter is an address and the operands a handler is given are in range.
THEOREM TypeCorrect == Spec => []TypeOK
BY TypesInit, TypesStep, PTL DEF Spec

-----------------------------------------------------------------------------
(* Every step is one of the manual.                                        *)

\* A jump, a branch or a trap to where it is.
ToItself(i) ==
    \/ i.name = "jal" /\ At(i.imm) = program_counter
    \/ /\ i.name = "jalr"
       /\ LET target == (registers[i.rs1] + i.imm) % Full
          IN  target - (target % 2) = program_counter
    \/ /\ i.name \in BranchOps /\ Taken(i.name, registers[i.rs1], registers[i.rs2])
       /\ At(i.imm) = program_counter
    \/ i.name \in {"illegal", "system"} /\ TrapPC = program_counter

\* The operands the handlers are given are those the manual gives.
DecodesAsTheManual ==
    \A pc \in Word : \A code \in Code[pc] : Shown(Decode(code)) = Architecture!Meaning(code)

ShiftOps == {"slli", "srli", "srai"}
HalfShiftOps == {"slliw", "srliw", "sraiw"}

ImmShown(i) ==
    CASE i.name \in ShiftOps -> i.imm % 64
      [] i.name \in HalfShiftOps -> i.imm % 32
      [] OTHER -> i.imm

LEMMA ShownIs ==
  ASSUME NEW i
  PROVE  /\ Shown(i).name = i.name /\ Shown(i).length = i.length
         /\ "rd" \in Operands(i.name) => Shown(i).rd = i.rd
         /\ "rs1" \in Operands(i.name) => Shown(i).rs1 = i.rs1
         /\ "rs2" \in Operands(i.name) => Shown(i).rs2 = i.rs2
         /\ "imm" \in Operands(i.name) => Shown(i).imm = ImmShown(i)
BY DEF Shown, ImmShown, ShiftOps, HalfShiftOps

LEMMA OperandsOf ==
  /\ \A f \in RegRegOps : {"rd", "rs1", "rs2"} \subseteq Operands(f)
  /\ \A f \in DOMAIN RegImmOps \cup {"jalr", "load", "fld"} : {"rd", "rs1", "imm"} \subseteq Operands(f)
  /\ \A f \in {"jal", "lui", "auipc"} : {"rd", "imm"} \subseteq Operands(f)
  /\ \A f \in BranchOps : {"rs1", "rs2", "imm"} \subseteq Operands(f)
  /\ \A f \in {"fmv.w.x", "fmv.x.w", "fmv.d.x", "fmv.x.d"} : {"rd", "rs1"} \subseteq Operands(f)
  <1>1. \A f \in RegRegOps : {"rd", "rs1", "rs2"} \subseteq Operands(f)
    <2>1. TAKE f \in RegRegOps
    <2>2. /\ f \notin BranchOps \cup {"store", "fsd"} /\ f \notin {"jal", "lui", "auipc"}
          /\ f \notin {"fmv.w.x", "fmv.x.w", "fmv.d.x", "fmv.x.d"}
          /\ f \notin {"illegal", "fence", "none"} /\ f # "system"
      BY DEF RegRegOps, BaseOps, MulOps, BranchOps
    <2>3. Operands(f) = {"rd", "rs1", "rs2"} BY <2>2, SMT DEF Operands
    <2> QED BY <2>3
  <1>2. \A f \in DOMAIN RegImmOps \cup {"jalr", "load", "fld"} : {"rd", "rs1", "imm"} \subseteq Operands(f)
    <2>1. TAKE f \in DOMAIN RegImmOps \cup {"jalr", "load", "fld"}
    <2>2. f \in {"addi", "andi", "ori", "xori", "slti", "sltiu", "slli", "srli", "srai", "addiw",
                "slliw", "srliw", "sraiw", "jalr", "load", "fld"}
      BY DEF RegImmOps
    <2>3. f \notin RegRegOps
      BY <2>2 DEF RegRegOps, BaseOps, MulOps
    <2>4. f \notin BranchOps \cup {"store", "fsd"} BY <2>2 DEF BranchOps
    <2>5. /\ f \notin {"jal", "lui", "auipc"} /\ f \notin {"fmv.w.x", "fmv.x.w", "fmv.d.x", "fmv.x.d"}
          /\ f \notin {"illegal", "fence", "none"} /\ f # "system"
      BY <2>2
    <2>6. Operands(f) = {"rd", "rs1", "imm"} BY <2>3, <2>4, <2>5, Zenon DEF Operands
    <2> QED BY <2>6
  <1>3. \A f \in {"jal", "lui", "auipc"} : {"rd", "imm"} \subseteq Operands(f)
    BY DEF Operands, RegRegOps, BaseOps, MulOps, BranchOps
  <1>4. \A f \in BranchOps : {"rs1", "rs2", "imm"} \subseteq Operands(f)
    BY DEF Operands, RegRegOps, BaseOps, MulOps, BranchOps
  <1>5. \A f \in {"fmv.w.x", "fmv.x.w", "fmv.d.x", "fmv.x.d"} : {"rd", "rs1"} \subseteq Operands(f)
    BY DEF Operands, RegRegOps, BaseOps, MulOps, BranchOps
  <1> QED BY <1>1, <1>2, <1>3, <1>4, <1>5

LEMMA RestOfRest ==
  ASSUME NEW n \in Nat \ {0}, NEW k \in Nat \ {0}, NEW x \in Int
  PROVE  (x % (n * k)) % n = x % n
  <1>1. PICK m \in Nat \ {0} : m = n * k OBVIOUS
  <1>2. PICK z \in Int : x = (x % m) + m * z /\ x % m = x - m * z BY <1>1, RestOf
  <1>3. PICK y \in Int : y = -(k * z) BY Products
  <1>4. m * z = -(n * y)
    <2>0. n \in Int /\ k \in Int OBVIOUS
    <2>1. m * z = n * (k * z) BY <1>1, <2>0, Products
    <2>2. PICK t \in Int : t = k * z BY Products
    <2>3. n * (-t) = -(n * t) OBVIOUS
    <2> QED BY <1>3, <2>1, <2>2, <2>3
  <1>5. x % m = x + n * y
    <2>1. PICK t \in Int : t = n * y BY Products
    <2> QED BY <1>2, <1>4, <2>1
  <1>6. (x + n * y) % n = x % n BY Congruent
  <1> QED BY <1>1, <1>5, <1>6

LEMMA WholeTimes ==
  ASSUME NEW m \in Nat \ {0}, NEW n \in Nat \ {0}, m % n = 0
  PROVE  \E q \in Nat \ {0} : m = n * q
  <1>0. m \in Nat OBVIOUS
  <1>1. PICK q \in Nat, r \in 0 .. n - 1 : q = m \div n /\ r = m % n /\ m = n * q + r
    BY <1>0, DivisionNat
  <1>2. m = n * q BY <1>1
  <1>3. q # 0 BY <1>2
  <1> QED BY <1>2, <1>3

\* A shift by an immediate reads no more of it than the amount.
LEMMA SameAmounts ==
  ASSUME 32 % HalfBits = 0, NEW imm \in Int
  PROVE  /\ Shamt(imm % Full) = Shamt((imm % 64) % Full)
         /\ ShamtW(imm % Full) = ShamtW((imm % 32) % Full)
  <1>1. PICK n \in Nat \ {0}, h \in Nat \ {0, 1}, F \in Nat \ {0, 1} :
          n = HalfBits /\ h = Half /\ F = Full /\ XLen = 2 * n /\ F = h * h /\ h % n = 0 /\ 32 % n = 0
    BY WordAssumption, WordFacts DEF XLen
  <1>2. PICK q \in Nat \ {0} : h = n * q
    <2>1. h \in Nat \ {0} BY <1>1
    <2> QED BY <1>1, <2>1, WholeTimes
  <1>3. PICK p \in Nat \ {0} : 32 = n * p
    <2>1. 32 \in Nat \ {0} OBVIOUS
    <2> QED BY <1>1, <2>1, WholeTimes
  <1>4. PICK k \in Nat \ {0} : h = 2 * k
    <2>1. 2 * (h \div 2) = h /\ h \div 2 \in Nat \ {0} BY <1>1, EvenHalf
    <2> QED BY <2>1
  <1>5. PICK u \in Nat \ {0}, v \in Nat \ {0} : F = XLen * u /\ F = n * v
    <2>1. PICK v \in Nat \ {0} : v = q * h
      <3>1. q * h \in Nat \ {0} OBVIOUS
      <3> QED BY <3>1
    <2>2. F = n * v
      <3>1. (n * q) * h = n * (q * h) BY Products
      <3> QED BY <1>1, <1>2, <2>1, <3>1
    <2>3. PICK u \in Nat \ {0} : u = q * k
      <3>1. q * k \in Nat \ {0} OBVIOUS
      <3> QED BY <3>1
    <2>4. F = XLen * u
      <3>1. v = 2 * u
        <4>1. q * (2 * k) = 2 * (q * k) BY Products
        <4> QED BY <1>4, <2>1, <2>3, <4>1
      <3>2. n * (2 * u) = (2 * n) * u BY Products
      <3> QED BY <1>1, <2>2, <3>1, <3>2
    <2> QED BY <2>2, <2>4
  <1>6. 64 = XLen * p
    <2>1. (2 * n) * p = 2 * (n * p) BY Products
    <2> QED BY <1>1, <1>3, <2>1
  <1>7. PICK X \in Nat \ {0} : X = XLen BY WordFacts
  <1>8. PICK a \in Int, b \in Int : a = imm % 64 /\ b = imm % 32 OBVIOUS
  <1>9. (imm % F) % X = imm % X /\ (imm % F) % n = imm % n
    <2>1. (imm % (X * u)) % X = imm % X /\ (imm % (n * v)) % n = imm % n BY RestOfRest
    <2> QED BY <1>5, <1>7, <2>1
  <1>10. (a % F) % X = a % X /\ (b % F) % n = b % n
    <2>1. (a % (X * u)) % X = a % X /\ (b % (n * v)) % n = b % n BY RestOfRest
    <2> QED BY <1>5, <1>7, <2>1
  <1>11. a % X = imm % X /\ b % n = imm % n
    <2>1. (imm % (X * p)) % X = imm % X /\ (imm % (n * p)) % n = imm % n BY RestOfRest
    <2> QED BY <1>3, <1>6, <1>7, <1>8, <2>1
  <1> QED BY <1>1, <1>7, <1>8, <1>9, <1>10, <1>11 DEF Shamt, ShamtW

LEMMA SameShifts ==
  ASSUME 32 % HalfBits = 0, NEW i, i.imm \in Int, i.name \in DOMAIN RegImmOps, NEW a
  PROVE  Compute(RegImmOps[i.name], a, i.imm % Full) = Compute(RegImmOps[i.name], a, ImmShown(i) % Full)
  <1> DEFINE k == i.imm
             m == i.imm % Full
             n == ImmShown(i) % Full
  <1>0. /\ Shamt(k % Full) = Shamt((k % 64) % Full)
        /\ ShamtW(k % Full) = ShamtW((k % 32) % Full)
    <2>1. k \in Int OBVIOUS
    <2> HIDE DEF k
    <2> QED BY <2>1, SameAmounts
  <1>1. CASE i.name \in ShiftOps
    <2>0. i.name \notin HalfShiftOps BY <1>1 DEF ShiftOps, HalfShiftOps
    <2>1. ImmShown(i) = i.imm % 64 BY <1>1, <2>0, Zenon DEF ImmShown
    <2>2. Shamt(m) = Shamt(n) BY <2>1, <1>0
    <2>3. RegImmOps[i.name] \in {"sll", "srl", "sra"} BY <1>1 DEF ShiftOps, RegImmOps
    <2> QED BY <2>2, <2>3 DEF Compute, Base, BaseOps
  <1>2. CASE i.name \in HalfShiftOps
    <2>1. ImmShown(i) = i.imm % 32 BY <1>2 DEF ImmShown, ShiftOps, HalfShiftOps
    <2>2. ShamtW(m) = ShamtW(n) BY <2>1, <1>0
    <2>3. RegImmOps[i.name] \in {"sllw", "srlw", "sraw"} BY <1>2 DEF HalfShiftOps, RegImmOps
    <2> QED BY <2>2, <2>3 DEF Compute, Base, BaseOps
  <1>3. CASE i.name \notin ShiftOps \cup HalfShiftOps
    BY <1>3 DEF ImmShown
  <1> QED BY <1>1, <1>2, <1>3

-----------------------------------------------------------------------------
(* Registers, program counter and conditions of the two.                   *)

Zeroed(rd, v) == [registers EXCEPT ![rd] = IF rd = 0 THEN 0 ELSE v]

LEMMA SetsRegister ==
  ASSUME HartTypes, ZeroRegister, ZeroRegister', NEW rd \in RegNum, NEW v, NEW f,
         registers' = SetReg(f, rd, v) \/ registers' = WriteReg(rd, v)
  PROVE  registers' = Zeroed(rd, v)
  <1>1. 0 \in RegNum BY DEF RegNum
  <1>2. registers = [r \in RegNum |-> registers[r]] BY DEF HartTypes
  <1>3. CASE rd # 0 BY <1>3 DEF SetReg, WriteReg, Zeroed
  <1>4. CASE rd = 0
    <2>1. registers = [registers EXCEPT ![0] = 0] BY <1>1, <1>2 DEF ZeroRegister
    <2>2. CASE registers' = registers BY <1>4, <2>1, <2>2 DEF Zeroed
    <2>3. CASE registers' = [registers EXCEPT ![0] = v]
      <3>1. registers'[0] = v BY <1>1, <1>2, <2>3
      <3>2. v = 0 BY <3>1 DEF ZeroRegister
      <3> QED BY <1>4, <2>3, <3>2 DEF Zeroed
    <2> QED BY <1>4, <2>2, <2>3 DEF SetReg, WriteReg
  <1> QED BY <1>3, <1>4

LEMMA GoesOn ==
  ASSUME NEW i, Continue(i)
  PROVE  program_counter' = (program_counter + i.length) % Full
BY DEF Continue, Retire, At

LEMMA SetIs == \A rd, v : Architecture!Set(rd, v) <=> registers' = Zeroed(rd, v)
BY DEF Architecture!Set, Zeroed

LEMMA AdvanceIs == \A n : Architecture!Advance(n) <=> program_counter' = (program_counter + n) % Full
BY SameWords DEF Architecture!Advance

LEMMA SameConditions ==
  ASSUME NEW f \in BranchOps, NEW a, NEW b, a \in Word, b \in Word
  PROVE  Architecture!Condition(f, a, b) <=> Taken(f, a, b)
  <1>1. Architecture!Sgn(a) = Signed(a, Full) /\ Architecture!Sgn(b) = Signed(b, Full)
    BY SameWords DEF Architecture!Sgn
  <1>2. PICK s \in Int, t \in Int : s = Signed(a, Full) /\ t = Signed(b, Full)
    <2>1. a \in Int /\ b \in Int /\ Full \in Int BY WordRest, WordFacts
    <2> QED BY <2>1, SignedType
  <1>3. a \in Int /\ b \in Int BY WordRest
  <1>4. (s >= t <=> ~(s < t)) /\ (a >= b <=> ~(a < b)) BY <1>3
  <1>5. f = "beq" \/ f = "bne" \/ f = "blt" \/ f = "bge" \/ f = "bltu" \/ f = "bgeu" BY DEF BranchOps
  <1>a. CASE f = "beq" BY <1>a DEF Taken, Architecture!Condition
  <1>b. CASE f = "bne" BY <1>b DEF Taken, Architecture!Condition
  <1>c. CASE f = "blt" BY <1>c, <1>1 DEF Taken, Architecture!Condition
  <1>d. CASE f = "bge" BY <1>d, <1>1, <1>2, <1>4 DEF Taken, Architecture!Condition
  <1>e. CASE f = "bltu" BY <1>e DEF Taken, Architecture!Condition
  <1>f. CASE f = "bgeu" BY <1>f, <1>4 DEF Taken, Architecture!Condition
  <1> QED BY <1>5, <1>a, <1>b, <1>c, <1>d, <1>e, <1>f

LEMMA SameNames ==
  /\ Architecture!RegReg = RegRegOps /\ Architecture!Branches = BranchOps
  /\ Architecture!WithImmediate = RegImmOps
BY DEF Architecture!RegReg, RegRegOps, BaseOps, MulOps, Architecture!Branches, BranchOps,
       Architecture!WithImmediate, RegImmOps

-----------------------------------------------------------------------------
(* The handlers, one by one.                                               *)

\* The hart as each of the following lemmas finds it.
Ready(i) == HartTypes /\ ZeroRegister /\ ZeroRegister' /\ i \in Decoded

\* The steps of the manual, by the instruction they are for.
LEMMA IsaSteps ==
  ASSUME NEW j
  PROVE  LET a == registers[j.rs1]  b == registers[j.rs2]
             Goes == Architecture!Advance(j.length)
             Step == Architecture!Step(j)
         IN  /\ /\ j.name \in Architecture!RegReg /\ Goes /\ UNCHANGED f_registers
                /\ Architecture!Set(j.rd, Architecture!Result(j.name, a, b))
                => Step
             /\ /\ j.name \in DOMAIN Architecture!WithImmediate /\ Goes /\ UNCHANGED f_registers
                /\ Architecture!Set(j.rd, Architecture!Result(Architecture!WithImmediate[j.name], a,
                                                             j.imm % Architecture!Full))
                => Step
             /\ /\ j.name = "lui" /\ Goes /\ UNCHANGED f_registers
                /\ Architecture!Set(j.rd, j.imm % Architecture!Full)
                => Step
             /\ /\ j.name = "auipc" /\ Goes /\ UNCHANGED f_registers
                /\ Architecture!Set(j.rd, (program_counter + j.imm) % Architecture!Full)
                => Step
             /\ /\ j.name \in Architecture!Branches /\ UNCHANGED <<registers, f_registers>>
                /\ Architecture!Advance(IF Architecture!Condition(j.name, a, b)
                                        THEN j.imm ELSE j.length)
                => Step
             /\ /\ j.name = "jal" /\ Architecture!Advance(j.imm) /\ UNCHANGED f_registers
                /\ Architecture!Set(j.rd, (program_counter + j.length) % Architecture!Full)
                => Step
             /\ /\ j.name = "jalr" /\ UNCHANGED f_registers
                /\ Architecture!Set(j.rd, (program_counter + j.length) % Architecture!Full)
                /\ program_counter' = 2 * (((a + j.imm) % Architecture!Full) \div 2)
                => Step
             /\ /\ j.name = "load" /\ Goes /\ UNCHANGED f_registers
                /\ \E v \in Loaded : Architecture!Set(j.rd, v)
                => Step
             /\ /\ j.name = "fld" /\ Goes /\ UNCHANGED registers
                /\ \E v \in Loaded : f_registers' = [f_registers EXCEPT ![j.rd] = v]
                => Step
             /\ /\ j.name \in {"store", "fsd", "fence"} /\ Goes
                /\ UNCHANGED <<registers, f_registers>>
                => Step
             /\ /\ j.name = "fmv.w.x" /\ Goes /\ UNCHANGED registers
                /\ f_registers' = [f_registers EXCEPT ![j.rd] = (a % Half) + (Half - 1) * Half]
                => Step
             /\ /\ j.name = "fmv.d.x" /\ Goes /\ UNCHANGED registers
                /\ f_registers' = [f_registers EXCEPT ![j.rd] = a]
                => Step
             /\ /\ j.name = "fmv.x.w" /\ Goes /\ UNCHANGED f_registers
                /\ Architecture!Set(j.rd, Architecture!Signed(f_registers[j.rs1] % Half, Half)
                                         % Architecture!Full)
                => Step
             /\ /\ j.name = "fmv.x.d" /\ Goes /\ UNCHANGED f_registers
                /\ Architecture!Set(j.rd, f_registers[j.rs1])
                => Step
             /\ /\ j.name \in {"illegal", "system"} /\ program_counter' = TrapPC
                /\ UNCHANGED <<registers, f_registers>>
                => Step
BY Zenon DEF Architecture!Step

LEMMA ImmShownType == ASSUME NEW i, i.imm \in Int PROVE ImmShown(i) \in Int
  <1>1. i.imm % 64 \in Int /\ i.imm % 32 \in Int OBVIOUS
  <1>2. CASE i.name \in ShiftOps
    <2>1. i.name \notin HalfShiftOps BY <1>2 DEF ShiftOps, HalfShiftOps
    <2> QED BY <1>1, <1>2, <2>1, Zenon DEF ImmShown
  <1>3. CASE i.name \notin ShiftOps BY <1>1, <1>3 DEF ImmShown
  <1> QED BY <1>2, <1>3

LEMMA ArithmeticAsIsa ==
  ASSUME NEW i, Ready(i), Arithmetic(i), 32 % HalfBits = 0
  PROVE  Architecture!Step(Shown(i))
  <1> DEFINE j == Shown(i)
  <1>0. i \in Decoded /\ HartTypes /\ ZeroRegister /\ ZeroRegister' BY DEF Ready
  <1>1. i.rd \in RegNum /\ i.rs1 \in RegNum /\ i.rs2 \in RegNum /\ i.imm \in Int
    BY <1>0, DecodedFields
  <1>2. Architecture!Advance(j.length) /\ UNCHANGED f_registers
    BY GoesOn, AdvanceIs, ShownIs DEF Arithmetic
  <1>3. PICK a \in Word, b \in Word : a = registers[i.rs1] /\ b = registers[i.rs2]
    BY <1>0, <1>1 DEF HartTypes
  <1>4. CASE /\ i.name \in RegRegOps
             /\ registers' = SetReg(i.name, i.rd, Compute(i.name, registers[i.rs1], registers[i.rs2]))
    <2>1. j.name = i.name /\ j.rd = i.rd /\ j.rs1 = i.rs1 /\ j.rs2 = i.rs2
      BY <1>4, ShownIs, OperandsOf
    <2>2. Compute(i.name, a, b) = Architecture!Result(i.name, a, b) BY <1>4, ComputesResults
    <2>3. registers' = Zeroed(i.rd, Compute(i.name, a, b))
      BY <1>0, <1>1, <1>3, <1>4, SetsRegister
    <2>4. Architecture!Set(j.rd, Architecture!Result(j.name, registers[j.rs1], registers[j.rs2]))
      BY <1>3, <2>1, <2>2, <2>3, SetIs
    <2> QED BY <1>2, <1>4, <2>1, <2>4, SameNames, IsaSteps
  <1>5. CASE /\ i.name \in DOMAIN RegImmOps
             /\ registers' = SetReg(i.name, i.rd,
                    Compute(RegImmOps[i.name], registers[i.rs1], i.imm % Full))
    <2>1. j.name = i.name /\ j.rd = i.rd /\ j.rs1 = i.rs1 /\ j.imm = ImmShown(i)
      BY <1>5, ShownIs, OperandsOf
    <2>2. RegImmOps[i.name] \in RegRegOps BY <1>5, RegImmTypes
    <2>3. ImmShown(i) % Full \in Word
      <3>1. ImmShown(i) \in Int BY <1>1, ImmShownType
      <3> QED BY <3>1, RestType
    <2>4. PICK c \in Word, d \in Word : c = i.imm % Full /\ d = ImmShown(i) % Full
      BY <1>1, <2>3, RestType
    <2>5. Compute(RegImmOps[i.name], a, c) = Compute(RegImmOps[i.name], a, d)
      BY <1>1, <1>5, <2>4, SameShifts
    <2>6. Compute(RegImmOps[i.name], a, d) = Architecture!Result(RegImmOps[i.name], a, d)
      BY <2>2, ComputesResults
    <2>7. registers' = Zeroed(i.rd, Compute(RegImmOps[i.name], a, c))
      BY <1>0, <1>1, <1>3, <1>5, <2>4, SetsRegister
    <2>8. registers[j.rs1] = a /\ j.imm % Architecture!Full = d
      BY <1>3, <2>1, <2>4, SameWords
    <2>9. Architecture!Set(j.rd, Architecture!Result(Architecture!WithImmediate[j.name],
                                                     registers[j.rs1], j.imm % Architecture!Full))
      BY <2>1, <2>5, <2>6, <2>7, <2>8, SetIs, SameNames
    <2>10. j.name \in DOMAIN Architecture!WithImmediate BY <1>5, <2>1, SameNames
    <2> QED BY <1>2, <2>9, <2>10, IsaSteps
  <1> QED BY <1>4, <1>5 DEF Arithmetic

LEMMA UpperAsIsa ==
  ASSUME NEW i, Ready(i), Upper(i)
  PROVE  Architecture!Step(Shown(i))
  <1> DEFINE j == Shown(i)
  <1>0. i \in Decoded /\ HartTypes /\ ZeroRegister /\ ZeroRegister' BY DEF Ready
  <1>1. i.rd \in RegNum BY <1>0, DecodedFields
  <1>2. Architecture!Advance(j.length) /\ UNCHANGED f_registers
    BY GoesOn, AdvanceIs, ShownIs DEF Upper
  <1>3. i.name \in {"jal", "lui", "auipc"} /\ i.name \notin ShiftOps \cup HalfShiftOps
    BY DEF Upper, ShiftOps, HalfShiftOps
  <1>4. j.name = i.name /\ j.rd = i.rd /\ j.imm = i.imm
    BY <1>3, ShownIs, OperandsOf DEF ImmShown
  <1>5. registers' = Zeroed(i.rd, IF i.name = "lui" THEN i.imm % Full ELSE At(i.imm))
    BY <1>0, <1>1, SetsRegister DEF Upper
  <1>6. CASE i.name = "lui"
    <2>1. Architecture!Set(j.rd, j.imm % Architecture!Full) BY <1>4, <1>5, <1>6, SetIs, SameWords
    <2> QED BY <1>2, <1>4, <1>6, <2>1, IsaSteps
  <1>7. CASE i.name = "auipc"
    <2>1. Architecture!Set(j.rd, (program_counter + j.imm) % Architecture!Full)
      BY <1>4, <1>5, <1>7, SetIs, SameWords DEF At
    <2> QED BY <1>2, <1>4, <1>7, <2>1, IsaSteps
  <1> QED BY <1>6, <1>7 DEF Upper

LEMMA BranchAsIsa ==
  ASSUME NEW i, Ready(i), Branch(i), ~ToItself(i)
  PROVE  Architecture!Step(Shown(i))
  <1> DEFINE j == Shown(i)
  <1>0. i \in Decoded /\ HartTypes BY DEF Ready
  <1>1. i.name \in BranchOps BY DEF Branch
  <1>2. i.name \notin ShiftOps \cup HalfShiftOps
    BY <1>1 DEF BranchOps, ShiftOps, HalfShiftOps
  <1>3. j.name = i.name /\ j.rs1 = i.rs1 /\ j.rs2 = i.rs2 /\ j.imm = i.imm /\ j.length = i.length
    BY <1>1, <1>2, ShownIs, OperandsOf DEF ImmShown
  <1>4. PICK a \in Word, b \in Word : a = registers[i.rs1] /\ b = registers[i.rs2]
    BY <1>0, DecodedFields DEF HartTypes
  <1>5. Architecture!Condition(i.name, a, b) <=> Taken(i.name, a, b) BY <1>1, SameConditions
  <1>6. program_counter' = IF Taken(i.name, a, b) THEN At(i.imm) ELSE At(i.length)
    BY <1>1, <1>4 DEF Branch, Retire, ToItself
  <1>7. Architecture!Advance(IF Architecture!Condition(j.name, registers[j.rs1], registers[j.rs2])
                             THEN j.imm ELSE j.length)
    <2>1. CASE Taken(i.name, a, b) BY <1>3, <1>4, <1>5, <1>6, <2>1, AdvanceIs DEF At
    <2>2. CASE ~Taken(i.name, a, b) BY <1>3, <1>4, <1>5, <1>6, <2>2, AdvanceIs DEF At
    <2> QED BY <2>1, <2>2
  <1>8. UNCHANGED <<registers, f_registers>> BY DEF Branch
  <1>9. j.name \in Architecture!Branches BY <1>1, <1>3, SameNames
  <1> QED BY <1>7, <1>8, <1>9, IsaSteps

LEMMA JumpAsIsa ==
  ASSUME NEW i, Ready(i), Jump(i), ~ToItself(i)
  PROVE  Architecture!Step(Shown(i))
  <1> DEFINE j == Shown(i)
  <1>0. i \in Decoded /\ HartTypes /\ ZeroRegister /\ ZeroRegister' BY DEF Ready
  <1>1. i.rd \in RegNum /\ i.rs1 \in RegNum /\ i.imm \in Int BY <1>0, DecodedFields
  <1>2. registers' = Zeroed(i.rd, At(i.length)) /\ UNCHANGED f_registers
    BY <1>0, <1>1, SetsRegister DEF Jump
  <1>3. CASE i.name = "jal" /\ Retire(At(i.imm), i.length)
    <2>1. j.name = i.name /\ j.rd = i.rd /\ j.imm = i.imm /\ j.length = i.length
      <3>1. i.name \notin ShiftOps \cup HalfShiftOps BY <1>3 DEF ShiftOps, HalfShiftOps
      <3> QED BY <1>3, <3>1, ShownIs, OperandsOf DEF ImmShown
    <2>2. Architecture!Set(j.rd, (program_counter + j.length) % Architecture!Full)
      BY <1>2, <2>1, SetIs, SameWords DEF At
    <2>3. program_counter' = At(i.imm) BY <1>3 DEF Retire, ToItself
    <2>4. Architecture!Advance(j.imm) BY <2>1, <2>3, AdvanceIs DEF At
    <2> QED BY <1>2, <1>3, <2>1, <2>2, <2>4, IsaSteps
  <1>4. CASE /\ i.name = "jalr"
             /\ LET target == (registers[i.rs1] + i.imm) % Full
                IN  Retire(target - (target % 2), i.length)
    <2>1. j.name = i.name /\ j.rd = i.rd /\ j.rs1 = i.rs1 /\ j.imm = i.imm /\ j.length = i.length
      <3>1. i.name \notin ShiftOps \cup HalfShiftOps BY <1>4 DEF ShiftOps, HalfShiftOps
      <3> QED BY <1>4, <3>1, ShownIs, OperandsOf DEF ImmShown
    <2>2. Architecture!Set(j.rd, (program_counter + j.length) % Architecture!Full)
      BY <1>2, <2>1, SetIs, SameWords DEF At
    <2>3. PICK t \in Word : t = (registers[i.rs1] + i.imm) % Full
      <3>1. registers[i.rs1] \in Word BY <1>0, <1>1 DEF HartTypes
      <3>2. registers[i.rs1] + i.imm \in Int BY <1>1, <3>1, WordRest
      <3> QED BY <3>2, RestType
    <2>4. program_counter' = t - (t % 2) BY <1>4, <2>3 DEF Retire, ToItself
    <2>5. t - (t % 2) = 2 * (t \div 2)
      <3>1. t \in Int BY WordRest
      <3> QED BY <3>1
    <2>6. program_counter' = 2 * (((registers[j.rs1] + j.imm) % Architecture!Full) \div 2)
      BY <2>1, <2>3, <2>4, <2>5, SameWords
    <2> QED BY <1>2, <1>4, <2>1, <2>2, <2>6, IsaSteps
  <1> QED BY <1>3, <1>4 DEF Jump

LEMMA AccessAsIsa ==
  ASSUME NEW i, Ready(i), Access(i), Loaded # {}
  PROVE  Architecture!Step(Shown(i))
  <1> DEFINE j == Shown(i)
  <1>0. i \in Decoded /\ HartTypes /\ ZeroRegister /\ ZeroRegister' BY DEF Ready
  <1>1. i.rd \in RegNum BY <1>0, DecodedFields
  <1>2. Architecture!Advance(j.length) /\ j.name = i.name
    BY GoesOn, AdvanceIs, ShownIs DEF Access
  <1>3. i.name \in {"load", "fld"} => j.rd = i.rd BY ShownIs, OperandsOf
  <1>4. CASE i.name = "load"
    <2>1. \E v \in Loaded : registers' = Zeroed(i.rd, v)
      <3>1. CASE i.rd # 0
        BY <1>0, <1>1, <1>4, <3>1, SetsRegister DEF Access
      <3>2. CASE i.rd = 0
        <4>1. PICK v \in Loaded : TRUE OBVIOUS
        <4>2. registers' = WriteReg(0, v) BY <1>4, <3>2 DEF Access, WriteReg
        <4>3. registers' = Zeroed(0, v) BY <1>0, <1>1, <3>2, <4>2, SetsRegister
        <4> QED BY <3>2, <4>3
      <3> QED BY <3>1, <3>2
    <2>2. \E v \in Loaded : Architecture!Set(j.rd, v) BY <1>3, <1>4, <2>1, SetIs
    <2>3. UNCHANGED f_registers BY <1>4 DEF Access
    <2> QED BY <1>2, <1>4, <2>2, <2>3, IsaSteps
  <1>5. CASE i.name = "fld"
    <2>1. \E v \in Loaded : f_registers' = [f_registers EXCEPT ![j.rd] = v]
      BY <1>3, <1>5 DEF Access
    <2>2. UNCHANGED registers BY <1>5 DEF Access
    <2> QED BY <1>2, <1>5, <2>1, <2>2, IsaSteps
  <1>6. CASE i.name \in {"store", "fsd", "fence"}
    <2>1. UNCHANGED <<registers, f_registers>> BY <1>6 DEF Access
    <2> QED BY <1>2, <1>6, <2>1, IsaSteps
  <1> QED BY <1>4, <1>5, <1>6 DEF Access

LEMMA FloatMoveAsIsa ==
  ASSUME NEW i, Ready(i), FloatMove(i)
  PROVE  Architecture!Step(Shown(i))
  <1> DEFINE j == Shown(i)
  <1>0. i \in Decoded /\ HartTypes /\ ZeroRegister /\ ZeroRegister' BY DEF Ready
  <1>1. i.rd \in RegNum /\ i.rs1 \in RegNum BY <1>0, DecodedFields
  <1>2. Architecture!Advance(j.length) /\ j.name = i.name
    BY GoesOn, AdvanceIs, ShownIs DEF FloatMove
  <1>3. j.rd = i.rd /\ j.rs1 = i.rs1 BY ShownIs, OperandsOf DEF FloatMove
  <1>4. CASE i.name = "fmv.w.x"
    <2>1. f_registers' = [f_registers EXCEPT ![j.rd] = Boxed(registers[j.rs1])] /\ UNCHANGED registers
      BY <1>3, <1>4 DEF FloatMove
    <2>2. Boxed(registers[j.rs1]) = (registers[j.rs1] % Half) + ((Half - 1) * Half)
      <3>1. PICK h \in Int, F \in Int : h = Half /\ F = Full /\ F = h * h BY WordFacts
      <3>2. F - h = (h - 1) * h BY <3>1
      <3> QED BY <3>1, <3>2 DEF Boxed
    <2> QED BY <1>2, <1>4, <2>1, <2>2, IsaSteps
  <1>5. CASE i.name = "fmv.d.x"
    <2>1. f_registers' = [f_registers EXCEPT ![j.rd] = registers[j.rs1]] /\ UNCHANGED registers
      BY <1>3, <1>5 DEF FloatMove
    <2> QED BY <1>2, <1>5, <2>1, IsaSteps
  <1>6. CASE i.name = "fmv.x.w"
    <2>1. registers' = Zeroed(i.rd, ExtendHalf(f_registers[i.rs1])) /\ UNCHANGED f_registers
      BY <1>0, <1>1, <1>6, SetsRegister DEF FloatMove
    <2>2. Architecture!Set(j.rd, Architecture!Signed(f_registers[j.rs1] % Half, Half) % Architecture!Full)
      BY <1>3, <2>1, SetIs, SameWords DEF ExtendHalf
    <2> QED BY <1>2, <1>6, <2>1, <2>2, IsaSteps
  <1>7. CASE i.name = "fmv.x.d"
    <2>1. registers' = Zeroed(i.rd, f_registers[i.rs1]) /\ UNCHANGED f_registers
      BY <1>0, <1>1, <1>7, SetsRegister DEF FloatMove
    <2>2. Architecture!Set(j.rd, f_registers[j.rs1]) BY <1>3, <2>1, SetIs
    <2> QED BY <1>2, <1>7, <2>1, <2>2, IsaSteps
  <1> QED BY <1>4, <1>5, <1>6, <1>7 DEF FloatMove

LEMMA TrapAsIsa ==
  ASSUME NEW i, Trap(i), ~ToItself(i)
  PROVE  Architecture!Step(Shown(i))
  <1> DEFINE j == Shown(i)
  <1>1. j.name = i.name /\ i.name \in {"illegal", "system"} BY ShownIs DEF Trap
  <1>2. program_counter' = TrapPC BY <1>1 DEF Trap, Retire, ToItself
  <1>3. UNCHANGED <<registers, f_registers>> BY DEF Trap
  <1> QED BY <1>1, <1>2, <1>3, IsaSteps

-----------------------------------------------------------------------------
(* The whole program.                                                      *)

LEMMA InitAsIsa == Init /\ ZeroRegister => Architecture!Init
  <1> SUFFICES ASSUME Init, ZeroRegister PROVE Architecture!Init OBVIOUS
  <1>1. PICK b \in Begin, v \in StackWord :
          /\ program_counter = b[1]
          /\ registers = [r \in RegNum |-> IF r = 0 THEN v ELSE b[2][r]]
    BY DEF Init
  <1>2. v = 0 BY <1>1 DEF ZeroRegister, RegNum
  <1>3. registers = [r \in 0 .. 31 |-> IF r = 0 THEN 0 ELSE b[2][r]]
    BY <1>1, <1>2 DEF RegNum
  <1>4. f_registers = [r \in 0 .. 31 |-> 0] /\ raw = <<>> BY DEF Init, RegNum
  <1>5. inst = NoInst BY DEF Init
  <1>6. Shown(NoInst) = [name |-> "none", rd |-> 0, rs1 |-> 0, rs2 |-> 0, imm |-> 0, length |-> 0]
    <2>1. Operands("none") = {}
      BY Zenon DEF Operands, RegRegOps, BaseOps, MulOps, BranchOps
    <2> QED BY <2>1 DEF Shown, NoInst
  <1> QED BY <1>1, <1>3, <1>4, <1>5, <1>6 DEF Architecture!Init

LEMMA StepAsIsa ==
  ASSUME Loaded # {}, 32 % HalfBits = 0, DecodesAsTheManual,
         TypeOK, ZeroRegister, ZeroRegister', [Next]_vars, [~ToItself(inst')]_vars
  PROVE  [Architecture!Next]_(Architecture!vars)
  <1>1. CASE UNCHANGED vars
    BY <1>1, SMT DEF vars, Architecture!vars
  <1>2. CASE Next /\ ~(UNCHANGED vars)
    <2>1. PICK code \in Code[program_counter] : raw' = code /\ inst' = Decode(code) /\ Handle(inst')
      BY <1>2 DEF Next
    <2>2. HartTypes BY SMT DEF TypeOK, HartTypes
    <2>3. inst' \in Decoded BY <2>1, <2>2, DecodeType DEF HartTypes
    <2>4. Ready(inst') BY <2>2, <2>3 DEF Ready
    <2>5. ~ToItself(inst') BY <1>2
    <2>6. Architecture!Step(Shown(inst'))
      BY <2>1, <2>4, <2>5, ArithmeticAsIsa, UpperAsIsa, BranchAsIsa, JumpAsIsa, AccessAsIsa,
         FloatMoveAsIsa, TrapAsIsa DEF Handle
    <2>7. Shown(inst') = Architecture!Meaning(raw')
      BY <2>1, <2>2 DEF DecodesAsTheManual, HartTypes
    <2>8. Shown(inst)' = Shown(inst') BY Zenon DEF Shown, Operands
    <2> QED BY <2>1, <2>6, <2>7, <2>8 DEF Architecture!Next
  <1> QED BY <1>1, <1>2
=============================================================================
