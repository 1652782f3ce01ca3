--------------------------- MODULE FractionProofs ---------------------------
(***************************************************************************)
(* The laws of the fractions of Rationals, which the proofs about the      *)
(* safety controller and about the numeric code rest on.                   *)
(*                                                                         *)
(*   Euclid's algorithm     a greatest common divisor is the least number  *)
(*                          its arguments combine to                       *)
(*   Fractions              in lowest terms, equal numbers are equal       *)
(*                          values; addition, multiplication and order     *)
(*                          obey the laws of numbers                       *)
(*   Minima                 of finite sets, by induction over their        *)
(*                          subsets                                        *)
(*   Common denominators    numerators of sums and products over one       *)
(*                          power of the denominator of the variables      *)
(*   Cancellation           of factors that are not zero                   *)
(*   Identities             of the zeros of a quadratic, of the shift      *)
(*                          steps, of newest_ak1, and of a segment between *)
(*                          points at rest: polynomial identities in the   *)
(*                          coefficients, stated of any fractions          *)
(*                                                                         *)
(* Induction goes over the set of the numbers, or subsets, for which a     *)
(* statement holds: no prover here instantiates one over an operator.      *)
(***************************************************************************)
EXTENDS Rationals, FiniteSetTheorems, WellFoundedInduction, TLAPS

-----------------------------------------------------------------------------
(* Euclid's algorithm                                                       *)

\* Induction over the natural numbers, for a set.
LEMMA SetInduction ==
  ASSUME NEW S, 0 \in S, \A n \in Nat : n \in S => n + 1 \in S
  PROVE  Nat \subseteq S
<1> SUFFICES ASSUME Nat \ S # {}
             PROVE  FALSE
  OBVIOUS
<1>1. PICK m \in Nat \ S : \A k \in Nat \ S : ~(<<k, m>> \in OpToRel(<, Nat))
  BY NatLessThanWellFounded, WFMin, Zenon
<1>2. \A k \in Nat \ S : ~(k < m)
  BY <1>1 DEF OpToRel
<1>3. m # 0 /\ m - 1 \in Nat /\ m - 1 \in S
  BY <1>2
<1>4. QED
  BY <1>3

\* A remainder and its quotient.
LEMMA Remainder ==
  ASSUME NEW a \in Nat, NEW b \in Nat \ {0}
  PROVE  /\ a % b \in Nat /\ a % b < b /\ a \div b \in Nat
         /\ a = (b * (a \div b)) + (a % b)
OBVIOUS

\* The positive numbers a and b combine to, of which their divisor is the least.
Combinations(a, b) == {k \in Nat \ {0} : \E u, v \in Int : k = u * a + v * b}
Least(S) == CHOOSE m \in S : \A k \in S : m <= k

LEMMA CombinationsShift ==
  ASSUME NEW a \in Nat, NEW b \in Nat \ {0}
  PROVE  Combinations(a, b) = Combinations(b, a % b)
<1> DEFINE q == a \div b
           r == a % b
<1>1. q \in Int /\ r \in Nat /\ a = b * q + r
  BY Remainder
<1> HIDE DEF q, r
<1>2. ASSUME NEW k \in Nat \ {0}, NEW u \in Int, NEW v \in Int, k = u * a + v * b
      PROVE  k = (u * q + v) * b + u * r
  <2>1. u * (b * q + r) + v * b = (u * q + v) * b + u * r
    BY <1>1
  <2>2. QED
    BY <1>1, <1>2, <2>1
<1>3. ASSUME NEW k \in Nat \ {0}, NEW u \in Int, NEW v \in Int, k = u * b + v * r
      PROVE  k = v * a + (u - v * q) * b
  <2>1. v * (b * q + r) + (u - v * q) * b = u * b + v * r
    BY <1>1
  <2>2. QED
    BY <1>1, <1>3, <2>1
<1>4. \A u, v \in Int : u * q + v \in Int /\ u - v * q \in Int
  BY <1>1
<1>5. ASSUME NEW k \in Combinations(a, b)
      PROVE  k \in Combinations(b, r)
  <2>1. PICK u \in Int, v \in Int : k \in Nat \ {0} /\ k = u * a + v * b
    BY <1>5 DEF Combinations
  <2> DEFINE w == u * q + v
  <2>2. w \in Int /\ k = w * b + u * r
    BY <1>2, <1>4, <2>1
  <2> HIDE DEF w
  <2>3. QED
    BY <2>1, <2>2 DEF Combinations
<1>6. ASSUME NEW k \in Combinations(b, r)
      PROVE  k \in Combinations(a, b)
  <2>1. PICK u \in Int, v \in Int : k \in Nat \ {0} /\ k = u * b + v * r
    BY <1>6 DEF Combinations
  <2> DEFINE w == u - v * q
  <2>2. w \in Int /\ k = v * a + w * b
    BY <1>3, <1>4, <2>1
  <2> HIDE DEF w
  <2>3. QED
    BY <2>1, <2>2 DEF Combinations
<1>7. QED
  BY <1>5, <1>6 DEF r

LEMMA LeastOfMultiples ==
  ASSUME NEW a \in Nat \ {0}
  PROVE  Least(Combinations(a, 0)) = a
<1>1. a \in Combinations(a, 0)
  <2>1. a = 1 * a + 0 * 0
    OBVIOUS
  <2>2. QED
    BY <2>1 DEF Combinations
<1>2. ASSUME NEW k \in Combinations(a, 0)
      PROVE  a <= k /\ k \in Nat
  <2>1. PICK u \in Int, v \in Int : k \in Nat \ {0} /\ k = u * a + v * 0
    BY DEF Combinations
  <2>2. k = u * a
    BY <2>1
  <2>3. u >= 1
    BY <2>1, <2>2
  <2>4. (u - 1) * a >= 0
    BY <2>3
  <2>5. QED
    BY <2>1, <2>2, <2>4
<1>3. QED
  BY <1>1, <1>2 DEF Least

LEMMA GcdExists ==
  GCD = [p \in Nat \X Nat |-> IF p[2] = 0 THEN p[1] ELSE GCD[<<p[2], p[1] % p[2]>>]]
<1> DEFINE G == [p \in Nat \X Nat |->
                   IF p[1] = 0 /\ p[2] = 0 THEN 0 ELSE Least(Combinations(p[1], p[2]))]
<1>1. ASSUME NEW p \in Nat \X Nat
      PROVE  G[p] = IF p[2] = 0 THEN p[1] ELSE G[<<p[2], p[1] % p[2]>>]
  <2>1. CASE p[2] = 0
    BY <2>1, LeastOfMultiples
  <2>2. CASE p[2] # 0
    <3>1. p[1] \in Nat /\ p[2] \in Nat \ {0}
      BY <2>2
    <3>2. p[1] % p[2] \in Nat
      BY <3>1, Remainder
    <3>3. Combinations(p[1], p[2]) = Combinations(p[2], p[1] % p[2])
      BY <3>1, CombinationsShift
    <3>4. QED
      BY <2>2, <3>1, <3>2, <3>3
  <2>3. QED
    BY <2>1, <2>2
<1>2. G = [p \in Nat \X Nat |-> G[p]]
  OBVIOUS
<1> HIDE DEF G
<1>3. G = [p \in Nat \X Nat |-> IF p[2] = 0 THEN p[1] ELSE G[<<p[2], p[1] % p[2]>>]]
  BY <1>1, <1>2
<1>4. QED
  BY <1>3 DEF GCD

\* One step of the algorithm.
LEMMA GcdStep ==
  ASSUME NEW a \in Nat, NEW b \in Nat
  PROVE  GCD[<<a, b>>] = IF b = 0 THEN a ELSE GCD[<<b, a % b>>]
<1>1. <<a, b>> \in Nat \X Nat /\ <<a, b>>[1] = a /\ <<a, b>>[2] = b
  OBVIOUS
<1>2. QED
  BY <1>1, GcdExists

\* The greatest common divisor of a and b, which are not both zero: it divides both and
\* they combine to it.
Divides(g, a) == \E q \in Nat : a = q * g
IsGcd(g, a, b) == /\ g \in Nat \ {0} /\ Divides(g, a) /\ Divides(g, b)
                  /\ \E u, v \in Int : g = u * a + v * b

LEMMA GcdShift ==
  ASSUME NEW a \in Nat, NEW b \in Nat \ {0}, NEW g \in Nat \ {0}, IsGcd(g, b, a % b)
  PROVE  IsGcd(g, a, b)
<1> DEFINE q == a \div b
           r == a % b
<1>1. q \in Nat /\ r \in Nat /\ a = b * q + r
  BY Remainder
<1> HIDE DEF q, r
<1>2. IsGcd(g, b, r)
  BY DEF r
<1>3. PICK m \in Nat : b = m * g
  BY <1>2 DEF IsGcd, Divides
<1>4. PICK n \in Nat : r = n * g
  BY <1>2 DEF IsGcd, Divides
<1>5. PICK u \in Int, v \in Int : g = u * b + v * r
  BY <1>2 DEF IsGcd
<1>6. Divides(g, a)
  <2> DEFINE w == m * q + n
  <2>1. w \in Nat
    BY <1>1, <1>3, <1>4
  <2>2. (m * g) * q + n * g = (m * q + n) * g
    BY <1>1, <1>3, <1>4
  <2>3. a = w * g
    BY <1>1, <1>3, <1>4, <2>2
  <2> HIDE DEF w
  <2>4. QED
    BY <2>1, <2>3 DEF Divides
<1>7. \E x, y \in Int : g = x * a + y * b
  <2> DEFINE w == u - v * q
  <2>1. w \in Int
    BY <1>1, <1>5
  <2>2. v * (b * q + r) + (u - v * q) * b = u * b + v * r
    BY <1>1, <1>5
  <2>3. g = v * a + w * b
    BY <1>1, <1>5, <2>2
  <2> HIDE DEF w
  <2>4. QED
    BY <1>5, <2>1, <2>3
<1>8. QED
  BY <1>2, <1>6, <1>7 DEF IsGcd

\* Euclid's algorithm computes it.
LEMMA GcdFacts ==
  ASSUME NEW a \in Nat, NEW b \in Nat, a # 0 \/ b # 0
  PROVE  IsGcd(GCD[<<a, b>>], a, b)
<1> DEFINE S == {n \in Nat : \A x, y \in Nat :
                   (y < n /\ ~(x = 0 /\ y = 0)) => IsGcd(GCD[<<x, y>>], x, y)}
<1>1. 0 \in S
  OBVIOUS
<1>2. ASSUME NEW n \in Nat, n \in S
      PROVE  n + 1 \in S
  <2> SUFFICES ASSUME NEW x \in Nat, NEW y \in Nat, y < n + 1, ~(x = 0 /\ y = 0)
               PROVE  IsGcd(GCD[<<x, y>>], x, y)
    OBVIOUS
  <2>1. CASE y = 0
    <3>1. GCD[<<x, y>>] = x /\ x # 0
      BY <2>1, GcdStep
    <3>2. x = 1 * x + 0 * y /\ x = 1 * x /\ y = 0 * x
      BY <2>1
    <3>3. QED
      BY <3>1, <3>2 DEF IsGcd, Divides
  <2>2. CASE y # 0
    <3>1. x % y \in Nat /\ x % y < y
      BY <2>2, Remainder
    <3>2. IsGcd(GCD[<<y, x % y>>], y, x % y)
      BY <1>2, <2>2, <3>1
    <3>3. GCD[<<x, y>>] = GCD[<<y, x % y>>]
      BY <2>2, GcdStep
    <3>4. GCD[<<y, x % y>>] \in Nat \ {0}
      BY <3>2 DEF IsGcd
    <3>5. IsGcd(GCD[<<y, x % y>>], x, y)
      BY <2>2, <3>2, <3>4, GcdShift
    <3>6. QED
      BY <3>3, <3>5
  <2>3. QED
    BY <2>1, <2>2
<1> HIDE DEF S
<1>3. Nat \subseteq S
  BY <1>1, <1>2, SetInduction
<1>4. b + 1 \in S
  BY <1>3
<1>5. QED
  BY <1>4 DEF S

-----------------------------------------------------------------------------
(* Fractions in lowest terms                                                *)

\* A product divided by one of its factors.
LEMMA DivExact ==
  ASSUME NEW m \in Int, NEW g \in Nat \ {0}
  PROVE  (m * g) \div g = m
<1> DEFINE a == m * g
           q == a \div g
           r == a % g
<1>1. a \in Int
  OBVIOUS
<1>2. q \in Int /\ r \in Int /\ a = (g * q) + r /\ 0 <= r /\ r < g
  <2> HIDE DEF a
  <2>1. QED
    BY <1>1
<1> HIDE DEF q, r
<1>3. (m - q) * g = r
  BY <1>2
<1>4. m - q = 0
  <2>1. CASE m - q >= 1
    <3>1. (m - q - 1) * g >= 0
      BY <1>2, <2>1
    <3>2. QED
      BY <1>2, <1>3, <3>1
  <2>2. CASE m - q <= -1
    <3>1. (q - m - 1) * g >= 0
      BY <1>2, <2>2
    <3>2. QED
      BY <1>2, <1>3, <3>1
  <2>3. QED
    BY <1>2, <2>1, <2>2
<1>5. m = q
  BY <1>2, <1>4
<1>6. QED
  BY <1>5 DEF q

\* What is left when the greatest common divisor is divided out has none.
LEMMA LowestTerms ==
  ASSUME NEW p \in Nat, NEW q \in Nat \ {0}, NEW g \in Nat \ {0}, IsGcd(g, p * g, q * g)
  PROVE  GCD[<<p, q>>] = 1
<1> DEFINE h == GCD[<<p, q>>]
<1>1. IsGcd(h, p, q)
  BY GcdFacts
<1> HIDE DEF h
<1>2. h \in Nat \ {0}
  BY <1>1 DEF IsGcd
<1>3. PICK i \in Nat : p = i * h
  BY <1>1 DEF IsGcd, Divides
<1>4. PICK j \in Nat : q = j * h
  BY <1>1 DEF IsGcd, Divides
<1>5. PICK u \in Int, v \in Int : g = u * (p * g) + v * (q * g)
  BY DEF IsGcd
<1>6. (u * p + v * q) * g = g
  BY <1>5
<1>7. u * p + v * q = 1
  <2> DEFINE w == u * p + v * q
  <2>1. w \in Int /\ w * g = g
    BY <1>5, <1>6
  <2> HIDE DEF w
  <2>2. (w - 1) * g = 0
    BY <2>1
  <2>3. w - 1 = 0
    BY <2>1, <2>2
  <2>4. QED
    BY <2>1, <2>3 DEF w
<1>8. (u * i + v * j) * h = 1
  BY <1>2, <1>3, <1>4, <1>5, <1>7
<1>9. h = 1
  <2> DEFINE w == u * i + v * j
  <2>1. w \in Int /\ w * h = 1
    BY <1>2, <1>3, <1>4, <1>5, <1>8
  <2> HIDE DEF w
  <2>2. w >= 1
    BY <1>2, <2>1
  <2>3. (w - 1) * h >= 0
    BY <1>2, <2>1, <2>2
  <2>4. h <= 1
    BY <1>2, <2>1, <2>3
  <2>5. QED
    BY <1>2, <2>4
<1>10. QED
  BY <1>9 DEF h

LEMMA AbsFacts ==
  ASSUME NEW n \in Int
  PROVE  /\ AbsInt(n) \in Nat /\ (AbsInt(n) = 0 <=> n = 0)
         /\ AbsInt(-n) = AbsInt(n) /\ (n = AbsInt(n) \/ n = -AbsInt(n))
         /\ (n >= 0 => AbsInt(n) = n) /\ (n <= 0 => AbsInt(n) = -n)
BY DEF AbsInt

\* x is n / d.
Is(x, n, d) == x \in Rat /\ x[1] * d = n * x[2]

\* A fraction is a number in lowest terms.
LEMMA FracFacts ==
  ASSUME NEW n \in Int, NEW d \in Int \ {0}
  PROVE  Is(Frac(n, d), n, d)
<1> DEFINE g == GCD[<<AbsInt(n), AbsInt(d)>>]
           s == IF d < 0 THEN -1 ELSE 1
<1>1. AbsInt(n) \in Nat /\ AbsInt(d) \in Nat \ {0}
  BY AbsFacts
<1>2. IsGcd(g, AbsInt(n), AbsInt(d))
  BY <1>1, GcdFacts
<1>3. Frac(n, d) = <<s * (n \div g), s * (d \div g)>>
  BY DEF Frac
<1> HIDE DEF g
<1>4. g \in Nat \ {0}
  BY <1>2 DEF IsGcd
<1>5. PICK p \in Nat : AbsInt(n) = p * g
  BY <1>2 DEF IsGcd, Divides
<1>6. PICK q \in Nat : AbsInt(d) = q * g
  BY <1>2 DEF IsGcd, Divides
<1>7. q # 0
  BY <1>1, <1>4, <1>6
<1>8. GCD[<<p, q>>] = 1
  BY <1>2, <1>4, <1>5, <1>6, <1>7, LowestTerms
<1>9. PICK m \in {p, -p} : n = m * g
  <2>1. n = p * g \/ n = (-p) * g
    BY <1>4, <1>5, AbsFacts
  <2>2. QED
    BY <2>1
<1>10. n \div g = m
  BY <1>4, <1>9, DivExact
<1>11. d = (s * q) * g /\ s * q \in Int
  BY <1>4, <1>6, AbsFacts DEF AbsInt
<1>12. d \div g = s * q
  BY <1>4, <1>11, DivExact
<1>13. s * (d \div g) = q
  BY <1>12
<1>14. s * m \in {p, -p} /\ s * m \in Int
  BY <1>9
<1>15. AbsInt(s * m) = p
  BY <1>14, AbsFacts DEF AbsInt
<1>16. Frac(n, d) = <<s * m, q>>
  BY <1>3, <1>10, <1>13
<1>17. (s * m) * d = n * q
  <2>1. (s * m) * ((s * q) * g) = (m * g) * q
    BY <1>4, <1>9
  <2>2. QED
    BY <1>9, <1>11, <2>1
<1>18. QED
  BY <1>7, <1>8, <1>14, <1>15, <1>16, <1>17 DEF Is, Rat

LEMMA Cancel ==
  ASSUME NEW a \in Int, NEW b \in Int, NEW c \in Int \ {0}, a * c = b * c
  PROVE  a = b
<1>1. (a - b) * c = 0
  OBVIOUS
<1>2. a - b = 0
  BY <1>1
<1>3. QED
  BY <1>2

LEMMA NonZero ==
  ASSUME NEW a \in Int \ {0}, NEW b \in Int \ {0}
  PROVE  a * b \in Int \ {0}
OBVIOUS

LEMMA RatType ==
  ASSUME NEW x \in Rat
  PROVE  /\ x = <<x[1], x[2]>> /\ x[1] \in Int /\ x[2] \in Int /\ x[2] > 0 /\ x[2] \in Nat \ {0}
         /\ Is(x, x[1], x[2])
BY DEF Rat, Is

\* Numerator and denominator combine to one.
LEMMA Coprime ==
  ASSUME NEW x \in Rat
  PROVE  \E u, v \in Int : u * x[1] + v * x[2] = 1
<1>1. x[1] \in Int /\ x[2] \in Nat \ {0} /\ GCD[<<AbsInt(x[1]), x[2]>>] = 1
  BY DEF Rat
<1>2. AbsInt(x[1]) \in Nat
  BY <1>1, AbsFacts
<1>3. IsGcd(1, AbsInt(x[1]), x[2])
  BY <1>1, <1>2, GcdFacts
<1>4. PICK u \in Int, v \in Int : 1 = u * AbsInt(x[1]) + v * x[2]
  BY <1>3 DEF IsGcd
<1>5. CASE x[1] >= 0
  BY <1>1, <1>4, <1>5 DEF AbsInt
<1>6. CASE x[1] < 0
  <2>1. (-u) * x[1] + v * x[2] = 1 /\ -u \in Int
    BY <1>1, <1>4, <1>6 DEF AbsInt
  <2>2. QED
    BY <1>4, <2>1
<1>7. QED
  BY <1>1, <1>5, <1>6

LEMMA DenominatorLeq ==
  ASSUME NEW x \in Rat, NEW y \in Rat, x[1] * y[2] = y[1] * x[2]
  PROVE  x[2] <= y[2]
<1>1. x[1] \in Int /\ x[2] \in Nat \ {0} /\ y[1] \in Int /\ y[2] \in Nat \ {0}
  BY RatType
<1>2. PICK u \in Int, v \in Int : u * x[1] + v * x[2] = 1
  BY Coprime
<1> DEFINE k == u * y[1] + v * y[2]
<1>3. (u * x[1] + v * x[2]) * y[2] = u * (x[1] * y[2]) + (v * y[2]) * x[2]
  BY <1>1
<1>4. u * (y[1] * x[2]) + (v * y[2]) * x[2] = k * x[2]
  BY <1>1
<1>5. y[2] = k * x[2] /\ k \in Int
  BY <1>1, <1>2, <1>3, <1>4
<1> HIDE DEF k
<1>6. k >= 1
  BY <1>1, <1>5
<1>7. (k - 1) * x[2] >= 0
  BY <1>1, <1>5, <1>6
<1>8. QED
  BY <1>1, <1>5, <1>7

\* Equal numbers are equal values.
LEMMA SameValue ==
  ASSUME NEW x \in Rat, NEW y \in Rat, x[1] * y[2] = y[1] * x[2]
  PROVE  x = y
<1>1. x[1] \in Int /\ x[2] \in Nat \ {0} /\ y[1] \in Int /\ y[2] \in Nat \ {0}
  BY RatType
<1>2. x[2] <= y[2]
  BY DenominatorLeq
<1>3. y[2] <= x[2]
  BY DenominatorLeq
<1>4. x[2] = y[2]
  BY <1>1, <1>2, <1>3
<1>5. x[1] = y[1]
  BY <1>1, <1>4, Cancel
<1>6. QED
  BY <1>4, <1>5, RatType

LEMMA IsSame ==
  ASSUME NEW x, NEW y, NEW n \in Int, NEW d \in Int \ {0}, NEW m \in Int, NEW e \in Int \ {0},
         Is(x, n, d), Is(y, m, e), n * e = m * d
  PROVE  x = y
<1>1. x \in Rat /\ y \in Rat /\ x[1] * d = n * x[2] /\ y[1] * e = m * y[2]
  BY DEF Is
<1>2. x[1] \in Int /\ x[2] \in Nat \ {0} /\ y[1] \in Int /\ y[2] \in Nat \ {0}
  BY <1>1, RatType
<1>3. (x[1] * y[2]) * (d * e) = (x[1] * d) * (y[2] * e)
  BY <1>2
<1>4. (n * x[2]) * (y[2] * e) = (n * e) * (x[2] * y[2])
  BY <1>2
<1>5. (y[1] * x[2]) * (d * e) = (y[1] * e) * (x[2] * d)
  BY <1>2
<1>6. (m * y[2]) * (x[2] * d) = (m * d) * (x[2] * y[2])
  BY <1>2
<1>7. (x[1] * y[2]) * (d * e) = (y[1] * x[2]) * (d * e)
  BY <1>1, <1>3, <1>4, <1>5, <1>6
<1>8. d * e \in Int \ {0} /\ x[1] * y[2] \in Int /\ y[1] * x[2] \in Int
  BY <1>2, NonZero
<1>9. x[1] * y[2] = y[1] * x[2]
  BY <1>7, <1>8, Cancel
<1>10. QED
  BY <1>1, <1>9, SameValue

LEMMA IsAdd ==
  ASSUME NEW x, NEW y, NEW n \in Int, NEW d \in Int \ {0}, NEW m \in Int, NEW e \in Int \ {0},
         Is(x, n, d), Is(y, m, e)
  PROVE  Is(RAdd(x, y), n * e + m * d, d * e)
<1>1. x \in Rat /\ y \in Rat /\ x[1] * d = n * x[2] /\ y[1] * e = m * y[2]
  BY DEF Is
<1>2. x[1] \in Int /\ x[2] \in Nat \ {0} /\ y[1] \in Int /\ y[2] \in Nat \ {0}
  BY <1>1, RatType
<1>3. x[2] * y[2] \in Int \ {0} /\ x[1] * y[2] + y[1] * x[2] \in Int
  BY <1>2, NonZero
<1> DEFINE z == RAdd(x, y)
<1>4. Is(z, x[1] * y[2] + y[1] * x[2], x[2] * y[2])
  BY <1>3, FracFacts DEF RAdd
<1> HIDE DEF z
<1>5. z \in Rat /\ z[1] * (x[2] * y[2]) = (x[1] * y[2] + y[1] * x[2]) * z[2]
  BY <1>4 DEF Is
<1>6. z[1] \in Int /\ z[2] \in Int
  BY <1>5, RatType
<1>7. (z[1] * (d * e)) * (x[2] * y[2]) = (z[1] * (x[2] * y[2])) * (d * e)
  BY <1>2, <1>6
<1>8. ((x[1] * y[2] + y[1] * x[2]) * z[2]) * (d * e)
         = z[2] * ((x[1] * d) * (y[2] * e) + (y[1] * e) * (x[2] * d))
  BY <1>2, <1>6
<1>9. z[2] * ((n * x[2]) * (y[2] * e) + (m * y[2]) * (x[2] * d))
         = ((n * e + m * d) * z[2]) * (x[2] * y[2])
  BY <1>2, <1>6
<1>10. (z[1] * (d * e)) * (x[2] * y[2]) = ((n * e + m * d) * z[2]) * (x[2] * y[2])
  BY <1>1, <1>5, <1>7, <1>8, <1>9
<1>11. z[1] * (d * e) \in Int /\ (n * e + m * d) * z[2] \in Int
  BY <1>6
<1>12. z[1] * (d * e) = (n * e + m * d) * z[2]
  BY <1>3, <1>10, <1>11, Cancel
<1>13. QED
  BY <1>5, <1>12 DEF Is, z

LEMMA IsMul ==
  ASSUME NEW x, NEW y, NEW n \in Int, NEW d \in Int \ {0}, NEW m \in Int, NEW e \in Int \ {0},
         Is(x, n, d), Is(y, m, e)
  PROVE  Is(RMul(x, y), n * m, d * e)
<1>1. x \in Rat /\ y \in Rat /\ x[1] * d = n * x[2] /\ y[1] * e = m * y[2]
  BY DEF Is
<1>2. x[1] \in Int /\ x[2] \in Nat \ {0} /\ y[1] \in Int /\ y[2] \in Nat \ {0}
  BY <1>1, RatType
<1>3. x[2] * y[2] \in Int \ {0} /\ x[1] * y[1] \in Int
  BY <1>2, NonZero
<1> DEFINE z == RMul(x, y)
<1>4. Is(z, x[1] * y[1], x[2] * y[2])
  BY <1>3, FracFacts DEF RMul
<1> HIDE DEF z
<1>5. z \in Rat /\ z[1] * (x[2] * y[2]) = (x[1] * y[1]) * z[2]
  BY <1>4 DEF Is
<1>6. z[1] \in Int /\ z[2] \in Int
  BY <1>5, RatType
<1>7. (z[1] * (d * e)) * (x[2] * y[2]) = (z[1] * (x[2] * y[2])) * (d * e)
  BY <1>2, <1>6
<1>8. ((x[1] * y[1]) * z[2]) * (d * e) = z[2] * ((x[1] * d) * (y[1] * e))
  BY <1>2, <1>6
<1>9. z[2] * ((n * x[2]) * (m * y[2])) = ((n * m) * z[2]) * (x[2] * y[2])
  BY <1>2, <1>6
<1>10. (z[1] * (d * e)) * (x[2] * y[2]) = ((n * m) * z[2]) * (x[2] * y[2])
  BY <1>1, <1>5, <1>7, <1>8, <1>9
<1>11. z[1] * (d * e) \in Int /\ (n * m) * z[2] \in Int
  BY <1>6
<1>12. z[1] * (d * e) = (n * m) * z[2]
  BY <1>3, <1>10, <1>11, Cancel
<1>13. QED
  BY <1>5, <1>12 DEF Is, z

LEMMA IsDiv ==
  ASSUME NEW x, NEW y, NEW n \in Int, NEW d \in Int \ {0}, NEW m \in Int \ {0}, NEW e \in Int \ {0},
         Is(x, n, d), Is(y, m, e)
  PROVE  Is(RDiv(x, y), n * e, d * m)
<1>1. x \in Rat /\ y \in Rat /\ x[1] * d = n * x[2] /\ y[1] * e = m * y[2]
  BY DEF Is
<1>2. x[1] \in Int /\ x[2] \in Nat \ {0} /\ y[1] \in Int /\ y[2] \in Nat \ {0}
  BY <1>1, RatType
<1>3. y[1] # 0
  BY <1>1, <1>2, NonZero
<1>4. x[2] * y[1] \in Int \ {0} /\ x[1] * y[2] \in Int /\ x[2] * y[2] \in Int \ {0}
  BY <1>2, <1>3, NonZero
<1> DEFINE z == RDiv(x, y)
<1>5. Is(z, x[1] * y[2], x[2] * y[1])
  BY <1>4, FracFacts DEF RDiv
<1> HIDE DEF z
<1>6. z \in Rat /\ z[1] * (x[2] * y[1]) = (x[1] * y[2]) * z[2]
  BY <1>5 DEF Is
<1>7. z[1] \in Int /\ z[2] \in Int
  BY <1>6, RatType
<1>8. (z[1] * (d * m)) * (x[2] * y[2]) = (z[1] * d * x[2]) * (m * y[2])
  BY <1>2, <1>7
<1>9. (z[1] * d * x[2]) * (y[1] * e) = (z[1] * (x[2] * y[1])) * (d * e)
  BY <1>2, <1>7
<1>10. ((x[1] * y[2]) * z[2]) * (d * e) = (x[1] * d) * (y[2] * e * z[2])
  BY <1>2, <1>7
<1>11. (n * x[2]) * (y[2] * e * z[2]) = ((n * e) * z[2]) * (x[2] * y[2])
  BY <1>2, <1>7
<1>12. (z[1] * (d * m)) * (x[2] * y[2]) = ((n * e) * z[2]) * (x[2] * y[2])
  BY <1>1, <1>6, <1>8, <1>9, <1>10, <1>11
<1>13. z[1] * (d * m) \in Int /\ (n * e) * z[2] \in Int
  BY <1>7
<1>14. z[1] * (d * m) = (n * e) * z[2]
  BY <1>4, <1>12, <1>13, Cancel
<1>15. QED
  BY <1>6, <1>14 DEF Is, z

-----------------------------------------------------------------------------
(* Arithmetic                                                               *)

LEMMA RType ==
  ASSUME NEW n \in Int
  PROVE  R(n) \in Rat /\ Is(R(n), n, 1)
<1>1. AbsInt(n) \in Nat
  BY AbsFacts
<1>2. AbsInt(n) % 1 = 0
  BY <1>1
<1>3. GCD[<<1, 0>>] = 1
  BY GcdStep
<1>4. 1 \in Nat /\ 1 # 0
  OBVIOUS
<1>5. GCD[<<1, AbsInt(n) % 1>>] = 1
  BY <1>2, <1>3
<1>6. GCD[<<AbsInt(n), 1>>] = GCD[<<1, AbsInt(n) % 1>>]
  BY <1>1, <1>4, GcdStep
<1>7. QED
  BY <1>5, <1>6 DEF R, Rat, Is

LEMMA ZeroOne ==
  /\ Zero \in Rat /\ One \in Rat /\ Is(Zero, 0, 1) /\ Is(One, 1, 1)
  /\ Zero[1] = 0 /\ Zero[2] = 1 /\ One[1] = 1 /\ One[2] = 1
BY RType DEF Zero, One, R

LEMMA IsZero ==
  ASSUME NEW x \in Rat
  PROVE  x[1] = 0 <=> x = Zero
<1>1. x[2] \in Int
  BY RatType
<1>2. ASSUME x[1] = 0
      PROVE  x = Zero
  <2>1. x[1] * Zero[2] = Zero[1] * x[2]
    BY <1>1, <1>2, ZeroOne
  <2>2. QED
    BY <2>1, SameValue, ZeroOne
<1>3. QED
  BY <1>2, ZeroOne

LEMMA AddType ==
  ASSUME NEW x \in Rat, NEW y \in Rat
  PROVE  RAdd(x, y) \in Rat /\ Is(RAdd(x, y), x[1] * y[2] + y[1] * x[2], x[2] * y[2])
<1>1. /\ x[1] \in Int /\ x[2] \in Int \ {0} /\ Is(x, x[1], x[2])
      /\ y[1] \in Int /\ y[2] \in Int \ {0} /\ Is(y, y[1], y[2])
  BY RatType
<1>2. Is(RAdd(x, y), x[1] * y[2] + y[1] * x[2], x[2] * y[2])
  BY <1>1, IsAdd
<1>3. QED
  BY <1>2 DEF Is

LEMMA MulType ==
  ASSUME NEW x \in Rat, NEW y \in Rat
  PROVE  RMul(x, y) \in Rat /\ Is(RMul(x, y), x[1] * y[1], x[2] * y[2])
<1>1. /\ x[1] \in Int /\ x[2] \in Int \ {0} /\ Is(x, x[1], x[2])
      /\ y[1] \in Int /\ y[2] \in Int \ {0} /\ Is(y, y[1], y[2])
  BY RatType
<1>2. Is(RMul(x, y), x[1] * y[1], x[2] * y[2])
  BY <1>1, IsMul
<1>3. QED
  BY <1>2 DEF Is

LEMMA DivType ==
  ASSUME NEW x \in Rat, NEW y \in Rat, y # Zero
  PROVE  RDiv(x, y) \in Rat /\ Is(RDiv(x, y), x[1] * y[2], x[2] * y[1])
<1>1. /\ x[1] \in Int /\ x[2] \in Int \ {0} /\ Is(x, x[1], x[2])
      /\ y[1] \in Int \ {0} /\ y[2] \in Int \ {0} /\ Is(y, y[1], y[2])
  BY RatType, IsZero
<1>2. Is(RDiv(x, y), x[1] * y[2], x[2] * y[1])
  BY <1>1, IsDiv
<1>3. QED
  BY <1>2 DEF Is

LEMMA NegType ==
  ASSUME NEW x \in Rat
  PROVE  RNeg(x) \in Rat /\ Is(RNeg(x), -x[1], x[2])
<1>1. x[1] \in Int /\ x[2] \in Nat \ {0} /\ GCD[<<AbsInt(x[1]), x[2]>>] = 1
  BY DEF Rat
<1>2. AbsInt(-x[1]) = AbsInt(x[1])
  BY <1>1, AbsFacts
<1>3. QED
  BY <1>1, <1>2 DEF RNeg, Rat, Is

LEMMA AbsType ==
  ASSUME NEW x \in Rat
  PROVE  RAbs(x) \in Rat /\ Is(RAbs(x), AbsInt(x[1]), x[2])
<1>1. x[1] \in Int /\ x[2] \in Nat \ {0} /\ GCD[<<AbsInt(x[1]), x[2]>>] = 1
  BY DEF Rat
<1>2. AbsInt(x[1]) \in Nat /\ AbsInt(AbsInt(x[1])) = AbsInt(x[1])
  BY <1>1, AbsFacts DEF AbsInt
<1>3. QED
  BY <1>1, <1>2 DEF RAbs, Rat, Is

LEMMA SubType ==
  ASSUME NEW x \in Rat, NEW y \in Rat
  PROVE  RSub(x, y) \in Rat
BY NegType, AddType DEF RSub

LEMMA AddComm ==
  ASSUME NEW x \in Rat, NEW y \in Rat
  PROVE  RAdd(x, y) = RAdd(y, x)
<1>1. /\ x[1] \in Int /\ x[2] \in Int /\ y[1] \in Int /\ y[2] \in Int
  BY RatType
<1>2. x[1] * y[2] + y[1] * x[2] = y[1] * x[2] + x[1] * y[2] /\ x[2] * y[2] = y[2] * x[2]
  BY <1>1
<1>3. QED
  BY <1>2 DEF RAdd

LEMMA MulComm ==
  ASSUME NEW x \in Rat, NEW y \in Rat
  PROVE  RMul(x, y) = RMul(y, x)
<1>1. /\ x[1] \in Int /\ x[2] \in Int /\ y[1] \in Int /\ y[2] \in Int
  BY RatType
<1>2. x[1] * y[1] = y[1] * x[1] /\ x[2] * y[2] = y[2] * x[2]
  BY <1>1
<1>3. QED
  BY <1>2 DEF RMul

LEMMA AddAssoc ==
  ASSUME NEW x \in Rat, NEW y \in Rat, NEW z \in Rat
  PROVE  RAdd(RAdd(x, y), z) = RAdd(x, RAdd(y, z))
<1>1. /\ x[1] \in Int /\ x[2] \in Int \ {0} /\ Is(x, x[1], x[2])
      /\ y[1] \in Int /\ y[2] \in Int \ {0} /\ Is(y, y[1], y[2])
      /\ z[1] \in Int /\ z[2] \in Int \ {0} /\ Is(z, z[1], z[2])
  BY RatType
<1> DEFINE a == x[1] * y[2] + y[1] * x[2]
           b == y[1] * z[2] + z[1] * y[2]
           c == x[2] * y[2]
           d == y[2] * z[2]
<1>2. a \in Int /\ b \in Int /\ c \in Int \ {0} /\ d \in Int \ {0}
  BY <1>1, NonZero
<1>3. Is(RAdd(x, y), a, c) /\ Is(RAdd(y, z), b, d)
  BY AddType
<1>4. (a * z[2] + z[1] * c) * (x[2] * d) = (x[1] * d + b * x[2]) * (c * z[2])
  BY <1>1
<1> HIDE DEF a, b, c, d
<1>5. Is(RAdd(RAdd(x, y), z), a * z[2] + z[1] * c, c * z[2])
  BY <1>1, <1>2, <1>3, IsAdd
<1>6. Is(RAdd(x, RAdd(y, z)), x[1] * d + b * x[2], x[2] * d)
  BY <1>1, <1>2, <1>3, IsAdd
<1>7. /\ a * z[2] + z[1] * c \in Int /\ c * z[2] \in Int \ {0}
      /\ x[1] * d + b * x[2] \in Int /\ x[2] * d \in Int \ {0}
  BY <1>1, <1>2, NonZero
<1>8. QED
  BY <1>4, <1>5, <1>6, <1>7, IsSame

LEMMA MulAssoc ==
  ASSUME NEW x \in Rat, NEW y \in Rat, NEW z \in Rat
  PROVE  RMul(RMul(x, y), z) = RMul(x, RMul(y, z))
<1>1. /\ x[1] \in Int /\ x[2] \in Int \ {0} /\ Is(x, x[1], x[2])
      /\ y[1] \in Int /\ y[2] \in Int \ {0} /\ Is(y, y[1], y[2])
      /\ z[1] \in Int /\ z[2] \in Int \ {0} /\ Is(z, z[1], z[2])
  BY RatType
<1> DEFINE a == x[1] * y[1]
           b == y[1] * z[1]
           c == x[2] * y[2]
           d == y[2] * z[2]
<1>2. a \in Int /\ b \in Int /\ c \in Int \ {0} /\ d \in Int \ {0}
  BY <1>1, NonZero
<1>3. Is(RMul(x, y), a, c) /\ Is(RMul(y, z), b, d)
  BY MulType
<1>4. (a * z[1]) * (x[2] * d) = (x[1] * b) * (c * z[2])
  BY <1>1
<1> HIDE DEF a, b, c, d
<1>5. Is(RMul(RMul(x, y), z), a * z[1], c * z[2])
  BY <1>1, <1>2, <1>3, IsMul
<1>6. Is(RMul(x, RMul(y, z)), x[1] * b, x[2] * d)
  BY <1>1, <1>2, <1>3, IsMul
<1>7. c * z[2] \in Int \ {0} /\ x[2] * d \in Int \ {0}
  BY <1>1, <1>2, NonZero
<1>8. a * z[1] \in Int /\ x[1] * b \in Int
  BY <1>1, <1>2
<1>9. QED
  BY <1>4, <1>5, <1>6, <1>7, <1>8, IsSame

LEMMA Distributes ==
  ASSUME NEW x \in Rat, NEW y \in Rat, NEW z \in Rat
  PROVE  RMul(x, RAdd(y, z)) = RAdd(RMul(x, y), RMul(x, z))
<1>1. /\ x[1] \in Int /\ x[2] \in Int \ {0} /\ Is(x, x[1], x[2])
      /\ y[1] \in Int /\ y[2] \in Int \ {0} /\ Is(y, y[1], y[2])
      /\ z[1] \in Int /\ z[2] \in Int \ {0} /\ Is(z, z[1], z[2])
  BY RatType
<1> DEFINE a == y[1] * z[2] + z[1] * y[2]
           b == y[2] * z[2]
           c == x[1] * y[1]
           d == x[2] * y[2]
           e == x[1] * z[1]
           f == x[2] * z[2]
<1>2. a \in Int /\ b \in Int \ {0} /\ c \in Int /\ d \in Int \ {0} /\ e \in Int /\ f \in Int \ {0}
  BY <1>1, NonZero
<1>3. Is(RAdd(y, z), a, b) /\ Is(RMul(x, y), c, d) /\ Is(RMul(x, z), e, f)
  BY AddType, MulType
<1>4. (x[1] * a) * (d * f) = (c * f + e * d) * (x[2] * b)
  BY <1>1
<1> HIDE DEF a, b, c, d, e, f
<1>5. Is(RMul(x, RAdd(y, z)), x[1] * a, x[2] * b)
  BY <1>1, <1>2, <1>3, IsMul
<1>6. Is(RAdd(RMul(x, y), RMul(x, z)), c * f + e * d, d * f)
  BY <1>2, <1>3, IsAdd
<1>7. /\ x[1] * a \in Int /\ x[2] * b \in Int \ {0}
      /\ c * f + e * d \in Int /\ d * f \in Int \ {0}
  BY <1>1, <1>2, NonZero
<1>8. QED
  BY <1>4, <1>5, <1>6, <1>7, IsSame

\* Zero and one.
LEMMA Neutral ==
  ASSUME NEW x \in Rat
  PROVE  RAdd(Zero, x) = x /\ RAdd(x, Zero) = x /\ RMul(One, x) = x /\ RMul(x, One) = x
         /\ RMul(Zero, x) = Zero /\ RMul(x, Zero) = Zero /\ RAdd(x, RNeg(x)) = Zero
<1>1. /\ x[1] \in Int /\ x[2] \in Int \ {0} /\ Is(x, x[1], x[2])
  BY RatType
<1>2. RAdd(Zero, x) = x
  <2>1. Is(RAdd(Zero, x), 0 * x[2] + x[1] * 1, 1 * x[2])
    BY AddType, ZeroOne
  <2>2. Is(RAdd(Zero, x), x[1], x[2])
    BY <1>1, <2>1
  <2>3. QED
    BY <1>1, <2>2, IsSame
<1>3. RMul(One, x) = x
  <2>1. Is(RMul(One, x), 1 * x[1], 1 * x[2])
    BY MulType, ZeroOne
  <2>2. Is(RMul(One, x), x[1], x[2])
    BY <1>1, <2>1
  <2>3. QED
    BY <1>1, <2>2, IsSame
<1>4. RMul(Zero, x) = Zero
  <2>1. RMul(Zero, x) \in Rat /\ Is(RMul(Zero, x), 0 * x[1], 1 * x[2])
    BY MulType, ZeroOne
  <2>2. RMul(Zero, x)[1] * x[2] = 0 /\ RMul(Zero, x)[1] \in Int
    BY <1>1, <2>1, RatType DEF Is
  <2>3. RMul(Zero, x)[1] = 0
    BY <1>1, <2>2
  <2>4. QED
    BY <2>1, <2>3, IsZero
<1>5. RAdd(x, RNeg(x)) = Zero
  <2>1. RNeg(x) \in Rat /\ RNeg(x)[1] = -x[1] /\ RNeg(x)[2] = x[2]
    BY NegType DEF RNeg
  <2>2. RAdd(x, RNeg(x)) \in Rat
        /\ Is(RAdd(x, RNeg(x)), x[1] * x[2] + (-x[1]) * x[2], x[2] * x[2])
    BY <2>1, AddType
  <2>3. RAdd(x, RNeg(x))[1] * (x[2] * x[2]) = 0 /\ RAdd(x, RNeg(x))[1] \in Int
    BY <1>1, <2>2, RatType DEF Is
  <2>4. x[2] * x[2] \in Int \ {0}
    BY <1>1, NonZero
  <2>5. RAdd(x, RNeg(x))[1] = 0
    BY <2>3, <2>4
  <2>6. QED
    BY <2>2, <2>5, IsZero
<1>6. QED
  BY <1>2, <1>3, <1>4, <1>5, AddComm, MulComm, ZeroOne

LEMMA DivMul ==
  ASSUME NEW x \in Rat, NEW y \in Rat, y # Zero
  PROVE  RMul(RDiv(x, y), y) = x
<1>1. /\ x[1] \in Int /\ x[2] \in Int \ {0} /\ Is(x, x[1], x[2])
      /\ y[1] \in Int \ {0} /\ y[2] \in Int \ {0} /\ Is(y, y[1], y[2])
  BY RatType, IsZero
<1> DEFINE a == x[1] * y[2]
           b == x[2] * y[1]
<1>2. a \in Int /\ b \in Int \ {0}
  BY <1>1, NonZero
<1>3. Is(RDiv(x, y), a, b)
  BY DivType
<1>4. (a * y[1]) * x[2] = x[1] * (b * y[2])
  BY <1>1
<1> HIDE DEF a, b
<1>5. Is(RMul(RDiv(x, y), y), a * y[1], b * y[2])
  BY <1>1, <1>2, <1>3, IsMul
<1>6. a * y[1] \in Int /\ b * y[2] \in Int \ {0}
  BY <1>1, <1>2, NonZero
<1>7. QED
  BY <1>1, <1>4, <1>5, <1>6, IsSame

-----------------------------------------------------------------------------
(* Order                                                                    *)

LEMMA LeqScale ==
  ASSUME NEW a \in Int, NEW b \in Int, NEW c \in Nat \ {0}
  PROVE  a <= b <=> a * c <= b * c
<1>1. ASSUME a <= b
      PROVE  a * c <= b * c
  <2>1. (b - a) * c >= 0
    BY <1>1
  <2>2. QED
    BY <2>1
<1>2. ASSUME a > b
      PROVE  a * c > b * c
  <2>1. (a - b - 1) * c >= 0
    BY <1>2
  <2>2. QED
    BY <2>1
<1>3. QED
  BY <1>1, <1>2

\* The order of two numbers is that of any of their fractions.
LEMMA LeqIs ==
  ASSUME NEW x, NEW y, NEW n \in Int, NEW d \in Nat \ {0}, NEW m \in Int, NEW e \in Nat \ {0},
         Is(x, n, d), Is(y, m, e)
  PROVE  RLeq(x, y) <=> n * e <= m * d
<1>1. x \in Rat /\ y \in Rat /\ x[1] * d = n * x[2] /\ y[1] * e = m * y[2]
  BY DEF Is
<1>2. x[1] \in Int /\ x[2] \in Nat \ {0} /\ y[1] \in Int /\ y[2] \in Nat \ {0}
  BY <1>1, RatType
<1>3. (x[1] * y[2]) * (d * e) = (x[1] * d) * (y[2] * e)
  BY <1>2
<1>4. (n * x[2]) * (y[2] * e) = (n * e) * (x[2] * y[2])
  BY <1>2
<1>5. (y[1] * x[2]) * (d * e) = (y[1] * e) * (x[2] * d)
  BY <1>2
<1>6. (m * y[2]) * (x[2] * d) = (m * d) * (x[2] * y[2])
  BY <1>2
<1>7. /\ (x[1] * y[2]) * (d * e) = (n * e) * (x[2] * y[2])
      /\ (y[1] * x[2]) * (d * e) = (m * d) * (x[2] * y[2])
  BY <1>1, <1>3, <1>4, <1>5, <1>6
<1>8. /\ d * e \in Int \ {0} /\ x[2] * y[2] \in Int \ {0}
      /\ d * e >= 0 /\ x[2] * y[2] >= 0
  BY <1>2, NonZero
<1>9. d * e \in Nat \ {0} /\ x[2] * y[2] \in Nat \ {0}
  BY <1>8
<1>10. x[1] * y[2] \in Int /\ y[1] * x[2] \in Int /\ n * e \in Int /\ m * d \in Int
  BY <1>2
<1>11. RLeq(x, y) <=> (x[1] * y[2]) * (d * e) <= (y[1] * x[2]) * (d * e)
  BY <1>9, <1>10, LeqScale DEF RLeq
<1>12. n * e <= m * d <=> (n * e) * (x[2] * y[2]) <= (m * d) * (x[2] * y[2])
  BY <1>9, <1>10, LeqScale
<1>13. QED
  BY <1>7, <1>11, <1>12

LEMMA Order ==
  ASSUME NEW x \in Rat, NEW y \in Rat
  PROVE  /\ RLeq(x, x) /\ (RLt(x, y) <=> ~RLeq(y, x)) /\ (RLt(x, y) => RLeq(x, y))
         /\ (RLeq(x, y) /\ RLeq(y, x) => x = y)
         /\ (RLeq(Zero, x) <=> x[1] >= 0) /\ (RLt(Zero, x) <=> x[1] > 0)
         /\ (RLeq(x, Zero) <=> x[1] <= 0)
<1>1. /\ x[1] \in Int /\ x[2] \in Int /\ y[1] \in Int /\ y[2] \in Int
      /\ x[1] * y[2] \in Int /\ y[1] * x[2] \in Int
  BY RatType
<1>2. RLeq(x, x) /\ (RLt(x, y) <=> ~RLeq(y, x)) /\ (RLt(x, y) => RLeq(x, y))
  BY <1>1 DEF RLeq, RLt
<1>3. RLeq(x, y) /\ RLeq(y, x) => x = y
  BY <1>1, SameValue DEF RLeq
<1>4. /\ (RLeq(Zero, x) <=> x[1] >= 0) /\ (RLt(Zero, x) <=> x[1] > 0)
      /\ (RLeq(x, Zero) <=> x[1] <= 0)
  BY <1>1, ZeroOne DEF RLeq, RLt
<1>5. QED
  BY <1>2, <1>3, <1>4

LEMMA LeqTrans ==
  ASSUME NEW x \in Rat, NEW y \in Rat, NEW z \in Rat, RLeq(x, y), RLeq(y, z)
  PROVE  RLeq(x, z)
<1>1. /\ x[1] \in Int /\ x[2] \in Nat \ {0} /\ y[1] \in Int /\ y[2] \in Nat \ {0}
      /\ z[1] \in Int /\ z[2] \in Nat \ {0}
  BY RatType
<1>2. (x[1] * y[2]) * z[2] <= (y[1] * x[2]) * z[2]
  <2>1. x[1] * y[2] \in Int /\ y[1] * x[2] \in Int /\ x[1] * y[2] <= y[1] * x[2]
    BY <1>1 DEF RLeq
  <2>2. QED
    BY <1>1, <2>1, LeqScale
<1>3. (y[1] * z[2]) * x[2] <= (z[1] * y[2]) * x[2]
  <2>1. y[1] * z[2] \in Int /\ z[1] * y[2] \in Int /\ y[1] * z[2] <= z[1] * y[2]
    BY <1>1 DEF RLeq
  <2>2. QED
    BY <1>1, <2>1, LeqScale
<1>4. (x[1] * z[2]) * y[2] <= (z[1] * x[2]) * y[2]
  BY <1>1, <1>2, <1>3
<1>5. x[1] * z[2] \in Int /\ z[1] * x[2] \in Int
  BY <1>1
<1>6. QED
  BY <1>1, <1>4, <1>5, LeqScale DEF RLeq

\* A factor that is not negative keeps the order.
LEMMA MulMono ==
  ASSUME NEW s \in Rat, NEW x \in Rat, NEW y \in Rat, RLeq(Zero, s), RLeq(x, y)
  PROVE  RLeq(RMul(s, x), RMul(s, y)) /\ RLeq(RMul(x, s), RMul(y, s))
<1>1. /\ x[1] \in Int /\ x[2] \in Nat \ {0} /\ y[1] \in Int /\ y[2] \in Nat \ {0}
      /\ s[1] \in Int /\ s[2] \in Nat \ {0}
  BY RatType
<1>2. s[1] >= 0 /\ x[1] * y[2] <= y[1] * x[2]
  BY Order DEF RLeq
<1> DEFINE a == s[1] * x[1]
           b == s[2] * x[2]
           c == s[1] * y[1]
           d == s[2] * y[2]
<1>3. Is(RMul(s, x), a, b) /\ Is(RMul(s, y), c, d)
  BY MulType
<1>4. a * d <= c * b
  <2>1. (s[1] * s[2]) * (y[1] * x[2] - x[1] * y[2]) >= 0
    <3> DEFINE k == y[1] * x[2] - x[1] * y[2]
               l == s[1] * s[2]
    <3>1. k \in Int /\ k >= 0 /\ l \in Int /\ l >= 0
      BY <1>1, <1>2
    <3> HIDE DEF k, l
    <3>2. l * k >= 0
      BY <3>1
    <3>3. QED
      BY <3>2 DEF k, l
  <2>2. c * b - a * d = (s[1] * s[2]) * (y[1] * x[2] - x[1] * y[2])
    BY <1>1
  <2>3. c * b \in Int /\ a * d \in Int
    BY <1>1
  <2> HIDE DEF a, b, c, d
  <2>4. QED
    BY <2>1, <2>2, <2>3
<1>5. a \in Int /\ c \in Int /\ b \in Nat \ {0} /\ d \in Nat \ {0}
  <2>1. b \in Int \ {0} /\ d \in Int \ {0} /\ b >= 0 /\ d >= 0
    BY <1>1, NonZero
  <2>2. QED
    BY <1>1, <2>1
<1> HIDE DEF a, b, c, d
<1>6. RLeq(RMul(s, x), RMul(s, y))
  BY <1>3, <1>4, <1>5, LeqIs
<1>7. QED
  BY <1>6, MulComm

LEMMA AddMono ==
  ASSUME NEW z \in Rat, NEW x \in Rat, NEW y \in Rat, RLeq(x, y)
  PROVE  RLeq(RAdd(z, x), RAdd(z, y))
<1>1. /\ x[1] \in Int /\ x[2] \in Nat \ {0} /\ y[1] \in Int /\ y[2] \in Nat \ {0}
      /\ z[1] \in Int /\ z[2] \in Nat \ {0}
  BY RatType
<1>2. x[1] * y[2] <= y[1] * x[2]
  BY DEF RLeq
<1> DEFINE a == z[1] * x[2] + x[1] * z[2]
           b == z[2] * x[2]
           c == z[1] * y[2] + y[1] * z[2]
           d == z[2] * y[2]
<1>3. Is(RAdd(z, x), a, b) /\ Is(RAdd(z, y), c, d)
  BY AddType
<1>4. a * d <= c * b
  <2>1. (z[2] * z[2]) * (y[1] * x[2] - x[1] * y[2]) >= 0
    <3> DEFINE k == y[1] * x[2] - x[1] * y[2]
               l == z[2] * z[2]
    <3>1. k \in Int /\ k >= 0 /\ l \in Int /\ l >= 0
      BY <1>1, <1>2
    <3> HIDE DEF k, l
    <3>2. l * k >= 0
      BY <3>1
    <3>3. QED
      BY <3>2 DEF k, l
  <2>2. c * b - a * d = (z[2] * z[2]) * (y[1] * x[2] - x[1] * y[2])
    BY <1>1
  <2>3. c * b \in Int /\ a * d \in Int
    BY <1>1
  <2> HIDE DEF a, b, c, d
  <2>4. QED
    BY <2>1, <2>2, <2>3
<1>5. a \in Int /\ c \in Int /\ b \in Nat \ {0} /\ d \in Nat \ {0}
  <2>1. b \in Int \ {0} /\ d \in Int \ {0} /\ b >= 0 /\ d >= 0
    BY <1>1, NonZero
  <2>2. QED
    BY <1>1, <2>1
<1> HIDE DEF a, b, c, d
<1>6. QED
  BY <1>3, <1>4, <1>5, LeqIs

LEMMA Products ==
  ASSUME NEW x \in Rat, NEW y \in Rat, RLeq(Zero, x), RLeq(Zero, y)
  PROVE  RLeq(Zero, RMul(x, y)) /\ RLeq(Zero, RAdd(x, y))
<1>1. RLeq(RMul(x, Zero), RMul(x, y))
  BY MulMono, ZeroOne
<1>2. RLeq(RAdd(x, Zero), RAdd(x, y))
  BY AddMono, ZeroOne
<1>3. RAdd(x, y) \in Rat
  BY AddType
<1>4. QED
  BY <1>1, <1>2, <1>3, Neutral, LeqTrans, ZeroOne

LEMMA DivPositive ==
  ASSUME NEW x \in Rat, NEW y \in Rat, RLeq(Zero, x), RLt(Zero, y)
  PROVE  RDiv(x, y) \in Rat /\ RLeq(Zero, RDiv(x, y)) /\ y # Zero
<1>1. /\ x[1] \in Int /\ x[2] \in Nat \ {0} /\ y[1] \in Int /\ y[2] \in Nat \ {0}
  BY RatType
<1>2. x[1] >= 0 /\ y[1] > 0 /\ y # Zero
  BY Order, ZeroOne
<1> DEFINE a == x[1] * y[2]
           b == x[2] * y[1]
<1>3. RDiv(x, y) \in Rat /\ Is(RDiv(x, y), a, b)
  BY <1>2, DivType
<1>4. a >= 0 /\ b \in Int \ {0} /\ b >= 0 /\ a \in Int
  BY <1>1, <1>2, NonZero
<1> HIDE DEF a, b
<1>5. 0 * b <= a * 1 /\ b \in Nat \ {0} /\ 0 \in Int /\ 1 \in Nat \ {0}
  BY <1>4
<1>6. RLeq(Zero, RDiv(x, y))
  BY <1>3, <1>4, <1>5, LeqIs, ZeroOne
<1>7. QED
  BY <1>2, <1>3, <1>6

\* Absolute values.
LEMMA AbsRat ==
  ASSUME NEW x \in Rat
  PROVE  /\ RAbs(x) \in Rat /\ RLeq(Zero, RAbs(x)) /\ RLeq(x, RAbs(x)) /\ RLeq(RNeg(x), RAbs(x))
         /\ (RLeq(Zero, x) => RAbs(x) = x) /\ (RLt(Zero, RAbs(x)) <=> x # Zero)
         /\ (~RLt(Zero, RAbs(x)) => x = Zero)
<1>1. x[1] \in Int /\ x[2] \in Nat \ {0}
  BY RatType
<1>2. RAbs(x) \in Rat /\ RAbs(x)[1] = AbsInt(x[1]) /\ RAbs(x)[2] = x[2]
  BY AbsType DEF RAbs
<1>3. AbsInt(x[1]) \in Nat /\ x[1] <= AbsInt(x[1]) /\ -x[1] <= AbsInt(x[1])
  BY <1>1, AbsFacts DEF AbsInt
<1>4. RLeq(Zero, RAbs(x))
  BY <1>2, <1>3, Order
<1>5. RLeq(x, RAbs(x))
  BY <1>1, <1>2, <1>3, LeqScale DEF RLeq
<1>6. RLeq(RNeg(x), RAbs(x))
  <2>1. RNeg(x)[1] = -x[1] /\ RNeg(x)[2] = x[2]
    BY DEF RNeg
  <2>2. (-x[1]) * x[2] <= AbsInt(x[1]) * x[2]
    <3>1. -x[1] \in Int
      BY <1>1
    <3>2. QED
      BY <1>1, <1>3, <3>1, LeqScale
  <2>3. QED
    BY <1>2, <2>1, <2>2 DEF RLeq
<1>7. RLeq(Zero, x) => RAbs(x) = x
  <2>1. RLeq(Zero, x) => AbsInt(x[1]) = x[1]
    BY <1>1, Order, AbsFacts
  <2>2. x = <<x[1], x[2]>>
    BY RatType
  <2>3. QED
    BY <2>1, <2>2 DEF RAbs
<1>8. RLt(Zero, RAbs(x)) <=> x # Zero
  BY <1>1, <1>2, <1>3, Order, IsZero, AbsFacts
<1>9. QED
  BY <1>2, <1>4, <1>5, <1>6, <1>7, <1>8

LEMMA AbsMul ==
  ASSUME NEW s \in Rat, NEW x \in Rat, RLeq(Zero, s)
  PROVE  RAbs(RMul(s, x)) = RMul(s, RAbs(x))
<1>1. /\ x[1] \in Int /\ x[2] \in Int \ {0} /\ s[1] \in Int /\ s[2] \in Int \ {0} /\ s[1] >= 0
  BY RatType, Order
<1> DEFINE z == RMul(s, x)
           a == s[1] * AbsInt(x[1])
           b == s[2] * x[2]
<1>2. z \in Rat /\ Is(z, s[1] * x[1], b)
  BY MulType
<1> HIDE DEF z
<1>3. z[1] \in Int /\ z[2] \in Nat \ {0} /\ z[1] * b = (s[1] * x[1]) * z[2]
  BY <1>2, RatType DEF Is
<1>4. AbsInt(x[1]) \in Int /\ AbsInt(z[1]) \in Int
  BY <1>1, <1>3, AbsFacts
<1>5. x[2] > 0 /\ s[2] > 0
  BY RatType
<1>6. b > 0 /\ b \in Int \ {0}
  <2>1. b \in Int \ {0} /\ b >= 0
    BY <1>1, <1>5, NonZero
  <2>2. QED
    BY <2>1
<1>7. AbsInt(z[1]) * b = a * z[2]
  <2>1. CASE x[1] >= 0
    <3>1. s[1] * x[1] >= 0
      BY <1>1, <2>1
    <3>2. (s[1] * x[1]) * z[2] >= 0
      BY <1>1, <1>3, <3>1
    <3>3. z[1] >= 0
      <4> HIDE DEF b
      <4>1. z[1] * b >= 0
        BY <1>3, <3>2
      <4>2. QED
        BY <1>3, <1>6, <4>1
    <3>4. QED
      BY <1>1, <1>3, <2>1, <3>3, AbsFacts
  <2>2. CASE x[1] < 0
    <3>1. s[1] * (-x[1]) >= 0
      BY <1>1, <2>2
    <3>2. (s[1] * (-x[1])) * z[2] >= 0
      BY <1>1, <1>3, <3>1
    <3>3. (-z[1]) * b = (s[1] * (-x[1])) * z[2]
      BY <1>1, <1>3
    <3>4. z[1] <= 0
      <4> HIDE DEF b
      <4>1. (-z[1]) * b >= 0
        BY <3>2, <3>3
      <4>2. QED
        BY <1>3, <1>6, <4>1
    <3>5. AbsInt(z[1]) = -z[1] /\ AbsInt(x[1]) = -x[1]
      BY <1>1, <1>3, <2>2, <3>4, AbsFacts
    <3>6. QED
      BY <3>3, <3>5
  <2>3. QED
    BY <1>1, <2>1, <2>2
<1>8. Is(RAbs(z), AbsInt(z[1]), z[2]) /\ RAbs(z) \in Rat /\ RAbs(x) \in Rat
  BY <1>2, AbsType
<1>9. Is(RMul(s, RAbs(x)), a, b)
  <2>1. RAbs(x)[1] = AbsInt(x[1]) /\ RAbs(x)[2] = x[2]
    BY DEF RAbs
  <2>2. QED
    BY <1>8, <2>1, MulType
<1>10. a \in Int
  BY <1>1, <1>4
<1> HIDE DEF a, b
<1>11. RAbs(z) = RMul(s, RAbs(x))
  BY <1>3, <1>4, <1>6, <1>7, <1>8, <1>9, <1>10, IsSame
<1>12. QED
  BY <1>11 DEF z

LEMMA NegFacts ==
  ASSUME NEW x \in Rat, NEW y \in Rat
  PROVE  /\ RMul(x, RNeg(y)) = RNeg(RMul(x, y)) /\ RMul(RNeg(x), y) = RNeg(RMul(x, y))
         /\ (RLeq(RNeg(x), RNeg(y)) <=> RLeq(y, x)) /\ RNeg(RNeg(x)) = x
<1>1. /\ x[1] \in Int /\ x[2] \in Int \ {0} /\ y[1] \in Int /\ y[2] \in Int \ {0}
      /\ x = <<x[1], x[2]>>
  BY RatType
<1>2. /\ RNeg(x) \in Rat /\ RNeg(x)[1] = -x[1] /\ RNeg(x)[2] = x[2]
      /\ RNeg(y) \in Rat /\ RNeg(y)[1] = -y[1] /\ RNeg(y)[2] = y[2]
  BY NegType DEF RNeg
<1> DEFINE z == RMul(x, y)
           b == x[2] * y[2]
<1>3. z \in Rat /\ Is(z, x[1] * y[1], b)
  BY MulType
<1>4. Is(RMul(x, RNeg(y)), x[1] * (-y[1]), b) /\ Is(RMul(RNeg(x), y), (-x[1]) * y[1], b)
  BY <1>2, MulType
<1>5. b \in Int \ {0}
  BY <1>1, NonZero
<1>6. Is(RNeg(z), -z[1], z[2]) /\ z[1] \in Int /\ z[2] \in Int \ {0}
      /\ z[1] * b = (x[1] * y[1]) * z[2]
  BY <1>3, NegType, RatType DEF Is
<1> HIDE DEF z, b
<1>7. (-z[1]) * b = (x[1] * (-y[1])) * z[2] /\ (-z[1]) * b = ((-x[1]) * y[1]) * z[2]
  BY <1>1, <1>5, <1>6
<1>8. x[1] * (-y[1]) \in Int /\ (-x[1]) * y[1] \in Int /\ -z[1] \in Int
  BY <1>1, <1>6
<1>9. RMul(x, RNeg(y)) = RNeg(z) /\ RMul(RNeg(x), y) = RNeg(z)
  BY <1>4, <1>5, <1>6, <1>7, <1>8, IsSame
<1>10. RLeq(RNeg(x), RNeg(y)) <=> RLeq(y, x)
  BY <1>1, <1>2 DEF RLeq
<1>11. RNeg(RNeg(x)) = x
  BY <1>1 DEF RNeg
<1>12. QED
  BY <1>9, <1>10, <1>11 DEF z

\* The difference of numbers in order is not negative, and added again it restores.
LEMMA Difference ==
  ASSUME NEW x \in Rat, NEW y \in Rat
  PROVE  /\ RSub(y, x) \in Rat /\ RAdd(x, RSub(y, x)) = y
         /\ (RLeq(x, y) => RLeq(Zero, RSub(y, x)))
         /\ (RLt(x, y) => RLt(Zero, RSub(y, x)))
<1>1. RNeg(x) \in Rat /\ RSub(y, x) = RAdd(y, RNeg(x)) /\ RSub(y, x) \in Rat
  BY NegType, SubType DEF RSub
<1>2. RAdd(x, RSub(y, x)) = y
  <2>1. RAdd(x, RAdd(RNeg(x), y)) = RAdd(RAdd(x, RNeg(x)), y)
    BY <1>1, AddAssoc
  <2>2. QED
    BY <1>1, <2>1, AddComm, Neutral
<1>3. RLeq(x, y) => RLeq(Zero, RSub(y, x))
  <2>1. RLeq(x, y) => RLeq(RAdd(RNeg(x), x), RAdd(RNeg(x), y))
    BY <1>1, AddMono
  <2>2. RAdd(RNeg(x), x) = Zero
    BY <1>1, AddComm, Neutral
  <2>3. QED
    BY <1>1, <2>1, <2>2, AddComm
<1>4. RLeq(RSub(y, x), Zero) => RLeq(y, x)
  <2>1. RLeq(RSub(y, x), Zero) => RLeq(RAdd(x, RSub(y, x)), RAdd(x, Zero))
    BY <1>1, AddMono, ZeroOne
  <2>2. QED
    BY <1>2, <2>1, Neutral
<1>5. RLt(x, y) => RLt(Zero, RSub(y, x))
  BY <1>1, <1>4, Order, ZeroOne
<1>6. QED
  BY <1>1, <1>2, <1>3, <1>5

\* A factor that is not positive reverses the order.
LEMMA MulReverse ==
  ASSUME NEW a \in Rat, NEW x \in Rat, NEW y \in Rat, RLeq(a, Zero), RLeq(x, y)
  PROVE  RLeq(RMul(a, y), RMul(a, x))
<1>1. RNeg(a) \in Rat /\ RLeq(Zero, RNeg(a))
  <2>1. RNeg(a) \in Rat /\ RNeg(a)[1] = -a[1] /\ a[1] \in Int
    BY NegType, RatType DEF RNeg
  <2>2. QED
    BY <2>1, Order
<1>2. RLeq(RMul(RNeg(a), x), RMul(RNeg(a), y))
  BY <1>1, MulMono
<1>3. RMul(a, x) \in Rat /\ RMul(a, y) \in Rat
  BY MulType
<1>4. QED
  BY <1>2, <1>3, NegFacts

\* What a limit divided by a size allows, keeps to the limit.
LEMMA SlowEnough ==
  ASSUME NEW s \in Rat, NEW x \in Rat, NEW m \in Rat, RLeq(Zero, s), RLeq(Zero, m),
         RLt(Zero, RAbs(x)) => RLeq(s, RDiv(m, RAbs(x)))
  PROVE  RMul(s, x) \in Rat /\ RLeq(RAbs(RMul(s, x)), m)
<1>1. RMul(s, x) \in Rat /\ RAbs(x) \in Rat /\ RAbs(RMul(s, x)) = RMul(s, RAbs(x))
  BY MulType, AbsRat, AbsMul
<1>2. CASE RLt(Zero, RAbs(x))
  <2>1. RDiv(m, RAbs(x)) \in Rat /\ RAbs(x) # Zero
    BY <1>1, <1>2, DivPositive
  <2>2. RLeq(RMul(s, RAbs(x)), RMul(RDiv(m, RAbs(x)), RAbs(x)))
    BY <1>1, <1>2, <2>1, MulMono, AbsRat
  <2>3. QED
    BY <1>1, <2>1, <2>2, DivMul
<1>3. CASE ~RLt(Zero, RAbs(x))
  <2>1. x = Zero
    BY <1>3, AbsRat
  <2>2. RMul(s, x) = Zero /\ RAbs(Zero) = Zero
    BY <2>1, Neutral, AbsRat, ZeroOne, Order
  <2>3. QED
    BY <1>1, <2>2
<1>4. QED
  BY <1>2, <1>3

\* A factor of at most one keeps a number below a positive bound.
LEMMA StaysBelow ==
  ASSUME NEW s \in Rat, NEW x \in Rat, NEW e \in Rat, RLeq(Zero, s), RLeq(s, One),
         RLt(Zero, e), RLt(x, e)
  PROVE  RLt(RMul(s, x), e)
<1>1. RMul(s, x) \in Rat
  BY MulType
<1>2. CASE RLeq(Zero, x)
  <2>1. RLeq(RMul(s, x), RMul(One, x))
    BY <1>2, MulMono, ZeroOne
  <2>2. RLeq(RMul(s, x), x)
    BY <2>1, Neutral
  <2>3. ~RLeq(e, RMul(s, x))
    BY <1>1, <2>2, LeqTrans, Order
  <2>4. QED
    BY <1>1, <2>3, Order
<1>3. CASE ~RLeq(Zero, x)
  <2>1. RLeq(x, Zero)
    BY <1>3, Order, ZeroOne
  <2>2. RLeq(RMul(s, x), RMul(s, Zero))
    BY <2>1, MulMono, ZeroOne
  <2>3. RLeq(RMul(s, x), Zero)
    BY <2>2, Neutral
  <2>4. ~RLeq(e, RMul(s, x))
    BY <1>1, <2>3, LeqTrans, Order, ZeroOne
  <2>5. QED
    BY <1>1, <2>4, Order
<1>4. QED
  BY <1>2, <1>3

LEMMA SquareMono ==
  ASSUME NEW v \in Rat, NEW w \in Rat, RLeq(RAbs(v), RAbs(w))
  PROVE  RLeq(RMul(v, v), RMul(w, w))
<1>1. ASSUME NEW x \in Rat
      PROVE  RMul(x, x) = RMul(RAbs(x), RAbs(x))
  <2>1. x[1] \in Int /\ x[2] \in Int
    BY RatType
  <2>2. AbsInt(x[1]) * AbsInt(x[1]) = x[1] * x[1]
    BY <2>1 DEF AbsInt
  <2>3. RAbs(x)[1] = AbsInt(x[1]) /\ RAbs(x)[2] = x[2]
    BY DEF RAbs
  <2>4. QED
    BY <2>2, <2>3 DEF RMul
<1>2. RAbs(v) \in Rat /\ RAbs(w) \in Rat /\ RLeq(Zero, RAbs(v)) /\ RLeq(Zero, RAbs(w))
  BY AbsRat
<1>3. RLeq(RMul(RAbs(v), RAbs(v)), RMul(RAbs(v), RAbs(w)))
  BY <1>2, MulMono
<1>4. RLeq(RMul(RAbs(v), RAbs(w)), RMul(RAbs(w), RAbs(w)))
  BY <1>2, MulMono
<1>5. /\ RMul(RAbs(v), RAbs(v)) \in Rat /\ RMul(RAbs(v), RAbs(w)) \in Rat
      /\ RMul(RAbs(w), RAbs(w)) \in Rat
  BY <1>2, MulType
<1>6. RLeq(RMul(RAbs(v), RAbs(v)), RMul(RAbs(w), RAbs(w)))
  BY <1>3, <1>4, <1>5, LeqTrans
<1>7. QED
  BY <1>1, <1>6

\* The size of a quotient.
LEMMA AbsDiv ==
  ASSUME NEW m \in Rat, NEW p \in Rat, RLeq(Zero, m), p # Zero
  PROVE  RDiv(m, RAbs(p)) \in Rat /\ RAbs(RDiv(m, p)) = RDiv(m, RAbs(p))
<1> DEFINE z == RDiv(m, p)
<1>1. z \in Rat /\ RMul(z, p) = m
  BY DivType, DivMul
<1> HIDE DEF z
<1>2. RAbs(p) \in Rat /\ RLt(Zero, RAbs(p)) /\ RLeq(Zero, RAbs(p)) /\ RAbs(p) # Zero
  BY AbsRat, Order, ZeroOne
<1>3. RDiv(m, RAbs(p)) \in Rat /\ RMul(RDiv(m, RAbs(p)), RAbs(p)) = m
  BY <1>2, DivType, DivMul
<1>4. RMul(RAbs(z), RAbs(p)) = m
  <2>1. CASE RLeq(Zero, z)
    BY <1>1, <2>1, AbsMul, AbsRat
  <2>2. CASE ~RLeq(Zero, z)
    <3>1. z[1] < 0 /\ z[1] \in Int
      BY <1>1, <2>2, Order, RatType
    <3>2. RAbs(z) = RNeg(z) /\ RNeg(z) \in Rat /\ RLeq(Zero, RNeg(z))
      <4>1. RAbs(z) = RNeg(z)
        BY <3>1 DEF RAbs, RNeg, AbsInt
      <4>2. QED
        BY <1>1, <4>1, AbsRat
    <3>3. RMul(RNeg(z), RAbs(p)) = RAbs(RMul(RNeg(z), p))
      BY <3>2, AbsMul
    <3>4. RMul(RNeg(z), p) = RNeg(m)
      BY <1>1, NegFacts
    <3>5. RAbs(RNeg(m)) = RAbs(m)
      <4>1. m[1] \in Int
        BY RatType
      <4>2. QED
        BY <4>1 DEF RAbs, RNeg, AbsInt
    <3>6. QED
      BY <3>2, <3>3, <3>4, <3>5, AbsRat
  <2>3. QED
    BY <2>1, <2>2
<1>5. RAbs(z) = RDiv(m, RAbs(p))
  <2> DEFINE w == RDiv(m, RAbs(p))
             q == RDiv(One, RAbs(p))
  <2>1. w \in Rat /\ RMul(w, RAbs(p)) = m
    BY <1>3
  <2>2. q \in Rat /\ RMul(q, RAbs(p)) = One
    BY <1>2, DivType, DivMul, ZeroOne
  <2> HIDE DEF w, q
  <2>3. ASSUME NEW t \in Rat
        PROVE  RMul(RMul(t, RAbs(p)), q) = t
    <3>1. RMul(RMul(t, RAbs(p)), q) = RMul(t, RMul(RAbs(p), q))
      BY <1>2, <2>2, MulAssoc
    <3>2. RMul(RAbs(p), q) = One
      BY <1>2, <2>2, MulComm
    <3>3. QED
      BY <3>1, <3>2, Neutral
  <2>4. RAbs(z) \in Rat
    BY <1>1, AbsRat
  <2>5. QED
    BY <1>4, <2>1, <2>3, <2>4 DEF w
<1>6. QED
  BY <1>3, <1>5 DEF z

\* Between two points that are not negative, a line is not either.
LEMMA LineBetween ==
  ASSUME NEW fx \in Rat, NEW fy \in Rat, NEW tx \in Rat, NEW ty \in Rat, NEW x \in Rat,
         RLt(fx, tx), RLeq(Zero, fy), RLeq(Zero, ty), RLeq(fx, x), RLeq(x, tx),
         NEW a, a = RDiv(RSub(ty, fy), RSub(tx, fx))
  PROVE  /\ RAdd(RMul(a, x), RSub(fy, RMul(a, fx))) \in Rat
         /\ RLeq(Zero, RAdd(RMul(a, x), RSub(fy, RMul(a, fx))))
<1>1. RSub(tx, fx) \in Rat /\ RSub(tx, fx) # Zero /\ RSub(ty, fy) \in Rat
  <2>1. RSub(tx, fx) \in Rat /\ RLt(Zero, RSub(tx, fx)) /\ RSub(ty, fy) \in Rat
    BY Difference
  <2>2. QED
    BY <2>1, Order, ZeroOne
<1>2. a \in Rat /\ RMul(a, RSub(tx, fx)) = RSub(ty, fy)
  BY <1>1, DivType, DivMul
<1>3. RMul(a, x) \in Rat /\ RMul(a, fx) \in Rat /\ RNeg(RMul(a, fx)) \in Rat
      /\ RNeg(fx) \in Rat
  BY <1>2, MulType, NegType
<1> DEFINE l == RAdd(RMul(a, x), RSub(fy, RMul(a, fx)))
           p == RMul(a, RSub(x, fx))
<1>4. l \in Rat
  BY <1>3, SubType, AddType
<1>5. p = RAdd(RMul(a, x), RNeg(RMul(a, fx))) /\ p \in Rat /\ RSub(x, fx) \in Rat
  <2>1. RMul(a, RAdd(x, RNeg(fx))) = RAdd(RMul(a, x), RMul(a, RNeg(fx)))
    BY <1>2, <1>3, Distributes
  <2>2. RMul(a, RNeg(fx)) = RNeg(RMul(a, fx))
    BY <1>2, NegFacts
  <2>3. QED
    BY <1>2, <2>1, <2>2, SubType, MulType DEF RSub
<1>6. l = RAdd(fy, p)
  <2> DEFINE u == RMul(a, x)
             w == RNeg(RMul(a, fx))
  <2>1. u \in Rat /\ w \in Rat
    BY <1>3
  <2> HIDE DEF u, w
  <2>2. RAdd(u, RAdd(fy, w)) = RAdd(RAdd(u, fy), w)
    BY <2>1, AddAssoc
  <2>3. RAdd(u, fy) = RAdd(fy, u)
    BY <2>1, AddComm
  <2>4. RAdd(RAdd(fy, u), w) = RAdd(fy, RAdd(u, w))
    BY <2>1, AddAssoc
  <2>5. QED
    BY <1>5, <2>2, <2>3, <2>4 DEF u, w, RSub
<1> HIDE DEF l, p
<1>7. CASE RLeq(Zero, a)
  <2>1. RLeq(Zero, RSub(x, fx))
    BY Difference
  <2>2. RLeq(Zero, p)
    BY <1>2, <1>5, <1>7, <2>1, Products DEF p
  <2>3. RLeq(Zero, l)
    BY <1>5, <1>6, <2>2, Products
  <2>4. QED
    BY <1>4, <2>3 DEF l
<1>8. CASE ~RLeq(Zero, a)
  <2>1. RLeq(a, Zero)
    BY <1>2, <1>8, Order, ZeroOne
  <2>2. RLeq(RSub(x, fx), RSub(tx, fx))
    <3>1. RLeq(RAdd(RNeg(fx), x), RAdd(RNeg(fx), tx))
      BY <1>3, AddMono
    <3>2. QED
      BY <1>3, <3>1, AddComm DEF RSub
  <2>3. RLeq(RSub(ty, fy), p)
    BY <1>1, <1>2, <1>5, <2>1, <2>2, MulReverse DEF p
  <2>4. RLeq(RAdd(fy, RSub(ty, fy)), RAdd(fy, p))
    BY <1>1, <1>5, <2>3, AddMono
  <2>5. RLeq(ty, l)
    BY <1>6, <2>4, Difference
  <2>6. RLeq(Zero, l)
    BY <1>4, <2>5, LeqTrans, ZeroOne
  <2>7. QED
    BY <1>4, <2>6 DEF l
<1>9. QED
  BY <1>7, <1>8

-----------------------------------------------------------------------------
(* Minima of finite sets                                                    *)

Pick(s) == CHOOSE x \in s : TRUE

\* Induction over the subsets of a finite set, from one without its picked element.
LEMMA SubsetInduction ==
  ASSUME NEW S, IsFiniteSet(S), NEW T, {} \in T,
         \A s \in SUBSET S : (s # {} /\ s \ {Pick(s)} \in T) => s \in T
  PROVE  SUBSET S \subseteq T
<1> DEFINE N == {n \in Nat : \A s \in SUBSET S : Cardinality(s) = n => s \in T}
<1>1. \A s \in SUBSET S : IsFiniteSet(s) /\ Cardinality(s) \in Nat
  BY FS_Subset, FS_CardinalityType
<1>2. 0 \in N
  <2>1. \A s \in SUBSET S : Cardinality(s) = 0 => s = {}
    BY <1>1, FS_EmptySet
  <2>2. QED
    BY <2>1
<1>3. ASSUME NEW n \in Nat, n \in N
      PROVE  n + 1 \in N
  <2> SUFFICES ASSUME NEW s \in SUBSET S, Cardinality(s) = n + 1
               PROVE  s \in T
    OBVIOUS
  <2>1. s # {}
    BY FS_EmptySet
  <2>2. Pick(s) \in s
    BY <2>1 DEF Pick
  <2>3. Cardinality(s \ {Pick(s)}) = n
    BY <1>1, <2>2, FS_RemoveElement
  <2>4. s \ {Pick(s)} \in SUBSET S
    OBVIOUS
  <2>5. s \ {Pick(s)} \in T
    BY <1>3, <2>3, <2>4
  <2>6. QED
    BY <2>1, <2>5
<1> HIDE DEF N
<1>4. Nat \subseteq N
  BY <1>2, <1>3, SetInduction
<1>5. QED
  BY <1>1, <1>4 DEF N

LEMMA MinFacts ==
  ASSUME NEW S, IsFiniteSet(S), S # {}, S \subseteq Rat
  PROVE  RMin(S) \in S /\ \A y \in S : RLeq(RMin(S), y)
<1> DEFINE T == {s \in SUBSET S : s # {} => \E m \in s : \A y \in s : RLeq(m, y)}
<1>1. {} \in T
  OBVIOUS
<1>2. ASSUME NEW s \in SUBSET S, s # {}, s \ {Pick(s)} \in T
      PROVE  s \in T
  <2>1. Pick(s) \in s /\ Pick(s) \in Rat /\ RLeq(Pick(s), Pick(s))
    BY <1>2, Order DEF Pick
  <2>2. CASE s \ {Pick(s)} = {}
    BY <2>1, <2>2
  <2>3. CASE s \ {Pick(s)} # {}
    <3>1. PICK m \in s \ {Pick(s)} : \A y \in s \ {Pick(s)} : RLeq(m, y)
      BY <1>2, <2>3
    <3>2. m \in Rat
      OBVIOUS
    <3>3. CASE RLeq(m, Pick(s))
      BY <3>1, <3>3
    <3>4. CASE ~RLeq(m, Pick(s))
      <4>1. RLeq(Pick(s), m)
        BY <2>1, <3>2, <3>4, Order
      <4>2. \A y \in s : RLeq(Pick(s), y)
        BY <2>1, <3>1, <3>2, <4>1, LeqTrans
      <4>3. QED
        BY <2>1, <4>2
    <3>5. QED
      BY <3>3, <3>4
  <2>4. QED
    BY <2>2, <2>3
<1> HIDE DEF T
<1>3. S \in T
  BY <1>1, <1>2, SubsetInduction
<1>4. QED
  BY <1>3 DEF T, RMin
-----------------------------------------------------------------------------
(* Common denominators: the identities of fractions below are shown on      *)
(* numerators, after bringing every term over one power of the common       *)
(* denominator of its variables.                                            *)

\* Fractions with the same denominator.
LEMMA IsEqual ==
  ASSUME NEW x, NEW y, NEW n \in Int, NEW d \in Int \ {0}, Is(x, n, d), Is(y, n, d)
  PROVE  x = y
BY IsSame

\* Numerator and denominator can be multiplied by the same number.
LEMMA IsScale ==
  ASSUME NEW x, NEW n \in Int, NEW d \in Int \ {0}, NEW k \in Int \ {0}
  PROVE  Is(x, n * k, d * k) <=> Is(x, n, d)
<1> SUFFICES ASSUME x \in Rat
             PROVE  x[1] * (d * k) = (n * k) * x[2] <=> x[1] * d = n * x[2]
  BY DEF Is
<1>1. x[1] \in Int /\ x[2] \in Int
  BY RatType
<1>2. x[1] * (d * k) = (x[1] * d) * k /\ (n * k) * x[2] = (n * x[2]) * k
  BY <1>1
<1>3. x[1] * d \in Int /\ n * x[2] \in Int
  BY <1>1
<1>4. QED
  BY <1>2, <1>3, Cancel

\* Fractions over the same denominator are added by their numerators.
LEMMA IsPlus ==
  ASSUME NEW x, NEW y, NEW n \in Int, NEW m \in Int, NEW d \in Int \ {0}, Is(x, n, d), Is(y, m, d)
  PROVE  Is(RAdd(x, y), n + m, d)
<1>1. Is(RAdd(x, y), n * d + m * d, d * d)
  BY IsAdd
<1>2. n * d + m * d = (n + m) * d /\ n + m \in Int
  OBVIOUS
<1>3. QED
  BY <1>1, <1>2, IsScale

\* The same for the opposite.
LEMMA IsNeg ==
  ASSUME NEW x, NEW n \in Int, NEW d \in Int \ {0}, Is(x, n, d)
  PROVE  Is(RNeg(x), -n, d)
<1>1. x \in Rat /\ x[1] * d = n * x[2]
  BY DEF Is
<1>2. x[1] \in Int /\ x[2] \in Int /\ RNeg(x) \in Rat /\ RNeg(x)[1] = -x[1] /\ RNeg(x)[2] = x[2]
  BY <1>1, RatType, NegType DEF RNeg
<1>3. (-x[1]) * d = -(x[1] * d) /\ (-n) * x[2] = -(n * x[2])
  BY <1>2
<1>4. QED
  BY <1>1, <1>2, <1>3 DEF Is

\* The same for differences.
LEMMA IsMinus ==
  ASSUME NEW x, NEW y, NEW n \in Int, NEW m \in Int, NEW d \in Int \ {0}, Is(x, n, d), Is(y, m, d)
  PROVE  Is(RSub(x, y), n - m, d)
<1>1. Is(RNeg(y), -m, d) /\ -m \in Int
  BY IsNeg
<1>2. Is(RAdd(x, RNeg(y)), n + (-m), d)
  BY <1>1, IsPlus
<1>3. n + (-m) = n - m
  OBVIOUS
<1>4. QED
  BY <1>2, <1>3 DEF RSub

\* The same for the multiples of a fraction.
LEMMA IsTimes ==
  ASSUME NEW k \in Int, NEW x, NEW n \in Int, NEW d \in Int \ {0}, Is(x, n, d)
  PROVE  Is(RMul(R(k), x), k * n, d)
<1>1. Is(R(k), k, 1) /\ 1 \in Int \ {0}
  BY RType
<1>2. Is(RMul(R(k), x), k * n, 1 * d)
  BY <1>1, IsMul
<1>3. 1 * d = d
  OBVIOUS
<1>4. QED
  BY <1>2, <1>3

\* Finitely many numbers have a common denominator.
AllOver(f, m, d) == \E g \in [1 .. m -> Int] : \A i \in 1 .. m : Is(f[i], g[i], d)

\* Finitely many fractions have a common denominator: by induction over how many.
LEMMA CommonDenominator ==
  ASSUME NEW m \in Nat, NEW f \in [1 .. m -> Rat]
  PROVE  \E d \in Int \ {0} : AllOver(f, m, d)
<1> DEFINE S == {k \in Nat : k <= m => \E d \in Int \ {0} : AllOver(f, k, d)}
<1>1. 0 \in S
  <2> DEFINE g == [i \in 1 .. 0 |-> 0]
  <2>1. g \in [1 .. 0 -> Int] /\ \A i \in 1 .. 0 : Is(f[i], g[i], 1)
    OBVIOUS
  <2> HIDE DEF g
  <2>2. AllOver(f, 0, 1)
    BY <2>1 DEF AllOver
  <2>3. 1 \in Int \ {0}
    OBVIOUS
  <2>4. QED
    BY <2>2, <2>3
<1>2. ASSUME NEW k \in Nat, k \in S
      PROVE  k + 1 \in S
  <2> SUFFICES ASSUME k + 1 <= m
               PROVE  \E d \in Int \ {0} : AllOver(f, k + 1, d)
    OBVIOUS
  <2>1. PICK d \in Int \ {0} : AllOver(f, k, d)
    BY <1>2
  <2>2. PICK g \in [1 .. k -> Int] : \A i \in 1 .. k : Is(f[i], g[i], d)
    BY <2>1 DEF AllOver
  <2> DEFINE e == f[k + 1][2]
             n == f[k + 1][1]
  <2>3. f[k + 1] \in Rat
    OBVIOUS
  <2>4. n \in Int /\ e \in Int \ {0} /\ Is(f[k + 1], n, e)
    BY <2>3, RatType
  <2> HIDE DEF e, n
  <2> DEFINE h == [i \in 1 .. k + 1 |-> IF i = k + 1 THEN n * d ELSE g[i] * e]
  <2>5. h \in [1 .. k + 1 -> Int]
    BY <2>4
  <2>6. d * e \in Int \ {0}
    BY <2>4, NonZero
  <2>7. ASSUME NEW i \in 1 .. k + 1
        PROVE  Is(f[i], h[i], d * e)
    <3>1. CASE i = k + 1
      <4>1. Is(f[k + 1], n * d, e * d)
        BY <2>4, IsScale
      <4>2. e * d = d * e
        BY <2>4
      <4>3. QED
        BY <3>1, <4>1, <4>2
    <3>2. CASE i # k + 1
      <4>1. i \in 1 .. k /\ h[i] = g[i] * e /\ g[i] \in Int /\ Is(f[i], g[i], d)
        BY <2>2, <3>2
      <4>2. Is(f[i], g[i] * e, d * e)
        BY <2>4, <4>1, IsScale
      <4>3. QED
        BY <4>1, <4>2
    <3>3. QED
      BY <3>1, <3>2
  <2>8. AllOver(f, k + 1, d * e)
    BY <2>5, <2>7 DEF AllOver
  <2>9. QED
    BY <2>6, <2>8
<1>3. m \in S
  <2> HIDE DEF S
  <2>1. QED
    BY <1>1, <1>2, SetInduction
<1>4. QED
  BY <1>3

\* Numerators and denominators, as the identities of fractions below need them.
IsOver(x, n, d) == Is(x, n, d) /\ n \in Int /\ d \in Int \ {0}

\* The sum of two terms over d.
LEMMA OverPlus ==
  ASSUME NEW x, NEW y, NEW n, NEW m, NEW d, IsOver(x, n, d), IsOver(y, m, d)
  PROVE  IsOver(RAdd(x, y), n + m, d)
<1>1. n \in Int /\ m \in Int /\ d \in Int \ {0} /\ Is(x, n, d) /\ Is(y, m, d)
  BY DEF IsOver
<1>2. QED
  BY <1>1, IsPlus DEF IsOver

\* The difference of two terms over d.
LEMMA OverMinus ==
  ASSUME NEW x, NEW y, NEW n, NEW m, NEW d, IsOver(x, n, d), IsOver(y, m, d)
  PROVE  IsOver(RSub(x, y), n - m, d)
<1>1. n \in Int /\ m \in Int /\ d \in Int \ {0} /\ Is(x, n, d) /\ Is(y, m, d)
  BY DEF IsOver
<1>2. QED
  BY <1>1, IsMinus DEF IsOver

\* The opposite of a term over d.
LEMMA OverNeg ==
  ASSUME NEW x, NEW n, NEW d, IsOver(x, n, d)
  PROVE  IsOver(RNeg(x), -n, d)
<1>1. n \in Int /\ d \in Int \ {0} /\ Is(x, n, d)
  BY DEF IsOver
<1>2. QED
  BY <1>1, IsNeg DEF IsOver

\* A multiple of a term over d.
LEMMA OverTimes ==
  ASSUME NEW k \in Int, NEW x, NEW n, NEW d, IsOver(x, n, d), NEW m, m = k * n
  PROVE  IsOver(RMul(R(k), x), m, d)
<1>1. n \in Int /\ d \in Int \ {0} /\ Is(x, n, d)
  BY DEF IsOver
<1>2. QED
  BY <1>1, IsTimes DEF IsOver

\* The product of two terms.
LEMMA OverMul ==
  ASSUME NEW x, NEW y, NEW n, NEW m, NEW d, NEW e, IsOver(x, n, d), IsOver(y, m, e), NEW f, f = d * e
  PROVE  IsOver(RMul(x, y), n * m, f)
<1>1. n \in Int /\ m \in Int /\ d \in Int \ {0} /\ e \in Int \ {0} /\ Is(x, n, d) /\ Is(y, m, e)
  BY DEF IsOver
<1>2. Is(RMul(x, y), n * m, d * e) /\ d * e \in Int \ {0} /\ n * m \in Int
  BY <1>1, IsMul, NonZero
<1>3. QED
  BY <1>2 DEF IsOver

\* A term over a multiple of its denominator.
LEMMA OverPad ==
  ASSUME NEW x, NEW n, NEW d, IsOver(x, n, d), NEW k \in Int \ {0}, NEW f, f = d * k
  PROVE  IsOver(x, n * k, f)
<1>1. n \in Int /\ d \in Int \ {0} /\ Is(x, n, d)
  BY DEF IsOver
<1>2. Is(x, n * k, d * k) /\ d * k \in Int \ {0} /\ n * k \in Int
  BY <1>1, IsScale, NonZero
<1>3. QED
  BY <1>2 DEF IsOver

\* Terms over the same denominator with the same numerator are equal.
LEMMA OverEqual ==
  ASSUME NEW x, NEW y, NEW n, NEW m, NEW d, IsOver(x, n, d), IsOver(y, m, d), n = m
  PROVE  x = y
BY IsEqual DEF IsOver

\* An integer over any denominator.
LEMMA OverConstant ==
  ASSUME NEW n \in Int, NEW d \in Int \ {0}
  PROVE  IsOver(R(n), n * d, d)
<1>1. Is(R(n), n, 1) /\ 1 \in Int \ {0}
  BY RType
<1>2. Is(R(n), n * d, 1 * d)
  BY <1>1, IsScale
<1>3. 1 * d = d /\ n * d \in Int
  OBVIOUS
<1>4. QED
  BY <1>2, <1>3 DEF IsOver

\* Zero and one over any denominator.
LEMMA OverZeroOne ==
  ASSUME NEW d \in Int \ {0}
  PROVE  IsOver(Zero, 0, d) /\ IsOver(One, d, d)
<1>1. Is(Zero, 0, 1) /\ Is(One, 1, 1) /\ 1 \in Int \ {0}
  BY ZeroOne
<1>2. Is(Zero, 0 * d, 1 * d) /\ Is(One, 1 * d, 1 * d)
  BY <1>1, IsScale
<1>3. 1 * d = d /\ 0 * d = 0
  OBVIOUS
<1>4. QED
  BY <1>2, <1>3 DEF IsOver

-----------------------------------------------------------------------------
(* Cancellation                                                             *)

\* A factor that is not zero cancels.
LEMMA MulCancel ==
  ASSUME NEW x \in Rat, NEW y \in Rat, NEW z \in Rat, x # Zero, RMul(x, y) = RMul(x, z)
  PROVE  y = z
<1>1. /\ x[1] \in Int \ {0} /\ x[2] \in Int \ {0} /\ Is(x, x[1], x[2])
      /\ y[1] \in Int /\ y[2] \in Int \ {0} /\ Is(y, y[1], y[2])
      /\ z[1] \in Int /\ z[2] \in Int \ {0} /\ Is(z, z[1], z[2])
  BY RatType, IsZero
<1>2. Is(RMul(x, y), x[1] * y[1], x[2] * y[2]) /\ Is(RMul(x, z), x[1] * z[1], x[2] * z[2])
  BY MulType
<1> DEFINE w == RMul(x, y)
<1>3. w[1] \in Int /\ w[2] \in Int \ {0} /\ w[1] * (x[2] * y[2]) = (x[1] * y[1]) * w[2]
      /\ w[1] * (x[2] * z[2]) = (x[1] * z[1]) * w[2]
  BY <1>2, MulType, RatType DEF Is
<1> HIDE DEF w
<1>4. (y[1] * z[2]) * (x[1] * w[2]) = (z[1] * y[2]) * (x[1] * w[2])
  <2>1. (y[1] * z[2]) * (x[1] * w[2]) = ((x[1] * y[1]) * w[2]) * z[2]
    BY <1>1, <1>3
  <2>2. (w[1] * (x[2] * y[2])) * z[2] = (w[1] * (x[2] * z[2])) * y[2]
    BY <1>1, <1>3
  <2>3. (z[1] * y[2]) * (x[1] * w[2]) = ((x[1] * z[1]) * w[2]) * y[2]
    BY <1>1, <1>3
  <2>4. QED
    BY <1>3, <2>1, <2>2, <2>3
<1>5. x[1] \in Int \ {0} /\ w[2] \in Int \ {0} /\ y[1] * z[2] \in Int /\ z[1] * y[2] \in Int
  BY <1>1, <1>3
<1>6. x[1] * w[2] \in Int \ {0}
  BY <1>5, NonZero
<1>7. y[1] * z[2] = z[1] * y[2]
  BY <1>4, <1>5, <1>6, Cancel
<1>8. QED
  BY <1>7, SameValue

\* A product is zero only with one of its factors.
LEMMA NoZeroDivisors ==
  ASSUME NEW x \in Rat, NEW y \in Rat
  PROVE  RMul(x, y) = Zero <=> x = Zero \/ y = Zero
<1>1. CASE x = Zero
  BY <1>1, Neutral
<1>2. CASE x # Zero
  <2>1. RMul(x, Zero) = Zero /\ Zero \in Rat
    BY Neutral, ZeroOne
  <2>2. RMul(x, y) = Zero => y = Zero
    BY <1>2, <2>1, MulCancel
  <2>3. QED
    BY <1>2, <2>1, <2>2
<1>3. QED
  BY <1>1, <1>2

\* One before and one after a place.
LEMMA OneLess ==
  ASSUME NEW x \in Rat
  PROVE  /\ RSub(x, One) \in Rat /\ RAdd(x, One) \in Rat
         /\ RLt(RSub(x, One), x) /\ RLt(x, RAdd(x, One)) /\ RSub(x, x) = Zero
<1>1. x[1] \in Int /\ x[2] \in Nat \ {0} /\ Is(x, x[1], x[2]) /\ One \in Rat
  BY RatType, ZeroOne
<1>2. IsOver(One, x[2], x[2])
  BY <1>1, OverZeroOne
<1>3. Is(RSub(x, One), x[1] - x[2], x[2]) /\ Is(RAdd(x, One), x[1] + x[2], x[2])
  <2> DEFINE n == x[1]
             d == x[2]
  <2>1. n \in Int /\ d \in Int \ {0} /\ Is(x, n, d) /\ Is(One, d, d)
    BY <1>1, <1>2 DEF IsOver
  <2> HIDE DEF n, d
  <2>2. Is(RSub(x, One), n - d, d)
    BY <2>1, IsMinus
  <2>3. Is(RAdd(x, One), n + d, d)
    BY <2>1, IsPlus
  <2>4. QED
    BY <2>2, <2>3 DEF n, d
<1>4. Is(RSub(x, One), x[1] - x[2], x[2]) /\ Is(RAdd(x, One), x[1] + x[2], x[2])
      /\ x[1] - x[2] \in Int /\ x[1] + x[2] \in Int /\ RSub(x, One) \in Rat /\ RAdd(x, One) \in Rat
  BY <1>1, <1>3 DEF Is
<1>5. RLeq(x, RSub(x, One)) <=> x[1] * x[2] <= (x[1] - x[2]) * x[2]
  BY <1>1, <1>4, LeqIs
<1>6. RLeq(RAdd(x, One), x) <=> (x[1] + x[2]) * x[2] <= x[1] * x[2]
  BY <1>1, <1>4, LeqIs
<1>7. ~ x[1] * x[2] <= (x[1] - x[2]) * x[2] /\ ~ (x[1] + x[2]) * x[2] <= x[1] * x[2]
  <2>1. (x[1] - x[2]) * x[2] = x[1] * x[2] - x[2] * x[2] /\ (x[1] + x[2]) * x[2] = x[1] * x[2] + x[2] * x[2]
        /\ x[2] * x[2] > 0
    BY <1>1
  <2>2. QED
    BY <1>1, <2>1
<1>8. RSub(x, x) = Zero
  BY Neutral DEF RSub
<1>9. QED
  BY <1>1, <1>4, <1>5, <1>6, <1>7, <1>8, Order

\* Zero is its own opposite.
LEMMA NegZero ==
  RNeg(Zero) = Zero
BY ZeroOne, NegType, Neutral

\* Of a sum that is zero each term is the opposite of the other.
LEMMA SubZero ==
  ASSUME NEW x \in Rat, NEW y \in Rat, RAdd(x, y) = Zero
  PROVE  x = RNeg(y)
<1>1. RNeg(y) \in Rat /\ RAdd(y, RNeg(y)) = Zero
  BY NegType, Neutral
<1>2. RAdd(RAdd(x, y), RNeg(y)) = RAdd(x, RAdd(y, RNeg(y)))
  BY <1>1, AddAssoc
<1>3. QED
  BY <1>1, <1>2, Neutral

\* A factor has the sign of the product when the other one is positive.
LEMMA NonNegativeFactor ==
  ASSUME NEW x \in Rat, NEW y \in Rat, RLt(Zero, x), RLeq(Zero, RMul(x, y))
  PROVE  RLeq(Zero, y)
<1>1. CASE ~RLeq(Zero, y)
  <2>1. Zero \in Rat /\ RLeq(y, Zero) /\ RLeq(Zero, x) /\ x # Zero /\ y # Zero
    BY <1>1, ZeroOne, Order
  <2>2. RNeg(y) \in Rat /\ RLeq(Zero, RNeg(y))
    <3>1. RLeq(RNeg(Zero), RNeg(y))
      BY <2>1, NegFacts
    <3>2. QED
      BY <3>1, NegZero, NegType
  <2>3. RLeq(Zero, RMul(x, RNeg(y))) /\ RMul(x, RNeg(y)) = RNeg(RMul(x, y)) /\ RMul(x, y) \in Rat
    BY <2>1, <2>2, Products, NegFacts, MulType
  <2>4. RLeq(RMul(x, y), Zero)
    <3>1. RLeq(RNeg(Zero), RNeg(RMul(x, y)))
      BY <2>3, NegZero
    <3>2. QED
      BY <2>1, <2>3, <3>1, NegFacts
  <2>5. RMul(x, y) = Zero
    BY <2>1, <2>3, <2>4, Order
  <2>6. QED
    BY <2>1, <2>5, NoZeroDivisors
<1>2. QED
  BY <1>1

\* Squares are not negative.
LEMMA SquareType ==
  ASSUME NEW x \in Rat
  PROVE  RMul(x, x) \in Rat /\ RLeq(Zero, RMul(x, x)) /\ (x # Zero => RLt(Zero, RMul(x, x)))
<1>1. x[1] \in Int /\ x[2] \in Nat \ {0} /\ RMul(x, x) \in Rat /\ Is(RMul(x, x), x[1] * x[1], x[2] * x[2])
  BY RatType, MulType
<1>2. x[1] * x[1] \in Nat /\ x[2] * x[2] \in Nat \ {0} /\ Is(Zero, 0, 1) /\ 1 \in Nat \ {0} /\ Zero \in Rat
  BY <1>1, ZeroOne
<1>3. RLeq(Zero, RMul(x, x)) <=> 0 * (x[2] * x[2]) <= (x[1] * x[1]) * 1
  BY <1>1, <1>2, LeqIs
<1>4. RLeq(Zero, RMul(x, x))
  BY <1>2, <1>3
<1>5. x # Zero => RMul(x, x) # Zero
  BY NoZeroDivisors
<1>6. QED
  BY <1>1, <1>2, <1>4, <1>5, Order

\* Only zero is as small as zero.
LEMMA AbsZero ==
  ASSUME NEW x \in Rat
  PROVE  RLeq(RAbs(Zero), RAbs(x)) /\ (RLeq(RAbs(x), RAbs(Zero)) => x = Zero)
<1>1. x[1] \in Int /\ x[2] \in Int \ {0} /\ x[2] > 0
  BY RatType
<1>2. Zero = <<0, 1>>
  BY DEF Zero, R
<1>3. RAbs(Zero)[1] = 0 /\ RAbs(Zero)[2] = 1
  BY <1>2 DEF RAbs, AbsInt
<1>4. RAbs(x)[2] = x[2] /\ RAbs(x)[1] \in Int /\ RAbs(x)[1] >= 0 /\ (RAbs(x)[1] = 0 => x[1] = 0)
  BY <1>1 DEF RAbs, AbsInt
<1>5. RLeq(RAbs(Zero), RAbs(x))
  BY <1>1, <1>3, <1>4 DEF RLeq
<1>6. ASSUME RLeq(RAbs(x), RAbs(Zero))
      PROVE  x = Zero
  <2>1. RAbs(x)[1] * 1 <= 0 * x[2]
    BY <1>3, <1>4, <1>6 DEF RLeq
  <2>2. x[1] = 0
    BY <1>1, <1>4, <2>1
  <2>3. QED
    BY <2>2, IsZero
<1>7. QED
  BY <1>5, <1>6

\* What times y is x is the ratio of x and y.
LEMMA IsRatio ==
  ASSUME NEW x \in Rat, NEW y \in Rat, y # Zero, NEW z \in Rat, RMul(z, y) = x
  PROVE  z = RDiv(x, y)
<1>1. RDiv(x, y) \in Rat /\ RMul(RDiv(x, y), y) = x
  BY DivType, DivMul
<1>2. RMul(y, z) = RMul(y, RDiv(x, y))
  BY <1>1, MulComm
<1>3. QED
  BY <1>1, <1>2, MulCancel

\* A product is zero with its other factor.
LEMMA ProductIsZero ==
  ASSUME NEW x \in Rat, NEW y \in Rat, x # Zero
  PROVE  RMul(x, y) = Zero <=> y = Zero
<1>1. Zero \in Rat /\ RMul(x, Zero) = Zero
  BY ZeroOne, Neutral
<1>2. QED
  BY <1>1, MulCancel

\* The remainder of a step without a shift.
LEMMA SumMinus ==
  ASSUME NEW x \in Rat, NEW s \in Rat
  PROVE  (x (+) s) (-) s = x
<1> DEFINE F == [i \in 1 .. 2 |-> IF i = 1 THEN x ELSE s]
<1>1. F \in [1 .. 2 -> Rat] /\ F[1] = x /\ F[2] = s
  OBVIOUS
<1> HIDE DEF F
<1>2. PICK D \in Int \ {0}, G \in [1 .. 2 -> Int] : \A i \in 1 .. 2 : Is(F[i], G[i], D)
  BY <1>1, CommonDenominator DEF AllOver
<1> DEFINE n1 == G[1]
           n2 == G[2]
<1>3. n1 \in Int /\ n2 \in Int
  BY <1>2
<1>a. IsOver(x, n1, D)
  BY <1>1, <1>2 DEF IsOver
<1>b. IsOver(s, n2, D)
  BY <1>1, <1>2 DEF IsOver
<1> HIDE DEF n1, n2
<1>4. IsOver(RAdd(x, s), (n1 + n2), D)
  BY <1>a, <1>b, OverPlus
<1>5. IsOver(RSub(RAdd(x, s), s), ((n1 + n2) - n2), D)
  BY <1>4, <1>b, OverMinus
<1>6. ((n1 + n2) - n2) = n1
  BY <1>3
<1>7. RSub(RAdd(x, s), s) = x
  BY <1>5, <1>a, <1>6, OverEqual
<1>8. QED
  BY <1>7 DEF (+), (-), (.)

\* A term cancels.
LEMMA AddCancel ==
  ASSUME NEW x \in Rat, NEW y \in Rat, NEW s \in Rat, RAdd(x, s) = RAdd(y, s)
  PROVE  x = y
<1>1. RSub(RAdd(x, s), s) = x /\ RSub(RAdd(y, s), s) = y
  BY SumMinus DEF (+), (-)
<1>2. QED
  BY <1>1

\* Of two equal products the one with the larger factor has the smaller other factor.
LEMMA LargerFactor ==
  ASSUME NEW x \in Rat, NEW y \in Rat, NEW a \in Rat, NEW b \in Rat,
         RMul(x, a) = RMul(y, b), RLt(Zero, y), RLeq(y, x), RLeq(Zero, b)
  PROVE  RLeq(a, b)
<1>1. SUFFICES ASSUME ~RLeq(a, b)
               PROVE  FALSE
  OBVIOUS
<1>2. RLeq(b, a) /\ a # b
  BY <1>1, Order
<1>3. Zero \in Rat /\ RLeq(Zero, y) /\ y # Zero
  BY ZeroOne, Order
<1>4. RLeq(Zero, x) /\ x # Zero
  BY <1>3, LeqTrans, Order
<1>5. RMul(x, a) \in Rat /\ RMul(x, b) \in Rat
  BY MulType
<1>6. RLeq(RMul(y, b), RMul(x, b))
  BY MulMono
<1>7. RLeq(RMul(x, b), RMul(x, a))
  BY <1>2, <1>4, MulMono
<1>8. RMul(x, a) = RMul(x, b)
  BY <1>5, <1>6, <1>7, Order
<1>9. QED
  BY <1>2, <1>4, <1>8, MulCancel

\* Products of positive numbers grow with their factors.
LEMMA ProductGrows ==
  ASSUME NEW a \in Rat, NEW b \in Rat, NEW c \in Rat, NEW d \in Rat,
         RLt(Zero, a), RLeq(a, b), RLt(Zero, c), RLeq(c, d)
  PROVE  /\ RMul(a, c) \in Rat /\ RMul(b, d) \in Rat
         /\ RLt(Zero, RMul(a, c)) /\ RLeq(RMul(a, c), RMul(b, d))
<1>1. Zero \in Rat /\ RLeq(Zero, a) /\ a # Zero /\ RLeq(Zero, c) /\ c # Zero
  BY ZeroOne, Order
<1>2. RMul(a, c) \in Rat /\ RMul(b, d) \in Rat /\ RMul(b, c) \in Rat
  BY MulType
<1>3. RLeq(Zero, b)
  BY <1>1, LeqTrans
<1>4. RLeq(RMul(a, c), RMul(b, c)) /\ RLeq(RMul(b, c), RMul(b, d))
  BY <1>1, <1>3, MulMono
<1>5. RLeq(RMul(a, c), RMul(b, d))
  BY <1>2, <1>4, LeqTrans
<1>6. RMul(a, Zero) = Zero /\ RLeq(RMul(a, Zero), RMul(a, c)) /\ RMul(a, c) # Zero
  BY <1>1, Neutral, MulMono, NoZeroDivisors
<1>7. RLt(Zero, RMul(a, c))
  BY <1>1, <1>2, <1>6, Order
<1>8. QED
  BY <1>2, <1>5, <1>7

-----------------------------------------------------------------------------
(* Identities of the zeros of a quadratic                                   *)

\* The larger zero is not zero, and the other one is what the product of both makes it.
LEMMA ZeroSum ==
  ASSUME NEW a \in Rat, NEW b \in Rat, NEW l \in Rat, NEW s \in Rat
  PROVE
         l (.) a (.) (a (.) (s (+) l) (+) R(2) (.) b) = a (.) (s (.) (l (.) a)) (+) (a (.)
                  l (.) (a (.) l) (+) R(2) (.) (b (.) (a (.) l)))
<1> DEFINE F == [i \in 1 .. 4 |-> IF i = 1 THEN a ELSE IF i = 2 THEN b ELSE IF i = 3 THEN l ELSE s]
<1>1. F \in [1 .. 4 -> Rat] /\ F[1] = a /\ F[2] = b /\ F[3] = l /\ F[4] = s
  OBVIOUS
<1> HIDE DEF F
<1>2. PICK D \in Int \ {0}, G \in [1 .. 4 -> Int] : \A i \in 1 .. 4 : Is(F[i], G[i], D)
  BY <1>1, CommonDenominator DEF AllOver
<1> DEFINE n1 == G[1]
           n2 == G[2]
           n3 == G[3]
           n4 == G[4]
           D2 == D * D
           D3 == D2 * D
           D4 == D3 * D
<1>3. n1 \in Int /\ n2 \in Int /\ n3 \in Int /\ n4 \in Int
  BY <1>2
<1>a. IsOver(a, n1, D)
  BY <1>1, <1>2 DEF IsOver
<1>b. IsOver(b, n2, D)
  BY <1>1, <1>2 DEF IsOver
<1>c. IsOver(l, n3, D)
  BY <1>1, <1>2 DEF IsOver
<1>d. IsOver(s, n4, D)
  BY <1>1, <1>2 DEF IsOver
<1>4. D2 \in Int \ {0} /\ D3 \in Int \ {0} /\ D4 \in Int \ {0}
  BY NonZero
<1>5. D2 = D * D /\ D3 = D * D2 /\ D4 = D * D3 /\ D3 = D2 * D /\ D4 = D2 * D2 /\ D4 = D3 * D
  OBVIOUS
<1> HIDE DEF n1, n2, n3, n4, D2, D3, D4
<1>6. IsOver(RAdd(s, l), (n4 + n3), D)
  BY <1>d, <1>c, OverPlus
<1>7. IsOver(RMul(a, RAdd(s, l)), (n1 * (n4 + n3)), D2)
  BY <1>a, <1>6, <1>5, OverMul
<1>8. IsOver(RMul(R(2), b), (2 * n2), D)
  BY <1>b, OverTimes
<1>9. IsOver(RMul(R(2), b), ((2 * n2) * D), D2)
  BY <1>8, <1>4, <1>5, OverPad
<1>10. IsOver(RAdd(RMul(a, RAdd(s, l)), RMul(R(2), b)), ((n1 * (n4 + n3)) + ((2 * n2) * D)), D2)
  BY <1>7, <1>9, OverPlus
<1>11. IsOver(RMul(l, a), (n3 * n1), D2)
  BY <1>c, <1>a, <1>5, OverMul
<1>12. IsOver(RMul(RMul(l, a), RAdd(RMul(a, RAdd(s, l)), RMul(R(2), b))), ((n3 * n1) * ((n1 * (n4 +
         n3)) + ((2 * n2) * D))), D4)
  BY <1>11, <1>10, <1>5, OverMul
<1>13. IsOver(RMul(s, RMul(l, a)), (n4 * (n3 * n1)), D3)
  BY <1>d, <1>11, <1>5, OverMul
<1>14. IsOver(RMul(a, RMul(s, RMul(l, a))), (n1 * (n4 * (n3 * n1))), D4)
  BY <1>a, <1>13, <1>5, OverMul
<1>15. IsOver(RMul(a, l), (n1 * n3), D2)
  BY <1>a, <1>c, <1>5, OverMul
<1>16. IsOver(RMul(RMul(a, l), RMul(a, l)), ((n1 * n3) * (n1 * n3)), D4)
  BY <1>15, <1>5, OverMul
<1>17. IsOver(RMul(b, RMul(a, l)), (n2 * (n1 * n3)), D3)
  BY <1>b, <1>15, <1>5, OverMul
<1>18. IsOver(RMul(R(2), RMul(b, RMul(a, l))), (2 * (n2 * (n1 * n3))), D3)
  BY <1>17, OverTimes
<1>19. IsOver(RMul(R(2), RMul(b, RMul(a, l))), ((2 * (n2 * (n1 * n3))) * D), D4)
  BY <1>18, <1>4, <1>5, OverPad
<1>20. IsOver(RAdd(RMul(RMul(a, l), RMul(a, l)), RMul(R(2), RMul(b, RMul(a, l)))), (((n1 * n3) *
         (n1 * n3)) + ((2 * (n2 * (n1 * n3))) * D)), D4)
  BY <1>16, <1>19, OverPlus
<1>21. IsOver(RAdd(RMul(a, RMul(s, RMul(l, a))), RAdd(RMul(RMul(a, l), RMul(a, l)), RMul(R(2),
         RMul(b, RMul(a, l))))), ((n1 * (n4 * (n3 * n1))) + (((n1 * n3) * (n1 * n3)) + ((2 *
         (n2 * (n1 * n3))) * D))), D4)
  BY <1>14, <1>20, OverPlus
<1>22. ((n3 * n1) * ((n1 * (n4 + n3)) + ((2 * n2) * D))) = ((n1 * (n4 * (n3 * n1))) + (((n1 *
         n3) * (n1 * n3)) + ((2 * (n2 * (n1 * n3))) * D)))
  BY <1>3 DEF D2, D3, D4
<1>23. RMul(RMul(l, a), RAdd(RMul(a, RAdd(s, l)), RMul(R(2), b))) = RAdd(RMul(a, RMul(s, RMul(l,
         a))), RAdd(RMul(RMul(a, l), RMul(a, l)), RMul(R(2), RMul(b, RMul(a, l)))))
  BY <1>12, <1>21, <1>22, OverEqual
<1>24. QED
  BY <1>23 DEF (+), (-), (.)

\* Both w = -b - d and w = -b + d are zeros of w^2 + 2 b w - (d^2 - b^2).
LEMMA SumWithRoot ==
  ASSUME NEW b \in Rat, NEW d \in Rat
  PROVE
         (RNeg(d) (-) b) (.) (RNeg(d) (-) b) (+) R(2) (.) (b (.) (RNeg(d) (-) b)) = d (.)
                  d (-) b (.) b
         /\ (d (-) b) (.) (d (-) b) (+) R(2) (.) (b (.) (d (-) b)) = d (.) d (-) b (.) b
<1> DEFINE F == [i \in 1 .. 2 |-> IF i = 1 THEN b ELSE d]
<1>1. F \in [1 .. 2 -> Rat] /\ F[1] = b /\ F[2] = d
  OBVIOUS
<1> HIDE DEF F
<1>2. PICK D \in Int \ {0}, G \in [1 .. 2 -> Int] : \A i \in 1 .. 2 : Is(F[i], G[i], D)
  BY <1>1, CommonDenominator DEF AllOver
<1> DEFINE n1 == G[1]
           n2 == G[2]
           D2 == D * D
<1>3. n1 \in Int /\ n2 \in Int
  BY <1>2
<1>a. IsOver(b, n1, D)
  BY <1>1, <1>2 DEF IsOver
<1>b. IsOver(d, n2, D)
  BY <1>1, <1>2 DEF IsOver
<1>4. D2 \in Int \ {0}
  BY NonZero
<1>5. D2 = D * D
  OBVIOUS
<1> HIDE DEF n1, n2, D2
<1>6. IsOver(RNeg(d), (-n2), D)
  BY <1>b, OverNeg
<1>7. IsOver(RSub(RNeg(d), b), ((-n2) - n1), D)
  BY <1>6, <1>a, OverMinus
<1>8. IsOver(RMul(RSub(RNeg(d), b), RSub(RNeg(d), b)), (((-n2) - n1) * ((-n2) - n1)), D2)
  BY <1>7, <1>5, OverMul
<1>9. IsOver(RMul(b, RSub(RNeg(d), b)), (n1 * ((-n2) - n1)), D2)
  BY <1>a, <1>7, <1>5, OverMul
<1>10. IsOver(RMul(R(2), RMul(b, RSub(RNeg(d), b))), (2 * (n1 * ((-n2) - n1))), D2)
  BY <1>9, OverTimes
<1>11. IsOver(RAdd(RMul(RSub(RNeg(d), b), RSub(RNeg(d), b)), RMul(R(2), RMul(b, RSub(RNeg(d), b)))),
         ((((-n2) - n1) * ((-n2) - n1)) + (2 * (n1 * ((-n2) - n1)))), D2)
  BY <1>8, <1>10, OverPlus
<1>12. IsOver(RMul(d, d), (n2 * n2), D2)
  BY <1>b, <1>5, OverMul
<1>13. IsOver(RMul(b, b), (n1 * n1), D2)
  BY <1>a, <1>5, OverMul
<1>14. IsOver(RSub(RMul(d, d), RMul(b, b)), ((n2 * n2) - (n1 * n1)), D2)
  BY <1>12, <1>13, OverMinus
<1>15. ((((-n2) - n1) * ((-n2) - n1)) + (2 * (n1 * ((-n2) - n1)))) = ((n2 * n2) - (n1 * n1))
  BY <1>3 DEF D2
<1>16. RAdd(RMul(RSub(RNeg(d), b), RSub(RNeg(d), b)), RMul(R(2), RMul(b, RSub(RNeg(d), b)))) =
         RSub(RMul(d, d), RMul(b, b))
  BY <1>11, <1>14, <1>15, OverEqual
<1>17. IsOver(RSub(d, b), (n2 - n1), D)
  BY <1>b, <1>a, OverMinus
<1>18. IsOver(RMul(RSub(d, b), RSub(d, b)), ((n2 - n1) * (n2 - n1)), D2)
  BY <1>17, <1>5, OverMul
<1>19. IsOver(RMul(b, RSub(d, b)), (n1 * (n2 - n1)), D2)
  BY <1>a, <1>17, <1>5, OverMul
<1>20. IsOver(RMul(R(2), RMul(b, RSub(d, b))), (2 * (n1 * (n2 - n1))), D2)
  BY <1>19, OverTimes
<1>21. IsOver(RAdd(RMul(RSub(d, b), RSub(d, b)), RMul(R(2), RMul(b, RSub(d, b)))), (((n2 - n1) *
         (n2 - n1)) + (2 * (n1 * (n2 - n1)))), D2)
  BY <1>18, <1>20, OverPlus
<1>22. (((n2 - n1) * (n2 - n1)) + (2 * (n1 * (n2 - n1)))) = ((n2 * n2) - (n1 * n1))
  BY <1>3 DEF D2
<1>23. RAdd(RMul(RSub(d, b), RSub(d, b)), RMul(R(2), RMul(b, RSub(d, b)))) = RSub(RMul(d, d),
         RMul(b, b))
  BY <1>21, <1>14, <1>22, OverEqual
<1>24. QED
  BY <1>16, <1>23 DEF (+), (-), (.)

\* The second zero of a sum.
LEMMA Cancels ==
  ASSUME NEW x \in Rat, NEW y \in Rat
  PROVE  x (+) (y (-) x (-) y) = Zero
<1> DEFINE F == [i \in 1 .. 2 |-> IF i = 1 THEN x ELSE y]
<1>1. F \in [1 .. 2 -> Rat] /\ F[1] = x /\ F[2] = y
  OBVIOUS
<1> HIDE DEF F
<1>2. PICK D \in Int \ {0}, G \in [1 .. 2 -> Int] : \A i \in 1 .. 2 : Is(F[i], G[i], D)
  BY <1>1, CommonDenominator DEF AllOver
<1> DEFINE n1 == G[1]
           n2 == G[2]
<1>3. n1 \in Int /\ n2 \in Int
  BY <1>2
<1>a. IsOver(x, n1, D)
  BY <1>1, <1>2 DEF IsOver
<1>b. IsOver(y, n2, D)
  BY <1>1, <1>2 DEF IsOver
<1> HIDE DEF n1, n2
<1>4. IsOver(RSub(y, x), (n2 - n1), D)
  BY <1>b, <1>a, OverMinus
<1>5. IsOver(RSub(RSub(y, x), y), ((n2 - n1) - n2), D)
  BY <1>4, <1>b, OverMinus
<1>6. IsOver(RAdd(x, RSub(RSub(y, x), y)), (n1 + ((n2 - n1) - n2)), D)
  BY <1>a, <1>5, OverPlus
<1>7. IsOver(Zero, (0), D)
  BY OverZeroOne
<1>8. (n1 + ((n2 - n1) - n2)) = (0)
  BY <1>3
<1>9. RAdd(x, RSub(RSub(y, x), y)) = Zero
  BY <1>6, <1>7, <1>8, OverEqual
<1>10. QED
  BY <1>9 DEF (+), (-), (.)

\* The zero with the sign of -b is the larger one.
LEMMA SquareGap ==
  ASSUME NEW b \in Rat, NEW d \in Rat
  PROVE
         (RNeg(d) (-) b) (.) (RNeg(d) (-) b) (-) (RNeg(R(2) (.) b) (-) (RNeg(d) (-) b)) (.)
                  (RNeg(R(2) (.) b) (-) (RNeg(d) (-) b)) = R(4) (.) (b (.) d)
         /\ (d (-) b) (.) (d (-) b) (-) (RNeg(R(2) (.) b) (-) (d (-) b)) (.) (RNeg(R(2) (.)
                  b) (-) (d (-) b)) = R(4) (.) (RNeg(b) (.) d)
<1> DEFINE F == [i \in 1 .. 2 |-> IF i = 1 THEN b ELSE d]
<1>1. F \in [1 .. 2 -> Rat] /\ F[1] = b /\ F[2] = d
  OBVIOUS
<1> HIDE DEF F
<1>2. PICK D \in Int \ {0}, G \in [1 .. 2 -> Int] : \A i \in 1 .. 2 : Is(F[i], G[i], D)
  BY <1>1, CommonDenominator DEF AllOver
<1> DEFINE n1 == G[1]
           n2 == G[2]
           D2 == D * D
<1>3. n1 \in Int /\ n2 \in Int
  BY <1>2
<1>a. IsOver(b, n1, D)
  BY <1>1, <1>2 DEF IsOver
<1>b. IsOver(d, n2, D)
  BY <1>1, <1>2 DEF IsOver
<1>4. D2 \in Int \ {0}
  BY NonZero
<1>5. D2 = D * D
  OBVIOUS
<1> HIDE DEF n1, n2, D2
<1>6. IsOver(RNeg(d), (-n2), D)
  BY <1>b, OverNeg
<1>7. IsOver(RSub(RNeg(d), b), ((-n2) - n1), D)
  BY <1>6, <1>a, OverMinus
<1>8. IsOver(RMul(RSub(RNeg(d), b), RSub(RNeg(d), b)), (((-n2) - n1) * ((-n2) - n1)), D2)
  BY <1>7, <1>5, OverMul
<1>9. IsOver(RMul(R(2), b), (2 * n1), D)
  BY <1>a, OverTimes
<1>10. IsOver(RNeg(RMul(R(2), b)), (-(2 * n1)), D)
  BY <1>9, OverNeg
<1>11. IsOver(RSub(RNeg(RMul(R(2), b)), RSub(RNeg(d), b)), ((-(2 * n1)) - ((-n2) - n1)), D)
  BY <1>10, <1>7, OverMinus
<1>12. IsOver(RMul(RSub(RNeg(RMul(R(2), b)), RSub(RNeg(d), b)), RSub(RNeg(RMul(R(2), b)),
         RSub(RNeg(d), b))), (((-(2 * n1)) - ((-n2) - n1)) * ((-(2 * n1)) - ((-n2) - n1))), D2)
  BY <1>11, <1>5, OverMul
<1>13. IsOver(RSub(RMul(RSub(RNeg(d), b), RSub(RNeg(d), b)), RMul(RSub(RNeg(RMul(R(2), b)),
         RSub(RNeg(d), b)), RSub(RNeg(RMul(R(2), b)), RSub(RNeg(d), b)))), ((((-n2) - n1) *
         ((-n2) - n1)) - (((-(2 * n1)) - ((-n2) - n1)) * ((-(2 * n1)) - ((-n2) - n1)))), D2)
  BY <1>8, <1>12, OverMinus
<1>14. IsOver(RMul(b, d), (n1 * n2), D2)
  BY <1>a, <1>b, <1>5, OverMul
<1>15. IsOver(RMul(R(4), RMul(b, d)), (4 * (n1 * n2)), D2)
  BY <1>14, OverTimes
<1>16. ((((-n2) - n1) * ((-n2) - n1)) - (((-(2 * n1)) - ((-n2) - n1)) * ((-(2 * n1)) - ((-n2) -
         n1)))) = (4 * (n1 * n2))
  BY <1>3 DEF D2
<1>17. RSub(RMul(RSub(RNeg(d), b), RSub(RNeg(d), b)), RMul(RSub(RNeg(RMul(R(2), b)),
         RSub(RNeg(d), b)), RSub(RNeg(RMul(R(2), b)), RSub(RNeg(d), b)))) = RMul(R(4), RMul(b, d))
  BY <1>13, <1>15, <1>16, OverEqual
<1>18. IsOver(RSub(d, b), (n2 - n1), D)
  BY <1>b, <1>a, OverMinus
<1>19. IsOver(RMul(RSub(d, b), RSub(d, b)), ((n2 - n1) * (n2 - n1)), D2)
  BY <1>18, <1>5, OverMul
<1>20. IsOver(RSub(RNeg(RMul(R(2), b)), RSub(d, b)), ((-(2 * n1)) - (n2 - n1)), D)
  BY <1>10, <1>18, OverMinus
<1>21. IsOver(RMul(RSub(RNeg(RMul(R(2), b)), RSub(d, b)), RSub(RNeg(RMul(R(2), b)), RSub(d, b))),
         (((-(2 * n1)) - (n2 - n1)) * ((-(2 * n1)) - (n2 - n1))), D2)
  BY <1>20, <1>5, OverMul
<1>22. IsOver(RSub(RMul(RSub(d, b), RSub(d, b)), RMul(RSub(RNeg(RMul(R(2), b)), RSub(d, b)),
         RSub(RNeg(RMul(R(2), b)), RSub(d, b)))), (((n2 - n1) * (n2 - n1)) - (((-(2 * n1)) -
         (n2 - n1)) * ((-(2 * n1)) - (n2 - n1)))), D2)
  BY <1>19, <1>21, OverMinus
<1>23. IsOver(RNeg(b), (-n1), D)
  BY <1>a, OverNeg
<1>24. IsOver(RMul(RNeg(b), d), ((-n1) * n2), D2)
  BY <1>23, <1>b, <1>5, OverMul
<1>25. IsOver(RMul(R(4), RMul(RNeg(b), d)), (4 * ((-n1) * n2)), D2)
  BY <1>24, OverTimes
<1>26. (((n2 - n1) * (n2 - n1)) - (((-(2 * n1)) - (n2 - n1)) * ((-(2 * n1)) - (n2 - n1)))) =
         (4 * ((-n1) * n2))
  BY <1>3 DEF D2
<1>27. RSub(RMul(RSub(d, b), RSub(d, b)), RMul(RSub(RNeg(RMul(R(2), b)), RSub(d, b)),
         RSub(RNeg(RMul(R(2), b)), RSub(d, b)))) = RMul(R(4), RMul(RNeg(b), d))
  BY <1>22, <1>25, <1>26, OverEqual
<1>28. QED
  BY <1>17, <1>27 DEF (+), (-), (.)

\* The scaled difference of two squares.
LEMMA SquareScaled ==
  ASSUME NEW a \in Rat, NEW l \in Rat, NEW s \in Rat
  PROVE  a (.) a (.) (l (.) l (-) s (.) s) = a (.) l (.) (a (.) l) (-) a (.) s (.) (a (.) s)
         /\ a (.) (s (+) l) = a (.) s (+) a (.) l
<1> DEFINE F == [i \in 1 .. 3 |-> IF i = 1 THEN a ELSE IF i = 2 THEN l ELSE s]
<1>1. F \in [1 .. 3 -> Rat] /\ F[1] = a /\ F[2] = l /\ F[3] = s
  OBVIOUS
<1> HIDE DEF F
<1>2. PICK D \in Int \ {0}, G \in [1 .. 3 -> Int] : \A i \in 1 .. 3 : Is(F[i], G[i], D)
  BY <1>1, CommonDenominator DEF AllOver
<1> DEFINE n1 == G[1]
           n2 == G[2]
           n3 == G[3]
           D2 == D * D
           D3 == D2 * D
           D4 == D3 * D
<1>3. n1 \in Int /\ n2 \in Int /\ n3 \in Int
  BY <1>2
<1>a. IsOver(a, n1, D)
  BY <1>1, <1>2 DEF IsOver
<1>b. IsOver(l, n2, D)
  BY <1>1, <1>2 DEF IsOver
<1>c. IsOver(s, n3, D)
  BY <1>1, <1>2 DEF IsOver
<1>4. D2 \in Int \ {0} /\ D3 \in Int \ {0} /\ D4 \in Int \ {0}
  BY NonZero
<1>5. D2 = D * D /\ D3 = D * D2 /\ D4 = D * D3 /\ D3 = D2 * D /\ D4 = D2 * D2 /\ D4 = D3 * D
  OBVIOUS
<1> HIDE DEF n1, n2, n3, D2, D3, D4
<1>6. IsOver(RMul(l, l), (n2 * n2), D2)
  BY <1>b, <1>5, OverMul
<1>7. IsOver(RMul(s, s), (n3 * n3), D2)
  BY <1>c, <1>5, OverMul
<1>8. IsOver(RSub(RMul(l, l), RMul(s, s)), ((n2 * n2) - (n3 * n3)), D2)
  BY <1>6, <1>7, OverMinus
<1>9. IsOver(RMul(a, a), (n1 * n1), D2)
  BY <1>a, <1>5, OverMul
<1>10. IsOver(RMul(RMul(a, a), RSub(RMul(l, l), RMul(s, s))), ((n1 * n1) * ((n2 * n2) - (n3 * n3))),
         D4)
  BY <1>9, <1>8, <1>5, OverMul
<1>11. IsOver(RMul(a, l), (n1 * n2), D2)
  BY <1>a, <1>b, <1>5, OverMul
<1>12. IsOver(RMul(RMul(a, l), RMul(a, l)), ((n1 * n2) * (n1 * n2)), D4)
  BY <1>11, <1>5, OverMul
<1>13. IsOver(RMul(a, s), (n1 * n3), D2)
  BY <1>a, <1>c, <1>5, OverMul
<1>14. IsOver(RMul(RMul(a, s), RMul(a, s)), ((n1 * n3) * (n1 * n3)), D4)
  BY <1>13, <1>5, OverMul
<1>15. IsOver(RSub(RMul(RMul(a, l), RMul(a, l)), RMul(RMul(a, s), RMul(a, s))), (((n1 * n2) * (n1 *
         n2)) - ((n1 * n3) * (n1 * n3))), D4)
  BY <1>12, <1>14, OverMinus
<1>16. ((n1 * n1) * ((n2 * n2) - (n3 * n3))) = (((n1 * n2) * (n1 * n2)) - ((n1 * n3) * (n1 * n3)))
  BY <1>3 DEF D2, D3, D4
<1>17. RMul(RMul(a, a), RSub(RMul(l, l), RMul(s, s))) = RSub(RMul(RMul(a, l), RMul(a, l)),
         RMul(RMul(a, s), RMul(a, s)))
  BY <1>10, <1>15, <1>16, OverEqual
<1>18. IsOver(RAdd(s, l), (n3 + n2), D)
  BY <1>c, <1>b, OverPlus
<1>19. IsOver(RMul(a, RAdd(s, l)), (n1 * (n3 + n2)), D2)
  BY <1>a, <1>18, <1>5, OverMul
<1>20. IsOver(RAdd(RMul(a, s), RMul(a, l)), ((n1 * n3) + (n1 * n2)), D2)
  BY <1>13, <1>11, OverPlus
<1>21. (n1 * (n3 + n2)) = ((n1 * n3) + (n1 * n2))
  BY <1>3 DEF D2, D3, D4
<1>22. RMul(a, RAdd(s, l)) = RAdd(RMul(a, s), RMul(a, l))
  BY <1>19, <1>20, <1>21, OverEqual
<1>23. QED
  BY <1>17, <1>22 DEF (+), (-), (.)

\* Conjugate zeros -q +- i sqrt(-1).
LEMMA Conjugates ==
  ASSUME NEW a \in Rat, NEW q \in Rat, NEW y \in Rat
  PROVE  a (.) (RNeg(q) (+) RNeg(q)) = RNeg(R(2) (.) (a (.) q)) /\ y (+) RNeg(y) = Zero
         /\ a (.) a (.) (RNeg(q) (.) RNeg(q) (-) y (.) RNeg(y)) = a (.) q (.) (a (.) q) (+)
                  a (.) a (.) (y (.) y)
         /\ RNeg(q) (.) RNeg(y) (+) y (.) RNeg(q) = Zero
         /\ RNeg(q) (.) RNeg(q) (-) y (.) RNeg(y) = RNeg(q) (.) RNeg(q) (-) RNeg(y) (.)
                  RNeg(RNeg(y))
<1> DEFINE F == [i \in 1 .. 3 |-> IF i = 1 THEN a ELSE IF i = 2 THEN q ELSE y]
<1>1. F \in [1 .. 3 -> Rat] /\ F[1] = a /\ F[2] = q /\ F[3] = y
  OBVIOUS
<1> HIDE DEF F
<1>2. PICK D \in Int \ {0}, G \in [1 .. 3 -> Int] : \A i \in 1 .. 3 : Is(F[i], G[i], D)
  BY <1>1, CommonDenominator DEF AllOver
<1> DEFINE n1 == G[1]
           n2 == G[2]
           n3 == G[3]
           D2 == D * D
           D3 == D2 * D
           D4 == D3 * D
<1>3. n1 \in Int /\ n2 \in Int /\ n3 \in Int
  BY <1>2
<1>a. IsOver(a, n1, D)
  BY <1>1, <1>2 DEF IsOver
<1>b. IsOver(q, n2, D)
  BY <1>1, <1>2 DEF IsOver
<1>c. IsOver(y, n3, D)
  BY <1>1, <1>2 DEF IsOver
<1>4. D2 \in Int \ {0} /\ D3 \in Int \ {0} /\ D4 \in Int \ {0}
  BY NonZero
<1>5. D2 = D * D /\ D3 = D * D2 /\ D4 = D * D3 /\ D3 = D2 * D /\ D4 = D2 * D2 /\ D4 = D3 * D
  OBVIOUS
<1> HIDE DEF n1, n2, n3, D2, D3, D4
<1>6. IsOver(RNeg(q), (-n2), D)
  BY <1>b, OverNeg
<1>7. IsOver(RAdd(RNeg(q), RNeg(q)), ((-n2) + (-n2)), D)
  BY <1>6, OverPlus
<1>8. IsOver(RMul(a, RAdd(RNeg(q), RNeg(q))), (n1 * ((-n2) + (-n2))), D2)
  BY <1>a, <1>7, <1>5, OverMul
<1>9. IsOver(RMul(a, q), (n1 * n2), D2)
  BY <1>a, <1>b, <1>5, OverMul
<1>10. IsOver(RMul(R(2), RMul(a, q)), (2 * (n1 * n2)), D2)
  BY <1>9, OverTimes
<1>11. IsOver(RNeg(RMul(R(2), RMul(a, q))), (-(2 * (n1 * n2))), D2)
  BY <1>10, OverNeg
<1>12. (n1 * ((-n2) + (-n2))) = (-(2 * (n1 * n2)))
  BY <1>3 DEF D2, D3, D4
<1>13. RMul(a, RAdd(RNeg(q), RNeg(q))) = RNeg(RMul(R(2), RMul(a, q)))
  BY <1>8, <1>11, <1>12, OverEqual
<1>14. IsOver(RNeg(y), (-n3), D)
  BY <1>c, OverNeg
<1>15. IsOver(RAdd(y, RNeg(y)), (n3 + (-n3)), D)
  BY <1>c, <1>14, OverPlus
<1>16. IsOver(Zero, (0), D)
  BY <1>4, OverZeroOne
<1>17. (n3 + (-n3)) = (0)
  BY <1>3 DEF D2, D3, D4
<1>18. RAdd(y, RNeg(y)) = Zero
  BY <1>15, <1>16, <1>17, OverEqual
<1>19. IsOver(RMul(RNeg(q), RNeg(q)), ((-n2) * (-n2)), D2)
  BY <1>6, <1>5, OverMul
<1>20. IsOver(RMul(y, RNeg(y)), (n3 * (-n3)), D2)
  BY <1>c, <1>14, <1>5, OverMul
<1>21. IsOver(RSub(RMul(RNeg(q), RNeg(q)), RMul(y, RNeg(y))), (((-n2) * (-n2)) - (n3 * (-n3))), D2)
  BY <1>19, <1>20, OverMinus
<1>22. IsOver(RMul(a, a), (n1 * n1), D2)
  BY <1>a, <1>5, OverMul
<1>23. IsOver(RMul(RMul(a, a), RSub(RMul(RNeg(q), RNeg(q)), RMul(y, RNeg(y)))), ((n1 * n1) *
         (((-n2) * (-n2)) - (n3 * (-n3)))), D4)
  BY <1>22, <1>21, <1>5, OverMul
<1>24. IsOver(RMul(RMul(a, q), RMul(a, q)), ((n1 * n2) * (n1 * n2)), D4)
  BY <1>9, <1>5, OverMul
<1>25. IsOver(RMul(y, y), (n3 * n3), D2)
  BY <1>c, <1>5, OverMul
<1>26. IsOver(RMul(RMul(a, a), RMul(y, y)), ((n1 * n1) * (n3 * n3)), D4)
  BY <1>22, <1>25, <1>5, OverMul
<1>27. IsOver(RAdd(RMul(RMul(a, q), RMul(a, q)), RMul(RMul(a, a), RMul(y, y))), (((n1 * n2) * (n1 *
         n2)) + ((n1 * n1) * (n3 * n3))), D4)
  BY <1>24, <1>26, OverPlus
<1>28. ((n1 * n1) * (((-n2) * (-n2)) - (n3 * (-n3)))) = (((n1 * n2) * (n1 * n2)) + ((n1 * n1) *
         (n3 * n3)))
  BY <1>3 DEF D2, D3, D4
<1>29. RMul(RMul(a, a), RSub(RMul(RNeg(q), RNeg(q)), RMul(y, RNeg(y)))) = RAdd(RMul(RMul(a, q),
         RMul(a, q)), RMul(RMul(a, a), RMul(y, y)))
  BY <1>23, <1>27, <1>28, OverEqual
<1>30. IsOver(RMul(RNeg(q), RNeg(y)), ((-n2) * (-n3)), D2)
  BY <1>6, <1>14, <1>5, OverMul
<1>31. IsOver(RMul(y, RNeg(q)), (n3 * (-n2)), D2)
  BY <1>c, <1>6, <1>5, OverMul
<1>32. IsOver(RAdd(RMul(RNeg(q), RNeg(y)), RMul(y, RNeg(q))), (((-n2) * (-n3)) + (n3 * (-n2))), D2)
  BY <1>30, <1>31, OverPlus
<1>33. IsOver(Zero, (0), D2)
  BY <1>4, OverZeroOne
<1>34. (((-n2) * (-n3)) + (n3 * (-n2))) = (0)
  BY <1>3 DEF D2, D3, D4
<1>35. RAdd(RMul(RNeg(q), RNeg(y)), RMul(y, RNeg(q))) = Zero
  BY <1>32, <1>33, <1>34, OverEqual
<1>36. IsOver(RNeg(RNeg(y)), (-(-n3)), D)
  BY <1>14, OverNeg
<1>37. IsOver(RMul(RNeg(y), RNeg(RNeg(y))), ((-n3) * (-(-n3))), D2)
  BY <1>14, <1>36, <1>5, OverMul
<1>38. IsOver(RSub(RMul(RNeg(q), RNeg(q)), RMul(RNeg(y), RNeg(RNeg(y)))), (((-n2) * (-n2)) -
         ((-n3) * (-(-n3)))), D2)
  BY <1>19, <1>37, OverMinus
<1>39. (((-n2) * (-n2)) - (n3 * (-n3))) = (((-n2) * (-n2)) - ((-n3) * (-(-n3))))
  BY <1>3 DEF D2, D3, D4
<1>40. RSub(RMul(RNeg(q), RNeg(q)), RMul(y, RNeg(y))) = RSub(RMul(RNeg(q), RNeg(q)),
         RMul(RNeg(y), RNeg(RNeg(y))))
  BY <1>21, <1>38, <1>39, OverEqual
<1>41. QED
  BY <1>13, <1>18, <1>29, <1>35, <1>40 DEF (+), (-), (.)

\* The opposite of a difference.
LEMMA Opposite ==
  ASSUME NEW x \in Rat, NEW y \in Rat
  PROVE  RNeg(x (-) y) = y (-) x
<1> DEFINE F == [i \in 1 .. 2 |-> IF i = 1 THEN x ELSE y]
<1>1. F \in [1 .. 2 -> Rat] /\ F[1] = x /\ F[2] = y
  OBVIOUS
<1> HIDE DEF F
<1>2. PICK D \in Int \ {0}, G \in [1 .. 2 -> Int] : \A i \in 1 .. 2 : Is(F[i], G[i], D)
  BY <1>1, CommonDenominator DEF AllOver
<1> DEFINE n1 == G[1]
           n2 == G[2]
<1>3. n1 \in Int /\ n2 \in Int
  BY <1>2
<1>a. IsOver(x, n1, D)
  BY <1>1, <1>2 DEF IsOver
<1>b. IsOver(y, n2, D)
  BY <1>1, <1>2 DEF IsOver
<1> HIDE DEF n1, n2
<1>4. IsOver(RSub(x, y), (n1 - n2), D)
  BY <1>a, <1>b, OverMinus
<1>5. IsOver(RNeg(RSub(x, y)), (-(n1 - n2)), D)
  BY <1>4, OverNeg
<1>6. IsOver(RSub(y, x), (n2 - n1), D)
  BY <1>b, <1>a, OverMinus
<1>7. (-(n1 - n2)) = (n2 - n1)
  BY <1>3
<1>8. RNeg(RSub(x, y)) = RSub(y, x)
  BY <1>5, <1>6, <1>7, OverEqual
<1>9. QED
  BY <1>8 DEF (+), (-), (.)

\* The square of a product.
LEMMA SquareOfProduct ==
  ASSUME NEW a \in Rat, NEW y \in Rat
  PROVE  a (.) a (.) (y (.) y) = a (.) y (.) (a (.) y)
<1> DEFINE F == [i \in 1 .. 2 |-> IF i = 1 THEN a ELSE y]
<1>1. F \in [1 .. 2 -> Rat] /\ F[1] = a /\ F[2] = y
  OBVIOUS
<1> HIDE DEF F
<1>2. PICK D \in Int \ {0}, G \in [1 .. 2 -> Int] : \A i \in 1 .. 2 : Is(F[i], G[i], D)
  BY <1>1, CommonDenominator DEF AllOver
<1> DEFINE n1 == G[1]
           n2 == G[2]
           D2 == D * D
           D3 == D2 * D
           D4 == D3 * D
<1>3. n1 \in Int /\ n2 \in Int
  BY <1>2
<1>a. IsOver(a, n1, D)
  BY <1>1, <1>2 DEF IsOver
<1>b. IsOver(y, n2, D)
  BY <1>1, <1>2 DEF IsOver
<1>4. D2 \in Int \ {0} /\ D3 \in Int \ {0} /\ D4 \in Int \ {0}
  BY NonZero
<1>5. D2 = D * D /\ D3 = D * D2 /\ D4 = D * D3 /\ D3 = D2 * D /\ D4 = D2 * D2 /\ D4 = D3 * D
  OBVIOUS
<1> HIDE DEF n1, n2, D2, D3, D4
<1>6. IsOver(RMul(y, y), (n2 * n2), D2)
  BY <1>b, <1>5, OverMul
<1>7. IsOver(RMul(a, a), (n1 * n1), D2)
  BY <1>a, <1>5, OverMul
<1>8. IsOver(RMul(RMul(a, a), RMul(y, y)), ((n1 * n1) * (n2 * n2)), D4)
  BY <1>7, <1>6, <1>5, OverMul
<1>9. IsOver(RMul(a, y), (n1 * n2), D2)
  BY <1>a, <1>b, <1>5, OverMul
<1>10. IsOver(RMul(RMul(a, y), RMul(a, y)), ((n1 * n2) * (n1 * n2)), D4)
  BY <1>9, <1>5, OverMul
<1>11. ((n1 * n1) * (n2 * n2)) = ((n1 * n2) * (n1 * n2))
  BY <1>3 DEF D2, D3, D4
<1>12. RMul(RMul(a, a), RMul(y, y)) = RMul(RMul(a, y), RMul(a, y))
  BY <1>8, <1>10, <1>11, OverEqual
<1>13. QED
  BY <1>12 DEF (+), (-), (.)

-----------------------------------------------------------------------------
(* Identities of the shift steps                                            *)

\* The terms of the product by x - s.
LEMMA QuotientTerm ==
  ASSUME NEW s \in Rat, NEW x \in Rat, NEW y \in Rat
  PROVE  RNeg(s) (.) y (+) One (.) x = x (-) s (.) y
<1> DEFINE F == [i \in 1 .. 3 |-> IF i = 1 THEN s ELSE IF i = 2 THEN x ELSE y]
<1>1. F \in [1 .. 3 -> Rat] /\ F[1] = s /\ F[2] = x /\ F[3] = y
  OBVIOUS
<1> HIDE DEF F
<1>2. PICK D \in Int \ {0}, G \in [1 .. 3 -> Int] : \A i \in 1 .. 3 : Is(F[i], G[i], D)
  BY <1>1, CommonDenominator DEF AllOver
<1> DEFINE n1 == G[1]
           n2 == G[2]
           n3 == G[3]
           D2 == D * D
<1>3. n1 \in Int /\ n2 \in Int /\ n3 \in Int
  BY <1>2
<1>a. IsOver(s, n1, D)
  BY <1>1, <1>2 DEF IsOver
<1>b. IsOver(x, n2, D)
  BY <1>1, <1>2 DEF IsOver
<1>c. IsOver(y, n3, D)
  BY <1>1, <1>2 DEF IsOver
<1>4. D2 \in Int \ {0}
  BY NonZero
<1>5. D2 = D * D
  OBVIOUS
<1> HIDE DEF n1, n2, n3, D2
<1>6. IsOver(RNeg(s), (-n1), D)
  BY <1>a, OverNeg
<1>7. IsOver(RMul(RNeg(s), y), ((-n1) * n3), D2)
  BY <1>6, <1>c, <1>5, OverMul
<1>8. IsOver(One, (D), D)
  BY <1>4, OverZeroOne
<1>9. IsOver(RMul(One, x), ((D) * n2), D2)
  BY <1>8, <1>b, <1>5, OverMul
<1>10. IsOver(RAdd(RMul(RNeg(s), y), RMul(One, x)), (((-n1) * n3) + ((D) * n2)), D2)
  BY <1>7, <1>9, OverPlus
<1>11. IsOver(x, (n2 * D), D2)
  BY <1>b, <1>4, <1>5, OverPad
<1>12. IsOver(RMul(s, y), (n1 * n3), D2)
  BY <1>a, <1>c, <1>5, OverMul
<1>13. IsOver(RSub(x, RMul(s, y)), ((n2 * D) - (n1 * n3)), D2)
  BY <1>11, <1>12, OverMinus
<1>14. (((-n1) * n3) + ((D) * n2)) = ((n2 * D) - (n1 * n3))
  BY <1>3 DEF D2
<1>15. RAdd(RMul(RNeg(s), y), RMul(One, x)) = RSub(x, RMul(s, y))
  BY <1>10, <1>13, <1>14, OverEqual
<1>16. QED
  BY <1>15 DEF (+), (-), (.)

CombinedTermLaw(s, t, b, y, a, c) ==
    RNeg(s) (.) (t (.) y (+) c) (+) One (.) (t (.) b (+) a) = (a (-) s (.) c) (+) t (.) (b (-)
             s (.) y)

\* The terms of the combination of p and K that the linear shift divides.
LEMMA CombinedTerm ==
  ASSUME NEW s \in Rat, NEW t \in Rat, NEW b \in Rat, NEW y \in Rat, NEW a \in Rat,
         NEW c \in Rat
  PROVE  CombinedTermLaw(s, t, b, y, a, c)
<1> DEFINE F == [i \in 1 .. 6 |-> IF i = 1 THEN s ELSE IF i = 2 THEN t ELSE IF i =
         3 THEN b ELSE IF i = 4 THEN y ELSE IF i = 5 THEN a ELSE c]
<1>1. F \in [1 .. 6 -> Rat] /\ F[1] = s /\ F[2] = t /\ F[3] = b /\ F[4] = y /\ F[5] = a /\ F[6] = c
  OBVIOUS
<1> HIDE DEF F
<1>2. PICK D \in Int \ {0}, G \in [1 .. 6 -> Int] : \A i \in 1 .. 6 : Is(F[i], G[i], D)
  BY <1>1, CommonDenominator DEF AllOver
<1> DEFINE n1 == G[1]
           n2 == G[2]
           n3 == G[3]
           n4 == G[4]
           n5 == G[5]
           n6 == G[6]
           D2 == D * D
           D3 == D2 * D
<1>3. n1 \in Int /\ n2 \in Int /\ n3 \in Int /\ n4 \in Int /\ n5 \in Int /\ n6 \in Int
  BY <1>2
<1>a. IsOver(s, n1, D)
  BY <1>1, <1>2 DEF IsOver
<1>b. IsOver(t, n2, D)
  BY <1>1, <1>2 DEF IsOver
<1>c. IsOver(b, n3, D)
  BY <1>1, <1>2 DEF IsOver
<1>d. IsOver(y, n4, D)
  BY <1>1, <1>2 DEF IsOver
<1>e. IsOver(a, n5, D)
  BY <1>1, <1>2 DEF IsOver
<1>f. IsOver(c, n6, D)
  BY <1>1, <1>2 DEF IsOver
<1>4. D2 \in Int \ {0} /\ D3 \in Int \ {0}
  BY NonZero
<1>5. D2 = D * D /\ D3 = D * D2 /\ D3 = D2 * D
  OBVIOUS
<1> HIDE DEF n1, n2, n3, n4, n5, n6, D2, D3
<1>6. IsOver(RMul(t, y), (n2 * n4), D2)
  BY <1>b, <1>d, <1>5, OverMul
<1>7. IsOver(c, (n6 * D), D2)
  BY <1>f, <1>4, <1>5, OverPad
<1>8. IsOver(RAdd(RMul(t, y), c), ((n2 * n4) + (n6 * D)), D2)
  BY <1>6, <1>7, OverPlus
<1>9. IsOver(RNeg(s), (-n1), D)
  BY <1>a, OverNeg
<1>10. IsOver(RMul(RNeg(s), RAdd(RMul(t, y), c)), ((-n1) * ((n2 * n4) + (n6 * D))), D3)
  BY <1>9, <1>8, <1>5, OverMul
<1>11. IsOver(RMul(t, b), (n2 * n3), D2)
  BY <1>b, <1>c, <1>5, OverMul
<1>12. IsOver(a, (n5 * D), D2)
  BY <1>e, <1>4, <1>5, OverPad
<1>13. IsOver(RAdd(RMul(t, b), a), ((n2 * n3) + (n5 * D)), D2)
  BY <1>11, <1>12, OverPlus
<1>14. IsOver(One, (D), D)
  BY <1>4, OverZeroOne
<1>15. IsOver(RMul(One, RAdd(RMul(t, b), a)), ((D) * ((n2 * n3) + (n5 * D))), D3)
  BY <1>14, <1>13, <1>5, OverMul
<1>16. IsOver(RAdd(RMul(RNeg(s), RAdd(RMul(t, y), c)), RMul(One, RAdd(RMul(t, b), a))), (((-n1) *
         ((n2 * n4) + (n6 * D))) + ((D) * ((n2 * n3) + (n5 * D)))), D3)
  BY <1>10, <1>15, OverPlus
<1>17. IsOver(RMul(s, c), (n1 * n6), D2)
  BY <1>a, <1>f, <1>5, OverMul
<1>18. IsOver(RSub(a, RMul(s, c)), ((n5 * D) - (n1 * n6)), D2)
  BY <1>12, <1>17, OverMinus
<1>19. IsOver(RSub(a, RMul(s, c)), (((n5 * D) - (n1 * n6)) * D), D3)
  BY <1>18, <1>4, <1>5, OverPad
<1>20. IsOver(b, (n3 * D), D2)
  BY <1>c, <1>4, <1>5, OverPad
<1>21. IsOver(RMul(s, y), (n1 * n4), D2)
  BY <1>a, <1>d, <1>5, OverMul
<1>22. IsOver(RSub(b, RMul(s, y)), ((n3 * D) - (n1 * n4)), D2)
  BY <1>20, <1>21, OverMinus
<1>23. IsOver(RMul(t, RSub(b, RMul(s, y))), (n2 * ((n3 * D) - (n1 * n4))), D3)
  BY <1>b, <1>22, <1>5, OverMul
<1>24. IsOver(RAdd(RSub(a, RMul(s, c)), RMul(t, RSub(b, RMul(s, y)))), ((((n5 * D) - (n1 * n6)) *
         D) + (n2 * ((n3 * D) - (n1 * n4)))), D3)
  BY <1>19, <1>23, OverPlus
<1>25. (((-n1) * ((n2 * n4) + (n6 * D))) + ((D) * ((n2 * n3) + (n5 * D)))) = ((((n5 * D) - (n1 *
         n6)) * D) + (n2 * ((n3 * D) - (n1 * n4))))
  BY <1>3 DEF D2, D3
<1>26. RAdd(RMul(RNeg(s), RAdd(RMul(t, y), c)), RMul(One, RAdd(RMul(t, b), a))) = RAdd(RSub(a,
         RMul(s, c)), RMul(t, RSub(b, RMul(s, y))))
  BY <1>16, <1>24, <1>25, OverEqual
<1>27. QED
  BY <1>26 DEF (+), (-), (.), CombinedTermLaw

\* The scalars of the first kind, with a = e c, d = f c and v b = y c: the combination of the
\* dividends has no remainder.
FirstScalarsLaw(e, f, c, u, y, b) ==
    /\ ((b (-) e (.) c (.) f) (.) (e (.) c) (-) (e (.) u (.) (f (.) c) (+) y (.) c (.) f (+)
             e (.) c) (.) b) (+) (e (.) (e (.) c) (+) (e (.) u (+) y) (.) b) (.) (f (.) c) = Zero
    /\ ((b (-) e (.) c (.) f) (.) RNeg(u (.) (e (.) c) (+) y (.) c) (-) (e (.) u (.) (f (.)
             c) (+) y (.) c (.) f (+) e (.) c) (.) (e (.) c)) (+) (e (.) (e (.) c) (+) (e (.)
             u (+) y) (.) b) (.) c = Zero

\* The first kind leaves no remainder.
LEMMA FirstScalars ==
  ASSUME NEW e \in Rat, NEW f \in Rat, NEW c \in Rat, NEW u \in Rat, NEW y \in Rat,
         NEW b \in Rat
  PROVE  FirstScalarsLaw(e, f, c, u, y, b)
<1> DEFINE F == [i \in 1 .. 6 |-> IF i = 1 THEN e ELSE IF i = 2 THEN f ELSE IF i =
         3 THEN c ELSE IF i = 4 THEN u ELSE IF i = 5 THEN y ELSE b]
<1>1. F \in [1 .. 6 -> Rat] /\ F[1] = e /\ F[2] = f /\ F[3] = c /\ F[4] = u /\ F[5] = y /\ F[6] = b
  OBVIOUS
<1> HIDE DEF F
<1>2. PICK D \in Int \ {0}, G \in [1 .. 6 -> Int] : \A i \in 1 .. 6 : Is(F[i], G[i], D)
  BY <1>1, CommonDenominator DEF AllOver
<1> DEFINE n1 == G[1]
           n2 == G[2]
           n3 == G[3]
           n4 == G[4]
           n5 == G[5]
           n6 == G[6]
           D2 == D * D
           D3 == D2 * D
           D4 == D3 * D
           D5 == D4 * D
           D6 == D5 * D
<1>3. n1 \in Int /\ n2 \in Int /\ n3 \in Int /\ n4 \in Int /\ n5 \in Int /\ n6 \in Int
  BY <1>2
<1>a. IsOver(e, n1, D)
  BY <1>1, <1>2 DEF IsOver
<1>b. IsOver(f, n2, D)
  BY <1>1, <1>2 DEF IsOver
<1>c. IsOver(c, n3, D)
  BY <1>1, <1>2 DEF IsOver
<1>d. IsOver(u, n4, D)
  BY <1>1, <1>2 DEF IsOver
<1>e. IsOver(y, n5, D)
  BY <1>1, <1>2 DEF IsOver
<1>f. IsOver(b, n6, D)
  BY <1>1, <1>2 DEF IsOver
<1>4. D2 \in Int \ {0} /\ D3 \in Int \ {0} /\ D4 \in Int \ {0} /\ D5 \in Int \ {0}
      /\ D6 \in Int \ {0}
  BY NonZero
<1>5. D2 = D * D /\ D3 = D * D2 /\ D4 = D * D3 /\ D5 = D * D4 /\ D6 = D * D5 /\ D3 = D2 * D
      /\ D4 = D2 * D2 /\ D5 = D2 * D3 /\ D6 = D2 * D4 /\ D4 = D3 * D /\ D5 = D3 * D2
      /\ D6 = D3 * D3 /\ D5 = D4 * D /\ D6 = D4 * D2 /\ D6 = D5 * D
  OBVIOUS
<1> HIDE DEF n1, n2, n3, n4, n5, n6, D2, D3, D4, D5, D6
<1>6. IsOver(RMul(e, c), (n1 * n3), D2)
  BY <1>a, <1>c, <1>5, OverMul
<1>7. IsOver(b, (n6 * D2), D3)
  BY <1>f, <1>4, <1>5, OverPad
<1>8. IsOver(RMul(RMul(e, c), f), ((n1 * n3) * n2), D3)
  BY <1>6, <1>b, <1>5, OverMul
<1>9. IsOver(RSub(b, RMul(RMul(e, c), f)), ((n6 * D2) - ((n1 * n3) * n2)), D3)
  BY <1>7, <1>8, OverMinus
<1>10. IsOver(RMul(RSub(b, RMul(RMul(e, c), f)), RMul(e, c)), (((n6 * D2) - ((n1 * n3) * n2)) *
         (n1 * n3)), D5)
  BY <1>9, <1>6, <1>5, OverMul
<1>11. IsOver(RMul(f, c), (n2 * n3), D2)
  BY <1>b, <1>c, <1>5, OverMul
<1>12. IsOver(RMul(e, u), (n1 * n4), D2)
  BY <1>a, <1>d, <1>5, OverMul
<1>13. IsOver(RMul(RMul(e, u), RMul(f, c)), ((n1 * n4) * (n2 * n3)), D4)
  BY <1>12, <1>11, <1>5, OverMul
<1>14. IsOver(RMul(y, c), (n5 * n3), D2)
  BY <1>e, <1>c, <1>5, OverMul
<1>15. IsOver(RMul(RMul(y, c), f), ((n5 * n3) * n2), D3)
  BY <1>14, <1>b, <1>5, OverMul
<1>16. IsOver(RMul(RMul(y, c), f), (((n5 * n3) * n2) * D), D4)
  BY <1>15, <1>4, <1>5, OverPad
<1>17. IsOver(RAdd(RMul(RMul(e, u), RMul(f, c)), RMul(RMul(y, c), f)), (((n1 * n4) * (n2 * n3)) +
         (((n5 * n3) * n2) * D)), D4)
  BY <1>13, <1>16, OverPlus
<1>18. IsOver(RMul(e, c), ((n1 * n3) * D2), D4)
  BY <1>6, <1>4, <1>5, OverPad
<1>19. IsOver(RAdd(RAdd(RMul(RMul(e, u), RMul(f, c)), RMul(RMul(y, c), f)), RMul(e, c)), ((((n1 *
         n4) * (n2 * n3)) + (((n5 * n3) * n2) * D)) + ((n1 * n3) * D2)), D4)
  BY <1>17, <1>18, OverPlus
<1>20. IsOver(RMul(RAdd(RAdd(RMul(RMul(e, u), RMul(f, c)), RMul(RMul(y, c), f)), RMul(e, c)), b),
         (((((n1 * n4) * (n2 * n3)) + (((n5 * n3) * n2) * D)) + ((n1 * n3) * D2)) * n6), D5)
  BY <1>19, <1>f, <1>5, OverMul
<1>21. IsOver(RSub(RMul(RSub(b, RMul(RMul(e, c), f)), RMul(e, c)), RMul(RAdd(RAdd(RMul(RMul(e, u),
         RMul(f, c)), RMul(RMul(y, c), f)), RMul(e, c)), b)), ((((n6 * D2) - ((n1 * n3) * n2)) *
         (n1 * n3)) - (((((n1 * n4) * (n2 * n3)) + (((n5 * n3) * n2) * D)) + ((n1 * n3) * D2)) *
         n6)), D5)
  BY <1>10, <1>20, OverMinus
<1>22. IsOver(RMul(e, RMul(e, c)), (n1 * (n1 * n3)), D3)
  BY <1>a, <1>6, <1>5, OverMul
<1>23. IsOver(y, (n5 * D), D2)
  BY <1>e, <1>4, <1>5, OverPad
<1>24. IsOver(RAdd(RMul(e, u), y), ((n1 * n4) + (n5 * D)), D2)
  BY <1>12, <1>23, OverPlus
<1>25. IsOver(RMul(RAdd(RMul(e, u), y), b), (((n1 * n4) + (n5 * D)) * n6), D3)
  BY <1>24, <1>f, <1>5, OverMul
<1>26. IsOver(RAdd(RMul(e, RMul(e, c)), RMul(RAdd(RMul(e, u), y), b)), ((n1 * (n1 * n3)) + (((n1 *
         n4) + (n5 * D)) * n6)), D3)
  BY <1>22, <1>25, OverPlus
<1>27. IsOver(RMul(RAdd(RMul(e, RMul(e, c)), RMul(RAdd(RMul(e, u), y), b)), RMul(f, c)), (((n1 *
         (n1 * n3)) + (((n1 * n4) + (n5 * D)) * n6)) * (n2 * n3)), D5)
  BY <1>26, <1>11, <1>5, OverMul
<1>28. IsOver(RAdd(RSub(RMul(RSub(b, RMul(RMul(e, c), f)), RMul(e, c)), RMul(RAdd(RAdd(RMul(RMul(e,
         u), RMul(f, c)), RMul(RMul(y, c), f)), RMul(e, c)), b)), RMul(RAdd(RMul(e, RMul(e, c)),
         RMul(RAdd(RMul(e, u), y), b)), RMul(f, c))), (((((n6 * D2) - ((n1 * n3) * n2)) * (n1 *
         n3)) - (((((n1 * n4) * (n2 * n3)) + (((n5 * n3) * n2) * D)) + ((n1 * n3) * D2)) *
         n6)) + (((n1 * (n1 * n3)) + (((n1 * n4) + (n5 * D)) * n6)) * (n2 * n3))), D5)
  BY <1>21, <1>27, OverPlus
<1>29. IsOver(Zero, (0), D5)
  BY <1>4, OverZeroOne
<1>30. (((((n6 * D2) - ((n1 * n3) * n2)) * (n1 * n3)) - (((((n1 * n4) * (n2 * n3)) + (((n5 *
         n3) * n2) * D)) + ((n1 * n3) * D2)) * n6)) + (((n1 * (n1 * n3)) + (((n1 * n4) + (n5 *
         D)) * n6)) * (n2 * n3))) = (0)
  BY <1>3 DEF D2, D3, D4, D5, D6
<1>31. RAdd(RSub(RMul(RSub(b, RMul(RMul(e, c), f)), RMul(e, c)), RMul(RAdd(RAdd(RMul(RMul(e, u),
         RMul(f, c)), RMul(RMul(y, c), f)), RMul(e, c)), b)), RMul(RAdd(RMul(e, RMul(e, c)),
         RMul(RAdd(RMul(e, u), y), b)), RMul(f, c))) = Zero
  BY <1>28, <1>29, <1>30, OverEqual
<1>32. IsOver(RMul(u, RMul(e, c)), (n4 * (n1 * n3)), D3)
  BY <1>d, <1>6, <1>5, OverMul
<1>33. IsOver(RMul(y, c), ((n5 * n3) * D), D3)
  BY <1>14, <1>4, <1>5, OverPad
<1>34. IsOver(RAdd(RMul(u, RMul(e, c)), RMul(y, c)), ((n4 * (n1 * n3)) + ((n5 * n3) * D)), D3)
  BY <1>32, <1>33, OverPlus
<1>35. IsOver(RNeg(RAdd(RMul(u, RMul(e, c)), RMul(y, c))), (-((n4 * (n1 * n3)) + ((n5 * n3) * D))),
         D3)
  BY <1>34, OverNeg
<1>36. IsOver(RMul(RSub(b, RMul(RMul(e, c), f)), RNeg(RAdd(RMul(u, RMul(e, c)), RMul(y, c)))),
         (((n6 * D2) - ((n1 * n3) * n2)) * (-((n4 * (n1 * n3)) + ((n5 * n3) * D)))), D6)
  BY <1>9, <1>35, <1>5, OverMul
<1>37. IsOver(RMul(RAdd(RAdd(RMul(RMul(e, u), RMul(f, c)), RMul(RMul(y, c), f)), RMul(e, c)),
         RMul(e, c)), (((((n1 * n4) * (n2 * n3)) + (((n5 * n3) * n2) * D)) + ((n1 * n3) * D2)) *
         (n1 * n3)), D6)
  BY <1>19, <1>6, <1>5, OverMul
<1>38. IsOver(RSub(RMul(RSub(b, RMul(RMul(e, c), f)), RNeg(RAdd(RMul(u, RMul(e, c)), RMul(y, c)))),
         RMul(RAdd(RAdd(RMul(RMul(e, u), RMul(f, c)), RMul(RMul(y, c), f)), RMul(e, c)), RMul(e,
         c))), ((((n6 * D2) - ((n1 * n3) * n2)) * (-((n4 * (n1 * n3)) + ((n5 * n3) * D)))) -
         (((((n1 * n4) * (n2 * n3)) + (((n5 * n3) * n2) * D)) + ((n1 * n3) * D2)) * (n1 * n3))),
         D6)
  BY <1>36, <1>37, OverMinus
<1>39. IsOver(RMul(RAdd(RMul(e, RMul(e, c)), RMul(RAdd(RMul(e, u), y), b)), c), (((n1 * (n1 *
         n3)) + (((n1 * n4) + (n5 * D)) * n6)) * n3), D4)
  BY <1>26, <1>c, <1>5, OverMul
<1>40. IsOver(RMul(RAdd(RMul(e, RMul(e, c)), RMul(RAdd(RMul(e, u), y), b)), c), ((((n1 * (n1 *
         n3)) + (((n1 * n4) + (n5 * D)) * n6)) * n3) * D2), D6)
  BY <1>39, <1>4, <1>5, OverPad
<1>41. IsOver(RAdd(RSub(RMul(RSub(b, RMul(RMul(e, c), f)), RNeg(RAdd(RMul(u, RMul(e, c)), RMul(y,
         c)))), RMul(RAdd(RAdd(RMul(RMul(e, u), RMul(f, c)), RMul(RMul(y, c), f)), RMul(e, c)),
         RMul(e, c))), RMul(RAdd(RMul(e, RMul(e, c)), RMul(RAdd(RMul(e, u), y), b)), c)),
         (((((n6 * D2) - ((n1 * n3) * n2)) * (-((n4 * (n1 * n3)) + ((n5 * n3) * D)))) -
         (((((n1 * n4) * (n2 * n3)) + (((n5 * n3) * n2) * D)) + ((n1 * n3) * D2)) * (n1 *
         n3))) + ((((n1 * (n1 * n3)) + (((n1 * n4) + (n5 * D)) * n6)) * n3) * D2)), D6)
  BY <1>38, <1>40, OverPlus
<1>42. IsOver(Zero, (0), D6)
  BY <1>4, OverZeroOne
<1>43. (((((n6 * D2) - ((n1 * n3) * n2)) * (-((n4 * (n1 * n3)) + ((n5 * n3) * D)))) - (((((n1 *
         n4) * (n2 * n3)) + (((n5 * n3) * n2) * D)) + ((n1 * n3) * D2)) * (n1 * n3))) + ((((n1 *
         (n1 * n3)) + (((n1 * n4) + (n5 * D)) * n6)) * n3) * D2)) = (0)
  BY <1>3 DEF D2, D3, D4, D5, D6
<1>44. RAdd(RSub(RMul(RSub(b, RMul(RMul(e, c), f)), RNeg(RAdd(RMul(u, RMul(e, c)), RMul(y, c)))),
         RMul(RAdd(RAdd(RMul(RMul(e, u), RMul(f, c)), RMul(RMul(y, c), f)), RMul(e, c)), RMul(e,
         c))), RMul(RAdd(RMul(e, RMul(e, c)), RMul(RAdd(RMul(e, u), y), b)), c)) = Zero
  BY <1>41, <1>42, <1>43, OverEqual
<1>45. QED
  BY <1>31, <1>44 DEF (+), (-), (.), FirstScalarsLaw

\* The scalars of the second kind, with a = e d, c = f d and b = y d.
SecondScalarsLaw(e, f, d, y, u, v) ==
    /\ ((f (.) (y (.) d) (-) e (.) d) (.) (e (.) d) (-) (v (.) (y (.) d) (+) (f (+) u) (.)
             (e (.) d)) (.) (y (.) d)) (+) (e (.) (u (.) (y (.) d) (+) e (.) d) (+) v (.)
             (y (.) d) (.) y) (.) d = Zero
    /\ ((f (.) (y (.) d) (-) e (.) d) (.) RNeg(u (.) (e (.) d) (+) v (.) (y (.) d)) (-) (v (.)
             (y (.) d) (+) (f (+) u) (.) (e (.) d)) (.) (e (.) d)) (+) (e (.) (u (.) (y (.)
             d) (+) e (.) d) (+) v (.) (y (.) d) (.) y) (.) (f (.) d) = Zero

\* The second kind leaves no remainder.
LEMMA SecondScalars ==
  ASSUME NEW e \in Rat, NEW f \in Rat, NEW d \in Rat, NEW y \in Rat, NEW u \in Rat,
         NEW v \in Rat
  PROVE  SecondScalarsLaw(e, f, d, y, u, v)
<1> DEFINE F == [i \in 1 .. 6 |-> IF i = 1 THEN e ELSE IF i = 2 THEN f ELSE IF i =
         3 THEN d ELSE IF i = 4 THEN y ELSE IF i = 5 THEN u ELSE v]
<1>1. F \in [1 .. 6 -> Rat] /\ F[1] = e /\ F[2] = f /\ F[3] = d /\ F[4] = y /\ F[5] = u /\ F[6] = v
  OBVIOUS
<1> HIDE DEF F
<1>2. PICK D \in Int \ {0}, G \in [1 .. 6 -> Int] : \A i \in 1 .. 6 : Is(F[i], G[i], D)
  BY <1>1, CommonDenominator DEF AllOver
<1> DEFINE n1 == G[1]
           n2 == G[2]
           n3 == G[3]
           n4 == G[4]
           n5 == G[5]
           n6 == G[6]
           D2 == D * D
           D3 == D2 * D
           D4 == D3 * D
           D5 == D4 * D
           D6 == D5 * D
<1>3. n1 \in Int /\ n2 \in Int /\ n3 \in Int /\ n4 \in Int /\ n5 \in Int /\ n6 \in Int
  BY <1>2
<1>a. IsOver(e, n1, D)
  BY <1>1, <1>2 DEF IsOver
<1>b. IsOver(f, n2, D)
  BY <1>1, <1>2 DEF IsOver
<1>c. IsOver(d, n3, D)
  BY <1>1, <1>2 DEF IsOver
<1>d. IsOver(y, n4, D)
  BY <1>1, <1>2 DEF IsOver
<1>e. IsOver(u, n5, D)
  BY <1>1, <1>2 DEF IsOver
<1>f. IsOver(v, n6, D)
  BY <1>1, <1>2 DEF IsOver
<1>4. D2 \in Int \ {0} /\ D3 \in Int \ {0} /\ D4 \in Int \ {0} /\ D5 \in Int \ {0}
      /\ D6 \in Int \ {0}
  BY NonZero
<1>5. D2 = D * D /\ D3 = D * D2 /\ D4 = D * D3 /\ D5 = D * D4 /\ D6 = D * D5 /\ D3 = D2 * D
      /\ D4 = D2 * D2 /\ D5 = D2 * D3 /\ D6 = D2 * D4 /\ D4 = D3 * D /\ D5 = D3 * D2
      /\ D6 = D3 * D3 /\ D5 = D4 * D /\ D6 = D4 * D2 /\ D6 = D5 * D
  OBVIOUS
<1> HIDE DEF n1, n2, n3, n4, n5, n6, D2, D3, D4, D5, D6
<1>6. IsOver(RMul(e, d), (n1 * n3), D2)
  BY <1>a, <1>c, <1>5, OverMul
<1>7. IsOver(RMul(y, d), (n4 * n3), D2)
  BY <1>d, <1>c, <1>5, OverMul
<1>8. IsOver(RMul(f, RMul(y, d)), (n2 * (n4 * n3)), D3)
  BY <1>b, <1>7, <1>5, OverMul
<1>9. IsOver(RMul(e, d), ((n1 * n3) * D), D3)
  BY <1>6, <1>4, <1>5, OverPad
<1>10. IsOver(RSub(RMul(f, RMul(y, d)), RMul(e, d)), ((n2 * (n4 * n3)) - ((n1 * n3) * D)), D3)
  BY <1>8, <1>9, OverMinus
<1>11. IsOver(RMul(RSub(RMul(f, RMul(y, d)), RMul(e, d)), RMul(e, d)), (((n2 * (n4 * n3)) - ((n1 *
         n3) * D)) * (n1 * n3)), D5)
  BY <1>10, <1>6, <1>5, OverMul
<1>12. IsOver(RMul(v, RMul(y, d)), (n6 * (n4 * n3)), D3)
  BY <1>f, <1>7, <1>5, OverMul
<1>13. IsOver(RAdd(f, u), (n2 + n5), D)
  BY <1>b, <1>e, OverPlus
<1>14. IsOver(RMul(RAdd(f, u), RMul(e, d)), ((n2 + n5) * (n1 * n3)), D3)
  BY <1>13, <1>6, <1>5, OverMul
<1>15. IsOver(RAdd(RMul(v, RMul(y, d)), RMul(RAdd(f, u), RMul(e, d))), ((n6 * (n4 * n3)) + ((n2 +
         n5) * (n1 * n3))), D3)
  BY <1>12, <1>14, OverPlus
<1>16. IsOver(RMul(RAdd(RMul(v, RMul(y, d)), RMul(RAdd(f, u), RMul(e, d))), RMul(y, d)), (((n6 *
         (n4 * n3)) + ((n2 + n5) * (n1 * n3))) * (n4 * n3)), D5)
  BY <1>15, <1>7, <1>5, OverMul
<1>17. IsOver(RSub(RMul(RSub(RMul(f, RMul(y, d)), RMul(e, d)), RMul(e, d)), RMul(RAdd(RMul(v,
         RMul(y, d)), RMul(RAdd(f, u), RMul(e, d))), RMul(y, d))), ((((n2 * (n4 * n3)) - ((n1 *
         n3) * D)) * (n1 * n3)) - (((n6 * (n4 * n3)) + ((n2 + n5) * (n1 * n3))) * (n4 * n3))), D5)
  BY <1>11, <1>16, OverMinus
<1>18. IsOver(RMul(u, RMul(y, d)), (n5 * (n4 * n3)), D3)
  BY <1>e, <1>7, <1>5, OverMul
<1>19. IsOver(RAdd(RMul(u, RMul(y, d)), RMul(e, d)), ((n5 * (n4 * n3)) + ((n1 * n3) * D)), D3)
  BY <1>18, <1>9, OverPlus
<1>20. IsOver(RMul(e, RAdd(RMul(u, RMul(y, d)), RMul(e, d))), (n1 * ((n5 * (n4 * n3)) + ((n1 *
         n3) * D))), D4)
  BY <1>a, <1>19, <1>5, OverMul
<1>21. IsOver(RMul(RMul(v, RMul(y, d)), y), ((n6 * (n4 * n3)) * n4), D4)
  BY <1>12, <1>d, <1>5, OverMul
<1>22. IsOver(RAdd(RMul(e, RAdd(RMul(u, RMul(y, d)), RMul(e, d))), RMul(RMul(v, RMul(y, d)), y)),
         ((n1 * ((n5 * (n4 * n3)) + ((n1 * n3) * D))) + ((n6 * (n4 * n3)) * n4)), D4)
  BY <1>20, <1>21, OverPlus
<1>23. IsOver(RMul(RAdd(RMul(e, RAdd(RMul(u, RMul(y, d)), RMul(e, d))), RMul(RMul(v, RMul(y, d)),
         y)), d), (((n1 * ((n5 * (n4 * n3)) + ((n1 * n3) * D))) + ((n6 * (n4 * n3)) * n4)) * n3),
         D5)
  BY <1>22, <1>c, <1>5, OverMul
<1>24. IsOver(RAdd(RSub(RMul(RSub(RMul(f, RMul(y, d)), RMul(e, d)), RMul(e, d)), RMul(RAdd(RMul(v,
         RMul(y, d)), RMul(RAdd(f, u), RMul(e, d))), RMul(y, d))), RMul(RAdd(RMul(e, RAdd(RMul(u,
         RMul(y, d)), RMul(e, d))), RMul(RMul(v, RMul(y, d)), y)), d)), (((((n2 * (n4 * n3)) -
         ((n1 * n3) * D)) * (n1 * n3)) - (((n6 * (n4 * n3)) + ((n2 + n5) * (n1 * n3))) * (n4 *
         n3))) + (((n1 * ((n5 * (n4 * n3)) + ((n1 * n3) * D))) + ((n6 * (n4 * n3)) * n4)) * n3)),
         D5)
  BY <1>17, <1>23, OverPlus
<1>25. IsOver(Zero, (0), D5)
  BY <1>4, OverZeroOne
<1>26. (((((n2 * (n4 * n3)) - ((n1 * n3) * D)) * (n1 * n3)) - (((n6 * (n4 * n3)) + ((n2 + n5) *
         (n1 * n3))) * (n4 * n3))) + (((n1 * ((n5 * (n4 * n3)) + ((n1 * n3) * D))) + ((n6 *
         (n4 * n3)) * n4)) * n3)) = (0)
  BY <1>3 DEF D2, D3, D4, D5, D6
<1>27. RAdd(RSub(RMul(RSub(RMul(f, RMul(y, d)), RMul(e, d)), RMul(e, d)), RMul(RAdd(RMul(v,
         RMul(y, d)), RMul(RAdd(f, u), RMul(e, d))), RMul(y, d))), RMul(RAdd(RMul(e, RAdd(RMul(u,
         RMul(y, d)), RMul(e, d))), RMul(RMul(v, RMul(y, d)), y)), d)) = Zero
  BY <1>24, <1>25, <1>26, OverEqual
<1>28. IsOver(RMul(u, RMul(e, d)), (n5 * (n1 * n3)), D3)
  BY <1>e, <1>6, <1>5, OverMul
<1>29. IsOver(RAdd(RMul(u, RMul(e, d)), RMul(v, RMul(y, d))), ((n5 * (n1 * n3)) + (n6 * (n4 * n3))),
         D3)
  BY <1>28, <1>12, OverPlus
<1>30. IsOver(RNeg(RAdd(RMul(u, RMul(e, d)), RMul(v, RMul(y, d)))), (-((n5 * (n1 * n3)) + (n6 *
         (n4 * n3)))), D3)
  BY <1>29, OverNeg
<1>31. IsOver(RMul(RSub(RMul(f, RMul(y, d)), RMul(e, d)), RNeg(RAdd(RMul(u, RMul(e, d)), RMul(v,
         RMul(y, d))))), (((n2 * (n4 * n3)) - ((n1 * n3) * D)) * (-((n5 * (n1 * n3)) + (n6 *
         (n4 * n3))))), D6)
  BY <1>10, <1>30, <1>5, OverMul
<1>32. IsOver(RMul(RAdd(RMul(v, RMul(y, d)), RMul(RAdd(f, u), RMul(e, d))), RMul(e, d)), (((n6 *
         (n4 * n3)) + ((n2 + n5) * (n1 * n3))) * (n1 * n3)), D5)
  BY <1>15, <1>6, <1>5, OverMul
<1>33. IsOver(RMul(RAdd(RMul(v, RMul(y, d)), RMul(RAdd(f, u), RMul(e, d))), RMul(e, d)), ((((n6 *
         (n4 * n3)) + ((n2 + n5) * (n1 * n3))) * (n1 * n3)) * D), D6)
  BY <1>32, <1>4, <1>5, OverPad
<1>34. IsOver(RSub(RMul(RSub(RMul(f, RMul(y, d)), RMul(e, d)), RNeg(RAdd(RMul(u, RMul(e, d)),
         RMul(v, RMul(y, d))))), RMul(RAdd(RMul(v, RMul(y, d)), RMul(RAdd(f, u), RMul(e, d))),
         RMul(e, d))), ((((n2 * (n4 * n3)) - ((n1 * n3) * D)) * (-((n5 * (n1 * n3)) + (n6 *
         (n4 * n3))))) - ((((n6 * (n4 * n3)) + ((n2 + n5) * (n1 * n3))) * (n1 * n3)) * D)), D6)
  BY <1>31, <1>33, OverMinus
<1>35. IsOver(RMul(f, d), (n2 * n3), D2)
  BY <1>b, <1>c, <1>5, OverMul
<1>36. IsOver(RMul(RAdd(RMul(e, RAdd(RMul(u, RMul(y, d)), RMul(e, d))), RMul(RMul(v, RMul(y, d)),
         y)), RMul(f, d)), (((n1 * ((n5 * (n4 * n3)) + ((n1 * n3) * D))) + ((n6 * (n4 * n3)) *
         n4)) * (n2 * n3)), D6)
  BY <1>22, <1>35, <1>5, OverMul
<1>37. IsOver(RAdd(RSub(RMul(RSub(RMul(f, RMul(y, d)), RMul(e, d)), RNeg(RAdd(RMul(u, RMul(e, d)),
         RMul(v, RMul(y, d))))), RMul(RAdd(RMul(v, RMul(y, d)), RMul(RAdd(f, u), RMul(e, d))),
         RMul(e, d))), RMul(RAdd(RMul(e, RAdd(RMul(u, RMul(y, d)), RMul(e, d))), RMul(RMul(v,
         RMul(y, d)), y)), RMul(f, d))), (((((n2 * (n4 * n3)) - ((n1 * n3) * D)) * (-((n5 *
         (n1 * n3)) + (n6 * (n4 * n3))))) - ((((n6 * (n4 * n3)) + ((n2 + n5) * (n1 * n3))) *
         (n1 * n3)) * D)) + (((n1 * ((n5 * (n4 * n3)) + ((n1 * n3) * D))) + ((n6 * (n4 * n3)) *
         n4)) * (n2 * n3))), D6)
  BY <1>34, <1>36, OverPlus
<1>38. IsOver(Zero, (0), D6)
  BY <1>4, OverZeroOne
<1>39. (((((n2 * (n4 * n3)) - ((n1 * n3) * D)) * (-((n5 * (n1 * n3)) + (n6 * (n4 * n3))))) -
         ((((n6 * (n4 * n3)) + ((n2 + n5) * (n1 * n3))) * (n1 * n3)) * D)) + (((n1 * ((n5 *
         (n4 * n3)) + ((n1 * n3) * D))) + ((n6 * (n4 * n3)) * n4)) * (n2 * n3))) = (0)
  BY <1>3 DEF D2, D3, D4, D5, D6
<1>40. RAdd(RSub(RMul(RSub(RMul(f, RMul(y, d)), RMul(e, d)), RNeg(RAdd(RMul(u, RMul(e, d)),
         RMul(v, RMul(y, d))))), RMul(RAdd(RMul(v, RMul(y, d)), RMul(RAdd(f, u), RMul(e, d))),
         RMul(e, d))), RMul(RAdd(RMul(e, RAdd(RMul(u, RMul(y, d)), RMul(e, d))), RMul(RMul(v,
         RMul(y, d)), y)), RMul(f, d))) = Zero
  BY <1>37, <1>38, <1>39, OverEqual
<1>41. QED
  BY <1>27, <1>40 DEF (+), (-), (.), SecondScalarsLaw

\* A multiple of the product by x^2 + u x + v.
ScaledProductLaw(t, x0, x1, x2, u, v) ==
    /\ t (.) (v (.) x2 (+) u (.) x1 (+) One (.) x0) = t (.) x0 (+) (u (.) (t (.) x1) (+) v (.)
             (t (.) x2))
    /\ t (.) x0 (+) (u (.) (t (.) x1) (+) v (.) (t (.) x2)) = t (.) (x0 (+) (u (.) x1 (+)
             v (.) x2))

\* A multiple of the product by a quadratic.
LEMMA ScaledProduct ==
  ASSUME NEW t \in Rat, NEW x0 \in Rat, NEW x1 \in Rat, NEW x2 \in Rat, NEW u \in Rat,
         NEW v \in Rat
  PROVE  ScaledProductLaw(t, x0, x1, x2, u, v)
<1> DEFINE F == [i \in 1 .. 6 |-> IF i = 1 THEN t ELSE IF i = 2 THEN x0 ELSE IF i =
         3 THEN x1 ELSE IF i = 4 THEN x2 ELSE IF i = 5 THEN u ELSE v]
<1>1. F \in [1 .. 6 -> Rat] /\ F[1] = t /\ F[2] = x0 /\ F[3] = x1 /\ F[4] = x2 /\ F[5] = u /\
         F[6] = v
  OBVIOUS
<1> HIDE DEF F
<1>2. PICK D \in Int \ {0}, G \in [1 .. 6 -> Int] : \A i \in 1 .. 6 : Is(F[i], G[i], D)
  BY <1>1, CommonDenominator DEF AllOver
<1> DEFINE n1 == G[1]
           n2 == G[2]
           n3 == G[3]
           n4 == G[4]
           n5 == G[5]
           n6 == G[6]
           D2 == D * D
           D3 == D2 * D
<1>3. n1 \in Int /\ n2 \in Int /\ n3 \in Int /\ n4 \in Int /\ n5 \in Int /\ n6 \in Int
  BY <1>2
<1>a. IsOver(t, n1, D)
  BY <1>1, <1>2 DEF IsOver
<1>b. IsOver(x0, n2, D)
  BY <1>1, <1>2 DEF IsOver
<1>c. IsOver(x1, n3, D)
  BY <1>1, <1>2 DEF IsOver
<1>d. IsOver(x2, n4, D)
  BY <1>1, <1>2 DEF IsOver
<1>e. IsOver(u, n5, D)
  BY <1>1, <1>2 DEF IsOver
<1>f. IsOver(v, n6, D)
  BY <1>1, <1>2 DEF IsOver
<1>4. D2 \in Int \ {0} /\ D3 \in Int \ {0}
  BY NonZero
<1>5. D2 = D * D /\ D3 = D * D2 /\ D3 = D2 * D
  OBVIOUS
<1> HIDE DEF n1, n2, n3, n4, n5, n6, D2, D3
<1>6. IsOver(RMul(v, x2), (n6 * n4), D2)
  BY <1>f, <1>d, <1>5, OverMul
<1>7. IsOver(RMul(u, x1), (n5 * n3), D2)
  BY <1>e, <1>c, <1>5, OverMul
<1>8. IsOver(RAdd(RMul(v, x2), RMul(u, x1)), ((n6 * n4) + (n5 * n3)), D2)
  BY <1>6, <1>7, OverPlus
<1>9. IsOver(One, (D), D)
  BY <1>4, OverZeroOne
<1>10. IsOver(RMul(One, x0), ((D) * n2), D2)
  BY <1>9, <1>b, <1>5, OverMul
<1>11. IsOver(RAdd(RAdd(RMul(v, x2), RMul(u, x1)), RMul(One, x0)), (((n6 * n4) + (n5 * n3)) +
         ((D) * n2)), D2)
  BY <1>8, <1>10, OverPlus
<1>12. IsOver(RMul(t, RAdd(RAdd(RMul(v, x2), RMul(u, x1)), RMul(One, x0))), (n1 * (((n6 * n4) +
         (n5 * n3)) + ((D) * n2))), D3)
  BY <1>a, <1>11, <1>5, OverMul
<1>13. IsOver(RMul(t, x0), (n1 * n2), D2)
  BY <1>a, <1>b, <1>5, OverMul
<1>14. IsOver(RMul(t, x0), ((n1 * n2) * D), D3)
  BY <1>13, <1>4, <1>5, OverPad
<1>15. IsOver(RMul(t, x1), (n1 * n3), D2)
  BY <1>a, <1>c, <1>5, OverMul
<1>16. IsOver(RMul(u, RMul(t, x1)), (n5 * (n1 * n3)), D3)
  BY <1>e, <1>15, <1>5, OverMul
<1>17. IsOver(RMul(t, x2), (n1 * n4), D2)
  BY <1>a, <1>d, <1>5, OverMul
<1>18. IsOver(RMul(v, RMul(t, x2)), (n6 * (n1 * n4)), D3)
  BY <1>f, <1>17, <1>5, OverMul
<1>19. IsOver(RAdd(RMul(u, RMul(t, x1)), RMul(v, RMul(t, x2))), ((n5 * (n1 * n3)) + (n6 * (n1 *
         n4))), D3)
  BY <1>16, <1>18, OverPlus
<1>20. IsOver(RAdd(RMul(t, x0), RAdd(RMul(u, RMul(t, x1)), RMul(v, RMul(t, x2)))), (((n1 * n2) *
         D) + ((n5 * (n1 * n3)) + (n6 * (n1 * n4)))), D3)
  BY <1>14, <1>19, OverPlus
<1>21. (n1 * (((n6 * n4) + (n5 * n3)) + ((D) * n2))) = (((n1 * n2) * D) + ((n5 * (n1 * n3)) +
         (n6 * (n1 * n4))))
  BY <1>3 DEF D2, D3
<1>22. RMul(t, RAdd(RAdd(RMul(v, x2), RMul(u, x1)), RMul(One, x0))) = RAdd(RMul(t, x0),
         RAdd(RMul(u, RMul(t, x1)), RMul(v, RMul(t, x2))))
  BY <1>12, <1>20, <1>21, OverEqual
<1>23. IsOver(x0, (n2 * D), D2)
  BY <1>b, <1>4, <1>5, OverPad
<1>24. IsOver(RAdd(RMul(u, x1), RMul(v, x2)), ((n5 * n3) + (n6 * n4)), D2)
  BY <1>7, <1>6, OverPlus
<1>25. IsOver(RAdd(x0, RAdd(RMul(u, x1), RMul(v, x2))), ((n2 * D) + ((n5 * n3) + (n6 * n4))), D2)
  BY <1>23, <1>24, OverPlus
<1>26. IsOver(RMul(t, RAdd(x0, RAdd(RMul(u, x1), RMul(v, x2)))), (n1 * ((n2 * D) + ((n5 * n3) +
         (n6 * n4)))), D3)
  BY <1>a, <1>25, <1>5, OverMul
<1>27. (((n1 * n2) * D) + ((n5 * (n1 * n3)) + (n6 * (n1 * n4)))) = (n1 * ((n2 * D) + ((n5 *
         n3) + (n6 * n4))))
  BY <1>3 DEF D2, D3
<1>28. RAdd(RMul(t, x0), RAdd(RMul(u, RMul(t, x1)), RMul(v, RMul(t, x2)))) = RMul(t, RAdd(x0,
         RAdd(RMul(u, x1), RMul(v, x2))))
  BY <1>20, <1>26, <1>27, OverEqual
<1>29. QED
  BY <1>22, <1>28 DEF (+), (-), (.), ScaledProductLaw

\* The product by x^2 + u x + v of a sum and of a difference.
SumOfProductsLaw(x0, x1, x2, y0, y1, y2, u, v) ==
    /\ x0 (+) y0 (+) (u (.) (x1 (+) y1) (+) v (.) (x2 (+) y2)) = x0 (+) (u (.) x1 (+) v (.)
             x2) (+) (y0 (+) (u (.) y1 (+) v (.) y2))
    /\ (x0 (-) y0) (+) (u (.) (x1 (-) y1) (+) v (.) (x2 (-) y2)) = (x0 (+) (u (.) x1 (+) v (.)
             x2)) (-) (y0 (+) (u (.) y1 (+) v (.) y2))

\* The sum of two products by a quadratic.
LEMMA SumOfProducts ==
  ASSUME NEW x0 \in Rat, NEW x1 \in Rat, NEW x2 \in Rat, NEW y0 \in Rat, NEW y1 \in Rat,
         NEW y2 \in Rat, NEW u \in Rat, NEW v \in Rat
  PROVE  SumOfProductsLaw(x0, x1, x2, y0, y1, y2, u, v)
<1> DEFINE F == [i \in 1 .. 8 |-> IF i = 1 THEN x0 ELSE IF i = 2 THEN x1 ELSE IF i =
         3 THEN x2 ELSE IF i = 4 THEN y0 ELSE IF i = 5 THEN y1 ELSE IF i = 6 THEN y2 ELSE IF i =
         7 THEN u ELSE v]
<1>1. F \in [1 .. 8 -> Rat] /\ F[1] = x0 /\ F[2] = x1 /\ F[3] = x2 /\ F[4] = y0 /\ F[5] =
         y1 /\ F[6] = y2 /\ F[7] = u /\ F[8] = v
  OBVIOUS
<1> HIDE DEF F
<1>2. PICK D \in Int \ {0}, G \in [1 .. 8 -> Int] : \A i \in 1 .. 8 : Is(F[i], G[i], D)
  BY <1>1, CommonDenominator DEF AllOver
<1> DEFINE n1 == G[1]
           n2 == G[2]
           n3 == G[3]
           n4 == G[4]
           n5 == G[5]
           n6 == G[6]
           n7 == G[7]
           n8 == G[8]
           D2 == D * D
<1>3. n1 \in Int /\ n2 \in Int /\ n3 \in Int /\ n4 \in Int /\ n5 \in Int /\ n6 \in Int
      /\ n7 \in Int /\ n8 \in Int
  BY <1>2
<1>a. IsOver(x0, n1, D)
  BY <1>1, <1>2 DEF IsOver
<1>b. IsOver(x1, n2, D)
  BY <1>1, <1>2 DEF IsOver
<1>c. IsOver(x2, n3, D)
  BY <1>1, <1>2 DEF IsOver
<1>d. IsOver(y0, n4, D)
  BY <1>1, <1>2 DEF IsOver
<1>e. IsOver(y1, n5, D)
  BY <1>1, <1>2 DEF IsOver
<1>f. IsOver(y2, n6, D)
  BY <1>1, <1>2 DEF IsOver
<1>g. IsOver(u, n7, D)
  BY <1>1, <1>2 DEF IsOver
<1>h. IsOver(v, n8, D)
  BY <1>1, <1>2 DEF IsOver
<1>4. D2 \in Int \ {0}
  BY NonZero
<1>5. D2 = D * D
  OBVIOUS
<1> HIDE DEF n1, n2, n3, n4, n5, n6, n7, n8, D2
<1>6. IsOver(RAdd(x0, y0), (n1 + n4), D)
  BY <1>a, <1>d, OverPlus
<1>7. IsOver(RAdd(x0, y0), ((n1 + n4) * D), D2)
  BY <1>6, <1>4, <1>5, OverPad
<1>8. IsOver(RAdd(x1, y1), (n2 + n5), D)
  BY <1>b, <1>e, OverPlus
<1>9. IsOver(RMul(u, RAdd(x1, y1)), (n7 * (n2 + n5)), D2)
  BY <1>g, <1>8, <1>5, OverMul
<1>10. IsOver(RAdd(x2, y2), (n3 + n6), D)
  BY <1>c, <1>f, OverPlus
<1>11. IsOver(RMul(v, RAdd(x2, y2)), (n8 * (n3 + n6)), D2)
  BY <1>h, <1>10, <1>5, OverMul
<1>12. IsOver(RAdd(RMul(u, RAdd(x1, y1)), RMul(v, RAdd(x2, y2))), ((n7 * (n2 + n5)) + (n8 * (n3 +
         n6))), D2)
  BY <1>9, <1>11, OverPlus
<1>13. IsOver(RAdd(RAdd(x0, y0), RAdd(RMul(u, RAdd(x1, y1)), RMul(v, RAdd(x2, y2)))), (((n1 + n4) *
         D) + ((n7 * (n2 + n5)) + (n8 * (n3 + n6)))), D2)
  BY <1>7, <1>12, OverPlus
<1>14. IsOver(x0, (n1 * D), D2)
  BY <1>a, <1>4, <1>5, OverPad
<1>15. IsOver(RMul(u, x1), (n7 * n2), D2)
  BY <1>g, <1>b, <1>5, OverMul
<1>16. IsOver(RMul(v, x2), (n8 * n3), D2)
  BY <1>h, <1>c, <1>5, OverMul
<1>17. IsOver(RAdd(RMul(u, x1), RMul(v, x2)), ((n7 * n2) + (n8 * n3)), D2)
  BY <1>15, <1>16, OverPlus
<1>18. IsOver(RAdd(x0, RAdd(RMul(u, x1), RMul(v, x2))), ((n1 * D) + ((n7 * n2) + (n8 * n3))), D2)
  BY <1>14, <1>17, OverPlus
<1>19. IsOver(y0, (n4 * D), D2)
  BY <1>d, <1>4, <1>5, OverPad
<1>20. IsOver(RMul(u, y1), (n7 * n5), D2)
  BY <1>g, <1>e, <1>5, OverMul
<1>21. IsOver(RMul(v, y2), (n8 * n6), D2)
  BY <1>h, <1>f, <1>5, OverMul
<1>22. IsOver(RAdd(RMul(u, y1), RMul(v, y2)), ((n7 * n5) + (n8 * n6)), D2)
  BY <1>20, <1>21, OverPlus
<1>23. IsOver(RAdd(y0, RAdd(RMul(u, y1), RMul(v, y2))), ((n4 * D) + ((n7 * n5) + (n8 * n6))), D2)
  BY <1>19, <1>22, OverPlus
<1>24. IsOver(RAdd(RAdd(x0, RAdd(RMul(u, x1), RMul(v, x2))), RAdd(y0, RAdd(RMul(u, y1), RMul(v,
         y2)))), (((n1 * D) + ((n7 * n2) + (n8 * n3))) + ((n4 * D) + ((n7 * n5) + (n8 * n6)))), D2)
  BY <1>18, <1>23, OverPlus
<1>25. (((n1 + n4) * D) + ((n7 * (n2 + n5)) + (n8 * (n3 + n6)))) = (((n1 * D) + ((n7 * n2) +
         (n8 * n3))) + ((n4 * D) + ((n7 * n5) + (n8 * n6))))
  BY <1>3 DEF D2
<1>26. RAdd(RAdd(x0, y0), RAdd(RMul(u, RAdd(x1, y1)), RMul(v, RAdd(x2, y2)))) = RAdd(RAdd(x0,
         RAdd(RMul(u, x1), RMul(v, x2))), RAdd(y0, RAdd(RMul(u, y1), RMul(v, y2))))
  BY <1>13, <1>24, <1>25, OverEqual
<1>27. IsOver(RSub(x0, y0), (n1 - n4), D)
  BY <1>a, <1>d, OverMinus
<1>28. IsOver(RSub(x0, y0), ((n1 - n4) * D), D2)
  BY <1>27, <1>4, <1>5, OverPad
<1>29. IsOver(RSub(x1, y1), (n2 - n5), D)
  BY <1>b, <1>e, OverMinus
<1>30. IsOver(RMul(u, RSub(x1, y1)), (n7 * (n2 - n5)), D2)
  BY <1>g, <1>29, <1>5, OverMul
<1>31. IsOver(RSub(x2, y2), (n3 - n6), D)
  BY <1>c, <1>f, OverMinus
<1>32. IsOver(RMul(v, RSub(x2, y2)), (n8 * (n3 - n6)), D2)
  BY <1>h, <1>31, <1>5, OverMul
<1>33. IsOver(RAdd(RMul(u, RSub(x1, y1)), RMul(v, RSub(x2, y2))), ((n7 * (n2 - n5)) + (n8 * (n3 -
         n6))), D2)
  BY <1>30, <1>32, OverPlus
<1>34. IsOver(RAdd(RSub(x0, y0), RAdd(RMul(u, RSub(x1, y1)), RMul(v, RSub(x2, y2)))), (((n1 - n4) *
         D) + ((n7 * (n2 - n5)) + (n8 * (n3 - n6)))), D2)
  BY <1>28, <1>33, OverPlus
<1>35. IsOver(RSub(RAdd(x0, RAdd(RMul(u, x1), RMul(v, x2))), RAdd(y0, RAdd(RMul(u, y1), RMul(v,
         y2)))), (((n1 * D) + ((n7 * n2) + (n8 * n3))) - ((n4 * D) + ((n7 * n5) + (n8 * n6)))), D2)
  BY <1>18, <1>23, OverMinus
<1>36. (((n1 - n4) * D) + ((n7 * (n2 - n5)) + (n8 * (n3 - n6)))) = (((n1 * D) + ((n7 * n2) +
         (n8 * n3))) - ((n4 * D) + ((n7 * n5) + (n8 * n6))))
  BY <1>3 DEF D2
<1>37. RAdd(RSub(x0, y0), RAdd(RMul(u, RSub(x1, y1)), RMul(v, RSub(x2, y2)))) = RSub(RAdd(x0,
         RAdd(RMul(u, x1), RMul(v, x2))), RAdd(y0, RAdd(RMul(u, y1), RMul(v, y2))))
  BY <1>34, <1>35, <1>36, OverEqual
<1>38. QED
  BY <1>26, <1>37 DEF (+), (-), (.), SumOfProductsLaw

\* A multiple of a scaled step.
ScaledStepLaw(t, l, x, q, y, w, z) ==
    t (.) (l (.) x (+) (RNeg(q) (.) y (+) w (.) z)) = (l (.) t (.) x (-) q (.) t (.) y) (+)
             w (.) t (.) z

\* A multiple of a step scaled by the leading scalar.
LEMMA ScaledStep ==
  ASSUME NEW t \in Rat, NEW l \in Rat, NEW x \in Rat, NEW q \in Rat, NEW y \in Rat,
         NEW w \in Rat, NEW z \in Rat
  PROVE  ScaledStepLaw(t, l, x, q, y, w, z)
<1> DEFINE F == [i \in 1 .. 7 |-> IF i = 1 THEN t ELSE IF i = 2 THEN l ELSE IF i =
         3 THEN x ELSE IF i = 4 THEN q ELSE IF i = 5 THEN y ELSE IF i = 6 THEN w ELSE z]
<1>1. F \in [1 .. 7 -> Rat] /\ F[1] = t /\ F[2] = l /\ F[3] = x /\ F[4] = q /\ F[5] = y /\
         F[6] = w /\ F[7] = z
  OBVIOUS
<1> HIDE DEF F
<1>2. PICK D \in Int \ {0}, G \in [1 .. 7 -> Int] : \A i \in 1 .. 7 : Is(F[i], G[i], D)
  BY <1>1, CommonDenominator DEF AllOver
<1> DEFINE n1 == G[1]
           n2 == G[2]
           n3 == G[3]
           n4 == G[4]
           n5 == G[5]
           n6 == G[6]
           n7 == G[7]
           D2 == D * D
           D3 == D2 * D
<1>3. n1 \in Int /\ n2 \in Int /\ n3 \in Int /\ n4 \in Int /\ n5 \in Int /\ n6 \in Int
      /\ n7 \in Int
  BY <1>2
<1>a. IsOver(t, n1, D)
  BY <1>1, <1>2 DEF IsOver
<1>b. IsOver(l, n2, D)
  BY <1>1, <1>2 DEF IsOver
<1>c. IsOver(x, n3, D)
  BY <1>1, <1>2 DEF IsOver
<1>d. IsOver(q, n4, D)
  BY <1>1, <1>2 DEF IsOver
<1>e. IsOver(y, n5, D)
  BY <1>1, <1>2 DEF IsOver
<1>f. IsOver(w, n6, D)
  BY <1>1, <1>2 DEF IsOver
<1>g. IsOver(z, n7, D)
  BY <1>1, <1>2 DEF IsOver
<1>4. D2 \in Int \ {0} /\ D3 \in Int \ {0}
  BY NonZero
<1>5. D2 = D * D /\ D3 = D * D2 /\ D3 = D2 * D
  OBVIOUS
<1> HIDE DEF n1, n2, n3, n4, n5, n6, n7, D2, D3
<1>6. IsOver(RMul(l, x), (n2 * n3), D2)
  BY <1>b, <1>c, <1>5, OverMul
<1>7. IsOver(RNeg(q), (-n4), D)
  BY <1>d, OverNeg
<1>8. IsOver(RMul(RNeg(q), y), ((-n4) * n5), D2)
  BY <1>7, <1>e, <1>5, OverMul
<1>9. IsOver(RMul(w, z), (n6 * n7), D2)
  BY <1>f, <1>g, <1>5, OverMul
<1>10. IsOver(RAdd(RMul(RNeg(q), y), RMul(w, z)), (((-n4) * n5) + (n6 * n7)), D2)
  BY <1>8, <1>9, OverPlus
<1>11. IsOver(RAdd(RMul(l, x), RAdd(RMul(RNeg(q), y), RMul(w, z))), ((n2 * n3) + (((-n4) * n5) +
         (n6 * n7))), D2)
  BY <1>6, <1>10, OverPlus
<1>12. IsOver(RMul(t, RAdd(RMul(l, x), RAdd(RMul(RNeg(q), y), RMul(w, z)))), (n1 * ((n2 * n3) +
         (((-n4) * n5) + (n6 * n7)))), D3)
  BY <1>a, <1>11, <1>5, OverMul
<1>13. IsOver(RMul(l, t), (n2 * n1), D2)
  BY <1>b, <1>a, <1>5, OverMul
<1>14. IsOver(RMul(RMul(l, t), x), ((n2 * n1) * n3), D3)
  BY <1>13, <1>c, <1>5, OverMul
<1>15. IsOver(RMul(q, t), (n4 * n1), D2)
  BY <1>d, <1>a, <1>5, OverMul
<1>16. IsOver(RMul(RMul(q, t), y), ((n4 * n1) * n5), D3)
  BY <1>15, <1>e, <1>5, OverMul
<1>17. IsOver(RSub(RMul(RMul(l, t), x), RMul(RMul(q, t), y)), (((n2 * n1) * n3) - ((n4 * n1) * n5)),
         D3)
  BY <1>14, <1>16, OverMinus
<1>18. IsOver(RMul(w, t), (n6 * n1), D2)
  BY <1>f, <1>a, <1>5, OverMul
<1>19. IsOver(RMul(RMul(w, t), z), ((n6 * n1) * n7), D3)
  BY <1>18, <1>g, <1>5, OverMul
<1>20. IsOver(RAdd(RSub(RMul(RMul(l, t), x), RMul(RMul(q, t), y)), RMul(RMul(w, t), z)), ((((n2 *
         n1) * n3) - ((n4 * n1) * n5)) + ((n6 * n1) * n7)), D3)
  BY <1>17, <1>19, OverPlus
<1>21. (n1 * ((n2 * n3) + (((-n4) * n5) + (n6 * n7)))) = ((((n2 * n1) * n3) - ((n4 * n1) *
         n5)) + ((n6 * n1) * n7))
  BY <1>3 DEF D2, D3
<1>22. RMul(t, RAdd(RMul(l, x), RAdd(RMul(RNeg(q), y), RMul(w, z)))) = RAdd(RSub(RMul(RMul(l, t),
         x), RMul(RMul(q, t), y)), RMul(RMul(w, t), z))
  BY <1>12, <1>20, <1>21, OverEqual
<1>23. QED
  BY <1>22 DEF (+), (-), (.), ScaledStepLaw

-----------------------------------------------------------------------------
(* Identities of the estimate of newest_ak1                                 *)

\* The cross product of two remainders.
CrossIsLaw(d1, c1, d2, c2, u) ==
    d1 (.) (c2 (+) d2 (.) u) (-) (c1 (+) d1 (.) u) (.) d2 = d1 (.) c2 (-) c1 (.) d2

\* The quadratic's u cancels in the cross product of two remainders.
LEMMA CrossIs ==
  ASSUME NEW d1 \in Rat, NEW c1 \in Rat, NEW d2 \in Rat, NEW c2 \in Rat, NEW u \in Rat
  PROVE  CrossIsLaw(d1, c1, d2, c2, u)
<1> DEFINE F == [i \in 1 .. 5 |-> IF i = 1 THEN d1 ELSE IF i = 2 THEN c1 ELSE IF i =
         3 THEN d2 ELSE IF i = 4 THEN c2 ELSE u]
<1>1. F \in [1 .. 5 -> Rat] /\ F[1] = d1 /\ F[2] = c1 /\ F[3] = d2 /\ F[4] = c2 /\ F[5] = u
  OBVIOUS
<1> HIDE DEF F
<1>2. PICK D \in Int \ {0}, G \in [1 .. 5 -> Int] : \A i \in 1 .. 5 : Is(F[i], G[i], D)
  BY <1>1, CommonDenominator DEF AllOver
<1> DEFINE n1 == G[1]
           n2 == G[2]
           n3 == G[3]
           n4 == G[4]
           n5 == G[5]
           D2 == D * D
           D3 == D2 * D
<1>3. n1 \in Int /\ n2 \in Int /\ n3 \in Int /\ n4 \in Int /\ n5 \in Int
  BY <1>2
<1>a. IsOver(d1, n1, D)
  BY <1>1, <1>2 DEF IsOver
<1>b. IsOver(c1, n2, D)
  BY <1>1, <1>2 DEF IsOver
<1>c. IsOver(d2, n3, D)
  BY <1>1, <1>2 DEF IsOver
<1>d. IsOver(c2, n4, D)
  BY <1>1, <1>2 DEF IsOver
<1>e. IsOver(u, n5, D)
  BY <1>1, <1>2 DEF IsOver
<1>4. D2 \in Int \ {0} /\ D3 \in Int \ {0}
  BY NonZero
<1>5. D2 = D * D /\ D3 = D * D2 /\ D3 = D2 * D
  OBVIOUS
<1> HIDE DEF n1, n2, n3, n4, n5, D2, D3
<1>6. IsOver(c2, (n4 * D), D2)
  BY <1>d, <1>4, <1>5, OverPad
<1>7. IsOver(RMul(d2, u), (n3 * n5), D2)
  BY <1>c, <1>e, <1>5, OverMul
<1>8. IsOver(RAdd(c2, RMul(d2, u)), ((n4 * D) + (n3 * n5)), D2)
  BY <1>6, <1>7, OverPlus
<1>9. IsOver(RMul(d1, RAdd(c2, RMul(d2, u))), (n1 * ((n4 * D) + (n3 * n5))), D3)
  BY <1>a, <1>8, <1>5, OverMul
<1>10. IsOver(c1, (n2 * D), D2)
  BY <1>b, <1>4, <1>5, OverPad
<1>11. IsOver(RMul(d1, u), (n1 * n5), D2)
  BY <1>a, <1>e, <1>5, OverMul
<1>12. IsOver(RAdd(c1, RMul(d1, u)), ((n2 * D) + (n1 * n5)), D2)
  BY <1>10, <1>11, OverPlus
<1>13. IsOver(RMul(RAdd(c1, RMul(d1, u)), d2), (((n2 * D) + (n1 * n5)) * n3), D3)
  BY <1>12, <1>c, <1>5, OverMul
<1>14. IsOver(RSub(RMul(d1, RAdd(c2, RMul(d2, u))), RMul(RAdd(c1, RMul(d1, u)), d2)), ((n1 * ((n4 *
         D) + (n3 * n5))) - (((n2 * D) + (n1 * n5)) * n3)), D3)
  BY <1>9, <1>13, OverMinus
<1>15. IsOver(RMul(d1, c2), (n1 * n4), D2)
  BY <1>a, <1>d, <1>5, OverMul
<1>16. IsOver(RMul(c1, d2), (n2 * n3), D2)
  BY <1>b, <1>c, <1>5, OverMul
<1>17. IsOver(RSub(RMul(d1, c2), RMul(c1, d2)), ((n1 * n4) - (n2 * n3)), D2)
  BY <1>15, <1>16, OverMinus
<1>18. IsOver(RSub(RMul(d1, c2), RMul(c1, d2)), (((n1 * n4) - (n2 * n3)) * D), D3)
  BY <1>17, <1>4, <1>5, OverPad
<1>19. ((n1 * ((n4 * D) + (n3 * n5))) - (((n2 * D) + (n1 * n5)) * n3)) = (((n1 * n4) - (n2 *
         n3)) * D)
  BY <1>3 DEF D2, D3
<1>20. RSub(RMul(d1, RAdd(c2, RMul(d2, u))), RMul(RAdd(c1, RMul(d1, u)), d2)) = RSub(RMul(d1,
         c2), RMul(c1, d2))
  BY <1>14, <1>18, <1>19, OverEqual
<1>21. QED
  BY <1>20 DEF (+), (-), (.), CrossIsLaw

\* Cross products times the product of the shift.
CrossTwiceLaw(v, d1, c1, d2, c2) ==
    /\ v (.) (v (.) (d1 (.) c2 (-) c1 (.) d2)) = v (.) d1 (.) (v (.) c2) (-) c1 (.) (v (.)
             (v (.) d2))
    /\ v (.) (v (.) (d1 (.) c2 (-) c1 (.) d2)) = v (.) (d1 (.) (v (.) c2)) (-) c1 (.) (v (.)
             (v (.) d2))
    /\ v (.) (d1 (.) c2 (-) c1 (.) d2) = d1 (.) (v (.) c2) (-) c1 (.) (v (.) d2)

\* Cross products times v, distributed.
LEMMA CrossTwice ==
  ASSUME NEW v \in Rat, NEW d1 \in Rat, NEW c1 \in Rat, NEW d2 \in Rat, NEW c2 \in Rat
  PROVE  CrossTwiceLaw(v, d1, c1, d2, c2)
<1> DEFINE F == [i \in 1 .. 5 |-> IF i = 1 THEN v ELSE IF i = 2 THEN d1 ELSE IF i =
         3 THEN c1 ELSE IF i = 4 THEN d2 ELSE c2]
<1>1. F \in [1 .. 5 -> Rat] /\ F[1] = v /\ F[2] = d1 /\ F[3] = c1 /\ F[4] = d2 /\ F[5] = c2
  OBVIOUS
<1> HIDE DEF F
<1>2. PICK D \in Int \ {0}, G \in [1 .. 5 -> Int] : \A i \in 1 .. 5 : Is(F[i], G[i], D)
  BY <1>1, CommonDenominator DEF AllOver
<1> DEFINE n1 == G[1]
           n2 == G[2]
           n3 == G[3]
           n4 == G[4]
           n5 == G[5]
           D2 == D * D
           D3 == D2 * D
           D4 == D3 * D
<1>3. n1 \in Int /\ n2 \in Int /\ n3 \in Int /\ n4 \in Int /\ n5 \in Int
  BY <1>2
<1>a. IsOver(v, n1, D)
  BY <1>1, <1>2 DEF IsOver
<1>b. IsOver(d1, n2, D)
  BY <1>1, <1>2 DEF IsOver
<1>c. IsOver(c1, n3, D)
  BY <1>1, <1>2 DEF IsOver
<1>d. IsOver(d2, n4, D)
  BY <1>1, <1>2 DEF IsOver
<1>e. IsOver(c2, n5, D)
  BY <1>1, <1>2 DEF IsOver
<1>4. D2 \in Int \ {0} /\ D3 \in Int \ {0} /\ D4 \in Int \ {0}
  BY NonZero
<1>5. D2 = D * D /\ D3 = D * D2 /\ D4 = D * D3 /\ D3 = D2 * D /\ D4 = D2 * D2 /\ D4 = D3 * D
  OBVIOUS
<1> HIDE DEF n1, n2, n3, n4, n5, D2, D3, D4
<1>6. IsOver(RMul(d1, c2), (n2 * n5), D2)
  BY <1>b, <1>e, <1>5, OverMul
<1>7. IsOver(RMul(c1, d2), (n3 * n4), D2)
  BY <1>c, <1>d, <1>5, OverMul
<1>8. IsOver(RSub(RMul(d1, c2), RMul(c1, d2)), ((n2 * n5) - (n3 * n4)), D2)
  BY <1>6, <1>7, OverMinus
<1>9. IsOver(RMul(v, RSub(RMul(d1, c2), RMul(c1, d2))), (n1 * ((n2 * n5) - (n3 * n4))), D3)
  BY <1>a, <1>8, <1>5, OverMul
<1>10. IsOver(RMul(v, RMul(v, RSub(RMul(d1, c2), RMul(c1, d2)))), (n1 * (n1 * ((n2 * n5) - (n3 *
         n4)))), D4)
  BY <1>a, <1>9, <1>5, OverMul
<1>11. IsOver(RMul(v, c2), (n1 * n5), D2)
  BY <1>a, <1>e, <1>5, OverMul
<1>12. IsOver(RMul(v, d1), (n1 * n2), D2)
  BY <1>a, <1>b, <1>5, OverMul
<1>13. IsOver(RMul(RMul(v, d1), RMul(v, c2)), ((n1 * n2) * (n1 * n5)), D4)
  BY <1>12, <1>11, <1>5, OverMul
<1>14. IsOver(RMul(v, d2), (n1 * n4), D2)
  BY <1>a, <1>d, <1>5, OverMul
<1>15. IsOver(RMul(v, RMul(v, d2)), (n1 * (n1 * n4)), D3)
  BY <1>a, <1>14, <1>5, OverMul
<1>16. IsOver(RMul(c1, RMul(v, RMul(v, d2))), (n3 * (n1 * (n1 * n4))), D4)
  BY <1>c, <1>15, <1>5, OverMul
<1>17. IsOver(RSub(RMul(RMul(v, d1), RMul(v, c2)), RMul(c1, RMul(v, RMul(v, d2)))), (((n1 * n2) *
         (n1 * n5)) - (n3 * (n1 * (n1 * n4)))), D4)
  BY <1>13, <1>16, OverMinus
<1>18. (n1 * (n1 * ((n2 * n5) - (n3 * n4)))) = (((n1 * n2) * (n1 * n5)) - (n3 * (n1 * (n1 * n4))))
  BY <1>3 DEF D2, D3, D4
<1>19. RMul(v, RMul(v, RSub(RMul(d1, c2), RMul(c1, d2)))) = RSub(RMul(RMul(v, d1), RMul(v, c2)),
         RMul(c1, RMul(v, RMul(v, d2))))
  BY <1>10, <1>17, <1>18, OverEqual
<1>20. IsOver(RMul(d1, RMul(v, c2)), (n2 * (n1 * n5)), D3)
  BY <1>b, <1>11, <1>5, OverMul
<1>21. IsOver(RMul(v, RMul(d1, RMul(v, c2))), (n1 * (n2 * (n1 * n5))), D4)
  BY <1>a, <1>20, <1>5, OverMul
<1>22. IsOver(RSub(RMul(v, RMul(d1, RMul(v, c2))), RMul(c1, RMul(v, RMul(v, d2)))), ((n1 * (n2 *
         (n1 * n5))) - (n3 * (n1 * (n1 * n4)))), D4)
  BY <1>21, <1>16, OverMinus
<1>23. (n1 * (n1 * ((n2 * n5) - (n3 * n4)))) = ((n1 * (n2 * (n1 * n5))) - (n3 * (n1 * (n1 * n4))))
  BY <1>3 DEF D2, D3, D4
<1>24. RMul(v, RMul(v, RSub(RMul(d1, c2), RMul(c1, d2)))) = RSub(RMul(v, RMul(d1, RMul(v, c2))),
         RMul(c1, RMul(v, RMul(v, d2))))
  BY <1>10, <1>22, <1>23, OverEqual
<1>25. IsOver(RMul(c1, RMul(v, d2)), (n3 * (n1 * n4)), D3)
  BY <1>c, <1>14, <1>5, OverMul
<1>26. IsOver(RSub(RMul(d1, RMul(v, c2)), RMul(c1, RMul(v, d2))), ((n2 * (n1 * n5)) - (n3 * (n1 *
         n4))), D3)
  BY <1>20, <1>25, OverMinus
<1>27. (n1 * ((n2 * n5) - (n3 * n4))) = ((n2 * (n1 * n5)) - (n3 * (n1 * n4)))
  BY <1>3 DEF D2, D3, D4
<1>28. RMul(v, RSub(RMul(d1, c2), RMul(c1, d2))) = RSub(RMul(d1, RMul(v, c2)), RMul(c1, RMul(v,
         d2)))
  BY <1>9, <1>26, <1>27, OverEqual
<1>29. QED
  BY <1>19, <1>24, <1>28 DEF (+), (-), (.), CrossTwiceLaw

\* The remainder of the second step.
StepTwiceLaw(a, b, c1, d1, u, v, w) ==
    /\ v (.) (d1 (-) w (.) b) = v (.) d1 (-) w (.) (v (.) b)
    /\ v (.) (RNeg(c1 (+) u (.) d1) (+) w (.) (a (+) u (.) b)) = RNeg(v (.) c1 (+) u (.)
             (v (.) d1)) (+) v (.) (w (.) (a (+) u (.) b))

\* The parts of the second remainder times v, distributed.
LEMMA StepTwice ==
  ASSUME NEW a \in Rat, NEW b \in Rat, NEW c1 \in Rat, NEW d1 \in Rat, NEW u \in Rat,
         NEW v \in Rat, NEW w \in Rat
  PROVE  StepTwiceLaw(a, b, c1, d1, u, v, w)
<1> DEFINE F == [i \in 1 .. 7 |-> IF i = 1 THEN a ELSE IF i = 2 THEN b ELSE IF i =
         3 THEN c1 ELSE IF i = 4 THEN d1 ELSE IF i = 5 THEN u ELSE IF i = 6 THEN v ELSE w]
<1>1. F \in [1 .. 7 -> Rat] /\ F[1] = a /\ F[2] = b /\ F[3] = c1 /\ F[4] = d1 /\ F[5] = u /\
         F[6] = v /\ F[7] = w
  OBVIOUS
<1> HIDE DEF F
<1>2. PICK D \in Int \ {0}, G \in [1 .. 7 -> Int] : \A i \in 1 .. 7 : Is(F[i], G[i], D)
  BY <1>1, CommonDenominator DEF AllOver
<1> DEFINE n1 == G[1]
           n2 == G[2]
           n3 == G[3]
           n4 == G[4]
           n5 == G[5]
           n6 == G[6]
           n7 == G[7]
           D2 == D * D
           D3 == D2 * D
           D4 == D3 * D
<1>3. n1 \in Int /\ n2 \in Int /\ n3 \in Int /\ n4 \in Int /\ n5 \in Int /\ n6 \in Int
      /\ n7 \in Int
  BY <1>2
<1>a. IsOver(a, n1, D)
  BY <1>1, <1>2 DEF IsOver
<1>b. IsOver(b, n2, D)
  BY <1>1, <1>2 DEF IsOver
<1>c. IsOver(c1, n3, D)
  BY <1>1, <1>2 DEF IsOver
<1>d. IsOver(d1, n4, D)
  BY <1>1, <1>2 DEF IsOver
<1>e. IsOver(u, n5, D)
  BY <1>1, <1>2 DEF IsOver
<1>f. IsOver(v, n6, D)
  BY <1>1, <1>2 DEF IsOver
<1>g. IsOver(w, n7, D)
  BY <1>1, <1>2 DEF IsOver
<1>4. D2 \in Int \ {0} /\ D3 \in Int \ {0} /\ D4 \in Int \ {0}
  BY NonZero
<1>5. D2 = D * D /\ D3 = D * D2 /\ D4 = D * D3 /\ D3 = D2 * D /\ D4 = D2 * D2 /\ D4 = D3 * D
  OBVIOUS
<1> HIDE DEF n1, n2, n3, n4, n5, n6, n7, D2, D3, D4
<1>6. IsOver(d1, (n4 * D), D2)
  BY <1>d, <1>4, <1>5, OverPad
<1>7. IsOver(RMul(w, b), (n7 * n2), D2)
  BY <1>g, <1>b, <1>5, OverMul
<1>8. IsOver(RSub(d1, RMul(w, b)), ((n4 * D) - (n7 * n2)), D2)
  BY <1>6, <1>7, OverMinus
<1>9. IsOver(RMul(v, RSub(d1, RMul(w, b))), (n6 * ((n4 * D) - (n7 * n2))), D3)
  BY <1>f, <1>8, <1>5, OverMul
<1>10. IsOver(RMul(v, d1), (n6 * n4), D2)
  BY <1>f, <1>d, <1>5, OverMul
<1>11. IsOver(RMul(v, d1), ((n6 * n4) * D), D3)
  BY <1>10, <1>4, <1>5, OverPad
<1>12. IsOver(RMul(v, b), (n6 * n2), D2)
  BY <1>f, <1>b, <1>5, OverMul
<1>13. IsOver(RMul(w, RMul(v, b)), (n7 * (n6 * n2)), D3)
  BY <1>g, <1>12, <1>5, OverMul
<1>14. IsOver(RSub(RMul(v, d1), RMul(w, RMul(v, b))), (((n6 * n4) * D) - (n7 * (n6 * n2))), D3)
  BY <1>11, <1>13, OverMinus
<1>15. (n6 * ((n4 * D) - (n7 * n2))) = (((n6 * n4) * D) - (n7 * (n6 * n2)))
  BY <1>3 DEF D2, D3, D4
<1>16. RMul(v, RSub(d1, RMul(w, b))) = RSub(RMul(v, d1), RMul(w, RMul(v, b)))
  BY <1>9, <1>14, <1>15, OverEqual
<1>17. IsOver(c1, (n3 * D), D2)
  BY <1>c, <1>4, <1>5, OverPad
<1>18. IsOver(RMul(u, d1), (n5 * n4), D2)
  BY <1>e, <1>d, <1>5, OverMul
<1>19. IsOver(RAdd(c1, RMul(u, d1)), ((n3 * D) + (n5 * n4)), D2)
  BY <1>17, <1>18, OverPlus
<1>20. IsOver(RNeg(RAdd(c1, RMul(u, d1))), (-((n3 * D) + (n5 * n4))), D2)
  BY <1>19, OverNeg
<1>21. IsOver(RNeg(RAdd(c1, RMul(u, d1))), ((-((n3 * D) + (n5 * n4))) * D), D3)
  BY <1>20, <1>4, <1>5, OverPad
<1>22. IsOver(a, (n1 * D), D2)
  BY <1>a, <1>4, <1>5, OverPad
<1>23. IsOver(RMul(u, b), (n5 * n2), D2)
  BY <1>e, <1>b, <1>5, OverMul
<1>24. IsOver(RAdd(a, RMul(u, b)), ((n1 * D) + (n5 * n2)), D2)
  BY <1>22, <1>23, OverPlus
<1>25. IsOver(RMul(w, RAdd(a, RMul(u, b))), (n7 * ((n1 * D) + (n5 * n2))), D3)
  BY <1>g, <1>24, <1>5, OverMul
<1>26. IsOver(RAdd(RNeg(RAdd(c1, RMul(u, d1))), RMul(w, RAdd(a, RMul(u, b)))), (((-((n3 * D) +
         (n5 * n4))) * D) + (n7 * ((n1 * D) + (n5 * n2)))), D3)
  BY <1>21, <1>25, OverPlus
<1>27. IsOver(RMul(v, RAdd(RNeg(RAdd(c1, RMul(u, d1))), RMul(w, RAdd(a, RMul(u, b))))), (n6 *
         (((-((n3 * D) + (n5 * n4))) * D) + (n7 * ((n1 * D) + (n5 * n2))))), D4)
  BY <1>f, <1>26, <1>5, OverMul
<1>28. IsOver(RMul(v, c1), (n6 * n3), D2)
  BY <1>f, <1>c, <1>5, OverMul
<1>29. IsOver(RMul(v, c1), ((n6 * n3) * D), D3)
  BY <1>28, <1>4, <1>5, OverPad
<1>30. IsOver(RMul(u, RMul(v, d1)), (n5 * (n6 * n4)), D3)
  BY <1>e, <1>10, <1>5, OverMul
<1>31. IsOver(RAdd(RMul(v, c1), RMul(u, RMul(v, d1))), (((n6 * n3) * D) + (n5 * (n6 * n4))), D3)
  BY <1>29, <1>30, OverPlus
<1>32. IsOver(RNeg(RAdd(RMul(v, c1), RMul(u, RMul(v, d1)))), (-(((n6 * n3) * D) + (n5 * (n6 *
         n4)))), D3)
  BY <1>31, OverNeg
<1>33. IsOver(RNeg(RAdd(RMul(v, c1), RMul(u, RMul(v, d1)))), ((-(((n6 * n3) * D) + (n5 * (n6 *
         n4)))) * D), D4)
  BY <1>32, <1>4, <1>5, OverPad
<1>34. IsOver(RMul(v, RMul(w, RAdd(a, RMul(u, b)))), (n6 * (n7 * ((n1 * D) + (n5 * n2)))), D4)
  BY <1>f, <1>25, <1>5, OverMul
<1>35. IsOver(RAdd(RNeg(RAdd(RMul(v, c1), RMul(u, RMul(v, d1)))), RMul(v, RMul(w, RAdd(a, RMul(u,
         b))))), (((-(((n6 * n3) * D) + (n5 * (n6 * n4)))) * D) + (n6 * (n7 * ((n1 * D) + (n5 *
         n2))))), D4)
  BY <1>33, <1>34, OverPlus
<1>36. (n6 * (((-((n3 * D) + (n5 * n4))) * D) + (n7 * ((n1 * D) + (n5 * n2))))) = (((-(((n6 *
         n3) * D) + (n5 * (n6 * n4)))) * D) + (n6 * (n7 * ((n1 * D) + (n5 * n2)))))
  BY <1>3 DEF D2, D3, D4
<1>37. RMul(v, RAdd(RNeg(RAdd(c1, RMul(u, d1))), RMul(w, RAdd(a, RMul(u, b))))) =
         RAdd(RNeg(RAdd(RMul(v, c1), RMul(u, RMul(v, d1)))), RMul(v, RMul(w, RAdd(a, RMul(u, b)))))
  BY <1>27, <1>35, <1>36, OverEqual
<1>38. QED
  BY <1>16, <1>37 DEF (+), (-), (.), StepTwiceLaw

\* The scalars of the first kind times c.
FirstTimesLaw(e, f, c, u, b, y) ==
    /\ c (.) (b (-) e (.) c (.) f) = b (.) c (-) e (.) c (.) (f (.) c)
    /\ c (.) (e (.) (e (.) c) (+) (e (.) u (+) y) (.) b) = e (.) c (.) (e (.) c) (+) u (.)
             (e (.) c) (.) b (+) y (.) c (.) b

\* The products of the remainders, from the scalars of the first kind.
LEMMA FirstTimes ==
  ASSUME NEW e \in Rat, NEW f \in Rat, NEW c \in Rat, NEW u \in Rat, NEW b \in Rat,
         NEW y \in Rat
  PROVE  FirstTimesLaw(e, f, c, u, b, y)
<1> DEFINE F == [i \in 1 .. 6 |-> IF i = 1 THEN e ELSE IF i = 2 THEN f ELSE IF i =
         3 THEN c ELSE IF i = 4 THEN u ELSE IF i = 5 THEN b ELSE y]
<1>1. F \in [1 .. 6 -> Rat] /\ F[1] = e /\ F[2] = f /\ F[3] = c /\ F[4] = u /\ F[5] = b /\ F[6] = y
  OBVIOUS
<1> HIDE DEF F
<1>2. PICK D \in Int \ {0}, G \in [1 .. 6 -> Int] : \A i \in 1 .. 6 : Is(F[i], G[i], D)
  BY <1>1, CommonDenominator DEF AllOver
<1> DEFINE n1 == G[1]
           n2 == G[2]
           n3 == G[3]
           n4 == G[4]
           n5 == G[5]
           n6 == G[6]
           D2 == D * D
           D3 == D2 * D
           D4 == D3 * D
<1>3. n1 \in Int /\ n2 \in Int /\ n3 \in Int /\ n4 \in Int /\ n5 \in Int /\ n6 \in Int
  BY <1>2
<1>a. IsOver(e, n1, D)
  BY <1>1, <1>2 DEF IsOver
<1>b. IsOver(f, n2, D)
  BY <1>1, <1>2 DEF IsOver
<1>c. IsOver(c, n3, D)
  BY <1>1, <1>2 DEF IsOver
<1>d. IsOver(u, n4, D)
  BY <1>1, <1>2 DEF IsOver
<1>e. IsOver(b, n5, D)
  BY <1>1, <1>2 DEF IsOver
<1>f. IsOver(y, n6, D)
  BY <1>1, <1>2 DEF IsOver
<1>4. D2 \in Int \ {0} /\ D3 \in Int \ {0} /\ D4 \in Int \ {0}
  BY NonZero
<1>5. D2 = D * D /\ D3 = D * D2 /\ D4 = D * D3 /\ D3 = D2 * D /\ D4 = D2 * D2 /\ D4 = D3 * D
  OBVIOUS
<1> HIDE DEF n1, n2, n3, n4, n5, n6, D2, D3, D4
<1>6. IsOver(b, (n5 * D2), D3)
  BY <1>e, <1>4, <1>5, OverPad
<1>7. IsOver(RMul(e, c), (n1 * n3), D2)
  BY <1>a, <1>c, <1>5, OverMul
<1>8. IsOver(RMul(RMul(e, c), f), ((n1 * n3) * n2), D3)
  BY <1>7, <1>b, <1>5, OverMul
<1>9. IsOver(RSub(b, RMul(RMul(e, c), f)), ((n5 * D2) - ((n1 * n3) * n2)), D3)
  BY <1>6, <1>8, OverMinus
<1>10. IsOver(RMul(c, RSub(b, RMul(RMul(e, c), f))), (n3 * ((n5 * D2) - ((n1 * n3) * n2))), D4)
  BY <1>c, <1>9, <1>5, OverMul
<1>11. IsOver(RMul(b, c), (n5 * n3), D2)
  BY <1>e, <1>c, <1>5, OverMul
<1>12. IsOver(RMul(b, c), ((n5 * n3) * D2), D4)
  BY <1>11, <1>4, <1>5, OverPad
<1>13. IsOver(RMul(f, c), (n2 * n3), D2)
  BY <1>b, <1>c, <1>5, OverMul
<1>14. IsOver(RMul(RMul(e, c), RMul(f, c)), ((n1 * n3) * (n2 * n3)), D4)
  BY <1>7, <1>13, <1>5, OverMul
<1>15. IsOver(RSub(RMul(b, c), RMul(RMul(e, c), RMul(f, c))), (((n5 * n3) * D2) - ((n1 * n3) *
         (n2 * n3))), D4)
  BY <1>12, <1>14, OverMinus
<1>16. (n3 * ((n5 * D2) - ((n1 * n3) * n2))) = (((n5 * n3) * D2) - ((n1 * n3) * (n2 * n3)))
  BY <1>3 DEF D2, D3, D4
<1>17. RMul(c, RSub(b, RMul(RMul(e, c), f))) = RSub(RMul(b, c), RMul(RMul(e, c), RMul(f, c)))
  BY <1>10, <1>15, <1>16, OverEqual
<1>18. IsOver(RMul(e, RMul(e, c)), (n1 * (n1 * n3)), D3)
  BY <1>a, <1>7, <1>5, OverMul
<1>19. IsOver(RMul(e, u), (n1 * n4), D2)
  BY <1>a, <1>d, <1>5, OverMul
<1>20. IsOver(y, (n6 * D), D2)
  BY <1>f, <1>4, <1>5, OverPad
<1>21. IsOver(RAdd(RMul(e, u), y), ((n1 * n4) + (n6 * D)), D2)
  BY <1>19, <1>20, OverPlus
<1>22. IsOver(RMul(RAdd(RMul(e, u), y), b), (((n1 * n4) + (n6 * D)) * n5), D3)
  BY <1>21, <1>e, <1>5, OverMul
<1>23. IsOver(RAdd(RMul(e, RMul(e, c)), RMul(RAdd(RMul(e, u), y), b)), ((n1 * (n1 * n3)) + (((n1 *
         n4) + (n6 * D)) * n5)), D3)
  BY <1>18, <1>22, OverPlus
<1>24. IsOver(RMul(c, RAdd(RMul(e, RMul(e, c)), RMul(RAdd(RMul(e, u), y), b))), (n3 * ((n1 * (n1 *
         n3)) + (((n1 * n4) + (n6 * D)) * n5))), D4)
  BY <1>c, <1>23, <1>5, OverMul
<1>25. IsOver(RMul(RMul(e, c), RMul(e, c)), ((n1 * n3) * (n1 * n3)), D4)
  BY <1>7, <1>5, OverMul
<1>26. IsOver(RMul(u, RMul(e, c)), (n4 * (n1 * n3)), D3)
  BY <1>d, <1>7, <1>5, OverMul
<1>27. IsOver(RMul(RMul(u, RMul(e, c)), b), ((n4 * (n1 * n3)) * n5), D4)
  BY <1>26, <1>e, <1>5, OverMul
<1>28. IsOver(RAdd(RMul(RMul(e, c), RMul(e, c)), RMul(RMul(u, RMul(e, c)), b)), (((n1 * n3) * (n1 *
         n3)) + ((n4 * (n1 * n3)) * n5)), D4)
  BY <1>25, <1>27, OverPlus
<1>29. IsOver(RMul(y, c), (n6 * n3), D2)
  BY <1>f, <1>c, <1>5, OverMul
<1>30. IsOver(RMul(RMul(y, c), b), ((n6 * n3) * n5), D3)
  BY <1>29, <1>e, <1>5, OverMul
<1>31. IsOver(RMul(RMul(y, c), b), (((n6 * n3) * n5) * D), D4)
  BY <1>30, <1>4, <1>5, OverPad
<1>32. IsOver(RAdd(RAdd(RMul(RMul(e, c), RMul(e, c)), RMul(RMul(u, RMul(e, c)), b)), RMul(RMul(y,
         c), b)), ((((n1 * n3) * (n1 * n3)) + ((n4 * (n1 * n3)) * n5)) + (((n6 * n3) * n5) * D)),
         D4)
  BY <1>28, <1>31, OverPlus
<1>33. (n3 * ((n1 * (n1 * n3)) + (((n1 * n4) + (n6 * D)) * n5))) = ((((n1 * n3) * (n1 * n3)) +
         ((n4 * (n1 * n3)) * n5)) + (((n6 * n3) * n5) * D))
  BY <1>3 DEF D2, D3, D4
<1>34. RMul(c, RAdd(RMul(e, RMul(e, c)), RMul(RAdd(RMul(e, u), y), b))) = RAdd(RAdd(RMul(RMul(e,
         c), RMul(e, c)), RMul(RMul(u, RMul(e, c)), b)), RMul(RMul(y, c), b))
  BY <1>24, <1>32, <1>33, OverEqual
<1>35. QED
  BY <1>17, <1>34 DEF (+), (-), (.), FirstTimesLaw

FirstTimesAgainLaw(a, e, f, c, u, b, h, v) ==
    /\ c (.) (e (.) u (.) (f (.) c) (+) h (.) f (+) e (.) c) = u (.) (e (.) c) (.) (f (.)
             c) (+) h (.) (f (.) c) (+) e (.) c (.) c
    /\ c (.) (a (+) u (.) b (+) h (.) f) = a (.) c (+) u (.) b (.) c (+) h (.) (f (.) c)
    /\ c (.) (c (+) (u (+) v (.) f) (.) (f (.) c)) = c (.) c (+) u (.) c (.) (f (.) c) (+)
             v (.) (f (.) c) (.) (f (.) c)

\* The other products, from the scalars of the first kind.
LEMMA FirstTimesAgain ==
  ASSUME NEW a \in Rat, NEW e \in Rat, NEW f \in Rat, NEW c \in Rat, NEW u \in Rat,
         NEW b \in Rat, NEW h \in Rat, NEW v \in Rat
  PROVE  FirstTimesAgainLaw(a, e, f, c, u, b, h, v)
<1> DEFINE F == [i \in 1 .. 8 |-> IF i = 1 THEN a ELSE IF i = 2 THEN e ELSE IF i =
         3 THEN f ELSE IF i = 4 THEN c ELSE IF i = 5 THEN u ELSE IF i = 6 THEN b ELSE IF i =
         7 THEN h ELSE v]
<1>1. F \in [1 .. 8 -> Rat] /\ F[1] = a /\ F[2] = e /\ F[3] = f /\ F[4] = c /\ F[5] = u /\
         F[6] = b /\ F[7] = h /\ F[8] = v
  OBVIOUS
<1> HIDE DEF F
<1>2. PICK D \in Int \ {0}, G \in [1 .. 8 -> Int] : \A i \in 1 .. 8 : Is(F[i], G[i], D)
  BY <1>1, CommonDenominator DEF AllOver
<1> DEFINE n1 == G[1]
           n2 == G[2]
           n3 == G[3]
           n4 == G[4]
           n5 == G[5]
           n6 == G[6]
           n7 == G[7]
           n8 == G[8]
           D2 == D * D
           D3 == D2 * D
           D4 == D3 * D
           D5 == D4 * D
<1>3. n1 \in Int /\ n2 \in Int /\ n3 \in Int /\ n4 \in Int /\ n5 \in Int /\ n6 \in Int
      /\ n7 \in Int /\ n8 \in Int
  BY <1>2
<1>a. IsOver(a, n1, D)
  BY <1>1, <1>2 DEF IsOver
<1>b. IsOver(e, n2, D)
  BY <1>1, <1>2 DEF IsOver
<1>c. IsOver(f, n3, D)
  BY <1>1, <1>2 DEF IsOver
<1>d. IsOver(c, n4, D)
  BY <1>1, <1>2 DEF IsOver
<1>e. IsOver(u, n5, D)
  BY <1>1, <1>2 DEF IsOver
<1>f. IsOver(b, n6, D)
  BY <1>1, <1>2 DEF IsOver
<1>g. IsOver(h, n7, D)
  BY <1>1, <1>2 DEF IsOver
<1>h. IsOver(v, n8, D)
  BY <1>1, <1>2 DEF IsOver
<1>4. D2 \in Int \ {0} /\ D3 \in Int \ {0} /\ D4 \in Int \ {0} /\ D5 \in Int \ {0}
  BY NonZero
<1>5. D2 = D * D /\ D3 = D * D2 /\ D4 = D * D3 /\ D5 = D * D4 /\ D3 = D2 * D /\ D4 = D2 * D2
      /\ D5 = D2 * D3 /\ D4 = D3 * D /\ D5 = D3 * D2 /\ D5 = D4 * D
  OBVIOUS
<1> HIDE DEF n1, n2, n3, n4, n5, n6, n7, n8, D2, D3, D4, D5
<1>6. IsOver(RMul(f, c), (n3 * n4), D2)
  BY <1>c, <1>d, <1>5, OverMul
<1>7. IsOver(RMul(e, u), (n2 * n5), D2)
  BY <1>b, <1>e, <1>5, OverMul
<1>8. IsOver(RMul(RMul(e, u), RMul(f, c)), ((n2 * n5) * (n3 * n4)), D4)
  BY <1>7, <1>6, <1>5, OverMul
<1>9. IsOver(RMul(h, f), (n7 * n3), D2)
  BY <1>g, <1>c, <1>5, OverMul
<1>10. IsOver(RMul(h, f), ((n7 * n3) * D2), D4)
  BY <1>9, <1>4, <1>5, OverPad
<1>11. IsOver(RAdd(RMul(RMul(e, u), RMul(f, c)), RMul(h, f)), (((n2 * n5) * (n3 * n4)) + ((n7 *
         n3) * D2)), D4)
  BY <1>8, <1>10, OverPlus
<1>12. IsOver(RMul(e, c), (n2 * n4), D2)
  BY <1>b, <1>d, <1>5, OverMul
<1>13. IsOver(RMul(e, c), ((n2 * n4) * D2), D4)
  BY <1>12, <1>4, <1>5, OverPad
<1>14. IsOver(RAdd(RAdd(RMul(RMul(e, u), RMul(f, c)), RMul(h, f)), RMul(e, c)), ((((n2 * n5) *
         (n3 * n4)) + ((n7 * n3) * D2)) + ((n2 * n4) * D2)), D4)
  BY <1>11, <1>13, OverPlus
<1>15. IsOver(RMul(c, RAdd(RAdd(RMul(RMul(e, u), RMul(f, c)), RMul(h, f)), RMul(e, c))), (n4 *
         ((((n2 * n5) * (n3 * n4)) + ((n7 * n3) * D2)) + ((n2 * n4) * D2))), D5)
  BY <1>d, <1>14, <1>5, OverMul
<1>16. IsOver(RMul(u, RMul(e, c)), (n5 * (n2 * n4)), D3)
  BY <1>e, <1>12, <1>5, OverMul
<1>17. IsOver(RMul(RMul(u, RMul(e, c)), RMul(f, c)), ((n5 * (n2 * n4)) * (n3 * n4)), D5)
  BY <1>16, <1>6, <1>5, OverMul
<1>18. IsOver(RMul(h, RMul(f, c)), (n7 * (n3 * n4)), D3)
  BY <1>g, <1>6, <1>5, OverMul
<1>19. IsOver(RMul(h, RMul(f, c)), ((n7 * (n3 * n4)) * D2), D5)
  BY <1>18, <1>4, <1>5, OverPad
<1>20. IsOver(RAdd(RMul(RMul(u, RMul(e, c)), RMul(f, c)), RMul(h, RMul(f, c))), (((n5 * (n2 *
         n4)) * (n3 * n4)) + ((n7 * (n3 * n4)) * D2)), D5)
  BY <1>17, <1>19, OverPlus
<1>21. IsOver(RMul(RMul(e, c), c), ((n2 * n4) * n4), D3)
  BY <1>12, <1>d, <1>5, OverMul
<1>22. IsOver(RMul(RMul(e, c), c), (((n2 * n4) * n4) * D2), D5)
  BY <1>21, <1>4, <1>5, OverPad
<1>23. IsOver(RAdd(RAdd(RMul(RMul(u, RMul(e, c)), RMul(f, c)), RMul(h, RMul(f, c))), RMul(RMul(e,
         c), c)), ((((n5 * (n2 * n4)) * (n3 * n4)) + ((n7 * (n3 * n4)) * D2)) + (((n2 * n4) *
         n4) * D2)), D5)
  BY <1>20, <1>22, OverPlus
<1>24. (n4 * ((((n2 * n5) * (n3 * n4)) + ((n7 * n3) * D2)) + ((n2 * n4) * D2))) = ((((n5 * (n2 *
         n4)) * (n3 * n4)) + ((n7 * (n3 * n4)) * D2)) + (((n2 * n4) * n4) * D2))
  BY <1>3 DEF D2, D3, D4, D5
<1>25. RMul(c, RAdd(RAdd(RMul(RMul(e, u), RMul(f, c)), RMul(h, f)), RMul(e, c))) =
         RAdd(RAdd(RMul(RMul(u, RMul(e, c)), RMul(f, c)), RMul(h, RMul(f, c))), RMul(RMul(e, c),
         c))
  BY <1>15, <1>23, <1>24, OverEqual
<1>26. IsOver(a, (n1 * D), D2)
  BY <1>a, <1>4, <1>5, OverPad
<1>27. IsOver(RMul(u, b), (n5 * n6), D2)
  BY <1>e, <1>f, <1>5, OverMul
<1>28. IsOver(RAdd(a, RMul(u, b)), ((n1 * D) + (n5 * n6)), D2)
  BY <1>26, <1>27, OverPlus
<1>29. IsOver(RAdd(RAdd(a, RMul(u, b)), RMul(h, f)), (((n1 * D) + (n5 * n6)) + (n7 * n3)), D2)
  BY <1>28, <1>9, OverPlus
<1>30. IsOver(RMul(c, RAdd(RAdd(a, RMul(u, b)), RMul(h, f))), (n4 * (((n1 * D) + (n5 * n6)) + (n7 *
         n3))), D3)
  BY <1>d, <1>29, <1>5, OverMul
<1>31. IsOver(RMul(a, c), (n1 * n4), D2)
  BY <1>a, <1>d, <1>5, OverMul
<1>32. IsOver(RMul(a, c), ((n1 * n4) * D), D3)
  BY <1>31, <1>4, <1>5, OverPad
<1>33. IsOver(RMul(RMul(u, b), c), ((n5 * n6) * n4), D3)
  BY <1>27, <1>d, <1>5, OverMul
<1>34. IsOver(RAdd(RMul(a, c), RMul(RMul(u, b), c)), (((n1 * n4) * D) + ((n5 * n6) * n4)), D3)
  BY <1>32, <1>33, OverPlus
<1>35. IsOver(RAdd(RAdd(RMul(a, c), RMul(RMul(u, b), c)), RMul(h, RMul(f, c))), ((((n1 * n4) * D) +
         ((n5 * n6) * n4)) + (n7 * (n3 * n4))), D3)
  BY <1>34, <1>18, OverPlus
<1>36. (n4 * (((n1 * D) + (n5 * n6)) + (n7 * n3))) = ((((n1 * n4) * D) + ((n5 * n6) * n4)) +
         (n7 * (n3 * n4)))
  BY <1>3 DEF D2, D3, D4, D5
<1>37. RMul(c, RAdd(RAdd(a, RMul(u, b)), RMul(h, f))) = RAdd(RAdd(RMul(a, c), RMul(RMul(u, b),
         c)), RMul(h, RMul(f, c)))
  BY <1>30, <1>35, <1>36, OverEqual
<1>38. IsOver(c, (n4 * D3), D4)
  BY <1>d, <1>4, <1>5, OverPad
<1>39. IsOver(u, (n5 * D), D2)
  BY <1>e, <1>4, <1>5, OverPad
<1>40. IsOver(RMul(v, f), (n8 * n3), D2)
  BY <1>h, <1>c, <1>5, OverMul
<1>41. IsOver(RAdd(u, RMul(v, f)), ((n5 * D) + (n8 * n3)), D2)
  BY <1>39, <1>40, OverPlus
<1>42. IsOver(RMul(RAdd(u, RMul(v, f)), RMul(f, c)), (((n5 * D) + (n8 * n3)) * (n3 * n4)), D4)
  BY <1>41, <1>6, <1>5, OverMul
<1>43. IsOver(RAdd(c, RMul(RAdd(u, RMul(v, f)), RMul(f, c))), ((n4 * D3) + (((n5 * D) + (n8 *
         n3)) * (n3 * n4))), D4)
  BY <1>38, <1>42, OverPlus
<1>44. IsOver(RMul(c, RAdd(c, RMul(RAdd(u, RMul(v, f)), RMul(f, c)))), (n4 * ((n4 * D3) + (((n5 *
         D) + (n8 * n3)) * (n3 * n4)))), D5)
  BY <1>d, <1>43, <1>5, OverMul
<1>45. IsOver(RMul(c, c), (n4 * n4), D2)
  BY <1>d, <1>5, OverMul
<1>46. IsOver(RMul(c, c), ((n4 * n4) * D2), D4)
  BY <1>45, <1>4, <1>5, OverPad
<1>47. IsOver(RMul(u, c), (n5 * n4), D2)
  BY <1>e, <1>d, <1>5, OverMul
<1>48. IsOver(RMul(RMul(u, c), RMul(f, c)), ((n5 * n4) * (n3 * n4)), D4)
  BY <1>47, <1>6, <1>5, OverMul
<1>49. IsOver(RAdd(RMul(c, c), RMul(RMul(u, c), RMul(f, c))), (((n4 * n4) * D2) + ((n5 * n4) *
         (n3 * n4))), D4)
  BY <1>46, <1>48, OverPlus
<1>50. IsOver(RAdd(RMul(c, c), RMul(RMul(u, c), RMul(f, c))), ((((n4 * n4) * D2) + ((n5 * n4) *
         (n3 * n4))) * D), D5)
  BY <1>49, <1>4, <1>5, OverPad
<1>51. IsOver(RMul(v, RMul(f, c)), (n8 * (n3 * n4)), D3)
  BY <1>h, <1>6, <1>5, OverMul
<1>52. IsOver(RMul(RMul(v, RMul(f, c)), RMul(f, c)), ((n8 * (n3 * n4)) * (n3 * n4)), D5)
  BY <1>51, <1>6, <1>5, OverMul
<1>53. IsOver(RAdd(RAdd(RMul(c, c), RMul(RMul(u, c), RMul(f, c))), RMul(RMul(v, RMul(f, c)), RMul(f,
         c))), (((((n4 * n4) * D2) + ((n5 * n4) * (n3 * n4))) * D) + ((n8 * (n3 * n4)) * (n3 *
         n4))), D5)
  BY <1>50, <1>52, OverPlus
<1>54. (n4 * ((n4 * D3) + (((n5 * D) + (n8 * n3)) * (n3 * n4)))) = (((((n4 * n4) * D2) + ((n5 *
         n4) * (n3 * n4))) * D) + ((n8 * (n3 * n4)) * (n3 * n4)))
  BY <1>3 DEF D2, D3, D4, D5
<1>55. RMul(c, RAdd(c, RMul(RAdd(u, RMul(v, f)), RMul(f, c)))) = RAdd(RAdd(RMul(c, c),
         RMul(RMul(u, c), RMul(f, c))), RMul(RMul(v, RMul(f, c)), RMul(f, c)))
  BY <1>44, <1>53, <1>54, OverEqual
<1>56. QED
  BY <1>25, <1>37, <1>55 DEF (+), (-), (.), FirstTimesAgainLaw

\* The scalars of the second kind times d.
SecondTimesLaw(e, f, d, u, y, h) ==
    /\ d (.) (f (.) (y (.) d) (-) e (.) d) = y (.) d (.) (f (.) d) (-) e (.) d (.) d
    /\ d (.) (e (.) (u (.) (y (.) d) (+) e (.) d) (+) h (.) y) = e (.) d (.) (e (.) d) (+)
             u (.) (e (.) d) (.) (y (.) d) (+) h (.) (y (.) d)

\* The products of the remainders, from the scalars of the second kind.
LEMMA SecondTimes ==
  ASSUME NEW e \in Rat, NEW f \in Rat, NEW d \in Rat, NEW u \in Rat, NEW y \in Rat,
         NEW h \in Rat
  PROVE  SecondTimesLaw(e, f, d, u, y, h)
<1> DEFINE F == [i \in 1 .. 6 |-> IF i = 1 THEN e ELSE IF i = 2 THEN f ELSE IF i =
         3 THEN d ELSE IF i = 4 THEN u ELSE IF i = 5 THEN y ELSE h]
<1>1. F \in [1 .. 6 -> Rat] /\ F[1] = e /\ F[2] = f /\ F[3] = d /\ F[4] = u /\ F[5] = y /\ F[6] = h
  OBVIOUS
<1> HIDE DEF F
<1>2. PICK D \in Int \ {0}, G \in [1 .. 6 -> Int] : \A i \in 1 .. 6 : Is(F[i], G[i], D)
  BY <1>1, CommonDenominator DEF AllOver
<1> DEFINE n1 == G[1]
           n2 == G[2]
           n3 == G[3]
           n4 == G[4]
           n5 == G[5]
           n6 == G[6]
           D2 == D * D
           D3 == D2 * D
           D4 == D3 * D
           D5 == D4 * D
<1>3. n1 \in Int /\ n2 \in Int /\ n3 \in Int /\ n4 \in Int /\ n5 \in Int /\ n6 \in Int
  BY <1>2
<1>a. IsOver(e, n1, D)
  BY <1>1, <1>2 DEF IsOver
<1>b. IsOver(f, n2, D)
  BY <1>1, <1>2 DEF IsOver
<1>c. IsOver(d, n3, D)
  BY <1>1, <1>2 DEF IsOver
<1>d. IsOver(u, n4, D)
  BY <1>1, <1>2 DEF IsOver
<1>e. IsOver(y, n5, D)
  BY <1>1, <1>2 DEF IsOver
<1>f. IsOver(h, n6, D)
  BY <1>1, <1>2 DEF IsOver
<1>4. D2 \in Int \ {0} /\ D3 \in Int \ {0} /\ D4 \in Int \ {0} /\ D5 \in Int \ {0}
  BY NonZero
<1>5. D2 = D * D /\ D3 = D * D2 /\ D4 = D * D3 /\ D5 = D * D4 /\ D3 = D2 * D /\ D4 = D2 * D2
      /\ D5 = D2 * D3 /\ D4 = D3 * D /\ D5 = D3 * D2 /\ D5 = D4 * D
  OBVIOUS
<1> HIDE DEF n1, n2, n3, n4, n5, n6, D2, D3, D4, D5
<1>6. IsOver(RMul(y, d), (n5 * n3), D2)
  BY <1>e, <1>c, <1>5, OverMul
<1>7. IsOver(RMul(f, RMul(y, d)), (n2 * (n5 * n3)), D3)
  BY <1>b, <1>6, <1>5, OverMul
<1>8. IsOver(RMul(e, d), (n1 * n3), D2)
  BY <1>a, <1>c, <1>5, OverMul
<1>9. IsOver(RMul(e, d), ((n1 * n3) * D), D3)
  BY <1>8, <1>4, <1>5, OverPad
<1>10. IsOver(RSub(RMul(f, RMul(y, d)), RMul(e, d)), ((n2 * (n5 * n3)) - ((n1 * n3) * D)), D3)
  BY <1>7, <1>9, OverMinus
<1>11. IsOver(RMul(d, RSub(RMul(f, RMul(y, d)), RMul(e, d))), (n3 * ((n2 * (n5 * n3)) - ((n1 *
         n3) * D))), D4)
  BY <1>c, <1>10, <1>5, OverMul
<1>12. IsOver(RMul(f, d), (n2 * n3), D2)
  BY <1>b, <1>c, <1>5, OverMul
<1>13. IsOver(RMul(RMul(y, d), RMul(f, d)), ((n5 * n3) * (n2 * n3)), D4)
  BY <1>6, <1>12, <1>5, OverMul
<1>14. IsOver(RMul(RMul(e, d), d), ((n1 * n3) * n3), D3)
  BY <1>8, <1>c, <1>5, OverMul
<1>15. IsOver(RMul(RMul(e, d), d), (((n1 * n3) * n3) * D), D4)
  BY <1>14, <1>4, <1>5, OverPad
<1>16. IsOver(RSub(RMul(RMul(y, d), RMul(f, d)), RMul(RMul(e, d), d)), (((n5 * n3) * (n2 * n3)) -
         (((n1 * n3) * n3) * D)), D4)
  BY <1>13, <1>15, OverMinus
<1>17. (n3 * ((n2 * (n5 * n3)) - ((n1 * n3) * D))) = (((n5 * n3) * (n2 * n3)) - (((n1 * n3) *
         n3) * D))
  BY <1>3 DEF D2, D3, D4, D5
<1>18. RMul(d, RSub(RMul(f, RMul(y, d)), RMul(e, d))) = RSub(RMul(RMul(y, d), RMul(f, d)),
         RMul(RMul(e, d), d))
  BY <1>11, <1>16, <1>17, OverEqual
<1>19. IsOver(RMul(u, RMul(y, d)), (n4 * (n5 * n3)), D3)
  BY <1>d, <1>6, <1>5, OverMul
<1>20. IsOver(RAdd(RMul(u, RMul(y, d)), RMul(e, d)), ((n4 * (n5 * n3)) + ((n1 * n3) * D)), D3)
  BY <1>19, <1>9, OverPlus
<1>21. IsOver(RMul(e, RAdd(RMul(u, RMul(y, d)), RMul(e, d))), (n1 * ((n4 * (n5 * n3)) + ((n1 *
         n3) * D))), D4)
  BY <1>a, <1>20, <1>5, OverMul
<1>22. IsOver(RMul(h, y), (n6 * n5), D2)
  BY <1>f, <1>e, <1>5, OverMul
<1>23. IsOver(RMul(h, y), ((n6 * n5) * D2), D4)
  BY <1>22, <1>4, <1>5, OverPad
<1>24. IsOver(RAdd(RMul(e, RAdd(RMul(u, RMul(y, d)), RMul(e, d))), RMul(h, y)), ((n1 * ((n4 * (n5 *
         n3)) + ((n1 * n3) * D))) + ((n6 * n5) * D2)), D4)
  BY <1>21, <1>23, OverPlus
<1>25. IsOver(RMul(d, RAdd(RMul(e, RAdd(RMul(u, RMul(y, d)), RMul(e, d))), RMul(h, y))), (n3 *
         ((n1 * ((n4 * (n5 * n3)) + ((n1 * n3) * D))) + ((n6 * n5) * D2))), D5)
  BY <1>c, <1>24, <1>5, OverMul
<1>26. IsOver(RMul(RMul(e, d), RMul(e, d)), ((n1 * n3) * (n1 * n3)), D4)
  BY <1>8, <1>5, OverMul
<1>27. IsOver(RMul(RMul(e, d), RMul(e, d)), (((n1 * n3) * (n1 * n3)) * D), D5)
  BY <1>26, <1>4, <1>5, OverPad
<1>28. IsOver(RMul(u, RMul(e, d)), (n4 * (n1 * n3)), D3)
  BY <1>d, <1>8, <1>5, OverMul
<1>29. IsOver(RMul(RMul(u, RMul(e, d)), RMul(y, d)), ((n4 * (n1 * n3)) * (n5 * n3)), D5)
  BY <1>28, <1>6, <1>5, OverMul
<1>30. IsOver(RAdd(RMul(RMul(e, d), RMul(e, d)), RMul(RMul(u, RMul(e, d)), RMul(y, d))), ((((n1 *
         n3) * (n1 * n3)) * D) + ((n4 * (n1 * n3)) * (n5 * n3))), D5)
  BY <1>27, <1>29, OverPlus
<1>31. IsOver(RMul(h, RMul(y, d)), (n6 * (n5 * n3)), D3)
  BY <1>f, <1>6, <1>5, OverMul
<1>32. IsOver(RMul(h, RMul(y, d)), ((n6 * (n5 * n3)) * D2), D5)
  BY <1>31, <1>4, <1>5, OverPad
<1>33. IsOver(RAdd(RAdd(RMul(RMul(e, d), RMul(e, d)), RMul(RMul(u, RMul(e, d)), RMul(y, d))),
         RMul(h, RMul(y, d))), (((((n1 * n3) * (n1 * n3)) * D) + ((n4 * (n1 * n3)) * (n5 *
         n3))) + ((n6 * (n5 * n3)) * D2)), D5)
  BY <1>30, <1>32, OverPlus
<1>34. (n3 * ((n1 * ((n4 * (n5 * n3)) + ((n1 * n3) * D))) + ((n6 * n5) * D2))) = (((((n1 * n3) *
         (n1 * n3)) * D) + ((n4 * (n1 * n3)) * (n5 * n3))) + ((n6 * (n5 * n3)) * D2))
  BY <1>3 DEF D2, D3, D4, D5
<1>35. RMul(d, RAdd(RMul(e, RAdd(RMul(u, RMul(y, d)), RMul(e, d))), RMul(h, y))) =
         RAdd(RAdd(RMul(RMul(e, d), RMul(e, d)), RMul(RMul(u, RMul(e, d)), RMul(y, d))), RMul(h,
         RMul(y, d)))
  BY <1>25, <1>33, <1>34, OverEqual
<1>36. QED
  BY <1>18, <1>35 DEF (+), (-), (.), SecondTimesLaw

SecondTimesAgainLaw(a, e, f, d, u, b, h, v) ==
    /\ d (.) (h (+) (f (+) u) (.) (e (.) d)) = u (.) (e (.) d) (.) d (+) h (.) d (+) e (.)
             d (.) (f (.) d)
    /\ d (.) ((a (+) u (.) b) (.) f (+) h) = a (.) (f (.) d) (+) u (.) b (.) (f (.) d) (+) h (.) d
    /\ d (.) ((f (+) u) (.) (f (.) d) (+) v (.) d) = f (.) d (.) (f (.) d) (+) u (.) (f (.)
             d) (.) d (+) v (.) d (.) d

\* The other products, from the scalars of the second kind.
LEMMA SecondTimesAgain ==
  ASSUME NEW a \in Rat, NEW e \in Rat, NEW f \in Rat, NEW d \in Rat, NEW u \in Rat,
         NEW b \in Rat, NEW h \in Rat, NEW v \in Rat
  PROVE  SecondTimesAgainLaw(a, e, f, d, u, b, h, v)
<1> DEFINE F == [i \in 1 .. 8 |-> IF i = 1 THEN a ELSE IF i = 2 THEN e ELSE IF i =
         3 THEN f ELSE IF i = 4 THEN d ELSE IF i = 5 THEN u ELSE IF i = 6 THEN b ELSE IF i =
         7 THEN h ELSE v]
<1>1. F \in [1 .. 8 -> Rat] /\ F[1] = a /\ F[2] = e /\ F[3] = f /\ F[4] = d /\ F[5] = u /\
         F[6] = b /\ F[7] = h /\ F[8] = v
  OBVIOUS
<1> HIDE DEF F
<1>2. PICK D \in Int \ {0}, G \in [1 .. 8 -> Int] : \A i \in 1 .. 8 : Is(F[i], G[i], D)
  BY <1>1, CommonDenominator DEF AllOver
<1> DEFINE n1 == G[1]
           n2 == G[2]
           n3 == G[3]
           n4 == G[4]
           n5 == G[5]
           n6 == G[6]
           n7 == G[7]
           n8 == G[8]
           D2 == D * D
           D3 == D2 * D
           D4 == D3 * D
<1>3. n1 \in Int /\ n2 \in Int /\ n3 \in Int /\ n4 \in Int /\ n5 \in Int /\ n6 \in Int
      /\ n7 \in Int /\ n8 \in Int
  BY <1>2
<1>a. IsOver(a, n1, D)
  BY <1>1, <1>2 DEF IsOver
<1>b. IsOver(e, n2, D)
  BY <1>1, <1>2 DEF IsOver
<1>c. IsOver(f, n3, D)
  BY <1>1, <1>2 DEF IsOver
<1>d. IsOver(d, n4, D)
  BY <1>1, <1>2 DEF IsOver
<1>e. IsOver(u, n5, D)
  BY <1>1, <1>2 DEF IsOver
<1>f. IsOver(b, n6, D)
  BY <1>1, <1>2 DEF IsOver
<1>g. IsOver(h, n7, D)
  BY <1>1, <1>2 DEF IsOver
<1>h. IsOver(v, n8, D)
  BY <1>1, <1>2 DEF IsOver
<1>4. D2 \in Int \ {0} /\ D3 \in Int \ {0} /\ D4 \in Int \ {0}
  BY NonZero
<1>5. D2 = D * D /\ D3 = D * D2 /\ D4 = D * D3 /\ D3 = D2 * D /\ D4 = D2 * D2 /\ D4 = D3 * D
  OBVIOUS
<1> HIDE DEF n1, n2, n3, n4, n5, n6, n7, n8, D2, D3, D4
<1>6. IsOver(h, (n7 * D2), D3)
  BY <1>g, <1>4, <1>5, OverPad
<1>7. IsOver(RMul(e, d), (n2 * n4), D2)
  BY <1>b, <1>d, <1>5, OverMul
<1>8. IsOver(RAdd(f, u), (n3 + n5), D)
  BY <1>c, <1>e, OverPlus
<1>9. IsOver(RMul(RAdd(f, u), RMul(e, d)), ((n3 + n5) * (n2 * n4)), D3)
  BY <1>8, <1>7, <1>5, OverMul
<1>10. IsOver(RAdd(h, RMul(RAdd(f, u), RMul(e, d))), ((n7 * D2) + ((n3 + n5) * (n2 * n4))), D3)
  BY <1>6, <1>9, OverPlus
<1>11. IsOver(RMul(d, RAdd(h, RMul(RAdd(f, u), RMul(e, d)))), (n4 * ((n7 * D2) + ((n3 + n5) * (n2 *
         n4)))), D4)
  BY <1>d, <1>10, <1>5, OverMul
<1>12. IsOver(RMul(u, RMul(e, d)), (n5 * (n2 * n4)), D3)
  BY <1>e, <1>7, <1>5, OverMul
<1>13. IsOver(RMul(RMul(u, RMul(e, d)), d), ((n5 * (n2 * n4)) * n4), D4)
  BY <1>12, <1>d, <1>5, OverMul
<1>14. IsOver(RMul(h, d), (n7 * n4), D2)
  BY <1>g, <1>d, <1>5, OverMul
<1>15. IsOver(RMul(h, d), ((n7 * n4) * D2), D4)
  BY <1>14, <1>4, <1>5, OverPad
<1>16. IsOver(RAdd(RMul(RMul(u, RMul(e, d)), d), RMul(h, d)), (((n5 * (n2 * n4)) * n4) + ((n7 *
         n4) * D2)), D4)
  BY <1>13, <1>15, OverPlus
<1>17. IsOver(RMul(f, d), (n3 * n4), D2)
  BY <1>c, <1>d, <1>5, OverMul
<1>18. IsOver(RMul(RMul(e, d), RMul(f, d)), ((n2 * n4) * (n3 * n4)), D4)
  BY <1>7, <1>17, <1>5, OverMul
<1>19. IsOver(RAdd(RAdd(RMul(RMul(u, RMul(e, d)), d), RMul(h, d)), RMul(RMul(e, d), RMul(f, d))),
         ((((n5 * (n2 * n4)) * n4) + ((n7 * n4) * D2)) + ((n2 * n4) * (n3 * n4))), D4)
  BY <1>16, <1>18, OverPlus
<1>20. (n4 * ((n7 * D2) + ((n3 + n5) * (n2 * n4)))) = ((((n5 * (n2 * n4)) * n4) + ((n7 * n4) *
         D2)) + ((n2 * n4) * (n3 * n4)))
  BY <1>3 DEF D2, D3, D4
<1>21. RMul(d, RAdd(h, RMul(RAdd(f, u), RMul(e, d)))) = RAdd(RAdd(RMul(RMul(u, RMul(e, d)), d),
         RMul(h, d)), RMul(RMul(e, d), RMul(f, d)))
  BY <1>11, <1>19, <1>20, OverEqual
<1>22. IsOver(a, (n1 * D), D2)
  BY <1>a, <1>4, <1>5, OverPad
<1>23. IsOver(RMul(u, b), (n5 * n6), D2)
  BY <1>e, <1>f, <1>5, OverMul
<1>24. IsOver(RAdd(a, RMul(u, b)), ((n1 * D) + (n5 * n6)), D2)
  BY <1>22, <1>23, OverPlus
<1>25. IsOver(RMul(RAdd(a, RMul(u, b)), f), (((n1 * D) + (n5 * n6)) * n3), D3)
  BY <1>24, <1>c, <1>5, OverMul
<1>26. IsOver(RAdd(RMul(RAdd(a, RMul(u, b)), f), h), ((((n1 * D) + (n5 * n6)) * n3) + (n7 * D2)), D3)
  BY <1>25, <1>6, OverPlus
<1>27. IsOver(RMul(d, RAdd(RMul(RAdd(a, RMul(u, b)), f), h)), (n4 * ((((n1 * D) + (n5 * n6)) *
         n3) + (n7 * D2))), D4)
  BY <1>d, <1>26, <1>5, OverMul
<1>28. IsOver(RMul(a, RMul(f, d)), (n1 * (n3 * n4)), D3)
  BY <1>a, <1>17, <1>5, OverMul
<1>29. IsOver(RMul(a, RMul(f, d)), ((n1 * (n3 * n4)) * D), D4)
  BY <1>28, <1>4, <1>5, OverPad
<1>30. IsOver(RMul(RMul(u, b), RMul(f, d)), ((n5 * n6) * (n3 * n4)), D4)
  BY <1>23, <1>17, <1>5, OverMul
<1>31. IsOver(RAdd(RMul(a, RMul(f, d)), RMul(RMul(u, b), RMul(f, d))), (((n1 * (n3 * n4)) * D) +
         ((n5 * n6) * (n3 * n4))), D4)
  BY <1>29, <1>30, OverPlus
<1>32. IsOver(RAdd(RAdd(RMul(a, RMul(f, d)), RMul(RMul(u, b), RMul(f, d))), RMul(h, d)), ((((n1 *
         (n3 * n4)) * D) + ((n5 * n6) * (n3 * n4))) + ((n7 * n4) * D2)), D4)
  BY <1>31, <1>15, OverPlus
<1>33. (n4 * ((((n1 * D) + (n5 * n6)) * n3) + (n7 * D2))) = ((((n1 * (n3 * n4)) * D) + ((n5 *
         n6) * (n3 * n4))) + ((n7 * n4) * D2))
  BY <1>3 DEF D2, D3, D4
<1>34. RMul(d, RAdd(RMul(RAdd(a, RMul(u, b)), f), h)) = RAdd(RAdd(RMul(a, RMul(f, d)),
         RMul(RMul(u, b), RMul(f, d))), RMul(h, d))
  BY <1>27, <1>32, <1>33, OverEqual
<1>35. IsOver(RMul(RAdd(f, u), RMul(f, d)), ((n3 + n5) * (n3 * n4)), D3)
  BY <1>8, <1>17, <1>5, OverMul
<1>36. IsOver(RMul(v, d), (n8 * n4), D2)
  BY <1>h, <1>d, <1>5, OverMul
<1>37. IsOver(RMul(v, d), ((n8 * n4) * D), D3)
  BY <1>36, <1>4, <1>5, OverPad
<1>38. IsOver(RAdd(RMul(RAdd(f, u), RMul(f, d)), RMul(v, d)), (((n3 + n5) * (n3 * n4)) + ((n8 *
         n4) * D)), D3)
  BY <1>35, <1>37, OverPlus
<1>39. IsOver(RMul(d, RAdd(RMul(RAdd(f, u), RMul(f, d)), RMul(v, d))), (n4 * (((n3 + n5) * (n3 *
         n4)) + ((n8 * n4) * D))), D4)
  BY <1>d, <1>38, <1>5, OverMul
<1>40. IsOver(RMul(RMul(f, d), RMul(f, d)), ((n3 * n4) * (n3 * n4)), D4)
  BY <1>17, <1>5, OverMul
<1>41. IsOver(RMul(u, RMul(f, d)), (n5 * (n3 * n4)), D3)
  BY <1>e, <1>17, <1>5, OverMul
<1>42. IsOver(RMul(RMul(u, RMul(f, d)), d), ((n5 * (n3 * n4)) * n4), D4)
  BY <1>41, <1>d, <1>5, OverMul
<1>43. IsOver(RAdd(RMul(RMul(f, d), RMul(f, d)), RMul(RMul(u, RMul(f, d)), d)), (((n3 * n4) * (n3 *
         n4)) + ((n5 * (n3 * n4)) * n4)), D4)
  BY <1>40, <1>42, OverPlus
<1>44. IsOver(RMul(RMul(v, d), d), ((n8 * n4) * n4), D3)
  BY <1>36, <1>d, <1>5, OverMul
<1>45. IsOver(RMul(RMul(v, d), d), (((n8 * n4) * n4) * D), D4)
  BY <1>44, <1>4, <1>5, OverPad
<1>46. IsOver(RAdd(RAdd(RMul(RMul(f, d), RMul(f, d)), RMul(RMul(u, RMul(f, d)), d)), RMul(RMul(v,
         d), d)), ((((n3 * n4) * (n3 * n4)) + ((n5 * (n3 * n4)) * n4)) + (((n8 * n4) * n4) * D)),
         D4)
  BY <1>43, <1>45, OverPlus
<1>47. (n4 * (((n3 + n5) * (n3 * n4)) + ((n8 * n4) * D))) = ((((n3 * n4) * (n3 * n4)) + ((n5 *
         (n3 * n4)) * n4)) + (((n8 * n4) * n4) * D))
  BY <1>3 DEF D2, D3, D4
<1>48. RMul(d, RAdd(RMul(RAdd(f, u), RMul(f, d)), RMul(v, d))) = RAdd(RAdd(RMul(RMul(f, d),
         RMul(f, d)), RMul(RMul(u, RMul(f, d)), d)), RMul(RMul(v, d), d))
  BY <1>39, <1>46, <1>47, OverEqual
<1>49. QED
  BY <1>21, <1>34, <1>48 DEF (+), (-), (.), SecondTimesAgainLaw

\* The values of newest_ak1 times the divisor g of the scalars.
FourthTimesLaw(g, x1, x3, x7, v, p, q) ==
    g (.) (v (.) q (.) x1 (-) (p (.) x7 (+) p (.) p (.) x3)) = v (.) q (.) (g (.) x1) (-)
             (p (.) (g (.) x7) (+) p (.) p (.) (g (.) x3))

\* c4 of newest_ak1 times g is made of products of the remainders.
LEMMA FourthTimes ==
  ASSUME NEW g \in Rat, NEW x1 \in Rat, NEW x3 \in Rat, NEW x7 \in Rat, NEW v \in Rat,
         NEW p \in Rat, NEW q \in Rat
  PROVE  FourthTimesLaw(g, x1, x3, x7, v, p, q)
<1> DEFINE F == [i \in 1 .. 7 |-> IF i = 1 THEN g ELSE IF i = 2 THEN x1 ELSE IF i =
         3 THEN x3 ELSE IF i = 4 THEN x7 ELSE IF i = 5 THEN v ELSE IF i = 6 THEN p ELSE q]
<1>1. F \in [1 .. 7 -> Rat] /\ F[1] = g /\ F[2] = x1 /\ F[3] = x3 /\ F[4] = x7 /\ F[5] = v /\
         F[6] = p /\ F[7] = q
  OBVIOUS
<1> HIDE DEF F
<1>2. PICK D \in Int \ {0}, G \in [1 .. 7 -> Int] : \A i \in 1 .. 7 : Is(F[i], G[i], D)
  BY <1>1, CommonDenominator DEF AllOver
<1> DEFINE n1 == G[1]
           n2 == G[2]
           n3 == G[3]
           n4 == G[4]
           n5 == G[5]
           n6 == G[6]
           n7 == G[7]
           D2 == D * D
           D3 == D2 * D
           D4 == D3 * D
<1>3. n1 \in Int /\ n2 \in Int /\ n3 \in Int /\ n4 \in Int /\ n5 \in Int /\ n6 \in Int
      /\ n7 \in Int
  BY <1>2
<1>a. IsOver(g, n1, D)
  BY <1>1, <1>2 DEF IsOver
<1>b. IsOver(x1, n2, D)
  BY <1>1, <1>2 DEF IsOver
<1>c. IsOver(x3, n3, D)
  BY <1>1, <1>2 DEF IsOver
<1>d. IsOver(x7, n4, D)
  BY <1>1, <1>2 DEF IsOver
<1>e. IsOver(v, n5, D)
  BY <1>1, <1>2 DEF IsOver
<1>f. IsOver(p, n6, D)
  BY <1>1, <1>2 DEF IsOver
<1>g. IsOver(q, n7, D)
  BY <1>1, <1>2 DEF IsOver
<1>4. D2 \in Int \ {0} /\ D3 \in Int \ {0} /\ D4 \in Int \ {0}
  BY NonZero
<1>5. D2 = D * D /\ D3 = D * D2 /\ D4 = D * D3 /\ D3 = D2 * D /\ D4 = D2 * D2 /\ D4 = D3 * D
  OBVIOUS
<1> HIDE DEF n1, n2, n3, n4, n5, n6, n7, D2, D3, D4
<1>6. IsOver(RMul(v, q), (n5 * n7), D2)
  BY <1>e, <1>g, <1>5, OverMul
<1>7. IsOver(RMul(RMul(v, q), x1), ((n5 * n7) * n2), D3)
  BY <1>6, <1>b, <1>5, OverMul
<1>8. IsOver(RMul(p, x7), (n6 * n4), D2)
  BY <1>f, <1>d, <1>5, OverMul
<1>9. IsOver(RMul(p, x7), ((n6 * n4) * D), D3)
  BY <1>8, <1>4, <1>5, OverPad
<1>10. IsOver(RMul(p, p), (n6 * n6), D2)
  BY <1>f, <1>5, OverMul
<1>11. IsOver(RMul(RMul(p, p), x3), ((n6 * n6) * n3), D3)
  BY <1>10, <1>c, <1>5, OverMul
<1>12. IsOver(RAdd(RMul(p, x7), RMul(RMul(p, p), x3)), (((n6 * n4) * D) + ((n6 * n6) * n3)), D3)
  BY <1>9, <1>11, OverPlus
<1>13. IsOver(RSub(RMul(RMul(v, q), x1), RAdd(RMul(p, x7), RMul(RMul(p, p), x3))), (((n5 * n7) *
         n2) - (((n6 * n4) * D) + ((n6 * n6) * n3))), D3)
  BY <1>7, <1>12, OverMinus
<1>14. IsOver(RMul(g, RSub(RMul(RMul(v, q), x1), RAdd(RMul(p, x7), RMul(RMul(p, p), x3)))), (n1 *
         (((n5 * n7) * n2) - (((n6 * n4) * D) + ((n6 * n6) * n3)))), D4)
  BY <1>a, <1>13, <1>5, OverMul
<1>15. IsOver(RMul(g, x1), (n1 * n2), D2)
  BY <1>a, <1>b, <1>5, OverMul
<1>16. IsOver(RMul(RMul(v, q), RMul(g, x1)), ((n5 * n7) * (n1 * n2)), D4)
  BY <1>6, <1>15, <1>5, OverMul
<1>17. IsOver(RMul(g, x7), (n1 * n4), D2)
  BY <1>a, <1>d, <1>5, OverMul
<1>18. IsOver(RMul(p, RMul(g, x7)), (n6 * (n1 * n4)), D3)
  BY <1>f, <1>17, <1>5, OverMul
<1>19. IsOver(RMul(p, RMul(g, x7)), ((n6 * (n1 * n4)) * D), D4)
  BY <1>18, <1>4, <1>5, OverPad
<1>20. IsOver(RMul(g, x3), (n1 * n3), D2)
  BY <1>a, <1>c, <1>5, OverMul
<1>21. IsOver(RMul(RMul(p, p), RMul(g, x3)), ((n6 * n6) * (n1 * n3)), D4)
  BY <1>10, <1>20, <1>5, OverMul
<1>22. IsOver(RAdd(RMul(p, RMul(g, x7)), RMul(RMul(p, p), RMul(g, x3))), (((n6 * (n1 * n4)) * D) +
         ((n6 * n6) * (n1 * n3))), D4)
  BY <1>19, <1>21, OverPlus
<1>23. IsOver(RSub(RMul(RMul(v, q), RMul(g, x1)), RAdd(RMul(p, RMul(g, x7)), RMul(RMul(p, p),
         RMul(g, x3)))), (((n5 * n7) * (n1 * n2)) - (((n6 * (n1 * n4)) * D) + ((n6 * n6) * (n1 *
         n3)))), D4)
  BY <1>16, <1>22, OverMinus
<1>24. (n1 * (((n5 * n7) * n2) - (((n6 * n4) * D) + ((n6 * n6) * n3)))) = (((n5 * n7) * (n1 *
         n2)) - (((n6 * (n1 * n4)) * D) + ((n6 * n6) * (n1 * n3))))
  BY <1>3 DEF D2, D3, D4
<1>25. RMul(g, RSub(RMul(RMul(v, q), x1), RAdd(RMul(p, x7), RMul(RMul(p, p), x3)))) =
         RSub(RMul(RMul(v, q), RMul(g, x1)), RAdd(RMul(p, RMul(g, x7)), RMul(RMul(p, p), RMul(g,
         x3))))
  BY <1>14, <1>23, <1>24, OverEqual
<1>26. QED
  BY <1>25 DEF (+), (-), (.), FourthTimesLaw

TempTimesLaw(g, x4, x5, y, p) ==
    g (.) ((x5 (-) y) (+) p (.) x4) = (g (.) x5 (-) g (.) y) (+) p (.) (g (.) x4)

\* The divisor of newest_ak1 times g is made of products of the remainders.
LEMMA TempTimes ==
  ASSUME NEW g \in Rat, NEW x4 \in Rat, NEW x5 \in Rat, NEW y \in Rat, NEW p \in Rat
  PROVE  TempTimesLaw(g, x4, x5, y, p)
<1> DEFINE F == [i \in 1 .. 5 |-> IF i = 1 THEN g ELSE IF i = 2 THEN x4 ELSE IF i =
         3 THEN x5 ELSE IF i = 4 THEN y ELSE p]
<1>1. F \in [1 .. 5 -> Rat] /\ F[1] = g /\ F[2] = x4 /\ F[3] = x5 /\ F[4] = y /\ F[5] = p
  OBVIOUS
<1> HIDE DEF F
<1>2. PICK D \in Int \ {0}, G \in [1 .. 5 -> Int] : \A i \in 1 .. 5 : Is(F[i], G[i], D)
  BY <1>1, CommonDenominator DEF AllOver
<1> DEFINE n1 == G[1]
           n2 == G[2]
           n3 == G[3]
           n4 == G[4]
           n5 == G[5]
           D2 == D * D
           D3 == D2 * D
<1>3. n1 \in Int /\ n2 \in Int /\ n3 \in Int /\ n4 \in Int /\ n5 \in Int
  BY <1>2
<1>a. IsOver(g, n1, D)
  BY <1>1, <1>2 DEF IsOver
<1>b. IsOver(x4, n2, D)
  BY <1>1, <1>2 DEF IsOver
<1>c. IsOver(x5, n3, D)
  BY <1>1, <1>2 DEF IsOver
<1>d. IsOver(y, n4, D)
  BY <1>1, <1>2 DEF IsOver
<1>e. IsOver(p, n5, D)
  BY <1>1, <1>2 DEF IsOver
<1>4. D2 \in Int \ {0} /\ D3 \in Int \ {0}
  BY NonZero
<1>5. D2 = D * D /\ D3 = D * D2 /\ D3 = D2 * D
  OBVIOUS
<1> HIDE DEF n1, n2, n3, n4, n5, D2, D3
<1>6. IsOver(RSub(x5, y), (n3 - n4), D)
  BY <1>c, <1>d, OverMinus
<1>7. IsOver(RSub(x5, y), ((n3 - n4) * D), D2)
  BY <1>6, <1>4, <1>5, OverPad
<1>8. IsOver(RMul(p, x4), (n5 * n2), D2)
  BY <1>e, <1>b, <1>5, OverMul
<1>9. IsOver(RAdd(RSub(x5, y), RMul(p, x4)), (((n3 - n4) * D) + (n5 * n2)), D2)
  BY <1>7, <1>8, OverPlus
<1>10. IsOver(RMul(g, RAdd(RSub(x5, y), RMul(p, x4))), (n1 * (((n3 - n4) * D) + (n5 * n2))), D3)
  BY <1>a, <1>9, <1>5, OverMul
<1>11. IsOver(RMul(g, x5), (n1 * n3), D2)
  BY <1>a, <1>c, <1>5, OverMul
<1>12. IsOver(RMul(g, y), (n1 * n4), D2)
  BY <1>a, <1>d, <1>5, OverMul
<1>13. IsOver(RSub(RMul(g, x5), RMul(g, y)), ((n1 * n3) - (n1 * n4)), D2)
  BY <1>11, <1>12, OverMinus
<1>14. IsOver(RSub(RMul(g, x5), RMul(g, y)), (((n1 * n3) - (n1 * n4)) * D), D3)
  BY <1>13, <1>4, <1>5, OverPad
<1>15. IsOver(RMul(g, x4), (n1 * n2), D2)
  BY <1>a, <1>b, <1>5, OverMul
<1>16. IsOver(RMul(p, RMul(g, x4)), (n5 * (n1 * n2)), D3)
  BY <1>e, <1>15, <1>5, OverMul
<1>17. IsOver(RAdd(RSub(RMul(g, x5), RMul(g, y)), RMul(p, RMul(g, x4))), ((((n1 * n3) - (n1 *
         n4)) * D) + (n5 * (n1 * n2))), D3)
  BY <1>14, <1>16, OverPlus
<1>18. (n1 * (((n3 - n4) * D) + (n5 * n2))) = ((((n1 * n3) - (n1 * n4)) * D) + (n5 * (n1 * n2)))
  BY <1>3 DEF D2, D3
<1>19. RMul(g, RAdd(RSub(x5, y), RMul(p, x4))) = RAdd(RSub(RMul(g, x5), RMul(g, y)), RMul(p,
         RMul(g, x4)))
  BY <1>10, <1>17, <1>18, OverEqual
<1>20. QED
  BY <1>19 DEF (+), (-), (.), TempTimesLaw

ChangeTimesLaw(g, x1, x3, x7, u, v, p, q) ==
    g (.) (u (.) (p (.) p (.) x3 (+) p (.) x7) (+) v (.) (p (.) x1 (+) q (.) x7)) = u (.)
             (p (.) p (.) (g (.) x3) (+) p (.) (g (.) x7)) (+) v (.) (p (.) (g (.) x1) (+)
             q (.) (g (.) x7))

\* The change of u times g is made of products of the remainders.
LEMMA ChangeTimes ==
  ASSUME NEW g \in Rat, NEW x1 \in Rat, NEW x3 \in Rat, NEW x7 \in Rat, NEW u \in Rat,
         NEW v \in Rat, NEW p \in Rat, NEW q \in Rat
  PROVE  ChangeTimesLaw(g, x1, x3, x7, u, v, p, q)
<1> DEFINE F == [i \in 1 .. 8 |-> IF i = 1 THEN g ELSE IF i = 2 THEN x1 ELSE IF i =
         3 THEN x3 ELSE IF i = 4 THEN x7 ELSE IF i = 5 THEN u ELSE IF i = 6 THEN v ELSE IF i =
         7 THEN p ELSE q]
<1>1. F \in [1 .. 8 -> Rat] /\ F[1] = g /\ F[2] = x1 /\ F[3] = x3 /\ F[4] = x7 /\ F[5] = u /\
         F[6] = v /\ F[7] = p /\ F[8] = q
  OBVIOUS
<1> HIDE DEF F
<1>2. PICK D \in Int \ {0}, G \in [1 .. 8 -> Int] : \A i \in 1 .. 8 : Is(F[i], G[i], D)
  BY <1>1, CommonDenominator DEF AllOver
<1> DEFINE n1 == G[1]
           n2 == G[2]
           n3 == G[3]
           n4 == G[4]
           n5 == G[5]
           n6 == G[6]
           n7 == G[7]
           n8 == G[8]
           D2 == D * D
           D3 == D2 * D
           D4 == D3 * D
           D5 == D4 * D
<1>3. n1 \in Int /\ n2 \in Int /\ n3 \in Int /\ n4 \in Int /\ n5 \in Int /\ n6 \in Int
      /\ n7 \in Int /\ n8 \in Int
  BY <1>2
<1>a. IsOver(g, n1, D)
  BY <1>1, <1>2 DEF IsOver
<1>b. IsOver(x1, n2, D)
  BY <1>1, <1>2 DEF IsOver
<1>c. IsOver(x3, n3, D)
  BY <1>1, <1>2 DEF IsOver
<1>d. IsOver(x7, n4, D)
  BY <1>1, <1>2 DEF IsOver
<1>e. IsOver(u, n5, D)
  BY <1>1, <1>2 DEF IsOver
<1>f. IsOver(v, n6, D)
  BY <1>1, <1>2 DEF IsOver
<1>g. IsOver(p, n7, D)
  BY <1>1, <1>2 DEF IsOver
<1>h. IsOver(q, n8, D)
  BY <1>1, <1>2 DEF IsOver
<1>4. D2 \in Int \ {0} /\ D3 \in Int \ {0} /\ D4 \in Int \ {0} /\ D5 \in Int \ {0}
  BY NonZero
<1>5. D2 = D * D /\ D3 = D * D2 /\ D4 = D * D3 /\ D5 = D * D4 /\ D3 = D2 * D /\ D4 = D2 * D2
      /\ D5 = D2 * D3 /\ D4 = D3 * D /\ D5 = D3 * D2 /\ D5 = D4 * D
  OBVIOUS
<1> HIDE DEF n1, n2, n3, n4, n5, n6, n7, n8, D2, D3, D4, D5
<1>6. IsOver(RMul(p, p), (n7 * n7), D2)
  BY <1>g, <1>5, OverMul
<1>7. IsOver(RMul(RMul(p, p), x3), ((n7 * n7) * n3), D3)
  BY <1>6, <1>c, <1>5, OverMul
<1>8. IsOver(RMul(p, x7), (n7 * n4), D2)
  BY <1>g, <1>d, <1>5, OverMul
<1>9. IsOver(RMul(p, x7), ((n7 * n4) * D), D3)
  BY <1>8, <1>4, <1>5, OverPad
<1>10. IsOver(RAdd(RMul(RMul(p, p), x3), RMul(p, x7)), (((n7 * n7) * n3) + ((n7 * n4) * D)), D3)
  BY <1>7, <1>9, OverPlus
<1>11. IsOver(RMul(u, RAdd(RMul(RMul(p, p), x3), RMul(p, x7))), (n5 * (((n7 * n7) * n3) + ((n7 *
         n4) * D))), D4)
  BY <1>e, <1>10, <1>5, OverMul
<1>12. IsOver(RMul(p, x1), (n7 * n2), D2)
  BY <1>g, <1>b, <1>5, OverMul
<1>13. IsOver(RMul(q, x7), (n8 * n4), D2)
  BY <1>h, <1>d, <1>5, OverMul
<1>14. IsOver(RAdd(RMul(p, x1), RMul(q, x7)), ((n7 * n2) + (n8 * n4)), D2)
  BY <1>12, <1>13, OverPlus
<1>15. IsOver(RMul(v, RAdd(RMul(p, x1), RMul(q, x7))), (n6 * ((n7 * n2) + (n8 * n4))), D3)
  BY <1>f, <1>14, <1>5, OverMul
<1>16. IsOver(RMul(v, RAdd(RMul(p, x1), RMul(q, x7))), ((n6 * ((n7 * n2) + (n8 * n4))) * D), D4)
  BY <1>15, <1>4, <1>5, OverPad
<1>17. IsOver(RAdd(RMul(u, RAdd(RMul(RMul(p, p), x3), RMul(p, x7))), RMul(v, RAdd(RMul(p, x1),
         RMul(q, x7)))), ((n5 * (((n7 * n7) * n3) + ((n7 * n4) * D))) + ((n6 * ((n7 * n2) +
         (n8 * n4))) * D)), D4)
  BY <1>11, <1>16, OverPlus
<1>18. IsOver(RMul(g, RAdd(RMul(u, RAdd(RMul(RMul(p, p), x3), RMul(p, x7))), RMul(v, RAdd(RMul(p,
         x1), RMul(q, x7))))), (n1 * ((n5 * (((n7 * n7) * n3) + ((n7 * n4) * D))) + ((n6 *
         ((n7 * n2) + (n8 * n4))) * D))), D5)
  BY <1>a, <1>17, <1>5, OverMul
<1>19. IsOver(RMul(g, x3), (n1 * n3), D2)
  BY <1>a, <1>c, <1>5, OverMul
<1>20. IsOver(RMul(RMul(p, p), RMul(g, x3)), ((n7 * n7) * (n1 * n3)), D4)
  BY <1>6, <1>19, <1>5, OverMul
<1>21. IsOver(RMul(g, x7), (n1 * n4), D2)
  BY <1>a, <1>d, <1>5, OverMul
<1>22. IsOver(RMul(p, RMul(g, x7)), (n7 * (n1 * n4)), D3)
  BY <1>g, <1>21, <1>5, OverMul
<1>23. IsOver(RMul(p, RMul(g, x7)), ((n7 * (n1 * n4)) * D), D4)
  BY <1>22, <1>4, <1>5, OverPad
<1>24. IsOver(RAdd(RMul(RMul(p, p), RMul(g, x3)), RMul(p, RMul(g, x7))), (((n7 * n7) * (n1 * n3)) +
         ((n7 * (n1 * n4)) * D)), D4)
  BY <1>20, <1>23, OverPlus
<1>25. IsOver(RMul(u, RAdd(RMul(RMul(p, p), RMul(g, x3)), RMul(p, RMul(g, x7)))), (n5 * (((n7 *
         n7) * (n1 * n3)) + ((n7 * (n1 * n4)) * D))), D5)
  BY <1>e, <1>24, <1>5, OverMul
<1>26. IsOver(RMul(g, x1), (n1 * n2), D2)
  BY <1>a, <1>b, <1>5, OverMul
<1>27. IsOver(RMul(p, RMul(g, x1)), (n7 * (n1 * n2)), D3)
  BY <1>g, <1>26, <1>5, OverMul
<1>28. IsOver(RMul(q, RMul(g, x7)), (n8 * (n1 * n4)), D3)
  BY <1>h, <1>21, <1>5, OverMul
<1>29. IsOver(RAdd(RMul(p, RMul(g, x1)), RMul(q, RMul(g, x7))), ((n7 * (n1 * n2)) + (n8 * (n1 *
         n4))), D3)
  BY <1>27, <1>28, OverPlus
<1>30. IsOver(RMul(v, RAdd(RMul(p, RMul(g, x1)), RMul(q, RMul(g, x7)))), (n6 * ((n7 * (n1 * n2)) +
         (n8 * (n1 * n4)))), D4)
  BY <1>f, <1>29, <1>5, OverMul
<1>31. IsOver(RMul(v, RAdd(RMul(p, RMul(g, x1)), RMul(q, RMul(g, x7)))), ((n6 * ((n7 * (n1 * n2)) +
         (n8 * (n1 * n4)))) * D), D5)
  BY <1>30, <1>4, <1>5, OverPad
<1>32. IsOver(RAdd(RMul(u, RAdd(RMul(RMul(p, p), RMul(g, x3)), RMul(p, RMul(g, x7)))), RMul(v,
         RAdd(RMul(p, RMul(g, x1)), RMul(q, RMul(g, x7))))), ((n5 * (((n7 * n7) * (n1 * n3)) +
         ((n7 * (n1 * n4)) * D))) + ((n6 * ((n7 * (n1 * n2)) + (n8 * (n1 * n4)))) * D)), D5)
  BY <1>25, <1>31, OverPlus
<1>33. (n1 * ((n5 * (((n7 * n7) * n3) + ((n7 * n4) * D))) + ((n6 * ((n7 * n2) + (n8 * n4))) *
         D))) = ((n5 * (((n7 * n7) * (n1 * n3)) + ((n7 * (n1 * n4)) * D))) + ((n6 * ((n7 * (n1 *
         n2)) + (n8 * (n1 * n4)))) * D))
  BY <1>3 DEF D2, D3, D4, D5
<1>34. RMul(g, RAdd(RMul(u, RAdd(RMul(RMul(p, p), x3), RMul(p, x7))), RMul(v, RAdd(RMul(p, x1),
         RMul(q, x7))))) = RAdd(RMul(u, RAdd(RMul(RMul(p, p), RMul(g, x3)), RMul(p, RMul(g,
         x7)))), RMul(v, RAdd(RMul(p, RMul(g, x1)), RMul(q, RMul(g, x7)))))
  BY <1>18, <1>32, <1>33, OverEqual
<1>35. QED
  BY <1>34 DEF (+), (-), (.), ChangeTimesLaw

\* The determinant, the norm and the products of two remainders a + b x and c + d x by
\* x^2 + u x + v, with b and d the coefficients of x + u.
Determinant(a, b, c, d) == b (.) c (-) a (.) d

Norm(a, b, u, v) == a (.) a (+) u (.) a (.) b (+) v (.) b (.) b

Pairing(a, b, c, d, u, v) == u (.) a (.) d (+) v (.) b (.) d (+) a (.) c

Conjugated(a, b, c, d, u, v) == a (.) c (+) u (.) b (.) c (+) v (.) b (.) d

\* The product v of the shift times the coefficient of x in the next remainder.
Carry(a, b, c, d, u, t) == RNeg(c (+) u (.) d) (+) t (.) (a (+) u (.) b)

\* The same for the remainder after that.
CarryTwice(a, b, c, d, u, v, t, w) ==
    RNeg(v (.) (d (-) t (.) b) (+) u (.) Carry(a, b, c, d, u, t)) (+) v (.) (w (.) (a (+) u (.) b))

\* What newest_ak1 computes from the scalars times their divisor: c4, temp and the change of u.
FourthOf(a, b, c, d, u, v, t, w) ==
    v (.) RNeg(w) (.) Determinant(a, b, c, d)
    (-) (RNeg(t) (.) Pairing(a, b, c, d, u, v) (+) RNeg(t) (.) RNeg(t) (.) Norm(a, b, u, v))

TempOf(a, b, c, d, u, v, t, w) ==
    (Norm(c, d, u, v) (-) FourthOf(a, b, c, d, u, v, t, w)) (+) RNeg(t) (.) Conjugated(a, b, c, d, u, v)

ChangeOf(a, b, c, d, u, v, t, w) ==
    u (.) (RNeg(t) (.) RNeg(t) (.) Norm(a, b, u, v) (+) RNeg(t) (.) Pairing(a, b, c, d, u, v))
    (+) v (.) (RNeg(t) (.) Determinant(a, b, c, d) (+) RNeg(w) (.) Pairing(a, b, c, d, u, v))

\* The cross products of the remainders are what newest_ak1 divides.
NextCrossLaw(a, b, c, d, u, v, t, w) ==
    Carry(a, b, c, d, u, t) (.) (Carry(a, b, c, d, u, t) (-) w (.) (v (.) b)) (-) (d (-) t (.)
             b) (.) CarryTwice(a, b, c, d, u, v, t, w) = TempOf(a, b, c, d, u, v, t, w)

\* The cross product of the second and third remainders, in products of the first.
LEMMA NextCross ==
  ASSUME NEW a \in Rat, NEW b \in Rat, NEW c \in Rat, NEW d \in Rat, NEW u \in Rat,
         NEW v \in Rat, NEW t \in Rat, NEW w \in Rat
  PROVE  NextCrossLaw(a, b, c, d, u, v, t, w)
<1> DEFINE F == [i \in 1 .. 8 |-> IF i = 1 THEN a ELSE IF i = 2 THEN b ELSE IF i =
         3 THEN c ELSE IF i = 4 THEN d ELSE IF i = 5 THEN u ELSE IF i = 6 THEN v ELSE IF i =
         7 THEN t ELSE w]
<1>1. F \in [1 .. 8 -> Rat] /\ F[1] = a /\ F[2] = b /\ F[3] = c /\ F[4] = d /\ F[5] = u /\
         F[6] = v /\ F[7] = t /\ F[8] = w
  OBVIOUS
<1> HIDE DEF F
<1>2. PICK D \in Int \ {0}, G \in [1 .. 8 -> Int] : \A i \in 1 .. 8 : Is(F[i], G[i], D)
  BY <1>1, CommonDenominator DEF AllOver
<1> DEFINE n1 == G[1]
           n2 == G[2]
           n3 == G[3]
           n4 == G[4]
           n5 == G[5]
           n6 == G[6]
           n7 == G[7]
           n8 == G[8]
           D2 == D * D
           D3 == D2 * D
           D4 == D3 * D
           D5 == D4 * D
           D6 == D5 * D
<1>3. n1 \in Int /\ n2 \in Int /\ n3 \in Int /\ n4 \in Int /\ n5 \in Int /\ n6 \in Int
      /\ n7 \in Int /\ n8 \in Int
  BY <1>2
<1>a. IsOver(a, n1, D)
  BY <1>1, <1>2 DEF IsOver
<1>b. IsOver(b, n2, D)
  BY <1>1, <1>2 DEF IsOver
<1>c. IsOver(c, n3, D)
  BY <1>1, <1>2 DEF IsOver
<1>d. IsOver(d, n4, D)
  BY <1>1, <1>2 DEF IsOver
<1>e. IsOver(u, n5, D)
  BY <1>1, <1>2 DEF IsOver
<1>f. IsOver(v, n6, D)
  BY <1>1, <1>2 DEF IsOver
<1>g. IsOver(t, n7, D)
  BY <1>1, <1>2 DEF IsOver
<1>h. IsOver(w, n8, D)
  BY <1>1, <1>2 DEF IsOver
<1>4. D2 \in Int \ {0} /\ D3 \in Int \ {0} /\ D4 \in Int \ {0} /\ D5 \in Int \ {0}
      /\ D6 \in Int \ {0}
  BY NonZero
<1>5. D2 = D * D /\ D3 = D * D2 /\ D4 = D * D3 /\ D5 = D * D4 /\ D6 = D * D5 /\ D3 = D2 * D
      /\ D4 = D2 * D2 /\ D5 = D2 * D3 /\ D6 = D2 * D4 /\ D4 = D3 * D /\ D5 = D3 * D2
      /\ D6 = D3 * D3 /\ D5 = D4 * D /\ D6 = D4 * D2 /\ D6 = D5 * D
  OBVIOUS
<1> HIDE DEF n1, n2, n3, n4, n5, n6, n7, n8, D2, D3, D4, D5, D6
<1>6. IsOver(c, (n3 * D), D2)
  BY <1>c, <1>4, <1>5, OverPad
<1>7. IsOver(RMul(u, d), (n5 * n4), D2)
  BY <1>e, <1>d, <1>5, OverMul
<1>8. IsOver(RAdd(c, RMul(u, d)), ((n3 * D) + (n5 * n4)), D2)
  BY <1>6, <1>7, OverPlus
<1>9. IsOver(RNeg(RAdd(c, RMul(u, d))), (-((n3 * D) + (n5 * n4))), D2)
  BY <1>8, OverNeg
<1>10. IsOver(RNeg(RAdd(c, RMul(u, d))), ((-((n3 * D) + (n5 * n4))) * D), D3)
  BY <1>9, <1>4, <1>5, OverPad
<1>11. IsOver(a, (n1 * D), D2)
  BY <1>a, <1>4, <1>5, OverPad
<1>12. IsOver(RMul(u, b), (n5 * n2), D2)
  BY <1>e, <1>b, <1>5, OverMul
<1>13. IsOver(RAdd(a, RMul(u, b)), ((n1 * D) + (n5 * n2)), D2)
  BY <1>11, <1>12, OverPlus
<1>14. IsOver(RMul(t, RAdd(a, RMul(u, b))), (n7 * ((n1 * D) + (n5 * n2))), D3)
  BY <1>g, <1>13, <1>5, OverMul
<1>15. IsOver(RAdd(RNeg(RAdd(c, RMul(u, d))), RMul(t, RAdd(a, RMul(u, b)))), (((-((n3 * D) + (n5 *
         n4))) * D) + (n7 * ((n1 * D) + (n5 * n2)))), D3)
  BY <1>10, <1>14, OverPlus
<1>16. IsOver(RMul(v, b), (n6 * n2), D2)
  BY <1>f, <1>b, <1>5, OverMul
<1>17. IsOver(RMul(w, RMul(v, b)), (n8 * (n6 * n2)), D3)
  BY <1>h, <1>16, <1>5, OverMul
<1>18. IsOver(RSub(RAdd(RNeg(RAdd(c, RMul(u, d))), RMul(t, RAdd(a, RMul(u, b)))), RMul(w, RMul(v,
         b))), ((((-((n3 * D) + (n5 * n4))) * D) + (n7 * ((n1 * D) + (n5 * n2)))) - (n8 * (n6 *
         n2))), D3)
  BY <1>15, <1>17, OverMinus
<1>19. IsOver(RMul(RAdd(RNeg(RAdd(c, RMul(u, d))), RMul(t, RAdd(a, RMul(u, b)))),
         RSub(RAdd(RNeg(RAdd(c, RMul(u, d))), RMul(t, RAdd(a, RMul(u, b)))), RMul(w, RMul(v,
         b)))), ((((-((n3 * D) + (n5 * n4))) * D) + (n7 * ((n1 * D) + (n5 * n2)))) * ((((-((n3 *
         D) + (n5 * n4))) * D) + (n7 * ((n1 * D) + (n5 * n2)))) - (n8 * (n6 * n2)))), D6)
  BY <1>15, <1>18, <1>5, OverMul
<1>20. IsOver(d, (n4 * D), D2)
  BY <1>d, <1>4, <1>5, OverPad
<1>21. IsOver(RMul(t, b), (n7 * n2), D2)
  BY <1>g, <1>b, <1>5, OverMul
<1>22. IsOver(RSub(d, RMul(t, b)), ((n4 * D) - (n7 * n2)), D2)
  BY <1>20, <1>21, OverMinus
<1>23. IsOver(RMul(v, RSub(d, RMul(t, b))), (n6 * ((n4 * D) - (n7 * n2))), D3)
  BY <1>f, <1>22, <1>5, OverMul
<1>24. IsOver(RMul(v, RSub(d, RMul(t, b))), ((n6 * ((n4 * D) - (n7 * n2))) * D), D4)
  BY <1>23, <1>4, <1>5, OverPad
<1>25. IsOver(RMul(u, RAdd(RNeg(RAdd(c, RMul(u, d))), RMul(t, RAdd(a, RMul(u, b))))), (n5 *
         (((-((n3 * D) + (n5 * n4))) * D) + (n7 * ((n1 * D) + (n5 * n2))))), D4)
  BY <1>e, <1>15, <1>5, OverMul
<1>26. IsOver(RAdd(RMul(v, RSub(d, RMul(t, b))), RMul(u, RAdd(RNeg(RAdd(c, RMul(u, d))), RMul(t,
         RAdd(a, RMul(u, b)))))), (((n6 * ((n4 * D) - (n7 * n2))) * D) + (n5 * (((-((n3 * D) +
         (n5 * n4))) * D) + (n7 * ((n1 * D) + (n5 * n2)))))), D4)
  BY <1>24, <1>25, OverPlus
<1>27. IsOver(RNeg(RAdd(RMul(v, RSub(d, RMul(t, b))), RMul(u, RAdd(RNeg(RAdd(c, RMul(u, d))),
         RMul(t, RAdd(a, RMul(u, b))))))), (-(((n6 * ((n4 * D) - (n7 * n2))) * D) + (n5 *
         (((-((n3 * D) + (n5 * n4))) * D) + (n7 * ((n1 * D) + (n5 * n2))))))), D4)
  BY <1>26, OverNeg
<1>28. IsOver(RMul(w, RAdd(a, RMul(u, b))), (n8 * ((n1 * D) + (n5 * n2))), D3)
  BY <1>h, <1>13, <1>5, OverMul
<1>29. IsOver(RMul(v, RMul(w, RAdd(a, RMul(u, b)))), (n6 * (n8 * ((n1 * D) + (n5 * n2)))), D4)
  BY <1>f, <1>28, <1>5, OverMul
<1>30. IsOver(RAdd(RNeg(RAdd(RMul(v, RSub(d, RMul(t, b))), RMul(u, RAdd(RNeg(RAdd(c, RMul(u, d))),
         RMul(t, RAdd(a, RMul(u, b))))))), RMul(v, RMul(w, RAdd(a, RMul(u, b))))), ((-(((n6 *
         ((n4 * D) - (n7 * n2))) * D) + (n5 * (((-((n3 * D) + (n5 * n4))) * D) + (n7 * ((n1 *
         D) + (n5 * n2))))))) + (n6 * (n8 * ((n1 * D) + (n5 * n2))))), D4)
  BY <1>27, <1>29, OverPlus
<1>31. IsOver(RMul(RSub(d, RMul(t, b)), RAdd(RNeg(RAdd(RMul(v, RSub(d, RMul(t, b))), RMul(u,
         RAdd(RNeg(RAdd(c, RMul(u, d))), RMul(t, RAdd(a, RMul(u, b))))))), RMul(v, RMul(w,
         RAdd(a, RMul(u, b)))))), (((n4 * D) - (n7 * n2)) * ((-(((n6 * ((n4 * D) - (n7 * n2))) *
         D) + (n5 * (((-((n3 * D) + (n5 * n4))) * D) + (n7 * ((n1 * D) + (n5 * n2))))))) + (n6 *
         (n8 * ((n1 * D) + (n5 * n2)))))), D6)
  BY <1>22, <1>30, <1>5, OverMul
<1>32. IsOver(RSub(RMul(RAdd(RNeg(RAdd(c, RMul(u, d))), RMul(t, RAdd(a, RMul(u, b)))),
         RSub(RAdd(RNeg(RAdd(c, RMul(u, d))), RMul(t, RAdd(a, RMul(u, b)))), RMul(w, RMul(v,
         b)))), RMul(RSub(d, RMul(t, b)), RAdd(RNeg(RAdd(RMul(v, RSub(d, RMul(t, b))), RMul(u,
         RAdd(RNeg(RAdd(c, RMul(u, d))), RMul(t, RAdd(a, RMul(u, b))))))), RMul(v, RMul(w,
         RAdd(a, RMul(u, b))))))), (((((-((n3 * D) + (n5 * n4))) * D) + (n7 * ((n1 * D) + (n5 *
         n2)))) * ((((-((n3 * D) + (n5 * n4))) * D) + (n7 * ((n1 * D) + (n5 * n2)))) - (n8 *
         (n6 * n2)))) - (((n4 * D) - (n7 * n2)) * ((-(((n6 * ((n4 * D) - (n7 * n2))) * D) +
         (n5 * (((-((n3 * D) + (n5 * n4))) * D) + (n7 * ((n1 * D) + (n5 * n2))))))) + (n6 *
         (n8 * ((n1 * D) + (n5 * n2))))))), D6)
  BY <1>19, <1>31, OverMinus
<1>33. IsOver(RMul(c, c), (n3 * n3), D2)
  BY <1>c, <1>5, OverMul
<1>34. IsOver(RMul(c, c), ((n3 * n3) * D), D3)
  BY <1>33, <1>4, <1>5, OverPad
<1>35. IsOver(RMul(u, c), (n5 * n3), D2)
  BY <1>e, <1>c, <1>5, OverMul
<1>36. IsOver(RMul(RMul(u, c), d), ((n5 * n3) * n4), D3)
  BY <1>35, <1>d, <1>5, OverMul
<1>37. IsOver(RAdd(RMul(c, c), RMul(RMul(u, c), d)), (((n3 * n3) * D) + ((n5 * n3) * n4)), D3)
  BY <1>34, <1>36, OverPlus
<1>38. IsOver(RMul(v, d), (n6 * n4), D2)
  BY <1>f, <1>d, <1>5, OverMul
<1>39. IsOver(RMul(RMul(v, d), d), ((n6 * n4) * n4), D3)
  BY <1>38, <1>d, <1>5, OverMul
<1>40. IsOver(RAdd(RAdd(RMul(c, c), RMul(RMul(u, c), d)), RMul(RMul(v, d), d)), ((((n3 * n3) * D) +
         ((n5 * n3) * n4)) + ((n6 * n4) * n4)), D3)
  BY <1>37, <1>39, OverPlus
<1>41. IsOver(RAdd(RAdd(RMul(c, c), RMul(RMul(u, c), d)), RMul(RMul(v, d), d)), (((((n3 * n3) *
         D) + ((n5 * n3) * n4)) + ((n6 * n4) * n4)) * D2), D5)
  BY <1>40, <1>4, <1>5, OverPad
<1>42. IsOver(RMul(b, c), (n2 * n3), D2)
  BY <1>b, <1>c, <1>5, OverMul
<1>43. IsOver(RMul(a, d), (n1 * n4), D2)
  BY <1>a, <1>d, <1>5, OverMul
<1>44. IsOver(RSub(RMul(b, c), RMul(a, d)), ((n2 * n3) - (n1 * n4)), D2)
  BY <1>42, <1>43, OverMinus
<1>45. IsOver(RNeg(w), (-n8), D)
  BY <1>h, OverNeg
<1>46. IsOver(RMul(v, RNeg(w)), (n6 * (-n8)), D2)
  BY <1>f, <1>45, <1>5, OverMul
<1>47. IsOver(RMul(RMul(v, RNeg(w)), RSub(RMul(b, c), RMul(a, d))), ((n6 * (-n8)) * ((n2 * n3) -
         (n1 * n4))), D4)
  BY <1>46, <1>44, <1>5, OverMul
<1>48. IsOver(RMul(RMul(v, RNeg(w)), RSub(RMul(b, c), RMul(a, d))), (((n6 * (-n8)) * ((n2 * n3) -
         (n1 * n4))) * D), D5)
  BY <1>47, <1>4, <1>5, OverPad
<1>49. IsOver(RMul(u, a), (n5 * n1), D2)
  BY <1>e, <1>a, <1>5, OverMul
<1>50. IsOver(RMul(RMul(u, a), d), ((n5 * n1) * n4), D3)
  BY <1>49, <1>d, <1>5, OverMul
<1>51. IsOver(RMul(RMul(v, b), d), ((n6 * n2) * n4), D3)
  BY <1>16, <1>d, <1>5, OverMul
<1>52. IsOver(RAdd(RMul(RMul(u, a), d), RMul(RMul(v, b), d)), (((n5 * n1) * n4) + ((n6 * n2) * n4)),
         D3)
  BY <1>50, <1>51, OverPlus
<1>53. IsOver(RMul(a, c), (n1 * n3), D2)
  BY <1>a, <1>c, <1>5, OverMul
<1>54. IsOver(RMul(a, c), ((n1 * n3) * D), D3)
  BY <1>53, <1>4, <1>5, OverPad
<1>55. IsOver(RAdd(RAdd(RMul(RMul(u, a), d), RMul(RMul(v, b), d)), RMul(a, c)), ((((n5 * n1) *
         n4) + ((n6 * n2) * n4)) + ((n1 * n3) * D)), D3)
  BY <1>52, <1>54, OverPlus
<1>56. IsOver(RNeg(t), (-n7), D)
  BY <1>g, OverNeg
<1>57. IsOver(RMul(RNeg(t), RAdd(RAdd(RMul(RMul(u, a), d), RMul(RMul(v, b), d)), RMul(a, c))),
         ((-n7) * ((((n5 * n1) * n4) + ((n6 * n2) * n4)) + ((n1 * n3) * D))), D4)
  BY <1>56, <1>55, <1>5, OverMul
<1>58. IsOver(RMul(RNeg(t), RAdd(RAdd(RMul(RMul(u, a), d), RMul(RMul(v, b), d)), RMul(a, c))),
         (((-n7) * ((((n5 * n1) * n4) + ((n6 * n2) * n4)) + ((n1 * n3) * D))) * D), D5)
  BY <1>57, <1>4, <1>5, OverPad
<1>59. IsOver(RMul(a, a), (n1 * n1), D2)
  BY <1>a, <1>5, OverMul
<1>60. IsOver(RMul(a, a), ((n1 * n1) * D), D3)
  BY <1>59, <1>4, <1>5, OverPad
<1>61. IsOver(RMul(RMul(u, a), b), ((n5 * n1) * n2), D3)
  BY <1>49, <1>b, <1>5, OverMul
<1>62. IsOver(RAdd(RMul(a, a), RMul(RMul(u, a), b)), (((n1 * n1) * D) + ((n5 * n1) * n2)), D3)
  BY <1>60, <1>61, OverPlus
<1>63. IsOver(RMul(RMul(v, b), b), ((n6 * n2) * n2), D3)
  BY <1>16, <1>b, <1>5, OverMul
<1>64. IsOver(RAdd(RAdd(RMul(a, a), RMul(RMul(u, a), b)), RMul(RMul(v, b), b)), ((((n1 * n1) * D) +
         ((n5 * n1) * n2)) + ((n6 * n2) * n2)), D3)
  BY <1>62, <1>63, OverPlus
<1>65. IsOver(RMul(RNeg(t), RNeg(t)), ((-n7) * (-n7)), D2)
  BY <1>56, <1>5, OverMul
<1>66. IsOver(RMul(RMul(RNeg(t), RNeg(t)), RAdd(RAdd(RMul(a, a), RMul(RMul(u, a), b)), RMul(RMul(v,
         b), b))), (((-n7) * (-n7)) * ((((n1 * n1) * D) + ((n5 * n1) * n2)) + ((n6 * n2) * n2))),
         D5)
  BY <1>65, <1>64, <1>5, OverMul
<1>67. IsOver(RAdd(RMul(RNeg(t), RAdd(RAdd(RMul(RMul(u, a), d), RMul(RMul(v, b), d)), RMul(a, c))),
         RMul(RMul(RNeg(t), RNeg(t)), RAdd(RAdd(RMul(a, a), RMul(RMul(u, a), b)), RMul(RMul(v,
         b), b)))), ((((-n7) * ((((n5 * n1) * n4) + ((n6 * n2) * n4)) + ((n1 * n3) * D))) * D) +
         (((-n7) * (-n7)) * ((((n1 * n1) * D) + ((n5 * n1) * n2)) + ((n6 * n2) * n2)))), D5)
  BY <1>58, <1>66, OverPlus
<1>68. IsOver(RSub(RMul(RMul(v, RNeg(w)), RSub(RMul(b, c), RMul(a, d))), RAdd(RMul(RNeg(t),
         RAdd(RAdd(RMul(RMul(u, a), d), RMul(RMul(v, b), d)), RMul(a, c))), RMul(RMul(RNeg(t),
         RNeg(t)), RAdd(RAdd(RMul(a, a), RMul(RMul(u, a), b)), RMul(RMul(v, b), b))))), ((((n6 *
         (-n8)) * ((n2 * n3) - (n1 * n4))) * D) - ((((-n7) * ((((n5 * n1) * n4) + ((n6 * n2) *
         n4)) + ((n1 * n3) * D))) * D) + (((-n7) * (-n7)) * ((((n1 * n1) * D) + ((n5 * n1) *
         n2)) + ((n6 * n2) * n2))))), D5)
  BY <1>48, <1>67, OverMinus
<1>69. IsOver(RSub(RAdd(RAdd(RMul(c, c), RMul(RMul(u, c), d)), RMul(RMul(v, d), d)),
         RSub(RMul(RMul(v, RNeg(w)), RSub(RMul(b, c), RMul(a, d))), RAdd(RMul(RNeg(t),
         RAdd(RAdd(RMul(RMul(u, a), d), RMul(RMul(v, b), d)), RMul(a, c))), RMul(RMul(RNeg(t),
         RNeg(t)), RAdd(RAdd(RMul(a, a), RMul(RMul(u, a), b)), RMul(RMul(v, b), b)))))),
         ((((((n3 * n3) * D) + ((n5 * n3) * n4)) + ((n6 * n4) * n4)) * D2) - ((((n6 * (-n8)) *
         ((n2 * n3) - (n1 * n4))) * D) - ((((-n7) * ((((n5 * n1) * n4) + ((n6 * n2) * n4)) +
         ((n1 * n3) * D))) * D) + (((-n7) * (-n7)) * ((((n1 * n1) * D) + ((n5 * n1) * n2)) +
         ((n6 * n2) * n2)))))), D5)
  BY <1>41, <1>68, OverMinus
<1>70. IsOver(RMul(RMul(u, b), c), ((n5 * n2) * n3), D3)
  BY <1>12, <1>c, <1>5, OverMul
<1>71. IsOver(RAdd(RMul(a, c), RMul(RMul(u, b), c)), (((n1 * n3) * D) + ((n5 * n2) * n3)), D3)
  BY <1>54, <1>70, OverPlus
<1>72. IsOver(RAdd(RAdd(RMul(a, c), RMul(RMul(u, b), c)), RMul(RMul(v, b), d)), ((((n1 * n3) * D) +
         ((n5 * n2) * n3)) + ((n6 * n2) * n4)), D3)
  BY <1>71, <1>51, OverPlus
<1>73. IsOver(RMul(RNeg(t), RAdd(RAdd(RMul(a, c), RMul(RMul(u, b), c)), RMul(RMul(v, b), d))),
         ((-n7) * ((((n1 * n3) * D) + ((n5 * n2) * n3)) + ((n6 * n2) * n4))), D4)
  BY <1>56, <1>72, <1>5, OverMul
<1>74. IsOver(RMul(RNeg(t), RAdd(RAdd(RMul(a, c), RMul(RMul(u, b), c)), RMul(RMul(v, b), d))),
         (((-n7) * ((((n1 * n3) * D) + ((n5 * n2) * n3)) + ((n6 * n2) * n4))) * D), D5)
  BY <1>73, <1>4, <1>5, OverPad
<1>75. IsOver(RAdd(RSub(RAdd(RAdd(RMul(c, c), RMul(RMul(u, c), d)), RMul(RMul(v, d), d)),
         RSub(RMul(RMul(v, RNeg(w)), RSub(RMul(b, c), RMul(a, d))), RAdd(RMul(RNeg(t),
         RAdd(RAdd(RMul(RMul(u, a), d), RMul(RMul(v, b), d)), RMul(a, c))), RMul(RMul(RNeg(t),
         RNeg(t)), RAdd(RAdd(RMul(a, a), RMul(RMul(u, a), b)), RMul(RMul(v, b), b)))))),
         RMul(RNeg(t), RAdd(RAdd(RMul(a, c), RMul(RMul(u, b), c)), RMul(RMul(v, b), d)))),
         (((((((n3 * n3) * D) + ((n5 * n3) * n4)) + ((n6 * n4) * n4)) * D2) - ((((n6 * (-n8)) *
         ((n2 * n3) - (n1 * n4))) * D) - ((((-n7) * ((((n5 * n1) * n4) + ((n6 * n2) * n4)) +
         ((n1 * n3) * D))) * D) + (((-n7) * (-n7)) * ((((n1 * n1) * D) + ((n5 * n1) * n2)) +
         ((n6 * n2) * n2)))))) + (((-n7) * ((((n1 * n3) * D) + ((n5 * n2) * n3)) + ((n6 * n2) *
         n4))) * D)), D5)
  BY <1>69, <1>74, OverPlus
<1>76. IsOver(RAdd(RSub(RAdd(RAdd(RMul(c, c), RMul(RMul(u, c), d)), RMul(RMul(v, d), d)),
         RSub(RMul(RMul(v, RNeg(w)), RSub(RMul(b, c), RMul(a, d))), RAdd(RMul(RNeg(t),
         RAdd(RAdd(RMul(RMul(u, a), d), RMul(RMul(v, b), d)), RMul(a, c))), RMul(RMul(RNeg(t),
         RNeg(t)), RAdd(RAdd(RMul(a, a), RMul(RMul(u, a), b)), RMul(RMul(v, b), b)))))),
         RMul(RNeg(t), RAdd(RAdd(RMul(a, c), RMul(RMul(u, b), c)), RMul(RMul(v, b), d)))),
         ((((((((n3 * n3) * D) + ((n5 * n3) * n4)) + ((n6 * n4) * n4)) * D2) - ((((n6 * (-n8)) *
         ((n2 * n3) - (n1 * n4))) * D) - ((((-n7) * ((((n5 * n1) * n4) + ((n6 * n2) * n4)) +
         ((n1 * n3) * D))) * D) + (((-n7) * (-n7)) * ((((n1 * n1) * D) + ((n5 * n1) * n2)) +
         ((n6 * n2) * n2)))))) + (((-n7) * ((((n1 * n3) * D) + ((n5 * n2) * n3)) + ((n6 * n2) *
         n4))) * D)) * D), D6)
  BY <1>75, <1>4, <1>5, OverPad
<1>77. (((((-((n3 * D) + (n5 * n4))) * D) + (n7 * ((n1 * D) + (n5 * n2)))) * ((((-((n3 * D) +
         (n5 * n4))) * D) + (n7 * ((n1 * D) + (n5 * n2)))) - (n8 * (n6 * n2)))) - (((n4 * D) -
         (n7 * n2)) * ((-(((n6 * ((n4 * D) - (n7 * n2))) * D) + (n5 * (((-((n3 * D) + (n5 *
         n4))) * D) + (n7 * ((n1 * D) + (n5 * n2))))))) + (n6 * (n8 * ((n1 * D) + (n5 *
         n2))))))) = ((((((((n3 * n3) * D) + ((n5 * n3) * n4)) + ((n6 * n4) * n4)) * D2) -
         ((((n6 * (-n8)) * ((n2 * n3) - (n1 * n4))) * D) - ((((-n7) * ((((n5 * n1) * n4) +
         ((n6 * n2) * n4)) + ((n1 * n3) * D))) * D) + (((-n7) * (-n7)) * ((((n1 * n1) * D) +
         ((n5 * n1) * n2)) + ((n6 * n2) * n2)))))) + (((-n7) * ((((n1 * n3) * D) + ((n5 * n2) *
         n3)) + ((n6 * n2) * n4))) * D)) * D)
  BY <1>3 DEF D2, D3, D4, D5, D6
<1>78. RSub(RMul(RAdd(RNeg(RAdd(c, RMul(u, d))), RMul(t, RAdd(a, RMul(u, b)))),
         RSub(RAdd(RNeg(RAdd(c, RMul(u, d))), RMul(t, RAdd(a, RMul(u, b)))), RMul(w, RMul(v,
         b)))), RMul(RSub(d, RMul(t, b)), RAdd(RNeg(RAdd(RMul(v, RSub(d, RMul(t, b))), RMul(u,
         RAdd(RNeg(RAdd(c, RMul(u, d))), RMul(t, RAdd(a, RMul(u, b))))))), RMul(v, RMul(w,
         RAdd(a, RMul(u, b))))))) = RAdd(RSub(RAdd(RAdd(RMul(c, c), RMul(RMul(u, c), d)),
         RMul(RMul(v, d), d)), RSub(RMul(RMul(v, RNeg(w)), RSub(RMul(b, c), RMul(a, d))),
         RAdd(RMul(RNeg(t), RAdd(RAdd(RMul(RMul(u, a), d), RMul(RMul(v, b), d)), RMul(a, c))),
         RMul(RMul(RNeg(t), RNeg(t)), RAdd(RAdd(RMul(a, a), RMul(RMul(u, a), b)), RMul(RMul(v,
         b), b)))))), RMul(RNeg(t), RAdd(RAdd(RMul(a, c), RMul(RMul(u, b), c)), RMul(RMul(v, b),
         d))))
  BY <1>32, <1>76, <1>77, OverEqual
<1>79. QED
  BY <1>78 DEF (+), (-), (.), NextCrossLaw, Carry, CarryTwice, TempOf, Norm, FourthOf,
           Determinant, Pairing, Conjugated

FirstCrossLaw(a, b, c, d, u, v, t, w) ==
    d (.) (v (.) (d (-) t (.) b)) (-) c (.) Carry(a, b, c, d, u, t) = TempOf(a, b, c, d, u, v, t,
             w) (+) FourthOf(a, b, c, d, u, v, t, w)

\* The cross product of the first and second remainders.
LEMMA FirstCross ==
  ASSUME NEW a \in Rat, NEW b \in Rat, NEW c \in Rat, NEW d \in Rat, NEW u \in Rat,
         NEW v \in Rat, NEW t \in Rat, NEW w \in Rat
  PROVE  FirstCrossLaw(a, b, c, d, u, v, t, w)
<1> DEFINE F == [i \in 1 .. 8 |-> IF i = 1 THEN a ELSE IF i = 2 THEN b ELSE IF i =
         3 THEN c ELSE IF i = 4 THEN d ELSE IF i = 5 THEN u ELSE IF i = 6 THEN v ELSE IF i =
         7 THEN t ELSE w]
<1>1. F \in [1 .. 8 -> Rat] /\ F[1] = a /\ F[2] = b /\ F[3] = c /\ F[4] = d /\ F[5] = u /\
         F[6] = v /\ F[7] = t /\ F[8] = w
  OBVIOUS
<1> HIDE DEF F
<1>2. PICK D \in Int \ {0}, G \in [1 .. 8 -> Int] : \A i \in 1 .. 8 : Is(F[i], G[i], D)
  BY <1>1, CommonDenominator DEF AllOver
<1> DEFINE n1 == G[1]
           n2 == G[2]
           n3 == G[3]
           n4 == G[4]
           n5 == G[5]
           n6 == G[6]
           n7 == G[7]
           n8 == G[8]
           D2 == D * D
           D3 == D2 * D
           D4 == D3 * D
           D5 == D4 * D
<1>3. n1 \in Int /\ n2 \in Int /\ n3 \in Int /\ n4 \in Int /\ n5 \in Int /\ n6 \in Int
      /\ n7 \in Int /\ n8 \in Int
  BY <1>2
<1>a. IsOver(a, n1, D)
  BY <1>1, <1>2 DEF IsOver
<1>b. IsOver(b, n2, D)
  BY <1>1, <1>2 DEF IsOver
<1>c. IsOver(c, n3, D)
  BY <1>1, <1>2 DEF IsOver
<1>d. IsOver(d, n4, D)
  BY <1>1, <1>2 DEF IsOver
<1>e. IsOver(u, n5, D)
  BY <1>1, <1>2 DEF IsOver
<1>f. IsOver(v, n6, D)
  BY <1>1, <1>2 DEF IsOver
<1>g. IsOver(t, n7, D)
  BY <1>1, <1>2 DEF IsOver
<1>h. IsOver(w, n8, D)
  BY <1>1, <1>2 DEF IsOver
<1>4. D2 \in Int \ {0} /\ D3 \in Int \ {0} /\ D4 \in Int \ {0} /\ D5 \in Int \ {0}
  BY NonZero
<1>5. D2 = D * D /\ D3 = D * D2 /\ D4 = D * D3 /\ D5 = D * D4 /\ D3 = D2 * D /\ D4 = D2 * D2
      /\ D5 = D2 * D3 /\ D4 = D3 * D /\ D5 = D3 * D2 /\ D5 = D4 * D
  OBVIOUS
<1> HIDE DEF n1, n2, n3, n4, n5, n6, n7, n8, D2, D3, D4, D5
<1>6. IsOver(d, (n4 * D), D2)
  BY <1>d, <1>4, <1>5, OverPad
<1>7. IsOver(RMul(t, b), (n7 * n2), D2)
  BY <1>g, <1>b, <1>5, OverMul
<1>8. IsOver(RSub(d, RMul(t, b)), ((n4 * D) - (n7 * n2)), D2)
  BY <1>6, <1>7, OverMinus
<1>9. IsOver(RMul(v, RSub(d, RMul(t, b))), (n6 * ((n4 * D) - (n7 * n2))), D3)
  BY <1>f, <1>8, <1>5, OverMul
<1>10. IsOver(RMul(d, RMul(v, RSub(d, RMul(t, b)))), (n4 * (n6 * ((n4 * D) - (n7 * n2)))), D4)
  BY <1>d, <1>9, <1>5, OverMul
<1>11. IsOver(c, (n3 * D), D2)
  BY <1>c, <1>4, <1>5, OverPad
<1>12. IsOver(RMul(u, d), (n5 * n4), D2)
  BY <1>e, <1>d, <1>5, OverMul
<1>13. IsOver(RAdd(c, RMul(u, d)), ((n3 * D) + (n5 * n4)), D2)
  BY <1>11, <1>12, OverPlus
<1>14. IsOver(RNeg(RAdd(c, RMul(u, d))), (-((n3 * D) + (n5 * n4))), D2)
  BY <1>13, OverNeg
<1>15. IsOver(RNeg(RAdd(c, RMul(u, d))), ((-((n3 * D) + (n5 * n4))) * D), D3)
  BY <1>14, <1>4, <1>5, OverPad
<1>16. IsOver(a, (n1 * D), D2)
  BY <1>a, <1>4, <1>5, OverPad
<1>17. IsOver(RMul(u, b), (n5 * n2), D2)
  BY <1>e, <1>b, <1>5, OverMul
<1>18. IsOver(RAdd(a, RMul(u, b)), ((n1 * D) + (n5 * n2)), D2)
  BY <1>16, <1>17, OverPlus
<1>19. IsOver(RMul(t, RAdd(a, RMul(u, b))), (n7 * ((n1 * D) + (n5 * n2))), D3)
  BY <1>g, <1>18, <1>5, OverMul
<1>20. IsOver(RAdd(RNeg(RAdd(c, RMul(u, d))), RMul(t, RAdd(a, RMul(u, b)))), (((-((n3 * D) + (n5 *
         n4))) * D) + (n7 * ((n1 * D) + (n5 * n2)))), D3)
  BY <1>15, <1>19, OverPlus
<1>21. IsOver(RMul(c, RAdd(RNeg(RAdd(c, RMul(u, d))), RMul(t, RAdd(a, RMul(u, b))))), (n3 *
         (((-((n3 * D) + (n5 * n4))) * D) + (n7 * ((n1 * D) + (n5 * n2))))), D4)
  BY <1>c, <1>20, <1>5, OverMul
<1>22. IsOver(RSub(RMul(d, RMul(v, RSub(d, RMul(t, b)))), RMul(c, RAdd(RNeg(RAdd(c, RMul(u, d))),
         RMul(t, RAdd(a, RMul(u, b)))))), ((n4 * (n6 * ((n4 * D) - (n7 * n2)))) - (n3 *
         (((-((n3 * D) + (n5 * n4))) * D) + (n7 * ((n1 * D) + (n5 * n2)))))), D4)
  BY <1>10, <1>21, OverMinus
<1>23. IsOver(RSub(RMul(d, RMul(v, RSub(d, RMul(t, b)))), RMul(c, RAdd(RNeg(RAdd(c, RMul(u, d))),
         RMul(t, RAdd(a, RMul(u, b)))))), (((n4 * (n6 * ((n4 * D) - (n7 * n2)))) - (n3 *
         (((-((n3 * D) + (n5 * n4))) * D) + (n7 * ((n1 * D) + (n5 * n2)))))) * D), D5)
  BY <1>22, <1>4, <1>5, OverPad
<1>24. IsOver(RMul(c, c), (n3 * n3), D2)
  BY <1>c, <1>5, OverMul
<1>25. IsOver(RMul(c, c), ((n3 * n3) * D), D3)
  BY <1>24, <1>4, <1>5, OverPad
<1>26. IsOver(RMul(u, c), (n5 * n3), D2)
  BY <1>e, <1>c, <1>5, OverMul
<1>27. IsOver(RMul(RMul(u, c), d), ((n5 * n3) * n4), D3)
  BY <1>26, <1>d, <1>5, OverMul
<1>28. IsOver(RAdd(RMul(c, c), RMul(RMul(u, c), d)), (((n3 * n3) * D) + ((n5 * n3) * n4)), D3)
  BY <1>25, <1>27, OverPlus
<1>29. IsOver(RMul(v, d), (n6 * n4), D2)
  BY <1>f, <1>d, <1>5, OverMul
<1>30. IsOver(RMul(RMul(v, d), d), ((n6 * n4) * n4), D3)
  BY <1>29, <1>d, <1>5, OverMul
<1>31. IsOver(RAdd(RAdd(RMul(c, c), RMul(RMul(u, c), d)), RMul(RMul(v, d), d)), ((((n3 * n3) * D) +
         ((n5 * n3) * n4)) + ((n6 * n4) * n4)), D3)
  BY <1>28, <1>30, OverPlus
<1>32. IsOver(RAdd(RAdd(RMul(c, c), RMul(RMul(u, c), d)), RMul(RMul(v, d), d)), (((((n3 * n3) *
         D) + ((n5 * n3) * n4)) + ((n6 * n4) * n4)) * D2), D5)
  BY <1>31, <1>4, <1>5, OverPad
<1>33. IsOver(RMul(b, c), (n2 * n3), D2)
  BY <1>b, <1>c, <1>5, OverMul
<1>34. IsOver(RMul(a, d), (n1 * n4), D2)
  BY <1>a, <1>d, <1>5, OverMul
<1>35. IsOver(RSub(RMul(b, c), RMul(a, d)), ((n2 * n3) - (n1 * n4)), D2)
  BY <1>33, <1>34, OverMinus
<1>36. IsOver(RNeg(w), (-n8), D)
  BY <1>h, OverNeg
<1>37. IsOver(RMul(v, RNeg(w)), (n6 * (-n8)), D2)
  BY <1>f, <1>36, <1>5, OverMul
<1>38. IsOver(RMul(RMul(v, RNeg(w)), RSub(RMul(b, c), RMul(a, d))), ((n6 * (-n8)) * ((n2 * n3) -
         (n1 * n4))), D4)
  BY <1>37, <1>35, <1>5, OverMul
<1>39. IsOver(RMul(RMul(v, RNeg(w)), RSub(RMul(b, c), RMul(a, d))), (((n6 * (-n8)) * ((n2 * n3) -
         (n1 * n4))) * D), D5)
  BY <1>38, <1>4, <1>5, OverPad
<1>40. IsOver(RMul(u, a), (n5 * n1), D2)
  BY <1>e, <1>a, <1>5, OverMul
<1>41. IsOver(RMul(RMul(u, a), d), ((n5 * n1) * n4), D3)
  BY <1>40, <1>d, <1>5, OverMul
<1>42. IsOver(RMul(v, b), (n6 * n2), D2)
  BY <1>f, <1>b, <1>5, OverMul
<1>43. IsOver(RMul(RMul(v, b), d), ((n6 * n2) * n4), D3)
  BY <1>42, <1>d, <1>5, OverMul
<1>44. IsOver(RAdd(RMul(RMul(u, a), d), RMul(RMul(v, b), d)), (((n5 * n1) * n4) + ((n6 * n2) * n4)),
         D3)
  BY <1>41, <1>43, OverPlus
<1>45. IsOver(RMul(a, c), (n1 * n3), D2)
  BY <1>a, <1>c, <1>5, OverMul
<1>46. IsOver(RMul(a, c), ((n1 * n3) * D), D3)
  BY <1>45, <1>4, <1>5, OverPad
<1>47. IsOver(RAdd(RAdd(RMul(RMul(u, a), d), RMul(RMul(v, b), d)), RMul(a, c)), ((((n5 * n1) *
         n4) + ((n6 * n2) * n4)) + ((n1 * n3) * D)), D3)
  BY <1>44, <1>46, OverPlus
<1>48. IsOver(RNeg(t), (-n7), D)
  BY <1>g, OverNeg
<1>49. IsOver(RMul(RNeg(t), RAdd(RAdd(RMul(RMul(u, a), d), RMul(RMul(v, b), d)), RMul(a, c))),
         ((-n7) * ((((n5 * n1) * n4) + ((n6 * n2) * n4)) + ((n1 * n3) * D))), D4)
  BY <1>48, <1>47, <1>5, OverMul
<1>50. IsOver(RMul(RNeg(t), RAdd(RAdd(RMul(RMul(u, a), d), RMul(RMul(v, b), d)), RMul(a, c))),
         (((-n7) * ((((n5 * n1) * n4) + ((n6 * n2) * n4)) + ((n1 * n3) * D))) * D), D5)
  BY <1>49, <1>4, <1>5, OverPad
<1>51. IsOver(RMul(a, a), (n1 * n1), D2)
  BY <1>a, <1>5, OverMul
<1>52. IsOver(RMul(a, a), ((n1 * n1) * D), D3)
  BY <1>51, <1>4, <1>5, OverPad
<1>53. IsOver(RMul(RMul(u, a), b), ((n5 * n1) * n2), D3)
  BY <1>40, <1>b, <1>5, OverMul
<1>54. IsOver(RAdd(RMul(a, a), RMul(RMul(u, a), b)), (((n1 * n1) * D) + ((n5 * n1) * n2)), D3)
  BY <1>52, <1>53, OverPlus
<1>55. IsOver(RMul(RMul(v, b), b), ((n6 * n2) * n2), D3)
  BY <1>42, <1>b, <1>5, OverMul
<1>56. IsOver(RAdd(RAdd(RMul(a, a), RMul(RMul(u, a), b)), RMul(RMul(v, b), b)), ((((n1 * n1) * D) +
         ((n5 * n1) * n2)) + ((n6 * n2) * n2)), D3)
  BY <1>54, <1>55, OverPlus
<1>57. IsOver(RMul(RNeg(t), RNeg(t)), ((-n7) * (-n7)), D2)
  BY <1>48, <1>5, OverMul
<1>58. IsOver(RMul(RMul(RNeg(t), RNeg(t)), RAdd(RAdd(RMul(a, a), RMul(RMul(u, a), b)), RMul(RMul(v,
         b), b))), (((-n7) * (-n7)) * ((((n1 * n1) * D) + ((n5 * n1) * n2)) + ((n6 * n2) * n2))),
         D5)
  BY <1>57, <1>56, <1>5, OverMul
<1>59. IsOver(RAdd(RMul(RNeg(t), RAdd(RAdd(RMul(RMul(u, a), d), RMul(RMul(v, b), d)), RMul(a, c))),
         RMul(RMul(RNeg(t), RNeg(t)), RAdd(RAdd(RMul(a, a), RMul(RMul(u, a), b)), RMul(RMul(v,
         b), b)))), ((((-n7) * ((((n5 * n1) * n4) + ((n6 * n2) * n4)) + ((n1 * n3) * D))) * D) +
         (((-n7) * (-n7)) * ((((n1 * n1) * D) + ((n5 * n1) * n2)) + ((n6 * n2) * n2)))), D5)
  BY <1>50, <1>58, OverPlus
<1>60. IsOver(RSub(RMul(RMul(v, RNeg(w)), RSub(RMul(b, c), RMul(a, d))), RAdd(RMul(RNeg(t),
         RAdd(RAdd(RMul(RMul(u, a), d), RMul(RMul(v, b), d)), RMul(a, c))), RMul(RMul(RNeg(t),
         RNeg(t)), RAdd(RAdd(RMul(a, a), RMul(RMul(u, a), b)), RMul(RMul(v, b), b))))), ((((n6 *
         (-n8)) * ((n2 * n3) - (n1 * n4))) * D) - ((((-n7) * ((((n5 * n1) * n4) + ((n6 * n2) *
         n4)) + ((n1 * n3) * D))) * D) + (((-n7) * (-n7)) * ((((n1 * n1) * D) + ((n5 * n1) *
         n2)) + ((n6 * n2) * n2))))), D5)
  BY <1>39, <1>59, OverMinus
<1>61. IsOver(RSub(RAdd(RAdd(RMul(c, c), RMul(RMul(u, c), d)), RMul(RMul(v, d), d)),
         RSub(RMul(RMul(v, RNeg(w)), RSub(RMul(b, c), RMul(a, d))), RAdd(RMul(RNeg(t),
         RAdd(RAdd(RMul(RMul(u, a), d), RMul(RMul(v, b), d)), RMul(a, c))), RMul(RMul(RNeg(t),
         RNeg(t)), RAdd(RAdd(RMul(a, a), RMul(RMul(u, a), b)), RMul(RMul(v, b), b)))))),
         ((((((n3 * n3) * D) + ((n5 * n3) * n4)) + ((n6 * n4) * n4)) * D2) - ((((n6 * (-n8)) *
         ((n2 * n3) - (n1 * n4))) * D) - ((((-n7) * ((((n5 * n1) * n4) + ((n6 * n2) * n4)) +
         ((n1 * n3) * D))) * D) + (((-n7) * (-n7)) * ((((n1 * n1) * D) + ((n5 * n1) * n2)) +
         ((n6 * n2) * n2)))))), D5)
  BY <1>32, <1>60, OverMinus
<1>62. IsOver(RMul(RMul(u, b), c), ((n5 * n2) * n3), D3)
  BY <1>17, <1>c, <1>5, OverMul
<1>63. IsOver(RAdd(RMul(a, c), RMul(RMul(u, b), c)), (((n1 * n3) * D) + ((n5 * n2) * n3)), D3)
  BY <1>46, <1>62, OverPlus
<1>64. IsOver(RAdd(RAdd(RMul(a, c), RMul(RMul(u, b), c)), RMul(RMul(v, b), d)), ((((n1 * n3) * D) +
         ((n5 * n2) * n3)) + ((n6 * n2) * n4)), D3)
  BY <1>63, <1>43, OverPlus
<1>65. IsOver(RMul(RNeg(t), RAdd(RAdd(RMul(a, c), RMul(RMul(u, b), c)), RMul(RMul(v, b), d))),
         ((-n7) * ((((n1 * n3) * D) + ((n5 * n2) * n3)) + ((n6 * n2) * n4))), D4)
  BY <1>48, <1>64, <1>5, OverMul
<1>66. IsOver(RMul(RNeg(t), RAdd(RAdd(RMul(a, c), RMul(RMul(u, b), c)), RMul(RMul(v, b), d))),
         (((-n7) * ((((n1 * n3) * D) + ((n5 * n2) * n3)) + ((n6 * n2) * n4))) * D), D5)
  BY <1>65, <1>4, <1>5, OverPad
<1>67. IsOver(RAdd(RSub(RAdd(RAdd(RMul(c, c), RMul(RMul(u, c), d)), RMul(RMul(v, d), d)),
         RSub(RMul(RMul(v, RNeg(w)), RSub(RMul(b, c), RMul(a, d))), RAdd(RMul(RNeg(t),
         RAdd(RAdd(RMul(RMul(u, a), d), RMul(RMul(v, b), d)), RMul(a, c))), RMul(RMul(RNeg(t),
         RNeg(t)), RAdd(RAdd(RMul(a, a), RMul(RMul(u, a), b)), RMul(RMul(v, b), b)))))),
         RMul(RNeg(t), RAdd(RAdd(RMul(a, c), RMul(RMul(u, b), c)), RMul(RMul(v, b), d)))),
         (((((((n3 * n3) * D) + ((n5 * n3) * n4)) + ((n6 * n4) * n4)) * D2) - ((((n6 * (-n8)) *
         ((n2 * n3) - (n1 * n4))) * D) - ((((-n7) * ((((n5 * n1) * n4) + ((n6 * n2) * n4)) +
         ((n1 * n3) * D))) * D) + (((-n7) * (-n7)) * ((((n1 * n1) * D) + ((n5 * n1) * n2)) +
         ((n6 * n2) * n2)))))) + (((-n7) * ((((n1 * n3) * D) + ((n5 * n2) * n3)) + ((n6 * n2) *
         n4))) * D)), D5)
  BY <1>61, <1>66, OverPlus
<1>68. IsOver(RAdd(RAdd(RSub(RAdd(RAdd(RMul(c, c), RMul(RMul(u, c), d)), RMul(RMul(v, d), d)),
         RSub(RMul(RMul(v, RNeg(w)), RSub(RMul(b, c), RMul(a, d))), RAdd(RMul(RNeg(t),
         RAdd(RAdd(RMul(RMul(u, a), d), RMul(RMul(v, b), d)), RMul(a, c))), RMul(RMul(RNeg(t),
         RNeg(t)), RAdd(RAdd(RMul(a, a), RMul(RMul(u, a), b)), RMul(RMul(v, b), b)))))),
         RMul(RNeg(t), RAdd(RAdd(RMul(a, c), RMul(RMul(u, b), c)), RMul(RMul(v, b), d)))),
         RSub(RMul(RMul(v, RNeg(w)), RSub(RMul(b, c), RMul(a, d))), RAdd(RMul(RNeg(t),
         RAdd(RAdd(RMul(RMul(u, a), d), RMul(RMul(v, b), d)), RMul(a, c))), RMul(RMul(RNeg(t),
         RNeg(t)), RAdd(RAdd(RMul(a, a), RMul(RMul(u, a), b)), RMul(RMul(v, b), b)))))),
         ((((((((n3 * n3) * D) + ((n5 * n3) * n4)) + ((n6 * n4) * n4)) * D2) - ((((n6 * (-n8)) *
         ((n2 * n3) - (n1 * n4))) * D) - ((((-n7) * ((((n5 * n1) * n4) + ((n6 * n2) * n4)) +
         ((n1 * n3) * D))) * D) + (((-n7) * (-n7)) * ((((n1 * n1) * D) + ((n5 * n1) * n2)) +
         ((n6 * n2) * n2)))))) + (((-n7) * ((((n1 * n3) * D) + ((n5 * n2) * n3)) + ((n6 * n2) *
         n4))) * D)) + ((((n6 * (-n8)) * ((n2 * n3) - (n1 * n4))) * D) - ((((-n7) * ((((n5 *
         n1) * n4) + ((n6 * n2) * n4)) + ((n1 * n3) * D))) * D) + (((-n7) * (-n7)) * ((((n1 *
         n1) * D) + ((n5 * n1) * n2)) + ((n6 * n2) * n2)))))), D5)
  BY <1>67, <1>60, OverPlus
<1>69. (((n4 * (n6 * ((n4 * D) - (n7 * n2)))) - (n3 * (((-((n3 * D) + (n5 * n4))) * D) + (n7 *
         ((n1 * D) + (n5 * n2)))))) * D) = ((((((((n3 * n3) * D) + ((n5 * n3) * n4)) + ((n6 *
         n4) * n4)) * D2) - ((((n6 * (-n8)) * ((n2 * n3) - (n1 * n4))) * D) - ((((-n7) *
         ((((n5 * n1) * n4) + ((n6 * n2) * n4)) + ((n1 * n3) * D))) * D) + (((-n7) * (-n7)) *
         ((((n1 * n1) * D) + ((n5 * n1) * n2)) + ((n6 * n2) * n2)))))) + (((-n7) * ((((n1 *
         n3) * D) + ((n5 * n2) * n3)) + ((n6 * n2) * n4))) * D)) + ((((n6 * (-n8)) * ((n2 *
         n3) - (n1 * n4))) * D) - ((((-n7) * ((((n5 * n1) * n4) + ((n6 * n2) * n4)) + ((n1 *
         n3) * D))) * D) + (((-n7) * (-n7)) * ((((n1 * n1) * D) + ((n5 * n1) * n2)) + ((n6 *
         n2) * n2))))))
  BY <1>3 DEF D2, D3, D4, D5
<1>70. RSub(RMul(d, RMul(v, RSub(d, RMul(t, b)))), RMul(c, RAdd(RNeg(RAdd(c, RMul(u, d))),
         RMul(t, RAdd(a, RMul(u, b)))))) = RAdd(RAdd(RSub(RAdd(RAdd(RMul(c, c), RMul(RMul(u, c),
         d)), RMul(RMul(v, d), d)), RSub(RMul(RMul(v, RNeg(w)), RSub(RMul(b, c), RMul(a, d))),
         RAdd(RMul(RNeg(t), RAdd(RAdd(RMul(RMul(u, a), d), RMul(RMul(v, b), d)), RMul(a, c))),
         RMul(RMul(RNeg(t), RNeg(t)), RAdd(RAdd(RMul(a, a), RMul(RMul(u, a), b)), RMul(RMul(v,
         b), b)))))), RMul(RNeg(t), RAdd(RAdd(RMul(a, c), RMul(RMul(u, b), c)), RMul(RMul(v, b),
         d)))), RSub(RMul(RMul(v, RNeg(w)), RSub(RMul(b, c), RMul(a, d))), RAdd(RMul(RNeg(t),
         RAdd(RAdd(RMul(RMul(u, a), d), RMul(RMul(v, b), d)), RMul(a, c))), RMul(RMul(RNeg(t),
         RNeg(t)), RAdd(RAdd(RMul(a, a), RMul(RMul(u, a), b)), RMul(RMul(v, b), b))))))
  BY <1>23, <1>68, <1>69, OverEqual
<1>71. QED
  BY <1>70 DEF (+), (-), (.), FirstCrossLaw, Carry, TempOf, Norm, FourthOf, Determinant, Pairing,
           Conjugated

OuterCrossLaw(a, b, c, d, u, v, t, w) ==
    RNeg(v (.) (d (.) (Carry(a, b, c, d, u, t) (-) w (.) (v (.) b))) (-) c (.) CarryTwice(a, b,
             c, d, u, v, t, w)) = u (.) TempOf(a, b, c, d, u, v, t, w) (-) ChangeOf(a, b, c, d,
             u, v, t, w)

\* The cross product of the first and third remainders.
LEMMA OuterCross ==
  ASSUME NEW a \in Rat, NEW b \in Rat, NEW c \in Rat, NEW d \in Rat, NEW u \in Rat,
         NEW v \in Rat, NEW t \in Rat, NEW w \in Rat
  PROVE  OuterCrossLaw(a, b, c, d, u, v, t, w)
<1> DEFINE F == [i \in 1 .. 8 |-> IF i = 1 THEN a ELSE IF i = 2 THEN b ELSE IF i =
         3 THEN c ELSE IF i = 4 THEN d ELSE IF i = 5 THEN u ELSE IF i = 6 THEN v ELSE IF i =
         7 THEN t ELSE w]
<1>1. F \in [1 .. 8 -> Rat] /\ F[1] = a /\ F[2] = b /\ F[3] = c /\ F[4] = d /\ F[5] = u /\
         F[6] = v /\ F[7] = t /\ F[8] = w
  OBVIOUS
<1> HIDE DEF F
<1>2. PICK D \in Int \ {0}, G \in [1 .. 8 -> Int] : \A i \in 1 .. 8 : Is(F[i], G[i], D)
  BY <1>1, CommonDenominator DEF AllOver
<1> DEFINE n1 == G[1]
           n2 == G[2]
           n3 == G[3]
           n4 == G[4]
           n5 == G[5]
           n6 == G[6]
           n7 == G[7]
           n8 == G[8]
           D2 == D * D
           D3 == D2 * D
           D4 == D3 * D
           D5 == D4 * D
           D6 == D5 * D
<1>3. n1 \in Int /\ n2 \in Int /\ n3 \in Int /\ n4 \in Int /\ n5 \in Int /\ n6 \in Int
      /\ n7 \in Int /\ n8 \in Int
  BY <1>2
<1>a. IsOver(a, n1, D)
  BY <1>1, <1>2 DEF IsOver
<1>b. IsOver(b, n2, D)
  BY <1>1, <1>2 DEF IsOver
<1>c. IsOver(c, n3, D)
  BY <1>1, <1>2 DEF IsOver
<1>d. IsOver(d, n4, D)
  BY <1>1, <1>2 DEF IsOver
<1>e. IsOver(u, n5, D)
  BY <1>1, <1>2 DEF IsOver
<1>f. IsOver(v, n6, D)
  BY <1>1, <1>2 DEF IsOver
<1>g. IsOver(t, n7, D)
  BY <1>1, <1>2 DEF IsOver
<1>h. IsOver(w, n8, D)
  BY <1>1, <1>2 DEF IsOver
<1>4. D2 \in Int \ {0} /\ D3 \in Int \ {0} /\ D4 \in Int \ {0} /\ D5 \in Int \ {0}
      /\ D6 \in Int \ {0}
  BY NonZero
<1>5. D2 = D * D /\ D3 = D * D2 /\ D4 = D * D3 /\ D5 = D * D4 /\ D6 = D * D5 /\ D3 = D2 * D
      /\ D4 = D2 * D2 /\ D5 = D2 * D3 /\ D6 = D2 * D4 /\ D4 = D3 * D /\ D5 = D3 * D2
      /\ D6 = D3 * D3 /\ D5 = D4 * D /\ D6 = D4 * D2 /\ D6 = D5 * D
  OBVIOUS
<1> HIDE DEF n1, n2, n3, n4, n5, n6, n7, n8, D2, D3, D4, D5, D6
<1>6. IsOver(c, (n3 * D), D2)
  BY <1>c, <1>4, <1>5, OverPad
<1>7. IsOver(RMul(u, d), (n5 * n4), D2)
  BY <1>e, <1>d, <1>5, OverMul
<1>8. IsOver(RAdd(c, RMul(u, d)), ((n3 * D) + (n5 * n4)), D2)
  BY <1>6, <1>7, OverPlus
<1>9. IsOver(RNeg(RAdd(c, RMul(u, d))), (-((n3 * D) + (n5 * n4))), D2)
  BY <1>8, OverNeg
<1>10. IsOver(RNeg(RAdd(c, RMul(u, d))), ((-((n3 * D) + (n5 * n4))) * D), D3)
  BY <1>9, <1>4, <1>5, OverPad
<1>11. IsOver(a, (n1 * D), D2)
  BY <1>a, <1>4, <1>5, OverPad
<1>12. IsOver(RMul(u, b), (n5 * n2), D2)
  BY <1>e, <1>b, <1>5, OverMul
<1>13. IsOver(RAdd(a, RMul(u, b)), ((n1 * D) + (n5 * n2)), D2)
  BY <1>11, <1>12, OverPlus
<1>14. IsOver(RMul(t, RAdd(a, RMul(u, b))), (n7 * ((n1 * D) + (n5 * n2))), D3)
  BY <1>g, <1>13, <1>5, OverMul
<1>15. IsOver(RAdd(RNeg(RAdd(c, RMul(u, d))), RMul(t, RAdd(a, RMul(u, b)))), (((-((n3 * D) + (n5 *
         n4))) * D) + (n7 * ((n1 * D) + (n5 * n2)))), D3)
  BY <1>10, <1>14, OverPlus
<1>16. IsOver(RMul(v, b), (n6 * n2), D2)
  BY <1>f, <1>b, <1>5, OverMul
<1>17. IsOver(RMul(w, RMul(v, b)), (n8 * (n6 * n2)), D3)
  BY <1>h, <1>16, <1>5, OverMul
<1>18. IsOver(RSub(RAdd(RNeg(RAdd(c, RMul(u, d))), RMul(t, RAdd(a, RMul(u, b)))), RMul(w, RMul(v,
         b))), ((((-((n3 * D) + (n5 * n4))) * D) + (n7 * ((n1 * D) + (n5 * n2)))) - (n8 * (n6 *
         n2))), D3)
  BY <1>15, <1>17, OverMinus
<1>19. IsOver(RMul(d, RSub(RAdd(RNeg(RAdd(c, RMul(u, d))), RMul(t, RAdd(a, RMul(u, b)))), RMul(w,
         RMul(v, b)))), (n4 * ((((-((n3 * D) + (n5 * n4))) * D) + (n7 * ((n1 * D) + (n5 *
         n2)))) - (n8 * (n6 * n2)))), D4)
  BY <1>d, <1>18, <1>5, OverMul
<1>20. IsOver(RMul(v, RMul(d, RSub(RAdd(RNeg(RAdd(c, RMul(u, d))), RMul(t, RAdd(a, RMul(u, b)))),
         RMul(w, RMul(v, b))))), (n6 * (n4 * ((((-((n3 * D) + (n5 * n4))) * D) + (n7 * ((n1 *
         D) + (n5 * n2)))) - (n8 * (n6 * n2))))), D5)
  BY <1>f, <1>19, <1>5, OverMul
<1>21. IsOver(d, (n4 * D), D2)
  BY <1>d, <1>4, <1>5, OverPad
<1>22. IsOver(RMul(t, b), (n7 * n2), D2)
  BY <1>g, <1>b, <1>5, OverMul
<1>23. IsOver(RSub(d, RMul(t, b)), ((n4 * D) - (n7 * n2)), D2)
  BY <1>21, <1>22, OverMinus
<1>24. IsOver(RMul(v, RSub(d, RMul(t, b))), (n6 * ((n4 * D) - (n7 * n2))), D3)
  BY <1>f, <1>23, <1>5, OverMul
<1>25. IsOver(RMul(v, RSub(d, RMul(t, b))), ((n6 * ((n4 * D) - (n7 * n2))) * D), D4)
  BY <1>24, <1>4, <1>5, OverPad
<1>26. IsOver(RMul(u, RAdd(RNeg(RAdd(c, RMul(u, d))), RMul(t, RAdd(a, RMul(u, b))))), (n5 *
         (((-((n3 * D) + (n5 * n4))) * D) + (n7 * ((n1 * D) + (n5 * n2))))), D4)
  BY <1>e, <1>15, <1>5, OverMul
<1>27. IsOver(RAdd(RMul(v, RSub(d, RMul(t, b))), RMul(u, RAdd(RNeg(RAdd(c, RMul(u, d))), RMul(t,
         RAdd(a, RMul(u, b)))))), (((n6 * ((n4 * D) - (n7 * n2))) * D) + (n5 * (((-((n3 * D) +
         (n5 * n4))) * D) + (n7 * ((n1 * D) + (n5 * n2)))))), D4)
  BY <1>25, <1>26, OverPlus
<1>28. IsOver(RNeg(RAdd(RMul(v, RSub(d, RMul(t, b))), RMul(u, RAdd(RNeg(RAdd(c, RMul(u, d))),
         RMul(t, RAdd(a, RMul(u, b))))))), (-(((n6 * ((n4 * D) - (n7 * n2))) * D) + (n5 *
         (((-((n3 * D) + (n5 * n4))) * D) + (n7 * ((n1 * D) + (n5 * n2))))))), D4)
  BY <1>27, OverNeg
<1>29. IsOver(RMul(w, RAdd(a, RMul(u, b))), (n8 * ((n1 * D) + (n5 * n2))), D3)
  BY <1>h, <1>13, <1>5, OverMul
<1>30. IsOver(RMul(v, RMul(w, RAdd(a, RMul(u, b)))), (n6 * (n8 * ((n1 * D) + (n5 * n2)))), D4)
  BY <1>f, <1>29, <1>5, OverMul
<1>31. IsOver(RAdd(RNeg(RAdd(RMul(v, RSub(d, RMul(t, b))), RMul(u, RAdd(RNeg(RAdd(c, RMul(u, d))),
         RMul(t, RAdd(a, RMul(u, b))))))), RMul(v, RMul(w, RAdd(a, RMul(u, b))))), ((-(((n6 *
         ((n4 * D) - (n7 * n2))) * D) + (n5 * (((-((n3 * D) + (n5 * n4))) * D) + (n7 * ((n1 *
         D) + (n5 * n2))))))) + (n6 * (n8 * ((n1 * D) + (n5 * n2))))), D4)
  BY <1>28, <1>30, OverPlus
<1>32. IsOver(RMul(c, RAdd(RNeg(RAdd(RMul(v, RSub(d, RMul(t, b))), RMul(u, RAdd(RNeg(RAdd(c, RMul(u,
         d))), RMul(t, RAdd(a, RMul(u, b))))))), RMul(v, RMul(w, RAdd(a, RMul(u, b)))))), (n3 *
         ((-(((n6 * ((n4 * D) - (n7 * n2))) * D) + (n5 * (((-((n3 * D) + (n5 * n4))) * D) +
         (n7 * ((n1 * D) + (n5 * n2))))))) + (n6 * (n8 * ((n1 * D) + (n5 * n2)))))), D5)
  BY <1>c, <1>31, <1>5, OverMul
<1>33. IsOver(RSub(RMul(v, RMul(d, RSub(RAdd(RNeg(RAdd(c, RMul(u, d))), RMul(t, RAdd(a, RMul(u,
         b)))), RMul(w, RMul(v, b))))), RMul(c, RAdd(RNeg(RAdd(RMul(v, RSub(d, RMul(t, b))),
         RMul(u, RAdd(RNeg(RAdd(c, RMul(u, d))), RMul(t, RAdd(a, RMul(u, b))))))), RMul(v,
         RMul(w, RAdd(a, RMul(u, b))))))), ((n6 * (n4 * ((((-((n3 * D) + (n5 * n4))) * D) +
         (n7 * ((n1 * D) + (n5 * n2)))) - (n8 * (n6 * n2))))) - (n3 * ((-(((n6 * ((n4 * D) -
         (n7 * n2))) * D) + (n5 * (((-((n3 * D) + (n5 * n4))) * D) + (n7 * ((n1 * D) + (n5 *
         n2))))))) + (n6 * (n8 * ((n1 * D) + (n5 * n2))))))), D5)
  BY <1>20, <1>32, OverMinus
<1>34. IsOver(RNeg(RSub(RMul(v, RMul(d, RSub(RAdd(RNeg(RAdd(c, RMul(u, d))), RMul(t, RAdd(a, RMul(u,
         b)))), RMul(w, RMul(v, b))))), RMul(c, RAdd(RNeg(RAdd(RMul(v, RSub(d, RMul(t, b))),
         RMul(u, RAdd(RNeg(RAdd(c, RMul(u, d))), RMul(t, RAdd(a, RMul(u, b))))))), RMul(v,
         RMul(w, RAdd(a, RMul(u, b)))))))), (-((n6 * (n4 * ((((-((n3 * D) + (n5 * n4))) * D) +
         (n7 * ((n1 * D) + (n5 * n2)))) - (n8 * (n6 * n2))))) - (n3 * ((-(((n6 * ((n4 * D) -
         (n7 * n2))) * D) + (n5 * (((-((n3 * D) + (n5 * n4))) * D) + (n7 * ((n1 * D) + (n5 *
         n2))))))) + (n6 * (n8 * ((n1 * D) + (n5 * n2)))))))), D5)
  BY <1>33, OverNeg
<1>35. IsOver(RNeg(RSub(RMul(v, RMul(d, RSub(RAdd(RNeg(RAdd(c, RMul(u, d))), RMul(t, RAdd(a, RMul(u,
         b)))), RMul(w, RMul(v, b))))), RMul(c, RAdd(RNeg(RAdd(RMul(v, RSub(d, RMul(t, b))),
         RMul(u, RAdd(RNeg(RAdd(c, RMul(u, d))), RMul(t, RAdd(a, RMul(u, b))))))), RMul(v,
         RMul(w, RAdd(a, RMul(u, b)))))))), ((-((n6 * (n4 * ((((-((n3 * D) + (n5 * n4))) * D) +
         (n7 * ((n1 * D) + (n5 * n2)))) - (n8 * (n6 * n2))))) - (n3 * ((-(((n6 * ((n4 * D) -
         (n7 * n2))) * D) + (n5 * (((-((n3 * D) + (n5 * n4))) * D) + (n7 * ((n1 * D) + (n5 *
         n2))))))) + (n6 * (n8 * ((n1 * D) + (n5 * n2)))))))) * D), D6)
  BY <1>34, <1>4, <1>5, OverPad
<1>36. IsOver(RMul(c, c), (n3 * n3), D2)
  BY <1>c, <1>5, OverMul
<1>37. IsOver(RMul(c, c), ((n3 * n3) * D), D3)
  BY <1>36, <1>4, <1>5, OverPad
<1>38. IsOver(RMul(u, c), (n5 * n3), D2)
  BY <1>e, <1>c, <1>5, OverMul
<1>39. IsOver(RMul(RMul(u, c), d), ((n5 * n3) * n4), D3)
  BY <1>38, <1>d, <1>5, OverMul
<1>40. IsOver(RAdd(RMul(c, c), RMul(RMul(u, c), d)), (((n3 * n3) * D) + ((n5 * n3) * n4)), D3)
  BY <1>37, <1>39, OverPlus
<1>41. IsOver(RMul(v, d), (n6 * n4), D2)
  BY <1>f, <1>d, <1>5, OverMul
<1>42. IsOver(RMul(RMul(v, d), d), ((n6 * n4) * n4), D3)
  BY <1>41, <1>d, <1>5, OverMul
<1>43. IsOver(RAdd(RAdd(RMul(c, c), RMul(RMul(u, c), d)), RMul(RMul(v, d), d)), ((((n3 * n3) * D) +
         ((n5 * n3) * n4)) + ((n6 * n4) * n4)), D3)
  BY <1>40, <1>42, OverPlus
<1>44. IsOver(RAdd(RAdd(RMul(c, c), RMul(RMul(u, c), d)), RMul(RMul(v, d), d)), (((((n3 * n3) *
         D) + ((n5 * n3) * n4)) + ((n6 * n4) * n4)) * D2), D5)
  BY <1>43, <1>4, <1>5, OverPad
<1>45. IsOver(RMul(b, c), (n2 * n3), D2)
  BY <1>b, <1>c, <1>5, OverMul
<1>46. IsOver(RMul(a, d), (n1 * n4), D2)
  BY <1>a, <1>d, <1>5, OverMul
<1>47. IsOver(RSub(RMul(b, c), RMul(a, d)), ((n2 * n3) - (n1 * n4)), D2)
  BY <1>45, <1>46, OverMinus
<1>48. IsOver(RNeg(w), (-n8), D)
  BY <1>h, OverNeg
<1>49. IsOver(RMul(v, RNeg(w)), (n6 * (-n8)), D2)
  BY <1>f, <1>48, <1>5, OverMul
<1>50. IsOver(RMul(RMul(v, RNeg(w)), RSub(RMul(b, c), RMul(a, d))), ((n6 * (-n8)) * ((n2 * n3) -
         (n1 * n4))), D4)
  BY <1>49, <1>47, <1>5, OverMul
<1>51. IsOver(RMul(RMul(v, RNeg(w)), RSub(RMul(b, c), RMul(a, d))), (((n6 * (-n8)) * ((n2 * n3) -
         (n1 * n4))) * D), D5)
  BY <1>50, <1>4, <1>5, OverPad
<1>52. IsOver(RMul(u, a), (n5 * n1), D2)
  BY <1>e, <1>a, <1>5, OverMul
<1>53. IsOver(RMul(RMul(u, a), d), ((n5 * n1) * n4), D3)
  BY <1>52, <1>d, <1>5, OverMul
<1>54. IsOver(RMul(RMul(v, b), d), ((n6 * n2) * n4), D3)
  BY <1>16, <1>d, <1>5, OverMul
<1>55. IsOver(RAdd(RMul(RMul(u, a), d), RMul(RMul(v, b), d)), (((n5 * n1) * n4) + ((n6 * n2) * n4)),
         D3)
  BY <1>53, <1>54, OverPlus
<1>56. IsOver(RMul(a, c), (n1 * n3), D2)
  BY <1>a, <1>c, <1>5, OverMul
<1>57. IsOver(RMul(a, c), ((n1 * n3) * D), D3)
  BY <1>56, <1>4, <1>5, OverPad
<1>58. IsOver(RAdd(RAdd(RMul(RMul(u, a), d), RMul(RMul(v, b), d)), RMul(a, c)), ((((n5 * n1) *
         n4) + ((n6 * n2) * n4)) + ((n1 * n3) * D)), D3)
  BY <1>55, <1>57, OverPlus
<1>59. IsOver(RNeg(t), (-n7), D)
  BY <1>g, OverNeg
<1>60. IsOver(RMul(RNeg(t), RAdd(RAdd(RMul(RMul(u, a), d), RMul(RMul(v, b), d)), RMul(a, c))),
         ((-n7) * ((((n5 * n1) * n4) + ((n6 * n2) * n4)) + ((n1 * n3) * D))), D4)
  BY <1>59, <1>58, <1>5, OverMul
<1>61. IsOver(RMul(RNeg(t), RAdd(RAdd(RMul(RMul(u, a), d), RMul(RMul(v, b), d)), RMul(a, c))),
         (((-n7) * ((((n5 * n1) * n4) + ((n6 * n2) * n4)) + ((n1 * n3) * D))) * D), D5)
  BY <1>60, <1>4, <1>5, OverPad
<1>62. IsOver(RMul(a, a), (n1 * n1), D2)
  BY <1>a, <1>5, OverMul
<1>63. IsOver(RMul(a, a), ((n1 * n1) * D), D3)
  BY <1>62, <1>4, <1>5, OverPad
<1>64. IsOver(RMul(RMul(u, a), b), ((n5 * n1) * n2), D3)
  BY <1>52, <1>b, <1>5, OverMul
<1>65. IsOver(RAdd(RMul(a, a), RMul(RMul(u, a), b)), (((n1 * n1) * D) + ((n5 * n1) * n2)), D3)
  BY <1>63, <1>64, OverPlus
<1>66. IsOver(RMul(RMul(v, b), b), ((n6 * n2) * n2), D3)
  BY <1>16, <1>b, <1>5, OverMul
<1>67. IsOver(RAdd(RAdd(RMul(a, a), RMul(RMul(u, a), b)), RMul(RMul(v, b), b)), ((((n1 * n1) * D) +
         ((n5 * n1) * n2)) + ((n6 * n2) * n2)), D3)
  BY <1>65, <1>66, OverPlus
<1>68. IsOver(RMul(RNeg(t), RNeg(t)), ((-n7) * (-n7)), D2)
  BY <1>59, <1>5, OverMul
<1>69. IsOver(RMul(RMul(RNeg(t), RNeg(t)), RAdd(RAdd(RMul(a, a), RMul(RMul(u, a), b)), RMul(RMul(v,
         b), b))), (((-n7) * (-n7)) * ((((n1 * n1) * D) + ((n5 * n1) * n2)) + ((n6 * n2) * n2))),
         D5)
  BY <1>68, <1>67, <1>5, OverMul
<1>70. IsOver(RAdd(RMul(RNeg(t), RAdd(RAdd(RMul(RMul(u, a), d), RMul(RMul(v, b), d)), RMul(a, c))),
         RMul(RMul(RNeg(t), RNeg(t)), RAdd(RAdd(RMul(a, a), RMul(RMul(u, a), b)), RMul(RMul(v,
         b), b)))), ((((-n7) * ((((n5 * n1) * n4) + ((n6 * n2) * n4)) + ((n1 * n3) * D))) * D) +
         (((-n7) * (-n7)) * ((((n1 * n1) * D) + ((n5 * n1) * n2)) + ((n6 * n2) * n2)))), D5)
  BY <1>61, <1>69, OverPlus
<1>71. IsOver(RSub(RMul(RMul(v, RNeg(w)), RSub(RMul(b, c), RMul(a, d))), RAdd(RMul(RNeg(t),
         RAdd(RAdd(RMul(RMul(u, a), d), RMul(RMul(v, b), d)), RMul(a, c))), RMul(RMul(RNeg(t),
         RNeg(t)), RAdd(RAdd(RMul(a, a), RMul(RMul(u, a), b)), RMul(RMul(v, b), b))))), ((((n6 *
         (-n8)) * ((n2 * n3) - (n1 * n4))) * D) - ((((-n7) * ((((n5 * n1) * n4) + ((n6 * n2) *
         n4)) + ((n1 * n3) * D))) * D) + (((-n7) * (-n7)) * ((((n1 * n1) * D) + ((n5 * n1) *
         n2)) + ((n6 * n2) * n2))))), D5)
  BY <1>51, <1>70, OverMinus
<1>72. IsOver(RSub(RAdd(RAdd(RMul(c, c), RMul(RMul(u, c), d)), RMul(RMul(v, d), d)),
         RSub(RMul(RMul(v, RNeg(w)), RSub(RMul(b, c), RMul(a, d))), RAdd(RMul(RNeg(t),
         RAdd(RAdd(RMul(RMul(u, a), d), RMul(RMul(v, b), d)), RMul(a, c))), RMul(RMul(RNeg(t),
         RNeg(t)), RAdd(RAdd(RMul(a, a), RMul(RMul(u, a), b)), RMul(RMul(v, b), b)))))),
         ((((((n3 * n3) * D) + ((n5 * n3) * n4)) + ((n6 * n4) * n4)) * D2) - ((((n6 * (-n8)) *
         ((n2 * n3) - (n1 * n4))) * D) - ((((-n7) * ((((n5 * n1) * n4) + ((n6 * n2) * n4)) +
         ((n1 * n3) * D))) * D) + (((-n7) * (-n7)) * ((((n1 * n1) * D) + ((n5 * n1) * n2)) +
         ((n6 * n2) * n2)))))), D5)
  BY <1>44, <1>71, OverMinus
<1>73. IsOver(RMul(RMul(u, b), c), ((n5 * n2) * n3), D3)
  BY <1>12, <1>c, <1>5, OverMul
<1>74. IsOver(RAdd(RMul(a, c), RMul(RMul(u, b), c)), (((n1 * n3) * D) + ((n5 * n2) * n3)), D3)
  BY <1>57, <1>73, OverPlus
<1>75. IsOver(RAdd(RAdd(RMul(a, c), RMul(RMul(u, b), c)), RMul(RMul(v, b), d)), ((((n1 * n3) * D) +
         ((n5 * n2) * n3)) + ((n6 * n2) * n4)), D3)
  BY <1>74, <1>54, OverPlus
<1>76. IsOver(RMul(RNeg(t), RAdd(RAdd(RMul(a, c), RMul(RMul(u, b), c)), RMul(RMul(v, b), d))),
         ((-n7) * ((((n1 * n3) * D) + ((n5 * n2) * n3)) + ((n6 * n2) * n4))), D4)
  BY <1>59, <1>75, <1>5, OverMul
<1>77. IsOver(RMul(RNeg(t), RAdd(RAdd(RMul(a, c), RMul(RMul(u, b), c)), RMul(RMul(v, b), d))),
         (((-n7) * ((((n1 * n3) * D) + ((n5 * n2) * n3)) + ((n6 * n2) * n4))) * D), D5)
  BY <1>76, <1>4, <1>5, OverPad
<1>78. IsOver(RAdd(RSub(RAdd(RAdd(RMul(c, c), RMul(RMul(u, c), d)), RMul(RMul(v, d), d)),
         RSub(RMul(RMul(v, RNeg(w)), RSub(RMul(b, c), RMul(a, d))), RAdd(RMul(RNeg(t),
         RAdd(RAdd(RMul(RMul(u, a), d), RMul(RMul(v, b), d)), RMul(a, c))), RMul(RMul(RNeg(t),
         RNeg(t)), RAdd(RAdd(RMul(a, a), RMul(RMul(u, a), b)), RMul(RMul(v, b), b)))))),
         RMul(RNeg(t), RAdd(RAdd(RMul(a, c), RMul(RMul(u, b), c)), RMul(RMul(v, b), d)))),
         (((((((n3 * n3) * D) + ((n5 * n3) * n4)) + ((n6 * n4) * n4)) * D2) - ((((n6 * (-n8)) *
         ((n2 * n3) - (n1 * n4))) * D) - ((((-n7) * ((((n5 * n1) * n4) + ((n6 * n2) * n4)) +
         ((n1 * n3) * D))) * D) + (((-n7) * (-n7)) * ((((n1 * n1) * D) + ((n5 * n1) * n2)) +
         ((n6 * n2) * n2)))))) + (((-n7) * ((((n1 * n3) * D) + ((n5 * n2) * n3)) + ((n6 * n2) *
         n4))) * D)), D5)
  BY <1>72, <1>77, OverPlus
<1>79. IsOver(RMul(u, RAdd(RSub(RAdd(RAdd(RMul(c, c), RMul(RMul(u, c), d)), RMul(RMul(v, d), d)),
         RSub(RMul(RMul(v, RNeg(w)), RSub(RMul(b, c), RMul(a, d))), RAdd(RMul(RNeg(t),
         RAdd(RAdd(RMul(RMul(u, a), d), RMul(RMul(v, b), d)), RMul(a, c))), RMul(RMul(RNeg(t),
         RNeg(t)), RAdd(RAdd(RMul(a, a), RMul(RMul(u, a), b)), RMul(RMul(v, b), b)))))),
         RMul(RNeg(t), RAdd(RAdd(RMul(a, c), RMul(RMul(u, b), c)), RMul(RMul(v, b), d))))),
         (n5 * (((((((n3 * n3) * D) + ((n5 * n3) * n4)) + ((n6 * n4) * n4)) * D2) - ((((n6 *
         (-n8)) * ((n2 * n3) - (n1 * n4))) * D) - ((((-n7) * ((((n5 * n1) * n4) + ((n6 * n2) *
         n4)) + ((n1 * n3) * D))) * D) + (((-n7) * (-n7)) * ((((n1 * n1) * D) + ((n5 * n1) *
         n2)) + ((n6 * n2) * n2)))))) + (((-n7) * ((((n1 * n3) * D) + ((n5 * n2) * n3)) + ((n6 *
         n2) * n4))) * D))), D6)
  BY <1>e, <1>78, <1>5, OverMul
<1>80. IsOver(RAdd(RMul(RMul(RNeg(t), RNeg(t)), RAdd(RAdd(RMul(a, a), RMul(RMul(u, a), b)),
         RMul(RMul(v, b), b))), RMul(RNeg(t), RAdd(RAdd(RMul(RMul(u, a), d), RMul(RMul(v, b),
         d)), RMul(a, c)))), ((((-n7) * (-n7)) * ((((n1 * n1) * D) + ((n5 * n1) * n2)) + ((n6 *
         n2) * n2))) + (((-n7) * ((((n5 * n1) * n4) + ((n6 * n2) * n4)) + ((n1 * n3) * D))) *
         D)), D5)
  BY <1>69, <1>61, OverPlus
<1>81. IsOver(RMul(u, RAdd(RMul(RMul(RNeg(t), RNeg(t)), RAdd(RAdd(RMul(a, a), RMul(RMul(u, a), b)),
         RMul(RMul(v, b), b))), RMul(RNeg(t), RAdd(RAdd(RMul(RMul(u, a), d), RMul(RMul(v, b),
         d)), RMul(a, c))))), (n5 * ((((-n7) * (-n7)) * ((((n1 * n1) * D) + ((n5 * n1) * n2)) +
         ((n6 * n2) * n2))) + (((-n7) * ((((n5 * n1) * n4) + ((n6 * n2) * n4)) + ((n1 * n3) *
         D))) * D))), D6)
  BY <1>e, <1>80, <1>5, OverMul
<1>82. IsOver(RMul(RNeg(t), RSub(RMul(b, c), RMul(a, d))), ((-n7) * ((n2 * n3) - (n1 * n4))), D3)
  BY <1>59, <1>47, <1>5, OverMul
<1>83. IsOver(RMul(RNeg(t), RSub(RMul(b, c), RMul(a, d))), (((-n7) * ((n2 * n3) - (n1 * n4))) * D),
         D4)
  BY <1>82, <1>4, <1>5, OverPad
<1>84. IsOver(RMul(RNeg(w), RAdd(RAdd(RMul(RMul(u, a), d), RMul(RMul(v, b), d)), RMul(a, c))),
         ((-n8) * ((((n5 * n1) * n4) + ((n6 * n2) * n4)) + ((n1 * n3) * D))), D4)
  BY <1>48, <1>58, <1>5, OverMul
<1>85. IsOver(RAdd(RMul(RNeg(t), RSub(RMul(b, c), RMul(a, d))), RMul(RNeg(w), RAdd(RAdd(RMul(RMul(u,
         a), d), RMul(RMul(v, b), d)), RMul(a, c)))), ((((-n7) * ((n2 * n3) - (n1 * n4))) * D) +
         ((-n8) * ((((n5 * n1) * n4) + ((n6 * n2) * n4)) + ((n1 * n3) * D)))), D4)
  BY <1>83, <1>84, OverPlus
<1>86. IsOver(RMul(v, RAdd(RMul(RNeg(t), RSub(RMul(b, c), RMul(a, d))), RMul(RNeg(w),
         RAdd(RAdd(RMul(RMul(u, a), d), RMul(RMul(v, b), d)), RMul(a, c))))), (n6 * ((((-n7) *
         ((n2 * n3) - (n1 * n4))) * D) + ((-n8) * ((((n5 * n1) * n4) + ((n6 * n2) * n4)) +
         ((n1 * n3) * D))))), D5)
  BY <1>f, <1>85, <1>5, OverMul
<1>87. IsOver(RMul(v, RAdd(RMul(RNeg(t), RSub(RMul(b, c), RMul(a, d))), RMul(RNeg(w),
         RAdd(RAdd(RMul(RMul(u, a), d), RMul(RMul(v, b), d)), RMul(a, c))))), ((n6 * ((((-n7) *
         ((n2 * n3) - (n1 * n4))) * D) + ((-n8) * ((((n5 * n1) * n4) + ((n6 * n2) * n4)) +
         ((n1 * n3) * D))))) * D), D6)
  BY <1>86, <1>4, <1>5, OverPad
<1>88. IsOver(RAdd(RMul(u, RAdd(RMul(RMul(RNeg(t), RNeg(t)), RAdd(RAdd(RMul(a, a), RMul(RMul(u, a),
         b)), RMul(RMul(v, b), b))), RMul(RNeg(t), RAdd(RAdd(RMul(RMul(u, a), d), RMul(RMul(v,
         b), d)), RMul(a, c))))), RMul(v, RAdd(RMul(RNeg(t), RSub(RMul(b, c), RMul(a, d))),
         RMul(RNeg(w), RAdd(RAdd(RMul(RMul(u, a), d), RMul(RMul(v, b), d)), RMul(a, c)))))),
         ((n5 * ((((-n7) * (-n7)) * ((((n1 * n1) * D) + ((n5 * n1) * n2)) + ((n6 * n2) * n2))) +
         (((-n7) * ((((n5 * n1) * n4) + ((n6 * n2) * n4)) + ((n1 * n3) * D))) * D))) + ((n6 *
         ((((-n7) * ((n2 * n3) - (n1 * n4))) * D) + ((-n8) * ((((n5 * n1) * n4) + ((n6 * n2) *
         n4)) + ((n1 * n3) * D))))) * D)), D6)
  BY <1>81, <1>87, OverPlus
<1>89. IsOver(RSub(RMul(u, RAdd(RSub(RAdd(RAdd(RMul(c, c), RMul(RMul(u, c), d)), RMul(RMul(v, d),
         d)), RSub(RMul(RMul(v, RNeg(w)), RSub(RMul(b, c), RMul(a, d))), RAdd(RMul(RNeg(t),
         RAdd(RAdd(RMul(RMul(u, a), d), RMul(RMul(v, b), d)), RMul(a, c))), RMul(RMul(RNeg(t),
         RNeg(t)), RAdd(RAdd(RMul(a, a), RMul(RMul(u, a), b)), RMul(RMul(v, b), b)))))),
         RMul(RNeg(t), RAdd(RAdd(RMul(a, c), RMul(RMul(u, b), c)), RMul(RMul(v, b), d))))),
         RAdd(RMul(u, RAdd(RMul(RMul(RNeg(t), RNeg(t)), RAdd(RAdd(RMul(a, a), RMul(RMul(u, a),
         b)), RMul(RMul(v, b), b))), RMul(RNeg(t), RAdd(RAdd(RMul(RMul(u, a), d), RMul(RMul(v,
         b), d)), RMul(a, c))))), RMul(v, RAdd(RMul(RNeg(t), RSub(RMul(b, c), RMul(a, d))),
         RMul(RNeg(w), RAdd(RAdd(RMul(RMul(u, a), d), RMul(RMul(v, b), d)), RMul(a, c))))))),
         ((n5 * (((((((n3 * n3) * D) + ((n5 * n3) * n4)) + ((n6 * n4) * n4)) * D2) - ((((n6 *
         (-n8)) * ((n2 * n3) - (n1 * n4))) * D) - ((((-n7) * ((((n5 * n1) * n4) + ((n6 * n2) *
         n4)) + ((n1 * n3) * D))) * D) + (((-n7) * (-n7)) * ((((n1 * n1) * D) + ((n5 * n1) *
         n2)) + ((n6 * n2) * n2)))))) + (((-n7) * ((((n1 * n3) * D) + ((n5 * n2) * n3)) + ((n6 *
         n2) * n4))) * D))) - ((n5 * ((((-n7) * (-n7)) * ((((n1 * n1) * D) + ((n5 * n1) * n2)) +
         ((n6 * n2) * n2))) + (((-n7) * ((((n5 * n1) * n4) + ((n6 * n2) * n4)) + ((n1 * n3) *
         D))) * D))) + ((n6 * ((((-n7) * ((n2 * n3) - (n1 * n4))) * D) + ((-n8) * ((((n5 * n1) *
         n4) + ((n6 * n2) * n4)) + ((n1 * n3) * D))))) * D))), D6)
  BY <1>79, <1>88, OverMinus
<1>90. ((-((n6 * (n4 * ((((-((n3 * D) + (n5 * n4))) * D) + (n7 * ((n1 * D) + (n5 * n2)))) -
         (n8 * (n6 * n2))))) - (n3 * ((-(((n6 * ((n4 * D) - (n7 * n2))) * D) + (n5 * (((-((n3 *
         D) + (n5 * n4))) * D) + (n7 * ((n1 * D) + (n5 * n2))))))) + (n6 * (n8 * ((n1 * D) +
         (n5 * n2)))))))) * D) = ((n5 * (((((((n3 * n3) * D) + ((n5 * n3) * n4)) + ((n6 * n4) *
         n4)) * D2) - ((((n6 * (-n8)) * ((n2 * n3) - (n1 * n4))) * D) - ((((-n7) * ((((n5 *
         n1) * n4) + ((n6 * n2) * n4)) + ((n1 * n3) * D))) * D) + (((-n7) * (-n7)) * ((((n1 *
         n1) * D) + ((n5 * n1) * n2)) + ((n6 * n2) * n2)))))) + (((-n7) * ((((n1 * n3) * D) +
         ((n5 * n2) * n3)) + ((n6 * n2) * n4))) * D))) - ((n5 * ((((-n7) * (-n7)) * ((((n1 *
         n1) * D) + ((n5 * n1) * n2)) + ((n6 * n2) * n2))) + (((-n7) * ((((n5 * n1) * n4) +
         ((n6 * n2) * n4)) + ((n1 * n3) * D))) * D))) + ((n6 * ((((-n7) * ((n2 * n3) - (n1 *
         n4))) * D) + ((-n8) * ((((n5 * n1) * n4) + ((n6 * n2) * n4)) + ((n1 * n3) * D))))) * D)))
  BY <1>3 DEF D2, D3, D4, D5, D6
<1>91. RNeg(RSub(RMul(v, RMul(d, RSub(RAdd(RNeg(RAdd(c, RMul(u, d))), RMul(t, RAdd(a, RMul(u,
         b)))), RMul(w, RMul(v, b))))), RMul(c, RAdd(RNeg(RAdd(RMul(v, RSub(d, RMul(t, b))),
         RMul(u, RAdd(RNeg(RAdd(c, RMul(u, d))), RMul(t, RAdd(a, RMul(u, b))))))), RMul(v,
         RMul(w, RAdd(a, RMul(u, b)))))))) = RSub(RMul(u, RAdd(RSub(RAdd(RAdd(RMul(c, c),
         RMul(RMul(u, c), d)), RMul(RMul(v, d), d)), RSub(RMul(RMul(v, RNeg(w)), RSub(RMul(b, c),
         RMul(a, d))), RAdd(RMul(RNeg(t), RAdd(RAdd(RMul(RMul(u, a), d), RMul(RMul(v, b), d)),
         RMul(a, c))), RMul(RMul(RNeg(t), RNeg(t)), RAdd(RAdd(RMul(a, a), RMul(RMul(u, a), b)),
         RMul(RMul(v, b), b)))))), RMul(RNeg(t), RAdd(RAdd(RMul(a, c), RMul(RMul(u, b), c)),
         RMul(RMul(v, b), d))))), RAdd(RMul(u, RAdd(RMul(RMul(RNeg(t), RNeg(t)),
         RAdd(RAdd(RMul(a, a), RMul(RMul(u, a), b)), RMul(RMul(v, b), b))), RMul(RNeg(t),
         RAdd(RAdd(RMul(RMul(u, a), d), RMul(RMul(v, b), d)), RMul(a, c))))), RMul(v,
         RAdd(RMul(RNeg(t), RSub(RMul(b, c), RMul(a, d))), RMul(RNeg(w), RAdd(RAdd(RMul(RMul(u,
         a), d), RMul(RMul(v, b), d)), RMul(a, c)))))))
  BY <1>35, <1>89, <1>90, OverEqual
<1>92. QED
  BY <1>91 DEF (+), (-), (.), OuterCrossLaw, Carry, CarryTwice, TempOf, Norm, FourthOf,
           Determinant, Pairing, Conjugated, ChangeOf

\* The ratios of newest_ak1.
RatioOfProductLaw(v, q, y, g, t) ==
    /\ v (.) (v (.) (One (+) q) (.) y) = (One (+) q) (.) (v (.) (v (.) y))
    /\ (One (+) q) (.) (g (.) t) = g (.) t (+) g (.) (q (.) t)

\* What the ratio of the change of v rests on.
LEMMA RatioOfProduct ==
  ASSUME NEW v \in Rat, NEW q \in Rat, NEW y \in Rat, NEW g \in Rat, NEW t \in Rat
  PROVE  RatioOfProductLaw(v, q, y, g, t)
<1> DEFINE F == [i \in 1 .. 5 |-> IF i = 1 THEN v ELSE IF i = 2 THEN q ELSE IF i =
         3 THEN y ELSE IF i = 4 THEN g ELSE t]
<1>1. F \in [1 .. 5 -> Rat] /\ F[1] = v /\ F[2] = q /\ F[3] = y /\ F[4] = g /\ F[5] = t
  OBVIOUS
<1> HIDE DEF F
<1>2. PICK D \in Int \ {0}, G \in [1 .. 5 -> Int] : \A i \in 1 .. 5 : Is(F[i], G[i], D)
  BY <1>1, CommonDenominator DEF AllOver
<1> DEFINE n1 == G[1]
           n2 == G[2]
           n3 == G[3]
           n4 == G[4]
           n5 == G[5]
           D2 == D * D
           D3 == D2 * D
           D4 == D3 * D
<1>3. n1 \in Int /\ n2 \in Int /\ n3 \in Int /\ n4 \in Int /\ n5 \in Int
  BY <1>2
<1>a. IsOver(v, n1, D)
  BY <1>1, <1>2 DEF IsOver
<1>b. IsOver(q, n2, D)
  BY <1>1, <1>2 DEF IsOver
<1>c. IsOver(y, n3, D)
  BY <1>1, <1>2 DEF IsOver
<1>d. IsOver(g, n4, D)
  BY <1>1, <1>2 DEF IsOver
<1>e. IsOver(t, n5, D)
  BY <1>1, <1>2 DEF IsOver
<1>4. D2 \in Int \ {0} /\ D3 \in Int \ {0} /\ D4 \in Int \ {0}
  BY NonZero
<1>5. D2 = D * D /\ D3 = D * D2 /\ D4 = D * D3 /\ D3 = D2 * D /\ D4 = D2 * D2 /\ D4 = D3 * D
  OBVIOUS
<1> HIDE DEF n1, n2, n3, n4, n5, D2, D3, D4
<1>6. IsOver(One, (D), D)
  BY <1>4, OverZeroOne
<1>7. IsOver(RAdd(One, q), ((D) + n2), D)
  BY <1>6, <1>b, OverPlus
<1>8. IsOver(RMul(v, RAdd(One, q)), (n1 * ((D) + n2)), D2)
  BY <1>a, <1>7, <1>5, OverMul
<1>9. IsOver(RMul(RMul(v, RAdd(One, q)), y), ((n1 * ((D) + n2)) * n3), D3)
  BY <1>8, <1>c, <1>5, OverMul
<1>10. IsOver(RMul(v, RMul(RMul(v, RAdd(One, q)), y)), (n1 * ((n1 * ((D) + n2)) * n3)), D4)
  BY <1>a, <1>9, <1>5, OverMul
<1>11. IsOver(RMul(v, y), (n1 * n3), D2)
  BY <1>a, <1>c, <1>5, OverMul
<1>12. IsOver(RMul(v, RMul(v, y)), (n1 * (n1 * n3)), D3)
  BY <1>a, <1>11, <1>5, OverMul
<1>13. IsOver(RMul(RAdd(One, q), RMul(v, RMul(v, y))), (((D) + n2) * (n1 * (n1 * n3))), D4)
  BY <1>7, <1>12, <1>5, OverMul
<1>14. (n1 * ((n1 * ((D) + n2)) * n3)) = (((D) + n2) * (n1 * (n1 * n3)))
  BY <1>3 DEF D2, D3, D4
<1>15. RMul(v, RMul(RMul(v, RAdd(One, q)), y)) = RMul(RAdd(One, q), RMul(v, RMul(v, y)))
  BY <1>10, <1>13, <1>14, OverEqual
<1>16. IsOver(RMul(g, t), (n4 * n5), D2)
  BY <1>d, <1>e, <1>5, OverMul
<1>17. IsOver(RMul(RAdd(One, q), RMul(g, t)), (((D) + n2) * (n4 * n5)), D3)
  BY <1>7, <1>16, <1>5, OverMul
<1>18. IsOver(RMul(g, t), ((n4 * n5) * D), D3)
  BY <1>16, <1>4, <1>5, OverPad
<1>19. IsOver(RMul(q, t), (n2 * n5), D2)
  BY <1>b, <1>e, <1>5, OverMul
<1>20. IsOver(RMul(g, RMul(q, t)), (n4 * (n2 * n5)), D3)
  BY <1>d, <1>19, <1>5, OverMul
<1>21. IsOver(RAdd(RMul(g, t), RMul(g, RMul(q, t))), (((n4 * n5) * D) + (n4 * (n2 * n5))), D3)
  BY <1>18, <1>20, OverPlus
<1>22. (((D) + n2) * (n4 * n5)) = (((n4 * n5) * D) + (n4 * (n2 * n5)))
  BY <1>3 DEF D2, D3, D4
<1>23. RMul(RAdd(One, q), RMul(g, t)) = RAdd(RMul(g, t), RMul(g, RMul(q, t)))
  BY <1>17, <1>21, <1>22, OverEqual
<1>24. QED
  BY <1>15, <1>23 DEF (+), (-), (.), RatioOfProductLaw

RatioOfChangeLaw(v, u, r, y, g, t, x) ==
    /\ v (.) (v (.) ((u (-) r) (.) y)) = (u (-) r) (.) (v (.) (v (.) y))
    /\ (u (-) r) (.) (g (.) t) = u (.) (g (.) t) (-) g (.) (r (.) t)
    /\ RNeg(v (.) (v (.) x)) = v (.) (v (.) RNeg(x))

\* What the ratio of the change of u rests on.
LEMMA RatioOfChange ==
  ASSUME NEW v \in Rat, NEW u \in Rat, NEW r \in Rat, NEW y \in Rat, NEW g \in Rat,
         NEW t \in Rat, NEW x \in Rat
  PROVE  RatioOfChangeLaw(v, u, r, y, g, t, x)
<1> DEFINE F == [i \in 1 .. 7 |-> IF i = 1 THEN v ELSE IF i = 2 THEN u ELSE IF i =
         3 THEN r ELSE IF i = 4 THEN y ELSE IF i = 5 THEN g ELSE IF i = 6 THEN t ELSE x]
<1>1. F \in [1 .. 7 -> Rat] /\ F[1] = v /\ F[2] = u /\ F[3] = r /\ F[4] = y /\ F[5] = g /\
         F[6] = t /\ F[7] = x
  OBVIOUS
<1> HIDE DEF F
<1>2. PICK D \in Int \ {0}, G \in [1 .. 7 -> Int] : \A i \in 1 .. 7 : Is(F[i], G[i], D)
  BY <1>1, CommonDenominator DEF AllOver
<1> DEFINE n1 == G[1]
           n2 == G[2]
           n3 == G[3]
           n4 == G[4]
           n5 == G[5]
           n6 == G[6]
           n7 == G[7]
           D2 == D * D
           D3 == D2 * D
           D4 == D3 * D
<1>3. n1 \in Int /\ n2 \in Int /\ n3 \in Int /\ n4 \in Int /\ n5 \in Int /\ n6 \in Int
      /\ n7 \in Int
  BY <1>2
<1>a. IsOver(v, n1, D)
  BY <1>1, <1>2 DEF IsOver
<1>b. IsOver(u, n2, D)
  BY <1>1, <1>2 DEF IsOver
<1>c. IsOver(r, n3, D)
  BY <1>1, <1>2 DEF IsOver
<1>d. IsOver(y, n4, D)
  BY <1>1, <1>2 DEF IsOver
<1>e. IsOver(g, n5, D)
  BY <1>1, <1>2 DEF IsOver
<1>f. IsOver(t, n6, D)
  BY <1>1, <1>2 DEF IsOver
<1>g. IsOver(x, n7, D)
  BY <1>1, <1>2 DEF IsOver
<1>4. D2 \in Int \ {0} /\ D3 \in Int \ {0} /\ D4 \in Int \ {0}
  BY NonZero
<1>5. D2 = D * D /\ D3 = D * D2 /\ D4 = D * D3 /\ D3 = D2 * D /\ D4 = D2 * D2 /\ D4 = D3 * D
  OBVIOUS
<1> HIDE DEF n1, n2, n3, n4, n5, n6, n7, D2, D3, D4
<1>6. IsOver(RSub(u, r), (n2 - n3), D)
  BY <1>b, <1>c, OverMinus
<1>7. IsOver(RMul(RSub(u, r), y), ((n2 - n3) * n4), D2)
  BY <1>6, <1>d, <1>5, OverMul
<1>8. IsOver(RMul(v, RMul(RSub(u, r), y)), (n1 * ((n2 - n3) * n4)), D3)
  BY <1>a, <1>7, <1>5, OverMul
<1>9. IsOver(RMul(v, RMul(v, RMul(RSub(u, r), y))), (n1 * (n1 * ((n2 - n3) * n4))), D4)
  BY <1>a, <1>8, <1>5, OverMul
<1>10. IsOver(RMul(v, y), (n1 * n4), D2)
  BY <1>a, <1>d, <1>5, OverMul
<1>11. IsOver(RMul(v, RMul(v, y)), (n1 * (n1 * n4)), D3)
  BY <1>a, <1>10, <1>5, OverMul
<1>12. IsOver(RMul(RSub(u, r), RMul(v, RMul(v, y))), ((n2 - n3) * (n1 * (n1 * n4))), D4)
  BY <1>6, <1>11, <1>5, OverMul
<1>13. (n1 * (n1 * ((n2 - n3) * n4))) = ((n2 - n3) * (n1 * (n1 * n4)))
  BY <1>3 DEF D2, D3, D4
<1>14. RMul(v, RMul(v, RMul(RSub(u, r), y))) = RMul(RSub(u, r), RMul(v, RMul(v, y)))
  BY <1>9, <1>12, <1>13, OverEqual
<1>15. IsOver(RMul(g, t), (n5 * n6), D2)
  BY <1>e, <1>f, <1>5, OverMul
<1>16. IsOver(RMul(RSub(u, r), RMul(g, t)), ((n2 - n3) * (n5 * n6)), D3)
  BY <1>6, <1>15, <1>5, OverMul
<1>17. IsOver(RMul(u, RMul(g, t)), (n2 * (n5 * n6)), D3)
  BY <1>b, <1>15, <1>5, OverMul
<1>18. IsOver(RMul(r, t), (n3 * n6), D2)
  BY <1>c, <1>f, <1>5, OverMul
<1>19. IsOver(RMul(g, RMul(r, t)), (n5 * (n3 * n6)), D3)
  BY <1>e, <1>18, <1>5, OverMul
<1>20. IsOver(RSub(RMul(u, RMul(g, t)), RMul(g, RMul(r, t))), ((n2 * (n5 * n6)) - (n5 * (n3 * n6))),
         D3)
  BY <1>17, <1>19, OverMinus
<1>21. ((n2 - n3) * (n5 * n6)) = ((n2 * (n5 * n6)) - (n5 * (n3 * n6)))
  BY <1>3 DEF D2, D3, D4
<1>22. RMul(RSub(u, r), RMul(g, t)) = RSub(RMul(u, RMul(g, t)), RMul(g, RMul(r, t)))
  BY <1>16, <1>20, <1>21, OverEqual
<1>23. IsOver(RMul(v, x), (n1 * n7), D2)
  BY <1>a, <1>g, <1>5, OverMul
<1>24. IsOver(RMul(v, RMul(v, x)), (n1 * (n1 * n7)), D3)
  BY <1>a, <1>23, <1>5, OverMul
<1>25. IsOver(RNeg(RMul(v, RMul(v, x))), (-(n1 * (n1 * n7))), D3)
  BY <1>24, OverNeg
<1>26. IsOver(RNeg(x), (-n7), D)
  BY <1>g, OverNeg
<1>27. IsOver(RMul(v, RNeg(x)), (n1 * (-n7)), D2)
  BY <1>a, <1>26, <1>5, OverMul
<1>28. IsOver(RMul(v, RMul(v, RNeg(x))), (n1 * (n1 * (-n7))), D3)
  BY <1>a, <1>27, <1>5, OverMul
<1>29. (-(n1 * (n1 * n7))) = (n1 * (n1 * (-n7)))
  BY <1>3 DEF D2, D3, D4
<1>30. RNeg(RMul(v, RMul(v, x))) = RMul(v, RMul(v, RNeg(x)))
  BY <1>25, <1>28, <1>29, OverEqual
<1>31. QED
  BY <1>14, <1>22, <1>30 DEF (+), (-), (.), RatioOfChangeLaw

LastRemainderLaw(v, y, t, x, c, u, d, a, b) ==
    v (.) (y (-) t (.) x) = RNeg(c (+) u (.) d) (+) t (.) (a (+) u (.) b) (+) ((c (+) (u (.)
             d (+) v (.) y)) (-) t (.) (a (+) (u (.) b (+) v (.) x)))

\* The last coefficient of the quotient of the next K times v, with what the divisions of
\* p and K say of it.
LEMMA LastRemainder ==
  ASSUME NEW v \in Rat, NEW y \in Rat, NEW t \in Rat, NEW x \in Rat, NEW c \in Rat,
         NEW u \in Rat, NEW d \in Rat, NEW a \in Rat, NEW b \in Rat
  PROVE  LastRemainderLaw(v, y, t, x, c, u, d, a, b)
<1> DEFINE F == [i \in 1 .. 9 |-> IF i = 1 THEN v ELSE IF i = 2 THEN y ELSE IF i =
         3 THEN t ELSE IF i = 4 THEN x ELSE IF i = 5 THEN c ELSE IF i = 6 THEN u ELSE IF i =
         7 THEN d ELSE IF i = 8 THEN a ELSE b]
<1>1. F \in [1 .. 9 -> Rat] /\ F[1] = v /\ F[2] = y /\ F[3] = t /\ F[4] = x /\ F[5] = c /\
         F[6] = u /\ F[7] = d /\ F[8] = a /\ F[9] = b
  OBVIOUS
<1> HIDE DEF F
<1>2. PICK D \in Int \ {0}, G \in [1 .. 9 -> Int] : \A i \in 1 .. 9 : Is(F[i], G[i], D)
  BY <1>1, CommonDenominator DEF AllOver
<1> DEFINE n1 == G[1]
           n2 == G[2]
           n3 == G[3]
           n4 == G[4]
           n5 == G[5]
           n6 == G[6]
           n7 == G[7]
           n8 == G[8]
           n9 == G[9]
           D2 == D * D
           D3 == D2 * D
<1>3. n1 \in Int /\ n2 \in Int /\ n3 \in Int /\ n4 \in Int /\ n5 \in Int /\ n6 \in Int
      /\ n7 \in Int /\ n8 \in Int /\ n9 \in Int
  BY <1>2
<1>a. IsOver(v, n1, D)
  BY <1>1, <1>2 DEF IsOver
<1>b. IsOver(y, n2, D)
  BY <1>1, <1>2 DEF IsOver
<1>c. IsOver(t, n3, D)
  BY <1>1, <1>2 DEF IsOver
<1>d. IsOver(x, n4, D)
  BY <1>1, <1>2 DEF IsOver
<1>e. IsOver(c, n5, D)
  BY <1>1, <1>2 DEF IsOver
<1>f. IsOver(u, n6, D)
  BY <1>1, <1>2 DEF IsOver
<1>g. IsOver(d, n7, D)
  BY <1>1, <1>2 DEF IsOver
<1>h. IsOver(a, n8, D)
  BY <1>1, <1>2 DEF IsOver
<1>i. IsOver(b, n9, D)
  BY <1>1, <1>2 DEF IsOver
<1>4. D2 \in Int \ {0} /\ D3 \in Int \ {0}
  BY NonZero
<1>5. D2 = D * D /\ D3 = D * D2 /\ D3 = D2 * D
  OBVIOUS
<1> HIDE DEF n1, n2, n3, n4, n5, n6, n7, n8, n9, D2, D3
<1>6. IsOver(y, (n2 * D), D2)
  BY <1>b, <1>4, <1>5, OverPad
<1>7. IsOver(RMul(t, x), (n3 * n4), D2)
  BY <1>c, <1>d, <1>5, OverMul
<1>8. IsOver(RSub(y, RMul(t, x)), ((n2 * D) - (n3 * n4)), D2)
  BY <1>6, <1>7, OverMinus
<1>9. IsOver(RMul(v, RSub(y, RMul(t, x))), (n1 * ((n2 * D) - (n3 * n4))), D3)
  BY <1>a, <1>8, <1>5, OverMul
<1>10. IsOver(c, (n5 * D), D2)
  BY <1>e, <1>4, <1>5, OverPad
<1>11. IsOver(RMul(u, d), (n6 * n7), D2)
  BY <1>f, <1>g, <1>5, OverMul
<1>12. IsOver(RAdd(c, RMul(u, d)), ((n5 * D) + (n6 * n7)), D2)
  BY <1>10, <1>11, OverPlus
<1>13. IsOver(RNeg(RAdd(c, RMul(u, d))), (-((n5 * D) + (n6 * n7))), D2)
  BY <1>12, OverNeg
<1>14. IsOver(RNeg(RAdd(c, RMul(u, d))), ((-((n5 * D) + (n6 * n7))) * D), D3)
  BY <1>13, <1>4, <1>5, OverPad
<1>15. IsOver(a, (n8 * D), D2)
  BY <1>h, <1>4, <1>5, OverPad
<1>16. IsOver(RMul(u, b), (n6 * n9), D2)
  BY <1>f, <1>i, <1>5, OverMul
<1>17. IsOver(RAdd(a, RMul(u, b)), ((n8 * D) + (n6 * n9)), D2)
  BY <1>15, <1>16, OverPlus
<1>18. IsOver(RMul(t, RAdd(a, RMul(u, b))), (n3 * ((n8 * D) + (n6 * n9))), D3)
  BY <1>c, <1>17, <1>5, OverMul
<1>19. IsOver(RAdd(RNeg(RAdd(c, RMul(u, d))), RMul(t, RAdd(a, RMul(u, b)))), (((-((n5 * D) + (n6 *
         n7))) * D) + (n3 * ((n8 * D) + (n6 * n9)))), D3)
  BY <1>14, <1>18, OverPlus
<1>20. IsOver(RMul(v, y), (n1 * n2), D2)
  BY <1>a, <1>b, <1>5, OverMul
<1>21. IsOver(RAdd(RMul(u, d), RMul(v, y)), ((n6 * n7) + (n1 * n2)), D2)
  BY <1>11, <1>20, OverPlus
<1>22. IsOver(RAdd(c, RAdd(RMul(u, d), RMul(v, y))), ((n5 * D) + ((n6 * n7) + (n1 * n2))), D2)
  BY <1>10, <1>21, OverPlus
<1>23. IsOver(RAdd(c, RAdd(RMul(u, d), RMul(v, y))), (((n5 * D) + ((n6 * n7) + (n1 * n2))) * D), D3)
  BY <1>22, <1>4, <1>5, OverPad
<1>24. IsOver(RMul(v, x), (n1 * n4), D2)
  BY <1>a, <1>d, <1>5, OverMul
<1>25. IsOver(RAdd(RMul(u, b), RMul(v, x)), ((n6 * n9) + (n1 * n4)), D2)
  BY <1>16, <1>24, OverPlus
<1>26. IsOver(RAdd(a, RAdd(RMul(u, b), RMul(v, x))), ((n8 * D) + ((n6 * n9) + (n1 * n4))), D2)
  BY <1>15, <1>25, OverPlus
<1>27. IsOver(RMul(t, RAdd(a, RAdd(RMul(u, b), RMul(v, x)))), (n3 * ((n8 * D) + ((n6 * n9) + (n1 *
         n4)))), D3)
  BY <1>c, <1>26, <1>5, OverMul
<1>28. IsOver(RSub(RAdd(c, RAdd(RMul(u, d), RMul(v, y))), RMul(t, RAdd(a, RAdd(RMul(u, b), RMul(v,
         x))))), ((((n5 * D) + ((n6 * n7) + (n1 * n2))) * D) - (n3 * ((n8 * D) + ((n6 * n9) +
         (n1 * n4))))), D3)
  BY <1>23, <1>27, OverMinus
<1>29. IsOver(RAdd(RAdd(RNeg(RAdd(c, RMul(u, d))), RMul(t, RAdd(a, RMul(u, b)))), RSub(RAdd(c,
         RAdd(RMul(u, d), RMul(v, y))), RMul(t, RAdd(a, RAdd(RMul(u, b), RMul(v, x)))))),
         ((((-((n5 * D) + (n6 * n7))) * D) + (n3 * ((n8 * D) + (n6 * n9)))) + ((((n5 * D) +
         ((n6 * n7) + (n1 * n2))) * D) - (n3 * ((n8 * D) + ((n6 * n9) + (n1 * n4)))))), D3)
  BY <1>19, <1>28, OverPlus
<1>30. (n1 * ((n2 * D) - (n3 * n4))) = ((((-((n5 * D) + (n6 * n7))) * D) + (n3 * ((n8 * D) +
         (n6 * n9)))) + ((((n5 * D) + ((n6 * n7) + (n1 * n2))) * D) - (n3 * ((n8 * D) + ((n6 *
         n9) + (n1 * n4))))))
  BY <1>3 DEF D2, D3
<1>31. RMul(v, RSub(y, RMul(t, x))) = RAdd(RAdd(RNeg(RAdd(c, RMul(u, d))), RMul(t, RAdd(a,
         RMul(u, b)))), RSub(RAdd(c, RAdd(RMul(u, d), RMul(v, y))), RMul(t, RAdd(a, RAdd(RMul(u,
         b), RMul(v, x))))))
  BY <1>9, <1>29, <1>30, OverEqual
<1>32. QED
  BY <1>31 DEF (+), (-), (.), LastRemainderLaw

-----------------------------------------------------------------------------
(* Identities of a segment between points at rest                           *)

\* The velocity in the middle of a segment between points at rest.
MiddleVelocityLaw(c0, c1, c2, h) ==
    R(32) (.) (h (.) ((((R(5) (.) c0 (.) h (+) R(4) (.) c1) (.) h (+) R(3) (.) c2) (.) h (+)
             Zero) (.) h (+) Zero)) = R(5) (.) (c0 (.) (R(2) (.) h (.) (R(2) (.) h (.)
             (R(2) (.) h (.) (R(2) (.) h (.) (R(2) (.) h)))))) (+) R(8) (.) (c1 (.) (R(2) (.)
             h (.) (R(2) (.) h (.) (R(2) (.) h (.) (R(2) (.) h))))) (+) R(12) (.) (c2 (.)
             (R(2) (.) h (.) (R(2) (.) h (.) (R(2) (.) h))))

\* The velocity in the middle, in the products of the coefficients with the powers of the
\* duration.
LEMMA MiddleVelocity ==
  ASSUME NEW c0 \in Rat, NEW c1 \in Rat, NEW c2 \in Rat, NEW h \in Rat
  PROVE  MiddleVelocityLaw(c0, c1, c2, h)
<1> DEFINE F == [i \in 1 .. 4 |-> IF i = 1 THEN c0 ELSE IF i = 2 THEN c1 ELSE IF i =
         3 THEN c2 ELSE h]
<1>1. F \in [1 .. 4 -> Rat] /\ F[1] = c0 /\ F[2] = c1 /\ F[3] = c2 /\ F[4] = h
  OBVIOUS
<1> HIDE DEF F
<1>2. PICK D \in Int \ {0}, G \in [1 .. 4 -> Int] : \A i \in 1 .. 4 : Is(F[i], G[i], D)
  BY <1>1, CommonDenominator DEF AllOver
<1> DEFINE n1 == G[1]
           n2 == G[2]
           n3 == G[3]
           n4 == G[4]
           D2 == D * D
           D3 == D2 * D
           D4 == D3 * D
           D5 == D4 * D
           D6 == D5 * D
<1>3. n1 \in Int /\ n2 \in Int /\ n3 \in Int /\ n4 \in Int
  BY <1>2
<1>a. IsOver(c0, n1, D)
  BY <1>1, <1>2 DEF IsOver
<1>b. IsOver(c1, n2, D)
  BY <1>1, <1>2 DEF IsOver
<1>c. IsOver(c2, n3, D)
  BY <1>1, <1>2 DEF IsOver
<1>d. IsOver(h, n4, D)
  BY <1>1, <1>2 DEF IsOver
<1>4. D2 \in Int \ {0} /\ D3 \in Int \ {0} /\ D4 \in Int \ {0} /\ D5 \in Int \ {0}
      /\ D6 \in Int \ {0}
  BY NonZero
<1>p1x1. D2 = D * D
  OBVIOUS
<1>p1x2. D3 = D * D2
  OBVIOUS
<1>p1x3. D4 = D * D3
  OBVIOUS
<1>p1x4. D5 = D * D4
  OBVIOUS
<1>p1x5. D6 = D * D5
  OBVIOUS
<1>p2x1. D3 = D2 * D
  OBVIOUS
<1>p3x1. D4 = D3 * D
  OBVIOUS
<1>p4x1. D5 = D4 * D
  OBVIOUS
<1>p4x2. D6 = D4 * D2
  OBVIOUS
<1>p5x1. D6 = D5 * D
  OBVIOUS
<1> HIDE DEF n1, n2, n3, n4, D2, D3, D4, D5, D6
<1>5. IsOver(RMul(R(5), c0), (5 * n1), D)
  BY <1>a, OverTimes
<1>6. IsOver(RMul(RMul(R(5), c0), h), ((5 * n1) * n4), D2)
  BY <1>5, <1>d, <1>p1x1, OverMul
<1>7. IsOver(RMul(R(4), c1), (4 * n2), D)
  BY <1>b, OverTimes
<1>8. IsOver(RMul(R(4), c1), ((4 * n2) * D), D2)
  BY <1>7, <1>4, <1>p1x1, OverPad
<1>9. IsOver(RAdd(RMul(RMul(R(5), c0), h), RMul(R(4), c1)), (((5 * n1) * n4) + ((4 * n2) * D)), D2)
  BY <1>6, <1>8, OverPlus
<1>10. IsOver(RMul(RAdd(RMul(RMul(R(5), c0), h), RMul(R(4), c1)), h), ((((5 * n1) * n4) + ((4 *
         n2) * D)) * n4), D3)
  BY <1>9, <1>d, <1>p2x1, OverMul
<1>11. IsOver(RMul(R(3), c2), (3 * n3), D)
  BY <1>c, OverTimes
<1>12. IsOver(RMul(R(3), c2), ((3 * n3) * D2), D3)
  BY <1>11, <1>4, <1>p1x2, OverPad
<1>13. IsOver(RAdd(RMul(RAdd(RMul(RMul(R(5), c0), h), RMul(R(4), c1)), h), RMul(R(3), c2)),
         (((((5 * n1) * n4) + ((4 * n2) * D)) * n4) + ((3 * n3) * D2)), D3)
  BY <1>10, <1>12, OverPlus
<1>14. IsOver(RMul(RAdd(RMul(RAdd(RMul(RMul(R(5), c0), h), RMul(R(4), c1)), h), RMul(R(3), c2)), h),
         ((((((5 * n1) * n4) + ((4 * n2) * D)) * n4) + ((3 * n3) * D2)) * n4), D4)
  BY <1>13, <1>d, <1>p3x1, OverMul
<1>15. IsOver(Zero, (0), D4)
  BY <1>4, OverZeroOne
<1>16. IsOver(RAdd(RMul(RAdd(RMul(RAdd(RMul(RMul(R(5), c0), h), RMul(R(4), c1)), h), RMul(R(3),
         c2)), h), Zero), (((((((5 * n1) * n4) + ((4 * n2) * D)) * n4) + ((3 * n3) * D2)) *
         n4) + (0)), D4)
  BY <1>14, <1>15, OverPlus
<1>17. IsOver(RMul(RAdd(RMul(RAdd(RMul(RAdd(RMul(RMul(R(5), c0), h), RMul(R(4), c1)), h), RMul(R(3),
         c2)), h), Zero), h), ((((((((5 * n1) * n4) + ((4 * n2) * D)) * n4) + ((3 * n3) * D2)) *
         n4) + (0)) * n4), D5)
  BY <1>16, <1>d, <1>p4x1, OverMul
<1>18. IsOver(Zero, (0), D5)
  BY <1>4, OverZeroOne
<1>19. IsOver(RAdd(RMul(RAdd(RMul(RAdd(RMul(RAdd(RMul(RMul(R(5), c0), h), RMul(R(4), c1)), h),
         RMul(R(3), c2)), h), Zero), h), Zero), (((((((((5 * n1) * n4) + ((4 * n2) * D)) * n4) +
         ((3 * n3) * D2)) * n4) + (0)) * n4) + (0)), D5)
  BY <1>17, <1>18, OverPlus
<1>20. IsOver(RMul(h, RAdd(RMul(RAdd(RMul(RAdd(RMul(RAdd(RMul(RMul(R(5), c0), h), RMul(R(4), c1)),
         h), RMul(R(3), c2)), h), Zero), h), Zero)), (n4 * (((((((((5 * n1) * n4) + ((4 * n2) *
         D)) * n4) + ((3 * n3) * D2)) * n4) + (0)) * n4) + (0))), D6)
  BY <1>d, <1>19, <1>p1x5, OverMul
<1>21. IsOver(RMul(R(32), RMul(h, RAdd(RMul(RAdd(RMul(RAdd(RMul(RAdd(RMul(RMul(R(5), c0), h),
         RMul(R(4), c1)), h), RMul(R(3), c2)), h), Zero), h), Zero))), (32 * (n4 * (((((((((5 *
         n1) * n4) + ((4 * n2) * D)) * n4) + ((3 * n3) * D2)) * n4) + (0)) * n4) + (0)))), D6)
  BY <1>20, OverTimes
<1>22. IsOver(RMul(R(2), h), (2 * n4), D)
  BY <1>d, OverTimes
<1>23. IsOver(RMul(RMul(R(2), h), RMul(R(2), h)), ((2 * n4) * (2 * n4)), D2)
  BY <1>22, <1>p1x1, OverMul
<1>24. IsOver(RMul(RMul(R(2), h), RMul(RMul(R(2), h), RMul(R(2), h))), ((2 * n4) * ((2 * n4) * (2 *
         n4))), D3)
  BY <1>22, <1>23, <1>p1x2, OverMul
<1>25. IsOver(RMul(RMul(R(2), h), RMul(RMul(R(2), h), RMul(RMul(R(2), h), RMul(R(2), h)))), ((2 *
         n4) * ((2 * n4) * ((2 * n4) * (2 * n4)))), D4)
  BY <1>22, <1>24, <1>p1x3, OverMul
<1>26. IsOver(RMul(RMul(R(2), h), RMul(RMul(R(2), h), RMul(RMul(R(2), h), RMul(RMul(R(2), h),
         RMul(R(2), h))))), ((2 * n4) * ((2 * n4) * ((2 * n4) * ((2 * n4) * (2 * n4))))), D5)
  BY <1>22, <1>25, <1>p1x4, OverMul
<1>27. IsOver(RMul(c0, RMul(RMul(R(2), h), RMul(RMul(R(2), h), RMul(RMul(R(2), h), RMul(RMul(R(2),
         h), RMul(R(2), h)))))), (n1 * ((2 * n4) * ((2 * n4) * ((2 * n4) * ((2 * n4) * (2 *
         n4)))))), D6)
  BY <1>a, <1>26, <1>p1x5, OverMul
<1>28. IsOver(RMul(R(5), RMul(c0, RMul(RMul(R(2), h), RMul(RMul(R(2), h), RMul(RMul(R(2), h),
         RMul(RMul(R(2), h), RMul(R(2), h))))))), (5 * (n1 * ((2 * n4) * ((2 * n4) * ((2 * n4) *
         ((2 * n4) * (2 * n4))))))), D6)
  BY <1>27, OverTimes
<1>29. IsOver(RMul(c1, RMul(RMul(R(2), h), RMul(RMul(R(2), h), RMul(RMul(R(2), h), RMul(R(2),
         h))))), (n2 * ((2 * n4) * ((2 * n4) * ((2 * n4) * (2 * n4))))), D5)
  BY <1>b, <1>25, <1>p1x4, OverMul
<1>30. IsOver(RMul(R(8), RMul(c1, RMul(RMul(R(2), h), RMul(RMul(R(2), h), RMul(RMul(R(2), h),
         RMul(R(2), h)))))), (8 * (n2 * ((2 * n4) * ((2 * n4) * ((2 * n4) * (2 * n4)))))), D5)
  BY <1>29, OverTimes
<1>31. IsOver(RMul(R(8), RMul(c1, RMul(RMul(R(2), h), RMul(RMul(R(2), h), RMul(RMul(R(2), h),
         RMul(R(2), h)))))), ((8 * (n2 * ((2 * n4) * ((2 * n4) * ((2 * n4) * (2 * n4)))))) * D),
         D6)
  BY <1>30, <1>4, <1>p5x1, OverPad
<1>32. IsOver(RAdd(RMul(R(5), RMul(c0, RMul(RMul(R(2), h), RMul(RMul(R(2), h), RMul(RMul(R(2), h),
         RMul(RMul(R(2), h), RMul(R(2), h))))))), RMul(R(8), RMul(c1, RMul(RMul(R(2), h),
         RMul(RMul(R(2), h), RMul(RMul(R(2), h), RMul(R(2), h))))))), ((5 * (n1 * ((2 * n4) *
         ((2 * n4) * ((2 * n4) * ((2 * n4) * (2 * n4))))))) + ((8 * (n2 * ((2 * n4) * ((2 *
         n4) * ((2 * n4) * (2 * n4)))))) * D)), D6)
  BY <1>28, <1>31, OverPlus
<1>33. IsOver(RMul(c2, RMul(RMul(R(2), h), RMul(RMul(R(2), h), RMul(R(2), h)))), (n3 * ((2 * n4) *
         ((2 * n4) * (2 * n4)))), D4)
  BY <1>c, <1>24, <1>p1x3, OverMul
<1>34. IsOver(RMul(R(12), RMul(c2, RMul(RMul(R(2), h), RMul(RMul(R(2), h), RMul(R(2), h))))), (12 *
         (n3 * ((2 * n4) * ((2 * n4) * (2 * n4))))), D4)
  BY <1>33, OverTimes
<1>35. IsOver(RMul(R(12), RMul(c2, RMul(RMul(R(2), h), RMul(RMul(R(2), h), RMul(R(2), h))))),
         ((12 * (n3 * ((2 * n4) * ((2 * n4) * (2 * n4))))) * D2), D6)
  BY <1>34, <1>4, <1>p4x2, OverPad
<1>36. IsOver(RAdd(RAdd(RMul(R(5), RMul(c0, RMul(RMul(R(2), h), RMul(RMul(R(2), h), RMul(RMul(R(2),
         h), RMul(RMul(R(2), h), RMul(R(2), h))))))), RMul(R(8), RMul(c1, RMul(RMul(R(2), h),
         RMul(RMul(R(2), h), RMul(RMul(R(2), h), RMul(R(2), h))))))), RMul(R(12), RMul(c2,
         RMul(RMul(R(2), h), RMul(RMul(R(2), h), RMul(R(2), h)))))), (((5 * (n1 * ((2 * n4) *
         ((2 * n4) * ((2 * n4) * ((2 * n4) * (2 * n4))))))) + ((8 * (n2 * ((2 * n4) * ((2 *
         n4) * ((2 * n4) * (2 * n4)))))) * D)) + ((12 * (n3 * ((2 * n4) * ((2 * n4) * (2 *
         n4))))) * D2)), D6)
  BY <1>32, <1>35, OverPlus
<1>37. (32 * (n4 * (((((((((5 * n1) * n4) + ((4 * n2) * D)) * n4) + ((3 * n3) * D2)) * n4) +
         (0)) * n4) + (0)))) = (((5 * (n1 * ((2 * n4) * ((2 * n4) * ((2 * n4) * ((2 * n4) * (2 *
         n4))))))) + ((8 * (n2 * ((2 * n4) * ((2 * n4) * ((2 * n4) * (2 * n4)))))) * D)) +
         ((12 * (n3 * ((2 * n4) * ((2 * n4) * (2 * n4))))) * D2))
  BY <1>3 DEF D2, D3, D4, D5, D6
<1>38. RMul(R(32), RMul(h, RAdd(RMul(RAdd(RMul(RAdd(RMul(RAdd(RMul(RMul(R(5), c0), h), RMul(R(4),
         c1)), h), RMul(R(3), c2)), h), Zero), h), Zero))) = RAdd(RAdd(RMul(R(5), RMul(c0,
         RMul(RMul(R(2), h), RMul(RMul(R(2), h), RMul(RMul(R(2), h), RMul(RMul(R(2), h),
         RMul(R(2), h))))))), RMul(R(8), RMul(c1, RMul(RMul(R(2), h), RMul(RMul(R(2), h),
         RMul(RMul(R(2), h), RMul(R(2), h))))))), RMul(R(12), RMul(c2, RMul(RMul(R(2), h),
         RMul(RMul(R(2), h), RMul(R(2), h))))))
  BY <1>21, <1>36, <1>37, OverEqual
<1>39. QED
  BY <1>38 DEF (+), (-), (.), MiddleVelocityLaw

\* Twice a half is the whole.
LEMMA Doubled ==
  ASSUME NEW h \in Rat, NEW x \in Rat
  PROVE  R(16) (.) (R(2) (.) h) (.) x = R(32) (.) (h (.) x)
<1> DEFINE F == [i \in 1 .. 2 |-> IF i = 1 THEN h ELSE x]
<1>1. F \in [1 .. 2 -> Rat] /\ F[1] = h /\ F[2] = x
  OBVIOUS
<1> HIDE DEF F
<1>2. PICK D \in Int \ {0}, G \in [1 .. 2 -> Int] : \A i \in 1 .. 2 : Is(F[i], G[i], D)
  BY <1>1, CommonDenominator DEF AllOver
<1> DEFINE n1 == G[1]
           n2 == G[2]
           D2 == D * D
<1>3. n1 \in Int /\ n2 \in Int
  BY <1>2
<1>a. IsOver(h, n1, D)
  BY <1>1, <1>2 DEF IsOver
<1>b. IsOver(x, n2, D)
  BY <1>1, <1>2 DEF IsOver
<1>4. D2 \in Int \ {0}
  BY NonZero
<1>p1x1. D2 = D * D
  OBVIOUS
<1> HIDE DEF n1, n2, D2
<1>5. IsOver(RMul(R(2), h), (2 * n1), D)
  BY <1>a, OverTimes
<1>6. IsOver(RMul(R(16), RMul(R(2), h)), (16 * (2 * n1)), D)
  BY <1>5, OverTimes
<1>7. IsOver(RMul(RMul(R(16), RMul(R(2), h)), x), ((16 * (2 * n1)) * n2), D2)
  BY <1>6, <1>b, <1>p1x1, OverMul
<1>8. IsOver(RMul(h, x), (n1 * n2), D2)
  BY <1>a, <1>b, <1>p1x1, OverMul
<1>9. IsOver(RMul(R(32), RMul(h, x)), (32 * (n1 * n2)), D2)
  BY <1>8, OverTimes
<1>10. ((16 * (2 * n1)) * n2) = (32 * (n1 * n2))
  BY <1>3 DEF D2
<1>11. RMul(RMul(R(16), RMul(R(2), h)), x) = RMul(R(32), RMul(h, x))
  BY <1>7, <1>9, <1>10, OverEqual
<1>12. QED
  BY <1>11 DEF (+), (-), (.)

\* Multiples of one number.
LEMMA Scalars ==
  ASSUME NEW d \in Rat
  PROVE
         R(5) (.) (R(6) (.) d) (+) R(8) (.) (R(-15) (.) d) (+) R(12) (.) (R(10) (.) d) =
                  R(30) (.) d
         /\ R(2) (.) (R(-15) (.) d) = R(-5) (.) (R(6) (.) d)
         /\ R(3) (.) (R(10) (.) d) = R(5) (.) (R(6) (.) d)
<1> DEFINE F == [i \in 1 .. 1 |-> d]
<1>1. F \in [1 .. 1 -> Rat] /\ F[1] = d
  OBVIOUS
<1> HIDE DEF F
<1>2. PICK D \in Int \ {0}, G \in [1 .. 1 -> Int] : \A i \in 1 .. 1 : Is(F[i], G[i], D)
  BY <1>1, CommonDenominator DEF AllOver
<1> DEFINE n1 == G[1]
<1>3. n1 \in Int
  BY <1>2
<1>a. IsOver(d, n1, D)
  BY <1>1, <1>2 DEF IsOver
<1> HIDE DEF n1
<1>4. IsOver(RMul(R(6), d), (6 * n1), D)
  BY <1>a, OverTimes
<1>5. IsOver(RMul(R(5), RMul(R(6), d)), (5 * (6 * n1)), D)
  BY <1>4, OverTimes
<1>6. IsOver(RMul(R(-15), d), ((-15) * n1), D)
  BY <1>a, OverTimes
<1>7. IsOver(RMul(R(8), RMul(R(-15), d)), (8 * ((-15) * n1)), D)
  BY <1>6, OverTimes
<1>8. IsOver(RAdd(RMul(R(5), RMul(R(6), d)), RMul(R(8), RMul(R(-15), d))), ((5 * (6 * n1)) + (8 *
         ((-15) * n1))), D)
  BY <1>5, <1>7, OverPlus
<1>9. IsOver(RMul(R(10), d), (10 * n1), D)
  BY <1>a, OverTimes
<1>10. IsOver(RMul(R(12), RMul(R(10), d)), (12 * (10 * n1)), D)
  BY <1>9, OverTimes
<1>11. IsOver(RAdd(RAdd(RMul(R(5), RMul(R(6), d)), RMul(R(8), RMul(R(-15), d))), RMul(R(12),
         RMul(R(10), d))), (((5 * (6 * n1)) + (8 * ((-15) * n1))) + (12 * (10 * n1))), D)
  BY <1>8, <1>10, OverPlus
<1>12. IsOver(RMul(R(30), d), (30 * n1), D)
  BY <1>a, OverTimes
<1>13. (((5 * (6 * n1)) + (8 * ((-15) * n1))) + (12 * (10 * n1))) = (30 * n1)
  BY <1>3
<1>14. RAdd(RAdd(RMul(R(5), RMul(R(6), d)), RMul(R(8), RMul(R(-15), d))), RMul(R(12), RMul(R(10),
         d))) = RMul(R(30), d)
  BY <1>11, <1>12, <1>13, OverEqual
<1>15. IsOver(RMul(R(2), RMul(R(-15), d)), (2 * ((-15) * n1)), D)
  BY <1>6, OverTimes
<1>16. IsOver(RMul(R(-5), RMul(R(6), d)), ((-5) * (6 * n1)), D)
  BY <1>4, OverTimes
<1>17. (2 * ((-15) * n1)) = ((-5) * (6 * n1))
  BY <1>3
<1>18. RMul(R(2), RMul(R(-15), d)) = RMul(R(-5), RMul(R(6), d))
  BY <1>15, <1>16, <1>17, OverEqual
<1>19. IsOver(RMul(R(3), RMul(R(10), d)), (3 * (10 * n1)), D)
  BY <1>9, OverTimes
<1>20. (3 * (10 * n1)) = (5 * (6 * n1))
  BY <1>3
<1>21. RMul(R(3), RMul(R(10), d)) = RMul(R(5), RMul(R(6), d))
  BY <1>19, <1>5, <1>20, OverEqual
<1>22. QED
  BY <1>14, <1>18, <1>21 DEF (+), (-), (.)

\* Products with a half.
LEMMA Halving ==
  ASSUME NEW q \in Rat, NEW t \in Rat
  PROVE  q (.) (R(2) (.) t) = R(2) (.) (q (.) t) /\ RNeg(q) (.) t = RNeg(q (.) t)
         /\ R(12) (.) q = R(2) (.) (R(6) (.) q) /\ R(30) (.) q = R(2) (.) (R(15) (.) q)
         /\ R(20) (.) q = R(2) (.) (R(10) (.) q)
<1> DEFINE F == [i \in 1 .. 2 |-> IF i = 1 THEN q ELSE t]
<1>1. F \in [1 .. 2 -> Rat] /\ F[1] = q /\ F[2] = t
  OBVIOUS
<1> HIDE DEF F
<1>2. PICK D \in Int \ {0}, G \in [1 .. 2 -> Int] : \A i \in 1 .. 2 : Is(F[i], G[i], D)
  BY <1>1, CommonDenominator DEF AllOver
<1> DEFINE n1 == G[1]
           n2 == G[2]
           D2 == D * D
<1>3. n1 \in Int /\ n2 \in Int
  BY <1>2
<1>a. IsOver(q, n1, D)
  BY <1>1, <1>2 DEF IsOver
<1>b. IsOver(t, n2, D)
  BY <1>1, <1>2 DEF IsOver
<1>4. D2 \in Int \ {0}
  BY NonZero
<1>p1x1. D2 = D * D
  OBVIOUS
<1> HIDE DEF n1, n2, D2
<1>5. IsOver(RMul(R(2), t), (2 * n2), D)
  BY <1>b, OverTimes
<1>6. IsOver(RMul(q, RMul(R(2), t)), (n1 * (2 * n2)), D2)
  BY <1>a, <1>5, <1>p1x1, OverMul
<1>7. IsOver(RMul(q, t), (n1 * n2), D2)
  BY <1>a, <1>b, <1>p1x1, OverMul
<1>8. IsOver(RMul(R(2), RMul(q, t)), (2 * (n1 * n2)), D2)
  BY <1>7, OverTimes
<1>9. (n1 * (2 * n2)) = (2 * (n1 * n2))
  BY <1>3 DEF D2
<1>10. RMul(q, RMul(R(2), t)) = RMul(R(2), RMul(q, t))
  BY <1>6, <1>8, <1>9, OverEqual
<1>11. IsOver(RNeg(q), (-n1), D)
  BY <1>a, OverNeg
<1>12. IsOver(RMul(RNeg(q), t), ((-n1) * n2), D2)
  BY <1>11, <1>b, <1>p1x1, OverMul
<1>13. IsOver(RNeg(RMul(q, t)), (-(n1 * n2)), D2)
  BY <1>7, OverNeg
<1>14. ((-n1) * n2) = (-(n1 * n2))
  BY <1>3 DEF D2
<1>15. RMul(RNeg(q), t) = RNeg(RMul(q, t))
  BY <1>12, <1>13, <1>14, OverEqual
<1>16. IsOver(RMul(R(12), q), (12 * n1), D)
  BY <1>a, OverTimes
<1>17. IsOver(RMul(R(6), q), (6 * n1), D)
  BY <1>a, OverTimes
<1>18. IsOver(RMul(R(2), RMul(R(6), q)), (2 * (6 * n1)), D)
  BY <1>17, OverTimes
<1>19. (12 * n1) = (2 * (6 * n1))
  BY <1>3 DEF D2
<1>20. RMul(R(12), q) = RMul(R(2), RMul(R(6), q))
  BY <1>16, <1>18, <1>19, OverEqual
<1>21. IsOver(RMul(R(30), q), (30 * n1), D)
  BY <1>a, OverTimes
<1>22. IsOver(RMul(R(15), q), (15 * n1), D)
  BY <1>a, OverTimes
<1>23. IsOver(RMul(R(2), RMul(R(15), q)), (2 * (15 * n1)), D)
  BY <1>22, OverTimes
<1>24. (30 * n1) = (2 * (15 * n1))
  BY <1>3 DEF D2
<1>25. RMul(R(30), q) = RMul(R(2), RMul(R(15), q))
  BY <1>21, <1>23, <1>24, OverEqual
<1>26. IsOver(RMul(R(20), q), (20 * n1), D)
  BY <1>a, OverTimes
<1>27. IsOver(RMul(R(10), q), (10 * n1), D)
  BY <1>a, OverTimes
<1>28. IsOver(RMul(R(2), RMul(R(10), q)), (2 * (10 * n1)), D)
  BY <1>27, OverTimes
<1>29. (20 * n1) = (2 * (10 * n1))
  BY <1>3 DEF D2
<1>30. RMul(R(20), q) = RMul(R(2), RMul(R(10), q))
  BY <1>26, <1>28, <1>29, OverEqual
<1>31. QED
  BY <1>10, <1>15, <1>20, <1>25, <1>30 DEF (+), (-), (.)

\* Products with an opposite.
LEMMA Negated ==
  ASSUME NEW x \in Rat, NEW y \in Rat
  PROVE  RNeg(R(6) (.) (x (-) y)) = R(6) (.) (y (-) x)
         /\ RNeg(R(10) (.) (x (-) y)) = R(10) (.) (y (-) x)
         /\ R(15) (.) (x (-) y) = R(-15) (.) (y (-) x)
<1> DEFINE F == [i \in 1 .. 2 |-> IF i = 1 THEN x ELSE y]
<1>1. F \in [1 .. 2 -> Rat] /\ F[1] = x /\ F[2] = y
  OBVIOUS
<1> HIDE DEF F
<1>2. PICK D \in Int \ {0}, G \in [1 .. 2 -> Int] : \A i \in 1 .. 2 : Is(F[i], G[i], D)
  BY <1>1, CommonDenominator DEF AllOver
<1> DEFINE n1 == G[1]
           n2 == G[2]
<1>3. n1 \in Int /\ n2 \in Int
  BY <1>2
<1>a. IsOver(x, n1, D)
  BY <1>1, <1>2 DEF IsOver
<1>b. IsOver(y, n2, D)
  BY <1>1, <1>2 DEF IsOver
<1> HIDE DEF n1, n2
<1>4. IsOver(RSub(x, y), (n1 - n2), D)
  BY <1>a, <1>b, OverMinus
<1>5. IsOver(RMul(R(6), RSub(x, y)), (6 * (n1 - n2)), D)
  BY <1>4, OverTimes
<1>6. IsOver(RNeg(RMul(R(6), RSub(x, y))), (-(6 * (n1 - n2))), D)
  BY <1>5, OverNeg
<1>7. IsOver(RSub(y, x), (n2 - n1), D)
  BY <1>b, <1>a, OverMinus
<1>8. IsOver(RMul(R(6), RSub(y, x)), (6 * (n2 - n1)), D)
  BY <1>7, OverTimes
<1>9. (-(6 * (n1 - n2))) = (6 * (n2 - n1))
  BY <1>3
<1>10. RNeg(RMul(R(6), RSub(x, y))) = RMul(R(6), RSub(y, x))
  BY <1>6, <1>8, <1>9, OverEqual
<1>11. IsOver(RMul(R(10), RSub(x, y)), (10 * (n1 - n2)), D)
  BY <1>4, OverTimes
<1>12. IsOver(RNeg(RMul(R(10), RSub(x, y))), (-(10 * (n1 - n2))), D)
  BY <1>11, OverNeg
<1>13. IsOver(RMul(R(10), RSub(y, x)), (10 * (n2 - n1)), D)
  BY <1>7, OverTimes
<1>14. (-(10 * (n1 - n2))) = (10 * (n2 - n1))
  BY <1>3
<1>15. RNeg(RMul(R(10), RSub(x, y))) = RMul(R(10), RSub(y, x))
  BY <1>12, <1>13, <1>14, OverEqual
<1>16. IsOver(RMul(R(15), RSub(x, y)), (15 * (n1 - n2)), D)
  BY <1>4, OverTimes
<1>17. IsOver(RMul(R(-15), RSub(y, x)), ((-15) * (n2 - n1)), D)
  BY <1>7, OverTimes
<1>18. (15 * (n1 - n2)) = ((-15) * (n2 - n1))
  BY <1>3
<1>19. RMul(R(15), RSub(x, y)) = RMul(R(-15), RSub(y, x))
  BY <1>16, <1>17, <1>18, OverEqual
<1>20. QED
  BY <1>10, <1>15, <1>19 DEF (+), (-), (.)

\* The lower coefficients as multiples of the leading one.
FirstOverLeadingLaw(c0, c1, h) ==
    /\ R(2) (.) h (.) (R(2) (.) h (.) (R(2) (.) h (.) (R(2) (.) h))) (.) (R(2) (.) c1) =
             R(2) (.) (c1 (.) (R(2) (.) h (.) (R(2) (.) h (.) (R(2) (.) h (.) (R(2) (.) h)))))
    /\ R(2) (.) h (.) (R(2) (.) h (.) (R(2) (.) h (.) (R(2) (.) h))) (.) (R(-10) (.) (c0 (.)
             h)) = R(-5) (.) (c0 (.) (R(2) (.) h (.) (R(2) (.) h (.) (R(2) (.) h (.) (R(2) (.)
             h (.) (R(2) (.) h))))))

\* The second coefficient over the leading one.
LEMMA FirstOverLeading ==
  ASSUME NEW c0 \in Rat, NEW c1 \in Rat, NEW h \in Rat
  PROVE  FirstOverLeadingLaw(c0, c1, h)
<1> DEFINE F == [i \in 1 .. 3 |-> IF i = 1 THEN c0 ELSE IF i = 2 THEN c1 ELSE h]
<1>1. F \in [1 .. 3 -> Rat] /\ F[1] = c0 /\ F[2] = c1 /\ F[3] = h
  OBVIOUS
<1> HIDE DEF F
<1>2. PICK D \in Int \ {0}, G \in [1 .. 3 -> Int] : \A i \in 1 .. 3 : Is(F[i], G[i], D)
  BY <1>1, CommonDenominator DEF AllOver
<1> DEFINE n1 == G[1]
           n2 == G[2]
           n3 == G[3]
           D2 == D * D
           D3 == D2 * D
           D4 == D3 * D
           D5 == D4 * D
           D6 == D5 * D
<1>3. n1 \in Int /\ n2 \in Int /\ n3 \in Int
  BY <1>2
<1>a. IsOver(c0, n1, D)
  BY <1>1, <1>2 DEF IsOver
<1>b. IsOver(c1, n2, D)
  BY <1>1, <1>2 DEF IsOver
<1>c. IsOver(h, n3, D)
  BY <1>1, <1>2 DEF IsOver
<1>4. D2 \in Int \ {0} /\ D3 \in Int \ {0} /\ D4 \in Int \ {0} /\ D5 \in Int \ {0}
      /\ D6 \in Int \ {0}
  BY NonZero
<1>p1x1. D2 = D * D
  OBVIOUS
<1>p1x2. D3 = D * D2
  OBVIOUS
<1>p1x3. D4 = D * D3
  OBVIOUS
<1>p1x4. D5 = D * D4
  OBVIOUS
<1>p1x5. D6 = D * D5
  OBVIOUS
<1>p4x1. D5 = D4 * D
  OBVIOUS
<1>p4x2. D6 = D4 * D2
  OBVIOUS
<1> HIDE DEF n1, n2, n3, D2, D3, D4, D5, D6
<1>5. IsOver(RMul(R(2), c1), (2 * n2), D)
  BY <1>b, OverTimes
<1>6. IsOver(RMul(R(2), h), (2 * n3), D)
  BY <1>c, OverTimes
<1>7. IsOver(RMul(RMul(R(2), h), RMul(R(2), h)), ((2 * n3) * (2 * n3)), D2)
  BY <1>6, <1>p1x1, OverMul
<1>8. IsOver(RMul(RMul(R(2), h), RMul(RMul(R(2), h), RMul(R(2), h))), ((2 * n3) * ((2 * n3) * (2 *
         n3))), D3)
  BY <1>6, <1>7, <1>p1x2, OverMul
<1>9. IsOver(RMul(RMul(R(2), h), RMul(RMul(R(2), h), RMul(RMul(R(2), h), RMul(R(2), h)))), ((2 *
         n3) * ((2 * n3) * ((2 * n3) * (2 * n3)))), D4)
  BY <1>6, <1>8, <1>p1x3, OverMul
<1>10. IsOver(RMul(RMul(RMul(R(2), h), RMul(RMul(R(2), h), RMul(RMul(R(2), h), RMul(R(2), h)))),
         RMul(R(2), c1)), (((2 * n3) * ((2 * n3) * ((2 * n3) * (2 * n3)))) * (2 * n2)), D5)
  BY <1>9, <1>5, <1>p4x1, OverMul
<1>11. IsOver(RMul(c1, RMul(RMul(R(2), h), RMul(RMul(R(2), h), RMul(RMul(R(2), h), RMul(R(2),
         h))))), (n2 * ((2 * n3) * ((2 * n3) * ((2 * n3) * (2 * n3))))), D5)
  BY <1>b, <1>9, <1>p1x4, OverMul
<1>12. IsOver(RMul(R(2), RMul(c1, RMul(RMul(R(2), h), RMul(RMul(R(2), h), RMul(RMul(R(2), h),
         RMul(R(2), h)))))), (2 * (n2 * ((2 * n3) * ((2 * n3) * ((2 * n3) * (2 * n3)))))), D5)
  BY <1>11, OverTimes
<1>13. (((2 * n3) * ((2 * n3) * ((2 * n3) * (2 * n3)))) * (2 * n2)) = (2 * (n2 * ((2 * n3) *
         ((2 * n3) * ((2 * n3) * (2 * n3))))))
  BY <1>3 DEF D2, D3, D4, D5, D6
<1>14. RMul(RMul(RMul(R(2), h), RMul(RMul(R(2), h), RMul(RMul(R(2), h), RMul(R(2), h)))),
         RMul(R(2), c1)) = RMul(R(2), RMul(c1, RMul(RMul(R(2), h), RMul(RMul(R(2), h),
         RMul(RMul(R(2), h), RMul(R(2), h))))))
  BY <1>10, <1>12, <1>13, OverEqual
<1>15. IsOver(RMul(c0, h), (n1 * n3), D2)
  BY <1>a, <1>c, <1>p1x1, OverMul
<1>16. IsOver(RMul(R(-10), RMul(c0, h)), ((-10) * (n1 * n3)), D2)
  BY <1>15, OverTimes
<1>17. IsOver(RMul(RMul(RMul(R(2), h), RMul(RMul(R(2), h), RMul(RMul(R(2), h), RMul(R(2), h)))),
         RMul(R(-10), RMul(c0, h))), (((2 * n3) * ((2 * n3) * ((2 * n3) * (2 * n3)))) * ((-10) *
         (n1 * n3))), D6)
  BY <1>9, <1>16, <1>p4x2, OverMul
<1>18. IsOver(RMul(RMul(R(2), h), RMul(RMul(R(2), h), RMul(RMul(R(2), h), RMul(RMul(R(2), h),
         RMul(R(2), h))))), ((2 * n3) * ((2 * n3) * ((2 * n3) * ((2 * n3) * (2 * n3))))), D5)
  BY <1>6, <1>9, <1>p1x4, OverMul
<1>19. IsOver(RMul(c0, RMul(RMul(R(2), h), RMul(RMul(R(2), h), RMul(RMul(R(2), h), RMul(RMul(R(2),
         h), RMul(R(2), h)))))), (n1 * ((2 * n3) * ((2 * n3) * ((2 * n3) * ((2 * n3) * (2 *
         n3)))))), D6)
  BY <1>a, <1>18, <1>p1x5, OverMul
<1>20. IsOver(RMul(R(-5), RMul(c0, RMul(RMul(R(2), h), RMul(RMul(R(2), h), RMul(RMul(R(2), h),
         RMul(RMul(R(2), h), RMul(R(2), h))))))), ((-5) * (n1 * ((2 * n3) * ((2 * n3) * ((2 *
         n3) * ((2 * n3) * (2 * n3))))))), D6)
  BY <1>19, OverTimes
<1>21. (((2 * n3) * ((2 * n3) * ((2 * n3) * (2 * n3)))) * ((-10) * (n1 * n3))) = ((-5) * (n1 *
         ((2 * n3) * ((2 * n3) * ((2 * n3) * ((2 * n3) * (2 * n3)))))))
  BY <1>3 DEF D2, D3, D4, D5, D6
<1>22. RMul(RMul(RMul(R(2), h), RMul(RMul(R(2), h), RMul(RMul(R(2), h), RMul(R(2), h)))),
         RMul(R(-10), RMul(c0, h))) = RMul(R(-5), RMul(c0, RMul(RMul(R(2), h), RMul(RMul(R(2),
         h), RMul(RMul(R(2), h), RMul(RMul(R(2), h), RMul(R(2), h)))))))
  BY <1>17, <1>20, <1>21, OverEqual
<1>23. QED
  BY <1>14, <1>22 DEF (+), (-), (.), FirstOverLeadingLaw

SecondOverLeadingLaw(c0, c2, h) ==
    /\ R(2) (.) h (.) (R(2) (.) h (.) (R(2) (.) h)) (.) (R(3) (.) c2) = R(3) (.) (c2 (.)
             (R(2) (.) h (.) (R(2) (.) h (.) (R(2) (.) h))))
    /\ R(2) (.) h (.) (R(2) (.) h (.) (R(2) (.) h)) (.) (R(20) (.) (c0 (.) (h (.) h))) =
             R(5) (.) (c0 (.) (R(2) (.) h (.) (R(2) (.) h (.) (R(2) (.) h (.) (R(2) (.) h (.)
             (R(2) (.) h))))))

\* The third coefficient over the leading one.
LEMMA SecondOverLeading ==
  ASSUME NEW c0 \in Rat, NEW c2 \in Rat, NEW h \in Rat
  PROVE  SecondOverLeadingLaw(c0, c2, h)
<1> DEFINE F == [i \in 1 .. 3 |-> IF i = 1 THEN c0 ELSE IF i = 2 THEN c2 ELSE h]
<1>1. F \in [1 .. 3 -> Rat] /\ F[1] = c0 /\ F[2] = c2 /\ F[3] = h
  OBVIOUS
<1> HIDE DEF F
<1>2. PICK D \in Int \ {0}, G \in [1 .. 3 -> Int] : \A i \in 1 .. 3 : Is(F[i], G[i], D)
  BY <1>1, CommonDenominator DEF AllOver
<1> DEFINE n1 == G[1]
           n2 == G[2]
           n3 == G[3]
           D2 == D * D
           D3 == D2 * D
           D4 == D3 * D
           D5 == D4 * D
           D6 == D5 * D
<1>3. n1 \in Int /\ n2 \in Int /\ n3 \in Int
  BY <1>2
<1>a. IsOver(c0, n1, D)
  BY <1>1, <1>2 DEF IsOver
<1>b. IsOver(c2, n2, D)
  BY <1>1, <1>2 DEF IsOver
<1>c. IsOver(h, n3, D)
  BY <1>1, <1>2 DEF IsOver
<1>4. D2 \in Int \ {0} /\ D3 \in Int \ {0} /\ D4 \in Int \ {0} /\ D5 \in Int \ {0}
      /\ D6 \in Int \ {0}
  BY NonZero
<1>p1x1. D2 = D * D
  OBVIOUS
<1>p1x2. D3 = D * D2
  OBVIOUS
<1>p1x3. D4 = D * D3
  OBVIOUS
<1>p1x4. D5 = D * D4
  OBVIOUS
<1>p1x5. D6 = D * D5
  OBVIOUS
<1>p3x1. D4 = D3 * D
  OBVIOUS
<1>p3x3. D6 = D3 * D3
  OBVIOUS
<1> HIDE DEF n1, n2, n3, D2, D3, D4, D5, D6
<1>5. IsOver(RMul(R(3), c2), (3 * n2), D)
  BY <1>b, OverTimes
<1>6. IsOver(RMul(R(2), h), (2 * n3), D)
  BY <1>c, OverTimes
<1>7. IsOver(RMul(RMul(R(2), h), RMul(R(2), h)), ((2 * n3) * (2 * n3)), D2)
  BY <1>6, <1>p1x1, OverMul
<1>8. IsOver(RMul(RMul(R(2), h), RMul(RMul(R(2), h), RMul(R(2), h))), ((2 * n3) * ((2 * n3) * (2 *
         n3))), D3)
  BY <1>6, <1>7, <1>p1x2, OverMul
<1>9. IsOver(RMul(RMul(RMul(R(2), h), RMul(RMul(R(2), h), RMul(R(2), h))), RMul(R(3), c2)), (((2 *
         n3) * ((2 * n3) * (2 * n3))) * (3 * n2)), D4)
  BY <1>8, <1>5, <1>p3x1, OverMul
<1>10. IsOver(RMul(c2, RMul(RMul(R(2), h), RMul(RMul(R(2), h), RMul(R(2), h)))), (n2 * ((2 * n3) *
         ((2 * n3) * (2 * n3)))), D4)
  BY <1>b, <1>8, <1>p1x3, OverMul
<1>11. IsOver(RMul(R(3), RMul(c2, RMul(RMul(R(2), h), RMul(RMul(R(2), h), RMul(R(2), h))))), (3 *
         (n2 * ((2 * n3) * ((2 * n3) * (2 * n3))))), D4)
  BY <1>10, OverTimes
<1>12. (((2 * n3) * ((2 * n3) * (2 * n3))) * (3 * n2)) = (3 * (n2 * ((2 * n3) * ((2 * n3) * (2 *
         n3)))))
  BY <1>3 DEF D2, D3, D4, D5, D6
<1>13. RMul(RMul(RMul(R(2), h), RMul(RMul(R(2), h), RMul(R(2), h))), RMul(R(3), c2)) = RMul(R(3),
         RMul(c2, RMul(RMul(R(2), h), RMul(RMul(R(2), h), RMul(R(2), h)))))
  BY <1>9, <1>11, <1>12, OverEqual
<1>14. IsOver(RMul(h, h), (n3 * n3), D2)
  BY <1>c, <1>p1x1, OverMul
<1>15. IsOver(RMul(c0, RMul(h, h)), (n1 * (n3 * n3)), D3)
  BY <1>a, <1>14, <1>p1x2, OverMul
<1>16. IsOver(RMul(R(20), RMul(c0, RMul(h, h))), (20 * (n1 * (n3 * n3))), D3)
  BY <1>15, OverTimes
<1>17. IsOver(RMul(RMul(RMul(R(2), h), RMul(RMul(R(2), h), RMul(R(2), h))), RMul(R(20), RMul(c0,
         RMul(h, h)))), (((2 * n3) * ((2 * n3) * (2 * n3))) * (20 * (n1 * (n3 * n3)))), D6)
  BY <1>8, <1>16, <1>p3x3, OverMul
<1>18. IsOver(RMul(RMul(R(2), h), RMul(RMul(R(2), h), RMul(RMul(R(2), h), RMul(R(2), h)))), ((2 *
         n3) * ((2 * n3) * ((2 * n3) * (2 * n3)))), D4)
  BY <1>6, <1>8, <1>p1x3, OverMul
<1>19. IsOver(RMul(RMul(R(2), h), RMul(RMul(R(2), h), RMul(RMul(R(2), h), RMul(RMul(R(2), h),
         RMul(R(2), h))))), ((2 * n3) * ((2 * n3) * ((2 * n3) * ((2 * n3) * (2 * n3))))), D5)
  BY <1>6, <1>18, <1>p1x4, OverMul
<1>20. IsOver(RMul(c0, RMul(RMul(R(2), h), RMul(RMul(R(2), h), RMul(RMul(R(2), h), RMul(RMul(R(2),
         h), RMul(R(2), h)))))), (n1 * ((2 * n3) * ((2 * n3) * ((2 * n3) * ((2 * n3) * (2 *
         n3)))))), D6)
  BY <1>a, <1>19, <1>p1x5, OverMul
<1>21. IsOver(RMul(R(5), RMul(c0, RMul(RMul(R(2), h), RMul(RMul(R(2), h), RMul(RMul(R(2), h),
         RMul(RMul(R(2), h), RMul(R(2), h))))))), (5 * (n1 * ((2 * n3) * ((2 * n3) * ((2 * n3) *
         ((2 * n3) * (2 * n3))))))), D6)
  BY <1>20, OverTimes
<1>22. (((2 * n3) * ((2 * n3) * (2 * n3))) * (20 * (n1 * (n3 * n3)))) = (5 * (n1 * ((2 * n3) *
         ((2 * n3) * ((2 * n3) * ((2 * n3) * (2 * n3)))))))
  BY <1>3 DEF D2, D3, D4, D5, D6
<1>23. RMul(RMul(RMul(R(2), h), RMul(RMul(R(2), h), RMul(R(2), h))), RMul(R(20), RMul(c0, RMul(h,
         h)))) = RMul(R(5), RMul(c0, RMul(RMul(R(2), h), RMul(RMul(R(2), h), RMul(RMul(R(2), h),
         RMul(RMul(R(2), h), RMul(R(2), h)))))))
  BY <1>17, <1>21, <1>22, OverEqual
<1>24. QED
  BY <1>13, <1>23 DEF (+), (-), (.), SecondOverLeadingLaw

\* The middle of the segment is where the jerk has its extremum.
LEMMA JerkMiddle ==
  ASSUME NEW c0 \in Rat, NEW c1 \in Rat, NEW h \in Rat
  PROVE  R(2) (.) RNeg(R(24) (.) c1) = R(-24) (.) (R(2) (.) c1)
         /\ R(-24) (.) (R(-10) (.) (c0 (.) h)) = R(2) (.) (h (.) (R(2) (.) (R(60) (.) c0)))
<1> DEFINE F == [i \in 1 .. 3 |-> IF i = 1 THEN c0 ELSE IF i = 2 THEN c1 ELSE h]
<1>1. F \in [1 .. 3 -> Rat] /\ F[1] = c0 /\ F[2] = c1 /\ F[3] = h
  OBVIOUS
<1> HIDE DEF F
<1>2. PICK D \in Int \ {0}, G \in [1 .. 3 -> Int] : \A i \in 1 .. 3 : Is(F[i], G[i], D)
  BY <1>1, CommonDenominator DEF AllOver
<1> DEFINE n1 == G[1]
           n2 == G[2]
           n3 == G[3]
           D2 == D * D
<1>3. n1 \in Int /\ n2 \in Int /\ n3 \in Int
  BY <1>2
<1>a. IsOver(c0, n1, D)
  BY <1>1, <1>2 DEF IsOver
<1>b. IsOver(c1, n2, D)
  BY <1>1, <1>2 DEF IsOver
<1>c. IsOver(h, n3, D)
  BY <1>1, <1>2 DEF IsOver
<1>4. D2 \in Int \ {0}
  BY NonZero
<1>p1x1. D2 = D * D
  OBVIOUS
<1> HIDE DEF n1, n2, n3, D2
<1>5. IsOver(RMul(R(24), c1), (24 * n2), D)
  BY <1>b, OverTimes
<1>6. IsOver(RNeg(RMul(R(24), c1)), (-(24 * n2)), D)
  BY <1>5, OverNeg
<1>7. IsOver(RMul(R(2), RNeg(RMul(R(24), c1))), (2 * (-(24 * n2))), D)
  BY <1>6, OverTimes
<1>8. IsOver(RMul(R(2), c1), (2 * n2), D)
  BY <1>b, OverTimes
<1>9. IsOver(RMul(R(-24), RMul(R(2), c1)), ((-24) * (2 * n2)), D)
  BY <1>8, OverTimes
<1>10. (2 * (-(24 * n2))) = ((-24) * (2 * n2))
  BY <1>3 DEF D2
<1>11. RMul(R(2), RNeg(RMul(R(24), c1))) = RMul(R(-24), RMul(R(2), c1))
  BY <1>7, <1>9, <1>10, OverEqual
<1>12. IsOver(RMul(c0, h), (n1 * n3), D2)
  BY <1>a, <1>c, <1>p1x1, OverMul
<1>13. IsOver(RMul(R(-10), RMul(c0, h)), ((-10) * (n1 * n3)), D2)
  BY <1>12, OverTimes
<1>14. IsOver(RMul(R(-24), RMul(R(-10), RMul(c0, h))), ((-24) * ((-10) * (n1 * n3))), D2)
  BY <1>13, OverTimes
<1>15. IsOver(RMul(R(60), c0), (60 * n1), D)
  BY <1>a, OverTimes
<1>16. IsOver(RMul(R(2), RMul(R(60), c0)), (2 * (60 * n1)), D)
  BY <1>15, OverTimes
<1>17. IsOver(RMul(h, RMul(R(2), RMul(R(60), c0))), (n3 * (2 * (60 * n1))), D2)
  BY <1>c, <1>16, <1>p1x1, OverMul
<1>18. IsOver(RMul(R(2), RMul(h, RMul(R(2), RMul(R(60), c0)))), (2 * (n3 * (2 * (60 * n1)))), D2)
  BY <1>17, OverTimes
<1>19. ((-24) * ((-10) * (n1 * n3))) = (2 * (n3 * (2 * (60 * n1))))
  BY <1>3 DEF D2
<1>20. RMul(R(-24), RMul(R(-10), RMul(c0, h))) = RMul(R(2), RMul(h, RMul(R(2), RMul(R(60), c0))))
  BY <1>14, <1>18, <1>19, OverEqual
<1>21. QED
  BY <1>11, <1>20 DEF (+), (-), (.)

\* The zeros of the jerk are at a third of the square of half the segment.
JerkZerosLaw(c0, c2, h, s) ==
    /\ R(60) (.) c0 (.) (R(3) (.) s) = R(3) (.) (s (.) (R(60) (.) c0))
    /\ R(3) (.) (R(6) (.) c2) = R(6) (.) (R(3) (.) c2)
    /\ R(6) (.) (R(20) (.) (c0 (.) (h (.) h))) = R(60) (.) c0 (.) (R(2) (.) (h (.) h))

\* The square of the distance of the zeros of the jerk from the middle.
LEMMA JerkZeros ==
  ASSUME NEW c0 \in Rat, NEW c2 \in Rat, NEW h \in Rat, NEW s \in Rat
  PROVE  JerkZerosLaw(c0, c2, h, s)
<1> DEFINE F == [i \in 1 .. 4 |-> IF i = 1 THEN c0 ELSE IF i = 2 THEN c2 ELSE IF i =
         3 THEN h ELSE s]
<1>1. F \in [1 .. 4 -> Rat] /\ F[1] = c0 /\ F[2] = c2 /\ F[3] = h /\ F[4] = s
  OBVIOUS
<1> HIDE DEF F
<1>2. PICK D \in Int \ {0}, G \in [1 .. 4 -> Int] : \A i \in 1 .. 4 : Is(F[i], G[i], D)
  BY <1>1, CommonDenominator DEF AllOver
<1> DEFINE n1 == G[1]
           n2 == G[2]
           n3 == G[3]
           n4 == G[4]
           D2 == D * D
           D3 == D2 * D
<1>3. n1 \in Int /\ n2 \in Int /\ n3 \in Int /\ n4 \in Int
  BY <1>2
<1>a. IsOver(c0, n1, D)
  BY <1>1, <1>2 DEF IsOver
<1>b. IsOver(c2, n2, D)
  BY <1>1, <1>2 DEF IsOver
<1>c. IsOver(h, n3, D)
  BY <1>1, <1>2 DEF IsOver
<1>d. IsOver(s, n4, D)
  BY <1>1, <1>2 DEF IsOver
<1>4. D2 \in Int \ {0} /\ D3 \in Int \ {0}
  BY NonZero
<1>p1x1. D2 = D * D
  OBVIOUS
<1>p1x2. D3 = D * D2
  OBVIOUS
<1> HIDE DEF n1, n2, n3, n4, D2, D3
<1>5. IsOver(RMul(R(3), s), (3 * n4), D)
  BY <1>d, OverTimes
<1>6. IsOver(RMul(R(60), c0), (60 * n1), D)
  BY <1>a, OverTimes
<1>7. IsOver(RMul(RMul(R(60), c0), RMul(R(3), s)), ((60 * n1) * (3 * n4)), D2)
  BY <1>6, <1>5, <1>p1x1, OverMul
<1>8. IsOver(RMul(s, RMul(R(60), c0)), (n4 * (60 * n1)), D2)
  BY <1>d, <1>6, <1>p1x1, OverMul
<1>9. IsOver(RMul(R(3), RMul(s, RMul(R(60), c0))), (3 * (n4 * (60 * n1))), D2)
  BY <1>8, OverTimes
<1>10. ((60 * n1) * (3 * n4)) = (3 * (n4 * (60 * n1)))
  BY <1>3 DEF D2, D3
<1>11. RMul(RMul(R(60), c0), RMul(R(3), s)) = RMul(R(3), RMul(s, RMul(R(60), c0)))
  BY <1>7, <1>9, <1>10, OverEqual
<1>12. IsOver(RMul(R(6), c2), (6 * n2), D)
  BY <1>b, OverTimes
<1>13. IsOver(RMul(R(3), RMul(R(6), c2)), (3 * (6 * n2)), D)
  BY <1>12, OverTimes
<1>14. IsOver(RMul(R(3), c2), (3 * n2), D)
  BY <1>b, OverTimes
<1>15. IsOver(RMul(R(6), RMul(R(3), c2)), (6 * (3 * n2)), D)
  BY <1>14, OverTimes
<1>16. (3 * (6 * n2)) = (6 * (3 * n2))
  BY <1>3 DEF D2, D3
<1>17. RMul(R(3), RMul(R(6), c2)) = RMul(R(6), RMul(R(3), c2))
  BY <1>13, <1>15, <1>16, OverEqual
<1>18. IsOver(RMul(h, h), (n3 * n3), D2)
  BY <1>c, <1>p1x1, OverMul
<1>19. IsOver(RMul(c0, RMul(h, h)), (n1 * (n3 * n3)), D3)
  BY <1>a, <1>18, <1>p1x2, OverMul
<1>20. IsOver(RMul(R(20), RMul(c0, RMul(h, h))), (20 * (n1 * (n3 * n3))), D3)
  BY <1>19, OverTimes
<1>21. IsOver(RMul(R(6), RMul(R(20), RMul(c0, RMul(h, h)))), (6 * (20 * (n1 * (n3 * n3)))), D3)
  BY <1>20, OverTimes
<1>22. IsOver(RMul(R(2), RMul(h, h)), (2 * (n3 * n3)), D2)
  BY <1>18, OverTimes
<1>23. IsOver(RMul(RMul(R(60), c0), RMul(R(2), RMul(h, h))), ((60 * n1) * (2 * (n3 * n3))), D3)
  BY <1>6, <1>22, <1>p1x2, OverMul
<1>24. (6 * (20 * (n1 * (n3 * n3)))) = ((60 * n1) * (2 * (n3 * n3)))
  BY <1>3 DEF D2, D3
<1>25. RMul(R(6), RMul(R(20), RMul(c0, RMul(h, h)))) = RMul(RMul(R(60), c0), RMul(R(2), RMul(h,
         h)))
  BY <1>21, <1>23, <1>24, OverEqual
<1>26. QED
  BY <1>11, <1>17, <1>25 DEF (+), (-), (.), JerkZerosLaw

\* Three times that distance.
LEMMA ZeroDistance ==
  ASSUME NEW h \in Rat, NEW s \in Rat
  PROVE  R(3) (.) (h (.) h (-) s) = R(3) (.) (h (.) h) (-) R(3) (.) s
         /\ R(3) (.) (h (.) h) (-) R(2) (.) (h (.) h) = h (.) h
<1> DEFINE F == [i \in 1 .. 2 |-> IF i = 1 THEN h ELSE s]
<1>1. F \in [1 .. 2 -> Rat] /\ F[1] = h /\ F[2] = s
  OBVIOUS
<1> HIDE DEF F
<1>2. PICK D \in Int \ {0}, G \in [1 .. 2 -> Int] : \A i \in 1 .. 2 : Is(F[i], G[i], D)
  BY <1>1, CommonDenominator DEF AllOver
<1> DEFINE n1 == G[1]
           n2 == G[2]
           D2 == D * D
<1>3. n1 \in Int /\ n2 \in Int
  BY <1>2
<1>a. IsOver(h, n1, D)
  BY <1>1, <1>2 DEF IsOver
<1>b. IsOver(s, n2, D)
  BY <1>1, <1>2 DEF IsOver
<1>4. D2 \in Int \ {0}
  BY NonZero
<1>p1x1. D2 = D * D
  OBVIOUS
<1> HIDE DEF n1, n2, D2
<1>5. IsOver(RMul(h, h), (n1 * n1), D2)
  BY <1>a, <1>p1x1, OverMul
<1>6. IsOver(s, (n2 * D), D2)
  BY <1>b, <1>4, <1>p1x1, OverPad
<1>7. IsOver(RSub(RMul(h, h), s), ((n1 * n1) - (n2 * D)), D2)
  BY <1>5, <1>6, OverMinus
<1>8. IsOver(RMul(R(3), RSub(RMul(h, h), s)), (3 * ((n1 * n1) - (n2 * D))), D2)
  BY <1>7, OverTimes
<1>9. IsOver(RMul(R(3), RMul(h, h)), (3 * (n1 * n1)), D2)
  BY <1>5, OverTimes
<1>10. IsOver(RMul(R(3), s), (3 * n2), D)
  BY <1>b, OverTimes
<1>11. IsOver(RMul(R(3), s), ((3 * n2) * D), D2)
  BY <1>10, <1>4, <1>p1x1, OverPad
<1>12. IsOver(RSub(RMul(R(3), RMul(h, h)), RMul(R(3), s)), ((3 * (n1 * n1)) - ((3 * n2) * D)), D2)
  BY <1>9, <1>11, OverMinus
<1>13. (3 * ((n1 * n1) - (n2 * D))) = ((3 * (n1 * n1)) - ((3 * n2) * D))
  BY <1>3 DEF D2
<1>14. RMul(R(3), RSub(RMul(h, h), s)) = RSub(RMul(R(3), RMul(h, h)), RMul(R(3), s))
  BY <1>8, <1>12, <1>13, OverEqual
<1>15. IsOver(RMul(R(2), RMul(h, h)), (2 * (n1 * n1)), D2)
  BY <1>5, OverTimes
<1>16. IsOver(RSub(RMul(R(3), RMul(h, h)), RMul(R(2), RMul(h, h))), ((3 * (n1 * n1)) - (2 * (n1 *
         n1))), D2)
  BY <1>9, <1>15, OverMinus
<1>17. ((3 * (n1 * n1)) - (2 * (n1 * n1))) = (n1 * n1)
  BY <1>3 DEF D2
<1>18. RSub(RMul(R(3), RMul(h, h)), RMul(R(2), RMul(h, h))) = RMul(h, h)
  BY <1>16, <1>5, <1>17, OverEqual
<1>19. QED
  BY <1>14, <1>18 DEF (+), (-), (.)

SlopeLaw(c0, c2, h) ==
    /\ R(3) (.) (R(2) (.) (R(6) (.) c2 (-) R(60) (.) c0 (.) h (.) h)) = R(12) (.) (R(3) (.)
             c2) (-) R(360) (.) (c0 (.) (h (.) h))
    /\ R(12) (.) (R(20) (.) (c0 (.) (h (.) h))) (-) R(360) (.) (c0 (.) (h (.) h)) =
             R(-120) (.) (c0 (.) (h (.) h))

\* The slope of the acceleration at the zeros of the jerk.
LEMMA Slope ==
  ASSUME NEW c0 \in Rat, NEW c2 \in Rat, NEW h \in Rat
  PROVE  SlopeLaw(c0, c2, h)
<1> DEFINE F == [i \in 1 .. 3 |-> IF i = 1 THEN c0 ELSE IF i = 2 THEN c2 ELSE h]
<1>1. F \in [1 .. 3 -> Rat] /\ F[1] = c0 /\ F[2] = c2 /\ F[3] = h
  OBVIOUS
<1> HIDE DEF F
<1>2. PICK D \in Int \ {0}, G \in [1 .. 3 -> Int] : \A i \in 1 .. 3 : Is(F[i], G[i], D)
  BY <1>1, CommonDenominator DEF AllOver
<1> DEFINE n1 == G[1]
           n2 == G[2]
           n3 == G[3]
           D2 == D * D
           D3 == D2 * D
<1>3. n1 \in Int /\ n2 \in Int /\ n3 \in Int
  BY <1>2
<1>a. IsOver(c0, n1, D)
  BY <1>1, <1>2 DEF IsOver
<1>b. IsOver(c2, n2, D)
  BY <1>1, <1>2 DEF IsOver
<1>c. IsOver(h, n3, D)
  BY <1>1, <1>2 DEF IsOver
<1>4. D2 \in Int \ {0} /\ D3 \in Int \ {0}
  BY NonZero
<1>p1x1. D2 = D * D
  OBVIOUS
<1>p1x2. D3 = D * D2
  OBVIOUS
<1>p2x1. D3 = D2 * D
  OBVIOUS
<1> HIDE DEF n1, n2, n3, D2, D3
<1>5. IsOver(RMul(R(6), c2), (6 * n2), D)
  BY <1>b, OverTimes
<1>6. IsOver(RMul(R(6), c2), ((6 * n2) * D2), D3)
  BY <1>5, <1>4, <1>p1x2, OverPad
<1>7. IsOver(RMul(R(60), c0), (60 * n1), D)
  BY <1>a, OverTimes
<1>8. IsOver(RMul(RMul(R(60), c0), h), ((60 * n1) * n3), D2)
  BY <1>7, <1>c, <1>p1x1, OverMul
<1>9. IsOver(RMul(RMul(RMul(R(60), c0), h), h), (((60 * n1) * n3) * n3), D3)
  BY <1>8, <1>c, <1>p2x1, OverMul
<1>10. IsOver(RSub(RMul(R(6), c2), RMul(RMul(RMul(R(60), c0), h), h)), (((6 * n2) * D2) - (((60 *
         n1) * n3) * n3)), D3)
  BY <1>6, <1>9, OverMinus
<1>11. IsOver(RMul(R(2), RSub(RMul(R(6), c2), RMul(RMul(RMul(R(60), c0), h), h))), (2 * (((6 *
         n2) * D2) - (((60 * n1) * n3) * n3))), D3)
  BY <1>10, OverTimes
<1>12. IsOver(RMul(R(3), RMul(R(2), RSub(RMul(R(6), c2), RMul(RMul(RMul(R(60), c0), h), h)))), (3 *
         (2 * (((6 * n2) * D2) - (((60 * n1) * n3) * n3)))), D3)
  BY <1>11, OverTimes
<1>13. IsOver(RMul(R(3), c2), (3 * n2), D)
  BY <1>b, OverTimes
<1>14. IsOver(RMul(R(12), RMul(R(3), c2)), (12 * (3 * n2)), D)
  BY <1>13, OverTimes
<1>15. IsOver(RMul(R(12), RMul(R(3), c2)), ((12 * (3 * n2)) * D2), D3)
  BY <1>14, <1>4, <1>p1x2, OverPad
<1>16. IsOver(RMul(h, h), (n3 * n3), D2)
  BY <1>c, <1>p1x1, OverMul
<1>17. IsOver(RMul(c0, RMul(h, h)), (n1 * (n3 * n3)), D3)
  BY <1>a, <1>16, <1>p1x2, OverMul
<1>18. IsOver(RMul(R(360), RMul(c0, RMul(h, h))), (360 * (n1 * (n3 * n3))), D3)
  BY <1>17, OverTimes
<1>19. IsOver(RSub(RMul(R(12), RMul(R(3), c2)), RMul(R(360), RMul(c0, RMul(h, h)))), (((12 * (3 *
         n2)) * D2) - (360 * (n1 * (n3 * n3)))), D3)
  BY <1>15, <1>18, OverMinus
<1>20. (3 * (2 * (((6 * n2) * D2) - (((60 * n1) * n3) * n3)))) = (((12 * (3 * n2)) * D2) -
         (360 * (n1 * (n3 * n3))))
  BY <1>3 DEF D2, D3
<1>21. RMul(R(3), RMul(R(2), RSub(RMul(R(6), c2), RMul(RMul(RMul(R(60), c0), h), h)))) =
         RSub(RMul(R(12), RMul(R(3), c2)), RMul(R(360), RMul(c0, RMul(h, h))))
  BY <1>12, <1>19, <1>20, OverEqual
<1>22. IsOver(RMul(R(20), RMul(c0, RMul(h, h))), (20 * (n1 * (n3 * n3))), D3)
  BY <1>17, OverTimes
<1>23. IsOver(RMul(R(12), RMul(R(20), RMul(c0, RMul(h, h)))), (12 * (20 * (n1 * (n3 * n3)))), D3)
  BY <1>22, OverTimes
<1>24. IsOver(RSub(RMul(R(12), RMul(R(20), RMul(c0, RMul(h, h)))), RMul(R(360), RMul(c0, RMul(h,
         h)))), ((12 * (20 * (n1 * (n3 * n3)))) - (360 * (n1 * (n3 * n3)))), D3)
  BY <1>23, <1>18, OverMinus
<1>25. IsOver(RMul(R(-120), RMul(c0, RMul(h, h))), ((-120) * (n1 * (n3 * n3))), D3)
  BY <1>17, OverTimes
<1>26. ((12 * (20 * (n1 * (n3 * n3)))) - (360 * (n1 * (n3 * n3)))) = ((-120) * (n1 * (n3 * n3)))
  BY <1>3 DEF D2, D3
<1>27. RSub(RMul(R(12), RMul(R(20), RMul(c0, RMul(h, h)))), RMul(R(360), RMul(c0, RMul(h,
         h)))) = RMul(R(-120), RMul(c0, RMul(h, h)))
  BY <1>24, <1>25, <1>26, OverEqual
<1>28. QED
  BY <1>21, <1>27 DEF (+), (-), (.), SlopeLaw

\* Nine times a product.
LEMMA NineTimes ==
  ASSUME NEW x \in Rat, NEW z \in Rat
  PROVE  R(9) (.) (x (.) z) = R(3) (.) (R(3) (.) x (.) z)
<1> DEFINE F == [i \in 1 .. 2 |-> IF i = 1 THEN x ELSE z]
<1>1. F \in [1 .. 2 -> Rat] /\ F[1] = x /\ F[2] = z
  OBVIOUS
<1> HIDE DEF F
<1>2. PICK D \in Int \ {0}, G \in [1 .. 2 -> Int] : \A i \in 1 .. 2 : Is(F[i], G[i], D)
  BY <1>1, CommonDenominator DEF AllOver
<1> DEFINE n1 == G[1]
           n2 == G[2]
           D2 == D * D
<1>3. n1 \in Int /\ n2 \in Int
  BY <1>2
<1>a. IsOver(x, n1, D)
  BY <1>1, <1>2 DEF IsOver
<1>b. IsOver(z, n2, D)
  BY <1>1, <1>2 DEF IsOver
<1>4. D2 \in Int \ {0}
  BY NonZero
<1>p1x1. D2 = D * D
  OBVIOUS
<1> HIDE DEF n1, n2, D2
<1>5. IsOver(RMul(x, z), (n1 * n2), D2)
  BY <1>a, <1>b, <1>p1x1, OverMul
<1>6. IsOver(RMul(R(9), RMul(x, z)), (9 * (n1 * n2)), D2)
  BY <1>5, OverTimes
<1>7. IsOver(RMul(R(3), x), (3 * n1), D)
  BY <1>a, OverTimes
<1>8. IsOver(RMul(RMul(R(3), x), z), ((3 * n1) * n2), D2)
  BY <1>7, <1>b, <1>p1x1, OverMul
<1>9. IsOver(RMul(R(3), RMul(RMul(R(3), x), z)), (3 * ((3 * n1) * n2)), D2)
  BY <1>8, OverTimes
<1>10. (9 * (n1 * n2)) = (3 * ((3 * n1) * n2))
  BY <1>3 DEF D2
<1>11. RMul(R(9), RMul(x, z)) = RMul(R(3), RMul(RMul(R(3), x), z))
  BY <1>6, <1>9, <1>10, OverEqual
<1>12. QED
  BY <1>11 DEF (+), (-), (.)

\* A product with its factors multiplied.
LEMMA Factors ==
  ASSUME NEW r \in Rat, NEW s \in Rat
  PROVE  R(243) (.) (r (.) s (.) s) = R(3) (.) r (.) (R(9) (.) s) (.) (R(9) (.) s)
<1> DEFINE F == [i \in 1 .. 2 |-> IF i = 1 THEN r ELSE s]
<1>1. F \in [1 .. 2 -> Rat] /\ F[1] = r /\ F[2] = s
  OBVIOUS
<1> HIDE DEF F
<1>2. PICK D \in Int \ {0}, G \in [1 .. 2 -> Int] : \A i \in 1 .. 2 : Is(F[i], G[i], D)
  BY <1>1, CommonDenominator DEF AllOver
<1> DEFINE n1 == G[1]
           n2 == G[2]
           D2 == D * D
           D3 == D2 * D
<1>3. n1 \in Int /\ n2 \in Int
  BY <1>2
<1>a. IsOver(r, n1, D)
  BY <1>1, <1>2 DEF IsOver
<1>b. IsOver(s, n2, D)
  BY <1>1, <1>2 DEF IsOver
<1>4. D2 \in Int \ {0} /\ D3 \in Int \ {0}
  BY NonZero
<1>p1x1. D2 = D * D
  OBVIOUS
<1>p2x1. D3 = D2 * D
  OBVIOUS
<1> HIDE DEF n1, n2, D2, D3
<1>5. IsOver(RMul(r, s), (n1 * n2), D2)
  BY <1>a, <1>b, <1>p1x1, OverMul
<1>6. IsOver(RMul(RMul(r, s), s), ((n1 * n2) * n2), D3)
  BY <1>5, <1>b, <1>p2x1, OverMul
<1>7. IsOver(RMul(R(243), RMul(RMul(r, s), s)), (243 * ((n1 * n2) * n2)), D3)
  BY <1>6, OverTimes
<1>8. IsOver(RMul(R(9), s), (9 * n2), D)
  BY <1>b, OverTimes
<1>9. IsOver(RMul(R(3), r), (3 * n1), D)
  BY <1>a, OverTimes
<1>10. IsOver(RMul(RMul(R(3), r), RMul(R(9), s)), ((3 * n1) * (9 * n2)), D2)
  BY <1>9, <1>8, <1>p1x1, OverMul
<1>11. IsOver(RMul(RMul(RMul(R(3), r), RMul(R(9), s)), RMul(R(9), s)), (((3 * n1) * (9 * n2)) *
         (9 * n2)), D3)
  BY <1>10, <1>8, <1>p2x1, OverMul
<1>12. (243 * ((n1 * n2) * n2)) = (((3 * n1) * (9 * n2)) * (9 * n2))
  BY <1>3 DEF D2, D3
<1>13. RMul(R(243), RMul(RMul(r, s), s)) = RMul(RMul(RMul(R(3), r), RMul(R(9), s)), RMul(R(9), s))
  BY <1>7, <1>11, <1>12, OverEqual
<1>14. QED
  BY <1>13 DEF (+), (-), (.)

\* The square of the extreme acceleration.
ExtremeSquareLaw(c0, h, a) ==
    /\ R(243) (.) (R(3) (.) (R(2) (.) h (.) (R(2) (.) h (.) (R(2) (.) h (.) (R(2) (.) h))) (.)
             a)) = R(48) (.) (h (.) (h (.) (h (.) h))) (.) (R(243) (.) a)
    /\ c0 (.) (R(2) (.) h (.) (R(2) (.) h (.) (R(2) (.) h (.) (R(2) (.) h (.) (R(2) (.) h))))) =
             R(32) (.) (c0 (.) (h (.) h) (.) (h (.) (h (.) h)))

\* The square of the extreme acceleration, in the leading coefficient.
LEMMA ExtremeSquare ==
  ASSUME NEW c0 \in Rat, NEW h \in Rat, NEW a \in Rat
  PROVE  ExtremeSquareLaw(c0, h, a)
<1> DEFINE F == [i \in 1 .. 3 |-> IF i = 1 THEN c0 ELSE IF i = 2 THEN h ELSE a]
<1>1. F \in [1 .. 3 -> Rat] /\ F[1] = c0 /\ F[2] = h /\ F[3] = a
  OBVIOUS
<1> HIDE DEF F
<1>2. PICK D \in Int \ {0}, G \in [1 .. 3 -> Int] : \A i \in 1 .. 3 : Is(F[i], G[i], D)
  BY <1>1, CommonDenominator DEF AllOver
<1> DEFINE n1 == G[1]
           n2 == G[2]
           n3 == G[3]
           D2 == D * D
           D3 == D2 * D
           D4 == D3 * D
           D5 == D4 * D
           D6 == D5 * D
<1>3. n1 \in Int /\ n2 \in Int /\ n3 \in Int
  BY <1>2
<1>a. IsOver(c0, n1, D)
  BY <1>1, <1>2 DEF IsOver
<1>b. IsOver(h, n2, D)
  BY <1>1, <1>2 DEF IsOver
<1>c. IsOver(a, n3, D)
  BY <1>1, <1>2 DEF IsOver
<1>4. D2 \in Int \ {0} /\ D3 \in Int \ {0} /\ D4 \in Int \ {0} /\ D5 \in Int \ {0}
      /\ D6 \in Int \ {0}
  BY NonZero
<1>p1x1. D2 = D * D
  OBVIOUS
<1>p1x2. D3 = D * D2
  OBVIOUS
<1>p1x3. D4 = D * D3
  OBVIOUS
<1>p1x4. D5 = D * D4
  OBVIOUS
<1>p1x5. D6 = D * D5
  OBVIOUS
<1>p3x3. D6 = D3 * D3
  OBVIOUS
<1>p4x1. D5 = D4 * D
  OBVIOUS
<1> HIDE DEF n1, n2, n3, D2, D3, D4, D5, D6
<1>5. IsOver(RMul(R(2), h), (2 * n2), D)
  BY <1>b, OverTimes
<1>6. IsOver(RMul(RMul(R(2), h), RMul(R(2), h)), ((2 * n2) * (2 * n2)), D2)
  BY <1>5, <1>p1x1, OverMul
<1>7. IsOver(RMul(RMul(R(2), h), RMul(RMul(R(2), h), RMul(R(2), h))), ((2 * n2) * ((2 * n2) * (2 *
         n2))), D3)
  BY <1>5, <1>6, <1>p1x2, OverMul
<1>8. IsOver(RMul(RMul(R(2), h), RMul(RMul(R(2), h), RMul(RMul(R(2), h), RMul(R(2), h)))), ((2 *
         n2) * ((2 * n2) * ((2 * n2) * (2 * n2)))), D4)
  BY <1>5, <1>7, <1>p1x3, OverMul
<1>9. IsOver(RMul(RMul(RMul(R(2), h), RMul(RMul(R(2), h), RMul(RMul(R(2), h), RMul(R(2), h)))), a),
         (((2 * n2) * ((2 * n2) * ((2 * n2) * (2 * n2)))) * n3), D5)
  BY <1>8, <1>c, <1>p4x1, OverMul
<1>10. IsOver(RMul(R(3), RMul(RMul(RMul(R(2), h), RMul(RMul(R(2), h), RMul(RMul(R(2), h), RMul(R(2),
         h)))), a)), (3 * (((2 * n2) * ((2 * n2) * ((2 * n2) * (2 * n2)))) * n3)), D5)
  BY <1>9, OverTimes
<1>11. IsOver(RMul(R(243), RMul(R(3), RMul(RMul(RMul(R(2), h), RMul(RMul(R(2), h), RMul(RMul(R(2),
         h), RMul(R(2), h)))), a))), (243 * (3 * (((2 * n2) * ((2 * n2) * ((2 * n2) * (2 *
         n2)))) * n3))), D5)
  BY <1>10, OverTimes
<1>12. IsOver(RMul(R(243), a), (243 * n3), D)
  BY <1>c, OverTimes
<1>13. IsOver(RMul(h, h), (n2 * n2), D2)
  BY <1>b, <1>p1x1, OverMul
<1>14. IsOver(RMul(h, RMul(h, h)), (n2 * (n2 * n2)), D3)
  BY <1>b, <1>13, <1>p1x2, OverMul
<1>15. IsOver(RMul(h, RMul(h, RMul(h, h))), (n2 * (n2 * (n2 * n2))), D4)
  BY <1>b, <1>14, <1>p1x3, OverMul
<1>16. IsOver(RMul(R(48), RMul(h, RMul(h, RMul(h, h)))), (48 * (n2 * (n2 * (n2 * n2)))), D4)
  BY <1>15, OverTimes
<1>17. IsOver(RMul(RMul(R(48), RMul(h, RMul(h, RMul(h, h)))), RMul(R(243), a)), ((48 * (n2 * (n2 *
         (n2 * n2)))) * (243 * n3)), D5)
  BY <1>16, <1>12, <1>p4x1, OverMul
<1>18. (243 * (3 * (((2 * n2) * ((2 * n2) * ((2 * n2) * (2 * n2)))) * n3))) = ((48 * (n2 * (n2 *
         (n2 * n2)))) * (243 * n3))
  BY <1>3 DEF D2, D3, D4, D5, D6
<1>19. RMul(R(243), RMul(R(3), RMul(RMul(RMul(R(2), h), RMul(RMul(R(2), h), RMul(RMul(R(2), h),
         RMul(R(2), h)))), a))) = RMul(RMul(R(48), RMul(h, RMul(h, RMul(h, h)))), RMul(R(243), a))
  BY <1>11, <1>17, <1>18, OverEqual
<1>20. IsOver(RMul(RMul(R(2), h), RMul(RMul(R(2), h), RMul(RMul(R(2), h), RMul(RMul(R(2), h),
         RMul(R(2), h))))), ((2 * n2) * ((2 * n2) * ((2 * n2) * ((2 * n2) * (2 * n2))))), D5)
  BY <1>5, <1>8, <1>p1x4, OverMul
<1>21. IsOver(RMul(c0, RMul(RMul(R(2), h), RMul(RMul(R(2), h), RMul(RMul(R(2), h), RMul(RMul(R(2),
         h), RMul(R(2), h)))))), (n1 * ((2 * n2) * ((2 * n2) * ((2 * n2) * ((2 * n2) * (2 *
         n2)))))), D6)
  BY <1>a, <1>20, <1>p1x5, OverMul
<1>22. IsOver(RMul(c0, RMul(h, h)), (n1 * (n2 * n2)), D3)
  BY <1>a, <1>13, <1>p1x2, OverMul
<1>23. IsOver(RMul(RMul(c0, RMul(h, h)), RMul(h, RMul(h, h))), ((n1 * (n2 * n2)) * (n2 * (n2 *
         n2))), D6)
  BY <1>22, <1>14, <1>p3x3, OverMul
<1>24. IsOver(RMul(R(32), RMul(RMul(c0, RMul(h, h)), RMul(h, RMul(h, h)))), (32 * ((n1 * (n2 *
         n2)) * (n2 * (n2 * n2)))), D6)
  BY <1>23, OverTimes
<1>25. (n1 * ((2 * n2) * ((2 * n2) * ((2 * n2) * ((2 * n2) * (2 * n2)))))) = (32 * ((n1 * (n2 *
         n2)) * (n2 * (n2 * n2))))
  BY <1>3 DEF D2, D3, D4, D5, D6
<1>26. RMul(c0, RMul(RMul(R(2), h), RMul(RMul(R(2), h), RMul(RMul(R(2), h), RMul(RMul(R(2), h),
         RMul(R(2), h)))))) = RMul(R(32), RMul(RMul(c0, RMul(h, h)), RMul(h, RMul(h, h))))
  BY <1>21, <1>24, <1>25, OverEqual
<1>27. QED
  BY <1>19, <1>26 DEF (+), (-), (.), ExtremeSquareLaw

SquareOverLaw(w, h) ==
    R(48) (.) (h (.) (h (.) (h (.) h))) (.) (h (.) h (.) (R(-120) (.) w) (.) (R(-120) (.) w)) =
             R(675) (.) (R(32) (.) (w (.) (h (.) (h (.) h))) (.) (R(32) (.) (w (.) (h (.)
             (h (.) h)))))

\* Its square over the powers of the duration.
LEMMA SquareOver ==
  ASSUME NEW w \in Rat, NEW h \in Rat
  PROVE  SquareOverLaw(w, h)
<1> DEFINE F == [i \in 1 .. 2 |-> IF i = 1 THEN w ELSE h]
<1>1. F \in [1 .. 2 -> Rat] /\ F[1] = w /\ F[2] = h
  OBVIOUS
<1> HIDE DEF F
<1>2. PICK D \in Int \ {0}, G \in [1 .. 2 -> Int] : \A i \in 1 .. 2 : Is(F[i], G[i], D)
  BY <1>1, CommonDenominator DEF AllOver
<1> DEFINE n1 == G[1]
           n2 == G[2]
           D2 == D * D
           D3 == D2 * D
           D4 == D3 * D
           D5 == D4 * D
           D6 == D5 * D
           D7 == D6 * D
           D8 == D7 * D
<1>3. n1 \in Int /\ n2 \in Int
  BY <1>2
<1>a. IsOver(w, n1, D)
  BY <1>1, <1>2 DEF IsOver
<1>b. IsOver(h, n2, D)
  BY <1>1, <1>2 DEF IsOver
<1>4. D2 \in Int \ {0} /\ D3 \in Int \ {0} /\ D4 \in Int \ {0} /\ D5 \in Int \ {0}
      /\ D6 \in Int \ {0} /\ D7 \in Int \ {0} /\ D8 \in Int \ {0}
  BY NonZero
<1>p1x1. D2 = D * D
  OBVIOUS
<1>p1x2. D3 = D * D2
  OBVIOUS
<1>p1x3. D4 = D * D3
  OBVIOUS
<1>p2x1. D3 = D2 * D
  OBVIOUS
<1>p3x1. D4 = D3 * D
  OBVIOUS
<1>p4x4. D8 = D4 * D4
  OBVIOUS
<1> HIDE DEF n1, n2, D2, D3, D4, D5, D6, D7, D8
<1>5. IsOver(RMul(R(-120), w), ((-120) * n1), D)
  BY <1>a, OverTimes
<1>6. IsOver(RMul(h, h), (n2 * n2), D2)
  BY <1>b, <1>p1x1, OverMul
<1>7. IsOver(RMul(RMul(h, h), RMul(R(-120), w)), ((n2 * n2) * ((-120) * n1)), D3)
  BY <1>6, <1>5, <1>p2x1, OverMul
<1>8. IsOver(RMul(RMul(RMul(h, h), RMul(R(-120), w)), RMul(R(-120), w)), (((n2 * n2) * ((-120) *
         n1)) * ((-120) * n1)), D4)
  BY <1>7, <1>5, <1>p3x1, OverMul
<1>9. IsOver(RMul(h, RMul(h, h)), (n2 * (n2 * n2)), D3)
  BY <1>b, <1>6, <1>p1x2, OverMul
<1>10. IsOver(RMul(h, RMul(h, RMul(h, h))), (n2 * (n2 * (n2 * n2))), D4)
  BY <1>b, <1>9, <1>p1x3, OverMul
<1>11. IsOver(RMul(R(48), RMul(h, RMul(h, RMul(h, h)))), (48 * (n2 * (n2 * (n2 * n2)))), D4)
  BY <1>10, OverTimes
<1>12. IsOver(RMul(RMul(R(48), RMul(h, RMul(h, RMul(h, h)))), RMul(RMul(RMul(h, h), RMul(R(-120),
         w)), RMul(R(-120), w))), ((48 * (n2 * (n2 * (n2 * n2)))) * (((n2 * n2) * ((-120) *
         n1)) * ((-120) * n1))), D8)
  BY <1>11, <1>8, <1>p4x4, OverMul
<1>13. IsOver(RMul(w, RMul(h, RMul(h, h))), (n1 * (n2 * (n2 * n2))), D4)
  BY <1>a, <1>9, <1>p1x3, OverMul
<1>14. IsOver(RMul(R(32), RMul(w, RMul(h, RMul(h, h)))), (32 * (n1 * (n2 * (n2 * n2)))), D4)
  BY <1>13, OverTimes
<1>15. IsOver(RMul(RMul(R(32), RMul(w, RMul(h, RMul(h, h)))), RMul(R(32), RMul(w, RMul(h, RMul(h,
         h))))), ((32 * (n1 * (n2 * (n2 * n2)))) * (32 * (n1 * (n2 * (n2 * n2))))), D8)
  BY <1>14, <1>p4x4, OverMul
<1>16. IsOver(RMul(R(675), RMul(RMul(R(32), RMul(w, RMul(h, RMul(h, h)))), RMul(R(32), RMul(w,
         RMul(h, RMul(h, h)))))), (675 * ((32 * (n1 * (n2 * (n2 * n2)))) * (32 * (n1 * (n2 *
         (n2 * n2)))))), D8)
  BY <1>15, OverTimes
<1>17. ((48 * (n2 * (n2 * (n2 * n2)))) * (((n2 * n2) * ((-120) * n1)) * ((-120) * n1))) = (675 *
         ((32 * (n1 * (n2 * (n2 * n2)))) * (32 * (n1 * (n2 * (n2 * n2))))))
  BY <1>3 DEF D2, D3, D4, D5, D6, D7, D8
<1>18. RMul(RMul(R(48), RMul(h, RMul(h, RMul(h, h)))), RMul(RMul(RMul(h, h), RMul(R(-120), w)),
         RMul(R(-120), w))) = RMul(R(675), RMul(RMul(R(32), RMul(w, RMul(h, RMul(h, h)))),
         RMul(R(32), RMul(w, RMul(h, RMul(h, h))))))
  BY <1>12, <1>16, <1>17, OverEqual
<1>19. QED
  BY <1>18 DEF (+), (-), (.), SquareOverLaw

\* The square of the displacement.
LEMMA DistanceSquare ==
  ASSUME NEW d \in Rat
  PROVE  R(675) (.) (R(6) (.) d (.) (R(6) (.) d)) = R(243) (.) (R(100) (.) (d (.) d))
<1> DEFINE F == [i \in 1 .. 1 |-> d]
<1>1. F \in [1 .. 1 -> Rat] /\ F[1] = d
  OBVIOUS
<1> HIDE DEF F
<1>2. PICK D \in Int \ {0}, G \in [1 .. 1 -> Int] : \A i \in 1 .. 1 : Is(F[i], G[i], D)
  BY <1>1, CommonDenominator DEF AllOver
<1> DEFINE n1 == G[1]
           D2 == D * D
<1>3. n1 \in Int
  BY <1>2
<1>a. IsOver(d, n1, D)
  BY <1>1, <1>2 DEF IsOver
<1>4. D2 \in Int \ {0}
  BY NonZero
<1>p1x1. D2 = D * D
  OBVIOUS
<1> HIDE DEF n1, D2
<1>5. IsOver(RMul(R(6), d), (6 * n1), D)
  BY <1>a, OverTimes
<1>6. IsOver(RMul(RMul(R(6), d), RMul(R(6), d)), ((6 * n1) * (6 * n1)), D2)
  BY <1>5, <1>p1x1, OverMul
<1>7. IsOver(RMul(R(675), RMul(RMul(R(6), d), RMul(R(6), d))), (675 * ((6 * n1) * (6 * n1))), D2)
  BY <1>6, OverTimes
<1>8. IsOver(RMul(d, d), (n1 * n1), D2)
  BY <1>a, <1>p1x1, OverMul
<1>9. IsOver(RMul(R(100), RMul(d, d)), (100 * (n1 * n1)), D2)
  BY <1>8, OverTimes
<1>10. IsOver(RMul(R(243), RMul(R(100), RMul(d, d))), (243 * (100 * (n1 * n1))), D2)
  BY <1>9, OverTimes
<1>11. (675 * ((6 * n1) * (6 * n1))) = (243 * (100 * (n1 * n1)))
  BY <1>3 DEF D2
<1>12. RMul(R(675), RMul(RMul(R(6), d), RMul(R(6), d))) = RMul(R(243), RMul(R(100), RMul(d, d)))
  BY <1>7, <1>10, <1>11, OverEqual
<1>13. QED
  BY <1>12 DEF (+), (-), (.)

\* A displacement at a constant velocity has no leading coefficient.
LEMMA ConstantVelocity ==
  ASSUME NEW x \in Rat, NEW y \in Rat
  PROVE  R(12) (.) (x (-) y) (+) R(6) (.) ((y (-) x) (+) (y (-) x)) = Zero
<1> DEFINE F == [i \in 1 .. 2 |-> IF i = 1 THEN x ELSE y]
<1>1. F \in [1 .. 2 -> Rat] /\ F[1] = x /\ F[2] = y
  OBVIOUS
<1> HIDE DEF F
<1>2. PICK D \in Int \ {0}, G \in [1 .. 2 -> Int] : \A i \in 1 .. 2 : Is(F[i], G[i], D)
  BY <1>1, CommonDenominator DEF AllOver
<1> DEFINE n1 == G[1]
           n2 == G[2]
<1>3. n1 \in Int /\ n2 \in Int
  BY <1>2
<1>a. IsOver(x, n1, D)
  BY <1>1, <1>2 DEF IsOver
<1>b. IsOver(y, n2, D)
  BY <1>1, <1>2 DEF IsOver
<1> HIDE DEF n1, n2
<1>4. IsOver(RSub(x, y), (n1 - n2), D)
  BY <1>a, <1>b, OverMinus
<1>5. IsOver(RMul(R(12), RSub(x, y)), (12 * (n1 - n2)), D)
  BY <1>4, OverTimes
<1>6. IsOver(RSub(y, x), (n2 - n1), D)
  BY <1>b, <1>a, OverMinus
<1>7. IsOver(RAdd(RSub(y, x), RSub(y, x)), ((n2 - n1) + (n2 - n1)), D)
  BY <1>6, OverPlus
<1>8. IsOver(RMul(R(6), RAdd(RSub(y, x), RSub(y, x))), (6 * ((n2 - n1) + (n2 - n1))), D)
  BY <1>7, OverTimes
<1>9. IsOver(RAdd(RMul(R(12), RSub(x, y)), RMul(R(6), RAdd(RSub(y, x), RSub(y, x)))), ((12 * (n1 -
         n2)) + (6 * ((n2 - n1) + (n2 - n1)))), D)
  BY <1>5, <1>8, OverPlus
<1>10. IsOver(Zero, (0), D)
  BY OverZeroOne
<1>11. ((12 * (n1 - n2)) + (6 * ((n2 - n1) + (n2 - n1)))) = (0)
  BY <1>3
<1>12. RAdd(RMul(R(12), RSub(x, y)), RMul(R(6), RAdd(RSub(y, x), RSub(y, x)))) = Zero
  BY <1>9, <1>10, <1>11, OverEqual
<1>13. QED
  BY <1>12 DEF (+), (-), (.)
=============================================================================
