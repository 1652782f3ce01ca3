--------------------- MODULE TrajectoryGeneratorProofs ---------------------
(***************************************************************************)
(* The properties of the trajectory generator, for any number of           *)
(* components, any limits, any number of segments and of calls in any      *)
(* order.  Each part of the inductive invariant is a theorem of its own:   *)
(*                                                                         *)
(*   TypeOK          segments, clocks and indices are in their ranges      *)
(*   StatesAgree     the states of check_error are the history of errors   *)
(*   ClockBounded    a clock is at most a sample past its segment          *)
(*   AtEnd           who is done stands at the end of the path             *)
(*   Placed, Follows the output is where the clock was a sample ago        *)
(*   Measures        the times are those the limits impose                 *)
(*   EvenWaypoints, EvenTrajectory                                         *)
(*                   synchronised components have come equally far         *)
(*                                                                         *)
(* Sum is a recursive function, about which the prover knows nothing until *)
(* one is shown to exist.  The provers cannot instantiate an induction     *)
(* over an operator; they can use a set, so that every induction here goes *)
(* over the set of the numbers for which the statement holds, which is all *)
(* of Nat because a smallest number outside of it leads to a contradiction *)
(* (SetInduction, from the well-foundedness of <).                         *)
(***************************************************************************)
EXTENDS TrajectoryGenerator, SequenceTheorems, WellFoundedInduction, TLAPS

-----------------------------------------------------------------------------
(* Sums                                                                     *)

\* Induction over the natural numbers, for a set.
LEMMA SetInduction ==
  ASSUME NEW S, 0 \in S, \A n \in Nat : n \in S => n + 1 \in S
  PROVE  Nat \subseteq S
<1> SUFFICES ASSUME Nat \ S # {}
             PROVE  FALSE
  OBVIOUS
<1>1. PICK m \in Nat \ S : \A k \in Nat \ S : ~(<<k, m>> \in OpToRel(<, Nat))
  BY NatLessThanWellFounded, WFMin, Zenon
<1>2. \A k \in Nat \ S : ~(k < m)
  BY <1>1 DEF OpToRel
<1>3. m # 0 /\ m - 1 \in Nat /\ m - 1 \in S
  BY <1>2
<1>4. QED
  BY <1>3

Partial(f, first, last) ==
    CHOOSE g : g = [i \in first - 1 .. last |-> IF i < first THEN 0 ELSE g[i - 1] + f[i]]

\* A sum is the last of its partial sums.
LEMMA SumIsPartial ==
  ASSUME NEW f, NEW first, NEW last
  PROVE  Sum(f, first, last) = Partial(f, first, last)[last]
BY DEF Sum, Partial

\* The function of partial sums exists.
LEMMA PartialExists ==
  ASSUME NEW f, NEW first \in Nat \ {0}, NEW last \in Nat, last >= first - 1
  PROVE  Partial(f, first, last)
            = [i \in first - 1 .. last |-> IF i < first THEN 0 ELSE Partial(f, first, last)[i - 1] + f[i]]
<1> DEFINE Sums(g, n) == g = [i \in first - 1 .. first - 1 + n |-> IF i < first THEN 0 ELSE g[i - 1] + f[i]]
           S == {n \in Nat : \E g : Sums(g, n)}
<1>1. 0 \in S
  <2> DEFINE g == [i \in first - 1 .. first - 1 |-> 0]
  <2>1. Sums(g, 0)
    OBVIOUS
  <2>2. QED
    BY <2>1
<1>2. ASSUME NEW n \in Nat, n \in S
      PROVE  n + 1 \in S
  <2> DEFINE m == first - 1 + n
  <2>1. PICK g : Sums(g, n)
    BY <1>2
  <2> DEFINE h == [i \in first - 1 .. m + 1 |-> IF i = m + 1 THEN g[m] + f[m + 1] ELSE g[i]]
  <2>2. \A i \in first - 1 .. m : g[i] = IF i < first THEN 0 ELSE g[i - 1] + f[i]
    BY <2>1
  <2>3. \A i \in first - 1 .. m + 1 : h[i] = IF i < first THEN 0 ELSE h[i - 1] + f[i]
    <3> TAKE i \in first - 1 .. m + 1
    <3>1. CASE i = m + 1
      BY <3>1
    <3>2. CASE i # m + 1
      BY <3>2, <2>2
    <3>3. QED
      BY <3>1, <3>2
  <2>4. h = [i \in first - 1 .. m + 1 |-> IF i < first THEN 0 ELSE h[i - 1] + f[i]]
    <3> HIDE DEF m
    <3>1. h = [i \in first - 1 .. m + 1 |-> h[i]]
      OBVIOUS
    <3> HIDE DEF h
    <3>2. QED
      BY <3>1, <2>3
  <2>5. m + 1 = first - 1 + (n + 1)
    OBVIOUS
  <2> HIDE DEF h
  <2>6. Sums(h, n + 1)
    BY <2>4, <2>5
  <2>7. QED
    BY <2>6
<1> HIDE DEF S
<1>3. Nat \subseteq S
  BY <1>1, <1>2, SetInduction
<1> USE DEF S
<1>4. last - (first - 1) \in Nat
  OBVIOUS
<1>5. \E g : Sums(g, last - (first - 1))
  BY <1>3, <1>4
<1>6. first - 1 + (last - (first - 1)) = last
  OBVIOUS
<1>7. \E g : g = [i \in first - 1 .. last |-> IF i < first THEN 0 ELSE g[i - 1] + f[i]]
  BY <1>5, <1>6
<1>8. QED
  BY <1>7 DEF Partial

\* A sum of integers is an integer: that of nothing is zero, and every summand adds to it.
LEMMA SumFacts ==
  ASSUME NEW f, NEW first \in Nat \ {0}, NEW last \in Nat, last >= first - 1,
         \A i \in first .. last : f[i] \in Int
  PROVE  /\ Sum(f, first, first - 1) = 0
         /\ \A n \in first - 1 .. last : Sum(f, first, n) \in Int
         /\ \A n \in first .. last : Sum(f, first, n) = Sum(f, first, n - 1) + f[n]
<1>1. ASSUME NEW n \in Nat, n >= first - 1, n <= last
      PROVE  /\ Partial(f, first, n)[first - 1] = 0
             /\ \A i \in first .. n : Partial(f, first, n)[i] = Partial(f, first, n)[i - 1] + f[i]
  <2> DEFINE g == Partial(f, first, n)
  <2>1. g = [i \in first - 1 .. n |-> IF i < first THEN 0 ELSE g[i - 1] + f[i]]
    BY <1>1, PartialExists
  <2> HIDE DEF g
  <2>2. QED
    BY <1>1, <2>1 DEF g
<1> DEFINE S == {k \in Nat : first - 1 + k <= last =>
                   LET n == first - 1 + k
                   IN  /\ Sum(f, first, n) \in Int
                       /\ \A m \in n .. last : Partial(f, first, m)[n] = Sum(f, first, n)}
<1>2. 0 \in S
  <2>1. \A m \in first - 1 .. last : Partial(f, first, m)[first - 1] = 0
    BY <1>1
  <2>2. Sum(f, first, first - 1) = 0
    BY <2>1, SumIsPartial
  <2>3. QED
    BY <2>1, <2>2
<1>3. ASSUME NEW k \in Nat, k \in S
      PROVE  k + 1 \in S
  <2> SUFFICES ASSUME first - 1 + (k + 1) <= last
               PROVE  LET n == first - 1 + (k + 1)
                      IN  /\ Sum(f, first, n) \in Int
                          /\ \A m \in n .. last : Partial(f, first, m)[n] = Sum(f, first, n)
    OBVIOUS
  <2> DEFINE n == first - 1 + k
  <2>1. Sum(f, first, n) \in Int /\ \A m \in n .. last : Partial(f, first, m)[n] = Sum(f, first, n)
    BY <1>3
  <2>2. n + 1 \in first .. last /\ n + 1 = first - 1 + (k + 1) /\ n \in Nat
    OBVIOUS
  <2> HIDE DEF n
  <2>3. \A m \in n + 1 .. last : Partial(f, first, m)[n + 1] = Sum(f, first, n) + f[n + 1]
    <3> TAKE m \in n + 1 .. last
    <3>1. Partial(f, first, m)[n + 1] = Partial(f, first, m)[n] + f[n + 1]
      BY <1>1, <2>2
    <3>2. QED
      BY <2>1, <2>2, <3>1
  <2>4. Sum(f, first, n + 1) = Sum(f, first, n) + f[n + 1]
    BY <2>2, <2>3, SumIsPartial
  <2>5. f[n + 1] \in Int
    BY <2>2
  <2>6. QED
    BY <2>1, <2>2, <2>3, <2>4, <2>5
<1> HIDE DEF S
<1>4. Nat \subseteq S
  BY <1>2, <1>3, SetInduction
<1> USE DEF S
<1>5. ASSUME NEW n \in first - 1 .. last
      PROVE  /\ Sum(f, first, n) \in Int
             /\ \A m \in n .. last : Partial(f, first, m)[n] = Sum(f, first, n)
  <2>1. n - (first - 1) \in S /\ first - 1 + (n - (first - 1)) = n
    BY <1>4
  <2>2. QED
    BY <2>1
<1>6. ASSUME NEW n \in first .. last
      PROVE  Sum(f, first, n) = Sum(f, first, n - 1) + f[n]
  <2>1. Partial(f, first, n)[n] = Partial(f, first, n)[n - 1] + f[n]
    BY <1>1
  <2>2. n - 1 \in first - 1 .. last /\ n \in n - 1 .. last
    OBVIOUS
  <2>3. Partial(f, first, n)[n - 1] = Sum(f, first, n - 1)
    BY <1>5, <2>2
  <2>4. QED
    BY <2>1, <2>3, SumIsPartial
<1>7. Sum(f, first, first - 1) = 0
  BY <1>1, SumIsPartial
<1>8. QED
  BY <1>5, <1>6, <1>7

\* The same of a sum from the first summand on.
LEMMA SumFromOne ==
  ASSUME NEW f, NEW last \in Nat, \A i \in 1 .. last : f[i] \in Int
  PROVE  /\ Sum(f, 1, 0) = 0
         /\ \A n \in Nat : n <= last => Sum(f, 1, n) \in Int
         /\ \A n \in Nat : n + 1 <= last => Sum(f, 1, n + 1) = Sum(f, 1, n) + f[n + 1]
<1>0. PICK one \in Nat \ {0} : one = 1
  OBVIOUS
<1>1. /\ Sum(f, one, one - 1) = 0
      /\ \A n \in one - 1 .. last : Sum(f, one, n) \in Int
      /\ \A n \in one .. last : Sum(f, one, n) = Sum(f, one, n - 1) + f[n]
  <2>1. last >= one - 1 /\ \A i \in one .. last : f[i] \in Int
    BY <1>0
  <2>2. QED
    BY <2>1, SumFacts
<1>2. ASSUME NEW n \in Nat, n + 1 <= last
      PROVE  Sum(f, 1, n + 1) = Sum(f, 1, n) + f[n + 1]
  <2>1. n + 1 \in one .. last /\ (n + 1) - 1 = n
    BY <1>0, <1>2
  <2>2. QED
    BY <1>0, <1>1, <2>1
<1>3. QED
  BY <1>0, <1>1, <1>2

\* Of two sums the one with the larger summands is the larger.
LEMMA SumMonotonic ==
  ASSUME NEW f, NEW g, NEW first \in Nat \ {0}, NEW last \in Nat, last >= first - 1,
         \A i \in first .. last : f[i] \in Int /\ g[i] \in Int /\ f[i] <= g[i]
  PROVE  Sum(f, first, last) <= Sum(g, first, last)
<1> DEFINE S == {k \in Nat : first - 1 + k <= last =>
                   Sum(f, first, first - 1 + k) <= Sum(g, first, first - 1 + k)}
<1>1. 0 \in S
  BY SumFacts
<1>2. ASSUME NEW k \in Nat, k \in S
      PROVE  k + 1 \in S
  <2> SUFFICES ASSUME first - 1 + (k + 1) <= last
               PROVE  Sum(f, first, first - 1 + (k + 1)) <= Sum(g, first, first - 1 + (k + 1))
    OBVIOUS
  <2> DEFINE n == first - 1 + (k + 1)
  <2>1. n \in first .. last /\ n - 1 \in first - 1 .. last /\ n - 1 = first - 1 + k
    OBVIOUS
  <2>2. Sum(f, first, n - 1) <= Sum(g, first, n - 1)
    BY <1>2, <2>1
  <2> HIDE DEF n
  <2>3. /\ Sum(f, first, n) = Sum(f, first, n - 1) + f[n] /\ Sum(f, first, n - 1) \in Int
        /\ Sum(g, first, n) = Sum(g, first, n - 1) + g[n] /\ Sum(g, first, n - 1) \in Int
    BY <2>1, SumFacts
  <2>4. f[n] \in Int /\ g[n] \in Int /\ f[n] <= g[n]
    BY <2>1
  <2>5. Sum(f, first, n) <= Sum(g, first, n)
    BY <2>2, <2>3, <2>4
  <2>6. QED
    BY <2>5 DEF n
<1> HIDE DEF S
<1>3. Nat \subseteq S
  BY <1>1, <1>2, SetInduction
<1> USE DEF S
<1>4. last - (first - 1) \in S /\ first - 1 + (last - (first - 1)) = last
  BY <1>3
<1>5. QED
  BY <1>4

\* A product grows by the factor with each step of the other one.
LEMMA NextMultiple ==
  ASSUME NEW a \in Int, NEW b \in Int
  PROVE  (a + 1) * b = a * b + b /\ a * b \in Int
OBVIOUS

\* What every summand has more, the sum has more as often.
LEMMA SumShifted ==
  ASSUME NEW f, NEW g, NEW last \in Nat, NEW k \in Int,
         \A i \in 1 .. last : f[i] \in Int /\ g[i] = f[i] + k
  PROVE  Sum(g, 1, last) = Sum(f, 1, last) + last * k
<1>0. (\A i \in 1 .. last : f[i] \in Int) /\ (\A i \in 1 .. last : g[i] \in Int)
  OBVIOUS
<1> DEFINE S == {n \in Nat : n <= last => Sum(g, 1, n) = Sum(f, 1, n) + n * k}
<1>1. 0 \in S
  <2>1. Sum(g, 1, 0) = 0 /\ Sum(f, 1, 0) = 0
    BY <1>0, SumFromOne
  <2>2. QED
    BY <2>1
<1>2. ASSUME NEW n \in Nat, n \in S
      PROVE  n + 1 \in S
  <2> SUFFICES ASSUME n + 1 <= last
               PROVE  Sum(g, 1, n + 1) = Sum(f, 1, n + 1) + (n + 1) * k
    OBVIOUS
  <2>1. Sum(g, 1, n) = Sum(f, 1, n) + n * k
    BY <1>2
  <2>2. n + 1 \in 1 .. last
    OBVIOUS
  <2>3. /\ Sum(f, 1, n + 1) = Sum(f, 1, n) + f[n + 1]
        /\ Sum(g, 1, n + 1) = Sum(g, 1, n) + g[n + 1]
        /\ Sum(f, 1, n) \in Int
    BY <1>0, <2>2, SumFromOne
  <2>4. f[n + 1] \in Int /\ g[n + 1] = f[n + 1] + k
    BY <2>2
  <2>5. (n + 1) * k = n * k + k /\ n * k \in Int
    BY NextMultiple
  <2>6. QED
    BY <2>1, <2>2, <2>3, <2>4, <2>5
<1> HIDE DEF S
<1>3. Nat \subseteq S
  BY <1>1, <1>2, SetInduction
<1>4. QED
  BY <1>3 DEF S

\* A sum of multiples of a number is one.
LEMMA SumMultiple ==
  ASSUME NEW f, NEW last \in Nat, NEW d \in Int,
         \A i \in 1 .. last : \E q \in Int : f[i] = d * q
  PROVE  \E q \in Int : Sum(f, 1, last) = d * q
<1>1. \A i \in 1 .. last : f[i] \in Int
  OBVIOUS
<1> DEFINE S == {n \in Nat : n <= last => \E q \in Int : Sum(f, 1, n) = d * q}
<1>2. 0 \in S
  <2>1. Sum(f, 1, 0) = 0
    BY <1>1, SumFromOne
  <2>2. 0 = d * 0
    OBVIOUS
  <2>3. QED
    BY <2>1, <2>2
<1>3. ASSUME NEW n \in Nat, n \in S
      PROVE  n + 1 \in S
  <2> SUFFICES ASSUME n + 1 <= last
               PROVE  \E q \in Int : Sum(f, 1, n + 1) = d * q
    OBVIOUS
  <2>1. PICK p \in Int : Sum(f, 1, n) = d * p
    BY <1>3
  <2>2. n + 1 \in 1 .. last
    OBVIOUS
  <2>3. PICK q \in Int : f[n + 1] = d * q
    BY <2>2
  <2>4. Sum(f, 1, n + 1) = Sum(f, 1, n) + f[n + 1]
    BY <1>1, <2>2, SumFromOne
  <2>5. Sum(f, 1, n + 1) = d * p + d * q
    BY <2>1, <2>2, <2>3, <2>4
  <2>6. d * p + d * q = d * (p + q) /\ p + q \in Int
    OBVIOUS
  <2>7. QED
    BY <2>5, <2>6
<1> HIDE DEF S
<1>4. Nat \subseteq S
  BY <1>2, <1>3, SetInduction
<1>5. QED
  BY <1>4 DEF S

-----------------------------------------------------------------------------
(* The longest of the components                                            *)

\* A finite sequence of numbers has a largest.
LEMMA LargestExists ==
  ASSUME NEW n \in Nat \ {0}, NEW h, \A i \in 1 .. n : h[i] \in Int
  PROVE  \E m \in 1 .. n : \A i \in 1 .. n : h[i] <= h[m]
<1> DEFINE S == {k \in Nat : k + 1 <= n => \E m \in 1 .. k + 1 : \A i \in 1 .. k + 1 : h[i] <= h[m]}
<1>1. 0 \in S
  OBVIOUS
<1>2. ASSUME NEW k \in Nat, k \in S
      PROVE  k + 1 \in S
  <2> SUFFICES ASSUME k + 1 + 1 <= n
               PROVE  \E m \in 1 .. k + 1 + 1 : \A i \in 1 .. k + 1 + 1 : h[i] <= h[m]
    OBVIOUS
  <2>1. PICK m \in 1 .. k + 1 : \A i \in 1 .. k + 1 : h[i] <= h[m]
    BY <1>2
  <2>2. m \in 1 .. k + 1 + 1 /\ k + 1 + 1 \in 1 .. k + 1 + 1
    OBVIOUS
  <2>3. CASE h[m] <= h[k + 1 + 1]
    <3>1. \A i \in 1 .. k + 1 + 1 : h[i] <= h[k + 1 + 1]
      BY <2>1, <2>3
    <3>2. QED
      BY <2>2, <3>1
  <2>4. CASE ~(h[m] <= h[k + 1 + 1])
    <3>1. \A i \in 1 .. k + 1 + 1 : h[i] <= h[m]
      BY <2>1, <2>4
    <3>2. QED
      BY <2>2, <3>1
  <2>5. QED
    BY <2>3, <2>4
<1> HIDE DEF S
<1>3. Nat \subseteq S
  BY <1>1, <1>2, SetInduction
<1>4. n - 1 \in Nat /\ n - 1 + 1 = n
  OBVIOUS
<1>5. QED
  BY <1>3, <1>4 DEF S

\* Longest is the time of a component, and none has a longer one.
LEMMA LongestFacts ==
  ASSUME NEW segments \in Seq(Segment), NEW s \in DOMAIN segments
  PROVE  /\ \E c \in Components : Longest(segments, s) = segments[s].minimum_time[c]
         /\ \A c \in Components : segments[s].minimum_time[c] <= Longest(segments, s)
         /\ Longest(segments, s) \in Nat
<1> DEFINE h == segments[s].minimum_time
           T == {h[c] : c \in Components}
<1>1. h \in [Components -> Nat]
  <2>1. segments[s] \in Segment
    OBVIOUS
  <2>2. QED
    BY <2>1 DEF Segment
<1>2. Count \in Nat \ {0} /\ \A i \in 1 .. Count : h[i] \in Int
  BY <1>1, TimesAssumption DEF Components
<1>3. PICK m \in Components : \A i \in Components : h[i] <= h[m]
  BY <1>2, LargestExists DEF Components
<1>4. h[m] \in T /\ \A y \in T : h[m] >= y
  BY <1>1, <1>3
<1> HIDE DEF T
<1>5. Max(T) \in T /\ \A y \in T : Max(T) >= y
  BY <1>4 DEF Max
<1> USE DEF T
<1>6. Longest(segments, s) = Max(T)
  BY DEF Longest
<1>7. QED
  BY <1>1, <1>5, <1>6

-----------------------------------------------------------------------------
(* Segments                                                                 *)

\* A segment for each index is a list of segments.
LEMMA Listed ==
  ASSUME NEW segments \in Seq(Segment), NEW changed, changed = [s \in DOMAIN segments |-> changed[s]],
         \A s \in DOMAIN segments : changed[s] \in Segment
  PROVE  changed \in Seq(Segment) /\ Len(changed) = Len(segments) /\ DOMAIN changed = DOMAIN segments
         /\ DOMAIN segments = 1 .. Len(segments) /\ Len(segments) \in Nat
<1>1. DOMAIN segments = 1 .. Len(segments) /\ Len(segments) \in Nat
  BY LenProperties
<1>2. changed \in [1 .. Len(segments) -> Segment]
  BY <1>1
<1>3. changed \in Seq(Segment)
  BY <1>1, <1>2, SeqDef
<1>4. Len(changed) = Len(segments)
  BY <1>1, <1>2, <1>3
<1>5. QED
  BY <1>1, <1>2, <1>3, <1>4

\* No component is slower than the longest of each segment, so that no padding is negative.
LEMMA PaddingFacts ==
  ASSUME NEW segments \in Seq(Segment), NEW from \in DOMAIN segments, NEW s \in DOMAIN segments,
         NEW c \in Components
  PROVE  PaddingTime(segments, from, s, c) \in Nat
<1>1. DOMAIN segments = 1 .. Len(segments) /\ Len(segments) \in Nat
  BY LenProperties
<1> DEFINE f == [i \in DOMAIN segments |-> segments[i].minimum_time[c]]
           g == [i \in DOMAIN segments |-> Longest(segments, i)]
<1>2. \A i \in DOMAIN segments : segments[i].minimum_time[c] \in Nat
  <2> TAKE i \in DOMAIN segments
  <2>1. segments[i] \in Segment
    BY <1>1, ElementOfSeq
  <2>2. QED
    BY <2>1 DEF Segment
<1>3. \A i \in DOMAIN segments : f[i] \in Int /\ g[i] \in Int /\ f[i] <= g[i]
  BY <1>2, LongestFacts
<1> HIDE DEF f, g
<1>4. \A i \in from .. Len(segments) : f[i] \in Int /\ g[i] \in Int /\ f[i] <= g[i]
  BY <1>1, <1>3
<1>5. from \in Nat \ {0} /\ Len(segments) >= from - 1 /\ Len(segments) - from + 1 \in Nat \ {0}
  BY <1>1
<1>6. Sum(f, from, Len(segments)) <= Sum(g, from, Len(segments))
  BY <1>1, <1>4, <1>5, SumMonotonic
<1>7. Sum(f, from, Len(segments)) \in Int /\ Sum(g, from, Len(segments)) \in Int
  <2>1. Len(segments) \in from - 1 .. Len(segments)
    BY <1>1, <1>5
  <2>2. (\A i \in from .. Len(segments) : f[i] \in Int) /\ (\A i \in from .. Len(segments) : g[i] \in Int)
    BY <1>4
  <2>3. QED
    BY <1>1, <1>5, <2>1, <2>2, SumFacts
<1>8. TrajectoryMinimumTime(segments, from) - ComponentMinimumTime(segments, c, from) \in Nat
  BY <1>6, <1>7 DEF TrajectoryMinimumTime, ComponentMinimumTime, f, g
<1>9. \A a \in Nat, b \in Nat \ {0} : a \div b \in Nat
  OBVIOUS
<1>10. Longest(segments, s) - segments[s].minimum_time[c] \in Nat
  BY <1>2, LongestFacts
<1>11. QED
  BY <1>5, <1>8, <1>9, <1>10 DEF PaddingTime

\* ComputePaddingTime changes the padding only, of the segments a component has left.
LEMMA PaddedFacts ==
  ASSUME NEW segments \in Seq(Segment), NEW at \in [Components -> Nat \ {0}],
         NEW padded, padded = ComputePaddingTime(segments, at)
  PROVE  /\ padded \in Seq(Segment) /\ Len(padded) = Len(segments)
         /\ \A s \in 1 .. Len(segments) :
               /\ padded[s].minimum_time = segments[s].minimum_time
               /\ padded[s].current_time = segments[s].current_time
               /\ padded[s].fixed = segments[s].fixed
               /\ \A c \in Components : s >= at[c] =>
                     padded[s].padding_time[c] = PaddingTime(segments, at[c], s, c)
<1>1. DOMAIN segments = 1 .. Len(segments) /\ Len(segments) \in Nat
  BY LenProperties
<1>2. padded = [s \in DOMAIN segments |-> padded[s]]
  BY DEF ComputePaddingTime
<1>3. ASSUME NEW s \in DOMAIN segments
      PROVE  /\ padded[s] \in Segment
             /\ padded[s].minimum_time = segments[s].minimum_time
             /\ padded[s].current_time = segments[s].current_time
             /\ padded[s].fixed = segments[s].fixed
             /\ \A c \in Components : s >= at[c] =>
                   padded[s].padding_time[c] = PaddingTime(segments, at[c], s, c)
  <2> DEFINE padding == [c \in Components |-> IF s >= at[c] THEN PaddingTime(segments, at[c], s, c)
                                              ELSE segments[s].padding_time[c]]
  <2>1. segments[s] \in Segment
    BY <1>1, ElementOfSeq
  <2>2. padded[s] = [segments[s] EXCEPT !.padding_time = padding]
    BY DEF ComputePaddingTime
  <2>3. padding \in [Components -> Nat]
    <3> SUFFICES ASSUME NEW c \in Components
                 PROVE  padding[c] \in Nat
      OBVIOUS
    <3>1. CASE s >= at[c]
      <4>1. at[c] \in DOMAIN segments
        BY <1>1, <3>1
      <4>2. QED
        BY <3>1, <4>1, PaddingFacts
    <3>2. CASE ~(s >= at[c])
      BY <2>1, <3>2 DEF Segment
    <3>3. QED
      BY <3>1, <3>2
  <2>4. \A c \in Components : s >= at[c] => padding[c] = PaddingTime(segments, at[c], s, c)
    OBVIOUS
  <2> HIDE DEF padding
  <2>5. padded[s] = [fixed |-> segments[s].fixed, needed |-> segments[s].needed,
                     minimum_time |-> segments[s].minimum_time, padding_time |-> padding,
                     current_time |-> segments[s].current_time]
    BY <2>1, <2>2 DEF Segment
  <2>6. padded[s] \in Segment
    BY <2>1, <2>3, <2>5 DEF Segment
  <2>7. QED
    BY <2>4, <2>5, <2>6
<1>4. padded \in Seq(Segment) /\ Len(padded) = Len(segments)
  BY <1>2, <1>3, Listed
<1>5. QED
  BY <1>1, <1>3, <1>4

\* Rewinding changes the clocks only.
LEMMA RewoundFacts ==
  ASSUME NEW segments \in Seq(Segment), NEW rewound,
         rewound = [s \in DOMAIN segments |-> [segments[s] EXCEPT !.current_time = All(0)]]
  PROVE  /\ rewound \in Seq(Segment) /\ Len(rewound) = Len(segments)
         /\ \A s \in 1 .. Len(segments) :
               /\ rewound[s].minimum_time = segments[s].minimum_time
               /\ rewound[s].padding_time = segments[s].padding_time
               /\ rewound[s].fixed = segments[s].fixed
               /\ rewound[s].current_time = All(0)
<1>1. DOMAIN segments = 1 .. Len(segments) /\ Len(segments) \in Nat
  BY LenProperties
<1>2. All(0) \in [Components -> Nat]
  BY DEF All
<1>3. ASSUME NEW s \in DOMAIN segments
      PROVE  /\ rewound[s] \in Segment
             /\ rewound[s].minimum_time = segments[s].minimum_time
             /\ rewound[s].padding_time = segments[s].padding_time
             /\ rewound[s].fixed = segments[s].fixed
             /\ rewound[s].current_time = All(0)
  <2>1. segments[s] \in Segment
    BY <1>1, ElementOfSeq
  <2>2. rewound[s] = [fixed |-> segments[s].fixed, needed |-> segments[s].needed,
                      minimum_time |-> segments[s].minimum_time,
                      padding_time |-> segments[s].padding_time, current_time |-> All(0)]
    BY <2>1 DEF Segment
  <2>3. rewound[s] \in Segment
    BY <1>2, <2>1, <2>2 DEF Segment
  <2>4. QED
    BY <2>2, <2>3
<1>4. rewound \in Seq(Segment) /\ Len(rewound) = Len(segments)
  BY <1>3, Listed
<1>5. QED
  BY <1>1, <1>3, <1>4

\* Timing gives each segment the times it needs.
LEMMA TimedFacts ==
  ASSUME NEW points \in Seq(Segment), NEW timed, timed = [s \in DOMAIN points |-> Timed(points[s])]
  PROVE  /\ timed \in Seq(Segment) /\ Len(timed) = Len(points)
         /\ \A s \in 1 .. Len(points), c \in Components : timed[s].minimum_time[c] \in Durations
<1>1. DOMAIN points = 1 .. Len(points) /\ Len(points) \in Nat
  BY LenProperties
<1>2. ASSUME NEW s \in DOMAIN points
      PROVE  timed[s] \in Segment /\ \A c \in Components : timed[s].minimum_time[c] \in Durations
  <2>1. points[s] \in Segment
    BY <1>1, ElementOfSeq
  <2>2. timed[s] = [fixed |-> points[s].fixed, needed |-> points[s].needed,
                    minimum_time |-> points[s].needed,
                    padding_time |-> points[s].padding_time, current_time |-> points[s].current_time]
    BY <2>1 DEF Segment, Timed
  <2>3. points[s].needed \in [Components -> Durations] /\ Durations \subseteq Nat
    BY <2>1, TimesAssumption DEF Segment
  <2>4. points[s].needed \in [Components -> Nat]
    BY <2>3
  <2>5. timed[s] \in Segment
    BY <2>1, <2>2, <2>3, <2>4 DEF Segment
  <2>6. timed[s].minimum_time = points[s].needed
    BY <2>2
  <2>7. QED
    BY <2>3, <2>5, <2>6
<1>3. timed \in Seq(Segment) /\ Len(timed) = Len(points)
  BY <1>2, Listed
<1>4. QED
  BY <1>1, <1>2, <1>3

-----------------------------------------------------------------------------
(* compute()                                                                *)

Errors == [Components -> {"under", "band", "over"}]

\* A component is in a segment there is, or done, just behind the last.
LEMMA CurrentSegment ==
  ASSUME TypeOK, NEW c \in Components
  PROVE  /\ current_segement_[c] \in Nat \ {0} /\ Len(segment_params_) \in Nat
         /\ current_segement_[c] <= Len(segment_params_) + 1
         /\ DOMAIN segment_params_ = 1 .. Len(segment_params_)
         /\ Done(c) <=> current_segement_[c] \notin DOMAIN segment_params_
         /\ Done(c) <=> current_segement_[c] = Len(segment_params_) + 1
<1>1. segment_params_ \in Seq(Segment) /\ current_segement_[c] \in 1 .. Len(segment_params_) + 1
  BY DEF TypeOK
<1>2. DOMAIN segment_params_ = 1 .. Len(segment_params_) /\ Len(segment_params_) \in Nat
  BY <1>1, LenProperties
<1>3. QED
  BY <1>1, <1>2 DEF Done

\* What is recomputed is the segment that a component resumes in, if its time was not
\* given, and its clock starts again.
LEMMA RecomputedFacts ==
  ASSUME TypeOK, NEW e \in Errors, NEW minimum \in [Resuming(e) -> Durations],
         NEW segments, segments = RecomputeFromHere(Resuming(e), minimum)
  PROVE  /\ segments \in Seq(Segment) /\ Len(segments) = Len(segment_params_)
         /\ \A s \in DOMAIN segment_params_, c \in Components :
               /\ segments[s].padding_time[c] = segment_params_[s].padding_time[c]
               /\ c \in Resuming(e) /\ s = current_segement_[c] =>
                     /\ segments[s].current_time[c] = 0
                     /\ segments[s].minimum_time[c] \in {segment_params_[s].minimum_time[c]} \union Durations
               /\ ~(c \in Resuming(e) /\ s = current_segement_[c]) =>
                     /\ segments[s].current_time[c] = segment_params_[s].current_time[c]
                     /\ segments[s].minimum_time[c] = segment_params_[s].minimum_time[c]
<1>1. segment_params_ \in Seq(Segment) /\ DOMAIN segment_params_ = 1 .. Len(segment_params_)
  BY LenProperties DEF TypeOK
<1> DEFINE Restarts(c, s) == c \in Resuming(e) /\ s = current_segement_[c]
           Times(s) == [c \in Components |-> IF Restarts(c, s) /\ ~segment_params_[s].fixed
                                             THEN minimum[c] ELSE segment_params_[s].minimum_time[c]]
           Clocks(s) == [c \in Components |-> IF Restarts(c, s) THEN 0
                                              ELSE segment_params_[s].current_time[c]]
<1>2. segments = [s \in DOMAIN segment_params_ |->
                    [segment_params_[s] EXCEPT !.minimum_time = Times(s), !.current_time = Clocks(s)]]
  BY DEF RecomputeFromHere
<1>3. ASSUME NEW s \in DOMAIN segment_params_
      PROVE  /\ segments[s] \in Segment
             /\ segments[s].padding_time = segment_params_[s].padding_time
             /\ segments[s].minimum_time = Times(s) /\ segments[s].current_time = Clocks(s)
  <2>1. segment_params_[s] \in Segment
    BY <1>1, ElementOfSeq
  <2>2. Durations \subseteq Nat
    BY TimesAssumption
  <2>3. Times(s) \in [Components -> Nat] /\ Clocks(s) \in [Components -> Nat]
    BY <2>1, <2>2 DEF Segment
  <2> HIDE DEF Times, Clocks
  <2>4. segments[s] = [fixed |-> segment_params_[s].fixed, needed |-> segment_params_[s].needed,
                       minimum_time |-> Times(s), padding_time |-> segment_params_[s].padding_time,
                       current_time |-> Clocks(s)]
    BY <1>2, <2>1 DEF Segment
  <2>5. segments[s] \in Segment
    BY <2>1, <2>3, <2>4 DEF Segment
  <2>6. QED
    BY <2>4, <2>5
<1>4. segments \in Seq(Segment) /\ Len(segments) = Len(segment_params_)
  BY <1>1, <1>2, <1>3, Listed
<1>5. ASSUME NEW s \in DOMAIN segment_params_, NEW c \in Components
      PROVE  /\ Restarts(c, s) => /\ Clocks(s)[c] = 0
                                  /\ Times(s)[c] \in {segment_params_[s].minimum_time[c]} \union Durations
             /\ ~Restarts(c, s) => /\ Clocks(s)[c] = segment_params_[s].current_time[c]
                                   /\ Times(s)[c] = segment_params_[s].minimum_time[c]
  OBVIOUS
<1> HIDE DEF Times, Clocks
<1>6. QED
  BY <1>3, <1>4, <1>5

Moves(c, e)    == ~Done(c) /\ ~Blocked(c, e)
Restarts(c, e) == Moves(c, e) /\ state[c] = "Paused" /\ recompute_when_resumed

\* The clock with which a component takes its sample, and what its segment lasts then.
SampleClock(c, e) ==
    IF Restarts(c, e) THEN 0 ELSE segment_params_[current_segement_[c]].current_time[c]
SampleEnd(c) == SegmentDuration(segment_params_, current_segement_[c], c)

\* Who moves and who resumes, one by one.
LEMMA MovesFacts ==
  ASSUME NEW e
  PROVE  /\ Moving(e) = {c \in Components : Moves(c, e)}
         /\ Resuming(e) = {c \in Components : Restarts(c, e)}
BY DEF Moving, Resuming, Moves, Restarts

\* A component that moves takes a sample at its clock; at the end of the segment it goes
\* on to the next with what the sample was too late.
SampleOf(c, e) ==
    LET s == current_segement_[c]
        t == SampleClock(c, e)
        d == SegmentDuration(segment_params_', s, c)
    IN  /\ t \in Nat /\ d \in Nat
        /\ d < t => /\ current_segement_'[c] = s + 1
                    /\ output'[c] = [segment |-> s, time |-> d]
                    /\ s + 1 \in DOMAIN segment_params_ =>
                          segment_params_'[s + 1].current_time[c] = t - d
        /\ ~(d < t) => /\ current_segement_'[c] = s
                       /\ output'[c] = [segment |-> s, time |-> t]
                       /\ segment_params_'[s].current_time[c] = t + SampleTime

\* compute() changes the components that move, one by one.
LEMMA AdvanceFacts ==
  ASSUME TypeOK, NEW e \in Errors, Advance(e)
  PROVE  /\ segment_params_' \in Seq(Segment) /\ Len(segment_params_') = Len(segment_params_)
         /\ \A c \in Components : Moves(c, e) => SampleOf(c, e)
         /\ \A c \in Components : ~Moves(c, e) =>
               /\ current_segement_'[c] = current_segement_[c] /\ output'[c] = output[c]
               /\ \A s \in DOMAIN segment_params_ :
                     segment_params_'[s].current_time[c] = segment_params_[s].current_time[c]
         /\ \A c \in Components, s \in DOMAIN segment_params_ :
               /\ segment_params_'[s].padding_time[c] = segment_params_[s].padding_time[c]
               /\ Restarts(c, e) /\ s = current_segement_[c] =>
                     segment_params_'[s].minimum_time[c]
                        \in {segment_params_[s].minimum_time[c]} \union Durations
               /\ ~(Restarts(c, e) /\ s = current_segement_[c]) =>
                     segment_params_'[s].minimum_time[c] = segment_params_[s].minimum_time[c]
<1>1. PICK minimum \in [Resuming(e) -> Durations] :
         TakeSample(e, RecomputeFromHere(Resuming(e), minimum))
  BY DEF Advance
<1> DEFINE segments == RecomputeFromHere(Resuming(e), minimum)
<1>2. /\ segments \in Seq(Segment) /\ Len(segments) = Len(segment_params_)
      /\ \A s \in DOMAIN segment_params_, c \in Components :
            /\ segments[s].padding_time[c] = segment_params_[s].padding_time[c]
            /\ c \in Resuming(e) /\ s = current_segement_[c] =>
                  /\ segments[s].current_time[c] = 0
                  /\ segments[s].minimum_time[c] \in {segment_params_[s].minimum_time[c]} \union Durations
            /\ ~(c \in Resuming(e) /\ s = current_segement_[c]) =>
                  /\ segments[s].current_time[c] = segment_params_[s].current_time[c]
                  /\ segments[s].minimum_time[c] = segment_params_[s].minimum_time[c]
  BY RecomputedFacts
<1>3. TakeSample(e, segments)
  BY <1>1
<1> HIDE DEF segments
<1> DEFINE time(c)     == segments[current_segement_[c]].current_time[c]
           duration(c) == SegmentDuration(segments, current_segement_[c], c)
           Over(c)     == Moves(c, e) /\ duration(c) < time(c)
           Clock(s, c) ==
               CASE Moves(c, e) /\ s = current_segement_[c] -> time(c) + SampleTime
                 [] Over(c) /\ s = current_segement_[c] + 1 -> Carried(duration(c) - time(c))
                 [] OTHER -> segments[s].current_time[c]
           Clocks(s) == [c \in Components |-> Clock(s, c)]
<1>4. DOMAIN segment_params_ = 1 .. Len(segment_params_) /\ DOMAIN segments = DOMAIN segment_params_
  <2>1. segment_params_ \in Seq(Segment)
    BY DEF TypeOK
  <2>2. QED
    BY <1>2, <2>1, LenProperties
<1>5. \A s \in DOMAIN segments : segments[s] \in Segment
  BY <1>2, <1>4, ElementOfSeq
<1>6. \A c \in Components : Moves(c, e) => current_segement_[c] \in DOMAIN segments
  BY <1>4, CurrentSegment DEF Moves
<1>7. /\ segment_params_' = [s \in DOMAIN segments |-> [segments[s] EXCEPT !.current_time = Clocks(s)]]
      /\ current_segement_' = [c \in Components |->
            IF Over(c) THEN current_segement_[c] + 1 ELSE current_segement_[c]]
      /\ \A c \in Components : output'[c] =
            IF Moves(c, e) THEN [segment |-> current_segement_[c], time |-> Min({time(c), duration(c)})]
                           ELSE output[c]
  <2> DEFINE times     == [c \in Moving(e) |-> segments[current_segement_[c]].current_time[c]]
             durations == [c \in Moving(e) |-> SegmentDuration(segments, current_segement_[c], c)]
             IsOver(c) == c \in Moving(e) /\ durations[c] < times[c]
             NewClock(s, c) ==
                 CASE c \in Moving(e) /\ s = current_segement_[c] -> times[c] + SampleTime
                   [] IsOver(c) /\ s = current_segement_[c] + 1 -> Carried(durations[c] - times[c])
                   [] OTHER -> segments[s].current_time[c]
  <2>1. /\ segment_params_' = [s \in DOMAIN segments |->
              [segments[s] EXCEPT !.current_time = [c \in Components |-> NewClock(s, c)]]]
        /\ current_segement_' = [c \in Components |->
              IF IsOver(c) THEN current_segement_[c] + 1 ELSE current_segement_[c]]
        /\ output' = [c \in Components |->
              IF c \in Moving(e) THEN [segment |-> current_segement_[c], time |-> Min({times[c], durations[c]})]
                                 ELSE output[c]]
    BY <1>3 DEF TakeSample
  <2>2. \A c \in Components : c \in Moving(e) <=> Moves(c, e)
    BY MovesFacts
  <2>3. \A c \in Components : Moves(c, e) => times[c] = time(c) /\ durations[c] = duration(c)
    BY <2>2
  <2> HIDE DEF times, durations, time, duration
  <2>4. \A c \in Components : IsOver(c) <=> Over(c)
    BY <2>2, <2>3
  <2> HIDE DEF IsOver, Over
  <2>5. ASSUME NEW s \in DOMAIN segments, NEW c \in Components
        PROVE  NewClock(s, c) = Clock(s, c)
    <3>1. CASE Moves(c, e) /\ s = current_segement_[c]
      <4>1. s # current_segement_[c] + 1
        BY <3>1, CurrentSegment
      <4>2. QED
        BY <2>2, <2>3, <3>1, <4>1
    <3>2. CASE ~(Moves(c, e) /\ s = current_segement_[c]) /\ Over(c) /\ s = current_segement_[c] + 1
      <4>1. Moves(c, e)
        BY <3>2 DEF Over
      <4>2. QED
        BY <2>2, <2>3, <2>4, <3>2, <4>1
    <3>3. CASE /\ ~(Moves(c, e) /\ s = current_segement_[c])
               /\ ~(Over(c) /\ s = current_segement_[c] + 1)
      BY <2>2, <2>4, <3>3
    <3>4. QED
      BY <3>1, <3>2, <3>3
  <2> HIDE DEF NewClock, Clock
  <2>6. \A s \in DOMAIN segments : [c \in Components |-> NewClock(s, c)] = Clocks(s)
    BY <2>5
  <2> HIDE DEF Clocks
  <2>7. segment_params_' = [s \in DOMAIN segments |-> [segments[s] EXCEPT !.current_time = Clocks(s)]]
    BY <2>1, <2>6
  <2>8. QED
    BY <2>1, <2>2, <2>3, <2>4, <2>7
<1>8. \A c \in Components : Moves(c, e) => time(c) \in Nat /\ duration(c) \in Nat
  BY <1>5, <1>6 DEF Segment, SegmentDuration
<1>9. ASSUME NEW s \in DOMAIN segments
      PROVE  /\ Clocks(s) \in [Components -> Nat]
             /\ segment_params_'[s] \in Segment
             /\ segment_params_'[s].padding_time = segments[s].padding_time
             /\ segment_params_'[s].minimum_time = segments[s].minimum_time
             /\ segment_params_'[s].current_time = Clocks(s)
  <2>1. Clocks(s) \in [Components -> Nat]
    <3> SUFFICES ASSUME NEW c \in Components
                 PROVE  Clock(s, c) \in Nat
      OBVIOUS
    <3>1. segments[s].current_time[c] \in Nat /\ SampleTime \in Nat
      BY <1>5, TimesAssumption DEF Segment
    <3>2. Moves(c, e) => time(c) \in Nat /\ duration(c) \in Nat
      BY <1>8
    <3> HIDE DEF time, duration
    <3>3. QED
      BY <3>1, <3>2 DEF Carried
  <2> HIDE DEF Clocks
  <2>2. segment_params_'[s] = [fixed |-> segments[s].fixed, needed |-> segments[s].needed,
                     minimum_time |-> segments[s].minimum_time,
                     padding_time |-> segments[s].padding_time, current_time |-> Clocks(s)]
    BY <1>5, <1>7 DEF Segment
  <2>3. segment_params_'[s] \in Segment
    BY <1>5, <2>1, <2>2 DEF Segment
  <2>4. QED
    BY <2>1, <2>2, <2>3
<1>10. segment_params_' \in Seq(Segment) /\ Len(segment_params_') = Len(segment_params_)
  <2>1. segment_params_' = [s \in DOMAIN segments |-> segment_params_'[s]]
    BY <1>7
  <2>2. QED
    BY <1>2, <1>9, <2>1, Listed
<1>11. ASSUME NEW c \in Components, NEW s \in DOMAIN segment_params_
       PROVE  /\ segment_params_'[s].current_time[c] = Clock(s, c)
              /\ segment_params_'[s].padding_time[c] = segments[s].padding_time[c]
              /\ segment_params_'[s].minimum_time[c] = segments[s].minimum_time[c]
  <2> HIDE DEF Clock
  <2>1. Clocks(s)[c] = Clock(s, c)
    OBVIOUS
  <2> HIDE DEF Clocks
  <2>2. QED
    BY <1>4, <1>9, <2>1
<1>12. ASSUME NEW c \in Components, Moves(c, e)
       PROVE  SampleOf(c, e)
  <2> DEFINE n == current_segement_[c]
  <2>1. n \in DOMAIN segment_params_ /\ n \in Nat /\ n + 1 # n
    BY <1>4, <1>6, <1>12
  <2>2. time(c) = SampleClock(c, e)
    BY <1>2, <1>12, <2>1, MovesFacts DEF SampleClock
  <2>3. duration(c) = SegmentDuration(segment_params_', n, c)
    BY <1>11, <2>1 DEF SegmentDuration
  <2>4. time(c) \in Nat /\ duration(c) \in Nat
    BY <1>8, <1>12
  <2>5. Over(c) <=> duration(c) < time(c)
    BY <1>12
  <2> HIDE DEF time, duration, Over
  <2>6. Clock(n, c) = time(c) + SampleTime
    BY <1>12, <2>1
  <2>7. Over(c) => Clock(n + 1, c) = time(c) - duration(c)
    <3>1. Over(c) => Clock(n + 1, c) = Carried(duration(c) - time(c))
      BY <2>1
    <3>2. Carried(duration(c) - time(c)) = time(c) - duration(c)
      BY <2>4 DEF Carried
    <3>3. QED
      BY <3>1, <3>2
  <2>8. Min({time(c), duration(c)}) = IF duration(c) < time(c) THEN duration(c) ELSE time(c)
    BY <2>4 DEF Min
  <2>9. output'[c] = [segment |-> n, time |-> Min({time(c), duration(c)})]
    BY <1>7, <1>12
  <2>10. current_segement_'[c] = IF Over(c) THEN n + 1 ELSE n
    BY <1>7
  <2>11. segment_params_'[n].current_time[c] = time(c) + SampleTime
    BY <1>11, <2>1, <2>6
  <2>12. n + 1 \in DOMAIN segment_params_ =>
            segment_params_'[n + 1].current_time[c] = Clock(n + 1, c)
    BY <1>11
  <2> HIDE DEF Clock
  <2>13. QED
    BY <2>2, <2>3, <2>4, <2>5, <2>7, <2>8, <2>9, <2>10, <2>11, <2>12 DEF SampleOf
<1>13. ASSUME NEW c \in Components, ~Moves(c, e)
       PROVE  /\ current_segement_'[c] = current_segement_[c] /\ output'[c] = output[c]
              /\ \A s \in DOMAIN segment_params_ :
                    segment_params_'[s].current_time[c] = segment_params_[s].current_time[c]
  <2>1. ~Restarts(c, e) /\ ~Over(c)
    BY <1>13 DEF Restarts
  <2>2. \A s \in DOMAIN segment_params_ : Clock(s, c) = segment_params_[s].current_time[c]
    BY <1>2, <1>13, <2>1, MovesFacts
  <2>3. QED
    BY <1>7, <1>11, <1>13, <2>1, <2>2
<1>14. ASSUME NEW c \in Components, NEW s \in DOMAIN segment_params_
       PROVE  /\ segment_params_'[s].padding_time[c] = segment_params_[s].padding_time[c]
              /\ Restarts(c, e) /\ s = current_segement_[c] =>
                    segment_params_'[s].minimum_time[c]
                       \in {segment_params_[s].minimum_time[c]} \union Durations
              /\ ~(Restarts(c, e) /\ s = current_segement_[c]) =>
                    segment_params_'[s].minimum_time[c] = segment_params_[s].minimum_time[c]
  BY <1>2, <1>11, MovesFacts
<1>15. QED
  BY <1>10, <1>12, <1>13, <1>14

\* The flags that Advance sets.
LEMMA AdvanceFlags ==
  ASSUME NEW e \in Errors, Advance(e)
  PROVE  /\ velocity' = [c \in Components |->
               CASE Blocked(c, e) -> "zero" [] Moves(c, e) -> "path" [] OTHER -> velocity[c]]
         /\ state' = [c \in Components |->
               CASE Blocked(c, e) -> "Paused" [] Moves(c, e) -> "Running" [] OTHER -> state[c]]
         /\ previous_state' = [c \in Components |->
               IF tracking = "on" THEN Checked(c, e) ELSE previous_state[c]]
         /\ result' = (\A c \in Components : Done(c)) /\ fresh' = FALSE
         /\ elapsed' = [c \in Components |->
               IF Moves(c, e) /\ tracking = "never" THEN elapsed[c] + 1 ELSE elapsed[c]]
<1>1. PICK minimum \in [Resuming(e) -> Durations] :
         TakeSample(e, RecomputeFromHere(Resuming(e), minimum))
  BY DEF Advance
<1>2. /\ velocity' = [c \in Components |->
            CASE Blocked(c, e) -> "zero" [] c \in Moving(e) -> "path" [] OTHER -> velocity[c]]
      /\ state' = [c \in Components |->
            CASE Blocked(c, e) -> "Paused" [] c \in Moving(e) -> "Running" [] OTHER -> state[c]]
      /\ previous_state' = [c \in Components |->
            IF tracking = "on" THEN Checked(c, e) ELSE previous_state[c]]
      /\ result' = (\A c \in Components : Done(c)) /\ fresh' = FALSE
      /\ elapsed' = [c \in Components |->
            IF c \in Moving(e) /\ tracking = "never" THEN elapsed[c] + 1 ELSE elapsed[c]]
  BY <1>1 DEF TakeSample
<1>3. \A c \in Components : c \in Moving(e) <=> Moves(c, e)
  BY MovesFacts
<1>4. QED
  BY <1>2, <1>3

\* check_error pauses a component over the band, and one that has not come back under it.
LEMMA CheckedFacts ==
  ASSUME TypeOK, NEW e \in Errors, NEW c \in Components
  PROVE  /\ Checked(c, e) \in {"Running", "Paused"}
         /\ Checked(c, e) = "Paused" <=>
               e[c] = "over" \/ (e[c] # "under" /\ previous_state[c] = "Paused")
BY DEF TypeOK, Errors, Checked

\* The same for every component.
LEMMA AllFacts ==
  ASSUME NEW S, NEW v \in S
  PROVE  All(v) \in [Components -> S] /\ \A c \in Components : All(v)[c] = v
BY DEF All

\* There is a first component.
LEMMA OneComponent == 1 \in Components
BY TimesAssumption DEF Components

\* computeParameters() with the padding of every segment that is left.
LEMMA PreparedFacts ==
  ASSUME NEW segments \in Seq(Segment), NEW at \in [Components -> Nat \ {0}],
         ComputeParameters(ComputePaddingTime(segments, at))
  PROVE  /\ segment_params_' \in Seq(Segment) /\ Len(segment_params_') = Len(segments)
         /\ output' = All(Start) /\ velocity' = All("path")
         /\ \A s \in 1 .. Len(segments) :
               /\ segment_params_'[s].minimum_time = segments[s].minimum_time
               /\ segment_params_'[s].current_time = All(0)
               /\ \A c \in Components : s >= at[c] =>
                     segment_params_'[s].padding_time[c] = PaddingTime(segments, at[c], s, c)
<1> DEFINE padded == ComputePaddingTime(segments, at)
<1>1. /\ padded \in Seq(Segment) /\ Len(padded) = Len(segments)
      /\ \A s \in 1 .. Len(segments) :
            /\ padded[s].minimum_time = segments[s].minimum_time
            /\ \A c \in Components : s >= at[c] =>
                  padded[s].padding_time[c] = PaddingTime(segments, at[c], s, c)
  BY PaddedFacts
<1>2. ComputeParameters(padded)
  OBVIOUS
<1> HIDE DEF padded
<1>3. /\ segment_params_' = [s \in DOMAIN padded |-> [padded[s] EXCEPT !.current_time = All(0)]]
      /\ output' = All(Start) /\ velocity' = All("path")
  BY <1>2 DEF ComputeParameters
<1>4. /\ segment_params_' \in Seq(Segment) /\ Len(segment_params_') = Len(padded)
      /\ \A s \in 1 .. Len(padded) :
            /\ segment_params_'[s].minimum_time = padded[s].minimum_time
            /\ segment_params_'[s].padding_time = padded[s].padding_time
            /\ segment_params_'[s].current_time = All(0)
  BY <1>1, <1>3, RewoundFacts
<1>5. QED
  BY <1>1, <1>3, <1>4

\* What computeTimings() works on.
Points == IF options.pose THEN waypoints_ ELSE segment_params_
Origin == IF options.pose THEN All(1) ELSE current_segement_

\* computeTimings() gives the segments their times and their padding and rewinds them.
LEMMA ComputeTimingsFacts ==
  ASSUME TypeOK, ComputeTimings
  PROVE  /\ Origin \in [Components -> Nat \ {0}] /\ current_segement_' = Origin
         /\ segment_params_' \in Seq(Segment) /\ Len(segment_params_') = Len(Points)
         /\ output' = All(Start) /\ velocity' = All("path")
         /\ \E segments \in Seq(Segment) :
               /\ Len(segments) = Len(Points)
               /\ \A s \in 1 .. Len(Points) :
                     /\ segment_params_'[s].minimum_time = segments[s].minimum_time
                     /\ segment_params_'[s].current_time = All(0)
                     /\ \A c \in Components :
                           /\ segments[s].minimum_time[c] \in Durations
                           /\ s >= Origin[c] => segment_params_'[s].padding_time[c]
                                                 = PaddingTime(segments, Origin[c], s, c)
<1> DEFINE segments == [s \in DOMAIN Points |-> Timed(Points[s])]
<1>1. Points \in Seq(Segment) /\ Origin \in [Components -> Nat \ {0}]
  <2>1. All(1) \in [Components -> Nat \ {0}]
    BY DEF All
  <2>2. current_segement_ \in [Components -> Nat \ {0}]
    BY CurrentSegment DEF TypeOK
  <2>3. QED
    BY <2>1, <2>2 DEF TypeOK, Points, Origin
<1>2. current_segement_' = Origin /\ ComputeParameters(ComputePaddingTime(segments, Origin))
  BY DEF ComputeTimings, Points, Origin
<1>3. /\ segments \in Seq(Segment) /\ Len(segments) = Len(Points)
      /\ \A s \in 1 .. Len(Points), c \in Components : segments[s].minimum_time[c] \in Durations
  BY <1>1, TimedFacts
<1> HIDE DEF segments
<1>4. /\ segment_params_' \in Seq(Segment) /\ Len(segment_params_') = Len(segments)
      /\ output' = All(Start) /\ velocity' = All("path")
      /\ \A s \in 1 .. Len(segments) :
            /\ segment_params_'[s].minimum_time = segments[s].minimum_time
            /\ segment_params_'[s].current_time = All(0)
            /\ \A c \in Components : s >= Origin[c] =>
                  segment_params_'[s].padding_time[c] = PaddingTime(segments, Origin[c], s, c)
  BY <1>1, <1>2, <1>3, PreparedFacts
<1>5. QED
  BY <1>1, <1>2, <1>3, <1>4

-----------------------------------------------------------------------------
(* The invariant and the properties                                         *)

\* Every operation keeps the types.
LEMMA TypeStep ==
  ASSUME TypeOK, [Next]_vars
  PROVE  TypeOK'
<1> USE DEF clocks, outputs, errors
<1>1. /\ waypoints_ \in Seq(Segment) /\ segment_params_ \in Seq(Segment)
      /\ Len(waypoints_) \in Nat /\ Len(segment_params_) \in Nat
  BY LenProperties DEF TypeOK
<1>2. 0 \in Nat /\ 1 \in Nat \ {0} /\ Start \in [segment : Nat, time : Nat]
  BY DEF Start
<1>3. \A n \in Nat : All(1) \in [Components -> 1 .. n + 1]
  BY DEF All
<1>4. CASE AddPathTo
  <2>1. PICK needed \in Limits \union {All(d) : d \in FixedTimes}, fixed \in BOOLEAN :
           LET segment == [fixed |-> fixed, needed |-> needed,
                           minimum_time |-> IF fixed THEN needed ELSE All(0),
                           padding_time |-> All(0), current_time |-> All(0)]
           IN  IF options.pose
               THEN waypoints_' = Append(waypoints_, segment) /\ UNCHANGED <<segment_params_, ready>>
               ELSE segment_params_' = Append(segment_params_, segment) /\ ready' = FALSE
                    /\ UNCHANGED waypoints_
    BY <1>4 DEF AddPathTo
  <2> DEFINE segment == [fixed |-> fixed, needed |-> needed,
                         minimum_time |-> IF fixed THEN needed ELSE All(0),
                         padding_time |-> All(0), current_time |-> All(0)]
  <2>2. needed \in [Components -> Durations]
    BY TimesAssumption DEF All
  <2>3. needed \in [Components -> Nat] /\ All(0) \in [Components -> Nat]
    BY <2>2, TimesAssumption DEF All
  <2>4. segment \in Segment
    BY <2>2, <2>3 DEF Segment
  <2> HIDE DEF segment
  <2>5. /\ Append(waypoints_, segment) \in Seq(Segment)
        /\ Len(Append(waypoints_, segment)) = Len(waypoints_) + 1
        /\ Append(segment_params_, segment) \in Seq(Segment)
        /\ Len(Append(segment_params_, segment)) = Len(segment_params_) + 1
    BY <1>1, <2>4, AppendProperties
  <2>6. /\ Len(segment_params_) < MaxSegments /\ Len(waypoints_) < MaxSegments
        /\ calls < MaxCalls /\ calls' = calls + 1 /\ fresh' = TRUE
        /\ UNCHANGED <<current_segement_, errors, outputs, regular, elapsed, options>>
    BY <1>4 DEF AddPathTo, Call
  <2>7. CASE options.pose
    <3>1. waypoints_' = Append(waypoints_, segment) /\ UNCHANGED <<segment_params_, ready>>
      BY <2>1, <2>7 DEF segment
    <3>2. QED
      BY <1>1, <2>5, <2>6, <3>1, TimesAssumption DEF TypeOK
  <2>8. CASE ~options.pose
    <3>1. segment_params_' = Append(segment_params_, segment) /\ ready' = FALSE /\ waypoints_' = waypoints_
      BY <2>1, <2>8 DEF segment
    <3>2. current_segement_' \in [Components -> 1 .. Len(segment_params_') + 1]
      <4>1. \A c \in Components : current_segement_[c] \in 1 .. Len(segment_params_) + 1 + 1
        BY <1>1 DEF TypeOK
      <4>2. current_segement_' = [c \in Components |-> current_segement_[c]]
        BY <2>6 DEF TypeOK
      <4>3. QED
        BY <2>5, <3>1, <4>1, <4>2
    <3>3. calls' \in 0 .. MaxCalls /\ fresh' \in BOOLEAN /\ ready' \in BOOLEAN
      <4>1. MaxCalls \in Nat /\ calls \in 0 .. MaxCalls
        BY TimesAssumption DEF TypeOK
      <4>2. calls < MaxCalls /\ calls' = calls + 1
        BY <2>6
      <4>3. calls' \in 0 .. MaxCalls
        BY <4>1, <4>2
      <4>4. fresh' \in BOOLEAN /\ ready' \in BOOLEAN
        BY <2>6, <3>1
      <4>5. QED
        BY <4>3, <4>4
    <3>4. /\ segment_params_' \in Seq(Segment) /\ waypoints_' \in Seq(Segment)
          /\ Len(waypoints_') <= MaxSegments /\ Len(segment_params_') <= MaxSegments
      <4>1. segment_params_' \in Seq(Segment) /\ Len(segment_params_') = Len(segment_params_) + 1
        BY <2>5, <3>1
      <4>2. waypoints_' \in Seq(Segment) /\ Len(waypoints_') = Len(waypoints_)
        BY <1>1, <3>1
      <4>3. MaxSegments \in Nat
        BY TimesAssumption
      <4> HIDE DEF segment
      <4>4. QED
        BY <1>1, <2>6, <4>1, <4>2, <4>3
    <3>5. QED
      BY <2>6, <3>2, <3>3, <3>4 DEF TypeOK
  <2>9. QED
    BY <2>7, <2>8
<1>5. CASE ComputeTimings
  <2>1. /\ segment_params_' \in Seq(Segment) /\ Len(segment_params_') = Len(Points)
        /\ current_segement_' = Origin /\ output' = All(Start) /\ velocity' = All("path")
    BY <1>5, ComputeTimingsFacts
  <2>2. /\ ready' = TRUE /\ regular' = (current_segement_' = All(1)) /\ elapsed' = All(0)
        /\ calls < MaxCalls /\ calls' = calls + 1 /\ fresh' = TRUE
        /\ UNCHANGED <<waypoints_, errors, result, options>>
    BY <1>5 DEF ComputeTimings, Restarted, Call
  <2>3. Origin \in [Components -> 1 .. Len(Points) + 1] /\ Len(Points) <= MaxSegments
    BY <1>1, <1>3 DEF Origin, Points, TypeOK
  <2>4. output' \in [Components -> [segment : Nat, time : Nat]] /\ velocity' \in [Components -> {"path", "zero"}]
        /\ elapsed' \in [Components -> Nat]
    BY <1>2, <2>1, <2>2 DEF All
  <2>5. QED
    BY <1>1, <2>1, <2>2, <2>3, <2>4, TimesAssumption DEF TypeOK
<1>6. CASE UpdateLimits
  <2>1. current_segement_ \in [Components -> Nat \ {0}]
    BY CurrentSegment DEF TypeOK
  <2>2. ComputeParameters(ComputePaddingTime(segment_params_, current_segement_))
    BY <1>6 DEF UpdateLimits
  <2>3. /\ segment_params_' \in Seq(Segment) /\ Len(segment_params_') = Len(segment_params_)
        /\ output' = All(Start) /\ velocity' = All("path")
    BY <1>1, <2>1, <2>2, PreparedFacts
  <2>4. /\ regular' = (current_segement_' = All(1)) /\ elapsed' = All(0)
        /\ calls < MaxCalls /\ calls' = calls + 1 /\ fresh' = TRUE
        /\ UNCHANGED <<waypoints_, errors, result, ready, current_segement_, options>>
    BY <1>6 DEF UpdateLimits, Restarted, Call
  <2>5. output' \in [Components -> [segment : Nat, time : Nat]] /\ velocity' \in [Components -> {"path", "zero"}]
        /\ elapsed' \in [Components -> Nat]
    BY <1>2, <2>3, <2>4 DEF All
  <2>6. QED
    BY <1>1, <2>3, <2>4, <2>5, TimesAssumption DEF TypeOK
<1>7. CASE Reset
  <2>1. /\ segment_params_' \in Seq(Segment) /\ Len(segment_params_') = Len(segment_params_)
        /\ current_segement_' = All(1) /\ elapsed' = All(0)
        /\ UNCHANGED <<waypoints_, errors, outputs, ready, regular, options>>
        /\ calls < MaxCalls /\ calls' = calls + 1 /\ fresh' = TRUE
    BY <1>1, <1>7, RewoundFacts DEF Reset, Call
  <2>2. elapsed' \in [Components -> Nat] /\ current_segement_' \in [Components -> 1 .. Len(segment_params_') + 1]
    BY <1>1, <1>3, <2>1 DEF All
  <2>3. QED
    BY <1>1, <2>1, <2>2, TimesAssumption DEF TypeOK
<1>8. CASE RemoveAllPoints
  <2>1. /\ waypoints_' = <<>> /\ segment_params_' = <<>> /\ current_segement_' = All(1)
        /\ ready' = TRUE /\ regular' = (current_segement_' = All(1)) /\ elapsed' = All(0)
        /\ UNCHANGED <<errors, outputs, options>>
        /\ calls < MaxCalls /\ calls' = calls + 1 /\ fresh' = TRUE
    BY <1>8 DEF RemoveAllPoints, Restarted, Call
  <2>2. elapsed' \in [Components -> Nat] /\ current_segement_' \in [Components -> 1 .. Len(segment_params_') + 1]
    BY <1>3, <2>1, EmptySeq DEF All
  <2>3. waypoints_' \in Seq(Segment) /\ segment_params_' \in Seq(Segment)
        /\ Len(waypoints_') <= MaxSegments /\ Len(segment_params_') <= MaxSegments
    BY <2>1, EmptySeq, TimesAssumption
  <2>4. QED
    BY <2>1, <2>2, <2>3, TimesAssumption DEF TypeOK
<1>9. CASE EnableErrorTracking
  BY <1>9, TimesAssumption DEF EnableErrorTracking, Call, TypeOK, All
<1>10. CASE DisableErrorTracking
  BY <1>10, TimesAssumption DEF DisableErrorTracking, Call, TypeOK, All
<1>11. CASE Compute
  <2>1. PICK e \in Errors :
           /\ error' = e
           /\ stray' = [c \in Components |->
                          CASE e[c] = "over" -> TRUE [] e[c] = "under" -> FALSE [] OTHER -> stray[c]]
           /\ IF StopsAll(e) THEN PauseAll(e) ELSE Advance(e)
           /\ UNCHANGED <<options, waypoints_, tracking, recompute_when_resumed, ready, calls, regular>>
    BY <1>11 DEF Compute, Errors
  <2>2. error' \in Errors /\ stray' \in [Components -> BOOLEAN]
    BY <2>1 DEF TypeOK, Errors
  <2>3. CASE PauseAll(e)
    <3>1. previous_state' \in [Components -> {"Running", "Paused"}]
      BY <2>3, CheckedFacts DEF PauseAll, TypeOK
    <3>2. QED
      BY <2>1, <2>2, <2>3, <3>1 DEF PauseAll, All, TypeOK, Errors
  <2>4. CASE Advance(e)
    <3>1. segment_params_' \in Seq(Segment) /\ Len(segment_params_') = Len(segment_params_)
      BY <2>4, AdvanceFacts
    <3>2. /\ previous_state' \in [Components -> {"Running", "Paused"}]
          /\ state' \in [Components -> {"Running", "Paused"}]
          /\ velocity' \in [Components -> {"path", "zero"}]
          /\ elapsed' \in [Components -> Nat] /\ result' \in BOOLEAN /\ fresh' \in BOOLEAN
      <4>1. /\ velocity' = [c \in Components |->
                  CASE Blocked(c, e) -> "zero" [] Moves(c, e) -> "path" [] OTHER -> velocity[c]]
            /\ state' = [c \in Components |->
                  CASE Blocked(c, e) -> "Paused" [] Moves(c, e) -> "Running" [] OTHER -> state[c]]
            /\ previous_state' = [c \in Components |->
                  IF tracking = "on" THEN Checked(c, e) ELSE previous_state[c]]
            /\ result' = (\A c \in Components : Done(c)) /\ fresh' = FALSE
            /\ elapsed' = [c \in Components |->
                  IF Moves(c, e) /\ tracking = "never" THEN elapsed[c] + 1 ELSE elapsed[c]]
        BY <2>4, AdvanceFlags
      <4>2. elapsed' \in [Components -> Nat]
        BY <4>1 DEF TypeOK
      <4>3. previous_state' \in [Components -> {"Running", "Paused"}]
        BY <4>1, CheckedFacts DEF TypeOK
      <4>4. state' \in [Components -> {"Running", "Paused"}]
        BY <4>1 DEF TypeOK, Moves
      <4>5. velocity' \in [Components -> {"path", "zero"}]
        BY <4>1 DEF TypeOK, Moves
      <4>6. result' \in BOOLEAN /\ fresh' \in BOOLEAN
        BY <4>1
      <4>7. QED
        BY <4>2, <4>3, <4>4, <4>5, <4>6
    <3>3. ASSUME NEW c \in Components
          PROVE  /\ current_segement_'[c] \in 1 .. Len(segment_params_) + 1
                 /\ output'[c] \in [segment : Nat, time : Nat]
      <4>1. CASE Moves(c, e)
        <5>1. current_segement_[c] \in Nat \ {0} /\ current_segement_[c] <= Len(segment_params_)
          BY <1>1, <4>1, CurrentSegment DEF Moves
        <5>2. SampleOf(c, e)
          BY <2>4, <4>1, AdvanceFacts
        <5>3. QED
          BY <1>1, <5>1, <5>2 DEF SampleOf
      <4>2. CASE ~Moves(c, e)
        BY <2>4, <4>2, AdvanceFacts DEF TypeOK
      <4>3. QED
        BY <4>1, <4>2
    <3>4. /\ current_segement_' \in [Components -> 1 .. Len(segment_params_) + 1]
          /\ output' \in [Components -> [segment : Nat, time : Nat]]
      <4>1. /\ current_segement_' = [c \in Components |-> current_segement_'[c]]
            /\ output' = [c \in Components |-> output'[c]]
        BY <2>4 DEF Advance, TakeSample
      <4>2. QED
        BY <3>3, <4>1
    <3>5. QED
      BY <1>1, <2>1, <2>2, <3>1, <3>2, <3>4 DEF TypeOK, Errors
  <2>5. QED
    BY <2>1, <2>3, <2>4
<1>12. CASE UNCHANGED vars
  BY <1>12 DEF vars, TypeOK
<1>13. QED
  BY <1>4, <1>5, <1>6, <1>7, <1>8, <1>9, <1>10, <1>11, <1>12 DEF Next

\* A segment has the parts it has, a sequence of segments its segments, and so on: the
\* types hold in every state of every behaviour.
THEOREM TypeCorrect == Spec => []TypeOK
<1>1. ASSUME Init PROVE TypeOK
  <2>1. <<>> \in Seq(Segment) /\ Len(<<>>) = 0
    BY EmptySeq
  <2>2. MaxSegments \in Nat /\ MaxCalls \in Nat
    BY TimesAssumption
  <2>3. Start \in [segment : Nat, time : Nat]
    BY DEF Start
  <2>4. /\ current_segement_ \in [Components -> 1 .. Len(segment_params_) + 1]
        /\ output \in [Components -> [segment : Nat, time : Nat]]
        /\ elapsed \in [Components -> Nat] /\ calls \in 0 .. MaxCalls
    BY <1>1, <2>1, <2>2, <2>3 DEF Init, All
  <2>5. /\ state \in [Components -> {"Running", "Paused"}]
        /\ previous_state \in [Components -> {"Running", "Paused"}]
        /\ velocity \in [Components -> {"path", "zero"}]
        /\ error \in [Components -> {"under", "band", "over"}]
        /\ stray \in [Components -> BOOLEAN]
    BY <1>1 DEF Init, All
  <2>6. /\ waypoints_ \in Seq(Segment) /\ segment_params_ \in Seq(Segment)
        /\ Len(waypoints_) <= MaxSegments /\ Len(segment_params_) <= MaxSegments
    BY <1>1, <2>1, <2>2 DEF Init
  <2>7. /\ options \in [sync : Methods, pose : BOOLEAN]
        /\ tracking \in {"never", "on", "off"} /\ recompute_when_resumed \in BOOLEAN
        /\ result \in BOOLEAN /\ ready \in BOOLEAN /\ regular \in BOOLEAN /\ fresh \in BOOLEAN
    BY <1>1 DEF Init
  <2>8. QED
    BY <2>4, <2>5, <2>6, <2>7 DEF TypeOK
<1>2. TypeOK /\ [Next]_vars => TypeOK'
  BY TypeStep
<1>3. QED
  BY <1>1, <1>2, PTL DEF Spec

-----------------------------------------------------------------------------
(* Pauses                                                                   *)

\* compute() is given one error of each component.
LEMMA ComputeFacts ==
  ASSUME Compute
  PROVE  \E e \in Errors :
            /\ Measured(e) /\ error' = e
            /\ stray' = [c \in Components |->
                           CASE e[c] = "over" -> TRUE [] e[c] = "under" -> FALSE [] OTHER -> stray[c]]
            /\ (StopsAll(e) /\ PauseAll(e)) \/ (~StopsAll(e) /\ Advance(e))
            /\ UNCHANGED <<options, waypoints_, tracking, recompute_when_resumed, ready, calls, regular>>
BY DEF Compute, Errors

\* The states of the components follow their errors: previous_state is Paused while a
\* component strays, state once compute() has stopped it for that; without tracking, and
\* with synchronisation, no state is Paused.
StatesAgree ==
    /\ options.sync # "NoSynchronization" => state = All("Running")
    /\ options.sync = "NoSynchronization" =>
          \A c \in Components : stray[c] <=> previous_state[c] = "Paused"
    /\ tracking # "on" => /\ stray = All(FALSE)
                          /\ previous_state = All("Running") /\ state = All("Running")
    /\ tracking = "never" => \A c \in Components : velocity[c] = "path"
    /\ options.sync = "NoSynchronization" /\ tracking = "on" =>
          \A c \in Components : velocity[c] = "zero" => state[c] = "Paused"

\* A component is blocked while it strays, when each goes on its own.
LEMMA BlockedStrays ==
  ASSUME TypeOK, StatesAgree, NEW e \in Errors, options.sync = "NoSynchronization",
         tracking = "on", NEW c \in Components,
         stray' = [d \in Components |->
                     CASE e[d] = "over" -> TRUE [] e[d] = "under" -> FALSE [] OTHER -> stray[d]]
  PROVE  Blocked(c, e) <=> stray'[c]
<1>1. e[c] \in {"under", "band", "over"}
  BY DEF Errors
<1>2. Blocked(c, e) <=> e[c] = "over" \/ (e[c] # "under" /\ previous_state[c] = "Paused")
  BY CheckedFacts DEF Blocked
<1>3. stray[c] <=> previous_state[c] = "Paused"
  BY DEF StatesAgree
<1>4. stray[c] \in BOOLEAN
  BY DEF TypeOK
<1>5. stray'[c] <=> e[c] = "over" \/ (e[c] # "under" /\ stray[c])
  BY <1>1, <1>4
<1>6. QED
  BY <1>2, <1>3, <1>5

\* Every operation keeps the states in agreement.
LEMMA StatesStep ==
  ASSUME TypeOK, StatesAgree, [Next]_vars
  PROVE  StatesAgree'
<1> USE DEF clocks, outputs, errors
<1>1. CASE AddPathTo \/ Reset \/ RemoveAllPoints
  <2>1. UNCHANGED <<errors, outputs, options>>
    BY <1>1 DEF AddPathTo, Reset, RemoveAllPoints, Call
  <2>2. QED
    BY <2>1 DEF StatesAgree
<1>2. CASE ComputeTimings \/ UpdateLimits
  <2>1. velocity' = All("path") /\ UNCHANGED <<errors, options>>
    BY <1>2 DEF ComputeTimings, UpdateLimits, ComputeParameters, Call
  <2>2. QED
    BY <2>1 DEF StatesAgree, All
<1>3. CASE EnableErrorTracking
  BY <1>3 DEF EnableErrorTracking, Call, StatesAgree
<1>4. CASE DisableErrorTracking
  BY <1>4 DEF DisableErrorTracking, Call, StatesAgree, All
<1>5. CASE Compute
  <2>1. PICK e \in Errors :
            /\ Measured(e) /\ error' = e
            /\ stray' = [c \in Components |->
                           CASE e[c] = "over" -> TRUE [] e[c] = "under" -> FALSE [] OTHER -> stray[c]]
            /\ (StopsAll(e) /\ PauseAll(e)) \/ (~StopsAll(e) /\ Advance(e))
            /\ UNCHANGED <<options, waypoints_, tracking, recompute_when_resumed, ready, calls, regular>>
    BY <1>5, ComputeFacts
  <2>2. CASE StopsAll(e) /\ PauseAll(e)
    <3>1. options.sync # "NoSynchronization" /\ tracking = "on"
      BY <2>2 DEF StopsAll, Blocked
    <3>2. state' = state /\ tracking' = tracking /\ options' = options
      BY <2>1, <2>2 DEF PauseAll
    <3>3. QED
      BY <3>1, <3>2 DEF StatesAgree
  <2>3. CASE ~StopsAll(e) /\ Advance(e)
    <3>1. /\ velocity' = [c \in Components |->
                CASE Blocked(c, e) -> "zero" [] Moves(c, e) -> "path" [] OTHER -> velocity[c]]
          /\ state' = [c \in Components |->
                CASE Blocked(c, e) -> "Paused" [] Moves(c, e) -> "Running" [] OTHER -> state[c]]
          /\ previous_state' = [c \in Components |->
                IF tracking = "on" THEN Checked(c, e) ELSE previous_state[c]]
      BY <2>3, AdvanceFlags
    <3>2. options' = options /\ tracking' = tracking
      BY <2>1
    <3>3. CASE tracking # "on"
      <4>1. \A c \in Components : ~Blocked(c, e)
        BY <3>3 DEF Blocked
      <4>2. e = All("under") /\ state = All("Running") /\ previous_state = All("Running")
        BY <2>1, <3>3 DEF Measured, StatesAgree
      <4>3. stray' = All(FALSE) /\ state' = All("Running") /\ previous_state' = All("Running")
        BY <2>1, <3>1, <3>3, <4>1, <4>2 DEF All
      <4>4. tracking = "never" => \A c \in Components : velocity'[c] = "path"
        BY <3>1, <4>1 DEF StatesAgree
      <4>5. QED
        BY <3>2, <3>3, <4>3, <4>4 DEF StatesAgree, All
    <3>4. CASE tracking = "on" /\ options.sync # "NoSynchronization"
      <4>1. \A c \in Components : ~Blocked(c, e)
        BY <2>3, <3>4 DEF StopsAll
      <4>2. state' = All("Running")
        BY <3>1, <3>4, <4>1 DEF StatesAgree, All
      <4>3. QED
        BY <3>2, <3>4, <4>2 DEF StatesAgree
    <3>5. CASE tracking = "on" /\ options.sync = "NoSynchronization"
      <4>1. \A c \in Components : Blocked(c, e) <=> stray'[c]
        BY <2>1, <3>5, BlockedStrays
      <4>2. \A c \in Components : Blocked(c, e) <=> previous_state'[c] = "Paused"
        BY <3>1, <3>5 DEF Blocked
      <4>3. \A c \in Components : velocity'[c] = "zero" => state'[c] = "Paused"
        <5> TAKE c \in Components
        <5>1. velocity[c] = "zero" => state[c] = "Paused"
          BY <3>5 DEF StatesAgree
        <5>2. QED
          BY <3>1, <5>1 DEF Moves
      <4>4. QED
        BY <3>2, <3>5, <4>1, <4>2, <4>3 DEF StatesAgree
    <3>6. QED
      BY <3>3, <3>4, <3>5
  <2>4. QED
    BY <2>1, <2>2, <2>3
<1>6. CASE UNCHANGED vars
  BY <1>6 DEF vars, StatesAgree
<1>7. QED
  BY <1>1, <1>2, <1>3, <1>4, <1>5, <1>6 DEF Next

\* The states follow the errors in every state.
THEOREM StatesHold == Spec => []StatesAgree
<1>1. Init => StatesAgree
  BY DEF Init, StatesAgree, All
<1>2. TypeOK /\ StatesAgree /\ [Next]_vars => StatesAgree'
  BY StatesStep
<1>3. QED
  BY <1>1, <1>2, TypeCorrect, PTL DEF Spec

\* A step that is no other call is compute() or none.
LEMMA ComputesOnly ==
  ASSUME TypeOK, [Next]_vars, Computes
  PROVE  Compute \/ UNCHANGED vars
<1>1. calls + 1 # calls
  BY DEF TypeOK
<1>2. ~Call
  BY <1>1 DEF Call, Computes
<1>3. QED
  BY <1>2 DEF Next, AddPathTo, ComputeTimings, UpdateLimits, Reset, RemoveAllPoints,
              EnableErrorTracking, DisableErrorTracking

\* Without synchronisation a component stands still exactly while it strays: the hysteresis
\* of check_error is the history of the errors.  With it one that is over stops them all,
\* whichever of them the loop of compute() finds first.
THEOREM StrayStopped == Spec => StrayStandsStill
<1>1. ASSUME TypeOK, StatesAgree, [Next]_vars
      PROVE  [Computes /\ tracking = "on" =>
                \A c \in Components :
                   LET Still == output'[c] = output[c] /\ velocity'[c] = "zero"
                   IN  IF options.sync = "NoSynchronization"
                       THEN (stray'[c] => Still) /\ (~stray'[c] /\ ~Done(c) => velocity'[c] = "path")
                       ELSE (\E d \in Components : error'[d] = "over") => Still]_vars
  <2> SUFFICES ASSUME Compute, tracking = "on", NEW c \in Components
               PROVE  LET Still == output'[c] = output[c] /\ velocity'[c] = "zero"
                      IN  IF options.sync = "NoSynchronization"
                          THEN (stray'[c] => Still) /\ (~stray'[c] /\ ~Done(c) => velocity'[c] = "path")
                          ELSE (\E d \in Components : error'[d] = "over") => Still
    BY <1>1, ComputesOnly
  <2>1. PICK e \in Errors :
            /\ Measured(e) /\ error' = e
            /\ stray' = [d \in Components |->
                           CASE e[d] = "over" -> TRUE [] e[d] = "under" -> FALSE [] OTHER -> stray[d]]
            /\ (StopsAll(e) /\ PauseAll(e)) \/ (~StopsAll(e) /\ Advance(e))
            /\ UNCHANGED <<options, waypoints_, tracking, recompute_when_resumed, ready, calls, regular>>
    BY ComputeFacts
  <2>2. CASE options.sync = "NoSynchronization"
    <3>1. Advance(e)
      BY <2>1, <2>2 DEF StopsAll
    <3>2. Blocked(c, e) <=> stray'[c]
      BY <1>1, <2>1, <2>2, BlockedStrays
    <3>3. velocity'[c] = CASE Blocked(c, e) -> "zero" [] Moves(c, e) -> "path" [] OTHER -> velocity[c]
      BY <3>1, AdvanceFlags
    <3>4. Blocked(c, e) => output'[c] = output[c] /\ velocity'[c] = "zero"
      <4>1. Blocked(c, e) => ~Moves(c, e)
        BY DEF Moves
      <4>2. ~Moves(c, e) => output'[c] = output[c]
        BY <1>1, <3>1, AdvanceFacts
      <4>3. QED
        BY <3>3, <4>1, <4>2
    <3>5. ~Blocked(c, e) /\ ~Done(c) => velocity'[c] = "path"
      BY <3>3 DEF Moves
    <3>6. QED
      BY <2>2, <3>2, <3>4, <3>5
  <2>3. CASE options.sync # "NoSynchronization"
    <3> SUFFICES ASSUME NEW d \in Components, error'[d] = "over"
                 PROVE  output'[c] = output[c] /\ velocity'[c] = "zero"
      BY <2>3
    <3>1. Blocked(d, e)
      BY <1>1, <2>1, CheckedFacts DEF Blocked
    <3>2. PauseAll(e)
      BY <2>1, <2>3, <3>1 DEF StopsAll
    <3>3. QED
      BY <3>2 DEF PauseAll, All
  <2>4. QED
    BY <2>2, <2>3
<1>2. QED
  BY <1>1, TypeCorrect, StatesHold, PTL DEF Spec, StrayStandsStill

\* A component that resumes after a pause of its own, and has been asked to recompute, starts
\* from rest where it stands: its clock is zero, whatever it was when it was stopped.
THEOREM ResumedFromRest == Spec => ResumesFromRest
<1>1. ASSUME TypeOK, StatesAgree, [Next]_vars
      PROVE  [Computes /\ tracking = "on" /\ recompute_when_resumed
                 /\ options.sync = "NoSynchronization" =>
                \A c \in Components : Resumes(c) => FromRest(c)]_vars
  <2> SUFFICES ASSUME Compute, tracking = "on", recompute_when_resumed,
                      options.sync = "NoSynchronization", NEW c \in Components, Resumes(c)
               PROVE  FromRest(c)
    BY <1>1, ComputesOnly
  <2>1. PICK e \in Errors : (StopsAll(e) /\ PauseAll(e)) \/ (~StopsAll(e) /\ Advance(e))
    BY ComputeFacts
  <2>2. Advance(e)
    BY <2>1 DEF StopsAll
  <2>3. velocity'[c] = CASE Blocked(c, e) -> "zero" [] Moves(c, e) -> "path" [] OTHER -> velocity[c]
    BY <2>2, AdvanceFlags
  <2>4. velocity[c] = "zero" /\ velocity'[c] = "path"
    BY DEF Resumes
  <2>5. Moves(c, e)
    BY <2>3, <2>4 DEF Moves
  <2>6. state[c] = "Paused"
    BY <1>1, <2>4 DEF StatesAgree
  <2>7. SampleClock(c, e) = 0
    BY <2>5, <2>6 DEF SampleClock, Restarts
  <2>8. SampleOf(c, e)
    BY <1>1, <2>2, <2>5, AdvanceFacts
  <2>9. output'[c].time = 0
    BY <2>7, <2>8 DEF SampleOf
  <2>10. QED
    BY <2>9 DEF FromRest
<1>2. QED
  BY <1>1, TypeCorrect, StatesHold, PTL DEF Spec, ResumesFromRest

-----------------------------------------------------------------------------
(* Clocks                                                                   *)

Duration(s, c) == SegmentDuration(segment_params_, s, c)
Clock(c)       == segment_params_[current_segement_[c]].current_time[c]

\* A clock is at most a sample past the end of its segment.
ClockBounded ==
    \A c \in Components : ~Done(c) => Clock(c) <= Duration(current_segement_[c], c) + SampleTime

\* The output of a component that is done is the end of its path.
AtEnd ==
    regular /\ segment_params_ # <<>> =>
        \A c \in Components : Done(c) =>
           output[c] = [segment |-> Len(segment_params_), time |-> Duration(Len(segment_params_), c)]

\* An output is in a segment there is.
Placed ==
    ready /\ segment_params_ # <<>> =>
        \A c \in Components : output[c].segment \in DOMAIN segment_params_

\* Durations and clocks are times.
LEMMA DurationFacts ==
  ASSUME NEW segments \in Seq(Segment), NEW s \in 1 .. Len(segments), NEW c \in Components
  PROVE  SegmentDuration(segments, s, c) \in Nat /\ segments[s].current_time[c] \in Nat
<1>1. segments[s] \in Segment
  BY ElementOfSeq
<1>2. QED
  BY <1>1 DEF Segment, SegmentDuration

\* A segment that is added has no time yet; the others stay as they are.
LEMMA AddedFacts ==
  ASSUME TypeOK, AddPathTo
  PROVE  /\ UNCHANGED <<current_segement_, errors, outputs, regular, elapsed, options>>
         /\ fresh' = TRUE
         /\ \/ UNCHANGED <<segment_params_, ready>>
            \/ /\ ready' = FALSE
               /\ segment_params_' \in Seq(Segment)
               /\ Len(segment_params_') = Len(segment_params_) + 1
               /\ \A s \in 1 .. Len(segment_params_) : segment_params_'[s] = segment_params_[s]
               /\ segment_params_'[Len(segment_params_) + 1].current_time = All(0)
<1>1. PICK needed \in Limits \union {All(d) : d \in FixedTimes}, fixed \in BOOLEAN :
         LET segment == [fixed |-> fixed, needed |-> needed,
                         minimum_time |-> IF fixed THEN needed ELSE All(0),
                         padding_time |-> All(0), current_time |-> All(0)]
         IN  IF options.pose
             THEN waypoints_' = Append(waypoints_, segment) /\ UNCHANGED <<segment_params_, ready>>
             ELSE segment_params_' = Append(segment_params_, segment) /\ ready' = FALSE
                  /\ UNCHANGED waypoints_
  BY DEF AddPathTo
<1> DEFINE segment == [fixed |-> fixed, needed |-> needed,
                       minimum_time |-> IF fixed THEN needed ELSE All(0),
                       padding_time |-> All(0), current_time |-> All(0)]
<1>2. needed \in [Components -> Durations] /\ needed \in [Components -> Nat] /\ All(0) \in [Components -> Nat]
  BY TimesAssumption DEF All
<1>3. segment \in Segment /\ segment.current_time = All(0)
  BY <1>2 DEF Segment
<1>4. UNCHANGED <<segment_params_, ready>> \/ (segment_params_' = Append(segment_params_, segment) /\ ready' = FALSE)
  BY <1>1
<1> HIDE DEF segment
<1>5. segment_params_ \in Seq(Segment)
  BY DEF TypeOK
<1>6. CASE segment_params_' = Append(segment_params_, segment) /\ ready' = FALSE
  BY <1>3, <1>5, <1>6, AppendProperties DEF AddPathTo, Call
<1>7. QED
  BY <1>4, <1>6 DEF AddPathTo, Call

\* What puts the clocks back leaves a regular trajectory at its start.
LEMMA RewindFacts ==
  ASSUME TypeOK, ComputeTimings \/ UpdateLimits \/ Reset \/ RemoveAllPoints
  PROVE  /\ segment_params_' \in Seq(Segment) /\ Len(segment_params_') \in Nat
         /\ \A s \in 1 .. Len(segment_params_'), c \in Components :
               segment_params_'[s].current_time[c] = 0
         /\ regular' => current_segement_' = All(1)
         /\ elapsed' = All(0) /\ fresh' = TRUE /\ options' = options /\ UNCHANGED errors
         /\ current_segement_' \in [Components -> Nat \ {0}]
<1>1. segment_params_ \in Seq(Segment) /\ current_segement_ \in [Components -> Nat \ {0}]
  BY CurrentSegment DEF TypeOK
<1>2. All(1) \in [Components -> Nat \ {0}] /\ \A c \in Components : All(0)[c] = 0
  BY DEF All
<1>3. CASE ComputeTimings
  <2>1. PICK segments \in Seq(Segment) :
           /\ Len(segments) = Len(Points)
           /\ \A s \in 1 .. Len(Points) : segment_params_'[s].current_time = All(0)
    BY <1>3, ComputeTimingsFacts
  <2>2. /\ segment_params_' \in Seq(Segment) /\ Len(segment_params_') = Len(Points)
        /\ Origin \in [Components -> Nat \ {0}] /\ current_segement_' = Origin
    BY <1>3, ComputeTimingsFacts
  <2>3. /\ regular' = (current_segement_' = All(1)) /\ elapsed' = All(0) /\ fresh' = TRUE
        /\ options' = options /\ UNCHANGED errors
    BY <1>3 DEF ComputeTimings, Restarted, Call
  <2>4. QED
    BY <1>2, <2>1, <2>2, <2>3, LenProperties
<1>4. CASE UpdateLimits
  <2>1. ComputeParameters(ComputePaddingTime(segment_params_, current_segement_))
    BY <1>4 DEF UpdateLimits
  <2>2. /\ segment_params_' \in Seq(Segment) /\ Len(segment_params_') = Len(segment_params_)
        /\ \A s \in 1 .. Len(segment_params_) : segment_params_'[s].current_time = All(0)
    BY <1>1, <2>1, PreparedFacts
  <2>3. /\ regular' = (current_segement_' = All(1)) /\ elapsed' = All(0) /\ fresh' = TRUE
        /\ options' = options /\ UNCHANGED errors /\ current_segement_' = current_segement_
    BY <1>4 DEF UpdateLimits, Restarted, Call
  <2>4. QED
    BY <1>1, <1>2, <2>2, <2>3, LenProperties
<1>5. CASE Reset
  <2>1. /\ segment_params_' \in Seq(Segment) /\ Len(segment_params_') = Len(segment_params_)
        /\ \A s \in 1 .. Len(segment_params_) : segment_params_'[s].current_time = All(0)
    BY <1>1, <1>5, RewoundFacts DEF Reset
  <2>2. /\ current_segement_' = All(1) /\ elapsed' = All(0) /\ fresh' = TRUE
        /\ options' = options /\ UNCHANGED errors
    BY <1>5 DEF Reset, Call
  <2>3. QED
    BY <1>1, <1>2, <2>1, <2>2, LenProperties
<1>6. CASE RemoveAllPoints
  <2>1. /\ segment_params_' = <<>> /\ current_segement_' = All(1) /\ elapsed' = All(0) /\ fresh' = TRUE
        /\ options' = options /\ UNCHANGED errors
    BY <1>6 DEF RemoveAllPoints, Restarted, Call
  <2>2. segment_params_' \in Seq(Segment) /\ Len(segment_params_') = 0
    BY <2>1, EmptySeq
  <2>3. QED
    BY <1>2, <2>1, <2>2
<1>7. QED
  BY <1>3, <1>4, <1>5, <1>6

\* Only the segment in which a component restarts gets another duration.
LEMMA DurationsKept ==
  ASSUME TypeOK, NEW e \in Errors, Advance(e), NEW c \in Components, ~Restarts(c, e)
  PROVE  \A s \in 1 .. Len(segment_params_) : Duration(s, c)' = Duration(s, c)
<1>1. DOMAIN segment_params_ = 1 .. Len(segment_params_)
  BY CurrentSegment
<1>2. \A s \in DOMAIN segment_params_ :
         /\ segment_params_'[s].padding_time[c] = segment_params_[s].padding_time[c]
         /\ segment_params_'[s].minimum_time[c] = segment_params_[s].minimum_time[c]
  BY AdvanceFacts
<1>3. QED
  BY <1>1, <1>2 DEF Duration, SegmentDuration

\* The tracking of errors changes no clock and no output.
LEMMA TrackingFacts ==
  ASSUME EnableErrorTracking \/ DisableErrorTracking \/ UNCHANGED vars
  PROVE  UNCHANGED <<clocks, outputs, ready, regular, options>>
BY DEF EnableErrorTracking, DisableErrorTracking, Call, vars

\* Every operation keeps the clocks in their bounds.
LEMMA ClockStep ==
  ASSUME TypeOK, TypeOK', ClockBounded, [Next]_vars
  PROVE  ClockBounded'
<1> USE DEF clocks, outputs, errors
<1> SUFFICES ASSUME NEW c \in Components, ~Done(c)'
             PROVE  Clock(c)' <= Duration(current_segement_[c], c)' + SampleTime
  BY DEF ClockBounded
<1>1. /\ segment_params_ \in Seq(Segment) /\ segment_params_' \in Seq(Segment)
      /\ Len(segment_params_) \in Nat /\ Len(segment_params_') \in Nat /\ SampleTime \in Nat
      /\ current_segement_[c] \in Nat \ {0} /\ current_segement_'[c] \in Nat \ {0}
      /\ current_segement_[c] <= Len(segment_params_) + 1
  BY TimesAssumption, LenProperties DEF TypeOK
<1>2. current_segement_'[c] \in 1 .. Len(segment_params_')
  BY <1>1 DEF Done
<1>3. Clock(c)' \in Nat /\ Duration(current_segement_[c], c)' \in Nat
  BY <1>1, <1>2, DurationFacts DEF Clock, Duration
<1>4. CASE AddPathTo
  <2>1. CASE segment_params_' = segment_params_ /\ current_segement_' = current_segement_
    BY <2>1 DEF ClockBounded, Clock, Duration, SegmentDuration, Done
  <2>2. CASE /\ Len(segment_params_') = Len(segment_params_) + 1 /\ current_segement_' = current_segement_
             /\ \A s \in 1 .. Len(segment_params_) : segment_params_'[s] = segment_params_[s]
             /\ segment_params_'[Len(segment_params_) + 1].current_time = All(0)
    <3>1. CASE current_segement_[c] = Len(segment_params_) + 1
      <4>1. Clock(c)' = 0
        BY <2>2, <3>1 DEF Clock, All
      <4>2. QED
        BY <1>1, <1>3, <4>1
    <3>2. CASE current_segement_[c] # Len(segment_params_) + 1
      <4>1. current_segement_[c] \in 1 .. Len(segment_params_)
        BY <1>1, <3>2
      <4>2. ~Done(c)
        BY <1>1, <4>1 DEF Done
      <4>3. Clock(c)' = Clock(c) /\ Duration(current_segement_[c], c)' = Duration(current_segement_[c], c)
        BY <2>2, <4>1 DEF Clock, Duration, SegmentDuration
      <4>4. QED
        BY <4>2, <4>3 DEF ClockBounded
    <3>3. QED
      BY <3>1, <3>2
  <2>3. QED
    BY <1>4, <2>1, <2>2, AddedFacts
<1>5. CASE ComputeTimings \/ UpdateLimits \/ Reset \/ RemoveAllPoints
  <2>1. Clock(c)' = 0
    BY <1>2, <1>5, RewindFacts DEF Clock
  <2>2. QED
    BY <1>1, <1>3, <2>1
<1>6. CASE EnableErrorTracking \/ DisableErrorTracking \/ UNCHANGED vars
  BY <1>6, TrackingFacts DEF ClockBounded, Clock, Duration, SegmentDuration, Done
<1>7. CASE Compute
  <2>1. PICK e \in Errors : (StopsAll(e) /\ PauseAll(e)) \/ (~StopsAll(e) /\ Advance(e))
    BY <1>7, ComputeFacts
  <2>2. CASE PauseAll(e)
    BY <2>2 DEF PauseAll, ClockBounded, Clock, Duration, SegmentDuration, Done
  <2>3. CASE Advance(e) /\ ~Moves(c, e)
    <3>1. ~Restarts(c, e)
      BY <2>3 DEF Restarts
    <3>2. /\ current_segement_'[c] = current_segement_[c] /\ Len(segment_params_') = Len(segment_params_)
          /\ \A s \in DOMAIN segment_params_ :
                segment_params_'[s].current_time[c] = segment_params_[s].current_time[c]
      BY <2>3, AdvanceFacts
    <3>3. ~Done(c) /\ current_segement_[c] \in DOMAIN segment_params_
             /\ current_segement_[c] \in 1 .. Len(segment_params_)
      BY <1>1, <1>2, <3>2, CurrentSegment DEF Done
    <3>4. Clock(c)' = Clock(c)
      BY <3>2, <3>3 DEF Clock
    <3>5. Duration(current_segement_[c], c)' = Duration(current_segement_[c], c)
      BY <2>3, <3>1, <3>2, <3>3, DurationsKept DEF Duration
    <3>6. QED
      BY <3>3, <3>4, <3>5 DEF ClockBounded
  <2>4. CASE Advance(e) /\ Moves(c, e)
    <3> DEFINE s == current_segement_[c]
               t == SampleClock(c, e)
               d == SegmentDuration(segment_params_', s, c)
    <3>1. /\ t \in Nat /\ d \in Nat
          /\ d < t => /\ current_segement_'[c] = s + 1
                      /\ s + 1 \in DOMAIN segment_params_ =>
                            segment_params_'[s + 1].current_time[c] = t - d
          /\ ~(d < t) => /\ current_segement_'[c] = s
                         /\ segment_params_'[s].current_time[c] = t + SampleTime
      BY <2>4, AdvanceFacts DEF SampleOf
    <3>2. Len(segment_params_') = Len(segment_params_) /\ DOMAIN segment_params_ = 1 .. Len(segment_params_)
      BY <2>4, AdvanceFacts, CurrentSegment
    <3>3. CASE ~(d < t)
      <4>1. Clock(c)' = t + SampleTime /\ Duration(current_segement_[c], c)' = d
        BY <3>1, <3>3 DEF Clock, Duration
      <4> HIDE DEF t, d
      <4>2. QED
        BY <1>1, <3>1, <3>3, <4>1
    <3>4. CASE d < t
      <4>1. ~Restarts(c, e)
        BY <3>1, <3>4 DEF SampleClock
      <4>2. s \in 1 .. Len(segment_params_) /\ ~Done(c)
        BY <2>4, <3>2, CurrentSegment DEF Moves
      <4>3. d = Duration(s, c) /\ t = Clock(c)
        BY <2>4, <4>1, <4>2, DurationsKept DEF Duration, SampleClock, Clock
      <4>4. t <= d + SampleTime
        BY <4>2, <4>3 DEF ClockBounded
      <4>5. Clock(c)' = t - d
        BY <1>2, <3>1, <3>2, <3>4 DEF Clock
      <4> HIDE DEF t, d
      <4>6. QED
        BY <1>1, <1>3, <3>1, <4>4, <4>5
    <3>5. QED
      BY <3>3, <3>4
  <2>5. QED
    BY <2>1, <2>2, <2>3, <2>4
<1>8. QED
  BY <1>4, <1>5, <1>6, <1>7 DEF Next

\* No clock is ever more than a sample past the end of its segment.
THEOREM ClocksBounded == Spec => []ClockBounded
<1>1. ASSUME Init PROVE ClockBounded
  <2>1. segment_params_ = <<>> /\ Len(<<>>) = 0
    BY <1>1, EmptySeq DEF Init
  <2>2. \A c \in Components : Done(c)
    BY <1>1, <2>1 DEF Init, All, Done
  <2>3. QED
    BY <2>2 DEF ClockBounded
<1>2. TypeOK /\ TypeOK' /\ ClockBounded /\ [Next]_vars => ClockBounded'
  BY ClockStep
<1>3. QED
  BY <1>1, <1>2, TypeCorrect, PTL DEF Spec

-----------------------------------------------------------------------------
(* The end                                                                  *)

\* Every operation keeps what is done at its end.
LEMMA AtEndStep ==
  ASSUME TypeOK, TypeOK', AtEnd, [Next]_vars
  PROVE  AtEnd'
<1> USE DEF clocks, outputs, errors
<1>1. /\ segment_params_ \in Seq(Segment) /\ segment_params_' \in Seq(Segment)
      /\ Len(segment_params_) \in Nat /\ Len(segment_params_') \in Nat
  BY LenProperties DEF TypeOK
<1> SUFFICES ASSUME regular', segment_params_' # <<>>, NEW c \in Components, Done(c)'
             PROVE  output'[c] = [segment |-> Len(segment_params_'),
                                  time |-> SegmentDuration(segment_params_', Len(segment_params_'), c)]
  BY DEF AtEnd, Duration
<1>2. Len(segment_params_') # 0 /\ current_segement_'[c] > Len(segment_params_')
      /\ current_segement_[c] <= Len(segment_params_) + 1 /\ current_segement_[c] \in Nat
  BY <1>1, EmptySeq, CurrentSegment DEF Done
<1>3. CASE AddPathTo
  <2>1. UNCHANGED <<current_segement_, regular, output>>
    BY <1>3, AddedFacts
  <2>2. Len(segment_params_') # Len(segment_params_) + 1
    BY <1>1, <1>2, <2>1
  <2>3. segment_params_' = segment_params_
    BY <1>3, <2>2, AddedFacts
  <2>4. QED
    BY <2>1, <2>3 DEF AtEnd, Duration, Done
<1>4. CASE ComputeTimings \/ UpdateLimits \/ Reset \/ RemoveAllPoints
  <2>1. current_segement_' = All(1)
    BY <1>4, RewindFacts
  <2>2. QED
    BY <1>1, <1>2, <2>1 DEF All
<1>5. CASE EnableErrorTracking \/ DisableErrorTracking \/ UNCHANGED vars
  BY <1>5, TrackingFacts DEF AtEnd, Duration, Done
<1>6. CASE Compute
  <2>1. PICK e \in Errors : /\ (StopsAll(e) /\ PauseAll(e)) \/ (~StopsAll(e) /\ Advance(e))
                            /\ regular' = regular
    BY <1>6, ComputeFacts
  <2>2. CASE PauseAll(e)
    BY <2>1, <2>2 DEF PauseAll, AtEnd, Duration, Done
  <2>3. CASE Advance(e)
    <3>1. Len(segment_params_') = Len(segment_params_)
      BY <2>3, AdvanceFacts
    <3>2. CASE Moves(c, e)
      <4>1. current_segement_[c] <= Len(segment_params_)
        BY <1>1, <1>2, <3>2 DEF Moves, Done
      <4>2. SampleOf(c, e)
        BY <2>3, <3>2, AdvanceFacts
      <4> DEFINE n == current_segement_[c]
                 t == SampleClock(c, e)
                 d == SegmentDuration(segment_params_', n, c)
      <4>3. /\ t \in Nat /\ d \in Nat
            /\ d < t => current_segement_'[c] = n + 1 /\ output'[c] = [segment |-> n, time |-> d]
            /\ ~(d < t) => current_segement_'[c] = n
        BY <4>2 DEF SampleOf
      <4> HIDE DEF t
      <4>4. current_segement_'[c] # n
        BY <1>1, <1>2, <3>1, <4>1
      <4>5. output'[c] = [segment |-> n, time |-> d] /\ current_segement_'[c] = n + 1
        BY <4>3, <4>4
      <4>6. n = Len(segment_params_')
        BY <1>1, <1>2, <3>1, <4>1, <4>5
      <4>7. QED
        BY <4>5, <4>6
    <3>3. CASE ~Moves(c, e)
      <4>1. /\ current_segement_'[c] = current_segement_[c] /\ output'[c] = output[c] /\ ~Restarts(c, e)
        BY <2>3, <3>3, AdvanceFacts DEF Restarts
      <4>2. Done(c) /\ segment_params_ # <<>>
        BY <1>1, <1>2, <3>1, <4>1, EmptySeq DEF Done
      <4>3. Len(segment_params_) \in 1 .. Len(segment_params_)
        BY <1>1, <1>2, <3>1
      <4>4. Duration(Len(segment_params_), c)' = Duration(Len(segment_params_), c)
        BY <2>3, <3>1, <4>1, <4>3, DurationsKept DEF Duration
      <4>5. QED
        BY <2>1, <3>1, <4>1, <4>2, <4>4 DEF AtEnd, Duration
    <3>4. QED
      BY <3>2, <3>3
  <2>4. QED
    BY <2>1, <2>2, <2>3
<1>7. QED
  BY <1>3, <1>4, <1>5, <1>6 DEF Next

\* compute() returns true only when every output is at the end of its path: a component
\* becomes done in the very call that sets its output to the end of its last segment.
THEOREM TrueOnlyAtTheEnd == Spec => TrueAtTheEnd
<1>1. ASSUME Init PROVE AtEnd
  BY <1>1 DEF Init, AtEnd
<1>2. TypeOK /\ TypeOK' /\ AtEnd /\ [Next]_vars => AtEnd'
  BY AtEndStep
<1>3. ASSUME TypeOK, AtEnd, [Next]_vars
      PROVE  [Computes /\ result' /\ regular /\ segment_params_ # <<>> =>
                \A c \in Components :
                   output'[c] = [segment |-> Len(segment_params_),
                                 time |-> SegmentDuration(segment_params_, Len(segment_params_), c)]]_vars
  <2> SUFFICES ASSUME Compute, result', regular, segment_params_ # <<>>, NEW c \in Components
               PROVE  output'[c] = [segment |-> Len(segment_params_),
                                    time |-> SegmentDuration(segment_params_, Len(segment_params_), c)]
    BY <1>3, ComputesOnly
  <2>1. PICK e \in Errors : (StopsAll(e) /\ PauseAll(e)) \/ (~StopsAll(e) /\ Advance(e))
    BY ComputeFacts
  <2>2. Advance(e)
    BY <2>1 DEF PauseAll
  <2>3. Done(c)
    BY <2>2, AdvanceFlags
  <2>4. output'[c] = output[c]
    BY <1>3, <2>2, <2>3, AdvanceFacts DEF Moves
  <2>5. QED
    BY <1>3, <2>3, <2>4 DEF AtEnd, Duration
<1>4. QED
  BY <1>1, <1>2, <1>3, TypeCorrect, PTL DEF Spec, TrueAtTheEnd

-----------------------------------------------------------------------------
(* Progress                                                                 *)

\* Every operation keeps the outputs in segments there are.
LEMMA PlacedStep ==
  ASSUME TypeOK, TypeOK', Placed, [Next]_vars
  PROVE  Placed'
<1> USE DEF clocks, outputs, errors
<1>1. /\ segment_params_ \in Seq(Segment) /\ segment_params_' \in Seq(Segment)
      /\ Len(segment_params_) \in Nat /\ Len(segment_params_') \in Nat
      /\ DOMAIN segment_params_ = 1 .. Len(segment_params_)
      /\ DOMAIN segment_params_' = 1 .. Len(segment_params_')
  BY LenProperties DEF TypeOK
<1> SUFFICES ASSUME ready', segment_params_' # <<>>, NEW c \in Components
             PROVE  output'[c].segment \in 1 .. Len(segment_params_')
  BY <1>1 DEF Placed
<1>2. Len(segment_params_') # 0
  BY <1>1, EmptySeq
<1>3. CASE AddPathTo
  BY <1>1, <1>3, AddedFacts DEF Placed
<1>4. CASE ComputeTimings \/ UpdateLimits
  <2>1. output' = All(Start)
    BY <1>4 DEF ComputeTimings, UpdateLimits, ComputeParameters
  <2>2. output'[c].segment = 1
    BY <2>1 DEF All, Start
  <2>3. QED
    BY <1>1, <1>2, <2>2
<1>5. CASE Reset
  <2>1. Len(segment_params_') = Len(segment_params_) /\ UNCHANGED <<output, ready>>
    BY <1>1, <1>5, RewoundFacts DEF Reset
  <2>2. segment_params_ # <<>>
    BY <1>1, <1>2, <2>1, EmptySeq
  <2>3. QED
    BY <1>1, <2>1, <2>2 DEF Placed
<1>6. CASE RemoveAllPoints
  BY <1>6 DEF RemoveAllPoints
<1>7. CASE EnableErrorTracking \/ DisableErrorTracking \/ UNCHANGED vars
  BY <1>1, <1>7, TrackingFacts DEF Placed
<1>8. CASE Compute
  <2>1. PICK e \in Errors : /\ (StopsAll(e) /\ PauseAll(e)) \/ (~StopsAll(e) /\ Advance(e))
                            /\ ready' = ready
    BY <1>8, ComputeFacts
  <2>2. CASE PauseAll(e)
    BY <1>1, <2>1, <2>2 DEF PauseAll, Placed
  <2>3. CASE Advance(e)
    <3>1. Len(segment_params_') = Len(segment_params_) /\ segment_params_ # <<>>
      BY <1>1, <1>2, <2>3, AdvanceFacts, EmptySeq
    <3>2. CASE Moves(c, e)
      <4>1. SampleOf(c, e)
        BY <2>3, <3>2, AdvanceFacts
      <4>2. output'[c].segment = current_segement_[c]
        BY <4>1 DEF SampleOf
      <4>3. QED
        BY <1>1, <3>1, <3>2, <4>2, CurrentSegment DEF Moves
    <3>3. CASE ~Moves(c, e)
      BY <1>1, <2>1, <2>3, <3>1, <3>3, AdvanceFacts DEF Placed
    <3>4. QED
      BY <3>2, <3>3
  <2>4. QED
    BY <2>1, <2>2, <2>3
<1>9. QED
  BY <1>3, <1>4, <1>5, <1>6, <1>7, <1>8 DEF Next

\* Before a segment come the ones with a smaller index.
LEMMA BeforeFacts ==
  ASSUME NEW segments \in Seq(Segment), NEW c \in Components
  PROVE  /\ Before(segments, 1, c) = 0
         /\ \A s \in 1 .. Len(segments) + 1 : Before(segments, s, c) \in Int
         /\ \A s \in 1 .. Len(segments) :
               Before(segments, s + 1, c) = Before(segments, s, c) + SegmentDuration(segments, s, c)
<1> DEFINE f == [i \in DOMAIN segments |-> SegmentDuration(segments, i, c)]
<1>1. DOMAIN segments = 1 .. Len(segments) /\ Len(segments) \in Nat
  BY LenProperties
<1>2. \A i \in 1 .. Len(segments) : f[i] \in Int /\ f[i] = SegmentDuration(segments, i, c)
  BY <1>1, DurationFacts
<1>3. \A s : Before(segments, s, c) = Sum(f, 1, s - 1)
  BY DEF Before
<1> HIDE DEF f
<1>4. /\ Sum(f, 1, 0) = 0
      /\ \A n \in Nat : n <= Len(segments) => Sum(f, 1, n) \in Int
      /\ \A n \in Nat : n + 1 <= Len(segments) => Sum(f, 1, n + 1) = Sum(f, 1, n) + f[n + 1]
  BY <1>1, <1>2, SumFromOne
<1>5. ASSUME NEW s \in 1 .. Len(segments) + 1
      PROVE  Before(segments, s, c) \in Int
  <2>1. s - 1 \in Nat /\ s - 1 <= Len(segments)
    BY <1>1
  <2>2. QED
    BY <1>3, <1>4, <2>1
<1>6. ASSUME NEW s \in 1 .. Len(segments)
      PROVE  Before(segments, s + 1, c) = Before(segments, s, c) + SegmentDuration(segments, s, c)
  <2>1. s - 1 \in Nat /\ (s - 1) + 1 = s /\ (s - 1) + 1 <= Len(segments) /\ (s + 1) - 1 = s
    BY <1>1
  <2>2. Sum(f, 1, s) = Sum(f, 1, s - 1) + f[s]
    BY <1>4, <2>1
  <2>3. Before(segments, s + 1, c) = Sum(f, 1, s) /\ Before(segments, s, c) = Sum(f, 1, s - 1)
    BY <1>3, <2>1
  <2>4. QED
    BY <1>2, <2>2, <2>3
<1>7. Before(segments, 1, c) = 0
  BY <1>3, <1>4
<1>8. QED
  BY <1>5, <1>6, <1>7

\* What comes before a segment depends on the durations only.
LEMMA BeforeKept ==
  ASSUME NEW segments \in Seq(Segment), NEW others \in Seq(Segment), Len(others) = Len(segments),
         NEW c \in Components,
         \A s \in 1 .. Len(segments) : SegmentDuration(others, s, c) = SegmentDuration(segments, s, c)
  PROVE  \A s : Before(others, s, c) = Before(segments, s, c)
<1>1. DOMAIN segments = 1 .. Len(segments) /\ DOMAIN others = 1 .. Len(segments)
  BY LenProperties
<1>2. [i \in DOMAIN others |-> SegmentDuration(others, i, c)]
         = [i \in DOMAIN segments |-> SegmentDuration(segments, i, c)]
  BY <1>1
<1>3. QED
  BY <1>2 DEF Before

\* The clock of a component that goes on was read for its output a sample ago: the output is
\* in its segment at that time, or at the end of the segment it has just left.
FollowsClock(c) ==
    LET s == current_segement_[c]
        t == Clock(c)
    IN  \/ /\ t >= SampleTime
           /\ output[c] = [segment |-> s, time |-> Min({t - SampleTime, Duration(s, c)})]
        \/ /\ s > 1 /\ t <= SampleTime
           /\ output[c] = [segment |-> s - 1, time |-> Duration(s - 1, c)]

Follows ==
    ~fresh => \A c \in Components : ~Done(c) /\ state[c] = "Running" => FollowsClock(c)

\* compute() leaves the outputs one sample behind the clocks.
LEMMA FollowsStep ==
  ASSUME TypeOK, TypeOK', ClockBounded, Follows, [Next]_vars
  PROVE  Follows'
<1> USE DEF clocks, outputs, errors
<1> SUFFICES ASSUME ~fresh', NEW c \in Components, ~Done(c)', state'[c] = "Running"
             PROVE  FollowsClock(c)'
  BY DEF Follows
<1>1. /\ segment_params_ \in Seq(Segment) /\ segment_params_' \in Seq(Segment)
      /\ Len(segment_params_) \in Nat /\ SampleTime \in Nat
      /\ current_segement_[c] \in Nat \ {0} /\ current_segement_'[c] \in Nat \ {0}
  <2>1. current_segement_'[c] \in 1 .. Len(segment_params_') + 1 /\ segment_params_' \in Seq(Segment)
    BY DEF TypeOK
  <2>2. current_segement_'[c] \in Nat \ {0}
    BY <2>1, LenProperties
  <2>3. QED
    BY <2>1, <2>2, TimesAssumption, LenProperties, CurrentSegment DEF TypeOK
<1>2. CASE AddPathTo \/ ComputeTimings \/ UpdateLimits \/ Reset \/ RemoveAllPoints
           \/ EnableErrorTracking \/ DisableErrorTracking
  BY <1>2 DEF AddPathTo, ComputeTimings, UpdateLimits, Reset, RemoveAllPoints, EnableErrorTracking,
              DisableErrorTracking, Call
<1>3. CASE UNCHANGED vars
  BY <1>3 DEF vars, Follows, FollowsClock, Clock, Duration, SegmentDuration, Done
<1>4. CASE Compute
  <2>1. PICK e \in Errors : (StopsAll(e) /\ PauseAll(e)) \/ (~StopsAll(e) /\ Advance(e))
    BY <1>4, ComputeFacts
  <2>2. CASE PauseAll(e)
    BY <2>2 DEF PauseAll, Follows, FollowsClock, Clock, Duration, SegmentDuration, Done
  <2>3. CASE Advance(e)
    <3>1. /\ current_segement_[c] \in Nat \ {0} /\ Len(segment_params_') = Len(segment_params_)
          /\ DOMAIN segment_params_ = 1 .. Len(segment_params_)
          /\ Done(c) <=> current_segement_[c] \notin DOMAIN segment_params_
      BY <2>3, AdvanceFacts, CurrentSegment
    <3>2. Moves(c, e)
      <4>1. state'[c] = CASE Blocked(c, e) -> "Paused" [] Moves(c, e) -> "Running" [] OTHER -> state[c]
        BY <2>3, AdvanceFlags
      <4>2. ~Blocked(c, e)
        BY <4>1 DEF Moves
      <4>3. ASSUME ~Moves(c, e) PROVE FALSE
        <5>1. current_segement_'[c] = current_segement_[c]
          BY <2>3, <4>3, AdvanceFacts
        <5>2. ~Done(c)
          BY <3>1, <5>1 DEF Done
        <5>3. QED
          BY <4>2, <4>3, <5>2 DEF Moves
      <4>4. QED
        BY <4>3
    <3> DEFINE s == current_segement_[c]
               t == SampleClock(c, e)
               d == SegmentDuration(segment_params_', s, c)
    <3>3. /\ t \in Nat /\ d \in Nat
          /\ d < t => /\ current_segement_'[c] = s + 1
                      /\ output'[c] = [segment |-> s, time |-> d]
                      /\ s + 1 \in DOMAIN segment_params_ =>
                            segment_params_'[s + 1].current_time[c] = t - d
          /\ ~(d < t) => /\ current_segement_'[c] = s
                         /\ output'[c] = [segment |-> s, time |-> t]
                         /\ segment_params_'[s].current_time[c] = t + SampleTime
      <4>1. SampleOf(c, e)
        BY <2>3, <3>2, AdvanceFacts
      <4>2. QED
        BY <4>1 DEF SampleOf
    <3>4. CASE ~(d < t)
      <4> DEFINE n == current_segement_'[c]
      <4>1. Clock(c)' = t + SampleTime /\ SegmentDuration(segment_params_', n, c) = d /\ n = s
        BY <3>3, <3>4 DEF Clock
      <4> HIDE DEF t, d
      <4>2. t + SampleTime >= SampleTime /\ (t + SampleTime) - SampleTime = t
        BY <1>1, <3>3
      <4>3. Min({t, d}) = t
        BY <3>3, <3>4 DEF Min
      <4>4. Clock(c)' >= SampleTime /\ Clock(c)' - SampleTime = t
        BY <4>1, <4>2
      <4>5. output'[c] = [segment |-> n, time |-> Min({Clock(c)' - SampleTime, SegmentDuration(segment_params_', n, c)})]
        BY <3>3, <3>4, <4>1, <4>3, <4>4
      <4>6. QED
        BY <4>4, <4>5 DEF FollowsClock, Duration
    <3>5. CASE d < t
      <4>1. ~Restarts(c, e)
        BY <3>3, <3>5 DEF SampleClock
      <4>2. s \in 1 .. Len(segment_params_) /\ ~Done(c)
        BY <3>1, <3>2 DEF Moves
      <4>3. d = Duration(s, c) /\ t = Clock(c)
        BY <2>3, <4>1, <4>2, DurationsKept DEF Duration, SampleClock, Clock
      <4>4. t <= d + SampleTime
        BY <4>2, <4>3 DEF ClockBounded
      <4> DEFINE n == current_segement_'[c]
      <4>5. n = s + 1 /\ s + 1 \in DOMAIN segment_params_
        BY <1>1, <3>1, <3>3, <3>5 DEF Done
      <4>6. Clock(c)' = t - d
        BY <3>3, <3>5, <4>5 DEF Clock
      <4>7. Clock(c)' <= SampleTime
        <5> HIDE DEF t, d
        <5>1. QED
          BY <1>1, <3>3, <4>4, <4>6
      <4>8. n > 1 /\ n - 1 = s
        BY <1>1, <4>5
      <4>9. output'[c] = [segment |-> n - 1, time |-> SegmentDuration(segment_params_', n - 1, c)]
        BY <3>3, <3>5, <4>8
      <4>10. QED
        BY <4>7, <4>8, <4>9 DEF FollowsClock, Duration
    <3>6. QED
      BY <3>4, <3>5
  <2>4. QED
    BY <2>1, <2>2, <2>3
<1>5. QED
  BY <1>2, <1>3, <1>4 DEF Next

\* An output never jumps and never goes back: from one compute() to the next it advances by
\* at most a sample along the path, over waypoints too, where the clock of the segment that
\* is left is read once more at its end and that of the next starts with what was too late.
THEOREM AdvancedOneSample == Spec => AdvancesOneSample
<1>1. Init => Placed /\ Follows
  BY DEF Init, Placed, Follows
<1>2. /\ TypeOK /\ TypeOK' /\ Placed /\ [Next]_vars => Placed'
      /\ TypeOK /\ TypeOK' /\ ClockBounded /\ Follows /\ [Next]_vars => Follows'
  BY PlacedStep, FollowsStep
<1>3. ASSUME TypeOK, Placed, Follows, [Next]_vars
      PROVE  [Computes /\ ~fresh /\ segment_params_ # <<>> =>
                \A c \in Components : state[c] = "Running" =>
                   Along(segment_params_, output'[c], c) - Along(segment_params_, output[c], c)
                      \in 0 .. SampleTime]_vars
  <2> SUFFICES ASSUME Compute, ~fresh, segment_params_ # <<>>, NEW c \in Components,
                      state[c] = "Running"
               PROVE  Along(segment_params_, output'[c], c) - Along(segment_params_, output[c], c)
                         \in 0 .. SampleTime
    BY <1>3, ComputesOnly
  <2> DEFINE B(n) == Before(segment_params_, n, c)
  <2>1. /\ segment_params_ \in Seq(Segment) /\ Len(segment_params_) \in Nat /\ SampleTime \in Nat
        /\ DOMAIN segment_params_ = 1 .. Len(segment_params_)
        /\ output[c] \in [segment : Nat, time : Nat] /\ output[c].segment \in DOMAIN segment_params_
    BY <1>3, TimesAssumption, LenProperties DEF TypeOK, Placed, Compute
  <2>2. /\ \A n \in 1 .. Len(segment_params_) + 1 : B(n) \in Int
        /\ \A n \in 1 .. Len(segment_params_) : B(n + 1) = B(n) + Duration(n, c)
    BY <2>1, BeforeFacts DEF Duration
  <2>3. CASE output'[c] = output[c]
    <3>1. Along(segment_params_, output[c], c) = B(output[c].segment) + output[c].time
      BY DEF Along
    <3>2. B(output[c].segment) \in Int /\ output[c].time \in Nat
      BY <2>1, <2>2
    <3>3. Along(segment_params_, output[c], c) \in Int
      BY <3>1, <3>2
    <3>4. QED
      BY <2>1, <2>3, <3>3
  <2>4. PICK e \in Errors : (StopsAll(e) /\ PauseAll(e)) \/ (~StopsAll(e) /\ Advance(e))
    BY ComputeFacts
  <2>5. CASE PauseAll(e)
    BY <2>3, <2>5 DEF PauseAll
  <2>6. CASE Advance(e) /\ ~Moves(c, e)
    BY <1>3, <2>3, <2>6, AdvanceFacts
  <2>7. CASE Advance(e) /\ Moves(c, e)
    <3> DEFINE n == current_segement_[c]
               t == Clock(c)
               d == Duration(n, c)
    <3>1. ~Restarts(c, e) /\ ~Done(c)
      BY <2>7 DEF Restarts, Moves
    <3>2. n \in 1 .. Len(segment_params_) /\ n \in Nat
      BY <1>3, <2>1, <3>1, CurrentSegment
    <3>3. SampleClock(c, e) = t /\ SegmentDuration(segment_params_', n, c) = d
      BY <1>3, <2>7, <3>1, <3>2, DurationsKept DEF Duration, SampleClock, Clock
    <3>4. /\ t \in Nat /\ d \in Nat
          /\ output'[c] = [segment |-> n, time |-> IF d < t THEN d ELSE t]
      <4>1. SampleOf(c, e)
        BY <1>3, <2>7, AdvanceFacts
      <4>2. QED
        BY <3>3, <4>1 DEF SampleOf
    <3>5. FollowsClock(c)
      BY <1>3, <3>1 DEF Follows
    <3>6. Along(segment_params_, output'[c], c) = B(n) + (IF d < t THEN d ELSE t)
      BY <3>4 DEF Along
    <3>7. B(n) \in Int
      BY <2>2, <3>2
    <3>8. CASE t >= SampleTime /\ output[c] = [segment |-> n, time |-> Min({t - SampleTime, d})]
      <4>1. Along(segment_params_, output[c], c) = B(n) + Min({t - SampleTime, d})
        BY <3>8 DEF Along
      <4> HIDE DEF t, d, B
      <4>2. Min({t - SampleTime, d}) = IF d < t - SampleTime THEN d ELSE t - SampleTime
        BY <2>1, <3>4 DEF Min
      <4>3. QED
        BY <2>1, <3>4, <3>6, <3>7, <3>8, <4>1, <4>2
    <3>9. CASE n > 1 /\ t <= SampleTime /\ output[c] = [segment |-> n - 1, time |-> Duration(n - 1, c)]
      <4>1. Along(segment_params_, output[c], c) = B(n - 1) + Duration(n - 1, c)
        BY <3>9 DEF Along
      <4>2. n - 1 \in 1 .. Len(segment_params_) /\ (n - 1) + 1 = n
        BY <2>1, <3>2, <3>9
      <4>3. B(n) = B(n - 1) + Duration(n - 1, c)
        BY <2>2, <4>2
      <4> HIDE DEF t, d, B
      <4>4. QED
        BY <2>1, <3>4, <3>6, <3>7, <3>9, <4>1, <4>3
    <3>10. QED
      BY <3>5, <3>8, <3>9 DEF FollowsClock
  <2>8. QED
    BY <2>4, <2>5, <2>6, <2>7
<1>4. QED
  BY <1>1, <1>2, <1>3, TypeCorrect, ClocksBounded, PTL DEF Spec, AdvancesOneSample

\* Without error tracking no component is ever held.
LEMMA NeverHeld ==
  ASSUME TypeOK, StatesAgree, Compute, tracking = "never"
  PROVE  \E e \in Errors :
            /\ Advance(e)
            /\ \A c \in Components : (Moves(c, e) <=> ~Done(c)) /\ ~Restarts(c, e)
<1>1. PICK e \in Errors : (StopsAll(e) /\ PauseAll(e)) \/ (~StopsAll(e) /\ Advance(e))
  BY ComputeFacts
<1>2. \A c \in Components : ~Blocked(c, e)
  BY DEF Blocked
<1>3. \A c \in Components : state[c] = "Running"
  BY DEF StatesAgree, All
<1>4. QED
  BY <1>1, <1>2, <1>3 DEF StopsAll, Moves, Restarts

OnTime(c) ==
    LET s    == current_segement_[c]
        took == elapsed[c] * SampleTime
        due  == Before(segment_params_, s, c) + (s - 1) * SampleTime
    IN  IF Done(c) THEN s > 1 => took > due /\ took <= due + SampleTime
        ELSE took = due + segment_params_[s].current_time[c]

\* Every operation keeps the count of samples.
LEMMA OnTimeStep ==
  ASSUME TypeOK, TypeOK', StatesAgree, ClockBounded, OneSamplePerWaypoint, [Next]_vars
  PROVE  OneSamplePerWaypoint'
<1> USE DEF clocks, outputs, errors
<1> SUFFICES ASSUME regular', ready', tracking' = "never", NEW c \in Components
             PROVE  OnTime(c)'
  BY DEF OneSamplePerWaypoint, OnTime
<1>1. /\ segment_params_ \in Seq(Segment) /\ Len(segment_params_) \in Nat
      /\ SampleTime \in Nat /\ elapsed[c] \in Nat /\ current_segement_[c] \in Nat \ {0}
      /\ DOMAIN segment_params_ = 1 .. Len(segment_params_)
  BY TimesAssumption, LenProperties, CurrentSegment DEF TypeOK
<1>2. CASE AddPathTo
  <2>1. UNCHANGED <<segment_params_, ready, current_segement_, errors, regular, elapsed>>
    BY <1>2, AddedFacts
  <2>2. QED
    BY <2>1 DEF OneSamplePerWaypoint, OnTime, Done
<1>3. CASE ComputeTimings \/ UpdateLimits \/ Reset \/ RemoveAllPoints
  <2>1. /\ segment_params_' \in Seq(Segment) /\ Len(segment_params_') \in Nat
        /\ current_segement_'[c] = 1 /\ elapsed'[c] = 0
        /\ \A s \in 1 .. Len(segment_params_') : segment_params_'[s].current_time[c] = 0
    BY <1>3, RewindFacts DEF All
  <2>2. Before(segment_params_', 1, c) = 0
    BY <2>1, BeforeFacts
  <2>3. 0 * SampleTime = 0 /\ (1 - 1) * SampleTime = 0
    BY <1>1
  <2>4. ~Done(c)' => segment_params_'[1].current_time[c] = 0
    BY <2>1 DEF Done
  <2>5. QED
    BY <2>1, <2>2, <2>3, <2>4 DEF OnTime
<1>4. CASE EnableErrorTracking \/ DisableErrorTracking
  BY <1>4 DEF EnableErrorTracking, DisableErrorTracking
<1>5. CASE UNCHANGED vars
  BY <1>5 DEF vars, OneSamplePerWaypoint, OnTime, Done
<1>6. CASE Compute
  <2>1. UNCHANGED <<regular, ready, tracking>>
    BY <1>6, ComputeFacts
  <2>2. OnTime(c)
    BY <2>1 DEF OneSamplePerWaypoint, OnTime
  <2>3. PICK e \in Errors : /\ Advance(e) /\ (Moves(c, e) <=> ~Done(c)) /\ ~Restarts(c, e)
    BY <1>6, <2>1, NeverHeld
  <2> DEFINE n == current_segement_[c]
             B(k) == Before(segment_params_, k, c)
  <2>4. /\ segment_params_' \in Seq(Segment) /\ Len(segment_params_') = Len(segment_params_)
        /\ \A k : Before(segment_params_', k, c) = B(k)
    <3>1. segment_params_' \in Seq(Segment) /\ Len(segment_params_') = Len(segment_params_)
      BY <2>3, AdvanceFacts
    <3>2. \A s \in 1 .. Len(segment_params_) :
             SegmentDuration(segment_params_', s, c) = SegmentDuration(segment_params_, s, c)
      BY <2>3, DurationsKept DEF Duration
    <3>3. QED
      BY <1>1, <3>1, <3>2, BeforeKept
  <2>5. elapsed'[c] = IF Moves(c, e) THEN elapsed[c] + 1 ELSE elapsed[c]
    BY <2>1, <2>3, AdvanceFlags
  <2>6. CASE Done(c)
    <3>1. current_segement_'[c] = n /\ elapsed'[c] = elapsed[c] /\ Done(c)'
      BY <2>3, <2>4, <2>5, <2>6, AdvanceFacts DEF Done
    <3>2. QED
      BY <2>2, <2>4, <2>6, <3>1 DEF OnTime
  <2>7. CASE ~Done(c)
    <3> DEFINE t == Clock(c)
               d == Duration(n, c)
               took == elapsed[c] * SampleTime
               spent == (n - 1) * SampleTime
    <3>1. n \in 1 .. Len(segment_params_)
      BY <1>1, <2>7, CurrentSegment
    <3>2. SampleClock(c, e) = t /\ SegmentDuration(segment_params_', n, c) = d
      BY <2>3, <3>1, DurationsKept DEF Duration, SampleClock, Clock
    <3>3. /\ t \in Nat /\ d \in Nat
          /\ d < t => /\ current_segement_'[c] = n + 1
                      /\ n + 1 \in DOMAIN segment_params_ =>
                            segment_params_'[n + 1].current_time[c] = t - d
          /\ ~(d < t) => /\ current_segement_'[c] = n
                         /\ segment_params_'[n].current_time[c] = t + SampleTime
      <4>1. SampleOf(c, e)
        BY <2>3, <2>7, AdvanceFacts
      <4>2. QED
        BY <3>2, <4>1 DEF SampleOf
    <3>4. took = B(n) + spent + t
      BY <2>2, <2>7 DEF OnTime, Clock
    <3>5. took \in Int /\ elapsed'[c] * SampleTime = took + SampleTime
      <4>1. (elapsed[c] + 1) * SampleTime = elapsed[c] * SampleTime + SampleTime
            /\ elapsed[c] * SampleTime \in Int
        BY <1>1, NextMultiple
      <4>2. QED
        BY <2>3, <2>5, <2>7, <4>1
    <3>6. spent \in Int /\ ((n + 1) - 1) * SampleTime = spent + SampleTime
      <4>1. n - 1 \in Int /\ (n - 1) + 1 = (n + 1) - 1
        BY <3>1
      <4>2. QED
        BY <1>1, <4>1, NextMultiple
    <3>7. B(n) \in Int /\ B(n + 1) = B(n) + d
      <4>1. n \in 1 .. Len(segment_params_) + 1
        BY <1>1, <3>1
      <4>2. QED
        BY <1>1, <3>1, <4>1, BeforeFacts DEF Duration
    <3>8. t <= d + SampleTime
      BY <2>7 DEF ClockBounded
    <3> HIDE DEF took, spent, t, d, B
    <3>9. CASE ~(d < t)
      <4>1. current_segement_'[c] = n /\ ~Done(c)'
        BY <2>4, <2>7, <3>3, <3>9 DEF Done
      <4>2. elapsed'[c] * SampleTime = B(n) + spent + segment_params_'[n].current_time[c]
        BY <1>1, <3>3, <3>4, <3>5, <3>6, <3>7, <3>9
      <4>3. Before(segment_params_', n, c) = B(n)
        BY <2>4
      <4>4. QED
        BY <4>1, <4>2, <4>3 DEF OnTime, spent
    <3>10. CASE d < t
      <4>1. current_segement_'[c] = n + 1 /\ n + 1 > 1
        BY <3>1, <3>3, <3>10
      <4>2. Before(segment_params_', n + 1, c) = B(n) + d
        BY <2>4, <3>7
      <4> DEFINE due == Before(segment_params_', n + 1, c) + ((n + 1) - 1) * SampleTime
      <4>3. due = B(n) + d + (spent + SampleTime)
        BY <4>2, <3>6
      <4>4. elapsed'[c] * SampleTime = due + (t - d)
        BY <1>1, <3>3, <3>4, <3>5, <3>6, <3>7, <4>3
      <4>5. due \in Int
        BY <1>1, <3>3, <3>6, <3>7, <4>3
      <4>6. Done(c)' \/ segment_params_'[n + 1].current_time[c] = t - d
        <5>1. n + 1 \in DOMAIN segment_params_ \/ Done(c)'
          BY <1>1, <2>4, <3>1, <4>1 DEF Done
        <5>2. QED
          BY <3>3, <3>10, <5>1
      <4> HIDE DEF due
      <4>7. elapsed'[c] * SampleTime > due /\ elapsed'[c] * SampleTime <= due + SampleTime
        BY <1>1, <3>3, <3>8, <3>10, <4>4, <4>5
      <4>8. QED
        BY <4>1, <4>4, <4>6, <4>7 DEF OnTime, due
    <3>11. QED
      BY <3>9, <3>10
  <2>8. QED
    BY <2>6, <2>7
<1>7. QED
  BY <1>2, <1>3, <1>4, <1>5, <1>6 DEF Next

\* A trajectory that nothing disturbs takes the duration of its segments and one sample for
\* each waypoint it passes, for every number of segments and every duration.
THEOREM OneSampleEach == Spec => []OneSamplePerWaypoint
<1>1. ASSUME Init PROVE OneSamplePerWaypoint
  <2>1. segment_params_ = <<>> /\ Len(<<>>) = 0 /\ \A c \in Components : current_segement_[c] = 1
    BY <1>1, EmptySeq DEF Init, All
  <2>2. \A c \in Components : Done(c)
    BY <2>1 DEF Done
  <2>3. QED
    BY <2>1, <2>2 DEF OneSamplePerWaypoint
<1>2. /\ TypeOK /\ TypeOK' /\ StatesAgree /\ ClockBounded /\ OneSamplePerWaypoint /\ [Next]_vars
         => OneSamplePerWaypoint'
  BY OnTimeStep
<1>3. QED
  BY <1>1, <1>2, TypeCorrect, StatesHold, ClocksBounded, PTL DEF Spec

-----------------------------------------------------------------------------
(* Synchronisation                                                          *)

\* The times of a trajectory that is ready are times that the limits may impose.
Measures ==
    ready => \A s \in 1 .. Len(segment_params_), c \in Components :
                segment_params_[s].minimum_time[c] \in Durations

\* Every operation keeps the times among those of the limits.
LEMMA MeasuresStep ==
  ASSUME TypeOK, Measures, [Next]_vars
  PROVE  Measures'
<1> USE DEF clocks, outputs, errors
<1>1. segment_params_ \in Seq(Segment) /\ DOMAIN segment_params_ = 1 .. Len(segment_params_)
  BY LenProperties DEF TypeOK
<1> SUFFICES ASSUME ready', NEW s \in 1 .. Len(segment_params_'), NEW c \in Components
             PROVE  segment_params_'[s].minimum_time[c] \in Durations
  BY DEF Measures
<1>2. CASE AddPathTo
  <2>1. UNCHANGED <<segment_params_, ready>>
    BY <1>2, AddedFacts
  <2>2. QED
    BY <2>1 DEF Measures
<1>3. CASE ComputeTimings
  <2>1. PICK segments \in Seq(Segment) :
           \A i \in 1 .. Len(Points) :
              /\ segment_params_'[i].minimum_time = segments[i].minimum_time
              /\ \A d \in Components : segments[i].minimum_time[d] \in Durations
    BY <1>3, ComputeTimingsFacts
  <2>2. Len(segment_params_') = Len(Points)
    BY <1>3, ComputeTimingsFacts
  <2>3. QED
    BY <2>1, <2>2
<1>4. CASE UpdateLimits
  <2>1. current_segement_ \in [Components -> Nat \ {0}]
    BY CurrentSegment DEF TypeOK
  <2>2. ComputeParameters(ComputePaddingTime(segment_params_, current_segement_)) /\ ready
    BY <1>4 DEF UpdateLimits
  <2>3. /\ Len(segment_params_') = Len(segment_params_)
        /\ \A i \in 1 .. Len(segment_params_) :
              segment_params_'[i].minimum_time = segment_params_[i].minimum_time
    BY <1>1, <2>1, <2>2, PreparedFacts
  <2>4. QED
    BY <2>2, <2>3 DEF Measures
<1>5. CASE Reset
  <2>1. /\ Len(segment_params_') = Len(segment_params_) /\ ready' = ready
        /\ \A i \in 1 .. Len(segment_params_) :
              segment_params_'[i].minimum_time = segment_params_[i].minimum_time
    BY <1>1, <1>5, RewoundFacts DEF Reset
  <2>2. QED
    BY <2>1 DEF Measures
<1>6. CASE RemoveAllPoints
  <2>1. Len(segment_params_') = 0
    BY <1>6, EmptySeq DEF RemoveAllPoints
  <2>2. QED
    BY <2>1
<1>7. CASE EnableErrorTracking \/ DisableErrorTracking \/ UNCHANGED vars
  BY <1>7, TrackingFacts DEF Measures
<1>8. CASE Compute
  <2>1. PICK e \in Errors : /\ (StopsAll(e) /\ PauseAll(e)) \/ (~StopsAll(e) /\ Advance(e))
                            /\ ready' = ready
    BY <1>8, ComputeFacts
  <2>2. CASE PauseAll(e)
    BY <2>1, <2>2 DEF PauseAll, Measures
  <2>3. CASE Advance(e)
    <3>1. Len(segment_params_') = Len(segment_params_)
      BY <2>3, AdvanceFacts
    <3>2. segment_params_'[s].minimum_time[c] \in {segment_params_[s].minimum_time[c]} \union Durations
      <4>1. CASE Restarts(c, e) /\ s = current_segement_[c]
        BY <1>1, <2>3, <3>1, <4>1, AdvanceFacts
      <4>2. CASE ~(Restarts(c, e) /\ s = current_segement_[c])
        BY <1>1, <2>3, <3>1, <4>2, AdvanceFacts
      <4>3. QED
        BY <4>1, <4>2
    <3>3. QED
      BY <2>1, <3>1, <3>2 DEF Measures
  <2>4. QED
    BY <2>1, <2>2, <2>3
<1>9. QED
  BY <1>2, <1>3, <1>4, <1>5, <1>6, <1>7, <1>8 DEF Next

\* A trajectory that is timed at its start has the padding of every segment from there.
LEMMA TimedFromStart ==
  ASSUME TypeOK, TypeOK', Measures, ComputeTimings \/ UpdateLimits, regular'
  PROVE  \E segments \in Seq(Segment) :
            /\ Len(segments) = Len(segment_params_') /\ Len(segments) <= MaxSegments
            /\ \A s \in 1 .. Len(segments), c \in Components :
                  /\ segments[s].minimum_time[c] \in Durations
                  /\ segment_params_'[s].minimum_time[c] = segments[s].minimum_time[c]
                  /\ segment_params_'[s].padding_time[c] = PaddingTime(segments, 1, s, c)
<1>1. Len(segment_params_') <= MaxSegments
  BY DEF TypeOK
<1>2. current_segement_' = All(1) /\ \A c \in Components : All(1)[c] = 1
  BY RewindFacts DEF All
<1>3. CASE ComputeTimings
  <2>1. PICK segments \in Seq(Segment) :
           /\ Len(segments) = Len(Points)
           /\ \A s \in 1 .. Len(Points) :
                 /\ segment_params_'[s].minimum_time = segments[s].minimum_time
                 /\ \A c \in Components :
                       /\ segments[s].minimum_time[c] \in Durations
                       /\ s >= Origin[c] => segment_params_'[s].padding_time[c]
                                             = PaddingTime(segments, Origin[c], s, c)
    BY <1>3, ComputeTimingsFacts
  <2>2. Len(segment_params_') = Len(Points) /\ Origin = All(1)
    BY <1>2, <1>3, ComputeTimingsFacts
  <2>3. QED
    BY <1>1, <1>2, <2>1, <2>2
<1>4. CASE UpdateLimits
  <2>1. /\ current_segement_ = All(1) /\ ready
        /\ ComputeParameters(ComputePaddingTime(segment_params_, current_segement_))
    BY <1>2, <1>4 DEF UpdateLimits
  <2>2. All(1) \in [Components -> Nat \ {0}] /\ segment_params_ \in Seq(Segment)
    BY DEF All, TypeOK
  <2>3. /\ Len(segment_params_') = Len(segment_params_)
        /\ \A s \in 1 .. Len(segment_params_) :
              /\ segment_params_'[s].minimum_time = segment_params_[s].minimum_time
              /\ \A c \in Components : s >= All(1)[c] =>
                    segment_params_'[s].padding_time[c] = PaddingTime(segment_params_, All(1)[c], s, c)
    BY <2>1, <2>2, PreparedFacts
  <2>4. \A s \in 1 .. Len(segment_params_), c \in Components :
           segment_params_[s].minimum_time[c] \in Durations
    BY <2>1 DEF Measures
  <2>5. QED
    BY <1>1, <1>2, <2>2, <2>3, <2>4
<1>5. QED
  BY <1>3, <1>4

\* With the padding up to the longest component each segment lasts the same for all.
LEMMA PaddedWaypoints ==
  ASSUME TypeOK, TypeOK', Measures, ComputeTimings \/ UpdateLimits, regular',
         options.sync = "SynchronizeWaypoints", NEW c \in Components, NEW d \in Components,
         NEW s \in 1 .. Len(segment_params_')
  PROVE  Duration(s, c)' = Duration(s, d)'
<1>1. PICK segments \in Seq(Segment) :
         /\ Len(segments) = Len(segment_params_')
         /\ \A i \in 1 .. Len(segments), k \in Components :
               /\ segment_params_'[i].minimum_time[k] = segments[i].minimum_time[k]
               /\ segment_params_'[i].padding_time[k] = PaddingTime(segments, 1, i, k)
  BY TimedFromStart
<1>2. s \in DOMAIN segments /\ s \in 1 .. Len(segments)
  BY <1>1, LenProperties
<1>3. segments[s] \in Segment /\ Longest(segments, s) \in Nat
  BY <1>2, LongestFacts
<1>4. ASSUME NEW k \in Components
      PROVE  SegmentDuration(segment_params_', s, k) = Longest(segments, s)
  <2>1. PaddingTime(segments, 1, s, k) = Longest(segments, s) - segments[s].minimum_time[k]
    BY DEF PaddingTime
  <2>2. segments[s].minimum_time[k] \in Nat
    BY <1>3 DEF Segment
  <2>3. SegmentDuration(segment_params_', s, k)
           = segments[s].minimum_time[k] + (Longest(segments, s) - segments[s].minimum_time[k])
    BY <1>1, <1>2, <2>1 DEF SegmentDuration
  <2>4. QED
    BY <1>3, <2>2, <2>3
<1>5. QED
  BY <1>4 DEF Duration

\* A number that another divides is a multiple of it.
LEMMA Divided ==
  ASSUME NEW d \in Nat, NEW n \in Nat \ {0}, d % n = 0
  PROVE  d = n * (d \div n) /\ d \div n \in Int
OBVIOUS

\* A difference of multiples divides without a rest.
LEMMA DividedMultiple ==
  ASSUME NEW p \in Int, NEW q \in Int, NEW n \in Nat \ {0}
  PROVE  (n * p - n * q) \div n = p - q /\ n * p = n * q + n * (p - q)
<1>1. n * p - n * q = n * (p - q) /\ n * p = n * q + n * (p - q)
  OBVIOUS
<1>2. \A k \in Int : (n * k) \div n = k
  OBVIOUS
<1>3. QED
  BY <1>1, <1>2

\* With the padding divided among the segments the whole path lasts the same for all.
LEMMA PaddedTrajectory ==
  ASSUME TypeOK, TypeOK', Measures, ComputeTimings \/ UpdateLimits, regular',
         options.sync = "SynchronizeTrajectory", NEW c \in Components, NEW d \in Components
  PROVE  Before(segment_params_', Len(segment_params_') + 1, c)
            = Before(segment_params_', Len(segment_params_') + 1, d)
<1>1. PICK segments \in Seq(Segment) :
         /\ Len(segments) = Len(segment_params_') /\ Len(segments) <= MaxSegments
         /\ \A s \in 1 .. Len(segments), k \in Components :
               /\ segments[s].minimum_time[k] \in Durations
               /\ segment_params_'[s].minimum_time[k] = segments[s].minimum_time[k]
               /\ segment_params_'[s].padding_time[k] = PaddingTime(segments, 1, s, k)
  BY TimedFromStart
<1> DEFINE n == Len(segments)
           g == [s \in DOMAIN segments |-> Longest(segments, s)]
<1>2. /\ DOMAIN segments = 1 .. n /\ n \in Nat
      /\ segment_params_' \in Seq(Segment) /\ DOMAIN segment_params_' = 1 .. n
  BY <1>1, LenProperties DEF TypeOK
<1>3. ASSUME n = 0
      PROVE  \A k \in Components : Before(segment_params_', n + 1, k) = 0
  <2>1. \A k \in Components : Before(segment_params_', 1, k) = 0
    BY <1>2, BeforeFacts
  <2>2. n + 1 = 1
    BY <1>3
  <2>3. QED
    BY <2>1, <2>2
<1>4. ASSUME n # 0
      PROVE  \A k \in Components : Before(segment_params_', n + 1, k) = Sum(g, 1, n)
  <2> TAKE k \in Components
  <2> DEFINE f == [s \in DOMAIN segments |-> segments[s].minimum_time[k]]
             h == [s \in DOMAIN segment_params_' |-> SegmentDuration(segment_params_', s, k)]
             padding == (Sum(g, 1, n) - Sum(f, 1, n)) \div n
  <2>1. n \in Nat \ {0} /\ n \in Nat /\ n \in Int /\ n \in 1 .. MaxSegments
    BY <1>1, <1>2, <1>4, TimesAssumption
  <2>2. \A t \in Durations : t \in Nat /\ t % n = 0
    BY <2>1, TimesAssumption
  <2>3. \A s \in 1 .. n : f[s] \in Durations /\ g[s] \in Durations
    <3> TAKE s \in 1 .. n
    <3>1. PICK m \in Components : Longest(segments, s) = segments[s].minimum_time[m]
      BY <1>2, LongestFacts
    <3>2. QED
      BY <1>1, <1>2, <3>1
  <2>4. \A s \in 1 .. n : segment_params_'[s].padding_time[k] = padding
    <3>1. \A s \in 1 .. n : PaddingTime(segments, 1, s, k)
             = (TrajectoryMinimumTime(segments, 1) - ComponentMinimumTime(segments, k, 1)) \div (n - 1 + 1)
      BY DEF PaddingTime
    <3>2. n - 1 + 1 = n
      BY <1>2
    <3>3. TrajectoryMinimumTime(segments, 1) = Sum(g, 1, n) /\ ComponentMinimumTime(segments, k, 1) = Sum(f, 1, n)
      BY DEF TrajectoryMinimumTime, ComponentMinimumTime
    <3> HIDE DEF n, f, g
    <3>4. QED
      BY <1>1, <3>1, <3>2, <3>3 DEF n
  <2>5. \A s \in 1 .. n : h[s] = f[s] + padding
    <3> HIDE DEF padding
    <3>1. QED
      BY <1>1, <1>2, <2>4 DEF SegmentDuration
  <2> HIDE DEF f, g, n
  <2>6. /\ \E q \in Int : Sum(f, 1, n) = n * q
        /\ \E q \in Int : Sum(g, 1, n) = n * q
    <3>1. n \in Nat /\ n \in Int
      BY <2>1
    <3>2. \A s \in 1 .. n : \E q \in Int : f[s] = n * q
      BY <2>1, <2>2, <2>3, Divided
    <3>3. \A s \in 1 .. n : \E q \in Int : g[s] = n * q
      BY <2>1, <2>2, <2>3, Divided
    <3>4. \E q \in Int : Sum(f, 1, n) = n * q
      BY <3>1, <3>2, SumMultiple, Zenon
    <3>5. \E q \in Int : Sum(g, 1, n) = n * q
      BY <3>1, <3>3, SumMultiple, Zenon
    <3>6. QED
      BY <3>4, <3>5
  <2>7. PICK p \in Int : Sum(g, 1, n) = n * p
    BY <2>6
  <2>8. PICK q \in Int : Sum(f, 1, n) = n * q
    BY <2>6
  <2>9. padding = p - q /\ n * p = n * q + n * (p - q)
    BY <2>1, <2>7, <2>8, DividedMultiple
  <2>10. padding \in Int
    BY <2>9
  <2> HIDE DEF padding, h
  <2>11. \A s \in 1 .. n : f[s] \in Int
    BY <2>2, <2>3
  <2>12. Sum(h, 1, n) = Sum(f, 1, n) + n * padding
    BY <1>2, <2>5, <2>10, <2>11, SumShifted
  <2>13. Sum(h, 1, n) = Sum(g, 1, n)
    BY <2>7, <2>8, <2>9, <2>12
  <2>14. Before(segment_params_', n + 1, k) = Sum(h, 1, n)
    <3>1. (n + 1) - 1 = n
      BY <1>2
    <3>2. QED
      BY <3>1 DEF Before, h
  <2>15. QED
    BY <2>13, <2>14
<1>5. QED
  BY <1>1, <1>3, <1>4

\* Synchronised by waypoints, the components are in the same segment, at the same time of it,
\* and every segment lasts the same for all.
EvenWaypoints ==
    regular /\ ready /\ options.sync = "SynchronizeWaypoints" =>
        \A c, d \in Components :
           /\ current_segement_[c] = current_segement_[d]
           /\ \A s \in 1 .. Len(segment_params_) : Duration(s, c) = Duration(s, d)
           /\ ~Done(c) => Clock(c) = Clock(d)

\* Synchronised as a whole, their paths last the same, and they have come as far, the
\* samples spent at their waypoints included, until they are done together.
Total(c) == Before(segment_params_, Len(segment_params_) + 1, c)
Progress(c) ==
    Before(segment_params_, current_segement_[c], c) + (current_segement_[c] - 1) * SampleTime + Clock(c)

EvenTrajectory ==
    regular /\ ready /\ options.sync = "SynchronizeTrajectory" =>
        \A c, d \in Components :
           /\ Total(c) = Total(d)
           /\ Done(c) <=> Done(d)
           /\ ~Done(c) => Progress(c) = Progress(d)

\* Synchronised components that are not stopped all move on, none of them anew.
LEMMA AllMove ==
  ASSUME TypeOK, StatesAgree, NEW e \in Errors, ~StopsAll(e), options.sync # "NoSynchronization"
  PROVE  \A c \in Components : (Moves(c, e) <=> ~Done(c)) /\ ~Restarts(c, e)
<1>1. \A c \in Components : ~Blocked(c, e)
  BY DEF StopsAll
<1>2. \A c \in Components : state[c] = "Running"
  BY DEF StatesAgree, All
<1>3. QED
  BY <1>1, <1>2 DEF Moves, Restarts

\* Reset() keeps the durations.
LEMMA ResetFacts ==
  ASSUME TypeOK, Reset
  PROVE  /\ segment_params_' \in Seq(Segment) /\ Len(segment_params_') = Len(segment_params_)
         /\ \A s \in 1 .. Len(segment_params_), c \in Components :
               SegmentDuration(segment_params_', s, c) = SegmentDuration(segment_params_, s, c)
         /\ UNCHANGED <<ready, regular, options>>
<1>1. segment_params_ \in Seq(Segment)
  BY DEF TypeOK
<1>2. /\ segment_params_' \in Seq(Segment) /\ Len(segment_params_') = Len(segment_params_)
      /\ \A s \in 1 .. Len(segment_params_) :
            /\ segment_params_'[s].minimum_time = segment_params_[s].minimum_time
            /\ segment_params_'[s].padding_time = segment_params_[s].padding_time
  BY <1>1, RewoundFacts DEF Reset
<1>3. UNCHANGED <<ready, regular, options>>
  BY DEF Reset, Call
<1>4. QED
  BY <1>2, <1>3 DEF SegmentDuration

\* Every operation keeps components that are synchronised by waypoints even.
LEMMA EvenWaypointsStep ==
  ASSUME TypeOK, TypeOK', StatesAgree, Measures, EvenWaypoints, [Next]_vars
  PROVE  EvenWaypoints'
<1> USE DEF clocks, outputs, errors
<1> SUFFICES ASSUME regular', ready', options'.sync = "SynchronizeWaypoints",
                    NEW c \in Components, NEW d \in Components
             PROVE  /\ current_segement_'[c] = current_segement_'[d]
                    /\ \A s \in 1 .. Len(segment_params_') : Duration(s, c)' = Duration(s, d)'
                    /\ ~Done(c)' => Clock(c)' = Clock(d)'
  BY DEF EvenWaypoints
<1>1. options.sync = "SynchronizeWaypoints"
  BY DEF Next, AddPathTo, ComputeTimings, UpdateLimits, Reset, RemoveAllPoints,
         EnableErrorTracking, DisableErrorTracking, Compute, Call, vars
<1>2. CASE AddPathTo
  <2>1. UNCHANGED <<segment_params_, ready, current_segement_, regular>>
    BY <1>2, AddedFacts
  <2>2. QED
    BY <1>1, <2>1 DEF EvenWaypoints, Duration, Clock, Done
<1>3. CASE ComputeTimings \/ UpdateLimits \/ Reset \/ RemoveAllPoints
  <2>1. /\ current_segement_'[c] = 1 /\ current_segement_'[d] = 1
        /\ Len(segment_params_') \in Nat
        /\ \A s \in 1 .. Len(segment_params_'), k \in Components :
              segment_params_'[s].current_time[k] = 0
    BY <1>3, RewindFacts DEF All
  <2>2. ~Done(c)' => Clock(c)' = Clock(d)'
    BY <2>1 DEF Done, Clock
  <2>3. ASSUME NEW s \in 1 .. Len(segment_params_')
        PROVE  Duration(s, c)' = Duration(s, d)'
    <3>1. CASE ComputeTimings \/ UpdateLimits
      BY <1>1, <3>1, PaddedWaypoints
    <3>2. CASE Reset
      <4>1. /\ Len(segment_params_') = Len(segment_params_)
            /\ SegmentDuration(segment_params_', s, c) = SegmentDuration(segment_params_, s, c)
            /\ SegmentDuration(segment_params_', s, d) = SegmentDuration(segment_params_, s, d)
            /\ UNCHANGED <<ready, regular>>
        BY <3>2, ResetFacts
      <4>2. Duration(s, c) = Duration(s, d)
        BY <1>1, <4>1 DEF EvenWaypoints
      <4>3. QED
        BY <4>1, <4>2 DEF Duration
    <3>3. CASE RemoveAllPoints
      <4>1. Len(segment_params_') = 0
        BY <3>3, EmptySeq DEF RemoveAllPoints
      <4>2. QED
        BY <4>1
    <3>4. QED
      BY <1>3, <3>1, <3>2, <3>3
  <2>4. QED
    BY <2>1, <2>2, <2>3
<1>4. CASE EnableErrorTracking \/ DisableErrorTracking \/ UNCHANGED vars
  BY <1>1, <1>4, TrackingFacts DEF EvenWaypoints, Duration, Clock, Done
<1>5. CASE Compute
  <2>1. PICK e \in Errors : /\ (StopsAll(e) /\ PauseAll(e)) \/ (~StopsAll(e) /\ Advance(e))
                            /\ UNCHANGED <<ready, regular>>
    BY <1>5, ComputeFacts
  <2>2. /\ current_segement_[c] = current_segement_[d]
        /\ \A s \in 1 .. Len(segment_params_) : Duration(s, c) = Duration(s, d)
        /\ ~Done(c) => Clock(c) = Clock(d)
    BY <1>1, <2>1 DEF EvenWaypoints
  <2>3. CASE PauseAll(e)
    BY <2>2, <2>3 DEF PauseAll, Duration, Clock, Done
  <2>4. CASE ~StopsAll(e) /\ Advance(e)
    <3>1. \A k \in Components : (Moves(k, e) <=> ~Done(k)) /\ ~Restarts(k, e)
      BY <1>1, <2>4, AllMove
    <3>2. /\ Len(segment_params_') = Len(segment_params_) /\ Len(segment_params_) \in Nat
          /\ DOMAIN segment_params_ = 1 .. Len(segment_params_)
      BY <2>4, AdvanceFacts, CurrentSegment
    <3>3. \A s \in 1 .. Len(segment_params_), k \in Components : Duration(s, k)' = Duration(s, k)
      BY <2>4, <3>1, DurationsKept
    <3>4. \A s \in 1 .. Len(segment_params_') : Duration(s, c)' = Duration(s, d)'
      BY <2>2, <3>2, <3>3
    <3>5. Done(c) <=> Done(d)
      BY <2>2 DEF Done
    <3>6. CASE Done(c)
      <4>1. current_segement_'[c] = current_segement_[c] /\ current_segement_'[d] = current_segement_[d]
        BY <2>4, <3>1, <3>5, <3>6, AdvanceFacts
      <4>2. QED
        BY <2>2, <3>2, <3>4, <3>6, <4>1 DEF Done
    <3>7. CASE ~Done(c)
      <4> DEFINE n == current_segement_[c]
                 t == Clock(c)
                 f == Duration(n, c)
      <4>1. n \in 1 .. Len(segment_params_)
        BY <3>2, <3>7, CurrentSegment
      <4>2. ASSUME NEW k \in Components, k = c \/ k = d
            PROVE  /\ t \in Nat /\ f \in Nat
                   /\ f < t => /\ current_segement_'[k] = n + 1
                               /\ n + 1 \in DOMAIN segment_params_ =>
                                     segment_params_'[n + 1].current_time[k] = t - f
                   /\ ~(f < t) => /\ current_segement_'[k] = n
                                  /\ segment_params_'[n].current_time[k] = t + SampleTime
        <5>1. current_segement_[k] = n /\ Clock(k) = t /\ Duration(n, k) = f /\ ~Done(k)
          BY <2>2, <3>5, <3>7, <4>1, <4>2
        <5>2. SampleOf(k, e)
          BY <2>4, <3>1, <5>1, AdvanceFacts
        <5>3. SampleClock(k, e) = t
          BY <3>1, <5>1 DEF SampleClock, Clock
        <5>4. SegmentDuration(segment_params_', n, k) = f
          BY <3>3, <4>1, <5>1 DEF Duration
        <5> HIDE DEF t, f, n
        <5>5. QED
          BY <5>1, <5>2, <5>3, <5>4 DEF SampleOf
      <4> HIDE DEF t, f, n
      <4>3. CASE f < t
        <5>1. current_segement_'[c] = n + 1 /\ current_segement_'[d] = n + 1
          BY <4>2, <4>3
        <5>2. ~Done(c)' => n + 1 \in DOMAIN segment_params_
          BY <3>2, <4>1, <5>1 DEF Done
        <5>3. ~Done(c)' => Clock(c)' = Clock(d)'
          BY <4>2, <4>3, <5>1, <5>2 DEF Clock
        <5>4. QED
          BY <3>4, <5>1, <5>3
      <4>4. CASE ~(f < t)
        <5>1. current_segement_'[c] = n /\ current_segement_'[d] = n
          BY <4>2, <4>4
        <5>2. Clock(c)' = Clock(d)'
          BY <4>2, <4>4, <5>1 DEF Clock
        <5>3. QED
          BY <3>4, <5>1, <5>2
      <4>5. QED
        BY <4>3, <4>4
    <3>8. QED
      BY <3>6, <3>7
  <2>5. QED
    BY <2>1, <2>3, <2>4
<1>6. QED
  BY <1>2, <1>3, <1>4, <1>5 DEF Next

\* What comes before a segment is no more than the whole path.
LEMMA BeforeGrows ==
  ASSUME NEW segments \in Seq(Segment), NEW c \in Components, NEW s \in 1 .. Len(segments) + 1
  PROVE  Before(segments, s, c) <= Before(segments, Len(segments) + 1, c)
<1> DEFINE B(n) == Before(segments, n, c)
           S == {k \in Nat : s + k <= Len(segments) + 1 => B(s) <= B(s + k)}
<1>1. /\ \A n \in 1 .. Len(segments) + 1 : B(n) \in Int
      /\ \A n \in 1 .. Len(segments) : B(n + 1) = B(n) + SegmentDuration(segments, n, c)
      /\ Len(segments) \in Nat
  BY BeforeFacts, LenProperties
<1>2. \A n \in 1 .. Len(segments) : SegmentDuration(segments, n, c) \in Nat
  BY DurationFacts
<1> HIDE DEF B
<1>3. 0 \in S
  <2>1. s + 0 = s /\ B(s) \in Int
    BY <1>1
  <2>2. QED
    BY <2>1
<1>4. ASSUME NEW k \in Nat, k \in S
      PROVE  k + 1 \in S
  <2> SUFFICES ASSUME s + (k + 1) <= Len(segments) + 1
               PROVE  B(s) <= B(s + (k + 1))
    OBVIOUS
  <2>1. B(s) <= B(s + k)
    BY <1>1, <1>4
  <2>2. s + k \in 1 .. Len(segments) /\ s + (k + 1) = (s + k) + 1 /\ s + k \in 1 .. Len(segments) + 1
    BY <1>1
  <2>3. B((s + k) + 1) = B(s + k) + SegmentDuration(segments, s + k, c)
    BY <1>1, <2>2
  <2>4. B(s + k) \in Int /\ B(s) \in Int /\ SegmentDuration(segments, s + k, c) \in Nat
    BY <1>1, <1>2, <2>2
  <2>5. QED
    BY <2>1, <2>2, <2>3, <2>4
<1> HIDE DEF S
<1>5. Nat \subseteq S
  BY <1>3, <1>4, SetInduction
<1>6. Len(segments) + 1 - s \in Nat /\ s + (Len(segments) + 1 - s) = Len(segments) + 1
  BY <1>1
<1>7. QED
  <2>1. Len(segments) + 1 - s \in S
    BY <1>5, <1>6
  <2>2. B(s) <= B(s + (Len(segments) + 1 - s))
    BY <1>1, <1>6, <2>1 DEF S
  <2>3. QED
    BY <1>6, <2>2 DEF B

\* Multiples grow with their factor.
LEMMA MultiplesGrow ==
  ASSUME NEW a \in Int, NEW b \in Int, NEW k \in Nat, a <= b
  PROVE  a * k <= b * k
OBVIOUS

\* A call of compute() brings a component a sample on, and it is done with its path in the
\* call that starts past the duration of the path and a sample for each of its waypoints.
LEMMA ProgressFacts ==
  ASSUME TypeOK, ClockBounded, NEW e \in Errors, Advance(e), NEW c \in Components,
         Moves(c, e), ~Restarts(c, e)
  PROVE  LET end == Total(c) + (Len(segment_params_) - 1) * SampleTime
         IN  /\ Done(c)' <=> Progress(c) > end
             /\ ~Done(c)' => Progress(c)' = Progress(c) + SampleTime
<1> DEFINE n == current_segement_[c]
           L == Len(segment_params_)
           t == Clock(c)
           d == Duration(n, c)
           B(k) == Before(segment_params_, k, c)
           end == Total(c) + (L - 1) * SampleTime
           spent == (n - 1) * SampleTime
           last == (L - 1) * SampleTime
<1>1. /\ segment_params_ \in Seq(Segment) /\ L \in Nat /\ SampleTime \in Nat
      /\ DOMAIN segment_params_ = 1 .. L /\ n \in 1 .. L /\ n \in Nat /\ ~Done(c)
  BY TimesAssumption, LenProperties, CurrentSegment DEF TypeOK, Moves
<1>2. /\ segment_params_' \in Seq(Segment) /\ Len(segment_params_') = L
      /\ \A k : Before(segment_params_', k, c) = B(k)
  <2>1. segment_params_' \in Seq(Segment) /\ Len(segment_params_') = L
    BY AdvanceFacts
  <2>2. \A s \in 1 .. Len(segment_params_) :
           SegmentDuration(segment_params_', s, c) = SegmentDuration(segment_params_, s, c)
    BY DurationsKept DEF Duration
  <2>3. QED
    BY <1>1, <2>1, <2>2, BeforeKept
<1>3. SampleClock(c, e) = t /\ SegmentDuration(segment_params_', n, c) = d
  BY <1>1, DurationsKept DEF Duration, SampleClock, Clock
<1>4. /\ t \in Nat /\ d \in Nat
      /\ d < t => /\ current_segement_'[c] = n + 1
                  /\ n + 1 \in DOMAIN segment_params_ =>
                        segment_params_'[n + 1].current_time[c] = t - d
      /\ ~(d < t) => /\ current_segement_'[c] = n
                     /\ segment_params_'[n].current_time[c] = t + SampleTime
  <2>1. SampleOf(c, e)
    BY AdvanceFacts
  <2>2. QED
    BY <1>3, <2>1 DEF SampleOf
<1>5. Progress(c) = B(n) + spent + t
  BY DEF Progress
<1>6. /\ spent \in Int /\ ((n + 1) - 1) * SampleTime = spent + SampleTime
      /\ last \in Int /\ spent <= last /\ (n + 1 <= L => spent + SampleTime <= last)
  <2>1. n - 1 \in Int /\ (n - 1) + 1 = (n + 1) - 1 /\ L - 1 \in Int /\ n - 1 <= L - 1
    BY <1>1
  <2>2. spent \in Int /\ ((n + 1) - 1) * SampleTime = spent + SampleTime /\ last \in Int
    BY <1>1, <2>1, NextMultiple
  <2>3. spent <= last
    BY <1>1, <2>1, MultiplesGrow
  <2>4. ASSUME n + 1 <= L PROVE spent + SampleTime <= last
    <3>1. (n + 1) - 1 \in Int /\ (n + 1) - 1 <= L - 1
      BY <1>1, <2>4
    <3>2. ((n + 1) - 1) * SampleTime <= last
      BY <1>1, <2>1, <3>1, MultiplesGrow
    <3>3. QED
      BY <2>2, <3>2
  <2>5. QED
    BY <2>2, <2>3, <2>4
<1>7. /\ B(n) \in Int /\ B(n + 1) = B(n) + d /\ B(n + 1) <= Total(c) /\ Total(c) \in Int
      /\ n = L => Total(c) = B(n + 1)
  <2>1. n \in 1 .. L + 1 /\ n + 1 \in 1 .. L + 1 /\ L + 1 \in 1 .. L + 1
    BY <1>1
  <2>2. QED
    BY <1>1, <2>1, BeforeFacts, BeforeGrows DEF Duration, Total
<1>8. t <= d + SampleTime
  BY <1>1 DEF ClockBounded
<1>9. Done(c)' <=> d < t /\ n + 1 > L
  BY <1>1, <1>2, <1>4 DEF Done
<1>10. end = Total(c) + last
  OBVIOUS
<1>11. Progress(c)' = Before(segment_params_', current_segement_'[c], c)
                         + (current_segement_'[c] - 1) * SampleTime
                         + segment_params_'[current_segement_'[c]].current_time[c]
  BY DEF Progress, Clock
<1> HIDE DEF t, d, B, end, spent, last
<1>12. CASE d < t /\ n + 1 > L
  <2>1. n = L
    BY <1>1, <1>12
  <2>2. spent = last
    BY <2>1 DEF spent, last
  <2>3. Progress(c) > end
    BY <1>4, <1>5, <1>6, <1>7, <1>10, <1>12, <2>1, <2>2
  <2>4. QED
    BY <1>9, <1>12, <2>3 DEF end
<1>13. CASE d < t /\ ~(n + 1 > L)
  <2>1. n + 1 \in DOMAIN segment_params_ /\ n + 1 <= L
    BY <1>1, <1>13
  <2>2. Progress(c) <= end
    BY <1>1, <1>4, <1>5, <1>6, <1>7, <1>8, <1>10, <2>1
  <2>3. Progress(c)' = B(n + 1) + (spent + SampleTime) + (t - d)
    BY <1>2, <1>4, <1>6, <1>11, <1>13, <2>1
  <2>4. Progress(c)' = Progress(c) + SampleTime
    BY <1>1, <1>4, <1>5, <1>6, <1>7, <2>3
  <2>5. ~(Progress(c) > end)
    BY <1>1, <1>4, <1>5, <1>6, <1>7, <1>10, <2>2
  <2>6. QED
    BY <1>9, <1>13, <2>4, <2>5 DEF end
<1>14. CASE ~(d < t)
  <2>1. Progress(c) <= end
    BY <1>1, <1>4, <1>5, <1>6, <1>7, <1>10, <1>14
  <2>2. Progress(c)' = B(n) + spent + (t + SampleTime)
    BY <1>2, <1>4, <1>11, <1>14 DEF spent
  <2>3. Progress(c)' = Progress(c) + SampleTime
    BY <1>1, <1>4, <1>5, <1>6, <1>7, <2>2
  <2>4. ~(Progress(c) > end)
    BY <1>1, <1>4, <1>5, <1>6, <1>7, <1>10, <2>1
  <2>5. QED
    BY <1>9, <1>14, <2>3, <2>4 DEF end
<1>15. QED
  BY <1>12, <1>13, <1>14

\* Every operation keeps components that are synchronised as a whole even.
LEMMA EvenTrajectoryStep ==
  ASSUME TypeOK, TypeOK', StatesAgree, ClockBounded, Measures, EvenTrajectory, [Next]_vars
  PROVE  EvenTrajectory'
<1> USE DEF clocks, outputs, errors
<1> SUFFICES ASSUME regular', ready', options'.sync = "SynchronizeTrajectory",
                    NEW c \in Components, NEW d \in Components
             PROVE  /\ Total(c)' = Total(d)'
                    /\ Done(c)' <=> Done(d)'
                    /\ ~Done(c)' => Progress(c)' = Progress(d)'
  BY DEF EvenTrajectory
<1>1. options.sync = "SynchronizeTrajectory"
  BY DEF Next, AddPathTo, ComputeTimings, UpdateLimits, Reset, RemoveAllPoints,
         EnableErrorTracking, DisableErrorTracking, Compute, Call, vars
<1>2. segment_params_ \in Seq(Segment) /\ Len(segment_params_) \in Nat
  BY LenProperties DEF TypeOK
<1>3. CASE AddPathTo
  <2>1. UNCHANGED <<segment_params_, ready, current_segement_, regular>>
    BY <1>3, AddedFacts
  <2>2. QED
    BY <1>1, <2>1 DEF EvenTrajectory, Total, Progress, Clock, Done
<1>4. CASE ComputeTimings \/ UpdateLimits \/ Reset \/ RemoveAllPoints
  <2>1. /\ current_segement_'[c] = 1 /\ current_segement_'[d] = 1
        /\ segment_params_' \in Seq(Segment) /\ Len(segment_params_') \in Nat
        /\ \A s \in 1 .. Len(segment_params_'), k \in Components :
              segment_params_'[s].current_time[k] = 0
    BY <1>4, RewindFacts DEF All
  <2>2. Done(c)' <=> Done(d)'
    BY <2>1 DEF Done
  <2>3. ~Done(c)' => Progress(c)' = Progress(d)'
    <3>1. Before(segment_params_', 1, c) = 0 /\ Before(segment_params_', 1, d) = 0
      BY <2>1, BeforeFacts
    <3>2. ~Done(c)' => 1 \in 1 .. Len(segment_params_')
      BY <2>1 DEF Done
    <3>3. QED
      BY <2>1, <3>1, <3>2 DEF Progress, Clock
  <2>4. Total(c)' = Total(d)'
    <3>1. CASE ComputeTimings \/ UpdateLimits
      BY <1>1, <3>1, PaddedTrajectory DEF Total
    <3>2. CASE Reset
      <4>1. /\ Len(segment_params_') = Len(segment_params_) /\ UNCHANGED <<ready, regular>>
            /\ \A s \in 1 .. Len(segment_params_), k \in Components :
                  SegmentDuration(segment_params_', s, k) = SegmentDuration(segment_params_, s, k)
        BY <3>2, ResetFacts
      <4>2. \A k \in Components : Before(segment_params_', Len(segment_params_) + 1, k) = Total(k)
        BY <1>2, <2>1, <4>1, BeforeKept DEF Total
      <4>3. Total(c) = Total(d)
        BY <1>1, <4>1 DEF EvenTrajectory
      <4>4. QED
        BY <4>1, <4>2, <4>3 DEF Total
    <3>3. CASE RemoveAllPoints
      <4>1. Len(segment_params_') = 0
        BY <3>3, EmptySeq DEF RemoveAllPoints
      <4>2. Len(segment_params_') + 1 = 1
        BY <4>1
      <4>3. Before(segment_params_', 1, c) = 0 /\ Before(segment_params_', 1, d) = 0
        BY <2>1, BeforeFacts
      <4>4. QED
        BY <4>2, <4>3 DEF Total
    <3>4. QED
      BY <1>4, <3>1, <3>2, <3>3
  <2>5. QED
    BY <2>2, <2>3, <2>4
<1>5. CASE EnableErrorTracking \/ DisableErrorTracking \/ UNCHANGED vars
  BY <1>1, <1>5, TrackingFacts DEF EvenTrajectory, Total, Progress, Clock, Done
<1>6. CASE Compute
  <2>1. PICK e \in Errors : /\ (StopsAll(e) /\ PauseAll(e)) \/ (~StopsAll(e) /\ Advance(e))
                            /\ UNCHANGED <<ready, regular>>
    BY <1>6, ComputeFacts
  <2>2. /\ Total(c) = Total(d)
        /\ Done(c) <=> Done(d)
        /\ ~Done(c) => Progress(c) = Progress(d)
    BY <1>1, <2>1 DEF EvenTrajectory
  <2>3. CASE PauseAll(e)
    BY <2>2, <2>3 DEF PauseAll, Total, Progress, Clock, Done
  <2>4. CASE ~StopsAll(e) /\ Advance(e)
    <3>1. \A k \in Components : (Moves(k, e) <=> ~Done(k)) /\ ~Restarts(k, e)
      BY <1>1, <2>4, AllMove
    <3>2. segment_params_' \in Seq(Segment) /\ Len(segment_params_') = Len(segment_params_)
      BY <2>4, AdvanceFacts
    <3>3. \A k \in Components : Total(k)' = Total(k)
      <4> TAKE k \in Components
      <4>1. \A s \in 1 .. Len(segment_params_) :
               SegmentDuration(segment_params_', s, k) = SegmentDuration(segment_params_, s, k)
        BY <2>4, <3>1, DurationsKept DEF Duration
      <4>2. Before(segment_params_', Len(segment_params_) + 1, k)
               = Before(segment_params_, Len(segment_params_) + 1, k)
        BY <1>2, <3>2, <4>1, BeforeKept
      <4>3. QED
        BY <3>2, <4>2 DEF Total
    <3>4. CASE Done(c)
      <4>1. current_segement_'[c] = current_segement_[c] /\ current_segement_'[d] = current_segement_[d]
        BY <2>2, <2>4, <3>1, <3>4, AdvanceFacts
      <4>2. Done(c)' /\ Done(d)'
        BY <2>2, <3>2, <3>4, <4>1 DEF Done
      <4>3. QED
        BY <2>2, <3>3, <4>2
    <3>5. CASE ~Done(c)
      <4> DEFINE end(k) == Total(k) + (Len(segment_params_) - 1) * SampleTime
      <4>1. /\ Done(c)' <=> Progress(c) > end(c)
            /\ ~Done(c)' => Progress(c)' = Progress(c) + SampleTime
        BY <2>4, <3>1, <3>5, ProgressFacts
      <4>2. /\ Done(d)' <=> Progress(d) > end(d)
            /\ ~Done(d)' => Progress(d)' = Progress(d) + SampleTime
        BY <2>2, <2>4, <3>1, <3>5, ProgressFacts
      <4>3. end(c) = end(d)
        BY <2>2
      <4> HIDE DEF end
      <4>4. QED
        BY <2>2, <3>3, <3>5, <4>1, <4>2, <4>3
    <3>6. QED
      BY <3>4, <3>5
  <2>5. QED
    BY <2>1, <2>3, <2>4
<1>7. QED
  BY <1>3, <1>4, <1>5, <1>6 DEF Next

\* Synchronised components pass their waypoints, or at least arrive, in the same call to
\* compute(), whatever their number, their limits, and the pauses in between: the padding
\* makes their durations equal, and nothing moves the clock of one without the others'.
THEOREM ArrivedTogether == Spec => []SynchronizedTogether
<1>1. ASSUME Init PROVE Measures /\ EvenWaypoints /\ EvenTrajectory
  <2>1. segment_params_ = <<>> /\ Len(<<>>) = 0 /\ \A c \in Components : current_segement_[c] = 1
    BY <1>1, EmptySeq DEF Init, All
  <2>2. \A c \in Components : Done(c)
    BY <2>1 DEF Done
  <2>3. \A c \in Components : Total(c) = 0
    <3>1. <<>> \in Seq(Segment) /\ 0 + 1 = 1
      BY EmptySeq
    <3>2. QED
      BY <2>1, <3>1, BeforeFacts DEF Total
  <2>4. QED
    BY <2>1, <2>2, <2>3 DEF Measures, EvenWaypoints, EvenTrajectory
<1>2. /\ TypeOK /\ Measures /\ [Next]_vars => Measures'
      /\ TypeOK /\ TypeOK' /\ StatesAgree /\ Measures /\ EvenWaypoints /\ [Next]_vars => EvenWaypoints'
      /\ TypeOK /\ TypeOK' /\ StatesAgree /\ ClockBounded /\ Measures /\ EvenTrajectory /\ [Next]_vars
            => EvenTrajectory'
  BY MeasuresStep, EvenWaypointsStep, EvenTrajectoryStep
<1>3. EvenWaypoints /\ EvenTrajectory => SynchronizedTogether
  BY DEF EvenWaypoints, EvenTrajectory, SynchronizedTogether
<1>4. QED
  BY <1>1, <1>2, <1>3, TypeCorrect, StatesHold, ClocksBounded, PTL DEF Spec
=============================================================================
