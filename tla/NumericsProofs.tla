---------------------------- MODULE NumericsProofs ----------------------------
(***************************************************************************)
(* The root finder, its control and its arithmetic, and the fifth order    *)
(* polynomials, its client.                                                *)
(*                                                                         *)
(*   Control        rpoly_ak1, for polynomials of any degree and any       *)
(*                  number of shifts and steps                             *)
(*   Termination    a number that each of its steps makes smaller          *)
(*   Polynomials    what the recursions of the model compute: sums,        *)
(*                  powers, values and products of polynomials             *)
(*   Segments       both ends of a segment and of a path of poses          *)
(*   The calls      the inductive invariant AnswerIsOfTask: the answer     *)
(*                  is what the code makes of the arguments, and a         *)
(*                  running search keeps SearchInvariant                   *)
(*   Zeros          of a quadratic, with their multiplicity and order      *)
(*   Shift steps    the divisions of QuadSD_ak1, nextK_ak1 and             *)
(*                  RealIT_ak1 and their exact quotients                   *)
(*   Next quadratic the estimate of newest_ak1 against the cross           *)
(*                  products of the remainders of K0, K1 and K2            *)
(*   Shortest       the two searches of a segment end within two rounds    *)
(*                  at a limit                                             *)
(*                                                                         *)
(* An identity between fractions is cleared of its denominators first, by  *)
(* a lemma of FractionProofs that knows nothing of the model.              *)
(***************************************************************************)
EXTENDS RootFinder, Numerics, FractionProofs

-----------------------------------------------------------------------------
(* Control                                                                  *)

Searching == {"shift", "fixed", "choose", "restore", "quadratic", "linear", "deflate"}

\* What has been found is stored at the front of the arrays, and what is left
\* to find is the degree of the deflated polynomial.
FoundSoFar ==
    /\ pc = "call" => degree = op.degree /\ written = {}
    /\ pc \in Searching \union {"main"} =>
          degree = op.degree /\ N <= degree /\ written = 0 .. degree - N - 1

\* The search is for the zeros of a polynomial of degree three at least, and
\* ends with one or two of them.
SearchesCubics ==
    /\ pc \in Searching => N > 2
    /\ pc = "deflate" => NZ \in {1, 2}

\* The inductive invariant: the numbers; the flags need only their type.
RootsSoFar ==
    /\ NumbersOK
    /\ FoundSoFar
    /\ SearchesCubics
    /\ ArraysMatchDegree
    /\ Returned => degree = 0 \/ degree = op.degree \/ op.degree > 3

IInv == RootsSoFar /\ FlagsOK

\* What is known of the polynomial of a call.
LEMMA PolynomialType ==
    ASSUME NEW p \in Polynomials
    PROVE  p.degree \in Nat /\ p.degree > 0 /\ p.zeros \in Nat /\ p.zeros <= p.degree
  <1>1. PICK d \in Degrees : p \in [degree : {d}, zeros : 0 .. d, leading : BOOLEAN]
    BY DEF Polynomials
  <1>2. d \in Nat /\ d > 0
    BY DegreesAssumption
  <1> QED
    BY <1>1, <1>2

\* The counters of the loops start at zero with nothing written.
LEMMA InitIInv == Init => IInv
  <1> SUFFICES ASSUME Init PROVE IInv
    OBVIOUS
  <1>1. op.degree \in Nat /\ op.degree > 0
    BY PolynomialType DEF Init
  <1>2. NumbersOK
    BY <1>1 DEF Init, NumbersOK
  <1>3. FlagsOK
    BY Zenon DEF Init, FlagsOK, Neither
  <1> QED
    BY <1>2, <1>3 DEF Init, IInv, RootsSoFar, FoundSoFar, SearchesCubics, ArraysMatchDegree, Returned, Searching

\* A step of the second or third stage changes flags and counters only, and
\* remains in the search.
SearchStep ==
    \/ NextShift \/ FixedShiftStep \/ FixedShiftsEnd \/ LinearFirst \/ StartQuadratic \/ Restore
    \/ QuadraticConverges \/ QuadraticDiverges \/ QuadraticStepsEnd \/ QuadraticStep
    \/ LinearConverges \/ LinearStepsEnd \/ LinearCluster \/ LinearStep

LEMMA SearchKeepsNumbers == NumbersOK /\ SearchStep => NumbersOK'
  <1> SUFFICES ASSUME NumbersOK, SearchStep PROVE NumbersOK'
    OBVIOUS
  <1>1. CASE NextShift
    BY <1>1 DEF NumbersOK, NextShift, problem, inner
  <1>2. CASE FixedShiftsEnd
    BY <1>2 DEF NumbersOK, FixedShiftsEnd, problem, inner
  <1>3. CASE Restore
    BY <1>3 DEF NumbersOK, Restore, problem, inner
  <1>4. CASE FixedShiftStep
    BY <1>4 DEF NumbersOK, FixedShiftStep, problem, inner
  <1>5. CASE LinearFirst
    BY <1>5 DEF NumbersOK, LinearFirst, Goes, problem, loops
  <1>6. CASE StartQuadratic
    BY <1>6 DEF NumbersOK, StartQuadratic, problem, loops
  <1>7. CASE QuadraticDiverges
    BY <1>7 DEF NumbersOK, QuadraticDiverges, QuadraticFails, Goes, problem, loops
  <1>8. CASE QuadraticStepsEnd
    BY <1>8 DEF NumbersOK, QuadraticStepsEnd, QuadraticFails, Goes, problem, loops
  <1>9. CASE QuadraticConverges
    BY <1>9 DEF NumbersOK, QuadraticConverges, Found, problem, loops, inner
  <1>10. CASE LinearConverges
    BY <1>10 DEF NumbersOK, LinearConverges, Found, problem, loops, inner
  <1>11. CASE QuadraticStep
    BY <1>11 DEF NumbersOK, QuadraticStep, BreaksUp, problem, loops
  <1>12. CASE LinearStepsEnd
    BY <1>12 DEF NumbersOK, LinearStepsEnd, LinearFails, problem, loops, inner
  <1>13. CASE LinearCluster
    BY <1>13 DEF NumbersOK, LinearCluster, LinearFails, problem, loops, inner
  <1>14. CASE LinearStep
    BY <1>14 DEF NumbersOK, LinearStep, problem, loops
  <1> QED
    BY <1>1, <1>2, <1>3, <1>4, <1>5, <1>6, <1>7, <1>8, <1>9, <1>10, <1>11, <1>12, <1>13, <1>14 DEF SearchStep

LEMMA SearchKeepsFlags == FlagsOK /\ SearchStep => FlagsOK'
  <1> SUFFICES ASSUME FlagsOK, SearchStep PROVE FlagsOK'
    OBVIOUS
  <1>1. CASE NextShift \/ FixedShiftsEnd \/ Restore \/ QuadraticConverges \/ LinearConverges
    BY <1>1, Zenon DEF FlagsOK, NextShift, FixedShiftsEnd, Restore, QuadraticConverges,
                       LinearConverges, Found, flags, inner
  <1>2. CASE FixedShiftStep
    <2>1. /\ fflag' \in BOOLEAN /\ iFlag' \in BOOLEAN /\ triedFlag' \in BOOLEAN
          /\ stry' \in BOOLEAN /\ vtry' \in BOOLEAN
      BY <1>2, Zenon DEF FlagsOK, FixedShiftStep, inner
    <2>2. PICK s \in BOOLEAN, v \in BOOLEAN, faster \in BOOLEAN :
             passed' = [s |-> s, v |-> v, faster |-> faster]
      BY <1>2, Zenon DEF FixedShiftStep
    <2> QED
      BY <2>1, <2>2, Zenon DEF FlagsOK
  <1>3. CASE LinearFirst \/ StartQuadratic
    BY <1>3, Zenon DEF FlagsOK, LinearFirst, StartQuadratic
  <1>4. CASE QuadraticDiverges \/ QuadraticStepsEnd
    BY <1>4, Zenon DEF FlagsOK, QuadraticDiverges, QuadraticStepsEnd, QuadraticFails
  <1>5. CASE QuadraticStep
    BY <1>5, Zenon DEF FlagsOK, QuadraticStep, BreaksUp, flags
  <1>6. CASE LinearStepsEnd \/ LinearCluster
    BY <1>6, Zenon DEF FlagsOK, LinearStepsEnd, LinearCluster, LinearFails, inner
  <1>7. CASE LinearStep
    BY <1>7, Zenon DEF FlagsOK, LinearStep, flags
  <1> QED
    BY <1>1, <1>2, <1>3, <1>4, <1>5, <1>6, <1>7 DEF SearchStep

LEMMA SearchKeepsProblem ==
    SearchStep => /\ UNCHANGED problem
                  /\ pc \in Searching \ {"deflate"}
                  /\ pc' \in Searching
                  /\ pc' = "deflate" => NZ' \in {1, 2}
  <1> SUFFICES ASSUME SearchStep
               PROVE  /\ UNCHANGED problem
                      /\ pc \in Searching \ {"deflate"}
                      /\ pc' \in Searching
                      /\ pc' = "deflate" => NZ' \in {1, 2}
    OBVIOUS
  <1> USE DEF Searching
  <1>1. CASE NextShift \/ FixedShiftsEnd \/ Restore
    BY <1>1 DEF NextShift, FixedShiftsEnd, Restore
  <1>2. CASE FixedShiftStep
    BY <1>2 DEF FixedShiftStep
  <1>3. CASE LinearFirst \/ StartQuadratic
    BY <1>3 DEF LinearFirst, StartQuadratic, Goes
  <1>4. CASE QuadraticDiverges \/ QuadraticStepsEnd
    BY <1>4 DEF QuadraticDiverges, QuadraticStepsEnd, QuadraticFails, Goes
  <1>5. CASE QuadraticConverges \/ LinearConverges
    BY <1>5 DEF QuadraticConverges, LinearConverges, Found
  <1>6. CASE QuadraticStep \/ LinearStep
    BY <1>6 DEF QuadraticStep, LinearStep
  <1>7. CASE LinearStepsEnd \/ LinearCluster
    BY <1>7 DEF LinearStepsEnd, LinearCluster, LinearFails
  <1> QED
    BY <1>1, <1>2, <1>3, <1>4, <1>5, <1>6, <1>7 DEF SearchStep

\* The steps of rpoly_ak1 itself leave the flags as they are.
LEMMA NextKeepsFlags == FlagsOK /\ [Next]_vars => FlagsOK'
  <1> SUFFICES ASSUME FlagsOK, [Next]_vars PROVE FlagsOK'
    OBVIOUS
  <1>1. CASE SearchStep
    BY <1>1, SearchKeepsFlags
  <1>2. CASE UNCHANGED <<flags, inner>>
    BY <1>2, Zenon DEF FlagsOK, flags, inner
  <1>3. SearchStep \/ UNCHANGED <<flags, inner>>
    BY Zenon DEF Next, SearchStep, vars, flags, inner, Refuse, DegreeTooLarge, NoLeadingCoefficient,
                 RemoveZerosAtOrigin, LastZeros, StartShifts, NoConvergence, Deflate
  <1> QED
    BY <1>1, <1>2, <1>3

LEMMA NextKeepsRoots == RootsSoFar /\ [Next]_vars => RootsSoFar'
  <1> SUFFICES ASSUME RootsSoFar, [Next]_vars PROVE RootsSoFar'
    OBVIOUS
  <1>0. /\ op.degree \in Nat /\ op.degree > 0
        /\ op.zeros \in Nat /\ op.zeros <= op.degree
    BY PolynomialType DEF RootsSoFar, NumbersOK
  <1>1. CASE SearchStep
    <2>1. NumbersOK'
      BY <1>1, SearchKeepsNumbers DEF RootsSoFar
    <2> QED
      BY <1>1, <2>1, SearchKeepsProblem
      DEF RootsSoFar, FoundSoFar, SearchesCubics, ArraysMatchDegree, Returned, Searching, problem
  <1>2. CASE DegreeTooLarge
    <2>8. NumbersOK'
      BY <1>0, <1>2 DEF loops, inner, DegreeTooLarge, Refuse, RootsSoFar, NumbersOK, FoundSoFar, Searching
    <2>9. FoundSoFar' /\ SearchesCubics'
      BY <1>0, <1>2 DEF DegreeTooLarge, Refuse, RootsSoFar, NumbersOK, FoundSoFar, SearchesCubics, Searching
    <2> QED
      BY <1>0, <1>2, <2>8, <2>9, StepsAssumption DEF DegreeTooLarge, Refuse, RootsSoFar, NumbersOK, FoundSoFar, ArraysMatchDegree, Returned, Searching
  <1>3. CASE NoLeadingCoefficient
    <2>8. NumbersOK'
      BY <1>0, <1>3 DEF loops, inner, NoLeadingCoefficient, Refuse, RootsSoFar, NumbersOK, FoundSoFar, Searching
    <2>9. FoundSoFar' /\ SearchesCubics'
      BY <1>0, <1>3 DEF NoLeadingCoefficient, Refuse, RootsSoFar, NumbersOK, FoundSoFar, SearchesCubics, Searching
    <2> QED
      BY <1>0, <1>3, <2>8, <2>9 DEF NoLeadingCoefficient, Refuse, RootsSoFar, NumbersOK, FoundSoFar, ArraysMatchDegree, Returned, Searching
  <1>4. CASE RemoveZerosAtOrigin
    <2>1. N' \in Nat /\ N' <= op.degree /\ degree - N' - 1 = op.zeros - 1
      BY <1>0, <1>4 DEF RemoveZerosAtOrigin, RootsSoFar, FoundSoFar
    <2>8. NumbersOK'
      BY <1>0, <1>4, <2>1 DEF loops, inner, RemoveZerosAtOrigin, RootsSoFar, NumbersOK, FoundSoFar, Searching
    <2>9. FoundSoFar' /\ SearchesCubics'
      BY <1>0, <1>4, <2>1 DEF RemoveZerosAtOrigin, RootsSoFar, NumbersOK, FoundSoFar, SearchesCubics, Searching
    <2> QED
      BY <1>0, <1>4, <2>8, <2>9, <2>1 DEF RemoveZerosAtOrigin, RootsSoFar, NumbersOK, FoundSoFar, ArraysMatchDegree, Returned, Searching
  <1>5. CASE LastZeros
    <2>1. written' = 0 .. degree - 1
      BY <1>0, <1>5 DEF LastZeros, RootsSoFar, NumbersOK, FoundSoFar, Searching
    <2>8. NumbersOK'
      BY <1>0, <1>5, <2>1 DEF loops, inner, LastZeros, RootsSoFar, NumbersOK, FoundSoFar, Searching
    <2>9. FoundSoFar' /\ SearchesCubics'
      BY <1>0, <1>5, <2>1 DEF LastZeros, RootsSoFar, NumbersOK, FoundSoFar, SearchesCubics, Searching
    <2> QED
      BY <1>0, <1>5, <2>8, <2>9, <2>1 DEF LastZeros, RootsSoFar, NumbersOK, FoundSoFar, ArraysMatchDegree, Returned, Searching
  <1>6. CASE StartShifts
    <2>8. NumbersOK'
      BY <1>0, <1>6 DEF loops, inner, StartShifts, problem, RootsSoFar, NumbersOK, FoundSoFar, Searching
    <2>9. FoundSoFar' /\ SearchesCubics'
      BY <1>0, <1>6 DEF StartShifts, problem, RootsSoFar, NumbersOK, FoundSoFar, SearchesCubics, Searching
    <2> QED
      BY <1>0, <1>6, <2>8, <2>9 DEF StartShifts, problem, RootsSoFar, NumbersOK, FoundSoFar, ArraysMatchDegree, Returned, Searching
  <1>7. CASE NoConvergence
    <2>8. NumbersOK'
      BY <1>0, <1>7 DEF loops, inner, NoConvergence, SearchesCubics, RootsSoFar, NumbersOK, FoundSoFar, Searching
    <2>9. FoundSoFar' /\ SearchesCubics'
      BY <1>0, <1>7 DEF NoConvergence, SearchesCubics, RootsSoFar, NumbersOK, FoundSoFar, SearchesCubics, Searching
    <2> QED
      BY <1>0, <1>7, <2>8, <2>9 DEF NoConvergence, SearchesCubics, RootsSoFar, NumbersOK, FoundSoFar, ArraysMatchDegree, Returned, Searching
  <1>8. CASE Deflate
    <2>1. N' = N - NZ /\ N' \in Nat /\ N' <= degree
      BY <1>0, <1>8 DEF Deflate, RootsSoFar, NumbersOK, FoundSoFar, SearchesCubics, Searching
    <2>2. written' = 0 .. degree - N' - 1
      BY <1>0, <1>8, <2>1 DEF Deflate, RootsSoFar, NumbersOK, FoundSoFar, SearchesCubics, Searching
    <2>8. NumbersOK'
      BY <1>0, <1>8, <2>1, <2>2 DEF loops, inner, Deflate, RootsSoFar, NumbersOK, FoundSoFar, Searching
    <2>9. FoundSoFar' /\ SearchesCubics'
      BY <1>0, <1>8, <2>1, <2>2 DEF Deflate, RootsSoFar, NumbersOK, FoundSoFar, SearchesCubics, Searching
    <2> QED
      BY <1>0, <1>8, <2>8, <2>9, <2>1, <2>2 DEF Deflate, RootsSoFar, NumbersOK, FoundSoFar, ArraysMatchDegree, Returned, Searching
  <1>9. CASE UNCHANGED vars
    BY <1>9 DEF vars, RootsSoFar, NumbersOK, FoundSoFar, SearchesCubics, ArraysMatchDegree, Returned, Searching
  <1> QED
    BY <1>1, <1>2, <1>3, <1>4, <1>5, <1>6, <1>7, <1>8, <1>9 DEF Next, SearchStep

THEOREM Invariance == Spec => []IInv
  <1> QED
    BY InitIInv, NextKeepsRoots, NextKeepsFlags, PTL DEF Spec, IInv

\* Type correctness of the root finder.
THEOREM TypeCorrect == Spec => []TypeOK
  <1>1. IInv => TypeOK
    BY DEF IInv, RootsSoFar, TypeOK
  <1> QED
    BY <1>1, Invariance, PTL

\* The degree rpoly_ak1 returns is the number of roots in its arrays.
THEOREM DegreeIsCount == Spec => []ArraysMatchDegree
  <1>1. IInv => ArraysMatchDegree
    BY DEF IInv, RootsSoFar, TypeOK
  <1> QED
    BY <1>1, Invariance, PTL

\* The maxima of the derivatives are computed from roots that were found.
THEOREM CallersReadRoots == Spec => []RootsReadAreWritten
  <1>1. IInv => RootsReadAreWritten
    <2> SUFFICES ASSUME IInv, Returned, degree # 0, op.degree \in {2, 3}
                 PROVE  0 .. op.degree - 1 \subseteq written
      BY DEF RootsReadAreWritten
    <2>1. degree = op.degree
      BY DEF IInv, RootsSoFar
    <2> QED
      BY <2>1 DEF IInv, RootsSoFar, ArraysMatchDegree
  <1> QED
    BY <1>1, Invariance, PTL
-----------------------------------------------------------------------------
(* Termination of the control                                               *)

\* What is left of a count to n.
Left(n, k) == IF k < n THEN n - k ELSE 0

Iterating == {"choose", "restore", "quadratic", "linear"}

\* The digits of a number that every step makes smaller, the zeros to find first.
ZerosLeft ==
    IF pc = "call" THEN op.degree + 2 ELSE IF pc = "returned" THEN 0 ELSE N + 1

ShiftsLeft ==
    IF pc = "main" THEN MaxShifts + 3
    ELSE IF pc \in Iterating \union {"shift", "fixed"} THEN 1 + Left(MaxShifts + 1, jj) ELSE 0

FixedStepsLeft ==
    IF pc = "shift" THEN FixedSteps * MaxShifts + 1
    ELSE IF pc \in Iterating \union {"fixed"} THEN Left(FixedSteps * MaxShifts, j) ELSE 0

\* Between two fixed shift steps: the linear iteration may come first once (fflag)
\* and fails once (stry); the quadratic one follows a restart only if it has not
\* been tried (vtry).
AttemptsLeft ==
    IF pc = "fixed" THEN 12
    ELSE IF pc \in Iterating
    THEN (IF fflag THEN 4 ELSE 0) + (IF stry THEN 0 ELSE 4)
         + (IF pc = "choose" THEN 2 ELSE IF pc = "quadratic" THEN 1
            ELSE IF pc = "restore" /\ ~vtry THEN 3 ELSE 0)
    ELSE 0

IterationLeft ==
    IF pc = "quadratic"
    THEN Left(QuadraticSteps, steps) + (IF triedFlag THEN 0 ELSE QuadraticSteps + 1)
    ELSE IF pc = "linear" THEN Left(LinearSteps, steps) ELSE 0

\* The number whose last digit, of base b, is y.
Then(x, b, y) == x * b + y

Remaining ==
    Then(Then(Then(Then(ZerosLeft, MaxShifts + 4, ShiftsLeft),
                   FixedSteps * MaxShifts + 2, FixedStepsLeft),
              13, AttemptsLeft),
         2 * QuadraticSteps + LinearSteps + 2, IterationLeft)

\* Where the flags and counters of the loops stand.
LoopsBounded ==
    /\ pc \in Iterating \union {"fixed"} => jj <= MaxShifts
    /\ pc \in Iterating => j < FixedSteps * jj
    /\ pc \in Iterating /\ fflag => pc = "choose" /\ ~stry
    /\ pc = "linear" => ~stry

\* A number with a smaller digit is smaller, whatever the digits behind.
LEMMA ThenIsLess ==
    ASSUME NEW b \in Nat, NEW x \in Nat, NEW y \in Nat, NEW v \in Nat, NEW w \in Nat, w < b,
           v < x \/ (v = x /\ w < y)
    PROVE  Then(v, b, w) \in Nat /\ Then(x, b, y) \in Nat /\ Then(v, b, w) < Then(x, b, y)
  <1>1. v * b \in Nat /\ x * b \in Nat
    OBVIOUS
  <1>2. CASE v < x
    <2>1. PICK k \in Nat : x = v + 1 + k
      <3>1. x - v - 1 \in Nat /\ x = v + 1 + (x - v - 1)
        BY <1>2
      <3> QED
        BY <3>1
    <2>2. x * b = v * b + b + k * b /\ k * b \in Nat
      BY <2>1
    <2> QED
      BY <1>1, <2>2 DEF Then
  <1>3. CASE v = x /\ w < y
    BY <1>1, <1>3 DEF Then
  <1> QED
    BY <1>1, <1>2, <1>3 DEF Then

\* What is left of a count.
LEMMA LeftFacts ==
    ASSUME NEW n \in Nat, NEW k \in Nat
    PROVE  /\ Left(n, k) \in Nat /\ Left(n, k) <= n
           /\ k < n => Left(n, k + 1) < Left(n, k)
  BY DEF Left

\* The steps of the loops that are inside of each other do not outrun the outer ones.
LEMMA StepsOfShift ==
    ASSUME NEW k \in Nat, k <= MaxShifts
    PROVE  FixedSteps * k \in Nat /\ FixedSteps * MaxShifts \in Nat /\ FixedSteps * k <= FixedSteps * MaxShifts
  <1>1. MaxShifts \in Nat /\ FixedSteps \in Nat
    BY StepsAssumption
  <1>2. PICK l \in Nat : MaxShifts = k + l
    <2>1. MaxShifts - k \in Nat /\ MaxShifts = k + (MaxShifts - k)
      BY <1>1
    <2> QED
      BY <2>1
  <1>3. FixedSteps * MaxShifts = FixedSteps * k + FixedSteps * l /\ FixedSteps * l \in Nat /\ FixedSteps * k \in Nat
    BY <1>1, <1>2
  <1> QED
    BY <1>3

\* Every digit is below its base.
DigitsBounded ==
    /\ ZerosLeft \in Nat
    /\ ShiftsLeft \in Nat /\ ShiftsLeft < MaxShifts + 4
    /\ FixedStepsLeft \in Nat /\ FixedStepsLeft < FixedSteps * MaxShifts + 2
    /\ AttemptsLeft \in 0 .. 12
    /\ IterationLeft \in Nat /\ IterationLeft < 2 * QuadraticSteps + LinearSteps + 2

\* They are, whatever the flags.
LEMMA DigitsAreBounded == IInv => DigitsBounded
  <1> SUFFICES ASSUME IInv PROVE DigitsBounded
    OBVIOUS
  <1>1. /\ MaxShifts \in Nat /\ FixedSteps \in Nat /\ QuadraticSteps \in Nat /\ LinearSteps \in Nat
        /\ MaxShifts + 1 \in Nat /\ FixedSteps * MaxShifts \in Nat
    BY StepsAssumption
  <1>2. jj \in Nat /\ j \in Nat /\ steps \in Nat /\ N \in Nat /\ op.degree \in Nat
    BY PolynomialType DEF IInv, RootsSoFar, NumbersOK
  <1>3. fflag \in BOOLEAN /\ stry \in BOOLEAN /\ vtry \in BOOLEAN /\ triedFlag \in BOOLEAN
    BY DEF IInv, FlagsOK
  <1>4. ZerosLeft \in Nat
    BY <1>2 DEF ZerosLeft
  <1>5. ShiftsLeft \in Nat /\ ShiftsLeft < MaxShifts + 4
    <2>1. Left(MaxShifts + 1, jj) \in Nat /\ Left(MaxShifts + 1, jj) <= MaxShifts + 1
      BY <1>1, <1>2, LeftFacts
    <2> QED
      BY <1>1, <2>1 DEF ShiftsLeft
  <1>6. FixedStepsLeft \in Nat /\ FixedStepsLeft < FixedSteps * MaxShifts + 2
    <2> DEFINE b == FixedSteps * MaxShifts
    <2>1. b \in Nat /\ Left(b, j) \in Nat /\ Left(b, j) <= b
      BY <1>1, <1>2, LeftFacts
    <2> HIDE DEF b
    <2>2. FixedStepsLeft \in {0, b + 1, Left(b, j)}
      BY DEF FixedStepsLeft, b
    <2>3. FixedStepsLeft \in Nat /\ FixedStepsLeft < b + 2
      BY <2>1, <2>2
    <2> QED
      BY <2>3 DEF b
  <1>7. AttemptsLeft \in 0 .. 12
    BY <1>3 DEF AttemptsLeft
  <1>8. IterationLeft \in Nat /\ IterationLeft < 2 * QuadraticSteps + LinearSteps + 2
    <2>1. /\ Left(QuadraticSteps, steps) \in Nat /\ Left(QuadraticSteps, steps) <= QuadraticSteps
          /\ Left(LinearSteps, steps) \in Nat /\ Left(LinearSteps, steps) <= LinearSteps
      BY <1>1, <1>2, LeftFacts
    <2> QED
      BY <1>1, <2>1 DEF IterationLeft
  <1> QED
    BY <1>4, <1>5, <1>6, <1>7, <1>8 DEF DigitsBounded

\* A step lowers one digit and leaves those before it alone.
Lowers ==
    \/ ZerosLeft' < ZerosLeft
    \/ ZerosLeft' = ZerosLeft /\ ShiftsLeft' < ShiftsLeft
    \/ ZerosLeft' = ZerosLeft /\ ShiftsLeft' = ShiftsLeft /\ FixedStepsLeft' < FixedStepsLeft
    \/ /\ ZerosLeft' = ZerosLeft /\ ShiftsLeft' = ShiftsLeft /\ FixedStepsLeft' = FixedStepsLeft
       /\ AttemptsLeft' < AttemptsLeft
    \/ /\ ZerosLeft' = ZerosLeft /\ ShiftsLeft' = ShiftsLeft /\ FixedStepsLeft' = FixedStepsLeft
       /\ AttemptsLeft' = AttemptsLeft
       /\ IterationLeft' < IterationLeft

\* A step leaves fewer to do.
ComesCloser ==
    /\ Remaining \in Nat /\ Remaining' \in Nat
    /\ Remaining' < Remaining

\* Then the number they make is smaller.
LEMMA LowersRemaining ==
    ASSUME DigitsBounded, DigitsBounded', Lowers
    PROVE  ComesCloser
  <1> DEFINE b1 == MaxShifts + 4
             b2 == FixedSteps * MaxShifts + 2
             b4 == 2 * QuadraticSteps + LinearSteps + 2
             x0 == ZerosLeft
             x1 == ShiftsLeft
             x2 == FixedStepsLeft
             x3 == AttemptsLeft
             x4 == IterationLeft
             y0 == ZerosLeft'
             y1 == ShiftsLeft'
             y2 == FixedStepsLeft'
             y3 == AttemptsLeft'
             y4 == IterationLeft'
  <1>1. b1 \in Nat /\ b2 \in Nat /\ b4 \in Nat /\ 13 \in Nat
    BY StepsAssumption
  <1>2. x0 \in Nat /\ x1 \in Nat /\ x2 \in Nat /\ x3 \in Nat /\ x4 \in Nat /\ x1 < b1 /\ x2 < b2 /\ x3 < 13 /\ x4 < b4
    BY DEF DigitsBounded
  <1>3. y0 \in Nat /\ y1 \in Nat /\ y2 \in Nat /\ y3 \in Nat /\ y4 \in Nat /\ y1 < b1 /\ y2 < b2 /\ y3 < 13 /\ y4 < b4
    BY DEF DigitsBounded
  <1>4. \/ y0 < x0
        \/ y0 = x0 /\ y1 < x1
        \/ y0 = x0 /\ y1 = x1 /\ y2 < x2
        \/ y0 = x0 /\ y1 = x1 /\ y2 = x2 /\ y3 < x3
        \/ y0 = x0 /\ y1 = x1 /\ y2 = x2 /\ y3 = x3 /\ y4 < x4
    BY DEF Lowers
  <1>5. /\ Remaining = Then(Then(Then(Then(x0, b1, x1), b2, x2), 13, x3), b4, x4)
        /\ Remaining' = Then(Then(Then(Then(y0, b1, y1), b2, y2), 13, y3), b4, y4)
    BY DEF Remaining, Then
  <1> HIDE DEF b1, b2, b4, x0, x1, x2, x3, x4, y0, y1, y2, y3, y4
  <1> DEFINE X1 == Then(x0, b1, x1)
             Y1 == Then(y0, b1, y1)
             X2 == Then(X1, b2, x2)
             Y2 == Then(Y1, b2, y2)
             X3 == Then(X2, 13, x3)
             Y3 == Then(Y2, 13, y3)
  <1>6. /\ X1 \in Nat /\ Y1 \in Nat
        /\ Y1 < X1 \/ (Y1 = X1 /\ y2 < x2) \/ (Y1 = X1 /\ y2 = x2 /\ y3 < x3)
           \/ (Y1 = X1 /\ y2 = x2 /\ y3 = x3 /\ y4 < x4)
    <2>1. X1 \in Nat /\ Y1 \in Nat
      BY <1>1, <1>2, <1>3 DEF Then
    <2>2. y0 < x0 \/ (y0 = x0 /\ y1 < x1) => Y1 < X1
      BY <1>1, <1>2, <1>3, ThenIsLess
    <2>3. y0 = x0 /\ y1 = x1 => Y1 = X1
      OBVIOUS
    <2> QED
      BY <1>4, <2>1, <2>2, <2>3
  <1> HIDE DEF X1, Y1
  <1>7. /\ X2 \in Nat /\ Y2 \in Nat
        /\ Y2 < X2 \/ (Y2 = X2 /\ y3 < x3) \/ (Y2 = X2 /\ y3 = x3 /\ y4 < x4)
    <2>1. X2 \in Nat /\ Y2 \in Nat
      BY <1>1, <1>2, <1>3, <1>6 DEF Then
    <2>2. Y1 < X1 \/ (Y1 = X1 /\ y2 < x2) => Y2 < X2
      BY <1>1, <1>2, <1>3, <1>6, ThenIsLess
    <2>3. Y1 = X1 /\ y2 = x2 => Y2 = X2
      OBVIOUS
    <2> QED
      BY <1>6, <2>1, <2>2, <2>3
  <1> HIDE DEF X2, Y2
  <1>8. /\ X3 \in Nat /\ Y3 \in Nat
        /\ Y3 < X3 \/ (Y3 = X3 /\ y4 < x4)
    <2>1. X3 \in Nat /\ Y3 \in Nat
      BY <1>1, <1>2, <1>3, <1>7 DEF Then
    <2>2. Y2 < X2 \/ (Y2 = X2 /\ y3 < x3) => Y3 < X3
      BY <1>1, <1>2, <1>3, <1>7, ThenIsLess
    <2>3. Y2 = X2 /\ y3 = x3 => Y3 = X3
      OBVIOUS
    <2> QED
      BY <1>7, <2>1, <2>2, <2>3
  <1> HIDE DEF X3, Y3
  <1>9. Then(X3, b4, x4) \in Nat /\ Then(Y3, b4, y4) \in Nat /\ Then(Y3, b4, y4) < Then(X3, b4, x4)
    BY <1>1, <1>2, <1>3, <1>8, ThenIsLess
  <1> QED
    BY <1>5, <1>9 DEF X1, X2, X3, Y1, Y2, Y3, ComesCloser

\* The loops stand within their bounds at every step.
LEMMA NextKeepsLoops == IInv /\ LoopsBounded /\ [Next]_vars => LoopsBounded'
  <1> SUFFICES ASSUME IInv, LoopsBounded, [Next]_vars PROVE LoopsBounded'
    OBVIOUS
  <1> USE DEF LoopsBounded, Iterating
  <1>1. CASE DegreeTooLarge \/ NoLeadingCoefficient
    BY <1>1 DEF DegreeTooLarge, NoLeadingCoefficient, Refuse
  <1>2. CASE RemoveZerosAtOrigin \/ LastZeros \/ StartShifts \/ NoConvergence \/ Deflate
    BY <1>2 DEF RemoveZerosAtOrigin, LastZeros, StartShifts, NoConvergence, Deflate
  <1>3. CASE NextShift
    BY <1>3 DEF NextShift
  <1>4. CASE FixedShiftsEnd
    BY <1>4 DEF FixedShiftsEnd
  <1>5. CASE FixedShiftStep
    BY <1>5 DEF FixedShiftStep
  <1>6. CASE LinearFirst
    BY <1>6 DEF LinearFirst, Goes, loops
  <1>7. CASE StartQuadratic
    BY <1>7 DEF StartQuadratic, loops
  <1>8. CASE Restore
    <2>1. stry' = stry /\ fflag' = fflag /\ jj' = jj
      BY <1>8 DEF Restore, flags
    <2>2. pc' = "fixed" \/ (pc' = "choose" /\ j' = j)
      BY <1>8 DEF Restore
    <2> QED
      BY <1>8, <2>1, <2>2 DEF Restore
  <1>9. CASE QuadraticConverges \/ LinearConverges
    BY <1>9 DEF QuadraticConverges, LinearConverges, Found
  <1>10. CASE QuadraticDiverges \/ QuadraticStepsEnd
    BY <1>10 DEF QuadraticDiverges, QuadraticStepsEnd, QuadraticFails, Goes, loops
  <1>11. CASE QuadraticStep \/ LinearStep
    BY <1>11 DEF QuadraticStep, LinearStep, loops, flags
  <1>12. CASE LinearStepsEnd \/ LinearCluster
    BY <1>12 DEF LinearStepsEnd, LinearCluster, LinearFails, loops
  <1>13. CASE UNCHANGED vars
    BY <1>13 DEF vars
  <1> QED
    BY <1>1, <1>2, <1>3, <1>4, <1>5, <1>6, <1>7, <1>8, <1>9, <1>10, <1>11, <1>12, <1>13 DEF Next

\* A step within an iteration, or between two of them, leaves the first digits alone.
LEMMA SameLoops ==
    ASSUME pc \in Iterating, pc' \in Iterating, op' = op, N' = N, jj' = jj, j' = j
    PROVE  ZerosLeft' = ZerosLeft /\ ShiftsLeft' = ShiftsLeft /\ FixedStepsLeft' = FixedStepsLeft
  BY DEF Iterating, ZerosLeft, ShiftsLeft, FixedStepsLeft

\* Every step of rpoly_ak1 lowers a digit: one case for each loop.
LEMMA NextLowers == IInv /\ LoopsBounded /\ Next => Lowers
  <1> SUFFICES ASSUME IInv, LoopsBounded, Next PROVE Lowers
    OBVIOUS
  <1>0. /\ jj \in Nat /\ j \in Nat /\ steps \in Nat /\ N \in Nat
        /\ op.degree \in Nat /\ op.zeros \in Nat /\ op.zeros <= op.degree
        /\ fflag \in BOOLEAN /\ stry \in BOOLEAN /\ vtry \in BOOLEAN /\ triedFlag \in BOOLEAN
        /\ MaxShifts \in Nat /\ FixedSteps \in Nat /\ QuadraticSteps \in Nat /\ LinearSteps \in Nat
        /\ FixedSteps * MaxShifts \in Nat
        /\ MaxShifts + 1 \in Nat /\ jj + 1 \in Nat /\ steps + 1 \in Nat /\ 0 \in Nat /\ 1 \in Nat
    BY PolynomialType, StepsAssumption DEF IInv, RootsSoFar, NumbersOK, FlagsOK
  <1>1. CASE DegreeTooLarge \/ NoLeadingCoefficient
    BY <1>0, <1>1 DEF DegreeTooLarge, NoLeadingCoefficient, Refuse, Lowers, ZerosLeft
  <1>2. CASE RemoveZerosAtOrigin
    BY <1>0, <1>2 DEF RemoveZerosAtOrigin, Lowers, ZerosLeft
  <1>3. CASE LastZeros
    BY <1>0, <1>3 DEF LastZeros, Lowers, ZerosLeft
  <1>4. CASE NoConvergence
    BY <1>0, <1>4 DEF NoConvergence, Lowers, ZerosLeft
  <1>5. CASE Deflate
    <2>1. NZ \in {1, 2} /\ N > 2
      BY <1>5 DEF IInv, RootsSoFar, SearchesCubics, Deflate, Searching
    <2> QED
      BY <1>0, <1>5, <2>1 DEF Deflate, Lowers, ZerosLeft
  <1>6. CASE StartShifts
    <2>1. ZerosLeft' = ZerosLeft
      BY <1>6 DEF StartShifts, ZerosLeft, problem
    <2>2. Left(MaxShifts + 1, 1) \in Nat /\ Left(MaxShifts + 1, 1) <= MaxShifts + 1
      BY <1>0, LeftFacts
    <2>3. ShiftsLeft = MaxShifts + 3 /\ ShiftsLeft' = 1 + Left(MaxShifts + 1, 1)
      BY <1>6 DEF StartShifts, ShiftsLeft
    <2> QED
      BY <1>0, <2>1, <2>2, <2>3 DEF Lowers
  <1>7. CASE QuadraticConverges \/ LinearConverges
    <2>1. pc \in Iterating /\ pc' = "deflate" /\ op' = op /\ N' = N
      BY <1>7 DEF QuadraticConverges, LinearConverges, Found, problem, Iterating
    <2>2. ZerosLeft' = ZerosLeft
      BY <2>1 DEF ZerosLeft, Iterating
    <2>3. ShiftsLeft' = 0 /\ ShiftsLeft = 1 + Left(MaxShifts + 1, jj)
      BY <2>1 DEF ShiftsLeft, Iterating
    <2>4. Left(MaxShifts + 1, jj) \in Nat
      BY <1>0, LeftFacts
    <2> QED
      BY <2>2, <2>3, <2>4 DEF Lowers
  <1>8. CASE FixedShiftsEnd
    <2>1. ZerosLeft' = ZerosLeft
      BY <1>8 DEF FixedShiftsEnd, ZerosLeft, problem
    <2>2. jj < MaxShifts + 1 /\ jj' = jj + 1
      BY <1>0, <1>8 DEF FixedShiftsEnd, LoopsBounded, Iterating
    <2>3. Left(MaxShifts + 1, jj + 1) < Left(MaxShifts + 1, jj)
      BY <1>0, <2>2, LeftFacts
    <2>4. ShiftsLeft = 1 + Left(MaxShifts + 1, jj) /\ ShiftsLeft' = 1 + Left(MaxShifts + 1, jj + 1)
      BY <1>8, <2>2 DEF FixedShiftsEnd, ShiftsLeft
    <2>5. Left(MaxShifts + 1, jj) \in Nat /\ Left(MaxShifts + 1, jj + 1) \in Nat
      BY <1>0, LeftFacts
    <2> QED
      BY <2>1, <2>3, <2>4, <2>5 DEF Lowers
  <1>9. CASE NextShift
    <2>1. ZerosLeft' = ZerosLeft /\ ShiftsLeft' = ShiftsLeft
      BY <1>9 DEF NextShift, ZerosLeft, ShiftsLeft, problem
    <2> DEFINE b == FixedSteps * MaxShifts
    <2>2. b \in Nat /\ Left(b, 0) \in Nat /\ Left(b, 0) <= b
      BY <1>0, LeftFacts
    <2>3. FixedStepsLeft = b + 1 /\ FixedStepsLeft' = Left(b, 0)
      BY <1>9 DEF NextShift, FixedStepsLeft
    <2> HIDE DEF b
    <2> QED
      BY <2>1, <2>2, <2>3 DEF Lowers
  <1>10. ASSUME pc \in Iterating \union {"fixed"}, pc' = "fixed", op' = op, N' = N, jj' = jj, j' = j + 1,
                jj <= MaxShifts, j < FixedSteps * jj
         PROVE  Lowers
    <2> DEFINE b == FixedSteps * MaxShifts
    <2>1. ZerosLeft' = ZerosLeft /\ ShiftsLeft' = ShiftsLeft
      BY <1>10 DEF Iterating, ZerosLeft, ShiftsLeft
    <2>2. j < b /\ b \in Nat
      <3>1. FixedSteps * jj \in Nat /\ FixedSteps * jj <= FixedSteps * MaxShifts
        BY <1>0, <1>10, StepsOfShift
      <3> QED
        BY <1>0, <1>10, <3>1
    <2>3. FixedStepsLeft = Left(b, j) /\ FixedStepsLeft' = Left(b, j + 1)
      BY <1>10 DEF Iterating, FixedStepsLeft
    <2> HIDE DEF b
    <2>4. Left(b, j + 1) < Left(b, j)
      BY <1>0, <2>2, LeftFacts
    <2> QED
      BY <2>1, <2>3, <2>4 DEF Lowers
  <1>11. CASE FixedShiftStep
    <2>1. /\ pc = "fixed" /\ j < FixedSteps * jj /\ jj <= MaxShifts
          /\ op' = op /\ N' = N /\ jj' = jj
          /\ \/ pc' = "choose" /\ j' = j /\ stry' = FALSE /\ fflag' = TRUE
             \/ pc' = "fixed" /\ j' = j + 1
      BY <1>11 DEF FixedShiftStep, problem, LoopsBounded
    <2>2. CASE pc' = "choose" /\ j' = j /\ stry' = FALSE /\ fflag' = TRUE
      <3>1. ZerosLeft' = ZerosLeft /\ ShiftsLeft' = ShiftsLeft /\ FixedStepsLeft' = FixedStepsLeft
        BY <2>1, <2>2 DEF Iterating, ZerosLeft, ShiftsLeft, FixedStepsLeft
      <3>2. AttemptsLeft = 12 /\ AttemptsLeft' = 10
        BY <2>1, <2>2 DEF Iterating, AttemptsLeft
      <3> QED
        BY <3>1, <3>2 DEF Lowers
    <2> QED
      BY <1>10, <2>1, <2>2
  <1>12. CASE Restore
    <2>1. /\ pc = "restore" /\ j < FixedSteps * jj /\ jj <= MaxShifts /\ ~fflag
          /\ op' = op /\ N' = N /\ jj' = jj /\ fflag' = fflag /\ stry' = stry
          /\ \/ pc' = "choose" /\ j' = j /\ ~vtry
             \/ pc' = "fixed" /\ j' = j + 1
      BY <1>12 DEF Restore, problem, flags, LoopsBounded, Iterating
    <2>2. CASE pc' = "choose" /\ j' = j /\ ~vtry
      <3>1. ZerosLeft' = ZerosLeft /\ ShiftsLeft' = ShiftsLeft /\ FixedStepsLeft' = FixedStepsLeft
        BY <2>1, <2>2, SameLoops DEF Iterating
      <3>2. AttemptsLeft' < AttemptsLeft
        BY <2>1, <2>2 DEF Iterating, AttemptsLeft
      <3> QED
        BY <3>1, <3>2 DEF Lowers
    <2> QED
      BY <1>10, <2>1, <2>2 DEF Iterating
  <1>13. ASSUME pc \in Iterating, pc' \in Iterating, op' = op, N' = N, jj' = jj, j' = j, AttemptsLeft' < AttemptsLeft
         PROVE  Lowers
    BY <1>13, SameLoops DEF Lowers
  <1>14. CASE LinearFirst
    <2>1. /\ pc = "choose" /\ fflag /\ ~stry /\ fflag' = FALSE /\ stry' = stry /\ pc' \in {"linear", "restore"}
          /\ op' = op /\ N' = N /\ jj' = jj /\ j' = j
      BY <1>14 DEF LinearFirst, Goes, problem, loops, LoopsBounded, Iterating
    <2>2. AttemptsLeft = 10 /\ AttemptsLeft' \in {4, 7}
      BY <2>1 DEF AttemptsLeft, Iterating
    <2> QED
      BY <1>13, <2>1, <2>2 DEF Iterating
  <1>15. CASE StartQuadratic
    <2>1. /\ pc = "choose" /\ fflag' = FALSE /\ stry' = stry /\ pc' = "quadratic"
          /\ op' = op /\ N' = N /\ jj' = jj /\ j' = j
      BY <1>15 DEF StartQuadratic, problem, loops
    <2>2. AttemptsLeft' < AttemptsLeft
      BY <1>0, <2>1 DEF AttemptsLeft, Iterating
    <2> QED
      BY <1>13, <2>1, <2>2 DEF Iterating
  <1>16. CASE QuadraticDiverges \/ QuadraticStepsEnd
    <2>1. /\ pc = "quadratic" /\ ~fflag /\ fflag' = fflag /\ stry' = stry /\ vtry' = TRUE
          /\ pc' \in {"linear", "restore"}
          /\ op' = op /\ N' = N /\ jj' = jj /\ j' = j
      BY <1>16 DEF QuadraticDiverges, QuadraticStepsEnd, QuadraticFails, Goes, problem, loops, LoopsBounded, Iterating
    <2>2. AttemptsLeft' < AttemptsLeft
      BY <1>0, <2>1 DEF AttemptsLeft, Iterating
    <2> QED
      BY <1>13, <2>1, <2>2 DEF Iterating
  <1>17. CASE LinearStepsEnd \/ LinearCluster
    <2>1. /\ pc = "linear" /\ ~fflag /\ ~stry /\ fflag' = fflag /\ stry' = TRUE
          /\ pc' \in {"choose", "restore"}
          /\ op' = op /\ N' = N /\ jj' = jj /\ j' = j
      BY <1>17 DEF LinearStepsEnd, LinearCluster, LinearFails, problem, loops, LoopsBounded, Iterating
    <2>2. AttemptsLeft = 4 /\ AttemptsLeft' \in 0 .. 3
      BY <1>0, <2>1 DEF AttemptsLeft, Iterating
    <2> QED
      BY <1>13, <2>1, <2>2 DEF Iterating
  <1>18. ASSUME pc \in Iterating, UNCHANGED <<pc, problem, loops, flags>>, IterationLeft' < IterationLeft
         PROVE  Lowers
    <2>1. ZerosLeft' = ZerosLeft /\ ShiftsLeft' = ShiftsLeft /\ FixedStepsLeft' = FixedStepsLeft
      BY <1>18, SameLoops DEF problem, loops
    <2>2. AttemptsLeft' = AttemptsLeft
      BY <1>18 DEF AttemptsLeft, flags
    <2> QED
      BY <1>18, <2>1, <2>2 DEF Lowers
  <1>19. CASE QuadraticStep
    <2> DEFINE q == QuadraticSteps
    <2>1. /\ pc = "quadratic" /\ pc' = "quadratic" /\ steps < q
          /\ \/ steps' = 0 /\ ~triedFlag /\ triedFlag' = TRUE
             \/ steps' = steps + 1 /\ triedFlag' = triedFlag
      BY <1>0, <1>19 DEF QuadraticStep, BreaksUp
    <2>2. /\ IterationLeft = Left(q, steps) + (IF triedFlag THEN 0 ELSE q + 1)
          /\ IterationLeft' = Left(q, steps') + (IF triedFlag' THEN 0 ELSE q + 1)
      BY <2>1 DEF IterationLeft
    <2>3. /\ Left(q, 0) \in Nat /\ Left(q, 0) <= q
          /\ Left(q, steps) \in Nat /\ Left(q, steps + 1) \in Nat /\ Left(q, steps + 1) < Left(q, steps)
      <3>1. Left(q, 0) \in Nat /\ Left(q, 0) <= q /\ Left(q, steps) \in Nat
        BY <1>0, LeftFacts
      <3>2. Left(q, steps + 1) \in Nat
        BY <1>0, LeftFacts
      <3>3. Left(q, steps + 1) < Left(q, steps)
        BY <1>0, <2>1, LeftFacts
      <3> QED
        BY <3>1, <3>2, <3>3
    <2>4. IterationLeft' < IterationLeft
      BY <1>0, <2>1, <2>2, <2>3
    <2> QED
      BY <1>18, <1>19, <2>4 DEF QuadraticStep, Iterating
  <1>20. CASE LinearStep
    <2>1. pc = "linear" /\ pc' = "linear" /\ steps < LinearSteps /\ steps' = steps + 1
      BY <1>20 DEF LinearStep
    <2>2. IterationLeft = Left(LinearSteps, steps) /\ IterationLeft' = Left(LinearSteps, steps + 1)
      BY <2>1 DEF IterationLeft
    <2>3. IterationLeft' < IterationLeft
      BY <1>0, <2>1, <2>2, LeftFacts
    <2> QED
      BY <1>18, <1>20, <2>3 DEF LinearStep, Iterating
  <1> QED
    BY <1>1, <1>2, <1>3, <1>4, <1>5, <1>6, <1>7, <1>8, <1>9, <1>11, <1>12, <1>14, <1>15, <1>16, <1>17,
       <1>19, <1>20 DEF Next

\* rpoly_ak1 comes to an end: whatever its convergence tests answer, each of its steps
\* makes a number smaller that is never negative, so it makes at most as many as that
\* number was in the call. Returns says the same of the run, where the program does not
\* stop before it has returned.
THEOREM StepsAreBounded ==
  Spec => [][ComesCloser]_vars
  <1>1. Init => LoopsBounded
    BY DEF Init, LoopsBounded, Iterating
  <1>2. IInv /\ IInv' /\ LoopsBounded /\ Next => ComesCloser
    <2> SUFFICES ASSUME IInv, IInv', LoopsBounded, Next
                 PROVE  ComesCloser
      OBVIOUS
    <2>1. DigitsBounded /\ DigitsBounded'
      BY DigitsAreBounded, PTL
    <2> QED
      BY <2>1, NextLowers, LowersRemaining
  <1> QED
    BY <1>1, <1>2, Invariance, NextKeepsLoops, PTL DEF Spec

-----------------------------------------------------------------------------
(* Recursions and polynomials                                               *)

\* A function on 0 .. n that is defined from its previous value exists.
Follows(g, n, base, step) ==
    \A i \in 0 .. n : g[i] = IF i = 0 THEN base ELSE step[<<i, g[i - 1]>>]

\* A recursion over 0 .. n has a solution: by induction over the numbers that have one.
LEMMA Recursion ==
  ASSUME NEW n \in Nat, NEW D, NEW base \in D, NEW step \in [(1 .. n) \X D -> D]
  PROVE  \E g \in [0 .. n -> D] : Follows(g, n, base, step)
<1> DEFINE Upto(m, g) == \A i \in 0 .. m : g[i] = IF i = 0 THEN base ELSE step[<<i, g[i - 1]>>]
           S == {m \in Nat : m <= n => \E g \in [0 .. m -> D] : Upto(m, g)}
<1>1. 0 \in S
  <2> DEFINE g == [i \in 0 .. 0 |-> base]
  <2>1. g \in [0 .. 0 -> D] /\ Upto(0, g)
    OBVIOUS
  <2>2. QED
    BY <2>1
<1>2. ASSUME NEW m \in Nat, m \in S
      PROVE  m + 1 \in S
  <2> SUFFICES ASSUME m + 1 <= n
               PROVE  \E g \in [0 .. m + 1 -> D] : Upto(m + 1, g)
    OBVIOUS
  <2>1. PICK f \in [0 .. m -> D] : Upto(m, f)
    BY <1>2
  <2> DEFINE g == [i \in 0 .. m + 1 |-> IF i = m + 1 THEN step[<<m + 1, f[m]>>] ELSE f[i]]
  <2>2. step[<<m + 1, f[m]>>] \in D
    BY <2>1
  <2>3. \A i \in 0 .. m + 1 : i = m + 1 \/ i \in 0 .. m
    OBVIOUS
  <2>4. g \in [0 .. m + 1 -> D]
    BY <2>1, <2>2, <2>3
  <2>5. ASSUME NEW i \in 0 .. m + 1
        PROVE  g[i] = IF i = 0 THEN base ELSE step[<<i, g[i - 1]>>]
    <3>1. CASE i = m + 1
      <4>1. g[m + 1] = step[<<m + 1, f[m]>>] /\ m \in 0 .. m + 1 /\ m # m + 1 /\ m + 1 # 0
        OBVIOUS
      <4>2. g[m] = f[m] /\ i - 1 = m
        BY <3>1, <4>1
      <4>3. QED
        BY <3>1, <4>1, <4>2
    <3>2. CASE i # m + 1
      <4>1. i \in 0 .. m /\ g[i] = f[i]
        BY <3>2
      <4>2. i # 0 => g[i - 1] = f[i - 1]
        BY <4>1
      <4>3. QED
        BY <2>1, <4>1, <4>2
    <3>3. QED
      BY <3>1, <3>2
  <2>6. QED
    BY <2>4, <2>5
<1>3. n \in S
  <2> HIDE DEF S
  <2>1. QED
    BY <1>1, <1>2, SetInduction
<1>4. QED
  BY <1>3 DEF Follows

\* The partial sums of Horner's scheme exist, and are numbers.
IsHorner(h, n, x, p) ==
    h = [i \in 0 .. n |-> IF i = 0 THEN p[0] ELSE (h[i - 1] (.) x) (+) p[i]]

\* The partial values of Horner's scheme exist.
LEMMA HornerExists ==
  ASSUME NEW n \in Nat, NEW x \in Rat, NEW p \in [0 .. n -> Rat]
  PROVE  \E g \in [0 .. n -> Rat] : IsHorner(g, n, x, p)
<1> DEFINE step == [z \in (1 .. n) \X Rat |-> RAdd(RMul(z[2], x), p[z[1]])]
           base == p[0]
<1>0. base \in Rat
  OBVIOUS
<1>1. step \in [(1 .. n) \X Rat -> Rat]
  <2> SUFFICES ASSUME NEW z \in (1 .. n) \X Rat
               PROVE  RAdd(RMul(z[2], x), p[z[1]]) \in Rat
    OBVIOUS
  <2>1. z[2] \in Rat /\ p[z[1]] \in Rat
    OBVIOUS
  <2>2. QED
    BY <2>1, MulType, AddType
<1>2. ASSUME NEW i \in 1 .. n, NEW y \in Rat
      PROVE  step[<<i, y>>] = RAdd(RMul(y, x), p[i])
  OBVIOUS
<1> HIDE DEF step, base
<1>3. \E g \in [0 .. n -> Rat] : Follows(g, n, base, step)
  BY <1>0, <1>1, Recursion
<1>4. PICK g \in [0 .. n -> Rat] : \A i \in 0 .. n : g[i] = IF i = 0 THEN base ELSE step[<<i, g[i - 1]>>]
  BY <1>3 DEF Follows
<1>5. ASSUME NEW i \in 0 .. n
      PROVE  g[i] = IF i = 0 THEN p[0] ELSE (g[i - 1] (.) x) (+) p[i]
  <2>1. CASE i = 0
    BY <1>4, <2>1 DEF base
  <2>2. CASE i # 0
    <3>1. i \in 1 .. n /\ i - 1 \in 0 .. n /\ g[i - 1] \in Rat
      BY <2>2
    <3>2. g[i] = step[<<i, g[i - 1]>>]
      BY <1>4, <2>2
    <3>3. step[<<i, g[i - 1]>>] = RAdd(RMul(g[i - 1], x), p[i])
      BY <1>2, <3>1
    <3>4. QED
      BY <2>2, <3>2, <3>3 DEF (.), (+)
  <2>3. QED
    BY <2>1, <2>2
<1>6. IsHorner(g, n, x, p)
  BY <1>5 DEF IsHorner
<1>7. QED
  BY <1>6

\* They are fractions, and each comes from the one before.
LEMMA HornerFacts ==
  ASSUME NEW n \in Nat, NEW x \in Rat, NEW p \in [0 .. n -> Rat], NEW h, IsHorner(h, n, x, p)
  PROVE  /\ h \in [0 .. n -> Rat] /\ h[0] = p[0]
         /\ \A i \in 1 .. n : h[i] = RAdd(RMul(h[i - 1], x), p[i])
<1>1. DOMAIN h = 0 .. n /\ \A i \in 0 .. n : h[i] = IF i = 0 THEN p[0] ELSE (h[i - 1] (.) x) (+) p[i]
  BY DEF IsHorner
<1>2. h[0] = p[0]
  BY <1>1
<1>3. ASSUME NEW i \in 1 .. n
       PROVE  h[i] = RAdd(RMul(h[i - 1], x), p[i])
  <2>1. i \in 0 .. n /\ i # 0
    OBVIOUS
  <2>2. QED
    BY <1>1, <2>1 DEF (.), (+)
<1> DEFINE S == {m \in Nat : m <= n => h[m] \in Rat}
<1>4. 0 \in S
  BY <1>2
<1>5. ASSUME NEW m \in Nat, m \in S
       PROVE  m + 1 \in S
  <2> SUFFICES ASSUME m + 1 <= n
               PROVE  h[m + 1] \in Rat
    OBVIOUS
  <2>1. m + 1 \in 1 .. n /\ (m + 1) - 1 = m /\ h[m] \in Rat
    BY <1>5
  <2>2. h[m + 1] = RAdd(RMul(h[m], x), p[m + 1])
    BY <1>3, <2>1
  <2>3. p[m + 1] \in Rat
    BY <2>1
  <2>4. RMul(h[m], x) \in Rat
    BY <2>1, MulType
  <2>5. QED
    BY <2>2, <2>3, <2>4, AddType
<1> HIDE DEF S
<1>6. Nat \subseteq S
  BY <1>4, <1>5, SetInduction
<1>7. \A i \in 0 .. n : h[i] \in Rat
  BY <1>6 DEF S
<1>8. h = [i \in 0 .. n |-> IF i = 0 THEN p[0] ELSE (h[i - 1] (.) x) (+) p[i]]
  BY DEF IsHorner
<1>9. h \in [0 .. n -> Rat]
  BY <1>1, <1>7, <1>8
<1>10. QED
  BY <1>2, <1>3, <1>9

\* The degree of a polynomial is the last index of its coefficients.
LEMMA DegreeIs ==
  ASSUME NEW n \in 0 .. 12, NEW p, DOMAIN p = 0 .. n
  PROVE  Degree(p) = n
<1>1. ASSUME NEW m \in 0 .. 12, 0 .. m = 0 .. n
      PROVE  m = n
  BY <1>1, m \in 0 .. m, n \in 0 .. n
<1>2. QED
  BY <1>1 DEF Degree

\* The same of a polynomial whose coefficients are known.
LEMMA DegreeOf ==
  ASSUME NEW n \in 0 .. 12, NEW D, NEW p \in [0 .. n -> D]
  PROVE  Degree(p) = n
<1>1. DOMAIN p = 0 .. n
  OBVIOUS
<1> HIDE DEF Degree
<1>2. QED
  BY <1>1, DegreeIs, Zenon

\* Value is the last of the partial values of Horner's scheme.
LEMMA ValueIs ==
  ASSUME NEW n \in 0 .. 12, NEW x \in Rat, NEW p \in [0 .. n -> Rat]
  PROVE  \E h \in [0 .. n -> Rat] :
            /\ h[0] = p[0] /\ Value(p, x) = h[n]
            /\ \A i \in 1 .. n : h[i] = RAdd(RMul(h[i - 1], x), p[i])
<1>0. n \in Nat
  OBVIOUS
<1> HIDE DEF Degree
<1>1. Degree(p) = n
  BY DegreeOf, Zenon
<1> DEFINE h == CHOOSE f : f = [i \in 0 .. n |-> IF i = 0 THEN p[0] ELSE (f[i - 1] (.) x) (+) p[i]]
<1>2. Value(p, x) = h[n]
  BY <1>1 DEF Value
<1>3. PICK g : IsHorner(g, n, x, p)
  BY <1>0, HornerExists
<1>4. IsHorner(h, n, x, p)
  BY <1>3 DEF IsHorner
<1> HIDE DEF h
<1>5. h \in [0 .. n -> Rat] /\ h[0] = p[0] /\ \A i \in 1 .. n : h[i] = RAdd(RMul(h[i - 1], x), p[i])
  BY <1>0, <1>4, HornerFacts
<1>6. QED
  BY <1>2, <1>5

\* Powers.
IsPower(h, n, x) == h = [i \in 0 .. n |-> IF i = 0 THEN One ELSE x (.) h[i - 1]]

\* The powers of a fraction exist.
LEMMA PowerExists ==
  ASSUME NEW n \in Nat, NEW x \in Rat
  PROVE  \E g \in [0 .. n -> Rat] : IsPower(g, n, x)
<1> DEFINE step == [z \in (1 .. n) \X Rat |-> RMul(x, z[2])]
<1>0. One \in Rat
  BY ZeroOne
<1>1. step \in [(1 .. n) \X Rat -> Rat]
  <2> SUFFICES ASSUME NEW z \in (1 .. n) \X Rat
               PROVE  RMul(x, z[2]) \in Rat
    OBVIOUS
  <2>1. z[2] \in Rat
    OBVIOUS
  <2>2. QED
    BY <2>1, MulType
<1>2. ASSUME NEW i \in 1 .. n, NEW y \in Rat
      PROVE  step[<<i, y>>] = RMul(x, y)
  OBVIOUS
<1> HIDE DEF step
<1>3. \E g \in [0 .. n -> Rat] : Follows(g, n, One, step)
  BY <1>0, <1>1, Recursion
<1>4. PICK g \in [0 .. n -> Rat] : \A i \in 0 .. n : g[i] = IF i = 0 THEN One ELSE step[<<i, g[i - 1]>>]
  BY <1>3 DEF Follows
<1>5. ASSUME NEW i \in 0 .. n
      PROVE  g[i] = IF i = 0 THEN One ELSE x (.) g[i - 1]
  <2>1. CASE i = 0
    BY <1>4, <2>1
  <2>2. CASE i # 0
    <3>1. i \in 1 .. n /\ i - 1 \in 0 .. n /\ g[i - 1] \in Rat
      BY <2>2
    <3>2. g[i] = step[<<i, g[i - 1]>>]
      BY <1>4, <2>2
    <3>3. step[<<i, g[i - 1]>>] = RMul(x, g[i - 1])
      BY <1>2, <3>1
    <3>4. QED
      BY <2>2, <3>2, <3>3 DEF (.)
  <2>3. QED
    BY <2>1, <2>2
<1>6. IsPower(g, n, x)
  BY <1>5 DEF IsPower
<1>7. QED
  BY <1>6

\* Power is the recursion its definition reads as.
LEMMA PowerIs ==
  ASSUME NEW n \in Nat, NEW x \in Rat
  PROVE  \E h : /\ h[0] = One /\ Power(x, n) = h[n]
                /\ \A i \in 1 .. n : h[i] = RMul(x, h[i - 1])
<1> DEFINE h == CHOOSE f : f = [i \in 0 .. n |-> IF i = 0 THEN One ELSE x (.) f[i - 1]]
<1>2. Power(x, n) = h[n]
  BY DEF Power
<1>3. PICK g : IsPower(g, n, x)
  BY PowerExists
<1>4. IsPower(h, n, x)
  BY <1>3 DEF IsPower
<1> HIDE DEF h
<1>5. \A i \in 0 .. n : h[i] = IF i = 0 THEN One ELSE x (.) h[i - 1]
  BY <1>4 DEF IsPower
<1>6. h[0] = One
  BY <1>5
<1>7. ASSUME NEW i \in 1 .. n
      PROVE  h[i] = RMul(x, h[i - 1])
  <2>1. i \in 0 .. n /\ i # 0
    OBVIOUS
  <2>2. QED
    BY <1>5, <2>1 DEF (.)
<1>8. QED
  BY <1>2, <1>6, <1>7

\* The powers a segment needs, written out.
LEMMA Powers ==
  ASSUME NEW x \in Rat
  PROVE  /\ Power(x, 1) = x /\ Power(x, 2) = RMul(x, x) /\ Power(x, 3) = RMul(x, RMul(x, x))
         /\ Power(x, 4) = RMul(x, RMul(x, RMul(x, x)))
         /\ Power(x, 5) = RMul(x, RMul(x, RMul(x, RMul(x, x))))
<1>1. ASSUME NEW n \in 1 .. 5
      PROVE  /\ n = 1 => Power(x, n) = x
             /\ n = 2 => Power(x, n) = RMul(x, x)
             /\ n = 3 => Power(x, n) = RMul(x, RMul(x, x))
             /\ n = 4 => Power(x, n) = RMul(x, RMul(x, RMul(x, x)))
             /\ n = 5 => Power(x, n) = RMul(x, RMul(x, RMul(x, RMul(x, x))))
  <2>1. PICK h : /\ h[0] = One /\ Power(x, n) = h[n]
                 /\ \A i \in 1 .. n : h[i] = RMul(x, h[i - 1])
    BY PowerIs
  <2>2. h[1] = x
    <3>1. h[1] = RMul(x, h[1 - 1])
      BY <2>1
    <3>2. QED
      BY <2>1, <3>1, Neutral
  <2>3. n >= 2 => h[2] = RMul(x, h[2 - 1])
    BY <2>1
  <2>4. n >= 3 => h[3] = RMul(x, h[3 - 1])
    BY <2>1
  <2>5. n >= 4 => h[4] = RMul(x, h[4 - 1])
    BY <2>1
  <2>6. n >= 5 => h[5] = RMul(x, h[5 - 1])
    BY <2>1
  <2>7. QED
    BY <2>1, <2>2, <2>3, <2>4, <2>5, <2>6
<1>2. 1 \in 1 .. 5 /\ 2 \in 1 .. 5 /\ 3 \in 1 .. 5 /\ 4 \in 1 .. 5 /\ 5 \in 1 .. 5
  OBVIOUS
<1>3. QED
  BY <1>1, <1>2

-----------------------------------------------------------------------------
(* The sums of a segment                                                    *)

\* The value at the end of a segment, over the denominators of its coefficients, and
\* likewise the derivatives.
PositionSumLaw(q0, q1, q2, a, v, y, h) ==
    R(2) (.) (((((RNeg(q0) (.) h (+) q1) (.) h (+) RNeg(q2)) (.) h (+) a) (.) h (+) v) (.)
             h (+) y) = (q1 (.) (R(2) (.) (h (.) (h (.) (h (.) h)))) (-) q0 (.) (R(2) (.)
             (h (.) (h (.) (h (.) (h (.) h))))) (-) q2 (.) (R(2) (.) (h (.) (h (.) h)))) (+)
             a (.) R(2) (.) (h (.) h) (+) R(2) (.) (v (.) h (+) y)

\* The position at the end of a segment is the sum the three leading coefficients are
\* made for.
LEMMA PositionSum ==
  ASSUME NEW q0 \in Rat, NEW q1 \in Rat, NEW q2 \in Rat, NEW a \in Rat, NEW v \in Rat,
         NEW y \in Rat, NEW h \in Rat
  PROVE  PositionSumLaw(q0, q1, q2, a, v, y, h)
<1> DEFINE F == [i \in 1 .. 7 |-> IF i = 1 THEN q0 ELSE IF i = 2 THEN q1 ELSE IF i =
         3 THEN q2 ELSE IF i = 4 THEN a ELSE IF i = 5 THEN v ELSE IF i = 6 THEN y ELSE h]
<1>1. F \in [1 .. 7 -> Rat] /\ F[1] = q0 /\ F[2] = q1 /\ F[3] = q2 /\ F[4] = a /\ F[5] = v /\
         F[6] = y /\ F[7] = h
  OBVIOUS
<1> HIDE DEF F
<1>2. PICK D \in Int \ {0}, G \in [1 .. 7 -> Int] : \A i \in 1 .. 7 : Is(F[i], G[i], D)
  BY <1>1, CommonDenominator DEF AllOver
<1> DEFINE n1 == G[1]
           n2 == G[2]
           n3 == G[3]
           n4 == G[4]
           n5 == G[5]
           n6 == G[6]
           n7 == G[7]
           D2 == D * D
           D3 == D2 * D
           D4 == D3 * D
           D5 == D4 * D
           D6 == D5 * D
<1>3. n1 \in Int /\ n2 \in Int /\ n3 \in Int /\ n4 \in Int /\ n5 \in Int /\ n6 \in Int
      /\ n7 \in Int
  BY <1>2
<1>a. IsOver(q0, n1, D)
  BY <1>1, <1>2 DEF IsOver
<1>b. IsOver(q1, n2, D)
  BY <1>1, <1>2 DEF IsOver
<1>c. IsOver(q2, n3, D)
  BY <1>1, <1>2 DEF IsOver
<1>d. IsOver(a, n4, D)
  BY <1>1, <1>2 DEF IsOver
<1>e. IsOver(v, n5, D)
  BY <1>1, <1>2 DEF IsOver
<1>f. IsOver(y, n6, D)
  BY <1>1, <1>2 DEF IsOver
<1>g. IsOver(h, n7, D)
  BY <1>1, <1>2 DEF IsOver
<1>4. D2 \in Int \ {0} /\ D3 \in Int \ {0} /\ D4 \in Int \ {0} /\ D5 \in Int \ {0}
      /\ D6 \in Int \ {0}
  BY NonZero
<1>5. D2 = D * D /\ D3 = D * D2 /\ D4 = D * D3 /\ D5 = D * D4 /\ D6 = D * D5 /\ D3 = D2 * D
      /\ D4 = D2 * D2 /\ D5 = D2 * D3 /\ D6 = D2 * D4 /\ D4 = D3 * D /\ D5 = D3 * D2
      /\ D6 = D3 * D3 /\ D5 = D4 * D /\ D6 = D4 * D2 /\ D6 = D5 * D
  OBVIOUS
<1> HIDE DEF n1, n2, n3, n4, n5, n6, n7, D2, D3, D4, D5, D6
<1>6. IsOver(RNeg(q0), (-n1), D)
  BY <1>a, OverNeg
<1>7. IsOver(RMul(RNeg(q0), h), ((-n1) * n7), D2)
  BY <1>6, <1>g, <1>5, OverMul
<1>8. IsOver(q1, (n2 * D), D2)
  BY <1>b, <1>4, <1>5, OverPad
<1>9. IsOver(RAdd(RMul(RNeg(q0), h), q1), (((-n1) * n7) + (n2 * D)), D2)
  BY <1>7, <1>8, OverPlus
<1>10. IsOver(RMul(RAdd(RMul(RNeg(q0), h), q1), h), ((((-n1) * n7) + (n2 * D)) * n7), D3)
  BY <1>9, <1>g, <1>5, OverMul
<1>11. IsOver(RNeg(q2), (-n3), D)
  BY <1>c, OverNeg
<1>12. IsOver(RNeg(q2), ((-n3) * D2), D3)
  BY <1>11, <1>4, <1>5, OverPad
<1>13. IsOver(RAdd(RMul(RAdd(RMul(RNeg(q0), h), q1), h), RNeg(q2)), (((((-n1) * n7) + (n2 * D)) *
         n7) + ((-n3) * D2)), D3)
  BY <1>10, <1>12, OverPlus
<1>14. IsOver(RMul(RAdd(RMul(RAdd(RMul(RNeg(q0), h), q1), h), RNeg(q2)), h), ((((((-n1) * n7) +
         (n2 * D)) * n7) + ((-n3) * D2)) * n7), D4)
  BY <1>13, <1>g, <1>5, OverMul
<1>15. IsOver(a, (n4 * D3), D4)
  BY <1>d, <1>4, <1>5, OverPad
<1>16. IsOver(RAdd(RMul(RAdd(RMul(RAdd(RMul(RNeg(q0), h), q1), h), RNeg(q2)), h), a), (((((((-n1) *
         n7) + (n2 * D)) * n7) + ((-n3) * D2)) * n7) + (n4 * D3)), D4)
  BY <1>14, <1>15, OverPlus
<1>17. IsOver(RMul(RAdd(RMul(RAdd(RMul(RAdd(RMul(RNeg(q0), h), q1), h), RNeg(q2)), h), a), h),
         ((((((((-n1) * n7) + (n2 * D)) * n7) + ((-n3) * D2)) * n7) + (n4 * D3)) * n7), D5)
  BY <1>16, <1>g, <1>5, OverMul
<1>18. IsOver(v, (n5 * D4), D5)
  BY <1>e, <1>4, <1>5, OverPad
<1>19. IsOver(RAdd(RMul(RAdd(RMul(RAdd(RMul(RAdd(RMul(RNeg(q0), h), q1), h), RNeg(q2)), h), a), h),
         v), (((((((((-n1) * n7) + (n2 * D)) * n7) + ((-n3) * D2)) * n7) + (n4 * D3)) * n7) +
         (n5 * D4)), D5)
  BY <1>17, <1>18, OverPlus
<1>20. IsOver(RMul(RAdd(RMul(RAdd(RMul(RAdd(RMul(RAdd(RMul(RNeg(q0), h), q1), h), RNeg(q2)), h), a),
         h), v), h), ((((((((((-n1) * n7) + (n2 * D)) * n7) + ((-n3) * D2)) * n7) + (n4 * D3)) *
         n7) + (n5 * D4)) * n7), D6)
  BY <1>19, <1>g, <1>5, OverMul
<1>21. IsOver(y, (n6 * D5), D6)
  BY <1>f, <1>4, <1>5, OverPad
<1>22. IsOver(RAdd(RMul(RAdd(RMul(RAdd(RMul(RAdd(RMul(RAdd(RMul(RNeg(q0), h), q1), h), RNeg(q2)),
         h), a), h), v), h), y), (((((((((((-n1) * n7) + (n2 * D)) * n7) + ((-n3) * D2)) * n7) +
         (n4 * D3)) * n7) + (n5 * D4)) * n7) + (n6 * D5)), D6)
  BY <1>20, <1>21, OverPlus
<1>23. IsOver(RMul(R(2), RAdd(RMul(RAdd(RMul(RAdd(RMul(RAdd(RMul(RAdd(RMul(RNeg(q0), h), q1), h),
         RNeg(q2)), h), a), h), v), h), y)), (2 * (((((((((((-n1) * n7) + (n2 * D)) * n7) +
         ((-n3) * D2)) * n7) + (n4 * D3)) * n7) + (n5 * D4)) * n7) + (n6 * D5))), D6)
  BY <1>22, OverTimes
<1>24. IsOver(RMul(h, h), (n7 * n7), D2)
  BY <1>g, <1>5, OverMul
<1>25. IsOver(RMul(h, RMul(h, h)), (n7 * (n7 * n7)), D3)
  BY <1>g, <1>24, <1>5, OverMul
<1>26. IsOver(RMul(h, RMul(h, RMul(h, h))), (n7 * (n7 * (n7 * n7))), D4)
  BY <1>g, <1>25, <1>5, OverMul
<1>27. IsOver(RMul(R(2), RMul(h, RMul(h, RMul(h, h)))), (2 * (n7 * (n7 * (n7 * n7)))), D4)
  BY <1>26, OverTimes
<1>28. IsOver(RMul(q1, RMul(R(2), RMul(h, RMul(h, RMul(h, h))))), (n2 * (2 * (n7 * (n7 * (n7 *
         n7))))), D5)
  BY <1>b, <1>27, <1>5, OverMul
<1>29. IsOver(RMul(q1, RMul(R(2), RMul(h, RMul(h, RMul(h, h))))), ((n2 * (2 * (n7 * (n7 * (n7 *
         n7))))) * D), D6)
  BY <1>28, <1>4, <1>5, OverPad
<1>30. IsOver(RMul(h, RMul(h, RMul(h, RMul(h, h)))), (n7 * (n7 * (n7 * (n7 * n7)))), D5)
  BY <1>g, <1>26, <1>5, OverMul
<1>31. IsOver(RMul(R(2), RMul(h, RMul(h, RMul(h, RMul(h, h))))), (2 * (n7 * (n7 * (n7 * (n7 *
         n7))))), D5)
  BY <1>30, OverTimes
<1>32. IsOver(RMul(q0, RMul(R(2), RMul(h, RMul(h, RMul(h, RMul(h, h)))))), (n1 * (2 * (n7 * (n7 *
         (n7 * (n7 * n7)))))), D6)
  BY <1>a, <1>31, <1>5, OverMul
<1>33. IsOver(RSub(RMul(q1, RMul(R(2), RMul(h, RMul(h, RMul(h, h))))), RMul(q0, RMul(R(2), RMul(h,
         RMul(h, RMul(h, RMul(h, h))))))), (((n2 * (2 * (n7 * (n7 * (n7 * n7))))) * D) - (n1 *
         (2 * (n7 * (n7 * (n7 * (n7 * n7))))))), D6)
  BY <1>29, <1>32, OverMinus
<1>34. IsOver(RMul(R(2), RMul(h, RMul(h, h))), (2 * (n7 * (n7 * n7))), D3)
  BY <1>25, OverTimes
<1>35. IsOver(RMul(q2, RMul(R(2), RMul(h, RMul(h, h)))), (n3 * (2 * (n7 * (n7 * n7)))), D4)
  BY <1>c, <1>34, <1>5, OverMul
<1>36. IsOver(RMul(q2, RMul(R(2), RMul(h, RMul(h, h)))), ((n3 * (2 * (n7 * (n7 * n7)))) * D2), D6)
  BY <1>35, <1>4, <1>5, OverPad
<1>37. IsOver(RSub(RSub(RMul(q1, RMul(R(2), RMul(h, RMul(h, RMul(h, h))))), RMul(q0, RMul(R(2),
         RMul(h, RMul(h, RMul(h, RMul(h, h))))))), RMul(q2, RMul(R(2), RMul(h, RMul(h, h))))),
         ((((n2 * (2 * (n7 * (n7 * (n7 * n7))))) * D) - (n1 * (2 * (n7 * (n7 * (n7 * (n7 *
         n7))))))) - ((n3 * (2 * (n7 * (n7 * n7)))) * D2)), D6)
  BY <1>33, <1>36, OverMinus
<1>38. IsOver(R(2), (2 * D), D)
  BY <1>4, OverConstant
<1>39. IsOver(RMul(a, R(2)), (n4 * (2 * D)), D2)
  BY <1>d, <1>38, <1>5, OverMul
<1>40. IsOver(RMul(RMul(a, R(2)), RMul(h, h)), ((n4 * (2 * D)) * (n7 * n7)), D4)
  BY <1>39, <1>24, <1>5, OverMul
<1>41. IsOver(RMul(RMul(a, R(2)), RMul(h, h)), (((n4 * (2 * D)) * (n7 * n7)) * D2), D6)
  BY <1>40, <1>4, <1>5, OverPad
<1>42. IsOver(RAdd(RSub(RSub(RMul(q1, RMul(R(2), RMul(h, RMul(h, RMul(h, h))))), RMul(q0, RMul(R(2),
         RMul(h, RMul(h, RMul(h, RMul(h, h))))))), RMul(q2, RMul(R(2), RMul(h, RMul(h, h))))),
         RMul(RMul(a, R(2)), RMul(h, h))), (((((n2 * (2 * (n7 * (n7 * (n7 * n7))))) * D) - (n1 *
         (2 * (n7 * (n7 * (n7 * (n7 * n7))))))) - ((n3 * (2 * (n7 * (n7 * n7)))) * D2)) +
         (((n4 * (2 * D)) * (n7 * n7)) * D2)), D6)
  BY <1>37, <1>41, OverPlus
<1>43. IsOver(RMul(v, h), (n5 * n7), D2)
  BY <1>e, <1>g, <1>5, OverMul
<1>44. IsOver(y, (n6 * D), D2)
  BY <1>f, <1>4, <1>5, OverPad
<1>45. IsOver(RAdd(RMul(v, h), y), ((n5 * n7) + (n6 * D)), D2)
  BY <1>43, <1>44, OverPlus
<1>46. IsOver(RMul(R(2), RAdd(RMul(v, h), y)), (2 * ((n5 * n7) + (n6 * D))), D2)
  BY <1>45, OverTimes
<1>47. IsOver(RMul(R(2), RAdd(RMul(v, h), y)), ((2 * ((n5 * n7) + (n6 * D))) * D4), D6)
  BY <1>46, <1>4, <1>5, OverPad
<1>48. IsOver(RAdd(RAdd(RSub(RSub(RMul(q1, RMul(R(2), RMul(h, RMul(h, RMul(h, h))))), RMul(q0,
         RMul(R(2), RMul(h, RMul(h, RMul(h, RMul(h, h))))))), RMul(q2, RMul(R(2), RMul(h, RMul(h,
         h))))), RMul(RMul(a, R(2)), RMul(h, h))), RMul(R(2), RAdd(RMul(v, h), y))), ((((((n2 *
         (2 * (n7 * (n7 * (n7 * n7))))) * D) - (n1 * (2 * (n7 * (n7 * (n7 * (n7 * n7))))))) -
         ((n3 * (2 * (n7 * (n7 * n7)))) * D2)) + (((n4 * (2 * D)) * (n7 * n7)) * D2)) + ((2 *
         ((n5 * n7) + (n6 * D))) * D4)), D6)
  BY <1>42, <1>47, OverPlus
<1>49. (2 * (((((((((((-n1) * n7) + (n2 * D)) * n7) + ((-n3) * D2)) * n7) + (n4 * D3)) * n7) +
         (n5 * D4)) * n7) + (n6 * D5))) = ((((((n2 * (2 * (n7 * (n7 * (n7 * n7))))) * D) - (n1 *
         (2 * (n7 * (n7 * (n7 * (n7 * n7))))))) - ((n3 * (2 * (n7 * (n7 * n7)))) * D2)) +
         (((n4 * (2 * D)) * (n7 * n7)) * D2)) + ((2 * ((n5 * n7) + (n6 * D))) * D4))
  BY <1>3 DEF D2, D3, D4, D5, D6
<1>50. RMul(R(2), RAdd(RMul(RAdd(RMul(RAdd(RMul(RAdd(RMul(RAdd(RMul(RNeg(q0), h), q1), h),
         RNeg(q2)), h), a), h), v), h), y)) = RAdd(RAdd(RSub(RSub(RMul(q1, RMul(R(2), RMul(h,
         RMul(h, RMul(h, h))))), RMul(q0, RMul(R(2), RMul(h, RMul(h, RMul(h, RMul(h, h))))))),
         RMul(q2, RMul(R(2), RMul(h, RMul(h, h))))), RMul(RMul(a, R(2)), RMul(h, h))), RMul(R(2),
         RAdd(RMul(v, h), y)))
  BY <1>23, <1>48, <1>49, OverEqual
<1>51. QED
  BY <1>50 DEF (+), (-), (.), PositionSumLaw

VelocitySumLaw(q0, q1, q2, a, v, h) ==
    R(2) (.) h (.) ((((R(5) (.) RNeg(q0) (.) h (+) R(4) (.) q1) (.) h (+) R(3) (.)
             RNeg(q2)) (.) h (+) R(2) (.) a) (.) h (+) R(1) (.) v) = (R(4) (.) (q1 (.)
             (R(2) (.) (h (.) (h (.) (h (.) h))))) (-) R(5) (.) (q0 (.) (R(2) (.) (h (.)
             (h (.) (h (.) (h (.) h)))))) (-) R(3) (.) (q2 (.) (R(2) (.) (h (.) (h (.)
             h))))) (+) R(2) (.) (a (.) R(2) (.) (h (.) h)) (+) v (.) (R(2) (.) h)

\* The velocity there, as the same kind of sum.
LEMMA VelocitySum ==
  ASSUME NEW q0 \in Rat, NEW q1 \in Rat, NEW q2 \in Rat, NEW a \in Rat, NEW v \in Rat,
         NEW h \in Rat
  PROVE  VelocitySumLaw(q0, q1, q2, a, v, h)
<1> DEFINE F == [i \in 1 .. 6 |-> IF i = 1 THEN q0 ELSE IF i = 2 THEN q1 ELSE IF i =
         3 THEN q2 ELSE IF i = 4 THEN a ELSE IF i = 5 THEN v ELSE h]
<1>1. F \in [1 .. 6 -> Rat] /\ F[1] = q0 /\ F[2] = q1 /\ F[3] = q2 /\ F[4] = a /\ F[5] = v /\
         F[6] = h
  OBVIOUS
<1> HIDE DEF F
<1>2. PICK D \in Int \ {0}, G \in [1 .. 6 -> Int] : \A i \in 1 .. 6 : Is(F[i], G[i], D)
  BY <1>1, CommonDenominator DEF AllOver
<1> DEFINE n1 == G[1]
           n2 == G[2]
           n3 == G[3]
           n4 == G[4]
           n5 == G[5]
           n6 == G[6]
           D2 == D * D
           D3 == D2 * D
           D4 == D3 * D
           D5 == D4 * D
           D6 == D5 * D
<1>3. n1 \in Int /\ n2 \in Int /\ n3 \in Int /\ n4 \in Int /\ n5 \in Int /\ n6 \in Int
  BY <1>2
<1>a. IsOver(q0, n1, D)
  BY <1>1, <1>2 DEF IsOver
<1>b. IsOver(q1, n2, D)
  BY <1>1, <1>2 DEF IsOver
<1>c. IsOver(q2, n3, D)
  BY <1>1, <1>2 DEF IsOver
<1>d. IsOver(a, n4, D)
  BY <1>1, <1>2 DEF IsOver
<1>e. IsOver(v, n5, D)
  BY <1>1, <1>2 DEF IsOver
<1>f. IsOver(h, n6, D)
  BY <1>1, <1>2 DEF IsOver
<1>4. D2 \in Int \ {0} /\ D3 \in Int \ {0} /\ D4 \in Int \ {0} /\ D5 \in Int \ {0}
      /\ D6 \in Int \ {0}
  BY NonZero
<1>5. D2 = D * D /\ D3 = D * D2 /\ D4 = D * D3 /\ D5 = D * D4 /\ D6 = D * D5 /\ D3 = D2 * D
      /\ D4 = D2 * D2 /\ D5 = D2 * D3 /\ D6 = D2 * D4 /\ D4 = D3 * D /\ D5 = D3 * D2
      /\ D6 = D3 * D3 /\ D5 = D4 * D /\ D6 = D4 * D2 /\ D6 = D5 * D
  OBVIOUS
<1> HIDE DEF n1, n2, n3, n4, n5, n6, D2, D3, D4, D5, D6
<1>6. IsOver(RNeg(q0), (-n1), D)
  BY <1>a, OverNeg
<1>7. IsOver(RMul(R(5), RNeg(q0)), (5 * (-n1)), D)
  BY <1>6, OverTimes
<1>8. IsOver(RMul(RMul(R(5), RNeg(q0)), h), ((5 * (-n1)) * n6), D2)
  BY <1>7, <1>f, <1>5, OverMul
<1>9. IsOver(RMul(R(4), q1), (4 * n2), D)
  BY <1>b, OverTimes
<1>10. IsOver(RMul(R(4), q1), ((4 * n2) * D), D2)
  BY <1>9, <1>4, <1>5, OverPad
<1>11. IsOver(RAdd(RMul(RMul(R(5), RNeg(q0)), h), RMul(R(4), q1)), (((5 * (-n1)) * n6) + ((4 *
         n2) * D)), D2)
  BY <1>8, <1>10, OverPlus
<1>12. IsOver(RMul(RAdd(RMul(RMul(R(5), RNeg(q0)), h), RMul(R(4), q1)), h), ((((5 * (-n1)) * n6) +
         ((4 * n2) * D)) * n6), D3)
  BY <1>11, <1>f, <1>5, OverMul
<1>13. IsOver(RNeg(q2), (-n3), D)
  BY <1>c, OverNeg
<1>14. IsOver(RMul(R(3), RNeg(q2)), (3 * (-n3)), D)
  BY <1>13, OverTimes
<1>15. IsOver(RMul(R(3), RNeg(q2)), ((3 * (-n3)) * D2), D3)
  BY <1>14, <1>4, <1>5, OverPad
<1>16. IsOver(RAdd(RMul(RAdd(RMul(RMul(R(5), RNeg(q0)), h), RMul(R(4), q1)), h), RMul(R(3),
         RNeg(q2))), (((((5 * (-n1)) * n6) + ((4 * n2) * D)) * n6) + ((3 * (-n3)) * D2)), D3)
  BY <1>12, <1>15, OverPlus
<1>17. IsOver(RMul(RAdd(RMul(RAdd(RMul(RMul(R(5), RNeg(q0)), h), RMul(R(4), q1)), h), RMul(R(3),
         RNeg(q2))), h), ((((((5 * (-n1)) * n6) + ((4 * n2) * D)) * n6) + ((3 * (-n3)) * D2)) *
         n6), D4)
  BY <1>16, <1>f, <1>5, OverMul
<1>18. IsOver(RMul(R(2), a), (2 * n4), D)
  BY <1>d, OverTimes
<1>19. IsOver(RMul(R(2), a), ((2 * n4) * D3), D4)
  BY <1>18, <1>4, <1>5, OverPad
<1>20. IsOver(RAdd(RMul(RAdd(RMul(RAdd(RMul(RMul(R(5), RNeg(q0)), h), RMul(R(4), q1)), h),
         RMul(R(3), RNeg(q2))), h), RMul(R(2), a)), (((((((5 * (-n1)) * n6) + ((4 * n2) * D)) *
         n6) + ((3 * (-n3)) * D2)) * n6) + ((2 * n4) * D3)), D4)
  BY <1>17, <1>19, OverPlus
<1>21. IsOver(RMul(RAdd(RMul(RAdd(RMul(RAdd(RMul(RMul(R(5), RNeg(q0)), h), RMul(R(4), q1)), h),
         RMul(R(3), RNeg(q2))), h), RMul(R(2), a)), h), ((((((((5 * (-n1)) * n6) + ((4 * n2) *
         D)) * n6) + ((3 * (-n3)) * D2)) * n6) + ((2 * n4) * D3)) * n6), D5)
  BY <1>20, <1>f, <1>5, OverMul
<1>22. IsOver(RMul(R(1), v), (1 * n5), D)
  BY <1>e, OverTimes
<1>23. IsOver(RMul(R(1), v), ((1 * n5) * D4), D5)
  BY <1>22, <1>4, <1>5, OverPad
<1>24. IsOver(RAdd(RMul(RAdd(RMul(RAdd(RMul(RAdd(RMul(RMul(R(5), RNeg(q0)), h), RMul(R(4), q1)), h),
         RMul(R(3), RNeg(q2))), h), RMul(R(2), a)), h), RMul(R(1), v)), (((((((((5 * (-n1)) *
         n6) + ((4 * n2) * D)) * n6) + ((3 * (-n3)) * D2)) * n6) + ((2 * n4) * D3)) * n6) +
         ((1 * n5) * D4)), D5)
  BY <1>21, <1>23, OverPlus
<1>25. IsOver(RMul(R(2), h), (2 * n6), D)
  BY <1>f, OverTimes
<1>26. IsOver(RMul(RMul(R(2), h), RAdd(RMul(RAdd(RMul(RAdd(RMul(RAdd(RMul(RMul(R(5), RNeg(q0)), h),
         RMul(R(4), q1)), h), RMul(R(3), RNeg(q2))), h), RMul(R(2), a)), h), RMul(R(1), v))),
         ((2 * n6) * (((((((((5 * (-n1)) * n6) + ((4 * n2) * D)) * n6) + ((3 * (-n3)) * D2)) *
         n6) + ((2 * n4) * D3)) * n6) + ((1 * n5) * D4))), D6)
  BY <1>25, <1>24, <1>5, OverMul
<1>27. IsOver(RMul(h, h), (n6 * n6), D2)
  BY <1>f, <1>5, OverMul
<1>28. IsOver(RMul(h, RMul(h, h)), (n6 * (n6 * n6)), D3)
  BY <1>f, <1>27, <1>5, OverMul
<1>29. IsOver(RMul(h, RMul(h, RMul(h, h))), (n6 * (n6 * (n6 * n6))), D4)
  BY <1>f, <1>28, <1>5, OverMul
<1>30. IsOver(RMul(R(2), RMul(h, RMul(h, RMul(h, h)))), (2 * (n6 * (n6 * (n6 * n6)))), D4)
  BY <1>29, OverTimes
<1>31. IsOver(RMul(q1, RMul(R(2), RMul(h, RMul(h, RMul(h, h))))), (n2 * (2 * (n6 * (n6 * (n6 *
         n6))))), D5)
  BY <1>b, <1>30, <1>5, OverMul
<1>32. IsOver(RMul(R(4), RMul(q1, RMul(R(2), RMul(h, RMul(h, RMul(h, h)))))), (4 * (n2 * (2 * (n6 *
         (n6 * (n6 * n6)))))), D5)
  BY <1>31, OverTimes
<1>33. IsOver(RMul(R(4), RMul(q1, RMul(R(2), RMul(h, RMul(h, RMul(h, h)))))), ((4 * (n2 * (2 *
         (n6 * (n6 * (n6 * n6)))))) * D), D6)
  BY <1>32, <1>4, <1>5, OverPad
<1>34. IsOver(RMul(h, RMul(h, RMul(h, RMul(h, h)))), (n6 * (n6 * (n6 * (n6 * n6)))), D5)
  BY <1>f, <1>29, <1>5, OverMul
<1>35. IsOver(RMul(R(2), RMul(h, RMul(h, RMul(h, RMul(h, h))))), (2 * (n6 * (n6 * (n6 * (n6 *
         n6))))), D5)
  BY <1>34, OverTimes
<1>36. IsOver(RMul(q0, RMul(R(2), RMul(h, RMul(h, RMul(h, RMul(h, h)))))), (n1 * (2 * (n6 * (n6 *
         (n6 * (n6 * n6)))))), D6)
  BY <1>a, <1>35, <1>5, OverMul
<1>37. IsOver(RMul(R(5), RMul(q0, RMul(R(2), RMul(h, RMul(h, RMul(h, RMul(h, h))))))), (5 * (n1 *
         (2 * (n6 * (n6 * (n6 * (n6 * n6))))))), D6)
  BY <1>36, OverTimes
<1>38. IsOver(RSub(RMul(R(4), RMul(q1, RMul(R(2), RMul(h, RMul(h, RMul(h, h)))))), RMul(R(5),
         RMul(q0, RMul(R(2), RMul(h, RMul(h, RMul(h, RMul(h, h)))))))), (((4 * (n2 * (2 * (n6 *
         (n6 * (n6 * n6)))))) * D) - (5 * (n1 * (2 * (n6 * (n6 * (n6 * (n6 * n6)))))))), D6)
  BY <1>33, <1>37, OverMinus
<1>39. IsOver(RMul(R(2), RMul(h, RMul(h, h))), (2 * (n6 * (n6 * n6))), D3)
  BY <1>28, OverTimes
<1>40. IsOver(RMul(q2, RMul(R(2), RMul(h, RMul(h, h)))), (n3 * (2 * (n6 * (n6 * n6)))), D4)
  BY <1>c, <1>39, <1>5, OverMul
<1>41. IsOver(RMul(R(3), RMul(q2, RMul(R(2), RMul(h, RMul(h, h))))), (3 * (n3 * (2 * (n6 * (n6 *
         n6))))), D4)
  BY <1>40, OverTimes
<1>42. IsOver(RMul(R(3), RMul(q2, RMul(R(2), RMul(h, RMul(h, h))))), ((3 * (n3 * (2 * (n6 * (n6 *
         n6))))) * D2), D6)
  BY <1>41, <1>4, <1>5, OverPad
<1>43. IsOver(RSub(RSub(RMul(R(4), RMul(q1, RMul(R(2), RMul(h, RMul(h, RMul(h, h)))))), RMul(R(5),
         RMul(q0, RMul(R(2), RMul(h, RMul(h, RMul(h, RMul(h, h)))))))), RMul(R(3), RMul(q2,
         RMul(R(2), RMul(h, RMul(h, h)))))), ((((4 * (n2 * (2 * (n6 * (n6 * (n6 * n6)))))) *
         D) - (5 * (n1 * (2 * (n6 * (n6 * (n6 * (n6 * n6)))))))) - ((3 * (n3 * (2 * (n6 * (n6 *
         n6))))) * D2)), D6)
  BY <1>38, <1>42, OverMinus
<1>44. IsOver(R(2), (2 * D), D)
  BY <1>4, OverConstant
<1>45. IsOver(RMul(a, R(2)), (n4 * (2 * D)), D2)
  BY <1>d, <1>44, <1>5, OverMul
<1>46. IsOver(RMul(RMul(a, R(2)), RMul(h, h)), ((n4 * (2 * D)) * (n6 * n6)), D4)
  BY <1>45, <1>27, <1>5, OverMul
<1>47. IsOver(RMul(R(2), RMul(RMul(a, R(2)), RMul(h, h))), (2 * ((n4 * (2 * D)) * (n6 * n6))), D4)
  BY <1>46, OverTimes
<1>48. IsOver(RMul(R(2), RMul(RMul(a, R(2)), RMul(h, h))), ((2 * ((n4 * (2 * D)) * (n6 * n6))) *
         D2), D6)
  BY <1>47, <1>4, <1>5, OverPad
<1>49. IsOver(RAdd(RSub(RSub(RMul(R(4), RMul(q1, RMul(R(2), RMul(h, RMul(h, RMul(h, h)))))),
         RMul(R(5), RMul(q0, RMul(R(2), RMul(h, RMul(h, RMul(h, RMul(h, h)))))))), RMul(R(3),
         RMul(q2, RMul(R(2), RMul(h, RMul(h, h)))))), RMul(R(2), RMul(RMul(a, R(2)), RMul(h,
         h)))), (((((4 * (n2 * (2 * (n6 * (n6 * (n6 * n6)))))) * D) - (5 * (n1 * (2 * (n6 *
         (n6 * (n6 * (n6 * n6)))))))) - ((3 * (n3 * (2 * (n6 * (n6 * n6))))) * D2)) + ((2 *
         ((n4 * (2 * D)) * (n6 * n6))) * D2)), D6)
  BY <1>43, <1>48, OverPlus
<1>50. IsOver(RMul(v, RMul(R(2), h)), (n5 * (2 * n6)), D2)
  BY <1>e, <1>25, <1>5, OverMul
<1>51. IsOver(RMul(v, RMul(R(2), h)), ((n5 * (2 * n6)) * D4), D6)
  BY <1>50, <1>4, <1>5, OverPad
<1>52. IsOver(RAdd(RAdd(RSub(RSub(RMul(R(4), RMul(q1, RMul(R(2), RMul(h, RMul(h, RMul(h, h)))))),
         RMul(R(5), RMul(q0, RMul(R(2), RMul(h, RMul(h, RMul(h, RMul(h, h)))))))), RMul(R(3),
         RMul(q2, RMul(R(2), RMul(h, RMul(h, h)))))), RMul(R(2), RMul(RMul(a, R(2)), RMul(h,
         h)))), RMul(v, RMul(R(2), h))), ((((((4 * (n2 * (2 * (n6 * (n6 * (n6 * n6)))))) * D) -
         (5 * (n1 * (2 * (n6 * (n6 * (n6 * (n6 * n6)))))))) - ((3 * (n3 * (2 * (n6 * (n6 *
         n6))))) * D2)) + ((2 * ((n4 * (2 * D)) * (n6 * n6))) * D2)) + ((n5 * (2 * n6)) * D4)), D6)
  BY <1>49, <1>51, OverPlus
<1>53. ((2 * n6) * (((((((((5 * (-n1)) * n6) + ((4 * n2) * D)) * n6) + ((3 * (-n3)) * D2)) *
         n6) + ((2 * n4) * D3)) * n6) + ((1 * n5) * D4))) = ((((((4 * (n2 * (2 * (n6 * (n6 *
         (n6 * n6)))))) * D) - (5 * (n1 * (2 * (n6 * (n6 * (n6 * (n6 * n6)))))))) - ((3 * (n3 *
         (2 * (n6 * (n6 * n6))))) * D2)) + ((2 * ((n4 * (2 * D)) * (n6 * n6))) * D2)) + ((n5 *
         (2 * n6)) * D4))
  BY <1>3 DEF D2, D3, D4, D5, D6
<1>54. RMul(RMul(R(2), h), RAdd(RMul(RAdd(RMul(RAdd(RMul(RAdd(RMul(RMul(R(5), RNeg(q0)), h),
         RMul(R(4), q1)), h), RMul(R(3), RNeg(q2))), h), RMul(R(2), a)), h), RMul(R(1), v))) =
         RAdd(RAdd(RSub(RSub(RMul(R(4), RMul(q1, RMul(R(2), RMul(h, RMul(h, RMul(h, h)))))),
         RMul(R(5), RMul(q0, RMul(R(2), RMul(h, RMul(h, RMul(h, RMul(h, h)))))))), RMul(R(3),
         RMul(q2, RMul(R(2), RMul(h, RMul(h, h)))))), RMul(R(2), RMul(RMul(a, R(2)), RMul(h,
         h)))), RMul(v, RMul(R(2), h)))
  BY <1>26, <1>52, <1>53, OverEqual
<1>55. QED
  BY <1>54 DEF (+), (-), (.), VelocitySumLaw

AccelerationSumLaw(q0, q1, q2, a, h) ==
    R(2) (.) (h (.) h) (.) (((R(20) (.) RNeg(q0) (.) h (+) R(12) (.) q1) (.) h (+) R(6) (.)
             RNeg(q2)) (.) h (+) R(2) (.) a) = (R(12) (.) (q1 (.) (R(2) (.) (h (.) (h (.)
             (h (.) h))))) (-) R(20) (.) (q0 (.) (R(2) (.) (h (.) (h (.) (h (.) (h (.)
             h)))))) (-) R(6) (.) (q2 (.) (R(2) (.) (h (.) (h (.) h))))) (+) R(2) (.) (a (.)
             R(2) (.) (h (.) h))

\* The acceleration there, as the same kind of sum.
LEMMA AccelerationSum ==
  ASSUME NEW q0 \in Rat, NEW q1 \in Rat, NEW q2 \in Rat, NEW a \in Rat, NEW h \in Rat
  PROVE  AccelerationSumLaw(q0, q1, q2, a, h)
<1> DEFINE F == [i \in 1 .. 5 |-> IF i = 1 THEN q0 ELSE IF i = 2 THEN q1 ELSE IF i =
         3 THEN q2 ELSE IF i = 4 THEN a ELSE h]
<1>1. F \in [1 .. 5 -> Rat] /\ F[1] = q0 /\ F[2] = q1 /\ F[3] = q2 /\ F[4] = a /\ F[5] = h
  OBVIOUS
<1> HIDE DEF F
<1>2. PICK D \in Int \ {0}, G \in [1 .. 5 -> Int] : \A i \in 1 .. 5 : Is(F[i], G[i], D)
  BY <1>1, CommonDenominator DEF AllOver
<1> DEFINE n1 == G[1]
           n2 == G[2]
           n3 == G[3]
           n4 == G[4]
           n5 == G[5]
           D2 == D * D
           D3 == D2 * D
           D4 == D3 * D
           D5 == D4 * D
           D6 == D5 * D
<1>3. n1 \in Int /\ n2 \in Int /\ n3 \in Int /\ n4 \in Int /\ n5 \in Int
  BY <1>2
<1>a. IsOver(q0, n1, D)
  BY <1>1, <1>2 DEF IsOver
<1>b. IsOver(q1, n2, D)
  BY <1>1, <1>2 DEF IsOver
<1>c. IsOver(q2, n3, D)
  BY <1>1, <1>2 DEF IsOver
<1>d. IsOver(a, n4, D)
  BY <1>1, <1>2 DEF IsOver
<1>e. IsOver(h, n5, D)
  BY <1>1, <1>2 DEF IsOver
<1>4. D2 \in Int \ {0} /\ D3 \in Int \ {0} /\ D4 \in Int \ {0} /\ D5 \in Int \ {0}
      /\ D6 \in Int \ {0}
  BY NonZero
<1>5. D2 = D * D /\ D3 = D * D2 /\ D4 = D * D3 /\ D5 = D * D4 /\ D6 = D * D5 /\ D3 = D2 * D
      /\ D4 = D2 * D2 /\ D5 = D2 * D3 /\ D6 = D2 * D4 /\ D4 = D3 * D /\ D5 = D3 * D2
      /\ D6 = D3 * D3 /\ D5 = D4 * D /\ D6 = D4 * D2 /\ D6 = D5 * D
  OBVIOUS
<1> HIDE DEF n1, n2, n3, n4, n5, D2, D3, D4, D5, D6
<1>6. IsOver(RNeg(q0), (-n1), D)
  BY <1>a, OverNeg
<1>7. IsOver(RMul(R(20), RNeg(q0)), (20 * (-n1)), D)
  BY <1>6, OverTimes
<1>8. IsOver(RMul(RMul(R(20), RNeg(q0)), h), ((20 * (-n1)) * n5), D2)
  BY <1>7, <1>e, <1>5, OverMul
<1>9. IsOver(RMul(R(12), q1), (12 * n2), D)
  BY <1>b, OverTimes
<1>10. IsOver(RMul(R(12), q1), ((12 * n2) * D), D2)
  BY <1>9, <1>4, <1>5, OverPad
<1>11. IsOver(RAdd(RMul(RMul(R(20), RNeg(q0)), h), RMul(R(12), q1)), (((20 * (-n1)) * n5) + ((12 *
         n2) * D)), D2)
  BY <1>8, <1>10, OverPlus
<1>12. IsOver(RMul(RAdd(RMul(RMul(R(20), RNeg(q0)), h), RMul(R(12), q1)), h), ((((20 * (-n1)) *
         n5) + ((12 * n2) * D)) * n5), D3)
  BY <1>11, <1>e, <1>5, OverMul
<1>13. IsOver(RNeg(q2), (-n3), D)
  BY <1>c, OverNeg
<1>14. IsOver(RMul(R(6), RNeg(q2)), (6 * (-n3)), D)
  BY <1>13, OverTimes
<1>15. IsOver(RMul(R(6), RNeg(q2)), ((6 * (-n3)) * D2), D3)
  BY <1>14, <1>4, <1>5, OverPad
<1>16. IsOver(RAdd(RMul(RAdd(RMul(RMul(R(20), RNeg(q0)), h), RMul(R(12), q1)), h), RMul(R(6),
         RNeg(q2))), (((((20 * (-n1)) * n5) + ((12 * n2) * D)) * n5) + ((6 * (-n3)) * D2)), D3)
  BY <1>12, <1>15, OverPlus
<1>17. IsOver(RMul(RAdd(RMul(RAdd(RMul(RMul(R(20), RNeg(q0)), h), RMul(R(12), q1)), h), RMul(R(6),
         RNeg(q2))), h), ((((((20 * (-n1)) * n5) + ((12 * n2) * D)) * n5) + ((6 * (-n3)) *
         D2)) * n5), D4)
  BY <1>16, <1>e, <1>5, OverMul
<1>18. IsOver(RMul(R(2), a), (2 * n4), D)
  BY <1>d, OverTimes
<1>19. IsOver(RMul(R(2), a), ((2 * n4) * D3), D4)
  BY <1>18, <1>4, <1>5, OverPad
<1>20. IsOver(RAdd(RMul(RAdd(RMul(RAdd(RMul(RMul(R(20), RNeg(q0)), h), RMul(R(12), q1)), h),
         RMul(R(6), RNeg(q2))), h), RMul(R(2), a)), (((((((20 * (-n1)) * n5) + ((12 * n2) *
         D)) * n5) + ((6 * (-n3)) * D2)) * n5) + ((2 * n4) * D3)), D4)
  BY <1>17, <1>19, OverPlus
<1>21. IsOver(RMul(h, h), (n5 * n5), D2)
  BY <1>e, <1>5, OverMul
<1>22. IsOver(RMul(R(2), RMul(h, h)), (2 * (n5 * n5)), D2)
  BY <1>21, OverTimes
<1>23. IsOver(RMul(RMul(R(2), RMul(h, h)), RAdd(RMul(RAdd(RMul(RAdd(RMul(RMul(R(20), RNeg(q0)), h),
         RMul(R(12), q1)), h), RMul(R(6), RNeg(q2))), h), RMul(R(2), a))), ((2 * (n5 * n5)) *
         (((((((20 * (-n1)) * n5) + ((12 * n2) * D)) * n5) + ((6 * (-n3)) * D2)) * n5) + ((2 *
         n4) * D3))), D6)
  BY <1>22, <1>20, <1>5, OverMul
<1>24. IsOver(RMul(h, RMul(h, h)), (n5 * (n5 * n5)), D3)
  BY <1>e, <1>21, <1>5, OverMul
<1>25. IsOver(RMul(h, RMul(h, RMul(h, h))), (n5 * (n5 * (n5 * n5))), D4)
  BY <1>e, <1>24, <1>5, OverMul
<1>26. IsOver(RMul(R(2), RMul(h, RMul(h, RMul(h, h)))), (2 * (n5 * (n5 * (n5 * n5)))), D4)
  BY <1>25, OverTimes
<1>27. IsOver(RMul(q1, RMul(R(2), RMul(h, RMul(h, RMul(h, h))))), (n2 * (2 * (n5 * (n5 * (n5 *
         n5))))), D5)
  BY <1>b, <1>26, <1>5, OverMul
<1>28. IsOver(RMul(R(12), RMul(q1, RMul(R(2), RMul(h, RMul(h, RMul(h, h)))))), (12 * (n2 * (2 *
         (n5 * (n5 * (n5 * n5)))))), D5)
  BY <1>27, OverTimes
<1>29. IsOver(RMul(R(12), RMul(q1, RMul(R(2), RMul(h, RMul(h, RMul(h, h)))))), ((12 * (n2 * (2 *
         (n5 * (n5 * (n5 * n5)))))) * D), D6)
  BY <1>28, <1>4, <1>5, OverPad
<1>30. IsOver(RMul(h, RMul(h, RMul(h, RMul(h, h)))), (n5 * (n5 * (n5 * (n5 * n5)))), D5)
  BY <1>e, <1>25, <1>5, OverMul
<1>31. IsOver(RMul(R(2), RMul(h, RMul(h, RMul(h, RMul(h, h))))), (2 * (n5 * (n5 * (n5 * (n5 *
         n5))))), D5)
  BY <1>30, OverTimes
<1>32. IsOver(RMul(q0, RMul(R(2), RMul(h, RMul(h, RMul(h, RMul(h, h)))))), (n1 * (2 * (n5 * (n5 *
         (n5 * (n5 * n5)))))), D6)
  BY <1>a, <1>31, <1>5, OverMul
<1>33. IsOver(RMul(R(20), RMul(q0, RMul(R(2), RMul(h, RMul(h, RMul(h, RMul(h, h))))))), (20 * (n1 *
         (2 * (n5 * (n5 * (n5 * (n5 * n5))))))), D6)
  BY <1>32, OverTimes
<1>34. IsOver(RSub(RMul(R(12), RMul(q1, RMul(R(2), RMul(h, RMul(h, RMul(h, h)))))), RMul(R(20),
         RMul(q0, RMul(R(2), RMul(h, RMul(h, RMul(h, RMul(h, h)))))))), (((12 * (n2 * (2 * (n5 *
         (n5 * (n5 * n5)))))) * D) - (20 * (n1 * (2 * (n5 * (n5 * (n5 * (n5 * n5)))))))), D6)
  BY <1>29, <1>33, OverMinus
<1>35. IsOver(RMul(R(2), RMul(h, RMul(h, h))), (2 * (n5 * (n5 * n5))), D3)
  BY <1>24, OverTimes
<1>36. IsOver(RMul(q2, RMul(R(2), RMul(h, RMul(h, h)))), (n3 * (2 * (n5 * (n5 * n5)))), D4)
  BY <1>c, <1>35, <1>5, OverMul
<1>37. IsOver(RMul(R(6), RMul(q2, RMul(R(2), RMul(h, RMul(h, h))))), (6 * (n3 * (2 * (n5 * (n5 *
         n5))))), D4)
  BY <1>36, OverTimes
<1>38. IsOver(RMul(R(6), RMul(q2, RMul(R(2), RMul(h, RMul(h, h))))), ((6 * (n3 * (2 * (n5 * (n5 *
         n5))))) * D2), D6)
  BY <1>37, <1>4, <1>5, OverPad
<1>39. IsOver(RSub(RSub(RMul(R(12), RMul(q1, RMul(R(2), RMul(h, RMul(h, RMul(h, h)))))), RMul(R(20),
         RMul(q0, RMul(R(2), RMul(h, RMul(h, RMul(h, RMul(h, h)))))))), RMul(R(6), RMul(q2,
         RMul(R(2), RMul(h, RMul(h, h)))))), ((((12 * (n2 * (2 * (n5 * (n5 * (n5 * n5)))))) *
         D) - (20 * (n1 * (2 * (n5 * (n5 * (n5 * (n5 * n5)))))))) - ((6 * (n3 * (2 * (n5 * (n5 *
         n5))))) * D2)), D6)
  BY <1>34, <1>38, OverMinus
<1>40. IsOver(R(2), (2 * D), D)
  BY <1>4, OverConstant
<1>41. IsOver(RMul(a, R(2)), (n4 * (2 * D)), D2)
  BY <1>d, <1>40, <1>5, OverMul
<1>42. IsOver(RMul(RMul(a, R(2)), RMul(h, h)), ((n4 * (2 * D)) * (n5 * n5)), D4)
  BY <1>41, <1>21, <1>5, OverMul
<1>43. IsOver(RMul(R(2), RMul(RMul(a, R(2)), RMul(h, h))), (2 * ((n4 * (2 * D)) * (n5 * n5))), D4)
  BY <1>42, OverTimes
<1>44. IsOver(RMul(R(2), RMul(RMul(a, R(2)), RMul(h, h))), ((2 * ((n4 * (2 * D)) * (n5 * n5))) *
         D2), D6)
  BY <1>43, <1>4, <1>5, OverPad
<1>45. IsOver(RAdd(RSub(RSub(RMul(R(12), RMul(q1, RMul(R(2), RMul(h, RMul(h, RMul(h, h)))))),
         RMul(R(20), RMul(q0, RMul(R(2), RMul(h, RMul(h, RMul(h, RMul(h, h)))))))), RMul(R(6),
         RMul(q2, RMul(R(2), RMul(h, RMul(h, h)))))), RMul(R(2), RMul(RMul(a, R(2)), RMul(h,
         h)))), (((((12 * (n2 * (2 * (n5 * (n5 * (n5 * n5)))))) * D) - (20 * (n1 * (2 * (n5 *
         (n5 * (n5 * (n5 * n5)))))))) - ((6 * (n3 * (2 * (n5 * (n5 * n5))))) * D2)) + ((2 *
         ((n4 * (2 * D)) * (n5 * n5))) * D2)), D6)
  BY <1>39, <1>44, OverPlus
<1>46. ((2 * (n5 * n5)) * (((((((20 * (-n1)) * n5) + ((12 * n2) * D)) * n5) + ((6 * (-n3)) *
         D2)) * n5) + ((2 * n4) * D3))) = (((((12 * (n2 * (2 * (n5 * (n5 * (n5 * n5)))))) * D) -
         (20 * (n1 * (2 * (n5 * (n5 * (n5 * (n5 * n5)))))))) - ((6 * (n3 * (2 * (n5 * (n5 *
         n5))))) * D2)) + ((2 * ((n4 * (2 * D)) * (n5 * n5))) * D2))
  BY <1>3 DEF D2, D3, D4, D5, D6
<1>47. RMul(RMul(R(2), RMul(h, h)), RAdd(RMul(RAdd(RMul(RAdd(RMul(RMul(R(20), RNeg(q0)), h),
         RMul(R(12), q1)), h), RMul(R(6), RNeg(q2))), h), RMul(R(2), a))) =
         RAdd(RSub(RSub(RMul(R(12), RMul(q1, RMul(R(2), RMul(h, RMul(h, RMul(h, h)))))),
         RMul(R(20), RMul(q0, RMul(R(2), RMul(h, RMul(h, RMul(h, RMul(h, h)))))))), RMul(R(6),
         RMul(q2, RMul(R(2), RMul(h, RMul(h, h)))))), RMul(R(2), RMul(RMul(a, R(2)), RMul(h, h))))
  BY <1>23, <1>45, <1>46, OverEqual
<1>48. QED
  BY <1>47 DEF (+), (-), (.), AccelerationSumLaw

\* The constraints at the end are met: what the numerators of the coefficients add up to.
SegmentSumsLaw(yi, yf, vf, vi, af, ai, h) ==
    /\ ((R(30) (.) (yi (-) yf) (+) R(14) (.) h (.) vf (+) (R(16) (.) h (.) vi (-) R(2) (.)
             af (.) (h (.) h)) (+) R(3) (.) ai (.) (h (.) h)) (-) (R(12) (.) (yi (-) yf) (+)
             (R(6) (.) h (.) (vf (+) vi) (-) af (.) (h (.) h)) (+) ai (.) (h (.) h)) (-)
             (R(20) (.) (yi (-) yf) (+) R(8) (.) h (.) vf (+) (R(12) (.) h (.) vi (-) af (.)
             (h (.) h)) (+) R(3) (.) ai (.) (h (.) h))) (+) ai (.) (h (.) h) (+) R(2) (.)
             (vi (.) h (+) yi) = R(2) (.) yf
    /\ (R(4) (.) (R(30) (.) (yi (-) yf) (+) R(14) (.) h (.) vf (+) (R(16) (.) h (.) vi (-)
             R(2) (.) af (.) (h (.) h)) (+) R(3) (.) ai (.) (h (.) h)) (-) R(5) (.) (R(12) (.)
             (yi (-) yf) (+) (R(6) (.) h (.) (vf (+) vi) (-) af (.) (h (.) h)) (+) ai (.)
             (h (.) h)) (-) R(3) (.) (R(20) (.) (yi (-) yf) (+) R(8) (.) h (.) vf (+)
             (R(12) (.) h (.) vi (-) af (.) (h (.) h)) (+) R(3) (.) ai (.) (h (.) h))) (+)
             R(2) (.) (ai (.) (h (.) h)) (+) vi (.) (R(2) (.) h) = R(2) (.) h (.) vf
    /\ (R(12) (.) (R(30) (.) (yi (-) yf) (+) R(14) (.) h (.) vf (+) (R(16) (.) h (.) vi (-)
             R(2) (.) af (.) (h (.) h)) (+) R(3) (.) ai (.) (h (.) h)) (-) R(20) (.)
             (R(12) (.) (yi (-) yf) (+) (R(6) (.) h (.) (vf (+) vi) (-) af (.) (h (.) h)) (+)
             ai (.) (h (.) h)) (-) R(6) (.) (R(20) (.) (yi (-) yf) (+) R(8) (.) h (.) vf (+)
             (R(12) (.) h (.) vi (-) af (.) (h (.) h)) (+) R(3) (.) ai (.) (h (.) h))) (+)
             R(2) (.) (ai (.) (h (.) h)) = R(2) (.) (h (.) h) (.) af

\* With the numerators of ComputeParameters, the three sums have the values asked for at
\* the end.
LEMMA SegmentSums ==
  ASSUME NEW yi \in Rat, NEW yf \in Rat, NEW vf \in Rat, NEW vi \in Rat, NEW af \in Rat,
         NEW ai \in Rat, NEW h \in Rat
  PROVE  SegmentSumsLaw(yi, yf, vf, vi, af, ai, h)
<1> DEFINE F == [i \in 1 .. 7 |-> IF i = 1 THEN yi ELSE IF i = 2 THEN yf ELSE IF i =
         3 THEN vf ELSE IF i = 4 THEN vi ELSE IF i = 5 THEN af ELSE IF i = 6 THEN ai ELSE h]
<1>1. F \in [1 .. 7 -> Rat] /\ F[1] = yi /\ F[2] = yf /\ F[3] = vf /\ F[4] = vi /\ F[5] =
         af /\ F[6] = ai /\ F[7] = h
  OBVIOUS
<1> HIDE DEF F
<1>2. PICK D \in Int \ {0}, G \in [1 .. 7 -> Int] : \A i \in 1 .. 7 : Is(F[i], G[i], D)
  BY <1>1, CommonDenominator DEF AllOver
<1> DEFINE n1 == G[1]
           n2 == G[2]
           n3 == G[3]
           n4 == G[4]
           n5 == G[5]
           n6 == G[6]
           n7 == G[7]
           D2 == D * D
           D3 == D2 * D
<1>3. n1 \in Int /\ n2 \in Int /\ n3 \in Int /\ n4 \in Int /\ n5 \in Int /\ n6 \in Int
      /\ n7 \in Int
  BY <1>2
<1>a. IsOver(yi, n1, D)
  BY <1>1, <1>2 DEF IsOver
<1>b. IsOver(yf, n2, D)
  BY <1>1, <1>2 DEF IsOver
<1>c. IsOver(vf, n3, D)
  BY <1>1, <1>2 DEF IsOver
<1>d. IsOver(vi, n4, D)
  BY <1>1, <1>2 DEF IsOver
<1>e. IsOver(af, n5, D)
  BY <1>1, <1>2 DEF IsOver
<1>f. IsOver(ai, n6, D)
  BY <1>1, <1>2 DEF IsOver
<1>g. IsOver(h, n7, D)
  BY <1>1, <1>2 DEF IsOver
<1>4. D2 \in Int \ {0} /\ D3 \in Int \ {0}
  BY NonZero
<1>5. D2 = D * D /\ D3 = D * D2 /\ D3 = D2 * D
  OBVIOUS
<1> HIDE DEF n1, n2, n3, n4, n5, n6, n7, D2, D3
<1>6. IsOver(RSub(yi, yf), (n1 - n2), D)
  BY <1>a, <1>b, OverMinus
<1>7. IsOver(RMul(R(30), RSub(yi, yf)), (30 * (n1 - n2)), D)
  BY <1>6, OverTimes
<1>8. IsOver(RMul(R(30), RSub(yi, yf)), ((30 * (n1 - n2)) * D), D2)
  BY <1>7, <1>4, <1>5, OverPad
<1>9. IsOver(RMul(R(14), h), (14 * n7), D)
  BY <1>g, OverTimes
<1>10. IsOver(RMul(RMul(R(14), h), vf), ((14 * n7) * n3), D2)
  BY <1>9, <1>c, <1>5, OverMul
<1>11. IsOver(RAdd(RMul(R(30), RSub(yi, yf)), RMul(RMul(R(14), h), vf)), (((30 * (n1 - n2)) * D) +
         ((14 * n7) * n3)), D2)
  BY <1>8, <1>10, OverPlus
<1>12. IsOver(RAdd(RMul(R(30), RSub(yi, yf)), RMul(RMul(R(14), h), vf)), ((((30 * (n1 - n2)) * D) +
         ((14 * n7) * n3)) * D), D3)
  BY <1>11, <1>4, <1>5, OverPad
<1>13. IsOver(RMul(R(16), h), (16 * n7), D)
  BY <1>g, OverTimes
<1>14. IsOver(RMul(RMul(R(16), h), vi), ((16 * n7) * n4), D2)
  BY <1>13, <1>d, <1>5, OverMul
<1>15. IsOver(RMul(RMul(R(16), h), vi), (((16 * n7) * n4) * D), D3)
  BY <1>14, <1>4, <1>5, OverPad
<1>16. IsOver(RMul(h, h), (n7 * n7), D2)
  BY <1>g, <1>5, OverMul
<1>17. IsOver(RMul(R(2), af), (2 * n5), D)
  BY <1>e, OverTimes
<1>18. IsOver(RMul(RMul(R(2), af), RMul(h, h)), ((2 * n5) * (n7 * n7)), D3)
  BY <1>17, <1>16, <1>5, OverMul
<1>19. IsOver(RSub(RMul(RMul(R(16), h), vi), RMul(RMul(R(2), af), RMul(h, h))), ((((16 * n7) *
         n4) * D) - ((2 * n5) * (n7 * n7))), D3)
  BY <1>15, <1>18, OverMinus
<1>20. IsOver(RAdd(RAdd(RMul(R(30), RSub(yi, yf)), RMul(RMul(R(14), h), vf)), RSub(RMul(RMul(R(16),
         h), vi), RMul(RMul(R(2), af), RMul(h, h)))), (((((30 * (n1 - n2)) * D) + ((14 * n7) *
         n3)) * D) + ((((16 * n7) * n4) * D) - ((2 * n5) * (n7 * n7)))), D3)
  BY <1>12, <1>19, OverPlus
<1>21. IsOver(RMul(R(3), ai), (3 * n6), D)
  BY <1>f, OverTimes
<1>22. IsOver(RMul(RMul(R(3), ai), RMul(h, h)), ((3 * n6) * (n7 * n7)), D3)
  BY <1>21, <1>16, <1>5, OverMul
<1>23. IsOver(RAdd(RAdd(RAdd(RMul(R(30), RSub(yi, yf)), RMul(RMul(R(14), h), vf)),
         RSub(RMul(RMul(R(16), h), vi), RMul(RMul(R(2), af), RMul(h, h)))), RMul(RMul(R(3), ai),
         RMul(h, h))), ((((((30 * (n1 - n2)) * D) + ((14 * n7) * n3)) * D) + ((((16 * n7) *
         n4) * D) - ((2 * n5) * (n7 * n7)))) + ((3 * n6) * (n7 * n7))), D3)
  BY <1>20, <1>22, OverPlus
<1>24. IsOver(RMul(R(12), RSub(yi, yf)), (12 * (n1 - n2)), D)
  BY <1>6, OverTimes
<1>25. IsOver(RMul(R(12), RSub(yi, yf)), ((12 * (n1 - n2)) * D2), D3)
  BY <1>24, <1>4, <1>5, OverPad
<1>26. IsOver(RAdd(vf, vi), (n3 + n4), D)
  BY <1>c, <1>d, OverPlus
<1>27. IsOver(RMul(R(6), h), (6 * n7), D)
  BY <1>g, OverTimes
<1>28. IsOver(RMul(RMul(R(6), h), RAdd(vf, vi)), ((6 * n7) * (n3 + n4)), D2)
  BY <1>27, <1>26, <1>5, OverMul
<1>29. IsOver(RMul(RMul(R(6), h), RAdd(vf, vi)), (((6 * n7) * (n3 + n4)) * D), D3)
  BY <1>28, <1>4, <1>5, OverPad
<1>30. IsOver(RMul(af, RMul(h, h)), (n5 * (n7 * n7)), D3)
  BY <1>e, <1>16, <1>5, OverMul
<1>31. IsOver(RSub(RMul(RMul(R(6), h), RAdd(vf, vi)), RMul(af, RMul(h, h))), ((((6 * n7) * (n3 +
         n4)) * D) - (n5 * (n7 * n7))), D3)
  BY <1>29, <1>30, OverMinus
<1>32. IsOver(RAdd(RMul(R(12), RSub(yi, yf)), RSub(RMul(RMul(R(6), h), RAdd(vf, vi)), RMul(af,
         RMul(h, h)))), (((12 * (n1 - n2)) * D2) + ((((6 * n7) * (n3 + n4)) * D) - (n5 * (n7 *
         n7)))), D3)
  BY <1>25, <1>31, OverPlus
<1>33. IsOver(RMul(ai, RMul(h, h)), (n6 * (n7 * n7)), D3)
  BY <1>f, <1>16, <1>5, OverMul
<1>34. IsOver(RAdd(RAdd(RMul(R(12), RSub(yi, yf)), RSub(RMul(RMul(R(6), h), RAdd(vf, vi)), RMul(af,
         RMul(h, h)))), RMul(ai, RMul(h, h))), ((((12 * (n1 - n2)) * D2) + ((((6 * n7) * (n3 +
         n4)) * D) - (n5 * (n7 * n7)))) + (n6 * (n7 * n7))), D3)
  BY <1>32, <1>33, OverPlus
<1>35. IsOver(RSub(RAdd(RAdd(RAdd(RMul(R(30), RSub(yi, yf)), RMul(RMul(R(14), h), vf)),
         RSub(RMul(RMul(R(16), h), vi), RMul(RMul(R(2), af), RMul(h, h)))), RMul(RMul(R(3), ai),
         RMul(h, h))), RAdd(RAdd(RMul(R(12), RSub(yi, yf)), RSub(RMul(RMul(R(6), h), RAdd(vf,
         vi)), RMul(af, RMul(h, h)))), RMul(ai, RMul(h, h)))), (((((((30 * (n1 - n2)) * D) +
         ((14 * n7) * n3)) * D) + ((((16 * n7) * n4) * D) - ((2 * n5) * (n7 * n7)))) + ((3 *
         n6) * (n7 * n7))) - ((((12 * (n1 - n2)) * D2) + ((((6 * n7) * (n3 + n4)) * D) - (n5 *
         (n7 * n7)))) + (n6 * (n7 * n7)))), D3)
  BY <1>23, <1>34, OverMinus
<1>36. IsOver(RMul(R(20), RSub(yi, yf)), (20 * (n1 - n2)), D)
  BY <1>6, OverTimes
<1>37. IsOver(RMul(R(20), RSub(yi, yf)), ((20 * (n1 - n2)) * D), D2)
  BY <1>36, <1>4, <1>5, OverPad
<1>38. IsOver(RMul(R(8), h), (8 * n7), D)
  BY <1>g, OverTimes
<1>39. IsOver(RMul(RMul(R(8), h), vf), ((8 * n7) * n3), D2)
  BY <1>38, <1>c, <1>5, OverMul
<1>40. IsOver(RAdd(RMul(R(20), RSub(yi, yf)), RMul(RMul(R(8), h), vf)), (((20 * (n1 - n2)) * D) +
         ((8 * n7) * n3)), D2)
  BY <1>37, <1>39, OverPlus
<1>41. IsOver(RAdd(RMul(R(20), RSub(yi, yf)), RMul(RMul(R(8), h), vf)), ((((20 * (n1 - n2)) * D) +
         ((8 * n7) * n3)) * D), D3)
  BY <1>40, <1>4, <1>5, OverPad
<1>42. IsOver(RMul(R(12), h), (12 * n7), D)
  BY <1>g, OverTimes
<1>43. IsOver(RMul(RMul(R(12), h), vi), ((12 * n7) * n4), D2)
  BY <1>42, <1>d, <1>5, OverMul
<1>44. IsOver(RMul(RMul(R(12), h), vi), (((12 * n7) * n4) * D), D3)
  BY <1>43, <1>4, <1>5, OverPad
<1>45. IsOver(RSub(RMul(RMul(R(12), h), vi), RMul(af, RMul(h, h))), ((((12 * n7) * n4) * D) - (n5 *
         (n7 * n7))), D3)
  BY <1>44, <1>30, OverMinus
<1>46. IsOver(RAdd(RAdd(RMul(R(20), RSub(yi, yf)), RMul(RMul(R(8), h), vf)), RSub(RMul(RMul(R(12),
         h), vi), RMul(af, RMul(h, h)))), (((((20 * (n1 - n2)) * D) + ((8 * n7) * n3)) * D) +
         ((((12 * n7) * n4) * D) - (n5 * (n7 * n7)))), D3)
  BY <1>41, <1>45, OverPlus
<1>47. IsOver(RAdd(RAdd(RAdd(RMul(R(20), RSub(yi, yf)), RMul(RMul(R(8), h), vf)),
         RSub(RMul(RMul(R(12), h), vi), RMul(af, RMul(h, h)))), RMul(RMul(R(3), ai), RMul(h,
         h))), ((((((20 * (n1 - n2)) * D) + ((8 * n7) * n3)) * D) + ((((12 * n7) * n4) * D) -
         (n5 * (n7 * n7)))) + ((3 * n6) * (n7 * n7))), D3)
  BY <1>46, <1>22, OverPlus
<1>48. IsOver(RSub(RSub(RAdd(RAdd(RAdd(RMul(R(30), RSub(yi, yf)), RMul(RMul(R(14), h), vf)),
         RSub(RMul(RMul(R(16), h), vi), RMul(RMul(R(2), af), RMul(h, h)))), RMul(RMul(R(3), ai),
         RMul(h, h))), RAdd(RAdd(RMul(R(12), RSub(yi, yf)), RSub(RMul(RMul(R(6), h), RAdd(vf,
         vi)), RMul(af, RMul(h, h)))), RMul(ai, RMul(h, h)))), RAdd(RAdd(RAdd(RMul(R(20),
         RSub(yi, yf)), RMul(RMul(R(8), h), vf)), RSub(RMul(RMul(R(12), h), vi), RMul(af, RMul(h,
         h)))), RMul(RMul(R(3), ai), RMul(h, h)))), ((((((((30 * (n1 - n2)) * D) + ((14 * n7) *
         n3)) * D) + ((((16 * n7) * n4) * D) - ((2 * n5) * (n7 * n7)))) + ((3 * n6) * (n7 *
         n7))) - ((((12 * (n1 - n2)) * D2) + ((((6 * n7) * (n3 + n4)) * D) - (n5 * (n7 *
         n7)))) + (n6 * (n7 * n7)))) - ((((((20 * (n1 - n2)) * D) + ((8 * n7) * n3)) * D) +
         ((((12 * n7) * n4) * D) - (n5 * (n7 * n7)))) + ((3 * n6) * (n7 * n7)))), D3)
  BY <1>35, <1>47, OverMinus
<1>49. IsOver(RAdd(RSub(RSub(RAdd(RAdd(RAdd(RMul(R(30), RSub(yi, yf)), RMul(RMul(R(14), h), vf)),
         RSub(RMul(RMul(R(16), h), vi), RMul(RMul(R(2), af), RMul(h, h)))), RMul(RMul(R(3), ai),
         RMul(h, h))), RAdd(RAdd(RMul(R(12), RSub(yi, yf)), RSub(RMul(RMul(R(6), h), RAdd(vf,
         vi)), RMul(af, RMul(h, h)))), RMul(ai, RMul(h, h)))), RAdd(RAdd(RAdd(RMul(R(20),
         RSub(yi, yf)), RMul(RMul(R(8), h), vf)), RSub(RMul(RMul(R(12), h), vi), RMul(af, RMul(h,
         h)))), RMul(RMul(R(3), ai), RMul(h, h)))), RMul(ai, RMul(h, h))), (((((((((30 * (n1 -
         n2)) * D) + ((14 * n7) * n3)) * D) + ((((16 * n7) * n4) * D) - ((2 * n5) * (n7 *
         n7)))) + ((3 * n6) * (n7 * n7))) - ((((12 * (n1 - n2)) * D2) + ((((6 * n7) * (n3 +
         n4)) * D) - (n5 * (n7 * n7)))) + (n6 * (n7 * n7)))) - ((((((20 * (n1 - n2)) * D) +
         ((8 * n7) * n3)) * D) + ((((12 * n7) * n4) * D) - (n5 * (n7 * n7)))) + ((3 * n6) *
         (n7 * n7)))) + (n6 * (n7 * n7))), D3)
  BY <1>48, <1>33, OverPlus
<1>50. IsOver(RMul(vi, h), (n4 * n7), D2)
  BY <1>d, <1>g, <1>5, OverMul
<1>51. IsOver(yi, (n1 * D), D2)
  BY <1>a, <1>4, <1>5, OverPad
<1>52. IsOver(RAdd(RMul(vi, h), yi), ((n4 * n7) + (n1 * D)), D2)
  BY <1>50, <1>51, OverPlus
<1>53. IsOver(RMul(R(2), RAdd(RMul(vi, h), yi)), (2 * ((n4 * n7) + (n1 * D))), D2)
  BY <1>52, OverTimes
<1>54. IsOver(RMul(R(2), RAdd(RMul(vi, h), yi)), ((2 * ((n4 * n7) + (n1 * D))) * D), D3)
  BY <1>53, <1>4, <1>5, OverPad
<1>55. IsOver(RAdd(RAdd(RSub(RSub(RAdd(RAdd(RAdd(RMul(R(30), RSub(yi, yf)), RMul(RMul(R(14), h),
         vf)), RSub(RMul(RMul(R(16), h), vi), RMul(RMul(R(2), af), RMul(h, h)))), RMul(RMul(R(3),
         ai), RMul(h, h))), RAdd(RAdd(RMul(R(12), RSub(yi, yf)), RSub(RMul(RMul(R(6), h),
         RAdd(vf, vi)), RMul(af, RMul(h, h)))), RMul(ai, RMul(h, h)))),
         RAdd(RAdd(RAdd(RMul(R(20), RSub(yi, yf)), RMul(RMul(R(8), h), vf)),
         RSub(RMul(RMul(R(12), h), vi), RMul(af, RMul(h, h)))), RMul(RMul(R(3), ai), RMul(h,
         h)))), RMul(ai, RMul(h, h))), RMul(R(2), RAdd(RMul(vi, h), yi))), ((((((((((30 * (n1 -
         n2)) * D) + ((14 * n7) * n3)) * D) + ((((16 * n7) * n4) * D) - ((2 * n5) * (n7 *
         n7)))) + ((3 * n6) * (n7 * n7))) - ((((12 * (n1 - n2)) * D2) + ((((6 * n7) * (n3 +
         n4)) * D) - (n5 * (n7 * n7)))) + (n6 * (n7 * n7)))) - ((((((20 * (n1 - n2)) * D) +
         ((8 * n7) * n3)) * D) + ((((12 * n7) * n4) * D) - (n5 * (n7 * n7)))) + ((3 * n6) *
         (n7 * n7)))) + (n6 * (n7 * n7))) + ((2 * ((n4 * n7) + (n1 * D))) * D)), D3)
  BY <1>49, <1>54, OverPlus
<1>56. IsOver(RMul(R(2), yf), (2 * n2), D)
  BY <1>b, OverTimes
<1>57. IsOver(RMul(R(2), yf), ((2 * n2) * D2), D3)
  BY <1>56, <1>4, <1>5, OverPad
<1>58. ((((((((((30 * (n1 - n2)) * D) + ((14 * n7) * n3)) * D) + ((((16 * n7) * n4) * D) - ((2 *
         n5) * (n7 * n7)))) + ((3 * n6) * (n7 * n7))) - ((((12 * (n1 - n2)) * D2) + ((((6 *
         n7) * (n3 + n4)) * D) - (n5 * (n7 * n7)))) + (n6 * (n7 * n7)))) - ((((((20 * (n1 -
         n2)) * D) + ((8 * n7) * n3)) * D) + ((((12 * n7) * n4) * D) - (n5 * (n7 * n7)))) +
         ((3 * n6) * (n7 * n7)))) + (n6 * (n7 * n7))) + ((2 * ((n4 * n7) + (n1 * D))) * D)) =
         ((2 * n2) * D2)
  BY <1>3 DEF D2, D3
<1>59. RAdd(RAdd(RSub(RSub(RAdd(RAdd(RAdd(RMul(R(30), RSub(yi, yf)), RMul(RMul(R(14), h), vf)),
         RSub(RMul(RMul(R(16), h), vi), RMul(RMul(R(2), af), RMul(h, h)))), RMul(RMul(R(3), ai),
         RMul(h, h))), RAdd(RAdd(RMul(R(12), RSub(yi, yf)), RSub(RMul(RMul(R(6), h), RAdd(vf,
         vi)), RMul(af, RMul(h, h)))), RMul(ai, RMul(h, h)))), RAdd(RAdd(RAdd(RMul(R(20),
         RSub(yi, yf)), RMul(RMul(R(8), h), vf)), RSub(RMul(RMul(R(12), h), vi), RMul(af, RMul(h,
         h)))), RMul(RMul(R(3), ai), RMul(h, h)))), RMul(ai, RMul(h, h))), RMul(R(2),
         RAdd(RMul(vi, h), yi))) = RMul(R(2), yf)
  BY <1>55, <1>57, <1>58, OverEqual
<1>60. IsOver(RMul(R(4), RAdd(RAdd(RAdd(RMul(R(30), RSub(yi, yf)), RMul(RMul(R(14), h), vf)),
         RSub(RMul(RMul(R(16), h), vi), RMul(RMul(R(2), af), RMul(h, h)))), RMul(RMul(R(3), ai),
         RMul(h, h)))), (4 * ((((((30 * (n1 - n2)) * D) + ((14 * n7) * n3)) * D) + ((((16 *
         n7) * n4) * D) - ((2 * n5) * (n7 * n7)))) + ((3 * n6) * (n7 * n7)))), D3)
  BY <1>23, OverTimes
<1>61. IsOver(RMul(R(5), RAdd(RAdd(RMul(R(12), RSub(yi, yf)), RSub(RMul(RMul(R(6), h), RAdd(vf,
         vi)), RMul(af, RMul(h, h)))), RMul(ai, RMul(h, h)))), (5 * ((((12 * (n1 - n2)) * D2) +
         ((((6 * n7) * (n3 + n4)) * D) - (n5 * (n7 * n7)))) + (n6 * (n7 * n7)))), D3)
  BY <1>34, OverTimes
<1>62. IsOver(RSub(RMul(R(4), RAdd(RAdd(RAdd(RMul(R(30), RSub(yi, yf)), RMul(RMul(R(14), h), vf)),
         RSub(RMul(RMul(R(16), h), vi), RMul(RMul(R(2), af), RMul(h, h)))), RMul(RMul(R(3), ai),
         RMul(h, h)))), RMul(R(5), RAdd(RAdd(RMul(R(12), RSub(yi, yf)), RSub(RMul(RMul(R(6), h),
         RAdd(vf, vi)), RMul(af, RMul(h, h)))), RMul(ai, RMul(h, h))))), ((4 * ((((((30 * (n1 -
         n2)) * D) + ((14 * n7) * n3)) * D) + ((((16 * n7) * n4) * D) - ((2 * n5) * (n7 *
         n7)))) + ((3 * n6) * (n7 * n7)))) - (5 * ((((12 * (n1 - n2)) * D2) + ((((6 * n7) *
         (n3 + n4)) * D) - (n5 * (n7 * n7)))) + (n6 * (n7 * n7))))), D3)
  BY <1>60, <1>61, OverMinus
<1>63. IsOver(RMul(R(3), RAdd(RAdd(RAdd(RMul(R(20), RSub(yi, yf)), RMul(RMul(R(8), h), vf)),
         RSub(RMul(RMul(R(12), h), vi), RMul(af, RMul(h, h)))), RMul(RMul(R(3), ai), RMul(h,
         h)))), (3 * ((((((20 * (n1 - n2)) * D) + ((8 * n7) * n3)) * D) + ((((12 * n7) * n4) *
         D) - (n5 * (n7 * n7)))) + ((3 * n6) * (n7 * n7)))), D3)
  BY <1>47, OverTimes
<1>64. IsOver(RSub(RSub(RMul(R(4), RAdd(RAdd(RAdd(RMul(R(30), RSub(yi, yf)), RMul(RMul(R(14), h),
         vf)), RSub(RMul(RMul(R(16), h), vi), RMul(RMul(R(2), af), RMul(h, h)))), RMul(RMul(R(3),
         ai), RMul(h, h)))), RMul(R(5), RAdd(RAdd(RMul(R(12), RSub(yi, yf)), RSub(RMul(RMul(R(6),
         h), RAdd(vf, vi)), RMul(af, RMul(h, h)))), RMul(ai, RMul(h, h))))), RMul(R(3),
         RAdd(RAdd(RAdd(RMul(R(20), RSub(yi, yf)), RMul(RMul(R(8), h), vf)),
         RSub(RMul(RMul(R(12), h), vi), RMul(af, RMul(h, h)))), RMul(RMul(R(3), ai), RMul(h,
         h))))), (((4 * ((((((30 * (n1 - n2)) * D) + ((14 * n7) * n3)) * D) + ((((16 * n7) *
         n4) * D) - ((2 * n5) * (n7 * n7)))) + ((3 * n6) * (n7 * n7)))) - (5 * ((((12 * (n1 -
         n2)) * D2) + ((((6 * n7) * (n3 + n4)) * D) - (n5 * (n7 * n7)))) + (n6 * (n7 * n7))))) -
         (3 * ((((((20 * (n1 - n2)) * D) + ((8 * n7) * n3)) * D) + ((((12 * n7) * n4) * D) -
         (n5 * (n7 * n7)))) + ((3 * n6) * (n7 * n7))))), D3)
  BY <1>62, <1>63, OverMinus
<1>65. IsOver(RMul(R(2), RMul(ai, RMul(h, h))), (2 * (n6 * (n7 * n7))), D3)
  BY <1>33, OverTimes
<1>66. IsOver(RAdd(RSub(RSub(RMul(R(4), RAdd(RAdd(RAdd(RMul(R(30), RSub(yi, yf)), RMul(RMul(R(14),
         h), vf)), RSub(RMul(RMul(R(16), h), vi), RMul(RMul(R(2), af), RMul(h, h)))),
         RMul(RMul(R(3), ai), RMul(h, h)))), RMul(R(5), RAdd(RAdd(RMul(R(12), RSub(yi, yf)),
         RSub(RMul(RMul(R(6), h), RAdd(vf, vi)), RMul(af, RMul(h, h)))), RMul(ai, RMul(h, h))))),
         RMul(R(3), RAdd(RAdd(RAdd(RMul(R(20), RSub(yi, yf)), RMul(RMul(R(8), h), vf)),
         RSub(RMul(RMul(R(12), h), vi), RMul(af, RMul(h, h)))), RMul(RMul(R(3), ai), RMul(h,
         h))))), RMul(R(2), RMul(ai, RMul(h, h)))), ((((4 * ((((((30 * (n1 - n2)) * D) + ((14 *
         n7) * n3)) * D) + ((((16 * n7) * n4) * D) - ((2 * n5) * (n7 * n7)))) + ((3 * n6) *
         (n7 * n7)))) - (5 * ((((12 * (n1 - n2)) * D2) + ((((6 * n7) * (n3 + n4)) * D) - (n5 *
         (n7 * n7)))) + (n6 * (n7 * n7))))) - (3 * ((((((20 * (n1 - n2)) * D) + ((8 * n7) *
         n3)) * D) + ((((12 * n7) * n4) * D) - (n5 * (n7 * n7)))) + ((3 * n6) * (n7 * n7))))) +
         (2 * (n6 * (n7 * n7)))), D3)
  BY <1>64, <1>65, OverPlus
<1>67. IsOver(RMul(R(2), h), (2 * n7), D)
  BY <1>g, OverTimes
<1>68. IsOver(RMul(vi, RMul(R(2), h)), (n4 * (2 * n7)), D2)
  BY <1>d, <1>67, <1>5, OverMul
<1>69. IsOver(RMul(vi, RMul(R(2), h)), ((n4 * (2 * n7)) * D), D3)
  BY <1>68, <1>4, <1>5, OverPad
<1>70. IsOver(RAdd(RAdd(RSub(RSub(RMul(R(4), RAdd(RAdd(RAdd(RMul(R(30), RSub(yi, yf)),
         RMul(RMul(R(14), h), vf)), RSub(RMul(RMul(R(16), h), vi), RMul(RMul(R(2), af), RMul(h,
         h)))), RMul(RMul(R(3), ai), RMul(h, h)))), RMul(R(5), RAdd(RAdd(RMul(R(12), RSub(yi,
         yf)), RSub(RMul(RMul(R(6), h), RAdd(vf, vi)), RMul(af, RMul(h, h)))), RMul(ai, RMul(h,
         h))))), RMul(R(3), RAdd(RAdd(RAdd(RMul(R(20), RSub(yi, yf)), RMul(RMul(R(8), h), vf)),
         RSub(RMul(RMul(R(12), h), vi), RMul(af, RMul(h, h)))), RMul(RMul(R(3), ai), RMul(h,
         h))))), RMul(R(2), RMul(ai, RMul(h, h)))), RMul(vi, RMul(R(2), h))), (((((4 *
         ((((((30 * (n1 - n2)) * D) + ((14 * n7) * n3)) * D) + ((((16 * n7) * n4) * D) - ((2 *
         n5) * (n7 * n7)))) + ((3 * n6) * (n7 * n7)))) - (5 * ((((12 * (n1 - n2)) * D2) +
         ((((6 * n7) * (n3 + n4)) * D) - (n5 * (n7 * n7)))) + (n6 * (n7 * n7))))) - (3 *
         ((((((20 * (n1 - n2)) * D) + ((8 * n7) * n3)) * D) + ((((12 * n7) * n4) * D) - (n5 *
         (n7 * n7)))) + ((3 * n6) * (n7 * n7))))) + (2 * (n6 * (n7 * n7)))) + ((n4 * (2 * n7)) *
         D)), D3)
  BY <1>66, <1>69, OverPlus
<1>71. IsOver(RMul(RMul(R(2), h), vf), ((2 * n7) * n3), D2)
  BY <1>67, <1>c, <1>5, OverMul
<1>72. IsOver(RMul(RMul(R(2), h), vf), (((2 * n7) * n3) * D), D3)
  BY <1>71, <1>4, <1>5, OverPad
<1>73. (((((4 * ((((((30 * (n1 - n2)) * D) + ((14 * n7) * n3)) * D) + ((((16 * n7) * n4) * D) -
         ((2 * n5) * (n7 * n7)))) + ((3 * n6) * (n7 * n7)))) - (5 * ((((12 * (n1 - n2)) * D2) +
         ((((6 * n7) * (n3 + n4)) * D) - (n5 * (n7 * n7)))) + (n6 * (n7 * n7))))) - (3 *
         ((((((20 * (n1 - n2)) * D) + ((8 * n7) * n3)) * D) + ((((12 * n7) * n4) * D) - (n5 *
         (n7 * n7)))) + ((3 * n6) * (n7 * n7))))) + (2 * (n6 * (n7 * n7)))) + ((n4 * (2 * n7)) *
         D)) = (((2 * n7) * n3) * D)
  BY <1>3 DEF D2, D3
<1>74. RAdd(RAdd(RSub(RSub(RMul(R(4), RAdd(RAdd(RAdd(RMul(R(30), RSub(yi, yf)), RMul(RMul(R(14),
         h), vf)), RSub(RMul(RMul(R(16), h), vi), RMul(RMul(R(2), af), RMul(h, h)))),
         RMul(RMul(R(3), ai), RMul(h, h)))), RMul(R(5), RAdd(RAdd(RMul(R(12), RSub(yi, yf)),
         RSub(RMul(RMul(R(6), h), RAdd(vf, vi)), RMul(af, RMul(h, h)))), RMul(ai, RMul(h, h))))),
         RMul(R(3), RAdd(RAdd(RAdd(RMul(R(20), RSub(yi, yf)), RMul(RMul(R(8), h), vf)),
         RSub(RMul(RMul(R(12), h), vi), RMul(af, RMul(h, h)))), RMul(RMul(R(3), ai), RMul(h,
         h))))), RMul(R(2), RMul(ai, RMul(h, h)))), RMul(vi, RMul(R(2), h))) = RMul(RMul(R(2),
         h), vf)
  BY <1>70, <1>72, <1>73, OverEqual
<1>75. IsOver(RMul(R(12), RAdd(RAdd(RAdd(RMul(R(30), RSub(yi, yf)), RMul(RMul(R(14), h), vf)),
         RSub(RMul(RMul(R(16), h), vi), RMul(RMul(R(2), af), RMul(h, h)))), RMul(RMul(R(3), ai),
         RMul(h, h)))), (12 * ((((((30 * (n1 - n2)) * D) + ((14 * n7) * n3)) * D) + ((((16 *
         n7) * n4) * D) - ((2 * n5) * (n7 * n7)))) + ((3 * n6) * (n7 * n7)))), D3)
  BY <1>23, OverTimes
<1>76. IsOver(RMul(R(20), RAdd(RAdd(RMul(R(12), RSub(yi, yf)), RSub(RMul(RMul(R(6), h), RAdd(vf,
         vi)), RMul(af, RMul(h, h)))), RMul(ai, RMul(h, h)))), (20 * ((((12 * (n1 - n2)) * D2) +
         ((((6 * n7) * (n3 + n4)) * D) - (n5 * (n7 * n7)))) + (n6 * (n7 * n7)))), D3)
  BY <1>34, OverTimes
<1>77. IsOver(RSub(RMul(R(12), RAdd(RAdd(RAdd(RMul(R(30), RSub(yi, yf)), RMul(RMul(R(14), h), vf)),
         RSub(RMul(RMul(R(16), h), vi), RMul(RMul(R(2), af), RMul(h, h)))), RMul(RMul(R(3), ai),
         RMul(h, h)))), RMul(R(20), RAdd(RAdd(RMul(R(12), RSub(yi, yf)), RSub(RMul(RMul(R(6), h),
         RAdd(vf, vi)), RMul(af, RMul(h, h)))), RMul(ai, RMul(h, h))))), ((12 * ((((((30 * (n1 -
         n2)) * D) + ((14 * n7) * n3)) * D) + ((((16 * n7) * n4) * D) - ((2 * n5) * (n7 *
         n7)))) + ((3 * n6) * (n7 * n7)))) - (20 * ((((12 * (n1 - n2)) * D2) + ((((6 * n7) *
         (n3 + n4)) * D) - (n5 * (n7 * n7)))) + (n6 * (n7 * n7))))), D3)
  BY <1>75, <1>76, OverMinus
<1>78. IsOver(RMul(R(6), RAdd(RAdd(RAdd(RMul(R(20), RSub(yi, yf)), RMul(RMul(R(8), h), vf)),
         RSub(RMul(RMul(R(12), h), vi), RMul(af, RMul(h, h)))), RMul(RMul(R(3), ai), RMul(h,
         h)))), (6 * ((((((20 * (n1 - n2)) * D) + ((8 * n7) * n3)) * D) + ((((12 * n7) * n4) *
         D) - (n5 * (n7 * n7)))) + ((3 * n6) * (n7 * n7)))), D3)
  BY <1>47, OverTimes
<1>79. IsOver(RSub(RSub(RMul(R(12), RAdd(RAdd(RAdd(RMul(R(30), RSub(yi, yf)), RMul(RMul(R(14), h),
         vf)), RSub(RMul(RMul(R(16), h), vi), RMul(RMul(R(2), af), RMul(h, h)))), RMul(RMul(R(3),
         ai), RMul(h, h)))), RMul(R(20), RAdd(RAdd(RMul(R(12), RSub(yi, yf)),
         RSub(RMul(RMul(R(6), h), RAdd(vf, vi)), RMul(af, RMul(h, h)))), RMul(ai, RMul(h, h))))),
         RMul(R(6), RAdd(RAdd(RAdd(RMul(R(20), RSub(yi, yf)), RMul(RMul(R(8), h), vf)),
         RSub(RMul(RMul(R(12), h), vi), RMul(af, RMul(h, h)))), RMul(RMul(R(3), ai), RMul(h,
         h))))), (((12 * ((((((30 * (n1 - n2)) * D) + ((14 * n7) * n3)) * D) + ((((16 * n7) *
         n4) * D) - ((2 * n5) * (n7 * n7)))) + ((3 * n6) * (n7 * n7)))) - (20 * ((((12 * (n1 -
         n2)) * D2) + ((((6 * n7) * (n3 + n4)) * D) - (n5 * (n7 * n7)))) + (n6 * (n7 * n7))))) -
         (6 * ((((((20 * (n1 - n2)) * D) + ((8 * n7) * n3)) * D) + ((((12 * n7) * n4) * D) -
         (n5 * (n7 * n7)))) + ((3 * n6) * (n7 * n7))))), D3)
  BY <1>77, <1>78, OverMinus
<1>80. IsOver(RAdd(RSub(RSub(RMul(R(12), RAdd(RAdd(RAdd(RMul(R(30), RSub(yi, yf)), RMul(RMul(R(14),
         h), vf)), RSub(RMul(RMul(R(16), h), vi), RMul(RMul(R(2), af), RMul(h, h)))),
         RMul(RMul(R(3), ai), RMul(h, h)))), RMul(R(20), RAdd(RAdd(RMul(R(12), RSub(yi, yf)),
         RSub(RMul(RMul(R(6), h), RAdd(vf, vi)), RMul(af, RMul(h, h)))), RMul(ai, RMul(h, h))))),
         RMul(R(6), RAdd(RAdd(RAdd(RMul(R(20), RSub(yi, yf)), RMul(RMul(R(8), h), vf)),
         RSub(RMul(RMul(R(12), h), vi), RMul(af, RMul(h, h)))), RMul(RMul(R(3), ai), RMul(h,
         h))))), RMul(R(2), RMul(ai, RMul(h, h)))), ((((12 * ((((((30 * (n1 - n2)) * D) + ((14 *
         n7) * n3)) * D) + ((((16 * n7) * n4) * D) - ((2 * n5) * (n7 * n7)))) + ((3 * n6) *
         (n7 * n7)))) - (20 * ((((12 * (n1 - n2)) * D2) + ((((6 * n7) * (n3 + n4)) * D) - (n5 *
         (n7 * n7)))) + (n6 * (n7 * n7))))) - (6 * ((((((20 * (n1 - n2)) * D) + ((8 * n7) *
         n3)) * D) + ((((12 * n7) * n4) * D) - (n5 * (n7 * n7)))) + ((3 * n6) * (n7 * n7))))) +
         (2 * (n6 * (n7 * n7)))), D3)
  BY <1>79, <1>65, OverPlus
<1>81. IsOver(RMul(R(2), RMul(h, h)), (2 * (n7 * n7)), D2)
  BY <1>16, OverTimes
<1>82. IsOver(RMul(RMul(R(2), RMul(h, h)), af), ((2 * (n7 * n7)) * n5), D3)
  BY <1>81, <1>e, <1>5, OverMul
<1>83. ((((12 * ((((((30 * (n1 - n2)) * D) + ((14 * n7) * n3)) * D) + ((((16 * n7) * n4) * D) -
         ((2 * n5) * (n7 * n7)))) + ((3 * n6) * (n7 * n7)))) - (20 * ((((12 * (n1 - n2)) * D2) +
         ((((6 * n7) * (n3 + n4)) * D) - (n5 * (n7 * n7)))) + (n6 * (n7 * n7))))) - (6 *
         ((((((20 * (n1 - n2)) * D) + ((8 * n7) * n3)) * D) + ((((12 * n7) * n4) * D) - (n5 *
         (n7 * n7)))) + ((3 * n6) * (n7 * n7))))) + (2 * (n6 * (n7 * n7)))) = ((2 * (n7 * n7)) *
         n5)
  BY <1>3 DEF D2, D3
<1>84. RAdd(RSub(RSub(RMul(R(12), RAdd(RAdd(RAdd(RMul(R(30), RSub(yi, yf)), RMul(RMul(R(14), h),
         vf)), RSub(RMul(RMul(R(16), h), vi), RMul(RMul(R(2), af), RMul(h, h)))), RMul(RMul(R(3),
         ai), RMul(h, h)))), RMul(R(20), RAdd(RAdd(RMul(R(12), RSub(yi, yf)),
         RSub(RMul(RMul(R(6), h), RAdd(vf, vi)), RMul(af, RMul(h, h)))), RMul(ai, RMul(h, h))))),
         RMul(R(6), RAdd(RAdd(RAdd(RMul(R(20), RSub(yi, yf)), RMul(RMul(R(8), h), vf)),
         RSub(RMul(RMul(R(12), h), vi), RMul(af, RMul(h, h)))), RMul(RMul(R(3), ai), RMul(h,
         h))))), RMul(R(2), RMul(ai, RMul(h, h)))) = RMul(RMul(R(2), RMul(h, h)), af)
  BY <1>80, <1>82, <1>83, OverEqual
<1>85. QED
  BY <1>59, <1>74, <1>84 DEF (+), (-), (.), SegmentSumsLaw

\* The value of a polynomial is a fraction.
LEMMA ValueType ==
  ASSUME NEW n \in 0 .. 12, NEW x \in Rat, NEW p \in [0 .. n -> Rat]
  PROVE  Value(p, x) \in Rat
<1>1. PICK h \in [0 .. n -> Rat] : /\ h[0] = p[0] /\ Value(p, x) = h[n]
            /\ \A i \in 1 .. n : h[i] = RAdd(RMul(h[i - 1], x), p[i])
  BY ValueIs
<1>2. n \in 0 .. n
  OBVIOUS
<1>3. QED
  BY <1>1, <1>2

\* Horner's scheme of degree three, written out.
LEMMA Value3 ==
  ASSUME NEW c \in [0 .. 3 -> Rat], NEW x \in Rat
  PROVE  Value(c, x) = RAdd(RMul(RAdd(RMul(RAdd(RMul(c[0], x), c[1]), x), c[2]), x), c[3])
<1>1. 3 \in 0 .. 12
  OBVIOUS
<1>2. PICK h \in [0 .. 3 -> Rat] : /\ h[0] = c[0] /\ Value(c, x) = h[3]
            /\ \A i \in 1 .. 3 : h[i] = RAdd(RMul(h[i - 1], x), c[i])
  BY <1>1, ValueIs
<1>3. h[1] = RAdd(RMul(h[1 - 1], x), c[1]) /\ h[2] = RAdd(RMul(h[2 - 1], x), c[2])
      /\ h[3] = RAdd(RMul(h[3 - 1], x), c[3])
  BY <1>2
<1>4. 1 - 1 = 0 /\ 2 - 1 = 1 /\ 3 - 1 = 2
  OBVIOUS
<1>5. QED
  BY <1>2, <1>3, <1>4

\* Horner's scheme of degree four, written out.
LEMMA Value4 ==
  ASSUME NEW c \in [0 .. 4 -> Rat], NEW x \in Rat
  PROVE  Value(c, x) = RAdd(RMul(RAdd(RMul(RAdd(RMul(RAdd(RMul(c[0], x), c[1]), x), c[2]), x), c[3]), x), c[4])
<1>1. 4 \in 0 .. 12
  OBVIOUS
<1>2. PICK h \in [0 .. 4 -> Rat] : /\ h[0] = c[0] /\ Value(c, x) = h[4]
            /\ \A i \in 1 .. 4 : h[i] = RAdd(RMul(h[i - 1], x), c[i])
  BY <1>1, ValueIs
<1>3. h[1] = RAdd(RMul(h[1 - 1], x), c[1]) /\ h[2] = RAdd(RMul(h[2 - 1], x), c[2])
      /\ h[3] = RAdd(RMul(h[3 - 1], x), c[3]) /\ h[4] = RAdd(RMul(h[4 - 1], x), c[4])
  BY <1>2
<1>4. 1 - 1 = 0 /\ 2 - 1 = 1 /\ 3 - 1 = 2 /\ 4 - 1 = 3
  OBVIOUS
<1>5. QED
  BY <1>2, <1>3, <1>4

\* Horner's scheme of degree five, written out.
LEMMA Value5 ==
  ASSUME NEW c \in [0 .. 5 -> Rat], NEW x \in Rat
  PROVE  Value(c, x) = RAdd(RMul(RAdd(RMul(RAdd(RMul(RAdd(RMul(RAdd(RMul(
                           c[0], x), c[1]), x), c[2]), x), c[3]), x), c[4]), x), c[5])
<1>1. 5 \in 0 .. 12
  OBVIOUS
<1>2. PICK h \in [0 .. 5 -> Rat] : /\ h[0] = c[0] /\ Value(c, x) = h[5]
            /\ \A i \in 1 .. 5 : h[i] = RAdd(RMul(h[i - 1], x), c[i])
  BY <1>1, ValueIs
<1>3. h[1] = RAdd(RMul(h[1 - 1], x), c[1]) /\ h[2] = RAdd(RMul(h[2 - 1], x), c[2])
      /\ h[3] = RAdd(RMul(h[3 - 1], x), c[3]) /\ h[4] = RAdd(RMul(h[4 - 1], x), c[4])
      /\ h[5] = RAdd(RMul(h[5 - 1], x), c[5])
  BY <1>2
<1>4. 1 - 1 = 0 /\ 2 - 1 = 1 /\ 3 - 1 = 2 /\ 4 - 1 = 3 /\ 5 - 1 = 4
  OBVIOUS
<1>5. QED
  BY <1>2, <1>3, <1>4

\* A polynomial has its last coefficient at zero.
LEMMA ValueAtZero ==
  ASSUME NEW n \in 1 .. 12, NEW p \in [0 .. n -> Rat]
  PROVE  Value(p, Zero) = p[n]
<1>1. Zero \in Rat /\ n \in 0 .. 12 /\ n \in 1 .. n /\ n - 1 \in 0 .. n /\ n \in 0 .. n
  BY ZeroOne
<1>2. PICK h \in [0 .. n -> Rat] : /\ h[0] = p[0] /\ Value(p, Zero) = h[n]
            /\ \A i \in 1 .. n : h[i] = RAdd(RMul(h[i - 1], Zero), p[i])
  BY <1>1, ValueIs
<1>3. h[n - 1] \in Rat /\ p[n] \in Rat /\ h[n] = RAdd(RMul(h[n - 1], Zero), p[n])
  BY <1>1, <1>2
<1>4. QED
  BY <1>2, <1>3, Neutral

-----------------------------------------------------------------------------
(* A segment between two waypoints                                          *)

FifthPower(h) == RMul(h, RMul(h, RMul(h, RMul(h, h))))

FourthPower(h) == RMul(h, RMul(h, RMul(h, h)))

ThirdPower(h) == RMul(h, RMul(h, h))

\* The numerators of the coefficients.
N0(e, h) == R(12) (.) (e.yi (-) e.yf) (+) R(6) (.) h (.) (e.dyf (+) e.dyi)
            (-) e.d2yf (.) (h (.) h) (+) e.d2yi (.) (h (.) h)

N1(e, h) == R(30) (.) (e.yi (-) e.yf) (+) R(14) (.) h (.) e.dyf (+) R(16) (.) h (.) e.dyi
            (-) R(2) (.) e.d2yf (.) (h (.) h) (+) R(3) (.) e.d2yi (.) (h (.) h)

N2(e, h) == R(20) (.) (e.yi (-) e.yf) (+) R(8) (.) h (.) e.dyf (+) R(12) (.) h (.) e.dyi
            (-) e.d2yf (.) (h (.) h) (+) R(3) (.) e.d2yi (.) (h (.) h)

\* The duration of a segment is positive; its ends are fractions.
LEMMA SpanFacts ==
  ASSUME NEW e \in Boundaries
  PROVE  /\ Span(e) \in Rat /\ Span(e) # Zero /\ RLt(Zero, Span(e))
         /\ e.xi \in Rat /\ e.xf \in Rat /\ e.yi \in Rat /\ e.yf \in Rat /\ e.dyi \in Rat
         /\ e.dyf \in Rat /\ e.d2yi \in Rat /\ e.d2yf \in Rat /\ RLt(e.xi, e.xf)
         /\ Span(e) = RSub(e.xf, e.xi)
<1>1. /\ e.xi \in Rat /\ e.xf \in Rat /\ e.yi \in Rat /\ e.yf \in Rat /\ e.dyi \in Rat
      /\ e.dyf \in Rat /\ e.d2yi \in Rat /\ e.d2yf \in Rat /\ RLt(e.xi, e.xf)
  BY DEF Boundaries
<1>2. Span(e) = RSub(e.xf, e.xi)
  BY DEF Span, (-)
<1>3. RSub(e.xf, e.xi) \in Rat /\ RLt(Zero, RSub(e.xf, e.xi))
  BY <1>1, Difference
<1>4. RSub(e.xf, e.xi) # Zero
  BY <1>3, Order
<1>5. QED
  BY <1>1, <1>2, <1>3, <1>4

\* The coefficients of ComputeParameters, in products instead of powers.
LEMMA CoefficientsAre ==
  ASSUME NEW e \in Boundaries
  PROVE  LET h == Span(e)
             p == ComputeParameters(e)
             c == p.coefficients
         IN  /\ p = [e EXCEPT !.coefficients = c]
             /\ DOMAIN c = 0 .. 5
             /\ c[0] = RNeg(RDiv(N0(e, h), RMul(R(2), FifthPower(h))))
             /\ c[1] = RDiv(N1(e, h), RMul(R(2), FourthPower(h)))
             /\ c[2] = RNeg(RDiv(N2(e, h), RMul(R(2), ThirdPower(h))))
             /\ c[3] = RDiv(e.d2yi, R(2)) /\ c[4] = e.dyi /\ c[5] = e.yi
             /\ c = [i \in 0 .. 5 |-> c[i]]
<1> DEFINE h == Span(e)
           p == ComputeParameters(e)
           c == p.coefficients
<1>1. h \in Rat
  BY SpanFacts
<1>2. /\ Power(h, 1) = h /\ Power(h, 2) = RMul(h, h) /\ Power(h, 3) = ThirdPower(h)
      /\ Power(h, 4) = FourthPower(h) /\ Power(h, 5) = FifthPower(h)
  BY <1>1, Powers DEF ThirdPower, FourthPower, FifthPower
<1> DEFINE w == <<RNeg(RDiv(N0(e, h), RMul(R(2), FifthPower(h)))),
                  RDiv(N1(e, h), RMul(R(2), FourthPower(h))),
                  RNeg(RDiv(N2(e, h), RMul(R(2), ThirdPower(h)))),
                  RDiv(e.d2yi, R(2)), e.dyi, e.yi>>
<1>3. p = [e EXCEPT !.coefficients = Poly(w)]
  BY <1>2 DEF ComputeParameters, N0, N1, N2, (+), (-), (.), (/)
<1>4. c = Poly(w)
  BY <1>3 DEF Boundaries
<1>5. Poly(w) = [i \in 0 .. 5 |-> w[i + 1]]
  BY DEF Poly
<1>6. QED
  BY <1>3, <1>4, <1>5

\* The denominators of the coefficients are not zero.
LEMMA PowersAre ==
  ASSUME NEW h \in Rat, h # Zero
  PROVE  /\ RMul(R(2), FifthPower(h)) \in Rat \ {Zero} /\ RMul(R(2), FourthPower(h)) \in Rat \ {Zero}
         /\ RMul(R(2), ThirdPower(h)) \in Rat \ {Zero} /\ RMul(R(2), RMul(h, h)) \in Rat \ {Zero}
         /\ RMul(R(2), h) \in Rat \ {Zero} /\ R(2) \in Rat \ {Zero}
<1>1. R(2) \in Rat \ {Zero}
  BY RType DEF R, Zero
<1>2. RMul(h, h) \in Rat \ {Zero}
  BY MulType, NoZeroDivisors
<1>3. ThirdPower(h) \in Rat \ {Zero}
  BY <1>2, MulType, NoZeroDivisors DEF ThirdPower
<1>4. FourthPower(h) \in Rat \ {Zero}
  BY <1>3, MulType, NoZeroDivisors DEF FourthPower, ThirdPower
<1>5. FifthPower(h) \in Rat \ {Zero}
  BY <1>4, MulType, NoZeroDivisors DEF FifthPower, FourthPower
<1>6. QED
  BY <1>1, <1>2, <1>3, <1>4, <1>5, MulType, NoZeroDivisors

\* The numerators of the coefficients are fractions.
LEMMA NumeratorTypes ==
  ASSUME NEW e \in Boundaries, NEW h \in Rat
  PROVE  N0(e, h) \in Rat /\ N1(e, h) \in Rat /\ N2(e, h) \in Rat
<1>1. /\ e.yi \in Rat /\ e.yf \in Rat /\ e.dyi \in Rat /\ e.dyf \in Rat /\ e.d2yi \in Rat /\ e.d2yf \in Rat
      /\ R(12) \in Rat /\ R(6) \in Rat /\ R(30) \in Rat /\ R(14) \in Rat /\ R(16) \in Rat /\ R(2) \in Rat
      /\ R(3) \in Rat /\ R(20) \in Rat /\ R(8) \in Rat
  BY SpanFacts, RType
<1>2. RMul(h, h) \in Rat /\ RSub(e.yi, e.yf) \in Rat /\ RAdd(e.dyf, e.dyi) \in Rat
  BY <1>1, MulType, SubType, AddType
<1>3. N0(e, h) \in Rat
  <2>1. RMul(RMul(R(6), h), RAdd(e.dyf, e.dyi)) \in Rat /\ RMul(R(12), RSub(e.yi, e.yf)) \in Rat
        /\ RMul(e.d2yf, RMul(h, h)) \in Rat /\ RMul(e.d2yi, RMul(h, h)) \in Rat
    BY <1>1, <1>2, MulType
  <2>2. QED
    BY <2>1, AddType, SubType DEF N0, (+), (-), (.)
<1>4. N1(e, h) \in Rat
  <2>1. /\ RMul(R(30), RSub(e.yi, e.yf)) \in Rat /\ RMul(RMul(R(14), h), e.dyf) \in Rat
        /\ RMul(RMul(R(16), h), e.dyi) \in Rat /\ RMul(RMul(R(2), e.d2yf), RMul(h, h)) \in Rat
        /\ RMul(RMul(R(3), e.d2yi), RMul(h, h)) \in Rat
    BY <1>1, <1>2, MulType
  <2>2. QED
    BY <2>1, AddType, SubType DEF N1, (+), (-), (.)
<1>5. N2(e, h) \in Rat
  <2>1. /\ RMul(R(20), RSub(e.yi, e.yf)) \in Rat /\ RMul(RMul(R(8), h), e.dyf) \in Rat
        /\ RMul(RMul(R(12), h), e.dyi) \in Rat /\ RMul(e.d2yf, RMul(h, h)) \in Rat
        /\ RMul(RMul(R(3), e.d2yi), RMul(h, h)) \in Rat
    BY <1>1, <1>2, MulType
  <2>2. QED
    BY <2>1, AddType, SubType DEF N2, (+), (-), (.)
<1>6. QED
  BY <1>3, <1>4, <1>5

\* The polynomial of a segment has the value, velocity and acceleration asked for.
LEMMA SegmentJoins ==
  ASSUME NEW e \in Boundaries
  PROVE  LET h == Span(e)
             p == ComputeParameters(e)
             c == p.coefficients
         IN  /\ c \in [0 .. 5 -> Rat]
             /\ FirstDerivative(p) \in [0 .. 4 -> Rat] /\ SecondDerivative(p) \in [0 .. 3 -> Rat]
             /\ Value(c, h) = e.yf /\ Value(FirstDerivative(p), h) = e.dyf
             /\ Value(SecondDerivative(p), h) = e.d2yf
             /\ Value(c, Zero) = e.yi /\ Value(FirstDerivative(p), Zero) = e.dyi
             /\ Value(SecondDerivative(p), Zero) = e.d2yi
<1> DEFINE h == Span(e)
           p == ComputeParameters(e)
           c == p.coefficients
           c1 == FirstDerivative(p)
           c2 == SecondDerivative(p)
           t5 == RMul(R(2), FifthPower(h))
           t4 == RMul(R(2), FourthPower(h))
           t3 == RMul(R(2), ThirdPower(h))
           q0 == RDiv(N0(e, h), t5)
           q1 == RDiv(N1(e, h), t4)
           q2 == RDiv(N2(e, h), t3)
           a  == RDiv(e.d2yi, R(2))
<1>1. /\ h \in Rat /\ h # Zero /\ e.yi \in Rat /\ e.yf \in Rat /\ e.dyi \in Rat /\ e.dyf \in Rat
      /\ e.d2yi \in Rat /\ e.d2yf \in Rat
  BY SpanFacts
<1>2. /\ c[0] = RNeg(q0) /\ c[1] = q1 /\ c[2] = RNeg(q2) /\ c[3] = a /\ c[4] = e.dyi
      /\ c[5] = e.yi /\ c = [i \in 0 .. 5 |-> c[i]]
  BY CoefficientsAre
<1>3. t5 \in Rat \ {Zero} /\ t4 \in Rat \ {Zero} /\ t3 \in Rat \ {Zero} /\ R(2) \in Rat \ {Zero}
      /\ RMul(R(2), RMul(h, h)) \in Rat \ {Zero} /\ RMul(R(2), h) \in Rat \ {Zero}
  BY <1>1, PowersAre
<1>4. N0(e, h) \in Rat /\ N1(e, h) \in Rat /\ N2(e, h) \in Rat
  BY <1>1, NumeratorTypes
<1>5. q0 \in Rat /\ q1 \in Rat /\ q2 \in Rat /\ a \in Rat
  BY <1>1, <1>3, <1>4, DivType
<1>6. RMul(q0, t5) = N0(e, h) /\ RMul(q1, t4) = N1(e, h) /\ RMul(q2, t3) = N2(e, h) /\ RMul(a, R(2)) = e.d2yi
  BY <1>1, <1>3, <1>4, DivMul
<1>7. /\ c1 = [i \in 0 .. 4 |-> RMul(R(5 - i), c[i])] /\ c1[0] = RMul(R(5), RNeg(q0)) /\ c1[1] = RMul(R(4), q1)
      /\ c1[2] = RMul(R(3), RNeg(q2)) /\ c1[3] = RMul(R(2), a) /\ c1[4] = RMul(R(1), e.dyi)
  BY <1>2 DEF FirstDerivative, (.)
<1>8. /\ c2 = [i \in 0 .. 3 |-> c2[i]] /\ c2[0] = RMul(R(20), RNeg(q0)) /\ c2[1] = RMul(R(12), q1)
      /\ c2[2] = RMul(R(6), RNeg(q2)) /\ c2[3] = RMul(R(2), a)
  BY <1>2 DEF SecondDerivative, Poly, (.)
<1> HIDE DEF h, p, c, c1, c2, q0, q1, q2, a
<1>7a. SegmentSumsLaw(e.yi, e.yf, e.dyf, e.dyi, e.d2yf, e.d2yi, h)
  BY <1>1, SegmentSums
<1>9. c \in [0 .. 5 -> Rat]
  <2>1. RNeg(q0) \in Rat /\ RNeg(q2) \in Rat
    BY <1>5, NegType
  <2>2. \A i \in 0 .. 5 : c[i] \in Rat
    BY <1>1, <1>2, <1>5, <2>1
  <2>3. QED
    BY <1>2, <2>2
<1>10. c1 \in [0 .. 4 -> Rat]
  <2>1. \A i \in 0 .. 4 : RMul(R(5 - i), c[i]) \in Rat
    BY <1>9, RType, MulType
  <2>2. QED
    BY <1>7, <2>1
<1>11. c2 \in [0 .. 3 -> Rat]
  <2>1. R(20) \in Rat /\ R(12) \in Rat /\ R(6) \in Rat /\ RNeg(q0) \in Rat /\ RNeg(q2) \in Rat
    BY <1>5, NegType, RType
  <2>2. c2[0] \in Rat /\ c2[1] \in Rat /\ c2[2] \in Rat /\ c2[3] \in Rat
    BY <1>3, <1>5, <1>8, <2>1, MulType
  <2>3. \A i \in 0 .. 3 : c2[i] \in Rat
    BY <2>2
  <2>4. QED
    BY <1>8, <2>3
<1>12. Value(c, h) = e.yf
  <2>1. RMul(R(2), Value(c, h)) = RMul(R(2), e.yf)
    <3>1. Value(c, h) = ((((RNeg(q0) (.) h (+) q1) (.) h (+) RNeg(q2)) (.) h (+) a) (.) h (+) e.dyi) (.) h (+) e.yi
      BY <1>1, <1>2, <1>9, Value5 DEF (+), (.)
    <3>2. R(2) (.) (((((RNeg(q0) (.) h (+) q1) (.) h (+) RNeg(q2)) (.) h (+) a) (.) h (+) e.dyi) (.) h (+) e.yi)
             = (q1 (.) t4 (-) q0 (.) t5 (-) q2 (.) t3) (+) a (.) R(2) (.) (h (.) h) (+) R(2) (.) (e.dyi (.) h (+) e.yi)
      <4>1. PositionSumLaw(q0, q1, q2, a, e.dyi, e.yi, h)
        BY <1>1, <1>5, PositionSum
      <4>2. QED
        BY <4>1 DEF PositionSumLaw, (.), t5, t4, t3, FifthPower, FourthPower, ThirdPower
    <3>3. (N1(e, h) (-) N0(e, h) (-) N2(e, h)) (+) e.d2yi (.) (h (.) h) (+) R(2) (.) (e.dyi (.) h (+) e.yi) = R(2) (.) e.yf
      BY <1>7a DEF SegmentSumsLaw, N0, N1, N2
    <3>4. QED
      BY <1>6, <3>1, <3>2, <3>3 DEF (.)
  <2>2. Value(c, h) \in Rat
    BY <1>1, <1>9, ValueType
  <2>3. QED
    BY <1>1, <1>3, <2>1, <2>2, MulCancel
<1>13. Value(c1, h) = e.dyf
  <2>1. RMul(RMul(R(2), h), Value(c1, h)) = RMul(RMul(R(2), h), e.dyf)
    <3>1. Value(c1, h) = (((R(5) (.) RNeg(q0) (.) h (+) R(4) (.) q1) (.) h (+) R(3) (.) RNeg(q2)) (.) h
                          (+) R(2) (.) a) (.) h (+) R(1) (.) e.dyi
      BY <1>1, <1>7, <1>10, Value4 DEF (+), (.)
    <3>2. VelocitySumLaw(q0, q1, q2, a, e.dyi, h)
      BY <1>1, <1>5, VelocitySum
    <3>3. R(2) (.) h (.) Value(c1, h)
             = (R(4) (.) (q1 (.) t4) (-) R(5) (.) (q0 (.) t5) (-) R(3) (.) (q2 (.) t3))
               (+) R(2) (.) (a (.) R(2) (.) (h (.) h)) (+) e.dyi (.) (R(2) (.) h)
      BY <3>1, <3>2 DEF VelocitySumLaw, (.), t5, t4, t3, FifthPower, FourthPower, ThirdPower
    <3>4. (R(4) (.) N1(e, h) (-) R(5) (.) N0(e, h) (-) R(3) (.) N2(e, h))
             (+) R(2) (.) (e.d2yi (.) (h (.) h)) (+) e.dyi (.) (R(2) (.) h) = R(2) (.) h (.) e.dyf
      BY <1>7a DEF SegmentSumsLaw, N0, N1, N2
    <3>5. QED
      BY <1>6, <3>3, <3>4 DEF (.)
  <2>2. Value(c1, h) \in Rat
    BY <1>1, <1>10, ValueType
  <2>3. QED
    BY <1>1, <1>3, <2>1, <2>2, MulCancel
<1>14. Value(c2, h) = e.d2yf
  <2>1. RMul(RMul(R(2), RMul(h, h)), Value(c2, h)) = RMul(RMul(R(2), RMul(h, h)), e.d2yf)
    <3>1. Value(c2, h) = ((R(20) (.) RNeg(q0) (.) h (+) R(12) (.) q1) (.) h (+) R(6) (.) RNeg(q2)) (.) h (+) R(2) (.) a
      BY <1>1, <1>8, <1>11, Value3 DEF (+), (.)
    <3>2. AccelerationSumLaw(q0, q1, q2, a, h)
      BY <1>1, <1>5, AccelerationSum
    <3>3. R(2) (.) (h (.) h) (.) Value(c2, h)
             = (R(12) (.) (q1 (.) t4) (-) R(20) (.) (q0 (.) t5) (-) R(6) (.) (q2 (.) t3))
               (+) R(2) (.) (a (.) R(2) (.) (h (.) h))
      BY <3>1, <3>2 DEF AccelerationSumLaw, (.), t5, t4, t3, FifthPower, FourthPower, ThirdPower
    <3>4. (R(12) (.) N1(e, h) (-) R(20) (.) N0(e, h) (-) R(6) (.) N2(e, h))
             (+) R(2) (.) (e.d2yi (.) (h (.) h)) = R(2) (.) (h (.) h) (.) e.d2yf
      BY <1>7a DEF SegmentSumsLaw, N0, N1, N2
    <3>5. QED
      BY <1>6, <3>3, <3>4 DEF (.)
  <2>2. Value(c2, h) \in Rat
    BY <1>1, <1>11, ValueType
  <2>3. QED
    BY <1>1, <1>3, <2>1, <2>2, MulCancel
<1>15. Value(c, Zero) = e.yi
  BY <1>2, <1>9, ValueAtZero
<1>16. Value(c1, Zero) = e.dyi
  <2>1. RMul(R(1), e.dyi) = e.dyi
    BY <1>1, Neutral DEF One
  <2>2. QED
    BY <1>7, <1>10, <2>1, ValueAtZero
<1>17. Value(c2, Zero) = e.d2yi
  <2>1. RMul(R(2), a) = RMul(a, R(2))
    BY <1>3, <1>5, MulComm
  <2>2. QED
    BY <1>6, <1>8, <1>11, <2>1, ValueAtZero
<1>18. QED
  BY <1>9, <1>10, <1>11, <1>12, <1>13, <1>14, <1>15, <1>16, <1>17 DEF h, p, c, c1, c2

At(p, x) == <<Compute(x, p), ComputeFirstDerivative(x, p), ComputeSecondDerivative(x, p)>>

\* A segment meets its ends: Compute and its derivatives there and outside.
LEMMA SegmentMeets ==
  ASSUME NEW e \in Boundaries, NEW p, p = ComputeParameters(e)
  PROVE  /\ At(p, e.xi) = <<e.yi, e.dyi, e.d2yi>>
         /\ At(p, e.xf) = <<e.yf, e.dyf, e.d2yf>>
         /\ At(p, RSub(e.xi, One)) = <<e.yi, e.dyi, e.d2yi>>
         /\ At(p, RAdd(e.xf, One)) = <<e.yf, e.dyf, e.d2yf>>
<1>1. /\ p.xi = e.xi /\ p.xf = e.xf /\ p.yi = e.yi /\ p.yf = e.yf /\ p.dyi = e.dyi
      /\ p.dyf = e.dyf /\ p.d2yi = e.d2yi /\ p.d2yf = e.d2yf
  <2>1. p = [e EXCEPT !.coefficients = p.coefficients]
    BY CoefficientsAre
  <2>2. QED
    BY <2>1 DEF Boundaries
<1>2. e.xi \in Rat /\ e.xf \in Rat /\ RLt(e.xi, e.xf) /\ Span(e) = RSub(e.xf, e.xi)
  BY SpanFacts
<1>3. /\ Value(p.coefficients, Span(e)) = e.yf /\ Value(FirstDerivative(p), Span(e)) = e.dyf
      /\ Value(SecondDerivative(p), Span(e)) = e.d2yf
      /\ Value(p.coefficients, Zero) = e.yi /\ Value(FirstDerivative(p), Zero) = e.dyi
      /\ Value(SecondDerivative(p), Zero) = e.d2yi
  BY SegmentJoins
<1>4. /\ RSub(e.xi, One) \in Rat /\ RAdd(e.xf, One) \in Rat /\ RLt(RSub(e.xi, One), e.xi)
      /\ RLt(e.xf, RAdd(e.xf, One)) /\ RSub(e.xi, e.xi) = Zero
  BY <1>2, OneLess
<1>5. ~RLt(e.xi, e.xi) /\ ~RLt(e.xf, e.xf) /\ ~RLt(e.xf, e.xi) /\ ~RLt(RAdd(e.xf, One), e.xi)
  <2>1. ~RLt(e.xi, e.xi) /\ ~RLt(e.xf, e.xf) /\ RLeq(e.xi, e.xf) /\ RLeq(e.xf, RAdd(e.xf, One))
    BY <1>2, <1>4, Order
  <2>2. RLeq(e.xi, RAdd(e.xf, One))
    BY <1>2, <1>4, <2>1, LeqTrans
  <2>3. QED
    BY <1>2, <1>4, <2>1, <2>2, Order
<1>6. At(p, e.xi) = <<e.yi, e.dyi, e.d2yi>>
  BY <1>1, <1>2, <1>3, <1>4, <1>5
     DEF At, Compute, ComputeFirstDerivative, ComputeSecondDerivative, Between, (-)
<1>7. At(p, e.xf) = <<e.yf, e.dyf, e.d2yf>>
  BY <1>1, <1>2, <1>3, <1>4, <1>5
     DEF At, Compute, ComputeFirstDerivative, ComputeSecondDerivative, Between, (-)
<1>8. At(p, RSub(e.xi, One)) = <<e.yi, e.dyi, e.d2yi>>
  BY <1>1, <1>4 DEF At, Compute, ComputeFirstDerivative, ComputeSecondDerivative, Between
<1>9. At(p, RAdd(e.xf, One)) = <<e.yf, e.dyf, e.d2yf>>
  BY <1>1, <1>4, <1>5 DEF At, Compute, ComputeFirstDerivative, ComputeSecondDerivative, Between
<1>10. QED
  BY <1>6, <1>7, <1>8, <1>9

-----------------------------------------------------------------------------
(* Paths of poses                                                           *)

\* The denominator is the least one.
LEMMA LeastDenominator ==
  ASSUME NEW x \in Rat, NEW n \in Int, NEW d \in Nat \ {0}, Is(x, n, d)
  PROVE  x[2] <= d
<1>1. x[1] \in Int /\ x[2] \in Nat \ {0} /\ x[1] * d = n * x[2]
  BY RatType DEF Is
<1>2. PICK u \in Int, v \in Int : u * x[1] + v * x[2] = 1
  BY Coprime
<1> DEFINE k == u * n + v * d
<1>3. (u * x[1] + v * x[2]) * d = u * (x[1] * d) + (v * d) * x[2]
  BY <1>1
<1>4. u * (n * x[2]) + (v * d) * x[2] = k * x[2]
  BY <1>1
<1>5. d = k * x[2] /\ k \in Int
  BY <1>1, <1>2, <1>3, <1>4
<1> HIDE DEF k
<1>6. k >= 1
  BY <1>1, <1>5
<1>7. (k - 1) * x[2] >= 0
  BY <1>1, <1>5, <1>6
<1>8. QED
  BY <1>1, <1>5, <1>7

\* Turns removes whole turns.
LEMMA TurnsFacts ==
  ASSUME NEW x \in Rat
  PROVE  /\ Turns(x) \in Rat /\ RLeq(Zero, Turns(x)) /\ RLt(Turns(x), R(4))
         /\ \E k \in Int : Turns(x) = RAdd(x, R(4 * k))
<1>1. x[1] \in Int /\ x[2] \in Nat \ {0} /\ Is(x, x[1], x[2])
  BY RatType
<1> DEFINE d == x[2]
           n == x[1]
           r == n % (4 * d)
           k == -(n \div (4 * d))
           y == RAdd(x, R(4 * k))
<1>2. n \in Int /\ d \in Nat \ {0} /\ d \in Int \ {0} /\ Is(x, n, d) /\ Turns(x) = <<r, d>>
  BY <1>1 DEF Turns
<1> HIDE DEF n, d
<1>3. k \in Int /\ r \in Int /\ 0 <= r /\ r < 4 * d /\ r = n + (4 * d) * k
  BY <1>2
<1> HIDE DEF k, r
<1>4. 4 * k \in Int /\ R(4 * k) \in Rat /\ Is(R(4 * k), 4 * k, 1) /\ 1 \in Int \ {0}
  BY <1>3, RType
<1>5. y \in Rat /\ Is(y, n * 1 + (4 * k) * d, d * 1)
  BY <1>2, <1>4, IsAdd, AddType
<1>6. n * 1 + (4 * k) * d = r /\ d * 1 = d
  BY <1>2, <1>3
<1>7. Is(y, r, d)
  BY <1>5, <1>6
<1>8. y[2] <= d /\ y[1] \in Int /\ y[2] \in Nat \ {0} /\ Is(y, y[1], y[2])
  BY <1>2, <1>3, <1>5, <1>7, LeastDenominator, RatType
<1> HIDE DEF y
<1>9. d <= y[2]
  <2>1. x = RAdd(y, R(4 * (-k)))
    <3>1. R(4 * (-k)) = RNeg(R(4 * k))
      BY <1>3 DEF R, RNeg
    <3>2. RAdd(RAdd(x, R(4 * k)), RNeg(R(4 * k))) = RAdd(x, RAdd(R(4 * k), RNeg(R(4 * k))))
      BY <1>4, NegType, AddAssoc
    <3>3. QED
      BY <1>4, <3>1, <3>2, Neutral DEF y
  <2>2. 4 * (-k) \in Int /\ Is(R(4 * (-k)), 4 * (-k), 1) /\ 1 \in Int \ {0}
    BY <1>3, RType
  <2>3. Is(x, y[1] * 1 + (4 * (-k)) * y[2], y[2] * 1)
    BY <1>8, <2>1, <2>2, IsAdd
  <2>4. y[1] * 1 + (4 * (-k)) * y[2] \in Int /\ y[2] * 1 = y[2]
    BY <1>3, <1>8
  <2>5. x[2] <= y[2]
    BY <1>8, <2>3, <2>4, LeastDenominator
  <2>6. QED
    BY <2>5 DEF d
<1>10. y[2] = d
  BY <1>2, <1>8, <1>9
<1>11. y[1] = r
  <2>1. y[1] * d = r * d
    BY <1>7, <1>10 DEF Is
  <2>2. QED
    BY <1>2, <1>3, <1>8, <2>1, Cancel
<1>12. y = Turns(x)
  BY <1>2, <1>5, <1>10, <1>11, RatType
<1>13. RLeq(Zero, y)
  BY <1>3, <1>5, <1>11, Order
<1>14. RLt(y, R(4))
  <2>1. y[1] * 1 < 4 * y[2]
    BY <1>2, <1>3, <1>10, <1>11
  <2>2. QED
    BY <2>1 DEF RLt, R
<1>15. QED
  BY <1>3, <1>5, <1>12, <1>13, <1>14 DEF y

\* An orientation has no whole turns, and one that differs from it by whole turns is the same.
LEMMA TurnsOf ==
  ASSUME NEW x \in Rat, RLeq(Zero, x), RLt(x, R(4)), NEW k \in Int
  PROVE  Turns(RAdd(x, R(4 * k))) = x
<1> DEFINE y == RAdd(x, R(4 * k))
           z == Turns(y)
<1>1. R(4 * k) \in Rat /\ Is(R(4 * k), 4 * k, 1) /\ 4 * k \in Int /\ 1 \in Int \ {0}
  BY RType
<1>2. y \in Rat
  BY <1>1, AddType
<1>3. z \in Rat /\ RLeq(Zero, z) /\ RLt(z, R(4)) /\ \E l \in Int : z = RAdd(y, R(4 * l))
  BY <1>2, TurnsFacts
<1> HIDE DEF z, y
<1>4. PICK l \in Int : z = RAdd(y, R(4 * l))
  BY <1>3
<1>5. x[1] \in Int /\ x[2] \in Nat \ {0} /\ Is(x, x[1], x[2]) /\ z[1] \in Int /\ z[2] \in Nat \ {0}
  BY <1>3, RatType
<1>6. R(4 * l) \in Rat /\ Is(R(4 * l), 4 * l, 1) /\ 4 * l \in Int
  BY RType
<1>7. Is(y, x[1] * 1 + (4 * k) * x[2], x[2] * 1)
  BY <1>1, <1>5, IsAdd DEF y
<1>8. x[1] * 1 + (4 * k) * x[2] \in Int /\ x[2] * 1 \in Int \ {0}
  BY <1>5
<1>9. Is(z, (x[1] * 1 + (4 * k) * x[2]) * 1 + (4 * l) * (x[2] * 1), (x[2] * 1) * 1)
  BY <1>1, <1>4, <1>6, <1>7, <1>8, IsAdd
<1>10. (x[1] * 1 + (4 * k) * x[2]) * 1 + (4 * l) * (x[2] * 1) = x[1] + (4 * (k + l)) * x[2]
       /\ (x[2] * 1) * 1 = x[2]
  BY <1>5
<1>11. z[1] * x[2] = (x[1] + (4 * (k + l)) * x[2]) * z[2]
  BY <1>9, <1>10 DEF Is
<1>12. 0 <= x[1] /\ x[1] < 4 * x[2] /\ 0 <= z[1] /\ z[1] < 4 * z[2]
  <2>1. RLt(x, R(4)) /\ RLt(z, R(4)) /\ x[1] >= 0 /\ z[1] >= 0
    BY <1>3, Order
  <2>2. QED
    BY <1>5, <2>1 DEF RLt, R
<1> DEFINE i == k + l
<1>13. i \in Int /\ z[1] * x[2] = (x[1] + (4 * i) * x[2]) * z[2]
  BY <1>11
<1>14. i = 0
  <2> HIDE DEF i
  <2> DEFINE p == x[2] * z[2]
  <2>1. p \in Nat \ {0} /\ 0 <= x[1] * z[2] /\ x[1] * z[2] < 4 * p /\ 0 <= z[1] * x[2] /\ z[1] * x[2] < 4 * p
    <3>1. (x[1] + 1) * z[2] <= (4 * x[2]) * z[2] /\ (z[1] + 1) * x[2] <= (4 * z[2]) * x[2]
      <4>1. x[1] + 1 <= 4 * x[2] /\ z[1] + 1 <= 4 * z[2] /\ x[1] + 1 \in Int /\ 4 * x[2] \in Int
            /\ z[1] + 1 \in Int /\ 4 * z[2] \in Int
        BY <1>5, <1>12
      <4>2. QED
        BY <1>5, <4>1, LeqScale
    <3>2. QED
      BY <1>5, <1>12, <3>1
  <2>2. (x[1] + (4 * i) * x[2]) * z[2] = x[1] * z[2] + (4 * i) * p
    BY <1>5, <1>13
  <2> HIDE DEF p
  <2>3. x[1] * z[2] \in Int /\ z[1] * x[2] \in Int /\ z[1] * x[2] - x[1] * z[2] = (4 * i) * p
    BY <1>5, <1>13, <2>2, <2>1
  <2>4. ~(i >= 1)
    <3>1. i >= 1 => (4 * i) * p >= 4 * p
      BY <1>13, <2>1
    <3>2. QED
      BY <2>1, <2>3, <3>1
  <2>5. ~(i <= -1)
    <3>1. i <= -1 => (4 * i) * p <= -(4 * p)
      BY <1>13, <2>1
    <3>2. QED
      BY <2>1, <2>3, <3>1
  <2>6. QED
    BY <1>13, <2>4, <2>5
<1>15. z[1] * x[2] = x[1] * z[2]
  BY <1>5, <1>13, <1>14
<1>16. z = x
  BY <1>3, <1>15, SameValue
<1>17. QED
  BY <1>16 DEF z, y

\* A rotation is at most half a turn.
IsRotation(r) == r \in Rat /\ RLt(R(-2), r) /\ RLeq(r, R(2))

\* Sums with whole turns.
LEMMA WholeTurns ==
  ASSUME NEW x \in Rat, NEW l \in Int, NEW k \in Int
  PROVE  /\ R(4 * l) \in Rat
         /\ RAdd(RAdd(x, R(4 * l)), R(4 * k)) = RAdd(x, R(4 * (l + k)))
         /\ RSub(x, R(4)) = RAdd(x, R(4 * (-1)))
         /\ RAdd(x, R(4 * 0)) = x
<1>1. 4 * l \in Int /\ 4 * k \in Int /\ 4 * (l + k) \in Int /\ 1 \in Int \ {0} /\ 4 * (-1) = -4
  OBVIOUS
<1>2. R(4 * l) \in Rat /\ R(4 * k) \in Rat /\ R(4 * (l + k)) \in Rat /\ R(4) \in Rat
      /\ Is(R(4 * l), 4 * l, 1) /\ Is(R(4 * k), 4 * k, 1) /\ Is(R(4 * (l + k)), 4 * (l + k), 1)
  BY <1>1, RType
<1>3. Is(RAdd(R(4 * l), R(4 * k)), 4 * l + 4 * k, 1)
  BY <1>1, <1>2, IsPlus
<1>4. 4 * l + 4 * k = 4 * (l + k)
  OBVIOUS
<1>5. RAdd(R(4 * l), R(4 * k)) = R(4 * (l + k))
  BY <1>1, <1>2, <1>3, <1>4, IsEqual
<1>6. RNeg(R(4)) = R(4 * (-1))
  BY <1>1 DEF R, RNeg
<1>7. R(4 * 0) = Zero
  BY DEF Zero
<1>8. QED
  BY <1>2, <1>5, <1>6, <1>7, AddAssoc, Neutral DEF RSub

\* The short way round: the difference of the orientations up to whole turns.
LEMMA AngularErrorFacts ==
  ASSUME NEW from \in Rat, NEW to \in Rat
  PROVE  /\ IsRotation(AngularError(from, to))
         /\ \E k \in Int : AngularError(from, to) = RAdd(RSub(to, from), R(4 * k))
<1> DEFINE x == RSub(to, from)
           d == Turns(x)
<1>1. x \in Rat /\ d \in Rat /\ RLeq(Zero, d) /\ RLt(d, R(4))
  BY SubType, TurnsFacts
<1>2. PICK k \in Int : d = RAdd(x, R(4 * k))
  BY <1>1, TurnsFacts
<1>3. AngularError(from, to) = IF RLt(R(2), d) THEN RSub(d, R(4)) ELSE d
  BY DEF AngularError, (-)
<1> HIDE DEF x, d
<1>4. R(2) \in Rat /\ R(-2) \in Rat /\ R(4) \in Rat
  BY RType
<1>5. d[1] \in Int /\ d[2] \in Nat \ {0} /\ d[2] \in Int \ {0} /\ Is(d, d[1], d[2])
      /\ d[1] >= 0 /\ d[1] < 4 * d[2]
  <2>1. d[1] \in Int /\ d[2] \in Nat \ {0} /\ d[2] \in Int \ {0} /\ Is(d, d[1], d[2]) /\ d[1] >= 0
    BY <1>1, RatType, Order
  <2>2. d[1] * 1 < 4 * d[2]
    BY <1>1 DEF RLt, R
  <2>3. QED
    BY <2>1, <2>2
<1>6. CASE RLt(R(2), d)
  <2> DEFINE a == RSub(d, R(4))
  <2>1. 2 * d[2] < d[1]
    <3>1. 2 * d[2] < d[1] * 1
      BY <1>6 DEF RLt, R
    <3>2. QED
      BY <1>5, <3>1
  <2>2. a \in Rat /\ Is(a, d[1] - 4 * d[2], d[2])
    <3>1. IsOver(R(4), 4 * d[2], d[2])
      <4>1. 4 \in Int /\ d[2] \in Int \ {0}
        BY <1>5
      <4>2. QED
        BY <4>1, OverConstant, Zenon
    <3>2. IsOver(d, d[1], d[2])
      BY <1>5 DEF IsOver
    <3>3. IsOver(a, d[1] - 4 * d[2], d[2])
      BY <3>1, <3>2, OverMinus
    <3>4. QED
      BY <1>1, <1>4, <3>3, SubType DEF IsOver
  <2>3. a = AngularError(from, to)
    BY <1>3, <1>6
  <2> HIDE DEF a
  <2>4. d[1] - 4 * d[2] \in Int /\ Is(R(2), 2, 1) /\ Is(R(-2), -2, 1)
        /\ 1 \in Nat \ {0} /\ 2 \in Int /\ -2 \in Int
    BY <1>5, RType
  <2>5. RLeq(a, R(2)) <=> (d[1] - 4 * d[2]) * 1 <= 2 * d[2]
    BY <1>5, <2>2, <2>4, LeqIs
  <2>6. RLeq(a, R(-2)) <=> (d[1] - 4 * d[2]) * 1 <= (-2) * d[2]
    BY <1>5, <2>2, <2>4, LeqIs
  <2>7. RLeq(a, R(2)) /\ ~RLeq(a, R(-2))
    BY <1>5, <2>1, <2>5, <2>6
  <2>8. a = RAdd(x, R(4 * (k + (-1))))
    <3>1. -1 \in Int
      OBVIOUS
    <3>2. RAdd(RAdd(x, R(4 * k)), R(4 * (-1))) = RAdd(x, R(4 * (k + (-1))))
      BY <1>1, <3>1, WholeTurns
    <3>3. RSub(d, R(4)) = RAdd(d, R(4 * (-1)))
      BY <1>1, <3>1, WholeTurns
    <3>4. QED
      BY <1>2, <3>2, <3>3 DEF a
  <2>9. RLt(R(-2), a) /\ k + (-1) \in Int
    BY <1>4, <2>2, <2>7, Order
  <2>10. IsRotation(AngularError(from, to))
    BY <2>2, <2>3, <2>7, <2>9 DEF IsRotation
  <2>11. QED
    BY <2>3, <2>8, <2>9, <2>10 DEF x
<1>7. CASE ~RLt(R(2), d)
  <2>1. RLeq(d, R(2))
    BY <1>1, <1>4, <1>7, Order
  <2>2. RLt(R(-2), d)
    <3>1. (-2) * d[2] < d[1] * 1
      BY <1>5
    <3>2. QED
      BY <3>1 DEF RLt, R
  <2>3. QED
    BY <1>1, <1>2, <1>3, <1>7, <2>1, <2>2 DEF IsRotation, x
<1>8. QED
  BY <1>6, <1>7

\* A rotation is recovered from the orientations before and after it.
LEMMA RotationOfIntegrate ==
  ASSUME NEW t \in Orientations, NEW r, IsRotation(r)
  PROVE  AngularError(t, Integrate(t, r)) = r
<1>1. t \in Rat /\ r \in Rat /\ RLt(R(-2), r) /\ RLeq(r, R(2))
  BY DEF Orientations, IsRotation
<1> DEFINE i == Integrate(t, r)
<1>2. i \in Rat /\ RSub(i, t) \in Rat /\ \E k \in Int : i = RAdd(RAdd(t, r), R(4 * k))
  BY <1>1, AddType, TurnsFacts, SubType DEF Integrate, (+)
<1>3. PICK k \in Int : i = RAdd(RAdd(t, r), R(4 * k))
  BY <1>2
<1> HIDE DEF i
<1>4. RSub(i, t) = RAdd(r, R(4 * k))
  <2>1. R(4 * k) \in Rat
    BY WholeTurns, <1>1
  <2>2. RAdd(RAdd(t, r), R(4 * k)) = RAdd(t, RAdd(r, R(4 * k))) /\ RAdd(r, R(4 * k)) \in Rat
    BY <1>1, <2>1, AddAssoc, AddType
  <2>3. RNeg(t) \in Rat /\ RAdd(t, RNeg(t)) = Zero
    BY <1>1, NegType, Neutral
  <2>4. ASSUME NEW y \in Rat PROVE RAdd(RAdd(t, y), RNeg(t)) = y
    <3>1. RAdd(RAdd(y, t), RNeg(t)) = RAdd(y, RAdd(t, RNeg(t)))
      BY <1>1, <2>3, AddAssoc
    <3>2. QED
      BY <1>1, <2>3, <3>1, AddComm, Neutral
  <2>5. QED
    BY <1>3, <2>2, <2>4 DEF RSub
<1>5. R(2) \in Rat /\ R(-2) \in Rat /\ R(4) \in Rat /\ Zero \in Rat
  BY RType, ZeroOne
<1>6. r[1] \in Int /\ r[2] \in Nat \ {0} /\ r[2] \in Int \ {0} /\ Is(r, r[1], r[2])
      /\ r[1] <= 2 * r[2] /\ (-2) * r[2] < r[1]
  <2>1. r[1] \in Int /\ r[2] \in Nat \ {0} /\ r[2] \in Int \ {0} /\ Is(r, r[1], r[2])
    BY <1>1, RatType
  <2>2. (-2) * r[2] < r[1] * 1 /\ r[1] * 1 <= 2 * r[2]
    BY <1>1 DEF RLt, RLeq, R
  <2>3. QED
    BY <2>1, <2>2
<1>7. AngularError(t, i) = LET d == Turns(RAdd(r, R(4 * k))) IN IF RLt(R(2), d) THEN RSub(d, R(4)) ELSE d
  BY <1>4 DEF AngularError, (-)
<1>8. CASE RLeq(Zero, r)
  <2>1. RLt(r, R(4))
    <3>1. r[1] * 1 < 4 * r[2]
      BY <1>6
    <3>2. QED
      BY <3>1 DEF RLt, R
  <2>2. Turns(RAdd(r, R(4 * k))) = r
    BY <1>1, <1>8, <2>1, TurnsOf
  <2>3. ~RLt(R(2), r)
    BY <1>1, <1>5, Order
  <2>4. QED
    BY <1>7, <2>2, <2>3 DEF i
<1>9. CASE ~RLeq(Zero, r)
  <2> DEFINE y == RAdd(r, R(4 * 1))
  <2>1. 4 * 1 = 4 /\ k - 1 \in Int /\ 1 + (k - 1) = k /\ 1 \in Int /\ -1 \in Int /\ 1 + (-1) = 0
    OBVIOUS
  <2>2. y = RAdd(r, R(4))
    BY <2>1
  <2>3. Is(y, r[1] + 4 * r[2], r[2]) /\ y \in Rat
    <3>1. IsOver(R(4), 4 * r[2], r[2])
      <4>1. 4 \in Int /\ r[2] \in Int \ {0}
        BY <1>6
      <4>2. QED
        BY <4>1, OverConstant, Zenon
    <3>2. IsOver(r, r[1], r[2])
      BY <1>6 DEF IsOver
    <3>3. IsOver(RAdd(r, R(4)), r[1] + 4 * r[2], r[2])
      BY <3>1, <3>2, OverPlus, Zenon
    <3>4. Is(y, r[1] + 4 * r[2], r[2])
      BY <2>2, <3>3 DEF IsOver
    <3>5. QED
      BY <1>1, <1>5, <2>2, <3>4, AddType
  <2>4. r[1] < 0
    <3>1. ~(r[1] >= 0)
      BY <1>1, <1>9, Order
    <3>2. QED
      BY <1>6, <3>1
  <2>5. r[1] + 4 * r[2] \in Int /\ Is(R(2), 2, 1) /\ Is(R(4), 4, 1) /\ Is(Zero, 0, 1)
        /\ 1 \in Nat \ {0} /\ 2 \in Int /\ 4 \in Int /\ 0 \in Int
    BY <1>6, RType, ZeroOne
  <2>6. RLeq(Zero, y) <=> 0 * r[2] <= (r[1] + 4 * r[2]) * 1
    BY <1>6, <2>3, <2>5, LeqIs
  <2>7. RLeq(R(4), y) <=> 4 * r[2] <= (r[1] + 4 * r[2]) * 1
    BY <1>6, <2>3, <2>5, LeqIs
  <2>8. RLeq(y, R(2)) <=> (r[1] + 4 * r[2]) * 1 <= 2 * r[2]
    BY <1>6, <2>3, <2>5, LeqIs
  <2>9. RLeq(Zero, y) /\ ~RLeq(R(4), y) /\ ~RLeq(y, R(2))
    BY <1>6, <2>4, <2>6, <2>7, <2>8
  <2>10. RLt(y, R(4)) /\ RLt(R(2), y)
    BY <1>5, <2>3, <2>9, Order
  <2>11. RAdd(r, R(4 * k)) = RAdd(y, R(4 * (k - 1)))
    <3>1. RAdd(RAdd(r, R(4 * 1)), R(4 * (k - 1))) = RAdd(r, R(4 * (1 + (k - 1))))
      BY <1>1, <2>1, WholeTurns, Zenon
    <3>2. QED
      BY <2>1, <3>1
  <2>12. RSub(y, R(4)) = r
    <3>1. RSub(y, R(4)) = RAdd(y, R(4 * (-1)))
      BY <2>1, <2>3, WholeTurns
    <3>2. RAdd(y, R(4 * (-1))) = RAdd(r, R(4 * (1 + (-1))))
      BY <1>1, <2>1, WholeTurns
    <3>3. QED
      BY <1>1, <2>1, <3>1, <3>2, WholeTurns
  <2> HIDE DEF y
  <2>13. Turns(RAdd(y, R(4 * (k - 1)))) = y
    BY <2>1, <2>3, <2>9, <2>10, TurnsOf
  <2>14. QED
    BY <1>7, <2>10, <2>11, <2>12, <2>13 DEF i
<1>10. QED
  BY <1>8, <1>9

\* The rotation between two orientations leads from the one to the other.
LEMMA IntegrateOfRotation ==
  ASSUME NEW t \in Orientations, NEW w \in Orientations
  PROVE  Integrate(t, AngularError(t, w)) = w
<1>1. t \in Rat /\ w \in Rat /\ RLeq(Zero, w) /\ RLt(w, R(4))
  BY DEF Orientations
<1>2. PICK k \in Int : AngularError(t, w) = RAdd(RSub(w, t), R(4 * k))
  BY <1>1, AngularErrorFacts
<1>3. RSub(w, t) \in Rat /\ RAdd(t, RSub(w, t)) = w /\ R(4 * k) \in Rat
  BY <1>1, Difference, WholeTurns
<1>4. RAdd(t, RAdd(RSub(w, t), R(4 * k))) = RAdd(w, R(4 * k))
  BY <1>1, <1>3, AddAssoc
<1>5. QED
  BY <1>1, <1>2, <1>4, TurnsOf DEF Integrate, (+)

\* No rotation keeps an orientation.
LEMMA IntegrateZero ==
  ASSUME NEW t \in Orientations
  PROVE  Integrate(t, Zero) = t
<1>1. t \in Rat /\ RLeq(Zero, t) /\ RLt(t, R(4)) /\ 0 \in Int
  BY DEF Orientations
<1>2. RAdd(t, Zero) = RAdd(t, R(4 * 0))
  BY <1>1, WholeTurns, Neutral
<1>3. QED
  BY <1>1, <1>2, TurnsOf DEF Integrate, (+)

Unit(from, to) ==
    [xi |-> Zero, xf |-> One, yi |-> from, yf |-> to, dyi |-> Zero, dyf |-> Zero,
     d2yi |-> Zero, d2yf |-> Zero, coefficients |-> Constant(Zero)]

\* The segment between two poses lasts one unit and joins the places.
LEMMA UnitFacts ==
  ASSUME NEW from \in Rat, NEW to \in Rat
  PROVE  /\ Unit(from, to) \in Boundaries /\ Span(Unit(from, to)) = One
         /\ \A x : Join(from, to, x) = Compute(x, ComputeParameters(Unit(from, to)))
<1>1. Zero \in Rat /\ One \in Rat /\ RLt(Zero, One)
  <2>1. 0 * 1 < 1 * 1
    OBVIOUS
  <2>2. QED
    BY <2>1, ZeroOne DEF RLt
<1>2. Unit(from, to) \in Boundaries
  <2>1. Unit(from, to) \in [xi : Rat, xf : Rat, yi : Rat, yf : Rat, dyi : Rat, dyf : Rat, d2yi : Rat,
                            d2yf : Rat, coefficients : {Constant(Zero)}]
    BY <1>1 DEF Unit
  <2>2. Unit(from, to).xi = Zero /\ Unit(from, to).xf = One
    BY DEF Unit
  <2>3. QED
    BY <1>1, <2>1, <2>2 DEF Boundaries
<1>3. RSub(One, Zero) = One
  <2>1. RNeg(Zero) = Zero
    BY NegZero
  <2>2. QED
    BY <1>1, <2>1, Neutral DEF RSub
<1>4. Span(Unit(from, to)) = One
  BY <1>3 DEF Span, Unit, (-)
<1>5. ASSUME NEW x PROVE Join(from, to, x) = Compute(x, ComputeParameters(Unit(from, to)))
  BY DEF Join, Unit
<1>6. QED
  BY <1>2, <1>4, <1>5

\* One step of the evaluation in the middle.
LEMMA HalfStep ==
  ASSUME NEW s, NEW n, NEW d, IsOver(s, n, d), NEW c, NEW m, IsOver(c, m, d)
  PROVE  IsOver(RAdd(RMul(s, Frac(1, 2)), c), n + 2 * m, 2 * d)
<1>1. n \in Int /\ d \in Int \ {0} /\ m \in Int /\ 2 \in Int \ {0} /\ 1 \in Int
  BY DEF IsOver
<1>2. IsOver(Frac(1, 2), 1, 2)
  BY <1>1, FracFacts DEF IsOver
<1>3. d * 2 = 2 * d /\ n * 1 = n /\ m * 2 = 2 * m
  BY <1>1
<1>4. IsOver(RMul(s, Frac(1, 2)), n * 1, d * 2)
  BY <1>2, OverMul
<1>5. IsOver(c, m * 2, d * 2)
  BY <1>1, OverPad
<1>6. IsOver(RAdd(RMul(s, Frac(1, 2)), c), n * 1 + m * 2, d * 2)
  BY <1>4, <1>5, OverPlus
<1>7. QED
  BY <1>3, <1>6

\* The middle of a joint between points at rest.
LEMMA UnitCoefficients ==
  ASSUME NEW from \in Rat, NEW to \in Rat, NEW n, NEW m, NEW d, IsOver(from, n, d), IsOver(to, m, d)
  PROVE  LET c == ComputeParameters(Unit(from, to)).coefficients
         IN  /\ c \in [0 .. 5 -> Rat]
             /\ IsOver(c[0], 6 * (m - n), d) /\ IsOver(c[1], (-15) * (m - n), d)
             /\ IsOver(c[2], 10 * (m - n), d) /\ IsOver(c[3], 0, d) /\ IsOver(c[4], 0, d) /\ IsOver(c[5], n, d)
<1> DEFINE e == Unit(from, to)
           c == ComputeParameters(e).coefficients
<1>1. e \in Boundaries /\ Span(e) = One
  BY UnitFacts
<1>2. c \in [0 .. 5 -> Rat]
  BY <1>1, SegmentJoins
<1>3. /\ c[0] = RNeg(RDiv(N0(e, One), RMul(R(2), FifthPower(One))))
      /\ c[1] = RDiv(N1(e, One), RMul(R(2), FourthPower(One)))
      /\ c[2] = RNeg(RDiv(N2(e, One), RMul(R(2), ThirdPower(One))))
      /\ c[3] = RDiv(Zero, R(2)) /\ c[4] = Zero /\ c[5] = from
  <2>1. e.d2yi = Zero /\ e.dyi = Zero /\ e.yi = from
    BY DEF Unit
  <2>2. QED
    BY <1>1, <2>1, CoefficientsAre
<1>4. Zero \in Rat /\ One \in Rat /\ R(2) \in Rat /\ R(2) # Zero /\ 2 \in Int \ {0} /\ 1 \in Int \ {0}
  BY ZeroOne, RType DEF R, Zero
<1>5. RMul(One, One) = One /\ RMul(R(2), One) = R(2)
  BY <1>4, Neutral
<1>6. FifthPower(One) = One /\ FourthPower(One) = One /\ ThirdPower(One) = One
  BY <1>5 DEF FifthPower, FourthPower, ThirdPower
<1> DEFINE dy == RSub(from, to)
<1>7. dy \in Rat /\ IsOver(dy, n - m, d) /\ n \in Int /\ m \in Int /\ d \in Int \ {0}
  BY OverMinus, SubType DEF IsOver
<1>8. N0(e, One) = RMul(R(12), dy) /\ N1(e, One) = RMul(R(30), dy) /\ N2(e, One) = RMul(R(20), dy)
  <2>1. e.yi = from /\ e.yf = to /\ e.dyf = Zero /\ e.dyi = Zero /\ e.d2yi = Zero /\ e.d2yf = Zero
    BY DEF Unit
  <2>2. R(6) \in Rat /\ R(8) \in Rat /\ R(12) \in Rat /\ R(14) \in Rat /\ R(16) \in Rat /\ R(3) \in Rat
        /\ R(30) \in Rat /\ R(20) \in Rat
    BY RType
  <2>3. /\ RMul(R(12), dy) \in Rat /\ RMul(R(30), dy) \in Rat /\ RMul(R(20), dy) \in Rat
        /\ \A x \in Rat : RMul(x, Zero) = Zero /\ RMul(Zero, x) = Zero /\ RAdd(x, Zero) = x /\ RMul(x, One) = x
        /\ \A x \in Rat : RSub(x, Zero) = x
    <3>1. RNeg(Zero) = Zero
      BY NegZero
    <3>2. QED
      BY <1>7, <2>2, <3>1, MulType, Neutral DEF RSub
  <2> HIDE DEF e, dy
  <2>4. RSub(e.yi, e.yf) = dy
    BY <2>1 DEF dy
  <2>5. QED
    BY <1>4, <2>1, <2>2, <2>3, <2>4 DEF N0, N1, N2, (+), (-), (.)
<1> HIDE DEF dy, e, c
<1>9. ASSUME NEW k \in Int
      PROVE  IsOver(RDiv(RMul(R(2 * k), dy), R(2)), k * (n - m), d)
  <2>1. R(k) \in Rat /\ R(2 * k) \in Rat /\ RMul(R(2 * k), dy) \in Rat /\ RMul(R(k), dy) \in Rat
    BY <1>7, RType, MulType
  <2>2. RMul(R(2), RMul(R(k), dy)) = RMul(R(2 * k), dy)
    <3>1. IsOver(RMul(R(k), dy), k * (n - m), d)
      BY <1>7, OverTimes
    <3>2. IsOver(RMul(R(2), RMul(R(k), dy)), 2 * (k * (n - m)), d)
      BY <1>4, <3>1, OverTimes
    <3>3. IsOver(RMul(R(2 * k), dy), (2 * k) * (n - m), d)
      <4>1. 2 * k \in Int
        OBVIOUS
      <4>2. QED
        BY <1>7, <4>1, OverTimes, Zenon
    <3>4. 2 * (k * (n - m)) = (2 * k) * (n - m)
      BY <1>7
    <3>5. QED
      BY <3>2, <3>3, <3>4, OverEqual
  <2> DEFINE q == RDiv(RMul(R(2 * k), dy), R(2))
  <2>3. q \in Rat /\ RMul(q, R(2)) = RMul(R(2 * k), dy)
    BY <1>4, <2>1, DivType, DivMul
  <2> HIDE DEF q
  <2>4. RMul(R(2), q) = RMul(R(2), RMul(R(k), dy))
    BY <1>4, <2>2, <2>3, MulComm
  <2>5. q = RMul(R(k), dy)
    BY <1>4, <2>1, <2>3, <2>4, MulCancel
  <2>6. QED
    BY <1>7, <2>5, OverTimes DEF q
<1>10. /\ IsOver(RDiv(RMul(R(12), dy), R(2)), 6 * (n - m), d)
       /\ IsOver(RDiv(RMul(R(30), dy), R(2)), 15 * (n - m), d)
       /\ IsOver(RDiv(RMul(R(20), dy), R(2)), 10 * (n - m), d)
  <2>1. IsOver(RDiv(RMul(R(2 * 6), dy), R(2)), 6 * (n - m), d)
    BY <1>9
  <2>2. IsOver(RDiv(RMul(R(2 * 15), dy), R(2)), 15 * (n - m), d)
    BY <1>9
  <2>3. IsOver(RDiv(RMul(R(2 * 10), dy), R(2)), 10 * (n - m), d)
    BY <1>9
  <2>4. 2 * 6 = 12 /\ 2 * 15 = 30 /\ 2 * 10 = 20
    OBVIOUS
  <2>5. QED
    BY <2>1, <2>2, <2>3, <2>4
<1>11. IsOver(c[0], -(6 * (n - m)), d) /\ IsOver(c[2], -(10 * (n - m)), d) /\ IsOver(c[1], 15 * (n - m), d)
  BY <1>3, <1>5, <1>6, <1>8, <1>10, OverNeg
<1>12. IsOver(Zero, 0, d)
  BY <1>7, OverZeroOne
<1>13. c[3] = Zero
  <2>1. RMul(R(2), c[3]) = RMul(R(2), Zero) /\ c[3] \in Rat
    <3>1. c[3] \in Rat /\ RMul(c[3], R(2)) = Zero
      BY <1>2, <1>3, <1>4, DivMul
    <3>2. QED
      BY <1>4, <3>1, MulComm, Neutral
  <2>2. QED
    BY <1>4, <2>1, MulCancel
<1>14. -(6 * (n - m)) = 6 * (m - n) /\ -(10 * (n - m)) = 10 * (m - n) /\ 15 * (n - m) = (-15) * (m - n)
  BY <1>7
<1>15. QED
  BY <1>2, <1>3, <1>11, <1>12, <1>13, <1>14 DEF c, e

\* It starts and ends at the places, and is half way in the middle.
LEMMA JoinFacts ==
  ASSUME NEW from \in Rat, NEW to \in Rat
  PROVE  /\ Join(from, to, Zero) = from /\ Join(from, to, One) = to
         /\ Join(from, to, Frac(1, 2)) \in Rat
         /\ RMul(R(2), Join(from, to, Frac(1, 2))) = RAdd(from, to)
<1> DEFINE e == Unit(from, to)
           p == ComputeParameters(e)
           c == p.coefficients
           H == Frac(1, 2)
<1>1. e \in Boundaries /\ Span(e) = One /\ \A x : Join(from, to, x) = Compute(x, p)
  BY UnitFacts
<1>2. At(p, Zero)[1] = from /\ At(p, One)[1] = to
  <2>1. e.xi = Zero /\ e.xf = One /\ e.yi = from /\ e.yf = to
    BY DEF Unit
  <2>2. At(p, e.xi) = <<e.yi, e.dyi, e.d2yi>> /\ At(p, e.xf) = <<e.yf, e.dyf, e.d2yf>>
    BY <1>1, SegmentMeets
  <2>3. QED
    BY <2>1, <2>2
<1>3. Join(from, to, Zero) = from /\ Join(from, to, One) = to
  BY <1>1, <1>2 DEF At
<1>4. c \in [0 .. 5 -> Rat] /\ p.xi = Zero /\ p.xf = One
  <2>1. p = [e EXCEPT !.coefficients = c] /\ e.xi = Zero /\ e.xf = One
    BY <1>1, CoefficientsAre DEF Unit
  <2>2. e \in [xi : Rat, xf : Rat, yi : Rat, yf : Rat, dyi : Rat, dyf : Rat, d2yi : Rat, d2yf : Rat,
               coefficients : {Constant(Zero)}]
    BY <1>1 DEF Boundaries
  <2>3. c \in [0 .. 5 -> Rat]
    BY <1>1, SegmentJoins
  <2> HIDE DEF e, p
  <2>4. QED
    BY <2>1, <2>2, <2>3
<1>5. H \in Rat /\ Is(H, 1, 2)
  BY FracFacts DEF Is
<1>6. RLeq(Zero, H) /\ RLeq(H, One)
  <2>1. Is(Zero, 0, 1) /\ Is(One, 1, 1) /\ 1 \in Nat \ {0} /\ 2 \in Nat \ {0} /\ 0 \in Int /\ 1 \in Int
    BY ZeroOne
  <2>2. RLeq(Zero, H) <=> 0 * 2 <= 1 * 1
    BY <1>5, <2>1, LeqIs
  <2>3. RLeq(H, One) <=> 1 * 1 <= 1 * 2
    BY <1>5, <2>1, LeqIs
  <2>4. QED
    BY <2>2, <2>3
<1>7. Zero \in Rat /\ One \in Rat /\ RSub(H, Zero) = H
  <2>1. RNeg(Zero) = Zero
    BY NegZero
  <2>2. QED
    BY <1>5, <2>1, ZeroOne, Neutral DEF RSub
<1>8. ~RLt(H, Zero) /\ ~RLt(One, H)
  BY <1>5, <1>6, <1>7, Order
<1>9. Compute(H, p) = Value(c, H)
  BY <1>4, <1>7, <1>8 DEF Compute, Between, (-)
<1>10. PICK n \in Int, m \in Int, d \in Int \ {0} : IsOver(from, n, d) /\ IsOver(to, m, d)
  <2>1. from[1] \in Int /\ from[2] \in Int \ {0} /\ Is(from, from[1], from[2])
        /\ to[1] \in Int /\ to[2] \in Int \ {0} /\ Is(to, to[1], to[2])
    BY RatType
  <2>2. IsOver(from, from[1], from[2]) /\ IsOver(to, to[1], to[2])
    BY <2>1 DEF IsOver
  <2>3. from[2] * to[2] \in Int \ {0} /\ to[2] * from[2] = from[2] * to[2]
    BY <2>1, NonZero
  <2>4. IsOver(from, from[1] * to[2], from[2] * to[2]) /\ IsOver(to, to[1] * from[2], from[2] * to[2])
    BY <2>1, <2>2, <2>3, OverPad
  <2>5. from[1] * to[2] \in Int /\ to[1] * from[2] \in Int
    BY <2>1
  <2>6. QED
    BY <2>3, <2>4, <2>5
<1> DEFINE s1 == RAdd(RMul(c[0], H), c[1])
           s2 == RAdd(RMul(s1, H), c[2])
           s3 == RAdd(RMul(s2, H), c[3])
           s4 == RAdd(RMul(s3, H), c[4])
           s5 == RAdd(RMul(s4, H), c[5])
<1>11. Value(c, H) = s5
  BY <1>4, <1>5, Value5
<1>12. /\ IsOver(c[0], 6 * (m - n), d) /\ IsOver(c[1], (-15) * (m - n), d)
       /\ IsOver(c[2], 10 * (m - n), d) /\ IsOver(c[3], 0, d) /\ IsOver(c[4], 0, d) /\ IsOver(c[5], n, d)
  BY <1>10, UnitCoefficients
<1> HIDE DEF c, p, e, H
<1> DEFINE k == m - n
<1>13. IsOver(s1, (-24) * k, 2 * d)
  <2>1. IsOver(s1, 6 * k + 2 * ((-15) * k), 2 * d)
    BY <1>12, HalfStep DEF H
  <2>2. 6 * k + 2 * ((-15) * k) = (-24) * k
    OBVIOUS
  <2>3. QED
    BY <2>1, <2>2
<1>14. ASSUME NEW x, NEW y, NEW f \in Int \ {0}, IsOver(x, y, d)
       PROVE  IsOver(x, y * f, d * f)
  BY <1>14, OverPad
<1>15. IsOver(s2, 16 * k, 4 * d)
  <2>1. IsOver(c[2], (10 * k) * 2, d * 2)
    <3>1. 2 \in Int \ {0}
      OBVIOUS
    <3>2. QED
      BY <1>12, <1>14, <3>1, Zenon
  <2>2. d * 2 = 2 * d /\ (10 * k) * 2 = 20 * k
    OBVIOUS
  <2>3. IsOver(s2, (-24) * k + 2 * (20 * k), 2 * (2 * d))
    BY <1>13, <2>1, <2>2, HalfStep DEF H
  <2>4. (-24) * k + 2 * (20 * k) = 16 * k /\ 2 * (2 * d) = 4 * d
    OBVIOUS
  <2>5. QED
    BY <2>3, <2>4
<1>16. IsOver(s3, 16 * k, 8 * d)
  <2>1. IsOver(c[3], 0 * 4, d * 4)
    <3>1. 4 \in Int \ {0}
      OBVIOUS
    <3>2. QED
      BY <1>12, <1>14, <3>1, Zenon
  <2>2. d * 4 = 4 * d /\ 0 * 4 = 0
    OBVIOUS
  <2>3. IsOver(s3, 16 * k + 2 * 0, 2 * (4 * d))
    BY <1>15, <2>1, <2>2, HalfStep DEF H
  <2>4. 16 * k + 2 * 0 = 16 * k /\ 2 * (4 * d) = 8 * d
    OBVIOUS
  <2>5. QED
    BY <2>3, <2>4
<1>17. IsOver(s4, 16 * k, 16 * d)
  <2>1. IsOver(c[4], 0 * 8, d * 8)
    <3>1. 8 \in Int \ {0}
      OBVIOUS
    <3>2. QED
      BY <1>12, <1>14, <3>1, Zenon
  <2>2. d * 8 = 8 * d /\ 0 * 8 = 0
    OBVIOUS
  <2>3. IsOver(s4, 16 * k + 2 * 0, 2 * (8 * d))
    BY <1>16, <2>1, <2>2, HalfStep DEF H
  <2>4. 16 * k + 2 * 0 = 16 * k /\ 2 * (8 * d) = 16 * d
    OBVIOUS
  <2>5. QED
    BY <2>3, <2>4
<1>18. IsOver(s5, 16 * (n + m), 32 * d)
  <2>1. IsOver(c[5], n * 16, d * 16)
    <3>1. 16 \in Int \ {0}
      OBVIOUS
    <3>2. QED
      BY <1>12, <1>14, <3>1, Zenon
  <2>2. d * 16 = 16 * d /\ n * 16 = 16 * n
    OBVIOUS
  <2>3. IsOver(s5, 16 * k + 2 * (16 * n), 2 * (16 * d))
    BY <1>17, <2>1, <2>2, HalfStep DEF H
  <2>4. 16 * k + 2 * (16 * n) = 16 * (n + m) /\ 2 * (16 * d) = 32 * d
    OBVIOUS
  <2>5. QED
    BY <2>3, <2>4
<1>19. RMul(R(2), s5) = RAdd(from, to)
  <2>1. IsOver(RAdd(from, to), n + m, d)
    BY <1>10, OverPlus
  <2>2. IsOver(RAdd(from, to), (n + m) * 32, d * 32)
    <3>1. 32 \in Int \ {0}
      OBVIOUS
    <3>2. QED
      BY <2>1, <1>14, <3>1, Zenon
  <2>3. IsOver(RMul(R(2), s5), 32 * (n + m), 32 * d)
    <3>1. 2 \in Int /\ 32 * (n + m) = 2 * (16 * (n + m))
      OBVIOUS
    <3>2. QED
      BY <1>18, <3>1, OverTimes
  <2>4. (n + m) * 32 = 32 * (n + m) /\ d * 32 = 32 * d
    OBVIOUS
  <2>5. QED
    BY <2>2, <2>3, <2>4, OverEqual
<1>20. s5 \in Rat /\ Join(from, to, H) = s5
  BY <1>1, <1>9, <1>11, <1>18 DEF IsOver, Is
<1>21. QED
  BY <1>3, <1>19, <1>20 DEF H

-----------------------------------------------------------------------------
(* The calls                                                                *)

\* What the code makes of a task.
ShiftAnswer(t) ==
    LET u  == t.shift[1]
        v  == t.shift[2]
        qp == QuadSD(u, v, t.p)
        sc == CalcSC(A(qp), B(qp), t.K, u, v)
    IN  [sc   |-> sc, K |-> NextK(sc, qp, t.K),
         next |-> Newest(sc, A(qp), B(qp), u, v, t.K, t.p)]

PosesAnswer(t) ==
    LET points == UpdatePoints(t.start, t.waypoints)
    IN  [s \in DOMAIN t.waypoints |->
            [x \in {Zero, Frac(1, 2), One} |-> PositionOutput(points, s, x)]]

\* The invariant: an answer is what the code makes of the task it was given.
AnswerIsOfTask ==
    /\ task \in Tasks
    /\ Done("shift") => answer.value = ShiftAnswer(task)
    /\ Done("linear") => answer.value = NextLinearK(task.p, task.K, task.s)
    /\ Done("zeros") => answer.value = Quad(task.a, task.b, task.c)
    /\ Done("segment") => answer.value = ComputeParameters(task.ends)
    /\ Done("poses") => answer.value = PosesAnswer(task)

\* The invariant of the calls: by one step per action.
LEMMA AnswersMatch ==
  NumericsSpec => []AnswerIsOfTask
<1>1. NumericsInit => AnswerIsOfTask
  BY DEF NumericsInit, AnswerIsOfTask, Done, Waiting
<1>2. ASSUME AnswerIsOfTask, [NumericsNext]_numbers
      PROVE  AnswerIsOfTask'
  <2>1. ASSUME NEW kind \in {"shift", "linear", "zeros", "segment", "poses", "search"}, NEW a, Answered(kind, a)
        PROVE  /\ task' = task /\ task \in Tasks /\ task.kind = kind /\ answer'.value = a
               /\ \A k : Done(k)' => k = kind
    BY <1>2, <2>1 DEF Answered, AnswerIsOfTask, Done
  <2>2. CASE Shift
    <3>1. Answered("shift", ShiftAnswer(task))
      BY <2>2 DEF Shift, ShiftAnswer
    <3>2. QED
      BY <2>1, <3>1 DEF AnswerIsOfTask
  <2>3. CASE Linear
    BY <2>1, <2>3 DEF AnswerIsOfTask, Linear
  <2>4. CASE Solve
    BY <2>1, <2>4 DEF AnswerIsOfTask, Solve
  <2>5. CASE Meet
    BY <2>1, <2>5 DEF AnswerIsOfTask, Meet
  <2>6. CASE Follow
    <3>1. Answered("poses", PosesAnswer(task))
      BY <2>6 DEF Follow, PosesAnswer
    <3>2. QED
      BY <2>1, <3>1 DEF AnswerIsOfTask
  <2>7. CASE TooFast
    BY <2>1, <2>7 DEF AnswerIsOfTask, TooFast
  <2>8. CASE Still
    BY <2>1, <2>8 DEF AnswerIsOfTask, Still
  <2>9. CASE Search
    BY <1>2, <2>9 DEF AnswerIsOfTask, Search, Accepted, Done
  <2>10. CASE UNCHANGED numbers
    BY <1>2, <2>10 DEF AnswerIsOfTask, Done, numbers
  <2>11. QED
    BY <1>2, <2>2, <2>3, <2>4, <2>5, <2>6, <2>7, <2>8, <2>9, <2>10 DEF NumericsNext
<1>3. QED
  BY <1>1, <1>2, PTL DEF NumericsSpec

\* The kind of a task tells where it comes from.
LEMMA KindOfTask ==
  ASSUME NEW t \in Tasks
  PROVE  /\ t.kind = "shift" => t \in ShiftTasks
         /\ t.kind = "linear" => t \in LinearTasks
         /\ t.kind = "zeros" => t \in ZerosTasks
         /\ t.kind = "segment" => t \in SegmentTasks
         /\ t.kind = "poses" => t \in PoseTasks
         /\ t.kind = "search" => t \in SearchTasks
<1>1. t \in ShiftTasks => t.kind = "shift"
  BY ShiftAssumption
<1>2. t \in LinearTasks => t.kind = "linear"
  BY LinearAssumption
<1>3. t \in ZerosTasks => t.kind = "zeros"
  BY ZerosAssumption
<1>4. t \in SegmentTasks => t.kind = "segment"
  BY SegmentAssumption
<1>5. t \in PoseTasks => t.kind = "poses"
  BY PoseAssumption
<1>6. t \in SearchTasks => t.kind = "search"
  BY SearchAssumption
<1>7. QED
  BY <1>1, <1>2, <1>3, <1>4, <1>5, <1>6 DEF Tasks

-----------------------------------------------------------------------------
(* Segments and poses                                                       *)

\* The points of a path: places and rotations.
IsPoint(p) == p = [at |-> p.at, rotation |-> p.rotation] /\ p.at \in Rat /\ IsRotation(p.rotation)

Before(t, s) == IF s = 1 THEN t.start ELSE t.waypoints[s - 1]

\* The parts of a pose.
LEMMA PoseFacts ==
  ASSUME NEW p \in Poses
  PROVE  p.at \in Rat /\ p.turn \in Orientations /\ p.turn \in Rat /\ p = [at |-> p.at, turn |-> p.turn]
BY DEF Poses, Orientations

\* No rotation is a rotation.
LEMMA ZeroRotation ==
  IsRotation(Zero)
<1>1. (-2) * 1 < 0 * 1 /\ 0 * 1 <= 2 * 1
  OBVIOUS
<1>2. QED
  BY <1>1, ZeroOne DEF IsRotation, RLt, RLeq, R, Zero

\* The points of a path hold the places of the waypoints, and the rotations from the
\* start.
LEMMA PointFacts ==
  ASSUME NEW t \in PoseTasks
  PROVE  /\ \A s \in DOMAIN t.waypoints : s \in Nat /\ s >= 1 /\ t.waypoints[s] \in Poses /\ Before(t, s) \in Poses
         /\ \A s \in DOMAIN t.waypoints : s # 1 => s - 1 \in DOMAIN t.waypoints
         /\ UpdatePoints(t.start, t.waypoints)[1] = [at |-> t.start.at, rotation |-> Zero]
         /\ \A s \in DOMAIN t.waypoints :
               UpdatePoints(t.start, t.waypoints)[s + 1] =
                   [at |-> t.waypoints[s].at, rotation |-> AngularError(Before(t, s).turn, t.waypoints[s].turn)]
<1>1. t.start \in Poses /\ t.waypoints \in Seq(Poses)
  BY PoseAssumption
<1> DEFINE w == t.waypoints
           f == [i \in DOMAIN w |->
                    [at |-> w[i].at, rotation |-> AngularError((IF i = 1 THEN t.start ELSE w[i - 1]).turn, w[i].turn)]]
           first == <<[at |-> t.start.at, rotation |-> Zero]>>
<1>2. UpdatePoints(t.start, w) = first \o f
  BY DEF UpdatePoints
<1>3. w \in Seq(Poses) /\ Len(w) \in Nat /\ DOMAIN w = 1 .. Len(w) /\ \A s \in 1 .. Len(w) : w[s] \in Poses
  BY <1>1
<1>4. ASSUME NEW s \in DOMAIN w
      PROVE  s \in Nat /\ s >= 1 /\ w[s] \in Poses /\ Before(t, s) \in Poses /\ (s # 1 => s - 1 \in DOMAIN w)
  <2>1. s # 1 => s - 1 \in 1 .. Len(w)
    BY <1>3
  <2>2. QED
    BY <1>1, <1>3, <2>1 DEF Before
<1>5. \A s \in DOMAIN w :
         f[s] = [at |-> w[s].at, rotation |-> AngularError(Before(t, s).turn, w[s].turn)]
  BY DEF Before
<1> HIDE DEF f
<1>6. f \in Seq({f[i] : i \in 1 .. Len(w)}) /\ Len(f) = Len(w) /\ DOMAIN f = 1 .. Len(w)
  <2>1. f = [i \in 1 .. Len(w) |-> f[i]]
    BY <1>3 DEF f
  <2>2. QED
    BY <1>3, <2>1
<1>7. (first \o f)[1] = [at |-> t.start.at, rotation |-> Zero]
  BY <1>6
<1>8. ASSUME NEW s \in DOMAIN w PROVE (first \o f)[s + 1] = f[s]
  BY <1>3, <1>6
<1>9. QED
  BY <1>2, <1>4, <1>5, <1>7, <1>8

\* The outputs at the ends of a segment are its points, and in the middle their average is
\* a rotation too.
LEMMA OutputFacts ==
  ASSUME NEW t \in PoseTasks, NEW s \in DOMAIN t.waypoints
  PROVE  LET points == UpdatePoints(t.start, t.waypoints)
         IN  /\ PositionOutput(points, s, Zero) = points[s]
             /\ PositionOutput(points, s, One) = points[s + 1]
             /\ \A x \in {Zero, Frac(1, 2), One} : IsPoint(PositionOutput(points, s, x))
<1> DEFINE points == UpdatePoints(t.start, t.waypoints)
<1>1. IsPoint(points[s]) /\ IsPoint(points[s + 1])
  <2>1. ASSUME NEW i \in DOMAIN t.waypoints
        PROVE  IsPoint(points[i + 1])
    <3>1. t.waypoints[i] \in Poses /\ Before(t, i) \in Poses
          /\ points[i + 1] = [at |-> t.waypoints[i].at,
                              rotation |-> AngularError(Before(t, i).turn, t.waypoints[i].turn)]
      BY PointFacts
    <3>2. t.waypoints[i].at \in Rat /\ t.waypoints[i].turn \in Rat /\ Before(t, i).turn \in Rat
      BY <3>1, PoseFacts
    <3>3. IsRotation(AngularError(Before(t, i).turn, t.waypoints[i].turn))
      BY <3>2, AngularErrorFacts
    <3>4. QED
      BY <3>1, <3>2, <3>3 DEF IsPoint
  <2>2. IsPoint(points[1])
    <3>1. t.start.at \in Rat
      BY PoseAssumption, PoseFacts
    <3>2. points[1] = [at |-> t.start.at, rotation |-> Zero]
      BY PointFacts
    <3> HIDE DEF points
    <3>3. QED
      BY <3>1, <3>2, ZeroRotation DEF IsPoint
  <2>3. s \in Nat /\ (s # 1 => s - 1 \in DOMAIN t.waypoints)
    BY PointFacts
  <2>4. s # 1 => (s - 1) + 1 = s
    BY <2>3
  <2> HIDE DEF points
  <2>5. QED
    BY <2>1, <2>2, <2>3, <2>4
<1> HIDE DEF points
<1> DEFINE p == points[s]
           q == points[s + 1]
<1>2. /\ p = [at |-> p.at, rotation |-> p.rotation] /\ p.at \in Rat /\ IsRotation(p.rotation)
      /\ q = [at |-> q.at, rotation |-> q.rotation] /\ q.at \in Rat /\ IsRotation(q.rotation)
      /\ p.rotation \in Rat /\ q.rotation \in Rat
  BY <1>1 DEF IsPoint, IsRotation
<1>3. \A x : PositionOutput(points, s, x) = [at |-> Join(p.at, q.at, x), rotation |-> Join(p.rotation, q.rotation, x)]
  BY DEF PositionOutput
<1> HIDE DEF p, q
<1>4. PositionOutput(points, s, Zero) = p /\ PositionOutput(points, s, One) = q
  <2>1. /\ Join(p.at, q.at, Zero) = p.at /\ Join(p.rotation, q.rotation, Zero) = p.rotation
        /\ Join(p.at, q.at, One) = q.at /\ Join(p.rotation, q.rotation, One) = q.rotation
    BY <1>2, JoinFacts
  <2>2. QED
    BY <1>2, <1>3, <2>1
<1>5. IsPoint(PositionOutput(points, s, Frac(1, 2)))
  <2> DEFINE m == Join(p.rotation, q.rotation, Frac(1, 2))
  <2>1. Join(p.at, q.at, Frac(1, 2)) \in Rat /\ m \in Rat /\ RMul(R(2), m) = RAdd(p.rotation, q.rotation)
    BY <1>2, JoinFacts
  <2> HIDE DEF m
  <2>2. IsRotation(m)
    <3>1. PICK a \in Int, b \in Int, d \in Nat \ {0} : IsOver(p.rotation, a, d) /\ IsOver(q.rotation, b, d)
      <4> DEFINE x == p.rotation
                 y == q.rotation
      <4>1. x[1] \in Int /\ x[2] \in Nat \ {0} /\ IsOver(x, x[1], x[2])
            /\ y[1] \in Int /\ y[2] \in Nat \ {0} /\ IsOver(y, y[1], y[2])
        BY <1>2, RatType DEF IsOver
      <4> HIDE DEF x, y
      <4>2. x[2] * y[2] \in Nat \ {0} /\ y[2] * x[2] = x[2] * y[2] /\ x[1] * y[2] \in Int /\ y[1] * x[2] \in Int
        BY <4>1
      <4>3. IsOver(x, x[1] * y[2], x[2] * y[2]) /\ IsOver(y, y[1] * x[2], x[2] * y[2])
        BY <4>1, <4>2, OverPad
      <4>4. QED
        BY <4>2, <4>3 DEF x, y
    <3>2. IsOver(RMul(R(2), m), a + b, d)
      BY <2>1, <3>1, OverPlus
    <3>3. m[1] \in Int /\ m[2] \in Nat \ {0} /\ Is(m, m[1], m[2]) /\ m[2] \in Int \ {0}
      BY <2>1, RatType
    <3>4. (2 * m[1]) * d = (a + b) * m[2]
      <4>1. 2 \in Int /\ 2 * m[1] \in Int /\ IsOver(m, m[1], m[2])
        BY <3>3 DEF IsOver
      <4>2. IsOver(RMul(R(2), m), 2 * m[1], m[2])
        BY <4>1, OverTimes, Zenon
      <4>3. m[2] * d = d * m[2] /\ d \in Int \ {0}
        BY <3>1, <3>3
      <4>4. IsOver(RMul(R(2), m), (2 * m[1]) * d, m[2] * d)
        BY <4>2, <4>3, OverPad, Zenon
      <4>5. IsOver(RMul(R(2), m), (a + b) * m[2], m[2] * d)
        BY <3>2, <3>3, <4>3, OverPad
      <4> DEFINE z == RMul(R(2), m)
                 k == m[2] * d
                 n1 == (2 * m[1]) * d
                 n2 == (a + b) * m[2]
      <4>6. Is(z, n1, k) /\ Is(z, n2, k) /\ n1 \in Int /\ n2 \in Int /\ k \in Int \ {0}
        BY <4>4, <4>5 DEF IsOver
      <4> HIDE DEF z, k, n1, n2
      <4>7. z \in Rat /\ n1 * z[2] = n2 * z[2]
        BY <4>6 DEF Is
      <4>8. n1 = n2
        BY <4>6, <4>7, Cancel, RatType
      <4>9. QED
        BY <4>8 DEF n1, n2
    <3>5. a <= 2 * d /\ b <= 2 * d /\ (-2) * d < a /\ (-2) * d < b
      <4>1. ASSUME NEW x, NEW n \in Int, IsOver(x, n, d), IsRotation(x)
            PROVE  n <= 2 * d /\ (-2) * d < n
        <5>1. x \in Rat /\ RLt(R(-2), x) /\ RLeq(x, R(2)) /\ Is(x, n, d) /\ R(-2) \in Rat
              /\ Is(R(2), 2, 1) /\ Is(R(-2), -2, 1) /\ 1 \in Nat \ {0} /\ 2 \in Int /\ -2 \in Int
          BY <4>1, RType DEF IsRotation, IsOver
        <5>2. RLeq(x, R(2)) <=> n * 1 <= 2 * d
          BY <5>1, LeqIs
        <5>3. RLeq(x, R(-2)) <=> n * 1 <= (-2) * d
          BY <5>1, LeqIs
        <5>4. ~RLeq(x, R(-2))
          BY <5>1, Order
        <5>5. QED
          BY <5>1, <5>2, <5>3, <5>4
      <4>2. QED
        BY <1>2, <3>1, <4>1
    <3>6. m[1] <= 2 * m[2] /\ (-2) * m[2] < m[1]
      <4>1. a + b <= 4 * d /\ (-4) * d < a + b /\ a + b \in Int
        BY <3>5
      <4>2. (2 * m[1]) * d <= (4 * m[2]) * d
        <5>1. (a + b) * m[2] <= (4 * d) * m[2]
          BY <3>3, <4>1
        <5>2. (4 * d) * m[2] = (4 * m[2]) * d
          BY <3>3
        <5>3. QED
          BY <3>4, <5>1, <5>2
      <4>3. ~ (2 * m[1]) * d <= ((-4) * m[2]) * d
        <5>1. ((-4) * d + 1) * m[2] <= (a + b) * m[2]
          BY <3>3, <4>1
        <5>2. ((-4) * d + 1) * m[2] = ((-4) * m[2]) * d + m[2]
          BY <3>3
        <5>3. QED
          BY <3>3, <3>4, <5>1, <5>2
      <4>4. 2 * m[1] <= 4 * m[2] /\ ~ 2 * m[1] <= (-4) * m[2]
        BY <3>3, <4>2, <4>3, LeqScale
      <4>5. QED
        BY <3>3, <4>4
    <3>7. RLt(R(-2), m) /\ RLeq(m, R(2))
      <4>1. (-2) * m[2] < m[1] * 1 /\ m[1] * 1 <= 2 * m[2]
        BY <3>3, <3>6
      <4>2. QED
        BY <4>1 DEF RLt, RLeq, R
    <3>8. QED
      BY <2>1, <3>7 DEF IsRotation
  <2>3. QED
    BY <1>3, <2>1, <2>2 DEF IsPoint, m
<1>6. \A x \in {Zero, Frac(1, 2), One} : IsPoint(PositionOutput(points, s, x))
  BY <1>1, <1>4, <1>5 DEF p, q
<1>7. QED
  BY <1>4, <1>6 DEF p, q, points

\* What SegmentMeetsItsEnds says of a segment and of a path of poses.
LEMMA SegmentAnswers ==
  ASSUME NEW t \in SegmentTasks
  PROVE  LET p == ComputeParameters(t.ends)
             e == t.ends
         IN  /\ At(p, e.xi) = <<e.yi, e.dyi, e.d2yi>>
             /\ At(p, e.xf) = <<e.yf, e.dyf, e.d2yf>>
             /\ At(p, RSub(e.xi, One)) = At(p, e.xi)
             /\ At(p, RAdd(e.xf, One)) = At(p, e.xf)
<1>1. t.ends \in Boundaries
  BY SegmentAssumption
<1>2. QED
  BY <1>1, SegmentMeets

\* The answer to a path of poses is what SegmentMeetsItsEnds asks of it.
LEMMA PosesMeet ==
  ASSUME NEW t \in PoseTasks, NEW v, v = PosesAnswer(t),
         NEW s \in DOMAIN t.waypoints
  PROVE  /\ PoseOutput(t.start, v[s][Zero]) = IF s = 1 THEN t.start ELSE PoseOutput(t.start, v[s - 1][One])
         /\ PoseOutput(t.start, v[s][One]).at = t.waypoints[s].at
         /\ Before(t, s).turn = t.start.turn => PoseOutput(t.start, v[s][One]) = t.waypoints[s]
         /\ \A x \in DOMAIN v[s] : ReferencePoseVec(t.start, PoseOutput(t.start, v[s][x])) = v[s][x]
<1> DEFINE points == UpdatePoints(t.start, t.waypoints)
           w == t.waypoints
<1>1. t.start \in Poses /\ t.start.turn \in Orientations /\ t.start = [at |-> t.start.at, turn |-> t.start.turn]
  BY PoseAssumption, PoseFacts
<1>2. \A i \in DOMAIN w : DOMAIN v[i] = {Zero, Frac(1, 2), One}
         /\ \A x \in {Zero, Frac(1, 2), One} : v[i][x] = PositionOutput(points, i, x)
  BY DEF PosesAnswer
<1>3. \A i \in DOMAIN w :
         /\ v[i][Zero] = points[i] /\ v[i][One] = points[i + 1]
         /\ \A x \in DOMAIN v[i] : IsPoint(v[i][x])
  BY <1>2, OutputFacts
<1>4. /\ s \in Nat /\ s >= 1 /\ w[s] \in Poses /\ Before(t, s) \in Poses
      /\ s # 1 => s - 1 \in DOMAIN w
      /\ points[1] = [at |-> t.start.at, rotation |-> Zero]
      /\ points[s + 1] = [at |-> w[s].at, rotation |-> AngularError(Before(t, s).turn, w[s].turn)]
  BY PointFacts
<1> HIDE DEF points
<1>5. PoseOutput(t.start, v[s][Zero]) = IF s = 1 THEN t.start ELSE PoseOutput(t.start, v[s - 1][One])
  <2>1. CASE s = 1
    <3>1. Integrate(t.start.turn, Zero) = t.start.turn
      BY <1>1, IntegrateZero
    <3>2. v[s][Zero] = [at |-> t.start.at, rotation |-> Zero]
      BY <1>3, <1>4, <2>1
    <3>3. PoseOutput(t.start, v[s][Zero]) = [at |-> t.start.at, turn |-> t.start.turn]
      BY <3>1, <3>2 DEF PoseOutput
    <3>4. QED
      BY <1>1, <2>1, <3>3
  <2>2. CASE s # 1
    <3>1. (s - 1) + 1 = s
      BY <1>4
    <3>2. QED
      BY <1>3, <1>4, <2>2, <3>1
  <2>3. QED
    BY <2>1, <2>2
<1>6. PoseOutput(t.start, v[s][One]).at = w[s].at
  BY <1>3, <1>4 DEF PoseOutput
<1>7. ASSUME Before(t, s).turn = t.start.turn
      PROVE  PoseOutput(t.start, v[s][One]) = w[s]
  <2>1. w[s].turn \in Orientations /\ w[s] = [at |-> w[s].at, turn |-> w[s].turn]
    BY <1>4, PoseFacts
  <2>2. Integrate(t.start.turn, AngularError(t.start.turn, w[s].turn)) = w[s].turn
    BY <1>1, <2>1, IntegrateOfRotation
  <2>3. v[s][One].at = w[s].at /\ v[s][One].rotation = AngularError(t.start.turn, w[s].turn)
    BY <1>3, <1>4, <1>7
  <2>4. QED
    BY <2>1, <2>2, <2>3 DEF PoseOutput
<1>8. ASSUME NEW x \in DOMAIN v[s]
      PROVE  ReferencePoseVec(t.start, PoseOutput(t.start, v[s][x])) = v[s][x]
  <2> DEFINE o == v[s][x]
  <2>1. o = [at |-> o.at, rotation |-> o.rotation] /\ IsRotation(o.rotation)
    BY <1>3 DEF IsPoint
  <2> HIDE DEF o
  <2>2. AngularError(t.start.turn, Integrate(t.start.turn, o.rotation)) = o.rotation
    BY <1>1, <2>1, RotationOfIntegrate
  <2>3. ReferencePoseVec(t.start, PoseOutput(t.start, o)) = o
    BY <2>1, <2>2 DEF PoseOutput, ReferencePoseVec
  <2>4. QED
    BY <2>3 DEF o
<1>9. QED
  BY <1>5, <1>6, <1>7, <1>8

\* Every segment meets the constraints at both its ends and stays there outside, and
\* every path of poses goes through its waypoints (FifthOrderPolynomial::compute and its
\* derivatives, the pose interpolation of the trajectory generator).
THEOREM SegmentsMeetTheirEnds ==
  NumericsSpec => []SegmentMeetsItsEnds
<1>1. AnswerIsOfTask => SegmentMeetsItsEnds
  <2> SUFFICES ASSUME AnswerIsOfTask
               PROVE  SegmentMeetsItsEnds
    OBVIOUS
  <2>1. ASSUME Done("segment")
        PROVE  task \in SegmentTasks /\ answer.value = ComputeParameters(task.ends)
    BY <2>1, KindOfTask DEF AnswerIsOfTask, Done
  <2>2. ASSUME Done("poses")
        PROVE  task \in PoseTasks /\ answer.value = PosesAnswer(task)
    BY <2>2, KindOfTask DEF AnswerIsOfTask, Done
  <2>3. ASSUME Done("segment")
        PROVE  LET p == answer.value
                   e == task.ends
               IN  /\ At(p, e.xi) = <<e.yi, e.dyi, e.d2yi>>
                   /\ At(p, e.xf) = <<e.yf, e.dyf, e.d2yf>>
                   /\ At(p, RSub(e.xi, One)) = At(p, e.xi)
                   /\ At(p, RAdd(e.xf, One)) = At(p, e.xf)
    BY <2>1, <2>3, SegmentAnswers
  <2>4. ASSUME Done("poses"), NEW s \in DOMAIN task.waypoints
        PROVE  LET t == task
                   v == answer.value
               IN  /\ PoseOutput(t.start, v[s][Zero]) = IF s = 1 THEN t.start ELSE PoseOutput(t.start, v[s - 1][One])
                   /\ PoseOutput(t.start, v[s][One]).at = t.waypoints[s].at
                   /\ Before(t, s).turn = t.start.turn => PoseOutput(t.start, v[s][One]) = t.waypoints[s]
                   /\ \A x \in DOMAIN v[s] : ReferencePoseVec(t.start, PoseOutput(t.start, v[s][x])) = v[s][x]
    BY <2>2, <2>4, PosesMeet
  <2>5. QED
    BY <2>3, <2>4 DEF SegmentMeetsItsEnds, At, Before, (+), (-)
<1>2. QED
  BY <1>1, AnswersMatch, PTL

-----------------------------------------------------------------------------
(* The zeros of a quadratic                                                 *)

\* A square root is exact where there is one, and not negative.
LEMMA SquareRootFacts ==
  ASSUME NEW x, \E r \in Roots : r (.) r = x
  PROVE  SquareRoot(x) \in Rat /\ RLeq(Zero, SquareRoot(x)) /\ RMul(SquareRoot(x), SquareRoot(x)) = x
<1> DEFINE d == SquareRoot(x)
<1>1. d \in Roots /\ RMul(d, d) = x
  BY DEF SquareRoot, (.)
<1> HIDE DEF d
<1>2. QED
  BY <1>1, RootsAssumption DEF d

Real(z, w) == z[1] (.) w[1] (-) z[2] (.) w[2]

Imaginary(z, w) == z[1] (.) w[2] (+) z[2] (.) w[1]

\* Both zeros of a x^2 + 2 b x + c, with w = a l.
LEMMA ZeroOfSum ==
  ASSUME NEW a \in Rat, NEW b \in Rat, NEW d \in Rat, NEW l \in Rat, NEW s \in Rat, a # Zero, l # Zero,
         RMul(a, l) \in {RSub(RNeg(d), b), RSub(d, b)},
         RMul(d, d) = RSub(RMul(b, b), RMul(a, RMul(s, RMul(l, a))))
  PROVE  RMul(a, RAdd(s, l)) = RNeg(RMul(R(2), b))
<1> DEFINE w == RMul(a, l)
           c == RMul(s, RMul(l, a))
<1>0. w \in Rat /\ c \in Rat /\ (w = RSub(RNeg(d), b) \/ w = RSub(d, b))
      /\ RMul(d, d) = RSub(RMul(b, b), RMul(a, c)) /\ RMul(a, l) = w /\ RMul(s, RMul(l, a)) = c
  BY MulType
<1> HIDE DEF w, c
<1>1. R(2) \in Rat /\ RMul(R(2), b) \in Rat /\ RMul(a, RAdd(s, l)) \in Rat /\ RMul(a, c) \in Rat /\ RMul(b, b) \in Rat
  BY <1>0, RType, MulType, AddType
<1>2. RAdd(RMul(w, w), RMul(R(2), RMul(b, w))) = RSub(RMul(d, d), RMul(b, b))
  BY <1>0, SumWithRoot DEF (+), (-), (.)
<1>3. RMul(RMul(l, a), RAdd(RMul(a, RAdd(s, l)), RMul(R(2), b)))
      = RAdd(RMul(a, c), RAdd(RMul(w, w), RMul(R(2), RMul(b, w))))
  BY <1>0, ZeroSum DEF (+), (-), (.)
<1>4. RAdd(RMul(a, c), RSub(RSub(RMul(b, b), RMul(a, c)), RMul(b, b))) = Zero
  BY <1>0, <1>1, Cancels DEF (+), (-), (.)
<1>5. RMul(RMul(l, a), RAdd(RMul(a, RAdd(s, l)), RMul(R(2), b))) = Zero
  BY <1>0, <1>2, <1>3, <1>4
<1>6. RMul(l, a) \in Rat /\ RMul(l, a) # Zero
  BY MulType, NoZeroDivisors
<1>7. RAdd(RMul(a, RAdd(s, l)), RMul(R(2), b)) \in Rat
  BY <1>1, AddType
<1>8. RAdd(RMul(a, RAdd(s, l)), RMul(R(2), b)) = Zero
  BY <1>5, <1>6, <1>7, NoZeroDivisors
<1>9. QED
  BY <1>1, <1>8, SubZero

\* The zero that is found first is the larger one.
LEMMA LargerFirst ==
  ASSUME NEW a \in Rat, NEW b \in Rat, NEW d \in Rat, NEW w \in Rat, NEW l \in Rat, NEW s \in Rat,
         a # Zero, RLeq(Zero, d),
         w = IF RLeq(Zero, b) THEN RSub(RNeg(d), b) ELSE RSub(d, b),
         RMul(a, l) = w, RMul(a, RAdd(s, l)) = RNeg(RMul(R(2), b))
  PROVE  RLeq(RMul(s, s), RMul(l, l))
<1>1. RMul(a, s) = RSub(RNeg(RMul(R(2), b)), w)
  <2>1. RMul(a, s) \in Rat /\ w \in Rat /\ RNeg(w) \in Rat
    BY MulType, NegType
  <2>2. RAdd(RMul(a, s), w) = RNeg(RMul(R(2), b))
    BY SquareScaled DEF (+), (-), (.)
  <2>3. RAdd(RAdd(RMul(a, s), w), RNeg(w)) = RAdd(RMul(a, s), RAdd(w, RNeg(w)))
    BY <2>1, AddAssoc
  <2>4. QED
    BY <2>1, <2>2, <2>3, Neutral DEF RSub
<1> DEFINE gap == RSub(RMul(l, l), RMul(s, s))
<1>2. RMul(RMul(a, a), gap) = RSub(RMul(w, w), RMul(RMul(a, s), RMul(a, s)))
  BY SquareScaled DEF (+), (-), (.)
<1>3. RMul(l, l) \in Rat /\ RMul(s, s) \in Rat /\ gap \in Rat /\ RMul(a, a) \in Rat /\ RLt(Zero, RMul(a, a))
  BY SquareType, SubType
<1> HIDE DEF gap
<1>4. R(4) \in Rat /\ RLeq(Zero, R(4)) /\ Zero \in Rat
  <2>1. 0 * 1 <= 4 * 1
    OBVIOUS
  <2>2. QED
    BY <2>1, RType, ZeroOne DEF RLeq, R, Zero
<1>5. RLeq(Zero, RMul(RMul(a, a), gap))
  <2>1. CASE RLeq(Zero, b)
    <3>1. RMul(RMul(a, a), gap) = RMul(R(4), RMul(b, d))
      BY <1>1, <1>2, <2>1, SquareGap DEF (+), (-), (.)
    <3>2. RMul(b, d) \in Rat /\ RLeq(Zero, RMul(b, d))
      BY <2>1, MulType, Products
    <3>3. QED
      BY <1>4, <3>1, <3>2, Products
  <2>2. CASE ~RLeq(Zero, b)
    <3>1. RMul(RMul(a, a), gap) = RMul(R(4), RMul(RNeg(b), d))
      BY <1>1, <1>2, <2>2, SquareGap DEF (+), (-), (.)
    <3>2. RNeg(b) \in Rat /\ RLeq(Zero, RNeg(b))
      <4>1. RLeq(b, Zero)
        BY <1>4, <2>2, Order
      <4>2. RLeq(RNeg(Zero), RNeg(b))
        BY <1>4, <4>1, NegFacts
      <4>3. QED
        BY <4>2, NegZero, NegType
    <3>3. RMul(RNeg(b), d) \in Rat /\ RLeq(Zero, RMul(RNeg(b), d))
      BY <3>2, MulType, Products
    <3>4. QED
      BY <1>4, <3>1, <3>3, Products
  <2>3. QED
    BY <2>1, <2>2
<1>6. RLeq(Zero, gap)
  BY <1>3, <1>5, NonNegativeFactor
<1>7. RAdd(RMul(s, s), gap) = RMul(l, l) /\ RAdd(RMul(s, s), Zero) = RMul(s, s)
  BY <1>3, Difference, Neutral DEF gap
<1>8. RLeq(RAdd(RMul(s, s), Zero), RAdd(RMul(s, s), gap))
  BY <1>3, <1>4, <1>6, AddMono
<1>9. QED
  BY <1>7, <1>8

BothZeros(a, b1, c, z) ==
    LET s == z.s
        l == z.l
    IN  IF a = Zero
        THEN b1 # Zero => b1 (.) s[1] (+) c = Zero
        ELSE /\ a (.) (s[1] (+) l[1]) = RNeg(b1)
             /\ s[2] (+) l[2] = Zero
             /\ a (.) Real(s, l) = c
             /\ Imaginary(s, l) = Zero
             /\ RLeq(Real(s, <<s[1], RNeg(s[2])>>), Real(l, <<l[1], RNeg(l[2])>>))

\* Real zeros.
LEMMA RealZeros ==
  ASSUME NEW a \in Rat, NEW b1 \in Rat, NEW c \in Rat, NEW s \in Rat, NEW l \in Rat, a # Zero,
         RMul(a, RAdd(s, l)) = RNeg(b1), RMul(s, RMul(l, a)) = c, RLeq(RMul(s, s), RMul(l, l)),
         NEW z, z = Zeros(s, Zero, l, Zero)
  PROVE  BothZeros(a, b1, c, z)
<1>1. z.s[1] = s /\ z.s[2] = Zero /\ z.l[1] = l /\ z.l[2] = Zero
  BY DEF Zeros
<1>2. Zero \in Rat /\ RAdd(Zero, Zero) = Zero /\ RMul(s, l) \in Rat /\ RMul(s, s) \in Rat /\ RMul(l, l) \in Rat
  BY ZeroOne, Neutral, MulType
<1>3. \A x \in Rat : RSub(x, RMul(Zero, Zero)) = x /\ RMul(x, Zero) = Zero /\ RMul(Zero, x) = Zero
  BY <1>2, NegZero, Neutral DEF RSub
<1>4. RMul(a, RMul(s, l)) = c
  <2>1. RMul(l, a) = RMul(a, l) /\ RMul(a, s) = RMul(s, a)
    BY MulComm
  <2>2. RMul(RMul(s, a), l) = RMul(s, RMul(a, l)) /\ RMul(RMul(a, s), l) = RMul(a, RMul(s, l))
    BY MulAssoc
  <2>3. QED
    BY <2>1, <2>2
<1>5. Real(z.s, z.l) = RMul(s, l) /\ Imaginary(z.s, z.l) = Zero
  BY <1>1, <1>2, <1>3 DEF Real, Imaginary, (+), (-), (.)
<1>6. Real(z.s, <<z.s[1], RNeg(z.s[2])>>) = RMul(s, s) /\ Real(z.l, <<z.l[1], RNeg(z.l[2])>>) = RMul(l, l)
  BY <1>1, <1>2, <1>3, NegZero DEF Real, (-), (.)
<1>7. QED
  BY <1>1, <1>2, <1>4, <1>5, <1>6 DEF BothZeros, (+), (.)

\* Conjugate zeros.
LEMMA ComplexZeros ==
  ASSUME NEW a \in Rat, NEW b \in Rat, NEW c \in Rat, NEW d \in Rat, NEW q \in Rat, NEW y \in Rat, a # Zero,
         RMul(a, q) = b, RMul(RMul(a, a), RMul(y, y)) = RMul(d, d),
         RMul(d, d) = RSub(RMul(a, c), RMul(b, b)),
         NEW z, z = Zeros(RNeg(q), y, RNeg(q), RNeg(y))
  PROVE  BothZeros(a, RMul(R(2), b), c, z)
<1>1. z.s[1] = RNeg(q) /\ z.s[2] = y /\ z.l[1] = RNeg(q) /\ z.l[2] = RNeg(y)
  BY DEF Zeros
<1>2. /\ RMul(a, RAdd(RNeg(q), RNeg(q))) = RNeg(RMul(R(2), b))
      /\ RAdd(y, RNeg(y)) = Zero
      /\ Imaginary(z.s, z.l) = Zero
      /\ RMul(RMul(a, a), Real(z.s, z.l)) = RAdd(RMul(b, b), RMul(RMul(a, a), RMul(y, y)))
      /\ Real(z.s, <<z.s[1], RNeg(z.s[2])>>) = Real(z.l, <<z.l[1], RNeg(z.l[2])>>)
  BY <1>1, Conjugates DEF Real, Imaginary, (+), (-), (.)
<1>3. RNeg(q) \in Rat /\ RNeg(y) \in Rat /\ Real(z.s, z.l) \in Rat
      /\ Real(z.s, <<z.s[1], RNeg(z.s[2])>>) \in Rat
  BY <1>1, NegType, MulType, SubType DEF Real, (-), (.)
<1>4. RMul(a, Real(z.s, z.l)) = c
  <2>1. RMul(b, b) \in Rat /\ RMul(a, c) \in Rat /\ RMul(a, a) \in Rat /\ RMul(a, Real(z.s, z.l)) \in Rat
    BY <1>3, MulType
  <2>2. RAdd(RMul(b, b), RSub(RMul(a, c), RMul(b, b))) = RMul(a, c)
    BY <2>1, Difference
  <2>3. RMul(RMul(a, a), Real(z.s, z.l)) = RMul(a, RMul(a, Real(z.s, z.l)))
    BY <1>3, MulAssoc
  <2>4. RMul(a, RMul(a, Real(z.s, z.l))) = RMul(a, c)
    BY <1>2, <2>2, <2>3
  <2>5. QED
    BY <2>1, <2>4, MulCancel
<1>5. RLeq(Real(z.s, <<z.s[1], RNeg(z.s[2])>>), Real(z.l, <<z.l[1], RNeg(z.l[2])>>))
  BY <1>2, <1>3, Order
<1>6. QED
  BY <1>1, <1>2, <1>4, <1>5 DEF BothZeros, (+), (.)

\* Quad_ak1 finds both zeros: by the cases of its discriminant.
LEMMA BothZerosFound ==
  ASSUME NEW a \in Rat, NEW b1 \in Rat, NEW c \in Rat,
         a # Zero => \E r \in Roots : r (.) r = RAbs(Discriminant(a, b1 (/) R(2), c))
  PROVE  BothZeros(a, b1, c, Quad(a, b1, c))
<1> DEFINE b == RDiv(b1, R(2))
           disc == Discriminant(a, b, c)
           d == SquareRoot(RAbs(disc))
           w == IF RLeq(Zero, b) THEN RSub(RNeg(d), b) ELSE RSub(d, b)
           lr == RDiv(w, a)
<1>1. R(2) \in Rat /\ R(2) # Zero /\ Zero \in Rat
  BY RType, ZeroOne DEF R, Zero
<1>2. b \in Rat /\ RMul(R(2), b) = b1
  BY <1>1, DivType, DivMul, MulComm
<1>3. Quad(a, b1, c) =
        IF a = Zero
        THEN Zeros(IF b1 # Zero THEN RNeg(RDiv(c, b1)) ELSE Zero, Zero, Zero, Zero)
        ELSE IF c = Zero
        THEN Zeros(Zero, Zero, RNeg(RDiv(b1, a)), Zero)
        ELSE IF RLeq(Zero, disc)
        THEN Zeros(IF lr # Zero THEN RDiv(c, RMul(lr, a)) ELSE Zero, Zero, lr, Zero)
        ELSE Zeros(RNeg(RDiv(b, a)), RAbs(RDiv(d, a)), RNeg(RDiv(b, a)), RNeg(RAbs(RDiv(d, a))))
  <2>1. LargerZero(a, b, d) = lr
    BY DEF LargerZero, (/), (-)
  <2> HIDE DEF lr, w
  <2>2. QED
    BY <2>1 DEF Quad, (/), (.)
<1>4. disc = RSub(RMul(b, b), RMul(a, c))
  BY DEF Discriminant, (-), (.)
<1>5. RMul(b, b) \in Rat /\ RMul(a, c) \in Rat /\ disc \in Rat
  BY <1>2, <1>4, MulType, SubType
<1>6. a # Zero => d \in Rat /\ RLeq(Zero, d) /\ RMul(d, d) = RAbs(disc)
  <2>1. a # Zero => \E r \in Roots : r (.) r = RAbs(disc)
    BY DEF (/)
  <2> HIDE DEF disc
  <2>2. QED
    BY <2>1, SquareRootFacts
<1> HIDE DEF b, disc, d
<1>7. CASE a = Zero
  <2>1. ASSUME b1 # Zero
        PROVE  RAdd(RMul(b1, RNeg(RDiv(c, b1))), c) = Zero
    <3>1. RDiv(c, b1) \in Rat /\ RMul(RDiv(c, b1), b1) = c
      BY <2>1, DivType, DivMul
    <3>2. RMul(b1, RNeg(RDiv(c, b1))) = RNeg(c)
      BY <3>1, NegFacts, MulComm
    <3>3. QED
      BY <3>2, NegType, AddComm, Neutral
  <2>2. Quad(a, b1, c).s[1] = IF b1 # Zero THEN RNeg(RDiv(c, b1)) ELSE Zero
    BY <1>3, <1>7 DEF Zeros
  <2>3. QED
    BY <1>7, <2>1, <2>2 DEF BothZeros, (+), (.)
<1>8. CASE a # Zero /\ c = Zero
  <2> DEFINE l == RNeg(RDiv(b1, a))
  <2>1. RDiv(b1, a) \in Rat /\ RMul(RDiv(b1, a), a) = b1 /\ l \in Rat
    BY <1>8, DivType, DivMul, NegType
  <2>2. RMul(a, RAdd(Zero, l)) = RNeg(b1)
    BY <2>1, Neutral, NegFacts, MulComm
  <2>3. RMul(Zero, RMul(l, a)) = c
    BY <1>8, <2>1, MulType, Neutral
  <2>4. RLeq(RMul(Zero, Zero), RMul(l, l))
    BY <1>1, <2>1, SquareType, Neutral
  <2>5. Quad(a, b1, c) = Zeros(Zero, Zero, l, Zero)
    BY <1>3, <1>8
  <2> HIDE DEF l
  <2>6. QED
    BY <1>1, <1>8, <2>1, <2>2, <2>3, <2>4, <2>5, RealZeros
<1>9. CASE a # Zero /\ c # Zero /\ RLeq(Zero, disc)
  <2>1. d \in Rat /\ RLeq(Zero, d) /\ RMul(d, d) = disc
    BY <1>5, <1>6, <1>9, AbsRat
  <2>2. w \in Rat /\ (w = RSub(RNeg(d), b) \/ w = RSub(d, b))
    BY <1>2, <2>1, SubType, NegType
  <2>3. lr \in Rat /\ RMul(a, lr) = w
    <3> HIDE DEF w
    <3>1. QED
      BY <1>9, <2>2, DivType, DivMul, MulComm
  <2>4. w # Zero
    <3> SUFFICES ASSUME w = Zero PROVE FALSE
      OBVIOUS
    <3>1. RAdd(RMul(w, w), RMul(R(2), RMul(b, w))) = RSub(RMul(d, d), RMul(b, b))
      BY <1>2, <2>1, <2>2, SumWithRoot DEF (+), (-), (.)
    <3>2. RSub(RMul(d, d), RMul(b, b)) = Zero
      BY <1>1, <1>2, <3>1, Neutral
    <3>3. RAdd(RMul(a, c), RSub(disc, RMul(b, b))) = Zero
      BY <1>4, <1>5, Cancels DEF (+), (-), (.)
    <3>4. RMul(a, c) = Zero
      BY <1>5, <2>1, <3>2, <3>3, Neutral
    <3>5. QED
      BY <1>9, <3>4, NoZeroDivisors
  <2> DEFINE s == RDiv(c, RMul(lr, a))
  <2> HIDE DEF lr
  <2>5. lr # Zero /\ RMul(lr, a) \in Rat /\ RMul(lr, a) # Zero
    <3>1. RMul(lr, a) = w
      BY <2>3, MulComm
    <3> HIDE DEF w
    <3>2. QED
      BY <1>9, <2>2, <2>3, <2>4, <3>1, NoZeroDivisors
  <2>6. s \in Rat /\ RMul(s, RMul(lr, a)) = c
    BY <2>5, DivType, DivMul
  <2>7. Quad(a, b1, c) = Zeros(s, Zero, lr, Zero)
    BY <1>3, <1>9, <2>5
  <2>8. w = IF RLeq(Zero, b) THEN RSub(RNeg(d), b) ELSE RSub(d, b)
    OBVIOUS
  <2> HIDE DEF s, w
  <2>9. RMul(a, RAdd(s, lr)) = RNeg(RMul(R(2), b))
    <3>1. RMul(d, d) = RSub(RMul(b, b), RMul(a, c))
      BY <1>4, <2>1
    <3>2. a \in Rat /\ b \in Rat /\ c \in Rat /\ d \in Rat /\ w \in Rat /\ lr \in Rat /\ s \in Rat /\ a # Zero
          /\ lr # Zero
      BY <1>2, <1>9, <2>1, <2>2, <2>3, <2>5, <2>6
    <3>3. RMul(a, lr) \in {RSub(RNeg(d), b), RSub(d, b)}
      BY <2>2, <2>3
    <3>4. RMul(d, d) = RSub(RMul(b, b), RMul(a, RMul(s, RMul(lr, a))))
      BY <2>6, <3>1
    <3>5. QED
      BY <3>3, <3>4, <3>2, ZeroOfSum
  <2>10. RLeq(RMul(s, s), RMul(lr, lr))
    BY <1>2, <1>9, <2>1, <2>2, <2>3, <2>6, <2>8, <2>9, LargerFirst
  <2>11. QED
    BY <1>2, <1>9, <2>3, <2>6, <2>7, <2>9, <2>10, RealZeros
<1>10. CASE a # Zero /\ c # Zero /\ ~RLeq(Zero, disc)
  <2> DEFINE q == RDiv(b, a)
             e == RDiv(d, a)
             y == RAbs(e)
  <2>1. d \in Rat /\ RMul(d, d) = RAbs(disc)
    BY <1>6, <1>10
  <2>2. RMul(d, d) = RSub(RMul(a, c), RMul(b, b))
    <3>1. RAbs(disc) = RNeg(disc)
      <4>1. disc[1] \in Int /\ disc[1] < 0
        BY <1>1, <1>5, <1>10, RatType, Order
      <4>2. QED
        BY <4>1 DEF RAbs, RNeg, AbsInt
    <3>2. RNeg(RSub(RMul(b, b), RMul(a, c))) = RSub(RMul(a, c), RMul(b, b))
      BY <1>5, Opposite DEF (-)
    <3>3. QED
      BY <1>4, <2>1, <3>1, <3>2
  <2>3. q \in Rat /\ RMul(a, q) = b /\ e \in Rat /\ RMul(a, e) = d /\ y \in Rat
    BY <1>2, <1>10, <2>1, DivType, DivMul, MulComm, AbsRat
  <2>4. RMul(RMul(a, a), RMul(y, y)) = RMul(d, d)
    <3>1. RMul(y, y) = RMul(e, e)
      <4>1. y = e \/ y = RNeg(e)
        <5>1. AbsInt(e[1]) = e[1] \/ AbsInt(e[1]) = -e[1]
          BY DEF AbsInt
        <5>2. e = <<e[1], e[2]>>
          BY <2>3, RatType
        <5>3. QED
          BY <5>1, <5>2 DEF RAbs, RNeg
      <4>2. RMul(RNeg(e), RNeg(e)) = RMul(e, e)
        BY <2>3, NegFacts, NegType, MulType
      <4>3. QED
        BY <4>1, <4>2
    <3> HIDE DEF y, e
    <3>2. RMul(RMul(a, a), RMul(e, e)) = RMul(RMul(a, e), RMul(a, e))
      BY <2>3, SquareOfProduct DEF (.)
    <3>3. QED
      BY <2>3, <3>1, <3>2
  <2>5. Quad(a, b1, c) = Zeros(RNeg(q), y, RNeg(q), RNeg(y))
    BY <1>3, <1>10
  <2> HIDE DEF q, e, y
  <2>6. QED
    BY <1>2, <1>10, <2>1, <2>2, <2>3, <2>4, <2>5, ComplexZeros
<1>11. QED
  BY <1>7, <1>8, <1>9, <1>10

\* Both zeros of every quadratic are found with their multiplicity, the larger one as l
\* (Quad_ak1).
THEOREM BothZerosAreFound ==
  NumericsSpec => []QuadFindsBothZeros
<1>1. AnswerIsOfTask => QuadFindsBothZeros
  <2> SUFFICES ASSUME AnswerIsOfTask, Done("zeros")
               PROVE  QuadFindsBothZeros
    BY DEF QuadFindsBothZeros
  <2>1. task \in ZerosTasks /\ answer.value = Quad(task.a, task.b, task.c)
    BY KindOfTask DEF AnswerIsOfTask, Done
  <2>2. task.a \in Rat /\ task.b \in Rat /\ task.c \in Rat
        /\ (task.a # Zero => \E r \in Roots : r (.) r = RAbs(Discriminant(task.a, task.b (/) R(2), task.c)))
    BY <2>1, ZerosAssumption
  <2>3. BothZeros(task.a, task.b, task.c, answer.value)
    BY <2>1, <2>2, BothZerosFound
  <2>4. QED
    BY <2>3 DEF QuadFindsBothZeros, BothZeros, Real, Imaginary
<1>2. QED
  BY <1>1, AnswersMatch, PTL

-----------------------------------------------------------------------------
(* Polynomials: their coefficients counted from the leading one, zero       *)
(* outside, so that sums and products need no case for the ends             *)

Term(p, n, i) == IF i \in 0 .. n THEN p[i] ELSE Zero

\* A term is a fraction.
LEMMA TermType ==
  ASSUME NEW n \in Nat, NEW p \in [0 .. n -> Rat], NEW i
  PROVE  Term(p, n, i) \in Rat
BY ZeroOne DEF Term

\* The coefficient of a power is the term counted from the leading one.
LEMMA CoefficientIs ==
  ASSUME NEW n \in 0 .. 12, NEW p \in [0 .. n -> Rat], NEW k \in Int
  PROVE  Coefficient(p, k) = Term(p, n, n - k)
<1> HIDE DEF Degree
<1>1. Degree(p) = n
  BY DegreeOf, Zenon
<1>2. k \in 0 .. n <=> n - k \in 0 .. n
  OBVIOUS
<1>3. QED
  BY <1>1, <1>2 DEF Coefficient, Term

\* Polynomials with the same terms are the same.
LEMMA SameIs ==
  ASSUME NEW m \in 0 .. 12, NEW p \in [0 .. m -> Rat], NEW n \in 0 .. 12, NEW q \in [0 .. n -> Rat],
         \A k \in 0 .. 12 : Term(p, m, m - k) = Term(q, n, n - k)
  PROVE  Same(p, q)
<1> HIDE DEF Degree
<1>1. ASSUME NEW k \in 0 .. 12
      PROVE  Coefficient(p, k) = Coefficient(q, k)
  <2>1. k \in Int
    OBVIOUS
  <2>2. Coefficient(p, k) = Term(p, m, m - k)
    BY <2>1, CoefficientIs
  <2>3. Coefficient(q, k) = Term(q, n, n - k)
    BY <2>1, CoefficientIs
  <2>4. QED
    BY <2>2, <2>3
<1>2. QED
  BY <1>1 DEF Same

\* The terms of a multiple.
LEMMA TimesIs ==
  ASSUME NEW n \in 0 .. 12, NEW p \in [0 .. n -> Rat], NEW t \in Rat
  PROVE  /\ Times(t, p) \in [0 .. n -> Rat]
         /\ \A i : Term(Times(t, p), n, i) = RMul(t, Term(p, n, i))
<1>1. DOMAIN p = 0 .. n
  OBVIOUS
<1>2. \A i \in 0 .. n : RMul(t, p[i]) \in Rat
  BY MulType
<1>3. Times(t, p) = [i \in 0 .. n |-> RMul(t, p[i])]
  BY <1>1 DEF Times, (.)
<1>4. RMul(t, Zero) = Zero
  BY Neutral
<1>5. QED
  BY <1>2, <1>3, <1>4 DEF Term

\* The terms of a sum.
LEMMA PlusIs ==
  ASSUME NEW m \in 0 .. 12, NEW p \in [0 .. m -> Rat], NEW n \in 0 .. m, NEW q \in [0 .. n -> Rat]
  PROVE  /\ Plus(p, q) \in [0 .. m -> Rat]
         /\ \A i \in Int : Term(Plus(p, q), m, i) = RAdd(Term(p, m, i), Term(q, n, i - (m - n)))
<1> HIDE DEF Degree
<1>1. n \in 0 .. 12 /\ m \in Nat /\ n \in Nat /\ ~(m < n)
  OBVIOUS
<1>2. Degree(p) = m /\ Degree(q) = n
  BY <1>1, DegreeOf, Zenon
<1>3. (IF Degree(p) > Degree(q) THEN Degree(p) ELSE Degree(q)) = m
  BY <1>1, <1>2
<1>4. Plus(p, q) = [i \in 0 .. m |-> RAdd(Coefficient(p, m - i), Coefficient(q, m - i))]
  BY <1>3 DEF Plus, (+)
<1>5. ASSUME NEW i \in 0 .. m
      PROVE  RAdd(Coefficient(p, m - i), Coefficient(q, m - i)) = RAdd(Term(p, m, i), Term(q, n, i - (m - n)))
             /\ RAdd(Term(p, m, i), Term(q, n, i - (m - n))) \in Rat
  <2>1. m - i \in Int /\ m - (m - i) = i /\ n - (m - i) = i - (m - n)
    OBVIOUS
  <2>2. Coefficient(p, m - i) = Term(p, m, i) /\ Coefficient(q, m - i) = Term(q, n, i - (m - n))
    BY <1>1, <2>1, CoefficientIs
  <2>3. QED
    BY <1>1, <2>2, TermType, AddType
<1>6. Plus(p, q) \in [0 .. m -> Rat] /\ \A i \in 0 .. m : Plus(p, q)[i] = RAdd(Term(p, m, i), Term(q, n, i - (m - n)))
  BY <1>4, <1>5
<1>7. ASSUME NEW i \in Int
      PROVE  Term(Plus(p, q), m, i) = RAdd(Term(p, m, i), Term(q, n, i - (m - n)))
  <2>1. CASE i \in 0 .. m
    BY <1>6, <2>1 DEF Term
  <2>2. CASE i \notin 0 .. m
    <3>1. i - (m - n) \notin 0 .. n
      BY <2>2
    <3>2. RAdd(Zero, Zero) = Zero
      BY ZeroOne, Neutral
    <3>3. QED
      BY <2>2, <3>1, <3>2 DEF Term
  <2>3. QED
    BY <2>1, <2>2
<1>8. QED
  BY <1>6, <1>7

\* Sums.
IsSum(h, n, f) == h = [i \in 0 .. n |-> IF i = 0 THEN f[0] ELSE h[i - 1] (+) f[i]]

\* The partial sums of finitely many fractions exist.
LEMMA SumExists ==
  ASSUME NEW n \in Nat, NEW f \in [0 .. n -> Rat]
  PROVE  \E g : IsSum(g, n, f)
<1> DEFINE step == [z \in (1 .. n) \X Rat |-> RAdd(z[2], f[z[1]])]
           base == f[0]
<1>0. base \in Rat
  OBVIOUS
<1>1. step \in [(1 .. n) \X Rat -> Rat]
  <2> SUFFICES ASSUME NEW z \in (1 .. n) \X Rat
               PROVE  RAdd(z[2], f[z[1]]) \in Rat
    OBVIOUS
  <2>1. z[2] \in Rat /\ f[z[1]] \in Rat
    OBVIOUS
  <2>2. QED
    BY <2>1, AddType
<1>2. ASSUME NEW i \in 1 .. n, NEW y \in Rat
      PROVE  step[<<i, y>>] = RAdd(y, f[i])
  OBVIOUS
<1> HIDE DEF step, base
<1>3. \E g \in [0 .. n -> Rat] : Follows(g, n, base, step)
  BY <1>0, <1>1, Recursion
<1>4. PICK g \in [0 .. n -> Rat] : \A i \in 0 .. n : g[i] = IF i = 0 THEN base ELSE step[<<i, g[i - 1]>>]
  BY <1>3 DEF Follows
<1>5. ASSUME NEW i \in 0 .. n
      PROVE  g[i] = IF i = 0 THEN f[0] ELSE g[i - 1] (+) f[i]
  <2>1. CASE i = 0
    BY <1>4, <2>1 DEF base
  <2>2. CASE i # 0
    <3>1. i \in 1 .. n /\ i - 1 \in 0 .. n /\ g[i - 1] \in Rat
      BY <2>2
    <3>2. g[i] = step[<<i, g[i - 1]>>]
      BY <1>4, <2>2
    <3>3. step[<<i, g[i - 1]>>] = RAdd(g[i - 1], f[i])
      BY <1>2, <3>1
    <3>4. QED
      BY <2>2, <3>2, <3>3 DEF (+)
  <2>3. QED
    BY <2>1, <2>2
<1>6. IsSum(g, n, f)
  BY <1>5 DEF IsSum
<1>7. QED
  BY <1>6

\* The sum ends where the terms are zero.
LEMMA SumEnds ==
  ASSUME NEW n \in Nat, NEW f \in [0 .. n -> Rat]
  PROVE  \E h : /\ h[0] = f[0] /\ \A i \in 1 .. n : h[i] = RAdd(h[i - 1], f[i])
                /\ \A d \in 0 .. n : (h[d] \in Rat /\ \A i \in d + 1 .. n : f[i] = Zero) => SumTo(f, n) = h[d]
<1> DEFINE h == CHOOSE g : g = [i \in 0 .. n |-> IF i = 0 THEN f[0] ELSE g[i - 1] (+) f[i]]
<1>1. SumTo(f, n) = h[n]
  BY DEF SumTo
<1>2. PICK g : IsSum(g, n, f)
  BY SumExists
<1>3. IsSum(h, n, f)
  BY <1>2 DEF IsSum
<1> HIDE DEF h
<1>4. \A i \in 0 .. n : h[i] = IF i = 0 THEN f[0] ELSE h[i - 1] (+) f[i]
  BY <1>3 DEF IsSum
<1>5. h[0] = f[0] /\ \A i \in 1 .. n : h[i] = RAdd(h[i - 1], f[i])
  <2>1. 0 \in 0 .. n /\ \A i \in 1 .. n : i \in 0 .. n /\ i # 0
    OBVIOUS
  <2>2. QED
    BY <1>4, <2>1 DEF (+)
<1>6. ASSUME NEW d \in 0 .. n, h[d] \in Rat, \A i \in d + 1 .. n : f[i] = Zero
      PROVE  h[n] = h[d]
  <2> DEFINE S == {k \in Nat : d + k <= n => h[d + k] = h[d]}
  <2>1. 0 \in S
    OBVIOUS
  <2>2. ASSUME NEW k \in Nat, k \in S
        PROVE  k + 1 \in S
    <3> SUFFICES ASSUME d + (k + 1) <= n
                 PROVE  h[d + (k + 1)] = h[d]
      OBVIOUS
    <3>1. d + (k + 1) \in 1 .. n /\ d + (k + 1) \in d + 1 .. n /\ (d + (k + 1)) - 1 = d + k /\ h[d + k] = h[d]
      BY <2>2
    <3>2. h[d + (k + 1)] = RAdd(h[d], Zero)
      BY <1>5, <1>6, <3>1
    <3>3. QED
      BY <1>6, <3>2, Neutral
  <2> HIDE DEF S
  <2>3. Nat \subseteq S
    BY <2>1, <2>2, SetInduction
  <2>4. n - d \in Nat /\ d + (n - d) = n
    OBVIOUS
  <2>5. QED
    BY <2>3, <2>4 DEF S
<1>7. QED
  BY <1>1, <1>5, <1>6

\* A sum of which at most three terms are not zero.
LEMMA SumOfFew ==
  ASSUME NEW n \in Nat, NEW f \in [0 .. n -> Rat], NEW d \in 0 .. 2, d <= n,
         \A i \in d + 1 .. n : f[i] = Zero
  PROVE  SumTo(f, n) = IF d = 0 THEN f[0] ELSE IF d = 1 THEN RAdd(f[0], f[1]) ELSE RAdd(RAdd(f[0], f[1]), f[2])
<1>1. PICK h : /\ h[0] = f[0] /\ \A i \in 1 .. n : h[i] = RAdd(h[i - 1], f[i])
               /\ \A k \in 0 .. n : (h[k] \in Rat /\ \A i \in k + 1 .. n : f[i] = Zero) => SumTo(f, n) = h[k]
  BY SumEnds
<1>2. h[0] = f[0] /\ f[0] \in Rat
  BY <1>1
<1>3. d >= 1 => h[1] = RAdd(f[0], f[1]) /\ f[1] \in Rat
  <2>1. d >= 1 => 1 \in 1 .. n /\ 1 \in 0 .. n /\ 1 - 1 = 0
    OBVIOUS
  <2>2. QED
    BY <1>1, <1>2, <2>1
<1>4. d = 2 => h[2] = RAdd(RAdd(f[0], f[1]), f[2]) /\ f[2] \in Rat
  <2>1. d = 2 => 2 \in 1 .. n /\ 2 \in 0 .. n /\ 2 - 1 = 1 /\ d >= 1
    OBVIOUS
  <2>2. QED
    BY <1>1, <1>3, <2>1
<1>5. h[d] \in Rat /\ h[d] = IF d = 0 THEN f[0] ELSE IF d = 1 THEN RAdd(f[0], f[1]) ELSE RAdd(RAdd(f[0], f[1]), f[2])
  <2>1. d = 0 \/ d = 1 \/ d = 2
    OBVIOUS
  <2>2. QED
    BY <1>2, <1>3, <1>4, <2>1, AddType
<1>6. d \in 0 .. n
  OBVIOUS
<1>7. SumTo(f, n) = h[d]
  BY <1>1, <1>5, <1>6
<1>8. QED
  BY <1>5, <1>7

\* The product by a polynomial of degree two at most.
LEMMA ProductIs ==
  ASSUME NEW d \in 0 .. 2, NEW p \in [0 .. d -> Rat], NEW m \in 2 .. 12, NEW q \in [0 .. m -> Rat], d + m <= 12
  PROVE  /\ Product(p, q) \in [0 .. d + m -> Rat]
         /\ \A i \in Int :
               Term(Product(p, q), d + m, i) =
                  IF d = 0 THEN RMul(p[0], Term(q, m, i))
                  ELSE IF d = 1 THEN RAdd(RMul(p[1], Term(q, m, i - 1)), RMul(p[0], Term(q, m, i)))
                  ELSE RAdd(RAdd(RMul(p[2], Term(q, m, i - 2)), RMul(p[1], Term(q, m, i - 1))),
                            RMul(p[0], Term(q, m, i)))
<1> HIDE DEF Degree
<1>1. d \in 0 .. 12 /\ m \in 0 .. 12 /\ d \in Nat /\ m \in Nat /\ d + m \in Nat
  OBVIOUS
<1>2. Degree(p) = d /\ Degree(q) = m
  BY <1>1, DegreeOf, Zenon
<1> DEFINE n == d + m
           f(i) == [k \in 0 .. n |-> RMul(Coefficient(p, k), Coefficient(q, n - i - k))]
           sum(i) == IF d = 0 THEN RMul(p[0], Term(q, m, i))
                     ELSE IF d = 1 THEN RAdd(RMul(p[1], Term(q, m, i - 1)), RMul(p[0], Term(q, m, i)))
                     ELSE RAdd(RAdd(RMul(p[2], Term(q, m, i - 2)), RMul(p[1], Term(q, m, i - 1))),
                               RMul(p[0], Term(q, m, i)))
<1>3. Product(p, q) = [i \in 0 .. n |-> SumTo(f(i), n)]
  BY <1>2 DEF Product, (.)
<1>4. ASSUME NEW i \in Int
      PROVE  sum(i) \in Rat
  <2>1. Term(q, m, i) \in Rat /\ Term(q, m, i - 1) \in Rat /\ Term(q, m, i - 2) \in Rat
    BY <1>1, TermType
  <2>2. d = 0 \/ d = 1 \/ d = 2
    OBVIOUS
  <2>3. \A l \in 0 .. d : p[l] \in Rat
    OBVIOUS
  <2>4. CASE d = 0
    BY <2>1, <2>3, <2>4, MulType
  <2>5. CASE d = 1
    BY <2>1, <2>3, <2>5, MulType, AddType
  <2>6. CASE d = 2
    BY <2>1, <2>3, <2>6, MulType, AddType
  <2>7. QED
    BY <2>2, <2>4, <2>5, <2>6
<1>5. ASSUME NEW i \in 0 .. n
      PROVE  SumTo(f(i), n) = sum(i)
  <2>1. ASSUME NEW k \in 0 .. n
        PROVE  /\ f(i)[k] = RMul(Term(p, d, d - k), Term(q, m, i - (d - k)))
               /\ f(i)[k] \in Rat
               /\ (k > d => f(i)[k] = Zero)
    <3>1. k \in Int /\ n - i - k \in Int /\ m - (n - i - k) = i - (d - k)
      OBVIOUS
    <3>2. Coefficient(p, k) = Term(p, d, d - k)
      BY <1>1, <3>1, CoefficientIs
    <3>3. Coefficient(q, n - i - k) = Term(q, m, m - (n - i - k))
      BY <1>1, <3>1, CoefficientIs
    <3>4. Term(p, d, d - k) \in Rat /\ Term(q, m, i - (d - k)) \in Rat
      BY <1>1, TermType
    <3>5. k > d => Term(p, d, d - k) = Zero
      BY DEF Term
    <3>6. f(i)[k] = RMul(Coefficient(p, k), Coefficient(q, n - i - k))
      OBVIOUS
    <3>7. QED
      BY <3>1, <3>2, <3>3, <3>4, <3>5, <3>6, MulType, Neutral
  <2>2. f(i) \in [0 .. n -> Rat]
    <3>1. f(i) = [k \in 0 .. n |-> f(i)[k]]
      OBVIOUS
    <3>2. QED
      BY <2>1, <3>1
  <2> DEFINE g == f(i)
  <2>3. g \in [0 .. n -> Rat] /\ \A k \in d + 1 .. n : g[k] = Zero
    BY <2>1, <2>2
  <2>4. \A k \in 0 .. n : g[k] = RMul(Term(p, d, d - k), Term(q, m, i - (d - k)))
    BY <2>1
  <2> HIDE DEF g
  <2>5. SumTo(g, n) = IF d = 0 THEN g[0] ELSE IF d = 1 THEN RAdd(g[0], g[1]) ELSE RAdd(RAdd(g[0], g[1]), g[2])
    BY <1>1, <2>3, SumOfFew
  <2>6. 0 \in 0 .. n /\ 1 \in 0 .. n /\ 2 \in 0 .. n
    OBVIOUS
  <2>7. CASE d = 0
    <3>1. g[0] = RMul(Term(p, d, d - 0), Term(q, m, i - (d - 0)))
      BY <2>4, <2>6
    <3>2. g[0] = RMul(p[0], Term(q, m, i))
      BY <2>7, <3>1 DEF Term
    <3>3. QED
      BY <2>5, <2>7, <3>2 DEF g
  <2>8. CASE d = 1
    <3>1. g[0] = RMul(Term(p, d, 1), Term(q, m, i - 1)) /\ g[1] = RMul(Term(p, d, 0), Term(q, m, i - 0))
      BY <2>4, <2>6, <2>8
    <3>2. Term(p, d, 1) = p[1] /\ Term(p, d, 0) = p[0] /\ i - 0 = i
      BY <2>8 DEF Term
    <3>3. QED
      BY <2>5, <2>8, <3>1, <3>2 DEF g
  <2>9. CASE d = 2
    <3>1. g[0] = RMul(Term(p, d, 2), Term(q, m, i - 2)) /\ g[1] = RMul(Term(p, d, 1), Term(q, m, i - 1))
          /\ g[2] = RMul(Term(p, d, 0), Term(q, m, i - 0))
      BY <2>4, <2>6, <2>9
    <3>2. Term(p, d, 2) = p[2] /\ Term(p, d, 1) = p[1] /\ Term(p, d, 0) = p[0] /\ i - 0 = i
      BY <2>9 DEF Term
    <3>3. QED
      BY <2>5, <2>9, <3>1, <3>2 DEF g
  <2>10. QED
    BY <2>7, <2>8, <2>9
<1>6. Product(p, q) \in [0 .. n -> Rat] /\ \A i \in 0 .. n : Product(p, q)[i] = sum(i)
  <2> HIDE DEF f, sum
  <2>1. \A i \in 0 .. n : SumTo(f(i), n) = sum(i) /\ sum(i) \in Rat
    BY <1>4, <1>5
  <2>2. QED
    BY <1>3, <2>1
<1>7. ASSUME NEW i \in Int
      PROVE  Term(Product(p, q), n, i) = sum(i)
  <2>1. CASE i \in 0 .. n
    BY <1>6, <2>1 DEF Term
  <2>2. CASE i \notin 0 .. n
    <3>1. i \notin 0 .. m /\ (d >= 1 => i - 1 \notin 0 .. m) /\ (d = 2 => i - 2 \notin 0 .. m)
      BY <2>2
    <3>2. Zero \in Rat /\ RAdd(Zero, Zero) = Zero /\ \A l \in 0 .. d : p[l] \in Rat /\ RMul(p[l], Zero) = Zero
      BY ZeroOne, Neutral
    <3>3. d = 0 \/ d = 1 \/ d = 2
      OBVIOUS
    <3>4. Term(Product(p, q), n, i) = Zero
      BY <2>2 DEF Term
    <3>5. sum(i) = Zero
      <4>1. CASE d = 0
        BY <3>1, <3>2, <4>1 DEF Term
      <4>2. CASE d = 1
        BY <3>1, <3>2, <4>2 DEF Term
      <4>3. CASE d = 2
        BY <3>1, <3>2, <4>3 DEF Term
      <4>4. QED
        BY <3>3, <4>1, <4>2, <4>3
    <3>6. QED
      BY <3>4, <3>5
  <2>3. QED
    BY <2>1, <2>2
<1>8. QED
  BY <1>6, <1>7

-----------------------------------------------------------------------------
(* Divisions                                                                *)

\* The division by x^2 + u x + v.
IsQuotient(h, n, u, v, p) ==
    h = [i \in 0 .. n |->
            p[i] (-) ((IF i > 0 THEN u (.) h[i - 1] ELSE Zero)
                      (+) (IF i > 1 THEN v (.) h[i - 2] ELSE Zero))]

\* The quotient of a division by a quadratic exists.
LEMMA QuotientExists ==
  ASSUME NEW n \in Nat, NEW u \in Rat, NEW v \in Rat, NEW p \in [0 .. n -> Rat]
  PROVE  \E g : IsQuotient(g, n, u, v, p)
<1> DEFINE Pair == Rat \X Rat
           next(i, z) == RSub(p[i], RAdd(RMul(u, z[1]), RMul(v, z[2])))
           step == [y \in (1 .. n) \X Pair |-> <<next(y[1], y[2]), y[2][1]>>]
           base == <<p[0], Zero>>
<1>0. base \in Pair
  BY ZeroOne
<1>1. ASSUME NEW i \in 1 .. n, NEW z \in Pair
      PROVE  next(i, z) \in Rat /\ z[1] \in Rat
  <2>1. p[i] \in Rat /\ z[1] \in Rat /\ z[2] \in Rat
    OBVIOUS
  <2>2. QED
    BY <2>1, MulType, AddType, SubType
<1>2. ASSUME NEW i \in 1 .. n, NEW z \in Pair
      PROVE  step[<<i, z>>] = <<next(i, z), z[1]>>
  OBVIOUS
<1>3. step \in [(1 .. n) \X Pair -> Pair]
  <2> HIDE DEF next
  <2> SUFFICES ASSUME NEW y \in (1 .. n) \X Pair
               PROVE  <<next(y[1], y[2]), y[2][1]>> \in Pair
    OBVIOUS
  <2>1. y[1] \in 1 .. n /\ y[2] \in Pair
    OBVIOUS
  <2>2. next(y[1], y[2]) \in Rat /\ y[2][1] \in Rat
    BY <1>1, <2>1
  <2>3. QED
    BY <2>2
<1> HIDE DEF step, base
<1>4. \E g \in [0 .. n -> Pair] : Follows(g, n, base, step)
  <2> HIDE DEF Pair
  <2>1. QED
    BY <1>0, <1>3, Recursion
<1>5. PICK g \in [0 .. n -> Pair] : \A i \in 0 .. n : g[i] = IF i = 0 THEN base ELSE step[<<i, g[i - 1]>>]
  BY <1>4 DEF Follows
<1> DEFINE h == [i \in 0 .. n |-> g[i][1]]
<1>6. \A i \in 0 .. n : g[i] \in Pair /\ h[i] = g[i][1]
  OBVIOUS
<1>7. ASSUME NEW i \in 1 .. n
      PROVE  i - 1 \in 0 .. n /\ g[i][1] = next(i, g[i - 1]) /\ g[i][2] = h[i - 1]
  <2>1. i \in 0 .. n /\ i # 0 /\ i - 1 \in 0 .. n
    OBVIOUS
  <2>2. g[i] = <<next(i, g[i - 1]), g[i - 1][1]>>
    BY <1>2, <1>5, <1>6, <2>1
  <2>3. QED
    BY <1>6, <2>1, <2>2
<1>8. g[0] = <<p[0], Zero>>
  <2>1. 0 \in 0 .. n
    OBVIOUS
  <2>2. QED
    BY <1>5, <2>1 DEF base
<1>9. ASSUME NEW i \in 0 .. n
      PROVE  h[i] = p[i] (-) ((IF i > 0 THEN u (.) h[i - 1] ELSE Zero)
                              (+) (IF i > 1 THEN v (.) h[i - 2] ELSE Zero))
  <2>0. Zero \in Rat /\ RAdd(Zero, Zero) = Zero /\ RMul(v, Zero) = Zero /\ \A x \in Rat : RSub(x, Zero) = x
    BY ZeroOne, Neutral, NegZero DEF RSub
  <2>1. CASE i = 0
    <3>1. h[0] = p[0] /\ p[0] \in Rat
      BY <1>6, <1>8
    <3>2. ~(i > 0) /\ ~(i > 1)
      BY <2>1
    <3> HIDE DEF h
    <3>3. QED
      BY <2>0, <2>1, <3>1, <3>2 DEF (+), (-)
  <2>2. CASE i = 1
    <3>1. h[1] = next(1, g[0]) /\ h[0] = p[0]
      <4>1. 1 \in 1 .. n /\ 1 \in 0 .. n /\ 1 - 1 = 0 /\ 0 \in 0 .. n
        BY <2>2
      <4> HIDE DEF next
      <4>2. g[1][1] = next(1, g[1 - 1])
        BY <1>7, <4>1, Zenon
      <4>3. h[1] = g[1][1] /\ h[0] = g[0][1]
        BY <1>6, <4>1
      <4>4. g[0][1] = p[0] /\ g[1 - 1] = g[0]
        BY <1>8, <4>1
      <4> HIDE DEF h
      <4>5. QED
        BY <4>2, <4>3, <4>4
    <3>2. h[1] = RSub(p[1], RAdd(RMul(u, h[0]), Zero))
      BY <1>8, <2>0, <3>1
    <3>3. i > 0 /\ ~(i > 1) /\ i - 1 = 0
      BY <2>2
    <3> HIDE DEF h
    <3>4. QED
      BY <2>2, <3>2, <3>3 DEF (+), (-), (.)
  <2>3. CASE i > 1
    <3>1. i \in 1 .. n /\ i - 1 \in 1 .. n /\ i - 2 \in 0 .. n /\ (i - 1) - 1 = i - 2 /\ i - 1 \in 0 .. n /\ i > 0
      BY <2>3
    <3>2. h[i] = next(i, g[i - 1]) /\ g[i - 1][1] = h[i - 1] /\ g[i - 1][2] = h[i - 2]
      <4> HIDE DEF next
      <4>1. QED
        BY <1>6, <1>7, <3>1
    <3>3. h[i] = RSub(p[i], RAdd(RMul(u, h[i - 1]), RMul(v, h[i - 2])))
      BY <3>2
    <3> HIDE DEF h
    <3>4. QED
      BY <2>3, <3>1, <3>3 DEF (+), (-), (.)
  <2>4. QED
    BY <2>1, <2>2, <2>3
<1>10. IsQuotient(h, n, u, v, p)
  BY <1>9 DEF IsQuotient
<1>11. QED
  BY <1>10

\* Times the divisor, with the remainder as its last two terms, it is the dividend.
LEMMA QuotientFacts ==
  ASSUME NEW n \in Nat, NEW u \in Rat, NEW v \in Rat, NEW p \in [0 .. n -> Rat],
         NEW h, IsQuotient(h, n, u, v, p)
  PROVE  /\ h \in [0 .. n -> Rat]
         /\ \A i \in Int : i <= n =>
               RAdd(Term(h, n, i), RAdd(RMul(u, Term(h, n, i - 1)), RMul(v, Term(h, n, i - 2)))) = Term(p, n, i)
<1>1. DOMAIN h = 0 .. n
  BY DEF IsQuotient
<1>2. \A i \in 0 .. n : h[i] = p[i] (-) ((IF i > 0 THEN u (.) h[i - 1] ELSE Zero)
                                         (+) (IF i > 1 THEN v (.) h[i - 2] ELSE Zero))
  BY DEF IsQuotient
<1>3. h = [i \in 0 .. n |-> h[i]]
  BY <1>1 DEF IsQuotient
<1>4. Zero \in Rat /\ RMul(u, Zero) = Zero /\ RMul(v, Zero) = Zero
  BY ZeroOne, Neutral
<1>5. ASSUME NEW i \in 0 .. n
      PROVE  h[i] = RSub(p[i], RAdd(RMul(u, Term(h, n, i - 1)), RMul(v, Term(h, n, i - 2))))
  <2>1. (IF i > 0 THEN RMul(u, h[i - 1]) ELSE Zero) = RMul(u, Term(h, n, i - 1))
    BY <1>4 DEF Term
  <2>2. (IF i > 1 THEN RMul(v, h[i - 2]) ELSE Zero) = RMul(v, Term(h, n, i - 2))
    BY <1>4 DEF Term
  <2>3. h[i] = RSub(p[i], RAdd((IF i > 0 THEN RMul(u, h[i - 1]) ELSE Zero), (IF i > 1 THEN RMul(v, h[i - 2]) ELSE Zero)))
    BY <1>2 DEF (+), (-), (.)
  <2>4. QED
    BY <2>1, <2>2, <2>3
<1>6. ASSUME NEW i \in 0 .. n, Term(h, n, i - 1) \in Rat, Term(h, n, i - 2) \in Rat
      PROVE  h[i] \in Rat
  <2>1. p[i] \in Rat
    OBVIOUS
  <2>2. RAdd(RMul(u, Term(h, n, i - 1)), RMul(v, Term(h, n, i - 2))) \in Rat
    BY <1>6, MulType, AddType
  <2>3. QED
    BY <1>5, <2>1, <2>2, SubType
<1> DEFINE S == {m \in Nat : Term(h, n, m - 1) \in Rat /\ Term(h, n, m - 2) \in Rat}
<1>7. 0 \in S
  BY <1>4 DEF Term
<1>8. ASSUME NEW m \in Nat, m \in S
      PROVE  m + 1 \in S
  <2>1. (m + 1) - 1 = m /\ (m + 1) - 2 = m - 1 /\ Term(h, n, m - 1) \in Rat /\ Term(h, n, m - 2) \in Rat
    BY <1>8
  <2>2. Term(h, n, m) \in Rat
    <3>1. CASE m \in 0 .. n
      BY <1>6, <2>1, <3>1 DEF Term
    <3>2. CASE m \notin 0 .. n
      BY <1>4, <3>2 DEF Term
    <3>3. QED
      BY <3>1, <3>2
  <2>3. QED
    BY <2>1, <2>2
<1> HIDE DEF S
<1>9. Nat \subseteq S
  BY <1>7, <1>8, SetInduction
<1>10. ASSUME NEW i \in 0 .. n
       PROVE  h[i] \in Rat
  <2>1. i \in S
    BY <1>9
  <2>2. QED
    BY <1>6, <2>1 DEF S
<1>11. h \in [0 .. n -> Rat]
  BY <1>3, <1>10
<1>12. ASSUME NEW i \in Int, i <= n
       PROVE  RAdd(Term(h, n, i), RAdd(RMul(u, Term(h, n, i - 1)), RMul(v, Term(h, n, i - 2)))) = Term(p, n, i)
  <2>1. CASE i >= 0
    <3>1. i \in 0 .. n
      BY <1>12, <2>1
    <3> DEFINE x == RAdd(RMul(u, Term(h, n, i - 1)), RMul(v, Term(h, n, i - 2)))
    <3>2. x \in Rat
      BY <1>11, TermType, MulType, AddType
    <3>3. h[i] = RSub(p[i], x) /\ p[i] \in Rat /\ h[i] \in Rat
      BY <1>5, <1>10, <3>1
    <3> HIDE DEF x
    <3>4. RAdd(x, RSub(p[i], x)) = p[i]
      BY <3>2, <3>3, Difference
    <3>5. RAdd(h[i], x) = p[i]
      BY <3>2, <3>3, <3>4, AddComm
    <3>6. QED
      BY <3>1, <3>5 DEF Term, x
  <2>2. CASE i < 0
    <3>1. i \notin 0 .. n /\ i - 1 \notin 0 .. n /\ i - 2 \notin 0 .. n
      BY <2>2
    <3>2. RAdd(Zero, Zero) = Zero
      BY ZeroOne, Neutral
    <3>3. QED
      BY <1>4, <3>1, <3>2 DEF Term
  <2>3. QED
    BY <2>1, <2>2
<1>13. QED
  BY <1>11, <1>12

\* QuadSD_ak1 computes that quotient.
LEMMA QuadSDFacts ==
  ASSUME NEW n \in Nat, NEW u \in Rat, NEW v \in Rat, NEW p \in [0 .. n -> Rat]
  PROVE  /\ QuadSD(u, v, p) \in [0 .. n -> Rat]
         /\ \A i \in Int : i <= n =>
               RAdd(Term(QuadSD(u, v, p), n, i),
                    RAdd(RMul(u, Term(QuadSD(u, v, p), n, i - 1)), RMul(v, Term(QuadSD(u, v, p), n, i - 2))))
               = Term(p, n, i)
<1> DEFINE h == CHOOSE q : q = [i \in 0 .. n |->
                    p[i] (-) ((IF i > 0 THEN u (.) q[i - 1] ELSE Zero)
                              (+) (IF i > 1 THEN v (.) q[i - 2] ELSE Zero))]
<1>0. DOMAIN p = 0 .. n
  OBVIOUS
<1>1. QuadSD(u, v, p) = h
  BY <1>0 DEF QuadSD
<1>2. PICK g : IsQuotient(g, n, u, v, p)
  BY QuotientExists
<1>3. IsQuotient(h, n, u, v, p)
  BY <1>2 DEF IsQuotient
<1> HIDE DEF h
<1>4. QED
  BY <1>1, <1>3, QuotientFacts

\* The division by x - s.
LEMMA HornerQuotient ==
  ASSUME NEW n \in Nat, NEW s \in Rat, NEW p \in [0 .. n -> Rat], NEW h, IsHorner(h, n, s, p)
  PROVE  /\ h \in [0 .. n -> Rat]
         /\ \A i \in Int : i <= n => RSub(Term(h, n, i), RMul(s, Term(h, n, i - 1))) = Term(p, n, i)
<1>1. h \in [0 .. n -> Rat] /\ h[0] = p[0] /\ \A i \in 1 .. n : h[i] = RAdd(RMul(h[i - 1], s), p[i])
  BY HornerFacts
<1>2. Zero \in Rat /\ RMul(s, Zero) = Zero /\ \A x \in Rat : RSub(x, Zero) = x
  BY ZeroOne, Neutral, NegZero DEF RSub
<1>3. ASSUME NEW i \in Int, i <= n
      PROVE  RSub(Term(h, n, i), RMul(s, Term(h, n, i - 1))) = Term(p, n, i)
  <2>1. CASE i < 0
    BY <1>2, <2>1 DEF Term
  <2>2. CASE i = 0
    <3>1. 0 \in 0 .. n /\ -1 \notin 0 .. n /\ i - 1 = -1 /\ p[0] \in Rat
      BY <2>2
    <3>2. QED
      BY <1>1, <1>2, <2>2, <3>1 DEF Term
  <2>3. CASE i >= 1
    <3>1. i \in 1 .. n /\ i \in 0 .. n /\ i - 1 \in 0 .. n
      BY <1>3, <2>3
    <3>2. h[i] = RAdd(RMul(h[i - 1], s), p[i]) /\ h[i - 1] \in Rat /\ p[i] \in Rat
      BY <1>1, <3>1
    <3> DEFINE x == RMul(s, h[i - 1])
    <3>3. x \in Rat /\ x = RMul(h[i - 1], s) /\ RNeg(x) \in Rat
      BY <3>2, MulType, MulComm, NegType
    <3>4. RAdd(RAdd(x, p[i]), RNeg(x)) = p[i]
      <4>1. RAdd(RAdd(p[i], x), RNeg(x)) = RAdd(p[i], RAdd(x, RNeg(x)))
        BY <3>2, <3>3, AddAssoc
      <4>2. QED
        BY <3>2, <3>3, <4>1, AddComm, Neutral
    <3>5. QED
      BY <3>1, <3>2, <3>3, <3>4 DEF Term, RSub
  <2>4. QED
    BY <2>1, <2>2, <2>3
<1>4. QED
  BY <1>1, <1>3

\* The polynomials x - s, x^2 + u x + v and t.
LEMMA SmallPolynomials ==
  ASSUME NEW s \in Rat, NEW u \in Rat, NEW v \in Rat
  PROVE  /\ Root(s) \in [0 .. 1 -> Rat] /\ Root(s)[0] = One /\ Root(s)[1] = RNeg(s)
         /\ Quadratic(u, v) \in [0 .. 2 -> Rat] /\ Quadratic(u, v)[0] = One /\ Quadratic(u, v)[1] = u
         /\ Quadratic(u, v)[2] = v
         /\ Constant(s) \in [0 .. 0 -> Rat] /\ Constant(s)[0] = s
<1>1. One \in Rat /\ RNeg(s) \in Rat
  BY ZeroOne, NegType
<1>2. Root(s) = [i \in 0 .. 1 |-> <<One, RNeg(s)>>[i + 1]]
  BY DEF Root, Poly
<1>3. Quadratic(u, v) = [i \in 0 .. 2 |-> <<One, u, v>>[i + 1]]
  BY DEF Quadratic, Poly
<1>4. Constant(s) = [i \in 0 .. 0 |-> <<s>>[i + 1]]
  BY DEF Constant, Poly
<1>5. Root(s) \in [0 .. 1 -> Rat] /\ Root(s)[0] = One /\ Root(s)[1] = RNeg(s)
  <2>1. \A i \in 0 .. 1 : i = 0 \/ i = 1
    OBVIOUS
  <2>2. QED
    BY <1>1, <1>2, <2>1
<1>6. Quadratic(u, v) \in [0 .. 2 -> Rat] /\ Quadratic(u, v)[0] = One /\ Quadratic(u, v)[1] = u
      /\ Quadratic(u, v)[2] = v
  <2>1. \A i \in 0 .. 2 : i = 0 \/ i = 1 \/ i = 2
    OBVIOUS
  <2>2. QED
    BY <1>1, <1>3, <2>1
<1>7. Constant(s) \in [0 .. 0 -> Rat] /\ Constant(s)[0] = s
  BY <1>4
<1>8. QED
  BY <1>5, <1>6, <1>7

-----------------------------------------------------------------------------
(* Shift steps                                                              *)

HornerOf(q, s) ==
    LET horner[i \in DOMAIN q] == IF i = 0 THEN q[0] ELSE horner[i - 1] (.) s (+) q[i]
    IN  horner

\* The division by x - s: its last partial value is the value at s.
LEMMA HornerOfFacts ==
  ASSUME NEW n \in 0 .. 12, NEW q \in [0 .. n -> Rat], NEW s \in Rat
  PROVE  /\ IsHorner(HornerOf(q, s), n, s, q) /\ HornerOf(q, s) \in [0 .. n -> Rat]
         /\ Value(q, s) = HornerOf(q, s)[n] /\ Value(q, s) = A(HornerOf(q, s))
<1> HIDE DEF Degree
<1>0. n \in Nat /\ DOMAIN q = 0 .. n
  OBVIOUS
<1>1. Degree(q) = n
  BY DegreeOf, Zenon
<1> DEFINE h == CHOOSE f : f = [i \in 0 .. n |-> IF i = 0 THEN q[0] ELSE (f[i - 1] (.) s) (+) q[i]]
<1>2. Value(q, s) = h[n]
  BY <1>1 DEF Value
<1>3. HornerOf(q, s) = h
  BY <1>0 DEF HornerOf
<1>4. PICK g : IsHorner(g, n, s, q)
  BY <1>0, HornerExists
<1>5. IsHorner(h, n, s, q)
  BY <1>4 DEF IsHorner
<1> HIDE DEF h
<1>6. h \in [0 .. n -> Rat]
  BY <1>0, <1>5, HornerFacts
<1>7. Degree(h) = n
  BY <1>6, DegreeOf, Zenon
<1>8. QED
  BY <1>2, <1>3, <1>5, <1>6, <1>7 DEF A

\* The step of RealIT_ak1 in terms of both divisions.
LEMMA NextLinearKIs ==
  ASSUME NEW p, NEW K, NEW s
  PROVE  NextLinearK(p, K, s) =
            LET qp == HornerOf(p, s)
                qk == HornerOf(K, s)
            IN  [i \in DOMAIN K |->
                    IF A(qk) = Zero THEN (IF i > 0 THEN qk[i - 1] ELSE Zero)
                    ELSE RAdd(RMul(RNeg(RDiv(A(qp), A(qk))), IF i > 0 THEN qk[i - 1] ELSE Zero), qp[i])]
BY DEF NextLinearK, HornerOf, (+), (.), (/)

\* The terms of the product by x - s.
LEMMA RootProduct ==
  ASSUME NEW s \in Rat, NEW m \in 2 .. 10, NEW q \in [0 .. m -> Rat]
  PROVE  /\ Product(Root(s), q) \in [0 .. 1 + m -> Rat]
         /\ \A i \in Int : Term(Product(Root(s), q), 1 + m, i)
                           = RAdd(RMul(RNeg(s), Term(q, m, i - 1)), RMul(One, Term(q, m, i)))
<1>1. m \in 2 .. 12 /\ 1 \in 0 .. 2 /\ 1 + m <= 12
  OBVIOUS
<1> DEFINE a == Root(s)
<1>2. a \in [0 .. 1 -> Rat] /\ a[0] = One /\ a[1] = RNeg(s)
  BY SmallPolynomials
<1> HIDE DEF a
<1>3. /\ Product(a, q) \in [0 .. 1 + m -> Rat]
      /\ \A i \in Int :
            Term(Product(a, q), 1 + m, i) =
                  IF 1 = 0 THEN RMul(a[0], Term(q, m, i))
                  ELSE IF 1 = 1 THEN RAdd(RMul(a[1], Term(q, m, i - 1)), RMul(a[0], Term(q, m, i)))
                  ELSE RAdd(RAdd(RMul(a[2], Term(q, m, i - 2)), RMul(a[1], Term(q, m, i - 1))),
                            RMul(a[0], Term(q, m, i)))
  BY <1>1, <1>2, ProductIs, Zenon
<1>4. QED
  BY <1>2, <1>3 DEF a

\* The terms of the product by x^2 + u x + v.
LEMMA QuadraticProduct ==
  ASSUME NEW u \in Rat, NEW v \in Rat, NEW m \in 2 .. 10, NEW q \in [0 .. m -> Rat]
  PROVE  /\ Product(Quadratic(u, v), q) \in [0 .. 2 + m -> Rat]
         /\ \A i \in Int : Term(Product(Quadratic(u, v), q), 2 + m, i)
                  = RAdd(RAdd(RMul(v, Term(q, m, i - 2)), RMul(u, Term(q, m, i - 1))), RMul(One, Term(q, m, i)))
<1>1. m \in 2 .. 12 /\ 2 \in 0 .. 2 /\ 2 + m <= 12
  OBVIOUS
<1> DEFINE a == Quadratic(u, v)
<1>2. a \in [0 .. 2 -> Rat] /\ a[0] = One /\ a[1] = u /\ a[2] = v
  BY SmallPolynomials
<1> HIDE DEF a
<1>3. /\ Product(a, q) \in [0 .. 2 + m -> Rat]
      /\ \A i \in Int :
            Term(Product(a, q), 2 + m, i) =
                  IF 2 = 0 THEN RMul(a[0], Term(q, m, i))
                  ELSE IF 2 = 1 THEN RAdd(RMul(a[1], Term(q, m, i - 1)), RMul(a[0], Term(q, m, i)))
                  ELSE RAdd(RAdd(RMul(a[2], Term(q, m, i - 2)), RMul(a[1], Term(q, m, i - 1))),
                            RMul(a[0], Term(q, m, i)))
  BY <1>1, <1>2, ProductIs, Zenon
<1>4. QED
  BY <1>2, <1>3 DEF a

\* x - s times the next K is the combination of p and K that vanishes at s.
LEMMA LinearDivides ==
  ASSUME NEW n \in 3 .. 11, NEW p \in [0 .. n -> Rat], NEW K \in [0 .. n - 1 -> Rat], NEW s \in Rat
  PROVE  Same(Product(Root(s), NextLinearK(p, K, s)),
              IF Value(K, s) = Zero THEN K ELSE Plus(p, Times(RNeg(Value(p, s) (/) Value(K, s)), K)))
<1> DEFINE m == n - 1
           qp == HornerOf(p, s)
           qk == HornerOf(K, s)
           pv == Value(p, s)
           kv == Value(K, s)
           t == RNeg(RDiv(pv, kv))
           W == NextLinearK(p, K, s)
<1>1. m \in 2 .. 10 /\ m \in 0 .. 12 /\ n \in 0 .. 12 /\ m \in Nat /\ n \in Nat /\ m = n - 1 /\ n = 1 + m
      /\ K \in [0 .. m -> Rat]
  OBVIOUS
<1> HIDE DEF m
<1>2. /\ IsHorner(qp, n, s, p) /\ qp \in [0 .. n -> Rat] /\ pv = qp[n] /\ pv = A(qp)
      /\ IsHorner(qk, m, s, K) /\ qk \in [0 .. m -> Rat] /\ kv = qk[m] /\ kv = A(qk)
      /\ pv \in Rat /\ kv \in Rat
  <2>1. IsHorner(qp, n, s, p) /\ qp \in [0 .. n -> Rat] /\ pv = qp[n] /\ pv = A(qp)
    BY <1>1, HornerOfFacts
  <2>2. IsHorner(qk, m, s, K) /\ qk \in [0 .. m -> Rat] /\ kv = qk[m] /\ kv = A(qk)
    BY <1>1, HornerOfFacts
  <2> HIDE DEF qp, qk
  <2>3. pv \in Rat /\ kv \in Rat
    BY <1>1, <2>1, <2>2, n \in 0 .. n, m \in 0 .. m
  <2>4. QED
    BY <2>1, <2>2, <2>3
<1>3. /\ \A i \in Int : i <= n => RSub(Term(qp, n, i), RMul(s, Term(qp, n, i - 1))) = Term(p, n, i)
      /\ \A i \in Int : i <= m => RSub(Term(qk, m, i), RMul(s, Term(qk, m, i - 1))) = Term(K, m, i)
  <2> HIDE DEF qp, qk
  <2>1. \A i \in Int : i <= n => RSub(Term(qp, n, i), RMul(s, Term(qp, n, i - 1))) = Term(p, n, i)
    BY <1>1, <1>2, HornerQuotient
  <2>2. \A i \in Int : i <= m => RSub(Term(qk, m, i), RMul(s, Term(qk, m, i - 1))) = Term(K, m, i)
    BY <1>1, <1>2, HornerQuotient
  <2>3. QED
    BY <2>1, <2>2
<1>4. W = [i \in 0 .. m |->
              IF kv = Zero THEN (IF i > 0 THEN qk[i - 1] ELSE Zero)
              ELSE RAdd(RMul(t, IF i > 0 THEN qk[i - 1] ELSE Zero), qp[i])]
  <2>1. DOMAIN K = 0 .. m
    BY <1>1
  <2>2. W = [i \in DOMAIN K |->
                IF A(qk) = Zero THEN (IF i > 0 THEN qk[i - 1] ELSE Zero)
                ELSE RAdd(RMul(RNeg(RDiv(A(qp), A(qk))), IF i > 0 THEN qk[i - 1] ELSE Zero), qp[i])]
    <3>1. NextLinearK(p, K, s) =
            LET q1 == HornerOf(p, s)
                q2 == HornerOf(K, s)
            IN  [i \in DOMAIN K |->
                    IF A(q2) = Zero THEN (IF i > 0 THEN q2[i - 1] ELSE Zero)
                    ELSE RAdd(RMul(RNeg(RDiv(A(q1), A(q2))), IF i > 0 THEN q2[i - 1] ELSE Zero), q1[i])]
      BY NextLinearKIs
    <3>2. QED
      BY <3>1
  <2> HIDE DEF qp, qk, pv, kv, W
  <2>3. QED
    BY <1>2, <2>1, <2>2
<1> HIDE DEF qp, qk, pv, kv, W
<1>5. Zero \in Rat /\ One \in Rat /\ RNeg(s) \in Rat /\ (kv # Zero => t \in Rat)
  BY <1>2, ZeroOne, NegType, DivType
<1> HIDE DEF t
<1>6. \A i \in 0 .. m : (IF i > 0 THEN qk[i - 1] ELSE Zero) = Term(qk, m, i - 1) /\ Term(qk, m, i - 1) \in Rat
                        /\ qp[i] = Term(qp, n, i) /\ qp[i] \in Rat
  BY <1>1, <1>2, <1>5 DEF Term
<1>7. CASE kv = Zero
  <2>1. W = [i \in 0 .. m |-> Term(qk, m, i - 1)]
    BY <1>4, <1>6, <1>7
  <2>2. W \in [0 .. m -> Rat]
    BY <1>6, <2>1
  <2>3. ASSUME NEW i \in Int, i <= n
        PROVE  Term(W, m, i) = Term(qk, m, i - 1)
    <3>1. CASE i \in 0 .. m
      BY <2>1, <3>1 DEF Term
    <3>2. CASE i < 0
      BY <1>1, <3>2 DEF Term
    <3>3. CASE i = n
      <4>1. i \notin 0 .. m /\ i - 1 = m /\ m \in 0 .. m
        BY <1>1, <3>3
      <4>2. QED
        BY <1>2, <1>7, <4>1 DEF Term
    <3>4. QED
      BY <1>1, <2>3, <3>1, <3>2, <3>3
  <2>4. ASSUME NEW i \in Int, i <= n
        PROVE  Term(Product(Root(s), W), n, i) = Term(K, m, i - 1)
    <3> DEFINE x == Term(qk, m, i - 1)
               y == Term(qk, m, (i - 1) - 1)
    <3>1. i - 1 \in Int /\ i - 1 <= n /\ i - 1 <= m
      BY <1>1, <2>4
    <3>2. Term(W, m, i) = x /\ Term(W, m, i - 1) = y
      BY <2>3, <2>4, <3>1
    <3>3. RSub(x, RMul(s, y)) = Term(K, m, i - 1)
      BY <1>3, <3>1
    <3>4. x \in Rat /\ y \in Rat
      BY <1>1, <1>2, TermType
    <3> HIDE DEF x, y
    <3>5. Term(Product(Root(s), W), 1 + m, i) = RAdd(RMul(RNeg(s), y), RMul(One, x))
      <4>1. Term(Product(Root(s), W), 1 + m, i)
            = RAdd(RMul(RNeg(s), Term(W, m, i - 1)), RMul(One, Term(W, m, i)))
        BY <1>1, <2>2, RootProduct, Zenon
      <4>2. QED
        BY <3>2, <4>1
    <3>6. RAdd(RMul(RNeg(s), y), RMul(One, x)) = RSub(x, RMul(s, y))
      BY <3>4, QuotientTerm DEF (+), (-), (.)
    <3>7. QED
      BY <1>1, <3>3, <3>5, <3>6
  <2>5. Product(Root(s), W) \in [0 .. 1 + m -> Rat]
    BY <1>1, <2>2, RootProduct
  <2>6. ASSUME NEW k \in 0 .. 12
        PROVE  Term(Product(Root(s), W), n, n - k) = Term(K, m, m - k)
    <3>1. n - k \in Int /\ n - k <= n /\ (n - k) - 1 = m - k
      BY <1>1
    <3>2. QED
      BY <2>4, <3>1
  <2>7. K \in [0 .. m -> Rat] /\ Product(Root(s), W) \in [0 .. n -> Rat]
    BY <1>1, <2>5
  <2>8. Same(Product(Root(s), W), K)
    BY <1>1, <2>6, <2>7, SameIs
  <2>9. QED
    BY <1>7, <2>8 DEF W, kv
<1>8. CASE kv # Zero
  <2>1. W = [i \in 0 .. m |-> RAdd(RMul(t, Term(qk, m, i - 1)), Term(qp, n, i))]
    BY <1>4, <1>6, <1>8
  <2>2. W \in [0 .. m -> Rat]
    <3>1. \A i \in 0 .. m : RAdd(RMul(t, Term(qk, m, i - 1)), Term(qp, n, i)) \in Rat
      BY <1>5, <1>6, <1>8, MulType, AddType
    <3>2. QED
      BY <2>1, <3>1
  <2>3. ASSUME NEW i \in Int, i <= n
        PROVE  Term(W, m, i) = RAdd(RMul(t, Term(qk, m, i - 1)), Term(qp, n, i))
    <3>1. CASE i \in 0 .. m
      BY <2>1, <3>1 DEF Term
    <3>2. CASE i < 0
      <4>1. i \notin 0 .. m /\ i \notin 0 .. n /\ i - 1 \notin 0 .. m
        BY <1>1, <3>2
      <4>2. RAdd(RMul(t, Zero), Zero) = Zero
        BY <1>5, <1>8, Neutral
      <4>3. QED
        BY <4>1, <4>2 DEF Term
    <3>3. CASE i = n
      <4>1. i \notin 0 .. m /\ i - 1 = m /\ m \in 0 .. m /\ i \in 0 .. n
        BY <1>1, <3>3
      <4>2. RAdd(RMul(t, kv), pv) = Zero
        <5>1. RDiv(pv, kv) \in Rat /\ RMul(RDiv(pv, kv), kv) = pv
          BY <1>2, <1>8, DivType, DivMul
        <5>2. RMul(t, kv) = RNeg(pv)
          BY <1>2, <5>1, NegFacts DEF t
        <5>3. QED
          BY <1>2, <5>2, NegType, AddComm, Neutral
      <4>3. QED
        BY <1>2, <3>3, <4>1, <4>2 DEF Term
    <3>4. QED
      BY <1>1, <2>3, <3>1, <3>2, <3>3
  <2> DEFINE S == Plus(p, Times(t, K))
  <2>4. /\ S \in [0 .. n -> Rat]
        /\ \A i \in Int : Term(S, n, i) = RAdd(Term(p, n, i), RMul(t, Term(K, m, i - 1)))
    <3>1. K \in [0 .. m -> Rat] /\ m \in 0 .. n /\ n - m = 1
      BY <1>1
    <3>2. Times(t, K) \in [0 .. m -> Rat] /\ \A i : Term(Times(t, K), m, i) = RMul(t, Term(K, m, i))
      BY <1>1, <1>5, <1>8, <3>1, TimesIs
    <3>3. /\ Plus(p, Times(t, K)) \in [0 .. n -> Rat]
          /\ \A i \in Int : Term(Plus(p, Times(t, K)), n, i) = RAdd(Term(p, n, i), Term(Times(t, K), m, i - (n - m)))
      BY <1>1, <3>1, <3>2, PlusIs
    <3>4. QED
      BY <3>1, <3>2, <3>3
  <2> HIDE DEF S
  <2>5. Product(Root(s), W) \in [0 .. 1 + m -> Rat]
    BY <1>1, <2>2, RootProduct
  <2>6. ASSUME NEW i \in Int, i <= n
        PROVE  Term(Product(Root(s), W), n, i) = Term(S, n, i)
    <3> DEFINE b == Term(qk, m, i - 1)
               y == Term(qk, m, (i - 1) - 1)
               a == Term(qp, n, i)
               c == Term(qp, n, i - 1)
    <3>1. i - 1 \in Int /\ i - 1 <= n /\ i - 1 <= m
      BY <1>1, <2>6
    <3>2. Term(W, m, i) = RAdd(RMul(t, b), a) /\ Term(W, m, i - 1) = RAdd(RMul(t, y), c)
      BY <2>3, <2>6, <3>1
    <3>3. RSub(b, RMul(s, y)) = Term(K, m, i - 1) /\ RSub(a, RMul(s, c)) = Term(p, n, i)
      BY <1>3, <2>6, <3>1
    <3>4. b \in Rat /\ y \in Rat /\ a \in Rat /\ c \in Rat /\ t \in Rat
      BY <1>1, <1>2, <1>5, <1>8, TermType
    <3> HIDE DEF b, y, a, c
    <3>5. Term(Product(Root(s), W), 1 + m, i)
          = RAdd(RMul(RNeg(s), RAdd(RMul(t, y), c)), RMul(One, RAdd(RMul(t, b), a)))
      <4>1. Term(Product(Root(s), W), 1 + m, i)
            = RAdd(RMul(RNeg(s), Term(W, m, i - 1)), RMul(One, Term(W, m, i)))
        BY <1>1, <2>2, RootProduct, Zenon
      <4>2. QED
        BY <3>2, <4>1
    <3>6. CombinedTermLaw(s, t, b, y, a, c)
      BY <3>4, CombinedTerm
    <3>7. RAdd(RMul(RNeg(s), RAdd(RMul(t, y), c)), RMul(One, RAdd(RMul(t, b), a)))
          = RAdd(RSub(a, RMul(s, c)), RMul(t, RSub(b, RMul(s, y))))
      BY <3>6 DEF CombinedTermLaw, (+), (-), (.)
    <3>8. QED
      BY <1>1, <2>4, <3>3, <3>5, <3>7
  <2>7. ASSUME NEW k \in 0 .. 12
        PROVE  Term(Product(Root(s), W), n, n - k) = Term(S, n, n - k)
    <3>1. n - k \in Int /\ n - k <= n
      BY <1>1
    <3>2. QED
      BY <2>6, <3>1
  <2>8. Product(Root(s), W) \in [0 .. n -> Rat]
    BY <1>1, <2>5
  <2>9. Same(Product(Root(s), W), S)
    BY <1>1, <2>4, <2>7, <2>8, SameIs
  <2>10. QED
    BY <1>8, <2>9 DEF W, kv, pv, t, S, (/)
<1>9. QED
  BY <1>7, <1>8

\* The division by x^2 + u x + v of x0 x^2 + x1 x + x2, seen from the leading term.
Folded(u, v, x0, x1, x2) == RAdd(x0, RAdd(RMul(u, x1), RMul(v, x2)))

FoldedLaw(u, v, t, x0, x1, x2) ==
    /\ Folded(u, v, RMul(t, x0), RMul(t, x1), RMul(t, x2)) = RMul(t, Folded(u, v, x0, x1, x2))
    /\ RMul(t, RAdd(RAdd(RMul(v, x2), RMul(u, x1)), RMul(One, x0)))
          = Folded(u, v, RMul(t, x0), RMul(t, x1), RMul(t, x2))

\* The folded terms of a multiple.
LEMMA FoldedFacts ==
  ASSUME NEW u \in Rat, NEW v \in Rat, NEW t \in Rat, NEW x0 \in Rat, NEW x1 \in Rat, NEW x2 \in Rat
  PROVE  FoldedLaw(u, v, t, x0, x1, x2)
<1>1. ScaledProductLaw(t, x0, x1, x2, u, v)
  BY ScaledProduct
<1>2. QED
  BY <1>1 DEF ScaledProductLaw, FoldedLaw, Folded, (+), (.)

FoldedSumLaw(u, v, x0, x1, x2, y0, y1, y2) ==
    /\ Folded(u, v, RAdd(x0, y0), RAdd(x1, y1), RAdd(x2, y2))
          = RAdd(Folded(u, v, x0, x1, x2), Folded(u, v, y0, y1, y2))
    /\ Folded(u, v, RSub(x0, y0), RSub(x1, y1), RSub(x2, y2))
          = RSub(Folded(u, v, x0, x1, x2), Folded(u, v, y0, y1, y2))

\* The folded terms of a sum.
LEMMA FoldedSum ==
  ASSUME NEW u \in Rat, NEW v \in Rat, NEW x0 \in Rat, NEW x1 \in Rat, NEW x2 \in Rat,
         NEW y0 \in Rat, NEW y1 \in Rat, NEW y2 \in Rat
  PROVE  FoldedSumLaw(u, v, x0, x1, x2, y0, y1, y2)
<1>1. SumOfProductsLaw(x0, x1, x2, y0, y1, y2, u, v)
  BY SumOfProducts
<1>2. QED
  BY <1>1 DEF SumOfProductsLaw, FoldedSumLaw, Folded, (+), (-), (.)

\* A combination of two dividends and of the quotients.
Combined(a1, a7, a3, x, y, z) == RAdd(RSub(RMul(a1, x), RMul(a7, y)), RMul(a3, z))

\* A combination is a fraction, and zero of zeros.
LEMMA CombinedFacts ==
  ASSUME NEW a1 \in Rat, NEW a7 \in Rat, NEW a3 \in Rat, NEW x \in Rat, NEW y \in Rat, NEW z \in Rat
  PROVE  Combined(a1, a7, a3, x, y, z) \in Rat /\ Combined(a1, a7, a3, Zero, Zero, Zero) = Zero
<1>1. RMul(a1, x) \in Rat /\ RMul(a7, y) \in Rat /\ RMul(a3, z) \in Rat
  BY MulType
<1>2. RMul(a1, Zero) = Zero /\ RMul(a7, Zero) = Zero /\ RMul(a3, Zero) = Zero
  BY Neutral
<1>3. RSub(Zero, Zero) = Zero /\ RAdd(Zero, Zero) = Zero
  BY ZeroOne, Neutral, NegZero DEF RSub
<1>4. QED
  BY <1>1, <1>2, <1>3, SubType, AddType DEF Combined

FoldedCombinationLaw(u, v, a1, a7, a3, x, z) ==
    Folded(u, v, Combined(a1, a7, a3, x[0], x[1], z[0]), Combined(a1, a7, a3, x[1], x[2], z[1]),
           Combined(a1, a7, a3, x[2], x[3], z[2]))
    = Combined(a1, a7, a3, Folded(u, v, x[0], x[1], x[2]), Folded(u, v, x[1], x[2], x[3]),
               Folded(u, v, z[0], z[1], z[2]))

\* The folded terms of a combination are the combination of the folded terms.
LEMMA FoldedCombination ==
  ASSUME NEW u \in Rat, NEW v \in Rat, NEW a1 \in Rat, NEW a7 \in Rat, NEW a3 \in Rat,
         NEW x \in [0 .. 3 -> Rat], NEW z \in [0 .. 2 -> Rat]
  PROVE  FoldedCombinationLaw(u, v, a1, a7, a3, x, z)
<1>1. /\ x[0] \in Rat /\ x[1] \in Rat /\ x[2] \in Rat /\ x[3] \in Rat
      /\ z[0] \in Rat /\ z[1] \in Rat /\ z[2] \in Rat
  OBVIOUS
<1> DEFINE p0 == RMul(a1, x[0])
           p1 == RMul(a1, x[1])
           p2 == RMul(a1, x[2])
           q0 == RMul(a7, x[1])
           q1 == RMul(a7, x[2])
           q2 == RMul(a7, x[3])
           r0 == RMul(a3, z[0])
           r1 == RMul(a3, z[1])
           r2 == RMul(a3, z[2])
<1>2. /\ p0 \in Rat /\ p1 \in Rat /\ p2 \in Rat /\ q0 \in Rat /\ q1 \in Rat /\ q2 \in Rat
      /\ r0 \in Rat /\ r1 \in Rat /\ r2 \in Rat
  BY <1>1, MulType
<1>3. Folded(u, v, p0, p1, p2) = RMul(a1, Folded(u, v, x[0], x[1], x[2]))
  <2>1. FoldedLaw(u, v, a1, x[0], x[1], x[2])
    BY <1>1, FoldedFacts
  <2>2. QED
    BY <2>1 DEF FoldedLaw
<1>4. Folded(u, v, q0, q1, q2) = RMul(a7, Folded(u, v, x[1], x[2], x[3]))
  <2>1. FoldedLaw(u, v, a7, x[1], x[2], x[3])
    BY <1>1, FoldedFacts
  <2>2. QED
    BY <2>1 DEF FoldedLaw
<1>5. Folded(u, v, r0, r1, r2) = RMul(a3, Folded(u, v, z[0], z[1], z[2]))
  <2>1. FoldedLaw(u, v, a3, z[0], z[1], z[2])
    BY <1>1, FoldedFacts
  <2>2. QED
    BY <2>1 DEF FoldedLaw
<1> HIDE DEF p0, p1, p2, q0, q1, q2, r0, r1, r2
<1>6. RSub(p0, q0) \in Rat /\ RSub(p1, q1) \in Rat /\ RSub(p2, q2) \in Rat
  BY <1>2, SubType
<1>7. Folded(u, v, RAdd(RSub(p0, q0), r0), RAdd(RSub(p1, q1), r1), RAdd(RSub(p2, q2), r2))
      = RAdd(Folded(u, v, RSub(p0, q0), RSub(p1, q1), RSub(p2, q2)), Folded(u, v, r0, r1, r2))
  <2>1. FoldedSumLaw(u, v, RSub(p0, q0), RSub(p1, q1), RSub(p2, q2), r0, r1, r2)
    BY <1>2, <1>6, FoldedSum
  <2>2. QED
    BY <2>1 DEF FoldedSumLaw
<1>8. Folded(u, v, RSub(p0, q0), RSub(p1, q1), RSub(p2, q2))
      = RSub(Folded(u, v, p0, p1, p2), Folded(u, v, q0, q1, q2))
  <2>1. FoldedSumLaw(u, v, p0, p1, p2, q0, q1, q2)
    BY <1>2, FoldedSum
  <2>2. QED
    BY <2>1 DEF FoldedSumLaw
<1>9. Folded(u, v, RAdd(RSub(p0, q0), r0), RAdd(RSub(p1, q1), r1), RAdd(RSub(p2, q2), r2))
      = RAdd(RSub(RMul(a1, Folded(u, v, x[0], x[1], x[2])), RMul(a7, Folded(u, v, x[1], x[2], x[3]))),
             RMul(a3, Folded(u, v, z[0], z[1], z[2])))
  BY <1>3, <1>4, <1>5, <1>7, <1>8
<1>10. QED
  BY <1>9 DEF FoldedCombinationLaw, Combined, p0, p1, p2, q0, q1, q2, r0, r1, r2

\* The next K polynomial: D V is the combination a1 X - a7 X/x + a3 Y of the quotients
\* X and Y of p and K, and the combination of the remainders vanishes; then x^2 + u x + v
\* divides the combination of p and K, and V is D-th of the quotient.
NoRemainder(a1, a7, a3, u, v, a, b, c, d) ==
    /\ Combined(a1, a7, a3, a, b, d) = Zero
    /\ Combined(a1, a7, a3, RNeg(RAdd(RMul(u, a), RMul(v, b))), a, c) = Zero

IsQuotientOf(X, n, u, v, p) ==
    \A i \in Int : i <= n => Folded(u, v, Term(X, n, i), Term(X, n, i - 1), Term(X, n, i - 2)) = Term(p, n, i)

IsNextK(V, D, a1, a7, a3, X, Y, n, m) ==
    \A i \in 0 .. m : RMul(D, V[i]) = Combined(a1, a7, a3, Term(X, n, i), Term(X, n, i - 1), Term(Y, m, i - 2))

DividedBy(V, D, n, m, u, v, a1, a7, a3, p, K) ==
    \A i \in Int : i <= n + 1 =>
        RMul(D, RAdd(RAdd(RMul(v, Term(V, m, i - 2)), RMul(u, Term(V, m, i - 1))), RMul(One, Term(V, m, i))))
        = Combined(a1, a7, a3, Term(p, n, i), Term(p, n, i - 1), Term(K, m, i - 2))

\* With scalars that leave no remainder the quadratic divides the combination, and the
\* next K is its quotient.
LEMMA NextKDivides ==
  ASSUME NEW n \in 3 .. 11, NEW m, m = n - 1, NEW p \in [0 .. n -> Rat], NEW K \in [0 .. m -> Rat],
         NEW u \in Rat, NEW v \in Rat, NEW a1 \in Rat, NEW a7 \in Rat, NEW a3 \in Rat, NEW D \in Rat,
         NEW X \in [0 .. n -> Rat], IsQuotientOf(X, n, u, v, p),
         NEW Y \in [0 .. m -> Rat], IsQuotientOf(Y, m, u, v, K),
         NoRemainder(a1, a7, a3, u, v, X[n], X[n - 1], Y[m], Y[m - 1]),
         NEW V \in [0 .. m -> Rat],
         IsNextK(V, D, a1, a7, a3, X, Y, n, m)
  PROVE  DividedBy(V, D, n, m, u, v, a1, a7, a3, p, K)
<1>1. /\ n \in Nat /\ m \in Nat /\ m \in Int /\ n \in Int /\ n = m + 1 /\ n \in 0 .. n /\ n - 1 \in 0 .. n /\ m \in 0 .. m
      /\ m - 1 \in 0 .. m
  OBVIOUS
<1> DEFINE a == X[n]
           b == X[n - 1]
           ext == RNeg(RAdd(RMul(u, a), RMul(v, b)))
           E(i) == IF i = n + 1 THEN ext ELSE Term(X, n, i)
           W(i) == Combined(a1, a7, a3, E(i), E(i - 1), Term(Y, m, i - 2))
<1>2. a \in Rat /\ b \in Rat /\ Y[m] \in Rat /\ Y[m - 1] \in Rat
  BY <1>1
<1>3. RAdd(RMul(u, a), RMul(v, b)) \in Rat /\ ext \in Rat
  BY <1>2, MulType, AddType, NegType
<1>4. Zero \in Rat /\ One \in Rat
  BY ZeroOne
<1>5. \A i : Term(X, n, i) \in Rat /\ Term(Y, m, i) \in Rat /\ Term(V, m, i) \in Rat
  BY <1>1, TermType
<1>6. \A i : E(i) \in Rat
  BY <1>3, <1>5
<1>7. ASSUME NEW i \in Int, i <= n + 1
      PROVE  Folded(u, v, E(i), E(i - 1), E(i - 2)) = Term(p, n, i)
  <2>1. CASE i <= n
    <3>1. i # n + 1 /\ i - 1 # n + 1 /\ i - 2 # n + 1
      BY <2>1
    <3>2. E(i) = Term(X, n, i) /\ E(i - 1) = Term(X, n, i - 1) /\ E(i - 2) = Term(X, n, i - 2)
      BY <3>1
    <3> HIDE DEF E
    <3>3. QED
      BY <2>1, <3>2 DEF IsQuotientOf
  <2>2. CASE i = n + 1
    <3>1. i - 1 = n /\ i - 2 = n - 1 /\ i \notin 0 .. n /\ n # n + 1 /\ n - 1 # n + 1
      BY <2>2
    <3>2. E(i) = ext /\ E(i - 1) = a /\ E(i - 2) = b
      BY <1>1, <2>2, <3>1 DEF Term
    <3>3. Term(p, n, i) = Zero
      BY <3>1 DEF Term
    <3> DEFINE w == RAdd(RMul(u, a), RMul(v, b))
    <3>4. RAdd(RNeg(w), w) = Zero
      <4>1. w \in Rat
        BY <1>3
      <4> HIDE DEF w
      <4>2. RNeg(w) \in Rat /\ RAdd(w, RNeg(w)) = Zero
        BY <4>1, NegType, Neutral
      <4>3. QED
        BY <4>1, <4>2, AddComm
    <3> HIDE DEF E
    <3>5. QED
      BY <3>2, <3>3, <3>4 DEF Folded
  <2>3. QED
    BY <1>7, <2>1, <2>2
<1>8. ASSUME NEW i \in Int, i <= n + 1
      PROVE  RMul(D, Term(V, m, i)) = W(i)
  <2>1. RMul(D, Zero) = Zero
    BY Neutral
  <2>2. CASE i < 0
    <3>1. i \notin 0 .. m /\ i \notin 0 .. n /\ i - 1 \notin 0 .. n /\ i - 2 \notin 0 .. m /\ i # n + 1 /\ i - 1 # n + 1
      BY <1>1, <2>2
    <3>2. E(i) = Zero /\ E(i - 1) = Zero /\ Term(Y, m, i - 2) = Zero /\ Term(V, m, i) = Zero
      BY <3>1 DEF Term
    <3> HIDE DEF E
    <3>3. QED
      BY <1>4, <2>1, <3>2, CombinedFacts
  <2>3. CASE i \in 0 .. m
    <3>1. i # n + 1 /\ i - 1 # n + 1
      BY <1>1, <2>3
    <3>2. E(i) = Term(X, n, i) /\ E(i - 1) = Term(X, n, i - 1)
      BY <3>1
    <3>3. Term(V, m, i) = V[i]
      BY <2>3 DEF Term
    <3> HIDE DEF E
    <3>4. QED
      BY <2>3, <3>2, <3>3 DEF IsNextK
  <2>4. CASE i = n
    <3>1. i \notin 0 .. m /\ i # n + 1 /\ i - 1 # n + 1 /\ i - 1 = n - 1 /\ i - 2 = m - 1
      BY <1>1, <2>4
    <3>2. E(i) = a /\ E(i - 1) = b /\ Term(Y, m, i - 2) = Y[m - 1] /\ Term(V, m, i) = Zero
      BY <1>1, <2>4, <3>1 DEF Term
    <3> HIDE DEF E
    <3>3. QED
      BY <2>1, <3>2 DEF NoRemainder
  <2>5. CASE i = n + 1
    <3>1. i \notin 0 .. m /\ i - 1 # n + 1 /\ i - 1 = n /\ i - 2 = m
      BY <1>1, <2>5
    <3>2. E(i) = ext /\ E(i - 1) = a /\ Term(Y, m, i - 2) = Y[m] /\ Term(V, m, i) = Zero
      BY <1>1, <2>5, <3>1 DEF Term
    <3> HIDE DEF E
    <3>3. QED
      BY <2>1, <3>2 DEF NoRemainder
  <2>6. QED
    BY <1>1, <1>8, <2>2, <2>3, <2>4, <2>5
<1> HIDE DEF E, ext, a, b
<1>9. ASSUME NEW i \in Int, i <= n + 1
      PROVE  RMul(D, RAdd(RAdd(RMul(v, Term(V, m, i - 2)), RMul(u, Term(V, m, i - 1))), RMul(One, Term(V, m, i))))
             = Combined(a1, a7, a3, Term(p, n, i), Term(p, n, i - 1), Term(K, m, i - 2))
  <2>1. /\ i - 1 \in Int /\ i - 1 <= n + 1 /\ i - 2 \in Int /\ i - 2 <= n + 1 /\ i - 2 <= m
        /\ (i - 1) - 1 = i - 2 /\ (i - 1) - 2 = i - 3 /\ (i - 2) - 1 = i - 3 /\ (i - 2) - 2 = i - 4
    BY <1>1, <1>9
  <2> DEFINE x == [l \in 0 .. 3 |-> E(i - l)]
             z == [l \in 0 .. 2 |-> Term(Y, m, (i - 2) - l)]
  <2>2. x \in [0 .. 3 -> Rat] /\ z \in [0 .. 2 -> Rat]
    BY <1>5, <1>6
  <2>3. /\ x[0] = E(i) /\ x[1] = E(i - 1) /\ x[2] = E(i - 2) /\ x[3] = E(i - 3)
        /\ z[0] = Term(Y, m, i - 2) /\ z[1] = Term(Y, m, i - 3) /\ z[2] = Term(Y, m, i - 4)
    BY <2>1
  <2> HIDE DEF x, z
  <2>4. /\ RMul(D, Term(V, m, i)) = Combined(a1, a7, a3, x[0], x[1], z[0])
        /\ RMul(D, Term(V, m, i - 1)) = Combined(a1, a7, a3, x[1], x[2], z[1])
        /\ RMul(D, Term(V, m, i - 2)) = Combined(a1, a7, a3, x[2], x[3], z[2])
    BY <1>8, <1>9, <2>1, <2>3
  <2>5. /\ Folded(u, v, x[0], x[1], x[2]) = Term(p, n, i)
        /\ Folded(u, v, x[1], x[2], x[3]) = Term(p, n, i - 1)
    BY <1>7, <1>9, <2>1, <2>3
  <2>6. Folded(u, v, z[0], z[1], z[2]) = Term(K, m, i - 2)
    <3>1. Folded(u, v, Term(Y, m, i - 2), Term(Y, m, (i - 2) - 1), Term(Y, m, (i - 2) - 2)) = Term(K, m, i - 2)
      BY <2>1 DEF IsQuotientOf
    <3>2. QED
      BY <2>1, <2>3, <3>1
  <2>7. Term(V, m, i) \in Rat /\ Term(V, m, i - 1) \in Rat /\ Term(V, m, i - 2) \in Rat
    BY <1>5
  <2>8. RMul(D, RAdd(RAdd(RMul(v, Term(V, m, i - 2)), RMul(u, Term(V, m, i - 1))), RMul(One, Term(V, m, i))))
        = Folded(u, v, RMul(D, Term(V, m, i)), RMul(D, Term(V, m, i - 1)), RMul(D, Term(V, m, i - 2)))
    <3>1. FoldedLaw(u, v, D, Term(V, m, i), Term(V, m, i - 1), Term(V, m, i - 2))
      BY <2>7, FoldedFacts
    <3>2. QED
      BY <3>1 DEF FoldedLaw
  <2>9. FoldedCombinationLaw(u, v, a1, a7, a3, x, z)
    BY <2>2, FoldedCombination
  <2>10. QED
    BY <2>4, <2>5, <2>6, <2>8, <2>9 DEF FoldedCombinationLaw
<1>10. QED
  BY <1>9 DEF DividedBy

\* The three kinds of scalars, with a and b the remainder of p and c and d that of K.
ThirdKind(sc, c, d) ==
    sc.type = 3 /\ c = Zero /\ d = Zero /\ sc.a1 = Zero /\ sc.a3 = Zero /\ sc.a7 = Zero

SecondKind(sc, a, b, u, v, c, d) ==
    /\ sc.type = 2 /\ d # Zero
    /\ sc.f = RDiv(c, d) /\ sc.g = RMul(u, b) /\ sc.h = RMul(v, b)
    /\ sc.a1 = RSub(RMul(RDiv(c, d), b), a)
    /\ sc.a3 = RAdd(RMul(RDiv(a, d), RAdd(RMul(u, b), a)), RMul(RMul(v, b), RDiv(b, d)))
    /\ sc.a7 = RAdd(RMul(v, b), RMul(RAdd(RDiv(c, d), u), a))

FirstKind(sc, a, b, u, v, c, d) ==
    /\ sc.type = 1 /\ c # Zero
    /\ sc.f = RDiv(d, c) /\ sc.g = RMul(RDiv(a, c), u) /\ sc.h = RMul(v, b)
    /\ sc.a1 = RSub(b, RMul(a, RDiv(d, c)))
    /\ sc.a3 = RAdd(RMul(RDiv(a, c), a), RMul(RAdd(RMul(RDiv(a, c), u), RDiv(RMul(v, b), c)), b))
    /\ sc.a7 = RAdd(RAdd(RMul(RMul(RDiv(a, c), u), d), RMul(RMul(v, b), RDiv(d, c))), a)

\* CalcSC_ak1 returns scalars of one of three kinds.
LEMMA KindOfScalars ==
  ASSUME NEW a, NEW b, NEW u, NEW v, NEW K, A(QuadSD(u, v, K)) \in Rat, B(QuadSD(u, v, K)) \in Rat
  PROVE  LET sc == CalcSC(a, b, K, u, v)
             c == A(QuadSD(u, v, K))
             d == B(QuadSD(u, v, K))
         IN  /\ sc.qk = QuadSD(u, v, K) /\ sc.c = c /\ sc.d = d
             /\ ThirdKind(sc, c, d) \/ SecondKind(sc, a, b, u, v, c, d) \/ FirstKind(sc, a, b, u, v, c, d)
<1> DEFINE qk == QuadSD(u, v, K)
           c == A(qk)
           d == B(qk)
           h == v (.) b
           sc == CalcSC(a, b, K, u, v)
<1>0. c \in Rat /\ d \in Rat
  OBVIOUS
<1>1. CASE c = Zero /\ d = Zero
  <2>1. sc = [type |-> 3, qk |-> qk, c |-> c, d |-> d, h |-> h,
              a1 |-> Zero, a3 |-> Zero, a7 |-> Zero, f |-> Zero, g |-> Zero]
    BY <1>1 DEF CalcSC
  <2> HIDE DEF qk, c, d, h, sc
  <2>2. sc.qk = qk /\ sc.c = c /\ sc.d = d /\ ThirdKind(sc, c, d)
    BY <1>1, <2>1 DEF ThirdKind
  <2>3. QED
    BY <2>2 DEF sc, c, d, qk
<1>2. CASE ~(c = Zero /\ d = Zero) /\ RLeq(RAbs(c), RAbs(d))
  <2>1. sc = LET e == a (/) d
                 f == c (/) d
                 g == u (.) b
             IN  [type |-> 2, qk |-> qk, c |-> c, d |-> d, h |-> h,
                  a1 |-> f (.) b (-) a, a3 |-> e (.) (g (+) a) (+) h (.) (b (/) d),
                  a7 |-> h (+) (f (+) u) (.) a, f |-> f, g |-> g]
    BY <1>2 DEF CalcSC
  <2>2. d # Zero
    <3> HIDE DEF c, d
    <3>1. QED
      BY <1>0, <1>2, AbsZero
  <2> HIDE DEF qk, c, d, h, sc
  <2>3. sc.qk = qk /\ sc.c = c /\ sc.d = d /\ SecondKind(sc, a, b, u, v, c, d)
    BY <2>1, <2>2 DEF SecondKind, h, (+), (-), (.), (/)
  <2>4. QED
    BY <2>3 DEF sc, c, d, qk
<1>3. CASE ~(c = Zero /\ d = Zero) /\ ~RLeq(RAbs(c), RAbs(d))
  <2>1. sc = LET e == a (/) c
                 f == d (/) c
                 g == e (.) u
             IN  [type |-> 1, qk |-> qk, c |-> c, d |-> d, h |-> h,
                  a1 |-> b (-) a (.) f, a3 |-> e (.) a (+) (g (+) h (/) c) (.) b,
                  a7 |-> g (.) d (+) h (.) f (+) a, f |-> f, g |-> g]
    BY <1>3 DEF CalcSC
  <2>2. c # Zero
    <3> HIDE DEF c, d
    <3>1. QED
      BY <1>0, <1>3, AbsZero
  <2> HIDE DEF qk, c, d, h, sc
  <2>3. sc.qk = qk /\ sc.c = c /\ sc.d = d /\ FirstKind(sc, a, b, u, v, c, d)
    BY <2>1, <2>2 DEF FirstKind, h, (+), (-), (.), (/)
  <2>4. QED
    BY <2>3 DEF sc, c, d, qk
<1>4. QED
  BY <1>1, <1>2, <1>3

\* The combination of the dividends has no remainder.
LEMMA FirstKindFacts ==
  ASSUME NEW a \in Rat, NEW b \in Rat, NEW u \in Rat, NEW v \in Rat, NEW c \in Rat, NEW d \in Rat,
         NEW sc, FirstKind(sc, a, b, u, v, c, d)
  PROVE  /\ sc.a1 \in Rat /\ sc.a3 \in Rat /\ sc.a7 \in Rat
         /\ NoRemainder(sc.a1, sc.a7, sc.a3, u, v, a, b, c, d)
<1> DEFINE e == RDiv(a, c)
           f == RDiv(d, c)
           h == RMul(v, b)
           y == RDiv(h, c)
<1>0. c # Zero
  BY DEF FirstKind
<1>1. h \in Rat
  BY MulType
<1>2. e \in Rat /\ f \in Rat
  BY <1>0, DivType
<1>3. y \in Rat
  <2> HIDE DEF h
  <2>1. QED
    BY <1>0, <1>1, DivType
<1>4. a = RMul(e, c) /\ d = RMul(f, c)
  BY <1>0, DivMul
<1>5. h = RMul(y, c)
  <2> HIDE DEF h
  <2>1. QED
    BY <1>0, <1>1, DivMul
<1>6. /\ sc.a1 = RSub(b, RMul(a, f))
      /\ sc.a3 = RAdd(RMul(e, a), RMul(RAdd(RMul(e, u), y), b))
      /\ sc.a7 = RAdd(RAdd(RMul(RMul(e, u), d), RMul(h, f)), a)
  BY DEF FirstKind
<1> HIDE DEF e, f, h, y
<1>7. FirstScalarsLaw(e, f, c, u, y, b)
  BY <1>2, <1>3, FirstScalars
<1>8. NoRemainder(sc.a1, sc.a7, sc.a3, u, v, a, b, c, d)
  <2>1. h = RMul(v, b)
    BY DEF h
  <2>2. Combined(sc.a1, sc.a7, sc.a3, a, b, d) = Zero
    BY <1>4, <1>5, <1>6, <1>7 DEF FirstScalarsLaw, Combined, (+), (-), (.)
  <2>3. Combined(sc.a1, sc.a7, sc.a3, RNeg(RAdd(RMul(u, a), h)), a, c) = Zero
    BY <1>4, <1>5, <1>6, <1>7 DEF FirstScalarsLaw, Combined, (+), (-), (.)
  <2>4. QED
    BY <2>1, <2>2, <2>3 DEF NoRemainder
<1>9. sc.a1 \in Rat /\ sc.a3 \in Rat /\ sc.a7 \in Rat
  <2>1. sc.a1 \in Rat
    BY <1>2, <1>6, MulType, SubType
  <2>2. sc.a3 \in Rat
    BY <1>2, <1>3, <1>6, MulType, AddType
  <2>3. sc.a7 \in Rat
    <3>1. RMul(RMul(e, u), d) \in Rat /\ RMul(h, f) \in Rat
      BY <1>1, <1>2, MulType
    <3>2. RAdd(RMul(RMul(e, u), d), RMul(h, f)) \in Rat
      BY <3>1, AddType
    <3>3. QED
      BY <1>6, <3>2, AddType
  <2>4. QED
    BY <2>1, <2>2, <2>3
<1>10. QED
  BY <1>8, <1>9

\* The scalars of the second kind are fractions and leave no remainder.
LEMMA SecondKindFacts ==
  ASSUME NEW a \in Rat, NEW b \in Rat, NEW u \in Rat, NEW v \in Rat, NEW c \in Rat, NEW d \in Rat,
         NEW sc, SecondKind(sc, a, b, u, v, c, d)
  PROVE  /\ sc.a1 \in Rat /\ sc.a3 \in Rat /\ sc.a7 \in Rat
         /\ NoRemainder(sc.a1, sc.a7, sc.a3, u, v, a, b, c, d)
<1> DEFINE e == RDiv(a, d)
           f == RDiv(c, d)
           y == RDiv(b, d)
<1>0. d # Zero
  BY DEF SecondKind
<1>1. e \in Rat /\ f \in Rat /\ y \in Rat
  BY <1>0, DivType
<1>2. a = RMul(e, d) /\ c = RMul(f, d) /\ b = RMul(y, d)
  BY <1>0, DivMul
<1>3. /\ sc.a1 = RSub(RMul(f, b), a)
      /\ sc.a3 = RAdd(RMul(e, RAdd(RMul(u, b), a)), RMul(RMul(v, b), y))
      /\ sc.a7 = RAdd(RMul(v, b), RMul(RAdd(f, u), a))
  BY DEF SecondKind
<1> HIDE DEF e, f, y
<1>4. SecondScalarsLaw(e, f, d, y, u, v)
  BY <1>1, SecondScalars
<1>5. NoRemainder(sc.a1, sc.a7, sc.a3, u, v, a, b, c, d)
  <2>1. Combined(sc.a1, sc.a7, sc.a3, a, b, d) = Zero
    BY <1>2, <1>3, <1>4 DEF SecondScalarsLaw, Combined, (+), (-), (.)
  <2>2. Combined(sc.a1, sc.a7, sc.a3, RNeg(RAdd(RMul(u, a), RMul(v, b))), a, c) = Zero
    BY <1>2, <1>3, <1>4 DEF SecondScalarsLaw, Combined, (+), (-), (.)
  <2>3. QED
    BY <2>1, <2>2 DEF NoRemainder
<1>6. sc.a1 \in Rat /\ sc.a3 \in Rat /\ sc.a7 \in Rat
  <2>1. sc.a1 \in Rat
    BY <1>1, <1>3, MulType, SubType
  <2>2. sc.a3 \in Rat
    BY <1>1, <1>3, MulType, AddType
  <2>3. sc.a7 \in Rat
    BY <1>1, <1>3, MulType, AddType
  <2>4. QED
    BY <2>1, <2>2, <2>3
<1>7. QED
  BY <1>5, <1>6

NextKLaw(sc, X, Y, K, n, m) ==
    /\ NextK(sc, X, K) \in [0 .. m -> Rat] /\ Divisor(sc) \in Rat
    /\ IsNextK(NextK(sc, X, K), Divisor(sc), sc.a1, sc.a7, IF sc.type = 3 THEN One ELSE sc.a3, X, Y, n, m)

\* NextK is the combination of the quotients, divided by a1 unless a1 vanishes.
LEMMA NextKFacts ==
  ASSUME NEW n \in 3 .. 11, NEW m, m = n - 1, NEW K \in [0 .. m -> Rat],
         NEW X \in [0 .. n -> Rat], NEW Y \in [0 .. m -> Rat],
         NEW sc, sc.qk = Y, sc.a1 \in Rat, sc.a3 \in Rat, sc.a7 \in Rat,
         sc.type = 3 => sc.a1 = Zero /\ sc.a7 = Zero
  PROVE  NextKLaw(sc, X, Y, K, n, m)
<1>1. DOMAIN K = 0 .. m /\ m \in Nat /\ n \in Nat /\ n = m + 1
  OBVIOUS
<1> DEFINE D == Divisor(sc)
           lead == IF sc.a1 # Zero THEN One ELSE Zero
           q == RDiv(sc.a7, D)
           w == RDiv(sc.a3, D)
           V == NextK(sc, X, K)
           g == IF sc.type = 3 THEN One ELSE sc.a3
           old(i) == IF i > 1 THEN Y[i - 2] ELSE Zero
<1>2. Zero \in Rat /\ One \in Rat /\ One # Zero
  BY ZeroOne
<1>3. D \in Rat /\ D # Zero /\ RMul(lead, D) = sc.a1 /\ lead \in Rat
  <2>1. CASE sc.a1 = Zero
    BY <1>2, <2>1, Neutral DEF Divisor
  <2>2. CASE sc.a1 # Zero
    <3>1. RMul(sc.a1, One) = sc.a1 /\ RMul(sc.a1, One) = RMul(One, sc.a1)
      BY <1>2, Neutral, MulComm
    <3>2. QED
      BY <1>2, <2>2, <3>1 DEF Divisor
  <2>3. QED
    BY <2>1, <2>2
<1>4. V = [i \in 0 .. m |->
              IF sc.type = 3 THEN old(i)
              ELSE RAdd(RMul(lead, X[i]), RAdd(IF i > 0 THEN RMul(RNeg(q), X[i - 1]) ELSE Zero, RMul(w, old(i))))]
  BY <1>1 DEF NextK, (+), (.), (/)
<1> HIDE DEF D, lead, V
<1>5. q \in Rat /\ w \in Rat /\ RMul(q, D) = sc.a7 /\ RMul(w, D) = sc.a3
  BY <1>3, DivType, DivMul
<1> HIDE DEF q, w
<1>6. ASSUME NEW i \in 0 .. m
      PROVE  V[i] \in Rat /\ RMul(D, V[i]) = Combined(sc.a1, sc.a7, g, Term(X, n, i), Term(X, n, i - 1), Term(Y, m, i - 2))
  <2> DEFINE x == Term(X, n, i)
             y == Term(X, n, i - 1)
             z == Term(Y, m, i - 2)
  <2>1. x \in Rat /\ y \in Rat /\ z \in Rat
    BY <1>1, TermType
  <2>2. old(i) = z
    BY <1>1 DEF Term
  <2>3. X[i] = x
    BY <1>1 DEF Term
  <2>4. (IF i > 0 THEN RMul(RNeg(q), X[i - 1]) ELSE Zero) = RMul(RNeg(q), y)
    <3>1. RNeg(q) \in Rat
      BY <1>5, NegType
    <3>2. RMul(RNeg(q), Zero) = Zero
      BY <3>1, Neutral
    <3>3. QED
      BY <1>1, <3>2 DEF Term
  <2> DEFINE o == old(i)
             k == IF i > 0 THEN RMul(RNeg(q), X[i - 1]) ELSE Zero
  <2>5. V[i] = IF sc.type = 3 THEN o ELSE RAdd(RMul(lead, X[i]), RAdd(k, RMul(w, o)))
    BY <1>4
  <2>6. V[i] = IF sc.type = 3 THEN z ELSE RAdd(RMul(lead, x), RAdd(RMul(RNeg(q), y), RMul(w, z)))
    <3>1. o = z /\ k = RMul(RNeg(q), y)
      BY <2>2, <2>4
    <3> HIDE DEF o, k, x, y, z
    <3>2. QED
      BY <2>3, <2>5, <3>1
  <2> HIDE DEF o, k, x, y, z
  <2>7. CASE sc.type = 3
    <3>1. V[i] = z /\ D = One /\ sc.a1 = Zero /\ sc.a7 = Zero
      BY <2>6, <2>7 DEF D, Divisor
    <3>2. RMul(One, z) = z /\ RMul(Zero, x) = Zero /\ RMul(Zero, y) = Zero
      BY <1>2, <2>1, Neutral, MulComm
    <3>3. RSub(Zero, Zero) = Zero /\ RAdd(Zero, z) = z
      BY <1>2, <2>1, Neutral, NegZero, AddComm DEF RSub
    <3>4. QED
      BY <2>1, <2>7, <3>1, <3>2, <3>3 DEF Combined, x, y, z, g
  <2>8. CASE sc.type # 3
    <3>1. V[i] = RAdd(RMul(lead, x), RAdd(RMul(RNeg(q), y), RMul(w, z)))
      BY <2>6, <2>8
    <3>2. ScaledStepLaw(D, lead, x, q, y, w, z)
      BY <1>3, <1>5, <2>1, ScaledStep
    <3>3. RMul(D, V[i]) = RAdd(RSub(RMul(sc.a1, x), RMul(sc.a7, y)), RMul(sc.a3, z))
      BY <1>3, <1>5, <3>1, <3>2 DEF ScaledStepLaw, (+), (-), (.)
    <3>4. V[i] \in Rat
      <4>1. RMul(lead, x) \in Rat /\ RMul(w, z) \in Rat /\ RMul(RNeg(q), y) \in Rat
        BY <1>3, <1>5, <2>1, NegType, MulType
      <4>2. QED
        BY <3>1, <4>1, AddType
    <3>5. QED
      BY <2>8, <3>3, <3>4 DEF Combined, x, y, z, g
  <2>9. QED
    BY <2>7, <2>8
<1>7. V \in [0 .. m -> Rat]
  <2>1. V = [i \in 0 .. m |-> V[i]]
    BY <1>4
  <2>2. QED
    BY <1>6, <2>1
<1>8. QED
  BY <1>3, <1>6, <1>7 DEF V, D, g, NextKLaw, IsNextK

\* The factor a1 x - a7 of p.
Factor(a1, a7) ==
    Plus(IF a1 = Zero THEN Constant(Zero) ELSE Times(a1, Root(Zero)), Constant(RNeg(a7)))

\* The coefficients of the factor of p.
LEMMA FactorIs ==
  ASSUME NEW a1 \in Rat, NEW a7 \in Rat
  PROVE  /\ a1 = Zero => Factor(a1, a7) \in [0 .. 0 -> Rat] /\ Factor(a1, a7)[0] = RNeg(a7)
         /\ a1 # Zero => /\ Factor(a1, a7) \in [0 .. 1 -> Rat]
                         /\ Factor(a1, a7)[0] = a1 /\ Factor(a1, a7)[1] = RNeg(a7)
<1> DEFINE t == RNeg(a7)
           q == Constant(t)
<1>1. t \in Rat /\ Zero \in Rat /\ One \in Rat /\ RNeg(Zero) = Zero
  BY NegType, ZeroOne, NegZero
<1> HIDE DEF t
<1>2. q \in [0 .. 0 -> Rat] /\ q[0] = t
  BY <1>1, SmallPolynomials
<1>3. 0 \in 0 .. 12 /\ 1 \in 0 .. 12 /\ 0 \in 0 .. 0 /\ 0 \in 0 .. 1 /\ 1 \in 0 .. 1 /\ 0 \in Int /\ 1 \in Int
  OBVIOUS
<1> HIDE DEF q
<1>4. Term(q, 0, 0) = t /\ Term(q, 0, 0 - (1 - 0)) = Zero /\ Term(q, 0, 1 - (1 - 0)) = t /\ Term(q, 0, 0 - (0 - 0)) = t
  BY <1>2 DEF Term
<1>5. CASE a1 = Zero
  <2> DEFINE l == Constant(Zero)
             f == Plus(l, q)
  <2>1. l \in [0 .. 0 -> Rat] /\ l[0] = Zero
    BY <1>1, SmallPolynomials
  <2> HIDE DEF l
  <2>2. /\ f \in [0 .. 0 -> Rat]
        /\ \A i \in Int : Term(f, 0, i) = RAdd(Term(l, 0, i), Term(q, 0, i - (0 - 0)))
    BY <1>2, <1>3, <2>1, PlusIs
  <2> HIDE DEF f
  <2>3. f[0] = RAdd(Zero, t)
    <3>1. Term(f, 0, 0) = RAdd(Term(l, 0, 0), Term(q, 0, 0 - (0 - 0)))
      BY <1>3, <2>2
    <3>2. Term(f, 0, 0) = f[0] /\ Term(l, 0, 0) = Zero
      BY <2>1 DEF Term
    <3>3. QED
      BY <1>4, <3>1, <3>2
  <2>4. RAdd(Zero, t) = t
    BY <1>1, Neutral, AddComm
  <2>5. Factor(a1, a7) = f
    BY <1>5 DEF Factor, f, l, q, t
  <2>6. QED
    BY <1>5, <2>2, <2>3, <2>4, <2>5 DEF t
<1>6. CASE a1 # Zero
  <2> DEFINE r == Root(Zero)
             l == Times(a1, r)
             f == Plus(l, q)
  <2>1. r \in [0 .. 1 -> Rat] /\ r[0] = One /\ r[1] = Zero
    BY <1>1, SmallPolynomials
  <2> HIDE DEF r
  <2>2. l \in [0 .. 1 -> Rat] /\ \A i : Term(l, 1, i) = RMul(a1, Term(r, 1, i))
    BY <1>3, <2>1, TimesIs
  <2>3. RMul(a1, One) = a1 /\ RMul(a1, Zero) = Zero
    BY Neutral
  <2>4. Term(r, 1, 0) = One /\ Term(r, 1, 1) = Zero
    BY <2>1 DEF Term
  <2> HIDE DEF l
  <2>5. Term(l, 1, 0) = a1 /\ Term(l, 1, 1) = Zero
    BY <2>2, <2>3, <2>4
  <2>6. /\ f \in [0 .. 1 -> Rat]
        /\ \A i \in Int : Term(f, 1, i) = RAdd(Term(l, 1, i), Term(q, 0, i - (1 - 0)))
    BY <1>2, <1>3, <2>2, PlusIs
  <2> HIDE DEF f
  <2>7. f[0] = RAdd(a1, Zero) /\ f[1] = RAdd(Zero, t)
    <3>1. Term(f, 1, 0) = RAdd(Term(l, 1, 0), Term(q, 0, 0 - (1 - 0)))
      BY <1>3, <2>6
    <3>2. Term(f, 1, 1) = RAdd(Term(l, 1, 1), Term(q, 0, 1 - (1 - 0)))
      BY <1>3, <2>6
    <3>3. Term(f, 1, 0) = f[0] /\ Term(f, 1, 1) = f[1]
      BY DEF Term
    <3>4. QED
      BY <1>4, <2>5, <3>1, <3>2, <3>3
  <2>8. RAdd(Zero, t) = t /\ RAdd(a1, Zero) = a1
    BY <1>1, Neutral, AddComm
  <2>9. Factor(a1, a7) = f
    BY <1>6 DEF Factor, f, l, r, q, t
  <2>10. QED
    BY <1>6, <2>6, <2>7, <2>8, <2>9 DEF t
<1>7. QED
  BY <1>5, <1>6

\* S is (a1 x - a7) p + g K, with the coefficients counted from that of x^(n + 1).
IsCombination(S, n, a1, a7, g, p, K) ==
    \E d \in {n, n + 1} :
       /\ S \in [0 .. d -> Rat]
       /\ \A i \in Int : Term(S, d, i - (n + 1 - d))
                = Combined(a1, a7, g, Term(p, n, i), Term(p, n, i - 1), Term(K, n - 1, i - 2))

\* The terms of the combination of p and K.
LEMMA CombinationIs ==
  ASSUME NEW n \in 3 .. 11, NEW p \in [0 .. n -> Rat], NEW K \in [0 .. n - 1 -> Rat],
         NEW a1 \in Rat, NEW a7 \in Rat, NEW g \in Rat
  PROVE  IsCombination(Plus(Product(Factor(a1, a7), p), Times(g, K)), n, a1, a7, g, p, K)
<1> DEFINE m == n - 1
<1>1. /\ m \in Nat /\ n \in Nat /\ m = n - 1 /\ K \in [0 .. m -> Rat] /\ n = m + 1 /\ n \in 2 .. 12 /\ 0 + n = n /\ 1 + n = n + 1 /\ 0 + n <= 12 /\ 1 + n <= 12
      /\ n \in 0 .. 12 /\ n + 1 \in 0 .. 12 /\ m \in 0 .. 12 /\ m \in 0 .. n /\ m \in 0 .. n + 1
      /\ n - m = 1 /\ (n + 1) - m = 2 /\ 0 \in 0 .. 2 /\ 1 \in 0 .. 2
  OBVIOUS
<1> HIDE DEF m
<1> DEFINE h == Factor(a1, a7)
           q == Product(h, p)
           k == Times(g, K)
           S == Plus(q, k)
<1>2. k \in [0 .. m -> Rat] /\ \A i : Term(k, m, i) = RMul(g, Term(K, m, i))
  BY <1>1, TimesIs
<1>3. \A i : Term(p, n, i) \in Rat /\ Term(K, m, i) \in Rat
  BY <1>1, TermType
<1> HIDE DEF h, q, k, S
<1>4. CASE a1 = Zero
  <2>1. h \in [0 .. 0 -> Rat] /\ h[0] = RNeg(a7)
    BY <1>4, FactorIs DEF h
  <2>2. /\ Product(h, p) \in [0 .. 0 + n -> Rat]
        /\ \A i \in Int : Term(Product(h, p), 0 + n, i) =
                IF 0 = 0 THEN RMul(h[0], Term(p, n, i))
                ELSE IF 0 = 1 THEN RAdd(RMul(h[1], Term(p, n, i - 1)), RMul(h[0], Term(p, n, i)))
                ELSE RAdd(RAdd(RMul(h[2], Term(p, n, i - 2)), RMul(h[1], Term(p, n, i - 1))),
                          RMul(h[0], Term(p, n, i)))
    <3>1. n \in 2 .. 12 /\ 0 \in 0 .. 2 /\ 0 + n <= 12
      BY <1>1
    <3>2. QED
      BY <2>1, <3>1, ProductIs, Zenon
  <2>3. q \in [0 .. n -> Rat] /\ \A i \in Int : Term(q, n, i) = RMul(RNeg(a7), Term(p, n, i))
    BY <1>1, <2>1, <2>2 DEF q
  <2>4. S \in [0 .. n -> Rat] /\ \A i \in Int : Term(S, n, i) = RAdd(Term(q, n, i), Term(k, m, i - (n - m)))
    BY <1>1, <1>2, <2>3, PlusIs DEF S
  <2>5. ASSUME NEW i \in Int
        PROVE  Term(S, n, i - (n + 1 - n)) = Combined(a1, a7, g, Term(p, n, i), Term(p, n, i - 1), Term(K, m, i - 2))
    <3>1. i - 1 \in Int /\ i - (n + 1 - n) = i - 1 /\ (i - 1) - (n - m) = i - 2
      BY <1>1
    <3>2. Term(S, n, i - 1) = RAdd(RMul(RNeg(a7), Term(p, n, i - 1)), RMul(g, Term(K, m, i - 2)))
      BY <1>2, <2>3, <2>4, <3>1
    <3> DEFINE x == Term(p, n, i)
               y == Term(p, n, i - 1)
    <3>3. x \in Rat /\ y \in Rat
      BY <1>3
    <3> HIDE DEF x, y
    <3>4. RMul(RNeg(a7), y) = RSub(RMul(a1, x), RMul(a7, y))
      <4>1. RMul(Zero, x) = Zero
        BY <3>3, ZeroOne, Neutral, MulComm
      <4>2. RMul(a7, y) \in Rat /\ RNeg(RMul(a7, y)) \in Rat /\ RMul(RNeg(a7), y) = RNeg(RMul(a7, y))
        BY <3>3, MulType, NegType, NegFacts
      <4>3. RAdd(Zero, RNeg(RMul(a7, y))) = RNeg(RMul(a7, y))
        BY <4>2, ZeroOne, Neutral, AddComm
      <4>4. QED
        BY <1>4, <4>1, <4>2, <4>3 DEF RSub
    <3>5. QED
      BY <3>1, <3>2, <3>4 DEF Combined, x, y
  <2>6. IsCombination(S, n, a1, a7, g, p, K)
    BY <1>1, <2>4, <2>5 DEF IsCombination
  <2>7. QED
    BY <2>6 DEF S, q, k, h
<1>5. CASE a1 # Zero
  <2>1. h \in [0 .. 1 -> Rat] /\ h[0] = a1 /\ h[1] = RNeg(a7)
    BY <1>5, FactorIs DEF h
  <2>2. /\ Product(h, p) \in [0 .. 1 + n -> Rat]
        /\ \A i \in Int : Term(Product(h, p), 1 + n, i) =
                IF 1 = 0 THEN RMul(h[0], Term(p, n, i))
                ELSE IF 1 = 1 THEN RAdd(RMul(h[1], Term(p, n, i - 1)), RMul(h[0], Term(p, n, i)))
                ELSE RAdd(RAdd(RMul(h[2], Term(p, n, i - 2)), RMul(h[1], Term(p, n, i - 1))),
                          RMul(h[0], Term(p, n, i)))
    BY <1>1, <2>1, ProductIs, Zenon
  <2>3. /\ q \in [0 .. n + 1 -> Rat]
        /\ \A i \in Int : Term(q, n + 1, i) = RAdd(RMul(RNeg(a7), Term(p, n, i - 1)), RMul(a1, Term(p, n, i)))
    BY <1>1, <2>1, <2>2 DEF q
  <2>4. S \in [0 .. n + 1 -> Rat] /\ \A i \in Int : Term(S, n + 1, i) = RAdd(Term(q, n + 1, i), Term(k, m, i - ((n + 1) - m)))
    BY <1>1, <1>2, <2>3, PlusIs DEF S
  <2>5. ASSUME NEW i \in Int
        PROVE  Term(S, n + 1, i - (n + 1 - (n + 1)))
               = Combined(a1, a7, g, Term(p, n, i), Term(p, n, i - 1), Term(K, m, i - 2))
    <3>1. i - (n + 1 - (n + 1)) = i /\ i - ((n + 1) - m) = i - 2
      BY <1>1
    <3>2. Term(S, n + 1, i)
          = RAdd(RAdd(RMul(RNeg(a7), Term(p, n, i - 1)), RMul(a1, Term(p, n, i))), RMul(g, Term(K, m, i - 2)))
      BY <1>2, <2>3, <2>4, <3>1
    <3> DEFINE x == Term(p, n, i)
               y == Term(p, n, i - 1)
    <3>3. x \in Rat /\ y \in Rat
      BY <1>3
    <3> HIDE DEF x, y
    <3>4. RAdd(RMul(RNeg(a7), y), RMul(a1, x)) = RSub(RMul(a1, x), RMul(a7, y))
      <4>1. RMul(a7, y) \in Rat /\ RNeg(RMul(a7, y)) \in Rat /\ RMul(RNeg(a7), y) = RNeg(RMul(a7, y)) /\ RMul(a1, x) \in Rat
        BY <3>3, MulType, NegType, NegFacts
      <4>2. QED
        BY <4>1, AddComm DEF RSub
    <3>5. QED
      BY <3>1, <3>2, <3>4 DEF Combined, x, y
  <2>6. IsCombination(S, n, a1, a7, g, p, K)
    BY <1>1, <2>4, <2>5 DEF IsCombination
  <2>7. QED
    BY <2>6 DEF S, q, k, h
<1>6. QED
  BY <1>4, <1>5

\* A fixed shift step.
LEMMA ShiftDivides ==
  ASSUME NEW n \in 3 .. 11, NEW p \in [0 .. n -> Rat], NEW K \in [0 .. n - 1 -> Rat], NEW u \in Rat, NEW v \in Rat
  PROVE  LET X  == QuadSD(u, v, p)
             sc == CalcSC(A(X), B(X), K, u, v)
         IN  Same(Times(Divisor(sc), Product(Quadratic(u, v), NextK(sc, X, K))),
                  Plus(Product(Factor(sc.a1, sc.a7), p), Times(IF sc.type = 3 THEN One ELSE sc.a3, K)))
             /\ sc.a1 \in Rat /\ sc.a7 \in Rat /\ (sc.type = 3 => sc.a1 = Zero)
<1> DEFINE m == n - 1
           X == QuadSD(u, v, p)
           Y == QuadSD(u, v, K)
           a == A(X)
           b == B(X)
           sc == CalcSC(a, b, K, u, v)
           g == IF sc.type = 3 THEN One ELSE sc.a3
           V == NextK(sc, X, K)
           D == Divisor(sc)
<1>1. /\ m \in Nat /\ n \in Nat /\ n = m + 1 /\ m = n - 1 /\ n \in 0 .. n /\ n - 1 \in 0 .. n /\ m \in 0 .. m /\ m - 1 \in 0 .. m
      /\ m \in 0 .. 12 /\ n \in 0 .. 12 /\ m \in 2 .. 10 /\ 2 + m = n + 1 /\ n + 1 \in 0 .. 12 /\ K \in [0 .. m -> Rat]
  OBVIOUS
<1> HIDE DEF m
<1>2. X \in [0 .. n -> Rat] /\ IsQuotientOf(X, n, u, v, p)
  BY <1>1, QuadSDFacts DEF IsQuotientOf, Folded
<1>3. Y \in [0 .. m -> Rat] /\ IsQuotientOf(Y, m, u, v, K)
  BY <1>1, QuadSDFacts DEF IsQuotientOf, Folded
<1> HIDE DEF X
<1>4. Degree(X) = n /\ Degree(Y) = m
  BY <1>1, <1>2, <1>3, DegreeOf, Zenon
<1>5. a = X[n] /\ b = X[n - 1] /\ A(Y) = Y[m] /\ B(Y) = Y[m - 1]
  BY <1>4 DEF A, B
<1>6. a \in Rat /\ b \in Rat /\ A(Y) \in Rat /\ B(Y) \in Rat
  BY <1>1, <1>2, <1>3, <1>5
<1> HIDE DEF a, b
<1>7. /\ sc.qk = Y
      /\ \/ ThirdKind(sc, A(Y), B(Y)) \/ SecondKind(sc, a, b, u, v, A(Y), B(Y))
         \/ FirstKind(sc, a, b, u, v, A(Y), B(Y))
  BY <1>6, KindOfScalars
<1> HIDE DEF Y, sc
<1>8. sc.a1 \in Rat /\ sc.a3 \in Rat /\ sc.a7 \in Rat /\ (sc.type = 3 => sc.a1 = Zero /\ sc.a7 = Zero) /\ g \in Rat
      /\ NoRemainder(sc.a1, sc.a7, g, u, v, a, b, A(Y), B(Y))
  <2>1. CASE ThirdKind(sc, A(Y), B(Y))
    <3>1. sc.type = 3 /\ A(Y) = Zero /\ B(Y) = Zero /\ sc.a1 = Zero /\ sc.a3 = Zero /\ sc.a7 = Zero /\ g = One
      BY <2>1 DEF ThirdKind
    <3>2. \A x \in Rat, y \in Rat : Combined(Zero, Zero, One, x, y, Zero) = Zero
      <4>1. \A x \in Rat : RMul(Zero, x) = Zero /\ RMul(x, Zero) = Zero
        BY ZeroOne, Neutral, MulComm
      <4>2. RSub(Zero, Zero) = Zero /\ RAdd(Zero, Zero) = Zero
        BY ZeroOne, Neutral, NegZero DEF RSub
      <4>3. QED
        BY <4>1, <4>2, ZeroOne DEF Combined
    <3>3. RNeg(RAdd(RMul(u, a), RMul(v, b))) \in Rat
      BY <1>6, MulType, AddType, NegType
    <3>4. NoRemainder(Zero, Zero, One, u, v, a, b, Zero, Zero)
      BY <1>6, <3>2, <3>3 DEF NoRemainder
    <3>5. QED
      BY <3>1, <3>4, ZeroOne
  <2>2. CASE SecondKind(sc, a, b, u, v, A(Y), B(Y))
    <3>1. sc.type # 3 /\ g = sc.a3
      BY <2>2 DEF SecondKind
    <3>2. QED
      BY <1>6, <2>2, <3>1, SecondKindFacts
  <2>3. CASE FirstKind(sc, a, b, u, v, A(Y), B(Y))
    <3>1. sc.type # 3 /\ g = sc.a3
      BY <2>3 DEF FirstKind
    <3>2. QED
      BY <1>6, <2>3, <3>1, FirstKindFacts
  <2>4. QED
    BY <1>7, <2>1, <2>2, <2>3
<1>9. V \in [0 .. m -> Rat] /\ D \in Rat /\ IsNextK(V, D, sc.a1, sc.a7, g, X, Y, n, m)
  <2>1. sc.a1 \in Rat /\ sc.a3 \in Rat /\ sc.a7 \in Rat /\ (sc.type = 3 => sc.a1 = Zero /\ sc.a7 = Zero)
    BY <1>8
  <2>2. sc.qk = Y
    BY <1>7
  <2>3. n \in 3 .. 11 /\ m = n - 1 /\ K \in [0 .. m -> Rat] /\ X \in [0 .. n -> Rat] /\ Y \in [0 .. m -> Rat]
    BY <1>1, <1>2, <1>3
  <2>4. NextKLaw(sc, X, Y, K, n, m)
    BY <2>1, <2>2, <2>3, NextKFacts
  <2>5. QED
    BY <2>4 DEF NextKLaw
<1> HIDE DEF V, D, g
<1> DEFINE a1 == sc.a1
           a7 == sc.a7
<1>11. a1 \in Rat /\ a7 \in Rat /\ g \in Rat /\ NoRemainder(a1, a7, g, u, v, X[n], X[n - 1], Y[m], Y[m - 1])
  BY <1>5, <1>8
<1>12. IsNextK(V, D, a1, a7, g, X, Y, n, m)
  BY <1>9
<1> HIDE DEF a1, a7
<1>13. \A i \in Int : i <= n + 1 =>
            RMul(D, RAdd(RAdd(RMul(v, Term(V, m, i - 2)), RMul(u, Term(V, m, i - 1))), RMul(One, Term(V, m, i))))
            = Combined(a1, a7, g, Term(p, n, i), Term(p, n, i - 1), Term(K, m, i - 2))
  <2>1. n \in 3 .. 11 /\ m = n - 1
    BY <1>1
  <2>2. DividedBy(V, D, n, m, u, v, a1, a7, g, p, K)
    BY <1>1, <1>2, <1>3, <1>9, <1>11, <1>12, <2>1, NextKDivides
  <2>3. QED
    BY <2>2 DEF DividedBy
<1> DEFINE Q == Product(Quadratic(u, v), V)
           L == Times(D, Q)
           S == Plus(Product(Factor(a1, a7), p), Times(g, K))
<1>14. /\ Q \in [0 .. 2 + m -> Rat]
       /\ \A i \in Int : Term(Q, 2 + m, i)
                = RAdd(RAdd(RMul(v, Term(V, m, i - 2)), RMul(u, Term(V, m, i - 1))), RMul(One, Term(V, m, i)))
  BY <1>1, <1>9, QuadraticProduct, Zenon
<1> HIDE DEF Q
<1>15. L \in [0 .. n + 1 -> Rat] /\ \A i : Term(L, n + 1, i) = RMul(D, Term(Q, n + 1, i))
  <2>1. Q \in [0 .. n + 1 -> Rat]
    BY <1>1, <1>14
  <2>2. QED
    BY <1>1, <1>9, <2>1, TimesIs
<1> HIDE DEF L
<1>16. ASSUME NEW i \in Int, i <= n + 1
       PROVE  Term(L, n + 1, i) = Combined(a1, a7, g, Term(p, n, i), Term(p, n, i - 1), Term(K, m, i - 2))
  <2>1. Term(Q, n + 1, i)
        = RAdd(RAdd(RMul(v, Term(V, m, i - 2)), RMul(u, Term(V, m, i - 1))), RMul(One, Term(V, m, i)))
    BY <1>1, <1>14
  <2>2. QED
    BY <1>13, <1>15, <1>16, <2>1
<1>17. PICK d \in {n, n + 1} :
          /\ S \in [0 .. d -> Rat]
          /\ \A i \in Int : Term(S, d, i - (n + 1 - d))
                = Combined(a1, a7, g, Term(p, n, i), Term(p, n, i - 1), Term(K, m, i - 2))
  <2>1. IsCombination(S, n, a1, a7, g, p, K)
    BY <1>11, CombinationIs
  <2> HIDE DEF S
  <2>2. QED
    BY <1>1, <2>1 DEF IsCombination
<1> HIDE DEF S
<1> DEFINE e == n + 1
<1>18. ASSUME NEW k \in 0 .. 12
       PROVE  Term(L, e, e - k) = Term(S, d, d - k)
  <2>1. n + 1 - k \in Int /\ n + 1 - k <= n + 1 /\ (n + 1 - k) - (n + 1 - d) = d - k
    BY <1>1, <1>17
  <2>2. QED
    BY <1>16, <1>17, <2>1
<1>19. Same(L, S)
  <2>1. d \in 0 .. 12 /\ e \in 0 .. 12 /\ L \in [0 .. e -> Rat] /\ S \in [0 .. d -> Rat]
    BY <1>1, <1>15, <1>17
  <2> HIDE DEF e
  <2>2. QED
    BY <1>18, <2>1, SameIs
<1>20. QED
  BY <1>8, <1>19 DEF L, Q, S, a1, a7, g, V, D, sc, a, b, X

\* Every next K, of a fixed shift, of a linear one or of none, is an exact quotient by
\* the shift (nextK_ak1 and the steps of RealIT_ak1).
THEOREM StepsDivide ==
  NumericsSpec => []StepsDivideByTheShift
<1>1. AnswerIsOfTask => StepsDivideByTheShift
  <2> SUFFICES ASSUME AnswerIsOfTask
               PROVE  StepsDivideByTheShift
    OBVIOUS
  <2>1. ASSUME Done("shift")
        PROVE  LET sc   == answer.value.sc
                   lead == IF sc.type = 3 \/ sc.a1 = Zero THEN Constant(Zero)
                           ELSE Times(sc.a1, Root(Zero))
                   ofP  == Plus(lead, Constant(RNeg(sc.a7)))
                   ofK  == IF sc.type = 3 THEN One ELSE sc.a3
                   scale == IF sc.type = 3 \/ sc.a1 = Zero THEN One ELSE sc.a1
               IN  Same(Times(scale, Product(Quadratic(task.shift[1], task.shift[2]), answer.value.K)),
                        Plus(Product(ofP, task.p), Times(ofK, task.K)))
    <3> DEFINE p == task.p
               K == task.K
               u == task.shift[1]
               v == task.shift[2]
               X == QuadSD(u, v, p)
               sc == CalcSC(A(X), B(X), K, u, v)
    <3>1. task \in ShiftTasks /\ answer.value = ShiftAnswer(task)
      BY <2>1, KindOfTask DEF AnswerIsOfTask, Done
    <3>2. answer.value.sc = sc /\ answer.value.K = NextK(sc, X, K)
      <4> HIDE DEF sc, X
      <4>1. answer.value = [sc |-> sc, K |-> NextK(sc, X, K), next |-> Newest(sc, A(X), B(X), u, v, K, p)]
        BY <3>1 DEF ShiftAnswer, sc, X
      <4>2. QED
        BY <4>1
    <3>3. IsPair(p, K) /\ u \in Rat /\ v \in Rat
      BY <3>1, ShiftAssumption
    <3>4. PICK n \in 3 .. 11 : p \in [0 .. n -> Rat] /\ K \in [0 .. n - 1 -> Rat]
      BY <3>3 DEF IsPair
    <3> HIDE DEF p, K, u, v
    <3>5. Same(Times(Divisor(sc), Product(Quadratic(u, v), NextK(sc, X, K))),
               Plus(Product(Factor(sc.a1, sc.a7), p), Times(IF sc.type = 3 THEN One ELSE sc.a3, K)))
          /\ sc.a1 \in Rat /\ sc.a7 \in Rat /\ (sc.type = 3 => sc.a1 = Zero)
      BY <3>3, <3>4, ShiftDivides
    <3> DEFINE z == answer.value.sc
               V == answer.value.K
    <3>6. z.type = 3 => z.a1 = Zero
      BY <3>2, <3>5
    <3>7. Same(Times(Divisor(z), Product(Quadratic(u, v), V)),
               Plus(Product(Factor(z.a1, z.a7), p), Times(IF z.type = 3 THEN One ELSE z.a3, K)))
      <4> HIDE DEF sc, X
      <4>1. QED
        BY <3>2, <3>5
    <3> HIDE DEF sc, X, V, z
    <3>8. /\ (IF z.type = 3 \/ z.a1 = Zero THEN One ELSE z.a1) = Divisor(z)
          /\ Plus(IF z.type = 3 \/ z.a1 = Zero THEN Constant(Zero) ELSE Times(z.a1, Root(Zero)), Constant(RNeg(z.a7)))
             = Factor(z.a1, z.a7)
      BY <3>6 DEF Divisor, Factor
    <3>9. Same(Times(IF z.type = 3 \/ z.a1 = Zero THEN One ELSE z.a1, Product(Quadratic(u, v), V)),
               Plus(Product(Plus(IF z.type = 3 \/ z.a1 = Zero THEN Constant(Zero) ELSE Times(z.a1, Root(Zero)),
                                 Constant(RNeg(z.a7))), p),
                    Times(IF z.type = 3 THEN One ELSE z.a3, K)))
      BY <3>7, <3>8
    <3>10. QED
      BY <3>9 DEF z, V, p, K, u, v
  <2>2. ASSUME Done("linear")
        PROVE  LET atS == Value(task.K, task.s)
               IN  Same(Product(Root(task.s), answer.value),
                        IF atS = Zero THEN task.K
                        ELSE Plus(task.p, Times(RNeg(Value(task.p, task.s) (/) atS), task.K)))
    <3> DEFINE p == task.p
               K == task.K
               s == task.s
    <3>1. task \in LinearTasks /\ answer.value = NextLinearK(p, K, s)
      BY <2>2, KindOfTask DEF AnswerIsOfTask, Done
    <3>2. IsPair(p, K) /\ s \in Rat
      BY <3>1, LinearAssumption
    <3>3. PICK n \in 3 .. 11 : p \in [0 .. n -> Rat] /\ K \in [0 .. n - 1 -> Rat]
      BY <3>2 DEF IsPair
    <3> HIDE DEF p, K, s
    <3>4. Same(Product(Root(s), NextLinearK(p, K, s)),
               IF Value(K, s) = Zero THEN K ELSE Plus(p, Times(RNeg(Value(p, s) (/) Value(K, s)), K)))
      BY <3>2, <3>3, LinearDivides
    <3>5. QED
      BY <3>1, <3>4 DEF p, K, s
  <2>3. QED
    BY <2>1, <2>2 DEF StepsDivideByTheShift
<1>2. QED
  BY <1>1, AnswersMatch, PTL

-----------------------------------------------------------------------------
(* The next quadratic                                                       *)

\* The values a4 and a5 of newest_ak1.
Fourth(sc, a, b, u) ==
    IF sc.type = 2 THEN RAdd(RMul(RAdd(a, sc.g), sc.f), sc.h)
    ELSE RAdd(RAdd(a, RMul(u, b)), RMul(sc.h, sc.f))

Fifth(sc, c, d, u, v) ==
    IF sc.type = 2 THEN RAdd(RMul(RAdd(sc.f, u), c), RMul(v, d))
    ELSE RAdd(c, RMul(RAdd(u, RMul(v, sc.f)), d))

\* The scalars are the products of the remainders, divided by g.
Scaled(g, x1, x3, x7, x4, x5, a, b, c, d, u, v) ==
    /\ g \in Rat /\ g # Zero
    /\ x1 \in Rat /\ x3 \in Rat /\ x7 \in Rat /\ x4 \in Rat /\ x5 \in Rat
    /\ RMul(g, x1) = Determinant(a, b, c, d)
    /\ RMul(g, x3) = Norm(a, b, u, v)
    /\ RMul(g, x7) = Pairing(a, b, c, d, u, v)
    /\ RMul(g, x4) = Conjugated(a, b, c, d, u, v)
    /\ RMul(g, x5) = Norm(c, d, u, v)

\* The scalars of the first kind are the products of the remainders, divided by c.
LEMMA FirstKindScaled ==
  ASSUME NEW a \in Rat, NEW b \in Rat, NEW u \in Rat, NEW v \in Rat, NEW c \in Rat, NEW d \in Rat,
         NEW sc, FirstKind(sc, a, b, u, v, c, d)
  PROVE  Scaled(c, sc.a1, sc.a3, sc.a7, Fourth(sc, a, b, u), Fifth(sc, c, d, u, v), a, b, c, d, u, v)
<1> DEFINE e == RDiv(a, c)
           f == RDiv(d, c)
           h == RMul(v, b)
           y == RDiv(h, c)
<1>0. c # Zero
  BY DEF FirstKind
<1>1. h \in Rat
  BY MulType
<1>2. e \in Rat /\ f \in Rat
  BY <1>0, DivType
<1>3. y \in Rat
  <2> HIDE DEF h
  <2>1. QED
    BY <1>0, <1>1, DivType
<1>4. a = RMul(e, c) /\ d = RMul(f, c)
  BY <1>0, DivMul
<1>5. h = RMul(y, c)
  <2> HIDE DEF h
  <2>1. QED
    BY <1>0, <1>1, DivMul
<1>6. /\ sc.a1 = RSub(b, RMul(a, f))
      /\ sc.a3 = RAdd(RMul(e, a), RMul(RAdd(RMul(e, u), y), b))
      /\ sc.a7 = RAdd(RAdd(RMul(RMul(e, u), d), RMul(h, f)), a)
      /\ sc.f = f /\ sc.h = h /\ sc.type = 1
  BY DEF FirstKind
<1>7. /\ Fourth(sc, a, b, u) = RAdd(RAdd(a, RMul(u, b)), RMul(h, f))
      /\ Fifth(sc, c, d, u, v) = RAdd(c, RMul(RAdd(u, RMul(v, f)), d))
  <2> HIDE DEF e, f, h, y
  <2>1. QED
    BY <1>6 DEF Fourth, Fifth
<1>8. h = RMul(v, b)
  OBVIOUS
<1> HIDE DEF e, f, h, y
<1>9. FirstTimesLaw(e, f, c, u, b, y) /\ FirstTimesAgainLaw(a, e, f, c, u, b, h, v)
  BY <1>1, <1>2, <1>3, FirstTimes, FirstTimesAgain
<1>10. RMul(c, sc.a1) = Determinant(a, b, c, d) /\ RMul(c, sc.a3) = Norm(a, b, u, v)
  BY <1>4, <1>5, <1>6, <1>8, <1>9 DEF FirstTimesLaw, Determinant, Norm, (+), (-), (.)
<1>11. RMul(c, sc.a7) = Pairing(a, b, c, d, u, v)
  BY <1>4, <1>6, <1>8, <1>9 DEF FirstTimesAgainLaw, Pairing, (+), (-), (.)
<1>12. RMul(c, Fourth(sc, a, b, u)) = Conjugated(a, b, c, d, u, v)
  BY <1>4, <1>7, <1>8, <1>9 DEF FirstTimesAgainLaw, Conjugated, (+), (-), (.)
<1>13. RMul(c, Fifth(sc, c, d, u, v)) = Norm(c, d, u, v)
  BY <1>4, <1>7, <1>9 DEF FirstTimesAgainLaw, Norm, (+), (-), (.)
<1>14. Fourth(sc, a, b, u) \in Rat /\ Fifth(sc, c, d, u, v) \in Rat
  BY <1>1, <1>2, <1>7, MulType, AddType
<1>15. sc.a1 \in Rat /\ sc.a3 \in Rat /\ sc.a7 \in Rat
  BY FirstKindFacts
<1>16. QED
  BY <1>0, <1>10, <1>11, <1>12, <1>13, <1>14, <1>15 DEF Scaled

\* The scalars of the second kind are the products of the remainders, divided by d.
LEMMA SecondKindScaled ==
  ASSUME NEW a \in Rat, NEW b \in Rat, NEW u \in Rat, NEW v \in Rat, NEW c \in Rat, NEW d \in Rat,
         NEW sc, SecondKind(sc, a, b, u, v, c, d)
  PROVE  Scaled(d, sc.a1, sc.a3, sc.a7, Fourth(sc, a, b, u), Fifth(sc, c, d, u, v), a, b, c, d, u, v)
<1> DEFINE e == RDiv(a, d)
           f == RDiv(c, d)
           h == RMul(v, b)
           y == RDiv(b, d)
<1>0. d # Zero
  BY DEF SecondKind
<1>1. h \in Rat
  BY MulType
<1>2. e \in Rat /\ f \in Rat /\ y \in Rat
  BY <1>0, DivType
<1>3. a = RMul(e, d) /\ c = RMul(f, d) /\ b = RMul(y, d)
  BY <1>0, DivMul
<1>4. /\ sc.a1 = RSub(RMul(f, b), a)
      /\ sc.a3 = RAdd(RMul(e, RAdd(RMul(u, b), a)), RMul(h, y))
      /\ sc.a7 = RAdd(h, RMul(RAdd(f, u), a))
      /\ sc.f = f /\ sc.h = h /\ sc.g = RMul(u, b) /\ sc.type = 2
  BY DEF SecondKind
<1>5. /\ Fourth(sc, a, b, u) = RAdd(RMul(RAdd(a, RMul(u, b)), f), h)
      /\ Fifth(sc, c, d, u, v) = RAdd(RMul(RAdd(f, u), c), RMul(v, d))
  <2> HIDE DEF e, f, h, y
  <2>1. QED
    BY <1>4 DEF Fourth, Fifth
<1>6. h = RMul(v, b)
  OBVIOUS
<1> HIDE DEF e, f, h, y
<1>7. SecondTimesLaw(e, f, d, u, y, h) /\ SecondTimesAgainLaw(a, e, f, d, u, b, h, v)
  BY <1>1, <1>2, SecondTimes, SecondTimesAgain
<1>8. RMul(d, sc.a1) = Determinant(a, b, c, d) /\ RMul(d, sc.a3) = Norm(a, b, u, v)
  BY <1>3, <1>4, <1>6, <1>7 DEF SecondTimesLaw, Determinant, Norm, (+), (-), (.)
<1>9. RMul(d, sc.a7) = Pairing(a, b, c, d, u, v)
  BY <1>3, <1>4, <1>6, <1>7 DEF SecondTimesAgainLaw, Pairing, (+), (-), (.)
<1>10. RMul(d, Fourth(sc, a, b, u)) = Conjugated(a, b, c, d, u, v)
  BY <1>3, <1>5, <1>6, <1>7 DEF SecondTimesAgainLaw, Conjugated, (+), (-), (.)
<1>11. RMul(d, Fifth(sc, c, d, u, v)) = Norm(c, d, u, v)
  BY <1>3, <1>5, <1>7 DEF SecondTimesAgainLaw, Norm, (+), (-), (.)
<1>12. Fourth(sc, a, b, u) \in Rat /\ Fifth(sc, c, d, u, v) \in Rat
  <2>1. RAdd(a, RMul(u, b)) \in Rat /\ RAdd(f, u) \in Rat
    BY <1>2, MulType, AddType
  <2>2. RMul(RAdd(a, RMul(u, b)), f) \in Rat /\ RMul(RAdd(f, u), c) \in Rat /\ RMul(v, d) \in Rat
    BY <1>2, <2>1, MulType
  <2>3. QED
    BY <1>1, <1>5, <2>2, AddType
<1>13. sc.a1 \in Rat /\ sc.a3 \in Rat /\ sc.a7 \in Rat
  BY SecondKindFacts
<1>14. QED
  BY <1>0, <1>8, <1>9, <1>10, <1>11, <1>12, <1>13 DEF Scaled

\* The values of newest_ak1, with p and q for b1 and b2.
FourthScalar(x1, x3, x7, v, p, q) ==
    RSub(RMul(RMul(v, q), x1), RAdd(RMul(p, x7), RMul(RMul(p, p), x3)))

Temp(x1, x3, x7, x4, x5, v, p, q) ==
    RAdd(RSub(x5, FourthScalar(x1, x3, x7, v, p, q)), RMul(p, x4))

Change(x1, x3, x7, u, v, p, q) ==
    RAdd(RMul(u, RAdd(RMul(RMul(p, p), x3), RMul(p, x7))), RMul(v, RAdd(RMul(p, x1), RMul(q, x7))))

ScaledValuesLaw(g, x1, x3, x7, x4, x5, a, b, c, d, u, v, t, w) ==
    LET p == RNeg(t)
        q == RNeg(w)
    IN  /\ FourthScalar(x1, x3, x7, v, p, q) \in Rat
        /\ Temp(x1, x3, x7, x4, x5, v, p, q) \in Rat
        /\ Change(x1, x3, x7, u, v, p, q) \in Rat
        /\ RMul(g, FourthScalar(x1, x3, x7, v, p, q)) = FourthOf(a, b, c, d, u, v, t, w)
        /\ RMul(g, Temp(x1, x3, x7, x4, x5, v, p, q)) = TempOf(a, b, c, d, u, v, t, w)
        /\ RMul(g, Change(x1, x3, x7, u, v, p, q)) = ChangeOf(a, b, c, d, u, v, t, w)

\* The values of newest_ak1 times g are those made of the products of the remainders.
LEMMA ScaledValues ==
  ASSUME NEW a \in Rat, NEW b \in Rat, NEW c \in Rat, NEW d \in Rat, NEW u \in Rat, NEW v \in Rat,
         NEW t \in Rat, NEW w \in Rat, NEW g, NEW x1, NEW x3, NEW x7, NEW x4, NEW x5,
         Scaled(g, x1, x3, x7, x4, x5, a, b, c, d, u, v)
  PROVE  ScaledValuesLaw(g, x1, x3, x7, x4, x5, a, b, c, d, u, v, t, w)
<1> DEFINE p == RNeg(t)
           q == RNeg(w)
           y == FourthScalar(x1, x3, x7, v, p, q)
           z == Change(x1, x3, x7, u, v, p, q)
<1>1. /\ g \in Rat /\ x1 \in Rat /\ x3 \in Rat /\ x7 \in Rat /\ x4 \in Rat /\ x5 \in Rat
      /\ RMul(g, x1) = Determinant(a, b, c, d) /\ RMul(g, x3) = Norm(a, b, u, v)
      /\ RMul(g, x7) = Pairing(a, b, c, d, u, v) /\ RMul(g, x4) = Conjugated(a, b, c, d, u, v)
      /\ RMul(g, x5) = Norm(c, d, u, v)
  BY DEF Scaled
<1>2. p \in Rat /\ q \in Rat
  BY NegType
<1> HIDE DEF p, q
<1>3. RMul(RMul(v, q), x1) \in Rat /\ RMul(p, x7) \in Rat /\ RMul(RMul(p, p), x3) \in Rat
      /\ RMul(p, x1) \in Rat /\ RMul(q, x7) \in Rat /\ RMul(p, x4) \in Rat
  BY <1>1, <1>2, MulType
<1>4. y \in Rat
  BY <1>3, AddType, SubType DEF FourthScalar
<1>5. z \in Rat
  BY <1>3, MulType, AddType DEF Change
<1>6. FourthTimesLaw(g, x1, x3, x7, v, p, q) /\ ChangeTimesLaw(g, x1, x3, x7, u, v, p, q)
  BY <1>1, <1>2, FourthTimes, ChangeTimes
<1>7. RMul(g, y) = FourthOf(a, b, c, d, u, v, t, w)
  <2> HIDE DEF Determinant, Norm, Pairing
  <2>1. RMul(g, y) = RSub(RMul(RMul(v, q), RMul(g, x1)), RAdd(RMul(p, RMul(g, x7)), RMul(RMul(p, p), RMul(g, x3))))
    BY <1>6 DEF FourthTimesLaw, FourthScalar, (+), (-), (.)
  <2>2. QED
    BY <1>1, <2>1 DEF FourthOf, p, q, (+), (-), (.)
<1>8. RMul(g, z) = ChangeOf(a, b, c, d, u, v, t, w)
  <2>1. RMul(g, z) = RAdd(RMul(u, RAdd(RMul(RMul(p, p), RMul(g, x3)), RMul(p, RMul(g, x7)))),
                          RMul(v, RAdd(RMul(p, RMul(g, x1)), RMul(q, RMul(g, x7)))))
    BY <1>6 DEF ChangeTimesLaw, Change, (+), (-), (.)
  <2>2. QED
    BY <1>1, <2>1 DEF ChangeOf, p, q, (+), (-), (.)
<1> HIDE DEF y, z
<1> DEFINE T == RAdd(RSub(x5, y), RMul(p, x4))
<1>9. T \in Rat
  BY <1>1, <1>3, <1>4, AddType, SubType
<1>10. TempTimesLaw(g, x4, x5, y, p)
  BY <1>1, <1>2, <1>4, TempTimes
<1>11. RMul(g, T) = TempOf(a, b, c, d, u, v, t, w)
  <2>1. RMul(g, T) = RAdd(RSub(RMul(g, x5), RMul(g, y)), RMul(p, RMul(g, x4)))
    BY <1>10 DEF TempTimesLaw, (+), (-), (.)
  <2> HIDE DEF T
  <2>2. QED
    BY <1>1, <1>7, <2>1 DEF TempOf, p, (+), (-), (.)
<1>12. T = Temp(x1, x3, x7, x4, x5, v, p, q)
  BY DEF Temp, y
<1> HIDE DEF T
<1>13. QED
  BY <1>4, <1>5, <1>7, <1>8, <1>9, <1>11, <1>12 DEF ScaledValuesLaw, p, q, y, z

\* The next remainder, times the product of the shift where it has to be divided by it.
NextRemainder(c1, d1, a, b, c, d, u, v, t) ==
    /\ c1 \in Rat /\ d1 \in Rat
    /\ c1 = RSub(d, RMul(t, b))
    /\ RMul(v, d1) = Carry(a, b, c, d, u, t)

Cross(c, d, c1, d1) == RSub(RMul(d, c1), RMul(c, d1))

CrossProductsLaw(a, b, c, d, u, v, t, w, c1, d1, c2, d2) ==
    /\ RMul(v, RMul(v, Cross(c1, d1, c2, d2))) = TempOf(a, b, c, d, u, v, t, w)
    /\ RMul(v, Cross(c, d, c1, d1)) = RAdd(TempOf(a, b, c, d, u, v, t, w), FourthOf(a, b, c, d, u, v, t, w))
    /\ RNeg(RMul(v, RMul(v, Cross(c, d, c2, d2))))
          = RSub(RMul(u, TempOf(a, b, c, d, u, v, t, w)), ChangeOf(a, b, c, d, u, v, t, w))

\* The three cross products in terms of the values of newest_ak1.
LEMMA CrossProducts ==
  ASSUME NEW a \in Rat, NEW b \in Rat, NEW c \in Rat, NEW d \in Rat, NEW u \in Rat, NEW v \in Rat,
         NEW t \in Rat, NEW w \in Rat, NEW c1, NEW d1, NEW c2, NEW d2,
         NextRemainder(c1, d1, a, b, c, d, u, v, t), NextRemainder(c2, d2, a, b, c1, d1, u, v, w)
  PROVE  CrossProductsLaw(a, b, c, d, u, v, t, w, c1, d1, c2, d2)
<1>1. /\ c1 \in Rat /\ d1 \in Rat /\ c2 \in Rat /\ d2 \in Rat
      /\ c1 = RSub(d, RMul(t, b)) /\ RMul(v, d1) = Carry(a, b, c, d, u, t)
      /\ c2 = RSub(d1, RMul(w, b)) /\ RMul(v, d2) = Carry(a, b, c1, d1, u, w)
  BY DEF NextRemainder
<1>2. StepTwiceLaw(a, b, c1, d1, u, v, w)
  BY <1>1, StepTwice
<1>3. RMul(v, c2) = RSub(Carry(a, b, c, d, u, t), RMul(w, RMul(v, b)))
  BY <1>1, <1>2 DEF StepTwiceLaw, (+), (-), (.)
<1>4. RMul(v, RMul(v, d2)) = CarryTwice(a, b, c, d, u, v, t, w)
  <2>1. Carry(a, b, c1, d1, u, w) = RAdd(RNeg(RAdd(c1, RMul(u, d1))), RMul(w, RAdd(a, RMul(u, b))))
    BY DEF Carry, (+), (.)
  <2>2. RMul(v, Carry(a, b, c1, d1, u, w))
        = RAdd(RNeg(RAdd(RMul(v, c1), RMul(u, RMul(v, d1)))), RMul(v, RMul(w, RAdd(a, RMul(u, b)))))
    BY <1>2, <2>1 DEF StepTwiceLaw, (+), (-), (.)
  <2>3. QED
    BY <1>1, <2>2 DEF CarryTwice, (+), (-), (.)
<1>5. RMul(v, RMul(v, Cross(c1, d1, c2, d2))) = TempOf(a, b, c, d, u, v, t, w)
  <2>1. CrossTwiceLaw(v, d1, c1, d2, c2) /\ NextCrossLaw(a, b, c, d, u, v, t, w)
    BY <1>1, CrossTwice, NextCross
  <2>2. RMul(v, RMul(v, Cross(c1, d1, c2, d2))) = RSub(RMul(RMul(v, d1), RMul(v, c2)), RMul(c1, RMul(v, RMul(v, d2))))
    BY <2>1 DEF CrossTwiceLaw, Cross, (+), (-), (.)
  <2>3. QED
    BY <1>1, <1>3, <1>4, <2>1, <2>2 DEF NextCrossLaw, (+), (-), (.)
<1>6. RMul(v, Cross(c, d, c1, d1)) = RAdd(TempOf(a, b, c, d, u, v, t, w), FourthOf(a, b, c, d, u, v, t, w))
  <2>1. CrossTwiceLaw(v, d, c, d1, c1) /\ FirstCrossLaw(a, b, c, d, u, v, t, w)
    BY <1>1, CrossTwice, FirstCross
  <2>2. RMul(v, Cross(c, d, c1, d1)) = RSub(RMul(d, RMul(v, c1)), RMul(c, RMul(v, d1)))
    BY <2>1 DEF CrossTwiceLaw, Cross, (+), (-), (.)
  <2>3. QED
    BY <1>1, <2>1, <2>2 DEF FirstCrossLaw, (+), (-), (.)
<1>7. RNeg(RMul(v, RMul(v, Cross(c, d, c2, d2))))
      = RSub(RMul(u, TempOf(a, b, c, d, u, v, t, w)), ChangeOf(a, b, c, d, u, v, t, w))
  <2>1. CrossTwiceLaw(v, d, c, d2, c2) /\ OuterCrossLaw(a, b, c, d, u, v, t, w)
    BY <1>1, CrossTwice, OuterCross
  <2>2. RMul(v, RMul(v, Cross(c, d, c2, d2))) = RSub(RMul(v, RMul(d, RMul(v, c2))), RMul(c, RMul(v, RMul(v, d2))))
    BY <2>1 DEF CrossTwiceLaw, Cross, (+), (-), (.)
  <2>3. QED
    BY <1>3, <1>4, <2>1, <2>2 DEF OuterCrossLaw, (+), (-), (.)
<1>8. QED
  BY <1>5, <1>6, <1>7 DEF CrossProductsLaw

\* The estimate is the ratio of the cross products.
RatiosLaw(u, v, T, f, s, x12, x01, x02) ==
    /\ T = Zero <=> x12 = Zero
    /\ T # Zero => /\ RSub(u, RDiv(s, T)) = RNeg(RDiv(x02, x12))
                   /\ RMul(v, RAdd(One, RDiv(f, T))) = RDiv(x01, x12)

\* The new coefficients are the ratios of the cross products.
LEMMA RatiosOfCrossProducts ==
  ASSUME NEW u \in Rat, NEW v \in Rat, v # Zero, NEW g \in Rat, g # Zero,
         NEW T \in Rat, NEW f \in Rat, NEW s \in Rat, NEW x12 \in Rat, NEW x01 \in Rat, NEW x02 \in Rat,
         RMul(v, RMul(v, x12)) = RMul(g, T), RMul(v, x01) = RAdd(RMul(g, T), RMul(g, f)),
         RNeg(RMul(v, RMul(v, x02))) = RSub(RMul(u, RMul(g, T)), RMul(g, s))
  PROVE  RatiosLaw(u, v, T, f, s, x12, x01, x02)
<1>1. T = Zero <=> x12 = Zero
  <2>1. RMul(v, x12) \in Rat
    BY MulType
  <2>2. RMul(v, RMul(v, x12)) = Zero <=> x12 = Zero
    BY <2>1, ProductIsZero
  <2>3. RMul(g, T) = Zero <=> T = Zero
    BY ProductIsZero
  <2>4. QED
    BY <2>2, <2>3
<1>2. ASSUME T # Zero
      PROVE  RMul(v, RAdd(One, RDiv(f, T))) = RDiv(x01, x12)
  <2> DEFINE q == RDiv(f, T)
             z == RMul(v, RAdd(One, q))
  <2>1. q \in Rat /\ RMul(q, T) = f
    BY <1>2, DivType, DivMul
  <2> HIDE DEF q
  <2>2. z \in Rat /\ RMul(z, x12) \in Rat
    BY <2>1, ZeroOne, AddType, MulType
  <2>3. RatioOfProductLaw(v, q, x12, g, T)
    BY <2>1, RatioOfProduct
  <2>4. RMul(v, RMul(z, x12)) = RMul(v, x01)
    <3>1. RMul(v, RMul(z, x12)) = RMul(RAdd(One, q), RMul(v, RMul(v, x12)))
      BY <2>3 DEF RatioOfProductLaw, (+), (.)
    <3>2. RMul(RAdd(One, q), RMul(g, T)) = RAdd(RMul(g, T), RMul(g, RMul(q, T)))
      BY <2>3 DEF RatioOfProductLaw, (+), (.)
    <3>3. QED
      BY <2>1, <3>1, <3>2
  <2>5. RMul(z, x12) = x01
    BY <2>2, <2>4, MulCancel
  <2> HIDE DEF z
  <2>6. z = RDiv(x01, x12)
    BY <1>1, <1>2, <2>2, <2>5, IsRatio
  <2>7. QED
    BY <2>6 DEF z, q
<1>3. ASSUME T # Zero
      PROVE  RSub(u, RDiv(s, T)) = RNeg(RDiv(x02, x12))
  <2> DEFINE r == RDiv(s, T)
             z == RSub(u, r)
  <2>1. r \in Rat /\ RMul(r, T) = s
    BY <1>3, DivType, DivMul
  <2> HIDE DEF r
  <2>2. z \in Rat /\ RNeg(z) \in Rat /\ RMul(z, x12) \in Rat /\ RNeg(x02) \in Rat
    BY <2>1, SubType, MulType, NegType
  <2>3. RatioOfChangeLaw(v, u, r, x12, g, T, x02)
    BY <2>1, RatioOfChange
  <2>4. RMul(v, RMul(v, RMul(z, x12))) = RMul(v, RMul(v, RNeg(x02)))
    <3>1. RMul(v, RMul(v, RMul(z, x12))) = RMul(z, RMul(v, RMul(v, x12)))
      BY <2>3 DEF RatioOfChangeLaw, (-), (.)
    <3>2. RMul(z, RMul(g, T)) = RSub(RMul(u, RMul(g, T)), RMul(g, RMul(r, T)))
      BY <2>3 DEF RatioOfChangeLaw, (-), (.)
    <3>3. RNeg(RMul(v, RMul(v, x02))) = RMul(v, RMul(v, RNeg(x02)))
      BY <2>3 DEF RatioOfChangeLaw, (-), (.)
    <3>4. QED
      BY <2>1, <3>1, <3>2, <3>3
  <2>5. RMul(z, x12) = RNeg(x02)
    <3>1. RMul(v, RMul(z, x12)) \in Rat /\ RMul(v, RNeg(x02)) \in Rat
      BY <2>2, MulType
    <3> HIDE DEF z
    <3>2. RMul(v, RMul(z, x12)) = RMul(v, RNeg(x02))
      BY <2>4, <3>1, MulCancel
    <3>3. QED
      BY <2>2, <3>2, MulCancel
  <2> HIDE DEF z
  <2>6. RMul(RNeg(z), x12) = x02
    BY <2>2, <2>5, NegFacts
  <2>7. RNeg(z) = RDiv(x02, x12)
    BY <1>1, <1>3, <2>2, <2>6, IsRatio
  <2>8. z = RNeg(RDiv(x02, x12))
    BY <2>2, <2>7, NegFacts
  <2>9. QED
    BY <2>8 DEF z, r
<1>4. QED
  BY <1>1, <1>2, <1>3 DEF RatiosLaw

Unshifted(K, p) ==
    LET t == K[Degree(K)] (/) p[Degree(p)]
    IN  [i \in DOMAIN K |-> (IF i = 0 THEN Zero ELSE K[i - 1]) (-) t (.) p[i]]

\* The terms of a step without a shift.
LEMMA UnshiftedIs ==
  ASSUME NEW n \in 3 .. 11, NEW m, m = n - 1, NEW p \in [0 .. n -> Rat], NEW K \in [0 .. m -> Rat], p[n] # Zero
  PROVE  /\ RDiv(K[m], p[n]) \in Rat
         /\ Unshifted(K, p) \in [0 .. m -> Rat]
         /\ \A i \in Int : i <= m =>
               Term(Unshifted(K, p), m, i) = RSub(Term(K, m, i - 1), RMul(RDiv(K[m], p[n]), Term(p, n, i)))
<1>1. /\ m \in Nat /\ n \in Nat /\ m \in 0 .. m /\ n \in 0 .. n /\ n = m + 1 /\ m \in 0 .. 12 /\ n \in 0 .. 12
      /\ DOMAIN K = 0 .. m
  OBVIOUS
<1> DEFINE t == RDiv(K[m], p[n])
           U == Unshifted(K, p)
<1>2. t \in Rat
  BY <1>1, DivType
<1>3. Degree(K) = m /\ Degree(p) = n
  BY <1>1, DegreeOf, Zenon
<1>4. U = [i \in 0 .. m |-> RSub(IF i = 0 THEN Zero ELSE K[i - 1], RMul(t, p[i]))]
  BY <1>1, <1>3 DEF Unshifted, (-), (.), (/)
<1> HIDE DEF U, t
<1>5. ASSUME NEW i \in 0 .. m
      PROVE  U[i] = RSub(Term(K, m, i - 1), RMul(t, Term(p, n, i))) /\ U[i] \in Rat
  <2>1. (IF i = 0 THEN Zero ELSE K[i - 1]) = Term(K, m, i - 1)
    BY <1>1 DEF Term
  <2>2. p[i] = Term(p, n, i)
    BY <1>1 DEF Term
  <2>3. Term(K, m, i - 1) \in Rat /\ Term(p, n, i) \in Rat
    BY <1>1, TermType
  <2>4. U[i] = RSub(Term(K, m, i - 1), RMul(t, Term(p, n, i)))
    <3> DEFINE o == IF i = 0 THEN Zero ELSE K[i - 1]
    <3>1. U[i] = RSub(o, RMul(t, p[i]))
      BY <1>4
    <3> HIDE DEF o
    <3>2. QED
      BY <2>1, <2>2, <3>1 DEF o
  <2>5. QED
    BY <1>2, <2>3, <2>4, MulType, SubType
<1>6. U \in [0 .. m -> Rat]
  <2>1. U = [i \in 0 .. m |-> U[i]]
    BY <1>4
  <2>2. QED
    BY <1>5, <2>1
<1>7. ASSUME NEW i \in Int, i <= m
      PROVE  Term(U, m, i) = RSub(Term(K, m, i - 1), RMul(t, Term(p, n, i)))
  <2>1. CASE i \in 0 .. m
    BY <1>5, <2>1 DEF Term
  <2>2. CASE i < 0
    <3>1. RSub(Zero, RMul(t, Zero)) = Zero
      BY <1>2, ZeroOne, Neutral, NegZero DEF RSub
    <3>2. i \notin 0 .. m /\ i - 1 \notin 0 .. m /\ i \notin 0 .. n
      BY <2>2
    <3>3. QED
      BY <3>1, <3>2 DEF Term
  <2>3. QED
    BY <1>7, <2>1, <2>2
<1>8. QED
  BY <1>2, <1>6, <1>7 DEF U, t

\* A division has one quotient.
Unfolds(Z, m, u, v, P) ==
    /\ \A i \in Int : i < 0 => Z[i] = Zero
    /\ \A i \in Int : i <= m => Folded(u, v, Z[i], Z[i - 1], Z[i - 2]) = Term(P, m, i)

Agree(Y, Z, m) == \A i \in 0 .. m : Y[i] = Z[i]

\* A quotient is determined by its dividend: by induction over its terms.
LEMMA QuotientIsUnique ==
  ASSUME NEW m \in Nat, NEW u \in Rat, NEW v \in Rat, NEW P, NEW Y \in [0 .. m -> Rat], IsQuotientOf(Y, m, u, v, P),
         NEW Z \in [Int -> Rat], Unfolds(Z, m, u, v, P)
  PROVE  Agree(Y, Z, m)
<1> DEFINE S == {k \in Nat : k - 1 <= m => Term(Y, m, k - 1) = Z[k - 1] /\ Term(Y, m, k - 2) = Z[k - 2]}
<1>1. 0 \in S
  <2>1. -1 \notin 0 .. m /\ -2 \notin 0 .. m /\ Z[-1] = Zero /\ Z[-2] = Zero
    BY DEF Unfolds
  <2>2. QED
    BY <2>1 DEF Term
<1>2. ASSUME NEW k \in Nat, k \in S
      PROVE  k + 1 \in S
  <2>1. SUFFICES ASSUME k <= m
                 PROVE  Term(Y, m, k) = Z[k] /\ Term(Y, m, k - 1) = Z[k - 1]
    OBVIOUS
  <2>2. k - 1 <= m /\ k \in Int /\ k - 1 \in Int /\ k - 2 \in Int
    BY <2>1
  <2>3. Term(Y, m, k - 1) = Z[k - 1] /\ Term(Y, m, k - 2) = Z[k - 2]
    BY <1>2, <2>2
  <2> DEFINE s == RAdd(RMul(u, Z[k - 1]), RMul(v, Z[k - 2]))
  <2>4. s \in Rat /\ Z[k] \in Rat /\ Term(Y, m, k) \in Rat
    BY <2>2, MulType, AddType, TermType
  <2>5. RAdd(Term(Y, m, k), s) = Term(P, m, k)
    BY <2>1, <2>2, <2>3 DEF IsQuotientOf, Folded
  <2>6. RAdd(Z[k], s) = Term(P, m, k)
    BY <2>1, <2>2 DEF Folded, Unfolds
  <2> HIDE DEF s
  <2>7. Term(Y, m, k) = Z[k]
    BY <2>4, <2>5, <2>6, AddCancel
  <2>8. QED
    BY <2>3, <2>7
<1> HIDE DEF S
<1>3. Nat \subseteq S
  BY <1>1, <1>2, SetInduction
<1>4. ASSUME NEW i \in 0 .. m
      PROVE  Y[i] = Z[i]
  <2>1. i + 1 \in S /\ (i + 1) - 1 = i /\ i <= m
    BY <1>3
  <2>2. Term(Y, m, i) = Z[i]
    BY <2>1 DEF S
  <2>3. QED
    BY <2>2 DEF Term
<1>5. QED
  BY <1>4 DEF Agree

\* The remainder of a step without a shift, in that of K.
LEMMA RemainderOfUnshifted ==
  ASSUME NEW n \in 3 .. 11, NEW m, m = n - 1, NEW p \in [0 .. n -> Rat], NEW K \in [0 .. m -> Rat], p[n] # Zero,
         NEW u \in Rat, NEW v \in Rat, NEW X \in [0 .. n -> Rat], IsQuotientOf(X, n, u, v, p),
         NEW Y \in [0 .. m -> Rat], IsQuotientOf(Y, m, u, v, K),
         NEW W \in [0 .. m -> Rat], IsQuotientOf(W, m, u, v, Unshifted(K, p))
  PROVE  NextRemainder(W[m], W[m - 1], X[n], X[n - 1], Y[m], Y[m - 1], u, v, RDiv(K[m], p[n]))
<1> DEFINE t == RDiv(K[m], p[n])
           U == Unshifted(K, p)
           Z == [i \in Int |-> RSub(Term(Y, m, i - 1), RMul(t, Term(X, n, i)))]
<1>1. /\ m \in Nat /\ n \in Nat /\ n = m + 1 /\ m \in 0 .. m /\ m - 1 \in 0 .. m /\ n \in 0 .. n /\ n - 1 \in 0 .. n
      /\ m \in Int /\ n \in Int /\ K[m] \in Rat /\ p[n] \in Rat
  OBVIOUS
<1>2. t \in Rat /\ \A i \in Int : i <= m => Term(U, m, i) = RSub(Term(K, m, i - 1), RMul(t, Term(p, n, i)))
  BY UnshiftedIs
<1>3. RMul(t, p[n]) = K[m]
  BY <1>1, DivMul
<1> HIDE DEF t, U
<1>4. \A i : Term(Y, m, i) \in Rat /\ Term(X, n, i) \in Rat
  BY <1>1, TermType
<1>5. \A i \in Int : RSub(Term(Y, m, i - 1), RMul(t, Term(X, n, i))) \in Rat
  BY <1>2, <1>4, MulType, SubType
<1>6. Z \in [Int -> Rat]
  BY <1>5
<1>7. \A i \in Int : Z[i] = RSub(Term(Y, m, i - 1), RMul(t, Term(X, n, i)))
  OBVIOUS
<1> HIDE DEF Z
<1>8. ASSUME NEW i \in Int, i < 0
      PROVE  Z[i] = Zero
  <2>1. RSub(Zero, RMul(t, Zero)) = Zero
    BY <1>2, ZeroOne, Neutral, NegZero DEF RSub
  <2>2. i - 1 \notin 0 .. m /\ i \notin 0 .. n
    BY <1>8
  <2>3. QED
    BY <1>7, <2>1, <2>2 DEF Term
<1>9. ASSUME NEW i \in Int, i <= m
      PROVE  Folded(u, v, Z[i], Z[i - 1], Z[i - 2]) = Term(U, m, i)
  <2> DEFINE y0 == Term(Y, m, i - 1)
             y1 == Term(Y, m, i - 2)
             y2 == Term(Y, m, i - 3)
             x0 == Term(X, n, i)
             x1 == Term(X, n, i - 1)
             x2 == Term(X, n, i - 2)
  <2>1. y0 \in Rat /\ y1 \in Rat /\ y2 \in Rat /\ x0 \in Rat /\ x1 \in Rat /\ x2 \in Rat
    BY <1>4
  <2>2. /\ (i - 1) - 1 = i - 2 /\ (i - 2) - 1 = i - 3 /\ (i - 1) - 2 = i - 3 /\ i - 1 \in Int /\ i - 2 \in Int
        /\ i - 1 <= m /\ i <= n
    BY <1>1, <1>9
  <2>3. Z[i] = RSub(y0, RMul(t, x0)) /\ Z[i - 1] = RSub(y1, RMul(t, x1)) /\ Z[i - 2] = RSub(y2, RMul(t, x2))
    BY <1>7, <2>2
  <2>4. Folded(u, v, y0, y1, y2) = Term(K, m, i - 1)
    <3>1. Folded(u, v, Term(Y, m, i - 1), Term(Y, m, (i - 1) - 1), Term(Y, m, (i - 1) - 2)) = Term(K, m, i - 1)
      BY <2>2 DEF IsQuotientOf
    <3>2. QED
      BY <2>2, <3>1
  <2>5. Folded(u, v, x0, x1, x2) = Term(p, n, i)
    BY <2>2 DEF IsQuotientOf
  <2> HIDE DEF y0, y1, y2, x0, x1, x2
  <2>6. RMul(t, x0) \in Rat /\ RMul(t, x1) \in Rat /\ RMul(t, x2) \in Rat
    BY <1>2, <2>1, MulType
  <2>7. FoldedSumLaw(u, v, y0, y1, y2, RMul(t, x0), RMul(t, x1), RMul(t, x2))
    BY <2>1, <2>6, FoldedSum
  <2>8. FoldedLaw(u, v, t, x0, x1, x2)
    BY <1>2, <2>1, FoldedFacts
  <2>9. Folded(u, v, Z[i], Z[i - 1], Z[i - 2]) = RSub(Term(K, m, i - 1), RMul(t, Term(p, n, i)))
    BY <2>3, <2>4, <2>5, <2>7, <2>8 DEF FoldedSumLaw, FoldedLaw
  <2>10. QED
    BY <1>2, <1>9, <2>9
<1>10. IsQuotientOf(W, m, u, v, U)
  BY DEF U
<1>11. \A i \in 0 .. m : W[i] = Z[i]
  <2>1. Unfolds(Z, m, u, v, U)
    BY <1>8, <1>9 DEF Unfolds
  <2>2. Agree(W, Z, m)
    BY <1>1, <1>6, <1>10, <2>1, QuotientIsUnique
  <2>3. QED
    BY <2>2 DEF Agree
<1> DEFINE a == X[n]
           b == X[n - 1]
           c == Y[m]
           d == Y[m - 1]
           x == Term(X, n, n - 2)
           y == Term(Y, m, m - 2)
<1>12. a \in Rat /\ b \in Rat /\ c \in Rat /\ d \in Rat /\ x \in Rat /\ y \in Rat
  BY <1>1, <1>4
<1>13. W[m] = RSub(d, RMul(t, b)) /\ W[m - 1] = RSub(y, RMul(t, x))
  <2>1. W[m] = RSub(Term(Y, m, m - 1), RMul(t, Term(X, n, m)))
    BY <1>1, <1>7, <1>11
  <2>2. W[m - 1] = RSub(Term(Y, m, (m - 1) - 1), RMul(t, Term(X, n, m - 1)))
    <3>1. m - 1 \in Int
      BY <1>1
    <3>2. W[m - 1] = Z[m - 1]
      BY <1>1, <1>11
    <3>3. Z[m - 1] = RSub(Term(Y, m, (m - 1) - 1), RMul(t, Term(X, n, m - 1)))
      BY <1>7, <3>1
    <3>4. QED
      BY <3>2, <3>3
  <2>3. m = n - 1 /\ (m - 1) - 1 = m - 2 /\ m - 1 = n - 2
    BY <1>1
  <2>4. Term(Y, m, m - 1) = d /\ Term(X, n, n - 1) = b
    BY <1>1 DEF Term
  <2>5. QED
    BY <2>1, <2>2, <2>3, <2>4
<1>14. RAdd(c, RAdd(RMul(u, d), RMul(v, y))) = K[m] /\ RAdd(a, RAdd(RMul(u, b), RMul(v, x))) = p[n]
  <2>1. Term(Y, m, m) = c /\ Term(Y, m, m - 1) = d /\ Term(X, n, n) = a /\ Term(X, n, n - 1) = b
        /\ Term(K, m, m) = K[m] /\ Term(p, n, n) = p[n]
    BY <1>1 DEF Term
  <2>2. /\ Folded(u, v, Term(Y, m, m), Term(Y, m, m - 1), Term(Y, m, m - 2)) = Term(K, m, m)
        /\ Folded(u, v, Term(X, n, n), Term(X, n, n - 1), Term(X, n, n - 2)) = Term(p, n, n)
    BY <1>1 DEF IsQuotientOf
  <2>3. QED
    BY <2>1, <2>2 DEF Folded
<1> HIDE DEF a, b, c, d, x, y
<1>15. RMul(v, W[m - 1]) = Carry(a, b, c, d, u, t)
  <2>1. LastRemainderLaw(v, y, t, x, c, u, d, a, b)
    BY <1>2, <1>12, LastRemainder
  <2>2. RMul(v, RSub(y, RMul(t, x)))
        = RAdd(RAdd(RNeg(RAdd(c, RMul(u, d))), RMul(t, RAdd(a, RMul(u, b)))), RSub(K[m], RMul(t, p[n])))
    BY <1>14, <2>1 DEF LastRemainderLaw, (+), (-), (.)
  <2>3. RSub(K[m], RMul(t, p[n])) = Zero
    BY <1>1, <1>3, Neutral DEF RSub
  <2> DEFINE z == RAdd(RNeg(RAdd(c, RMul(u, d))), RMul(t, RAdd(a, RMul(u, b))))
  <2>4. z \in Rat /\ RAdd(z, Zero) = z
    BY <1>2, <1>12, MulType, AddType, NegType, Neutral
  <2>5. QED
    BY <1>13, <2>2, <2>3, <2>4 DEF Carry, (+), (.)
<1>16. W[m] \in Rat /\ W[m - 1] \in Rat
  BY <1>1
<1>17. QED
  BY <1>13, <1>15, <1>16 DEF NextRemainder, a, b, c, d, t

\* The remainder of the division by x^2 + u x + v, of x and then of 1.
RemainderOf(u, v, K) ==
    LET q == QuadSD(u, v, K)
    IN  <<B(q), A(q) (+) B(q) (.) u>>

CrossOf(r, s) == r[1] (.) s[2] (-) r[2] (.) s[1]

\* The cross product of the property is that of the last coefficients of the quotients.
LEMMA CrossOfRemainders ==
  ASSUME NEW u \in Rat, NEW c \in Rat, NEW d \in Rat, NEW c1 \in Rat, NEW d1 \in Rat
  PROVE  CrossOf(<<d, c (+) d (.) u>>, <<d1, c1 (+) d1 (.) u>>) = Cross(c, d, c1, d1)
<1>1. CrossIsLaw(d, c, d1, c1, u)
  BY CrossIs
<1>2. QED
  BY <1>1 DEF CrossIsLaw, CrossOf, Cross, (+), (-), (.)

RemainderLaw(q, m, u, v, K) ==
    /\ q \in [0 .. m -> Rat] /\ IsQuotientOf(q, m, u, v, K)
    /\ A(q) = q[m] /\ B(q) = q[m - 1]
    /\ q[m] \in Rat /\ q[m - 1] \in Rat

\* The remainder is in the last two coefficients of the quotient.
LEMMA RemainderIs ==
  ASSUME NEW m \in 2 .. 12, NEW u \in Rat, NEW v \in Rat, NEW K \in [0 .. m -> Rat]
  PROVE  RemainderLaw(QuadSD(u, v, K), m, u, v, K)
<1> DEFINE q == QuadSD(u, v, K)
<1>1. m \in Nat /\ m \in 0 .. 12 /\ m \in 0 .. m /\ m - 1 \in 0 .. m
  OBVIOUS
<1>2. q \in [0 .. m -> Rat] /\ IsQuotientOf(q, m, u, v, K)
  BY <1>1, QuadSDFacts DEF IsQuotientOf, Folded
<1> HIDE DEF q
<1>3. Degree(q) = m
  BY <1>1, <1>2, DegreeOf, Zenon
<1>4. A(q) = q[m] /\ B(q) = q[m - 1]
  BY <1>3 DEF A, B
<1>5. q[m] \in Rat /\ q[m - 1] \in Rat
  BY <1>1, <1>2
<1>6. QED
  BY <1>2, <1>4, <1>5 DEF q, RemainderLaw

\* newest_ak1 with its intermediate values named.
NewestLaw(sc, a, b, u, v, K, p, n, m) ==
    LET b1 == RNeg(RDiv(K[m], p[n]))
        b2 == RNeg(RDiv(Unshifted(K, p)[m], p[n]))
        x4 == Fourth(sc, a, b, u)
        x5 == Fifth(sc, sc.c, sc.d, u, v)
        T  == Temp(sc.a1, sc.a3, sc.a7, x4, x5, v, b1, b2)
    IN  Newest(sc, a, b, u, v, K, p) =
           IF sc.type = 3 \/ T = Zero THEN [u |-> Zero, v |-> Zero]
           ELSE [u |-> RSub(u, RDiv(Change(sc.a1, sc.a3, sc.a7, u, v, b1, b2), T)),
                 v |-> RMul(v, RAdd(One, RDiv(FourthScalar(sc.a1, sc.a3, sc.a7, v, b1, b2), T)))]

\* newest_ak1 in the named values of its proof.
LEMMA NewestIs ==
  ASSUME NEW n \in 3 .. 11, NEW m, m = n - 1, NEW p \in [0 .. n -> Rat], NEW K \in [0 .. m -> Rat], p[n] # Zero,
         NEW sc, NEW a, NEW b, NEW u, NEW v
  PROVE  NewestLaw(sc, a, b, u, v, K, p, n, m)
<1> DEFINE t == RDiv(K[m], p[n])
           b1 == RNeg(t)
           b2 == RNeg(RDiv(Unshifted(K, p)[m], p[n]))
<1>1. /\ m \in Nat /\ n \in Nat /\ m = n - 1 /\ m \in 0 .. m /\ m - 1 \in 0 .. m /\ n \in 0 .. n /\ n - 1 \in 0 .. n
      /\ m \in 0 .. 12 /\ n \in 0 .. 12 /\ m \in Int
  OBVIOUS
<1>2. Degree(K) = m /\ Degree(p) = n
  BY <1>1, DegreeOf, Zenon
<1>3. t \in Rat /\ Unshifted(K, p)[m] = RSub(K[m - 1], RMul(t, p[n - 1]))
  <2>1. t \in Rat /\ Term(Unshifted(K, p), m, m) = RSub(Term(K, m, m - 1), RMul(t, Term(p, n, m)))
    <3>1. t \in Rat /\ \A i \in Int : i <= m =>
             Term(Unshifted(K, p), m, i) = RSub(Term(K, m, i - 1), RMul(t, Term(p, n, i)))
      BY UnshiftedIs
    <3> HIDE DEF t
    <3>2. QED
      BY <1>1, <3>1
  <2>2. Term(Unshifted(K, p), m, m) = Unshifted(K, p)[m] /\ Term(K, m, m - 1) = K[m - 1] /\ Term(p, n, m) = p[n - 1]
    BY <1>1 DEF Term
  <2>3. QED
    BY <2>1, <2>2
<1> HIDE DEF t
<1>4. RSub(K[m - 1], RMul(t, p[n - 1])) = RAdd(K[m - 1], RMul(b1, p[n - 1]))
  <2>1. p[n - 1] \in Rat
    BY <1>1
  <2>2. QED
    BY <1>3, <2>1, NegFacts DEF RSub
<1>5. NextB2(b1, K, p) = b2
  BY <1>2, <1>3, <1>4 DEF NextB2, (+), (.), (/)
<1>6. RNeg(K[Degree(K)] (/) p[Degree(p)]) = b1
  BY <1>2 DEF t, (/)
<1> HIDE DEF b1, b2
<1> DEFINE x4 == Fourth(sc, a, b, u)
           x5 == Fifth(sc, sc.c, sc.d, u, v)
           c4 == FourthScalar(sc.a1, sc.a3, sc.a7, v, b1, b2)
           T == Temp(sc.a1, sc.a3, sc.a7, x4, x5, v, b1, b2)
<1>7. (IF sc.type = 2 THEN (a (+) sc.g) (.) sc.f (+) sc.h ELSE a (+) u (.) b (+) sc.h (.) sc.f) = x4
  BY DEF Fourth, (+), (.)
<1>8. (IF sc.type = 2 THEN (sc.f (+) u) (.) sc.c (+) v (.) sc.d ELSE sc.c (+) (u (+) v (.) sc.f) (.) sc.d) = x5
  BY DEF Fifth, (+), (.)
<1>9. v (.) b2 (.) sc.a1 (-) (b1 (.) sc.a7 (+) b1 (.) b1 (.) sc.a3) = c4
  BY DEF FourthScalar, (+), (-), (.)
<1> HIDE DEF x4, x5, c4
<1>10. x5 (-) c4 (+) b1 (.) x4 = T
  BY DEF Temp, x4, x5, c4, (+), (-), (.)
<1> HIDE DEF T
<1>11. Newest(sc, a, b, u, v, K, p) =
          IF sc.type = 3 \/ T = Zero THEN [u |-> Zero, v |-> Zero]
          ELSE [u |-> u (-) (u (.) (b1 (.) b1 (.) sc.a3 (+) b1 (.) sc.a7)
                             (+) v (.) (b1 (.) sc.a1 (+) b2 (.) sc.a7)) (/) T,
                v |-> v (.) (One (+) c4 (/) T)]
  BY <1>5, <1>6, <1>7, <1>8, <1>9, <1>10 DEF Newest
<1>12. u (.) (b1 (.) b1 (.) sc.a3 (+) b1 (.) sc.a7) (+) v (.) (b1 (.) sc.a1 (+) b2 (.) sc.a7)
       = Change(sc.a1, sc.a3, sc.a7, u, v, b1, b2)
  BY DEF Change, (+), (.)
<1>13. QED
  BY <1>11, <1>12 DEF NewestLaw, T, c4, x4, x5, b1, b2, t, (+), (-), (.), (/)

\* The estimate for the next quadratic.
IsNextQuadratic(next, type, p, K, u, v) ==
    LET r0 == RemainderOf(u, v, K)
        r1 == RemainderOf(u, v, Unshifted(K, p))
        r2 == RemainderOf(u, v, Unshifted(Unshifted(K, p), p))
    IN  IF type = 3 \/ CrossOf(r1, r2) = Zero
        THEN next = [u |-> Zero, v |-> Zero]
        ELSE next = [u |-> RNeg(CrossOf(r0, r2) (/) CrossOf(r1, r2)), v |-> CrossOf(r0, r1) (/) CrossOf(r1, r2)]

\* The estimate of newest_ak1 is the next quadratic of Jenkins and Traub.
LEMMA NewestFacts ==
  ASSUME NEW n \in 3 .. 11, NEW p \in [0 .. n -> Rat], NEW K \in [0 .. n - 1 -> Rat], p[n] # Zero,
         NEW u \in Rat, NEW v \in Rat, v # Zero
  PROVE  LET X  == QuadSD(u, v, p)
             sc == CalcSC(A(X), B(X), K, u, v)
         IN  IsNextQuadratic(Newest(sc, A(X), B(X), u, v, K, p), sc.type, p, K, u, v)
<1> DEFINE m == n - 1
           K1 == Unshifted(K, p)
           K2 == Unshifted(K1, p)
           X == QuadSD(u, v, p)
           Y == QuadSD(u, v, K)
           Y1 == QuadSD(u, v, K1)
           Y2 == QuadSD(u, v, K2)
           a == A(X)
           b == B(X)
           c == A(Y)
           d == B(Y)
           c1 == A(Y1)
           d1 == B(Y1)
           c2 == A(Y2)
           d2 == B(Y2)
           t == RDiv(K[m], p[n])
           w == RDiv(K1[m], p[n])
           sc == CalcSC(a, b, K, u, v)
<1>1. /\ m \in Nat /\ m = n - 1 /\ m \in 2 .. 12 /\ n \in 2 .. 12 /\ K \in [0 .. m -> Rat] /\ m \in 0 .. m
  OBVIOUS
<1> HIDE DEF m
<1>2. K1 \in [0 .. m -> Rat] /\ t \in Rat
  BY <1>1, UnshiftedIs
<1> HIDE DEF K1
<1>3. K2 \in [0 .. m -> Rat] /\ w \in Rat
  BY <1>1, <1>2, UnshiftedIs
<1> HIDE DEF K2
<1>4. X \in [0 .. n -> Rat] /\ IsQuotientOf(X, n, u, v, p) /\ a = X[n] /\ b = X[n - 1] /\ a \in Rat /\ b \in Rat
  <2>1. RemainderLaw(X, n, u, v, p)
    BY <1>1, RemainderIs
  <2> HIDE DEF X
  <2>2. QED
    BY <2>1 DEF RemainderLaw
<1>5. Y \in [0 .. m -> Rat] /\ IsQuotientOf(Y, m, u, v, K) /\ c = Y[m] /\ d = Y[m - 1] /\ c \in Rat /\ d \in Rat
  <2>1. RemainderLaw(Y, m, u, v, K)
    BY <1>1, RemainderIs
  <2> HIDE DEF Y
  <2>2. QED
    BY <2>1 DEF RemainderLaw
<1>6. Y1 \in [0 .. m -> Rat] /\ IsQuotientOf(Y1, m, u, v, K1) /\ c1 = Y1[m] /\ d1 = Y1[m - 1] /\ c1 \in Rat /\ d1 \in Rat
  <2>1. RemainderLaw(Y1, m, u, v, K1)
    BY <1>1, <1>2, RemainderIs
  <2> HIDE DEF Y1
  <2>2. QED
    BY <2>1 DEF RemainderLaw
<1>7. Y2 \in [0 .. m -> Rat] /\ IsQuotientOf(Y2, m, u, v, K2) /\ c2 = Y2[m] /\ d2 = Y2[m - 1] /\ c2 \in Rat /\ d2 \in Rat
  <2>1. RemainderLaw(Y2, m, u, v, K2)
    BY <1>1, <1>3, RemainderIs
  <2> HIDE DEF Y2
  <2>2. QED
    BY <2>1 DEF RemainderLaw
<1> HIDE DEF X, Y, Y1, Y2
<1>8. NextRemainder(c1, d1, a, b, c, d, u, v, t)
  <2>1. IsQuotientOf(Y1, m, u, v, Unshifted(K, p))
    BY <1>6 DEF K1
  <2>2. NextRemainder(Y1[m], Y1[m - 1], X[n], X[n - 1], Y[m], Y[m - 1], u, v, RDiv(K[m], p[n]))
    BY <1>1, <1>4, <1>5, <1>6, <2>1, RemainderOfUnshifted
  <2>3. QED
    BY <1>4, <1>5, <1>6, <2>2
<1>9. NextRemainder(c2, d2, a, b, c1, d1, u, v, w)
  <2>1. IsQuotientOf(Y2, m, u, v, Unshifted(K1, p))
    BY <1>7 DEF K2
  <2>2. NextRemainder(Y2[m], Y2[m - 1], X[n], X[n - 1], Y1[m], Y1[m - 1], u, v, RDiv(K1[m], p[n]))
    BY <1>1, <1>2, <1>4, <1>6, <1>7, <2>1, RemainderOfUnshifted
  <2>3. QED
    BY <1>4, <1>6, <1>7, <2>2
<1>10. /\ sc.c = c /\ sc.d = d
       /\ ThirdKind(sc, c, d) \/ SecondKind(sc, a, b, u, v, c, d) \/ FirstKind(sc, a, b, u, v, c, d)
  <2> HIDE DEF a, b
  <2>1. QED
    BY <1>5, KindOfScalars DEF Y
<1> DEFINE p1 == RNeg(t)
           q1 == RNeg(w)
           x4 == Fourth(sc, a, b, u)
           x5 == Fifth(sc, c, d, u, v)
           T == Temp(sc.a1, sc.a3, sc.a7, x4, x5, v, p1, q1)
           f == FourthScalar(sc.a1, sc.a3, sc.a7, v, p1, q1)
           s == Change(sc.a1, sc.a3, sc.a7, u, v, p1, q1)
           next == Newest(sc, a, b, u, v, K, p)
<1>11. next = IF sc.type = 3 \/ T = Zero THEN [u |-> Zero, v |-> Zero]
              ELSE [u |-> RSub(u, RDiv(s, T)), v |-> RMul(v, RAdd(One, RDiv(f, T)))]
  <2> HIDE DEF a, b, c, d, sc, t
  <2>2. NewestLaw(sc, a, b, u, v, K, p, n, m)
    BY <1>1, NewestIs
  <2>3. QED
    BY <1>10, <2>2 DEF NewestLaw, K1, t
<1> DEFINE x12 == Cross(c1, d1, c2, d2)
           x01 == Cross(c, d, c1, d1)
           x02 == Cross(c, d, c2, d2)
<1> HIDE DEF a, b, c, d, c1, d1, c2, d2, t, w, sc
<1>12. x12 \in Rat /\ x01 \in Rat /\ x02 \in Rat
  BY <1>5, <1>6, <1>7, MulType, SubType DEF Cross
<1>13. sc.type # 3 => \E g : Scaled(g, sc.a1, sc.a3, sc.a7, x4, x5, a, b, c, d, u, v)
  BY <1>4, <1>5, <1>10, FirstKindScaled, SecondKindScaled DEF ThirdKind
<1> HIDE DEF x4, x5, next
<1>14. ASSUME sc.type # 3
       PROVE  /\ T = Zero <=> x12 = Zero
              /\ T # Zero => /\ RSub(u, RDiv(s, T)) = RNeg(RDiv(x02, x12))
                             /\ RMul(v, RAdd(One, RDiv(f, T))) = RDiv(x01, x12)
  <2>1. PICK g : Scaled(g, sc.a1, sc.a3, sc.a7, x4, x5, a, b, c, d, u, v)
    BY <1>13, <1>14
  <2>2. /\ f \in Rat /\ T \in Rat /\ s \in Rat
        /\ RMul(g, f) = FourthOf(a, b, c, d, u, v, t, w)
        /\ RMul(g, T) = TempOf(a, b, c, d, u, v, t, w)
        /\ RMul(g, s) = ChangeOf(a, b, c, d, u, v, t, w)
    <3>1. ScaledValuesLaw(g, sc.a1, sc.a3, sc.a7, x4, x5, a, b, c, d, u, v, t, w)
      BY <1>2, <1>3, <1>4, <1>5, <2>1, ScaledValues
    <3>2. QED
      BY <3>1 DEF ScaledValuesLaw
  <2>3. /\ RMul(v, RMul(v, x12)) = TempOf(a, b, c, d, u, v, t, w)
        /\ RMul(v, x01) = RAdd(TempOf(a, b, c, d, u, v, t, w), FourthOf(a, b, c, d, u, v, t, w))
        /\ RNeg(RMul(v, RMul(v, x02))) = RSub(RMul(u, TempOf(a, b, c, d, u, v, t, w)), ChangeOf(a, b, c, d, u, v, t, w))
    <3>1. CrossProductsLaw(a, b, c, d, u, v, t, w, c1, d1, c2, d2)
      BY <1>2, <1>3, <1>4, <1>5, <1>8, <1>9, CrossProducts
    <3>2. QED
      BY <3>1 DEF CrossProductsLaw
  <2>4. g \in Rat /\ g # Zero
    BY <2>1 DEF Scaled
  <2> HIDE DEF T, f, s, x12, x01, x02
  <2>5. RMul(v, RMul(v, x12)) = RMul(g, T) /\ RMul(v, x01) = RAdd(RMul(g, T), RMul(g, f))
        /\ RNeg(RMul(v, RMul(v, x02))) = RSub(RMul(u, RMul(g, T)), RMul(g, s))
    BY <2>2, <2>3
  <2>6. RatiosLaw(u, v, T, f, s, x12, x01, x02)
    BY <1>12, <2>2, <2>4, <2>5, RatiosOfCrossProducts
  <2>7. QED
    BY <2>6 DEF RatiosLaw
<1>15. /\ CrossOf(RemainderOf(u, v, K1), RemainderOf(u, v, K2)) = x12
       /\ CrossOf(RemainderOf(u, v, K), RemainderOf(u, v, K2)) = x02
       /\ CrossOf(RemainderOf(u, v, K), RemainderOf(u, v, K1)) = x01
  <2>1. /\ RemainderOf(u, v, K) = <<d, c (+) d (.) u>>
        /\ RemainderOf(u, v, K1) = <<d1, c1 (+) d1 (.) u>>
        /\ RemainderOf(u, v, K2) = <<d2, c2 (+) d2 (.) u>>
    BY DEF RemainderOf, c, d, c1, d1, c2, d2, Y, Y1, Y2
  <2>2. QED
    BY <1>5, <1>6, <1>7, <2>1, CrossOfRemainders
<1> HIDE DEF T, f, s, x12, x01, x02
<1>16. IsNextQuadratic(next, sc.type, p, K, u, v)
  <2> DEFINE y12 == CrossOf(RemainderOf(u, v, K1), RemainderOf(u, v, K2))
             y02 == CrossOf(RemainderOf(u, v, K), RemainderOf(u, v, K2))
             y01 == CrossOf(RemainderOf(u, v, K), RemainderOf(u, v, K1))
  <2>1. y12 = x12 /\ y02 = x02 /\ y01 = x01
    BY <1>15
  <2> HIDE DEF y12, y02, y01
  <2>2. IF sc.type = 3 \/ y12 = Zero THEN next = [u |-> Zero, v |-> Zero]
        ELSE next = [u |-> RNeg(RDiv(y02, y12)), v |-> RDiv(y01, y12)]
    BY <1>11, <1>14, <2>1
  <2>3. QED
    BY <2>2 DEF IsNextQuadratic, K1, K2, y12, y02, y01, (/)
<1>17. QED
  BY <1>16 DEF next, sc, a, b, X

\* Every estimate is the ratio of the cross products of the remainders of three steps, as
\* the method of Jenkins and Traub asks (newest_ak1).
THEOREM NewestIsNext ==
  NumericsSpec => []NewestIsTheNextQuadratic
<1>1. AnswerIsOfTask => NewestIsTheNextQuadratic
  <2> SUFFICES ASSUME AnswerIsOfTask, Done("shift")
               PROVE  NewestIsTheNextQuadratic
    BY DEF NewestIsTheNextQuadratic
  <2> DEFINE p == task.p
             K == task.K
             u == task.shift[1]
             v == task.shift[2]
             X == QuadSD(u, v, p)
             sc == CalcSC(A(X), B(X), K, u, v)
             next == Newest(sc, A(X), B(X), u, v, K, p)
  <2>1. task \in ShiftTasks /\ answer.value = ShiftAnswer(task)
    BY KindOfTask DEF AnswerIsOfTask, Done
  <2>2. answer.value.sc = sc /\ answer.value.next = next
    <3> HIDE DEF sc, X, next
    <3>1. answer.value = [sc |-> sc, K |-> NextK(sc, X, K), next |-> next]
      BY <2>1 DEF ShiftAnswer, sc, X, next
    <3>2. QED
      BY <3>1
  <2>3. IsPair(p, K) /\ u \in Rat /\ v \in Rat /\ v # Zero
    BY <2>1, ShiftAssumption
  <2>4. PICK n \in 3 .. 11 : p \in [0 .. n -> Rat] /\ K \in [0 .. n - 1 -> Rat] /\ p[n] # Zero
    BY <2>3 DEF IsPair
  <2> HIDE DEF p, K, u, v
  <2>5. IsNextQuadratic(next, sc.type, p, K, u, v)
    BY <2>3, <2>4, NewestFacts
  <2> HIDE DEF sc, X, next
  <2>6. IsNextQuadratic(answer.value.next, answer.value.sc.type, p, K, u, v)
    BY <2>2, <2>5
  <2>7. QED
    BY <2>6 DEF NewestIsTheNextQuadratic, IsNextQuadratic, RemainderOf, Unshifted, CrossOf, p, K, u, v
<1>2. QED
  BY <1>1, AnswersMatch, PTL

-----------------------------------------------------------------------------
(* The shortest segment                                                     *)

Positive(x) == x \in Rat /\ RLt(Zero, x)

\* The segment of the search that lasts this long.
Lasting(e, T) == [e EXCEPT !.xi = Zero, !.xf = T]

\* The segment that lasts T is one, with the same ends.
LEMMA LastingFacts ==
  ASSUME NEW e \in Boundaries, NEW T, Positive(T)
  PROVE  LET s == Lasting(e, T)
         IN  /\ s \in Boundaries /\ Span(s) = T /\ s.xi = Zero /\ s.xf = T /\ s.yi = e.yi
             /\ s.yf = e.yf /\ s.dyi = e.dyi /\ s.dyf = e.dyf /\ s.d2yi = e.d2yi /\ s.d2yf = e.d2yf
<1> DEFINE s == Lasting(e, T)
<1>1. T \in Rat /\ RLt(Zero, T) /\ Zero \in Rat
  BY ZeroOne DEF Positive
<1>2. e \in [xi : Rat, xf : Rat, yi : Rat, yf : Rat, dyi : Rat, dyf : Rat, d2yi : Rat, d2yf : Rat,
             coefficients : {Constant(Zero)}]
  BY DEF Boundaries
<1>3. /\ s \in [xi : Rat, xf : Rat, yi : Rat, yf : Rat, dyi : Rat, dyf : Rat, d2yi : Rat, d2yf : Rat,
               coefficients : {Constant(Zero)}]
      /\ s.xi = Zero /\ s.xf = T /\ s.yi = e.yi
      /\ s.yf = e.yf /\ s.dyi = e.dyi /\ s.dyf = e.dyf /\ s.d2yi = e.d2yi /\ s.d2yf = e.d2yf
  BY <1>1, <1>2 DEF Lasting
<1> HIDE DEF s
<1>4. s \in Boundaries
  BY <1>1, <1>3 DEF Boundaries
<1>5. Span(s) = T
  <2>1. RSub(T, Zero) = T
    BY <1>1, NegZero, Neutral DEF RSub
  <2>2. QED
    BY <1>3, <2>1 DEF Span, (-)
<1>6. QED
  BY <1>3, <1>4, <1>5 DEF s

\* The coefficients between points at rest.
RestLaw(c, T, d) ==
    /\ c \in [0 .. 5 -> Rat]
    /\ RMul(c[0], FifthPower(T)) = RMul(R(6), d)
    /\ RMul(c[1], FourthPower(T)) = RMul(R(-15), d)
    /\ RMul(c[2], ThirdPower(T)) = RMul(R(10), d)
    /\ c[3] = Zero /\ c[4] = Zero

\* The numerators between points at rest depend on the displacement only.
LEMMA RestNumerators ==
  ASSUME NEW e \in Boundaries, AtRest(e), NEW T \in Rat
  PROVE  /\ N0(e, T) = RMul(R(12), RSub(e.yi, e.yf))
         /\ N1(e, T) = RMul(R(30), RSub(e.yi, e.yf))
         /\ N2(e, T) = RMul(R(20), RSub(e.yi, e.yf))
<1> DEFINE dy == RSub(e.yi, e.yf)
<1>1. e.dyf = Zero /\ e.dyi = Zero /\ e.d2yi = Zero /\ e.d2yf = Zero /\ Zero \in Rat
  BY ZeroOne DEF AtRest
<1>2. dy \in Rat
  BY SpanFacts, SubType
<1>3. R(6) \in Rat /\ R(8) \in Rat /\ R(12) \in Rat /\ R(14) \in Rat /\ R(16) \in Rat /\ R(3) \in Rat
      /\ R(30) \in Rat /\ R(20) \in Rat /\ R(2) \in Rat
  BY RType
<1>4. /\ RMul(R(12), dy) \in Rat /\ RMul(R(30), dy) \in Rat /\ RMul(R(20), dy) \in Rat
      /\ RMul(R(6), T) \in Rat /\ RMul(R(14), T) \in Rat /\ RMul(R(16), T) \in Rat
      /\ RMul(R(8), T) \in Rat /\ RMul(R(12), T) \in Rat /\ RMul(T, T) \in Rat
  BY <1>2, <1>3, MulType
<1>5. \A x \in Rat : RMul(x, Zero) = Zero /\ RMul(Zero, x) = Zero /\ RAdd(x, Zero) = x
  BY Neutral
<1>6. \A x \in Rat : RSub(x, Zero) = x
  BY NegZero, Neutral DEF RSub
<1> HIDE DEF dy
<1>7. RSub(e.yi, e.yf) = dy
  BY DEF dy
<1>8. QED
  BY <1>1, <1>3, <1>4, <1>5, <1>6, <1>7 DEF N0, N1, N2, (+), (-), (.)

\* Half of a numerator over half of a denominator.
LEMMA Halves ==
  ASSUME NEW q \in Rat, NEW t \in Rat, NEW x \in Rat, RMul(q, RMul(R(2), t)) = RMul(R(2), x)
  PROVE  RMul(q, t) = x /\ RMul(RNeg(q), t) = RNeg(x)
<1>1. RMul(q, RMul(R(2), t)) = RMul(R(2), RMul(q, t)) /\ RMul(RNeg(q), t) = RNeg(RMul(q, t))
  BY Halving DEF (.)
<1>2. RMul(q, t) \in Rat /\ R(2) \in Rat /\ R(2) # Zero
  BY MulType, RType DEF R, Zero
<1>3. RMul(q, t) = x
  BY <1>1, <1>2, MulCancel
<1>4. QED
  BY <1>1, <1>3

\* The coefficients between points at rest.
LEMMA RestCoefficients ==
  ASSUME NEW e \in Boundaries, AtRest(e)
  PROVE  RestLaw(ComputeParameters(e).coefficients, Span(e), RSub(e.yf, e.yi))
<1> DEFINE T == Span(e)
           c == ComputeParameters(e).coefficients
           dy == RSub(e.yi, e.yf)
           d == RSub(e.yf, e.yi)
           t5 == FifthPower(T)
           t4 == FourthPower(T)
           t3 == ThirdPower(T)
           q0 == RDiv(N0(e, T), RMul(R(2), t5))
           q1 == RDiv(N1(e, T), RMul(R(2), t4))
           q2 == RDiv(N2(e, T), RMul(R(2), t3))
<1>1. T \in Rat /\ T # Zero /\ e.yi \in Rat /\ e.yf \in Rat /\ dy \in Rat /\ d \in Rat
  BY SpanFacts, SubType
<1>2. c \in [0 .. 5 -> Rat] /\ c[0] = RNeg(q0) /\ c[1] = q1 /\ c[2] = RNeg(q2)
  BY CoefficientsAre, SegmentJoins
<1>3. c[3] = RDiv(e.d2yi, R(2)) /\ c[4] = e.dyi /\ e.d2yi = Zero /\ e.dyi = Zero
  BY CoefficientsAre DEF AtRest
<1>4. /\ RMul(R(2), t5) \in Rat \ {Zero} /\ RMul(R(2), t4) \in Rat \ {Zero} /\ RMul(R(2), t3) \in Rat \ {Zero}
      /\ R(2) \in Rat \ {Zero}
  BY <1>1, PowersAre
<1>5. t5 \in Rat /\ t4 \in Rat /\ t3 \in Rat
  BY <1>1, MulType DEF FifthPower, FourthPower, ThirdPower
<1>6. N0(e, T) = RMul(R(12), dy) /\ N1(e, T) = RMul(R(30), dy) /\ N2(e, T) = RMul(R(20), dy)
  BY <1>1, RestNumerators
<1>7. N0(e, T) \in Rat /\ N1(e, T) \in Rat /\ N2(e, T) \in Rat
  BY <1>1, NumeratorTypes
<1>8. q0 \in Rat /\ q1 \in Rat /\ q2 \in Rat
  BY <1>4, <1>7, DivType
<1>9. RMul(q0, RMul(R(2), t5)) = N0(e, T) /\ RMul(q1, RMul(R(2), t4)) = N1(e, T) /\ RMul(q2, RMul(R(2), t3)) = N2(e, T)
  BY <1>4, <1>7, DivMul
<1>10. /\ RMul(R(12), dy) = RMul(R(2), RMul(R(6), dy)) /\ RMul(R(30), dy) = RMul(R(2), RMul(R(15), dy))
       /\ RMul(R(20), dy) = RMul(R(2), RMul(R(10), dy))
  BY <1>1, Halving DEF (.)
<1>11. /\ RNeg(RMul(R(6), dy)) = RMul(R(6), d) /\ RNeg(RMul(R(10), dy)) = RMul(R(10), d)
       /\ RMul(R(15), dy) = RMul(R(-15), d)
  BY <1>1, Negated DEF (.), (-)
<1>12. RMul(R(6), dy) \in Rat /\ RMul(R(15), dy) \in Rat /\ RMul(R(10), dy) \in Rat
  <2>1. R(6) \in Rat /\ R(15) \in Rat /\ R(10) \in Rat
    BY RType
  <2>2. QED
    BY <1>1, <2>1, MulType
<1> HIDE DEF T, c, dy, d, t5, t4, t3, q0, q1, q2
<1>13. RMul(RNeg(q0), t5) = RMul(R(6), d)
  BY <1>5, <1>6, <1>8, <1>9, <1>10, <1>11, <1>12, Halves
<1>14. RMul(q1, t4) = RMul(R(-15), d)
  BY <1>5, <1>6, <1>8, <1>9, <1>10, <1>11, <1>12, Halves
<1>15. RMul(RNeg(q2), t3) = RMul(R(10), d)
  BY <1>5, <1>6, <1>8, <1>9, <1>10, <1>11, <1>12, Halves
<1>16. c[3] = Zero
  <2>1. Zero \in Rat /\ c[3] \in Rat /\ RMul(c[3], R(2)) = Zero
    BY <1>2, <1>3, <1>4, ZeroOne, DivMul
  <2>2. QED
    BY <1>4, <2>1, NoZeroDivisors
<1>17. QED
  BY <1>2, <1>3, <1>13, <1>14, <1>15, <1>16 DEF RestLaw, T, c, d, t5, t4, t3

\* The largest velocity between points at rest is reached in the middle.
LEMMA LargestOfThree ==
  ASSUME NEW v \in Rat, NEW speeds, speeds = {Zero, v}, RLeq(Zero, v)
  PROVE  (CHOOSE s \in speeds : \A t \in speeds : RLeq(t, s)) = v
<1> DEFINE m == CHOOSE s \in speeds : \A t \in speeds : RLeq(t, s)
<1>1. Zero \in Rat /\ RLeq(v, v)
  BY ZeroOne, Order
<1>2. v \in speeds /\ \A t \in speeds : RLeq(t, v)
  BY <1>1
<1>3. m \in speeds /\ \A t \in speeds : RLeq(t, m)
  BY <1>2
<1> HIDE DEF m
<1>4. m \in Rat /\ RLeq(v, m) /\ RLeq(m, v)
  BY <1>1, <1>2, <1>3
<1>5. m = v
  BY <1>4, Order
<1>6. QED
  BY <1>5 DEF m

\* The velocities of a polynomial between points at rest at the zeros of its acceleration.
LEMMA MiddleOfRest ==
  ASSUME NEW c, NEW T \in Rat, NEW d \in Rat, NEW h \in Rat, T = RMul(R(2), h), RestLaw(c, T, d),
         NEW f \in [0 .. 4 -> Rat], f = [i \in 0 .. 4 |-> RMul(R(5 - i), c[i])]
  PROVE  Value(f, h) \in Rat /\ RMul(RMul(R(16), T), Value(f, h)) = RMul(R(30), d)
<1>1. /\ c[0] \in Rat /\ c[1] \in Rat /\ c[2] \in Rat /\ c[3] = Zero /\ c[4] = Zero
      /\ RMul(c[0], FifthPower(T)) = RMul(R(6), d)
      /\ RMul(c[1], FourthPower(T)) = RMul(R(-15), d)
      /\ RMul(c[2], ThirdPower(T)) = RMul(R(10), d)
  BY DEF RestLaw
<1>2. /\ f[0] = RMul(R(5), c[0]) /\ f[1] = RMul(R(4), c[1]) /\ f[2] = RMul(R(3), c[2])
      /\ f[3] = RMul(R(2), Zero) /\ f[4] = RMul(R(1), Zero)
  BY <1>1
<1>3. f[3] = Zero /\ f[4] = Zero
  BY <1>2, RType, Neutral
<1>4. Value(f, h) = RAdd(RMul(RAdd(RMul(RAdd(RMul(RAdd(RMul(f[0], h), f[1]), h), f[2]), h), f[3]), h), f[4])
  BY Value4
<1> DEFINE v == Value(f, h)
<1>5. v \in Rat
  <2>1. 4 \in 0 .. 12
    OBVIOUS
  <2>2. QED
    BY <2>1, ValueType
<1>6. v = RAdd(RMul(RAdd(RMul(RAdd(RMul(RAdd(RMul(
             RMul(R(5), c[0]), h), RMul(R(4), c[1])), h), RMul(R(3), c[2])), h), Zero), h), Zero)
  BY <1>2, <1>3, <1>4
<1> HIDE DEF v
<1>7. RMul(R(32), RMul(h, v)) = RAdd(RAdd(RMul(R(5), RMul(c[0], FifthPower(T))),
                                          RMul(R(8), RMul(c[1], FourthPower(T)))),
                                     RMul(R(12), RMul(c[2], ThirdPower(T))))
  <2>1. RMul(R(32), RMul(h, RAdd(RMul(RAdd(RMul(RAdd(RMul(RAdd(RMul(
             RMul(R(5), c[0]), h), RMul(R(4), c[1])), h), RMul(R(3), c[2])), h), Zero), h), Zero)))
          = RAdd(RAdd(RMul(R(5), RMul(c[0], FifthPower(RMul(R(2), h)))),
                      RMul(R(8), RMul(c[1], FourthPower(RMul(R(2), h))))),
                 RMul(R(12), RMul(c[2], ThirdPower(RMul(R(2), h)))))
    <3>1. MiddleVelocityLaw(c[0], c[1], c[2], h)
      BY <1>1, MiddleVelocity
    <3>2. QED
      BY <3>1 DEF MiddleVelocityLaw, (+), (.), FifthPower, FourthPower, ThirdPower
  <2>2. QED
    BY <1>6, <2>1
<1>8. RMul(RMul(R(16), T), v) = RMul(R(32), RMul(h, v))
  BY <1>5, Doubled DEF (.)
<1>9. RAdd(RAdd(RMul(R(5), RMul(R(6), d)), RMul(R(8), RMul(R(-15), d))), RMul(R(12), RMul(R(10), d))) = RMul(R(30), d)
  BY Scalars DEF (+), (.)
<1>10. QED
  BY <1>1, <1>5, <1>7, <1>8, <1>9 DEF v

\* Half the duration.
LEMMA HalfDuration ==
  ASSUME NEW T, Positive(T)
  PROVE  RDiv(T, R(2)) \in Rat /\ T = RMul(R(2), RDiv(T, R(2))) /\ RDiv(T, R(2)) # Zero
         /\ T # Zero /\ T \in Rat /\ RLeq(Zero, T)
<1>1. T \in Rat /\ RLt(Zero, T) /\ R(2) \in Rat /\ R(2) # Zero /\ Zero \in Rat
  BY RType, ZeroOne DEF Positive, R, Zero
<1>2. RDiv(T, R(2)) \in Rat /\ RMul(RDiv(T, R(2)), R(2)) = T
  BY <1>1, DivType, DivMul
<1>3. T = RMul(R(2), RDiv(T, R(2)))
  BY <1>1, <1>2, MulComm
<1>4. T # Zero /\ RLeq(Zero, T)
  BY <1>1, Order
<1>5. QED
  BY <1>1, <1>2, <1>3, <1>4, NoZeroDivisors

\* The largest velocity is 30/16 of the displacement over the duration.
LEMMA FastestAtRest ==
  ASSUME NEW e \in Boundaries, AtRest(e), NEW T, Positive(T), NEW p, p = ComputeParameters(Lasting(e, T))
  PROVE  LET v == FirstDerivativeMaximum(p)
         IN  v \in Rat /\ RLeq(Zero, v) /\ RMul(RMul(R(16), T), v) = RMul(R(30), RAbs(RSub(e.yf, e.yi)))
<1> DEFINE s == Lasting(e, T)
           c == p.coefficients
           f == FirstDerivative(p)
           h == RDiv(T, R(2))
           d == RSub(e.yf, e.yi)
<1>1. s \in Boundaries /\ Span(s) = T /\ AtRest(s) /\ s.xf = T /\ s.yi = e.yi /\ s.yf = e.yf
  BY LastingFacts DEF AtRest
<1>2. h \in Rat /\ T = RMul(R(2), h) /\ T \in Rat /\ RLeq(Zero, T)
  BY HalfDuration
<1>3. d \in Rat
  BY SpanFacts, SubType
<1>4. RestLaw(c, T, d)
  BY <1>1, RestCoefficients
<1>5. f \in [0 .. 4 -> Rat] /\ Value(f, T) = Zero /\ Value(f, Zero) = Zero
  BY <1>1, SegmentJoins DEF AtRest
<1>6. f = [i \in 0 .. 4 |-> RMul(R(5 - i), c[i])]
  BY DEF FirstDerivative, (.)
<1>7. p.xf = T
  <2>1. p = [s EXCEPT !.coefficients = c]
    BY <1>1, CoefficientsAre
  <2>2. s \in [xi : Rat, xf : Rat, yi : Rat, yf : Rat, dyi : Rat, dyf : Rat, d2yi : Rat, d2yf : Rat,
               coefficients : {Constant(Zero)}]
    BY <1>1 DEF Boundaries
  <2> HIDE DEF s, c
  <2>3. p.xf = s.xf
    BY <2>1, <2>2
  <2>4. QED
    BY <1>1, <2>3
<1> HIDE DEF s, c, f, h, d
<1>8. Value(f, h) \in Rat /\ RMul(RMul(R(16), T), Value(f, h)) = RMul(R(30), d)
  BY <1>2, <1>3, <1>4, <1>5, <1>6, MiddleOfRest
<1> DEFINE v == Value(f, h)
           speeds == {RAbs(Value(f, x)) : x \in {Zero, h, T}}
<1>9. RAbs(Zero) = Zero
  BY ZeroOne, Order, AbsRat
<1>10. speeds = {Zero, RAbs(v)}
  BY <1>5, <1>9
<1>11. RAbs(v) \in Rat /\ RLeq(Zero, RAbs(v))
  BY <1>8, AbsRat
<1>12. FirstDerivativeMaximum(p) = (CHOOSE w \in speeds : \A t \in speeds : RLeq(t, w))
  BY <1>7 DEF FirstDerivativeMaximum, AccelerationZeros, (/), f, h
<1> HIDE DEF speeds
<1>13. FirstDerivativeMaximum(p) = RAbs(v)
  BY <1>10, <1>11, <1>12, LargestOfThree
<1>14. RMul(RMul(R(16), T), RAbs(v)) = RMul(R(30), RAbs(d))
  <2>1. R(16) \in Rat /\ R(30) \in Rat /\ RLeq(Zero, R(16)) /\ RLeq(Zero, R(30))
    <3>1. 0 * 1 <= 16 * 1 /\ 0 * 1 <= 30 * 1
      OBVIOUS
    <3>2. QED
      BY <3>1, RType DEF RLeq, R, Zero
  <2>2. RMul(R(16), T) \in Rat /\ RLeq(Zero, RMul(R(16), T))
    BY <1>2, <2>1, MulType, Products
  <2>3. RAbs(RMul(RMul(R(16), T), v)) = RMul(RMul(R(16), T), RAbs(v))
    BY <1>8, <2>2, AbsMul
  <2>4. RAbs(RMul(R(30), d)) = RMul(R(30), RAbs(d))
    BY <1>3, <2>1, AbsMul
  <2>5. QED
    BY <1>8, <2>3, <2>4
<1>15. QED
  BY <1>11, <1>13, <1>14 DEF d

\* The lower coefficients are multiples of the leading one.
LEMMA OverLeading ==
  ASSUME NEW c, NEW T \in Rat, T # Zero, NEW d \in Rat, d # Zero, NEW h \in Rat, T = RMul(R(2), h), RestLaw(c, T, d)
  PROVE  /\ c[0] \in Rat /\ c[0] # Zero /\ c[1] \in Rat /\ c[2] \in Rat
         /\ RMul(R(2), c[1]) = RMul(R(-10), RMul(c[0], h))
         /\ RMul(R(3), c[2]) = RMul(R(20), RMul(c[0], RMul(h, h)))
<1>1. /\ c[0] \in Rat /\ c[1] \in Rat /\ c[2] \in Rat
      /\ RMul(c[0], FifthPower(T)) = RMul(R(6), d)
      /\ RMul(c[1], FourthPower(T)) = RMul(R(-15), d)
      /\ RMul(c[2], ThirdPower(T)) = RMul(R(10), d)
  BY DEF RestLaw
<1>2. FifthPower(T) \in Rat /\ FourthPower(T) \in Rat /\ ThirdPower(T) \in Rat
  BY MulType DEF FifthPower, FourthPower, ThirdPower
<1>3. FifthPower(T) # Zero /\ FourthPower(T) # Zero /\ ThirdPower(T) # Zero
  <2>1. R(2) \in Rat
    BY RType
  <2>2. RMul(R(2), FifthPower(T)) # Zero /\ RMul(R(2), FourthPower(T)) # Zero /\ RMul(R(2), ThirdPower(T)) # Zero
    BY PowersAre
  <2>3. QED
    BY <1>2, <2>1, <2>2, NoZeroDivisors
<1>4. c[0] # Zero
  <2>1. R(6) \in Rat /\ R(6) # Zero
    BY RType DEF R, Zero
  <2>2. RMul(R(6), d) # Zero
    BY <2>1, NoZeroDivisors
  <2>3. QED
    BY <1>1, <1>2, <2>2, NoZeroDivisors
<1>5. /\ RMul(R(2), RMul(R(-15), d)) = RMul(R(-5), RMul(R(6), d))
      /\ RMul(R(3), RMul(R(10), d)) = RMul(R(5), RMul(R(6), d))
  BY Scalars DEF (.)
<1>6. R(2) \in Rat /\ R(3) \in Rat /\ R(-10) \in Rat /\ R(20) \in Rat
  BY RType
<1>7. RMul(R(2), c[1]) \in Rat /\ RMul(R(-10), RMul(c[0], h)) \in Rat
      /\ RMul(R(3), c[2]) \in Rat /\ RMul(R(20), RMul(c[0], RMul(h, h))) \in Rat
  BY <1>1, <1>6, MulType
<1>8. /\ RMul(FourthPower(T), RMul(R(2), c[1])) = RMul(R(2), RMul(c[1], FourthPower(T)))
      /\ RMul(FourthPower(T), RMul(R(-10), RMul(c[0], h))) = RMul(R(-5), RMul(c[0], FifthPower(T)))
  <2>1. FirstOverLeadingLaw(c[0], c[1], h)
    BY <1>1, FirstOverLeading
  <2>2. QED
    BY <2>1 DEF FirstOverLeadingLaw, (.), FifthPower, FourthPower
<1>9. /\ RMul(ThirdPower(T), RMul(R(3), c[2])) = RMul(R(3), RMul(c[2], ThirdPower(T)))
      /\ RMul(ThirdPower(T), RMul(R(20), RMul(c[0], RMul(h, h)))) = RMul(R(5), RMul(c[0], FifthPower(T)))
  <2>1. SecondOverLeadingLaw(c[0], c[2], h)
    BY <1>1, SecondOverLeading
  <2>2. QED
    BY <2>1 DEF SecondOverLeadingLaw, (.), FifthPower, ThirdPower
<1>10. RMul(R(2), c[1]) = RMul(R(-10), RMul(c[0], h))
  <2>1. RMul(FourthPower(T), RMul(R(2), c[1])) = RMul(FourthPower(T), RMul(R(-10), RMul(c[0], h)))
    BY <1>1, <1>5, <1>8
  <2>2. QED
    BY <1>2, <1>3, <1>7, <2>1, MulCancel
<1>11. RMul(R(3), c[2]) = RMul(R(20), RMul(c[0], RMul(h, h)))
  <2>1. RMul(ThirdPower(T), RMul(R(3), c[2])) = RMul(ThirdPower(T), RMul(R(20), RMul(c[0], RMul(h, h))))
    BY <1>1, <1>5, <1>9
  <2>2. QED
    BY <1>2, <1>3, <1>7, <2>1, MulCancel
<1>12. QED
  BY <1>1, <1>4, <1>10, <1>11

\* The jerk has its extremum in the middle and its zeros beside it.
LEMMA JerkShape ==
  ASSUME NEW c0 \in Rat, c0 # Zero, NEW c1 \in Rat, NEW c2 \in Rat, NEW h \in Rat,
         RMul(R(2), c1) = RMul(R(-10), RMul(c0, h)), RMul(R(3), c2) = RMul(R(20), RMul(c0, RMul(h, h)))
  PROVE  /\ RDiv(RNeg(RMul(R(24), c1)), RMul(R(2), RMul(R(60), c0))) = h
         /\ RDiv(RMul(R(6), c2), RMul(R(60), c0)) \in Rat
         /\ RMul(R(3), RDiv(RMul(R(6), c2), RMul(R(60), c0))) = RMul(R(2), RMul(h, h))
<1> DEFINE a2 == RMul(R(60), c0)
           a1 == RMul(R(24), c1)
           a0 == RMul(R(6), c2)
           q  == RMul(R(2), a2)
<1>1. /\ R(2) \in Rat /\ R(2) # Zero /\ R(60) \in Rat /\ R(60) # Zero /\ R(24) \in Rat /\ R(6) \in Rat
      /\ R(3) \in Rat
  BY RType DEF R, Zero
<1>2. a2 \in Rat /\ a1 \in Rat /\ a0 \in Rat /\ a2 # Zero
  BY <1>1, MulType, NoZeroDivisors
<1>3. q \in Rat /\ q # Zero /\ RNeg(a1) \in Rat
  BY <1>1, <1>2, MulType, NoZeroDivisors, NegType
<1>4. /\ RMul(R(2), RNeg(a1)) = RMul(R(-24), RMul(R(2), c1))
      /\ RMul(R(-24), RMul(R(-10), RMul(c0, h))) = RMul(R(2), RMul(h, q))
  BY JerkMiddle DEF (.)
<1>5. /\ RMul(a2, RMul(R(3), RDiv(a0, a2))) = RMul(R(3), RMul(RDiv(a0, a2), a2))
      /\ RMul(R(3), a0) = RMul(R(6), RMul(R(3), c2))
      /\ RMul(R(6), RMul(R(20), RMul(c0, RMul(h, h)))) = RMul(a2, RMul(R(2), RMul(h, h)))
      /\ RDiv(a0, a2) \in Rat
  <2>1. RDiv(a0, a2) \in Rat
    BY <1>2, DivType
  <2>2. JerkZerosLaw(c0, c2, h, RDiv(a0, a2))
    BY <2>1, JerkZeros
  <2>3. QED
    BY <2>1, <2>2 DEF JerkZerosLaw, (.)
<1> HIDE DEF a2, a1, a0, q
<1>6. RDiv(RNeg(a1), q) = h
  <2>1. RMul(h, q) \in Rat
    BY <1>3, MulType
  <2>2. RNeg(a1) = RMul(h, q)
    BY <1>1, <1>3, <1>4, <2>1, MulCancel
  <2>3. RDiv(RNeg(a1), q) \in Rat /\ RMul(RDiv(RNeg(a1), q), q) = RNeg(a1)
    BY <1>3, DivType, DivMul
  <2>4. RMul(q, RDiv(RNeg(a1), q)) = RMul(q, h)
    BY <1>3, <2>2, <2>3, MulComm
  <2>5. QED
    BY <1>3, <2>3, <2>4, MulCancel
<1>7. RMul(R(3), RDiv(a0, a2)) = RMul(R(2), RMul(h, h))
  <2>1. RMul(RDiv(a0, a2), a2) = a0
    BY <1>2, DivMul
  <2>2. RMul(a2, RMul(R(3), RDiv(a0, a2))) = RMul(a2, RMul(R(2), RMul(h, h)))
    BY <1>5, <2>1
  <2>3. RMul(R(3), RDiv(a0, a2)) \in Rat /\ RMul(R(2), RMul(h, h)) \in Rat
    BY <1>1, <1>5, MulType
  <2>4. QED
    BY <1>2, <2>2, <2>3, MulCancel
<1>8. QED
  BY <1>5, <1>6, <1>7 DEF a2, a1, a0, q

\* The square of the acceleration where the jerk is zero.
LEMMA ExtremeAcceleration ==
  ASSUME NEW c0 \in Rat, NEW c2 \in Rat, NEW h \in Rat, NEW s \in Rat,
         RMul(R(3), c2) = RMul(R(20), RMul(c0, RMul(h, h))), RMul(R(3), s) = RMul(R(2), RMul(h, h)),
         NEW r, r = RSub(RMul(h, h), s),
         NEW slope, slope = RMul(Frac(2, 3), RSub(RMul(R(6), c2), RMul(RMul(RMul(R(60), c0), h), h)))
  PROVE  /\ RMul(RMul(r, slope), slope) \in Rat
         /\ RMul(R(243), RMul(RMul(r, slope), slope))
               = LET w == RMul(c0, RMul(h, h))
                 IN  RMul(RMul(RMul(h, h), RMul(R(-120), w)), RMul(R(-120), w))
<1> DEFINE w == RMul(c0, RMul(h, h))
           z == RSub(RMul(R(6), c2), RMul(RMul(RMul(R(60), c0), h), h))
<1>1. /\ R(6) \in Rat /\ R(60) \in Rat /\ R(3) \in Rat /\ R(2) \in Rat /\ Frac(2, 3) \in Rat
      /\ Is(Frac(2, 3), 2, 3)
  BY RType, FracFacts DEF Is
<1>2. RMul(h, h) \in Rat /\ z \in Rat /\ r \in Rat
  <2>1. RMul(h, h) \in Rat /\ RMul(R(6), c2) \in Rat /\ RMul(R(60), c0) \in Rat
    BY <1>1, MulType
  <2>2. RMul(RMul(R(60), c0), h) \in Rat
    BY <2>1, MulType
  <2>3. RMul(RMul(RMul(R(60), c0), h), h) \in Rat
    BY <2>2, MulType
  <2>4. QED
    BY <2>1, <2>3, SubType
<1>3. slope \in Rat
  BY <1>1, <1>2, MulType
<1>4. RMul(R(3), r) = RMul(h, h)
  <2>1. RMul(R(3), r) = RSub(RMul(R(3), RMul(h, h)), RMul(R(3), s))
        /\ RSub(RMul(R(3), RMul(h, h)), RMul(R(2), RMul(h, h))) = RMul(h, h)
    BY ZeroDistance DEF (-), (.)
  <2>2. QED
    BY <2>1
<1>5. RMul(R(3), Frac(2, 3)) = R(2)
  <2>1. 3 \in Int \ {0} /\ 2 \in Int /\ 3 \in Int
    OBVIOUS
  <2>2. IsOver(Frac(2, 3), 2, 3) /\ IsOver(R(2), 2 * 3, 3)
    BY <1>1, <2>1, OverConstant DEF IsOver
  <2>3. IsOver(RMul(R(3), Frac(2, 3)), 3 * 2, 3)
    BY <2>1, <2>2, OverTimes
  <2>4. 3 * 2 = 2 * 3
    OBVIOUS
  <2>5. QED
    BY <2>2, <2>3, <2>4, OverEqual
<1>6. RMul(R(9), slope) = RMul(R(-120), w)
  <2>1. RMul(R(9), slope) = RMul(R(3), RMul(RMul(R(3), Frac(2, 3)), z))
    BY <1>1, <1>2, NineTimes DEF (.)
  <2>2. /\ RMul(R(3), RMul(R(2), z)) = RSub(RMul(R(12), RMul(R(3), c2)), RMul(R(360), w))
        /\ RSub(RMul(R(12), RMul(R(20), w)), RMul(R(360), w)) = RMul(R(-120), w)
    <3>1. SlopeLaw(c0, c2, h)
      BY Slope
    <3>2. QED
      BY <3>1 DEF SlopeLaw, (-), (.)
  <2> HIDE DEF w, z
  <2>3. QED
    BY <1>5, <2>1, <2>2 DEF w
<1>7. RMul(R(243), RMul(RMul(r, slope), slope)) = RMul(RMul(RMul(R(3), r), RMul(R(9), slope)), RMul(R(9), slope))
  BY <1>2, <1>3, Factors DEF (.)
<1>8. RMul(RMul(r, slope), slope) \in Rat
  BY <1>2, <1>3, MulType
<1>9. QED
  BY <1>4, <1>6, <1>7, <1>8

\* Between points at rest the square of the extreme acceleration times the fourth power
\* of the duration is a third of a hundred times the square of the distance.
LEMMA SquareAtRest ==
  ASSUME NEW c, NEW T \in Rat, T # Zero, NEW d \in Rat, d # Zero, NEW h \in Rat, T = RMul(R(2), h), RestLaw(c, T, d),
         NEW p, p.coefficients = c
  PROVE  LET a == SecondDerivativeMaximumSquared(p)
         IN  a \in Rat /\ RMul(R(3), RMul(FourthPower(T), a)) = RMul(R(100), RMul(d, d))
<1> DEFINE c0 == c[0]
           c1 == c[1]
           c2 == c[2]
           w == RMul(c0, RMul(h, h))
           s == RDiv(RMul(R(6), c2), RMul(R(60), c0))
           r == RSub(RMul(h, h), s)
           slope == RMul(Frac(2, 3), RSub(RMul(R(6), c2), RMul(RMul(RMul(R(60), c0), h), h)))
           a == RMul(RMul(r, slope), slope)
<1>1. /\ c0 \in Rat /\ c0 # Zero /\ c1 \in Rat /\ c2 \in Rat
      /\ RMul(R(2), c1) = RMul(R(-10), RMul(c0, h)) /\ RMul(R(3), c2) = RMul(R(20), RMul(c0, RMul(h, h)))
  BY OverLeading
<1>2. RMul(c0, FifthPower(T)) = RMul(R(6), d)
  BY DEF RestLaw
<1> HIDE DEF c0, c1, c2
<1>3. /\ RDiv(RNeg(RMul(R(24), c1)), RMul(R(2), RMul(R(60), c0))) = h
      /\ s \in Rat /\ RMul(R(3), s) = RMul(R(2), RMul(h, h))
  BY <1>1, JerkShape
<1>4. SecondDerivativeMaximumSquared(p) = a
  <2>1. SecondDerivativeMaximumSquared(p)
          = LET m == RDiv(RNeg(RMul(R(24), c1)), RMul(R(2), RMul(R(60), c0)))
                r2 == RSub(RMul(m, m), s)
                k == RMul(Frac(2, 3), RSub(RMul(R(6), c2), RMul(RMul(RMul(R(60), c0), m), m)))
            IN  RMul(RMul(r2, k), k)
    BY DEF SecondDerivativeMaximumSquared, (-), (.), (/), c0, c1, c2
  <2>2. QED
    BY <1>3, <2>1
<1> HIDE DEF s
<1>5. a \in Rat /\ RMul(R(243), a) = RMul(RMul(RMul(h, h), RMul(R(-120), w)), RMul(R(-120), w))
  BY <1>1, <1>3, ExtremeAcceleration
<1> HIDE DEF a
<1>6. /\ RMul(R(243), RMul(R(3), RMul(FourthPower(T), a))) = RMul(RMul(R(48), FourthPower(h)), RMul(R(243), a))
      /\ RMul(c0, FifthPower(T)) = RMul(R(32), RMul(w, ThirdPower(h)))
  <2>1. ExtremeSquareLaw(c0, h, a)
    BY <1>1, <1>5, ExtremeSquare
  <2>2. QED
    BY <2>1 DEF ExtremeSquareLaw, (.), FifthPower, FourthPower, ThirdPower
<1>7. RMul(RMul(R(48), FourthPower(h)), RMul(RMul(RMul(h, h), RMul(R(-120), w)), RMul(R(-120), w)))
         = RMul(R(675), RMul(RMul(R(32), RMul(w, ThirdPower(h))), RMul(R(32), RMul(w, ThirdPower(h)))))
  <2>1. w \in Rat
    BY <1>1, MulType
  <2> HIDE DEF w
  <2>2. SquareOverLaw(w, h)
    BY <2>1, SquareOver
  <2>3. QED
    BY <2>2 DEF SquareOverLaw, (.), FourthPower, ThirdPower
<1> HIDE DEF w
<1>8. RMul(R(675), RMul(RMul(R(6), d), RMul(R(6), d))) = RMul(R(243), RMul(R(100), RMul(d, d)))
  BY DistanceSquare DEF (.)
<1>9. RMul(R(243), RMul(R(3), RMul(FourthPower(T), a))) = RMul(R(243), RMul(R(100), RMul(d, d)))
  BY <1>2, <1>5, <1>6, <1>7, <1>8
<1>10. R(243) \in Rat /\ R(243) # Zero /\ R(3) \in Rat /\ R(100) \in Rat
  BY RType DEF R, Zero
<1>11. RMul(R(3), RMul(FourthPower(T), a)) \in Rat /\ RMul(R(100), RMul(d, d)) \in Rat
  <2>1. FourthPower(T) \in Rat /\ RMul(d, d) \in Rat
    BY MulType DEF FourthPower
  <2>2. QED
    BY <1>5, <1>10, <2>1, MulType
<1>12. RMul(R(3), RMul(FourthPower(T), a)) = RMul(R(100), RMul(d, d))
  BY <1>9, <1>10, <1>11, MulCancel
<1>13. QED
  BY <1>4, <1>5, <1>12

\* The square of the largest acceleration is 100/3 of that of the displacement, over the
\* fourth power of the duration.
LEMMA HardestAtRest ==
  ASSUME NEW e \in Boundaries, AtRest(e), e.yi # e.yf, NEW T, Positive(T), NEW p, p = ComputeParameters(Lasting(e, T))
  PROVE  LET a == SecondDerivativeMaximumSquared(p)
             d == RSub(e.yf, e.yi)
         IN  a \in Rat /\ RMul(R(3), RMul(FourthPower(T), a)) = RMul(R(100), RMul(d, d))
<1> DEFINE s == Lasting(e, T)
           h == RDiv(T, R(2))
           d == RSub(e.yf, e.yi)
<1>1. s \in Boundaries /\ Span(s) = T /\ AtRest(s) /\ s.xf = T /\ s.yi = e.yi /\ s.yf = e.yf
  BY LastingFacts DEF AtRest
<1>2. h \in Rat /\ T = RMul(R(2), h) /\ T \in Rat /\ T # Zero
  BY HalfDuration
<1>3. d \in Rat /\ d # Zero
  <2>1. e.yi \in Rat /\ e.yf \in Rat
    BY SpanFacts
  <2>2. d \in Rat /\ RAdd(e.yi, d) = e.yf
    BY <2>1, Difference
  <2>3. QED
    BY <2>1, <2>2, Neutral
<1>4. RestLaw(p.coefficients, T, d)
  BY <1>1, RestCoefficients
<1> HIDE DEF s, h, d
<1>5. LET a == SecondDerivativeMaximumSquared(p)
      IN  a \in Rat /\ RMul(R(3), RMul(FourthPower(T), a)) = RMul(R(100), RMul(d, d))
  BY <1>2, <1>3, <1>4, SquareAtRest
<1>6. QED
  BY <1>5 DEF d

\* A segment of the search, with the coefficients it had for another duration or with its own.
IsSegment(p, e, T) == \E c : p = [Lasting(e, T) EXCEPT !.coefficients = c]

Segment(e, T) == ComputeParameters(Lasting(e, T))

\* The fields of such a segment.
LEMMA SegmentRecord ==
  ASSUME NEW e \in Boundaries, NEW T, Positive(T), NEW p, IsSegment(p, e, T)
  PROVE  /\ p.xi = Zero /\ p.xf = T /\ p.yi = e.yi /\ p.yf = e.yf /\ p.dyi = e.dyi
         /\ p.dyf = e.dyf /\ p.d2yi = e.d2yi /\ p.d2yf = e.d2yf
         /\ \A c : [p EXCEPT !.coefficients = c] = [Lasting(e, T) EXCEPT !.coefficients = c]
         /\ \A U : IsSegment([p EXCEPT !.xf = U], e, U)
<1>1. e \in [xi : Rat, xf : Rat, yi : Rat, yf : Rat, dyi : Rat, dyf : Rat, d2yi : Rat, d2yf : Rat,
             coefficients : {Constant(Zero)}]
  BY DEF Boundaries
<1>2. PICK b : p = [Lasting(e, T) EXCEPT !.coefficients = b]
  BY DEF IsSegment
<1>3. e = [xi |-> e.xi, xf |-> e.xf, yi |-> e.yi, yf |-> e.yf, dyi |-> e.dyi, dyf |-> e.dyf,
           d2yi |-> e.d2yi, d2yf |-> e.d2yf, coefficients |-> e.coefficients]
  BY <1>1
<1>4. ASSUME NEW U
      PROVE  Lasting(e, U) = [xi |-> Zero, xf |-> U, yi |-> e.yi, yf |-> e.yf, dyi |-> e.dyi, dyf |-> e.dyf,
                              d2yi |-> e.d2yi, d2yf |-> e.d2yf, coefficients |-> e.coefficients]
  <2>1. Lasting(e, U) \in [xi : {Zero}, xf : {U}, yi : {e.yi}, yf : {e.yf}, dyi : {e.dyi}, dyf : {e.dyf},
                           d2yi : {e.d2yi}, d2yf : {e.d2yf}, coefficients : {e.coefficients}]
    BY <1>1 DEF Lasting
  <2>2. QED
    BY <2>1
<1>5. p = [xi |-> Zero, xf |-> T, yi |-> e.yi, yf |-> e.yf, dyi |-> e.dyi, dyf |-> e.dyf,
           d2yi |-> e.d2yi, d2yf |-> e.d2yf, coefficients |-> b]
  BY <1>2, <1>4
<1>6. ASSUME NEW c
      PROVE  [p EXCEPT !.coefficients = c] = [Lasting(e, T) EXCEPT !.coefficients = c]
  BY <1>4, <1>5
<1>7. ASSUME NEW U
      PROVE  IsSegment([p EXCEPT !.xf = U], e, U)
  <2>1. [p EXCEPT !.xf = U] = [Lasting(e, U) EXCEPT !.coefficients = b]
    BY <1>4, <1>5
  <2>2. QED
    BY <2>1 DEF IsSegment
<1>8. QED
  BY <1>5, <1>6, <1>7

\* The coefficients are computed from the other fields.
LEMMA ComputeSegment ==
  ASSUME NEW e \in Boundaries, NEW T, Positive(T), NEW p, IsSegment(p, e, T)
  PROVE  ComputeParameters(p) = Segment(e, T)
<1> DEFINE s == Lasting(e, T)
<1>1. /\ p.xi = Zero /\ p.xf = T /\ p.yi = e.yi /\ p.yf = e.yf /\ p.dyi = e.dyi
      /\ p.dyf = e.dyf /\ p.d2yi = e.d2yi /\ p.d2yf = e.d2yf
      /\ \A c : [p EXCEPT !.coefficients = c] = [s EXCEPT !.coefficients = c]
  BY SegmentRecord
<1>2. /\ s.xi = Zero /\ s.xf = T /\ s.yi = e.yi /\ s.yf = e.yf /\ s.dyi = e.dyi /\ s.dyf = e.dyf
      /\ s.d2yi = e.d2yi /\ s.d2yf = e.d2yf
  BY LastingFacts
<1> HIDE DEF s
<1>3. Span(p) = Span(s)
  BY <1>1, <1>2 DEF Span
<1>4. ComputeParameters(p) = ComputeParameters(s)
  BY <1>1, <1>2, <1>3 DEF ComputeParameters
<1>5. QED
  BY <1>4 DEF Segment, s

\* Segment is one.
LEMMA SegmentIsSegment ==
  ASSUME NEW e \in Boundaries, NEW T, Positive(T)
  PROVE  IsSegment(Segment(e, T), e, T)
<1>1. Lasting(e, T) \in Boundaries
  BY LastingFacts
<1>2. Segment(e, T) = [Lasting(e, T) EXCEPT !.coefficients = Segment(e, T).coefficients]
  BY <1>1, CoefficientsAre DEF Segment
<1>3. QED
  BY <1>2 DEF IsSegment

\* The durations at which the limits are reached.
VelocityTime(e, limit, T) ==
    Positive(T) /\ RMul(RMul(R(16), T), limit) = RMul(R(30), RAbs(RSub(e.yf, e.yi)))

AccelerationTime(e, limit, T) ==
    /\ Positive(T)
    /\ RMul(R(3), RMul(FourthPower(T), limit)) = RMul(R(100), RMul(RSub(e.yf, e.yi), RSub(e.yf, e.yi)))

\* A search between points at rest after its first round.
AfterRound(t, a) ==
    \E T, U :
        /\ VelocityTime(t.ends, t.dymax, T) /\ AccelerationTime(t.ends, t.d2ymaxSquared, U)
        /\ IsSegment(a.dy, t.ends, T) /\ IsSegment(a.d2y, t.ends, U)
        /\ a.dymaxFound => a.dy = Segment(t.ends, T)
        /\ a.d2ymaxFound => a.d2y = Segment(t.ends, U)

SearchState(t, a) ==
    \/ /\ a.status = "runtime_error" /\ a.iterations = 0
       /\ t.ends.dyi = t.ends.yf (-) t.ends.yi
    \/ /\ AtRest(t.ends) /\ t.ends.yi # t.ends.yf /\ AfterRound(t, a)
       /\ \/ a.status = "searching" /\ a.iterations = 2
          \/ a.status = "found" /\ a.iterations \in 2 .. 4

\* The invariant of the search.
SearchInvariant ==
    /\ task \in Tasks
    /\ (task.kind = "search" /\ answer.status \notin {"waiting", "done"}) => SearchState(task, answer)

\* A segment that takes its limit reaches it.
LEMMA AtLimit ==
  ASSUME NEW T, Positive(T), NEW x \in Rat, NEW y \in Rat, RMul(RMul(R(16), T), x) = RMul(RMul(R(16), T), y)
  PROVE  x = y
<1>1. R(16) \in Rat /\ R(16) # Zero /\ T \in Rat /\ T # Zero
  BY RType, HalfDuration DEF R, Zero
<1>2. RMul(R(16), T) \in Rat /\ RMul(R(16), T) # Zero
  BY <1>1, MulType, NoZeroDivisors
<1>3. QED
  BY <1>2, MulCancel

\* The same of the acceleration.
LEMMA AtSquareLimit ==
  ASSUME NEW T, Positive(T), NEW x \in Rat, NEW y \in Rat,
         RMul(R(3), RMul(FourthPower(T), x)) = RMul(R(3), RMul(FourthPower(T), y))
  PROVE  x = y
<1>1. R(3) \in Rat /\ R(3) # Zero /\ T \in Rat /\ T # Zero /\ R(2) \in Rat
  BY RType, HalfDuration DEF R, Zero
<1>2. FourthPower(T) \in Rat /\ FourthPower(T) # Zero
  <2>1. FourthPower(T) \in Rat
    BY <1>1, MulType DEF FourthPower
  <2>2. RMul(R(2), FourthPower(T)) # Zero
    BY <1>1, PowersAre
  <2>3. QED
    BY <1>1, <2>1, <2>2, NoZeroDivisors
<1>3. RMul(FourthPower(T), x) \in Rat /\ RMul(FourthPower(T), y) \in Rat
  BY <1>2, MulType
<1>4. RMul(FourthPower(T), x) = RMul(FourthPower(T), y)
  BY <1>1, <1>3, MulCancel
<1>5. QED
  BY <1>2, <1>4, MulCancel

\* The velocity and the acceleration of a segment between points at rest, and its leading coefficient.
RestFacts(e, T) ==
    LET p == Segment(e, T)
        v == FirstDerivativeMaximum(p)
        a == SecondDerivativeMaximumSquared(p)
    IN  /\ v \in Rat /\ RLeq(Zero, v) /\ VelocityTime(e, v, T)
        /\ a \in Rat /\ AccelerationTime(e, a, T)
        /\ ~Throws(p)

\* They hold of every duration.
LEMMA RestFactsHold ==
  ASSUME NEW e \in Boundaries, AtRest(e), e.yi # e.yf, NEW T, Positive(T)
  PROVE  RestFacts(e, T)
<1> DEFINE p == Segment(e, T)
           v == FirstDerivativeMaximum(p)
           a == SecondDerivativeMaximumSquared(p)
           h == RDiv(T, R(2))
           d == RSub(e.yf, e.yi)
<1>1. p = ComputeParameters(Lasting(e, T))
  BY DEF Segment
<1>2. v \in Rat /\ RLeq(Zero, v) /\ RMul(RMul(R(16), T), v) = RMul(R(30), RAbs(d))
  BY <1>1, FastestAtRest
<1>3. a \in Rat /\ RMul(R(3), RMul(FourthPower(T), a)) = RMul(R(100), RMul(d, d))
  BY <1>1, HardestAtRest
<1>4. ~Throws(p)
  <2>1. Lasting(e, T) \in Boundaries /\ Span(Lasting(e, T)) = T /\ AtRest(Lasting(e, T))
        /\ Lasting(e, T).yi = e.yi /\ Lasting(e, T).yf = e.yf
    BY LastingFacts DEF AtRest
  <2>2. RestLaw(p.coefficients, T, d)
    BY <2>1, RestCoefficients DEF Segment
  <2>3. h \in Rat /\ T = RMul(R(2), h) /\ T \in Rat /\ T # Zero
    BY HalfDuration
  <2>4. d \in Rat /\ d # Zero
    <3>1. e.yi \in Rat /\ e.yf \in Rat
      BY SpanFacts
    <3>2. d \in Rat /\ RAdd(e.yi, d) = e.yf
      BY <3>1, Difference
    <3>3. QED
      BY <3>1, <3>2, Neutral
  <2> HIDE DEF p, h, d
  <2>5. p.coefficients[0] # Zero
    BY <2>2, <2>3, <2>4, OverLeading
  <2>6. QED
    BY <2>5 DEF Throws
<1> HIDE DEF p, v, a, d
<1>5. QED
  BY <1>2, <1>3, <1>4 DEF RestFacts, VelocityTime, AccelerationTime, p, v, a, d

\* A segment that was not computed yet is one.
LEMMA LastingIsSegment ==
  ASSUME NEW e \in Boundaries, NEW T, Positive(T)
  PROVE  IsSegment(Lasting(e, T), e, T)
<1> DEFINE s == Lasting(e, T)
<1>1. s \in Boundaries
  BY LastingFacts
<1>2. s \in [xi : Rat, xf : Rat, yi : Rat, yf : Rat, dyi : Rat, dyf : Rat, d2yi : Rat, d2yf : Rat,
             coefficients : {Constant(Zero)}]
  BY <1>1 DEF Boundaries
<1> HIDE DEF s
<1>3. s = [s EXCEPT !.coefficients = s.coefficients]
  BY <1>2
<1>4. QED
  BY <1>3 DEF IsSegment, s

\* A round of the search between points at rest.
RoundAtRest(q, e, T, U, dymax, d2ymaxSquared) ==
    LET dy  == Segment(e, T)
        d2y == Segment(e, U)
        v   == FirstDerivativeMaximum(dy)
        a   == SecondDerivativeMaximumSquared(d2y)
        dyFound  == q.dymaxFound \/ v = dymax
        d2yFound == q.d2ymaxFound \/ a = d2ymaxSquared
    IN  [dy  |-> IF dyFound THEN dy ELSE [dy EXCEPT !.xf = @ (.) (v (/) dymax)],
         d2y |-> IF d2yFound THEN d2y ELSE [d2y EXCEPT !.xf = @ (.) FourthRoot(a (/) d2ymaxSquared)],
         dymaxFound  |-> dyFound,
         d2ymaxFound |-> d2yFound,
         status      |-> IF dyFound /\ d2yFound THEN "found" ELSE "searching",
         iterations  |-> q.iterations + (IF q.dymaxFound THEN 0 ELSE 1) + (IF q.d2ymaxFound THEN 0 ELSE 1)]

\* SearchRound is such a round.
LEMMA RoundIs ==
  ASSUME NEW e \in Boundaries, AtRest(e), e.yi # e.yf, NEW T, Positive(T), NEW U, Positive(U), NEW q,
         IsSegment(q.dy, e, T), IsSegment(q.d2y, e, U),
         q.dymaxFound => q.dy = Segment(e, T), q.d2ymaxFound => q.d2y = Segment(e, U),
         NEW dymax, NEW d2ymaxSquared
  PROVE  SearchRound(q, dymax, d2ymaxSquared) = RoundAtRest(q, e, T, U, dymax, d2ymaxSquared)
<1>1. /\ (IF q.dymaxFound THEN q.dy ELSE ComputeParameters(q.dy)) = Segment(e, T)
      /\ (IF q.d2ymaxFound THEN q.d2y ELSE ComputeParameters(q.d2y)) = Segment(e, U)
  BY ComputeSegment
<1>2. ~Throws(Segment(e, T)) /\ ~Throws(Segment(e, U))
  BY RestFactsHold DEF RestFacts
<1>3. QED
  BY <1>1, <1>2 DEF SearchRound, RoundAtRest

\* The fourth roots are positive numbers.
LEMMA FourthRootFacts ==
  ASSUME NEW s \in FourthRoots
  PROVE  Positive(s) /\ Power(s, 4) = FourthPower(s) /\ FourthPower(s) \in Rat
<1>1. s \in Rat /\ RLt(Zero, s)
  BY FourthRootsAssumption
<1>2. Power(s, 4) = FourthPower(s)
  BY <1>1, Powers DEF FourthPower
<1>3. FourthPower(s) \in Rat
  BY <1>1, MulType DEF FourthPower
<1>4. QED
  BY <1>1, <1>2, <1>3 DEF Positive

\* The initial guess is positive, and its own fourth power.
LEMMA OneFacts ==
  Positive(One) /\ FourthPower(One) = One
<1>1. One \in Rat /\ Zero \in Rat /\ RLt(Zero, One)
  <2>1. 0 * 1 < 1 * 1
    OBVIOUS
  <2>2. QED
    BY <2>1, ZeroOne DEF RLt
<1>2. RMul(One, One) = One
  BY <1>1, Neutral
<1>3. QED
  BY <1>1, <1>2 DEF Positive, FourthPower

\* The next duration for the velocity.
LEMMA NextVelocityTime ==
  ASSUME NEW e \in Boundaries, e.yi # e.yf, NEW limit, Positive(limit), NEW v \in Rat, RLeq(Zero, v),
         VelocityTime(e, v, One)
  PROVE  VelocityTime(e, limit, RMul(One, RDiv(v, limit)))
<1> DEFINE d == RSub(e.yf, e.yi)
           T == RMul(One, RDiv(v, limit))
<1>1. limit \in Rat /\ limit # Zero /\ RLt(Zero, limit) /\ R(16) \in Rat /\ R(30) \in Rat /\ R(30) # Zero
  BY RType, HalfDuration DEF Positive, R, Zero
<1>2. RMul(RMul(R(16), One), v) = RMul(R(30), RAbs(d))
  BY DEF VelocityTime
<1>3. d \in Rat /\ d # Zero /\ RAbs(d) \in Rat /\ RAbs(d) # Zero
  <2>1. e.yi \in Rat /\ e.yf \in Rat
    BY SpanFacts
  <2>2. d \in Rat /\ RAdd(e.yi, d) = e.yf
    BY <2>1, Difference
  <2>3. d # Zero
    BY <2>1, <2>2, Neutral
  <2> HIDE DEF d
  <2>4. RAbs(d) \in Rat /\ RLt(Zero, RAbs(d)) /\ Zero \in Rat
    BY <2>2, <2>3, AbsRat, ZeroOne
  <2>5. QED
    BY <2>2, <2>3, <2>4, Order
<1> HIDE DEF d
<1>4. RMul(R(16), One) = R(16)
  BY <1>1, Neutral
<1>5. v # Zero
  <2>1. RMul(R(30), RAbs(d)) # Zero
    BY <1>1, <1>3, NoZeroDivisors
  <2>2. RMul(R(16), Zero) = Zero
    BY <1>1, Neutral
  <2>3. QED
    BY <1>2, <1>4, <2>1, <2>2
<1>6. RDiv(v, limit) \in Rat /\ RLeq(Zero, RDiv(v, limit)) /\ RMul(RDiv(v, limit), limit) = v
  BY <1>1, DivPositive, DivMul
<1>7. T = RDiv(v, limit)
  BY <1>6, Neutral
<1> HIDE DEF T
<1>8. T \in Rat /\ RMul(T, limit) = v /\ RLt(Zero, T)
  <2>1. T \in Rat /\ RMul(T, limit) = v /\ RLeq(Zero, T)
    BY <1>6, <1>7
  <2>2. T # Zero
    BY <1>1, <1>5, <2>1, Neutral
  <2>3. QED
    BY <2>1, <2>2, ZeroOne, Order
<1>9. RMul(RMul(R(16), T), limit) = RMul(R(16), v)
  BY <1>1, <1>8, MulAssoc
<1>10. QED
  BY <1>2, <1>4, <1>8, <1>9 DEF VelocityTime, Positive, T, d

\* The next duration for the acceleration.
LEMMA NextAccelerationTime ==
  ASSUME NEW e \in Boundaries, NEW limit, Positive(limit), NEW a \in Rat,
         AccelerationTime(e, a, One), NEW s \in FourthRoots,
         RMul(Power(s, 4), limit) = RMul(Frac(100, 3), RMul(RSub(e.yf, e.yi), RSub(e.yf, e.yi)))
  PROVE  AccelerationTime(e, limit, RMul(One, FourthRoot(RDiv(a, limit))))
<1> DEFINE d == RSub(e.yf, e.yi)
           t == FourthRoot(RDiv(a, limit))
           f == Power(s, 4)
<1>1. limit \in Rat /\ limit # Zero /\ R(3) \in Rat /\ R(3) # Zero /\ R(100) \in Rat
  BY RType, HalfDuration DEF R, Zero
<1>2. d \in Rat /\ RMul(d, d) \in Rat
  BY SpanFacts, SubType, MulType
<1>3. RMul(R(3), RMul(One, a)) = RMul(R(100), RMul(d, d)) /\ RMul(One, a) = a
  BY OneFacts, Neutral DEF AccelerationTime
<1>4. f \in Rat
  BY FourthRootFacts
<1> HIDE DEF d, f
<1>5. Frac(100, 3) \in Rat /\ RMul(R(3), Frac(100, 3)) = R(100)
  <2>1. 3 \in Int \ {0} /\ 100 \in Int /\ 3 \in Int /\ 3 * 100 = 100 * 3
    OBVIOUS
  <2>2. Is(Frac(100, 3), 100, 3)
    BY <2>1, FracFacts
  <2>3. IsOver(Frac(100, 3), 100, 3) /\ IsOver(R(100), 100 * 3, 3)
    BY <2>1, <2>2, OverConstant DEF IsOver
  <2>4. IsOver(RMul(R(3), Frac(100, 3)), 3 * 100, 3)
    BY <2>1, <2>3, OverTimes
  <2>5. QED
    BY <2>1, <2>2, <2>3, <2>4, OverEqual DEF Is
<1>6. a = RMul(f, limit)
  <2>1. RMul(R(3), RMul(Frac(100, 3), RMul(d, d))) = RMul(R(100), RMul(d, d))
    BY <1>1, <1>2, <1>5, MulAssoc
  <2>2. RMul(f, limit) = RMul(Frac(100, 3), RMul(d, d)) /\ RMul(f, limit) \in Rat
    BY <1>1, <1>4, MulType DEF d, f
  <2>3. RMul(R(3), a) = RMul(R(3), RMul(f, limit))
    BY <1>3, <2>1, <2>2
  <2>4. QED
    BY <1>1, <2>2, <2>3, MulCancel
<1>7. RDiv(a, limit) = f
  <2>1. RDiv(a, limit) \in Rat /\ RMul(RDiv(a, limit), limit) = a
    BY <1>1, DivType, DivMul
  <2>2. RMul(limit, RDiv(a, limit)) = RMul(limit, f)
    BY <1>1, <1>4, <1>6, <2>1, MulComm
  <2>3. QED
    BY <1>1, <1>4, <2>1, <2>2, MulCancel
<1>8. t \in FourthRoots /\ Power(t, 4) = f
  <2>1. \E z \in FourthRoots : Power(z, 4) = f
    BY DEF f
  <2>2. t = CHOOSE z \in FourthRoots : Power(z, 4) = f
    BY <1>7 DEF FourthRoot
  <2> HIDE DEF t
  <2>3. QED
    BY <2>1, <2>2
<1> HIDE DEF t
<1>9. Positive(t) /\ FourthPower(t) = f
  BY <1>8, FourthRootFacts
<1>10. RMul(One, t) = t
  BY <1>9, Neutral DEF Positive
<1>11. RMul(R(3), RMul(FourthPower(t), limit)) = RMul(R(100), RMul(d, d))
  BY <1>3, <1>6, <1>9
<1>12. QED
  BY <1>9, <1>10, <1>11 DEF AccelerationTime, t, d

\* The first round sets the durations at which the limits are reached.
LEMMA FirstRoundAtRest ==
  ASSUME NEW t, t.ends \in Boundaries, AtRest(t.ends), t.ends.yi # t.ends.yf,
         Positive(t.dymax), Positive(t.d2ymaxSquared), NEW s \in FourthRoots,
         RMul(Power(s, 4), t.d2ymaxSquared)
            = RMul(Frac(100, 3), RMul(RSub(t.ends.yf, t.ends.yi), RSub(t.ends.yf, t.ends.yi)))
  PROVE  SearchState(t, SearchRound(StartSearch(t.ends, One), t.dymax, t.d2ymaxSquared))
<1> DEFINE e == t.ends
           q == StartSearch(e, One)
           S == Segment(e, One)
           v == FirstDerivativeMaximum(S)
           a == SecondDerivativeMaximumSquared(S)
           T == IF v = t.dymax THEN One ELSE RMul(One, RDiv(v, t.dymax))
           U == IF a = t.d2ymaxSquared THEN One ELSE RMul(One, FourthRoot(RDiv(a, t.d2ymaxSquared)))
           r == SearchRound(q, t.dymax, t.d2ymaxSquared)
<1>1. /\ q.dy = Lasting(e, One) /\ q.d2y = Lasting(e, One) /\ q.dymaxFound = FALSE
      /\ q.d2ymaxFound = FALSE /\ q.iterations = 0
  BY DEF StartSearch, Lasting
<1>2. Positive(One) /\ IsSegment(q.dy, e, One) /\ IsSegment(q.d2y, e, One)
  BY <1>1, OneFacts, LastingIsSegment
<1>3. RestFacts(e, One)
  BY <1>2, RestFactsHold
<1>4. v \in Rat /\ RLeq(Zero, v) /\ VelocityTime(e, v, One) /\ a \in Rat /\ AccelerationTime(e, a, One)
  BY <1>3 DEF RestFacts
<1>5. r = RoundAtRest(q, e, One, One, t.dymax, t.d2ymaxSquared)
  <2> HIDE DEF q, e
  <2>1. q.dymaxFound => q.dy = Segment(e, One)
    BY <1>1
  <2>2. q.d2ymaxFound => q.d2y = Segment(e, One)
    BY <1>1
  <2>3. AtRest(e) /\ e.yi # e.yf /\ e \in Boundaries
    BY DEF e
  <2>4. QED
    BY <1>2, <2>1, <2>2, <2>3, RoundIs
<1>6. IsSegment(S, e, One) /\ S.xf = One
  BY <1>2, SegmentIsSegment, SegmentRecord
<1>7. \A V : IsSegment([S EXCEPT !.xf = V], e, V)
  BY <1>2, <1>6, SegmentRecord
<1> HIDE DEF q, S, v, a
<1>8. r = [dy  |-> IF v = t.dymax THEN S ELSE [S EXCEPT !.xf = RMul(S.xf, RDiv(v, t.dymax))],
           d2y |-> IF a = t.d2ymaxSquared THEN S
                   ELSE [S EXCEPT !.xf = RMul(S.xf, FourthRoot(RDiv(a, t.d2ymaxSquared)))],
           dymaxFound  |-> v = t.dymax,
           d2ymaxFound |-> a = t.d2ymaxSquared,
           status      |-> IF v = t.dymax /\ a = t.d2ymaxSquared THEN "found" ELSE "searching",
           iterations  |-> 2]
  <2>1. (0 + 1) + 1 = 2
    OBVIOUS
  <2> HIDE DEF e, r
  <2>2. QED
    BY <1>1, <1>5, <2>1 DEF RoundAtRest, (.), (/), S, v, a
<1> HIDE DEF r
<1>9. VelocityTime(e, t.dymax, T)
  <2>1. CASE v = t.dymax
    BY <1>4, <2>1
  <2>2. CASE v # t.dymax
    BY <1>4, <2>2, NextVelocityTime
  <2>3. QED
    BY <2>1, <2>2
<1>10. AccelerationTime(e, t.d2ymaxSquared, U)
  <2>1. CASE a = t.d2ymaxSquared
    BY <1>4, <2>1
  <2>2. CASE a # t.d2ymaxSquared
    BY <1>4, <2>2, NextAccelerationTime
  <2>3. QED
    BY <2>1, <2>2
<1>11. IsSegment(r.dy, e, T) /\ (r.dymaxFound => r.dy = Segment(e, T))
  <2>1. CASE v = t.dymax
    BY <1>6, <1>8, <2>1 DEF S
  <2>2. CASE v # t.dymax
    BY <1>6, <1>7, <1>8, <2>2
  <2>3. QED
    BY <2>1, <2>2
<1>12. IsSegment(r.d2y, e, U) /\ (r.d2ymaxFound => r.d2y = Segment(e, U))
  <2>1. CASE a = t.d2ymaxSquared
    BY <1>6, <1>8, <2>1 DEF S
  <2>2. CASE a # t.d2ymaxSquared
    BY <1>6, <1>7, <1>8, <2>2
  <2>3. QED
    BY <2>1, <2>2
<1>13. r.iterations = 2 /\ (r.status = "found" \/ r.status = "searching")
  BY <1>8
<1> HIDE DEF T, U
<1>14. AfterRound(t, r)
  BY <1>9, <1>10, <1>11, <1>12 DEF AfterRound
<1>15. SearchState(t, r)
  BY <1>13, <1>14 DEF SearchState
<1>16. QED
  BY <1>15 DEF r, q, e

\* The second round finds both limits reached.
LEMMA NextRoundAtRest ==
  ASSUME NEW t, t.ends \in Boundaries, AtRest(t.ends), t.ends.yi # t.ends.yf,
         t.dymax \in Rat, t.d2ymaxSquared \in Rat, NEW q, AfterRound(t, q), q.iterations = 2
  PROVE  SearchState(t, SearchRound(q, t.dymax, t.d2ymaxSquared))
<1> DEFINE e == t.ends
           r == SearchRound(q, t.dymax, t.d2ymaxSquared)
<1>1. PICK T, U :
        /\ VelocityTime(e, t.dymax, T) /\ AccelerationTime(e, t.d2ymaxSquared, U)
        /\ IsSegment(q.dy, e, T) /\ IsSegment(q.d2y, e, U)
        /\ q.dymaxFound => q.dy = Segment(e, T)
        /\ q.d2ymaxFound => q.d2y = Segment(e, U)
  BY DEF AfterRound
<1>2. Positive(T) /\ Positive(U)
  BY <1>1 DEF VelocityTime, AccelerationTime
<1>3. r = RoundAtRest(q, e, T, U, t.dymax, t.d2ymaxSquared)
  BY <1>1, <1>2, RoundIs
<1> DEFINE v == FirstDerivativeMaximum(Segment(e, T))
           a == SecondDerivativeMaximumSquared(Segment(e, U))
<1>4. RestFacts(e, T) /\ RestFacts(e, U)
  BY <1>2, RestFactsHold
<1>5. v \in Rat /\ VelocityTime(e, v, T) /\ a \in Rat /\ AccelerationTime(e, a, U)
  BY <1>4 DEF RestFacts
<1> HIDE DEF v, a, r
<1>6. v = t.dymax
  BY <1>1, <1>2, <1>5, AtLimit DEF VelocityTime
<1>7. a = t.d2ymaxSquared
  BY <1>1, <1>2, <1>5, AtSquareLimit DEF AccelerationTime
<1>8. /\ r.dy = Segment(e, T) /\ r.d2y = Segment(e, U) /\ r.status = "found"
      /\ r.iterations = q.iterations + (IF q.dymaxFound THEN 0 ELSE 1) + (IF q.d2ymaxFound THEN 0 ELSE 1)
  BY <1>3, <1>6, <1>7 DEF RoundAtRest, v, a
<1>9. r.iterations \in 2 .. 4
  BY <1>8
<1>10. AfterRound(t, r)
  BY <1>1, <1>2, <1>8, SegmentIsSegment DEF AfterRound
<1>11. SearchState(t, r)
  BY <1>8, <1>9, <1>10 DEF SearchState
<1>12. QED
  BY <1>11 DEF r

\* A constant velocity needs no polynomial of the fifth order.
LEMMA ConstantVelocityRound ==
  ASSUME NEW t, t.ends \in Boundaries, t.ends.dyi = RSub(t.ends.yf, t.ends.yi), t.ends.dyf = t.ends.dyi,
         t.ends.d2yi = Zero, t.ends.d2yf = Zero
  PROVE  SearchState(t, SearchRound(StartSearch(t.ends, One), t.dymax, t.d2ymaxSquared))
<1> DEFINE e == t.ends
           q == StartSearch(e, One)
           s == Lasting(e, One)
           d == RSub(e.yf, e.yi)
           c == Segment(e, One).coefficients
           r == SearchRound(q, t.dymax, t.d2ymaxSquared)
<1>1. /\ q.dy = s /\ q.d2y = s /\ q.dymaxFound = FALSE
      /\ q.d2ymaxFound = FALSE /\ q.iterations = 0
  BY DEF StartSearch, Lasting
<1>2. Positive(One) /\ s \in Boundaries /\ Span(s) = One
  BY OneFacts, LastingFacts
<1>3. c[0] = RNeg(RDiv(N0(s, One), RMul(R(2), FifthPower(One))))
  BY <1>2, CoefficientsAre DEF Segment
<1>4. /\ s.yi = e.yi /\ s.yf = e.yf /\ s.dyi = d /\ s.dyf = d
      /\ s.d2yi = Zero /\ s.d2yf = Zero
  BY <1>2, LastingFacts
<1>5. e.yi \in Rat /\ e.yf \in Rat /\ d \in Rat /\ RSub(e.yi, e.yf) \in Rat /\ One \in Rat /\ Zero \in Rat
      /\ R(12) \in Rat /\ R(6) \in Rat /\ R(2) \in Rat
  BY SpanFacts, SubType, ZeroOne, RType
<1>6. N0(s, One) = Zero
  <2> HIDE DEF d, e, s
  <2>1. RAdd(RMul(R(12), RSub(e.yi, e.yf)), RMul(R(6), RAdd(d, d))) = Zero
    BY <1>5, ConstantVelocity DEF (+), (-), (.), d
  <2>2. RMul(R(6), One) = R(6) /\ RMul(Zero, RMul(One, One)) = Zero
    BY <1>5, Neutral
  <2>3. RSub(RMul(R(6), RAdd(d, d)), Zero) = RMul(R(6), RAdd(d, d)) /\ RAdd(Zero, Zero) = Zero
    <3>1. RMul(R(6), RAdd(d, d)) \in Rat
      BY <1>5, AddType, MulType DEF d
    <3>2. QED
      BY <1>5, <3>1, NegZero, Neutral DEF RSub
  <2>4. QED
    BY <1>4, <2>1, <2>2, <2>3 DEF N0, (+), (-), (.)
<1>7. c[0] = Zero
  <2>1. RMul(R(2), FifthPower(One)) \in Rat /\ RMul(R(2), FifthPower(One)) # Zero
    BY <1>2, HalfDuration, PowersAre
  <2>2. RDiv(Zero, RMul(R(2), FifthPower(One))) \in Rat
        /\ RMul(RDiv(Zero, RMul(R(2), FifthPower(One))), RMul(R(2), FifthPower(One))) = Zero
    BY <1>5, <2>1, DivType, DivMul
  <2>3. RDiv(Zero, RMul(R(2), FifthPower(One))) = Zero
    BY <2>1, <2>2, NoZeroDivisors
  <2>4. QED
    BY <1>3, <1>6, <2>3, NegZero
<1>8. Throws(ComputeParameters(q.dy))
  BY <1>1, <1>7 DEF Throws, Segment
<1> HIDE DEF q, r
<1>9. r = [q EXCEPT !.status = "runtime_error"]
  BY <1>1, <1>8 DEF SearchRound, r
<1>10. r.status = "runtime_error" /\ r.iterations = 0
  <2>1. q = [dy |-> s, d2y |-> s, dymaxFound |-> FALSE, d2ymaxFound |-> FALSE,
             status |-> "searching", iterations |-> 0]
    BY DEF q, StartSearch, Lasting
  <2>2. QED
    BY <1>9, <2>1
<1>11. SearchState(t, r)
  BY <1>10 DEF SearchState, (-)
<1>12. QED
  BY <1>11 DEF r, q

\* Fourth powers grow.
LEMMA FourthPowerGrows ==
  ASSUME NEW x, Positive(x), NEW y, Positive(y), RLeq(y, x)
  PROVE  /\ FourthPower(x) \in Rat /\ FourthPower(y) \in Rat
         /\ RLt(Zero, FourthPower(y)) /\ RLeq(FourthPower(y), FourthPower(x))
<1>1. x \in Rat /\ RLt(Zero, x) /\ y \in Rat /\ RLt(Zero, y)
  BY DEF Positive
<1> DEFINE x2 == RMul(x, x)
           y2 == RMul(y, y)
           x3 == RMul(x, x2)
           y3 == RMul(y, y2)
<1>2. x2 \in Rat /\ y2 \in Rat /\ RLt(Zero, y2) /\ RLeq(y2, x2)
  BY <1>1, ProductGrows
<1> HIDE DEF x2, y2
<1>3. x3 \in Rat /\ y3 \in Rat /\ RLt(Zero, y3) /\ RLeq(y3, x3)
  BY <1>1, <1>2, ProductGrows
<1> HIDE DEF x3, y3
<1>4. /\ RMul(x, x3) \in Rat /\ RMul(y, y3) \in Rat
      /\ RLt(Zero, RMul(y, y3)) /\ RLeq(RMul(y, y3), RMul(x, x3))
  BY <1>1, <1>3, ProductGrows
<1>5. QED
  BY <1>4 DEF FourthPower, x2, x3, y2, y3

\* A longer segment is slower.
LEMMA SlowerWhenLonger ==
  ASSUME NEW e \in Boundaries, NEW T, NEW U, NEW v \in Rat, NEW w \in Rat, RLeq(Zero, w),
         VelocityTime(e, v, U), VelocityTime(e, w, T), RLeq(T, U)
  PROVE  RLeq(v, w)
<1>1. T \in Rat /\ U \in Rat /\ RLt(Zero, T) /\ R(16) \in Rat /\ R(16) # Zero
  BY RType DEF VelocityTime, Positive, R, Zero
<1>2. RMul(RMul(R(16), U), v) = RMul(RMul(R(16), T), w)
  BY DEF VelocityTime
<1>3. RMul(U, v) \in Rat /\ RMul(T, w) \in Rat
  BY <1>1, MulType
<1>4. RMul(R(16), RMul(U, v)) = RMul(R(16), RMul(T, w))
  BY <1>1, <1>2, MulAssoc
<1>5. RMul(U, v) = RMul(T, w)
  BY <1>1, <1>3, <1>4, MulCancel
<1>6. QED
  BY <1>1, <1>5, LargerFactor

\* A longer segment accelerates less.
LEMMA CalmerWhenLonger ==
  ASSUME NEW e \in Boundaries, NEW T, NEW U, NEW a \in Rat, NEW b \in Rat, RLeq(Zero, b),
         AccelerationTime(e, a, T), AccelerationTime(e, b, U), RLeq(U, T)
  PROVE  RLeq(a, b)
<1>1. Positive(T) /\ Positive(U) /\ R(3) \in Rat /\ R(3) # Zero
  BY RType DEF AccelerationTime, R, Zero
<1>2. /\ FourthPower(T) \in Rat /\ FourthPower(U) \in Rat
      /\ RLt(Zero, FourthPower(U)) /\ RLeq(FourthPower(U), FourthPower(T))
  BY <1>1, FourthPowerGrows
<1>3. RMul(R(3), RMul(FourthPower(T), a)) = RMul(R(3), RMul(FourthPower(U), b))
  BY DEF AccelerationTime
<1>4. RMul(FourthPower(T), a) \in Rat /\ RMul(FourthPower(U), b) \in Rat
  BY <1>2, MulType
<1>5. RMul(FourthPower(T), a) = RMul(FourthPower(U), b)
  BY <1>1, <1>3, <1>4, MulCancel
<1>6. QED
  BY <1>2, <1>5, LargerFactor

\* The longer of the two segments keeps both limits, and reaches one.
LEMMA LongestIsTight ==
  ASSUME NEW t, t.ends \in Boundaries, AtRest(t.ends), t.ends.yi # t.ends.yf,
         Positive(t.dymax), Positive(t.d2ymaxSquared), NEW a, AfterRound(t, a)
  PROVE  LET p    == ComputeParameters(Longest(a))
             vmax == FirstDerivativeMaximum(p)
             amax == SecondDerivativeMaximumSquared(p)
         IN  /\ RLeq(vmax, t.dymax) /\ RLeq(amax, t.d2ymaxSquared)
             /\ vmax = t.dymax \/ amax = t.d2ymaxSquared
             /\ Compute(p.xf, p) = t.ends.yf
<1> DEFINE e == t.ends
           p == ComputeParameters(Longest(a))
           vmax == FirstDerivativeMaximum(p)
           amax == SecondDerivativeMaximumSquared(p)
<1>1. PICK T, U :
        /\ VelocityTime(e, t.dymax, T) /\ AccelerationTime(e, t.d2ymaxSquared, U)
        /\ IsSegment(a.dy, e, T) /\ IsSegment(a.d2y, e, U)
  BY DEF AfterRound
<1>2. Positive(T) /\ Positive(U) /\ T \in Rat /\ U \in Rat
  BY <1>1 DEF VelocityTime, AccelerationTime, Positive
<1>3. /\ t.dymax \in Rat /\ RLeq(Zero, t.dymax) /\ t.d2ymaxSquared \in Rat
      /\ RLeq(Zero, t.d2ymaxSquared)
  BY HalfDuration DEF Positive
<1>4. a.dy.xf = T /\ a.d2y.xf = U
  BY <1>1, <1>2, SegmentRecord
<1>5. ComputeParameters(a.dy) = Segment(e, T) /\ ComputeParameters(a.d2y) = Segment(e, U)
  BY <1>1, <1>2, ComputeSegment
<1>6. p = IF RLt(U, T) THEN Segment(e, T) ELSE Segment(e, U)
  BY <1>4, <1>5 DEF Longest
<1> DEFINE D == IF RLt(U, T) THEN T ELSE U
<1>7. p = Segment(e, D) /\ Positive(D)
  BY <1>2, <1>6
<1>8. Compute(p.xf, p) = e.yf
  <2>1. LET s == Lasting(e, D) IN s \in Boundaries /\ s.yf = e.yf /\ s.xf = D
    BY <1>7, LastingFacts
  <2>2. At(Segment(e, D), Lasting(e, D).xf)
           = <<Lasting(e, D).yf, Lasting(e, D).dyf, Lasting(e, D).d2yf>>
    BY <2>1, SegmentMeets DEF Segment
  <2>3. Compute(D, Segment(e, D)) = e.yf
    BY <2>1, <2>2 DEF At
  <2>4. Segment(e, D).xf = D
    BY <1>7, SegmentIsSegment, SegmentRecord
  <2> HIDE DEF D, p
  <2>5. QED
    BY <1>7, <2>3, <2>4
<1>9. RestFacts(e, D)
  BY <1>7, RestFactsHold
<1> HIDE DEF p, D
<1>10. vmax \in Rat /\ VelocityTime(e, vmax, D) /\ amax \in Rat /\ AccelerationTime(e, amax, D)
  BY <1>7, <1>9 DEF RestFacts
<1> HIDE DEF vmax, amax
<1>11. CASE RLt(U, T)
  <2>1. D = T /\ RLeq(U, T)
    BY <1>2, <1>11, Order DEF D
  <2>2. vmax = t.dymax
    BY <1>1, <1>2, <1>3, <1>10, <2>1, AtLimit DEF VelocityTime
  <2>3. RLeq(amax, t.d2ymaxSquared)
    BY <1>1, <1>3, <1>10, <2>1, CalmerWhenLonger
  <2>4. RLeq(vmax, t.dymax)
    BY <1>3, <2>2, Order
  <2>5. QED
    BY <1>8, <2>2, <2>3, <2>4 DEF p, vmax, amax
<1>12. CASE ~RLt(U, T)
  <2>1. D = U /\ RLeq(T, U)
    BY <1>2, <1>12, Order DEF D
  <2>2. amax = t.d2ymaxSquared
    BY <1>1, <1>2, <1>3, <1>10, <2>1, AtSquareLimit DEF AccelerationTime
  <2>3. RLeq(vmax, t.dymax)
    BY <1>1, <1>3, <1>10, <2>1, SlowerWhenLonger
  <2>4. RLeq(amax, t.d2ymaxSquared)
    BY <1>3, <2>2, Order
  <2>5. QED
    BY <1>8, <2>2, <2>3, <2>4 DEF p, vmax, amax
<1>13. QED
  BY <1>11, <1>12

\* The searches exact arithmetic can follow are in a known state after a round.
LEMMA FirstRound ==
  ASSUME NEW t \in SearchTasks, t.ends.yi # t.ends.yf,
         ConstraintError(t.ends, t.dymax, t.d2ymaxSquared) = "NoError"
  PROVE  SearchState(t, SearchRound(StartSearch(t.ends, One), t.dymax, t.d2ymaxSquared))
<1>1. /\ t.ends \in Boundaries /\ Positive(t.dymax) /\ Positive(t.d2ymaxSquared)
      /\ CanFollow(t)
  BY SearchAssumption DEF Positive
<1>2. CASE /\ AtRest(t.ends)
           /\ \E s \in FourthRoots :
                 RMul(Power(s, 4), t.d2ymaxSquared)
                    = RMul(Frac(100, 3), RMul(RSub(t.ends.yf, t.ends.yi), RSub(t.ends.yf, t.ends.yi)))
  BY <1>1, <1>2, FirstRoundAtRest
<1>3. CASE /\ t.ends.dyi = RSub(t.ends.yf, t.ends.yi) /\ t.ends.dyf = t.ends.dyi
           /\ t.ends.d2yi = Zero /\ t.ends.d2yf = Zero
  BY <1>1, <1>3, ConstantVelocityRound
<1>4. QED
  BY <1>1, <1>2, <1>3 DEF CanFollow, (.), (-)

\* The invariant of the search.
LEMMA SearchIsInvariant ==
  NumericsSpec => []SearchInvariant
<1>1. NumericsInit => SearchInvariant
  BY DEF NumericsInit, SearchInvariant, Waiting
<1>2. ASSUME SearchInvariant, [NumericsNext]_numbers
      PROVE  SearchInvariant'
  <2>1. ASSUME NEW kind, NEW a, Answered(kind, a)
        PROVE  SearchInvariant'
    BY <1>2, <2>1 DEF Answered, SearchInvariant
  <2>2. CASE Shift
    BY <2>1, <2>2 DEF Shift
  <2>3. CASE Linear
    BY <2>1, <2>3 DEF Linear
  <2>4. CASE Solve
    BY <2>1, <2>4 DEF Solve
  <2>5. CASE Meet
    BY <2>1, <2>5 DEF Meet
  <2>6. CASE Follow
    BY <2>1, <2>6 DEF Follow
  <2>7. CASE TooFast
    BY <2>1, <2>7 DEF TooFast
  <2>8. CASE Still
    BY <2>1, <2>8 DEF Still
  <2>9. CASE Search
    <3>1. /\ task' = task /\ task \in Tasks /\ task.kind = "search"
          /\ task.ends.yi # task.ends.yf
          /\ ConstraintError(task.ends, task.dymax, task.d2ymaxSquared) = "NoError"
      BY <1>2, <2>9 DEF Search, Accepted, Error, SearchInvariant
    <3>2. task \in SearchTasks
      BY <3>1, KindOfTask
    <3>3. /\ task.ends \in Boundaries /\ task.dymax \in Rat /\ task.d2ymaxSquared \in Rat
      BY <3>2, SearchAssumption
    <3>4. CASE answer.status = "waiting"
      <4>1. answer' = SearchRound(StartSearch(task.ends, One), task.dymax, task.d2ymaxSquared)
        BY <2>9, <3>4 DEF Search
      <4>2. SearchState(task, answer')
        BY <3>1, <3>2, <4>1, FirstRound
      <4>3. QED
        BY <3>1, <4>2 DEF SearchInvariant, SearchState
    <3>5. CASE answer.status = "searching"
      <4>1. answer' = SearchRound(answer, task.dymax, task.d2ymaxSquared)
        BY <2>9, <3>5 DEF Search
      <4>2. SearchState(task, answer)
        BY <1>2, <3>1, <3>5 DEF SearchInvariant
      <4>3. AtRest(task.ends) /\ AfterRound(task, answer) /\ answer.iterations = 2
        BY <3>5, <4>2 DEF SearchState
      <4>4. SearchState(task, answer')
        BY <3>1, <3>3, <4>1, <4>3, NextRoundAtRest
      <4>5. QED
        BY <3>1, <4>4 DEF SearchInvariant, SearchState
    <3>6. QED
      BY <2>9, <3>4, <3>5 DEF Search
  <2>10. CASE UNCHANGED numbers
    BY <1>2, <2>10 DEF SearchInvariant, SearchState, AfterRound, numbers
  <2>11. QED
    BY <1>2, <2>2, <2>3, <2>4, <2>5, <2>6, <2>7, <2>8, <2>9, <2>10 DEF NumericsNext
<1>3. QED
  BY <1>1, <1>2, PTL DEF NumericsSpec

\* Every search ends within MaxIterations with the shortest segment that keeps both
\* limits, or with the exception of a constant velocity
\* (FifthOrderPolynomial::computeParametersWithConstraints).
THEOREM SearchesAreTight ==
  NumericsSpec => []SearchIsTight
<1>1. SearchInvariant => SearchIsTight
  <2> SUFFICES ASSUME SearchInvariant, task.kind = "search", answer.status \notin {"waiting", "done"}
               PROVE  SearchIsTight
    BY DEF SearchIsTight
  <2>1. task \in SearchTasks /\ SearchState(task, answer)
    BY KindOfTask DEF SearchInvariant
  <2>2. /\ task.ends \in Boundaries /\ Positive(task.dymax) /\ Positive(task.d2ymaxSquared)
        /\ MaxIterations \in Nat /\ MaxIterations >= 4
    BY <2>1, SearchAssumption DEF Positive
  <2>3. answer.iterations =< MaxIterations
    BY <2>1, <2>2 DEF SearchState
  <2>4. answer.iterations = MaxIterations => answer.status # "searching"
    BY <2>1, <2>2 DEF SearchState
  <2>5. answer.status = "runtime_error" => task.ends.dyi = task.ends.yf (-) task.ends.yi
    BY <2>1 DEF SearchState
  <2>6. ASSUME answer.status = "found"
        PROVE  LET p    == ComputeParameters(Longest(answer))
                   vmax == FirstDerivativeMaximum(p)
                   amax == SecondDerivativeMaximumSquared(p)
               IN  /\ RLeq(vmax, task.dymax) /\ RLeq(amax, task.d2ymaxSquared)
                   /\ vmax = task.dymax \/ amax = task.d2ymaxSquared
                   /\ Compute(p.xf, p) = task.ends.yf
    <3>1. AtRest(task.ends) /\ task.ends.yi # task.ends.yf /\ AfterRound(task, answer)
      BY <2>1, <2>6 DEF SearchState
    <3>2. QED
      BY <2>2, <3>1, LongestIsTight
  <2>7. QED
    BY <2>3, <2>4, <2>5, <2>6 DEF SearchIsTight
<1>2. QED
  BY <1>1, SearchIsInvariant, PTL
=============================================================================
