----------------------------- MODULE RootFinder -----------------------------
(***************************************************************************)
(* rpoly_ak1: the roots of a polynomial by the Jenkins-Traub algorithm.    *)
(*                                                                         *)
(* The loops, flags and counters of its procedures are kept; what decides  *)
(* a numeric test (has the sequence converged, is there a cluster of       *)
(* zeros) may answer either way.  The arithmetic of a step is the subject  *)
(* of QuadraticShift.  pc names the procedure that runs:                   *)
(*                                                                         *)
(*   "main"       rpoly_ak1, at the head of the loop over the zeros        *)
(*   "shift"      rpoly_ak1, at the head of the loop over the shifts       *)
(*   "fixed"      Fxshfr_ak1, at the head of the fixed shift steps         *)
(*   "choose"     Fxshfr_ak1, at the head of the loop over the iterations  *)
(*   "restore"    Fxshfr_ak1, at the end of that loop                      *)
(*   "quadratic"  QuadIT_ak1          "linear"  RealIT_ak1                 *)
(*   "deflate"    rpoly_ak1, with NZ zeros found                           *)
(***************************************************************************)
EXTENDS Integers

CONSTANTS
    Degrees,        \* degrees of the polynomials to solve
    MaxDegree,      \* MAXDEGREE
    MaxShifts,      \* 20 shifts
    FixedSteps,     \* 20 * jj fixed shift steps with the shift number jj
    QuadraticSteps, \* 20 steps of QuadIT_ak1
    LinearSteps     \* 10 steps of RealIT_ak1

ASSUME DegreesAssumption == Degrees \subseteq Nat \ {0}
ASSUME StepsAssumption ==
    /\ MaxDegree \in Nat /\ MaxDegree >= 3
    /\ MaxShifts \in Nat /\ FixedSteps \in Nat
    /\ QuadraticSteps \in Nat /\ LinearSteps \in Nat

VARIABLES
    pc,
    op,         \* the polynomial: its degree, its zeros at the origin, or no leading coefficient
    degree,     \* *Degree: on return, the number of roots found
    N,          \* degree of the deflated polynomial
    written,    \* indices of zeror and zeroi that have been assigned
    NZ,         \* zeros the second or third stage has found
    jj, j,      \* shifts, fixed shift steps
    passed,     \* spass, vpass and tss < tvv
    fflag, iFlag, stry, vtry,
    steps,      \* j of the iteration that runs
    triedFlag

vars == <<pc, op, degree, N, written, NZ, jj, j, passed, fflag, iFlag, stry, vtry, steps, triedFlag>>

problem == <<op, degree, N, written>>
flags   == <<passed, fflag, iFlag, stry, vtry>>
loops   == <<jj, j>>
inner   == <<steps, triedFlag>>

Polynomials ==
    UNION { [degree : {d}, zeros : 0 .. d, leading : BOOLEAN] : d \in Degrees }

Neither == [s |-> FALSE, v |-> FALSE, faster |-> FALSE]

Init ==
    /\ pc = "call"
    /\ op \in Polynomials
    /\ degree = op.degree
    /\ N = 0
    /\ written = {}
    /\ NZ = 0
    /\ jj = 0 /\ j = 0
    /\ passed = Neither
    /\ fflag = FALSE /\ iFlag = TRUE /\ stry = FALSE /\ vtry = FALSE
    /\ steps = 0 /\ triedFlag = FALSE

-----------------------------------------------------------------------------
(* rpoly_ak1                                                                *)

Refuse(answer) ==
    /\ pc = "call"
    /\ pc' = "returned"
    /\ degree' = answer
    /\ UNCHANGED <<op, N, written, NZ, loops, flags, inner>>

DegreeTooLarge       == op.degree > MaxDegree /\ Refuse(-1)
NoLeadingCoefficient == op.degree <= MaxDegree /\ ~op.leading /\ Refuse(0)

RemoveZerosAtOrigin ==
    /\ pc = "call"
    /\ op.degree <= MaxDegree /\ op.leading
    /\ pc' = "main"
    /\ N' = op.degree - op.zeros
    /\ written' = 0 .. op.zeros - 1
    /\ UNCHANGED <<op, degree, NZ, loops, flags, inner>>

\* The last zero or pair of zeros by formula, or nothing left to find.
LastZeros ==
    /\ pc = "main"
    /\ N <= 2
    /\ pc' = "returned"
    /\ written' = written \union degree - N .. degree - 1
    /\ UNCHANGED <<op, degree, N, NZ, loops, flags, inner>>

\* Scaling, the bound on the zeros and five steps without shift: numbers.
StartShifts ==
    /\ pc = "main"
    /\ N > 2
    /\ pc' = "shift"
    /\ jj' = 1
    /\ UNCHANGED <<problem, NZ, j, flags, inner>>

NextShift ==
    /\ pc = "shift"
    /\ jj <= MaxShifts
    /\ pc' = "fixed"
    /\ NZ' = 0
    /\ j' = 0
    /\ iFlag' = TRUE
    /\ UNCHANGED <<problem, jj, passed, fflag, stry, vtry, inner>>

\* Mutant: the caller's degree is left as it was.
ReturnsAll ==
    /\ pc = "shift"
    /\ jj > MaxShifts
    /\ pc' = "returned"
    /\ UNCHANGED <<problem, NZ, loops, flags, inner>>

NoConvergence ==
    /\ pc = "shift"
    /\ jj > MaxShifts
    /\ pc' = "returned"
    /\ degree' = degree - N
    /\ UNCHANGED <<op, N, written, NZ, loops, flags, inner>>

\* Mutant: the second zero of a pair is not stored.
DeflateOne ==
    /\ pc = "deflate"
    /\ pc' = "main"
    /\ written' = written \union {degree - N}
    /\ N' = N - NZ
    /\ UNCHANGED <<op, degree, NZ, loops, flags, inner>>

Deflate ==
    /\ pc = "deflate"
    /\ pc' = "main"
    /\ written' = written \union {degree - N} \union (IF NZ # 1 THEN {degree - N + 1} ELSE {})
    /\ N' = N - NZ
    /\ UNCHANGED <<op, degree, NZ, loops, flags, inner>>

-----------------------------------------------------------------------------
(* Fxshfr_ak1                                                               *)

\* The sequences cannot pass before the second step.
FixedShiftStep ==
    /\ pc = "fixed"
    /\ j < FixedSteps * jj
    /\ fflag' = TRUE
    /\ \E s, v, faster \in BOOLEAN :
          /\ (s \/ v) => j # 0
          /\ passed' = [s |-> s, v |-> v, faster |-> faster]
          /\ IF s \/ v THEN pc' = "choose" /\ stry' = FALSE /\ vtry' = FALSE /\ j' = j
                       ELSE j' = j + 1 /\ UNCHANGED <<pc, stry, vtry>>
    /\ UNCHANGED <<problem, NZ, jj, iFlag, inner>>

FixedShiftsEnd ==
    /\ pc = "fixed"
    /\ j >= FixedSteps * jj
    /\ pc' = "shift"
    /\ jj' = jj + 1
    /\ UNCHANGED <<problem, NZ, j, flags, inner>>

LinearIsFastest == passed.s /\ (~passed.v \/ passed.faster)

Goes(flag) == IF flag THEN "linear" ELSE "restore"

\* RealIT_ak1 begins by clearing *iFlag and *NZ.
LinearFirst ==
    /\ pc = "choose"
    /\ fflag /\ LinearIsFastest
    /\ fflag' = FALSE
    /\ pc' = Goes(iFlag)
    /\ steps' = 0
    /\ iFlag' = FALSE
    /\ NZ' = 0
    /\ UNCHANGED <<problem, loops, passed, stry, vtry, triedFlag>>

StartQuadratic ==
    /\ pc = "choose"
    /\ ~(fflag /\ LinearIsFastest)
    /\ fflag' = FALSE
    /\ pc' = "quadratic"
    /\ steps' = 0
    /\ triedFlag' = FALSE
    /\ NZ' = 0
    /\ UNCHANGED <<problem, loops, passed, iFlag, stry, vtry>>

\* Mutant: a pair of zeros near the real axis is tried for ever.
TriesAgain ==
    /\ pc' = Goes(passed.s)
    /\ vtry' = TRUE
    /\ iFlag' = FALSE
    /\ steps' = 0
    /\ UNCHANGED <<problem, NZ, loops, passed, fflag, stry, triedFlag>>

\* QuadIT_ak1 has failed: the linear iteration follows if it has not been tried.
QuadraticFails ==
    /\ pc' = Goes(~stry /\ passed.s)
    /\ vtry' = TRUE
    /\ iFlag' = FALSE
    /\ steps' = 0
    /\ UNCHANGED <<problem, NZ, loops, passed, fflag, stry, triedFlag>>

\* RealIT_ak1 has failed; `cluster` is the value it leaves in *iFlag.
LinearFails(cluster) ==
    /\ stry' = TRUE
    /\ iFlag' = cluster
    /\ pc' = IF cluster THEN "choose" ELSE "restore"
    /\ UNCHANGED <<problem, NZ, loops, passed, fflag, vtry, inner>>

Restore ==
    /\ pc = "restore"
    /\ IF ~passed.v \/ vtry THEN pc' = "fixed" /\ j' = j + 1
                            ELSE pc' = "choose" /\ UNCHANGED j
    /\ UNCHANGED <<problem, NZ, jj, flags, inner>>

-----------------------------------------------------------------------------
(* QuadIT_ak1                                                               *)

Found(zeros) ==
    /\ NZ' = zeros
    /\ pc' = "deflate"
    /\ UNCHANGED <<problem, loops, flags, inner>>

QuadraticConverges == pc = "quadratic" /\ Found(2)

\* The roots of the quadratic are real and far apart, or its product vanishes.
QuadraticDiverges == pc = "quadratic" /\ QuadraticFails

QuadraticStepsEnd == pc = "quadratic" /\ steps >= QuadraticSteps /\ QuadraticFails

\* A cluster of zeros is broken up once, and the steps are counted anew.
BreaksUp(cluster) ==
    /\ cluster => steps + 1 >= 2 /\ ~triedFlag
    /\ steps' = (IF cluster THEN 0 ELSE steps + 1)
    /\ triedFlag' = (triedFlag \/ cluster)

QuadraticStep ==
    /\ pc = "quadratic"
    /\ steps < QuadraticSteps
    /\ \E cluster \in BOOLEAN : BreaksUp(cluster)
    /\ UNCHANGED <<pc, problem, NZ, loops, flags>>

-----------------------------------------------------------------------------
(* RealIT_ak1                                                               *)

LinearConverges == pc = "linear" /\ Found(1)

LinearStepsEnd == pc = "linear" /\ steps >= LinearSteps /\ LinearFails(FALSE)

\* A cluster near the real axis: a quadratic iteration is asked for.
LinearCluster ==
    /\ pc = "linear"
    /\ steps < LinearSteps /\ steps + 1 >= 2
    /\ LinearFails(TRUE)

LinearStep ==
    /\ pc = "linear"
    /\ steps < LinearSteps
    /\ steps' = steps + 1
    /\ UNCHANGED <<pc, problem, NZ, loops, flags, triedFlag>>

-----------------------------------------------------------------------------
Next ==
    \/ DegreeTooLarge \/ NoLeadingCoefficient \/ RemoveZerosAtOrigin
    \/ LastZeros \/ StartShifts \/ NextShift \/ NoConvergence \/ Deflate
    \/ FixedShiftStep \/ FixedShiftsEnd \/ LinearFirst \/ StartQuadratic \/ Restore
    \/ QuadraticConverges \/ QuadraticDiverges \/ QuadraticStepsEnd \/ QuadraticStep
    \/ LinearConverges \/ LinearStepsEnd \/ LinearCluster \/ LinearStep

Spec == Init /\ [][Next]_vars

\* rpoly_ak1 runs in the thread of its caller.
FairSpec == Spec /\ WF_vars(Next)

-----------------------------------------------------------------------------
(* Properties                                                               *)

NumbersOK ==
    /\ pc \in {"call", "main", "shift", "fixed", "choose", "restore",
               "quadratic", "linear", "deflate", "returned"}
    /\ op \in Polynomials
    /\ degree \in Int /\ N \in Nat /\ written \subseteq Nat
    /\ NZ \in 0 .. 2 /\ jj \in Nat /\ j \in Nat /\ steps \in Nat

FlagsOK ==
    /\ passed \in [s : BOOLEAN, v : BOOLEAN, faster : BOOLEAN]
    /\ fflag \in BOOLEAN /\ iFlag \in BOOLEAN /\ stry \in BOOLEAN /\ vtry \in BOOLEAN
    /\ triedFlag \in BOOLEAN

TypeOK == NumbersOK /\ FlagsOK

Returned == pc = "returned"

\* Whatever fails, however the zeros came (at the origin, one or two at a time,
\* by formula), the degree that is returned is the number of roots in the
\* arrays: the elements before it are written, the ones after it are not.
ArraysMatchDegree == Returned => written = 0 .. degree - 1

\* getFirstDerivativeMaximum and getSecondDerivativeMaximum look only at whether
\* the degree returned is zero, and then read as many roots as they asked
\* for.  This is safe up to degree 3, where failure finds no root at all.
RootsReadAreWritten ==
    Returned /\ degree # 0 /\ op.degree \in {2, 3} => 0 .. op.degree - 1 \subseteq written

\* However the sequences pass their tests and the iterations fail, they are
\* not repeated for ever and the call comes back.
Returns == <>Returned
=============================================================================
