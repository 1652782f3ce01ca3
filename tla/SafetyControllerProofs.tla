----------------------- MODULE SafetyControllerProofs -----------------------
(***************************************************************************)
(* The properties of the safety controller, for any constraint objects     *)
(* with limits that can be kept, any number of joints, any Jacobian, any   *)
(* generator outputs and any sequence of registry operations and cycles.   *)
(*                                                                         *)
(* What they rest on, from the bottom:                                     *)
(*   Fractions              the laws of FractionProofs                     *)
(*   Folds                  sums over a finite set, by induction over its  *)
(*                          subsets                                        *)
(*   Constraints            motion scaled by a constraint's value, or by   *)
(*                          any smaller one, keeps its promise             *)
(*   Registries, types      the invariant                                  *)
(*   Linearity              the Jacobian's inverse inverts it              *)
(*                                                                         *)
(* The emergency stop, one of its constraints, comes last: the object      *)
(* alone, for any channels, and its refinement of the stop policy.         *)
(***************************************************************************)
EXTENDS SafetyController, EmergencyStopRefinement, FractionProofs, FiniteSetTheorems,
        SequenceTheorems, WellFoundedInduction, TLAPS

-----------------------------------------------------------------------------
(* Folds                                                                    *)

\* A function that is defined along the elements picked from a finite set exists.
Steps(S, D) == [SUBSET S -> [D -> D]]
IsFold(g, S, D, base, step) ==
    /\ g \in [SUBSET S -> D]
    /\ \A s \in SUBSET S : g[s] = IF s = {} THEN base ELSE step[s][g[s \ {Pick(s)}]]

LEMMA FoldExists ==
  ASSUME NEW S, IsFiniteSet(S), NEW D, NEW base \in D, NEW step \in Steps(S, D)
  PROVE  \E g : IsFold(g, S, D, base, step)
<1> USE DEF Steps
<1> DEFINE Up(n) == {s \in SUBSET S : Cardinality(s) <= n}
           Folds(g, n) == /\ g \in [Up(n) -> D]
                          /\ \A s \in Up(n) :
                                g[s] = IF s = {} THEN base ELSE step[s][g[s \ {Pick(s)}]]
           N == {n \in Nat : \E g : Folds(g, n)}
<1>1. \A s \in SUBSET S : IsFiniteSet(s) /\ Cardinality(s) \in Nat
  BY FS_Subset, FS_CardinalityType
<1>2. \A s \in SUBSET S : Cardinality(s) = 0 <=> s = {}
  BY <1>1, FS_EmptySet
<1>3. \A s \in SUBSET S : s # {} => /\ s \ {Pick(s)} \in SUBSET S
                                    /\ Cardinality(s \ {Pick(s)}) = Cardinality(s) - 1
  <2> SUFFICES ASSUME NEW s \in SUBSET S, s # {}
               PROVE  /\ s \ {Pick(s)} \in SUBSET S
                      /\ Cardinality(s \ {Pick(s)}) = Cardinality(s) - 1
    OBVIOUS
  <2>1. Pick(s) \in s
    BY DEF Pick
  <2>2. QED
    BY <1>1, <2>1, FS_RemoveElement
<1>4. 0 \in N
  <2> DEFINE g == [s \in Up(0) |-> base]
  <2>1. \A s \in Up(0) : s = {}
    BY <1>1, <1>2
  <2>2. Folds(g, 0)
    BY <2>1
  <2>3. QED
    BY <2>2
<1>5. ASSUME NEW n \in Nat, n \in N
      PROVE  n + 1 \in N
  <2>1. PICK g : Folds(g, n)
    BY <1>5
  <2> DEFINE h == [s \in Up(n + 1) |-> IF s \in Up(n) THEN g[s]
                                       ELSE step[s][g[s \ {Pick(s)}]]]
  <2>2. \A s \in Up(n + 1) : s # {} => s \ {Pick(s)} \in Up(n)
    BY <1>1, <1>3
  <2>3. \A s \in Up(n) : s \in Up(n + 1)
    BY <1>1
  <2>4. {} \in Up(n)
    BY <1>2
  <2>5. h \in [Up(n + 1) -> D]
    <3> SUFFICES ASSUME NEW s \in Up(n + 1), s \notin Up(n)
                 PROVE  step[s][g[s \ {Pick(s)}]] \in D
      BY <2>1
    <3>1. s # {} /\ s \in SUBSET S
      BY <2>4
    <3>2. g[s \ {Pick(s)}] \in D
      BY <2>1, <2>2, <3>1
    <3>3. QED
      BY <3>1, <3>2
  <2>6. ASSUME NEW s \in Up(n + 1)
        PROVE  h[s] = IF s = {} THEN base ELSE step[s][h[s \ {Pick(s)}]]
    <3>1. s # {} => h[s \ {Pick(s)}] = g[s \ {Pick(s)}]
      BY <2>2, <2>3
    <3>2. CASE s \in Up(n)
      BY <2>1, <3>1, <3>2
    <3>3. CASE s \notin Up(n)
      <4>1. s # {}
        BY <2>4, <3>3
      <4>2. h[s] = step[s][g[s \ {Pick(s)}]]
        BY <3>3
      <4>3. QED
        BY <3>1, <4>1, <4>2
    <3>4. QED
      BY <3>2, <3>3
  <2> HIDE DEF h
  <2>7. Folds(h, n + 1)
    BY <2>5, <2>6
  <2> HIDE DEF Folds
  <2>8. QED
    BY <2>7
<1> HIDE DEF N
<1>6. Nat \subseteq N
  BY <1>4, <1>5, SetInduction
<1>7. Cardinality(S) \in Nat /\ \A s \in SUBSET S : Cardinality(s) <= Cardinality(S)
  BY FS_CardinalityType, FS_Subset
<1>8. \E g : Folds(g, Cardinality(S))
  BY <1>6, <1>7 DEF N
<1>9. Up(Cardinality(S)) = SUBSET S
  BY <1>7
<1>10. QED
  BY <1>8, <1>9 DEF IsFold

\* The sums of a function over sets of its arguments, as FoldFunction makes them.
SumOver(f) ==
    CHOOSE g : g = [s \in SUBSET DOMAIN f |->
                      IF s = {} THEN 0 ELSE f[Pick(s)] + g[s \ {Pick(s)}]]
RSumOver(f) ==
    CHOOSE g : g = [s \in SUBSET DOMAIN f |->
                      IF s = {} THEN Zero ELSE RAdd(f[Pick(s)], g[s \ {Pick(s)}])]
RSum(f) == RSumOver(f)[DOMAIN f]

LEMMA SumIsOver ==
  ASSUME NEW f
  PROVE  Sum(f) = SumOver(f)[DOMAIN f]
BY DEF Sum, FoldFunction, FoldFunctionOnSet, MapThenFoldSet, SumOver, Pick

Terms(row, joint) == [i \in Joints |-> RMul(R(row[i]), joint[i])]

LEMMA DotIsOver ==
  ASSUME NEW row, NEW joint
  PROVE  Dot(row, joint) = RSum(Terms(row, joint))
BY DEF Dot, FoldFunction, FoldFunctionOnSet, MapThenFoldSet, RSumOver, RSum, Terms, Pick

LEMMA SumFacts ==
  ASSUME NEW f, IsFiniteSet(DOMAIN f), \A i \in DOMAIN f : f[i] \in Int
  PROVE  /\ Sum(f) \in Int /\ SumOver(f)[{}] = 0
         /\ \A s \in SUBSET DOMAIN f :
               /\ SumOver(f)[s] \in Int
               /\ s # {} => SumOver(f)[s] = f[Pick(s)] + SumOver(f)[s \ {Pick(s)}]
<1> DEFINE S == DOMAIN f
           step == [s \in SUBSET S |-> [d \in Int |-> IF s = {} THEN 0 ELSE f[Pick(s)] + d]]
<1>1. \A s \in SUBSET S : s # {} => f[Pick(s)] \in Int /\ s \ {Pick(s)} \in SUBSET S
  <2> SUFFICES ASSUME NEW s \in SUBSET S, s # {}
               PROVE  f[Pick(s)] \in Int /\ s \ {Pick(s)} \in SUBSET S
    OBVIOUS
  <2>1. Pick(s) \in s
    BY DEF Pick
  <2>2. QED
    BY <2>1
<1>2. step \in Steps(S, Int) /\ 0 \in Int
  BY <1>1 DEF Steps
<1>3. PICK h : IsFold(h, S, Int, 0, step)
  <2> HIDE DEF step
  <2>1. IsFiniteSet(S)
    OBVIOUS
  <2> HIDE DEF S
  <2>2. \A D, b : b \in D /\ step \in Steps(S, D) => \E h : IsFold(h, S, D, b, step)
    BY <2>1, FoldExists
  <2>3. QED
    BY <1>2, <2>2, Zenon
<1>4. \A s \in SUBSET S : h[s] = IF s = {} THEN 0 ELSE f[Pick(s)] + h[s \ {Pick(s)}]
  BY <1>1, <1>3 DEF IsFold
<1> HIDE DEF step
<1>5. h = [s \in SUBSET S |-> IF s = {} THEN 0 ELSE f[Pick(s)] + h[s \ {Pick(s)}]]
  BY <1>3, <1>4 DEF IsFold
<1> DEFINE g == SumOver(f)
<1>6. g = [s \in SUBSET S |-> IF s = {} THEN 0 ELSE f[Pick(s)] + g[s \ {Pick(s)}]]
  BY <1>5 DEF SumOver
<1> HIDE DEF g
<1>7. \A s \in SUBSET S : g[s] = IF s = {} THEN 0 ELSE f[Pick(s)] + g[s \ {Pick(s)}]
  BY <1>6
<1> DEFINE T == {s \in SUBSET S : g[s] \in Int}
<1>8. {} \in T
  <2>1. {} \in SUBSET S
    OBVIOUS
  <2>2. g[{}] = 0
    BY <1>7, <2>1, Zenon
  <2>3. QED
    BY <2>1, <2>2
<1>9. \A s \in SUBSET S : (s # {} /\ s \ {Pick(s)} \in T) => s \in T
  BY <1>1, <1>7
<1> HIDE DEF T, S
<1>10. SUBSET S \subseteq T
  BY <1>8, <1>9, SubsetInduction DEF S
<1>11. \A s \in SUBSET S : g[s] \in Int
  BY <1>10 DEF T
<1>12. QED
  BY <1>7, <1>11, SumIsOver DEF g, S

LEMMA RSumFacts ==
  ASSUME NEW f, IsFiniteSet(DOMAIN f), \A i \in DOMAIN f : f[i] \in Rat
  PROVE  /\ RSum(f) \in Rat /\ RSumOver(f)[{}] = Zero
         /\ \A s \in SUBSET DOMAIN f :
               /\ RSumOver(f)[s] \in Rat
               /\ s # {} => RSumOver(f)[s] = RAdd(f[Pick(s)], RSumOver(f)[s \ {Pick(s)}])
<1> DEFINE S == DOMAIN f
           step == [s \in SUBSET S |->
                      [d \in Rat |-> IF s = {} THEN Zero ELSE RAdd(f[Pick(s)], d)]]
<1>1. \A s \in SUBSET S : s # {} => f[Pick(s)] \in Rat /\ s \ {Pick(s)} \in SUBSET S
  <2> SUFFICES ASSUME NEW s \in SUBSET S, s # {}
               PROVE  f[Pick(s)] \in Rat /\ s \ {Pick(s)} \in SUBSET S
    OBVIOUS
  <2>1. Pick(s) \in s
    BY DEF Pick
  <2>2. QED
    BY <2>1
<1>2. step \in Steps(S, Rat) /\ Zero \in Rat
  BY <1>1, AddType, ZeroOne DEF Steps
<1>3. PICK h : IsFold(h, S, Rat, Zero, step)
  <2> HIDE DEF step
  <2>1. IsFiniteSet(S)
    OBVIOUS
  <2> HIDE DEF S
  <2>2. \A D, b : b \in D /\ step \in Steps(S, D) => \E h : IsFold(h, S, D, b, step)
    BY <2>1, FoldExists
  <2>3. QED
    BY <1>2, <2>2, Zenon
<1>4. \A s \in SUBSET S : h[s] = IF s = {} THEN Zero ELSE RAdd(f[Pick(s)], h[s \ {Pick(s)}])
  BY <1>1, <1>3 DEF IsFold
<1> HIDE DEF step
<1>5. h = [s \in SUBSET S |-> IF s = {} THEN Zero ELSE RAdd(f[Pick(s)], h[s \ {Pick(s)}])]
  BY <1>3, <1>4 DEF IsFold
<1> DEFINE g == RSumOver(f)
<1>6. g = [s \in SUBSET S |-> IF s = {} THEN Zero ELSE RAdd(f[Pick(s)], g[s \ {Pick(s)}])]
  BY <1>5 DEF RSumOver
<1> HIDE DEF g
<1>7. \A s \in SUBSET S : g[s] = IF s = {} THEN Zero ELSE RAdd(f[Pick(s)], g[s \ {Pick(s)}])
  BY <1>6
<1> DEFINE T == {s \in SUBSET S : g[s] \in Rat}
<1>8. {} \in T
  <2>1. {} \in SUBSET S
    OBVIOUS
  <2>2. g[{}] = Zero
    BY <1>7, <2>1, Zenon
  <2>3. QED
    BY <2>1, <2>2, ZeroOne
<1>9. \A s \in SUBSET S : (s # {} /\ s \ {Pick(s)} \in T) => s \in T
  <2>1. \A x, y \in Rat : RAdd(x, y) \in Rat
    BY AddType
  <2>2. QED
    BY <1>1, <1>7, <2>1
<1> HIDE DEF T, S
<1>10. SUBSET S \subseteq T
  BY <1>8, <1>9, SubsetInduction DEF S
<1>11. \A s \in SUBSET S : g[s] \in Rat
  BY <1>10 DEF T
<1>12. QED
  BY <1>7, <1>11 DEF g, S, RSum

\* Whole numbers multiply and add as fractions do.
LEMMA IntMul ==
  ASSUME NEW k \in Int, NEW l \in Int
  PROVE  RMul(R(k), R(l)) = R(k * l) /\ RAdd(R(k), R(l)) = R(k + l)
<1>1. Is(R(k), k, 1) /\ Is(R(l), l, 1) /\ Is(R(k * l), k * l, 1) /\ Is(R(k + l), k + l, 1)
  BY RType
<1>2. Is(RMul(R(k), R(l)), k * l, 1)
  BY <1>1, IsMul
<1>3. Is(RAdd(R(k), R(l)), k + l, 1)
  <2>1. Is(RAdd(R(k), R(l)), k * 1 + l * 1, 1 * 1)
    BY <1>1, IsAdd
  <2>2. QED
    BY <2>1
<1>4. QED
  BY <1>1, <1>2, <1>3, IsSame

-----------------------------------------------------------------------------
(* Constraints: each factor keeps its promise, as does any smaller one      *)

\* The values of a function on a finite set.
LEMMA ImageFinite ==
  ASSUME NEW f, IsFiniteSet(DOMAIN f)
  PROVE  IsFiniteSet({f[i] : i \in DOMAIN f})
<1> DEFINE S == DOMAIN f
           T == {f[i] : i \in S}
           g == [i \in S |-> f[i]]
<1>1. g \in Surjection(S, T)
  BY DEF Surjection
<1>2. QED
  BY <1>1, FS_Surjection

\* The least of one and the values of a function is a factor.
LEMMA LeastFactor ==
  ASSUME NEW f, IsFiniteSet(DOMAIN f), \A i \in DOMAIN f : f[i] \in NotNegative
  PROVE  LET m == RMin({One} \union {f[i] : i \in DOMAIN f})
         IN  /\ m \in NotNegative /\ RLeq(m, One)
             /\ \A i \in DOMAIN f : RLeq(m, f[i])
<1> DEFINE S == {One} \union {f[i] : i \in DOMAIN f}
<1>1. IsFiniteSet(S)
  <2> DEFINE T == {f[i] : i \in DOMAIN f}
  <2>1. IsFiniteSet(T)
    BY ImageFinite
  <2> HIDE DEF T
  <2>2. IsFiniteSet(T \cup {One})
    BY <2>1, FS_AddElement
  <2>3. S = T \cup {One}
    BY DEF T
  <2>4. QED
    BY <2>2, <2>3
<1>2. One \in NotNegative
  BY ZeroOne, Order DEF NotNegative
<1>3. S \subseteq NotNegative /\ S \subseteq Rat /\ S # {} /\ One \in S
  BY <1>2 DEF NotNegative
<1>4. \A i \in DOMAIN f : f[i] \in S
  OBVIOUS
<1> HIDE DEF S
<1>5. RMin(S) \in S /\ \A y \in S : RLeq(RMin(S), y)
  BY <1>1, <1>3, MinFacts
<1>6. QED
  BY <1>3, <1>4, <1>5 DEF S

\* Motion at or below a factor that is a limit's share of a speed keeps to the limit.
LEMMA ShareKept ==
  ASSUME NEW x \in Rat, NEW m \in NotNegative, NEW value,
         value = IF RLt(Zero, RAbs(x)) THEN RDiv(m, RAbs(x)) ELSE One
  PROVE  /\ value \in NotNegative
         /\ \A s \in NotNegative : RLeq(s, value) =>
               RMul(s, x) \in Rat /\ RLeq(RAbs(RMul(s, x)), m)
<1>1. m \in Rat /\ RLeq(Zero, m) /\ RAbs(x) \in Rat
  BY AbsRat DEF NotNegative
<1>2. One \in NotNegative
  BY ZeroOne, Order DEF NotNegative
<1>3. value \in NotNegative
  BY <1>1, <1>2, DivPositive DEF NotNegative
<1>4. ASSUME NEW s \in NotNegative, RLeq(s, value)
      PROVE  RMul(s, x) \in Rat /\ RLeq(RAbs(RMul(s, x)), m)
  <2>1. s \in Rat /\ RLeq(Zero, s)
    BY DEF NotNegative
  <2>2. RLt(Zero, RAbs(x)) => RLeq(s, RDiv(m, RAbs(x)))
    BY <1>4
  <2>3. QED
    BY <1>1, <2>1, <2>2, SlowEnough
<1>5. QED
  BY <1>3, <1>4

LEMMA VelocityKept ==
  ASSUME NEW rob \in Robot, NEW m \in Rat
  PROVE  /\ VelocityConstraint(rob, m) \in NotNegative
         /\ \A s \in NotNegative : RLeq(s, VelocityConstraint(rob, m)) =>
               RLeq(RAbs(RMul(s, rob.cpTotal)), RAbs(m))
<1>1. rob.cpTotal \in Rat /\ RAbs(m) \in NotNegative
  BY AbsRat DEF Robot, NotNegative
<1>2. VelocityConstraint(rob, m)
         = IF RLt(Zero, RAbs(rob.cpTotal)) THEN RDiv(RAbs(m), RAbs(rob.cpTotal)) ELSE One
  BY DEF VelocityConstraint
<1>3. QED
  BY <1>1, <1>2, ShareKept

LEMMA AccelerationKept ==
  ASSUME NEW rob \in Robot, NEW m \in Rat
  PROVE  /\ AccelerationConstraint(rob, m, SampleTime) \in NotNegative
         /\ \A s \in NotNegative : RLeq(s, AccelerationConstraint(rob, m, SampleTime)) =>
               RLeq(RAbs(RMul(s, rob.cpTotal)), RAdd(RAbs(rob.cpVel), RMul(RAbs(m), SampleTime)))
<1> DEFINE limit == RAdd(RAbs(rob.cpVel), RMul(RAbs(m), SampleTime))
<1>1. rob.cpTotal \in Rat /\ rob.cpVel \in Rat
  BY DEF Robot
<1>2. /\ RAbs(m) \in Rat /\ RLeq(Zero, RAbs(m)) /\ SampleTime \in Rat /\ RLeq(Zero, SampleTime)
      /\ RAbs(rob.cpVel) \in Rat /\ RLeq(Zero, RAbs(rob.cpVel))
  BY <1>1, AbsRat, JointsAssumption DEF NotNegative
<1>3. RMul(RAbs(m), SampleTime) \in Rat /\ RLeq(Zero, RMul(RAbs(m), SampleTime))
  BY <1>2, MulType, Products
<1>4. limit \in NotNegative
  BY <1>2, <1>3, AddType, Products DEF NotNegative
<1>5. AccelerationConstraint(rob, m, SampleTime)
         = IF RLt(Zero, RAbs(rob.cpTotal)) THEN RDiv(limit, RAbs(rob.cpTotal)) ELSE One
  BY DEF AccelerationConstraint
<1> HIDE DEF limit
<1>6. QED
  BY <1>1, <1>4, <1>5, ShareKept DEF limit

LEMMA JointVelocityKept ==
  ASSUME NEW rob \in Robot, NEW m \in [Joints -> NotNegative]
  PROVE  /\ JointVelocityConstraint(rob, m) \in NotNegative
         /\ \A s \in NotNegative : RLeq(s, JointVelocityConstraint(rob, m)) =>
               \A i \in Joints : RLeq(RAbs(RMul(s, rob.jointTotal[i])), m[i])
<1> DEFINE total == rob.jointTotal
           moving == {j \in DOMAIN total : total[j] # Zero}
           f == [i \in moving |-> RDiv(m[i], RAbs(total[i]))]
<1>1. total \in [Joints -> Rat] /\ moving \subseteq Joints /\ IsFiniteSet(moving)
  BY JointsAssumption, FS_Subset DEF Robot
<1>2. JointVelocityConstraint(rob, m) = RMin({One} \union {f[i] : i \in DOMAIN f})
  BY DEF JointVelocityConstraint
<1> HIDE DEF total
<1>3. \A i \in moving : /\ m[i] \in Rat /\ RLeq(Zero, m[i]) /\ total[i] \in Rat
                        /\ RAbs(total[i]) \in Rat /\ RLt(Zero, RAbs(total[i]))
  BY <1>1, AbsRat DEF NotNegative
<1>4. \A i \in moving : f[i] \in NotNegative
  BY <1>3, DivPositive DEF NotNegative
<1>5. DOMAIN f = moving
  OBVIOUS
<1> DEFINE value == JointVelocityConstraint(rob, m)
<1>6. value \in NotNegative /\ \A i \in moving : RLeq(value, f[i])
  <2> HIDE DEF f, moving
  <2>1. QED
    BY <1>1, <1>2, <1>4, <1>5, LeastFactor
<1> HIDE DEF value
<1>7. ASSUME NEW s \in NotNegative, RLeq(s, value), NEW i \in Joints
      PROVE  RLeq(RAbs(RMul(s, total[i])), m[i])
  <2>1. /\ s \in Rat /\ RLeq(Zero, s) /\ total[i] \in Rat /\ m[i] \in Rat /\ RLeq(Zero, m[i])
        /\ value \in Rat
    BY <1>1, <1>6 DEF NotNegative
  <2>2. RLt(Zero, RAbs(total[i])) => RLeq(s, RDiv(m[i], RAbs(total[i])))
    <3> SUFFICES ASSUME RLt(Zero, RAbs(total[i]))
                 PROVE  RLeq(s, RDiv(m[i], RAbs(total[i])))
      OBVIOUS
    <3>1. i \in moving
      BY <1>1, <2>1, AbsRat
    <3>2. RLeq(value, f[i]) /\ f[i] \in Rat /\ f[i] = RDiv(m[i], RAbs(total[i]))
      BY <1>4, <1>6, <3>1 DEF NotNegative
    <3>3. QED
      BY <1>7, <2>1, <3>2, LeqTrans
  <2>3. QED
    BY <2>1, <2>2, SlowEnough
<1>8. QED
  BY <1>6, <1>7 DEF value, total

LEMMA JointAccelerationKept ==
  ASSUME NEW rob \in Robot, NEW m \in [Joints -> NotNegative]
  PROVE  /\ JointAccelerationConstraint(rob, m, SampleTime) \in NotNegative
         /\ \A s \in NotNegative :
               RLeq(s, One) /\ RLeq(s, JointAccelerationConstraint(rob, m, SampleTime)) =>
                  \A i \in Joints :
                     \/ RLt(RMul(s, rob.jointTotal[i]), NegligibleSpeed)
                     \/ RLeq(RMul(s, rob.jointTotal[i]),
                             RAdd(RAbs(rob.jointVel[i]), RMul(m[i], SampleTime)))
<1> DEFINE total == rob.jointTotal
           limit(i) == RAdd(RAbs(rob.jointVel[i]), RMul(m[i], SampleTime))
           moving == {j \in DOMAIN total : ~RLt(total[j], NegligibleSpeed)}
           f == [i \in moving |-> RDiv(limit(i), RAbs(total[i]))]
<1>1. total \in [Joints -> Rat] /\ moving \subseteq Joints /\ IsFiniteSet(moving)
  BY JointsAssumption, FS_Subset DEF Robot
<1>2. JointAccelerationConstraint(rob, m, SampleTime) = RMin({One} \union {f[i] : i \in DOMAIN f})
  BY DEF JointAccelerationConstraint
<1>3. \A i \in Joints : limit(i) \in Rat /\ RLeq(Zero, limit(i))
  <2> SUFFICES ASSUME NEW i \in Joints
               PROVE  limit(i) \in Rat /\ RLeq(Zero, limit(i))
    OBVIOUS
  <2>1. /\ rob.jointVel[i] \in Rat /\ m[i] \in Rat /\ RLeq(Zero, m[i])
        /\ SampleTime \in Rat /\ RLeq(Zero, SampleTime)
    BY JointsAssumption DEF Robot, NotNegative
  <2>2. RAbs(rob.jointVel[i]) \in Rat /\ RLeq(Zero, RAbs(rob.jointVel[i]))
    BY <2>1, AbsRat
  <2>3. RMul(m[i], SampleTime) \in Rat /\ RLeq(Zero, RMul(m[i], SampleTime))
    BY <2>1, MulType, Products
  <2>4. QED
    BY <2>2, <2>3, AddType, Products
<1>4. NegligibleSpeed \in Rat /\ RLt(Zero, NegligibleSpeed)
  <2>1. GCD[<<1, 1000000>>] = GCD[<<1000000, 1 % 1000000>>]
    BY GcdStep
  <2>2. GCD[<<1000000, 1>>] = GCD[<<1, 1000000 % 1>>]
    BY GcdStep
  <2>3. GCD[<<1, 0>>] = 1
    BY GcdStep
  <2>4. 1 % 1000000 = 1 /\ 1000000 % 1 = 0 /\ AbsInt(1) = 1
    BY DEF AbsInt
  <2>5. GCD[<<AbsInt(1), 1000000>>] = 1
    BY <2>1, <2>2, <2>3, <2>4
  <2>6. QED
    BY <2>5, ZeroOne DEF NegligibleSpeed, Rat, RLt
<1> HIDE DEF total, limit
<1>5. \A i \in moving : /\ total[i] \in Rat /\ RAbs(total[i]) \in Rat /\ RLt(Zero, RAbs(total[i]))
                        /\ RAbs(total[i]) = total[i]
  <2> SUFFICES ASSUME NEW i \in moving
               PROVE  /\ total[i] \in Rat /\ RAbs(total[i]) \in Rat /\ RLt(Zero, RAbs(total[i]))
                      /\ RAbs(total[i]) = total[i]
    OBVIOUS
  <2>1. total[i] \in Rat /\ RLeq(NegligibleSpeed, total[i])
    BY <1>1, <1>4, Order
  <2>2. ~RLeq(total[i], Zero) /\ RLeq(Zero, total[i])
    BY <1>4, <2>1, LeqTrans, Order, ZeroOne
  <2>3. total[i] # Zero
    BY <2>2, Order, ZeroOne
  <2>4. QED
    BY <2>1, <2>2, <2>3, AbsRat
<1>6. \A i \in moving : f[i] \in NotNegative
  BY <1>1, <1>3, <1>5, DivPositive DEF NotNegative
<1>7. DOMAIN f = moving
  OBVIOUS
<1> DEFINE value == JointAccelerationConstraint(rob, m, SampleTime)
<1>8. value \in NotNegative /\ \A i \in moving : RLeq(value, f[i])
  <2> HIDE DEF f, moving
  <2>1. QED
    BY <1>1, <1>2, <1>6, <1>7, LeastFactor
<1> HIDE DEF value
<1>9. ASSUME NEW s \in NotNegative, RLeq(s, One), RLeq(s, value), NEW i \in Joints
      PROVE  RLt(RMul(s, total[i]), NegligibleSpeed) \/ RLeq(RMul(s, total[i]), limit(i))
  <2>1. /\ s \in Rat /\ RLeq(Zero, s) /\ total[i] \in Rat /\ value \in Rat
    BY <1>1, <1>8 DEF NotNegative
  <2>2. CASE RLt(total[i], NegligibleSpeed)
    BY <1>4, <1>9, <2>1, <2>2, StaysBelow
  <2>3. CASE ~RLt(total[i], NegligibleSpeed)
    <3>1. i \in moving
      BY <1>1, <2>3
    <3>2. RLeq(value, f[i]) /\ f[i] \in Rat /\ f[i] = RDiv(limit(i), RAbs(total[i]))
      BY <1>6, <1>8, <3>1 DEF NotNegative
    <3>3. RLeq(s, RDiv(limit(i), RAbs(total[i])))
      BY <1>9, <2>1, <3>2, LeqTrans
    <3>4. RMul(s, total[i]) \in Rat /\ RLeq(RAbs(RMul(s, total[i])), limit(i))
      BY <1>3, <2>1, <3>3, SlowEnough
    <3>5. RLeq(RMul(s, total[i]), RAbs(RMul(s, total[i]))) /\ RAbs(RMul(s, total[i])) \in Rat
      BY <3>4, AbsRat
    <3>6. QED
      BY <1>3, <3>4, <3>5, LeqTrans
  <2>4. QED
    BY <2>2, <2>3
<1>10. QED
  BY <1>8, <1>9 DEF value, total, limit

\* The power drawn by the motion is the force times the velocity: its sign is the velocity's.
LEMMA PowerKept ==
  ASSUME NEW rob \in Robot, NEW m \in NotNegative
  PROVE  /\ PowerConstraint(rob, m) \in NotNegative
         /\ \A s \in NotNegative : RLeq(s, PowerConstraint(rob, m)) =>
               RLeq(RNeg(RMul(rob.extForce, RMul(s, rob.cpTotal))), m)
<1> DEFINE F == rob.extForce
           x == rob.cpTotal
           p == RMul(F, x)
<1>1. F \in Rat /\ x \in Rat /\ p \in Rat /\ m \in Rat /\ RLeq(Zero, m)
  BY MulType DEF Robot, NotNegative, Whole
<1>2. PowerConstraint(rob, m) = IF RLt(p, Zero) THEN RAbs(RDiv(m, p)) ELSE One
  BY DEF PowerConstraint, ExchangedPower
<1>3. \A s \in Rat : RMul(s, x) \in Rat /\ RMul(F, RMul(s, x)) = RMul(s, p)
  <2> SUFFICES ASSUME NEW s \in Rat
               PROVE  RMul(s, x) \in Rat /\ RMul(F, RMul(s, x)) = RMul(s, p)
    OBVIOUS
  <2> HIDE DEF F, x
  <2>1. RMul(s, x) \in Rat /\ RMul(F, s) = RMul(s, F)
    BY <1>1, MulType, MulComm
  <2>2. RMul(F, RMul(s, x)) = RMul(RMul(F, s), x)
    BY <1>1, MulAssoc
  <2>3. RMul(RMul(s, F), x) = RMul(s, RMul(F, x))
    BY <1>1, MulAssoc
  <2>4. QED
    BY <2>1, <2>2, <2>3
<1> HIDE DEF p
<1>4. CASE RLt(p, Zero)
  <2>1. p # Zero
    BY <1>1, <1>4, Order, ZeroOne
  <2>2. RAbs(p) \in Rat /\ RLt(Zero, RAbs(p)) /\ RDiv(m, RAbs(p)) = RAbs(RDiv(m, p))
    BY <1>1, <2>1, AbsRat, AbsDiv
  <2>3. PowerConstraint(rob, m) = IF RLt(Zero, RAbs(p)) THEN RDiv(m, RAbs(p)) ELSE One
    BY <1>2, <1>4, <2>2
  <2>4. PowerConstraint(rob, m) \in NotNegative
    BY <1>1, <2>3, ShareKept
  <2>5. ASSUME NEW s \in NotNegative, RLeq(s, PowerConstraint(rob, m))
        PROVE  RLeq(RNeg(RMul(s, p)), m)
    <3>1. RMul(s, p) \in Rat /\ RLeq(RAbs(RMul(s, p)), m)
      BY <1>1, <2>3, <2>5, ShareKept
    <3>2. RLeq(RNeg(RMul(s, p)), RAbs(RMul(s, p))) /\ RAbs(RMul(s, p)) \in Rat
          /\ RNeg(RMul(s, p)) \in Rat
      BY <3>1, AbsRat, NegType
    <3>3. QED
      BY <1>1, <3>1, <3>2, LeqTrans
  <2>6. \A s \in NotNegative : s \in Rat
    BY DEF NotNegative
  <2>7. QED
    BY <1>3, <2>4, <2>5, <2>6
<1>5. CASE ~RLt(p, Zero)
  <2>1. PowerConstraint(rob, m) = One /\ One \in NotNegative
    BY <1>2, <1>5, ZeroOne, Order DEF NotNegative
  <2>2. RLeq(Zero, p)
    BY <1>1, <1>5, Order, ZeroOne
  <2>3. ASSUME NEW s \in NotNegative
        PROVE  RLeq(RNeg(RMul(s, p)), m)
    <3>1. s \in Rat /\ RMul(s, p) \in Rat /\ RLeq(Zero, RMul(s, p))
      BY <1>1, <2>2, MulType, Products DEF NotNegative
    <3>2. RNeg(Zero) = Zero
      BY Neutral, NegType, ZeroOne
    <3>3. RNeg(RMul(s, p)) \in Rat /\ RLeq(RNeg(RMul(s, p)), Zero)
      BY <3>1, <3>2, NegFacts, NegType, ZeroOne
    <3>4. QED
      BY <1>1, <3>3, LeqTrans, ZeroOne
  <2>4. \A s \in NotNegative : s \in Rat
    BY DEF NotNegative
  <2>5. QED
    BY <1>3, <2>1, <2>3, <2>4
<1>6. QED
  BY <1>4, <1>5

LEMMA EnergyKept ==
  ASSUME NEW rob \in Robot, NEW c \in ConstraintObject, c.kind = "kinetic_energy"
  PROVE  /\ KineticEnergyConstraint(rob, c.mass, c.maximum) \in NotNegative
         /\ \A s \in NotNegative : RLeq(s, KineticEnergyConstraint(rob, c.mass, c.maximum)) =>
               RLeq(RMul(R(c.mass), RMul(RMul(s, rob.cpTotal), RMul(s, rob.cpTotal))),
                    R(2 * c.maximum))
<1> DEFINE w == MaximumVelocityOf(c.mass, c.maximum)
<1>1. /\ c.mass \in Nat \ {0} /\ c.maximum \in Nat
      /\ \E n \in 0 .. c.maximum : c.mass * (n * n) = 2 * c.maximum
  BY DEF ConstraintObject
<1>2. w \in Rat /\ RMul(R(c.mass), RMul(w, w)) = R(2 * c.maximum)
  <2>1. PICK n \in 0 .. c.maximum : c.mass * (n * n) = 2 * c.maximum
    BY <1>1
  <2>2. \A k, l \in Int : RMul(R(k), R(l)) = R(k * l)
    BY IntMul
  <2>3. n \in Int /\ n * n \in Int /\ c.mass \in Int
    BY <1>1
  <2>4. RMul(R(c.mass), RMul(R(n), R(n))) = R(c.mass * (n * n))
    BY <2>2, <2>3
  <2>5. \E v \in {R(k) : k \in 0 .. c.maximum} : RMul(R(c.mass), RMul(v, v)) = R(2 * c.maximum)
    BY <2>1, <2>4
  <2>6. /\ w \in {R(k) : k \in 0 .. c.maximum}
        /\ RMul(R(c.mass), RMul(w, w)) = R(2 * c.maximum)
    BY <2>5 DEF MaximumVelocityOf
  <2>7. \A k \in 0 .. c.maximum : R(k) \in Rat
    BY <1>1, RType
  <2>8. QED
    BY <2>6, <2>7
<1> HIDE DEF w
<1>3. KineticEnergyConstraint(rob, c.mass, c.maximum) = VelocityConstraint(rob, w)
  BY DEF KineticEnergyConstraint, w
<1>4. R(c.mass) \in Rat /\ RLeq(Zero, R(c.mass))
  <2>1. R(c.mass) \in Rat /\ R(c.mass)[1] = c.mass
    BY <1>1, RType DEF R
  <2>2. QED
    BY <1>1, <2>1, Order
<1>5. ASSUME NEW s \in NotNegative, RLeq(s, VelocityConstraint(rob, w))
      PROVE  RLeq(RMul(R(c.mass), RMul(RMul(s, rob.cpTotal), RMul(s, rob.cpTotal))),
                  R(2 * c.maximum))
  <2> DEFINE v == RMul(s, rob.cpTotal)
  <2>1. v \in Rat
    BY MulType DEF NotNegative, Robot
  <2>2. RLeq(RAbs(v), RAbs(w))
    BY <1>2, <1>5, VelocityKept
  <2> HIDE DEF v
  <2>3. RLeq(RMul(v, v), RMul(w, w)) /\ RMul(v, v) \in Rat /\ RMul(w, w) \in Rat
    BY <1>2, <2>1, <2>2, SquareMono, MulType
  <2>4. RLeq(RMul(R(c.mass), RMul(v, v)), RMul(R(c.mass), RMul(w, w)))
    BY <1>4, <2>3, MulMono
  <2>5. QED
    BY <1>2, <2>4 DEF v
<1>6. QED
  BY <1>2, <1>3, <1>5, VelocityKept

\* The interpolator's value between its points, or at its ends, is not negative.
LEMMA LimitNotNegative ==
  ASSUME NEW from \in Point, NEW to \in Point, RLt(from.x, to.x), NEW x \in Rat \union {Infinity}
  PROVE  LinearInterpolation(from, to, TRUE, x) \in NotNegative
<1>1. /\ from.x \in Rat /\ to.x \in Rat /\ from.y \in Rat /\ to.y \in Rat
      /\ RLeq(Zero, from.y) /\ RLeq(Zero, to.y)
      /\ from.y \in NotNegative /\ to.y \in NotNegative
  BY DEF Point, NotNegative
<1> DEFINE a == RDiv(RSub(to.y, from.y), RSub(to.x, from.x))
           line == RAdd(RMul(a, x), RSub(from.y, RMul(a, from.x)))
<1>2. LinearInterpolation(from, to, TRUE, x)
        = IF x # Infinity /\ RLt(x, from.x) THEN from.y
          ELSE IF x = Infinity \/ RLt(to.x, x) THEN to.y
          ELSE line
  BY DEF LinearInterpolation
<1>3. ASSUME x \in Rat, ~RLt(x, from.x), ~RLt(to.x, x)
      PROVE  line \in NotNegative
  <2>1. RLeq(from.x, x) /\ RLeq(x, to.x)
    BY <1>1, <1>3, Order
  <2> HIDE DEF a
  <2>2. line \in Rat /\ RLeq(Zero, line)
    BY <1>1, <1>3, <2>1, LineBetween DEF a
  <2>3. QED
    BY <2>2 DEF NotNegative
<1> HIDE DEF line
<1>4. QED
  BY <1>1, <1>2, <1>3

LEMMA SeparationKept ==
  ASSUME NEW rob \in Robot, IsFiniteSet(rob.objects), NEW from \in Point, NEW to \in Point,
         RLt(from.x, to.x)
  PROVE  LET limit == LinearInterpolation(from, to, TRUE, ClosestObjectDistance(rob.objects))
         IN  /\ SeparationDistanceConstraint(rob, from, to, TRUE) \in NotNegative
             /\ \A s \in NotNegative : RLeq(s, SeparationDistanceConstraint(rob, from, to, TRUE)) =>
                   RLeq(RAbs(RMul(s, rob.cpTotal)), limit)
<1> DEFINE d == ClosestObjectDistance(rob.objects)
           limit == LinearInterpolation(from, to, TRUE, d)
<1>1. d \in Rat \union {Infinity}
  <2>1. rob.objects \subseteq Rat
    BY DEF Robot
  <2>2. CASE rob.objects = {}
    BY <2>2 DEF ClosestObjectDistance
  <2>3. CASE rob.objects # {}
    BY <2>1, <2>3, MinFacts DEF ClosestObjectDistance
  <2>4. QED
    BY <2>2, <2>3
<1> HIDE DEF d
<1>2. limit \in NotNegative
  BY <1>1, LimitNotNegative
<1> HIDE DEF limit
<1>3. limit \in Rat /\ RAbs(limit) = limit
  BY <1>2, AbsRat DEF NotNegative
<1>4. SeparationDistanceConstraint(rob, from, to, TRUE) = VelocityConstraint(rob, limit)
  BY DEF SeparationDistanceConstraint, d, limit
<1>5. QED
  BY <1>3, <1>4, VelocityKept DEF d, limit

\* What the emergency stop returns, and when it is zero.
LEMMA StopFacts ==
  ASSUME NEW rob \in Robot, NEW c, c.deactivation \in Int, previous[c] \in {0, 1}
  PROVE  /\ StopValue(c, rob) \in {0, 1}
         /\ (\/ AbsInt(rob.extForce[1]) >= c.activation
             \/ previous[c] = 0 /\ AbsInt(rob.extForce[1]) > c.deactivation)
              => StopValue(c, rob) = 0
<1> DEFINE force == AbsInt(rob.extForce[1])
           channel == StopChannel(force, c.activation, c.deactivation, previous[c])
           channels == [force |-> channel]
<1>1. force \in Int
  BY RatType, AbsFacts DEF Robot, Whole
<1>2. channel = IF force >= c.activation THEN 0
                ELSE IF force <= c.deactivation THEN 1 ELSE previous[c]
  BY DEF StopChannel
<1> HIDE DEF force, channel
<1>3. DOMAIN channels = {"force"} /\ channels["force"] = channel
  OBVIOUS
<1>4. StopValue(c, rob) = EmergencyStopValue(channels)
  BY DEF StopValue, force, channel
<1> HIDE DEF channels
<1>5. StopValue(c, rob) = IF channel = 1 THEN 1 ELSE 0
  BY <1>3, <1>4 DEF EmergencyStopValue
<1>6. QED
  BY <1>1, <1>2, <1>5 DEF force

Latches == [EmergencyStops -> {0, 1}]

\* Every constraint returns a number that is not negative.
LEMMA ValueFacts ==
  ASSUME NEW rob \in Robot, IsFiniteSet(rob.objects), NEW c \in ConstraintObjects \union {Default},
         ConstraintObjects \subseteq ConstraintObject, NEW latch \in Latches
  PROVE  ConstraintValue(c, rob, latch) \in NotNegative
<1>1. CASE c.kind = "default"
  BY <1>1, ZeroOne, Order DEF ConstraintValue, DefaultConstraint, NotNegative
<1>2. CASE c.kind # "default"
  <2>1. c \in ConstraintObjects /\ c \in ConstraintObject
    BY <1>2 DEF Default
  <2>2. CASE c.kind = "velocity"
    <3>1. c.maximum \in Rat
      BY <2>1, <2>2 DEF ConstraintObject
    <3>2. QED
      BY <2>2, <3>1, VelocityKept DEF ConstraintValue
  <2>3. CASE c.kind = "acceleration"
    <3>1. c.maximum \in Rat
      BY <2>1, <2>3 DEF ConstraintObject
    <3>2. QED
      BY <2>3, <3>1, AccelerationKept DEF ConstraintValue
  <2>4. CASE c.kind = "joint_velocity"
    <3>1. c.maximum \in [Joints -> NotNegative]
      BY <2>1, <2>4 DEF ConstraintObject
    <3>2. QED
      BY <2>4, <3>1, JointVelocityKept DEF ConstraintValue
  <2>5. CASE c.kind = "joint_acceleration"
    <3>1. c.maximum \in [Joints -> NotNegative]
      BY <2>1, <2>5 DEF ConstraintObject
    <3>2. QED
      BY <2>5, <3>1, JointAccelerationKept DEF ConstraintValue
  <2>6. CASE c.kind = "power"
    <3>1. c.maximum \in NotNegative
      BY <2>1, <2>6 DEF ConstraintObject
    <3>2. QED
      BY <2>6, <3>1, PowerKept DEF ConstraintValue
  <2>7. CASE c.kind = "kinetic_energy"
    BY <2>1, <2>7, EnergyKept DEF ConstraintValue
  <2>8. CASE c.kind = "separation"
    <3>1. c.from \in Point /\ c.to \in Point /\ c.saturation = TRUE /\ RLt(c.from.x, c.to.x)
      BY <2>1, <2>8 DEF ConstraintObject
    <3>2. QED
      BY <2>8, <3>1, SeparationKept DEF ConstraintValue
  <2>9. CASE c.kind = "emergency_stop"
    <3>1. latch[c] \in {0, 1}
      BY <2>1, <2>9 DEF Latches, EmergencyStops
    <3>2. R(0) = Zero /\ R(1) = One
      BY DEF Zero, One
    <3>3. Zero \in NotNegative /\ One \in NotNegative
      BY ZeroOne, Order DEF NotNegative
    <3>4. ConstraintValue(c, rob, latch) = R(latch[c])
      BY <2>9 DEF ConstraintValue
    <3>5. QED
      BY <3>1, <3>2, <3>3, <3>4
  <2>10. c.kind \in {"velocity", "acceleration", "joint_velocity", "joint_acceleration",
                     "power", "kinetic_energy", "separation", "emergency_stop"}
    BY <2>1 DEF ConstraintObject
  <2>11. QED
    BY <2>2, <2>3, <2>4, <2>5, <2>6, <2>7, <2>8, <2>9, <2>10
<1>3. QED
  BY <1>1, <1>2

\* Motion scaled by a factor no greater than a constraint's value keeps its promise.
LEMMA PromiseKept ==
  ASSUME NEW rob \in Robot, IsFiniteSet(rob.objects), NEW c \in ConstraintObjects \union {Default},
         ConstraintObjects \subseteq ConstraintObject, NEW latch \in Latches,
         c.kind = "emergency_stop" => latch[c] = StopValue(c, rob) /\ previous[c] \in {0, 1},
         NEW before, before.cpVel = rob.cpVel, before.jointVel = rob.jointVel,
         NEW s \in NotNegative, RLeq(s, One), RLeq(s, ConstraintValue(c, rob, latch)),
         NEW after, after.extForce = rob.extForce, after.objects = rob.objects,
         after.jointVel = [i \in Joints |-> RMul(s, rob.jointTotal[i])],
         after.cpVel = RMul(s, rob.cpTotal)
  PROVE  Promise(c, before, after, after.cpVel)
<1>1. CASE c.kind = "default"
  BY <1>1 DEF Promise
<1>2. CASE c.kind # "default"
  <2>1. c \in ConstraintObjects /\ c \in ConstraintObject
    BY <1>2 DEF Default
  <2>2. CASE c.kind = "velocity"
    <3>1. c.maximum \in Rat
      BY <2>1, <2>2 DEF ConstraintObject
    <3>2. RLeq(s, VelocityConstraint(rob, c.maximum))
      BY <2>2 DEF ConstraintValue
    <3>3. RLeq(RAbs(after.cpVel), RAbs(c.maximum))
      BY <3>1, <3>2, VelocityKept
    <3>4. QED
      BY <2>2, <3>3 DEF Promise
  <2>3. CASE c.kind = "acceleration"
    <3>1. c.maximum \in Rat
      BY <2>1, <2>3 DEF ConstraintObject
    <3>2. RLeq(s, AccelerationConstraint(rob, c.maximum, SampleTime))
      BY <2>3 DEF ConstraintValue
    <3>3. RLeq(RAbs(after.cpVel), RAdd(RAbs(before.cpVel), RMul(RAbs(c.maximum), SampleTime)))
      BY <3>1, <3>2, AccelerationKept
    <3>4. QED
      BY <2>3, <3>3 DEF Promise
  <2>4. CASE c.kind = "joint_velocity"
    <3>1. c.maximum \in [Joints -> NotNegative]
      BY <2>1, <2>4 DEF ConstraintObject
    <3>2. RLeq(s, JointVelocityConstraint(rob, c.maximum))
      BY <2>4 DEF ConstraintValue
    <3>3. \A i \in Joints : RLeq(RAbs(RMul(s, rob.jointTotal[i])), c.maximum[i])
      BY <3>1, <3>2, JointVelocityKept
    <3>4. QED
      BY <2>4, <3>3 DEF Promise
  <2>5. CASE c.kind = "joint_acceleration"
    <3>1. c.maximum \in [Joints -> NotNegative]
      BY <2>1, <2>5 DEF ConstraintObject
    <3>2. RLeq(s, JointAccelerationConstraint(rob, c.maximum, SampleTime))
      BY <2>5 DEF ConstraintValue
    <3>3. \A i \in Joints :
             \/ RLt(RMul(s, rob.jointTotal[i]), NegligibleSpeed)
             \/ RLeq(RMul(s, rob.jointTotal[i]),
                     RAdd(RAbs(rob.jointVel[i]), RMul(c.maximum[i], SampleTime)))
      BY <3>1, <3>2, JointAccelerationKept
    <3>4. QED
      BY <2>5, <3>3 DEF Promise
  <2>6. CASE c.kind = "power"
    <3>1. c.maximum \in NotNegative
      BY <2>1, <2>6 DEF ConstraintObject
    <3>2. RLeq(s, PowerConstraint(rob, c.maximum))
      BY <2>6 DEF ConstraintValue
    <3>3. RLeq(RNeg(RMul(rob.extForce, RMul(s, rob.cpTotal))), c.maximum)
      BY <3>1, <3>2, PowerKept
    <3>4. QED
      BY <2>6, <3>3 DEF Promise
  <2>7. CASE c.kind = "kinetic_energy"
    <3>1. RLeq(s, KineticEnergyConstraint(rob, c.mass, c.maximum))
      BY <2>7 DEF ConstraintValue
    <3>2. RLeq(RMul(R(c.mass), RMul(RMul(s, rob.cpTotal), RMul(s, rob.cpTotal))), R(2 * c.maximum))
      BY <2>1, <2>7, <3>1, EnergyKept
    <3>3. QED
      BY <2>7, <3>2 DEF Promise
  <2>8. CASE c.kind = "separation"
    <3>1. c.from \in Point /\ c.to \in Point /\ c.saturation = TRUE /\ RLt(c.from.x, c.to.x)
      BY <2>1, <2>8 DEF ConstraintObject
    <3>2. RLeq(s, SeparationDistanceConstraint(rob, c.from, c.to, TRUE))
      BY <2>8, <3>1 DEF ConstraintValue
    <3>3. RLeq(RAbs(RMul(s, rob.cpTotal)),
               LinearInterpolation(c.from, c.to, TRUE, ClosestObjectDistance(rob.objects)))
      BY <3>1, <3>2, SeparationKept
    <3>4. QED
      BY <2>8, <3>1, <3>3 DEF Promise
  <2>9. CASE c.kind = "emergency_stop"
    <3> SUFFICES ASSUME \/ AbsInt(rob.extForce[1]) >= c.activation
                        \/ previous[c] = 0 /\ AbsInt(rob.extForce[1]) > c.deactivation
                 PROVE  after.jointVel = Still /\ after.cpVel = Zero
      BY <2>9 DEF Promise
    <3>1. latch[c] = StopValue(c, rob) /\ previous[c] \in {0, 1} /\ c.deactivation \in Int
      BY <2>1, <2>9 DEF ConstraintObject
    <3>2. latch[c] = 0
      BY <3>1, StopFacts
    <3>3. ConstraintValue(c, rob, latch) = Zero
      BY <2>9, <3>2 DEF ConstraintValue, Zero
    <3>4. s = Zero
      BY <3>3, Order, ZeroOne DEF NotNegative
    <3>5. rob.cpTotal \in Rat /\ \A i \in Joints : rob.jointTotal[i] \in Rat
      BY DEF Robot
    <3>6. \A x \in Rat : RMul(Zero, x) = Zero
      BY Neutral
    <3>7. QED
      BY <3>4, <3>5, <3>6 DEF Still
  <2>10. c.kind \in {"velocity", "acceleration", "joint_velocity", "joint_acceleration",
                     "power", "kinetic_energy", "separation", "emergency_stop"}
    BY <2>1 DEF ConstraintObject
  <2>11. QED
    BY <2>2, <2>3, <2>4, <2>5, <2>6, <2>7, <2>8, <2>9, <2>10
<1>3. QED
  BY <1>1, <1>2

-----------------------------------------------------------------------------
(* Registries                                                               *)

\* The collections of items of V under names of N.
Collection(N, V) == UNION {[S -> V] : S \in SUBSET N}

LEMMA CollectionIs ==
  ASSUME NEW N, NEW V, NEW f
  PROVE  f \in Collection(N, V) <=> DOMAIN f \subseteq N /\ f \in [DOMAIN f -> V]
BY DEF Collection

LEMMA EmptyKept ==
  ASSUME NEW N, NEW V
  PROVE  EmptyCollection \in Collection(N, V)
BY CollectionIs DEF EmptyCollection

LEMMA AddKept ==
  ASSUME NEW N, NEW V, NEW items \in Collection(N, V), NEW name \in N, NEW item \in V, NEW force
  PROVE  Add(items, name, item, force) \in Collection(N, V)
<1> DEFINE g == [n \in DOMAIN items \union {name} |-> IF n = name THEN item ELSE items[n]]
<1>1. DOMAIN items \subseteq N /\ items \in [DOMAIN items -> V]
  BY CollectionIs
<1>2. DOMAIN g \subseteq N /\ g \in [DOMAIN g -> V]
  BY <1>1
<1>3. g \in Collection(N, V)
  <2> HIDE DEF g
  <2>1. QED
    BY <1>2, CollectionIs
<1>4. QED
  BY <1>3 DEF Add

LEMMA RestrictKept ==
  ASSUME NEW N, NEW V, NEW items \in Collection(N, V), NEW kept \in SUBSET DOMAIN items
  PROVE  Restrict(items, kept) \in Collection(N, V)
<1> DEFINE g == [n \in kept |-> items[n]]
<1>1. DOMAIN items \subseteq N /\ items \in [DOMAIN items -> V]
  BY CollectionIs
<1>2. DOMAIN g \subseteq N /\ g \in [DOMAIN g -> V]
  BY <1>1
<1>3. g \in Collection(N, V)
  <2> HIDE DEF g
  <2>1. QED
    BY <1>2, CollectionIs
<1>4. QED
  BY <1>3 DEF Restrict

LEMMA RemoveKept ==
  ASSUME NEW N, NEW V, NEW items \in Collection(N, V), NEW name
  PROVE  Remove(items, name) \in Collection(N, V)
BY RestrictKept DEF Remove

LEMMA RemoveAllKept ==
  ASSUME NEW N, NEW V, NEW items \in Collection(N, V), NEW o \in RemoveAllOutcomes(items)
  PROVE  o.items \in Collection(N, V) /\ o.result \in {"true", "crash"}
BY EmptyKept, RestrictKept DEF RemoveAllOutcomes

Entries  == [object : ConstraintObjects \union {Default}, last_value : Rat]
AllNames == ConstraintNames \union {DefaultName}

\* TypeOK, its registries as collections.
Types ==
    /\ setup \in Setups
    /\ constraints \in Collection(AllNames, Entries)
    /\ generators \in [GeneratorKinds -> Collection(GeneratorNames, BOOLEAN)]
    /\ robot \in Robot /\ IsFiniteSet(robot.objects)
    /\ previous \in Latches
    /\ mode \in Modes
    /\ result \in {"none", "true", "false", "domain_error", "crash", "computed"}
    /\ cycles \in 0 .. MaxCycles /\ operations \in 0 .. MaxOperations

LEMMA TypesIs == TypeOK <=> Types
<1>1. constraints \in Collection(AllNames, Entries)
        <=> DOMAIN constraints \subseteq AllNames /\ constraints \in [DOMAIN constraints -> Entries]
  BY CollectionIs
<1>2. QED
  BY <1>1 DEF TypeOK, Types, AllNames, Entries, Collection, Latches

-----------------------------------------------------------------------------
(* Types                                                                    *)

\* What the setup in use holds.
LEMMA SetupFacts ==
  ASSUME setup \in Setups
  PROVE  /\ MaxCycles \in Nat /\ MaxOperations \in Nat
         /\ IsFiniteSet(AllNames)
         /\ ConstraintObjects \subseteq ConstraintObject
         /\ Outputs["force"] \subseteq Int /\ Outputs["velocity"] \subseteq Int
         /\ Outputs["torque"] \subseteq [Joints -> Int]
         /\ Outputs["joint_velocity"] \subseteq [Joints -> Int]
         /\ Situations \subseteq Situation /\ \A x \in Situations : IsFiniteSet(x.objects)
         /\ Modes \subseteq Mode
<1>1. IsFiniteSet(setup.names)
  BY SetupsAssumption
<1>2. IsFiniteSet(setup.names \cup {DefaultName})
  BY <1>1, FS_AddElement
<1>3. QED
  BY <1>2, SetupsAssumption
     DEF MaxCycles, MaxOperations, AllNames, ConstraintNames, ConstraintObjects, Outputs,
         Situations, Modes

LEMMA InitTypes == Init => Types
<1> SUFFICES ASSUME Init
             PROVE  Types
  OBVIOUS
<1> USE DEF Init
<1>1. setup \in Setups /\ MaxCycles \in Nat /\ MaxOperations \in Nat
  BY SetupFacts
<1>2. constraints \in Collection(AllNames, Entries)
  <2>1. [object |-> Default, last_value |-> Zero] \in Entries /\ DefaultName \in AllNames
    BY ZeroOne DEF Entries, AllNames
  <2>2. QED
    BY <2>1, EmptyKept, AddKept
<1>3. generators \in [GeneratorKinds -> Collection(GeneratorNames, BOOLEAN)]
  BY EmptyKept
<1>4. robot \in Robot /\ IsFiniteSet(robot.objects)
  <2>1. Zero \in Rat /\ Zero \in Whole /\ Still \in [Joints -> Rat]
    BY ZeroOne DEF Still, Whole
  <2>2. IsFiniteSet({})
    BY FS_EmptySet
  <2>3. QED
    BY <2>1, <2>2 DEF Robot
<1>5. previous \in Latches
  BY DEF Latches
<1>6. mode \in Modes /\ result = "none" /\ cycles = 0 /\ operations = 0
  OBVIOUS
<1> HIDE DEF Init
<1>7. QED
  BY <1>1, <1>2, <1>3, <1>4, <1>5, <1>6 DEF Types

\* A sum of generator outputs over the names of a registry.
LEMMA OutputsFinite ==
  ASSUME Types, NEW k \in GeneratorKinds
  PROVE  IsFiniteSet(DOMAIN generators[k])
<1>1. DOMAIN generators[k] \subseteq GeneratorNames
  BY CollectionIs DEF Types
<1>2. QED
  BY <1>1, JointsAssumption, FS_Subset

LEMMA SumType ==
  ASSUME NEW f, IsFiniteSet(DOMAIN f), f \in [DOMAIN f -> Int]
  PROVE  Sum(f) \in Int
BY SumFacts

LEMMA JointSumType ==
  ASSUME NEW f, IsFiniteSet(DOMAIN f), f \in [DOMAIN f -> [Joints -> Int]]
  PROVE  JointSum(f) \in [Joints -> Int]
<1>1. ASSUME NEW i \in Joints
      PROVE  Sum([n \in DOMAIN f |-> f[n][i]]) \in Int
  <2> DEFINE g == [n \in DOMAIN f |-> f[n][i]]
  <2>1. DOMAIN g = DOMAIN f /\ g \in [DOMAIN g -> Int]
    OBVIOUS
  <2> HIDE DEF g
  <2>2. Sum(g) \in Int
    BY <2>1, SumType
  <2>3. QED
    BY <2>2 DEF g
<1>2. QED
  BY <1>1 DEF JointSum

LEMMA DotType ==
  ASSUME NEW row \in [Joints -> Int], NEW joint \in [Joints -> Rat]
  PROVE  Dot(row, joint) \in Rat
<1> DEFINE f == Terms(row, joint)
<1>1. \A i \in Joints : f[i] \in Rat
  <2>1. \A x, y \in Rat : RMul(x, y) \in Rat
    BY MulType
  <2>2. \A i \in Joints : R(row[i]) \in Rat
    BY RType
  <2>3. QED
    BY <2>1, <2>2 DEF Terms
<1>2. DOMAIN f = Joints
  BY DEF Terms
<1> HIDE DEF f
<1>3. RSum(f) \in Rat
  BY <1>1, <1>2, JointsAssumption, RSumFacts
<1>4. QED
  BY <1>3, DotIsOver DEF f

\* The robot has more than one joint.
LEMMA ManyJoints ==
  ASSUME NEW jacobian \in [Joints -> Int]
  PROVE  Len(jacobian) # 1
<1> DEFINE n == Cardinality(Joints)
<1>1. n \in Nat /\ n > 1 /\ Joints = 1 .. n
  BY JointsAssumption, FS_CardinalityType
<1> HIDE DEF n
<1>2. Len(jacobian) = n
  BY <1>1
<1>3. QED
  BY <1>1, <1>2

LEMMA DampingType ==
  ASSUME Types, NEW sigma2 \in Int
  PROVE  DampingTerm(sigma2) \in Rat
<1>1. mode \in Mode
  BY SetupFacts DEF Types
<1>2. mode.lambda2 \in Int /\ mode.sigma_min_threshold2 \in Int \ {0}
  BY <1>1 DEF Mode
<1>3. R(mode.lambda2) \in Rat /\ Frac(sigma2, mode.sigma_min_threshold2) \in Rat
  BY <1>2, RType, FracFacts DEF Is
<1>4. RSub(One, Frac(sigma2, mode.sigma_min_threshold2)) \in Rat
  BY <1>3, ZeroOne, SubType
<1>5. RMul(R(mode.lambda2), RSub(One, Frac(sigma2, mode.sigma_min_threshold2))) \in Rat
  BY <1>3, <1>4, MulType
<1>6. QED
  BY <1>3, <1>5, ZeroOne DEF DampingTerm

LEMMA SigmaType ==
  ASSUME NEW jacobian \in [Joints -> Int]
  PROVE  Sigma2(jacobian) \in Int
<1> DEFINE g == [i \in Joints |-> jacobian[i] * jacobian[i]]
<1>1. DOMAIN g = Joints /\ g \in [DOMAIN g -> Int]
  OBVIOUS
<1> HIDE DEF g
<1>2. Sum(g) \in Int
  BY <1>1, JointsAssumption, SumType
<1>3. QED
  BY <1>2 DEF Sigma2, g

LEMMA InverseType ==
  ASSUME Types, NEW jacobian \in [Joints -> Int]
  PROVE  ComputeJacobianInverse(jacobian) \in [Joints -> Rat]
<1> DEFINE sigma2 == Sigma2(jacobian)
           damped == IF mode.lambda2 > 0 THEN RAdd(R(sigma2), DampingTerm(sigma2)) ELSE R(sigma2)
           entry(i) == IF Len(jacobian) = 1 THEN RDiv(One, R(jacobian[1]))
                       ELSE IF damped = Zero THEN Zero
                       ELSE RDiv(R(jacobian[i]), damped)
<1>1. ComputeJacobianInverse(jacobian) = [i \in Joints |-> entry(i)]
  BY DEF ComputeJacobianInverse
<1>2. sigma2 \in Int
  BY SigmaType
<1> HIDE DEF sigma2
<1>3. damped \in Rat
  BY <1>2, RType, DampingType, AddType
<1>4. Len(jacobian) # 1
  BY ManyJoints
<1> HIDE DEF damped
<1>5. \A i \in Joints : R(jacobian[i]) \in Rat
  BY RType
<1>6. \A x, y \in Rat : y # Zero => RDiv(x, y) \in Rat
  BY DivType
<1>7. \A i \in Joints : entry(i) \in Rat
  BY <1>3, <1>4, <1>5, <1>6, ZeroOne
<1> HIDE DEF entry
<1>8. QED
  BY <1>1, <1>7

-----------------------------------------------------------------------------
(* One call of compute(), its local variables named                         *)

Chosen(k, f) == f \in [DOMAIN generators[k] -> Outputs[k]]

InverseUsed == IF mode.skip THEN robot.jacobianInverse ELSE ComputeJacobianInverse(robot.jacobian)
JointCmd(t, q) == [i \in Joints |-> RAdd(Frac(JointSum(t)[i], JointDamping), R(JointSum(q)[i]))]
CpCmd(f, v) == RAdd(Frac(Sum(f), CpDamping), R(Sum(v)))

LEMMA TotalsIs ==
  ASSUME NEW f, NEW t, NEW v, NEW q
  PROVE  TotalsWith(f, t, v, q) =
           [robot EXCEPT
              !.jacobianInverse = InverseUsed,
              !.jointTotal = [i \in Joints |->
                  RAdd(RMul(InverseUsed[i], RMul(R(robot.frame), CpCmd(f, v))), JointCmd(t, q)[i])],
              !.cpTotal = RAdd(CpCmd(f, v),
                               RMul(R(robot.frame), Dot(robot.jacobian, JointCmd(t, q))))]
BY DEF TotalsWith, InverseUsed, JointCmd, CpCmd

LEMMA CommandTypes ==
  ASSUME Types, NEW f, NEW t, NEW v, NEW q,
         Chosen("force", f), Chosen("torque", t), Chosen("velocity", v), Chosen("joint_velocity", q)
  PROVE  /\ InverseUsed \in [Joints -> Rat] /\ JointCmd(t, q) \in [Joints -> Rat] /\ CpCmd(f, v) \in Rat
<1>1. /\ IsFiniteSet(DOMAIN f) /\ IsFiniteSet(DOMAIN t)
      /\ IsFiniteSet(DOMAIN v) /\ IsFiniteSet(DOMAIN q)
  BY OutputsFinite DEF Chosen, GeneratorKinds
<1>2. /\ f \in [DOMAIN f -> Int] /\ v \in [DOMAIN v -> Int]
      /\ t \in [DOMAIN t -> [Joints -> Int]] /\ q \in [DOMAIN q -> [Joints -> Int]]
  BY SetupFacts DEF Chosen, Types
<1>3. Sum(f) \in Int /\ Sum(v) \in Int
  BY <1>1, <1>2, SumType
<1>4. JointSum(t) \in [Joints -> Int] /\ JointSum(q) \in [Joints -> Int]
  BY <1>1, <1>2, JointSumType
<1>5. CpDamping \in Int \ {0} /\ JointDamping \in Int \ {0}
  BY DampingAssumption
<1>6. \A n \in Int : R(n) \in Rat /\ Frac(n, CpDamping) \in Rat /\ Frac(n, JointDamping) \in Rat
  BY <1>5, RType, FracFacts DEF Is
<1>7. \A x, y \in Rat : RAdd(x, y) \in Rat
  BY AddType
<1>8. CpCmd(f, v) \in Rat
  BY <1>3, <1>6, <1>7 DEF CpCmd
<1>9. JointCmd(t, q) \in [Joints -> Rat]
  BY <1>4, <1>6, <1>7 DEF JointCmd
<1>10. InverseUsed \in [Joints -> Rat]
  BY InverseType DEF InverseUsed, Types, Robot
<1>11. QED
  BY <1>8, <1>9, <1>10

LEMMA TotalsTypes ==
  ASSUME Types, NEW f, NEW t, NEW v, NEW q,
         Chosen("force", f), Chosen("torque", t), Chosen("velocity", v), Chosen("joint_velocity", q)
  PROVE  LET rob == TotalsWith(f, t, v, q)
         IN  /\ rob \in Robot /\ IsFiniteSet(rob.objects)
             /\ rob.cpVel = robot.cpVel /\ rob.jointVel = robot.jointVel
<1> DEFINE jointTotal == [i \in Joints |->
               RAdd(RMul(InverseUsed[i], RMul(R(robot.frame), CpCmd(f, v))), JointCmd(t, q)[i])]
           cpTotal == RAdd(CpCmd(f, v), RMul(R(robot.frame), Dot(robot.jacobian, JointCmd(t, q))))
<1>1. /\ InverseUsed \in [Joints -> Rat] /\ JointCmd(t, q) \in [Joints -> Rat] /\ CpCmd(f, v) \in Rat
  BY CommandTypes
<1>2. R(robot.frame) \in Rat /\ robot.jacobian \in [Joints -> Int]
  BY RType DEF Types, Robot
<1>3. Dot(robot.jacobian, JointCmd(t, q)) \in Rat
  BY <1>1, <1>2, DotType
<1>4. \A x, y \in Rat : RAdd(x, y) \in Rat /\ RMul(x, y) \in Rat
  BY AddType, MulType
<1>5. jointTotal \in [Joints -> Rat] /\ cpTotal \in Rat
  BY <1>1, <1>2, <1>3, <1>4
<1>6. TotalsWith(f, t, v, q) = [robot EXCEPT !.jacobianInverse = InverseUsed,
                                             !.jointTotal = jointTotal, !.cpTotal = cpTotal]
  BY TotalsIs
<1> HIDE DEF jointTotal, cpTotal
<1>7. QED
  BY <1>1, <1>5, <1>6 DEF Types, Robot

Latched(rob) == [c \in EmergencyStops |-> IF \E n \in DOMAIN constraints : constraints[n].object = c
                                          THEN StopValue(c, rob) ELSE previous[c]]
Values(rob)  == [n \in DOMAIN constraints |->
                    ConstraintValue(constraints[n].object, rob, Latched(rob))]
Scaling(rob) == ScalingFactor({Values(rob)[n] : n \in DOMAIN Values(rob)})

\* compute() with the totals rob.
Computed(rob) ==
    /\ robot' = [rob EXCEPT !.scaling  = Scaling(rob),
                            !.jointVel = [i \in Joints |-> RMul(Scaling(rob), rob.jointTotal[i])],
                            !.cpVel    = RMul(Scaling(rob), rob.cpTotal)]
    /\ constraints' = [n \in DOMAIN constraints |->
                          [constraints[n] EXCEPT !.last_value = Values(rob)[n]]]
    /\ previous' = Latched(rob)

LEMMA ComputeIs ==
  ASSUME Compute
  PROVE  \E f, t, v, q :
            /\ Chosen("force", f) /\ Chosen("torque", t)
            /\ Chosen("velocity", v) /\ Chosen("joint_velocity", q)
            /\ Computed(TotalsWith(f, t, v, q))
<1>1. PICK f \in [DOMAIN generators["force"] -> Outputs["force"]],
           t \in [DOMAIN generators["torque"] -> Outputs["torque"]],
           v \in [DOMAIN generators["velocity"] -> Outputs["velocity"]],
           q \in [DOMAIN generators["joint_velocity"] -> Outputs["joint_velocity"]] :
              Computed(TotalsWith(f, t, v, q))
  BY Zenon DEF Compute, Computed, Scaling, Values, Latched
<1>2. QED
  BY <1>1, Zenon DEF Chosen

\* The latches and values of a cycle, and the factor: at most one and every value.
LEMMA FactorFacts ==
  ASSUME Types, NEW rob \in Robot, IsFiniteSet(rob.objects)
  PROVE  /\ Latched(rob) \in Latches
         /\ \A n \in DOMAIN constraints :
               /\ constraints[n].object \in ConstraintObjects \union {Default}
               /\ constraints[n].object.kind = "emergency_stop" =>
                     LET c == constraints[n].object
                     IN  Latched(rob)[c] = StopValue(c, rob) /\ previous[c] \in {0, 1}
               /\ Values(rob)[n] = ConstraintValue(constraints[n].object, rob, Latched(rob))
               /\ Values(rob)[n] \in NotNegative
               /\ RLeq(Scaling(rob), Values(rob)[n])
         /\ Scaling(rob) \in NotNegative /\ RLeq(Scaling(rob), One)
<1>1. \A n \in DOMAIN constraints : constraints[n].object \in ConstraintObjects \union {Default}
  <2>1. constraints \in [DOMAIN constraints -> Entries]
    BY CollectionIs DEF Types
  <2>2. QED
    BY <2>1 DEF Entries
<1>2. ConstraintObjects \subseteq ConstraintObject
  BY SetupFacts DEF Types
<1>3. \A c \in EmergencyStops : previous[c] \in {0, 1} /\ StopValue(c, rob) \in {0, 1}
  <2> SUFFICES ASSUME NEW c \in EmergencyStops
               PROVE  previous[c] \in {0, 1} /\ StopValue(c, rob) \in {0, 1}
    OBVIOUS
  <2>1. previous[c] \in {0, 1}
    BY DEF Types, Latches
  <2>2. c.deactivation \in Int
    BY <1>2 DEF EmergencyStops, ConstraintObject
  <2>3. QED
    BY <2>1, <2>2, StopFacts
<1>4. Latched(rob) \in Latches
  BY <1>3 DEF Latched, Latches
<1>5. ASSUME NEW n \in DOMAIN constraints, constraints[n].object.kind = "emergency_stop"
      PROVE  LET c == constraints[n].object
             IN  Latched(rob)[c] = StopValue(c, rob) /\ previous[c] \in {0, 1}
  <2>1. constraints[n].object \in EmergencyStops
    BY <1>1, <1>5 DEF EmergencyStops, Default
  <2>2. QED
    BY <1>3, <2>1 DEF Latched
<1>6. \A n \in DOMAIN constraints :
         /\ Values(rob)[n] = ConstraintValue(constraints[n].object, rob, Latched(rob))
         /\ Values(rob)[n] \in NotNegative
  BY <1>1, <1>2, <1>4, ValueFacts DEF Values
<1>7. DOMAIN Values(rob) = DOMAIN constraints /\ IsFiniteSet(DOMAIN constraints)
  <2>1. DOMAIN constraints \subseteq AllNames /\ IsFiniteSet(AllNames)
    BY SetupFacts, CollectionIs DEF Types
  <2>2. QED
    BY <2>1, FS_Subset DEF Values
<1>8. /\ Scaling(rob) \in NotNegative /\ RLeq(Scaling(rob), One)
      /\ \A n \in DOMAIN constraints : RLeq(Scaling(rob), Values(rob)[n])
  BY <1>6, <1>7, LeastFactor DEF Scaling, ScalingFactor
<1>9. QED
  BY <1>1, <1>4, <1>5, <1>6, <1>8

LEMMA ComputedTypes ==
  ASSUME Types, NEW rob \in Robot, IsFiniteSet(rob.objects), Computed(rob)
  PROVE  /\ robot' \in Robot /\ IsFiniteSet(robot'.objects)
         /\ constraints' \in Collection(AllNames, Entries) /\ previous' \in Latches
<1>1. previous' \in Latches
  BY FactorFacts DEF Computed
<1>2. Scaling(rob) \in Rat
  BY FactorFacts DEF NotNegative
<1>3. constraints' \in Collection(AllNames, Entries)
  <2>1. DOMAIN constraints \subseteq AllNames /\ constraints \in [DOMAIN constraints -> Entries]
    BY CollectionIs DEF Types
  <2>2. \A n \in DOMAIN constraints : Values(rob)[n] \in Rat
    BY FactorFacts DEF NotNegative
  <2> DEFINE g == [n \in DOMAIN constraints |->
                     [constraints[n] EXCEPT !.last_value = Values(rob)[n]]]
  <2>3. \A n \in DOMAIN constraints : g[n] \in Entries
    BY <2>1, <2>2 DEF Entries
  <2>4. DOMAIN g = DOMAIN constraints /\ g \in [DOMAIN g -> Entries]
    BY <2>3
  <2>5. constraints' = g
    BY DEF Computed
  <2> HIDE DEF g
  <2>6. QED
    BY <2>1, <2>4, <2>5, CollectionIs
<1>4. robot' \in Robot /\ robot'.objects = rob.objects
  <2>1. rob.cpTotal \in Rat /\ rob.jointTotal \in [Joints -> Rat]
    BY DEF Robot
  <2>2. \A x \in Rat : RMul(Scaling(rob), x) \in Rat
    BY <1>2, MulType
  <2> DEFINE jointVel == [i \in Joints |-> RMul(Scaling(rob), rob.jointTotal[i])]
             cpVel    == RMul(Scaling(rob), rob.cpTotal)
  <2>3. jointVel \in [Joints -> Rat] /\ cpVel \in Rat
    BY <2>1, <2>2
  <2>4. robot' = [rob EXCEPT !.scaling = Scaling(rob), !.jointVel = jointVel, !.cpVel = cpVel]
    BY DEF Computed
  <2> HIDE DEF jointVel, cpVel
  <2>5. QED
    BY <1>2, <2>3, <2>4 DEF Robot
<1>5. QED
  BY <1>1, <1>3, <1>4

LEMMA NextTypes == Types /\ [Next]_vars => Types'
<1> SUFFICES ASSUME Types, [Next]_vars
             PROVE  Types'
  OBVIOUS
<1>1. MaxCycles \in Nat /\ MaxOperations \in Nat /\ Modes \subseteq Mode
  BY SetupFacts DEF Types
<1> DEFINE Kept == /\ setup' = setup
                   /\ robot' = robot /\ previous' = previous /\ mode' = mode /\ cycles' = cycles
                   /\ operations' \in 0 .. MaxOperations
           Result == {"none", "true", "false", "domain_error", "crash", "computed"}
<1>2. CountOperation => Kept
  BY <1>1 DEF CountOperation, Types
<1>3. ASSUME setup' = setup
      PROVE  /\ MaxCycles' = MaxCycles /\ MaxOperations' = MaxOperations
             /\ AllNames' = AllNames /\ Entries' = Entries /\ Latches' = Latches /\ Modes' = Modes
  BY <1>3 DEF MaxCycles, MaxOperations, AllNames, ConstraintNames, Entries, ConstraintObjects,
              Latches, EmergencyStops, Modes
\* A change of the registries and nothing else.
<1>4. ASSUME Kept, constraints' \in Collection(AllNames, Entries),
             generators' \in [GeneratorKinds -> Collection(GeneratorNames, BOOLEAN)],
             result' \in Result
      PROVE  Types'
  BY <1>3, <1>4 DEF Types
<1> HIDE DEF Kept, Result
<1>5. /\ constraints \in Collection(AllNames, Entries)
      /\ generators \in [GeneratorKinds -> Collection(GeneratorNames, BOOLEAN)]
      /\ \A k \in GeneratorKinds : generators[k] \in Collection(GeneratorNames, BOOLEAN)
  BY DEF Types
<1>6. ASSUME NEW n \in ConstraintNames, NEW c \in ConstraintObjects, NEW force \in BOOLEAN,
             AddConstraint(n, c, force)
      PROVE  Types'
  <2>1. [object |-> c, last_value |-> Zero] \in Entries /\ n \in AllNames
    BY ZeroOne DEF Entries, AllNames
  <2>2. constraints' \in Collection(AllNames, Entries)
    BY <1>5, <1>6, <2>1, AddKept DEF AddConstraint
  <2>3. result' \in Result /\ generators' = generators
    BY <1>6 DEF AddConstraint, AddResult, Result
  <2>4. QED
    BY <1>2, <1>4, <1>5, <1>6, <2>2, <2>3 DEF AddConstraint
<1>7. ASSUME NEW n, RemoveConstraint(n)
      PROVE  Types'
  <2>1. constraints' \in Collection(AllNames, Entries)
    BY <1>5, <1>7, RemoveKept DEF RemoveConstraint
  <2>2. result' \in Result /\ generators' = generators
    BY <1>7 DEF RemoveConstraint, RemoveResult, Result
  <2>3. QED
    BY <1>2, <1>4, <1>5, <1>7, <2>1, <2>2 DEF RemoveConstraint
<1>8. ASSUME NEW k \in GeneratorKinds, NEW n \in GeneratorNames, NEW force \in BOOLEAN,
             AddGenerator(k, n, force)
      PROVE  Types'
  <2>1. Add(generators[k], n, FALSE, force) \in Collection(GeneratorNames, BOOLEAN)
    BY <1>5, AddKept
  <2>2. generators' \in [GeneratorKinds -> Collection(GeneratorNames, BOOLEAN)]
    BY <1>5, <1>8, <2>1 DEF AddGenerator
  <2>3. result' \in Result /\ constraints' = constraints
    BY <1>8 DEF AddGenerator, AddResult, Result
  <2>4. QED
    BY <1>2, <1>4, <1>5, <1>8, <2>2, <2>3 DEF AddGenerator
<1>9. ASSUME NEW k \in GeneratorKinds, NEW n \in GeneratorNames, RemoveGenerator(k, n)
      PROVE  Types'
  <2>1. Remove(generators[k], n) \in Collection(GeneratorNames, BOOLEAN)
    BY <1>5, RemoveKept
  <2>2. generators' \in [GeneratorKinds -> Collection(GeneratorNames, BOOLEAN)]
    BY <1>5, <1>9, <2>1 DEF RemoveGenerator
  <2>3. result' \in Result /\ constraints' = constraints
    BY <1>9 DEF RemoveGenerator, RemoveResult, Result
  <2>4. QED
    BY <1>2, <1>4, <1>5, <1>9, <2>2, <2>3 DEF RemoveGenerator
<1>10. ASSUME RemoveAllConstraints
       PROVE  Types'
  <2>1. PICK o \in RemoveAllOutcomes(constraints) : constraints' = o.items /\ result' = o.result
    BY <1>10 DEF RemoveAllConstraints
  <2>2. o.items \in Collection(AllNames, Entries) /\ o.result \in {"true", "crash"}
    BY <1>5, RemoveAllKept
  <2>3. generators' = generators /\ Kept
    BY <1>2, <1>10 DEF RemoveAllConstraints
  <2>4. result' \in Result
    BY <2>1, <2>2 DEF Result
  <2>5. QED
    BY <1>4, <1>5, <2>1, <2>2, <2>3, <2>4
<1>11. ASSUME NEW k \in GeneratorKinds, RemoveAllInputs(k)
       PROVE  Types'
  <2>1. PICK o \in RemoveAllOutcomes(generators[k]) :
           generators' = [generators EXCEPT ![k] = o.items] /\ result' = o.result
    BY <1>11 DEF RemoveAllInputs
  <2>2. o.items \in Collection(GeneratorNames, BOOLEAN) /\ o.result \in {"true", "crash"}
    BY <1>5, RemoveAllKept
  <2>3. generators' \in [GeneratorKinds -> Collection(GeneratorNames, BOOLEAN)]
    BY <1>5, <2>1, <2>2
  <2>4. constraints' = constraints /\ Kept
    BY <1>2, <1>11 DEF RemoveAllInputs
  <2>5. result' \in Result
    BY <2>1, <2>2 DEF Result
  <2>6. QED
    BY <1>4, <1>5, <2>3, <2>4, <2>5
<1>12. ASSUME RemoveAll
       PROVE  Types'
  <2> DEFINE G == { h \in [GeneratorKinds ->
                            UNION { RemoveAllOutcomes(generators[k]) : k \in GeneratorKinds }] :
                      \A k \in GeneratorKinds : h[k] \in RemoveAllOutcomes(generators[k]) }
  <2>1. PICK c \in RemoveAllOutcomes(constraints), g \in G :
           /\ constraints' = c.items
           /\ generators' = [k \in GeneratorKinds |-> g[k].items]
           /\ result' \in {"crash", "true"}
    BY <1>12 DEF RemoveAll
  <2>2. c.items \in Collection(AllNames, Entries)
    BY <1>5, RemoveAllKept
  <2>3. \A k \in GeneratorKinds : g[k].items \in Collection(GeneratorNames, BOOLEAN)
    BY <1>5, RemoveAllKept
  <2>4. generators' \in [GeneratorKinds -> Collection(GeneratorNames, BOOLEAN)]
    BY <2>1, <2>3
  <2>5. result' \in Result /\ Kept
    BY <1>2, <1>12, <2>1 DEF RemoveAll, Result
  <2>6. QED
    BY <1>4, <2>1, <2>2, <2>4, <2>5
<1>13. ASSUME NEW s \in Situations, UpdateRobotState(s)
       PROVE  Types'
  <2>1. s \in Situation /\ IsFiniteSet(s.objects)
    BY SetupFacts DEF Types
  <2>2. robot' \in Robot /\ robot'.objects = s.objects
    BY <1>13, <2>1 DEF UpdateRobotState, Types, Robot, Situation
  <2>3. QED
    BY <1>3, <1>13, <2>1, <2>2 DEF UpdateRobotState, Types
<1>14. ASSUME NEW m \in Modes, SetMode(m)
       PROVE  Types'
  BY <1>3, <1>14 DEF SetMode, Types
<1>15. ASSUME Compute
       PROVE  Types'
  <2>1. PICK f, t, v, q :
           /\ Chosen("force", f) /\ Chosen("torque", t)
           /\ Chosen("velocity", v) /\ Chosen("joint_velocity", q)
           /\ Computed(TotalsWith(f, t, v, q))
    BY <1>15, ComputeIs
  <2> DEFINE rob == TotalsWith(f, t, v, q)
  <2>2. rob \in Robot /\ IsFiniteSet(rob.objects) /\ Computed(rob)
    BY <2>1, TotalsTypes
  <2> HIDE DEF rob
  <2>3. /\ robot' \in Robot /\ IsFiniteSet(robot'.objects)
        /\ constraints' \in Collection(AllNames, Entries) /\ previous' \in Latches
    BY <2>2, ComputedTypes
  <2>4. generators' \in [GeneratorKinds -> Collection(GeneratorNames, BOOLEAN)]
    <3>1. \A k \in GeneratorKinds :
             [n \in DOMAIN generators[k] |-> TRUE] \in Collection(GeneratorNames, BOOLEAN)
      <4> SUFFICES ASSUME NEW k \in GeneratorKinds
                   PROVE  [n \in DOMAIN generators[k] |-> TRUE]
                             \in Collection(GeneratorNames, BOOLEAN)
        OBVIOUS
      <4>1. DOMAIN generators[k] \subseteq GeneratorNames
        BY <1>5, CollectionIs
      <4>2. QED
        BY <4>1 DEF Collection
    <3>2. generators' = [k \in GeneratorKinds |-> [n \in DOMAIN generators[k] |-> TRUE]]
      BY <1>15 DEF Compute
    <3>3. QED
      BY <3>1, <3>2
  <2>5. /\ setup' = setup /\ mode' = mode /\ operations' = operations /\ result' = "computed"
        /\ cycles < MaxCycles /\ cycles' = cycles + 1
    BY <1>15 DEF Compute
  <2>6. cycles' \in 0 .. MaxCycles
    BY <1>1, <2>5 DEF Types
  <2>7. QED
    BY <1>3, <2>3, <2>4, <2>5, <2>6 DEF Types
<1>16. ASSUME UNCHANGED vars
       PROVE  Types'
  BY <1>3, <1>16 DEF vars, Types
<1>17. QED
  BY <1>6, <1>7, <1>8, <1>9, <1>10, <1>11, <1>12, <1>13, <1>14, <1>15, <1>16 DEF Next

\* Registries only ever hold the application's objects and the default under names in
\* use, and every quantity compute() derives from them is a number: with limits that
\* can be kept and more joints than axes, nothing is divided by zero.
THEOREM TypeCorrect == Spec => []TypeOK
<1>1. Spec => []Types
  BY InitTypes, NextTypes, PTL DEF Spec
<1>2. QED
  BY <1>1, TypesIs, PTL

-----------------------------------------------------------------------------
(* Sums are linear                                                          *)

LEMMA SumOfSums ==
  ASSUME NEW S, IsFiniteSet(S), NEW f \in [S -> Rat], NEW g \in [S -> Rat], NEW h \in [S -> Rat],
         \A i \in S : h[i] = RAdd(f[i], g[i])
  PROVE  RSum(h) = RAdd(RSum(f), RSum(g))
<1> DEFINE F == RSumOver(f)
           G == RSumOver(g)
           H == RSumOver(h)
           T == {s \in SUBSET S : H[s] = RAdd(F[s], G[s])}
<1>1. DOMAIN f = S /\ DOMAIN g = S /\ DOMAIN h = S
  OBVIOUS
<1>2. /\ F[{}] = Zero
      /\ \A s \in SUBSET S : /\ F[s] \in Rat
                             /\ s # {} => F[s] = RAdd(f[Pick(s)], F[s \ {Pick(s)}])
  BY <1>1, RSumFacts
<1>3. /\ G[{}] = Zero
      /\ \A s \in SUBSET S : /\ G[s] \in Rat
                             /\ s # {} => G[s] = RAdd(g[Pick(s)], G[s \ {Pick(s)}])
  BY <1>1, RSumFacts
<1>4. /\ H[{}] = Zero
      /\ \A s \in SUBSET S : /\ H[s] \in Rat
                             /\ s # {} => H[s] = RAdd(h[Pick(s)], H[s \ {Pick(s)}])
  BY <1>1, RSumFacts
<1>5. RSum(f) = F[S] /\ RSum(g) = G[S] /\ RSum(h) = H[S]
  BY <1>1 DEF RSum
<1> HIDE DEF F, G, H
<1>6. {} \in T
  BY <1>2, <1>3, <1>4, Neutral, ZeroOne
<1>7. ASSUME NEW s \in SUBSET S, s # {}, s \ {Pick(s)} \in T
      PROVE  s \in T
  <2> DEFINE p == Pick(s)
             r == s \ {p}
             a == f[p]
             b == g[p]
             A == F[r]
             B == G[r]
  <2>1. p \in S /\ r \in SUBSET S
    BY <1>7 DEF Pick
  <2>2. a \in Rat /\ b \in Rat /\ A \in Rat /\ B \in Rat /\ h[p] = RAdd(a, b)
    BY <1>2, <1>3, <2>1
  <2>3. F[s] = RAdd(a, A) /\ G[s] = RAdd(b, B) /\ H[s] = RAdd(RAdd(a, b), RAdd(A, B))
    BY <1>2, <1>3, <1>4, <1>7, <2>2
  <2> HIDE DEF p, r, a, b, A, B
  <2>4. RAdd(RAdd(a, b), RAdd(A, B)) = RAdd(RAdd(a, A), RAdd(b, B))
    <3>1. \A x, y \in Rat : RAdd(x, y) \in Rat /\ RAdd(x, y) = RAdd(y, x)
      BY AddType, AddComm
    <3>2. RAdd(RAdd(a, b), RAdd(A, B)) = RAdd(a, RAdd(b, RAdd(A, B)))
      BY <2>2, <3>1, AddAssoc
    <3>3. RAdd(b, RAdd(A, B)) = RAdd(RAdd(b, A), B)
      BY <2>2, AddAssoc
    <3>4. RAdd(RAdd(A, b), B) = RAdd(A, RAdd(b, B))
      BY <2>2, AddAssoc
    <3>5. RAdd(RAdd(a, A), RAdd(b, B)) = RAdd(a, RAdd(A, RAdd(b, B)))
      BY <2>2, <3>1, AddAssoc
    <3>6. QED
      BY <2>2, <3>1, <3>2, <3>3, <3>4, <3>5
  <2>5. QED
    BY <1>7, <2>3, <2>4
<1> HIDE DEF T
<1>8. SUBSET S \subseteq T
  BY <1>6, <1>7, SubsetInduction
<1>9. S \in T
  BY <1>8
<1>10. QED
  BY <1>5, <1>9 DEF T

LEMMA SumOfMultiples ==
  ASSUME NEW S, IsFiniteSet(S), NEW f \in [S -> Rat], NEW g \in [S -> Rat], NEW k \in Rat,
         \A i \in S : g[i] = RMul(k, f[i])
  PROVE  RSum(g) = RMul(k, RSum(f))
<1> DEFINE F == RSumOver(f)
           G == RSumOver(g)
           T == {s \in SUBSET S : G[s] = RMul(k, F[s])}
<1>1. DOMAIN f = S /\ DOMAIN g = S
  OBVIOUS
<1>2. /\ F[{}] = Zero
      /\ \A s \in SUBSET S : /\ F[s] \in Rat
                             /\ s # {} => F[s] = RAdd(f[Pick(s)], F[s \ {Pick(s)}])
  BY <1>1, RSumFacts
<1>3. /\ G[{}] = Zero
      /\ \A s \in SUBSET S : /\ G[s] \in Rat
                             /\ s # {} => G[s] = RAdd(g[Pick(s)], G[s \ {Pick(s)}])
  BY <1>1, RSumFacts
<1>4. RSum(f) = F[S] /\ RSum(g) = G[S]
  BY <1>1 DEF RSum
<1> HIDE DEF F, G
<1>5. {} \in T
  BY <1>2, <1>3, Neutral
<1>6. ASSUME NEW s \in SUBSET S, s # {}, s \ {Pick(s)} \in T
      PROVE  s \in T
  <2> DEFINE p == Pick(s)
             r == s \ {p}
             a == f[p]
             A == F[r]
  <2>1. p \in S /\ r \in SUBSET S
    BY <1>6 DEF Pick
  <2>2. a \in Rat /\ A \in Rat /\ g[p] = RMul(k, a)
    BY <1>2, <2>1
  <2>3. F[s] = RAdd(a, A) /\ G[s] = RAdd(RMul(k, a), RMul(k, A))
    BY <1>2, <1>3, <1>6, <2>2
  <2> HIDE DEF p, r, a, A
  <2>4. RMul(k, RAdd(a, A)) = RAdd(RMul(k, a), RMul(k, A))
    BY <2>2, Distributes
  <2>5. QED
    BY <1>6, <2>3, <2>4
<1> HIDE DEF T
<1>7. SUBSET S \subseteq T
  BY <1>5, <1>6, SubsetInduction
<1>8. S \in T
  BY <1>7
<1>9. QED
  BY <1>4, <1>8 DEF T

LEMMA SumOfWholes ==
  ASSUME NEW S, IsFiniteSet(S), NEW f \in [S -> Int], NEW g \in [S -> Rat],
         \A i \in S : g[i] = R(f[i])
  PROVE  RSum(g) = R(Sum(f))
<1> DEFINE F == SumOver(f)
           G == RSumOver(g)
           T == {s \in SUBSET S : G[s] = R(F[s])}
<1>1. DOMAIN f = S /\ DOMAIN g = S
  OBVIOUS
<1>2. /\ F[{}] = 0
      /\ \A s \in SUBSET S : /\ F[s] \in Int
                             /\ s # {} => F[s] = f[Pick(s)] + F[s \ {Pick(s)}]
  BY <1>1, SumFacts
<1>3. /\ G[{}] = Zero
      /\ \A s \in SUBSET S : /\ G[s] \in Rat
                             /\ s # {} => G[s] = RAdd(g[Pick(s)], G[s \ {Pick(s)}])
  BY <1>1, RSumFacts
<1>4. Sum(f) = F[S] /\ RSum(g) = G[S]
  BY <1>1, SumIsOver DEF RSum
<1> HIDE DEF F, G
<1>5. {} \in T
  BY <1>2, <1>3 DEF Zero
<1>6. ASSUME NEW s \in SUBSET S, s # {}, s \ {Pick(s)} \in T
      PROVE  s \in T
  <2> DEFINE p == Pick(s)
             r == s \ {p}
  <2>1. p \in S /\ r \in SUBSET S
    BY <1>6 DEF Pick
  <2>2. f[p] \in Int /\ F[r] \in Int /\ g[p] = R(f[p])
    BY <1>2, <2>1
  <2>3. F[s] = f[p] + F[r] /\ G[s] = RAdd(R(f[p]), R(F[r]))
    BY <1>2, <1>3, <1>6, <2>2
  <2> HIDE DEF p, r
  <2>4. RAdd(R(f[p]), R(F[r])) = R(f[p] + F[r])
    BY <2>2, IntMul
  <2>5. QED
    BY <1>6, <2>3, <2>4
<1> HIDE DEF T
<1>7. SUBSET S \subseteq T
  BY <1>5, <1>6, SubsetInduction
<1>8. S \in T
  BY <1>7
<1>9. QED
  BY <1>4, <1>8 DEF T

LEMMA SumPositive ==
  ASSUME NEW S, IsFiniteSet(S), NEW f \in [S -> Nat], NEW i \in S, f[i] # 0
  PROVE  Sum(f) # 0
<1> DEFINE F == SumOver(f)
           T == {s \in SUBSET S : F[s] >= 0 /\ (i \in s => F[s] > 0)}
<1>1. DOMAIN f = S /\ \A j \in DOMAIN f : f[j] \in Int
  OBVIOUS
<1>2. /\ F[{}] = 0
      /\ \A s \in SUBSET S : /\ F[s] \in Int
                             /\ s # {} => F[s] = f[Pick(s)] + F[s \ {Pick(s)}]
  BY <1>1, SumFacts
<1>3. Sum(f) = F[S]
  BY <1>1, SumIsOver
<1> HIDE DEF F
<1>4. {} \in T
  BY <1>2
<1>5. ASSUME NEW s \in SUBSET S, s # {}, s \ {Pick(s)} \in T
      PROVE  s \in T
  <2> DEFINE p == Pick(s)
             r == s \ {p}
  <2>1. p \in S /\ r \in SUBSET S
    BY <1>5 DEF Pick
  <2>2. f[p] \in Nat /\ F[r] \in Int /\ F[s] \in Int /\ F[s] = f[p] + F[r]
    BY <1>2, <1>5, <2>1
  <2>3. F[r] >= 0 /\ (i \in r => F[r] > 0)
    BY <1>5
  <2>4. i \in s => i = p \/ i \in r
    OBVIOUS
  <2> HIDE DEF p, r
  <2>5. QED
    BY <2>2, <2>3, <2>4
<1> HIDE DEF T
<1>6. SUBSET S \subseteq T
  BY <1>4, <1>5, SubsetInduction
<1>7. S \in T
  BY <1>6
<1>8. QED
  BY <1>2, <1>3, <1>7 DEF T

-----------------------------------------------------------------------------
(* The Jacobian maps joint motions linearly, and its plain inverse inverts it *)

LEMMA TermsType ==
  ASSUME NEW row \in [Joints -> Int], NEW x \in [Joints -> Rat]
  PROVE  Terms(row, x) \in [Joints -> Rat] /\ \A i \in Joints : R(row[i]) \in Rat
<1>1. \A y, z \in Rat : RMul(y, z) \in Rat
  BY MulType
<1>2. \A i \in Joints : R(row[i]) \in Rat
  BY RType
<1>3. QED
  BY <1>1, <1>2 DEF Terms

LEMMA DotOfSum ==
  ASSUME NEW row \in [Joints -> Int], NEW x \in [Joints -> Rat], NEW y \in [Joints -> Rat],
         NEW z \in [Joints -> Rat], \A i \in Joints : z[i] = RAdd(x[i], y[i])
  PROVE  Dot(row, z) = RAdd(Dot(row, x), Dot(row, y))
<1> DEFINE f == Terms(row, x)
           g == Terms(row, y)
           h == Terms(row, z)
<1>1. f \in [Joints -> Rat] /\ g \in [Joints -> Rat] /\ h \in [Joints -> Rat]
  BY TermsType
<1>2. \A i \in Joints : R(row[i]) \in Rat
  BY TermsType
<1>3. \A a, b, c \in Rat : RMul(a, RAdd(b, c)) = RAdd(RMul(a, b), RMul(a, c))
  BY Distributes
<1>4. \A i \in Joints : h[i] = RAdd(f[i], g[i])
  BY <1>2, <1>3 DEF Terms
<1> HIDE DEF f, g, h
<1>5. RSum(h) = RAdd(RSum(f), RSum(g))
  <2>1. IsFiniteSet(Joints)
    BY JointsAssumption
  <2>2. \A a, b, c \in [Joints -> Rat] :
           (\A i \in Joints : c[i] = RAdd(a[i], b[i])) => RSum(c) = RAdd(RSum(a), RSum(b))
    BY <2>1, SumOfSums
  <2>3. QED
    BY <1>1, <1>4, <2>2
<1>6. QED
  BY <1>5, DotIsOver DEF f, g, h

LEMMA DotOfMultiple ==
  ASSUME NEW row \in [Joints -> Int], NEW x \in [Joints -> Rat], NEW y \in [Joints -> Rat],
         NEW k \in Rat, \A i \in Joints : y[i] = RMul(k, x[i])
  PROVE  Dot(row, y) = RMul(k, Dot(row, x))
<1> DEFINE f == Terms(row, x)
           g == Terms(row, y)
<1>1. f \in [Joints -> Rat] /\ g \in [Joints -> Rat]
  BY TermsType
<1>2. \A i \in Joints : R(row[i]) \in Rat
  BY TermsType
<1>3. \A a, b \in Rat : RMul(a, RMul(k, b)) = RMul(k, RMul(a, b))
  <2> SUFFICES ASSUME NEW a \in Rat, NEW b \in Rat
               PROVE  RMul(a, RMul(k, b)) = RMul(k, RMul(a, b))
    OBVIOUS
  <2>1. RMul(RMul(a, k), b) = RMul(a, RMul(k, b)) /\ RMul(RMul(k, a), b) = RMul(k, RMul(a, b))
    BY MulAssoc
  <2>2. RMul(a, k) = RMul(k, a)
    BY MulComm
  <2>3. QED
    BY <2>1, <2>2
<1>4. \A i \in Joints : g[i] = RMul(k, f[i])
  BY <1>2, <1>3 DEF Terms
<1> HIDE DEF f, g
<1>5. RSum(g) = RMul(k, RSum(f))
  <2>1. IsFiniteSet(Joints)
    BY JointsAssumption
  <2>2. \A a, b \in [Joints -> Rat] :
           (\A i \in Joints : b[i] = RMul(k, a[i])) => RSum(b) = RMul(k, RSum(a))
    BY <2>1, SumOfMultiples
  <2>3. QED
    BY <1>1, <1>4, <2>2
<1>6. QED
  BY <1>5, DotIsOver DEF f, g

LEMMA DotOfItself ==
  ASSUME NEW row \in [Joints -> Int], NEW x \in [Joints -> Rat], \A i \in Joints : x[i] = R(row[i])
  PROVE  Dot(row, x) = R(Sigma2(row))
<1> DEFINE f == [i \in Joints |-> row[i] * row[i]]
           g == Terms(row, x)
<1>1. f \in [Joints -> Int] /\ g \in [Joints -> Rat]
  BY TermsType
<1>2. \A a, b \in Int : RMul(R(a), R(b)) = R(a * b)
  BY IntMul
<1>3. \A i \in Joints : g[i] = R(f[i])
  BY <1>2 DEF Terms
<1>4. Sum(f) = Sigma2(row)
  BY DEF Sigma2
<1> HIDE DEF f, g
<1>5. RSum(g) = R(Sum(f))
  BY <1>1, <1>3, SumOfWholes, JointsAssumption
<1>6. QED
  BY <1>4, <1>5, DotIsOver DEF g

LEMMA SigmaPositive ==
  ASSUME NEW row \in [Joints -> Int], NEW i \in Joints, row[i] # 0
  PROVE  Sigma2(row) \in Int \ {0}
<1> DEFINE f == [j \in Joints |-> row[j] * row[j]]
<1>1. \A a \in Int : a * a \in Nat /\ (a # 0 => a * a # 0)
  OBVIOUS
<1>2. f \in [Joints -> Nat] /\ f[i] # 0
  BY <1>1
<1>3. Sum(f) = Sigma2(row)
  BY DEF Sigma2
<1> HIDE DEF f
<1>4. Sum(f) # 0
  BY <1>2, SumPositive, JointsAssumption
<1>5. QED
  BY <1>3, <1>4, SigmaType

LEMMA FactorOne ==
  ASSUME NEW d \in Rat, NEW x \in Rat, d # Zero, RMul(d, x) = d
  PROVE  x = One
<1>1. /\ d[1] \in Int \ {0} /\ d[2] \in Int \ {0} /\ x[1] \in Int /\ x[2] \in Int
  BY RatType, IsZero
<1>2. d[1] * (d[2] * x[2]) = (d[1] * x[1]) * d[2]
  BY MulType DEF Is
<1>3. x[2] * (d[1] * d[2]) = x[1] * (d[1] * d[2])
  BY <1>1, <1>2
<1>4. d[1] * d[2] \in Int \ {0}
  BY <1>1, NonZero
<1>5. x[2] = x[1]
  <2> DEFINE c == d[1] * d[2]
  <2>1. x[2] * c = x[1] * c /\ c \in Int \ {0}
    BY <1>3, <1>4
  <2> HIDE DEF c
  <2>2. QED
    BY <1>1, <2>1, Cancel
<1>6. x[1] * One[2] = One[1] * x[2]
  BY <1>1, <1>5, ZeroOne
<1>7. QED
  BY <1>6, SameValue, ZeroOne

\* The undamped inverse of a Jacobian that is not zero undoes it.
LEMMA InverseInverts ==
  ASSUME Types, NEW row \in [Joints -> Int], Undamped(row), NEW j \in Joints, row[j] # 0
  PROVE  Dot(row, ComputeJacobianInverse(row)) = One
<1> DEFINE d   == R(Sigma2(row))
           inv == ComputeJacobianInverse(row)
           own == [i \in Joints |-> R(row[i])]
<1>1. d \in Rat /\ d # Zero
  <2>1. Sigma2(row) \in Int \ {0}
    BY SigmaPositive
  <2>2. QED
    BY <2>1, RType DEF R, Zero
<1>2. (IF mode.lambda2 > 0 THEN RAdd(d, DampingTerm(Sigma2(row))) ELSE d) = d
  <2>1. mode.lambda2 \in Int
    BY SetupFacts DEF Types, Mode
  <2>2. CASE mode.lambda2 <= 0
    BY <2>1, <2>2
  <2>3. CASE mode.dynamic_dls /\ Sigma2(row) > mode.sigma_min_threshold2
    <3>1. DampingTerm(Sigma2(row)) = Zero
      BY <2>3 DEF DampingTerm
    <3>2. RAdd(d, Zero) = d
      BY <1>1, Neutral
    <3>3. QED
      BY <3>1, <3>2
  <2>4. QED
    BY <2>2, <2>3 DEF Undamped
<1>3. inv = [i \in Joints |-> IF Len(row) = 1 THEN RDiv(One, R(row[1]))
                              ELSE IF d = Zero THEN Zero ELSE RDiv(R(row[i]), d)]
  BY <1>2 DEF ComputeJacobianInverse
<1>4. inv \in [Joints -> Rat]
  BY InverseType
<1>5. own \in [Joints -> Rat] /\ \A i \in Joints : own[i] = R(row[i])
  BY RType
<1> HIDE DEF d, inv
<1>6. \A i \in Joints : own[i] = RMul(d, inv[i])
  <2> SUFFICES ASSUME NEW i \in Joints
               PROVE  own[i] = RMul(d, inv[i])
    OBVIOUS
  <2>1. inv[i] = RDiv(R(row[i]), d)
    BY <1>1, <1>3, ManyJoints
  <2>2. RMul(inv[i], d) = R(row[i])
    BY <1>1, <1>5, <2>1, DivMul
  <2>3. QED
    BY <1>1, <1>4, <2>2, MulComm
<1> HIDE DEF own
<1>7. Dot(row, own) = RMul(d, Dot(row, inv))
  BY <1>1, <1>4, <1>5, <1>6, DotOfMultiple
<1>8. Dot(row, own) = d
  BY <1>5, DotOfItself DEF d
<1>9. Dot(row, inv) \in Rat
  BY <1>4, DotType
<1>10. Dot(row, inv) = One
  BY <1>1, <1>7, <1>8, <1>9, FactorOne
<1>11. QED
  BY <1>10 DEF inv

-----------------------------------------------------------------------------
(* What every call of compute() keeps                                       *)

\* A step in which the number of calls changes is a call.
LEMMA OnlyComputeComputes ==
  ASSUME Next, ComputeStep
  PROVE  Compute
BY Zenon DEF Next, ComputeStep, CountOperation, AddConstraint, RemoveConstraint, AddGenerator,
             RemoveGenerator, RemoveAllConstraints, RemoveAllInputs, RemoveAll,
             UpdateRobotState, SetMode

\* A call of compute() with the totals rob, and the motion it commands.
Commanded(rob) ==
    /\ rob \in Robot /\ IsFiniteSet(rob.objects) /\ Computed(rob)
    /\ robot'.scaling = Scaling(rob)
    /\ robot'.jointVel = [i \in Joints |-> RMul(Scaling(rob), rob.jointTotal[i])]
    /\ robot'.cpVel = RMul(Scaling(rob), rob.cpTotal)
    /\ robot'.jointTotal = rob.jointTotal /\ robot'.cpTotal = rob.cpTotal
    /\ robot'.extForce = rob.extForce /\ robot'.objects = rob.objects
    /\ robot'.frame = rob.frame /\ robot'.jacobian = rob.jacobian
    /\ rob.cpVel = robot.cpVel /\ rob.jointVel = robot.jointVel

LEMMA StepFacts ==
  ASSUME Types, [Next]_vars, ComputeStep
  PROVE  \E f, t, v, q : /\ Chosen("force", f) /\ Chosen("torque", t)
                         /\ Chosen("velocity", v) /\ Chosen("joint_velocity", q)
                         /\ Commanded(TotalsWith(f, t, v, q))
<1>1. Compute
  <2>1. CASE Next
    BY <2>1, OnlyComputeComputes
  <2>2. CASE UNCHANGED vars
    BY <2>2 DEF vars, ComputeStep
  <2>3. QED
    BY <2>1, <2>2
<1>2. PICK f, t, v, q :
         /\ Chosen("force", f) /\ Chosen("torque", t)
         /\ Chosen("velocity", v) /\ Chosen("joint_velocity", q)
         /\ Computed(TotalsWith(f, t, v, q))
  BY <1>1, ComputeIs
<1> DEFINE rob == TotalsWith(f, t, v, q)
<1>3. /\ rob \in Robot /\ IsFiniteSet(rob.objects) /\ Computed(rob)
      /\ rob.cpVel = robot.cpVel /\ rob.jointVel = robot.jointVel
  BY <1>2, TotalsTypes
<1>4. /\ robot'.scaling = Scaling(rob)
      /\ robot'.jointVel = [i \in Joints |-> RMul(Scaling(rob), rob.jointTotal[i])]
      /\ robot'.cpVel = RMul(Scaling(rob), rob.cpTotal)
      /\ robot'.jointTotal = rob.jointTotal /\ robot'.cpTotal = rob.cpTotal
      /\ robot'.extForce = rob.extForce /\ robot'.objects = rob.objects
      /\ robot'.frame = rob.frame /\ robot'.jacobian = rob.jacobian
  <2> HIDE DEF rob
  <2>1. QED
    BY <1>3 DEF Computed, Robot
<1>5. Commanded(rob)
  <2> HIDE DEF rob
  <2>1. QED
    BY <1>3, <1>4 DEF Commanded
<1>6. QED
  BY <1>2, <1>5

\* compute() multiplies the motion it was asked for, at the joints and at the control
\* point, by one factor between zero and one, whatever constraints are registered.
THEOREM SlowsDown == Spec => OnlySlowsDown
<1>1. ASSUME Types, [Next]_vars, ComputeStep
      PROVE  /\ RLeq(Zero, robot'.scaling) /\ RLeq(robot'.scaling, One)
             /\ \A i \in Joints : robot'.jointVel[i] = RMul(robot'.scaling, robot'.jointTotal[i])
             /\ robot'.cpVel = RMul(robot'.scaling, robot'.cpTotal)
  <2>1. PICK f, t, v, q : /\ Chosen("force", f) /\ Chosen("torque", t)
                          /\ Chosen("velocity", v) /\ Chosen("joint_velocity", q)
                          /\ Commanded(TotalsWith(f, t, v, q))
    BY <1>1, StepFacts
  <2> DEFINE rob == TotalsWith(f, t, v, q)
  <2>2. Scaling(rob) \in NotNegative /\ RLeq(Scaling(rob), One)
    BY <1>1, <2>1, FactorFacts DEF Commanded
  <2> HIDE DEF rob
  <2>3. QED
    BY <2>1, <2>2 DEF NotNegative, Commanded, rob
<1>2. QED
  BY <1>1, InitTypes, NextTypes, PTL DEF Spec, OnlySlowsDown

\* The motion a call of compute() commands, published for the control point and sent
\* to the joints, keeps the promise of every constraint registered, all at once.
THEOREM PromisesKept == Spec => EveryPromiseKept
<1>1. ASSUME Types, [Next]_vars, ComputeStep
      PROVE  \A n \in DOMAIN constraints :
                Promise(constraints[n].object, robot, robot', robot'.cpVel)
  <2>1. PICK f, t, v, q : /\ Chosen("force", f) /\ Chosen("torque", t)
                          /\ Chosen("velocity", v) /\ Chosen("joint_velocity", q)
                          /\ Commanded(TotalsWith(f, t, v, q))
    BY <1>1, StepFacts
  <2> DEFINE rob == TotalsWith(f, t, v, q)
             s   == Scaling(rob)
  <2>2. /\ Latched(rob) \in Latches /\ s \in NotNegative /\ RLeq(s, One)
        /\ \A n \in DOMAIN constraints :
              /\ constraints[n].object \in ConstraintObjects \union {Default}
              /\ constraints[n].object.kind = "emergency_stop" =>
                    LET c == constraints[n].object
                    IN  Latched(rob)[c] = StopValue(c, rob) /\ previous[c] \in {0, 1}
              /\ RLeq(s, ConstraintValue(constraints[n].object, rob, Latched(rob)))
    BY <1>1, <2>1, FactorFacts DEF Commanded
  <2>3. ConstraintObjects \subseteq ConstraintObject
    BY <1>1, SetupFacts DEF Types
  <2>4. /\ rob \in Robot /\ IsFiniteSet(rob.objects)
        /\ robot'.jointVel = [i \in Joints |-> RMul(s, rob.jointTotal[i])]
        /\ robot'.cpVel = RMul(s, rob.cpTotal)
        /\ robot'.extForce = rob.extForce /\ robot'.objects = rob.objects
        /\ robot.cpVel = rob.cpVel /\ robot.jointVel = rob.jointVel
    BY <2>1 DEF Commanded
  <2> HIDE DEF rob, s
  <2> SUFFICES ASSUME NEW n \in DOMAIN constraints
               PROVE  Promise(constraints[n].object, robot, robot', robot'.cpVel)
    OBVIOUS
  <2> DEFINE c == constraints[n].object
             latch == Latched(rob)
             after == robot'
  <2>5. /\ c \in ConstraintObjects \union {Default} /\ latch \in Latches
        /\ c.kind = "emergency_stop" => latch[c] = StopValue(c, rob) /\ previous[c] \in {0, 1}
        /\ RLeq(s, ConstraintValue(c, rob, latch))
    BY <2>2
  <2>6. /\ after.jointVel = [i \in Joints |-> RMul(s, rob.jointTotal[i])]
        /\ after.cpVel = RMul(s, rob.cpTotal)
        /\ after.extForce = rob.extForce /\ after.objects = rob.objects
    BY <2>4
  <2> HIDE DEF c, latch, after
  <2>7. Promise(c, robot, after, after.cpVel)
    BY <2>2, <2>3, <2>4, <2>5, <2>6, PromiseKept
  <2>8. QED
    BY <2>7 DEF c, after
<1>2. QED
  BY <1>1, InitTypes, NextTypes, PTL DEF Spec, EveryPromiseKept

\* With an undamped inverse of a Jacobian that is not zero, the joint motion commanded
\* moves the control point at the velocity published for it: the velocity the
\* constraints were computed from is the one the robot executes.
THEOREM PublishedIsExecuted == Spec => PublishedVelocityIsExecuted
<1>1. ASSUME Types, [Next]_vars, ComputeStep, PlainInverse, NEW j \in Joints, robot.jacobian[j] # 0
      PROVE  robot'.cpVel = Executed(robot')
  <2>1. PICK f, t, v, q : /\ Chosen("force", f) /\ Chosen("torque", t)
                          /\ Chosen("velocity", v) /\ Chosen("joint_velocity", q)
                          /\ Commanded(TotalsWith(f, t, v, q))
    BY <1>1, StepFacts
  <2> DEFINE rob == TotalsWith(f, t, v, q)
             s   == Scaling(rob)
             J   == robot.jacobian
             F   == R(robot.frame)
             cp  == CpCmd(f, v)
             jc  == JointCmd(t, q)
             z   == RMul(F, cp)
             inv == InverseUsed
             u   == [i \in Joints |-> RMul(inv[i], z)]
             tot == [i \in Joints |-> RAdd(RMul(inv[i], z), jc[i])]
             vel == [i \in Joints |-> RMul(s, tot[i])]
  <2>2. s \in Rat
    BY <1>1, <2>1, FactorFacts DEF NotNegative, Commanded
  <2>3. inv \in [Joints -> Rat] /\ jc \in [Joints -> Rat] /\ cp \in Rat
    BY <1>1, <2>1, CommandTypes
  <2>4. J \in [Joints -> Int] /\ robot.frame \in {1, -1} /\ F \in Rat
    BY <1>1, RType DEF Types, Robot
  <2>5. rob = [robot EXCEPT !.jacobianInverse = inv, !.jointTotal = tot,
                            !.cpTotal = RAdd(cp, RMul(F, Dot(J, jc)))]
    BY TotalsIs
  <2>6. robot'.jointVel = [i \in Joints |-> RMul(s, rob.jointTotal[i])]
        /\ robot'.cpVel = RMul(s, rob.cpTotal)
        /\ robot'.frame = rob.frame /\ robot'.jacobian = rob.jacobian
    BY <2>1 DEF Commanded
  <2>7. Dot(J, inv) = One
    BY <1>1, <2>4, InverseInverts DEF InverseUsed, PlainInverse
  <2> HIDE DEF rob, s, J, F, cp, jc, inv
  <2>8. \A x, y \in Rat : RAdd(x, y) \in Rat /\ RMul(x, y) \in Rat /\ RMul(x, y) = RMul(y, x)
    BY AddType, MulType, MulComm
  <2>9. z \in Rat
    BY <2>3, <2>4, <2>8
  <2> HIDE DEF z
  <2>10. u \in [Joints -> Rat] /\ tot \in [Joints -> Rat] /\ vel \in [Joints -> Rat]
         /\ \A i \in Joints : u[i] = RMul(z, inv[i]) /\ tot[i] = RAdd(u[i], jc[i])
                              /\ vel[i] = RMul(s, tot[i])
    BY <2>2, <2>3, <2>8, <2>9
  <2>11. rob.jointTotal = tot /\ rob.cpTotal = RAdd(cp, RMul(F, Dot(J, jc)))
         /\ rob.frame = robot.frame /\ rob.jacobian = J
    <3> HIDE DEF tot
    <3>1. QED
      BY <1>1, <2>5 DEF Types, Robot, J
  <2>12. robot'.jointVel = vel /\ robot'.cpVel = RMul(s, RAdd(cp, RMul(F, Dot(J, jc))))
         /\ robot'.frame = robot.frame /\ robot'.jacobian = J
    BY <2>6, <2>11
  <2> HIDE DEF u, tot, vel
  <2>13. Dot(J, u) = z
    <3>1. Dot(J, u) = RMul(z, Dot(J, inv))
      BY <2>3, <2>4, <2>9, <2>10, DotOfMultiple
    <3>2. QED
      BY <2>7, <2>9, <3>1, Neutral
  <2>14. Dot(J, tot) = RAdd(z, Dot(J, jc))
    BY <2>3, <2>4, <2>10, <2>13, DotOfSum
  <2>15. Dot(J, vel) = RMul(s, RAdd(z, Dot(J, jc)))
    BY <2>2, <2>4, <2>10, <2>14, DotOfMultiple
  <2>16. RMul(F, z) = cp
    <3>1. RMul(F, F) = One
      <4>1. RMul(R(1), R(1)) = R(1 * 1) /\ RMul(R(-1), R(-1)) = R((-1) * (-1))
        BY IntMul
      <4>2. 1 * 1 = 1 /\ (-1) * (-1) = 1
        OBVIOUS
      <4>3. QED
        BY <2>4, <4>1, <4>2 DEF F, One
    <3>2. RMul(RMul(F, F), cp) = RMul(F, RMul(F, cp))
      BY <2>3, <2>4, MulAssoc
    <3>3. QED
      BY <2>3, <3>1, <3>2, Neutral DEF z
  <2> DEFINE D == Dot(J, jc)
  <2>17. D \in Rat
    BY <2>3, <2>4, DotType
  <2> HIDE DEF D
  <2>18. RMul(F, RMul(s, RAdd(z, D))) = RMul(s, RAdd(cp, RMul(F, D)))
    <3> DEFINE w == RAdd(z, D)
    <3>1. w \in Rat
      BY <2>8, <2>9, <2>17
    <3>2. RMul(F, w) = RAdd(RMul(F, z), RMul(F, D))
      BY <2>4, <2>9, <2>17, Distributes
    <3> HIDE DEF w
    <3>3. RMul(F, RMul(s, w)) = RMul(RMul(F, s), w)
      BY <2>2, <2>4, <3>1, MulAssoc
    <3>4. RMul(RMul(s, F), w) = RMul(s, RMul(F, w))
      BY <2>2, <2>4, <3>1, MulAssoc
    <3>5. RMul(F, s) = RMul(s, F)
      BY <2>2, <2>4, <2>8
    <3>6. QED
      BY <2>16, <3>2, <3>3, <3>4, <3>5 DEF w
  <2>19. Executed(robot') = RMul(F, Dot(J, vel))
    BY <2>12 DEF Executed, F
  <2>20. QED
    BY <2>12, <2>15, <2>18, <2>19 DEF D
<1>2. ASSUME Types, [Next]_vars
      PROVE  ComputeStep /\ PlainInverse /\ (\E i \in Joints : robot.jacobian[i] # 0)
                => robot'.cpVel = Executed(robot')
  BY <1>1, <1>2
<1>3. QED
  BY <1>2, InitTypes, NextTypes, PTL DEF Spec, PublishedVelocityIsExecuted

-----------------------------------------------------------------------------
(* The emergency stop, for any set of channels, any thresholds (in any order) *)
(* and any range of readings                                                *)

\* Type correctness of EmergencyStopConstraint's latch and measurements.
THEOREM StopTypeCorrect == StopSpec => []StopTypeOK
<1>1. StopInit => StopTypeOK
  BY DEF StopInit, StopTypeOK
<1>2. StopTypeOK /\ [StopNext]_stopVars => StopTypeOK'
  <2> SUFFICES ASSUME StopTypeOK, [StopNext]_stopVars
               PROVE  StopTypeOK'
    OBVIOUS
  <2>1. CASE Measure
    BY <2>1 DEF StopTypeOK, Measure
  <2>2. CASE ComputeStop
    BY <2>2 DEF StopTypeOK, ComputeStop, Combined
  <2>3. CASE UNCHANGED stopVars
    BY <2>3 DEF StopTypeOK, stopVars
  <2>4. QED
    BY <2>1, <2>2, <2>3 DEF StopNext
<1>3. QED
  BY <1>1, <1>2, PTL DEF StopSpec

\* compute() stays at 0 while any channel is over, and while any channel that
\* is not calm votes the stop already in force.
LEMMA CombinedIsZero ==
  ASSUME StopTypeOK, NEW c \in Channels, Over(c) \/ (~Calm(c) /\ previous_constraint_value = 0)
  PROVE  Combined = 0
<1>1. Vote(c) = 0
  BY DEF Vote
<1>2. QED
  BY <1>1 DEF Combined

\* A robot is released only by a cycle in which every checked channel is calm.
THEOREM ReleaseNeedsCalm == StopSpec => ReleasedOnlyWhenCalm
<1>1. StopTypeOK /\ [StopNext]_stopVars =>
        (previous_constraint_value = 0 /\ previous_constraint_value' = 1 =>
           \A c \in Channels : Calm(c) /\ ~Over(c))
  <2> SUFFICES ASSUME StopTypeOK, [StopNext]_stopVars,
                      previous_constraint_value = 0, previous_constraint_value' = 1,
                      NEW c \in Channels
               PROVE  Calm(c) /\ ~Over(c)
    OBVIOUS
  <2>1. ComputeStop
    BY DEF StopNext, Measure, stopVars
  <2>2. Combined = 1
    BY <2>1 DEF ComputeStop
  <2>3. QED
    BY <2>2, CombinedIsZero
<1>2. QED
  BY <1>1, StopTypeCorrect, PTL DEF StopSpec, ReleasedOnlyWhenCalm

\* A moving robot is stopped only by a channel at its activation threshold.
THEOREM StopNeedsActivation == StopSpec => StoppedOnlyWhenOver
<1>1. StopTypeOK /\ [StopNext]_stopVars =>
        (previous_constraint_value = 1 /\ previous_constraint_value' = 0 =>
           \E c \in Channels : Over(c))
  <2> SUFFICES ASSUME StopTypeOK, [StopNext]_stopVars,
                      previous_constraint_value = 1, previous_constraint_value' = 0
               PROVE  \E c \in Channels : Over(c)
    OBVIOUS
  <2>1. ComputeStop
    BY DEF StopNext, Measure, stopVars
  <2>2. Combined = 0
    BY <2>1 DEF ComputeStop
  <2>3. PICK c \in Channels : Vote(c) # 1
    BY <2>2 DEF Combined
  <2>4. QED
    BY <2>3 DEF Vote
<1>2. QED
  BY <1>1, StopTypeCorrect, PTL DEF StopSpec, StoppedOnlyWhenOver

-----------------------------------------------------------------------------
(* The emergency stop with its history variable                              *)

\* The history variable adds no constraint on the constraint object itself.
THEOREM HistoryTypeCorrect == HSpec => []HTypeOK
<1>1. HInit => HTypeOK
  BY DEF HInit, StopInit, HTypeOK, StopTypeOK
<1>2. HTypeOK /\ [HNext]_hvars => HTypeOK'
  <2> SUFFICES ASSUME HTypeOK, [HNext]_hvars
               PROVE  HTypeOK'
    OBVIOUS
  <2>1. CASE HMeasure
    BY <2>1 DEF HTypeOK, StopTypeOK, HMeasure, Measure
  <2>2. CASE HCompute
    BY <2>2 DEF HTypeOK, StopTypeOK, HCompute, ComputeStop, Combined, Alone
  <2>3. CASE UNCHANGED hvars
    BY <2>3 DEF HTypeOK, StopTypeOK, hvars
  <2>4. QED
    BY <2>1, <2>2, <2>3 DEF HNext
<1>3. QED
  BY <1>1, <1>2, PTL DEF HSpec

\* A step of compute() keeps the shared latch at least as tight as the latches of
\* the channels alone: a latch that holds is over its activation threshold, or
\* was held and is not calm, and then the shared latch was set too.
LEMMA ComputeNeverLooser ==
  ASSUME HTypeOK, NeverLooser, HCompute
  PROVE  NeverLooser'
<1> SUFFICES ASSUME NEW c \in Channels, latched'[c]
             PROVE  previous_constraint_value' = 0
  BY DEF NeverLooser
<1>1. Alone(c)
  BY DEF HCompute
<1>2. Over(c) \/ (~Calm(c) /\ latched[c])
  BY <1>1 DEF Alone
<1>3. Over(c) \/ (~Calm(c) /\ previous_constraint_value = 0)
  BY <1>2 DEF NeverLooser
<1>4. QED
  BY <1>3, CombinedIsZero DEF HCompute, ComputeStop, HTypeOK

\* The one latch EmergencyStopConstraint shares between force and torque is never
\* looser than a latch per channel.
THEOREM SharedLatchNeverLooser == HSpec => []NeverLooser
<1>1. HInit => NeverLooser
  BY DEF HInit, NeverLooser
<1>2. HTypeOK /\ NeverLooser /\ [HNext]_hvars => NeverLooser'
  <2> SUFFICES ASSUME HTypeOK, NeverLooser, [HNext]_hvars
               PROVE  NeverLooser'
    OBVIOUS
  <2>1. CASE HMeasure
    BY <2>1 DEF HMeasure, Measure, NeverLooser
  <2>2. CASE HCompute
    BY <2>2, ComputeNeverLooser
  <2>3. CASE UNCHANGED hvars
    BY <2>3 DEF hvars, NeverLooser
  <2>4. QED
    BY <2>1, <2>2, <2>3 DEF HNext
<1>3. QED
  BY <1>1, <1>2, HistoryTypeCorrect, PTL DEF HSpec

-----------------------------------------------------------------------------
(* The emergency stop implements the stop policy                            *)

\* A compute() is an evaluation of the policy.
LEMMA ComputeEvaluates ==
  ASSUME HTypeOK, NeverLooser, HCompute
  PROVE  Policy!Evaluate
<1>1. \A c \in Channels : Policy!LatchOf(c) <=> Alone(c)
  BY DEF Policy!LatchOf, Alone, Over, Calm
<1>2. latched' = [c \in Channels |-> Policy!LatchOf(c)]
  BY <1>1 DEF HCompute, Policy!LatchOf, Alone, Over, Calm
<1>3. (previous_constraint_value = 0)' \in BOOLEAN
  OBVIOUS
<1>4. (\E c \in Channels : Policy!LatchOf(c)) => (previous_constraint_value = 0)'
  <2> SUFFICES ASSUME NEW c \in Channels, Policy!LatchOf(c)
               PROVE  previous_constraint_value' = 0
    OBVIOUS
  <2>1. latched'[c]
    BY <1>2
  <2>2. QED
    BY <2>1, ComputeNeverLooser DEF NeverLooser
<1>5. (\A c \in Channels : norm[c] <= Deactivation[c] /\ norm[c] < Activation[c])
         => ~(previous_constraint_value = 0)'
  <2> SUFFICES ASSUME \A c \in Channels : norm[c] <= Deactivation[c] /\ norm[c] < Activation[c]
               PROVE  previous_constraint_value' = 1
    OBVIOUS
  <2>1. ASSUME NEW c \in Channels
        PROVE  Vote(c) = 1
    <3>1. norm[c] \in Readings
      BY DEF HTypeOK, StopTypeOK
    <3>2. norm[c] \in Int /\ Activation[c] \in Int
      BY <3>1, ThresholdsAssumption DEF Readings
    <3>3. norm[c] <= Deactivation[c] /\ norm[c] < Activation[c]
      OBVIOUS
    <3>4. Calm(c) /\ ~Over(c)
      BY <3>2, <3>3 DEF Over, Calm
    <3>5. QED
      BY <3>4 DEF Vote
  <2>2. QED
    BY <2>1 DEF HCompute, ComputeStop, Combined
<1>6. ~(previous_constraint_value = 0) /\ (previous_constraint_value = 0)'
         => \E c \in Channels : Policy!LatchOf(c)
  <2> SUFFICES ASSUME previous_constraint_value # 0, previous_constraint_value' = 0
               PROVE  \E c \in Channels : Policy!LatchOf(c)
    OBVIOUS
  <2>1. PICK c \in Channels : Vote(c) # 1
    BY DEF HCompute, ComputeStop, Combined
  <2>2. Over(c)
    BY <2>1 DEF Vote, HTypeOK, StopTypeOK
  <2>3. QED
    BY <2>2 DEF Over, Policy!LatchOf
<1>7. UNCHANGED norm
  BY DEF HCompute, ComputeStop
<1>8. QED
  BY <1>2, <1>3, <1>4, <1>5, <1>6, <1>7 DEF Policy!Evaluate

\* EmergencyStopConstraint implements the stop policy.
THEOREM Refinement == HSpec => ImplementsPolicy
<1>1. HInit => Policy!Init
  BY DEF HInit, StopInit, Policy!Init, Readings
<1>2. HTypeOK /\ NeverLooser /\ [HNext]_hvars => [Policy!Next]_(Policy!vars)
  <2> SUFFICES ASSUME HTypeOK, NeverLooser, [HNext]_hvars
               PROVE  [Policy!Next]_(Policy!vars)
    OBVIOUS
  <2>1. CASE HMeasure
    <3>1. Policy!Measure
      BY <2>1 DEF HMeasure, Measure, Policy!Measure, Readings
    <3>2. QED
      BY <3>1 DEF Policy!Next
  <2>2. CASE HCompute
    BY <2>2, ComputeEvaluates DEF Policy!Next
  <2>3. CASE UNCHANGED hvars
    BY <2>3 DEF hvars, Policy!vars
  <2>4. QED
    BY <2>1, <2>2, <2>3 DEF HNext
<1>3. QED
  BY <1>1, <1>2, HistoryTypeCorrect, SharedLatchNeverLooser, PTL
     DEF HSpec, ImplementsPolicy, Policy!Spec
=============================================================================
