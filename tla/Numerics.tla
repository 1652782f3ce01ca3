------------------------------- MODULE Numerics -------------------------------
(***************************************************************************)
(* The arithmetic of the root finder and of the fifth order polynomials,   *)
(* one call at a time: `task` holds the arguments and `answer` what the    *)
(* code makes of them.  The arguments are constants; the assumptions say   *)
(* what the callers see to.                                                *)
(***************************************************************************)
EXTENDS PosePaths, QuadraticShift

CONSTANTS
    ShiftTasks,     \* [kind, p, K, shift]: a fixed shift step
    LinearTasks,    \* [kind, p, K, s]: a step with a linear shift or none
    ZerosTasks,     \* [kind, a, b, c]: the zeros of a x^2 + b x + c
    SegmentTasks,   \* [kind, ends]: a segment of the trajectory generator
    PoseTasks,      \* [kind, start, waypoints]: a path of poses
    SearchTasks,    \* [kind, ends, dymax, d2ymaxSquared]: the shortest segment
    MaxIterations   \* of the search, counting both halves of a round

\* K has one degree less than p, and zeros of p at the origin were removed.
IsPair(p, K) ==
    \E n \in 3 .. 11 :
        p \in [0 .. n -> Rat] /\ K \in [0 .. n - 1 -> Rat] /\ p[n] # Zero

\* The product v of a shift is the square of the bound on the zeros, and an
\* iteration that finds v = 0 gives up.
ASSUME ShiftAssumption ==
    \A t \in ShiftTasks :
        t.kind = "shift" /\ IsPair(t.p, t.K) /\ t.shift \in Rat \X (Rat \ {Zero})

ASSUME LinearAssumption ==
    \A t \in LinearTasks : t.kind = "linear" /\ IsPair(t.p, t.K) /\ t.s \in Rat

\* Exact arithmetic has the square roots of squares only.
ASSUME ZerosAssumption ==
    \A t \in ZerosTasks :
        /\ t.kind = "zeros" /\ t.a \in Rat /\ t.b \in Rat /\ t.c \in Rat
        /\ t.a # Zero => \E r \in Roots : r (.) r = RAbs(Discriminant(t.a, t.b (/) R(2), t.c))

Boundaries ==
    {e \in [xi : Rat, xf : Rat, yi : Rat, yf : Rat, dyi : Rat, dyf : Rat, d2yi : Rat, d2yf : Rat,
            coefficients : {Constant(Zero)}] : RLt(e.xi, e.xf)}

ASSUME SegmentAssumption ==
    \A t \in SegmentTasks : t.kind = "segment" /\ t.ends \in Boundaries

\* A full turn is the same orientation as none.
Orientations == {x \in Rat : RLeq(Zero, x) /\ RLt(x, R(4))}
Poses        == [at : Rat, turn : Orientations]

ASSUME PoseAssumption ==
    \A t \in PoseTasks : t.kind = "poses" /\ t.start \in Poses /\ t.waypoints \in Seq(Poses)

\* No velocity or acceleration at the ends.
AtRest(e) == e.dyi = Zero /\ e.dyf = Zero /\ e.d2yi = Zero /\ e.d2yf = Zero

\* The searches exact arithmetic follows to their end: between points at rest with a
\* ratio of accelerations that has a fourth root, and at the constant velocity of
\* the initial guess.
CanFollow(t) ==
    \/ ConstraintError(t.ends, t.dymax, t.d2ymaxSquared) # "NoError"
    \/ t.ends.yi = t.ends.yf
    \/ /\ AtRest(t.ends)
       /\ LET distance == t.ends.yf (-) t.ends.yi
              amax == Frac(100, 3) (.) (distance (.) distance)
          IN  \E s \in FourthRoots : Power(s, 4) (.) t.d2ymaxSquared = amax
    \/ /\ t.ends.dyi = t.ends.yf (-) t.ends.yi /\ t.ends.dyf = t.ends.dyi
       /\ t.ends.d2yi = Zero /\ t.ends.d2yf = Zero

ASSUME SearchAssumption ==
    /\ MaxIterations \in Nat /\ MaxIterations >= 4
    /\ \A t \in SearchTasks :
          /\ t.kind = "search" /\ t.ends \in Boundaries
          /\ t.dymax \in Rat /\ RLt(Zero, t.dymax)
          /\ t.d2ymaxSquared \in Rat /\ RLt(Zero, t.d2ymaxSquared)
          /\ CanFollow(t)

-----------------------------------------------------------------------------
VARIABLES task, answer

numbers == <<task, answer>>

Tasks == ShiftTasks \cup LinearTasks \cup ZerosTasks \cup SegmentTasks \cup PoseTasks \cup SearchTasks

Waiting == [status |-> "waiting"]

NumericsInit == task \in Tasks /\ answer = Waiting

-----------------------------------------------------------------------------
(* Evaluation                                                               *)

Answered(kind, a) ==
    /\ task.kind = kind
    /\ answer.status = "waiting"
    /\ answer' = [value |-> a, status |-> "done"]
    /\ UNCHANGED task

\* One fixed shift step and the quadratic it leads to.
Shift ==
    LET u  == task.shift[1]
        v  == task.shift[2]
        qp == QuadSD(u, v, task.p)
        sc == CalcSC(A(qp), B(qp), task.K, u, v)
    IN  Answered("shift",
            [sc   |-> sc, K |-> NextK(sc, qp, task.K),
             next |-> Newest(sc, A(qp), B(qp), u, v, task.K, task.p)])

Linear == Answered("linear", NextLinearK(task.p, task.K, task.s))
Solve  == Answered("zeros", Quad(task.a, task.b, task.c))
Meet   == Answered("segment", ComputeParameters(task.ends))

\* The outputs at the ends and in the middle of each segment of a path of poses.
Follow ==
    Answered("poses",
        LET points == UpdatePoints(task.start, task.waypoints)
        IN  [s \in DOMAIN task.waypoints |->
                [x \in {Zero, Frac(1, 2), One} |-> PositionOutput(points, s, x)]])

Error == ConstraintError(task.ends, task.dymax, task.d2ymaxSquared)

TooFast == task.kind = "search" /\ Error # "NoError" /\ Answered("search", Error)

Accepted == task.kind = "search" /\ Error = "NoError"

Still == Accepted /\ task.ends.yi = task.ends.yf /\ Answered("search", "no displacement")

Search ==
    /\ Accepted
    /\ task.ends.yi # task.ends.yf
    /\ answer.status \in {"waiting", "searching"}
    /\ answer' = SearchRound(IF answer.status = "waiting" THEN StartSearch(task.ends, One) ELSE answer,
                             task.dymax, task.d2ymaxSquared)
    /\ UNCHANGED task

NumericsNext == Shift \/ Linear \/ Solve \/ Meet \/ Follow \/ TooFast \/ Still \/ Search

NumericsSpec == NumericsInit /\ [][NumericsNext]_numbers

-----------------------------------------------------------------------------
(* Properties                                                               *)

Done(kind) == task.kind = kind /\ answer.status = "done"

\* The K polynomials of nextK_ak1 and of the steps of RealIT_ak1 are exact
\* quotients: the shift times the next K is a combination of p and of the
\* last K that vanishes at the shift.  Otherwise the iteration converges to
\* something that is no zero of p.
StepsDivideByTheShift ==
    /\ Done("shift") =>
           LET sc   == answer.value.sc
               lead == IF sc.type = 3 \/ sc.a1 = Zero THEN Constant(Zero)
                       ELSE Times(sc.a1, Root(Zero))
               ofP  == Plus(lead, Constant(RNeg(sc.a7)))
               ofK  == IF sc.type = 3 THEN One ELSE sc.a3
               scale == IF sc.type = 3 \/ sc.a1 = Zero THEN One ELSE sc.a1
           IN  Same(Times(scale, Product(Quadratic(task.shift[1], task.shift[2]), answer.value.K)),
                    Plus(Product(ofP, task.p), Times(ofK, task.K)))
    /\ Done("linear") =>
           LET atS == Value(task.K, task.s)
           IN  Same(Product(Root(task.s), answer.value),
                    IF atS = Zero THEN task.K
                    ELSE Plus(task.p, Times(RNeg(Value(task.p, task.s) (/) atS), task.K)))

\* The estimate of newest_ak1 is the next quadratic of Jenkins and Traub:
\* with K0 = K, K1 and K2 the next steps without a shift, its coefficients
\* are the ratios of the cross products of their remainders by the quadratic.
NewestIsTheNextQuadratic ==
    Done("shift") =>
        LET unshifted(K) ==
                LET t == K[Degree(K)] (/) task.p[Degree(task.p)]
                IN  [i \in DOMAIN K |->
                        (IF i = 0 THEN Zero ELSE K[i - 1]) (-) t (.) task.p[i]]
            remainder(K) ==
                LET q == QuadSD(task.shift[1], task.shift[2], K)
                IN  <<B(q), A(q) (+) B(q) (.) task.shift[1]>>
            r0 == remainder(task.K)
            r1 == remainder(unshifted(task.K))
            r2 == remainder(unshifted(unshifted(task.K)))
            cross(r, s) == r[1] (.) s[2] (-) r[2] (.) s[1]
        IN  IF answer.value.sc.type = 3 \/ cross(r1, r2) = Zero
            THEN answer.value.next = [u |-> Zero, v |-> Zero]
            ELSE answer.value.next = [u |-> RNeg(cross(r0, r2) (/) cross(r1, r2)),
                                      v |-> cross(r0, r1) (/) cross(r1, r2)]

\* Quad_ak1 finds both zeros with their multiplicity, the larger one as l:
\* QuadIT_ak1 compares their moduli and deflates by both.
QuadFindsBothZeros ==
    Done("zeros") =>
        LET s == answer.value.s
            l == answer.value.l
            real(z, w) == z[1] (.) w[1] (-) z[2] (.) w[2]
            imaginary(z, w) == z[1] (.) w[2] (+) z[2] (.) w[1]
        IN  IF task.a = Zero
            THEN task.b # Zero => task.b (.) s[1] (+) task.c = Zero
            ELSE /\ task.a (.) (s[1] (+) l[1]) = RNeg(task.b)
                 /\ s[2] (+) l[2] = Zero
                 /\ task.a (.) real(s, l) = task.c
                 /\ imaginary(s, l) = Zero
                 /\ RLeq(real(s, <<s[1], RNeg(s[2])>>), real(l, <<l[1], RNeg(l[2])>>))

\* A segment has the value, velocity and acceleration asked for at both ends
\* and keeps them outside.  A path of poses goes through the place of each waypoint
\* without a jump, and arrives with its orientation if the waypoint before has that
\* of the start; in between a robot that is where the output says has no error.
SegmentMeetsItsEnds ==
    /\ Done("segment") =>
           LET p == answer.value
               e == task.ends
               at(x) == <<Compute(x, p), ComputeFirstDerivative(x, p), ComputeSecondDerivative(x, p)>>
           IN  /\ at(e.xi) = <<e.yi, e.dyi, e.d2yi>>
               /\ at(e.xf) = <<e.yf, e.dyf, e.d2yf>>
               /\ at(e.xi (-) One) = at(e.xi)
               /\ at(e.xf (+) One) = at(e.xf)
    /\ Done("poses") =>
           LET before(s) == IF s = 1 THEN task.start ELSE task.waypoints[s - 1]
               pose(s, x) == PoseOutput(task.start, answer.value[s][x])
           IN  \A s \in DOMAIN task.waypoints :
                  /\ pose(s, Zero) = IF s = 1 THEN task.start ELSE pose(s - 1, One)
                  /\ pose(s, One).at = task.waypoints[s].at
                  /\ before(s).turn = task.start.turn => pose(s, One) = task.waypoints[s]
                  /\ \A x \in DOMAIN answer.value[s] :
                        ReferencePoseVec(task.start, pose(s, x)) = answer.value[s][x]

\* The search ends within MaxIterations with the shortest segment that keeps
\* both limits (it reaches one of them) or, when the segment of the initial
\* guess is crossed at a constant velocity, with the exception of
\* getFirstDerivativeMaximum: rpoly_ak1 gets no polynomial to solve.
SearchIsTight ==
    (task.kind = "search" /\ answer.status \notin {"waiting", "done"}) =>
        /\ answer.iterations =< MaxIterations
        /\ answer.status = "found" =>
               LET p    == ComputeParameters(Longest(answer))
                   vmax == FirstDerivativeMaximum(p)
                   amax == SecondDerivativeMaximumSquared(p)
               IN  /\ RLeq(vmax, task.dymax) /\ RLeq(amax, task.d2ymaxSquared)
                   /\ vmax = task.dymax \/ amax = task.d2ymaxSquared
                   /\ Compute(p.xf, p) = task.ends.yf
        /\ answer.status = "runtime_error" => task.ends.dyi = task.ends.yf (-) task.ends.yi
        /\ answer.iterations = MaxIterations => answer.status # "searching"
=============================================================================
