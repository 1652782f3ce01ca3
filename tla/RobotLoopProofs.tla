--------------------------- MODULE RobotLoopProofs ---------------------------
(***************************************************************************)
(* Proofs about RobotLoop, for any vectors that users give, any offset and *)
(* any number of cycles: the generators move the control point as they are *)
(* meant to in the base frame, an axis force control gave up fades, and a  *)
(* derivator with an integrator is an odometer.                            *)
(*                                                                         *)
(* The Jacobian undoes its inverse and a turn undoes the turn back, so the *)
(* motion that a command is going to make (Moving, towards Heading) is     *)
(* known when it is computed.  The invariant carries what it means (Means, *)
(* Fades) from there over send() to the next read, where Heading is the    *)
(* position of the control point.  What the laser scanner's detector finds *)
(* is whoever is nearest to the scanner, since a beam ends at the first    *)
(* thing in it and what is new in a beam is a person.                      *)
(***************************************************************************)
EXTENDS RobotLoop, WellFoundedInduction, TLAPS

-----------------------------------------------------------------------------
(* The plane                                                                *)

\* Sums and multiples of vectors, and what adding and taking away undo.
LEMMA VectorFacts ==
  ASSUME NEW v \in Plane, NEW w \in Plane, NEW k \in Int
  PROVE  /\ Add(v, w) \in Plane /\ Scale(k, v) \in Plane /\ Minus(v, w) \in Plane
         /\ Each(<<1, 1>>, v) = v /\ Scale(1, v) = v
         /\ Minus(Add(v, w), v) = w /\ Add(v, Minus(w, v)) = w /\ Add(v, Null) = v
         /\ Add(Null, v) = v /\ Minus(v, Null) = v
         /\ Null \in Plane /\ v = <<v[1], v[2]>>
BY DEF Plane, Add, Scale, Minus, Each, Null, Vector

\* A quarter turn keeps vectors, and turning back undoes it.
LEMMA RotateFacts ==
  ASSUME NEW k \in 0 .. 3, NEW v \in Plane
  PROVE  /\ Rotate(k, v) \in Plane /\ RotateBack(k, v) \in Plane
         /\ Rotate(k, RotateBack(k, v)) = v /\ RotateBack(k, Rotate(k, v)) = v
<1>1. v = <<v[1], v[2]>> /\ v[1] \in Int /\ v[2] \in Int
  BY DEF Plane
<1>2. k \in {0, 1, 2, 3}
  OBVIOUS
<1>3. /\ Rotate(0, v) = v /\ Rotate(1, v) = <<-v[2], v[1]>>
      /\ Rotate(2, v) = <<-v[1], -v[2]>> /\ Rotate(3, v) = <<v[2], -v[1]>>
  BY DEF Rotate
<1>4. /\ RotateBack(0, v) = v /\ RotateBack(1, v) = <<v[2], -v[1]>>
      /\ RotateBack(2, v) = <<-v[1], -v[2]>> /\ RotateBack(3, v) = <<-v[2], v[1]>>
  BY DEF Rotate, RotateBack
<1>5. Rotate(k, v) \in Plane /\ RotateBack(k, v) \in Plane
  BY <1>1, <1>2, <1>3, <1>4 DEF Plane
<1>6. Rotate(k, RotateBack(k, v)) = v
  BY <1>1, <1>2, <1>4 DEF Rotate
<1>7. RotateBack(k, Rotate(k, v)) = v
  BY <1>1, <1>2, <1>3 DEF Rotate, RotateBack
<1>8. QED
  BY <1>5, <1>6, <1>7

\* Turning is linear, and keeps what is on a line and to which side.
LEMMA RotateLinear ==
  ASSUME NEW k \in 0 .. 3, NEW v \in Plane, NEW w \in Plane, NEW c \in Int
  PROVE  /\ Rotate(k, Minus(v, w)) = Minus(Rotate(k, v), Rotate(k, w))
         /\ Rotate(k, Scale(c, v)) = Scale(c, Rotate(k, v))
         /\ Rotate(k, v)[1] * Rotate(k, w)[2] - Rotate(k, v)[2] * Rotate(k, w)[1] =
               v[1] * w[2] - v[2] * w[1]
         /\ Rotate(k, v)[1] * Rotate(k, w)[1] + Rotate(k, v)[2] * Rotate(k, w)[2] =
               v[1] * w[1] + v[2] * w[2]
         /\ Rotate(k, Null) = Null /\ (Rotate(k, v) = Null => v = Null)
<1>1. /\ v = <<v[1], v[2]>> /\ v[1] \in Int /\ v[2] \in Int
      /\ w = <<w[1], w[2]>> /\ w[1] \in Int /\ w[2] \in Int
  BY DEF Plane
<1>2. k \in {0, 1, 2, 3}
  OBVIOUS
<1>3. Rotate(k, Minus(v, w)) = Minus(Rotate(k, v), Rotate(k, w))
  BY <1>1, <1>2 DEF Rotate, Minus, Add, Scale
<1>4. Rotate(k, Scale(c, v)) = Scale(c, Rotate(k, v))
  BY <1>1, <1>2 DEF Rotate, Scale
<1>5. Rotate(k, Null) = Null /\ (Rotate(k, v) = Null => v = Null)
  BY <1>1, <1>2 DEF Rotate, Null, Vector
<1>6. /\ Rotate(k, v)[1] * Rotate(k, w)[2] - Rotate(k, v)[2] * Rotate(k, w)[1] =
               v[1] * w[2] - v[2] * w[1]
      /\ Rotate(k, v)[1] * Rotate(k, w)[1] + Rotate(k, v)[2] * Rotate(k, w)[2] =
               v[1] * w[1] + v[2] * w[2]
  <2>1. CASE k = 0
    BY <2>1 DEF Rotate
  <2>2. CASE k = 1
    BY <1>1, <2>2 DEF Rotate
  <2>3. CASE k = 2
    BY <1>1, <2>3 DEF Rotate
  <2>4. CASE k = 3
    BY <1>1, <2>4 DEF Rotate
  <2>5. QED
    BY <1>2, <2>1, <2>2, <2>3, <2>4
<1>7. QED
  BY <1>3, <1>4, <1>5, <1>6

-----------------------------------------------------------------------------
(* The joints                                                               *)

\* Positions of the joints, or velocities.
JointPositions == [x : Int, y : Int, slide : Int, turn : Int]

\* The Jacobian undoes its inverse, and is linear; a motion of the null space is none of
\* the control point.
LEMMA JointFacts ==
  ASSUME NEW v \in Plane, NEW q, q.x \in Int, q.y \in Int, q.slide \in Int,
         NEW r, r.x \in Int, r.y \in Int, r.slide \in Int, NEW k
  PROVE  /\ Jacobian(q) \in Plane
         /\ Jacobian(JacobianInverse(v)) = v
         /\ Jacobian(Turned(PlusJoints(q, r), k)) = Add(Jacobian(q), Jacobian(r))
         /\ Jacobian(NullSpaceMotion(q)) = Null
         /\ /\ JacobianInverse(v).x \in Int /\ JacobianInverse(v).y \in Int
            /\ JacobianInverse(v).slide \in Int
         /\ /\ NullSpaceMotion(q).x \in Int /\ NullSpaceMotion(q).y \in Int
            /\ NullSpaceMotion(q).slide \in Int
         /\ k \in Int => Turned(PlusJoints(q, r), k) \in JointPositions
         /\ Jacobian(Still) = Null
<1>1. v = <<v[1], v[2]>> /\ v[1] \in Int /\ v[2] \in Int
  BY DEF Plane
<1>2. Jacobian(q) = <<q.x + q.slide, q.y>> /\ Jacobian(q) \in Plane
  BY DEF Jacobian, Plane
<1>3. v[1] \div 2 \in Int
  BY <1>1
<1>4. Jacobian(JacobianInverse(v)) = v
  BY <1>1, <1>3 DEF Jacobian, JacobianInverse
<1>5. /\ JacobianInverse(v).x \in Int /\ JacobianInverse(v).y \in Int
      /\ JacobianInverse(v).slide \in Int
  BY <1>1, <1>3 DEF JacobianInverse
<1>6. Jacobian(Turned(PlusJoints(q, r), k)) = Add(Jacobian(q), Jacobian(r))
  BY DEF Jacobian, Turned, PlusJoints, Add
<1>7. k \in Int => Turned(PlusJoints(q, r), k) \in JointPositions
  BY DEF Turned, PlusJoints, JointPositions
<1>8. (q.x + q.slide) \div 2 \in Int
  OBVIOUS
<1>9. /\ NullSpaceMotion(q).x = q.x - (q.x + q.slide) \div 2
      /\ NullSpaceMotion(q).y = 0
      /\ NullSpaceMotion(q).slide = q.slide - ((q.x + q.slide) - (q.x + q.slide) \div 2)
  BY <1>8 DEF NullSpaceMotion, MinusJoints, JacobianInverse, Jacobian
<1>10. Jacobian(NullSpaceMotion(q)) = Null
  BY <1>8, <1>9 DEF Jacobian, Null, Vector
<1>11. Jacobian(Still) = Null
  BY DEF Jacobian, Still, Null, Vector
<1>12. QED
  BY <1>2, <1>4, <1>5, <1>6, <1>7, <1>8, <1>9, <1>10, <1>11

-----------------------------------------------------------------------------
(* Potentials                                                               *)

\* A sum over one object is the force of that object.
LEMMA OneObject ==
  ASSUME NEW offset, NEW object, ObjectForce(robot, frame, offset, object) \in Plane
  PROVE  PotentialFieldGenerator(robot, frame, offset, <<object>>) =
             Transform(robot, frame, ObjectForce(robot, frame, offset, object))
<1> DEFINE force(i) == ObjectForce(robot, frame, offset, <<object>>[i])
           step(f) == [i \in 0 .. 1 |-> IF i = 0 THEN Null ELSE Add(f[i - 1], force(i))]
           sum == CHOOSE f : f = step(f)
           one == [i \in 0 .. 1 |-> IF i = 0 THEN Null ELSE ObjectForce(robot, frame, offset, object)]
<1>1. Len(<<object>>) = 1 /\ <<object>>[1] = object
  OBVIOUS
<1>2. Add(Null, ObjectForce(robot, frame, offset, object)) = ObjectForce(robot, frame, offset, object)
  BY VectorFacts
<1>3. one = step(one)
  <2>1. ASSUME NEW i \in 0 .. 1 PROVE one[i] = step(one)[i]
    BY <1>1, <1>2, i = 0 \/ i = 1
  <2>2. QED
    BY <2>1
<1>4. sum = step(sum)
  BY <1>3
<1>5. ASSUME NEW f, f = step(f) PROVE f[0] = Null /\ f[1] = Add(f[0], force(1))
  BY <1>5
<1>6. sum[0] = Null /\ sum[1] = Add(sum[0], force(1))
  BY <1>4, <1>5
<1>7. sum[1] = ObjectForce(robot, frame, offset, object)
  BY <1>1, <1>2, <1>6
<1>8. PotentialFieldGenerator(robot, frame, offset, <<object>>) = Transform(robot, frame, sum[1])
  BY <1>1 DEF PotentialFieldGenerator
<1>9. QED
  BY <1>7, <1>8

\* Only zero has the square zero.
LEMMA Squares == ASSUME NEW a \in Int, a * a = 0 PROVE a = 0
OBVIOUS

\* A factor that is not zero cancels.
LEMMA Cancels ==
  ASSUME NEW d \in Nat \ {0}, NEW a \in Int, NEW b \in Int, d * a = d * b PROVE a = b
OBVIOUS

\* d times the vector (f, g) is c times (a, b).
AreMultiples(d, f, g, c, a, b) == d * f = c * a /\ d * g = c * b
\* The force is on the line of the way, ...
SameLine(f, g, a, b) == f * b = g * a
\* ... along it, ...
Ahead(f, g, a, b) == f * a + g * b > 0
\* ... or against it.
Back(f, g, a, b) == f * a + g * b < 0

\* A multiple of a vector is on its line, on the side of its sign.
LEMMA Multiples ==
  ASSUME NEW d \in Nat \ {0}, NEW f \in Int, NEW g \in Int, NEW c \in Int, NEW a \in Int, NEW b \in Int,
         AreMultiples(d, f, g, c, a, b)
  PROVE  /\ SameLine(f, g, a, b)
         /\ c > 0 /\ a * a + b * b > 0 => Ahead(f, g, a, b)
         /\ c < 0 /\ a * a + b * b > 0 => Back(f, g, a, b)
<1> USE DEF AreMultiples
<1> DEFINE dot == f * a + g * b
           square == a * a + b * b
<1>1. dot \in Int /\ square \in Int /\ f * b \in Int /\ g * a \in Int
  OBVIOUS
<1>2. d * dot = c * square
  <2>1. d * dot = (d * f) * a + (d * g) * b
    OBVIOUS
  <2>2. (d * f) * a + (d * g) * b = (c * a) * a + (c * b) * b
    OBVIOUS
  <2>3. (c * a) * a + (c * b) * b = c * square
    OBVIOUS
  <2>4. QED
    BY <2>1, <2>2, <2>3
<1>3. f * b = g * a
  <2>1. d * (f * b) = (d * f) * b /\ (c * a) * b = (c * b) * a /\ (d * g) * a = d * (g * a)
    OBVIOUS
  <2>2. (d * f) * b = (c * a) * b /\ (d * g) * a = (c * b) * a
    OBVIOUS
  <2>3. d * (f * b) = d * (g * a)
    BY <2>1, <2>2
  <2>4. QED
    BY <1>1, <2>3, Cancels
<1> HIDE DEF dot, square
<1>4. c > 0 /\ square > 0 => dot > 0
  <2>1. c > 0 /\ square > 0 => c * square > 0
    BY <1>1
  <2>2. dot <= 0 => d * dot <= 0
    BY <1>1
  <2>3. QED
    BY <1>1, <1>2, <2>1, <2>2
<1>5. c < 0 /\ square > 0 => dot < 0
  <2>1. c < 0 /\ square > 0 => c * square < 0
    BY <1>1
  <2>2. dot >= 0 => d * dot >= 0
    BY <1>1
  <2>3. QED
    BY <1>1, <1>2, <2>1, <2>2
<1>6. QED
  BY <1>3, <1>4, <1>5 DEF SameLine, Ahead, Back, dot, square

\* What the force of an object is to the way to it, wherever it can be computed: on its
\* line, towards an attractive object, away from a repulsive one within its threshold.
Pulls(kind, force, way) ==
    /\ force[1] * way[2] = force[2] * way[1]
    /\ IF kind = "Attractive" /\ way # Null
       THEN force[1] * way[1] + force[2] * way[2] > 0
       ELSE IF way # Null /\ Squared(way) < 9
       THEN force[1] * way[1] + force[2] * way[2] < 0
       ELSE force = Null

\* The objects of ByPotential.
Potential(kind, at) == [kind |-> kind, at |-> at, gain |-> 12, threshold |-> 3]

\* The force of an object, wherever it is measurable, is such a pull.
LEMMA ForceOfObject ==
  ASSUME NEW kind \in {"Attractive", "Repulsive"}, NEW at \in Plane,
         RobotPosition(robot, frame, Offset) \in Plane,
         Measurable(robot, frame, Offset, Potential(kind, at))
  PROVE  LET way == Minus(at, RobotPosition(robot, frame, Offset))
             force == ObjectForce(robot, frame, Offset, Potential(kind, at))
         IN  force \in Plane /\ Pulls(kind, force, way)
<1> DEFINE object == Potential(kind, at)
           v == Minus(at, RobotPosition(robot, frame, Offset))
           d == Norm(v)
           force == ObjectForce(robot, frame, Offset, object)
<1>1. object.at = at /\ object.kind = kind /\ object.gain = 12 /\ object.threshold = 3
  BY DEF Potential
<1>2. v \in Plane /\ v[1] \in Int /\ v[2] \in Int /\ v = <<v[1], v[2]>>
  <2>1. v \in Plane
    BY VectorFacts
  <2>2. QED
    BY <2>1 DEF Plane
<1>3. /\ IsWhole(v)
      /\ d # 0 /\ kind = "Attractive" => Divides(d, Scale(12, v))
      /\ d # 0 /\ kind = "Repulsive" => Divides(3 * d * d, Scale(12 * (d - 3), v))
  BY <1>1 DEF Measurable, Repulsion
<1>4. force = IF d = 0 THEN Null
              ELSE IF kind = "Attractive" THEN Quotient(Scale(12, v), d)
              ELSE IF d < 3 THEN Quotient(Scale(12 * (d - 3), v), 3 * d * d)
              ELSE Null
  BY <1>1 DEF ObjectForce, Repulsion
<1>5. d \in 0 .. 20 /\ d * d = Squared(v)
  BY <1>3 DEF IsWhole, Norm
<1> HIDE DEF d, v, force
<1>6. Squared(v) = v[1] * v[1] + v[2] * v[2]
  BY DEF Squared
<1>7. Null = <<0, 0>> /\ Null \in Plane
  BY DEF Null, Vector, Plane
<1>8. d = 0 <=> v = Null
  <2>1. v[1] * v[1] >= 0 /\ v[2] * v[2] >= 0
    BY <1>2
  <2>2. ASSUME d = 0 PROVE v = Null
    <3>1. v[1] * v[1] = 0 /\ v[2] * v[2] = 0
      BY <1>2, <1>5, <1>6, <2>1, <2>2
    <3>2. v[1] = 0 /\ v[2] = 0
      BY <1>2, <3>1, Squares
    <3>3. QED
      BY <1>2, <1>7, <3>2
  <2>3. ASSUME v = Null PROVE d = 0
    <3>1. d * d = 0
      BY <1>5, <1>6, <1>7, <2>3
    <3>2. QED
      BY <1>5, <3>1
  <2>4. QED
    BY <2>2, <2>3
<1>9. Squared(v) < 9 <=> d < 3
  <2>1. d < 3 => d * d < 9
    <3>1. d < 3 => d \in {0, 1, 2}
      BY <1>5
    <3>2. QED
      BY <3>1
  <2>2. d >= 3 => d * d >= 9
    BY <1>5
  <2>3. QED
    BY <1>5, <2>1, <2>2
<1>10. CASE d = 0
  <2>1. force = Null /\ v = Null
    BY <1>4, <1>8, <1>10
  <2>2. QED
    BY <1>7, <2>1 DEF Pulls, force, v
<1>11. CASE d # 0 /\ kind = "Attractive"
  <2>1. Divides(d, <<12 * v[1], 12 * v[2]>>) /\ force = Quotient(<<12 * v[1], 12 * v[2]>>, d)
    BY <1>3, <1>4, <1>11 DEF Scale
  <2>2. d \in 1 .. 20
    BY <1>5, <1>11
  <2>3. ASSUME NEW n \in Int, n % d = 0 PROVE (n \div d) \in Int /\ d * (n \div d) = n
    BY <2>2, <2>3
  <2>4. /\ force = <<force[1], force[2]>> /\ force[1] \in Int /\ force[2] \in Int
        /\ d * force[1] = 12 * v[1] /\ d * force[2] = 12 * v[2]
    <3>1. (12 * v[1]) % d = 0 /\ (12 * v[2]) % d = 0
      BY <2>1 DEF Divides
    <3>2. force = <<(12 * v[1]) \div d, (12 * v[2]) \div d>>
      BY <2>1 DEF Quotient
    <3>3. 12 * v[1] \in Int /\ 12 * v[2] \in Int
      BY <1>2
    <3>4. QED
      BY <2>3, <3>1, <3>2, <3>3
  <2>5. /\ SameLine(force[1], force[2], v[1], v[2]) /\ Ahead(force[1], force[2], v[1], v[2])
    <3>1. PICK c \in Int : c > 0 /\ AreMultiples(d, force[1], force[2], c, v[1], v[2])
      BY <2>4, 12 \in Int /\ 12 > 0 DEF AreMultiples
    <3>2. v[1] * v[1] + v[2] * v[2] > 0
      BY <1>5, <1>6, <2>2
    <3>3. /\ d \in Nat \ {0} /\ v[1] \in Int /\ v[2] \in Int
          /\ force[1] \in Int /\ force[2] \in Int
      BY <1>2, <2>2, <2>4
    <3>4. QED
      BY <3>1, <3>2, <3>3, Multiples
  <2>6. force[1] * v[2] = force[2] * v[1] /\ force[1] * v[1] + force[2] * v[2] > 0
    BY <2>5 DEF SameLine, Ahead
  <2>7. force \in Plane
    BY <2>4 DEF Plane
  <2>8. v # Null
    BY <1>8, <1>11
  <2>9. QED
    BY <2>6, <2>7, <2>8, <1>11 DEF Pulls, force, v
<1>12. CASE d # 0 /\ kind = "Repulsive" /\ d < 3
  <2>1. d \in {1, 2} /\ v # Null
    BY <1>5, <1>8, <1>12
  <2>2. PICK c \in {-8, -1} : force = <<c * v[1], c * v[2]>>
    <3>1. CASE d = 1
      <4>1. force = Quotient(<<(-24) * v[1], (-24) * v[2]>>, 3)
        BY <1>4, <1>12, <3>1 DEF Scale
      <4>2. force = <<((-24) * v[1]) \div 3, ((-24) * v[2]) \div 3>>
        BY <4>1 DEF Quotient
      <4>3. ((-24) * v[1]) \div 3 = (-8) * v[1] /\ ((-24) * v[2]) \div 3 = (-8) * v[2]
        BY <1>2
      <4>4. QED
        BY <4>2, <4>3
    <3>2. CASE d = 2
      <4>1. force = Quotient(<<(-12) * v[1], (-12) * v[2]>>, 12)
        BY <1>4, <1>12, <3>2 DEF Scale
      <4>2. force = <<((-12) * v[1]) \div 12, ((-12) * v[2]) \div 12>>
        BY <4>1 DEF Quotient
      <4>3. ((-12) * v[1]) \div 12 = (-1) * v[1] /\ ((-12) * v[2]) \div 12 = (-1) * v[2]
        BY <1>2
      <4>4. QED
        BY <4>2, <4>3
    <3>3. QED
      BY <2>1, <3>1, <3>2
  <2>3. /\ SameLine(force[1], force[2], v[1], v[2]) /\ Back(force[1], force[2], v[1], v[2])
    <3>1. force[1] = c * v[1] /\ force[2] = c * v[2] /\ force[1] \in Int /\ force[2] \in Int
      BY <1>2, <2>2
    <3>2. AreMultiples(1, force[1], force[2], c, v[1], v[2]) /\ c \in Int /\ c < 0
      BY <3>1, <2>2 DEF AreMultiples
    <3>3. v[1] * v[1] + v[2] * v[2] > 0
      BY <1>5, <1>6, <2>1
    <3>4. 1 \in Nat \ {0} /\ v[1] \in Int /\ v[2] \in Int /\ force[1] \in Int /\ force[2] \in Int
      BY <1>2, <3>1
    <3>5. QED
      BY <3>2, <3>3, <3>4, Multiples
  <2>4. force[1] * v[2] = force[2] * v[1] /\ force[1] * v[1] + force[2] * v[2] < 0
    BY <2>3 DEF SameLine, Back
  <2>5. force \in Plane
    BY <1>2, <2>2 DEF Plane
  <2>6. QED
    BY <1>9, <1>12, <2>1, <2>4, <2>5 DEF Pulls, force, v
<1>13. CASE d # 0 /\ kind = "Repulsive" /\ d >= 3
  <2>1. force = Null /\ ~(Squared(v) < 9)
    BY <1>4, <1>5, <1>9, <1>13
  <2>2. QED
    BY <1>2, <1>7, <1>13, <2>1 DEF Pulls, force, v
<1>14. QED
  BY <1>5, <1>10, <1>11, <1>12, <1>13

-----------------------------------------------------------------------------
(* The operator the scanner finds                                           *)

\* What the scanner measures, what its detector kept of the walls, and what that finds.
Distances(things) == Scan(Laser, things)
Walled == MaximumDistances(Laser, Distances(Walls))
Found(people) == LaserScannerDetector(Laser, Walled, Distances(Walls \union people))

\* A scene the detector can tell: no wall at the very minimum (init() drops it and
\* compute() takes it for a person), whoever is seen stands between the minimum and the wall with
\* its threshold, and those equally near, of whom it takes the first, are all in reach of the
\* robot or none is.  With nobody to be seen, the point ahead it reports is out of reach.
InReach(p, rob) == Squared(Minus(p, rob.at)) <= Reach * Reach
Detectable(people, rob) ==
    /\ \A i \in 0 .. 3 : Distances(Walls)[i] # Laser.minimum
    /\ \A i \in 0 .. 3, d \in 1 .. Laser.maximum - 1 :
          ToBase(Laser, Beam(i, d)) \in Seen(people) =>
              Laser.minimum <= d /\ d < Walled[i] - Laser.threshold
    /\ \A p, q \in NearestSeen(people) : InReach(p, rob) = InReach(q, rob)
    /\ Seen(people) = {} => ~InReach(ToBase(Laser, <<Laser.maximum, 0>>), rob)

\* A set of natural numbers has a least one.
LEMMA LeastOf ==
  ASSUME NEW S, S \subseteq Nat, S # {}
  PROVE  \E m \in S : \A k \in S : m <= k
<1>1. PICK m \in S : \A k \in S : ~(<<k, m>> \in OpToRel(<, Nat))
  BY NatLessThanWellFounded, WFMin, Zenon
<1>2. \A k \in S : ~(k < m)
  BY <1>1 DEF OpToRel
<1>3. \A k \in S : k \in Nat /\ m \in Nat /\ ~(k < m)
  BY <1>2
<1>4. QED
  BY <1>3

\* A beam ends at the first thing in it.
LEMMA ScanIs ==
  ASSUME NEW things, NEW i \in 0 .. 3
  PROVE  \/ /\ Distances(things)[i] = Laser.maximum + 1
            /\ \A d \in 1 .. Laser.maximum : ToBase(Laser, Beam(i, d)) \notin things
         \/ /\ Distances(things)[i] \in 1 .. Laser.maximum
            /\ ToBase(Laser, Beam(i, Distances(things)[i])) \in things
            /\ \A d \in 1 .. Distances(things)[i] - 1 : ToBase(Laser, Beam(i, d)) \notin things
<1> DEFINE hits == {d \in 1 .. Laser.maximum : ToBase(Laser, Beam(i, d)) \in things}
<1>1. Distances(things)[i] =
          IF hits = {} THEN Laser.maximum + 1 ELSE CHOOSE d \in hits : \A e \in hits : d <= e
  BY DEF Distances, Scan
<1>2. CASE hits = {}
  BY <1>1, <1>2
<1>3. CASE hits # {}
  <2>1. hits \subseteq Nat
    BY LaserAssumption
  <2>2. PICK d \in hits : \A e \in hits : d <= e
    BY <1>3, <2>1, LeastOf
  <2>3. Distances(things)[i] \in hits /\ \A e \in hits : Distances(things)[i] <= e
    BY <1>1, <1>3, <2>2
  <2>4. \A e \in 1 .. Distances(things)[i] - 1 : e \notin hits /\ e \in 1 .. Laser.maximum
    BY <2>3, LaserAssumption
  <2>5. QED
    BY <2>3, <2>4
<1>4. QED
  BY <1>2, <1>3

\* Beams do not cross, and an end of one is as far from the scanner as it is long.
LEMMA BeamFacts ==
  ASSUME NEW i \in 0 .. 3, NEW j \in 0 .. 3, NEW d \in Nat \ {0}, NEW e \in Nat \ {0}
  PROVE  /\ ToBase(Laser, Beam(i, d)) \in Plane
         /\ ToBase(Laser, Beam(i, d)) = ToBase(Laser, Beam(j, e)) => i = j /\ d = e
         /\ Squared(Minus(ToBase(Laser, Beam(i, d)), Laser.at)) = d * d
<1> DEFINE r == Laser.rotation
<1>1. r \in 0 .. 3 /\ Laser.at \in Plane
  BY LaserAssumption
<1>2. ASSUME NEW k \in 0 .. 3, NEW c \in Nat \ {0}
      PROVE  Beam(k, c) = IF k = 0 THEN <<-c, 0>> ELSE IF k = 1 THEN <<0, -c>>
                          ELSE IF k = 2 THEN <<c, 0>> ELSE <<0, c>>
  <2>1. /\ (0 + 2) % 4 = 2 /\ (1 + 2) % 4 = 3 /\ (2 + 2) % 4 = 0 /\ (3 + 2) % 4 = 1
        /\ k \in {0, 1, 2, 3}
    OBVIOUS
  <2>2. /\ Rotate(0, <<c, 0>>) = <<c, 0>> /\ Rotate(1, <<c, 0>>) = <<0, c>>
        /\ Rotate(2, <<c, 0>>) = <<-c, 0>> /\ Rotate(3, <<c, 0>>) = <<0, -c>>
    BY DEF Rotate
  <2>3. QED
    BY <2>1, <2>2 DEF Beam
<1>3. ASSUME NEW k \in 0 .. 3, NEW c \in Nat \ {0}
      PROVE  /\ Beam(k, c) \in Plane
             /\ Beam(k, c)[1] * Beam(k, c)[1] + Beam(k, c)[2] * Beam(k, c)[2] = c * c
  BY <1>2 DEF Plane
<1>4. Beam(i, d) = Beam(j, e) => i = j /\ d = e
  <2>1. Beam(i, d) = Beam(j, e) => Beam(i, d)[1] = Beam(j, e)[1] /\ Beam(i, d)[2] = Beam(j, e)[2]
    OBVIOUS
  <2>2. i \in {0, 1, 2, 3} /\ j \in {0, 1, 2, 3}
    OBVIOUS
  <2>3. QED
    BY <1>2, <2>1, <2>2
<1>5. ASSUME NEW k \in 0 .. 3, NEW c \in Nat \ {0}
      PROVE  /\ Rotate(r, Beam(k, c)) \in Plane
             /\ Minus(ToBase(Laser, Beam(k, c)), Laser.at) = Rotate(r, Beam(k, c))
             /\ RotateBack(r, Rotate(r, Beam(k, c))) = Beam(k, c)
             /\ ToBase(Laser, Beam(k, c)) \in Plane
  <2>1. Rotate(r, Beam(k, c)) \in Plane /\ RotateBack(r, Rotate(r, Beam(k, c))) = Beam(k, c)
    BY <1>1, <1>3, RotateFacts
  <2>2. QED
    BY <1>1, <2>1, VectorFacts, 0 \in Int DEF ToBase
<1>6. Squared(Rotate(r, Beam(i, d))) = d * d
  <2> DEFINE b == Beam(i, d)
  <2>1. b \in Plane /\ b[1] * b[1] + b[2] * b[2] = d * d
    BY <1>3
  <2> HIDE DEF b
  <2>2. Rotate(r, b)[1] * Rotate(r, b)[1] + Rotate(r, b)[2] * Rotate(r, b)[2] =
            b[1] * b[1] + b[2] * b[2]
    BY <1>1, <2>1, RotateLinear, 0 \in Int
  <2>3. QED
    BY <2>1, <2>2 DEF b, Squared
<1>7. QED
  BY <1>4, <1>5, <1>6

\* The beams in which the detector finds something new are those in which someone is seen.
News(people) ==
    {i \in 0 .. 3 : LET d == Distances(Walls \union people)[i] IN
        d < Walled[i] - Laser.threshold /\ d >= Laser.minimum /\ d < Laser.maximum}

\* A person is where something new is found ...
LEMMA NewIsSeen ==
  ASSUME NEW people, NEW i \in News(people), \A j \in 0 .. 3 : Distances(Walls)[j] # Laser.minimum
  PROVE  LET d == Distances(Walls \union people)[i]
         IN  d \in 1 .. Laser.maximum - 1 /\ ToBase(Laser, Beam(i, d)) \in Seen(people)
<1> DEFINE things == Walls \union people
           d == Distances(things)[i]
           w == Distances(Walls)[i]
           At(c) == ToBase(Laser, Beam(i, c))
<1>1. /\ i \in 0 .. 3 /\ d < Walled[i] - Laser.threshold /\ d >= Laser.minimum
      /\ d < Laser.maximum
  BY DEF News
<1>2. /\ Laser.minimum \in Nat /\ Laser.maximum \in Nat \ {0} /\ Laser.threshold \in Nat
  BY LaserAssumption
<1>3. \/ d = Laser.maximum + 1
      \/ /\ d \in 1 .. Laser.maximum /\ At(d) \in things
         /\ \A e \in 1 .. d - 1 : At(e) \notin things
  BY <1>1, ScanIs
<1> HIDE DEF d, At, things
<1>4. /\ d \in 1 .. Laser.maximum - 1 /\ At(d) \in things
      /\ \A e \in 1 .. d - 1 : At(e) \notin things
  BY <1>1, <1>2, <1>3
<1>5. Walled[i] = IF Laser.minimum < w /\ w < Laser.maximum THEN w ELSE Laser.maximum
  BY <1>1 DEF Walled, MaximumDistances
<1>6. \/ w = Laser.maximum + 1 /\ \A e \in 1 .. Laser.maximum : At(e) \notin Walls
      \/ w \in 1 .. Laser.maximum /\ At(w) \in Walls /\ \A e \in 1 .. w - 1 : At(e) \notin Walls
  BY <1>1, ScanIs DEF At
<1> HIDE DEF w
<1>7. At(d) \notin Walls
  <2> SUFFICES ASSUME At(d) \in Walls PROVE FALSE
    OBVIOUS
  <2>1. w \in 1 .. Laser.maximum /\ At(w) \in Walls /\ w <= d
    BY <1>2, <1>4, <1>6
  <2>2. w \notin 1 .. d - 1
    BY <1>4, <2>1 DEF things
  <2>3. w = d
    BY <1>4, <2>1, <2>2
  <2>4. w # Laser.minimum
    BY <1>1 DEF w
  <2>5. QED
    BY <1>1, <1>2, <1>4, <1>5, <2>3, <2>4
<1>8. At(d) \in people /\ \A e \in 1 .. d : At(e) \notin Walls \union (people \ {At(d)})
  <2>1. ASSUME NEW e \in 1 .. d PROVE At(e) \notin Walls \union (people \ {At(d)})
    BY <1>4, <1>7 DEF things
  <2>2. QED
    BY <1>4, <1>7, <2>1 DEF things
<1>9. At(d) \in Seen(people)
  BY <1>1, <1>4, <1>8 DEF Seen, At
<1>10. QED
  BY <1>4, <1>9 DEF d, At, things

\* ... and the other way round.
LEMMA SeenIsNew ==
  ASSUME NEW people, NEW rob, Detectable(people, rob), NEW p \in Seen(people)
  PROVE  \E i \in News(people) : p = ToBase(Laser, Beam(i, Distances(Walls \union people)[i]))
<1> DEFINE things == Walls \union people
<1>1. PICK i \in 0 .. 3, d \in 1 .. Laser.maximum - 1 :
          /\ p = ToBase(Laser, Beam(i, d)) /\ p \in people
          /\ \A e \in 1 .. d : ToBase(Laser, Beam(i, e)) \notin Walls \union (people \ {p})
  BY DEF Seen
<1>2. /\ Laser.minimum \in Nat /\ Laser.maximum \in Nat \ {0} /\ Laser.threshold \in Nat
      /\ d \in Nat \ {0} /\ d < Laser.maximum
  BY LaserAssumption
<1> DEFINE At(c) == ToBase(Laser, Beam(i, c))
<1>3. \A e \in 1 .. d - 1 : At(e) \notin things
  <2>1. ASSUME NEW e \in 1 .. d - 1 PROVE At(e) # p
    <3>1. e \in Nat \ {0} /\ e # d
      BY <1>2
    <3>2. QED
      BY <1>1, <1>2, <3>1, BeamFacts
  <2>2. \A e \in 1 .. d - 1 : e \in 1 .. d
    BY <1>2
  <2>3. QED
    BY <1>1, <2>1, <2>2
<1>4. Distances(things)[i] = d
  <2>1. At(d) \in things /\ d \in 1 .. Laser.maximum
    BY <1>1, <1>2
  <2>2. \/ Distances(things)[i] = Laser.maximum + 1
           /\ \A e \in 1 .. Laser.maximum : At(e) \notin things
        \/ /\ Distances(things)[i] \in 1 .. Laser.maximum
           /\ At(Distances(things)[i]) \in things
           /\ \A e \in 1 .. Distances(things)[i] - 1 : At(e) \notin things
    BY ScanIs
  <2> HIDE DEF At, things
  <2>3. QED
    BY <1>2, <1>3, <2>1, <2>2
<1>5. Laser.minimum <= d /\ d < Walled[i] - Laser.threshold
  BY <1>1 DEF Detectable
<1>6. i \in News(people)
  BY <1>2, <1>4, <1>5 DEF News
<1>7. QED
  BY <1>1, <1>4, <1>6

\* Squares of natural numbers are in their order.
LEMMA SquaresOrdered ==
  ASSUME NEW a \in Nat, NEW b \in Nat, a <= b
  PROVE  a * a <= b * b
<1>1. a * a <= a * b
  BY SMTT(30)
<1>2. a * b <= b * b
  BY SMTT(30)
<1>3. QED
  BY <1>1, <1>2

\* What the detector finds is in reach of the robot if and only if whoever is nearest to the
\* scanner, of those it sees, is.
LEMMA FoundIsNearest ==
  ASSUME NEW people, NEW rob, Detectable(people, rob)
  PROVE  /\ ToBase(Laser, Found(people)) \in Plane
         /\ InReach(ToBase(Laser, Found(people)), rob) <=>
                \E p \in NearestSeen(people) : InReach(p, rob)
<1> DEFINE dist == Distances(Walls \union people)
           news == News(people)
           First(i) == \A j \in news : dist[i] < dist[j] \/ (dist[i] = dist[j] /\ i <= j)
           nearest == CHOOSE i \in news : First(i)
           p == ToBase(Laser, Beam(nearest, dist[nearest]))
<1>1. Found(people) = IF news = {} THEN <<Laser.maximum, 0>> ELSE Beam(nearest, dist[nearest])
  BY DEF Found, LaserScannerDetector, News
<1>2. \A i \in 0 .. 3 : Distances(Walls)[i] # Laser.minimum
  BY DEF Detectable
<1>3. CASE news = {}
  <2>1. Seen(people) = {}
    BY <1>3, SeenIsNew
  <2>2. NearestSeen(people) = {}
    BY <2>1 DEF NearestSeen
  <2>3. Rotate(Laser.rotation, <<Laser.maximum, 0>>) \in Plane /\ Laser.at \in Plane
    BY LaserAssumption, RotateFacts DEF Plane
  <2>4. ToBase(Laser, <<Laser.maximum, 0>>) \in Plane
    BY <2>3, VectorFacts, 0 \in Int DEF ToBase
  <2>5. QED
    BY <1>1, <1>3, <2>1, <2>2, <2>4 DEF Detectable
<1>4. CASE news # {}
  <2>1. \A i \in news : /\ i \in 0 .. 3 /\ dist[i] \in Nat \ {0}
                        /\ ToBase(Laser, Beam(i, dist[i])) \in Seen(people)
    <3> SUFFICES ASSUME NEW i \in news
                 PROVE  /\ i \in 0 .. 3 /\ dist[i] \in Nat \ {0}
                        /\ ToBase(Laser, Beam(i, dist[i])) \in Seen(people)
      OBVIOUS
    <3>1. /\ dist[i] \in 1 .. Laser.maximum - 1
          /\ ToBase(Laser, Beam(i, dist[i])) \in Seen(people)
      BY <1>2, NewIsSeen
    <3>2. i \in 0 .. 3
      BY DEF News
    <3> HIDE DEF dist, news
    <3>3. QED
      BY <3>1, <3>2, LaserAssumption
  <2> HIDE DEF news, dist
  <2>2. \E i \in news : First(i)
    <3> DEFINE Key(i) == 4 * dist[i] + i
               Keys == {Key(i) : i \in news}
    <3>1. Keys \subseteq Nat /\ Keys # {}
      BY <1>4, <2>1
    <3>2. PICK k \in Keys : \A l \in Keys : k <= l
      BY <3>1, LeastOf
    <3>3. PICK i \in news : k = Key(i)
      OBVIOUS
    <3>4. ASSUME NEW j \in news PROVE dist[i] < dist[j] \/ (dist[i] = dist[j] /\ i <= j)
      <4>1. 4 * dist[i] + i <= 4 * dist[j] + j
        BY <3>2, <3>3
      <4>2. i \in 0 .. 3 /\ j \in 0 .. 3 /\ dist[i] \in Nat /\ dist[j] \in Nat
        BY <2>1
      <4>3. QED
        BY <4>1, <4>2
    <3>5. QED
      BY <3>4
  <2>3. nearest \in news /\ First(nearest)
    BY <2>2
  <2> HIDE DEF nearest
  <2>4. p \in Plane /\ p \in Seen(people) /\ Squared(Minus(p, Laser.at)) = dist[nearest] * dist[nearest]
    BY <2>1, <2>3, BeamFacts
  <2>5. ASSUME NEW q \in Seen(people)
        PROVE  Squared(Minus(p, Laser.at)) <= Squared(Minus(q, Laser.at))
    <3>1. PICK j \in news : q = ToBase(Laser, Beam(j, dist[j]))
      BY SeenIsNew DEF news, dist
    <3>2. Squared(Minus(q, Laser.at)) = dist[j] * dist[j]
      BY <2>1, <3>1, BeamFacts
    <3>3. dist[nearest] <= dist[j] /\ dist[nearest] \in Nat /\ dist[j] \in Nat
      BY <2>1, <2>3, <3>1
    <3>4. dist[nearest] * dist[nearest] <= dist[j] * dist[j]
      BY <3>3, SquaresOrdered
    <3>5. QED
      BY <2>4, <3>2, <3>4
  <2>6. p \in NearestSeen(people)
    BY <2>4, <2>5 DEF NearestSeen
  <2>7. ToBase(Laser, Found(people)) = p
    BY <1>1, <1>4
  <2>8. \A q \in NearestSeen(people) : InReach(q, rob) = InReach(p, rob)
    BY <2>6 DEF Detectable
  <2>9. QED
    BY <2>4, <2>6, <2>7, <2>8
<1>5. QED
  BY <1>3, <1>4

\* The distance the robot is given in its own frame is the one in the base frame.
LEMMA ReachInBase ==
  ASSUME NEW people, NEW rob, rob.at \in Plane, rob.rotation \in 0 .. 3,
         ToBase(Laser, Found(people)) \in Plane
  PROVE  Squared(LaserInTCPFrame(rob, Laser, Found(people))) <= Reach * Reach
            <=> InReach(ToBase(Laser, Found(people)), rob)
<1> DEFINE way == Minus(ToBase(Laser, Found(people)), rob.at)
<1>2. way \in Plane
  BY VectorFacts, 0 \in Int
<1>3. RotateBack(rob.rotation, way) \in Plane /\ Rotate(rob.rotation, RotateBack(rob.rotation, way)) = way
  BY <1>2, RotateFacts
<1> DEFINE b == RotateBack(rob.rotation, way)
<1> HIDE DEF b, way
<1>4. Rotate(rob.rotation, b)[1] * Rotate(rob.rotation, b)[1]
        + Rotate(rob.rotation, b)[2] * Rotate(rob.rotation, b)[2] = b[1] * b[1] + b[2] * b[2]
  BY <1>3, RotateLinear, 0 \in Int DEF b
<1>5. Squared(b) = Squared(way)
  BY <1>3, <1>4 DEF b, Squared
<1>6. QED
  BY <1>5 DEF LaserInTCPFrame, InReach, way, b

-----------------------------------------------------------------------------
(* The inductive invariant                                                  *)

\* What the shared robot can be.
Robots == [at : Plane, rotation : 0 .. 3, force : Plane, acceleration : {Null}]

\* The force control, and what is remembered of it.
TypedControl(control, memory) ==
    /\ control \in [type : {"Environment", "Robot"}, divisor : Nat \ {0}, prev_error_ : Plane]
    /\ memory \in [selection : Plane, velocity : Plane, largest : Nat \X Nat]
ControlTypeOK == TypedControl(force_control, controlled)

\* Types, as far as the proofs use them.
TypeOK ==
    /\ pc \in {"read", "compute", "send"} /\ frame \in {"TCP", "Base"} /\ cycles \in Nat
    /\ joints \in [x : Int, y : Int, slide : Int, turn : 0 .. 3]
    /\ robot \in Robots /\ asked.from \in Robots
    /\ command \in [x : Int, y : Int, slide : Int, turn : {0, 1}]
    /\ ControlTypeOK

\* After a read the controller knows where the joints have the control point.
Located == pc # "read" => robot.at = Jacobian(joints)

\* The derivator has seen the last position, and the integrator is there.
Follows ==
    /\ cycles = 0 /\ pc # "send" => asked.what.kind = "nothing"
    /\ cycles > 0 \/ pc # "read" =>
           integrator.output = robot.at /\ derivator.previous = robot.at
    /\ pc = "send" \/ (pc = "read" /\ cycles > 0) => asked.from.at = robot.at
    /\ AfterACycle => derivator.output \in {Null, Moved}

\* Where the control point is going to be at the next read.
Heading == IF pc = "send" THEN Add(Jacobian(joints), Jacobian(command)) ELSE Jacobian(joints)
Moving == Minus(Heading, asked.from.at)

\* The separation constraint allows no motion.
Blocked(rob, people) == Squared(LaserInTCPFrame(rob, Laser, Found(people))) <= Reach * Reach

\* The motion asked for is the one under way, from the command to the next one.
Means ==
    LET what == asked.what IN
    /\ what.kind = "proxy" => Moving = InBase(what.by, frame)
    /\ what.kind = "mass" => Moving = InBase(what.by, what.in)
    /\ what.kind = "force" => Moving = InBase(Deadband(what.threshold, asked.from.force), "TCP")
    /\ what.kind = "stiffness" => Heading = what.target
    /\ what.kind \in {"Attractive", "Repulsive"} =>
           Pulls(what.kind, Moving,
                 Minus(what.at, Add(asked.from.at, Rotate(asked.from.rotation, Offset))))
    /\ what.kind = "null_space" => Moving = Null
    /\ what.kind = "joints" => Moving = Jacobian(what.by)
    /\ what.kind = "operator" =>
           Moving = IF Blocked(asked.from, what.people) THEN Null ELSE InBase(what.by, frame)

\* How much of an error is velocity, n times, in a run that measures nothing.
Response(n, i) == (n - 1) * Gains.p[i] - Gains.d[i]

\* The error that force control keeps of an axis is no larger than those measured there, and
\* of an axis that it was not given it is what the velocity says, ...
KeptBy(control, memory) ==
    LET n == control.divisor
        kept == control.prev_error_
    IN  \A i \in 1 .. 2 :
            /\ Size(kept[i]) <= memory.largest[i]
            /\ memory.selection[i] = 0 =>
                   (n - 1) * memory.velocity[i] = Response(n, i) * kept[i]
Kept == KeptBy(force_control, controlled)

\* ... so the next velocity fades if the axis is not given again.
FadesAt(i, what, along) ==
    LET n == what.divisor IN
    what.selection[i] = 0 =>
        /\ n * Size(along[i]) <= Size(Response(n, i)) * what.before.largest[i]
        /\ what.before.selection[i] = 0 => n * along[i] = (n - 1) * what.before.velocity[i]

Along == IF frame = "TCP" THEN RotateBack(asked.from.rotation, Moving) ELSE Moving
Fades == asked.what.kind = "force_control" => \A i \in 1 .. 2 : FadesAt(i, asked.what, Along)

\* The inductive invariant.
Inv == TypeOK /\ Located /\ Follows /\ Means /\ Kept /\ Fades

-----------------------------------------------------------------------------
(* A cycle of the controller                                                *)

\* Whatever the generator, a cycle of the controller only commands.
Commanded ==
    /\ pc = "compute" /\ pc' = "send" /\ frame' = frame /\ joints' = joints
    /\ robot' = robot /\ cycles' = cycles
    /\ derivator' = derivator /\ integrator' = integrator /\ asked'.from = robot
    /\ command' \in [x : Int, y : Int, slide : Int, turn : {0, 1}]

\* What a cycle gives the control point: the velocity of the generator, turned into the
\* base frame, and what the joint velocities add.
LEMMA DriveMoves ==
  ASSUME TypeOK, Located, NEW velocity \in Plane,
         NEW given, given.x \in Int, given.y \in Int, given.slide \in Int,
         NEW what, Drive(velocity, given, what)
  PROVE  /\ Commanded /\ asked' = [what |-> what, from |-> robot]
         /\ Moving' = Add(Rotate(robot.rotation, velocity), Jacobian(given))
         /\ Heading' = Add(robot.at, Moving')
<1> DEFINE turned == Rotate(robot.rotation, velocity)
           task == JacobianInverse(turned)
<1>1. /\ pc = "compute" /\ pc' = "send" /\ frame' = frame /\ joints' = joints
      /\ robot' = robot /\ cycles' = cycles
      /\ derivator' = derivator /\ integrator' = integrator
      /\ asked' = [what |-> what, from |-> robot]
      /\ command' = Turned(PlusJoints(task, given), 1)
  BY DEF Drive
<1>2. robot.at \in Plane /\ robot.rotation \in 0 .. 3 /\ robot.at = Jacobian(joints)
  BY <1>1 DEF TypeOK, Robots, Located
<1>3. turned \in Plane
  BY <1>2, RotateFacts
<1> HIDE DEF turned
<1>4. /\ task.x \in Int /\ task.y \in Int /\ task.slide \in Int
      /\ Jacobian(task) = turned
  BY <1>3, JointFacts
<1> HIDE DEF task
<1>5. command' \in [x : Int, y : Int, slide : Int, turn : {0, 1}]
  BY <1>1, <1>4 DEF Turned, PlusJoints
<1>6. Jacobian(command') = Add(turned, Jacobian(given)) /\ Jacobian(given) \in Plane
  BY <1>1, <1>3, <1>4, JointFacts
<1>7. Heading' = Add(robot.at, Add(turned, Jacobian(given)))
  BY <1>1, <1>2, <1>6 DEF Heading
<1>8. asked'.from = robot
  BY <1>1
<1>9. Add(turned, Jacobian(given)) \in Plane
  BY <1>3, <1>6, VectorFacts
<1>10. Moving' = Add(turned, Jacobian(given))
  <2>1. Moving' = Minus(Heading', asked'.from.at)
    BY DEF Moving
  <2>2. Moving' = Minus(Add(robot.at, Add(turned, Jacobian(given))), robot.at)
    BY <2>1, <1>7, <1>8
  <2>3. QED
    BY <2>2, <1>2, <1>9, VectorFacts
<1>11. QED
  BY <1>1, <1>5, <1>7, <1>8, <1>10 DEF turned, Commanded

\* The same for a generator that gives no joint velocity.
LEMMA DriveAlone ==
  ASSUME TypeOK, Located, NEW velocity \in Plane, NEW what, Drive(velocity, Still, what)
  PROVE  /\ Moving' = Rotate(robot.rotation, velocity) /\ Heading' = Add(robot.at, Moving')
         /\ Commanded /\ asked'.what = what /\ asked'.from = robot /\ frame' = frame
<1>1. Still.x \in Int /\ Still.y \in Int /\ Still.slide \in Int
  BY DEF Still
<1>2. Jacobian(Still) = Null
  BY DEF Jacobian, Still, Null, Vector
<1>3. Rotate(robot.rotation, velocity) \in Plane
  BY RotateFacts DEF TypeOK, Robots
<1>4. QED
  BY <1>1, <1>2, <1>3, DriveMoves, VectorFacts DEF Commanded

\* What a generator transforms and the controller turns is back in the base frame.
LEMMA Transformed ==
  ASSUME TypeOK, NEW v \in Plane, NEW given \in {"TCP", "Base"}
  PROVE  /\ Transform(robot, given, v) \in Plane
         /\ Rotate(robot.rotation, Transform(robot, given, v)) =
               IF given = "TCP" THEN Rotate(robot.rotation, v) ELSE v
BY RotateFacts DEF Transform, TypeOK, Robots

\* A velocity given by proxy is the motion.
LEMMA ProxyMeans ==
  ASSUME TypeOK, Located, ByProxy
  PROVE  Commanded /\ Means' /\ Fades'
<1>1. PICK v \in Displacements :
          Drive(VelocityProxy(robot, frame, v), Still, [kind |-> "proxy", by |-> v])
  BY DEF ByProxy
<1>2. v \in Plane /\ frame \in {"TCP", "Base"}
  BY RobotLoopAssumption DEF TypeOK
<1>3. /\ VelocityProxy(robot, frame, v) \in Plane
      /\ Rotate(robot.rotation, VelocityProxy(robot, frame, v)) =
            IF frame = "TCP" THEN Rotate(robot.rotation, v) ELSE v
  BY <1>2, Transformed DEF VelocityProxy, TransformVelocity
<1>4. /\ Commanded /\ Moving' = IF frame = "TCP" THEN Rotate(robot.rotation, v) ELSE v
      /\ frame' = frame /\ asked'.what = [kind |-> "proxy", by |-> v] /\ asked'.from = robot
  BY <1>1, <1>3, DriveAlone
<1>5. asked'.what.kind = "proxy" /\ asked'.what.by = v
  BY <1>4
<1>6. Moving' = InBase(asked.what.by, frame)'
  BY <1>4, <1>5 DEF InBase
<1>7. QED
  BY <1>4, <1>5, <1>6 DEF Means, Fades

\* The velocity is kept from the operator that the detector finds.
LEMMA OperatorMeans ==
  ASSUME TypeOK, Located, NearOperator
  PROVE  Commanded /\ Means' /\ Fades'
<1>1. PICK v \in Displacements, people \in People :
          Drive(VelocityProxy(robot, frame,
                    IF Squared(Operator(people)) <= Reach * Reach THEN Null ELSE v),
                Still, [kind |-> "operator", by |-> v, people |-> people])
  BY DEF NearOperator
<1> DEFINE near == Squared(LaserInTCPFrame(robot, Laser, Found(people))) <= Reach * Reach
           allowed == IF near THEN Null ELSE v
<1>2. allowed \in Plane /\ frame \in {"TCP", "Base"} /\ v \in Plane
  BY RobotLoopAssumption DEF TypeOK, Null, Vector, Plane
<1>3. Operator(people) = LaserInTCPFrame(robot, Laser, Found(people))
  BY DEF Operator, Found, Walled, Distances
<1> HIDE DEF near
<1>4. /\ VelocityProxy(robot, frame, allowed) \in Plane
      /\ Rotate(robot.rotation, VelocityProxy(robot, frame, allowed)) =
            IF frame = "TCP" THEN Rotate(robot.rotation, allowed) ELSE allowed
  BY <1>2, Transformed DEF VelocityProxy, TransformVelocity
<1>5. Drive(VelocityProxy(robot, frame, allowed), Still,
            [kind |-> "operator", by |-> v, people |-> people])
  BY <1>1, <1>3 DEF near
<1>6. /\ Commanded /\ Moving' = IF frame = "TCP" THEN Rotate(robot.rotation, allowed) ELSE allowed
      /\ asked'.what = [kind |-> "operator", by |-> v, people |-> people]
      /\ asked'.from = robot /\ frame' = frame
  BY <1>4, <1>5, DriveAlone
<1>7. robot.rotation \in 0 .. 3 /\ Rotate(robot.rotation, Null) = Null
  BY RotateLinear, <1>2, 0 \in Int DEF TypeOK, Robots
<1>8. Moving' = IF near THEN Null ELSE IF frame = "TCP" THEN Rotate(robot.rotation, v) ELSE v
  BY <1>6, <1>7
<1>9. /\ asked'.what.kind = "operator" /\ asked'.what.by = v /\ asked'.what.people = people
      /\ asked'.from.rotation = robot.rotation
  BY <1>6
<1>10. Moving' = (IF Blocked(asked.from, asked.what.people) THEN Null
                  ELSE InBase(asked.what.by, frame))'
  BY <1>6, <1>8, <1>9 DEF InBase, Blocked, near
<1>11. QED
  BY <1>6, <1>9, <1>10 DEF Means, Fades

\* What is left of a force above its threshold is a force.
LEMMA DeadbandPlane ==
  ASSUME NEW threshold \in Plane, NEW v \in Plane
  PROVE  Deadband(threshold, v) \in Plane
<1>1. \A i \in 1 .. 2 : threshold[i] \in Int /\ v[i] \in Int
  BY DEF Plane
<1>2. Deadband(threshold, v) \in [1 .. 2 -> Int]
  BY <1>1 DEF Deadband
<1>3. \A f \in [1 .. 2 -> Int] : f \in Plane
  BY DEF Plane
<1>4. QED
  BY <1>2, <1>3

\* A force that is felt beyond its threshold is the motion, turned as the head is.
LEMMA ForceMeans ==
  ASSUME TypeOK, Located, ByExternalForce
  PROVE  Commanded /\ Means' /\ Fades'
<1>1. PICK threshold \in {Vector(0, 0), Vector(1, 1)} :
          Drive(Proxy(robot, "TCP", Deadband(threshold, robot.force)), Still,
                [kind |-> "force", threshold |-> threshold])
  BY DEF ByExternalForce
<1> DEFINE felt == Deadband(threshold, robot.force)
<1>2. felt \in Plane
  <2>1. threshold \in Plane
    BY DEF Vector, Plane
  <2>2. robot.force \in Plane
    BY DEF TypeOK, Robots
  <2>3. QED
    BY <2>1, <2>2, DeadbandPlane
<1>3. /\ Proxy(robot, "TCP", felt) \in Plane
      /\ Rotate(robot.rotation, Proxy(robot, "TCP", felt)) = Rotate(robot.rotation, felt)
  BY <1>2, Transformed DEF Proxy
<1>4. /\ Commanded /\ Moving' = Rotate(robot.rotation, felt)
      /\ asked'.what = [kind |-> "force", threshold |-> threshold] /\ asked'.from = robot
  BY <1>1, <1>3, DriveAlone
<1>5. asked'.what.kind = "force" /\ asked'.what.threshold = threshold
  BY <1>4
<1>6. Moving' = InBase(Deadband(asked.what.threshold, asked.from.force), "TCP")'
  BY <1>4, <1>5 DEF InBase
<1>7. QED
  BY <1>4, <1>5, <1>6 DEF Means, Fades

\* A stiffness of one takes the control point to its target.
LEMMA StiffnessMeans ==
  ASSUME TypeOK, Located, ByStiffness
  PROVE  Commanded /\ Means' /\ Fades'
<1>1. PICK target \in Targets :
          Drive(StiffnessGenerator(robot, frame, <<1, 1>>, target), Still,
                [kind |-> "stiffness", target |-> target])
  BY DEF ByStiffness
<1> DEFINE k == robot.rotation
           error == Minus(robot.at, target)
           seen == IF frame = "TCP" THEN RotateBack(k, error) ELSE error
           velocity == StiffnessGenerator(robot, frame, <<1, 1>>, target)
<1>2. /\ target \in Plane /\ frame \in {"TCP", "Base"} /\ k \in 0 .. 3 /\ robot.at \in Plane
      /\ error \in Plane
  BY RobotLoopAssumption, VectorFacts DEF TypeOK, Robots
<1>3. seen \in Plane /\ Scale(-1, seen) \in Plane
  <2>1. seen \in Plane
    BY <1>2, RotateFacts
  <2>2. QED
    BY <2>1, VectorFacts, -1 \in Int
<1>4. velocity = Transform(robot, frame, Scale(-1, seen))
  <2>1. Each(<<1, 1>>, Scale(-1, seen)) = Scale(-1, seen)
    BY <1>3, VectorFacts
  <2>2. QED
    BY <2>1 DEF StiffnessGenerator, ErrorWith
<1> HIDE DEF velocity
<1>5. /\ velocity \in Plane
      /\ Rotate(k, velocity) = IF frame = "TCP" THEN Rotate(k, Scale(-1, seen)) ELSE Scale(-1, seen)
  BY <1>2, <1>3, <1>4, Transformed
<1>6. Rotate(k, velocity) = Scale(-1, error)
  <2>1. CASE frame = "TCP"
    <3>1. Rotate(k, Scale(-1, seen)) = Scale(-1, Rotate(k, seen))
      BY <1>2, <1>3, RotateLinear, -1 \in Int
    <3>2. Rotate(k, seen) = error
      BY <1>2, <2>1, RotateFacts
    <3>3. QED
      BY <1>5, <2>1, <3>1, <3>2
  <2>2. CASE frame = "Base"
    BY <1>5, <2>2
  <2>3. QED
    BY <1>2, <2>1, <2>2
<1>7. /\ Commanded /\ Moving' = Rotate(k, velocity) /\ Heading' = Add(robot.at, Moving')
      /\ asked'.what = [kind |-> "stiffness", target |-> target] /\ asked'.from = robot
  BY <1>1, <1>5, DriveAlone DEF velocity
<1>8. Heading' = target
  <2>1. Heading' = Add(robot.at, Scale(-1, Minus(robot.at, target)))
    BY <1>6, <1>7
  <2>2. ASSUME NEW v \in Plane, NEW w \in Plane PROVE Add(v, Scale(-1, Minus(v, w))) = w
    BY DEF Plane, Add, Scale, Minus
  <2>3. QED
    BY <1>2, <2>1, <2>2
<1>9. asked'.what.kind = "stiffness" /\ asked'.what.target = target
  BY <1>7
<1>10. QED
  BY <1>7, <1>8, <1>9 DEF Means, Fades

\* An acceleration is the motion, in the frame it was given in.
LEMMA MassMeans ==
  ASSUME TypeOK, Located, ByMass
  PROVE  Commanded /\ Means' /\ Fades'
<1>1. PICK a \in Displacements, targetFrame \in {"TCP", "Base"} :
          Drive(MassGenerator(robot, frame, targetFrame, <<1, 1>>, a), Still,
                [kind |-> "mass", by |-> a, in |-> targetFrame])
  BY DEF ByMass
<1> DEFINE k == robot.rotation
           seen == IF targetFrame = "TCP" THEN IF frame = "TCP" THEN a ELSE Rotate(k, a)
                   ELSE IF frame = "TCP" THEN RotateBack(k, a) ELSE a
           velocity == MassGenerator(robot, frame, targetFrame, <<1, 1>>, a)
<1>2. /\ a \in Plane /\ frame \in {"TCP", "Base"} /\ k \in 0 .. 3
      /\ robot.acceleration = Null
  BY RobotLoopAssumption DEF TypeOK, Robots
<1>3. seen \in Plane
  BY <1>2, RotateFacts
<1>4. velocity = Transform(robot, frame, seen)
  <2>1. Minus(a, robot.acceleration) = a
    BY <1>2, VectorFacts
  <2>2. Each(<<1, 1>>, seen) = seen
    BY <1>3, VectorFacts
  <2>3. QED
    BY <2>1, <2>2 DEF MassGenerator
<1> HIDE DEF velocity
<1>5. /\ velocity \in Plane
      /\ Rotate(k, velocity) = IF frame = "TCP" THEN Rotate(k, seen) ELSE seen
  BY <1>2, <1>3, <1>4, Transformed
<1>6. Rotate(k, velocity) = IF targetFrame = "TCP" THEN Rotate(k, a) ELSE a
  BY <1>2, <1>5, RotateFacts
<1>7. /\ Commanded /\ Moving' = Rotate(k, velocity)
      /\ asked'.what = [kind |-> "mass", by |-> a, in |-> targetFrame] /\ asked'.from = robot
  BY <1>1, <1>5, DriveAlone DEF velocity
<1>8. asked'.what.kind = "mass" /\ asked'.what.by = a /\ asked'.what.in = targetFrame
  BY <1>7
<1>9. Moving' = InBase(asked.what.by, asked.what.in)'
  BY <1>6, <1>7, <1>8 DEF InBase
<1>10. QED
  BY <1>7, <1>8, <1>9 DEF Means, Fades

\* A force pulls the same way after both have turned.
LEMMA TurnedPulls ==
  ASSUME NEW k \in 0 .. 3, NEW kind, NEW force \in Plane, NEW way \in Plane,
         Pulls(kind, force, way)
  PROVE  Pulls(kind, Rotate(k, force), Rotate(k, way))
<1> DEFINE f == Rotate(k, force)
           w == Rotate(k, way)
<1>1. 0 \in Int /\ f \in Plane /\ w \in Plane
  BY RotateFacts
<1>2. /\ f[1] * w[2] - f[2] * w[1] = force[1] * way[2] - force[2] * way[1]
      /\ f[1] * w[1] + f[2] * w[2] = force[1] * way[1] + force[2] * way[2]
      /\ f = Null <=> force = Null
  BY <1>1, RotateLinear
<1>3. Squared(w) = Squared(way) /\ (w = Null <=> way = Null)
  BY <1>1, RotateLinear DEF Squared
<1> HIDE DEF f, w
<1>4. f[1] * w[2] = f[2] * w[1] <=> force[1] * way[2] = force[2] * way[1]
  <2>1. ASSUME NEW a \in Int, NEW b \in Int, NEW c \in Int, NEW d \in Int, a - b = c - d
        PROVE  a = b <=> c = d
    BY <2>1
  <2>2. ASSUME NEW v \in Plane, NEW u \in Plane PROVE v[1] * u[2] \in Int /\ v[2] * u[1] \in Int
    BY DEF Plane
  <2>3. /\ f[1] * w[2] \in Int /\ f[2] * w[1] \in Int
        /\ force[1] * way[2] \in Int /\ force[2] * way[1] \in Int
    BY <1>1, <2>2
  <2>4. QED
    BY <1>2, <2>1, <2>3
<1>5. QED
  BY <1>2, <1>3, <1>4 DEF Pulls, f, w

\* A potential moves the control point as its force on the offset point pulls.
LEMMA PotentialMeans ==
  ASSUME TypeOK, Located, ByPotential
  PROVE  Commanded /\ Means' /\ Fades'
<1>1. PICK at \in Targets, kind \in {"Attractive", "Repulsive"} :
          /\ Measurable(robot, frame, Offset, Potential(kind, Tracked(at)))
          /\ Drive(PotentialFieldGenerator(robot, frame, Offset, <<Potential(kind, Tracked(at))>>),
                   Still, [kind |-> kind, at |-> at])
  BY DEF ByPotential, Potential
<1> DEFINE k == robot.rotation
           object == Potential(kind, Tracked(at))
           from == RobotPosition(robot, frame, Offset)
           force == ObjectForce(robot, frame, Offset, object)
           seen == Minus(Tracked(at), from)
           way == Minus(at, Add(robot.at, Rotate(k, Offset)))
           velocity == PotentialFieldGenerator(robot, frame, Offset, <<object>>)
<1>2. /\ at \in Plane /\ frame \in {"TCP", "Base"} /\ k \in 0 .. 3 /\ robot.at \in Plane
      /\ Offset \in Plane /\ Rotate(k, Offset) \in Plane
  BY RobotLoopAssumption, RotateFacts DEF TypeOK, Robots
<1>3. from \in Plane /\ Tracked(at) \in Plane
  <2>1. Minus(at, robot.at) \in Plane /\ Add(robot.at, Rotate(k, Offset)) \in Plane
    BY <1>2, VectorFacts
  <2>2. QED
    BY <1>2, <2>1, RotateFacts DEF RobotPosition, Tracked
<1>4. seen \in Plane
  BY <1>3, VectorFacts
<1>5. force \in Plane /\ Pulls(kind, force, seen)
  BY <1>1, <1>3, ForceOfObject
<1>6. velocity = Transform(robot, frame, force)
  BY <1>5, OneObject
<1>7. way = IF frame = "TCP" THEN Rotate(k, seen) ELSE seen
  <2>1. CASE frame = "TCP"
    <3>1. seen = Minus(RotateBack(k, Minus(at, robot.at)), Offset)
      BY <2>1 DEF Tracked, RobotPosition
    <3>2. Minus(at, robot.at) \in Plane /\ 0 \in Int
      BY <1>2, VectorFacts
    <3>3. RotateBack(k, Minus(at, robot.at)) \in Plane
      BY <1>2, <3>2, RotateFacts
    <3>4. Rotate(k, seen) = Minus(Rotate(k, RotateBack(k, Minus(at, robot.at))), Rotate(k, Offset))
      BY <1>2, <3>1, <3>2, <3>3, RotateLinear
    <3>5. Rotate(k, seen) = Minus(Minus(at, robot.at), Rotate(k, Offset))
      BY <1>2, <3>2, <3>4, RotateFacts
    <3>6. ASSUME NEW u \in Plane, NEW v \in Plane, NEW w \in Plane
          PROVE  Minus(Minus(u, v), w) = Minus(u, Add(v, w))
      BY DEF Plane, Minus, Add, Scale
    <3>7. QED
      BY <1>2, <2>1, <3>5, <3>6
  <2>2. CASE frame = "Base"
    BY <2>2 DEF Tracked, RobotPosition
  <2>3. QED
    BY <1>2, <2>1, <2>2
<1> HIDE DEF velocity, force, seen, way, from
<1>8. /\ velocity \in Plane
      /\ Rotate(k, velocity) = IF frame = "TCP" THEN Rotate(k, force) ELSE force
  BY <1>2, <1>5, <1>6, Transformed
<1>9. Pulls(kind, Rotate(k, velocity), way)
  BY <1>2, <1>4, <1>5, <1>7, <1>8, TurnedPulls
<1>10. /\ Commanded /\ Moving' = Rotate(k, velocity)
       /\ asked'.what = [kind |-> kind, at |-> at] /\ asked'.from = robot
  BY <1>1, <1>8, DriveAlone DEF velocity
<1>11. asked'.what.kind = kind /\ asked'.what.at = at
  BY <1>10
<1>12. Pulls(asked.what.kind, Moving,
            Minus(asked.what.at, Add(asked.from.at, Rotate(asked.from.rotation, Offset))))'
  BY <1>9, <1>10, <1>11 DEF way
<1>13. QED
  BY <1>10, <1>11, <1>12 DEF Means, Fades

\* A motion of the null space is none of the control point; a joint velocity is its image.
LEMMA JointsMean ==
  ASSUME TypeOK, Located, ByNullSpaceMotion \/ ByJointVelocity
  PROVE  Commanded /\ Means' /\ Fades'
<1>1. Null \in Plane
  BY DEF Null, Vector, Plane
<1>2. robot.rotation \in 0 .. 3 /\ 0 \in Int /\ Rotate(robot.rotation, Null) = Null
  BY <1>1, RotateLinear DEF TypeOK, Robots
<1>3. CASE ByNullSpaceMotion
  <2>1. PICK x \in {-1, 2}, slide \in {-1, 2} :
            Drive(Null, NullSpaceMotion([x |-> x, y |-> 1, slide |-> slide]), [kind |-> "null_space"])
    BY <1>3 DEF ByNullSpaceMotion
  <2> DEFINE q == [x |-> x, y |-> 1, slide |-> slide]
             given == NullSpaceMotion(q)
  <2>2. q.x \in Int /\ q.y \in Int /\ q.slide \in Int
    OBVIOUS
  <2>3. /\ given.x \in Int /\ given.y \in Int /\ given.slide \in Int
        /\ Jacobian(given) = Null
    BY <1>1, <2>2, JointFacts
  <2> HIDE DEF given
  <2>4. /\ Commanded /\ Moving' = Add(Rotate(robot.rotation, Null), Jacobian(given))
        /\ asked' = [what |-> [kind |-> "null_space"], from |-> robot]
    BY <1>1, <2>1, <2>3, DriveMoves DEF given
  <2>5. Moving' = Null
    BY <1>1, <1>2, <2>3, <2>4, VectorFacts
  <2>6. asked'.what.kind = "null_space"
    BY <2>4
  <2>7. QED
    BY <2>4, <2>5, <2>6 DEF Means, Fades
<1>4. CASE ByJointVelocity
  <2>1. PICK x \in {-1, 2} :
            LET given == [x |-> x, y |-> 1, slide |-> 1] IN
            Drive(Null, given, [kind |-> "joints", by |-> given])
    BY <1>4 DEF ByJointVelocity, JointVelocityProxy
  <2> DEFINE given == [x |-> x, y |-> 1, slide |-> 1]
  <2>2. /\ given.x \in Int /\ given.y \in Int /\ given.slide \in Int
        /\ Jacobian(given) \in Plane
    BY DEF Jacobian, Plane
  <2> HIDE DEF given
  <2>3. /\ Commanded /\ Moving' = Add(Rotate(robot.rotation, Null), Jacobian(given))
        /\ asked' = [what |-> [kind |-> "joints", by |-> given], from |-> robot]
    BY <1>1, <2>1, <2>2, DriveMoves DEF given
  <2>4. Moving' = Jacobian(given)
    BY <1>1, <1>2, <2>2, <2>3, VectorFacts
  <2>5. asked'.what.kind = "joints" /\ asked'.what.by = given
    BY <2>3
  <2>6. QED
    BY <2>3, <2>4, <2>5 DEF Means, Fades
<1>5. QED
  BY <1>3, <1>4

\* Arithmetic of one axis: the filtered error e of a measured error m and the one kept before
\* (k), and the velocity v that the gains g and h make of it, against the velocity w before.
LEMMA FilterKeeps ==
  ASSUME NEW n \in Nat \ {0}, NEW m \in Int, NEW k \in Int, NEW e \in Int, NEW l \in Nat,
         n * e = m + (n - 1) * k, Size(k) <= l
  PROVE  Size(e) <= Larger(l, Size(m)) /\ Larger(l, Size(m)) \in Nat
<1> DEFINE b == Larger(l, Size(m))
<1>1. b \in Nat /\ Size(k) <= b /\ Size(m) <= b
  BY DEF Larger, Size
<1> HIDE DEF b
<1>2. k <= b /\ -b <= k /\ m <= b /\ -b <= m
  BY <1>1 DEF Size
<1>3. (n - 1) * k <= (n - 1) * b /\ (n - 1) * (-b) <= (n - 1) * k
  BY <1>1, <1>2
<1>4. (n - 1) * b + b = n * b /\ (n - 1) * (-b) - b = -(n * b) /\ n * (-b) = -(n * b)
  BY <1>1
<1>5. n * e <= n * b /\ n * (-b) <= n * e
  BY <1>1, <1>2, <1>3, <1>4
<1>6. e <= b /\ -b <= e
  BY <1>1, <1>5
<1>7. QED
  BY <1>1, <1>6 DEF Size, b

\* An error that is filtered where nothing is measured, and the velocity made of it.
Unfed(n, k, e) == n * e = (n - 1) * k
MadeOf(v, g, h, e, k) == v = g * e + h * (e - k)
\* The velocity is a share of the error kept; n times it is bounded by that, and by what was
\* before.
FadesFrom(n, c, v, w, e, k, l) ==
    /\ (n - 1) * v = c * e
    /\ n * Size(v) <= Size(c) * l
    /\ (n - 1) * w = c * k => n * v = (n - 1) * w

\* Such a velocity fades.
LEMMA FilterFades ==
  ASSUME NEW n \in Nat \ {0}, NEW k \in Int, NEW e \in Int, NEW g \in Int, NEW h \in Int,
         NEW v \in Int, NEW w \in Int, NEW l \in Nat,
         Unfed(n, k, e), MadeOf(v, g, h, e, k), Size(k) <= l
  PROVE  FadesFrom(n, (n - 1) * g - h, v, w, e, k, l)
<1>0. n * e = (n - 1) * k /\ v = g * e + h * (e - k)
  BY DEF Unfed, MadeOf
<1> DEFINE c == (n - 1) * g - h
<1>1. c \in Int
  OBVIOUS
<1>2. n * v = c * k
  <2>1. n * v = g * (n * e) + h * (n * e) - n * (h * k)
    BY <1>0
  <2>2. g * (n * e) = g * ((n - 1) * k) /\ h * (n * e) = h * ((n - 1) * k)
    BY <1>0
  <2>3. g * ((n - 1) * k) + h * ((n - 1) * k) - n * (h * k) = c * k
    OBVIOUS
  <2>4. QED
    BY <2>1, <2>2, <2>3
<1>3. (n - 1) * v = c * e
  <2>1. (n - 1) * v = (n - 1) * (g * e) + h * ((n - 1) * e) - h * ((n - 1) * k)
    BY <1>0
  <2>2. h * ((n - 1) * k) = h * (n * e)
    BY <1>0
  <2>3. (n - 1) * (g * e) + h * ((n - 1) * e) - h * (n * e) = c * e
    OBVIOUS
  <2>4. QED
    BY <2>1, <2>2, <2>3
<1> HIDE DEF c
<1>4. n * Size(v) <= Size(c) * l
  <2>1. Size(c) \in Nat /\ Size(k) \in Nat /\ Size(v) \in Nat
    BY <1>1 DEF Size
  <2>2. n * Size(v) = Size(n * v)
    BY DEF Size
  <2>3. Size(c * k) = Size(c) * Size(k)
    BY <1>1 DEF Size
  <2>4. Size(c) * Size(k) <= Size(c) * l
    BY <2>1
  <2>5. QED
    BY <1>2, <2>2, <2>3, <2>4
<1>5. QED
  BY <1>2, <1>3, <1>4 DEF c, FadesFrom

\* A quotient that is exact.
LEMMA Exact ==
  ASSUME NEW v \in Plane, NEW n \in Nat \ {0}, Divides(n, v)
  PROVE  /\ Quotient(v, n) \in Plane
         /\ \A i \in 1 .. 2 : n * Quotient(v, n)[i] = v[i]
<1>1. v[1] \in Int /\ v[2] \in Int
  BY DEF Plane
<1>2. \A x \in Int : x % n = 0 => x \div n \in Int /\ n * (x \div n) = x
  OBVIOUS
<1>3. Quotient(v, n)[1] = v[1] \div n /\ Quotient(v, n)[2] = v[2] \div n
  BY DEF Quotient
<1>4. QED
  BY <1>1, <1>2, <1>3 DEF Divides, Quotient, Plane

\* What is measured on the axes of a selection.
LEMMA MeasuredFacts ==
  ASSUME TypeOK, NEW target \in Plane, NEW selection \in Plane, NEW type \in {"Environment", "Robot"}
  PROVE  LET measured == ApplySelection(selection, ForceError(robot, frame, type, target))
         IN  measured \in Plane /\ \A i \in 1 .. 2 : selection[i] = 0 => measured[i] = 0
<1> DEFINE all == ForceError(robot, frame, type, target)
           measured == ApplySelection(selection, all)
<1>1. robot.force \in Plane /\ robot.rotation \in 0 .. 3
  BY DEF TypeOK, Robots
<1>2. all \in Plane
  <2>1. /\ Rotate(robot.rotation, robot.force) \in Plane
        /\ Scale(-1, target) \in Plane
    BY <1>1, RotateFacts, VectorFacts, -1 \in Int
  <2> DEFINE wanted == IF type = "Environment" THEN target ELSE Scale(-1, target)
             felt == IF frame = "TCP" THEN robot.force ELSE Rotate(robot.rotation, robot.force)
  <2>2. wanted \in Plane /\ felt \in Plane
    BY <1>1, <2>1
  <2>3. all = Add(wanted, felt)
    BY DEF ForceError
  <2> HIDE DEF wanted, felt, all
  <2>4. QED
    BY <2>2, <2>3, VectorFacts, 0 \in Int
<1> HIDE DEF all
<1>3. measured \in [1 .. 2 -> Int]
  BY <1>2 DEF ApplySelection, Plane
<1>4. \A f \in [1 .. 2 -> Int] : f = <<f[1], f[2]>>
  OBVIOUS
<1>5. measured \in Plane
  BY <1>3, <1>4 DEF Plane
<1>6. QED
  BY <1>5 DEF ApplySelection, all

\* The error that force control keeps and the velocity it gives, axis by axis.
LEMMA ControlFacts ==
  ASSUME TypeOK, NEW target \in Plane, NEW selection \in Plane,
         IsFilterable(force_control, ApplySelection(selection,
                                        ForceError(robot, frame, force_control.type, target)))
  PROVE  LET n == force_control.divisor
             kept == force_control.prev_error_
             measured == ApplySelection(selection, ForceError(robot, frame, force_control.type, target))
             control == ForceControl(robot, frame, force_control, target, selection, Gains)
             velocity == PDControl(force_control, Gains, control.error)
         IN  /\ control.error \in Plane /\ velocity \in Plane
             /\ control.velocity = Transform(robot, frame, velocity)
             /\ \A i \in 1 .. 2 :
                    /\ n * control.error[i] = measured[i] + (n - 1) * kept[i]
                    /\ velocity[i] = Gains.p[i] * control.error[i]
                                     + Gains.d[i] * (control.error[i] - kept[i])
<1> DEFINE n == force_control.divisor
           kept == force_control.prev_error_
           measured == ApplySelection(selection, ForceError(robot, frame, force_control.type, target))
           weighted == Weighted(force_control, measured)
           control == ForceControl(robot, frame, force_control, target, selection, Gains)
           velocity == PDControl(force_control, Gains, control.error)
<1>1. /\ n \in Nat \ {0} /\ kept \in Plane /\ force_control.type \in {"Environment", "Robot"}
      /\ Gains.p \in Plane /\ Gains.d \in Plane
  BY RobotLoopAssumption DEF TypeOK, ControlTypeOK, TypedControl
<1>2. measured \in Plane
  BY <1>1, MeasuredFacts
<1>3. Divides(n, weighted)
  BY DEF IsFilterable
<1>4. /\ control.error = Quotient(weighted, n)
      /\ control.velocity = Transform(robot, frame, velocity)
  BY DEF ForceControl, Filter, TransformVelocity
<1>5. weighted = Add(measured, Scale(n - 1, kept))
  BY DEF Weighted
<1>6. velocity = Add(Each(Gains.p, control.error), Each(Gains.d, Minus(control.error, kept)))
  BY DEF PDControl
<1> HIDE DEF n, kept, measured, weighted, control, velocity
<1>7. /\ weighted \in Plane
      /\ \A i \in 1 .. 2 : weighted[i] = measured[i] + (n - 1) * kept[i]
  <2>1. n - 1 \in Int
    BY <1>1
  <2>2. ASSUME NEW c \in Int PROVE /\ Add(measured, Scale(c, kept)) \in Plane
                                   /\ \A i \in {1, 2} : Add(measured, Scale(c, kept))[i] = measured[i] + c * kept[i]
    BY <1>1, <1>2 DEF Plane, Add, Scale
  <2>3. QED
    BY <1>5, <2>1, <2>2
<1>8. /\ control.error \in Plane
      /\ \A i \in 1 .. 2 : n * control.error[i] = measured[i] + (n - 1) * kept[i]
  BY <1>1, <1>3, <1>4, <1>7, Exact
<1>9. /\ velocity \in Plane
      /\ \A i \in 1 .. 2 : velocity[i] = Gains.p[i] * control.error[i]
                                         + Gains.d[i] * (control.error[i] - kept[i])
  <2> DEFINE p == Gains.p
             d == Gains.d
             e == control.error
  <2>1. /\ p[1] \in Int /\ p[2] \in Int /\ d[1] \in Int /\ d[2] \in Int
        /\ e[1] \in Int /\ e[2] \in Int /\ kept[1] \in Int /\ kept[2] \in Int
    BY <1>1, <1>8 DEF Plane
  <2>2. velocity = Add(Each(p, e), Each(d, Minus(e, kept)))
    BY <1>6
  <2> HIDE DEF p, d, e
  <2>3. Minus(e, kept) = <<e[1] - kept[1], e[2] - kept[2]>>
    BY <2>1 DEF Minus, Add, Scale
  <2>4. velocity = <<p[1] * e[1] + d[1] * (e[1] - kept[1]), p[2] * e[2] + d[2] * (e[2] - kept[2])>>
    BY <2>2, <2>3 DEF Each, Add
  <2>5. velocity \in Plane
    BY <2>1, <2>4 DEF Plane
  <2>6. \A i \in 1 .. 2 : velocity[i] = p[i] * e[i] + d[i] * (e[i] - kept[i])
    BY <2>4
  <2>7. QED
    BY <2>5, <2>6 DEF p, d, e
<1>10. QED
  BY <1>4, <1>8, <1>9 DEF n, kept, measured, control, velocity

\* What is made anew has kept nothing.
LEMMA NewControl ==
  ASSUME NEW control \in ForceControls
  PROVE  TypedControl(control, Unused) /\ KeptBy(control, Unused)
<1>1. PICK c \in Controls : control = NewForceControl(c[1], c[2])
  BY DEF ForceControls
<1>2. c[1] \in {"Environment", "Robot"} /\ c[2] \in Nat
  BY RobotLoopAssumption
<1>3. control = [type |-> c[1], divisor |-> c[2] + 1, prev_error_ |-> <<0, 0>>]
  BY <1>1 DEF NewForceControl, FilterDivisor, Null, Vector
<1>4. Unused = [selection |-> <<0, 0>>, velocity |-> <<0, 0>>, largest |-> <<0, 0>>]
  BY DEF Unused, Null, Vector
<1>5. TypedControl(control, Unused)
  BY <1>2, <1>3, <1>4 DEF TypedControl, Plane
<1>6. ASSUME NEW i \in 1 .. 2
      PROVE  /\ Size(control.prev_error_[i]) <= Unused.largest[i]
             /\ (control.divisor - 1) * Unused.velocity[i] =
                    Response(control.divisor, i) * control.prev_error_[i]
  <2>1. /\ control.prev_error_[i] = 0 /\ control.divisor = c[2] + 1
        /\ Unused.velocity[i] = 0 /\ Unused.largest[i] = 0
    BY <1>3, <1>4
  <2>2. control.divisor - 1 \in Int /\ Response(control.divisor, i) \in Int
    <3>1. Gains.p[i] \in Int /\ Gains.d[i] \in Int
      BY RobotLoopAssumption DEF Plane
    <3>2. control.divisor - 1 \in Int
      BY <1>2, <2>1
    <3>3. QED
      BY <3>1, <3>2 DEF Response
  <2>3. \A x \in Int : x * 0 = 0
    OBVIOUS
  <2>4. Size(0) = 0
    BY DEF Size
  <2>5. (control.divisor - 1) * 0 = 0 /\ Response(control.divisor, i) * 0 = 0
    BY <2>2, <2>3
  <2>6. QED
    BY <2>1, <2>4, <2>5
<1>7. QED
  BY <1>5, <1>6 DEF KeptBy

\* Force control lets the axes fade that it is not given, and keeps no more than it measured.
LEMMA ControlFades ==
  ASSUME TypeOK, Located, Kept, ByForceControl
  PROVE  Commanded /\ Means' /\ Fades' /\ Kept' /\ ControlTypeOK'
<1>1. PICK target \in Forces, selection \in Selections :
          LET control == ForceControl(robot, frame, force_control, target, selection, Gains)
              measured == ApplySelection(selection,
                                         ForceError(robot, frame, force_control.type, target))
          IN  /\ IsFilterable(force_control, measured)
              /\ Drive(control.velocity, Still,
                       [kind |-> "force_control", selection |-> selection,
                        divisor |-> force_control.divisor, before |-> controlled])
              /\ force_control' = [force_control EXCEPT !.prev_error_ = control.error]
              /\ controlled' =
                     [selection |-> selection,
                      velocity |-> TransformForward(robot, frame, control.velocity),
                      largest |-> [i \in 1 .. 2 |-> Larger(controlled.largest[i], Size(measured[i]))]]
  BY DEF ByForceControl
<1> DEFINE n == force_control.divisor
           kept == force_control.prev_error_
           measured == ApplySelection(selection, ForceError(robot, frame, force_control.type, target))
           control == ForceControl(robot, frame, force_control, target, selection, Gains)
           velocity == PDControl(force_control, Gains, control.error)
           largest == [i \in 1 .. 2 |-> Larger(controlled.largest[i], Size(measured[i]))]
           what == [kind |-> "force_control", selection |-> selection, divisor |-> n,
                    before |-> controlled]
<1>2. /\ target \in Plane /\ selection \in Plane /\ frame \in {"TCP", "Base"}
      /\ robot.rotation \in 0 .. 3 /\ n \in Nat \ {0} /\ kept \in Plane
      /\ force_control.type \in {"Environment", "Robot"}
  BY RobotLoopAssumption DEF TypeOK, ControlTypeOK, TypedControl, Robots
<1>3. measured \in Plane /\ \A i \in 1 .. 2 : selection[i] = 0 => measured[i] = 0
  BY <1>2, MeasuredFacts
<1>4. /\ control.error \in Plane /\ velocity \in Plane
      /\ control.velocity = Transform(robot, frame, velocity)
      /\ \A i \in 1 .. 2 :
             /\ n * control.error[i] = measured[i] + (n - 1) * kept[i]
             /\ velocity[i] = Gains.p[i] * control.error[i] + Gains.d[i] * (control.error[i] - kept[i])
  BY <1>1, <1>2, ControlFacts
<1>5. /\ Drive(control.velocity, Still, what)
      /\ force_control' = [force_control EXCEPT !.prev_error_ = control.error]
      /\ controlled' = [selection |-> selection,
                        velocity |-> TransformForward(robot, frame, control.velocity),
                        largest |-> largest]
  BY <1>1
<1>6. \A i \in 1 .. 2 : largest[i] = Larger(controlled.largest[i], Size(measured[i]))
  OBVIOUS
<1> HIDE DEF measured, control, velocity
<1>7. /\ control.velocity \in Plane
      /\ Rotate(robot.rotation, control.velocity) =
             IF frame = "TCP" THEN Rotate(robot.rotation, velocity) ELSE velocity
  BY <1>2, <1>4, Transformed
<1>8. TransformForward(robot, frame, control.velocity) = velocity
  BY <1>2, <1>4, RotateFacts DEF Transform, TransformForward
<1>9. /\ force_control'.divisor = n /\ force_control'.prev_error_ = control.error
      /\ force_control'.type = force_control.type
      /\ controlled'.selection = selection /\ controlled'.velocity = velocity
      /\ controlled'.largest = largest
  BY <1>5, <1>8 DEF TypeOK, ControlTypeOK, TypedControl
<1>10. /\ Commanded /\ Moving' = IF frame = "TCP" THEN Rotate(robot.rotation, velocity) ELSE velocity
       /\ asked'.what = what /\ asked'.from = robot /\ frame' = frame
  BY <1>5, <1>7, DriveAlone
<1>11. Along' = velocity
  BY <1>2, <1>4, <1>10, RotateFacts DEF Along
<1>12. ASSUME NEW i \in 1 .. 2
       PROVE  /\ measured[i] \in Int /\ kept[i] \in Int /\ control.error[i] \in Int
              /\ Gains.p[i] \in Int /\ Gains.d[i] \in Int /\ velocity[i] \in Int
              /\ controlled.largest[i] \in Nat /\ controlled.velocity[i] \in Int
              /\ Size(kept[i]) <= controlled.largest[i]
  BY <1>2, <1>3, <1>4, RobotLoopAssumption DEF Plane, TypeOK, ControlTypeOK,
     TypedControl, Kept, KeptBy
<1>13. ASSUME NEW i \in 1 .. 2
       PROVE  /\ Size(control.error[i]) <= largest[i] /\ largest[i] \in Nat
              /\ selection[i] = 0 =>
                     /\ (n - 1) * velocity[i] = Response(n, i) * control.error[i]
                     /\ FadesAt(i, what, velocity)
  <2>1. /\ n * control.error[i] = measured[i] + (n - 1) * kept[i]
        /\ velocity[i] = Gains.p[i] * control.error[i] + Gains.d[i] * (control.error[i] - kept[i])
    BY <1>4
  <2> DEFINE e == control.error[i]
             k == kept[i]
             g == Gains.p[i]
             h == Gains.d[i]
             v == velocity[i]
             w == controlled.velocity[i]
             l == controlled.largest[i]
  <2>5. /\ k \in Int /\ e \in Int /\ g \in Int /\ h \in Int /\ v \in Int /\ w \in Int /\ l \in Nat
        /\ Size(k) <= l /\ n \in Nat \ {0} /\ measured[i] \in Int
    BY <1>2, <1>12
  <2>2. Size(e) <= largest[i] /\ largest[i] \in Nat
    <3> HIDE DEF e, k, n, largest
    <3>1. n * e = measured[i] + (n - 1) * k
      BY <2>1 DEF e, k
    <3>2. Size(e) <= Larger(l, Size(measured[i])) /\ Larger(l, Size(measured[i])) \in Nat
      BY <2>5, <3>1, FilterKeeps
    <3>3. QED
      BY <1>6, <3>2
  <2>3. CASE selection[i] = 0
    <3>1. n * control.error[i] = (n - 1) * kept[i]
      <4>1. measured[i] = 0 /\ (n - 1) * kept[i] \in Int
        BY <1>2, <1>3, <1>12, <2>3
      <4>2. QED
        BY <2>1, <4>1
    <3>2. /\ (n - 1) * v = Response(n, i) * e
          /\ n * Size(v) <= Size(Response(n, i)) * l
          /\ (n - 1) * w = Response(n, i) * k => n * v = (n - 1) * w
      <4>1. Unfed(n, k, e) /\ MadeOf(v, g, h, e, k) /\ Response(n, i) = (n - 1) * g - h
        BY <2>1, <3>1 DEF Response, Unfed, MadeOf
      <4> HIDE DEF n, e, k, g, h, v, w, l
      <4>2. FadesFrom(n, (n - 1) * g - h, v, w, e, k, l)
        BY <2>5, <4>1, FilterFades
      <4>3. QED
        BY <4>1, <4>2 DEF FadesFrom
    <3>3. controlled.selection[i] = 0 => (n - 1) * w = Response(n, i) * k
      BY DEF Kept, KeptBy
    <3>4. QED
      BY <2>2, <3>2, <3>3 DEF FadesAt
  <2>4. QED
    BY <2>2, <2>3
<1>14. ControlTypeOK'
  <2>1. largest \in Nat \X Nat
    <3>1. largest \in [1 .. 2 -> Nat]
      BY <1>13
    <3>2. \A f \in [1 .. 2 -> Nat] : f = <<f[1], f[2]>>
      OBVIOUS
    <3>3. QED
      BY <3>1, <3>2
  <2> HIDE DEF largest
  <2>2. QED
    BY <1>2, <1>4, <1>5, <1>8, <2>1 DEF TypeOK, ControlTypeOK, TypedControl
<1>15. Kept'
  BY <1>9, <1>13 DEF Kept, KeptBy, Response
<1>16. Fades'
  BY <1>10, <1>11, <1>13 DEF Fades, FadesAt, Response
<1>17. asked'.what.kind = "force_control"
  BY <1>10
<1>18. Means'
  BY <1>17 DEF Means
<1>19. QED
  BY <1>10, <1>14, <1>15, <1>16, <1>18

-----------------------------------------------------------------------------
(* Every step keeps the invariant                                           *)

\* It holds initially, ...
LEMMA InvInit == Init => Inv
<1> SUFFICES ASSUME Init PROVE Inv
  OBVIOUS
<1>1. Null \in Plane /\ NewRobot \in Robots
  BY DEF Null, Vector, Plane, NewRobot, Robots
<1>2. TypeOK
  BY <1>1, NewControl DEF Init, TypeOK, ControlTypeOK, Still, Nothing
<1>3. pc = "read" /\ cycles = 0 /\ asked.what.kind = "nothing"
  BY DEF Init, Nothing
<1>4. ControlTypeOK /\ Kept
  BY NewControl DEF Init, ControlTypeOK, Kept
<1>5. QED
  BY <1>2, <1>3, <1>4 DEF Inv, Located, Follows, AfterACycle, Means, Kept, Fades

\* A read finds the control point where it was heading.
LEMMA ReadStep ==
  ASSUME Inv, Read
  PROVE  Inv'
<1> USE DEF Inv
<1>1. PICK f \in Forces : robot' = [ForwardKinematics(robot) EXCEPT !.force = f]
  BY DEF Read
<1>2. /\ pc = "read" /\ pc' = "compute" /\ frame' = frame /\ cycles' = cycles /\ joints' = joints
      /\ command' = command /\ force_control' = force_control /\ asked' = asked /\ controlled' = controlled
  BY DEF Read
<1>3. Jacobian(joints) \in Plane /\ f \in Plane
  BY RobotLoopAssumption DEF TypeOK, Jacobian, Plane
<1>4. robot'.at = Jacobian(joints) /\ robot' \in Robots
  BY <1>1, <1>3 DEF ForwardKinematics, TypeOK, Robots
<1>5. TypeOK'
  BY <1>2, <1>4 DEF TypeOK, ControlTypeOK
<1>6. Located'
  BY <1>2, <1>4 DEF Located
<1>7. Follows'
  <2>1. CASE cycles = 0
    <3>1. derivator' = NewDerivator(robot'.at) /\ integrator' = ForceOutput(robot'.at)
      BY <2>1 DEF Read
    <3>2. asked'.what.kind = "nothing"
      BY <1>2, <2>1 DEF Follows
    <3>3. QED
      BY <1>2, <2>1, <3>1, <3>2 DEF Follows, NewDerivator, ForceOutput, AfterACycle
  <2>2. CASE cycles # 0
    <3>1. cycles > 0
      BY <2>2 DEF TypeOK
    <3>2. /\ integrator.output = robot.at /\ derivator.previous = robot.at
          /\ asked.from.at = robot.at
      BY <1>2, <3>1 DEF Follows
    <3>3. /\ derivator' = Derive(derivator, robot'.at)
          /\ integrator' = Integrate(integrator, derivator'.output)
      BY <2>2 DEF Read
    <3>4. derivator'.output = Minus(robot'.at, robot.at) /\ derivator'.previous = robot'.at
      BY <3>2, <3>3 DEF Derive
    <3>5. integrator'.output = Add(robot.at, Minus(robot'.at, robot.at))
      BY <3>2, <3>3, <3>4 DEF Integrate
    <3>6. robot.at \in Plane /\ robot'.at \in Plane /\ 0 \in Int
      BY <1>3, <1>4 DEF TypeOK, Robots
    <3>7. integrator'.output = robot'.at
      BY <3>5, <3>6, VectorFacts
    <3>8. derivator'.output = Minus(robot'.at, asked'.from.at)
      BY <1>2, <3>2, <3>4
    <3>9. QED
      BY <1>2, <2>2, <3>4, <3>7, <3>8 DEF Follows, AfterACycle, Moved
  <2>3. QED
    BY <2>1, <2>2
<1>8. Heading' = Heading /\ Moving' = Moving
  BY <1>2 DEF Heading, Moving
<1>9. Means' /\ Fades' /\ Kept'
  BY <1>2, <1>8 DEF Means, Fades, Along, Kept, InBase
<1>10. QED
  BY <1>5, <1>6, <1>7, <1>9

\* A reset forgets the last motion, and no more.
LEMMA ResetStep ==
  ASSUME Inv, ResetDerivator
  PROVE  Inv'
<1> USE DEF Inv
<1>1. /\ pc = "compute" /\ derivator' = NewDerivator(robot.at)
      /\ pc' = pc /\ frame' = frame /\ cycles' = cycles /\ joints' = joints /\ robot' = robot
      /\ command' = command /\ force_control' = force_control /\ integrator' = integrator
      /\ asked' = asked /\ controlled' = controlled
  BY DEF ResetDerivator
<1>2. TypeOK' /\ Located'
  BY <1>1 DEF TypeOK, ControlTypeOK, Located
<1>3. derivator'.output = Null /\ derivator'.previous = robot.at
  BY <1>1 DEF NewDerivator
<1>4. Follows'
  BY <1>1, <1>3 DEF Follows, AfterACycle
<1>5. Heading' = Heading /\ Moving' = Moving
  BY <1>1 DEF Heading, Moving
<1>6. Means' /\ Fades' /\ Kept'
  BY <1>1, <1>5 DEF Means, Fades, Along, Kept, InBase
<1>7. QED
  BY <1>2, <1>4, <1>6

\* A new force control keeps nothing, and has nothing to fade.
LEMMA RenewStep ==
  ASSUME Inv, RenewForceControl
  PROVE  Inv'
<1> USE DEF Inv
<1>1. /\ force_control' \in ForceControls /\ controlled' = Unused
      /\ pc' = pc /\ frame' = frame /\ cycles' = cycles /\ joints' = joints /\ robot' = robot
      /\ command' = command /\ derivator' = derivator /\ integrator' = integrator
      /\ asked' = asked
  BY DEF RenewForceControl
<1>2. ControlTypeOK' /\ Kept'
  BY <1>1, NewControl DEF ControlTypeOK, Kept
<1>3. TypeOK' /\ Located' /\ Follows'
  BY <1>1, <1>2 DEF TypeOK, Located, Follows, AfterACycle, Moved
<1>4. Heading' = Heading /\ Moving' = Moving
  BY <1>1 DEF Heading, Moving
<1>5. Means' /\ Fades'
  BY <1>1, <1>4 DEF Means, Fades, Along, InBase
<1>6. QED
  BY <1>2, <1>3, <1>5

\* The joints go where they were heading.
LEMMA SendStep ==
  ASSUME Inv, Send
  PROVE  Inv'
<1> USE DEF Inv
<1>1. /\ pc = "send" /\ pc' = "read" /\ cycles' = cycles + 1
      /\ joints' = Turned(PlusJoints(joints, command), (joints.turn + command.turn) % 4)
      /\ frame' = frame /\ robot' = robot /\ command' = command /\ force_control' = force_control
      /\ derivator' = derivator /\ integrator' = integrator
      /\ asked' = asked /\ controlled' = controlled
  BY DEF Send
<1>2. /\ joints.x \in Int /\ joints.y \in Int /\ joints.slide \in Int /\ joints.turn \in 0 .. 3
      /\ command.x \in Int /\ command.y \in Int /\ command.slide \in Int
      /\ command.turn \in {0, 1} /\ cycles \in Nat
  BY DEF TypeOK
<1>3. (joints.turn + command.turn) % 4 \in 0 .. 3
  BY <1>2
<1>4. joints' \in [x : Int, y : Int, slide : Int, turn : 0 .. 3]
  BY <1>1, <1>2, <1>3 DEF Turned, PlusJoints
<1>5. TypeOK'
  BY <1>1, <1>2, <1>4 DEF TypeOK, ControlTypeOK
<1>6. Located' /\ Follows'
  BY <1>1, <1>2 DEF Located, Follows, AfterACycle
<1>7. Jacobian(joints') = Add(Jacobian(joints), Jacobian(command))
  BY <1>1, <1>2, JointFacts, Null \in Plane DEF Null, Vector, Plane
<1>8. Heading' = Heading /\ Moving' = Moving
  BY <1>1, <1>7 DEF Heading, Moving
<1>9. Means' /\ Fades' /\ Kept'
  BY <1>1, <1>8 DEF Means, Fades, Along, Kept, InBase
<1>10. QED
  BY <1>5, <1>6, <1>9

\* A command for which the generator's meaning is kept keeps the rest.
LEMMA CommandStep ==
  ASSUME Inv, Commanded, Means', Fades', Kept', ControlTypeOK'
  PROVE  Inv'
<1> USE DEF Inv, Commanded
<1>1. TypeOK'
  BY DEF TypeOK
<1>2. Located'
  BY DEF Located
<1>3. Follows'
  BY DEF Follows, AfterACycle
<1>4. QED
  BY <1>1, <1>2, <1>3

\* Each generator's cycle is such a command.
LEMMA ComputeStep ==
  ASSUME Inv, Compute
  PROVE  Inv'
<1>1. TypeOK /\ Located /\ Kept
  BY DEF Inv
<1>2. CASE ByForceControl
  BY <1>1, <1>2, ControlFades, CommandStep
<1>3. ASSUME UNCHANGED <<force_control, controlled>>, Commanded, Means', Fades' PROVE Inv'
  <2>1. Kept' /\ ControlTypeOK'
    BY <1>1, <1>3 DEF Kept, TypeOK, ControlTypeOK
  <2>2. QED
    BY <1>3, <2>1, CommandStep
<1>4. CASE ByProxy
  <2>1. UNCHANGED <<force_control, controlled>>
    BY <1>4 DEF ByProxy
  <2>2. QED
    BY <1>1, <1>3, <1>4, <2>1, ProxyMeans
<1>5. CASE NearOperator
  <2>1. UNCHANGED <<force_control, controlled>>
    BY <1>5 DEF NearOperator
  <2>2. QED
    BY <1>1, <1>3, <1>5, <2>1, OperatorMeans
<1>6. CASE ByExternalForce
  <2>1. UNCHANGED <<force_control, controlled>>
    BY <1>6 DEF ByExternalForce
  <2>2. QED
    BY <1>1, <1>3, <1>6, <2>1, ForceMeans
<1>7. CASE ByStiffness
  <2>1. UNCHANGED <<force_control, controlled>>
    BY <1>7 DEF ByStiffness
  <2>2. QED
    BY <1>1, <1>3, <1>7, <2>1, StiffnessMeans
<1>8. CASE ByMass
  <2>1. UNCHANGED <<force_control, controlled>>
    BY <1>8 DEF ByMass
  <2>2. QED
    BY <1>1, <1>3, <1>8, <2>1, MassMeans
<1>9. CASE ByPotential
  <2>1. UNCHANGED <<force_control, controlled>>
    BY <1>9 DEF ByPotential
  <2>2. QED
    BY <1>1, <1>3, <1>9, <2>1, PotentialMeans
<1>10. CASE ByNullSpaceMotion \/ ByJointVelocity
  <2>1. UNCHANGED <<force_control, controlled>>
    BY <1>10 DEF ByNullSpaceMotion, ByJointVelocity
  <2>2. QED
    BY <1>1, <1>3, <1>10, <2>1, JointsMean
<1>11. QED
  BY <1>2, <1>4, <1>5, <1>6, <1>7, <1>8, <1>9, <1>10 DEF Compute

\* ... every step keeps it, ...
LEMMA InvStep == Inv /\ [Next]_vars => Inv'
<1> SUFFICES ASSUME Inv, [Next]_vars PROVE Inv'
  OBVIOUS
<1>1. CASE UNCHANGED vars
  BY <1>1 DEF vars, Inv, TypeOK, Located, Follows, AfterACycle, Moved, Means, Kept, Fades, Along,
     ControlTypeOK, Heading, Moving, InBase
<1>2. QED
  BY <1>1, ReadStep, ResetStep, RenewStep, ComputeStep, SendStep DEF Next

\* ... so it holds always.
LEMMA Invariance == Spec => []Inv
<1>1. QED
  BY InvInit, InvStep, PTL DEF Spec

-----------------------------------------------------------------------------
(* Theorems                                                                 *)

\* After every read the integrator of the derivator stands where the control point does, and
\* the derivator shows the last cycle's motion or, after a reset, nothing: Derivator and
\* Integrator lose no motion and count none twice, whenever the derivator is reset.
THEOREM OdometryAlwaysAgrees == Spec => []OdometryAgrees
<1>1. Inv => OdometryAgrees
  BY DEF Inv, TypeOK, Follows, OdometryAgrees, AfterACycle
<1>2. QED
  BY <1>1, Invariance, PTL

\* ForceControl, whatever its gains and the time constant of its filter, lets an axis fade that
\* it is given no longer: from run to run as the filter does, at once without a filter, with a
\* velocity that the largest error measured while it was given bounds; one never given rests.
THEOREM DeselectedAxesFade == Spec => []DeselectedAxisFades
<1>1. Inv => DeselectedAxisFades
  <2> SUFFICES ASSUME Inv, AfterACycle, asked.what.kind = "force_control" PROVE DeselectedAxisFades
    BY DEF DeselectedAxisFades
  <2>1. Moving = Moved
    BY DEF Inv, Located, AfterACycle, Heading, Moving, Moved
  <2>2. Along = IF frame = "TCP" THEN RotateBack(asked.from.rotation, Moved) ELSE Moved
    BY <2>1 DEF Along
  <2>3. \A i \in 1 .. 2 : FadesAt(i, asked.what, Along)
    BY DEF Inv, Fades
  <2>4. QED
    BY <2>2, <2>3 DEF FadesAt, Response, DeselectedAxisFades
<1>2. QED
  BY <1>1, Invariance, PTL

\* For any velocities, forces, targets, joint positions and people, and however the head has
\* turned, a cycle moves the control point as the generator's meaning says in the base frame.
\* With the separation constraint that takes a scene the scanner's detector can tell
\* (Detectable); then the motion is blocked exactly when the person nearest to the scanner, of
\* those it can see, is in reach of the robot.
THEOREM GeneratorsMoveAsAsked ==
  Spec => []((asked.what.kind = "operator" => Detectable(asked.what.people, asked.from)) => MovesAsAsked)
<1>1. ASSUME Inv, AfterACycle, asked.what.kind = "operator",
             Detectable(asked.what.people, asked.from)
      PROVE  Blocked(asked.from, asked.what.people) <=>
                 \E p \in NearestSeen(asked.what.people) :
                     Squared(Minus(p, asked.from.at)) <= Reach * Reach
  <2> DEFINE people == asked.what.people
             rob == asked.from
  <2>1. rob.at \in Plane /\ rob.rotation \in 0 .. 3
    BY <1>1 DEF Inv, TypeOK, Robots
  <2>2. /\ ToBase(Laser, Found(people)) \in Plane
        /\ InReach(ToBase(Laser, Found(people)), rob) <=>
               \E p \in NearestSeen(people) : InReach(p, rob)
    BY <1>1, FoundIsNearest
  <2>3. Blocked(rob, people) <=> InReach(ToBase(Laser, Found(people)), rob)
    BY <2>1, <2>2, ReachInBase DEF Blocked
  <2>4. QED
    BY <2>2, <2>3 DEF InReach
<1>2. Inv => ((asked.what.kind = "operator" => Detectable(asked.what.people, asked.from)) => MovesAsAsked)
  <2> SUFFICES ASSUME Inv, AfterACycle,
                      asked.what.kind = "operator" => Detectable(asked.what.people, asked.from)
               PROVE  MovesAsAsked
    BY DEF MovesAsAsked
  <2>1. Moving = Moved /\ Heading = robot.at
    BY DEF Inv, Located, AfterACycle, Heading, Moving, Moved
  <2>2. Means
    BY DEF Inv
  <2>3. CASE asked.what.kind # "operator"
    BY <2>1, <2>2, <2>3 DEF Means, MovesAsAsked, Pulls
  <2>4. CASE asked.what.kind = "operator"
    <3>1. Moved = IF Blocked(asked.from, asked.what.people) THEN Null
                  ELSE InBase(asked.what.by, frame)
      BY <2>1, <2>2, <2>4 DEF Means
    <3>2. Moved = IF \E p \in NearestSeen(asked.what.people) :
                         Squared(Minus(p, asked.from.at)) <= Reach * Reach
                  THEN Null ELSE InBase(asked.what.by, frame)
      BY <1>1, <2>4, <3>1
    <3>3. QED
      BY <2>4, <3>2 DEF MovesAsAsked
  <2>5. QED
    BY <2>3, <2>4
<1>3. QED
  BY <1>2, Invariance, PTL
=============================================================================
