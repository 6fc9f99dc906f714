-------------------------- MODULE QuadratureProofs --------------------------
(***************************************************************************)
(* The angles of the quadrature set that module ProblemSetUp builds, for   *)
(* every accepted input, and the system and the solutions made for them:   *)
(* the set is closed under reflection, its opposite points are paired, no  *)
(* current flows in an isotropic flux, and the system has one part per     *)
(* group and angle.                                                        *)
(***************************************************************************)
EXTENDS ProblemSetUpProofs

-----------------------------------------------------------------------------
(***************************************************************************)
(* The set FillQuadratureSet makes: the generated points, each followed by *)
(* its opposite.                                                           *)
(***************************************************************************)
\* The sets FillQuadratureSet goes through, one per generated point.
FilledTo(points, N, f) ==
  f = [n \in 0..N |-> IF n = 0 THEN Quad!EmptySet
                      ELSE Quad!AddWithReflection(f[n - 1], points[n])]

\* There is such a sequence of sets, whatever the points.
LEMMA FillExists ==
  ASSUME NEW points, NEW N \in Nat
  PROVE  \E f : FilledTo(points, N, f)
<1> DEFINE S == {n \in 0..N : \E f : FilledTo(points, n, f)}
<1>1. 0 \in S
  <2> DEFINE f == [n \in 0..0 |-> Quad!EmptySet]
  <2>1. FilledTo(points, 0, f)
    BY DEF FilledTo
  <2> QED
    BY <2>1
<1>2. ASSUME NEW n \in 1..N, n - 1 \in S PROVE n \in S
  <2>1. PICK f : FilledTo(points, n - 1, f)
    BY <1>2
  <2> DEFINE last == Quad!AddWithReflection(f[n - 1], points[n])
             g == [i \in 0..n |-> IF i = n THEN last ELSE f[i]]
  <2> HIDE DEF last
  <2>2. ASSUME NEW i \in 0..n
        PROVE  g[i] = IF i = 0 THEN Quad!EmptySet ELSE Quad!AddWithReflection(g[i - 1], points[i])
    <3>1. CASE i = n
      BY <3>1 DEF last
    <3>2. CASE i # n
      <4>1. i \in 0..n-1 /\ g[i] = f[i] /\ (i # 0 => g[i - 1] = f[i - 1])
        BY <3>2
      <4>2. f[i] = IF i = 0 THEN Quad!EmptySet ELSE Quad!AddWithReflection(f[i - 1], points[i])
        BY <2>1, <4>1 DEF FilledTo
      <4> QED
        BY <4>1, <4>2
    <3> QED
      BY <3>1, <3>2
  <2>3. FilledTo(points, n, g)
    BY <2>2 DEF FilledTo
  <2> QED
    BY <2>3
<1> HIDE DEF S
<1>3. N \in S
  BY <1>1, <1>2, InductionTo
<1> QED
  BY <1>3 DEF S

\* The point of the other half that is made along with a point.
Opposite(point) == Quad!Point(Quad!ReflectAcrossOrigin(point.position), point.weight)
\* What a generator returns.
GeneratedPoints(dim) == [position : [1..dim -> Int], weight : Int]

\* What FillQuadratureSet is given: distinct points of the half with a
\* positive first coordinate, and their images in every other axis.
HalfSet(points, dim) ==
  /\ points \in Seq(GeneratedPoints(dim))
  /\ \A n \in DOMAIN points : points[n].position[1] > 0
  /\ \A m, n \in DOMAIN points : points[m].position = points[n].position => m = n
  /\ \A axis \in 2..dim, n \in DOMAIN points : \E m \in DOMAIN points :
       /\ points[m].position = Quad!Negated(points[n].position, {axis})
       /\ points[m].weight = points[n].weight

\* The first n points, each followed by its opposite.
PointsInPairs(points, n) ==
  [i \in 1..2 * n |-> IF i % 2 = 1 THEN points[(i + 1) \div 2] ELSE Opposite(points[i \div 2])]
\* The set these points make: the reflection of a point is its pair.
Paired(points, n) ==
  [points |-> PointsInPairs(points, n),
   reflection |-> [i \in 0..2 * n - 1 |-> IF i % 2 = 0 THEN i + 1 ELSE i - 1],
   mirrors |-> Quad!EmptySet.mirrors]

\* The opposite of a point is a point of the same weight.
LEMMA OppositePoint ==
  ASSUME NEW dim \in 1..3, NEW p \in GeneratedPoints(dim)
  PROVE  /\ Opposite(p) \in GeneratedPoints(dim)
         /\ Opposite(p).weight = p.weight
         /\ \A axis \in 1..dim : Opposite(p).position[axis] = -p.position[axis]
<1>1. p.position \in [1..dim -> Int] /\ p.weight \in Int
  BY DEF GeneratedPoints
<1> DEFINE q == [i \in 1..dim |-> -p.position[i]]
<1>2. Quad!ReflectAcrossOrigin(p.position) = q
  BY <1>1 DEF Quad!ReflectAcrossOrigin, Quad!Negated
<1>3. q \in [1..dim -> Int]
  BY <1>1
<1>4. Opposite(p) = [position |-> q, weight |-> p.weight]
  BY <1>2 DEF Opposite, Quad!Point
<1>5. Opposite(p).position = q /\ Opposite(p).weight = p.weight
  BY <1>4
<1>6. \A axis \in 1..dim : q[axis] = -p.position[axis]
  OBVIOUS
<1> HIDE DEF q
<1> QED
  BY <1>1, <1>3, <1>4, <1>5, <1>6 DEF GeneratedPoints

\* Behind a place of the pairs is a point or the opposite of one.
LEMMA PointInPairs ==
  ASSUME NEW dim \in 1..3, NEW points, HalfSet(points, dim), NEW n \in 0..Len(points),
         NEW i \in 1..2 * n
  PROVE  \E k \in 1..n :
           /\ PointsInPairs(points, n)[i] \in GeneratedPoints(dim)
           /\ \/ i = 2 * k - 1 /\ PointsInPairs(points, n)[i] = points[k]
              \/ i = 2 * k /\ PointsInPairs(points, n)[i] = Opposite(points[k])
<1>1. points \in Seq(GeneratedPoints(dim))
  BY DEF HalfSet
<1>2. CASE i % 2 = 1
  <2> DEFINE k == (i + 1) \div 2
  <2>1. k \in 1..n /\ i = 2 * k - 1
    BY <1>2
  <2>2. PointsInPairs(points, n)[i] = points[k]
    BY <1>2 DEF PointsInPairs
  <2> HIDE DEF k
  <2>3. points[k] \in GeneratedPoints(dim)
    BY <1>1, <2>1
  <2> QED
    BY <2>1, <2>2, <2>3
<1>3. CASE i % 2 # 1
  <2> DEFINE k == i \div 2
  <2>1. k \in 1..n /\ i = 2 * k
    BY <1>3
  <2>2. PointsInPairs(points, n)[i] = Opposite(points[k])
    BY <1>3 DEF PointsInPairs
  <2> HIDE DEF k
  <2>3. points[k] \in GeneratedPoints(dim)
    BY <1>1, <2>1
  <2>4. Opposite(points[k]) \in GeneratedPoints(dim)
    BY <2>3, OppositePoint
  <2> QED
    BY <2>1, <2>2, <2>4
<1> QED
  BY <1>2, <1>3

\* No two points share an opposite.
LEMMA SameOpposites ==
  ASSUME NEW dim \in 1..3, NEW p \in GeneratedPoints(dim), NEW q \in GeneratedPoints(dim),
         Opposite(p).position = Opposite(q).position
  PROVE  p.position = q.position
<1>1. p.position \in [1..dim -> Int] /\ q.position \in [1..dim -> Int]
  BY DEF GeneratedPoints
<1>2. ASSUME NEW axis \in 1..dim PROVE p.position[axis] = q.position[axis]
  <2>1. Opposite(p).position[axis] = -p.position[axis]
    BY OppositePoint
  <2>2. Opposite(q).position[axis] = -q.position[axis]
    BY OppositePoint
  <2>3. p.position[axis] \in Int /\ q.position[axis] \in Int
    BY <1>1
  <2> QED
    BY <2>1, <2>2, <2>3
<1>3. /\ p.position = [axis \in 1..dim |-> p.position[axis]]
      /\ q.position = [axis \in 1..dim |-> q.position[axis]]
  BY <1>1
<1> QED
  BY <1>2, <1>3

\* AddPoint of a point and of its opposite, then SetReflection: neither
\* was in the set, so two places are added and remembered for each other.
LEMMA PairAdded ==
  ASSUME NEW dim \in 1..3, NEW points, HalfSet(points, dim), NEW n \in 1..Len(points)
  PROVE  Quad!AddWithReflection(Paired(points, n - 1), points[n]) = Paired(points, n)
<1> DEFINE before == PointsInPairs(points, n - 1)
           reflection == [i \in 0..2 * n - 3 |-> IF i % 2 = 0 THEN i + 1 ELSE i - 1]
           mirrors == Quad!EmptySet.mirrors
           point == points[n]
           opposite == Opposite(points[n])
           set == [points |-> before, reflection |-> reflection, mirrors |-> mirrors]
           added == [points |-> Append(before, point), reflection |-> reflection,
                     mirrors |-> mirrors]
           both == [points |-> Append(Append(before, point), opposite),
                    reflection |-> reflection, mirrors |-> mirrors]
<1>1. points \in Seq(GeneratedPoints(dim)) /\ n - 1 \in 0..Len(points)
  BY DEF HalfSet
<1>2. point \in GeneratedPoints(dim)
  BY <1>1
<1>3. /\ opposite \in GeneratedPoints(dim) /\ opposite.position[1] = -point.position[1]
      /\ point.position[1] > 0 /\ point.position[1] \in Int
  <2>1. opposite \in GeneratedPoints(dim) /\ opposite.position[1] = -point.position[1]
    BY <1>2, OppositePoint
  <2>2. point.position[1] > 0
    BY <1>1 DEF HalfSet
  <2>3. point.position \in [1..dim -> Int]
    BY <1>2 DEF GeneratedPoints
  <2> QED
    BY <2>1, <2>2, <2>3
<1>4. before = [i \in 1..2 * n - 2 |-> before[i]]
  BY DEF PointsInPairs
<1>5. \A i \in 1..2 * n - 2 : /\ before[i] \in GeneratedPoints(dim)
                              /\ before[i].position # point.position
                              /\ before[i].position # opposite.position
  <2> SUFFICES ASSUME NEW i \in 1..2 * (n - 1)
               PROVE  /\ before[i] \in GeneratedPoints(dim)
                      /\ before[i].position # point.position
                      /\ before[i].position # opposite.position
    OBVIOUS
  <2>1. PICK k \in 1..n - 1 :
          /\ before[i] \in GeneratedPoints(dim)
          /\ before[i] = points[k] \/ before[i] = Opposite(points[k])
    BY <1>1, PointInPairs
  <2>2. /\ points[k] \in GeneratedPoints(dim) /\ points[k].position[1] > 0
        /\ points[k].position # point.position
    BY <1>1 DEF HalfSet
  <2>3. points[k].position[1] \in Int
    BY <2>2 DEF GeneratedPoints
  <2>4. Opposite(points[k]).position[1] = -points[k].position[1]
    BY <2>2, OppositePoint
  <2>5. Opposite(points[k]).position # opposite.position
    BY <1>2, <2>2, SameOpposites
  <2> HIDE DEF before, point, opposite
  <2>6. CASE before[i] = points[k]
    BY <1>3, <2>1, <2>2, <2>3, <2>6
  <2>7. CASE before[i] = Opposite(points[k])
    BY <1>3, <2>1, <2>2, <2>3, <2>4, <2>5, <2>7
  <2> QED
    BY <2>1, <2>6, <2>7
<1> HIDE DEF before
<1>6. before \in Seq(GeneratedPoints(dim)) /\ Len(before) = 2 * n - 2
  BY <1>4, <1>5
<1>7. Paired(points, n - 1) = set
  <2>1. 2 * (n - 1) - 1 = 2 * n - 3
    OBVIOUS
  <2> HIDE DEF mirrors
  <2> QED
    BY <2>1 DEF Paired, before, mirrors
<1> HIDE DEF point, opposite, reflection, mirrors
<1>8. Quad!AddPoint(set, point) = added
  <2>1. Quad!IndicesAt(set, point.position) = {}
    BY <1>5, <1>6 DEF Quad!IndicesAt, Quad!Indices, Quad!SetSize, Quad!Position, Quad!PointAt
  <2> QED
    BY <2>1 DEF Quad!AddPoint
<1>9. Quad!AddPoint(added, opposite) = both
  <2>1. Quad!IndicesAt(added, opposite.position) = {}
    <3> SUFFICES ASSUME NEW i \in Quad!Indices(added)
                 PROVE  Quad!Position(added, i) # opposite.position
      BY DEF Quad!IndicesAt
    <3>1. i + 1 \in 1..2 * n - 1
      BY <1>2, <1>6 DEF Quad!Indices, Quad!SetSize
    <3>2. Quad!Position(added, i) = Append(before, point)[i + 1].position
      BY DEF Quad!Position, Quad!PointAt
    <3>3. Append(before, point)[i + 1] = IF i + 1 = 2 * n - 1 THEN point ELSE before[i + 1]
      BY <1>2, <1>6, <3>1
    <3>4. point.position # opposite.position
      BY <1>3
    <3>5. CASE i + 1 = 2 * n - 1
      BY <3>2, <3>3, <3>4, <3>5
    <3>6. CASE i + 1 # 2 * n - 1
      <4>1. i + 1 \in 1..2 * n - 2
        BY <3>1, <3>6
      <4>2. before[i + 1].position # opposite.position
        BY <1>5, <4>1
      <4> QED
        BY <3>2, <3>3, <3>6, <4>2
    <3> QED
      BY <3>5, <3>6
  <2> QED
    BY <2>1 DEF Quad!AddPoint
<1>10. /\ Append(before, point) \in Seq(GeneratedPoints(dim))
       /\ Len(Append(before, point)) = 2 * n - 1
       /\ Append(Append(before, point), opposite) \in Seq(GeneratedPoints(dim))
       /\ Len(Append(Append(before, point), opposite)) = 2 * n
  BY <1>2, <1>3, <1>6
<1>11. opposite.position # point.position
  BY <1>3
<1>12. opposite = Quad!Point(Quad!ReflectAcrossOrigin(point.position), point.weight)
  BY DEF opposite, point, Opposite
<1>13. Quad!AddWithReflection(set, point) = Quad!SetReflection(both, 2 * n - 2, 2 * n - 1)
  <2>1. Quad!SetSize(added) - 1 = 2 * n - 2 /\ Quad!SetSize(both) - 1 = 2 * n - 1
    BY <1>10 DEF Quad!SetSize
  <2> HIDE DEF added, both, set
  <2> QED
    BY <1>8, <1>9, <1>11, <1>12, <2>1 DEF Quad!AddWithReflection
<1> DEFINE after == [i \in 0..2 * n - 1 |-> IF i % 2 = 0 THEN i + 1 ELSE i - 1]
<1>14. Quad!SetReflection(both, 2 * n - 2, 2 * n - 1) = [both EXCEPT !.reflection = after]
  <2>1. both.reflection = reflection /\ DOMAIN reflection = 0..2 * n - 3
    BY DEF reflection
  <2>2. {both.reflection[p] : p \in {2 * n - 2, 2 * n - 1} \cap DOMAIN both.reflection} = {}
    BY <2>1
  <2>3. Quad!SetReflection(both, 2 * n - 2, 2 * n - 1)
          = [both EXCEPT !.reflection =
               [p \in 0..2 * n - 3 \cup {2 * n - 2, 2 * n - 1} |->
                  IF p = 2 * n - 1 THEN 2 * n - 2
                  ELSE IF p = 2 * n - 2 THEN 2 * n - 1 ELSE both.reflection[p]]]
    <3> HIDE DEF both
    <3> QED
      BY <2>1, <2>2 DEF Quad!SetReflection
  <2> DEFINE changed == [p \in 0..2 * n - 3 \cup {2 * n - 2, 2 * n - 1} |->
                           IF p = 2 * n - 1 THEN 2 * n - 2
                           ELSE IF p = 2 * n - 2 THEN 2 * n - 1 ELSE reflection[p]]
  <2>4. 0..2 * n - 3 \cup {2 * n - 2, 2 * n - 1} = 0..2 * n - 1
    OBVIOUS
  <2>5. ASSUME NEW p \in 0..2 * n - 1 PROVE changed[p] = after[p]
    <3>1. (2 * n - 2) % 2 = 0 /\ (2 * n - 1) % 2 = 1
      OBVIOUS
    <3>2. CASE p = 2 * n - 1
      BY <2>4, <3>1, <3>2
    <3>3. CASE p = 2 * n - 2
      BY <2>4, <3>1, <3>3
    <3>4. CASE p \in 0..2 * n - 3
      BY <2>4, <3>4 DEF reflection
    <3> QED
      BY <3>2, <3>3, <3>4
  <2>6. changed = after
    BY <2>4, <2>5
  <2> QED
    BY <2>1, <2>3, <2>6
<1>15. Append(Append(before, point), opposite) = PointsInPairs(points, n)
  <2> DEFINE s == Append(Append(before, point), opposite)
             t == PointsInPairs(points, n)
  <2>1. \A i \in 1..2 * n : s[i] = IF i = 2 * n THEN opposite
                                   ELSE IF i = 2 * n - 1 THEN point ELSE before[i]
    BY <1>2, <1>3, <1>6
  <2>2. s = [i \in 1..2 * n |-> s[i]]
    <3>1. s \in Seq(GeneratedPoints(dim)) /\ Len(s) = 2 * n
      BY <1>10
    <3> HIDE DEF s
    <3> QED
      BY <3>1
  <2>3. t = [i \in 1..2 * n |-> t[i]]
    BY DEF PointsInPairs
  <2>4. \A i \in 1..2 * n - 2 : before[i] = t[i]
    BY DEF before, PointsInPairs
  <2>5. t[2 * n] = opposite
    BY DEF PointsInPairs, opposite
  <2>6. t[2 * n - 1] = point
    BY DEF PointsInPairs, point
  <2> HIDE DEF s, t
  <2>7. \A i \in 1..2 * n : s[i] = t[i]
    BY <2>1, <2>4, <2>5, <2>6
  <2>8. s = t
    BY <2>2, <2>3, <2>7
  <2> QED
    BY <2>8 DEF s, t
<1>16. Paired(points, n) = [points |-> PointsInPairs(points, n), reflection |-> after,
                            mirrors |-> mirrors]
  BY DEF Paired, mirrors
<1> HIDE DEF after
<1> QED
  BY <1>7, <1>13, <1>14, <1>15, <1>16 DEF point

\* FillQuadratureSet makes the points in pairs, by induction over them.
LEMMA FilledInPairs ==
  ASSUME NEW dim \in 1..3, NEW points, HalfSet(points, dim)
  PROVE  Quad!FillQuadratureSet(points) = Paired(points, Len(points))
<1> DEFINE N == Len(points)
           f == CHOOSE f : FilledTo(points, N, f)
           S == {n \in 0..N : f[n] = Paired(points, n)}
<1>1. N \in Nat
  BY DEF HalfSet
<1>2. FilledTo(points, N, f)
  <2>1. \E g : FilledTo(points, N, g)
    BY <1>1, FillExists
  <2> QED
    BY <2>1
<1>3. Quad!FillQuadratureSet(points) = f[N]
  BY DEF Quad!FillQuadratureSet, FilledTo
<1> HIDE DEF f, N
<1>4. 0 \in S
  <2>1. f[0] = Quad!EmptySet
    BY <1>1, <1>2 DEF FilledTo
  <2>2. PointsInPairs(points, 0) = <<>>
    BY DEF PointsInPairs
  <2>3. [i \in 0..2 * 0 - 1 |-> IF i % 2 = 0 THEN i + 1 ELSE i - 1] = [i \in {} |-> i]
    OBVIOUS
  <2> QED
    BY <1>1, <2>1, <2>2, <2>3 DEF Paired, Quad!EmptySet
<1>5. ASSUME NEW n \in 1..N, n - 1 \in S PROVE n \in S
  <2>1. f[n] = Quad!AddWithReflection(f[n - 1], points[n])
    BY <1>1, <1>2 DEF FilledTo
  <2>2. Quad!AddWithReflection(Paired(points, n - 1), points[n]) = Paired(points, n)
    BY PairAdded DEF N
  <2> QED
    BY <1>1, <1>5, <2>1, <2>2
<1> HIDE DEF S
<1>6. N \in S
  BY <1>1, <1>4, <1>5, InductionTo
<1> QED
  BY <1>3, <1>6 DEF S, N

\* The reflection of an angle is the opposite angle, and goes back.
OppositesPaired(set) ==
  \A i \in Quad!Indices(set) :
    /\ Quad!Position(set, set.reflection[i]) = Quad!ReflectAcrossOrigin(Quad!Position(set, i))
    /\ Quad!GetReflectionIndex(set, set.reflection[i]) = i

\* Reflecting across the origin twice changes nothing.
LEMMA ReflectedTwice ==
  ASSUME NEW dim \in 1..3, NEW p \in [1..dim -> Int]
  PROVE  /\ Quad!ReflectAcrossOrigin(p) \in [1..dim -> Int]
         /\ Quad!ReflectAcrossOrigin(Quad!ReflectAcrossOrigin(p)) = p
<1> DEFINE q == [i \in 1..dim |-> -p[i]]
<1>1. Quad!ReflectAcrossOrigin(p) = q
  BY DEF Quad!ReflectAcrossOrigin, Quad!Negated
<1>2. q \in [1..dim -> Int]
  OBVIOUS
<1>3. \A i \in 1..dim : -q[i] = p[i]
  OBVIOUS
<1> HIDE DEF q
<1>4. Quad!ReflectAcrossOrigin(q) = [i \in 1..dim |-> -q[i]]
  BY <1>2 DEF Quad!ReflectAcrossOrigin, Quad!Negated
<1>5. [i \in 1..dim |-> -q[i]] = p
  BY <1>3
<1> QED
  BY <1>1, <1>2, <1>4, <1>5

\* The points of the filled set, by their index.
LEMMA PairAt ==
  ASSUME NEW dim \in 1..3, NEW points, HalfSet(points, dim),
         NEW set, set.points = PointsInPairs(points, Len(points))
  PROVE  /\ Quad!Indices(set) = 0..2 * Len(points) - 1
         /\ \A i \in Quad!Indices(set) : /\ Quad!PointAt(set, i) \in GeneratedPoints(dim)
                                         /\ Quad!Position(set, i) \in [1..dim -> Int]
                                         /\ Quad!Position(set, i) = Quad!PointAt(set, i).position
         /\ \A k \in 1..Len(points) :
              /\ Quad!PointAt(set, 2 * k - 2) = points[k]
              /\ Quad!PointAt(set, 2 * k - 1) = Opposite(points[k])
         /\ \A i \in Quad!Indices(set) : \E k \in 1..Len(points) : i \in {2 * k - 2, 2 * k - 1}
<1> DEFINE N == Len(points)
<1>1. N \in Nat /\ points \in Seq(GeneratedPoints(dim))
  BY DEF HalfSet
<1> HIDE DEF N
<1>2. set.points = [i \in 1..2 * N |-> PointsInPairs(points, N)[i]]
  BY DEF PointsInPairs, N
<1>3. Len(set.points) = 2 * N
  <2>1. \A i \in 1..2 * N : PointsInPairs(points, N)[i] \in GeneratedPoints(dim)
    <3> TAKE i \in 1..2 * N
    <3>1. N \in 0..Len(points)
      BY <1>1 DEF N
    <3> QED
      BY <3>1, PointInPairs
  <2>2. set.points \in Seq(GeneratedPoints(dim))
    BY <1>1, <1>2, <2>1
  <2> QED
    BY <1>1, <1>2, <2>2
<1>4. Quad!Indices(set) = 0..2 * N - 1
  BY <1>3 DEF Quad!Indices, Quad!SetSize
<1>5. ASSUME NEW i \in Quad!Indices(set)
      PROVE  /\ Quad!PointAt(set, i) \in GeneratedPoints(dim)
             /\ Quad!Position(set, i) = Quad!PointAt(set, i).position
             /\ \E k \in 1..N : i \in {2 * k - 2, 2 * k - 1}
  <2>1. i + 1 \in 1..2 * N /\ N \in 0..Len(points)
    BY <1>1, <1>4 DEF N
  <2>2. PICK k \in 1..N :
          /\ PointsInPairs(points, N)[i + 1] \in GeneratedPoints(dim)
          /\ \/ i + 1 = 2 * k - 1 /\ PointsInPairs(points, N)[i + 1] = points[k]
             \/ i + 1 = 2 * k /\ PointsInPairs(points, N)[i + 1] = Opposite(points[k])
    BY <2>1, PointInPairs
  <2>3. i \in {2 * k - 2, 2 * k - 1}
    BY <1>1, <1>4, <2>2
  <2> QED
    BY <1>2, <2>1, <2>2, <2>3 DEF Quad!PointAt, Quad!Position
<1>6. ASSUME NEW i \in Quad!Indices(set) PROVE Quad!Position(set, i) \in [1..dim -> Int]
  BY <1>5 DEF GeneratedPoints
<1>7. ASSUME NEW k \in 1..N
      PROVE  /\ Quad!PointAt(set, 2 * k - 2) = points[k]
             /\ Quad!PointAt(set, 2 * k - 1) = Opposite(points[k])
  <2>1. /\ 2 * k - 2 + 1 = 2 * k - 1 /\ 2 * k - 1 + 1 = 2 * k
        /\ 2 * k - 1 \in 1..2 * N /\ 2 * k \in 1..2 * N
        /\ (2 * k - 1) % 2 = 1 /\ (2 * k - 1 + 1) \div 2 = k /\ (2 * k) % 2 = 0 /\ (2 * k) \div 2 = k
    BY <1>1
  <2>2. /\ Quad!PointAt(set, 2 * k - 2) = PointsInPairs(points, N)[2 * k - 1]
        /\ Quad!PointAt(set, 2 * k - 1) = PointsInPairs(points, N)[2 * k]
    BY <1>2, <2>1 DEF Quad!PointAt
  <2>3. PointsInPairs(points, N)[2 * k - 1] = points[k]
    BY <2>1 DEF PointsInPairs
  <2>4. PointsInPairs(points, N)[2 * k] = Opposite(points[k])
    BY <2>1 DEF PointsInPairs
  <2> QED
    BY <2>2, <2>3, <2>4
<1> QED
  BY <1>4, <1>5, <1>6, <1>7 DEF N

\* The set FillQuadratureSet makes of these points, and whatever it remembers.
IsFilled(set, points) ==
  /\ set.points = Paired(points, Len(points)).points
  /\ set.reflection = Paired(points, Len(points)).reflection

\* The reflections of a filled set are those between the pairs.
LEMMA OppositesInPairs ==
  ASSUME NEW dim \in 1..3, NEW points, HalfSet(points, dim), NEW set, IsFilled(set, points)
  PROVE  OppositesPaired(set)
<1> DEFINE N == Len(points)
<1>1. N \in Nat /\ points \in Seq(GeneratedPoints(dim))
  BY DEF HalfSet
<1>2. set.points = PointsInPairs(points, N)
      /\ set.reflection = [i \in 0..2 * N - 1 |-> IF i % 2 = 0 THEN i + 1 ELSE i - 1]
  BY DEF Paired, IsFilled
<1> HIDE DEF N
<1>3. /\ Quad!Indices(set) = 0..2 * N - 1
      /\ \A k \in 1..N : /\ Quad!PointAt(set, 2 * k - 2) = points[k]
                         /\ Quad!PointAt(set, 2 * k - 1) = Opposite(points[k])
      /\ \A i \in Quad!Indices(set) : \E k \in 1..N : i \in {2 * k - 2, 2 * k - 1}
  BY <1>2, PairAt DEF N
<1>4. ASSUME NEW k \in 1..N
      PROVE  /\ set.reflection[2 * k - 2] = 2 * k - 1 /\ set.reflection[2 * k - 1] = 2 * k - 2
             /\ 2 * k - 2 \in 0..2 * N - 1 /\ 2 * k - 1 \in 0..2 * N - 1
  <2>1. /\ (2 * k - 2) % 2 = 0 /\ (2 * k - 1) % 2 = 1
        /\ 2 * k - 2 \in 0..2 * N - 1 /\ 2 * k - 1 \in 0..2 * N - 1
    BY <1>1
  <2>2. set.reflection[2 * k - 2] = 2 * k - 1
    <3>1. set.reflection[2 * k - 2] = 2 * k - 2 + 1
      BY <1>2, <2>1
    <3> QED
      BY <3>1
  <2>3. set.reflection[2 * k - 1] = 2 * k - 2
    <3>1. set.reflection[2 * k - 1] = 2 * k - 1 - 1
      BY <1>2, <2>1
    <3> QED
      BY <3>1
  <2> QED
    BY <2>1, <2>2, <2>3
<1>5. ASSUME NEW k \in 1..N
      PROVE  LET p == Quad!Position(set, 2 * k - 2)
                 q == Quad!Position(set, 2 * k - 1)
             IN  q = Quad!ReflectAcrossOrigin(p) /\ p = Quad!ReflectAcrossOrigin(q)
  <2>1. points[k] \in GeneratedPoints(dim)
    BY <1>1 DEF N
  <2>2. points[k].position \in [1..dim -> Int]
    BY <2>1 DEF GeneratedPoints
  <2>3. Quad!Position(set, 2 * k - 2) = points[k].position
    BY <1>3 DEF Quad!Position
  <2>4. Quad!Position(set, 2 * k - 1) = Quad!ReflectAcrossOrigin(points[k].position)
    <3>1. Opposite(points[k]).position = Quad!ReflectAcrossOrigin(points[k].position)
      BY DEF Opposite, Quad!Point
    <3> QED
      BY <1>3, <3>1 DEF Quad!Position
  <2> QED
    BY <2>2, <2>3, <2>4, ReflectedTwice
<1>6. DOMAIN set.reflection = 0..2 * N - 1
  BY <1>2
<1> SUFFICES ASSUME NEW i \in Quad!Indices(set)
             PROVE  /\ Quad!Position(set, set.reflection[i])
                         = Quad!ReflectAcrossOrigin(Quad!Position(set, i))
                    /\ Quad!GetReflectionIndex(set, set.reflection[i]) = i
  BY DEF OppositesPaired
<1>7. PICK k \in 1..N : i \in {2 * k - 2, 2 * k - 1}
  BY <1>3
<1>8. CASE i = 2 * k - 2
  BY <1>4, <1>5, <1>6, <1>8 DEF Quad!GetReflectionIndex
<1>9. CASE i = 2 * k - 1
  BY <1>4, <1>5, <1>6, <1>9 DEF Quad!GetReflectionIndex
<1> QED
  BY <1>7, <1>8, <1>9

\* Mirrored in all axes but the first, a generated point is a generated point.
LEMMA OtherImages ==
  ASSUME NEW dim \in 1..3, NEW points, HalfSet(points, dim), NEW n \in 1..Len(points)
  PROVE  \E m \in 1..Len(points) :
           /\ Opposite(points[m]).position = Quad!Negated(points[n].position, {1})
           /\ points[m].weight = points[n].weight
<1> DEFINE N == Len(points)
           p == points[n].position
<1>1. N \in Nat /\ DOMAIN points = 1..N /\ \A m \in 1..N : points[m] \in GeneratedPoints(dim)
  BY DEF HalfSet
<1>2. \A m \in 1..N : points[m].position \in [1..dim -> Int]
  BY <1>1 DEF GeneratedPoints
<1> HIDE DEF N, p
<1>3. \A axis \in 2..dim, i \in 1..N : \E m \in 1..N :
        /\ points[m].position = Quad!Negated(points[i].position, {axis})
        /\ points[m].weight = points[i].weight
  <2>1. \A axis \in 2..dim, i \in DOMAIN points : \E m \in DOMAIN points :
          /\ points[m].position = Quad!Negated(points[i].position, {axis})
          /\ points[m].weight = points[i].weight
    BY Zenon DEF HalfSet
  <2> QED
    BY <1>1, <2>1, Zenon
<1> USE DEF p, N
<1>4. \A m \in 1..N : Opposite(points[m]).position = [i \in 1..dim |-> -points[m].position[i]]
  BY <1>2 DEF Opposite, Quad!Point, Quad!ReflectAcrossOrigin, Quad!Negated
<1>5. Quad!Negated(p, {1}) = [i \in 1..dim |-> IF i = 1 THEN -p[i] ELSE p[i]]
  BY <1>2 DEF Quad!Negated
<1> SUFFICES \E m \in 1..N :
      /\ [i \in 1..dim |-> -points[m].position[i]] = [i \in 1..dim |-> IF i = 1 THEN -p[i] ELSE p[i]]
      /\ points[m].weight = points[n].weight
  BY <1>4, <1>5
<1> HIDE DEF N
<1>6. CASE dim = 1
  BY <1>2, <1>6 DEF N
<1>7. CASE dim = 2
  <2>1. PICK m \in 1..N : /\ points[m].position = Quad!Negated(p, {2})
                          /\ points[m].weight = points[n].weight
    BY <1>3, <1>7 DEF N
  <2>2. points[m].position = [i \in 1..dim |-> IF i = 2 THEN -p[i] ELSE p[i]]
    BY <1>2, <2>1 DEF Quad!Negated, N
  <2>3. ASSUME NEW i \in 1..dim
        PROVE  -points[m].position[i] = IF i = 1 THEN -p[i] ELSE p[i]
    BY <1>2, <1>7, <2>2 DEF N
  <2> QED
    BY <2>1, <2>3
<1>8. CASE dim = 3
  <2>1. PICK l \in 1..N : /\ points[l].position = Quad!Negated(p, {2})
                          /\ points[l].weight = points[n].weight
    BY <1>3, <1>8 DEF N
  <2>2. PICK m \in 1..N : /\ points[m].position = Quad!Negated(points[l].position, {3})
                          /\ points[m].weight = points[l].weight
    BY <1>3, <1>8 DEF N
  <2>3. points[l].position = [i \in 1..dim |-> IF i = 2 THEN -p[i] ELSE p[i]]
    BY <1>2, <2>1 DEF Quad!Negated, N
  <2>4. points[m].position
          = [i \in 1..dim |-> IF i = 3 THEN -points[l].position[i] ELSE points[l].position[i]]
    BY <1>2, <2>2 DEF Quad!Negated
  <2>5. ASSUME NEW i \in 1..dim
        PROVE  -points[m].position[i] = IF i = 1 THEN -p[i] ELSE p[i]
    <3>1. p[i] \in Int /\ i \in {1, 2, 3}
      BY <1>2, <1>8 DEF N
    <3>2. points[l].position[i] = IF i = 2 THEN -p[i] ELSE p[i]
      BY <2>3
    <3>3. points[m].position[i]
            = IF i = 3 THEN -points[l].position[i] ELSE points[l].position[i]
      BY <2>4
    <3> HIDE DEF p
    <3> QED
      BY <3>1, <3>2, <3>3
  <2> QED
    BY <2>1, <2>2, <2>5
<1> QED
  BY <1>6, <1>7, <1>8

\* Every angle of the filled set has its one image in every axis.
LEMMA PairsAreSound ==
  ASSUME NEW dim \in 1..3, NEW points, HalfSet(points, dim)
  PROVE  SoundSet(Paired(points, Len(points)), dim)
<1> DEFINE N == Len(points)
           set == Paired(points, Len(points))
<1>1. N \in Nat /\ points \in Seq(GeneratedPoints(dim))
  BY DEF HalfSet
<1>2. /\ set.points = PointsInPairs(points, N) /\ set.mirrors = Quad!EmptySet.mirrors
      /\ set = [points |-> set.points, reflection |-> set.reflection, mirrors |-> set.mirrors]
  BY DEF Paired
<1> HIDE DEF N, set
<1>3. /\ Quad!Indices(set) = 0..2 * N - 1
      /\ \A k \in 1..N : /\ Quad!PointAt(set, 2 * k - 2) = points[k]
                         /\ Quad!PointAt(set, 2 * k - 1) = Opposite(points[k])
      /\ \A i \in Quad!Indices(set) : \E k \in 1..N : i \in {2 * k - 2, 2 * k - 1}
      /\ \A i \in Quad!Indices(set) : /\ Quad!Position(set, i) \in [1..dim -> Int]
                                      /\ Quad!Position(set, i) = Quad!PointAt(set, i).position
  <2>1. set.points = PointsInPairs(points, Len(points))
    BY <1>2 DEF N
  <2>2. /\ Quad!Indices(set) = 0..2 * Len(points) - 1
        /\ \A i \in Quad!Indices(set) : /\ Quad!PointAt(set, i) \in GeneratedPoints(dim)
                                        /\ Quad!Position(set, i) \in [1..dim -> Int]
                                        /\ Quad!Position(set, i) = Quad!PointAt(set, i).position
        /\ \A k \in 1..Len(points) :
             /\ Quad!PointAt(set, 2 * k - 2) = points[k]
             /\ Quad!PointAt(set, 2 * k - 1) = Opposite(points[k])
        /\ \A i \in Quad!Indices(set) : \E k \in 1..Len(points) : i \in {2 * k - 2, 2 * k - 1}
    BY <2>1, PairAt
  <2> QED
    BY <2>2 DEF N
<1>4. ASSUME NEW k \in 1..N
      PROVE  /\ points[k] \in GeneratedPoints(dim)
             /\ points[k].position \in [1..dim -> Int]
             /\ points[k].position[1] > 0
             /\ Opposite(points[k]).position[1] = -points[k].position[1]
             /\ Opposite(points[k]).weight = points[k].weight
             /\ 2 * k - 2 \in 0..2 * N - 1 /\ 2 * k - 1 \in 0..2 * N - 1
  <2>1. points[k] \in GeneratedPoints(dim)
    BY <1>1 DEF N
  <2>2. points[k].position \in [1..dim -> Int] /\ points[k].position[1] > 0
    BY <1>1, <2>1 DEF GeneratedPoints, HalfSet, N
  <2>3. 2 * k - 2 \in 0..2 * N - 1 /\ 2 * k - 1 \in 0..2 * N - 1
    BY <1>1
  <2> QED
    BY <2>1, <2>2, <2>3, OppositePoint
<1>5. /\ DOMAIN set.mirrors = {"XMax", "YMax", "ZMax"}
      /\ \A b \in DOMAIN set.mirrors : set.mirrors[b] = <<>>
      /\ \A axis \in Quad!Axes : Quad!Maxima[axis] \in {"XMax", "YMax", "ZMax"}
  <2>1. Quad!Maxima = <<"XMax", "YMax", "ZMax">> /\ Quad!Axes = 1..3
    BY DEF Quad!Maxima, Quad!Axes
  <2>2. Quad!Range(Quad!Maxima) = {"XMax", "YMax", "ZMax"}
    BY <2>1 DEF Quad!Range
  <2> QED
    BY <1>2, <2>1, <2>2 DEF Quad!EmptySet
<1>6. IsSet(set, dim)
  <2>1. ASSUME NEW i \in Quad!Indices(set), NEW j \in Quad!Indices(set),
               Quad!Position(set, i) = Quad!Position(set, j)
        PROVE  i = j
    <3>1. PICK k \in 1..N : i \in {2 * k - 2, 2 * k - 1}
      BY <1>3
    <3>2. PICK l \in 1..N : j \in {2 * l - 2, 2 * l - 1}
      BY <1>3
    <3>3. /\ Quad!Position(set, i) = IF i = 2 * k - 2 THEN points[k].position
                                     ELSE Opposite(points[k]).position
          /\ Quad!Position(set, j) = IF j = 2 * l - 2 THEN points[l].position
                                     ELSE Opposite(points[l]).position
      BY <1>3, <3>1, <3>2
    <3>4. points[k].position = points[l].position
      <4>1. points[k].position[1] \in Int /\ points[l].position[1] \in Int
        BY <1>4
      <4>2. CASE i = 2 * k - 2 /\ j = 2 * l - 2
        BY <2>1, <3>3, <4>2
      <4>3. CASE i # 2 * k - 2 /\ j # 2 * l - 2
        <5>1. Opposite(points[k]).position = Opposite(points[l]).position
          BY <2>1, <3>3, <4>3
        <5> QED
          BY <1>4, <5>1, SameOpposites
      <4>4. /\ points[k].position[1] > 0 /\ Opposite(points[k]).position[1] < 0
            /\ points[l].position[1] > 0 /\ Opposite(points[l]).position[1] < 0
        <5>1. points[k].position[1] > 0 /\ points[l].position[1] > 0
          BY <1>4
        <5>2. /\ Opposite(points[k]).position[1] = -points[k].position[1]
              /\ Opposite(points[l]).position[1] = -points[l].position[1]
          BY <1>4
        <5> QED
          BY <4>1, <5>1, <5>2
      <4>5. /\ points[k].position # Opposite(points[l]).position
            /\ Opposite(points[k]).position # points[l].position
        <5>1. \A p, q : p = q => p[1] = q[1]
          OBVIOUS
        <5>2. /\ points[k].position[1] # Opposite(points[l]).position[1]
              /\ Opposite(points[k]).position[1] # points[l].position[1]
          <6>1. /\ Opposite(points[k]).position[1] \in Int
                /\ Opposite(points[l]).position[1] \in Int
            <7>1. /\ Opposite(points[k]).position[1] = -points[k].position[1]
                  /\ Opposite(points[l]).position[1] = -points[l].position[1]
              BY <1>4
            <7> QED
              BY <4>1, <7>1
          <6> QED
            BY <4>1, <4>4, <6>1
        <5> QED
          BY <5>2
      <4> QED
        BY <2>1, <3>3, <4>2, <4>3, <4>5
    <3>5. k = l
      BY <1>1, <3>4 DEF HalfSet, N
    <3>6. points[k].position[1] # Opposite(points[k]).position[1]
      <4>1. points[k].position[1] \in Int
        BY <1>4
      <4> QED
        BY <1>4, <4>1
    <3> QED
      BY <2>1, <3>1, <3>2, <3>3, <3>5, <3>6
  <2> QED
    BY <1>2, <1>3, <1>5, <2>1 DEF IsSet
<1>7. HasImages(set, dim)
  <2> SUFFICES ASSUME NEW axis \in Quad!Axes \cap (1..dim), NEW i \in Quad!Indices(set)
               PROVE  \E j \in Quad!Indices(set) : IsMirror(set, i, j, axis)
    BY DEF HasImages
  <2>1. PICK k \in 1..N : i \in {2 * k - 2, 2 * k - 1}
    BY <1>3
  \* The two points of a pair k mirror to those of a pair m, the same or crossed.
  <2>2. \E m \in 1..N :
          /\ points[m].weight = points[k].weight
          /\ IF axis = 1
             THEN Opposite(points[m]).position = Quad!Negated(points[k].position, {1})
             ELSE points[m].position = Quad!Negated(points[k].position, {axis})
    <3>1. CASE axis = 1
      BY <3>1, OtherImages DEF N
    <3>2. CASE axis # 1
      <4>1. axis \in 2..dim /\ k \in DOMAIN points /\ DOMAIN points = 1..N
        BY <1>1, <3>2 DEF Quad!Axes, N
      <4> QED
        BY <3>2, <4>1 DEF HalfSet
    <3> QED
      BY <3>1, <3>2
  <2>3. PICK m \in 1..N :
          /\ points[m].weight = points[k].weight
          /\ IF axis = 1
             THEN Opposite(points[m]).position = Quad!Negated(points[k].position, {1})
             ELSE points[m].position = Quad!Negated(points[k].position, {axis})
    BY <2>2
  <2> DEFINE pk == points[k].position
             pm == points[m].position
             ok == [a \in 1..dim |-> -pk[a]]
             om == [a \in 1..dim |-> -pm[a]]
             mirrored(p) == [a \in 1..dim |-> IF a = axis THEN -p[a] ELSE p[a]]
  <2>4. pk \in [1..dim -> Int] /\ pm \in [1..dim -> Int]
    BY <1>4
  <2>5. Opposite(points[k]).position = ok /\ Opposite(points[m]).position = om
    BY <2>4 DEF Opposite, Quad!Point, Quad!ReflectAcrossOrigin, Quad!Negated
  <2>6. /\ Quad!Negated(pk, {axis}) = mirrored(pk)
        /\ Quad!Negated(ok, {axis}) = mirrored(ok)
    BY <2>4 DEF Quad!Negated
  <2>7. /\ axis = 1 => om = mirrored(pk)
        /\ axis # 1 => pm = mirrored(pk)
    BY <2>3, <2>5, <2>6
  <2>8. /\ axis = 1 => pm = mirrored(ok)
        /\ axis # 1 => om = mirrored(ok)
    <3>1. CASE axis = 1
      <4>1. \A a \in 1..dim : om[a] = mirrored(pk)[a]
        BY <2>7, <3>1
      <4>2. \A a \in 1..dim : -pm[a] = IF a = axis THEN -pk[a] ELSE pk[a]
        BY <4>1
      <4>3. ASSUME NEW a \in 1..dim PROVE pm[a] = IF a = axis THEN -ok[a] ELSE ok[a]
        <5>1. pm[a] \in Int /\ pk[a] \in Int /\ ok[a] = -pk[a]
          BY <2>4
        <5>2. -pm[a] = IF a = axis THEN -pk[a] ELSE pk[a]
          BY <4>2
        <5> HIDE DEF pm, pk, ok
        <5> QED
          BY <5>1, <5>2
      <4>4. pm = [a \in 1..dim |-> pm[a]]
        BY <2>4
      <4> HIDE DEF pm, pk, ok
      <4> QED
        BY <3>1, <4>3, <4>4
    <3>2. CASE axis # 1
      <4>1. \A a \in 1..dim : pm[a] = IF a = axis THEN -pk[a] ELSE pk[a]
        BY <2>7, <3>2
      <4>2. \A a \in 1..dim : om[a] = IF a = axis THEN -ok[a] ELSE ok[a]
        BY <2>4, <4>1
      <4> QED
        BY <2>4, <3>2, <4>2
    <3> QED
      BY <3>1, <3>2
  <2>9. /\ Quad!Position(set, 2 * k - 2) = pk /\ Quad!Position(set, 2 * k - 1) = ok
        /\ Quad!Position(set, 2 * m - 2) = pm /\ Quad!Position(set, 2 * m - 1) = om
        /\ Quad!PointAt(set, 2 * k - 2).weight = points[k].weight
        /\ Quad!PointAt(set, 2 * k - 1).weight = points[k].weight
        /\ Quad!PointAt(set, 2 * m - 2).weight = points[k].weight
        /\ Quad!PointAt(set, 2 * m - 1).weight = points[k].weight
    <3>1. /\ Quad!PointAt(set, 2 * k - 2) = points[k]
          /\ Quad!PointAt(set, 2 * k - 1) = Opposite(points[k])
          /\ Quad!PointAt(set, 2 * m - 2) = points[m]
          /\ Quad!PointAt(set, 2 * m - 1) = Opposite(points[m])
      BY <1>3
    <3>2. /\ Opposite(points[k]).weight = points[k].weight
          /\ Opposite(points[m]).weight = points[m].weight
      BY <1>4
    <3> HIDE DEF ok, om
    <3> QED
      BY <2>3, <2>5, <3>1, <3>2 DEF Quad!Position
  <2>10. 2 * m - 2 \in Quad!Indices(set) /\ 2 * m - 1 \in Quad!Indices(set)
    BY <1>3, <1>4
  <2> DEFINE j == IF (i = 2 * k - 2) = (axis = 1) THEN 2 * m - 1 ELSE 2 * m - 2
  <2>11. IsMirror(set, i, j, axis)
    <3> HIDE DEF pk, pm, ok, om, mirrored
    <3>1. CASE i = 2 * k - 2 /\ axis = 1
      BY <2>6, <2>7, <2>9, <3>1 DEF IsMirror
    <3>2. CASE i = 2 * k - 2 /\ axis # 1
      BY <2>6, <2>7, <2>9, <3>2 DEF IsMirror
    <3>3. CASE i # 2 * k - 2 /\ axis = 1
      BY <2>1, <2>6, <2>8, <2>9, <3>3 DEF IsMirror
    <3>4. CASE i # 2 * k - 2 /\ axis # 1
      BY <2>1, <2>6, <2>8, <2>9, <3>4 DEF IsMirror
    <3> QED
      BY <3>1, <3>2, <3>3, <3>4
  <2> QED
    BY <2>10, <2>11
<1>8. RemembersImages(set, dim)
  BY <1>5 DEF RemembersImages, AreImages
<1> QED
  BY <1>6, <1>7, <1>8 DEF SoundSet, set

-----------------------------------------------------------------------------
(***************************************************************************)
(* The current of a flux that is the same in all angles.                   *)
(***************************************************************************)
\* A sum over the points of a set is one of its terms after the other.
LEMMA WeightedSumIs ==
  ASSUME NEW set, Quad!SetSize(set) \in Nat, NEW value, NEW indices
  PROVE  LET term == [n \in 1..Quad!SetSize(set) |->
                        IF n - 1 \in indices THEN Quad!PointAt(set, n - 1).weight * value[n - 1]
                        ELSE 0]
         IN  \E f : /\ SummedTo(term, Quad!SetSize(set), f)
                    /\ Quad!WeightedSum(set, value, indices) = f[Quad!SetSize(set)]
<1> DEFINE N == Quad!SetSize(set)
           each(n) == IF n - 1 \in indices THEN Quad!PointAt(set, n - 1).weight * value[n - 1]
                      ELSE 0
           term == [n \in 1..N |-> each(n)]
           IsSum(f) == f = [n \in 0..N |-> IF n = 0 THEN 0 ELSE f[n - 1] + each(n)]
           f == CHOOSE f : IsSum(f)
<1>1. Quad!WeightedSum(set, value, indices) = f[N]
  BY DEF Quad!WeightedSum
<1> HIDE DEF N, each
<1>2. PICK g : SummedTo(term, N, g)
  <2>1. N \in Nat
    BY DEF N
  <2> HIDE DEF term
  <2> QED
    BY <2>1, SumExists
<1>3. IsSum(g)
  <2>1. \A n \in 0..N : n # 0 => term[n] = each(n)
    BY DEF N
  <2> QED
    BY <1>2, <2>1 DEF SummedTo
<1>4. IsSum(f)
  <2> HIDE DEF IsSum
  <2> QED
    BY <1>3
<1>5. SummedTo(term, N, f)
  <2>1. \A n \in 0..N : n # 0 => term[n] = each(n)
    BY DEF N
  <2> HIDE DEF f, term
  <2> QED
    BY <1>4, <2>1 DEF SummedTo
<1> QED
  BY <1>1, <1>5 DEF N, each

\* A pair contributes opposite terms to the current of a flux that is the
\* same in all angles, so IntegrateDirectional gives no current.
LEMMA NoNetCurrent ==
  ASSUME NEW dim \in 1..3, NEW points, HalfSet(points, dim), NEW set, IsFilled(set, points),
         NEW axis \in 1..dim
  PROVE  Quad!NetCurrent(set, [i \in Quad!Indices(set) |-> 1], axis) = 0
<1> DEFINE N == Len(points)
           M == Quad!SetSize(set)
           ones == [i \in Quad!Indices(set) |-> 1]
           value == Quad!Scaled(ones, Quad!Along(set, axis))
           term == [n \in 1..M |->
                      IF n - 1 \in Quad!Indices(set)
                      THEN Quad!PointAt(set, n - 1).weight * value[n - 1] ELSE 0]
<1>1. N \in Nat /\ points \in Seq(GeneratedPoints(dim))
  BY DEF HalfSet
<1>2. set.points = PointsInPairs(points, Len(points))
  BY DEF Paired, IsFilled
<1>3. /\ Quad!Indices(set) = 0..2 * N - 1
      /\ \A i \in Quad!Indices(set) : Quad!Position(set, i) = Quad!PointAt(set, i).position
      /\ \A k \in 1..N : /\ Quad!PointAt(set, 2 * k - 2) = points[k]
                         /\ Quad!PointAt(set, 2 * k - 1) = Opposite(points[k])
  BY <1>2, PairAt
<1>4. M = 2 * N
  <2>1. \A i \in 1..2 * N : PointsInPairs(points, N)[i] \in GeneratedPoints(dim)
    <3> TAKE i \in 1..2 * N
    <3>1. N \in 0..Len(points)
      BY <1>1
    <3> QED
      BY <3>1, PointInPairs
  <2>2. set.points = [i \in 1..2 * N |-> PointsInPairs(points, N)[i]]
    BY <1>2 DEF PointsInPairs
  <2>3. set.points \in Seq(GeneratedPoints(dim))
    BY <1>1, <2>1, <2>2
  <2> HIDE DEF N
  <2> QED
    BY <1>1, <2>2, <2>3 DEF Quad!SetSize
<1> HIDE DEF N, M, term, value, ones
<1>5. PICK f : SummedTo(term, M, f) /\ Quad!WeightedSum(set, value, Quad!Indices(set)) = f[M]
  <2>1. Quad!SetSize(set) \in Nat
    BY <1>1, <1>4 DEF M
  <2> QED
    BY <2>1, WeightedSumIs DEF M, term
<1>6. \A i \in Quad!Indices(set) : value[i] = 1 * Quad!PointAt(set, i).position[axis]
  BY <1>3 DEF value, ones, Quad!Scaled, Quad!Along
<1>7. ASSUME NEW k \in 1..N
      PROVE  term[2 * k - 1] + term[2 * k] = 0 /\ term[2 * k - 1] \in Int /\ term[2 * k] \in Int
  <2> DEFINE p == points[k].position[axis]
             w == points[k].weight
  <2>1. points[k] \in GeneratedPoints(dim)
    BY <1>1 DEF N
  <2>2. p \in Int /\ w \in Int
    BY <2>1 DEF GeneratedPoints
  <2>3. Opposite(points[k]).position[axis] = -p /\ Opposite(points[k]).weight = w
    BY <2>1, OppositePoint
  <2>4. /\ 2 * k - 1 \in 1..M /\ 2 * k \in 1..M
        /\ 2 * k - 2 \in Quad!Indices(set) /\ 2 * k - 1 \in Quad!Indices(set)
        /\ 2 * k - 1 - 1 = 2 * k - 2
    BY <1>1, <1>3, <1>4
  <2>5. term[2 * k - 1] = Quad!PointAt(set, 2 * k - 2).weight * value[2 * k - 2]
    BY <2>4 DEF term
  <2>6. term[2 * k] = Quad!PointAt(set, 2 * k - 1).weight * value[2 * k - 1]
    BY <2>4 DEF term
  <2>7. value[2 * k - 2] = p
    <3>1. value[2 * k - 2] = 1 * p
      BY <1>3, <1>6, <2>4
    <3> QED
      BY <2>2, <3>1
  <2>8. value[2 * k - 1] = -p
    <3>1. value[2 * k - 1] = 1 * (-p)
      BY <1>3, <1>6, <2>3, <2>4
    <3> QED
      BY <2>2, <3>1
  <2>9. Quad!PointAt(set, 2 * k - 2).weight = w /\ Quad!PointAt(set, 2 * k - 1).weight = w
    BY <1>3, <2>3
  <2>10. term[2 * k - 1] = w * p /\ term[2 * k] = w * (-p)
    BY <2>5, <2>6, <2>7, <2>8, <2>9
  <2> HIDE DEF p, w
  <2>11. w * (-p) = -(w * p) /\ w * p \in Int
    BY <2>2
  <2> QED
    BY <2>10, <2>11
<1> DEFINE S == {k \in 0..N : f[2 * k] = 0}
<1>8. 0 \in S
  BY <1>1, <1>4, <1>5 DEF SummedTo
<1>9. ASSUME NEW k \in 1..N, k - 1 \in S PROVE k \in S
  <2>1. 2 * k - 1 \in 0..M /\ 2 * k \in 0..M /\ 2 * k - 1 # 0 /\ 2 * k # 0
    BY <1>1, <1>4
  <2>2. f[2 * k - 1] = f[2 * k - 1 - 1] + term[2 * k - 1]
    BY <1>5, <2>1 DEF SummedTo
  <2>3. f[2 * k] = f[2 * k - 1] + term[2 * k]
    BY <1>5, <2>1 DEF SummedTo
  <2>4. 2 * k - 1 - 1 = 2 * (k - 1)
    BY <1>1
  <2>5. f[2 * (k - 1)] = 0
    BY <1>9
  <2>6. f[2 * k - 1] = 0 + term[2 * k - 1]
    BY <2>2, <2>4, <2>5
  <2> QED
    BY <1>7, <2>3, <2>6
<1> HIDE DEF S
<1>10. N \in S
  <2>1. N \in Nat
    BY <1>1
  <2>2. \A k \in 1..N : k - 1 \in S => k \in S
    BY <1>9
  <2>3. 0..N \subseteq S
    BY <1>8, <2>1, <2>2, InductionTo
  <2> QED
    BY <2>1, <2>3
<1>11. Quad!NetCurrent(set, ones, axis) = f[M]
  BY <1>5 DEF Quad!NetCurrent, value
<1> QED
  BY <1>4, <1>10, <1>11 DEF S, ones

-----------------------------------------------------------------------------
(***************************************************************************)
(* The generators make one half of a set that has all mirror images.       *)
(***************************************************************************)
\* Gauss-Legendre points are as many distinct points on one side.
LEMMA LinePoints ==
  ASSUME NEW order \in Nat \ {0}
  PROVE  LET points == Quad!GenerateAllPositiveX(Quad!GaussLegendre(order))
         IN  HalfSet(points, 1) /\ Len(points) > 0
<1> DEFINE half == Quad!GaussLegendre(order)
           images == [n \in 1..Len(half) * 0 |->
                        Quad!PositiveXImages(half[(n - 1) \div 0 + 1])[((n - 1) % 0) + 1]]
<1>1. half = [i \in 1..order |-> [position |-> <<i>>, weight |-> i]]
  BY DEF Quad!GaussLegendre, Quad!Point
<1>2. \A i \in 1..order : [position |-> <<i>>, weight |-> i] \in GeneratedPoints(1)
  <2> TAKE i \in 1..order
  <2>1. <<i>> \in [1..1 -> Int]
    OBVIOUS
  <2> QED
    BY <2>1 DEF GeneratedPoints
<1> HIDE DEF half
<1>3. half \in Seq(GeneratedPoints(1)) /\ Len(half) = order /\ DOMAIN half = 1..order
  <2>1. half \in [1..order -> GeneratedPoints(1)]
    BY <1>1, <1>2
  <2> QED
    BY <2>1
<1>4. Quad!PositiveXImages(Head(half)) = <<>>
  <2>1. Head(half) = half[1]
    BY <1>3
  <2>2. Head(half).position = <<1>>
    BY <1>1, <2>1
  <2>3. Len(Head(half).position) = 1
    BY <2>2
  <2>4. \A point : Len(point.position) = 1 => Quad!PositiveXImages(point) = <<>>
    BY DEF Quad!PositiveXImages
  <2> QED
    BY <2>3, <2>4
<1>5. Quad!GenerateAllPositiveX(half) = half \o images
  <2>1. Len(<<>>) = 0
    OBVIOUS
  <2> QED
    BY <1>4, <2>1 DEF Quad!GenerateAllPositiveX
<1>6. images \in Seq(GeneratedPoints(1)) /\ Len(images) = 0
  <2>1. Len(half) * 0 = 0
    BY <1>3
  <2>2. images \in [1..0 -> GeneratedPoints(1)]
    BY <2>1
  <2> HIDE DEF images
  <2> QED
    BY <2>2
<1> HIDE DEF images
<1>7. half \o images = half
  BY <1>3, <1>6
<1>8. \A n \in DOMAIN half : half[n].position = <<n>> /\ half[n].position[1] = n
  BY <1>1
<1>9. HalfSet(half, 1)
  <2>1. \A n \in DOMAIN half : half[n].position[1] > 0
    BY <1>3, <1>8
  <2>2. \A m, n \in DOMAIN half : half[m].position = half[n].position => m = n
    BY <1>8
  <2> QED
    BY <1>3, <2>1, <2>2 DEF HalfSet
<1> QED
  BY <1>3, <1>5, <1>7, <1>9 DEF half

-----------------------------------------------------------------------------
\* What the level symmetric rule generates, before it is mirrored.
InOctant(points) ==
  /\ points \in Seq(GeneratedPoints(3))
  /\ \A n \in DOMAIN points : \A axis \in 1..3 : points[n].position[axis] > 0
  /\ \A m, n \in DOMAIN points : points[m].position = points[n].position => m = n

\* The points of the first levels, one level after the other.
LevelsBelow(order, L, f) ==
  f = [l \in 0..L |-> IF l = 0 THEN <<>> ELSE f[l - 1] \o Quad!LevelPoints(order, l - 1)]

\* There is such a sequence, whatever the order.
LEMMA LevelsExist ==
  ASSUME NEW order, NEW L \in Nat
  PROVE  \E f : LevelsBelow(order, L, f)
<1> DEFINE S == {l \in 0..L : \E f : LevelsBelow(order, l, f)}
<1>1. 0 \in S
  <2> DEFINE f == [l \in 0..0 |-> <<>>]
  <2>1. LevelsBelow(order, 0, f)
    BY DEF LevelsBelow
  <2> QED
    BY <2>1
<1>2. ASSUME NEW l \in 1..L, l - 1 \in S PROVE l \in S
  <2>1. PICK f : LevelsBelow(order, l - 1, f)
    BY <1>2
  <2> DEFINE last == f[l - 1] \o Quad!LevelPoints(order, l - 1)
             g == [i \in 0..l |-> IF i = l THEN last ELSE f[i]]
  <2> HIDE DEF last
  <2>2. ASSUME NEW i \in 0..l
        PROVE  g[i] = IF i = 0 THEN <<>> ELSE g[i - 1] \o Quad!LevelPoints(order, i - 1)
    <3>1. CASE i = l
      <4>1. g[i] = last /\ g[i - 1] = f[l - 1] /\ i # 0
        BY <3>1
      <4> QED
        BY <3>1, <4>1 DEF last
    <3>2. CASE i # l
      <4>1. i \in 0..l - 1 /\ g[i] = f[i] /\ (i # 0 => g[i - 1] = f[i - 1])
        BY <3>2
      <4>2. f[i] = IF i = 0 THEN <<>> ELSE f[i - 1] \o Quad!LevelPoints(order, i - 1)
        BY <2>1, <4>1 DEF LevelsBelow
      <4> QED
        BY <4>1, <4>2
    <3> QED
      BY <3>1, <3>2
  <2>3. LevelsBelow(order, l, g)
    BY <2>2 DEF LevelsBelow
  <2> QED
    BY <2>3
<1> HIDE DEF S
<1>3. L \in S
  BY <1>1, <1>2, InductionTo
<1> QED
  BY <1>3 DEF S

\* One more level lies below the others.
LEMMA LevelAdded ==
  ASSUME NEW order \in Nat, NEW l \in 1..order \div 2, NEW before, InOctant(before),
         \A n \in DOMAIN before : before[n].position[3] > order \div 2 - (l - 1)
  PROVE  LET after == before \o Quad!LevelPoints(order, l - 1)
         IN  /\ InOctant(after) /\ Len(after) > 0
             /\ \A n \in DOMAIN after : after[n].position[3] > order \div 2 - l
<1> DEFINE h == order \div 2
           level == Quad!LevelPoints(order, l - 1)
           after == before \o level
<1>1. h \in Nat
  OBVIOUS
<1> HIDE DEF h
<1>2. level = [j \in 1..l - 1 + 1 |-> [position |-> <<l - 1 + 2 - j, j, h - (l - 1)>>,
                                       weight |-> l - 1 + 1]]
  BY DEF Quad!LevelPoints, Quad!Point, h
<1>3. l \in Int /\ l > 0 /\ l <= h /\ l - 1 + 1 = l
  BY <1>1 DEF h
<1> HIDE DEF level
<1>4. ASSUME NEW j \in 1..l
      PROVE  /\ level[j] \in GeneratedPoints(3)
             /\ level[j].position[1] = l + 1 - j /\ level[j].position[2] = j
             /\ level[j].position[3] = h - l + 1
             /\ \A axis \in 1..3 : level[j].position[axis] > 0
  <2> DEFINE p == <<l - 1 + 2 - j, j, h - (l - 1)>>
  <2>1. level[j] = [position |-> p, weight |-> l - 1 + 1]
    BY <1>2, <1>3
  <2>2. l - 1 + 2 - j = l + 1 - j /\ h - (l - 1) = h - l + 1 /\ l + 1 - j > 0 /\ h - l + 1 > 0
    BY <1>1, <1>3
  <2>3. p[1] = l + 1 - j /\ p[2] = j /\ p[3] = h - l + 1
    BY <2>2
  <2>4. p \in [1..3 -> Int]
    BY <1>1, <1>3
  <2>5. \A axis \in 1..3 : p[axis] > 0
    <3>1. p[1] > 0 /\ p[2] > 0 /\ p[3] > 0
      BY <2>2, <2>3
    <3> HIDE DEF p
    <3> QED
      BY <3>1
  <2> HIDE DEF p
  <2> QED
    BY <1>3, <2>1, <2>3, <2>4, <2>5 DEF GeneratedPoints
<1>5. level \in Seq(GeneratedPoints(3)) /\ Len(level) = l /\ DOMAIN level = 1..l
  <2>1. level \in [1..l -> GeneratedPoints(3)]
    BY <1>2, <1>3, <1>4
  <2> QED
    BY <1>3, <2>1
<1>6. before \in Seq(GeneratedPoints(3)) /\ Len(before) \in Nat /\ DOMAIN before = 1..Len(before)
  BY DEF InOctant
<1>7. /\ after \in Seq(GeneratedPoints(3)) /\ Len(after) = Len(before) + l
      /\ \A n \in DOMAIN after : \/ n \in DOMAIN before /\ after[n] = before[n]
                                 \/ n - Len(before) \in 1..l /\ after[n] = level[n - Len(before)]
  <2>1. after = before \o level
    OBVIOUS
  <2> HIDE DEF after
  <2>2. after \in Seq(GeneratedPoints(3)) /\ Len(after) = Len(before) + l
    BY <1>5, <1>6, <2>1
  <2>3. ASSUME NEW n \in DOMAIN after
        PROVE  \/ n \in DOMAIN before /\ after[n] = before[n]
               \/ n - Len(before) \in 1..l /\ after[n] = level[n - Len(before)]
    <3>1. n \in 1..Len(before) + l
      BY <1>6, <2>2
    <3>2. CASE n <= Len(before)
      BY <1>5, <1>6, <2>1, <3>1, <3>2
    <3>3. CASE n > Len(before)
      <4>1. n - Len(before) \in 1..l
        BY <1>3, <1>6, <3>1, <3>3
      <4>2. after[n] = level[n - Len(before)]
        BY <1>5, <1>6, <2>1, <3>1, <3>3
      <4> QED
        BY <4>1, <4>2
    <3> QED
      BY <1>6, <3>1, <3>2, <3>3
  <2> QED
    BY <2>2, <2>3
<1>8. \A n \in DOMAIN before : before[n].position[3] > h - l + 1 /\ before[n].position[3] \in Int
  <2> TAKE n \in DOMAIN before
  <2>1. before[n].position \in [1..3 -> Int]
    <3>1. before[n] \in GeneratedPoints(3)
      BY <1>6
    <3> QED
      BY <3>1 DEF GeneratedPoints
  <2>2. before[n].position[3] > h - (l - 1)
    BY DEF h
  <2> QED
    BY <1>1, <1>3, <2>1, <2>2
<1> HIDE DEF after
<1>9. \A n \in DOMAIN after : after[n].position[3] > h - l
  <2> TAKE n \in DOMAIN after
  <2>1. CASE n \in DOMAIN before /\ after[n] = before[n]
    BY <1>1, <1>3, <1>8, <2>1
  <2>2. CASE n - Len(before) \in 1..l /\ after[n] = level[n - Len(before)]
    <3>1. after[n].position[3] = h - l + 1
      BY <1>4, <2>2
    <3> QED
      BY <1>1, <1>3, <3>1
  <2> QED
    BY <1>7, <2>1, <2>2
<1>10. \A n \in DOMAIN after : \A axis \in 1..3 : after[n].position[axis] > 0
  <2> TAKE n \in DOMAIN after
  <2>1. CASE n \in DOMAIN before /\ after[n] = before[n]
    BY <2>1 DEF InOctant
  <2>2. CASE n - Len(before) \in 1..l /\ after[n] = level[n - Len(before)]
    BY <1>4, <2>2
  <2> QED
    BY <1>7, <2>1, <2>2
<1>11. ASSUME NEW m \in DOMAIN after, NEW n \in DOMAIN after,
              after[m].position = after[n].position
       PROVE  m = n
  <2>1. after[m].position[2] = after[n].position[2] /\ after[m].position[3] = after[n].position[3]
    BY <1>11
  <2>2. CASE m \in DOMAIN before /\ n \in DOMAIN before /\ after[m] = before[m] /\ after[n] = before[n]
    BY <1>11, <2>2 DEF InOctant
  <2>3. CASE /\ m - Len(before) \in 1..l /\ after[m] = level[m - Len(before)]
             /\ n - Len(before) \in 1..l /\ after[n] = level[n - Len(before)]
    <3>1. m - Len(before) = n - Len(before)
      BY <1>4, <2>1, <2>3
    <3>2. m \in Int /\ n \in Int
      BY <1>7
    <3> QED
      BY <1>6, <3>1, <3>2
  <2>4. CASE /\ m - Len(before) \in 1..l /\ after[m] = level[m - Len(before)]
             /\ n \in DOMAIN before /\ after[n] = before[n]
    <3>1. after[m].position[3] = h - l + 1 /\ after[n].position[3] > h - l + 1
          /\ after[n].position[3] \in Int
      BY <1>4, <1>8, <2>4
    <3> QED
      BY <1>1, <1>3, <2>1, <3>1
  <2>5. CASE /\ n - Len(before) \in 1..l /\ after[n] = level[n - Len(before)]
             /\ m \in DOMAIN before /\ after[m] = before[m]
    <3>1. after[n].position[3] = h - l + 1 /\ after[m].position[3] > h - l + 1
          /\ after[m].position[3] \in Int
      BY <1>4, <1>8, <2>5
    <3> QED
      BY <1>1, <1>3, <2>1, <3>1
  <2> QED
    BY <1>7, <2>2, <2>3, <2>4, <2>5
<1>12. InOctant(after)
  BY <1>7, <1>10, <1>11 DEF InOctant
<1>13. Len(after) > 0
  BY <1>3, <1>6, <1>7
<1> QED
  BY <1>9, <1>12, <1>13 DEF after, h, level

\* All levels of the rule are distinct points of one octant.
LEMMA LevelSymmetricPoints ==
  ASSUME NEW order \in Nat, order \div 2 > 0
  PROVE  /\ InOctant(Quad!LevelSymmetricGaussian(order))
         /\ Len(Quad!LevelSymmetricGaussian(order)) > 0
<1> DEFINE L == order \div 2
           f == CHOOSE f : LevelsBelow(order, L, f)
           Sound(l) == /\ InOctant(f[l]) /\ (l > 0 => Len(f[l]) > 0)
                       /\ \A n \in DOMAIN f[l] : f[l][n].position[3] > L - l
           S == {l \in 0..L : Sound(l)}
<1>1. L \in Nat
  OBVIOUS
<1>2. LevelsBelow(order, L, f)
  <2>1. \E g : LevelsBelow(order, L, g)
    BY <1>1, LevelsExist
  <2> QED
    BY <2>1
<1>3. Quad!LevelSymmetricGaussian(order) = f[L]
  BY DEF Quad!LevelSymmetricGaussian, LevelsBelow
<1> HIDE DEF f
<1>4. 0 \in S
  <2>1. f[0] = <<>>
    BY <1>1, <1>2 DEF LevelsBelow
  <2>2. <<>> \in Seq(GeneratedPoints(3)) /\ DOMAIN <<>> = {}
    OBVIOUS
  <2>3. InOctant(<<>>)
    BY <2>2 DEF InOctant
  <2> QED
    BY <1>1, <2>1, <2>2, <2>3
<1>5. ASSUME NEW l \in 1..L, l - 1 \in S PROVE l \in S
  <2>1. f[l] = f[l - 1] \o Quad!LevelPoints(order, l - 1)
    BY <1>1, <1>2 DEF LevelsBelow
  <2>2. InOctant(f[l - 1]) /\ \A n \in DOMAIN f[l - 1] : f[l - 1][n].position[3] > L - (l - 1)
    BY <1>5
  <2>3. /\ InOctant(f[l]) /\ Len(f[l]) > 0
        /\ \A n \in DOMAIN f[l] : f[l][n].position[3] > L - l
    BY <2>1, <2>2, LevelAdded
  <2> QED
    BY <1>1, <2>3
<1> HIDE DEF S
<1>6. L \in S
  <2>1. \A l \in 1..L : l - 1 \in S => l \in S
    BY <1>5
  <2>2. 0..L \subseteq S
    BY <1>1, <1>4, <2>1, InductionTo
  <2> QED
    BY <1>1, <2>2
<1> QED
  BY <1>3, <1>6 DEF S

\* The images of a point, itself the first.
Image(point, s) ==
  [position |-> <<point.position[1],
                  IF s \in {1, 2} THEN -point.position[2] ELSE point.position[2],
                  IF s \in {2, 3} THEN -point.position[3] ELSE point.position[3]>>,
   weight |-> point.weight]

\* GenerateAllPositiveX adds three images of a point.
LEMMA ImageOfPoint ==
  ASSUME NEW point \in GeneratedPoints(3)
  PROVE  /\ \A s \in 0..3 : Image(point, s) \in GeneratedPoints(3)
         /\ Image(point, 0) = point
         /\ Quad!PositiveXImages(point) = <<Image(point, 1), Image(point, 2), Image(point, 3)>>
<1> DEFINE p == point.position
           q(s) == <<p[1], IF s \in {1, 2} THEN -p[2] ELSE p[2], IF s \in {2, 3} THEN -p[3] ELSE p[3]>>
<1>1. /\ p \in [1..3 -> Int] /\ point.weight \in Int
      /\ point = [position |-> point.position, weight |-> point.weight]
  BY DEF GeneratedPoints
<1>2. \A s \in 0..3 : q(s) \in [1..3 -> Int]
  BY <1>1
<1>3. \A s \in 0..3 : Image(point, s) \in GeneratedPoints(3)
  BY <1>1, <1>2 DEF Image, GeneratedPoints
<1>4. Len(p) = 3
  <2>1. \A f \in [1..3 -> Int] : Len(f) = 3
    OBVIOUS
  <2> HIDE DEF p
  <2> QED
    BY <1>1, <2>1
<1>5. q(0) = p
  <2>1. \A i \in 1..3 : q(0)[i] = p[i]
    OBVIOUS
  <2> QED
    BY <1>1, <1>2, <2>1
<1>6. Quad!Negated(p, {2}) = q(1)
  <2>1. Quad!Negated(p, {2}) = [i \in 1..3 |-> IF i = 2 THEN -p[i] ELSE p[i]]
    BY <1>1 DEF Quad!Negated
  <2>2. \A i \in 1..3 : q(1)[i] = IF i = 2 THEN -p[i] ELSE p[i]
    OBVIOUS
  <2> QED
    BY <1>2, <2>1, <2>2
<1>7. Quad!Negated(q(1), {3}) = q(2)
  <2>1. Quad!Negated(q(1), {3}) = [i \in 1..3 |-> IF i = 3 THEN -q(1)[i] ELSE q(1)[i]]
    BY <1>2 DEF Quad!Negated
  <2>2. \A i \in 1..3 : q(2)[i] = IF i = 3 THEN -q(1)[i] ELSE q(1)[i]
    OBVIOUS
  <2> QED
    BY <1>2, <2>1, <2>2
<1>8. Quad!Negated(q(2), {2}) = q(3)
  <2>1. Quad!Negated(q(2), {2}) = [i \in 1..3 |-> IF i = 2 THEN -q(2)[i] ELSE q(2)[i]]
    BY <1>2 DEF Quad!Negated
  <2>2. \A i \in 1..3 : q(3)[i] = IF i = 2 THEN -q(2)[i] ELSE q(2)[i]
    BY <1>1
  <2> QED
    BY <1>2, <2>1, <2>2
<1>9. \A s : Image(point, s) = Quad!Point(q(s), point.weight)
  BY DEF Image, Quad!Point
<1> HIDE DEF q
<1>10. Image(point, 0) = point
  BY <1>1, <1>5, <1>9 DEF Quad!Point
<1>11. ~(Len(point.position) < 3)
  BY <1>4
<1>12. Quad!PositiveXImages(point) = <<Image(point, 1), Image(point, 2), Image(point, 3)>>
  <2>1. Quad!PositiveXImages(point)
          = LET y == Quad!Negated(p, {2})
                yz == Quad!Negated(y, {3})
            IN  <<Quad!Point(y, point.weight), Quad!Point(yz, point.weight),
                  Quad!Point(Quad!Negated(yz, {2}), point.weight)>>
    BY <1>11 DEF Quad!PositiveXImages
  <2> HIDE DEF p
  <2> QED
    BY <1>6, <1>7, <1>8, <1>9, <2>1
<1> QED
  BY <1>3, <1>10, <1>12

\* Which point is behind a place of what GenerateAllPositiveX returns.
LEMMA PositiveXPlaces ==
  ASSUME NEW points, InOctant(points), Len(points) > 0
  PROVE  LET all == Quad!GenerateAllPositiveX(points)
             N == Len(points)
             place(i, s) == IF s = 0 THEN i ELSE N + 3 * (i - 1) + s
         IN  /\ all \in Seq(GeneratedPoints(3)) /\ Len(all) = 4 * N
             /\ \A i \in 1..N, s \in 0..3 : all[place(i, s)] = Image(points[i], s)
             /\ \A n \in 1..4 * N : \E i \in 1..N, s \in 0..3 : n = place(i, s)
<1> DEFINE N == Len(points)
           images == [n \in 1..N * 3 |->
                        Quad!PositiveXImages(points[(n - 1) \div 3 + 1])[((n - 1) % 3) + 1]]
           all == points \o images
<1>1. N \in Nat /\ points \in Seq(GeneratedPoints(3)) /\ \A i \in 1..N : points[i] \in GeneratedPoints(3)
  BY DEF InOctant
<1>2. Quad!GenerateAllPositiveX(points) = all
  <2>1. Head(points) \in GeneratedPoints(3)
    BY <1>1
  <2>2. Quad!PositiveXImages(Head(points))
          = <<Image(Head(points), 1), Image(Head(points), 2), Image(Head(points), 3)>>
    BY <2>1, ImageOfPoint
  <2>3. \A a, b, c : Len(<<a, b, c>>) = 3
    OBVIOUS
  <2>4. Len(Quad!PositiveXImages(Head(points))) = 3
    BY <2>2, <2>3
  <2> QED
    BY <2>4 DEF Quad!GenerateAllPositiveX
<1> HIDE DEF N
<1>3. ASSUME NEW i \in 1..N, NEW s \in 1..3
      PROVE  3 * (i - 1) + s \in 1..N * 3 /\ images[3 * (i - 1) + s] = Image(points[i], s)
  <2> DEFINE n == 3 * (i - 1) + s
  <2>1. n \in 1..N * 3 /\ (n - 1) \div 3 + 1 = i /\ ((n - 1) % 3) + 1 = s
    BY <1>1
  <2>2. images[n] = Quad!PositiveXImages(points[i])[s]
    BY <2>1
  <2>3. Quad!PositiveXImages(points[i])
          = <<Image(points[i], 1), Image(points[i], 2), Image(points[i], 3)>>
    BY <1>1, ImageOfPoint
  <2>4. Quad!PositiveXImages(points[i])[s] = Image(points[i], s)
    <3>1. \A a, b, c : <<a, b, c>>[1] = a /\ <<a, b, c>>[2] = b /\ <<a, b, c>>[3] = c
      OBVIOUS
    <3>2. CASE s = 1
      BY <2>3, <3>1, <3>2
    <3>3. CASE s = 2
      BY <2>3, <3>1, <3>3
    <3>4. CASE s = 3
      BY <2>3, <3>1, <3>4
    <3> QED
      BY <3>2, <3>3, <3>4
  <2> QED
    BY <2>1, <2>2, <2>4
<1>4. ASSUME NEW n \in 1..N * 3
      PROVE  \E i \in 1..N, s \in 1..3 : n = 3 * (i - 1) + s
  <2> DEFINE i == (n - 1) \div 3 + 1
             s == ((n - 1) % 3) + 1
  <2>1. i \in 1..N /\ s \in 1..3 /\ n = 3 * (i - 1) + s
    BY <1>1
  <2> QED
    BY <2>1
<1>5. images \in Seq(GeneratedPoints(3)) /\ Len(images) = N * 3
  <2>1. ASSUME NEW n \in 1..N * 3 PROVE images[n] \in GeneratedPoints(3)
    <3>1. PICK i \in 1..N, s \in 1..3 : n = 3 * (i - 1) + s
      BY <1>4
    <3>2. images[n] = Image(points[i], s)
      BY <1>3, <3>1
    <3> HIDE DEF images
    <3> QED
      BY <1>1, <3>2, ImageOfPoint
  <2>2. images = [n \in 1..N * 3 |-> images[n]]
    OBVIOUS
  <2> HIDE DEF images
  <2> QED
    BY <1>1, <2>1, <2>2
<1> HIDE DEF images
<1>6. /\ all \in Seq(GeneratedPoints(3)) /\ Len(all) = 4 * N
      /\ \A n \in 1..N : all[n] = points[n]
      /\ \A n \in 1..N * 3 : all[N + n] = images[n]
  <2>1. Len(points) = N
    BY DEF N
  <2> QED
    BY <1>1, <1>5, <2>1
<1> HIDE DEF all
<1>7. ASSUME NEW i \in 1..N, NEW s \in 0..3
      PROVE  all[IF s = 0 THEN i ELSE N + 3 * (i - 1) + s] = Image(points[i], s)
  <2>1. CASE s = 0
    BY <1>1, <1>6, <2>1, ImageOfPoint
  <2>2. CASE s # 0
    <3> DEFINE n == 3 * (i - 1) + s
    <3>1. s \in 1..3
      BY <2>2
    <3>2. n \in 1..N * 3 /\ images[n] = Image(points[i], s)
      BY <1>3, <3>1
    <3>3. N + 3 * (i - 1) + s = N + n
      BY <1>1
    <3> HIDE DEF n
    <3> QED
      BY <1>6, <2>2, <3>2, <3>3
  <2> QED
    BY <2>1, <2>2
<1>8. ASSUME NEW n \in 1..4 * N
      PROVE  \E i \in 1..N, s \in 0..3 : n = IF s = 0 THEN i ELSE N + 3 * (i - 1) + s
  <2>1. CASE n \in 1..N
    BY <2>1
  <2>2. CASE n \notin 1..N
    <3>1. n - N \in 1..N * 3
      BY <1>1, <2>2
    <3>2. PICK i \in 1..N, s \in 1..3 : n - N = 3 * (i - 1) + s
      BY <1>4, <3>1
    <3>3. n = N + 3 * (i - 1) + s /\ s # 0 /\ s \in 0..3
      BY <1>1, <3>2
    <3> QED
      BY <3>3
  <2> QED
    BY <2>1, <2>2
<1> QED
  BY <1>2, <1>6, <1>7, <1>8 DEF N

\* The four octants of GenerateAllPositiveX are half of a set, and with a
\* point they have its images in the second and the third axis.
LEMMA PositiveXIsHalf ==
  ASSUME NEW points, InOctant(points), Len(points) > 0
  PROVE  LET all == Quad!GenerateAllPositiveX(points)
         IN  HalfSet(all, 3) /\ Len(all) > 0
<1> DEFINE N == Len(points)
           all == Quad!GenerateAllPositiveX(points)
           place(i, s) == IF s = 0 THEN i ELSE N + 3 * (i - 1) + s
<1>1. N \in Nat /\ N > 0 /\ DOMAIN points = 1..N /\ \A i \in 1..N : points[i] \in GeneratedPoints(3)
  BY DEF InOctant
<1>2. /\ all \in Seq(GeneratedPoints(3)) /\ Len(all) = 4 * N
      /\ \A i \in 1..N, s \in 0..3 : all[place(i, s)] = Image(points[i], s)
      /\ \A n \in 1..4 * N : \E i \in 1..N, s \in 0..3 : n = place(i, s)
  BY PositiveXPlaces
<1> HIDE DEF all
<1>3. \A i \in 1..N : /\ points[i].position[1] \in Int /\ points[i].position[1] > 0
                      /\ points[i].position[2] \in Int /\ points[i].position[2] > 0
                      /\ points[i].position[3] \in Int /\ points[i].position[3] > 0
                      /\ points[i].position \in [1..3 -> Int]
  <2> TAKE i \in 1..N
  <2>1. points[i].position \in [1..3 -> Int]
    BY <1>1 DEF GeneratedPoints
  <2>2. \A axis \in 1..3 : points[i].position[axis] > 0
    BY <1>1 DEF InOctant
  <2> QED
    BY <2>1, <2>2
<1>4. DOMAIN all = 1..4 * N
  BY <1>1, <1>2
<1> HIDE DEF N
<1>5. \A i \in 1..N, s \in 0..3 : place(i, s) \in 1..4 * N
  BY <1>1
<1>6. \A i \in 1..N, s \in 0..3 :
        /\ Image(points[i], s).position
             = <<points[i].position[1],
                 IF s \in {1, 2} THEN -points[i].position[2] ELSE points[i].position[2],
                 IF s \in {2, 3} THEN -points[i].position[3] ELSE points[i].position[3]>>
        /\ Image(points[i], s).weight = points[i].weight
        /\ Image(points[i], s).position[1] = points[i].position[1]
  BY DEF Image
<1> HIDE DEF place
<1>7. \A n \in DOMAIN all : all[n].position[1] > 0
  <2> TAKE n \in DOMAIN all
  <2>1. PICK i \in 1..N, s \in 0..3 : n = place(i, s)
    BY <1>2, <1>4
  <2>2. all[n].position = Image(points[i], s).position
    BY <1>2, <2>1
  <2>3. all[n].position[1] = points[i].position[1]
    BY <1>6, <2>2
  <2> QED
    BY <1>3, <2>3
<1>8. ASSUME NEW m \in DOMAIN all, NEW n \in DOMAIN all, all[m].position = all[n].position
      PROVE  m = n
  <2>1. PICK i \in 1..N, s \in 0..3 : m = place(i, s)
    BY <1>2, <1>4
  <2>2. PICK j \in 1..N, t \in 0..3 : n = place(j, t)
    BY <1>2, <1>4
  <2> DEFINE a == points[i].position
             b == points[j].position
  <2>3. <<a[1], IF s \in {1, 2} THEN -a[2] ELSE a[2], IF s \in {2, 3} THEN -a[3] ELSE a[3]>>
          = <<b[1], IF t \in {1, 2} THEN -b[2] ELSE b[2], IF t \in {2, 3} THEN -b[3] ELSE b[3]>>
    <3>1. Image(points[i], s).position = Image(points[j], t).position
      BY <1>2, <1>8, <2>1, <2>2
    <3>2. Image(points[i], s).position
            = <<a[1], IF s \in {1, 2} THEN -a[2] ELSE a[2], IF s \in {2, 3} THEN -a[3] ELSE a[3]>>
      BY <1>6
    <3>3. Image(points[j], t).position
            = <<b[1], IF t \in {1, 2} THEN -b[2] ELSE b[2], IF t \in {2, 3} THEN -b[3] ELSE b[3]>>
      BY <1>6
    <3> QED
      BY <3>1, <3>2, <3>3
  <2>4. /\ a[1] = b[1]
        /\ (IF s \in {1, 2} THEN -a[2] ELSE a[2]) = (IF t \in {1, 2} THEN -b[2] ELSE b[2])
        /\ (IF s \in {2, 3} THEN -a[3] ELSE a[3]) = (IF t \in {2, 3} THEN -b[3] ELSE b[3])
    BY <2>3
  <2>5. /\ a[2] \in Int /\ a[2] > 0 /\ a[3] \in Int /\ a[3] > 0
        /\ b[2] \in Int /\ b[2] > 0 /\ b[3] \in Int /\ b[3] > 0
        /\ a \in [1..3 -> Int] /\ b \in [1..3 -> Int]
    BY <1>3
  <2> HIDE DEF a, b
  <2>6. s \in {1, 2} <=> t \in {1, 2}
    BY <2>4, <2>5
  <2>7. s \in {2, 3} <=> t \in {2, 3}
    BY <2>4, <2>5
  <2>8. s = t
    BY <2>6, <2>7
  <2>9. a = b
    <3>1. a[2] = b[2] /\ a[3] = b[3]
      BY <2>4, <2>5, <2>6, <2>7
    <3> QED
      BY <2>4, <2>5, <3>1
  <2>10. i = j
    BY <1>1, <2>9 DEF a, b, InOctant
  <2> QED
    BY <2>1, <2>2, <2>8, <2>10
<1>9. ASSUME NEW axis \in 2..3, NEW n \in DOMAIN all
      PROVE  \E m \in DOMAIN all : /\ all[m].position = Quad!Negated(all[n].position, {axis})
                                   /\ all[m].weight = all[n].weight
  <2>1. PICK i \in 1..N, s \in 0..3 : n = place(i, s)
    BY <1>2, <1>4
  <2> DEFINE t == IF axis = 2 THEN IF s = 0 THEN 1 ELSE IF s = 1 THEN 0 ELSE IF s = 2 THEN 3 ELSE 2
                  ELSE IF s = 0 THEN 3 ELSE IF s = 3 THEN 0 ELSE IF s = 1 THEN 2 ELSE 1
             m == place(i, t)
             a == points[i].position
             p == <<a[1], IF s \in {1, 2} THEN -a[2] ELSE a[2],
                    IF s \in {2, 3} THEN -a[3] ELSE a[3]>>
             q == <<a[1], IF t \in {1, 2} THEN -a[2] ELSE a[2],
                    IF t \in {2, 3} THEN -a[3] ELSE a[3]>>
  <2>2. t \in 0..3
    OBVIOUS
  <2>3. /\ axis = 2 => (t \in {1, 2} <=> s \notin {1, 2}) /\ (t \in {2, 3} <=> s \in {2, 3})
        /\ axis = 3 => (t \in {1, 2} <=> s \in {1, 2}) /\ (t \in {2, 3} <=> s \notin {2, 3})
    OBVIOUS
  <2>4. a[1] \in Int /\ a[2] \in Int /\ a[3] \in Int
    BY <1>3
  <2> HIDE DEF t, a
  <2>5. all[n].position = p /\ all[m].position = q /\ all[n].weight = all[m].weight
    <3>1. all[n] = Image(points[i], s) /\ all[m] = Image(points[i], t)
      BY <1>2, <2>1, <2>2
    <3>2. Image(points[i], s).position = p /\ Image(points[i], t).position = q
      BY DEF Image, a
    <3>3. Image(points[i], s).weight = Image(points[i], t).weight
      BY DEF Image
    <3> QED
      BY <3>1, <3>2, <3>3
  <2>6. p \in [1..3 -> Int] /\ q \in [1..3 -> Int]
    BY <2>4
  <2>7. Quad!Negated(p, {axis}) = [c \in 1..3 |-> IF c = axis THEN -p[c] ELSE p[c]]
    BY <2>6 DEF Quad!Negated
  <2>8. ASSUME NEW c \in 1..3 PROVE q[c] = IF c = axis THEN -p[c] ELSE p[c]
    <3>1. CASE c = 1
      BY <3>1
    <3>2. CASE c = 2
      BY <2>3, <2>4, <3>2
    <3>3. CASE c = 3
      BY <2>3, <2>4, <3>3
    <3> QED
      BY <3>1, <3>2, <3>3
  <2> HIDE DEF p, q
  <2>9. q = Quad!Negated(p, {axis})
    BY <2>6, <2>7, <2>8
  <2>10. m \in DOMAIN all
    BY <1>4, <1>5, <2>2
  <2> QED
    BY <2>5, <2>9, <2>10
<1>10. HalfSet(all, 3)
  BY <1>2, <1>7, <1>8, <1>9 DEF HalfSet
<1>11. Len(all) > 0
  BY <1>1, <1>2
<1> QED
  BY <1>10, <1>11 DEF all

-----------------------------------------------------------------------------
(***************************************************************************)
(* The quadrature set of a run.                                            *)
(***************************************************************************)
\* The generators that are not refused have points, in their dimension.
LEMMA AcceptedRule ==
  ASSUME NEW dim \in 1..3, NEW order \in Int,
         NEW type \in {"level_symmetric_gaussian", "gauss_legendre", "none"},
         Quad!GeneratorError(dim, type, order) = "none"
  PROVE  \/ type = "gauss_legendre" /\ dim = 1 /\ order \in Nat \ {0}
         \/ type = "level_symmetric_gaussian" /\ dim = 3 /\ order \in Nat /\ order \div 2 > 0
<1>1. /\ ~(type = "level_symmetric_gaussian" /\ dim # 3)
      /\ ~(type = "gauss_legendre" /\ dim # 1)
      /\ type # "none"
      /\ ~(type = "gauss_legendre" /\ order <= 0)
      /\ ~(type = "level_symmetric_gaussian" /\ (order \notin 2..16 \/ order % 2 # 0))
  BY DEF Quad!GeneratorError
<1> QED
  BY <1>1

\* BuildQuadratureSet fills a set with one half of its points.
LEMMA MadeInPairs ==
  ASSUME NEW i \in ParsedInputs, HasAngles(ToFrameworkParameters(i)),
         Quad!GeneratorError(i.dimension, i.angular_quad, i.angular_order) = "none"
  PROVE  \E points :
           /\ HalfSet(points, i.dimension) /\ Len(points) > 0
           /\ MakeQuadratureSet(ToFrameworkParameters(i)) = Quad!FillQuadratureSet(points)
<1> DEFINE p == ToFrameworkParameters(i)
           generated == Quad!GenerateSet(i.angular_quad, i.angular_order)
           points == Quad!GenerateAllPositiveX(generated)
<1>1. /\ i.dimension \in 1..3 /\ i.angular_order \in Int
      /\ i.angular_quad \in {"level_symmetric_gaussian", "gauss_legendre", "none"}
  BY ParsedEntries
<1>2. p.angular_quadrature_type = i.angular_quad /\ p.angular_quadrature_order = i.angular_order
  BY DEF ToFrameworkParameters
<1>3. MakeQuadratureSet(p) = Quad!FillQuadratureSet(points)
  BY <1>2 DEF MakeQuadratureSet
<1>4. \/ /\ i.angular_quad = "gauss_legendre" /\ i.dimension = 1
         /\ i.angular_order \in Nat \ {0}
      \/ /\ i.angular_quad = "level_symmetric_gaussian" /\ i.dimension = 3
         /\ i.angular_order \in Nat /\ i.angular_order \div 2 > 0
  BY <1>1, AcceptedRule
<1>5. CASE i.angular_quad = "gauss_legendre" /\ i.dimension = 1 /\ i.angular_order \in Nat \ {0}
  <2>1. generated = Quad!GaussLegendre(i.angular_order)
    BY <1>5 DEF Quad!GenerateSet
  <2>2. HalfSet(points, 1) /\ Len(points) > 0
    BY <1>5, <2>1, LinePoints
  <2> QED
    BY <1>3, <1>5, <2>2
<1>6. CASE /\ i.angular_quad = "level_symmetric_gaussian" /\ i.dimension = 3
           /\ i.angular_order \in Nat /\ i.angular_order \div 2 > 0
  <2>1. generated = Quad!LevelSymmetricGaussian(i.angular_order)
    BY <1>6 DEF Quad!GenerateSet
  <2>2. InOctant(generated) /\ Len(generated) > 0
    BY <1>6, <2>1, LevelSymmetricPoints
  <2>3. HalfSet(points, 3) /\ Len(points) > 0
    BY <2>2, PositiveXIsHalf
  <2> QED
    BY <1>3, <1>6, <2>3
<1> QED
  BY <1>4, <1>5, <1>6

\* A set that was filled, and looked up in since.
FilledFrom(set, dim) == \E points : HalfSet(points, dim) /\ Len(points) > 0 /\ IsFilled(set, points)

\* The quadrature set, from the step that builds it on.
QuadratureInv ==
  quadrature_set # None =>
    Accepted /\ FilledFrom(quadrature_set, input.dimension) /\ SoundSet(quadrature_set, input.dimension)

\* The set is filled when it is built.
LEMMA MadeSet ==
  ASSUME SetUpInv, Accepted, QuadratureError(parameters) = "none", HasAngles(parameters)
  PROVE  LET set == MakeQuadratureSet(parameters)
         IN  FilledFrom(set, input.dimension) /\ SoundSet(set, input.dimension)
<1>1. input \in ParsedInputs /\ parameters = ToFrameworkParameters(input)
  BY DEF SetUpInv, AcceptedInv
<1>2. Quad!GeneratorError(input.dimension, parameters.angular_quadrature_type,
                          parameters.angular_quadrature_order) = "none"
  BY DEF QuadratureError
<1>3. /\ parameters.angular_quadrature_type = input.angular_quad
      /\ parameters.angular_quadrature_order = input.angular_order
  BY <1>1 DEF ToFrameworkParameters
<1>4. PICK points : /\ HalfSet(points, input.dimension) /\ Len(points) > 0
                    /\ MakeQuadratureSet(parameters) = Quad!FillQuadratureSet(points)
  BY <1>1, <1>2, <1>3, MadeInPairs
<1>5. input.dimension \in 1..3
  BY <1>1, ParsedEntries
<1>6. MakeQuadratureSet(parameters) = Paired(points, Len(points))
  BY <1>4, <1>5, FilledInPairs
<1>7. SoundSet(MakeQuadratureSet(parameters), input.dimension)
  BY <1>4, <1>5, <1>6, PairsAreSound
<1> QED
  BY <1>4, <1>6, <1>7 DEF FilledFrom, IsFilled

\* Looking an image up adds to what is remembered and nothing else.
LEMMA LookUpKeepsPoints ==
  ASSUME NEW set, NEW dim, IsSet(set, dim), NEW i, NEW boundary
  PROVE  LET next == Quad!GetBoundaryReflection(set, i, boundary)
         IN  next.points = set.points /\ next.reflection = set.reflection
<1>1. set = [points |-> set.points, reflection |-> set.reflection, mirrors |-> set.mirrors]
  BY DEF IsSet
<1> DEFINE pairs == Quad!WithPair(set.mirrors[Quad!MirrorKey(boundary)], i,
                                  Quad!BoundaryReflection(set, i, boundary))
           mirrors == [set.mirrors EXCEPT ![Quad!MirrorKey(boundary)] = pairs]
<1>2. Quad!GetBoundaryReflection(set, i, boundary) = [set EXCEPT !.mirrors = mirrors]
  BY DEF Quad!GetBoundaryReflection
<1> HIDE DEF mirrors
<1> QED
  BY <1>1, <1>2

\* A step of ReflectAngle remembers an image in one of the boundaries, or
\* nothing.
LEMMA ReflectAngleCases ==
  ASSUME ParametersInv, ReflectAngle
  PROVE  /\ input' = input /\ parameters' = parameters /\ quadrature_set # None
         /\ \/ quadrature_set' = quadrature_set
            \/ \E boundary \in {"XMin", "XMax", "YMin", "YMax", "ZMin", "ZMax"},
                  i \in Quad!Indices(quadrature_set) :
                 /\ ~Quad!MirrorFails(quadrature_set, i, boundary)
                 /\ quadrature_set' = Quad!GetBoundaryReflection(quadrature_set, i, boundary)
<1>1. input' = input /\ parameters' = parameters /\ quadrature_set # None
  BY DEF ReflectAngle, core
<1>2. PICK boundary \in parameters.reflective_boundaries, i \in Quad!Indices(quadrature_set) :
        IF Quad!MirrorFails(quadrature_set, i, boundary)
        THEN UNCHANGED quadrature_set
        ELSE quadrature_set' = Quad!GetBoundaryReflection(quadrature_set, i, boundary)
  BY DEF ReflectAngle
<1>3. parameters = ToFrameworkParameters(input)
  BY DEF ReflectAngle, ParametersInv, Building
<1>4. boundary \in {BoundaryOf[name] : name \in Boundaries}
  BY <1>2, <1>3 DEF ToFrameworkParameters
<1>5. boundary \in {"XMin", "XMax", "YMin", "YMax", "ZMin", "ZMax"}
  BY <1>4 DEF BoundaryOf, Boundaries
<1> QED
  BY <1>1, <1>2, <1>5

\* Every step keeps the quadrature set filled and sound.
LEMMA NextQuadratureInv ==
  SetUpInv /\ ParametersInv /\ QuadratureInv /\ [Next]_vars => QuadratureInv'
<1> SUFFICES ASSUME SetUpInv, ParametersInv, QuadratureInv, [Next]_vars
             PROVE  QuadratureInv'
  OBVIOUS
<1>1. ASSUME quadrature_set' = quadrature_set, input' = input, parameters' = parameters
      PROVE  QuadratureInv'
  BY <1>1 DEF QuadratureInv, Accepted
<1>2. CASE ReadParameters \/ MakeParameters
  <2>1. quadrature_set' = quadrature_set /\ parameters = None
    BY <1>2 DEF ReadParameters, MakeParameters, Step, solutions, SetUpInv, AcceptedInv
  <2>2. quadrature_set = None
    BY <2>1 DEF QuadratureInv, Accepted
  <2> QED
    BY <2>1, <2>2 DEF QuadratureInv
<1>3. CASE BuildDomain \/ SetUpDomain \/ BuildSolutions \/ BuildSystem \/ Collapse
  BY <1>1, <1>3 DEF BuildDomain, SetUpDomain, BuildSolutions, BuildSystem, Collapse, core, solutions
<1>4. CASE BuildQuadrature
  <2>1. /\ phase = "quadrature" /\ input' = input /\ parameters' = parameters
        /\ quadrature_set' = IF QuadratureError(parameters) = "none" /\ HasAngles(parameters)
                             THEN MakeQuadratureSet(parameters) ELSE None
    BY <1>4 DEF BuildQuadrature, Step, core
  <2>2. SUFFICES ASSUME quadrature_set' # None
                 PROVE  Accepted' /\ FilledFrom(quadrature_set', input.dimension)
                        /\ SoundSet(quadrature_set', input.dimension)
    BY <2>1 DEF QuadratureInv
  <2>3. /\ QuadratureError(parameters) = "none" /\ HasAngles(parameters)
        /\ quadrature_set' = MakeQuadratureSet(parameters)
    BY <2>1, <2>2
  <2>4. Accepted
    <3>1. parameters = ToFrameworkParameters(input)
      BY <2>1 DEF ParametersInv, Building
    <3>2. "equation_type" \in DOMAIN parameters
      BY <3>1 DEF ToFrameworkParameters
    <3>3. "equation_type" \notin DOMAIN None
      BY DEF None
    <3> QED
      BY <3>2, <3>3 DEF Accepted
  <2>5. FilledFrom(MakeQuadratureSet(parameters), input.dimension)
        /\ SoundSet(MakeQuadratureSet(parameters), input.dimension)
    BY <2>3, <2>4, MadeSet
  <2> QED
    BY <2>1, <2>3, <2>4, <2>5 DEF Accepted
<1>5. CASE ReflectAngle
  <2>1. /\ input' = input /\ parameters' = parameters /\ quadrature_set # None
        /\ \/ quadrature_set' = quadrature_set
           \/ \E boundary \in {"XMin", "XMax", "YMin", "YMax", "ZMin", "ZMax"},
                 i \in Quad!Indices(quadrature_set) :
                /\ ~Quad!MirrorFails(quadrature_set, i, boundary)
                /\ quadrature_set' = Quad!GetBoundaryReflection(quadrature_set, i, boundary)
    BY <1>5, ReflectAngleCases
  <2>2. CASE quadrature_set' = quadrature_set
    BY <1>1, <2>1, <2>2
  <2>3. ASSUME NEW boundary \in {"XMin", "XMax", "YMin", "YMax", "ZMin", "ZMax"},
               NEW i \in Quad!Indices(quadrature_set),
               ~Quad!MirrorFails(quadrature_set, i, boundary),
               quadrature_set' = Quad!GetBoundaryReflection(quadrature_set, i, boundary)
        PROVE  QuadratureInv'
    <3> DEFINE dim == input.dimension
    <3>1. Accepted /\ FilledFrom(quadrature_set, dim) /\ SoundSet(quadrature_set, dim)
      BY <2>1 DEF QuadratureInv
    <3> HIDE DEF dim
    <3>2. SoundSet(quadrature_set', dim)
      BY <2>3, <3>1, LookUpKeepsSound
    <3>3. IsSet(quadrature_set, dim)
      BY <3>1 DEF SoundSet
    <3>4. quadrature_set'.points = quadrature_set.points
          /\ quadrature_set'.reflection = quadrature_set.reflection
      BY <2>3, <3>3, LookUpKeepsPoints
    <3>5. FilledFrom(quadrature_set', dim)
      BY <3>1, <3>4 DEF FilledFrom, IsFilled
    <3>6. Accepted'
      BY <2>1, <3>1 DEF Accepted
    <3> QED
      BY <2>1, <3>2, <3>5, <3>6 DEF QuadratureInv, dim
  <2> QED
    BY <2>1, <2>2, <2>3
<1>6. CASE UNCHANGED vars
  BY <1>1, <1>6 DEF vars, core, solutions
<1> QED
  BY <1>2, <1>3, <1>4, <1>5, <1>6 DEF Next

\* The quadrature set of a run is always filled and sound.
LEMMA QuadratureInvariant == Spec => []QuadratureInv
<1>1. Init => QuadratureInv
  BY DEF Init, QuadratureInv
<1> QED
  BY <1>1, NextQuadratureInv, SetUpInvariant, ParametersInvariant, PTL DEF Spec

\* For every accepted input, in every order of look-ups: the reflections of
\* the quadrature set are images of each other (QuadratureSet::AddPoint and
\* SetReflection), with the weight of the point, a remembered image is the
\* image in its boundary and is remembered both ways (GetBoundaryReflection),
\* and an isotropic flux has no net current in any direction.
THEOREM ReflectedAngles == Spec => []AnglesAreReflected
<1>1. ASSUME SetUpInv, QuadratureInv, quadrature_set # None
      PROVE  AnglesAreReflected
  <2> DEFINE set == quadrature_set
             dim == input.dimension
  <2>1. dim \in 1..3
    BY <1>1, ParsedEntries DEF SetUpInv, AcceptedInv, QuadratureInv
  <2>2. SoundSet(set, dim) /\ FilledFrom(set, dim)
    BY <1>1 DEF QuadratureInv
  <2> HIDE DEF set, dim
  <2>3. PICK points : HalfSet(points, dim) /\ IsFilled(set, points)
    BY <2>2 DEF FilledFrom
  <2>4. OppositesPaired(set)
    BY <2>1, <2>3, OppositesInPairs
  <2>5. ASSUME NEW axis \in 1..dim
        PROVE  /\ Quad!NetCurrent(set, [i \in Quad!Indices(set) |-> 1], axis) = 0
               /\ \A i \in Quad!Indices(set) : \E j \in Quad!Indices(set) : IsMirror(set, i, j, axis)
               /\ AreImages(set, axis, set.mirrors[Quad!Maxima[axis]])
    <3>1. axis \in Quad!Axes \cap (1..dim)
      BY <2>1 DEF Quad!Axes
    <3>2. Quad!NetCurrent(set, [i \in Quad!Indices(set) |-> 1], axis) = 0
      BY <2>1, <2>3, NoNetCurrent
    <3>3. HasImages(set, dim) /\ RemembersImages(set, dim)
      BY <2>2 DEF SoundSet
    <3> QED
      BY <3>1, <3>2, <3>3 DEF HasImages, RemembersImages
  <2>6. AnglesAreReflected
    <3>1. \A axis \in 1..dim : LET remembered == set.mirrors[Quad!Maxima[axis]]
                IN  \A i \in DOMAIN remembered :
                      /\ IsMirror(set, i, remembered[i], axis)
                      /\ remembered[remembered[i]] = i
      BY <2>5 DEF AreImages
    <3> QED
      BY <2>4, <2>5, <3>1 DEF AnglesAreReflected, OppositesPaired, set, dim
  <2> QED
    BY <2>6
<1>2. SetUpInv /\ QuadratureInv => AnglesAreReflected
  BY <1>1 DEF AnglesAreReflected
<1> QED
  BY <1>2, SetUpInvariant, QuadratureInvariant, PTL

-----------------------------------------------------------------------------
(***************************************************************************)
(* The system and the solutions of a run.                                  *)
(***************************************************************************)
\* What InitializeSystem, SetUpSystemTerms and SetUpSystemMoments make.
Built(groups, angles, is_eigenvalue, is_boundary_variable, size) ==
  Sys!SetUpSystemMoments(
    Sys!SetUpSystemTerms(
      Sys!InitializeSystem(Sys!NewSystem, groups, angles, is_eigenvalue, is_boundary_variable)),
    size)

\* SetFixedTermPtr stores one object per index and leaves the variable terms.
LEMMA FixedTerms ==
  ASSUME NEW names, NEW slots
  PROVE  LET term == Sys!SetFixedTermPtr(Sys!Term(names), slots)
         IN  /\ term.variable = [n \in names |-> <<>>]
             /\ DOMAIN term = {"fixed", "variable"}
             /\ \A i \in DOMAIN slots : Sys!GetFixedTermPtr(term, i) = slots[i]
<1> DEFINE stored == Sys!Stored(slots, <<>>)
           empty == [n \in names |-> <<>>]
           term == Sys!SetFixedTermPtr(Sys!Term(names), slots)
<1>1. DOMAIN << >> = {}
  OBVIOUS
<1>2. DOMAIN stored = DOMAIN slots /\ \A i \in DOMAIN slots : stored[i] = slots[i]
  BY <1>1 DEF Sys!Stored
<1> HIDE DEF empty
<1>3. Sys!Term(names) = [fixed |-> <<>>, variable |-> empty]
  BY DEF Sys!Term, empty
<1>4. Sys!SetFixedTermPtr([fixed |-> <<>>, variable |-> empty], slots)
        = [[fixed |-> <<>>, variable |-> empty] EXCEPT !.fixed = stored]
  BY DEF Sys!SetFixedTermPtr
<1> HIDE DEF stored
<1>5. term = [fixed |-> stored, variable |-> empty]
  BY <1>3, <1>4
<1> HIDE DEF term
<1>6. \A i \in DOMAIN slots : Sys!GetFixedTermPtr(term, i) = slots[i]
  BY <1>2, <1>5 DEF Sys!GetFixedTermPtr
<1> QED
  BY <1>5, <1>6 DEF empty, term

\* SetVariableTermPtr stores one object per name and index.
LEMMA VariableTerms ==
  ASSUME NEW term, NEW names, DOMAIN term = {"fixed", "variable"},
         term.variable = [n \in names |-> <<>>], NEW slots
  PROVE  LET next == Sys!SetVariableTermPtr(term, slots)
         IN  /\ DOMAIN next = {"fixed", "variable"} /\ next.fixed = term.fixed
             /\ DOMAIN next.variable = names
             /\ \A n \in names : \A i \in DOMAIN slots[n] :
                  Sys!GetVariableTermPtr(next, n, i) = slots[n][i]
<1> DEFINE variable == [n \in DOMAIN term.variable |-> Sys!Stored(slots[n], term.variable[n])]
           next == Sys!SetVariableTermPtr(term, slots)
<1>1. next = [term EXCEPT !.variable = variable]
  BY DEF Sys!SetVariableTermPtr
<1>2. DOMAIN << >> = {}
  OBVIOUS
<1>3. DOMAIN variable = names
  OBVIOUS
<1>4. ASSUME NEW n \in names
      PROVE  /\ DOMAIN variable[n] = DOMAIN slots[n]
             /\ \A i \in DOMAIN slots[n] : variable[n][i] = slots[n][i]
  <2>1. variable[n] = Sys!Stored(slots[n], <<>>)
    OBVIOUS
  <2> HIDE DEF variable
  <2> QED
    BY <2>1, <1>2 DEF Sys!Stored
<1> HIDE DEF variable
<1>5. DOMAIN next = {"fixed", "variable"} /\ next.fixed = term.fixed /\ next.variable = variable
  BY <1>1
<1> HIDE DEF next
<1>6. ASSUME NEW n \in names, NEW i \in DOMAIN slots[n]
      PROVE  Sys!GetVariableTermPtr(next, n, i) = slots[n][i]
  <2>1. /\ Sys!IsVariable(next, n) /\ i \in DOMAIN next.variable[n]
        /\ next.variable[n][i] = slots[n][i]
    BY <1>3, <1>4, <1>5 DEF Sys!IsVariable
  <2> QED
    BY <2>1 DEF Sys!GetVariableTermPtr
<1> QED
  BY <1>3, <1>5, <1>6 DEF next

\* The terms and moments of a system, whatever its groups and angles.
LEMMA BuiltTerms ==
  ASSUME NEW groups \in Nat, NEW angles \in Nat, NEW e, NEW b, NEW size
  PROVE  LET s == Built(groups, angles, e, b, size)
             I == Sys!Index(groups, angles)
         IN  /\ s.rhs # Sys!Null
             /\ DOMAIN s.rhs.variable = Sys!VariableLinearTerms(e, b)
             /\ \A i \in I : /\ Sys!GetFixedTermPtr(s.lhs, i) = <<"lhs", i>>
                             /\ Sys!GetFixedTermPtr(s.rhs, i) = <<"rhs", i>>
             /\ \A n \in Sys!VariableLinearTerms(e, b), i \in I :
                  Sys!GetVariableTermPtr(s.rhs, n, i) = <<n, i>>
             /\ \A key \in DOMAIN s.current_moments : key[1] \in 0..groups - 1
<1> DEFINE I == Sys!Index(groups, angles)
           names == Sys!VariableLinearTerms(e, b)
           harmonics == Sys!SphericalHarmonic(groups, 0)
           initialized == Sys!InitializeSystem(Sys!NewSystem, groups, angles, e, b)
           termed == Sys!SetUpSystemTerms(initialized)
           s == Built(groups, angles, e, b, size)
<1> HIDE DEF I, names, harmonics
<1>1. /\ initialized.rhs = Sys!Term(names) /\ initialized.lhs = Sys!Term({})
      /\ initialized.total_groups = groups /\ initialized.total_angles = angles
      /\ initialized.current_moments = harmonics
      /\ initialized.previous_moments = harmonics
      /\ DOMAIN initialized = DOMAIN Sys!NewSystem
  BY DEF Sys!InitializeSystem, Sys!NewSystem, names, harmonics
<1>2. {"rhs", "lhs", "current_moments", "previous_moments"} \subseteq DOMAIN Sys!NewSystem
  BY DEF Sys!NewSystem
<1> HIDE DEF initialized
<1> DEFINE lhs == Sys!SetFixedTermPtr(Sys!Term({}), [i \in I |-> <<"lhs", i>>])
           fixed == Sys!SetFixedTermPtr(Sys!Term(names), [i \in I |-> <<"rhs", i>>])
           rhs == Sys!SetVariableTermPtr(fixed, [n \in names |-> [i \in I |-> <<n, i>>]])
<1>3. DOMAIN Sys!Term(names).variable = names
  BY DEF Sys!Term
<1>4. /\ termed.lhs = lhs /\ termed.rhs = rhs /\ termed.current_moments = harmonics
      /\ DOMAIN termed = DOMAIN Sys!NewSystem
  BY <1>1, <1>2, <1>3 DEF Sys!SetUpSystemTerms, Sys!MakeStorage, I
<1> HIDE DEF termed
<1>5. s.lhs = lhs /\ s.rhs = rhs /\ DOMAIN s.current_moments = DOMAIN harmonics
  BY <1>2, <1>4 DEF Built, Sys!SetUpSystemMoments, termed, initialized
<1> HIDE DEF s, lhs, rhs
<1> DEFINE left == [i \in I |-> <<"lhs", i>>]
           right == [i \in I |-> <<"rhs", i>>]
           slots == [n \in names |-> [i \in I |-> <<n, i>>]]
<1>6. \A i \in I : Sys!GetFixedTermPtr(lhs, i) = <<"lhs", i>>
  <2>1. lhs = Sys!SetFixedTermPtr(Sys!Term({}), left)
    BY DEF lhs
  <2>2. DOMAIN left = I /\ \A i \in I : left[i] = <<"lhs", i>>
    OBVIOUS
  <2> HIDE DEF left
  <2>3. ASSUME NEW set
        PROVE  LET term == Sys!SetFixedTermPtr(Sys!Term(set), left)
               IN  /\ term.variable = [n \in set |-> <<>>]
                   /\ DOMAIN term = {"fixed", "variable"}
                   /\ \A i \in DOMAIN left : Sys!GetFixedTermPtr(term, i) = left[i]
    BY FixedTerms
  <2> QED
    BY <2>1, <2>2, <2>3
<1>7. /\ fixed.variable = [n \in names |-> <<>>] /\ DOMAIN fixed = {"fixed", "variable"}
      /\ \A i \in I : Sys!GetFixedTermPtr(fixed, i) = <<"rhs", i>>
  <2>1. fixed = Sys!SetFixedTermPtr(Sys!Term(names), right)
    OBVIOUS
  <2>2. DOMAIN right = I /\ \A i \in I : right[i] = <<"rhs", i>>
    OBVIOUS
  <2> HIDE DEF right, fixed
  <2>3. /\ Sys!SetFixedTermPtr(Sys!Term(names), right).variable = [n \in names |-> <<>>]
        /\ DOMAIN Sys!SetFixedTermPtr(Sys!Term(names), right) = {"fixed", "variable"}
        /\ \A i \in DOMAIN right :
             Sys!GetFixedTermPtr(Sys!SetFixedTermPtr(Sys!Term(names), right), i) = right[i]
    BY FixedTerms
  <2> QED
    BY <2>1, <2>2, <2>3
<1>8. /\ DOMAIN rhs = {"fixed", "variable"} /\ rhs.fixed = fixed.fixed
      /\ DOMAIN rhs.variable = names
      /\ \A n \in names, i \in I : Sys!GetVariableTermPtr(rhs, n, i) = <<n, i>>
  <2>1. rhs = Sys!SetVariableTermPtr(fixed, slots)
    BY DEF rhs
  <2>2. \A n \in names : DOMAIN slots[n] = I /\ \A i \in I : slots[n][i] = <<n, i>>
    OBVIOUS
  <2> HIDE DEF slots, fixed
  <2> QED
    BY <1>7, <2>1, <2>2, VariableTerms
<1>9. \A i \in I : Sys!GetFixedTermPtr(rhs, i) = <<"rhs", i>>
  BY <1>7, <1>8 DEF Sys!GetFixedTermPtr
<1>10. rhs # Sys!Null
  <2>1. DOMAIN Sys!Null = {"none"}
    BY DEF Sys!Null
  <2> QED
    BY <1>8, <2>1
<1>11. \A key \in DOMAIN harmonics : key[1] \in 0..groups - 1
  BY DEF harmonics, Sys!SphericalHarmonic
<1> QED
  BY <1>5, <1>6, <1>8, <1>9, <1>10, <1>11 DEF I, names, s

\* The phases in which nothing is allocated yet.
BeforeSolutions == {"parameters", "framework parameters", "domain", "mesh", "quadrature"}
\* The group solution has one vector per angle.
GroupSolutionFits == DOMAIN group_solution.solutions = 0..Angles(quadrature_set) - 1
\* Storage for all angular solutions, where the parameters need it.
AngularSolutionsFit ==
  angular_solutions =
    IF NeedStorage(parameters)
    THEN Sys!SetUpEnergyGroupToAngularSolutionPtrMap(parameters.neutron_energy_groups,
                                                     Angles(quadrature_set))
    ELSE <<>>
\* The system is one of these parameters.
SystemIsBuilt ==
  \E size : system = Built(parameters.neutron_energy_groups, Angles(quadrature_set),
                           parameters.is_eigenvalue, NeedStorage(parameters), size)

\* The system and the solutions, phase by phase.
SystemInv ==
  /\ phase \in BeforeSolutions => angular_solutions = <<>>
  /\ phase \in BeforeSolutions \cup {"solutions", "system"} => system = Sys!NewSystem
  /\ phase \in {"solutions", "system"} => AngularSolutionsFit
  /\ phase = "system" => GroupSolutionFits
  /\ \/ system = Sys!NewSystem
     \/ Accepted /\ SystemIsBuilt /\ GroupSolutionFits /\ AngularSolutionsFit

\* A look-up leaves the number of angles.
LEMMA LookUpKeepsAngles ==
  ASSUME QuadratureInv, ParametersInv, ReflectAngle
  PROVE  Angles(quadrature_set') = Angles(quadrature_set)
<1>1. /\ quadrature_set # None
      /\ \/ quadrature_set' = quadrature_set
         \/ \E boundary, i :
              quadrature_set' = Quad!GetBoundaryReflection(quadrature_set, i, boundary)
  BY ReflectAngleCases
<1>2. IsSet(quadrature_set, input.dimension)
  BY <1>1 DEF QuadratureInv, SoundSet
<1>3. ASSUME NEW boundary, NEW i,
             quadrature_set' = Quad!GetBoundaryReflection(quadrature_set, i, boundary)
      PROVE  Angles(quadrature_set') = Angles(quadrature_set)
  <2>1. quadrature_set'.points = quadrature_set.points
    BY <1>2, <1>3, LookUpKeepsPoints
  <2>2. DOMAIN quadrature_set' = DOMAIN quadrature_set
    BY <1>3 DEF Quad!GetBoundaryReflection
  <2>3. "points" \in DOMAIN quadrature_set
    <3> DEFINE s == quadrature_set
    <3>1. s = [points |-> s.points, reflection |-> s.reflection, mirrors |-> s.mirrors]
      BY <1>2 DEF IsSet
    <3> HIDE DEF s
    <3>2. "points" \in DOMAIN s
      BY <3>1
    <3> QED
      BY <3>2 DEF s
  <2>4. quadrature_set' # None
    BY <2>2, <2>3 DEF None
  <2> QED
    BY <1>1, <2>1, <2>4 DEF Angles, Quad!SetSize
<1> QED
  BY <1>1, <1>3

\* Every step keeps the system and the solutions of one size.
LEMMA NextSystemInv ==
  ParametersInv /\ QuadratureInv /\ SystemInv /\ [Next]_vars => SystemInv'
<1> SUFFICES ASSUME ParametersInv, QuadratureInv, SystemInv, [Next]_vars PROVE SystemInv'
  OBVIOUS
<1> USE DEF BeforeSolutions
<1>1. ASSUME angular_solutions' = angular_solutions, system' = system,
             group_solution' = group_solution, parameters' = parameters,
             Angles(quadrature_set') = Angles(quadrature_set),
             \/ phase' = phase \/ phase' \in {"threw", "running"}
             \/ phase \in BeforeSolutions /\ phase' \in BeforeSolutions
      PROVE  SystemInv'
  BY <1>1 DEF SystemInv, GroupSolutionFits, AngularSolutionsFit, SystemIsBuilt, Accepted
<1>2. CASE ReadParameters \/ MakeParameters
  <2>1. /\ angular_solutions' = angular_solutions /\ system' = system
        /\ phase' \in BeforeSolutions \cup {"threw"}
        /\ phase \in BeforeSolutions
    BY <1>2 DEF ReadParameters, MakeParameters, Step, solutions
  <2> QED
    BY <2>1 DEF SystemInv
<1>3. CASE BuildDomain \/ SetUpDomain
  BY <1>1, <1>3 DEF BuildDomain, SetUpDomain, Step, core, solutions
<1>4. CASE BuildQuadrature
  <2>1. /\ phase = "quadrature" /\ system' = system /\ parameters' = parameters
        /\ angular_solutions' =
             IF QuadratureError(parameters) = "none" /\ NeedStorage(parameters)
             THEN Sys!SetUpEnergyGroupToAngularSolutionPtrMap(
                    parameters.neutron_energy_groups, Angles(quadrature_set'))
             ELSE angular_solutions
        /\ phase' = IF QuadratureError(parameters) = "none" THEN "solutions" ELSE "threw"
    BY <1>4 DEF BuildQuadrature, Step, core
  <2>2. angular_solutions = <<>> /\ system = Sys!NewSystem
    BY <2>1 DEF SystemInv
  <2>3. phase' = "solutions" => AngularSolutionsFit'
    BY <2>1, <2>2 DEF AngularSolutionsFit
  <2> QED
    BY <2>1, <2>2, <2>3 DEF SystemInv
<1>5. CASE BuildSolutions
  <2>1. /\ phase = "solutions" /\ phase' \in {"system", "threw"} /\ system' = system
        /\ angular_solutions' = angular_solutions /\ quadrature_set' = quadrature_set
        /\ parameters' = parameters
        /\ group_solution' = Sys!SetUpMPIAngularSolution(
             Sys!MPIGroupAngularSolution(Angles(quadrature_set)), 1)
    BY <1>5 DEF BuildSolutions, Step, core
  <2>2. GroupSolutionFits'
    BY <2>1 DEF GroupSolutionFits, Sys!SetUpMPIAngularSolution, Sys!MPIGroupAngularSolution
  <2>3. AngularSolutionsFit' /\ system = Sys!NewSystem
    BY <2>1 DEF SystemInv, AngularSolutionsFit
  <2> QED
    BY <2>1, <2>2, <2>3 DEF SystemInv
<1>6. CASE BuildSystem
  <2>1. /\ phase = "system" /\ phase' \in {"collapse", "threw"}
        /\ angular_solutions' = angular_solutions /\ quadrature_set' = quadrature_set
        /\ group_solution' = group_solution /\ parameters' = parameters
    BY <1>6 DEF BuildSystem, Step, core
  <2>2. system = Sys!NewSystem /\ AngularSolutionsFit /\ GroupSolutionFits
    BY <2>1 DEF SystemInv
  <2>3. system' = Built(parameters.neutron_energy_groups, Angles(quadrature_set),
                        parameters.is_eigenvalue, NeedStorage(parameters), Len(local_cells))
    BY <1>6, <2>2 DEF BuildSystem, Built
  <2>4. SystemIsBuilt'
    BY <2>1, <2>3 DEF SystemIsBuilt
  <2>5. AngularSolutionsFit' /\ GroupSolutionFits'
    BY <2>1, <2>2 DEF AngularSolutionsFit, GroupSolutionFits
  <2>6. Accepted'
    BY <2>1, BuildingIsAccepted DEF Building, Accepted
  <2> QED
    BY <2>1, <2>4, <2>5, <2>6 DEF SystemInv
<1>7. CASE Collapse
  BY <1>1, <1>7 DEF Collapse, solutions
<1>8. CASE ReflectAngle
  BY <1>1, <1>8, LookUpKeepsAngles DEF ReflectAngle, core
<1>9. CASE UNCHANGED vars
  BY <1>1, <1>9 DEF vars, core, solutions
<1> QED
  BY <1>2, <1>3, <1>4, <1>5, <1>6, <1>7, <1>8, <1>9 DEF Next

\* The system of a run always fits the parts it was built from.
LEMMA SystemInvariant == Spec => []SystemInv
<1>1. Init => SystemInv
  BY DEF Init, SystemInv, BeforeSolutions
<1> QED
  BY <1>1, NextSystemInv, ParametersInvariant, QuadratureInvariant, PTL DEF Spec

\* An accepted input has at least one group and one angle.
LEMMA SomeAngles ==
  ASSUME SetUpInv, QuadratureInv, Accepted
  PROVE  /\ Angles(quadrature_set) \in Nat \ {0}
         /\ parameters.neutron_energy_groups \in Nat \ {0}
<1>1. input \in ParsedInputs /\ parameters = ToFrameworkParameters(input)
  BY DEF SetUpInv, AcceptedInv
<1>2. parameters.neutron_energy_groups \in Nat \ {0} /\ input.dimension \in 1..3
  BY <1>1, ParsedEntries DEF ToFrameworkParameters
<1>3. CASE quadrature_set = None
  BY <1>2, <1>3 DEF Angles
<1>4. CASE quadrature_set # None
  <2>1. PICK points : /\ HalfSet(points, input.dimension) /\ Len(points) > 0
                      /\ IsFilled(quadrature_set, points)
    BY <1>4 DEF QuadratureInv, FilledFrom
  <2>2. Len(points) \in Nat
    BY <2>1 DEF HalfSet
  <2>3. quadrature_set.points = PointsInPairs(points, Len(points))
    BY <2>1 DEF IsFilled, Paired
  <2>4. quadrature_set.points
          = [i \in 1..2 * Len(points) |->
               IF i % 2 = 1 THEN points[(i + 1) \div 2] ELSE Opposite(points[i \div 2])]
    BY <2>3 DEF PointsInPairs
  <2>5. 2 * Len(points) \in Nat /\ 2 * Len(points) > 0
    BY <2>1, <2>2
  <2>6. Quad!SetSize(quadrature_set) = 2 * Len(points)
    <3> DEFINE n == 2 * Len(points)
               s == quadrature_set.points
    <3>1. DOMAIN s = 1..n
      BY <2>4
    <3>2. n \in Nat
      BY <2>5
    <3> HIDE DEF n, s
    <3>3. Len(s) = n
      BY <3>1, <3>2
    <3> QED
      BY <3>3 DEF Quad!SetSize, n, s
  <2> QED
    BY <1>2, <1>4, <2>5, <2>6 DEF Angles
<1> QED
  BY <1>3, <1>4

\* For every accepted input: the system has a matrix and a right hand side
\* per group and angle, each an object of its own, a variable term exactly
\* for the sources that change, the solutions one vector per angle, and the
\* stored angular solutions exactly those the boundaries need.
THEOREM SystemFits == Spec => []SystemFitsProblem
<1>1. ASSUME SetUpInv, QuadratureInv, SystemInv, system.rhs # Sys!Null
      PROVE  SystemFitsProblem
  <2> DEFINE groups == parameters.neutron_energy_groups
             angles == Angles(quadrature_set)
             stores == NeedStorage(parameters)
             indices == Sys!Index(groups, angles)
             names == Sys!VariableLinearTerms(parameters.is_eigenvalue, stores)
             parts == DOMAIN system.rhs.variable
  <2>1. system # Sys!NewSystem
    BY <1>1 DEF Sys!NewSystem
  <2>2. Accepted /\ SystemIsBuilt /\ GroupSolutionFits /\ AngularSolutionsFit
    BY <1>1, <2>1 DEF SystemInv
  <2>3. groups \in Nat \ {0} /\ angles \in Nat \ {0}
    BY <1>1, <2>2, SomeAngles
  <2>4. PICK size : system = Built(groups, angles, parameters.is_eigenvalue, stores, size)
    BY <2>2 DEF SystemIsBuilt
  <2>5. DOMAIN group_solution.solutions = 0..angles - 1
    BY <2>2 DEF GroupSolutionFits
  <2>6. angular_solutions = IF stores THEN Sys!SetUpEnergyGroupToAngularSolutionPtrMap(groups, angles)
                            ELSE <<>>
    BY <2>2 DEF AngularSolutionsFit
  <2> HIDE DEF groups, angles, stores
  <2>7. /\ parts = names
        /\ \A i \in indices : /\ Sys!GetFixedTermPtr(system.lhs, i) = <<"lhs", i>>
                              /\ Sys!GetFixedTermPtr(system.rhs, i) = <<"rhs", i>>
        /\ \A n \in names, i \in indices : Sys!GetVariableTermPtr(system.rhs, n, i) = <<n, i>>
        /\ \A key \in DOMAIN system.current_moments : key[1] \in 0..groups - 1
    BY <2>3, <2>4, BuiltTerms
  <2>8. indices = (0..groups - 1) \X (0..angles - 1)
    BY DEF Sys!Index
  <2>9. 0 \in 0..groups - 1 /\ 0 \in 0..angles - 1
    BY <2>3
  <2>10. {i[1] : i \in indices} = 0..groups - 1
    <3>1. \A g \in 0..groups - 1 : <<g, 0>> \in indices /\ <<g, 0>>[1] = g
      BY <2>8, <2>9
    <3>2. \A i \in indices : i[1] \in 0..groups - 1
      BY <2>8
    <3> QED
      BY <3>1, <3>2
  <2>11. {i[2] : i \in indices} = 0..angles - 1
    <3>1. \A a \in 0..angles - 1 : <<0, a>> \in indices /\ <<0, a>>[2] = a
      BY <2>8, <2>9
    <3>2. \A i \in indices : i[2] \in 0..angles - 1
      BY <2>8
    <3> QED
      BY <3>1, <3>2
  <2>12. ("ReflectiveBoundaryCondition" \in parts) <=> stores
    BY <2>7 DEF Sys!VariableLinearTerms
  <2>13. stores => DOMAIN angular_solutions = indices
    BY <2>6 DEF Sys!SetUpEnergyGroupToAngularSolutionPtrMap
  <2>14. stores <=> angular_solutions # <<>>
    <3>1. <<0, 0>> \in indices
      BY <2>8, <2>9
    <3>2. DOMAIN << >> = {}
      OBVIOUS
    <3> QED
      BY <2>6, <2>13, <3>1, <3>2
  <2>15. "lhs" \notin names /\ "rhs" \notin names
    BY DEF Sys!VariableLinearTerms
  <2> DEFINE storage(part, index) ==
               CASE part = "lhs" -> Sys!GetFixedTermPtr(system.lhs, index)
                 [] part = "rhs" -> Sys!GetFixedTermPtr(system.rhs, index)
                 [] OTHER -> Sys!GetVariableTermPtr(system.rhs, part, index)
             slots == ({"lhs", "rhs"} \cup parts) \X indices
  <2> HIDE DEF indices, names, parts
  <2>16. ASSUME NEW s \in slots
         PROVE  storage(s[1], s[2]) = s
    <3>1. s = <<s[1], s[2]>> /\ s[1] \in {"lhs", "rhs"} \cup names /\ s[2] \in indices
      BY <2>7
    <3>2. CASE s[1] = "lhs"
      BY <2>7, <3>1, <3>2
    <3>3. CASE s[1] = "rhs"
      BY <2>7, <3>1, <3>3
    <3>4. CASE s[1] \in names
      <4>1. s[1] # "lhs" /\ s[1] # "rhs"
        BY <2>15, <3>4
      <4>2. storage(s[1], s[2]) = Sys!GetVariableTermPtr(system.rhs, s[1], s[2])
        BY <4>1
      <4> QED
        BY <2>7, <3>1, <3>4, <4>2
    <3> QED
      BY <3>1, <3>2, <3>3, <3>4
  <2> HIDE DEF storage
  <2>17. \A s, t \in slots : s # t => storage(s[1], s[2]) # storage(t[1], t[2])
    BY <2>16
  <2> HIDE DEF slots
  <2>18. DOMAIN group_solution.solutions = {i[2] : i \in indices}
    BY <2>5, <2>11
  <2>19. angular_solutions # <<>> => DOMAIN angular_solutions = indices
    BY <2>13, <2>14
  <2>20. \A key \in DOMAIN system.current_moments : key[1] \in {i[1] : i \in indices}
    BY <2>7, <2>10
  <2> QED
    BY <2>12, <2>14, <2>17, <2>18, <2>19, <2>20
    DEF SystemFitsProblem, indices, parts, storage, slots, groups, angles
<1>2. SetUpInv /\ QuadratureInv /\ SystemInv => SystemFitsProblem
  BY <1>1 DEF SystemFitsProblem
<1> QED
  BY <1>2, SetUpInvariant, QuadratureInvariant, SystemInvariant, PTL

=============================================================================
