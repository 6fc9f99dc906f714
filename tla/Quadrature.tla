----------------------------- MODULE Quadrature -----------------------------
(***************************************************************************)
(* The angular quadrature set: the generators for one and three dimensions, *)
(* the set filled with every point and its reflection across the origin,   *)
(* the mirror images a reflective boundary needs, and the moments and      *)
(* currents the set integrates.                                            *)
(*                                                                         *)
(* A set is a record: points is the sequence of its points in the order of *)
(* their indices (the index of a point is its place less one), reflection  *)
(* and mirrors are the two maps the class keeps.  A position is a tuple of *)
(* integers with the signs and the coincidences of the real ordinates.     *)
(***************************************************************************)
EXTENDS Integers, Sequences, SequencesExt

Axes == 1..3
Minima == <<"XMin", "YMin", "ZMin">>
Maxima == <<"XMax", "YMax", "ZMax">>
AxisOf(boundary) == CHOOSE axis \in Axes : boundary \in {Minima[axis], Maxima[axis]}
\* Both sides of an axis share one map of mirror images.
MirrorKey(boundary) == Maxima[AxisOf(boundary)]

Point(position, weight) == [position |-> position, weight |-> weight]
Negated(position, axes) ==
  [i \in DOMAIN position |-> IF i \in axes THEN -position[i] ELSE position[i]]
ReflectAcrossOrigin(position) == Negated(position, DOMAIN position)

(***************************************************************************)
(* Generators.  Gauss-Legendre: `order` points on the positive half line.  *)
(* Level-symmetric: level l has l + 1 points in the first octant, each with *)
(* the weight of the level.  A weight is the number of its level.          *)
(***************************************************************************)
GaussLegendre(order) == [i \in 1..order |-> Point(<<i>>, i)]
LevelPoints(order, level) ==
  [j \in 1..level + 1 |-> Point(<<level + 2 - j, j, order \div 2 - level>>, level + 1)]
LevelSymmetricGaussian(order) ==
  LET below[l \in 0..order \div 2] ==
        IF l = 0 THEN <<>> ELSE below[l - 1] \o LevelPoints(order, l - 1)
  IN  below[order \div 2]

GeneratorError(dim, type, order) ==
  CASE type = "level_symmetric_gaussian" /\ dim # 3 -> "LSGC only available for 3D"
    [] type = "gauss_legendre" /\ dim # 1 -> "GaussLegendre only available for 1D"
    [] type = "none" -> "no supported quadrature"
    [] type = "gauss_legendre" /\ order <= 0 -> "n_points must be positive"
    [] type = "level_symmetric_gaussian" /\ (order \notin 2..16 \/ order % 2 # 0) ->
         "order must be even and in 2..16"
    [] OTHER -> "none"
GenerateSet(type, order) ==
  IF type = "gauss_legendre" THEN GaussLegendre(order) ELSE LevelSymmetricGaussian(order)

\* The images of a point in the quadrants with positive x, in three dimensions;
\* in one dimension the point itself is the only one.
\* Mutant: the image with a negative z only is forgotten.
TwoImages(point) ==
  IF Len(point.position) < 3 THEN <<>>
  ELSE LET y == Negated(point.position, {2})
       IN  <<Point(y, point.weight), Point(Negated(y, {3}), point.weight)>>
PositiveXImages(point) ==
  IF Len(point.position) < 3 THEN <<>>
  ELSE LET y == Negated(point.position, {2})
           yz == Negated(y, {3})
       IN  <<Point(y, point.weight), Point(yz, point.weight),
             Point(Negated(yz, {2}), point.weight)>>
GenerateAllPositiveX(points) ==
  LET each == Len(PositiveXImages(Head(points)))
  IN  points \o [n \in 1..Len(points) * each |->
                    PositiveXImages(points[(n - 1) \div each + 1])[((n - 1) % each) + 1]]

(***************************************************************************)
(* The set.                                                                *)
(***************************************************************************)
EmptySet == [points |-> <<>>, reflection |-> [i \in {} |-> i],
             mirrors |-> [b \in Range(Maxima) |-> <<>>]]
SetSize(set) == Len(set.points)
Indices(set) == 0..SetSize(set) - 1
PointAt(set, index) == set.points[index + 1]
Position(set, index) == PointAt(set, index).position
IndicesAt(set, position) == {i \in Indices(set) : Position(set, i) = position}

\* A point at a position the set already has is refused.
AddPoint(set, point) ==
  IF IndicesAt(set, point.position) # {} THEN set
  ELSE [set EXCEPT !.points = Append(@, point)]

\* Both points are paired; whoever was paired with either of them before loses
\* its entry.
SetReflection(set, first, second) ==
  LET old == {set.reflection[p] : p \in {first, second} \cap DOMAIN set.reflection}
      kept == DOMAIN set.reflection \ old
  IN  [set EXCEPT !.reflection =
         [p \in kept \cup {first, second} |->
            IF p = second THEN first ELSE IF p = first THEN second ELSE @[p]]]

\* One step of FillQuadratureSet: the point, and the point opposite to it
\* unless it is its own opposite.
AddWithReflection(set, point) ==
  LET opposite == Point(ReflectAcrossOrigin(point.position), point.weight)
      added == AddPoint(set, point)
      both == AddPoint(added, opposite)
  IN  IF opposite.position = point.position THEN added
      ELSE SetReflection(both, SetSize(added) - 1, SetSize(both) - 1)
FillQuadratureSet(points) ==
  LET filled[n \in 0..Len(points)] ==
        IF n = 0 THEN EmptySet ELSE AddWithReflection(filled[n - 1], points[n])
  IN  filled[Len(points)]

GetReflectionIndex(set, index) ==
  IF index \in DOMAIN set.reflection THEN set.reflection[index] ELSE "nullopt"

(***************************************************************************)
(* The mirror image of a point in a boundary: from the map of the axis, or *)
(* by its position, which the map then remembers in both directions.       *)
(***************************************************************************)
CachedMirrors(set, boundary) == set.mirrors[MirrorKey(boundary)]
SoughtPosition(set, index, boundary) == Negated(Position(set, index), {AxisOf(boundary)})
MirrorFails(set, index, boundary) ==
  /\ index \notin DOMAIN CachedMirrors(set, boundary)
  /\ \/ AxisOf(boundary) \notin DOMAIN Position(set, index)
     \/ IndicesAt(set, SoughtPosition(set, index, boundary)) = {}
BoundaryReflection(set, index, boundary) ==
  IF index \in DOMAIN CachedMirrors(set, boundary)
  THEN CachedMirrors(set, boundary)[index]
  ELSE CHOOSE i \in IndicesAt(set, SoughtPosition(set, index, boundary)) : TRUE
\* Inserting a pair in both directions replaces nothing the map has.
WithPair(mirrors, index, mirror) ==
  [i \in DOMAIN mirrors \cup {index, mirror} |->
     IF i \in DOMAIN mirrors THEN mirrors[i] ELSE IF i = index THEN mirror ELSE index]
GetBoundaryReflection(set, index, boundary) ==
  [set EXCEPT !.mirrors[MirrorKey(boundary)] =
                 WithPair(@, index, BoundaryReflection(set, index, boundary))]

(***************************************************************************)
(* Calculators.  A solution gives every angle a number.                    *)
(***************************************************************************)
Dot(u, v) == FoldFunctionOnSet(+, 0, [i \in DOMAIN u |-> u[i] * v[i]], DOMAIN u)
WeightedSum(set, value, indices) ==
  LET below[n \in 0..SetSize(set)] ==
        IF n = 0 THEN 0
        ELSE below[n - 1]
               + (IF n - 1 \in indices THEN PointAt(set, n - 1).weight * value[n - 1] ELSE 0)
  IN  below[SetSize(set)]

ZerothMoment(set, solution) == WeightedSum(set, solution, Indices(set))
ScalarMoment(solution) == solution[0]

Along(set, axis) == [i \in Indices(set) |-> Position(set, i)[axis]]
Across(set, normal) == [i \in Indices(set) |-> Dot(Position(set, i), normal)]
Outgoing(set, normal) == {i \in Indices(set) : Across(set, normal)[i] >= 0}
Scaled(flux, lengths) == [i \in DOMAIN lengths |-> flux[i] * lengths[i]]
NetCurrent(set, flux, axis) == WeightedSum(set, Scaled(flux, Along(set, axis)), Indices(set))
DirectionalCurrent(set, flux, normal) ==
  WeightedSum(set, Scaled(flux, Across(set, normal)), Outgoing(set, normal))
DirectionalFlux(set, flux, normal) == WeightedSum(set, flux, Outgoing(set, normal))
=============================================================================
