----------------------------- MODULE LegacyAngles -----------------------------
(***************************************************************************)
(* The angular quadrature sets of the legacy program and the indices made  *)
(* from them: the component of every group and direction, and for every    *)
(* side of the box the direction a direction is reflected into.            *)
(*                                                                         *)
(* A direction keeps its polar level, counted from the pole, the sign z of *)
(* its polar cosine, and its azimuth phi on a circle of equal parts.  On a *)
(* line z is the sign of the only component; in a plane there is no z.     *)
(*                                                                         *)
(* prm: the model ("ep" or another), the order, the groups, the name of    *)
(* the set, and whether there are reflective boundaries.                   *)
(***************************************************************************)
EXTENDS Integers, Sequences, SequencesExt

EvenParity(prm) == prm.model = "ep"
Halved(count, yes) == IF yes THEN count \div 2 ELSE count
Sign(i) == CASE i > 0 -> 1 [] i = 0 -> 0 [] i < 0 -> -1

\* Gauss points come in ascending order.
GaussLegendre(prm) ==
  [i \in 1..Halved(prm.order, EvenParity(prm)) |->
     [level |-> Min({i - 1, prm.order - i}), z |-> Sign(2 * i - 1 - prm.order),
      phi |-> 0, circle |-> 2]]

\* LSGC: the azimuths of one level; one level after the other.
LevelDirections(dim, prm, i) ==
  LET half == prm.order \div 2
      n_level == Halved(IF i < half THEN 4 * (i + 1) ELSE 4 * (prm.order - i),
                        dim = 2 /\ EvenParity(prm))
      circle == 2 * n_level * (IF EvenParity(prm) THEN 2 ELSE 1)
  IN  [j \in 1..n_level |->
         [level |-> Min({i, prm.order - 1 - i}), phi |-> 2 * j - 1, circle |-> circle,
          z |-> IF dim = 2 THEN 0 ELSE Sign(2 * i + 1 - prm.order)]]
LevelSymmetric(dim, prm) ==
  LET n_total_azi == Halved(prm.order, ~(dim = 3 /\ ~EvenParity(prm)))
      below[i \in 0..n_total_azi] ==
        IF i = 0 THEN <<>> ELSE below[i - 1] \o LevelDirections(dim, prm, i - 1)
  IN  below[n_total_azi]
DirectionCount(dim, prm) ==
  (prm.order * (prm.order + 2))
    \div ((IF dim = 2 THEN 2 ELSE 1) * (IF EvenParity(prm) THEN 2 ELSE 1))
ProduceLSGC(dim, prm) ==
  CASE prm.order % 2 # 0 -> [error |-> "SN order must be even numbers", directions |-> <<>>]
    [] Len(LevelSymmetric(dim, prm)) # DirectionCount(dim, prm) ->
         [error |-> "calculated number of angles", directions |-> <<>>]
    [] OTHER -> [error |-> "none", directions |-> LevelSymmetric(dim, prm)]

\* CreateAQ: a name the table does not have finds its first entry.
ProduceAQ(dim, prm) ==
  IF dim = 1 THEN [error |-> "none", directions |-> GaussLegendre(prm)]
  ELSE ProduceLSGC(dim, prm)

InitCompInd(prm, directions) ==
  [gd \in (0..prm.n_group - 1) \X DOMAIN directions |-> gd[1] * Len(directions) + gd[2] - 1]

\* The mirror image on the side, counted xmin, xmax, ymin, ymax, zmin, zmax.
Mirrored(dim, side, d) ==
  CASE side \div 2 = dim - 1 /\ dim # 2 -> [d EXCEPT !.z = -d.z]
    [] side \div 2 = 0 /\ dim # 1 -> [d EXCEPT !.phi = (d.circle + d.circle \div 2 - d.phi) % d.circle]
    [] side \div 2 = 1 -> [d EXCEPT !.phi = (d.circle - d.phi) % d.circle]
Opposite(dim, d) ==
  [d EXCEPT !.z = -d.z,
            !.phi = IF dim = 1 THEN d.phi ELSE (d.phi + d.circle \div 2) % d.circle]
\* Mutant: only the image itself is looked for, its opposite never.
ReflectedIntoImage(dim, prm, directions, side, i) ==
  {r \in DOMAIN directions : directions[r] = Mirrored(dim, side, directions[i])}
ReflectedInto(dim, prm, directions, side, i) ==
  LET out == Mirrored(dim, side, directions[i])
  IN  {r \in DOMAIN directions : \/ directions[r] = out
                                 \/ EvenParity(prm) /\ directions[r] = Opposite(dim, out)}
\* reflective_direction_index_: of several, the last; a direction without one
\* is left out.
InitRefBCInd(dim, prm, directions) ==
  IF ~prm.have_reflective THEN <<>>
  ELSE LET into(at) == ReflectedInto(dim, prm, directions, at[1], at[2])
           found == {at \in (0..2 * dim - 1) \X DOMAIN directions : into(at) # {}}
       IN  [at \in found |-> Max(into(at))]

MakeAQ(dim, prm) ==
  LET produced == ProduceAQ(dim, prm)
  IN  [error |-> produced.error, directions |-> produced.directions,
       component |-> InitCompInd(prm, produced.directions),
       reflective |-> InitRefBCInd(dim, prm, produced.directions)]
=============================================================================
