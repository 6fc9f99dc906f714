---------------------------- MODULE TwoGridData ----------------------------
(***************************************************************************)
(* What two-grid acceleration is given once, and the residual it computes  *)
(* every time: the spectral shape of every material, the shapes over the   *)
(* degrees of freedom of a process, the isotropic residual and the         *)
(* correction of a flux.                                                   *)
(*                                                                         *)
(* A process visits its own cells only (cell c has the degrees of freedom  *)
(* c and c + 1) and divides, at every degree of freedom of the mesh, by    *)
(* the number of its cells that touch it.  Where none does that is 0/0,    *)
(* and the correction, which is of whole vectors, carries the NaN into the *)
(* flux.  Shapes are counted in ShapeUnit-ths, quotients in HitUnit-ths.   *)
(***************************************************************************)
EXTENDS Integers, Sequences, SequencesExt

CONSTANTS ShapeUnit, Eigenvector(_,_), NaN
ASSUME NotANumber == NaN \notin Int
HitUnit == 2

(***************************************************************************)
(* Spectral shapes.  Scattering is split at the diagonal, which belongs to *)
(* the downward part; the shape is the eigenvector an external solver      *)
(* finds for (sigma_t - downward)^-1 upward, normalised.                   *)
(***************************************************************************)
Downscattering(sigma_s) ==
  [g \in DOMAIN sigma_s |-> [h \in DOMAIN sigma_s |-> IF h <= g THEN sigma_s[g][h] ELSE 0]]
Upscattering(sigma_s) ==
  [g \in DOMAIN sigma_s |-> [h \in DOMAIN sigma_s |-> IF h > g THEN sigma_s[g][h] ELSE 0]]
Magnitude(x) == IF x < 0 THEN -x ELSE x
Normalized(vector) ==
  LET sum == FoldSeq(LAMBDA x, total : total + Magnitude(x), 0, vector)
  IN  [g \in DOMAIN vector |-> (ShapeUnit * Magnitude(vector[g])) \div sum]
SpectralShape(sigma_t, sigma_s) ==
  LET lhs == [g \in DOMAIN sigma_t |-> [h \in DOMAIN sigma_t |->
                (IF g = h THEN sigma_t[g] ELSE 0) - Downscattering(sigma_s)[g][h]]]
  IN  Normalized(Eigenvector(lhs, Upscattering(sigma_s)))
MaterialSpectralShapes(xs) ==
  [m \in DOMAIN xs.sigma_t |-> SpectralShape(xs.sigma_t[m], xs.sigma_s[m])]

(***************************************************************************)
(* Averages over the cells of a process.                                   *)
(***************************************************************************)
Dofs(cells) == cells \cup {c + 1 : c \in cells}
CellsAt(cells, d) == cells \cap {d - 1, d}
Quotient(sum, hits) == IF hits = 0 THEN NaN ELSE sum \div hits
Average(cells, dofs, value(_,_)) ==
  [d \in dofs |->
     Quotient(HitUnit * MapThenSumSet(LAMBDA c : value(c, d), CellsAt(cells, d)),
              Cardinality(CellsAt(cells, d)))]

DomainSpectralShapes(shapes, cells, dofs, material) ==
  [g \in DOMAIN shapes[material[CHOOSE c \in cells : TRUE]] |->
     Average(cells, dofs, LAMBDA c, d : shapes[material[c]][g])]

\* CellIsotropicResidual: what the change of the fluxes scatters up to slower
\* groups' sources, at a degree of freedom of the cell.
CellResidual(xs, m, now, before, g, d) ==
  MapThenSumSet(LAMBDA h : xs.sigma_s[m][g][h] * (now[h][d] - before[h][d]),
                {h \in DOMAIN now : h > g})
\* Mutant: the sum over the cells is not divided by their number.
DomainResidualUndivided(xs, cells, dofs, material, now, before) ==
  [d \in dofs |-> HitUnit * MapThenSumSet(LAMBDA c :
     MapThenSumSet(LAMBDA g : CellResidual(xs, material[c], now, before, g, d), DOMAIN now),
     CellsAt(cells, d))]
\* DomainIsotropicResidual: over all groups.
DomainResidual(xs, cells, dofs, material, now, before) ==
  Average(cells, dofs, LAMBDA c, d :
    MapThenSumSet(LAMBDA g : CellResidual(xs, material[c], now, before, g, d), DOMAIN now))

\* FluxCorrector: scale and add are of every entry of the vectors.
CorrectFlux(shapes, flux, error, g) ==
  [d \in DOMAIN flux |-> IF NaN \in {flux[d], shapes[g][d], error[d]} THEN NaN
                         ELSE flux[d] + shapes[g][d] * error[d]]
=============================================================================
