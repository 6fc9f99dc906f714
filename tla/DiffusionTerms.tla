--------------------------- MODULE DiffusionTerms ---------------------------
(***************************************************************************)
(* The scalar formulations: diffusion, its variant for two-grid            *)
(* acceleration, and the terms that drift-diffusion adds.  Cross sections  *)
(* xs are those of module Materials; a flux gives every group a vector.    *)
(* The eigenvalue is a number of KUnit-ths.                                *)
(***************************************************************************)
EXTENDS FiniteElement

CONSTANT KUnit

\* Precalculate appends the squares at the points of one cell; the terms read
\* the first ones, for every cell.
Precalculate(squares) ==
  squares \o [n \in 1..2 |->
    [shape |-> CellMatrix(LAMBDA i, j : ShapeValue(i, n - 1) * ShapeValue(j, n - 1)),
     gradient |-> CellMatrix(LAMBDA i, j : ShapeGradient(i) * ShapeGradient(j))]]

StreamingTerm(xs, squares, material, g) ==
  CellMatrix(LAMBDA i, j : Integral(LAMBDA q :
    xs.diffusion_coef[material][g] * squares[q + 1].gradient[<<i, j>>]))

\* Scattering within the group is taken out of the collisions ...
RemovalCrossSection(xs, material, g) ==
  xs.sigma_t[material][g] - xs.sigma_s[material][g][g]
CollisionTerm(xs, squares, material, g) ==
  CellMatrix(LAMBDA i, j : Integral(LAMBDA q :
    RemovalCrossSection(xs, material, g) * squares[q + 1].shape[<<i, j>>]))

\* ... and left out of the scattering source.
InScattering(xs, material, g, flux, q) ==
  MapThenSumSet(LAMBDA g_in : xs.sigma_s[material][g][g_in] * flux[g_in][q],
                DOMAIN flux \ {g})
ScatteringTerm(fe, xs, material, g, moments) ==
  LET flux == [h \in DOMAIN moments |-> ValueAtQuadrature(fe, moments[h])]
  IN  CellVector(LAMBDA i : Integral(LAMBDA q :
        ShapeValue(i, q) * InScattering(xs, material, g, flux, q)))

\* Mutant: the transfer matrix is read the other way round.
TransferOut(xs, material, g, flux, q) ==
  MapThenSumSet(LAMBDA g_in : xs.fiss_transfer[material][g][g_in] * flux[g_in][q],
                DOMAIN flux)
FissionTransferred(xs, material, g, flux, q) ==
  MapThenSumSet(LAMBDA g_in : xs.fiss_transfer[material][g_in][g] * flux[g_in][q],
                DOMAIN flux)
FissionTerm(fe, xs, material, g, k, moments) ==
  LET flux == [h \in DOMAIN moments |-> ValueAtQuadrature(fe, moments[h])]
  IN  CellVector(LAMBDA i : Integral(LAMBDA q :
        ShapeValue(i, q) * FissionTransferred(xs, material, g, flux, q) * (KUnit \div k)))

\* The local q of the loop hides the source that was looked up: only whether
\* there is one matters.
HasSource(xs, material, g) == material \in DOMAIN xs.q /\ g \in DOMAIN xs.q[material]
FixedSourceTerm(xs, material, g) ==
  CellVector(LAMBDA i : IF HasSource(xs, material, g)
                        THEN Integral(LAMBDA q : ShapeValue(i, q)) ELSE 0)

\* The constant right hand side of a two-grid solve.
ConstantTerm(fe, constant) ==
  LET value == ValueAtQuadrature(fe, constant)
  IN  CellVector(LAMBDA i : Integral(LAMBDA q : ShapeValue(i, q) * value[q]))

\* Half of the flux leaves through a face that reflects nothing: half of
\* FaceJacobian is 1.
VacuumTerm(face) ==
  CellMatrix(LAMBDA i, j : (FaceJacobian \div 2) * FaceShapeValue(i, face)
                             * FaceShapeValue(j, face))

\* TwoGridDiffusion absorbs instead of removing.
AbsorptionTerm(xs, squares, material) ==
  CellMatrix(LAMBDA i, j : Integral(LAMBDA q :
    xs.sigma_absorption[material] * squares[q + 1].shape[<<i, j>>]))

(***************************************************************************)
(* Drift-diffusion, on fluxes for which the quotients are whole: the       *)
(* vector of a point from the scalar flux and the current of the angular   *)
(* solve, no drift where there is no flux.                                 *)
(***************************************************************************)
DriftDiffusionVector(flux, current, gradient, diffusion) ==
  IF flux = 0 THEN 0 ELSE (current + diffusion * gradient) \div flux
DriftDiffusionTerm(fe, xs, material, g, scalar_flux, current) ==
  LET flux == ValueAtQuadrature(fe, scalar_flux)
      net == ValueAtQuadrature(fe, current)
      drift(i, q) == DriftDiffusionVector(flux[q], net[q], ShapeGradient(i),
                                          xs.diffusion_coef[material][g])
  IN  CellMatrix(LAMBDA i, j : Integral(LAMBDA q :
        drift(i, q) * ShapeValue(i, q) * ShapeGradient(j)))

\* The share of the flux that leaves, from the current and the flux of the
\* angles that point outwards; a quarter of its value at the face is the value.
LeavingShare(current, flux) ==
  [d \in DOMAIN flux |-> IF flux[d] = 0 THEN 0 ELSE current[d] \div flux[d]]
DriftBoundaryTerm(fe, face, current, flux) ==
  LET share == ValueAtFaceQuadrature(fe, LeavingShare(current, flux)) \div 4
  IN  CellMatrix(LAMBDA i, j : FaceJacobian * FaceShapeValue(i, face)
                                 * FaceShapeValue(j, face) * share)
=============================================================================
