----------------------------- MODULE AngularTerms -----------------------------
(***************************************************************************)
(* The self-adjoint angular flux (SAAF) formulation on a line: an equation *)
(* for every group and every angle of a quadrature set.                    *)
(*                                                                         *)
(* Inverse total cross sections are counted in SigmaUnit-ths, and what has *)
(* none is multiplied by SigmaUnit.  Cross sections per steradian are the  *)
(* plain ones: their sources are those of the full sphere.                 *)
(***************************************************************************)
EXTENDS FiniteElement, Quadrature

CONSTANTS SigmaUnit, KUnit

InverseSigmaT(xs, material, g) == SigmaUnit \div xs.sigma_t[material][g]
Omega(set, a) == Position(set, a)[1]

\* Initialize: the tables by cell point and by angle; the one of the squared
\* gradients is overwritten entry by entry and never cleared.
NoTables == [omega_dot_gradient |-> <<>>, omega_dot_gradient_squared |-> <<>>]
Initialize(tables, set) ==
  LET places == Points \X Indices(set)
      dot(a, i) == Omega(set, a) * ShapeGradient(i)
      kept == tables.omega_dot_gradient_squared
  IN  [omega_dot_gradient |-> [p \in places |-> [i \in Local |-> dot(p[2], i)]],
       omega_dot_gradient_squared |->
         [p \in places \cup DOMAIN kept |->
            IF p \in places THEN CellMatrix(LAMBDA i, j : dot(p[2], i) * dot(p[2], j))
            ELSE kept[p]]]

\* Mutant: the streaming of the first-order equation.
FirstOrderStreamingTerm(xs, tables, material, g, a) ==
  CellMatrix(LAMBDA i, j : Integral(LAMBDA q :
    SigmaUnit * tables.omega_dot_gradient[<<q, a>>][j] * ShapeValue(i, q)))
SAAFStreamingTerm(xs, tables, material, g, a) ==
  CellMatrix(LAMBDA i, j : Integral(LAMBDA q :
    InverseSigmaT(xs, material, g) * tables.omega_dot_gradient_squared[<<q, a>>][<<i, j>>]))
SAAFCollisionTerm(xs, material, g) ==
  CellMatrix(LAMBDA i, j : Integral(LAMBDA q :
    SigmaUnit * xs.sigma_t[material][g] * ShapeValue(i, q) * ShapeValue(j, q)))

\* Only where the angle leaves the domain ...
BoundaryBilinearTerm(set, face, a) ==
  LET cosine == FaceNormal(face) * Omega(set, a)
  IN  CellMatrix(LAMBDA i, j :
        IF cosine > 0
        THEN SigmaUnit * cosine * FaceShapeValue(i, face) * FaceShapeValue(j, face)
               * FaceJacobian
        ELSE 0)
\* ... and where it enters, what the mirror image of the angle carries out.
\* Mutant: the flux of the angle enters whichever way it points.
EntersOrLeaves(cosine) == cosine # 0
Enters(cosine) == cosine < 0
ReflectiveBoundaryTerm(fe, set, face, a, incoming) ==
  LET cosine == FaceNormal(face) * Omega(set, a)
      flux == ValueAtFaceQuadrature(fe, incoming)
  IN  CellVector(LAMBDA i :
        IF Enters(cosine)
        THEN -SigmaUnit * cosine * FaceShapeValue(i, face) * flux * FaceJacobian
        ELSE 0)

\* FillCellSourceTerm: every source weighs the shape and its gradient.
SourceTerm(xs, tables, material, g, a, source) ==
  CellVector(LAMBDA i : Integral(LAMBDA q :
    source[q] * (SigmaUnit * ShapeValue(i, q)
                   + tables.omega_dot_gradient[<<q, a>>][i] * InverseSigmaT(xs, material, g))))

\* Scattering within the group is a source like that from any other group.
ScatteringIn(xs, material, g, flux, q) ==
  MapThenSumSet(LAMBDA g_in : xs.sigma_s[material][g][g_in] * flux[g_in][q],
                DOMAIN flux)
SAAFScatteringTerm(fe, xs, tables, material, g, a, moments) ==
  LET flux == [h \in DOMAIN moments |-> ValueAtQuadrature(fe, moments[h])]
  IN  SourceTerm(xs, tables, material, g, a,
                 [q \in Points |-> ScatteringIn(xs, material, g, flux, q)])

FissionIn(xs, material, g, flux, q) ==
  MapThenSumSet(LAMBDA g_in : xs.fiss_transfer[material][g_in][g] * flux[g_in][q],
                DOMAIN flux)
SAAFFissionTerm(fe, xs, tables, material, g, a, k, moments) ==
  LET flux == [h \in DOMAIN moments |-> ValueAtQuadrature(fe, moments[h])]
  IN  SourceTerm(xs, tables, material, g, a,
                 [q \in Points |-> FissionIn(xs, material, g, flux, q) * (KUnit \div k)])

\* Nothing where the material or the group has no source.
SAAFFixedSourceTerm(xs, tables, material, g, a) ==
  IF material \in DOMAIN xs.q /\ g \in DOMAIN xs.q[material]
  THEN SourceTerm(xs, tables, material, g, a, [q \in Points |-> xs.q[material][g]])
  ELSE CellVector(LAMBDA i : 0)
=============================================================================
