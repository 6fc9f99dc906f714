---------------------------- MODULE LegacyEquations ----------------------------
(***************************************************************************)
(* The equations of the legacy program on a line of equal cells: what they *)
(* add to the matrix and to the right hand side of every component, and    *)
(* the moments and the fission source made from the solutions.             *)
(*                                                                         *)
(* An equation equ is a record: its model ("diffusion", "ep" for even      *)
(* parity, "saaf"), the number n of cells, their material, the id of the   *)
(* boundary at each end (side), which ids reflect, dfem or not, the        *)
(* groups, the directions omega with weights w, the component of a group   *)
(* and a direction, the direction that one is reflected into, the cross    *)
(* sections xs and whether it is an eigenvalue problem.  Groups and        *)
(* components count from zero, directions from one.                        *)
(*                                                                         *)
(* Shapes and Jacobians are the integers of module FiniteElement; inverse  *)
(* and per-steradian cross sections are numbers of their own or the plain  *)
(* ones.  All terms of even parity are counted in quarters once more,      *)
(* which its penalty needs.                                                *)
(***************************************************************************)
EXTENDS FiniteElement, FiniteSetsExt

Quarters == 4
Groups(equ) == 0..equ.n_group - 1
Cells(equ) == 0..equ.n - 1
Dof(equ, cell, i) == IF equ.dfem THEN 2 * cell + i ELSE cell + i
Dofs(equ) == 0..Dof(equ, equ.n - 1, 1)

n_dir(equ) == IF equ.model = "diffusion" THEN 1 ELSE Len(equ.omega)
n_total_vars(equ) == equ.n_group * n_dir(equ)
Components(equ) == 0..n_total_vars(equ) - 1
GetCompInd(equ, g, dir) == IF equ.model = "diffusion" THEN g ELSE equ.component[<<g, dir>>]
GetCompGrpInd(equ, k) ==
  CHOOSE g \in Groups(equ) : \E dir \in 1..n_dir(equ) : GetCompInd(equ, g, dir) = k
GetCompDirInd(equ, k) ==
  CHOOSE dir \in 1..n_dir(equ) : GetCompInd(equ, GetCompGrpInd(equ, k), dir) = k

AtOuterFace(equ, cell, face) == cell + 2 * face - 1 \notin Cells(equ)
OuterFaces(equ, cell) == {face \in Faces : AtOuterFace(equ, cell, face)}
Reflects(equ, face) ==
  equ.side[face] \in DOMAIN equ.reflective /\ equ.reflective[equ.side[face]]

At(equ, vector, cell, q) ==
  ShapeValue(0, q) * vector[Dof(equ, cell, 0)] + ShapeValue(1, q) * vector[Dof(equ, cell, 1)]
AtFace(equ, vector, cell, face) ==
  FaceShapeValue(0, face) * vector[Dof(equ, cell, 0)]
    + FaceShapeValue(1, face) * vector[Dof(equ, cell, 1)]
\* The sum over all groups of what transfer makes of their flux at a point.
Transferred(equ, moments, cell, q, transfer) ==
  SumFunction([h \in DOMAIN transfer |-> transfer[h] * At(equ, moments[h], cell, q)])

\* What PreassembleCellMatrices keeps of one cell for all of them.
PreCollision(q, i, j) == ShapeValue(i, q) * ShapeValue(j, q)
PreStreaming(omega, i, j) == (ShapeGradient(i) * omega) * (ShapeGradient(j) * omega)

(***************************************************************************)
(* Diffusion.                                                              *)
(***************************************************************************)
DiffusionCell(equ, cell, g) ==
  LET m == equ.material[cell]
      sigma_r == equ.xs.sigt[m][g] - equ.xs.sigs[m][g][g]
  IN  CellMatrix(LAMBDA i, j : Integral(LAMBDA q :
        PreStreaming(1, i, j) * equ.xs.diffusion_coef[m][g] + PreCollision(q, i, j) * sigma_r))
DiffusionScattering(equ, moments, cell, g) ==
  LET into == [h \in Groups(equ) \ {g} |-> equ.xs.sigs[equ.material[cell]][h][g]]
  IN  CellVector(LAMBDA i : Integral(LAMBDA q :
        ShapeValue(i, q) * Transferred(equ, moments, cell, q, into)))
\* Even parity has the same fixed term, with sources per steradian.
FissionTransfer(equ, cell, g, h) == equ.xs.fiss_transfer[equ.material[cell]][h][g]
FixedSource(equ, moments, cell, g, q) ==
  LET m == equ.material[cell]
  IN  CASE ~equ.eigen -> Quarters * equ.xs.q[m][g]
        [] equ.eigen /\ equ.xs.fissile[m] ->
             equ.scale * Transferred(equ, moments, cell, q,
                                     [h \in Groups(equ) |-> FissionTransfer(equ, cell, g, h)])
        [] OTHER -> 0
DiffusionFixed(equ, moments, cell, g) ==
  CellVector(LAMBDA i : Integral(LAMBDA q :
    ShapeValue(i, q) * FixedSource(equ, moments, cell, g, q)))
DiffusionBoundary(equ, face) ==
  CellMatrix(LAMBDA i, j :
    IF Reflects(equ, face) THEN 0
    ELSE (FaceJacobian \div 2) * FaceShapeValue(i, face) * FaceShapeValue(j, face))

(***************************************************************************)
(* Even parity.                                                            *)
(***************************************************************************)
EvenParityCell(equ, cell, g, omega) ==
  LET m == equ.material[cell]
  IN  CellMatrix(LAMBDA i, j : Integral(LAMBDA q :
        Quarters * (PreStreaming(omega, i, j) * equ.xs.inv_sigt[m][g]
                      + PreCollision(q, i, j) * equ.xs.sigt[m][g])))
EvenParityBoundary(equ, cell, face, g, omega) ==
  LET ndo == FaceNormal(face) * omega
      ref_angle == omega - 2 * ndo * FaceNormal(face)
  IN  CellMatrix(LAMBDA i, j :
        Quarters * FaceShapeValue(i, face) * FaceJacobian *
          (IF Reflects(equ, face)
           THEN -ndo * equ.xs.inv_sigt[equ.material[cell]][g] * ref_angle * ShapeGradient(j)
           ELSE Max({ndo, -ndo}) * FaceShapeValue(j, face)))

\* The penalty, with cells of diameter one: four times the larger of a quarter
\* and the norm times p (p + 1) times the mean inverse of the optical lengths.
Penalty(equ, cell, neigh, g, omega) ==
  LET inverse(c) == equ.xs.inv_sigt[equ.material[c]][g]
  IN  Max({1, omega * omega * 2 * 2 * (inverse(cell) + inverse(neigh))})
\* The four blocks of the face between a cell and its left neighbour: a test
\* function of one against a trial function of the other, "own" or "neigh".
\* The slope of a test function has the sign of the trial side, that of a trial
\* function the sign of the test side.
FluxSign(side) == IF side = "own" THEN -1 ELSE 1
\* Mutant: the slope of a test function takes the sign of its own side.
OwnSlopeSign(test, trial) == FluxSign(test)
TestSlopeSign(test, trial) == FluxSign(trial)
EvenParityInterface(equ, cell, g, omega, test, trial) ==
  LET neigh == cell - 1
      face(side) == IF side = "own" THEN 0 ELSE 1
      inv(side) == equ.xs.inv_sigt[equ.material[IF side = "own" THEN cell ELSE neigh]][g]
      half_ndo == 2 * FaceNormal(0) * omega
      shape(side, i) == FaceShapeValue(i, face(side))
      slope(side, i) == inv(side) * half_ndo * omega * ShapeGradient(i)
  IN  CellMatrix(LAMBDA i, j : FaceJacobian *
        ((IF test = trial THEN 1 ELSE -1) * Penalty(equ, cell, neigh, g, omega)
             * shape(test, i) * shape(trial, j)
           + TestSlopeSign(test, trial) * slope(test, i) * shape(trial, j)
           + FluxSign(test) * shape(test, i) * slope(trial, j)))
EvenParityScattering(equ, moments, cell, g) ==
  LET into == [h \in Groups(equ) |-> equ.xs.sigs[equ.material[cell]][h][g]]
  IN  CellVector(LAMBDA i : Integral(LAMBDA q :
        Quarters * ShapeValue(i, q) * Transferred(equ, moments, cell, q, into)))
EvenParityFixed(equ, moments, cell, g) ==
  CellVector(LAMBDA i : Integral(LAMBDA q :
    Quarters * ShapeValue(i, q) * FixedSource(equ, moments, cell, g, q)))

(***************************************************************************)
(* Self-adjoint angular flux.                                              *)
(***************************************************************************)
SAAFCell(equ, cell, g, omega) ==
  LET m == equ.material[cell]
  IN  CellMatrix(LAMBDA i, j : Integral(LAMBDA q :
        PreStreaming(omega, i, j) * equ.xs.inv_sigt[m][g]
          + PreCollision(q, i, j) * equ.xs.sigt[m][g]))
SAAFBoundary(face, omega) ==
  LET ndo == FaceNormal(face) * omega
  IN  CellMatrix(LAMBDA i, j :
        IF ndo > 0 THEN ndo * FaceShapeValue(i, face) * FaceShapeValue(j, face) * FaceJacobian
        ELSE 0)
\* What the mirror image of a direction that comes in has carried out.
SAAFBoundaryLinear(equ, stored, cell, face, g, dir) ==
  LET ndo == FaceNormal(face) * equ.omega[dir]
      mirror == equ.reflected[<<equ.side[face], dir>>]
  IN  CellVector(LAMBDA i :
        IF ndo < 0 /\ Reflects(equ, face)
        THEN -ndo * FaceShapeValue(i, face) * FaceJacobian
               * AtFace(equ, stored[GetCompInd(equ, g, mirror)], cell, face)
        ELSE 0)
\* Both source terms; the second one divides by the total cross section.
SAAFSource(equ, omega, source, over_total) ==
  CellVector(LAMBDA i : Integral(LAMBDA q :
    ShapeValue(i, q) * source[q] + omega * ShapeGradient(i) * over_total[q]))
SAAFScattering(equ, moments, cell, g, omega) ==
  LET m == equ.material[cell]
      source == [q \in Points |-> Transferred(equ, moments, cell, q,
                                   [h \in Groups(equ) |-> equ.xs.sigs[m][h][g]])]
  IN  SAAFSource(equ, omega, source, [q \in Points |-> source[q] * equ.xs.inv_sigt[m][g]])
\* The fission source of the groups so far is added to the second term anew in
\* every group: those of low groups are there several times.
SAAFFixed(equ, moments, cell, g, omega) ==
  LET inv == equ.xs.inv_sigt[equ.material[cell]][g]
      so_far(q, h) == equ.scale * Transferred(equ, moments, cell, q,
                        [n \in 0..h |-> FissionTransfer(equ, cell, g, n)])
      source == [q \in Points |-> FixedSource(equ, moments, cell, g, q)]
      over_total ==
        [q \in Points |-> IF equ.eigen /\ equ.xs.fissile[equ.material[cell]]
                          THEN inv * SumFunction([h \in Groups(equ) |-> so_far(q, h)])
                          ELSE inv * source[q]]
  IN  SAAFSource(equ, omega, source, over_total)

(***************************************************************************)
(* What EquationBase assembles from them.                                  *)
(***************************************************************************)
VolumeTerm(equ, cell, g, dir) ==
  CASE equ.model = "diffusion" -> DiffusionCell(equ, cell, g)
    [] equ.model = "ep" -> EvenParityCell(equ, cell, g, equ.omega[dir])
    [] equ.model = "saaf" -> SAAFCell(equ, cell, g, equ.omega[dir])
BoundaryTerm(equ, cell, face, g, dir) ==
  CASE equ.model = "diffusion" -> DiffusionBoundary(equ, face)
    [] equ.model = "ep" -> EvenParityBoundary(equ, cell, face, g, equ.omega[dir])
    [] equ.model = "saaf" -> SAAFBoundary(face, equ.omega[dir])
\* The entry of a local matrix at two degrees of freedom; none of other cells.
Entry(equ, local, row_cell, column_cell, row, column) ==
  LET ij == <<row - Dof(equ, row_cell, 0), column - Dof(equ, column_cell, 0)>>
  IN  IF ij \in DOMAIN local THEN local[ij] ELSE 0
AssembleVolumeBoundaryBilinearForms(equ, g, dir) ==
  LET volume == [cell \in Cells(equ) |-> VolumeTerm(equ, cell, g, dir)]
      boundary == [f \in {cf \in Cells(equ) \X Faces : AtOuterFace(equ, cf[1], cf[2])} |->
                     BoundaryTerm(equ, f[1], f[2], g, dir)]
  IN  [rc \in Dofs(equ) \X Dofs(equ) |->
         SumFunction([cell \in Cells(equ) |-> Entry(equ, volume[cell], cell, cell, rc[1], rc[2])])
           + SumFunction([f \in DOMAIN boundary |->
                            Entry(equ, boundary[f], f[1], f[1], rc[1], rc[2])])]
\* Only even parity has interface terms.
AssembleInterfaceBilinearForms(equ, g, dir) ==
  LET cells == IF equ.dfem /\ equ.model = "ep"
               THEN {cell \in Cells(equ) : ~AtOuterFace(equ, cell, 0)} ELSE {}
      blocks == cells \X {"own", "neigh"} \X {"own", "neigh"}
      of(cell, side) == IF side = "own" THEN cell ELSE cell - 1
      term == [b \in blocks |-> EvenParityInterface(equ, b[1], g, equ.omega[dir], b[2], b[3])]
      entry(b, rc) == Entry(equ, term[b], of(b[1], b[2]), of(b[1], b[3]), rc[1], rc[2])
  IN  [rc \in Dofs(equ) \X Dofs(equ) |->
         SumFunction([cell \in cells |->
           entry(<<cell, "own", "own">>, rc) + entry(<<cell, "own", "neigh">>, rc)
             + entry(<<cell, "neigh", "own">>, rc) + entry(<<cell, "neigh", "neigh">>, rc)])]
AssembleBilinearForms(equ) ==
  [k \in Components(equ) |->
     LET g == GetCompGrpInd(equ, k)
         dir == GetCompDirInd(equ, k)
         inner == AssembleVolumeBoundaryBilinearForms(equ, g, dir)
         interface == AssembleInterfaceBilinearForms(equ, g, dir)
     IN  [rc \in Dofs(equ) \X Dofs(equ) |-> inner[rc] + interface[rc]]]

FixedTerm(equ, moments, cell, g, dir) ==
  CASE equ.model = "diffusion" -> DiffusionFixed(equ, moments, cell, g)
    [] equ.model = "ep" -> EvenParityFixed(equ, moments, cell, g)
    [] equ.model = "saaf" -> SAAFFixed(equ, moments, cell, g, equ.omega[dir])
ScatteringTerm(equ, moments, cell, g, dir) ==
  CASE equ.model = "diffusion" -> DiffusionScattering(equ, moments, cell, g)
    [] equ.model = "ep" -> EvenParityScattering(equ, moments, cell, g)
    [] equ.model = "saaf" -> SAAFScattering(equ, moments, cell, g, equ.omega[dir])
VectorEntry(equ, local, cell, row) ==
  LET i == <<row - Dof(equ, cell, 0)>> IN IF i \in DOMAIN local THEN local[i] ELSE 0
AssembleFixedLinearForms(equ, moments) ==
  [k \in Components(equ) |->
     LET term == [cell \in Cells(equ) |->
                    FixedTerm(equ, moments, cell, GetCompGrpInd(equ, k), GetCompDirInd(equ, k))]
     IN  [d \in Dofs(equ) |->
            SumFunction([cell \in Cells(equ) |-> VectorEntry(equ, term[cell], cell, d)])]]
\* stored are the angular fluxes SAAF keeps for its reflective boundaries.
AssembleLinearForms(equ, fixed, moments, stored, k) ==
  LET g == GetCompGrpInd(equ, k)
      dir == GetCompDirInd(equ, k)
      scattering == [cell \in Cells(equ) |-> ScatteringTerm(equ, moments, cell, g, dir)]
      faces == IF equ.model = "saaf" /\ equ.reflective # <<>>
               THEN {cf \in Cells(equ) \X Faces : AtOuterFace(equ, cf[1], cf[2])} ELSE {}
      boundary == [f \in faces |-> SAAFBoundaryLinear(equ, stored, f[1], f[2], g, dir)]
  IN  [d \in Dofs(equ) |->
         fixed[k][d]
           + SumFunction([cell \in Cells(equ) |-> VectorEntry(equ, scattering[cell], cell, d)])
           + SumFunction([f \in faces |-> VectorEntry(equ, boundary[f], f[1], d)])]

\* The moment of any group is made of the first fluxes: with one group, its own.
GenerateMoments(equ, fluxes) ==
  IF equ.model = "diffusion" THEN fluxes[0]
  ELSE [d \in Dofs(equ) |->
          SumFunction([i \in 1..n_dir(equ) |-> equ.w[i] * fluxes[i - 1][d]])]
EstimateFissSrc(equ, moments) ==
  LET fissile == {cell \in Cells(equ) : equ.xs.fissile[equ.material[cell]]}
  IN  MapThenSumSet(LAMBDA cg : Integral(LAMBDA q :
        equ.xs.nu_sigf[equ.material[cg[1]]][cg[2]] * At(equ, moments[cg[2]], cg[1], q)),
        fissile \X Groups(equ))
=============================================================================
