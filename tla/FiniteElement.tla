---------------------------- MODULE FiniteElement ----------------------------
(***************************************************************************)
(* The finite element of one process on a line of equal cells: continuous, *)
(* of degree one, with two quadrature points per cell, at the quarters.    *)
(*                                                                         *)
(* Shape values, gradients and the values of a vector at a quadrature      *)
(* point are counted in quarters, Jacobians in halves, so that all of them *)
(* are integers.  Cell c has the degrees of freedom c and c + 1, and face  *)
(* f of a cell (0 left, 1 right) is the point of its degree of freedom f.  *)
(*                                                                         *)
(* The object holds the cell and the face it was set to last, separately:  *)
(* what it returns is about those, whatever cell its caller works on.      *)
(***************************************************************************)
EXTENDS Integers, Sequences, SequencesExt

Local == 0..1
Points == 0..1
Faces == 0..1

ShapeValue(i, q) == IF i = q THEN 3 ELSE 1
ShapeGradient(i) == IF i = 0 THEN -4 ELSE 4
Jacobian == 1
FaceShapeValue(i, face) == IF i = face THEN 4 ELSE 0
FaceJacobian == 2
FaceNormal(face) == IF face = 0 THEN -1 ELSE 1

\* values_ and face_values_: the cell, and the cell and face, they are of.
NewFiniteElement == [cell |-> <<>>, face |-> <<>>]
SetCell(fe, cell) == IF fe.cell = <<cell>> THEN fe ELSE [fe EXCEPT !.cell = <<cell>>]
SetFace(fe, cell, face) ==
  IF fe.face = <<cell, face>> THEN fe ELSE [fe EXCEPT !.face = <<cell, face>>]

DofIndex(cell, i) == cell + i
ValueAtQuadrature(fe, vector) ==
  [q \in Points |-> ShapeValue(0, q) * vector[DofIndex(fe.cell[1], 0)]
                      + ShapeValue(1, q) * vector[DofIndex(fe.cell[1], 1)]]
ValueAtFaceQuadrature(fe, vector) ==
  FaceShapeValue(0, fe.face[2]) * vector[DofIndex(fe.face[1], 0)]
    + FaceShapeValue(1, fe.face[2]) * vector[DofIndex(fe.face[1], 1)]

\* The quadrature of a cell.
Integral(value(_)) == Jacobian * value(0) + Jacobian * value(1)

\* Cell matrices and vectors: functions of tuples of local degrees of freedom.
CellMatrix(entry(_,_)) == [ij \in Local \X Local |-> entry(ij[1], ij[2])]
CellVector(entry(_)) == [i \in {<<j>> : j \in Local} |-> entry(i[1])]

\* What a filled cell matrix or vector is: it, and the finite element after.
OnCell(fe, cell, fill(_)) ==
  LET set == SetCell(fe, cell) IN [fe |-> set, local |-> fill(set)]
OnFace(fe, cell, face, fill(_)) ==
  LET set == SetFace(fe, cell, face) IN [fe |-> set, local |-> fill(set)]
Untouched(fe) == [fe |-> fe, local |-> <<>>]
=============================================================================
