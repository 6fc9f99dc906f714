---------------------------- MODULE CartesianMesh ----------------------------
(***************************************************************************)
(* The Cartesian mesh and the domain over it: cells, the faces on the      *)
(* boundary, the material map and what the cells get from it, refinement,  *)
(* the local cells and the system matrices and vectors of a process.       *)
(*                                                                         *)
(* A cell is the tuple of its indices, one per direction, counted from     *)
(* zero; centers are kept exact as odd multiples of half a cell.  All      *)
(* lengths are taken along the direction, so that spatial_max cancels.     *)
(***************************************************************************)
EXTENDS Integers, Sequences, SequencesExt

Lasts == <<"XMax", "YMax", "ZMax">>
Firsts == <<"XMin", "YMin", "ZMin">>

MeshError(dim, spatial_max, n_cells) ==
  CASE Len(spatial_max) # dim -> "incorrect spatial vector size"
    [] Len(n_cells) # dim -> "incorrect number of cells vector size"
    [] \E i \in DOMAIN spatial_max : spatial_max[i] = 0 -> "spatial max has 0 entry"
    [] \E i \in DOMAIN n_cells : n_cells[i] <= 0 -> "n_cells values must be positive"
    [] OTHER -> "none"

\* FillTriangulation: every tuple of indices is a cell.
Grid(n_cells) == {cell \in [DOMAIN n_cells -> 0..Max(Range(n_cells)) - 1] :
                    \A i \in DOMAIN n_cells : cell[i] < n_cells[i]}

(***************************************************************************)
(* The material map is text: blocks of lines of numbers, the first block   *)
(* the highest in z and the first line of a block the highest in y.        *)
(* ParseMaterialMap turns blocks and lines round and keys every number by  *)
(* its place; the extents are those of the line and the block it read last.*)
(***************************************************************************)
PlacesOf(text) ==
  {<<k, j, i>> : k \in DOMAIN text, j \in 1..Max({Len(b) : b \in Range(text)}),
                 i \in 1..Max({Len(l) : l \in UNION {Range(b) : b \in Range(text)}})}
MaterialMapping(dim, text) ==
  LET blocks == Reverse([k \in DOMAIN text |-> Reverse(text[k])])
      written == {p \in PlacesOf(text) :
                    p[2] \in DOMAIN blocks[p[1]] /\ p[3] \in DOMAIN blocks[p[1]][p[2]]}
      \* a map of fewer directions is overwritten by later lines and blocks
      at(p) == SubSeq(<<p[3] - 1, p[2] - 1, p[1] - 1>>, 1, dim)
      later(p, q) == p[1] > q[1] \/ (p[1] = q[1] /\ p[2] > q[2])
  IN  [place \in {at(p) : p \in written} |->
         LET same == {p \in written : at(p) = place}
             last == CHOOSE p \in same : \A q \in same \ {p} : later(p, q)
         IN  blocks[last[1]][last[2]][last[3]]]
MaterialCells(dim, text) ==
  LET last == Head(text)
  IN  SubSeq(<<Len(Head(last)), Len(last), Len(text)>>, 1, dim)
ParseMaterialMap(dim, text) ==
  [mapping |-> MaterialMapping(dim, text), n_material_cells |-> MaterialCells(dim, text)]

\* The material of a point given as a fraction of the domain in each direction;
\* a point between two materials belongs to the lower one, and a place the map
\* does not have gets the default of the container.
\* Mutant: a point between two materials belongs to the upper one.
UpperIndex(fraction, n_material_cells) == (fraction[1] * n_material_cells) \div fraction[2]
RelativeIndex(fraction, n_material_cells) ==
  LET place == fraction[1] * n_material_cells
      index == place \div fraction[2]
  IN  IF index * fraction[2] = place /\ index # 0 THEN index - 1 ELSE index
GetMaterialID(map, location) ==
  LET place == [i \in DOMAIN location |->
                  RelativeIndex(location[i], map.n_material_cells[i])]
  IN  IF place \in DOMAIN map.mapping THEN map.mapping[place] ELSE 0
Center(cell, n_cells) == [i \in DOMAIN cell |-> <<2 * cell[i] + 1, 2 * n_cells[i]>>]
\* A process has every coarse cell, and sets the material of those it owns.
FillMaterialID(map, n_cells, owned) ==
  [cell \in Grid(n_cells) |->
     IF cell \in owned THEN GetMaterialID(map, Center(cell, n_cells)) ELSE 0]

(***************************************************************************)
(* Faces.  A face is a cell, a direction and a side; on the boundary its   *)
(* center has the coordinate 0 or spatial_max of its direction.  The       *)
(* directions are tried from the last to the first.                        *)
(***************************************************************************)
Faces(cells) == {[cell |-> c, axis |-> a, side |-> s] :
                   c \in cells, a \in UNION {DOMAIN d : d \in cells}, s \in {0, 1}}
AtBoundary(face, n_cells) ==
  face.cell[face.axis] = IF face.side = 0 THEN 0 ELSE n_cells[face.axis] - 1
\* the coordinate of the center of a face, in half cells
\* Mutant: the first vertex of the face is taken for its center.
FaceVertex(face, i) == 2 * (face.cell[i] + IF i = face.axis THEN face.side ELSE 0)
FaceCenter(face, i) == IF i = face.axis THEN 2 * (face.cell[i] + face.side)
                       ELSE 2 * face.cell[i] + 1
BoundaryID(face, n_cells) ==
  LET onEdge == {i \in DOMAIN n_cells : FaceCenter(face, i) \in {0, 2 * n_cells[i]}}
  IN  IF FaceCenter(face, Max(onEdge)) = 0 THEN Firsts[Max(onEdge)] ELSE Lasts[Max(onEdge)]
OuterFaces(cells, n_cells) == {f \in Faces(cells) : AtBoundary(f, n_cells)}
\* The id of a face nobody set is 0.
FillBoundaryID(n_cells, owned) ==
  [f \in OuterFaces(Grid(n_cells), n_cells) |->
     IF f.cell \in owned THEN BoundaryID(f, n_cells) ELSE "XMin"]
\* The faces no side is found for, when rounding puts the far end of the
\* directions in `near`, and of no other, within zero_tol of spatial_max.
Undetermined(n_cells, owned, near) ==
  {f \in OuterFaces(owned, n_cells) : \A i \in DOMAIN n_cells :
     FaceCenter(f, i) # 0 /\ (i \in near => FaceCenter(f, i) # 2 * n_cells[i])}

(***************************************************************************)
(* Domain.  The mesh is filled, then the faces and the materials are set,  *)
(* and refinement comes last: the halves of a cell inherit from it, in     *)
(* every process.  After it, in two and three dimensions, the cells are    *)
(* shared among the processes anew, so that a process may own cells whose  *)
(* coarse cell it never set anything on.                                   *)
(***************************************************************************)
\* deal.II's partition of a mesh: the cells of the only process, or of the
\* first or the second of two.  A line belongs to every process.
Share(process, cells, n_cells) ==
  {c \in cells : \/ process = "only" \/ Len(n_cells) = 1
                 \/ (process = "first") = (c[1] < n_cells[1] \div 2)}
Parent(cell) == [i \in DOMAIN cell |-> cell[i] \div 2]
ParentFace(face) == [face EXCEPT !.cell = Parent(@)]
\* deal.II's refine_global, for one refinement.
Refined(mesh) ==
  LET n_cells == [i \in DOMAIN mesh.n_cells |-> 2 * mesh.n_cells[i]]
      cells == {c \in Grid(n_cells) : Parent(c) \in DOMAIN mesh.materials}
  IN  [n_cells |-> n_cells,
       materials |-> [c \in cells |-> mesh.materials[Parent(c)]],
       boundaries |-> [f \in OuterFaces(cells, n_cells) |-> mesh.boundaries[ParentFace(f)]]]
SetUpMesh(map, n_cells, process, refinements) ==
  LET owned == Share(process, Grid(n_cells), n_cells)
      coarse == [n_cells |-> n_cells,
                 materials |-> FillMaterialID(map, n_cells, owned),
                 boundaries |-> FillBoundaryID(n_cells, owned)]
      refined[r \in 0..refinements] == IF r = 0 THEN coarse ELSE Refined(refined[r - 1])
  IN  refined[refinements]
HasMaterialMapping(map) == DOMAIN map.mapping # {}

\* The cells that are locally owned.
OwnCells(process, mesh) == Share(process, DOMAIN mesh.materials, mesh.n_cells)
\* SetUpDOF appends to the local cells and keeps what was there.
SetUpDOF(local_cells, process, mesh) ==
  FoldSet(LAMBDA cell, cells : Append(cells, cell), local_cells, OwnCells(process, mesh))
=============================================================================
