------------------------------ MODULE LegacyMesh ------------------------------
(***************************************************************************)
(* The mesh of the legacy program: a box of equal cells, or one of square  *)
(* pins, each a rod in its moderator or four plain squares, with the       *)
(* material of every cell, the id of every boundary face and, for rods,    *)
(* the cells whose refinement follows the surface of the rod.              *)
(*                                                                         *)
(* A cell is the tuple of its vertices in lexicographic order, a vertex a  *)
(* tuple of integers.  The octagon a rod is drawn with has its diagonal    *)
(* points at five sevenths of the radius, for one over the root of two.    *)
(***************************************************************************)
EXTENDS Integers, Sequences, SequencesExt

Done(value) == [error |-> "none", value |-> value]
Throw(error) == [error |-> error, value |-> <<>>]

(***************************************************************************)
(* What the constructor reads.                                             *)
(***************************************************************************)
ProcessCoordinateInformation(dim, prm) ==
  CASE Len(prm.max_values) < dim -> Throw("number of axis max values")
    [] Len(prm.n_cells) < dim -> Throw("entries for numbers of cells")
    [] OTHER -> Done([max |-> SubSeq(prm.max_values, 1, dim),
                      n |-> SubSeq(prm.n_cells, 1, dim),
                      size |-> [d \in 1..dim |-> prm.max_values[d] \div prm.n_cells[d]]])

\* A file of ids: one line per y and z, y fastest.  One that cannot be opened
\* leaves the map empty.
ReadIDs(dim, n, file) ==
  LET rows == file.rows
      n_y == IF dim >= 2 THEN n[2] ELSE 1
      n_z == IF dim = 3 THEN n[3] ELSE 1
      place(line, x) == SubSeq(<<x, line % n_y, line \div n_y>>, 1, dim)
      places == {place(line, x) : line \in 0..Len(rows) - 1, x \in 0..n[1] - 1}
      line_of(p) == IF dim = 1 THEN 0 ELSE p[2] + (IF dim = 3 THEN p[3] * n_y ELSE 0)
  IN  CASE ~file.opens -> Done(<<>>)
        [] \E row \in Range(rows) : Len(row) # n[1] -> Throw("entries per row")
        [] Len(rows) # n_y * n_z -> Throw("number of y, z ID entries")
        [] OTHER -> Done([p \in places |-> rows[line_of(p) + 1][p[1] + 1]])
InitializeRelativePositionToIDMap(dim, n, prm) ==
  LET id == ReadIDs(dim, n, prm.id_file)
      fuel == IF prm.pin_resolved THEN ReadIDs(dim, n, prm.fuel_file) ELSE Done(<<>>)
  IN  CASE id.error # "none" -> id
        [] fuel.error # "none" -> fuel
        [] OTHER -> Done([id |-> id.value, fuel |-> fuel.value])
\* What operator[] of a map makes of a place it does not have.
At(ids, place) == IF place \in DOMAIN ids THEN ids[place] ELSE 0

BoundaryNames == <<"xmin", "xmax", "ymin", "ymax", "zmin", "zmax">>
PreprocessReflectiveBC(dim, prm) ==
  LET sides == {side \in 0..5 : BoundaryNames[side + 1] \in prm.reflective_names}
  IN  IF ~prm.have_reflective THEN Done(<<>>)
      ELSE IF prm.reflective_names = {} THEN Throw("no reflective boundary names")
      ELSE IF ~(prm.reflective_names \subseteq Range(BoundaryNames))
        THEN Throw("invalid reflective boundary name")
      ELSE IF \A side \in sides : side >= 2 * dim
        THEN Throw("no valid reflective boundary name")
      ELSE Done([side \in 0..2 * dim - 1 |-> side \in sides])

MeshGenerator(dim, prm) ==
  LET grid == ProcessCoordinateInformation(dim, prm)
      ids == InitializeRelativePositionToIDMap(dim, grid.value.n, prm)
      reflective == PreprocessReflectiveBC(dim, prm)
  IN  CASE ~prm.generated -> Done([prm |-> prm, reflective |-> <<>>])
        [] grid.error # "none" -> grid
        [] ids.error # "none" -> ids
        [] reflective.error # "none" -> reflective
        [] OTHER -> Done([prm |-> prm, grid |-> grid.value, ids |-> ids.value,
                          reflective |-> reflective.value])

(***************************************************************************)
(* Cells and faces.                                                        *)
(***************************************************************************)
Bit(i, d) == (i \div 2^(d - 1)) % 2
Plus(p, q) == [d \in DOMAIN p |-> p[d] + q[d]]
Shift(cells, by) == {[i \in DOMAIN cell |-> Plus(cell[i], by)] : cell \in cells}
\* Eight times the center of some vertices.
Center(vertices) ==
  [d \in DOMAIN vertices[1] |->
     FoldLeft(LAMBDA sum, v : sum + v[d], 0, vertices) * (8 \div Len(vertices))]
Faces(dim) == 0..2 * dim - 1
Face(cell, fn) ==
  LET at == SetToSortSeq({i \in DOMAIN cell : Bit(i - 1, fn \div 2 + 1) = fn % 2}, <)
  IN  [k \in DOMAIN at |-> cell[at[k]]]
AtBoundary(cells, cell, fn) ==
  \A other \in cells \ {cell} : ~(Range(Face(cell, fn)) \subseteq Range(other))
Box(low, high) == [i \in 1..2^Len(low) |->
                     [d \in DOMAIN low |-> IF Bit(i - 1, d) = 0 THEN low[d] ELSE high[d]]]

(***************************************************************************)
(* Pins.                                                                   *)
(***************************************************************************)
Diagonal(r) == (5 * r) \div 7
Ring(r, a) == << <<r, 0>>, <<a, a>>, <<0, r>>, <<-a, a>>, <<-r, 0>>, <<-a, -a>>,
                 <<0, -r>>, <<a, -a>> >>
\* The cells between two rings of eight points.
Shell(inner, outer) ==
  {LET j == (i % 8) + 1 IN <<inner[i], inner[j], outer[i], outer[j]>> : i \in 1..8}
FuelRod2D(prm) ==
  LET r == IF prm.rod_type = "simple" THEN prm.rod_radius ELSE (6 * prm.rod_radius) \div 10
      a == Diagonal(r)
      v(x, y) == <<x, y>>
      disc == {<<v(-a, a), v(0, 0), v(0, r), v(a, a)>>, <<v(0, 0), v(a, -a), v(a, a), v(r, 0)>>,
               <<v(-a, -a), v(0, -r), v(0, 0), v(a, -a)>>, <<v(-r, 0), v(-a, -a), v(-a, a), v(0, 0)>>}
  IN  IF prm.rod_type = "composite"
      THEN disc \cup Shell(Ring(r, a), Ring(prm.rod_radius, Diagonal(prm.rod_radius)))
      ELSE disc
FuelPin2DGrid(prm, size, center) ==
  LET R == prm.rod_radius
      half == size[1] \div 2
  IN  Shift(FuelRod2D(prm) \cup Shell(Ring(R, Diagonal(R)), Ring(half, half)), center)
NonFuelPin2DGrid(size, center) ==
  LET r == size[1] \div 2
  IN  Shift({Box(<<-r, 0>>, <<0, r>>), Box(<<0, 0>>, <<r, r>>),
             Box(<<-r, -r>>, <<0, 0>>), Box(<<0, -r>>, <<r, 0>>)}, center)

\* The pins of a plane: those of fuel are in the set.
Pins(prm, grid, fuel_pins) ==
  LET length == grid.size[1]
      center == <<length \div 2, length \div 2>>
      places == (0..grid.n[1] - 1) \X (0..grid.n[2] - 1)
      pin(p) == IF p \in fuel_pins THEN FuelPin2DGrid(prm, grid.size, center)
                ELSE NonFuelPin2DGrid(grid.size, center)
  IN  UNION {Shift(pin(p), <<p[1] * length, p[2] * length>>) : p \in places}
UnstructGrid2(mesh) ==
  Pins(mesh.prm, mesh.grid, {p \in (0..mesh.grid.n[1] - 1) \X (0..mesh.grid.n[2] - 1) :
                               At(mesh.ids.fuel, p) >= 0})
\* In space a pin is of fuel when it is at any height; the plane is extruded.
CurvedBlocks(mesh) ==
  {p \in (0..mesh.grid.n[1] - 1) \X (0..mesh.grid.n[2] - 1) :
     \E z \in 0..mesh.grid.n[3] - 1 : At(mesh.ids.fuel, Append(p, z)) >= 0}
Extrude(cells, n_z, size) ==
  {[i \in 1..8 |-> Append(cell[((i - 1) % 4) + 1], (z + Bit(i - 1, 3)) * size)] :
     cell \in cells, z \in 0..n_z - 1}
UnstructGrid3(mesh) ==
  Extrude(Pins(mesh.prm, mesh.grid, CurvedBlocks(mesh)), mesh.grid.n[3],
          mesh.grid.max[3] \div mesh.grid.n[3])

SubdividedHyperRectangle(grid) ==
  {Box([d \in DOMAIN p |-> p[d] * grid.size[d]], [d \in DOMAIN p |-> (p[d] + 1) * grid.size[d]]) :
     p \in {q \in [DOMAIN grid.n -> 0..Max(Range(grid.n)) - 1] :
              \A d \in DOMAIN q : q[d] < grid.n[d]}}
GenerateInitialGrid(dim, mesh) ==
  CASE ~mesh.prm.pin_resolved -> Done(SubdividedHyperRectangle(mesh.grid))
    [] dim = 1 -> Throw("unstructured mesh is only valid for multi-D")
    [] dim = 2 -> Done(UnstructGrid2(mesh))
    [] dim = 3 -> Done(UnstructGrid3(mesh))

(***************************************************************************)
(* Materials, boundary ids and manifolds.                                  *)
(***************************************************************************)
GetCellRelativePosition(grid, center) ==
  [d \in DOMAIN center |-> center[d] \div (8 * grid.size[d])]
\* Eight times the distance from the axis of the pin, squared.
PinDistance(grid, place, center) ==
  LET off(d) == center[d] - (8 * place[d] + 4) * grid.size[d]
  IN  off(1) * off(1) + off(2) * off(2)
\* Mutant: the axis of a pin is taken at its corner.
CornerInRod(mesh, place, center) ==
  LET off(d) == center[d] - 8 * place[d] * mesh.grid.size[d]
  IN  off(1) * off(1) + off(2) * off(2) < 64 * mesh.prm.rod_radius * mesh.prm.rod_radius
InRod(mesh, place, center) ==
  PinDistance(mesh.grid, place, center) < 64 * mesh.prm.rod_radius * mesh.prm.rod_radius

CellMaterial(mesh, cell) ==
  LET center == Center(cell)
      place == GetCellRelativePosition(mesh.grid, center)
      material == At(mesh.ids.id, place)
      fuel == At(mesh.ids.fuel, place)
  IN  CASE ~mesh.prm.pin_resolved \/ fuel < 0 -> Done(material)
        [] fuel = material -> Throw("fuel rod must have different id than moderator")
        [] OTHER -> Done(IF InRod(mesh, place, center) THEN fuel ELSE material)
InitializeMaterialID(mesh, cells) ==
  LET of == [cell \in cells |-> CellMaterial(mesh, cell)]
  IN  IF \E cell \in cells : of[cell].error # "none"
      THEN of[CHOOSE cell \in cells : of[cell].error # "none"]
      ELSE Done([cell \in cells |-> of[cell].value])

\* A later axis overrides an earlier one; a face of no side keeps the default.
SideOf(grid, face) ==
  LET center == Center(face)
      low == {2 * (d - 1) : d \in {e \in DOMAIN center : center[e] = 0}}
      high == {2 * d - 1 : d \in {e \in DOMAIN center : center[e] = 8 * grid.max[e]}}
  IN  Max({0} \cup low \cup high)
SetupBoundaryIDs(dim, grid, cells) ==
  [f \in {g \in cells \X Faces(dim) : AtBoundary(cells, g[1], g[2])} |->
     SideOf(grid, Face(f[1], f[2]))]

ManifoldID(grid, place) == 10 + place[1] + place[2] * grid.n[1]
\* In the plane: the cells of a rod with a vertex on its surface, in space every
\* cell of a rod that is no parallelogram.
OnSurface(mesh, place, vertex) ==
  LET center == [d \in 1..2 |-> place[d] * mesh.grid.size[d] + mesh.grid.size[d] \div 2]
      R == mesh.prm.rod_radius
  IN  <<vertex[1] - center[1], vertex[2] - center[2]>> \in Range(Ring(R, Diagonal(R)))
SetManifolds2(mesh, cells) ==
  LET place(cell) == GetCellRelativePosition(mesh.grid, Center(cell))
      curved == {cell \in cells : /\ At(mesh.ids.fuel, place(cell)) >= 0
                                  /\ InRod(mesh, place(cell), Center(cell))
                                  /\ \E v \in Range(cell) : OnSurface(mesh, place(cell), v)}
  IN  [cell \in curved |-> ManifoldID(mesh.grid, place(cell))]
SetManifolds3(mesh, cells) ==
  LET place(cell) == GetCellRelativePosition(mesh.grid, Center(cell))
      curved == {cell \in cells : /\ Plus(cell[1], cell[4]) # Plus(cell[2], cell[3])
                                  /\ InRod(mesh, place(cell), Center(cell))}
  IN  [cell \in curved |-> ManifoldID(mesh.grid, place(cell))]

\* The manifolds last for the refinement only, which asks for each of them.
Manifolds(mesh) ==
  {ManifoldID(mesh.grid, p) :
     p \in IF Len(mesh.grid.n) = 3 THEN CurvedBlocks(mesh)
           ELSE {q \in (0..mesh.grid.n[1] - 1) \X (0..mesh.grid.n[2] - 1) :
                   At(mesh.ids.fuel, q) >= 0}}
GlobalRefine(dim, mesh, cells) ==
  [times |-> mesh.prm.refinements,
   declared |-> IF dim = 1 \/ ~mesh.prm.pin_resolved THEN {} ELSE Manifolds(mesh),
   manifold |-> IF dim = 1 \/ ~mesh.prm.pin_resolved THEN <<>>
                ELSE IF dim = 2 THEN SetManifolds2(mesh, cells)
                ELSE SetManifolds3(mesh, cells)]
NotRefined == [times |-> 0, declared |-> {}, manifold |-> <<>>]

MakeGrid(dim, mesh) ==
  LET initial == GenerateInitialGrid(dim, mesh)
      cells == initial.value
      material == InitializeMaterialID(mesh, cells)
  IN  CASE ~mesh.prm.generated -> Done([filename |-> mesh.prm.filename])
        [] initial.error # "none" -> initial
        [] material.error # "none" -> material
        [] OTHER -> Done([cells |-> cells, material |-> material.value,
                          boundary |-> SetupBoundaryIDs(dim, mesh.grid, cells),
                          refined |-> IF mesh.prm.refinements > 0
                                      THEN GlobalRefine(dim, mesh, cells) ELSE NotRefined])
=============================================================================
