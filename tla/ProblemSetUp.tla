---------------------------- MODULE ProblemSetUp ----------------------------
(***************************************************************************)
(* From the input file to the system a framework solves: main reads the    *)
(* file, ToFrameworkParameters makes the parameters and the cross sections, *)
(* and BuildFramework makes the mesh, the quadrature set, the solutions and *)
(* the system.  Every step may throw, and then the program ends.  What     *)
(* BuildFramework builds from these parts is module FrameworkBuild.        *)
(*                                                                         *)
(* Once the framework runs, the updater of the boundary terms asks the     *)
(* quadrature set for mirror images, in whatever order the faces come.     *)
(***************************************************************************)
EXTENDS Integers, Sequences, SequencesExt

CONSTANTS InputFiles,     \* the files main may be given
          MaterialFiles,  \* what is found under the name of a material file
          MapFiles,       \* what is found under the name of a material map
          Scalings,       \* spectral shapes of a material
          LookUpBound,    \* how many mirror images are remembered
          ChiUnit

INSTANCE InputParameters
INSTANCE Materials
Mesh == INSTANCE CartesianMesh
Quad == INSTANCE Quadrature
Sys == INSTANCE SystemSetUp

\* What can be read from a material file.
MaterialProperty == [id : STRING, values : Seq(Int)]
ReadMaterial ==
  [number_of_groups : Nat, is_fissionable : BOOLEAN,
   vectors : Seq(MaterialProperty), matrices : Seq(MaterialProperty)]

ASSUME SetUpAssumption ==
  /\ \A name \in DOMAIN MaterialFiles : MaterialFiles[name].material \in ReadMaterial
  \* A file that is not there is one whose status is "missing".
  /\ \A file \in InputFiles :
       LET names == Parse(Entries(file)).material_files
       IN  \A id \in DOMAIN names : names[id] \in DOMAIN MaterialFiles
  \* The patterns of these entries are integers, and a list of integers.
  /\ \A file \in InputFiles : \A entry \in {"n_groups", "angular_order", "refinements"} :
       Entries(file)[entry] \in Int
  /\ \A file \in InputFiles :
       Entries(file).n_cells \in Seq([value : Int, separator : STRING])
  \* A spectral shape has a number per group.
  /\ Scalings \subseteq Seq(Int)
  \* A map is written as blocks of lines of numbers.
  /\ \A name \in DOMAIN MapFiles : MapFiles[name] \in Seq(Seq(Seq(Nat)))

VARIABLES phase, failure,
          input,            \* problem::Parameters
          parameters,       \* framework::FrameworkParameters
          cross_sections, collapsed,
          process,          \* "only", or the first or the second of two
          map, mesh, local_cells,
          quadrature_set, group_solution, angular_solutions, system

core == <<input, parameters, cross_sections, collapsed>>
space == <<process, map, mesh, local_cells>>
solutions == <<quadrature_set, group_solution, angular_solutions, system>>
vars == <<phase, failure, core, space, solutions>>

None == [none |-> TRUE]

Init ==
  /\ phase = "parameters" /\ failure = "none"
  /\ input = None /\ parameters = None /\ cross_sections = None /\ collapsed = None
  /\ process \in {"only", "first", "second"}
  /\ map = None /\ mesh = None /\ local_cells = <<>>
  /\ quadrature_set = None /\ group_solution = None
  /\ angular_solutions = <<>> /\ system = Sys!NewSystem

\* A step of the set-up: it throws `error`, or it ends in the next phase.
Step(from, error, to) ==
  /\ phase = from
  /\ failure' = error
  /\ phase' = IF error = "none" THEN to ELSE "threw"

(***************************************************************************)
(* main: declare the entries, read the file, parse the entries.            *)
(***************************************************************************)
ReadParameters ==
  \E file \in InputFiles :
    LET entries == Entries(file)
        error == IF PatternsMatch(entries) THEN "none" ELSE "value does not match pattern"
    IN  /\ Step("parameters", error, "framework parameters")
        /\ input' = IF error = "none" THEN Parse(entries) ELSE None
        /\ UNCHANGED <<parameters, cross_sections, collapsed, space, solutions>>

(***************************************************************************)
(* ToFrameworkParameters: the material map, then the material files.       *)
(***************************************************************************)
MaterialsOf(file_names) == [id \in DOMAIN file_names |-> MaterialFiles[file_names[id]].material]
InputError(i) ==
  IF i.material_map \notin DOMAIN MapFiles THEN "Failed to open material mapping file"
  ELSE IF ParseMaterials(i.material_files, MaterialFiles) # "none"
       THEN ParseMaterials(i.material_files, MaterialFiles)
  ELSE MaterialError(MaterialsOf(i.material_files), IsEigenvalueSolve(i),
                     i.n_groups, i.n_materials)
MakeParameters ==
  LET error == InputError(input)
  IN  /\ Step("framework parameters", error, "domain")
      /\ IF error = "none"
         THEN /\ parameters' = ToFrameworkParameters(input)
              /\ cross_sections' = PopulateData(MaterialsOf(input.material_files),
                                                IsEigenvalueSolve(input))
         ELSE UNCHANGED <<parameters, cross_sections>>
      /\ UNCHANGED <<input, collapsed, space, solutions>>

(***************************************************************************)
(* BuildDomain and SetUpMesh, on a process that owns some of the cells,    *)
(* then SetUpDOF.  The ids of the faces are looked for before those of the *)
(* cells are set; a face that is on no side throws.                        *)
(***************************************************************************)
FiniteElementError(p) == IF p.polynomial_degree <= 0 THEN "Bad polynomial degree" ELSE "none"
DomainError(p) ==
  IF FiniteElementError(p) # "none" THEN FiniteElementError(p)
  ELSE Mesh!MeshError(input.dimension, p.domain_size, p.number_of_cells)
CoarseCells == Mesh!Share(process, Mesh!Grid(parameters.number_of_cells),
                          parameters.number_of_cells)
MeshSetUpError(near) ==
  IF ~Mesh!HasMaterialMapping(map) THEN "no material mapping"
  ELSE IF Mesh!Undetermined(parameters.number_of_cells, CoarseCells, near) # {}
       THEN "location of a boundary could not be determined"
  ELSE "none"
BuildDomain ==
  LET error == DomainError(parameters)
  IN  /\ Step("domain", error, "mesh")
      /\ map' = IF error # "none" THEN map
                ELSE Mesh!ParseMaterialMap(input.dimension, MapFiles[input.material_map])
      /\ UNCHANGED <<core, process, mesh, local_cells, solutions>>
SetUpDomain ==
  /\ phase = "mesh"
  /\ \E near \in SUBSET DOMAIN parameters.number_of_cells :
       /\ Step("mesh", MeshSetUpError(near), "quadrature")
       /\ IF MeshSetUpError(near) # "none" THEN UNCHANGED <<mesh, local_cells>>
          ELSE /\ mesh' = Mesh!SetUpMesh(map, parameters.number_of_cells, process,
                                         parameters.uniform_refinements)
               /\ local_cells' = Mesh!SetUpDOF(local_cells, process, mesh')
  /\ UNCHANGED <<core, process, map, solutions>>

(***************************************************************************)
(* BuildQuadratureSet, for an equation with angles; then the number of     *)
(* angles and the stored angular solutions.                                *)
(***************************************************************************)
HasAngles(p) == p.equation_type = "saaf"
NeedStorage(p) == p.use_nda_ \/ (p.reflective_boundaries # {} /\ HasAngles(p))
QuadratureError(p) ==
  IF p.use_nda_ /\ ~HasAngles(p) THEN "NDA requires angular solve"
  ELSE IF HasAngles(p)
       THEN Quad!GeneratorError(input.dimension, p.angular_quadrature_type,
                                p.angular_quadrature_order)
  ELSE "none"
MakeQuadratureSet(p) ==
  Quad!FillQuadratureSet(Quad!GenerateAllPositiveX(
    Quad!GenerateSet(p.angular_quadrature_type, p.angular_quadrature_order)))
Angles(set) == IF set = None THEN 1 ELSE Quad!SetSize(set)
BuildQuadrature ==
  LET error == QuadratureError(parameters)
  IN  /\ Step("quadrature", error, "solutions")
      /\ quadrature_set' = IF error = "none" /\ HasAngles(parameters)
                           THEN MakeQuadratureSet(parameters) ELSE None
      /\ angular_solutions' =
           IF error = "none" /\ NeedStorage(parameters)
           THEN Sys!SetUpEnergyGroupToAngularSolutionPtrMap(
                  parameters.neutron_energy_groups, Angles(quadrature_set'))
           ELSE angular_solutions
      /\ UNCHANGED <<core, space, group_solution, system>>

\* BuildGroupSolution, with ones on every angle.
BuildSolutions ==
  LET solution == Sys!MPIGroupAngularSolution(Angles(quadrature_set))
      error == IF Sys!AngularSolutionError(solution) THEN "size of the solution map" ELSE "none"
  IN  /\ Step("solutions", error, "system")
      /\ group_solution' = Sys!SetUpMPIAngularSolution(solution, 1)
      /\ UNCHANGED <<core, space, quadrature_set, angular_solutions, system>>

\* BuildSystem.
BuildSystem ==
  LET initialized == Sys!InitializeSystem(system, parameters.neutron_energy_groups,
                                          Angles(quadrature_set), parameters.is_eigenvalue,
                                          NeedStorage(parameters))
  IN  /\ Step("system",
              IF Sys!IsInitialized(system) THEN "already initialized" ELSE "none", "collapse")
      /\ system' = Sys!SetUpSystemMoments(Sys!SetUpSystemTerms(initialized),
                                          Len(local_cells))
      /\ UNCHANGED <<core, space, quadrature_set, group_solution, angular_solutions>>

(***************************************************************************)
(* With two-grid acceleration the cross sections are collapsed with the    *)
(* spectral shapes of the materials.                                       *)
(***************************************************************************)
Collapse ==
  /\ phase = "collapse" /\ phase' = "running"
  /\ IF parameters.use_two_grid_
     THEN LET shapes == {shape \in Scalings : Len(shape) = parameters.neutron_energy_groups}
          IN  \E scaling \in [DOMAIN cross_sections.sigma_t -> shapes] :
                collapsed' = [one_group |-> Collapsed(cross_sections, scaling),
                              scaling |-> scaling]
     ELSE UNCHANGED collapsed
  /\ UNCHANGED <<failure, input, parameters, cross_sections, space, solutions>>

(***************************************************************************)
(* The running framework: the mirror image of an angle in a reflective     *)
(* boundary that some face of the mesh is on.                              *)
(***************************************************************************)
Remembered == FoldFunction(+, 0, [b \in DOMAIN quadrature_set.mirrors |->
                                    Cardinality(DOMAIN quadrature_set.mirrors[b])])
FacesOn(boundary) == \E f \in DOMAIN mesh.boundaries :
                       f.cell \in Range(local_cells) /\ mesh.boundaries[f] = boundary
ReflectAngle ==
  /\ phase = "running" /\ quadrature_set # None
  /\ Remembered < LookUpBound
  /\ \E boundary \in parameters.reflective_boundaries, i \in Quad!Indices(quadrature_set) :
       /\ FacesOn(boundary)
       /\ IF Quad!MirrorFails(quadrature_set, i, boundary)
          THEN /\ failure' = "null reflection" /\ phase' = "threw"
               /\ UNCHANGED quadrature_set
          ELSE /\ quadrature_set' = Quad!GetBoundaryReflection(quadrature_set, i, boundary)
               /\ UNCHANGED <<failure, phase>>
  /\ UNCHANGED <<core, space, group_solution, angular_solutions, system>>

Next == \/ ReadParameters \/ MakeParameters \/ BuildDomain \/ SetUpDomain
        \/ BuildQuadrature \/ BuildSolutions \/ BuildSystem \/ Collapse \/ ReflectAngle
Spec == Init /\ [][Next]_vars

(***************************************************************************)
(* Properties.                                                             *)
(***************************************************************************)
Accepted == parameters # None

\* The cross sections of accepted materials answer every question the
\* formulations ask with `.at`: all groups for every quantity, fission data of
\* every fissile material and of no other, sources unless k is sought
\* (material_protobuf.cpp:93).
IsVector(values) == DOMAIN values = 1..parameters.neutron_energy_groups
IsMatrix(values) == IsVector(values) /\ \A g \in DOMAIN values : IsVector(values[g])
CrossSectionsAreComplete ==
  Accepted =>
    LET xs == cross_sections
        fissile == {id \in DOMAIN xs.sigma_t : xs.is_material_fissile[id]}
    IN  /\ \A id \in DOMAIN xs.sigma_t :
             /\ IsVector(xs.sigma_t[id]) /\ IsVector(xs.diffusion_coef[id])
             /\ IsMatrix(xs.sigma_s[id])
        /\ parameters.is_eigenvalue <=> fissile # {}
        /\ DOMAIN xs.nu_sigma_f = fissile
        /\ \A id \in fissile : IsVector(xs.nu_sigma_f[id]) /\ IsMatrix(xs.fiss_transfer[id])
        /\ DOMAIN xs.q = IF parameters.is_eigenvalue THEN {} ELSE DOMAIN xs.sigma_t
        /\ \A id \in DOMAIN xs.q : IsVector(xs.q[id])

\* A local cell has the material that the printed map shows at the place of the
\* coarse cell it came from: lines from the top down, blocks from the highest
\* down; of a map with more directions than the mesh, the first line or block
\* counts (mesh_cartesian.cpp:62, domain.cpp:130).  Set apart are the cells a
\* refinement brings to a process from another one: the ids were set on the
\* coarse cells a process owned, so these keep the default material.
IsRectangular(text) ==
  \A b \in Range(text) : /\ Len(b) = Len(Head(text))
                          /\ \A l \in Range(b) : Len(l) = Len(Head(Head(text)))
Coarse(cell) ==
  LET ancestor[r \in 0..parameters.uniform_refinements] ==
        IF r = 0 THEN cell ELSE Mesh!Parent(ancestor[r - 1])
  IN  ancestor[parameters.uniform_refinements]
\* the entry of n that the middle of cell c of n_cells falls into; a middle
\* between two entries belongs to the first
EntryAt(c, n_cells, n) ==
  CHOOSE e \in 1..n : 2 * n_cells * (e - 1) < (2 * c + 1) * n
                      /\ (2 * c + 1) * n <= 2 * n_cells * e
\* the process set the ids of what the cell came from
KeepsItsIds(cell) == \/ process = "only" \/ input.dimension = 1
                     \/ parameters.uniform_refinements = 0
                     \/ Coarse(cell) \in CoarseCells
CellMaterialIsMapped ==
  (mesh # None /\ IsRectangular(MapFiles[input.material_map])) =>
    LET text == MapFiles[input.material_map]
        extent == <<Len(Head(Head(text))), Len(Head(text)), Len(text)>>
        entry(cell, axis) ==
          IF axis > Len(cell) THEN extent[axis]
          ELSE EntryAt(Coarse(cell)[axis], parameters.number_of_cells[axis], extent[axis])
    IN  \A cell \in Mesh!OwnCells(process, mesh) : KeepsItsIds(cell) =>
          mesh.materials[cell] =
            text[extent[3] + 1 - entry(cell, 3)][extent[2] + 1 - entry(cell, 2)][entry(cell, 1)]

\* Every face of a local cell on the boundary, refined or not, has an id, and it
\* is the side of the domain the face lies on (mesh_cartesian.cpp:105), unless
\* the cell came from another process: its faces have the default, which is the
\* id of the lower side in x.
FacesAreTheirSide ==
  mesh # None =>
    LET outer == Mesh!OuterFaces(Mesh!OwnCells(process, mesh), mesh.n_cells)
    IN  /\ outer \subseteq DOMAIN mesh.boundaries
        /\ \A f \in outer : KeepsItsIds(f.cell) =>
             mesh.boundaries[f] = IF f.side = 0 THEN Quad!Minima[f.axis]
                                  ELSE Quad!Maxima[f.axis]

\* Angles come in opposite pairs, so that an isotropic flux has no current, and
\* every angle has a mirror image in every side of the mesh; the images the set
\* remembers are those, with the same weight and mutual (quadrature_set.cpp:29).
IsMirror(set, i, j, axis) ==
  /\ Quad!Position(set, j) = Quad!Negated(Quad!Position(set, i), {axis})
  /\ Quad!PointAt(set, i).weight = Quad!PointAt(set, j).weight
AnglesAreReflected ==
  quadrature_set # None =>
    LET set == quadrature_set
        ones == [i \in Quad!Indices(set) |-> 1]
    IN  /\ \A axis \in 1..input.dimension :
             /\ Quad!NetCurrent(set, ones, axis) = 0
             /\ \A i \in Quad!Indices(set) : \E j \in Quad!Indices(set) : IsMirror(set, i, j, axis)
             /\ LET remembered == set.mirrors[Quad!Maxima[axis]]
                IN  \A i \in DOMAIN remembered :
                      /\ IsMirror(set, i, remembered[i], axis)
                      /\ remembered[remembered[i]] = i
        /\ \A i \in Quad!Indices(set) :
             /\ Quad!Position(set, set.reflection[i]) =
                  Quad!ReflectAcrossOrigin(Quad!Position(set, i))
             /\ Quad!GetReflectionIndex(set, set.reflection[i]) = i

\* The parts of a built system fit each other: one vector of the group solution
\* per angle of the set, stored angular fluxes for all groups and angles exactly
\* when the boundary term is variable, and no two terms share storage
\* (framework_helper.cpp:204, system_helper.cpp:93).
SystemFitsProblem ==
  system.rhs # Sys!Null =>
    LET indices == Sys!Index(parameters.neutron_energy_groups, Angles(quadrature_set))
        parts == DOMAIN system.rhs.variable
        storage(part, index) ==
          CASE part = "lhs" -> Sys!GetFixedTermPtr(system.lhs, index)
            [] part = "rhs" -> Sys!GetFixedTermPtr(system.rhs, index)
            [] OTHER -> Sys!GetVariableTermPtr(system.rhs, part, index)
        slots == ({"lhs", "rhs"} \cup parts) \X indices
    IN  /\ DOMAIN group_solution.solutions = {i[2] : i \in indices}
        /\ ("ReflectiveBoundaryCondition" \in parts) <=> (angular_solutions # <<>>)
        /\ angular_solutions # <<>> => DOMAIN angular_solutions = indices
        /\ \A s, t \in slots : s # t => storage(s[1], s[2]) # storage(t[1], t[2])
        /\ \A key \in DOMAIN system.current_moments : key[1] \in {i[1] : i \in indices}

\* Collapsed to one group, a material absorbs and produces what it did in all
\* groups together under the spectral shape, and with equal weights the two
\* constructors agree (collapsed_one_group_cross_sections.cpp:78).
CollapsePreservesReactions ==
  collapsed # None =>
    LET xs == cross_sections
        groups == 1..parameters.neutron_energy_groups
        flux(id, g) == collapsed.scaling[id][g]
        lost(id, g) == xs.sigma_t[id][g] - Total([h \in groups |-> xs.sigma_s[id][h][g]])
        ones == [id \in DOMAIN xs.sigma_t |-> [g \in groups |-> 1]]
    IN  /\ \A id \in DOMAIN xs.sigma_t :
             collapsed.one_group.sigma_absorption[id] =
               Total([g \in groups |-> flux(id, g) * lost(id, g)])
        /\ \A id \in DOMAIN xs.fiss_transfer :
             collapsed.one_group.fiss_transfer[id] =
               Total([g \in groups |-> flux(id, g) * ChiUnit * xs.nu_sigma_f[id][g]])
        /\ Collapsed(xs, ones) = CollapsedUnscaled(xs)
=============================================================================
