---------------------------- MODULE LegacyProofs ----------------------------
(***************************************************************************)
(* The legacy program, for every input and any number of processes: its    *)
(* files, its solutions on a line, its angles and, on a line, the matrices *)
(* its direct solvers are told to be symmetric.                            *)
(***************************************************************************)
EXTENDS MCLegacy, WellFoundedInduction, TLAPS

\* Every process writes a piece of its own, with its own part of the mesh.
LEMMA OnePieceEach ==
  /\ DistributedResults.master = DOMAIN DistributedResults.pieces
  /\ {DistributedResults.pieces[name].subdomain : name \in DistributedResults.master} = Processes
<1> DEFINE names == {PieceName(p) : p \in Processes}
           writer(name) == CHOOSE p \in Processes : PieceName(p) = name
           piece(name) == [subdomain |-> writer(name), moments |-> moments,
                           keff |-> IF problem.eigen THEN GetKeff ELSE Number(0)]
           pieces == [name \in names |-> piece(name)]
<1>1. /\ DistributedResults.pieces = pieces
      /\ DistributedResults.master = {<<p, ".vtu">> : p \in Processes}
  BY DEF DistributedResults
<1>2. names = {<<p, ".vtu">> : p \in Processes}
  BY DEF PieceName
<1>3. \A p \in Processes : writer(PieceName(p)) = p
  BY DEF PieceName
<1>4. \A p \in Processes : PieceName(p) \in names
  OBVIOUS
<1>5. \A name \in names : pieces[name].subdomain = writer(name)
  OBVIOUS
<1>6. DOMAIN pieces = names
  OBVIOUS
<1>7. \A p \in Processes : pieces[PieceName(p)].subdomain = p
  BY <1>3, <1>4, <1>5
<1>8. \A name \in names : \E p \in Processes : name = PieceName(p)
  OBVIOUS
<1> HIDE DEF pieces, names
<1>9. {pieces[name].subdomain : name \in names} = Processes
  BY <1>4, <1>7, <1>8
<1> QED
  BY <1>1, <1>2, <1>6, <1>9

(***************************************************************************)
(* The invariant: a run that has ended well is over, so that what its      *)
(* files are compared with does not change under them.                     *)
(***************************************************************************)
FilesInv == exit = "success" => stage = "exited" /\ MasterNamesItsPieces

LEMMA InitFilesInv == LegacyInit => FilesInv
BY DEF LegacyInit, FilesInv

LEMMA NextFilesInv == FilesInv /\ [DriveBART]_vars => FilesInv'
<1> SUFFICES ASSUME FilesInv, [DriveBART]_vars PROVE FilesInv'
  OBVIOUS
<1>1. CASE OutputResults
  <2>1. problem' = problem /\ stage' = "exited"
    BY <1>1 DEF OutputResults
  <2>2. CASE problem.dim = 1
    BY <2>1, <2>2 DEF FilesInv, MasterNamesItsPieces
  <2>3. CASE problem.dim # 1
    <3>1. files' = DistributedResults
      BY <1>1, <2>3 DEF OutputResults
    <3> QED
      BY <2>1, <3>1, OnePieceEach DEF FilesInv, MasterNamesItsPieces
  <2> QED
    BY <2>2, <2>3
<1>2. ASSUME exit # "success", exit' = exit \/ exit' = "failure" PROVE FilesInv'
  BY <1>2 DEF FilesInv
<1>3. ASSUME stage # "exited", exit' = exit \/ exit' = "failure" PROVE FilesInv'
  BY <1>2, <1>3 DEF FilesInv
<1>4. CASE Construct \/ MakeGrid \/ InitMatVec \/ IterateUnfollowed
  BY <1>3, <1>4 DEF Construct, MakeGrid, InitMatVec, IterateUnfollowed, Throws
<1>5. CASE DoNDAIterations \/ DoMGIterations \/ DoEigenIterations \/ EigenPass
  BY <1>3, <1>5 DEF DoNDAIterations, DoMGIterations, DoEigenIterations, EigenPass, Throws
<1>6. CASE StartGroup \/ ThermalPass \/ MGIterationsDone \/ EigenCheck
  BY <1>3, <1>6 DEF StartGroup, ThermalPass, MGIterationsDone, EigenCheck
<1>7. CASE SourceIteration
  BY <1>3, <1>7 DEF SourceIteration, Throws
<1>8. CASE UNCHANGED vars
  BY <1>8 DEF vars, iteration, system, FilesInv, MasterNamesItsPieces
<1> QED
  BY <1>1, <1>4, <1>5, <1>6, <1>7, <1>8 DEF DriveBART

(***************************************************************************)
(* What a run leaves behind is whole: in a plane and in space the master   *)
(* names exactly the pieces that were written, and every process has       *)
(* written one.                                                            *)
(***************************************************************************)
THEOREM MasterIsWhole == LegacySpec => []MasterNamesItsPieces
<1>1. FilesInv => MasterNamesItsPieces
  BY DEF FilesInv, MasterNamesItsPieces
<1> QED
  BY <1>1, InitFilesInv, NextFilesInv, PTL DEF LegacySpec

-----------------------------------------------------------------------------
(***************************************************************************)
(* What the iterations on a line keep true, of problems with a direct      *)
(* solver and no reflected angular fluxes, until they end or throw.        *)
(***************************************************************************)
Followed ==
  /\ problem.dim = 1 /\ ~problem.do_nda /\ problem.linear_solver = "direct"
  /\ ~(problem.model = "saaf" /\ HaveReflective)

Allocated == stage \in {"iterations", "eigen", "groups", "source", "output"} \/ exit = "success"
InGroups == stage \in {"groups", "source"}
Iterated == stage = "output" \/ exit = "success"
Numbers == \A g \in DOMAIN moments : IsNumber(moments[g])

\* The set-up: what the constructors have checked and made.
SetUpInv ==
  /\ problem \in Problems
  /\ keff = [now |-> keff.now, prev |-> keff.prev]
  /\ source = [now |-> source.now, prev |-> source.prev]
  /\ prev = [eigen |-> prev.eigen, groups |-> prev.groups, source |-> prev.source]
  /\ exit \in {"running", "success", "failure"}
  /\ exit # "running" => stage = "exited"
  /\ stage # "start" /\ exit # "failure" =>
       /\ "reflective" \in DOMAIN mesh
       /\ ~InvalidThermal(problem)
       /\ aq = MakeAQ(problem.dim, problem.angles)
       /\ ~HaveReflective => mesh.reflective = <<>>

\* The groups: more than one throws in the first source iteration.
GroupInv ==
  /\ exit # "failure" => DOMAIN prev.source \subseteq {0}
  /\ stage = "source" => group = 0
  /\ stage = "groups" => group = 0 \/ (group = 1 /\ problem.n_group = 1)
  /\ Iterated => problem.n_group = 1

\* The vectors, once they are allocated.
VectorInv ==
  /\ DOMAIN fluxes = Components(Equation)
  /\ moments = [g \in Groups(Equation) |-> moments[g]]

\* What the vectors are to each other.
FixedOf(equ, k, phi) ==
  IF Fissile(equ) /\ (k \in {NaN, Number(0)} \/ \E g \in Groups(equ) : phi[g] = NaN)
  THEN [c \in Components(equ) |-> NaN]
  ELSE AssembleFixedLinearForms(equ, phi)
GroupSolved == \A k \in DOMAIN fluxes : fluxes[k] = LinAlgSolve(Equation, k)
PassInv ==
  /\ keff.prev = keff.now
  /\ fixed = FixedOf(Equation, keff.now, prev.eigen)
  /\ prev.eigen = [g \in Groups(Equation) |-> prev.eigen[g]]
  /\ prev.eigen[0] = NaN => moments[0] = NaN
EigenSolved ==
  /\ fixed = FixedForms(Equation)
  /\ source.now = FissionSource(Equation, moments)
SolvedInv ==
  /\ stage = "groups" /\ group = 1 /\ Numbers => GroupSolved
  /\ InGroups /\ problem.eigen => PassInv
  /\ Iterated /\ Numbers /\ (problem.eigen => IsNumber(keff.now)) =>
       /\ GroupSolved
       /\ problem.eigen => EigenSolved

LineInv ==
  /\ GroupInv
  /\ Allocated => VectorInv
  /\ SolvedInv
SolveInv == SetUpInv /\ (Followed => LineInv)

-----------------------------------------------------------------------------
\* The equation reads the problem, the mesh, the angles and the eigenvalue,
\* which no vector and no source iteration changes.
LEMMA EquationStays ==
  ASSUME problem' = problem, mesh' = mesh, aq' = aq, keff'.now = keff.now
  PROVE  Equation' = Equation
BY DEF Equation

\* The eigenvalue is no part of its shape.
LEMMA EquationShape ==
  ASSUME NEW p, NEW m, NEW a, NEW j, NEW k
  PROVE  /\ Components(EquationOf(p, m, a, j)) = Components(EquationOf(p, m, a, k))
         /\ Groups(EquationOf(p, m, a, j)) = Groups(EquationOf(p, m, a, k))
<1> DEFINE one == EquationOf(p, m, a, j)
           other == EquationOf(p, m, a, k)
<1>1. one.model = other.model /\ one.n_group = other.n_group /\ one.omega = other.omega
  BY DEF EquationOf
<1> HIDE DEF one, other
<1>2. Components(one) = Components(other) /\ Groups(one) = Groups(other)
  BY <1>1 DEF Components, n_total_vars, n_dir, Groups
<1> QED
  BY <1>2 DEF one, other

\* With one group every component is its, and there is one.
LEMMA OneGroupComponents ==
  ASSUME SetUpInv, Followed, stage # "start", exit # "failure", problem.n_group = 1
  PROVE  /\ n_dir(Equation) \in Nat \ {0}
         /\ Components(Equation) = 0..n_dir(Equation) - 1
         /\ Groups(Equation) = {0}
         /\ \A k \in Components(Equation) : GetCompGrpInd(Equation, k) = 0
<1>1. /\ Equation.model = problem.model /\ Equation.n_group = 1
      /\ Equation.component = aq.component /\ DOMAIN Equation.omega = DOMAIN aq.directions
  BY DEF Equation, EquationOf
<1> DEFINE H == Halved(problem.angles.order, EvenParity(problem.angles))
<1>2. problem.angles.n_group = 1 /\ H \in Nat \ {0}
  BY ProblemsAssumption, AnglesAssumption DEF SetUpInv, Followed
<1> HIDE DEF H
<1>3. aq = MakeAQ(1, problem.angles)
  BY DEF SetUpInv, Followed
<1>4. aq.directions = GaussLegendre(problem.angles)
  BY <1>3 DEF MakeAQ, ProduceAQ
<1>5. DOMAIN aq.directions = 1..H /\ Len(aq.directions) = H
  BY <1>2, <1>4 DEF GaussLegendre, H
<1>6. aq.component = [gd \in (0..0) \X (1..H) |-> gd[1] * H + gd[2] - 1]
  <2>1. aq.component = InitCompInd(problem.angles, aq.directions)
    BY <1>3 DEF MakeAQ
  <2> QED
    BY <2>1, <1>2, <1>5 DEF InitCompInd
<1>7. \A dir \in 1..H : aq.component[<<0, dir>>] = dir - 1
  BY <1>2, <1>6
<1>8. Groups(Equation) = {0}
  BY <1>1 DEF Groups
<1>9. ASSUME NEW k, \E dir \in 1..n_dir(Equation) : GetCompInd(Equation, 0, dir) = k
      PROVE  GetCompGrpInd(Equation, k) = 0
  BY <1>8, <1>9 DEF GetCompGrpInd
<1>10. CASE problem.model = "diffusion"
  <2>1. n_dir(Equation) = 1
    BY <1>1, <1>10 DEF n_dir
  <2>2. Components(Equation) = 0..n_dir(Equation) - 1
    BY <1>1, <2>1 DEF Components, n_total_vars
  <2>3. GetCompInd(Equation, 0, 1) = 0 /\ 1 \in 1..n_dir(Equation)
    BY <1>1, <1>10, <2>1 DEF GetCompInd
  <2>4. \A k \in Components(Equation) : k = 0
    BY <2>1, <2>2
  <2> QED
    BY <1>8, <1>9, <2>1, <2>2, <2>3, <2>4
<1>11. CASE problem.model # "diffusion"
  <2>1. n_dir(Equation) = H
    BY <1>1, <1>2, <1>5, <1>11 DEF n_dir
  <2>2. Components(Equation) = 0..n_dir(Equation) - 1
    BY <1>1, <1>2, <2>1 DEF Components, n_total_vars
  <2>3. ASSUME NEW k \in Components(Equation)
        PROVE  k + 1 \in 1..n_dir(Equation) /\ GetCompInd(Equation, 0, k + 1) = k
    <3>1. k + 1 \in 1..H
      BY <1>2, <2>1, <2>2
    <3>2. aq.component[<<0, k + 1>>] = k
      BY <1>7, <2>1, <2>2, <3>1
    <3> QED
      BY <1>1, <1>11, <2>1, <3>1, <3>2 DEF GetCompInd
  <2> QED
    BY <1>2, <1>8, <1>9, <2>1, <2>2, <2>3
<1> QED
  BY <1>10, <1>11

-----------------------------------------------------------------------------
\* The generator of a box without reflective boundaries knows no side that
\* reflects, and making the grid does not change that.
LEMMA NothingReflects ==
  ASSUME NEW dim, NEW prm, Mesh!MeshGenerator(dim, prm).error = "none"
  PROVE  /\ "reflective" \in DOMAIN Mesh!MeshGenerator(dim, prm).value
         /\ ~prm.have_reflective => Mesh!MeshGenerator(dim, prm).value.reflective = <<>>
<1> DEFINE grid == Mesh!ProcessCoordinateInformation(dim, prm)
           ids == Mesh!InitializeRelativePositionToIDMap(dim, grid.value.n, prm)
           reflective == Mesh!PreprocessReflectiveBC(dim, prm)
           simple == [prm |-> prm, reflective |-> <<>>]
           whole == [prm |-> prm, grid |-> grid.value, ids |-> ids.value,
                     reflective |-> reflective.value]
<1>1. ~prm.have_reflective => reflective = [error |-> "none", value |-> <<>>]
  BY DEF Mesh!PreprocessReflectiveBC, Mesh!Done
<1>2. Mesh!MeshGenerator(dim, prm) =
        CASE ~prm.generated -> Mesh!Done(simple)
          [] grid.error # "none" -> grid
          [] ids.error # "none" -> ids
          [] reflective.error # "none" -> reflective
          [] OTHER -> Mesh!Done(whole)
  BY DEF Mesh!MeshGenerator
<1>3. "reflective" \in DOMAIN simple /\ simple.reflective = <<>>
  OBVIOUS
<1>4. "reflective" \in DOMAIN whole /\ whole.reflective = reflective.value
  OBVIOUS
<1> HIDE DEF grid, ids, reflective, simple, whole
<1> QED
  BY <1>1, <1>2, <1>3, <1>4 DEF Mesh!Done

LEMMA GridReflects ==
  ASSUME NEW dim, NEW m, Mesh!MakeGrid(dim, m).error = "none", "reflective" \in DOMAIN m
  PROVE  /\ "reflective" \in DOMAIN Over(Mesh!MakeGrid(dim, m).value, m)
         /\ Over(Mesh!MakeGrid(dim, m).value, m).reflective = m.reflective
<1> DEFINE made == Mesh!MakeGrid(dim, m)
           initial == Mesh!GenerateInitialGrid(dim, m)
           cells == initial.value
           material == Mesh!InitializeMaterialID(m, cells)
           boundary == Mesh!SetupBoundaryIDs(dim, m.grid, cells)
           refined == IF m.prm.refinements > 0 THEN Mesh!GlobalRefine(dim, m, cells)
                      ELSE Mesh!NotRefined
           whole == [cells |-> cells, material |-> material.value, boundary |-> boundary,
                     refined |-> refined]
<1>1. made = CASE ~m.prm.generated -> Mesh!Done([filename |-> m.prm.filename])
               [] initial.error # "none" -> initial
               [] material.error # "none" -> material
               [] OTHER -> Mesh!Done(whole)
  BY DEF Mesh!MakeGrid
<1> HIDE DEF initial, material, boundary, refined
<1>2. DOMAIN whole = {"cells", "material", "boundary", "refined"}
  OBVIOUS
<1>3. DOMAIN [filename |-> m.prm.filename] = {"filename"}
  OBVIOUS
<1> HIDE DEF whole, made
<1>4. "reflective" \notin DOMAIN made.value
  BY <1>1, <1>2, <1>3 DEF Mesh!Done, made
<1>5. "reflective" \in DOMAIN Over(made.value, m) /\ Over(made.value, m)["reflective"] = m["reflective"]
  BY <1>4 DEF Over
<1> QED
  BY <1>5 DEF made

LEMMA InitSetUpInv == LegacyInit => SetUpInv
BY DEF LegacyInit, SetUpInv

\* What the steps of the iterations leave alone.
LEMMA IterationsFrame ==
  ASSUME SetUpInv,
         \/ DoNDAIterations \/ DoMGIterations \/ DoEigenIterations \/ EigenPass \/ StartGroup
         \/ SourceIteration \/ ThermalPass \/ MGIterationsDone \/ EigenCheck
  PROVE  SetUpInv'
<1>1. problem' = problem /\ mesh' = mesh /\ aq' = aq
  BY DEF DoNDAIterations, DoMGIterations, DoEigenIterations, EigenPass, StartGroup,
         SourceIteration, ThermalPass, MGIterationsDone, EigenCheck
<1>2. stage \notin {"start", "exited"} /\ exit = "running"
  BY DEF SetUpInv, DoNDAIterations, DoMGIterations, DoEigenIterations, EigenPass, StartGroup,
         SourceIteration, ThermalPass, MGIterationsDone, EigenCheck
<1>3. exit' = exit \/ (exit' = "failure" /\ stage' = "exited")
  BY DEF DoNDAIterations, DoMGIterations, DoEigenIterations, EigenPass, StartGroup,
         SourceIteration, ThermalPass, MGIterationsDone, EigenCheck, Throws
<1>4. keff' = [now |-> keff'.now, prev |-> keff'.prev]
  BY DEF SetUpInv, DoNDAIterations, DoMGIterations, DoEigenIterations, EigenPass, StartGroup,
         SourceIteration, ThermalPass, MGIterationsDone, EigenCheck, iteration
<1>5. source' = [now |-> source'.now, prev |-> source'.prev]
  BY DEF SetUpInv, DoNDAIterations, DoMGIterations, DoEigenIterations, EigenPass, StartGroup,
         SourceIteration, ThermalPass, MGIterationsDone, EigenCheck, iteration
<1>6. prev' = [eigen |-> prev'.eigen, groups |-> prev'.groups, source |-> prev'.source]
  BY DEF SetUpInv, DoNDAIterations, DoMGIterations, DoEigenIterations, EigenPass, StartGroup,
         SourceIteration, ThermalPass, MGIterationsDone, EigenCheck, iteration
<1> QED
  BY <1>1, <1>2, <1>3, <1>4, <1>5, <1>6 DEF SetUpInv, InvalidThermal, HaveReflective

LEMMA NextSetUpInv == SetUpInv /\ [DriveBART]_vars => SetUpInv'
<1> SUFFICES ASSUME SetUpInv, [DriveBART]_vars PROVE SetUpInv'
  OBVIOUS
<1>1. CASE Construct
  <2>1. problem' = problem /\ keff' = keff /\ source' = source /\ prev' = prev /\ exit = "running"
    BY <1>1 DEF Construct, iteration, SetUpInv
  <2>2. CASE stage' = "exited" /\ exit' = "failure"
    BY <2>1, <2>2 DEF SetUpInv
  <2>3. CASE ~(stage' = "exited" /\ exit' = "failure")
    <3> DEFINE generator == Mesh!MeshGenerator(problem.dim, problem.mesh)
               quadrature == MakeAQ(problem.dim, problem.angles)
    <3>1. /\ generator.error = "none" /\ ~InvalidThermal(problem)
          /\ stage' = "grid" /\ exit' = exit /\ aq' = quadrature /\ mesh' = generator.value
      BY <1>1, <2>3 DEF Construct, Throws
    <3>2. /\ "reflective" \in DOMAIN generator.value
          /\ ~problem.mesh.have_reflective => generator.value.reflective = <<>>
      BY <3>1, NothingReflects
    <3> HIDE DEF generator
    <3> QED
      BY <2>1, <3>1, <3>2 DEF SetUpInv, InvalidThermal, HaveReflective
  <2> QED
    BY <2>2, <2>3
<1>2. CASE MakeGrid
  <2>1. /\ problem' = problem /\ keff' = keff /\ source' = source /\ prev' = prev /\ aq' = aq
        /\ exit = "running" /\ stage = "grid"
    BY <1>2 DEF MakeGrid, iteration, SetUpInv
  <2>2. CASE stage' = "exited" /\ exit' = "failure"
    BY <2>1, <2>2 DEF SetUpInv
  <2>3. CASE ~(stage' = "exited" /\ exit' = "failure")
    <3> DEFINE grid == Mesh!MakeGrid(problem.dim, mesh)
    <3>1. grid.error = "none" /\ stage' = "vectors" /\ exit' = exit /\ mesh' = Over(grid.value, mesh)
      BY <1>2, <2>3 DEF MakeGrid, Throws
    <3>2. "reflective" \in DOMAIN Over(grid.value, mesh) /\ Over(grid.value, mesh).reflective = mesh.reflective
      BY <2>1, <3>1, GridReflects DEF SetUpInv
    <3> HIDE DEF grid
    <3> QED
      BY <2>1, <3>1, <3>2 DEF SetUpInv, InvalidThermal, HaveReflective
  <2> QED
    BY <2>2, <2>3
<1>3. CASE InitMatVec \/ IterateUnfollowed
  <2>1. /\ problem' = problem /\ aq' = aq /\ mesh' = mesh /\ source' = source /\ prev' = prev
        /\ exit = "running" /\ stage = "vectors"
    BY <1>3 DEF InitMatVec, IterateUnfollowed, iteration, SetUpInv
  <2>2. keff' = [now |-> keff'.now, prev |-> keff'.prev]
    BY <1>3 DEF InitMatVec, IterateUnfollowed, iteration, SetUpInv
  <2>3. exit' = exit \/ (exit' = "failure" /\ stage' = "exited")
    BY <1>3 DEF InitMatVec, IterateUnfollowed, Throws
  <2> QED
    BY <2>1, <2>2, <2>3 DEF SetUpInv, InvalidThermal, HaveReflective
<1>4. CASE OutputResults
  BY <1>4 DEF OutputResults, SetUpInv, InvalidThermal, HaveReflective
<1>5. CASE UNCHANGED vars
  BY <1>5 DEF vars, iteration, system, SetUpInv, InvalidThermal, HaveReflective
<1> QED
  BY <1>1, <1>2, <1>3, <1>4, <1>5, IterationsFrame DEF DriveBART

-----------------------------------------------------------------------------
\* Fluxes that are not stored for a reflective boundary are not read.
LEMMA StoredUnread ==
  ASSUME NEW equ, equ.model # "saaf" \/ equ.reflective = <<>>,
         NEW f, NEW m, NEW one, NEW other, NEW k
  PROVE  AssembleLinearForms(equ, f, m, one, k) = AssembleLinearForms(equ, f, m, other, k)
<1> DEFINE g == GetCompGrpInd(equ, k)
           dir == GetCompDirInd(equ, k)
           scattering == [cell \in Cells(equ) |-> ScatteringTerm(equ, m, cell, g, dir)]
           volume(d) == SumFunction([cell \in Cells(equ) |-> VectorEntry(equ, scattering[cell], cell, d)])
           faces == IF equ.model = "saaf" /\ equ.reflective # <<>>
                    THEN {cf \in Cells(equ) \X Faces : AtOuterFace(equ, cf[1], cf[2])} ELSE {}
           boundary(stored) == [cf \in faces |-> SAAFBoundaryLinear(equ, stored, cf[1], cf[2], g, dir)]
           entries(stored, d) == [cf \in faces |-> VectorEntry(equ, boundary(stored)[cf], cf[1], d)]
<1>1. faces = {}
  OBVIOUS
<1> HIDE DEF faces
<1>2. \A d : entries(one, d) = entries(other, d)
  BY <1>1
<1>3. \A stored : AssembleLinearForms(equ, f, m, stored, k) =
        [d \in Dofs(equ) |-> f[k][d] + volume(d) + SumFunction(entries(stored, d))]
  BY DEF AssembleLinearForms, faces
<1> HIDE DEF entries, volume
<1> QED
  BY <1>2, <1>3

\* What a solve of a component reads and finds.
Solution(equ, mats, rhses, phi, k) ==
  LET rhs == IF NaN \in {phi[h] : h \in Groups(equ)} \cup {rhses[k]} THEN NaN
             ELSE AssembleLinearForms(equ, rhses, phi, <<>>, k)
  IN  IF rhs = NaN THEN NaN ELSE Answer(mats[k], rhs)

LEMMA SolveReads ==
  SetUpInv /\ Followed /\ stage # "start" /\ exit # "failure" =>
    \A k : LinAlgSolve(Equation, k) = Solution(Equation, matrices, fixed, moments, k)
<1> SUFFICES ASSUME SetUpInv, Followed, stage # "start", exit # "failure", NEW k
             PROVE  LinAlgSolve(Equation, k) = Solution(Equation, matrices, fixed, moments, k)
  OBVIOUS
<1>1. Equation.model = problem.model /\ Equation.reflective = mesh.reflective
  BY DEF Equation, EquationOf
<1>2. Equation.model # "saaf" \/ Equation.reflective = <<>>
  BY <1>1 DEF SetUpInv, Followed
<1>3. Solves(problem)
  BY DEF Solves, Followed
<1> DEFINE equ == Equation
<1> HIDE DEF equ
<1>4. ~(equ.model = "saaf" /\ HaveReflective)
  BY <1>1 DEF equ, Followed
<1>5. AssembleLinearForms(equ, fixed, moments, fluxes, k) = AssembleLinearForms(equ, fixed, moments, <<>>, k)
  BY <1>2, StoredUnread DEF equ
<1>6. RightHandSide(equ, k) = IF NaN \in {moments[h] : h \in Groups(equ)} \cup {fixed[k]} THEN NaN
                             ELSE AssembleLinearForms(equ, fixed, moments, <<>>, k)
  BY <1>4, <1>5 DEF RightHandSide
<1>7. LinAlgSolve(equ, k) = Solution(equ, matrices, fixed, moments, k)
  BY <1>3, <1>6 DEF LinAlgSolve, Solution
<1> QED
  BY <1>7 DEF equ

\* A moment that is no number stays none.
LEMMA NaNStays ==
  ASSUME SetUpInv, Followed, VectorInv, stage # "start", exit # "failure",
         problem.n_group = 1, moments[0] = NaN
  PROVE  Moments(Equation, SolveInGroup(Equation, 0)) = NaN
<1> DEFINE phi == SolveInGroup(Equation, 0)
<1>1. /\ n_dir(Equation) \in Nat \ {0}
      /\ Components(Equation) = 0..n_dir(Equation) - 1
      /\ Groups(Equation) = {0}
      /\ \A k \in Components(Equation) : GetCompGrpInd(Equation, k) = 0
  BY OneGroupComponents
<1>2. \A k : Solution(Equation, matrices, fixed, moments, k) = NaN
  BY <1>1 DEF Solution
<1>3. \A k : LinAlgSolve(Equation, k) = NaN
  BY <1>2, SolveReads
<1>4. 0 \in Components(Equation) /\ 0 \in 0..n_dir(Equation) - 1
  BY <1>1
<1>5. phi[0] = NaN
  BY <1>1, <1>3, <1>4 DEF SolveInGroup
<1> HIDE DEF phi
<1> QED
  BY <1>4, <1>5 DEF Moments, phi

-----------------------------------------------------------------------------
\* The steps: nothing is left of the invariant when one throws.
LEMMA ThrownLine == ASSUME stage' = "exited", exit' = "failure" PROVE LineInv'
BY DEF LineInv, GroupInv, SolvedInv, Allocated, Iterated, InGroups

LEMMA StartsLine ==
  ASSUME SolveInv, Followed, SetUpInv', Construct \/ MakeGrid
  PROVE  LineInv'
<1>1. prev' = prev /\ exit = "running" /\ stage \in {"start", "grid"}
  BY DEF Construct, MakeGrid, iteration, SolveInv, SetUpInv
<1>2. CASE stage' = "exited" /\ exit' = "failure"
  BY <1>2, ThrownLine
<1>3. CASE ~(stage' = "exited" /\ exit' = "failure")
  <2>1. stage' \in {"grid", "vectors"} /\ exit' = "running"
    BY <1>1, <1>3 DEF Construct, MakeGrid, Throws
  <2> QED
    BY <1>1, <2>1 DEF LineInv, GroupInv, SolvedInv, Allocated, Iterated, InGroups, SolveInv
<1> QED
  BY <1>2, <1>3

LEMMA VectorsLine ==
  ASSUME SolveInv, Followed, SetUpInv', InitMatVec
  PROVE  LineInv'
<1>1. /\ problem' = problem /\ aq' = aq /\ mesh' = mesh /\ keff' = keff /\ prev' = prev
      /\ exit = "running" /\ Equation' = Equation
  BY EquationStays DEF InitMatVec, iteration, SolveInv, SetUpInv
<1>2. CASE stage' = "exited" /\ exit' = "failure"
  BY <1>2, ThrownLine
<1>3. CASE ~(stage' = "exited" /\ exit' = "failure")
  <2>1. /\ stage' = "iterations" /\ exit' = "running"
        /\ DOMAIN fluxes' = Components(Equation)
        /\ moments' = [g \in Groups(Equation) |-> [d \in Dofs(Equation) |-> 1]]
    BY <1>1, <1>3 DEF InitMatVec, Throws
  <2>2. VectorInv'
    BY <1>1, <2>1 DEF VectorInv
  <2> QED
    BY <1>1, <2>1, <2>2 DEF LineInv, GroupInv, SolvedInv, Allocated, Iterated, InGroups, SolveInv
<1> QED
  BY <1>2, <1>3

LEMMA IterationsLine ==
  ASSUME SolveInv, Followed, SetUpInv', DoMGIterations \/ DoEigenIterations
  PROVE  LineInv'
<1>1. /\ problem' = problem /\ aq' = aq /\ mesh' = mesh /\ prev' = prev
      /\ fluxes' = fluxes /\ moments' = moments
      /\ exit = "running" /\ stage = "iterations"
  BY DEF DoMGIterations, DoEigenIterations, SolveInv, SetUpInv
<1>2. Components(Equation') = Components(Equation) /\ Groups(Equation') = Groups(Equation)
  BY <1>1, EquationShape DEF Equation
<1>3. VectorInv'
  BY <1>1, <1>2 DEF SolveInv, LineInv, Allocated, VectorInv
<1>4. CASE ~HasSections(Equation)
  <2>1. stage' = "exited" /\ exit' = "failure"
    BY <1>4 DEF DoMGIterations, DoEigenIterations, Throws
  <2> QED
    BY <2>1, ThrownLine
<1>5. CASE HasSections(Equation) /\ DoMGIterations
  <2>1. stage' = "groups" /\ group' = 0 /\ ~problem.eigen /\ exit' = "running"
    BY <1>1, <1>5 DEF DoMGIterations
  <2> QED
    BY <1>1, <1>3, <2>1 DEF LineInv, GroupInv, SolvedInv, Allocated, Iterated, InGroups, SolveInv
<1>6. CASE HasSections(Equation) /\ DoEigenIterations
  <2>1. stage' = "eigen" /\ exit' = "running"
    BY <1>1, <1>6 DEF DoEigenIterations
  <2> QED
    BY <1>1, <1>3, <2>1 DEF LineInv, GroupInv, SolvedInv, Allocated, Iterated, InGroups, SolveInv
<1> QED
  BY <1>4, <1>5, <1>6

\* With the invariant in its parts.
LEMMA AtGroups ==
  ASSUME SolveInv, Followed, stage \in {"eigen", "groups", "source", "output"}
  PROVE  /\ exit = "running" /\ GroupInv /\ VectorInv /\ SolvedInv
         /\ problem.n_group \in Int /\ problem.g_thermal \in Int
         /\ problem.g_thermal < problem.n_group /\ problem.g_thermal >= 0
<1>1. exit = "running"
  BY DEF SolveInv, SetUpInv
<1>2. ~InvalidThermal(problem)
  BY <1>1 DEF SolveInv, SetUpInv
<1>3. problem.n_group \in Int /\ problem.g_thermal \in Int
  BY ProblemsAssumption DEF SolveInv, SetUpInv, Followed
<1> QED
  BY <1>1, <1>2, <1>3 DEF SolveInv, LineInv, Allocated, InvalidThermal

LEMMA EigenPassLine ==
  ASSUME SolveInv, Followed, SetUpInv', EigenPass
  PROVE  LineInv'
<1>1. exit = "running" /\ GroupInv /\ VectorInv
  BY AtGroups DEF EigenPass
<1>2. /\ problem' = problem /\ aq' = aq /\ mesh' = mesh /\ exit' = exit
      /\ fluxes' = fluxes /\ moments' = moments
      /\ stage' = "groups" /\ group' = 0 /\ fixed' = FixedForms(Equation)
  BY DEF EigenPass
<1>3. keff'.now = keff.now /\ keff'.prev = keff.now
  BY DEF EigenPass, SolveInv, SetUpInv
<1>4. prev'.eigen = moments /\ prev'.source = prev.source
  BY DEF EigenPass, SolveInv, SetUpInv
<1>5. Equation' = Equation
  BY <1>2, <1>3, EquationStays
<1>6. fixed' = FixedOf(Equation, keff.now, moments)
  BY <1>2 DEF FixedForms, FixedOf
<1>7. PassInv'
  BY <1>1, <1>2, <1>3, <1>4, <1>5, <1>6 DEF PassInv, VectorInv
<1>8. VectorInv'
  BY <1>1, <1>2, <1>5 DEF VectorInv
<1> QED
  BY <1>1, <1>2, <1>4, <1>7, <1>8 DEF LineInv, GroupInv, SolvedInv, Allocated, Iterated, InGroups

LEMMA StartGroupLine ==
  ASSUME SolveInv, Followed, SetUpInv', StartGroup
  PROVE  LineInv'
<1>1. exit = "running" /\ GroupInv /\ VectorInv /\ SolvedInv /\ group = 0
  BY AtGroups DEF StartGroup, GroupInv
<1>2. /\ problem' = problem /\ aq' = aq /\ mesh' = mesh /\ exit' = exit /\ keff' = keff
      /\ fluxes' = fluxes /\ moments' = moments /\ fixed' = fixed
      /\ stage' = "source" /\ group' = group
  BY DEF StartGroup, system
<1>3. prev'.eigen = prev.eigen /\ prev'.source = prev.source
  BY DEF StartGroup, SolveInv, SetUpInv
<1>4. Equation' = Equation
  BY <1>2, EquationStays
<1>5. problem.eigen => PassInv
  BY <1>1 DEF StartGroup, SolvedInv, InGroups
<1>6. problem.eigen => PassInv'
  BY <1>2, <1>3, <1>4, <1>5 DEF PassInv
<1>7. VectorInv'
  BY <1>1, <1>2, <1>4 DEF VectorInv
<1> QED
  BY <1>1, <1>2, <1>3, <1>6, <1>7 DEF LineInv, GroupInv, SolvedInv, Allocated, Iterated, InGroups

LEMMA SourceIterationLine ==
  ASSUME SolveInv, Followed, Followed', SetUpInv', SourceIteration
  PROVE  LineInv'
<1> DEFINE equ == Equation
           phi == SolveInGroup(equ, group)
           now == [moments EXCEPT ![group] = Moments(equ, phi)]
           compared == Over([g \in {group} |-> moments[g]], prev.source)
<1>1. /\ exit = "running" /\ GroupInv /\ VectorInv /\ SolvedInv /\ group = 0
      /\ problem.n_group \in Int
  BY AtGroups DEF SourceIteration, GroupInv
<1>2. /\ problem' = problem /\ aq' = aq /\ mesh' = mesh /\ keff' = keff
      /\ matrices' = matrices /\ fixed' = fixed /\ source' = source
      /\ fluxes' = phi /\ moments' = now
  BY DEF SourceIteration
<1>3. prev'.eigen = prev.eigen /\ prev'.source = compared
  BY DEF SourceIteration, SolveInv, SetUpInv
<1>4. Equation' = Equation
  BY <1>2, EquationStays
<1>5. DOMAIN compared = {0} /\ compared[0] = moments[0]
  BY <1>1 DEF Over, GroupInv
<1>6. CASE LengthsMismatch(compared)
  BY <1>6, ThrownLine DEF SourceIteration, Throws
<1>7. CASE ~LengthsMismatch(compared)
  <2>1. problem.n_group = 1
    <3>1. 0..problem.n_group - 1 = {0}
      BY <1>5, <1>7 DEF LengthsMismatch
    <3>2. problem.n_group >= 2 => 1 \in 0..problem.n_group - 1
      BY <1>1
    <3>3. problem.n_group < 1 => 0 \notin 0..problem.n_group - 1
      BY <1>1
    <3> QED
      BY <1>1, <3>1, <3>2, <3>3
  <2>2. stage # "start" /\ exit # "failure"
    BY <1>1 DEF SourceIteration
  <2>3. /\ Groups(equ) = {0}
        /\ \A k \in Components(equ) : GetCompGrpInd(equ, k) = 0
    BY <2>1, <2>2, OneGroupComponents DEF SolveInv
  <2>4. moments = [g \in {0} |-> moments[g]] /\ now = [g \in {0} |-> Moments(equ, phi)]
    BY <1>1, <2>3 DEF VectorInv
  <2>5. moments[0] = NaN => now[0] = NaN
    BY <1>1, <2>1, <2>2, <2>4, NaNStays DEF SolveInv
  <2>6. phi = [k \in Components(equ) |-> LinAlgSolve(equ, k)]
    BY <1>1, <2>3 DEF SolveInGroup
  <2> HIDE DEF equ, phi, now, compared
  <2>7. VectorInv'
    BY <1>2, <1>4, <2>3, <2>4, <2>6 DEF VectorInv, equ
  <2>8. problem.eigen => PassInv'
    <3>1. problem.eigen => PassInv
      BY <1>1 DEF SourceIteration, SolvedInv, InGroups
    <3>2. prev.eigen[0] = NaN /\ PassInv => now[0] = NaN
      BY <2>5 DEF PassInv
    <3> QED
      BY <1>2, <1>3, <1>4, <3>1, <3>2 DEF PassInv
  <2>9. CASE \E g \in DOMAIN compared : Differ(now[g], compared[g])
    <3>1. stage' = "source" /\ exit' = "running" /\ group' = 0
      BY <1>1, <1>7, <2>9 DEF SourceIteration, equ, phi, now, compared
    <3> QED
      BY <1>2, <1>3, <1>5, <2>7, <2>8, <3>1
      DEF LineInv, GroupInv, SolvedInv, Allocated, Iterated, InGroups
  <2>10. CASE \A g \in DOMAIN compared : ~Differ(now[g], compared[g])
    <3>1. stage' = "groups" /\ exit' = "running" /\ group' = 1
      BY <1>1, <1>7, <2>10 DEF SourceIteration, equ, phi, now, compared
    <3>2. Numbers' => GroupSolved'
      <4> SUFFICES ASSUME Numbers' PROVE GroupSolved'
        OBVIOUS
      <4>1. now[0] # NaN /\ now[0] # Infinity
        BY <1>2, <2>4 DEF Numbers, IsNumber
      <4>2. now[0] = moments[0]
        BY <1>5, <2>5, <2>10, <4>1 DEF Differ
      <4>3. moments' = moments
        BY <1>2, <2>4, <4>2
      <4>4. \A k : LinAlgSolve(Equation, k) = Solution(Equation, matrices, fixed, moments, k)
        BY <2>2, SolveReads DEF SolveInv
      <4>5. \A k : LinAlgSolve(Equation, k)' = Solution(Equation', matrices', fixed', moments', k)
        <5>1. (SetUpInv /\ Followed /\ stage # "start" /\ exit # "failure" =>
                \A k : LinAlgSolve(Equation, k) = Solution(Equation, matrices, fixed, moments, k))'
          BY SolveReads, PTL
        <5> QED
          BY <3>1, <5>1
      <4>6. \A k : LinAlgSolve(Equation, k)' = LinAlgSolve(Equation, k)
        BY <1>2, <1>4, <4>3, <4>4, <4>5
      <4>7. \A k \in Components(equ) : phi[k] = LinAlgSolve(Equation, k)
        BY <2>6 DEF equ
      <4> QED
        BY <1>2, <2>6, <4>6, <4>7 DEF GroupSolved
    <3> QED
      BY <1>2, <1>3, <1>5, <2>1, <2>7, <2>8, <3>1, <3>2
      DEF LineInv, GroupInv, SolvedInv, Allocated, Iterated, InGroups
  <2> QED
    BY <2>9, <2>10
<1> QED
  BY <1>6, <1>7

\* The same system with the same vectors is solved, or not, as before.
LEMMA SolvedStays ==
  ASSUME SetUpInv, Followed, SetUpInv', Followed',
         stage # "start", exit # "failure", stage' # "start", exit' # "failure",
         Equation' = Equation, matrices' = matrices, fixed' = fixed, moments' = moments,
         fluxes' = fluxes, GroupSolved
  PROVE  GroupSolved'
<1>1. \A k : LinAlgSolve(Equation, k) = Solution(Equation, matrices, fixed, moments, k)
  BY SolveReads
<1>2. \A k : LinAlgSolve(Equation, k)' = Solution(Equation', matrices', fixed', moments', k)
  <2>1. (SetUpInv /\ Followed /\ stage # "start" /\ exit # "failure" =>
          \A k : LinAlgSolve(Equation, k) = Solution(Equation, matrices, fixed, moments, k))'
    BY SolveReads, PTL
  <2> QED
    BY <2>1
<1>3. \A k : LinAlgSolve(Equation, k)' = LinAlgSolve(Equation, k)
  BY <1>1, <1>2
<1> QED
  BY <1>3 DEF GroupSolved

LEMMA ThermalPassLine ==
  ASSUME SolveInv, Followed, SetUpInv', ThermalPass
  PROVE  LineInv'
<1>1. /\ exit = "running" /\ GroupInv /\ VectorInv /\ SolvedInv
      /\ problem.n_group \in Int /\ problem.g_thermal \in Int
      /\ problem.g_thermal < problem.n_group /\ problem.g_thermal >= 0
  BY AtGroups DEF ThermalPass
<1>2. /\ problem' = problem /\ aq' = aq /\ mesh' = mesh /\ exit' = exit /\ keff' = keff
      /\ fluxes' = fluxes /\ moments' = moments /\ fixed' = fixed /\ prev' = prev
      /\ stage' = "groups" /\ group = problem.n_group /\ group' = problem.g_thermal
  BY DEF ThermalPass, system
<1>3. Equation' = Equation
  BY <1>2, EquationStays
<1>4. group' = 0
  <2>1. problem.n_group = 1
    BY <1>1, <1>2 DEF GroupInv, ThermalPass
  <2> QED
    BY <1>1, <1>2, <2>1
<1>5. problem.eigen => PassInv
  BY <1>1 DEF ThermalPass, SolvedInv, InGroups
<1>6. problem.eigen => PassInv'
  BY <1>2, <1>3, <1>5 DEF PassInv
<1>7. VectorInv'
  BY <1>1, <1>2, <1>3 DEF VectorInv
<1> QED
  BY <1>1, <1>2, <1>4, <1>6, <1>7 DEF LineInv, GroupInv, SolvedInv, Allocated, Iterated, InGroups

\* After the groups there is one, and it is solved.
LEMMA GroupsDone ==
  ASSUME SolveInv, Followed, stage = "groups", group = problem.n_group
  PROVE  group = 1 /\ problem.n_group = 1 /\ (Numbers => GroupSolved)
<1>1. /\ exit = "running" /\ GroupInv /\ SolvedInv
      /\ problem.n_group \in Int /\ problem.g_thermal \in Int
      /\ problem.g_thermal < problem.n_group /\ problem.g_thermal >= 0
  BY AtGroups
<1>2. group = 1 /\ problem.n_group = 1
  BY <1>1 DEF GroupInv
<1> QED
  BY <1>1, <1>2 DEF SolvedInv

LEMMA MGIterationsDoneLine ==
  ASSUME SolveInv, Followed, Followed', SetUpInv', MGIterationsDone
  PROVE  LineInv'
<1>1. exit = "running" /\ GroupInv /\ VectorInv
  BY AtGroups DEF MGIterationsDone
<1>2. problem.n_group = 1 /\ (Numbers => GroupSolved)
  BY GroupsDone DEF MGIterationsDone
<1>3. /\ problem' = problem /\ aq' = aq /\ mesh' = mesh /\ exit' = exit /\ keff' = keff
      /\ matrices' = matrices /\ fluxes' = fluxes /\ moments' = moments /\ fixed' = fixed
      /\ prev' = prev /\ stage = "groups" /\ stage' = "output" /\ ~problem.eigen
  BY DEF MGIterationsDone, system, iteration
<1>4. Equation' = Equation
  BY <1>3, EquationStays
<1>5. Numbers' => GroupSolved'
  BY <1>1, <1>2, <1>3, <1>4, SolvedStays DEF Numbers, SolveInv
<1>6. VectorInv'
  BY <1>1, <1>3, <1>4 DEF VectorInv
<1> QED
  BY <1>1, <1>2, <1>3, <1>5, <1>6 DEF LineInv, GroupInv, SolvedInv, Allocated, Iterated, InGroups

\* Power iteration ends with the eigenvalue and the moments it compares with.
LEMMA EigenCheckLine ==
  ASSUME SolveInv, Followed, Followed', SetUpInv', EigenCheck
  PROVE  LineInv'
<1> DEFINE f == FissionSource(Equation, moments)
           k == NextKeff(f)
<1>1. exit = "running" /\ GroupInv /\ VectorInv /\ SolvedInv
  BY AtGroups DEF EigenCheck
<1>2. problem.n_group = 1 /\ (Numbers => GroupSolved)
  BY GroupsDone DEF EigenCheck
<1>3. /\ problem' = problem /\ aq' = aq /\ mesh' = mesh /\ exit' = exit
      /\ matrices' = matrices /\ fluxes' = fluxes /\ moments' = moments /\ fixed' = fixed
      /\ prev' = prev /\ stage = "groups" /\ problem.eigen
      /\ stage' = IF EigenContinues(k, moments) THEN "eigen" ELSE "output"
  BY DEF EigenCheck, system
<1>4. keff'.now = k /\ source'.now = f
  BY DEF EigenCheck, SolveInv, SetUpInv
<1>5. PassInv
  BY <1>1, <1>3 DEF SolvedInv, InGroups
<1> HIDE DEF f, k
<1>6. VectorInv'
  <2>1. Components(Equation') = Components(Equation) /\ Groups(Equation') = Groups(Equation)
    BY <1>3, EquationShape DEF Equation
  <2> QED
    BY <1>1, <1>3, <2>1 DEF VectorInv
<1>7. CASE EigenContinues(k, moments)
  BY <1>1, <1>3, <1>6, <1>7 DEF LineInv, GroupInv, SolvedInv, Allocated, Iterated, InGroups
<1>8. CASE ~EigenContinues(k, moments)
  <2>1. stage' = "output"
    BY <1>3, <1>8
  <2>2. ASSUME Numbers, k # NaN, k # Infinity
        PROVE  GroupSolved' /\ EigenSolved'
    <3>1. keff.prev # NaN
      BY <2>2 DEF NextKeff, k
    <3>2. k = keff.now
      BY <1>5, <1>8, <2>2, <3>1 DEF EigenContinues, Differ, PassInv
    <3>3. Equation' = Equation
      BY <1>3, <1>4, <3>2, EquationStays
    <3>4. Groups(Equation) = {0}
      BY <1>1, <1>2, <1>3, OneGroupComponents DEF SolveInv
    <3>5. moments = [g \in {0} |-> moments[g]] /\ prev.eigen = [g \in {0} |-> prev.eigen[g]]
      BY <1>1, <1>5, <3>4 DEF VectorInv, PassInv
    <3>6. moments[0] # NaN /\ moments[0] # Infinity /\ 0 \in DOMAIN moments
      BY <2>2, <3>5 DEF Numbers, IsNumber
    <3>7. moments[0] = prev.eigen[0]
      BY <1>5, <1>8, <3>6 DEF EigenContinues, Differ, PassInv
    <3>8. moments = prev.eigen
      BY <3>5, <3>7
    <3>9. fixed = FixedOf(Equation, keff.now, moments)
      BY <1>5, <3>8 DEF PassInv
    <3>10. fixed' = FixedForms(Equation)'
      BY <1>3, <1>4, <3>2, <3>3, <3>9 DEF FixedForms, FixedOf
    <3>11. source'.now = FissionSource(Equation, moments)'
      BY <1>3, <1>4, <3>3 DEF f, FissionSource
    <3>12. GroupSolved'
      BY <1>1, <1>2, <1>3, <2>1, <2>2, <3>3, SolvedStays DEF SolveInv
    <3> QED
      BY <3>10, <3>11, <3>12 DEF EigenSolved
  <2>3. Numbers' /\ IsNumber(keff'.now) => GroupSolved' /\ EigenSolved'
    BY <1>3, <1>4, <2>2 DEF Numbers, IsNumber
  <2> QED
    BY <1>1, <1>2, <1>3, <1>6, <2>1, <2>3
    DEF LineInv, GroupInv, SolvedInv, Allocated, Iterated, InGroups
<1> QED
  BY <1>7, <1>8

\* What has been iterated stays while the program writes it and after.
LEMMA IteratedLine ==
  ASSUME SolveInv, Followed, Followed', SetUpInv', OutputResults \/ UNCHANGED vars
  PROVE  LineInv'
<1>1. /\ problem' = problem /\ aq' = aq /\ mesh' = mesh /\ keff' = keff
      /\ matrices' = matrices /\ fluxes' = fluxes /\ moments' = moments /\ fixed' = fixed
      /\ prev' = prev /\ source' = source /\ group' = group
  BY DEF OutputResults, vars, system, iteration
<1>2. Equation' = Equation
  BY <1>1, EquationStays
<1>3. LineInv
  BY DEF SolveInv
<1>4. GroupInv' /\ (Iterated => problem.n_group = 1)
  BY <1>1, <1>3 DEF LineInv, GroupInv, Iterated, OutputResults, vars, iteration, SolveInv, SetUpInv
<1>5. Allocated' => VectorInv'
  BY <1>1, <1>2, <1>3 DEF LineInv, VectorInv, Allocated, OutputResults, vars
<1>6. PassInv' = PassInv /\ Numbers' = Numbers
  BY <1>1, <1>2 DEF PassInv, Numbers
<1>7. ASSUME GroupSolved, stage # "start", exit # "failure" PROVE GroupSolved'
  <2>1. stage' # "start" /\ exit' # "failure"
    BY <1>7 DEF OutputResults, vars
  <2> QED
    BY <1>1, <1>2, <1>7, <2>1, SolvedStays DEF SolveInv
<1>8. EigenSolved => EigenSolved'
  <2>1. FixedForms(Equation)' = FixedForms(Equation)
    BY <1>1, <1>2 DEF FixedForms
  <2>2. FissionSource(Equation, moments)' = FissionSource(Equation, moments)
    BY <1>1, <1>2 DEF FissionSource
  <2> QED
    BY <1>1, <2>1, <2>2 DEF EigenSolved
<1>9. /\ Iterated' => Iterated
      /\ Iterated => stage # "start" /\ exit # "failure"
      /\ InGroups' => stage' = stage /\ exit' = exit /\ exit # "failure" /\ stage # "start"
  BY DEF Iterated, InGroups, OutputResults, vars, SolveInv, SetUpInv
<1>10. SolvedInv'
  BY <1>1, <1>3, <1>6, <1>7, <1>8, <1>9 DEF LineInv, SolvedInv, InGroups
<1> QED
  BY <1>4, <1>5, <1>10 DEF LineInv

-----------------------------------------------------------------------------
LEMMA InitSolveInv == LegacyInit => SolveInv
<1> SUFFICES ASSUME LegacyInit PROVE SolveInv
  OBVIOUS
<1>1. LineInv
  BY DEF LegacyInit, LineInv, GroupInv, SolvedInv, Allocated, Iterated, InGroups
<1> QED
  BY <1>1, InitSetUpInv DEF SolveInv

LEMMA NextSolveInv == SolveInv /\ [DriveBART]_vars => SolveInv'
<1> SUFFICES ASSUME SolveInv, [DriveBART]_vars PROVE SolveInv'
  OBVIOUS
<1>1. SetUpInv'
  BY NextSetUpInv DEF SolveInv
<1>2. problem' = problem
  BY DEF DriveBART, Construct, MakeGrid, InitMatVec, DoNDAIterations, DoMGIterations,
         DoEigenIterations, EigenPass, StartGroup, SourceIteration, ThermalPass,
         MGIterationsDone, EigenCheck, IterateUnfollowed, OutputResults, vars
<1>3. Followed' <=> Followed
  BY <1>2 DEF Followed, HaveReflective
<1>4. CASE ~Followed
  BY <1>1, <1>3, <1>4 DEF SolveInv
<1>5. CASE Followed
  <2>1. ~DoNDAIterations /\ ~IterateUnfollowed
    BY <1>5 DEF Followed, DoNDAIterations, IterateUnfollowed
  <2>2. LineInv'
    BY <1>1, <1>3, <1>5, <2>1, StartsLine, VectorsLine, IterationsLine, EigenPassLine,
       StartGroupLine, SourceIterationLine, ThermalPassLine, MGIterationsDoneLine,
       EigenCheckLine, IteratedLine
    DEF DriveBART
  <2> QED
    BY <1>1, <2>2 DEF SolveInv
<1> QED
  BY <1>4, <1>5

(***************************************************************************)
(* A run of the legacy program for an eigenvalue that ends well, with a    *)
(* direct solver and without reflected angular fluxes, has solved its      *)
(* problem: every flux is what another solve would find, and the fixed     *)
(* right hand sides and the fission source are those of the moments and    *)
(* the eigenvalue it ends with.  (A run without an eigenvalue solves its   *)
(* equations without their source.)                                        *)
(***************************************************************************)
THEOREM LegacySolves == LegacySpec => []LegacyOutputSolves
<1>1. SolveInv => LegacyOutputSolves
  <2> SUFFICES ASSUME SolveInv, Ended, problem.eigen, problem.linear_solver = "direct",
                      ~(problem.model = "saaf" /\ HaveReflective),
                      Numbers, IsNumber(keff.now)
               PROVE  GroupSolved /\ EigenSolved
    BY DEF LegacyOutputSolves, GroupSolved, EigenSolved, Numbers
  <2>1. Followed /\ Iterated
    BY DEF Ended, Followed, Iterated
  <2> QED
    BY <2>1 DEF SolveInv, LineInv, SolvedInv
<1> QED
  BY <1>1, InitSolveInv, NextSolveInv, PTL DEF LegacySpec

-----------------------------------------------------------------------------
(***************************************************************************)
(* The angles, of every order: a level of the set is a circle of equal     *)
(* parts, and what a reflection does to a direction it does to its level   *)
(* and its part of the circle.                                             *)
(***************************************************************************)
\* Of a level: how many equal parts of a quadrant, and how many directions.
Ring(prm, i) == IF i < prm.order \div 2 THEN i + 1 ELSE prm.order - i
PerLevel(prm, i) == (IF EvenParity(prm) THEN 2 ELSE 4) * Ring(prm, i)
LevelCount(dim, prm) == IF dim = 2 THEN prm.order \div 2 ELSE prm.order
\* The directions of LSGC, by level and azimuth.
Direction(dim, prm, i, j) ==
  [level |-> Ring(prm, i) - 1, phi |-> 2 * j - 1, circle |-> 8 * Ring(prm, i),
   z |-> IF dim = 2 THEN 0 ELSE IF i < prm.order \div 2 THEN -1 ELSE 1]
\* A rule whose reflections are looked at.
IsRule(dim, prm) ==
  /\ dim \in {2, 3} /\ prm.order \in Nat /\ prm.order % 2 = 0
  /\ ~(dim = 3 /\ EvenParity(prm))

LEMMA RingIs ==
  ASSUME NEW dim, NEW prm, IsRule(dim, prm), NEW i \in 0..LevelCount(dim, prm) - 1
  PROVE  /\ Ring(prm, i) \in Nat \ {0} /\ PerLevel(prm, i) \in Nat \ {0}
         /\ LevelCount(dim, prm) \in Nat /\ i \in Nat
         /\ Ring(prm, i) - 1 = Min({i, prm.order - 1 - i})
         /\ Sign(2 * i + 1 - prm.order) = IF i < prm.order \div 2 THEN -1 ELSE 1
         /\ dim = 2 => i < prm.order \div 2
<1> DEFINE order == prm.order
           h == prm.order \div 2
<1>1. order \in Nat /\ h \in Nat /\ order = 2 * h /\ dim \in {2, 3}
  BY DEF IsRule
<1>2. prm.order = order /\ prm.order \div 2 = h
  OBVIOUS
<1> HIDE DEF order, h
<1>3. i \in Nat /\ i < order /\ (dim = 2 => i < h) /\ LevelCount(dim, prm) \in Nat
  BY <1>1, <1>2 DEF LevelCount
<1>4. Ring(prm, i) = IF i < h THEN i + 1 ELSE order - i
  BY <1>2 DEF Ring
<1>5. Ring(prm, i) \in Nat \ {0}
  BY <1>1, <1>3, <1>4
<1>6. PerLevel(prm, i) \in Nat \ {0}
  BY <1>5 DEF PerLevel
<1>7. Min({i, order - 1 - i}) = IF i < h THEN i ELSE order - 1 - i
  <2>1. i \in Int /\ order - 1 - i \in Int
    BY <1>1, <1>3
  <2>2. i < h => i <= order - 1 - i
    BY <1>1, <1>3
  <2>3. ~(i < h) => order - 1 - i <= i
    BY <1>1, <1>3
  <2>4. ASSUME NEW a \in Int, NEW b \in Int, a <= b PROVE Min({a, b}) = a /\ Min({b, a}) = a
    BY <2>4 DEF Min
  <2> QED
    BY <2>1, <2>2, <2>3, <2>4
<1>8. Sign(2 * i + 1 - order) = IF i < h THEN -1 ELSE 1
  <2>1. i < h => 2 * i + 1 - order < 0
    BY <1>1, <1>3
  <2>2. ~(i < h) => 2 * i + 1 - order > 0
    BY <1>1, <1>3
  <2>3. 2 * i + 1 - order \in Int
    BY <1>1, <1>3
  <2> QED
    BY <2>1, <2>2, <2>3 DEF Sign
<1> QED
  BY <1>1, <1>2, <1>3, <1>4, <1>5, <1>6, <1>7, <1>8

LEMMA LevelIs ==
  ASSUME NEW dim, NEW prm, IsRule(dim, prm), NEW i \in 0..LevelCount(dim, prm) - 1
  PROVE  LevelDirections(dim, prm, i)
           = [j \in 1..PerLevel(prm, i) |-> Direction(dim, prm, i, j)]
<1> DEFINE half == prm.order \div 2
           n_level == Halved(IF i < half THEN 4 * (i + 1) ELSE 4 * (prm.order - i),
                             dim = 2 /\ EvenParity(prm))
           circle == 2 * n_level * (IF EvenParity(prm) THEN 2 ELSE 1)
<1>1. /\ Ring(prm, i) \in Nat \ {0} /\ i \in Nat
      /\ Ring(prm, i) - 1 = Min({i, prm.order - 1 - i})
      /\ Sign(2 * i + 1 - prm.order) = IF i < half THEN -1 ELSE 1
  BY RingIs
<1>2. Ring(prm, i) = IF i < half THEN i + 1 ELSE prm.order - i
  BY DEF Ring
<1>3. n_level = Halved(4 * Ring(prm, i), dim = 2 /\ EvenParity(prm))
  BY <1>2
<1>4. n_level = PerLevel(prm, i)
  BY <1>1, <1>3 DEF Halved, PerLevel, IsRule
<1>5. circle = 8 * Ring(prm, i)
  BY <1>1, <1>4 DEF PerLevel
<1>6. LevelDirections(dim, prm, i)
        = [j \in 1..n_level |->
             [level |-> Min({i, prm.order - 1 - i}), phi |-> 2 * j - 1, circle |-> circle,
              z |-> IF dim = 2 THEN 0 ELSE Sign(2 * i + 1 - prm.order)]]
  BY DEF LevelDirections
<1> HIDE DEF n_level, circle, half
<1>7. ASSUME NEW j \in 1..n_level
      PROVE  [level |-> Min({i, prm.order - 1 - i}), phi |-> 2 * j - 1, circle |-> circle,
              z |-> IF dim = 2 THEN 0 ELSE Sign(2 * i + 1 - prm.order)]
               = Direction(dim, prm, i, j)
  BY <1>1, <1>5 DEF Direction, half
<1> QED
  BY <1>4, <1>6, <1>7

\* Directions of different levels or azimuths differ.
LEMMA DirectionsDiffer ==
  ASSUME NEW dim, NEW prm, IsRule(dim, prm),
         NEW i \in 0..LevelCount(dim, prm) - 1, NEW k \in 0..LevelCount(dim, prm) - 1,
         NEW j \in Int, NEW m \in Int, Direction(dim, prm, i, j) = Direction(dim, prm, k, m)
  PROVE  i = k /\ j = m
<1>1. 2 * j - 1 = 2 * m - 1
  BY DEF Direction
<1>2. Ring(prm, i) - 1 = Ring(prm, k) - 1
  BY DEF Direction
<1>3. (IF dim = 2 THEN 0 ELSE IF i < prm.order \div 2 THEN -1 ELSE 1)
        = (IF dim = 2 THEN 0 ELSE IF k < prm.order \div 2 THEN -1 ELSE 1)
  BY DEF Direction
<1>4. /\ Ring(prm, i) \in Nat /\ Ring(prm, k) \in Nat
      /\ dim = 2 => i < prm.order \div 2 /\ k < prm.order \div 2
  BY RingIs
<1>5. i < prm.order \div 2 <=> k < prm.order \div 2
  BY <1>3, <1>4 DEF IsRule
<1>6. i \in Int /\ k \in Int /\ prm.order \in Nat
  BY DEF IsRule
<1>7. i = k
  BY <1>2, <1>4, <1>5, <1>6 DEF Ring
<1>8. j = m
  BY <1>1
<1> QED
  BY <1>7, <1>8

\* Of some numbers there is a least.
LEMMA LeastNumber ==
  ASSUME NEW S \in SUBSET Nat, S # {}
  PROVE  \E n \in S : \A m \in S : n <= m
<1> DEFINE R == OpToRel(<, Nat)
<1>1. IsWellFoundedOn(R, Nat)
  BY NatLessThanWellFounded
<1>2. \A x, y \in Nat : x < y => <<x, y>> \in R
  BY DEF OpToRel
<1> HIDE DEF R
<1>3. \E x \in S : \A y \in S : ~(<<y, x>> \in R)
  BY <1>1, WFMin
<1>4. PICK x \in S : \A y \in S : ~(<<y, x>> \in R)
  BY <1>3
<1>5. \A y \in S : ~(y < x)
  BY <1>2, <1>4
<1>6. \A y \in S : x <= y
  BY <1>5
<1> QED
  BY <1>6

\* What holds at 0 and passes from a number to the next holds up to N.
\* Recursive functions of the model are reasoned about with this.
LEMMA InductionTo ==
  ASSUME NEW N \in Nat, NEW S, 0 \in S, \A n \in 1..N : n - 1 \in S => n \in S
  PROVE  0..N \subseteq S
<1> DEFINE rest == {n \in 0..N : n \notin S}
<1> SUFFICES ASSUME rest # {} PROVE FALSE
  OBVIOUS
<1>0. rest \in SUBSET Nat
  OBVIOUS
<1> HIDE DEF rest
<1>1. PICK n \in rest : \A m \in rest : n <= m
  BY <1>0, LeastNumber
<1>2. n \in 1..N
  BY <1>1 DEF rest
<1>3. n - 1 \in S
  BY <1>1, <1>2 DEF rest
<1> QED
  BY <1>1, <1>2, <1>3 DEF rest

\* Two sequences, one after the other.
LEMMA Joined ==
  ASSUME NEW T, NEW s \in Seq(T), NEW t \in Seq(T)
  PROVE  /\ s \o t \in Seq(T) /\ Len(s \o t) = Len(s) + Len(t)
         /\ \A r \in 1..Len(s) : (s \o t)[r] = s[r]
         /\ \A j \in 1..Len(t) : (s \o t)[Len(s) + j] = t[j]
<1>1. s \o t \in Seq(T) /\ Len(s \o t) = Len(s) + Len(t) /\ Len(s) \in Nat /\ Len(t) \in Nat
  OBVIOUS
<1>2. ASSUME NEW r \in 1..Len(s) PROVE (s \o t)[r] = s[r]
  <2>1. r \in 1..Len(s) + Len(t)
    BY <1>1
  <2> QED
    BY <2>1
<1>3. ASSUME NEW j \in 1..Len(t) PROVE (s \o t)[Len(s) + j] = t[j]
  <2> DEFINE r == Len(s) + j
  <2>1. r \in 1..Len(s) + Len(t) /\ r > Len(s) /\ r - Len(s) = j
    BY <1>1
  <2> HIDE DEF r
  <2>2. (s \o t)[r] = t[r - Len(s)]
    BY <2>1
  <2> QED
    BY <2>1, <2>2 DEF r
<1> QED
  BY <1>1, <1>2, <1>3

\* The directions of the first l levels, in a sequence without repetitions.
AllDirections(dim, prm) == {Direction(dim, prm, i, j) : i \in Int, j \in Int}
LevelsIn(dim, prm, l, dirs) ==
  /\ dirs \in Seq(AllDirections(dim, prm))
  /\ \A r \in 1..Len(dirs) : \E i \in 0..l - 1 : \E j \in 1..PerLevel(prm, i) :
       dirs[r] = Direction(dim, prm, i, j)
  /\ \A i \in 0..l - 1 : \A j \in 1..PerLevel(prm, i) : \E r \in 1..Len(dirs) :
       dirs[r] = Direction(dim, prm, i, j)
  /\ \A r, s \in 1..Len(dirs) : dirs[r] = dirs[s] => r = s

LEMMA LevelJoins ==
  ASSUME NEW dim, NEW prm, IsRule(dim, prm), NEW l \in 1..LevelCount(dim, prm), NEW before,
         LevelsIn(dim, prm, l - 1, before)
  PROVE  LevelsIn(dim, prm, l, before \o LevelDirections(dim, prm, l - 1))
<1> DEFINE level == LevelDirections(dim, prm, l - 1)
           after == before \o level
           n == PerLevel(prm, l - 1)
           b == Len(before)
           T == AllDirections(dim, prm)
<1>1. LevelCount(dim, prm) \in Nat /\ l \in Int /\ l - 1 \in 0..LevelCount(dim, prm) - 1
  <2>1. LevelCount(dim, prm) \in Nat
    BY DEF LevelCount, IsRule
  <2> QED
    BY <2>1
<1>2. n \in Nat \ {0} /\ level = [j \in 1..n |-> Direction(dim, prm, l - 1, j)]
  <2>1. level = [j \in 1..n |-> Direction(dim, prm, l - 1, j)]
    BY <1>1, LevelIs
  <2>2. n \in Nat \ {0}
    BY <1>1, RingIs
  <2> QED
    BY <2>1, <2>2
<1>3. before \in Seq(T) /\ b \in Nat /\ b = Len(before)
  BY DEF LevelsIn
<1>4. before \o level = after
  OBVIOUS
<1> HIDE DEF level, after, n, b
<1>5. level \in Seq(T) /\ Len(level) = n
  <2>1. ASSUME NEW j \in 1..n PROVE Direction(dim, prm, l - 1, j) \in T
    <3>1. l - 1 \in Int /\ j \in Int
      BY <1>1
    <3> QED
      BY <3>1 DEF AllDirections
  <2> HIDE DEF T
  <2>2. level \in [1..n -> T]
    BY <1>2, <2>1
  <2> QED
    BY <1>2, <2>2
<1> HIDE DEF T
<1>6. /\ after \in Seq(T) /\ Len(after) = b + n
      /\ \A r \in 1..b : after[r] = before[r]
      /\ \A j \in 1..n : after[b + j] = level[j]
  <2>1. /\ before \o level \in Seq(T) /\ Len(before \o level) = Len(before) + Len(level)
        /\ \A r \in 1..Len(before) : (before \o level)[r] = before[r]
        /\ \A j \in 1..Len(level) : (before \o level)[Len(before) + j] = level[j]
    BY <1>3, <1>5, Joined
  <2> QED
    BY <1>3, <1>4, <1>5, <2>1
<1>8. Len(after) = b + n /\ b + n \in Nat
  BY <1>2, <1>3, <1>6
<1>9. \A r \in 1..b : after[r] = before[r]
  BY <1>6
<1>10. \A j \in 1..n : after[b + j] = Direction(dim, prm, l - 1, j)
  BY <1>2, <1>6
<1>11. \A r \in 1..Len(after) : r \in 1..b \/ (r - b \in 1..n /\ r = b + (r - b))
  BY <1>2, <1>3, <1>8
<1>13. \A i \in 0..l - 1 : i \in 0..(l - 1) - 1 \/ i = l - 1
  OBVIOUS
<1>14. \A i \in 0..(l - 1) - 1 : i \in 0..l - 1 /\ i # l - 1 /\ i \in 0..LevelCount(dim, prm) - 1
  BY <1>1
<1>15. ASSUME NEW r \in 1..Len(after)
       PROVE  \E i \in 0..l - 1 : \E j \in 1..PerLevel(prm, i) :
                after[r] = Direction(dim, prm, i, j)
  <2>1. CASE r \in 1..b
    <3>1. \E i \in 0..(l - 1) - 1 : \E j \in 1..PerLevel(prm, i) :
            before[r] = Direction(dim, prm, i, j)
      BY <2>1 DEF LevelsIn, b
    <3> QED
      BY <1>9, <1>14, <2>1, <3>1
  <2>2. CASE r - b \in 1..n /\ r = b + (r - b)
    <3>1. after[r] = Direction(dim, prm, l - 1, r - b)
      BY <1>10, <2>2
    <3>2. l - 1 \in 0..l - 1
      BY <1>1
    <3> QED
      BY <2>2, <3>1, <3>2 DEF n
  <2> QED
    BY <1>11, <2>1, <2>2
<1>16. ASSUME NEW i \in 0..l - 1, NEW j \in 1..PerLevel(prm, i)
       PROVE  \E r \in 1..Len(after) : after[r] = Direction(dim, prm, i, j)
  <2>1. CASE i \in 0..(l - 1) - 1
    <3>1. PICK r \in 1..b : before[r] = Direction(dim, prm, i, j)
      BY <2>1 DEF LevelsIn, b
    <3>2. r \in 1..Len(after)
      BY <1>2, <1>3, <1>8
    <3> QED
      BY <1>9, <3>1, <3>2
  <2>2. CASE i = l - 1
    <3>1. j \in 1..n
      BY <2>2 DEF n
    <3>2. b + j \in 1..Len(after)
      BY <1>2, <1>3, <1>8, <3>1
    <3> QED
      BY <1>10, <2>2, <3>1, <3>2
  <2> QED
    BY <1>13, <2>1, <2>2
<1>17. ASSUME NEW r \in 1..b, NEW j \in 1..n
       PROVE  after[r] # Direction(dim, prm, l - 1, j)
  <2>1. PICK i \in 0..(l - 1) - 1 : \E m \in 1..PerLevel(prm, i) :
          before[r] = Direction(dim, prm, i, m)
    BY DEF LevelsIn, b
  <2>2. PICK m \in 1..PerLevel(prm, i) : before[r] = Direction(dim, prm, i, m)
    BY <2>1
  <2>3. i # l - 1 /\ i \in 0..LevelCount(dim, prm) - 1 /\ m \in Int /\ j \in Int
    BY <1>14
  <2> QED
    BY <1>1, <1>9, <2>2, <2>3, DirectionsDiffer
<1>18. ASSUME NEW r \in 1..Len(after), NEW s \in 1..Len(after), after[r] = after[s]
       PROVE  r = s
  <2>1. CASE r \in 1..b /\ s \in 1..b
    BY <1>9, <1>18, <2>1 DEF LevelsIn, b
  <2>2. CASE r \in 1..b /\ s - b \in 1..n /\ s = b + (s - b)
    BY <1>10, <1>17, <1>18, <2>2
  <2>3. CASE s \in 1..b /\ r - b \in 1..n /\ r = b + (r - b)
    BY <1>10, <1>17, <1>18, <2>3
  <2>4. CASE r - b \in 1..n /\ s - b \in 1..n /\ r = b + (r - b) /\ s = b + (s - b)
    <3>1. Direction(dim, prm, l - 1, r - b) = Direction(dim, prm, l - 1, s - b)
      BY <1>10, <1>18, <2>4
    <3>2. r - b \in Int /\ s - b \in Int
      BY <2>4
    <3>3. r - b = s - b
      BY <1>1, <3>1, <3>2, DirectionsDiffer
    <3> QED
      BY <2>4, <3>3
  <2> QED
    BY <1>11, <2>1, <2>2, <2>3, <2>4
<1> QED
  BY <1>4, <1>6, <1>15, <1>16, <1>18 DEF LevelsIn, level, T

LevelsBelow(dim, prm, L, f) ==
  f = [i \in 0..L |-> IF i = 0 THEN <<>> ELSE f[i - 1] \o LevelDirections(dim, prm, i - 1)]

\* There are such directions, of any number of levels.
LEMMA LevelsExist ==
  ASSUME NEW dim, NEW prm, NEW N \in Nat
  PROVE  \E f : LevelsBelow(dim, prm, N, f)
<1> DEFINE S == {n \in 0..N : \E f : LevelsBelow(dim, prm, n, f)}
<1>1. 0 \in S
  <2> DEFINE f == [n \in 0..0 |-> <<>>]
  <2>1. LevelsBelow(dim, prm, 0, f)
    BY DEF LevelsBelow
  <2> QED
    BY <2>1
<1>2. ASSUME NEW n \in 1..N, n - 1 \in S PROVE n \in S
  <2>1. PICK f : LevelsBelow(dim, prm, n - 1, f)
    BY <1>2
  <2> DEFINE last == f[n - 1] \o LevelDirections(dim, prm, n - 1)
             g == [i \in 0..n |-> IF i = n THEN last ELSE f[i]]
  <2> HIDE DEF last
  <2>2. ASSUME NEW i \in 0..n
        PROVE  g[i] = IF i = 0 THEN <<>> ELSE g[i - 1] \o LevelDirections(dim, prm, i - 1)
    <3>1. CASE i = n
      <4>1. g[i] = last /\ g[i - 1] = f[n - 1] /\ i # 0
        BY <3>1
      <4> QED
        BY <3>1, <4>1 DEF last
    <3>2. CASE i # n
      <4>1. i \in 0..n-1 /\ g[i] = f[i] /\ (i # 0 => g[i - 1] = f[i - 1])
        BY <3>2
      <4>2. f[i] = IF i = 0 THEN <<>> ELSE f[i - 1] \o LevelDirections(dim, prm, i - 1)
        BY <2>1, <4>1 DEF LevelsBelow
      <4> QED
        BY <4>1, <4>2
    <3> QED
      BY <3>1, <3>2
  <2>3. LevelsBelow(dim, prm, n, g)
    BY <2>2 DEF LevelsBelow
  <2> QED
    BY <2>3
<1> HIDE DEF S
<1>3. \A n \in 1..N : n - 1 \in S => n \in S
  BY <1>2
<1>4. 0..N \subseteq S
  BY <1>1, <1>3, InductionTo
<1>5. N \in S
  BY <1>4
<1> QED
  BY <1>5 DEF S

LEMMA LevelSymmetricIs ==
  ASSUME NEW dim, NEW prm, IsRule(dim, prm)
  PROVE  LevelsIn(dim, prm, LevelCount(dim, prm), LevelSymmetric(dim, prm))
<1> DEFINE N == LevelCount(dim, prm)
           f == CHOOSE f : LevelsBelow(dim, prm, N, f)
           S == {n \in 0..N : LevelsIn(dim, prm, n, f[n])}
<1>1. N \in Nat /\ N = Halved(prm.order, ~(dim = 3 /\ ~EvenParity(prm)))
  BY DEF LevelCount, IsRule, Halved
<1>2. LevelsBelow(dim, prm, N, f)
  <2>1. \E g : LevelsBelow(dim, prm, N, g)
    BY <1>1, LevelsExist
  <2> QED
    BY <2>1
<1>3. LevelSymmetric(dim, prm) = f[N]
  BY <1>1 DEF LevelSymmetric, LevelsBelow
<1> HIDE DEF f
<1>4. 0 \in S
  <2>1. f[0] = <<>>
    BY <1>1, <1>2 DEF LevelsBelow
  <2>2. LevelsIn(dim, prm, 0, <<>>)
    BY DEF LevelsIn
  <2> QED
    BY <1>1, <2>1, <2>2
<1>5. ASSUME NEW l \in 1..N, l - 1 \in S PROVE l \in S
  <2>1. f[l] = f[l - 1] \o LevelDirections(dim, prm, l - 1)
    <3>1. l \in 0..N /\ l # 0
      BY <1>1
    <3> HIDE DEF N
    <3> QED
      BY <1>2, <3>1 DEF LevelsBelow
  <2>2. LevelsIn(dim, prm, l - 1, f[l - 1])
    BY <1>5
  <2>3. LevelsIn(dim, prm, l, f[l])
    BY <2>1, <2>2, LevelJoins
  <2> QED
    BY <1>1, <2>3
<1> HIDE DEF S, N
<1>6. \A l \in 1..N : l - 1 \in S => l \in S
  BY <1>5
<1>7. 0..N \subseteq S
  BY <1>1, <1>4, <1>6, InductionTo
<1>8. N \in S
  BY <1>1, <1>7
<1> QED
  BY <1>3, <1>8 DEF S, N

\* What is left of a number up to twice a circle, less the circle.
LEMMA AroundTheCircle ==
  ASSUME NEW circle \in Nat \ {0}, NEW q \in 0..circle - 1
  PROVE  q % circle = q /\ (circle + q) % circle = q
OBVIOUS

\* The level and the azimuth on the other side of a plane.
MirrorLevel(prm, side, i) == IF side \div 2 = 2 THEN prm.order - 1 - i ELSE i
MirrorAzimuth(prm, side, i, j) ==
  IF side \div 2 = 2 THEN j
  ELSE IF EvenParity(prm) THEN 2 * Ring(prm, i) - j + 1
  ELSE IF side \div 2 = 1 THEN 4 * Ring(prm, i) - j + 1
  ELSE IF j > 2 * Ring(prm, i) THEN 6 * Ring(prm, i) - j + 1
  ELSE 2 * Ring(prm, i) - j + 1

LEMMA MirrorLevelIs ==
  ASSUME NEW dim, NEW prm, IsRule(dim, prm), NEW side \in 0..2 * dim - 1,
         NEW i \in 0..LevelCount(dim, prm) - 1
  PROVE  LET k == MirrorLevel(prm, side, i)
         IN  /\ k \in 0..LevelCount(dim, prm) - 1
             /\ Ring(prm, k) = Ring(prm, i) /\ MirrorLevel(prm, side, k) = i
             /\ side \div 2 \in 0..2
             /\ side \div 2 = 2 => /\ dim = 3
                                   /\ k < prm.order \div 2 <=> ~(i < prm.order \div 2)
<1> DEFINE order == prm.order
           h == prm.order \div 2
           k == MirrorLevel(prm, side, i)
<1>1. order \in Nat /\ h \in Nat /\ order = 2 * h /\ dim \in {2, 3}
  BY DEF IsRule
<1>2. prm.order = order /\ prm.order \div 2 = h
  OBVIOUS
<1> HIDE DEF order, h
<1>3. side \div 2 \in 0..2 /\ (side \div 2 = 2 => dim = 3)
  BY <1>1
<1>4. i \in Int /\ i >= 0 /\ i < LevelCount(dim, prm)
  BY <1>1, <1>2 DEF LevelCount
<1>5. CASE side \div 2 = 2
  <2>1. k = order - 1 - i /\ dim = 3 /\ LevelCount(dim, prm) = order
    BY <1>2, <1>3, <1>5 DEF MirrorLevel, LevelCount
  <2>2. k \in 0..order - 1 /\ order - 1 - k = i /\ (k < h <=> ~(i < h))
    BY <1>1, <1>4, <2>1
  <2>3. Ring(prm, k) = Ring(prm, i)
    BY <1>1, <1>2, <1>4, <2>1, <2>2 DEF Ring
  <2>4. MirrorLevel(prm, side, k) = i
    BY <1>2, <1>5, <2>2 DEF MirrorLevel
  <2> QED
    BY <1>2, <1>3, <2>1, <2>2, <2>3, <2>4
<1>6. CASE side \div 2 # 2
  <2>1. k = i
    BY <1>6 DEF MirrorLevel
  <2> QED
    BY <1>3, <1>6, <2>1
<1> QED
  BY <1>5, <1>6

LEMMA MirrorAzimuthIs ==
  ASSUME NEW dim, NEW prm, IsRule(dim, prm), NEW side \in 0..2 * dim - 1,
         NEW i \in 0..LevelCount(dim, prm) - 1, NEW j \in 1..PerLevel(prm, i)
  PROVE  LET k == MirrorLevel(prm, side, i)
             m == MirrorAzimuth(prm, side, i, j)
         IN  m \in 1..PerLevel(prm, k) /\ MirrorAzimuth(prm, side, k, m) = j
<1> DEFINE k == MirrorLevel(prm, side, i)
           m == MirrorAzimuth(prm, side, i, j)
           R == Ring(prm, i)
           n == PerLevel(prm, i)
<1>1. Ring(prm, k) = R /\ side \div 2 \in 0..2 /\ (side \div 2 = 2 => dim = 3)
  BY MirrorLevelIs
<1>2. R \in Nat \ {0} /\ n \in Nat /\ PerLevel(prm, k) = n
  BY <1>1, RingIs DEF PerLevel
<1>3. n = IF EvenParity(prm) THEN 2 * R ELSE 4 * R
  BY DEF PerLevel
<1> HIDE DEF k, R, n
<1>4. j \in Int /\ 1 <= j /\ j <= n
  BY <1>2 DEF n
<1>5. \A x \in Int : MirrorAzimuth(prm, side, k, x) = MirrorAzimuth(prm, side, i, x)
  BY <1>1 DEF MirrorAzimuth, R
<1>6. CASE side \div 2 = 2
  BY <1>1, <1>2, <1>4, <1>6 DEF MirrorAzimuth, k
<1>7. CASE side \div 2 # 2 /\ EvenParity(prm)
  <2>1. m = 2 * R - j + 1 /\ MirrorAzimuth(prm, side, k, m) = 2 * R - m + 1
    BY <1>1, <1>7 DEF MirrorAzimuth, R
  <2> HIDE DEF m
  <2>2. m \in 1..n /\ 2 * R - m + 1 = j
    BY <1>2, <1>3, <1>4, <1>7, <2>1
  <2> QED
    BY <1>2, <2>1, <2>2 DEF k, m
<1>8. CASE side \div 2 = 1 /\ ~EvenParity(prm)
  <2>1. m = 4 * R - j + 1 /\ MirrorAzimuth(prm, side, k, m) = 4 * R - m + 1
    BY <1>1, <1>8 DEF MirrorAzimuth, R
  <2> HIDE DEF m
  <2>2. m \in 1..n /\ 4 * R - m + 1 = j
    BY <1>2, <1>3, <1>4, <1>8, <2>1
  <2> QED
    BY <1>2, <2>1, <2>2 DEF k, m
<1>9. CASE side \div 2 = 0 /\ ~EvenParity(prm)
  <2>1. /\ m = IF j > 2 * R THEN 6 * R - j + 1 ELSE 2 * R - j + 1
        /\ MirrorAzimuth(prm, side, k, m) = IF m > 2 * R THEN 6 * R - m + 1 ELSE 2 * R - m + 1
    BY <1>1, <1>9 DEF MirrorAzimuth, R
  <2> HIDE DEF m
  <2>2. n = 4 * R
    BY <1>3, <1>9
  <2>3. m \in 1..n /\ (IF m > 2 * R THEN 6 * R - m + 1 ELSE 2 * R - m + 1) = j
    BY <1>2, <1>4, <2>1, <2>2
  <2> QED
    BY <1>2, <2>1, <2>3 DEF k, m
<1> QED
  BY <1>1, <1>6, <1>7, <1>8, <1>9 DEF k

\* Of the directions of the rule one is found on the other side of the plane:
\* the image itself or, for even parity, the opposite of the image.
LEMMA ImageIs ==
  ASSUME NEW dim, NEW prm, IsRule(dim, prm), NEW side \in 0..2 * dim - 1,
         NEW i \in 0..LevelCount(dim, prm) - 1, NEW j \in 1..PerLevel(prm, i),
         NEW k \in 0..LevelCount(dim, prm) - 1, NEW m \in 1..PerLevel(prm, k)
  PROVE  LET out == Mirrored(dim, side, Direction(dim, prm, i, j))
             e == Direction(dim, prm, k, m)
         IN  (e = out \/ (EvenParity(prm) /\ e = Opposite(dim, out)))
               <=> e = Direction(dim, prm, MirrorLevel(prm, side, i), MirrorAzimuth(prm, side, i, j))
<1> DEFINE R == Ring(prm, i)
           z == IF dim = 2 THEN 0 ELSE IF i < prm.order \div 2 THEN -1 ELSE 1
           phi == 2 * j - 1
           circle == 8 * R
           d == [level |-> R - 1, phi |-> phi, circle |-> circle, z |-> z]
           out == Mirrored(dim, side, Direction(dim, prm, i, j))
           e == Direction(dim, prm, k, m)
           p == MirrorLevel(prm, side, i)
           q == MirrorAzimuth(prm, side, i, j)
           image == Direction(dim, prm, p, q)
           n == PerLevel(prm, i)
<1>1. /\ Ring(prm, p) = R /\ side \div 2 \in 0..2
      /\ p \in 0..LevelCount(dim, prm) - 1
      /\ side \div 2 = 2 => /\ dim = 3
                            /\ p < prm.order \div 2 <=> ~(i < prm.order \div 2)
  BY MirrorLevelIs
<1>2. R \in Nat \ {0} /\ n \in Nat
  BY RingIs
<1>3. n = IF EvenParity(prm) THEN 2 * R ELSE 4 * R
  BY DEF PerLevel
<1>4. Direction(dim, prm, i, j) = d
  BY DEF Direction
<1>5. dim \in {2, 3} /\ (EvenParity(prm) => dim = 2)
  BY DEF IsRule
<1>6. j \in Int /\ 1 <= j /\ j <= n
  BY <1>2
<1>7. z \in Int /\ phi \in Int /\ circle \in Nat \ {0} /\ circle \div 2 = 4 * R
  BY <1>2, <1>6
<1>8. image = [level |-> R - 1, phi |-> 2 * q - 1, circle |-> circle,
               z |-> IF dim = 2 THEN 0 ELSE IF p < prm.order \div 2 THEN -1 ELSE 1]
  BY <1>1 DEF Direction
<1>9. CASE side \div 2 = 2
  <2>1. p = prm.order - 1 - i /\ q = j /\ dim = 3 /\ ~EvenParity(prm)
    BY <1>1, <1>5, <1>9 DEF MirrorLevel, MirrorAzimuth
  <2>2. out = [d EXCEPT !.z = -d.z]
    BY <1>4, <1>9, <2>1 DEF Mirrored
  <2>3. out = [level |-> R - 1, phi |-> phi, circle |-> circle, z |-> -z]
    BY <2>2
  <2>4. -z = IF dim = 2 THEN 0 ELSE IF p < prm.order \div 2 THEN -1 ELSE 1
    BY <1>1, <1>9, <2>1
  <2>5. out = image
    BY <1>8, <2>1, <2>3, <2>4
  <2> QED
    BY <2>1, <2>5
<1>10. ASSUME side \div 2 # 2
       PROVE  /\ p = i /\ image = [level |-> R - 1, phi |-> 2 * q - 1, circle |-> circle, z |-> z]
              /\ side \div 2 \in {0, 1}
              /\ out = [level |-> R - 1, circle |-> circle, z |-> z,
                        phi |-> IF side \div 2 = 0 THEN (12 * R - phi) % circle
                                ELSE (circle - phi) % circle]
  <2>1. p = i
    BY <1>10 DEF MirrorLevel
  <2>2. side \div 2 \in {0, 1} /\ ~(side \div 2 = dim - 1 /\ dim # 2) /\ dim # 1
    BY <1>1, <1>5, <1>10
  <2>3. d.circle + d.circle \div 2 - d.phi = 12 * R - phi /\ d.circle - d.phi = circle - phi
    BY <1>2, <1>7
  <2>4. CASE side \div 2 = 0
    <3>1. out = [d EXCEPT !.phi = (d.circle + d.circle \div 2 - d.phi) % d.circle]
      BY <1>4, <2>2, <2>4 DEF Mirrored
    <3>2. out = [d EXCEPT !.phi = (12 * R - phi) % circle]
      BY <2>3, <3>1
    <3> QED
      BY <1>8, <2>1, <2>2, <2>4, <3>2
  <2>5. CASE side \div 2 = 1
    <3>1. out = [d EXCEPT !.phi = (d.circle - d.phi) % d.circle]
      BY <1>4, <2>2, <2>5 DEF Mirrored
    <3>2. out = [d EXCEPT !.phi = (circle - phi) % circle]
      BY <2>3, <3>1
    <3> QED
      BY <1>8, <2>1, <2>2, <2>5, <3>2
  <2> QED
    BY <2>2, <2>4, <2>5
<1>11. CASE side \div 2 # 2 /\ ~EvenParity(prm)
  <2>1. (IF side \div 2 = 0 THEN (12 * R - phi) % circle ELSE (circle - phi) % circle) = 2 * q - 1
    <3>1. CASE side \div 2 = 1
      <4>1. q = 4 * R - j + 1
        BY <1>11, <3>1 DEF MirrorAzimuth
      <4>2. circle - phi = 2 * q - 1 /\ 2 * q - 1 \in 0..circle - 1
        BY <1>2, <1>3, <1>6, <1>11, <4>1
      <4>3. (circle - phi) % circle = 2 * q - 1
        BY <1>7, <4>2, AroundTheCircle
      <4> QED
        BY <3>1, <4>3
    <3>2. CASE side \div 2 = 0 /\ j > 2 * R
      <4>1. q = 6 * R - j + 1
        BY <1>11, <3>2 DEF MirrorAzimuth
      <4>2. 12 * R - phi = 2 * q - 1 /\ 2 * q - 1 \in 0..circle - 1
        BY <1>2, <1>3, <1>6, <1>11, <3>2, <4>1
      <4>3. (12 * R - phi) % circle = 2 * q - 1
        BY <1>7, <4>2, AroundTheCircle
      <4> QED
        BY <3>2, <4>3
    <3>3. CASE side \div 2 = 0 /\ ~(j > 2 * R)
      <4>1. q = 2 * R - j + 1
        BY <1>11, <3>3 DEF MirrorAzimuth
      <4>2. 12 * R - phi = circle + (2 * q - 1) /\ 2 * q - 1 \in 0..circle - 1
        BY <1>2, <1>3, <1>6, <1>11, <3>3, <4>1
      <4>3. (12 * R - phi) % circle = 2 * q - 1
        BY <1>7, <4>2, AroundTheCircle
      <4> QED
        BY <3>3, <4>3
    <3> QED
      BY <1>10, <1>11, <3>1, <3>2, <3>3
  <2>2. out = image
    BY <1>10, <1>11, <2>1
  <2> QED
    BY <1>11, <2>2
<1>12. CASE side \div 2 # 2 /\ EvenParity(prm)
  <2>1. dim = 2 /\ z = 0 /\ n = 2 * R /\ q = 2 * R - j + 1
    BY <1>3, <1>5, <1>12 DEF MirrorAzimuth
  <2>2. /\ 2 * q - 1 = 4 * R - phi /\ 4 * R - phi \in 0..circle - 1
        /\ 8 * R - phi \in 0..circle - 1 /\ 8 * R - phi > 4 * R
        /\ 12 * R - phi = circle + (4 * R - phi) /\ circle - phi = 8 * R - phi
        /\ 4 * R - phi + 4 * R = 8 * R - phi /\ 8 * R - phi + 4 * R = circle + (4 * R - phi)
    BY <1>2, <1>6, <2>1
  <2>3. /\ (12 * R - phi) % circle = 4 * R - phi /\ (circle - phi) % circle = 8 * R - phi
        /\ (4 * R - phi + 4 * R) % circle = 8 * R - phi
        /\ (8 * R - phi + 4 * R) % circle = 4 * R - phi
    BY <1>7, <2>2, AroundTheCircle
  <2> DEFINE near == [level |-> R - 1, phi |-> 4 * R - phi, circle |-> circle, z |-> 0]
             far == [level |-> R - 1, phi |-> 8 * R - phi, circle |-> circle, z |-> 0]
  <2>4. image = near
    BY <1>10, <1>12, <2>1, <2>2
  <2>5. Opposite(dim, near) = far /\ Opposite(dim, far) = near
    <3>0. near.circle = circle /\ far.circle = circle /\ near.z = 0 /\ far.z = 0
      OBVIOUS
    <3>1. near.circle \div 2 = 4 * R /\ far.circle \div 2 = 4 * R /\ -near.z = 0 /\ -far.z = 0 /\ dim # 1
      <4>1. near.circle \div 2 = 4 * R
        BY <1>7, <3>0
      <4>2. far.circle \div 2 = 4 * R
        BY <1>7, <3>0
      <4>3. -near.z = 0 /\ -far.z = 0
        <5>1. \A x \in Int : -x = 0 - x
          OBVIOUS
        <5>2. near.z = 0 /\ far.z = 0 /\ 0 \in Int
          BY <3>0
        <5>3. 0 - 0 = 0
          OBVIOUS
        <5> HIDE DEF near, far
        <5> QED
          BY <5>1, <5>2, <5>3, Zenon
      <4> QED
        BY <2>1, <4>1, <4>2, <4>3
    <3>2. Opposite(dim, near) = [near EXCEPT !.z = 0, !.phi = (4 * R - phi + 4 * R) % circle]
      BY <3>1 DEF Opposite
    <3>3. Opposite(dim, far) = [far EXCEPT !.z = 0, !.phi = (8 * R - phi + 4 * R) % circle]
      BY <3>1 DEF Opposite
    <3> QED
      BY <2>3, <3>2, <3>3
  <2>6. out = near \/ out = far
    BY <1>10, <1>12, <2>1, <2>3
  <2>7. e # far
    <3>1. Ring(prm, k) \in Nat \ {0} /\ PerLevel(prm, k) = 2 * Ring(prm, k)
      BY <1>12, RingIs DEF PerLevel
    <3>2. m \in Int /\ m <= 2 * Ring(prm, k)
      BY <3>1
    <3>3. e.level = Ring(prm, k) - 1 /\ e.phi = 2 * m - 1
      BY DEF Direction
    <3>4. far.level = R - 1 /\ far.phi = 8 * R - phi
      OBVIOUS
    <3> HIDE DEF far, e
    <3>5. ASSUME e = far PROVE FALSE
      <4>1. Ring(prm, k) - 1 = R - 1 /\ 2 * m - 1 = 8 * R - phi
        BY <3>3, <3>4, <3>5
      <4> HIDE DEF phi, R
      <4>2. Ring(prm, k) = R /\ phi \in Int
        BY <1>2, <1>7, <3>1, <4>1
      <4> QED
        BY <1>2, <2>2, <3>1, <3>2, <4>1, <4>2
    <3> QED
      BY <3>5
  <2> HIDE DEF near, far, e, image, out
  <2> QED
    BY <1>12, <2>4, <2>5, <2>6, <2>7 DEF e, image, out
<1> QED
  BY <1>9, <1>11, <1>12

\* Each of two directions is the only image of the other.
MirrorPair(dim, prm, directions, side, d, r) ==
  /\ d \in Int /\ r \in Int
  /\ ReflectedInto(dim, prm, directions, side, d) = {r}
  /\ ReflectedInto(dim, prm, directions, side, r) = {d}

\* A direction is reflected, into one that is reflected back into it.
ComesBack(reflective, side, d) ==
  /\ <<side, d>> \in DOMAIN reflective
  /\ reflective[<<side, reflective[<<side, d>>]>>] = d

\* What the reflections of a set of directions come to when two of them are
\* such a pair.
LEMMA PairReflects ==
  ASSUME NEW dim, NEW prm, prm.have_reflective, NEW directions,
         NEW side \in 0..2 * dim - 1, NEW d \in DOMAIN directions, NEW r \in DOMAIN directions,
         MirrorPair(dim, prm, directions, side, d, r)
  PROVE  ComesBack(InitRefBCInd(dim, prm, directions), side, d)
<1> DEFINE into(at) == ReflectedInto(dim, prm, directions, at[1], at[2])
           found == {at \in (0..2 * dim - 1) \X DOMAIN directions : into(at) # {}}
           reflective == InitRefBCInd(dim, prm, directions)
<1>1. reflective = [at \in found |-> Max(into(at))]
  BY DEF InitRefBCInd
<1>2. \A x \in Int : Max({x}) = x
  BY DEF Max
<1>3. into(<<side, d>>) = {r} /\ into(<<side, r>>) = {d} /\ d \in Int /\ r \in Int
  BY DEF MirrorPair
<1>4. <<side, d>> \in found /\ <<side, r>> \in found
  BY <1>3
<1> HIDE DEF found, reflective
<1>5. DOMAIN reflective = found
  BY <1>1
<1>6. reflective[<<side, d>>] = r
  <2>1. reflective[<<side, d>>] = Max(into(<<side, d>>))
    BY <1>1, <1>4
  <2> QED
    BY <1>2, <1>3, <2>1
<1>7. reflective[<<side, r>>] = d
  <2>1. reflective[<<side, r>>] = Max(into(<<side, r>>))
    BY <1>1, <1>4
  <2> QED
    BY <1>2, <1>3, <2>1
<1> QED
  BY <1>4, <1>5, <1>6, <1>7 DEF reflective, ComesBack

\* In a plane and in space the image of a direction is a direction, and its
\* image is the first.
LEMMA LevelSymmetricReflects ==
  ASSUME NEW dim, NEW prm, IsRule(dim, prm), prm.have_reflective,
         NEW side \in 0..2 * dim - 1, NEW d \in DOMAIN LevelSymmetric(dim, prm)
  PROVE  \E r \in DOMAIN LevelSymmetric(dim, prm) : MirrorPair(dim, prm, LevelSymmetric(dim, prm), side, d, r)
<1> DEFINE dirs == LevelSymmetric(dim, prm)
           L == LevelCount(dim, prm)
<1>1. LevelsIn(dim, prm, L, dirs)
  BY LevelSymmetricIs
<1> HIDE DEF dirs, L
<1>2. DOMAIN dirs = 1..Len(dirs) /\ Len(dirs) \in Nat
  BY <1>1 DEF LevelsIn
<1>3. \A r \in DOMAIN dirs : \E i \in 0..L - 1 : \E j \in 1..PerLevel(prm, i) :
        dirs[r] = Direction(dim, prm, i, j)
  BY <1>1, <1>2 DEF LevelsIn
<1>4. \A i \in 0..L - 1 : \A j \in 1..PerLevel(prm, i) : \E r \in DOMAIN dirs :
        dirs[r] = Direction(dim, prm, i, j)
  BY <1>1, <1>2 DEF LevelsIn
<1>5. \A r, s \in DOMAIN dirs : dirs[r] = dirs[s] => r = s
  BY <1>1, <1>2 DEF LevelsIn
<1>6. ASSUME NEW i \in 0..L - 1, NEW j \in 1..PerLevel(prm, i), NEW x \in DOMAIN dirs,
             NEW y \in DOMAIN dirs, dirs[x] = Direction(dim, prm, i, j),
             dirs[y] = Direction(dim, prm, MirrorLevel(prm, side, i),
                                 MirrorAzimuth(prm, side, i, j))
      PROVE  ReflectedInto(dim, prm, dirs, side, x) = {y}
  <2> DEFINE out == Mirrored(dim, side, dirs[x])
             image(e) == e = out \/ (EvenParity(prm) /\ e = Opposite(dim, out))
  <2>1. ReflectedInto(dim, prm, dirs, side, x) = {r \in DOMAIN dirs : image(dirs[r])}
    BY DEF ReflectedInto
  <2>2. ASSUME NEW r \in DOMAIN dirs PROVE image(dirs[r]) <=> dirs[r] = dirs[y]
    <3>1. PICK k \in 0..L - 1 : \E m \in 1..PerLevel(prm, k) : dirs[r] = Direction(dim, prm, k, m)
      BY <1>3
    <3>2. PICK m \in 1..PerLevel(prm, k) : dirs[r] = Direction(dim, prm, k, m)
      BY <3>1
    <3> DEFINE e == Direction(dim, prm, k, m)
               its == Mirrored(dim, side, Direction(dim, prm, i, j))
    <3>3. (e = its \/ (EvenParity(prm) /\ e = Opposite(dim, its)))
            <=> e = Direction(dim, prm, MirrorLevel(prm, side, i), MirrorAzimuth(prm, side, i, j))
      BY ImageIs DEF L
    <3> QED
      BY <1>6, <3>2, <3>3
  <2> HIDE DEF image
  <2> QED
    BY <1>5, <2>1, <2>2
<1>7. d \in DOMAIN dirs
  BY DEF dirs
<1>8. PICK i \in 0..L - 1 : \E j \in 1..PerLevel(prm, i) : dirs[d] = Direction(dim, prm, i, j)
  BY <1>3, <1>7
<1>9. PICK j \in 1..PerLevel(prm, i) : dirs[d] = Direction(dim, prm, i, j)
  BY <1>8
<1> DEFINE k == MirrorLevel(prm, side, i)
           m == MirrorAzimuth(prm, side, i, j)
<1>10. k \in 0..L - 1 /\ MirrorLevel(prm, side, k) = i
  BY MirrorLevelIs DEF L
<1>11. m \in 1..PerLevel(prm, k) /\ MirrorAzimuth(prm, side, k, m) = j
  BY MirrorAzimuthIs DEF L
<1>12. PICK r \in DOMAIN dirs : dirs[r] = Direction(dim, prm, k, m)
  BY <1>4, <1>10, <1>11
<1>13. ReflectedInto(dim, prm, dirs, side, d) = {r}
  BY <1>6, <1>7, <1>9, <1>12
<1> HIDE DEF k, m
<1>14. ReflectedInto(dim, prm, dirs, side, r) = {d}
  BY <1>6, <1>7, <1>9, <1>10, <1>11, <1>12
<1>15. d \in Int /\ r \in Int
  BY <1>2, <1>7
<1> QED
  BY <1>13, <1>14, <1>15 DEF dirs, MirrorPair

\* On a line a direction is reflected into the one as far from the other end,
\* or, for even parity, into itself: its opposite is its image.
LEMMA GaussLegendreReflects ==
  ASSUME NEW prm, prm.order \in Nat, NEW side \in 0..1, NEW d \in DOMAIN GaussLegendre(prm)
  PROVE  \E r \in DOMAIN GaussLegendre(prm) : MirrorPair(1, prm, GaussLegendre(prm), side, d, r)
<1> DEFINE order == prm.order
           dirs == GaussLegendre(prm)
           n == Halved(order, EvenParity(prm))
           point(i) == [level |-> Min({i - 1, order - i}), z |-> Sign(2 * i - 1 - order),
                        phi |-> 0, circle |-> 2]
           partner(i) == IF EvenParity(prm) THEN i ELSE order + 1 - i
<1>1. dirs = [i \in 1..n |-> point(i)]
  BY DEF GaussLegendre
<1>2. order \in Nat
  OBVIOUS
<1>3. n = (IF EvenParity(prm) THEN order \div 2 ELSE order) /\ n \in Nat
  BY <1>2 DEF Halved
<1> HIDE DEF order, dirs, n
<1>4. DOMAIN dirs = 1..n
  BY <1>1
<1>5. ASSUME NEW i \in 1..n
      PROVE  /\ i \in Int /\ 1 <= i /\ i <= order /\ (EvenParity(prm) => 2 * i <= order)
             /\ Min({i - 1, order - i}) = IF 2 * i - 1 <= order THEN i - 1 ELSE order - i
             /\ Sign(2 * i - 1 - order)
                  = IF 2 * i - 1 < order THEN -1 ELSE IF 2 * i - 1 = order THEN 0 ELSE 1
  <2>1. i \in Int /\ 1 <= i /\ i <= order /\ (EvenParity(prm) => 2 * i <= order)
    BY <1>2, <1>3
  <2>2. ASSUME NEW a \in Int, NEW b \in Int, a <= b PROVE Min({a, b}) = a /\ Min({b, a}) = a
    BY <2>2 DEF Min
  <2>3. i - 1 \in Int /\ order - i \in Int /\ 2 * i - 1 - order \in Int
    BY <1>2, <2>1
  <2>4. /\ 2 * i - 1 <= order => i - 1 <= order - i
        /\ ~(2 * i - 1 <= order) => order - i <= i - 1
    BY <1>2, <2>1
  <2>5. Min({i - 1, order - i}) = IF 2 * i - 1 <= order THEN i - 1 ELSE order - i
    BY <2>2, <2>3, <2>4
  <2>6. /\ 2 * i - 1 < order <=> 2 * i - 1 - order < 0
        /\ 2 * i - 1 = order <=> 2 * i - 1 - order = 0
        /\ (~(2 * i - 1 < order) /\ 2 * i - 1 # order) <=> 2 * i - 1 - order > 0
    BY <1>2, <2>1
  <2>7. Sign(2 * i - 1 - order)
          = IF 2 * i - 1 < order THEN -1 ELSE IF 2 * i - 1 = order THEN 0 ELSE 1
    BY <2>3, <2>6 DEF Sign
  <2> QED
    BY <2>1, <2>5, <2>7
<1> DEFINE level(i) == IF 2 * i - 1 <= order THEN i - 1 ELSE order - i
           z(i) == IF 2 * i - 1 < order THEN -1 ELSE IF 2 * i - 1 = order THEN 0 ELSE 1
           at(i) == [level |-> level(i), z |-> z(i), phi |-> 0, circle |-> 2]
<1>6. \A i \in 1..n : dirs[i] = at(i)
  <2> TAKE i \in 1..n
  <2>1. dirs[i] = point(i)
    BY <1>1
  <2> QED
    BY <1>5, <2>1
<1>7. ASSUME NEW i \in 1..n
      PROVE  /\ partner(i) \in 1..n /\ partner(partner(i)) = i
             /\ level(partner(i)) = level(i)
             /\ EvenParity(prm) => z(i) = -1
             /\ ~EvenParity(prm) => z(partner(i)) = -z(i)
  BY <1>2, <1>3, <1>5
<1>8. ASSUME NEW i \in 1..n, NEW k \in 1..n, level(i) = level(k), z(i) = z(k) PROVE i = k
  BY <1>2, <1>5, <1>8
<1>9. ASSUME NEW i \in 1..n PROVE ReflectedInto(1, prm, dirs, side, i) = {partner(i)}
  <2> DEFINE out == Mirrored(1, side, dirs[i])
             image(e) == e = out \/ (EvenParity(prm) /\ e = Opposite(1, out))
             flipped == [level |-> level(i), z |-> -z(i), phi |-> 0, circle |-> 2]
  <2>1. ReflectedInto(1, prm, dirs, side, i) = {r \in 1..n : image(dirs[r])}
    BY <1>4 DEF ReflectedInto
  <2>2. out = flipped
    <3>1. side \div 2 = 0
      OBVIOUS
    <3>2. out = [dirs[i] EXCEPT !.z = -dirs[i].z]
      BY <3>1 DEF Mirrored
    <3>3. dirs[i] = at(i) /\ at(i).z = z(i)
      BY <1>6
    <3> QED
      BY <3>2, <3>3
  <2>3. z(i) \in {-1, 0, 1}
    OBVIOUS
  <2>4. Opposite(1, flipped) = at(i)
    <3>0. \A x \in Int : -(-x) = x
      OBVIOUS
    <3>1. -(-z(i)) = z(i)
      <4>1. z(i) \in Int
        BY <2>3
      <4> HIDE DEF z
      <4> QED
        BY <3>0, <4>1, Zenon
    <3>2. flipped.z = -z(i)
      OBVIOUS
    <3> HIDE DEF z
    <3>3. Opposite(1, flipped) = [flipped EXCEPT !.z = z(i), !.phi = flipped.phi]
      BY <3>1, <3>2 DEF Opposite
    <3> QED
      BY <3>3
  <2>5. ASSUME NEW r \in 1..n PROVE image(dirs[r]) <=> r = partner(i)
    <3>1. CASE EvenParity(prm)
      <4>1. z(r) = -1 /\ z(i) = -1 /\ partner(i) = i
        BY <1>7, <3>1
      <4>2. dirs[r] # out
        <5> DEFINE own == at(r)
        <5>0. dirs[r] = own
          BY <1>6
        <5>1. own.z = z(r) /\ flipped.z = -z(i)
          <6> HIDE DEF z
          <6> QED
            OBVIOUS
        <5> QED
          <6> HIDE DEF own, flipped, z
          <6>1. \A x \in Int : -x = 0 - x
            OBVIOUS
          <6>2. 0 - (-1) # -1 /\ -1 \in Int
            OBVIOUS
          <6>3. own.z = -1 /\ flipped.z = 0 - (-1)
            BY <4>1, <5>1, <6>1, <6>2, Zenon
          <6> QED
            BY <2>2, <5>0, <6>2, <6>3
      <4>3. dirs[r] = at(i) <=> r = i
        <5>1. dirs[r] = at(r)
          BY <1>6
        <5>2. at(r) = at(i) => r = i
          BY <1>8
        <5> QED
          BY <5>1, <5>2
      <4> QED
        BY <2>2, <2>4, <3>1, <4>1, <4>2, <4>3
    <3>2. CASE ~EvenParity(prm)
      <4>1. flipped = at(partner(i)) /\ partner(i) \in 1..n
        BY <1>7, <3>2
      <4>2. dirs[r] = at(r)
        BY <1>6
      <4>3. at(r) = at(partner(i)) => r = partner(i)
        BY <1>8, <4>1
      <4> QED
        BY <2>2, <3>2, <4>1, <4>2, <4>3
    <3> QED
      BY <3>1, <3>2
  <2> HIDE DEF image
  <2> QED
    BY <1>7, <2>1, <2>5
<1> HIDE DEF partner
<1>10. d \in 1..n /\ partner(d) \in 1..n /\ partner(partner(d)) = d
  BY <1>4, <1>7 DEF dirs
<1>11. ReflectedInto(1, prm, dirs, side, d) = {partner(d)}
  BY <1>9, <1>10
<1>12. ReflectedInto(1, prm, dirs, side, partner(d)) = {d}
  BY <1>9, <1>10
<1>13. d \in Int /\ partner(d) \in Int
  BY <1>10
<1> QED
  BY <1>4, <1>10, <1>11, <1>12, <1>13 DEF dirs, MirrorPair

\* The quadrature set of a problem: every direction is reflected at every side,
\* into one that is reflected back into it.
LEMMA MadeAnglesReflect ==
  ASSUME NEW dim \in 1..3, NEW prm, prm.order \in Nat, prm.have_reflective,
         ~(dim = 3 /\ EvenParity(prm)), MakeAQ(dim, prm).error = "none",
         NEW side \in 0..2 * dim - 1, NEW d \in DOMAIN MakeAQ(dim, prm).directions
  PROVE  ComesBack(MakeAQ(dim, prm).reflective, side, d)
<1> DEFINE produced == ProduceAQ(dim, prm)
           dirs == produced.directions
<1>1. /\ MakeAQ(dim, prm).directions = dirs /\ MakeAQ(dim, prm).error = produced.error
      /\ MakeAQ(dim, prm).reflective = InitRefBCInd(dim, prm, dirs)
  BY DEF MakeAQ
<1> HIDE DEF produced
<1>2. produced.error = "none" /\ d \in DOMAIN dirs
  BY <1>1
<1>3. \E r \in DOMAIN dirs : MirrorPair(dim, prm, dirs, side, d, r)
  <2>1. CASE dim = 1
    <3>1. dirs = GaussLegendre(prm) /\ side \in 0..1
      BY <2>1 DEF ProduceAQ, produced
    <3> HIDE DEF dirs
    <3>2. \E r \in DOMAIN GaussLegendre(prm) : MirrorPair(1, prm, GaussLegendre(prm), side, d, r)
      <4>1. d \in DOMAIN GaussLegendre(prm) /\ side \in 0..1 /\ prm.order \in Nat
        BY <1>2, <3>1
      <4> QED
        BY <4>1, GaussLegendreReflects
    <3> QED
      BY <2>1, <3>1, <3>2
  <2>2. CASE dim # 1
    <3>1. produced = ProduceLSGC(dim, prm)
      BY <2>2 DEF ProduceAQ, produced
    <3>2. prm.order % 2 = 0 /\ dirs = LevelSymmetric(dim, prm)
      <4> DEFINE a == prm.order % 2 # 0
                 b == Len(LevelSymmetric(dim, prm)) # DirectionCount(dim, prm)
      <4>1. produced = CASE a -> [error |-> "SN order must be even numbers", directions |-> <<>>]
                         [] b -> [error |-> "calculated number of angles", directions |-> <<>>]
                         [] OTHER -> [error |-> "none", directions |-> LevelSymmetric(dim, prm)]
        BY <3>1 DEF ProduceLSGC
      <4> HIDE DEF a, b
      <4>2. ~a
        BY <1>2, <4>1
      <4>3. ~b
        BY <1>2, <4>1, <4>2
      <4> QED
        BY <4>1, <4>2, <4>3 DEF a
    <3>3. IsRule(dim, prm)
      BY <2>2, <3>2 DEF IsRule
    <3> HIDE DEF dirs
    <3>4. \E r \in DOMAIN LevelSymmetric(dim, prm) : MirrorPair(dim, prm, LevelSymmetric(dim, prm), side, d, r)
      <4>1. d \in DOMAIN LevelSymmetric(dim, prm)
        BY <1>2, <3>2
      <4> QED
        BY <3>3, <4>1, LevelSymmetricReflects
    <3> QED
      BY <3>2, <3>4
  <2> QED
    BY <2>1, <2>2
<1>4. PICK r \in DOMAIN dirs : MirrorPair(dim, prm, dirs, side, d, r)
  BY <1>3
<1> HIDE DEF dirs
<1>5. ComesBack(InitRefBCInd(dim, prm, dirs), side, d)
  BY <1>2, <1>4, PairReflects
<1> QED
  BY <1>1, <1>5

\* The angles of the driver are those made for its input, or none.
AnglesInv ==
  /\ problem \in Problems
  /\ aq # <<>> => aq = MakeAQ(problem.dim, problem.angles) /\ aq.error = "none"

LEMMA InitAnglesInv == LegacyInit => AnglesInv
BY DEF LegacyInit, AnglesInv

LEMMA NextAnglesInv == AnglesInv /\ [DriveBART]_vars => AnglesInv'
<1> SUFFICES ASSUME AnglesInv, [DriveBART]_vars PROVE AnglesInv'
  OBVIOUS
<1>1. CASE Construct
  <2> DEFINE generator == Mesh!MeshGenerator(problem.dim, problem.mesh)
             quadrature == MakeAQ(problem.dim, problem.angles)
  <2>1. problem' = problem
    BY <1>1 DEF Construct
  <2>2. aq' = aq \/ (aq' = quadrature /\ quadrature.error = "none")
    <3> HIDE DEF generator, quadrature
    <3> QED
      BY <1>1 DEF Construct, generator, quadrature
  <2> HIDE DEF quadrature
  <2> QED
    BY <2>1, <2>2 DEF AnglesInv, quadrature
<1>2. CASE ~Construct
  <2>1. problem' = problem /\ aq' = aq
    BY <1>2 DEF DriveBART, vars, MakeGrid, InitMatVec, DoNDAIterations, DoMGIterations,
                DoEigenIterations, EigenPass, StartGroup, SourceIteration, ThermalPass,
                MGIterationsDone, EigenCheck, IterateUnfollowed, OutputResults
  <2> QED
    BY <2>1 DEF AnglesInv
<1> QED
  BY <1>1, <1>2

LEMMA AnglesReflect == AnglesInv => ReflectionsAreMirrors
<1> SUFFICES ASSUME AnglesInv, aq # <<>>, problem.mesh.have_reflective,
                    ~(problem.dim = 3 /\ problem.model = "ep"),
                    NEW side \in 0..2 * problem.dim - 1, NEW d \in DOMAIN aq.directions
             PROVE  /\ <<side, d>> \in DOMAIN aq.reflective
                    /\ aq.reflective[<<side, aq.reflective[<<side, d>>]>>] = d
  BY DEF ReflectionsAreMirrors
<1> DEFINE dim == problem.dim
           prm == problem.angles
<1>1. aq = MakeAQ(dim, prm) /\ aq.error = "none"
  BY DEF AnglesInv
<1>2. /\ dim \in 1..3 /\ prm.order \in Nat /\ prm.have_reflective
      /\ ~(dim = 3 /\ EvenParity(prm))
  BY AnglesAssumption DEF AnglesInv, EvenParity
<1>3. side \in 0..2 * dim - 1
  OBVIOUS
<1> HIDE DEF dim, prm
<1>4. d \in DOMAIN MakeAQ(dim, prm).directions /\ MakeAQ(dim, prm).error = "none"
  BY <1>1
<1>5. ComesBack(MakeAQ(dim, prm).reflective, side, d)
  BY <1>2, <1>3, <1>4, MadeAnglesReflect
<1> QED
  BY <1>1, <1>5 DEF ComesBack

\* Whatever the problem and the order of its angles, every direction is
\* reflected at every side of the box, into one that is reflected back into it:
\* no direction is left without an image, and none has two.
THEOREM AnglesAreMirrored == LegacySpec => []ReflectionsAreMirrors
<1>1. LegacySpec => []AnglesInv
  <2> QED
    BY InitAnglesInv, NextAnglesInv, PTL DEF LegacySpec
<1> QED
  BY <1>1, AnglesReflect, PTL

-----------------------------------------------------------------------------
(***************************************************************************)
(* The matrices: every term an equation adds to one is symmetric, or comes *)
(* with another that is it transposed, but for the boundary of even parity *)
(* that reflects.                                                          *)
(***************************************************************************)
SymmetricMatrix(equ, matrix) ==
  \A r, c \in Dofs(equ) : matrix[<<r, c>>] = matrix[<<c, r>>]

\* Two local matrices of which one is the other transposed, in two cells that
\* may differ.
TransposedLocal(a, b) ==
  /\ DOMAIN a = Local \X Local /\ DOMAIN b = Local \X Local
  /\ \A i, j \in Local : a[<<i, j>>] = b[<<j, i>>]

LEMMA EntryIsTransposed ==
  ASSUME NEW equ, NEW a, NEW b, TransposedLocal(a, b), NEW ca, NEW cb, NEW r, NEW c
  PROVE  Entry(equ, a, ca, cb, r, c) = Entry(equ, b, cb, ca, c, r)
<1> DEFINE i == r - Dof(equ, ca, 0)
           j == c - Dof(equ, cb, 0)
<1>1. <<i, j>> \in DOMAIN a <=> <<j, i>> \in DOMAIN b
  BY DEF TransposedLocal
<1>2. <<i, j>> \in DOMAIN a => a[<<i, j>>] = b[<<j, i>>]
  BY DEF TransposedLocal
<1> QED
  BY <1>1, <1>2 DEF Entry

\* One that is itself transposed, in one cell.
SymmetricLocal(local) == TransposedLocal(local, local)

LEMMA EntryIsSymmetric ==
  ASSUME NEW equ, NEW local, SymmetricLocal(local), NEW cell, NEW r, NEW c
  PROVE  Entry(equ, local, cell, cell, r, c) = Entry(equ, local, cell, cell, c, r)
BY EntryIsTransposed DEF SymmetricLocal

\* What an equation on a line is assembled from when its matrix is one for a
\* direct solver in its symmetric mode.
Assemblable(equ, g, dir) ==
  /\ equ.model \in {"diffusion", "ep", "saaf"}
  /\ equ.model # "diffusion" => equ.omega[dir] \in Int
  /\ equ.model = "ep" =>
       /\ \A face \in Faces : ~Reflects(equ, face)
       /\ \A cell \in Cells(equ) : equ.xs.inv_sigt[equ.material[cell]][g] \in Int

LEMMA SmallProducts ==
  ASSUME NEW omega \in Int, NEW i \in Local, NEW j \in Local
  PROVE  PreStreaming(omega, i, j) = PreStreaming(omega, j, i)
<1>1. ShapeGradient(i) \in Int /\ ShapeGradient(j) \in Int
  BY DEF ShapeGradient
<1> QED
  BY <1>1 DEF PreStreaming

LEMMA Collisions ==
  ASSUME NEW q, NEW i \in Local, NEW j \in Local
  PROVE  PreCollision(q, i, j) = PreCollision(q, j, i)
<1>1. ShapeValue(i, q) \in Int /\ ShapeValue(j, q) \in Int
  BY DEF ShapeValue
<1> QED
  BY <1>1 DEF PreCollision

LEMMA VolumeIsSymmetric ==
  ASSUME NEW equ, NEW g, NEW dir, Assemblable(equ, g, dir), NEW cell
  PROVE  SymmetricLocal(VolumeTerm(equ, cell, g, dir))
<1>1. CASE equ.model = "diffusion"
  <2> DEFINE m == equ.material[cell]
             sigma_r == equ.xs.sigt[m][g] - equ.xs.sigs[m][g][g]
             d == equ.xs.diffusion_coef[m][g]
             at(q, i, j) == PreStreaming(1, i, j) * d + PreCollision(q, i, j) * sigma_r
  <2>1. VolumeTerm(equ, cell, g, dir)
          = [ij \in Local \X Local |->
               Jacobian * at(0, ij[1], ij[2]) + Jacobian * at(1, ij[1], ij[2])]
    BY <1>1 DEF VolumeTerm, DiffusionCell, CellMatrix, Integral
  <2>2. \A i, j \in Local : \A q : at(q, i, j) = at(q, j, i)
    <3> TAKE i, j \in Local
    <3> TAKE q
    <3>1. PreStreaming(1, i, j) = PreStreaming(1, j, i)
      BY SmallProducts
    <3>2. PreCollision(q, i, j) = PreCollision(q, j, i)
      BY Collisions
    <3> QED
      BY <3>1, <3>2
  <2> HIDE DEF at
  <2> QED
    BY <2>1, <2>2 DEF SymmetricLocal, TransposedLocal
<1>2. CASE equ.model = "ep"
  <2> DEFINE m == equ.material[cell]
             omega == equ.omega[dir]
             at(q, i, j) == Quarters * (PreStreaming(omega, i, j) * equ.xs.inv_sigt[m][g]
                                          + PreCollision(q, i, j) * equ.xs.sigt[m][g])
  <2>1. VolumeTerm(equ, cell, g, dir)
          = [ij \in Local \X Local |->
               Jacobian * at(0, ij[1], ij[2]) + Jacobian * at(1, ij[1], ij[2])]
    BY <1>2 DEF VolumeTerm, EvenParityCell, CellMatrix, Integral
  <2>2. omega \in Int
    BY <1>2 DEF Assemblable
  <2>3. \A i, j \in Local : \A q : at(q, i, j) = at(q, j, i)
    <3> TAKE i, j \in Local
    <3> TAKE q
    <3> HIDE DEF omega
    <3>1. PreStreaming(omega, i, j) = PreStreaming(omega, j, i)
      BY <2>2, SmallProducts
    <3>2. PreCollision(q, i, j) = PreCollision(q, j, i)
      BY Collisions
    <3> QED
      BY <3>1, <3>2
  <2> HIDE DEF at
  <2> QED
    BY <2>1, <2>3 DEF SymmetricLocal, TransposedLocal
<1>3. CASE equ.model = "saaf"
  <2> DEFINE m == equ.material[cell]
             omega == equ.omega[dir]
             at(q, i, j) == PreStreaming(omega, i, j) * equ.xs.inv_sigt[m][g]
                              + PreCollision(q, i, j) * equ.xs.sigt[m][g]
  <2>1. VolumeTerm(equ, cell, g, dir)
          = [ij \in Local \X Local |->
               Jacobian * at(0, ij[1], ij[2]) + Jacobian * at(1, ij[1], ij[2])]
    BY <1>3 DEF VolumeTerm, SAAFCell, CellMatrix, Integral
  <2>2. omega \in Int
    BY <1>3 DEF Assemblable
  <2>3. \A i, j \in Local : \A q : at(q, i, j) = at(q, j, i)
    <3> TAKE i, j \in Local
    <3> TAKE q
    <3> HIDE DEF omega
    <3>1. PreStreaming(omega, i, j) = PreStreaming(omega, j, i)
      BY <2>2, SmallProducts
    <3>2. PreCollision(q, i, j) = PreCollision(q, j, i)
      BY Collisions
    <3> QED
      BY <3>1, <3>2
  <2> HIDE DEF at
  <2> QED
    BY <2>1, <2>3 DEF SymmetricLocal, TransposedLocal
<1> QED
  BY <1>1, <1>2, <1>3 DEF Assemblable

LEMMA BoundaryIsSymmetric ==
  ASSUME NEW equ, NEW g, NEW dir, Assemblable(equ, g, dir), NEW cell, NEW face \in Faces
  PROVE  SymmetricLocal(BoundaryTerm(equ, cell, face, g, dir))
<1>1. \A i \in Local : FaceShapeValue(i, face) \in Int
  BY DEF FaceShapeValue
<1>2. CASE equ.model = "diffusion"
  <2> DEFINE at(i, j) == IF Reflects(equ, face) THEN 0
                         ELSE (FaceJacobian \div 2) * FaceShapeValue(i, face) * FaceShapeValue(j, face)
  <2>1. BoundaryTerm(equ, cell, face, g, dir) = [ij \in Local \X Local |-> at(ij[1], ij[2])]
    BY <1>2 DEF BoundaryTerm, DiffusionBoundary, CellMatrix
  <2>2. \A i, j \in Local : at(i, j) = at(j, i)
    BY <1>1 DEF FaceJacobian
  <2> HIDE DEF at
  <2> QED
    BY <2>1, <2>2 DEF SymmetricLocal, TransposedLocal
<1>3. CASE equ.model = "ep"
  <2> DEFINE omega == equ.omega[dir]
             ndo == FaceNormal(face) * omega
             most == Max({ndo, -ndo})
             at(i, j) == Quarters * FaceShapeValue(i, face) * FaceJacobian
                           * (most * FaceShapeValue(j, face))
  <2>1. BoundaryTerm(equ, cell, face, g, dir) = [ij \in Local \X Local |-> at(ij[1], ij[2])]
    <3>1. ~Reflects(equ, face)
      BY <1>3 DEF Assemblable
    <3> QED
      BY <1>3, <3>1 DEF BoundaryTerm, EvenParityBoundary, CellMatrix
  <2>2. most \in Int
    <3>1. ndo \in Int
      BY <1>3 DEF Assemblable, FaceNormal
    <3> HIDE DEF ndo
    <3>2. \E x \in {ndo, -ndo} : \A y \in {ndo, -ndo} : x >= y
      BY <3>1
    <3>3. most \in {ndo, -ndo}
      BY <3>2 DEF Max
    <3> QED
      BY <3>1, <3>3
  <2> HIDE DEF most
  <2>3. \A i, j \in Local : at(i, j) = at(j, i)
    BY <1>1, <2>2 DEF FaceJacobian, Quarters
  <2> HIDE DEF at
  <2> QED
    BY <2>1, <2>3 DEF SymmetricLocal, TransposedLocal
<1>4. CASE equ.model = "saaf"
  <2> DEFINE omega == equ.omega[dir]
             ndo == FaceNormal(face) * omega
             at(i, j) == IF ndo > 0
                         THEN ndo * FaceShapeValue(i, face) * FaceShapeValue(j, face) * FaceJacobian
                         ELSE 0
  <2>1. BoundaryTerm(equ, cell, face, g, dir) = [ij \in Local \X Local |-> at(ij[1], ij[2])]
    BY <1>4 DEF BoundaryTerm, SAAFBoundary, CellMatrix
  <2>2. ndo \in Int
    BY <1>4 DEF Assemblable, FaceNormal
  <2> HIDE DEF ndo
  <2>3. \A i, j \in Local : at(i, j) = at(j, i)
    BY <1>1, <2>2 DEF FaceJacobian
  <2> HIDE DEF at
  <2> QED
    BY <2>1, <2>3 DEF SymmetricLocal, TransposedLocal
<1> QED
  BY <1>2, <1>3, <1>4 DEF Assemblable

\* The four blocks of a face between two cells are numbers, and those of the
\* two cells with each other are each other transposed.
LEMMA BlocksAreTransposed ==
  ASSUME NEW equ, NEW g, NEW dir, Assemblable(equ, g, dir), equ.model = "ep",
         NEW cell \in Cells(equ), cell - 1 \in Cells(equ),
         NEW test \in {"own", "neigh"}, NEW trial \in {"own", "neigh"}
  PROVE  LET a == EvenParityInterface(equ, cell, g, equ.omega[dir], test, trial)
             b == EvenParityInterface(equ, cell, g, equ.omega[dir], trial, test)
         IN  /\ TransposedLocal(a, b)
             /\ \A ij \in Local \X Local : a[ij] \in Int
<1> DEFINE omega == equ.omega[dir]
           neigh == cell - 1
           penalty == Penalty(equ, cell, neigh, g, omega)
           face(side) == IF side = "own" THEN 0 ELSE 1
           inv(side) == equ.xs.inv_sigt[equ.material[IF side = "own" THEN cell ELSE neigh]][g]
           half_ndo == 2 * FaceNormal(0) * omega
           shape(side, i) == FaceShapeValue(i, face(side))
           slope(side, i) == inv(side) * half_ndo * omega * ShapeGradient(i)
           sign(s, t) == IF s = t THEN 1 ELSE -1
           at(s, t, i, j) == FaceJacobian *
             (sign(s, t) * penalty * shape(s, i) * shape(t, j)
               + FluxSign(t) * slope(s, i) * shape(t, j)
               + FluxSign(s) * shape(s, i) * slope(t, j))
           Sides == {"own", "neigh"}
<1>1. \A s, t \in Sides : EvenParityInterface(equ, cell, g, omega, s, t)
                            = [ij \in Local \X Local |-> at(s, t, ij[1], ij[2])]
  BY DEF EvenParityInterface, CellMatrix, TestSlopeSign
<1>2. omega \in Int
  BY DEF Assemblable
<1>3. \A s \in Sides : inv(s) \in Int
  BY DEF Assemblable
<1>4. penalty \in Int
  <2> DEFINE optical == omega * omega * 2 * 2
                          * (equ.xs.inv_sigt[equ.material[cell]][g]
                               + equ.xs.inv_sigt[equ.material[neigh]][g])
  <2>1. equ.xs.inv_sigt[equ.material[cell]][g] \in Int
        /\ equ.xs.inv_sigt[equ.material[neigh]][g] \in Int
    BY DEF Assemblable
  <2> HIDE DEF omega
  <2>2. omega * omega * 2 * 2 \in Int
    BY <1>2
  <2>3. optical \in Int
    BY <2>1, <2>2
  <2>4. penalty = Max({1, optical})
    BY DEF Penalty
  <2> HIDE DEF optical
  <2>5. \E x \in {1, optical} : \A y \in {1, optical} : x >= y
    BY <2>3
  <2>6. Max({1, optical}) \in {1, optical}
    BY <2>5 DEF Max
  <2> QED
    BY <2>3, <2>4, <2>6
<1>5. \A s \in Sides, i \in Local : shape(s, i) \in Int
  BY DEF FaceShapeValue
<1>6. \A s \in Sides, i \in Local : slope(s, i) \in Int
  <2> TAKE s \in Sides, i \in Local
  <2> HIDE DEF omega, inv
  <2>1. half_ndo \in Int
    BY <1>2 DEF FaceNormal
  <2> HIDE DEF half_ndo
  <2>2. inv(s) * half_ndo \in Int
    BY <1>3, <2>1
  <2>3. inv(s) * half_ndo * omega \in Int
    BY <1>2, <2>2
  <2>4. ShapeGradient(i) \in Int
    BY DEF ShapeGradient
  <2> QED
    BY <2>3, <2>4
<1>7. \A s \in Sides : FluxSign(s) \in Int
  BY DEF FluxSign
<1> HIDE DEF omega, penalty, shape, slope
<1>8. \A s, t \in Sides, i, j \in Local : at(s, t, i, j) = at(t, s, j, i) /\ at(s, t, i, j) \in Int
  <2> TAKE s \in Sides, t \in Sides, i \in Local, j \in Local
  <2> DEFINE p == sign(s, t) * penalty
             q == sign(t, s) * penalty
  <2>1. p = q /\ p \in Int
    BY <1>4
  <2> HIDE DEF p, q
  <2>2. p * shape(s, i) * shape(t, j) = q * shape(t, j) * shape(s, i)
        /\ p * shape(s, i) * shape(t, j) \in Int
    BY <2>1, <1>5
  <2>3. FluxSign(t) * slope(s, i) * shape(t, j) = FluxSign(t) * shape(t, j) * slope(s, i)
        /\ FluxSign(t) * slope(s, i) * shape(t, j) \in Int
    BY <1>5, <1>6, <1>7
  <2>4. FluxSign(s) * shape(s, i) * slope(t, j) = FluxSign(s) * slope(t, j) * shape(s, i)
        /\ FluxSign(s) * shape(s, i) * slope(t, j) \in Int
    BY <1>5, <1>6, <1>7
  <2> DEFINE x1 == p * shape(s, i) * shape(t, j)
             x2 == FluxSign(t) * slope(s, i) * shape(t, j)
             x3 == FluxSign(s) * shape(s, i) * slope(t, j)
             y1 == q * shape(t, j) * shape(s, i)
             y2 == FluxSign(s) * slope(t, j) * shape(s, i)
             y3 == FluxSign(t) * shape(t, j) * slope(s, i)
  <2>5. at(s, t, i, j) = FaceJacobian * (x1 + x2 + x3) /\ at(t, s, j, i) = FaceJacobian * (y1 + y2 + y3)
    BY DEF p, q
  <2>6. x1 = y1 /\ x2 = y3 /\ x3 = y2 /\ x1 \in Int /\ x2 \in Int /\ x3 \in Int
    BY <2>2, <2>3, <2>4
  <2> HIDE DEF x1, x2, x3, y1, y2, y3, at
  <2> QED
    BY <2>5, <2>6 DEF FaceJacobian
<1> HIDE DEF at
<1> DEFINE a == EvenParityInterface(equ, cell, g, equ.omega[dir], test, trial)
           b == EvenParityInterface(equ, cell, g, equ.omega[dir], trial, test)
<1>9. a = [ij \in Local \X Local |-> at(test, trial, ij[1], ij[2])]
      /\ b = [ij \in Local \X Local |-> at(trial, test, ij[1], ij[2])]
  BY <1>1 DEF omega
<1> HIDE DEF a, b
<1>10. TransposedLocal(a, b)
  BY <1>8, <1>9 DEF TransposedLocal
<1>11. \A ij \in Local \X Local : a[ij] \in Int
  BY <1>8, <1>9
<1> QED
  BY <1>10, <1>11 DEF a, b

EntriesAreNumbers(local) == \A ij \in DOMAIN local : local[ij] \in Int

LEMMA EntryIsNumber ==
  ASSUME NEW equ, NEW local, EntriesAreNumbers(local), NEW ca, NEW cb, NEW r, NEW c
  PROVE  Entry(equ, local, ca, cb, r, c) \in Int
BY DEF Entry, EntriesAreNumbers

LEMMA InterfaceIsSymmetric ==
  ASSUME NEW equ, NEW g, NEW dir, Assemblable(equ, g, dir)
  PROVE  SymmetricMatrix(equ, AssembleInterfaceBilinearForms(equ, g, dir))
<1> DEFINE cells == IF equ.dfem /\ equ.model = "ep"
                    THEN {cell \in Cells(equ) : ~AtOuterFace(equ, cell, 0)} ELSE {}
           Sides == {"own", "neigh"}
           blocks == cells \X Sides \X Sides
           of(cell, side) == IF side = "own" THEN cell ELSE cell - 1
           form(cell, s, t) == EvenParityInterface(equ, cell, g, equ.omega[dir], s, t)
           term == [b \in blocks |-> form(b[1], b[2], b[3])]
           entry(b, rc) == Entry(equ, term[b], of(b[1], b[2]), of(b[1], b[3]), rc[1], rc[2])
           four(cell, rc) == entry(<<cell, "own", "own">>, rc) + entry(<<cell, "own", "neigh">>, rc)
                               + entry(<<cell, "neigh", "own">>, rc)
                               + entry(<<cell, "neigh", "neigh">>, rc)
           all(rc) == [cell \in cells |-> four(cell, rc)]
<1>1. AssembleInterfaceBilinearForms(equ, g, dir)
        = [rc \in Dofs(equ) \X Dofs(equ) |-> SumFunction(all(rc))]
  BY DEF AssembleInterfaceBilinearForms
<1>2. \A cell \in cells, r, c \in Dofs(equ) : four(cell, <<r, c>>) = four(cell, <<c, r>>)
  <2> TAKE cell \in cells, r \in Dofs(equ), c \in Dofs(equ)
  <2>1. equ.model = "ep" /\ cell \in Cells(equ) /\ cell - 1 \in Cells(equ)
    <3>1. equ.model = "ep" /\ cell \in Cells(equ) /\ ~AtOuterFace(equ, cell, 0)
      OBVIOUS
    <3>2. cell \in Int
      BY <3>1 DEF Cells
    <3>3. cell + 2 * 0 - 1 = cell - 1
      BY <3>2
    <3> QED
      BY <3>1, <3>3 DEF AtOuterFace
  <2>2. \A s, t \in Sides :
          /\ TransposedLocal(form(cell, s, t), form(cell, t, s))
          /\ EntriesAreNumbers(form(cell, s, t))
    <3> TAKE s \in Sides, t \in Sides
    <3>1. /\ TransposedLocal(form(cell, s, t), form(cell, t, s))
          /\ \A ij \in Local \X Local : form(cell, s, t)[ij] \in Int
      BY <2>1, BlocksAreTransposed
    <3> HIDE DEF form
    <3> QED
      BY <3>1 DEF EntriesAreNumbers, TransposedLocal
  <2> HIDE DEF form, cells
  <2>3. \A s, t \in Sides : term[<<cell, s, t>>] = form(cell, s, t)
    OBVIOUS
  <2> HIDE DEF term, of
  <2>4. \A s, t \in Sides : entry(<<cell, s, t>>, <<r, c>>) = entry(<<cell, t, s>>, <<c, r>>)
    <3> TAKE s \in Sides, t \in Sides
    <3>1. TransposedLocal(term[<<cell, s, t>>], term[<<cell, t, s>>])
      BY <2>2, <2>3
    <3>2. Entry(equ, term[<<cell, s, t>>], of(cell, s), of(cell, t), r, c)
            = Entry(equ, term[<<cell, t, s>>], of(cell, t), of(cell, s), c, r)
      BY <3>1, EntryIsTransposed
    <3> QED
      BY <3>2
  <2>5. \A s, t \in Sides : entry(<<cell, s, t>>, <<c, r>>) \in Int
    BY <2>2, <2>3, EntryIsNumber
  <2> HIDE DEF entry
  <2>6. /\ entry(<<cell, "own", "own">>, <<r, c>>) = entry(<<cell, "own", "own">>, <<c, r>>)
        /\ entry(<<cell, "own", "neigh">>, <<r, c>>) = entry(<<cell, "neigh", "own">>, <<c, r>>)
        /\ entry(<<cell, "neigh", "own">>, <<r, c>>) = entry(<<cell, "own", "neigh">>, <<c, r>>)
        /\ entry(<<cell, "neigh", "neigh">>, <<r, c>>) = entry(<<cell, "neigh", "neigh">>, <<c, r>>)
    BY <2>4
  <2>7. /\ entry(<<cell, "own", "own">>, <<c, r>>) \in Int
        /\ entry(<<cell, "own", "neigh">>, <<c, r>>) \in Int
        /\ entry(<<cell, "neigh", "own">>, <<c, r>>) \in Int
        /\ entry(<<cell, "neigh", "neigh">>, <<c, r>>) \in Int
    BY <2>5
  <2> QED
    BY <2>6, <2>7
<1> HIDE DEF four
<1>3. \A r, c \in Dofs(equ) : all(<<r, c>>) = all(<<c, r>>)
  BY <1>2
<1> HIDE DEF all
<1> QED
  BY <1>1, <1>3 DEF SymmetricMatrix

LEMMA VolumeBoundaryIsSymmetric ==
  ASSUME NEW equ, NEW g, NEW dir, Assemblable(equ, g, dir)
  PROVE  SymmetricMatrix(equ, AssembleVolumeBoundaryBilinearForms(equ, g, dir))
<1> DEFINE volume == [cell \in Cells(equ) |-> VolumeTerm(equ, cell, g, dir)]
           at == {cf \in Cells(equ) \X Faces : AtOuterFace(equ, cf[1], cf[2])}
           boundary == [f \in at |-> BoundaryTerm(equ, f[1], f[2], g, dir)]
           inside(rc) == [cell \in Cells(equ) |-> Entry(equ, volume[cell], cell, cell, rc[1], rc[2])]
           outside(rc) == [f \in DOMAIN boundary |->
                             Entry(equ, boundary[f], f[1], f[1], rc[1], rc[2])]
<1>1. AssembleVolumeBoundaryBilinearForms(equ, g, dir)
        = [rc \in Dofs(equ) \X Dofs(equ) |-> SumFunction(inside(rc)) + SumFunction(outside(rc))]
  BY DEF AssembleVolumeBoundaryBilinearForms
<1>2. \A cell \in Cells(equ) : SymmetricLocal(volume[cell])
  BY VolumeIsSymmetric
<1>3. \A f \in at : SymmetricLocal(boundary[f])
  BY BoundaryIsSymmetric
<1>4. DOMAIN boundary = at
  OBVIOUS
<1> HIDE DEF volume, boundary, at
<1>5. \A r, c \in Dofs(equ) : inside(<<r, c>>) = inside(<<c, r>>)
  <2> TAKE r \in Dofs(equ), c \in Dofs(equ)
  <2>1. \A cell \in Cells(equ) : Entry(equ, volume[cell], cell, cell, r, c)
                                   = Entry(equ, volume[cell], cell, cell, c, r)
    BY <1>2, EntryIsSymmetric
  <2> QED
    BY <2>1
<1>6. \A r, c \in Dofs(equ) : outside(<<r, c>>) = outside(<<c, r>>)
  <2> TAKE r \in Dofs(equ), c \in Dofs(equ)
  <2>1. \A f \in at : Entry(equ, boundary[f], f[1], f[1], r, c)
                        = Entry(equ, boundary[f], f[1], f[1], c, r)
    BY <1>3, EntryIsSymmetric
  <2> QED
    BY <1>4, <2>1
<1> HIDE DEF inside, outside
<1> QED
  BY <1>1, <1>5, <1>6 DEF SymmetricMatrix

LEMMA AssembledIsSymmetric ==
  ASSUME NEW equ, NEW k \in Components(equ),
         Assemblable(equ, GetCompGrpInd(equ, k), GetCompDirInd(equ, k))
  PROVE  SymmetricMatrix(equ, AssembleBilinearForms(equ)[k])
<1> DEFINE g == GetCompGrpInd(equ, k)
           dir == GetCompDirInd(equ, k)
           inner == AssembleVolumeBoundaryBilinearForms(equ, g, dir)
           interface == AssembleInterfaceBilinearForms(equ, g, dir)
<1>1. AssembleBilinearForms(equ)[k] = [rc \in Dofs(equ) \X Dofs(equ) |-> inner[rc] + interface[rc]]
  BY DEF AssembleBilinearForms
<1>2. SymmetricMatrix(equ, inner)
  BY VolumeBoundaryIsSymmetric
<1>3. SymmetricMatrix(equ, interface)
  BY InterfaceIsSymmetric
<1> HIDE DEF inner, interface
<1> DEFINE matrix == AssembleBilinearForms(equ)[k]
<1>4. \A r, c \in Dofs(equ) : matrix[<<r, c>>] = matrix[<<c, r>>]
  <2> TAKE r \in Dofs(equ), c \in Dofs(equ)
  <2>1. inner[<<r, c>>] = inner[<<c, r>>] /\ interface[<<r, c>>] = interface[<<c, r>>]
    BY <1>2, <1>3 DEF SymmetricMatrix
  <2>2. matrix[<<r, c>>] = inner[<<r, c>>] + interface[<<r, c>>]
    BY <1>1
  <2>3. matrix[<<c, r>>] = inner[<<c, r>>] + interface[<<c, r>>]
    BY <1>1
  <2> QED
    BY <2>1, <2>2, <2>3
<1> QED
  BY <1>4 DEF SymmetricMatrix

LEMMA QuotientBound ==
  ASSUME NEW a \in Nat, NEW b \in Nat \ {0}, NEW n \in Nat, a < n * b
  PROVE  /\ a \div b \in 0..n - 1 /\ a % b \in 0..b - 1
         /\ (a \div b) * b + (a % b) = a
<1> DEFINE q == a \div b
<1>1. q \in Nat /\ a = b * q + (a % b) /\ a % b \in 0..b - 1
  OBVIOUS
<1> HIDE DEF q
<1>2. b * q < n * b
  BY <1>1
<1>3. \A x, y \in Int : x >= y => b * x >= b * y
  OBVIOUS
<1>4. ~(q >= n)
  BY <1>1, <1>2, <1>3
<1>5. q * b = b * q
  BY <1>1
<1> QED
  BY <1>1, <1>4, <1>5 DEF q

\* The equation of a line: its model, its groups, its angles and the component
\* of every group and angle.
LineEquation(equ) ==
  /\ equ.model \in {"diffusion", "ep", "saaf"} /\ equ.n_group \in Nat \ {0}
  /\ equ.model # "diffusion" =>
       /\ n_dir(equ) \in Nat \ {0}
       /\ \A dir \in 1..n_dir(equ) : equ.omega[dir] \in Int
       /\ \A g \in Groups(equ), dir \in 1..n_dir(equ) :
            equ.component[<<g, dir>>] = g * n_dir(equ) + dir - 1

LEMMA ComponentsAreFound ==
  ASSUME NEW equ, LineEquation(equ), NEW k \in Components(equ)
  PROVE  /\ GetCompGrpInd(equ, k) \in Groups(equ)
         /\ GetCompDirInd(equ, k) \in 1..n_dir(equ)
<1> DEFINE IsAt(g, dir) == GetCompInd(equ, g, dir) = k
<1>1. \E g \in Groups(equ), dir \in 1..n_dir(equ) : IsAt(g, dir)
  <2>1. CASE equ.model = "diffusion"
    <3>1. n_dir(equ) = 1 /\ equ.n_group \in Nat
      BY <2>1 DEF n_dir, LineEquation
    <3>2. k \in Groups(equ)
      BY <3>1 DEF Components, n_total_vars, Groups
    <3>3. IsAt(k, 1) /\ 1 \in 1..n_dir(equ)
      BY <2>1, <3>1 DEF GetCompInd
    <3> QED
      BY <3>2, <3>3
  <2>2. CASE equ.model # "diffusion"
    <3> DEFINE H == n_dir(equ)
               N == equ.n_group
    <3>1. H \in Nat \ {0} /\ N \in Nat
      BY <2>2 DEF LineEquation
    <3>2. k \in 0..N * H - 1
      BY DEF Components, n_total_vars
    <3>3. \A g \in Groups(equ), dir \in 1..H : GetCompInd(equ, g, dir) = g * H + dir - 1
      BY <2>2 DEF LineEquation, GetCompInd
    <3>4. Groups(equ) = 0..N - 1
      BY DEF Groups
    <3> HIDE DEF H, N
    <3>5. k \in Nat /\ k < N * H
      <4>1. N * H \in Int
        BY <3>1
      <4> QED
        BY <3>2, <4>1
    <3> DEFINE q == k \div H
               r == k % H
    <3>6. q \in 0..N - 1 /\ r \in 0..H - 1 /\ q * H + r = k
      BY <3>1, <3>5, QuotientBound
    <3> HIDE DEF q, r
    <3>7. r + 1 \in 1..H /\ q \in Groups(equ)
      BY <3>1, <3>4, <3>6
    <3>8. q * H \in Int /\ r \in Int
      BY <3>1, <3>6
    <3>9. q * H + (r + 1) - 1 = k
      BY <3>6, <3>8
    <3>10. IsAt(q, r + 1)
      BY <3>3, <3>7, <3>9
    <3> QED
      BY <3>7, <3>10 DEF H
  <2> QED
    BY <2>1, <2>2
<1> DEFINE group_of == GetCompGrpInd(equ, k)
<1>2. group_of \in Groups(equ) /\ \E dir \in 1..n_dir(equ) : GetCompInd(equ, group_of, dir) = k
  BY <1>1 DEF GetCompGrpInd
<1>3. GetCompDirInd(equ, k) \in 1..n_dir(equ)
  BY <1>2 DEF GetCompDirInd
<1> QED
  BY <1>2, <1>3

LEMMA LeastIsNumber ==
  ASSUME NEW a \in Int, NEW b \in Int
  PROVE  Min({a, b}) \in Int
<1>1. \E x \in {a, b} : \A y \in {a, b} : x <= y
  OBVIOUS
<1>2. Min({a, b}) \in {a, b}
  BY <1>1 DEF Min
<1> QED
  BY <1>2

LEMMA EquationIsOfALine ==
  ASSUME SetUpInv, problem.dim = 1, stage # "start", exit # "failure"
  PROVE  LineEquation(Equation)
<1> DEFINE prm == problem.angles
           H == Halved(prm.order, EvenParity(prm))
           half == prm.order \div 2
           point(i) == [level |-> Min({i - 1, prm.order - i}), z |-> Sign(2 * i - 1 - prm.order),
                        phi |-> 0, circle |-> 2]
<1>1. /\ Equation.model = problem.model /\ Equation.n_group = problem.n_group
      /\ Equation.component = aq.component
      /\ Equation.omega = [d \in DOMAIN aq.directions |->
                             aq.directions[d].z * (half - aq.directions[d].level)]
  BY DEF Equation, EquationOf
<1>2. /\ problem.model \in {"diffusion", "ep", "saaf"} /\ problem.n_group \in Int
      /\ problem.g_thermal \in Int /\ prm.n_group = problem.n_group
      /\ H \in Nat \ {0}
  BY ProblemsAssumption DEF SetUpInv
<1>3. prm.order \in Nat
  BY AnglesAssumption DEF SetUpInv
<1>4. problem.n_group \in Nat \ {0}
  BY <1>2 DEF SetUpInv, InvalidThermal
<1>5. aq = MakeAQ(1, prm)
  BY DEF SetUpInv
<1>6. aq.directions = GaussLegendre(prm)
  BY <1>5 DEF MakeAQ, ProduceAQ
<1>7. aq.directions = [i \in 1..H |-> point(i)]
  BY <1>6 DEF GaussLegendre
<1> HIDE DEF H
<1>8. DOMAIN aq.directions = 1..H /\ Len(aq.directions) = H
  BY <1>2, <1>7
<1>9. aq.component = [gd \in (0..problem.n_group - 1) \X (1..H) |-> gd[1] * H + gd[2] - 1]
  <2>1. aq.component = InitCompInd(prm, aq.directions)
    BY <1>5 DEF MakeAQ
  <2> QED
    BY <2>1, <1>2, <1>8 DEF InitCompInd
<1>10. \A d \in 1..H : Equation.omega[d] \in Int
  <2> TAKE d \in 1..H
  <2> HIDE DEF prm
  <2>1. Equation.omega[d] = point(d).z * (half - point(d).level)
    BY <1>1, <1>7, <1>8
  <2>2. point(d).z \in Int
    <3>1. point(d).z = Sign(2 * d - 1 - prm.order)
      OBVIOUS
    <3>2. 2 * d - 1 - prm.order \in Int
      BY <1>3
    <3> QED
      BY <3>1, <3>2 DEF Sign
  <2>3. point(d).level \in Int
    <3>1. d - 1 \in Int /\ prm.order - d \in Int
      BY <1>3
    <3> QED
      BY <3>1, LeastIsNumber
  <2>4. half \in Int
    BY <1>3
  <2> HIDE DEF point, half
  <2> QED
    BY <2>1, <2>2, <2>3, <2>4
<1>11. CASE Equation.model = "diffusion"
  BY <1>1, <1>2, <1>4, <1>11 DEF LineEquation
<1>12. CASE Equation.model # "diffusion"
  <2>1. Len(Equation.omega) = H
    BY <1>1, <1>2, <1>8
  <2>2. n_dir(Equation) = H
    BY <2>1, <1>12 DEF n_dir
  <2>3. Groups(Equation) = 0..problem.n_group - 1
    BY <1>1 DEF Groups
  <2>4. \A g \in Groups(Equation), dir \in 1..H : Equation.component[<<g, dir>>] = g * H + dir - 1
    BY <1>1, <1>9, <2>3
  <2> QED
    BY <1>1, <1>2, <1>4, <1>10, <2>2, <2>4 DEF LineEquation
<1> QED
  BY <1>11, <1>12

\* When the equation is assembled for solvers in the symmetric mode, every
\* component gets a symmetric matrix.
LEMMA AssembledForSymmetricMode ==
  ASSUME SetUpInv, problem.dim = 1, stage # "start", exit # "failure",
         SymmetricMode(problem), HasSections(Equation)
  PROVE  \A k \in Components(Equation) :
           SymmetricMatrix(Equation, AssembleBilinearForms(Equation)[k])
<1> TAKE k \in Components(Equation)
<1> DEFINE equ == Equation
           g == GetCompGrpInd(equ, k)
           dir == GetCompDirInd(equ, k)
<1>1. LineEquation(equ)
  BY EquationIsOfALine
<1>2. g \in Groups(equ) /\ dir \in 1..n_dir(equ)
  BY <1>1, ComponentsAreFound
<1>3. /\ equ.model = problem.model /\ equ.xs = problem.xs /\ equ.n_group = problem.n_group
      /\ equ.reflective = mesh.reflective
  BY DEF Equation, EquationOf
<1> HIDE DEF equ, g, dir
<1>4. equ.model # "diffusion" => equ.omega[dir] \in Int
  BY <1>1, <1>2 DEF LineEquation
<1>5. ASSUME equ.model = "ep" PROVE \A face \in Faces : ~Reflects(equ, face)
  <2>1. mesh.reflective = <<>>
    BY <1>3, <1>5 DEF SymmetricMode, SetUpInv, HaveReflective
  <2>2. DOMAIN mesh.reflective = {}
    BY <2>1
  <2> QED
    BY <1>3, <2>2 DEF Reflects
<1>6. \A cell \in Cells(equ) : equ.xs.inv_sigt[equ.material[cell]][g] \in Int
  <2>1. \A cell \in Cells(equ) : equ.material[cell] \in DOMAIN problem.xs.sigt
    BY <1>3 DEF HasSections, equ
  <2>2. \A m \in DOMAIN problem.xs.sigt, h \in 0..problem.n_group - 1 : problem.xs.inv_sigt[m][h] \in Int
    BY ProblemsAssumption DEF SetUpInv
  <2>3. g \in 0..problem.n_group - 1
    BY <1>2, <1>3 DEF Groups
  <2> QED
    BY <1>3, <2>1, <2>2, <2>3
<1>7. Assemblable(equ, g, dir)
  BY <1>1, <1>4, <1>5, <1>6 DEF Assemblable, LineEquation
<1> QED
  BY <1>7, AssembledIsSymmetric DEF equ, g, dir

\* The eigenvalue is no part of where the degrees of freedom are.
LEMMA SymmetryStays ==
  ASSUME problem' = problem, mesh' = mesh, aq' = aq
  PROVE  /\ Components(Equation') = Components(Equation)
         /\ \A matrix : SymmetricMatrix(Equation', matrix) <=> SymmetricMatrix(Equation, matrix)
<1> DEFINE one == EquationOf(problem, mesh, aq, keff.now)
           other == EquationOf(problem, mesh, aq, keff'.now)
<1>1. Equation = one /\ Equation' = other
  BY DEF Equation
<1>2. one.n = other.n /\ one.dfem = other.dfem
  BY DEF EquationOf
<1>3. Components(one) = Components(other)
  BY EquationShape
<1> HIDE DEF one, other
<1>4. Dofs(one) = Dofs(other)
  BY <1>2 DEF Dofs, Dof
<1> QED
  BY <1>1, <1>3, <1>4 DEF SymmetricMatrix

-----------------------------------------------------------------------------
(***************************************************************************)
(* The direct solvers of the driver.                                       *)
(***************************************************************************)
Looping == {"eigen", "groups", "source"}
AllSymmetric == \A k \in Components(Equation) : SymmetricMatrix(Equation, matrices[k])
SymmetricSolvers == {k \in DOMAIN direct : direct[k] = "symmetric"}
\* No solver is made before the matrices are assembled; then those of the
\* symmetric mode are all symmetric, and no step of the iterations changes them.
SymmetricInv ==
  /\ SetUpInv
  /\ stage \in Looping \cup {"iterations"} =>
       problem.dim = 1 /\ DOMAIN direct = Components(Equation)
  /\ stage \in {"start", "grid", "vectors", "iterations"} => SymmetricSolvers = {}
  /\ stage \in Looping /\ SymmetricMode(problem) => AllSymmetric
  /\ \A k \in SymmetricSolvers : SymmetricMatrix(Equation, matrices[k])

LEMMA InitSymmetricInv == LegacyInit => SymmetricInv
<1> SUFFICES ASSUME LegacyInit PROVE SymmetricInv
  OBVIOUS
<1>1. stage = "start" /\ direct = <<>>
  BY DEF LegacyInit
<1>2. SymmetricSolvers = {}
  BY <1>1 DEF SymmetricSolvers
<1> QED
  BY <1>1, <1>2, InitSetUpInv DEF SymmetricInv, Looping

\* A step that makes no solver and keeps the matrices.
LEMMA SymmetricFrame ==
  ASSUME SymmetricInv, SetUpInv', problem' = problem, mesh' = mesh, aq' = aq,
         matrices' = matrices, direct' = direct,
         \/ stage' = stage
         \/ stage' \in Looping /\ stage \in Looping
         \/ stage' \notin Looping \cup {"start", "grid", "vectors", "iterations"}
  PROVE  SymmetricInv'
<1>1. SymmetricSolvers' = SymmetricSolvers
  BY DEF SymmetricSolvers
<1>2. AllSymmetric => AllSymmetric'
  BY SymmetryStays DEF AllSymmetric
<1>3. \A k \in SymmetricSolvers' : SymmetricMatrix(Equation', matrices'[k])
  BY <1>1, SymmetryStays DEF SymmetricInv
<1>4. SymmetricMode(problem') = SymmetricMode(problem)
  OBVIOUS
<1>5. Components(Equation') = Components(Equation)
  BY SymmetryStays
<1> QED
  BY <1>1, <1>2, <1>3, <1>4, <1>5 DEF SymmetricInv, Looping

\* A step that leaves no solver in the symmetric mode, before the iterations.
LEMMA NoSolverYet ==
  ASSUME SetUpInv', SymmetricSolvers' = {}, stage' \notin Looping,
         stage' = "iterations" => problem'.dim = 1 /\ DOMAIN direct' = Components(Equation')
  PROVE  SymmetricInv'
BY DEF SymmetricInv, Looping

LEMMA AssembleSymmetric ==
  ASSUME SymmetricInv, SetUpInv', DoMGIterations \/ DoEigenIterations
  PROVE  SymmetricInv'
<1>1. /\ problem' = problem /\ mesh' = mesh /\ aq' = aq /\ direct' = direct
      /\ stage = "iterations" /\ exit = "running"
  BY DEF DoMGIterations, DoEigenIterations, SymmetricInv, SetUpInv
<1>2. SymmetricSolvers' = {} /\ problem.dim = 1 /\ DOMAIN direct = Components(Equation)
  BY <1>1 DEF SymmetricInv, SymmetricSolvers
<1>3. CASE ~HasSections(Equation)
  <2>1. stage' = "exited"
    BY <1>3 DEF DoMGIterations, DoEigenIterations, Throws
  <2> QED
    BY <1>2, <2>1, NoSolverYet DEF Looping
<1>4. CASE HasSections(Equation)
  <2>1. matrices' = AssembleBilinearForms(Equation) /\ stage' \in Looping
    BY <1>4 DEF DoMGIterations, DoEigenIterations, Looping
  <2>2. SymmetricMode(problem) => \A k \in Components(Equation) : SymmetricMatrix(Equation, matrices'[k])
    BY <1>1, <1>2, <1>4, <2>1, AssembledForSymmetricMode DEF SymmetricInv
  <2>3. SymmetricMode(problem) => AllSymmetric'
    BY <1>1, <2>2, SymmetryStays DEF AllSymmetric
  <2> QED
    BY <1>1, <1>2, <2>1, <2>3, SymmetryStays DEF SymmetricInv, Looping
<1> QED
  BY <1>3, <1>4

LEMMA SolverIsSymmetric ==
  ASSUME SymmetricInv, SetUpInv', SourceIteration
  PROVE  SymmetricInv'
<1>1. /\ problem' = problem /\ mesh' = mesh /\ aq' = aq /\ matrices' = matrices
      /\ stage = "source" /\ direct' = DirectModes(Equation, group)
      /\ stage' \in {"source", "groups", "exited"}
  BY DEF SourceIteration, Throws
<1>2. ASSUME NEW k \in SymmetricSolvers'
      PROVE  SymmetricMatrix(Equation, matrices[k])
  <2>1. k \in DOMAIN direct' /\ direct'[k] = "symmetric"
    BY <1>2 DEF SymmetricSolvers
  <2>2. k \in Components(Equation)
    BY <1>1, <2>1 DEF DirectModes
  <2>3. direct'[k] = IF GetCompGrpInd(Equation, k) # group \/ problem.linear_solver # "direct"
                        \/ direct[k] # "none"
                     THEN direct[k]
                     ELSE IF SymmetricMode(problem) THEN "symmetric" ELSE "general"
    BY <1>1, <2>2 DEF DirectModes
  <2>4. CASE SymmetricMode(problem)
    BY <1>1, <2>2, <2>4 DEF SymmetricInv, AllSymmetric, Looping
  <2>5. CASE ~SymmetricMode(problem)
    <3>1. direct[k] = "symmetric"
      BY <2>1, <2>3, <2>5
    <3>2. k \in DOMAIN direct
      BY <1>1, <2>2 DEF SymmetricInv, Looping
    <3> QED
      BY <3>1, <3>2 DEF SymmetricInv, SymmetricSolvers
  <2> QED
    BY <2>4, <2>5
<1>3. \A k \in SymmetricSolvers' : SymmetricMatrix(Equation', matrices'[k])
  BY <1>1, <1>2, SymmetryStays
<1>4. SymmetricMode(problem') => AllSymmetric'
  BY <1>1, SymmetryStays DEF SymmetricInv, AllSymmetric, Looping
<1>5. DOMAIN direct' = Components(Equation')
  BY <1>1, SymmetryStays DEF DirectModes
<1> QED
  BY <1>1, <1>3, <1>4, <1>5 DEF SymmetricInv, Looping

LEMMA NextSymmetricInv == SymmetricInv /\ [DriveBART]_vars => SymmetricInv'
<1> SUFFICES ASSUME SymmetricInv, [DriveBART]_vars PROVE SymmetricInv'
  OBVIOUS
<1>1. SetUpInv'
  BY NextSetUpInv DEF SymmetricInv
<1>2. CASE Construct \/ MakeGrid
  <2>1. direct' = direct /\ stage \in {"start", "grid"} /\ stage' \in {"grid", "vectors", "exited"}
    BY <1>2 DEF Construct, MakeGrid, Throws, system
  <2>2. SymmetricSolvers' = {}
    BY <2>1 DEF SymmetricInv, SymmetricSolvers
  <2> QED
    BY <1>1, <2>1, <2>2, NoSolverYet DEF Looping
<1>3. CASE InitMatVec
  <2>1. /\ problem' = problem /\ mesh' = mesh /\ aq' = aq /\ problem.dim = 1
        /\ stage = "vectors" /\ stage' \in {"iterations", "exited"}
    BY <1>3 DEF InitMatVec, Throws
  <2>2. CASE ~SameDiscretization(problem)
    <3>1. direct' = direct /\ stage' = "exited"
      BY <1>3, <2>2 DEF InitMatVec, Throws, system
    <3>2. SymmetricSolvers' = {}
      BY <2>1, <3>1 DEF SymmetricInv, SymmetricSolvers
    <3> QED
      BY <1>1, <3>1, <3>2, NoSolverYet DEF Looping
  <2>3. CASE SameDiscretization(problem)
    <3>1. direct' = [k \in Components(Equation) |-> "none"]
      BY <1>3, <2>3 DEF InitMatVec
    <3>2. SymmetricSolvers' = {}
      BY <3>1 DEF SymmetricSolvers
    <3>3. DOMAIN direct' = Components(Equation')
      BY <2>1, <3>1, SymmetryStays
    <3> QED
      BY <1>1, <2>1, <3>2, <3>3, NoSolverYet DEF Looping
  <2> QED
    BY <2>2, <2>3
<1>4. CASE DoMGIterations \/ DoEigenIterations
  BY <1>1, <1>4, AssembleSymmetric
<1>5. CASE SourceIteration
  BY <1>1, <1>5, SolverIsSymmetric
<1>6. CASE \/ DoNDAIterations \/ EigenPass \/ StartGroup \/ ThermalPass \/ MGIterationsDone
           \/ EigenCheck \/ IterateUnfollowed \/ OutputResults \/ UNCHANGED vars
  <2>1. /\ problem' = problem /\ mesh' = mesh /\ aq' = aq
        /\ matrices' = matrices /\ direct' = direct
    BY <1>6 DEF DoNDAIterations, EigenPass, StartGroup, ThermalPass, MGIterationsDone, EigenCheck,
                IterateUnfollowed, OutputResults, vars, system
  <2>2. \/ stage' = stage
        \/ stage' \in Looping /\ stage \in Looping
        \/ stage' \notin Looping \cup {"start", "grid", "vectors", "iterations"}
    BY <1>6 DEF DoNDAIterations, EigenPass, StartGroup, ThermalPass, MGIterationsDone, EigenCheck,
                IterateUnfollowed, OutputResults, vars, Looping, Throws
  <2> QED
    BY <1>1, <2>1, <2>2, SymmetricFrame
<1> QED
  BY <1>2, <1>3, <1>4, <1>5, <1>6 DEF DriveBART

\* A direct solver that was told that its matrix is symmetric has a symmetric
\* one, whatever the line, its materials and its angles: volume, boundary and
\* interface terms all are, unless even parity has a boundary that reflects,
\* and then the solver was told otherwise.
THEOREM SymmetricModesAreRight == LegacySpec => []SymmetricModeIsRight
<1>1. SymmetricInv => SymmetricModeIsRight
  BY DEF SymmetricInv, SymmetricSolvers, SymmetricMatrix, SymmetricModeIsRight
<1> QED
  BY <1>1, InitSymmetricInv, NextSymmetricInv, PTL DEF LegacySpec
=============================================================================
