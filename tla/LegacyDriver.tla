----------------------------- MODULE LegacyDriver -----------------------------
(***************************************************************************)
(* The legacy program, from main to its exit code: the driver makes the    *)
(* mesh of module LegacyMesh, the vectors, iterates on the equation of     *)
(* module LegacyEquations and writes the results.                          *)
(*                                                                         *)
(* The iterations nest: power iteration, Gauss-Seidel over the groups,     *)
(* source iteration in a group.  Each has moments of its own to compare    *)
(* with, and none has a maximum of iterations.                             *)
(*                                                                         *)
(* The iterations of problems in two and three directions are not          *)
(* followed: they end with any eigenvalue, and with several groups in the  *)
(* exception of LengthsMismatch.  An error below its tolerance is an error *)
(* of zero.  The empty tuple stands for a number, or a vector with an      *)
(* entry, that is none.                                                    *)
(***************************************************************************)
EXTENDS LegacyEquations, LegacyAngles

Mesh == INSTANCE LegacyMesh

CONSTANTS
  Problems,       \* what the input files say
  Answer(_,_),    \* (matrix, right hand side): what a direct solve finds
  Processes,      \* the MPI processes, from 0
  KUnit,          \* the number that is the eigenvalue 1.0
  EstimateKeff(_,_,_)  \* k_prev times a positive source over a positive one

ASSUME LegacyAssumption ==
  /\ KUnit \in Nat \ {0} /\ 0 \in Processes
  /\ \A k \in 0..KUnit, f \in {1, 2} : EstimateKeff(k, f, f) = k

\* The angles read the same entries of the input.
ASSUME AnglesAssumption ==
  \A p \in Problems :
    /\ p.dim \in 1..3 /\ p.angles.order \in Nat /\ p.angles.model = p.model
    /\ p.angles.have_reflective = p.mesh.have_reflective
\* On a line there is an equation, with an angle, its groups are those of the
\* angles, and what is kept of a material has an inverse.
ASSUME ProblemsAssumption ==
  \A p \in Problems : p.dim = 1 =>
    /\ p.model \in {"diffusion", "ep", "saaf"}
    /\ p.n_group \in Int /\ p.g_thermal \in Int /\ p.angles.n_group = p.n_group
    /\ Halved(p.angles.order, EvenParity(p.angles)) \in Nat \ {0}
    /\ \A m \in DOMAIN p.xs.sigt, g \in 0..p.n_group - 1 : p.xs.inv_sigt[m][g] \in Int

VARIABLES
  problem,     \* the input file
  stage,       \* where the program stands
  exit,        \* "running", "success" for 0, "failure" for 1
  aq,          \* the angular quadrature and its indices
  mesh,        \* the mesh generator, then the mesh
  matrices,    \* component -> sys_mats
  direct,      \* component -> the mode its direct solver was made in
  fixed,       \* component -> sys_fixed_rhses
  fluxes,      \* component -> sys_flxes
  moments,     \* group -> scalar flux
  keff,        \* keff_ and keff_prev_
  source,      \* fiss_src_ and fiss_src_prev_
  prev,        \* iteration -> group -> moments_prev_, of the groups it has
  group,       \* the group of the Gauss-Seidel loop
  changed,     \* a thermal group has changed in this pass
  files        \* the pieces of the results by name, and the names in the master

vars == <<problem, stage, exit, aq, mesh, matrices, direct, fixed, fluxes, moments,
          keff, source, prev, group, changed, files>>
system == <<matrices, direct, fixed, fluxes, moments>>
iteration == <<keff, source, prev, group, changed, files>>

-----------------------------------------------------------------------------
NaN == <<>>
Number(x) == <<x>>
Infinity == <<1, 0>>
\* What is new over what was there.
Over(new, old) ==
  [x \in DOMAIN new \cup DOMAIN old |-> IF x \in DOMAIN new THEN new[x] ELSE old[x]]
NDADiscretization(p) == IF p.do_nda THEN p.nda_discretization ELSE p.discretization
SameDiscretization(p) == p.discretization = NDADiscretization(p)
HaveReflective == problem.mesh.have_reflective

\* What FEData keeps for every equation that has a finite element.
FEData(p) ==
  [name \in {p.model} \cup (IF p.do_nda THEN {"nda"} ELSE {}) |->
     [discretization |-> IF name = "nda" THEN p.nda_discretization ELSE p.discretization]]

\* The equation of the one-dimensional problem p on the mesh m made for it,
\* with the angles a and the eigenvalue k: each refinement halves the cells.
Parent(p, m, c) ==
  LET place == c \div 2^m.refined.times
      size == p.mesh.max_values[1] \div p.mesh.n_cells[1]
  IN  << <<place * size>>, <<(place + 1) * size>> >>
EquationOf(p, m, a, k) ==
  LET n == p.mesh.n_cells[1] * 2^m.refined.times
  IN  [model |-> p.model, n |-> n, eigen |-> p.eigen,
       dfem |-> FEData(p)[p.model].discretization = "dfem", n_group |-> p.n_group,
       material |-> [c \in 0..n - 1 |-> m.material[Parent(p, m, c)]],
       side |-> [f \in 0..1 |-> m.boundary[<<Parent(p, m, IF f = 0 THEN 0 ELSE n - 1), f>>]],
       reflective |-> m.reflective, reflected |-> a.reflective, component |-> a.component,
       omega |-> [d \in DOMAIN a.directions |->
                    a.directions[d].z * (p.angles.order \div 2 - a.directions[d].level)],
       w |-> [d \in DOMAIN a.directions |-> 1], xs |-> p.xs,
       scale |-> IF k \in {NaN, Number(0), Infinity} THEN 0 ELSE KUnit \div k[1]]
Equation == EquationOf(problem, mesh, aq, keff.now)
Fissile(equ) == \E c \in Cells(equ) : equ.xs.fissile[equ.material[c]]

-----------------------------------------------------------------------------
(***************************************************************************)
(* The driver, and its exit on any exception.                              *)
(***************************************************************************)
Throws == /\ exit' = "failure" /\ stage' = "exited"

\* The order of the members: the mesh, the finite elements, the angles, then
\* the iterations.
InvalidThermal(p) == ~(p.g_thermal < p.n_group /\ p.g_thermal >= 0)
InvalidSpaces(p) == p.discretization \in {"cmfd", "rtk"}
Construct ==
  LET generator == Mesh!MeshGenerator(problem.dim, problem.mesh)
      quadrature == MakeAQ(problem.dim, problem.angles)
  IN  /\ stage = "start"
      /\ IF \/ generator.error # "none" \/ InvalidSpaces(problem)
            \/ quadrature.error # "none" \/ InvalidThermal(problem)
         THEN Throws /\ UNCHANGED <<aq, mesh>>
         ELSE /\ stage' = "grid" /\ exit' = exit
              /\ aq' = quadrature /\ mesh' = generator.value
      /\ UNCHANGED <<problem, system, iteration>>

MakeGrid ==
  LET grid == Mesh!MakeGrid(problem.dim, mesh)
  IN  /\ stage = "grid"
      /\ IF grid.error # "none" THEN Throws /\ UNCHANGED mesh
         ELSE /\ stage' = "vectors" /\ exit' = exit
              /\ mesh' = Over(grid.value, mesh)
      /\ UNCHANGED <<problem, aq, system, iteration>>

\* The moments start as ones, for the lower order equation too, which nothing
\* ever solves.
InitMatVec ==
  LET zero == [k \in Components(Equation) |-> [d \in Dofs(Equation) |-> 0]]
  IN  /\ stage = "vectors" /\ problem.dim = 1
      /\ IF ~SameDiscretization(problem) THEN Throws /\ UNCHANGED system
         ELSE /\ stage' = "iterations" /\ exit' = exit
              /\ matrices' = zero /\ fixed' = zero /\ fluxes' = zero
              /\ direct' = [k \in Components(Equation) |-> "none"]
              /\ moments' = [g \in Groups(Equation) |-> [d \in Dofs(Equation) |-> 1]]
      /\ UNCHANGED <<problem, aq, mesh, iteration>>

\* Any vector that is none, in the cells that count, makes the sum none.
FissionSource(equ, phi) ==
  IF Fissile(equ) /\ \E g \in DOMAIN phi : phi[g] = NaN THEN NaN
  ELSE Number(EstimateFissSrc(equ, phi))

\* With NDA there is nothing to do, and keff is never set.
DoNDAIterations ==
  /\ stage = "iterations" /\ problem.do_nda
  /\ stage' = "output"
  /\ UNCHANGED <<problem, exit, aq, mesh, system, iteration>>
\* What an equation assembles looks the cross sections of every cell up: those
\* of a material that has none throw.
HasSections(equ) == \A c \in Cells(equ) : equ.material[c] \in DOMAIN equ.xs.sigt
\* A fixed source problem does not assemble its fixed source.
DoMGIterations ==
  /\ stage = "iterations" /\ ~problem.do_nda /\ ~problem.eigen
  /\ IF ~HasSections(Equation) THEN Throws /\ UNCHANGED <<matrices, group, changed>>
     ELSE /\ matrices' = AssembleBilinearForms(Equation)
          /\ stage' = "groups" /\ exit' = exit /\ group' = 0 /\ changed' = FALSE
  /\ UNCHANGED <<problem, aq, mesh, direct, fixed, fluxes, moments, keff, source, prev, files>>
DoEigenIterations ==
  /\ stage = "iterations" /\ ~problem.do_nda /\ problem.eigen
  /\ IF ~HasSections(Equation) THEN Throws /\ UNCHANGED <<matrices, source, keff>>
     ELSE /\ matrices' = AssembleBilinearForms(Equation)
          /\ source' = [source EXCEPT !.now = FissionSource(Equation, moments)]
          /\ keff' = [keff EXCEPT !.now = Number(KUnit)]
          /\ stage' = "eigen" /\ exit' = exit
  /\ UNCHANGED <<problem, aq, mesh, direct, fixed, fluxes, moments, prev, group, changed, files>>

-----------------------------------------------------------------------------
(***************************************************************************)
(* Power iteration.                                                        *)
(***************************************************************************)
FixedForms(equ) ==
  IF Fissile(equ) /\ (keff.now \in {NaN, Number(0)} \/ \E g \in Groups(equ) : moments[g] = NaN)
  THEN [k \in Components(equ) |-> NaN]
  ELSE AssembleFixedLinearForms(equ, moments)
EigenPass ==
  /\ stage = "eigen"
  /\ prev' = [prev EXCEPT !.eigen = moments]
  /\ source' = [source EXCEPT !.prev = source.now]
  /\ keff' = [keff EXCEPT !.prev = keff.now]
  /\ fixed' = FixedForms(Equation)
  /\ stage' = "groups" /\ group' = 0 /\ changed' = FALSE
  /\ UNCHANGED <<problem, exit, aq, mesh, matrices, direct, fluxes, moments, files>>

\* keff_prev_ * fiss_src_ / fiss_src_prev_
NextKeff(f) ==
  LET k == keff.prev
      f0 == source.prev
  IN  IF NaN \in {k, f, f0} \/ <<k, f>> = <<Infinity, Number(0)>> THEN NaN
      ELSE IF k = Infinity THEN Infinity
      ELSE IF f0 = Number(0) THEN IF Number(0) \in {k, f} THEN NaN ELSE Infinity
      ELSE IF f = Number(0) THEN Number(0)
      ELSE Number(EstimateKeff(k[1], f[1], f0[1]))

\* Whether an error is above its tolerance: the maximum with what is no number
\* is zero, and a change over an infinite value is none.
Differ(x, y) == x # y /\ NaN \notin {x, y} /\ x # Infinity
\* Mutant: either of the errors has to be small.
BothDiffer(k, phi) == Differ(k, keff.prev) /\ \E g \in DOMAIN phi : Differ(phi[g], prev.eigen[g])
EigenContinues(k, phi) ==
  Differ(k, keff.prev) \/ \E g \in DOMAIN phi : Differ(phi[g], prev.eigen[g])

-----------------------------------------------------------------------------
(***************************************************************************)
(* Gauss-Seidel and source iteration.                                      *)
(***************************************************************************)
Thermal(g) == g >= problem.g_thermal
StartGroup ==
  /\ stage = "groups" /\ group < problem.n_group
  /\ prev' = IF Thermal(group) THEN [prev EXCEPT !.groups = Over([g \in {group} |-> moments[g]], @)]
             ELSE prev
  /\ stage' = "source"
  /\ UNCHANGED <<problem, exit, aq, mesh, system, keff, source, group, changed, files>>

\* The angular fluxes SAAF stores are those before the solves of the group.
RightHandSide(equ, k) ==
  LET g == GetCompGrpInd(equ, k)
      read == {moments[h] : h \in Groups(equ)}
                \cup {fixed[k]} \cup (IF equ.model = "saaf" /\ HaveReflective
                                      THEN {fluxes[c] : c \in Components(equ)} ELSE {})
  IN  IF NaN \in read THEN NaN ELSE AssembleLinearForms(equ, fixed, moments, fluxes, k)

\* The preconditioner has the name of the solver, so that a Krylov solver finds
\* none it knows and leaves the flux as it is.
Preconditioner(p) == p.linear_solver
Solves(p) ==
  \/ p.linear_solver \notin {"cg", "bicgstab", "gmres"}
  \/ Preconditioner(p) \in {"amg", "jacobi", "bssor", "parasails"}
SymmetricMode(p) == ~(p.model = "ep" /\ p.mesh.have_reflective)
LinAlgSolve(equ, k) ==
  IF ~Solves(problem) THEN fluxes[k]
  ELSE LET rhs == RightHandSide(equ, k)
       IN  IF rhs = NaN THEN NaN ELSE Answer(matrices[k], rhs)
SolveInGroup(equ, g) ==
  [k \in Components(equ) |-> IF GetCompGrpInd(equ, k) = g THEN LinAlgSolve(equ, k) ELSE fluxes[k]]
DirectModes(equ, g) ==
  [k \in Components(equ) |->
     CASE GetCompGrpInd(equ, k) # g \/ problem.linear_solver # "direct" -> direct[k]
       [] direct[k] # "none" -> direct[k]
       [] OTHER -> IF SymmetricMode(problem) THEN "symmetric" ELSE "general"]
Moments(equ, phi) ==
  IF \E i \in 0..n_dir(equ) - 1 : phi[i] = NaN THEN NaN ELSE GenerateMoments(equ, phi)

\* The lengths of the moments and of those of the groups iterated on so far
\* have to be the same.
LengthsMismatch(compared) == DOMAIN compared # 0..problem.n_group - 1
SourceIteration ==
  LET equ == Equation
      phi == SolveInGroup(equ, group)
      now == [moments EXCEPT ![group] = Moments(equ, phi)]
      compared == Over([g \in {group} |-> moments[g]], prev.source)
  IN  /\ stage = "source"
      /\ fluxes' = phi /\ moments' = now
      /\ direct' = DirectModes(equ, group)
      /\ prev' = [prev EXCEPT !.source = compared]
      /\ CASE LengthsMismatch(compared) -> Throws /\ UNCHANGED <<group, changed>>
           [] ~LengthsMismatch(compared) /\ \E g \in DOMAIN compared : Differ(now[g], compared[g]) ->
                UNCHANGED <<stage, exit, group, changed>>
           [] OTHER ->
                /\ stage' = "groups" /\ exit' = exit /\ group' = group + 1
                /\ changed' = (changed \/ (Thermal(group)
                                            /\ Differ(now[group], prev.groups[group])))
      /\ UNCHANGED <<problem, aq, mesh, matrices, fixed, keff, source, files>>

\* The thermal groups are passed through again until none has changed.
ThermalPass ==
  /\ stage = "groups" /\ group = problem.n_group /\ changed
  /\ group' = problem.g_thermal /\ changed' = FALSE
  /\ UNCHANGED <<problem, stage, exit, aq, mesh, system, keff, source, prev, files>>
MGIterationsDone ==
  /\ stage = "groups" /\ group = problem.n_group /\ ~changed /\ ~problem.eigen
  /\ stage' = "output"
  /\ UNCHANGED <<problem, exit, aq, mesh, system, iteration>>
EigenCheck ==
  LET f == FissionSource(Equation, moments)
      k == NextKeff(f)
  IN  /\ stage = "groups" /\ group = problem.n_group /\ ~changed /\ problem.eigen
      /\ source' = [source EXCEPT !.now = f]
      /\ keff' = [keff EXCEPT !.now = k]
      /\ stage' = IF EigenContinues(k, moments) THEN "eigen" ELSE "output"
      /\ UNCHANGED <<problem, exit, aq, mesh, system, prev, group, changed, files>>

IterateUnfollowed ==
  /\ stage = "vectors" /\ problem.dim > 1
  /\ IF ~SameDiscretization(problem) \/ (problem.n_group > 1 /\ ~problem.do_nda)
     THEN Throws /\ UNCHANGED keff
     ELSE /\ stage' = "output" /\ exit' = exit
          /\ \E k \in {NaN, Infinity, Number(0), Number(KUnit)} : keff' = [keff EXCEPT !.now = k]
  /\ UNCHANGED <<problem, aq, mesh, system, source, prev, group, changed, files>>

-----------------------------------------------------------------------------
(***************************************************************************)
(* The results: a piece of every process, and the master that names them.  *)
(***************************************************************************)
GetKeff == keff.now
\* On a line all processes write the same piece, and the eigenvalue only when
\* there is one; the master names the piece without its suffix.
LineResults ==
  [pieces |-> <<0, ".vtu">> :> [subdomain |-> 0, moments |-> moments,
                                 keff |-> IF problem.eigen THEN GetKeff ELSE "absent"],
   master |-> {<<0, "">>}]
\* Mutant: all processes write the same piece here too.
FirstPieceName(process) == <<0, ".vtu">>
PieceName(process) == <<process, ".vtu">>
\* In a plane and in space the eigenvalue of a problem without one is zero.
DistributedResults ==
  LET names == {PieceName(p) : p \in Processes}
      writer(name) == CHOOSE p \in Processes : PieceName(p) = name
  IN  [pieces |-> [name \in names |->
                     [subdomain |-> writer(name), moments |-> moments,
                      keff |-> IF problem.eigen THEN GetKeff ELSE Number(0)]],
       master |-> {<<p, ".vtu">> : p \in Processes}]
OutputResults ==
  /\ stage = "output"
  /\ exit' = "success" /\ stage' = "exited"
  /\ files' = IF problem.dim = 1 THEN LineResults ELSE DistributedResults
  /\ UNCHANGED <<problem, aq, mesh, system, keff, source, prev, group, changed>>

-----------------------------------------------------------------------------
LegacyInit ==
  /\ problem \in Problems
  /\ stage = "start" /\ exit = "running"
  /\ aq = <<>> /\ mesh = <<>>
  /\ matrices = <<>> /\ direct = <<>> /\ fixed = <<>> /\ fluxes = <<>> /\ moments = <<>>
  /\ keff = [now |-> NaN, prev |-> NaN] /\ source = [now |-> NaN, prev |-> NaN]
  /\ prev = [eigen |-> <<>>, groups |-> <<>>, source |-> <<>>]
  /\ group = 0 /\ changed = FALSE
  /\ files = [pieces |-> <<>>, master |-> {}]
DriveBART ==
  \/ Construct \/ MakeGrid \/ InitMatVec
  \/ DoNDAIterations \/ DoMGIterations \/ DoEigenIterations
  \/ EigenPass \/ StartGroup \/ SourceIteration
  \/ ThermalPass \/ MGIterationsDone \/ EigenCheck \/ IterateUnfollowed
  \/ OutputResults
LegacySpec == LegacyInit /\ [][DriveBART]_vars
=============================================================================
