# A TLA+ model of BART

BART solves the neutron transport equation by finite elements: the flux of
every energy group and direction is the solution of a linear system whose right
hand side depends on the fluxes of the others, so the program is a nest of
iterations around a linear solver. The repository holds two such programs: the
current one (`src/src`) and the one it replaces (`src/legacy_code`), which no
CMake file builds any more. This directory models both, from the input files to
the files they leave behind, checks the models with TLC on small instances and
proves what matters most about the core of the current one with TLAPS.

Each process of an MPI run executes the same sequence of calls; within one
process nothing is concurrent. What makes the code hard is order and staleness:
every loop reads vectors some other loop wrote earlier, and a result is right
only if they were the right ones at that moment. The second difficulty is
agreement: the same numbers, indices and terms are derived in several places,
and nothing but convention keeps them together. Processes meet where they
share the mesh, assemble matrices, and write files.

## Inventory

| part | state | operations | what makes it correct |
|---|---|---|---|
| convergence checkers (`convergence/`) | iteration count, maximum, last verdict | `ConvergenceStatus`, `Reset`, setters | a loop that resets its checker ends at its maximum, with its own verdicts only |
| group iteration (`iteration/group`) | current and previous moments, right hand side terms, group solution, stored angular solutions | `Iterate` | what it returns as converged solves all groups at once |
| outer iteration (`iteration/outer`) | k, fission source terms | `IterateToConvergence` | k is updated from exactly the moments in the fission sources |
| framework (`framework/framework.cpp`, `iteration/initializer`) | the system | `SolveSystem`, `Initialize` | a repeated solve is a fresh solve of the data of its call |
| framework assembly (`framework/framework_helper.cpp`, `framework/builder`) | stack of nested builds, validator | `BuildFramework`, `AddPart`, `ReportValidation` | the parts chosen fit each other, and so do those of a nested framework |
| two-grid acceleration (`iteration/subroutine/two_grid_acceleration.cpp`, `calculator/residual`, `acceleration/two_grid`) | moments of its last call, residual, nested framework | `Execute` | the residual is that of the sweep it corrects; a fixed point stays one; the one-group equation stands for all groups |
| NDA (`iteration/subroutine/get_scalar_flux_from_framework.hpp`, `formulation/scalar/drift_diffusion.cpp`) | nested framework | `Execute` | current fluxes replaced by those of a drift-diffusion solve |
| updaters, stamper and formulations (`formulation/`) | precalculated shapes, the finite element's cell | `UpdateFixedTerms`, `UpdateScatteringSource`, ... | each call replaces one term, from current data; particles balance; matrices are symmetric |
| system (`system/`) | terms, moments, solutions | `InitializeSystem`, `SetUp...`, `GetFullTermPtr` | every index has every term its updaters write, and no two share storage |
| quadrature (`quadrature/`) | points, reflections, indices | `AddPoint`, `SetReflection`, `GetBoundaryReflection` | indices are dense; mirror images exist, have equal weights and are mutual |
| domain and mesh (`domain/`) | triangulation, degrees of freedom | `SetUpMesh`, `SetUpDOF`, `Make...` | the cells a process owns have the mapped materials, their faces the id of their side |
| data (`data/`) | cross sections | validation, parsing, collapsing to one group | a table answers every question asked of it; collapsing preserves reactions |
| k-eigenvalue (`eigenvalue/`) | last k | `CalculateK_Eigenvalue` | quotient never taken over zero; same production as the fission source terms |
| solvers (`solver/`) | last iteration count | `SolveGroup`, `Solve` | one system per angle |
| instrumentation (`instrumentation/`) | one instrument per port, open streams | `AddInstrument`, `Expose` | a file holds the text of what its port exposed, all of it, once and in order |
| problem parameters (`problem/`) | parsed input | declaration, parsing | what is accepted can be solved |
| results and `main.cc` | open files, exit code | `main`, `OutputResults`, `OutputMasterFile` | the files a run leaves tell of one solve |
| legacy program (`legacy_code/`) | mesh, angles, matrices, fluxes, eigenvalue | `BARTDriver::DriveBART` and all below it | a run that ends well has solved its problem and written all of it |

How they interact: `main` lets `FrameworkHelper` build a `Framework` and calls
`SolveSystem`. That calls the initializer, then the outer iteration, which
updates fission sources and calls the group iteration, which updates reflected
fluxes and scattering sources through the updaters and calls the group solver.
The updaters pass functions of their formulation to the stamper, which adds them
cell by cell. Both iterations call an optional subroutine after each pass, and
the subroutines own a second `Framework` they solve every time. Iterations and
updaters expose data to their ports, whose instruments convert them and write
them to files. With the Fourier option `main` does all of this twice.

Hard behaviours: checkers shared by nested loops, loops that never satisfy
their checker (oscillating or vanishing fluxes), a linear solver that throws in
the middle of a sweep, fluxes replaced by subroutines behind an iteration's
back, one solution buffer for all groups, reflected fluxes that lag a sweep,
objects that keep state from one solve to the next, nested builds that share a
builder, collective calls that all processes must make, two frameworks writing
files of the same name through streams nobody closes, set-ups that throw half
way. The complete list, by source line, is `hazards` in `PROJECT.json`.

## Modules

### The iterations

| module | models | corresponds to |
|---|---|---|
| `Convergence` | `IterationCompletionChecker` as operators on a `Status` record, and the relative change test with its 0/0 | `iteration_completion_checker.cpp`, `convergence_checker_l_infinity_norm.hpp` |
| `CompletionChecker` | one checker under every sequence of public calls | the class |
| `GroupIteration` | `Iterate`, one action per step of its loops; `pc` says which step is next | `group_solve_iteration.cpp`, `group_source_iteration.cpp` |
| `SourceIteration` | what one call of `Iterate` promises, without its loops | - |
| `SourceIterationRefinement` | the refinement mapping between the two | - |
| `OuterIteration` | `SolveSystem`, called repeatedly: initializer, power or fixed source iteration around the actions of `GroupIteration` | `framework.cpp`, `iteration/outer`, `iteration/initializer` |
| `TwoGrid` | `OuterIteration` with `TwoGridAcceleration::Execute` in place of the arbitrary subroutine | `two_grid_acceleration.cpp` |
| `FrameworkBuild` | the stack of `BuildFramework` calls and the shared validator | `framework_helper.cpp`, `framework_validator.cpp`, `framework_builder.cpp` |
| `CheckerProofs`, `FrameworkBuildProofs` | theorems about the module they are named for | - |
| `GroupIterationProofs` | theorems about the iteration over the groups, and that it implements `SourceIteration` | - |
| `OuterIterationProofs` | theorems about the outer iteration, that `TwoGrid` implements it, and what follows for `TwoGrid` | - |

### From the input to the system

| module | models | corresponds to |
|---|---|---|
| `InputParameters` | entries with patterns and defaults, their parsing, the framework parameters | `problem/`, `framework_helper.cpp` |
| `Materials` | validation of material files, tables of cross sections, collapsing | `data/material`, `data/cross_sections` |
| `CartesianMesh` | cells, material map, boundary ids, the cells of a process before and after refinement, degrees of freedom | `domain/` |
| `Quadrature` | generators, sets, reflections, moments and currents | `quadrature/` |
| `SystemSetUp` | terms, moments and stored solutions with their storage | `system/` |
| `ProblemSetUp` | the state machine over these five: one action per step of the set-up, each of which may throw, then the look-ups of mirror images | `main.cc`, `framework_helper.cpp` |
| `ProblemSetUpProofs` | theorems about accepted materials, the mesh, the collapse to one group and the look-ups of mirror images | - |
| `QuadratureProofs` | theorems about the quadrature set that is built, and the system that fits it | - |

### The equations

| module | models | corresponds to |
|---|---|---|
| `FiniteElement` | the finite element of one process, with the cell and the face it was set to last | `domain/finite_element` |
| `DiffusionTerms`, `AngularTerms` | the cell terms of diffusion, two-grid diffusion, drift-diffusion and SAAF | `formulation/scalar`, `formulation/angular` |
| `TwoGridData` | spectral shapes, domain residual, flux correction, with the 0/0 where a process has no cell | `acceleration/two_grid`, `calculator/residual` |
| `Assembly` | processes that run the calls of the updaters: zero a term, stamp it cell by cell, compress collectively | `formulation/updater`, `stamper.cpp` |
| `AssemblyProofs` | theorems about the lock step of the processes and the symmetry of what they assemble | - |

### The whole program

| module | models | corresponds to |
|---|---|---|
| `Converters` | what instruments make of data, Fourier transform and error included | `instrumentation/converter`, `calculator/fourier` |
| `OutputFiles` | streams with buffers and positions on one disk, whose files are sequences of characters; VTU counters | `instrumentation/outstream` |
| `MainProgram` | `main` on one or several processes: frameworks built, instrumented, solved, released, with the moments the Fourier instruments copy; the files | `main.cc`, `instrumentation/`, `results/` |

### The legacy program

| module | models | corresponds to |
|---|---|---|
| `LegacyMesh` | box and pin meshes, ids, fuel maps, manifolds, refinement | `legacy_code/mesh` |
| `LegacyAngles` | angle sets, components, reflections | `legacy_code/aqdata` |
| `LegacyEquations` | diffusion, even parity and SAAF: cell, boundary and interface terms, sources, moments | `legacy_code/equation` |
| `LegacyDriver` | `main` to exit code, with the nested iterations, the direct solver and the result files | `legacy_code/common`, `legacy_code/iteration`, `linear_algebra.cc` |
| `LegacyProofs` | theorems about the solution a run ends with, its result files, its angles and its symmetric matrices | - |

`MC...` modules hold the instances.

**Data.** The iteration modules and the equation modules abstract a vector in
two ways, because their questions differ. In the iterations a vector over the
mesh is a member of a small set, a scalar flux is `Moment` of the angular
fluxes, and a right hand side term holds *what it was computed from* (the
moments, k, or stored angular fluxes): "is this term current?" is an equation
between two values. The constant operator `Transport` is everything between the
terms and the angular flux of a group and angle; it is a function, as the
linear systems are regular, and its failure is the action `SolveThrows`.
`material` is a variable chosen initially, so one run tries all problems of its
instance. In the equations a vector is a function from degrees of freedom to
integers, and a term is computed: linear elements on a line have shapes,
gradients and Jacobians that are whole numbers of halves and quarters, and
cross sections are given in units (`ChiUnit`, `SigmaUnit`, `KUnit`, `ShapeUnit`)
that make every product exact. What these modules show about one is what the
other assumes: `Transport` reads exactly the terms `Assembly` assembles.

**Control.** Every loop of the code is a loop of the model; the locals of
`Iterate` (`previous_moments_map`, `current_scalar_flux`,
`previous_scalar_flux`) are variables, because the mistakes to exclude are
mistakes about when they are taken. The variables `innerConverged`, `swept`,
`results` and `exposed` are history: no action reads them.

**Convergence.** The norms are abstracted to equality: a verdict is "the values
are the same", except that a zero flux is never converged, which is what the
division by its norm gives (`NaN <= max_delta` is false). The models therefore
cover loops that end by value and loops that only their maximum ends. The
legacy program has no maxima, and its maximum with a NaN is zero, so there a
vanished flux does converge; its model keeps that difference.

## Runs

| run | what it shows | states |
|---|---|---|
| `completion_checker` | no sequence of calls makes a loop miss its maximum or inherit a verdict, if it resets first | 320 |
| `group_iteration` | types; a converged return is a solution; sources belong to the returned flux; stored fluxes have the right moments; reflected fluxes lag one sweep; `Iterate` ends; it implements `SourceIteration`, whatever the subroutine does | 408,000 |
| `outer_iteration` | for the three outer iterations: k and fission sources, eigenpair on convergence, repeatable solves of the data of the call, termination | 836,000 |
| `two_grid` | what the two-grid subroutine keeps, that it leaves a fixed point alone, and that it is a subroutine | 579,000 |
| `framework_build` | for all input combinations: updaters, terms, storage and iterations fit, also in nested frameworks | 760 |
| `problem_set_up` | cross sections are complete or refused; materials and sides of a process's own cells; mirror images; system and solutions fit the problem; collapsing preserves reactions | 1,040 |
| `assembly` | particles balance; the one-group equation stands for all groups on the local cells; fission sources agree with k; matrices are symmetric; no process waits for ever | 3,900 |
| `main_program` | every file tells of one solve, completely and character by character, when all is over; Fourier files tell the error | 10,200 |
| `legacy` | a run that ends well has solved its eigenvalue problem; the master names its pieces; the symmetric solver gets symmetric matrices; the mesh is that of its input; reflections are mirrors | 12,200 |
| `build_nda`, `fixed_source`, `legacy_fixed_source` | findings, see below | - |

**Bounds.** Two groups are needed for scattering between groups and for one
group to be solved before another; two angles for reflection and for a sum of
angular fluxes; `BoundaryLagsOnePass` and `StoredMatchesMoments` need both.
Three values of a scalar flux let a sequence converge, alternate and vanish.
The maxima of the checkers (1000 in the code) are 2 to 4: large enough for a
loop to end by value before its maximum, to end by its maximum, and to be
entered again. `CounterBound` caps counters above every maximum; it is only
reached in `CompletionChecker`, whose callers may go on past the maximum.

In the iterations an angular flux is an integer and `Transport` a response to
the (capped) amount of sources, and all functions of the amount are tried: for
both groups in `MCGroupIteration` (with and without in-group scattering and an
anisotropic source) and `MCTwoGrid`, for group 0 in `MCOuterIteration`, whose
group 1 slows down 0, 1 or 2 times the flux of group 0 and causes the fissions.
The fission source then depends on how the flux is distributed over the groups,
not on its sum, which dividing by k takes out; without that a stale fission
source would go unnoticed.

In `MCOuterIteration` the outer subroutine moves the moments to one other value,
which has fissions, so that what it does to k is seen.

`NestMax` (3) is one more than the nesting `BuildFramework` reaches; a deeper
nest would have no next step, and the run checks for deadlock. That the bound
never bites is the theorem `CallsAreNestedOnce`.

`MCProblemSetUp` has problems in one, two and three dimensions that are set up
to the end, and variations with one defect each, one for every error path of the
parameters, the materials and the mesh. Each is set up by the only
process, and by the first and the second of two: the partition gives the first
the lower half of the cells in x, of the coarse mesh and again of the refined
one, so that with an odd number of cells it gets some whose coarse cell it never
gave an id. `LookUpBound` (3) caps the remembered mirror images. `MCAssembly` has two processes on two or three cells, with the
boundary between processes in either place, two materials, two groups, two
angles; two solutions, neither symmetric in space, group or angle. In
`MCMainProgram` one or two processes run, a group iteration is one pass, buffers
hold 1, 9 or 1000 characters (nothing, something, everything is left to the end),
numbers have one or two digits and a sign, and a solve may throw at any
iteration. `MCLegacy` iterates on two cells, refined once or not, with one
or two groups, and refuses an input whose material has no cross sections; a
direct solve is division by the diagonal modulo 4, which lets
solutions settle, vanish and alternate; pins are 80 wide with rods of radius
35, for which the points of the octagon are whole numbers (five sevenths stands
for one over the root of two).

**Fairness.** `FairSpec`, `OuterFairSpec`, `AssemblyFairSpec`: weak fairness of
the code's own next step (of each process), nothing else. A sequential program
that has not returned or thrown goes on; nothing is assumed about verdicts, the
solver, or the environment calling again. Self-loops mark the states in which
the program has thrown or returned; `problem_set_up` and `legacy` do not check
for deadlock, since their programs end.

## Findings

Three disagreements between the code and what the repository says of it, each
shown by a run expected to be violated; `PROJECT.json` quotes the lines.

1. `build_nda`: the framework nested for NDA is not a drift-diffusion framework,
   its equation type stays SAAF.
2. `fixed_source`: the loop over quadrature points in the fixed source term of
   diffusion does not use the source computed before it, so every source counts
   as one.
3. `legacy_fixed_source`: the legacy program never assembles the source of a
   problem with a fixed source, and iterates to the solution of another problem.

Some things are true of the code and are modelled without a run of their own. A nested
build overwrites the validator, so the report of an accelerated framework may
call parts unneeded that it needs (`PlainReportIsClean` speaks of the others). A
problem with both accelerations throws, because the parameters nested for
two-grid keep `use_nda_` of an equation that is now diffusion. A checker whose
count is past its maximum never completes by count (`CompletionChecker` shows
that no loop gets there). The first residual of the two-grid subroutine is taken
against zeros. The header of the drift term (`drift_diffusion_i.hpp:65`) has the
gradient of the row; the code (`drift_diffusion.cpp:118`) and its own test
(`drift_diffusion_test.cpp:132`) have the gradient of the column, and so has the
model.

With several processes, three more.

* *Cells from another process.* Materials and boundaries are set on the coarse
  cells a process owns (`mesh_cartesian.cpp:97`, `111`); then, in two and three
  dimensions, the refinement shares the cells among the processes anew
  (`domain.cpp:22`, `135`). A cell whose coarse cell the process did not own has
  material 0 and, on the boundary, the id 0, which is that of the lower side in
  x, though `mesh_i.hpp:21` and `:23` promise ids to each cell and each boundary
  face. `CellMaterialIsMapped` and `FacesAreTheirSide` set these cells apart
  (`KeepsItsIds`); without that TLC finds them in `problem_set_up`.
* *Entries no local cell touches.* Spectral shapes and residuals are averages over
  the local cells, 0/0 where there is none (`domain_spectral_shapes.cpp:37`,
  `domain_isotropic_residual.cpp:44`), and the flux corrector scales and adds
  whole vectors (`flux_corrector.hpp:17`): the moments of a process become NaN
  there. `OneGroupBalance` says so, of the corrected fluxes of two processes.
* *One file for all.* Every process opens the same `.csv` files and writes at its
  own position (`instrument_builder.cpp:119`, `166`, `186`). Equal text is no harm.
  The sums the SAAF updater exposes are over the cells of a process and never
  reduced (`saaf_updater.cpp:72`, `136`, `163`), so these files end as a mixture,
  with lines cut where numbers have different lengths. `FilesTellOneSolve` is
  checked for them with one process and sets them apart with more
  (`IsReplicated`); without that TLC finds the mixture.

## Proofs

Checked by TLAPS for all values of the constants that satisfy the named
assumptions of the modules: any number of groups, angles, processes and files,
any flux sets, any `Transport`, any boundaries and maxima; any input, material and
map files, numbers of cells and refinements. Each inductive invariant was first
checked by TLC as an invariant of the instance of its component.

**Checkers** (`CheckerProofs`). `CheckerStopsLoops`, `VerdictsAreFresh`. The
code completes when its count *equals* the maximum. `CheckerInv` relates the
count to what the loop has asked since its last reset; only a loop that resets
first is known to be below the maximum, and a counter that steps by one from
below cannot pass it.

**Group iteration** (`GroupIterationProofs`).

* `TypesHold`: the inductive invariant `TypeInv` adds `CountersInv`: inside a
  loop its counter is strictly below its maximum (`StatusStep`).
* `ConvergedReturnSolves`, `ConvergedReturnSources`: a converged return solves
  all groups simultaneously, though each was solved with fluxes that later
  groups then changed. The property only speaks of the end of a call, so it is
  not inductive; `SweepInv` says, for each finished group of the running pass,
  which mixture of new and old fluxes its sources came from (`SolvedWith`:
  groups up to its own as swept, later ones as the pass started). At a return
  where nothing changed from start to end of the pass, all mixtures are the
  returned fluxes.
* `StoredFluxesMatch`, `ReflectedFluxesLag`: `StoredInv` and `BoundaryInv`
  relate stored fluxes, boundary terms and moments at each point of the group
  loop.

**Outer iteration** (`OuterIterationProofs`). A call of `Iterate` is a part of
`SolveSystem`, and its actions are those of `GroupIteration`, so the invariants
above are reused: `OuterInv` is `GroupInv` (they hold in the call, and between
calls they only say types) with the types and phases of the outer loop, and with
what each term was computed from at every stage.

* `OuterTypesHold`, `InnerSolvesHold`: types, and every promise of one call of
  `Iterate`, for all the calls an outer iteration makes.
* `SourcesAreOfPreviousMoments`: at the check, `previous` and k are inside every
  fission source. The strengthening says it from the update of the sources to
  the check, whatever sweeps, subroutines and aborted calls happen in between.
* `EigenpairIsSolved`: on convergence of everything, what is returned solves the
  eigenproblem. For the quotient of fission sources this needs that NDA has not
  replaced the moments since the sources were updated. The proof attempt found
  this: a corrected k is a quotient of what the correction put there, and TLC
  has a counterexample as soon as the instance's corrections are not zero. The
  property now has the hypothesis; the Rayleigh quotient needs none, because it
  is of the moments with themselves when nothing changed.
* `SolveUsesItsData`: a later solve of the same framework solves the data set
  for it; the invariant follows the fixed terms through Initialize.

**Refinements** (in the same modules). `IterationRefines`: every step of
`GroupIteration` maps to a step or a stutter of `SourceIteration`; the step that
returns converged is the one that needs `ConvergedReturnSolves`.
`TwoGridRefines`: the subroutine's run is a run of `OuterIteration`'s arbitrary
subroutine, so `AcceleratedEigenpair` follows from the theorem above.
`ResidualsAreFresh` needs `KeptInv`, where between two runs the kept moments are
the system's and where they are those the sweep started from;
`SolutionIsNotMoved` is an action property that needs it too. It supposes that
every degree of freedom is one of a local cell (`EveryDofIsLocal`), as with one
process, or on a line, whose cells every process has: elsewhere even an error of
zero is added as a NaN. `NothingIsAdded` in `AssemblyProofs` shows this of the
corrector itself: zeros leave a flux of numbers as it is exactly if that holds.

**Framework assembly** (`FrameworkBuildProofs`). `BuildInv` describes every
frame on the stack by what its parameters imply at each step of its build, the
frames below it by the acceleration they wait for, and everything built by the
same predicate at its end. `CallsAreNestedOnce` is part of it: the parameters of
nested calls ask for no call that does not throw. `UpdatersFit`, `NestedFit`,
`AcceleratedIsStored` and `PlainReports` are consequences.

**Set-up** (`ProblemSetUpProofs`, `QuadratureProofs`). `SetUpInv` carries the
parsed input, and that it was accepted, from the step that validates to the
state that is used; each theorem adds an invariant of the part it is about. What
the program computes in loops (points filled in one by one, meshes refined, lines
of a map read, sums) are recursive functions here, and `InductionTo` is the
induction over them: what holds at 0 and passes on holds up to N.

* `AcceptedCrossSections`: what validation accepts answers every look-up.
* `ReflectedAngles`: `FillQuadratureSet` adds each point with its opposite, and
  both only once. `PointsInPairs`, by induction over the generated points, says
  at which indices they are, that they are each other's reflection, and that
  nothing else is in the set, whichever of the two is found first. That every
  axis has images needs that the generators make half of a symmetric set
  (`HalfSet`): `LinePoints` for one dimension, and for three `PositiveXIsHalf`,
  from the octant (`LevelSymmetricPoints`, by induction over the levels) through
  the arithmetic of `DistributeOverQuadrants`. A pair contributes opposite terms,
  so the current of an isotropic flux vanishes (`NoNetCurrent`).
* `LookUpsStaySound`: from a set with distinct points, one image of each in every
  axis, and remembered images that are images of each other, every look-up leads
  to such a set (`LookUpKeepsSound`, by the uniqueness of an image and because an
  image of an image is the point). `PairsAreSound` is where that starts.
* `SystemFits`: `SystemInv` describes what InitializeSystem and its successors
  make (`BuiltTerms`) of the groups, the angles and the kind of the problem. The
  number of angles is read several times, before and after look-ups change the
  set (`LookUpKeepsAngles`).
* `FacesKnowTheirSides`: of the cells a process owns, refined or not, whose coarse
  cell it owned too. `KnowsSides` is kept by a global refinement (`RefinedSides`): a child's face lies in a side of the box exactly if it is half
  of a parent's face that does. `AcceptedSizes` is where validation makes the
  sizes positive and as many as there are dimensions.
* `CellsShowTheirMaterial`: the lines of a map file are read last first and their
  numbers mapped to a key, the text around them dropped; `RectangularPlaces`
  relates a key to the written line and column, `EntryIsIndex` is the injectivity
  of the key in a rectangle of any size, and `AncestorsMaterial` says that after
  any number of refinements a cell has the material of the coarse cell it is in,
  which is the mapped one where the process owned that cell.
* `ReactionsArePreserved`: absorption and fission of the collapsed data are those
  of all groups, as sums of rows and of columns of a matrix are the same sum
  (`SumsExchange`) and sums are linear; the formulas of the two constructors, one
  of which transposes, agree when every group counts as one.

**Assembly** (`AssemblyProofs`). `LockInv`: processes are never a call apart, and
differ in stamps only when some have not entered the call and the others are in
its first stamp; until one compresses, what the call fills is zero.
`CompressOfOneTerm`, `NobodyWaitsForEver` (the safety half of
`AllProcessesFinish`) and `LateZeroing` follow: there is no barrier before the
zeroing, and none is needed. `SelfAdjointMatrices`: a matrix is symmetric at each
moment, not only when compressed. `SymmetryInv` says so of the matrices and of
what each process has pending for one, and that calls only touch terms that
exist; a sum of symmetric matrices is one, so what is left is that every stamp
adds one to its cell, which is shown for each formulation from its formula, with
the finite element in whatever cell and face it was left. Drift-diffusion is set
apart, its term is not symmetric.

**Legacy program** (`LegacyProofs`). `MasterIsWhole`, with the lemma that every
process has a piece of its own. `LegacySolves`: on a line, with a direct solver
and without reflected fluxes, each flux of a run of an eigenvalue
problem that ended well is what another solve would give. A fixed source is never
assembled (finding 3), so nothing of the kind is true of other problems. A run with several groups throws in its first source
iteration, so one that ends well has one; that is part of the invariant
(`GroupInv`), not an assumption. `SolvedInv` says at which stages a flux is what
another solve would find (`GroupSolved`: its moments did not change in the last
sweep), and `PassInv` that until the next update the fixed right hand sides are
those of the moments and the k of the last one; when neither changed, they are
those the run ends with (`EigenSolved`). A NaN ends the loops too, from 0/0 or from
an infinite k, and is carried along, so the property speaks of numbers.

`AnglesAreMirrored`: in any dimension and for any order, each direction has one
image in each side, which has it as its own. A set is levels one after the other,
each a circle of equal parts (`LevelIs`, `LevelSymmetricIs`: an induction over the
levels, which gives each direction a number of its own), and a mirror takes a
level to itself or to the one as far from the other pole, and an azimuth to
another of the same circle (`ImageIs`). Half a set (even parity) is reflected with
the opposite of the image: on a line and in a plane that is enough, in space the
half set is short of directions, and the property sets it apart.

`SymmetricModesAreRight`: on a line, a direct solver in its symmetric mode has a
symmetric matrix. `SymmetricInv` says that no such solver is there before the
matrices are assembled and that then the matrices of all components are symmetric
if the mode is (`AllSymmetric`). Cell and boundary terms are symmetric one by one
(`VolumeIsSymmetric`, `BoundaryIsSymmetric`), but for the reflecting boundary of
even parity, for which the mode is another one. The interface terms are not: the
two blocks between a cell and its neighbour are each other transposed
(`BlocksAreTransposed`), each slope with the sign of the other side, and go to
entries that are each other's transposed too. That every component is of a group
and an angle there is (`ComponentsAreFound`) is the division of its number by the
number of angles.

**Assumptions, and where the code has them.** `CounterBoundAssumption`,
`SizeAssumption`, `DataAssumption`: sizes and types. `OuterAssumption`: quotients
are values of k; a Rayleigh quotient of moments with themselves is one, so k stays
(`calculator_via_rayleigh_quotient.cpp:20`); the outer maximum is above one (1000,
`framework_helper.cpp:448`); two-grid acceleration and NDA are never together
(no framework is built then, which the invariant of `FrameworkBuildProofs`
shows of the module that models the building). `TwoGridAssumption`: a residual of
no change is no residual, the nested solve is linear, adding nothing changes
nothing if every degree of freedom is local. `NotANumber`: NaN is not a number.
`SetUpAssumption`: the material files are messages of `protobuf/material.proto`,
every name in an input is the name of a file that is there or is missing, entries
the handler declares as integers or lists of them are that, a map is lines of
numbers, a spectral shape has numbers. `AssemblyAssumption`: every process owns a
cell, as a process without cells throws; the total cross sections of the
self-adjoint form are numbers. `NumbersAssumption`: there are
processes and angles. `LegacyAssumption`: an estimate of k from two equal fission
sources leaves k. `AnglesAssumption`: the angles read the same entries of the input
as the equation and the mesh (`aq_base.cc:22`, `24`, `equation_base.cc:21`,
`mesh_generator.cc:19`), and the order is not negative. `ProblemsAssumption`: on a
line there is an equation, it has an angle, and what is kept of a material has an
inverse total cross section in each group (a material that is not there throws, as
in the code).

**Only model-checked, and why.**

* Liveness (`IterateEnds`, `SolveEnds`, `AllProcessesFinish`): fairness and
  ENABLED are outside the prover.
* The theorems of the library about induction take an operator as a parameter,
  which the provers cannot instantiate, and what a fold of the community modules
  computes cannot be expanded. Sums and loops that are recursive functions are
  proved about (above); those that are folds over sets of cells, dofs, writes or
  groups are not: `ParticlesBalance`, `OneGroupBalance`, `FissionSourcesAgree`,
  `FilesTellOneSolve`, `FourierFilesTellTheError`, and the mesh of the legacy
  program (`MeshIsOfItsInput`). Where a property only compares two sums that have
  the same terms, the sums need not be expanded, and it is proved
  (`SelfAdjointMatrices`, `SymmetricModesAreRight`).
* `SolveIsRepeatable`: stored angular fluxes survive Initialize
  (`saaf_updater.cpp:71`), so it does not hold for every boundary, and where it
  holds it compares two runs of an iteration.

## Not modelled, and why

*Outside the repository's code.* deal.II, PETSc, SLEPc and FFTW are external: a
Krylov solve is a function or an exception, the eigenvalue solver is the shape it
returns, partitioning and refinement are given. The diff algorithm vendored in
`inc/dtl`, the test helpers and the benchmarks hold no part of a solve.

*Numbers.* What the iterations make of a NaN in the moments of a process,
tolerances (`SetMaxDelta`), tables of ordinates, spherical harmonics,
integrals of other finite elements, anisotropic moments: the models have exact
integers and a few ordinates with the signs and coincidences of the real ones.

*Text.* Reading the syntax of input and protobuf files, formatting, colours,
factories and named types.

*Nonlinear diffusion acceleration as a whole.* Its subroutine and its terms are
modelled, but no reachable solve uses the drift-diffusion equations (finding 1),
so they are not composed with the iterations.

*Legacy program.* Iterations in two and three dimensions are not followed:
their meshes, angles and files are. The cells and their ids are those of one
process; a partition that changes with the refinement is modelled for the current
program only. Interface terms and the modes of the direct solver are checked and
proved on lines. Some inputs never reach a solve in the code
and are modelled as they end: with several groups the comparison of
maps of different size throws (`iteration_base.cc:56`). Properties set apart
what the code does not do: a fixed source is not assembled (`mg_base.cc:55`,
finding 3), Krylov solvers are set up and never called
(`linear_algebra.cc:17`), reflected SAAF fluxes are not compared
(`source_iteration.cc:28`), the even parity angles in space cover a quarter of
the sphere (`lsgc.cc:49`), the master file on a line names pieces that are not
there (`bart_driver.cc:280`). Meshes read from a file belong to deal.II. The
builder in `legacy_code/builder` includes headers that no longer exist.

## Plan

Done, in this order: the iterations with their abstract specification and the
proofs about the group iteration; the set-up of a problem; the equations with
their assembly by several processes; the main program with its files; the legacy
program; the proofs about the other iterations, the building of frameworks, the
accepted input, the lock step of the processes; the proofs about the quadrature
set, the system, the mesh, the collapsed data, the assembled matrices and the
solution, the angles and the symmetric matrices of the legacy program.

Left:

1. Proofs: the balances of `Assembly`, by sums over the rows of a cell's matrix;
   the order of writes and releases behind `FilesTellOneSolve`.
2. NDA composed with two solves of `OuterIteration`, once its framework has the
   drift-diffusion equations.
3. What NaN entries of the moments do to the norms and the ends of the loops, when
   the two-grid acceleration runs on several processes.
4. Iterations of the legacy program in a plane.

Modules take parameters as constants with named assumptions, have one action per
operation, and use no RECURSIVE operator.
