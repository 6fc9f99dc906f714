------------------------------ MODULE Assembly ------------------------------
(***************************************************************************)
(* The assembly of the systems of equations by several processes: the      *)
(* updaters with the terms of their formulation, and the stamper that adds *)
(* them cell by cell.                                                      *)
(*                                                                         *)
(* Every process runs the same calls.  A call zeroes the matrix or vector  *)
(* it is about and makes one or more stamps; in a stamp a process fills    *)
(* and adds the terms of its own cells, and then compresses, which sends   *)
(* what it added to the owners and waits for all processes to do so.  The  *)
(* finite element is one object per process, which every term sets to the  *)
(* cell it is asked for.                                                   *)
(*                                                                         *)
(* Solves and moments are those of other modules: between two rounds of    *)
(* calls the solution becomes any of Solutions.                            *)
(***************************************************************************)
EXTENDS TwoGridData, AngularTerms

Diffusion == INSTANCE DiffusionTerms

CONSTANTS
  ChiUnit,     \* the one a fission spectrum sums to, see module Materials
  Processes,   \* MPI processes
  Setups,      \* the problems: equations, mesh, materials, boundaries
  Solutions,   \* angular fluxes: group -> angle -> degree of freedom -> value
  AngleSet     \* the quadrature set of the angular formulation

ASSUME AssemblyAssumption ==
  \A s \in Setups :
    /\ s.kind \in {"diffusion", "saaf", "drift", "two_grid"}
    \* a process without cells throws before anything is assembled
    /\ Processes = {s.owner[c] : c \in DOMAIN s.owner}
    /\ s.groups \in Nat /\ DOMAIN s.owner \subseteq Nat
    \* the cross sections on the diagonals are numbers
    /\ s.kind = "saaf" =>
         \A c \in DOMAIN s.owner, g \in 1..s.groups : s.xs.sigma_t[s.material[c]][g] \in Int
ASSUME NumbersAssumption ==
  /\ Processes # {} /\ SigmaUnit \in Int
  /\ SetSize(AngleSet) \in Nat \ {0}
  /\ \A a \in Indices(AngleSet) : Omega(AngleSet, a) \in Int

VARIABLES
  setup,       \* the problem
  program,     \* the calls every process makes
  tables,      \* what the formulation has calculated beforehand
  solution,    \* the angular fluxes of the last solve, <<>> before it
  moments,     \* group -> degree of freedom -> scalar flux
  terms,       \* matrices and vectors, by name, group and angle
  at,          \* process -> its call, its stamp in it, and the cells left
  waiting,     \* the processes that have compressed
  pending,     \* process -> what it added since it compressed last
  fe           \* process -> its finite element

vars == <<setup, program, tables, solution, moments, terms, at, waiting, pending, fe>>

-----------------------------------------------------------------------------
Cells == DOMAIN setup.owner
OwnCells(p) == {c \in Cells : setup.owner[c] = p}
AllDofs == Dofs(Cells)
GroupSet == 1..setup.groups
AngleIndices == IF setup.kind = "saaf" THEN Indices(AngleSet) ELSE {0}
Outer(cell, face) == cell + 2 * face - 1 \notin Cells

\* Before the first solve the moments are those of the initializer, and the
\* stored angular fluxes are empty.
InitialMoments == [g \in GroupSet |-> [d \in AllDofs |-> 1]]
MomentsOf(fluxes) ==
  [g \in GroupSet |-> [d \in AllDofs |->
     LET angular == [a \in AngleIndices |-> fluxes[g][a][d]]
     IN  IF setup.kind = "saaf" THEN ZerothMoment(AngleSet, angular)
         ELSE ScalarMoment(angular)]]

\* Drift-diffusion integrates the angular fluxes of another framework.
AngularFlux(g, d) == [a \in Indices(AngleSet) |-> setup.angular[g][a][d]]
HighOrderMoment(g) == [d \in AllDofs |-> ZerothMoment(AngleSet, AngularFlux(g, d))]
Current(g) == [d \in AllDofs |-> NetCurrent(AngleSet, AngularFlux(g, d), 1)]
CurrentAcross(g, face) ==
  [d \in AllDofs |-> DirectionalCurrent(AngleSet, AngularFlux(g, d), <<FaceNormal(face)>>)]
FluxAcross(g, face) ==
  [d \in AllDofs |-> DirectionalFlux(AngleSet, AngularFlux(g, d), <<FaceNormal(face)>>)]

\* The two-grid source, which every process computes for its cells.
Residual(p) ==
  DomainResidual(setup.all_groups, OwnCells(p), AllDofs, setup.material, setup.now, setup.before)

-----------------------------------------------------------------------------
(***************************************************************************)
(* Calls of the updaters, and the stamps each of them makes.               *)
(***************************************************************************)
\* The functions of the fixed terms are set up anew in every call: matrices,
\* vectors, matrices at boundaries.  Drift-diffusion adds to diffusion, which
\* for two-grid acceleration absorbs and has a constant on the right.
SAAFFixedStamps == <<"streaming", "collision", "bilinear", "source">>
DiffusionFixedStamps ==
  IF setup.kind = "two_grid"
  THEN <<"streaming", "absorption", "source", "constant", "vacuum">>
  ELSE <<"streaming", "collision", "source", "vacuum">>
DriftFixedStamps == <<"streaming", "collision", "drift", "source", "vacuum", "drift_boundary">>
FixedStamps ==
  CASE setup.kind = "saaf" -> SAAFFixedStamps
    [] setup.kind = "drift" -> DriftFixedStamps
    [] OTHER -> DiffusionFixedStamps
Stamps(call) == IF call.op = "fixed" THEN FixedStamps ELSE <<call.op>>
OnFaces(stamp) == stamp \in {"bilinear", "vacuum", "drift_boundary", "reflective"}
Target(stamp) ==
  CASE stamp \in {"source", "constant"} -> "fixed"
    [] stamp \in {"fission", "scattering", "reflective"} -> stamp
    [] OTHER -> "matrix"
Targets(call) == IF call.op = "fixed" THEN {"matrix", "fixed"} ELSE {call.op}
Zero(target) ==
  IF target = "matrix" THEN [x \in AllDofs \X AllDofs |-> 0]
  ELSE [x \in {<<d>> : d \in AllDofs} |-> 0]

\* Group by group, one updater after the other, one call for every angle.
ForGroups(updates) ==
  LET angles == Cardinality(AngleIndices)
      each == Len(updates) * angles
  IN  [i \in 1..setup.groups * each |->
         [op |-> updates[((i - 1) % each) \div angles + 1], group |-> (i - 1) \div each + 1,
          angle |-> (i - 1) % angles]]
UpdateFixedTerms == <<"fixed">>
UpdateFissionSource == <<"fission">>
UpdateScatteringSource == <<"scattering">>
UpdateBoundaryConditions ==
  IF setup.kind = "saaf" /\ setup.reflective # {} THEN <<"reflective">> ELSE <<>>
Round(fixed) ==
  (IF fixed THEN ForGroups(UpdateFixedTerms) ELSE <<>>)
    \o (IF setup.eigen THEN ForGroups(UpdateFissionSource) ELSE <<>>)
    \o ForGroups(UpdateBoundaryConditions \o UpdateScatteringSource)
Solve == [op |-> "solve", group |-> 0, angle |-> 0]
\* Two rounds; the second one of a nested framework starts with Initialize.
Program == Round(TRUE) \o <<Solve>> \o Round(setup.nested)

-----------------------------------------------------------------------------
(***************************************************************************)
(* The cell matrix or vector of a stamp.                                   *)
(***************************************************************************)
AngularCellTerm(stamp, set, m, g, a) ==
  LET xs == setup.xs
  IN CASE stamp = "streaming" -> SAAFStreamingTerm(xs, tables, m, g, a)
       [] stamp = "collision" -> SAAFCollisionTerm(xs, m, g)
       [] stamp = "source" -> SAAFFixedSourceTerm(xs, tables, m, g, a)
       [] stamp = "scattering" -> SAAFScatteringTerm(set, xs, tables, m, g, a, moments)
       [] stamp = "fission" -> SAAFFissionTerm(set, xs, tables, m, g, a, setup.k, moments)
ScalarCellTerm(p, stamp, set, m, g) ==
  LET xs == setup.xs
  IN CASE stamp = "streaming" -> Diffusion!StreamingTerm(xs, tables, m, g)
       [] stamp = "collision" -> Diffusion!CollisionTerm(xs, tables, m, g)
       [] stamp = "absorption" -> Diffusion!AbsorptionTerm(xs, tables, m)
       [] stamp = "drift" ->
            Diffusion!DriftDiffusionTerm(set, xs, m, g, HighOrderMoment(g), Current(g))
       [] stamp = "source" -> Diffusion!FixedSourceTerm(xs, m, g)
       [] stamp = "constant" -> Diffusion!ConstantTerm(set, Residual(p))
       [] stamp = "scattering" -> Diffusion!ScatteringTerm(set, xs, m, g, moments)
       [] stamp = "fission" -> Diffusion!FissionTerm(set, xs, m, g, setup.k, moments)

\* A material without fissions is skipped; SAAF sets the cell before it looks.
CellFill(p, stamp, g, a, cell, f) ==
  LET m == setup.material[cell]
      angular == setup.kind = "saaf"
  IN  IF stamp = "fission" /\ ~setup.xs.is_material_fissile[m]
      THEN Untouched(IF angular THEN SetCell(f, cell) ELSE f)
      ELSE OnCell(f, cell, LAMBDA set :
             IF angular THEN AngularCellTerm(stamp, set, m, g, a)
             ELSE ScalarCellTerm(p, stamp, set, m, g))

Boundary(face) == IF face = 0 THEN "XMin" ELSE "XMax"
FaceFill(stamp, g, a, cell, face, f) ==
  LET reflected == face \in setup.reflective
      mirror == BoundaryReflection(AngleSet, a, Boundary(face))
  IN CASE stamp = "bilinear" -> OnFace(f, cell, face, LAMBDA set :
            BoundaryBilinearTerm(AngleSet, face, a))
       [] stamp = "vacuum" /\ ~reflected -> OnFace(f, cell, face, LAMBDA set :
            Diffusion!VacuumTerm(face))
       [] stamp = "drift_boundary" /\ ~reflected -> OnFace(f, cell, face, LAMBDA set :
            Diffusion!DriftBoundaryTerm(set, face, CurrentAcross(g, face), FluxAcross(g, face)))
       \* nothing has been stored before the first solve
       [] stamp = "reflective" /\ reflected /\ solution # <<>> ->
            OnFace(f, cell, face, LAMBDA set :
              ReflectiveBoundaryTerm(set, AngleSet, face, a, solution[g][mirror]))
       [] OTHER -> Untouched(f)

\* to_stamp.add, with the degrees of freedom of the cell.
Added(sum, cell, local) ==
  [x \in DOMAIN sum |->
     LET inCell == [n \in DOMAIN x |-> x[n] - cell]
     IN  sum[x] + IF inCell \in DOMAIN local THEN local[inCell] ELSE 0]

\* One turn of the stamper's loop: a cell, or the outer faces of one.
Stamped(p, stamp, call, cell) ==
  LET after(filled, sum) == [fe |-> filled.fe, sum |-> Added(sum, cell, filled.local)]
      onFace(face, now) ==
        IF Outer(cell, face)
        THEN after(FaceFill(stamp, call.group, call.angle, cell, face, now.fe), now.sum)
        ELSE now
  IN  IF OnFaces(stamp)
      THEN onFace(1, onFace(0, [fe |-> fe[p], sum |-> pending[p]]))
      ELSE after(CellFill(p, stamp, call.group, call.angle, cell, fe[p]), pending[p])

-----------------------------------------------------------------------------
AssemblyInit ==
  /\ setup \in Setups
  /\ program = Program
  /\ tables = IF setup.kind = "saaf" THEN Initialize(NoTables, AngleSet)
              ELSE Diffusion!Precalculate(<<>>)
  /\ solution = <<>>
  /\ moments = InitialMoments
  /\ terms = <<>>
  /\ at = [p \in Processes |-> [call |-> 1, stamp |-> 0, cells |-> {}]]
  /\ waiting = {}
  /\ pending = [p \in Processes |-> <<>>]
  /\ fe = [p \in Processes |-> NewFiniteElement]

Ended(p) == at[p].call > Len(program)
CallOf(p) == program[at[p].call]
StampOf(p) == Stamps(CallOf(p))[at[p].stamp]
Running(p) == ~Ended(p) /\ CallOf(p).op # "solve"
Key(target, call) == <<target, call.group, call.angle>>
Keys(call) == {Key(t, call) : t \in Targets(call)}
Zeroed(call) ==
  [key \in DOMAIN terms \cup Keys(call) |-> IF key \in Keys(call) THEN Zero(key[1]) ELSE terms[key]]

\* The next stamp of a call, or the next call.
Advanced(p) ==
  IF at[p].stamp < Len(Stamps(CallOf(p)))
  THEN [at[p] EXCEPT !.stamp = @ + 1, !.cells = OwnCells(p)]
  ELSE [call |-> at[p].call + 1, stamp |-> 0, cells |-> {}]
NothingPending(p) ==
  IF Advanced(p).stamp = 0 THEN <<>> ELSE Zero(Target(Stamps(CallOf(p))[Advanced(p).stamp]))

\* A process enters an updater, which zeroes what it is about to fill.
Begin(p) ==
  /\ Running(p) /\ at[p].stamp = 0
  /\ at' = [at EXCEPT ![p] = Advanced(p)]
  /\ pending' = [pending EXCEPT ![p] = NothingPending(p)]
  /\ terms' = Zeroed(CallOf(p))
  /\ UNCHANGED <<setup, program, tables, solution, moments, waiting, fe>>

\* A process fills and adds the next of its cells.
StampCell(p) ==
  /\ at[p].cells # {}
  /\ \E stamped \in {Stamped(p, StampOf(p), CallOf(p), Min(at[p].cells))} :
       /\ pending' = [pending EXCEPT ![p] = stamped.sum]
       /\ fe' = [fe EXCEPT ![p] = stamped.fe]
  /\ at' = [at EXCEPT ![p].cells = @ \ {Min(@)}]
  /\ UNCHANGED <<setup, program, tables, solution, moments, terms, waiting>>

\* Mutant: a process without outer faces has nothing to compress.
ArriveWithFaces(p) ==
  /\ Running(p) /\ at[p].stamp > 0 /\ at[p].cells = {} /\ p \notin waiting
  /\ IF OnFaces(StampOf(p)) /\ \A c \in OwnCells(p), face \in Faces : ~Outer(c, face)
     THEN /\ at' = [at EXCEPT ![p] = Advanced(p)]
          /\ pending' = [pending EXCEPT ![p] = NothingPending(p)]
          /\ UNCHANGED waiting
     ELSE waiting' = waiting \cup {p} /\ UNCHANGED <<at, pending>>
  /\ UNCHANGED <<setup, program, tables, solution, moments, terms, fe>>
\* A process has stamped its cells and compresses.
Arrive(p) ==
  /\ Running(p) /\ at[p].stamp > 0 /\ at[p].cells = {} /\ p \notin waiting
  /\ waiting' = waiting \cup {p}
  /\ UNCHANGED <<setup, program, tables, solution, moments, terms, at, pending, fe>>

\* All processes have compressed the same object: everything reaches its owner.
Compress ==
  /\ waiting = Processes
  /\ \A p, q \in Processes : at[p] = at[q]
  /\ LET one == CHOOSE p \in Processes : TRUE
         key == Key(Target(StampOf(one)), CallOf(one))
     IN  terms' = [terms EXCEPT ![key] =
                     [x \in DOMAIN @ |-> @[x] + SumFunction([p \in Processes |-> pending[p][x]])]]
  /\ at' = [p \in Processes |-> Advanced(p)]
  /\ pending' = [p \in Processes |-> NothingPending(p)]
  /\ waiting' = {}
  /\ UNCHANGED <<setup, program, tables, solution, moments, fe>>

\* The solves of all groups, which all processes make together.
SolveGroups ==
  /\ \A p \in Processes : ~Ended(p) /\ CallOf(p).op = "solve"
  /\ solution' \in Solutions
  /\ moments' = MomentsOf(solution')
  /\ at' = [p \in Processes |-> [at[p] EXCEPT !.call = @ + 1]]
  /\ UNCHANGED <<setup, program, tables, terms, waiting, pending, fe>>

ProcessStep(p) == Begin(p) \/ StampCell(p) \/ Arrive(p)
AllEnded == \A p \in Processes : Ended(p)
Done == AllEnded /\ UNCHANGED vars

AssemblyNext == (\E p \in Processes : ProcessStep(p)) \/ Compress \/ SolveGroups
AssemblySpec == AssemblyInit /\ [][AssemblyNext \/ Done]_vars
\* Every process is scheduled, and a collective call that all have made returns.
AssemblyFairSpec ==
  /\ AssemblySpec
  /\ \A p \in Processes : WF_vars(ProcessStep(p))
  /\ WF_vars(Compress \/ SolveGroups)

-----------------------------------------------------------------------------
(***************************************************************************)
(* The calculator of the fission source: every process sums over its cells *)
(* and the sums are added.                                                 *)
(***************************************************************************)
CellValue(f, cell) ==
  LET m == setup.material[cell]
      flux(g) == ValueAtQuadrature(SetCell(f, cell), moments[g])
  IN  IF setup.xs.is_material_fissile[m]
      THEN MapThenSumSet(LAMBDA g : setup.xs.nu_sigma_f[m][g] * Integral(LAMBDA q : flux(g)[q]),
                         GroupSet)
      ELSE 0
AggregatedFissionSource ==
  MapThenSumSet(LAMBDA p : MapThenSumSet(LAMBDA c : CellValue(fe[p], c), OwnCells(p)), Processes)

-----------------------------------------------------------------------------
(***************************************************************************)
(* Properties.  When the second round has ended, all terms are those of    *)
(* the solution.  A cell integral of a flux f counts 16 (f[c] + f[c+1]) in *)
(* the units of the terms, and a value at a face 32.                       *)
(***************************************************************************)
Assembled == AllEnded /\ solution # <<>>
TotalOf(vector) == MapThenSumSet(LAMBDA x : vector[x], DOMAIN vector)
\* all rows of a matrix times a flux
TotalApplied(matrix, flux) == MapThenSumSet(LAMBDA x : matrix[x] * flux[x[2]], DOMAIN matrix)
OverCells(value(_), flux) ==
  16 * MapThenSumSet(LAMBDA c : value(setup.material[c]) * (flux[c] + flux[c + 1]), Cells)
OuterPlaces == {place \in Cells \X Faces : Outer(place[1], place[2])}
VacuumPlaces == {place \in OuterPlaces : place[2] \notin setup.reflective}
AbsorptionOf(xs, m, g) ==
  xs.sigma_t[m][g] - MapThenSumSet(LAMBDA h : xs.sigma_s[m][h][g], DOMAIN xs.sigma_s[m])

\* Sums over groups and angles: an angular equation counts with the weight of
\* its angle, and its sources are those of the full sphere.
Weight(a) == IF setup.kind = "saaf" THEN PointAt(AngleSet, a).weight ELSE 1
Sphere == IF setup.kind = "saaf" THEN MapThenSumSet(Weight, AngleIndices) ELSE 1
Unit == IF setup.kind = "saaf" THEN SigmaUnit ELSE 1
SumOver(value(_,_)) ==
  MapThenSumSet(LAMBDA g : MapThenSumSet(LAMBDA a : Weight(a) * value(g, a), AngleIndices),
                GroupSet)
Has(target, g, a) == <<target, g, a>> \in DOMAIN terms
TotalTerm(target, g, a) == IF Has(target, g, a) THEN TotalOf(terms[<<target, g, a>>]) ELSE 0
Removed ==
  Sphere * SumOver(LAMBDA g, a : TotalApplied(terms[<<"matrix", g, a>>], solution[g][a]))
Returned ==
  SumOver(LAMBDA g, a : TotalTerm("scattering", g, a) + Sphere * TotalTerm("reflective", g, a))
\* What leaves through a vacuum face: the outward current, or half the flux.
Leaving(g, place) ==
  LET d == place[1] + place[2]
  IN  IF setup.kind = "saaf"
      THEN 32 * DirectionalCurrent(AngleSet, [a \in AngleIndices |-> solution[g][a][d]],
                                   <<FaceNormal(place[2])>>)
      ELSE 16 * moments[g][d]
Leakage == MapThenSumSet(LAMBDA g : MapThenSumSet(LAMBDA place : Leaving(g, place), VacuumPlaces),
                         GroupSet)

(***************************************************************************)
(* Particles are neither lost nor made by the assembly, on any number of   *)
(* processes: what the matrices remove and the scattering and reflective   *)
(* terms do not give back is absorbed or leaves through the vacuum faces;  *)
(* every angle of a fixed source gets its share of the source.             *)
(***************************************************************************)
ParticlesBalance ==
  Assembled /\ setup.kind \in {"diffusion", "saaf"} =>
    /\ Removed - Returned =
         Sphere * Unit * (Leakage + MapThenSumSet(LAMBDA g :
           OverCells(LAMBDA m : AbsorptionOf(setup.xs, m, g), moments[g]), GroupSet))
    /\ setup.kind = "saaf" =>
         SumOver(LAMBDA g, a : TotalTerm("fixed", g, a)) =
           8 * Sphere * Unit * MapThenSumSet(LAMBDA g : MapThenSumSet(LAMBDA c :
             IF setup.eigen THEN 0 ELSE setup.xs.q[setup.material[c]][g], Cells), GroupSet)

(***************************************************************************)
(* The one-group equation of two-grid acceleration stands for all groups:  *)
(* it absorbs what the groups with the shape of the material absorb, its   *)
(* source is what the change of the fluxes scatters to slower groups, and  *)
(* the corrections of all groups add up to the error it yields, in each    *)
(* process at the degrees of freedom of its cells.  (At all others a       *)
(* correction is NaN, in the moments that the checkers and the quotient    *)
(* for k read whole: true of the code, whenever a process has not all.)    *)
(***************************************************************************)
OneGroupBalance ==
  Assembled /\ setup.kind = "two_grid" =>
    LET shapes == MaterialSpectralShapes(setup.all_groups)
        groups == DOMAIN setup.now
        change(h) == [d \in AllDofs |-> setup.now[h][d] - setup.before[h][d]]
        absorbed(m) == MapThenSumSet(LAMBDA g : shapes[m][g] * AbsorptionOf(setup.all_groups, m, g),
                                     groups)
        \* sigma_s from h into all groups before it
        upward(m, h) == MapThenSumSet(LAMBDA g : setup.all_groups.sigma_s[m][g][h],
                                      {g \in groups : g < h})
    IN  /\ Removed = Leakage + OverCells(absorbed, moments[1])
        /\ TotalTerm("fixed", 1, 0) =
             HitUnit * MapThenSumSet(LAMBDA h : OverCells(LAMBDA m : upward(m, h), change(h)), groups)
        /\ \A p \in Processes :
             LET local == DomainSpectralShapes(shapes, OwnCells(p), AllDofs, setup.material)
                 error == moments[1]
                 none == [d \in AllDofs |-> 0]
                 corrections(d) == [g \in groups |-> CorrectFlux(local, none, error, g)[d]]
             IN  /\ \A d \in Dofs(OwnCells(p)) :
                      SumFunction(corrections(d)) = HitUnit * ShapeUnit * error[d]
                 /\ \A d \in AllDofs \ Dofs(OwnCells(p)) : \A g \in groups : corrections(d)[g] = NaN

(***************************************************************************)
(* The fission sources of all groups and angles add up to the production   *)
(* the calculator of k_effective integrates, divided by k_effective: both  *)
(* read the same data through the same finite element.                     *)
(***************************************************************************)
FissionSourcesAgree ==
  Assembled /\ setup.eigen /\ setup.kind # "two_grid" =>
    setup.k * SumOver(LAMBDA g, a : TotalTerm("fission", g, a)) =
      4 * KUnit * Sphere * Unit * ChiUnit * AggregatedFissionSource

(***************************************************************************)
(* The matrices of diffusion and of the self-adjoint angular flux are      *)
(* symmetric, at the boundary and between processes too.                   *)
(***************************************************************************)
MatricesAreSelfAdjoint ==
  AllEnded /\ setup.kind # "drift" =>
    \A g \in GroupSet, a \in AngleIndices : \A x \in AllDofs \X AllDofs :
      terms[<<"matrix", g, a>>][x] = terms[<<"matrix", g, a>>][<<x[2], x[1]>>]

(***************************************************************************)
(* Every process makes all its calls: none waits for ever in a collective  *)
(* call that another one does not make.                                    *)
(***************************************************************************)
AllProcessesFinish == <>AllEnded

(***************************************************************************)
(* The fixed source of diffusion is the source of the material.            *)
(***************************************************************************)
FixedSourceIsOfMaterial ==
  AllEnded /\ setup.kind = "diffusion" /\ ~setup.eigen =>
    \A g \in GroupSet :
      TotalTerm("fixed", g, 0) = 8 * MapThenSumSet(LAMBDA c : setup.xs.q[setup.material[c]][g], Cells)
=============================================================================
