--------------------------- MODULE GroupIteration ---------------------------
(***************************************************************************)
(* iteration::group::GroupSolveIteration::Iterate as GroupSourceIteration  *)
(* completes it: one call sweeps over all energy groups, iterating on each *)
(* until its scalar flux stops changing, and repeats the sweep until no    *)
(* group changes.                                                          *)
(*                                                                         *)
(* The program is sequential, so pc says where the (single) call stands.   *)
(* Vectors over the mesh are members of small sets.  What a right hand     *)
(* side term was computed FROM is kept in its place, so that whether a     *)
(* term is still current when it is used is a relation between two values. *)
(* Discretisation, cross sections and the linear solve are the constant    *)
(* operator Transport: the angular flux that solves the equations of one   *)
(* group and angle, given everything that enters them.                     *)
(***************************************************************************)
EXTENDS Convergence

CONSTANTS
  Groups,           \* system.total_groups
  Angles,           \* system.total_angles
  Flux,             \* scalar flux vectors
  Zero,             \* the scalar flux vector of zeros
  Psi,              \* angular flux vectors of one direction
  Moment(_),        \* the (0,0) moment of [Angle -> Psi]
  Materials,        \* problems: meshes and cross sections
  FixedTerms,       \* fixed left and right hand side terms
  FissionTerms,     \* what fission source terms are computed from
  Transport(_,_,_,_),  \* (material, group, angle, full term) -> Psi
  Boundaries,       \* the reflective boundaries of the domain
  Reflection,       \* boundary -> angle -> the angle reflected in it
  StoresAngular,    \* is_storing_angular_solution_
  HasSubroutine,    \* post_iteration_subroutine_ptr_ != nullptr
  InnerMax,         \* maximum of the group's convergence checker
  PassMax           \* maximum of the moment map convergence checker

Group   == 0 .. Groups - 1
Angle   == 0 .. Angles - 1
Moments == [Group -> Flux]

\* A stored angular flux is an empty vector until a sweep has been stored.
Unset        == {}
StoredVector == {Unset} \cup {{psi} : psi \in Psi}
Incoming     == [Boundaries -> StoredVector]

\* What GetFullTermPtr adds up for one group and angle.
Term ==
  [ fixed : FixedTerms, fission : FissionTerms,
    scattering : Moments, boundary : Incoming ]

ASSUME SizeAssumption ==
  /\ Groups \in Nat \ {0}
  /\ Angles \in Nat \ {0}
  /\ InnerMax \in Nat \ {0} /\ InnerMax < CounterBound
  /\ PassMax \in Nat \ {0} /\ PassMax < CounterBound
  /\ StoresAngular \in BOOLEAN
  /\ HasSubroutine \in BOOLEAN

ASSUME DataAssumption ==
  /\ Zero \in Flux
  /\ \A solution \in [Angle -> Psi] : Moment(solution) \in Flux
  /\ \A m \in Materials, g \in Group, a \in Angle, term \in Term :
       Transport(m, g, a, term) \in Psi
  /\ Reflection \in [Boundaries -> [Angle -> Angle]]
  /\ Boundaries # {} => StoresAngular    \* FrameworkHelper builds both or none

VARIABLES
  material,         \* the problem being solved
  current,          \* system.current_moments
  previous,         \* system.previous_moments
  fixed,            \* fixed terms, by group and angle
  fission,          \* kFissionSource terms, by group and angle
  scattering,       \* kScatteringSource terms, by group and angle
  boundary,         \* kReflectiveBoundaryCondition terms, by group and angle
  stored,           \* angular_solution_ptr_map_, by group and angle
  solution,         \* group_solution_ptr_: one vector per angle for all groups
  pc,               \* where the call of Iterate stands
  group,            \* the loop variables and locals of Iterate:
  passStart,        \*   previous_moments_map
  currentScalar,    \*   current_scalar_flux
  previousScalar,   \*   previous_scalar_flux
  innerStatus,      \* the group's convergence checker
  mapStatus,        \* the moment map convergence checker
  innerConverged,   \* history: did the group's last loop end by its values?
  swept             \* history: the moments as the last sweep left them

systemVars == <<material, current, previous, fixed, fission, scattering,
                boundary, stored>>
localVars  == <<group, passStart, currentScalar, previousScalar, innerStatus,
                mapStatus>>
history    == <<innerConverged, swept>>
groupVars  == <<systemVars, solution, pc, localVars, history>>

-----------------------------------------------------------------------------
\* MultiMomentCheckerMax::IsConverged: the scalar flux of every group.
MomentsConverged(now, before) ==
  \A g \in Group : IsConverged(now[g], before[g], Zero)

\* MultiMomentCheckerMax::failed_index: some group that failed; none if every
\* failing group failed with a NaN, which is what a zero flux gives.
FailedGroups(now, before) ==
  { {g} : g \in {h \in Group : now[h] # before[h]} }

MapVerdicts(now, before) ==
  IF FailedGroups(now, before) = {} THEN {{}} ELSE FailedGroups(now, before)

\* The incoming flux the reflective boundary term of g and a is filled from.
IncomingFlux(angular, g, a) ==
  [b \in Boundaries |-> angular[g][Reflection[b][a]]]

\* Term::GetFullTermPtr: the fixed term and all variable terms.
FullTerm(g, a) ==
  [ fixed |-> fixed[g][a], fission |-> fission[g][a],
    scattering |-> scattering[g][a], boundary |-> boundary[g][a] ]

\* SingleGroupSolver::SolveGroup: one linear system for every angle.
GroupSolution(g) == [a \in Angle |-> Transport(material, g, a, FullTerm(g, a))]

-----------------------------------------------------------------------------
(***************************************************************************)
(* The actions: the steps of one call of Iterate, in the order of the code.*)
(***************************************************************************)

\* Bug: the map checker goes on counting from the last call.
StartIterateNoReset ==
  /\ pc = "idle"
  /\ previous' = current
  /\ currentScalar' = Zero
  /\ previousScalar' = Zero
  /\ pc' = "pass"
  /\ UNCHANGED <<material, current, fixed, fission, scattering, boundary, stored,
                 solution, group, passStart, innerStatus, mapStatus, history>>

\* Bug: what is kept is what the last sweep left, not what the subroutine of
\* the outer iteration made of it.
StartIterateKeepsSwept ==
  /\ pc = "idle"
  /\ previous' = swept
  /\ mapStatus' = Reset(mapStatus)
  /\ currentScalar' = Zero
  /\ previousScalar' = Zero
  /\ pc' = "pass"
  /\ UNCHANGED <<material, current, fixed, fission, scattering, boundary,
                 stored, solution, group, passStart, innerStatus, history>>

\* The moments of the last outer iteration are kept, the map checker restarts.
StartIterate ==
  /\ pc = "idle"
  /\ previous' = current
  /\ mapStatus' = Reset(mapStatus)
  /\ currentScalar' = Zero
  /\ previousScalar' = Zero
  /\ pc' = "pass"
  /\ UNCHANGED <<material, current, fixed, fission, scattering, boundary,
                 stored, solution, group, passStart, innerStatus, history>>

\* Bug: previous_moments_map is taken once per call, before the loop.
StartPassMapTakenOnce ==
  /\ pc = "pass"
  /\ passStart' = IF mapStatus.iteration_number = 0 THEN current ELSE passStart
  /\ group' = 0
  /\ pc' = "group"
  /\ UNCHANGED <<systemVars, solution, currentScalar, previousScalar,
                 innerStatus, mapStatus, history>>

\* do { previous_moments_map = current moments; for (group = 0; ...
StartPass ==
  /\ pc = "pass"
  /\ passStart' = current
  /\ group' = 0
  /\ pc' = "group"
  /\ UNCHANGED <<systemVars, solution, currentScalar, previousScalar,
                 innerStatus, mapStatus, history>>

\* Bug: the group's checker goes on counting from the last group.
StartGroupNoReset ==
  /\ pc = "group"
  /\ boundary' =
       [boundary EXCEPT ![group] = [a \in Angle |-> IncomingFlux(stored, group, a)]]
  /\ pc' = "update"
  /\ UNCHANGED <<material, current, previous, fixed, fission, scattering,
                 stored, solution, localVars, history>>

\* Bug: the reflected fluxes are only updated in the first pass of a call.
StartGroupBoundaryOnce ==
  /\ pc = "group"
  /\ boundary' =
       IF mapStatus.iteration_number = 0
       THEN [boundary EXCEPT ![group] = [a \in Angle |-> IncomingFlux(stored, group, a)]]
       ELSE boundary
  /\ innerStatus' = Reset(innerStatus)
  /\ pc' = "update"
  /\ UNCHANGED <<material, current, previous, fixed, fission, scattering,
                 stored, solution, group, passStart, currentScalar,
                 previousScalar, mapStatus, history>>

\* PerformPerGroup: reflected fluxes enter the group's boundary terms from the
\* solutions stored by the last pass; then the group's checker restarts.
StartGroup ==
  /\ pc = "group"
  /\ boundary' =
       [boundary EXCEPT ![group] = [a \in Angle |-> IncomingFlux(stored, group, a)]]
  /\ innerStatus' = Reset(innerStatus)
  /\ pc' = "update"
  /\ UNCHANGED <<material, current, previous, fixed, fission, scattering,
                 stored, solution, group, passStart, currentScalar,
                 previousScalar, mapStatus, history>>

\* Bug: only the first angle's scattering source is updated.
UpdateScatteringOneAngle ==
  /\ pc = "update"
  /\ scattering' = [scattering EXCEPT ![group][0] = current]
  /\ pc' = "solve"
  /\ UNCHANGED <<material, current, previous, fixed, fission, boundary, stored,
                 solution, localVars, history>>

\* UpdateSystem for every angle: the group's scattering source.
UpdateScatteringSource ==
  /\ pc = "update"
  /\ scattering' = [scattering EXCEPT ![group] = [a \in Angle |-> current]]
  /\ pc' = "solve"
  /\ UNCHANGED <<material, current, previous, fixed, fission, boundary, stored,
                 solution, localVars, history>>

\* SolveGroup for every angle, then GetScalarFlux.
SolveGroup ==
  /\ pc = "solve"
  /\ solution' = GroupSolution(group)
  /\ currentScalar' = Moment(solution')
  /\ previousScalar' =
       IF innerStatus.iteration_number = 0 THEN Zero ELSE currentScalar
  /\ pc' = "check"
  /\ UNCHANGED <<systemVars, group, passStart, innerStatus, mapStatus, history>>

\* GMRES stops without converging: the exception leaves the program.
SolveThrows ==
  /\ pc = "solve"
  /\ pc' = "threw"
  /\ UNCHANGED <<systemVars, solution, localVars, history>>

\* CheckConvergence and UpdateCurrentMoments; another solve, or the group ends.
CheckGroup ==
  LET converged == IsConverged(currentScalar, previousScalar, Zero)
  IN
  /\ pc = "check"
  /\ innerStatus' = ConvergenceStatus(innerStatus, converged, {})
  /\ current' = [current EXCEPT ![group] = Moment(solution)]
  /\ innerConverged' = [innerConverged EXCEPT ![group] = converged]
  /\ pc' = IF innerStatus'.is_complete THEN "store" ELSE "update"
  /\ UNCHANGED <<material, previous, fixed, fission, scattering, boundary,
                 stored, solution, group, passStart, currentScalar,
                 previousScalar, mapStatus, swept>>

\* Bug: the angular solutions are stored for all groups after the last one,
\* when the group solution holds only the last group's vectors.
FinishGroupStoreLast ==
  /\ pc = "store"
  /\ stored' = IF StoresAngular /\ group + 1 \notin Group
               THEN [g \in Group |-> [a \in Angle |-> {solution[a]}]]
               ELSE stored
  /\ swept' = current
  /\ \/ group + 1 \in Group /\ group' = group + 1 /\ pc' = "group"
     \/ group + 1 \notin Group /\ pc' = "subroutine" /\ UNCHANGED group
  /\ UNCHANGED <<material, current, previous, fixed, fission, scattering,
                 boundary, solution, passStart, currentScalar, previousScalar,
                 innerStatus, mapStatus, innerConverged>>

\* StoreAngularSolution if it is wanted; the next group, or the sweep is over.
FinishGroup ==
  /\ pc = "store"
  /\ stored' = IF StoresAngular
               THEN [stored EXCEPT ![group] = [a \in Angle |-> {solution[a]}]]
               ELSE stored
  /\ swept' = current
  /\ \/ group + 1 \in Group /\ group' = group + 1 /\ pc' = "group"
     \/ group + 1 \notin Group /\ pc' = "subroutine" /\ UNCHANGED group
  /\ UNCHANGED <<material, current, previous, fixed, fission, scattering,
                 boundary, solution, passStart, currentScalar, previousScalar,
                 innerStatus, mapStatus, innerConverged>>

\* post_iteration_subroutine_ptr_->Execute: may correct every scalar flux.
RunSubroutine ==
  /\ pc = "subroutine"
  /\ current' \in IF HasSubroutine THEN Moments ELSE {current}
  /\ pc' = "map"
  /\ UNCHANGED <<material, previous, fixed, fission, scattering, boundary,
                 stored, solution, localVars, history>>

\* The all-group check of this pass's moments against those it started from.
CheckMap ==
  /\ pc = "map"
  /\ \E failed \in MapVerdicts(current, passStart) :
       mapStatus' = ConvergenceStatus(mapStatus,
                                      MomentsConverged(current, passStart), failed)
  /\ pc' = IF mapStatus'.is_complete THEN "returned" ELSE "pass"
  /\ UNCHANGED <<systemVars, solution, group, passStart, currentScalar,
                 previousScalar, innerStatus, history>>

GroupNext ==
  \/ StartIterate
  \/ StartPass
  \/ StartGroup
  \/ UpdateScatteringSource
  \/ SolveGroup
  \/ SolveThrows
  \/ CheckGroup
  \/ FinishGroup
  \/ RunSubroutine
  \/ CheckMap

-----------------------------------------------------------------------------
\* A call has been made on a system whose terms and checkers are set up.
GroupInit ==
  /\ material \in Materials
  /\ current \in Moments
  /\ previous = current
  /\ fixed \in {[g \in Group |-> [a \in Angle |-> t]] : t \in FixedTerms}
  /\ fission \in {[g \in Group |-> [a \in Angle |-> t]] : t \in FissionTerms}
  /\ scattering = [g \in Group |-> [a \in Angle |-> [h \in Group |-> Zero]]]
  /\ boundary = [g \in Group |-> [a \in Angle |-> [b \in Boundaries |-> Unset]]]
  /\ stored = [g \in Group |-> [a \in Angle |-> Unset]]
  /\ solution \in {[a \in Angle |-> psi] : psi \in Psi}
  /\ pc = "idle"
  /\ group = 0
  /\ passStart = current
  /\ currentScalar = Zero
  /\ previousScalar = Zero
  /\ innerStatus = DefaultStatus(InnerMax)
  /\ mapStatus = DefaultStatus(PassMax)
  /\ innerConverged = [g \in Group |-> FALSE]
  /\ swept = current

\* The outer iteration calls again, with new fission sources.
CallAgain ==
  /\ pc = "returned"
  /\ fission' \in {[g \in Group |-> [a \in Angle |-> t]] : t \in FissionTerms}
  /\ pc' = "idle"
  /\ UNCHANGED <<material, current, previous, fixed, scattering, boundary,
                 stored, solution, localVars, history>>

\* After the exception nothing more happens.
Aborted ==
  /\ pc = "threw"
  /\ UNCHANGED groupVars

Next == GroupNext \/ CallAgain \/ Aborted

Spec == GroupInit /\ [][Next]_groupVars

FairSpec == Spec /\ WF_groupVars(GroupNext)

-----------------------------------------------------------------------------
(***************************************************************************)
(* Properties.                                                             *)
(***************************************************************************)
PcValues == {"idle", "pass", "group", "update", "solve", "check", "store",
             "subroutine", "map", "returned", "threw"}

\* Every variable has its type, and no checker counts past its maximum.
TypeOK ==
  /\ material \in Materials
  /\ current \in Moments
  /\ previous \in Moments
  /\ fixed \in [Group -> [Angle -> FixedTerms]]
  /\ fission \in [Group -> [Angle -> FissionTerms]]
  /\ scattering \in [Group -> [Angle -> Moments]]
  /\ boundary \in [Group -> [Angle -> Incoming]]
  /\ stored \in [Group -> [Angle -> StoredVector]]
  /\ solution \in [Angle -> Psi]
  /\ pc \in PcValues
  /\ group \in Group
  /\ passStart \in Moments
  /\ currentScalar \in Flux
  /\ previousScalar \in Flux
  /\ innerStatus \in StatusType(Group)
  /\ innerStatus.max_iterations = InnerMax
  /\ innerStatus.iteration_number <= InnerMax
  /\ mapStatus \in StatusType(Group)
  /\ mapStatus.max_iterations = PassMax
  /\ mapStatus.iteration_number <= PassMax
  /\ innerConverged \in [Group -> BOOLEAN]
  /\ swept \in Moments

\* The term of g and a in the equations whose sources are the moments f.
TermFrom(f, g, a) ==
  [ fixed |-> fixed[g][a], fission |-> fission[g][a],
    scattering |-> f, boundary |-> boundary[g][a] ]

\* The scalar flux of g that solves the equations with sources from f.
Sweep(f, g) == Moment([a \in Angle |-> Transport(material, g, a, TermFrom(f, g, a))])

\* Iterate has returned because every loop converged by its values, and no
\* subroutine moved the fluxes after the last sweep.
ConvergedReturn ==
  /\ pc = "returned"
  /\ MomentsConverged(current, passStart)
  /\ \A g \in Group : innerConverged[g]
  /\ swept = current

(***************************************************************************)
(* A converged return is a solution: every group's scalar flux is what the *)
(* equations of that group give when all groups' sources, its own and the  *)
(* ones solved after it, come from the fluxes that are returned.           *)
(***************************************************************************)
ConvergedIsFixedPoint ==
  ConvergedReturn => \A g \in Group : current[g] = Sweep(current, g)

(***************************************************************************)
(* What the ports show afterwards belongs to what is returned: the         *)
(* scattering sources left on the right hand side of a converged return    *)
(* are those of the returned fluxes, for all groups and angles.            *)
(***************************************************************************)
SourcesMatchReturnedFlux ==
  ConvergedReturn => \A g \in Group, a \in Angle : scattering[g][a] = current

(***************************************************************************)
(* A reflected flux is exactly one sweep old.  When a pass overwrites the  *)
(* stored angular fluxes of a group, the boundary terms it solved with     *)
(* were filled from the very values it overwrites.                         *)
(***************************************************************************)
BoundaryLagsOnePass ==
  [][ \A g \in Group :
        stored'[g] # stored[g] =>
          \A a \in Angle : boundary[g][a] = IncomingFlux(stored, g, a)
    ]_groupVars

(***************************************************************************)
(* The stored angular fluxes are those of the moments: after a sweep with  *)
(* storage, taking the moment of what was stored for a group gives its     *)
(* scalar flux.  Drift-diffusion reads both and needs them to agree.       *)
(***************************************************************************)
StoredMatchesMoments ==
  StoresAngular /\ pc = "subroutine" =>
    \A g \in Group :
      \E psi \in [Angle -> Psi] :
        /\ \A a \in Angle : stored[g][a] = {psi[a]}
        /\ Moment(psi) = current[g]

(***************************************************************************)
(* Every call of Iterate ends: the iteration maxima bound both loops even  *)
(* when the fluxes oscillate or vanish and never satisfy a checker.        *)
(***************************************************************************)
IterateEnds == pc = "idle" ~> pc \in {"returned", "threw"}
=============================================================================
