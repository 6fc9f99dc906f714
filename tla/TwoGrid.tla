------------------------------ MODULE TwoGrid ------------------------------
(***************************************************************************)
(* iteration::subroutine::TwoGridAcceleration as the post-iteration        *)
(* subroutine of the group iteration of a power iteration: after every     *)
(* sweep the isotropic residual becomes the fixed source of a nested       *)
(* one-group framework, and what that solves corrects every scalar flux.   *)
(*                                                                         *)
(* The residual is the change of the fluxes since the subroutine ran last, *)
(* from moments the subroutine keeps itself (previous_iteration_moments_), *)
(* while the sweep started from the moments the system holds.  The solve   *)
(* of the nested framework is a function of its source: module             *)
(* OuterIteration shows that for fixed source frameworks.                  *)
(*                                                                         *)
(* Vectors have numbers everywhere if cells of this process touch every    *)
(* degree of freedom: with one process, and on a line.  Elsewhere the      *)
(* correction itself makes NaNs (TwoGridData!CorrectFlux), a flux that     *)
(* does not change is changed by it, and what the norms and quotients of   *)
(* the loops around make of that is not followed.                          *)
(***************************************************************************)
EXTENDS OuterIteration

CONSTANTS
  Residuals,          \* isotropic residual vectors
  NoResidual,         \* the residual of zeros
  Residual(_,_,_),    \* (material, fluxes now, fluxes before) -> Residuals
  NestedSolve(_,_),   \* (material, residual) -> the error the framework solves
  NoError,            \* the error of zeros
  CorrectFlux(_,_,_), \* (flux, error, group) -> Flux: flux + shape * error
  EveryDofIsLocal     \* cells of this process touch every degree of freedom

ASSUME TwoGridAssumption ==
  /\ HasSubroutine
  /\ NoResidual \in Residuals
  /\ \A m \in Materials, now, before \in Moments : Residual(m, now, before) \in Residuals
  /\ \A m \in Materials, r \in Residuals, f \in Flux, g \in Group :
       CorrectFlux(f, NestedSolve(m, r), g) \in Flux
  \* Vectors: x - x = 0, the nested equations are linear, and f + 0 * s = f
  \* where the shape s is a number (AssemblyProofs!NothingIsAdded).
  /\ \A m \in Materials, now \in Moments : Residual(m, now, now) = NoResidual
  /\ \A m \in Materials : NestedSolve(m, NoResidual) = NoError
  /\ EveryDofIsLocal \in BOOLEAN
  /\ EveryDofIsLocal => \A f \in Flux, g \in Group : CorrectFlux(f, NoError, g) = f

VARIABLES
  hasRun,             \* has_run_
  lastMoments,        \* previous_iteration_moments_
  residual            \* isotropic_residual_ptr_, the nested framework's source

twoGridVars == <<hasRun, lastMoments, residual>>
acceleratedVars == <<allVars, twoGridVars>>

\* The moments Execute compares with: zeros when it runs for the first time.
ComparedMoments == IF hasRun THEN lastMoments ELSE AllZero

Corrected(error) == [g \in Group |-> CorrectFlux(current[g], error, g)]

-----------------------------------------------------------------------------
TwoGridInit ==
  /\ OuterInit
  /\ hasRun = FALSE
  /\ lastMoments = AllZero
  /\ residual = NoResidual

\* Bug: the moments are kept before they are corrected.
ExecuteKeepsUncorrected ==
  /\ stage = "inner" /\ pc = "subroutine"
  /\ residual' = Residual(material, current, ComparedMoments)
  /\ lastMoments' = current
  /\ current' = Corrected(NestedSolve(material, residual'))
  /\ hasRun' = TRUE
  /\ pc' = "map"
  /\ UNCHANGED <<material, previous, fixed, fission, scattering, boundary, stored,
                 solution, localVars, history, outerVars>>

\* Bug: the system's own previous moments are used to keep them.
ExecuteKeepsInSystem ==
  /\ stage = "inner" /\ pc = "subroutine"
  /\ residual' = Residual(material, current, previous)
  /\ current' = Corrected(NestedSolve(material, residual'))
  /\ previous' = current'
  /\ hasRun' = TRUE
  /\ pc' = "map"
  /\ UNCHANGED <<material, fixed, fission, scattering, boundary, stored, solution,
                 localVars, history, outerVars, lastMoments>>

\* TwoGridAcceleration::Execute: residual, nested solve, correction of every
\* group; the corrected moments are kept for the next call.
Execute ==
  /\ stage = "inner" /\ pc = "subroutine"
  /\ residual' = Residual(material, current, ComparedMoments)
  /\ current' = Corrected(NestedSolve(material, residual'))
  /\ lastMoments' = current'
  /\ hasRun' = TRUE
  /\ pc' = "map"
  /\ UNCHANGED <<material, previous, fixed, fission, scattering, boundary, stored,
                 solution, localVars, history, outerVars>>

\* The step of the framework around it.  Main solves its framework once.
FrameworkStep ==
  /\ stage # "solved"
  /\ ~(stage = "inner" /\ pc = "subroutine")
  /\ OuterNext
  /\ UNCHANGED twoGridVars

TwoGridNext == FrameworkStep \/ Execute

\* SolveSystem has returned, or the exception left it.
TwoGridStopped ==
  /\ stage = "solved" \/ pc = "threw"
  /\ UNCHANGED acceleratedVars

TwoGridSpec == TwoGridInit /\ [][TwoGridNext \/ TwoGridStopped]_acceleratedVars

TwoGridFairSpec == TwoGridSpec /\ WF_acceleratedVars(TwoGridNext)

-----------------------------------------------------------------------------
(***************************************************************************)
(* From its second call on, the subroutine compares the swept fluxes with  *)
(* exactly those the sweep started from, in the first pass of a new outer  *)
(* iteration too: nothing moves the system's moments between two calls     *)
(* but sweeps and the correction itself.                                   *)
(***************************************************************************)
ResidualIsOfThisPass ==
  stage = "inner" /\ pc = "subroutine" /\ hasRun => ComparedMoments = passStart

(***************************************************************************)
(* Acceleration keeps what it accelerates towards, in a process whose      *)
(* cells touch every degree of freedom: a sweep that reproduces the fluxes *)
(* it started from is not corrected.                                       *)
(***************************************************************************)
FixedPointIsKept ==
  [][ EveryDofIsLocal /\ stage = "inner" /\ pc = "subroutine" /\ hasRun /\ current = passStart
      => current' = current ]_acceleratedVars

(***************************************************************************)
(* The accelerated solve is a solve of module OuterIteration, whose group  *)
(* iteration lets its subroutine replace the fluxes and nothing else.      *)
(***************************************************************************)
ImplementsOuterIteration == OuterSpec
=============================================================================
