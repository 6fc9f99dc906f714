--------------------------- MODULE OuterIteration ---------------------------
(***************************************************************************)
(* framework::Framework::SolveSystem: an initializer and an outer          *)
(* iteration around the group iteration of module GroupIteration, all on   *)
(* one system::System.  The outer iteration is a power iteration (k and    *)
(* fission sources) or a fixed source iteration (one call, nothing to      *)
(* check), as FrameworkHelper::BuildFramework chooses.                     *)
(*                                                                         *)
(* A framework may be solved many times: the subroutines of two-grid and   *)
(* NDA acceleration call SolveSystem of the same nested framework once per *)
(* pass, after changing the data its fixed terms are computed from.        *)
(***************************************************************************)
EXTENDS GroupIteration

CONSTANTS
  Outers,           \* the outer iterations that are built, of OuterKinds
  K,                \* values of k_effective
  OneK,             \* 1.0
  ZeroK,            \* 0.0
  One,              \* the scalar flux vector of ones
  UnsetTerm,        \* a fixed term before the first Initialize: empty
  Quotient(_,_,_),  \* k (cur . prev) / (prev . prev), of the group sums
  FissionSource(_,_), \* (material, moments): the production of all cells
  FissionK(_),      \* 2.0 times a fission source over 10, whatever k was
  OuterCorrections, \* the fluxes its post-iteration subroutine may leave, or {}
  ParamMax          \* maximum of the parameter convergence checker

\* Without eigenvalue solver type, or the updater of k_effective by name.
OuterKinds == {"fixed source", "rayleigh quotient", "fission source"}

\* A fission source term is computed from the moments and k_effective.
FissionFrom == [moments : Moments, k : K]

AllZero == [g \in Group |-> Zero]

ASSUME OuterAssumption ==
  /\ OneK \in K /\ ZeroK \in K /\ One \in Flux
  /\ \A last \in K, now \in Moments, before \in Moments \ {AllZero} :
       Quotient(last, now, before) \in K
  \* k (m . m) / (m . m)
  /\ \A last \in K, now \in Moments \ {AllZero} : Quotient(last, now, now) = last
  /\ FissionTerms = FissionFrom
  /\ UnsetTerm \in FixedTerms
  /\ \A m \in Materials, now \in Moments : FissionSource(m, now) \in Int
  /\ \A m \in Materials, now \in Moments :
       FissionSource(m, now) > 0 => FissionK(FissionSource(m, now)) \in K
  /\ Outers \subseteq OuterKinds /\ OuterCorrections \subseteq Moments
  \* Two-grid and NDA acceleration together: no framework is built.
  /\ HasSubroutine => OuterCorrections = {}
  /\ ParamMax \in Nat \ {0, 1} /\ ParamMax < CounterBound   \* 1000

VARIABLES
  outer,            \* the outer iteration of this framework
  stage,            \* where SolveSystem stands
  k,                \* system.k_effective
  fixedData,        \* what the fixed updater computes the fixed terms from
  outerStatus,      \* the parameter convergence checker
  isComplete,       \* the local is_complete of IterateToConvergence
  corrected,        \* history: the outer subroutine has changed the fluxes
                    \* since SolveSystem was called
  results           \* history: for each data, what the solves returned that
                    \* no subroutine corrected

outerVars == <<outer, stage, k, fixedData, outerStatus, isComplete, corrected, results>>
allVars   == <<groupVars, outerVars>>

ForAllTerms(t) == [g \in Group |-> [a \in Angle |-> t]]
isEigenvalue   == outer # "fixed source"
AllOnes        == [g \in Group |-> One]
ValueOr(optional, default) == IF optional = {} THEN default ELSE CHOOSE v \in optional : TRUE

-----------------------------------------------------------------------------
\* SystemHelper: a new system, with k only if it is an eigenvalue problem, and
\* the group solution's vectors at 1.0.
OuterInit ==
  /\ material \in Materials
  /\ current = AllOnes
  /\ previous = AllOnes
  /\ fixed = ForAllTerms(UnsetTerm)
  /\ fission = ForAllTerms([moments |-> AllZero, k |-> OneK])
  /\ scattering = ForAllTerms(AllZero)
  /\ boundary = ForAllTerms([b \in Boundaries |-> Unset])
  /\ stored = ForAllTerms(Unset)
  /\ solution \in {[a \in Angle |-> psi] : psi \in Psi}
  /\ pc = "idle"
  /\ group = 0
  /\ passStart = AllOnes
  /\ currentScalar = Zero
  /\ previousScalar = Zero
  /\ innerStatus = DefaultStatus(InnerMax)
  /\ mapStatus = DefaultStatus(PassMax)
  /\ innerConverged = [g \in Group |-> FALSE]
  /\ swept = AllOnes
  /\ outer \in Outers
  /\ stage = "built"
  /\ k = IF isEigenvalue THEN {OneK} ELSE {}
  /\ fixedData \in FixedTerms \ {UnsetTerm}
  /\ outerStatus = DefaultStatus(ParamMax)
  /\ isComplete = FALSE
  /\ corrected = FALSE
  /\ results = [d \in FixedTerms |-> {}]

\* Bug: InitializeFixedTerms is built instead: moments and k stay.
InitializeNoMomentsReset ==
  /\ stage \in {"built", "solved"}
  /\ fixed' = ForAllTerms(fixedData)
  /\ stage' = "start"
  /\ UNCHANGED <<material, current, previous, fission, scattering, boundary,
                 stored, solution, pc, localVars, history, outer, k, fixedData,
                 outerStatus, isComplete, results>>
  /\ corrected' = FALSE

\* Bug: InitializeFixedTermsOnce is built instead.
InitializeOnce ==
  /\ stage \in {"built", "solved"}
  /\ current' = AllOnes
  /\ previous' = AllOnes
  /\ k' = {OneK}
  /\ fixed' = IF stage = "built" THEN ForAllTerms(fixedData) ELSE fixed
  /\ stage' = "start"
  /\ UNCHANGED <<material, fission, scattering, boundary, stored, solution, pc,
                 localVars, history, outer, fixedData, outerStatus,
                 isComplete, results>>
  /\ corrected' = FALSE

\* InitializeFixedTermsResetMoments::Initialize, called by SolveSystem.
Initialize ==
  /\ stage \in {"built", "solved"}
  /\ current' = AllOnes
  /\ previous' = AllOnes
  /\ k' = {OneK}
  /\ fixed' = ForAllTerms(fixedData)
  /\ stage' = "start"
  /\ UNCHANGED <<material, fission, scattering, boundary, stored, solution, pc,
                 localVars, history, outer, fixedData, outerStatus,
                 isComplete, results>>
  /\ corrected' = FALSE

\* Bug: the parameter checker goes on counting from the last solve.
StartOuterNoReset ==
  /\ stage = "start"
  /\ isComplete' = FALSE
  /\ stage' = "sources"
  /\ UNCHANGED <<groupVars, outer, k, fixedData, outerStatus, corrected, results>>

\* IterateToConvergence is entered.
StartOuter ==
  /\ stage = "start"
  /\ outerStatus' = Reset(outerStatus)
  /\ isComplete' = FALSE
  /\ stage' = "sources"
  /\ UNCHANGED <<groupVars, outer, k, fixedData, corrected, results>>

\* Bug: the sources are those of the iteration before: previous moments.
UpdateFissionSourcesFromPrevious ==
  /\ stage = "sources"
  /\ fission' = IF isEigenvalue
                THEN ForAllTerms([moments |-> previous, k |-> ValueOr(k, ZeroK)])
                ELSE fission
  /\ stage' = "inner"
  /\ UNCHANGED <<material, current, previous, fixed, scattering, boundary, stored,
                 solution, pc, localVars, history, outer, k, fixedData,
                 outerStatus, isComplete, corrected, results>>

\* Bug: the sources are only computed for the first outer iteration.
UpdateFissionSourcesOnce ==
  /\ stage = "sources"
  /\ fission' = IF isEigenvalue /\ outerStatus.iteration_number = 0
                THEN ForAllTerms([moments |-> current, k |-> ValueOr(k, ZeroK)])
                ELSE fission
  /\ stage' = "inner"
  /\ UNCHANGED <<material, current, previous, fixed, scattering, boundary, stored,
                 solution, pc, localVars, history, outer, k, fixedData,
                 outerStatus, isComplete, corrected, results>>

\* UpdateSystem for every group and angle: fission sources, in a power iteration.
UpdateFissionSources ==
  /\ stage = "sources"
  /\ fission' = IF isEigenvalue
                THEN ForAllTerms([moments |-> current, k |-> ValueOr(k, ZeroK)])
                ELSE fission
  /\ stage' = "inner"
  /\ UNCHANGED <<material, current, previous, fixed, scattering, boundary, stored,
                 solution, pc, localVars, history, outer, k, fixedData,
                 outerStatus, isComplete, corrected, results>>

\* InnerIterationToConvergence: the steps of GroupIteration.
InnerIteration ==
  /\ stage = "inner"
  /\ GroupNext
  /\ UNCHANGED outerVars

\* CalculatorViaRayleighQuotient::CalculateK_Eigenvalue.
RayleighQuotient(last, now, before) ==
  IF before = AllZero THEN last ELSE Quotient(last, now, before)

\* CalculatorViaFissionSource::CalculateK_Eigenvalue of TotalAggregatedFissionSource:
\* it throws unless the source is positive.
FissionSourceFails == outer = "fission source" /\ FissionSource(material, current) <= 0

NextK == IF outer = "rayleigh quotient"
         THEN RayleighQuotient(ValueOr(k, OneK), current, previous)
         ELSE FissionK(FissionSource(material, current))

FissionSourceThrows ==
  /\ stage = "inner" /\ pc = "returned"
  /\ FissionSourceFails
  /\ pc' = "threw"
  /\ UNCHANGED <<systemVars, solution, localVars, history, outerVars>>

\* OuterPowerIteration::CheckConvergence.
CheckPower ==
  LET last == ValueOr(k, ZeroK)
      next == NextK
  IN
  /\ isEigenvalue /\ ~FissionSourceFails
  /\ stage = "inner" /\ pc = "returned"
  /\ k' = {next}
  /\ outerStatus' = ConvergenceStatus(outerStatus, IsConverged(next, last, ZeroK), {})
  /\ isComplete' = outerStatus'.is_complete
  /\ pc' = "idle"
  /\ stage' = "post"
  /\ UNCHANGED <<systemVars, solution, localVars, history, outer, fixedData, corrected,
                 results>>

\* OuterFixedSourceIteration::CheckConvergence: a status that is complete.
CheckFixedSource ==
  /\ ~isEigenvalue
  /\ stage = "inner" /\ pc = "returned"
  /\ isComplete' = TRUE
  /\ pc' = "idle"
  /\ stage' = "post"
  /\ UNCHANGED <<systemVars, solution, localVars, history, outer, k, fixedData,
                 outerStatus, corrected, results>>

\* The outer post-iteration subroutine, which may replace the scalar fluxes;
\* then another iteration, or SolveSystem returns.
FinishOuterIteration ==
  /\ stage = "post"
  /\ current' \in {current} \cup OuterCorrections
  /\ corrected' = (corrected \/ current' # current)
  /\ IF isComplete
     THEN /\ stage' = "solved"
          /\ results' = IF corrected' THEN results
                        ELSE [results EXCEPT ![fixedData] = @ \cup {<<current', k>>}]
     ELSE /\ stage' = "sources"
          /\ UNCHANGED results
  /\ UNCHANGED <<material, previous, fixed, fission, scattering, boundary, stored,
                 solution, pc, localVars, history, outer, k, fixedData,
                 outerStatus, isComplete>>

\* The framework's owner changes what the fixed terms are computed from.
ChangeFixedData ==
  /\ stage = "solved"
  /\ fixedData' \in FixedTerms \ {UnsetTerm, fixedData}
  /\ UNCHANGED <<groupVars, outer, stage, k, outerStatus, isComplete, corrected, results>>

OuterNext ==
  \/ Initialize
  \/ StartOuter
  \/ UpdateFissionSources
  \/ InnerIteration
  \/ CheckPower
  \/ FissionSourceThrows
  \/ CheckFixedSource
  \/ FinishOuterIteration

OuterAborted ==
  /\ pc = "threw"
  /\ UNCHANGED allVars

OuterSpec == OuterInit /\ [][OuterNext \/ ChangeFixedData \/ OuterAborted]_allVars

OuterFairSpec == OuterSpec /\ WF_allVars(OuterNext)

-----------------------------------------------------------------------------
(***************************************************************************)
(* The new k is the old one times a ratio of the new moments to those the  *)
(* fission sources were computed from.  So when CheckConvergence runs, the *)
(* previous moments and k must be exactly the ones that are inside every   *)
(* fission source term, through all sweeps and subroutines in between.     *)
(***************************************************************************)
FissionSourceIsOfPreviousMoments ==
  isEigenvalue /\ stage = "inner" /\ pc # "idle" =>
    \A g \in Group, a \in Angle : fission[g][a] = [moments |-> previous, k |-> ValueOr(k, ZeroK)]

(***************************************************************************)
(* A power iteration whose last sweeps converged and whose moments are     *)
(* those it started from, has an eigenpair, even when it stopped at its    *)
(* maximum: the moments solve the equations of all groups with fission     *)
(* sources from these same moments and the k that SolveSystem leaves.  The *)
(* k of a fission source is that of the fluxes before the subroutine of    *)
(* the outer iteration corrected them, so then it may be another k.        *)
(***************************************************************************)
ConvergedIsEigenpair ==
  /\ isEigenvalue /\ stage = "solved"
  /\ outer = "fission source" => ~corrected
  /\ \A g \in Group : innerConverged[g]
  /\ MomentsConverged(current, passStart) /\ swept = current
  /\ current = previous
  =>
    \A g \in Group :
      current[g] = Moment([a \in Angle |-> Transport(material, g, a,
        [ fixed |-> fixed[g][a], scattering |-> current, boundary |-> boundary[g][a],
          fission |-> [moments |-> current, k |-> ValueOr(k, ZeroK)] ])])

(***************************************************************************)
(* Solving a framework again is a fresh solve: no state of an earlier call *)
(* of SolveSystem (moments, k, terms, solution vectors, checkers) changes  *)
(* the result for the same data.                                           *)
(***************************************************************************)
SolveIsRepeatable ==
  \A d \in FixedTerms : \A r, s \in results[d] : r = s

(***************************************************************************)
(* A solve is a solve of its own data: when the last sweeps converged and  *)
(* no subroutine touched them, the moments SolveSystem returns solve the   *)
(* equations with the fixed terms of the data the owner set for this call, *)
(* whatever earlier calls computed their fixed terms from.                 *)
(***************************************************************************)
SolutionIsOfThisData ==
  /\ stage = "post" /\ isComplete
  /\ \A g \in Group : innerConverged[g]
  /\ MomentsConverged(current, passStart) /\ swept = current
  => \A g \in Group :
       current[g] = Moment([a \in Angle |-> Transport(material, g, a,
         [ fixed |-> fixedData, fission |-> fission[g][a],
           scattering |-> current, boundary |-> boundary[g][a] ])])

\* Every call of SolveSystem returns or aborts.
SolveEnds == stage = "start" ~> stage = "solved" \/ pc = "threw"
=============================================================================
