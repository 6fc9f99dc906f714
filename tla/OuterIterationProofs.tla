------------------------ MODULE OuterIterationProofs ------------------------
(***************************************************************************)
(* What module OuterIteration promises, for every number of groups, angles *)
(* and iterations, every k updater and every number of calls of            *)
(* SolveSystem.  The inner solves are those of GroupIterationProofs: their *)
(* invariants hold inside the outer iteration too.  TwoGrid implements     *)
(* OuterIteration, so all of it holds for an accelerated solve.            *)
(***************************************************************************)
EXTENDS TwoGrid, GroupIterationProofs

OuterStep == OuterNext \/ ChangeFixedData \/ OuterAborted

Stages == {"built", "start", "sources", "inner", "post", "solved"}

-----------------------------------------------------------------------------
(***************************************************************************)
(* The invariants of the group iteration, and the types of the outer one.  *)
(***************************************************************************)
GroupInv == TypeInv /\ SweepInv /\ BoundaryInv /\ StoredInv

OuterTypeOK ==
  /\ outer \in Outers
  /\ stage \in Stages
  /\ k \in {{}} \cup {{value} : value \in K}
  /\ fixedData \in FixedTerms \ {UnsetTerm}
  /\ outerStatus \in StatusType({})
  /\ outerStatus.max_iterations = ParamMax
  /\ outerStatus.iteration_number <= ParamMax
  /\ isComplete \in BOOLEAN
  /\ corrected \in BOOLEAN
  /\ results \in [FixedTerms -> SUBSET (Moments \X SUBSET K)]

\* A call of Iterate is only under way, or aborted, in the inner stage; k has a
\* value once SolveSystem was called; the checker is below its maximum wherever
\* it can still be asked.
PhaseInv ==
  /\ stage # "inner" => pc = "idle"
  /\ stage # "built" => k # {}
  /\ stage \in {"sources", "inner"} => outerStatus.iteration_number < ParamMax
  /\ stage = "post" /\ ~isComplete => outerStatus.iteration_number < ParamMax

OuterTypeInv == OuterTypeOK /\ PhaseInv

LEMMA OnlyValue ==
  ASSUME NEW value, NEW default
  PROVE  ValueOr({value}, default) = value
BY DEF ValueOr

LEMMA StartMoments == AllOnes \in Moments /\ AllZero \in Moments
BY OuterAssumption, DataAssumption DEF AllOnes, AllZero, Moments

\* A new framework is in one of the states a call of Iterate may start from.
LEMMA OuterInitGroupInit == OuterInit => GroupInit
<1> SUFFICES ASSUME OuterInit PROVE GroupInit
  OBVIOUS
<1>1. fixed \in {[g \in Group |-> [a \in Angle |-> t]] : t \in FixedTerms}
  BY OuterAssumption DEF OuterInit, ForAllTerms
<1>2. fission \in {[g \in Group |-> [a \in Angle |-> t]] : t \in FissionTerms}
  <2>1. [moments |-> AllZero, k |-> OneK] \in FissionTerms
    BY OuterAssumption, StartMoments DEF FissionFrom
  <2> QED
    BY <2>1 DEF OuterInit, ForAllTerms
<1>3. /\ scattering = [g \in Group |-> [a \in Angle |-> [h \in Group |-> Zero]]]
      /\ boundary = [g \in Group |-> [a \in Angle |-> [b \in Boundaries |-> Unset]]]
      /\ stored = [g \in Group |-> [a \in Angle |-> Unset]]
  BY DEF OuterInit, ForAllTerms, AllZero
<1> QED
  BY <1>1, <1>2, <1>3, StartMoments DEF OuterInit, GroupInit

LEMMA InitGroupInv == OuterInit => GroupInv
BY OuterInitGroupInit, InitTypeInv, InitSweepInv, InitStoredInv DEF GroupInv

\* Between two calls the invariants of the group iteration only say the types.
LEMMA BetweenCalls ==
  ASSUME pc' \in {"idle", "threw"}
  PROVE  CountersInv' /\ SweepInv' /\ BoundaryInv' /\ StoredInv'
BY DEF CountersInv, InGroupLoop, InCall, SweepInv, Untouched, LocalsInv, FinishedInv,
       Finished, Swept, BoundaryInv, StoredInv

LEMMA NextKType ==
  ASSUME TypeOK, OuterTypeOK, k # {}, isEigenvalue, ~FissionSourceFails
  PROVE  NextK \in K
<1>1. CASE outer = "rayleigh quotient"
  <2>1. ValueOr(k, OneK) \in K
    BY OnlyValue DEF OuterTypeOK
  <2>2. RayleighQuotient(ValueOr(k, OneK), current, previous) \in K
    <3>1. current \in Moments /\ previous \in Moments
      BY DEF TypeOK
    <3>2. previous # AllZero => Quotient(ValueOr(k, OneK), current, previous) \in K
      BY <2>1, <3>1, OuterAssumption
    <3> QED
      BY <2>1, <3>2 DEF RayleighQuotient
  <2> QED
    BY <1>1, <2>2 DEF NextK
<1>2. CASE outer = "fission source"
  <2>1. material \in Materials /\ current \in Moments
    BY DEF TypeOK
  <2>2. FissionSource(material, current) > 0
    <3>1. FissionSource(material, current) \in Int
      BY <2>1, OuterAssumption
    <3>2. ~(FissionSource(material, current) <= 0)
      BY <1>2 DEF FissionSourceFails
    <3> QED
      BY <3>1, <3>2
  <2>3. FissionK(FissionSource(material, current)) \in K
    BY <2>1, <2>2, OuterAssumption
  <2> QED
    BY <1>2, <2>3 DEF NextK
<1> QED
  BY <1>1, <1>2, OuterAssumption DEF OuterTypeOK, isEigenvalue, OuterKinds

LEMMA NextGroupInv ==
  GroupInv /\ OuterTypeInv /\ [OuterStep]_allVars => GroupInv'
<1> SUFFICES ASSUME GroupInv, OuterTypeInv, [OuterStep]_allVars PROVE GroupInv'
  OBVIOUS
<1> USE DEF OuterTypeInv
<1>1. CASE InnerIteration
  <2>1. [Next]_groupVars
    BY <1>1 DEF InnerIteration, Next
  <2> QED
    BY <2>1, NextTypeInv, NextSweepInv, NextBoundaryInv, NextStoredInv DEF GroupInv, SweepInv
<1>2. CASE Initialize
  <2>1. pc' = "idle"
    BY <1>2 DEF Initialize, PhaseInv
  <2>2. fixed' \in [Group -> [Angle -> FixedTerms]]
    BY <1>2 DEF Initialize, ForAllTerms, OuterTypeOK
  <2>3. TypeOK'
    BY <1>2, <2>2, StartMoments DEF Initialize, GroupInv, TypeInv, TypeOK, localVars, history
  <2> QED
    BY <2>1, <2>3, BetweenCalls DEF GroupInv, TypeInv
<1>3. CASE UpdateFissionSources
  <2>1. pc' = "idle"
    BY <1>3 DEF UpdateFissionSources, PhaseInv
  <2>2. ValueOr(k, ZeroK) \in K
    BY OnlyValue, OuterAssumption DEF OuterTypeOK, ValueOr
  <2>3. [moments |-> current, k |-> ValueOr(k, ZeroK)] \in FissionTerms
    BY <2>2, OuterAssumption DEF FissionFrom, GroupInv, TypeInv, TypeOK
  <2>4. fission' \in [Group -> [Angle -> FissionTerms]]
    BY <1>3, <2>3 DEF UpdateFissionSources, ForAllTerms, GroupInv, TypeInv, TypeOK
  <2>5. TypeOK'
    BY <1>3, <2>4 DEF UpdateFissionSources, GroupInv, TypeInv, TypeOK, localVars, history
  <2> QED
    BY <2>1, <2>5, BetweenCalls DEF GroupInv, TypeInv
<1>4. CASE CheckPower \/ CheckFixedSource \/ FissionSourceThrows
  <2>1. /\ pc' \in {"idle", "threw"}
        /\ UNCHANGED <<systemVars, solution, localVars, history>>
    BY <1>4 DEF CheckPower, CheckFixedSource, FissionSourceThrows
  <2>2. TypeOK'
    BY <2>1 DEF GroupInv, TypeInv, TypeOK, PcValues, systemVars, localVars, history
  <2> QED
    BY <2>1, <2>2, BetweenCalls DEF GroupInv, TypeInv
<1>5. CASE FinishOuterIteration
  <2>1. pc' = "idle"
    BY <1>5 DEF FinishOuterIteration, PhaseInv
  <2>2. current' \in Moments
    BY <1>5, OuterAssumption DEF FinishOuterIteration, GroupInv, TypeInv, TypeOK
  <2>3. TypeOK'
    BY <1>5, <2>2 DEF FinishOuterIteration, GroupInv, TypeInv, TypeOK, localVars, history
  <2> QED
    BY <2>1, <2>3, BetweenCalls DEF GroupInv, TypeInv
<1>6. CASE UNCHANGED groupVars
  <2>1. [Next]_groupVars
    BY <1>6
  <2> QED
    BY <2>1, NextTypeInv, NextSweepInv, NextBoundaryInv, NextStoredInv DEF GroupInv, SweepInv
<1>7. CASE StartOuter \/ ChangeFixedData \/ OuterAborted \/ UNCHANGED allVars
  BY <1>6, <1>7 DEF StartOuter, ChangeFixedData, OuterAborted, allVars
<1> QED
  BY <1>1, <1>2, <1>3, <1>4, <1>5, <1>7 DEF OuterStep, OuterNext

LEMMA InitOuterTypeInv == OuterInit => OuterTypeInv
<1> SUFFICES ASSUME OuterInit PROVE OuterTypeInv
  OBVIOUS
<1>1. /\ outerStatus \in StatusType({})
      /\ outerStatus.max_iterations = ParamMax
      /\ outerStatus.iteration_number <= ParamMax
  BY OuterAssumption, CounterBoundAssumption DEF OuterInit, DefaultStatus, StatusType
<1>2. k \in {{}} \cup {{value} : value \in K}
  BY OuterAssumption DEF OuterInit
<1>3. results \in [FixedTerms -> SUBSET (Moments \X SUBSET K)]
  BY DEF OuterInit
<1>4. OuterTypeOK
  BY <1>1, <1>2, <1>3 DEF OuterInit, OuterTypeOK, Stages
<1>5. PhaseInv
  BY DEF OuterInit, PhaseInv
<1> QED
  BY <1>4, <1>5 DEF OuterTypeInv

LEMMA NextOuterTypeInv ==
  GroupInv /\ OuterTypeInv /\ [OuterStep]_allVars => OuterTypeInv'
<1> SUFFICES ASSUME GroupInv, OuterTypeInv, [OuterStep]_allVars PROVE OuterTypeInv'
  OBVIOUS
<1> USE DEF OuterTypeInv, Stages
<1>1. CASE Initialize
  <2>1. OuterTypeOK'
    BY <1>1, OuterAssumption DEF Initialize, OuterTypeOK
  <2>2. PhaseInv'
    BY <1>1 DEF Initialize, PhaseInv
  <2> QED
    BY <2>1, <2>2
<1>2. CASE StartOuter
  <2>1. /\ outerStatus' \in StatusType({})
        /\ outerStatus'.max_iterations = ParamMax
        /\ outerStatus'.iteration_number = 0
    BY <1>2, ResetType DEF StartOuter, OuterTypeOK
  <2>2. OuterTypeOK'
    <3>1. 0 <= ParamMax
      BY OuterAssumption
    <3> QED
      BY <1>2, <2>1, <3>1 DEF StartOuter, OuterTypeOK
  <2>3. PhaseInv'
    BY <1>2, <2>1, OuterAssumption DEF StartOuter, PhaseInv, groupVars
  <2> QED
    BY <2>2, <2>3
<1>3. CASE UpdateFissionSources
  <2>1. OuterTypeOK'
    BY <1>3 DEF UpdateFissionSources, OuterTypeOK
  <2>2. PhaseInv'
    BY <1>3 DEF UpdateFissionSources, PhaseInv
  <2> QED
    BY <2>1, <2>2
<1>4. CASE InnerIteration
  BY <1>4 DEF InnerIteration, outerVars, OuterTypeOK, PhaseInv
<1>5. CASE CheckPower
  <2> DEFINE last == ValueOr(k, ZeroK)
             converged == IsConverged(NextK, last, ZeroK)
  <2>1. NextK \in K
    BY <1>5, NextKType DEF CheckPower, PhaseInv, GroupInv, TypeInv
  <2>2. converged \in BOOLEAN
    BY DEF IsConverged
  <2>3. outerStatus' = ConvergenceStatus(outerStatus, converged, {})
    BY <1>5 DEF CheckPower
  <2>4. /\ outerStatus \in StatusType({})
        /\ outerStatus.max_iterations = ParamMax
        /\ outerStatus.iteration_number < outerStatus.max_iterations
        /\ outerStatus.max_iterations < CounterBound
    BY <1>5, OuterAssumption DEF CheckPower, OuterTypeOK, PhaseInv
  <2>5. /\ outerStatus' \in StatusType({})
        /\ outerStatus'.max_iterations = ParamMax
        /\ outerStatus'.iteration_number <= ParamMax
        /\ ~outerStatus'.is_complete => outerStatus'.iteration_number < ParamMax
    <3> HIDE DEF converged
    <3> QED
      BY <2>2, <2>3, <2>4, StatusStep
  <2>6. /\ k' = {NextK} /\ stage' = "post" /\ pc' = "idle"
        /\ isComplete' = outerStatus'.is_complete
        /\ UNCHANGED <<outer, fixedData, corrected, results>>
    BY <1>5 DEF CheckPower
  <2>7. isComplete' \in BOOLEAN
    BY <2>5, <2>6 DEF StatusType
  <2>8. OuterTypeOK'
    BY <2>1, <2>5, <2>6, <2>7 DEF OuterTypeOK
  <2>9. PhaseInv'
    BY <2>5, <2>6 DEF PhaseInv
  <2> QED
    BY <2>8, <2>9
<1>6. CASE FissionSourceThrows
  BY <1>6 DEF FissionSourceThrows, outerVars, OuterTypeOK, PhaseInv
<1>7. CASE CheckFixedSource
  <2>1. OuterTypeOK'
    BY <1>7 DEF CheckFixedSource, OuterTypeOK
  <2>2. PhaseInv'
    BY <1>7 DEF CheckFixedSource, PhaseInv
  <2> QED
    BY <2>1, <2>2
<1>8. CASE FinishOuterIteration
  <2>1. current' \in Moments
    BY <1>8, OuterAssumption DEF FinishOuterIteration, GroupInv, TypeInv, TypeOK
  <2>2. k \in SUBSET K
    BY DEF OuterTypeOK
  <2>3. results' \in [FixedTerms -> SUBSET (Moments \X SUBSET K)]
    BY <1>8, <2>1, <2>2 DEF FinishOuterIteration, OuterTypeOK
  <2>4. corrected' \in BOOLEAN /\ stage' \in {"solved", "sources"}
    BY <1>8 DEF FinishOuterIteration, OuterTypeOK
  <2>5. UNCHANGED <<outer, k, fixedData, outerStatus, isComplete, pc>>
    BY <1>8 DEF FinishOuterIteration
  <2>6. OuterTypeOK'
    BY <2>3, <2>4, <2>5 DEF OuterTypeOK
  <2>7. PhaseInv'
    BY <1>8, <2>5 DEF FinishOuterIteration, PhaseInv
  <2> QED
    BY <2>6, <2>7
<1>9. CASE ChangeFixedData
  BY <1>9 DEF ChangeFixedData, groupVars, OuterTypeOK, PhaseInv
<1>10. CASE OuterAborted \/ UNCHANGED allVars
  BY <1>10 DEF OuterAborted, allVars, outerVars, groupVars, OuterTypeOK, PhaseInv
<1> QED
  BY <1>1, <1>2, <1>3, <1>4, <1>5, <1>6, <1>7, <1>8, <1>9, <1>10 DEF OuterStep, OuterNext

-----------------------------------------------------------------------------
(***************************************************************************)
(* The invariants of one solve.  LastK is the k inside the fission sources *)
(* while the group iteration runs, SourceMoments the moments inside them:  *)
(* Iterate moves them from the current to the previous moments when it     *)
(* starts.                                                                 *)
(***************************************************************************)
LastK == ValueOr(k, ZeroK)
SourceMoments == IF pc = "idle" THEN current ELSE previous

SourcesInv ==
  isEigenvalue /\ stage = "inner" =>
    fission = ForAllTerms([moments |-> SourceMoments, k |-> LastK])

\* From the second iteration on, the k of a fission source is that of the
\* moments the sources are computed from, unless they have been corrected.
FissionKInv ==
  outer = "fission source" /\ ~corrected /\ outerStatus.iteration_number # 0 =>
    /\ stage \in {"sources", "post"} => LastK = FissionK(FissionSource(material, current))
    /\ stage = "inner" => LastK = FissionK(FissionSource(material, SourceMoments))

\* What the group iteration returned is what it swept, or what its subroutine
\* made of it; then no subroutine of the outer iteration follows.
SweptInv ==
  ~HasSubroutine /\ (stage = "post" \/ (stage = "inner" /\ pc \in Swept)) => swept = current

PassConverged ==
  /\ \A g \in Group : innerConverged[g]
  /\ MomentsConverged(current, passStart) /\ swept = current

\* The converged return of the last call of Iterate survives until SolveSystem
\* returns: whatever corrects the moments makes them differ from the swept ones.
SolvedInv ==
  stage \in {"post", "solved"} /\ PassConverged =>
    \A g \in Group : current[g] = Sweep(current, g)

EigenInv ==
  /\ isEigenvalue
  /\ stage = "solved" \/ (stage = "post" /\ isComplete)
  /\ outer = "fission source" => ~corrected
  /\ swept = current /\ current = previous
  => fission = ForAllTerms([moments |-> current, k |-> LastK])

FixedInv ==
  stage \in {"start", "sources", "inner", "post"} => fixed = ForAllTerms(fixedData)

SolveInv == SourcesInv /\ FissionKInv /\ SweptInv /\ SolvedInv /\ EigenInv /\ FixedInv

\* What a step of the group iteration can do to what the outer one relies on.
LEMMA GroupStep ==
  ASSUME GroupNext
  PROVE  /\ UNCHANGED <<material, fixed, fission>>
         /\ pc \notin {"returned", "threw"}
         /\ SourceMoments' = SourceMoments
         /\ pc' \in Swept => IF pc = "store" THEN swept' = current'
                            ELSE /\ pc \in Swept /\ swept' = swept
                                 /\ ~HasSubroutine => current' = current
<1>1. CASE StartIterate
  BY <1>1 DEF StartIterate, SourceMoments, Swept, history
<1>2. CASE StartPass \/ StartGroup \/ UpdateScatteringSource \/ SolveGroup \/ SolveThrows
           \/ CheckGroup
  BY <1>2 DEF StartPass, StartGroup, UpdateScatteringSource, SolveGroup, SolveThrows,
              CheckGroup, SourceMoments, Swept, systemVars, history
<1>3. CASE FinishGroup
  BY <1>3 DEF FinishGroup, SourceMoments, Swept
<1>4. CASE RunSubroutine
  BY <1>4 DEF RunSubroutine, SourceMoments, Swept, history
<1>5. CASE CheckMap
  BY <1>5 DEF CheckMap, SourceMoments, Swept, systemVars, history
<1> QED
  BY <1>1, <1>2, <1>3, <1>4, <1>5 DEF GroupNext

\* The only step of an outer iteration that may move the moments of a converged
\* return leaves moments that are not the swept ones.
LEMMA Correction ==
  ASSUME SweptInv, FinishOuterIteration, current' # current
  PROVE  swept' # current' /\ corrected'
<1>1. OuterCorrections # {}
  BY DEF FinishOuterIteration
<1>2. swept = current
  BY <1>1, OuterAssumption DEF FinishOuterIteration, SweptInv
<1> QED
  BY <1>2 DEF FinishOuterIteration, history

LEMMA InitSolveInv == OuterInit => SolveInv
BY DEF OuterInit, SolveInv, SourcesInv, FissionKInv, SweptInv, SolvedInv, EigenInv, FixedInv

LEMMA NextSourcesInv ==
  OuterTypeInv /\ SourcesInv /\ [OuterStep]_allVars => SourcesInv'
<1> SUFFICES ASSUME OuterTypeInv, SourcesInv, [OuterStep]_allVars PROVE SourcesInv'
  OBVIOUS
<1> USE DEF SourcesInv, isEigenvalue, LastK
<1>1. CASE UpdateFissionSources
  <2>1. pc = "idle"
    BY <1>1 DEF UpdateFissionSources, OuterTypeInv, PhaseInv
  <2> QED
    BY <1>1, <2>1 DEF UpdateFissionSources, SourceMoments, ForAllTerms
<1>2. CASE InnerIteration
  <2>1. fission' = fission /\ SourceMoments' = SourceMoments
    BY <1>2, GroupStep DEF InnerIteration
  <2> QED
    BY <1>2, <2>1 DEF InnerIteration, outerVars, ForAllTerms
<1>3. CASE FissionSourceThrows
  BY <1>3 DEF FissionSourceThrows, outerVars, systemVars, SourceMoments, ForAllTerms
<1>4. CASE Initialize \/ StartOuter \/ CheckPower \/ CheckFixedSource
           \/ FinishOuterIteration \/ ChangeFixedData
  BY <1>4 DEF Initialize, StartOuter, CheckPower, CheckFixedSource, FinishOuterIteration,
              ChangeFixedData
<1>5. CASE OuterAborted \/ UNCHANGED allVars
  BY <1>5 DEF OuterAborted, allVars, outerVars, groupVars, systemVars, SourceMoments, ForAllTerms
<1> QED
  BY <1>1, <1>2, <1>3, <1>4, <1>5 DEF OuterStep, OuterNext

LEMMA NextSweptInv ==
  OuterTypeInv /\ SweptInv /\ [OuterStep]_allVars => SweptInv'
<1> SUFFICES ASSUME OuterTypeInv, SweptInv, [OuterStep]_allVars PROVE SweptInv'
  OBVIOUS
<1> USE DEF SweptInv
<1>1. CASE UpdateFissionSources
  BY <1>1 DEF UpdateFissionSources, OuterTypeInv, PhaseInv, Swept
<1>2. CASE InnerIteration
  BY <1>2, GroupStep DEF InnerIteration, outerVars, Swept
<1>3. CASE CheckPower \/ CheckFixedSource
  BY <1>3 DEF CheckPower, CheckFixedSource, systemVars, history, Swept
<1>4. CASE FissionSourceThrows \/ Initialize \/ StartOuter \/ FinishOuterIteration
           \/ ChangeFixedData
  BY <1>4 DEF FissionSourceThrows, outerVars, Initialize, StartOuter, FinishOuterIteration,
              ChangeFixedData, Swept
<1>5. CASE OuterAborted \/ UNCHANGED allVars
  BY <1>5 DEF OuterAborted, allVars, outerVars, groupVars, systemVars, history
<1> QED
  BY <1>1, <1>2, <1>3, <1>4, <1>5 DEF OuterStep, OuterNext

LEMMA NextFixedInv == FixedInv /\ [OuterStep]_allVars => FixedInv'
<1> SUFFICES ASSUME FixedInv, [OuterStep]_allVars PROVE FixedInv'
  OBVIOUS
<1> USE DEF FixedInv, ForAllTerms
<1>1. CASE Initialize \/ ChangeFixedData
  BY <1>1 DEF Initialize, ChangeFixedData
<1>2. CASE InnerIteration
  BY <1>2, GroupStep DEF InnerIteration, outerVars
<1>3. CASE StartOuter \/ UpdateFissionSources \/ CheckPower \/ FissionSourceThrows
           \/ CheckFixedSource \/ FinishOuterIteration
  BY <1>3 DEF StartOuter, UpdateFissionSources, CheckPower, FissionSourceThrows,
              CheckFixedSource, FinishOuterIteration, groupVars, outerVars, systemVars
<1>4. CASE OuterAborted \/ UNCHANGED allVars
  BY <1>4 DEF OuterAborted, allVars, outerVars, groupVars, systemVars
<1> QED
  BY <1>1, <1>2, <1>3, <1>4 DEF OuterStep, OuterNext

LEMMA NextSolvedInv ==
  GroupInv /\ SweptInv /\ SolvedInv /\ [OuterStep]_allVars => SolvedInv'
<1> SUFFICES ASSUME GroupInv, SweptInv, SolvedInv, [OuterStep]_allVars PROVE SolvedInv'
  OBVIOUS
<1> USE DEF SolvedInv, PassConverged, MomentsConverged, Sweep, TermFrom
<1>1. CASE CheckPower \/ CheckFixedSource
  <2>1. /\ pc = "returned"
        /\ UNCHANGED <<systemVars, solution, localVars, history>>
    BY <1>1 DEF CheckPower, CheckFixedSource
  <2>2. PassConverged => \A g \in Group : current[g] = Sweep(current, g)
    BY <2>1, SweepInvImplies DEF GroupInv, ConvergedIsFixedPoint, ConvergedReturn
  <2> QED
    BY <2>1, <2>2 DEF systemVars, localVars, history
<1>2. CASE FinishOuterIteration
  <2>1. CASE current' = current
    BY <1>2, <2>1 DEF FinishOuterIteration, localVars, history
  <2>2. CASE current' # current
    BY <1>2, <2>2, Correction
  <2> QED
    BY <2>1, <2>2
<1>3. CASE Initialize \/ StartOuter \/ UpdateFissionSources \/ InnerIteration
           \/ FissionSourceThrows
  BY <1>3 DEF Initialize, StartOuter, UpdateFissionSources, InnerIteration,
              FissionSourceThrows, outerVars
<1>4. CASE ChangeFixedData \/ OuterAborted \/ UNCHANGED allVars
  BY <1>4 DEF ChangeFixedData, OuterAborted, allVars, outerVars, groupVars, systemVars,
              localVars, history
<1> QED
  BY <1>1, <1>2, <1>3, <1>4 DEF OuterStep, OuterNext

\* In a call of SolveSystem k has a value, whatever default is asked for.
LEMMA KHasValue ==
  ASSUME OuterTypeInv, stage # "built", NEW default
  PROVE  ValueOr(k, default) = LastK /\ LastK \in K
<1>1. PICK value \in K : k = {value}
  BY DEF OuterTypeInv, OuterTypeOK, PhaseInv
<1> QED
  BY <1>1, OnlyValue DEF LastK

\* The k that CheckConvergence leaves.
LEMMA CheckedK ==
  ASSUME OuterTypeInv, CheckPower
  PROVE  /\ LastK' = NextK
         /\ outer = "fission source" => LastK' = FissionK(FissionSource(material, current))
         /\ outer = "rayleigh quotient" => LastK' = RayleighQuotient(LastK, current, previous)
<1>1. LastK' = NextK
  <2>1. k' = {NextK}
    BY DEF CheckPower
  <2> HIDE DEF NextK
  <2> QED
    BY <2>1, OnlyValue DEF LastK
<1>2. ValueOr(k, OneK) = LastK
  BY KHasValue DEF CheckPower
<1> QED
  BY <1>1, <1>2 DEF NextK

LEMMA NextFissionKInv ==
  OuterTypeInv /\ FissionKInv /\ [OuterStep]_allVars => FissionKInv'
<1> SUFFICES ASSUME OuterTypeInv, FissionKInv, [OuterStep]_allVars PROVE FissionKInv'
  OBVIOUS
<1> USE DEF FissionKInv
<1>1. CASE UpdateFissionSources
  BY <1>1 DEF UpdateFissionSources, OuterTypeInv, PhaseInv, SourceMoments, LastK
<1>2. CASE InnerIteration
  BY <1>2, GroupStep DEF InnerIteration, outerVars, LastK
<1>3. CASE CheckPower
  <2>1. outer = "fission source" => LastK' = FissionK(FissionSource(material, current))
    BY <1>3, CheckedK
  <2> QED
    BY <1>3, <2>1 DEF CheckPower, systemVars
<1>4. CASE FissionSourceThrows
  BY <1>4 DEF FissionSourceThrows, outerVars, systemVars, SourceMoments, LastK
<1>5. CASE StartOuter
  BY <1>5 DEF StartOuter, Reset, DefaultStatus
<1>6. CASE FinishOuterIteration
  BY <1>6 DEF FinishOuterIteration, LastK
<1>7. CASE Initialize \/ CheckFixedSource \/ ChangeFixedData
  BY <1>7 DEF Initialize, CheckFixedSource, isEigenvalue, ChangeFixedData
<1>8. CASE OuterAborted \/ UNCHANGED allVars
  BY <1>8 DEF OuterAborted, allVars, outerVars, groupVars, systemVars, SourceMoments, LastK
<1> QED
  BY <1>1, <1>2, <1>3, <1>4, <1>5, <1>6, <1>7, <1>8 DEF OuterStep, OuterNext

\* The first check of a power iteration does not end it by its count.
LEMMA FirstCheck == Increment(0) # ParamMax
<1>1. /\ ParamMax \in Nat /\ ParamMax # 0 /\ ParamMax # 1 /\ ParamMax < CounterBound
      /\ CounterBound \in Nat
  BY OuterAssumption, CounterBoundAssumption
<1> QED
  BY <1>1 DEF Increment

\* A k that is computed from moments that did not change does not change.
LEMMA StationaryK ==
  ASSUME GroupInv, OuterTypeInv, FissionKInv, CheckPower, isComplete',
         outer = "fission source" => ~corrected,
         current = previous
  PROVE  LastK' = LastK
<1>1. CASE outer = "rayleigh quotient"
  <2>1. LastK \in K /\ current \in Moments
    BY KHasValue DEF CheckPower, GroupInv, TypeInv, TypeOK
  <2>2. current # AllZero => Quotient(LastK, current, current) = LastK
    BY <2>1, OuterAssumption
  <2> QED
    BY <1>1, <2>2, CheckedK DEF RayleighQuotient
<1>2. CASE outer = "fission source"
  <2>1. CASE outerStatus.iteration_number # 0
    BY <1>2, <2>1, CheckedK DEF CheckPower, FissionKInv, SourceMoments
  <2>2. CASE outerStatus.iteration_number = 0
    <3>1. IsConverged(NextK, ValueOr(k, ZeroK), ZeroK)
      BY <2>2, FirstCheck DEF CheckPower, ConvergenceStatus, OuterTypeInv, OuterTypeOK
    <3> QED
      BY <3>1, CheckedK DEF IsConverged, LastK
  <2> QED
    BY <2>1, <2>2
<1> QED
  BY <1>1, <1>2, OuterAssumption DEF OuterTypeInv, OuterTypeOK, OuterKinds, CheckPower, isEigenvalue

LEMMA NextEigenInv ==
  GroupInv /\ OuterTypeInv /\ SourcesInv /\ FissionKInv /\ SweptInv /\ EigenInv
    /\ [OuterStep]_allVars => EigenInv'
<1> SUFFICES ASSUME GroupInv, OuterTypeInv, SourcesInv, FissionKInv, SweptInv, EigenInv,
                    [OuterStep]_allVars
             PROVE  EigenInv'
  OBVIOUS
<1> USE DEF EigenInv
<1>1. CASE CheckPower
  <2> SUFFICES ASSUME isComplete', outer = "fission source" => ~corrected, current = previous
               PROVE  fission = ForAllTerms([moments |-> current, k |-> LastK'])
    BY <1>1 DEF CheckPower, systemVars, history, ForAllTerms
  <2>1. LastK' = LastK
    BY <1>1, StationaryK
  <2>2. fission = ForAllTerms([moments |-> previous, k |-> LastK])
    BY <1>1 DEF CheckPower, SourcesInv, SourceMoments
  <2> QED
    BY <2>1, <2>2
<1>2. CASE FinishOuterIteration
  <2>1. CASE current' = current
    BY <1>2, <2>1 DEF FinishOuterIteration, history, isEigenvalue, LastK, ForAllTerms
  <2>2. CASE current' # current
    BY <1>2, <2>2, Correction
  <2> QED
    BY <2>1, <2>2
<1>3. CASE Initialize \/ StartOuter \/ UpdateFissionSources \/ InnerIteration
           \/ FissionSourceThrows
  BY <1>3 DEF Initialize, StartOuter, UpdateFissionSources, InnerIteration,
              FissionSourceThrows, outerVars
<1>4. CASE CheckFixedSource
  BY <1>4 DEF CheckFixedSource, isEigenvalue
<1>5. CASE ChangeFixedData \/ OuterAborted \/ UNCHANGED allVars
  BY <1>5 DEF ChangeFixedData, OuterAborted, allVars, outerVars, groupVars, systemVars,
              history, isEigenvalue, LastK, ForAllTerms
<1> QED
  BY <1>1, <1>2, <1>3, <1>4, <1>5 DEF OuterStep, OuterNext

-----------------------------------------------------------------------------
OuterInv == GroupInv /\ OuterTypeInv /\ SolveInv

LEMMA InitOuterInv == OuterInit => OuterInv
BY InitGroupInv, InitOuterTypeInv, InitSolveInv DEF OuterInv

LEMMA NextOuterInv == OuterInv /\ [OuterStep]_allVars => OuterInv'
BY NextGroupInv, NextOuterTypeInv, NextSourcesInv, NextFissionKInv, NextSweptInv,
   NextSolvedInv, NextEigenInv, NextFixedInv DEF OuterInv, SolveInv

\* Every reachable state of an outer iteration satisfies all of the invariants.
LEMMA OuterInvariant == OuterSpec => []OuterInv
<1> QED
  BY InitOuterInv, NextOuterInv, PTL DEF OuterSpec, OuterStep

(***************************************************************************)
(* The types of all variables of a framework, through any number of calls  *)
(* of SolveSystem, and no checker that counts past its maximum.            *)
(***************************************************************************)
THEOREM OuterTypesHold == OuterSpec => [](TypeOK /\ OuterTypeOK)
<1>1. OuterInv => TypeOK /\ OuterTypeOK
  BY DEF OuterInv, GroupInv, TypeInv, OuterTypeInv
<1> QED
  BY <1>1, OuterInvariant, PTL

(***************************************************************************)
(* Inside the outer iteration, too, a converged return of Iterate solves   *)
(* the equations of all groups, leaves the scattering sources of the       *)
(* returned fluxes, and stores angular fluxes that integrate to them.      *)
(***************************************************************************)
THEOREM InnerSolvesHold ==
  OuterSpec => [](ConvergedIsFixedPoint /\ SourcesMatchReturnedFlux /\ StoredMatchesMoments)
<1>1. OuterInv => ConvergedIsFixedPoint /\ SourcesMatchReturnedFlux
  BY SweepInvImplies DEF OuterInv, GroupInv
<1>2. OuterInv => StoredMatchesMoments
  BY DEF OuterInv, GroupInv, StoredInv, StoredMatchesMoments, StoredFrom
<1> QED
  BY <1>1, <1>2, OuterInvariant, PTL

(***************************************************************************)
(* The sources a power iteration solves with are those of exactly the      *)
(* moments and the k that CheckConvergence divides by afterwards.          *)
(***************************************************************************)
THEOREM SourcesAreOfPreviousMoments == OuterSpec => []FissionSourceIsOfPreviousMoments
<1>1. OuterInv => FissionSourceIsOfPreviousMoments
  BY DEF OuterInv, SolveInv, SourcesInv, FissionSourceIsOfPreviousMoments, SourceMoments,
         LastK, ForAllTerms
<1> QED
  BY <1>1, OuterInvariant, PTL

(***************************************************************************)
(* A stationary, converged power iteration has solved the eigenproblem,    *)
(* with the k that SolveSystem leaves in the system, for either updater of *)
(* k and also when the iteration was stopped by its maximum.               *)
(***************************************************************************)
THEOREM EigenpairIsSolved == OuterSpec => []ConvergedIsEigenpair
<1>1. OuterInv => ConvergedIsEigenpair
  <2> SUFFICES ASSUME OuterInv, isEigenvalue, stage = "solved",
                      outer = "fission source" => ~corrected,
                      PassConverged, current = previous, NEW g \in Group
               PROVE  current[g] = Moment([a \in Angle |-> Transport(material, g, a,
                        [ fixed |-> fixed[g][a], scattering |-> current,
                          boundary |-> boundary[g][a],
                          fission |-> [moments |-> current, k |-> ValueOr(k, ZeroK)] ])])
    BY DEF ConvergedIsEigenpair, PassConverged
  <2>1. current[g] = Sweep(current, g)
    BY DEF OuterInv, SolveInv, SolvedInv
  <2>2. \A a \in Angle : fission[g][a] = [moments |-> current, k |-> ValueOr(k, ZeroK)]
    BY DEF OuterInv, SolveInv, EigenInv, PassConverged, LastK, ForAllTerms
  <2> QED
    BY <2>1, <2>2 DEF Sweep, TermFrom
<1> QED
  BY <1>1, OuterInvariant, PTL

(***************************************************************************)
(* Every call of SolveSystem on a framework solves with the fixed terms of *)
(* the data its owner set before this call, whatever came before.          *)
(***************************************************************************)
THEOREM SolveUsesItsData == OuterSpec => []SolutionIsOfThisData
<1>1. OuterInv => SolutionIsOfThisData
  <2> SUFFICES ASSUME OuterInv, stage = "post", PassConverged, NEW g \in Group
               PROVE  current[g] = Moment([a \in Angle |-> Transport(material, g, a,
                        [ fixed |-> fixedData, fission |-> fission[g][a],
                          scattering |-> current, boundary |-> boundary[g][a] ])])
    BY DEF SolutionIsOfThisData, PassConverged
  <2>1. current[g] = Sweep(current, g)
    BY DEF OuterInv, SolveInv, SolvedInv
  <2>2. \A a \in Angle : fixed[g][a] = fixedData
    BY DEF OuterInv, SolveInv, FixedInv, ForAllTerms
  <2> QED
    BY <2>1, <2>2 DEF Sweep, TermFrom
<1> QED
  BY <1>1, OuterInvariant, PTL

-----------------------------------------------------------------------------
(***************************************************************************)
(* The refinement: TwoGrid, whose subroutine is the acceleration, with     *)
(* every residual and every nested solve that is linear, implements        *)
(* OuterIteration, and its residual is that of the sweep it follows.       *)
(***************************************************************************)
TwoGridStep == TwoGridNext \/ TwoGridStopped

\* Where the system's moments are the ones the subroutine has kept, and where
\* a sweep is changing them.
Between   == {"idle", "pass", "map", "returned"}
InSweep   == {"group", "update", "solve", "check", "store", "subroutine"}

(***************************************************************************)
(* The invariant of the kept moments.  Main calls SolveSystem once, so the *)
(* subroutine has not run when Initialize resets the system's moments.     *)
(***************************************************************************)
KeptInv ==
  /\ stage \in {"built", "start"} => ~hasRun
  /\ hasRun /\ stage \in {"sources", "post", "solved"} => lastMoments = current
  /\ hasRun /\ stage = "inner" /\ pc \in Between => lastMoments = current
  /\ hasRun /\ stage = "inner" /\ pc \in InSweep => lastMoments = passStart

TwoGridInv ==
  /\ OuterInv
  /\ hasRun \in BOOLEAN /\ lastMoments \in Moments /\ residual \in Residuals
  /\ KeptInv

LEMMA InitTwoGridInv == TwoGridInit => TwoGridInv
<1> SUFFICES ASSUME TwoGridInit PROVE TwoGridInv
  OBVIOUS
<1>1. OuterInv
  BY InitOuterInv DEF TwoGridInit
<1> QED
  BY <1>1, StartMoments, TwoGridAssumption DEF TwoGridInit, TwoGridInv, KeptInv

\* What one run of the subroutine computes.
LEMMA ExecuteType ==
  ASSUME TwoGridInv, Execute
  PROVE  residual' \in Residuals /\ current' \in Moments
<1>1. material \in Materials /\ current \in Moments /\ ComparedMoments \in Moments
  BY StartMoments DEF TwoGridInv, OuterInv, GroupInv, TypeInv, TypeOK, ComparedMoments
<1>2. residual' \in Residuals
  BY <1>1, TwoGridAssumption DEF Execute
<1>3. \A g \in Group : CorrectFlux(current[g], NestedSolve(material, residual'), g) \in Flux
  BY <1>1, <1>2, TwoGridAssumption DEF Moments
<1>4. current' \in Moments
  BY <1>3 DEF Execute, Corrected, Moments
<1> QED
  BY <1>2, <1>4

\* Execute is a step of the group iteration of module OuterIteration, which
\* allows its subroutine any moments.
LEMMA ExecuteIsSubroutine ==
  ASSUME TwoGridInv, Execute
  PROVE  InnerIteration /\ RunSubroutine
<1>1. current' \in IF HasSubroutine THEN Moments ELSE {current}
  BY ExecuteType, TwoGridAssumption
<1>2. RunSubroutine
  BY <1>1 DEF Execute, RunSubroutine
<1> QED
  BY <1>2 DEF Execute, InnerIteration, GroupNext

LEMMA StepIsOuterStep ==
  TwoGridInv /\ [TwoGridStep]_acceleratedVars => [OuterStep]_allVars
<1> SUFFICES ASSUME TwoGridInv, [TwoGridStep]_acceleratedVars PROVE [OuterStep]_allVars
  OBVIOUS
<1>1. CASE FrameworkStep
  BY <1>1 DEF FrameworkStep, OuterStep
<1>2. CASE Execute
  BY <1>2, ExecuteIsSubroutine DEF OuterStep, OuterNext
<1>3. CASE TwoGridStopped \/ UNCHANGED acceleratedVars
  BY <1>3 DEF TwoGridStopped, acceleratedVars
<1> QED
  BY <1>1, <1>2, <1>3 DEF TwoGridStep, TwoGridNext

\* A step of the group iteration between two runs of the subroutine.
LEMMA GroupKeepsInv ==
  ASSUME KeptInv, stage = "inner", pc # "subroutine", GroupNext,
         UNCHANGED <<stage, hasRun, lastMoments>>
  PROVE  KeptInv'
<1>1. CASE StartIterate
  BY <1>1 DEF StartIterate, KeptInv, Between, InSweep
<1>2. CASE StartPass
  BY <1>2 DEF StartPass, KeptInv, Between, InSweep, systemVars
<1>3. CASE StartGroup \/ UpdateScatteringSource \/ SolveGroup \/ CheckGroup \/ FinishGroup
  BY <1>3 DEF StartGroup, UpdateScatteringSource, SolveGroup, CheckGroup, FinishGroup,
              KeptInv, Between, InSweep, localVars
<1>4. CASE SolveThrows
  BY <1>4 DEF SolveThrows, KeptInv, Between, InSweep
<1>5. CASE RunSubroutine
  BY <1>5 DEF RunSubroutine
<1>6. CASE CheckMap
  BY <1>6 DEF CheckMap, KeptInv, Between, InSweep, systemVars
<1> QED
  BY <1>1, <1>2, <1>3, <1>4, <1>5, <1>6 DEF GroupNext

LEMMA NextKeptInv == TwoGridInv /\ [TwoGridStep]_acceleratedVars => KeptInv'
<1> SUFFICES ASSUME TwoGridInv, [TwoGridStep]_acceleratedVars PROVE KeptInv'
  OBVIOUS
<1>0. KeptInv /\ (stage # "inner" => pc = "idle")
  BY DEF TwoGridInv, OuterInv, OuterTypeInv, PhaseInv
<1>1. CASE FrameworkStep
  <2>1. UNCHANGED <<hasRun, lastMoments>>
    BY <1>1 DEF FrameworkStep, twoGridVars
  <2>2. CASE InnerIteration
    BY <1>0, <1>1, <2>1, <2>2, GroupKeepsInv DEF FrameworkStep, InnerIteration, outerVars
  <2>3. CASE Initialize \/ StartOuter
    BY <1>0, <1>1, <2>1, <2>3 DEF FrameworkStep, Initialize, StartOuter, KeptInv
  <2>4. CASE UpdateFissionSources
    BY <1>0, <2>1, <2>4 DEF UpdateFissionSources, KeptInv, Between, InSweep
  <2>5. CASE CheckPower \/ CheckFixedSource
    BY <1>0, <2>1, <2>5 DEF CheckPower, CheckFixedSource, KeptInv, Between, systemVars
  <2>6. CASE FissionSourceThrows
    BY <2>1, <2>6 DEF FissionSourceThrows, outerVars, KeptInv, Between, InSweep
  <2>7. CASE FinishOuterIteration
    <3>1. current' = current
      BY <2>7, OuterAssumption, TwoGridAssumption DEF FinishOuterIteration
    <3> QED
      BY <1>0, <2>1, <2>7, <3>1 DEF FinishOuterIteration, KeptInv
  <2> QED
    BY <1>1, <2>2, <2>3, <2>4, <2>5, <2>6, <2>7 DEF FrameworkStep, OuterNext
<1>2. CASE Execute
  BY <1>2 DEF Execute, outerVars, KeptInv, Between, InSweep
<1>3. CASE TwoGridStopped \/ UNCHANGED acceleratedVars
  BY <1>0, <1>3 DEF TwoGridStopped, acceleratedVars, allVars, outerVars, groupVars, systemVars,
                    localVars, twoGridVars, KeptInv
<1> QED
  BY <1>1, <1>2, <1>3 DEF TwoGridStep, TwoGridNext

LEMMA NextTwoGridInv == TwoGridInv /\ [TwoGridStep]_acceleratedVars => TwoGridInv'
<1> SUFFICES ASSUME TwoGridInv, [TwoGridStep]_acceleratedVars PROVE TwoGridInv'
  OBVIOUS
<1>1. OuterInv'
  BY StepIsOuterStep, NextOuterInv DEF TwoGridInv
<1>2. hasRun' \in BOOLEAN /\ lastMoments' \in Moments /\ residual' \in Residuals
  <2>1. CASE Execute
    BY <2>1, ExecuteType DEF Execute
  <2>2. CASE ~Execute
    BY <2>2 DEF TwoGridStep, TwoGridNext, FrameworkStep, TwoGridStopped, acceleratedVars,
                twoGridVars, TwoGridInv
  <2> QED
    BY <2>1, <2>2
<1> QED
  BY <1>1, <1>2, NextKeptInv DEF TwoGridInv

LEMMA TwoGridInvariant == TwoGridSpec => []TwoGridInv
<1> QED
  BY InitTwoGridInv, NextTwoGridInv, PTL DEF TwoGridSpec, TwoGridStep

(***************************************************************************)
(* An accelerated solve is a solve of OuterIteration: the subroutine       *)
(* replaces the scalar fluxes and nothing else of the system.              *)
(***************************************************************************)
THEOREM TwoGridRefines == TwoGridSpec => ImplementsOuterIteration
<1>1. TwoGridInit => OuterInit
  BY DEF TwoGridInit
<1> QED
  BY <1>1, StepIsOuterStep, TwoGridInvariant, PTL
  DEF TwoGridSpec, TwoGridStep, ImplementsOuterIteration, OuterSpec, OuterStep

(***************************************************************************)
(* The moments the subroutine kept are, at every later run, those the      *)
(* sweep before it started from.                                           *)
(***************************************************************************)
THEOREM ResidualsAreFresh == TwoGridSpec => []ResidualIsOfThisPass
<1>1. TwoGridInv => ResidualIsOfThisPass
  BY DEF TwoGridInv, KeptInv, InSweep, ResidualIsOfThisPass, ComparedMoments
<1> QED
  BY <1>1, TwoGridInvariant, PTL

(***************************************************************************)
(* Where every degree of freedom is touched by a cell of the process, a    *)
(* sweep that reproduces the fluxes it started from is not corrected, so   *)
(* acceleration does not move the solution.                                *)
(***************************************************************************)
THEOREM SolutionIsNotMoved == TwoGridSpec => FixedPointIsKept
<1>1. TwoGridInv /\ [TwoGridStep]_acceleratedVars =>
        (EveryDofIsLocal /\ stage = "inner" /\ pc = "subroutine" /\ hasRun
           /\ current = passStart => current' = current)
  <2> SUFFICES ASSUME TwoGridInv, [TwoGridStep]_acceleratedVars, EveryDofIsLocal,
                      stage = "inner", pc = "subroutine", hasRun, current = passStart
               PROVE  current' = current
    OBVIOUS
  <2>1. CASE Execute
    <3>1. material \in Materials /\ current \in Moments
      BY DEF TwoGridInv, OuterInv, GroupInv, TypeInv, TypeOK
    <3>2. ComparedMoments = current
      BY DEF TwoGridInv, KeptInv, InSweep, ComparedMoments
    <3>3. NestedSolve(material, residual') = NoError
      BY <2>1, <3>1, <3>2, TwoGridAssumption DEF Execute
    <3>4. current' = [g \in Group |-> CorrectFlux(current[g], NoError, g)]
      BY <2>1, <3>3 DEF Execute, Corrected
    <3>5. \A g \in Group : CorrectFlux(current[g], NoError, g) = current[g]
      BY <3>1, TwoGridAssumption DEF Moments
    <3> QED
      BY <3>1, <3>4, <3>5 DEF Moments
  <2>2. CASE ~Execute
    BY <2>2 DEF TwoGridStep, TwoGridNext, FrameworkStep, TwoGridStopped, acceleratedVars,
                allVars, groupVars, systemVars
  <2> QED
    BY <2>1, <2>2
<1> QED
  BY <1>1, TwoGridInvariant, PTL DEF TwoGridSpec, TwoGridStep, FixedPointIsKept

(***************************************************************************)
(* A stationary, converged accelerated power iteration has solved the      *)
(* eigenproblem of the transport equations, not one of the acceleration.   *)
(***************************************************************************)
THEOREM AcceleratedEigenpair == TwoGridSpec => []ConvergedIsEigenpair
<1> QED
  BY TwoGridRefines, EigenpairIsSolved, PTL DEF ImplementsOuterIteration
=============================================================================
