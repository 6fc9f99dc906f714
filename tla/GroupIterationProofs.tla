------------------------ MODULE GroupIterationProofs ------------------------
(***************************************************************************)
(* What module GroupIteration promises, for every number of groups and     *)
(* angles, every iteration maximum and every Transport, and that it        *)
(* implements SourceIteration.                                             *)
(***************************************************************************)
EXTENDS SourceIterationRefinement, TLAPS

-----------------------------------------------------------------------------
(***************************************************************************)
(* Types.  That a checker never counts past its maximum needs to know that *)
(* it is below it wherever it can still be asked.                          *)
(***************************************************************************)
InGroupLoop == {"update", "solve", "check"}
InCall      == PcValues \ {"idle", "returned", "threw"}

CountersInv ==
  /\ pc \in InGroupLoop => innerStatus.iteration_number < InnerMax
  /\ pc \in InCall => mapStatus.iteration_number < PassMax

TypeInv == TypeOK /\ CountersInv

\* A saturating counter below its bound counts.
LEMMA IncrementType ==
  ASSUME NEW n \in 0 .. CounterBound
  PROVE  /\ Increment(n) \in 0 .. CounterBound
         /\ n < CounterBound => Increment(n) = n + 1
BY CounterBoundAssumption DEF Increment

\* A loop that asks a checker below its maximum either ends or is still below
\* the maximum: IterationCompletionChecker cannot step over it.
LEMMA StatusStep ==
  ASSUME NEW Index, NEW status \in StatusType(Index),
         status.max_iterations < CounterBound,
         status.iteration_number < status.max_iterations,
         NEW converged \in BOOLEAN,
         NEW failed \in {{}} \cup {{i} : i \in Index},
         NEW next, next = ConvergenceStatus(status, converged, failed)
  PROVE  /\ next \in StatusType(Index)
         /\ next.max_iterations = status.max_iterations
         /\ next.iteration_number <= next.max_iterations
         /\ ~next.is_complete => next.iteration_number < next.max_iterations
<1>1. /\ status.iteration_number \in 0 .. CounterBound
      /\ status.max_iterations \in 1 .. CounterBound
  BY DEF StatusType
<1>2. /\ Increment(status.iteration_number) \in 0 .. CounterBound
      /\ Increment(status.iteration_number) = status.iteration_number + 1
  BY <1>1, IncrementType, CounterBoundAssumption
<1>3. next.iteration_number = Increment(status.iteration_number)
  BY DEF ConvergenceStatus
<1>4. next.max_iterations = status.max_iterations
  BY DEF ConvergenceStatus
<1>5. ~next.is_complete => Increment(status.iteration_number) # status.max_iterations
  BY DEF ConvergenceStatus
<1>6. next \in StatusType(Index)
  BY <1>1, <1>2 DEF ConvergenceStatus, StatusType
<1> QED
  BY <1>1, <1>2, <1>3, <1>4, <1>5, <1>6, CounterBoundAssumption

LEMMA ResetType ==
  ASSUME NEW Index, NEW status \in StatusType(Index)
  PROVE  /\ Reset(status) \in StatusType(Index)
         /\ Reset(status).max_iterations = status.max_iterations
         /\ Reset(status).iteration_number = 0
BY CounterBoundAssumption DEF StatusType, Reset, DefaultStatus

LEMMA SolveType ==
  ASSUME TypeOK
  PROVE  GroupSolution(group) \in [Angle -> Psi]
BY DataAssumption DEF TypeOK, GroupSolution, FullTerm, Term

LEMMA InitTypeInv == GroupInit => TypeInv
<1> SUFFICES ASSUME GroupInit PROVE TypeInv
  OBVIOUS
<1>1. 0 \in Group
  BY SizeAssumption DEF Group
<1>2. /\ DefaultStatus(InnerMax) \in StatusType(Group)
      /\ DefaultStatus(PassMax) \in StatusType(Group)
      /\ DefaultStatus(InnerMax).max_iterations = InnerMax
      /\ DefaultStatus(PassMax).max_iterations = PassMax
      /\ DefaultStatus(InnerMax).iteration_number = 0
      /\ DefaultStatus(PassMax).iteration_number = 0
  BY SizeAssumption, CounterBoundAssumption DEF DefaultStatus, StatusType
<1>3. [h \in Group |-> Zero] \in Moments
  BY DataAssumption DEF Moments
<1>4. [b \in Boundaries |-> Unset] \in Incoming
  BY DEF Incoming, StoredVector
<1>5. TypeOK
  BY <1>1, <1>2, <1>3, <1>4, DataAssumption, SizeAssumption
  DEF GroupInit, TypeOK, PcValues, StoredVector
<1>6. CountersInv
  BY DEF GroupInit, CountersInv, InGroupLoop, InCall
<1> QED
  BY <1>5, <1>6 DEF TypeInv

LEMMA NextTypeInv == TypeInv /\ [Next]_groupVars => TypeInv'
<1> SUFFICES ASSUME TypeInv, [Next]_groupVars PROVE TypeInv'
  OBVIOUS
<1> USE DEF TypeInv, PcValues, InGroupLoop, InCall, history, localVars, systemVars
<1>1. CASE StartIterate
  <2>1. /\ mapStatus' \in StatusType(Group)
        /\ mapStatus'.max_iterations = PassMax
        /\ mapStatus'.iteration_number = 0
    BY <1>1, ResetType DEF StartIterate, TypeOK
  <2>2. TypeOK'
    BY <1>1, <2>1, SizeAssumption, DataAssumption DEF StartIterate, TypeOK
  <2>3. CountersInv'
    BY <1>1, <2>1, SizeAssumption DEF StartIterate, CountersInv
  <2> QED
    BY <2>2, <2>3
<1>2. CASE StartPass
  <2>1. 0 \in Group
    BY SizeAssumption DEF Group
  <2>2. TypeOK'
    BY <1>2, <2>1 DEF StartPass, TypeOK
  <2>3. CountersInv'
    BY <1>2 DEF StartPass, CountersInv
  <2> QED
    BY <2>2, <2>3
<1>3. CASE StartGroup
  <2>1. /\ innerStatus' \in StatusType(Group)
        /\ innerStatus'.max_iterations = InnerMax
        /\ innerStatus'.iteration_number = 0
    BY <1>3, ResetType DEF StartGroup, TypeOK
  <2>2. \A a \in Angle : IncomingFlux(stored, group, a) \in Incoming
    BY DataAssumption DEF TypeOK, IncomingFlux, Incoming
  <2>3. TypeOK'
    BY <1>3, <2>1, <2>2, SizeAssumption DEF StartGroup, TypeOK
  <2>4. CountersInv'
    BY <1>3, <2>1, SizeAssumption DEF StartGroup, CountersInv
  <2> QED
    BY <2>3, <2>4
<1>4. CASE UpdateScatteringSource
  <2>1. TypeOK'
    BY <1>4 DEF UpdateScatteringSource, TypeOK
  <2>2. CountersInv'
    BY <1>4 DEF UpdateScatteringSource, CountersInv
  <2> QED
    BY <2>1, <2>2
<1>5. CASE SolveGroup
  <2>1. solution' \in [Angle -> Psi]
    BY <1>5, SolveType DEF SolveGroup
  <2>2. Moment(solution') \in Flux
    BY <2>1, DataAssumption
  <2>3. TypeOK'
    BY <1>5, <2>1, <2>2, DataAssumption DEF SolveGroup, TypeOK
  <2>4. CountersInv'
    BY <1>5 DEF SolveGroup, CountersInv
  <2> QED
    BY <2>3, <2>4
<1>6. CASE SolveThrows
  BY <1>6 DEF SolveThrows, TypeOK, CountersInv
<1>7. CASE CheckGroup
  <2> DEFINE converged == IsConverged(currentScalar, previousScalar, Zero)
  <2>1. converged \in BOOLEAN
    BY DEF IsConverged
  <2>2. /\ innerStatus \in StatusType(Group)
        /\ innerStatus.max_iterations = InnerMax
        /\ innerStatus.iteration_number < innerStatus.max_iterations
        /\ innerStatus.max_iterations < CounterBound
    BY <1>7, SizeAssumption DEF CheckGroup, TypeOK, CountersInv
  <2>3. innerStatus' = ConvergenceStatus(innerStatus, converged, {})
    BY <1>7 DEF CheckGroup
  <2>4. /\ innerStatus' \in StatusType(Group)
        /\ innerStatus'.max_iterations = InnerMax
        /\ innerStatus'.iteration_number <= InnerMax
        /\ ~innerStatus'.is_complete => innerStatus'.iteration_number < InnerMax
    <3> HIDE DEF converged
    <3> QED
      BY <2>1, <2>2, <2>3, StatusStep
  <2>5. Moment(solution) \in Flux
    BY DataAssumption DEF TypeOK
  <2>6. TypeOK'
    <3>1. current' \in Moments
      BY <1>7, <2>5 DEF CheckGroup, TypeOK, Moments
    <3>2. innerConverged' \in [Group -> BOOLEAN]
      BY <1>7, <2>1 DEF CheckGroup, TypeOK
    <3>3. pc' \in PcValues
      BY <1>7 DEF CheckGroup
    <3> QED
      BY <1>7, <2>4, <3>1, <3>2, <3>3 DEF CheckGroup, TypeOK
  <2>7. CountersInv'
    BY <1>7, <2>4 DEF CheckGroup, CountersInv
  <2> QED
    BY <2>6, <2>7
<1>8. CASE FinishGroup
  <2>1. [a \in Angle |-> {solution[a]}] \in [Angle -> StoredVector]
    BY DEF TypeOK, StoredVector
  <2>2. stored' \in [Group -> [Angle -> StoredVector]]
    BY <1>8, <2>1 DEF FinishGroup, TypeOK
  <2>3. group' \in Group /\ pc' \in {"group", "subroutine"}
    BY <1>8 DEF FinishGroup, TypeOK
  <2>4. TypeOK'
    BY <1>8, <2>2, <2>3 DEF FinishGroup, TypeOK
  <2>5. CountersInv'
    BY <1>8, <2>3 DEF FinishGroup, CountersInv
  <2> QED
    BY <2>4, <2>5
<1>9. CASE RunSubroutine
  <2>1. current' \in Moments
    BY <1>9 DEF RunSubroutine, TypeOK
  <2>2. TypeOK'
    BY <1>9, <2>1 DEF RunSubroutine, TypeOK
  <2>3. CountersInv'
    BY <1>9 DEF RunSubroutine, CountersInv
  <2> QED
    BY <2>2, <2>3
<1>10. CASE CheckMap
  <2>1. PICK failed \in MapVerdicts(current, passStart) :
          mapStatus' = ConvergenceStatus(mapStatus,
                                         MomentsConverged(current, passStart), failed)
    BY <1>10 DEF CheckMap
  <2>2. failed \in {{}} \cup {{i} : i \in Group}
    BY <2>1 DEF MapVerdicts, FailedGroups
  <2>3. MomentsConverged(current, passStart) \in BOOLEAN
    BY DEF MomentsConverged
  <2>4. /\ mapStatus \in StatusType(Group)
        /\ mapStatus.max_iterations = PassMax
        /\ mapStatus.iteration_number < mapStatus.max_iterations
        /\ mapStatus.max_iterations < CounterBound
    BY <1>10, SizeAssumption DEF CheckMap, TypeOK, CountersInv
  <2>5. /\ mapStatus' \in StatusType(Group)
        /\ mapStatus'.max_iterations = PassMax
        /\ mapStatus'.iteration_number <= PassMax
        /\ ~mapStatus'.is_complete => mapStatus'.iteration_number < PassMax
    BY <2>1, <2>2, <2>3, <2>4, StatusStep
  <2>6. TypeOK'
    BY <1>10, <2>5 DEF CheckMap, TypeOK
  <2>7. CountersInv'
    BY <1>10, <2>5 DEF CheckMap, CountersInv
  <2> QED
    BY <2>6, <2>7
<1>11. CASE CallAgain
  BY <1>11 DEF CallAgain, TypeOK, CountersInv
<1>12. CASE UNCHANGED groupVars
  BY <1>12 DEF groupVars, TypeOK, CountersInv
<1>13. CASE Aborted
  BY <1>12, <1>13 DEF Aborted
<1> QED
  BY <1>1, <1>2, <1>3, <1>4, <1>5, <1>6, <1>7, <1>8, <1>9, <1>10, <1>11, <1>12, <1>13
  DEF Next, GroupNext

\* Every reachable state of a call has its types and its counters in bounds.
LEMMA TypeInvariant == Spec => []TypeInv
<1> QED
  BY InitTypeInv, NextTypeInv, PTL DEF Spec

\* The type invariant of the model: the part of TypeInv that TLC checks.
THEOREM TypesHold == Spec => []TypeOK
<1>1. TypeInv => TypeOK
  BY DEF TypeInv
<1> QED
  BY <1>1, TypeInvariant, PTL

-----------------------------------------------------------------------------
(***************************************************************************)
(* The invariant of the sweep.  A group that is finished was solved with   *)
(* the new fluxes of the groups up to it and with the old fluxes, those    *)
(* the pass started from, of the groups after it.                          *)
(***************************************************************************)
Swept == {"subroutine", "map", "returned"}

Finished(h) ==
  \/ pc \in Swept
  \/ pc \in {"group", "update", "solve", "check"} /\ h < group
  \/ pc = "store" /\ h <= group

\* The fluxes as the sweep makes them, before a subroutine changes them.
SweepMoments == IF pc \in Swept THEN swept ELSE current

SolvedWith(f, h) == [j \in Group |-> IF j <= h THEN f[j] ELSE passStart[j]]

\* The groups still to be solved have the fluxes the pass started from.
Untouched ==
  /\ pc \in {"group", "update", "solve", "check", "store"} =>
       \A j \in Group : j > group => current[j] = passStart[j]
  /\ pc = "group" => current[group] = passStart[group]

\* The locals of the group loop belong to the group that is being solved.
LocalsInv ==
  /\ pc \in {"update", "solve"} /\ innerStatus.iteration_number # 0 =>
       current[group] = currentScalar
  /\ pc \in {"solve", "check"} => \A a \in Angle : scattering[group][a] = current
  /\ pc = "check" =>
       /\ currentScalar = Moment(solution)
       /\ currentScalar = Sweep(current, group)
       /\ previousScalar \in {Zero, current[group]}

FinishedInv ==
  \A h \in Group : Finished(h) /\ innerConverged[h] =>
    /\ SweepMoments[h] = Sweep(SolvedWith(SweepMoments, h), h)
    /\ \A a \in Angle : scattering[h][a] = SolvedWith(SweepMoments, h)

SweepInv == Untouched /\ LocalsInv /\ FinishedInv

\* Group numbers are integers, in the order the sweep visits them.
LEMMA GroupOrder ==
  /\ Group \subseteq Int
  /\ 0 \in Group
  /\ \A g \in Group : g + 1 \notin Group => \A h \in Group : h <= g
BY SizeAssumption DEF Group

LEMMA InitSweepInv == GroupInit => SweepInv
BY DEF GroupInit, SweepInv, Untouched, LocalsInv, FinishedInv, Finished, Swept

LEMMA NextSweepInv == TypeInv /\ TypeInv' /\ SweepInv /\ [Next]_groupVars => SweepInv'
<1> SUFFICES ASSUME TypeInv, TypeInv', SweepInv, [Next]_groupVars PROVE SweepInv'
  OBVIOUS
<1> USE DEF SweepInv, history, localVars, systemVars
<1>0. /\ current \in Moments /\ current' \in Moments
      /\ passStart \in Moments /\ group \in Group
      /\ scattering \in [Group -> [Angle -> Moments]]
      /\ boundary \in [Group -> [Angle -> Incoming]]
      /\ innerConverged \in [Group -> BOOLEAN]
  BY DEF TypeInv, TypeOK
<1>1. CASE StartIterate
  BY <1>1 DEF StartIterate, Untouched, LocalsInv, FinishedInv, Finished, Swept
<1>2. CASE StartPass
  <2>1. Untouched'
    BY <1>2 DEF StartPass, Untouched
  <2>2. LocalsInv'
    BY <1>2 DEF StartPass, LocalsInv
  <2>3. \A h \in Group : ~Finished(h)'
    BY <1>2, GroupOrder DEF StartPass, Finished, Swept, Group
  <2> QED
    BY <2>1, <2>2, <2>3 DEF FinishedInv
<1>3. CASE StartGroup
  <2>1. Untouched'
    BY <1>3 DEF StartGroup, Untouched
  <2>2. LocalsInv'
    BY <1>3 DEF StartGroup, LocalsInv, Reset, DefaultStatus
  <2>3. FinishedInv'
    <3> SUFFICES ASSUME NEW h \in Group, Finished(h)', innerConverged'[h]
                 PROVE  /\ SweepMoments'[h] = Sweep(SolvedWith(SweepMoments, h), h)'
                        /\ \A a \in Angle : scattering'[h][a] = SolvedWith(SweepMoments, h)'
      BY DEF FinishedInv
    <3>1. h < group /\ Finished(h)
      BY <1>3 DEF StartGroup, Finished, Swept
    <3>2. boundary'[h] = boundary[h]
      BY <1>0, <1>3, <3>1, GroupOrder DEF StartGroup
    <3>3. SweepMoments' = SweepMoments /\ SolvedWith(SweepMoments, h)' = SolvedWith(SweepMoments, h)
      BY <1>3 DEF StartGroup, SweepMoments, SolvedWith, Swept
    <3>4. Sweep(SolvedWith(SweepMoments, h), h)' = Sweep(SolvedWith(SweepMoments, h), h)
      <4>1. UNCHANGED <<material, fixed, fission>>
        BY <1>3 DEF StartGroup
      <4> QED
        BY <3>2, <3>3, <4>1 DEF Sweep, TermFrom
    <3>5. innerConverged[h]
      BY <1>3 DEF StartGroup
    <3> QED
      BY <1>3, <3>1, <3>3, <3>4, <3>5 DEF StartGroup, FinishedInv
  <2> QED
    BY <2>1, <2>2, <2>3
<1>4. CASE UpdateScatteringSource
  <2>1. Untouched'
    BY <1>4 DEF UpdateScatteringSource, Untouched
  <2>2. LocalsInv'
    BY <1>0, <1>4 DEF UpdateScatteringSource, LocalsInv
  <2>3. FinishedInv'
    <3> SUFFICES ASSUME NEW h \in Group, Finished(h)', innerConverged'[h]
                 PROVE  /\ SweepMoments'[h] = Sweep(SolvedWith(SweepMoments, h), h)'
                        /\ \A a \in Angle : scattering'[h][a] = SolvedWith(SweepMoments, h)'
      BY DEF FinishedInv
    <3>1. h < group /\ Finished(h)
      BY <1>4 DEF UpdateScatteringSource, Finished, Swept
    <3>2. scattering'[h] = scattering[h]
      BY <1>0, <1>4, <3>1, GroupOrder DEF UpdateScatteringSource
    <3>3. SweepMoments' = SweepMoments /\ SolvedWith(SweepMoments, h)' = SolvedWith(SweepMoments, h)
      BY <1>4 DEF UpdateScatteringSource, SweepMoments, SolvedWith, Swept
    <3>4. Sweep(SolvedWith(SweepMoments, h), h)' = Sweep(SolvedWith(SweepMoments, h), h)
      BY <1>4, <3>3 DEF UpdateScatteringSource, Sweep, TermFrom
    <3> QED
      BY <1>4, <3>1, <3>2, <3>3, <3>4 DEF UpdateScatteringSource, FinishedInv
  <2> QED
    BY <2>1, <2>2, <2>3
<1>5. CASE SolveGroup
  <2>1. Untouched'
    BY <1>5 DEF SolveGroup, Untouched
  <2>2. LocalsInv'
    <3>1. \A a \in Angle : FullTerm(group, a) = TermFrom(current, group, a)
      BY <1>5 DEF SolveGroup, LocalsInv, FullTerm, TermFrom
    <3>2. solution' = [a \in Angle |-> Transport(material, group, a, TermFrom(current, group, a))]
      BY <1>5, <3>1 DEF SolveGroup, GroupSolution
    <3>3. Moment(solution') = Sweep(current, group)
      BY <3>2 DEF Sweep
    <3>4. Sweep(current, group)' = Sweep(current, group)
      BY <1>5 DEF SolveGroup, Sweep, TermFrom
    <3>5. currentScalar' = Moment(solution') /\ currentScalar' = Sweep(current, group)'
      BY <1>5, <3>3, <3>4 DEF SolveGroup
    <3>6. previousScalar' \in {Zero, current[group]}
      BY <1>5 DEF SolveGroup, LocalsInv
    <3>7. \A a \in Angle : scattering'[group'][a] = current'
      BY <1>5 DEF SolveGroup, LocalsInv
    <3> QED
      BY <1>5, <3>5, <3>6, <3>7 DEF SolveGroup, LocalsInv
  <2>3. FinishedInv'
    BY <1>5 DEF SolveGroup, FinishedInv, Finished, SweepMoments, SolvedWith, Swept, Sweep, TermFrom
  <2> QED
    BY <2>1, <2>2, <2>3
<1>6. CASE SolveThrows
  BY <1>6 DEF SolveThrows, Untouched, LocalsInv, FinishedInv, Finished, Swept
<1>7. CASE CheckGroup
  <2>1. /\ pc' \in {"store", "update"} /\ pc = "check"
        /\ UNCHANGED <<material, fixed, fission, boundary, scattering, group, passStart>>
        /\ current' = [current EXCEPT ![group] = currentScalar]
    BY <1>7 DEF CheckGroup, LocalsInv
  <2>2. \A j \in Group : j # group => current'[j] = current[j]
    BY <1>0, <2>1 DEF Moments
  <2>3. current'[group] = currentScalar
    BY <1>0, <2>1 DEF Moments
  <2>4. Untouched'
    BY <1>0, <2>1, <2>2, GroupOrder DEF Untouched
  <2>5. LocalsInv'
    BY <1>7, <2>1, <2>3 DEF CheckGroup, LocalsInv
  <2>6. FinishedInv'
    <3> SUFFICES ASSUME NEW h \in Group, Finished(h)', innerConverged'[h]
                 PROVE  /\ SweepMoments'[h] = Sweep(SolvedWith(SweepMoments, h), h)'
                        /\ \A a \in Angle : scattering'[h][a] = SolvedWith(SweepMoments, h)'
      BY DEF FinishedInv
    <3>1. h <= group
      BY <1>0, <2>1, GroupOrder DEF Finished, Swept
    <3>2. SweepMoments = current /\ SweepMoments' = current'
      BY <2>1 DEF SweepMoments, Swept
    <3>3. CASE h < group
      <4>1. Finished(h) /\ innerConverged[h]
        BY <1>0, <1>7, <2>1, <3>3, GroupOrder DEF CheckGroup, Finished
      <4>2. SolvedWith(SweepMoments, h)' = SolvedWith(SweepMoments, h)
        BY <1>0, <2>1, <2>2, <3>2, <3>3, GroupOrder DEF SolvedWith
      <4>3. Sweep(SolvedWith(SweepMoments, h), h)' = Sweep(SolvedWith(SweepMoments, h), h)
        BY <2>1, <4>2 DEF Sweep, TermFrom
      <4>4. SweepMoments'[h] = SweepMoments[h]
        BY <1>0, <2>2, <3>2, <3>3, GroupOrder
      <4> QED
        BY <2>1, <4>1, <4>2, <4>3, <4>4 DEF FinishedInv
    <3>4. CASE h = group
      <4>1. IsConverged(currentScalar, previousScalar, Zero)
        BY <1>0, <1>7, <3>4 DEF CheckGroup
      <4>2. currentScalar = current[group]
        BY <4>1, <2>1 DEF IsConverged, LocalsInv
      <4>3. current' = current
        BY <1>0, <2>1, <4>2 DEF Moments
      <4>4. SolvedWith(current, group) = current
        BY <1>0, <2>1, GroupOrder DEF SolvedWith, Untouched, Moments
      <4>5. SolvedWith(SweepMoments, h)' = current
        BY <2>1, <3>2, <3>4, <4>3, <4>4 DEF SolvedWith
      <4>6. Sweep(SolvedWith(SweepMoments, h), h)' = Sweep(current, group)
        BY <2>1, <3>4, <4>5 DEF Sweep, TermFrom
      <4>7. /\ SweepMoments'[h] = Sweep(current, group)
            /\ \A a \in Angle : scattering'[h][a] = current
        BY <2>1, <2>3, <3>2, <3>4 DEF LocalsInv
      <4> QED
        BY <4>5, <4>6, <4>7
    <3> QED
      BY <1>0, <3>1, <3>3, <3>4, GroupOrder
  <2> QED
    BY <2>4, <2>5, <2>6
<1>8. CASE FinishGroup
  <2>1. /\ pc = "store" /\ swept' = current
        /\ UNCHANGED <<material, current, fixed, fission, boundary, scattering, passStart,
                        innerConverged>>
        /\ \/ group + 1 \in Group /\ group' = group + 1 /\ pc' = "group"
           \/ group + 1 \notin Group /\ pc' = "subroutine" /\ group' = group
    BY <1>8 DEF FinishGroup
  <2>2. Untouched'
    BY <1>0, <2>1, GroupOrder DEF Untouched
  <2>3. LocalsInv'
    BY <2>1 DEF LocalsInv
  <2>4. \A h \in Group : Finished(h)' => Finished(h)
    BY <1>0, <2>1, GroupOrder DEF Finished, Swept
  <2>5. SweepMoments' = SweepMoments
    BY <2>1 DEF SweepMoments, Swept
  <2>6. \A h \in Group : SolvedWith(SweepMoments, h)' = SolvedWith(SweepMoments, h)
    BY <2>1, <2>5 DEF SolvedWith
  <2>7. \A h \in Group :
          Sweep(SolvedWith(SweepMoments, h), h)' = Sweep(SolvedWith(SweepMoments, h), h)
    BY <2>1, <2>6 DEF Sweep, TermFrom
  <2>8. FinishedInv'
    BY <2>1, <2>4, <2>5, <2>6, <2>7 DEF FinishedInv
  <2> QED
    BY <2>2, <2>3, <2>8
<1>9. CASE RunSubroutine
  BY <1>9 DEF RunSubroutine, Untouched, LocalsInv, FinishedInv, Finished, SweepMoments,
              SolvedWith, Swept, Sweep, TermFrom
<1>10. CASE CheckMap
  <2>1. /\ pc = "map" /\ pc' \in {"returned", "pass"}
        /\ UNCHANGED <<systemVars, solution, group, passStart, currentScalar,
                        previousScalar, innerStatus, history>>
    BY <1>10 DEF CheckMap
  <2> QED
    BY <2>1 DEF Untouched, LocalsInv, FinishedInv, Finished, SweepMoments,
                SolvedWith, Swept, Sweep, TermFrom
<1>11. CASE CallAgain
  BY <1>11 DEF CallAgain, Untouched, LocalsInv, FinishedInv, Finished, Swept
<1>12. CASE UNCHANGED groupVars
  BY <1>12 DEF groupVars, Untouched, LocalsInv, FinishedInv, Finished, SweepMoments,
               SolvedWith, Swept, Sweep, TermFrom
<1>13. CASE Aborted
  BY <1>12, <1>13 DEF Aborted
<1> QED
  BY <1>1, <1>2, <1>3, <1>4, <1>5, <1>6, <1>7, <1>8, <1>9, <1>10, <1>11, <1>12, <1>13
  DEF Next, GroupNext

\* When nothing changed from the start of the pass to its end, each finished
\* group was solved with exactly the fluxes that are returned.
LEMMA SolvedWithReturned ==
  ASSUME TypeInv, ConvergedReturn, NEW h \in Group
  PROVE  Finished(h) /\ SolvedWith(SweepMoments, h) = current
<1>1. \A j \in Group : current[j] = passStart[j]
  BY DEF ConvergedReturn, MomentsConverged, IsConverged
<1>2. SweepMoments = current
  BY DEF ConvergedReturn, SweepMoments, Swept
<1>3. SolvedWith(current, h) = current
  BY <1>1 DEF SolvedWith, TypeInv, TypeOK, Moments
<1> QED
  BY <1>2, <1>3 DEF ConvergedReturn, Finished, Swept

LEMMA SweepInvImplies == TypeInv /\ SweepInv => ConvergedIsFixedPoint /\ SourcesMatchReturnedFlux
<1> SUFFICES ASSUME TypeInv, SweepInv, ConvergedReturn, NEW g \in Group
             PROVE  /\ current[g] = Sweep(current, g)
                    /\ \A a \in Angle : scattering[g][a] = current
  BY DEF ConvergedIsFixedPoint, SourcesMatchReturnedFlux
<1>1. Finished(g) /\ SolvedWith(SweepMoments, g) = current
  BY SolvedWithReturned
<1>2. innerConverged[g] /\ SweepMoments = current
  BY DEF ConvergedReturn, SweepMoments, Swept
<1> QED
  BY <1>1, <1>2 DEF SweepInv, FinishedInv

\* Every reachable state satisfies the invariant of the sweep.
LEMMA SweepInvariant == Spec => []SweepInv
<1> QED
  BY InitTypeInv, InitSweepInv, NextTypeInv, NextSweepInv, PTL DEF Spec

(***************************************************************************)
(* A converged return solves the equations of all groups simultaneously,   *)
(* although they were solved one after the other.                          *)
(***************************************************************************)
THEOREM ConvergedReturnSolves == Spec => []ConvergedIsFixedPoint
<1> QED
  BY TypeInvariant, SweepInvariant, SweepInvImplies, PTL

(***************************************************************************)
(* The scattering sources the code leaves in the system after a converged  *)
(* return are those of the returned fluxes, for all groups and angles.     *)
(***************************************************************************)
THEOREM ConvergedReturnSources == Spec => []SourcesMatchReturnedFlux
<1> QED
  BY TypeInvariant, SweepInvariant, SweepInvImplies, PTL

-----------------------------------------------------------------------------
\* The invariant of the reflected and the stored angular fluxes.
BoundaryInv ==
  pc \in {"update", "solve", "check", "store"} =>
    \A a \in Angle : boundary[group][a] = IncomingFlux(stored, group, a)

StoredFrom(h) ==
  \E psi \in [Angle -> Psi] :
    /\ \A a \in Angle : stored[h][a] = {psi[a]}
    /\ Moment(psi) = current[h]

StoredInv ==
  /\ pc = "store" => Moment(solution) = current[group]
  /\ StoresAngular =>
       \A h \in Group :
         \/ pc \in {"group", "update", "solve", "check", "store"} /\ h < group
         \/ pc = "subroutine"
         => StoredFrom(h)

LEMMA InitStoredInv == GroupInit => BoundaryInv /\ StoredInv
BY DEF GroupInit, BoundaryInv, StoredInv, IncomingFlux

LEMMA NextBoundaryInv == TypeInv /\ BoundaryInv /\ [Next]_groupVars => BoundaryInv'
<1> SUFFICES ASSUME TypeInv, BoundaryInv, [Next]_groupVars PROVE BoundaryInv'
  OBVIOUS
<1> USE DEF history, localVars, systemVars
<1>1. /\ boundary \in [Group -> [Angle -> Incoming]]
      /\ group \in Group
  BY DEF TypeInv, TypeOK
<1>2. CASE StartGroup
  <2>1. \A a \in Angle : boundary'[group][a] = IncomingFlux(stored, group, a)
    BY <1>1, <1>2 DEF StartGroup
  <2> QED
    BY <1>2, <2>1 DEF StartGroup, BoundaryInv, IncomingFlux
<1>3. CASE UpdateScatteringSource \/ SolveGroup \/ SolveThrows \/ CheckGroup
  BY <1>3 DEF UpdateScatteringSource, SolveGroup, SolveThrows, CheckGroup, BoundaryInv, IncomingFlux
<1>4. CASE StartIterate \/ StartPass \/ FinishGroup \/ RunSubroutine \/ CheckMap \/ CallAgain
  BY <1>4 DEF StartIterate, StartPass, FinishGroup, RunSubroutine, CheckMap, CallAgain, BoundaryInv
<1>5. CASE Aborted \/ UNCHANGED groupVars
  BY <1>5 DEF Aborted, groupVars, BoundaryInv, IncomingFlux
<1> QED
  BY <1>2, <1>3, <1>4, <1>5 DEF Next, GroupNext

LEMMA NextStoredInv == TypeInv /\ StoredInv /\ LocalsInv /\ [Next]_groupVars => StoredInv'
<1> SUFFICES ASSUME TypeInv, StoredInv, LocalsInv, [Next]_groupVars PROVE StoredInv'
  OBVIOUS
<1> USE DEF history, localVars, systemVars
<1>0. /\ current \in Moments
      /\ stored \in [Group -> [Angle -> StoredVector]]
      /\ solution \in [Angle -> Psi]
      /\ group \in Group
  BY DEF TypeInv, TypeOK
<1>1. CASE StartPass
  BY <1>1, GroupOrder DEF StartPass, StoredInv, Group
<1>2. CASE StartGroup \/ UpdateScatteringSource \/ SolveGroup
  BY <1>2 DEF StartGroup, UpdateScatteringSource, SolveGroup, StoredInv, StoredFrom
<1>3. CASE CheckGroup
  <2>1. /\ pc = "check" /\ pc' \in {"store", "update"}
        /\ UNCHANGED <<stored, group, solution>>
        /\ current' = [current EXCEPT ![group] = Moment(solution)]
    BY <1>3 DEF CheckGroup
  <2>2. /\ \A h \in Group : h < group => current'[h] = current[h]
        /\ current'[group] = Moment(solution)
    BY <1>0, <2>1, GroupOrder DEF Moments
  <2>3. StoresAngular => \A h \in Group : h < group => StoredFrom(h)'
    BY <2>1, <2>2 DEF StoredInv, StoredFrom
  <2> QED
    BY <2>1, <2>2, <2>3 DEF StoredInv
<1>4. CASE FinishGroup
  <2>1. /\ pc = "store" /\ current' = current
        /\ \/ group + 1 \in Group /\ group' = group + 1 /\ pc' = "group"
           \/ group + 1 \notin Group /\ pc' = "subroutine" /\ group' = group
    BY <1>4 DEF FinishGroup
  <2> SUFFICES ASSUME StoresAngular, NEW h \in Group, h <= group
               PROVE  StoredFrom(h)'
    BY <1>0, <2>1, GroupOrder DEF StoredInv
  <2>2. stored' = [stored EXCEPT ![group] = [a \in Angle |-> {solution[a]}]]
    BY <1>4 DEF FinishGroup
  <2>3. CASE h = group
    <3>1. \A a \in Angle : stored'[h][a] = {solution[a]}
      BY <1>0, <2>2, <2>3
    <3>2. Moment(solution) = current'[h]
      BY <2>1, <2>3 DEF StoredInv
    <3> QED
      BY <1>0, <3>1, <3>2 DEF StoredFrom
  <2>4. CASE h < group
    <3>1. StoredFrom(h)
      BY <2>1, <2>4 DEF StoredInv
    <3>2. stored'[h] = stored[h]
      BY <1>0, <2>2, <2>4, GroupOrder
    <3> QED
      BY <2>1, <3>1, <3>2 DEF StoredFrom
  <2> QED
    BY <1>0, <2>3, <2>4, GroupOrder
<1>5. CASE StartIterate \/ SolveThrows \/ RunSubroutine \/ CheckMap \/ CallAgain
  BY <1>5 DEF StartIterate, SolveThrows, RunSubroutine, CheckMap, CallAgain, StoredInv
<1>6. CASE Aborted \/ UNCHANGED groupVars
  BY <1>6 DEF Aborted, groupVars, StoredInv, StoredFrom
<1> QED
  BY <1>1, <1>2, <1>3, <1>4, <1>5, <1>6 DEF Next, GroupNext

\* Every reachable state satisfies the invariants of the angular fluxes.
LEMMA AngularInvariant == Spec => [](BoundaryInv /\ StoredInv)
<1>1. TypeInv /\ SweepInv /\ BoundaryInv /\ StoredInv /\ [Next]_groupVars
        => (BoundaryInv /\ StoredInv)'
  BY NextBoundaryInv, NextStoredInv DEF SweepInv
<1> QED
  BY <1>1, InitStoredInv, TypeInvariant, SweepInvariant, PTL DEF Spec

(***************************************************************************)
(* After a sweep with storage, the stored angular fluxes of every group    *)
(* integrate to the group's scalar flux.                                   *)
(***************************************************************************)
THEOREM StoredFluxesMatch == Spec => []StoredMatchesMoments
<1>1. StoredInv => StoredMatchesMoments
  BY DEF StoredInv, StoredMatchesMoments, StoredFrom
<1> QED
  BY <1>1, AngularInvariant, PTL

(***************************************************************************)
(* Reflected fluxes are one sweep old: a group's stored angular fluxes are *)
(* only overwritten after its boundary terms were filled from them.        *)
(***************************************************************************)
THEOREM ReflectedFluxesLag == Spec => BoundaryLagsOnePass
<1>1. TypeInv /\ BoundaryInv /\ [Next]_groupVars =>
        \A g \in Group :
          stored'[g] # stored[g] =>
            \A a \in Angle : boundary[g][a] = IncomingFlux(stored, g, a)
  <2> SUFFICES ASSUME TypeInv, BoundaryInv, [Next]_groupVars,
                      NEW g \in Group, stored'[g] # stored[g]
               PROVE  \A a \in Angle : boundary[g][a] = IncomingFlux(stored, g, a)
    OBVIOUS
  <2>1. FinishGroup
    BY DEF Next, GroupNext, StartIterate, StartPass, StartGroup, UpdateScatteringSource,
           SolveGroup, SolveThrows, CheckGroup, RunSubroutine, CheckMap, CallAgain,
           Aborted, groupVars, systemVars
  <2>2. pc = "store" /\ g = group
    BY <2>1 DEF FinishGroup, TypeInv, TypeOK
  <2> QED
    BY <2>2 DEF BoundaryInv
<1> QED
  BY <1>1, TypeInvariant, AngularInvariant, PTL DEF Spec, BoundaryLagsOnePass

-----------------------------------------------------------------------------
(***************************************************************************)
(* The refinement: GroupIteration implements SourceIteration, whatever its *)
(* subroutine does.                                                        *)
(***************************************************************************)
LEMMA OutcomeOf ==
  /\ pc = "threw" => absOutcome = "threw"
  /\ pc = "returned" => absOutcome = IF ConvergedReturn THEN "converged" ELSE "gaveUp"
  /\ pc \notin {"threw", "returned"} => absOutcome = "running"
BY DEF absOutcome

LEMMA AbstractInit == GroupInit => Abstract!Init
<1> SUFFICES ASSUME GroupInit PROVE Abstract!Init
  OBVIOUS
<1>1. absOutcome = "running"
  BY OutcomeOf DEF GroupInit
<1>2. absMoments \in Moments
  BY DEF GroupInit, absMoments, Running
<1> QED
  BY <1>1, <1>2 DEF Abstract!Init

\* Nothing a call does touches the problem, and what the caller sees of the
\* moments stays the same until the call returns.
LEMMA InvisibleStep ==
  ASSUME GroupNext, pc' \notin {"returned", "threw"}
  PROVE  UNCHANGED <<absProblem, absMoments, absOutcome>>
<1> USE DEF systemVars, localVars, history
<1>1. UNCHANGED <<material, fixed, fission>>
  BY DEF GroupNext, StartIterate, StartPass, StartGroup, UpdateScatteringSource, SolveGroup,
         SolveThrows, CheckGroup, FinishGroup, RunSubroutine, CheckMap
<1>2. UNCHANGED absProblem
  BY <1>1 DEF absProblem
<1>3. pc \notin {"returned", "threw"}
  BY DEF GroupNext, StartIterate, StartPass, StartGroup, UpdateScatteringSource, SolveGroup,
         SolveThrows, CheckGroup, FinishGroup, RunSubroutine, CheckMap
<1>4. absOutcome = "running" /\ absOutcome' = "running"
  BY <1>3 DEF absOutcome
<1>5. UNCHANGED absMoments
  <2>1. CASE StartIterate
    BY <2>1 DEF StartIterate, absMoments, Running
  <2>2. CASE ~StartIterate
    <3>1. pc # "idle" /\ pc' # "idle" /\ previous' = previous
      BY <2>2 DEF GroupNext, StartPass, StartGroup, UpdateScatteringSource, SolveGroup,
                  SolveThrows, CheckGroup, FinishGroup, RunSubroutine, CheckMap
    <3> QED
      BY <1>3, <3>1 DEF absMoments, Running
  <2> QED
    BY <2>1, <2>2
<1> QED
  BY <1>2, <1>4, <1>5

\* The last check of a call is the abstract Return.
LEMMA ReturnStep ==
  ASSUME TypeInv', ConvergedIsFixedPoint', CheckMap, pc' = "returned"
  PROVE  Abstract!Return
<1>1. absOutcome = "running"
  BY DEF CheckMap, absOutcome
<1>2. absOutcome' = IF ConvergedReturn' THEN "converged" ELSE "gaveUp"
  BY DEF absOutcome
<1>3. absMoments' = current' /\ current' \in Moments
  BY DEF absMoments, Running, TypeInv, TypeOK
<1>4. UNCHANGED absProblem
  BY DEF CheckMap, absProblem, systemVars
<1>5. boundary' \in [Group -> [Angle -> Incoming]]
  BY DEF TypeInv, TypeOK
<1>6. ConvergedReturn' => Solve(absProblem, current', boundary')
  <2> SUFFICES ASSUME ConvergedReturn', NEW g \in Group
               PROVE  current'[g] = Moment([a \in Angle |->
                        Transport(material, g, a,
                          [ fixed |-> fixed[g][a], fission |-> fission[g][a],
                            scattering |-> current', boundary |-> boundary'[g][a] ])])
    BY DEF Solve, absProblem
  <2>1. UNCHANGED <<material, fixed, fission>>
    BY DEF CheckMap, systemVars
  <2>2. current'[g] = Sweep(current, g)'
    BY DEF ConvergedIsFixedPoint
  <2> QED
    BY <2>1, <2>2 DEF Sweep, TermFrom
<1> QED
  BY <1>1, <1>2, <1>3, <1>4, <1>5, <1>6 DEF Abstract!Return, Abstract!Outcomes

LEMMA AbstractStep ==
  TypeInv /\ TypeInv' /\ ConvergedIsFixedPoint' /\ [Next]_groupVars
    => [Abstract!Next]_<<absProblem, absMoments, absOutcome>>
<1> SUFFICES ASSUME TypeInv, TypeInv', ConvergedIsFixedPoint', [Next]_groupVars
             PROVE  Abstract!Next \/ UNCHANGED <<absProblem, absMoments, absOutcome>>
  OBVIOUS
<1>1. CASE GroupNext /\ pc' = "returned"
  <2>1. CheckMap
    BY <1>1 DEF GroupNext, StartIterate, StartPass, StartGroup, UpdateScatteringSource,
                SolveGroup, SolveThrows, CheckGroup, FinishGroup, RunSubroutine
  <2> QED
    BY <1>1, <2>1, ReturnStep DEF Abstract!Next
<1>2. CASE GroupNext /\ pc' = "threw"
  <2>1. SolveThrows
    BY <1>2 DEF GroupNext, StartIterate, StartPass, StartGroup, UpdateScatteringSource,
                SolveGroup, CheckGroup, FinishGroup, RunSubroutine, CheckMap
  <2>2. absOutcome = "running" /\ absOutcome' = "threw"
    BY <2>1 DEF SolveThrows, absOutcome
  <2>3. UNCHANGED <<absProblem, absMoments>>
    BY <2>1 DEF SolveThrows, absProblem, absMoments, Running, systemVars
  <2> QED
    BY <2>2, <2>3 DEF Abstract!Abort, Abstract!Next
<1>3. CASE GroupNext /\ pc' \notin {"returned", "threw"}
  BY <1>3, InvisibleStep
<1>4. CASE CallAgain
  <2>1. absOutcome \in {"converged", "gaveUp"} /\ absOutcome' = "running"
    BY <1>4 DEF CallAgain, absOutcome
  <2>2. absMoments' = absMoments
    BY <1>4 DEF CallAgain, absMoments, Running
  <2> QED
    BY <2>1, <2>2 DEF Abstract!Call, Abstract!Outcomes, Abstract!Next
<1>5. CASE Aborted \/ UNCHANGED groupVars
  BY <1>5 DEF Aborted, groupVars, systemVars, localVars, history, absProblem, absMoments,
              absOutcome, Running, ConvergedReturn, MomentsConverged
<1> QED
  BY <1>1, <1>2, <1>3, <1>4, <1>5 DEF Next

(***************************************************************************)
(* A caller who only knows the promise of SourceIteration cannot tell the  *)
(* iteration from it: the problem is left alone, the moments come back     *)
(* once, and a converged return is a simultaneous solution.                *)
(***************************************************************************)
THEOREM IterationRefines == Spec => ImplementsSourceIteration
<1>1. Spec => [](TypeInv /\ ConvergedIsFixedPoint)
  BY TypeInvariant, ConvergedReturnSolves, PTL
<1> QED
  BY <1>1, AbstractInit, AbstractStep, PTL
  DEF Spec, ImplementsSourceIteration, Abstract!Spec, Abstract!vars
=============================================================================
