---------------------------- MODULE CheckerProofs ----------------------------
(***************************************************************************)
(* What module CompletionChecker promises, for every maximum, every index  *)
(* and every sequence of calls.                                            *)
(***************************************************************************)
EXTENDS CompletionChecker, TLAPS

(***************************************************************************)
(* The invariant.  The maximum in the status is always the one asked for,  *)
(* and since a Reset the iteration number has counted the checks one by    *)
(* one: it cannot have stepped over the maximum without the status being   *)
(* complete, and a failed index in a complete status means it stands there.*)
(***************************************************************************)
CheckerInv ==
  /\ status \in StatusType(Indices)
  /\ requested \in 1 .. CounterBound - 1
  /\ status.max_iterations = requested
  /\ sinceReset \in {{}, {status.iteration_number}}
  /\ sinceReset # {} /\ status.iteration_number = requested => status.is_complete
  /\ sinceReset # {} /\ status.is_complete /\ status.failed_index # {} =>
       status.iteration_number = requested

LEMMA InitCheckerInv == Init => CheckerInv
BY CheckerAssumption, CounterBoundAssumption
DEF Init, CheckerInv, DefaultStatus, StatusType

\* One call of ConvergenceStatus, with either answer of the wrapped checker.
LEMMA CheckStep ==
  ASSUME CheckerInv, NEW converged \in BOOLEAN,
         NEW failed \in {{}} \cup {{i} : i \in Indices},
         Check(converged, failed)
  PROVE  CheckerInv'
<1> DEFINE n == Increment(status.iteration_number)
<1>1. /\ status.iteration_number \in 0 .. CounterBound
      /\ n \in 0 .. CounterBound
  BY CounterBoundAssumption DEF CheckerInv, StatusType, Increment
<1>2. /\ status'.iteration_number = n
      /\ status'.max_iterations = requested
      /\ status'.is_complete = (converged \/ n = requested)
      /\ status'.failed_index = IF converged THEN {} ELSE failed
  BY DEF Check, CheckerInv, ConvergenceStatus
<1>3. status' \in StatusType(Indices)
  <2>1. status' = [ iteration_number |-> n,
                    max_iterations   |-> requested,
                    is_complete      |-> converged \/ n = requested,
                    failed_index     |-> IF converged THEN {} ELSE failed ]
    BY DEF Check, CheckerInv, ConvergenceStatus
  <2> QED
    BY <1>1, <2>1 DEF CheckerInv, StatusType
<1>4. sinceReset' \in {{}, {n}} /\ requested' = requested
  BY DEF Check, CheckerInv
<1> HIDE DEF n
<1> QED
  BY <1>1, <1>2, <1>3, <1>4 DEF CheckerInv

LEMMA NextCheckerInv == CheckerInv /\ [Next]_vars => CheckerInv'
<1> SUFFICES ASSUME CheckerInv, [Next]_vars PROVE CheckerInv'
  OBVIOUS
<1>1. ASSUME NEW failed \in {{}} \cup {{i} : i \in Indices}, Check(FALSE, failed)
      PROVE  CheckerInv'
  BY <1>1, CheckStep
<1>2. CASE Check(TRUE, {})
  BY <1>2, CheckStep
<1>3. CASE ResetChecker
  BY <1>3, CounterBoundAssumption
  DEF ResetChecker, CheckerInv, Reset, DefaultStatus, StatusType
<1>4. ASSUME NEW n \in MaxArguments, SetMaxIterations(n)
      PROVE  CheckerInv'
  <2>1. n \in 1 .. CounterBound - 1
    BY <1>4, CheckerAssumption, CounterBoundAssumption DEF SetMaxIterations
  <2> QED
    BY <1>4, <2>1, CounterBoundAssumption DEF SetMaxIterations, CheckerInv, StatusType
<1>5. ASSUME NEW n \in IterArguments, SetIteration(n)
      PROVE  CheckerInv'
  <2>1. n \in 0 .. CounterBound
    BY CheckerAssumption, CounterBoundAssumption
  <2> QED
    BY <1>5, <2>1, CounterBoundAssumption DEF SetIteration, CheckerInv, StatusType
<1>6. CASE UNCHANGED vars
  BY <1>6 DEF vars, CheckerInv
<1> QED
  BY <1>1, <1>2, <1>3, <1>4, <1>5, <1>6 DEF Next

LEMMA CheckerInvariant == Spec => []CheckerInv
<1> QED
  BY InitCheckerInv, NextCheckerInv, PTL DEF Spec

(***************************************************************************)
(* A loop that resets the checker and then only asks it is stopped at the  *)
(* maximum, although completion by count is a test for equality and the    *)
(* maximum survives Reset from an earlier call.                            *)
(***************************************************************************)
THEOREM CheckerStopsLoops == Spec => []LoopStopsAtMaximum
<1>1. CheckerInv => LoopStopsAtMaximum
  BY DEF CheckerInv, LoopStopsAtMaximum
<1> QED
  BY <1>1, CheckerInvariant, PTL

(***************************************************************************)
(* No verdict of an earlier loop survives Reset: a complete status with a  *)
(* failed index has been counted to the maximum by the checks made since.  *)
(***************************************************************************)
THEOREM VerdictsAreFresh == Spec => []NoStaleFailure
<1>1. CheckerInv => NoStaleFailure
  BY DEF CheckerInv, NoStaleFailure
<1> QED
  BY <1>1, CheckerInvariant, PTL
=============================================================================
