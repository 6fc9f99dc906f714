------------------------- MODULE CompletionChecker -------------------------
(***************************************************************************)
(* convergence::IterationCompletionChecker under every legal sequence of   *)
(* calls: ConvergenceStatus with either answer of the wrapped checker,     *)
(* Reset, SetMaxIterations and SetIteration.  Arguments the two setters    *)
(* reject with AssertThrow leave the object as it was and are not legal    *)
(* calls.                                                                  *)
(***************************************************************************)
EXTENDS Convergence

CONSTANTS
  DefaultMax,     \* Status::max_iterations of a new object (100 in the code)
  MaxArguments,   \* the arguments tried for SetMaxIterations
  IterArguments,  \* the arguments tried for SetIteration
  Indices         \* the indices a multi-moment checker can name as failed

ASSUME CheckerAssumption ==
  /\ DefaultMax \in Nat \ {0}
  /\ MaxArguments \subseteq Nat
  /\ IterArguments \subseteq Nat
  /\ CounterBound > DefaultMax
  /\ \A n \in MaxArguments \cup IterArguments : n < CounterBound

VARIABLES
  status,       \* convergence_status_
  requested,    \* history: the maximum in force by the calls made so far
  sinceReset    \* history: {n} after n checks and no setter since Reset,
                \* {} once a setter has been called in between

vars == <<status, requested, sinceReset>>

Init ==
  /\ status = DefaultStatus(DefaultMax)
  /\ requested = DefaultMax
  /\ sinceReset = {0}

Check(converged, failed) ==
  /\ status' = ConvergenceStatus(status, converged, failed)
  /\ sinceReset' = {Increment(n) : n \in sinceReset}
  /\ UNCHANGED requested

ResetChecker ==
  /\ status' = Reset(status)
  /\ sinceReset' = {0}
  /\ UNCHANGED requested

SetMaxIterations(to_set) ==
  /\ to_set > 0
  /\ status' = [status EXCEPT !.max_iterations = to_set]
  /\ requested' = to_set
  /\ sinceReset' = {}

SetIteration(to_set) ==
  /\ to_set >= 0
  /\ status' = [status EXCEPT !.iteration_number = to_set]
  /\ sinceReset' = {}
  /\ UNCHANGED requested

Next ==
  \/ \E failed \in {{}} \cup {{i} : i \in Indices} : Check(FALSE, failed)
  \/ Check(TRUE, {})
  \/ ResetChecker
  \/ \E n \in MaxArguments : SetMaxIterations(n)
  \/ \E n \in IterArguments : SetIteration(n)

Spec == Init /\ [][Next]_vars

-----------------------------------------------------------------------------
(***************************************************************************)
(* A loop that resets its checker and then only asks it for the status is  *)
(* told to stop no later than at the maximum that was asked for, even when *)
(* that maximum was set before the Reset.                                  *)
(***************************************************************************)
LoopStopsAtMaximum == sinceReset = {requested} => status.is_complete

(***************************************************************************)
(* No verdict leaks from one loop into the next: after a Reset, a completed*)
(* status is the work of the checks made since, so it is complete with a   *)
(* failed index only when the maximum was reached by them.                 *)
(***************************************************************************)
NoStaleFailure ==
  \A n \in sinceReset :
    status.is_complete /\ status.failed_index # {} =>
      status.iteration_number = requested /\ n = requested
=============================================================================
