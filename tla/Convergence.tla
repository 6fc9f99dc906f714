---------------------------- MODULE Convergence ----------------------------
(***************************************************************************)
(* The values of bart::convergence: the Status record that every iterative *)
(* loop of the solver consults, and what IterationCompletionChecker does   *)
(* to it.  The loops themselves (GroupIteration, OuterIteration) and the   *)
(* machine of all legal call sequences (CompletionChecker) build on these. *)
(*                                                                         *)
(* A std::optional is a set with at most one element: {} is std::nullopt.  *)
(***************************************************************************)
EXTENDS Integers

CONSTANT
  CounterBound    \* iteration_number saturates here; above every maximum used

ASSUME CounterBoundAssumption == CounterBound \in Nat \ {0}

(***************************************************************************)
(* convergence::Status as the loops see it: delta is only ever printed.    *)
(***************************************************************************)
StatusType(Index) ==
  [ iteration_number : 0 .. CounterBound,
    max_iterations   : 1 .. CounterBound,
    is_complete      : BOOLEAN,
    failed_index     : {{}} \cup {{i} : i \in Index} ]

DefaultStatus(max) ==
  [ iteration_number |-> 0,
    max_iterations   |-> max,
    is_complete      |-> FALSE,
    failed_index     |-> {} ]

(***************************************************************************)
(* ++iteration_number.  The code only compares the number with a maximum   *)
(* and with zero, so every value above all maxima is the same value.       *)
(***************************************************************************)
Increment(n) == IF n >= CounterBound THEN CounterBound ELSE n + 1

(***************************************************************************)
(* IterationCompletionChecker::ConvergenceStatus.  converged and failed    *)
(* are what the wrapped checker answers for the two values.  Completion by *)
(* count is an equality test.                                              *)
(***************************************************************************)
ConvergenceStatus(status, converged, failed) ==
  LET n == Increment(status.iteration_number)
  IN  [ iteration_number |-> n,
        max_iterations   |-> status.max_iterations,
        is_complete      |-> converged \/ n = status.max_iterations,
        failed_index     |-> IF converged THEN {} ELSE failed ]

\* Bug: Reset assigns a new Status, whose maximum is not the one that was set.
ResetLosesMaximum(status) == DefaultStatus(CounterBound)

\* Bug: Reset only rewinds the iteration number.
ResetOnlyRewinds(status) == [status EXCEPT !.iteration_number = 0]

\* IterationCompletionChecker::Reset: everything but the maximum is forgotten.
Reset(status) == DefaultStatus(status.max_iterations)

(***************************************************************************)
(* ConvergenceCheckerLInfinityNorm::IsConverged and                        *)
(* SingleParameterChecker::IsConverged at the resolution of the tolerance: *)
(* two values within max_delta are one value.  The relative change divides *)
(* by the current value, so a zero current value gives 0/0 (NaN) or x/0    *)
(* (infinity) and is never converged, whatever the previous value is.      *)
(***************************************************************************)
IsConverged(current, previous, zero) == current = previous /\ current # zero
=============================================================================
