--------------------------- MODULE SourceIteration ---------------------------
(***************************************************************************)
(* What a call of GroupSolveIterationI::Iterate promises its caller, the   *)
(* outer iteration, without loops, checkers or an order of groups.         *)
(*                                                                         *)
(* Between calls the caller owns the system.  A call takes the moments     *)
(* away and brings them back once: either they solve the equations of all  *)
(* groups at the same time, for some incoming fluxes on the reflective     *)
(* boundaries, or the call gave up at an iteration maximum or was aborted. *)
(***************************************************************************)
CONSTANTS
  MomentsSet,       \* what the moments of all groups can be
  Incomings,        \* what can come in at the boundaries, by group
  Solves(_,_,_)     \* (problem, moments, incoming): all groups' equations hold

VARIABLES
  problem,          \* all that the caller fixes before the call
  moments,          \* the moments as the caller sees them
  outcome           \* "running", or how the call ended

vars == <<problem, moments, outcome>>

Outcomes == {"converged", "gaveUp"}

Init ==
  /\ moments \in MomentsSet
  /\ outcome = "running"

Return ==
  /\ outcome = "running"
  /\ outcome' \in Outcomes
  /\ moments' \in MomentsSet
  /\ outcome' = "converged" =>
       \E incoming \in Incomings : Solves(problem, moments', incoming)
  /\ UNCHANGED problem

Abort ==
  /\ outcome = "running"
  /\ outcome' = "threw"
  /\ UNCHANGED <<problem, moments>>

\* The caller changes the problem and calls again with the moments it got.
Call ==
  /\ outcome \in Outcomes
  /\ outcome' = "running"
  /\ UNCHANGED moments

Next == Return \/ Abort \/ Call

Spec == Init /\ [][Next]_vars
=============================================================================
