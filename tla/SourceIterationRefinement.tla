---------------------- MODULE SourceIterationRefinement ----------------------
(***************************************************************************)
(* GroupIteration implements SourceIteration.  While a call runs, the      *)
(* moments its caller would see are the ones it handed over: those the     *)
(* code keeps in system.previous_moments for exactly that long.            *)
(***************************************************************************)
EXTENDS GroupIteration

Running == pc \notin {"idle", "returned"}

absMoments == IF Running THEN previous ELSE current

absOutcome ==
  CASE pc = "threw" -> "threw"
    [] pc = "returned" -> IF ConvergedReturn THEN "converged" ELSE "gaveUp"
    [] OTHER -> "running"

\* Everything the call may not touch.
absProblem == [material |-> material, fixed |-> fixed, fission |-> fission]

Solve(p, f, incoming) ==
  \A g \in Group :
    f[g] = Moment([a \in Angle |->
             Transport(p.material, g, a,
               [ fixed |-> p.fixed[g][a], fission |-> p.fission[g][a],
                 scattering |-> f, boundary |-> incoming[g][a] ])])

Abstract == INSTANCE SourceIteration WITH
  MomentsSet <- Moments,
  Incomings  <- [Group -> [Angle -> Incoming]],
  Solves     <- Solve,
  problem    <- absProblem,
  moments    <- absMoments,
  outcome    <- absOutcome

(***************************************************************************)
(* Each step of the detailed call is a step of the promise or invisible to *)
(* the caller: the problem is left alone, the moments come back once, and  *)
(* "converged" is only ever said of a simultaneous solution.               *)
(***************************************************************************)
ImplementsSourceIteration == Abstract!Spec
=============================================================================
