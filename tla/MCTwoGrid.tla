----------------------------- MODULE MCTwoGrid -----------------------------
(***************************************************************************)
(* Two groups as in MCOuterIteration.  Neutrons scatter up from group 1    *)
(* into group 0, so the residual is the change of group 1; the nested      *)
(* framework returns it, and both groups are corrected by it.  One process *)
(* has all cells.                                                          *)
(***************************************************************************)
EXTENDS TwoGrid, FiniteSets, TLC

Highest == 2
MCMoment(angular) == angular[0]
MCMoments == [0 .. 1 -> 0 .. Highest]
MCFission == [moments : MCMoments, k : 0 .. 3]

\* What group 0, which has fissions too, and group 1 answer to the sources.
MCMaterials == [ fast : [0 .. 3 -> 0 .. Highest], slow : [0 .. Highest -> 0 .. Highest] ]

MCTransport(m, g, a, term) ==
  LET born     == term.fission.moments[0] + term.fission.moments[1]
      fissions == IF term.fission.k = 0 THEN 0 ELSE (2 * born) \div (term.fission.k + 1)
      amount   == term.scattering[1] + fissions
  IN  IF g = 1 THEN m.slow[term.scattering[0]]
      ELSE m.fast[IF amount > 3 THEN 3 ELSE amount]

MCQuotient(k0, now, before) ==
  LET value == (k0 * (now[0] + now[1])) \div (before[0] + before[1])
  IN  IF value > 3 THEN 3 ELSE value

MCFissionSource(m, now) == now[0] + now[1]
MCFissionK(source) == IF source > 3 THEN 3 ELSE source

MCResidual(m, now, before) == now[1] - before[1]
MCNestedSolve(m, r) == r
MCCorrectFlux(f, error, g) ==
  LET sum == f + error
  IN  IF sum < 0 THEN 0 ELSE IF sum > Highest THEN Highest ELSE sum

MCResiduals == -2 .. 2
NoReflection == << >>
=============================================================================
