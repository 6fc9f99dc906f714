-------------------------- MODULE MCOuterIteration --------------------------
(***************************************************************************)
(* Two groups, one angle.  k is counted in halves, so 2 is 1.0.  A problem *)
(* is the answer of group 0 to an amount of sources and how much of its    *)
(* flux scatters down to group 1; all answers are tried, so growing,       *)
(* vanishing, stationary and alternating solutions occur.                  *)
(***************************************************************************)
EXTENDS OuterIteration, FiniteSets, TLC

Top  == 2
Most == 3
MCMoment(angular) == angular[0]
MCMoments == [0 .. 1 -> 0 .. Top]
MCFission == [moments : MCMoments, k : 0 .. 3]

\* Group 0 answers to an amount of sources, group 1 to what scatters down.
MCMaterials == [ response : [0 .. Most -> 0 .. Top], down : 0 .. 2 ]

\* Group 1 causes the fissions, their neutrons are born in group 0, and 1/k
\* scales them.
MCTransport(m, g, a, term) ==
  LET fissions == IF term.fission.k = 0 THEN 0
                  ELSE (4 * term.fission.moments[1]) \div (term.fission.k + 1)
      incoming == Cardinality({b \in DOMAIN term.boundary : 2 \in term.boundary[b]})
      external == incoming + (IF term.fixed = UnsetTerm THEN 0 ELSE term.fixed)
      amount   == term.scattering[1] \div 2 + fissions + external
      slowed   == m.down * term.scattering[0] + external
  IN  IF g = 0 THEN m.response[IF amount > Most THEN Most ELSE amount]
      ELSE IF slowed > Top THEN Top ELSE slowed

\* The fluxes are positive numbers: the quotient is that of the group sums.
MCQuotient(k0, now, before) ==
  LET value == (k0 * (now[0] + now[1])) \div (before[0] + before[1])
  IN  IF value > 3 THEN 3 ELSE value

\* Group 1 causes the fissions; their unit is 2.5 neutrons, so that 2.0 times
\* the source over 10 is as many halves.
MCFissionSource(m, now) == now[1]
MCFissionK(source) == IF source > 3 THEN 3 ELSE source

\* A correction that moves both groups.
MCCorrections == {(0 :> 1 @@ 1 :> 1)}

MCFixed == {UnsetTerm, 0, 1}
SameAngle    == ("left" :> (0 :> 0))
NoReflection == << >>
=============================================================================
