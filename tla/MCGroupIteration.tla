-------------------------- MODULE MCGroupIteration --------------------------
(***************************************************************************)
(* Two groups and two angles, angular fluxes 0 and 1, scalar flux their    *)
(* sum.  A problem is a way to combine the sources of a group and angle    *)
(* into an amount and a response to each amount: among all responses there *)
(* are monotone ones (the sweeps converge), constant ones, ones that       *)
(* alternate (no sweep ever converges) and ones that vanish.               *)
(***************************************************************************)
EXTENDS SourceIterationRefinement, FiniteSets, TLC

Ones == 0 .. 1

MCMoment(angular) == angular[0] + angular[1]

Top == 2
MCMaterials == [ response : [0 .. Top -> Ones],
                 within   : Ones,   \* in-group scattering weighs in
                 beam     : Ones ]  \* only angle 0 sees the fission source

MCTransport(m, g, a, term) ==
  LET inGroup    == m.within * term.scattering[g]
      outGroup   == term.scattering[1 - g]
      reflected  == Cardinality(UNION {term.boundary[b] : b \in DOMAIN term.boundary} \cap {1})
      external   == IF m.beam = 1 /\ a = 1 THEN 0 ELSE term.fission + term.fixed
      amount     == inGroup + outGroup + reflected + external
  IN  m.response[IF amount > Top THEN Top ELSE amount]

OneReflection == ("left" :> (0 :> 1 @@ 1 :> 0))
NoReflection  == << >>
=============================================================================
