SPECIFICATION OuterFairSpec
CONSTANTS
  Groups = 2
  Angles = 1
  Flux = {0, 1, 2}
  Zero = 0
  One = 1
  Psi = {0, 1, 2}
  Moment <- MCMoment
  Materials <- MCMaterials
  UnsetTerm = UnsetTerm
  FixedTerms <- MCFixed
  FissionTerms <- MCFission
  Transport <- MCTransport
  Boundaries = {}
  Reflection <- NoReflection
  StoresAngular = FALSE
  HasSubroutine = FALSE
  InnerMax = 2
  PassMax = 2
  ParamMax = 3
  CounterBound = 4
  K = {0, 1, 2, 3}
  OneK = 2
  ZeroK = 0
  Quotient <- MCQuotient
  FissionSource <- MCFissionSource
  FissionK <- MCFissionK
  Outers = {"rayleigh quotient", "fission source", "fixed source"}
  OuterCorrections <- MCCorrections
INVARIANTS
  FissionSourceIsOfPreviousMoments
  ConvergedIsEigenpair
  SolveIsRepeatable
  SolutionIsOfThisData
PROPERTIES
  SolveEnds
