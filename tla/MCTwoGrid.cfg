SPECIFICATION TwoGridSpec
CONSTANTS
  Groups = 2
  Angles = 1
  Flux = {0, 1, 2}
  Zero = 0
  One = 1
  Psi = {0, 1, 2}
  Moment <- MCMoment
  Materials <- MCMaterials
  UnsetTerm = UnsetTerm
  FixedTerms = {UnsetTerm, 0}
  FissionTerms <- MCFission
  Transport <- MCTransport
  Boundaries = {}
  Reflection <- NoReflection
  StoresAngular = FALSE
  HasSubroutine = TRUE
  InnerMax = 3
  PassMax = 3
  ParamMax = 3
  CounterBound = 4
  K = {0, 1, 2, 3}
  OneK = 2
  ZeroK = 0
  Quotient <- MCQuotient
  FissionSource <- MCFissionSource
  FissionK <- MCFissionK
  Outers = {"rayleigh quotient"}
  OuterCorrections = {}
  Residuals <- MCResiduals
  NoResidual = 0
  Residual <- MCResidual
  NestedSolve <- MCNestedSolve
  NoError = 0
  CorrectFlux <- MCCorrectFlux
  EveryDofIsLocal = TRUE
INVARIANTS
  ResidualIsOfThisPass
PROPERTIES
  FixedPointIsKept
  ImplementsOuterIteration
