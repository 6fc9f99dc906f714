SPECIFICATION FairSpec
CONSTANTS
  Groups = 2
  Angles = 2
  Flux = {0, 1, 2}
  Zero = 0
  Psi = {0, 1}
  Moment <- MCMoment
  Materials <- MCMaterials
  FixedTerms = {0}
  FissionTerms = {1}
  Transport <- MCTransport
  Boundaries = {"left"}
  Reflection <- OneReflection
  StoresAngular = TRUE
  HasSubroutine = TRUE
  InnerMax = 3
  PassMax = 2
  CounterBound = 4
INVARIANTS
  TypeOK
  ConvergedIsFixedPoint
  SourcesMatchReturnedFlux
  StoredMatchesMoments
PROPERTIES
  BoundaryLagsOnePass
  IterateEnds
  ImplementsSourceIteration
