SPECIFICATION AssemblyFairSpec
CONSTANTS
  ChiUnit = 3
  KUnit = 2
  SigmaUnit = 6
  ShapeUnit = 4
  NaN = NaN
  Eigenvector <- MCEigenvector
  Processes = {"a", "b"}
  Setups <- MCSetups
  Solutions <- MCSolutions
  AngleSet <- MCAngleSet
INVARIANTS
  ParticlesBalance
  OneGroupBalance
  FissionSourcesAgree
  MatricesAreSelfAdjoint
PROPERTY AllProcessesFinish
