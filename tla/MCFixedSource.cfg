SPECIFICATION AssemblySpec
CONSTANTS
  ChiUnit = 3
  KUnit = 2
  SigmaUnit = 6
  ShapeUnit = 4
  NaN = NaN
  Eigenvector <- MCEigenvector
  Processes = {"a", "b"}
  Setups <- MCSourceSetups
  Solutions <- MCSolutions
  AngleSet <- MCAngleSet
INVARIANT FixedSourceIsOfMaterial
