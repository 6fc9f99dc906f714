SPECIFICATION LegacySpec
CONSTANTS
  Problems <- MCProblems
  Answer <- MCAnswer
  Processes = {0, 1}
  KUnit <- MCUnit
  EstimateKeff <- MCEstimateKeff
INVARIANTS
  LegacyOutputSolves
  MasterNamesItsPieces
  SymmetricModeIsRight
  MeshIsOfItsInput
  ReflectionsAreMirrors
\* The program ends.
CHECK_DEADLOCK FALSE
