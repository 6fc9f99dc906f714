SPECIFICATION LegacySpec
CONSTANTS
  Problems <- MCProblems
  Answer <- MCAnswer
  Processes = {0, 1}
  KUnit <- MCUnit
  EstimateKeff <- MCEstimateKeff
INVARIANT FixedSourceIsAssembled
\* The program ends.
CHECK_DEADLOCK FALSE
