SPECIFICATION Spec
CONSTANTS
  CounterBound = 6
  DefaultMax = 4
  MaxArguments = {0, 1, 2, 3, 5}
  IterArguments = {0, 1, 2, 3, 4, 5}
  Indices = {0, 1}
INVARIANTS
  LoopStopsAtMaximum
  NoStaleFailure
