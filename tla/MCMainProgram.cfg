SPECIFICATION Spec
CONSTANTS
  Root <- MCRoot
  Hole = Hole
  Sizes = {1, 2}
  Width <- MCWidth
  Groups = {0, 1}
  Iterations = 2
  NestedIterations = 2
  Iterate <- MCIterate
  LocalSource <- MCLocalSource
  OptionSets <- MCOptionSets
  BufferSizes = {1, 9, 1000}
INVARIANTS
  FilesTellOneSolve
  FourierFilesTellTheError
