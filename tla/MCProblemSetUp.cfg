SPECIFICATION Spec
CONSTANTS
  InputFiles <- MCInputFiles
  MaterialFiles <- MCMaterialFiles
  MapFiles <- MCMapFiles
  Scalings <- MCScalings
  LookUpBound = 3
  ChiUnit = 3
INVARIANTS CrossSectionsAreComplete CellMaterialIsMapped FacesAreTheirSide
           AnglesAreReflected SystemFitsProblem CollapsePreservesReactions
CHECK_DEADLOCK FALSE
