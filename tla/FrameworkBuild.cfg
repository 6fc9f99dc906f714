SPECIFICATION Spec
CONSTANT NestMax = 3
INVARIANTS
  UpdatersFitSystem
  NestedFrameworksFit
  AcceleratedSolveIsStored
  PlainReportIsClean
