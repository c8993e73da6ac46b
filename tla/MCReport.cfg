\* Reports on up to three tools of any kind, and up to four that differ in time and size.
SPECIFICATION Spec
CONSTANTS
  t1 = t1
  t2 = t2
  t3 = t3
  t4 = t4
  Names = {t1, t2, t3, t4}
  FuzzReports <- SomeReports
  Commands <- SomeCommands
  SlowThreshold = 5000
  BloatThreshold = 20000
  RoundsBelow <- FallsShort
INVARIANTS
  TypeOK
  ExitIsTheVerdict
  OkMeansClean
  FailMeansBroken
  OutliersStandOut
  TraceIsHonest
