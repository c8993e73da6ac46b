\* The tool loop over an HTTP target, without concurrent calls or chains.
SPECIFICATION Spec
CONSTANTS
  Main = main
  Workers = {}
  t1 = t1
  t2 = t2
  t3 = t3
  t4 = t4
  ToolNames = {t1, t2, t3, t4}
  Http = TRUE
  Tools <- FourTools
  ReadOnly = {t1, t3, t4}
  Missing <- SomeVariants
  Wrong <- SomeVariants
  Malformed = {t4}
  IncludeDestructive = FALSE
  Sequential = FALSE
  Chains <- NoChains
INVARIANTS
  TypeOK
  CleanSession
  FlagTellsTruth
  FairBlame
  LossIsReported
  ReportIsScorable
PROPERTIES
  ImplementsFuzzRun
  NoDoomedCall
