\* A destructive sequential run over launched stdio servers: each tool is also
\* called by two workers, then both kinds of chain are run.
SPECIFICATION Spec
CONSTANTS
  Main = main
  Workers = {w1, w2}
  t1 = t1
  t2 = t2
  t3 = t3
  t4 = t4
  ToolNames = {t1}
  Http = FALSE
  Tools <- OneTool
  ReadOnly = {}
  Missing <- NoVariants
  Wrong <- NoVariants
  Malformed = {}
  IncludeDestructive = TRUE
  Sequential = TRUE
  Chains <- GroupAndPair
INVARIANTS
  CleanSession
  FlagTellsTruth
  NothingLeftOpen
  EveryWorkerReports
PROPERTIES
  RunEnds
