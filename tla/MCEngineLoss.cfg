\* A remote server is lost during a lifecycle chain.
SPECIFICATION Spec
CONSTANTS
  Main = main
  Workers = {}
  t1 = t1
  t2 = t2
  t3 = t3
  t4 = t4
  ToolNames = {t1}
  Http = TRUE
  Tools <- OneTool
  ReadOnly = {}
  Missing <- NoVariants
  Wrong <- NoVariants
  Malformed = {}
  IncludeDestructive = TRUE
  Sequential = TRUE
  Chains <- GroupAndPair
INVARIANT LossIsReported
