\* Workers over an HTTP target: they share the service with the main connection.
SPECIFICATION Spec
CONSTANTS
  Main = main
  Workers = {w1, w2}
  t1 = t1
  t2 = t2
  t3 = t3
  t4 = t4
  ToolNames = {t1, t2}
  Http = TRUE
  Tools <- TwoTools
  ReadOnly = {t1, t2}
  Missing <- NoVariants
  Wrong <- NoVariants
  Malformed = {}
  IncludeDestructive = FALSE
  Sequential = FALSE
  Chains <- NoChains
SYMMETRY Symmetry
INVARIANT FairBlame
