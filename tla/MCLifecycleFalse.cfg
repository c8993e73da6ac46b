\* What child_readable_after_parent_delete = False is documented to mean.
SPECIFICATION Spec
CONSTANTS
  project = project
  task = task
  Resources = {project, task}
  Groups <- TwoGroups
  Pairs <- OnePair
  Seed <- Theirs
  SeedId = 2
  FreshIds = TRUE
  Servers <- AllServers
INVARIANT FalseMeansUnreadable
