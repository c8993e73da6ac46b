\* Two groups and a pair, on every kind of server.
SPECIFICATION Spec
CONSTANTS
  project = project
  task = task
  Resources = {project, task}
  Groups <- TwoGroups
  Pairs <- OnePair
  Seed <- Theirs
  SeedId = 2
  FreshIds = TRUE
  Servers <- AllServers
INVARIANTS
  TypeOK
  NoFalseStale
  StaleIsCaught
  NoFalseOrphan
  OnlyOwnDeleted
  AllReported
PROPERTIES
  StepsFollowRoles
  ChecksEnd
