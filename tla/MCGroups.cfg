\* All lists of up to five of eight tools, repetitions included.
SPECIFICATION Spec
CONSTANTS
  project = project
  user = user
  task = task
  Resources = {project, task}
  ToolSet <- ProjectsAndTasks
  MaxTools = 5
INVARIANTS
  TypeOK
  GroupsAreUnambiguous
  PairsAreRunnable
