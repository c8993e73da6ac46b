\* A child resource with two plausible parents.
SPECIFICATION Spec
CONSTANTS
  project = project
  user = user
  task = task
  Resources = {project, user, task}
  ToolSet <- TwoParents
  MaxTools = 6
INVARIANT OneParentEach
