------------------------------ MODULE MCGroups ------------------------------
(***************************************************************************)
(* Lists of tools for two and for three resources.                         *)
(***************************************************************************)
EXTENDS ResourceGroups

CONSTANTS project, user, task

Named(word, resource, links) == [word |-> word, resource |-> resource, links |-> links]

\* Two create words for one resource, and tools that are none of the three.
ProjectsAndTasks == {
  Named("create", project, {}), Named("add", project, {}), Named("get", project, {}),
  Named("delete", project, {}), Named("create", task, {project}),
  Named("read", task, {}), Named("remove", task, {project}), Named("search", task, {}) }

\* A task belongs to a project and to a user.
TwoParents == {
  Named("create", project, {}), Named("delete", project, {}),
  Named("create", user, {}), Named("delete", user, {}),
  Named("create", task, {project, user}), Named("get", task, {}) }
=============================================================================
