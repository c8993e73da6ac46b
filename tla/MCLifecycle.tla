----------------------------- MODULE MCLifecycle -----------------------------
(***************************************************************************)
(* Projects and the tasks in them.                                         *)
(***************************************************************************)
EXTENDS LifecycleChain

CONSTANTS project, task

TwoGroups == <<[resource |-> project, read |-> "found", delete |-> "found"],
               [resource |-> task, read |-> "unclear", delete |-> "found"]>>
OnePair == <<[parent |-> project, child |-> task, delete |-> "found", read |-> "found"]>>
NoGroup == <<>>

\* Those whose responses may begin with another object keep their memory.
AllServers == {s \in ServerKinds : s.foreign => s.durable /\ s.cascades /\ ~s.remote}

\* A project with a task in it that somebody else created.
Theirs == {[resource |-> project, id |-> 1, parent |-> 0],
           [resource |-> task, id |-> 2, parent |-> 1]}
=============================================================================
