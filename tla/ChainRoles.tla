----------------------------- MODULE ChainRoles -----------------------------
(***************************************************************************)
(* The roles of the calls in a lifecycle chain (SequenceStep.role) and     *)
(* which role may come after which.  Engine calls tools in these roles     *)
(* without asking why a chain goes on; LifecycleChain decides why, and its *)
(* property StepsFollowRoles says that the two agree.                      *)
(***************************************************************************)
EXTENDS Naturals, Sequences

Roles == {"create", "read", "delete", "read_after_delete", "create_parent",
          "create_child", "delete_parent", "read_child_after_parent_delete"}

\* Which role may come after which, where the tool for it is available.
Onward == {<<"create", "read">>, <<"create", "delete">>, <<"read", "delete">>,
           <<"create_parent", "create_child">>, <<"create_child", "delete_parent">>,
           <<"delete_parent", "read_child_after_parent_delete">>}

\* The next roles of a chain with these steps; "stop" where the code ends the
\* chain, be it on an outcome, on a missing tool, or on an id or a parameter
\* that is not found.
NextRoles(steps, available) ==
  LET last == steps[Len(steps)]
      ok   == last.outcome = "ok"
  IN  IF steps = <<>> THEN {"create", "create_parent"} \cap available
      ELSE IF last.role = "delete"
        THEN IF ok /\ \E n \in 1..Len(steps) : steps[n].role = "read"
               THEN {"read_after_delete"} ELSE {"stop"}
      ELSE {"stop"} \cup {r \in available :
             (ok \/ last.role = "read") /\ <<last.role, r>> \in Onward}
=============================================================================
