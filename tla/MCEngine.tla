------------------------------ MODULE MCEngine ------------------------------
(***************************************************************************)
(* Small runs of the engine: which tools there are, what they are allowed  *)
(* and how many bad-input variants their schemas yield.                    *)
(***************************************************************************)
EXTENDS Engine, TLC

CONSTANTS t1, t2, t3, t4

FourTools == <<t1, t2, t3, t4>>
TwoTools   == <<t1, t2>>
OneTool    == <<t1>>

SomeVariants == [t \in ToolNames |-> IF t \in {t1, t4} THEN 1 ELSE 0]
NoVariants   == [t \in ToolNames |-> 0]

NoChains == <<>>
\* A create/read/delete group and a pair of groups with a parent link.
GroupAndPair == <<
  "create" :> t1 @@ "read" :> t1 @@ "delete" :> t1,
  "create_parent" :> t1 @@ "create_child" :> t1 @@ "delete_parent" :> t1
    @@ "read_child_after_parent_delete" :> t1 >>

Symmetry == Permutations(Workers)
=============================================================================
