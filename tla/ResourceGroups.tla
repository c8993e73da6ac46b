--------------------------- MODULE ResourceGroups ---------------------------
(***************************************************************************)
(* sequence.py: which of the listed tools form the create/read/delete sets *)
(* of a resource (group_resource_tools), and which of those reference one  *)
(* another (find_parent_child_pairs).                                      *)
(*                                                                         *)
(* A tool is what these heuristics see of it: the first word of its name,  *)
(* the rest of the name, and which resources' ids ("{resource}_id") are    *)
(* among the properties of its schema.                                     *)
(***************************************************************************)
EXTENDS Naturals, Sequences, FiniteSets

CONSTANTS Resources, ToolSet,
          MaxTools      \* bound: the length of the list

CreateVerbs == {"create", "add", "insert", "new"}
ReadVerbs   == {"get", "read", "fetch", "retrieve", "describe", "show"}
DeleteVerbs == {"delete", "remove", "destroy"}

ASSUME ToolSetAssumption ==
  /\ ToolSet \subseteq [word : STRING, resource : Resources, links : SUBSET Resources]
  /\ MaxTools \in Nat

VARIABLES
  names,      \* the tools classified so far
  creates, reads, deletes,  \* tools per resource, as listed
  keys,       \* the resources in the order in which creates got them
  phase, k,   \* which loop is running, and where it is
  c,          \* where the inner one of the last loop is
  groups,     \* ResourceGroups; a read or delete tool is a set of at most one
  pairs       \* ParentChildPairs

vars == <<names, creates, reads, deletes, keys, phase, k, c, groups, pairs>>

Group == [resource : Resources, create : ToolSet,
          read : SUBSET ToolSet, delete : SUBSET ToolSet]

TypeOK ==
  /\ names \in Seq(ToolSet)
  /\ {creates, reads, deletes} \subseteq [Resources -> Seq(ToolSet)]
  /\ keys \in Seq(Resources)
  /\ \A m, n \in 1..Len(keys) : keys[m] = keys[n] => m = n
  /\ phase \in {"classify", "group", "link", "done"}
  /\ k \in Nat /\ c \in Nat
  /\ groups \in Seq(Group)
  /\ pairs \in Seq([parent : Group, child : Group])

Init ==
  /\ names = <<>>
  /\ creates = [r \in Resources |-> <<>>]
  /\ reads = [r \in Resources |-> <<>>]
  /\ deletes = [r \in Resources |-> <<>>]
  /\ keys = <<>>
  /\ phase = "classify"
  /\ k = 1 /\ c = 1
  /\ groups = <<>>
  /\ pairs = <<>>

-----------------------------------------------------------------------------
\* for name in tool_names; the verbs are disjoint, so the order of the three
\* attempts does not matter.
Listed(t) ==
  /\ phase = "classify"
  /\ Len(names) < MaxTools
  /\ names' = Append(names, t)
  /\ UNCHANGED <<phase, k, c, groups, pairs>>

Add(dict, t) == [dict EXCEPT ![t.resource] = Append(@, t)]

\* Mutant of ListCreate: the resource is entered again with every tool.
ListCreateAgain(t) ==
  /\ t.word \in CreateVerbs
  /\ Listed(t)
  /\ creates' = Add(creates, t)
  /\ keys' = Append(keys, t.resource)
  /\ UNCHANGED <<reads, deletes>>

ListCreate(t) ==
  /\ t.word \in CreateVerbs
  /\ Listed(t)
  /\ creates' = Add(creates, t)
  /\ keys' = IF creates[t.resource] = <<>> THEN Append(keys, t.resource) ELSE keys
  /\ UNCHANGED <<reads, deletes>>

ListRead(t) ==
  /\ t.word \in ReadVerbs
  /\ Listed(t)
  /\ reads' = Add(reads, t)
  /\ UNCHANGED <<creates, deletes, keys>>

ListDelete(t) ==
  /\ t.word \in DeleteVerbs
  /\ Listed(t)
  /\ deletes' = Add(deletes, t)
  /\ UNCHANGED <<creates, reads, keys>>

ListOther(t) ==
  /\ t.word \notin CreateVerbs \cup ReadVerbs \cup DeleteVerbs
  /\ Listed(t)
  /\ UNCHANGED <<creates, reads, deletes, keys>>

Turn(loop, next) ==
  /\ phase = loop
  /\ phase' = next
  /\ k' = 1
  /\ UNCHANGED <<names, creates, reads, deletes, keys, c, groups, pairs>>

AllListed == Turn("classify", "group")

-----------------------------------------------------------------------------
\* Mutant of Sole: with several candidates the first one is taken.
SoleOrFirst(tools) == IF Len(tools) >= 1 THEN {tools[1]} ELSE {}

\* read_names[0] if len(read_names) == 1 else None
Sole(tools) == IF Len(tools) = 1 THEN {tools[1]} ELSE {}

\* for resource, create_names in creates.items()
GroupResource ==
  LET r == keys[k] IN
  /\ phase = "group" /\ k <= Len(keys)
  /\ groups' =
       IF Sole(creates[r]) # {} /\ Sole(reads[r]) \cup Sole(deletes[r]) # {}
         THEN Append(groups, [resource |-> r, create |-> creates[r][1],
                              read |-> Sole(reads[r]), delete |-> Sole(deletes[r])])
         ELSE groups
  /\ k' = k + 1
  /\ UNCHANGED <<names, creates, reads, deletes, keys, phase, c, pairs>>

AllGrouped == k > Len(keys) /\ Turn("group", "link")

-----------------------------------------------------------------------------
\* Mutant of IsPair: the child need not have a read tool.
IsPairUnread(parent, child) ==
  /\ parent.delete # {}
  /\ child # parent
  /\ parent.resource \in child.create.links

\* The cross-resource workflow can be run on them, and the child's create tool
\* takes the parent's id.
IsPair(parent, child) ==
  /\ parent.delete # {}
  /\ child # parent /\ child.read # {}
  /\ parent.resource \in child.create.links

\* for parent in groups: for child in groups
LinkNext ==
  /\ phase = "link" /\ k <= Len(groups)
  /\ pairs' = IF IsPair(groups[k], groups[c])
              THEN Append(pairs, [parent |-> groups[k], child |-> groups[c]]) ELSE pairs
  /\ k' = IF c < Len(groups) THEN k ELSE k + 1
  /\ c' = IF c < Len(groups) THEN c + 1 ELSE 1
  /\ UNCHANGED <<names, creates, reads, deletes, keys, phase, groups>>

AllLinked == k > Len(groups) /\ Turn("link", "done")

Next ==
  \/ \E t \in ToolSet : ListCreate(t) \/ ListRead(t) \/ ListDelete(t) \/ ListOther(t)
  \/ AllListed \/ GroupResource \/ AllGrouped \/ LinkNext \/ AllLinked
  \/ phase = "done" /\ UNCHANGED vars

Spec == Init /\ [][Next]_vars

-----------------------------------------------------------------------------
(***************************************************************************)
(* Properties.                                                             *)
(***************************************************************************)

\* The tools of the list that have one of these verbs for this resource.
Candidates(verbs, r) ==
  {n \in 1..Len(names) : names[n].word \in verbs /\ names[n].resource = r}

TheOne(places) == IF Cardinality(places) = 1 THEN {names[n] : n \in places} ELSE {}

\* The docstring's promise as a definition: one create tool, at least one of
\* exactly one read and exactly one delete tool, and nothing else; whatever the
\* order of the list, what is ambiguous is dropped and not guessed at.
Unambiguous ==
  {g \in [resource : Resources, create : {names[n] : n \in 1..Len(names)},
          read : {TheOne(Candidates(ReadVerbs, r)) : r \in Resources},
          delete : {TheOne(Candidates(DeleteVerbs, r)) : r \in Resources}] :
     /\ {g.create} = TheOne(Candidates(CreateVerbs, g.resource))
     /\ g.read = TheOne(Candidates(ReadVerbs, g.resource))
     /\ g.delete = TheOne(Candidates(DeleteVerbs, g.resource))
     /\ g.read \cup g.delete # {}}

GroupsAreUnambiguous == phase \in {"link", "done"} =>
  /\ {groups[n] : n \in 1..Len(groups)} = Unambiguous
  /\ Len(groups) = Cardinality(Unambiguous)

\* Each pair once, and only pairs whose workflow can be run to its end: the
\* parent can be deleted, the child read, and the parent's id passed on.
PairsAreRunnable == phase = "done" =>
  LET runnable == {p \in [parent : Unambiguous, child : Unambiguous] :
        /\ p.parent.resource # p.child.resource
        /\ p.parent.delete # {} /\ p.child.read # {}
        /\ p.parent.resource \in p.child.create.links}
  IN  /\ {pairs[n] : n \in 1..Len(pairs)} = runnable
      /\ Len(pairs) = Cardinality(runnable)

\* find_parent_child_pairs: "the same child linking to more than one plausible
\* parent by that name ... it's just not a pair".
OneParentEach == \A m, n \in 1..Len(pairs) :
  pairs[m].child = pairs[n].child => pairs[m].parent = pairs[n].parent
=============================================================================
