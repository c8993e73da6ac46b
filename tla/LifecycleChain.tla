--------------------------- MODULE LifecycleChain ---------------------------
(***************************************************************************)
(* The checks of run_fuzz(sequential=True): _run_sequence_checks chains    *)
(* the id a create call returned through read, delete and a second read;   *)
(* _run_cross_resource_checks creates a parent and a child, deletes the    *)
(* parent and reads the child.  Both run here against a server that keeps  *)
(* objects, executes a request some time after it was sent (or after the   *)
(* client has given up on it) and may lose its memory when it restarts.    *)
(*                                                                         *)
(* The connection's own states are in ServerConnection; a call here just   *)
(* is answered, or fails.                                                  *)
(***************************************************************************)
EXTENDS ChainRoles, FiniteSets

CONSTANTS
  Resources,
  Groups,   \* ResourceGroups: has it the read, the delete tool, and is the
            \* parameter for the id found ("found", "unclear", "none")?
  Pairs,    \* ParentChildPairs, with the same of delete_parent and read_child
  Seed,     \* the objects the server held before any chain
  SeedId,   \* the highest id among them
  FreshIds, \* does create never give out an id twice?
  Servers   \* the kinds of server there may be

ServerKinds ==
  [keeps : BOOLEAN,     \* delete acknowledges and leaves the object readable
   cascades : BOOLEAN,  \* deleting a parent deletes its children
   durable : BOOLEAN,   \* objects survive a restart
   remote : BOOLEAN,    \* mcp-fuzz does not own the server's process
   foreign : BOOLEAN]   \* a create's response may name another object first

Objects  == [resource : Resources, id : Nat \ {0}, parent : Nat]
Requests == [op : {"create", "read", "delete"}, resource : Resources,
             id : Nat, parent : Nat]
Replies  == [ok : BOOLEAN, id : Nat]
Tooling  == {"found", "unclear", "none"}

ASSUME ChainAssumption ==
  /\ Groups \in Seq([resource : Resources, read : Tooling, delete : Tooling])
  /\ Pairs \in Seq([parent : Resources, child : Resources,
                    delete : Tooling \ {"none"}, read : Tooling \ {"none"}])
  /\ Seed \subseteq Objects
  /\ SeedId \in Nat /\ FreshIds \in BOOLEAN
  /\ Servers \subseteq ServerKinds
  /\ \A o \in Seed : o.id <= SeedId /\ o.parent <= SeedId

VARIABLES
  server,     \* what kind of server it is; chosen once
  store,      \* the objects it holds
  lastId,     \* the highest id it has given out
  late,       \* requests the client has given up on that it may still execute
  sent,       \* the request being executed, if there is one
  reply,      \* the answer on its way to the client, if there is one
  item,       \* the group or pair the checks are at
  steps,      \* result.steps; the last one may be pending
  id,         \* extracted_id, parent_id; 0 for None
  childId,    \* child_id; 0 for None
  stale,      \* stale_after_delete
  readable,   \* child_readable_after_parent_delete: "none", "yes" or "no"
  results     \* sequence_results \o cross_resource_results

serverVars == <<server, store, lastId, late>>
resultVars == <<steps, id, childId, stale, readable>>
vars == <<serverVars, sent, reply, item, resultVars, results>>

Exchanged == {"ok", "valid_call_errored"}
\* A chain does not tell a crash from a timeout: both are "failed" here.
SeqSteps == [role : Roles, outcome : Exchanged \cup {"pending", "failed"}]

\* Of a finished result: which item's, its last role, whether all its calls
\* were answered, and what was concluded.
Results == [item : Nat, last : Roles, answered : BOOLEAN, childId : Nat,
            stale : BOOLEAN, readable : {"none", "yes", "no"}]

TypeOK ==
  /\ server \in ServerKinds
  /\ store \subseteq Objects
  /\ lastId \in Nat
  /\ late \subseteq Requests
  /\ sent \subseteq Requests
  /\ reply \subseteq Replies
  /\ item \in 1..(Len(Groups) + Len(Pairs) + 1)
  /\ steps \in Seq(SeqSteps)
  /\ id \in Nat /\ childId \in Nat
  /\ stale \in BOOLEAN
  /\ readable \in {"none", "yes", "no"}
  /\ results \in Seq(Results)
  /\ sent = {} /\ reply = {} <=> \A n \in 1..Len(steps) : steps[n].outcome # "pending"

\* A call of the tool loop that timed out may still create an object.
Init ==
  /\ server \in Servers
  /\ store = Seed
  /\ lastId = SeedId
  /\ late \in {{}} \cup
       {{[op |-> "create", resource |-> r, id |-> 0, parent |-> 0]} : r \in Resources}
  /\ late # {} => server.remote
  /\ sent = {} /\ reply = {}
  /\ item = 1
  /\ steps = <<>> /\ id = 0 /\ childId = 0 /\ stale = FALSE /\ readable = "none"
  /\ results = <<>>

-----------------------------------------------------------------------------
(***************************************************************************)
(* The server.                                                             *)
(***************************************************************************)

Held(resource, n) == {o \in store : o.resource = resource /\ o.id = n}

\* A create stores an object under a new id, or under one it gave out before.
Create(r, a) ==
  LET old == Held(r.resource, a.id)
      new == [resource |-> r.resource, id |-> a.id, parent |-> r.parent]
  IN  /\ a.ok
      /\ a.id \in IF FreshIds THEN {lastId + 1} ELSE 1..(lastId + 1)
      /\ store' = (store \ old) \cup {new}
      /\ lastId' = IF a.id > lastId THEN a.id ELSE lastId

Delete(r, a) ==
  /\ a = [ok |-> TRUE, id |-> 0]
  /\ Held(r.resource, r.id) # {}
  /\ store' = IF server.keeps THEN store
              ELSE {o \in store : /\ o \notin Held(r.resource, r.id)
                                  /\ server.cascades => o.parent # r.id}
  /\ UNCHANGED lastId

Read(r, a) ==
  /\ a = [ok |-> Held(r.resource, r.id) # {}, id |-> 0]
  /\ UNCHANGED <<store, lastId>>

\* A create or a delete may be turned down, whatever the reason.
Refuse(r, a) ==
  /\ r.op # "read"
  /\ a = [ok |-> FALSE, id |-> 0]
  /\ UNCHANGED <<store, lastId>>

\* The server executes r and answers a.
Execute(r, a) ==
  \/ r.op = "create" /\ Create(r, a)
  \/ r.op = "delete" /\ Delete(r, a)
  \/ r.op = "read" /\ Read(r, a)
  \/ Refuse(r, a)

Answers == [ok : BOOLEAN, id : 0..(lastId + 1)]

Serve ==
  /\ \E r \in sent, a \in Answers : Execute(r, a) /\ reply' = {a}
  /\ sent' = {}
  /\ UNCHANGED <<server, late, item, resultVars, results>>

\* Nobody waits for this answer any more.
ServeLate ==
  /\ \E r \in late : /\ \E a \in Answers : Execute(r, a)
                     /\ late' = late \ {r}
  /\ UNCHANGED <<server, sent, reply, item, resultVars, results>>

Restarted == /\ store' = IF server.durable THEN store ELSE Seed
             /\ late' = {}

\* A remote service restarts between two calls.
Restart ==
  /\ server.remote
  /\ sent = {} /\ reply = {}
  /\ Restarted
  /\ UNCHANGED <<server, lastId, sent, reply, item, resultVars, results>>

-----------------------------------------------------------------------------
(***************************************************************************)
(* One call: _call_with_outcome, and what the caller takes from it.        *)
(***************************************************************************)

Idle == sent = {} /\ reply = {}
Last == steps[Len(steps)]
After(role, outcome) ==
  Idle /\ steps # <<>> /\ Last.role = role /\ Last.outcome = outcome

Send(role, op, resource, n, parent) ==
  /\ steps' = Append(steps, [role |-> role, outcome |-> "pending"])
  /\ sent' = {[op |-> op, resource |-> resource, id |-> n, parent |-> parent]}
  /\ UNCHANGED <<serverVars, reply, item, id, childId, stale, readable, results>>

Record(outcome) ==
  steps' = [steps EXCEPT ![Len(steps)] = [role |-> Last.role, outcome |-> outcome]]

\* A response may list the server's objects, oldest first.
Oldest == {o.id : o \in {p \in store : \A q \in store : p.id <= q.id}}

\* extract_id: the created object's id, none that the code can find, or that of
\* the object that comes first.
Extract(a) ==
  /\ \E found \in {0, a.id} \cup (IF server.foreign THEN Oldest ELSE {}) :
       IF Last.role = "create_child"
         THEN childId' = found /\ UNCHANGED id
         ELSE id' = found /\ UNCHANGED childId
  /\ UNCHANGED <<stale, readable>>

\* The two verdicts on the last read of a chain.
Conclude(ok) ==
  /\ stale' = (stale \/ (ok /\ Last.role = "read_after_delete"))
  /\ readable' = IF Last.role # "read_child_after_parent_delete" THEN readable
                 ELSE IF ok THEN "yes" ELSE "no"
  /\ UNCHANGED <<id, childId>>

Answered ==
  /\ \E a \in reply :
       /\ Record(IF a.ok THEN "ok" ELSE "valid_call_errored")
       /\ IF a.ok /\ a.id # 0 THEN Extract(a) ELSE Conclude(a.ok)
  /\ reply' = {}
  /\ UNCHANGED <<serverVars, sent, item, results>>

\* Mutant of Fails: the step of a call that failed keeps no outcome.
FailsUnrecorded ==
  /\ ~Idle
  /\ sent' = {} /\ reply' = {}
  /\ Restarted
  /\ UNCHANGED <<server, lastId, item, resultVars, results>>

\* Mutant of Fails: a call that failed is made again until it succeeds.
FailsRetried ==
  /\ ~Idle
  /\ Restarted
  /\ UNCHANGED <<server, lastId, sent, reply, item, resultVars, results>>

\* Timeout or crash.  The reconnect kills a launched server, and whatever it
\* had in memory; a remote one may have died or may still get to the request.
Fails ==
  /\ ~Idle
  /\ Record("failed")
  /\ Conclude(FALSE)
  /\ sent' = {} /\ reply' = {}
  /\ \/ Restarted
     \/ /\ server.remote
        /\ late' = late \cup {r \in sent : r.op # "read"}
        /\ UNCHANGED store
  /\ UNCHANGED <<server, lastId, item, results>>

-----------------------------------------------------------------------------
(***************************************************************************)
(* _run_sequence_checks: one group after the other.                        *)
(***************************************************************************)
Group  == Groups[item]
AtGroup == Idle /\ item <= Len(Groups)

CallCreate ==
  /\ AtGroup
  /\ steps = <<>>
  /\ Send("create", "create", Group.resource, 0, 0)

Created == AtGroup /\ After("create", "ok") /\ id # 0

CanRead == Created /\ Group.read = "found"

\* Mutant of CanDelete: the outcome of the create call is not looked at.
CanDeleteAnyway == /\ AtGroup /\ steps # <<>> /\ Last.role \in {"create", "read"}
                   /\ Group.delete = "found"

\* Directly after the create where the read tool has no clear parameter.
CanDelete == /\ \/ Created /\ Group.read # "found"
                \/ AtGroup /\ steps # <<>> /\ Last.role = "read"
             /\ Group.delete = "found"

\* Mutant of CanReadAgain: the outcome of the delete call is not looked at.
CanReadAgainAnyway == /\ AtGroup /\ steps # <<>> /\ Last.role = "delete"
                      /\ Group.read = "found"

CanReadAgain == AtGroup /\ After("delete", "ok") /\ Group.read = "found"

CallRead == CanRead /\ Send("read", "read", Group.resource, id, 0)

\* Mutant of CallDelete: the generator's placeholder is not replaced by the id.
CallDeleteSynthetic ==
  CanDelete /\ Send("delete", "delete", Group.resource, 1, 0)

CallDelete == CanDelete /\ Send("delete", "delete", Group.resource, id, 0)

\* Mutant of CallReadAgain: the same slip, with a placeholder that is no id.
CallReadAgainSynthetic ==
  CanReadAgain /\ Send("read_after_delete", "read", Group.resource, 0, 0)

CallReadAgain ==
  CanReadAgain /\ Send("read_after_delete", "read", Group.resource, id, 0)

\* The result is appended on every way out, and the next one starts empty.
Finish ==
  /\ results' = Append(results, [item |-> item, last |-> Last.role,
       answered |-> \A n \in 1..Len(steps) : steps[n].outcome \in Exchanged,
       childId |-> childId, stale |-> stale, readable |-> readable])
  /\ item' = item + 1
  /\ steps' = <<>> /\ id' = 0 /\ childId' = 0 /\ stale' = FALSE /\ readable' = "none"
  /\ UNCHANGED <<serverVars, sent, reply>>

\* Mutant of GroupEnds: a `continue` without the append.
GroupEndsSilently ==
  /\ AtGroup
  /\ steps # <<>>
  /\ ~CanRead /\ ~CanDelete /\ ~CanReadAgain
  /\ item' = item + 1
  /\ steps' = <<>> /\ id' = 0 /\ childId' = 0 /\ stale' = FALSE /\ readable' = "none"
  /\ UNCHANGED <<serverVars, sent, reply, results>>

GroupEnds ==
  /\ AtGroup
  /\ steps # <<>>
  /\ ~CanRead /\ ~CanDelete /\ ~CanReadAgain
  /\ Finish

-----------------------------------------------------------------------------
(***************************************************************************)
(* _run_cross_resource_checks: one pair after the other.                   *)
(***************************************************************************)
Pair == Pairs[item - Len(Groups)]
AtPair == Idle /\ item > Len(Groups) /\ item <= Len(Groups) + Len(Pairs)

CallCreateParent ==
  /\ AtPair
  /\ steps = <<>>
  /\ Send("create_parent", "create", Pair.parent, 0, 0)

CanCreateChild  == AtPair /\ After("create_parent", "ok") /\ id # 0
CanDeleteParent == /\ AtPair /\ After("create_child", "ok") /\ childId # 0
                   /\ Pair.delete = "found"

\* Mutant of CanReadChild: the outcome of the delete call is not looked at.
CanReadChildAnyway == /\ AtPair /\ steps # <<>> /\ Last.role = "delete_parent"
                      /\ Pair.read = "found"

CanReadChild    == AtPair /\ After("delete_parent", "ok") /\ Pair.read = "found"

CallCreateChild ==
  CanCreateChild /\ Send("create_child", "create", Pair.child, 0, id)

CallDeleteParent ==
  CanDeleteParent /\ Send("delete_parent", "delete", Pair.parent, id, 0)

CallReadChild ==
  /\ CanReadChild
  /\ Send("read_child_after_parent_delete", "read", Pair.child, childId, 0)

PairEnds ==
  /\ AtPair
  /\ steps # <<>>
  /\ ~CanCreateChild /\ ~CanDeleteParent /\ ~CanReadChild
  /\ Finish

-----------------------------------------------------------------------------
Done == Idle /\ item = Len(Groups) + Len(Pairs) + 1

Checks ==
  \/ CallCreate \/ CallRead \/ CallDelete \/ CallReadAgain \/ GroupEnds
  \/ CallCreateParent \/ CallCreateChild \/ CallDeleteParent \/ CallReadChild
  \/ PairEnds \/ Answered \/ Fails

Next ==
  \/ Checks
  \/ Serve
  \/ ServeLate
  \/ Restart
  \/ Done /\ UNCHANGED vars

\* The calls come to an end because each has a timeout (Fails).
Spec == Init /\ [][Next]_vars /\ WF_vars(Checks)

-----------------------------------------------------------------------------
(***************************************************************************)
(* Properties.                                                             *)
(***************************************************************************)
Available ==
  IF item <= Len(Groups)
    THEN {"create"} \cup (IF Group.read # "none" THEN {"read"} ELSE {})
                    \cup (IF Group.delete # "none" THEN {"delete"} ELSE {})
    ELSE {"create_parent", "create_child", "delete_parent",
          "read_child_after_parent_delete"}

\* What Engine says of a chain is true of both kinds of it: they call only the
\* roles that may come next and end only where a chain may end.
StepsFollowRoles ==
  [][/\ Len(steps') > Len(steps)
          => steps'[Len(steps')].role \in NextRoles(steps, Available)
     /\ item' # item => "stop" \in NextRoles(steps, Available)]_vars

\* An id that a create's response yields is that of the created object and of no
\* other.  Otherwise the checks can go by the wrong id: with ids given out again, or
\* with a response that lists other objects before the new one (sequence.py:122).
IdsAreTelling == FreshIds /\ ~server.foreign

\* "deliberately conservative": a stale read is only reported of a server that
\* really keeps what it says it deleted, whatever was lost, late or restarted
\* in between.
NoFalseStale == IdsAreTelling /\ ~server.keeps =>
  ~stale /\ \A n \in 1..Len(results) : ~results[n].stale

\* A chain that got answers to all four calls has found out a server that keeps
\* what it deletes, unless a restart did the deleting.
StaleIsCaught == server.keeps /\ server.durable => \A n \in 1..Len(results) :
  results[n].last = "read_after_delete" /\ results[n].answered => results[n].stale

\* A still-readable child is only observed where deletion does not cascade.
NoFalseOrphan ==
  IdsAreTelling /\ server.cascades /\ ~server.keeps => readable # "yes"

\* What the server held before the run is not touched: only ids that came out
\* of a create of this run are deleted.
OnlyOwnDeleted == IdsAreTelling => Seed \subseteq store

\* Every group and every pair has its result, in order, on whatever way out.
AllReported ==
  /\ Len(results) = item - 1
  /\ \A n \in 1..Len(results) :
       /\ results[n].item = n
       /\ results[n].readable # "none"
            <=> results[n].last = "read_child_after_parent_delete"

\* The checks come to an end, whatever the server does not answer.
ChecksEnd == <>Done

\* CrossResourceResult: False "means it reached the read and the child
\* correctly came back unreadable".
FalseMeansUnreadable == IdsAreTelling => \A n \in 1..Len(results) :
  results[n].readable = "no" => \A o \in store : o.id # results[n].childId
=============================================================================
