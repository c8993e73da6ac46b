-------------------------- MODULE LifecycleProofs --------------------------
(***************************************************************************)
(* What the lifecycle checks conclude about a server is true of it, for    *)
(* any groups, pairs and objects there were before, whatever is lost, late *)
(* or restarted in between.                                                *)
(***************************************************************************)
EXTENDS LifecycleChain, SequenceTheorems, TLAPS

GroupRoles  == {"create", "read", "delete", "read_after_delete"}
PairRoles   == {"create_parent", "create_child", "delete_parent",
                "read_child_after_parent_delete"}
CreateRoles == {"create", "create_parent", "create_child"}
DeleteRoles == {"delete", "delete_parent"}

\* The request that goes with a role, as far as it matters.
RequestOf(role) ==
  [op |-> IF role \in CreateRoles THEN "create"
          ELSE IF role \in DeleteRoles THEN "delete" ELSE "read",
   resource |-> IF role \in GroupRoles THEN Group.resource
                ELSE IF role \in {"create_parent", "delete_parent"} THEN Pair.parent
                ELSE Pair.child,
   id |-> IF role \in CreateRoles THEN 0
          ELSE IF role = "read_child_after_parent_delete" THEN childId ELSE id,
   parent |-> IF role = "create_child" THEN id ELSE 0]

\* There is one call at a time, only its step is pending, and it is the call
\* that goes with its role.
OneCall ==
  /\ sent = {} \/ reply = {}
  /\ \A n \in 1..Len(steps) : steps[n].outcome = "pending" => n = Len(steps)
  /\ ~Idle => steps # <<>> /\ Last.outcome = "pending"
  /\ \A r \in sent : r = RequestOf(Last.role)
  /\ \A a \in reply : a.id # 0 => a.ok /\ Last.role \in CreateRoles

\* A chain is one of a group or of a pair, and ends before the next begins.
Shape ==
  /\ steps # <<>> => /\ item <= Len(Groups) + Len(Pairs)
                     /\ Last.role \in IF item <= Len(Groups) THEN GroupRoles ELSE PairRoles
                     /\ Last.role \notin {"create", "create_parent"} => id # 0
                     /\ Last.role \in {"delete_parent", "read_child_after_parent_delete"}
                          => childId # 0
  /\ steps = <<>> => id = 0 /\ childId = 0 /\ ~stale /\ readable = "none"

SInv == TypeOK /\ OneCall /\ Shape

-----------------------------------------------------------------------------
(***************************************************************************)
(* What the actions do to the steps of a chain.                            *)
(***************************************************************************)

\* Sending appends one pending step and changes none of those before it.
LEMMA SendSteps ==
  ASSUME SInv, NEW role \in Roles, NEW op, NEW resource, NEW n, NEW parent,
         Send(role, op, resource, n, parent)
  PROVE  /\ steps' \in Seq(SeqSteps)
         /\ Len(steps') = Len(steps) + 1
         /\ Len(steps) \in Nat
         /\ \A k \in 1..Len(steps) : steps'[k] = steps[k]
         /\ steps' # <<>>
         /\ Last' = [role |-> role, outcome |-> "pending"]
  <1> DEFINE e == [role |-> role, outcome |-> "pending"]
  <1>1. e \in SeqSteps
    BY DEF SeqSteps
  <1>2. steps \in Seq(SeqSteps) /\ steps' = Append(steps, e)
    BY DEF SInv, TypeOK, Send
  <1> HIDE DEF e
  <1>3. /\ steps' \in Seq(SeqSteps) /\ Len(steps') = Len(steps) + 1 /\ Len(steps) \in Nat
        /\ \A k \in 1..Len(steps) : steps'[k] = steps[k]
        /\ steps' # <<>> /\ steps'[Len(steps) + 1] = e
    BY <1>1, <1>2, AppendProperties, LenProperties
  <1> QED BY <1>3 DEF e, Last

\* The last step is one of the steps.
LEMMA LastStep ==
  ASSUME SInv, steps # <<>>
  PROVE  Len(steps) \in 1..Len(steps) /\ Last \in SeqSteps
  <1>1. Len(steps) \in Nat \ {0}
    BY EmptySeq DEF SInv, TypeOK
  <1> QED BY <1>1, ElementOfSeq DEF SInv, TypeOK, Last

\* Recording an outcome changes the last step's outcome and nothing else of the
\* steps.
LEMMA RecordSteps ==
  ASSUME SInv, steps # <<>>, Record("ok") \/ Record("valid_call_errored") \/ Record("failed")
  PROVE  /\ steps' \in Seq(SeqSteps)
         /\ Len(steps') = Len(steps)
         /\ steps' # <<>>
         /\ \A k \in 1..Len(steps) : steps'[k].role = steps[k].role
         /\ \A k \in 1..Len(steps) : k # Len(steps) => steps'[k] = steps[k]
         /\ Last'.role = Last.role
         /\ \A o \in {"ok", "valid_call_errored", "failed"} : Record(o) => Last'.outcome = o
         /\ Last'.outcome # "pending"
  <1>1. PICK o \in {"ok", "valid_call_errored", "failed"} : Record(o)
    OBVIOUS
  <1> DEFINE e == [role |-> Last.role, outcome |-> o]
  <1>2. e \in SeqSteps /\ Len(steps) \in 1..Len(steps) /\ steps \in Seq(SeqSteps)
    BY LastStep DEF SeqSteps, Exchanged, SInv, TypeOK
  <1>3. steps' = [steps EXCEPT ![Len(steps)] = e]
    BY <1>1 DEF Record
  <1> HIDE DEF e
  <1>4. /\ steps' \in Seq(SeqSteps) /\ Len(steps') = Len(steps)
        /\ \A k \in 1..Len(steps) : steps'[k] = IF k = Len(steps) THEN e ELSE steps[k]
    BY <1>2, <1>3, ExceptSeq
  <1>5. steps' # <<>> /\ Last' = e
    BY <1>2, <1>4, EmptySeq DEF Last
  <1>6. \A k \in 1..Len(steps) : steps'[k].role = steps[k].role
    BY <1>2, <1>4 DEF e, Last
  <1>7. \A q \in {"ok", "valid_call_errored", "failed"} : Record(q) => Last'.outcome = q
    <2> SUFFICES ASSUME NEW q \in {"ok", "valid_call_errored", "failed"}, Record(q)
                 PROVE  Last'.outcome = q
      OBVIOUS
    <2>1. steps' = [steps EXCEPT ![Len(steps)] = [role |-> Last.role, outcome |-> q]]
      BY DEF Record
    <2>2. steps'[Len(steps)] = [role |-> Last.role, outcome |-> q]
      BY <1>2, <2>1
    <2> QED BY <1>4, <2>2 DEF Last
  <1> QED BY <1>4, <1>5, <1>6, <1>7 DEF e

-----------------------------------------------------------------------------
(***************************************************************************)
(* The calls: which role sends what, and when.                             *)
(***************************************************************************)

\* Some step of the checks that makes a call.
Sends == \/ CallCreate \/ CallRead \/ CallDelete \/ CallReadAgain
         \/ CallCreateParent \/ CallCreateChild \/ CallDeleteParent \/ CallReadChild

\* The group the checks are at is one of the groups.
LEMMA GroupTypes ==
  ASSUME TypeOK, item <= Len(Groups)
  PROVE  Group \in [resource : Resources, read : Tooling, delete : Tooling]
  <1>1. item \in 1..Len(Groups)
    BY DEF TypeOK
  <1> QED BY <1>1, ChainAssumption, ElementOfSeq DEF Group

\* The pair the checks are at is one of the pairs.
LEMMA PairTypes ==
  ASSUME TypeOK, item > Len(Groups), item <= Len(Groups) + Len(Pairs)
  PROVE  Pair \in [parent : Resources, child : Resources,
                   delete : Tooling \ {"none"}, read : Tooling \ {"none"}]
  <1>1. Len(Groups) \in Nat /\ Len(Pairs) \in Nat
    BY ChainAssumption, LenProperties
  <1>2. item - Len(Groups) \in 1..Len(Pairs)
    BY <1>1 DEF TypeOK
  <1> QED BY <1>2, ChainAssumption, ElementOfSeq DEF Pair

\* A call is made between two calls, in a role of the item at hand, and with
\* the ids that go with it.
SentAs(role) ==
  /\ Send(role, RequestOf(role).op, RequestOf(role).resource,
          RequestOf(role).id, RequestOf(role).parent)
  /\ RequestOf(role) \in Requests
  /\ role \notin {"create", "create_parent"} => id # 0
  /\ role \in {"delete_parent", "read_child_after_parent_delete"} => childId # 0
  /\ steps = <<>> <=> role \in {"create", "create_parent"}
  /\ role = "read_after_delete" => After("delete", "ok")
  /\ role = "read_child_after_parent_delete" => After("delete_parent", "ok")

\* Each of the eight calls is made between calls, in one of its chain's roles.
LEMMA SendFacts ==
  ASSUME SInv, Sends
  PROVE  /\ Idle
         /\ item <= Len(Groups) + Len(Pairs)
         /\ \E role \in IF item <= Len(Groups) THEN GroupRoles ELSE PairRoles : SentAs(role)
  <1>1. /\ item \in Nat /\ Len(Groups) \in Nat /\ Len(Pairs) \in Nat
        /\ id \in Nat /\ childId \in Nat
    BY ChainAssumption, LenProperties DEF SInv, TypeOK
  <1>2. CASE AtGroup
    <2>1. Group.resource \in Resources
      BY <1>2, GroupTypes DEF SInv, AtGroup
    <2>2. \A role \in GroupRoles : RequestOf(role) \in Requests
      BY <1>1, <2>1 DEF RequestOf, Requests, GroupRoles, CreateRoles, DeleteRoles
    <2> USE DEF RequestOf, CreateRoles, DeleteRoles, GroupRoles, SentAs, Created, After, AtGroup
    <2>3. CASE CallCreate
      <3>1. SentAs("create")
        BY <2>2, <2>3 DEF CallCreate
      <3> QED BY <1>1, <1>2, <3>1
    <2>4. CASE CallRead
      <3>1. SentAs("read")
        BY <2>2, <2>4 DEF CallRead, CanRead
      <3> QED BY <1>1, <1>2, <3>1
    <2>5. CASE CallDelete
      <3>1. SentAs("delete")
        BY <2>2, <2>5 DEF CallDelete, CanDelete, SInv, Shape
      <3> QED BY <1>1, <1>2, <3>1
    <2>6. CASE CallReadAgain
      <3>1. SentAs("read_after_delete")
        BY <2>2, <2>6 DEF CallReadAgain, CanReadAgain, SInv, Shape
      <3> QED BY <1>1, <1>2, <3>1
    <2>7. ~AtPair
      BY <1>1, <1>2 DEF AtPair
    <2> QED BY <1>2, <2>3, <2>4, <2>5, <2>6, <2>7
        DEF Sends, CallCreateParent, CallCreateChild, CanCreateChild, CallDeleteParent,
            CanDeleteParent, CallReadChild, CanReadChild
  <1>3. CASE AtPair
    <2>1. Pair.parent \in Resources /\ Pair.child \in Resources
      BY <1>3, PairTypes DEF SInv, AtPair
    <2>2. \A role \in PairRoles : RequestOf(role) \in Requests
      BY <1>1, <2>1 DEF RequestOf, Requests, PairRoles, GroupRoles, CreateRoles, DeleteRoles
    <2>3. Idle /\ item <= Len(Groups) + Len(Pairs) /\ ~(item <= Len(Groups))
      BY <1>1, <1>3 DEF AtPair
    <2> USE DEF RequestOf, CreateRoles, DeleteRoles, GroupRoles, PairRoles, SentAs, After, AtPair
    <2>4. CASE CallCreateParent
      <3>1. SentAs("create_parent")
        BY <2>2, <2>4 DEF CallCreateParent
      <3> HIDE DEF SentAs
      <3> QED BY <2>3, <3>1
    <2>5. CASE CallCreateChild
      <3>1. SentAs("create_child")
        BY <2>2, <2>5 DEF CallCreateChild, CanCreateChild
      <3> HIDE DEF SentAs
      <3> QED BY <2>3, <3>1
    <2>6. CASE CallDeleteParent
      <3>1. SentAs("delete_parent")
        BY <2>2, <2>6 DEF CallDeleteParent, CanDeleteParent, SInv, Shape
      <3> HIDE DEF SentAs
      <3> QED BY <2>3, <3>1
    <2>7. CASE CallReadChild
      <3>1. SentAs("read_child_after_parent_delete")
        BY <2>2, <2>7 DEF CallReadChild, CanReadChild, SInv, Shape
      <3> HIDE DEF SentAs
      <3> QED BY <2>3, <3>1
    <2>8. ~AtGroup
      BY <1>1, <1>3 DEF AtGroup
    <2> QED BY <1>3, <2>4, <2>5, <2>6, <2>7, <2>8
        DEF Sends, CallCreate, CallRead, CanRead, Created, CallDelete, CanDelete,
            CallReadAgain, CanReadAgain
  <1> QED BY <1>2, <1>3
      DEF Sends, CallCreate, CallRead, CanRead, Created, CallDelete, CanDelete,
          CallReadAgain, CanReadAgain, CallCreateParent, CallCreateChild, CanCreateChild,
          CallDeleteParent, CanDeleteParent, CallReadChild, CanReadChild

-----------------------------------------------------------------------------
(***************************************************************************)
(* Types and shapes are kept.                                              *)
(***************************************************************************)

Finishes == GroupEnds \/ PairEnds

\* The steps of the system, by what they do to the chain.
LEMMA NextCases ==
  [Next]_vars => \/ Sends \/ Serve \/ ServeLate \/ Restart \/ Answered \/ Fails
                 \/ Finishes \/ UNCHANGED vars
  BY DEF Next, Checks, Sends, Finishes

\* Before the first chain there are no steps.
LEMMA SInvInit == Init => SInv
  <1> SUFFICES ASSUME Init PROVE SInv
    OBVIOUS
  <1>1. /\ steps \in Seq(SeqSteps) /\ results \in Seq(Results) /\ Len(steps) = 0
    BY EmptySeq DEF Init
  <1>2. Len(Groups) \in Nat /\ Len(Pairs) \in Nat
    BY ChainAssumption, LenProperties
  <1>3. late \subseteq Requests /\ sent \subseteq Requests /\ reply \subseteq Replies
    BY DEF Init, Requests
  <1>4. TypeOK
    <2>1. /\ server \in ServerKinds /\ store = Seed /\ lastId = SeedId
          /\ sent = {} /\ reply = {} /\ item = 1
          /\ id = 0 /\ childId = 0 /\ stale = FALSE /\ readable = "none"
      BY ChainAssumption DEF Init
    <2>2. item \in 1..(Len(Groups) + Len(Pairs) + 1)
      BY <1>2, <2>1
    <2>3. \A n \in 1..Len(steps) : steps[n].outcome # "pending"
      BY <1>1
    <2>4. store \subseteq Objects /\ lastId \in Nat
      BY <2>1, ChainAssumption
    <2>5. id \in Nat /\ childId \in Nat /\ stale \in BOOLEAN /\ readable \in {"none", "yes", "no"}
      BY <2>1
    <2> QED BY <1>1, <1>3, <2>1, <2>2, <2>3, <2>4, <2>5 DEF TypeOK
  <1>5. OneCall /\ Shape
    BY <1>1 DEF Init, OneCall, Shape, Idle
  <1> QED BY <1>4, <1>5 DEF SInv

\* The request sent is the one of the new step's role.
LEMMA SendsS == ASSUME SInv, Sends PROVE SInv'
  <1>1. PICK role \in IF item <= Len(Groups) THEN GroupRoles ELSE PairRoles : SentAs(role)
    BY SendFacts
  <1>2. Idle /\ item <= Len(Groups) + Len(Pairs) /\ role \in Roles
    BY SendFacts DEF GroupRoles, PairRoles, Roles
  <1>3. /\ steps' \in Seq(SeqSteps) /\ Len(steps') = Len(steps) + 1 /\ Len(steps) \in Nat
        /\ \A k \in 1..Len(steps) : steps'[k] = steps[k]
        /\ steps' # <<>> /\ Last' = [role |-> role, outcome |-> "pending"]
    BY <1>1, <1>2, SendSteps DEF SentAs
  <1>4. /\ sent' = {RequestOf(role)} /\ RequestOf(role) \in Requests
        /\ UNCHANGED <<serverVars, reply, item, id, childId, stale, readable, results>>
        /\ RequestOf(role)' = RequestOf(role)
    BY <1>1 DEF SentAs, Send, RequestOf, Group, Pair, Requests
  <1>5. \A k \in 1..Len(steps) : steps[k].outcome # "pending"
    BY <1>2 DEF SInv, TypeOK, Idle
  <1>6. steps'[Len(steps')].outcome = "pending" /\ Len(steps') \in 1..Len(steps')
    BY <1>3 DEF Last
  <1>7. TypeOK'
    BY <1>3, <1>4, <1>6 DEF SInv, TypeOK, serverVars
  <1>8. OneCall'
    BY <1>2, <1>3, <1>4, <1>5 DEF OneCall, Idle
  <1>9. Shape'
    BY <1>1, <1>2, <1>3, <1>4 DEF SInv, Shape, SentAs
  <1> QED BY <1>7, <1>8, <1>9 DEF SInv

\* What executing a request leaves of the store and of the ids.
LEMMA ExecuteTypes ==
  ASSUME TypeOK, NEW r \in Requests, NEW a \in Answers, Execute(r, a)
  PROVE  /\ store' \subseteq Objects /\ lastId' \in Nat /\ a \in Replies
         /\ a.id # 0 => a.ok /\ r.op = "create"
  <1>1. a \in Replies
    BY DEF Answers, Replies, TypeOK
  <1>2. CASE r.op = "create" /\ Create(r, a)
    <2>1. a.id \in Nat \ {0}
      BY <1>2 DEF Create, TypeOK
    <2> DEFINE new == [resource |-> r.resource, id |-> a.id, parent |-> r.parent]
    <2>2. new \in Objects
      BY <2>1 DEF Objects, Requests
    <2>3. store' = (store \ Held(r.resource, a.id)) \cup {new}
      BY <1>2 DEF Create
    <2>4. lastId' \in Nat
      BY <1>2, <2>1 DEF Create, TypeOK
    <2> QED BY <1>1, <1>2, <2>2, <2>3, <2>4 DEF TypeOK, Create
  <1>3. CASE Delete(r, a)
    BY <1>1, <1>3 DEF Delete, TypeOK
  <1>4. CASE Read(r, a) \/ Refuse(r, a)
    BY <1>1, <1>4 DEF Read, Refuse, TypeOK
  <1> QED BY <1>2, <1>3, <1>4 DEF Execute

\* The request gives way to its answer.
LEMMA ServeS == ASSUME SInv, Serve PROVE SInv'
  <1>1. PICK r \in sent, a \in Answers : Execute(r, a) /\ reply' = {a}
    BY DEF Serve
  <1>2. r \in Requests /\ r = RequestOf(Last.role)
    BY DEF SInv, TypeOK, OneCall
  <1>3. /\ store' \subseteq Objects /\ lastId' \in Nat /\ a \in Replies
        /\ a.id # 0 => a.ok /\ r.op = "create"
    BY <1>1, <1>2, ExecuteTypes DEF SInv
  <1>4. a.id # 0 => Last.role \in CreateRoles
    BY <1>2, <1>3 DEF RequestOf
  <1>5. sent' = {} /\ UNCHANGED <<server, late, item, resultVars, results>> /\ Last' = Last
    BY DEF Serve, resultVars, Last
  <1>6. ~Idle
    BY DEF Idle
  <1>7. TypeOK'
    BY <1>1, <1>3, <1>5, <1>6 DEF SInv, TypeOK, resultVars, Idle
  <1>8. OneCall' /\ Shape'
    BY <1>1, <1>3, <1>4, <1>5, <1>6 DEF SInv, OneCall, Shape, resultVars, Idle
  <1> QED BY <1>7, <1>8 DEF SInv

\* A late request has no answer and no step.
LEMMA ServeLateS == ASSUME SInv, ServeLate PROVE SInv'
  <1>1. PICK r \in late, a \in Answers : Execute(r, a)
    BY DEF ServeLate
  <1>2. store' \subseteq Objects /\ lastId' \in Nat
    BY <1>1, ExecuteTypes DEF SInv, TypeOK
  <1>3. /\ late' \subseteq late
        /\ UNCHANGED <<server, sent, reply, item, resultVars, results>> /\ Last' = Last
    BY DEF ServeLate, resultVars, Last
  <1> QED BY <1>2, <1>3 DEF SInv, TypeOK, OneCall, Shape, Idle, resultVars,
        RequestOf, Group, Pair

\* A restart touches no call.
LEMMA RestartS == ASSUME SInv, Restart PROVE SInv'
  BY ChainAssumption
  DEF SInv, Restart, Restarted, TypeOK, OneCall, Shape, Idle, resultVars, Last,
      RequestOf, Group, Pair

\* The end of a call: its step gets its outcome, and nothing is in flight.
LEMMA RecordedS ==
  ASSUME SInv, ~Idle, sent' = {}, reply' = {},
         Record("ok") \/ Record("valid_call_errored") \/ Record("failed"),
         UNCHANGED item
  PROVE  /\ steps' \in Seq(SeqSteps) /\ OneCall' /\ Idle'
         /\ \A n \in 1..Len(steps') : steps'[n].outcome # "pending"
         /\ steps # <<>> /\ steps' # <<>> /\ Last'.role = Last.role
  <1>1. steps # <<>>
    BY DEF SInv, OneCall
  <1>2. /\ steps' \in Seq(SeqSteps) /\ Len(steps') = Len(steps) /\ steps' # <<>>
        /\ \A k \in 1..Len(steps) : k # Len(steps) => steps'[k] = steps[k]
        /\ Last'.role = Last.role /\ Last'.outcome # "pending"
    BY <1>1, RecordSteps
  <1>3. \A n \in 1..Len(steps') : steps'[n].outcome # "pending"
    BY <1>2 DEF SInv, OneCall, Last
  <1> QED BY <1>1, <1>2, <1>3 DEF OneCall, Idle

\* The last step gets its outcome and nothing is pending.
LEMMA AnsweredS == ASSUME SInv, Answered PROVE SInv'
  <1>1. PICK a \in reply :
          /\ Record(IF a.ok THEN "ok" ELSE "valid_call_errored")
          /\ IF a.ok /\ a.id # 0 THEN Extract(a) ELSE Conclude(a.ok)
    BY DEF Answered
  <1>2. /\ ~Idle /\ sent = {} /\ a \in Replies
        /\ a.id # 0 => Last.role \in CreateRoles
    BY DEF SInv, OneCall, Idle, TypeOK
  <1>3. /\ sent' = {} /\ reply' = {} /\ UNCHANGED <<serverVars, item, results>>
    BY <1>2 DEF Answered
  <1>4. /\ steps' \in Seq(SeqSteps) /\ OneCall' /\ Idle'
        /\ \A n \in 1..Len(steps') : steps'[n].outcome # "pending"
        /\ steps # <<>> /\ steps' # <<>> /\ Last'.role = Last.role
    BY <1>1, <1>2, <1>3, RecordedS
  <1>5. /\ id' \in Nat /\ childId' \in Nat /\ stale' \in BOOLEAN
        /\ readable' \in {"none", "yes", "no"}
        /\ Last.role \notin {"create", "create_parent"} => id' = id
        /\ Last.role # "create_child" => childId' = childId
    BY <1>1, <1>2 DEF Extract, Oldest, Objects, Conclude, SInv, TypeOK, Replies, CreateRoles
  <1>6. TypeOK'
    BY <1>3, <1>4, <1>5 DEF SInv, TypeOK, serverVars, Idle
  <1>7. Shape'
    BY <1>3, <1>4, <1>5 DEF SInv, Shape
  <1> QED BY <1>4, <1>6, <1>7 DEF SInv

\* The same without an answer.
LEMMA FailsS == ASSUME SInv, Fails PROVE SInv'
  <1>1. /\ ~Idle /\ sent' = {} /\ reply' = {} /\ UNCHANGED <<server, lastId, item, results>>
        /\ Record("failed") /\ Conclude(FALSE)
    BY DEF Fails
  <1>2. /\ steps' \in Seq(SeqSteps) /\ OneCall' /\ Idle'
        /\ \A n \in 1..Len(steps') : steps'[n].outcome # "pending"
        /\ steps # <<>> /\ steps' # <<>> /\ Last'.role = Last.role
    BY <1>1, RecordedS
  <1>3. store' \subseteq Objects /\ late' \subseteq Requests
    BY ChainAssumption DEF Fails, Restarted, SInv, TypeOK
  <1>4. TypeOK'
    BY <1>1, <1>2, <1>3 DEF SInv, TypeOK, Conclude, Idle
  <1>5. Shape'
    BY <1>1, <1>2 DEF SInv, Shape, Conclude
  <1> QED BY <1>2, <1>4, <1>5 DEF SInv

\* The entry of a finished chain.
Entry == [item |-> item, last |-> Last.role,
          answered |-> \A n \in 1..Len(steps) : steps[n].outcome \in Exchanged,
          childId |-> childId, stale |-> stale, readable |-> readable]

\* A chain that ends appends its result and changes no other.
LEMMA FinishFacts ==
  ASSUME SInv, Finishes
  PROVE  /\ Idle /\ steps # <<>> /\ item <= Len(Groups) + Len(Pairs)
         /\ Finish /\ Entry \in Results
         /\ results' \in Seq(Results) /\ Len(results') = Len(results) + 1
         /\ Len(results) \in Nat
         /\ \A n \in 1..Len(results) : results'[n] = results[n]
         /\ results'[Len(results) + 1] = Entry
  <1>1. Idle /\ steps # <<>> /\ item <= Len(Groups) + Len(Pairs) /\ Finish
    BY DEF Finishes, GroupEnds, PairEnds, AtGroup, AtPair, SInv, Shape
  <1>2. Entry \in Results
    BY <1>1, LastStep DEF Entry, Results, SInv, TypeOK, SeqSteps
  <1>3. results \in Seq(Results) /\ results' = Append(results, Entry)
    BY <1>1 DEF Finish, Entry, SInv, TypeOK
  <1> HIDE DEF Entry
  <1> QED BY <1>1, <1>2, <1>3, AppendProperties, LenProperties

\* The next chain starts without steps.
LEMMA FinishS == ASSUME SInv, Finishes PROVE SInv'
  <1>1. /\ Idle /\ item <= Len(Groups) + Len(Pairs) /\ Finish
        /\ results' \in Seq(Results)
    BY FinishFacts
  <1>2. Len(Groups) \in Nat /\ Len(Pairs) \in Nat
    BY ChainAssumption, LenProperties
  <1>3. steps' \in Seq(SeqSteps) /\ Len(steps') = 0
    BY <1>1, EmptySeq DEF Finish
  <1>4. item' \in 1..(Len(Groups) + Len(Pairs) + 1)
    BY <1>1, <1>2 DEF Finish, SInv, TypeOK
  <1>5. /\ steps' = <<>> /\ id' = 0 /\ childId' = 0 /\ stale' = FALSE /\ readable' = "none"
        /\ UNCHANGED <<serverVars, sent, reply>> /\ Idle'
    BY <1>1 DEF Finish, Idle
  <1>6. TypeOK'
    <2>1. /\ id' = 0 /\ childId' = 0 /\ stale' = FALSE /\ readable' = "none"
          /\ UNCHANGED <<server, store, lastId, late, sent, reply>> /\ Idle'
      BY <1>5 DEF serverVars
    <2>2. \A n \in 1..Len(steps') : steps'[n].outcome # "pending"
      BY <1>3
    <2>3. /\ id' \in Nat /\ childId' \in Nat
          /\ stale' \in BOOLEAN /\ readable' \in {"none", "yes", "no"}
      BY <2>1
    <2> QED BY <1>1, <1>3, <1>4, <2>1, <2>2, <2>3 DEF SInv, TypeOK, Idle
  <1>7. OneCall' /\ Shape'
    BY <1>3, <1>5 DEF OneCall, Shape, Idle
  <1> QED BY <1>6, <1>7 DEF SInv

\* Every step.
LEMMA SInvNext == ASSUME SInv, [Next]_vars PROVE SInv'
  <1>1. ASSUME UNCHANGED vars PROVE SInv'
    BY <1>1 DEF vars, serverVars, resultVars, SInv, TypeOK, OneCall, Shape, Idle, Last,
       RequestOf, Group, Pair
  <1> QED BY <1>1, NextCases, SendsS, ServeS, ServeLateS, RestartS, AnsweredS, FailsS, FinishS

\* There is never more than one call, and it is the pending last step, for any
\* groups, pairs and servers.
THEOREM ShapeInvariant == Spec => []SInv
  BY SInvInit, SInvNext, PTL DEF Spec

\* Every variable keeps to the values the code and the server can give it.
THEOREM ChainTypes == Spec => []TypeOK
  <1>1. SInv => TypeOK
    BY DEF SInv
  <1> QED BY <1>1, ShapeInvariant, PTL

-----------------------------------------------------------------------------
(***************************************************************************)
(* Every item gets its result.                                             *)
(***************************************************************************)

ReadChild == "read_child_after_parent_delete"

ReportInv ==
  /\ AllReported
  /\ readable # "none" <=> steps # <<>> /\ Last.role = ReadChild /\ Last.outcome # "pending"

\* Every step; a chain is left by Finish only.
LEMMA ReportNext == ASSUME SInv, ReportInv, [Next]_vars PROVE ReportInv'
  <1> USE DEF ReportInv, AllReported
  <1>1. CASE Sends
    <2>1. PICK role \in IF item <= Len(Groups) THEN GroupRoles ELSE PairRoles : SentAs(role)
      BY <1>1, SendFacts
    <2>2. role \in Roles
      BY DEF GroupRoles, PairRoles, Roles
    <2>4. Last' = [role |-> role, outcome |-> "pending"]
      BY <2>1, <2>2, SendSteps DEF SentAs
    <2>5. UNCHANGED <<item, results, readable>>
      BY <2>1 DEF SentAs, Send
    <2>3. readable = "none"
      <3>1. CASE steps = <<>>
        BY <3>1 DEF SInv, Shape
      <3>2. CASE steps # <<>> /\ Last.role = ReadChild
        <4>1. item > Len(Groups)
          BY <3>2, ChainAssumption DEF SInv, Shape, TypeOK, GroupRoles, ReadChild
        <4> QED BY <1>1, <3>2, <4>1, ChainAssumption
            DEF Sends, CallCreate, CallRead, CanRead, Created, CallDelete, CanDelete,
                CallReadAgain, CanReadAgain, CallCreateParent, CallCreateChild,
                CanCreateChild, CallDeleteParent, CanDeleteParent, CallReadChild,
                CanReadChild, After, AtGroup, ReadChild, SInv, TypeOK
      <3> QED BY <3>1, <3>2
    <2> QED BY <2>3, <2>4, <2>5
  <1>2. CASE Serve \/ ServeLate \/ Restart \/ UNCHANGED vars
    BY <1>2 DEF Serve, ServeLate, Restart, vars, resultVars, Last
  <1>3. CASE Answered
    <2>1. PICK a \in reply :
            /\ Record(IF a.ok THEN "ok" ELSE "valid_call_errored")
            /\ IF a.ok /\ a.id # 0 THEN Extract(a) ELSE Conclude(a.ok)
      BY <1>3 DEF Answered
    <2>2. steps # <<>> /\ Last.outcome = "pending"
          /\ (a.id # 0 => Last.role \in CreateRoles)
      BY DEF SInv, OneCall, Idle
    <2>3. steps' # <<>> /\ Last'.role = Last.role /\ Last'.outcome # "pending"
      BY <2>1, <2>2, RecordSteps
    <2>4. UNCHANGED <<item, results>>
      BY <1>3 DEF Answered
    <2>5. readable = "none"
      BY <2>2
    <2>6. readable' # "none" <=> Last.role = ReadChild
      BY <2>1, <2>2, <2>5 DEF Extract, Conclude, CreateRoles, ReadChild
    <2> QED BY <2>3, <2>4, <2>6
  <1>4. CASE Fails
    <2>1. steps # <<>> /\ Last.outcome = "pending"
      BY <1>4 DEF Fails, SInv, OneCall
    <2>2. steps' # <<>> /\ Last'.role = Last.role /\ Last'.outcome # "pending"
      BY <1>4, <2>1, RecordSteps DEF Fails
    <2> QED BY <1>4, <2>1, <2>2 DEF Fails, Conclude, ReadChild
  <1>5. CASE Finishes
    <2>1. /\ Idle /\ steps # <<>> /\ Finish
          /\ Len(results') = Len(results) + 1 /\ Len(results) \in Nat
          /\ \A n \in 1..Len(results) : results'[n] = results[n]
          /\ results'[Len(results) + 1] = Entry
      BY <1>5, FinishFacts
    <2>2. Last.outcome # "pending"
      BY <2>1, LastStep DEF SInv, TypeOK, Idle, Last
    <2>3. /\ Entry.item = item /\ Entry.last = Last.role /\ Entry.readable = readable
      BY DEF Entry
    <2>4. Len(results) = item - 1 /\ item \in Nat
      BY DEF SInv, TypeOK
    <2>5. Len(results') = item' - 1 /\ steps' = <<>> /\ readable' = "none"
      BY <2>1, <2>4 DEF Finish
    <2>6. \A n \in 1..Len(results') :
            /\ results'[n].item = n
            /\ results'[n].readable # "none" <=> results'[n].last = ReadChild
      BY <2>1, <2>2, <2>3, <2>4 DEF ReadChild
    <2> QED BY <2>5, <2>6 DEF ReadChild
  <1> QED BY <1>1, <1>2, <1>3, <1>4, <1>5, NextCases

\* Every group and every pair has its result, in order and once, whatever way
\* its chain ends; and a verdict on a child is there if and only if it was read.
THEOREM EveryItemReported == Spec => []AllReported
  <1>1. Init => ReportInv
    BY EmptySeq DEF Init, ReportInv, AllReported
  <1>2. SInv /\ ReportInv /\ [Next]_vars => ReportInv'
    BY ReportNext
  <1>3. ReportInv => AllReported
    BY DEF ReportInv
  <1> QED BY <1>1, <1>2, <1>3, ShapeInvariant, PTL DEF Spec

-----------------------------------------------------------------------------
(***************************************************************************)
(* The server executing a request.                                         *)
(***************************************************************************)

\* Where delete does not delete, nothing is ever lost but by a restart.
LEMMA ExecuteKeeps ==
  ASSUME TypeOK, NEW r \in Requests, NEW a \in Answers, Execute(r, a)
  PROVE  /\ a.id # 0 => Held(r.resource, a.id)' # {}
         /\ server.keeps => \A x, n : Held(x, n) # {} => Held(x, n)' # {}
         /\ r.op = "read" => (a.ok <=> Held(r.resource, r.id) # {}) /\ UNCHANGED store
  <1>1. CASE r.op = "create" /\ Create(r, a)
    <2> DEFINE new == [resource |-> r.resource, id |-> a.id, parent |-> r.parent]
    <2>1. store' = (store \ Held(r.resource, a.id)) \cup {new}
      BY <1>1 DEF Create
    <2>2. new \in store' /\ new.resource = r.resource /\ new.id = a.id
      BY <2>1
    <2> HIDE DEF new
    <2>3. ASSUME NEW x, NEW n, Held(x, n) # {} PROVE Held(x, n)' # {}
      <3>1. PICK o \in store : o.resource = x /\ o.id = n
        BY <2>3 DEF Held
      <3>2. o \in store' \/ (x = r.resource /\ n = a.id)
        BY <2>1, <3>1 DEF Held
      <3> QED BY <2>2, <3>1, <3>2 DEF Held
    <2>4. Held(r.resource, a.id)' # {}
      BY <2>2 DEF Held
    <2> QED BY <1>1, <2>3, <2>4
  <1>2. CASE r.op = "delete" /\ Delete(r, a)
    <2>1. a.id = 0 /\ (server.keeps => store' = store)
      BY <1>2 DEF Delete
    <2>2. server.keeps => \A x, n : Held(x, n)' = Held(x, n)
      BY <2>1 DEF Held
    <2> QED BY <1>2, <2>1, <2>2
  <1>3. CASE (r.op = "read" /\ Read(r, a)) \/ Refuse(r, a)
    <2>1. a.id = 0 /\ store' = store
      BY <1>3 DEF Read, Refuse
    <2>2. \A x, n : Held(x, n)' = Held(x, n)
      BY <2>1 DEF Held
    <2>3. r.op = "read" => (a.ok <=> Held(r.resource, r.id) # {})
      <3> SUFFICES ASSUME r.op = "read" PROVE a.ok <=> Held(r.resource, r.id) # {}
        OBVIOUS
      <3> DEFINE there == Held(r.resource, r.id) # {}
      <3>1. a = [ok |-> there, id |-> 0]
        BY <1>3 DEF Read, Refuse
      <3> HIDE DEF there
      <3>2. a.ok = there
        BY <3>1
      <3> QED BY <3>2 DEF there
    <2> QED BY <2>1, <2>2, <2>3
  <1> QED BY <1>1, <1>2, <1>3 DEF Execute

\* Ids that came out of a create of this run.
Own(n) == SeedId < n /\ n <= lastId

\* A server does not change its kind.
LEMMA ServerStays == ASSUME [Next]_vars PROVE server' = server
  BY DEF Next, Checks, Send, CallCreate, CallRead, CallDelete, CallReadAgain, GroupEnds,
     CallCreateParent, CallCreateChild, CallDeleteParent, CallReadChild, PairEnds, Finish,
     Answered, Fails, Serve, ServeLate, Restart, vars, serverVars

\* Nothing of what was there before is touched.
OwnInv == ~server.foreign =>
  /\ SeedId <= lastId /\ Seed \subseteq store
  /\ \A o \in store : o.id <= lastId
  /\ id # 0 => Own(id)
  /\ childId # 0 => Own(childId)
  /\ \A r \in late : r.op = "delete" => r.id > SeedId
  /\ \A a \in reply : a.id # 0 => Own(a.id)

\* Where no id is given out twice, execution adds nothing under an old id.
LEMMA ExecuteFresh ==
  ASSUME IdsAreTelling, SInv, OwnInv, NEW r \in Requests, NEW a \in Answers, Execute(r, a),
         r.op = "delete" => r.id > SeedId
  PROVE  /\ lastId <= lastId' /\ Seed \subseteq store'
         /\ \A o \in store' : o.id <= lastId'
         /\ a.id # 0 => SeedId < a.id /\ a.id <= lastId'
         /\ \A x : \A n \in Nat : n <= lastId => Held(x, n)' \subseteq Held(x, n)
         /\ r.op = "delete" /\ a.ok /\ ~server.keeps =>
              /\ Held(r.resource, r.id)' = {}
              /\ server.cascades => \A o \in store' : o.parent # r.id
         /\ a.id # 0 => \A o \in Held(r.resource, a.id)' : o.parent = r.parent
  <1> USE DEF SInv, TypeOK, IdsAreTelling
  <1>1. /\ SeedId \in Nat /\ Seed \subseteq Objects /\ lastId \in Nat
        /\ \A o \in Seed : o.id <= SeedId /\ o.parent <= SeedId
        /\ \A o \in store : o.id \in Nat /\ o.id <= lastId /\ o.parent \in Nat
        /\ r.id \in Nat
    BY ChainAssumption DEF OwnInv, Objects, Requests
  <1>2. CASE r.op = "create" /\ Create(r, a)
    <2> DEFINE new == [resource |-> r.resource, id |-> lastId + 1, parent |-> r.parent]
    <2>1. a.id = lastId + 1 /\ lastId' = lastId + 1
      BY <1>1, <1>2 DEF Create
    <2>2. Held(r.resource, a.id) = {}
      BY <1>1, <2>1 DEF Held
    <2>3. store' = store \cup {new}
      BY <1>2, <2>1, <2>2 DEF Create
    <2>4. new.id = lastId + 1 /\ new.parent = r.parent
      OBVIOUS
    <2> HIDE DEF new
    <2>5. \A o \in store' : o.id <= lastId'
      BY <1>1, <2>1, <2>3, <2>4
    <2>6. \A x : \A n \in Nat : n <= lastId => Held(x, n)' \subseteq Held(x, n)
      BY <1>1, <2>3, <2>4 DEF Held
    <2>7. \A o \in Held(r.resource, a.id)' : o.parent = r.parent
      BY <1>1, <2>1, <2>3, <2>4 DEF Held
    <2> QED BY <1>1, <1>2, <2>1, <2>3, <2>5, <2>6, <2>7 DEF OwnInv
  <1>3. CASE r.op = "delete" /\ Delete(r, a)
    <2>1. a.id = 0 /\ lastId' = lastId /\ store' \subseteq store
      BY <1>3 DEF Delete
    <2>2. ASSUME NEW o \in Seed PROVE o \in store'
      <3>1. o \in store /\ o.id # r.id /\ o.parent # r.id
        <4>1. o.id \in Nat /\ o.parent \in Nat /\ o.id <= SeedId /\ o.parent <= SeedId
          BY <1>1 DEF Objects
        <4> QED BY <1>1, <1>3, <4>1 DEF OwnInv
      <3> QED BY <1>3, <3>1 DEF Delete, Held
    <2>3. ~server.keeps =>
            /\ Held(r.resource, r.id)' = {}
            /\ server.cascades => \A o \in store' : o.parent # r.id
      BY <1>3 DEF Delete, Held
    <2> QED BY <1>1, <2>1, <2>2, <2>3 DEF Held
  <1>4. CASE (r.op = "read" /\ Read(r, a)) \/ Refuse(r, a)
    BY <1>1, <1>4 DEF Read, Refuse, Held, OwnInv
  <1> QED BY <1>2, <1>3, <1>4 DEF Execute

\* Every step; ids come from a create of this run.
LEMMA OwnNext == ASSUME FreshIds, SInv, OwnInv, [Next]_vars PROVE OwnInv'
  <1>0. server' = server /\ (server.foreign \/ IdsAreTelling)
    BY ServerStays DEF IdsAreTelling
  <1>a. CASE server.foreign
    BY <1>0, <1>a DEF OwnInv
  <1> SUFFICES ASSUME ~server.foreign PROVE OwnInv'
    BY <1>a
  <1>b. IdsAreTelling
    BY <1>0
  <1>1. /\ SeedId \in Nat /\ lastId \in Nat /\ id \in Nat /\ childId \in Nat
        /\ \A a \in reply : a.id \in Nat
    BY ChainAssumption DEF SInv, TypeOK, Replies
  <1>2. \A r \in sent : r \in Requests /\ (r.op = "delete" => r.id > SeedId)
    <2> SUFFICES ASSUME NEW r \in sent, r.op = "delete" PROVE r.id > SeedId
      BY DEF SInv, TypeOK
    <2>1. r = RequestOf(Last.role) /\ steps # <<>>
      BY DEF SInv, OneCall, Idle
    <2>2. Last.role \in DeleteRoles
      BY <2>1 DEF RequestOf
    <2>3. r.id = id /\ id # 0
      BY <2>1, <2>2 DEF RequestOf, DeleteRoles, CreateRoles, SInv, Shape
    <2> QED BY <1>1, <2>3 DEF OwnInv, Own
  <1>3. CASE Sends
    <2>1. UNCHANGED <<serverVars, reply, id, childId>>
      BY <1>3, SendFacts DEF SentAs, Send
    <2> QED BY <2>1 DEF OwnInv, Own, serverVars
  <1>4. CASE Serve
    <2>1. PICK r \in sent, a \in Answers : Execute(r, a) /\ reply' = {a}
      BY <1>4 DEF Serve
    <2>2. /\ lastId <= lastId' /\ Seed \subseteq store' /\ lastId' \in Nat
          /\ \A o \in store' : o.id <= lastId'
          /\ a.id # 0 => SeedId < a.id /\ a.id <= lastId'
      BY <1>b, <1>2, <2>1, ExecuteFresh, ExecuteTypes DEF SInv
    <2>3. UNCHANGED <<late, id, childId>>
      BY <1>4 DEF Serve, resultVars
    <2> QED BY <1>1, <2>1, <2>2, <2>3 DEF OwnInv, Own
  <1>5. CASE ServeLate
    <2>1. PICK r \in late, a \in Answers : Execute(r, a)
      BY <1>5 DEF ServeLate
    <2>2. /\ lastId <= lastId' /\ Seed \subseteq store' /\ lastId' \in Nat
          /\ \A o \in store' : o.id <= lastId'
      BY <1>b, <2>1, ExecuteFresh, ExecuteTypes DEF SInv, TypeOK, OwnInv
    <2>3. late' \subseteq late /\ UNCHANGED <<reply, id, childId>>
      BY <1>5 DEF ServeLate, resultVars
    <2> QED BY <1>1, <2>2, <2>3 DEF OwnInv, Own
  <1>6. ASSUME Restarted, UNCHANGED lastId
        PROVE  /\ Seed \subseteq store' /\ late' = {}
               /\ \A o \in store' : o.id <= lastId'
    <2>1. \A o \in Seed : o.id \in Nat /\ o.id <= SeedId
      BY ChainAssumption DEF Objects
    <2> QED BY <1>1, <1>6, <2>1 DEF Restarted, OwnInv
  <1>7. CASE Restart
    BY <1>6, <1>7 DEF Restart, OwnInv, Own, resultVars
  <1>8. CASE Answered
    <2>1. PICK a \in reply : IF a.ok /\ a.id # 0 THEN Extract(a) ELSE Conclude(a.ok)
      BY <1>8 DEF Answered
    <2>2. UNCHANGED serverVars /\ reply' = {}
      BY <1>8 DEF Answered
    <2>3. id' \in {id, 0, a.id} /\ childId' \in {childId, 0, a.id}
      BY <2>1 DEF Extract, Conclude
    <2> QED BY <2>2, <2>3 DEF OwnInv, Own, serverVars
  <1>9. CASE Fails
    <2>1. /\ reply' = {} /\ UNCHANGED <<lastId, id, childId>>
          /\ \/ Restarted
             \/ late' = late \cup {r \in sent : r.op # "read"} /\ UNCHANGED store
      BY <1>9 DEF Fails, Conclude
    <2> QED BY <1>2, <1>6, <2>1 DEF OwnInv, Own
  <1>10. CASE Finishes
    <2>1. id' = 0 /\ childId' = 0 /\ UNCHANGED <<serverVars, reply>>
      BY <1>10, FinishFacts DEF Finish
    <2> QED BY <2>1 DEF OwnInv, Own, serverVars
  <1>11. CASE UNCHANGED vars
    BY <1>11 DEF vars, serverVars, resultVars, OwnInv, Own
  <1> QED BY <1>3, <1>4, <1>5, <1>7, <1>8, <1>9, <1>10, <1>11, NextCases

\* Where no id is given out twice, the ids in use are this run's own.
LEMMA OwnInvariant == FreshIds => (Spec => []OwnInv)
  <1> SUFFICES ASSUME FreshIds PROVE Spec => []OwnInv
    OBVIOUS
  <1>1. Init => OwnInv
    BY ChainAssumption DEF Init, OwnInv, Own, Objects
  <1>2. SInv /\ OwnInv /\ [Next]_vars => OwnInv'
    BY OwnNext
  <1> QED BY <1>1, <1>2, ShapeInvariant, PTL DEF Spec

\* Only what this run created is ever deleted: the checks pass on ids that came
\* out of a create call and nothing else, and so do their late requests.
THEOREM OthersObjectsSafe == Spec => []OnlyOwnDeleted
  <1>1. OwnInv => OnlyOwnDeleted
    BY DEF OwnInv, OnlyOwnDeleted, IdsAreTelling
  <1>2. ~FreshIds => OnlyOwnDeleted
    BY DEF OnlyOwnDeleted, IdsAreTelling
  <1>3. CASE FreshIds
    <2>1. Spec => []OwnInv
      BY <1>3, OwnInvariant
    <2> QED BY <1>1, <2>1, PTL
  <1>4. CASE ~FreshIds
    <2>1. OnlyOwnDeleted
      BY <1>2, <1>4
    <2> QED BY <2>1, PTL
  <1> QED BY <1>3, <1>4

-----------------------------------------------------------------------------
(***************************************************************************)
(* What becomes of an object.                                              *)
(***************************************************************************)

\* A call that is executed is the one that goes with the role of its step.
LEMMA ServeFacts ==
  ASSUME SInv, Serve
  PROVE  /\ \E a \in Answers : Execute(RequestOf(Last.role), a) /\ reply' = {a}
         /\ RequestOf(Last.role) \in Requests
         /\ steps # <<>> /\ Last' = Last
         /\ UNCHANGED <<item, steps, id, childId, stale, readable, results>>
  <1>1. PICK r \in sent, a \in Answers : Execute(r, a) /\ reply' = {a}
    BY DEF Serve
  <1>2. r \in Requests /\ r = RequestOf(Last.role) /\ steps # <<>>
    BY DEF SInv, TypeOK, OneCall, Idle
  <1>3. UNCHANGED <<item, steps, id, childId, stale, readable, results>> /\ Last' = Last
    BY DEF Serve, resultVars, Last
  <1> QED BY <1>1, <1>2, <1>3

\* What the checks take from the answer of a call.
LEMMA AnsweredFacts ==
  ASSUME SInv, Answered
  PROVE  /\ \E a \in reply :
              /\ Last'.outcome = IF a.ok THEN "ok" ELSE "valid_call_errored"
              /\ IF a.ok /\ a.id # 0 THEN Extract(a) ELSE Conclude(a.ok)
              /\ a.id # 0 => a.ok /\ Last.role \in CreateRoles
         /\ steps # <<>> /\ steps' # <<>> /\ Last'.role = Last.role
         /\ reply' = {} /\ UNCHANGED <<store, item, results>>
  <1>1. PICK a \in reply :
          /\ Record(IF a.ok THEN "ok" ELSE "valid_call_errored")
          /\ IF a.ok /\ a.id # 0 THEN Extract(a) ELSE Conclude(a.ok)
    BY DEF Answered
  <1>2. steps # <<>> /\ (a.id # 0 => a.ok /\ Last.role \in CreateRoles)
    BY DEF SInv, OneCall, Idle
  <1>3. /\ steps' # <<>> /\ Last'.role = Last.role
        /\ Last'.outcome = IF a.ok THEN "ok" ELSE "valid_call_errored"
    BY <1>1, <1>2, RecordSteps
  <1>4. reply' = {} /\ UNCHANGED <<store, item, results>>
    BY DEF Answered, serverVars
  <1> QED BY <1>1, <1>2, <1>3, <1>4

\* A call that failed concludes nothing.
LEMMA FailsFacts ==
  ASSUME SInv, Fails
  PROVE  /\ steps # <<>> /\ steps' # <<>>
         /\ Last'.role = Last.role /\ Last'.outcome = "failed"
         /\ reply' = {} /\ Conclude(FALSE)
         /\ UNCHANGED <<item, id, childId, stale, results>>
  <1>1. steps # <<>> /\ Record("failed")
    BY DEF Fails, SInv, OneCall
  <1>2. steps' # <<>> /\ Last'.role = Last.role /\ Last'.outcome = "failed"
    BY <1>1, RecordSteps
  <1> QED BY <1>1, <1>2 DEF Fails, Conclude, SInv, TypeOK

\* An object this run created has no successor under its id.
LEMMA HeldShrinks ==
  ASSUME IdsAreTelling, SInv, OwnInv, [Next]_vars
  PROVE  \A x : \A n \in Nat : Own(n) => Held(x, n)' \subseteq Held(x, n)
  <1> USE DEF IdsAreTelling
  <1>1. ASSUME store' = store \/ store' = Seed
        PROVE  \A x : \A n \in Nat : Own(n) => Held(x, n)' \subseteq Held(x, n)
    <2>1. \A o \in Seed : o.id \in Nat /\ o.id <= SeedId /\ SeedId \in Nat
      BY ChainAssumption DEF Objects
    <2> QED BY <1>1, <2>1 DEF Held, Own
  <1>2. CASE Serve \/ ServeLate
    <2>1. PICK r \in Requests, a \in Answers :
            Execute(r, a) /\ (r.op = "delete" => r.id > SeedId)
      <3>1. CASE Serve
        <4>1. PICK a \in Answers : Execute(RequestOf(Last.role), a)
          BY <3>1, ServeFacts
        <4>2. RequestOf(Last.role) \in Requests /\ steps # <<>>
          BY <3>1, ServeFacts
        <4>3. RequestOf(Last.role).op = "delete" => RequestOf(Last.role).id > SeedId
          BY <4>2, ChainAssumption
          DEF RequestOf, DeleteRoles, CreateRoles, SInv, Shape, OwnInv, Own, TypeOK
        <4> QED BY <4>1, <4>2, <4>3
      <3>2. CASE ServeLate
        BY <3>2 DEF ServeLate, SInv, TypeOK, OwnInv
      <3> QED BY <1>2, <3>1, <3>2
    <2>2. \A x : \A n \in Nat : n <= lastId => Held(x, n)' \subseteq Held(x, n)
      BY <2>1, ExecuteFresh
    <2> QED BY <2>2 DEF Own
  <1>3. CASE Sends \/ Restart \/ Answered \/ Fails \/ Finishes \/ UNCHANGED vars
    <2>1. Sends => UNCHANGED store
      BY SendFacts DEF SentAs, Send, serverVars
    <2>2. Finishes => UNCHANGED store
      BY FinishFacts DEF Finish, serverVars
    <2>3. store' = store \/ store' = Seed
      BY <1>3, <2>1, <2>2 DEF Restart, Restarted, Answered, Fails, vars, serverVars
    <2> QED BY <1>1, <2>3
  <1> QED BY <1>2, <1>3, NextCases

\* What a server that keeps everything holds under an id is never nothing again.
LEMMA HeldStays ==
  ASSUME SInv, [Next]_vars, server.keeps, server.durable
  PROVE  \A x, n : Held(x, n) # {} => Held(x, n)' # {}
  <1>1. CASE Serve
    <2>1. PICK a \in Answers : Execute(RequestOf(Last.role), a)
      BY <1>1, ServeFacts
    <2>2. RequestOf(Last.role) \in Requests
      BY <1>1, ServeFacts
    <2> QED BY <2>1, <2>2, ExecuteKeeps DEF SInv
  <1>2. CASE ServeLate
    <2>1. PICK r \in late, a \in Answers : Execute(r, a)
      BY <1>2 DEF ServeLate
    <2> QED BY <2>1, ExecuteKeeps DEF SInv, TypeOK
  <1>3. CASE Sends \/ Restart \/ Answered \/ Fails \/ Finishes \/ UNCHANGED vars
    <2>1. Sends => UNCHANGED store
      BY SendFacts DEF SentAs, Send, serverVars
    <2>2. Finishes => UNCHANGED store
      BY FinishFacts DEF Finish, serverVars
    <2>3. store' = store
      BY <1>3, <2>1, <2>2 DEF Restart, Restarted, Answered, Fails, vars, serverVars
    <2> QED BY <2>3 DEF Held
  <1> QED BY <1>1, <1>2, <1>3, NextCases

-----------------------------------------------------------------------------
(***************************************************************************)
(* The verdict on a group.                                                 *)
(***************************************************************************)

GroupGone == Held(Group.resource, id) = {}

\* Once a delete is acknowledged nothing is held under the id of the chain, so
\* that the second read finds nothing and no verdict is passed.
GoneInv == ~server.keeps /\ ~server.foreign =>
  /\ ~stale /\ \A n \in 1..Len(results) : ~results[n].stale
  /\ steps # <<>> /\ Last.role = "delete" =>
       /\ Last.outcome = "ok" => GroupGone
       /\ \A a \in reply : a.ok => GroupGone
  /\ steps # <<>> /\ Last.role = "read_after_delete" =>
       GroupGone /\ \A a \in reply : ~a.ok

\* While a chain goes on, what was gone under its id stays gone.
LEMMA GroupStaysGone ==
  ASSUME IdsAreTelling, SInv, OwnInv, [Next]_vars, GroupGone, id # 0, UNCHANGED <<item, id>>
  PROVE  GroupGone'
  <1>1. id \in Nat /\ Own(id)
    BY DEF OwnInv, SInv, TypeOK, IdsAreTelling
  <1>2. Held(Group.resource, id)' \subseteq Held(Group.resource, id)
    <2>1. Group' = Group
      BY DEF Group
    <2>2. \A x : \A n \in Nat : Own(n) => Held(x, n)' \subseteq Held(x, n)
      BY HeldShrinks
    <2> QED BY <1>1, <2>1, <2>2 DEF Held
  <1> QED BY <1>2 DEF GroupGone

\* Every step between an acknowledged delete and the read after it.
LEMMA GoneNext == ASSUME FreshIds, SInv, OwnInv, GoneInv, [Next]_vars PROVE GoneInv'
  <1> SUFFICES ASSUME ~server.keeps, ~server.foreign PROVE GoneInv'
    BY ServerStays DEF GoneInv
  <1> USE DEF IdsAreTelling
  <1>1. steps # <<>> /\ Last.role \in {"delete", "read_after_delete"} => id # 0
    BY DEF SInv, Shape
  <1>2. CASE Sends
    <2>1. PICK role \in IF item <= Len(Groups) THEN GroupRoles ELSE PairRoles : SentAs(role)
      BY <1>2, SendFacts
    <2>2. role \in Roles /\ reply = {}
      BY <1>2, SendFacts DEF GroupRoles, PairRoles, Roles, Idle
    <2>3. Last' = [role |-> role, outcome |-> "pending"]
      BY <2>1, <2>2, SendSteps DEF SentAs
    <2>4. UNCHANGED <<item, id, stale, results, reply>>
      BY <2>1 DEF SentAs, Send
    <2>5. role = "read_after_delete" => GroupGone'
      <3>1. SUFFICES ASSUME role = "read_after_delete" PROVE GroupGone'
        OBVIOUS
      <3>2. GroupGone
        BY <2>1, <3>1 DEF SentAs, After, GoneInv
      <3>3. id # 0
        BY <2>1, <3>1 DEF SentAs
      <3> QED BY <2>4, <3>2, <3>3, GroupStaysGone
    <2> QED BY <2>2, <2>3, <2>4, <2>5 DEF GoneInv
  <1>3. CASE Serve
    <2>1. PICK a \in Answers : Execute(RequestOf(Last.role), a) /\ reply' = {a}
      BY <1>3, ServeFacts
    <2>2. /\ RequestOf(Last.role) \in Requests /\ steps # <<>> /\ Last' = Last
          /\ UNCHANGED <<item, steps, id, childId, stale, readable, results>>
      BY <1>3, ServeFacts
    <2>3. GroupGone /\ id # 0 => GroupGone'
      BY <2>2, GroupStaysGone
    <2>4. ASSUME Last.role = "delete", a.ok PROVE GroupGone'
      <3>1. RequestOf(Last.role).op = "delete" /\ RequestOf(Last.role).id = id
            /\ RequestOf(Last.role).resource = Group.resource
        BY <2>4 DEF RequestOf, DeleteRoles, CreateRoles, GroupRoles
      <3>2. id > SeedId
        BY <1>1, <2>2, <2>4, ChainAssumption DEF OwnInv, Own, SInv, TypeOK
      <3>3. Held(Group.resource, id)' = {}
        <4>1. PICK r \in Requests : r = RequestOf(Last.role)
          BY <2>2
        <4>2. Held(r.resource, r.id)' = {}
          BY <2>1, <2>4, <3>1, <3>2, <4>1, ExecuteFresh
        <4>3. Group' = Group /\ id' = id
          BY <2>2 DEF Group
        <4> QED BY <3>1, <4>1, <4>2, <4>3 DEF Held
      <3> QED BY <3>3 DEF GroupGone
    <2>5. ASSUME Last.role = "read_after_delete" PROVE ~a.ok
      <3>1. RequestOf(Last.role).op = "read" /\ RequestOf(Last.role).id = id
            /\ RequestOf(Last.role).resource = Group.resource
        BY <2>5 DEF RequestOf, DeleteRoles, CreateRoles, GroupRoles
      <3>2. GroupGone
        BY <2>2, <2>5 DEF GoneInv
      <3> QED BY <2>1, <2>2, <3>1, <3>2, ExecuteKeeps DEF SInv, GroupGone
    <2> QED BY <1>1, <2>1, <2>2, <2>3, <2>4, <2>5 DEF GoneInv
  <1>4. CASE ServeLate \/ Restart \/ UNCHANGED vars
    <2>1. UNCHANGED <<item, steps, id, stale, results, reply>> /\ Last' = Last
      BY <1>4 DEF ServeLate, Restart, vars, resultVars, Last
    <2>2. GroupGone /\ id # 0 => GroupGone'
      BY <2>1, GroupStaysGone
    <2> QED BY <1>1, <2>1, <2>2 DEF GoneInv
  <1>5. CASE Answered
    <2>1. PICK a \in reply :
            /\ Last'.outcome = IF a.ok THEN "ok" ELSE "valid_call_errored"
            /\ IF a.ok /\ a.id # 0 THEN Extract(a) ELSE Conclude(a.ok)
            /\ a.id # 0 => a.ok /\ Last.role \in CreateRoles
      BY <1>5, AnsweredFacts
    <2>2. /\ steps # <<>> /\ Last'.role = Last.role
          /\ reply' = {} /\ UNCHANGED <<store, item, results>>
      BY <1>5, AnsweredFacts
    <2>3. ~stale'
      BY <2>1, <2>2 DEF GoneInv, Extract, Conclude
    <2>4. ASSUME Last.role \in {"delete", "read_after_delete"}, GroupGone PROVE GroupGone'
      <3>1. id' = id
        BY <2>1, <2>4 DEF CreateRoles, Conclude
      <3> QED BY <1>1, <2>2, <2>4, <3>1, GroupStaysGone
    <2>5. Last.role = "delete" /\ Last'.outcome = "ok" => GroupGone
      BY <2>1, <2>2 DEF GoneInv
    <2>6. Last.role = "read_after_delete" => GroupGone
      BY <2>2 DEF GoneInv
    <2>7. steps' # <<>> /\ Last'.role = "delete" =>
            (Last'.outcome = "ok" => GroupGone')
      BY <2>2, <2>4, <2>5
    <2>8. steps' # <<>> /\ Last'.role = "read_after_delete" => GroupGone'
      BY <2>2, <2>4, <2>6
    <2> QED BY <2>2, <2>3, <2>7, <2>8 DEF GoneInv
  <1>6. CASE Fails
    <2>1. /\ steps # <<>> /\ Last'.role = Last.role /\ Last'.outcome = "failed"
          /\ reply' = {} /\ UNCHANGED <<item, id, stale, results>>
      BY <1>6, FailsFacts
    <2>2. Last.role = "read_after_delete" => GroupGone'
      BY <1>1, <2>1, GroupStaysGone DEF GoneInv
    <2> QED BY <2>1, <2>2 DEF GoneInv
  <1>7. CASE Finishes
    <2>1. /\ Finish /\ Len(results') = Len(results) + 1 /\ Len(results) \in Nat
          /\ \A n \in 1..Len(results) : results'[n] = results[n]
          /\ results'[Len(results) + 1] = Entry
      BY <1>7, FinishFacts
    <2>2. steps' = <<>> /\ stale' = FALSE /\ Entry.stale = stale
      BY <2>1 DEF Finish, Entry
    <2>3. \A n \in 1..Len(results') : ~results'[n].stale
      BY <2>1, <2>2 DEF GoneInv
    <2> QED BY <2>2, <2>3 DEF GoneInv
  <1> QED BY <1>2, <1>3, <1>4, <1>5, <1>6, <1>7, NextCases

\* A stale read is only reported of a server that keeps what it says it has
\* deleted, whatever was lost, executed late or restarted between the calls.
THEOREM StaleIsTrue == Spec => []NoFalseStale
  <1>1. ~FreshIds => NoFalseStale
    BY DEF NoFalseStale, IdsAreTelling
  <1>2. CASE FreshIds
    <2>1. Spec => []OwnInv
      BY <1>2, OwnInvariant
    <2>2. Init => GoneInv
      BY EmptySeq DEF Init, GoneInv
    <2>3. SInv /\ OwnInv /\ GoneInv /\ [Next]_vars => GoneInv'
      BY <1>2, GoneNext
    <2>4. GoneInv => NoFalseStale
      BY DEF GoneInv, NoFalseStale, IdsAreTelling
    <2> QED BY <2>1, <2>2, <2>3, <2>4, ShapeInvariant, PTL DEF Spec
  <1>3. CASE ~FreshIds
    <2>1. NoFalseStale
      BY <1>1, <1>3
    <2> QED BY <2>1, PTL
  <1> QED BY <1>2, <1>3

\* An acknowledged delete has found the object, and nothing a durable server keeps
\* disappears, so that the second read of a chain finds it too.
KeptInv == server.keeps /\ server.durable =>
  /\ steps # <<>> /\ Last.role = "delete" =>
       /\ Last.outcome = "ok" => ~GroupGone
       /\ \A a \in reply : a.ok => ~GroupGone
  /\ steps # <<>> /\ Last.role = "read_after_delete" =>
       /\ ~GroupGone
       /\ \A a \in reply : a.ok
       /\ Last.outcome \in Exchanged => stale
  /\ StaleIsCaught

\* Every step, on a server that keeps everything.
LEMMA KeptNext == ASSUME SInv, KeptInv, [Next]_vars PROVE KeptInv'
  <1> SUFFICES ASSUME server.keeps, server.durable PROVE KeptInv'
    BY ServerStays DEF KeptInv
  <1> USE DEF KeptInv, StaleIsCaught
  <1>1. server' = server /\ \A x, n : Held(x, n) # {} => Held(x, n)' # {}
    BY ServerStays, HeldStays
  <1>2. UNCHANGED item => Group' = Group
    BY DEF Group
  <1>3. UNCHANGED <<item, id>> /\ ~GroupGone => ~GroupGone'
    <2> SUFFICES ASSUME UNCHANGED <<item, id>>, ~GroupGone PROVE ~GroupGone'
      OBVIOUS
    <2>1. PICK x, n : x = Group.resource /\ n = id
      OBVIOUS
    <2>2. Held(x, n) # {}
      BY <2>1 DEF GroupGone
    <2>3. Held(x, n)' # {}
      BY <1>1, <2>2
    <2> QED BY <1>2, <2>1, <2>3 DEF GroupGone, Held
  <1>4. CASE Sends
    <2>1. PICK role \in IF item <= Len(Groups) THEN GroupRoles ELSE PairRoles : SentAs(role)
      BY <1>4, SendFacts
    <2>2. role \in Roles /\ reply = {}
      BY <1>4, SendFacts DEF GroupRoles, PairRoles, Roles, Idle
    <2>3. Last' = [role |-> role, outcome |-> "pending"]
      BY <2>1, <2>2, SendSteps DEF SentAs
    <2>4. UNCHANGED <<item, id, stale, results, reply>>
      BY <2>1 DEF SentAs, Send
    <2>5. role = "read_after_delete" => ~GroupGone'
      BY <1>3, <2>1, <2>4 DEF SentAs, After
    <2> QED BY <1>3, <2>2, <2>3, <2>4, <2>5 DEF Exchanged
  <1>5. CASE Serve
    <2>1. PICK r \in Requests : r = RequestOf(Last.role)
      BY <1>5, ServeFacts
    <2>2. PICK a \in Answers : Execute(r, a) /\ reply' = {a}
      BY <1>5, <2>1, ServeFacts
    <2>3. /\ steps # <<>> /\ Last' = Last
          /\ UNCHANGED <<item, steps, id, childId, stale, readable, results>>
      BY <1>5, ServeFacts
    <2>4. ASSUME Last.role = "delete", a.ok PROVE ~GroupGone
      <3>1. r.op = "delete" /\ r.id = id /\ r.resource = Group.resource
        BY <2>1, <2>4 DEF RequestOf, DeleteRoles, CreateRoles, GroupRoles
      <3> QED BY <2>2, <2>4, <3>1 DEF Execute, Delete, Refuse, GroupGone
    <2>5. ASSUME Last.role = "read_after_delete" PROVE a.ok
      <3>1. r.op = "read" /\ r.id = id /\ r.resource = Group.resource
        BY <2>1, <2>5 DEF RequestOf, DeleteRoles, CreateRoles, GroupRoles
      <3> QED BY <2>2, <2>3, <2>5, <3>1, ExecuteKeeps DEF SInv, GroupGone
    <2> QED BY <1>3, <2>2, <2>3, <2>4, <2>5
  <1>6. CASE ServeLate \/ Restart \/ UNCHANGED vars
    <2>1. UNCHANGED <<item, steps, id, stale, results, reply>> /\ Last' = Last
      BY <1>6 DEF ServeLate, Restart, vars, resultVars, Last
    <2> QED BY <1>3, <2>1
  <1>7. CASE Answered
    <2>1. PICK a \in reply :
            /\ Last'.outcome = IF a.ok THEN "ok" ELSE "valid_call_errored"
            /\ IF a.ok /\ a.id # 0 THEN Extract(a) ELSE Conclude(a.ok)
            /\ a.id # 0 => a.ok /\ Last.role \in CreateRoles
      BY <1>7, AnsweredFacts
    <2>2. /\ steps # <<>> /\ Last'.role = Last.role
          /\ reply' = {} /\ UNCHANGED <<store, item, results>>
      BY <1>7, AnsweredFacts
    <2>3. Last.role \in {"delete", "read_after_delete"} => id' = id
      BY <2>1 DEF CreateRoles, Conclude
    <2>4. Last.role = "delete" /\ Last'.outcome = "ok" => ~GroupGone
      BY <2>1, <2>2
    <2>5. Last.role = "read_after_delete" => stale'
      BY <2>1, <2>2 DEF CreateRoles, Conclude
    <2> QED BY <1>1, <1>3, <2>2, <2>3, <2>4, <2>5
  <1>8. CASE Fails
    <2>1. /\ steps # <<>> /\ Last'.role = Last.role /\ Last'.outcome = "failed"
          /\ reply' = {} /\ UNCHANGED <<item, id, stale, results>>
      BY <1>8, FailsFacts
    <2> QED BY <1>3, <2>1 DEF Exchanged
  <1>9. CASE Finishes
    <2>1. /\ Idle /\ steps # <<>> /\ Finish
          /\ Len(results') = Len(results) + 1 /\ Len(results) \in Nat
          /\ \A n \in 1..Len(results) : results'[n] = results[n]
          /\ results'[Len(results) + 1] = Entry
      BY <1>9, FinishFacts
    <2>2. steps' = <<>> /\ id' = 0 /\ reply' = {}
      BY <2>1 DEF Finish, Idle
    <2>3. Entry.last = "read_after_delete" /\ Entry.answered => Entry.stale
      <3>1. Len(steps) \in 1..Len(steps)
        BY <2>1, LastStep
      <3>2. /\ Entry.last = Last.role /\ Entry.stale = stale
            /\ Entry.answered = (\A n \in 1..Len(steps) : steps[n].outcome \in Exchanged)
        BY DEF Entry
      <3> QED BY <2>1, <3>1, <3>2 DEF Last
    <2>4. \A n \in 1..Len(results') :
            results'[n].last = "read_after_delete" /\ results'[n].answered
              => results'[n].stale
      BY <2>1, <2>3
    <2> QED BY <2>2, <2>4
  <1> QED BY <1>4, <1>5, <1>6, <1>7, <1>8, <1>9, NextCases

\* A chain whose calls were all answered, up to the second read, reports a
\* server that keeps what it deletes, if only no restart does the deleting.
THEOREM KeepingIsFound == Spec => []StaleIsCaught
  <1>1. Init => KeptInv
    BY EmptySeq DEF Init, KeptInv, StaleIsCaught
  <1>2. SInv /\ KeptInv /\ [Next]_vars => KeptInv'
    BY KeptNext
  <1>3. KeptInv => StaleIsCaught
    BY DEF KeptInv, StaleIsCaught
  <1> QED BY <1>1, <1>2, <1>3, ShapeInvariant, PTL DEF Spec

-----------------------------------------------------------------------------
(***************************************************************************)
(* The verdict on a pair.                                                  *)
(***************************************************************************)

ChildGone == Held(Pair.child, childId) = {}

\* What is held under the id of the child is a child of the parent, so that a
\* cascading server that has deleted the parent holds nothing under it.
OrphanInv == server.cascades /\ ~server.keeps /\ ~server.foreign =>
  /\ readable # "yes"
  /\ childId # 0 =>
       /\ steps # <<>> /\ Last.role \notin {"create", "create_parent"}
       /\ \A o \in Held(Pair.child, childId) : o.parent = id
  /\ steps # <<>> /\ Last.role = "create_child" =>
       \A a \in reply : a.id # 0 => \A o \in Held(Pair.child, a.id) : o.parent = id
  /\ steps # <<>> /\ Last.role = "delete_parent" =>
       /\ Last.outcome = "ok" => ChildGone
       /\ \A a \in reply : a.ok => ChildGone
  /\ steps # <<>> /\ Last.role = ReadChild =>
       ChildGone /\ \A a \in reply : ~a.ok

\* What the child of a chain is, it stays or ceases to be.
LEMMA ChildStays ==
  ASSUME IdsAreTelling, SInv, OwnInv, [Next]_vars, UNCHANGED <<item, id>>,
         NEW n \in Nat, Own(n)
  PROVE  /\ Held(Pair.child, n) = {} => {o \in store' : o.resource = Pair'.child /\ o.id = n} = {}
         /\ (\A o \in Held(Pair.child, n) : o.parent = id) =>
              \A o \in store' : o.resource = Pair'.child /\ o.id = n => o.parent = id'
  <1>1. PICK x : x = Pair.child
    OBVIOUS
  <1>2. Held(x, n)' \subseteq Held(x, n)
    BY HeldShrinks
  <1>3. Pair' = Pair /\ id' = id
    BY DEF Pair
  <1> QED BY <1>1, <1>2, <1>3 DEF Held

\* The same over any step that leaves the chain where it is.
LEMMA ChildStaysSame ==
  ASSUME IdsAreTelling, SInv, OwnInv, [Next]_vars, UNCHANGED <<item, id, childId>>, childId # 0
  PROVE  /\ ChildGone => ChildGone'
         /\ (\A o \in Held(Pair.child, childId) : o.parent = id) =>
              (\A o \in Held(Pair.child, childId) : o.parent = id)'
  <1>1. PICK n \in Nat : n = childId
    BY DEF SInv, TypeOK
  <1>2. Own(n)
    BY <1>1 DEF OwnInv, Own, IdsAreTelling
  <1>3. /\ Held(Pair.child, n) = {} => {o \in store' : o.resource = Pair'.child /\ o.id = n} = {}
        /\ (\A o \in Held(Pair.child, n) : o.parent = id) =>
             \A o \in store' : o.resource = Pair'.child /\ o.id = n => o.parent = id'
    BY <1>2, ChildStays
  <1>4. n = childId'
    BY <1>1
  <1>5. Held(Pair.child, childId)' = {o \in store' : o.resource = Pair'.child /\ o.id = n}
    BY <1>4 DEF Held
  <1> QED BY <1>1, <1>3, <1>5 DEF ChildGone

\* Every step of a cross-resource chain, and of anyone else during it.
LEMMA OrphanNext == ASSUME FreshIds, SInv, OwnInv, OrphanInv, [Next]_vars PROVE OrphanInv'
  <1> SUFFICES ASSUME server.cascades, ~server.keeps, ~server.foreign PROVE OrphanInv'
    BY ServerStays DEF OrphanInv
  <1> USE DEF IdsAreTelling
  <1> DEFINE OfParent == \A o \in Held(Pair.child, childId) : o.parent = id
  <1>1. steps # <<>> /\ Last.role \in {"delete_parent", ReadChild} => id # 0 /\ childId # 0
    BY DEF SInv, Shape, ReadChild
  <1>2. UNCHANGED <<item, id, childId>> /\ childId # 0 =>
          (ChildGone => ChildGone') /\ (OfParent => OfParent')
    BY ChildStaysSame
  <1>3. childId # 0 => OfParent
    BY DEF OrphanInv
  <1> HIDE DEF OfParent
  <1>4. CASE Sends
    <2>1. PICK role \in IF item <= Len(Groups) THEN GroupRoles ELSE PairRoles : SentAs(role)
      BY <1>4, SendFacts
    <2>2. role \in Roles /\ reply = {}
      BY <1>4, SendFacts DEF GroupRoles, PairRoles, Roles, Idle
    <2>3. Last' = [role |-> role, outcome |-> "pending"] /\ steps' # <<>>
      BY <2>1, <2>2, SendSteps DEF SentAs
    <2>4. UNCHANGED <<item, id, childId, readable, results, reply>>
      BY <2>1 DEF SentAs, Send
    <2>5. role = ReadChild => ChildGone'
      <3>1. SUFFICES ASSUME role = ReadChild PROVE ChildGone'
        OBVIOUS
      <3>2. ChildGone /\ childId # 0
        BY <2>1, <3>1 DEF SentAs, After, OrphanInv, ReadChild
      <3> QED BY <1>2, <2>4, <3>2
    <2>6. childId # 0 => role \notin {"create", "create_parent"}
      BY <2>1 DEF SentAs, SInv, Shape
    <2> QED BY <1>2, <1>3, <2>2, <2>3, <2>4, <2>5, <2>6 DEF OrphanInv, OfParent, ReadChild
  <1>5. CASE Serve
    <2>1. PICK r \in Requests : r = RequestOf(Last.role)
      BY <1>5, ServeFacts
    <2>2. PICK a \in Answers : Execute(r, a) /\ reply' = {a}
      BY <1>5, <2>1, ServeFacts
    <2>3. /\ steps # <<>> /\ Last' = Last
          /\ UNCHANGED <<item, steps, id, childId, stale, readable, results>>
      BY <1>5, ServeFacts
    <2>4. Pair' = Pair
      BY <2>3 DEF Pair
    <2>5. ASSUME Last.role = "create_child", a.id # 0
          PROVE  (\A o \in Held(Pair.child, a.id) : o.parent = id)'
      <3>1. /\ r.op = "create" /\ r.resource = Pair.child /\ r.parent = id
        BY <2>1, <2>5 DEF RequestOf, DeleteRoles, CreateRoles, GroupRoles
      <3>2. \A o \in Held(r.resource, a.id)' : o.parent = r.parent
        BY <2>2, <2>5, <3>1, ExecuteFresh
      <3> QED BY <2>3, <2>4, <3>1, <3>2 DEF Held
    <2>6. ASSUME Last.role = "delete_parent", a.ok PROVE ChildGone'
      <3>1. r.op = "delete" /\ r.id = id
        BY <2>1, <2>6 DEF RequestOf, DeleteRoles, CreateRoles, GroupRoles
      <3>2. r.id > SeedId
        BY <1>1, <2>3, <2>6, <3>1, ChainAssumption DEF OwnInv, Own, SInv, TypeOK
      <3>3. \A o \in store' : o.parent # r.id
        BY <2>2, <2>6, <3>1, <3>2, ExecuteFresh
      <3>4. OfParent'
        BY <1>1, <1>2, <1>3, <2>3, <2>6
      <3> QED BY <2>3, <3>1, <3>3, <3>4 DEF OfParent, ChildGone, Held
    <2>7. ASSUME Last.role = ReadChild PROVE ~a.ok
      <3>1. r.op = "read" /\ r.id = childId /\ r.resource = Pair.child
        BY <2>1, <2>7 DEF RequestOf, DeleteRoles, CreateRoles, GroupRoles, ReadChild
      <3>2. ChildGone
        BY <2>3, <2>7 DEF OrphanInv
      <3> QED BY <2>2, <3>1, <3>2, ExecuteKeeps DEF SInv, ChildGone
    <2>8. Last.role = ReadChild => ChildGone'
      BY <1>1, <1>2, <2>3 DEF OrphanInv
    <2>9. childId # 0 => OfParent'
      BY <1>2, <1>3, <2>3
    <2>10. Last.role = "delete_parent" /\ Last.outcome = "ok" => ChildGone'
      BY <1>1, <1>2, <2>3 DEF OrphanInv
    <2> QED BY <2>2, <2>3, <2>5, <2>6, <2>7, <2>8, <2>9, <2>10
        DEF OrphanInv, OfParent, ReadChild
  <1>6. CASE ServeLate \/ Restart \/ UNCHANGED vars
    <2>1. UNCHANGED <<item, steps, id, childId, readable, results, reply>> /\ Last' = Last
      BY <1>6 DEF ServeLate, Restart, vars, resultVars, Last
    <2>2. ASSUME NEW a \in reply, a.id # 0, \A o \in Held(Pair.child, a.id) : o.parent = id
          PROVE  (\A o \in Held(Pair.child, a.id) : o.parent = id)'
      <3>1. a.id \in Nat /\ Own(a.id)
        BY <2>2 DEF SInv, TypeOK, Replies, OwnInv
      <3> QED BY <2>1, <2>2, <3>1, ChildStays DEF Held
    <2>3. childId # 0 => OfParent'
      BY <1>2, <1>3, <2>1
    <2>4. childId # 0 /\ ChildGone => ChildGone'
      BY <1>2, <2>1
    <2> QED BY <1>1, <2>1, <2>2, <2>3, <2>4 DEF OrphanInv, OfParent
  <1>7. CASE Answered
    <2>1. PICK a \in reply :
            /\ Last'.outcome = IF a.ok THEN "ok" ELSE "valid_call_errored"
            /\ IF a.ok /\ a.id # 0 THEN Extract(a) ELSE Conclude(a.ok)
            /\ a.id # 0 => a.ok /\ Last.role \in CreateRoles
      BY <1>7, AnsweredFacts
    <2>2. /\ steps # <<>> /\ steps' # <<>> /\ Last'.role = Last.role
          /\ reply' = {} /\ UNCHANGED <<store, item, results>>
      BY <1>7, AnsweredFacts
    <2>3. Pair' = Pair
      BY <2>2 DEF Pair
    <2>4. readable' # "yes"
      BY <2>1, <2>2 DEF OrphanInv, Extract, Conclude, ReadChild
    <2>5. ASSUME childId' # 0
          PROVE  Last'.role \notin {"create", "create_parent"} /\ OfParent'
      <3>1. CASE childId' = childId
        <4>1. Last.role \notin {"create", "create_parent"} /\ OfParent
          BY <1>3, <2>5, <3>1 DEF OrphanInv
        <4>2. id' = id
          BY <2>1, <4>1 DEF Extract, Conclude, CreateRoles
        <4> QED BY <2>2, <2>3, <3>1, <4>1, <4>2 DEF OfParent, Held
      <3>2. CASE childId' # childId
        <4>1. Last.role = "create_child" /\ a.id # 0 /\ childId' = a.id /\ id' = id
          BY <2>1, <2>5, <3>2 DEF Extract, Conclude
        <4>2. \A o \in Held(Pair.child, a.id) : o.parent = id
          BY <2>2, <4>1 DEF OrphanInv
        <4> QED BY <2>2, <2>3, <4>1, <4>2 DEF OfParent, Held
      <3> QED BY <3>1, <3>2
    <2>6. ASSUME Last.role \in {"delete_parent", ReadChild}, ChildGone PROVE ChildGone'
      <3>1. childId' = childId
        BY <2>1, <2>6 DEF CreateRoles, Conclude, ReadChild
      <3> QED BY <2>2, <2>3, <3>1, <2>6 DEF ChildGone, Held
    <2>7. Last.role = "delete_parent" /\ Last'.outcome = "ok" => ChildGone'
      BY <2>1, <2>2, <2>6 DEF OrphanInv
    <2>8. Last.role = ReadChild => ChildGone'
      BY <2>2, <2>6 DEF OrphanInv
    <2> QED BY <2>2, <2>4, <2>5, <2>7, <2>8 DEF OrphanInv, OfParent
  <1>8. CASE Fails
    <2>1. /\ steps # <<>> /\ steps' # <<>>
          /\ Last'.role = Last.role /\ Last'.outcome = "failed"
          /\ reply' = {} /\ UNCHANGED <<item, id, childId, stale, results>>
      BY <1>8, FailsFacts
    <2>2. readable' # "yes"
      BY <1>8, FailsFacts DEF Conclude, OrphanInv
    <2>3. Last.role = ReadChild => ChildGone'
      BY <1>1, <1>2, <2>1 DEF OrphanInv
    <2>4. childId' # 0 => OfParent' /\ Last.role \notin {"create", "create_parent"}
      BY <1>2, <1>3, <2>1 DEF OrphanInv
    <2> QED BY <2>1, <2>2, <2>3, <2>4 DEF OrphanInv, OfParent
  <1>9. CASE Finishes
    <2>1. steps' = <<>> /\ childId' = 0 /\ readable' = "none"
      BY <1>9, FinishFacts DEF Finish
    <2> QED BY <2>1 DEF OrphanInv
  <1> QED BY <1>4, <1>5, <1>6, <1>7, <1>8, <1>9, NextCases

\* A child that outlives its parent is only reported of a server whose deletes
\* do not cascade, whatever was lost, executed late or restarted in between.
THEOREM OrphanIsTrue == Spec => []NoFalseOrphan
  <1>1. ~FreshIds => NoFalseOrphan
    BY DEF NoFalseOrphan, IdsAreTelling
  <1>2. CASE FreshIds
    <2>1. Spec => []OwnInv
      BY <1>2, OwnInvariant
    <2>2. Init => OrphanInv
      BY DEF Init, OrphanInv
    <2>3. SInv /\ OwnInv /\ OrphanInv /\ [Next]_vars => OrphanInv'
      BY <1>2, OrphanNext
    <2>4. OrphanInv => NoFalseOrphan
      BY DEF OrphanInv, NoFalseOrphan, IdsAreTelling
    <2> QED BY <2>1, <2>2, <2>3, <2>4, ShapeInvariant, PTL DEF Spec
  <1>3. CASE ~FreshIds
    <2>1. NoFalseOrphan
      BY <1>1, <1>3
    <2> QED BY <2>1, PTL
  <1> QED BY <1>2, <1>3

-----------------------------------------------------------------------------
(***************************************************************************)
(* The order of the calls.                                                 *)
(***************************************************************************)

\* A group is read if and only if its read tool has a parameter for the id, and
\* then before the delete.
FollowInv ==
  /\ \A n \in 1..Len(steps) : steps[n].role = "read" => Group.read = "found"
  /\ steps # <<>> /\ Last.role = "delete" /\ Group.read = "found" =>
       \E n \in 1..Len(steps) : steps[n].role = "read"

\* What one call that is made appends to the steps, and why it may.
FollowsAs(role) ==
  /\ Last'.role = role
  /\ role \in NextRoles(steps, Available)
  /\ role = "read" => Group.read = "found"
  /\ role = "delete" /\ Group.read = "found" => steps # <<>> /\ Last.role = "read"

\* Each of the eight calls has a role that may come after the steps so far.
LEMMA CallsFollow ==
  ASSUME SInv, FollowInv, Sends
  PROVE  \E role \in Roles : FollowsAs(role)
  <1> USE DEF Roles
  <1>1. ASSUME NEW role \in Roles, NEW op, NEW resource, NEW n, NEW parent,
               Send(role, op, resource, n, parent)
        PROVE  Last'.role = role
    BY <1>1, SendSteps
  <1>2. Len(Groups) \in Nat /\ item \in Nat
    BY ChainAssumption, LenProperties DEF SInv, TypeOK
  <1>3. CASE CallCreate
    <2>1. Last'.role = "create"
      BY <1>1, <1>3 DEF CallCreate
    <2>2. FollowsAs("create")
      BY <1>3, <2>1 DEF CallCreate, AtGroup, FollowsAs, NextRoles, Available
    <2> QED BY <2>2
  <1>4. CASE CallRead
    <2>1. Last'.role = "read"
      BY <1>1, <1>4 DEF CallRead
    <2>2. FollowsAs("read")
      BY <1>4, <2>1 DEF CallRead, CanRead, Created, After, AtGroup, Last, FollowsAs,
         NextRoles, Available, Onward
    <2> QED BY <2>2
  <1>5. CASE CallDelete
    <2>1. Last'.role = "delete"
      BY <1>1, <1>5 DEF CallDelete
    <2>2. FollowsAs("delete")
      BY <1>5, <2>1 DEF CallDelete, CanDelete, Created, After, AtGroup, Last, FollowsAs,
         NextRoles, Available, Onward
    <2> QED BY <2>2
  <1>6. CASE CallReadAgain
    <2>1. Last'.role = "read_after_delete"
      BY <1>1, <1>6 DEF CallReadAgain
    <2>2. steps # <<>> /\ Last.role = "delete" /\ Last.outcome = "ok" /\ Group.read = "found"
      BY <1>6 DEF CallReadAgain, CanReadAgain, After
    <2>3. FollowsAs("read_after_delete")
      BY <2>1, <2>2 DEF FollowInv, Last, FollowsAs, NextRoles
    <2> QED BY <2>3
  <1>7. CASE CallCreateParent
    <2>1. Last'.role = "create_parent"
      BY <1>1, <1>7 DEF CallCreateParent
    <2>2. FollowsAs("create_parent")
      BY <1>2, <1>7, <2>1 DEF CallCreateParent, AtPair, FollowsAs, NextRoles, Available
    <2> QED BY <2>2
  <1>8. CASE CallCreateChild
    <2>1. Last'.role = "create_child"
      BY <1>1, <1>8 DEF CallCreateChild
    <2>2. FollowsAs("create_child")
      BY <1>2, <1>8, <2>1 DEF CallCreateChild, CanCreateChild, After, AtPair, Last,
         FollowsAs, NextRoles, Available, Onward
    <2> QED BY <2>2
  <1>9. CASE CallDeleteParent
    <2>1. Last'.role = "delete_parent"
      BY <1>1, <1>9 DEF CallDeleteParent
    <2>2. FollowsAs("delete_parent")
      BY <1>2, <1>9, <2>1 DEF CallDeleteParent, CanDeleteParent, After, AtPair, Last,
         FollowsAs, NextRoles, Available, Onward
    <2> QED BY <2>2
  <1>10. CASE CallReadChild
    <2>1. Last'.role = ReadChild
      BY <1>1, <1>10 DEF CallReadChild, ReadChild
    <2>2. FollowsAs(ReadChild)
      BY <1>2, <1>10, <2>1 DEF CallReadChild, CanReadChild, After, AtPair, Last,
         FollowsAs, NextRoles, Available, Onward, ReadChild
    <2> QED BY <2>2 DEF ReadChild
  <1> QED BY <1>3, <1>4, <1>5, <1>6, <1>7, <1>8, <1>9, <1>10 DEF Sends

\* Every step.
LEMMA FollowNext == ASSUME SInv, FollowInv, [Next]_vars PROVE FollowInv'
  <1>1. CASE Sends
    <2>1. PICK role \in Roles : FollowsAs(role)
      BY <1>1, CallsFollow
    <2>2. PICK sentAs \in Roles : SentAs(sentAs)
      <3>1. GroupRoles \subseteq Roles /\ PairRoles \subseteq Roles
        BY DEF GroupRoles, PairRoles, Roles
      <3> QED BY <1>1, <3>1, SendFacts
    <2>3. /\ Len(steps') = Len(steps) + 1 /\ Len(steps) \in Nat /\ steps' # <<>>
          /\ \A k \in 1..Len(steps) : steps'[k] = steps[k]
      BY <2>2, SendSteps DEF SentAs
    <2>4. Group' = Group
      BY <2>2 DEF SentAs, Send, Group
    <2>5. \A n \in 1..Len(steps') : steps'[n].role = "read" => Group'.read = "found"
      BY <2>1, <2>3, <2>4 DEF FollowInv, FollowsAs, Last
    <2>6. ASSUME Last'.role = "delete", Group'.read = "found"
          PROVE  \E n \in 1..Len(steps') : steps'[n].role = "read"
      <3>1. steps # <<>> /\ Last.role = "read"
        BY <2>1, <2>4, <2>6 DEF FollowsAs
      <3>2. Len(steps) \in 1..Len(steps)
        BY <3>1, LastStep
      <3> QED BY <2>3, <3>1, <3>2 DEF Last
    <2> QED BY <2>5, <2>6 DEF FollowInv
  <1>2. CASE Serve \/ ServeLate \/ Restart \/ UNCHANGED vars
    BY <1>2 DEF Serve, ServeLate, Restart, vars, resultVars, FollowInv, Last, Group
  <1>3. CASE Answered \/ Fails
    <2>1. steps # <<>> /\ UNCHANGED item
      BY <1>3 DEF Answered, Fails, SInv, OneCall, Idle
    <2>2. Record("ok") \/ Record("valid_call_errored") \/ Record("failed")
      BY <1>3 DEF Answered, Fails
    <2>3. /\ Len(steps') = Len(steps) /\ Last'.role = Last.role
          /\ \A k \in 1..Len(steps) : steps'[k].role = steps[k].role
      BY <2>1, <2>2, RecordSteps
    <2>4. Group' = Group
      BY <2>1 DEF Group
    <2> QED BY <2>1, <2>3, <2>4 DEF FollowInv
  <1>4. CASE Finishes
    <2>1. steps' = <<>>
      BY <1>4, FinishFacts DEF Finish
    <2>2. Len(steps') = 0
      BY <2>1, EmptySeq
    <2> QED BY <2>1, <2>2 DEF FollowInv
  <1> QED BY <1>1, <1>2, <1>3, <1>4, NextCases

\* A chain ends only where it may.
LEMMA EndsFollow ==
  ASSUME SInv, FollowInv, Finishes
  PROVE  "stop" \in NextRoles(steps, Available)
  <1>1. steps # <<>>
    BY FinishFacts
  <1>2. ~(Last.role = "delete" /\ Last.outcome = "ok"
            /\ \E n \in 1..Len(steps) : steps[n].role = "read")
    <2> SUFFICES ASSUME Last.role = "delete", Last.outcome = "ok",
                        NEW n \in 1..Len(steps), steps[n].role = "read"
                 PROVE  FALSE
      OBVIOUS
    <2>1. Group.read = "found"
      BY DEF FollowInv
    <2>2. CASE GroupEnds
      BY <1>1, <2>1, <2>2 DEF GroupEnds, CanReadAgain, AtGroup, After
    <2>3. CASE PairEnds
      <3>1. ~(item <= Len(Groups))
        BY <2>3, ChainAssumption DEF PairEnds, AtPair, SInv, TypeOK
      <3> QED BY <1>1, <3>1 DEF SInv, Shape, PairRoles
    <2> QED BY <2>2, <2>3 DEF Finishes
  <1> QED BY <1>1, <1>2 DEF NextRoles, Last

Follows == /\ Len(steps') > Len(steps)
                => steps'[Len(steps')].role \in NextRoles(steps, Available)
           /\ item' # item => "stop" \in NextRoles(steps, Available)

\* A step that calls or ends does what Engine allows a chain.
LEMMA StepFollows == ASSUME SInv, FollowInv, [Next]_vars PROVE Follows
  <1>1. CASE Sends
    <2>1. PICK role \in Roles : FollowsAs(role)
      BY <1>1, CallsFollow
    <2>2. item' = item
      BY <1>1, SendFacts DEF SentAs, Send
    <2> QED BY <2>1, <2>2 DEF Follows, FollowsAs, Last
  <1>2. CASE Serve \/ ServeLate \/ Restart \/ UNCHANGED vars
    <2>1. Len(steps) \in Nat
      BY LenProperties DEF SInv, TypeOK
    <2> QED BY <1>2, <2>1 DEF Serve, ServeLate, Restart, vars, resultVars, Follows
  <1>3. CASE Answered \/ Fails
    <2>1. steps # <<>> /\ UNCHANGED item
      BY <1>3 DEF Answered, Fails, SInv, OneCall, Idle
    <2>2. Record("ok") \/ Record("valid_call_errored") \/ Record("failed")
      BY <1>3 DEF Answered, Fails
    <2>3. Len(steps') = Len(steps) /\ Len(steps) \in Nat
      BY <2>1, <2>2, RecordSteps, LenProperties DEF SInv, TypeOK
    <2> QED BY <2>1, <2>3 DEF Follows
  <1>4. CASE Finishes
    <2>1. steps' = <<>> /\ Len(steps) \in Nat
      BY <1>4, FinishFacts, LenProperties DEF Finish, SInv, TypeOK
    <2>2. Len(steps') = 0
      BY <2>1, EmptySeq
    <2> QED BY <1>4, <2>1, <2>2, EndsFollow DEF Follows
  <1> QED BY <1>1, <1>2, <1>3, <1>4, NextCases

\* The chains make the calls that Engine lets a chain make, and end where it
\* lets one end, so what Engine shows of all such chains holds of these.
THEOREM ChainsAreAsInEngine == Spec => StepsFollowRoles
  <1>1. Init => FollowInv
    BY EmptySeq DEF Init, FollowInv
  <1>2. SInv /\ FollowInv /\ [Next]_vars => FollowInv'
    BY FollowNext
  <1>3. SInv /\ FollowInv /\ [Next]_vars => [Follows]_vars
    BY StepFollows
  <1>4. Spec => [][Follows]_vars
    BY <1>1, <1>2, <1>3, ShapeInvariant, PTL DEF Spec
  <1> QED BY <1>4 DEF StepsFollowRoles, Follows
=============================================================================
