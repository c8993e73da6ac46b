------------------------------- MODULE Engine -------------------------------
(***************************************************************************)
(* run_fuzz (engine.py): connect, list the tools, give each tool its calls *)
(* and its verdict in turn, optionally call it over several connections at *)
(* once, then run the resource lifecycle chains, then close.               *)
(*                                                                         *)
(* Schemas appear only as the number of missing-required and wrong-type    *)
(* variants they yield, and lifecycle chains only as the tools they may    *)
(* call in which role: what an id or a property name decides in a chain is *)
(* left open here (LifecycleChain has it).                                 *)
(***************************************************************************)
EXTENDS ServerConnection, ChainRoles

CONSTANTS
  Tools,               \* the listed tools, in order
  ReadOnly,            \* those annotated readOnlyHint=true
  Missing, Wrong,      \* bad-input variants per tool
  Malformed,           \* those whose schema makes the generator raise
  IncludeDestructive,  \* run_fuzz's include_destructive
  Sequential,          \* run_fuzz's sequential
  Chains               \* the lifecycle chains found: role |-> tool

ASSUME ToolsAssumption ==
  /\ "none" \notin ToolNames
  /\ Tools \in Seq(ToolNames)
  /\ ReadOnly \subseteq ToolNames
  /\ Malformed \subseteq ToolNames
  /\ Missing \in [ToolNames -> Nat]
  /\ Wrong \in [ToolNames -> Nat]

ASSUME FlagsAssumption == IncludeDestructive \in BOOLEAN /\ Sequential \in BOOLEAN

ASSUME ChainsAssumption ==
  Chains \in Seq(UNION {[R -> ToolNames] : R \in SUBSET Roles})

VARIABLES
  pc,            \* where run_fuzz stands
  i,             \* index of the tool the loop is at
  outcomes,      \* result.outcomes of the current tool
  report,        \* report.tools
  terminated,    \* report.terminated_early: the tool it blames, or "none"
  connectError,  \* is report.connect_error set?
  task,          \* the coroutines of the current gather
  chain,         \* index of the lifecycle chain being run
  steps          \* its result.steps; the last one may be pending

loopVars == <<pc, i, outcomes, report, terminated, connectError, task, chain, steps>>
vars == <<connVars, loopVars>>

Verdicts == {"tested", "not_read_only", "unreachable"}
CallRecords == [case : Cases, outcome : Outcomes]
NoConc == [w \in Workers |-> "none"]
ToolResults == [tool : ToolNames, verdict : Verdicts, outcomes : Seq(CallRecords),
                concurrent : [Workers -> Outcomes \cup {"none"}]]

TypeOK ==
  /\ ConnTypeOK
  /\ pc \in {"start", "opening", "next", "calling", "gather", "chains",
             "closing", "done", "raised"}
  /\ i \in 1..Len(Tools) + 1
  /\ outcomes \in Seq(CallRecords)
  /\ report \in Seq(ToolResults)
  /\ terminated \in ToolNames \cup {"none"}
  /\ connectError \in BOOLEAN
  /\ task \in [Workers -> {"off", "ready", "connecting", "calling", "finished"}]
  /\ chain \in Nat
  /\ steps \in Seq([role : Roles, outcome : Outcomes \cup {"pending"}])

Init ==
  /\ ConnInit
  /\ pc = "start"
  /\ i = 1
  /\ outcomes = <<>>
  /\ report = <<>>
  /\ terminated = "none"
  /\ connectError = FALSE
  /\ task = [w \in Workers |-> "off"]
  /\ chain = 1
  /\ steps = <<>>

-----------------------------------------------------------------------------
(***************************************************************************)
(* Connecting and listing the tools.                                       *)
(***************************************************************************)

Start ==
  /\ pc = "start"
  /\ Connect(Main)
  /\ pc' = "opening"
  /\ UNCHANGED <<i, outcomes, report, terminated, connectError, task, chain, steps>>

OpenFails ==
  /\ pc = "opening"
  /\ step[Main] = "refused"
  /\ step' = [step EXCEPT ![Main] = "idle"]
  /\ connectError' = TRUE
  /\ pc' = "done"
  /\ UNCHANGED <<session, unreachable, wire, calls, outcome, service, suspects>>
  /\ UNCHANGED <<i, outcomes, report, terminated, task, chain, steps>>

ListTools ==
  /\ pc = "opening"
  /\ step[Main] = "idle"
  /\ session[Main] = "live"
  /\ pc' = "next"
  /\ UNCHANGED connVars
  /\ UNCHANGED <<i, outcomes, report, terminated, connectError, task, chain, steps>>

ListToolsFails ==
  /\ pc = "opening"
  /\ step[Main] = "idle"
  /\ Close(Main)
  /\ connectError' = TRUE
  /\ pc' = "done"
  /\ UNCHANGED <<unreachable, calls, step, outcome, service, suspects>>
  /\ UNCHANGED <<i, outcomes, report, terminated, task, chain, steps>>

-----------------------------------------------------------------------------
(***************************************************************************)
(* The tool loop.                                                          *)
(***************************************************************************)

Tool == Tools[i]
Permitted(t) == IncludeDestructive \/ t \in ReadOnly

\* The cases of a tool in calling order: valid, then the bad-input variants.
CaseOf(t, n) ==
  IF n = 1 THEN "valid"
  ELSE IF n <= 1 + Missing[t] THEN "missing_required" ELSE "wrong_type"
CaseCount(t) == 1 + Missing[t] + Wrong[t]

\* Mutant of ToolOver: the variant loops do not look at conn.unreachable.
ToolOverUnchecked == Len(outcomes) = CaseCount(Tool)

\* A tool is over when its cases are used up or the server is gone for good.
ToolOver ==
  /\ outcomes # <<>>
  /\ Len(outcomes) = CaseCount(Tool) \/ unreachable[Main]

ReportTool(verdict, calling, concurrent) ==
  /\ report' = Append(report, [tool |-> Tool, verdict |-> verdict,
                               outcomes |-> calling, concurrent |-> concurrent])
  /\ i' = i + 1
  /\ pc' = "next"

\* Mutant of SkipUnreachable: the tool is dropped from the report.
SkipSilently ==
  /\ pc = "next" /\ i <= Len(Tools)
  /\ unreachable[Main]
  /\ i' = i + 1
  /\ UNCHANGED <<connVars, pc, outcomes, report, terminated, connectError,
                 task, chain, steps>>

SkipUnreachable ==
  /\ pc = "next" /\ i <= Len(Tools)
  /\ unreachable[Main]
  /\ ReportTool("unreachable", <<>>, NoConc)
  /\ UNCHANGED <<connVars, outcomes, terminated, connectError, task, chain, steps>>

SkipNotReadOnly ==
  /\ pc = "next" /\ i <= Len(Tools)
  /\ ~unreachable[Main]
  /\ ~Permitted(Tool)
  /\ ReportTool("not_read_only", <<>>, NoConc)
  /\ UNCHANGED <<connVars, outcomes, terminated, connectError, task, chain, steps>>

BeginTool ==
  /\ pc = "next" /\ i <= Len(Tools)
  /\ ~unreachable[Main]
  /\ Permitted(Tool)
  /\ pc' = "calling"
  /\ outcomes' = <<>>
  /\ UNCHANGED <<connVars, i, report, terminated, connectError, task, chain, steps>>

\* Where the generator is entered: before the first case and, whether or not
\* the server is still reachable, before the wrong-type variants.
AtGenerator ==
  /\ pc = "calling" /\ step[Main] = "idle"
  /\ \/ Len(outcomes) \in {0, 1 + Missing[Tool]}
     \/ unreachable[Main] /\ Len(outcomes) <= 1 + Missing[Tool]

\* Nothing catches what the generator raises: the report is lost and the
\* connection stays as it is.
GeneratorRaises ==
  /\ AtGenerator
  /\ Tool \in Malformed
  /\ pc' = "raised"
  /\ UNCHANGED <<connVars, i, outcomes, report, terminated, connectError,
                 task, chain, steps>>

CallTool ==
  /\ pc = "calling"
  /\ ~ToolOver
  /\ Tool \in Malformed => Len(outcomes) <= Missing[Tool]
  /\ Call(Main, Tool, CaseOf(Tool, Len(outcomes) + 1))
  /\ UNCHANGED loopVars

\* Mutant of RecordOutcome: the call's result is read before it has returned.
RecordUnawaited ==
  /\ pc = "calling"
  /\ step[Main] \in {"waiting", "returned"}
  /\ step' = [step EXCEPT ![Main] = "idle"]
  /\ outcomes' = Append(outcomes, [case |-> CaseOf(Tool, Len(outcomes) + 1),
                                   outcome |-> outcome[Main]])
  /\ UNCHANGED <<session, unreachable, wire, calls, outcome, service, suspects>>
  /\ UNCHANGED <<pc, i, report, terminated, connectError, task, chain, steps>>

RecordOutcome ==
  /\ pc = "calling"
  /\ step[Main] = "returned"
  /\ step' = [step EXCEPT ![Main] = "idle"]
  /\ outcomes' = Append(outcomes, [case |-> CaseOf(Tool, Len(outcomes) + 1),
                                   outcome |-> outcome[Main]])
  /\ UNCHANGED <<session, unreachable, wire, calls, outcome, service, suspects>>
  /\ UNCHANGED <<pc, i, report, terminated, connectError, task, chain, steps>>

\* Mutant of FinishUnreachable: terminated_early is not set.
FinishUnnamed ==
  /\ pc = "calling" /\ step[Main] = "idle"
  /\ ToolOver /\ Tool \notin Malformed
  /\ unreachable[Main]
  /\ ReportTool("tested", outcomes, NoConc)
  /\ UNCHANGED <<connVars, outcomes, terminated, connectError, task, chain, steps>>

\* A tool is left with its reachable results only; no concurrent calls.
FinishUnreachable ==
  /\ pc = "calling" /\ step[Main] = "idle"
  /\ ToolOver /\ Tool \notin Malformed
  /\ unreachable[Main]
  /\ terminated' = IF terminated = "none" THEN Tool ELSE terminated
  /\ ReportTool("tested", outcomes, NoConc)
  /\ UNCHANGED <<connVars, outcomes, connectError, task, chain, steps>>

FinishTool ==
  /\ pc = "calling" /\ step[Main] = "idle"
  /\ ToolOver /\ Tool \notin Malformed
  /\ ~unreachable[Main]
  /\ Workers = {}
  /\ ReportTool("tested", outcomes, NoConc)
  /\ UNCHANGED <<connVars, outcomes, terminated, connectError, task, chain, steps>>

-----------------------------------------------------------------------------
(***************************************************************************)
(* _run_concurrent_valid_calls: one coroutine and one connection each.     *)
(***************************************************************************)

StartGather ==
  /\ pc = "calling" /\ step[Main] = "idle"
  /\ ToolOver /\ Tool \notin Malformed
  /\ ~unreachable[Main]
  /\ Workers # {}
  /\ task' = [w \in Workers |-> "ready"]
  /\ pc' = "gather"
  /\ UNCHANGED <<connVars, i, outcomes, report, terminated, connectError, chain, steps>>

WorkerConnects(w) ==
  /\ task[w] = "ready"
  /\ Connect(w)
  /\ task' = [task EXCEPT ![w] = "connecting"]
  /\ UNCHANGED <<pc, i, outcomes, report, terminated, connectError, chain, steps>>

WorkerRefused(w) ==
  /\ task[w] = "connecting"
  /\ step[w] = "refused"
  /\ outcome' = [outcome EXCEPT ![w] = "crash"]
  /\ step' = [step EXCEPT ![w] = "idle"]
  /\ task' = [task EXCEPT ![w] = "finished"]
  /\ UNCHANGED <<session, unreachable, wire, calls, service, suspects>>
  /\ UNCHANGED <<pc, i, outcomes, report, terminated, connectError, chain, steps>>

WorkerCalls(w) ==
  /\ task[w] = "connecting"
  /\ Call(w, Tool, "valid")
  /\ task' = [task EXCEPT ![w] = "calling"]
  /\ UNCHANGED <<pc, i, outcomes, report, terminated, connectError, chain, steps>>

\* Mutant of WorkerReturns: no finally clause.
WorkerReturnsOpen(w) ==
  /\ task[w] = "calling"
  /\ step[w] = "returned"
  /\ step' = [step EXCEPT ![w] = "idle"]
  /\ task' = [task EXCEPT ![w] = "finished"]
  /\ UNCHANGED <<session, unreachable, wire, calls, outcome, service, suspects>>
  /\ UNCHANGED <<pc, i, outcomes, report, terminated, connectError, chain, steps>>

\* The finally clause closes the connection whatever the call came to.
WorkerReturns(w) ==
  /\ task[w] = "calling"
  /\ step[w] = "returned"
  /\ Close(w)
  /\ step' = [step EXCEPT ![w] = "idle"]
  /\ task' = [task EXCEPT ![w] = "finished"]
  /\ UNCHANGED <<unreachable, calls, outcome, service, suspects>>
  /\ UNCHANGED <<pc, i, outcomes, report, terminated, connectError, chain, steps>>

\* Mutant of Gathered: the first coroutine to return ends the wait.
GatheredFirst ==
  /\ pc = "gather"
  /\ \E w \in Workers : task[w] = "finished"
  /\ ReportTool("tested", outcomes, [w \in Workers |-> outcome[w]])
  /\ task' = [w \in Workers |-> "off"]
  /\ UNCHANGED connVars
  /\ UNCHANGED <<outcomes, terminated, connectError, chain, steps>>

\* gather returns when every coroutine has; its connections are dropped.
Gathered ==
  /\ pc = "gather"
  /\ \A w \in Workers : task[w] = "finished"
  /\ ReportTool("tested", outcomes, [w \in Workers |-> outcome[w]])
  /\ task' = [w \in Workers |-> "off"]
  /\ calls' = [k \in Clients |-> IF k = Main THEN calls[k] ELSE 0]
  /\ outcome' = [k \in Clients |-> IF k = Main THEN outcome[k] ELSE "none"]
  /\ unreachable' = [k \in Clients |-> k = Main /\ unreachable[k]]
  /\ suspects' = [k \in Clients |-> IF k = Main THEN suspects[k] ELSE {}]
  /\ UNCHANGED <<session, wire, step, service>>
  /\ UNCHANGED <<outcomes, terminated, connectError, chain, steps>>

-----------------------------------------------------------------------------
(***************************************************************************)
(* The lifecycle chains and the end of the run.                            *)
(***************************************************************************)

LoopEnds ==
  /\ pc = "next" /\ i = Len(Tools) + 1
  /\ pc' = IF Sequential /\ IncludeDestructive /\ ~unreachable[Main]
             THEN "chains" ELSE "closing"
  /\ UNCHANGED <<connVars, i, outcomes, report, terminated, connectError,
                 task, chain, steps>>

ToolFor(c, role) ==
  IF role = "read_after_delete" THEN c["read"] ELSE c[role]

ChainIdle == pc = "chains" /\ chain <= Len(Chains) /\ step[Main] = "idle"

ChainCall ==
  /\ ChainIdle
  /\ \E role \in NextRoles(steps, DOMAIN Chains[chain]) \ {"stop"} :
       /\ Call(Main, ToolFor(Chains[chain], role), "valid")
       /\ steps' = Append(steps, [role |-> role, outcome |-> "pending"])
  /\ UNCHANGED <<pc, i, outcomes, report, terminated, connectError, task, chain>>

ChainReturns ==
  /\ pc = "chains"
  /\ step[Main] = "returned"
  /\ step' = [step EXCEPT ![Main] = "idle"]
  /\ steps' = [steps EXCEPT ![Len(steps)].outcome = outcome[Main]]
  /\ UNCHANGED <<session, unreachable, wire, calls, outcome, service, suspects>>
  /\ UNCHANGED <<pc, i, outcomes, report, terminated, connectError, task, chain>>

ChainStops ==
  /\ ChainIdle
  /\ "stop" \in NextRoles(steps, DOMAIN Chains[chain])
  /\ chain' = chain + 1
  /\ steps' = <<>>
  /\ UNCHANGED connVars
  /\ UNCHANGED <<pc, i, outcomes, report, terminated, connectError, task>>

ChainsEnd ==
  /\ pc = "chains" /\ chain > Len(Chains)
  /\ pc' = "closing"
  /\ UNCHANGED <<connVars, i, outcomes, report, terminated, connectError,
                 task, chain, steps>>

CloseRun ==
  /\ pc = "closing"
  /\ Close(Main)
  /\ pc' = "done"
  /\ UNCHANGED <<unreachable, calls, step, outcome, service, suspects>>
  /\ UNCHANGED <<i, outcomes, report, terminated, connectError, task, chain, steps>>

-----------------------------------------------------------------------------
MainStep ==
  \/ Start \/ OpenFails \/ ListTools \/ ListToolsFails
  \/ SkipUnreachable \/ SkipNotReadOnly \/ BeginTool \/ GeneratorRaises
  \/ CallTool \/ RecordOutcome \/ FinishUnreachable \/ FinishTool
  \/ StartGather \/ Gathered
  \/ LoopEnds \/ ChainCall \/ ChainReturns \/ ChainStops \/ ChainsEnd \/ CloseRun

WorkerStep(w) ==
  WorkerConnects(w) \/ WorkerRefused(w) \/ WorkerCalls(w) \/ WorkerReturns(w)

Connections == (\E k \in Clients : ConnStep(k)) /\ UNCHANGED loopVars
Server      == ServerStep /\ UNCHANGED loopVars

\* The run is over; what is left of the server does not matter any more.
Over == pc \in {"done", "raised"} /\ UNCHANGED vars

Next ==
  \/ MainStep
  \/ \E w \in Workers : WorkerStep(w)
  \/ Connections
  \/ Server
  \/ Over

(***************************************************************************)
(* Fairness.  The event loop runs every coroutine that can run.  wait_for  *)
(* bounds every call.  Nothing bounds a handshake or list_tools: that they *)
(* end one way or the other is assumed of the server.                      *)
(***************************************************************************)
Fairness ==
  /\ WF_vars(MainStep)
  /\ \A w \in Workers : WF_vars(WorkerStep(w))
  /\ \A k \in Clients : WF_vars(ConnStep(k) /\ UNCHANGED loopVars)

Spec == Init /\ [][Next]_vars /\ Fairness

-----------------------------------------------------------------------------
(***************************************************************************)
(* Properties.                                                             *)
(***************************************************************************)

\* The report as FuzzRun sees it: a verdict per tool, and whether a tested
\* tool was given every case its schema calls for.
Abstracted(r) ==
  [tool |-> r.tool, verdict |-> r.verdict,
   complete |-> r.verdict = "tested" /\ Len(r.outcomes) = CaseCount(r.tool)]

Abstract == INSTANCE FuzzRun WITH
  ToolList <- Tools,
  MayTest  <- {t \in ToolNames : Permitted(t)},
  verdicts <- [n \in 1..Len(report) |-> Abstracted(report[n])],
  lost     <- terminated # "none",
  status   <- IF pc = "done" THEN "returned"
              ELSE IF pc = "raised" THEN "raised" ELSE "running"

\* The tool loop keeps FuzzRun's promise: no tool is dropped, repeated, called
\* without permission or cut short, and terminated_early is set exactly when
\* the server is lost for good during a tool's own calls.
ImplementsFuzzRun == Abstract!Spec

\* Between two calls nothing is pending on the connection's session: a request
\* that timed out, or its late answer, can only be on a session that is gone
\* (the reconnect in every failing branch of _call_with_outcome).
CleanSession ==
  \A k \in Clients : step[k] \in {"idle", "returned"} => wire[k] = {}

\* From the tool list on, whenever no call is in progress the flag unreachable
\* says exactly whether the connection has no session to call on.
FlagTellsTruth ==
  /\ pc \in {"next", "calling", "gather", "chains", "closing"}
  /\ step[Main] = "idle"
  => (unreachable[Main] <=> session[Main] = "none")

\* The tool blamed in terminated_early is one that was being served when the
\* server died, if any tool was: not the next one to find the server gone.
FairBlame ==
  terminated # "none" /\ suspects[Main] # {} => terminated \in suspects[Main]

\* No connection outlives its use: not a worker's after its gather, and none
\* at all once the report is returned.
NothingLeftOpen ==
  /\ pc = "done" => \A k \in Clients : session[k] = "none"
  /\ pc # "gather" => \A w \in Workers : session[w] = "none" /\ step[w] = "idle"

\* A tool that kept the server reachable has an outcome of every concurrent
\* call in its result, and no other tool has any.
EveryWorkerReports ==
  \A n \in 1..Len(report) : \A w \in Workers :
    (report[n].concurrent[w] \in Outcomes)
      <=> (report[n].verdict = "tested" /\ report[n].tool # terminated)

\* The outcomes that a call of this case can have.
CanBe(case) ==
  Outcomes \ {IF case = "valid" THEN "graceful_error" ELSE "valid_call_errored"}

Scorable(cases) == \A n \in 1..Len(cases) :
  /\ cases[n].case = "valid" <=> n = 1
  /\ cases[n].outcome \in CanBe(cases[n].case)

\* What build_report (report.py:257) takes for granted of a run, and Report of
\* its input: however the run went, each outcome is the one of its own call, a
\* tested tool has its valid call, once and first, and no other tool has any.
ReportIsScorable == \A n \in 1..Len(report) :
  /\ report[n].verdict = "tested" <=> report[n].outcomes # <<>>
  /\ Scorable(report[n].outcomes)
  /\ \A w \in Workers : report[n].concurrent[w] \in CanBe("valid") \cup {"none"}

\* Nothing calls a tool over a connection that has no session ("the same doomed
\* call", _try_reconnect); true of the tool loop and of the workers.
NoDoomedCall ==
  [][\A k \in Clients : calls'[k] > calls[k] => session[k] # "none"]_vars

\* README, HTTP targets: "if a tool takes the server down for good, the run
\* reports terminated_early".  Holds unless the lifecycle chains run.
LossIsReported ==
  pc = "done" /\ ~connectError /\ unreachable[Main] => terminated # "none"

\* The run comes to an end whatever single calls do: no call is waited for
\* beyond its timeout, and no gather for a coroutine that does not return.
RunEnds == <>(pc \in {"done", "raised"})
=============================================================================
