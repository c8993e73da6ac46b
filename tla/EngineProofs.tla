---------------------------- MODULE EngineProofs ----------------------------
(***************************************************************************)
(* The safety properties of Engine, for every number of tools, workers and *)
(* lifecycle chains.  They follow from one inductive invariant, which says *)
(* for each place of run_fuzz, of a worker and of a chain what the place   *)
(* means for the connections and for the report; two more say who can be   *)
(* suspected of what, and what has become of the concurrent calls.         *)
(***************************************************************************)
EXTENDS Engine, ServerConnectionProofs, SequenceTheorems

\* Where the shared connection stands at each place of run_fuzz.
MainPlace ==
  /\ pc \in {"start", "next", "gather", "closing", "done"} => step[Main] = "idle"
  /\ pc = "opening" =>
       /\ step[Main] \in {"connecting", "refused", "idle"}
       /\ step[Main] = "idle" => session[Main] # "none"
  /\ pc \in {"calling", "chains", "raised"} =>
       step[Main] \notin {"connecting", "refused"}
  /\ pc = "done" => session[Main] = "none"
  /\ /\ pc \in {"next", "calling", "gather", "chains", "closing"}
     /\ step[Main] = "idle"
     /\ session[Main] = "none"
     => unreachable[Main]

\* A worker has a session only between its connect() and its finally clause.
WorkerPlace ==
  \A w \in Workers :
    /\ (pc = "gather") <=> (task[w] # "off")
    /\ task[w] \in {"off", "ready", "finished"} =>
         step[w] = "idle" /\ session[w] = "none"
    /\ task[w] = "connecting" =>
         /\ step[w] \in {"connecting", "refused", "idle"}
         /\ step[w] = "idle" => session[w] # "none"
    /\ task[w] = "calling" =>
         step[w] \in {"waiting", "reconnect", "handshake", "returned"}
    /\ task[w] = "finished" => outcome[w] \in Outcomes

\* How far the report is, and when the server has been lost.
LoopPlace ==
  /\ i = Len(report) + 1
  /\ pc \in {"start", "opening"} => report = <<>> /\ terminated = "none"
  /\ pc \in {"calling", "gather"} =>
       i <= Len(Tools) /\ Permitted(Tool) /\ terminated = "none"
  /\ pc = "calling" =>
       /\ Len(outcomes) <= CaseCount(Tool)
       /\ step[Main] # "idle" => Len(outcomes) < CaseCount(Tool)
       /\ step[Main] = "idle" /\ outcomes = <<>> => ~unreachable[Main]
  /\ pc = "gather" => Len(outcomes) = CaseCount(Tool) /\ ~unreachable[Main]
  /\ pc = "next" => (unreachable[Main] <=> terminated # "none")
  /\ pc \in {"chains", "closing"} \/ (pc = "done" /\ ~connectError) =>
       i = Len(Tools) + 1
  /\ connectError => pc = "done" /\ report = <<>>
  /\ ~Sequential /\ (pc = "closing" \/ (pc = "done" /\ ~connectError)) =>
       (unreachable[Main] => terminated # "none")

\* A chain calls only tools it has, and has a pending step while it calls.
ChainPlace ==
  /\ pc \in {"start", "opening", "next", "calling", "gather"} =>
       chain = 1 /\ steps = <<>>
  /\ pc = "chains" =>
       /\ Sequential
       /\ chain \in Nat \ {0}
       /\ step[Main] # "idle" => chain <= Len(Chains) /\ steps # <<>>
       /\ chain <= Len(Chains) => \A n \in 1..Len(steps) :
            steps[n].role \in DOMAIN Chains[chain] \cup {"read_after_delete"}

IInv == TypeOK /\ ConnInv /\ MainPlace /\ WorkerPlace /\ LoopPlace /\ ChainPlace

-----------------------------------------------------------------------------
(***************************************************************************)
(* Helpers.                                                                *)
(***************************************************************************)

\* The tool the loop is at is one the server listed.
LEMMA ToolIsListed ==
  ASSUME TypeOK, i <= Len(Tools)
  PROVE  Tool \in ToolNames
  BY ToolsAssumption DEF TypeOK, Tool

\* Every tool has at least its valid case.
LEMMA CaseTypes ==
  ASSUME NEW t \in ToolNames
  PROVE  /\ CaseCount(t) \in Nat \ {0}
         /\ \A n \in Nat : CaseOf(t, n) \in Cases
  BY ToolsAssumption DEF CaseCount, CaseOf, Cases

\* A step of run_fuzz that touches no connection keeps the invariant of them all.
LEMMA ConnUnchanged ==
  ASSUME ConnInv, UNCHANGED connVars
  PROVE  ConnInv' /\ \A k \in Clients : Keeps(k)
  BY DEF ConnInv, ConnTypeOK, ConnOK, connVars, Keeps

\* One more tool in the report, and the loop at the next one.
LEMMA ReportGrows ==
  ASSUME TypeOK, i <= Len(Tools), NEW v \in Verdicts, NEW o \in Seq(CallRecords),
         NEW c \in [Workers -> Outcomes \cup {"none"}], ReportTool(v, o, c)
  PROVE  /\ report' \in Seq(ToolResults)
         /\ Len(report') = Len(report) + 1
         /\ report' # <<>>
         /\ i' = i + 1 /\ i' \in 1..Len(Tools) + 1
         /\ pc' = "next"
  <1> DEFINE r == [tool |-> Tool, verdict |-> v, outcomes |-> o, concurrent |-> c]
  <1>1. r \in ToolResults
    BY ToolIsListed DEF ToolResults
  <1>2. report \in Seq(ToolResults) /\ report' = Append(report, r)
    BY DEF TypeOK, ReportTool
  <1>3. i \in 1..Len(Tools) + 1 /\ Len(Tools) \in Nat
    BY ToolsAssumption DEF TypeOK
  <1> QED BY <1>1, <1>2, <1>3, AppendProperties DEF ReportTool

-----------------------------------------------------------------------------
(***************************************************************************)
(* The invariant holds initially and across the steps of the connections   *)
(* and of the server.                                                      *)
(***************************************************************************)

\* Before run_fuzz starts.
LEMMA InitInv == Init => IInv
  <1> SUFFICES ASSUME Init PROVE IInv
    OBVIOUS
  <1>1. ConnInv
    BY ConnInitInv DEF Init
  <1>2. i \in 1..Len(Tools) + 1
    BY ToolsAssumption DEF Init
  <1>3. TypeOK
    <2>1. /\ outcomes \in Seq(CallRecords)
          /\ report \in Seq(ToolResults)
          /\ steps \in Seq([role : Roles, outcome : Outcomes \cup {"pending"}])
      BY DEF Init
    <2>2. task \in [Workers -> {"off", "ready", "connecting", "calling", "finished"}]
      BY DEF Init
    <2> QED BY <1>1, <1>2, <2>1, <2>2 DEF Init, ConnInv, TypeOK
  <1> QED BY <1>1, <1>3, ClientsAssumption
      DEF Init, ConnInit, IInv, MainPlace, WorkerPlace, LoopPlace, ChainPlace, Clients

\* Nothing that happens to the server moves run_fuzz or a worker.
LEMMA ServerInv == ASSUME IInv, Server PROVE IInv'
  <1>1. ConnInv' /\ \A k \in Clients : Keeps(k)
    BY ServerStepInv DEF IInv, Server
  <1> QED BY <1>1 DEF IInv, Server, loopVars, TypeOK, ConnInv, Keeps, Clients,
        MainPlace, WorkerPlace, LoopPlace, ChainPlace, Tool, Permitted, CaseCount

\* A step of one connection: of the shared one or of a worker's.
LEMMA ConnectionsInv == ASSUME IInv, Connections PROVE IInv'
  <1> PICK k \in Clients : ConnStep(k)
    BY DEF Connections
  <1> USE DEF Keeps, Clients
  <1>1. /\ ConnInv'
        /\ <<step[k], step'[k]>> \in Moves
        /\ step'[k] = "idle" => session'[k] # "none"
        /\ \A j \in Clients \ {k} : Keeps(j)
    BY ConnStepInv DEF IInv
  <1>2. UNCHANGED loopVars
    BY DEF Connections
  <1>3. TypeOK'
    BY <1>1, <1>2 DEF IInv, TypeOK, ConnInv, loopVars
  <1>4. MainPlace'
    BY <1>1, <1>2 DEF IInv, MainPlace, Moves, loopVars
  <1>5. WorkerPlace'
    BY <1>1, <1>2, ClientsAssumption
    DEF IInv, WorkerPlace, Moves, loopVars, ConnInv, ConnOK
  <1>6. LoopPlace'
    BY <1>1, <1>2 DEF IInv, LoopPlace, MainPlace, Moves, loopVars, Tool, Permitted, CaseCount
  <1>7. ChainPlace'
    BY <1>1, <1>2 DEF IInv, ChainPlace, Moves, loopVars
  <1> QED BY <1>1, <1>3, <1>4, <1>5, <1>6, <1>7 DEF IInv

-----------------------------------------------------------------------------
(***************************************************************************)
(* The steps of run_fuzz.                                                  *)
(***************************************************************************)

\* run_fuzz calls connect on the main connection.
LEMMA StartInv == ASSUME IInv, Start PROVE IInv'
  <1>1. /\ ConnInv'
        /\ step'[Main] = "connecting"
        /\ \A j \in Clients \ {Main} : Keeps(j)
    BY ConnectInv DEF IInv, Start, Clients
  <1> QED BY <1>1, ClientsAssumption DEF IInv, Start, TypeOK, ConnInv, Keeps, Clients,
        MainPlace, WorkerPlace, LoopPlace, ChainPlace

\* The connection is idle and has no session when run_fuzz gives up on it.
LEMMA OpeningInv ==
  ASSUME IInv, OpenFails \/ ListTools \/ ListToolsFails
  PROVE  IInv'
  <1> USE DEF IInv, TypeOK, ConnInv, ConnTypeOK, ConnOK, Clients, Close, Steps
  <1>1. CASE OpenFails
    BY <1>1, ClientsAssumption DEF OpenFails, MainPlace, WorkerPlace, LoopPlace, ChainPlace
  <1>2. CASE ListTools
    BY <1>2, ClientsAssumption
    DEF ListTools, connVars, MainPlace, WorkerPlace, LoopPlace, ChainPlace
  <1>3. CASE ListToolsFails
    BY <1>3, ClientsAssumption
    DEF ListToolsFails, MainPlace, WorkerPlace, LoopPlace, ChainPlace
  <1> QED BY <1>1, <1>2, <1>3

\* Skipping a tool only adds its verdict.
LEMMA SkipInv ==
  ASSUME IInv, SkipUnreachable \/ SkipNotReadOnly
  PROVE  IInv'
  <1>1. ConnInv' /\ \A k \in Clients : Keeps(k)
    BY ConnUnchanged DEF IInv, SkipUnreachable, SkipNotReadOnly
  <1>2. pc = "next" /\ i <= Len(Tools) /\ UNCHANGED <<outcomes, terminated,
          connectError, task, chain, steps>>
    BY DEF SkipUnreachable, SkipNotReadOnly
  <1>3. PICK v \in Verdicts : ReportTool(v, <<>>, NoConc)
    BY DEF SkipUnreachable, SkipNotReadOnly, Verdicts
  <1>4. /\ report' \in Seq(ToolResults)
        /\ Len(report') = Len(report) + 1
        /\ report' # <<>>
        /\ i' = i + 1 /\ i' \in 1..Len(Tools) + 1
        /\ pc' = "next"
    <2>1. NoConc \in [Workers -> Outcomes \cup {"none"}] /\ <<>> \in Seq(CallRecords)
      BY DEF NoConc
    <2> QED BY <1>2, <1>3, <2>1, ReportGrows DEF IInv
  <1> QED BY <1>1, <1>2, <1>4 DEF IInv, TypeOK, ConnInv, Keeps, Clients,
        MainPlace, WorkerPlace, LoopPlace, ChainPlace

\* A tool whose arguments are generated, or whose schema makes the generator raise.
LEMMA BeginInv ==
  ASSUME IInv, BeginTool \/ GeneratorRaises
  PROVE  IInv'
  <1>1. ConnInv' /\ \A k \in Clients : Keeps(k)
    BY ConnUnchanged DEF IInv, BeginTool, GeneratorRaises
  <1> USE DEF IInv, TypeOK, ConnInv, Keeps, Clients
  <1>2. CASE BeginTool
    <2>1. CaseCount(Tool) \in Nat \ {0}
      BY <1>2, ToolIsListed, CaseTypes DEF BeginTool
    <2>2. Tool' = Tool /\ CaseCount(Tool)' = CaseCount(Tool)
      BY <1>2 DEF BeginTool, Tool, CaseCount
    <2>3. TypeOK' /\ MainPlace' /\ ChainPlace'
      BY <1>1, <1>2 DEF BeginTool, MainPlace, ChainPlace
    <2>4. WorkerPlace'
      BY <1>1, <1>2 DEF BeginTool, WorkerPlace
    <2>5. LoopPlace'
      BY <1>1, <1>2, <2>1, <2>2 DEF BeginTool, Permitted, MainPlace, LoopPlace
    <2> QED BY <1>1, <2>3, <2>4, <2>5
  <1>3. CASE GeneratorRaises
    BY <1>1, <1>3 DEF GeneratorRaises, AtGenerator,
       MainPlace, WorkerPlace, LoopPlace, ChainPlace
  <1> QED BY <1>2, <1>3

\* A tool that is not over has a case left, and a session to call on.
LEMMA CallToolInv == ASSUME IInv, CallTool PROVE IInv'
  <1>1. /\ Tool \in ToolNames
        /\ CaseOf(Tool, Len(outcomes) + 1) \in Cases
        /\ CaseCount(Tool) \in Nat \ {0}
        /\ Len(outcomes) \in Nat
    BY ToolIsListed, CaseTypes DEF IInv, CallTool, LoopPlace, TypeOK
  <1>2. /\ ConnInv'
        /\ step'[Main] \in {"reconnect", "waiting"}
        /\ \A j \in Clients \ {Main} : Keeps(j)
    BY <1>1, CallInv DEF IInv, CallTool, Clients
  <1>3. step[Main] = "idle" /\ UNCHANGED loopVars
    BY DEF CallTool, Call
  <1>4. Len(outcomes) < CaseCount(Tool)
    BY <1>1, <1>3 DEF IInv, CallTool, ToolOver, LoopPlace, TypeOK
  <1>5. Tool' = Tool /\ CaseCount(Tool)' = CaseCount(Tool)
    BY <1>3 DEF Tool, CaseCount, loopVars
  <1>6. TypeOK' /\ MainPlace' /\ ChainPlace'
    BY <1>2, <1>3 DEF IInv, CallTool, TypeOK, ConnInv, loopVars, MainPlace, ChainPlace
  <1>7. WorkerPlace'
    BY <1>2, <1>3, ClientsAssumption DEF IInv, WorkerPlace, Keeps, Clients, loopVars
  <1>8. LoopPlace'
    BY <1>2, <1>3, <1>4, <1>5
    DEF IInv, CallTool, LoopPlace, Permitted, loopVars, MainPlace
  <1> QED BY <1>2, <1>6, <1>7, <1>8 DEF IInv

\* An outcome of the tool loop, the server lost on it or not.
LEMMA RecordInv == ASSUME IInv, RecordOutcome PROVE IInv'
  <1> DEFINE c == [case |-> CaseOf(Tool, Len(outcomes) + 1), outcome |-> outcome[Main]]
  <1>1. c \in CallRecords /\ CaseCount(Tool) \in Nat
    BY ToolIsListed, CaseTypes
    DEF IInv, RecordOutcome, LoopPlace, TypeOK, CallRecords, ConnInv, ConnOK, Clients
  <1>2. /\ outcomes' \in Seq(CallRecords)
        /\ Len(outcomes') = Len(outcomes) + 1
        /\ outcomes' # <<>>
    BY <1>1, AppendProperties DEF IInv, TypeOK, RecordOutcome
  <1>3. ConnInv'
    BY DEF IInv, RecordOutcome, ConnInv, ConnTypeOK, ConnOK, Steps
  <1>4. Tool' = Tool /\ CaseCount(Tool)' = CaseCount(Tool)
    BY DEF RecordOutcome, Tool, CaseCount
  <1> QED BY <1>1, <1>2, <1>3, <1>4, ClientsAssumption
      DEF IInv, RecordOutcome, TypeOK, ConnInv, ConnTypeOK, ConnOK, Clients, Permitted,
          MainPlace, WorkerPlace, LoopPlace, ChainPlace

\* The verdict of a tested tool that is not called concurrently.
LEMMA FinishInv ==
  ASSUME IInv, FinishUnreachable \/ FinishTool
  PROVE  IInv'
  <1>1. ConnInv' /\ \A k \in Clients : Keeps(k)
    BY ConnUnchanged DEF IInv, FinishUnreachable, FinishTool
  <1>2. /\ pc = "calling" /\ step[Main] = "idle" /\ i <= Len(Tools)
        /\ ReportTool("tested", outcomes, NoConc)
        /\ UNCHANGED <<outcomes, connectError, task, chain, steps>>
    BY DEF IInv, LoopPlace, FinishUnreachable, FinishTool
  <1>3. Tool \in ToolNames /\ Tool # "none" /\ terminated = "none"
    BY <1>2, ToolIsListed, ToolsAssumption DEF IInv, LoopPlace
  <1>4. unreachable[Main] <=> terminated' # "none"
    BY <1>3 DEF FinishUnreachable, FinishTool
  <1>5. terminated' \in ToolNames \cup {"none"}
    BY <1>3 DEF FinishUnreachable, FinishTool
  <1>6. /\ report' \in Seq(ToolResults)
        /\ Len(report') = Len(report) + 1
        /\ report' # <<>>
        /\ i' = i + 1 /\ i' \in 1..Len(Tools) + 1
        /\ pc' = "next"
    <2>1. NoConc \in [Workers -> Outcomes \cup {"none"}] /\ "tested" \in Verdicts
      BY DEF NoConc, Verdicts
    <2> QED BY <1>2, <2>1, ReportGrows DEF IInv, TypeOK
  <1>7. TypeOK'
    BY <1>1, <1>2, <1>5, <1>6 DEF IInv, TypeOK, ConnInv
  <1>8. MainPlace' /\ ChainPlace'
    BY <1>1, <1>2, <1>6 DEF IInv, MainPlace, ChainPlace, Keeps, Clients
  <1>9. WorkerPlace'
    BY <1>1, <1>2, <1>6 DEF IInv, WorkerPlace, Keeps, Clients
  <1>10. LoopPlace'
    BY <1>1, <1>2, <1>4, <1>6 DEF IInv, LoopPlace, Keeps, Clients
  <1> QED BY <1>1, <1>7, <1>8, <1>9, <1>10 DEF IInv

\* asyncio.gather makes its coroutines; none of them has a connection yet.
LEMMA StartGatherInv == ASSUME IInv, StartGather PROVE IInv'
  <1>1. ConnInv' /\ \A k \in Clients : Keeps(k)
    BY ConnUnchanged DEF IInv, StartGather
  <1>2. Tool' = Tool /\ CaseCount(Tool)' = CaseCount(Tool)
    BY DEF StartGather, Tool, CaseCount
  <1>3. TypeOK' /\ MainPlace' /\ ChainPlace'
    BY <1>1 DEF IInv, StartGather, TypeOK, ConnInv, MainPlace, ChainPlace, Keeps, Clients
  <1>4. WorkerPlace'
    BY <1>1 DEF IInv, StartGather, WorkerPlace, Keeps, Clients, TypeOK
  <1>5. LoopPlace'
    BY <1>1, <1>2 DEF IInv, StartGather, LoopPlace, Permitted, ToolOver, Keeps, Clients
  <1> QED BY <1>1, <1>3, <1>4, <1>5 DEF IInv

\* A worker moves nothing but its own connection and task.
LEMMA WorkerInv ==
  ASSUME IInv, NEW w \in Workers, WorkerStep(w)
  PROVE  IInv'
  <1>1. /\ w \in Clients /\ w # Main
        /\ UNCHANGED <<pc, i, outcomes, report, terminated, connectError, chain, steps>>
        /\ task' = [task EXCEPT ![w] = task'[w]]
        /\ task[w] \notin {"off", "finished"} /\ task'[w] # "off"
    BY ClientsAssumption
    DEF Clients, WorkerStep, WorkerConnects, WorkerRefused, WorkerCalls, WorkerReturns,
        IInv, TypeOK
  <1>2. pc = "gather" /\ Tool \in ToolNames /\ "valid" \in Cases
    BY <1>1, ToolIsListed DEF IInv, WorkerPlace, LoopPlace, Cases
  <1>3. /\ ConnInv'
        /\ \A j \in Clients \ {w} : Keeps(j)
        /\ task'[w] \in {"connecting", "calling", "finished"}
        /\ task'[w] = "connecting" => step'[w] = "connecting"
        /\ task'[w] = "calling" => step'[w] \in {"waiting", "reconnect"}
        /\ task'[w] = "finished" =>
             step'[w] = "idle" /\ session'[w] = "none" /\ outcome'[w] \in Outcomes
    <2> USE DEF IInv, TypeOK
    <2>1. CASE WorkerConnects(w)
      BY <1>1, <2>1, ConnectInv DEF WorkerConnects
    <2>2. CASE WorkerRefused(w)
      BY <1>1, <2>2 DEF WorkerRefused, ConnInv, ConnTypeOK, ConnOK, Keeps, Steps, Outcomes
    <2>3. CASE WorkerCalls(w)
      BY <1>1, <1>2, <2>3, CallInv DEF WorkerCalls
    <2>4. CASE WorkerReturns(w)
      BY <1>1, <2>4 DEF WorkerReturns, Close, ConnInv, ConnTypeOK, ConnOK, Keeps, Steps
    <2> QED BY <2>1, <2>2, <2>3, <2>4 DEF WorkerStep
  <1>4. TypeOK'
    BY <1>1, <1>3 DEF IInv, TypeOK, ConnInv
  <1>5. MainPlace' /\ ChainPlace'
    BY <1>1, <1>2, <1>3 DEF IInv, MainPlace, ChainPlace, Keeps, Clients
  <1>6. WorkerPlace'
    BY <1>1, <1>2, <1>3 DEF IInv, WorkerPlace, Keeps, Clients, TypeOK
  <1>7. LoopPlace'
    BY <1>1, <1>2, <1>3 DEF IInv, LoopPlace, Keeps, Clients, Tool, Permitted, CaseCount
  <1> QED BY <1>3, <1>4, <1>5, <1>6, <1>7 DEF IInv

\* The verdict of a tested tool once all its concurrent calls have returned.
LEMMA GatheredInv == ASSUME IInv, Gathered PROVE IInv'
  <1> DEFINE conc == [w \in Workers |-> outcome[w]]
  <1>1. conc \in [Workers -> Outcomes \cup {"none"}] /\ "tested" \in Verdicts
    BY DEF IInv, WorkerPlace, Gathered, Verdicts
  <1>2. /\ report' \in Seq(ToolResults)
        /\ Len(report') = Len(report) + 1
        /\ report' # <<>>
        /\ i' = i + 1 /\ i' \in 1..Len(Tools) + 1
        /\ pc' = "next"
    BY <1>1, ReportGrows DEF IInv, TypeOK, LoopPlace, Gathered
  <1>3. ConnInv'
    BY ClientsAssumption
    DEF IInv, Gathered, MainPlace, WorkerPlace, ConnInv, ConnTypeOK, ConnOK, Clients
  <1>4. /\ unreachable'[Main] = unreachable[Main]
        /\ \A k \in Clients : step'[k] = step[k] /\ session'[k] = session[k]
    BY DEF IInv, Gathered, Clients, ConnInv, ConnTypeOK
  <1>5. TypeOK'
    BY <1>2, <1>3 DEF IInv, Gathered, TypeOK, ConnInv
  <1>6. MainPlace' /\ ChainPlace' /\ LoopPlace'
    BY <1>2, <1>4 DEF IInv, Gathered, MainPlace, ChainPlace, LoopPlace, Clients
  <1>7. WorkerPlace'
    BY <1>2, <1>4 DEF IInv, Gathered, WorkerPlace, Clients
  <1> QED BY <1>3, <1>5, <1>6, <1>7 DEF IInv

\* Whether the loop goes on to the chains or straight to the end.
LEMMA LoopEndsInv == ASSUME IInv, LoopEnds PROVE IInv'
  <1>1. ConnInv' /\ \A k \in Clients : Keeps(k)
    BY ConnUnchanged DEF IInv, LoopEnds
  <1>2. step[Main] = "idle" /\ chain = 1 /\ steps = <<>>
    BY DEF IInv, LoopEnds, MainPlace, ChainPlace
  <1>3. pc = "next" /\ pc' \in {"chains", "closing"} /\ (pc' = "chains" => Sequential)
    BY DEF LoopEnds
  <1>4. UNCHANGED <<connVars, i, outcomes, report, terminated, connectError,
                    task, chain, steps>>
    BY DEF LoopEnds
  <1>5. TypeOK' /\ MainPlace' /\ WorkerPlace' /\ LoopPlace'
    BY <1>1, <1>3, <1>4 DEF IInv, LoopEnds, TypeOK, ConnInv, Keeps, Clients,
       MainPlace, WorkerPlace, LoopPlace
  <1>6. ChainPlace'
    BY <1>2, <1>3, <1>4 DEF ChainPlace, connVars
  <1> QED BY <1>1, <1>5, <1>6 DEF IInv

\* A chain's next role has a tool to call.
LEMMA NextRoleHasTool ==
  ASSUME IInv, ChainIdle, NEW role \in NextRoles(steps, DOMAIN Chains[chain]) \ {"stop"}
  PROVE  /\ role \in Roles
         /\ role \in DOMAIN Chains[chain] \cup {"read_after_delete"}
         /\ ToolFor(Chains[chain], role) \in ToolNames
  <1>1. PICK R \in SUBSET Roles : Chains[chain] \in [R -> ToolNames]
    <2> DEFINE S == UNION {[R -> ToolNames] : R \in SUBSET Roles}
    <2>1. Chains \in Seq(S) /\ chain \in Nat \ {0} /\ chain <= Len(Chains)
      BY ChainsAssumption DEF IInv, ChainPlace, ChainIdle
    <2>2. Chains[chain] \in S
      <3> HIDE DEF S
      <3>1. chain \in 1..Len(Chains)
        BY <2>1, LenProperties
      <3> QED BY <2>1, <3>1, ElementOfSeq
    <2> QED BY <2>2
  <1>2. DOMAIN Chains[chain] = R
    BY <1>1
  <1>3. \A n \in 1..Len(steps) : steps[n].role \in R \cup {"read_after_delete"}
    BY <1>2 DEF IInv, ChainPlace, ChainIdle
  <1>4. role = "read_after_delete" => "read" \in R
    BY <1>2, <1>3 DEF NextRoles, Onward
  <1>5. role \in R \cup {"read_after_delete"}
    BY <1>2 DEF NextRoles
  <1> QED BY <1>1, <1>2, <1>4, <1>5 DEF ToolFor, Roles

\* The next call of a chain is made only between two calls.
LEMMA ChainCallInv == ASSUME IInv, ChainCall PROVE IInv'
  <1> PICK role \in NextRoles(steps, DOMAIN Chains[chain]) \ {"stop"} :
        /\ Call(Main, ToolFor(Chains[chain], role), "valid")
        /\ steps' = Append(steps, [role |-> role, outcome |-> "pending"])
    BY DEF ChainCall
  <1>1. /\ role \in Roles
        /\ role \in DOMAIN Chains[chain] \cup {"read_after_delete"}
        /\ ToolFor(Chains[chain], role) \in ToolNames
    BY NextRoleHasTool DEF ChainCall
  <1>2. /\ ConnInv'
        /\ step'[Main] \in {"reconnect", "waiting"}
        /\ \A j \in Clients \ {Main} : Keeps(j)
    BY <1>1, CallInv DEF IInv, Clients, Cases
  <1>3. /\ pc = "chains" /\ chain <= Len(Chains) /\ step[Main] = "idle"
        /\ UNCHANGED <<pc, i, outcomes, report, terminated, connectError, task, chain>>
    BY DEF ChainCall, ChainIdle
  <1>4. /\ steps' \in Seq([role : Roles, outcome : Outcomes \cup {"pending"}])
        /\ steps' # <<>>
        /\ \A n \in 1..Len(steps') :
             steps'[n].role \in DOMAIN Chains[chain] \cup {"read_after_delete"}
    <2> DEFINE r == [role |-> role, outcome |-> "pending"]
    <2> DEFINE S == [role : Roles, outcome : Outcomes \cup {"pending"}]
    <2>1. r \in S /\ steps \in Seq(S)
      BY <1>1 DEF IInv, TypeOK
    <2>2. /\ steps' \in Seq(S)
          /\ Len(steps') = Len(steps) + 1
          /\ \A n \in 1..Len(steps) : steps'[n] = steps[n]
          /\ steps'[Len(steps) + 1] = r
      BY <2>1, AppendProperties
    <2>3. \A n \in 1..Len(steps) :
            steps[n].role \in DOMAIN Chains[chain] \cup {"read_after_delete"}
      BY <1>3 DEF IInv, ChainPlace
    <2> QED BY <1>1, <2>1, <2>2, <2>3
  <1>5. TypeOK'
    BY <1>2, <1>3, <1>4 DEF IInv, TypeOK, ConnInv
  <1>6. MainPlace' /\ ChainPlace'
    BY <1>2, <1>3, <1>4 DEF IInv, MainPlace, ChainPlace
  <1>7. WorkerPlace'
    BY <1>2, <1>3, ClientsAssumption DEF IInv, WorkerPlace, Keeps, Clients
  <1>8. LoopPlace'
    BY <1>2, <1>3 DEF IInv, LoopPlace
  <1> QED BY <1>2, <1>5, <1>6, <1>7, <1>8 DEF IInv

\* The pending step of a chain gets its outcome; its role stays.
LEMMA ChainReturnsInv == ASSUME IInv, ChainReturns PROVE IInv'
  <1> DEFINE S == [role : Roles, outcome : Outcomes \cup {"pending"}]
  <1>1. ConnInv' /\ outcome[Main] \in Outcomes
    BY DEF IInv, ChainReturns, ConnInv, ConnTypeOK, ConnOK, Steps, Clients
  <1>2. steps \in Seq(S) /\ steps # <<>> /\ chain <= Len(Chains)
    BY DEF IInv, TypeOK, ChainPlace, ChainReturns
  <1>3. Len(steps) \in 1..Len(steps) /\ steps[Len(steps)] \in S
    <2> HIDE DEF S
    <2>1. Len(steps) \in Nat /\ Len(steps) # 0
      BY <1>2, EmptySeq
    <2> QED BY <1>2, <2>1, ElementOfSeq
  <1> DEFINE last == [steps[Len(steps)] EXCEPT !.outcome = outcome[Main]]
  <1>4. /\ steps' \in Seq(S) /\ Len(steps') = Len(steps)
        /\ \A n \in 1..Len(steps) : steps'[n].role = steps[n].role
    <2>1. last \in S /\ last.role = steps[Len(steps)].role
      BY <1>1, <1>3
    <2>2. steps' = [steps EXCEPT ![Len(steps)] = last]
      BY DEF ChainReturns
    <2> QED BY <1>2, <1>3, <2>1, <2>2, ExceptSeq
  <1>5. TypeOK' /\ MainPlace' /\ LoopPlace'
    BY <1>1, <1>4 DEF IInv, ChainReturns, TypeOK, ConnInv, ConnTypeOK, ConnOK, Clients,
       MainPlace, LoopPlace
  <1>6. WorkerPlace'
    BY ClientsAssumption DEF IInv, ChainReturns, WorkerPlace, Clients, ConnInv, ConnTypeOK
  <1>7. ChainPlace'
    BY <1>2, <1>4 DEF IInv, ChainReturns, ChainPlace
  <1> QED BY <1>1, <1>5, <1>6, <1>7 DEF IInv

\* A chain stops, or there is no chain left.
LEMMA ChainEndInv ==
  ASSUME IInv, ChainStops \/ ChainsEnd
  PROVE  IInv'
  <1>1. ConnInv' /\ \A k \in Clients : Keeps(k)
    BY ConnUnchanged DEF IInv, ChainStops, ChainsEnd
  <1>2. CASE ChainStops
    <2>1. /\ <<>> \in Seq([role : Roles, outcome : Outcomes \cup {"pending"}])
          /\ chain + 1 \in Nat \ {0}
      BY DEF IInv, TypeOK
    <2>2. TypeOK' /\ MainPlace' /\ WorkerPlace' /\ LoopPlace'
      BY <1>1, <1>2, <2>1 DEF IInv, ChainStops, ChainIdle, TypeOK, ConnInv, Keeps, Clients,
         MainPlace, WorkerPlace, LoopPlace
    <2>3. ChainPlace'
      BY <1>1, <1>2, <2>1 DEF IInv, ChainStops, ChainIdle, ChainPlace, Keeps, Clients
    <2> QED BY <1>1, <2>2, <2>3 DEF IInv
  <1>3. CASE ChainsEnd
    <2>1. step[Main] = "idle"
      BY <1>3, ChainsAssumption DEF IInv, ChainsEnd, ChainPlace, TypeOK
    <2> QED BY <1>1, <1>3, <2>1 DEF IInv, ChainsEnd, TypeOK, ConnInv, Keeps, Clients,
          MainPlace, WorkerPlace, LoopPlace, ChainPlace
  <1> QED BY <1>2, <1>3

\* The finally of run_fuzz closes the main connection.
LEMMA CloseRunInv == ASSUME IInv, CloseRun PROVE IInv'
  <1>1. ConnInv' /\ \A k \in Clients \ {Main} : Keeps(k)
    BY DEF IInv, CloseRun, Close, ConnInv, ConnTypeOK, ConnOK, Keeps, MainPlace
  <1> QED BY <1>1, ClientsAssumption
      DEF IInv, CloseRun, Close, TypeOK, ConnInv, ConnTypeOK, Keeps, Clients,
          MainPlace, WorkerPlace, LoopPlace, ChainPlace

-----------------------------------------------------------------------------
(***************************************************************************)
(* The invariant, and the properties that follow from it at once.          *)
(***************************************************************************)

\* Every step, of run_fuzz, of a coroutine or of a server.
LEMMA NextInv == ASSUME IInv, [Next]_vars PROVE IInv'
  <1>1. CASE MainStep
    BY <1>1, StartInv, OpeningInv, SkipInv, BeginInv, CallToolInv, RecordInv, FinishInv,
       StartGatherInv, GatheredInv, LoopEndsInv, ChainCallInv, ChainReturnsInv,
       ChainEndInv, CloseRunInv
    DEF MainStep
  <1>2. ASSUME NEW w \in Workers, WorkerStep(w) PROVE IInv'
    BY <1>2, WorkerInv
  <1>3. CASE Connections
    BY <1>3, ConnectionsInv
  <1>4. CASE Server
    BY <1>4, ServerInv
  <1>5. CASE UNCHANGED vars
    <2>1. ConnInv' /\ \A k \in Clients : Keeps(k)
      BY <1>5, ConnUnchanged DEF IInv, vars
    <2> QED BY <1>5, <2>1 DEF IInv, vars, connVars, loopVars, TypeOK, ConnInv,
          MainPlace, WorkerPlace, LoopPlace, ChainPlace, Tool, Permitted, CaseCount
  <1> QED BY <1>1, <1>2, <1>3, <1>4, <1>5 DEF Next, Over

\* IInv holds throughout, for any tools, workers, chains and either transport.
THEOREM Invariance == Spec => []IInv
  BY InitInv, NextInv, PTL DEF Spec

\* Every variable keeps to the values the code can give it.
THEOREM TypeCorrect == Spec => []TypeOK
  <1>1. IInv => TypeOK
    BY DEF IInv
  <1> QED BY <1>1, Invariance, PTL

\* No call starts on a session that still owes an earlier call an answer.
THEOREM SessionsStartClean == Spec => []CleanSession
  <1>1. IInv => CleanSession
    BY DEF IInv, ConnInv, ConnOK, CleanSession
  <1> QED BY <1>1, Invariance, PTL

\* The flag unreachable and the session never disagree between two calls.
THEOREM FlagIsTruthful == Spec => []FlagTellsTruth
  <1>1. IInv => FlagTellsTruth
    BY DEF IInv, ConnInv, ConnOK, MainPlace, FlagTellsTruth, Clients
  <1> QED BY <1>1, Invariance, PTL

\* run_fuzz returns with every connection closed, a gather with its workers'.
THEOREM AllIsClosed == Spec => []NothingLeftOpen
  <1>1. IInv => NothingLeftOpen
    BY DEF IInv, TypeOK, MainPlace, WorkerPlace, NothingLeftOpen, Clients
  <1> QED BY <1>1, Invariance, PTL

\* Without the lifecycle chains, a server lost for good is always reported.
THEOREM LossReported == ~Sequential => (Spec => []LossIsReported)
  <1> SUFFICES ASSUME ~Sequential PROVE Spec => []LossIsReported
    OBVIOUS
  <1>1. IInv => LossIsReported
    BY DEF IInv, LoopPlace, LossIsReported
  <1> QED BY <1>1, Invariance, PTL

\* Without the lifecycle chains, nothing calls a connection without a session.
THEOREM CallsHaveSessions == ~Sequential => (Spec => NoDoomedCall)
  <1> SUFFICES ASSUME ~Sequential PROVE Spec => NoDoomedCall
    OBVIOUS
  <1> DEFINE Sound == \A k \in Clients : calls'[k] > calls[k] => session[k] # "none"
  <1>1. ASSUME IInv, [Next]_vars PROVE Sound
    <2>1. ASSUME NEW k \in Clients, calls'[k] > calls[k], CallTool
          PROVE  session[k] # "none"
      <3>1. k = Main /\ step[Main] = "idle"
        BY <1>1, <2>1 DEF CallTool, Call, IInv, TypeOK, ConnTypeOK
      <3>2. pc = "calling" /\ ~ToolOver
        BY <2>1 DEF CallTool
      <3>3. Len(outcomes) \in Nat /\ (outcomes # <<>> => ~unreachable[Main])
        BY <1>1, <3>2 DEF ToolOver, IInv, TypeOK
      <3>4. outcomes = <<>> => ~unreachable[Main]
        BY <1>1, <3>1, <3>2 DEF IInv, LoopPlace
      <3> QED BY <1>1, <3>1, <3>2, <3>3, <3>4 DEF IInv, MainPlace
    <2>2. ASSUME NEW k \in Clients, calls'[k] > calls[k],
                 NEW w \in Workers, WorkerCalls(w)
          PROVE  session[k] # "none"
      <3>1. k = w /\ step[w] = "idle" /\ task[w] = "connecting"
        BY <1>1, <2>2 DEF WorkerCalls, Call, IInv, TypeOK, ConnTypeOK, Clients
      <3> QED BY <1>1, <3>1 DEF IInv, WorkerPlace
    <2>3. ASSUME NEW k \in Clients, calls'[k] > calls[k], Gathered
          PROVE  session[k] # "none"
      <3>1. calls[k] \in Nat /\ (calls'[k] = calls[k] \/ calls'[k] = 0)
        BY <1>1, <2>3 DEF Gathered, IInv, TypeOK, ConnTypeOK
      <3> QED BY <2>3, <3>1
    <2>4. ~ChainCall
      BY <1>1 DEF ChainCall, ChainIdle, IInv, ChainPlace
    <2>5. ASSUME UNCHANGED calls PROVE Sound
      <3>1. \A k \in Clients : calls[k] \in Nat
        BY <1>1 DEF IInv, TypeOK, ConnTypeOK
      <3> QED BY <2>5, <3>1
    <2>6. UNCHANGED calls \/ CallTool \/ (\E w \in Workers : WorkerCalls(w))
            \/ Gathered \/ ChainCall
      <3>1. CASE MainStep
        BY <3>1 DEF MainStep, Start, Connect, OpenFails, ListTools, ListToolsFails,
           SkipUnreachable, SkipNotReadOnly, BeginTool, GeneratorRaises, RecordOutcome,
           FinishUnreachable, FinishTool, StartGather, LoopEnds, ChainReturns,
           ChainStops, ChainsEnd, CloseRun, connVars
      <3>2. CASE \E w \in Workers : WorkerStep(w)
        BY <3>2 DEF WorkerStep, WorkerConnects, WorkerRefused, WorkerReturns, Connect
      <3>3. CASE Connections
        BY <3>3 DEF Connections, ConnStep, Await, Receive, TimedOut, ConnectionLost,
           CloseForReconnect, Handshake, Connected, ConnectFails, Reconnected,
           ReconnectFails
      <3>4. CASE Server
        BY <3>4 DEF Server, ServerStep, ServerAnswers, SessionBreaks, ServiceDies,
           ServiceReturns
      <3>5. CASE UNCHANGED vars
        BY <3>5 DEF vars, connVars
      <3> QED BY <1>1, <3>1, <3>2, <3>3, <3>4, <3>5 DEF Next, Over
    <2> QED BY <2>1, <2>2, <2>3, <2>4, <2>5, <2>6
  <1>2. IInv /\ [Next]_vars => [Sound]_vars
    BY <1>1
  <1> QED BY <1>2, Invariance, PTL DEF Spec, NoDoomedCall

-----------------------------------------------------------------------------
(***************************************************************************)
(* Nobody but run_fuzz itself can be talking to the main connection's      *)
(* server: so a tool is suspected only while it is being called, and once  *)
(* the reconnect after it has succeeded no tool is.                        *)
(***************************************************************************)
BlameInv ==
  /\ session[Main] = "live" => suspects[Main] = {}
  /\ terminated # "none" =>
       /\ session[Main] = "none" /\ step[Main] = "idle"
       /\ suspects[Main] \subseteq {terminated}
  /\ pc \in {"start", "opening", "next", "gather"} /\ terminated = "none" =>
       suspects[Main] = {}
  /\ pc = "calling" =>
       /\ suspects[Main] \subseteq {Tool}
       /\ \A m \in wire[Main] : m.tool = Tool
       /\ step[Main] \in {"idle", "returned"} /\ ~unreachable[Main] => suspects[Main] = {}
       /\ step[Main] = "waiting" /\ suspects[Main] # {} =>
            session[Main] = "broken" /\ \A m \in wire[Main] : m.kind = "asked"
  /\ pc \in {"chains", "raised"} => terminated = "none"

-----------------------------------------------------------------------------
\* Nobody is suspected before the first call.
LEMMA BlameInit == Init => BlameInv
  BY DEF Init, ConnInit, BlameInv, Clients

\* The server of the main connection takes only run_fuzz's own calls with it.
LEMMA BlameServer ==
  ASSUME IInv, BlameInv, Server, Workers = {} \/ ~Http
  PROVE  BlameInv'
  <1> USE DEF IInv, Clients
  <1>1. UNCHANGED <<unreachable, step, loopVars>> /\ Tool' = Tool
    BY DEF Server, ServerStep, ServerAnswers, SessionBreaks, ServiceDies, ServiceReturns,
       loopVars, Tool
  <1>2. CASE UNCHANGED <<session[Main], wire[Main], suspects[Main]>>
    BY <1>1, <1>2 DEF BlameInv, loopVars
  <1>3. CASE ServerAnswers(Main)
    <2>1. /\ session'[Main] = session[Main] /\ session[Main] = "live"
          /\ suspects'[Main] = suspects[Main]
      BY <1>3 DEF ServerAnswers
    <2>2. PICK m \in wire[Main], a \in Answers :
            wire' = [wire EXCEPT ![Main] = (@ \ {m}) \cup {Answered(m, a)}]
      BY <1>3 DEF ServerAnswers
    <2>3. wire'[Main] = (wire[Main] \ {m}) \cup {Answered(m, a)}
      BY <2>2 DEF ConnInv, ConnTypeOK
    <2>4. Answered(m, a).tool = m.tool
      BY DEF Answered
    <2> QED BY <1>1, <2>1, <2>3, <2>4 DEF BlameInv, loopVars
  <1>4. CASE /\ session[Main] = "live"
             /\ session'[Main] = "broken"
             /\ suspects'[Main] = BeingServed(Main)
             /\ wire'[Main] = wire[Main]
    <2>1. terminated = "none"
      BY <1>4 DEF BlameInv
    <2>2. wire[Main] = {} => suspects'[Main] = {}
      BY <1>4 DEF BeingServed
    <2>3. pc = "calling" => suspects'[Main] \subseteq {Tool}
      BY <1>4 DEF BlameInv, BeingServed
    <2>4. suspects'[Main] # {} => \A m \in wire[Main] : m.kind = "asked"
      BY <1>4 DEF BeingServed, ConnInv, ConnOK
    <2>5. step[Main] \in {"idle", "returned", "connecting", "refused"} => wire[Main] = {}
      BY DEF ConnInv, ConnOK
    <2> QED BY <1>1, <1>4, <2>1, <2>2, <2>3, <2>4, <2>5
        DEF BlameInv, MainPlace, loopVars
  <1> DEFINE
    Dies == /\ session[Main] = "live"
            /\ session'[Main] = "broken"
            /\ suspects'[Main] = BeingServed(Main)
            /\ wire'[Main] = wire[Main]
    Spared == UNCHANGED <<session[Main], wire[Main], suspects[Main]>>
  <1>5. Spared \/ Dies \/ ServerAnswers(Main)
    <2>1. ASSUME NEW k \in Clients, ServerAnswers(k) PROVE Spared \/ ServerAnswers(Main)
      BY <2>1 DEF ServerAnswers, ConnInv, ConnTypeOK
    <2>2. ASSUME NEW k \in Clients, SessionBreaks(k) PROVE Spared \/ Dies
      BY <2>2 DEF SessionBreaks, ConnInv, ConnTypeOK
    <2>3. ASSUME ServiceDies PROVE Spared \/ Dies
      <3>1. Workers = {} /\ Clients = {Main}
        BY <2>3 DEF ServiceDies
      <3> DEFINE hit == {k \in Clients : session[k] = "live"}
      <3>2. session[Main] = "live" => UNION {BeingServed(j) : j \in hit} = BeingServed(Main)
        BY <3>1
      <3> QED BY <2>3, <3>1, <3>2 DEF ServiceDies, ConnInv, ConnTypeOK
    <2>4. ASSUME ServiceReturns PROVE Spared
      BY <2>4 DEF ServiceReturns
    <2> QED BY <2>1, <2>2, <2>3, <2>4 DEF Server, ServerStep
  <1> QED BY <1>2, <1>3, <1>4, <1>5

\* A call that comes back without a reconnect had an answer, and then its
\* server had not died under it; a reconnect that succeeds clears the tool.
LEMMA BlameConnections ==
  ASSUME IInv, BlameInv, Connections
  PROVE  BlameInv'
  <1> PICK k \in Clients : ConnStep(k)
    BY DEF Connections
  <1> USE DEF IInv, Clients, ConnInv, ConnTypeOK
  <1>1. UNCHANGED loopVars /\ Tool' = Tool
    BY DEF Connections, loopVars, Tool
  <1>2. CASE k # Main
    <2>1. /\ session'[Main] = session[Main] /\ wire'[Main] = wire[Main]
          /\ suspects'[Main] = suspects[Main] /\ step'[Main] = step[Main]
          /\ unreachable'[Main] = unreachable[Main]
      BY <1>2 DEF ConnStep, Await, Receive, TimedOut, ConnectionLost, CloseForReconnect,
         Handshake, Connected, ConnectFails, Reconnected, ReconnectFails,
         Close, Establish, Fail
    <2> QED BY <1>1, <2>1 DEF BlameInv, loopVars
  <1>3. CASE k = Main
    <2> USE <1>1, <1>3
    <2>1. terminated = "none"
      BY DEF BlameInv, ConnStep, Await, Receive, TimedOut, ConnectionLost,
         CloseForReconnect, Handshake, Connected, ConnectFails, Reconnected, ReconnectFails
    <2>2. CASE Receive(Main)
      <3>1. PICK m \in wire[Main] :
              /\ m.kind \in Answers
              /\ wire' = [wire EXCEPT ![Main] = @ \ {m}]
        BY <2>2 DEF Receive
      <3>2. m.kind # "asked"
        BY <3>1 DEF Answers
      <3>3. /\ step[Main] = "waiting" /\ step'[Main] \in {"returned", "reconnect"}
            /\ UNCHANGED <<session, unreachable, suspects>>
            /\ wire'[Main] \subseteq wire[Main]
        BY <2>2, <3>1 DEF Receive, Fail
      <3> QED BY <2>1, <3>2, <3>3 DEF BlameInv, MainPlace, loopVars
    <2>3. CASE TimedOut(Main) \/ ConnectionLost(Main)
      <3>1. /\ step[Main] = "waiting" /\ step'[Main] = "reconnect"
            /\ UNCHANGED <<session, unreachable, suspects, wire>>
        BY <2>3 DEF TimedOut, ConnectionLost, Fail
      <3> QED BY <2>1, <3>1 DEF BlameInv, MainPlace, loopVars
    <2>4. CASE CloseForReconnect(Main)
      <3>1. /\ step[Main] = "reconnect" /\ step'[Main] = "handshake"
            /\ UNCHANGED <<unreachable, suspects>>
            /\ session'[Main] = "none" /\ wire'[Main] = {}
        BY <2>4 DEF CloseForReconnect, Close
      <3> QED BY <2>1, <3>1 DEF BlameInv, MainPlace, loopVars
    <2>5. CASE Connected(Main) \/ Reconnected(Main)
      <3>1. /\ step'[Main] \in {"idle", "returned"}
            /\ suspects'[Main] = {} /\ wire' = wire
        BY <2>5 DEF Connected, Reconnected, Establish
      <3> QED BY <2>1, <3>1 DEF BlameInv, loopVars
    <2>6. CASE ConnectFails(Main)
      <3>1. /\ step[Main] = "connecting" /\ step'[Main] = "refused"
            /\ UNCHANGED <<session, unreachable, suspects, wire>>
        BY <2>6 DEF ConnectFails
      <3> QED BY <2>1, <3>1 DEF BlameInv, MainPlace, loopVars
    <2>7. CASE ReconnectFails(Main)
      <3>1. /\ step[Main] = "handshake" /\ step'[Main] = "returned"
            /\ unreachable'[Main] /\ UNCHANGED <<session, suspects, wire>>
        BY <2>7 DEF ReconnectFails
      <3> QED BY <2>1, <3>1 DEF BlameInv, MainPlace, loopVars
    <2> QED BY <2>2, <2>3, <2>4, <2>5, <2>6, <2>7 DEF ConnStep, Await, Handshake
  <1> QED BY <1>2, <1>3

\* The steps of run_fuzz: blame is laid once, on the tool being called.
LEMMA BlameMain ==
  ASSUME IInv, BlameInv, MainStep
  PROVE  BlameInv'
  <1> USE DEF IInv, Clients, ConnInv, ConnTypeOK
  <1>1. CASE Start \/ OpenFails \/ ListTools \/ ListToolsFails
    BY <1>1 DEF Start, Connect, Close, OpenFails, ListTools, ListToolsFails, connVars,
       BlameInv, LoopPlace
  <1>2. CASE SkipUnreachable \/ SkipNotReadOnly
    <2>1. /\ pc' = "next" /\ UNCHANGED <<connVars, terminated>>
      BY <1>2 DEF SkipUnreachable, SkipNotReadOnly, ReportTool
    <2> QED BY <1>2, <2>1 DEF SkipUnreachable, SkipNotReadOnly, BlameInv, connVars
  <1>3. CASE BeginTool
    <2>1. terminated = "none" /\ step[Main] = "idle" /\ wire[Main] = {}
      BY <1>3 DEF BeginTool, LoopPlace, MainPlace, ConnOK
    <2> QED BY <1>3, <2>1 DEF BeginTool, BlameInv, connVars
  <1>4. CASE GeneratorRaises
    BY <1>4 DEF GeneratorRaises, AtGenerator, BlameInv, LoopPlace, connVars
  <1>5. CASE CallTool
    <2> DEFINE m == [id |-> calls[Main] + 1, tool |-> Tool,
                     case |-> CaseOf(Tool, Len(outcomes) + 1), kind |-> "asked"]
    <2>1. /\ step[Main] = "idle" /\ wire[Main] = {}
          /\ UNCHANGED <<session, unreachable, suspects, loopVars>>
          /\ Tool' = Tool
      BY <1>5 DEF CallTool, Call, ConnOK, loopVars, Tool
    <2>2. \/ step'[Main] = "reconnect" /\ wire' = wire
          \/ /\ step'[Main] = "waiting" /\ wire'[Main] = {m}
             /\ session[Main] # "none"
      BY <1>5, <2>1 DEF CallTool, Call, Fail
    <2>3. m.tool = Tool /\ m.kind = "asked"
      OBVIOUS
    <2>4. terminated = "none" /\ (session[Main] # "none" => suspects[Main] = {})
      BY <1>5, <2>1 DEF CallTool, LoopPlace, BlameInv, ConnOK
    <2> HIDE DEF m
    <2> QED BY <1>5, <2>1, <2>2, <2>3, <2>4 DEF CallTool, BlameInv, loopVars
  <1>6. CASE RecordOutcome
    BY <1>6 DEF RecordOutcome, BlameInv, Tool, LoopPlace
  <1>7. CASE FinishUnreachable
    <2>1. /\ terminated = "none" /\ session[Main] = "none"
          /\ pc' = "next" /\ UNCHANGED connVars
          /\ terminated' = Tool
      BY <1>7 DEF FinishUnreachable, ReportTool, LoopPlace, ConnOK
    <2>2. Tool \in ToolNames /\ Tool # "none"
      BY <1>7, ToolIsListed, ToolsAssumption DEF FinishUnreachable, LoopPlace
    <2> QED BY <1>7, <2>1, <2>2 DEF FinishUnreachable, BlameInv, connVars
  <1>8. CASE FinishTool \/ StartGather
    BY <1>8 DEF FinishTool, StartGather, ReportTool, LoopPlace, BlameInv, connVars
  <1>9. CASE Gathered
    BY <1>9 DEF Gathered, ReportTool, LoopPlace, BlameInv
  <1>10. CASE LoopEnds \/ ChainStops \/ ChainsEnd
    BY <1>10 DEF LoopEnds, LoopPlace, ChainStops, ChainIdle, ChainsEnd, BlameInv, connVars
  <1>11. CASE ChainCall \/ ChainReturns \/ CloseRun
    BY <1>11 DEF ChainCall, Call, ChainIdle, ChainReturns, CloseRun, Close, MainPlace, BlameInv
  <1> QED BY <1>1, <1>2, <1>3, <1>4, <1>5, <1>6, <1>7, <1>8, <1>9, <1>10, <1>11
      DEF MainStep

\* Every step, when no concurrent call can kill what the main connection needs.
LEMMA BlameNext ==
  ASSUME IInv, BlameInv, [Next]_vars, Workers = {} \/ ~Http
  PROVE  BlameInv'
  <1>1. ASSUME NEW w \in Workers, WorkerStep(w) PROVE BlameInv'
    <2>1. /\ session'[Main] = session[Main] /\ wire'[Main] = wire[Main]
          /\ suspects'[Main] = suspects[Main] /\ step'[Main] = step[Main]
          /\ unreachable'[Main] = unreachable[Main]
          /\ UNCHANGED <<pc, terminated, i>>
      BY <1>1, ClientsAssumption
      DEF WorkerStep, WorkerConnects, WorkerRefused, WorkerCalls, WorkerReturns,
          Connect, Call, Close, Fail, IInv, ConnInv, ConnTypeOK, Clients
    <2> QED BY <2>1 DEF BlameInv, Tool
  <1>2. ASSUME UNCHANGED vars PROVE BlameInv'
    BY <1>2 DEF vars, connVars, loopVars, BlameInv, Tool
  <1> QED BY <1>1, <1>2, BlameMain, BlameConnections, BlameServer DEF Next, Over

\* Where concurrent calls cannot take the main connection's server down (there
\* are none, or each has a process of its own), terminated_early never names a
\* tool that was not being served when the server died.
THEOREM BlameIsFair == Workers = {} \/ ~Http => (Spec => []FairBlame)
  <1> SUFFICES ASSUME Workers = {} \/ ~Http PROVE Spec => []FairBlame
    OBVIOUS
  <1>1. IInv /\ BlameInv /\ [Next]_vars => BlameInv'
    BY BlameNext
  <1>2. BlameInv => FairBlame
    BY DEF BlameInv, FairBlame
  <1> QED BY <1>1, <1>2, BlameInit, Invariance, PTL DEF Spec

-----------------------------------------------------------------------------
\* The entries of the report stand in the order of the list; those of tested
\* tools, the blamed one excepted, have every concurrent call's outcome.
WorkersInv ==
  \A n \in 1..Len(report) :
    /\ report[n].tool = Tools[n]
    /\ \A w \in Workers :
         (report[n].concurrent[w] \in Outcomes)
           <=> (report[n].verdict = "tested" /\ report[n].tool # terminated)

\* One more entry, and a terminated_early that no earlier entry minds.
LEMMA EntryAdded ==
  ASSUME IInv, WorkersInv, i <= Len(Tools),
         NEW v \in Verdicts, NEW o \in Seq(CallRecords),
         NEW c \in [Workers -> Outcomes \cup {"none"}], ReportTool(v, o, c),
         \A w \in Workers : c[w] \in Outcomes <=> v = "tested" /\ Tool # terminated',
         terminated' = terminated \/ (terminated = "none" /\ terminated' = Tool),
         \A m, n \in 1..Len(Tools) : Tools[m] = Tools[n] => m = n
  PROVE  WorkersInv'
  <1> DEFINE r == [tool |-> Tool, verdict |-> v, outcomes |-> o, concurrent |-> c]
  <1>1. r \in ToolResults /\ i = Len(report) + 1 /\ report' = Append(report, r)
    BY ToolIsListed DEF ToolResults, IInv, LoopPlace, ReportTool
  <1>2. /\ Len(report) \in Nat /\ Len(report') = Len(report) + 1
        /\ \A n \in 1..Len(report) : report'[n] = report[n]
        /\ report'[Len(report) + 1] = r
    BY <1>1, AppendProperties, LenProperties DEF IInv, TypeOK
  <1>3. \A n \in 1..Len(report) :
          /\ report[n].tool = Tools[n] /\ report[n].tool # Tool
          /\ report[n].tool \in ToolNames
    <2> SUFFICES ASSUME NEW n \in 1..Len(report)
                 PROVE  /\ report[n].tool = Tools[n] /\ report[n].tool # Tool
                        /\ report[n].tool \in ToolNames
      OBVIOUS
    <2>1. report[n].tool = Tools[n]
      BY DEF WorkersInv
    <2>2. Len(Tools) \in Nat /\ i \in Nat
      BY ToolsAssumption, LenProperties DEF IInv, TypeOK
    <2>3. n # i /\ n \in 1..Len(Tools) /\ i \in 1..Len(Tools)
      BY <1>1, <1>2, <2>2
    <2>4. Tools[n] \in ToolNames /\ Tools[n] # Tools[i]
      BY <2>3, ToolsAssumption, ElementOfSeq
    <2> QED BY <2>1, <2>4 DEF Tool
  <1>4. \A n \in 1..Len(report) :
          report[n].tool # terminated <=> report[n].tool # terminated'
    BY <1>3, ToolsAssumption
  <1> QED BY <1>1, <1>2, <1>3, <1>4 DEF WorkersInv, Tool

\* Every step; a gather is complete before its outcomes are in the report.
LEMMA WorkersNext ==
  ASSUME IInv, WorkersInv, [Next]_vars,
         \A m, n \in 1..Len(Tools) : Tools[m] = Tools[n] => m = n
  PROVE  WorkersInv'
  <1>1. /\ NoConc \in [Workers -> Outcomes \cup {"none"}]
        /\ \A w \in Workers : NoConc[w] \notin Outcomes
        /\ <<>> \in Seq(CallRecords) /\ outcomes \in Seq(CallRecords)
        /\ Verdicts = {"tested", "not_read_only", "unreachable"}
    BY DEF NoConc, Outcomes, Verdicts, IInv, TypeOK
  <1>2. CASE SkipUnreachable
    BY <1>1, <1>2, EntryAdded DEF SkipUnreachable
  <1>3. CASE SkipNotReadOnly
    BY <1>1, <1>3, EntryAdded DEF SkipNotReadOnly
  <1>4. CASE FinishUnreachable
    <2>1. terminated = "none" /\ terminated' = Tool /\ i <= Len(Tools)
      BY <1>4 DEF FinishUnreachable, IInv, LoopPlace
    <2> QED BY <1>1, <1>4, <2>1, EntryAdded DEF FinishUnreachable
  <1>5. CASE FinishTool
    <2>1. Workers = {} /\ terminated' = terminated /\ i <= Len(Tools)
      BY <1>5 DEF FinishTool, IInv, LoopPlace
    <2> QED BY <1>1, <1>5, <2>1, EntryAdded DEF FinishTool
  <1>6. CASE Gathered
    <2> DEFINE conc == [w \in Workers |-> outcome[w]]
    <2>1. /\ terminated = "none" /\ terminated' = terminated
          /\ i <= Len(Tools) /\ Tool # "none"
      BY <1>6, ToolIsListed, ToolsAssumption DEF Gathered, IInv, LoopPlace
    <2>2. /\ conc \in [Workers -> Outcomes \cup {"none"}]
          /\ \A w \in Workers : conc[w] \in Outcomes
      BY <1>6 DEF Gathered, IInv, WorkerPlace
    <2>3. ReportTool("tested", outcomes, conc)
      BY <1>6 DEF Gathered
    <2> HIDE DEF conc
    <2> QED BY <1>1, <2>1, <2>2, <2>3, EntryAdded
  <1>7. ASSUME UNCHANGED <<report, terminated>> PROVE WorkersInv'
    BY <1>7 DEF WorkersInv
  <1>8. \/ UNCHANGED <<report, terminated>>
        \/ SkipUnreachable \/ SkipNotReadOnly \/ FinishUnreachable \/ FinishTool \/ Gathered
    <2>1. CASE MainStep
      BY <2>1 DEF MainStep, Start, OpenFails, ListTools, ListToolsFails, BeginTool,
         GeneratorRaises, CallTool, RecordOutcome, StartGather, LoopEnds, ChainCall,
         ChainReturns, ChainStops, ChainsEnd, CloseRun, loopVars
    <2>2. CASE \E w \in Workers : WorkerStep(w)
      BY <2>2 DEF WorkerStep, WorkerConnects, WorkerRefused, WorkerCalls, WorkerReturns
    <2>3. CASE Connections \/ Server \/ UNCHANGED vars
      BY <2>3 DEF Connections, Server, vars, loopVars
    <2> QED BY <2>1, <2>2, <2>3 DEF Next, Over
  <1> QED BY <1>2, <1>3, <1>4, <1>5, <1>6, <1>7, <1>8

\* Whatever becomes of the connections of a gather, every concurrent call has
\* its outcome in the result of its tool, and no skipped tool has any; provided
\* that the server lists no name twice.
THEOREM AllWorkersReport ==
  (\A m, n \in 1..Len(Tools) : Tools[m] = Tools[n] => m = n) =>
    (Spec => []EveryWorkerReports)
  <1> SUFFICES ASSUME \A m, n \in 1..Len(Tools) : Tools[m] = Tools[n] => m = n
               PROVE  Spec => []EveryWorkerReports
    OBVIOUS
  <1>1. Init => WorkersInv
    BY EmptySeq DEF Init, WorkersInv
  <1>2. IInv /\ WorkersInv /\ [Next]_vars => WorkersInv'
    BY WorkersNext
  <1>3. WorkersInv => EveryWorkerReports
    BY DEF WorkersInv, EveryWorkerReports
  <1> QED BY <1>1, <1>2, <1>3, Invariance, PTL DEF Spec

-----------------------------------------------------------------------------
\* What is on the wire of a connection, and the verdict it is about to return,
\* belong to a call of this case.
OfCase(k, c) ==
  /\ \A m \in wire[k] : m.case = c
  /\ step[k] \in {"reconnect", "handshake", "returned"} => outcome[k] \in CanBe(c)

\* The call that run_fuzz awaits in its loop is the next one of the tool; a
\* worker's is always the valid one.
KindInv ==
  /\ pc = "calling" => OfCase(Main, CaseOf(Tool, Len(outcomes) + 1))
  /\ \A w \in Workers : OfCase(w, "valid") /\ outcome[w] \in CanBe("valid") \cup {"none"}
  /\ pc \in {"calling", "gather"} => Scorable(outcomes)
  /\ ReportIsScorable

\* A step of one connection answers, times out or loses the call it is at.
LEMMA CaseStays ==
  ASSUME IInv, NEW k \in Clients, ConnStep(k), NEW j \in Clients, NEW c \in Cases, OfCase(j, c)
  PROVE  /\ OfCase(j, c)'
         /\ outcome'[j] # outcome[j] => outcome'[j] \in CanBe(c)
  <1> USE DEF IInv, ConnInv, ConnTypeOK, OfCase
  <1>1. {"crash", "timeout"} \subseteq CanBe(c) /\ \A a \in Answers : Classify(c, a) \in CanBe(c)
    BY DEF CanBe, Outcomes, Classify, Cases
  <1>2. CASE Receive(k)
    <2> PICK m \in wire[k] :
          /\ m.kind \in Answers
          /\ wire' = [wire EXCEPT ![k] = @ \ {m}]
          /\ \/ m.kind = "other_error" /\ Fail(k, "crash")
             \/ /\ outcome' = [outcome EXCEPT ![k] = Classify(m.case, m.kind)]
                /\ step' = [step EXCEPT ![k] = "returned"]
      BY <1>2 DEF Receive
    <2> QED BY <1>1 DEF Fail
  <1>3. CASE TimedOut(k) \/ ConnectionLost(k)
    BY <1>1, <1>3 DEF TimedOut, ConnectionLost, Fail
  <1>4. CASE CloseForReconnect(k)
    BY <1>4 DEF CloseForReconnect, Close
  <1>5. CASE Handshake(k)
    BY <1>5 DEF Handshake, Connected, ConnectFails, Reconnected, ReconnectFails
  <1> QED BY <1>2, <1>3, <1>4, <1>5 DEF ConnStep, Await

\* So does a step of the server, which only turns requests into answers.
LEMMA CaseServed ==
  ASSUME IInv, ServerStep, NEW j \in Clients, NEW c \in Cases, OfCase(j, c)
  PROVE  OfCase(j, c)' /\ UNCHANGED outcome
  <1> USE DEF IInv, ConnInv, ConnTypeOK, OfCase
  <1>1. ASSUME NEW k \in Clients, ServerAnswers(k)
        PROVE  OfCase(j, c)' /\ UNCHANGED outcome
    <2> PICK m \in wire[k], a \in Answers :
          wire' = [wire EXCEPT ![k] = (@ \ {m}) \cup {Answered(m, a)}]
      BY <1>1 DEF ServerAnswers
    <2>1. Answered(m, a).case = m.case
      BY DEF Answered
    <2> QED BY <1>1, <2>1 DEF ServerAnswers
  <1>2. CASE \/ \E k \in Clients : SessionBreaks(k)
             \/ ServiceDies \/ ServiceReturns
    BY <1>2 DEF SessionBreaks, ServiceDies, ServiceReturns
  <1> QED BY <1>1, <1>2 DEF ServerStep

\* A call that starts is the one that is awaited from then on.
LEMMA CaseCalled ==
  ASSUME IInv, NEW k \in Clients, NEW t \in ToolNames, NEW c \in Cases, Call(k, t, c)
  PROVE  /\ OfCase(k, c)'
         /\ outcome'[k] # outcome[k] => outcome'[k] \in CanBe(c)
         /\ \A j \in Clients \ {k} :
              wire'[j] = wire[j] /\ step'[j] = step[j] /\ outcome'[j] = outcome[j]
  BY DEF IInv, ConnInv, ConnTypeOK, ConnOK, OfCase, Call, Fail, CanBe, Outcomes

\* One more entry whose outcomes are those of its own calls.
LEMMA EntryScorable ==
  ASSUME IInv, ReportIsScorable, i <= Len(Tools),
         NEW v \in Verdicts, NEW o \in Seq(CallRecords),
         NEW c \in [Workers -> Outcomes \cup {"none"}], ReportTool(v, o, c),
         v = "tested" <=> o # <<>>, Scorable(o),
         \A w \in Workers : c[w] \in CanBe("valid") \cup {"none"}
  PROVE  ReportIsScorable'
  <1> DEFINE r == [tool |-> Tool, verdict |-> v, outcomes |-> o, concurrent |-> c]
  <1>1. r \in ToolResults /\ report' = Append(report, r)
    BY ToolIsListed DEF ToolResults, IInv, ReportTool
  <1>2. /\ Len(report) \in Nat /\ Len(report') = Len(report) + 1
        /\ \A n \in 1..Len(report) : report'[n] = report[n]
        /\ report'[Len(report) + 1] = r
    BY <1>1, AppendProperties, LenProperties DEF IInv, TypeOK
  <1> QED BY <1>2 DEF ReportIsScorable, Scorable

\* The steps of the loop over the tools.
LEMMA KindMain ==
  ASSUME IInv, KindInv, MainStep
  PROVE  KindInv'
  <1> USE DEF KindInv
  <1>1. /\ \A k \in Clients : step[k] \in {"idle", "returned"} => wire[k] = {}
        /\ \A w \in Workers : w \in Clients /\ w # Main
        /\ Main \in Clients /\ NoConc \in [Workers -> Outcomes \cup {"none"}]
        /\ <<>> \in Seq(CallRecords) /\ outcomes \in Seq(CallRecords) /\ Scorable(<<>>)
        /\ Verdicts = {"tested", "not_read_only", "unreachable"}
    BY ClientsAssumption
    DEF IInv, ConnInv, ConnOK, Clients, TypeOK, NoConc, Scorable, Verdicts
  <1>2. ASSUME \A w \in Workers : /\ wire'[w] = wire[w] /\ step'[w] = step[w]
                                  /\ outcome'[w] = outcome[w]
        PROVE  \A w \in Workers :
                 OfCase(w, "valid")' /\ (outcome[w] \in CanBe("valid") \cup {"none"})'
    BY <1>2 DEF OfCase
  <1>3. CASE \/ Start \/ OpenFails \/ ListTools \/ ListToolsFails \/ GeneratorRaises
             \/ LoopEnds \/ ChainReturns \/ ChainStops \/ ChainsEnd \/ CloseRun
    <2>1. pc' \notin {"calling", "gather"} /\ UNCHANGED report
      BY <1>3
      DEF Start, OpenFails, ListTools, ListToolsFails, GeneratorRaises,
          LoopEnds, ChainReturns, ChainStops, ChainIdle, ChainsEnd, CloseRun
    <2>2. \A w \in Workers : /\ wire'[w] = wire[w] /\ step'[w] = step[w]
                             /\ outcome'[w] = outcome[w]
      <3> USE DEF IInv, ConnInv, ConnTypeOK, connVars, Close
      <3>1. CASE Start
        BY <1>1, <3>1 DEF Start, Connect
      <3>2. CASE OpenFails \/ ChainReturns
        BY <1>1, <3>2 DEF OpenFails, ChainReturns
      <3>3. CASE ListToolsFails \/ CloseRun
        BY <1>1, <3>3 DEF ListToolsFails, CloseRun
      <3>4. CASE \/ ListTools \/ GeneratorRaises \/ LoopEnds \/ ChainStops \/ ChainsEnd
        BY <3>4 DEF ListTools, GeneratorRaises, LoopEnds, ChainStops, ChainsEnd
      <3> QED BY <1>3, <3>1, <3>2, <3>3, <3>4
    <2> QED BY <1>2, <2>1, <2>2 DEF ReportIsScorable
  <1>4. CASE ChainCall
    <2>1. PICK t : Call(Main, t, "valid") /\ pc = "chains" /\ UNCHANGED <<pc, report>>
      BY <1>4 DEF ChainCall, ChainIdle
    <2>2. \A w \in Workers : /\ wire'[w] = wire[w] /\ step'[w] = step[w]
                             /\ outcome'[w] = outcome[w]
      BY <1>1, <2>1 DEF Call, Fail, IInv, TypeOK, ConnTypeOK
    <2> QED BY <1>2, <2>1, <2>2 DEF ReportIsScorable
  <1>5. CASE BeginTool
    <2>1. step[Main] = "idle"
      BY <1>5 DEF BeginTool, IInv, MainPlace
    <2> QED BY <1>1, <1>2, <1>5, <2>1 DEF BeginTool, connVars, OfCase, ReportIsScorable
  <1>6. CASE CallTool
    <2>1. /\ Tool \in ToolNames /\ CaseOf(Tool, Len(outcomes) + 1) \in Cases
          /\ pc = "calling" /\ UNCHANGED loopVars
      BY <1>6, ToolIsListed, CaseTypes DEF CallTool, IInv, LoopPlace, TypeOK
    <2>2. /\ OfCase(Main, CaseOf(Tool, Len(outcomes) + 1))'
          /\ \A w \in Workers : /\ wire'[w] = wire[w] /\ step'[w] = step[w]
                                /\ outcome'[w] = outcome[w]
      <3>1. PICK t \in ToolNames, c \in Cases :
              t = Tool /\ c = CaseOf(Tool, Len(outcomes) + 1)
        BY <2>1
      <3>2. /\ OfCase(Main, c)'
            /\ \A w \in Clients \ {Main} : /\ wire'[w] = wire[w] /\ step'[w] = step[w]
                                           /\ outcome'[w] = outcome[w]
        BY <1>1, <1>6, <3>1, CaseCalled DEF CallTool
      <3>3. CaseOf(Tool, Len(outcomes) + 1)' = c
        BY <2>1, <3>1 DEF loopVars, Tool, CaseOf
      <3> QED BY <1>1, <3>2, <3>3 DEF OfCase
    <2> QED BY <1>2, <2>1, <2>2 DEF loopVars, ReportIsScorable
  <1>7. CASE RecordOutcome
    <2> DEFINE n == Len(outcomes) + 1
               e == [case |-> CaseOf(Tool, n), outcome |-> outcome[Main]]
    <2>1. /\ step[Main] = "returned" /\ wire[Main] = {} /\ pc = "calling"
          /\ Tool \in ToolNames /\ e \in CallRecords /\ Len(outcomes) \in Nat
      BY <1>1, <1>7, ToolIsListed, CaseTypes
      DEF RecordOutcome, IInv, LoopPlace, TypeOK, ConnInv, ConnOK, CallRecords
    <2>2. /\ e.outcome \in CanBe(e.case)
          /\ e.case = "valid" <=> n = 1
      BY <2>1, ToolsAssumption DEF OfCase, CaseOf
    <2>3. Scorable(outcomes)'
      <3>1. outcomes' = Append(outcomes, e)
        BY <1>7 DEF RecordOutcome
      <3>2. /\ Len(outcomes') = n /\ outcomes'[n] = e
            /\ \A k \in 1..Len(outcomes) : outcomes'[k] = outcomes[k]
        BY <1>1, <2>1, <3>1, AppendProperties
      <3> QED BY <2>1, <2>2, <3>2 DEF Scorable
    <2>4. /\ wire'[Main] = {} /\ step'[Main] = "idle" /\ UNCHANGED report
          /\ \A w \in Workers : /\ wire'[w] = wire[w] /\ step'[w] = step[w]
                                /\ outcome'[w] = outcome[w]
      BY <1>1, <1>7, <2>1 DEF RecordOutcome, IInv, TypeOK, ConnTypeOK
    <2> QED BY <1>2, <2>3, <2>4 DEF OfCase, ReportIsScorable
  <1>8. CASE SkipUnreachable \/ SkipNotReadOnly
    <2>1. /\ pc = "next" /\ UNCHANGED connVars /\ pc' = "next" /\ i <= Len(Tools)
      BY <1>8 DEF SkipUnreachable, SkipNotReadOnly, ReportTool
    <2>2. PICK v \in Verdicts : v # "tested" /\ ReportTool(v, <<>>, NoConc)
      BY <1>1, <1>8 DEF SkipUnreachable, SkipNotReadOnly
    <2>3. ReportIsScorable'
      BY <1>1, <2>1, <2>2, EntryScorable DEF NoConc
    <2> QED BY <1>2, <2>1, <2>3 DEF connVars
  <1>9. CASE FinishUnreachable \/ FinishTool
    <2>1. /\ pc = "calling" /\ UNCHANGED connVars /\ pc' = "next" /\ i <= Len(Tools)
          /\ outcomes # <<>> /\ ReportTool("tested", outcomes, NoConc)
      BY <1>9 DEF FinishUnreachable, FinishTool, ToolOver, ReportTool, IInv, LoopPlace
    <2>2. ReportIsScorable'
      BY <1>1, <2>1, EntryScorable DEF NoConc
    <2> QED BY <1>2, <2>1, <2>2 DEF connVars
  <1>10. CASE StartGather
    BY <1>2, <1>10 DEF StartGather, connVars, ReportIsScorable
  <1>11. CASE Gathered
    <2> DEFINE conc == [w \in Workers |-> outcome[w]]
    <2>1. /\ pc = "gather" /\ pc' = "next" /\ i <= Len(Tools)
          /\ outcomes # <<>> /\ ReportTool("tested", outcomes, conc)
      <3>1. Tool \in ToolNames /\ CaseCount(Tool) \in Nat \ {0}
        BY <1>11, ToolIsListed, CaseTypes DEF Gathered, IInv, LoopPlace
      <3> QED BY <1>11, <3>1, EmptySeq DEF Gathered, ReportTool, IInv, LoopPlace
    <2>2. /\ conc \in [Workers -> Outcomes \cup {"none"}]
          /\ \A w \in Workers : conc[w] \in CanBe("valid") \cup {"none"}
      BY DEF CanBe
    <2>3. ReportIsScorable'
      <3> HIDE DEF conc
      <3> QED BY <1>1, <2>1, <2>2, EntryScorable
    <2>4. \A w \in Workers : wire'[w] = wire[w] /\ step'[w] = "idle" /\ outcome'[w] = "none"
      BY <1>1, <1>11 DEF Gathered, IInv, WorkerPlace
    <2> QED BY <2>1, <2>3, <2>4 DEF OfCase
  <1> QED BY <1>3, <1>4, <1>5, <1>6, <1>7, <1>8, <1>9, <1>10, <1>11 DEF MainStep

\* A coroutine of a gather; only its own connection moves.
LEMMA KindWorker ==
  ASSUME IInv, KindInv, NEW w \in Workers, WorkerStep(w)
  PROVE  KindInv'
  <1>1. /\ w \in Clients /\ w # Main /\ pc = "gather" /\ "valid" \in Cases
        /\ Tool \in ToolNames /\ "crash" \in CanBe("valid")
        /\ UNCHANGED <<pc, i, outcomes, report>>
    <2>1. pc = "gather"
      BY ClientsAssumption
      DEF WorkerStep, WorkerConnects, WorkerRefused, WorkerCalls, WorkerReturns, IInv, WorkerPlace
    <2> QED BY <2>1, ClientsAssumption, ToolIsListed
        DEF Clients, Cases, CanBe, Outcomes, IInv, LoopPlace,
            WorkerStep, WorkerConnects, WorkerRefused, WorkerCalls, WorkerReturns
  <1>2. ASSUME NEW j \in Workers
        PROVE  OfCase(j, "valid")' /\ (outcome[j] \in CanBe("valid") \cup {"none"})'
    <2>1. j \in Clients /\ OfCase(j, "valid") /\ outcome[j] \in CanBe("valid") \cup {"none"}
      BY DEF KindInv, Clients
    <2>2. CASE WorkerCalls(w)
      <3>1. PICK t \in ToolNames : t = Tool
        BY <1>1
      <3>2. /\ OfCase(w, "valid")'
            /\ outcome'[w] # outcome[w] => outcome'[w] \in CanBe("valid")
            /\ \A k \in Clients \ {w} :
                 wire'[k] = wire[k] /\ step'[k] = step[k] /\ outcome'[k] = outcome[k]
        BY <1>1, <2>2, <3>1, CaseCalled DEF WorkerCalls
      <3> QED BY <2>1, <3>2 DEF OfCase
    <2>3. CASE WorkerConnects(w) \/ WorkerRefused(w) \/ WorkerReturns(w)
      BY <1>1, <2>1, <2>3
      DEF WorkerConnects, Connect, WorkerRefused, WorkerReturns, Close, OfCase,
          IInv, ConnInv, ConnTypeOK
    <2> QED BY <2>2, <2>3 DEF WorkerStep
  <1> QED BY <1>1, <1>2 DEF KindInv, ReportIsScorable

\* Every step keeps calls and outcomes together.
LEMMA KindNext ==
  ASSUME IInv, KindInv, [Next]_vars
  PROVE  KindInv'
  <1>1. CASE MainStep
    BY <1>1, KindMain
  <1>2. CASE \E w \in Workers : WorkerStep(w)
    BY <1>2, KindWorker
  <1>3. ASSUME UNCHANGED loopVars,
               \A j \in Clients : \A c \in Cases : OfCase(j, c) =>
                 /\ OfCase(j, c)'
                 /\ outcome'[j] # outcome[j] => outcome'[j] \in CanBe(c)
        PROVE  KindInv'
    <2>1. ASSUME pc = "calling"
          PROVE  OfCase(Main, CaseOf(Tool, Len(outcomes) + 1))'
      <3>1. Tool \in ToolNames /\ CaseOf(Tool, Len(outcomes) + 1) \in Cases
        BY <2>1, ToolIsListed, CaseTypes DEF IInv, LoopPlace, TypeOK
      <3>2. PICK c \in Cases : c = CaseOf(Tool, Len(outcomes) + 1)
        BY <3>1
      <3>3. CaseOf(Tool, Len(outcomes) + 1)' = c
        BY <1>3, <3>2 DEF loopVars, Tool, CaseOf
      <3>4. OfCase(Main, c)'
        BY <1>3, <2>1, <3>2 DEF KindInv, Clients
      <3> QED BY <3>3, <3>4 DEF OfCase
    <2> QED BY <1>3, <2>1 DEF KindInv, loopVars, Clients, Cases, ReportIsScorable
  <1>4. CASE Connections
    <2> PICK k \in Clients : ConnStep(k) /\ UNCHANGED loopVars
      BY <1>4 DEF Connections
    <2> QED BY <1>3, CaseStays
  <1>5. CASE Server
    BY <1>3, <1>5, CaseServed DEF Server
  <1>6. CASE UNCHANGED vars
    BY <1>3, <1>6 DEF vars, connVars, OfCase
  <1> QED BY <1>1, <1>2, <1>4, <1>5, <1>6 DEF Next, Over

\* However the run went, each tested tool's outcomes in the report are those of
\* its own calls, its valid one first: Report's input is what it takes it for.
THEOREM ScorableRun == Spec => []ReportIsScorable
  <1>1. Init => KindInv
    BY EmptySeq DEF Init, ConnInit, KindInv, OfCase, ReportIsScorable, Clients
  <1>2. IInv /\ KindInv /\ [Next]_vars => KindInv'
    BY KindNext
  <1>3. KindInv => ReportIsScorable
    BY DEF KindInv
  <1> QED BY <1>1, <1>2, <1>3, Invariance, PTL DEF Spec

-----------------------------------------------------------------------------
(***************************************************************************)
(* run_fuzz keeps FuzzRun's promise: each step of Engine is one step of    *)
(* FuzzRun under the mapping Abstract, or none.                            *)
(***************************************************************************)

\* FuzzRun's variables, as Abstract maps them.
MappedVerdicts == [n \in 1..Len(report) |-> Abstracted(report[n])]
MappedLost     == terminated # "none"
MappedStatus   == IF pc = "done" THEN "returned"
                  ELSE IF pc = "raised" THEN "raised" ELSE "running"
MappedVars     == <<MappedVerdicts, MappedLost, MappedStatus>>

\* A step that is none of FuzzRun's.
Stutters == UNCHANGED <<report, terminated, MappedStatus>>

-----------------------------------------------------------------------------
\* The mapped report is a sequence as long as the report.
LEMMA MappedSeq ==
  ASSUME report \in Seq(ToolResults)
  PROVE  /\ MappedVerdicts \in Seq({Abstracted(r) : r \in ToolResults})
         /\ Len(MappedVerdicts) = Len(report)
         /\ \A n \in 1..Len(report) : MappedVerdicts[n] = Abstracted(report[n])
  <1> DEFINE S == {Abstracted(r) : r \in ToolResults}
  <1>1. Len(report) \in Nat /\ \A n \in 1..Len(report) : report[n] \in ToolResults
    BY ElementOfSeq, LenProperties
  <1>2. \A n \in 1..Len(report) : Abstracted(report[n]) \in S
    BY <1>1
  <1> HIDE DEF S
  <1>3. MappedVerdicts \in [1..Len(report) -> S]
    BY <1>2 DEF MappedVerdicts
  <1>4. MappedVerdicts \in Seq(S)
    BY <1>1, <1>3
  <1>5. Len(MappedVerdicts) = Len(report)
    BY <1>1, <1>3
  <1>6. \A n \in 1..Len(report) : MappedVerdicts[n] = Abstracted(report[n])
    BY DEF MappedVerdicts
  <1> QED BY <1>4, <1>5, <1>6 DEF S

\* What is appended to the report is appended to the mapped report.
LEMMA MappedAppend ==
  ASSUME report \in Seq(ToolResults), NEW r \in ToolResults, report' = Append(report, r)
  PROVE  MappedVerdicts' = Append(MappedVerdicts, Abstracted(r))
  <1> DEFINE S == {Abstracted(x) : x \in ToolResults}
  <1>1. /\ report' \in Seq(ToolResults)
        /\ Len(report') = Len(report) + 1
        /\ \A n \in 1..Len(report) : report'[n] = report[n]
        /\ report'[Len(report) + 1] = r
    BY AppendProperties
  <1>2. /\ MappedVerdicts \in Seq(S) /\ Len(MappedVerdicts) = Len(report)
        /\ \A n \in 1..Len(report) : MappedVerdicts[n] = Abstracted(report[n])
    BY MappedSeq
  <1>3. /\ MappedVerdicts' \in Seq(S) /\ Len(MappedVerdicts') = Len(report')
        /\ \A n \in 1..Len(report') : MappedVerdicts'[n] = Abstracted(report'[n])
    <2>1. /\ MappedVerdicts' = [n \in 1..Len(report') |-> Abstracted(report'[n])]
      BY DEF MappedVerdicts, Abstracted
    <2>2. Len(report') \in Nat /\ \A n \in 1..Len(report') : report'[n] \in ToolResults
      BY <1>1, ElementOfSeq, LenProperties
    <2>3. \A n \in 1..Len(report') : Abstracted(report'[n]) \in S
      BY <2>2
    <2>4. \A n \in 1..Len(report') : MappedVerdicts'[n] = Abstracted(report'[n])
      BY <2>1
    <2> HIDE DEF S
    <2>5. MappedVerdicts' \in [1..Len(report') -> S]
      BY <2>1, <2>3
    <2> QED BY <2>2, <2>4, <2>5
  <1>4. Abstracted(r) \in S /\ Len(report) \in Nat
    BY LenProperties
  <1> DEFINE M == Append(MappedVerdicts, Abstracted(r))
  <1> HIDE DEF S
  <1>5. /\ M \in Seq(S) /\ Len(M) = Len(report) + 1
        /\ \A n \in 1..Len(report) : M[n] = Abstracted(report[n])
        /\ M[Len(report) + 1] = Abstracted(r)
    BY <1>2, <1>4, AppendProperties
  <1>6. \A n \in 1..Len(M) : M[n] = MappedVerdicts'[n]
    BY <1>1, <1>3, <1>4, <1>5
  <1> HIDE DEF M
  <1>7. M = MappedVerdicts'
    BY <1>1, <1>3, <1>5, <1>6, SeqEqual
  <1> QED BY <1>7 DEF M

\* The loop is at the tool that comes next in the mapped report.
LEMMA MappedPlace ==
  ASSUME IInv
  PROVE  /\ Len(MappedVerdicts) = Len(report)
         /\ i = Len(MappedVerdicts) + 1
         /\ Len(Tools) \in Nat
         /\ i <= Len(Tools) => Tool \in ToolNames
  BY MappedSeq, ToolIsListed, ToolsAssumption DEF IInv, TypeOK, LoopPlace

\* A verdict in the report is one of FuzzRun's.
LEMMA Judged ==
  ASSUME IInv, i <= Len(Tools), pc \in {"next", "calling", "gather"},
         NEW v \in Verdicts, NEW o \in Seq(CallRecords),
         NEW c \in [Workers -> Outcomes \cup {"none"}], ReportTool(v, o, c)
  PROVE  Abstract!Judge(v, v = "tested" /\ Len(o) = CaseCount(Tool))
  <1> DEFINE r == [tool |-> Tool, verdict |-> v, outcomes |-> o, concurrent |-> c]
  <1>1. r \in ToolResults
    BY ToolIsListed DEF ToolResults, IInv
  <1>2. MappedVerdicts' = Append(MappedVerdicts, Abstracted(r))
    BY <1>1, MappedAppend DEF IInv, TypeOK, ReportTool
  <1>3. Abstracted(r) = [tool |-> Tool, verdict |-> v,
                         complete |-> v = "tested" /\ Len(o) = CaseCount(Tool)]
    BY DEF Abstracted
  <1>4. /\ Tools[Len(MappedVerdicts) + 1] = Tool
        /\ Len(MappedVerdicts) < Len(Tools)
    BY MappedPlace DEF Tool, IInv, TypeOK
  <1>5. MappedStatus = "running" /\ MappedStatus' = "running"
    BY DEF MappedStatus, ReportTool
  <1> QED BY <1>2, <1>3, <1>4, <1>5
      DEF Abstract!Judge, Abstract!Verdict, Abstract!NextTool, MappedVerdicts, MappedStatus

\* A tool that is not called at all gets the abstract verdict for that.
LEMMA SkipRefines ==
  ASSUME IInv, SkipUnreachable \/ SkipNotReadOnly
  PROVE  Abstract!GiveUp \/ Abstract!Decline
  <1>1. /\ pc = "next" /\ i <= Len(Tools) /\ UNCHANGED terminated
        /\ unreachable[Main] <=> terminated # "none"
    BY DEF IInv, LoopPlace, SkipUnreachable, SkipNotReadOnly
  <1>2. /\ NoConc \in [Workers -> Outcomes \cup {"none"}]
        /\ <<>> \in Seq(CallRecords)
        /\ {"unreachable", "not_read_only"} \subseteq Verdicts
    BY DEF NoConc, Verdicts
  <1>3. CASE SkipUnreachable
    <2>1. Abstract!Judge("unreachable",
            "unreachable" = "tested" /\ Len(<<>>) = CaseCount(Tool))
      BY <1>1, <1>2, <1>3, Judged DEF SkipUnreachable
    <2> QED BY <1>1, <1>3, <2>1 DEF SkipUnreachable, Abstract!GiveUp
  <1>4. CASE SkipNotReadOnly
    <2>1. Abstract!Judge("not_read_only",
            "not_read_only" = "tested" /\ Len(<<>>) = CaseCount(Tool))
      BY <1>1, <1>2, <1>4, Judged DEF SkipNotReadOnly
    <2>2. Abstract!NextTool \notin {t \in ToolNames : Permitted(t)}
      BY <1>1, <1>4, MappedPlace
      DEF SkipNotReadOnly, Abstract!NextTool, MappedVerdicts, Tool
    <2> QED BY <1>1, <1>4, <2>1, <2>2 DEF SkipNotReadOnly, Abstract!Decline
  <1> QED BY <1>3, <1>4

\* A tool that is left before its last case leaves the server lost.
LEMMA TestRefines ==
  ASSUME IInv, FinishUnreachable \/ FinishTool \/ Gathered
  PROVE  Abstract!Test
  <1>1. /\ pc \in {"calling", "gather"} /\ i <= Len(Tools)
        /\ terminated = "none" /\ Tool \in ToolNames /\ Permitted(Tool)
    BY ToolIsListed DEF IInv, LoopPlace, FinishUnreachable, FinishTool, Gathered
  <1>2. PICK c \in [Workers -> Outcomes \cup {"none"}] : ReportTool("tested", outcomes, c)
    <2>1. NoConc \in [Workers -> Outcomes \cup {"none"}]
      BY DEF NoConc
    <2>2. Gathered => [w \in Workers |-> outcome[w]] \in [Workers -> Outcomes \cup {"none"}]
      BY DEF IInv, WorkerPlace, Gathered
    <2> QED BY <2>1, <2>2 DEF FinishUnreachable, FinishTool, Gathered
  <1> DEFINE complete == Len(outcomes) = CaseCount(Tool)
  <1>3. Abstract!Judge("tested", complete)
    <2>1. "tested" \in Verdicts /\ outcomes \in Seq(CallRecords)
      BY DEF Verdicts, IInv, TypeOK
    <2>2. Abstract!Judge("tested", "tested" = "tested" /\ complete)
      BY <1>1, <1>2, <2>1, Judged
    <2> QED BY <2>2
  <1>4. complete \/ terminated' # "none"
    <2>1. CASE FinishUnreachable
      BY <1>1, <2>1, ToolsAssumption DEF FinishUnreachable
    <2>2. CASE FinishTool
      BY <2>2 DEF FinishTool, ToolOver
    <2>3. CASE Gathered
      BY <2>3 DEF Gathered, IInv, LoopPlace
    <2> QED BY <2>1, <2>2, <2>3
  <1>5. Abstract!NextTool \in {t \in ToolNames : Permitted(t)}
    BY <1>1, MappedPlace DEF Abstract!NextTool, MappedVerdicts, Tool
  <1> QED BY <1>1, <1>3, <1>4, <1>5 DEF Abstract!Test

\* The three ways out with a report, the one without.
LEMMA EndRefines ==
  ASSUME IInv, OpenFails \/ ListToolsFails \/ CloseRun \/ GeneratorRaises
  PROVE  Abstract!Return \/ Abstract!Raise
  <1>1. UNCHANGED <<report, terminated>>
    BY DEF OpenFails, ListToolsFails, CloseRun, GeneratorRaises
  <1>2. UNCHANGED MappedVerdicts
    BY <1>1 DEF MappedVerdicts, Abstracted
  <1>3. MappedStatus = "running"
    BY DEF MappedStatus, OpenFails, ListToolsFails, CloseRun, GeneratorRaises, AtGenerator
  <1>4. CASE GeneratorRaises
    BY <1>1, <1>2, <1>3, <1>4
    DEF GeneratorRaises, Abstract!Raise, MappedVerdicts, MappedStatus
  <1>5. CASE OpenFails \/ ListToolsFails \/ CloseRun
    <2>1. MappedStatus' = "returned"
      BY <1>5 DEF OpenFails, ListToolsFails, CloseRun, MappedStatus
    <2>2. Len(MappedVerdicts) \in {0, Len(Tools)}
      BY <1>5, MappedPlace DEF OpenFails, ListToolsFails, CloseRun, IInv, LoopPlace
    <2> QED BY <1>1, <1>2, <1>3, <2>1, <2>2
        DEF Abstract!Return, MappedVerdicts, MappedStatus
  <1> QED BY <1>4, <1>5

\* Everything else is no step of FuzzRun.
LEMMA OtherStutters ==
  ASSUME IInv, [Next]_vars,
         ~(SkipUnreachable \/ SkipNotReadOnly), ~(FinishUnreachable \/ FinishTool \/ Gathered),
         ~(OpenFails \/ ListToolsFails \/ CloseRun \/ GeneratorRaises)
  PROVE  Stutters
  <1> USE DEF Stutters, MappedStatus
  <1>1. CASE MainStep
    BY <1>1 DEF MainStep, Start, ListTools, BeginTool, CallTool, RecordOutcome, StartGather,
       LoopEnds, ChainCall, ChainIdle, ChainReturns, ChainStops, ChainsEnd, loopVars
  <1>2. CASE \E w \in Workers : WorkerStep(w)
    BY <1>2 DEF WorkerStep, WorkerConnects, WorkerRefused, WorkerCalls, WorkerReturns
  <1>3. CASE Connections \/ Server \/ UNCHANGED vars
    BY <1>3 DEF Connections, Server, vars, loopVars
  <1> QED BY <1>1, <1>2, <1>3 DEF Next, Over

-----------------------------------------------------------------------------
\* The tool loop implements what run_fuzz promises about its results.
THEOREM Refinement == Spec => ImplementsFuzzRun
  <1>1. Init => Abstract!Init
    <2> SUFFICES ASSUME Init PROVE Abstract!Init
      OBVIOUS
    <2>1. Len(report) = 0 /\ report = <<>>
      BY EmptySeq DEF Init
    <2>2. MappedVerdicts = <<>>
      BY <2>1 DEF MappedVerdicts
    <2> QED BY <2>2 DEF Init, Abstract!Init, MappedVerdicts
  <1>2. IInv /\ [Next]_vars => [Abstract!Next]_MappedVars
    <2> SUFFICES ASSUME IInv, [Next]_vars PROVE [Abstract!Next]_MappedVars
      OBVIOUS
    <2>1. CASE SkipUnreachable \/ SkipNotReadOnly
      BY <2>1, SkipRefines DEF Abstract!Next
    <2>2. CASE FinishUnreachable \/ FinishTool \/ Gathered
      BY <2>2, TestRefines DEF Abstract!Next
    <2>3. CASE OpenFails \/ ListToolsFails \/ CloseRun \/ GeneratorRaises
      BY <2>3, EndRefines DEF Abstract!Next
    <2>4. CASE Stutters
      <3>1. UNCHANGED MappedVerdicts
        BY <2>4 DEF Stutters, MappedVerdicts, Abstracted
      <3> QED BY <2>4, <3>1 DEF Stutters, MappedVars, MappedLost
    <2> QED BY <2>1, <2>2, <2>3, <2>4, OtherStutters
  <1>3. [Abstract!Next]_MappedVars =>
        [Abstract!Next]_<<[n \in 1..Len(report) |-> Abstracted(report[n])],
                          terminated # "none",
                          IF pc = "done" THEN "returned"
                          ELSE IF pc = "raised" THEN "raised" ELSE "running">>
    BY DEF MappedVars, MappedVerdicts, MappedLost, MappedStatus
  <1> QED BY <1>1, <1>2, <1>3, Invariance, PTL DEF Spec, ImplementsFuzzRun, Abstract!Spec
=============================================================================
