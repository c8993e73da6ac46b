-------------------------- MODULE ServerConnection --------------------------
(***************************************************************************)
(* One tool call over a _ServerConnection (engine.py): the call itself,    *)
(* the classification of what came back, and the reconnect that follows a  *)
(* crash or a timeout.  The module is written for a set of connections,    *)
(* because run_fuzz owns one and every concurrent call owns another; they  *)
(* share nothing but the service behind an HttpTarget.                     *)
(*                                                                         *)
(* The server and the client SDK are the environment: the server may       *)
(* answer in any order, never answer, or die at any point.  What a tool    *)
(* says is abstracted to the four answers _call_with_outcome tells apart.  *)
(***************************************************************************)
EXTENDS Naturals, FiniteSets

CONSTANTS Main,       \* the connection run_fuzz keeps for the whole run
          Workers,    \* the connections of _run_concurrent_valid_calls
          ToolNames,  \* the tools the server lists
          Http        \* TRUE: an HttpTarget, FALSE: a launched stdio command

ASSUME ClientsAssumption == Main \notin Workers /\ IsFiniteSet(Workers)
ASSUME TransportAssumption == Http \in BOOLEAN

Clients == Workers \cup {Main}

Cases    == {"valid", "missing_required", "wrong_type"}
Answers  == {"result", "is_error", "invalid_params", "other_error"}
Outcomes == {"ok", "graceful_error", "valid_call_errored", "crash", "timeout"}
Steps    == {"idle", "connecting", "refused", "waiting", "reconnect",
             "handshake", "returned"}

(***************************************************************************)
(* A message of a session: a request that is still unanswered ("asked") or *)
(* the answer to it, on its way to the client.                             *)
(***************************************************************************)
Messages == [id : Nat, tool : ToolNames, case : Cases,
             kind : Answers \cup {"asked"}]

VARIABLES
  session,      \* "none": conn.session is None; "broken": its server is gone
  unreachable,  \* conn.unreachable
  wire,         \* the messages of the connection's current session
  calls,        \* calls made so far; the latest one's request id
  step,         \* where the connection's coroutine stands
  outcome,      \* CallOutcome.outcome of the latest call
  service,      \* is the HttpTarget's remote service running?
  suspects      \* history: tools being served when the session's server died

connVars == <<session, unreachable, wire, calls, step, outcome, service, suspects>>

ConnTypeOK ==
  /\ session \in [Clients -> {"none", "live", "broken"}]
  /\ unreachable \in [Clients -> BOOLEAN]
  /\ wire \in [Clients -> SUBSET Messages]
  /\ calls \in [Clients -> Nat]
  /\ step \in [Clients -> Steps]
  /\ outcome \in [Clients -> Outcomes \cup {"none"}]
  /\ service \in BOOLEAN
  /\ suspects \in [Clients -> SUBSET ToolNames]

ConnInit ==
  /\ session = [k \in Clients |-> "none"]
  /\ unreachable = [k \in Clients |-> FALSE]
  /\ wire = [k \in Clients |-> {}]
  /\ calls = [k \in Clients |-> 0]
  /\ step = [k \in Clients |-> "idle"]
  /\ outcome = [k \in Clients |-> "none"]
  /\ service = TRUE
  /\ suspects = [k \in Clients |-> {}]

-----------------------------------------------------------------------------
(***************************************************************************)
(* connect() and close().                                                  *)
(***************************************************************************)

\* close() tears the session down; whatever was on its wire goes with it.
Close(k) ==
  /\ session' = [session EXCEPT ![k] = "none"]
  /\ wire' = [wire EXCEPT ![k] = {}]

\* Mutant of Establish: the flag of an earlier failed reconnect stays set.
EstablishStale(k) ==
  /\ Http => service
  /\ session' = [session EXCEPT ![k] = "live"]
  /\ suspects' = [suspects EXCEPT ![k] = {}]
  /\ UNCHANGED unreachable

\* What a completed handshake leaves behind (connect, its last three lines).
Establish(k) ==
  /\ Http => service
  /\ session' = [session EXCEPT ![k] = "live"]
  /\ unreachable' = [unreachable EXCEPT ![k] = FALSE]
  /\ suspects' = [suspects EXCEPT ![k] = {}]

\* A connect() that is not a retry starts by closing what there was.
Connect(k) ==
  /\ step[k] = "idle"
  /\ Close(k)
  /\ step' = [step EXCEPT ![k] = "connecting"]
  /\ UNCHANGED <<unreachable, calls, outcome, service, suspects>>

Connected(k) ==
  /\ step[k] = "connecting"
  /\ Establish(k)
  /\ step' = [step EXCEPT ![k] = "idle"]
  /\ UNCHANGED <<wire, calls, outcome, service>>

\* The half-built stack is closed and the exception goes to the caller.
ConnectFails(k) ==
  /\ step[k] = "connecting"
  /\ step' = [step EXCEPT ![k] = "refused"]
  /\ UNCHANGED <<session, unreachable, wire, calls, outcome, service, suspects>>

-----------------------------------------------------------------------------
(***************************************************************************)
(* _call_with_outcome.                                                     *)
(***************************************************************************)

\* What a completed exchange counts as; the other answers are a crash.
Classify(case, kind) ==
  IF kind = "result" THEN "ok"
  ELSE IF case = "valid" THEN "valid_call_errored" ELSE "graceful_error"

\* An except branch that calls _try_reconnect before it returns its verdict.
Fail(k, verdict) ==
  /\ outcome' = [outcome EXCEPT ![k] = verdict]
  /\ step' = [step EXCEPT ![k] = "reconnect"]

\* A call without a session trips the assertion and is a crash like another.
Call(k, tool, case) ==
  /\ step[k] = "idle"
  /\ calls' = [calls EXCEPT ![k] = @ + 1]
  /\ \/ /\ session[k] = "none"
        /\ Fail(k, "crash")
        /\ UNCHANGED wire
     \/ /\ session[k] # "none"
        /\ wire' = [wire EXCEPT ![k] = @ \cup
             {[id |-> calls[k] + 1, tool |-> tool, case |-> case, kind |-> "asked"]}]
        /\ step' = [step EXCEPT ![k] = "waiting"]
        /\ UNCHANGED outcome
  /\ UNCHANGED <<session, unreachable, service, suspects>>

\* The answer to this very call arrives in time (the SDK matches ids).
Receive(k) ==
  /\ step[k] = "waiting"
  /\ \E m \in wire[k] :
       /\ m.id = calls[k]
       /\ m.kind \in Answers
       /\ wire' = [wire EXCEPT ![k] = @ \ {m}]
       /\ \/ /\ m.kind = "other_error"
             /\ Fail(k, "crash")
          \/ /\ m.kind # "other_error"
             /\ outcome' = [outcome EXCEPT ![k] = Classify(m.case, m.kind)]
             /\ step' = [step EXCEPT ![k] = "returned"]
  /\ UNCHANGED <<session, unreachable, calls, service, suspects>>

\* Mutant of TimedOut: a timeout is taken for a completed, graceful exchange.
TimedOutKeepsSession(k) ==
  /\ step[k] = "waiting"
  /\ outcome' = [outcome EXCEPT ![k] = "timeout"]
  /\ step' = [step EXCEPT ![k] = "returned"]
  /\ UNCHANGED <<session, unreachable, wire, calls, service, suspects>>

\* Mutant of TimedOut: the concurrent calls are awaited without wait_for.
TimedOutMainOnly(k) ==
  /\ k = Main
  /\ step[k] = "waiting"
  /\ Fail(k, "timeout")
  /\ UNCHANGED <<session, unreachable, wire, calls, service, suspects>>

\* wait_for's or the SDK's own timer fires, answer on its way or not.
TimedOut(k) ==
  /\ step[k] = "waiting"
  /\ Fail(k, "timeout")
  /\ UNCHANGED <<session, unreachable, wire, calls, service, suspects>>

\* Mutant of ConnectionLost: CONNECTION_CLOSED treated as INVALID_PARAMS is,
\* an answer that needs no reconnect.
ConnectionLostKeepsSession(k) ==
  /\ step[k] = "waiting"
  /\ session[k] = "broken"
  /\ outcome' = [outcome EXCEPT ![k] = "crash"]
  /\ step' = [step EXCEPT ![k] = "returned"]
  /\ wire' = [wire EXCEPT ![k] = {}]
  /\ UNCHANGED <<session, unreachable, calls, service, suspects>>

\* The transport reports the death of the server under a pending call.
ConnectionLost(k) ==
  /\ step[k] = "waiting"
  /\ session[k] = "broken"
  /\ Fail(k, "crash")
  /\ UNCHANGED <<session, unreachable, wire, calls, service, suspects>>

\* _try_reconnect: connect() closes the old session before anything else ...
CloseForReconnect(k) ==
  /\ step[k] = "reconnect"
  /\ Close(k)
  /\ step' = [step EXCEPT ![k] = "handshake"]
  /\ UNCHANGED <<unreachable, calls, outcome, service, suspects>>

\* ... and the new one is either established ...
Reconnected(k) ==
  /\ step[k] = "handshake"
  /\ Establish(k)
  /\ step' = [step EXCEPT ![k] = "returned"]
  /\ UNCHANGED <<wire, calls, outcome, service>>

\* Mutant of ReconnectFails: the failure is swallowed and nothing else.
ReconnectFailsUnmarked(k) ==
  /\ step[k] = "handshake"
  /\ step' = [step EXCEPT ![k] = "returned"]
  /\ UNCHANGED <<session, unreachable, wire, calls, outcome, service, suspects>>

\* ... or the failure is swallowed and leaves the connection marked.
ReconnectFails(k) ==
  /\ step[k] = "handshake"
  /\ unreachable' = [unreachable EXCEPT ![k] = TRUE]
  /\ step' = [step EXCEPT ![k] = "returned"]
  /\ UNCHANGED <<session, wire, calls, outcome, service, suspects>>

Handshake(k) ==
  Connected(k) \/ ConnectFails(k) \/ Reconnected(k) \/ ReconnectFails(k)

Await(k) == Receive(k) \/ TimedOut(k) \/ ConnectionLost(k)

-----------------------------------------------------------------------------
(***************************************************************************)
(* The server.  A stdio connection has a process of its own; the sessions  *)
(* of an HttpTarget also share one service, which mcp-fuzz cannot relaunch *)
(* but whoever operates it may.                                            *)
(***************************************************************************)

BeingServed(k) == {m.tool : m \in {n \in wire[k] : n.kind = "asked"}}

Answered(m, a) == [id |-> m.id, tool |-> m.tool, case |-> m.case, kind |-> a]

\* The server answers a request it holds.
ServerAnswers(k) ==
  /\ session[k] = "live"
  /\ \E m \in wire[k], a \in Answers :
       /\ m.kind = "asked"
       /\ wire' = [wire EXCEPT ![k] = (@ \ {m}) \cup {Answered(m, a)}]
  /\ UNCHANGED <<session, unreachable, calls, step, outcome, service, suspects>>

\* One session's server dies, or its transport does: nobody else notices.
SessionBreaks(k) ==
  /\ session[k] = "live"
  /\ session' = [session EXCEPT ![k] = "broken"]
  /\ suspects' = [suspects EXCEPT ![k] = BeingServed(k)]
  /\ UNCHANGED <<unreachable, wire, calls, step, outcome, service>>

\* The remote service dies and takes every open session with it.
ServiceDies ==
  LET hit == {k \in Clients : session[k] = "live"} IN
  /\ Http /\ service
  /\ service' = FALSE
  /\ session' = [k \in Clients |-> IF k \in hit THEN "broken" ELSE session[k]]
  /\ suspects' = [k \in Clients |->
       IF k \in hit THEN UNION {BeingServed(j) : j \in hit} ELSE suspects[k]]
  /\ UNCHANGED <<unreachable, wire, calls, step, outcome>>

ServiceReturns ==
  /\ Http /\ ~service
  /\ service' = TRUE
  /\ UNCHANGED <<session, unreachable, wire, calls, step, outcome, suspects>>

ConnStep(k) == Await(k) \/ CloseForReconnect(k) \/ Handshake(k)

ServerStep ==
  \/ \E k \in Clients : ServerAnswers(k) \/ SessionBreaks(k)
  \/ ServiceDies
  \/ ServiceReturns
=============================================================================
