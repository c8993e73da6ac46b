----------------------- MODULE ServerConnectionProofs -----------------------
(***************************************************************************)
(* What every step of a connection or of the server keeps true of every    *)
(* connection.  EngineProofs builds on these lemmas.                       *)
(***************************************************************************)
EXTENDS ServerConnection, TLAPS

(***************************************************************************)
(* The state of a connection goes with the place of its coroutine: while a *)
(* call waits there is one message on the wire, while a connection is      *)
(* being built there is no session, a verdict is known before the          *)
(* reconnect starts, and between calls the wire is empty.                  *)
(***************************************************************************)
ConnOK(k) ==
  /\ step[k] \in {"idle", "returned"} => wire[k] = {}
  /\ step[k] \in {"connecting", "refused", "handshake"} =>
       session[k] = "none" /\ wire[k] = {}
  /\ step[k] = "waiting" => session[k] # "none"
  /\ \A m, n \in wire[k] : m = n
  /\ step[k] \in {"reconnect", "handshake", "returned"} => outcome[k] \in Outcomes
  /\ session[k] # "none" => ~unreachable[k]
  /\ step[k] = "returned" /\ session[k] = "none" => unreachable[k]

ConnInv == ConnTypeOK /\ \A k \in Clients : ConnOK(k)

\* A connection that one step leaves alone, but for the death of its server:
\* its flag and its place in the code stay, and a session stays a session.
Keeps(k) ==
  /\ step'[k] = step[k]
  /\ unreachable'[k] = unreachable[k]
  /\ outcome'[k] = outcome[k]
  /\ session[k] = "none" <=> session'[k] = "none"

-----------------------------------------------------------------------------
\* The invariant holds before any connection is made.
LEMMA ConnInitInv == ConnInit => ConnInv
  BY DEF ConnInit, ConnInv, ConnTypeOK, ConnOK, Steps

\* Outcomes _call_with_outcome gives are outcomes the report knows.
LEMMA ClassifyType ==
  ASSUME NEW case, NEW kind
  PROVE  Classify(case, kind) \in Outcomes
  BY DEF Classify, Outcomes

\* connect(): close, then wait for the handshake.
LEMMA ConnectInv ==
  ASSUME ConnInv, NEW k \in Clients, Connect(k)
  PROVE  /\ ConnInv'
         /\ step'[k] = "connecting"
         /\ \A j \in Clients \ {k} : Keeps(j)
  BY DEF ConnInv, ConnTypeOK, ConnOK, Connect, Close, Keeps, Steps

\* A call ends at once for want of a session, or waits for its answer.
LEMMA CallInv ==
  ASSUME ConnInv, NEW k \in Clients, NEW t \in ToolNames, NEW c \in Cases,
         Call(k, t, c)
  PROVE  /\ ConnInv'
         /\ step'[k] \in {"reconnect", "waiting"}
         /\ \A j \in Clients \ {k} : Keeps(j)
  <1>1. ConnTypeOK'
    BY DEF ConnInv, ConnTypeOK, Call, Fail, Steps, Outcomes, Messages, Answers
  <1>2. /\ step'[k] \in {"reconnect", "waiting"}
        /\ \A j \in Clients \ {k} : Keeps(j)
    BY DEF ConnInv, ConnTypeOK, Call, Fail, Keeps
  <1>3. ASSUME NEW j \in Clients PROVE ConnOK(j)'
    BY DEF ConnInv, ConnTypeOK, ConnOK, Call, Fail, Outcomes
  <1> QED BY <1>1, <1>2, <1>3 DEF ConnInv

\* While a coroutine is inside connect() or a call, its steps keep it there
\* until it is refused, connected or has a verdict to return.
Moves == {<<"connecting", "idle">>, <<"connecting", "refused">>,
          <<"waiting", "reconnect">>, <<"waiting", "returned">>,
          <<"reconnect", "handshake">>, <<"handshake", "returned">>}

\* A step of one connection keeps the invariant of all, and moves its coroutine
\* one place on.
LEMMA ConnStepInv ==
  ASSUME ConnInv, NEW k \in Clients, ConnStep(k)
  PROVE  /\ ConnInv'
         /\ <<step[k], step'[k]>> \in Moves
         /\ step'[k] = "idle" => session'[k] # "none"
         /\ \A j \in Clients \ {k} : Keeps(j)
  <1> USE DEF ConnInv, ConnTypeOK, Keeps, Moves, Steps
  <1>1. CASE Receive(k)
    <2> PICK m \in wire[k] :
          /\ m.kind \in Answers
          /\ wire' = [wire EXCEPT ![k] = @ \ {m}]
          /\ \/ m.kind = "other_error" /\ Fail(k, "crash")
             \/ /\ outcome' = [outcome EXCEPT ![k] = Classify(m.case, m.kind)]
                /\ step' = [step EXCEPT ![k] = "returned"]
      BY <1>1 DEF Receive
    <2>1. Classify(m.case, m.kind) \in Outcomes
      BY ClassifyType
    <2>2. ConnTypeOK' /\ <<step[k], step'[k]>> \in Moves
      BY <1>1, <2>1 DEF Receive, Fail, Outcomes
    <2>3. ASSUME NEW j \in Clients PROVE ConnOK(j)'
      BY <1>1, <2>1 DEF Receive, Fail, ConnOK, Outcomes
    <2> QED BY <1>1, <2>2, <2>3 DEF Receive, Fail
  <1>2. CASE TimedOut(k)
    BY <1>2 DEF TimedOut, Fail, ConnOK, Outcomes
  <1>3. CASE ConnectionLost(k)
    BY <1>3 DEF ConnectionLost, Fail, ConnOK, Outcomes
  <1>4. CASE CloseForReconnect(k)
    BY <1>4 DEF CloseForReconnect, Close, ConnOK
  <1>5. CASE Connected(k)
    BY <1>5 DEF Connected, Establish, ConnOK
  <1>6. CASE ConnectFails(k)
    BY <1>6 DEF ConnectFails, ConnOK
  <1>7. CASE Reconnected(k)
    BY <1>7 DEF Reconnected, Establish, ConnOK
  <1>8. CASE ReconnectFails(k)
    BY <1>8 DEF ReconnectFails, ConnOK
  <1> QED BY <1>1, <1>2, <1>3, <1>4, <1>5, <1>6, <1>7, <1>8
          DEF ConnStep, Await, Handshake

\* The server moves no coroutine and raises or clears no flag.
LEMMA ServerStepInv ==
  ASSUME ConnInv, ServerStep
  PROVE  ConnInv' /\ \A j \in Clients : Keeps(j)
  <1> USE DEF ConnInv, ConnTypeOK, Keeps
  <1>1. ASSUME NEW k \in Clients, ServerAnswers(k)
        PROVE  ConnInv' /\ \A j \in Clients : Keeps(j)
    <2> PICK m \in wire[k], a \in Answers :
          wire' = [wire EXCEPT ![k] = (@ \ {m}) \cup {Answered(m, a)}]
      BY <1>1 DEF ServerAnswers
    <2>1. Answered(m, a) \in Messages
      BY DEF Messages, Answered
    <2>2. ConnTypeOK' /\ \A j \in Clients : Keeps(j)
      BY <1>1, <2>1 DEF ServerAnswers
    <2>3. ASSUME NEW j \in Clients PROVE ConnOK(j)'
      BY <1>1 DEF ServerAnswers, ConnOK
    <2> QED BY <2>2, <2>3
  <1>2. ASSUME NEW k \in Clients, SessionBreaks(k)
        PROVE  ConnInv' /\ \A j \in Clients : Keeps(j)
    <2>1. BeingServed(k) \subseteq ToolNames
      BY DEF BeingServed, Messages
    <2> QED BY <1>2, <2>1 DEF SessionBreaks, ConnOK
  <1>3. CASE ServiceDies
    <2> DEFINE hit == {k \in Clients : session[k] = "live"}
    <2>1. UNION {BeingServed(j) : j \in hit} \subseteq ToolNames
      BY DEF BeingServed, Messages
    <2>2. ConnTypeOK' /\ \A j \in Clients : Keeps(j)
      BY <1>3, <2>1 DEF ServiceDies
    <2>3. ASSUME NEW j \in Clients PROVE ConnOK(j)'
      BY <1>3 DEF ServiceDies, ConnOK
    <2> QED BY <2>2, <2>3
  <1>4. CASE ServiceReturns
    BY <1>4 DEF ServiceReturns, ConnOK
  <1> QED BY <1>1, <1>2, <1>3, <1>4 DEF ServerStep
=============================================================================
