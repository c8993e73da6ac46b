----------------------------- MODULE LatencyGate -----------------------------
(***************************************************************************)
(* LatencyGate (gate.py): one instance per session, shared by all the      *)
(* coroutines that call tools over it.  timed_call awaits the tool and, if *)
(* the tool answered, record judges the call against the calls of the same *)
(* tool that had been recorded by then.  Times are in ticks.               *)
(***************************************************************************)
EXTENDS Outliers, Sequences

CONSTANTS
  Callers,    \* coroutines that use the gate
  Tools,
  Sizes,      \* response_chars a tool may answer with
  Timeout,    \* timed_call's timeout
  Slack,      \* bound: how late the event loop may run a timer
  MaxCalls,   \* bound: calls made over the session
  SlowAbove,  \* slow_threshold_ms
  SlowTimes, SlowAfter, SlowFloor,   \* ..._outlier_multiplier, min_calls_..., ..._min_ms
  BloatAbove, \* bloat_threshold_chars
  BloatTimes, BloatAfter, BloatFloor \* the same for sizes

ASSUME GateAssumption ==
  /\ "none" \notin Tools
  /\ Sizes \subseteq Nat
  /\ {Timeout, Slack, MaxCalls, SlowAbove, SlowTimes, SlowFloor,
      BloatAbove, BloatTimes, BloatFloor} \subseteq Nat
  /\ SlowAfter \in Nat \ {0}    \* with 0, _median raises on the first call
  /\ BloatAfter \in Nat \ {0}

VARIABLES
  calling,    \* the tool a coroutine awaits, or "none"
  age,        \* ticks since it started
  made,       \* calls started so far
  durations,  \* _durations
  sizes,      \* _sizes
  judged,     \* history: the "ok" LatencyResults, per tool, as returned
  unanswered  \* history: the "crash" and "timeout" LatencyResults, per tool

vars == <<calling, age, made, durations, sizes, judged, unanswered>>

Judgements == [duration : Nat, size : Nat, slow : SUBSET Reasons, bloated : SUBSET Reasons]

TypeOK ==
  /\ calling \in [Callers -> Tools \cup {"none"}]
  /\ age \in [Callers -> Nat]
  /\ made \in Nat
  /\ durations \in [Tools -> Seq(Nat)]
  /\ sizes \in [Tools -> Seq(Nat)]
  /\ judged \in [Tools -> Seq(Judgements)]
  /\ unanswered \in [Tools -> Nat]

Init ==
  /\ calling = [c \in Callers |-> "none"]
  /\ age = [c \in Callers |-> 0]
  /\ made = 0
  /\ durations = [t \in Tools |-> <<>>]
  /\ sizes = [t \in Tools |-> <<>>]
  /\ judged = [t \in Tools |-> <<>>]
  /\ unanswered = [t \in Tools |-> 0]

-----------------------------------------------------------------------------
\* record: judge, then add to the history.  There is no await in it.
Record(t, d, s) ==
  /\ judged' = [judged EXCEPT ![t] = Append(@,
       [duration |-> d, size |-> s,
        slow |-> Judge(d, durations[t], SlowAbove, SlowTimes, SlowAfter, SlowFloor),
        bloated |-> Judge(s, sizes[t], BloatAbove, BloatTimes, BloatAfter, BloatFloor)])]
  /\ durations' = [durations EXCEPT ![t] = Append(@, d)]
  /\ sizes' = [sizes EXCEPT ![t] = Append(@, s)]

-----------------------------------------------------------------------------
(***************************************************************************)
(* timed_call.                                                             *)
(***************************************************************************)
Start(c, t) ==
  /\ calling[c] = "none"
  /\ made < MaxCalls
  /\ made' = made + 1
  /\ calling' = [calling EXCEPT ![c] = t]
  /\ age' = [age EXCEPT ![c] = 0]
  /\ UNCHANGED <<durations, sizes, judged, unanswered>>

Leave(c) ==
  /\ calling[c] # "none"
  /\ calling' = [calling EXCEPT ![c] = "none"]
  /\ age' = [age EXCEPT ![c] = 0]
  /\ UNCHANGED made

Answered(c) ==
  /\ Leave(c)
  /\ \E s \in Sizes : Record(calling[c], age[c], s)
  /\ UNCHANGED unanswered

\* No result, no history: an exception of the SDK, or wait_for's own.
Crashes(c) ==
  /\ Leave(c)
  /\ unanswered' = [unanswered EXCEPT ![calling[c]] = @ + 1]
  /\ UNCHANGED <<durations, sizes, judged>>

\* Mutant of TimesOut: a call that timed out is recorded like another.
TimesOutRecorded(c) ==
  /\ age[c] >= Timeout
  /\ Leave(c)
  /\ unanswered' = [unanswered EXCEPT ![calling[c]] = @ + 1]
  /\ durations' = [durations EXCEPT ![calling[c]] = Append(@, age[c])]
  /\ UNCHANGED <<sizes, judged>>

\* Mutant of TimesOut: the timeout, given in seconds, is taken for minutes.
TimesOutMinutes(c) ==
  /\ age[c] >= 60 * Timeout
  /\ Leave(c)
  /\ unanswered' = [unanswered EXCEPT ![calling[c]] = @ + 1]
  /\ UNCHANGED <<durations, sizes, judged>>

TimesOut(c) ==
  /\ age[c] >= Timeout
  /\ Leave(c)
  /\ unanswered' = [unanswered EXCEPT ![calling[c]] = @ + 1]
  /\ UNCHANGED <<durations, sizes, judged>>

\* Mutant of Tick: a clock that may be set back (time.time, not monotonic).
TickWallClock ==
  /\ \E c \in Callers : calling[c] # "none"
  /\ \A c \in Callers : calling[c] # "none" => age[c] < Timeout + Slack
  /\ \E d \in {-1, 1} :
       age' = [c \in Callers |-> IF calling[c] = "none" THEN 0 ELSE age[c] + d]
  /\ UNCHANGED <<calling, made, durations, sizes, judged, unanswered>>

\* Time passes for everyone; a due timer is not overtaken by more than Slack.
Tick ==
  /\ \E c \in Callers : calling[c] # "none"
  /\ \A c \in Callers : calling[c] # "none" => age[c] < Timeout + Slack
  /\ age' = [c \in Callers |-> IF calling[c] = "none" THEN 0 ELSE age[c] + 1]
  /\ UNCHANGED <<calling, made, durations, sizes, judged, unanswered>>

SessionOver == /\ made = MaxCalls
               /\ \A c \in Callers : calling[c] = "none"
               /\ UNCHANGED vars

Next ==
  \/ \E c \in Callers, t \in Tools : Start(c, t)
  \/ \E c \in Callers : Answered(c) \/ Crashes(c) \/ TimesOut(c)
  \/ Tick
  \/ SessionOver

\* Time passes, and the event loop runs a timer that is due.
Spec == /\ Init /\ [][Next]_vars
        /\ WF_vars(Tick)
        /\ \A c \in Callers : WF_vars(TimesOut(c))

-----------------------------------------------------------------------------
(***************************************************************************)
(* Properties.                                                             *)
(***************************************************************************)

InFlight == {c \in Callers : calling[c] # "none"}

\* The calls of tools that came back, numbered for each tool.
Returned == {p \in Tools \X (1..made) : p[2] <= Len(judged[p[1]]) + unanswered[p[1]]}

\* The history of a tool is exactly its answered calls, in the order in which
\* they were judged, and every call made is in flight, in the history of its
\* tool once, or came back without a mark on it as a crash or a timeout; however
\* the coroutines interleave.
HistoryIsJudged ==
  /\ made = Cardinality(InFlight) + Cardinality(Returned)
  /\ \A t \in Tools :
       /\ durations[t] = [k \in 1..Len(judged[t]) |-> judged[t][k].duration]
       /\ sizes[t] = [k \in 1..Len(judged[t]) |-> judged[t][k].size]

Before(values, k) == SubSeq(values, 1, k - 1)

\* "unusual for that tool": a relative flag means that the call exceeded, by the
\* multiplier, at least half of the earlier calls of the same tool, and that
\* there were enough of them.  No other tool's calls count.
OutlierIsRare == \A t \in Tools : \A k \in 1..Len(judged[t]) :
  /\ "relative" \in judged[t][k].slow =>
       k > SlowAfter /\ StandsOut(durations[t][k], Before(durations[t], k), SlowTimes)
  /\ "relative" \in judged[t][k].bloated =>
       k > BloatAfter /\ StandsOut(sizes[t][k], Before(sizes[t], k), BloatTimes)

\* A call above the floor that exceeds every earlier one by the multiplier is
\* flagged, once the tool has enough calls.
OutliersAreCaught == \A t \in Tools : \A k \in 1..Len(judged[t]) :
  /\ /\ k > SlowAfter /\ durations[t][k] > SlowFloor
     /\ TowersOver(durations[t][k], Before(durations[t], k), SlowTimes)
     => "relative" \in judged[t][k].slow
  /\ /\ k > BloatAfter /\ sizes[t][k] > BloatFloor
     /\ TowersOver(sizes[t][k], Before(sizes[t], k), BloatTimes)
     => "relative" \in judged[t][k].bloated

\* Every call comes back, whatever the server does (wait_for).
CallsReturn == \A c \in Callers : calling[c] # "none" ~> calling[c] = "none"
=============================================================================
