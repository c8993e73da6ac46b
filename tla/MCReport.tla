------------------------------ MODULE MCReport ------------------------------
(***************************************************************************)
(* Reports on lists of tools, each of one of a few kinds.                  *)
(***************************************************************************)
EXTENDS Report

CONSTANTS t1, t2, t3, t4

Valid(outcome, duration, chars) ==
  [case |-> "valid", outcome |-> outcome, duration |-> duration, chars |-> chars]
Bad(case, outcome) == [case |-> case, outcome |-> outcome, duration |-> 1, chars |-> 1]
Tool(outcomes, concurrent) ==
  [tested |-> TRUE, outcomes |-> outcomes, concurrent |-> concurrent]

Fine == Valid("ok", 50, 64)
Missing(outcome) == Bad("missing_required", outcome)
Wrong(outcome) == Bad("wrong_type", outcome)

Plain == {
  [tested |-> FALSE, outcomes |-> <<>>, concurrent |-> <<>>],
  Tool(<<Fine>>, <<>>),
  Tool(<<Fine, Missing("crash"), Wrong("crash"), Wrong("timeout"), Wrong("crash"), Wrong("ok")>>,
       <<"ok", "ok">>),
  Tool(<<Fine, Missing("graceful_error")>>, <<"ok", "crash">>),
  Tool(<<Fine>>, <<"valid_call_errored", "timeout">>),
  Tool(<<Valid("valid_call_errored", 50, 0), Wrong("graceful_error")>>,
       <<"valid_call_errored", "valid_call_errored">>),
  Tool(<<Valid("crash", 400, 0), Missing("ok")>>, <<"timeout", "timeout">>),
  Tool(<<Valid("timeout", 9000, 0)>>, <<"timeout", "ok">>) }
Timed == {
  Tool(<<Fine>>, <<>>),
  Tool(<<Valid("ok", 6000, 30000)>>, <<>>),
  Tool(<<Valid("ok", 400, 2000)>>, <<>>),
  Tool(<<Valid("valid_call_errored", 120, 0)>>, <<>>),
  Tool(<<Valid("crash", 20, 0)>>, <<>>) }

\* Four tools with different names, or the first and the last with one name.
Name(tool, name) == [name |-> name, tested |-> tool.tested, outcomes |-> tool.outcomes,
                     concurrent |-> tool.concurrent]
Named(list, names) == [i \in DOMAIN list |-> Name(list[i], names[i])]
Lists == UNION {[1..n -> Plain] : n \in 0..3} \cup UNION {[1..n -> Timed] : n \in 3..4}

SomeReports ==
  {[connectError |-> TRUE, tools |-> <<>>]}
  \cup {[connectError |-> FALSE, tools |-> Named(l, names)] :
          l \in Lists, names \in {<<t1, t2, t3, t4>>, <<t1, t2, t1, t1>>}}

SomeCommands == {
  [trace |-> FALSE, failUnder |-> [m \in {} |-> 0]],
  [trace |-> TRUE, failUnder |-> [m \in {"resilience"} |-> 20]],
  [trace |-> FALSE, failUnder |-> [m \in {"resilience"} |-> 100]],
  [trace |-> FALSE, failUnder |-> [m \in {"latency", "size"} |-> 75]],
  [trace |-> FALSE, failUnder |-> [m \in {"concurrency"} |-> 50]] }

\* Computed with the program's arithmetic, for up to fifteen bad-input calls.
FallsShort == {<<1, 5>>, <<1, 10>>, <<2, 10>>, <<3, 15>>}
=============================================================================
