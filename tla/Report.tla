------------------------------- MODULE Report -------------------------------
(***************************************************************************)
(* main once run_fuzz has returned (cli.py): build_report scores what it   *)
(* returned (report.py), write_jsonl_trace writes it to a file if asked to *)
(* (trace.py), the report is printed, the exit code chosen.                *)
(***************************************************************************)
EXTENDS Outliers, Sequences

CONSTANTS
  Names,           \* tool names
  FuzzReports,     \* what run_fuzz may have returned
  Commands,        \* the options main may have been given
  SlowThreshold,   \* --slow-threshold-ms
  BloatThreshold,  \* --bloat-threshold-chars
  RoundsBelow      \* the <<good, of>> for which 100.0 * (1 - bad / of) is, in
                   \* floating point, less than the number it stands for

Failures == {"crash", "timeout"}
ValidOutcomes == Failures \cup {"ok", "valid_call_errored"}
Calls == [case : {"valid"}, outcome : ValidOutcomes, duration : Nat, chars : Nat]
  \cup [case : {"missing_required", "wrong_type"},
        outcome : Failures \cup {"ok", "graceful_error"}, duration : Nat, chars : Nat]
RawTools == [name : Names, tested : BOOLEAN, outcomes : Seq(Calls),
             concurrent : Seq(ValidOutcomes)]
Measures == {"resilience", "latency", "size", "concurrency"}

ASSUME RawAssumption ==
  /\ FuzzReports \subseteq [connectError : BOOLEAN, tools : Seq(RawTools)]
  /\ \A r \in FuzzReports : r.connectError => r.tools = <<>>
  /\ \A r \in FuzzReports : \A i \in DOMAIN r.tools :
       LET tool == r.tools[i] IN
       /\ ~tool.tested => tool.outcomes = <<>> /\ tool.concurrent = <<>>
       /\ tool.tested => tool.outcomes # <<>>
       /\ \A k \in DOMAIN tool.outcomes : tool.outcomes[k].case = "valid" <=> k = 1

ASSUME CommandAssumption ==
  /\ \A c \in Commands : /\ c.trace \in BOOLEAN
                         /\ DOMAIN c.failUnder \subseteq Measures
                         /\ c.failUnder \in [DOMAIN c.failUnder -> Nat]
  /\ SlowThreshold \in Nat /\ BloatThreshold \in Nat

VARIABLES
  raw,       \* the FuzzReport
  options,   \* full_trace, and the --fail-under options that are given
  pc,
  reports,   \* report.tools; crashes and timeouts as indices of outcomes
  tested, skipped, badInput, crashed, hung,   \* build_report's counters
  percent,   \* the percentage of each measure, as <<good, of>>; of = 0 is None
  slow,      \* latency: the reasons to flag, for each tool measured
  bloated,   \* response_size: the same
  unsafe,    \* concurrency.flagged_tools, as indices of reports
  written,   \* tools whose lines are in the trace file
  trace,     \* the lines of the file: <<tool, outcome>>, <<tool, 0>> if skipped
  marks,     \* the marker printed for each tool
  exit       \* the exit code, or "none"

counters == <<tested, skipped, badInput, crashed, hung>>
summary == <<percent, slow, bloated, unsafe>>
vars == <<raw, options, pc, reports, counters, summary, written, trace, marks, exit>>

ToolReports == [name : Names, tested : BOOLEAN, crashes : SUBSET (Nat \ {0}),
                timeouts : SUBSET (Nat \ {0}), issue : BOOLEAN, measured : BOOLEAN,
                duration : Nat, chars : Nat, concurrent : Seq(ValidOutcomes)]
Markers == {"skip", "FAIL", "WARN", "ok"}

TypeOK ==
  /\ pc \in {"building", "writing", "printing", "exiting", "done", "raised"}
  /\ reports \in Seq(ToolReports)
  /\ Len(reports) <= Len(raw.tools)
  /\ tested \in Nat /\ skipped \in Nat /\ badInput \in Nat /\ crashed \in Nat /\ hung \in Nat
  /\ percent \in [Measures -> Nat \X Nat]
  /\ \A m \in Measures : percent[m][1] <= percent[m][2]
  /\ slow \in [DOMAIN slow -> SUBSET Reasons]
  /\ bloated \in [DOMAIN bloated -> SUBSET Reasons]
  /\ UNION {DOMAIN slow, DOMAIN bloated, unsafe} \subseteq DOMAIN reports
  /\ written \in 0..Len(raw.tools)
  /\ trace \in Seq(Nat \X Nat)
  /\ marks \in Seq(Markers)
  /\ exit \in {"none", "0", "1", "2"}

Init ==
  /\ raw \in FuzzReports
  /\ options \in Commands
  /\ pc = "building"
  /\ reports = <<>>
  /\ tested = 0 /\ skipped = 0 /\ badInput = 0 /\ crashed = 0 /\ hung = 0
  /\ percent = [m \in Measures |-> <<0, 0>>]
  /\ slow = <<>> /\ bloated = <<>> /\ unsafe = {}
  /\ written = 0 /\ trace = <<>>
  /\ marks = <<>>
  /\ exit = "none"

-----------------------------------------------------------------------------
(***************************************************************************)
(* build_report: the loop over the tools.                                  *)
(***************************************************************************)

BadInput(tool) == {k \in DOMAIN tool.outcomes : tool.outcomes[k].case # "valid"}

\* Mutant of BadWith: the valid call's failure counts as one on bad input.
BadWithOrValid(tool, outcome) ==
  {k \in DOMAIN tool.outcomes : tool.outcomes[k].outcome = outcome}

BadWith(tool, outcome) == {k \in BadInput(tool) : tool.outcomes[k].outcome = outcome}

\* Mutant of Answered: a valid call that failed is measured like another.
AnsweredOrNot(valid) == TRUE

\* Is the valid call measured?
Answered(valid) == valid.outcome \notin Failures

ToolReport(tool) ==
  LET valid == tool.outcomes[1] IN
  [name |-> tool.name, tested |-> TRUE, concurrent |-> tool.concurrent,
   crashes |-> BadWith(tool, "crash"), timeouts |-> BadWith(tool, "timeout"),
   issue |-> valid.outcome \in Failures \cup {"valid_call_errored"},
   measured |-> Answered(valid),
   duration |-> IF Answered(valid) THEN valid.duration ELSE 0,
   chars |-> IF Answered(valid) THEN valid.chars ELSE 0]

SkippedReport(tool) ==
  [name |-> tool.name, tested |-> FALSE, concurrent |-> <<>>, crashes |-> {},
   timeouts |-> {}, issue |-> FALSE, measured |-> FALSE, duration |-> 0, chars |-> 0]

NextTool == raw.tools[Len(reports) + 1]

BuildSkipped ==
  /\ pc = "building"
  /\ Len(reports) < Len(raw.tools)
  /\ ~NextTool.tested
  /\ skipped' = skipped + 1
  /\ reports' = Append(reports, SkippedReport(NextTool))
  /\ UNCHANGED <<raw, options, pc, tested, badInput, crashed, hung, summary,
                 written, trace, marks, exit>>

BuildTested ==
  /\ pc = "building"
  /\ Len(reports) < Len(raw.tools)
  /\ NextTool.tested
  /\ tested' = tested + 1
  /\ badInput' = badInput + Cardinality(BadInput(NextTool))
  /\ crashed' = crashed + Cardinality(BadWith(NextTool, "crash"))
  /\ hung' = hung + Cardinality(BadWith(NextTool, "timeout"))
  /\ reports' = Append(reports, ToolReport(NextTool))
  /\ UNCHANGED <<raw, options, pc, skipped, summary, written, trace, marks, exit>>

-----------------------------------------------------------------------------
(***************************************************************************)
(* _compute_latency, _compute_response_size, _compute_concurrency.         *)
(***************************************************************************)

Measured == {k \in DOMAIN reports : reports[k].measured}

\* A tool is compared with all that were measured, itself included.
JudgeAll(values, above, floor) ==
  [k \in DOMAIN values |-> Judge(values[k], values, above, 3, 3, floor)]

SlowTools == JudgeAll([k \in Measured |-> reports[k].duration], SlowThreshold, 100)
BloatedTools == JudgeAll([k \in Measured |-> reports[k].chars], BloatThreshold, 1000)

Unflagged(flags) == <<Cardinality({k \in DOMAIN flags : flags[k] = {}}),
                      Cardinality(DOMAIN flags)>>

Checked == {k \in DOMAIN reports : reports[k].concurrent # <<>>}
FailedOf(concurrent) ==
  {j \in DOMAIN concurrent : concurrent[j] \in Failures \cup {"valid_call_errored"}}

\* Mutant of Unsafe: a tool that fails every concurrent call is taken for broken.
UnsafeIfMixed(t) ==
  FailedOf(t.concurrent) # {} /\ FailedOf(t.concurrent) # DOMAIN t.concurrent

\* Mutant of Unsafe: no failure is suppressed.
UnsafeIfAny(t) == FailedOf(t.concurrent) # {}

Unsafe(t) ==
  /\ FailedOf(t.concurrent) # {}
  /\ ~(t.issue /\ FailedOf(t.concurrent) = DOMAIN t.concurrent)

Summarise ==
  /\ pc = "building"
  /\ Len(reports) = Len(raw.tools)
  /\ slow' = SlowTools
  /\ bloated' = BloatedTools
  /\ unsafe' = {k \in Checked : Unsafe(reports[k])}
  /\ percent' = [m \in Measures |->
       IF m = "resilience" THEN <<badInput - (crashed + hung), badInput>>
       ELSE IF m = "latency" THEN Unflagged(slow')
       ELSE IF m = "size" THEN Unflagged(bloated')
       ELSE <<Cardinality(Checked) - Cardinality(unsafe'), Cardinality(Checked)>>]
  /\ pc' = IF options.trace THEN "writing" ELSE "printing"
  /\ UNCHANGED <<raw, options, reports, counters, written, trace, marks, exit>>

-----------------------------------------------------------------------------
(***************************************************************************)
(* write_jsonl_trace.  Its first line, on the session, is left out.        *)
(***************************************************************************)
Lines(i) == IF raw.tools[i].tested
            THEN [k \in DOMAIN raw.tools[i].outcomes |-> <<i, k>>]
            ELSE <<<<i, 0>>>>

\* Mutant of WriteTool: a skipped tool ends the loop.
WriteToolStops ==
  /\ pc = "writing"
  /\ written < Len(raw.tools)
  /\ trace' = trace \o Lines(written + 1)
  /\ written' = IF raw.tools[written + 1].tested THEN written + 1 ELSE Len(raw.tools)
  /\ UNCHANGED <<raw, options, pc, reports, counters, summary, marks, exit>>

WriteTool ==
  /\ pc = "writing"
  /\ written < Len(raw.tools)
  /\ trace' = trace \o Lines(written + 1)
  /\ written' = written + 1
  /\ UNCHANGED <<raw, options, pc, reports, counters, summary, marks, exit>>

TraceWritten ==
  /\ pc = "writing"
  /\ written = Len(raw.tools)
  /\ pc' = "printing"
  /\ UNCHANGED <<raw, options, reports, counters, summary, written, trace, marks, exit>>

\* open or write raises, out of main; the file may lack what was buffered.
WriteFails ==
  /\ pc = "writing"
  /\ \E n \in 0..Len(trace) : trace' = SubSeq(trace, 1, n)
  /\ pc' = "raised"
  /\ exit' = "1"
  /\ UNCHANGED <<raw, options, reports, counters, summary, written, marks>>

-----------------------------------------------------------------------------
(***************************************************************************)
(* render_text, and the exit code.                                         *)
(***************************************************************************)

\* slow_by_name, bloated_by_name, concurrency_by_name: flags go by name.
Flagged(k, flags) == \E j \in flags : reports[j].name = reports[k].name
FlaggedIn(flags) == {k \in DOMAIN flags : flags[k] # {}}

Marker(k) ==
  IF ~reports[k].tested THEN "skip"
  ELSE IF reports[k].crashes \cup reports[k].timeouts # {} \/ Flagged(k, unsafe) THEN "FAIL"
  ELSE IF reports[k].issue \/ Flagged(k, FlaggedIn(slow)) \/ Flagged(k, FlaggedIn(bloated))
  THEN "WARN" ELSE "ok"

PrintReport ==
  /\ pc = "printing"
  /\ marks' = [k \in DOMAIN reports |-> Marker(k)]
  /\ pc' = "exiting"
  /\ UNCHANGED <<raw, options, reports, counters, summary, written, trace, exit>>

\* Mutant of Misses: <= for <, a share that reaches its threshold misses it.
MissesIfReached(m) ==
  \/ percent[m][2] = 0
  \/ 100 * percent[m][1] <= options.failUnder[m] * percent[m][2]

\* Mutant of Misses: what could not be measured is let pass.
MissesIfMeasured(m) ==
  /\ percent[m][2] > 0
  /\ 100 * percent[m][1] < options.failUnder[m] * percent[m][2]

\* percent is None, or less than the threshold; it can come out less when the
\* two are equal.
Misses(m) ==
  \/ percent[m][2] = 0
  \/ 100 * percent[m][1] < options.failUnder[m] * percent[m][2]
  \/ /\ m = "resilience" /\ percent[m] \in RoundsBelow
     /\ 100 * percent[m][1] = options.failUnder[m] * percent[m][2]

Exit ==
  /\ pc = "exiting"
  /\ exit' = IF raw.connectError THEN "2"
             ELSE IF \E m \in DOMAIN options.failUnder : Misses(m) THEN "1" ELSE "0"
  /\ pc' = "done"
  /\ UNCHANGED <<raw, options, reports, counters, summary, written, trace, marks>>

Terminated == pc \in {"done", "raised"} /\ UNCHANGED vars

Next ==
  \/ BuildSkipped \/ BuildTested \/ Summarise
  \/ WriteTool \/ TraceWritten \/ WriteFails
  \/ PrintReport \/ Exit \/ Terminated

Spec == Init /\ [][Next]_vars

-----------------------------------------------------------------------------
(***************************************************************************)
(* Properties.  They speak of what run_fuzz returned, not of the report.   *)
(***************************************************************************)
TestedTools == {i \in DOMAIN raw.tools : raw.tools[i].tested}
ValidCall(i) == raw.tools[i].outcomes[1]
AnsweredTools == {i \in TestedTools : ValidCall(i).outcome \notin Failures}
CalledAtOnce == {i \in DOMAIN raw.tools : raw.tools[i].concurrent # <<>>}

BadCalls == UNION {{<<i, k>> : k \in BadInput(raw.tools[i])} : i \in DOMAIN raw.tools}
Handled(c) == raw.tools[c[1]].outcomes[c[2]].outcome \notin Failures

\* Evidence against a tool: a bad-input call crashed or hung, or concurrent calls
\* failed where another, or the tool's own sequential call, did not.
Breaks(tool) == \E k \in BadInput(tool) : tool.outcomes[k].outcome \in Failures
BreaksUnderLoad(tool) ==
  /\ \E j \in DOMAIN tool.concurrent : tool.concurrent[j] # "ok"
  /\ \/ \E j \in DOMAIN tool.concurrent : tool.concurrent[j] = "ok"
     \/ tool.outcomes[1].outcome = "ok"

\* What the percentage of a measure is to be: the share of its second set that is
\* in its first.
Share(m) ==
  IF m = "resilience" THEN <<{c \in BadCalls : Handled(c)}, BadCalls>>
  ELSE IF m = "latency" THEN <<{k \in AnsweredTools : slow[k] = {}}, AnsweredTools>>
  ELSE IF m = "size" THEN <<{k \in AnsweredTools : bloated[k] = {}}, AnsweredTools>>
  ELSE <<{k \in CalledAtOnce : ~BreaksUnderLoad(raw.tools[k])}, CalledAtOnce>>

Sizes(m) == <<Cardinality(Share(m)[1]), Cardinality(Share(m)[2])>>

AtLeast(m, bar) == Share(m)[2] # {} /\ 100 * Sizes(m)[1] >= bar * Sizes(m)[2]

\* The share is equal to the threshold, but its percentage is not: 1 of 5 and 20.
RoundedAway(m, bar) ==
  /\ m = "resilience" /\ Sizes(m) \in RoundsBelow
  /\ 100 * Sizes(m)[1] = bar * Sizes(m)[2]

\* --fail-under and the others ("non-zero exit if crash resilience < 90%",
\* README.md:68; "below this threshold", cli.py:67): main exits with 0 exactly if each
\* share asked for could be measured and is no less than its threshold, with 2 if there
\* was no connection, else with 1, as it does when it ends in an exception before the
\* report is printed.  The one exception is a share that the code's arithmetic rounds
\* away, which fails although it is not below its threshold.
ExitIsTheVerdict ==
  /\ pc = "done" => exit =
       IF raw.connectError THEN "2"
       ELSE IF \A m \in DOMAIN options.failUnder :
                 AtLeast(m, options.failUnder[m]) /\ ~RoundedAway(m, options.failUnder[m])
       THEN "0" ELSE "1"
  /\ pc = "raised" => exit = "1" /\ marks = <<>>
  /\ pc \notin {"done", "raised"} => exit = "none"

\* "ok" against a tool means that each of its calls was answered, the valid one,
\* alone and over every concurrent connection, without an error.  So the rule
\* that suppresses concurrency findings (report.py:431) hides no tool altogether.
OkMeansClean == \A k \in DOMAIN marks : marks[k] = "ok" =>
  /\ k \in AnsweredTools /\ ValidCall(k).outcome = "ok"
  /\ ~Breaks(raw.tools[k])
  /\ \A j \in DOMAIN raw.tools[k].concurrent : raw.tools[k].concurrent[j] = "ok"

\* "FAIL" rests on a bad-input call that crashed or hung, or on an "informative"
\* concurrent failure (README.md:161), of a tool of that name.
FailMeansBroken == \A k \in DOMAIN marks : marks[k] = "FAIL" =>
  \E j \in TestedTools : /\ raw.tools[j].name = raw.tools[k].name
                         /\ Breaks(raw.tools[j]) \/ BreaksUnderLoad(raw.tools[j])

Others(history, k) == [j \in DOMAIN history \ {k} |-> history[j]]

FlagsFit(flags, history, floor) ==
  /\ DOMAIN flags = DOMAIN history
  /\ \A k \in DOMAIN flags :
       /\ "relative" \in flags[k] =>
            Cardinality(DOMAIN history) >= 3 /\ StandsOut(history[k], history, 3)
       /\ /\ Cardinality(DOMAIN history) >= 3 /\ history[k] > floor
          /\ TowersOver(history[k], Others(history, k), 3)
          => "relative" \in flags[k]

\* "a clear outlier relative to this same server's other tools" (README.md:78):
\* a tool is so flagged only if it exceeds three times at least half of them, of
\* which there are enough, and always if it exceeds three times each of them.
\* Tools whose valid call crashed or hung take no part.
OutliersStandOut == pc \in {"writing", "printing", "exiting", "done"} =>
  /\ FlagsFit(slow, [k \in AnsweredTools |-> ValidCall(k).duration], 100)
  /\ FlagsFit(bloated, [k \in AnsweredTools |-> ValidCall(k).chars], 1000)

AllLines == UNION {{Lines(i)[n] : n \in DOMAIN Lines(i)} : i \in DOMAIN raw.tools}
Precedes(l, m) == l[1] < m[1] \/ (l[1] = m[1] /\ l[2] < m[2])

\* "so nothing is lost" (trace.py:12), of the sequential calls: whenever a report
\* is printed, the trace asked for has a line for each call and each skipped
\* tool; at any time it has, in order, the first of them and no other.
TraceIsHonest ==
  LET have == {trace[n] : n \in DOMAIN trace} IN
  /\ \A n \in DOMAIN trace : \A p \in 1..(n - 1) : Precedes(trace[p], trace[n])
  /\ have \subseteq AllLines
  /\ \A l \in have : \A m \in AllLines : Precedes(m, l) => m \in have
  /\ options.trace /\ marks # <<>> => have = AllLines
=============================================================================
