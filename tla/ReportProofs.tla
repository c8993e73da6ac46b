---------------------------- MODULE ReportProofs ----------------------------
(***************************************************************************)
(* What the report, the exit code and the trace say is true of what        *)
(* run_fuzz returned, for any tools, calls, outcomes and thresholds.       *)
(***************************************************************************)
EXTENDS Report, OutlierProofs, SequenceTheorems

\* What was chosen stays, and is what run_fuzz and the command line can give.
RawOK == raw \in FuzzReports /\ options \in Commands

\* What run_fuzz returned, and the options, are read only.
LEMMA RawStays == Spec => []RawOK
  <1>1. Init => RawOK
    BY DEF Init, RawOK
  <1>2. RawOK /\ [Next]_vars => RawOK'
    BY DEF RawOK, Next, vars, BuildSkipped, BuildTested, Summarise, WriteTool, TraceWritten,
       WriteFails, PrintReport, Exit, Terminated
  <1> QED BY <1>1, <1>2, PTL DEF Spec

\* A tool as run_fuzz returns it.
GoodTool(tool) ==
  /\ tool \in RawTools
  /\ ~tool.tested => tool.outcomes = <<>> /\ tool.concurrent = <<>>
  /\ tool.tested => tool.outcomes # <<>>
  /\ \A k \in DOMAIN tool.outcomes : tool.outcomes[k].case = "valid" <=> k = 1

\* What build_report may assume of the tools it is given.
LEMMA RawFacts ==
  ASSUME RawOK
  PROVE  /\ raw.tools \in Seq(RawTools) /\ Len(raw.tools) \in Nat
         /\ DOMAIN raw.tools = 1..Len(raw.tools)
         /\ raw.connectError \in BOOLEAN
         /\ raw.connectError => raw.tools = <<>>
         /\ \A i \in 1..Len(raw.tools) : GoodTool(raw.tools[i])
  <1>1. raw \in [connectError : BOOLEAN, tools : Seq(RawTools)]
        /\ (raw.connectError => raw.tools = <<>>)
    <2> HIDE DEF RawTools
    <2> QED BY RawAssumption DEF RawOK
  <1>2. raw.tools \in Seq(RawTools) /\ raw.connectError \in BOOLEAN
    <2> HIDE DEF RawTools
    <2> QED BY <1>1
  <1>3. Len(raw.tools) \in Nat /\ DOMAIN raw.tools = 1..Len(raw.tools)
    <2> HIDE DEF RawTools
    <2> QED BY <1>2, LenProperties
  <1>4. ASSUME NEW i \in 1..Len(raw.tools) PROVE GoodTool(raw.tools[i])
    <2>1. raw.tools[i] \in RawTools
      <3> HIDE DEF RawTools
      <3> QED BY <1>2, ElementOfSeq
    <2>2. /\ ~raw.tools[i].tested => raw.tools[i].outcomes = <<>> /\ raw.tools[i].concurrent = <<>>
          /\ raw.tools[i].tested => raw.tools[i].outcomes # <<>>
          /\ \A k \in DOMAIN raw.tools[i].outcomes :
               raw.tools[i].outcomes[k].case = "valid" <=> k = 1
      BY <1>3, RawAssumption DEF RawOK
    <2> QED BY <2>1, <2>2 DEF GoodTool
  <1> QED BY <1>1, <1>2, <1>3, <1>4

\* A tool's calls; of one that was tested, the valid call comes first.
LEMMA ToolFacts ==
  ASSUME NEW tool, GoodTool(tool)
  PROVE  /\ tool.tested \in BOOLEAN /\ tool.name \in Names
         /\ tool.outcomes \in Seq(Calls) /\ DOMAIN tool.outcomes = 1..Len(tool.outcomes)
         /\ Len(tool.outcomes) \in Nat
         /\ tool.concurrent \in Seq(ValidOutcomes)
         /\ DOMAIN tool.concurrent = 1..Len(tool.concurrent) /\ Len(tool.concurrent) \in Nat
         /\ \A j \in DOMAIN tool.concurrent : tool.concurrent[j] \in ValidOutcomes
         /\ tool.tested => /\ 1 \in DOMAIN tool.outcomes
                           /\ tool.outcomes[1].outcome \in ValidOutcomes
                           /\ tool.outcomes[1].duration \in Nat
                           /\ tool.outcomes[1].chars \in Nat
  <1>1. /\ tool.tested \in BOOLEAN /\ tool.name \in Names
        /\ tool.outcomes \in Seq(Calls) /\ tool.concurrent \in Seq(ValidOutcomes)
    <2> HIDE DEF Calls, ValidOutcomes
    <2> QED BY DEF GoodTool, RawTools
  <1>2. /\ DOMAIN tool.outcomes = 1..Len(tool.outcomes) /\ Len(tool.outcomes) \in Nat
        /\ DOMAIN tool.concurrent = 1..Len(tool.concurrent) /\ Len(tool.concurrent) \in Nat
    <2> HIDE DEF Calls, ValidOutcomes
    <2> QED BY <1>1, LenProperties
  <1>3. \A j \in DOMAIN tool.concurrent : tool.concurrent[j] \in ValidOutcomes
    <2> HIDE DEF ValidOutcomes
    <2> QED BY <1>1, <1>2, ElementOfSeq
  <1>4. ASSUME tool.tested
        PROVE  /\ 1 \in DOMAIN tool.outcomes
               /\ tool.outcomes[1].outcome \in ValidOutcomes
               /\ tool.outcomes[1].duration \in Nat
               /\ tool.outcomes[1].chars \in Nat
    <2>1. tool.outcomes # <<>>
      BY <1>4 DEF GoodTool
    <2>2. Len(tool.outcomes) \in Nat \ {0}
      <3> HIDE DEF Calls
      <3> QED BY <1>1, <2>1, EmptySeq
    <2>3. 1 \in 1..Len(tool.outcomes)
      BY <2>2
    <2>4. tool.outcomes[1] \in Calls
      <3> HIDE DEF Calls
      <3> QED BY <1>1, <2>3, ElementOfSeq
    <2>5. tool.outcomes[1].case = "valid"
      BY <1>2, <2>3 DEF GoodTool
    <2> QED BY <1>2, <2>3, <2>4, <2>5 DEF Calls
  <1> QED BY <1>1, <1>2, <1>3, <1>4

-----------------------------------------------------------------------------
(***************************************************************************)
(* The report of a tool and what it says of the tool.                      *)
(***************************************************************************)
ReportOf(tool) == IF tool.tested THEN ToolReport(tool) ELSE SkippedReport(tool)

\* What the report of one tool says of its calls.
LEMMA ReportFacts ==
  ASSUME NEW tool, GoodTool(tool)
  PROVE  /\ ReportOf(tool).name = tool.name
         /\ ReportOf(tool).tested = tool.tested
         /\ ReportOf(tool).concurrent = tool.concurrent
         /\ ReportOf(tool).crashes = BadWith(tool, "crash")
         /\ ReportOf(tool).timeouts = BadWith(tool, "timeout")
         /\ ReportOf(tool).issue <=> tool.tested /\ tool.outcomes[1].outcome # "ok"
         /\ ReportOf(tool).measured <=> tool.tested /\ tool.outcomes[1].outcome \notin Failures
         /\ ReportOf(tool).measured => /\ ReportOf(tool).duration = tool.outcomes[1].duration
                                       /\ ReportOf(tool).chars = tool.outcomes[1].chars
         /\ ReportOf(tool).duration \in Nat /\ ReportOf(tool).chars \in Nat
         /\ ReportOf(tool).issue \in BOOLEAN /\ ReportOf(tool).measured \in BOOLEAN
  <1>1. CASE tool.tested
    <2> DEFINE valid == tool.outcomes[1]
               wrong == valid.outcome \in Failures \cup {"valid_call_errored"}
               done  == Answered(valid)
               d == IF done THEN valid.duration ELSE 0
               c == IF done THEN valid.chars ELSE 0
    <2>1. wrong \in BOOLEAN /\ (wrong <=> valid.outcome # "ok")
      BY <1>1, ToolFacts DEF ValidOutcomes, Failures
    <2>2. done \in BOOLEAN /\ (done <=> valid.outcome \notin Failures)
      BY DEF Answered
    <2>3. d \in Nat /\ c \in Nat /\ (done => d = valid.duration /\ c = valid.chars)
      BY <1>1, ToolFacts
    <2>4. ReportOf(tool) = [name |-> tool.name, tested |-> TRUE, concurrent |-> tool.concurrent,
            crashes |-> BadWith(tool, "crash"), timeouts |-> BadWith(tool, "timeout"),
            issue |-> wrong, measured |-> done, duration |-> d, chars |-> c]
      BY <1>1 DEF ReportOf, ToolReport
    <2> HIDE DEF wrong, done, d, c
    <2> QED BY <1>1, <2>1, <2>2, <2>3, <2>4
  <1>2. CASE ~tool.tested
    <2>1. tool.outcomes = <<>> /\ tool.concurrent = <<>> /\ tool.tested = FALSE
      BY <1>2, ToolFacts DEF GoodTool
    <2>2. BadInput(tool) = {}
      BY <2>1 DEF BadInput
    <2>3. BadWith(tool, "crash") = {} /\ BadWith(tool, "timeout") = {}
      BY <2>2 DEF BadWith
    <2> QED BY <1>2, <2>1, <2>3 DEF ReportOf, SkippedReport
  <1> QED BY <1>1, <1>2

\* The report of a tool has the fields that the rest of build_report reads.
LEMMA ReportType ==
  ASSUME NEW tool, GoodTool(tool)
  PROVE  ReportOf(tool) \in ToolReports
  <1>1. BadWith(tool, "crash") \subseteq Nat \ {0} /\ BadWith(tool, "timeout") \subseteq Nat \ {0}
    BY ToolFacts DEF BadWith, BadInput
  <1>2. /\ tool.name \in Names /\ tool.concurrent \in Seq(ValidOutcomes) /\ <<>> \in Seq(ValidOutcomes)
    <2> HIDE DEF ValidOutcomes
    <2> QED BY ToolFacts, EmptySeq
  <1>3. CASE tool.tested
    <2> DEFINE valid == tool.outcomes[1]
               wrong == valid.outcome \in Failures \cup {"valid_call_errored"}
               done  == Answered(valid)
               d == IF done THEN valid.duration ELSE 0
               c == IF done THEN valid.chars ELSE 0
    <2>1. wrong \in BOOLEAN /\ done \in BOOLEAN
      BY DEF Answered
    <2>2. d \in Nat /\ c \in Nat
      BY <1>3, ToolFacts
    <2>3. ReportOf(tool) = [name |-> tool.name, tested |-> TRUE, concurrent |-> tool.concurrent,
            crashes |-> BadWith(tool, "crash"), timeouts |-> BadWith(tool, "timeout"),
            issue |-> wrong, measured |-> done, duration |-> d, chars |-> c]
      BY <1>3 DEF ReportOf, ToolReport
    <2> HIDE DEF wrong, done, d, c, ValidOutcomes
    <2> QED BY <1>1, <1>2, <2>1, <2>2, <2>3 DEF ToolReports
  <1>4. CASE ~tool.tested
    <2> HIDE DEF ValidOutcomes
    <2> QED BY <1>2, <1>4 DEF ReportOf, SkippedReport, ToolReports
  <1> QED BY <1>3, <1>4

-----------------------------------------------------------------------------
(***************************************************************************)
(* What has been built by when.                                            *)
(***************************************************************************)
Builds == BuildSkipped \/ BuildTested

BuildInv ==
  /\ reports \in Seq(ToolReports) /\ Len(reports) <= Len(raw.tools)
  /\ \A k \in 1..Len(reports) : reports[k] = ReportOf(raw.tools[k])
  /\ pc # "building" => Len(reports) = Len(raw.tools)

\* The reports so far are those of the first tools.
LEMMA ReportsFacts ==
  ASSUME RawOK, BuildInv
  PROVE  /\ DOMAIN reports = 1..Len(reports) /\ Len(reports) \in Nat
         /\ DOMAIN reports \subseteq DOMAIN raw.tools
         /\ \A k \in DOMAIN reports : /\ GoodTool(raw.tools[k])
                                      /\ reports[k] = ReportOf(raw.tools[k])
         /\ pc # "building" => DOMAIN reports = DOMAIN raw.tools
  <1>1. DOMAIN reports = 1..Len(reports) /\ Len(reports) \in Nat
    <2> HIDE DEF ToolReports
    <2> QED BY LenProperties DEF BuildInv
  <1> QED BY <1>1, RawFacts DEF BuildInv

\* Both kinds of step append the report of the next tool.
LEMMA BuildsOne ==
  ASSUME RawOK, BuildInv, Builds
  PROVE  /\ Len(reports) + 1 \in 1..Len(raw.tools)
         /\ reports' = Append(reports, ReportOf(NextTool))
         /\ GoodTool(NextTool) /\ NextTool = raw.tools[Len(reports) + 1]
         /\ pc = "building" /\ UNCHANGED <<raw, options, pc, summary, written, trace, marks, exit>>
  <1>1. Len(reports) \in Nat /\ Len(raw.tools) \in Nat /\ Len(reports) < Len(raw.tools)
    BY ReportsFacts, RawFacts DEF Builds, BuildSkipped, BuildTested
  <1>2. Len(reports) + 1 \in 1..Len(raw.tools)
    BY <1>1
  <1>3. GoodTool(NextTool)
    BY <1>2, RawFacts DEF NextTool
  <1>4. reports' = Append(reports, ReportOf(NextTool))
    BY DEF Builds, BuildSkipped, BuildTested, ReportOf
  <1>5. pc = "building" /\ UNCHANGED <<raw, options, pc, summary, written, trace, marks, exit>>
    BY DEF Builds, BuildSkipped, BuildTested
  <1> QED BY <1>2, <1>3, <1>4, <1>5 DEF NextTool

\* The reports are those of the tools, in order, and complete when the loop is over.
LEMMA BuildInvariant == Spec => []BuildInv
  <1>1. Init => BuildInv
    <2> SUFFICES ASSUME Init PROVE BuildInv
      OBVIOUS
    <2>1. reports \in Seq(ToolReports) /\ Len(reports) = 0
      <3> HIDE DEF ToolReports
      <3> QED BY EmptySeq DEF Init
    <2>2. Len(raw.tools) \in Nat
      BY RawFacts DEF Init, RawOK
    <2> QED BY <2>1, <2>2 DEF BuildInv, Init
  <1>2. ASSUME RawOK, BuildInv, [Next]_vars PROVE BuildInv'
    <2>1. CASE Builds
      <3>1. PICK r \in ToolReports : r = ReportOf(NextTool)
        BY <1>2, <2>1, BuildsOne, ReportType
      <3>2. /\ reports' = Append(reports, r) /\ reports \in Seq(ToolReports)
            /\ Len(reports) \in Nat /\ pc = "building"
            /\ Len(reports) + 1 \in 1..Len(raw.tools)
            /\ r = ReportOf(raw.tools[Len(reports) + 1]) /\ UNCHANGED <<raw, pc>>
        BY <1>2, <2>1, <3>1, BuildsOne, ReportsFacts DEF BuildInv
      <3>3. /\ reports' \in Seq(ToolReports) /\ Len(reports') = Len(reports) + 1
            /\ \A k \in 1..Len(reports) : reports'[k] = reports[k]
            /\ reports'[Len(reports) + 1] = r
        <4> HIDE DEF ToolReports
        <4> QED BY <3>2, AppendProperties
      <3>4. ASSUME NEW k \in 1..Len(reports') PROVE reports'[k] = ReportOf(raw.tools[k])
        <4>1. k \in 1..Len(reports) \/ k = Len(reports) + 1
          BY <3>2, <3>3
        <4> QED BY <1>2, <3>2, <3>3, <4>1 DEF BuildInv
      <3> QED BY <3>2, <3>3, <3>4 DEF BuildInv
    <2>2. CASE Summarise
      BY <1>2, <2>2 DEF Summarise, BuildInv
    <2>3. CASE WriteTool \/ TraceWritten \/ WriteFails \/ PrintReport \/ Exit \/ UNCHANGED vars
      BY <1>2, <2>3 DEF WriteTool, TraceWritten, WriteFails, PrintReport, Exit, vars, BuildInv
    <2> QED BY <1>2, <2>1, <2>2, <2>3 DEF Next, Builds, Terminated
  <1> QED BY <1>1, <1>2, RawStays, PTL DEF Spec

\* The findings are computed once, from the complete report, and the marks from
\* both.
SumInv ==
  /\ pc = "building" => slow = <<>> /\ bloated = <<>> /\ unsafe = {}
  /\ pc # "building" => /\ slow = SlowTools /\ bloated = BloatedTools
                        /\ unsafe = {k \in Checked : Unsafe(reports[k])}
  /\ pc \in {"exiting", "done"} => marks = [k \in DOMAIN reports |-> Marker(k)]
  /\ pc \notin {"exiting", "done"} => marks = <<>>

\* The flags and marks, once computed, stay what they were computed to be.
LEMMA SumInvariant == Spec => []SumInv
  <1>1. Init => SumInv
    BY DEF Init, SumInv
  <1>2. ASSUME RawOK, BuildInv, SumInv, [Next]_vars PROVE SumInv'
    <2>1. CASE Builds
      BY <1>2, <2>1, BuildsOne DEF SumInv, summary
    <2>2. CASE Summarise
      BY <1>2, <2>2 DEF Summarise, SumInv, SlowTools, BloatedTools, Measured, Checked
    <2>3. CASE WriteTool \/ TraceWritten \/ WriteFails \/ PrintReport \/ Exit \/ UNCHANGED vars
      <3>1. UNCHANGED <<reports, slow, bloated, unsafe>>
        BY <2>3 DEF WriteTool, TraceWritten, WriteFails, PrintReport, Exit, vars, summary
      <3>2. /\ SlowTools' = SlowTools /\ BloatedTools' = BloatedTools
            /\ {k \in Checked : Unsafe(reports[k])}' = {k \in Checked : Unsafe(reports[k])}
            /\ [k \in DOMAIN reports |-> Marker(k)]' = [k \in DOMAIN reports |-> Marker(k)]
        BY <3>1 DEF SlowTools, BloatedTools, Measured, Checked, Marker, Flagged, FlaggedIn
      <3>3. CASE PrintReport
        BY <1>2, <3>1, <3>2, <3>3 DEF PrintReport, SumInv
      <3>4. CASE WriteTool \/ TraceWritten \/ WriteFails \/ Exit \/ UNCHANGED vars
        BY <1>2, <3>1, <3>2, <3>4
        DEF WriteTool, TraceWritten, WriteFails, Exit, vars, SumInv
      <3> QED BY <2>3, <3>3, <3>4
    <2> QED BY <1>2, <2>1, <2>2, <2>3 DEF Next, Builds, Terminated
  <1> QED BY <1>1, <1>2, RawStays, BuildInvariant, PTL DEF Spec

-----------------------------------------------------------------------------
(***************************************************************************)
(* The marks.                                                              *)
(***************************************************************************)

\* Concurrent calls that make a finding are those that break where something did
\* not; and they are the only ones.
LEMMA UnsafeBreaks ==
  ASSUME NEW tool, GoodTool(tool), tool.concurrent # <<>>
  PROVE  Unsafe(ReportOf(tool)) <=> BreaksUnderLoad(tool)
  <1>1. tool.tested
    BY DEF GoodTool
  <1>2. /\ ReportOf(tool).concurrent = tool.concurrent
        /\ ReportOf(tool).issue <=> tool.outcomes[1].outcome # "ok"
    BY <1>1, ReportFacts
  <1>3. \A j \in DOMAIN tool.concurrent :
          j \in FailedOf(tool.concurrent) <=> tool.concurrent[j] # "ok"
    BY ToolFacts DEF FailedOf, ValidOutcomes, Failures
  <1>4. FailedOf(tool.concurrent) \subseteq DOMAIN tool.concurrent
    BY DEF FailedOf
  <1> QED BY <1>2, <1>3, <1>4 DEF Unsafe, BreaksUnderLoad

\* The suppression rule leaves exactly the tools that broke under load.
LEMMA UnsafeTools ==
  ASSUME RawOK, BuildInv, SumInv, pc # "building"
  PROVE  unsafe = {k \in CalledAtOnce : BreaksUnderLoad(raw.tools[k])}
  <1>1. /\ DOMAIN reports = DOMAIN raw.tools
        /\ \A k \in DOMAIN reports : GoodTool(raw.tools[k]) /\ reports[k] = ReportOf(raw.tools[k])
    BY ReportsFacts
  <1>2. Checked = CalledAtOnce
    BY <1>1, ReportFacts DEF Checked, CalledAtOnce
  <1>3. \A k \in CalledAtOnce : Unsafe(reports[k]) <=> BreaksUnderLoad(raw.tools[k])
    BY <1>1, UnsafeBreaks DEF CalledAtOnce
  <1>4. unsafe = {k \in Checked : Unsafe(reports[k])}
    BY DEF SumInv
  <1> QED BY <1>2, <1>3, <1>4

\* Each mark, from what run_fuzz returned.
LEMMA MarkFacts ==
  ASSUME RawOK, BuildInv, SumInv, NEW k \in DOMAIN marks
  PROVE  /\ k \in DOMAIN raw.tools /\ GoodTool(raw.tools[k]) /\ pc # "building"
         /\ marks[k] = Marker(k) /\ reports[k] = ReportOf(raw.tools[k])
         /\ k \in DOMAIN reports
  <1>1. pc \in {"exiting", "done"}
    BY DEF SumInv
  <1>2. marks = [j \in DOMAIN reports |-> Marker(j)]
    BY <1>1 DEF SumInv
  <1> QED BY <1>1, <1>2, ReportsFacts

\* Without crashes and timeouts on bad input there is no evidence of that kind.
LEMMA NothingBroke ==
  ASSUME NEW tool, BadWith(tool, "crash") = {}, BadWith(tool, "timeout") = {}
  PROVE  ~Breaks(tool)
  BY DEF Breaks, BadWith, BadInput, Failures

\* A tool marked "ok" answered all its calls, the valid ones without an error.
THEOREM OkIsClean == Spec => []OkMeansClean
  <1>1. ASSUME RawOK, BuildInv, SumInv PROVE OkMeansClean
    <2> SUFFICES ASSUME NEW k \in DOMAIN marks, marks[k] = "ok"
                 PROVE  /\ k \in AnsweredTools /\ ValidCall(k).outcome = "ok"
                        /\ ~Breaks(raw.tools[k])
                        /\ \A j \in DOMAIN raw.tools[k].concurrent :
                             raw.tools[k].concurrent[j] = "ok"
      BY DEF OkMeansClean
    <2>1. /\ k \in DOMAIN raw.tools /\ GoodTool(raw.tools[k]) /\ pc # "building"
          /\ Marker(k) = "ok" /\ reports[k] = ReportOf(raw.tools[k]) /\ k \in DOMAIN reports
      BY <1>1, MarkFacts
    <2>2. /\ reports[k].tested /\ ~reports[k].issue /\ ~Flagged(k, unsafe)
          /\ reports[k].crashes \cup reports[k].timeouts = {}
      BY <2>1 DEF Marker
    <2>3. /\ raw.tools[k].tested /\ raw.tools[k].outcomes[1].outcome = "ok"
          /\ BadWith(raw.tools[k], "crash") = {} /\ BadWith(raw.tools[k], "timeout") = {}
      BY <2>1, <2>2, ReportFacts
    <2>4. k \notin unsafe
      BY <2>2 DEF Flagged
    <2>5. ASSUME NEW j \in DOMAIN raw.tools[k].concurrent, raw.tools[k].concurrent[j] # "ok"
          PROVE  FALSE
      <3>1. raw.tools[k].concurrent # <<>>
        BY <2>5
      <3>2. BreaksUnderLoad(raw.tools[k]) /\ k \in CalledAtOnce
        BY <2>1, <2>3, <2>5, <3>1 DEF BreaksUnderLoad, CalledAtOnce
      <3> QED BY <1>1, <2>1, <2>4, <3>2, UnsafeTools
    <2>6. ~Breaks(raw.tools[k])
      BY <2>3, NothingBroke
    <2> QED BY <2>1, <2>3, <2>5, <2>6 DEF AnsweredTools, TestedTools, ValidCall, Failures
  <1> QED BY <1>1, RawStays, BuildInvariant, SumInvariant, PTL

\* A tool marked "FAIL" is, by its name, one with evidence against it.
THEOREM FailIsEarned == Spec => []FailMeansBroken
  <1>1. ASSUME RawOK, BuildInv, SumInv PROVE FailMeansBroken
    <2> SUFFICES ASSUME NEW k \in DOMAIN marks, marks[k] = "FAIL"
                 PROVE  \E j \in TestedTools :
                          /\ raw.tools[j].name = raw.tools[k].name
                          /\ Breaks(raw.tools[j]) \/ BreaksUnderLoad(raw.tools[j])
      BY DEF FailMeansBroken
    <2>1. /\ k \in DOMAIN raw.tools /\ GoodTool(raw.tools[k]) /\ pc # "building"
          /\ Marker(k) = "FAIL" /\ reports[k] = ReportOf(raw.tools[k]) /\ k \in DOMAIN reports
      BY <1>1, MarkFacts
    <2>2. /\ reports[k].tested
          /\ reports[k].crashes \cup reports[k].timeouts # {} \/ Flagged(k, unsafe)
      BY <2>1 DEF Marker
    <2>3. CASE reports[k].crashes \cup reports[k].timeouts # {}
      <3>1. raw.tools[k].tested /\ (BadWith(raw.tools[k], "crash") # {}
                                       \/ BadWith(raw.tools[k], "timeout") # {})
        BY <2>1, <2>2, <2>3, ReportFacts
      <3>2. Breaks(raw.tools[k])
        BY <3>1 DEF Breaks, BadWith, BadInput, Failures
      <3> QED BY <2>1, <3>1, <3>2 DEF TestedTools
    <2>4. CASE Flagged(k, unsafe)
      <3>1. PICK j \in unsafe : reports[j].name = reports[k].name
        BY <2>4 DEF Flagged
      <3>2. j \in CalledAtOnce /\ BreaksUnderLoad(raw.tools[j])
        BY <1>1, <2>1, UnsafeTools
      <3>3. j \in DOMAIN raw.tools /\ raw.tools[j].concurrent # <<>>
        BY <3>2 DEF CalledAtOnce
      <3>4. GoodTool(raw.tools[j]) /\ reports[j] = ReportOf(raw.tools[j])
        BY <1>1, <2>1, <3>3, ReportsFacts
      <3>5. raw.tools[j].tested /\ raw.tools[j].name = raw.tools[k].name
        BY <2>1, <3>1, <3>3, <3>4, ReportFacts DEF GoodTool
      <3> QED BY <3>2, <3>3, <3>5 DEF TestedTools
    <2> QED BY <2>2, <2>3, <2>4
  <1> QED BY <1>1, RawStays, BuildInvariant, SumInvariant, PTL

-----------------------------------------------------------------------------
(***************************************************************************)
(* Slow and bloated tools.                                                 *)
(***************************************************************************)
LEMMA Thresholds == SlowThreshold \in Nat /\ BloatThreshold \in Nat
  BY CommandAssumption

\* A tool is judged among all that were measured as it is to be.
LEMMA JudgedFit ==
  ASSUME NEW history, IsFiniteSet(DOMAIN history),
         \A j \in DOMAIN history : history[j] \in Nat, NEW above \in Nat, NEW floor \in Nat
  PROVE  FlagsFit(JudgeAll(history, above, floor), history, floor)
  <1> DEFINE flags == JudgeAll(history, above, floor)
  <1>1. DOMAIN flags = DOMAIN history
        /\ \A k \in DOMAIN history : flags[k] = Judge(history[k], history, above, 3, 3, floor)
    BY DEF JudgeAll
  <1>2. ASSUME NEW k \in DOMAIN history
        PROVE  "relative" \in flags[k] <=> Outlier(history[k], history, 3, 3, floor)
    BY <1>1 DEF Judge, Reasons
  <1> HIDE DEF flags
  <1>3. ASSUME NEW k \in DOMAIN history, Outlier(history[k], history, 3, 3, floor)
        PROVE  Cardinality(DOMAIN history) >= 3 /\ StandsOut(history[k], history, 3)
    BY <1>3, OutlierStandsOut
  <1>4. ASSUME NEW k \in DOMAIN history, Cardinality(DOMAIN history) >= 3, history[k] > floor,
               TowersOver(history[k], Others(history, k), 3)
        PROVE  Outlier(history[k], history, 3, 3, floor)
    <2>1. \A j \in DOMAIN history \ {k} : history[j] > 0 /\ history[k] > 3 * history[j]
      BY <1>4 DEF TowersOver, Others
    <2> QED BY <1>4, <2>1, ToweringAmongAll
  <1> QED BY <1>1, <1>2, <1>3, <1>4 DEF FlagsFit, flags

\* Latency and size are judged over the tools whose valid call was answered.
LEMMA MeasuredTools ==
  ASSUME RawOK, BuildInv, SumInv, pc # "building"
  PROVE  /\ Measured = AnsweredTools /\ IsFiniteSet(AnsweredTools)
         /\ slow = JudgeAll([k \in AnsweredTools |-> ValidCall(k).duration], SlowThreshold, 100)
         /\ bloated = JudgeAll([k \in AnsweredTools |-> ValidCall(k).chars], BloatThreshold, 1000)
         /\ \A k \in AnsweredTools : ValidCall(k).duration \in Nat /\ ValidCall(k).chars \in Nat
  <1>1. /\ DOMAIN reports = DOMAIN raw.tools
        /\ \A k \in DOMAIN reports : GoodTool(raw.tools[k]) /\ reports[k] = ReportOf(raw.tools[k])
    BY ReportsFacts
  <1>2. ASSUME NEW k \in DOMAIN raw.tools
        PROVE  reports[k].measured <=> raw.tools[k].tested /\ ValidCall(k).outcome \notin Failures
    BY <1>1, ReportFacts DEF ValidCall
  <1>3. Measured = AnsweredTools
    BY <1>1, <1>2 DEF Measured, AnsweredTools, TestedTools
  <1>4. IsFiniteSet(AnsweredTools)
    <2>1. PICK n \in Nat : DOMAIN raw.tools = 1..n
      BY RawFacts
    <2>2. IsFiniteSet(1..n) /\ AnsweredTools \in SUBSET (1..n)
      BY <2>1, FS_Interval DEF AnsweredTools, TestedTools
    <2> QED BY <2>2, FS_Subset
  <1>5. ASSUME NEW k \in AnsweredTools
        PROVE  /\ reports[k].duration = ValidCall(k).duration /\ reports[k].chars = ValidCall(k).chars
               /\ ValidCall(k).duration \in Nat /\ ValidCall(k).chars \in Nat
    <2>1. /\ k \in DOMAIN raw.tools /\ raw.tools[k].tested /\ GoodTool(raw.tools[k])
          /\ reports[k] = ReportOf(raw.tools[k]) /\ reports[k].measured
      BY <1>1, <1>2 DEF AnsweredTools, TestedTools
    <2> QED BY <2>1, ReportFacts, ToolFacts DEF ValidCall
  <1>6. /\ [k \in Measured |-> reports[k].duration] = [k \in AnsweredTools |-> ValidCall(k).duration]
        /\ [k \in Measured |-> reports[k].chars] = [k \in AnsweredTools |-> ValidCall(k).chars]
    BY <1>3, <1>5
  <1>7. /\ slow = JudgeAll([k \in Measured |-> reports[k].duration], SlowThreshold, 100)
        /\ bloated = JudgeAll([k \in Measured |-> reports[k].chars], BloatThreshold, 1000)
    BY DEF SumInv, SlowTools, BloatedTools
  <1>8. /\ slow = JudgeAll([k \in AnsweredTools |-> ValidCall(k).duration], SlowThreshold, 100)
        /\ bloated = JudgeAll([k \in AnsweredTools |-> ValidCall(k).chars], BloatThreshold, 1000)
    BY <1>6, <1>7, Zenon
  <1> QED BY <1>3, <1>4, <1>5, <1>8

\* A tool that is flagged as an outlier stands out among the tools that answered,
\* and one that towers over the others is flagged.
THEOREM OutliersAreOutliers == Spec => []OutliersStandOut
  <1>1. ASSUME RawOK, BuildInv, SumInv PROVE OutliersStandOut
    <2> SUFFICES ASSUME pc # "building"
                 PROVE  /\ FlagsFit(slow, [k \in AnsweredTools |-> ValidCall(k).duration], 100)
                        /\ FlagsFit(bloated, [k \in AnsweredTools |-> ValidCall(k).chars], 1000)
      BY DEF OutliersStandOut
    <2> DEFINE times == [k \in AnsweredTools |-> ValidCall(k).duration]
               lengths == [k \in AnsweredTools |-> ValidCall(k).chars]
    <2>1. /\ slow = JudgeAll(times, SlowThreshold, 100)
          /\ bloated = JudgeAll(lengths, BloatThreshold, 1000)
          /\ IsFiniteSet(DOMAIN times) /\ IsFiniteSet(DOMAIN lengths)
          /\ \A k \in DOMAIN times : times[k] \in Nat
          /\ \A k \in DOMAIN lengths : lengths[k] \in Nat
      BY <1>1, MeasuredTools
    <2> HIDE DEF times, lengths
    <2>2. FlagsFit(slow, times, 100) /\ FlagsFit(bloated, lengths, 1000)
      BY <2>1, JudgedFit, Thresholds
    <2> QED BY <2>2 DEF times, lengths
  <1> QED BY <1>1, RawStays, BuildInvariant, SumInvariant, PTL

-----------------------------------------------------------------------------
(***************************************************************************)
(* The percentages.                                                        *)
(***************************************************************************)

\* The calls on bad input of the first n tools, and those that broke.
BadUpTo(n) == {c \in BadCalls : c[1] <= n}
BrokenUpTo(n) == {c \in BadUpTo(n) : ~Handled(c)}

CountInv ==
  /\ tested \in Nat /\ skipped \in Nat /\ crashed \in Nat /\ hung \in Nat
  /\ IsFiniteSet(BadUpTo(Len(reports)))
  /\ badInput = Cardinality(BadUpTo(Len(reports)))
  /\ crashed + hung = Cardinality(BrokenUpTo(Len(reports)))
  /\ pc = "building" => percent = [m \in Measures |-> <<0, 0>>]

\* One more tool adds its own bad-input calls to those gone through, and no others.
LEMMA BadOfOne ==
  ASSUME RawOK, NEW n \in Nat, n + 1 \in 1..Len(raw.tools)
  PROVE  LET tool == raw.tools[n + 1] IN
         /\ BadUpTo(n + 1) = BadUpTo(n) \cup ({n + 1} \X BadInput(tool))
         /\ BadUpTo(n) \cap ({n + 1} \X BadInput(tool)) = {}
         /\ BrokenUpTo(n + 1) = BrokenUpTo(n)
              \cup ({n + 1} \X (BadWith(tool, "crash") \cup BadWith(tool, "timeout")))
         /\ BrokenUpTo(n)
              \cap ({n + 1} \X (BadWith(tool, "crash") \cup BadWith(tool, "timeout"))) = {}
  <1> DEFINE tool == raw.tools[n + 1]
             Broken == BadWith(tool, "crash") \cup BadWith(tool, "timeout")
  <1>1. DOMAIN raw.tools = 1..Len(raw.tools) /\ Len(raw.tools) \in Nat
    BY RawFacts
  <1>2. \A c : c \in BadCalls <=> \E i \in 1..Len(raw.tools) : \E k \in BadInput(raw.tools[i]) : c = <<i, k>>
    BY <1>1 DEF BadCalls
  <1>3. \A c : c \in BadUpTo(n + 1) <=> c \in BadUpTo(n) \/ c \in {n + 1} \X BadInput(tool)
    <2>1. ASSUME NEW c \in BadUpTo(n + 1) PROVE c \in BadUpTo(n) \/ c \in {n + 1} \X BadInput(tool)
      <3>1. PICK i \in 1..Len(raw.tools) : /\ i <= n + 1
                                           /\ \E k \in BadInput(raw.tools[i]) : c = <<i, k>>
        BY <1>2 DEF BadUpTo
      <3>2. i <= n \/ i = n + 1
        BY <3>1
      <3> QED BY <1>2, <3>1, <3>2 DEF BadUpTo
    <2>2. ASSUME NEW c \in BadUpTo(n) PROVE c \in BadUpTo(n + 1)
      <3>1. PICK i \in 1..Len(raw.tools) : /\ i <= n
                                           /\ \E k \in BadInput(raw.tools[i]) : c = <<i, k>>
        BY <1>2 DEF BadUpTo
      <3> QED BY <1>2, <3>1 DEF BadUpTo
    <2>3. ASSUME NEW c \in {n + 1} \X BadInput(tool) PROVE c \in BadUpTo(n + 1)
      <3>1. PICK k \in BadInput(tool) : c = <<n + 1, k>>
        BY <2>3
      <3> QED BY <1>2, <3>1 DEF BadUpTo
    <2> QED BY <2>1, <2>2, <2>3
  <1>4. \A c \in BadUpTo(n) : c[1] <= n
    BY DEF BadUpTo
  <1>5. \A k \in BadInput(tool) : Handled(<<n + 1, k>>) <=> k \notin Broken
    BY DEF Handled, BadWith, Failures
  <1>6. Broken \subseteq BadInput(tool)
    BY DEF BadWith
  <1>7. BadUpTo(n + 1) = BadUpTo(n) \cup ({n + 1} \X BadInput(tool))
    BY <1>3
  <1>8. BadUpTo(n) \cap ({n + 1} \X BadInput(tool)) = {}
    <2> HIDE DEF tool
    <2> QED BY <1>4
  <1>9. BrokenUpTo(n + 1) = BrokenUpTo(n) \cup ({n + 1} \X Broken)
    <2>1. \A c \in {n + 1} \X BadInput(tool) : ~Handled(c) <=> c \in {n + 1} \X Broken
      <3> HIDE DEF tool, Broken
      <3> QED BY <1>5
    <2>2. {n + 1} \X Broken \subseteq {n + 1} \X BadInput(tool)
      <3> HIDE DEF tool, Broken
      <3> QED BY <1>6
    <2> HIDE DEF tool, Broken
    <2> QED BY <1>7, <2>1, <2>2 DEF BrokenUpTo
  <1>10. BrokenUpTo(n) \cap ({n + 1} \X Broken) = {}
    <2> HIDE DEF tool, Broken
    <2> QED BY <1>4 DEF BrokenUpTo
  <1> QED BY <1>7, <1>8, <1>9, <1>10

\* Two finite sets with nothing in common have as many elements as both together.
LEMMA DisjointCount ==
  ASSUME NEW S, NEW T, IsFiniteSet(S), IsFiniteSet(T), S \cap T = {}
  PROVE  /\ IsFiniteSet(S \cup T)
         /\ Cardinality(S \cup T) = Cardinality(S) + Cardinality(T)
  <1>1. PICK s \in Nat, t \in Nat : s = Cardinality(S) /\ t = Cardinality(T)
    BY FS_CardinalityType
  <1>2. Cardinality({}) = 0
    BY FS_EmptySet
  <1>3. /\ IsFiniteSet(S \cup T)
        /\ Cardinality(S \cup T) = Cardinality(S) + Cardinality(T) - Cardinality(S \cap T)
    BY FS_Union
  <1>4. Cardinality(S \cup T) = s + t - 0
    BY <1>1, <1>2, <1>3
  <1> QED BY <1>1, <1>3, <1>4

\* The counters keep step with the tools gone through.
LEMMA BuildingCounts ==
  ASSUME RawOK, BuildInv, CountInv, BuildTested
  PROVE  CountInv'
  <1> DEFINE n == Len(reports)
             tool == raw.tools[n + 1]
             bad == BadInput(tool)
             crashes == BadWith(tool, "crash")
             hangs == BadWith(tool, "timeout")
  <1>1. /\ n \in Nat /\ n + 1 \in 1..Len(raw.tools) /\ GoodTool(tool) /\ NextTool = tool
        /\ pc = "building" /\ UNCHANGED <<raw, pc, percent>>
        /\ reports' = Append(reports, ReportOf(tool))
    BY BuildsOne, ReportsFacts DEF Builds, summary
  <1>2. Len(reports') = n + 1
    <2>1. PICK r \in ToolReports : r = ReportOf(tool)
      BY <1>1, ReportType
    <2>2. reports \in Seq(ToolReports) /\ reports' = Append(reports, r)
      BY <1>1, <2>1 DEF BuildInv
    <2> HIDE DEF ToolReports
    <2> QED BY <2>2, AppendProperties
  <1>3. /\ tested' = tested + 1 /\ badInput' = badInput + Cardinality(bad)
        /\ crashed' = crashed + Cardinality(crashes) /\ hung' = hung + Cardinality(hangs)
        /\ UNCHANGED skipped
    BY <1>1 DEF BuildTested
  <1>4. /\ IsFiniteSet(bad) /\ IsFiniteSet(crashes) /\ IsFiniteSet(hangs)
        /\ Cardinality(bad) \in Nat /\ Cardinality(crashes) \in Nat /\ Cardinality(hangs) \in Nat
    <2>1. PICK m \in Nat : DOMAIN tool.outcomes = 1..m
      BY <1>1, ToolFacts
    <2>2. IsFiniteSet(1..m) /\ bad \in SUBSET (1..m)
          /\ crashes \in SUBSET (1..m) /\ hangs \in SUBSET (1..m)
      BY <2>1, FS_Interval DEF BadInput, BadWith
    <2>3. IsFiniteSet(bad) /\ IsFiniteSet(crashes) /\ IsFiniteSet(hangs)
      BY <2>2, FS_Subset
    <2> QED BY <2>3, FS_CardinalityType
  <1>5. crashes \cap hangs = {}
    BY DEF BadWith
  <1> HIDE DEF bad, crashes, hangs
  <1>6. IsFiniteSet(crashes \cup hangs)
        /\ Cardinality(crashes \cup hangs) = Cardinality(crashes) + Cardinality(hangs)
    BY <1>4, <1>5, DisjointCount
  <1>7. ASSUME NEW S, IsFiniteSet(S)
        PROVE  IsFiniteSet({n + 1} \X S) /\ Cardinality({n + 1} \X S) = Cardinality(S)
    <2>1. IsFiniteSet({n + 1}) /\ Cardinality({n + 1}) = 1
      BY FS_Singleton
    <2>2. Cardinality(S) \in Nat
      BY <1>7, FS_CardinalityType
    <2>3. IsFiniteSet({n + 1} \X S) /\ Cardinality({n + 1} \X S) = 1 * Cardinality(S)
      BY <1>7, <2>1, FS_Product
    <2> QED BY <2>2, <2>3
  <1>8. /\ IsFiniteSet(BadUpTo(n)) /\ IsFiniteSet(BrokenUpTo(n))
        /\ Cardinality(BadUpTo(n)) \in Nat /\ Cardinality(BrokenUpTo(n)) \in Nat
    <2>1. IsFiniteSet(BadUpTo(n)) /\ BrokenUpTo(n) \in SUBSET BadUpTo(n)
      BY DEF CountInv, BrokenUpTo
    <2>2. IsFiniteSet(BrokenUpTo(n))
      BY <2>1, FS_Subset
    <2> QED BY <2>1, <2>2, FS_CardinalityType
  <1>9. /\ BadUpTo(n + 1) = BadUpTo(n) \cup ({n + 1} \X bad)
        /\ BadUpTo(n) \cap ({n + 1} \X bad) = {}
        /\ BrokenUpTo(n + 1) = BrokenUpTo(n) \cup ({n + 1} \X (crashes \cup hangs))
        /\ BrokenUpTo(n) \cap ({n + 1} \X (crashes \cup hangs)) = {}
    BY <1>1, BadOfOne DEF bad, crashes, hangs
  <1>10. IsFiniteSet(BadUpTo(n + 1))
         /\ Cardinality(BadUpTo(n + 1)) = Cardinality(BadUpTo(n)) + Cardinality(bad)
    <2>1. PICK B : B = {n + 1} \X bad
      OBVIOUS
    <2>2. IsFiniteSet(B) /\ Cardinality(B) = Cardinality(bad)
      BY <1>4, <1>7, <2>1
    <2>3. BadUpTo(n + 1) = BadUpTo(n) \cup B /\ BadUpTo(n) \cap B = {}
      BY <1>9, <2>1
    <2> QED BY <1>8, <2>2, <2>3, DisjointCount
  <1>11. Cardinality(BrokenUpTo(n + 1))
           = Cardinality(BrokenUpTo(n)) + (Cardinality(crashes) + Cardinality(hangs))
    <2>1. PICK B : B = {n + 1} \X (crashes \cup hangs)
      OBVIOUS
    <2>2. IsFiniteSet(B) /\ Cardinality(B) = Cardinality(crashes) + Cardinality(hangs)
      BY <1>6, <1>7, <2>1
    <2>3. BrokenUpTo(n + 1) = BrokenUpTo(n) \cup B /\ BrokenUpTo(n) \cap B = {}
      BY <1>9, <2>1
    <2> QED BY <1>8, <2>2, <2>3, DisjointCount
  <1>12. badInput = Cardinality(BadUpTo(n)) /\ crashed + hung = Cardinality(BrokenUpTo(n))
         /\ tested \in Nat /\ skipped \in Nat /\ crashed \in Nat /\ hung \in Nat
    BY DEF CountInv
  <1>13. /\ BadUpTo(Len(reports))' = BadUpTo(n + 1) /\ BrokenUpTo(Len(reports))' = BrokenUpTo(n + 1)
    <2>1. BadCalls' = BadCalls /\ \A c : Handled(c)' = Handled(c)
      BY <1>1 DEF BadCalls, Handled
    <2> QED BY <1>2, <2>1 DEF BadUpTo, BrokenUpTo
  <1>14. /\ badInput' = Cardinality(BadUpTo(n + 1))
         /\ crashed' + hung' = Cardinality(BrokenUpTo(n + 1))
         /\ tested' \in Nat /\ skipped' \in Nat /\ crashed' \in Nat /\ hung' \in Nat
    <2>1. PICK p \in Nat, q \in Nat, r \in Nat, s \in Nat, t \in Nat :
            /\ p = Cardinality(bad) /\ q = Cardinality(crashes) /\ r = Cardinality(hangs)
            /\ s = Cardinality(BadUpTo(n)) /\ t = Cardinality(BrokenUpTo(n))
      BY <1>4, <1>8
    <2>2. /\ tested' = tested + 1 /\ badInput' = s + p /\ crashed' = crashed + q
          /\ hung' = hung + r /\ skipped' = skipped
          /\ crashed + hung = t
          /\ tested \in Nat /\ skipped \in Nat /\ crashed \in Nat /\ hung \in Nat
      BY <1>3, <1>12, <2>1
    <2>3. /\ Cardinality(BadUpTo(n + 1)) = s + p
          /\ Cardinality(BrokenUpTo(n + 1)) = t + (q + r)
      BY <1>10, <1>11, <2>1
    <2>4. crashed' + hung' = t + (q + r)
      BY <2>2
    <2> QED BY <2>2, <2>3, <2>4
  <1>15. pc' = "building" => percent' = [m \in Measures |-> <<0, 0>>]
    BY <1>1 DEF CountInv
  <1> QED BY <1>10, <1>13, <1>14, <1>15 DEF CountInv

\* A skipped tool has no calls to count.
LEMMA SkippingCounts ==
  ASSUME RawOK, BuildInv, CountInv, BuildSkipped
  PROVE  CountInv'
  <1> DEFINE n == Len(reports)
             tool == raw.tools[n + 1]
  <1>1. /\ n \in Nat /\ n + 1 \in 1..Len(raw.tools) /\ GoodTool(tool) /\ NextTool = tool
        /\ pc = "building" /\ UNCHANGED <<raw, pc, percent>>
        /\ reports' = Append(reports, ReportOf(tool))
    BY BuildsOne, ReportsFacts DEF Builds, summary
  <1>2. Len(reports') = n + 1
    <2>1. PICK r \in ToolReports : r = ReportOf(tool)
      BY <1>1, ReportType
    <2>2. reports \in Seq(ToolReports) /\ reports' = Append(reports, r)
      BY <1>1, <2>1 DEF BuildInv
    <2> HIDE DEF ToolReports
    <2> QED BY <2>2, AppendProperties
  <1>3. ~tool.tested /\ skipped' = skipped + 1 /\ UNCHANGED <<tested, badInput, crashed, hung>>
    BY <1>1 DEF BuildSkipped
  <1>4. BadInput(tool) = {}
    <2>1. tool.outcomes = <<>>
      BY <1>1, <1>3 DEF GoodTool
    <2> QED BY <2>1 DEF BadInput
  <1>5. BadWith(tool, "crash") \cup BadWith(tool, "timeout") = {}
    BY <1>4 DEF BadWith
  <1>6. BadUpTo(n + 1) = BadUpTo(n) /\ BrokenUpTo(n + 1) = BrokenUpTo(n)
    <2>1. /\ BadUpTo(n + 1) = BadUpTo(n) \cup ({n + 1} \X BadInput(tool))
          /\ BrokenUpTo(n + 1) = BrokenUpTo(n)
               \cup ({n + 1} \X (BadWith(tool, "crash") \cup BadWith(tool, "timeout")))
      BY <1>1, BadOfOne
    <2>2. {n + 1} \X {} = {}
      OBVIOUS
    <2> QED BY <1>4, <1>5, <2>1, <2>2
  <1>7. /\ BadUpTo(Len(reports))' = BadUpTo(n + 1) /\ BrokenUpTo(Len(reports))' = BrokenUpTo(n + 1)
    <2>1. BadCalls' = BadCalls /\ \A c : Handled(c)' = Handled(c)
      BY <1>1 DEF BadCalls, Handled
    <2> QED BY <1>2, <2>1 DEF BadUpTo, BrokenUpTo
  <1> QED BY <1>1, <1>3, <1>6, <1>7 DEF CountInv

\* The counters are the numbers of calls gone through.
LEMMA CountInvariant == Spec => []CountInv
  <1>1. Init => CountInv
    <2> SUFFICES ASSUME Init PROVE CountInv
      OBVIOUS
    <2>1. Len(reports) = 0 /\ RawOK
      <3> HIDE DEF ToolReports
      <3> QED BY EmptySeq DEF Init, RawOK
    <2>2. BadUpTo(0) = {}
      <3>1. DOMAIN raw.tools = 1..Len(raw.tools) /\ Len(raw.tools) \in Nat
        BY <2>1, RawFacts
      <3> QED BY <3>1 DEF BadUpTo, BadCalls
    <2>3. BrokenUpTo(0) = {}
      BY <2>2 DEF BrokenUpTo
    <2>4. IsFiniteSet({}) /\ Cardinality({}) = 0
      BY FS_EmptySet
    <2>5. /\ IsFiniteSet(BadUpTo(Len(reports))) /\ Cardinality(BadUpTo(Len(reports))) = 0
          /\ Cardinality(BrokenUpTo(Len(reports))) = 0
      BY <2>1, <2>2, <2>3, <2>4
    <2>6. /\ tested = 0 /\ skipped = 0 /\ badInput = 0 /\ crashed = 0 /\ hung = 0
          /\ percent = [m \in Measures |-> <<0, 0>>]
      BY DEF Init
    <2> QED BY <2>5, <2>6 DEF CountInv
  <1>2. ASSUME RawOK, BuildInv, CountInv, [Next]_vars PROVE CountInv'
    <2>1. CASE BuildTested
      BY <1>2, <2>1, BuildingCounts
    <2>2. CASE BuildSkipped
      BY <1>2, <2>2, SkippingCounts
    <2>3. CASE Summarise \/ WriteTool \/ TraceWritten \/ WriteFails \/ PrintReport \/ Exit
               \/ UNCHANGED vars
      <3>1. UNCHANGED <<raw, reports, counters>> /\ (pc' = "building" => UNCHANGED <<pc, percent>>)
        BY <1>2, <2>3 DEF Summarise, WriteTool, TraceWritten, WriteFails, PrintReport, Exit,
           vars, summary
      <3>2. BadUpTo(Len(reports))' = BadUpTo(Len(reports))
            /\ BrokenUpTo(Len(reports))' = BrokenUpTo(Len(reports))
        BY <3>1 DEF BadUpTo, BrokenUpTo, BadCalls, Handled
      <3> QED BY <1>2, <3>1, <3>2 DEF CountInv, counters
    <2> QED BY <1>2, <2>1, <2>2, <2>3 DEF Next, Terminated
  <1> QED BY <1>1, <1>2, RawStays, BuildInvariant, PTL DEF Spec

\* The percentages are computed once, from the counters and the findings.
PercentInv ==
  /\ percent = [m \in Measures |-> percent[m]]
  /\ pc # "building" =>
       /\ percent["resilience"] = <<badInput - (crashed + hung), badInput>>
       /\ percent["latency"] = Unflagged(slow)
       /\ percent["size"] = Unflagged(bloated)
       /\ percent["concurrency"] =
            <<Cardinality(Checked) - Cardinality(unsafe), Cardinality(Checked)>>

\* The percentages are made of the final counters and flags.
LEMMA PercentInvariant == Spec => []PercentInv
  <1>1. Init => PercentInv
    BY DEF Init, PercentInv
  <1>2. ASSUME PercentInv, [Next]_vars PROVE PercentInv'
    <2>1. CASE BuildTested \/ BuildSkipped
      BY <1>2, <2>1 DEF BuildTested, BuildSkipped, PercentInv, summary
    <2>2. CASE Summarise
      <3>1. UNCHANGED <<reports, counters>>
        BY <2>2 DEF Summarise
      <3>2. Checked' = Checked
        BY <3>1 DEF Checked
      <3>3. percent' = [m \in Measures |->
              IF m = "resilience" THEN <<badInput - (crashed + hung), badInput>>
              ELSE IF m = "latency" THEN Unflagged(slow')
              ELSE IF m = "size" THEN Unflagged(bloated')
              ELSE <<Cardinality(Checked) - Cardinality(unsafe'), Cardinality(Checked)>>]
        BY <2>2 DEF Summarise
      <3>4. /\ percent'["resilience"] = <<badInput - (crashed + hung), badInput>>
            /\ percent'["latency"] = Unflagged(slow')
            /\ percent'["size"] = Unflagged(bloated')
            /\ percent'["concurrency"] =
                 <<Cardinality(Checked) - Cardinality(unsafe'), Cardinality(Checked)>>
            /\ percent' = [m \in Measures |-> percent'[m]]
        <4> HIDE DEF Unflagged, Checked
        <4> QED BY <3>3 DEF Measures
      <3>5. Unflagged(slow)' = Unflagged(slow') /\ Unflagged(bloated)' = Unflagged(bloated')
        BY DEF Unflagged
      <3> QED BY <3>1, <3>2, <3>4, <3>5 DEF PercentInv, counters
    <2>3. CASE WriteTool \/ TraceWritten \/ WriteFails \/ PrintReport \/ Exit \/ UNCHANGED vars
      <3>1. UNCHANGED <<reports, counters, summary>> /\ (pc' # "building" => pc # "building")
        BY <2>3 DEF WriteTool, TraceWritten, WriteFails, PrintReport, Exit, vars
      <3> QED BY <1>2, <3>1 DEF PercentInv, Checked, Unflagged, counters, summary
    <2> QED BY <1>2, <2>1, <2>2, <2>3 DEF Next, Terminated
  <1> QED BY <1>1, <1>2, PTL DEF Spec

\* A finite set and what is left when a part is taken from it.
LEMMA RestCount ==
  ASSUME NEW S, IsFiniteSet(S), NEW T \in SUBSET S
  PROVE  /\ IsFiniteSet(T) /\ IsFiniteSet(S \ T)
         /\ Cardinality(S) \in Nat /\ Cardinality(T) \in Nat
         /\ Cardinality(S \ T) = Cardinality(S) - Cardinality(T)
  <1>1. IsFiniteSet(T) /\ IsFiniteSet(S \ T)
    BY FS_Subset
  <1>2. T \cap (S \ T) = {} /\ T \cup (S \ T) = S
    OBVIOUS
  <1>3. PICK R : R = S \ T
    OBVIOUS
  <1>4. Cardinality(T \cup R) = Cardinality(T) + Cardinality(R)
    BY <1>1, <1>2, <1>3, DisjointCount
  <1>5. PICK s \in Nat, t \in Nat, r \in Nat :
          s = Cardinality(S) /\ t = Cardinality(T) /\ r = Cardinality(R)
    BY <1>1, <1>3, FS_CardinalityType
  <1>6. s = t + r
    BY <1>2, <1>3, <1>4, <1>5
  <1> QED BY <1>1, <1>3, <1>5, <1>6

\* Each percentage is the share it is to be.
LEMMA Shares ==
  ASSUME RawOK, BuildInv, SumInv, CountInv, PercentInv, pc # "building", NEW m \in Measures
  PROVE  /\ IsFiniteSet(Share(m)[1]) /\ IsFiniteSet(Share(m)[2])
         /\ Share(m)[1] \subseteq Share(m)[2]
         /\ percent[m] = <<Cardinality(Share(m)[1]), Cardinality(Share(m)[2])>>
  <1>1. CASE m = "resilience"
    <2> DEFINE handled == {c \in BadCalls : Handled(c)}
               broken  == {c \in BadCalls : ~Handled(c)}
    <2>1. Share(m) = <<handled, BadCalls>>
      BY <1>1 DEF Share
    <2>2. /\ Len(reports) = Len(raw.tools) /\ Len(raw.tools) \in Nat
          /\ DOMAIN raw.tools = 1..Len(raw.tools)
      BY RawFacts DEF BuildInv
    <2>3. \A c \in BadCalls : c[1] <= Len(raw.tools)
      BY <2>2 DEF BadCalls
    <2>4. BadUpTo(Len(reports)) = BadCalls
      BY <2>2, <2>3 DEF BadUpTo
    <2>5. BrokenUpTo(Len(reports)) = broken
      BY <2>4 DEF BrokenUpTo
    <2>6. /\ IsFiniteSet(BadCalls) /\ badInput = Cardinality(BadCalls)
          /\ crashed + hung = Cardinality(broken)
      BY <2>4, <2>5 DEF CountInv
    <2>7. handled = BadCalls \ broken /\ broken \in SUBSET BadCalls
      OBVIOUS
    <2> HIDE DEF handled, broken
    <2>8. IsFiniteSet(handled) /\ Cardinality(handled) = badInput - (crashed + hung)
      BY <2>6, <2>7, RestCount
    <2> QED BY <1>1, <2>1, <2>6, <2>7, <2>8 DEF PercentInv
  <1>2. CASE m = "latency"
    <2>1. DOMAIN slow = AnsweredTools /\ IsFiniteSet(AnsweredTools)
      BY MeasuredTools DEF JudgeAll
    <2>2. Share(m) = <<{k \in AnsweredTools : slow[k] = {}}, AnsweredTools>>
      BY <1>2 DEF Share
    <2>3. percent[m] = <<Cardinality({k \in AnsweredTools : slow[k] = {}}),
                         Cardinality(AnsweredTools)>>
      BY <1>2, <2>1 DEF PercentInv, Unflagged
    <2>4. IsFiniteSet({k \in AnsweredTools : slow[k] = {}})
      <3>1. {k \in AnsweredTools : slow[k] = {}} \in SUBSET AnsweredTools
        OBVIOUS
      <3> QED BY <2>1, <3>1, FS_Subset
    <2> QED BY <2>1, <2>2, <2>3, <2>4
  <1>3. CASE m = "size"
    <2>1. DOMAIN bloated = AnsweredTools /\ IsFiniteSet(AnsweredTools)
      BY MeasuredTools DEF JudgeAll
    <2>2. Share(m) = <<{k \in AnsweredTools : bloated[k] = {}}, AnsweredTools>>
      BY <1>3 DEF Share
    <2>3. percent[m] = <<Cardinality({k \in AnsweredTools : bloated[k] = {}}),
                         Cardinality(AnsweredTools)>>
      BY <1>3, <2>1 DEF PercentInv, Unflagged
    <2>4. IsFiniteSet({k \in AnsweredTools : bloated[k] = {}})
      <3>1. {k \in AnsweredTools : bloated[k] = {}} \in SUBSET AnsweredTools
        OBVIOUS
      <3> QED BY <2>1, <3>1, FS_Subset
    <2> QED BY <2>1, <2>2, <2>3, <2>4
  <1>4. CASE m = "concurrency"
    <2> DEFINE safe == {k \in CalledAtOnce : ~BreaksUnderLoad(raw.tools[k])}
    <2>1. Share(m) = <<safe, CalledAtOnce>>
      BY <1>4 DEF Share
    <2>2. unsafe = {k \in CalledAtOnce : BreaksUnderLoad(raw.tools[k])}
      BY UnsafeTools
    <2>3. Checked = CalledAtOnce
      BY ReportsFacts, ReportFacts DEF Checked, CalledAtOnce
    <2>4. IsFiniteSet(CalledAtOnce)
      <3>1. PICK n \in Nat : DOMAIN raw.tools = 1..n
        BY RawFacts
      <3>2. IsFiniteSet(1..n) /\ CalledAtOnce \in SUBSET (1..n)
        BY <3>1, FS_Interval DEF CalledAtOnce
      <3> QED BY <3>2, FS_Subset
    <2>5. safe = CalledAtOnce \ unsafe /\ unsafe \in SUBSET CalledAtOnce
      BY <2>2
    <2> HIDE DEF safe
    <2>6. IsFiniteSet(safe) /\ Cardinality(safe) = Cardinality(CalledAtOnce) - Cardinality(unsafe)
      BY <2>4, <2>5, RestCount
    <2> QED BY <1>4, <2>1, <2>3, <2>4, <2>5, <2>6 DEF PercentInv
  <1> QED BY <1>1, <1>2, <1>3, <1>4 DEF Measures

\* The exit code is chosen last, or by an exception before anything is printed.
ExitInv ==
  /\ pc \notin {"done", "raised"} => exit = "none"
  /\ pc = "raised" => exit = "1"
  /\ pc = "done" => exit = IF raw.connectError THEN "2"
                           ELSE IF \E m \in DOMAIN options.failUnder : Misses(m) THEN "1" ELSE "0"

\* The exit code is what main computes from the percentages, or 1 for an exception.
LEMMA ExitInvariant == Spec => []ExitInv
  <1>1. Init => ExitInv
    BY DEF Init, ExitInv
  <1>2. ASSUME ExitInv, [Next]_vars PROVE ExitInv'
    <2>1. CASE BuildTested \/ BuildSkipped \/ WriteTool
      BY <1>2, <2>1 DEF BuildTested, BuildSkipped, WriteTool, ExitInv
    <2>2. CASE Summarise \/ TraceWritten \/ PrintReport
      BY <1>2, <2>2 DEF Summarise, TraceWritten, PrintReport, ExitInv
    <2>3. CASE WriteFails
      BY <2>3 DEF WriteFails, ExitInv
    <2>4. CASE Exit
      <3>1. UNCHANGED <<raw, options, percent>>
        BY <2>4 DEF Exit, summary
      <3>2. \A m : Misses(m)' <=> Misses(m)
        BY <3>1 DEF Misses
      <3> QED BY <2>4, <3>1, <3>2 DEF Exit, ExitInv
    <2>5. CASE UNCHANGED vars
      <3>1. UNCHANGED <<raw, options, percent, pc, exit>>
        BY <2>5 DEF vars, summary
      <3>2. \A m : Misses(m)' <=> Misses(m)
        BY <3>1 DEF Misses
      <3> QED BY <1>2, <3>1, <3>2 DEF ExitInv
    <2> QED BY <1>2, <2>1, <2>2, <2>3, <2>4, <2>5 DEF Next, Terminated
  <1> QED BY <1>1, <1>2, PTL DEF Spec

\* The exit code says of each threshold whether the share reaches it, but for the shares
\* that are rounded away.
THEOREM ExitIsEarned == Spec => []ExitIsTheVerdict
  <1>1. ASSUME RawOK, BuildInv, SumInv, CountInv, PercentInv, ExitInv
        PROVE  ExitIsTheVerdict
    <2>1. ASSUME pc = "done", NEW m \in DOMAIN options.failUnder
          PROVE  ~Misses(m) <=> /\ AtLeast(m, options.failUnder[m])
                                /\ ~RoundedAway(m, options.failUnder[m])
      <3>1. m \in Measures /\ options.failUnder[m] \in Nat
        BY CommandAssumption, <1>1 DEF RawOK
      <3>2. /\ IsFiniteSet(Share(m)[1]) /\ IsFiniteSet(Share(m)[2])
            /\ percent[m] = Sizes(m)
        BY <1>1, <2>1, <3>1, Shares DEF Sizes
      <3>3. PICK p \in Nat, q \in Nat, b \in Nat :
              /\ p = Cardinality(Share(m)[1]) /\ q = Cardinality(Share(m)[2])
              /\ b = options.failUnder[m]
        BY <3>1, <3>2, FS_CardinalityType
      <3>4. Sizes(m)[1] = p /\ Sizes(m)[2] = q
        BY <3>3 DEF Sizes
      <3>5. q = 0 <=> Share(m)[2] = {}
        BY <3>2, <3>3, FS_EmptySet
      <3> DEFINE Rounds == m = "resilience" /\ Sizes(m) \in RoundsBelow
      <3>6. /\ AtLeast(m, options.failUnder[m]) <=> q # 0 /\ 100 * p >= b * q
            /\ RoundedAway(m, options.failUnder[m]) <=> Rounds /\ 100 * p = b * q
        BY <3>3, <3>4, <3>5 DEF AtLeast, RoundedAway
      <3>7. Misses(m) <=> q = 0 \/ 100 * p < b * q \/ (Rounds /\ 100 * p = b * q)
        BY <3>2, <3>3, <3>4 DEF Misses
      <3>8. 100 * p \in Nat /\ b * q \in Nat
        BY <3>3
      <3> HIDE DEF Rounds
      <3> QED BY <3>6, <3>7, <3>8
    <2>2. CASE pc = "raised"
      BY <1>1, <2>2 DEF ExitIsTheVerdict, ExitInv, SumInv
    <2>3. CASE pc = "done"
      BY <1>1, <2>1, <2>3 DEF ExitIsTheVerdict, ExitInv
    <2>4. CASE pc \notin {"done", "raised"}
      BY <1>1, <2>4 DEF ExitIsTheVerdict, ExitInv
    <2> QED BY <2>2, <2>3, <2>4
  <1> QED BY <1>1, RawStays, BuildInvariant, SumInvariant, CountInvariant, PercentInvariant,
             ExitInvariant, PTL

-----------------------------------------------------------------------------
(***************************************************************************)
(* The trace.                                                              *)
(***************************************************************************)
Places == Nat \X Nat

\* The lines of a tool are about it, and in order.
LEMMA LinesFacts ==
  ASSUME RawOK, NEW i \in 1..Len(raw.tools)
  PROVE  /\ Lines(i) \in Seq(Places)
         /\ Len(Lines(i)) \in Nat /\ DOMAIN Lines(i) = 1..Len(Lines(i))
         /\ \A n \in 1..Len(Lines(i)) : Lines(i)[n] \in Places /\ Lines(i)[n][1] = i
         /\ \A n \in 1..Len(Lines(i)) : \A p \in 1..(n - 1) : Lines(i)[p][2] < Lines(i)[n][2]
  <1>1. i \in Nat /\ GoodTool(raw.tools[i])
    BY RawFacts
  <1>2. CASE raw.tools[i].tested
    <2>1. PICK m \in Nat : DOMAIN raw.tools[i].outcomes = 1..m
      BY <1>1, ToolFacts
    <2>2. Lines(i) = [k \in 1..m |-> <<i, k>>]
      BY <1>2, <2>1 DEF Lines
    <2>3. PICK f : f = Lines(i)
      OBVIOUS
    <2>4. /\ DOMAIN f = 1..m /\ \A k \in 1..m : f[k] = <<i, k>> /\ f[k] \in Places
          /\ f \in [1..m -> Places]
      BY <1>1, <2>2, <2>3 DEF Places
    <2>5. f \in Seq(Places) /\ Len(f) = m
      <3> HIDE DEF Places
      <3> QED BY <2>4
    <2>6. \A n \in 1..m : \A p \in 1..(n - 1) : f[p][2] < f[n][2] /\ f[n][1] = i
      BY <2>4
    <2>7. \A n \in 1..m : f[n][1] = i
      BY <2>4
    <2> QED BY <2>1, <2>3, <2>4, <2>5, <2>6, <2>7
  <1>3. CASE ~raw.tools[i].tested
    <2>1. Lines(i) = <<<<i, 0>>>>
      BY <1>3 DEF Lines
    <2>2. PICK l \in Places : l = <<i, 0>>
      BY <1>1 DEF Places
    <2>3. PICK f : f = <<l>>
      OBVIOUS
    <2>4. f \in Seq(Places) /\ Len(f) = 1 /\ DOMAIN f = 1..1 /\ f[1] = l
      <3> HIDE DEF Places
      <3> QED BY <2>3
    <2>5. f = Lines(i)
      BY <2>1, <2>2, <2>3
    <2>6. l[1] = i
      BY <1>1, <2>2
    <2>7. \A n \in 1..1 : n = 1 /\ 1..(n - 1) = {}
      OBVIOUS
    <2>8. /\ \A n \in 1..1 : f[n] \in Places /\ f[n][1] = i
          /\ \A n \in 1..1 : \A p \in 1..(n - 1) : f[p][2] < f[n][2]
      <3> HIDE DEF Places
      <3> QED BY <2>2, <2>4, <2>6, <2>7
    <2>9. /\ f \in Seq(Places) /\ Len(f) \in Nat /\ DOMAIN f = 1..Len(f)
          /\ \A n \in 1..Len(f) : f[n] \in Places /\ f[n][1] = i
          /\ \A n \in 1..Len(f) : \A p \in 1..(n - 1) : f[p][2] < f[n][2]
      <3> HIDE DEF Places
      <3> QED BY <2>4, <2>8
    <2> HIDE DEF Places
    <2> QED BY <2>5, <2>9
  <1> QED BY <1>2, <1>3

\* The lines of a full trace are those of each tool, and name it.
LEMMA AllLinesFacts ==
  ASSUME RawOK
  PROVE  /\ \A l : l \in AllLines <=>
              \E i \in 1..Len(raw.tools) : \E n \in 1..Len(Lines(i)) : l = Lines(i)[n]
         /\ \A l \in AllLines : l \in Places /\ l[1] \in 1..Len(raw.tools)
  <1>1. DOMAIN raw.tools = 1..Len(raw.tools)
    BY RawFacts
  <1>2. \A i \in 1..Len(raw.tools) : DOMAIN Lines(i) = 1..Len(Lines(i))
    BY LinesFacts
  <1>3. \A l : l \in AllLines <=> \E i \in DOMAIN raw.tools : \E n \in DOMAIN Lines(i) : l = Lines(i)[n]
    BY DEF AllLines
  <1>4. \A l : l \in AllLines <=>
          \E i \in 1..Len(raw.tools) : \E n \in 1..Len(Lines(i)) : l = Lines(i)[n]
    BY <1>1, <1>2, <1>3
  <1>5. ASSUME NEW l \in AllLines PROVE l \in Places /\ l[1] \in 1..Len(raw.tools)
    BY <1>4, LinesFacts
  <1> QED BY <1>4, <1>5

Have == {trace[n] : n \in DOMAIN trace}

\* The lines written are those of the first tools; a failed write leaves some of
\* the first of them.
TraceInv ==
  /\ written \in 0..Len(raw.tools) /\ trace \in Seq(Places)
  /\ \A n \in 1..Len(trace) : \A p \in 1..(n - 1) : Precedes(trace[p], trace[n])
  /\ Have \subseteq AllLines
  /\ \A l \in Have : \A m \in AllLines : Precedes(m, l) => m \in Have
  /\ pc \in {"building", "printing", "writing", "exiting", "done", "raised"}
  /\ pc # "raised" => \A l \in AllLines : l \in Have <=> l[1] <= written
  /\ options.trace /\ pc \in {"printing", "exiting", "done"} => written = Len(raw.tools)

\* What a tool adds to a trace that has the lines of all before it.
LEMMA WritingKeeps ==
  ASSUME RawOK, TraceInv, WriteTool
  PROVE  TraceInv'
  <1> DEFINE w == written + 1
             new == Lines(w)
  <1>1. /\ w \in 1..Len(raw.tools) /\ written \in Nat /\ Len(raw.tools) \in Nat
        /\ UNCHANGED <<raw, options, pc>> /\ pc = "writing"
        /\ trace' = trace \o new /\ written' = w
    BY RawFacts DEF WriteTool, TraceInv
  <1>2. /\ new \in Seq(Places) /\ Len(new) \in Nat
        /\ \A n \in 1..Len(new) : new[n] \in Places /\ new[n][1] = w
        /\ \A n \in 1..Len(new) : \A p \in 1..(n - 1) : new[p][2] < new[n][2]
    BY <1>1, LinesFacts
  <1>3. /\ trace \in Seq(Places) /\ Len(trace) \in Nat /\ DOMAIN trace = 1..Len(trace)
    <2> HIDE DEF Places
    <2> QED BY LenProperties DEF TraceInv
  <1> HIDE DEF new
  <1>4. /\ trace' \in Seq(Places) /\ Len(trace') = Len(trace) + Len(new)
        /\ \A n \in 1..Len(trace) : trace'[n] = trace[n]
        /\ \A n \in 1..(Len(trace) + Len(new)) :
             trace'[n] = IF n <= Len(trace) THEN trace[n] ELSE new[n - Len(trace)]
    <2> HIDE DEF Places
    <2>1. /\ (trace \o new) \in Seq(Places) /\ Len(trace \o new) = Len(trace) + Len(new)
          /\ \A n \in 1..(Len(trace) + Len(new)) :
               (trace \o new)[n] = IF n <= Len(trace) THEN trace[n] ELSE new[n - Len(trace)]
      BY <1>2, <1>3, ConcatProperties
    <2> QED BY <1>1, <1>2, <1>3, <2>1
  <1>5. DOMAIN trace' = 1..(Len(trace) + Len(new))
    <2> HIDE DEF Places
    <2> QED BY <1>4, LenProperties
  <1>6. \A n \in 1..Len(new) : trace'[Len(trace) + n] = new[n]
    <2>1. PICK a \in Nat, b \in Nat : a = Len(trace) /\ b = Len(new)
      BY <1>2, <1>3
    <2>2. \A n \in 1..b : a + n \in 1..(a + b) /\ ~(a + n <= a) /\ (a + n) - a = n
      OBVIOUS
    <2> QED BY <1>4, <2>1, <2>2
  <1>7. \A n \in 1..Len(trace) : trace[n] \in Have /\ trace[n] \in AllLines /\ trace[n][1] <= written
    BY <1>1, <1>3 DEF Have, TraceInv
  <1>8. ASSUME NEW n \in 1..Len(trace'), NEW p \in 1..(n - 1)
        PROVE  Precedes(trace'[p], trace'[n])
    <2>1. PICK a \in Nat, b \in Nat : a = Len(trace) /\ b = Len(new)
      BY <1>2, <1>3
    <2>2. n \in 1..(a + b) /\ p \in 1..(a + b) /\ p < n
      BY <1>4, <1>8, <2>1
    <2>3. CASE n <= a
      <3>1. n \in 1..Len(trace) /\ p \in 1..Len(trace)
        BY <2>1, <2>2, <2>3
      <3> QED BY <1>4, <3>1 DEF TraceInv
    <2>4. CASE n > a /\ p <= a
      <3>1. PICK k \in 1..b : n = a + k
        <4>1. n - a \in 1..b /\ n = a + (n - a)
          BY <2>2, <2>4
        <4> QED BY <4>1
      <3>2. p \in 1..Len(trace)
        BY <2>1, <2>2, <2>4
      <3>3. trace'[n][1] = w /\ trace'[p] = trace[p] /\ trace[p][1] <= written
        BY <1>2, <1>4, <1>6, <1>7, <2>1, <3>1, <3>2
      <3>4. trace[p][1] \in Nat
        BY <1>7, <3>2, AllLinesFacts DEF Places
      <3> QED BY <1>1, <3>3, <3>4 DEF Precedes
    <2>5. CASE n > a /\ p > a
      <3>1. PICK k \in 1..b, j \in 1..b : n = a + k /\ p = a + j /\ j \in 1..(k - 1)
        <4>1. /\ n - a \in 1..b /\ n = a + (n - a) /\ p - a \in 1..b /\ p = a + (p - a)
              /\ p - a \in 1..((n - a) - 1)
          BY <2>2, <2>5
        <4> QED BY <4>1
      <3>2. /\ trace'[n] = new[k] /\ trace'[p] = new[j]
            /\ new[k][1] = w /\ new[j][1] = w /\ new[j][2] < new[k][2]
        BY <1>2, <1>6, <2>1, <3>1
      <3> QED BY <3>2 DEF Precedes
    <2> QED BY <2>2, <2>3, <2>4, <2>5
  <1>9. AllLines' = AllLines
    BY <1>1 DEF AllLines, Lines
  <1>10. \A l : l \in Have' <=> l \in Have \/ \E n \in 1..Len(new) : l = new[n]
    <2>1. PICK a \in Nat, b \in Nat : a = Len(trace) /\ b = Len(new)
      BY <1>2, <1>3
    <2>2. \A l : l \in Have' <=> \E n \in 1..(a + b) : l = trace'[n]
      BY <1>5, <2>1 DEF Have
    <2>3. \A l : l \in Have <=> \E n \in 1..a : l = trace[n]
      BY <1>3, <2>1 DEF Have
    <2>4. ASSUME NEW n \in 1..(a + b)
          PROVE  (n \in 1..a /\ trace'[n] = trace[n]) \/ \E k \in 1..b : trace'[n] = new[k]
      <3>1. CASE n <= a
        BY <1>4, <2>1, <3>1
      <3>2. CASE n > a
        <4>1. n - a \in 1..b /\ n = a + (n - a)
          BY <3>2
        <4> QED BY <1>6, <2>1, <4>1
      <3> QED BY <3>1, <3>2
    <2>5. \A n \in 1..a : n \in 1..(a + b) /\ trace'[n] = trace[n]
      BY <1>4, <2>1
    <2>6. \A k \in 1..b : a + k \in 1..(a + b) /\ trace'[a + k] = new[k]
      BY <1>6, <2>1
    <2>7. ASSUME NEW l \in Have' PROVE l \in Have \/ \E k \in 1..b : l = new[k]
      <3>1. PICK n \in 1..(a + b) : l = trace'[n]
        BY <2>2
      <3>2. CASE n \in 1..a /\ trace'[n] = trace[n]
        BY <2>3, <3>1, <3>2
      <3>3. CASE \E k \in 1..b : trace'[n] = new[k]
        BY <3>1, <3>3
      <3> QED BY <2>4, <3>1, <3>2, <3>3
    <2>8. ASSUME NEW l \in Have PROVE l \in Have'
      <3>1. PICK n \in 1..a : l = trace[n]
        BY <2>3
      <3>2. n \in 1..(a + b) /\ trace'[n] = trace[n]
        BY <2>5, <3>1
      <3> QED BY <2>2, <3>1, <3>2
    <2>9. ASSUME NEW k \in 1..b PROVE new[k] \in Have'
      <3>1. PICK n \in 1..(a + b) : trace'[n] = new[k]
        BY <2>6
      <3> QED BY <2>2, <3>1
    <2> QED BY <2>1, <2>7, <2>8, <2>9
  <1>11. ASSUME NEW l
         PROVE  (\E n \in 1..Len(new) : l = new[n]) <=> l \in AllLines /\ l[1] = w
    <2>1. \A i \in 1..Len(raw.tools) : \A n \in 1..Len(Lines(i)) : Lines(i)[n][1] = i
      BY LinesFacts
    <2>2. l \in AllLines <=>
            \E i \in 1..Len(raw.tools) : \E n \in 1..Len(Lines(i)) : l = Lines(i)[n]
      BY AllLinesFacts
    <2> QED BY <1>1, <2>1, <2>2 DEF new
  <1>12. \A l \in AllLines : l \in Have <=> l[1] <= written
    BY <1>1 DEF TraceInv
  <1>13. \A l \in AllLines : l[1] \in Nat /\ l[2] \in Nat
    BY AllLinesFacts DEF Places
  <1>14. \A l \in AllLines : l \in Have' <=> l[1] <= w
    BY <1>1, <1>10, <1>11, <1>12, <1>13
  <1>15. Have' \subseteq AllLines
    BY <1>10, <1>11 DEF TraceInv
  <1>16. ASSUME NEW l \in Have', NEW m \in AllLines, Precedes(m, l) PROVE m \in Have'
    <2>1. l[1] <= w /\ l[1] \in Nat /\ m[1] \in Nat /\ m[1] <= l[1]
      BY <1>13, <1>14, <1>15, <1>16 DEF Precedes
    <2> QED BY <1>1, <1>14, <2>1
  <1>17. written' \in 0..Len(raw.tools')
    BY <1>1
  <1> QED BY <1>1, <1>4, <1>8, <1>9, <1>14, <1>15, <1>16, <1>17 DEF TraceInv

\* The first lines of an ordered trace that misses nothing miss nothing.
LEMMA FailingKeeps ==
  ASSUME RawOK, TraceInv, WriteFails
  PROVE  TraceInv'
  <1>1. UNCHANGED <<raw, options, written>> /\ pc' = "raised"
    BY DEF WriteFails
  <1>2. PICK n \in 0..Len(trace) : trace' = SubSeq(trace, 1, n)
    BY DEF WriteFails
  <1>3. /\ trace \in Seq(Places) /\ Len(trace) \in Nat /\ DOMAIN trace = 1..Len(trace)
        /\ \A k \in 1..Len(trace) : trace[k] \in Places
    <2> HIDE DEF Places
    <2> QED BY LenProperties, ElementOfSeq DEF TraceInv
  <1>4. n \in Nat /\ n <= Len(trace)
    BY <1>2, <1>3
  <1>5. /\ trace' \in Seq(Places) /\ Len(trace') = n
        /\ \A k \in 1..n : trace'[k] = trace[k]
    <2> HIDE DEF Places
    <2>1. \A k \in 1..n : trace[k] \in Places
      BY <1>3, <1>4
    <2>2. /\ SubSeq(trace, 1, n) \in Seq(Places)
          /\ Len(SubSeq(trace, 1, n)) = IF 1 <= n THEN n - 1 + 1 ELSE 0
          /\ \A k \in 1..(n - 1 + 1) : SubSeq(trace, 1, n)[k] = trace[1 + k - 1]
      BY <1>4, <2>1, SubSeqProperties
    <2>3. n - 1 + 1 = n /\ \A k \in 1..n : 1 + k - 1 = k
      BY <1>4
    <2> QED BY <1>2, <1>4, <2>2, <2>3
  <1>6. DOMAIN trace' = 1..n
    <2> HIDE DEF Places
    <2> QED BY <1>5, LenProperties
  <1>7. AllLines' = AllLines
    BY <1>1 DEF AllLines, Lines
  <1>8. /\ \A l : l \in Have' <=> \E k \in 1..n : l = trace[k]
        /\ \A l : l \in Have <=> \E k \in 1..Len(trace) : l = trace[k]
    BY <1>3, <1>5, <1>6 DEF Have
  <1>9. Have' \subseteq AllLines
    BY <1>4, <1>8 DEF TraceInv
  <1>10. ASSUME NEW k \in 1..n, NEW p \in 1..(k - 1) PROVE Precedes(trace'[p], trace'[k])
    <2>1. k \in 1..Len(trace) /\ p \in 1..n
      BY <1>3, <1>4
    <2> QED BY <1>5, <2>1 DEF TraceInv
  <1>11. ASSUME NEW l \in Have', NEW m \in AllLines, Precedes(m, l) PROVE m \in Have'
    <2>1. PICK k \in 1..n : l = trace[k]
      BY <1>8
    <2>2. l \in Have /\ k \in 1..Len(trace)
      BY <1>3, <1>4, <1>8, <2>1
    <2>3. PICK q \in 1..Len(trace) : m = trace[q]
      BY <1>8, <1>11, <2>2 DEF TraceInv
    <2>4. ASSUME q > n PROVE FALSE
      <3>1. k \in 1..(q - 1)
        BY <1>3, <1>4, <2>1, <2>4
      <3>2. Precedes(l, m)
        BY <2>1, <2>3, <3>1 DEF TraceInv
      <3>3. l[1] \in Nat /\ l[2] \in Nat /\ m[1] \in Nat /\ m[2] \in Nat
        BY <1>9, <1>11, AllLinesFacts DEF Places
      <3> QED BY <1>11, <3>2, <3>3 DEF Precedes
    <2>5. q \in 1..n
      BY <1>3, <1>4, <2>3, <2>4
    <2> QED BY <1>8, <2>3, <2>5
  <1> QED BY <1>1, <1>5, <1>7, <1>9, <1>10, <1>11 DEF TraceInv

\* The file holds the lines of the first tools, or after a failure a beginning of
\* them.
LEMMA TraceInvariant == Spec => []TraceInv
  <1>1. ASSUME RawOK, Init PROVE TraceInv
    <2>1. trace \in Seq(Places) /\ Len(trace) = 0 /\ DOMAIN trace = {}
      <3> HIDE DEF Places
      <3> QED BY <1>1, EmptySeq DEF Init
    <2>2. Have = {}
      BY <2>1 DEF Have
    <2>3. \A l \in AllLines : ~(l[1] <= 0)
      BY <1>1, AllLinesFacts, RawFacts
    <2> QED BY <1>1, <2>1, <2>2, <2>3, RawFacts DEF Init, TraceInv
  <1>2. ASSUME RawOK, TraceInv, [Next]_vars PROVE TraceInv'
    <2>1. CASE WriteTool
      BY <1>2, <2>1, WritingKeeps
    <2>2. CASE WriteFails
      BY <1>2, <2>2, FailingKeeps
    <2>3. CASE BuildTested \/ BuildSkipped \/ Summarise \/ TraceWritten \/ PrintReport \/ Exit
               \/ UNCHANGED vars
      <3>1. /\ UNCHANGED <<raw, options, written, trace>> /\ (pc = "raised" <=> pc' = "raised")
            /\ pc' \in {"building", "printing", "writing", "exiting", "done", "raised"}
        BY <1>2, <2>3 DEF BuildTested, BuildSkipped, Summarise, TraceWritten, PrintReport, Exit,
           vars, TraceInv
      <3>2. Have' = Have /\ AllLines' = AllLines
        BY <3>1 DEF Have, AllLines, Lines
      <3>3. options'.trace /\ pc' \in {"printing", "exiting", "done"} => written' = Len(raw'.tools)
        BY <1>2, <2>3, <3>1 DEF BuildTested, BuildSkipped, Summarise, TraceWritten, PrintReport,
           Exit, vars, TraceInv
      <3> QED BY <1>2, <3>1, <3>2, <3>3 DEF TraceInv
    <2> QED BY <1>2, <2>1, <2>2, <2>3 DEF Next, Terminated
  <1>3. Init => RawOK
    BY DEF Init, RawOK
  <1> QED BY <1>1, <1>2, <1>3, RawStays, PTL DEF Spec

\* A report is printed only with the whole trace, and what a failed write leaves
\* is the beginning of it.
THEOREM TraceIsTheRun == Spec => []TraceIsHonest
  <1>1. ASSUME RawOK, SumInv, TraceInv PROVE TraceIsHonest
    <2>1. DOMAIN trace = 1..Len(trace)
      <3> HIDE DEF Places
      <3> QED BY <1>1, LenProperties DEF TraceInv
    <2>2. \A n \in DOMAIN trace : \A p \in 1..(n - 1) : Precedes(trace[p], trace[n])
      BY <1>1, <2>1 DEF TraceInv
    <2>3. Have \subseteq AllLines
          /\ \A l \in Have : \A m \in AllLines : Precedes(m, l) => m \in Have
      BY <1>1 DEF TraceInv
    <2>4. ASSUME options.trace, marks # <<>> PROVE Have = AllLines
      <3>1. pc \in {"exiting", "done"}
        BY <1>1, <2>4 DEF SumInv
      <3>2. written = Len(raw.tools) /\ \A l \in AllLines : l \in Have <=> l[1] <= written
        BY <1>1, <2>4, <3>1 DEF TraceInv
      <3>3. \A l \in AllLines : l[1] <= Len(raw.tools)
        BY <1>1, AllLinesFacts, RawFacts
      <3> QED BY <2>3, <3>2, <3>3
    <2> QED BY <2>2, <2>3, <2>4 DEF TraceIsHonest, Have
  <1> QED BY <1>1, RawStays, SumInvariant, TraceInvariant, PTL

-----------------------------------------------------------------------------
(***************************************************************************)
(* Types.                                                                  *)
(***************************************************************************)

\* Flags are sets of reasons, one for each tool judged.
LEMMA FlagType ==
  ASSUME NEW history, NEW above, NEW floor
  PROVE  JudgeAll(history, above, floor)
           \in [DOMAIN JudgeAll(history, above, floor) -> SUBSET Reasons]
  <1>1. \A k \in DOMAIN history : Judge(history[k], history, above, 3, 3, floor) \in SUBSET Reasons
    BY DEF Judge
  <1> QED BY <1>1 DEF JudgeAll

\* Every variable has its type, and no more is called good than was counted.
THEOREM ReportTypeOK == Spec => []TypeOK
  <1>1. ASSUME RawOK, BuildInv, SumInv, CountInv, PercentInv, ExitInv, TraceInv
        PROVE  TypeOK
    <2>1. /\ DOMAIN reports = 1..Len(reports) /\ Len(reports) \in Nat
          /\ DOMAIN reports \subseteq DOMAIN raw.tools
          /\ pc # "building" => DOMAIN reports = DOMAIN raw.tools
      BY <1>1, ReportsFacts
    <2>2. badInput \in Nat
      BY <1>1, FS_CardinalityType DEF CountInv
    <2>3. ASSUME NEW m \in Measures
          PROVE  percent[m] \in Nat \X Nat /\ percent[m][1] <= percent[m][2]
      <3>1. CASE pc = "building"
        BY <1>1, <3>1 DEF CountInv
      <3>2. CASE pc # "building"
        <4>1. /\ IsFiniteSet(Share(m)[1]) /\ IsFiniteSet(Share(m)[2])
              /\ Share(m)[1] \subseteq Share(m)[2]
              /\ percent[m] = <<Cardinality(Share(m)[1]), Cardinality(Share(m)[2])>>
          BY <1>1, <3>2, Shares
        <4>2. /\ Cardinality(Share(m)[1]) \in Nat /\ Cardinality(Share(m)[2]) \in Nat
              /\ Cardinality(Share(m)[1]) <= Cardinality(Share(m)[2])
          BY <4>1, FS_CardinalityType, FS_Subset
        <4>3. PICK p \in Nat, q \in Nat :
                p = Cardinality(Share(m)[1]) /\ q = Cardinality(Share(m)[2])
          BY <4>2
        <4> QED BY <4>1, <4>2, <4>3
      <3> QED BY <3>1, <3>2
    <2>4. percent \in [Measures -> Nat \X Nat]
      <3>1. percent = [m \in Measures |-> percent[m]]
        BY <1>1 DEF PercentInv
      <3> QED BY <2>3, <3>1
    <2>5. /\ slow \in [DOMAIN slow -> SUBSET Reasons]
          /\ bloated \in [DOMAIN bloated -> SUBSET Reasons]
          /\ DOMAIN slow \subseteq DOMAIN reports /\ DOMAIN bloated \subseteq DOMAIN reports
          /\ unsafe \subseteq DOMAIN reports
      <3>1. CASE pc = "building"
        <4>1. slow = <<>> /\ bloated = <<>> /\ unsafe = {} /\ DOMAIN <<>> = {}
          BY <1>1, <3>1 DEF SumInv
        <4>2. <<>> \in [{} -> SUBSET Reasons]
          OBVIOUS
        <4> QED BY <4>1, <4>2
      <3>2. CASE pc # "building"
        <4>1. /\ slow = SlowTools /\ bloated = BloatedTools
              /\ unsafe = {k \in Checked : Unsafe(reports[k])}
          BY <1>1, <3>2 DEF SumInv
        <4>2. slow \in [DOMAIN slow -> SUBSET Reasons] /\ bloated \in [DOMAIN bloated -> SUBSET Reasons]
          BY <4>1, FlagType DEF SlowTools, BloatedTools
        <4>3. DOMAIN slow = Measured /\ DOMAIN bloated = Measured
          BY <4>1 DEF SlowTools, BloatedTools, JudgeAll
        <4> QED BY <4>1, <4>2, <4>3 DEF Measured, Checked
      <3> QED BY <3>1, <3>2
    <2>6. marks \in Seq(Markers)
      <3>1. CASE pc \in {"exiting", "done"}
        <4>1. PICK n \in Nat : n = Len(reports)
          BY <2>1
        <4>2. marks = [k \in 1..n |-> Marker(k)]
          BY <1>1, <2>1, <3>1, <4>1 DEF SumInv
        <4>3. \A k \in 1..n : Marker(k) \in Markers
          BY DEF Marker, Markers
        <4>4. marks \in [1..n -> Markers]
          BY <4>2, <4>3
        <4> HIDE DEF Markers
        <4> QED BY <4>4
      <3>2. CASE pc \notin {"exiting", "done"}
        <4>1. marks = <<>>
          BY <1>1, <3>2 DEF SumInv
        <4> HIDE DEF Markers
        <4> QED BY <4>1, EmptySeq
      <3> QED BY <3>1, <3>2
    <2>7. exit \in {"none", "0", "1", "2"}
      BY <1>1 DEF ExitInv
    <2>8. /\ pc \in {"building", "writing", "printing", "exiting", "done", "raised"}
          /\ written \in 0..Len(raw.tools) /\ trace \in Seq(Nat \X Nat)
      BY <1>1 DEF TraceInv, Places
    <2>9. reports \in Seq(ToolReports) /\ Len(reports) <= Len(raw.tools)
      BY <1>1 DEF BuildInv
    <2>10. tested \in Nat /\ skipped \in Nat /\ crashed \in Nat /\ hung \in Nat
      BY <1>1 DEF CountInv
    <2>11. UNION {DOMAIN slow, DOMAIN bloated, unsafe} \subseteq DOMAIN reports
      BY <2>5
    <2> HIDE DEF ToolReports, Markers
    <2>12. /\ slow \in [DOMAIN slow -> SUBSET Reasons]
           /\ bloated \in [DOMAIN bloated -> SUBSET Reasons]
      BY <2>5
    <2>13. \A m \in Measures : percent[m][1] <= percent[m][2]
      BY <2>3
    <2> QED BY <2>2, <2>4, <2>6, <2>7, <2>8, <2>9, <2>10, <2>11, <2>12, <2>13, Zenon DEF TypeOK
  <1> QED BY <1>1, RawStays, BuildInvariant, SumInvariant, CountInvariant, PercentInvariant,
             ExitInvariant, TraceInvariant, PTL
=============================================================================
