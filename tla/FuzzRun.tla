------------------------------ MODULE FuzzRun ------------------------------
(***************************************************************************)
(* What run_fuzz promises about its list of tool results, whatever the     *)
(* server does: every listed tool gets one verdict, in the listed order;   *)
(* a tool that is tested gets all its cases unless the server is lost      *)
(* while it is being tested; and once the server is lost every tool after  *)
(* that one is reported as unreachable, never tested and never left out.   *)
(***************************************************************************)
EXTENDS Naturals, Sequences

CONSTANTS ToolList,   \* the tools, in the order the server lists them
          MayTest     \* those the run is allowed to call

VARIABLES
  verdicts,   \* one [tool, verdict, complete] per tool dealt with so far
  lost,       \* the server was lost while the last tested tool was tested
  status      \* "running", "returned" with the report or "raised" without one

Verdict(tool, verdict, complete) ==
  [tool |-> tool, verdict |-> verdict, complete |-> complete]

Init == verdicts = <<>> /\ lost = FALSE /\ status = "running"

NextTool == ToolList[Len(verdicts) + 1]

Judge(verdict, complete) ==
  /\ status = "running"
  /\ Len(verdicts) < Len(ToolList)
  /\ verdicts' = Append(verdicts, Verdict(NextTool, verdict, complete))
  /\ UNCHANGED status

GiveUp  == lost /\ Judge("unreachable", FALSE) /\ UNCHANGED lost

Decline == /\ ~lost
           /\ Judge("not_read_only", FALSE)
           /\ NextTool \notin MayTest
           /\ UNCHANGED lost

\* Only losing the server excuses a tool that did not get all its cases.
Test == /\ ~lost
        /\ \E complete \in BOOLEAN :
             /\ Judge("tested", complete)
             /\ lost' \in BOOLEAN
             /\ complete \/ lost'
        /\ NextTool \in MayTest

\* A report that is returned covers all tools, or none if there was no server.
Return == /\ status = "running"
          /\ Len(verdicts) \in {0, Len(ToolList)}
          /\ status' = "returned"
          /\ UNCHANGED <<verdicts, lost>>

Raise == /\ status = "running"
         /\ status' = "raised"
         /\ UNCHANGED <<verdicts, lost>>

Next == GiveUp \/ Decline \/ Test \/ Return \/ Raise

Spec == Init /\ [][Next]_<<verdicts, lost, status>>
=============================================================================
