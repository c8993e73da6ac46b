------------------------------- MODULE MCGate -------------------------------
(***************************************************************************)
(* A session of a few calls by two coroutines; MCGate.cfg has the numbers. *)
(***************************************************************************)
EXTENDS LatencyGate
=============================================================================
