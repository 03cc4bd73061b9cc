----------------------------- MODULE MCWorkflow -----------------------------
(* Instances of Workflow for TLC. *)
EXTENDS Workflow

CONSTANTS i1, i2

DoWait      == <<"do", "wait">>
DoSleepWait == <<"do", "sleep", "wait">>
=============================================================================
