----------------------------- MODULE MCAsyncExec -----------------------------
(***************************************************************************)
(* Instances of AsyncExec for TLC.                                         *)
(***************************************************************************)
EXTENDS AsyncExec
=============================================================================
