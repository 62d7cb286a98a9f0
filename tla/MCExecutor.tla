----------------------------- MODULE MCExecutor -----------------------------
(* The instances of Executor that TLC checks.                                *)
EXTENDS Executor
=============================================================================
