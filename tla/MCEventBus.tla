----------------------------- MODULE MCEventBus -----------------------------
(* The instances of EventBus that TLC checks.                                *)
EXTENDS EventBus
=============================================================================
