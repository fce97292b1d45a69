----------------------------- MODULE MCStopHooks -----------------------------
(* TLC instances of StopHooks. *)
EXTENDS StopHooks
=============================================================================
