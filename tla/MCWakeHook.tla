----------------------------- MODULE MCWakeHook -----------------------------
(* A small instance of WakeHook. *)
EXTENDS WakeHook
=============================================================================
