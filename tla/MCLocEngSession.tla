-------------------------- MODULE MCLocEngSession --------------------------
(* TLC instances of LocEngSession: enough calls of the framework to set a   *)
(* mode, start, stop and start again, or to delete data meanwhile.          *)
EXTENDS LocEngSession
=============================================================================
