---------------------------- MODULE MCAwsBroker -----------------------------
(* AwsBroker with named instances for TLC.                                 *)
EXTENDS AwsBroker
=============================================================================
