------------------------------ MODULE MCBoxUp ------------------------------
(* BoxUp with named instances for TLC.                                     *)
EXTENDS BoxUp
=============================================================================
