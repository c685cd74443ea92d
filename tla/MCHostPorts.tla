---------------------------- MODULE MCHostPorts ----------------------------
(* HostPorts with named instances for TLC.                                 *)
EXTENDS HostPorts, TLC

\* The yos are alike, and so are the boxes: no property compares them.
Symmetry == Permutations(Yo) \cup Permutations(Boxes)
=============================================================================
