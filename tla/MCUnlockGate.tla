---------------------------- MODULE MCUnlockGate ----------------------------
(* UnlockGate on small sets, for TLC.                                      *)
EXTENDS UnlockGate, TLC

\* Processes are alike, and so are helper slots: sound for the invariants.
Symmetry == Permutations(Yo) \cup Permutations(Helpers)
=============================================================================
