--------------------------- MODULE MCLibvirtBox -----------------------------
EXTENDS LibvirtBox, TLC

Symmetry == Permutations(Yo) \cup Permutations(Key)
=============================================================================
