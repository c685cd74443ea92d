--------------------------- MODULE MCLuksMigrate ----------------------------
(* A device of a few blocks, with room to shrink and fills too full for it. *)
EXTENDS LuksMigrate

MCUsed == 1 .. Total - 1
=============================================================================
