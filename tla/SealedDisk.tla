----------------------------- MODULE SealedDisk -----------------------------
(***************************************************************************)
(* What the in-place encryption of the box's disk promises, whatever cuts  *)
(* it short: the disk only ever moves forward, from plain ext4 through a   *)
(* half-encrypted one to a labelled one; the label is set only when no     *)
(* block of the device holds plaintext any more; and once the encryption   *)
(* has begun no file is lost.  Before that the shrink may lose them.       *)
(***************************************************************************)
CONSTANT Blocks   \* the blocks of the device

VARIABLES
  stage,    \* "plain", "converting", "cipher" or "sealed"
  plain,    \* the blocks that hold plaintext
  data      \* "whole" or "lost"

vars == <<stage, plain, data>>

Init == stage = "plain" /\ plain \in SUBSET Blocks /\ data = "whole"

\* The shrink was cut short and fsck had to repair what it left.
Lose ==
  /\ stage = "plain" /\ data' = "lost"
  /\ UNCHANGED <<stage, plain>>

Convert ==
  /\ stage = "plain" /\ stage' = "converting"
  /\ plain' \subseteq plain
  /\ UNCHANGED data

Progress ==
  /\ stage = "converting" /\ stage' \in {"converting", "cipher"}
  /\ plain' \subseteq plain
  /\ UNCHANGED data

Erase ==
  /\ stage = "cipher" /\ plain' \subseteq plain
  /\ UNCHANGED <<stage, data>>

Seal ==
  /\ stage = "cipher" /\ plain = {} /\ stage' = "sealed"
  /\ UNCHANGED <<plain, data>>

Next == Lose \/ Convert \/ Progress \/ Erase \/ Seal

Spec == Init /\ [][Next]_vars
=============================================================================
