------------------------------ MODULE BuiltBox ------------------------------
(***************************************************************************)
(* What a box made in several steps promises, whatever cuts its making or  *)
(* its removal short: only a finished disk gets a domain; while there is a *)
(* domain nobody touches the disk; and only a domain that is off goes, so  *)
(* that no guest runs on without the box it belongs to.                    *)
(***************************************************************************)
VARIABLES
  disk,     \* "none", "unfinished" or "finished"
  domain    \* "none", "off" or "running"

vars == <<disk, domain>>

Init == disk = "none" /\ domain = "none"

\* Making the disk, and throwing it away.
Create == disk = "none" /\ disk' = "unfinished"
Finish == disk = "unfinished" /\ disk' = "finished"
Discard == disk # "none" /\ disk' = "none"

Define == disk = "finished" /\ domain = "none" /\ domain' = "off"
Switch == domain # "none" /\ domain' \in {"off", "running"}
Undefine == domain = "off" /\ domain' = "none"

Next ==
  \/ domain = "none" /\ (Create \/ Finish \/ Discard) /\ UNCHANGED domain
  \/ (Define \/ Switch \/ Undefine) /\ UNCHANGED disk

Spec == Init /\ [][Next]_vars
=============================================================================
