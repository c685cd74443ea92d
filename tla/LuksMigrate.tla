---------------------------- MODULE LuksMigrate -----------------------------
(***************************************************************************)
(* yolobox-luks-migrate: the script that encrypts the plain ext4 root in   *)
(* place, resumes an interrupted encryption or finishes one, run in every  *)
(* initrd before the root device is opened.  Power may be cut between any  *)
(* two steps and inside the two resizes, any tool may fail, and the next   *)
(* run has only the disk to tell it where the last one stopped.            *)
(*                                                                         *)
(* Sizes count blocks of the device.  The filesystem fills the device, or  *)
(* the mapping, from its first block; the LUKS data segment starts Offset  *)
(* blocks into the device.                                                 *)
(***************************************************************************)
EXTENDS Integers

CONSTANTS
  Total,         \* blocks of the device
  HeaderRoom,    \* header_room, --reduce-device-size
  Offset,        \* the data offset cryptsetup makes of it
  Align,         \* align
  Percent,       \* headroom_percent
  Used           \* the minimum sizes the filesystem may start with

ASSUME SizeAssumption ==
  /\ Total \in Nat /\ HeaderRoom \in Nat /\ Offset \in Nat
  /\ Align \in Nat /\ Align > 0 /\ Percent \in Nat
  /\ 0 < Offset /\ Offset <= HeaderRoom /\ HeaderRoom < Total
  /\ Used \subseteq 1 .. Total

VARIABLES
  pc,        \* the script's next step, and how its unit stands
  scratch,   \* the private mapping <mapper>-finalize is open
  format,    \* what the device holds: "ext4", "reencrypt" or "luks"
  label,     \* the header carries the finished label
  plain,     \* the blocks of the device that hold plaintext
  size,      \* block count in the filesystem's superblock
  used,      \* the filesystem's minimum size
  fs,        \* "clean", "dirty" or "torn" (cut short while shrinking)
  segment,   \* blocks the reencryption covers
  left,      \* of them, those still to encrypt
  data       \* "whole" or "lost": the files of the box

disk == <<format, label, plain, size, used, fs, segment, left, data>>
vars == <<pc, scratch, disk>>

Blocks == 0 .. Total - 1

\* "off" is no power, "done" and "failed" the ends of the unit.
Finalizing == {"discard", "check", "grow"}
Pcs == {"off", "detect", "ask", "fsck", "measure", "shrink", "encrypt", "reencrypt",
        "open", "close", "giveup", "label", "done", "failed"} \cup Finalizing

TypeOK ==
  /\ pc \in Pcs /\ scratch \in BOOLEAN
  /\ format \in {"ext4", "reencrypt", "luks"} /\ label \in BOOLEAN
  /\ plain \subseteq Blocks
  /\ size \in 1 .. Total /\ used \in 1 .. Total
  /\ fs \in {"clean", "dirty", "torn"}
  /\ segment \in 0 .. Total /\ left \in 0 .. segment
  /\ data \in {"whole", "lost"}

-----------------------------------------------------------------------------
(* The arithmetic of encrypt() and finalize().                             *)

\* min and headroom, in blocks; the region is aligned.
AlignUp(n) == (n + Align - 1) - ((n + Align - 1) % Align)

Target == used + (used * Percent) \div 100 + 1
Region == AlignUp(Target + HeaderRoom)

\* The guard of encrypt(): header room once inside the region, once behind it.
TooFull == Region + HeaderRoom > Total

\* (A mutated form: the mapping's offset is forgotten.)
TailWithoutOffset == size

\* Where the filesystem ends on the raw device: the plaintext tail's first block.
PlaintextTail == Offset + size

\* The raw blocks the filesystem lies on.
FsBlocks == IF format = "ext4" THEN 0 .. size - 1 ELSE Offset .. Offset + size - 1

\* (A mutated form: an encrypted disk is taken for a finished one.)
StateWithoutFinalize ==
  CASE format = "ext4" -> "encrypt"
    [] format = "reencrypt" -> "resume"
    [] format = "luks" -> "done"

\* detect_state: where the last run stopped, read off the disk alone.
State ==
  CASE format = "ext4" -> "encrypt"
    [] format = "reencrypt" -> "resume"
    [] format = "luks" /\ label -> "done"
    [] format = "luks" /\ ~label -> "finalize"

-----------------------------------------------------------------------------
Init ==
  /\ pc = "off" /\ scratch = FALSE
  /\ format = "ext4" /\ label = FALSE
  /\ plain = Blocks /\ size = Total
  /\ used \in Used
  /\ fs \in {"clean", "dirty"}
  /\ segment = 0 /\ left = 0
  /\ data = "whole"

\* The unit starts: at every boot, and by hand after it failed.
Boot ==
  /\ pc = "off" /\ pc' = "detect"
  /\ UNCHANGED <<scratch, disk>>

Restart ==
  /\ pc = "failed" /\ pc' = "detect"
  /\ UNCHANGED <<scratch, disk>>

\* The operator mounts the refused filesystem and deletes something.
FreeSpace ==
  /\ pc = "failed" /\ format = "ext4"
  /\ used' \in 1 .. used - 1
  /\ UNCHANGED <<pc, scratch, format, label, plain, size, fs, segment, left, data>>

DetectState ==
  /\ pc = "detect"
  /\ pc' = IF State = "done" THEN "done" ELSE "ask"
  /\ UNCHANGED <<scratch, disk>>

\* (A mutated form: a disk to finalize is resumed first.)
ReadKeyThenResume ==
  /\ pc = "ask"
  /\ pc' = IF State = "encrypt" THEN "fsck" ELSE "reencrypt"
  /\ UNCHANGED <<scratch, disk>>

\* read_key, then the branch of the state found.
ReadKey ==
  /\ pc = "ask"
  /\ pc' = CASE State = "encrypt" -> "fsck"
             [] State = "resume" -> "reencrypt"
             [] OTHER -> "open"
  /\ UNCHANGED <<scratch, disk>>

-----------------------------------------------------------------------------
(* encrypt() and resume().                                                 *)

\* fsck_ok: what e2fsck -y repairs of a torn filesystem may be a loss.
Repair ==
  /\ fs' = "clean"
  /\ data' \in IF fs = "torn" THEN {data, "lost"} ELSE {data}
  /\ UNCHANGED <<format, label, plain, size, used, segment, left>>

Fsck ==
  /\ pc = "fsck" /\ pc' = "measure"
  /\ Repair
  /\ UNCHANGED scratch

\* A device too full is refused before anything is written.
Measure ==
  /\ pc = "measure"
  /\ pc' = IF TooFull THEN "failed" ELSE "shrink"
  /\ UNCHANGED <<scratch, disk>>

Shrink ==
  /\ pc = "shrink" /\ pc' = "encrypt"
  /\ size' = Target
  /\ UNCHANGED <<scratch, format, label, plain, used, fs, segment, left, data>>

\* cryptsetup reencrypt --encrypt writes the header over the first blocks, whose
\* content it keeps aside, and will encrypt what is left of the region after it
\* was shortened by the header room.  What lies outside is not read again.
StartEncryption ==
  /\ pc = "encrypt" /\ pc' = "reencrypt"
  /\ format' = "reencrypt"
  /\ segment' = Region - HeaderRoom
  /\ left' = segment'
  /\ plain' = plain \ (0 .. Offset - 1)
  /\ data' = IF size > segment' THEN "lost" ELSE data
  /\ UNCHANGED <<scratch, label, size, used, fs>>

\* From the last block down, each moved up by Offset as it is encrypted.
EncryptBlock ==
  /\ pc = "reencrypt" /\ format = "reencrypt" /\ left > 0
  /\ left' = left - 1
  /\ plain' = plain \ {Offset + left'}
  /\ UNCHANGED <<pc, scratch, format, label, size, used, fs, segment, data>>

FinishEncryption ==
  /\ pc = "reencrypt" /\ format = "reencrypt" /\ left = 0
  /\ pc' = "open" /\ format' = "luks"
  /\ UNCHANGED <<scratch, label, plain, size, used, fs, segment, left, data>>

-----------------------------------------------------------------------------
(* finalize().                                                             *)

\* The private name is taken while the mapping of an earlier run is open.
Open ==
  /\ pc = "open"
  /\ scratch' = TRUE
  /\ pc' = IF scratch THEN "failed" ELSE "discard"
  /\ UNCHANGED disk

Discard ==
  /\ pc = "discard" /\ pc' = "check"
  /\ LET gone == PlaintextTail .. Total - 1 IN
       /\ plain' = plain \ gone
       /\ data' = IF gone \cap FsBlocks # {} THEN "lost" ELSE data
  /\ UNCHANGED <<scratch, format, label, size, used, fs, segment, left>>

Check ==
  /\ pc = "check" /\ pc' = "grow"
  /\ Repair
  /\ UNCHANGED scratch

Grow ==
  /\ pc = "grow" /\ pc' = "close"
  /\ size' = Total - Offset
  /\ UNCHANGED <<scratch, format, label, plain, used, fs, segment, left, data>>

Close ==
  /\ pc = "close" /\ pc' = "label"
  /\ scratch' = FALSE
  /\ UNCHANGED disk

\* A step of the subshell failed: the mapping is closed all the same.
GiveUp ==
  /\ pc = "giveup" /\ pc' = "failed"
  /\ scratch' = FALSE
  /\ UNCHANGED disk

WriteLabel ==
  /\ pc = "label" /\ pc' = "done"
  /\ label' = TRUE
  /\ UNCHANGED <<scratch, format, plain, size, used, fs, segment, left, data>>

-----------------------------------------------------------------------------
(* What goes wrong.                                                        *)

\* A resize cut short leaves either block count, and the filesystem torn when it
\* was being shrunk, in need of a check when it was growing.
HalfResized ==
  /\ \/ pc \notin {"shrink", "grow"} /\ UNCHANGED <<size, fs>>
     \/ pc = "shrink" /\ size' \in {size, Target} /\ fs' \in {fs, "torn"}
     \/ pc = "grow" /\ size' \in {size, Total - Offset} /\ fs' = "dirty"
  /\ UNCHANGED <<format, label, plain, used, segment, left, data>>

\* A tool exits with an error (a wrong passphrase is one), outside the subshell
\* of finalize ...
ToolFails ==
  /\ pc \in {"detect", "ask", "fsck", "measure", "shrink", "encrypt", "reencrypt",
             "open", "close", "giveup", "label"}
  /\ pc' = "failed"
  /\ HalfResized
  /\ UNCHANGED scratch

\* ... or inside it, where the mapping is still to be closed.
FinalizeFails ==
  /\ pc \in Finalizing
  /\ pc' = "giveup"
  /\ HalfResized
  /\ UNCHANGED scratch

PowerCut ==
  /\ pc # "off" /\ pc' = "off"
  /\ scratch' = FALSE
  /\ HalfResized

Trouble == ToolFails \/ FinalizeFails \/ PowerCut

Script ==
  \/ DetectState \/ ReadKey
  \/ Fsck \/ Measure \/ Shrink \/ StartEncryption \/ EncryptBlock \/ FinishEncryption
  \/ Open \/ Discard \/ Check \/ Grow \/ Close \/ GiveUp \/ WriteLabel

Next == Boot \/ Restart \/ FreeSpace \/ Script \/ Trouble

Spec == Init /\ [][Next]_vars

\* A script that runs goes on to its next step.
LiveSpec == Spec /\ WF_vars(Script)

-----------------------------------------------------------------------------
(* Properties.                                                             *)

\* When the unit lets systemd-cryptsetup open the disk, no block of the device
\* holds plaintext, the filesystem fills the mapping, and the script no longer
\* holds the device (finalize: the label is written last).
DoneMeansSealed ==
  pc = "done" =>
    format = "luks" /\ plain = {} /\ size = Total - Offset /\ ~scratch

Stage ==
  CASE format = "ext4" -> "plain"
    [] format = "reencrypt" -> "converting"
    [] format = "luks" -> IF label THEN "sealed" ELSE "cipher"

Disk == INSTANCE SealedDisk WITH stage <- Stage

\* The script, whatever interrupts it, implements the in-place encryption: the
\* disk only moves forward, is labelled only once no plaintext is left, and once
\* the encryption has begun nothing loses a file (encrypt, resume, finalize).
ImplementsSealedDisk == Disk!Spec

\* If power and tools stop failing, the device is not too full and the unit is
\* run again after each failure (by a new boot when the last run left its
\* mapping open), the disk ends up labelled: there is no state to cut a run
\* short in from which the next cannot go on (detect_state).
EventuallySealed ==
  /\ <>[][~Trouble]_vars
  /\ <>[]~TooFull
  /\ []<>(pc \notin {"off", "failed"} /\ ~scratch)
  => <>label

-----------------------------------------------------------------------------
(* The inductive strengthening.                                            *)

\* What the disk holds at each step of the script.
StepInv ==
  /\ pc \in {"fsck", "measure", "shrink", "encrypt"} => format = "ext4"
  /\ pc \in {"shrink", "encrypt"} => ~TooFull
  /\ pc \in {"measure", "shrink", "encrypt"} => fs = "clean"
  /\ pc = "encrypt" => size = Target
  /\ pc = "reencrypt" => format = "reencrypt"
  /\ pc \in {"open", "close", "giveup", "label"} \cup Finalizing => format = "luks"
  /\ pc \in {"check", "grow", "close", "label"} => plain = {}
  /\ pc \in {"close", "label"} => size = Total - Offset
  /\ pc = "label" => ~scratch
  /\ pc = "done" => label

\* Plaintext is left only in front of the encrypted blocks, and behind the
\* filesystem.
PlaintextInv ==
  /\ format = "reencrypt" =>
       /\ size <= segment
       /\ \A b \in plain : b < Offset + left \/ b >= Offset + segment
       /\ \A b \in plain : b >= Offset
  /\ format = "luks" => \A b \in plain : b >= Offset + size

LabelInv ==
  label =>
    /\ pc \in {"off", "detect", "done", "failed"}
    /\ format = "luks" /\ plain = {} /\ size = Total - Offset /\ ~scratch

\* Only the filesystem that was never encrypted can be torn.
TornInv == fs = "torn" => format = "ext4"

MigrateInv == TypeOK /\ StepInv /\ PlaintextInv /\ LabelInv /\ TornInv
=============================================================================
