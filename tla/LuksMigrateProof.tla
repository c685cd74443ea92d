-------------------------- MODULE LuksMigrateProof --------------------------
(***************************************************************************)
(* For a device of any size and any header room, offset and alignment, the *)
(* migration script keeps its inductive invariant, hence hands the disk on *)
(* only sealed, and implements the abstract in-place encryption.           *)
(***************************************************************************)
EXTENDS LuksMigrate, TLAPS

-----------------------------------------------------------------------------
(* The arithmetic.                                                         *)

\* The shrink target is a block count above the filesystem's minimum.
LEMMA TargetBound ==
  ASSUME used \in Nat
  PROVE  Target \in Nat /\ Target > 0
<1> DEFINE n == used * Percent
<1>1. n \in Nat
  BY SizeAssumption
<1>2. n \div 100 \in Nat
  <2> HIDE DEF n
  <2> QED  BY <1>1
<1> QED  BY <1>2 DEF Target

\* The region encrypted, less the header room, covers the shrunk filesystem.
LEMMA RegionBound ==
  ASSUME used \in Nat
  PROVE  /\ Region \in Int
         /\ Target + HeaderRoom <= Region
<1> DEFINE n == Target + HeaderRoom + Align - 1
           r == n % Align
<1>1. n \in Nat
  BY TargetBound, SizeAssumption
<1>2. r \in 0 .. Align - 1
  <2> HIDE DEF n
  <2> QED  BY <1>1, SizeAssumption
<1>3. Region = n - r
  BY DEF Region, AlignUp
<1>4. n - r \in Int /\ n - r >= n - (Align - 1)
  <2> HIDE DEF n, r
  <2> QED  BY <1>1, <1>2, SizeAssumption
<1>5. n - (Align - 1) = Target + HeaderRoom
  BY TargetBound, SizeAssumption
<1> HIDE DEF n, r
<1> QED  BY <1>3, <1>4, <1>5

\* A device that is not too full has room for the target, the region encrypted
\* and the header.
LEMMA FitBound ==
  ASSUME used \in Nat, ~TooFull
  PROVE  /\ Target \in 1 .. Total
         /\ Region - HeaderRoom \in 0 .. Total
         /\ Target <= Region - HeaderRoom
BY TargetBound, RegionBound, SizeAssumption DEF TooFull

-----------------------------------------------------------------------------
(* The inductive invariant.                                                *)

\* The unit has not run yet: plaintext everywhere and no header.
LEMMA InitInv == Init => MigrateInv
<1> SUFFICES ASSUME Init PROVE MigrateInv
  OBVIOUS
<1>1. TypeOK
  <2>1. Total \in 1 .. Total /\ used \in 1 .. Total
    BY SizeAssumption DEF Init
  <2>2. segment \in 0 .. Total /\ left \in 0 .. segment
    BY SizeAssumption DEF Init
  <2> QED  BY <2>1, <2>2 DEF Init, TypeOK, Pcs
<1>2. StepInv /\ PlaintextInv /\ LabelInv /\ TornInv
  BY DEF Init, StepInv, PlaintextInv, LabelInv, TornInv, Finalizing
<1> QED  BY <1>1, <1>2 DEF MigrateInv

\* Target, and so the verdict on the device's fullness, depends on the
\* filesystem's minimum size alone.
LEMMA SameUsed ==
  ASSUME used' = used
  PROVE  Target' = Target /\ TooFull' = TooFull /\ Region' = Region
BY DEF Target, TooFull, Region, AlignUp

\* A resize cut short leaves a block count of the right type, torn only if the
\* filesystem was shrinking.
LEMMA HalfResizedInv ==
  ASSUME MigrateInv, HalfResized
  PROVE  /\ size' \in 1 .. Total /\ fs' \in {"clean", "dirty", "torn"}
         /\ fs' = "torn" => format = "ext4"
         /\ pc \notin {"shrink", "grow"} => size' = size /\ fs' = fs
         /\ format = "reencrypt" => size' = size
         /\ format = "luks" => \A b \in plain : b >= Offset + size'
         /\ <<format, label, plain, used, segment, left, data>>'
              = <<format, label, plain, used, segment, left, data>>
<1>1. Total - Offset \in 1 .. Total
  BY SizeAssumption
<1>2. pc = "shrink" => Target \in 1 .. Total
  BY FitBound DEF MigrateInv, TypeOK, StepInv
<1> QED
  BY <1>1, <1>2, SizeAssumption
     DEF HalfResized, MigrateInv, TypeOK, StepInv, PlaintextInv, TornInv, Finalizing

\* Every step of the script, of its operator and of its bad luck keeps the
\* invariant.
LEMMA StepKeepsInv == MigrateInv /\ [Next]_vars => MigrateInv'
<1> SUFFICES ASSUME MigrateInv, [Next]_vars PROVE MigrateInv'
  OBVIOUS
<1> USE DEF MigrateInv, TypeOK, StepInv, PlaintextInv, LabelInv, TornInv, Finalizing, Pcs
<1>1. CASE Boot
  BY <1>1, SameUsed DEF Boot, disk
<1>2. CASE Restart
  BY <1>2, SameUsed DEF Restart, disk
<1>3. CASE FreeSpace
  <2>1. used' \in 1 .. Total
    BY <1>3, SizeAssumption DEF FreeSpace
  <2>2. pc = "failed" /\ format = "ext4" /\ ~label
    BY <1>3 DEF FreeSpace
  <2> QED  BY <1>3, <2>1, <2>2 DEF FreeSpace
<1>4. CASE DetectState
  BY <1>4, SameUsed DEF DetectState, State, disk
<1>5. CASE ReadKey
  BY <1>5, SameUsed DEF ReadKey, State, disk
<1>6. CASE Fsck
  BY <1>6, SameUsed DEF Fsck, Repair
<1>7. CASE Measure
  BY <1>7, SameUsed DEF Measure, disk
<1>8. CASE Shrink
  BY <1>8, SameUsed, FitBound DEF Shrink
<1>9. CASE StartEncryption
  <2>1. segment' \in 0 .. Total /\ left' = segment' /\ size <= segment'
    BY <1>9, FitBound DEF StartEncryption
  <2>2. \A b \in plain' : b \in Blocks /\ b >= Offset
    BY <1>9, SizeAssumption DEF StartEncryption, Blocks
  <2>3. \A b \in plain' : b < Offset + left' \/ b >= Offset + segment'
    BY <2>1, <2>2, SizeAssumption DEF Blocks
  <2>4. TypeOK'
    BY <1>9, <2>1, <2>2 DEF StartEncryption
  <2> QED  BY <1>9, <2>1, <2>2, <2>3, <2>4 DEF StartEncryption
<1>10. CASE EncryptBlock
  <2>1. left' \in 0 .. segment /\ left' = left - 1
    BY <1>10, SizeAssumption DEF EncryptBlock
  <2>2. \A b \in plain' : b \in plain /\ b \in Int /\ b # Offset + left'
    BY <1>10 DEF EncryptBlock, Blocks
  <2>3. \A b \in plain' : b < Offset + left' \/ b >= Offset + segment'
    BY <1>10, <2>1, <2>2, SizeAssumption DEF EncryptBlock
  <2> QED  BY <1>10, <2>1, <2>2, <2>3, SameUsed DEF EncryptBlock
<1>11. CASE FinishEncryption
  <2>1. \A b \in plain : b \in Int /\ b >= Offset + segment /\ size <= segment
    BY <1>11, SizeAssumption DEF FinishEncryption, Blocks
  <2>2. \A b \in plain' : b >= Offset' + size'
    BY <1>11, <2>1, SizeAssumption DEF FinishEncryption
  <2> QED  BY <1>11, <2>2, SameUsed DEF FinishEncryption
<1>12. CASE Open
  BY <1>12, SameUsed DEF Open, disk
<1>13. CASE Discard
  <2>1. \A b \in plain : b \in PlaintextTail .. Total - 1
    BY <1>13, SizeAssumption DEF Discard, Blocks, PlaintextTail
  <2>2. plain' = {}
    BY <1>13, <2>1 DEF Discard
  <2> QED  BY <1>13, <2>2, SameUsed DEF Discard
<1>14. CASE Check
  BY <1>14, SameUsed DEF Check, Repair
<1>15. CASE Grow
  BY <1>15, SameUsed, SizeAssumption DEF Grow
<1>16. CASE Close
  BY <1>16, SameUsed DEF Close, disk
<1>17. CASE GiveUp
  BY <1>17, SameUsed DEF GiveUp, disk
<1>18. CASE WriteLabel
  BY <1>18, SameUsed DEF WriteLabel
<1>19. CASE ToolFails
  BY <1>19, SameUsed, HalfResizedInv DEF ToolFails
<1>20. CASE FinalizeFails
  BY <1>20, SameUsed, HalfResizedInv DEF FinalizeFails
<1>21. CASE PowerCut
  <2>1. TypeOK'
    BY <1>21, HalfResizedInv DEF PowerCut
  <2>2. StepInv' /\ TornInv'
    BY <1>21, HalfResizedInv DEF PowerCut
  <2>3. PlaintextInv'
    BY <1>21, HalfResizedInv DEF PowerCut
  <2>4. LabelInv'
    BY <1>21, HalfResizedInv DEF PowerCut
  <2> QED  BY <2>1, <2>2, <2>3, <2>4
<1>22. CASE UNCHANGED vars
  BY <1>22, SameUsed DEF vars, disk
<1> QED
  BY <1>1, <1>2, <1>3, <1>4, <1>5, <1>6, <1>7, <1>8, <1>9, <1>10, <1>11, <1>12, <1>13,
     <1>14, <1>15, <1>16, <1>17, <1>18, <1>19, <1>20, <1>21, <1>22
     DEF Next, Script, Trouble

\* Every reachable state satisfies the inductive invariant.
THEOREM MigrateInvariant == Spec => []MigrateInv
BY InitInv, StepKeepsInv, PTL DEF Spec

\* The script's state keeps its types, the block counts their bounds: shrinking,
\* growing and encrypting stay within the device.
THEOREM TypeCorrect == Spec => []TypeOK
<1>1. MigrateInv => TypeOK
  BY DEF MigrateInv
<1> QED  BY <1>1, MigrateInvariant, PTL

\* A unit that ended well leaves an encrypted disk with no plaintext on it and
\* the device free for systemd-cryptsetup (finalize).
THEOREM DoneSealed == Spec => []DoneMeansSealed
<1>1. MigrateInv => DoneMeansSealed
  BY DEF MigrateInv, StepInv, LabelInv, DoneMeansSealed
<1> QED  BY <1>1, MigrateInvariant, PTL

-----------------------------------------------------------------------------
(* The script implements SealedDisk.                                       *)

\* A script that has not run yet faces a plain disk.
LEMMA RefinesInit == Init => Disk!Init
BY DEF Init, Disk!Init, Stage, Blocks

\* A step that leaves format, label, plaintext and files alone is a stutter.
LEMMA Stutters ==
  ASSUME <<format, label, plain, data>>' = <<format, label, plain, data>>
  PROVE  UNCHANGED Disk!vars
BY DEF Disk!vars, Stage

\* A repair loses files only of a filesystem that was never encrypted.
LEMMA RepairRefines ==
  ASSUME MigrateInv, Repair
  PROVE  [Disk!Next]_Disk!vars
<1>1. CASE data' = data
  BY <1>1, Stutters DEF Repair
<1>2. CASE data' = "lost" /\ format = "ext4"
  BY <1>2 DEF Repair, Disk!Next, Disk!Lose, Disk!vars, Stage
<1> QED  BY <1>1, <1>2 DEF Repair, MigrateInv, TornInv

\* A resize cut short loses nothing that is not already in doubt.
LEMMA HalfResizedRefines ==
  ASSUME HalfResized
  PROVE  [Disk!Next]_Disk!vars
BY Stutters DEF HalfResized

\* Every step of the script is a step of SealedDisk, or none.
LEMMA RefinesNext == MigrateInv /\ [Next]_vars => [Disk!Next]_Disk!vars
<1> SUFFICES ASSUME MigrateInv, [Next]_vars PROVE [Disk!Next]_Disk!vars
  OBVIOUS
<1>1. CASE Boot \/ Restart \/ FreeSpace
  BY <1>1, Stutters DEF Boot, Restart, FreeSpace, disk
<1>2. CASE DetectState \/ ReadKey \/ Measure \/ Open \/ Close \/ GiveUp
  BY <1>2, Stutters DEF DetectState, ReadKey, Measure, Open, Close, GiveUp, disk
<1>3. CASE Fsck \/ Check
  BY <1>3, RepairRefines DEF Fsck, Check
<1>4. CASE Shrink \/ Grow
  BY <1>4, Stutters DEF Shrink, Grow
<1>5. CASE StartEncryption
  <2>1. ~(size > segment')
    BY <1>5, FitBound, SizeAssumption DEF StartEncryption, MigrateInv, TypeOK, StepInv
  <2>2. Stage = "plain" /\ Stage' = "converting"
    BY <1>5 DEF StartEncryption, MigrateInv, StepInv, Stage
  <2> QED  BY <1>5, <2>1, <2>2 DEF StartEncryption, Disk!Next, Disk!Convert
<1>6. CASE EncryptBlock
  <2>1. Stage = "converting" /\ Stage' = "converting"
    BY <1>6 DEF EncryptBlock, Stage
  <2> QED  BY <1>6, <2>1 DEF EncryptBlock, Disk!Next, Disk!Progress
<1>7. CASE FinishEncryption
  <2>1. ~label
    BY <1>7 DEF FinishEncryption, MigrateInv, LabelInv
  <2>2. Stage = "converting" /\ Stage' = "cipher"
    BY <1>7, <2>1 DEF FinishEncryption, MigrateInv, StepInv, Stage
  <2> QED  BY <1>7, <2>2 DEF FinishEncryption, Disk!Next, Disk!Progress
<1>8. CASE Discard
  <2>1. format = "luks" /\ ~label
    BY <1>8 DEF Discard, MigrateInv, StepInv, LabelInv, Finalizing
  <2>2. Stage = "cipher" /\ Stage' = "cipher"
    BY <1>8, <2>1 DEF Discard, Stage
  <2>3. (PlaintextTail .. Total - 1) \cap FsBlocks = {}
    BY <2>1, SizeAssumption DEF FsBlocks, PlaintextTail, MigrateInv, TypeOK
  <2>4. plain' \subseteq plain /\ data' = data
    BY <1>8, <2>3 DEF Discard
  <2> QED  BY <2>2, <2>4 DEF Disk!Next, Disk!Erase
<1>9. CASE WriteLabel
  <2>1. format = "luks" /\ ~label /\ plain = {}
    BY <1>9 DEF WriteLabel, MigrateInv, StepInv, LabelInv
  <2>2. Stage = "cipher" /\ Stage' = "sealed"
    BY <1>9, <2>1 DEF WriteLabel, Stage
  <2> QED  BY <1>9, <2>1, <2>2 DEF WriteLabel, Disk!Next, Disk!Seal
<1>10. CASE Trouble
  BY <1>10, HalfResizedRefines DEF Trouble, ToolFails, FinalizeFails, PowerCut
<1>11. CASE UNCHANGED vars
  BY <1>11, Stutters DEF vars, disk
<1> QED
  BY <1>1, <1>2, <1>3, <1>4, <1>5, <1>6, <1>7, <1>8, <1>9, <1>10, <1>11 DEF Next, Script

\* The migration script implements the abstract in-place encryption: forward
\* only, labelled only without plaintext, no file lost once encryption began.
THEOREM Refinement == Spec => ImplementsSealedDisk
<1>1. MigrateInv /\ MigrateInv' /\ [Next]_vars => [Disk!Next]_Disk!vars
  BY RefinesNext
<1> QED
  BY <1>1, RefinesInit, MigrateInvariant, PTL
     DEF Spec, Disk!Spec, ImplementsSealedDisk
=============================================================================
