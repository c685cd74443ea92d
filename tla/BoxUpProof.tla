----------------------------- MODULE BoxUpProof -----------------------------
(***************************************************************************)
(* One box brought up, built and grown, for any refs and sizes and any     *)
(* number of faults: what a command may do to the box, and what it has     *)
(* done when it says that it is done.                                      *)
(***************************************************************************)
EXTENDS BoxUp, TLAPS

-----------------------------------------------------------------------------
(* The parts of the state, and the types of each.                          *)

Machine ==
  /\ driver \in {"lima", "libvirt"}
  /\ vm \in {"none", "off"} \cup Running
  /\ enc \in {"plain", "partial", "luks"}
  /\ faults \in 0..MaxFaults

Disk ==
  /\ {ceiling, part, map, fs, before} \subseteq Sizes
  /\ map <= part /\ fs <= part /\ part <= ceiling

Gen ==
  /\ {profile, entry, booted} \subseteq Gens
  /\ {job, left} \subseteq Jobs \cup {None}
  /\ refFile \in Refs \cup {None}
  /\ tip \in [Refs -> 0..1] /\ rev \in 0..1

Call ==
  /\ pc \in Pcs
  /\ cmd \in Commands
  /\ leg \in {"up", "boot", "reboot", "grown", "finish"}
  /\ goal \in {"none", "restart", "reboot", "raise", "down"}
  /\ starter \in {"none", "running", "ok", "failed"}
  /\ watch \in {"none", "starting", "armed", "over"}
  /\ said \in {"none", "ok", "failed", "rerunUp", "rerunGrow"}

Flags == {restarted, migrated, lines} \subseteq BOOLEAN

LEMMA Parts ==
  /\ TypeOK <=> Machine /\ Disk /\ Gen /\ Call /\ Flags
  /\ TypeOK' <=> Machine' /\ Disk' /\ Gen' /\ Call' /\ Flags'
BY DEF TypeOK, Machine, Disk, Gen, Call, Flags

Faults == EncryptFails \/ VmDies \/ BranchMoves \/ StarterEnds \/ WatchMoves

LEMMA Steps ==
  ASSUME Next
  PROVE  \/ Guest \/ Faults \/ Up \/ Stop \/ Bootstrap \/ Grow \/ Crash
         \/ \E c \in Commands : Begin(c)
BY DEF Next, Faults

LEMMA MachineStep ==
  ASSUME Machine, Next
  PROVE  Machine'
<1> USE DEF Machine, Running, Trouble, NoSsh, diskVars
<1>1. CASE Guest
  BY <1>1, FaultsAssumption
  DEF Guest, Boots, Encrypts, Mounts, ShutsDown, PowersOff, JobRuns, LeftRuns
<1>2. CASE Faults
  BY <1>2, FaultsAssumption
  DEF Faults, EncryptFails, VmDies, PowersOff, BranchMoves, StarterEnds, WatchMoves
<1>3. CASE Up
  BY <1>3, FaultsAssumption
  DEF Up, UpPlan, UpStart, Creates, UnlockAnswer, UnlockReturns, UnlockFails, StarterWait,
      UpOperator
<1>4. CASE Stop
  BY <1>4, FaultsAssumption
  DEF Stop, StopBegin, AskGuest, LimactlStop, StopAsk, StopRead, StopLine, StopLast, Down
<1>5. CASE Bootstrap
  BY <1>5, FaultsAssumption
  DEF Bootstrap, Classify, LockedRev, Rebuild, RebuildEnds, SaveRef, Compare, Rebooted
<1>6. CASE Grow
  BY <1>6, FaultsAssumption
  DEF Grow, GrowAsked, GrowCmd, GrowBefore, ReadUsage, Raise, Finish, Resize, Resize2fs,
      Verify
<1>7. CASE Crash BY <1>7, FaultsAssumption DEF Crash
<1>8. CASE \E c \in Commands : Begin(c) BY <1>8 DEF Begin
<1> QED BY <1>1, <1>2, <1>3, <1>4, <1>5, <1>6, <1>7, <1>8, Steps

LEMMA DiskStep ==
  ASSUME Machine, Disk, Call, RaiseInv, Next
  PROVE  Disk'
<1> USE DEF Disk, diskVars, callVars, Trouble, NoSsh, End, Fail, Goto, Sizes
<1>1. CASE Guest
  BY <1>1, TopAssumption DEF Guest, Boots, Encrypts, Mounts, ShutsDown, JobRuns, LeftRuns
<1>2. CASE Faults
  BY <1>2, TopAssumption DEF Faults, EncryptFails, VmDies, BranchMoves, StarterEnds, WatchMoves
<1>3. CASE Up
  <2>1. cmd.size \in 0..Top BY TopAssumption DEF Call, Commands
  <2>2. CASE UpStart
    <3>1. Asked \in 0..Top BY <2>1, TopAssumption DEF Asked
    <3>2. UNCHANGED <<ceiling, part, map, fs>> \/
          \E size \in 1..Top :
            ceiling' = size /\ part' = size /\ fs' = size /\ map' = map /\ vm = "none"
      BY <2>2, <3>1, TopAssumption DEF UpStart, Creates, Status
    <3> QED BY <2>2, <3>2, TopAssumption DEF UpStart, RaiseInv
  <2> QED
    BY <1>3, <2>2, TopAssumption
    DEF Up, UpPlan, UnlockAnswer, Unlocked, Return, UnlockReturns, UnlockFails, StarterWait,
         UpOperator
<1>4. CASE Stop
  BY <1>4, TopAssumption
  DEF Stop, StopBegin, Stopped, CallStop, LimactlStop, StopAsk, StopRead, StopLine, StopLast, Down
<1>5. CASE Bootstrap
  BY <1>5, TopAssumption
  DEF Bootstrap, CallStop, Classify, LockedRev, Rebuild, RebuildEnds, SaveRef, Compare, Rebooted
<1>6. CASE Grow
  <2>1. CASE Raise
    <3>1. cmd.size \in 0..Top BY TopAssumption DEF Call, Commands
    <3> QED BY <2>1, <3>1, TopAssumption DEF Raise, GrowDisk, CallUp, RaiseInv
  <2> QED
    BY <1>6, <2>1, TopAssumption
    DEF Grow, CallUp, GrowAsked, GrowCmd, GrowBefore, ReadUsage, Finish, Resize, Resize2fs, Verify
<1>7. CASE Crash BY <1>7, TopAssumption DEF Crash
<1>8. CASE \E c \in Commands : Begin(c) BY <1>8, TopAssumption DEF Begin
<1> QED BY <1>1, <1>2, <1>3, <1>4, <1>5, <1>6, <1>7, <1>8, Steps

LEMMA GenStep ==
  ASSUME Gen, Call, Next
  PROVE  Gen'
<1> USE DEF Gen, genVars, refVars, Gens
<1>1. CASE Guest
  BY <1>1 DEF Guest, Boots, Encrypts, Mounts, ShutsDown, PowersOff, JobRuns, LeftRuns, Build, Jobs
<1>2. CASE Faults
  BY <1>2 DEF Faults, EncryptFails, VmDies, PowersOff, BranchMoves, StarterEnds, WatchMoves
<1>3. CASE Up
  BY <1>3 DEF Up, UpPlan, UpStart, UnlockAnswer, UnlockReturns, UnlockFails, StarterWait, UpOperator
<1>4. CASE Stop
  BY <1>4 DEF Stop, StopBegin, LimactlStop, StopAsk, StopRead, StopLine, StopLast, Down
<1>5. CASE Bootstrap
  <2>1. cmd.ref \in Refs \cup {None} /\ RefOf(cmd) \in Refs
    BY OwnAssumption DEF Call, Commands, RefOf
  <2>2. Pinned \in Jobs BY <2>1 DEF Pinned, Jobs, Builds
  <2> QED
    BY <1>5, <2>1, <2>2
    DEF Bootstrap, Classify, LockedRev, Rebuild, RebuildEnds, SaveRef, Compare, Rebooted
<1>6. CASE Grow
  BY <1>6 DEF Grow, GrowAsked, GrowCmd, GrowBefore, Raise, Finish, Resize, Resize2fs, Verify
<1>7. CASE Crash BY <1>7 DEF Crash
<1>8. CASE \E c \in Commands : Begin(c) BY <1>8 DEF Begin
<1> QED BY <1>1, <1>2, <1>3, <1>4, <1>5, <1>6, <1>7, <1>8, Steps

LEMMA CallStep ==
  ASSUME Call, CallInv, Next
  PROVE  Call'
<1> USE DEF Call, callVars, stopVars, End, Fail, Goto, CallUp, CallStop,
            Pcs, StopPcs, UpPcs, BuildPcs, GrowPcs
<1>1. CASE Guest
  BY <1>1 DEF Guest, Boots, Encrypts, Mounts, ShutsDown, JobRuns, LeftRuns
<1>2. CASE Faults
  BY <1>2 DEF Faults, EncryptFails, VmDies, BranchMoves, StarterEnds, WatchMoves
<1>3. CASE Up
  <2>1. ASSUME Return PROVE Call'
    BY <2>1 DEF Return
  <2> QED
    BY <1>3, <2>1
    DEF Up, UpPlan, UpStart, UnlockAnswer, UnlockReturns, UnlockFails, StarterWait,
         UpOperator, Unlocked
<1>4. CASE Stop
  <2>1. ASSUME Stopped, pc \in StopPcs PROVE Call'
    BY <2>1 DEF Stopped, CallInv
  <2> QED
    BY <1>4, <2>1
    DEF Stop, StopBegin, LimactlStop, StopAsk, StopRead, StopLine, StopLast, Down
<1>5. CASE Bootstrap
  BY <1>5 DEF Bootstrap, Classify, LockedRev, Rebuild, RebuildEnds, SaveRef, Compare, Rebooted
<1>6. CASE Grow
  BY <1>6 DEF Grow, GrowAsked, GrowCmd, GrowBefore, Raise, Finish, Resize, Resize2fs, Verify
<1>7. CASE Crash BY <1>7 DEF Crash
<1>8. CASE \E c \in Commands : Begin(c) BY <1>8 DEF Begin
<1> QED BY <1>1, <1>2, <1>3, <1>4, <1>5, <1>6, <1>7, <1>8, Steps

LEMMA FlagsStep ==
  ASSUME Flags, Next
  PROVE  Flags'
<1> USE DEF Flags, callVars, stopVars, End, Fail, Goto, CallUp, CallStop
<1>1. CASE Guest
  BY <1>1 DEF Guest, Boots, Encrypts, Mounts, ShutsDown, JobRuns, LeftRuns, PowersOff, SeesEnd
<1>2. CASE Faults
  BY <1>2 DEF Faults, EncryptFails, VmDies, BranchMoves, StarterEnds, WatchMoves, PowersOff, SeesEnd
<1>3. CASE Up
  BY <1>3
  DEF Up, UpPlan, UpStart, UnlockAnswer, UnlockReturns, UnlockFails, StarterWait, UpOperator,
      Unlocked, Return
<1>4. CASE Stop
  BY <1>4 DEF Stop, StopBegin, LimactlStop, StopAsk, StopRead, StopLine, StopLast, Down, Stopped
<1>5. CASE Bootstrap
  BY <1>5 DEF Bootstrap, Classify, LockedRev, Rebuild, RebuildEnds, SaveRef, Compare, Rebooted
<1>6. CASE Grow
  BY <1>6 DEF Grow, GrowAsked, GrowCmd, GrowBefore, Raise, Finish, Resize, Resize2fs, Verify
<1>7. CASE Crash BY <1>7 DEF Crash
<1>8. CASE \E c \in Commands : Begin(c) BY <1>8 DEF Begin
<1> QED BY <1>1, <1>2, <1>3, <1>4, <1>5, <1>6, <1>7, <1>8, Steps

-----------------------------------------------------------------------------
(* How a command moves.                                                    *)

\* What only a command changes, never the guest or a fault.
CommandKept == UNCHANGED <<pc, cmd, leg, goal, said, ceiling, rev, refFile, before>>

LEMMA OutsideMoves ==
  ASSUME Guest \/ Faults
  PROVE  CommandKept
<1> USE DEF CommandKept, callVars, diskVars, refVars
<1>1. CASE Guest BY <1>1 DEF Guest, Boots, Encrypts, Mounts, ShutsDown, JobRuns, LeftRuns
<1>2. CASE Faults BY <1>2 DEF Faults, EncryptFails, VmDies, BranchMoves, StarterEnds, WatchMoves
<1> QED BY <1>1, <1>2

\* A call that goes on, one that fails, and one that returns to its command.
Within == UNCHANGED <<cmd, leg, goal, said>>
Failed ==
  /\ pc' = "idle" /\ goal' = "none" /\ said' \in {"failed", "rerunUp", "rerunGrow"}
  /\ UNCHANGED <<cmd, leg>>

LEMMA Fails ==
  ASSUME Fail
  PROVE  Failed
BY DEF Fail, End, Failed

Returned ==
  /\ Within
  /\ \/ leg = "up" /\ pc' = "asked"
     \/ leg = "boot" /\ pc' = "classify"
     \/ leg = "reboot" /\ pc' = "rebooted"
     \/ leg = "grown" /\ pc' = "resize"
     \/ leg = "finish" /\ pc' = "finish"

LEMMA Returns ==
  ASSUME Call, Return
  PROVE  Returned
BY DEF Call, Return, Returned, Within

LEMMA UpMoves ==
  ASSUME Call, Up
  PROVE  /\ pc \in UpPcs
         /\ UNCHANGED <<driver, genVars, refVars>>
         /\ \/ pc' \in UpPcs /\ Within
            \/ Failed
            \/ vm = "up" /\ Returned
            \/ /\ pc = "starter" /\ pc' = "stop" /\ goal' = "restart"
               /\ UNCHANGED <<cmd, leg, said>>
<1> USE DEF UpPcs, Within, callVars, Goto
<1>1. CASE UpPlan BY <1>1, Returns, Fails DEF UpPlan
<1>2. CASE UpStart BY <1>2, Fails DEF UpStart
<1>3. CASE UnlockAnswer \/ UnlockReturns
  BY <1>3 DEF UnlockAnswer, UnlockReturns, Unlocked
<1>4. CASE UnlockFails BY <1>4, Fails DEF UnlockFails
<1>5. CASE StarterWait BY <1>5, Fails DEF StarterWait
<1>6. CASE UpOperator BY <1>6, Returns, Fails DEF UpOperator
<1> QED BY <1>1, <1>2, <1>3, <1>4, <1>5, <1>6 DEF Up

IsOff ==
  \/ /\ goal = "down" /\ pc' = "idle" /\ goal' = "none" /\ said' = "ok"
     /\ UNCHANGED <<cmd, leg>>
  \/ /\ goal = "reboot" /\ pc' = "plan" /\ goal' = "none" /\ leg' = "reboot"
     /\ UNCHANGED <<cmd, said>>
  \/ /\ goal = "restart" /\ pc' = "start" /\ goal' = "none"
     /\ UNCHANGED <<cmd, leg, said>>
  \/ /\ goal = "raise" /\ pc' = "raise" /\ goal' = "none"
     /\ UNCHANGED <<cmd, leg, said>>

LEMMA Offs ==
  ASSUME Call, goal # "none", Stopped
  PROVE  IsOff
<1>1. CASE goal = "down" BY <1>1 DEF Stopped, End, IsOff
<1>2. CASE goal = "restart" BY <1>2 DEF Stopped, IsOff
<1>3. CASE goal = "reboot" BY <1>3 DEF Stopped, IsOff
<1>4. CASE goal = "raise" BY <1>4 DEF Stopped, IsOff
<1> QED BY <1>1, <1>2, <1>3, <1>4 DEF Call

LEMMA StopMoves ==
  ASSUME Call, CallInv, Stop
  PROVE  /\ UNCHANGED <<diskVars, genVars, refVars>>
         /\ \/ /\ pc \in StopPcs
               /\ \/ pc' \in StopPcs /\ Within
                  \/ Failed
                  \/ vm = "off" /\ vm' = vm /\ IsOff
            \/ /\ pc = "downCmd"
               /\ \/ Failed /\ vm' = vm
                  \/ vm' = "off" /\ pc' = "idle" /\ goal' = "none" /\ said' = "ok"
                     /\ UNCHANGED <<cmd, leg>>
                  \/ /\ vm # "encrypting" /\ vm' = vm /\ pc' = "stop" /\ goal' = "down"
                     /\ UNCHANGED <<cmd, leg, said>>
<1> USE DEF StopPcs, Within, callVars, Goto
<1>0. pc \in StopPcs => goal # "none" BY DEF CallInv
<1>1. CASE StopBegin BY <1>0, <1>1, Offs DEF StopBegin
<1>2. CASE LimactlStop BY <1>0, <1>2, Offs, Fails DEF LimactlStop
<1>3. CASE StopAsk BY <1>3 DEF StopAsk
<1>4. CASE StopRead BY <1>0, <1>4, Offs DEF StopRead
<1>5. CASE StopLine BY <1>5 DEF StopLine
<1>6. CASE StopLast BY <1>0, <1>6, Offs, Fails DEF StopLast
<1>7. CASE Down BY <1>7, Fails DEF Down, CallStop, End
<1> QED BY <1>1, <1>2, <1>3, <1>4, <1>5, <1>6, <1>7 DEF Stop

LEMMA BuildMoves ==
  ASSUME Bootstrap
  PROVE  /\ pc \in BuildPcs
         /\ UNCHANGED <<vm, diskVars, profile, entry, booted>>
         /\ \/ Failed
            \/ /\ pc \in {"classify", "lockedRev", "build", "rebuild"}
               /\ pc' \in {"lockedRev", "build", "rebuild", "save"} /\ Within
            \/ pc = "save" /\ pc' = "compare" /\ Within
            \/ pc = "compare" /\ pc' = "stop" /\ goal' = "reboot" /\ UNCHANGED <<cmd, leg, said>>
            \/ /\ pc \in {"compare", "rebooted"} /\ vm = "up" /\ profile = booted
               /\ pc' = "asked" /\ Within
<1> USE DEF BuildPcs, Within, callVars, genVars, Goto
<1>1. CASE Classify \/ LockedRev BY <1>1, Fails DEF Classify, LockedRev
<1>2. CASE Rebuild \/ RebuildEnds BY <1>2, Fails DEF Rebuild, RebuildEnds
<1>3. CASE SaveRef BY <1>3 DEF SaveRef
<1>4. CASE Compare \/ Rebooted BY <1>4, Fails DEF Compare, Rebooted, CallStop
<1> QED BY <1>1, <1>2, <1>3, <1>4 DEF Bootstrap

LEMMA GrowMoves ==
  ASSUME Grow
  PROVE  /\ pc \in GrowPcs
         /\ UNCHANGED <<vm, enc, part, genVars, refVars>>
         /\ \/ Failed /\ UNCHANGED <<ceiling, map, fs>>
            \/ /\ pc \in {"asked", "verify"} /\ UNCHANGED <<ceiling, map, fs>>
               /\ pc' = "idle" /\ goal' = "none" /\ said' = "ok" /\ UNCHANGED <<cmd, leg>>
               /\ \/ pc = "asked" /\ (cmd.size = 0 \/ cmd.size < ceiling \/ Room = "none")
                  \/ pc = "verify"
            \/ /\ pc = "asked" /\ pc' = "finish" /\ leg' = "finish" /\ UNCHANGED <<cmd, goal, said>>
               /\ cmd.size = ceiling /\ vm = "up" /\ Room = "room" /\ UNCHANGED <<ceiling, map, fs>>
            \/ /\ pc = "growCmd" /\ pc' = "plan" /\ leg' = "finish" /\ UNCHANGED <<cmd, goal, said>>
               /\ UNCHANGED <<ceiling, map, fs>>
            \/ /\ pc \in {"asked", "growCmd"} /\ pc' = "before" /\ Within
               /\ cmd.size > ceiling /\ vm = "up" /\ Growable /\ UNCHANGED <<ceiling, map, fs>>
            \/ /\ pc = "before" /\ pc' = "stop" /\ goal' = "raise" /\ UNCHANGED <<cmd, leg, said>>
               /\ UNCHANGED <<ceiling, map, fs>>
            \/ /\ pc = "raise" /\ pc' = "plan" /\ leg' = "grown" /\ UNCHANGED <<cmd, goal, said>>
               /\ vm = "off" /\ UNCHANGED <<map, fs>>
            \/ pc = "finish" /\ pc' = "resize" /\ Within /\ UNCHANGED <<ceiling, map, fs>>
            \/ pc = "resize" /\ pc' = "resize2fs" /\ Within /\ map' = part /\ UNCHANGED <<ceiling, fs>>
            \/ pc = "resize2fs" /\ pc' = "verify" /\ Within /\ fs' = map /\ UNCHANGED <<ceiling, map>>
<1> USE DEF GrowPcs, Within, callVars, diskVars, Goto
<1>0. /\ End("ok") => pc' = "idle" /\ goal' = "none" /\ said' = "ok" /\ UNCHANGED <<cmd, leg>>
      /\ End("rerunGrow") \/ End("rerunUp") => Failed
  BY DEF End, Failed
<1>1. CASE GrowAsked BY <1>0, <1>1, Fails DEF GrowAsked
<1>2. CASE GrowCmd BY <1>2, Fails DEF GrowCmd, CallUp
<1>3. CASE GrowBefore BY <1>3, Fails DEF GrowBefore
<1>4. CASE Raise BY <1>0, <1>4 DEF Raise, GrowDisk, Status, CallUp
<1>5. CASE Finish BY <1>5, Fails DEF Finish
<1>6. CASE Resize \/ Resize2fs BY <1>6, Fails DEF Resize, Resize2fs
<1>7. CASE Verify BY <1>0, <1>7, Fails DEF Verify
<1> QED BY <1>1, <1>2, <1>3, <1>4, <1>5, <1>6, <1>7 DEF Grow

LEMMA CrashMoves ==
  ASSUME Crash
  PROVE  /\ Failed /\ pc # "idle"
         /\ UNCHANGED <<vm, diskVars, profile, entry, booted, refVars>>
         /\ job' = None /\ (job = None => left' = left)
BY DEF Crash, End, Failed

LEMMA BeginMoves ==
  ASSUME NEW c \in Commands, Begin(c)
  PROVE  /\ pc = "idle" /\ said' = "none" /\ cmd' = c
         /\ pc' \in {"growCmd", "downCmd", "plan"}
         /\ (pc' = "growCmd" => c.name = "grow") /\ (pc' = "downCmd" => c.name = "down")
         /\ leg' = IF c.name = "bootstrap" THEN "boot" ELSE "up"
         /\ UNCHANGED <<vm, goal, diskVars, genVars, refFile>>
BY DEF Begin

-----------------------------------------------------------------------------
(* The invariants, one at a time.                                          *)

LEMMA CallInvStep ==
  ASSUME Call, CallInv, Next
  PROVE  CallInv'
<1> USE DEF CallInv, Within, Failed, UpPcs, StopPcs
<1>1. CASE Guest \/ Faults BY <1>1, OutsideMoves DEF CommandKept
<1>2. CASE Up BY <1>2, UpMoves DEF Returned
<1>3. CASE Stop BY <1>3, StopMoves DEF IsOff
<1>4. CASE Bootstrap BY <1>4, BuildMoves DEF BuildPcs
<1>5. CASE Grow BY <1>5, GrowMoves DEF GrowPcs
<1>6. CASE Crash BY <1>6, CrashMoves
<1>7. CASE \E c \in Commands : Begin(c) BY <1>7, BeginMoves
<1> QED BY <1>1, <1>2, <1>3, <1>4, <1>5, <1>6, <1>7, Steps

\* Who may see a disk being encrypted.
LEMMA EncryptInvStep ==
  ASSUME TypeOK, CallInv, EncryptInv, Next
  PROVE  EncryptInv'
<1>0. Machine /\ Call /\ Gen BY Parts
<1>1. booted' # Stock => entry' # Stock
  <2>1. \A g \in Builds : g # Stock BY OwnAssumption DEF Builds, Stock
  <2>2. CASE Guest
    BY <1>0, <2>1, <2>2
    DEF Guest, Boots, Encrypts, Mounts, ShutsDown, JobRuns, LeftRuns, EncryptInv, genVars, Gen, Jobs
  <2>3. CASE ~Guest
    <3>1. UNCHANGED <<entry, booted>>
      BY <1>0, <2>3, UpMoves, StopMoves, BuildMoves, GrowMoves, CrashMoves, BeginMoves
      DEF Next, EncryptFails, VmDies, BranchMoves, StarterEnds, WatchMoves, genVars
    <3> QED BY <3>1 DEF EncryptInv
  <2> QED BY <2>2, <2>3
<1>2. /\ vm' = "root" => enc' = "luks"
      /\ vm' \in {"up", "down"} /\ booted' # Stock => enc' = "luks"
  <2> USE DEF EncryptInv, diskVars, genVars
  <2>1. CASE Guest BY <2>1
    DEF Guest, Boots, Encrypts, Mounts, ShutsDown, PowersOff, JobRuns, LeftRuns
  <2>2. CASE Faults
    BY <2>2 DEF Faults, EncryptFails, VmDies, PowersOff, BranchMoves, StarterEnds, WatchMoves
  <2>3. CASE Up
    BY <2>3
    DEF Up, UpPlan, UpStart, UnlockAnswer, UnlockReturns, UnlockFails, StarterWait, UpOperator
  <2>4. CASE Stop
    BY <2>4 DEF Stop, StopBegin, AskGuest, LimactlStop, StopAsk, StopRead, StopLine, StopLast, Down
  <2>5. CASE Bootstrap BY <2>5, BuildMoves
  <2>6. CASE Grow BY <2>6, GrowMoves
  <2>7. CASE Crash BY <2>7, CrashMoves
  <2>8. CASE \E c \in Commands : Begin(c) BY <2>8, BeginMoves
  <2> QED BY <2>1, <2>2, <2>3, <2>4, <2>5, <2>6, <2>7, <2>8, Steps
<1>3. vm' = "encrypting" => pc' \in EncPcs /\ enc' = "partial" /\ said' # "ok"
  <2> USE DEF EncryptInv, EncPcs, Failed, Within
  <2>1. CASE Guest \/ Faults
    <3>1. vm' = "encrypting" => vm = "encrypting" /\ enc' = enc
      BY <2>1
      DEF Guest, Boots, Encrypts, Mounts, ShutsDown, PowersOff, JobRuns, LeftRuns, Faults,
          EncryptFails, VmDies, BranchMoves, StarterEnds, WatchMoves, diskVars
    <3> QED BY <2>1, <3>1, OutsideMoves DEF CommandKept
  <2>2. CASE UnlockAnswer
    <3>1. pc = "unlock" /\ pc' = "answered" /\ said' = said BY <2>2 DEF UnlockAnswer
    <3>2. vm' = "encrypting" => enc' = "partial"
      BY <1>0, <2>2 DEF UnlockAnswer, Machine
    <3> QED BY <3>1, <3>2 DEF CallInv
  <2>3. CASE Up /\ ~UnlockAnswer
    <3>1. vm' = "encrypting" => vm = "encrypting" /\ enc' = enc
      BY <2>3 DEF Up, UpPlan, UpStart, UnlockReturns, UnlockFails, StarterWait, UpOperator, diskVars
    <3>2. vm = "encrypting" => pc \in {"plan", "unlock", "answered"}
      BY <1>0, <2>3, UpMoves DEF UpPcs
    <3>3. vm = "encrypting" => Failed \/ (pc' \in EncPcs /\ Within)
      BY <2>3, <3>2, Fails
       DEF Up, UpPlan, Status, UpStart, UnlockReturns, UnlockFails, StarterWait, UpOperator,
           Goto, callVars
    <3> QED BY <3>1, <3>3
  <2>4. CASE Stop
    <3>1. vm' = "encrypting" => vm = "encrypting" /\ enc' = enc
      BY <2>4
       DEF Stop, StopBegin, AskGuest, LimactlStop, StopAsk, StopRead, StopLine, StopLast,
           Down, diskVars
    <3> QED BY <1>0, <2>4, <3>1, StopMoves DEF StopPcs
  <2>5. CASE Bootstrap BY <2>5, BuildMoves DEF BuildPcs, diskVars
  <2>6. CASE Grow BY <2>6, GrowMoves DEF GrowPcs
  <2>7. CASE Crash BY <2>7, CrashMoves DEF diskVars
  <2>8. CASE \E c \in Commands : Begin(c) BY <2>8, BeginMoves DEF diskVars
  <2> QED BY <2>1, <2>2, <2>3, <2>4, <2>5, <2>6, <2>7, <2>8, Steps
<1> QED BY <1>1, <1>2, <1>3 DEF EncryptInv

\* What the box keeps while a command waits for it.
LEMMA OutsideKeeps ==
  ASSUME TypeOK, EncryptInv, Guest \/ Faults
  PROVE  /\ vm' = "none" => vm = "none"
         /\ enc = "luks" => enc' = "luks"
         /\ entry # Stock => entry' # Stock
<1>0. Machine /\ Gen BY Parts
<1>1. vm' = "none" => vm = "none"
  BY DEF Guest, Boots, Encrypts, Mounts, ShutsDown, PowersOff, JobRuns, LeftRuns, Faults,
         EncryptFails, VmDies, BranchMoves, StarterEnds, WatchMoves
<1>2. enc = "luks" => enc' = "luks"
  BY DEF Guest, Boots, Encrypts, Mounts, ShutsDown, PowersOff, JobRuns, LeftRuns, Faults,
         EncryptFails, VmDies, BranchMoves, StarterEnds, WatchMoves, EncryptInv, diskVars
<1>3. entry # Stock => entry' # Stock
  <2>1. \A g \in Builds : g # Stock BY OwnAssumption DEF Builds, Stock
  <2> QED
    BY <1>0, <2>1
    DEF Guest, Boots, Encrypts, Mounts, ShutsDown, JobRuns, LeftRuns, Faults, EncryptFails,
        VmDies, BranchMoves, StarterEnds, WatchMoves, genVars, Gen, Jobs
<1> QED BY <1>1, <1>2, <1>3

\* Nothing can move what a raise was decided on.
LEMMA RaiseInvStep ==
  ASSUME TypeOK, CallInv, EncryptInv, RaiseInv, Next
  PROVE  RaiseInv'
<1> USE DEF RaiseInv, CallInv, Failed, Within
<1>0. Machine /\ Call BY Parts
<1>1. CASE Guest \/ Faults BY <1>1, OutsideMoves, OutsideKeeps DEF CommandKept
<1>2. CASE Up
  <2>1. vm' = "none" => ceiling' = 0
    BY <1>2
    DEF Up, UpPlan, UpStart, UnlockAnswer, UnlockReturns, UnlockFails, StarterWait,
         UpOperator, diskVars
  <2>2. pc' \notin {"before", "raise"} /\ goal' # "raise"
    BY <1>0, <1>2, UpMoves DEF UpPcs, StopPcs, Returned
  <2> QED BY <2>1, <2>2
<1>3. CASE Stop
  <2>1. vm' = "none" => vm = "none"
    BY <1>3
    DEF Stop, StopBegin, AskGuest, LimactlStop, StopAsk, StopRead, StopLine, StopLast, Down
  <2> QED BY <1>0, <1>3, <2>1, StopMoves DEF IsOff, StopPcs, diskVars, genVars
<1>4. CASE Bootstrap BY <1>4, BuildMoves DEF BuildPcs, StopPcs, diskVars
<1>5. CASE Grow
  <2>1. pc \in GrowPcs /\ UNCHANGED <<vm, enc, entry>> BY <1>5, GrowMoves DEF genVars
  <2>2. goal = "none" BY <2>1, <1>0 DEF GrowPcs, StopPcs
  <2>3. vm' = "none" => ceiling' = 0 BY <1>5, <2>1, GrowMoves
  <2>4. pc' = "before" => ceiling' = ceiling /\ cmd' = cmd /\ cmd.size > ceiling /\ Growable
    BY <1>5, GrowMoves
  <2>5. pc' # "raise" BY <1>5, GrowMoves
  <2>6. goal' = "raise" => pc = "before" /\ UNCHANGED <<ceiling, cmd>>
    BY <1>5, <2>2, GrowMoves
  <2>7. cmd.size \in Nat /\ ceiling \in Nat
    BY TopAssumption DEF TypeOK, Commands, Sizes
  <2> QED BY <2>1, <2>3, <2>4, <2>5, <2>6, <2>7 DEF Growable, EncryptInv
<1>6. CASE Crash BY <1>6, CrashMoves DEF diskVars
<1>7. CASE \E c \in Commands : Begin(c) BY <1>0, <1>7, BeginMoves DEF diskVars, StopPcs
<1> QED BY <1>1, <1>2, <1>3, <1>4, <1>5, <1>6, <1>7, Steps

\* What is finished for an earlier grow stays as it was found.
LEMMA FinishInvStep ==
  ASSUME TypeOK, CallInv, FinishInv, Next
  PROVE  FinishInv'
<1> USE DEF FinishInv, Within, Failed
<1>0. Machine /\ Disk /\ Call BY Parts
<1>1. CASE Guest \/ Faults
  <2>1. vm \in {"up", "down", "off"} =>
          vm' \in {"up", "down", "off"} /\ UNCHANGED <<part, map, fs>>
    BY <1>1
    DEF Guest, Boots, Encrypts, Mounts, ShutsDown, PowersOff, JobRuns, LeftRuns, Faults,
        EncryptFails, VmDies, BranchMoves, StarterEnds, WatchMoves, diskVars
  <2> QED BY <1>1, <2>1, OutsideMoves DEF CommandKept
<1>2. CASE Up BY <1>0, <1>2, UpMoves DEF UpPcs, Returned
<1>3. CASE Stop BY <1>0, <1>3, StopMoves DEF StopPcs, IsOff, CallInv
<1>4. CASE Bootstrap BY <1>4, BuildMoves DEF BuildPcs
<1>5. CASE Grow
  <2>1. pc = "asked" /\ Room = "room" => part = ceiling
    BY <1>0, TopAssumption DEF Room, Disk, Sizes
  <2> QED BY <1>5, <2>1, GrowMoves DEF GrowPcs, CallInv
<1>6. CASE Crash BY <1>6, CrashMoves
<1>7. CASE \E c \in Commands : Begin(c) BY <1>7, BeginMoves
<1> QED BY <1>1, <1>2, <1>3, <1>4, <1>5, <1>6, <1>7, Steps

\* The rebuild lock leaves the running rebuild alone in the box.
LEMMA JobInvStep ==
  ASSUME TypeOK, CallInv, JobInv, Next
  PROVE  JobInv'
<1> USE DEF JobInv, genVars
<1>0. Gen /\ Call BY Parts
<1>1. CASE Guest \/ Faults
  <2>1. Target' = Target /\ pc' = pc
    BY <1>1, OutsideMoves DEF CommandKept, Target, RefOf
  <2>2. CASE JobRuns
    <3>1. /\ job.at \in {"build", "install"} /\ left' = left
          /\ \/ job' = None
             \/ /\ job' = Build(job)
                /\ IF job.at = "build" THEN profile' = job.gen /\ UNCHANGED entry
                                       ELSE entry' = job.gen /\ UNCHANGED profile
      BY <1>0, <2>2 DEF JobRuns, Gen, Jobs
    <3>2. Build(job).gen = job.gen /\ Build(job).at = IF job.at = "build" THEN "install" ELSE "built"
      BY <1>0, <2>2, OwnAssumption DEF JobRuns, Build, Gen, Jobs
    <3> QED BY <2>1, <2>2, <3>1, <3>2 DEF JobRuns
  <2>3. CASE LeftRuns BY <2>3 DEF LeftRuns
  <2>4. CASE ~JobRuns /\ ~LeftRuns
    <3>1. job' = None \/ UNCHANGED <<job, left, profile, entry>>
      BY <1>1, <2>4
      DEF Guest, Boots, Encrypts, Mounts, ShutsDown, PowersOff, Faults, EncryptFails, VmDies,
          BranchMoves, StarterEnds, WatchMoves
    <3> QED BY <2>1, <3>1
  <2> QED BY <2>2, <2>3, <2>4
<1>2. CASE Up BY <1>0, <1>2, UpMoves DEF UpPcs
<1>3. CASE Stop BY <1>0, <1>3, StopMoves DEF StopPcs
<1>4. CASE Bootstrap
  <2>1. CASE Rebuild
    <3>1. \/ job' = job
          \/ job' = Pinned /\ pc' = "rebuild" /\ left' = None /\ UNCHANGED <<cmd, rev>>
      BY <2>1 DEF Rebuild, Goto, refVars
    <3>2. pc # "rebuild" BY <2>1 DEF Rebuild
    <3> QED BY <3>1, <3>2 DEF Pinned, Target, RefOf
  <2>2. CASE RebuildEnds BY <2>2 DEF RebuildEnds
  <2>3. CASE ~Rebuild /\ ~RebuildEnds
    BY <1>4, <2>3 DEF Bootstrap, Classify, LockedRev, SaveRef, Compare, Rebooted
  <2> QED BY <2>1, <2>2, <2>3
<1>5. CASE Grow BY <1>5, GrowMoves DEF GrowPcs
<1>6. CASE Crash BY <1>6, CrashMoves
<1>7. CASE \E c \in Commands : Begin(c) BY <1>7, BeginMoves
<1> QED BY <1>1, <1>2, <1>3, <1>4, <1>5, <1>6, <1>7, Steps

\* From its rebuild to its end, a bootstrap has the box to itself.
LEMMA BuiltInvStep ==
  ASSUME TypeOK, CallInv, EncryptInv, JobInv, BuiltInv, Next
  PROVE  BuiltInv'
<1> DEFINE Has == /\ profile = Target /\ entry = Target /\ left = None /\ job = None
                  /\ pc # "save" => refFile = cmd.ref
<1>0. Gen /\ Call BY Parts
<1>S. SUFFICES ASSUME cmd'.name = "bootstrap"
               PROVE  /\ Saved' \/ Compared' => Has'
                      /\ Compared' => booted' = Target' /\ enc' = "luks"
  BY DEF BuiltInv
<1>I. /\ cmd.name = "bootstrap" /\ (Saved \/ Compared) => Has
      /\ cmd.name = "bootstrap" /\ Compared => booted = Target /\ enc = "luks"
  BY DEF BuiltInv
<1>1. CASE Guest \/ Faults
  <2>1. Saved' = Saved /\ Compared' = Compared /\ Target' = Target
    BY <1>1, OutsideMoves DEF CommandKept, Saved, Compared, Target, RefOf
  <2>2. job = None /\ left = None =>
          UNCHANGED <<profile, entry, job, left>> /\ booted' \in {booted, entry}
    BY <1>1
    DEF Guest, Boots, Encrypts, Mounts, ShutsDown, PowersOff, JobRuns, LeftRuns, Faults,
        EncryptFails, VmDies, BranchMoves, StarterEnds, WatchMoves, genVars
  <2>3. UNCHANGED <<pc, cmd, refFile>> BY <1>1, OutsideMoves DEF CommandKept
  <2> QED BY <1>S, <1>I, <1>1, <2>1, <2>2, <2>3, OutsideKeeps
\* A step that leaves the generations alone takes nothing from what is built.
<1>K. ASSUME UNCHANGED <<genVars, refVars, cmd>>, enc = "luks" => enc' = "luks",
             pc # "save",
             Saved' \/ Compared' => Saved \/ Compared,
             Compared' => Compared
      PROVE  /\ Saved' \/ Compared' => Has'
             /\ Compared' => booted' = Target' /\ enc' = "luks"
  <2>1. Target' = Target BY <1>K DEF Target, RefOf, refVars
  <2> QED BY <1>S, <1>I, <1>K, <2>1 DEF genVars, refVars
<1>2. CASE Up
  <2>1. enc = "luks" => enc' = "luks"
    BY <1>2
    DEF Up, UpPlan, UpStart, Creates, UnlockAnswer, UnlockReturns, UnlockFails, StarterWait,
        UpOperator, diskVars
  <2>2. UNCHANGED <<genVars, refVars, cmd>> /\ pc # "save"
    BY <1>2, <1>0, UpMoves DEF UpPcs, Within, Failed, Returned
  <2>3. cmd.name = "bootstrap" => leg # "up" BY DEF CallInv
  <2>4. (Saved' => Saved) /\ (Compared' => Compared)
    BY <1>S, <1>0, <1>2, <2>2, <2>3, UpMoves
    DEF Saved, Compared, UpPcs, StopPcs, Within, Failed, Returned
  <2> QED BY <1>K, <2>1, <2>2, <2>4
<1>3. CASE Stop
  <2>1. UNCHANGED <<genVars, refVars, cmd, enc>> /\ pc # "save"
    BY <1>0, <1>3, StopMoves DEF StopPcs, Within, Failed, IsOff, diskVars
  <2>2. goal # "down" /\ pc # "downCmd" BY <1>S, <2>1 DEF CallInv
  <2>3. (Saved' => Saved) /\ (Compared' => Compared)
    BY <1>0, <1>3, <2>2, StopMoves DEF Saved, Compared, StopPcs, Within, Failed, IsOff
  <2> QED BY <1>K, <2>1, <2>3
<1>4. CASE Bootstrap
  <2>1. UNCHANGED <<cmd, profile, entry, booted, enc>> BY <1>4, BuildMoves
    DEF Within, Failed, diskVars
  <2>2. CASE pc \in {"classify", "lockedRev", "build", "rebuild"} /\ pc' # "save"
    <3>1. leg' = "boot" /\ goal' = "none" /\ said' # "ok" /\ pc' \in {"idle", "lockedRev", "build", "rebuild"}
      BY <1>0, <1>4, <2>2, BuildMoves DEF CallInv, StopPcs, Within, Failed
    <3> QED BY <3>1 DEF Saved, Compared
  <2>3. CASE pc' = "save"
    <3>1. job # None /\ job.at = "built" /\ job' = None /\ left' = left /\ UNCHANGED refVars
      BY <1>4, <2>3, BuildMoves
      DEF Bootstrap, Classify, LockedRev, Rebuild, RebuildEnds, SaveRef, Compare, Rebooted, Goto,
          Fail, End, CallStop
    <3>2. Target' = Target BY <2>1, <3>1 DEF Target, RefOf, refVars
    <3>3. Has' BY <2>1, <2>3, <3>1, <3>2 DEF JobInv
    <3>4. ~Compared'
      BY <1>4, <2>3, BuildMoves DEF Compared, CallInv, StopPcs, Within, Failed
    <3> QED BY <3>3, <3>4
  <2>4. CASE SaveRef
    <3>1. UNCHANGED <<genVars, rev>> /\ refFile' = cmd.ref /\ pc = "save"
      BY <2>4 DEF SaveRef
    <3>2. Target' = Target BY <2>1, <3>1 DEF Target, RefOf
    <3>3. ~Compared' BY <2>4 DEF SaveRef, Goto, Compared, CallInv, StopPcs, callVars
    <3> QED BY <1>S, <1>I, <2>1, <3>1, <3>2, <3>3 DEF Saved, genVars
  <2>5. CASE Compare \/ Rebooted
    <3>1. UNCHANGED <<genVars, refVars, cmd>> /\ pc \in {"compare", "rebooted"}
      BY <2>1, <2>5 DEF Compare, Rebooted
    <3>2. Saved BY <3>1 DEF Saved
    <3>3. Target' = Target BY <3>1 DEF Target, RefOf, refVars
    <3>4. Has' BY <1>S, <1>I, <3>1, <3>2, <3>3 DEF genVars, refVars
    <3>5. Compared' => Compared \/ (vm = "up" /\ profile = booted)
      BY <1>4, <3>1, BuildMoves DEF Compared, Within, Failed
    <3>6. vm = "up" /\ profile = booted => booted = Target /\ enc = "luks"
      <4>1. Has BY <1>S, <1>I, <3>1, <3>2
      <4>2. RefOf(cmd) \in Refs BY <1>0, OwnAssumption DEF Call, Commands, RefOf
      <4>3. Target # Stock BY <4>2, OwnAssumption DEF Target, Stock
      <4> QED BY <4>1, <4>3 DEF EncryptInv
    <3> QED BY <1>S, <1>I, <2>1, <3>1, <3>3, <3>4, <3>5, <3>6
  <2> QED BY <1>4, <2>2, <2>3, <2>4, <2>5 DEF Bootstrap, Classify, LockedRev, Rebuild, RebuildEnds
<1>5. CASE Grow
  <2>1. UNCHANGED <<genVars, refVars, cmd, enc>> /\ pc # "save"
    BY <1>5, GrowMoves DEF GrowPcs, Within, Failed
  <2>2. pc # "growCmd" BY <1>S, <2>1 DEF CallInv
  <2>3. Compared BY <1>5, <2>2, GrowMoves DEF GrowPcs, Compared
  <2> QED BY <1>K, <2>1, <2>3
<1>6. CASE Crash
  <2>1. Failed /\ job' = None /\ (job = None => left' = left)
        /\ UNCHANGED <<profile, entry, booted, refVars, enc>>
    BY <1>6, CrashMoves DEF diskVars
  <2>2. (Saved' => Saved) /\ (Compared' => Compared) BY <2>1 DEF Saved, Compared, Failed
  <2>3. Saved' \/ Compared' => pc # "save" BY <2>1 DEF Saved, Compared, Failed, CallInv
  <2>4. Target' = Target /\ cmd' = cmd BY <2>1 DEF Target, RefOf, refVars, Failed
  <2> QED BY <1>S, <1>I, <2>1, <2>2, <2>3, <2>4 DEF refVars
<1>7. CASE \E c \in Commands : Begin(c)
  <2>1. ~Saved' /\ ~Compared'
    BY <1>S, <1>7, BeginMoves DEF Saved, Compared, CallInv, StopPcs
  <2> QED BY <2>1
<1> QED BY <1>1, <1>2, <1>3, <1>4, <1>5, <1>6, <1>7, Steps

\* A command that says done of a box at its size left no grow short.
LEMMA RerunFillsStep ==
  ASSUME UpInv, Next
  PROVE  RerunFills'
<1> USE DEF RerunFills, Failed, Within
<1>0. /\ TypeOK /\ CallInv /\ EncryptInv /\ FinishInv /\ RerunFills
      /\ Disk /\ Call
  BY Parts DEF UpInv
<1>N. pc # "idle" => said = "none" BY <1>0 DEF CallInv
<1>1. CASE Guest \/ Faults
  <2>1. vm # "encrypting" => UNCHANGED <<enc, fs>>
    BY <1>1
    DEF Guest, Boots, Encrypts, Mounts, ShutsDown, PowersOff, JobRuns, LeftRuns, Faults,
        EncryptFails, VmDies, BranchMoves, StarterEnds, WatchMoves, diskVars
  <2>2. said = "ok" => vm # "encrypting" BY <1>0 DEF EncryptInv
  <2> QED BY <1>0, <1>1, <2>1, <2>2, OutsideMoves DEF CommandKept
<1>2. CASE Up BY <1>0, <1>N, <1>2, UpMoves DEF UpPcs, Returned
<1>3. CASE Stop BY <1>0, <1>N, <1>3, StopMoves DEF StopPcs, IsOff, CallInv
<1>4. CASE Bootstrap BY <1>N, <1>4, BuildMoves DEF BuildPcs
<1>5. CASE Grow
  <2>1. SUFFICES ASSUME said' = "ok" PROVE RerunFills' OBVIOUS
  <2>2. /\ pc \in {"asked", "verify"} /\ UNCHANGED <<ceiling, map, fs, part, enc, cmd, leg>>
        /\ \/ pc = "asked" /\ (cmd.size = 0 \/ cmd.size < ceiling \/ Room = "none")
           \/ pc = "verify"
    BY <1>N, <1>5, <2>1, GrowMoves DEF GrowPcs
  <2>3. ceiling \in Nat /\ part \in Nat /\ map \in Nat /\ fs \in Nat /\ cmd.size \in Nat
    BY <1>0, TopAssumption DEF Disk, Sizes, Call, Commands
  <2>4. CASE pc = "asked"
    <3>1. Room = "none" /\ enc = "luks" => fs = ceiling
      BY <1>0, <2>3 DEF Room, Disk
    <3>2. cmd.size = 0 /\ cmd.size = ceiling => fs = ceiling BY <1>0, <2>3 DEF Disk
    <3> QED BY <2>2, <2>3, <2>4, <3>1, <3>2
  <2>5. CASE pc = "verify"
    BY <1>0, <2>2, <2>5 DEF CallInv, FinishInv
  <2> QED BY <2>2, <2>4, <2>5
<1>6. CASE Crash BY <1>6, CrashMoves
<1>7. CASE \E c \in Commands : Begin(c) BY <1>7, BeginMoves
<1> QED BY <1>1, <1>2, <1>3, <1>4, <1>5, <1>6, <1>7, Steps

-----------------------------------------------------------------------------
(* The invariant.                                                          *)

LEMMA InitUp == Init => UpInv
<1> SUFFICES ASSUME Init PROVE UpInv OBVIOUS
<1>1. Machine BY FaultsAssumption DEF Init, Machine
<1>2. Disk BY TopAssumption DEF Init, Disk, Sizes
<1>3. Gen BY DEF Init, Gen, Gens
<1>4. Call BY TopAssumption DEF Init, Call, Pcs, Commands, Sizes
<1>5. Flags BY DEF Init, Flags
<1>6. TypeOK BY <1>1, <1>2, <1>3, <1>4, <1>5, Parts
<1>7. CallInv /\ EncryptInv /\ RaiseInv
  BY DEF Init, CallInv, EncryptInv, RaiseInv, StopPcs
<1>8. FinishInv /\ JobInv /\ BuiltInv /\ RerunFills
  BY DEF Init, FinishInv, JobInv, BuiltInv, RerunFills
<1> QED BY <1>6, <1>7, <1>8 DEF UpInv

LEMMA NextUp ==
  ASSUME UpInv, Next
  PROVE  UpInv'
<1>1. /\ TypeOK /\ CallInv /\ EncryptInv /\ RaiseInv /\ FinishInv /\ JobInv /\ BuiltInv
      /\ Machine /\ Disk /\ Gen /\ Call /\ Flags
  BY Parts DEF UpInv
<1>2. TypeOK' BY <1>1, MachineStep, DiskStep, GenStep, CallStep, FlagsStep, Parts
<1>3. CallInv' /\ EncryptInv' /\ RaiseInv'
  BY <1>1, CallInvStep, EncryptInvStep, RaiseInvStep
<1>4. FinishInv' /\ JobInv' /\ BuiltInv' /\ RerunFills'
  BY <1>1, FinishInvStep, JobInvStep, BuiltInvStep, RerunFillsStep
<1> QED BY <1>2, <1>3, <1>4 DEF UpInv

LEMMA StutterUp ==
  ASSUME UpInv, UNCHANGED vars
  PROVE  UpInv'
<1> USE DEF vars, diskVars, genVars, refVars, callVars, stopVars
<1>1. Machine' /\ Disk' BY Parts DEF UpInv, Machine, Disk
<1>2. Gen' /\ Call' BY Parts DEF UpInv, Gen, Call
<1>3. Flags' BY Parts DEF UpInv, Flags
<1>4. CallInv' /\ EncryptInv' /\ RaiseInv' /\ FinishInv'
  BY DEF UpInv, CallInv, EncryptInv, RaiseInv, FinishInv
<1>5. JobInv' BY DEF UpInv, JobInv, Target, RefOf
<1>6. BuiltInv' BY DEF UpInv, BuiltInv, Saved, Compared, Target, RefOf
<1>7. RerunFills' BY DEF UpInv, RerunFills
<1> QED BY <1>1, <1>2, <1>3, <1>4, <1>5, <1>6, <1>7, Parts DEF UpInv

LEMMA UpAlways == Spec => []UpInv
<1>1. UpInv /\ [Next]_vars => UpInv' BY NextUp, StutterUp
<1> QED BY InitUp, <1>1, PTL DEF Spec

-----------------------------------------------------------------------------
(* The theorems.                                                           *)

\* No sequence of commands, boots, deaths and moved branches leaves the sizes
\* out of order: a mapping or a filesystem above its partition, a partition
\* above the image.
THEOREM TypeCorrect == Spec => []TypeOK
<1>1. UpInv => TypeOK BY DEF UpInv
<1> QED BY UpAlways, <1>1, PTL

\* No yo stops a box that is encrypting its disk, whatever Lima's start gives up
\* and however often the unlock is lost (LimaDriver.start, cmd_down).
THEOREM EncryptionNotStopped == Spec => []NeverStopsEncrypting
<1>1. UpInv => NeverStopsEncrypting
  BY DEF UpInv, EncryptInv, EncPcs, StopPcs, NeverStopsEncrypting
<1> QED BY UpAlways, <1>1, PTL

\* A bootstrap that says done runs and remembers the very build it printed,
\* whatever earlier bootstraps left running (Rebuild's lock, booted_generations).
THEOREM BootstrapDone == Spec => []BootstrapMeansBuilt
<1>1. UpInv => BootstrapMeansBuilt
  <2> SUFFICES ASSUME UpInv, said = "ok", cmd.name = "bootstrap"
               PROVE  BootstrapMeansBuilt
    BY DEF BootstrapMeansBuilt
  <2>1. Compared BY DEF Compared
  <2>2. pc = "idle" BY DEF UpInv, CallInv
  <2> QED BY <2>1, <2>2 DEF UpInv, BuiltInv, Target, BootstrapMeansBuilt
<1> QED BY UpAlways, <1>1, PTL

\* A `yo up --disk` or a `yo bootstrap --disk` that says done left no earlier
\* grow short (root_has_room_to_grow, finish_previous_grow).
THEOREM RerunFilled == Spec => []RerunFills
<1>1. UpInv => RerunFills BY DEF UpInv
<1> QED BY UpAlways, <1>1, PTL

\* The ceiling, the step that cannot be repeated, moves only on a box whose
\* partition, mapping and filesystem can follow (require_growable_guest).
THEOREM RaisedRight == Spec => RaisedWhereItGrows
<1> DEFINE Raised == ceiling' # ceiling /\ vm # "none" =>
                       vm = "off" /\ enc = "luks" /\ entry # Stock
<1>1. UpInv /\ [Next]_vars => Raised
  <2> SUFFICES ASSUME UpInv, [Next]_vars, ceiling' # ceiling, vm # "none"
               PROVE  vm = "off" /\ enc = "luks" /\ entry # Stock
    OBVIOUS
  <2>1. Next BY DEF vars, diskVars
  <2>2. Call /\ CallInv /\ RaiseInv BY Parts DEF UpInv
  <2>3. ~(Guest \/ Faults) BY OutsideMoves DEF CommandKept
  <2>4. ~Up
    BY DEF Up, UpPlan, UpStart, Creates, Status, UnlockAnswer, UnlockReturns, UnlockFails,
           StarterWait, UpOperator, diskVars
  <2>5. ~Stop /\ ~Bootstrap /\ ~Crash /\ ~\E c \in Commands : Begin(c)
    BY <2>2, StopMoves, BuildMoves, CrashMoves, BeginMoves DEF diskVars
  <2>6. pc = "raise" /\ vm = "off" BY <2>1, <2>3, <2>4, <2>5, Steps, GrowMoves
  <2> QED BY <2>2, <2>6 DEF RaiseInv
<1> QED BY UpAlways, <1>1, PTL DEF Spec, RaisedWhereItGrows

\* A yo that waits for the end of its box says so when the box is off, however
\* late its watcher was (LibvirtDriver.stop).
THEOREM StopSees == Spec => StopSeesOff
<1> DEFINE Seen == vm = "off" /\ pc \in {"read", "line", "last"} /\ pc' = "idle"
                     /\ faults' = faults => said' = "ok"
<1>1. UpInv /\ [Next]_vars => Seen
  <2> SUFFICES ASSUME UpInv, [Next]_vars, vm = "off", pc \in {"read", "line", "last"},
                      pc' = "idle", faults' = faults
               PROVE  said' = "ok"
    OBVIOUS
  <2>1. Next BY DEF vars
  <2>2. Machine /\ Call /\ CallInv BY Parts DEF UpInv
  <2>3. ~(Guest \/ Faults) BY OutsideMoves DEF CommandKept
  <2>4. ~Up /\ ~Bootstrap /\ ~Grow
    BY <2>2, UpMoves, BuildMoves, GrowMoves DEF UpPcs, BuildPcs, GrowPcs
  <2>5. ~Crash BY <2>2, FaultsAssumption DEF Crash, Trouble, Machine
  <2>6. Stop BY <2>1, <2>3, <2>4, <2>5, Steps, BeginMoves
  <2>7. StopRead \/ StopLine \/ StopLast
    BY <2>6 DEF Stop, StopBegin, LimactlStop, StopAsk, Down
  <2>8. goal # "none" BY <2>2 DEF CallInv, StopPcs
  <2> QED BY <2>2, <2>7, <2>8, Offs DEF StopRead, StopLine, StopLast, Goto, IsOff
<1> QED BY UpAlways, <1>1, PTL DEF Spec, StopSeesOff

=============================================================================
