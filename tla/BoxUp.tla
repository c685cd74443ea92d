------------------------------- MODULE BoxUp -------------------------------
(***************************************************************************)
(* Bringing one box up, building it and growing its disk: `yo up --disk`,  *)
(* `yo bootstrap`, `yo disk-grow` and `yo down`, over either driver.       *)
(*                                                                         *)
(* A grow takes four steps in four places: the host raises the ceiling of  *)
(* the image, growpart grows the partition at the next boot, and yo, with  *)
(* the passphrase, grows the mapping and the filesystem.  The first cannot *)
(* be repeated, so whatever fails after it must be finished by a rerun.    *)
(* A bootstrap builds a generation in the box, stops the box and starts it *)
(* again; an encrypted generation's first boot encrypts the disk, which on *)
(* Lima may outlast the `limactl start` that runs beside it.               *)
(*                                                                         *)
(* One yo at a time: what several do to each other is in UnlockGate and    *)
(* LibvirtBox.  A yo that dies in a build leaves the build running.        *)
(***************************************************************************)
EXTENDS Naturals

CONSTANTS
  Refs,       \* flake refs a box can be built from
  Own,        \* the one of this yo's release
  Top,        \* the largest size asked for, in steps above 0
  MaxFaults,  \* how often something outside goes wrong
  None

ASSUME OwnAssumption == Own \in Refs /\ None \notin Refs
ASSUME TopAssumption == Top \in Nat \ {0}
ASSUME FaultsAssumption == MaxFaults \in Nat

VARIABLES
  driver,    \* which of the two drivers the host has
  vm,        \* the virtual machine, and how far its boot is
  enc,       \* whether the root partition is encrypted
  ceiling,   \* the disk image's size
  part,      \* the root partition's
  map,       \* the open mapping's
  fs,        \* the filesystem's
  profile,   \* the generation the system profile names
  entry,     \* the one the boot loader starts
  booted,    \* the one that runs
  job,       \* yo's nixos-rebuild
  left,      \* one that a dead yo left behind
  refFile,   \* the remembered flake ref
  tip,       \* the commit each ref names
  rev,       \* the one the command resolved its ref to
  pc,        \* where yo is
  cmd,       \* the command it runs
  leg,       \* which of the command's vm_up calls is under way
  goal,      \* what the box is being stopped for
  starter,   \* the limactl start beside the unlock
  restarted, \* whether Lima's start was already repeated
  migrated,  \* whether the unlock saw the disk being encrypted
  watch,     \* the `virsh event` process
  lines,     \* whether it printed a line not yet read
  before,    \* the filesystem's size before the grow
  said,      \* how the last command ended
  faults     \* what went wrong so far

diskVars == <<ceiling, part, map, fs, enc>>
genVars == <<profile, entry, booted, job, left>>
stopVars == <<watch, lines>>
refVars == <<refFile, tip, rev>>
callVars == <<leg, goal, starter, restarted, migrated, before>>
vars == <<driver, vm, diskVars, genVars, refVars, pc, cmd, callVars, stopVars, said, faults>>

-----------------------------------------------------------------------------
Sizes == 0..Top
Stock == [ref |-> None, rev |-> 0]
Builds == [ref : Refs, rev : 0..1]   \* a branch moves once
Gens == Builds \cup {Stock}
Jobs == [gen : Builds, at : {"build", "install", "built"}]

Commands ==
  {[name |-> "up", size |-> s, ref |-> None] : s \in Sizes}
    \cup {[name |-> "bootstrap", size |-> s, ref |-> r] : s \in Sizes, r \in Refs \cup {None}}
    \cup {[name |-> "grow", size |-> s, ref |-> None] : s \in 1..Top}
    \cup {[name |-> "down", size |-> 0, ref |-> None]}

Running == {"boot", "initrd", "encrypting", "root", "up", "down"}
StopPcs == {"stop", "ask", "read", "line", "last", "limactl"}
UpPcs == {"plan", "start", "unlock", "answered", "starter", "operator"}
BuildPcs == {"classify", "lockedRev", "build", "rebuild", "save", "compare", "rebooted"}
GrowPcs == {"asked", "growCmd", "before", "raise", "finish", "resize", "resize2fs", "verify"}
Pcs == {"idle", "downCmd"} \cup StopPcs \cup UpPcs \cup BuildPcs \cup GrowPcs

TypeOK ==
  /\ driver \in {"lima", "libvirt"}
  /\ vm \in {"none", "off"} \cup Running
  /\ enc \in {"plain", "partial", "luks"}
  /\ {ceiling, part, map, fs, before} \subseteq Sizes
  /\ map <= part /\ fs <= part /\ part <= ceiling
  /\ {profile, entry, booted} \subseteq Gens
  /\ {job, left} \subseteq Jobs \cup {None}
  /\ refFile \in Refs \cup {None}
  /\ tip \in [Refs -> 0..1] /\ rev \in 0..1
  /\ pc \in Pcs
  /\ cmd \in Commands
  /\ leg \in {"up", "boot", "reboot", "grown", "finish"}
  /\ goal \in {"none", "restart", "reboot", "raise", "down"}
  /\ starter \in {"none", "running", "ok", "failed"}
  /\ {restarted, migrated, lines} \subseteq BOOLEAN
  /\ watch \in {"none", "starting", "armed", "over"}
  /\ said \in {"none", "ok", "failed", "rerunUp", "rerunGrow"}
  /\ faults \in 0..MaxFaults

Init ==
  /\ driver \in {"lima", "libvirt"}
  /\ vm = "none" /\ enc = "plain"
  /\ ceiling = 0 /\ part = 0 /\ map = 0 /\ fs = 0
  /\ profile = Stock /\ entry = Stock /\ booted = Stock
  /\ job = None /\ left = None /\ refFile = None
  /\ tip = [r \in Refs |-> 0] /\ rev = 0
  /\ pc = "idle" /\ cmd = [name |-> "down", size |-> 0, ref |-> None]
  /\ leg = "up" /\ goal = "none" /\ starter = "none"
  /\ restarted = FALSE /\ migrated = FALSE
  /\ watch = "none" /\ lines = FALSE
  /\ before = 0 /\ said = "none" /\ faults = 0

-----------------------------------------------------------------------------
\* Something outside goes wrong; each time is counted.
Trouble == faults < MaxFaults /\ faults' = faults + 1

\* The `virsh event` process prints a line once it has registered.
SeesEnd == lines' = (lines \/ watch = "armed")

Goto(there) ==
  /\ pc' = there
  /\ UNCHANGED <<cmd, callVars, stopVars, said>>

\* The command ends; what it called is cleared away.  A build whose connection
\* was lost goes on in the box.
End(out) ==
  /\ pc' = "idle" /\ said' = out
  /\ goal' = "none" /\ starter' = "none"
  /\ restarted' = FALSE /\ migrated' = FALSE
  /\ watch' = "none" /\ lines' = FALSE
  /\ UNCHANGED <<cmd, leg, before>>

\* From the raised ceiling on, every failure names the command that finishes
\* the growing (grow_running_disk).
Fail == End(IF leg = "grown" THEN "rerunGrow" ELSE "failed")

\* The remembered build of a command without --version is this yo's release.
RefOf(c) == IF c.ref = None THEN Own ELSE c.ref

\* vm_status: no box, an off one, or one that runs, whatever runs in it.
Status == CASE vm = "none" -> "missing" [] vm = "off" -> "off" [] OTHER -> "running"

\* A generation with a growpart unit and an encrypted root
\* (require_growable_guest).
Growable == booted # Stock /\ enc = "luks"

-----------------------------------------------------------------------------
(* The virtual machine.                                                    *)

\* The generation in the boot loader starts.  The stock image has no encrypted
\* root to ask for, and fills its disk at its first boot.
Boots ==
  /\ vm = "boot"
  /\ vm' = IF entry = Stock THEN "up" ELSE "initrd"
  /\ booted' = entry
  /\ UNCHANGED <<driver, diskVars, profile, entry, job, left, refVars, pc, cmd, callVars,
                 stopVars, said, faults>>

\* The in-place encryption ends with the filesystem at its full size.
Encrypts ==
  /\ vm = "encrypting"
  /\ vm' = "root" /\ enc' = "luks" /\ map' = part /\ fs' = part
  /\ UNCHANGED <<driver, ceiling, part, genVars, refVars, pc, cmd, callVars, stopVars,
                 said, faults>>

\* It fails; the next helper has the failed units started again.
EncryptFails ==
  /\ vm = "encrypting" /\ Trouble
  /\ vm' = "initrd" /\ enc' = "partial"
  /\ UNCHANGED <<driver, ceiling, part, map, fs, genVars, refVars, pc, cmd, callVars,
                 stopVars, said>>

\* Stage 2, where growpart grows the partition, or does not.
Mounts ==
  /\ vm = "root"
  /\ vm' = "up"
  /\ \/ part' = ceiling /\ UNCHANGED faults
     \/ Trouble /\ UNCHANGED part
  /\ UNCHANGED <<driver, ceiling, map, fs, enc, genVars, refVars, pc, cmd, callVars,
                 stopVars, said>>

\* What ran in the box is gone; a rebuild's ssh ends with it.
PowersOff ==
  /\ vm' = "off" /\ job' = None /\ left' = None
  /\ SeesEnd

ShutsDown ==
  /\ vm = "down"
  /\ PowersOff
  /\ UNCHANGED <<driver, diskVars, profile, entry, booted, refVars, pc, cmd, callVars, watch,
                 said, faults>>

\* A crash of the VM, a power cut, an operator's kill.
VmDies ==
  /\ vm \in Running /\ Trouble
  /\ PowersOff
  /\ enc' = IF vm = "encrypting" THEN "partial" ELSE enc
  /\ UNCHANGED <<driver, ceiling, part, map, fs, profile, entry, booted, refVars, pc, cmd,
                 callVars, watch, said>>

\* nixos-rebuild boot: the profile first, then the boot loader.
Build(j) ==
  CASE j.at = "build" -> [j EXCEPT !.at = "install"]
    [] OTHER -> [j EXCEPT !.at = "built"]

JobRuns ==
  /\ vm = "up" /\ job # None /\ job.at # "built"
  /\ \/ /\ job' = Build(job)
        /\ IF job.at = "build" THEN profile' = job.gen /\ UNCHANGED entry
                               ELSE entry' = job.gen /\ UNCHANGED profile
        /\ UNCHANGED faults
     \/ job' = None /\ Trouble /\ UNCHANGED <<profile, entry>>
  /\ UNCHANGED <<driver, vm, diskVars, booted, left, refVars, pc, cmd, callVars, stopVars, said>>

LeftRuns ==
  /\ vm = "up" /\ left # None
  /\ left' = IF left.at = "build" THEN Build(left) ELSE None
  /\ IF left.at = "build" THEN profile' = left.gen /\ UNCHANGED entry
                          ELSE entry' = left.gen /\ UNCHANGED profile
  /\ UNCHANGED <<driver, vm, diskVars, booted, job, refVars, pc, cmd, callVars, stopVars,
                 said, faults>>

\* A branch moves; a release does not.
BranchMoves ==
  /\ Trouble
  /\ \E r \in Refs \ {Own} : tip[r] = 0 /\ tip' = [tip EXCEPT ![r] = 1]
  /\ UNCHANGED <<driver, vm, diskVars, genVars, refFile, rev, pc, cmd, callVars, stopVars, said>>

Guest == Boots \/ Encrypts \/ Mounts \/ ShutsDown \/ JobRuns \/ LeftRuns

-----------------------------------------------------------------------------
(* limactl start, which runs beside the unlock (LimaDriver.start).         *)

\* It ends once ssh works, or gives up: after ten minutes of an encryption, or
\* because the instance is gone.
StarterEnds ==
  /\ starter = "running"
  /\ \/ vm = "up" /\ starter' = "ok" /\ UNCHANGED faults
     \/ vm \in {"encrypting", "off"} /\ starter' = "failed" /\ UNCHANGED faults
     \/ vm \in {"boot", "root"} /\ Trouble /\ starter' = "failed"
  /\ UNCHANGED <<driver, vm, diskVars, genVars, refVars, pc, cmd, leg, goal, restarted,
                 migrated, before, stopVars, said>>

\* Time: `virsh event` registers late, and gives up after two minutes, which
\* a request and a guest that follows it rarely take.
WatchMoves ==
  /\ \/ watch = "starting" /\ watch' = "armed" /\ UNCHANGED faults
     \/ /\ watch = "armed" /\ watch' = "over"
        /\ IF pc = "ask" \/ vm = "down" THEN Trouble ELSE UNCHANGED faults
  /\ UNCHANGED <<driver, vm, diskVars, genVars, refVars, pc, cmd, callVars, lines, said>>

-----------------------------------------------------------------------------
(* vm_up.                                                                  *)

\* Go into vm_up for the next of the command's legs.
CallUp(l) ==
  /\ pc' = "plan" /\ leg' = l
  /\ UNCHANGED <<cmd, goal, starter, restarted, migrated, before, stopVars, said>>

\* The first leg alone carries the size asked for.
Asked == IF leg \in {"up", "boot"} THEN cmd.size ELSE 0

\* The box is up and answers: on to what the command called vm_up for.
Return ==
  /\ starter' = "none" /\ restarted' = FALSE /\ migrated' = FALSE
  /\ pc' = CASE leg = "up" -> "asked"
             [] leg = "boot" -> "classify"
             [] leg = "reboot" -> "rebooted"
             [] leg = "grown" -> "resize"
             [] leg = "finish" -> "finish"
  /\ UNCHANGED <<cmd, leg, goal, before, stopVars, said>>

\* plan_resize: a box that exists never shrinks, and changes only while off.
Refused ==
  /\ Status # "missing" /\ Asked # 0
  /\ Asked < ceiling \/ (Asked > ceiling /\ Status # "off")

\* What the status and the boot stage say is to be done.
UpPlan ==
  /\ pc = "plan"
  /\ \/ /\ ~Refused /\ Status # "running"
        /\ Goto("start") /\ UNCHANGED faults
     \/ ~Refused /\ vm = "up" /\ Return /\ UNCHANGED faults
     \/ ~Refused /\ vm \in {"initrd", "encrypting"} /\ Goto("unlock") /\ UNCHANGED faults
     \/ (Refused \/ vm \in {"boot", "root", "down"}) /\ Fail /\ UNCHANGED faults
     \/ Trouble /\ Fail
  /\ UNCHANGED <<driver, vm, diskVars, genVars, refVars>>

\* A missing box is created at the size asked for, from the stock image.
Creates ==
  IF Status # "missing" THEN UNCHANGED diskVars ELSE
    LET size == IF Asked = 0 THEN 1 ELSE Asked IN
    /\ ceiling' = size /\ part' = size /\ fs' = size
    /\ UNCHANGED <<map, enc>>

UpStart ==
  /\ pc = "start"
  /\ \/ /\ vm \in {"none", "off"}
        /\ Creates
        /\ vm' = "boot"
        /\ starter' = IF driver = "lima" THEN "running" ELSE "none"
        /\ pc' = "unlock"
        /\ UNCHANGED <<faults, cmd, leg, goal, restarted, migrated, before, stopVars, said>>
     \/ /\ Trouble /\ Fail /\ UNCHANGED <<vm, diskVars>>
  /\ UNCHANGED <<driver, genVars, refVars>>

\* run_initrd_helper: the passphrase is answered, or the helper joins what an
\* earlier answer set off.
UnlockAnswer ==
  /\ pc = "unlock" /\ vm \in {"initrd", "encrypting"}
  /\ vm' = IF enc = "luks" THEN "root" ELSE "encrypting"
  /\ map' = IF enc = "luks" THEN part ELSE map
  /\ enc' = IF enc = "plain" THEN "partial" ELSE enc
  /\ migrated' = (enc # "luks")
  /\ pc' = "answered"
  /\ UNCHANGED <<driver, ceiling, part, fs, genVars, refVars, cmd, leg, goal, starter,
                 restarted, before, stopVars, said, faults>>

\* unlock_disk returns: a session's end says so, or stage 2 answers.  A session
\* that dropped may not have told of the migration.
Unlocked ==
  /\ pc' = IF starter = "none" THEN "operator" ELSE "starter"
  /\ UNCHANGED <<cmd, leg, goal, starter, restarted, before, stopVars, said>>

\* (A mutated form: a limactl start that gave up ends the unlock too.)
ReturnsWithStarter ==
  /\ \/ pc = "answered" /\ (vm \in {"root", "up"} \/ starter = "failed")
     \/ pc = "unlock" /\ vm = "up"
  /\ UNCHANGED migrated
  /\ Unlocked
  /\ UNCHANGED <<driver, vm, diskVars, genVars, refVars, faults>>

UnlockReturns ==
  /\ \/ pc = "answered" /\ vm \in {"root", "up"} /\ UNCHANGED <<migrated, faults>>
     \/ pc = "answered" /\ vm = "up" /\ migrated' = FALSE /\ Trouble
     \/ pc = "unlock" /\ vm = "up" /\ UNCHANGED <<migrated, faults>>
  /\ Unlocked
  /\ UNCHANGED <<driver, vm, diskVars, genVars, refVars>>

\* The helper says that it failed, the starter ended before the initrd was
\* there, or the VM is gone and the deadline passes.
UnlockFails ==
  /\ \/ pc = "answered" /\ vm \in {"off", "initrd"} /\ UNCHANGED faults
     \/ pc = "unlock" /\ (vm = "off" \/ starter = "failed") /\ UNCHANGED faults
     \/ pc \in {"unlock", "answered"} /\ Trouble
  /\ Fail
  /\ UNCHANGED <<driver, vm, diskVars, genVars, refVars>>

\* Lima gave up during an encryption that has ended since: the instance is
\* stopped and started again, once.
StarterWait ==
  /\ pc = "starter"
  /\ \/ starter = "ok" /\ Goto("operator")
     \/ /\ starter = "failed" /\ migrated /\ ~restarted
        /\ pc' = "stop" /\ goal' = "restart" /\ restarted' = TRUE
        /\ UNCHANGED <<cmd, leg, starter, migrated, before, stopVars, said>>
     \/ starter = "failed" /\ ~(migrated /\ ~restarted) /\ Fail
  /\ UNCHANGED <<driver, vm, diskVars, genVars, refVars, faults>>

\* wait_for_operator
UpOperator ==
  /\ pc = "operator"
  /\ \/ vm = "up" /\ Return /\ UNCHANGED faults
     \/ vm \in {"off", "down"} /\ Fail /\ UNCHANGED faults
     \/ Trouble /\ Fail
  /\ UNCHANGED <<driver, vm, diskVars, genVars, refVars>>

Up == UpPlan \/ UpStart \/ UnlockAnswer \/ UnlockReturns \/ UnlockFails
        \/ StarterWait \/ UpOperator

-----------------------------------------------------------------------------
(* The driver's stop.                                                      *)

CallStop(g) ==
  /\ pc' = "stop" /\ goal' = g
  /\ UNCHANGED <<cmd, leg, starter, restarted, migrated, before, stopVars, said>>

\* The box is off: on to what it was stopped for.
Stopped ==
  \/ /\ goal = "down" /\ End("ok")
  \/ /\ goal # "down"
     /\ goal' = "none" /\ watch' = "none" /\ lines' = FALSE
     /\ pc' = CASE goal = "restart" -> "start"
                [] goal = "reboot" -> "plan"
                [] goal = "raise" -> "raise"
     /\ leg' = IF goal = "reboot" THEN "reboot" ELSE leg
     /\ UNCHANGED <<cmd, starter, restarted, migrated, before, said>>

\* A guest in stage 2 takes the request; one in its initrd ignores it.
AskGuest ==
  \/ vm = "up" /\ vm' = "down"
  \/ vm = "root" /\ vm' = "down"
  \/ vm # "up" /\ UNCHANGED vm

StopBegin ==
  /\ pc = "stop"
  /\ \/ vm = "off" /\ Stopped /\ UNCHANGED vm
     \/ /\ vm # "off" /\ driver = "lima" /\ AskGuest /\ Goto("limactl")
     \/ /\ vm # "off" /\ driver = "libvirt" /\ UNCHANGED vm
        /\ watch' = "starting" /\ pc' = "ask"
        /\ UNCHANGED <<cmd, callVars, lines, said>>
  /\ UNCHANGED <<driver, diskVars, genVars, refVars, faults>>

\* limactl stop waits for the end, and yo for limactl up to its timeout.
LimactlStop ==
  /\ pc = "limactl"
  /\ \/ vm = "off" /\ Stopped /\ UNCHANGED faults
     \/ vm \notin {"off", "down"} /\ Fail /\ UNCHANGED faults
     \/ vm = "down" /\ Trouble /\ Fail
  /\ UNCHANGED <<driver, vm, diskVars, genVars, refVars>>

\* The watcher is started before the shutdown is asked for.
StopAsk ==
  /\ pc = "ask"
  /\ AskGuest /\ Goto("read")
  /\ UNCHANGED <<driver, diskVars, genVars, refVars, faults>>

\* The domain's state is the judge; the events only wake the loop.
StopRead ==
  /\ pc = "read"
  /\ \/ vm = "off" /\ Stopped
     \/ vm # "off" /\ Goto("line")
  /\ UNCHANGED <<driver, vm, diskVars, genVars, refVars, faults>>

\* (A mutated form: only a line is waited for.)
LineOnly ==
  /\ pc = "line"
  /\ IF lines THEN lines' = FALSE /\ pc' = "read" ELSE UNCHANGED <<lines, pc>>
  /\ UNCHANGED <<driver, vm, diskVars, genVars, refVars, faults, cmd, callVars, watch, said>>

\* The loop waits for a line, or for the watcher's end.
StopLine ==
  /\ pc = "line"
  /\ \/ /\ lines /\ lines' = FALSE /\ pc' = "read"
        /\ UNCHANGED <<cmd, callVars, watch, said>>
     \/ ~lines /\ watch = "over" /\ Goto("last")
  /\ UNCHANGED <<driver, vm, diskVars, genVars, refVars, faults>>

\* (A mutated form: the end of the stream is taken for the domain's verdict.)
StreamIsVerdict ==
  /\ pc = "last"
  /\ Fail
  /\ UNCHANGED <<driver, vm, diskVars, genVars, refVars, faults>>

\* The stream is over, but the domain may have gone off since the last read.
StopLast ==
  /\ pc = "last"
  /\ \/ vm = "off" /\ Stopped
     \/ vm # "off" /\ Fail
  /\ UNCHANGED <<driver, vm, diskVars, genVars, refVars, faults>>

\* cmd_down: an initrd is powered off only while it waits; what runs is asked.
Down ==
  /\ pc = "downCmd"
  /\ \/ vm = "initrd" /\ vm' = "off" /\ End("ok")
     \/ (Status = "missing" \/ vm = "encrypting") /\ UNCHANGED vm /\ Fail
     \/ Status # "missing" /\ vm \notin {"initrd", "encrypting"} /\ UNCHANGED vm /\ CallStop("down")
  /\ UNCHANGED <<driver, diskVars, genVars, refVars, faults>>

Stop == StopBegin \/ LimactlStop \/ StopAsk \/ StopRead \/ StopLine \/ StopLast \/ Down

-----------------------------------------------------------------------------
(* yo bootstrap.                                                           *)

\* A command run over ssh fails when the box does not answer.
NoSsh == (vm # "up" /\ UNCHANGED faults) \/ Trouble

\* A root that is not encrypted yet must have room for the conversion.
Classify ==
  /\ pc = "classify"
  /\ \/ vm = "up" /\ Goto("lockedRev") /\ UNCHANGED faults
     \/ NoSsh /\ Fail
  /\ UNCHANGED <<driver, vm, diskVars, genVars, refVars>>

\* locked_rev: the commit the ref names now.
LockedRev ==
  /\ pc = "lockedRev"
  /\ \/ vm = "up" /\ rev' = tip[RefOf(cmd)] /\ Goto("build") /\ UNCHANGED faults
     \/ NoSsh /\ Fail /\ UNCHANGED rev
  /\ UNCHANGED <<driver, vm, diskVars, genVars, refFile, tip>>

\* nixos_rebuild_argv builds that very commit.
Pinned == [gen |-> [ref |-> RefOf(cmd), rev |-> rev], at |-> "build"]

\* (A mutated form: nixos-rebuild runs without the lock.)
RebuildUnlocked ==
  /\ pc = "build"
  /\ \/ vm = "up" /\ job' = Pinned /\ Goto("rebuild") /\ UNCHANGED faults
     \/ NoSsh /\ Fail /\ UNCHANGED job
  /\ UNCHANGED <<driver, vm, diskVars, profile, entry, booted, left, refVars>>

\* It runs under the box's rebuild lock, which a build that an earlier bootstrap
\* left behind still holds.
Rebuild ==
  /\ pc = "build"
  /\ \/ vm = "up" /\ left = None /\ job' = Pinned /\ Goto("rebuild") /\ UNCHANGED faults
     \/ left # None /\ Fail /\ UNCHANGED <<job, faults>>
     \/ NoSsh /\ Fail /\ UNCHANGED job
  /\ UNCHANGED <<driver, vm, diskVars, profile, entry, booted, left, refVars>>

\* nixos-rebuild's end; a lost connection leaves it running.
RebuildEnds ==
  /\ pc = "rebuild"
  /\ \/ job # None /\ job.at = "built" /\ Goto("save") /\ UNCHANGED <<left, faults>>
     \/ job = None /\ Fail /\ UNCHANGED <<left, faults>>
     \/ /\ job # None /\ job.at # "built" /\ Trouble
        /\ left' = job /\ Fail
  /\ job' = None
  /\ UNCHANGED <<driver, vm, diskVars, profile, entry, booted, refVars>>

\* Only an explicit --version is remembered; a default one forgets.
SaveRef ==
  /\ pc = "save"
  /\ refFile' = cmd.ref
  /\ Goto("compare")
  /\ UNCHANGED <<driver, vm, diskVars, genVars, tip, rev, faults>>

\* booted_generations: a box that already runs the profile is not restarted.
Compare ==
  /\ pc = "compare"
  /\ \/ vm = "up" /\ profile = booted /\ Goto("asked") /\ UNCHANGED faults
     \/ vm = "up" /\ profile # booted /\ CallStop("reboot") /\ UNCHANGED faults
     \/ NoSsh /\ Fail
  /\ UNCHANGED <<driver, vm, diskVars, genVars, refVars>>

\* After the restart the built generation must be the one that runs.
Rebooted ==
  /\ pc = "rebooted"
  /\ \/ vm = "up" /\ profile = booted /\ Goto("asked") /\ UNCHANGED faults
     \/ vm = "up" /\ profile # booted /\ Fail /\ UNCHANGED faults
     \/ NoSsh /\ Fail
  /\ UNCHANGED <<driver, vm, diskVars, genVars, refVars>>

Bootstrap == Classify \/ LockedRev \/ Rebuild \/ RebuildEnds \/ SaveRef \/ Compare \/ Rebooted

-----------------------------------------------------------------------------
(* Growing the disk.                                                       *)

\* (A mutated form: the partition is not looked at.)
RoomUnderPartition ==
  IF enc # "luks" THEN "none"
  ELSE IF map < part \/ fs < map THEN "room" ELSE "none"

\* root_has_room_to_grow: a partition short of the ceiling is an error.
Room ==
  IF enc # "luks" THEN "none"
  ELSE IF part < ceiling THEN "short"
  ELSE IF map < part \/ fs < map THEN "room" ELSE "none"

\* grow_to_asked_disk, the end of `yo up --disk` and `yo bootstrap --disk`.
GrowAsked ==
  /\ pc = "asked"
  /\ \/ cmd.size = 0 /\ End("ok") /\ UNCHANGED faults
     \/ 0 < cmd.size /\ cmd.size < ceiling /\ End("ok") /\ UNCHANGED faults
     \/ /\ cmd.size = ceiling /\ vm = "up" /\ UNCHANGED faults
        /\ \/ Room = "none" /\ End("ok")
           \/ Room = "short" /\ Fail
           \/ /\ Room = "room"
              /\ pc' = "finish" /\ leg' = "finish"
              /\ UNCHANGED <<cmd, goal, starter, restarted, migrated, before, stopVars, said>>
     \/ /\ cmd.size > ceiling /\ vm = "up" /\ UNCHANGED faults
        /\ \/ Growable /\ Goto("before")
           \/ ~Growable /\ End("rerunGrow")
     \/ cmd.size >= ceiling /\ NoSsh /\ Fail
  /\ UNCHANGED <<driver, vm, diskVars, genVars, refVars>>

\* (A mutated form: the ceiling the box already has is nothing to do.)
GrowOnlyUpwards ==
  /\ pc = "growCmd"
  /\ \/ (vm = "none" \/ cmd.size <= ceiling) /\ Fail /\ UNCHANGED faults
     \/ cmd.size > ceiling /\ vm = "up" /\ Growable /\ Goto("before") /\ UNCHANGED faults
     \/ cmd.size > ceiling /\ vm = "up" /\ ~Growable /\ Fail /\ UNCHANGED faults
     \/ vm # "none" /\ cmd.size > ceiling /\ NoSsh /\ Fail
  /\ UNCHANGED <<driver, vm, diskVars, genVars, refVars>>

\* (A mutated form: whether the guest can grow is not asked.)
GrowUnchecked ==
  /\ pc = "growCmd"
  /\ \/ (vm = "none" \/ cmd.size < ceiling) /\ Fail /\ UNCHANGED faults
     \/ vm # "none" /\ cmd.size = ceiling /\ CallUp("finish") /\ UNCHANGED faults
     \/ cmd.size > ceiling /\ vm = "up" /\ Goto("before") /\ UNCHANGED faults
     \/ vm # "none" /\ cmd.size > ceiling /\ NoSsh /\ Fail
  /\ UNCHANGED <<driver, vm, diskVars, genVars, refVars>>

\* cmd_disk_grow: the ceiling the box already has means finishing a grow.
GrowCmd ==
  /\ pc = "growCmd"
  /\ \/ (Status = "missing" \/ cmd.size < ceiling) /\ Fail /\ UNCHANGED faults
     \/ Status # "missing" /\ cmd.size = ceiling /\ CallUp("finish") /\ UNCHANGED faults
     \/ cmd.size > ceiling /\ vm = "up" /\ Growable /\ Goto("before") /\ UNCHANGED faults
     \/ cmd.size > ceiling /\ vm = "up" /\ ~Growable /\ Fail /\ UNCHANGED faults
     \/ Status # "missing" /\ cmd.size > ceiling /\ NoSsh /\ Fail
  /\ UNCHANGED <<driver, vm, diskVars, genVars, refVars>>

\* guest_root_usage: df's total, or an error that says what df said.
ReadUsage == vm = "up" /\ before' = fs /\ UNCHANGED faults

\* The usage is read while the ceiling can still be left alone.
GrowBefore ==
  /\ pc = "before"
  /\ \/ /\ ReadUsage
        /\ pc' = "stop" /\ goal' = "raise"
        /\ UNCHANGED <<cmd, leg, starter, restarted, migrated, stopVars, said>>
     \/ NoSsh /\ Fail
  /\ UNCHANGED <<driver, vm, diskVars, genVars, refVars>>

\* Driver.grow_disk: only the image of a box that is off is resized.
GrowDisk == Status = "off" /\ ceiling' = cmd.size

Raise ==
  /\ pc = "raise"
  /\ \/ GrowDisk /\ CallUp("grown") /\ UNCHANGED faults
     \/ /\ Status # "off" /\ UNCHANGED <<ceiling, faults>> /\ End("rerunUp")
     \/ Trouble /\ UNCHANGED ceiling /\ End("rerunUp")
  /\ UNCHANGED <<driver, vm, part, map, fs, enc, genVars, refVars>>

\* finish_previous_grow
Finish ==
  /\ pc = "finish"
  /\ \/ /\ Growable /\ ReadUsage
        /\ pc' = "resize"
        /\ UNCHANGED <<cmd, leg, goal, starter, restarted, migrated, stopVars, said>>
     \/ vm = "up" /\ ~Growable /\ Fail /\ UNCHANGED faults
     \/ NoSsh /\ Fail
  /\ UNCHANGED <<driver, vm, diskVars, genVars, refVars>>

\* (A mutated form: the mapping is given the ceiling's size.)
ResizeToCeiling ==
  /\ pc = "resize"
  /\ \/ vm = "up" /\ map' = ceiling /\ Goto("resize2fs") /\ UNCHANGED faults
     \/ NoSsh /\ Fail /\ UNCHANGED map
  /\ UNCHANGED <<driver, vm, ceiling, part, fs, enc, genVars, refVars>>

\* cryptsetup resize, then resize2fs.
Resize ==
  /\ pc = "resize"
  /\ \/ vm = "up" /\ map' = part /\ Goto("resize2fs") /\ UNCHANGED faults
     \/ NoSsh /\ Fail /\ UNCHANGED map
  /\ UNCHANGED <<driver, vm, ceiling, part, fs, enc, genVars, refVars>>

Resize2fs ==
  /\ pc = "resize2fs"
  /\ \/ vm = "up" /\ fs' = map /\ Goto("verify") /\ UNCHANGED faults
     \/ NoSsh /\ Fail /\ UNCHANGED fs
  /\ UNCHANGED <<driver, vm, ceiling, part, map, enc, genVars, refVars>>

\* Grown at all is enough; one that finishes may have nothing left to grow.
Verify ==
  /\ pc = "verify"
  /\ \/ /\ vm = "up" /\ UNCHANGED faults
        /\ IF fs > before \/ (leg = "finish" /\ part = ceiling) THEN End("ok") ELSE Fail
     \/ NoSsh /\ Fail
  /\ UNCHANGED <<driver, vm, diskVars, genVars, refVars>>

Grow == GrowAsked \/ GrowCmd \/ GrowBefore \/ Raise \/ Finish \/ Resize \/ Resize2fs \/ Verify

-----------------------------------------------------------------------------
\* A command begins.
Begin(c) ==
  /\ pc = "idle"
  /\ cmd' = c /\ said' = "none" /\ before' = 0 /\ rev' = 0
  /\ pc' = CASE c.name = "grow" -> "growCmd" [] c.name = "down" -> "downCmd" [] OTHER -> "plan"
  /\ leg' = IF c.name = "bootstrap" THEN "boot" ELSE "up"
  /\ UNCHANGED <<driver, vm, diskVars, genVars, refFile, tip, goal, starter, restarted, migrated,
                 stopVars, faults>>

\* The yo dies.  The build it waits for goes on in the box.
Crash ==
  /\ pc # "idle" /\ Trouble
  /\ End("failed")
  /\ left' = IF job # None /\ job.at # "built" THEN job ELSE left
  /\ job' = None
  /\ UNCHANGED <<driver, vm, diskVars, profile, entry, booted, refVars>>

Next ==
  \/ Guest \/ BranchMoves \/ EncryptFails \/ VmDies \/ StarterEnds \/ WatchMoves
  \/ Up \/ Stop \/ Bootstrap \/ Grow \/ Crash
  \/ \E c \in Commands : Begin(c)

Spec == Init /\ [][Next]_vars

\* The guest, its clocks and a yo that runs go on; nothing makes an operator
\* run a command.
Fairness ==
  /\ WF_vars(Guest) /\ WF_vars(StarterEnds) /\ WF_vars(WatchMoves)
  /\ WF_vars(Up) /\ WF_vars(Stop) /\ WF_vars(Bootstrap) /\ WF_vars(Grow)

\* An operator who, told that a grow is not finished, repeats it when the box
\* is up, off or asking, and restarts the box when that does not help.
Repeats ==
  /\ vm \in {"up", "off", "initrd"}
  /\ Begin([name |-> "grow", size |-> ceiling, ref |-> None])

Restarts == vm = "up" /\ Begin([name |-> "down", size |-> 0, ref |-> None])

Finishes == SF_vars(Repeats) /\ SF_vars(Restarts)

LiveSpec == Spec /\ Fairness /\ Finishes

-----------------------------------------------------------------------------
(* Properties.                                                             *)

\* A bootstrap that says done built the commit it printed, runs it, on an
\* encrypted root, and remembers its ref, however the branch moves meanwhile: no
\* build that an earlier bootstrap left running comes after its own
\* (locked_rev, nixos_rebuild_argv, flake_ref_file).
BootstrapMeansBuilt ==
  said = "ok" /\ cmd.name = "bootstrap" =>
    /\ profile = [ref |-> RefOf(cmd), rev |-> rev] /\ entry = profile /\ enc = "luks"
    /\ vm = "up" => booted = profile
    /\ refFile = cmd.ref

\* yo stops no box that is encrypting its disk: Lima's restart of a start that
\* gave up waits for the encryption's end (LimaDriver.start).
NeverStopsEncrypting == ~(pc \in StopPcs /\ vm = "encrypting")

\* The ceiling of a box is raised only where the partition, the mapping and the
\* filesystem can follow: on a box that is off, with an encrypted root and a
\* generation that has growpart (require_growable_guest, Driver.grow_disk).
RaisedWhereItGrows ==
  [][ceiling' # ceiling /\ vm # "none" =>
       vm = "off" /\ enc = "luks" /\ entry # Stock]_vars

\* A box that went off while yo waited for it is never reported as one that
\* would not stop, however late its watcher was (LibvirtDriver.stop).
StopSeesOff ==
  [][vm = "off" /\ pc \in {"read", "line", "last"} /\ pc' = "idle" /\ faults' = faults
       => said' = "ok"]_vars

\* `yo up --disk N` and `yo bootstrap --disk N` of a box that is at N end well
\* only when the root fills the disk: a partition, a mapping or a filesystem
\* that an earlier grow left short is never a silent success
\* (root_has_room_to_grow).
RerunFills ==
  said = "ok" /\ cmd.name \in {"up", "bootstrap"} /\ cmd.size = ceiling
    /\ leg # "grown" /\ enc = "luks"
  => fs = ceiling

\* Every command ends: neither the watcher that missed the stop, nor the start
\* that Lima gave up, nor a box that dies under an unlock keeps it waiting.
CommandEnds == pc # "idle" ~> pc = "idle"

\* Wherever a grow was cut short after its ceiling moved, repeating it and
\* restarting the box gets the root to fill the disk (cmd_disk_grow).
GrowCompletes == (enc = "luks" /\ fs < ceiling) ~> fs = ceiling

-----------------------------------------------------------------------------
(* The inductive strengthenings.                                           *)

\* What a command and its calls agree on, wherever the command is.
CallInv ==
  /\ pc # "idle" => said = "none"
  /\ goal # "none" <=> pc \in StopPcs
  /\ goal = "down" \/ pc = "downCmd" => cmd.name = "down"
  /\ pc = "growCmd" => cmd.name = "grow"
  /\ cmd.name = "bootstrap" => leg # "up"
  /\ pc \in {"resize", "resize2fs", "verify"} => leg \in {"grown", "finish"}
  /\ pc = "finish" => leg = "finish"
  /\ pc \in {"classify", "lockedRev", "build", "rebuild", "save"} => leg = "boot"

\* A disk is encrypted only where a helper was answered, and its yo died or waits.
EncPcs == {"idle", "downCmd", "growCmd", "plan", "unlock", "answered"}

EncryptInv ==
  /\ vm = "encrypting" => pc \in EncPcs /\ enc = "partial" /\ said # "ok"
  /\ vm = "root" => enc = "luks"
  /\ vm \in {"up", "down"} /\ booted # Stock => enc = "luks"
  /\ booted # Stock => entry # Stock

\* Wherever the ceiling is about to move, it moves up and the rest can follow.
RaiseInv ==
  /\ vm = "none" => ceiling = 0
  /\ pc \in {"before", "raise"} \/ goal = "raise" =>
       ceiling < cmd.size /\ enc = "luks" /\ entry # Stock

\* What `yo up --disk` and `yo bootstrap --disk` finish for an earlier grow.
FinishInv ==
  leg = "finish" /\ cmd.name \in {"up", "bootstrap"} =>
    /\ pc \in {"idle", "finish", "resize", "resize2fs", "verify"}
    /\ pc # "idle" => cmd.size = ceiling /\ part = ceiling /\ vm \in {"up", "down", "off"}
    /\ pc \in {"resize2fs", "verify"} => map = part
    /\ pc = "verify" => fs = map

Target == [ref |-> RefOf(cmd), rev |-> rev]

\* The running rebuild is the command's own, and no other runs beside it.
JobInv ==
  job # None =>
    /\ pc = "rebuild" /\ left = None
    /\ job.gen = Target
    /\ job.at \in {"install", "built"} => profile = job.gen
    /\ job.at = "built" => entry = job.gen

\* From the rebuild's end to the command's, nothing moves the generations again.
Saved == pc \in {"save", "compare", "rebooted"} \/ goal = "reboot" \/ leg = "reboot"
Compared ==
  \/ pc \in {"asked", "before", "raise", "finish", "resize", "resize2fs", "verify"}
  \/ goal = "raise" \/ leg \in {"grown", "finish"} \/ said = "ok"

BuiltInv ==
  cmd.name = "bootstrap" =>
    /\ Saved \/ Compared =>
         /\ profile = Target /\ entry = Target /\ left = None /\ job = None
         /\ pc # "save" => refFile = cmd.ref
    /\ Compared => booted = Target /\ enc = "luks"

UpInv ==
  /\ TypeOK /\ CallInv /\ EncryptInv /\ RaiseInv /\ FinishInv /\ JobInv /\ BuiltInv
  /\ RerunFills
=============================================================================
