------------------------------- MODULE SshPin -------------------------------
(***************************************************************************)
(* The two files that every ssh of yo goes through: the box's ssh.config   *)
(* and its known_hosts.                                                    *)
(*                                                                         *)
(* ssh.config is written by two programs.  The driver writes where the box *)
(* is and turns host-key checking off (Lima at every start, yo itself on   *)
(* libvirt); yo puts a block above it that turns checking on, and does so  *)
(* again before every ssh it runs, by reading the file, building the new   *)
(* text and replacing the file.  known_hosts is filled by `yo up` from an  *)
(* unchecked connection, and by ssh itself (accept-new) when it is empty.  *)
(* At the box's port there are two servers with different keys: the guest  *)
(* and, before the disk is unlocked, its initrd.                           *)
(***************************************************************************)
EXTENDS Naturals

CONSTANTS
  Yo,           \* yo processes
  Ports,        \* host ports a box may get
  MaxBoxes,     \* how often a box is made
  MaxFaults,    \* crashes, reboots and removals behind yo's back
  Overlapping,  \* whether a box is made or removed beside another yo
  None

ASSUME BoundsAssumption == MaxBoxes \in Nat /\ MaxFaults \in Nat /\ Overlapping \in BOOLEAN
ASSUME NoneAssumption == None \notin Ports \cup [part : Ports, own : BOOLEAN]

VARIABLES
  driver,    \* Lima or libvirt
  box,       \* which of the boxes made so far is there, 0 for none
  made,      \* how many were made
  port,      \* the port of the box
  sealed,    \* whether its next boot asks for the passphrase in an initrd
  vm,        \* off, or which sshd answers
  dir,       \* whether the instance directory is there
  file,      \* ssh.config: the driver's part, and whether yo's block is above it
  known,     \* known_hosts, as a set of entries
  outlived,  \* the box went and its directory stayed, and no yo up pinned since
  yo,        \* what each yo does
  faults

boxVars == <<driver, box, made, port, sealed>>
filVars == <<dir, file, known>>
vars == <<boxVars, vm, filVars, outlived, yo, faults>>

-----------------------------------------------------------------------------
Pcs == {"idle", "plan", "define", "config", "boot", "unlock", "known", "read", "write",
        "connect", "pin", "stop", "undefine", "remove"}
Files == [part : Ports, own : BOOLEAN] \cup {None}
InitrdKey == 0       \* made afresh at each boot, and never the guest's
Keys == 0..MaxBoxes

\* A yo: its command, what the ssh it prepares is for, the ssh.config it read and
\* whether the driver wrote it since, the port it pins for, the key it fetched.
Yos ==
  [pc : Pcs, cmd : {"up", "bootstrap", "booted", "command", "destroy"},
   job : {"own", "fetch", "services", "rebuild", "command"},
   seen : Files, old : BOOLEAN, block : Ports \cup {None}, got : Keys]
Idle == [pc |-> "idle", cmd |-> "up", job |-> "own", seen |-> None, old |-> FALSE,
         block |-> None, got |-> 0]

TypeOK ==
  /\ driver \in {"lima", "libvirt"}
  /\ made \in 0..MaxBoxes /\ box \in {0, made}
  /\ port \in Ports
  /\ {sealed, dir, outlived} \subseteq BOOLEAN
  /\ vm \in {"off", "initrd", "stage2"}
  /\ box = 0 => vm = "off"
  /\ file \in Files
  /\ known \subseteq [port : Ports, key : Keys]
  /\ ~dir => file = None /\ known = {}
  /\ yo \in [Yo -> Yos]
  /\ faults \in 0..MaxFaults

Init ==
  /\ driver \in {"lima", "libvirt"}
  /\ box = 0 /\ made = 0 /\ port \in Ports /\ sealed = FALSE /\ vm = "off"
  /\ dir = FALSE /\ file = None /\ known = {} /\ outlived = FALSE
  /\ yo = [y \in Yo |-> Idle]
  /\ faults = 0

-----------------------------------------------------------------------------
Trouble == faults < MaxFaults /\ faults' = faults + 1

At(y, pc) == yo[y].pc = pc
Become(y, r) == yo' = [yo EXCEPT ![y] = r]
Goto(y, pc) == Become(y, [yo[y] EXCEPT !.pc = pc])
Prepare(y, job) == Become(y, [yo[y] EXCEPT !.pc = "read", !.job = job])
End(y) == Become(y, Idle)

\* A box that was made to the end, and a yo that makes, finishes or removes one.
Made == box # 0 /\ file # None /\ file.part = port
Taking(y) ==
  yo[y].pc \in {"undefine", "remove"} \/ (yo[y].pc \in {"define", "config"} /\ ~Made)

Resting(y) == yo[y].pc \in {"idle", "plan"}
Alone(y) == Overlapping \/ \A z \in Yo \ {y} : Resting(z)
NobodyTakes == Overlapping \/ \A y \in Yo : ~Taking(y)

\* destroy holds the unlock lock, and an unlock takes it inside its one step.
LockFree(y) == \A z \in Yo \ {y} : yo[z].pc \notin {"undefine", "remove"}

\* What ssh gets to by the ssh.config that is there now.
Arrives == file # None /\ file.part = port /\ vm # "off"

\* initrd_endpoint: without a file the driver is asked for the port.
ProbeArrives == vm # "off" /\ (file # None => file.part = port)

\* boot_stage tells the two sshds apart over connections that check nothing.  When
\* 1Password has locked both refuse: a stage 2 shows by its banner that it is one, an
\* initrd shows nothing.
BootStage(locked) ==
  CASE ~ProbeArrives -> "none"
    [] ProbeArrives /\ ~locked -> vm
    [] ProbeArrives /\ locked -> IF vm = "stage2" THEN "none" ELSE "unknown"

\* The key of the sshd that answers.
ServerKey == IF vm = "stage2" THEN box ELSE InitrdKey

\* The driver's text, which checks nothing, and what yo makes of a text it read.
DriverConfig(p) == [part |-> p, own |-> FALSE]
WithOwnBlock(f) == [f EXCEPT !.own = TRUE]

-----------------------------------------------------------------------------
(* vm_up.                                                                  *)

\* A box that is off is started; one that runs is told apart first.
UpPlan(y) ==
  /\ At(y, "plan") /\ NobodyTakes
  /\ \/ vm = "off" /\ (Made \/ Alone(y)) /\ Goto(y, "define") /\ UNCHANGED faults
     \/ /\ vm # "off"
        /\ \E locked \in BOOLEAN :
             LET stage == BootStage(locked) IN
             /\ IF locked THEN Trouble ELSE UNCHANGED faults
             /\ \/ stage = "initrd" /\ Goto(y, "unlock")
                \/ stage = "stage2" /\ Prepare(y, "own")
                \/ stage \in {"none", "unknown"} /\ End(y)
  /\ UNCHANGED <<boxVars, vm, filVars, outlived>>

\* A box that is missing is made from the stock image; libvirt gives it a port.
UpDefine(y) ==
  /\ At(y, "define")
  /\ IF box = 0 /\ made = MaxBoxes
     THEN End(y) /\ UNCHANGED dir
     ELSE Goto(y, "config") /\ dir' = TRUE
  /\ IF box = 0 /\ made < MaxBoxes
     THEN /\ made' = made + 1 /\ box' = made + 1 /\ sealed' = FALSE
          /\ IF driver = "libvirt" THEN port' \in Ports ELSE UNCHANGED port
     ELSE UNCHANGED <<made, box, sealed, port>>
  /\ UNCHANGED <<driver, vm, file, known, outlived, faults>>

\* The driver's text replaces the file; who has read it before has read an old one.
WriteConfig(y) ==
  /\ file' = DriverConfig(port)
  /\ yo' = [z \in Yo |->
       IF z = y THEN [yo[z] EXCEPT !.pc = "boot"]
       ELSE [yo[z] EXCEPT !.old = yo[z].pc \in {"write", "connect"}]]

\* (A mutated form: a file that is there is left as it is.)
ConfigOnce(y) ==
  /\ At(y, "config")
  /\ \/ (~dir \/ box = 0) /\ End(y) /\ UNCHANGED file
     \/ dir /\ box # 0 /\ file = None /\ WriteConfig(y)
     \/ dir /\ box # 0 /\ file # None /\ Goto(y, "boot") /\ UNCHANGED file
  /\ UNCHANGED <<boxVars, vm, dir, known, outlived, faults>>

\* Lima writes the file at every start; write_ssh_config only when its own
\* part of it would change.
UpConfig(y) ==
  LET same == driver = "libvirt" /\ file # None /\ file.part = port IN
  /\ At(y, "config")
  /\ \/ (~dir \/ box = 0) /\ End(y) /\ UNCHANGED file
     \/ dir /\ box # 0 /\ ~same /\ WriteConfig(y)
     \/ dir /\ box # 0 /\ same /\ Goto(y, "boot") /\ UNCHANGED file
  /\ UNCHANGED <<boxVars, vm, dir, known, outlived, faults>>

UpBoot(y) ==
  /\ At(y, "boot")
  /\ IF box # 0 /\ vm = "off"
     THEN vm' = (IF sealed THEN "initrd" ELSE "stage2") /\ Goto(y, "unlock")
     ELSE UNCHANGED vm /\ End(y)
  /\ UNCHANGED <<boxVars, filVars, outlived, faults>>

\* unlock_disk and wait_for_operator, over the same unchecked connections.
UpUnlock(y) ==
  /\ At(y, "unlock") /\ LockFree(y)
  /\ IF ProbeArrives THEN vm' = "stage2" /\ Prepare(y, "own")
                     ELSE UNCHANGED vm /\ End(y)
  /\ UNCHANGED <<boxVars, filVars, outlived, faults>>

\* (A mutated form: keys that are there are not fetched again.)
ReadWhenMissing(y) ==
  /\ At(y, "known")
  /\ IF file = None \/ known # {} THEN Prepare(y, "services")
     ELSE Become(y, [yo[y] EXCEPT !.pc = "read", !.job = "fetch", !.block = file.part])
  /\ UNCHANGED <<boxVars, vm, filVars, outlived, faults>>

\* ensure_guest_known_hosts begins with the Host block that it pins the key for.
ReadBlock(y) ==
  /\ At(y, "known")
  /\ IF file = None THEN Prepare(y, "services")
     ELSE Become(y, [yo[y] EXCEPT !.pc = "read", !.job = "fetch", !.block = file.part])
  /\ UNCHANGED <<boxVars, vm, filVars, outlived, faults>>

\* What follows in the command once the key is pinned: bootstrap pins twice.
AfterPin(y) ==
  CASE yo[y].cmd = "booted" -> Become(y, [yo[y] EXCEPT !.pc = "known", !.cmd = "up"])
    [] yo[y].cmd = "bootstrap" -> Prepare(y, "rebuild")
    [] OTHER -> Prepare(y, "services")

\* (A mutated form: the keys are added to what is there.)
PinAppends(y) ==
  /\ At(y, "pin")
  /\ IF dir
     THEN /\ known' = known \cup {[port |-> yo[y].block, key |-> yo[y].got]}
          /\ outlived' = FALSE /\ AfterPin(y)
     ELSE UNCHANGED <<known, outlived>> /\ End(y)
  /\ UNCHANGED <<boxVars, vm, dir, file, faults>>

\* The fetched keys are all that known_hosts holds from now on.
Pin(y) ==
  /\ At(y, "pin")
  /\ IF dir
     THEN /\ known' = {[port |-> yo[y].block, key |-> yo[y].got]}
          /\ outlived' = FALSE /\ AfterPin(y)
     ELSE UNCHANGED <<known, outlived>> /\ End(y)
  /\ UNCHANGED <<boxVars, vm, dir, file, faults>>

\* bootstrap stops the box once the new generation is built.
BootstrapStop(y) ==
  /\ At(y, "stop")
  /\ vm' = "off"
  /\ Become(y, [yo[y] EXCEPT !.pc = "plan", !.cmd = "booted"])
  /\ UNCHANGED <<boxVars, filVars, outlived, faults>>

-----------------------------------------------------------------------------
(* Every ssh that yo runs: ensure_agent_ssh_config, then ssh itself.       *)

EnsureRead(y) ==
  /\ At(y, "read")
  /\ Become(y, [yo[y] EXCEPT !.pc = "write", !.seen = file, !.old = FALSE])
  /\ UNCHANGED <<boxVars, vm, filVars, outlived, faults>>

\* A file that is missing, or has yo's block already, is left alone.
EnsureWrite(y) ==
  LET seen == yo[y].seen
      same == seen # None => seen.own
      after == IF yo[y].job = "own" THEN "known" ELSE "connect" IN
  /\ At(y, "write")
  /\ IF same \/ dir
     THEN /\ file' = IF same THEN file ELSE WithOwnBlock(seen)
          /\ Become(y, [yo[y] EXCEPT !.pc = after, !.seen = None])
     ELSE UNCHANGED file /\ End(y)
  /\ UNCHANGED <<boxVars, vm, dir, known, outlived, faults>>

\* The one role that checks nothing, by its command line: it fetches the keys.
Fetch(y) ==
  /\ At(y, "connect") /\ yo[y].job = "fetch"
  /\ IF Arrives /\ vm = "stage2"
     THEN Become(y, [yo[y] EXCEPT !.pc = "pin", !.got = box])
     ELSE End(y)
  /\ UNCHANGED <<boxVars, vm, filVars, outlived, faults>>

\* accept-new: no entry for the address means that the key is learned.
Entries == {e \in known : e.port = file.part}
Learned == IF Arrives /\ file.own /\ Entries = {}
           THEN {[port |-> file.part, key |-> ServerKey]} ELSE {}
Accepted == file.own => Entries = {} \/ \E e \in Entries : e.key = ServerKey

\* Only stage 2 knows the operator and the agent; the initrd refuses them.
LogsIn == Arrives /\ Accepted /\ vm = "stage2"

\* A bootstrap whose rebuild changed nothing restarts nothing.
Connect(y) ==
  /\ At(y, "connect") /\ yo[y].job # "fetch"
  /\ known' = known \cup Learned
  /\ IF LogsIn /\ yo[y].job = "rebuild"
     THEN /\ sealed' = TRUE
          /\ \/ Goto(y, "stop")
             \/ sealed /\ Become(y, [yo[y] EXCEPT !.pc = "known", !.cmd = "up"])
     ELSE UNCHANGED sealed /\ End(y)
  /\ UNCHANGED <<driver, box, made, port, vm, dir, file, outlived, faults>>

-----------------------------------------------------------------------------
(* yo destroy.                                                             *)

DestroyUndefine(y) ==
  /\ At(y, "undefine")
  /\ box' = 0 /\ vm' = "off" /\ outlived' = dir
  /\ Goto(y, "remove")
  /\ UNCHANGED <<driver, made, port, sealed, filVars, faults>>

\* (A mutated form: the pinned keys stay.)
RemoveKeepingKeys(y) ==
  /\ At(y, "remove")
  /\ dir' = FALSE /\ file' = None /\ outlived' = FALSE
  /\ End(y)
  /\ UNCHANGED <<boxVars, vm, known, faults>>

\* The instance directory goes, with both files.
DestroyRemove(y) ==
  /\ At(y, "remove")
  /\ dir' = FALSE /\ file' = None /\ known' = {} /\ outlived' = FALSE
  /\ End(y)
  /\ UNCHANGED <<boxVars, vm, faults>>

-----------------------------------------------------------------------------
(* What begins, and what happens beside.                                   *)

\* (A mutated form: a command's ssh takes the file as it finds it.)
BeginTrusting(y, c) ==
  /\ At(y, "idle") /\ NobodyTakes
  /\ c = "destroy" => Alone(y) /\ LockFree(y)
  /\ \/ c = "command" /\ Become(y, [yo[y] EXCEPT !.cmd = c, !.pc = "connect", !.job = c])
     \/ c = "destroy" /\ Become(y, [yo[y] EXCEPT !.cmd = c, !.pc = "undefine"])
     \/ c \in {"up", "bootstrap"} /\ Become(y, [yo[y] EXCEPT !.cmd = c, !.pc = "plan"])
  /\ UNCHANGED <<boxVars, vm, filVars, outlived, faults>>

\* A command that logs in prepares its ssh at once.
Begin(y, c) ==
  /\ At(y, "idle") /\ NobodyTakes
  /\ c = "destroy" => Alone(y) /\ LockFree(y)
  /\ \/ c = "command" /\ Become(y, [yo[y] EXCEPT !.cmd = c, !.pc = "read", !.job = c])
     \/ c = "destroy" /\ Become(y, [yo[y] EXCEPT !.cmd = c, !.pc = "undefine"])
     \/ c \in {"up", "bootstrap"} /\ Become(y, [yo[y] EXCEPT !.cmd = c, !.pc = "plan"])
  /\ UNCHANGED <<boxVars, vm, filVars, outlived, faults>>

\* The guest reboots or the box goes off, at any time.
BoxRestarts ==
  /\ vm # "off" /\ Trouble
  /\ vm' \in {"off", IF sealed THEN "initrd" ELSE "stage2"}
  /\ UNCHANGED <<boxVars, filVars, outlived, yo>>

\* The operator removes the domain and its volumes with virsh; the directory stays.
Replaced ==
  /\ driver = "libvirt" /\ box # 0 /\ Trouble
  /\ Overlapping \/ \A y \in Yo : Resting(y)
  /\ box' = 0 /\ vm' = "off" /\ outlived' = TRUE
  /\ UNCHANGED <<driver, made, port, sealed, filVars, yo>>

Crash(y) ==
  /\ ~At(y, "idle") /\ Trouble /\ End(y)
  /\ UNCHANGED <<boxVars, vm, filVars, outlived>>

Step(y) ==
  \/ UpPlan(y) \/ UpDefine(y) \/ UpConfig(y) \/ UpBoot(y) \/ UpUnlock(y)
  \/ EnsureRead(y) \/ EnsureWrite(y) \/ ReadBlock(y) \/ Fetch(y) \/ Pin(y)
  \/ Connect(y) \/ BootstrapStop(y) \/ DestroyUndefine(y) \/ DestroyRemove(y)

Next ==
  \/ \E y \in Yo : Step(y) \/ Crash(y)
                     \/ \E c \in {"up", "bootstrap", "command", "destroy"} : Begin(y, c)
  \/ BoxRestarts \/ Replaced

Spec == Init /\ [][Next]_vars

\* A yo that runs goes on.  An operator whose ssh is refused runs `yo up`, as the
\* message and docs/ssh.md say, whatever else runs beside it.
Fairness ==
  /\ \A y \in Yo : WF_vars(Step(y))
  /\ SF_vars(\E y \in Yo : Begin(y, "up"))

LiveSpec == Spec /\ Fairness

-----------------------------------------------------------------------------
(* Properties.                                                             *)

\* known_hosts holds the key of the guest that is there and nothing else, never
\* one of a box destroyed before it and never an initrd's, unless the directory
\* of an earlier box is still there (ensure_guest_known_hosts, initrd_ssh_argv).
KnowsGuest ==
  box # 0 /\ ~outlived => known \subseteq {[port |-> port, key |-> box]}

\* Whatever the driver does to the file, an ssh that yo prepared logs in without
\* checking the key only if the driver wrote the file after yo had read it for
\* that very ssh (ensure_agent_ssh_config, ssh_options).
CheckedLogins ==
  \A y \in Yo : At(y, "connect") /\ yo[y].job # "fetch" /\ LogsIn => file.own \/ yo[y].old

\* Replacing the whole file to add a block never loses the driver's part, nor
\* brings an older one back: ssh.config leads to a box that runs
\* (lima_part_of, write_ssh_config).
ReachesBox == vm # "off" => file # None /\ file.part = port

\* A box in the directory of an earlier one is refused by every checked ssh, but a yo up
\* learns its key without asking the old one (OPERATOR_FIRST_CONTACT).
Stale == box # 0 /\ \E e \in known : e.port = port /\ e.key # box
UpCures == Stale ~> ~Stale

-----------------------------------------------------------------------------
(* The inductive strengthenings.                                           *)

\* A yo that fetches a key knows the port it does so for.
BlockInv ==
  \A y \in Yo :
    /\ yo[y].job = "fetch" /\ yo[y].pc \in {"read", "write", "connect"} => yo[y].block \in Ports
    /\ At(y, "pin") => yo[y].block \in Ports

\* A yo is about to put its block above the driver's part, or it is there, unless the
\* driver came after what the yo read.
OwnInv ==
  \A y \in Yo :
    /\ At(y, "write") =>
         yo[y].old \/ (yo[y].seen # None /\ ~yo[y].seen.own) \/ (file # None => file.own)
    /\ At(y, "connect") => yo[y].old \/ (file # None => file.own)

\* These hold however yos overlap.
LoginInv == TypeOK /\ BlockInv /\ OwnInv

\* A yo that makes, finishes or removes the box has it to itself.
TakeInv == \A y \in Yo : Taking(y) => \A z \in Yo \ {y} : Resting(z)

\* A box is started only where ssh.config leads.
PlaceInv ==
  /\ vm # "off" => Made
  /\ \A y \in Yo : At(y, "boot") /\ box # 0 => Made
  /\ \A y \in Yo : At(y, "remove") => box = 0

\* What a yo read of the file still leads where the file does.
ReadInv ==
  \A y \in Yo : At(y, "write") /\ yo[y].seen # None => file # None /\ yo[y].seen.part = file.part

\* A yo pins the key of the guest that is there, for the port that it has.
FetchInv ==
  \A y \in Yo :
    /\ yo[y].job = "fetch" /\ yo[y].pc \in {"read", "write", "connect"} =>
         file # None /\ yo[y].block = file.part
    /\ At(y, "pin") => box # 0 /\ yo[y].got = box /\ yo[y].block = port

\* Before a box can ask for a passphrase its guest's key is pinned.
SealInv ==
  /\ \A y \in Yo :
       yo[y].job = "rebuild" /\ yo[y].pc \in {"read", "write", "connect"} => known # {}
  /\ box = 0 /\ ~outlived => known = {}
  /\ vm = "initrd" => sealed
  /\ sealed /\ box # 0 /\ ~outlived => known # {}

PinInv ==
  TypeOK /\ TakeInv /\ PlaceInv /\ ReadInv /\ FetchInv /\ SealInv /\ KnowsGuest
=============================================================================
