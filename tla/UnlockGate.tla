----------------------------- MODULE UnlockGate -----------------------------
(***************************************************************************)
(* The box's passphrase ask, and who may act on it.                        *)
(*                                                                         *)
(* Several `yo` processes on one host run `yo up` (which answers the ask   *)
(* through a helper started over ssh in the initrd) and `yo down` (which   *)
(* may cut the power of a box parked in its initrd, but only once a probe  *)
(* proved it idle).  They meet at the box's unlock lock.  In the initrd    *)
(* the migration unit encrypts the disk in place before the cryptsetup     *)
(* unit opens it, and the helper may outlive the ssh session, and so the   *)
(* lock, of the yo that started it.                                        *)
(***************************************************************************)
EXTENDS FiniteSets

CONSTANTS
  Yo,              \* the yo processes of the host
  Helpers,         \* slots for yolobox-unlock runs in the initrd
  None,            \* no process
  DropBeforeFifo   \* may a helper outlive its session before its FIFO exists?

ASSUME NoneAssumption == None \notin Yo
ASSUME DropAssumption == DropBeforeFifo \in BOOLEAN

VARIABLES
  vm,          \* "off", "initrd" or "stage2"
  encrypted,   \* the disk carries the finished label
  mig,         \* yolobox-luks-migrate.service
  crypt,       \* systemd-cryptsetup@root.service
  root,        \* sysroot.mount, or the emergency mode its failure leads to
  helper,      \* the yolobox-unlock runs
  lock,        \* holder of <instance>.unlock.lock
  pc,          \* where each yo is
  saw          \* what each `yo down` probe has read so far

initrdVars == <<mig, crypt, root, helper>>
vars == <<vm, encrypted, mig, crypt, root, helper, lock, pc, saw>>

-----------------------------------------------------------------------------
(* The values of the variables.                                            *)

MigStates == {"inactive", "starting", "ask", "write", "done", "failed"}
CryptStates == {"inactive", "ask", "opening", "active", "failed"}
RootStates == {"none", "mounted", "emergency"}

Exits == {"exit0", "exit1", "exit2", "exit5"}
Live == {"key", "ready", "loop"}

UpPcs == {"start", "acquire", "connect", "session", "judge", "operator"}
ProbePcs == {"probe1", "probe2", "probe3"}
DownPcs == ProbePcs \cup {"dlock", "dstop", "kill"}

\* The places at which a yo has the unlock lock in its hands.
Holding == {"connect", "session", "kill"} \cup ProbePcs

Slot == [pc : {"absent", "leftover"} \cup Live \cup Exits,
         by : Yo \cup {None}, fail : BOOLEAN]

NoHelper == [pc |-> "absent", by |-> None, fail |-> FALSE]
Leftover == [pc |-> "leftover", by |-> None, fail |-> FALSE]
NoSight == [mig |-> "unread", fifo |-> FALSE]

TypeOK ==
  /\ vm \in {"off", "initrd", "stage2"}
  /\ encrypted \in BOOLEAN
  /\ mig \in MigStates
  /\ crypt \in CryptStates
  /\ root \in RootStates
  /\ helper \in [Helpers -> Slot]
  /\ lock \in Yo \cup {None}
  /\ pc \in [Yo -> {"idle"} \cup UpPcs \cup DownPcs]
  /\ saw \in [Yo -> [mig : {"unread", "inactive", "activating", "active", "failed"},
                     fifo : BOOLEAN]]

\* What `systemctl is-active` says of the migration unit: the oneshot is
\* "activating" for the whole run of its script.
UnitState(m) ==
  CASE m \in {"starting", "ask", "write"} -> "activating"
    [] m = "done" -> "active"
    [] OTHER -> m

\* The ids of the ask files systemd keeps while somebody waits for an answer.
Asks == {id \in {"migrate", "cryptsetup"} :
           \/ id = "migrate" /\ mig = "ask"
           \/ id = "cryptsetup" /\ crypt = "ask"}

\* The FIFO exists from mkfifo to the helper's EXIT trap, or for good when the
\* helper is killed without running it.
FifoExists == \E h \in Helpers : helper[h].pc \in {"loop", "leftover"}

\* (A mutated form: the helper's FIFO is not looked at.)
ClassifyIgnoringFifo(unit, fifo, asks) ==
  IF unit = "activating" /\ "migrate" \notin asks THEN "MIGRATING"
  ELSE IF unit \in {"activating", "active"} /\ asks # {} THEN "WAITING_FOR_PASSPHRASE"
  ELSE "UNKNOWN"

\* classify_initrd_probe: the verdict on one complete probe.
Classify(unit, fifo, asks) ==
  IF unit = "activating" /\ "migrate" \notin asks THEN "MIGRATING"
  ELSE IF fifo THEN "UNLOCKING"
  ELSE IF unit = "failed" THEN "MIGRATION_FAILED"
  ELSE IF unit \notin {"activating", "active"} THEN "UNKNOWN"
  ELSE IF asks = {} THEN "UNLOCKED_IDLE" ELSE "WAITING_FOR_PASSPHRASE"

-----------------------------------------------------------------------------
Init ==
  /\ vm = "off" /\ encrypted = FALSE
  /\ mig = "inactive" /\ crypt = "inactive" /\ root = "none"
  /\ helper = [h \in Helpers |-> NoHelper]
  /\ lock = None
  /\ pc = [y \in Yo |-> "idle"]
  /\ saw = [y \in Yo |-> NoSight]

Goto(y, there) == pc' = [pc EXCEPT ![y] = there]

\* The state of the initrd is gone: power-off, switch-root or a reset.  An ssh
\* session into it is dead with it, so a probe under way can read no further.
InitrdGone ==
  /\ mig' = "inactive" /\ crypt' = "inactive" /\ root' = "none"
  /\ helper' = [h \in Helpers |-> NoHelper]
  /\ saw' = [y \in Yo |-> NoSight]

\* What becomes of the helper of a yo whose session ends while it runs: it goes
\* on alone, it ends with its EXIT trap, or it is killed and leaves its FIFO.
Detach(y) ==
  \/ (\A h \in Helpers : helper[h].by # y) /\ UNCHANGED helper
  \/ \E h \in Helpers :
       /\ helper[h].by = y
       /\ \/ /\ DropBeforeFifo \/ helper[h].pc \in {"loop"} \cup Exits
             /\ helper' = [helper EXCEPT ![h].by = None]
          \/ helper' = [helper EXCEPT ![h] = NoHelper]
          \/ /\ helper[h].pc = "loop"
             /\ helper' = [helper EXCEPT ![h] = Leftover]

-----------------------------------------------------------------------------
(* The box and its initrd.                                                 *)

\* The migration unit starts once its device exists.
MigStart ==
  /\ vm = "initrd" /\ mig = "inactive"
  /\ mig' = "starting"
  /\ UNCHANGED <<vm, encrypted, crypt, root, helper, lock, pc, saw>>

\* detect_state, then read_key unless the disk already carries the label.
MigDetect ==
  /\ mig = "starting"
  /\ mig' = IF encrypted THEN "done" ELSE "ask"
  /\ UNCHANGED <<vm, encrypted, crypt, root, helper, lock, pc, saw>>

\* The script ends: the label is set, or a step failed.
MigEnd ==
  /\ mig = "write"
  /\ \/ mig' = "done" /\ encrypted' = TRUE
     \/ mig' = "failed" /\ UNCHANGED encrypted
  /\ UNCHANGED <<vm, crypt, root, helper, lock, pc, saw>>

\* requiredBy + before: the cryptsetup unit runs only after a finished migration.
CryptStart ==
  /\ mig = "done" /\ crypt = "inactive"
  /\ crypt' = "ask"
  /\ UNCHANGED <<vm, encrypted, mig, root, helper, lock, pc, saw>>

\* systemd-cryptsetup tried the passphrase it was given.
CryptEnd ==
  /\ crypt = "opening"
  /\ \/ crypt' = "active" /\ UNCHANGED helper
     \/ /\ crypt' = "failed"
        /\ helper' = [h \in Helpers |->
                        IF helper[h].pc \in Live THEN [helper[h] EXCEPT !.fail = TRUE]
                        ELSE helper[h]]
  /\ UNCHANGED <<vm, encrypted, mig, root, lock, pc, saw>>

MountRoot ==
  /\ crypt = "active" /\ root = "none"
  /\ root' \in {"mounted", "emergency"}
  /\ UNCHANGED <<vm, encrypted, mig, crypt, helper, lock, pc, saw>>

SwitchRoot ==
  /\ root = "mounted"
  /\ vm' = "stage2"
  /\ InitrdGone
  /\ UNCHANGED <<encrypted, lock, pc>>

\* The guest reboots itself, or the VM dies (or is powered off by hand).
GuestReboot ==
  /\ vm = "stage2"
  /\ vm' = "initrd"
  /\ UNCHANGED <<encrypted, mig, crypt, root, helper, lock, pc, saw>>

VmDies ==
  /\ vm # "off"
  /\ vm' = "off"
  /\ InitrdGone
  /\ UNCHANGED <<encrypted, lock, pc>>

-----------------------------------------------------------------------------
(* yolobox-unlock, the helper in the initrd.                               *)

\* (A mutated form: the leftover failure stays.)
NoRetry(h) ==
  /\ helper[h].pc = "key"
  /\ helper' = [helper EXCEPT ![h].pc = "ready"]
  /\ UNCHANGED <<vm, encrypted, mig, crypt, root, lock, pc, saw>>

\* retry_failed_unlock: a cryptsetup unit that failed earlier is started again;
\* a failed migration is left alone.
HelperRetry(h) ==
  /\ helper[h].pc = "key"
  /\ helper' = [helper EXCEPT ![h].pc = "ready"]
  /\ crypt' = IF mig # "failed" /\ crypt = "failed" THEN "ask" ELSE crypt
  /\ UNCHANGED <<vm, encrypted, mig, root, lock, pc, saw>>

HelperMkfifo(h) ==
  /\ helper[h].pc = "ready"
  /\ helper' = [helper EXCEPT ![h].pc = "loop"]
  /\ UNCHANGED <<vm, encrypted, mig, crypt, root, lock, pc, saw>>

\* answer_pending: the passphrase goes to every ask there is.
HelperAnswer(h) ==
  /\ helper[h].pc = "loop" /\ Asks # {}
  /\ mig' = IF mig = "ask" THEN "write" ELSE mig
  /\ crypt' = IF crypt = "ask" THEN "opening" ELSE crypt
  /\ UNCHANGED <<vm, encrypted, root, helper, lock, pc, saw>>

\* (A mutated form: an open disk is taken for a booted one.)
VerdictBeforeMount ==
  CASE mig = "failed" -> "exit2"
    [] crypt = "active" -> "exit0"
    [] crypt = "failed" -> "exit1"
    [] OTHER -> "loop"

\* (A mutated form: a failed migration goes unseen.)
VerdictWithoutMigration ==
  CASE crypt = "active" /\ root = "mounted" -> "exit0"
    [] crypt = "active" /\ root = "emergency" -> "exit5"
    [] crypt = "failed" -> "exit1"
    [] OTHER -> "loop"

\* The verdict check_units reaches, "loop" while there is none.  With the disk
\* open it waits for the root mount (wait_for_root_mount).
UnitVerdict ==
  CASE mig = "failed" -> "exit2"
    [] mig # "failed" /\ crypt = "active" /\ root = "mounted" -> "exit0"
    [] mig # "failed" /\ crypt = "active" /\ root = "emergency" -> "exit5"
    [] mig # "failed" /\ crypt = "failed" -> "exit1"
    [] OTHER -> "loop"

HelperCheck(h) ==
  /\ helper[h].pc = "loop" /\ UnitVerdict # "loop"
  /\ helper' = [helper EXCEPT ![h].pc = UnitVerdict]
  /\ UNCHANGED <<vm, encrypted, mig, crypt, root, lock, pc, saw>>

\* A helper nobody listens to any more ends, on its own verdict or on SIGPIPE.
OrphanEnds(h) ==
  /\ helper[h].by = None /\ helper[h].pc \in Live \cup Exits
  /\ \/ helper' = [helper EXCEPT ![h] = NoHelper]
     \/ /\ helper[h].pc = "loop"
        /\ helper' = [helper EXCEPT ![h] = Leftover]
  /\ UNCHANGED <<vm, encrypted, mig, crypt, root, lock, pc, saw>>

-----------------------------------------------------------------------------
(* yo up.                                                                  *)

\* vm_up: a box that is off is started; a running one is judged by boot_stage().
\* A probe may always fail to get through, whatever the box is doing.
UpBegin(y) ==
  /\ pc[y] = "idle"
  /\ \/ vm = "off" /\ Goto(y, "start")
     \/ vm = "initrd" /\ Goto(y, "acquire")
  /\ UNCHANGED <<vm, encrypted, initrdVars, lock, saw>>

\* driver().start(): fails when another yo started the box meanwhile.
UpStart(y) ==
  /\ pc[y] = "start"
  /\ \/ vm = "off" /\ vm' = "initrd" /\ Goto(y, "acquire")
     \/ vm # "off" /\ UNCHANGED vm /\ Goto(y, "idle")
  /\ UNCHANGED <<encrypted, initrdVars, lock, saw>>

\* run_initrd_helper takes the unlock lock, waiting for it.
UpAcquire(y) ==
  /\ pc[y] = "acquire" /\ lock = None
  /\ lock' = y
  /\ Goto(y, "connect")
  /\ UNCHANGED <<vm, encrypted, initrdVars, saw>>

\* The ssh session is up and the helper has the passphrase.
UpConnect(y) ==
  /\ pc[y] = "connect" /\ vm = "initrd"
  /\ \E h \in Helpers :
       /\ helper[h] = NoHelper
       /\ helper' = [helper EXCEPT ![h] = [pc |-> "key", by |-> y, fail |-> FALSE]]
  /\ Goto(y, "session")
  /\ UNCHANGED <<vm, encrypted, mig, crypt, root, lock, saw>>

\* Nothing listening, a refused key, or an ssh failure with no name.
UpConnectFails(y) ==
  /\ pc[y] = "connect"
  /\ lock' = None
  /\ pc' \in {[pc EXCEPT ![y] = "judge"], [pc EXCEPT ![y] = "idle"]}
  /\ UNCHANGED <<vm, encrypted, initrdVars, saw>>

\* The helper ended and its exit code came back: exit 0 is UNLOCKED, anything
\* else raises.
UpSessionEnds(y) ==
  /\ pc[y] = "session"
  /\ \E h \in Helpers :
       /\ helper[h].by = y /\ helper[h].pc \in Exits
       /\ helper' = [helper EXCEPT ![h] = NoHelper]
       /\ Goto(y, IF helper[h].pc = "exit0" THEN "operator" ELSE "idle")
  /\ lock' = None
  /\ UNCHANGED <<vm, encrypted, mig, crypt, root, saw>>

\* The session is lost: the box left its initrd, or the connection dropped.
UpSessionDrops(y) ==
  /\ pc[y] = "session"
  /\ Detach(y)
  /\ lock' = None
  /\ Goto(y, "judge")
  /\ UNCHANGED <<vm, encrypted, mig, crypt, root, saw>>

\* The rest of unlock_disk's loop: stage 2 is up, the box is lost, the deadline
\* has passed, or once more.
UpJudge(y) ==
  /\ pc[y] = "judge"
  /\ \/ vm = "stage2" /\ Goto(y, "operator")
     \/ Goto(y, "idle")
     \/ vm # "off" /\ Goto(y, "acquire")
  /\ UNCHANGED <<vm, encrypted, initrdVars, lock, saw>>

\* wait_for_operator: the operator is in, the VM is gone, or the deadline passed.
UpOperator(y) ==
  /\ pc[y] = "operator"
  /\ Goto(y, "idle")
  /\ UNCHANGED <<vm, encrypted, initrdVars, lock, saw>>

-----------------------------------------------------------------------------
(* yo down.                                                                *)

\* cmd_down reads boot_stage().  A running box may answer nothing (NONE); an
\* UNKNOWN stage refuses at once and leaves no trace.
DownBegin(y) ==
  /\ pc[y] = "idle"
  /\ \/ vm = "initrd" /\ Goto(y, "dlock")
     \/ Goto(y, "dstop")
  /\ UNCHANGED <<vm, encrypted, initrdVars, lock, saw>>

\* driver().stop(): a polite request, which an initrd ignores.
DownStop(y) ==
  /\ pc[y] = "dstop"
  /\ \/ vm = "stage2" /\ vm' = "off"
     \/ UNCHANGED vm
  /\ Goto(y, "idle")
  /\ UNCHANGED <<encrypted, initrdVars, lock, saw>>

\* unlock_lock(wait=False): a held lock refuses.
DownLock(y) ==
  /\ pc[y] = "dlock"
  /\ \/ lock = None /\ lock' = y /\ Goto(y, "probe1")
     \/ lock # None /\ UNCHANGED lock /\ Goto(y, "idle")
  /\ UNCHANGED <<vm, encrypted, initrdVars, saw>>

\* The probe is one shell command, which reads the unit first ...
ProbeUnit(y) ==
  /\ pc[y] = "probe1" /\ vm = "initrd"
  /\ saw' = [saw EXCEPT ![y].mig = UnitState(mig)]
  /\ Goto(y, "probe2")
  /\ UNCHANGED <<vm, encrypted, initrdVars, lock>>

\* ... then the FIFOs ...
ProbeFifos(y) ==
  /\ pc[y] = "probe2" /\ saw[y].mig # "unread"
  /\ saw' = [saw EXCEPT ![y].fifo = FifoExists]
  /\ Goto(y, "probe3")
  /\ UNCHANGED <<vm, encrypted, initrdVars, lock>>

\* ... and the asks last; the verdict decides between the kill and a refusal.
ProbeAsks(y) ==
  /\ pc[y] = "probe3" /\ saw[y].mig # "unread"
  /\ IF Classify(saw[y].mig, saw[y].fifo, Asks) = "WAITING_FOR_PASSPHRASE"
       THEN Goto(y, "kill") /\ UNCHANGED lock
       ELSE Goto(y, "idle") /\ lock' = None
  /\ saw' = [saw EXCEPT ![y] = NoSight]
  /\ UNCHANGED <<vm, encrypted, initrdVars>>

\* The probe's ssh failed: UNKNOWN, and a refusal.
ProbeLost(y) ==
  /\ pc[y] \in ProbePcs
  /\ Goto(y, "idle")
  /\ lock' = None
  /\ saw' = [saw EXCEPT ![y] = NoSight]
  /\ UNCHANGED <<vm, encrypted, initrdVars>>

\* driver().force_stop(), still under the lock: a power cut.
DownKill(y) ==
  /\ pc[y] = "kill"
  /\ vm' = "off"
  /\ InitrdGone
  /\ lock' = None
  /\ Goto(y, "idle")
  /\ UNCHANGED encrypted

-----------------------------------------------------------------------------
\* A yo dies (SIGKILL, ctrl-c): the kernel drops its flock.
Crash(y) ==
  /\ pc[y] # "idle"
  /\ Detach(y)
  /\ lock' = IF lock = y THEN None ELSE lock
  /\ Goto(y, "idle")
  /\ saw' = [saw EXCEPT ![y] = NoSight]
  /\ UNCHANGED <<vm, encrypted, mig, crypt, root>>

Box ==
  \/ MigStart \/ MigDetect \/ MigEnd \/ CryptStart \/ CryptEnd
  \/ MountRoot \/ SwitchRoot \/ GuestReboot \/ VmDies

Helper(h) ==
  HelperRetry(h) \/ HelperMkfifo(h) \/ HelperAnswer(h) \/ HelperCheck(h) \/ OrphanEnds(h)

Up(y) ==
  \/ UpBegin(y) \/ UpStart(y) \/ UpAcquire(y) \/ UpConnect(y) \/ UpConnectFails(y)
  \/ UpSessionEnds(y) \/ UpSessionDrops(y) \/ UpJudge(y) \/ UpOperator(y)

Down(y) ==
  \/ DownBegin(y) \/ DownStop(y) \/ DownLock(y) \/ ProbeUnit(y)
  \/ ProbeFifos(y) \/ ProbeAsks(y) \/ ProbeLost(y) \/ DownKill(y)

Next ==
  \/ Box
  \/ \E h \in Helpers : Helper(h)
  \/ \E y \in Yo : Up(y) \/ Down(y) \/ Crash(y)

Spec == Init /\ [][Next]_vars

\* The units run to an end, the helper reacts to every event, a dead session is
\* noticed (ServerAliveInterval) and a yo that holds the lock keeps running.
\* Nobody has to start a command, reboot, or be unlucky.
Fairness ==
  /\ WF_vars(MigStart) /\ WF_vars(MigDetect) /\ WF_vars(MigEnd)
  /\ WF_vars(CryptStart) /\ WF_vars(CryptEnd)
  /\ WF_vars(MountRoot) /\ WF_vars(SwitchRoot)
  /\ \A h \in Helpers :
       /\ WF_vars(HelperRetry(h)) /\ WF_vars(HelperMkfifo(h))
       /\ WF_vars(HelperAnswer(h)) /\ WF_vars(HelperCheck(h))
  /\ \A y \in Yo :
       /\ WF_vars(UpConnect(y) \/ UpConnectFails(y))
       /\ WF_vars(UpSessionEnds(y))
       /\ WF_vars((\A h \in Helpers : helper[h].by # y) /\ UpSessionDrops(y))
       /\ WF_vars(ProbeUnit(y) \/ ProbeFifos(y) \/ ProbeAsks(y) \/ ProbeLost(y))
       /\ WF_vars(DownKill(y))

LiveSpec == Spec /\ Fairness

-----------------------------------------------------------------------------
(* Properties.                                                             *)

\* `yo down` cuts the power only of a box that is off or waiting for the
\* passphrase: nothing is writing to the disk, and nobody has answered the ask
\* since the probe (unlock.InitrdState, cmd_down, state.unlock_lock).
PowerOffOnlyIdle ==
  \A y \in Yo :
    pc[y] = "kill" =>
      \/ vm = "off"
      \/ vm = "initrd" /\ mig # "write" /\ crypt \in {"inactive", "ask"}

\* A helper that blames the passphrase (exit 1) has seen the cryptsetup unit
\* fail during its own run, never the leftover failure of an earlier attempt
\* (retry_failed_unlock in yolobox-unlock.sh).
WrongKeyIsFresh ==
  \A h \in Helpers : helper[h].pc = "exit1" => helper[h].fail

\* A helper that says "unlocked" (exit 0) is followed by stage 2, unless the VM
\* is lost on the way: it does not take an open disk for a booted one
\* (wait_for_root_mount, check_units).
UnlockedBoots ==
  \A h \in Helpers : helper[h].pc = "exit0" ~> vm \in {"stage2", "off"}

\* No yo keeps the unlock lock for ever, so a `yo up` blocked in flock() is not
\* blocked for good (run_initrd_helper, cmd_down, held_flock).
LockIsReleased ==
  \A y \in Yo : lock = y ~> lock # y
-----------------------------------------------------------------------------
(* The inductive strengthening of the two invariants above.                *)

NoLiveHelper == \A h \in Helpers : helper[h].pc \notin Live

LockInv == \A y \in Yo : pc[y] \in Holding <=> lock = y

\* Outside the initrd nothing of it is left, and its units run in order.
InitrdInv ==
  /\ vm # "initrd" =>
       /\ mig = "inactive" /\ crypt = "inactive" /\ root = "none"
       /\ helper = [h \in Helpers |-> NoHelper]
       /\ saw = [y \in Yo |-> NoSight]
  /\ crypt # "inactive" => mig = "done"
  /\ root # "none" => crypt = "active"

\* A helper with a session belongs to one yo, which is in that session.
OwnerInv ==
  \A h \in Helpers :
    helper[h].by # None =>
      /\ pc[helper[h].by] = "session"
      /\ \A g \in Helpers : helper[g].by = helper[h].by => g = h

\* A helper with no FIFO yet still has its session.
FifoInv ==
  \A h \in Helpers : helper[h].pc \in {"key", "ready"} => helper[h].by # None

\* A probe that saw no FIFO, and the power-off it leads to, meet no live helper.
ProbeInv ==
  \A y \in Yo :
    /\ pc[y] = "probe3" /\ saw[y].mig # "unread" /\ ~saw[y].fifo => NoLiveHelper
    /\ pc[y] = "kill" => NoLiveHelper

GateInv ==
  /\ TypeOK /\ LockInv /\ InitrdInv /\ OwnerInv
  /\ FifoInv /\ ProbeInv /\ PowerOffOnlyIdle

FreshInv ==
  /\ TypeOK /\ InitrdInv /\ WrongKeyIsFresh
  /\ \A h \in Helpers :
       helper[h].pc \in {"ready", "loop"} /\ crypt = "failed" => helper[h].fail
=============================================================================
