# yolobox: a verification project

yolobox runs one NixOS virtual machine per box, by Lima on a Mac or by libvirt
on a Linux PC. The host side is the `yo` command (`src/yolobox_cli/`), the
`aws-broker` daemon (`src/aws-broker`) and a few shell scripts that run in the
guest (`src/nix/`). Nothing coordinates the `yo` processes of one host except
flocks, files, sockets and the state of the machine itself, and any of them may
be killed at any step. This directory holds TLA+ models of the parts where that
is hard, TLC runs that check them on small instances, and proofs, checked by the
TLA+ proof system, for every instance.

`PROJECT.json` lists the components, the runs, the source lines every
definition models (`map`), the mutated forms that show each property can fail,
the hazards, the disagreements found between code and text, and the theorems.
Paths below are relative to `src/`.

## 1. Inventory

| component | state it keeps | operations | meets | modelled by |
|---|---|---|---|---|
| unlock gate: `unlock.py`, `vm.py` `cmd_down`, `state.py` `unlock_lock`, `nix/luks/yolobox-unlock.sh` | `<box>.unlock.lock`; in the initrd: units, passphrase asks, FIFOs | `yo up` answers the ask through a helper over ssh; `yo down` probes and powers off | migration unit, cryptsetup, sshd | `UnlockGate` |
| in-place encryption: `nix/luks/yolobox-luks-migrate.sh`, `nix/luks.nix` | the disk alone | detect, encrypt, resume, finalize | helper's passphrase, e2fsprogs, cryptsetup | `LuksMigrate`, `SealedDisk` |
| aws-broker life cycle: `aws-broker`, `aws.py` | two socket files, `<socket>.lock`, `aws-broker.yo.lock`, the watched pid | start, reclaim, bind, READY, two shutdowns; `yo` checks, kills, starts | the keepalive process of the VM | `AwsBroker` |
| aws-broker serving: `aws-broker` | connections, slots, per-profile lock and credentials, deadline timers | accept, head, `/creds/`, mint, answer, deadline | the guest, the `aws` CLI | `BrokerServe` |
| libvirt box: `libvirt.py`, `vm.py` `cmd_destroy` | domain, disk volume, cidata volume, staged copy | build, sync, define, start, destroy | unlock lock, virsh, qemu | `LibvirtBox`, `BuiltBox`; its stop in `BoxUp` |
| libvirt ports and ssh master: `libvirt.py`, `libvirt_host.py`, `sshx.py` | `port.lock`, `master.lock`, domain XML, control socket | choose a port, ensure and close the master | every other yo and box | `HostPorts`, `PortRegistry` |
| reverse forwards: `forwards.py`, `session.py` | forwards of the ssh master, the guest's socket | probe, cancel, forward again | ssh master | `HostPorts` |
| lima driver: `lima.py` | the instance, limactl's exit | start beside the unlock, restart after a migration | limactl, unlock | `BoxUp` |
| disk growth: `vm.py`, `guest.py` | ceiling, partition, mapping, filesystem | raise, grow each layer, finish an earlier grow | guest over ssh, both drivers | `BoxUp` |
| bootstrap: `vm.py`, `release.py`, `nix/guest/yolobox-guest.sh` | generations, boot entry, remembered ref, the guest's rebuild lock | resolve, rebuild, restart, check | guest over ssh, disk growth | `BoxUp` |
| `yo cp`: `cp.py` | a staging directory beside the destination | list, fetch, drop, plan, land; upload | find and scp in the guest, the host's files | `CopyDown` |
| ssh configuration: `sshconfig.py`, `sshx.py`, `guest.py` | `ssh.config`, `known_hosts` | add yo's block, pin the guest's key, remove | Lima's own writes, accept-new, two sshds | `SshPin` |
| screen recording: `nix/display/yolobox-screen-record.sh` | pid file | start, stop | ffmpeg | not modelled |
| the rest | | | | see section 8 |

What is hard, and what makes each component correct:

* **Unlock gate.** A box in its initrd ignores a polite shutdown, and may be
  encrypting its disk. `yo down` may cut its power only if the migration is not
  running and the passphrase has not been answered; its proof is three reads made
  one after the other, and the answer comes from other `yo`s through a process that
  can survive its ssh session. Correct means: no power cut during an encryption,
  no false "wrong passphrase", no "unlocked" that does not boot, no lock that is
  never let go.
* **In-place encryption.** Power may go between any two commands and inside the
  resizes, every tool may fail, and the next boot has only the disk to see where it
  stopped. Correct means: files are lost at most by a torn shrink before the
  encryption, every block is encrypted or discarded before the label, and every
  state can be gone on from.
* **aws-broker life cycle.** A starting broker removes dead sockets, a dying one its
  own, and a `yo` kills stale ones; three locks cover some of it. Correct means: a
  broker that serves can be reached, an orderly end leaves no socket, and a broker
  dies with its VM.
* **aws-broker serving.** The guest may open connections and withhold bytes at will,
  and a mint may hang. Correct means: what is taken comes back on every path, a
  deadline always ends a connection and never touches another's socket, and queued
  requests do not mint once each.
* **libvirt box.** Volumes and domain are made and removed in steps by processes that
  only the unlock lock orders, and only from the unlock on. Correct means: what
  `disk_volume_finished` and the staged copy say is true, nothing a killed `yo` left
  stops the next, and a box is not taken apart while it is being unlocked.
* **Ports, masters, forwards.** Choosing a free port and taking it are two steps; a
  master is opened by any ssh and stopped by any yo; a forward is healed by several at
  once under no lock. Correct means: a port has one owner, nobody stops a master that
  another opened properly, and a forward is never dead with everybody having said it is
  up.
* **Up, bootstrap, grow.** Each is a row of steps on the host, in libvirt or Lima and in
  a guest that may die, and one of them cannot be repeated. Correct means: an encryption is
  never stopped, a bootstrap that says done runs what it printed, a stop sees the end it
  waits for, and a grow that was cut short can be finished and is not taken for done.
* **`yo cp`.** The guest changes its tree while it is copied, and the host has one of its own.
  Correct means: what lands is what was listed, nothing that a tool of the host would run
  lands, the host's files are kept, and a copy that failed half way can be repeated.
* **ssh configuration.** Two programs write one file, two servers with two keys answer at
  one port, and boxes come and go under one name. Correct means: yo's ssh checks the key of
  the guest that is there, learns no other, and always finds the box.

## 2. Modules

| module | what it is |
|---|---|
| `UnlockGate` | the initrd's units, the helper runs, and any number of `yo up` and `yo down` around one lock |
| `UnlockGateProof` | its theorems |
| `SealedDisk` | abstract: a disk goes from plain through half-encrypted to sealed, and never back |
| `LuksMigrate` | the migration script command by command; `Disk == INSTANCE SealedDisk` is its refinement mapping |
| `LuksMigrateProof` | its theorems, the refinement among them |
| `AwsBroker` | brokers, their socket files, and the yos that start and stop them |
| `BrokerServe` | connections, slots, one profile lock each, and deadline timers of one broker |
| `BrokerProof` | the theorems of both sides of the broker (`BrokerServe` starts its names with `Serve` where `AwsBroker` has the same) |
| `BuiltBox` | abstract: a disk is finished before it gets a domain, and a domain goes before its disk |
| `LibvirtBox` | volumes, domain and staged copy under `yo up` and `yo destroy`; `Box == INSTANCE BuiltBox` |
| `LibvirtBoxProof` | its theorems |
| `PortRegistry` | abstract: a port gets a user in one step, and only while it has none |
| `HostPorts` | ports, ssh masters and reverse forwards of several boxes under several yos |
| `HostPortsProof` | its theorems |
| `BoxUp` | one box and one yo at a time: `yo up`, `bootstrap`, `disk-grow` and `down` over either driver |
| `BoxUpProof` | its theorems |
| `CopyDown` | a `yo cp` in either direction, with the guest changing meanwhile |
| `CopyDownProof` | its theorems |
| `SshPin` | `ssh.config` and `known_hosts` of one box under several yos |
| `SshPinProof` | its theorems |
| `MC*` | the constants and symmetry sets TLC needs |

How they read against the code:

* A variable `pc` (or `bpc`, `ypc`) holds where each process is; a label is the name of
  the next thing it does. One action is the code between two points where another
  process can see or change something: a file, a lock, a unit, a libvirt object. A lock
  that is taken and let go inside one action does not appear.
* Definitions carry the names of the functions they model (`HelperRetry` is
  `retry_failed_unlock`, `Stat` and `Unlink` are the two halves of
  `unlink_if_same_identity`), and `map` gives their lines.
* Messages, wording, timeouts' lengths, key bytes and file contents are left out. A
  timeout is a choice that may be taken once its condition holds.
* A definition that starts with "A mutated form" is not part of any specification: it
  is a plausible bug, and a run that uses it in place of the real definition violates the
  property it is paired with in `PROJECT.json`.

### UnlockGate

`vm`, `mig`, `crypt` and `root` are the machine and its units as `systemctl is-active`
would show them; `encrypted` is the header's label. `helper` has a slot for each run of
`yolobox-unlock`, with the yo whose ssh session it lives in (`by`). `saw` is what a `yo
down` has read so far of its three-part probe. `UpAcquire ... UpJudge` are
`run_initrd_helper` and `unlock_disk`, `DownLock ... DownKill` are `cmd_down`. A crash of a
yo drops its flock (`Crash`) and may leave its helper running (`Detach`).
`unlock_disk`'s repeat budgets and the wait for lima's starter are a choice between going
on and giving up.

### LuksMigrate

Sizes are in blocks of a small device. `plain` is the set of blocks that still hold
plaintext, which makes the alignment, the header room, the offset and the discard's
start checkable. `scratch` is the private mapping of `finalize`; it outlives a failed
run but not a power cut. `HalfResized` is what a resize2fs that was cut short leaves: a
torn filesystem when it shrank, a dirty one when it grew. `FreeSpace` is the operator
deleting files before a retry.

### AwsBroker

`file[p]` is the broker whose socket is at path `p`. A broker's start is the `bpc` chain
from `start` to `serve`; each of the two threads that may shut it down has its own place
in `exit`. `run` numbers the runs of the VM, which stands for the pid of the process that
keeps it up. A `yo` reads that pid and the allow-list of `~/.aws/config` (`want`, `names`) before
it waits for `aws-broker.yo.lock`, as the code does; the file may be another at each `yo`. A broker
serves the list it was started with (`allow`). A broker whose READY nobody reads dies in its `print` and leaves its files
(`PrintReady`). Ids of processes are not reused while something refers to them
(`Recycle`).

### BrokerServe

One broker's guest socket. A connection refused over the bound changes no state, so
`Accept` has no branch for it. The accept loop is one thread: it has one connection at a time in
its hands (`accept`), until a thread takes it over or none can start (`ThreadStarts`,
`ThreadStartFails`). A request for a profile that is not on the allow-list asks for `NoOne`. `fresh` says that a profile's credentials are outside the
remint window, `noted` that `last_mint_attempt` is recent; whether a stale cache is still
served or 500 is returned does not change any state and is left out. `RemintRaises` is
an exception out of `export_credentials`: its comment says it never raises, but only two
of the exceptions of `subprocess.run` are caught. The lock and the slot come back then
too, while `last_mint_attempt` stays unset, so such a failure is not throttled; that is
why `MintsAreThrottled` speaks of attempts that were noted.

### LibvirtBox

`disk` and `cidata` are what the volumes hold, `grown` that the disk volume's capacity is
the finished one, `staged` the key in the staged copy of the cidata, `key` the key the
operator's agent offers now. `made` is whether this `yo up` found no domain. Each virsh
call is a step that may fail, and the `except` clause of `create_volume` is part of the
failing step. `Box == INSTANCE BuiltBox` sees the domain and whether the disk is there and filled
at its full size (`Built`). A domain undefined while it runs becomes `transient`. The domain's XML and
memory are left out; its port is in `HostPorts`, the disk's size and the stop in `BoxUp`.

### HostPorts

`claim[b]` is the port in box `b`'s definition. `master[b]` is the process behind the control
socket: `dead` is one that still answers `ssh -O check` but carries no session, which
`ensure_master` exists for. `via` is a history variable: who opened the master. `fwd` are the
ports a master listens on for `yo port`; they outlive the connection but not the process. `Registry
== INSTANCE PortRegistry` sees of all this the users of each port (`Users`), and nothing of picks and locks.
The reverse forward is `asked` when the master has it on its list and `sock` when the guest has
a socket file, served or stale; `told` is what the last healer said. What other programs of the
host listen on is chosen anew at each probe. A yo that is killed takes the `ssh -O` it runs with
it, or that has finished. `yo`'s XML has no uuid, so of two creations of one box the second to
define its domain is refused by libvirt. A probe of a reverse forward that works may fail all the
same, and its healer then takes it down to issue it again.

### BoxUp

`vm` is the machine and how far its boot is; `ceiling`, `part`, `map` and `fs` are the four
sizes of a grow, the first three each an upper bound of the next. A command goes through the
legs of `vm_up` it calls (`leg`), and `goal` says what a stop is for. `starter` is the
`limactl start` beside the unlock, `watch` and `lines` the `virsh event` process of `stop`.
`profile`, `entry` and `booted` are the generation the system profile names, the one in the boot
loader and the one that runs; `left` is a nixos-rebuild whose yo died. `tip` is the commit a branch
names now, `rev` the one `locked_rev` read. Whatever goes wrong outside (`Trouble`) is counted
against `MaxFaults`. Memory, CPUs, paused domains and several yos at once are left out.

### CopyDown

A path is a sequence of names and a tree a function from paths to kinds; `TreesAssumption` asks of
a tree only that all but its top lies in a directory. `list` and `list2` are the two `find`s in the guest, `whole` and
`walk` the two kinds of fetch. `Target`, `Reached`, `Refused` and `Moved` are what `plan_merge`
decides of an entry. `before` is the destination as the command found it. A link points at a
file and scp follows it. Two sources of one name meet in the staging directory: their directories
merge, and a file on a directory, or a directory on a file, fails the copy (`Fits`, `Laid`). `Jobs`
are the walked directories that `fetch_walked` makes and fills one child at a time, each for every
source it is reached from. Two copies at once, and other programs that change the host's tree, are
left out.

### SshPin

`file` is the part of `ssh.config` that the driver owns, with the port it leads to, and whether
yo's block is above it; `known` is `known_hosts` as a set of addresses and keys. The guest of the
n-th box has key n, an initrd's key is 0. `Read` and `Write` of `ensure_agent_ssh_config` are two
steps, and `old` marks a yo whose read was overtaken by the driver. `outlived` is a history
variable: a box went and its directory stayed. A mux session over a live master checks
nothing and is not an ssh of its own here; the herdr alias is left out.

## 3. Runs

The named
bounds are the constants of each configuration.

| run | instance | states | checks |
|---|---|---|---|
| `unlock_gate` | 2 yos, 2 helper slots | 40,869 | `PowerOffOnlyIdle`, `WrongKeyIsFresh`, `UnlockedBoots`, `LockIsReleased` |
| `luks_migrate` | 17 blocks, header room 2, offset 1, alignment 4, every fill | 2,952 | `DoneMeansSealed`, `ImplementsSealedDisk`, `EventuallySealed` |
| `aws_broker` | 1 yo, 2 brokers, 2 allow-lists, 2 runs of the VM | 418,297 | `ServingIsReachable`, `NoFileLeft`, `EndsWithVm` |
| `broker_serve` | 4 connections, 1 profile, 3 places, 2 slots | 538,392 | `NothingLeaks`, `ShutsOwnSocket`, `MintsAreThrottled`, `ConnectionsEnd` |
| `libvirt_box` | 3 yos, 2 keys | 11,370 | `FinishedIsWhole`, `StartsSynced`, `ImplementsBuiltBox`, `NotDestroyedUnlocking` |
| `host_ports` | 2 yos, 2 boxes, 2 ports | 4,109,413 | `ClaimsApart`, `ImplementsPortRegistry`, `OnlyOutsideMasterDropped`, `NoSilentlyDeadForward` |
| `box_up` | 2 refs, sizes 0 to 2, 2 faults, both drivers | 242,834 | `BootstrapMeansBuilt`, `NeverStopsEncrypting`, `RaisedWhereItGrows`, `StopSeesOff`, `RerunFills`, `CommandEnds`, `GrowCompletes` |
| `copy_down` | every tree over 9 guest and 3 host paths, 4 source lists, 1 change | 2,010,329 | `LandsExactly`, `NoControlLands`, `HalfLandedCanFinish`, `HostKept` |
| `ssh_pin` | 2 yos, 2 boxes, 2 ports, 3 faults, both drivers | 1,207,626 | `KnowsGuest`, `CheckedLogins`, `ReachesBox`, `UpCures` |

The last three also check their module's `TypeOK`; in the other modules it is proved, as are
`NamesAreFree` and `DomainHasDisk`, and left to the proof. Why the bounds are enough:

* `unlock_gate`: the races are between one yo that answers and one that powers off, and a
  second helper slot holds the run an earlier session left. The two invariants are proved
  for any number of both.
* `luks_migrate`: 17 blocks give room for every relation of fill, target, region and
  device, fills too large for the shrink included, and several blocks to encrypt so that
  a resume finds some done. The invariants and the refinement are proved for any sizes.
* `aws_broker`: a yo that dies leaves its broker starting and comes back as another, so one
  yo slot gives two starts at once; two runs of the VM make an old broker stale. Two brokers
  that start beside the socket of a dead third take a third slot: that case is covered by the
  proofs of the two invariants, for any number of yos, brokers and runs. For `EndsWithVm` two
  brokers stand in each other's way in every way a third could.
* `broker_serve`: one more connection than places, one more place than slots, and two
  requests for one profile. Profiles share nothing but the slots. The invariants are proved
  for any number of each.
* `libvirt_box`: one yo that builds or removes, and two that wait for or hold the unlock
  lock. The invariants are proved for any number of yos and keys.
* `host_ports`: the races are of two yos, over one box or two; two ports let both be free,
  one be left, and the window be full. All four properties are proved for any number.
* `box_up`: 2 above the smallest size gives a grow, a grow on top of one that was cut short, and
  a request below the ceiling. Two faults let one step fail and then its rerun, or a build be
  left behind and the next bootstrap meet it. A second ref is what a branch stands for.
  All but the two liveness properties are proved for any refs, sizes and number of faults.
* `copy_down`: a directory with build output, a manifest that may be missing, a control path
  and a fifo, two levels deep, so that output, control and plain entries lie beside and inside each
  other; on the host an absent, a plain, a linked and a directory entry at either level. The
  source lists are one directory, two side by side, one with another inside it, and two of one
  name. One change between any two steps is enough to contradict a listing. All is proved for any
  trees and any number of changes; `LandsExactly` for source lists that meet `OutersFirst`.
* `ssh_pin`: two boxes give an old key and a new one, two ports an old address and a new one; three
  faults let a box be replaced, its next make be cut short, and a box reboot. Two yos are a writer
  and one that read before it. The invariants are proved for any number of each.

Flags restrict a run to part of the behaviour. Each is an assumption that the properties need;
set to TRUE in the configuration, it lets TLC show what happens without it:

| flag | FALSE means | with TRUE |
|---|---|---|
| `DropBeforeFifo` (UnlockGate) | a helper that loses its session has made its FIFO, or ends | `PowerOffOnlyIdle` fails: section 6 |
| `OverlappingExits` (AwsBroker) | SIGTERM and the VM's end do not both shut one broker down | `ServingIsReachable` fails: section 6 |
| `Overlapping` (LibvirtBox) | a yo begins only when no other is building or removing pieces | `FinishedIsWhole` fails: section 6 |
| `CutRebuilds` (LibvirtBox) | a rebuild of the cidata is not killed half way | the run `libvirt_box_cidata` |
| `Overlapping` (SshPin) | a yo that makes a box, finishes one or removes it has it to itself from beginning to end, as has an operator who removes it with virsh | `ReachesBox` and `KnowsGuest` fail: section 6 |

`CHECK_DEADLOCK FALSE` is set for the two runs of `AwsBroker` alone: when the VM has had all its
`MaxRuns` runs and nothing is left over, the model stops.

Three more runs end in a violation: `aws_broker_stale`, `libvirt_box_cidata` and
`copy_down_overlap`, section 6.

## 4. Fairness

* `UnlockGate`: the initrd's units go on, the helper reacts to each event, a yo that holds
  the lock keeps running, and a session whose helper has ended or lost its peer is noticed
  (`ServerAliveInterval` in the ssh options). Nobody has to start a command, answer, or
  reboot. `LockIsReleased` needs no more than that.
* `LuksMigrate`: weak fairness of the script as a whole. That power and tools stop failing,
  that space is freed and that the unit is run again are premises of `EventuallySealed`,
  not fairness.
* `AwsBroker`: a broker's start and its shutdown steps are run by the operating system; the
  start lock is a blocking flock, which is granted in the end to each that waits while
  others come and go (strong fairness of `TakeStartLock`). Nothing is assumed of yos.
* `BrokerServe`: the accept loop, threads and timers run, a mint ends (`MINT_TIMEOUT_SECONDS`), a wait for a
  profile's lock ends (`PROFILE_LOCK_TIMEOUT_SECONDS`). Of the client nothing is assumed: a
  handler leaves `head` or `send` by fairness only once the timer has shut its socket down.
* `BoxUp`: the guest's boot, its jobs and shutdown, Lima's starter and the watcher's clock go on, and
  so does a yo that runs. `CommandEnds` needs no more. `GrowCompletes` is about an operator who
  does as yo says (`Finishes`): told that a grow is not finished, they repeat it, and restart
  the box when that does not help, each time it is possible again and again (strong fairness);
  what goes wrong outside is bounded by `MaxFaults`, so it ends.
* `SshPin`: a yo that runs goes on, and an operator whose ssh is refused runs `yo up` in the
  end, as docs/ssh.md tells them (strong fairness of beginning one).
* `HostPorts` and `CopyDown` have no liveness properties: whatever stops a command there is an
  error it reports.

## 5. What is proved

All theorems hold for every value of the constants allowed by the named assumptions.

* `UnlockGateProof`: `TypeCorrect`; `PowerOffSafe` (`PowerOffOnlyIdle`, assuming
  `~DropBeforeFifo`); `WrongKeyFresh`. `PowerOffOnlyIdle` is not inductive: that the probe
  saw no FIFO must still mean something two steps later. `GateInv` adds that the holder of
  the lock is at one of its places (`LockInv`), that a helper with a session belongs to a yo
  in that session (`OwnerInv`), that a helper without a FIFO still has its session
  (`FifoInv`, where the assumption is used), and so that a probe which saw no FIFO while
  holding the lock meets no live helper until the power-off (`ProbeInv`). `FreshInv` does the
  same for the failure a helper reports.
* `LuksMigrateProof`: `TypeCorrect`, `DoneSealed`, and `Refinement` (`LuksMigrate` implements
  `SealedDisk`). `MigrateInv` says what the disk holds at each step of the script
  (`StepInv`), that plaintext lies only in front of the encrypted blocks or behind the
  filesystem (`PlaintextInv`), what a label implies (`LabelInv`), and that only a disk that
  was never encrypted can be torn (`TornInv`). The refinement proof maps each action to a step of
  `SealedDisk` or a stutter under that invariant.
* `BrokerProof`, life cycle: `TypeCorrect`; `OrderlyEndsClean` (`NoFileLeft`, however shutdowns
  overlap); `ServedAtItsPaths` (`ServingIsReachable`, assuming `~OverlappingExits`).
  `CleanInv` adds which places a broker with a file can be at (`FileInv`) and that a shutdown
  has removed what it is past (`ExitInv`). `ReachInv` adds that the start lock is held exactly
  over the locked part (`StartLockInv`), that what a shutdown is about to unlink is still its
  own (`UnlinkInv`, where the assumption is used), and that what a start is about to reclaim
  is still a dead broker's (`ReclaimInv`).
* `BrokerProof`, serving: `ServeTypeCorrect`, `CountsExact` (`NothingLeaks`), `DeadlineShutsOwn`
  (`ShutsOwnSocket`), `ThrottleHolds` (`MintsAreThrottled`), for a finite set of connections
  (`FiniteAssumption`). `ServeInv` adds that a timer that may still act belongs to a handler
  that is not over, armed on a socket that was open (`TimerInv`) and that a request inside `State.get` holds its profile's
  lock (`MintLockInv`); the bounds of the semaphores then follow from the counts, by the
  cardinality of the set of threads, which each step changes by at most one.
* `LibvirtBoxProof`: `TypeCorrect` and `LockSpansBoth` (`NotDestroyedUnlocking`) whatever
  the flags say, from `StepInv`; `AdoptedIsWhole` (`FinishedIsWhole`), `DomainKeepsDisk`
  (`DomainHasDisk`), `NoNameTaken` (`NamesAreFree`) and `PiecesAsBox` (`ImplementsBuiltBox`:
  `LibvirtBox` implements `BuiltBox`) assuming `~Overlapping`;
  `SyncedAtStart` (`StartsSynced`) assuming `~CutRebuilds` too. `BoxInv` adds that at most
  one yo works on the pieces (`AloneInv`), what the disk is at each step of `yo up`
  (`DiskInv`), and that a domain which is there while a box is destroyed is still on the
  list, before the volumes (`DestroyInv`, with `TodoInv`). A step of the yo that works is
  then checked against its own part alone, the others having none. The refinement needs besides
  that no domain is ever undefined while it runs (`NeverTransient`). `CidataInv` says when
  the staged copy may be trusted.

* `HostPortsProof`: `TypeCorrect`; `BoxesApart` (`ClaimsApart`), `ForwardsApart`
  (`ForwardsOffClaims`) and `PortsAsRegistry` (`ImplementsPortRegistry`: `HostPorts` implements
  `PortRegistry`) from `PortsInv`; `OneUserPerPort`, an invariant of the registry and so of
  `HostPorts`; `OwnMastersKept` (`OnlyOutsideMasterDropped`) from
  `MasterInv`. The types alone are not inductive, since a forward's port must have been picked.
  `PortsInv` adds that a yo between its pick and its taking holds the port lock
  (`PortLockInv`), and that the port it picked is still off every claim and forward
  (`PickInv`); all steps but those of the lock's holder are shown to leave these alone (`Calm`). With
  `PickInv`, `PortSteps` says all that a step may do to claims and forwards, and each of
  the five is one of `PortRegistry` or a stutter.
  `MasterInv` adds that a yo in the locked part holds its box's lock (`MasterLockInv`), and that the
  master it is about to stop was dead when it looked, so that one which works came from
  outside the lock (`ExitInv`, with `ViaInv`). `DeadForwardsTold` (`NoSilentlyDeadForward`) rests
  on `ToldInv`: a forward that was called up and is not up has a heal under way. What takes the
  guest's socket from such a forward is a heal, which is itself under way then and ends with a
  probe or with the word that it is down; or the loss of the master, with which nobody's word counts.

* `BoxUpProof`: `TypeCorrect`, `BootstrapDone` (`BootstrapMeansBuilt`), `EncryptionNotStopped`
  (`NeverStopsEncrypting`), `RerunFilled` (`RerunFills`), and the action properties `RaisedRight`
  (`RaisedWhereItGrows`) and `StopSees` (`StopSeesOff`), for any refs, any finite `Top` and
  `MaxFaults`, all from `UpInv`. Each property speaks of one moment of a command; the invariant
  says what the command relies on until then: which stop belongs to which
  caller (`CallInv`), where an encryption can be running (`EncryptInv`), that a ceiling about to move
  belongs to a box that can follow (`RaiseInv`), what a finished grow still has in front of it
  (`FinishInv`), that the rebuild which runs is the command's own and alone (`JobInv`), and that from
  its end to the bootstrap's end nothing moves profile or boot entry again (`BuiltInv`). A step is
  checked group by group (the guest, faults, the five commands), each against a summary of what
  that group may change.
* `SshPinProof`: `TypeCorrect` and `LoginsChecked` (`CheckedLogins`) for yos that overlap in any
  way, from `LoginInv`: a yo that fetches a key holds a real port (`BlockInv`), and what it is about
  to write into ssh.config, or has written, checks the key unless the driver wrote the file since it
  was read (`OwnInv`). `GuestKnown` (`KnowsGuest`) and `BoxReached` (`ReachesBox`) assume
  `~Overlapping` and come from `PinInv`. `TakeInv` says that a yo
  which makes, finishes or removes the box has it to itself; every other step leaves box, port
  and the file's port alone (`Steady`), so what another yo has read still leads where the file does
  (`ReadInv`). `FetchInv` ties
  the key about to be pinned to the guest that is there; `SealInv` is why an initrd's key is never
  learned: a box can ask for its passphrase only after its guest's key was pinned.
* `CopyDownProof`: for any rooted trees, any sources and any number of changes in the guest,
  `TypeCorrect`, `ControlStaysOut` (`NoControlLands`), the action property `HostIsKept` (`HostKept`)
  and `HalfLandedFinishes` (`HalfLandedCanFinish`); and `CopyIsExact` (`LandsExactly`) for source lists
  that meet `OutersFirst`. `CopyInv` says what no change in the guest can disturb: the staging
  directory is a tree below the sources' names, but for what waits for a walked directory that
  is still to be made (`StagingInv`, `WalkInv`); past `drop` no control path is in it
  (`DropInv`); and a rename that is planned finds a directory to land in and nothing that a file
  may not replace, whichever were done before it (`MovesInv`).
  `ExactCopyInv` adds what a guest that holds still determines: the listings, and with them the
  staging directory at each step, as a set of what each source and each walked directory
  contributes (`ExactInv`). `Expected` is that set in the end, and the lemmas `PieceIsWanted`
  and `WantedIsPiece` are the heart of the proof: what the two kinds of fetch lay down together is what `Wanted`
  says without them. Between two renames, every staged entry has landed or lies in a rename still to
  be done, and the rest of the host is as it was (`LandInv`). A landing that fails half way
  leaves a host on which the same set still meets no obstacle (`Unobstructed`), which is why
  the next one is not refused. `OutersFirst` asks that a source be named before those inside it, and
  that no name between the two be one of build output. Neither can be dropped: `yo cp :p/d :p .` is
  the run `copy_down_overlap`, and with `yo cp :p :p/target .` the path `p/target/node_modules` is the
  first source's, whose search stops at `p/target`, and is copied with the second. TLC checks
  `LandsExactly` under it too: the four source lists of `copy_down` meet it.

Each invariant and each action property of a run that passes is a theorem. Only model-checked are the
liveness properties (`UnlockedBoots`, `LockIsReleased`, `EventuallySealed`, `EndsWithVm`,
`ConnectionsEnd`, `CommandEnds`, `GrowCompletes`, `UpCures`): the prover handles neither fairness nor
ENABLED.

## 6. Disagreements between the code and what is said of it

Each of these is a run that TLC finds violated; `PROJECT.json` quotes the sentence.

* `aws_broker_stale`: the pid that decides what is stale is read before the lock, so a yo that
  waited over a restart of the box stops the healthy broker of the new run.
* `libvirt_box_cidata`: a rebuild of the cidata that is killed leaves the old cache key in
  place beside a volume that no longer matches it.
* `copy_down_overlap`: `yo cp :p/d :p .` brings `p/d/node_modules` to the host, because a
  path that lies in two sources is taken for the first one's only.

These come with an assumption of a passing run, which a reader may lift:

* A helper is invisible to `yo down` before its `mkfifo`. If its session drops there, its yo lets
  the lock go, and it can answer between the proof and the power-off
  (`DropBeforeFifo`), though `unlock_lock` says the answer "can never land between the two".
* The broker's identity check and its unlink are two steps in two threads. When both of
  its shutdowns run, the second thread can unlink the socket of the broker's successor
  (`OverlappingExits`).
* `ssh.config` is read and replaced without a lock. A yo can make the box anew between a destroy's
  `undefine` and its removal of the directory, and the box runs without its file; or an ssh
  prepared before the box was made anew on another port writes the old file back afterwards;
  or the key fetched from a box is pinned when the box has been replaced (`Overlapping` in
  `SshPin`). A box that was made to the end keeps its port, so starts, stops,
  logins and pins overlap freely.
* Two first `yo up` can give an unfilled disk volume the capacity that, for
  `disk_volume_finished`, marks a finished one (`Overlapping` in `LibvirtBox`).

And these were met on the way; no property is about them:

* `plan_merge` says of itself that files replace files and anything else is refused
  (`cp.py:182`); a fifo of the host, or whatever else is neither directory nor link, is replaced by a
  file of the guest like a file (`Moved`, and hence the wording of `HostKept`).
* `helper_failure_message` says "with the plaintext intact" of every failed migration
  (`unlock.py:407`), also of one that failed after it began to encrypt.
* `grow_mapping_and_filesystem` is done when the root grew at all (`vm.py:722`). A grow to 2 whose `cryptsetup
  resize` failed, followed by a grow to 3 whose growpart failed, ends well with a filesystem of 2.
  `RerunFills` holds, because the next `yo up --disk 3` looks at the partition.
* A destroy that is killed between `undefine` and the removal of the directory leaves the old
  box's `known_hosts` for the next one made under that name, which is refused until a `yo up`
  has pinned its key (`UpCures`); docs/ssh.md speaks only of a removed directory.
* `detect_state` takes a `blkid` that fails for a label that is missing, since a failure inside
  `[ ... ]` does not end the script: a finished disk would then be finalized once more
  (`yolobox-luks-migrate.sh:89`). The model's `DetectState` reads the label or fails.
* `export_credentials` never raises, its comment says; but an `OSError` other than the ones
  it catches leaves `_remint_locked` before the attempt is noted, and is not throttled.

With `Overlapping` TRUE the model also shows what `undefine_domain` shortens but does not
close: `yo up` starts the domain before it takes the unlock lock, so it can do so between
`force_stop` and `undefine`, and the destroy goes on to delete the volume of a domain that
runs.

## 7. Plan

What could come next, in order:

1. `ScreenRecord`: the pid file between two callers of `yolobox-screen-record.sh`.
2. The composition of `BoxUp` with `UnlockGate`: several yos of which one bootstraps, with the
   lock that orders their unlocks and the probe of `yo down`.
3. The guest's own rebuild (`yolobox-guest rebuild`) beside a bootstrap, under one lock.
4. The fallback of the egress rule loader.

## 8. Not modelled

* The command line, status and messages (`cli.py`, `status.py`, `ui.py`): parsing and text, without
  state over several steps.
* Key derivation (`agent.py`): a pure function of a signature.
* The host firewall, the libvirt hook and the guest's egress rules: rule sets judged by
  the repository's own packet tests.
* The NixOS configuration: declarative.
* The parsing of `~/.aws/config` and the guest's AWS configuration file: sequential file work. The
  broker's host-only socket runs the same code as the guest's, with its own bound.
