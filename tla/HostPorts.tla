----------------------------- MODULE HostPorts -----------------------------
(***************************************************************************)
(* The ports and the ssh masters of the boxes of one Linux host.           *)
(*                                                                         *)
(* A box claims a host port in its domain's definition; `yo port` has the  *)
(* box's ssh master listen on another.  Every yo picks the lowest port it  *)
(* sees free, so picking and taking are one step under port.lock.  The     *)
(* master is one process per box that any `mux` ssh may open; ensure_master*)
(* checks, drops and opens it under master.lock, which plain mux sessions  *)
(* do not take.  Over the same master the reverse forwards into the guest  *)
(* are healed, by any number of yos and under no lock at all.              *)
(***************************************************************************)
EXTENDS Naturals

CONSTANTS
  Yo,       \* the yo processes of the host
  Boxes,    \* its boxes
  Ports,    \* the window of host ports (host_port_window)
  None      \* no process

ASSUME NoneAssumption == None \notin Yo
ASSUME PortsAssumption == Ports \subseteq Nat \ {0}

VARIABLES
  claim,       \* the host port in each box's domain, 0 without a domain
  master,      \* each box's ssh master process: none, live, or answering but dead
  via,         \* whether it was opened under master.lock or by a plain mux session
  fwd,         \* the ports it listens on for `yo port`
  asked,       \* whether it has the reverse forward on its list
  sock,        \* the guest's end of the reverse forward
  told,        \* what the last yo to heal it said: it is up
  portLock,    \* holder of .port.lock
  masterLock,  \* holder of each box's master.lock
  pc,          \* where each yo is
  box,         \* the box it works on, None between commands
  next,        \* what it does once the master is ensured
  pick         \* the port it has chosen

masterVars == <<master, via, fwd, asked, sock, told>>
vars == <<claim, masterVars, portLock, masterLock, pc, box, next, pick>>

-----------------------------------------------------------------------------
EnsurePcs == {"ensure", "check", "session", "exit", "gone", "open"}
ClosePcs == {"close", "quit", "left"}
PickPcs == {"claimLock", "claimPick", "define", "portLock", "portPick", "forward"}
HealPcs == {"probe", "cancel", "rm", "reissue", "again"}
Pcs == {"idle", "undefine"} \cup EnsurePcs \cup ClosePcs \cup PickPcs \cup HealPcs

\* The places at which a yo has one of the locks in its hands.
PortPcs == {"claimPick", "define", "portPick", "forward"}
MasterPcs == {"check", "session", "exit", "gone", "open", "quit", "left"}

TypeOK ==
  /\ claim \in [Boxes -> Ports \cup {0}]
  /\ master \in [Boxes -> {"none", "live", "dead"}]
  /\ via \in [Boxes -> {"lock", "mux"}]
  /\ fwd \in [Boxes -> SUBSET Ports]
  /\ asked \in [Boxes -> BOOLEAN]
  /\ sock \in [Boxes -> {"none", "stale", "served"}]
  /\ told \in [Boxes -> BOOLEAN]
  /\ portLock \in Yo \cup {None}
  /\ masterLock \in [Boxes -> Yo \cup {None}]
  /\ pc \in [Yo -> Pcs]
  /\ box \in [Yo -> Boxes \cup {None}]
  /\ next \in [Yo -> {"idle", "portLock"}]
  /\ pick \in [Yo -> Ports \cup {0}]

\* What yo's own forwards listen on, as a bind probe finds it.
Forwarded == UNION {fwd[b] : b \in Boxes}

\* (A mutated form: the claims of boxes that are off are not looked at.)
FreeUnlessBound(others) == Ports \ (Forwarded \cup others)

\* The ports that no box claims, in a definition of whatever state, and that
\* nothing listens on (yolobox_domains, loopback_port_bound).
Free(others) == Ports \ ({claim[b] : b \in Boxes} \cup Forwarded \cup others)

\* lowest_free_port
Lowest(p, S) == p \in S /\ \A q \in S : p <= q

Goto(y, there) == pc' = [pc EXCEPT ![y] = there]

Init ==
  /\ claim = [b \in Boxes |-> 0]
  /\ master = [b \in Boxes |-> "none"]
  /\ via = [b \in Boxes |-> "mux"]
  /\ fwd = [b \in Boxes |-> {}]
  /\ asked = [b \in Boxes |-> FALSE]
  /\ sock = [b \in Boxes |-> "none"]
  /\ told = [b \in Boxes |-> FALSE]
  /\ portLock = None
  /\ masterLock = [b \in Boxes |-> None]
  /\ pc = [y \in Yo |-> "idle"]
  /\ box = [y \in Yo |-> None]
  /\ next = [y \in Yo |-> "idle"]
  /\ pick = [y \in Yo |-> 0]

-----------------------------------------------------------------------------
(* The ssh master of a box.                                                *)

\* No process is left: what it listened on is free, and its end of the
\* reverse forward is dead.
MasterGone(b) ==
  /\ master' = [master EXCEPT ![b] = "none"]
  /\ fwd' = [fwd EXCEPT ![b] = {}]
  /\ asked' = [asked EXCEPT ![b] = FALSE]
  /\ sock' = [sock EXCEPT ![b] = IF sock[b] = "served" THEN "stale" ELSE sock[b]]
  /\ told' = [told EXCEPT ![b] = FALSE]
  /\ via' = [via EXCEPT ![b] = "mux"]

\* An ssh with ControlMaster auto and no master to join becomes one.
MasterOpens(b, how) ==
  /\ master' = [master EXCEPT ![b] = "live"]
  /\ via' = [via EXCEPT ![b] = how]
  /\ UNCHANGED <<fwd, asked, sock, told>>

\* The box goes down or the connection is lost; a box that came back has no
\* socket left.
ConnectionLost(b) ==
  /\ master[b] = "live"
  /\ master' = [master EXCEPT ![b] = "dead"]
  /\ \/ sock' = [sock EXCEPT ![b] = "none"]
     \/ sock' = [sock EXCEPT ![b] = IF sock[b] = "served" THEN "stale" ELSE sock[b]]
  /\ told' = [told EXCEPT ![b] = FALSE]
  /\ UNCHANGED <<claim, via, fwd, asked, portLock, masterLock, pc, box, next, pick>>

\* ssh notices that its connection is dead.
MasterQuits(b) ==
  /\ master[b] = "dead"
  /\ MasterGone(b)
  /\ UNCHANGED <<claim, portLock, masterLock, pc, box, next, pick>>

\* Any mux session of any yo (nixos-rebuild, yolobox-guest) opens a master.
MuxSession(b) ==
  /\ master[b] = "none"
  /\ MasterOpens(b, "mux")
  /\ UNCHANGED <<claim, portLock, masterLock, pc, box, next, pick>>

-----------------------------------------------------------------------------
(* A yo begins: yo up of a box without a domain, yo port, a command that   *)
(* needs the master's pid, one that heals, yo destroy.                     *)

Begin(y) ==
  /\ pc[y] = "idle"
  /\ \E b \in Boxes :
       /\ box' = [box EXCEPT ![y] = b]
       /\ \/ claim[b] = 0 /\ Goto(y, "claimLock") /\ UNCHANGED next
          \/ /\ Goto(y, "ensure")
             /\ \E after \in {"idle", "portLock"} : next' = [next EXCEPT ![y] = after]
          \/ Goto(y, "probe") /\ UNCHANGED next
          \/ /\ claim[b] # 0 /\ UNCHANGED next
             /\ Goto(y, IF master[b] = "none" THEN "undefine" ELSE "close")
  /\ UNCHANGED <<claim, masterVars, portLock, masterLock, pick>>

\* The command is done or fails: the locks it holds are let go.
Done(y) ==
  /\ Goto(y, "idle")
  /\ portLock' = IF portLock = y THEN None ELSE portLock
  /\ masterLock' = [b \in Boxes |-> IF masterLock[b] = y THEN None ELSE masterLock[b]]
  /\ box' = [box EXCEPT ![y] = None]
  /\ next' = [next EXCEPT ![y] = "idle"]
  /\ pick' = [pick EXCEPT ![y] = 0]

-----------------------------------------------------------------------------
(* Choosing a port (create_domain, forward_port).                          *)

\* (A mutated form: the lock is not waited for.)
PickWithoutLock(y, here, there) ==
  /\ pc[y] = here
  /\ portLock' = y
  /\ Goto(y, there)
  /\ UNCHANGED <<claim, masterVars, masterLock, box, next, pick>>

PickLock(y, here, there) ==
  /\ pc[y] = here /\ portLock = None
  /\ portLock' = y
  /\ Goto(y, there)
  /\ UNCHANGED <<claim, masterVars, masterLock, box, next, pick>>

\* Every claim is read and every port probed, while other programs listen
\* where they like; the lowest port that is free, or the refusal.
PickPort(y, here, there) ==
  /\ pc[y] = here
  /\ \E others \in SUBSET Ports :
       \/ /\ \E p \in Free(others) :
               Lowest(p, Free(others)) /\ pick' = [pick EXCEPT ![y] = p]
          /\ Goto(y, there)
          /\ UNCHANGED <<portLock, masterLock, box, next>>
       \/ Free(others) = {} /\ Done(y)
  /\ UNCHANGED <<claim, masterVars>>

\* virsh define, of a definition without a uuid: where another yo has defined
\* the box's domain meanwhile, it fails.
Define(y) ==
  /\ pc[y] = "define"
  /\ \/ claim[box[y]] = 0 /\ claim' = [claim EXCEPT ![box[y]] = pick[y]]
     \/ claim[box[y]] # 0 /\ UNCHANGED claim
  /\ Done(y)
  /\ UNCHANGED masterVars

\* ssh -O forward -L: the master process listens, whatever became of its
\* connection; without a master, or on a port bound since, it fails.
Forward(y) ==
  /\ pc[y] = "forward"
  /\ \/ /\ master[box[y]] # "none" /\ pick[y] \notin Forwarded
        /\ fwd' = [fwd EXCEPT ![box[y]] = @ \cup {pick[y]}]
     \/ UNCHANGED fwd
  /\ Done(y)
  /\ UNCHANGED <<claim, master, via, asked, sock, told>>

-----------------------------------------------------------------------------
(* ensure_master.                                                          *)

\* (A mutated form: the check, the drop and the opening take no lock.)
EnsureWithoutLock(y) ==
  /\ pc[y] = "ensure"
  /\ Goto(y, "check")
  /\ UNCHANGED <<claim, masterVars, portLock, masterLock, box, next, pick>>

EnsureLock(y) ==
  /\ pc[y] = "ensure" /\ masterLock[box[y]] = None
  /\ masterLock' = [masterLock EXCEPT ![box[y]] = y]
  /\ Goto(y, "check")
  /\ UNCHANGED <<claim, masterVars, portLock, box, next, pick>>

\* master_alive: ssh -O check, answered by a dead one too.
EnsureCheck(y) ==
  /\ pc[y] = "check"
  /\ Goto(y, IF master[box[y]] = "none" THEN "open" ELSE "session")
  /\ UNCHANGED <<claim, masterVars, portLock, masterLock, box, next, pick>>

\* The master is there: let the lock go and go on with the command.
Ensured(y) ==
  /\ \/ next[y] = "idle" /\ Done(y)
     \/ /\ next[y] # "idle" /\ Goto(y, next[y])
        /\ masterLock' = [masterLock EXCEPT ![box[y]] = None]
        /\ UNCHANGED <<portLock, box, next, pick>>
  /\ UNCHANGED claim

\* A session proves the connection; with no master left it opens one itself.
EnsureSession(y) ==
  /\ pc[y] = "session"
  /\ \/ master[box[y]] = "live" /\ UNCHANGED masterVars /\ Ensured(y)
     \/ master[box[y]] = "none" /\ MasterOpens(box[y], "lock") /\ Ensured(y)
     \/ /\ master[box[y]] # "live"
        /\ Goto(y, "exit")
        /\ UNCHANGED <<claim, masterVars, portLock, masterLock, box, next, pick>>

\* stop_master, first half: ssh -O exit stops whatever master is there now.  A
\* dead one may ignore it.
StopMaster(y, here, there) ==
  /\ pc[y] = here
  /\ \/ MasterGone(box[y])
     \/ master[box[y]] = "dead" /\ UNCHANGED masterVars
  /\ Goto(y, there)
  /\ UNCHANGED <<claim, portLock, masterLock, box, next, pick>>

\* stop_master, second half: a master that still answers is an error.
EnsureGone(y) ==
  /\ pc[y] = "gone"
  /\ \/ /\ master[box[y]] = "none" /\ Goto(y, "open")
        /\ UNCHANGED <<portLock, masterLock, box, next, pick>>
     \/ master[box[y]] # "none" /\ Done(y)
  /\ UNCHANGED <<claim, masterVars>>

\* Log in again, which needs the key; a dead master that is back refuses.
EnsureOpen(y) ==
  /\ pc[y] = "open"
  /\ \/ master[box[y]] = "none" /\ MasterOpens(box[y], "lock") /\ Ensured(y)
     \/ master[box[y]] = "live" /\ UNCHANGED masterVars /\ Ensured(y)
     \/ Done(y) /\ UNCHANGED <<claim, masterVars>>

-----------------------------------------------------------------------------
(* yo destroy: close_master, then the definition goes.                     *)

CloseLock(y) ==
  /\ pc[y] = "close" /\ masterLock[box[y]] = None
  /\ masterLock' = [masterLock EXCEPT ![box[y]] = y]
  /\ Goto(y, "quit")
  /\ UNCHANGED <<claim, masterVars, portLock, box, next, pick>>

CloseGone(y) ==
  /\ pc[y] = "left"
  /\ \/ /\ master[box[y]] = "none" /\ Goto(y, "undefine")
        /\ masterLock' = [masterLock EXCEPT ![box[y]] = None]
        /\ UNCHANGED <<portLock, box, next, pick>>
     \/ master[box[y]] # "none" /\ Done(y)
  /\ UNCHANGED <<claim, masterVars>>

Undefine(y) ==
  /\ pc[y] = "undefine"
  /\ claim' = [claim EXCEPT ![box[y]] = 0]
  /\ Done(y)
  /\ UNCHANGED masterVars

-----------------------------------------------------------------------------
(* heal_reverse_forward, by any yo and under no lock.                      *)

\* What the yo says of the forward when it is done with it.
Say(y, up) == told' = [told EXCEPT ![box[y]] = up] /\ Done(y)

\* It says nothing yet.
HealGoes(y, there) ==
  Goto(y, there) /\ UNCHANGED <<told, portLock, masterLock, box, next, pick>>

\* forward_is_up, asked as the agent.  A probe of a forward that works may time
\* out or lose its session.
HealProbe(y) ==
  /\ pc[y] = "probe"
  /\ \/ sock[box[y]] = "served" /\ Say(y, TRUE)
     \/ HealGoes(y, "cancel")
  /\ UNCHANGED <<claim, master, via, fwd, asked, sock>>

\* ssh -O cancel; its failure is nothing, there may be no master or no forward.
HealCancel(y) ==
  /\ pc[y] = "cancel"
  /\ IF master[box[y]] = "live" /\ asked[box[y]]
       THEN /\ asked' = [asked EXCEPT ![box[y]] = FALSE]
            /\ sock' = [sock EXCEPT ![box[y]] = IF @ = "served" THEN "stale" ELSE @]
       ELSE UNCHANGED <<asked, sock>>
  /\ HealGoes(y, "rm")
  /\ UNCHANGED <<claim, master, via, fwd>>

\* rm -f over a mux session, which revives the master; a dead one fails it.
HealRemove(y) ==
  /\ pc[y] = "rm"
  /\ \/ /\ master[box[y]] # "dead"
        /\ master' = [master EXCEPT ![box[y]] = "live"]
        /\ sock' = [sock EXCEPT ![box[y]] = "none"]
        /\ HealGoes(y, "reissue")
     \/ Say(y, FALSE) /\ UNCHANGED <<master, sock>>
  /\ UNCHANGED <<claim, via, fwd, asked>>

\* ssh -O forward -R: the master does nothing about a forward it already has,
\* and the guest's sshd does not bind over a socket file that is there.
HealReissue(y) ==
  LET b == box[y] IN
  /\ pc[y] = "reissue"
  /\ \/ /\ master[b] = "live" /\ (asked[b] \/ sock[b] = "none")
        /\ asked' = [asked EXCEPT ![b] = TRUE]
        /\ sock' = [sock EXCEPT ![b] = IF asked[b] THEN @ ELSE "served"]
        /\ HealGoes(y, "again")
     \/ /\ master[b] # "live" \/ ~asked[b]
        /\ Say(y, FALSE) /\ UNCHANGED <<asked, sock>>
  /\ UNCHANGED <<claim, master, via, fwd>>

\* (A mutated form: an accepted -O forward is taken for a forward that is up.)
TrustReissue(y) ==
  /\ pc[y] = "again"
  /\ Say(y, TRUE)
  /\ UNCHANGED <<claim, master, via, fwd, asked, sock>>

\* The second probe: up, or "still dead after re-issuing it", which may be wrong.
HealAgain(y) ==
  /\ pc[y] = "again"
  /\ \/ sock[box[y]] = "served" /\ Say(y, TRUE)
     \/ Say(y, FALSE)
  /\ UNCHANGED <<claim, master, via, fwd, asked, sock>>

-----------------------------------------------------------------------------
\* A yo dies: the kernel drops its flocks.  Who sees it die knows nothing of
\* the forward it was healing.
Crash(y) ==
  /\ pc[y] # "idle"
  /\ told' = IF pc[y] \in HealPcs THEN [told EXCEPT ![box[y]] = FALSE] ELSE told
  /\ Done(y)
  /\ UNCHANGED <<claim, master, via, fwd, asked, sock>>

Pick(y) ==
  \/ PickLock(y, "claimLock", "claimPick") \/ PickLock(y, "portLock", "portPick")
  \/ PickPort(y, "claimPick", "define") \/ PickPort(y, "portPick", "forward")
  \/ Define(y) \/ Forward(y)

Ensure(y) ==
  EnsureLock(y) \/ EnsureCheck(y) \/ EnsureSession(y)
    \/ StopMaster(y, "exit", "gone") \/ EnsureGone(y) \/ EnsureOpen(y)

Destroy(y) == CloseLock(y) \/ StopMaster(y, "quit", "left") \/ CloseGone(y) \/ Undefine(y)

Heal(y) ==
  HealProbe(y) \/ HealCancel(y) \/ HealRemove(y) \/ HealReissue(y) \/ HealAgain(y)

Host == \E b \in Boxes : ConnectionLost(b) \/ MasterQuits(b) \/ MuxSession(b)

Next ==
  \/ Host
  \/ \E y \in Yo : Begin(y) \/ Pick(y) \/ Ensure(y) \/ Destroy(y) \/ Heal(y) \/ Crash(y)

Spec == Init /\ [][Next]_vars

-----------------------------------------------------------------------------
(* Properties.                                                             *)

\* No two boxes claim one host port, so ssh to a box never reaches another's
\* (port_lock: the two steps of picking and defining, by several yos).
ClaimsApart ==
  \A b, c \in Boxes : b # c /\ claim[b] # 0 => claim[b] # claim[c]

\* `yo port` never listens on a port that a box claims, running or not, so the
\* next start of that box finds its port free of yo's own forwards (port_lock).
ForwardsOffClaims ==
  \A b, c \in Boxes : claim[c] \notin fwd[b]

\* The users of a port, as PortRegistry sees them.
Users(p) ==
  {<<b, "domain">> : b \in {b \in Boxes : claim[b] = p}}
    \cup {<<b, "forward">> : b \in {b \in Boxes : p \in fwd[b]}}

Registry == INSTANCE PortRegistry WITH users <- [p \in Ports |-> Users(p)]

\* Choosing a port from what the definitions and the probes say, and taking it some
\* steps later, is as good as one step that hands out a port nobody has: however yos
\* interleave and die, a port is given to a box or to a forward only while it has no
\* user (port_lock, create_domain, forward_port).
ImplementsPortRegistry == Registry!Spec

\* ensure_master stops a master that works only when a plain mux session opened
\* it: never one that another yo opened under the lock (ensure_master's window).
OnlyOutsideMasterDropped ==
  [][\A y \in Yo :
       pc[y] = "exit" /\ pc'[y] = "gone" /\ master[box[y]] = "live"
         => via[box[y]] = "mux"]_vars

\* However heals of one forward overlap: once none is under way, a forward that
\* the last of them called up is up, unless the master went since.  A heal that
\* breaks another's forward says so itself (heal_reverse_forward's last probe).
NoSilentlyDeadForward ==
  \A b \in Boxes :
    told[b] /\ (\A y \in Yo : pc[y] \in HealPcs => box[y] # b) => sock[b] = "served"

-----------------------------------------------------------------------------
(* The inductive strengthenings.                                           *)

BoxInv == \A y \in Yo : pc[y] # "idle" => box[y] \in Boxes

\* A yo that picks or takes a port holds the lock.
PortLockInv == \A y \in Yo : pc[y] \in PortPcs => portLock = y

\* The port a yo is about to take is still off every claim and forward.
PickInv ==
  \A y \in Yo : pc[y] \in {"define", "forward"} =>
    /\ pick[y] \in Ports
    /\ \A b \in Boxes : claim[b] # pick[y] /\ pick[y] \notin fwd[b]

PortsInv == TypeOK /\ BoxInv /\ PortLockInv /\ PickInv /\ ClaimsApart /\ ForwardsOffClaims

\* A yo in the locked part of ensure_master or close_master holds its box's lock.
MasterLockInv == \A y \in Yo : pc[y] \in MasterPcs => masterLock[box[y]] = y

\* Where there is no master, none is taken for one opened under the lock.
ViaInv == \A b \in Boxes : master[b] = "none" => via[b] = "mux"

\* The master a yo is about to stop does not work, or came from outside the lock.
ExitInv ==
  \A y \in Yo : pc[y] = "exit" /\ master[box[y]] = "live" => via[box[y]] = "mux"

MasterInv == TypeOK /\ BoxInv /\ MasterLockInv /\ ViaInv /\ ExitInv
=============================================================================
