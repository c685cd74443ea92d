----------------------------- MODULE AwsBroker ------------------------------
(***************************************************************************)
(* Who serves the AWS credentials socket.  Every `yo` command that reaches *)
(* a running box makes sure one aws-broker serves it, tied to the life of  *)
(* the process that keeps the box up; it asks a broker's /health, stops a  *)
(* stale one and starts another, under its own lock.  A starting broker    *)
(* reclaims the two socket paths left by a dead one, under a lock of the   *)
(* brokers.  A broker that ends takes its sockets away, outside any lock.  *)
(***************************************************************************)
EXTENDS Naturals, FiniteSets

CONSTANTS
  Yo,                \* the yo processes of the host
  Broker,            \* slots for aws-broker processes
  AllowList,         \* the allow-lists ~/.aws/config may give
  None,              \* nobody, nothing
  MaxRuns,           \* bound: runs of the VM
  OverlappingExits   \* may SIGTERM and the VM's end both shut one broker down?

ASSUME NoneAssumption == None \notin Yo \cup Broker \cup AllowList
ASSUME FlagAssumption == MaxRuns \in Nat /\ OverlappingExits \in BOOLEAN

VARIABLES
  run, up,     \* the VM: its last run, and whether that is still going
  file,        \* which broker bound the socket at each path
  bpc,         \* where each broker is
  watch,       \* the run each broker watches
  allow,       \* its --allow
  term,        \* a SIGTERM is pending at the broker
  exit,        \* its two shutdowns: the SIGTERM handler and the watch thread
  crashed,     \* the broker died without running a shutdown
  startLock,   \* holder of <socket>.lock
  ypc,         \* where each yo is
  want,        \* the run it wants served, 0 to disable
  names,       \* the allow-list it wants served
  sees,        \* the broker it is to stop, or has started
  yoLock       \* holder of aws-broker.yo.lock

vmVars == <<run, up>>
args == <<watch, allow>>
brokerVars == <<file, bpc, args, term, exit, crashed, startLock>>
asks == <<want, names>>
yoVars == <<ypc, asks, sees, yoLock>>
vars == <<vmVars, brokerVars, yoVars>>

Paths == {"guest", "control"}
Threads == {"term", "watch"}
Runs == 1 .. MaxRuns

\* A broker's start-up, in order; in Masked it has SIGTERM blocked.
Reclaiming == {"probe guest", "unlink guest", "probe control", "unlink control"}
Masked == {"bind guest", "bind control", "handler"}
Locked == Reclaiming \cup {"register"} \cup Masked
Bpcs == {"none", "start", "lock", "ready", "serve", "dead"} \cup Locked

ExitSteps == {"run", "stat guest", "unlink guest", "stat control", "unlink control", "end"}
Ypcs == {"idle", "lock", "check", "signal", "wait", "spawn", "handshake", "reap"}
YoLocked == Ypcs \ {"idle", "lock"}

TypeOK ==
  /\ run \in 0 .. MaxRuns /\ up \in BOOLEAN
  /\ file \in [Paths -> Broker \cup {None}]
  /\ bpc \in [Broker -> Bpcs]
  /\ watch \in [Broker -> Runs \cup {0}] /\ allow \in [Broker -> AllowList \cup {None}]
  /\ term \in [Broker -> BOOLEAN] /\ crashed \in [Broker -> BOOLEAN]
  /\ exit \in [Broker -> [Threads -> ExitSteps]]
  /\ startLock \in Broker \cup {None}
  /\ ypc \in [Yo -> Ypcs]
  /\ want \in [Yo -> Runs \cup {0}] /\ names \in [Yo -> AllowList \cup {None}]
  /\ sees \in [Yo -> Broker \cup {None}]
  /\ yoLock \in Yo \cup {None}
  /\ \A y \in Yo : sees[y] # None <=> ypc[y] \in {"signal", "wait", "handshake", "reap"}

Alive(b) == bpc[b] \notin {"none", "dead"}
Going(n) == up /\ run = n
NoExit == [t \in Threads |-> "run"]
Exiting(b) == exit[b] # NoExit

\* Whether the broker behind a path answers /health in time: a serving one does,
\* one that is coming up or shutting down may.
MayAnswer(p) == file[p] # None /\ bpc[file[p]] \in Masked \cup {"ready", "serve"}
MustAnswer(p) == file[p] # None /\ bpc[file[p]] = "serve" /\ ~Exiting(file[p])

-----------------------------------------------------------------------------
Init ==
  /\ run = 0 /\ up = FALSE
  /\ file = [p \in Paths |-> None]
  /\ bpc = [b \in Broker |-> "none"]
  /\ watch = [b \in Broker |-> 0] /\ allow = [b \in Broker |-> None]
  /\ term = [b \in Broker |-> FALSE] /\ crashed = [b \in Broker |-> FALSE]
  /\ exit = [b \in Broker |-> NoExit]
  /\ startLock = None
  /\ ypc = [y \in Yo |-> "idle"]
  /\ want = [y \in Yo |-> 0] /\ names = [y \in Yo |-> None] /\ sees = [y \in Yo |-> None]
  /\ yoLock = None

VmStart ==
  /\ ~up /\ run < MaxRuns
  /\ up' = TRUE /\ run' = run + 1
  /\ UNCHANGED <<brokerVars, yoVars>>

VmStop ==
  /\ up /\ up' = FALSE
  /\ UNCHANGED <<run, brokerVars, yoVars>>

-----------------------------------------------------------------------------
(* The start of a broker.                                                  *)

BGoto(b, there) == bpc' = [bpc EXCEPT ![b] = there]

\* The process is gone: its flock is dropped, its sockets refuse, and the socket
\* files it did not remove stay.
Dies(b) ==
  /\ bpc' = [bpc EXCEPT ![b] = "dead"]
  /\ watch' = [watch EXCEPT ![b] = 0] /\ allow' = [allow EXCEPT ![b] = None]
  /\ startLock' = IF startLock = b THEN None ELSE startLock
  /\ term' = [term EXCEPT ![b] = FALSE]
  /\ exit' = [exit EXCEPT ![b] = NoExit]

\* main: the watched pid must be running.
Begin(b) ==
  /\ bpc[b] = "start"
  /\ \/ Going(watch[b]) /\ BGoto(b, "lock") /\ UNCHANGED <<args, startLock, term, exit>>
     \/ ~Going(watch[b]) /\ Dies(b)
  /\ UNCHANGED <<file, crashed, vmVars, yoVars>>

\* held_socket_lock.
TakeStartLock(b) ==
  /\ bpc[b] = "lock" /\ startLock = None
  /\ startLock' = b
  /\ BGoto(b, "probe guest")
  /\ UNCHANGED <<file, args, term, exit, crashed, vmVars, yoVars>>

\* reclaim_socket_path: nothing there is fine, a socket that answers a connect
\* ends this broker, a dead one is removed in a step of its own.
Probe(b, p, here, remove, next) ==
  /\ bpc[b] = here
  /\ \/ file[p] = None /\ BGoto(b, next) /\ UNCHANGED <<args, startLock, term, exit>>
     \/ file[p] # None /\ Alive(file[p]) /\ Dies(b)
     \/ file[p] # None /\ ~Alive(file[p]) /\ BGoto(b, remove)
        /\ UNCHANGED <<args, startLock, term, exit>>
  /\ UNCHANGED <<file, crashed, vmVars, yoVars>>

Remove(b, p, here, next) ==
  /\ bpc[b] = here
  /\ file' = [file EXCEPT ![p] = None]
  /\ BGoto(b, next)
  /\ UNCHANGED <<args, term, exit, crashed, startLock, vmVars, yoVars>>

\* (A mutated form: whoever is behind the path, it is removed.)
ReclaimUnasked(b) ==
  \/ Remove(b, "guest", "probe guest", "probe control")
  \/ Remove(b, "control", "probe control", "register")

ReclaimSocketPath(b) ==
  \/ Probe(b, "guest", "probe guest", "unlink guest", "probe control")
  \/ Remove(b, "guest", "unlink guest", "probe control")
  \/ Probe(b, "control", "probe control", "unlink control", "register")
  \/ Remove(b, "control", "unlink control", "register")

\* register_pid_watch_event, then SIGTERM is blocked.  A SIGTERM that came before
\* has killed the broker by now (TermKills).
Register(b) ==
  /\ bpc[b] = "register"
  /\ \/ Going(watch[b]) /\ ~term[b] /\ BGoto(b, "bind guest")
        /\ UNCHANGED <<args, startLock, term, exit>>
     \/ ~Going(watch[b]) /\ Dies(b)
  /\ UNCHANGED <<file, crashed, vmVars, yoVars>>

\* bind_servers: both sockets or neither.
BindGuest(b) ==
  /\ bpc[b] = "bind guest"
  /\ \/ /\ file["guest"] = None
        /\ file' = [file EXCEPT !["guest"] = b]
        /\ BGoto(b, "bind control") /\ UNCHANGED <<args, startLock, term, exit>>
     \/ Dies(b) /\ UNCHANGED file
  /\ UNCHANGED <<crashed, vmVars, yoVars>>

BindControl(b) ==
  /\ bpc[b] = "bind control"
  /\ \/ /\ file["control"] = None
        /\ file' = [file EXCEPT !["control"] = b]
        /\ BGoto(b, "handler") /\ UNCHANGED <<args, startLock, term, exit>>
     \/ /\ Dies(b)
        /\ file' = [file EXCEPT !["guest"] = IF @ = b THEN None ELSE @]
  /\ UNCHANGED <<crashed, vmVars, yoVars>>

\* The handler is in place, SIGTERM unblocked, the lock let go.
InstallHandler(b) ==
  /\ bpc[b] = "handler"
  /\ BGoto(b, "ready")
  /\ startLock' = None
  /\ UNCHANGED <<file, args, term, exit, crashed, vmVars, yoVars>>

\* READY reaches the yo that started the broker and waits for its handshake, or
\* the write fails on a pipe nobody reads, and nothing removes the sockets.
PrintReady(b) ==
  /\ bpc[b] = "ready" /\ ~Exiting(b)
  /\ IF \E y \in Yo : sees[y] = b /\ ypc[y] = "handshake"
       THEN BGoto(b, "serve") /\ UNCHANGED <<args, startLock, term, exit, crashed>>
       ELSE Dies(b) /\ crashed' = [crashed EXCEPT ![b] = TRUE]
  /\ UNCHANGED <<file, vmVars, yoVars>>

-----------------------------------------------------------------------------
(* The end of a broker.                                                    *)

\* (A mutated form: SIGTERM is not blocked over the bind.)
TermKillsAnyone(b) ==
  /\ term[b] /\ Alive(b) /\ bpc[b] \notin {"ready", "serve"}
  /\ Dies(b)
  /\ UNCHANGED <<file, crashed, vmVars, yoVars>>

\* SIGTERM with its default action, before the mask.
TermKills(b) ==
  /\ term[b] /\ Alive(b) /\ bpc[b] \notin Masked \cup {"ready", "serve"}
  /\ Dies(b)
  /\ UNCHANGED <<file, crashed, vmVars, yoVars>>

ExitGoto(b, t, there) == exit' = [exit EXCEPT ![b][t] = there]

MayExit(b) == OverlappingExits \/ ~Exiting(b)

\* The handler runs in the main thread ...
TermHandler(b) ==
  /\ term[b] /\ bpc[b] \in {"ready", "serve"}
  /\ exit[b]["term"] = "run" /\ MayExit(b)
  /\ ExitGoto(b, "term", "stat guest")
  /\ UNCHANGED <<file, bpc, args, term, crashed, startLock, vmVars, yoVars>>

\* ... and wait_for_pid_exit in a thread of its own, once READY was printed.
WatchFires(b) ==
  /\ bpc[b] = "serve" /\ ~Going(watch[b])
  /\ exit[b]["watch"] = "run" /\ MayExit(b)
  /\ ExitGoto(b, "watch", "stat guest")
  /\ UNCHANGED <<file, bpc, args, term, crashed, startLock, vmVars, yoVars>>

\* unlink_if_same_identity: lstat, then unlink whatever is there by then.
Stat(b, t, p, here, remove, next) ==
  /\ exit[b][t] = here
  /\ ExitGoto(b, t, IF file[p] = b THEN remove ELSE next)
  /\ UNCHANGED <<file, bpc, args, term, crashed, startLock, vmVars, yoVars>>

Unlink(b, t, p, here, next) ==
  /\ exit[b][t] = here
  /\ file' = [file EXCEPT ![p] = None]
  /\ ExitGoto(b, t, next)
  /\ UNCHANGED <<bpc, args, term, crashed, startLock, vmVars, yoVars>>

UnlinkBound(b, t) ==
  \/ Stat(b, t, "guest", "stat guest", "unlink guest", "stat control")
  \/ Unlink(b, t, "guest", "unlink guest", "stat control")
  \/ Stat(b, t, "control", "stat control", "unlink control", "end")
  \/ Unlink(b, t, "control", "unlink control", "end")

\* (A mutated form: sys.exit, which ends the broker from its main thread alone.)
ExitFromMainThread(b, t) ==
  /\ exit[b][t] = "end" /\ t = "term"
  /\ Dies(b)
  /\ UNCHANGED <<file, crashed, vmVars, yoVars>>

\* os._exit ends every thread.
ExitCleanly(b, t) ==
  /\ exit[b][t] = "end"
  /\ Dies(b)
  /\ UNCHANGED <<file, crashed, vmVars, yoVars>>

\* SIGKILL, or the host's power.
Killed(b) ==
  /\ Alive(b)
  /\ Dies(b)
  /\ crashed' = [crashed EXCEPT ![b] = TRUE]
  /\ UNCHANGED <<file, vmVars, yoVars>>

\* The slot of a dead broker serves again once nothing refers to it.
Recycle(b) ==
  /\ bpc[b] = "dead"
  /\ \A p \in Paths : file[p] # b
  /\ \A y \in Yo : sees[y] # b
  /\ BGoto(b, "none")
  /\ crashed' = [crashed EXCEPT ![b] = FALSE]
  /\ UNCHANGED <<file, args, term, exit, startLock, vmVars, yoVars>>

-----------------------------------------------------------------------------
(* yo: ensure_aws_broker and disable_aws_broker.                           *)

YGoto(y, there) == ypc' = [ypc EXCEPT ![y] = there]

Leave(y) ==
  /\ YGoto(y, "idle")
  /\ want' = [want EXCEPT ![y] = 0] /\ names' = [names EXCEPT ![y] = None]
  /\ sees' = [sees EXCEPT ![y] = None]
  /\ yoLock' = IF yoLock = y THEN None ELSE yoLock

\* ~/.aws/config, which anybody may edit, and the keepalive pid are read before
\* the lock is taken; without an SSO profile the broker is disabled.
YoBegin(y) ==
  /\ ypc[y] = "idle" /\ up
  /\ \/ UNCHANGED asks
     \/ /\ want' = [want EXCEPT ![y] = run]
        /\ \E list \in AllowList : names' = [names EXCEPT ![y] = list]
  /\ YGoto(y, "lock")
  /\ UNCHANGED <<sees, yoLock, vmVars, brokerVars>>

YoTakeLock(y) ==
  /\ ypc[y] = "lock" /\ yoLock = None
  /\ yoLock' = y
  /\ YGoto(y, "check")
  /\ UNCHANGED <<asks, sees, vmVars, brokerVars>>

NeedsRestart(y, b) == want[y] = 0 \/ watch[b] # want[y] \/ allow[b] # names[y]

\* aws_broker_health, broker_needs_restart: the control socket first, then the
\* forwarded one, whose answer alone is a reason to restart.
YoCheck(y) ==
  /\ ypc[y] = "check"
  /\ \/ /\ MayAnswer("control") /\ ~NeedsRestart(y, file["control"])
        /\ Leave(y)
     \/ /\ MayAnswer("control") /\ NeedsRestart(y, file["control"])
        /\ sees' = [sees EXCEPT ![y] = file["control"]]
        /\ YGoto(y, "signal") /\ UNCHANGED <<asks, yoLock>>
     \/ /\ ~MustAnswer("control") /\ MayAnswer("guest")
        /\ sees' = [sees EXCEPT ![y] = file["guest"]]
        /\ YGoto(y, "signal") /\ UNCHANGED <<asks, yoLock>>
     \/ /\ ~MustAnswer("control") /\ ~MustAnswer("guest")
        /\ IF want[y] = 0 THEN Leave(y)
           ELSE YGoto(y, "spawn") /\ UNCHANGED <<asks, sees, yoLock>>
  /\ UNCHANGED <<vmVars, brokerVars>>

\* kill_stale_broker.
YoSignal(y) ==
  /\ ypc[y] = "signal"
  /\ term' = [term EXCEPT ![sees[y]] = Alive(sees[y])]
  /\ YGoto(y, "wait")
  /\ UNCHANGED <<asks, sees, yoLock, vmVars, file, bpc, args, exit, crashed, startLock>>

\* wait_for_pid_exit: it exits, or ten seconds pass.
YoWait(y) ==
  /\ ypc[y] = "wait"
  /\ \/ /\ ~Alive(sees[y]) /\ want[y] # 0
        /\ YGoto(y, "spawn")
        /\ sees' = [sees EXCEPT ![y] = None] /\ UNCHANGED <<asks, yoLock>>
     \/ Alive(sees[y]) /\ Leave(y)
     \/ want[y] = 0 /\ Leave(y)
  /\ UNCHANGED <<vmVars, brokerVars>>

\* start_aws_broker.
YoSpawn(y) ==
  /\ ypc[y] = "spawn"
  /\ \E b \in Broker :
       /\ bpc[b] = "none"
       /\ BGoto(b, "start")
       /\ watch' = [watch EXCEPT ![b] = want[y]]
       /\ allow' = [allow EXCEPT ![b] = names[y]]
       /\ sees' = [sees EXCEPT ![y] = b]
  /\ YGoto(y, "handshake")
  /\ UNCHANGED <<asks, yoLock, vmVars, file, term, exit, crashed, startLock>>

\* READY, ERROR= or a silent death, or thirty seconds without a word.
YoHandshake(y) ==
  /\ ypc[y] = "handshake"
  /\ \/ bpc[sees[y]] \in {"serve", "dead"} /\ Leave(y) /\ UNCHANGED term
     \/ /\ bpc[sees[y]] \notin {"serve", "dead"}
        /\ term' = [term EXCEPT ![sees[y]] = TRUE]
        /\ YGoto(y, "reap") /\ UNCHANGED <<asks, sees, yoLock>>
  /\ UNCHANGED <<vmVars, file, bpc, args, exit, crashed, startLock>>

\* child.wait() after child.terminate().
YoReap(y) ==
  /\ ypc[y] = "reap" /\ ~Alive(sees[y])
  /\ Leave(y)
  /\ UNCHANGED <<vmVars, brokerVars>>

YoDies(y) ==
  /\ ypc[y] # "idle"
  /\ Leave(y)
  /\ UNCHANGED <<vmVars, brokerVars>>

-----------------------------------------------------------------------------
StartUp(b) ==
  \/ Begin(b) \/ TakeStartLock(b) \/ ReclaimSocketPath(b) \/ Register(b)
  \/ BindGuest(b) \/ BindControl(b) \/ InstallHandler(b) \/ PrintReady(b)

ShutDown(b) ==
  \/ TermKills(b) \/ TermHandler(b) \/ WatchFires(b)
  \/ \E t \in Threads : UnlinkBound(b, t) \/ ExitCleanly(b, t)

YoStep(y) ==
  \/ YoBegin(y) \/ YoTakeLock(y) \/ YoCheck(y) \/ YoSignal(y) \/ YoWait(y)
  \/ YoSpawn(y) \/ YoHandshake(y) \/ YoReap(y)

Next ==
  \/ VmStart \/ VmStop
  \/ \E b \in Broker : StartUp(b) \/ ShutDown(b) \/ Killed(b) \/ Recycle(b)
  \/ \E y \in Yo : YoStep(y) \/ YoDies(y)

Spec == Init /\ [][Next]_vars

\* A broker goes on running, and so does a yo that waits for one.
LiveSpec ==
  /\ Spec
  /\ \A b \in Broker : WF_vars(StartUp(b)) /\ WF_vars(ShutDown(b))
  /\ \A b \in Broker : SF_vars(TakeStartLock(b))

-----------------------------------------------------------------------------
(* Properties.                                                             *)

\* No broker removes or replaces the socket of another that is serving or about
\* to (held_socket_lock, reclaim_socket_path, unlink_if_same_identity).
ServingIsReachable ==
  \A b \in Broker :
    bpc[b] \in {"handler", "ready", "serve"} /\ ~Exiting(b) =>
      \A p \in Paths : file[p] = b

\* A broker that was stopped by SIGTERM, by its VM's end or by a bind that failed
\* leaves no socket file behind (the blocked SIGTERM in main, bind_servers).
\* What does leave one is a SIGKILL and a READY that nobody reads any more.
NoFileLeft ==
  \A p \in Paths : file[p] # None /\ ~Alive(file[p]) => crashed[file[p]]

\* A broker does not outlive the run of the VM it was started for
\* (register_pid_watch_event before the bind, wait_for_pid_exit).
EndsWithVm ==
  \A b \in Broker : Alive(b) /\ ~Going(watch[b]) ~> ~Alive(b)

\* kill_stale_broker stops a stale broker, never the one that serves the VM's
\* current run the allow-list of somebody who asked for both.
KillsOnlyStale ==
  \A y \in Yo :
    ypc[y] = "signal" /\ want[y] # 0 /\ MustAnswer("control") =>
      ~(sees[y] = file["control"] /\ Going(watch[sees[y]]) /\ allow[sees[y]] = names[y])
-----------------------------------------------------------------------------
(* The inductive strengthening of ServingIsReachable and NoFileLeft.       *)

StartLockInv == \A b \in Broker : bpc[b] \in Locked <=> startLock = b

\* A socket file is of a broker that has bound it.
FileInv ==
  \A b \in Broker :
    /\ file["guest"] = b => bpc[b] \in {"bind control", "handler", "ready", "serve", "dead"}
    /\ file["control"] = b => bpc[b] \in {"handler", "ready", "serve", "dead"}

\* A shutdown has left behind it the files it is past.
ExitInv ==
  \A b \in Broker :
    /\ Exiting(b) => bpc[b] \in {"ready", "serve"}
    /\ \A t \in Threads :
         /\ exit[b][t] \in {"stat control", "unlink control", "end"} => file["guest"] # b
         /\ exit[b][t] = "end" => file["control"] # b

CleanInv == TypeOK /\ FileInv /\ ExitInv /\ NoFileLeft

\* With one shutdown at a time, the file it is about to unlink is its own ...
UnlinkInv ==
  \A b \in Broker :
    /\ exit[b]["term"] = "run" \/ exit[b]["watch"] = "run"
    /\ \A t \in Threads :
         /\ exit[b][t] = "unlink guest" => file["guest"] = b
         /\ exit[b][t] = "unlink control" => file["control"] = b

\* ... and the one a starting broker is about to reclaim is a dead broker's.
ReclaimInv ==
  \A b \in Broker :
    /\ bpc[b] = "unlink guest" => file["guest"] = None \/ ~Alive(file["guest"])
    /\ bpc[b] = "unlink control" => file["control"] = None \/ ~Alive(file["control"])
    /\ bpc[b] = "bind control" => file["guest"] = b

ReachInv ==
  CleanInv /\ StartLockInv /\ UnlinkInv /\ ReclaimInv /\ ServingIsReachable
=============================================================================
