---------------------------- MODULE BrokerProof -----------------------------
(***************************************************************************)
(* The two sides of an aws-broker: its life cycle for any number of yos,   *)
(* brokers and runs of the VM (AwsBroker), and what one broker serves for  *)
(* any number of connections, profiles and slots (BrokerServe, whose       *)
(* inductive invariant is ServeInv).                                       *)
(***************************************************************************)
EXTENDS AwsBroker, BrokerServe, FiniteSetTheorems, TLAPS

-----------------------------------------------------------------------------
(* Type correctness.                                                       *)

\* The two socket paths (bind_servers).
LEMMA PathNames == "guest" \in Paths /\ "control" \in Paths
BY DEF Paths

\* A broker that is gone leaves typed variables (Dies).
LEMMA DiesTyped ==
  ASSUME TypeOK, NEW b \in Broker, Dies(b)
  PROVE  /\ bpc' \in [Broker -> Bpcs] /\ startLock' \in Broker \cup {None}
         /\ term' \in [Broker -> BOOLEAN]
         /\ exit' \in [Broker -> [Threads -> ExitSteps]]
         /\ watch' \in [Broker -> Runs \cup {0}] /\ allow' \in [Broker -> AllowList \cup {None}]
<1>1. NoExit \in [Threads -> ExitSteps]
  BY DEF NoExit, ExitSteps
<1> QED
  BY <1>1 DEF TypeOK, Dies, Bpcs

\* A step of a broker's start keeps the types.
LEMMA StartUpTyped ==
  ASSUME TypeOK, NEW b \in Broker, StartUp(b)
  PROVE  TypeOK'
<1> USE DEF BGoto, vmVars, yoVars, args, asks, Bpcs, Locked, Reclaiming, Masked
<1>1. CASE Begin(b)
  <2>1. UNCHANGED <<file, crashed, run, up, ypc, want, names, sees, yoLock>>
    BY <1>1 DEF Begin
  <2>2. CASE Dies(b)
    BY <2>1, <2>2, DiesTyped DEF TypeOK
  <2>3. CASE BGoto(b, "lock") /\ UNCHANGED <<args, startLock, term, exit>>
    BY <2>1, <2>3 DEF TypeOK
  <2> QED
    BY <1>1, <2>2, <2>3 DEF Begin
<1>2. CASE TakeStartLock(b)
  BY <1>2 DEF TakeStartLock, TypeOK
<1>3. CASE ReclaimSocketPath(b)
  <2>1. CASE Probe(b, "guest", "probe guest", "unlink guest", "probe control")
    BY <2>1, DiesTyped DEF Probe, TypeOK
  <2>2. CASE Remove(b, "guest", "unlink guest", "probe control")
    BY <2>2 DEF Remove, TypeOK
  <2>3. CASE Probe(b, "control", "probe control", "unlink control", "register")
    BY <2>3, DiesTyped DEF Probe, TypeOK
  <2>4. CASE Remove(b, "control", "unlink control", "register")
    BY <2>4 DEF Remove, TypeOK
  <2> QED
    BY <1>3, <2>1, <2>2, <2>3, <2>4 DEF ReclaimSocketPath
<1>4. CASE Register(b)
  BY <1>4, DiesTyped DEF Register, TypeOK
<1>5. CASE BindGuest(b)
  <2>1. file' \in [Paths -> Broker \cup {None}]
    <3>1. file \in [Paths -> Broker \cup {None}]
      BY DEF TypeOK
    <3>2. file' = [file EXCEPT !["guest"] = b] \/ file' = file
      BY <1>5 DEF BindGuest
    <3> QED
      BY <3>1, <3>2, PathNames
  <2>2. /\ bpc' \in [Broker -> Bpcs] /\ startLock' \in Broker \cup {None}
        /\ term' \in [Broker -> BOOLEAN] /\ exit' \in [Broker -> [Threads -> ExitSteps]]
        /\ watch' \in [Broker -> Runs \cup {0}] /\ allow' \in [Broker -> AllowList \cup {None}]
    <3>1. CASE Dies(b)
      BY <3>1, DiesTyped
    <3>2. CASE BGoto(b, "bind control") /\ UNCHANGED <<args, startLock, term, exit>>
      BY <3>2 DEF args, TypeOK
    <3> QED
      BY <1>5, <3>1, <3>2 DEF BindGuest
  <2>3. UNCHANGED <<crashed, vmVars, yoVars>>
    BY <1>5 DEF BindGuest
  <2> QED
    BY <2>1, <2>2, <2>3 DEF TypeOK
<1>6. CASE BindControl(b)
  <2>1. file' \in [Paths -> Broker \cup {None}]
    <3>1. file \in [Paths -> Broker \cup {None}]
      BY DEF TypeOK
    <3>2. \/ file' = [file EXCEPT !["control"] = b]
          \/ file' = [file EXCEPT !["guest"] = IF file["guest"] = b THEN None ELSE file["guest"]]
      BY <1>6 DEF BindControl
    <3> QED
      BY <3>1, <3>2, PathNames
  <2>2. /\ bpc' \in [Broker -> Bpcs] /\ startLock' \in Broker \cup {None}
        /\ term' \in [Broker -> BOOLEAN] /\ exit' \in [Broker -> [Threads -> ExitSteps]]
        /\ watch' \in [Broker -> Runs \cup {0}] /\ allow' \in [Broker -> AllowList \cup {None}]
    <3>1. CASE Dies(b)
      BY <3>1, DiesTyped
    <3>2. CASE BGoto(b, "handler") /\ UNCHANGED <<args, startLock, term, exit>>
      BY <3>2 DEF args, TypeOK
    <3> QED
      BY <1>6, <3>1, <3>2 DEF BindControl
  <2>3. UNCHANGED <<crashed, vmVars, yoVars>>
    BY <1>6 DEF BindControl
  <2> QED
    BY <2>1, <2>2, <2>3 DEF TypeOK
<1>7. CASE InstallHandler(b)
  BY <1>7 DEF InstallHandler, TypeOK
<1>8. CASE PrintReady(b)
  BY <1>8, DiesTyped DEF PrintReady, TypeOK
<1> QED
  BY <1>1, <1>2, <1>3, <1>4, <1>5, <1>6, <1>7, <1>8 DEF StartUp

\* A step of a shutdown keeps the types.
LEMMA ShutDownTyped ==
  ASSUME TypeOK, NEW b \in Broker, ShutDown(b)
  PROVE  TypeOK'
<1> USE DEF vmVars, yoVars, args, asks, ExitGoto
<1>1. CASE TermKills(b)
  BY <1>1, DiesTyped DEF TermKills, TypeOK
<1>2. CASE TermHandler(b)
  BY <1>2 DEF TermHandler, TypeOK, ExitSteps
<1>3. CASE WatchFires(b)
  BY <1>3 DEF WatchFires, TypeOK, ExitSteps
<1>4. ASSUME NEW t \in Threads, UnlinkBound(b, t)
      PROVE  TypeOK'
  <2>1. ASSUME NEW p \in Paths, NEW here, NEW remove \in ExitSteps, NEW next \in ExitSteps,
               Stat(b, t, p, here, remove, next)
        PROVE  TypeOK'
    <3>1. exit' \in [Broker -> [Threads -> ExitSteps]]
      BY <2>1 DEF Stat, TypeOK
    <3> QED
      BY <2>1, <3>1 DEF Stat, TypeOK
  <2>2. ASSUME NEW p \in Paths, NEW here, NEW next \in ExitSteps, Unlink(b, t, p, here, next)
        PROVE  TypeOK'
    <3>1. exit' \in [Broker -> [Threads -> ExitSteps]]
      BY <2>2 DEF Unlink, TypeOK
    <3>2. file' \in [Paths -> Broker \cup {None}]
      BY <2>2 DEF Unlink, TypeOK
    <3> QED
      BY <2>2, <3>1, <3>2 DEF Unlink, TypeOK
  <2> QED
    BY <1>4, <2>1, <2>2, PathNames DEF UnlinkBound, ExitSteps
<1>5. ASSUME NEW t \in Threads, ExitCleanly(b, t)
      PROVE  TypeOK'
  BY <1>5, DiesTyped DEF ExitCleanly, TypeOK
<1> QED
  BY <1>1, <1>2, <1>3, <1>4, <1>5 DEF ShutDown

\* A step of a yo keeps the types.
LEMMA YoTyped ==
  ASSUME TypeOK, NEW y \in Yo, YoStep(y) \/ YoDies(y)
  PROVE  TypeOK'
<1> USE NoneAssumption DEF vmVars, brokerVars, args, asks, YGoto, Leave, Ypcs
<1>1. CASE YoBegin(y)
  <2>1. run \in Runs \cup {0}
    BY FlagAssumption DEF TypeOK, Runs
  <2>2. want' \in [Yo -> Runs \cup {0}] /\ names' \in [Yo -> AllowList \cup {None}]
    <3>1. want \in [Yo -> Runs \cup {0}] /\ names \in [Yo -> AllowList \cup {None}]
      BY DEF TypeOK
    <3>2. \/ UNCHANGED asks
          \/ /\ want' = [want EXCEPT ![y] = run]
             /\ \E list \in AllowList : names' = [names EXCEPT ![y] = list]
      BY <1>1 DEF YoBegin
    <3> QED
      BY <2>1, <3>1, <3>2
  <2>3. ypc' \in [Yo -> Ypcs] /\ ypc'[y] = "lock" /\ \A z \in Yo \ {y} : ypc'[z] = ypc[z]
    BY <1>1 DEF YoBegin, TypeOK
  <2>4. ypc[y] = "idle" /\ UNCHANGED <<sees, yoLock, vmVars, brokerVars>>
    BY <1>1 DEF YoBegin
  <2> QED
    BY <2>2, <2>3, <2>4 DEF TypeOK
<1>2. CASE YoTakeLock(y)
  BY <1>2 DEF YoTakeLock, TypeOK
<1>3. CASE YoCheck(y)
  BY SMTT(60), <1>3 DEF YoCheck, MayAnswer, TypeOK, Paths
<1>4. CASE YoSignal(y)
  BY <1>4 DEF YoSignal, TypeOK, Alive
<1>5. CASE YoWait(y)
  BY <1>5 DEF YoWait, TypeOK
<1>6. CASE YoSpawn(y)
  BY <1>6 DEF YoSpawn, BGoto, TypeOK, Bpcs
<1>7. CASE YoHandshake(y)
  BY ZenonT(60), <1>7 DEF YoHandshake, TypeOK
<1>8. CASE YoReap(y)
  BY <1>8 DEF YoReap, TypeOK
<1>9. CASE YoDies(y)
  BY <1>9 DEF YoDies, TypeOK
<1> QED
  BY <1>1, <1>2, <1>3, <1>4, <1>5, <1>6, <1>7, <1>8, <1>9 DEF YoStep

\* Every step keeps the types.
LEMMA StepTyped ==
  ASSUME TypeOK, [Next]_vars
  PROVE  TypeOK'
<1>1. CASE UNCHANGED vars
  BY <1>1 DEF vars, vmVars, brokerVars, yoVars, args, asks, TypeOK
<1>2. CASE VmStart
  BY <1>2, FlagAssumption DEF VmStart, brokerVars, yoVars, args, asks, TypeOK
<1>3. CASE VmStop
  BY <1>3 DEF VmStop, brokerVars, yoVars, args, asks, TypeOK
<1>4. ASSUME NEW b \in Broker, Killed(b)
      PROVE  TypeOK'
  BY <1>4, DiesTyped DEF Killed, vmVars, yoVars, asks, TypeOK
<1>5. ASSUME NEW b \in Broker, Recycle(b)
      PROVE  TypeOK'
  BY <1>5 DEF Recycle, BGoto, vmVars, yoVars, args, asks, TypeOK, Bpcs
<1> QED
  BY <1>1, <1>2, <1>3, <1>4, <1>5, StartUpTyped, ShutDownTyped, YoTyped DEF Next

\* The initial state has the types.
LEMMA InitTyped ==
  ASSUME Init
  PROVE  TypeOK
<1>1. NoExit \in [Threads -> ExitSteps]
  BY DEF NoExit, ExitSteps
<1>2. file \in [Paths -> Broker \cup {None}] /\ exit \in [Broker -> [Threads -> ExitSteps]]
  BY <1>1 DEF Init
<1>3. run \in 0 .. MaxRuns
  BY FlagAssumption DEF Init
<1>4. up \in BOOLEAN /\ startLock \in Broker \cup {None} /\ yoLock \in Yo \cup {None}
  BY DEF Init
<1>5. /\ bpc \in [Broker -> Bpcs] /\ watch \in [Broker -> Runs \cup {0}]
      /\ allow \in [Broker -> AllowList \cup {None}]
      /\ term \in [Broker -> BOOLEAN] /\ crashed \in [Broker -> BOOLEAN]
  BY DEF Init, Bpcs
<1>6. /\ ypc \in [Yo -> Ypcs] /\ want \in [Yo -> Runs \cup {0}]
      /\ names \in [Yo -> AllowList \cup {None}]
      /\ sees \in [Yo -> Broker \cup {None}]
  BY DEF Init, Ypcs
<1>7. \A y \in Yo : sees[y] # None <=> ypc[y] \in {"signal", "wait", "handshake", "reap"}
  BY DEF Init
<1> QED
  BY <1>2, <1>3, <1>4, <1>5, <1>6, <1>7 DEF TypeOK

\* The variables of brokers, yos and socket files keep their types.
THEOREM TypeCorrect == Spec => []TypeOK
<1>1. Init => TypeOK
  BY InitTyped
<1>2. TypeOK /\ [Next]_vars => TypeOK'
  BY StepTyped
<1> QED
  BY <1>1, <1>2, PTL DEF Spec

-----------------------------------------------------------------------------
(* No socket file is left by an orderly end.                               *)

\* A shutdown is under way when one of its two threads is past its start.
LEMMA ExitingIs ==
  \A e \in [Threads -> ExitSteps] : e = NoExit <=> \A t \in Threads : e[t] = "run"
BY DEF NoExit

\* A broker that owns no file, or is killed, ends without breaking CleanInv.
LEMMA DiesClean ==
  ASSUME CleanInv, TypeOK', NEW b \in Broker, Dies(b), UNCHANGED file,
         \/ crashed' = [crashed EXCEPT ![b] = TRUE]
         \/ (UNCHANGED crashed /\ file["guest"] # b /\ file["control"] # b)
  PROVE  CleanInv'
<1>1. FileInv'
  BY DEF CleanInv, FileInv, TypeOK, Dies
<1>2. ExitInv'
  <2>1. \A t \in Threads : exit'[b][t] = "run"
    BY DEF CleanInv, TypeOK, Dies, NoExit
  <2>2. \A c \in Broker \ {b} : exit'[c] = exit[c] /\ bpc'[c] = bpc[c]
    BY DEF CleanInv, TypeOK, Dies
  <2>3. exit'[b] = NoExit
    BY DEF CleanInv, TypeOK, Dies
  <2> SUFFICES ASSUME NEW c \in Broker
               PROVE  /\ exit'[c] # NoExit => bpc'[c] \in {"ready", "serve"}
                      /\ \A t \in Threads :
                           /\ exit'[c][t] \in {"stat control", "unlink control", "end"}
                                => file["guest"] # c
                           /\ exit'[c][t] = "end" => file["control"] # c
    BY DEF ExitInv, Exiting
  <2>4. CASE c = b
    BY <2>1, <2>3, <2>4
  <2>5. CASE c # b
    <3>1. exit'[c] = exit[c] /\ bpc'[c] = bpc[c]
      BY <2>2, <2>5
    <3>2. /\ exit[c] # NoExit => bpc[c] \in {"ready", "serve"}
          /\ \A t \in Threads :
               /\ exit[c][t] \in {"stat control", "unlink control", "end"}
                    => file["guest"] # c
               /\ exit[c][t] = "end" => file["control"] # c
      BY DEF CleanInv, ExitInv, Exiting
    <3> QED
      BY <3>1, <3>2
  <2> QED
    BY <2>4, <2>5
<1>3. NoFileLeft'
  <2> SUFFICES ASSUME NEW p \in Paths, file[p] # None, ~Alive(file[p])'
               PROVE  crashed'[file[p]]
    BY DEF NoFileLeft
  <2>1. file[p] \in Broker
    BY DEF CleanInv, TypeOK
  <2>2. CASE file[p] = b
    <3>1. crashed' = [crashed EXCEPT ![b] = TRUE]
      BY <2>2 DEF Paths
    <3> QED
      BY <2>2, <3>1 DEF CleanInv, TypeOK
  <2>3. CASE file[p] # b
    BY <2>1, <2>3 DEF CleanInv, TypeOK, NoFileLeft, Alive, Dies
  <2> QED
    BY <2>2, <2>3
<1> QED
  BY <1>1, <1>2, <1>3 DEF CleanInv

\* A broker that moves on without touching a file keeps CleanInv.
LEMMA MovesClean ==
  ASSUME CleanInv, TypeOK', NEW b \in Broker, NEW there,
         bpc' = [bpc EXCEPT ![b] = there], UNCHANGED <<file, exit, crashed>>,
         \/ /\ there \in {"ready", "serve"} /\ bpc[b] \in {"handler", "ready", "serve"}
         \/ /\ there # "dead" /\ exit[b] = NoExit
            /\ file["guest"] # b /\ file["control"] # b
  PROVE  CleanInv'
<1>1. FileInv'
  BY DEF CleanInv, FileInv, TypeOK
<1>2. ExitInv'
  BY DEF CleanInv, ExitInv, TypeOK, Exiting
<1>3. NoFileLeft'
  <2> SUFFICES ASSUME NEW p \in Paths, file[p] # None, ~Alive(file[p])'
               PROVE  crashed[file[p]]
    BY DEF NoFileLeft
  <2>1. file[p] \in Broker
    BY DEF CleanInv, TypeOK
  <2> QED
    BY <2>1 DEF CleanInv, TypeOK, NoFileLeft, Alive, Paths
<1> QED
  BY <1>1, <1>2, <1>3 DEF CleanInv

\* A step that touches neither brokers nor files keeps CleanInv.
LEMMA IdleClean ==
  ASSUME CleanInv, TypeOK', UNCHANGED <<file, bpc, exit, crashed>>
  PROVE  CleanInv'
BY DEF CleanInv, FileInv, ExitInv, Exiting, NoFileLeft, Alive

\* The first half of a start, up to the bind, keeps CleanInv.
LEMMA ReclaimClean ==
  ASSUME CleanInv, TypeOK', NEW b \in Broker,
         Begin(b) \/ TakeStartLock(b) \/ ReclaimSocketPath(b) \/ Register(b)
  PROVE  CleanInv'
<1>1. ASSUME bpc[b] \in {"start", "lock", "register"} \cup Reclaiming
      PROVE  file["guest"] # b /\ file["control"] # b /\ exit[b] = NoExit
  BY <1>1 DEF CleanInv, FileInv, ExitInv, Exiting, Reclaiming
<1>2. ASSUME NEW p \in Paths, NEW here \in Reclaiming, NEW remove \in Reclaiming,
             NEW next \in Reclaiming \cup {"register"}, Probe(b, p, here, remove, next)
      PROVE  CleanInv'
  <2>1. file["guest"] # b /\ file["control"] # b /\ exit[b] = NoExit
    BY <1>1, <1>2 DEF Probe
  <2>2. CASE Dies(b)
    BY <1>2, <2>1, <2>2, DiesClean DEF Probe
  <2>3. CASE ~Dies(b)
    <3>1. PICK there \in {remove, next} : BGoto(b, there)
      BY <1>2, <2>3 DEF Probe
    <3>2. UNCHANGED <<file, exit, crashed>>
      BY <1>2, <2>3 DEF Probe
    <3> QED
      BY <2>1, <3>1, <3>2, MovesClean DEF BGoto, Reclaiming
  <2> QED
    BY <2>2, <2>3
<1>3. ASSUME NEW p \in Paths, NEW here \in Reclaiming,
             NEW next \in Reclaiming \cup {"register"}, Remove(b, p, here, next)
      PROVE  CleanInv'
  <2>1. file["guest"] # b /\ file["control"] # b /\ exit[b] = NoExit
    BY <1>1, <1>3 DEF Remove
  <2>2. \A q \in Paths : file'[q] = file[q] \/ file'[q] = None
    BY <1>3 DEF CleanInv, TypeOK, Remove
  <2>3. FileInv'
    BY <1>3, <2>1, <2>2, PathNames, NoneAssumption
    DEF CleanInv, TypeOK, FileInv, Remove, BGoto
  <2>4. ExitInv'
    BY ZenonT(60), <1>3, <2>1, <2>2, PathNames, NoneAssumption
    DEF CleanInv, TypeOK, ExitInv, Exiting, Remove, BGoto
  <2>5. NoFileLeft'
    <3> SUFFICES ASSUME NEW q \in Paths, file'[q] # None, ~Alive(file[q])'
                 PROVE  crashed'[file'[q]]
      BY DEF NoFileLeft
    <3>1. file'[q] = file[q] /\ file[q] \in Broker /\ file[q] # b
      BY <2>1, <2>2 DEF CleanInv, TypeOK, Paths
    <3> QED
      BY <1>3, <3>1 DEF CleanInv, TypeOK, NoFileLeft, Alive, Remove, BGoto
  <2> QED
    BY <2>3, <2>4, <2>5 DEF CleanInv
<1>4. CASE Begin(b)
  <2>1. file["guest"] # b /\ file["control"] # b /\ exit[b] = NoExit
    BY <1>1, <1>4 DEF Begin
  <2> QED
    BY <1>4, <2>1, DiesClean, MovesClean DEF Begin, BGoto
<1>5. CASE TakeStartLock(b)
  <2>1. file["guest"] # b /\ file["control"] # b /\ exit[b] = NoExit
    BY <1>1, <1>5 DEF TakeStartLock
  <2> QED
    BY <1>5, <2>1, MovesClean DEF TakeStartLock, BGoto
<1>6. CASE ReclaimSocketPath(b)
  BY <1>2, <1>3, <1>6, PathNames DEF ReclaimSocketPath, Reclaiming
<1>7. CASE Register(b)
  <2>1. file["guest"] # b /\ file["control"] # b /\ exit[b] = NoExit
    BY <1>1, <1>7 DEF Register
  <2> QED
    BY <1>7, <2>1, DiesClean, MovesClean DEF Register, BGoto
<1> QED
  BY <1>4, <1>5, <1>6, <1>7

\* While no shutdown of b is under way, b may bind or lose a file under ExitInv.
LEMMA ExitKept ==
  ASSUME CleanInv, NEW b \in Broker, exit' = exit, exit[b] = NoExit,
         \A c \in Broker \ {b} : bpc'[c] = bpc[c],
         \A p \in Paths : file'[p] \in {file[p], None, b}
  PROVE  ExitInv'
<1> SUFFICES ASSUME NEW c \in Broker
             PROVE  /\ exit[c] # NoExit => bpc'[c] \in {"ready", "serve"}
                    /\ \A t \in Threads :
                         /\ exit[c][t] \in {"stat control", "unlink control", "end"}
                              => file'["guest"] # c
                         /\ exit[c][t] = "end" => file'["control"] # c
  BY DEF ExitInv, Exiting
<1>1. CASE c = b
  <2>1. \A t \in Threads : exit[c][t] = "run"
    BY <1>1 DEF NoExit
  <2> QED
    BY <1>1, <2>1
<1>2. CASE c # b
  <2>1. bpc'[c] = bpc[c]
    BY <1>2
  <2>2. \A p \in Paths : file[p] # c => file'[p] # c
    BY <1>2, NoneAssumption
  <2>3. /\ exit[c] # NoExit => bpc[c] \in {"ready", "serve"}
        /\ \A t \in Threads :
             /\ exit[c][t] \in {"stat control", "unlink control", "end"} => file["guest"] # c
             /\ exit[c][t] = "end" => file["control"] # c
    BY DEF CleanInv, ExitInv, Exiting
  <2> QED
    BY <2>1, <2>2, <2>3, PathNames
<1> QED
  BY <1>1, <1>2

\* The rest of a start, from the bind to READY, keeps CleanInv.
LEMMA BindClean ==
  ASSUME CleanInv, TypeOK', NEW b \in Broker,
         BindGuest(b) \/ BindControl(b) \/ InstallHandler(b) \/ PrintReady(b)
  PROVE  CleanInv'
<1> USE NoneAssumption
<1>1. ASSUME bpc[b] \in Masked
      PROVE  exit[b] = NoExit
  BY <1>1 DEF CleanInv, ExitInv, Exiting, Masked
<1>2. CASE BindGuest(b)
  <2>1. exit[b] = NoExit /\ file["control"] # b
    BY <1>1, <1>2 DEF CleanInv, FileInv, BindGuest, Masked
  <2>2. CASE Dies(b)
    <3>1. file["guest"] # b
      BY <1>2 DEF CleanInv, FileInv, BindGuest
    <3>2. UNCHANGED file
      <4>1. bpc' # [bpc EXCEPT ![b] = "bind control"]
        BY <2>2 DEF Dies, CleanInv, TypeOK
      <4> QED
        BY <1>2, <4>1 DEF BindGuest, BGoto
    <3> QED
      BY <1>2, <2>1, <2>2, <3>1, <3>2, DiesClean DEF BindGuest
  <2>3. CASE file["guest"] = None /\ file' = [file EXCEPT !["guest"] = b] /\ BGoto(b, "bind control")
    <3>1. file'["guest"] = b /\ file'["control"] = file["control"]
      BY <2>3, PathNames DEF CleanInv, TypeOK
    <3>2. FileInv'
      BY <2>1, <2>3, <3>1 DEF CleanInv, TypeOK, FileInv, BGoto
    <3>3. ExitInv'
      <4>0. bpc' # [bpc EXCEPT ![b] = "dead"]
        BY <2>3 DEF BGoto, CleanInv, TypeOK
      <4>1. exit' = exit
        BY <1>2, <4>0 DEF BindGuest, Dies
      <4>2. \A c \in Broker \ {b} : bpc'[c] = bpc[c]
        BY <2>3 DEF CleanInv, TypeOK, BGoto
      <4> QED
        BY <2>1, <3>1, <4>1, <4>2, ExitKept DEF Paths
    <3>4. NoFileLeft'
      <4> SUFFICES ASSUME NEW p \in Paths, file'[p] # None, ~Alive(file[p])'
                   PROVE  crashed'[file'[p]]
        BY DEF NoFileLeft
      <4> QED
        BY <1>2, <2>3, <3>1 DEF CleanInv, TypeOK, NoFileLeft, Alive, BGoto, Paths, BindGuest
    <3> QED
      BY <3>2, <3>3, <3>4 DEF CleanInv
  <2> QED
    BY <1>2, <2>2, <2>3 DEF BindGuest
<1>3. CASE BindControl(b)
  <2>1. exit[b] = NoExit /\ file["control"] # b
    BY <1>1, <1>3 DEF CleanInv, FileInv, BindControl, Masked
  <2>2. CASE Dies(b) /\ file' = [file EXCEPT !["guest"] = IF @ = b THEN None ELSE @]
    <3>1. /\ file'["control"] = file["control"]
          /\ file'["guest"] = file["guest"] \/ file'["guest"] = None
          /\ file'["guest"] # b
      BY <2>2, PathNames DEF CleanInv, TypeOK
    <3>2. bpc' = [bpc EXCEPT ![b] = "dead"] /\ exit' = [exit EXCEPT ![b] = NoExit]
      BY <2>2 DEF Dies
    <3>3. exit' = exit
      BY <2>1, <3>2 DEF CleanInv, TypeOK
    <3>4. FileInv'
      <4> SUFFICES ASSUME NEW c \in Broker
                   PROVE  /\ file'["guest"] = c =>
                               bpc'[c] \in {"bind control", "handler", "ready", "serve", "dead"}
                          /\ file'["control"] = c =>
                               bpc'[c] \in {"handler", "ready", "serve", "dead"}
        BY DEF FileInv
      <4>1. bpc'[c] = IF c = b THEN "dead" ELSE bpc[c]
        BY <3>2 DEF CleanInv, TypeOK
      <4> QED
        BY <2>1, <3>1, <4>1 DEF CleanInv, FileInv
    <3>5. ExitInv'
      <4>1. \A c \in Broker \ {b} : bpc'[c] = bpc[c]
        BY <3>2 DEF CleanInv, TypeOK
      <4> QED
        BY <2>1, <3>1, <3>3, <4>1, ExitKept DEF Paths
    <3>6. NoFileLeft'
      <4> SUFFICES ASSUME NEW p \in Paths, file'[p] # None, ~Alive(file[p])'
                   PROVE  crashed'[file'[p]]
        BY DEF NoFileLeft
      <4>1. file'[p] = file[p] /\ file[p] # b
        BY <2>1, <3>1 DEF Paths
      <4> QED
        BY ZenonT(60), <1>3, <3>2, <4>1 DEF CleanInv, TypeOK, NoFileLeft, Alive, BindControl
    <3> QED
      BY <3>4, <3>5, <3>6 DEF CleanInv
  <2>3. CASE file["control"] = None /\ file' = [file EXCEPT !["control"] = b]
             /\ BGoto(b, "handler") /\ UNCHANGED exit
    <3>1. file'["control"] = b /\ file'["guest"] = file["guest"]
      BY <2>3, PathNames DEF CleanInv, TypeOK
    <3>2. FileInv'
      BY <1>3, <2>3, <3>1 DEF CleanInv, TypeOK, FileInv, BGoto, BindControl
    <3>3. ExitInv'
      <4>1. \A c \in Broker \ {b} : bpc'[c] = bpc[c]
        BY <2>3 DEF CleanInv, TypeOK, BGoto
      <4> QED
        BY <2>1, <2>3, <3>1, <4>1, ExitKept DEF Paths
    <3>4. NoFileLeft'
      <4> SUFFICES ASSUME NEW p \in Paths, file'[p] # None, ~Alive(file[p])'
                   PROVE  crashed'[file'[p]]
        BY DEF NoFileLeft
      <4> QED
        BY <1>3, <2>3, <3>1 DEF CleanInv, TypeOK, NoFileLeft, Alive, BGoto, Paths, BindControl
    <3> QED
      BY <3>2, <3>3, <3>4 DEF CleanInv
  <2> QED
    BY <1>3, <2>2, <2>3 DEF BindControl
<1>4. CASE InstallHandler(b)
  BY <1>4, MovesClean DEF InstallHandler, BGoto
<1>5. CASE PrintReady(b)
  BY <1>5, DiesClean, MovesClean DEF PrintReady, BGoto
<1> QED
  BY <1>2, <1>3, <1>4, <1>5

\* A shutdown that takes its next step over the files keeps CleanInv.
LEMMA ExitMovesClean ==
  ASSUME CleanInv, TypeOK', NEW b \in Broker, NEW t \in Threads, NEW next \in ExitSteps,
         bpc[b] \in {"ready", "serve"}, exit' = [exit EXCEPT ![b][t] = next],
         UNCHANGED <<bpc, crashed>>,
         \A p \in Paths : file'[p] \in {file[p], None},
         next \in {"stat control", "unlink control", "end"} => file'["guest"] # b,
         next = "end" => file'["control"] # b
  PROVE  CleanInv'
<1> USE NoneAssumption, PathNames
<1>1. FileInv'
  BY DEF CleanInv, FileInv
<1>2. ExitInv'
  <2> SUFFICES ASSUME NEW c \in Broker
               PROVE  /\ exit'[c] # NoExit => bpc[c] \in {"ready", "serve"}
                      /\ \A u \in Threads :
                           /\ exit'[c][u] \in {"stat control", "unlink control", "end"}
                                => file'["guest"] # c
                           /\ exit'[c][u] = "end" => file'["control"] # c
    BY DEF ExitInv, Exiting
  <2>1. \A p \in Paths : file[p] # c => file'[p] # c
    OBVIOUS
  <2>2. CASE c = b
    <3>1. \A u \in Threads : exit'[b][u] = IF u = t THEN next ELSE exit[b][u]
      BY DEF CleanInv, TypeOK
    <3>2. \A u \in Threads :
            /\ exit[b][u] \in {"stat control", "unlink control", "end"} => file["guest"] # b
            /\ exit[b][u] = "end" => file["control"] # b
      BY DEF CleanInv, ExitInv
    <3> QED
      BY <2>1, <2>2, <3>1, <3>2
  <2>3. CASE c # b
    <3>1. exit'[c] = exit[c]
      <4>1. DOMAIN exit = Broker
        BY DEF CleanInv, TypeOK
      <4>2. ASSUME NEW f, DOMAIN f = Broker
            PROVE  [f EXCEPT ![b][t] = next][c] = f[c]
        BY <2>3, <4>2, Zenon
      <4> QED
        BY <4>1, <4>2, Zenon
    <3>2. /\ exit[c] # NoExit => bpc[c] \in {"ready", "serve"}
          /\ \A u \in Threads :
               /\ exit[c][u] \in {"stat control", "unlink control", "end"} => file["guest"] # c
               /\ exit[c][u] = "end" => file["control"] # c
      BY DEF CleanInv, ExitInv, Exiting
    <3> QED
      BY <2>1, <3>1, <3>2
  <2> QED
    BY <2>2, <2>3
<1>3. NoFileLeft'
  BY DEF CleanInv, NoFileLeft, Alive
<1> QED
  BY <1>1, <1>2, <1>3 DEF CleanInv

\* A step of a shutdown keeps CleanInv.
LEMMA ShutDownClean ==
  ASSUME CleanInv, TypeOK', NEW b \in Broker, ShutDown(b)
  PROVE  CleanInv'
<1> USE PathNames
<1>1. CASE TermKills(b)
  <2>1. file["guest"] # b /\ file["control"] # b
    BY <1>1 DEF TermKills, CleanInv, FileInv, Masked, Alive
  <2> QED
    BY <1>1, <2>1, DiesClean DEF TermKills
<1>2. CASE TermHandler(b)
  BY <1>2, ExitMovesClean DEF TermHandler, ExitGoto, Threads, ExitSteps
<1>3. CASE WatchFires(b)
  BY <1>3, ExitMovesClean DEF WatchFires, ExitGoto, Threads, ExitSteps
<1>4. ASSUME NEW t \in Threads, UnlinkBound(b, t)
      PROVE  CleanInv'
  <2>1. exit[b][t] # "run"
    BY <1>4 DEF UnlinkBound, Stat, Unlink
  <2>2. bpc[b] \in {"ready", "serve"}
    BY <2>1 DEF CleanInv, ExitInv, Exiting, NoExit
  <2>3. exit[b][t] \in {"stat control", "unlink control"} => file["guest"] # b
    BY DEF CleanInv, ExitInv
  <2>4. CASE Stat(b, t, "guest", "stat guest", "unlink guest", "stat control")
    BY <2>2, <2>4, ExitMovesClean DEF Stat, ExitGoto, ExitSteps
  <2>5. CASE Unlink(b, t, "guest", "unlink guest", "stat control")
    <3>1. /\ file'["guest"] = None /\ file'["control"] = file["control"]
          /\ \A p \in Paths : file'[p] \in {file[p], None}
      BY <2>5 DEF Unlink, CleanInv, TypeOK
    <3> QED
      BY <2>2, <2>5, <3>1, NoneAssumption, ExitMovesClean DEF Unlink, ExitGoto, ExitSteps
  <2>6. CASE Stat(b, t, "control", "stat control", "unlink control", "end")
    BY <2>2, <2>3, <2>6, ExitMovesClean DEF Stat, ExitGoto, ExitSteps
  <2>7. CASE Unlink(b, t, "control", "unlink control", "end")
    <3>1. /\ file'["control"] = None /\ file'["guest"] = file["guest"]
          /\ \A p \in Paths : file'[p] \in {file[p], None}
      BY <2>7 DEF Unlink, CleanInv, TypeOK
    <3> QED
      BY <2>2, <2>3, <2>7, <3>1, NoneAssumption, ExitMovesClean
      DEF Unlink, ExitGoto, ExitSteps
  <2> QED
    BY <1>4, <2>4, <2>5, <2>6, <2>7 DEF UnlinkBound
<1>5. ASSUME NEW t \in Threads, ExitCleanly(b, t)
      PROVE  CleanInv'
  <2>1. file["guest"] # b /\ file["control"] # b
    BY <1>5 DEF ExitCleanly, CleanInv, ExitInv
  <2> QED
    BY <1>5, <2>1, DiesClean DEF ExitCleanly
<1> QED
  BY <1>1, <1>2, <1>3, <1>4, <1>5 DEF ShutDown

\* Every step keeps CleanInv.
LEMMA StepClean ==
  ASSUME CleanInv, [Next]_vars
  PROVE  CleanInv'
<1> USE PathNames
<1>0. TypeOK'
  BY StepTyped DEF CleanInv
<1>1. CASE UNCHANGED vars
  BY <1>0, <1>1, IdleClean DEF vars, brokerVars
<1>2. CASE VmStart \/ VmStop
  BY <1>0, <1>2, IdleClean DEF VmStart, VmStop, brokerVars
<1>3. ASSUME NEW b \in Broker, StartUp(b)
      PROVE  CleanInv'
  BY <1>0, <1>3, ReclaimClean, BindClean DEF StartUp
<1>4. ASSUME NEW b \in Broker, ShutDown(b)
      PROVE  CleanInv'
  BY <1>0, <1>4, ShutDownClean
<1>5. ASSUME NEW b \in Broker, Killed(b)
      PROVE  CleanInv'
  BY <1>0, <1>5, DiesClean DEF Killed
<1>6. ASSUME NEW b \in Broker, Recycle(b)
      PROVE  CleanInv'
  <2>1. /\ \A p \in Paths : file[p] # b
        /\ bpc' = [bpc EXCEPT ![b] = "none"] /\ crashed' = [crashed EXCEPT ![b] = FALSE]
        /\ UNCHANGED <<file, exit>>
    BY <1>6 DEF Recycle, BGoto
  <2>2. exit[b] = NoExit
    BY <1>6 DEF Recycle, CleanInv, ExitInv, Exiting
  <2>3. FileInv'
    BY <2>1 DEF CleanInv, TypeOK, FileInv
  <2>4. ExitInv'
    BY <2>1, <2>2, ExitKept DEF CleanInv, TypeOK
  <2>5. NoFileLeft'
    BY <2>1 DEF CleanInv, TypeOK, NoFileLeft, Alive
  <2> QED
    BY <1>0, <2>3, <2>4, <2>5 DEF CleanInv
<1>7. ASSUME NEW y \in Yo, YoSpawn(y)
      PROVE  CleanInv'
  <2>1. PICK b \in Broker : bpc[b] = "none" /\ BGoto(b, "start")
    BY <1>7 DEF YoSpawn
  <2>2. file["guest"] # b /\ file["control"] # b /\ exit[b] = NoExit
    BY <2>1 DEF CleanInv, FileInv, ExitInv, Exiting
  <2> QED
    BY <1>0, <1>7, <2>1, <2>2, MovesClean DEF YoSpawn, BGoto
<1>8. ASSUME NEW y \in Yo, YoStep(y) \/ YoDies(y), ~YoSpawn(y)
      PROVE  CleanInv'
  <2>1. UNCHANGED <<file, bpc, exit, crashed>>
    BY <1>8 DEF YoStep, YoDies, YoBegin, YoTakeLock, YoCheck, YoSignal, YoWait,
                YoHandshake, YoReap, brokerVars
  <2> QED
    BY <1>0, <2>1, IdleClean
<1> QED
  BY <1>1, <1>2, <1>3, <1>4, <1>5, <1>6, <1>7, <1>8 DEF Next, YoStep

\* The initial state satisfies CleanInv.
LEMMA InitClean ==
  ASSUME Init
  PROVE  CleanInv
<1>1. FileInv /\ NoFileLeft
  BY NoneAssumption, PathNames DEF Init, FileInv, NoFileLeft
<1>2. ExitInv
  BY NoneAssumption, PathNames DEF Init, ExitInv, Exiting, NoExit
<1> QED
  BY <1>1, <1>2, InitTyped DEF CleanInv

\* However many brokers and yos there are, and however two shutdowns of one broker
\* overlap: only a broker that was killed, or had no reader for its READY, leaves a
\* socket file (the blocked SIGTERM, bind_servers, unlink_bound).
THEOREM OrderlyEndsClean == Spec => []NoFileLeft
<1>1. Init => CleanInv
  BY InitClean
<1>2. CleanInv /\ [Next]_vars => CleanInv'
  BY StepClean
<1>3. CleanInv => NoFileLeft
  BY DEF CleanInv
<1> QED
  BY <1>1, <1>2, <1>3, PTL DEF Spec

-----------------------------------------------------------------------------
(* A broker that serves has its sockets, one shutdown at a time.           *)

\* What ReachInv adds to CleanInv.
Reach == StartLockInv /\ UnlinkInv /\ ReclaimInv /\ ServingIsReachable

\* The end of a broker that takes no file away keeps Reach (Dies).
LEMMA DiesReach ==
  ASSUME ReachInv, TypeOK', NEW b \in Broker, Dies(b), UNCHANGED file
  PROVE  Reach'
<1> USE PathNames, NoneAssumption
<1>1. /\ bpc'[b] = "dead" /\ exit'[b] = NoExit
      /\ \A c \in Broker \ {b} : bpc'[c] = bpc[c] /\ exit'[c] = exit[c]
  BY DEF ReachInv, CleanInv, TypeOK, Dies
<1>2. StartLockInv'
  BY <1>1 DEF ReachInv, StartLockInv, Dies, Locked, Reclaiming, Masked
<1>3. UnlinkInv'
  <2> SUFFICES ASSUME NEW c \in Broker
               PROVE  /\ exit'[c]["term"] = "run" \/ exit'[c]["watch"] = "run"
                      /\ \A t \in Threads :
                           /\ exit'[c][t] = "unlink guest" => file["guest"] = c
                           /\ exit'[c][t] = "unlink control" => file["control"] = c
    BY DEF UnlinkInv
  <2>1. CASE c = b
    BY <1>1, <2>1 DEF NoExit, Threads
  <2>2. CASE c # b
    BY <1>1, <2>2 DEF ReachInv, UnlinkInv
  <2> QED
    BY <2>1, <2>2
<1>4. ReclaimInv'
  <2>1. \A c \in Broker : ~Alive(c) => ~Alive(c)'
    BY <1>1 DEF Alive
  <2>2. \A p \in Paths : file[p] \in Broker \cup {None}
    BY DEF ReachInv, CleanInv, TypeOK
  <2> QED
    BY <1>1, <2>1, <2>2 DEF ReachInv, ReclaimInv
<1>5. ServingIsReachable'
  BY <1>1 DEF ReachInv, ServingIsReachable, Exiting
<1> QED
  BY <1>2, <1>3, <1>4, <1>5 DEF Reach

\* A broker that moves on keeps Reach, if it takes or drops the start lock as it
\* must and its new place asks for no more than it has.
LEMMA MovesReach ==
  ASSUME ReachInv, TypeOK', NEW b \in Broker, NEW there \in Bpcs, there # "dead",
         bpc' = [bpc EXCEPT ![b] = there], UNCHANGED <<file, exit>>,
         \A c \in Broker \ {b} : startLock' = c <=> startLock = c,
         startLock' = b <=> there \in Locked,
         there = "unlink guest" => file["guest"] = None \/ ~Alive(file["guest"]),
         there = "unlink control" => file["control"] = None \/ ~Alive(file["control"]),
         \/ there \in {"ready", "serve"} /\ bpc[b] \in {"handler", "ready", "serve"}
         \/ there \notin {"bind control", "handler", "ready", "serve"} /\ \A p \in Paths : file[p] # b
  PROVE  Reach'
<1> USE PathNames, NoneAssumption
<1>1. bpc'[b] = there /\ \A c \in Broker \ {b} : bpc'[c] = bpc[c]
  BY DEF ReachInv, CleanInv, TypeOK
<1>2. StartLockInv'
  BY <1>1 DEF ReachInv, StartLockInv
<1>3. UnlinkInv'
  BY DEF ReachInv, UnlinkInv
<1>4. ReclaimInv'
  <2>1. \A p \in Paths : file[p] \in Broker \cup {None}
    BY DEF ReachInv, CleanInv, TypeOK
  <2>2. ASSUME NEW p \in Paths, file[p] = None \/ ~Alive(file[p]), file[p] # b
        PROVE  file[p] = None \/ ~Alive(file[p])'
    BY <1>1, <2>1, <2>2 DEF Alive
  <2>3. ASSUME NEW p \in Paths, there \in {"ready", "serve"},
               bpc[b] \in {"handler", "ready", "serve"}, file[p] = None \/ ~Alive(file[p])
        PROVE  file[p] # b
    BY <2>3 DEF Alive
  <2> QED
    BY <1>1, <2>2, <2>3 DEF ReachInv, ReclaimInv
<1>5. ServingIsReachable'
  BY <1>1 DEF ReachInv, ServingIsReachable, Exiting
<1> QED
  BY <1>2, <1>3, <1>4, <1>5 DEF Reach

\* A step that touches no broker, file or start lock keeps Reach.
LEMMA IdleReach ==
  ASSUME ReachInv, UNCHANGED <<file, bpc, exit, startLock>>
  PROVE  Reach'
BY DEF ReachInv, Reach, StartLockInv, UnlinkInv, ReclaimInv, ServingIsReachable, Exiting, Alive

\* A step over one socket file that harms no live broker's keeps Reach: it was
\* nobody's, a dead broker's, or that of b, which is on its way out.
LEMMA FileReach ==
  ASSUME ReachInv, TypeOK', NEW b \in Broker, NEW p \in Paths, NEW there \in Bpcs,
         bpc' = [bpc EXCEPT ![b] = there],
         \/ file[p] = None
         \/ ~Alive(file[p])
         \/ file[p] = b,
         \/ file' = [file EXCEPT ![p] = None]
         \/ file' = [file EXCEPT ![p] = b],
         \A t \in Threads : exit[b][t] = "run", exit' = exit,
         startLock' = b <=> there \in Locked,
         \A c \in Broker \ {b} : startLock' = c <=> startLock = c,
         startLock = b,
         there \notin {"unlink guest", "unlink control"},
         there = "bind control" => file'["guest"] = b,
         there \in {"handler", "ready", "serve"} => file'["guest"] = b /\ file'["control"] = b
  PROVE  Reach'
<1> USE PathNames, NoneAssumption
<1>1. bpc'[b] = there /\ \A c \in Broker \ {b} : bpc'[c] = bpc[c]
  BY DEF ReachInv, CleanInv, TypeOK
<1>2. \A q \in Paths \ {p} : file'[q] = file[q]
  BY DEF ReachInv, CleanInv, TypeOK
<1>3. \A c \in Broker \ {b} : \A q \in Paths : Alive(c) /\ file[q] = c => file'[q] = c
  <2> SUFFICES ASSUME NEW c \in Broker \ {b}, NEW q \in Paths, Alive(c), file[q] = c
               PROVE  file'[q] = c
    OBVIOUS
  <2>1. q # p
    OBVIOUS
  <2> QED
    BY <1>2, <2>1
<1>4. StartLockInv'
  BY <1>1 DEF ReachInv, StartLockInv
<1>5. \A c \in Broker \ {b} : bpc[c] \notin Locked
  BY DEF ReachInv, StartLockInv
<1>6. UnlinkInv'
  <2> SUFFICES ASSUME NEW c \in Broker
               PROVE  /\ exit[c]["term"] = "run" \/ exit[c]["watch"] = "run"
                      /\ \A t \in Threads :
                           /\ exit[c][t] = "unlink guest" => file'["guest"] = c
                           /\ exit[c][t] = "unlink control" => file'["control"] = c
    BY DEF UnlinkInv
  <2>1. CASE c = b
    BY <2>1 DEF Threads
  <2>2. CASE c # b
    <3>1. ASSUME NEW t \in Threads, exit[c][t] # "run"
          PROVE  Alive(c)
      BY ZenonT(60), <3>1 DEF ReachInv, CleanInv, ExitInv, Exiting, NoExit, Alive
    <3> QED
      BY <1>3, <2>2, <3>1 DEF ReachInv, UnlinkInv
  <2> QED
    BY <2>1, <2>2
<1>7. ReclaimInv'
  BY <1>1, <1>5 DEF ReachInv, ReclaimInv, Locked, Reclaiming, Masked
<1>8. ServingIsReachable'
  <2> SUFFICES ASSUME NEW c \in Broker, bpc'[c] \in {"handler", "ready", "serve"},
                      exit[c] = NoExit, NEW q \in Paths
               PROVE  file'[q] = c
    BY DEF ServingIsReachable, Exiting
  <2>1. CASE c = b
    BY <1>1, <2>1 DEF Paths
  <2>2. CASE c # b
    BY ZenonT(60), <1>1, <1>3, <2>2 DEF ReachInv, ServingIsReachable, Exiting, Alive
  <2> QED
    BY <2>1, <2>2
<1> QED
  BY <1>4, <1>6, <1>7, <1>8 DEF Reach

\* A step of a start keeps Reach.
LEMMA StartUpReach ==
  ASSUME ReachInv, TypeOK', NEW b \in Broker, StartUp(b)
  PROVE  Reach'
<1> USE PathNames, NoneAssumption DEF BGoto
<1>1. ASSUME bpc[b] \in {"start", "lock", "register", "bind guest"} \cup Reclaiming
      PROVE  \A p \in Paths : file[p] # b
  BY <1>1 DEF ReachInv, CleanInv, FileInv, Reclaiming, Paths
<1>2. ASSUME bpc[b] \notin {"ready", "serve"}
      PROVE  exit[b] = NoExit /\ \A t \in Threads : exit[b][t] = "run"
  BY <1>2 DEF ReachInv, CleanInv, ExitInv, Exiting, NoExit
<1>3. bpc[b] \in Locked <=> startLock = b
  BY DEF ReachInv, StartLockInv
<1>4. CASE Begin(b)
  BY <1>1, <1>3, <1>4, DiesReach, MovesReach
  DEF Begin, Bpcs, Locked, Reclaiming, Masked
<1>5. CASE TakeStartLock(b)
  BY <1>1, <1>3, <1>5, MovesReach DEF TakeStartLock, Bpcs, Locked, Reclaiming, Masked
<1>6. ASSUME NEW p \in Paths, NEW here \in Reclaiming, NEW remove \in Reclaiming,
             NEW next \in {"probe control", "register"},
             \/ p = "guest" /\ remove = "unlink guest"
             \/ p = "control" /\ remove = "unlink control",
             Probe(b, p, here, remove, next)
      PROVE  Reach'
  <2>1. startLock = b /\ \A q \in Paths : file[q] # b
    BY <1>1, <1>3, <1>6 DEF Probe, Locked
  <2>2. CASE Dies(b)
    BY <1>6, <2>2, DiesReach DEF Probe
  <2>3. CASE ~Dies(b)
    BY <1>6, <2>1, <2>3, MovesReach DEF Probe, Bpcs, Locked, Reclaiming
  <2> QED
    BY <2>2, <2>3
<1>7. ASSUME NEW p \in Paths, NEW here \in Reclaiming, NEW next \in {"probe control", "register"},
             \/ p = "guest" /\ here = "unlink guest"
             \/ p = "control" /\ here = "unlink control",
             Remove(b, p, here, next)
      PROVE  Reach'
  <2>1. startLock = b /\ \A t \in Threads : exit[b][t] = "run"
    BY <1>2, <1>3, <1>7 DEF Remove, Locked, Reclaiming
  <2>2. file[p] = None \/ ~Alive(file[p])
    BY <1>7 DEF Remove, ReachInv, ReclaimInv
  <2> QED
    BY <1>7, <2>1, <2>2, FileReach DEF Remove, Bpcs, Locked, Reclaiming
<1>8. CASE ReclaimSocketPath(b)
  BY <1>6, <1>7, <1>8 DEF ReclaimSocketPath, Reclaiming
<1>9. CASE Register(b)
  BY <1>1, <1>3, <1>9, DiesReach, MovesReach
  DEF Register, Bpcs, Locked, Reclaiming, Masked
<1>10. CASE BindGuest(b)
  <2>1. startLock = b /\ \A t \in Threads : exit[b][t] = "run"
    BY <1>2, <1>3, <1>10 DEF BindGuest, Locked, Masked
  <2>2. CASE Dies(b) /\ UNCHANGED file
    BY <2>2, DiesReach
  <2>3. CASE /\ file["guest"] = None /\ file' = [file EXCEPT !["guest"] = b]
             /\ bpc' = [bpc EXCEPT ![b] = "bind control"] /\ UNCHANGED <<startLock, exit>>
    <3>1. file'["guest"] = b
      BY <2>3 DEF ReachInv, CleanInv, TypeOK
    <3>2. "bind control" \in Bpcs /\ "bind control" \in Locked
      BY DEF Bpcs, Locked, Masked
    <3> QED
      BY <2>1, <2>3, <3>1, <3>2, FileReach
  <2> QED
    BY <1>10, <2>2, <2>3 DEF BindGuest
<1>11. CASE BindControl(b)
  <2>1. startLock = b /\ (\A t \in Threads : exit[b][t] = "run") /\ exit[b] = NoExit
    BY <1>2, <1>3, <1>11 DEF BindControl, Locked, Masked
  <2>2. file["guest"] = b
    BY <1>11 DEF BindControl, ReachInv, ReclaimInv
  <2>3. CASE Dies(b) /\ file' = [file EXCEPT !["guest"] = IF @ = b THEN None ELSE @]
    <3>1. file' = [file EXCEPT !["guest"] = None]
      BY <2>2, <2>3
    <3>2. exit' = exit
      BY <2>1, <2>3 DEF Dies, ReachInv, CleanInv, TypeOK
    <3>3. startLock' = None /\ bpc' = [bpc EXCEPT ![b] = "dead"]
      BY <2>1, <2>3 DEF Dies
    <3>4. "dead" \in Bpcs /\ "dead" \notin Locked
      BY DEF Bpcs, Locked, Reclaiming, Masked
    <3> QED
      BY <2>1, <2>2, <3>1, <3>2, <3>3, <3>4, FileReach
  <2>4. CASE /\ file["control"] = None /\ file' = [file EXCEPT !["control"] = b]
             /\ bpc' = [bpc EXCEPT ![b] = "handler"] /\ UNCHANGED <<startLock, exit>>
    <3>1. file'["control"] = b /\ file'["guest"] = b
      BY <2>2, <2>4 DEF ReachInv, CleanInv, TypeOK
    <3>2. "handler" \in Bpcs /\ "handler" \in Locked
      BY DEF Bpcs, Locked, Masked
    <3> QED
      BY <2>1, <2>4, <3>1, <3>2, FileReach
  <2> QED
    BY <1>11, <2>3, <2>4 DEF BindControl
<1>12. CASE InstallHandler(b)
  <2>1. startLock = b
    BY <1>3, <1>12 DEF InstallHandler, Locked, Masked
  <2> QED
    BY <1>12, <2>1, MovesReach DEF InstallHandler, Bpcs, Locked, Reclaiming, Masked
<1>13. CASE PrintReady(b)
  <2>1. startLock # b
    BY <1>3, <1>13 DEF PrintReady, Locked, Reclaiming, Masked
  <2> QED
    BY <1>13, <2>1, DiesReach, MovesReach DEF PrintReady, Bpcs, Locked, Reclaiming, Masked
<1> QED
  BY <1>4, <1>5, <1>8, <1>9, <1>10, <1>11, <1>12, <1>13 DEF StartUp

\* A step of a shutdown keeps Reach, when a broker runs one at a time.
LEMMA ShutDownReach ==
  ASSUME ReachInv, ~OverlappingExits, TypeOK', NEW b \in Broker, ShutDown(b)
  PROVE  Reach'
<1> USE PathNames, NoneAssumption DEF ExitGoto
<1>1. ASSUME NEW t \in Threads, NEW next \in ExitSteps, exit' = [exit EXCEPT ![b][t] = next],
             UNCHANGED <<bpc, startLock>>,
             bpc[b] \in {"ready", "serve"},
             \A u \in Threads \ {t} : exit[b][u] = "run",
             \A q \in Paths : file'[q] = file[q] \/ (file[q] = b /\ file'[q] = None),
             next = "unlink guest" => file'["guest"] = b,
             next = "unlink control" => file'["control"] = b,
             next # "run"
      PROVE  Reach'
  <2>1. /\ \A c \in Broker \ {b} : exit'[c] = exit[c]
        /\ \A u \in Threads : exit'[b][u] = IF u = t THEN next ELSE "run"
    BY <1>1 DEF ReachInv, CleanInv, TypeOK
  <2>2. StartLockInv'
    BY <1>1 DEF ReachInv, StartLockInv
  <2>3. \A c \in Broker : \A q \in Paths : c # b /\ file[q] = c => file'[q] = c
    BY <1>1
  <2>4. UnlinkInv'
    <3> SUFFICES ASSUME NEW c \in Broker
                 PROVE  /\ exit'[c]["term"] = "run" \/ exit'[c]["watch"] = "run"
                        /\ \A u \in Threads :
                             /\ exit'[c][u] = "unlink guest" => file'["guest"] = c
                             /\ exit'[c][u] = "unlink control" => file'["control"] = c
      BY DEF UnlinkInv
    <3>1. CASE c = b
      BY <1>1, <2>1, <3>1 DEF Threads
    <3>2. CASE c # b
      <4>1. exit'[c] = exit[c]
        BY <2>1, <3>2
      <4>2. /\ exit[c]["term"] = "run" \/ exit[c]["watch"] = "run"
            /\ \A u \in Threads :
                 /\ exit[c][u] = "unlink guest" => file["guest"] = c
                 /\ exit[c][u] = "unlink control" => file["control"] = c
        BY DEF ReachInv, UnlinkInv
      <4>3. \A q \in Paths : file[q] = c => file'[q] = c
        BY <2>3, <3>2
      <4> QED
        BY <4>1, <4>2, <4>3
    <3> QED
      BY <3>1, <3>2
  <2>5. ReclaimInv'
    BY <1>1, <2>3 DEF ReachInv, ReclaimInv, Alive
  <2>6. ServingIsReachable'
    <3> SUFFICES ASSUME NEW c \in Broker, bpc[c] \in {"handler", "ready", "serve"},
                        exit'[c] = NoExit, NEW q \in Paths
                 PROVE  file'[q] = c
      BY <1>1 DEF ServingIsReachable, Exiting
    <3>1. c # b
      <4>1. NoExit[t] = "run"
        BY DEF NoExit
      <4>2. exit'[b][t] # "run"
        BY <1>1, <2>1
      <4> QED
        BY <4>1, <4>2
    <3> QED
      <4>1. exit[c] = NoExit
        BY <2>1, <3>1
      <4>2. file[q] = c
        BY <4>1 DEF ReachInv, ServingIsReachable, Exiting
      <4> QED
        BY <2>3, <3>1, <4>2
  <2> QED
    BY <2>2, <2>4, <2>5, <2>6 DEF Reach
<1>2. CASE TermKills(b)
  BY <1>2, DiesReach DEF TermKills
<1>3. ASSUME NEW t \in Threads, exit[b][t] = "run", MayExit(b), bpc[b] \in {"ready", "serve"},
             exit' = [exit EXCEPT ![b][t] = "stat guest"],
             UNCHANGED <<bpc, startLock, file>>
      PROVE  Reach'
  <2>1. exit[b] = NoExit
    BY <1>3 DEF MayExit, Exiting
  <2> QED
    BY <1>1, <1>3, <2>1 DEF NoExit, ExitSteps
<1>4. CASE TermHandler(b) \/ WatchFires(b)
  BY <1>3, <1>4 DEF TermHandler, WatchFires, Threads
<1>5. ASSUME NEW t \in Threads, UnlinkBound(b, t)
      PROVE  Reach'
  <2>1. exit[b][t] # "run" /\ UNCHANGED <<bpc, startLock>>
    BY <1>5 DEF UnlinkBound, Stat, Unlink
  <2>2. bpc[b] \in {"ready", "serve"}
    BY <2>1 DEF ReachInv, CleanInv, ExitInv, Exiting, NoExit
  <2>3. \A u \in Threads \ {t} : exit[b][u] = "run"
    BY <2>1 DEF ReachInv, UnlinkInv, Threads
  <2>4. ASSUME NEW p \in Paths, NEW here, NEW remove \in ExitSteps \ {"run"},
               NEW next \in {"stat control", "end"}, Stat(b, t, p, here, remove, next),
               \/ p = "guest" /\ remove = "unlink guest"
               \/ p = "control" /\ remove = "unlink control"
        PROVE  Reach'
    BY <1>1, <2>1, <2>2, <2>3, <2>4 DEF Stat, ExitSteps
  <2>5. ASSUME NEW p \in Paths, NEW here, NEW next \in {"stat control", "end"},
               Unlink(b, t, p, here, next),
               \/ p = "guest" /\ here = "unlink guest"
               \/ p = "control" /\ here = "unlink control"
        PROVE  Reach'
    <3>1. file[p] = b
      BY <2>5 DEF Unlink, ReachInv, UnlinkInv
    <3>2. \A q \in Paths : file'[q] = file[q] \/ (file[q] = b /\ file'[q] = None)
      BY <2>5, <3>1 DEF Unlink, ReachInv, CleanInv, TypeOK
    <3>3. next \in ExitSteps
      BY DEF ExitSteps
    <3> QED
      BY <1>1, <2>1, <2>2, <2>3, <2>5, <3>2, <3>3 DEF Unlink
  <2> QED
    BY <1>5, <2>4, <2>5 DEF UnlinkBound, ExitSteps
<1>6. ASSUME NEW t \in Threads, ExitCleanly(b, t)
      PROVE  Reach'
  BY <1>6, DiesReach DEF ExitCleanly
<1> QED
  BY <1>2, <1>4, <1>5, <1>6 DEF ShutDown

\* Every step keeps ReachInv, when a broker runs one shutdown at a time.
LEMMA StepReach ==
  ASSUME ReachInv, ~OverlappingExits, [Next]_vars
  PROVE  ReachInv'
<1> USE PathNames, NoneAssumption DEF BGoto
<1>1. CleanInv' /\ TypeOK'
  BY StepClean DEF ReachInv, CleanInv
<1> SUFFICES Reach'
  BY <1>1 DEF Reach, ReachInv
<1>2. CASE UNCHANGED vars \/ VmStart \/ VmStop
  BY <1>2, IdleReach DEF vars, brokerVars, VmStart, VmStop
<1>3. ASSUME NEW b \in Broker, StartUp(b) \/ ShutDown(b)
      PROVE  Reach'
  BY <1>1, <1>3, StartUpReach, ShutDownReach
<1>4. ASSUME NEW b \in Broker, Killed(b)
      PROVE  Reach'
  BY <1>1, <1>4, DiesReach DEF Killed
<1>5. ASSUME NEW b \in Broker, Recycle(b)
      PROVE  Reach'
  <2>1. startLock # b
    BY <1>5 DEF Recycle, ReachInv, StartLockInv, Locked, Reclaiming, Masked
  <2> QED
    BY <1>1, <1>5, <2>1, MovesReach DEF Recycle, Bpcs, Locked, Reclaiming, Masked
<1>6. ASSUME NEW y \in Yo, YoSpawn(y)
      PROVE  Reach'
  <2>1. PICK b \in Broker : bpc[b] = "none" /\ BGoto(b, "start")
    BY <1>6 DEF YoSpawn
  <2>2. startLock # b /\ \A p \in Paths : file[p] # b
    BY <2>1 DEF ReachInv, StartLockInv, CleanInv, FileInv, Locked, Reclaiming, Masked, Paths
  <2> QED
    BY <1>1, <1>6, <2>1, <2>2, MovesReach
    DEF YoSpawn, Bpcs, Locked, Reclaiming, Masked
<1>7. ASSUME NEW y \in Yo, YoStep(y) \/ YoDies(y), ~YoSpawn(y)
      PROVE  Reach'
  <2>1. UNCHANGED <<file, bpc, exit, startLock>>
    BY <1>7 DEF YoStep, YoDies, YoBegin, YoTakeLock, YoCheck, YoSignal, YoWait,
                YoHandshake, YoReap, brokerVars
  <2> QED
    BY <2>1, IdleReach
<1> QED
  BY <1>2, <1>3, <1>4, <1>5, <1>6, <1>7 DEF Next, YoStep

\* The initial state satisfies ReachInv.
LEMMA InitReach ==
  ASSUME Init
  PROVE  ReachInv
<1>1. StartLockInv /\ ReclaimInv /\ ServingIsReachable
  BY NoneAssumption DEF Init, StartLockInv, ReclaimInv, ServingIsReachable, Locked,
                        Reclaiming, Masked
<1>2. UnlinkInv
  BY DEF Init, UnlinkInv, NoExit, Threads
<1> QED
  BY <1>1, <1>2, InitClean DEF ReachInv

\* However many brokers and yos there are: as long as SIGTERM and the VM's end never
\* shut one broker down at the same moment, a broker that serves is at both its paths
\* (held_socket_lock, reclaim_socket_path, unlink_if_same_identity).
THEOREM ServedAtItsPaths ==
  ASSUME ~OverlappingExits
  PROVE  Spec => []ServingIsReachable
<1>1. Init => ReachInv
  BY InitReach
<1>2. ReachInv /\ [Next]_vars => ReachInv'
  BY StepReach
<1>3. ReachInv => ServingIsReachable
  BY DEF ReachInv
<1> QED
  BY <1>1, <1>2, <1>3, PTL DEF Spec

-----------------------------------------------------------------------------
(* The serving side.                                                       *)

\* The connections with a thread, and those in a /creds/ slot.
Busy == {c \in Connection : pc[c] # "none"}
Holding == {c \in Connection : pc[c] \in InSlot}

-----------------------------------------------------------------------------
(* Counting.                                                               *)

\* Both sets are finite and no larger than the bounds NothingLeaks gives.
LEMMA FiniteSets ==
  /\ IsFiniteSet(Busy) /\ Cardinality(Busy) \in Nat
  /\ IsFiniteSet(Holding) /\ Cardinality(Holding) \in Nat
<1>1. Busy \subseteq Connection /\ Holding \subseteq Connection
  BY DEF Busy, Holding
<1>2. IsFiniteSet(Busy) /\ IsFiniteSet(Holding)
  BY <1>1, FiniteAssumption, FS_Subset
<1> QED BY <1>2, FS_CardinalityType

\* A thread that moves enters and leaves the two sets by where it was and goes.
LEMMA MoveCounts ==
  ASSUME Typed, NEW c \in Connection, NEW there, Goto(c, there)
  PROVE  /\ Cardinality(Busy)' =
              IF there = "none"
              THEN IF pc[c] = "none" THEN Cardinality(Busy) ELSE Cardinality(Busy) - 1
              ELSE IF pc[c] = "none" THEN Cardinality(Busy) + 1 ELSE Cardinality(Busy)
         /\ Cardinality(Holding)' =
              IF there \in InSlot
              THEN IF pc[c] \in InSlot THEN Cardinality(Holding) ELSE Cardinality(Holding) + 1
              ELSE IF pc[c] \in InSlot THEN Cardinality(Holding) - 1 ELSE Cardinality(Holding)
<1>1. /\ pc' = [pc EXCEPT ![c] = there] /\ pc'[c] = there
      /\ \A d \in Connection : d # c => pc'[d] = pc[d]
  BY DEF Typed, Goto
<1>2. IF there = "none" THEN Busy' = Busy \ {c} ELSE Busy' = Busy \cup {c}
  BY <1>1 DEF Busy
<1>3. IF there \in InSlot THEN Holding' = Holding \cup {c} ELSE Holding' = Holding \ {c}
  BY <1>1 DEF Holding, InSlot, InGet
<1>4. (c \in Busy <=> pc[c] # "none") /\ (c \in Holding <=> pc[c] \in InSlot)
  BY DEF Busy, Holding
<1>5. /\ Cardinality(Busy \cup {c}) =
           IF c \in Busy THEN Cardinality(Busy) ELSE Cardinality(Busy) + 1
      /\ Cardinality(Busy \ {c}) =
           IF c \in Busy THEN Cardinality(Busy) - 1 ELSE Cardinality(Busy)
  BY FiniteSets, FS_AddElement, FS_RemoveElement
<1>6. /\ Cardinality(Holding \cup {c}) =
           IF c \in Holding THEN Cardinality(Holding) ELSE Cardinality(Holding) + 1
      /\ Cardinality(Holding \ {c}) =
           IF c \in Holding THEN Cardinality(Holding) - 1 ELSE Cardinality(Holding)
  BY FiniteSets, FS_AddElement, FS_RemoveElement
<1> QED BY <1>2, <1>3, <1>4, <1>5, <1>6

\* A step that moves no thread leaves both sets as they are.
LEMMA StillCounts ==
  ASSUME UNCHANGED pc
  PROVE  Cardinality(Busy)' = Cardinality(Busy) /\ Cardinality(Holding)' = Cardinality(Holding)
BY DEF Busy, Holding

\* NothingLeaks, in the terms of the two sets.
LEMMA Leaks ==
  NothingLeaks <=> /\ connections + Cardinality(Busy) = MaxConnections
                   /\ slots + Cardinality(Holding) = MaxConcurrent
BY DEF NothingLeaks, Busy, Holding

-----------------------------------------------------------------------------
(* The initial states.                                                     *)

\* No thread, every slot free, no timer armed.
LEMMA InitServe == ServeInit => ServeInv
<1> SUFFICES ASSUME ServeInit PROVE ServeInv OBVIOUS
<1>1. Typed
  BY BoundAssumption DEF ServeInit, Typed, Handling
<1>2. NothingLeaks
  <2>1. Busy = {} /\ Holding = {}
    BY DEF ServeInit, Busy, Holding, InSlot, InGet
  <2>2. Cardinality(Busy) = 0 /\ Cardinality(Holding) = 0
    BY <2>1, FS_EmptySet
  <2> QED BY <2>2, Leaks, BoundAssumption DEF ServeInit
<1>3. TimerInv /\ MintLockInv /\ MintsAreThrottled
  BY DEF ServeInit, TimerInv, MintLockInv, MintsAreThrottled, InSlot, InGet
<1> QED BY <1>1, <1>2, <1>3 DEF ServeInv, CountInv

-----------------------------------------------------------------------------
(* The steps.                                                              *)

\* Every semaphore is given back as often as it is taken, and no more often.
LEMMA CountStep ==
  ASSUME ServeInv, [ServeNext]_serveVars
  PROVE  CountInv'
<1> USE DEF ServeInv, CountInv
<1> DEFINE B == Cardinality(Busy)
           H == Cardinality(Holding)
<1>0. /\ B \in Nat /\ H \in Nat /\ connections \in Nat /\ slots \in Nat
      /\ connections + B = MaxConnections /\ slots + H = MaxConcurrent
  BY FiniteSets, Leaks DEF Typed
<1>00. B' = Cardinality(Busy)' /\ H' = Cardinality(Holding)'
  OBVIOUS
<1>L. NothingLeaks' <=> (connections' + B' = MaxConnections /\ slots' + H' = MaxConcurrent)
  BY DEF NothingLeaks, Busy, Holding
<1> HIDE DEF B, H
<1>M. ASSUME NEW c \in Connection, NEW there, Goto(c, there)
      PROVE  /\ B' = IF there = "none" THEN IF pc[c] = "none" THEN B ELSE B - 1
                     ELSE IF pc[c] = "none" THEN B + 1 ELSE B
             /\ H' = IF there \in InSlot THEN IF pc[c] \in InSlot THEN H ELSE H + 1
                     ELSE IF pc[c] \in InSlot THEN H - 1 ELSE H
  BY <1>M, MoveCounts DEF B, H
<1>S. UNCHANGED pc => B' = B /\ H' = H
  BY StillCounts DEF B, H
<1>1. ASSUME NEW c \in Connection, Accept(c) PROVE CountInv'
  <2>1. B' = B + 1 /\ H' = H BY <1>1, <1>M DEF Accept, InSlot, InGet
  <2>2. Typed' BY <1>1, <1>0 DEF Accept, Goto, Typed, Handling, perProfile
  <2> QED BY <1>1, <1>0, <1>L, <2>1, <2>2 DEF Accept
<1>A. ASSUME NEW c \in Connection, ThreadStarts(c) PROVE CountInv'
  <2>1. B' = B /\ H' = H BY <1>A, <1>M DEF ThreadStarts, InSlot, InGet
  <2>2. Typed' BY <1>A DEF ThreadStarts, Goto, Typed, Handling, perProfile
  <2> QED BY <1>A, <1>0, <1>L, <2>1, <2>2 DEF ThreadStarts
<1>F. ASSUME NEW c \in Connection, ThreadStartFails(c) PROVE CountInv'
  <2>1. B' = B - 1 /\ H' = H BY <1>F, <1>M DEF ThreadStartFails, InSlot, InGet
  <2>2. Typed' BY <1>F, <1>0 DEF ThreadStartFails, Goto, Typed, Handling, perProfile
  <2> QED BY <1>F, <1>0, <1>L, <2>1, <2>2 DEF ThreadStartFails
<1>2. ASSUME NEW c \in Connection, HealthRequest(c) \/ Finish(c) PROVE CountInv'
  <2>1. B' = B /\ H' = H BY <1>2, <1>M DEF HealthRequest, Finish, InSlot, InGet
  <2>2. Typed' BY <1>2 DEF HealthRequest, Finish, Goto, Typed, Handling, perProfile
  <2> QED BY <1>2, <1>0, <1>L, <2>1, <2>2 DEF HealthRequest, Finish
<1>3. ASSUME NEW c \in Connection, CredsRequest(c) PROVE CountInv'
  <2>1. CASE slots > 0
    <3>1. slots' = slots - 1 /\ (Goto(c, "lock") \/ Goto(c, "leave")) BY <1>3, <2>1 DEF CredsRequest
    <3>2. B' = B /\ H' = H + 1 BY <1>3, <3>1, <1>M DEF CredsRequest, InSlot, InGet
    <3>3. Typed'
      BY <1>3, <2>1, <3>1, <1>0 DEF CredsRequest, Goto, Typed, Handling, InSlot, InGet, perProfile
    <3> QED BY <1>3, <1>0, <1>L, <3>1, <3>2, <3>3 DEF CredsRequest
  <2>2. CASE ~(slots > 0)
    <3>1. slots' = slots /\ Goto(c, "send") BY <1>3, <2>2 DEF CredsRequest
    <3>2. B' = B /\ H' = H BY <1>3, <3>1, <1>M DEF CredsRequest, InSlot, InGet
    <3>3. Typed'
      BY <1>3, <3>1 DEF CredsRequest, Goto, Typed, Handling, perProfile
    <3> QED BY <1>3, <1>0, <1>L, <3>1, <3>2, <3>3 DEF CredsRequest
  <2> QED BY <2>1, <2>2
<1>4. ASSUME NEW c \in Connection, Cancel(c) PROVE CountInv'
  <2>1. B' = B /\ H' = H BY <1>4, <1>M DEF Cancel, InSlot, InGet
  <2>2. Typed' BY <1>4 DEF Cancel, Goto, Typed, Handling, perProfile
  <2> QED BY <1>4, <1>0, <1>L, <2>1, <2>2 DEF Cancel
<1>5. ASSUME NEW c \in Connection, Release(c) PROVE CountInv'
  <2>1. B' = B - 1 /\ H' = H BY <1>5, <1>M DEF Release, InSlot, InGet
  <2>2. Typed' BY <1>5, <1>0 DEF Release, Goto, Typed, Handling, perProfile
  <2> QED BY <1>5, <1>0, <1>L, <2>1, <2>2 DEF Release
<1>6. ASSUME NEW c \in Connection,
             TakeLock(c) \/ LockTimeout(c) \/ Check(c) \/ Remint(c) \/ RemintRaises(c) \/ Answer(c)
      PROVE  CountInv'
  <2>1. B' = B /\ H' = H
    BY <1>6, <1>M DEF TakeLock, LockTimeout, Check, Remint, RemintRaises, Answer, InSlot, InGet
  <2>2. Typed'
    <3>1. CASE TakeLock(c) \/ LockTimeout(c)
      BY <3>1 DEF TakeLock, LockTimeout, Goto, Typed, Handling, InSlot, InGet, perProfile
    <3>2. CASE Check(c) \/ Remint(c)
      BY <3>2 DEF Check, Remint, Goto, Typed, Handling, InSlot, InGet, perProfile
    <3>3. CASE RemintRaises(c) \/ Answer(c)
      BY <3>3 DEF RemintRaises, Answer, Goto, Typed, Handling, InSlot, InGet
    <3> QED BY <1>6, <3>1, <3>2, <3>3
  <2>3. UNCHANGED <<connections, slots>>
    BY <1>6 DEF TakeLock, LockTimeout, Check, Remint, RemintRaises, Answer
  <2> QED BY <1>0, <1>L, <2>1, <2>2, <2>3
<1>7. ASSUME NEW c \in Connection, LeaveSlot(c) PROVE CountInv'
  <2>1. B' = B /\ H' = H - 1 BY <1>7, <1>M DEF LeaveSlot, InSlot, InGet
  <2>2. Typed' BY <1>7, <1>0 DEF LeaveSlot, Goto, Typed, Handling, perProfile
  <2> QED BY <1>7, <1>0, <1>L, <2>1, <2>2 DEF LeaveSlot
<1>8. ASSUME NEW c \in Connection, Timer(c) PROVE CountInv'
  <2>1. UNCHANGED <<pc, connections, slots>> BY <1>8 DEF Timer, DeadlinePassed, ShutSocket
  <2>2. Typed' BY <1>8 DEF Timer, DeadlinePassed, ShutSocket, Typed, perProfile
  <2> QED BY <1>S, <1>0, <1>L, <2>1, <2>2
<1>9. ASSUME NEW p \in Profile, Age(p) \/ IntervalPasses(p) PROVE CountInv'
  <2>1. UNCHANGED <<pc, connections, slots>> BY <1>9 DEF Age, IntervalPasses, perConnection
  <2>2. Typed' BY <1>9 DEF Age, IntervalPasses, Typed, perConnection
  <2> QED BY <1>S, <1>0, <1>L, <2>1, <2>2
<1>10. CASE UNCHANGED serveVars
  <2>1. UNCHANGED <<pc, connections, slots>> BY <1>10 DEF serveVars, perConnection
  <2>2. Typed' BY <1>10 DEF serveVars, perConnection, perProfile, Typed
  <2> QED BY <1>S, <1>0, <1>L, <2>1, <2>2
<1> QED
  BY <1>1, <1>A, <1>F, <1>2, <1>3, <1>4, <1>5, <1>6, <1>7, <1>8, <1>9, <1>10
  DEF ServeNext, Accepted, Thread

\* A timer that may act stays with the handler it was armed for.
LEMMA TimerStep ==
  ASSUME ServeInv, [ServeNext]_serveVars
  PROVE  TimerInv'
<1>0. Typed /\ TimerInv
  BY DEF ServeInv, CountInv
<1> USE <1>0 DEF Typed, TimerInv
<1>1. ASSUME NEW c \in Connection, Accept(c) \/ Accepted(c) PROVE TimerInv'
  <2>1. CASE Accept(c) BY <2>1 DEF Accept, Goto
  <2>2. CASE ThreadStarts(c) BY <2>2 DEF ThreadStarts, Goto
  <2>3. CASE ThreadStartFails(c) BY <2>3 DEF ThreadStartFails, Goto
  <2> QED BY <1>1, <2>1, <2>2, <2>3 DEF Accepted
<1>2. ASSUME NEW c \in Connection, HealthRequest(c) \/ CredsRequest(c) PROVE TimerInv'
  BY <1>2 DEF HealthRequest, CredsRequest, Goto
<1>3. ASSUME NEW c \in Connection, Finish(c) PROVE TimerInv'
  BY <1>3 DEF Finish, Goto
<1>4. ASSUME NEW c \in Connection, Thread(c) PROVE TimerInv'
  <2>1. CASE Cancel(c) BY <2>1 DEF Cancel, Goto
  <2>2. CASE Release(c) BY <2>2 DEF Release, Goto
  <2>3. CASE TakeLock(c) \/ LockTimeout(c) \/ Check(c)
    BY <2>3 DEF TakeLock, LockTimeout, Check, Goto
  <2>4. CASE Remint(c) \/ RemintRaises(c) \/ Answer(c) \/ LeaveSlot(c)
    BY <2>4 DEF Remint, RemintRaises, Answer, LeaveSlot, Goto
  <2> QED BY <1>4, <2>1, <2>2, <2>3, <2>4 DEF Thread
<1>5. ASSUME NEW c \in Connection, Timer(c) PROVE TimerInv'
  <2>1. CASE DeadlinePassed(c) BY <2>1 DEF DeadlinePassed
  <2>2. CASE ShutSocket(c) BY <2>2 DEF ShutSocket
  <2> QED BY <1>5, <2>1, <2>2 DEF Timer
<1>6. ASSUME NEW p \in Profile, Age(p) \/ IntervalPasses(p) PROVE TimerInv'
  BY <1>6 DEF Age, IntervalPasses, perConnection
<1>7. CASE UNCHANGED serveVars
  BY <1>7 DEF serveVars, perConnection
<1> QED BY <1>1, <1>2, <1>3, <1>4, <1>5, <1>6, <1>7 DEF ServeNext

\* A request in State.get keeps the lock of the profile it asks for, and so the
\* throttle it has looked at is its own until it notes its attempt.
LEMMA MintStep ==
  ASSUME ServeInv, [ServeNext]_serveVars
  PROVE  MintLockInv' /\ MintsAreThrottled'
<1>0. Typed /\ MintLockInv /\ MintsAreThrottled
  BY DEF ServeInv, CountInv
<1> USE <1>0 DEF Typed, MintLockInv, MintsAreThrottled, InSlot, InGet
<1> DEFINE Kept == MintLockInv' /\ MintsAreThrottled'
<1>1. ASSUME NEW c \in Connection, Accept(c) \/ Accepted(c) \/ HealthRequest(c) \/ Finish(c)
      PROVE  Kept
  BY <1>1
  DEF Accept, Accepted, ThreadStarts, ThreadStartFails, HealthRequest, Finish, Goto, perProfile
<1>2. ASSUME NEW c \in Connection, CredsRequest(c) PROVE Kept
  BY <1>2 DEF CredsRequest, Goto, perProfile
<1>3. ASSUME NEW c \in Connection, Cancel(c) \/ Release(c) \/ LockTimeout(c) \/ LeaveSlot(c)
      PROVE  Kept
  BY <1>3 DEF Cancel, Release, LockTimeout, LeaveSlot, Goto, perProfile
<1>4. ASSUME NEW c \in Connection, TakeLock(c) PROVE Kept
  BY <1>4, NoOneAssumption DEF TakeLock, Goto
<1>5. ASSUME NEW c \in Connection, Check(c) PROVE Kept
  BY <1>5 DEF Check, Goto, perProfile
<1>6. ASSUME NEW c \in Connection, Remint(c) PROVE Kept
  BY <1>6 DEF Remint, Goto
<1>7. ASSUME NEW c \in Connection, RemintRaises(c) \/ Answer(c) PROVE Kept
  BY <1>7 DEF RemintRaises, Answer, Goto
<1>8. ASSUME NEW c \in Connection, Timer(c) PROVE Kept
  BY <1>8 DEF Timer, DeadlinePassed, ShutSocket, perProfile
<1>9. ASSUME NEW p \in Profile, Age(p) \/ IntervalPasses(p) PROVE Kept
  BY <1>9 DEF Age, IntervalPasses, perConnection
<1>10. CASE UNCHANGED serveVars
  BY <1>10 DEF serveVars, perConnection, perProfile
<1> QED BY <1>1, <1>2, <1>3, <1>4, <1>5, <1>6, <1>7, <1>8, <1>9, <1>10 DEF ServeNext, Thread

-----------------------------------------------------------------------------
(* The theorems.                                                           *)

\* ServeInv holds in every state of the broker's serving side.
THEOREM ServeInductive == ServeSpec => []ServeInv
<1>1. ServeInv /\ [ServeNext]_serveVars => ServeInv'
  BY CountStep, TimerStep, MintStep DEF ServeInv
<1> QED BY <1>1, InitServe, PTL DEF ServeSpec

\* The variables stay in their types; neither semaphore goes below zero or above
\* its bound (UnixHTTPServer.connections and the slots of do_GET).
THEOREM ServeTypeCorrect == ServeSpec => []ServeTypeOK
<1>1. ServeInv => ServeTypeOK
  <2> SUFFICES ASSUME ServeInv PROVE ServeTypeOK OBVIOUS
  <2>1. connections \in 0 .. MaxConnections /\ slots \in 0 .. MaxConcurrent
    BY FiniteSets, Leaks, BoundAssumption DEF ServeInv, CountInv, Typed
  <2> QED BY <2>1 DEF ServeInv, CountInv, Typed, ServeTypeOK
<1> QED BY <1>1, ServeInductive, PTL

\* The connections and the slots taken are exactly those of the threads that run,
\* on every way out of a request (process_request_thread, do_GET).
THEOREM CountsExact == ServeSpec => []NothingLeaks
<1>1. ServeInv => NothingLeaks BY DEF ServeInv, CountInv
<1> QED BY <1>1, ServeInductive, PTL

\* The deadline's timer shuts down no socket but its own, still open
\* (handle, _deadline_passed).
THEOREM DeadlineShutsOwn == ServeSpec => []ShutsOwnSocket
<1>1. ServeInv => ShutsOwnSocket BY DEF ServeInv, TimerInv, ShutsOwnSocket
<1> QED BY <1>1, ServeInductive, PTL

\* No request mints within the interval another's attempt has opened (State.get).
THEOREM ThrottleHolds == ServeSpec => []MintsAreThrottled
<1>1. ServeInv => MintsAreThrottled BY DEF ServeInv
<1> QED BY <1>1, ServeInductive, PTL
=============================================================================
