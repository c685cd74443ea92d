---------------------------- MODULE SshPinProof ----------------------------
(***************************************************************************)
(* ssh.config and known_hosts under any number of yos, boxes, ports and    *)
(* faults: whose key a box's address has, and when ssh checks it.          *)
(***************************************************************************)
EXTENDS SshPin, TLAPS

-----------------------------------------------------------------------------
(* The types.                                                              *)

Place ==
  /\ driver \in {"lima", "libvirt"}
  /\ made \in 0..MaxBoxes /\ box \in {0, made}
  /\ port \in Ports
  /\ vm \in {"off", "initrd", "stage2"}
  /\ box = 0 => vm = "off"
  /\ faults \in 0..MaxFaults

TwoFiles ==
  /\ file \in Files
  /\ known \subseteq [port : Ports, key : Keys]
  /\ dir = FALSE => file = None /\ known = {}

Flags == {sealed, dir, outlived} \subseteq BOOLEAN

LEMMA Parts ==
  /\ TypeOK <=> Place /\ TwoFiles /\ Flags /\ yo \in [Yo -> Yos]
  /\ TypeOK' <=> Place' /\ TwoFiles' /\ Flags' /\ yo' \in [Yo -> Yos]
<1>1. TypeOK <=> Place /\ TwoFiles /\ Flags /\ yo \in [Yo -> Yos]
  BY DEF TypeOK, Place, TwoFiles, Flags
<1>2. TypeOK' <=> Place' /\ TwoFiles' /\ Flags' /\ yo' \in [Yo -> Yos]
  BY DEF TypeOK, Place, TwoFiles, Flags
<1> QED BY <1>1, <1>2

\* Another yo is not disturbed, but told when the driver writes the file.
Kept(z) ==
  /\ yo'[z].pc = yo[z].pc /\ yo'[z].job = yo[z].job /\ yo'[z].cmd = yo[z].cmd
  /\ yo'[z].seen = yo[z].seen /\ yo'[z].block = yo[z].block /\ yo'[z].got = yo[z].got

LEMMA Becomes ==
  ASSUME yo \in [Yo -> Yos], NEW y \in Yo, NEW r \in Yos, Become(y, r)
  PROVE  /\ yo' \in [Yo -> Yos] /\ yo'[y] = r
         /\ \A z \in Yo : z # y => yo'[z] = yo[z]
BY DEF Become

\* What a yo's own step may make of it.
Turn(y) ==
  \/ \E there \in Pcs : Goto(y, there)
  \/ \E job \in {"own", "fetch", "services", "rebuild", "command"} : Prepare(y, job)
  \/ End(y)

LEMMA Turns ==
  ASSUME yo \in [Yo -> Yos], NEW y \in Yo, Turn(y)
  PROVE  yo' \in [Yo -> Yos] /\ \A z \in Yo : z # y => yo'[z] = yo[z]
<1> DEFINE r == yo[y]
<1>0. r \in Yos OBVIOUS
<1>1. ASSUME NEW there \in Pcs, Goto(y, there)
      PROVE  yo' \in [Yo -> Yos] /\ \A z \in Yo : z # y => yo'[z] = yo[z]
  <2>1. [r EXCEPT !.pc = there] \in Yos BY <1>0 DEF Yos
  <2> QED BY <1>1, <2>1, Becomes DEF Goto
<1>2. ASSUME NEW job \in {"own", "fetch", "services", "rebuild", "command"}, Prepare(y, job)
      PROVE  yo' \in [Yo -> Yos] /\ \A z \in Yo : z # y => yo'[z] = yo[z]
  <2>1. [r EXCEPT !.pc = "read", !.job = job] \in Yos BY <1>0 DEF Yos, Pcs
  <2> QED BY <1>2, <2>1, Becomes DEF Prepare
<1>3. CASE End(y)
  <2>1. Idle \in Yos BY BoundsAssumption DEF Idle, Yos, Pcs, Files, Keys
  <2> QED BY <1>3, <2>1, Becomes DEF End
<1> QED BY <1>1, <1>2, <1>3 DEF Turn

LEMMA YosStep ==
  ASSUME TypeOK, NEW y \in Yo,
         Step(y) \/ Crash(y) \/ \E c \in {"up", "bootstrap", "command", "destroy"} : Begin(y, c)
  PROVE  /\ yo' \in [Yo -> Yos]
         /\ \A z \in Yo : z # y => Kept(z) /\ (yo'[z] = yo[z] \/ WriteConfig(y))
<1> DEFINE r == yo[y]
           Good == /\ yo' \in [Yo -> Yos]
                   /\ \A z \in Yo : z # y => Kept(z) /\ (yo'[z] = yo[z] \/ WriteConfig(y))
<1>0. /\ yo \in [Yo -> Yos] /\ r \in Yos /\ file \in Files /\ box \in Keys
      /\ file # None => file.part \in Ports
  BY BoundsAssumption DEF TypeOK, Files, Keys
<1>T. Turn(y) => Good BY <1>0, Turns DEF Kept
<1>B. ASSUME NEW s \in Yos, Become(y, s) PROVE Good BY <1>0, <1>B, Becomes DEF Kept
<1> SUFFICES Good OBVIOUS
<1> HIDE DEF Good
<1>1. CASE UpPlan(y) \/ UpDefine(y) \/ UpBoot(y) \/ UpUnlock(y)
  <2>1. Turn(y) BY <1>1 DEF UpPlan, UpDefine, UpBoot, UpUnlock, Turn, Pcs
  <2> QED BY <2>1, <1>T
<1>2. CASE UpConfig(y)
  <2>1. CASE WriteConfig(y)
    <3>1. [r EXCEPT !.pc = "boot"] \in Yos BY <1>0 DEF Yos, Pcs
    <3>2. \A z \in Yo : [yo[z] EXCEPT !.old = yo[z].pc \in {"write", "connect"}] \in Yos
      <4>1. \A z \in Yo, old \in BOOLEAN : [yo[z] EXCEPT !.old = old] \in Yos
        BY <1>0 DEF Yos
      <4>2. \A z \in Yo : (yo[z].pc \in {"write", "connect"}) \in BOOLEAN OBVIOUS
      <4> QED BY <4>1, <4>2
    <3>3. yo' \in [Yo -> Yos] BY <2>1, <3>1, <3>2 DEF WriteConfig
    <3>4. \A z \in Yo : z # y => Kept(z) BY <1>0, <2>1 DEF WriteConfig, Kept, Yos
    <3> QED BY <2>1, <3>3, <3>4 DEF Good
  <2>2. CASE ~WriteConfig(y)
    <3>1. Turn(y) BY <1>2, <2>2 DEF UpConfig, Turn, Pcs
    <3> QED BY <3>1, <1>T
  <2> QED BY <2>1, <2>2
<1>3. CASE EnsureRead(y)
  <2>1. [r EXCEPT !.pc = "write", !.seen = file, !.old = FALSE] \in Yos BY <1>0 DEF Yos, Pcs
  <2> QED BY <1>3, <1>B, <2>1 DEF EnsureRead
<1>4. CASE EnsureWrite(y)
  <2>1. [r EXCEPT !.pc = "known", !.seen = None] \in Yos BY <1>0 DEF Yos, Pcs, Files
  <2>2. [r EXCEPT !.pc = "connect", !.seen = None] \in Yos BY <1>0 DEF Yos, Pcs, Files
  <2>3. \/ End(y)
        \/ Become(y, [r EXCEPT !.pc = "known", !.seen = None])
        \/ Become(y, [r EXCEPT !.pc = "connect", !.seen = None])
    BY <1>4 DEF EnsureWrite
  <2> QED BY <1>B, <1>T, <2>1, <2>2, <2>3 DEF Turn
<1>5. CASE ReadBlock(y)
  <2>1. file # None =>
          [r EXCEPT !.pc = "read", !.job = "fetch", !.block = file.part] \in Yos
    BY <1>0 DEF Yos, Pcs
  <2> QED BY <1>5, <1>B, <1>T, <2>1 DEF ReadBlock, Turn
<1>6. CASE Fetch(y)
  <2>1. [r EXCEPT !.pc = "pin", !.got = box] \in Yos BY <1>0 DEF Yos, Pcs
  <2> QED BY <1>6, <1>B, <1>T, <2>1 DEF Fetch, Turn
<1>7. CASE Pin(y) \/ Connect(y)
  <2>1. [r EXCEPT !.pc = "known", !.cmd = "up"] \in Yos BY <1>0 DEF Yos, Pcs
  <2>2. Turn(y) \/ Become(y, [r EXCEPT !.pc = "known", !.cmd = "up"])
    BY <1>7 DEF Pin, AfterPin, Connect, Turn, Pcs
  <2> QED BY <1>B, <1>T, <2>1, <2>2
<1>8. CASE BootstrapStop(y)
  <2>1. [r EXCEPT !.pc = "plan", !.cmd = "booted"] \in Yos BY <1>0 DEF Yos, Pcs
  <2> QED BY <1>8, <1>B, <2>1 DEF BootstrapStop
<1>9. CASE DestroyUndefine(y) \/ DestroyRemove(y) \/ Crash(y)
  <2>1. Turn(y) BY <1>9 DEF DestroyUndefine, DestroyRemove, Crash, Turn, Pcs
  <2> QED BY <2>1, <1>T
<1>10. CASE \E c \in {"up", "bootstrap", "command", "destroy"} : Begin(y, c)
  <2>1. [r EXCEPT !.cmd = "command", !.pc = "read", !.job = "command"] \in Yos
    BY <1>0 DEF Yos, Pcs
  <2>2. [r EXCEPT !.cmd = "destroy", !.pc = "undefine"] \in Yos BY <1>0 DEF Yos, Pcs
  <2>3. \A c \in {"up", "bootstrap"} : [r EXCEPT !.cmd = c, !.pc = "plan"] \in Yos
    BY <1>0 DEF Yos, Pcs
  <2> QED BY <1>10, <1>B, <2>1, <2>2, <2>3 DEF Begin
<1> QED BY <1>1, <1>2, <1>3, <1>4, <1>5, <1>6, <1>7, <1>8, <1>9, <1>10 DEF Step

LEMMA TypesOfYo ==
  ASSUME TypeOK, BlockInv, NEW y \in Yo,
         Step(y) \/ Crash(y) \/ \E c \in {"up", "bootstrap", "command", "destroy"} : Begin(y, c)
  PROVE  TypeOK'
<1> USE DEF boxVars, filVars, At
<1>0. Place /\ TwoFiles /\ Flags /\ yo[y] \in Yos BY Parts
<1>1. Place'
  <2> USE BoundsAssumption DEF Place, Trouble
  <2>1. CASE UpDefine(y) BY <1>0, <2>1 DEF UpDefine
  <2>2. CASE ~UpDefine(y)
    BY <1>0, <2>2
    DEF Step, UpPlan, UpConfig, UpBoot, UpUnlock, ProbeArrives, EnsureRead, EnsureWrite,
        ReadBlock, Fetch, Pin, Connect, BootstrapStop, DestroyUndefine, DestroyRemove, Crash, Begin
  <2> QED BY <2>1, <2>2
<1>2. file' \in Files
  <2>1. CASE UpConfig(y)
    <3>1. DriverConfig(port) \in Files BY <1>0 DEF DriverConfig, Files, Place
    <3>2. file' = file \/ file' = DriverConfig(port) BY <2>1 DEF UpConfig, WriteConfig
    <3> QED BY <1>0, <3>1, <3>2 DEF TwoFiles
  <2>2. CASE EnsureWrite(y)
    <3>1. yo[y].seen \in Files BY <1>0 DEF Yos
    <3>2. file' = file \/ (yo[y].seen # None /\ file' = WithOwnBlock(yo[y].seen))
      BY <2>2 DEF EnsureWrite
    <3> QED BY <1>0, <3>1, <3>2 DEF TwoFiles, Files, WithOwnBlock
  <2>3. CASE ~UpConfig(y) /\ ~EnsureWrite(y)
    <3>1. file' = file \/ file' = None
      BY <2>3
      DEF Step, UpPlan, UpDefine, UpBoot, UpUnlock, EnsureRead, ReadBlock, Fetch, Pin, Connect,
          BootstrapStop, DestroyUndefine, DestroyRemove, Crash, Begin
    <3> QED BY <1>0, <3>1 DEF TwoFiles, Files
  <2> QED BY <2>1, <2>2, <2>3
<1>3. known' \subseteq [port : Ports, key : Keys]
  <2>1. CASE Pin(y)
    <3>1. yo[y].got \in Keys BY <1>0 DEF Yos
    <3>2. yo[y].block \in Ports BY <2>1 DEF Pin, BlockInv
    <3> QED BY <1>0, <2>1, <3>1, <3>2 DEF Pin, TwoFiles
  <2>2. CASE Connect(y)
    <3>1. ServerKey \in Keys BY <1>0, BoundsAssumption DEF ServerKey, InitrdKey, Keys, Place
    <3>2. Arrives => file.part \in Ports BY <1>0 DEF Arrives, Place
    <3>3. Learned \subseteq [port : Ports, key : Keys] BY <3>1, <3>2 DEF Learned
    <3> QED BY <1>0, <2>2, <3>3 DEF Connect, TwoFiles
  <2>3. CASE ~Pin(y) /\ ~Connect(y)
    <3>1. known' = known \/ known' = {}
      BY <2>3
      DEF Step, UpPlan, UpDefine, UpConfig, UpBoot, UpUnlock, EnsureRead, EnsureWrite, ReadBlock,
          Fetch, BootstrapStop, DestroyUndefine, DestroyRemove, Crash, Begin
    <3> QED BY <1>0, <3>1 DEF TwoFiles
  <2> QED BY <2>1, <2>2, <2>3
<1>4. Flags'
  BY <1>0
  DEF Flags, Step, UpPlan, UpDefine, UpConfig, UpBoot, UpUnlock, EnsureRead, EnsureWrite, ReadBlock,
      Fetch, Pin, Connect, BootstrapStop, DestroyUndefine, DestroyRemove, Crash, Begin
<1>5. dir' = FALSE => file' = None /\ known' = {}
  <2>0. dir \in BOOLEAN BY <1>0 DEF Flags
  <2>1. CASE dir' = dir
    <3>1. SUFFICES ASSUME dir = FALSE PROVE file' = None /\ known' = {} BY <2>1
    <3>2. file = None /\ known = {} BY <1>0, <3>1 DEF TwoFiles
    <3>3. file' = None
      BY <3>1, <3>2
      DEF Step, UpPlan, UpDefine, UpConfig, UpBoot, UpUnlock, EnsureRead, EnsureWrite, ReadBlock,
          Fetch, Pin, Connect, BootstrapStop, DestroyUndefine, DestroyRemove, Crash, Begin
    <3>4. known' = {}
      BY <3>1, <3>2
      DEF Step, UpPlan, UpDefine, UpConfig, UpBoot, UpUnlock, EnsureRead, EnsureWrite, ReadBlock,
          Fetch, Pin, Connect, Learned, Arrives, BootstrapStop, DestroyUndefine, DestroyRemove,
          Crash, Begin
    <3> QED BY <3>3, <3>4
  <2>2. CASE dir' # dir
    BY <2>0, <2>2
    DEF Step, UpPlan, UpDefine, UpConfig, UpBoot, UpUnlock, EnsureRead, EnsureWrite, ReadBlock,
        Fetch, Pin, Connect, BootstrapStop, DestroyUndefine, DestroyRemove, Crash, Begin
  <2> QED BY <2>1, <2>2
<1>6. yo' \in [Yo -> Yos] BY YosStep
<1> QED BY <1>1, <1>2, <1>3, <1>4, <1>5, <1>6, Parts DEF TwoFiles

LEMMA TypesOfBox ==
  ASSUME TypeOK, BoxRestarts \/ Replaced
  PROVE  TypeOK'
<1> USE DEF boxVars, filVars
<1>1. Place /\ TwoFiles /\ Flags BY Parts
<1>2. Place' BY <1>1, BoundsAssumption DEF Place, BoxRestarts, Replaced, Trouble
<1>3. TwoFiles' BY <1>1 DEF TwoFiles, BoxRestarts, Replaced
<1>4. Flags' BY <1>1 DEF Flags, BoxRestarts, Replaced
<1>5. yo' \in [Yo -> Yos] BY Parts DEF BoxRestarts, Replaced
<1> QED BY <1>2, <1>3, <1>4, <1>5, Parts

-----------------------------------------------------------------------------
(* Where a yo goes.                                                        *)

Acts(y) ==
  Step(y) \/ Crash(y) \/ \E c \in {"up", "bootstrap", "command", "destroy"} : Begin(y, c)

\* Where a yo's own step takes it.
LEMMA Paths ==
  ASSUME TypeOK, NEW y \in Yo, Acts(y)
  PROVE  /\ yo'[y].pc = "define" => UpPlan(y) /\ (Made \/ Alone(y)) /\ NobodyTakes
         /\ yo'[y].pc = "config" => UpDefine(y)
         /\ yo'[y].pc = "boot" => UpConfig(y)
         /\ yo'[y].pc = "write" => EnsureRead(y)
         /\ yo'[y].pc = "connect" => EnsureWrite(y)
         /\ yo'[y].pc = "pin" => Fetch(y)
         /\ yo'[y].pc = "undefine" => Alone(y)
         /\ yo'[y].pc = "remove" => DestroyUndefine(y)
         /\ Resting(y) /\ ~NobodyTakes => yo'[y].pc \in {"idle", "plan"}
         /\ yo'[y].job = "fetch" /\ yo'[y].pc = "read" => ReadBlock(y)
         /\ yo'[y].job = "rebuild" /\ yo'[y].pc = "read" => Pin(y)
<1> DEFINE r == yo[y]
<1>0. yo \in [Yo -> Yos] /\ r \in Yos BY DEF TypeOK
<1>1. \A there \in Pcs : Goto(y, there) => yo'[y].pc = there /\ yo'[y].job = r.job
  BY <1>0 DEF Goto, Become, Yos
<1>2. \A job : Prepare(y, job) => yo'[y].pc = "read" /\ yo'[y].job = job
  BY <1>0 DEF Prepare, Become, Yos
<1>3. End(y) => yo'[y].pc = "idle" BY <1>0 DEF End, Become, Idle
<1> USE DEF Pcs, At, Resting
<1>4. CASE UpPlan(y) BY <1>1, <1>2, <1>3, <1>4 DEF UpPlan
<1>5. CASE UpDefine(y) \/ UpBoot(y) \/ UpUnlock(y)
  BY <1>1, <1>2, <1>3, <1>5 DEF UpDefine, UpBoot, UpUnlock
<1>6. CASE UpConfig(y)
  <2>1. WriteConfig(y) => yo'[y].pc = "boot" BY <1>0 DEF WriteConfig, Yos
  <2> QED BY <1>1, <1>3, <1>6, <2>1 DEF UpConfig
<1>7. CASE EnsureRead(y) BY <1>0, <1>7 DEF EnsureRead, Become, Yos
<1>8. CASE EnsureWrite(y)
  <2>1. \E after \in {"known", "connect"} :
          End(y) \/ Become(y, [r EXCEPT !.pc = after, !.seen = None])
    BY <1>8 DEF EnsureWrite
  <2>2. \A after \in {"known", "connect"} :
          Become(y, [r EXCEPT !.pc = after, !.seen = None]) => yo'[y].pc = after
    BY <1>0 DEF Become, Yos
  <2>3. yo'[y].pc \in {"idle", "known", "connect"} BY <1>3, <2>1, <2>2
  <2> QED BY <1>8, <2>3 DEF EnsureWrite
<1>9. CASE ReadBlock(y)
  <2>1. Become(y, [r EXCEPT !.pc = "read", !.job = "fetch", !.block = file.part]) =>
          yo'[y].pc = "read" /\ yo'[y].job = "fetch"
    BY <1>0 DEF Become, Yos
  <2>2. yo'[y].pc = "read" /\ yo'[y].job \in {"fetch", "services"}
    BY <1>2, <1>9, <2>1 DEF ReadBlock
  <2> QED BY <1>9, <2>2 DEF ReadBlock
<1>10. CASE Fetch(y)
  <2>1. Become(y, [r EXCEPT !.pc = "pin", !.got = box]) => yo'[y].pc = "pin"
    BY <1>0 DEF Become, Yos
  <2>2. yo'[y].pc \in {"idle", "pin"} BY <1>3, <1>10, <2>1 DEF Fetch
  <2> QED BY <1>10, <2>2 DEF Fetch
<1>U. Become(y, [r EXCEPT !.pc = "known", !.cmd = "up"]) => yo'[y].pc = "known"
  BY <1>0 DEF Become, Yos
<1>11. CASE Pin(y)
  <2>1. \/ yo'[y].pc \in {"idle", "known"}
        \/ yo'[y].pc = "read" /\ yo'[y].job \in {"rebuild", "services"}
    BY <1>2, <1>3, <1>U, <1>11 DEF Pin, AfterPin
  <2> QED BY <1>11, <2>1 DEF Pin
<1>12. CASE Connect(y)
  <2>1. yo'[y].pc \in {"idle", "known", "stop"} BY <1>1, <1>3, <1>U, <1>12 DEF Connect
  <2> QED BY <1>12, <2>1 DEF Connect
<1>13. CASE BootstrapStop(y) BY <1>0, <1>13 DEF BootstrapStop, Become, Yos
<1>14. CASE DestroyUndefine(y) \/ DestroyRemove(y) \/ Crash(y)
  BY <1>1, <1>3, <1>14 DEF DestroyUndefine, DestroyRemove, Crash
<1>15. CASE \E c \in {"up", "bootstrap", "command", "destroy"} : Begin(y, c)
  <2>1. /\ Become(y, [r EXCEPT !.cmd = "command", !.pc = "read", !.job = "command"]) =>
             yo'[y].pc = "read" /\ yo'[y].job = "command"
        /\ Become(y, [r EXCEPT !.cmd = "destroy", !.pc = "undefine"]) => yo'[y].pc = "undefine"
        /\ \A c : Become(y, [r EXCEPT !.cmd = c, !.pc = "plan"]) => yo'[y].pc = "plan"
    BY <1>0 DEF Become, Yos
  <2>2. \/ yo'[y].pc = "read" /\ yo'[y].job = "command"
        \/ yo'[y].pc = "undefine" /\ Alone(y)
        \/ yo'[y].pc = "plan"
    BY <1>15, <2>1 DEF Begin
  <2> QED BY <1>15, <2>2 DEF Begin
<1> QED
  BY <1>4, <1>5, <1>6, <1>7, <1>8, <1>9, <1>10, <1>11, <1>12, <1>13, <1>14, <1>15
  DEF Acts, Step

-----------------------------------------------------------------------------
(* What holds however yos overlap.                                         *)

\* The file as a yo's own step leaves it, but for the driver's writing.
LEMMA FileMoves ==
  ASSUME TypeOK, NEW y \in Yo, Acts(y), ~WriteConfig(y)
  PROVE  \/ file' = file
         \/ file' = None /\ Taking(y)
         \/ EnsureWrite(y) /\ yo[y].seen # None /\ file' # None /\ file'.own
<1> USE DEF filVars
<1>1. CASE EnsureWrite(y)
  <2>1. file' = file \/ (yo[y].seen # None /\ file' = WithOwnBlock(yo[y].seen))
    BY <1>1 DEF EnsureWrite
  <2>2. yo[y].seen # None => yo[y].seen \in [part : Ports, own : BOOLEAN]
    BY DEF TypeOK, Yos, Files
  <2>3. yo[y].seen # None => WithOwnBlock(yo[y].seen) # None /\ WithOwnBlock(yo[y].seen).own
    BY <2>2, NoneAssumption DEF WithOwnBlock
  <2> QED BY <1>1, <2>1, <2>3
<1>2. CASE ~EnsureWrite(y)
  BY <1>2
  DEF Acts, Step, UpPlan, UpDefine, UpConfig, UpBoot, UpUnlock, EnsureRead, ReadBlock, Fetch,
      Pin, Connect, BootstrapStop, DestroyUndefine, DestroyRemove, Crash, Begin, Taking, At
<1> QED BY <1>1, <1>2

LEMMA BlockStep ==
  ASSUME TypeOK, BlockInv, NEW y \in Yo, Acts(y)
  PROVE  BlockInv'
<1> DEFINE Knows(w) == /\ yo[w].job = "fetch" /\ yo[w].pc \in {"read", "write", "connect"} =>
                            yo[w].block \in Ports
                       /\ yo[w].pc = "pin" => yo[w].block \in Ports
<1>0. yo \in [Yo -> Yos] /\ yo[y] \in Yos BY DEF TypeOK
<1>1. \A w \in Yo : Knows(w) BY DEF BlockInv, At
<1>2. ASSUME NEW w \in Yo, w # y PROVE Knows(w)'
  <2>1. Kept(w) BY <1>2, YosStep DEF Acts
  <2> QED BY <1>1, <2>1 DEF Kept
<1>3. Knows(y)'
  <2>0. End(y) => yo'[y].pc = "idle" BY <1>0 DEF End, Become, Idle
  <2>1. CASE yo'[y].pc = "pin"
    <3>1. Fetch(y) BY <2>1, Paths
    <3>2. Become(y, [yo[y] EXCEPT !.pc = "pin", !.got = box]) BY <2>0, <2>1, <3>1 DEF Fetch
    <3>3. yo'[y].block = yo[y].block BY <1>0, <3>2 DEF Become, Yos
    <3> QED BY <1>1, <3>1, <3>3 DEF Fetch, At
  <2>2. CASE yo'[y].pc = "write"
    <3>1. EnsureRead(y) BY <2>2, Paths
    <3>2. yo'[y].job = yo[y].job /\ yo'[y].block = yo[y].block
      BY <1>0, <3>1 DEF EnsureRead, Become, Yos
    <3> QED BY <1>1, <2>2, <3>1, <3>2 DEF EnsureRead, At
  <2>3. CASE yo'[y].pc = "connect"
    <3>1. EnsureWrite(y) BY <2>3, Paths
    <3>2. \E after \in {"known", "connect"} : Become(y, [yo[y] EXCEPT !.pc = after, !.seen = None])
      BY <2>0, <2>3, <3>1 DEF EnsureWrite
    <3>3. yo'[y].job = yo[y].job /\ yo'[y].block = yo[y].block
      BY <1>0, <3>2 DEF Become, Yos
    <3> QED BY <1>1, <2>3, <3>1, <3>3 DEF EnsureWrite, At
  <2>4. CASE yo'[y].pc = "read" /\ yo'[y].job = "fetch"
    <3>1. ReadBlock(y) BY <2>4, Paths
    <3>2. Prepare(y, "services") => yo'[y].job = "services" BY <1>0 DEF Prepare, Become, Yos
    <3>3. /\ file # None
          /\ Become(y, [yo[y] EXCEPT !.pc = "read", !.job = "fetch", !.block = file.part])
      BY <2>4, <3>1, <3>2 DEF ReadBlock
    <3>4. yo'[y].block = file.part BY <1>0, <3>3 DEF Become, Yos
    <3> QED BY <3>3, <3>4 DEF TypeOK, Files
  <2> QED BY <2>1, <2>2, <2>3, <2>4
<1> QED BY <1>2, <1>3 DEF BlockInv, At

\* The two readings of one ssh of a yo: what it is about to write, and what it uses.
Own(w) ==
  /\ yo[w].pc = "write" =>
       yo[w].old \/ (yo[w].seen # None /\ ~yo[w].seen.own) \/ (file # None => file.own)
  /\ yo[w].pc = "connect" => yo[w].old \/ (file # None => file.own)

LEMMA OwnStep ==
  ASSUME TypeOK, OwnInv, NEW y \in Yo, Acts(y)
  PROVE  OwnInv'
<1>0. yo \in [Yo -> Yos] /\ yo[y] \in Yos BY DEF TypeOK
<1>1. \A w \in Yo : Own(w) BY DEF OwnInv, Own, At
<1>2. ASSUME NEW w \in Yo, w # y PROVE Own(w)'
  <2>1. Kept(w) /\ (yo'[w] = yo[w] \/ WriteConfig(y)) BY <1>2, YosStep DEF Acts
  <2>2. CASE WriteConfig(y)
    <3>1. yo'[w] = [yo[w] EXCEPT !.old = yo[w].pc \in {"write", "connect"}]
      BY <1>2, <2>2 DEF WriteConfig
    <3>2. yo[w] \in Yos BY <1>0
    <3>3. yo[w].pc \in {"write", "connect"} => yo'[w].old BY <3>1, <3>2 DEF Yos
    <3> QED BY <2>1, <3>3 DEF Kept, Own
  <2>3. CASE ~WriteConfig(y)
    <3>1. yo'[w] = yo[w] BY <2>1, <2>3
    <3>2. file' = file \/ (file' # None => file'.own) BY <2>3, FileMoves
    <3> QED BY <1>1, <3>1, <3>2 DEF Own
  <2> QED BY <2>2, <2>3
<1>3. Own(y)'
  <2>1. CASE yo'[y].pc = "write"
    <3>1. EnsureRead(y) BY <2>1, Paths
    <3>2. yo'[y].seen = file BY <1>0, <3>1 DEF EnsureRead, Become, Yos
    <3>3. file' = file BY <3>1 DEF EnsureRead, filVars
    <3> QED BY <2>1, <3>2, <3>3 DEF Own
  <2>2. CASE yo'[y].pc = "connect"
    <3>1. EnsureWrite(y) BY <2>2, Paths
    <3>2. End(y) => yo'[y].pc = "idle" BY <1>0 DEF End, Become, Idle
    <3>3. \E after \in {"known", "connect"} :
            Become(y, [yo[y] EXCEPT !.pc = after, !.seen = None])
      BY <2>2, <3>1, <3>2 DEF EnsureWrite
    <3>4. yo'[y].old = yo[y].old BY <1>0, <3>3 DEF Become, Yos
    <3>5. yo[y].old \/ (yo[y].seen # None /\ ~yo[y].seen.own) \/ (file # None => file.own)
      BY <1>1, <3>1 DEF EnsureWrite, At, Own
    <3>6. \/ file' = file /\ (yo[y].seen # None => yo[y].seen.own)
          \/ yo[y].seen # None /\ file' = WithOwnBlock(yo[y].seen)
      BY <2>2, <3>1, <3>2 DEF EnsureWrite
    <3>7. yo[y].seen # None => yo[y].seen \in [part : Ports, own : BOOLEAN]
      BY <1>0 DEF Yos, Files
    <3>8. yo[y].seen # None => WithOwnBlock(yo[y].seen).own
      BY <3>7 DEF WithOwnBlock
    <3> QED BY <2>2, <3>4, <3>5, <3>6, <3>8 DEF Own
  <2> QED BY <2>1, <2>2 DEF Own
<1> QED BY <1>2, <1>3 DEF OwnInv, Own, At

LEMMA LoginStep == LoginInv /\ [Next]_vars => LoginInv'
<1> SUFFICES ASSUME LoginInv, [Next]_vars PROVE LoginInv' OBVIOUS
<1>0. TypeOK /\ BlockInv /\ OwnInv BY DEF LoginInv
<1>1. ASSUME NEW y \in Yo, Acts(y) PROVE LoginInv'
  <2>1. TypeOK' BY <1>0, <1>1, TypesOfYo DEF Acts
  <2>2. BlockInv' /\ OwnInv' BY <1>0, <1>1, BlockStep, OwnStep
  <2> QED BY <2>1, <2>2 DEF LoginInv
<1>2. CASE BoxRestarts \/ Replaced
  <2>1. TypeOK' BY <1>0, <1>2, TypesOfBox
  <2>2. UNCHANGED <<yo, file>> BY <1>2 DEF BoxRestarts, Replaced, filVars
  <2> QED BY <1>0, <2>1, <2>2 DEF LoginInv, BlockInv, OwnInv, At
<1>3. CASE UNCHANGED vars
  <2> USE <1>0, <1>3 DEF vars, boxVars, filVars
  <2>1. TypeOK' BY DEF TypeOK
  <2>2. BlockInv' /\ OwnInv' BY DEF BlockInv, OwnInv, At
  <2> QED BY <2>1, <2>2 DEF LoginInv
<1> QED BY <1>1, <1>2, <1>3 DEF Next, Acts

LEMMA LoginInit == Init => LoginInv
<1> SUFFICES ASSUME Init PROVE LoginInv OBVIOUS
<1>0. \A y \in Yo : yo[y] = Idle /\ yo[y].pc = "idle" BY DEF Init, Idle
<1>1. TypeOK
  <2>1. Idle \in Yos BY BoundsAssumption DEF Idle, Yos, Pcs, Files, Keys
  <2>2. yo \in [Yo -> Yos] BY <2>1 DEF Init
  <2>3. Place BY BoundsAssumption DEF Init, Place
  <2>4. TwoFiles /\ Flags BY DEF Init, TwoFiles, Flags, Files
  <2> QED BY <2>2, <2>3, <2>4, Parts
<1> QED BY <1>0, <1>1 DEF LoginInv, BlockInv, OwnInv, At

LEMMA LoginHolds == Spec => []LoginInv
BY LoginInit, LoginStep, PTL DEF Spec

\* Every variable keeps its type, however yos overlap (the state of Instance,
\* sshconfig.py and vm.py).
THEOREM TypeCorrect == Spec => []TypeOK
<1>1. LoginInv => TypeOK BY DEF LoginInv
<1> QED BY <1>1, LoginHolds, PTL

\* However yos overlap, also with one that makes the box anew: an ssh that yo prepared
\* logs in without checking the key only if the driver wrote the file after yo had read
\* it for that very ssh (ensure_agent_ssh_config).
THEOREM LoginsChecked == Spec => []CheckedLogins
<1>1. LoginInv => CheckedLogins
  BY DEF LoginInv, OwnInv, CheckedLogins, LogsIn, Arrives
<1> QED BY <1>1, LoginHolds, PTL

-----------------------------------------------------------------------------
(* Who has the box to itself.                                              *)

\* What a yo that did not take the box can count on.
Steady ==
  /\ box' = box /\ port' = port
  /\ file # None => file' # None /\ file'.part = file.part
  /\ known # {} => known' # {}

LEMMA StaysSteady ==
  ASSUME TypeOK, ReadInv, NEW y \in Yo, Acts(y), ~Taking(y)
  PROVE  Steady
<1> USE DEF Steady, Taking, At, boxVars, filVars
<1>0. port \in Ports /\ file \in Files /\ yo[y] \in Yos BY DEF TypeOK
<1>1. CASE UpDefine(y) BY <1>1 DEF UpDefine, Made
<1>2. CASE UpConfig(y)
  <2>1. Made BY <1>2 DEF UpConfig
  <2>2. DriverConfig(port) # None /\ DriverConfig(port).part = port
    <3>1. DriverConfig(port) \in [part : Ports, own : BOOLEAN] BY <1>0 DEF DriverConfig
    <3> QED BY <3>1, NoneAssumption DEF DriverConfig
  <2> QED BY <1>2, <2>1, <2>2 DEF UpConfig, WriteConfig, Made
<1>3. CASE EnsureWrite(y)
  <2>1. file' = file \/ (yo[y].seen # None /\ file' = WithOwnBlock(yo[y].seen))
    BY <1>3 DEF EnsureWrite
  <2>2. yo[y].seen # None =>
          WithOwnBlock(yo[y].seen) # None /\ WithOwnBlock(yo[y].seen).part = yo[y].seen.part
    <3>1. yo[y].seen # None => yo[y].seen \in [part : Ports, own : BOOLEAN]
      BY <1>0 DEF Yos, Files
    <3> QED BY <3>1, NoneAssumption DEF WithOwnBlock
  <2>3. yo[y].seen # None => yo[y].seen.part = file.part BY <1>3 DEF EnsureWrite, ReadInv
  <2> QED BY <1>3, <2>1, <2>2, <2>3 DEF EnsureWrite
<1>4. CASE ~UpDefine(y) /\ ~UpConfig(y) /\ ~EnsureWrite(y)
  BY <1>4
  DEF Acts, Step, UpPlan, UpBoot, UpUnlock, EnsureRead, ReadBlock, Fetch, Pin, Connect,
      BootstrapStop, DestroyUndefine, DestroyRemove, Crash, Begin
<1> QED BY <1>1, <1>2, <1>3, <1>4

LEMMA OthersSteady ==
  ASSUME TypeOK, TakeInv, ReadInv, NEW y \in Yo, Acts(y), NEW z \in Yo, z # y, ~Resting(z)
  PROVE  Steady /\ Kept(z)
<1>1. ~Taking(y) BY DEF TakeInv
<1> QED BY <1>1, StaysSteady, YosStep DEF Acts

-----------------------------------------------------------------------------
(* The invariants, under a yo's own step.                                  *)

LEMMA TakeStep ==
  ASSUME ~Overlapping, TypeOK, TakeInv, ReadInv, NEW y \in Yo, Acts(y)
  PROVE  TakeInv'
<1> USE DEF Taking, Resting
<1>0. \A z \in Yo : z # y => yo'[z].pc = yo[z].pc BY YosStep DEF Acts, Kept
<1>1. ASSUME NEW w \in Yo, w # y, Taking(w)' PROVE \A z \in Yo \ {w} : Resting(z)'
  <2>1. Taking(w)
    <3>1. ~Resting(w) /\ (yo[w].pc \in {"undefine", "remove"} \/ ~Made') BY <1>0, <1>1
    <3>2. Steady BY <1>1, <3>1, OthersSteady
    <3>3. Made => Made' BY <3>2 DEF Steady, Made
    <3> QED BY <1>0, <1>1, <3>1, <3>3
  <2>2. ~NobodyTakes BY <2>1 DEF NobodyTakes
  <2>3. Resting(y) BY <1>1, <2>1 DEF TakeInv
  <2>4. Resting(y)' BY <2>2, <2>3, Paths
  <2>5. \A z \in Yo \ {w} : z # y => Resting(z)' BY <1>0, <2>1 DEF TakeInv
  <2> QED BY <2>4, <2>5
<1>2. ASSUME Taking(y)' PROVE \A z \in Yo \ {y} : Resting(z)'
  <2>1. SUFFICES \A z \in Yo \ {y} : Resting(z) BY <1>0
  <2>2. CASE yo'[y].pc = "undefine" BY <2>2, Paths DEF Alone
  <2>3. CASE yo'[y].pc = "remove"
    <3>1. Taking(y) BY <2>3, Paths DEF DestroyUndefine, At
    <3> QED BY <3>1 DEF TakeInv
  <2>4. CASE yo'[y].pc = "define"
    <3>1. UpPlan(y) /\ (Made \/ Alone(y)) BY <2>4, Paths
    <3>2. Made' = Made BY <3>1 DEF UpPlan, Made, boxVars, filVars
    <3> QED BY <1>2, <2>4, <3>1, <3>2 DEF Alone
  <2>5. CASE yo'[y].pc = "config"
    <3>1. UpDefine(y) BY <2>5, Paths
    <3>2. CASE Taking(y) BY <3>2 DEF TakeInv
    <3>3. CASE ~Taking(y)
      <4>1. Made BY <3>1, <3>3 DEF UpDefine, At
      <4>2. Made' BY <3>3, <4>1, StaysSteady DEF Made, Steady
      <4> QED BY <1>2, <2>5, <4>2
    <3> QED BY <3>2, <3>3
  <2> QED BY <1>2, <2>2, <2>3, <2>4, <2>5
<1> QED BY <1>1, <1>2 DEF TakeInv

LEMMA PlaceStep ==
  ASSUME TypeOK, TakeInv, PlaceInv, ReadInv, NEW y \in Yo, Acts(y)
  PROVE  PlaceInv'
<1> USE DEF At
<1>0. /\ \A z \in Yo : z # y => yo'[z].pc = yo[z].pc
      /\ box = 0 => vm = "off"
  BY YosStep DEF Acts, Kept, TypeOK
<1>1. ASSUME vm' # "off" PROVE Made'
  <2>1. Made
    <3>1. vm = "off" => At(y, "boot") /\ box # 0
      BY <1>1
      DEF Acts, Step, UpPlan, UpDefine, UpConfig, UpBoot, UpUnlock, ProbeArrives, EnsureRead,
          EnsureWrite, ReadBlock, Fetch, Pin, Connect, BootstrapStop, DestroyUndefine,
          DestroyRemove, Crash, Begin
    <3> QED BY <3>1 DEF PlaceInv
  <2>2. CASE Crash(y) BY <2>1, <2>2 DEF Crash, Made, boxVars, filVars
  <2>3. CASE ~Crash(y)
    <3>1. yo[y].pc # "undefine"
      BY <1>1, <2>3
      DEF Acts, Step, UpPlan, UpDefine, UpConfig, UpBoot, UpUnlock, EnsureRead, EnsureWrite,
          ReadBlock, Fetch, Pin, Connect, BootstrapStop, DestroyUndefine, DestroyRemove, Begin
    <3>2. yo[y].pc # "remove" BY <2>1 DEF PlaceInv, Made
    <3>3. ~Taking(y) BY <2>1, <3>1, <3>2 DEF Taking
    <3> QED BY <2>1, <3>3, StaysSteady DEF Steady, Made
  <2> QED BY <2>2, <2>3
<1>2. ASSUME NEW w \in Yo, yo'[w].pc = "boot", box' # 0 PROVE Made'
  <2>1. CASE w # y
    <3>1. Steady /\ yo[w].pc = "boot" BY <1>0, <1>2, <2>1, OthersSteady DEF Resting
    <3> QED BY <1>2, <3>1 DEF PlaceInv, Steady, Made
  <2>2. CASE w = y
    <3>1. UpConfig(y) BY <1>2, <2>2, Paths
    <3>2. CASE WriteConfig(y)
      <4>1. DriverConfig(port) \in [part : Ports, own : BOOLEAN] BY DEF DriverConfig, TypeOK
      <4> QED BY <1>2, <3>1, <3>2, <4>1, NoneAssumption
          DEF UpConfig, WriteConfig, DriverConfig, Made, boxVars
    <3>3. CASE ~WriteConfig(y)
      <4>1. End(y) => yo'[y].pc = "idle" BY DEF End, Become, Idle, TypeOK
      <4> QED BY <1>2, <2>2, <3>1, <3>3, <4>1 DEF UpConfig, Made, boxVars
    <3> QED BY <3>2, <3>3
  <2> QED BY <2>1, <2>2
<1>3. ASSUME NEW w \in Yo, yo'[w].pc = "remove" PROVE box' = 0
  <2>1. CASE w # y
    <3>1. yo[w].pc = "remove" /\ Resting(y) BY <1>0, <1>3, <2>1 DEF TakeInv, Taking
    <3>2. ~Taking(y) BY <3>1 DEF Resting, Taking
    <3> QED BY <3>1, <3>2, StaysSteady DEF PlaceInv, Steady
  <2>2. CASE w = y BY <1>3, <2>2, Paths DEF DestroyUndefine
  <2> QED BY <2>1, <2>2
<1> QED BY <1>1, <1>2, <1>3 DEF PlaceInv

LEMMA FetchStep ==
  ASSUME TypeOK, TakeInv, PlaceInv, ReadInv, FetchInv, NEW y \in Yo, Acts(y)
  PROVE  FetchInv'
<1> USE DEF At
<1> DEFINE Ready(w) == /\ yo[w].job = "fetch" /\ yo[w].pc \in {"read", "write", "connect"} =>
                            file # None /\ yo[w].block = file.part
                       /\ yo[w].pc = "pin" =>
                            box # 0 /\ yo[w].got = box /\ yo[w].block = port
<1>1. \A w \in Yo : Ready(w) BY DEF FetchInv
<1>2. ASSUME NEW w \in Yo, w # y PROVE Ready(w)'
  <2>1. Kept(w) BY <1>2, YosStep DEF Acts
  <2>2. CASE Resting(w) BY <2>1, <2>2 DEF Kept, Resting
  <2>3. CASE ~Resting(w)
    <3>1. Steady BY <1>2, <2>3, OthersSteady
    <3> QED BY <1>1, <2>1, <3>1 DEF Kept, Steady
  <2> QED BY <2>2, <2>3
<1>3. Ready(y)'
  <2>0. yo \in [Yo -> Yos] /\ yo[y] \in Yos BY DEF TypeOK
  <2>1. CASE yo'[y].pc = "pin"
    <3>1. Fetch(y) BY <2>1, Paths
    <3>2. End(y) => yo'[y].pc = "idle" BY <2>0 DEF End, Become, Idle
    <3>3. Arrives /\ Become(y, [yo[y] EXCEPT !.pc = "pin", !.got = box])
      BY <2>1, <3>1, <3>2 DEF Fetch
    <3>4. yo'[y].got = box /\ yo'[y].block = yo[y].block BY <2>0, <3>3 DEF Become, Yos
    <3>5. box # 0 /\ file.part = port BY <3>3 DEF Arrives, PlaceInv, Made
    <3>6. yo[y].block = file.part BY <1>1, <3>1 DEF Fetch
    <3> QED BY <2>1, <3>1, <3>4, <3>5, <3>6 DEF Fetch, boxVars
  <2>2. CASE yo'[y].pc = "write" /\ yo'[y].job = "fetch"
    <3>1. EnsureRead(y) BY <2>2, Paths
    <3>2. yo'[y].job = yo[y].job /\ yo'[y].block = yo[y].block
      BY <2>0, <3>1 DEF EnsureRead, Become, Yos
    <3> QED BY <1>1, <2>2, <3>1, <3>2 DEF EnsureRead, filVars
  <2>3. CASE yo'[y].pc = "connect" /\ yo'[y].job = "fetch"
    <3>1. EnsureWrite(y) BY <2>3, Paths
    <3>2. End(y) => yo'[y].pc = "idle" BY <2>0 DEF End, Become, Idle
    <3>3. \E after \in {"known", "connect"} : Become(y, [yo[y] EXCEPT !.pc = after, !.seen = None])
      BY <2>3, <3>1, <3>2 DEF EnsureWrite
    <3>4. yo'[y].job = yo[y].job /\ yo'[y].block = yo[y].block
      BY <2>0, <3>3 DEF Become, Yos
    <3>5. Steady
      <4>1. ~Taking(y) BY <3>1 DEF EnsureWrite, Taking
      <4> QED BY <4>1, StaysSteady
    <3> QED BY <1>1, <2>3, <3>1, <3>4, <3>5 DEF EnsureWrite, Steady
  <2>4. CASE yo'[y].pc = "read" /\ yo'[y].job = "fetch"
    <3>1. ReadBlock(y) BY <2>4, Paths
    <3>2. Prepare(y, "services") => yo'[y].job = "services"
      BY <2>0 DEF Prepare, Become, Yos
    <3>3. /\ file # None
          /\ Become(y, [yo[y] EXCEPT !.pc = "read", !.job = "fetch", !.block = file.part])
      BY <2>4, <3>1, <3>2 DEF ReadBlock
    <3>4. yo'[y].block = file.part BY <2>0, <3>3 DEF Become, Yos
    <3> QED BY <2>4, <3>1, <3>3, <3>4 DEF ReadBlock, filVars
  <2> QED BY <2>1, <2>2, <2>3, <2>4
<1> QED BY <1>2, <1>3 DEF FetchInv

LEMMA ReadStep ==
  ASSUME TypeOK, TakeInv, ReadInv, NEW y \in Yo, Acts(y)
  PROVE  ReadInv'
<1> DEFINE Leads(w) ==
      yo[w].pc = "write" /\ yo[w].seen # None => file # None /\ yo[w].seen.part = file.part
<1>1. ASSUME NEW w \in Yo, w # y PROVE Leads(w)'
  <2>1. Kept(w) BY <1>1, YosStep DEF Acts
  <2>2. CASE Resting(w) BY <2>1, <2>2 DEF Kept, Resting
  <2>3. CASE ~Resting(w)
    <3>1. Steady BY <1>1, <2>3, OthersSteady
    <3> QED BY <2>1, <3>1 DEF Kept, Steady, ReadInv, At
  <2> QED BY <2>2, <2>3
<1>2. Leads(y)'
  <2> SUFFICES ASSUME yo'[y].pc = "write" PROVE Leads(y)' OBVIOUS
  <2>1. EnsureRead(y) BY Paths
  <2>2. yo'[y].seen = file BY <2>1 DEF EnsureRead, Become, Yos, TypeOK
  <2> QED BY <2>1, <2>2 DEF EnsureRead, filVars
<1> QED BY <1>1, <1>2 DEF ReadInv, At

-----------------------------------------------------------------------------
(* Whose key the box's address has, under a yo's own step.                 *)

\* The steps that are not about the box, its sealing, or known_hosts.
Apart(y) ==
  /\ box' = box /\ port' = port /\ sealed' = sealed /\ outlived' = outlived /\ known' = known
  /\ vm' = vm \/ vm' \in {"off", "stage2"} \/ (UpBoot(y) /\ (vm' = "initrd" => sealed))

LEMMA OnlyThese ==
  ASSUME TypeOK, NEW y \in Yo, Acts(y)
  PROVE  \/ UpDefine(y) \/ Pin(y) \/ Connect(y) \/ DestroyUndefine(y) \/ DestroyRemove(y)
         \/ Apart(y)
BY DEF Acts, Step, UpPlan, UpConfig, UpBoot, UpUnlock, EnsureRead, EnsureWrite, ReadBlock, Fetch,
       BootstrapStop, Crash, Begin, Apart, boxVars, filVars

\* What a prepared rebuild relies on.
Rebuilds(w) ==
  yo[w].job = "rebuild" /\ yo[w].pc \in {"read", "write", "connect"} => known # {}

LEMMA RebuildStep ==
  ASSUME TypeOK, TakeInv, ReadInv, SealInv, NEW y \in Yo, Acts(y)
  PROVE  \A w \in Yo : Rebuilds(w)'
<1>0. yo \in [Yo -> Yos] /\ yo[y] \in Yos BY DEF TypeOK
<1>1. \A w \in Yo : Rebuilds(w) BY DEF SealInv, Rebuilds
<1>2. ASSUME NEW w \in Yo, w # y PROVE Rebuilds(w)'
  <2>1. Kept(w) BY <1>2, YosStep DEF Acts
  <2>2. CASE Resting(w) BY <2>1, <2>2 DEF Kept, Resting, Rebuilds
  <2>3. CASE ~Resting(w)
    <3>1. Steady BY <1>2, <2>3, OthersSteady
    <3> QED BY <1>1, <2>1, <3>1 DEF Kept, Steady, Rebuilds
  <2> QED BY <2>2, <2>3
<1>3. Rebuilds(y)'
  <2>1. End(y) => yo'[y].pc = "idle" BY <1>0 DEF End, Become, Idle
  <2>2. CASE yo'[y].pc = "read" /\ yo'[y].job = "rebuild"
    BY <2>1, <2>2, Paths DEF Pin, Rebuilds
  <2>3. CASE yo'[y].pc = "write"
    <3>1. EnsureRead(y) BY <2>3, Paths
    <3>2. yo'[y].job = yo[y].job BY <1>0, <3>1 DEF EnsureRead, Become, Yos
    <3> QED BY <1>1, <3>1, <3>2 DEF EnsureRead, Rebuilds, filVars, At
  <2>4. CASE yo'[y].pc = "connect"
    <3>1. EnsureWrite(y) BY <2>4, Paths
    <3>2. \E after \in {"known", "connect"} :
            Become(y, [yo[y] EXCEPT !.pc = after, !.seen = None])
      BY <2>1, <2>4, <3>1 DEF EnsureWrite
    <3>3. yo'[y].job = yo[y].job BY <1>0, <3>2 DEF Become, Yos
    <3> QED BY <1>1, <3>1, <3>3 DEF EnsureWrite, Rebuilds, At
  <2> QED BY <2>2, <2>3, <2>4 DEF Rebuilds
<1> QED BY <1>2, <1>3

\* What a checked ssh may add to known_hosts: the key of the guest that answers.
LEMMA LearnsGuest ==
  ASSUME TypeOK, SealInv, KnowsGuest
  PROVE  /\ box = 0 => Learned = {}
         /\ box # 0 /\ ~outlived => Learned \subseteq {[port |-> port, key |-> box]}
<1>1. box = 0 => Learned = {} BY DEF TypeOK, Learned, Arrives
<1>2. ASSUME box # 0, ~outlived, Arrives
      PROVE  Learned \subseteq {[port |-> port, key |-> box]}
  <2>1. file.part = port BY <1>2 DEF Arrives
  <2>2. CASE vm = "stage2" BY <2>1, <2>2 DEF Learned, ServerKey
  <2>3. CASE vm = "initrd"
    <3>1. known # {} /\ known \subseteq {[port |-> port, key |-> box]}
      BY <1>2, <2>3 DEF SealInv, KnowsGuest
    <3>2. [port |-> port, key |-> box] \in Entries BY <2>1, <3>1 DEF Entries
    <3> QED BY <3>2 DEF Learned
  <2> QED BY <1>2, <2>2, <2>3 DEF Arrives, TypeOK
<1>3. ~Arrives => Learned = {} BY DEF Learned
<1> QED BY <1>1, <1>2, <1>3

LEMMA SealStep ==
  ASSUME TypeOK, TakeInv, PlaceInv, ReadInv, FetchInv, SealInv, KnowsGuest, NEW y \in Yo, Acts(y)
  PROVE  SealInv' /\ KnowsGuest'
<1> USE DEF At, boxVars, filVars
<1>0. /\ box \in Nat /\ made \in Nat /\ made + 1 # 0
      /\ box = 0 => vm = "off"
      /\ dir = FALSE => known = {}
  BY BoundsAssumption DEF TypeOK
<1> DEFINE Empty == box = 0 /\ ~outlived => known = {}
           Unlocked == vm = "initrd" => sealed
           Sealed == sealed /\ box # 0 /\ ~outlived => known # {}
<1>1. Empty /\ Unlocked /\ Sealed BY DEF SealInv
<1>2. CASE UpDefine(y)
  <2>1. Empty' BY <1>0, <1>1, <1>2 DEF UpDefine
  <2>2. Unlocked' BY <1>0, <1>1, <1>2 DEF UpDefine
  <2>3. Sealed' BY <1>0, <1>1, <1>2 DEF UpDefine
  <2>4. KnowsGuest' BY <1>0, <1>1, <1>2 DEF UpDefine, KnowsGuest
  <2> QED BY <2>1, <2>2, <2>3, <2>4, RebuildStep DEF SealInv, Rebuilds
<1>3. CASE Pin(y)
  <2>1. box # 0 /\ yo[y].got = box /\ yo[y].block = port BY <1>3 DEF Pin, FetchInv
  <2>2. Empty' /\ Unlocked' /\ Sealed' BY <1>1, <1>3, <2>1 DEF Pin
  <2>3. KnowsGuest' BY <1>3, <2>1 DEF Pin, KnowsGuest
  <2> QED BY <2>2, <2>3, RebuildStep DEF SealInv, Rebuilds
<1>4. CASE Connect(y)
  <2>1. LogsIn /\ yo[y].job = "rebuild" => known # {} BY <1>4 DEF Connect, SealInv
  <2>2. known \subseteq known' /\ (box = 0 => known' = known)
    BY <1>4, LearnsGuest DEF Connect
  <2>3. Empty' BY <1>1, <1>4, <2>2 DEF Connect
  <2>4. Unlocked' BY <1>1, <1>4 DEF Connect
  <2>5. Sealed' BY <1>1, <1>4, <2>1, <2>2 DEF Connect
  <2>6. KnowsGuest' BY <1>4, LearnsGuest DEF Connect, KnowsGuest
  <2> QED BY <2>3, <2>4, <2>5, <2>6, RebuildStep DEF SealInv, Rebuilds
<1>5. CASE DestroyUndefine(y)
  <2>1. Empty' /\ Unlocked' /\ Sealed' /\ KnowsGuest'
    BY <1>0, <1>5 DEF DestroyUndefine, KnowsGuest, TypeOK
  <2> QED BY <2>1, RebuildStep DEF SealInv, Rebuilds
<1>6. CASE DestroyRemove(y)
  <2>1. box = 0 BY <1>6 DEF DestroyRemove, PlaceInv
  <2>2. Empty' /\ Unlocked' /\ Sealed' /\ KnowsGuest'
    BY <1>1, <1>6, <2>1 DEF DestroyRemove, KnowsGuest
  <2> QED BY <2>2, RebuildStep DEF SealInv, Rebuilds
<1>7. CASE Apart(y)
  <2>1. Empty' /\ Unlocked' /\ Sealed' BY <1>1, <1>7 DEF Apart
  <2>2. KnowsGuest' BY <1>7 DEF Apart, KnowsGuest
  <2> QED BY <2>1, <2>2, RebuildStep DEF SealInv, Rebuilds
<1> QED BY <1>2, <1>3, <1>4, <1>5, <1>6, <1>7, OnlyThese

-----------------------------------------------------------------------------
(* What happens beside the yos.                                            *)

LEMMA BoxStep ==
  ASSUME ~Overlapping, PinInv, BoxRestarts \/ Replaced
  PROVE  PinInv'
<1> USE DEF boxVars, filVars
<1>0. TypeOK /\ TakeInv /\ PlaceInv /\ ReadInv /\ FetchInv /\ SealInv /\ KnowsGuest BY DEF PinInv
<1>1. TypeOK' BY <1>0, TypesOfBox
<1>2. CASE BoxRestarts
  <2>1. TakeInv' BY <1>0, <1>2 DEF BoxRestarts, TakeInv, Taking, Resting, Made
  <2>2. PlaceInv' BY <1>0, <1>2 DEF BoxRestarts, PlaceInv, Made, At
  <2>3. ReadInv' BY <1>0, <1>2 DEF BoxRestarts, ReadInv, At
  <2>4. FetchInv' BY <1>0, <1>2 DEF BoxRestarts, FetchInv, At
  <2>5. SealInv' BY <1>0, <1>2 DEF BoxRestarts, SealInv
  <2>6. KnowsGuest' BY <1>0, <1>2 DEF BoxRestarts, KnowsGuest
  <2> QED BY <1>1, <2>1, <2>2, <2>3, <2>4, <2>5, <2>6 DEF PinInv
<1>3. CASE Replaced
  <2>0. \A z \in Yo : yo'[z] = yo[z] /\ yo[z].pc \in {"idle", "plan"}
    BY <1>3 DEF Replaced, Resting
  <2>1. TakeInv' BY <2>0 DEF TakeInv, Taking
  <2>2. PlaceInv' BY <1>3, <2>0 DEF Replaced, PlaceInv, At
  <2>3. ReadInv' BY <2>0 DEF ReadInv, At
  <2>4. FetchInv' BY <2>0 DEF FetchInv, At
  <2>5. SealInv' BY <1>3, <2>0 DEF Replaced, SealInv
  <2>6. KnowsGuest' BY <1>3 DEF Replaced, KnowsGuest
  <2> QED BY <1>1, <2>1, <2>2, <2>3, <2>4, <2>5, <2>6 DEF PinInv
<1> QED BY <1>2, <1>3

-----------------------------------------------------------------------------
(* The inductive invariant, for yos that do not overlap.                   *)

LEMMA PinInit == Init => PinInv
<1> SUFFICES ASSUME Init PROVE PinInv OBVIOUS
<1>0. \A y \in Yo : yo[y] = Idle /\ yo[y].pc = "idle" BY DEF Init, Idle
<1>1. TypeOK BY LoginInit DEF LoginInv
<1>2. TakeInv /\ ReadInv /\ FetchInv BY <1>0 DEF TakeInv, Taking, ReadInv, FetchInv, At
<1>3. PlaceInv BY <1>0 DEF Init, PlaceInv, At
<1>4. SealInv /\ KnowsGuest BY <1>0 DEF Init, SealInv, KnowsGuest
<1> QED BY <1>1, <1>2, <1>3, <1>4 DEF PinInv

LEMMA PinStep == ~Overlapping /\ PinInv /\ [Next]_vars => PinInv'
<1> SUFFICES ASSUME ~Overlapping, PinInv, [Next]_vars PROVE PinInv' OBVIOUS
<1>1. ASSUME NEW y \in Yo, Acts(y) PROVE PinInv'
  <2>0. BlockInv
    <3>1. file # None => file.part \in Ports BY DEF PinInv, TypeOK, Files
    <3> QED BY <3>1 DEF PinInv, TypeOK, FetchInv, BlockInv
  <2>1. TypeOK' BY <1>1, <2>0, TypesOfYo DEF PinInv, Acts
  <2>2. TakeInv' BY <1>1, TakeStep DEF PinInv
  <2>3. PlaceInv' BY <1>1, PlaceStep DEF PinInv
  <2>4. ReadInv' BY <1>1, ReadStep DEF PinInv
  <2>5. FetchInv' BY <1>1, FetchStep DEF PinInv
  <2>6. SealInv' /\ KnowsGuest' BY <1>1, SealStep DEF PinInv
  <2> QED BY <2>1, <2>2, <2>3, <2>4, <2>5, <2>6 DEF PinInv
<1>2. CASE BoxRestarts \/ Replaced BY <1>2, BoxStep
<1>3. CASE UNCHANGED vars
  <2> USE <1>3 DEF vars, boxVars, filVars, PinInv
  <2>1. TypeOK' BY DEF TypeOK
  <2>2. TakeInv' BY DEF TakeInv, Taking, Resting, Made
  <2>3. PlaceInv' BY DEF PlaceInv, Made, At
  <2>4. ReadInv' /\ FetchInv' BY DEF ReadInv, FetchInv, At
  <2>5. SealInv' /\ KnowsGuest' BY DEF SealInv, KnowsGuest
  <2> QED BY <2>1, <2>2, <2>3, <2>4, <2>5
<1> QED BY <1>1, <1>2, <1>3 DEF Next, Acts

LEMMA PinHolds == ASSUME ~Overlapping PROVE Spec => []PinInv
BY PinInit, PinStep, PTL DEF Spec

-----------------------------------------------------------------------------
(* The theorems.                                                           *)

\* known_hosts holds the key of the guest that is there and nothing else, never one
\* of an earlier box and never an initrd's, unless the directory of an earlier box
\* is still there (ensure_guest_known_hosts replaces the file, initrd_ssh_argv
\* learns nothing).
THEOREM GuestKnown == ASSUME ~Overlapping PROVE Spec => []KnowsGuest
<1>1. PinInv => KnowsGuest BY DEF PinInv
<1> QED BY <1>1, PinHolds, PTL

\* Adding yo's block by replacing the whole file never loses the driver's part nor
\* brings an older one back: ssh.config leads to a box that runs (lima_part_of,
\* write_ssh_config).
THEOREM BoxReached == ASSUME ~Overlapping PROVE Spec => []ReachesBox
<1>1. PinInv => ReachesBox BY DEF PinInv, PlaceInv, Made, ReachesBox
<1> QED BY <1>1, PinHolds, PTL
=============================================================================
