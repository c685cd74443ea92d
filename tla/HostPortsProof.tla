--------------------------- MODULE HostPortsProof ---------------------------
(***************************************************************************)
(* The ports and masters of one host, for any number of yos and boxes and  *)
(* any window of ports: what one yo claims or stops is no other's.         *)
(***************************************************************************)
EXTENDS HostPorts, TLAPS

-----------------------------------------------------------------------------
(* How a yo moves.                                                         *)

Control ==
  /\ claim \in [Boxes -> Ports \cup {0}]
  /\ portLock \in Yo \cup {None}
  /\ masterLock \in [Boxes -> Yo \cup {None}]
  /\ pc \in [Yo -> Pcs]
  /\ box \in [Yo -> Boxes \cup {None}]
  /\ next \in [Yo -> {"idle", "portLock"}]
  /\ pick \in [Yo -> Ports \cup {0}]

Masters ==
  /\ master \in [Boxes -> {"none", "live", "dead"}]
  /\ via \in [Boxes -> {"lock", "mux"}]
  /\ fwd \in [Boxes -> SUBSET Ports]
  /\ sock \in [Boxes -> {"none", "stale", "served"}]

Said ==
  /\ asked \in [Boxes -> BOOLEAN]
  /\ told \in [Boxes -> BOOLEAN]

LEMMA Parts ==
  /\ TypeOK <=> Control /\ Masters /\ Said
  /\ TypeOK' <=> Control' /\ Masters' /\ Said'
BY DEF TypeOK, Control, Masters, Said

\* What y does not touch of the others.
Others(y) ==
  \A z \in Yo : z # y =>
    pc'[z] = pc[z] /\ box'[z] = box[z] /\ next'[z] = next[z] /\ pick'[z] = pick[z]

\* A command that is over has let its locks go, and nobody else's.
LEMMA Leaving ==
  ASSUME Control, NEW y \in Yo, Done(y), claim' \in [Boxes -> Ports \cup {0}]
  PROVE  /\ Control' /\ Others(y) /\ pc'[y] = "idle"
         /\ \A z \in Yo : z # y /\ portLock = z => portLock' = z
         /\ \A z \in Yo, b \in Boxes : z # y /\ masterLock[b] = z => masterLock'[b] = z
<1>1. "idle" \in Pcs BY DEF Pcs
<1>2. Control' BY <1>1 DEF Control, Done, Goto
<1>3. Others(y) /\ pc'[y] = "idle" BY DEF Control, Done, Goto, Others
<1>4. \A z \in Yo : z # y /\ portLock = z => portLock' = z BY DEF Done
<1>5. \A z \in Yo, b \in Boxes : z # y /\ masterLock[b] = z => masterLock'[b] = z
  BY DEF Done, Control
<1> QED BY <1>2, <1>3, <1>4, <1>5

\* A step inside a command.
LEMMA Going ==
  ASSUME Control, NEW y \in Yo, NEW there \in Pcs, Goto(y, there),
         UNCHANGED <<claim, portLock, masterLock, box, next, pick>>
  PROVE  Control' /\ Others(y) /\ pc'[y] = there
BY DEF Control, Goto, Others

-----------------------------------------------------------------------------
(* The types.                                                              *)

LEMMA TypesOfHost ==
  ASSUME TypeOK, Host
  PROVE  TypeOK'
<1> USE DEF Control, Masters, Said
<1>0. Control /\ Masters /\ Said BY Parts
<1>1. PICK b \in Boxes : ConnectionLost(b) \/ MasterQuits(b) \/ MuxSession(b) BY DEF Host
<1>2. Control' BY <1>0, <1>1 DEF ConnectionLost, MasterQuits, MuxSession
<1>3. Masters'
  BY <1>0, <1>1 DEF ConnectionLost, MasterQuits, MuxSession, MasterGone, MasterOpens
<1>4. Said'
  BY <1>0, <1>1, Zenon DEF ConnectionLost, MasterQuits, MuxSession, MasterGone, MasterOpens
<1> QED BY <1>2, <1>3, <1>4, Parts

LEMMA TypesOfPick ==
  ASSUME TypeOK, BoxInv, PickInv, NEW y \in Yo, Pick(y)
  PROVE  TypeOK' /\ Others(y)
<1>0. Control /\ Masters /\ Said BY Parts
<1>1. Control' /\ Others(y)
  <2>1. ASSUME NEW here \in {"claimLock", "portLock"}, NEW there \in {"claimPick", "portPick"},
               PickLock(y, here, there)
        PROVE  Control' /\ Others(y)
    BY <1>0, <2>1 DEF PickLock, Goto, Control, Others, Pcs, PickPcs
  <2>2. ASSUME NEW here \in {"claimPick", "portPick"}, NEW there \in {"define", "forward"},
               PickPort(y, here, there)
        PROVE  Control' /\ Others(y)
    <3>1. PICK others \in SUBSET Ports :
            \/ /\ \E p \in Free(others) : pick' = [pick EXCEPT ![y] = p]
               /\ Goto(y, there) /\ UNCHANGED <<portLock, masterLock, box, next>>
            \/ Done(y)
      BY <2>2 DEF PickPort
    <3>2. UNCHANGED claim BY <2>2 DEF PickPort
    <3>3. there \in Pcs BY DEF Pcs, PickPcs
    <3>4. Free(others) \subseteq Ports BY DEF Free
    <3>5. CASE Done(y) BY <1>0, <3>2, <3>5, Leaving DEF Control
    <3>6. CASE ~Done(y)
      BY <1>0, <3>1, <3>2, <3>3, <3>4, <3>6 DEF Goto, Control, Others
    <3> QED BY <3>5, <3>6
  <2>3. ASSUME Define(y) PROVE Control' /\ Others(y)
    <3>1. claim' \in [Boxes -> Ports \cup {0}] /\ Done(y)
      BY <1>0, <2>3 DEF Define, Control
    <3> QED BY <1>0, <3>1, Leaving
  <2>4. ASSUME Forward(y) PROVE Control' /\ Others(y)
    BY <1>0, <2>4, Leaving DEF Forward, Control
  <2> QED BY <2>1, <2>2, <2>3, <2>4 DEF Pick
<1>2. Masters'
  <2>1. CASE Forward(y)
    <3>1. box[y] \in Boxes BY <2>1 DEF Forward, BoxInv
    <3>2. pick[y] \in Ports BY <2>1 DEF Forward, PickInv
    <3>3. fwd' \in [Boxes -> SUBSET Ports]
      BY <1>0, <2>1, <3>1, <3>2 DEF Forward, Masters
    <3> QED BY <1>0, <2>1, <3>3 DEF Forward, Masters
  <2>2. CASE ~Forward(y)
    <3>1. UNCHANGED masterVars
      BY <2>2 DEF Pick, PickLock, PickPort, Define
    <3> QED BY <1>0, <3>1 DEF masterVars, Masters
  <2> QED BY <2>1, <2>2
<1>3. Said'
  <2>1. UNCHANGED <<asked, told>>
    BY DEF Pick, PickLock, PickPort, Define, Forward, masterVars
  <2> QED BY <1>0, <2>1 DEF Said
<1> QED BY <1>1, <1>2, <1>3, Parts

LEMMA TypesOfEnsure ==
  ASSUME TypeOK, BoxInv, NEW y \in Yo, Ensure(y) \/ Destroy(y) \/ Begin(y)
  PROVE  TypeOK' /\ Others(y)
<1>0. Control /\ Masters /\ Said BY Parts
<1>M. ASSUME MasterGone(box[y]) \/ UNCHANGED masterVars \/ MasterOpens(box[y], "lock")
      PROVE  Masters' /\ Said'
  <2>1. Masters' BY <1>0, <1>M DEF Masters, MasterGone, MasterOpens, masterVars
  <2>2. Said' BY <1>0, <1>M, Zenon DEF Said, MasterGone, MasterOpens, masterVars
  <2> QED BY <2>1, <2>2
<1>E. ASSUME Ensured(y) PROVE Control' /\ Others(y)
  <2>1. CASE Done(y) /\ UNCHANGED claim BY <1>0, <2>1, Leaving DEF Control
  <2>2. CASE ~(Done(y) /\ UNCHANGED claim)
    <3>1. next[y] = "portLock" BY <1>0, <1>E, <2>2 DEF Ensured, Control
    <3>2. /\ Goto(y, "portLock") /\ masterLock' = [masterLock EXCEPT ![box[y]] = None]
          /\ UNCHANGED <<claim, portLock, box, next, pick>>
      BY <1>E, <2>2, <3>1 DEF Ensured
    <3>3. "portLock" \in Pcs BY DEF Pcs, PickPcs
    <3> QED BY <1>0, <3>2, <3>3 DEF Control, Goto, Others
  <2> QED BY <2>1, <2>2
<1>D. ASSUME Done(y), UNCHANGED claim PROVE Control' /\ Others(y)
  BY <1>0, <1>D, Leaving DEF Control
<1>1. CASE EnsureLock(y) \/ CloseLock(y)
  <2>1. Control' /\ Others(y)
    BY <1>0, <1>1 DEF EnsureLock, CloseLock, Goto, Control, Others, Pcs, EnsurePcs, ClosePcs
  <2>2. UNCHANGED masterVars BY <1>1 DEF EnsureLock, CloseLock
  <2> QED BY <1>M, <2>1, <2>2, Parts
<1>2. CASE EnsureCheck(y)
  <2>1. Control' /\ Others(y)
    BY <1>0, <1>2 DEF EnsureCheck, Goto, Control, Others, Pcs, EnsurePcs
  <2> QED BY <1>M, <1>2, <2>1, Parts DEF EnsureCheck
<1>3. CASE EnsureSession(y)
  <2>1. CASE Ensured(y) BY <1>M, <1>E, <1>3, <2>1, Parts DEF EnsureSession
  <2>2. CASE ~Ensured(y)
    <3>1. /\ Goto(y, "exit") /\ UNCHANGED masterVars
          /\ UNCHANGED <<claim, portLock, masterLock, box, next, pick>>
      BY <1>3, <2>2 DEF EnsureSession
    <3>2. "exit" \in Pcs BY DEF Pcs, EnsurePcs
    <3>3. Control' /\ Others(y) BY <1>0, <3>1, <3>2, Going
    <3> QED BY <1>M, <3>1, <3>3, Parts
  <2> QED BY <2>1, <2>2
<1>4. CASE StopMaster(y, "exit", "gone") \/ StopMaster(y, "quit", "left")
  <2>1. Control' /\ Others(y)
    BY <1>0, <1>4 DEF StopMaster, Goto, Control, Others, Pcs, EnsurePcs, ClosePcs
  <2>2. MasterGone(box[y]) \/ UNCHANGED masterVars BY <1>4 DEF StopMaster
  <2> QED BY <1>M, <2>1, <2>2, Parts
<1>5. CASE EnsureGone(y) \/ CloseGone(y)
  <2>0. UNCHANGED masterVars /\ UNCHANGED claim BY <1>5 DEF EnsureGone, CloseGone
  <2>1. CASE Done(y) BY <1>M, <1>D, <2>0, <2>1, Parts
  <2>2. CASE ~Done(y)
    <3>1. Control' /\ Others(y)
      BY <1>0, <1>5, <2>0, <2>2
      DEF EnsureGone, CloseGone, Goto, Control, Others, Pcs, EnsurePcs
    <3> QED BY <1>M, <2>0, <3>1, Parts
  <2> QED BY <2>1, <2>2
<1>6. CASE EnsureOpen(y)
  <2>1. Ensured(y) \/ (Done(y) /\ UNCHANGED claim) BY <1>6 DEF EnsureOpen
  <2>2. UNCHANGED masterVars \/ MasterOpens(box[y], "lock") BY <1>6 DEF EnsureOpen
  <2> QED BY <1>M, <1>D, <1>E, <2>1, <2>2, Parts
<1>7. CASE Undefine(y)
  <2>1. claim' \in [Boxes -> Ports \cup {0}] /\ Done(y)
    BY <1>0, <1>7 DEF Undefine, Control
  <2>2. Control' /\ Others(y) BY <1>0, <2>1, Leaving
  <2> QED BY <1>M, <1>7, <2>2, Parts DEF Undefine
<1>8. CASE Begin(y)
  <2>1. PICK b \in Boxes :
          /\ box' = [box EXCEPT ![y] = b]
          /\ \E there \in {"claimLock", "ensure", "probe", "undefine", "close"} : Goto(y, there)
          /\ \E after \in {"idle", "portLock"} :
               next' = [next EXCEPT ![y] = after] \/ UNCHANGED next
    <3>1. PICK b \in Boxes :
            /\ box' = [box EXCEPT ![y] = b]
            /\ \/ claim[b] = 0 /\ Goto(y, "claimLock") /\ UNCHANGED next
               \/ /\ Goto(y, "ensure")
                  /\ \E after \in {"idle", "portLock"} : next' = [next EXCEPT ![y] = after]
               \/ Goto(y, "probe") /\ UNCHANGED next
               \/ /\ claim[b] # 0 /\ UNCHANGED next
                  /\ Goto(y, IF master[b] = "none" THEN "undefine" ELSE "close")
      BY <1>8 DEF Begin
    <3>2. \E there \in {"claimLock", "ensure", "probe", "undefine", "close"} : Goto(y, there)
      BY <3>1
    <3>3. \E after \in {"idle", "portLock"} :
            next' = [next EXCEPT ![y] = after] \/ UNCHANGED next
      BY <3>1
    <3> QED BY <3>1, <3>2, <3>3
  <2>2. {"claimLock", "ensure", "probe", "undefine", "close"} \subseteq Pcs
    BY DEF Pcs, EnsurePcs, ClosePcs, PickPcs, HealPcs
  <2>3. UNCHANGED <<claim, portLock, masterLock, pick>> /\ UNCHANGED masterVars
    BY <1>8 DEF Begin
  <2>4. Control' /\ Others(y) BY <1>0, <2>1, <2>2, <2>3 DEF Control, Goto, Others
  <2> QED BY <1>M, <2>3, <2>4, Parts
<1> QED BY <1>1, <1>2, <1>3, <1>4, <1>5, <1>6, <1>7, <1>8 DEF Ensure, Destroy

LEMMA TypesOfHeal ==
  ASSUME TypeOK, BoxInv, NEW y \in Yo, Heal(y) \/ Crash(y)
  PROVE  TypeOK' /\ Others(y)
<1>0. Control /\ Masters /\ Said BY Parts
<1>1. Control' /\ Others(y)
  <2>1. UNCHANGED claim
    BY DEF Heal, HealProbe, HealCancel, HealRemove, HealReissue, HealAgain, Crash
  <2>2. \/ Done(y)
        \/ /\ \E there \in HealPcs : Goto(y, there)
           /\ UNCHANGED <<portLock, masterLock, box, next, pick>>
    BY DEF Heal, HealProbe, HealCancel, HealRemove, HealReissue, HealAgain, Crash,
           Say, HealGoes, HealPcs
  <2>3. HealPcs \subseteq Pcs BY DEF Pcs
  <2>4. CASE Done(y) BY <1>0, <2>1, <2>4, Leaving DEF Control
  <2>5. CASE ~Done(y) BY <1>0, <2>1, <2>2, <2>3, <2>5 DEF Control, Goto, Others
  <2> QED BY <2>4, <2>5
<1>2. Masters'
  <2>1. UNCHANGED <<via, fwd>>
    BY DEF Heal, HealProbe, HealCancel, HealRemove, HealReissue, HealAgain, Crash
  <2>2. UNCHANGED master \/ master' = [master EXCEPT ![box[y]] = "live"]
    BY DEF Heal, HealProbe, HealCancel, HealRemove, HealReissue, HealAgain, Crash
  <2>3. UNCHANGED sock \/ \E s \in {"none", "stale", "served"} :
                            sock' = [sock EXCEPT ![box[y]] = s]
    <3>1. CASE HealCancel(y)
      <4>1. sock[box[y]] \in {"none", "stale", "served"}
        BY <1>0, <3>1 DEF HealCancel, Masters, BoxInv
      <4> QED BY <3>1, <4>1 DEF HealCancel
    <3>2. CASE HealReissue(y)
      <4>1. sock[box[y]] \in {"none", "stale", "served"}
        BY <1>0, <3>2 DEF HealReissue, Masters, BoxInv
      <4> QED BY <3>2, <4>1 DEF HealReissue
    <3>3. CASE HealRemove(y) BY <3>3 DEF HealRemove
    <3>4. CASE HealProbe(y) \/ HealAgain(y) \/ Crash(y)
      BY <3>4 DEF HealProbe, HealAgain, Crash
    <3> QED BY <3>1, <3>2, <3>3, <3>4 DEF Heal
  <2> QED BY <1>0, <2>1, <2>2, <2>3 DEF Masters
<1>3. Said'
  <2>1. asked' \in [Boxes -> BOOLEAN]
    BY <1>0, Zenon DEF Heal, HealProbe, HealCancel, HealRemove, HealReissue, HealAgain, Crash, Said
  <2>2. told' \in [Boxes -> BOOLEAN]
    <3>1. \/ UNCHANGED told
          \/ \E up \in BOOLEAN : told' = [told EXCEPT ![box[y]] = up]
      BY Zenon DEF Heal, HealProbe, HealCancel, HealRemove, HealReissue, HealAgain, Crash,
                   Say, HealGoes
    <3> QED BY <1>0, <3>1 DEF Said
  <2> QED BY <2>1, <2>2 DEF Said
<1> QED BY <1>1, <1>2, <1>3, Parts

-----------------------------------------------------------------------------
(* Ports.                                                                  *)

\* What most steps do: no new claim, no new forward, and nobody comes to a
\* place that has the lock.
Calm ==
  /\ UNCHANGED claim
  /\ \A b \in Boxes : fwd'[b] \subseteq fwd[b]
  /\ \A z \in Yo : pc'[z] \in PortPcs =>
       pc'[z] = pc[z] /\ pick'[z] = pick[z] /\ portLock' = portLock

LEMMA CalmKeeps ==
  ASSUME PortsInv, Calm
  PROVE  PortLockInv' /\ PickInv' /\ ClaimsApart' /\ ForwardsOffClaims'
<1>1. PortLockInv' BY DEF PortsInv, Calm, PortLockInv
<1>2. PickInv' BY DEF PortsInv, Calm, PickInv, PortPcs
<1>3. ClaimsApart' BY DEF PortsInv, Calm, ClaimsApart
<1>4. ForwardsOffClaims' BY DEF PortsInv, Calm, ForwardsOffClaims
<1> QED BY <1>1, <1>2, <1>3, <1>4

LEMMA HostIsCalm ==
  ASSUME PortsInv, Host
  PROVE  Calm
<1>1. PICK b \in Boxes : ConnectionLost(b) \/ MasterQuits(b) \/ MuxSession(b) BY DEF Host
<1>2. UNCHANGED <<claim, pc, pick, portLock>>
  BY <1>1 DEF ConnectionLost, MasterQuits, MuxSession
<1>3. UNCHANGED fwd \/ fwd' = [fwd EXCEPT ![b] = {}]
  BY <1>1 DEF ConnectionLost, MasterQuits, MuxSession, MasterGone, MasterOpens
<1>4. fwd \in [Boxes -> SUBSET Ports] BY DEF PortsInv, TypeOK
<1> QED BY <1>2, <1>3, <1>4 DEF Calm

\* A yo away from the port lock that stays away from it disturbs nobody there.
LEMMA AwayIsCalm ==
  ASSUME PortsInv, NEW y \in Yo, Others(y),
         UNCHANGED claim, \A b \in Boxes : fwd'[b] \subseteq fwd[b],
         pc'[y] \notin PortPcs,
         portLock' = portLock \/ (portLock = y /\ portLock' = None)
  PROVE  Calm
<1>1. \A z \in Yo : pc'[z] \in PortPcs => z # y /\ pc[z] \in PortPcs /\ portLock = z
  BY DEF Others, PortsInv, PortLockInv
<1> QED BY <1>1 DEF Calm, Others

LEMMA EnsureIsCalm ==
  ASSUME PortsInv, NEW y \in Yo, Ensure(y) \/ Destroy(y) \/ Begin(y), ~Undefine(y)
  PROVE  Calm
<1>0. TypeOK /\ BoxInv BY DEF PortsInv
<1>1. Others(y) BY <1>0, TypesOfEnsure
<1>2. UNCHANGED claim
  BY DEF Ensure, Destroy, Begin, EnsureLock, EnsureCheck, EnsureSession, Ensured, StopMaster,
         EnsureGone, EnsureOpen, CloseLock, CloseGone
<1>3. UNCHANGED fwd \/ fwd' = [fwd EXCEPT ![box[y]] = {}]
  BY DEF Ensure, Destroy, Begin, EnsureLock, EnsureCheck, EnsureSession, Ensured, StopMaster,
         EnsureGone, EnsureOpen, CloseLock, CloseGone, masterVars, MasterGone, MasterOpens
<1>4. \A b \in Boxes : fwd'[b] \subseteq fwd[b] BY <1>0, <1>3 DEF TypeOK
<1>5. portLock' = portLock \/ (portLock = y /\ portLock' = None)
  BY DEF Ensure, Destroy, Begin, EnsureLock, EnsureCheck, EnsureSession, Ensured, StopMaster,
         EnsureGone, EnsureOpen, CloseLock, CloseGone, Done
<1>6. pc'[y] \notin PortPcs
  <2>1. \E there \in Pcs \ PortPcs : Goto(y, there)
    <3> DEFINE Away == Pcs \ PortPcs
    <3>1. {"idle", "undefine", "ensure", "check", "session", "exit", "gone", "open",
           "close", "quit", "left", "probe", "claimLock", "portLock"} \subseteq Away
      BY DEF Pcs, PortPcs, EnsurePcs, ClosePcs, PickPcs, HealPcs
    <3>2. next[y] \in {"idle", "portLock"} BY <1>0 DEF TypeOK
    <3> SUFFICES \E there \in Away : Goto(y, there) OBVIOUS
    <3> HIDE DEF Away
    <3>3. CASE Begin(y) BY <3>1, <3>3 DEF Begin
    <3>4. CASE Ensure(y)
      BY <3>1, <3>2, <3>4
      DEF Ensure, EnsureLock, EnsureCheck, EnsureSession, Ensured, StopMaster,
          EnsureGone, EnsureOpen, Done
    <3>5. CASE Destroy(y)
      BY <3>1, <3>5 DEF Destroy, CloseLock, CloseGone, StopMaster, Undefine, Done
    <3> QED BY <3>3, <3>4, <3>5
  <2> QED BY <1>0, <2>1 DEF Goto, TypeOK
<1> QED BY <1>1, <1>2, <1>4, <1>5, <1>6, AwayIsCalm

LEMMA HealIsCalm ==
  ASSUME PortsInv, NEW y \in Yo, Heal(y) \/ Crash(y)
  PROVE  Calm
<1>0. TypeOK /\ BoxInv BY DEF PortsInv
<1>1. Others(y) BY <1>0, TypesOfHeal
<1>2. UNCHANGED <<claim, fwd>>
  BY DEF Heal, HealProbe, HealCancel, HealRemove, HealReissue, HealAgain, Crash
<1>3. \E there \in {"idle"} \cup HealPcs : Goto(y, there)
  BY DEF Heal, HealProbe, HealCancel, HealRemove, HealReissue, HealAgain, Crash,
         Say, HealGoes, HealPcs, Done
<1>4. pc'[y] \notin PortPcs BY <1>0, <1>3 DEF Goto, TypeOK, HealPcs, PortPcs
<1>5. portLock' = portLock \/ (portLock = y /\ portLock' = None)
  BY DEF Heal, HealProbe, HealCancel, HealRemove, HealReissue, HealAgain, Crash,
         Say, HealGoes, Done
<1> QED BY <1>1, <1>2, <1>4, <1>5, AwayIsCalm

\* The first to take the lock is alone with it.
LEMMA PickLockKeeps ==
  ASSUME PortsInv, NEW y \in Yo, NEW here \in {"claimLock", "portLock"},
         NEW there \in {"claimPick", "portPick"}, PickLock(y, here, there)
  PROVE  PortLockInv' /\ PickInv' /\ ClaimsApart' /\ ForwardsOffClaims'
<1>0. TypeOK BY DEF PortsInv
<1>1. /\ UNCHANGED <<claim, pick>> /\ portLock = None /\ portLock' = y
      /\ pc' = [pc EXCEPT ![y] = there]
  BY DEF PickLock, Goto
<1>2. UNCHANGED fwd BY DEF PickLock, masterVars
<1>3. \A z \in Yo : pc[z] \notin PortPcs
  BY <1>1, NoneAssumption DEF PortsInv, PortLockInv
<1>4. \A z \in Yo : z # y => pc'[z] \notin PortPcs BY <1>0, <1>1, <1>3 DEF TypeOK
<1>5. pc'[y] = there BY <1>0, <1>1 DEF TypeOK
<1>6. PortLockInv' BY <1>1, <1>4 DEF PortLockInv
<1>7. PickInv' BY <1>4, <1>5 DEF PickInv, PortPcs
<1>8. ClaimsApart' BY <1>1 DEF PortsInv, ClaimsApart
<1>9. ForwardsOffClaims' BY <1>1, <1>2 DEF PortsInv, ForwardsOffClaims
<1> QED BY <1>6, <1>7, <1>8, <1>9

\* What is picked is free of every claim and every forward.
LEMMA PickPortKeeps ==
  ASSUME PortsInv, NEW y \in Yo, NEW here \in {"claimPick", "portPick"},
         NEW there \in {"define", "forward"}, PickPort(y, here, there)
  PROVE  PortLockInv' /\ PickInv' /\ ClaimsApart' /\ ForwardsOffClaims'
<1>0. TypeOK BY DEF PortsInv
<1>1. UNCHANGED <<claim, fwd>> BY DEF PickPort, masterVars
<1>2. portLock = y BY DEF PickPort, PortsInv, PortLockInv, PortPcs
<1>3. \A z \in Yo : z # y => pc[z] \notin PortPcs
  BY <1>2 DEF PortsInv, PortLockInv
<1>4. PICK others \in SUBSET Ports :
        \/ /\ \E p \in Free(others) : pick' = [pick EXCEPT ![y] = p]
           /\ Goto(y, there) /\ UNCHANGED <<portLock, masterLock, box, next>>
        \/ Done(y)
  BY DEF PickPort
<1>5. \A z \in Yo : z # y => pc'[z] \notin PortPcs
  BY <1>0, <1>3, <1>4 DEF Done, Goto, TypeOK
<1>6. CASE Done(y)
  <2>1. pc'[y] = "idle" BY <1>0, <1>6 DEF Done, Goto, TypeOK
  <2>2. \A z \in Yo : pc'[z] \notin PortPcs BY <1>5, <2>1 DEF PortPcs
  <2>3. PortLockInv' /\ PickInv' BY <2>2 DEF PortLockInv, PickInv, PortPcs
  <2> QED BY <1>1, <2>3 DEF PortsInv, ClaimsApart, ForwardsOffClaims
<1>7. CASE ~Done(y)
  <2>1. PICK p \in Free(others) : pick' = [pick EXCEPT ![y] = p] BY <1>4, <1>7
  <2>2. UNCHANGED portLock BY <1>4, <1>7
  <2>3. pick'[y] = p BY <1>0, <2>1 DEF TypeOK
  <2>4. /\ p \in Ports
        /\ \A b \in Boxes : claim[b] # p /\ p \notin fwd[b]
    BY <2>1 DEF Free, Forwarded
  <2>5. PortLockInv' BY <1>2, <1>5, <2>2 DEF PortLockInv
  <2>6. PickInv' BY <1>1, <1>5, <2>3, <2>4 DEF PickInv, PortPcs
  <2> QED BY <1>1, <2>5, <2>6 DEF PortsInv, ClaimsApart, ForwardsOffClaims
<1> QED BY <1>6, <1>7

\* Taking the port gives the box a claim, or a forward, that was still free.
LEMMA TakeKeeps ==
  ASSUME PortsInv, NEW y \in Yo, Define(y) \/ Forward(y)
  PROVE  PortLockInv' /\ PickInv' /\ ClaimsApart' /\ ForwardsOffClaims'
<1>0. TypeOK /\ BoxInv BY DEF PortsInv
<1>1. Done(y) BY DEF Define, Forward
<1>2. pc[y] \in {"define", "forward"} BY DEF Define, Forward
<1>3. box[y] \in Boxes BY <1>0, <1>2 DEF BoxInv
<1>4. /\ pick[y] \in Ports
      /\ \A b \in Boxes : claim[b] # pick[y] /\ pick[y] \notin fwd[b]
  BY <1>2 DEF PortsInv, PickInv
<1>5. portLock = y BY <1>2 DEF PortsInv, PortLockInv, PortPcs
<1>6. \A z \in Yo : pc'[z] \notin PortPcs
  <2>1. \A z \in Yo : z # y => pc[z] \notin PortPcs BY <1>5 DEF PortsInv, PortLockInv
  <2> QED BY <1>0, <1>1, <2>1 DEF Done, Goto, TypeOK, PortPcs
<1>7. PortLockInv' /\ PickInv' BY <1>6 DEF PortLockInv, PickInv, PortPcs
<1>8. CASE Define(y)
  <2>1. claim' = [claim EXCEPT ![box[y]] = pick[y]] \/ UNCHANGED claim BY <1>8 DEF Define
  <2>2. UNCHANGED fwd BY <1>8 DEF Define, masterVars
  <2>3. /\ claim'[box[y]] \in {pick[y], claim[box[y]]}
        /\ \A b \in Boxes : b # box[y] => claim'[b] = claim[b]
    BY <1>0, <1>3, <2>1 DEF TypeOK
  <2>4. ClaimsApart' BY <1>4, <2>3 DEF PortsInv, ClaimsApart
  <2>5. ForwardsOffClaims' BY <1>4, <2>2, <2>3 DEF PortsInv, ForwardsOffClaims
  <2> QED BY <1>7, <2>4, <2>5
<1>9. CASE Forward(y)
  <2>1. UNCHANGED claim BY <1>9 DEF Forward
  <2>2. UNCHANGED fwd \/ fwd' = [fwd EXCEPT ![box[y]] = @ \cup {pick[y]}]
    BY <1>9 DEF Forward
  <2>3. \A b \in Boxes : fwd'[b] \subseteq fwd[b] \cup {pick[y]}
    BY <1>0, <1>3, <2>2 DEF TypeOK
  <2>4. ClaimsApart' BY <2>1 DEF PortsInv, ClaimsApart
  <2>5. ForwardsOffClaims' BY <1>4, <2>1, <2>3 DEF PortsInv, ForwardsOffClaims
  <2> QED BY <1>7, <2>4, <2>5
<1> QED BY <1>8, <1>9

\* A destroyed box gives its port back.
LEMMA UndefineKeeps ==
  ASSUME PortsInv, NEW y \in Yo, Undefine(y)
  PROVE  PortLockInv' /\ PickInv' /\ ClaimsApart' /\ ForwardsOffClaims'
<1>0. TypeOK /\ BoxInv BY DEF PortsInv
<1>1. /\ pc[y] = "undefine" /\ claim' = [claim EXCEPT ![box[y]] = 0] /\ Done(y)
  BY DEF Undefine
<1>2. UNCHANGED fwd BY DEF Undefine, masterVars
<1>3. box[y] \in Boxes BY <1>0, <1>1 DEF BoxInv
<1>4. \A b \in Boxes : claim'[b] = claim[b] \/ claim'[b] = 0
  BY <1>0, <1>1 DEF TypeOK
<1>5. \A z \in Yo : pc'[z] \in PortPcs =>
        pc'[z] = pc[z] /\ pick'[z] = pick[z] /\ portLock' = portLock
  <2>1. pc'[y] \notin PortPcs BY <1>0, <1>1 DEF Done, Goto, TypeOK, PortPcs
  <2>2. \A z \in Yo : z # y => pc'[z] = pc[z] /\ pick'[z] = pick[z]
    BY <1>0, <1>1 DEF Done, Goto, TypeOK
  <2>3. \A z \in Yo : z # y /\ pc'[z] \in PortPcs => portLock = z
    BY <2>2 DEF PortsInv, PortLockInv
  <2>4. \A z \in Yo : z # y /\ portLock = z => portLock' = portLock BY <1>1 DEF Done
  <2> QED BY <2>1, <2>2, <2>3, <2>4
<1>6. PortLockInv' BY <1>5 DEF PortsInv, PortLockInv
<1>7. 0 \notin Ports BY PortsAssumption
<1>8. PickInv' BY <1>2, <1>4, <1>5, <1>7 DEF PortsInv, PickInv, PortPcs
<1>9. ClaimsApart' BY <1>0, <1>1, <1>3 DEF PortsInv, ClaimsApart, TypeOK
<1>10. ForwardsOffClaims'
  <2>1. \A b \in Boxes : 0 \notin fwd[b] BY <1>0, <1>7 DEF TypeOK
  <2> QED BY <1>2, <1>4, <2>1 DEF PortsInv, ForwardsOffClaims
<1> QED BY <1>6, <1>8, <1>9, <1>10

\* A step of one yo leaves every busy one with its box.
LEMMA BoxStep ==
  ASSUME TypeOK, BoxInv, NEW y \in Yo, Others(y),
         Begin(y) \/ Pick(y) \/ Ensure(y) \/ Destroy(y) \/ Heal(y) \/ Crash(y)
  PROVE  BoxInv'
<1>1. CASE Begin(y)
  <2>1. PICK b \in Boxes : box' = [box EXCEPT ![y] = b] BY <1>1 DEF Begin
  <2> QED BY <2>1 DEF TypeOK, BoxInv, Others
<1>2. CASE ~Begin(y)
  <2>1. Done(y) \/ UNCHANGED box
    BY <1>2
    DEF Pick, PickLock, PickPort, Define, Forward, Ensure, EnsureLock, EnsureCheck,
        EnsureSession, Ensured, StopMaster, EnsureGone, EnsureOpen, Destroy, CloseLock,
        CloseGone, Undefine, Heal, HealProbe, HealCancel, HealRemove, HealReissue, HealAgain,
        Crash, Say, HealGoes
  <2>2. pc[y] # "idle"
    BY <1>2
    DEF Pick, PickLock, PickPort, Define, Forward, Ensure, EnsureLock, EnsureCheck,
        EnsureSession, StopMaster, EnsureGone, EnsureOpen, Destroy, CloseLock,
        CloseGone, Undefine, Heal, HealProbe, HealCancel, HealRemove, HealReissue, HealAgain,
        Crash
  <2>3. CASE Done(y)
    <3>1. pc'[y] = "idle" BY <2>3 DEF Done, Goto, TypeOK
    <3> QED BY <3>1 DEF BoxInv, Others
  <2>4. CASE UNCHANGED box BY <2>2, <2>4 DEF BoxInv, Others
  <2> QED BY <2>1, <2>3, <2>4
<1> QED BY <1>1, <1>2

LEMMA PortsStep ==
  ASSUME PortsInv, [Next]_vars
  PROVE  PortsInv'
<1>0. TypeOK /\ BoxInv /\ PickInv BY DEF PortsInv
<1>1. CASE Host
  <2>1. TypeOK' BY <1>0, <1>1, TypesOfHost
  <2>2. UNCHANGED <<pc, box>> BY <1>1 DEF Host, ConnectionLost, MasterQuits, MuxSession
  <2>3. BoxInv' BY <1>0, <2>2 DEF BoxInv
  <2>4. Calm BY <1>1, HostIsCalm
  <2> QED BY <2>1, <2>3, <2>4, CalmKeeps DEF PortsInv
<1>2. ASSUME NEW y \in Yo,
             Begin(y) \/ Pick(y) \/ Ensure(y) \/ Destroy(y) \/ Heal(y) \/ Crash(y)
      PROVE  PortsInv'
  <2>1. TypeOK' /\ Others(y)
    BY <1>0, <1>2, TypesOfPick, TypesOfEnsure, TypesOfHeal
  <2>2. BoxInv' BY <1>0, <1>2, <2>1, BoxStep
  <2>3. CASE Pick(y)
    <3>1. PortLockInv' /\ PickInv' /\ ClaimsApart' /\ ForwardsOffClaims'
      BY <2>3, PickLockKeeps, PickPortKeeps, TakeKeeps DEF Pick
    <3> QED BY <2>1, <2>2, <3>1 DEF PortsInv
  <2>4. CASE Undefine(y) BY <2>1, <2>2, <2>4, UndefineKeeps DEF PortsInv
  <2>5. CASE (Ensure(y) \/ Destroy(y) \/ Begin(y)) /\ ~Undefine(y)
    <3>1. Calm BY <2>5, EnsureIsCalm
    <3> QED BY <2>1, <2>2, <3>1, CalmKeeps DEF PortsInv
  <2>6. CASE Heal(y) \/ Crash(y)
    <3>1. Calm BY <2>6, HealIsCalm
    <3> QED BY <2>1, <2>2, <3>1, CalmKeeps DEF PortsInv
  <2> QED BY <1>2, <2>3, <2>4, <2>5, <2>6
<1>3. CASE UNCHANGED vars
  <2>1. TypeOK'
    <3>1. Control /\ Masters /\ Said BY <1>0, Parts
    <3>2. Control' /\ Masters' BY <1>3, <3>1 DEF vars, masterVars, Control, Masters
    <3>3. UNCHANGED <<asked, told>> BY <1>3 DEF vars, masterVars
    <3>4. Said' BY <3>1, <3>3 DEF Said
    <3> QED BY <3>2, <3>4, Parts
  <2>2. UNCHANGED <<claim, fwd, portLock, pc, box, pick>> BY <1>3 DEF vars, masterVars
  <2>3. BoxInv' BY <1>0, <2>2 DEF BoxInv
  <2>4. Calm BY <2>2 DEF Calm
  <2> QED BY <2>1, <2>3, <2>4, CalmKeeps DEF PortsInv
<1> QED BY <1>1, <1>2, <1>3 DEF Next

LEMMA InitHolds == Init => PortsInv /\ MasterInv
<1> SUFFICES ASSUME Init PROVE PortsInv /\ MasterInv OBVIOUS
<1>1. Control BY DEF Init, Control, Pcs
<1>2. Masters BY DEF Init, Masters
<1>3. Said BY DEF Init, Said
<1>4. TypeOK BY <1>1, <1>2, <1>3, Parts
<1>5. BoxInv /\ PortLockInv /\ PickInv /\ MasterLockInv /\ ViaInv /\ ExitInv
  BY DEF Init, BoxInv, PortLockInv, PickInv, MasterLockInv, ViaInv, ExitInv,
         PortPcs, MasterPcs
<1>6. ClaimsApart BY DEF Init, ClaimsApart
<1>7. ForwardsOffClaims BY DEF Init, ForwardsOffClaims
<1> QED BY <1>4, <1>5, <1>6, <1>7 DEF PortsInv, MasterInv

LEMMA PortsInductive == Spec => []PortsInv
BY InitHolds, PortsStep, PTL DEF Spec

\* Every variable keeps its type, whatever yos die and connections are lost: no
\* yo takes port 0, nor one outside of the window (host_port_window).
THEOREM TypeCorrect == Spec => []TypeOK
<1>1. PortsInv => TypeOK BY DEF PortsInv
<1> QED BY <1>1, PortsInductive, PTL

\* No two boxes claim one host port: every definition is made by the holder of
\* port.lock, who saw every claim there is (create_domain).
THEOREM BoxesApart == Spec => []ClaimsApart
<1>1. PortsInv => ClaimsApart BY DEF PortsInv
<1> QED BY <1>1, PortsInductive, PTL

\* No forward of `yo port` listens where a box's sshd is to be reached: both
\* choose under one lock (forward_port).
THEOREM ForwardsApart == Spec => []ForwardsOffClaims
<1>1. PortsInv => ForwardsOffClaims BY DEF PortsInv
<1> QED BY <1>1, PortsInductive, PTL

-----------------------------------------------------------------------------
(* HostPorts implements PortRegistry.                                      *)

\* What one step does to claims and forwards.  A port is taken at once by the yo
\* that picked it, and nobody has it then.
Vacates(b) == claim' = [claim EXCEPT ![b] = 0] /\ fwd' = fwd
Closes(b) == claim' = claim /\ fwd' = [fwd EXCEPT ![b] = {}]
Claims(b, p) ==
  Users(p) = {} /\ claim[b] = 0 /\ claim' = [claim EXCEPT ![b] = p] /\ fwd' = fwd
Forwards(b, p) ==
  Users(p) = {} /\ claim' = claim /\ fwd' = [fwd EXCEPT ![b] = fwd[b] \cup {p}]

LEMMA UserIs ==
  ASSUME NEW p, NEW u
  PROVE  /\ u \in Users(p) <=>
              \E b \in Boxes : \/ u = <<b, "domain">> /\ claim[b] = p
                               \/ u = <<b, "forward">> /\ p \in fwd[b]
         /\ u \in Users(p)' <=>
              \E b \in Boxes : \/ u = <<b, "domain">> /\ claim'[b] = p
                               \/ u = <<b, "forward">> /\ p \in fwd'[b]
BY DEF Users

LEMMA PortSteps ==
  ASSUME PortsInv, [Next]_vars
  PROVE  \/ UNCHANGED <<claim, fwd>>
         \/ \E b \in Boxes : Vacates(b) \/ Closes(b) \/ \E p \in Ports : Claims(b, p) \/ Forwards(b, p)
<1> DEFINE Goal == \/ UNCHANGED <<claim, fwd>>
                   \/ \E b \in Boxes : \/ Vacates(b) \/ Closes(b)
                                       \/ \E p \in Ports : Claims(b, p) \/ Forwards(b, p)
<1> SUFFICES Goal OBVIOUS
<1>0. TypeOK /\ BoxInv BY DEF PortsInv
<1>1. CASE Host
  <2>1. PICK b \in Boxes : ConnectionLost(b) \/ MasterQuits(b) \/ MuxSession(b) BY <1>1 DEF Host
  <2>2. UNCHANGED <<claim, fwd>> \/ Closes(b)
    BY <2>1 DEF ConnectionLost, MasterQuits, MuxSession, MasterGone, MasterOpens, Closes
  <2> QED BY <2>2
<1>2. ASSUME NEW y \in Yo,
             Begin(y) \/ Pick(y) \/ Ensure(y) \/ Destroy(y) \/ Heal(y) \/ Crash(y)
      PROVE  Goal
  <2>1. CASE Define(y) \/ Forward(y)
    <3>1. /\ pick[y] \in Ports
          /\ \A b \in Boxes : claim[b] # pick[y] /\ pick[y] \notin fwd[b]
      BY <2>1 DEF Define, Forward, PortsInv, PickInv
    <3>2. Users(pick[y]) = {} BY <3>1, UserIs
    <3>3. box[y] \in Boxes BY <1>0, <2>1 DEF BoxInv, Define, Forward
    <3>4. CASE Define(y) BY <3>1, <3>2, <3>3, <3>4 DEF Define, masterVars, Claims
    <3>5. CASE Forward(y) BY <3>1, <3>2, <3>3, <3>5 DEF Forward, Forwards
    <3> QED BY <2>1, <3>4, <3>5
  <2>2. CASE Pick(y) /\ ~(Define(y) \/ Forward(y))
    BY <2>2 DEF Pick, PickLock, PickPort, masterVars
  <2>3. CASE Undefine(y)
    <3>1. box[y] \in Boxes BY <1>0, <2>3 DEF BoxInv, Undefine
    <3> QED BY <2>3, <3>1 DEF Undefine, masterVars, Vacates
  <2>4. CASE Begin(y) \/ Heal(y) \/ Crash(y)
    BY <2>4
    DEF Begin, Heal, HealProbe, HealCancel, HealRemove, HealReissue, HealAgain, Crash, masterVars
  <2>5. CASE (Ensure(y) \/ Destroy(y)) /\ ~Undefine(y)
    <3>1. box[y] \in Boxes
      BY <1>0, <2>5
      DEF BoxInv, Ensure, Destroy, EnsureLock, EnsureCheck, EnsureSession, StopMaster, EnsureGone,
          EnsureOpen, CloseLock, CloseGone
    <3>2. UNCHANGED claim
      BY <2>5
      DEF Ensure, Destroy, EnsureLock, EnsureCheck, EnsureSession, Ensured, StopMaster, EnsureGone,
          EnsureOpen, CloseLock, CloseGone
    <3>3. UNCHANGED fwd \/ fwd' = [fwd EXCEPT ![box[y]] = {}]
      BY <2>5
      DEF Ensure, Destroy, EnsureLock, EnsureCheck, EnsureSession, Ensured, StopMaster, EnsureGone,
          EnsureOpen, CloseLock, CloseGone, masterVars, MasterGone, MasterOpens
    <3> QED BY <3>1, <3>2, <3>3 DEF Closes
  <2> QED BY <1>2, <2>1, <2>2, <2>3, <2>4, <2>5
<1>3. CASE UNCHANGED vars BY <1>3 DEF vars, masterVars
<1> QED BY <1>1, <1>2, <1>3 DEF Next

\* A box's definition goes, and with it its claim alone.
LEMMA VacatesAsUser ==
  ASSUME TypeOK, NEW b \in Boxes, Vacates(b)
  PROVE  Registry!Leave(Registry!Domain(b))
<1>1. claim'[b] = 0 /\ \A c \in Boxes : c # b => claim'[c] = claim[c]
  BY DEF TypeOK, Vacates
<1>2. \A p \in Ports : Users(p)' = Users(p) \ {<<b, "domain">>}
  <2> SUFFICES ASSUME NEW p \in Ports, NEW u
               PROVE  u \in Users(p)' <=> u \in Users(p) /\ u # <<b, "domain">>
    OBVIOUS
  <2> QED BY <1>1, UserIs, PortsAssumption DEF Vacates
<1> QED BY <1>2 DEF Registry!Leave, Registry!Domain

\* The process that listens for a box's forwards ends, and with it they all do.
LEMMA ClosesAsUser ==
  ASSUME TypeOK, NEW b \in Boxes, Closes(b)
  PROVE  Registry!Leave(Registry!Forwarder(b))
<1>1. fwd'[b] = {} /\ \A c \in Boxes : c # b => fwd'[c] = fwd[c]
  BY DEF TypeOK, Closes
<1>2. \A p \in Ports : Users(p)' = Users(p) \ {<<b, "forward">>}
  <2> SUFFICES ASSUME NEW p \in Ports, NEW u
               PROVE  u \in Users(p)' <=> u \in Users(p) /\ u # <<b, "forward">>
    OBVIOUS
  <2> QED BY <1>1, UserIs DEF Closes
<1> QED BY <1>2 DEF Registry!Leave, Registry!Forwarder

LEMMA ClaimsAsUser ==
  ASSUME TypeOK, NEW b \in Boxes, NEW p \in Ports, Claims(b, p)
  PROVE  Registry!Claim(b, p)
<1>1. claim'[b] = p /\ \A c \in Boxes : c # b => claim'[c] = claim[c]
  BY DEF TypeOK, Claims
<1>2. Users(p)' = {<<b, "domain">>}
  <2> SUFFICES ASSUME NEW u PROVE u \in Users(p)' <=> u = <<b, "domain">> OBVIOUS
  <2>1. \A c \in Boxes : claim[c] # p /\ p \notin fwd[c] BY UserIs DEF Claims
  <2> QED BY <1>1, <2>1, UserIs DEF Claims
<1>3. \A q \in Ports : <<b, "domain">> \notin Users(q)
  BY UserIs, PortsAssumption DEF Claims
<1>4. \A q \in Ports : q # p => Users(q)' = Users(q)
  <2> SUFFICES ASSUME NEW q \in Ports, q # p, NEW u
               PROVE  u \in Users(q)' <=> u \in Users(q)
    OBVIOUS
  <2>1. claim[b] # q BY PortsAssumption DEF Claims
  <2> QED BY <1>1, <2>1, UserIs DEF Claims
<1> QED BY <1>2, <1>3, <1>4 DEF Registry!Claim, Registry!Domain, Claims

LEMMA ForwardsAsUser ==
  ASSUME TypeOK, NEW b \in Boxes, NEW p \in Ports, Forwards(b, p)
  PROVE  Registry!Forward(b, p)
<1>1. fwd'[b] = fwd[b] \cup {p} /\ \A c \in Boxes : c # b => fwd'[c] = fwd[c]
  BY DEF TypeOK, Forwards
<1>2. Users(p)' = {<<b, "forward">>}
  <2> SUFFICES ASSUME NEW u PROVE u \in Users(p)' <=> u = <<b, "forward">> OBVIOUS
  <2>1. \A c \in Boxes : claim[c] # p /\ p \notin fwd[c] BY UserIs DEF Forwards
  <2> QED BY <1>1, <2>1, UserIs DEF Forwards
<1>3. \A q \in Ports : q # p => Users(q)' = Users(q)
  <2> SUFFICES ASSUME NEW q \in Ports, q # p, NEW u
               PROVE  u \in Users(q)' <=> u \in Users(q)
    OBVIOUS
  <2> QED BY <1>1, UserIs DEF Forwards
<1> QED BY <1>2, <1>3 DEF Registry!Forward, Registry!Forwarder, Forwards

\* Every step of the yos and the masters is a step of PortRegistry, or none.
LEMMA RefinesNext ==
  ASSUME PortsInv, [Next]_vars
  PROVE  [Registry!Next]_[p \in Ports |-> Users(p)]
<1> DEFINE users == [p \in Ports |-> Users(p)]
<1>0. TypeOK BY DEF PortsInv
<1>1. CASE UNCHANGED <<claim, fwd>>
  <2>1. users' = users BY <1>1 DEF Users
  <2> QED BY <2>1
<1>2. ASSUME NEW b \in Boxes,
             Vacates(b) \/ Closes(b) \/ \E p \in Ports : Claims(b, p) \/ Forwards(b, p)
      PROVE  users' = users \/ Registry!Next
  <2>1. \/ \E p \in Ports : Registry!Claim(b, p) \/ Registry!Forward(b, p)
        \/ Registry!Leave(Registry!Domain(b)) \/ Registry!Leave(Registry!Forwarder(b))
    BY <1>0, <1>2, VacatesAsUser, ClosesAsUser, ClaimsAsUser, ForwardsAsUser
  <2> QED BY <2>1 DEF Registry!Next
<1> QED BY <1>1, <1>2, PortSteps

\* Picking under port.lock and taking some steps later implements the registry that
\* hands a port out in one step, only to a box or a forward that finds it without a
\* user, however yos interleave and die (port_lock, create_domain, forward_port).
THEOREM PortsAsRegistry == Spec => ImplementsPortRegistry
<1>1. Init => Registry!Init
  <2> SUFFICES ASSUME Init, NEW p \in Ports, NEW u PROVE u \notin Users(p)
    BY DEF Registry!Init
  <2> QED BY UserIs, PortsAssumption DEF Init
<1>2. PortsInv /\ [Next]_vars => [Registry!Next]_[p \in Ports |-> Users(p)]
  BY RefinesNext
<1> QED BY <1>1, <1>2, PortsInductive, PTL DEF Spec, ImplementsPortRegistry, Registry!Spec

\* So no port ever has two users, two forwards included: nobody who reaches for a box at
\* its port, or for a service at its forward's, meets another's.
THEOREM OneUserPerPort == Spec => []Registry!OneUser
<1> DEFINE users == [p \in Ports |-> Users(p)]
<1>1. Registry!Init => Registry!OneUser BY DEF Registry!Init, Registry!OneUser
<1>2. Registry!OneUser /\ [Registry!Next]_users => Registry!OneUser'
  <2> SUFFICES ASSUME Registry!OneUser, [Registry!Next]_users, NEW p \in Ports
               PROVE  \A u, v \in users'[p] : u = v
    BY DEF Registry!OneUser
  <2>1. \A u, v \in users[p] : u = v BY DEF Registry!OneUser
  <2> HIDE DEF users
  <2>2. CASE users' = users BY <2>1, <2>2
  <2>3. CASE Registry!Next
    <3>1. PICK b \in Boxes :
            \/ \E q \in Ports : Registry!Claim(b, q) \/ Registry!Forward(b, q)
            \/ Registry!Leave(Registry!Domain(b)) \/ Registry!Leave(Registry!Forwarder(b))
      BY <2>3 DEF Registry!Next
    <3>2. \/ users'[p] \subseteq users[p] \/ \E u : users'[p] = {u}
      BY <3>1 DEF Registry!Claim, Registry!Forward, Registry!Leave, users
    <3> QED BY <2>1, <3>2
  <2> QED BY <2>2, <2>3
<1> QED BY <1>1, <1>2, PortsAsRegistry, PTL DEF ImplementsPortRegistry, Registry!Spec

-----------------------------------------------------------------------------
(* Masters.                                                                *)

\* What a step of y may do to the masters: open one under the lock of its own
\* box, open one from outside, or end one.
Handles(y, b) ==
  \/ master' = master /\ via' = via
  \/ /\ master' = [master EXCEPT ![b] = "none"] /\ via' = [via EXCEPT ![b] = "mux"]
  \/ /\ master[b] # "none"
     /\ master' = [master EXCEPT ![b] = "dead"] /\ via' = via
  \/ /\ master[b] = "none"
     /\ master' = [master EXCEPT ![b] = "live"] /\ via' = [via EXCEPT ![b] = "mux"]
  \/ /\ master[b] # "dead"
     /\ master' = [master EXCEPT ![b] = "live"] /\ via' = via
  \/ /\ pc[y] \in MasterPcs /\ b = box[y] /\ pc'[y] # "exit"
     /\ master' = [master EXCEPT ![b] = "live"] /\ via' = [via EXCEPT ![b] = "lock"]

\* Who comes to "exit" saw a master that does not work.
Exits(y) == pc'[y] = "exit" => pc[y] = "session" /\ master[box[y]] # "live" /\ master' = master

LEMMA MastersKeep ==
  ASSUME TypeOK, BoxInv, MasterLockInv, ViaInv, ExitInv,
         NEW y \in Yo, NEW b \in Boxes, Others(y), Handles(y, b), Exits(y),
         pc'[y] = "exit" => box'[y] = box[y]
  PROVE  ViaInv' /\ ExitInv'
<1>1. ViaInv' BY DEF ViaInv, Handles, TypeOK
<1>2. ExitInv'
  <2> SUFFICES ASSUME NEW z \in Yo, pc'[z] = "exit", master'[box'[z]] = "live"
               PROVE  via'[box'[z]] = "mux"
    BY DEF ExitInv
  <2>1. CASE z = y BY <2>1 DEF Exits
  <2>2. CASE z # y
    <3>1. /\ pc[z] = "exit" /\ box'[z] = box[z] /\ box[z] \in Boxes
          /\ masterLock[box[z]] = z
      BY <2>2 DEF Others, BoxInv, MasterLockInv, MasterPcs
    <3>2. master[box[z]] = "live" => via[box[z]] = "mux" BY <3>1 DEF ExitInv
    <3>3. master[box[z]] = "none" => via[box[z]] = "mux" BY <3>1 DEF ViaInv
    <3>4. pc[y] \in MasterPcs => box[y] # box[z] BY <2>2, <3>1 DEF MasterLockInv
    <3> QED BY <3>1, <3>2, <3>3, <3>4 DEF Handles, TypeOK
  <2> QED BY <2>1, <2>2
<1> QED BY <1>1, <1>2

\* A yo comes to a place that has the box's lock only with the lock.
LEMMA MasterLockStep ==
  ASSUME TypeOK, BoxInv, MasterLockInv, NEW y \in Yo, Others(y),
         Begin(y) \/ Pick(y) \/ Ensure(y) \/ Destroy(y) \/ Heal(y) \/ Crash(y)
  PROVE  MasterLockInv'
<1> DEFINE Away == Pcs \ MasterPcs
<1>0. {"idle", "undefine", "ensure", "close", "probe", "cancel", "rm", "reissue", "again",
       "claimLock", "claimPick", "define", "portLock", "portPick", "forward"} \subseteq Away
  BY DEF Pcs, MasterPcs, EnsurePcs, ClosePcs, PickPcs, HealPcs
<1>1. ASSUME pc'[y] \in Away,
             \A z \in Yo, b \in Boxes : z # y /\ masterLock[b] = z => masterLock'[b] = z
      PROVE  MasterLockInv'
  BY <1>1 DEF MasterLockInv, Others, BoxInv, MasterPcs
<1>D. ASSUME Done(y) PROVE MasterLockInv'
  <2>1. pc'[y] \in Away BY <1>0, <1>D DEF Done, Goto, TypeOK
  <2>2. \A z \in Yo, b \in Boxes : z # y /\ masterLock[b] = z => masterLock'[b] = z
    BY <1>D DEF Done, TypeOK
  <2> QED BY <1>1, <2>1, <2>2
<1>G. ASSUME NEW there \in Away, Goto(y, there), UNCHANGED masterLock PROVE MasterLockInv'
  <2>1. pc'[y] \in Away BY <1>G DEF Goto, TypeOK
  <2> QED BY <1>1, <1>G, <2>1
<1>E. ASSUME Ensured(y), pc[y] \in MasterPcs PROVE MasterLockInv'
  <2>1. CASE Done(y) BY <1>D, <2>1
  <2>2. CASE ~Done(y)
    <3>1. next[y] = "portLock" BY <1>E, <2>2 DEF Ensured, TypeOK
    <3>2. Goto(y, "portLock") /\ masterLock' = [masterLock EXCEPT ![box[y]] = None]
      BY <1>E, <2>2, <3>1 DEF Ensured
    <3>3. pc'[y] \in Away BY <1>0, <3>2 DEF Goto, TypeOK
    <3>4. masterLock[box[y]] = y BY <1>E DEF MasterLockInv
    <3>5. \A z \in Yo, b \in Boxes : z # y /\ masterLock[b] = z => masterLock'[b] = z
      BY <3>2, <3>4 DEF TypeOK
    <3> QED BY <1>1, <3>3, <3>5
  <2> QED BY <2>1, <2>2
<1> HIDE DEF Away
<1>I. ASSUME pc[y] \in MasterPcs, UNCHANGED <<masterLock, box>> PROVE MasterLockInv'
  BY <1>I DEF MasterLockInv, Others
<1>L. ASSUME masterLock[box[y]] = None, masterLock' = [masterLock EXCEPT ![box[y]] = y],
             UNCHANGED box, pc[y] # "idle"
      PROVE  MasterLockInv'
  <2>1. box[y] \in Boxes /\ masterLock'[box[y]] = y BY <1>L DEF BoxInv, TypeOK
  <2>2. \A z \in Yo : z # y /\ pc[z] \in MasterPcs => box[z] # box[y]
    BY <1>L, NoneAssumption DEF MasterLockInv
  <2>3. \A z \in Yo : z # y /\ pc[z] \in MasterPcs => masterLock'[box[z]] = z
    BY <1>L, <2>2 DEF MasterLockInv, BoxInv, TypeOK, MasterPcs
  <2> QED BY <1>L, <2>1, <2>3 DEF MasterLockInv, Others
<1>2. CASE Begin(y)
  <2>1. \E there \in Away : Goto(y, there) BY <1>0, <1>2 DEF Begin
  <2>2. UNCHANGED masterLock BY <1>2 DEF Begin
  <2> QED BY <1>G, <2>1, <2>2
<1>3. CASE Pick(y)
  <2>1. \/ Done(y)
        \/ UNCHANGED masterLock /\ \E there \in Away : Goto(y, there)
    BY <1>0, <1>3 DEF Pick, PickLock, PickPort, Define, Forward
  <2> QED BY <1>D, <1>G, <2>1
<1>4. CASE EnsureLock(y) \/ CloseLock(y)
  BY <1>4, <1>L DEF EnsureLock, CloseLock
<1>5. CASE EnsureCheck(y) \/ StopMaster(y, "exit", "gone") \/ StopMaster(y, "quit", "left")
  BY <1>5, <1>I DEF EnsureCheck, StopMaster, MasterPcs
<1>6. CASE EnsureSession(y)
  <2>1. pc[y] \in MasterPcs BY <1>6 DEF EnsureSession, MasterPcs
  <2> QED BY <1>6, <1>E, <1>I, <2>1 DEF EnsureSession
<1>7. CASE EnsureOpen(y)
  <2>1. pc[y] \in MasterPcs BY <1>7 DEF EnsureOpen, MasterPcs
  <2> QED BY <1>7, <1>D, <1>E, <2>1 DEF EnsureOpen
<1>8. CASE EnsureGone(y)
  <2>1. pc[y] \in MasterPcs BY <1>8 DEF EnsureGone, MasterPcs
  <2> QED BY <1>8, <1>D, <1>I, <2>1 DEF EnsureGone
<1>9. CASE CloseGone(y)
  <2>1. pc[y] \in MasterPcs BY <1>9 DEF CloseGone, MasterPcs
  <2>2. CASE Done(y) BY <1>D, <2>2
  <2>3. CASE ~Done(y)
    <3>1. Goto(y, "undefine") /\ masterLock' = [masterLock EXCEPT ![box[y]] = None]
      BY <1>9, <2>3 DEF CloseGone
    <3>2. pc'[y] \in Away BY <1>0, <3>1 DEF Goto, TypeOK
    <3>3. masterLock[box[y]] = y BY <2>1 DEF MasterLockInv
    <3>4. \A z \in Yo, b \in Boxes : z # y /\ masterLock[b] = z => masterLock'[b] = z
      BY <3>1, <3>3 DEF TypeOK
    <3> QED BY <1>1, <3>2, <3>4
  <2> QED BY <2>2, <2>3
<1>10. CASE Undefine(y) BY <1>10, <1>D DEF Undefine
<1>11. CASE Heal(y) \/ Crash(y)
  <2>1. \/ Done(y)
        \/ UNCHANGED masterLock /\ \E there \in Away : Goto(y, there)
    BY <1>0, <1>11 DEF Heal, HealProbe, HealCancel, HealRemove, HealReissue, HealAgain, Crash,
                       Say, HealGoes
  <2> QED BY <1>D, <1>G, <2>1
<1> QED
  BY <1>2, <1>3, <1>4, <1>5, <1>6, <1>7, <1>8, <1>9, <1>10, <1>11 DEF Ensure, Destroy

\* What each step does to the masters.
LEMMA HandlesStep ==
  ASSUME TypeOK, BoxInv, MasterLockInv, NEW y \in Yo,
         Begin(y) \/ Pick(y) \/ Ensure(y) \/ Destroy(y) \/ Heal(y) \/ Crash(y)
  PROVE  \E b \in Boxes : Handles(y, b)
<1>0. CASE UNCHANGED <<master, via>>
  <2>1. CASE Boxes # {} BY <1>0, <2>1 DEF Handles
  <2>2. CASE Boxes = {}
    <3>1. pc[y] = "idle" BY <2>2 DEF BoxInv
    <3>2. Begin(y)
      BY <3>1
      DEF Pick, PickLock, PickPort, Define, Forward, Ensure, EnsureLock, EnsureCheck,
          EnsureSession, StopMaster, EnsureGone, EnsureOpen, Destroy, CloseLock,
          CloseGone, Undefine, Heal, HealProbe, HealCancel, HealRemove, HealReissue, HealAgain,
          Crash
    <3> QED BY <2>2, <3>2 DEF Begin
  <2> QED BY <2>1, <2>2
<1>1. CASE EnsureSession(y) \/ EnsureOpen(y)
  <2>1. box[y] \in Boxes /\ pc[y] \in MasterPcs
    BY <1>1 DEF EnsureSession, EnsureOpen, BoxInv, MasterPcs
  <2>2. \/ UNCHANGED <<master, via>>
        \/ MasterOpens(box[y], "lock") /\ Ensured(y)
    BY <1>1 DEF EnsureSession, EnsureOpen, masterVars
  <2>3. ASSUME Ensured(y) PROVE pc'[y] # "exit"
    BY <2>3 DEF Ensured, Done, Goto, TypeOK
  <2> QED BY <1>0, <2>1, <2>2, <2>3 DEF MasterOpens, Handles
<1>2. CASE StopMaster(y, "exit", "gone") \/ StopMaster(y, "quit", "left")
  <2>1. box[y] \in Boxes BY <1>2 DEF StopMaster, BoxInv
  <2>2. MasterGone(box[y]) \/ UNCHANGED <<master, via>> BY <1>2 DEF StopMaster, masterVars
  <2> QED BY <1>0, <2>1, <2>2 DEF MasterGone, Handles
<1>3. CASE HealRemove(y)
  <2>1. box[y] \in Boxes BY <1>3 DEF HealRemove, BoxInv
  <2> QED BY <1>0, <1>3, <2>1 DEF HealRemove, Handles
<1>4. CASE ~(EnsureSession(y) \/ EnsureOpen(y) \/ StopMaster(y, "exit", "gone")
               \/ StopMaster(y, "quit", "left") \/ HealRemove(y))
  <2>1. UNCHANGED <<master, via>>
    BY <1>4
    DEF Begin, Pick, PickLock, PickPort, Define, Forward, Ensure, EnsureLock, EnsureCheck,
        EnsureGone, Destroy, CloseLock, CloseGone, Undefine, Heal, HealProbe, HealCancel,
        HealReissue, HealAgain, Crash, masterVars
  <2> QED BY <1>0, <2>1
<1> QED BY <1>1, <1>2, <1>3, <1>4

LEMMA ExitsStep ==
  ASSUME TypeOK, BoxInv, NEW y \in Yo,
         Begin(y) \/ Pick(y) \/ Ensure(y) \/ Destroy(y) \/ Heal(y) \/ Crash(y)
  PROVE  Exits(y) /\ (pc'[y] = "exit" => box'[y] = box[y])
<1> SUFFICES ASSUME pc'[y] = "exit"
             PROVE  /\ pc[y] = "session" /\ master[box[y]] # "live" /\ master' = master
                    /\ box' = box
  BY DEF Exits
<1>1. \A there \in Pcs : Goto(y, there) => there = "exit" BY DEF Goto, TypeOK
<1>2. {"idle", "undefine", "ensure", "check", "session", "gone", "open", "close", "quit",
       "left", "probe", "cancel", "rm", "reissue", "again", "claimLock", "claimPick",
       "define", "portLock", "portPick", "forward"} \subseteq Pcs \ {"exit"}
  BY DEF Pcs, EnsurePcs, ClosePcs, PickPcs, HealPcs
<1>3. ~Done(y) BY <1>1, <1>2 DEF Done
<1>4. ~Begin(y) BY <1>1, <1>2 DEF Begin
<1>5. ~Pick(y)
  BY <1>1, <1>2, <1>3 DEF Pick, PickLock, PickPort, Define, Forward
<1>6. ~Destroy(y)
  BY <1>1, <1>2, <1>3 DEF Destroy, CloseLock, StopMaster, CloseGone, Undefine
<1>7. ~Heal(y) /\ ~Crash(y)
  BY <1>1, <1>2, <1>3
  DEF Heal, HealProbe, HealCancel, HealRemove, HealReissue, HealAgain, Crash, Say, HealGoes
<1>8. ~Ensured(y)
  <2>1. next[y] \in Pcs \ {"exit"} BY <1>2 DEF TypeOK
  <2> QED BY <1>1, <1>3, <2>1 DEF Ensured
<1>9. EnsureSession(y)
  BY <1>1, <1>2, <1>3, <1>4, <1>5, <1>6, <1>7, <1>8
  DEF Ensure, EnsureLock, EnsureCheck, StopMaster, EnsureGone, EnsureOpen
<1> QED BY <1>8, <1>9 DEF EnsureSession, masterVars

LEMMA MastersStep ==
  ASSUME PortsInv, MasterInv, [Next]_vars
  PROVE  MasterInv'
<1>0. TypeOK /\ BoxInv /\ MasterLockInv /\ ViaInv /\ ExitInv BY DEF MasterInv
<1>1. TypeOK' /\ BoxInv' BY PortsStep DEF PortsInv
<1>2. CASE Host
  <2>1. UNCHANGED <<masterLock, pc, box>>
    BY <1>2 DEF Host, ConnectionLost, MasterQuits, MuxSession
  <2>2. MasterLockInv' BY <1>0, <2>1 DEF MasterLockInv
  <2>3. PICK b \in Boxes :
          \/ /\ master[b] = "live" /\ master' = [master EXCEPT ![b] = "dead"] /\ via' = via
          \/ /\ master' = [master EXCEPT ![b] = "none"] /\ via' = [via EXCEPT ![b] = "mux"]
          \/ /\ master' = [master EXCEPT ![b] = "live"] /\ via' = [via EXCEPT ![b] = "mux"]
    BY <1>2 DEF Host, ConnectionLost, MasterQuits, MuxSession, MasterGone, MasterOpens
  <2>4. ViaInv' BY <1>0, <2>3 DEF ViaInv, TypeOK
  <2>5. ExitInv' BY <1>0, <2>1, <2>3 DEF ExitInv, TypeOK, BoxInv
  <2> QED BY <1>1, <2>2, <2>4, <2>5 DEF MasterInv
<1>3. ASSUME NEW y \in Yo,
             Begin(y) \/ Pick(y) \/ Ensure(y) \/ Destroy(y) \/ Heal(y) \/ Crash(y)
      PROVE  MasterInv'
  <2>1. Others(y)
    BY <1>0, <1>3, TypesOfPick, TypesOfEnsure, TypesOfHeal DEF PortsInv
  <2>2. MasterLockInv' BY <1>0, <1>3, <2>1, MasterLockStep
  <2>3. PICK b \in Boxes : Handles(y, b) BY <1>0, <1>3, HandlesStep
  <2>4. Exits(y) /\ (pc'[y] = "exit" => box'[y] = box[y]) BY <1>0, <1>3, ExitsStep
  <2>5. ViaInv' /\ ExitInv' BY <1>0, <2>1, <2>3, <2>4, MastersKeep
  <2> QED BY <1>1, <2>2, <2>5 DEF MasterInv
<1>4. CASE UNCHANGED vars
  <2>1. UNCHANGED <<masterLock, pc, box, master, via>> BY <1>4 DEF vars, masterVars
  <2> QED BY <1>0, <1>1, <2>1 DEF MasterInv, MasterLockInv, ViaInv, ExitInv
<1> QED BY <1>2, <1>3, <1>4 DEF Next

LEMMA MastersInductive == Spec => []MasterInv
<1>1. Init => MasterInv BY InitHolds
<1>2. PortsInv /\ MasterInv /\ [Next]_vars => MasterInv' BY MastersStep
<1> QED BY <1>1, <1>2, PortsInductive, PTL DEF Spec

\* ensure_master never stops a master that works and that another yo opened under
\* master.lock: what it is about to stop was dead when it looked, and only a plain
\* mux session can have replaced it since (ensure_master's window).
THEOREM OwnMastersKept == Spec => OnlyOutsideMasterDropped
<1>1. MasterInv /\ [Next]_vars =>
        [\A y \in Yo : pc[y] = "exit" /\ pc'[y] = "gone" /\ master[box[y]] = "live"
           => via[box[y]] = "mux"]_vars
  BY DEF MasterInv, ExitInv
<1> QED BY <1>1, MastersInductive, PTL DEF Spec, OnlyOutsideMasterDropped

-----------------------------------------------------------------------------
(* The reverse forwards.                                                   *)

Healing(b) == \E y \in Yo : pc[y] \in HealPcs /\ box[y] = b

\* What was said of a forward that is not up, somebody is about to correct.
ToldInv == \A b \in Boxes : told[b] => sock[b] = "served" \/ Healing(b)

\* A step that takes nothing from the guest's end of a forward that is said to be up.
Harmless == \A b \in Boxes : told'[b] = TRUE => told[b] = TRUE /\ sock'[b] = sock[b]

LEMMA HostIsHarmless ==
  ASSUME TypeOK, Host
  PROVE  Harmless /\ UNCHANGED <<pc, box>>
<1>1. PICK b \in Boxes : ConnectionLost(b) \/ MasterQuits(b) \/ MuxSession(b) BY DEF Host
<1> QED
  BY <1>1
  DEF ConnectionLost, MasterQuits, MuxSession, MasterGone, MasterOpens, Harmless, TypeOK

LEMMA WorkIsHarmless ==
  ASSUME TypeOK, BoxInv, NEW y \in Yo,
         \/ Begin(y) \/ Pick(y) \/ Ensure(y) \/ Destroy(y)
         \/ Crash(y) /\ pc[y] \notin HealPcs
  PROVE  Harmless /\ pc[y] \notin HealPcs
<1>1. pc[y] \notin HealPcs
  BY DEF HealPcs, Begin, Pick, PickLock, PickPort, Define, Forward, Ensure, EnsureLock,
         EnsureCheck, EnsureSession, StopMaster, EnsureGone, EnsureOpen, Destroy, CloseLock,
         CloseGone, Undefine
<1>2. \/ UNCHANGED <<told, sock>>
      \/ MasterGone(box[y])
  BY DEF Begin, Pick, PickLock, PickPort, Define, Forward, Ensure, EnsureLock, EnsureCheck,
         EnsureSession, StopMaster, EnsureGone, EnsureOpen, Destroy, CloseLock, CloseGone,
         Undefine, Crash, MasterOpens, masterVars
<1>3. Harmless BY <1>2 DEF Harmless, MasterGone, TypeOK
<1> QED BY <1>1, <1>3

\* A heal touches its own box's forward alone, and goes on, or says what it finds.
LEMMA HealsOwn ==
  ASSUME TypeOK, BoxInv, NEW y \in Yo, Heal(y) \/ (Crash(y) /\ pc[y] \in HealPcs)
  PROVE  /\ \A b \in Boxes : b # box[y] => told'[b] = told[b] /\ sock'[b] = sock[b]
         /\ \/ pc'[y] \in HealPcs /\ box'[y] = box[y]
            \/ told'[box[y]] = TRUE => sock'[box[y]] = "served"
<1> DEFINE b == box[y]
<1>0. b \in Boxes
  BY DEF BoxInv, Heal, HealProbe, HealCancel, HealRemove, HealReissue, HealAgain, HealPcs
<1>1. \A c \in Boxes : c # b => sock'[c] = sock[c]
  BY <1>0
  DEF Heal, HealProbe, HealCancel, HealRemove, HealReissue, HealAgain, Crash, TypeOK
<1>2. \A c \in Boxes : c # b => told'[c] = told[c]
  BY <1>0
  DEF Heal, HealProbe, HealCancel, HealRemove, HealReissue, HealAgain, Crash, Say, HealGoes, TypeOK
<1>3. \A there \in HealPcs : HealGoes(y, there) => pc'[y] \in HealPcs /\ box'[y] = b
  BY DEF HealGoes, Goto, TypeOK
<1>4. \A up \in BOOLEAN : Say(y, up) => told'[b] = up BY <1>0 DEF Say, TypeOK
<1> SUFFICES \/ pc'[y] \in HealPcs /\ box'[y] = b
             \/ told'[b] = TRUE => sock'[b] = "served"
  BY <1>1, <1>2
<1>5. CASE HealProbe(y) BY <1>3, <1>4, <1>5 DEF HealProbe, HealPcs
<1>6. CASE HealCancel(y) BY <1>3, <1>6 DEF HealCancel, HealPcs
<1>7. CASE HealRemove(y) BY <1>3, <1>4, <1>7 DEF HealRemove, HealPcs
<1>8. CASE HealReissue(y) BY <1>3, <1>4, <1>8 DEF HealReissue, HealPcs
<1>9. CASE HealAgain(y) BY <1>4, <1>9 DEF HealAgain
<1>10. CASE Crash(y) /\ pc[y] \in HealPcs
  <2>1. told'[b] = FALSE BY <1>0, <1>10 DEF Crash, TypeOK
  <2> QED BY <2>1
<1> QED BY <1>5, <1>6, <1>7, <1>8, <1>9, <1>10 DEF Heal

LEMMA ToldStep ==
  ASSUME PortsInv, ToldInv, [Next]_vars
  PROVE  ToldInv'
<1>0. TypeOK /\ BoxInv BY DEF PortsInv
<1>1. SUFFICES ASSUME NEW b \in Boxes, told'[b] = TRUE
               PROVE  sock'[b] = "served" \/ Healing(b)'
  <2>1. told' \in [Boxes -> BOOLEAN] BY PortsStep DEF PortsInv, TypeOK
  <2> QED BY <2>1 DEF ToldInv
<1>2. told[b] = TRUE => sock[b] = "served" \/ Healing(b) BY DEF ToldInv
<1>3. CASE Host BY <1>0, <1>1, <1>2, <1>3, HostIsHarmless DEF Harmless, Healing
<1>4. ASSUME NEW y \in Yo, Begin(y) \/ Pick(y) \/ Ensure(y) \/ Destroy(y) \/ Heal(y) \/ Crash(y)
      PROVE  sock'[b] = "served" \/ Healing(b)'
  <2>1. Others(y) BY <1>0, <1>4, TypesOfPick, TypesOfEnsure, TypesOfHeal DEF PortsInv
  <2>2. CASE Heal(y) \/ (Crash(y) /\ pc[y] \in HealPcs)
    <3>1. CASE box[y] = b BY <1>0, <1>1, <2>2, <3>1, HealsOwn DEF Healing
    <3>2. CASE box[y] # b
      BY <1>0, <1>1, <1>2, <2>1, <2>2, <3>2, HealsOwn DEF Healing, Others
    <3> QED BY <3>1, <3>2
  <2>3. CASE ~(Heal(y) \/ (Crash(y) /\ pc[y] \in HealPcs))
    <3>1. Harmless /\ pc[y] \notin HealPcs BY <1>0, <1>4, <2>3, WorkIsHarmless
    <3> QED BY <1>1, <1>2, <2>1, <3>1 DEF Harmless, Healing, Others
  <2> QED BY <2>2, <2>3
<1>5. CASE UNCHANGED vars BY <1>1, <1>2, <1>5 DEF vars, masterVars, Healing
<1> QED BY <1>3, <1>4, <1>5 DEF Next

\* However many heals of one forward overlap, once none is under way a forward that
\* the last of them called up is up, unless the master went since: a heal that cancels
\* or removes another's forward is itself still under way, and ends with a probe
\* (heal_reverse_forward).
THEOREM DeadForwardsTold == Spec => []NoSilentlyDeadForward
<1>1. Init => ToldInv BY DEF Init, ToldInv
<1>2. PortsInv /\ ToldInv /\ [Next]_vars => ToldInv' BY ToldStep
<1>3. ToldInv => NoSilentlyDeadForward BY DEF ToldInv, Healing, NoSilentlyDeadForward
<1> QED BY <1>1, <1>2, <1>3, PortsInductive, PTL DEF Spec
=============================================================================
