-------------------------- MODULE UnlockGateProof --------------------------
(* What UnlockGate promises for any number of yo processes and helpers.    *)
EXTENDS UnlockGate, TLAPS

-----------------------------------------------------------------------------
(* Type correctness.                                                       *)

\* The two ways a slot is given up leave a slot (NoHelper, Leftover).
LEMMA EmptySlots == NoHelper \in Slot /\ Leftover \in Slot
BY DEF NoHelper, Leftover, Slot

\* A helper slot given up, or handed to nobody, is still a helper slot (Detach).
LEMMA DetachTyped ==
  ASSUME TypeOK, NEW y \in Yo, Detach(y)
  PROVE  helper' \in [Helpers -> Slot]
<1>1. \A s \in Slot : [s EXCEPT !.by = None] \in Slot
  BY DEF Slot
<1> QED
  BY EmptySlots, <1>1 DEF TypeOK, Detach

\* A slot whose helper has seen a failure is a slot (CryptEnd).
LEMMA FailedSlots ==
  ASSUME NEW s \in Slot
  PROVE  [s EXCEPT !.fail = TRUE] \in Slot
BY DEF Slot

\* A step of the VM or of an initrd unit keeps the types.
LEMMA BoxTyped ==
  ASSUME TypeOK, Box
  PROVE  TypeOK'
<1> USE DEF TypeOK, MigStates, CryptStates, RootStates
<1>1. CASE MigStart
  BY <1>1 DEF MigStart
<1>2. CASE MigDetect
  BY <1>2 DEF MigDetect
<1>3. CASE MigEnd
  BY <1>3 DEF MigEnd
<1>4. CASE CryptStart
  BY <1>4 DEF CryptStart
<1>5. CASE CryptEnd
  <2>1. helper' \in [Helpers -> Slot]
    <3>1. CASE UNCHANGED helper
      BY <3>1
    <3>2. CASE helper' = [h \in Helpers |->
                             IF helper[h].pc \in Live THEN [helper[h] EXCEPT !.fail = TRUE]
                             ELSE helper[h]]
      <4>1. \A h \in Helpers : helper[h] \in Slot
        OBVIOUS
      <4>2. \A h \in Helpers : helper'[h] \in Slot
        BY <3>2, <4>1, FailedSlots
      <4> QED
        BY <3>2, <4>2
    <3> QED
      BY <1>5, <3>1, <3>2 DEF CryptEnd
  <2>2. /\ crypt' \in CryptStates
        /\ UNCHANGED <<vm, encrypted, mig, root, lock, pc, saw>>
    BY <1>5 DEF CryptEnd
  <2> QED
    BY <2>1, <2>2
<1>6. CASE MountRoot
  BY <1>6 DEF MountRoot
<1>7. CASE SwitchRoot
  BY <1>7, EmptySlots DEF SwitchRoot, InitrdGone, NoSight
<1>8. CASE GuestReboot
  BY <1>8 DEF GuestReboot
<1>9. CASE VmDies
  BY <1>9, EmptySlots DEF VmDies, InitrdGone, NoSight
<1> QED
  BY <1>1, <1>2, <1>3, <1>4, <1>5, <1>6, <1>7, <1>8, <1>9 DEF Box

\* A step of yolobox-unlock keeps the types.
LEMMA HelperTyped ==
  ASSUME TypeOK, NEW h \in Helpers, Helper(h)
  PROVE  TypeOK'
<1> USE DEF TypeOK, MigStates, CryptStates
<1>1. CASE HelperRetry(h)
  BY <1>1 DEF HelperRetry, Slot, Live
<1>2. CASE HelperMkfifo(h)
  BY <1>2 DEF HelperMkfifo, Slot, Live
<1>3. CASE HelperAnswer(h)
  BY <1>3 DEF HelperAnswer
<1>4. CASE HelperCheck(h)
  <2>1. UnitVerdict \in {"loop"} \cup Exits
    BY DEF UnitVerdict, Exits
  <2> QED
    BY <1>4, <2>1 DEF HelperCheck, Slot
<1>5. CASE OrphanEnds(h)
  BY <1>5, EmptySlots DEF OrphanEnds
<1> QED
  BY <1>1, <1>2, <1>3, <1>4, <1>5 DEF Helper

\* A step of yo up keeps the types.
LEMMA UpTyped ==
  ASSUME TypeOK, NEW y \in Yo, Up(y)
  PROVE  TypeOK'
<1> USE DEF TypeOK, UpPcs, Goto, initrdVars
<1>1. CASE UpBegin(y)
  BY <1>1 DEF UpBegin
<1>2. CASE UpStart(y)
  BY <1>2 DEF UpStart
<1>3. CASE UpAcquire(y)
  BY <1>3 DEF UpAcquire
<1>4. CASE UpConnect(y)
  BY <1>4 DEF UpConnect, Slot, Live, Exits
<1>5. CASE UpConnectFails(y)
  BY <1>5 DEF UpConnectFails
<1>6. CASE UpSessionEnds(y)
  BY <1>6, EmptySlots DEF UpSessionEnds
<1>7. CASE UpSessionDrops(y)
  BY <1>7, DetachTyped DEF UpSessionDrops
<1>8. CASE UpJudge(y)
  BY <1>8 DEF UpJudge
<1>9. CASE UpOperator(y)
  BY <1>9 DEF UpOperator
<1> QED
  BY <1>1, <1>2, <1>3, <1>4, <1>5, <1>6, <1>7, <1>8, <1>9 DEF Up

\* A step of yo down keeps the types.
LEMMA DownTyped ==
  ASSUME TypeOK, NEW y \in Yo, Down(y)
  PROVE  TypeOK'
<1> USE DEF TypeOK, DownPcs, ProbePcs, Goto, initrdVars, NoSight
<1>1. CASE DownBegin(y)
  BY <1>1 DEF DownBegin
<1>2. CASE DownStop(y)
  BY <1>2 DEF DownStop
<1>3. CASE DownLock(y)
  BY <1>3 DEF DownLock
<1>4. CASE ProbeUnit(y)
  BY <1>4 DEF ProbeUnit, UnitState, MigStates
<1>5. CASE ProbeFifos(y)
  BY <1>5 DEF ProbeFifos, FifoExists
<1>6. CASE ProbeAsks(y)
  BY <1>6 DEF ProbeAsks
<1>7. CASE ProbeLost(y)
  BY <1>7 DEF ProbeLost
<1>8. CASE DownKill(y)
  BY <1>8, EmptySlots DEF DownKill, InitrdGone, MigStates, CryptStates, RootStates
<1> QED
  BY <1>1, <1>2, <1>3, <1>4, <1>5, <1>6, <1>7, <1>8 DEF Down

\* Every step keeps the types.
LEMMA TypeStep == TypeOK /\ [Next]_vars => TypeOK'
<1> SUFFICES ASSUME TypeOK, [Next]_vars PROVE TypeOK'
  OBVIOUS
<1>1. CASE Box
  BY <1>1, BoxTyped
<1>2. ASSUME NEW h \in Helpers, Helper(h) PROVE TypeOK'
  BY <1>2, HelperTyped
<1>3. ASSUME NEW y \in Yo, Up(y) PROVE TypeOK'
  BY <1>3, UpTyped
<1>4. ASSUME NEW y \in Yo, Down(y) PROVE TypeOK'
  BY <1>4, DownTyped
<1>5. ASSUME NEW y \in Yo, Crash(y) PROVE TypeOK'
  BY <1>5, DetachTyped DEF Crash, TypeOK, Goto, NoSight
<1>6. CASE UNCHANGED vars
  BY <1>6 DEF TypeOK, vars
<1> QED
  BY <1>1, <1>2, <1>3, <1>4, <1>5, <1>6 DEF Next

\* A host with no yo running and a box that is off has them.
LEMMA InitTyped == Init => TypeOK
<1> SUFFICES ASSUME Init PROVE TypeOK
  OBVIOUS
<1>1. helper \in [Helpers -> Slot]
  BY EmptySlots DEF Init
<1>2. pc \in [Yo -> {"idle"} \cup UpPcs \cup DownPcs]
  BY DEF Init
<1>3. saw \in [Yo -> [mig : {"unread", "inactive", "activating", "active", "failed"},
                     fifo : BOOLEAN]]
  BY DEF Init, NoSight
<1> QED
  BY <1>1, <1>2, <1>3 DEF Init, TypeOK, MigStates, CryptStates, RootStates

\* The variables keep their types, whatever the processes and helpers are.
THEOREM TypeCorrect == Spec => []TypeOK
BY InitTyped, TypeStep, PTL DEF Spec
-----------------------------------------------------------------------------
(* The lock: it is held exactly at the places of the code that hold it.    *)

\* A step of yo up takes or drops the lock where run_initrd_helper does.
LEMMA UpKeepsLock ==
  ASSUME TypeOK, LockInv, NEW y \in Yo, Up(y)
  PROVE  LockInv'
<1> USE NoneAssumption DEF LockInv, TypeOK, Holding, ProbePcs, Goto, initrdVars
<1>1. CASE UpBegin(y)
  BY <1>1 DEF UpBegin
<1>2. CASE UpStart(y)
  BY <1>2 DEF UpStart
<1>3. CASE UpAcquire(y)
  BY <1>3 DEF UpAcquire
<1>4. CASE UpConnect(y)
  BY <1>4 DEF UpConnect
<1>5. CASE UpConnectFails(y)
  BY <1>5 DEF UpConnectFails
<1>6. CASE UpSessionEnds(y)
  BY <1>6 DEF UpSessionEnds
<1>7. CASE UpSessionDrops(y)
  BY <1>7 DEF UpSessionDrops
<1>8. CASE UpJudge(y)
  BY <1>8 DEF UpJudge
<1>9. CASE UpOperator(y)
  BY <1>9 DEF UpOperator
<1> QED
  BY <1>1, <1>2, <1>3, <1>4, <1>5, <1>6, <1>7, <1>8, <1>9 DEF Up

\* A step of yo down takes or drops the lock where cmd_down does.
LEMMA DownKeepsLock ==
  ASSUME TypeOK, LockInv, NEW y \in Yo, Down(y)
  PROVE  LockInv'
<1> USE NoneAssumption DEF LockInv, TypeOK, Holding, ProbePcs, Goto, initrdVars
<1>1. CASE DownBegin(y)
  BY <1>1 DEF DownBegin
<1>2. CASE DownStop(y)
  BY <1>2 DEF DownStop
<1>3. CASE DownLock(y)
  BY <1>3 DEF DownLock
<1>4. CASE ProbeUnit(y)
  BY <1>4 DEF ProbeUnit
<1>5. CASE ProbeFifos(y)
  BY <1>5 DEF ProbeFifos
<1>6. CASE ProbeAsks(y)
  BY <1>6 DEF ProbeAsks
<1>7. CASE ProbeLost(y)
  BY <1>7 DEF ProbeLost
<1>8. CASE DownKill(y)
  BY <1>8 DEF DownKill
<1> QED
  BY <1>1, <1>2, <1>3, <1>4, <1>5, <1>6, <1>7, <1>8 DEF Down

\* The box and the helpers know nothing of the lock.
LEMMA BoxLeavesLock == Box => UNCHANGED <<lock, pc>>
BY DEF Box, MigStart, MigDetect, MigEnd, CryptStart, CryptEnd, MountRoot, SwitchRoot,
       GuestReboot, VmDies

\* Nor does a helper look at the VM or at what a probe has read.
LEMMA HelperLeavesLock ==
  ASSUME NEW h \in Helpers, Helper(h)
  PROVE  UNCHANGED <<vm, lock, pc, saw>>
BY DEF Helper, HelperRetry, HelperMkfifo, HelperAnswer, HelperCheck, OrphanEnds

\* LockInv is inductive: one yo at most is between taking and dropping the lock.
LEMMA LockStep ==
  ASSUME TypeOK, LockInv, [Next]_vars
  PROVE  LockInv'
<1>1. CASE Box
  BY <1>1, BoxLeavesLock DEF LockInv
<1>2. ASSUME NEW h \in Helpers, Helper(h) PROVE LockInv'
  BY <1>2, HelperLeavesLock DEF LockInv
<1>3. ASSUME NEW y \in Yo, Up(y) PROVE LockInv'
  BY <1>3, UpKeepsLock
<1>4. ASSUME NEW y \in Yo, Down(y) PROVE LockInv'
  BY <1>4, DownKeepsLock
<1>5. ASSUME NEW y \in Yo, Crash(y) PROVE LockInv'
  BY <1>5, NoneAssumption DEF Crash, LockInv, TypeOK, Goto, Holding, ProbePcs
<1>6. CASE UNCHANGED vars
  BY <1>6 DEF vars, LockInv
<1> QED
  BY <1>1, <1>2, <1>3, <1>4, <1>5, <1>6 DEF Next

-----------------------------------------------------------------------------
(* The initrd: nothing of it survives it, and its units run in order.      *)

\* The units start in their order, and all of them end with the initrd.
LEMMA BoxKeepsInitrd ==
  ASSUME TypeOK, InitrdInv, Box
  PROVE  InitrdInv'
<1> USE DEF InitrdInv, TypeOK
<1>1. CASE MigStart
  BY <1>1 DEF MigStart
<1>2. CASE MigDetect
  BY <1>2 DEF MigDetect
<1>3. CASE MigEnd
  BY <1>3 DEF MigEnd
<1>4. CASE CryptStart
  BY <1>4 DEF CryptStart
<1>5. CASE CryptEnd
  BY <1>5 DEF CryptEnd
<1>6. CASE MountRoot
  BY <1>6 DEF MountRoot
<1>7. CASE SwitchRoot
  BY <1>7 DEF SwitchRoot, InitrdGone
<1>8. CASE GuestReboot
  BY <1>8 DEF GuestReboot
<1>9. CASE VmDies
  BY <1>9 DEF VmDies, InitrdGone
<1> QED
  BY <1>1, <1>2, <1>3, <1>4, <1>5, <1>6, <1>7, <1>8, <1>9 DEF Box

\* A helper, or its FIFO, is found in an initrd only.
LEMMA LiveHelperInInitrd ==
  ASSUME InitrdInv, NEW h \in Helpers, helper[h].pc # "absent"
  PROVE  vm = "initrd"
BY DEF InitrdInv, NoHelper

\* So is one that has a session.
LEMMA OwnedHelperInInitrd ==
  ASSUME InitrdInv, NEW h \in Helpers, helper[h].by # None
  PROVE  vm = "initrd"
BY DEF InitrdInv, NoHelper

\* A helper runs only in an initrd, and answers only the unit that asks.
LEMMA HelperKeepsInitrd ==
  ASSUME TypeOK, InitrdInv, NEW h \in Helpers, Helper(h)
  PROVE  InitrdInv'
<1> USE LiveHelperInInitrd DEF InitrdInv
<1>1. CASE HelperRetry(h)
  BY <1>1 DEF HelperRetry
<1>2. CASE HelperMkfifo(h)
  BY <1>2 DEF HelperMkfifo
<1>3. CASE HelperAnswer(h)
  BY <1>3 DEF HelperAnswer, Asks
<1>4. CASE HelperCheck(h)
  BY <1>4 DEF HelperCheck
<1>5. CASE OrphanEnds(h)
  BY <1>5 DEF OrphanEnds, Live, Exits
<1> QED
  BY <1>1, <1>2, <1>3, <1>4, <1>5 DEF Helper

\* A yo up starts a box whose initrd is untouched, and talks to one that is there.
LEMMA UpKeepsInitrd ==
  ASSUME TypeOK, InitrdInv, NEW y \in Yo, Up(y)
  PROVE  InitrdInv'
<1> USE DEF InitrdInv, initrdVars
<1>1. CASE UpBegin(y)
  BY <1>1 DEF UpBegin
<1>2. CASE UpStart(y)
  BY <1>2 DEF UpStart
<1>3. CASE UpAcquire(y)
  BY <1>3 DEF UpAcquire
<1>4. CASE UpConnect(y)
  BY <1>4 DEF UpConnect
<1>5. CASE UpConnectFails(y)
  BY <1>5 DEF UpConnectFails
<1>6. CASE UpSessionEnds(y)
  BY <1>6, NoneAssumption, OwnedHelperInInitrd DEF UpSessionEnds
<1>7. CASE UpSessionDrops(y)
  BY <1>7, NoneAssumption, OwnedHelperInInitrd DEF UpSessionDrops, Detach
<1>8. CASE UpJudge(y)
  BY <1>8 DEF UpJudge
<1>9. CASE UpOperator(y)
  BY <1>9 DEF UpOperator
<1> QED
  BY <1>1, <1>2, <1>3, <1>4, <1>5, <1>6, <1>7, <1>8, <1>9 DEF Up

\* A yo down only looks, or ends the initrd altogether.
LEMMA DownKeepsInitrd ==
  ASSUME TypeOK, InitrdInv, NEW y \in Yo, Down(y)
  PROVE  InitrdInv'
<1> USE DEF InitrdInv, TypeOK, initrdVars, NoSight
<1>1. CASE DownBegin(y)
  BY <1>1 DEF DownBegin
<1>2. CASE DownStop(y)
  BY <1>2 DEF DownStop
<1>3. CASE DownLock(y)
  BY <1>3 DEF DownLock
<1>4. CASE ProbeUnit(y)
  BY <1>4 DEF ProbeUnit
<1>5. CASE ProbeFifos(y)
  BY <1>5 DEF ProbeFifos, FifoExists
<1>6. CASE ProbeAsks(y)
  BY <1>6 DEF ProbeAsks
<1>7. CASE ProbeLost(y)
  BY <1>7 DEF ProbeLost
<1>8. CASE DownKill(y)
  BY <1>8 DEF DownKill, InitrdGone
<1> QED
  BY <1>1, <1>2, <1>3, <1>4, <1>5, <1>6, <1>7, <1>8 DEF Down

\* InitrdInv is inductive.
LEMMA InitrdStep ==
  ASSUME TypeOK, InitrdInv, [Next]_vars
  PROVE  InitrdInv'
<1>1. CASE Box
  BY <1>1, BoxKeepsInitrd
<1>2. ASSUME NEW h \in Helpers, Helper(h) PROVE InitrdInv'
  BY <1>2, HelperKeepsInitrd
<1>3. ASSUME NEW y \in Yo, Up(y) PROVE InitrdInv'
  BY <1>3, UpKeepsInitrd
<1>4. ASSUME NEW y \in Yo, Down(y) PROVE InitrdInv'
  BY <1>4, DownKeepsInitrd
<1>5. ASSUME NEW y \in Yo, Crash(y) PROVE InitrdInv'
  BY <1>5, NoneAssumption, OwnedHelperInInitrd DEF Crash, InitrdInv, Detach, NoSight
<1>6. CASE UNCHANGED vars
  BY <1>6 DEF vars, InitrdInv
<1> QED
  BY <1>1, <1>2, <1>3, <1>4, <1>5, <1>6 DEF Next

-----------------------------------------------------------------------------
(* Helpers and their sessions.                                             *)

\* The box leaves a helper's session alone, or ends every helper.
LEMMA BoxAndHelpers ==
  ASSUME TypeOK, Box
  PROVE  \/ \A h \in Helpers : helper'[h].pc = helper[h].pc /\ helper'[h].by = helper[h].by
         \/ helper' = [h \in Helpers |-> NoHelper]
BY DEF TypeOK, Slot, Box, MigStart, MigDetect, MigEnd, CryptStart, CryptEnd, MountRoot,
       SwitchRoot, GuestReboot, VmDies, InitrdGone

\* A yo that loses its session, or dies, owns no helper any more; the others
\* keep theirs (Detach).
LEMMA DetachFrees ==
  ASSUME TypeOK, OwnerInv, NEW y \in Yo, Detach(y)
  PROVE  \A h \in Helpers :
           helper'[h].by # None =>
             helper'[h].by # y /\ helper'[h].by = helper[h].by
<1> DEFINE Frees == \A h \in Helpers : helper'[h].by # None =>
                      helper'[h].by # y /\ helper'[h].by = helper[h].by
<1>1. CASE (\A h \in Helpers : helper[h].by # y) /\ UNCHANGED helper
  BY <1>1
<1>2. ASSUME NEW h \in Helpers, helper[h].by = y,
             NEW slot \in Slot, slot.by = None, helper' = [helper EXCEPT ![h] = slot]
      PROVE  Frees
  BY <1>2, NoneAssumption DEF TypeOK, OwnerInv
<1>3. \A h \in Helpers :
        /\ [helper[h] EXCEPT !.by = None] \in Slot
        /\ [helper[h] EXCEPT !.by = None].by = None
  BY DEF TypeOK, Slot
<1>4. NoHelper.by = None /\ Leftover.by = None
  BY DEF NoHelper, Leftover
<1> QED
  BY <1>1, <1>2, <1>3, <1>4, EmptySlots DEF Detach

\* A helper left alone by its yo has its FIFO already (Detach).
LEMMA DetachKeepsFifo ==
  ASSUME ~DropBeforeFifo, TypeOK, FifoInv, NEW y \in Yo, Detach(y)
  PROVE  FifoInv'
<1>1. CASE UNCHANGED helper
  BY <1>1 DEF FifoInv
<1>2. ASSUME NEW h \in Helpers, helper[h].pc \in {"loop"} \cup Exits,
             helper' = [helper EXCEPT ![h].by = None]
      PROVE  FifoInv'
  BY <1>2 DEF FifoInv, TypeOK, Slot, Exits
<1>3. ASSUME NEW h \in Helpers, helper' = [helper EXCEPT ![h] = NoHelper]
      PROVE  FifoInv'
  BY <1>3 DEF FifoInv, TypeOK, NoHelper
<1>4. ASSUME NEW h \in Helpers, helper' = [helper EXCEPT ![h] = Leftover]
      PROVE  FifoInv'
  BY <1>4 DEF FifoInv, TypeOK, Leftover
<1> QED
  BY <1>1, <1>2, <1>3, <1>4 DEF Detach

\* The other sessions are untouched.
LEMMA DetachKeepsOwner ==
  ASSUME TypeOK, OwnerInv, NEW y \in Yo, Detach(y), NEW there, Goto(y, there)
  PROVE  OwnerInv'
BY DetachFrees, NoneAssumption DEF OwnerInv, TypeOK, Slot, Goto

\* A helper never changes hands by its own doing.
LEMMA HelperKeepsOwner ==
  ASSUME TypeOK, OwnerInv, NEW h \in Helpers, Helper(h)
  PROVE  OwnerInv'
<1> USE NoneAssumption DEF OwnerInv, TypeOK, Slot
<1>1. CASE HelperRetry(h)
  BY <1>1 DEF HelperRetry
<1>2. CASE HelperMkfifo(h)
  BY <1>2 DEF HelperMkfifo
<1>3. CASE HelperAnswer(h)
  BY <1>3 DEF HelperAnswer
<1>4. CASE HelperCheck(h)
  BY <1>4 DEF HelperCheck
<1>5. CASE OrphanEnds(h)
  BY <1>5 DEF OrphanEnds, NoHelper, Leftover
<1> QED
  BY <1>1, <1>2, <1>3, <1>4, <1>5 DEF Helper

\* A session has one helper, and gives it up when it ends.
LEMMA UpKeepsOwner ==
  ASSUME TypeOK, OwnerInv, NEW y \in Yo, Up(y)
  PROVE  OwnerInv'
<1> USE NoneAssumption DEF OwnerInv, TypeOK, Slot, Goto, initrdVars, ProbePcs
<1>1. CASE UpBegin(y)
  BY <1>1 DEF UpBegin
<1>2. CASE UpStart(y)
  BY <1>2 DEF UpStart
<1>3. CASE UpAcquire(y)
  BY <1>3 DEF UpAcquire
<1>4. CASE UpConnect(y)
  BY <1>4 DEF UpConnect
<1>5. CASE UpConnectFails(y)
  BY <1>5 DEF UpConnectFails
<1>6. CASE UpSessionEnds(y)
  BY <1>6 DEF UpSessionEnds, NoHelper
<1>7. CASE UpSessionDrops(y)
  BY <1>7, DetachKeepsOwner DEF UpSessionDrops
<1>8. CASE UpJudge(y)
  BY <1>8 DEF UpJudge
<1>9. CASE UpOperator(y)
  BY <1>9 DEF UpOperator
<1> QED
  BY <1>1, <1>2, <1>3, <1>4, <1>5, <1>6, <1>7, <1>8, <1>9 DEF Up

\* A yo down is in no session.
LEMMA DownKeepsOwner ==
  ASSUME TypeOK, OwnerInv, NEW y \in Yo, Down(y)
  PROVE  OwnerInv'
<1> USE NoneAssumption DEF OwnerInv, TypeOK, Slot, Goto, initrdVars, ProbePcs
<1>1. CASE DownBegin(y)
  BY <1>1 DEF DownBegin
<1>2. CASE DownStop(y)
  BY <1>2 DEF DownStop
<1>3. CASE DownLock(y)
  BY <1>3 DEF DownLock
<1>4. CASE ProbeUnit(y)
  BY <1>4 DEF ProbeUnit
<1>5. CASE ProbeFifos(y)
  BY <1>5 DEF ProbeFifos
<1>6. CASE ProbeAsks(y)
  BY <1>6 DEF ProbeAsks
<1>7. CASE ProbeLost(y)
  BY <1>7 DEF ProbeLost
<1>8. CASE DownKill(y)
  BY <1>8 DEF DownKill, InitrdGone, NoHelper
<1> QED
  BY <1>1, <1>2, <1>3, <1>4, <1>5, <1>6, <1>7, <1>8 DEF Down

\* OwnerInv is inductive.
LEMMA OwnerStep ==
  ASSUME TypeOK, OwnerInv, [Next]_vars
  PROVE  OwnerInv'
<1>1. CASE Box
  BY <1>1, BoxAndHelpers, BoxLeavesLock, NoneAssumption DEF OwnerInv, NoHelper
<1>2. ASSUME NEW h \in Helpers, Helper(h) PROVE OwnerInv'
  BY <1>2, HelperKeepsOwner
<1>3. ASSUME NEW y \in Yo, Up(y) PROVE OwnerInv'
  BY <1>3, UpKeepsOwner
<1>4. ASSUME NEW y \in Yo, Down(y) PROVE OwnerInv'
  BY <1>4, DownKeepsOwner
<1>5. ASSUME NEW y \in Yo, Crash(y) PROVE OwnerInv'
  BY <1>5, DetachKeepsOwner DEF Crash
<1>6. CASE UNCHANGED vars
  BY <1>6 DEF vars, OwnerInv
<1> QED
  BY <1>1, <1>2, <1>3, <1>4, <1>5, <1>6 DEF Next

\* A helper makes its FIFO before it can be left alone.
LEMMA HelperKeepsFifo ==
  ASSUME TypeOK, FifoInv, NEW h \in Helpers, Helper(h)
  PROVE  FifoInv'
<1> USE DEF FifoInv, TypeOK, Slot
<1>1. CASE HelperRetry(h)
  BY <1>1 DEF HelperRetry
<1>2. CASE HelperMkfifo(h)
  BY <1>2 DEF HelperMkfifo
<1>3. CASE HelperAnswer(h)
  BY <1>3 DEF HelperAnswer
<1>4. CASE HelperCheck(h)
  BY <1>4 DEF HelperCheck, UnitVerdict
<1>5. CASE OrphanEnds(h)
  BY <1>5 DEF OrphanEnds, NoHelper, Leftover
<1> QED
  BY <1>1, <1>2, <1>3, <1>4, <1>5 DEF Helper

\* A session that drops leaves a helper with its FIFO, or none.
LEMMA UpKeepsFifo ==
  ASSUME ~DropBeforeFifo, TypeOK, FifoInv, NEW y \in Yo, Up(y)
  PROVE  FifoInv'
<1> USE NoneAssumption DEF FifoInv, TypeOK, Slot, initrdVars, Exits
<1>1. CASE UpBegin(y)
  BY <1>1 DEF UpBegin
<1>2. CASE UpStart(y)
  BY <1>2 DEF UpStart
<1>3. CASE UpAcquire(y)
  BY <1>3 DEF UpAcquire
<1>4. CASE UpConnect(y)
  BY <1>4 DEF UpConnect
<1>5. CASE UpConnectFails(y)
  BY <1>5 DEF UpConnectFails
<1>6. CASE UpSessionEnds(y)
  BY <1>6 DEF UpSessionEnds, NoHelper
<1>7. CASE UpSessionDrops(y)
  BY <1>7, DetachKeepsFifo DEF UpSessionDrops
<1>8. CASE UpJudge(y)
  BY <1>8 DEF UpJudge
<1>9. CASE UpOperator(y)
  BY <1>9 DEF UpOperator
<1> QED
  BY <1>1, <1>2, <1>3, <1>4, <1>5, <1>6, <1>7, <1>8, <1>9 DEF Up

\* FifoInv is inductive when no session drops before the FIFO exists.
LEMMA FifoStep ==
  ASSUME ~DropBeforeFifo, TypeOK, FifoInv, [Next]_vars
  PROVE  FifoInv'
<1>1. CASE Box
  BY <1>1, BoxAndHelpers DEF FifoInv, NoHelper
<1>2. ASSUME NEW h \in Helpers, Helper(h) PROVE FifoInv'
  BY <1>2, HelperKeepsFifo
<1>3. ASSUME NEW y \in Yo, Up(y) PROVE FifoInv'
  BY <1>3, UpKeepsFifo
<1>4. ASSUME NEW y \in Yo, Down(y) PROVE FifoInv'
  BY <1>4 DEF FifoInv, NoHelper, InitrdGone, initrdVars, Down, DownBegin, DownStop, DownLock,
                  ProbeUnit, ProbeFifos, ProbeAsks, ProbeLost, DownKill
<1>5. ASSUME NEW y \in Yo, Crash(y) PROVE FifoInv'
  BY <1>5, DetachKeepsFifo DEF Crash
<1>6. CASE UNCHANGED vars
  BY <1>6 DEF vars, FifoInv
<1> QED
  BY <1>1, <1>2, <1>3, <1>4, <1>5, <1>6 DEF Next

-----------------------------------------------------------------------------
(* The probe and the power-off.                                            *)

\* Only a new session brings a helper to life (run_initrd_helper).
LEMMA HelpersAreStarted ==
  ASSUME TypeOK, [Next]_vars, \A z \in Yo : ~UpConnect(z)
  PROVE  NoLiveHelper => NoLiveHelper'
<1> SUFFICES ASSUME NoLiveHelper PROVE NoLiveHelper'
  OBVIOUS
<1> USE DEF NoLiveHelper
<1>1. CASE Box
  BY <1>1, BoxAndHelpers DEF NoHelper, Live
<1>2. ASSUME NEW h \in Helpers, Helper(h) PROVE NoLiveHelper'
  BY <1>2 DEF TypeOK, Slot, Helper, HelperRetry, HelperMkfifo, HelperAnswer, HelperCheck,
              OrphanEnds, NoHelper, Leftover, Live
<1>3. ASSUME NEW y \in Yo, Detach(y) PROVE NoLiveHelper'
  BY <1>3 DEF Detach, TypeOK, Slot, NoHelper, Leftover, Live
<1>4. ASSUME NEW y \in Yo, UpSessionEnds(y) PROVE NoLiveHelper'
  BY <1>4 DEF UpSessionEnds, TypeOK, NoHelper, Live
<1>5. ASSUME NEW y \in Yo, Up(y) PROVE NoLiveHelper'
  BY <1>3, <1>4, <1>5 DEF Up, UpBegin, UpStart, UpAcquire, UpConnectFails, UpSessionDrops,
                          UpJudge, UpOperator, initrdVars
<1>6. ASSUME NEW y \in Yo, Down(y) PROVE NoLiveHelper'
  BY <1>6 DEF Down, DownBegin, DownStop, DownLock, ProbeUnit, ProbeFifos, ProbeAsks,
              ProbeLost, DownKill, InitrdGone, NoHelper, initrdVars, Live
<1>7. ASSUME NEW y \in Yo, Crash(y) PROVE NoLiveHelper'
  BY <1>3, <1>7 DEF Crash
<1>8. CASE UNCHANGED vars
  BY <1>8 DEF vars
<1> QED
  BY <1>1, <1>2, <1>5, <1>6, <1>7, <1>8 DEF Next

\* With the lock in the hands of a probe and no FIFO, no helper is alive: one
\* without its FIFO would have a session, and its yo the lock.
LEMMA NoFifoNoHelper ==
  ASSUME TypeOK, LockInv, OwnerInv, FifoInv,
         NEW y \in Yo, pc[y] = "probe2", ~FifoExists
  PROVE  NoLiveHelper
BY DEF TypeOK, Slot, LockInv, Holding, ProbePcs, OwnerInv, FifoInv, FifoExists, NoLiveHelper,
       Live

\* How a yo comes to its last probe, and to the power-off.
LEMMA WayToKill ==
  ASSUME TypeOK, [Next]_vars, NEW y \in Yo
  PROVE  /\ pc'[y] = "probe3" => \/ ProbeFifos(y)
                                 \/ pc[y] = "probe3" /\ saw'[y] \in {saw[y], NoSight}
         /\ pc'[y] = "kill" => pc[y] = "kill" \/ ProbeAsks(y)
<1>1. CASE Box
  BY <1>1 DEF TypeOK, Box, MigStart, MigDetect, MigEnd, CryptStart, CryptEnd, MountRoot,
              SwitchRoot, GuestReboot, VmDies, InitrdGone
<1>2. ASSUME NEW h \in Helpers, Helper(h) PROVE UNCHANGED <<pc, saw>>
  BY <1>2, HelperLeavesLock
<1>3. ASSUME NEW z \in Yo, Up(z)
      PROVE  pc'[y] = pc[y] \/ pc'[y] \notin {"probe3", "kill"}
  BY <1>3 DEF TypeOK, Goto, Up, UpBegin, UpStart, UpAcquire, UpConnect, UpConnectFails,
              UpSessionEnds, UpSessionDrops, UpJudge, UpOperator
<1>4. ASSUME NEW z \in Yo, Up(z) PROVE UNCHANGED saw
  BY <1>4 DEF Up, UpBegin, UpStart, UpAcquire, UpConnect, UpConnectFails,
              UpSessionEnds, UpSessionDrops, UpJudge, UpOperator
<1>5. ASSUME NEW z \in Yo, Down(z), z # y
      PROVE  pc'[y] = pc[y] /\ saw'[y] \in {saw[y], NoSight}
  BY <1>5 DEF TypeOK, Goto, Down, DownBegin, DownStop, DownLock, ProbeUnit, ProbeFifos,
              ProbeAsks, ProbeLost, DownKill, InitrdGone
<1>6. ASSUME Down(y), pc'[y] \in {"probe3", "kill"}
      PROVE  ProbeFifos(y) \/ (ProbeAsks(y) /\ pc'[y] = "kill")
  <2>1. CASE ProbeAsks(y)
    BY <1>6, <2>1 DEF TypeOK, Goto, ProbeAsks
  <2>2. CASE ~ProbeAsks(y) /\ ~ProbeFifos(y)
    BY <1>6, <2>2 DEF TypeOK, Goto, Down, DownBegin, DownStop, DownLock, ProbeUnit, ProbeLost,
                      DownKill
  <2>3. CASE ProbeFifos(y)
    BY <2>3
  <2> QED
    BY <2>1, <2>2, <2>3
<1>7. ASSUME Down(y), ProbeFifos(y) PROVE pc'[y] = "probe3"
  BY <1>7 DEF TypeOK, Goto, ProbeFifos
<1>8. ASSUME NEW z \in Yo, Crash(z)
      PROVE  \/ pc'[y] = pc[y] /\ saw'[y] = saw[y]
             \/ pc'[y] = "idle"
  BY <1>8 DEF TypeOK, Goto, Crash
<1>9. CASE UNCHANGED vars
  BY <1>9 DEF vars
<1> QED
  BY <1>1, <1>2, <1>3, <1>4, <1>5, <1>6, <1>7, <1>8, <1>9 DEF Next

\* Whoever probes or kills, no helper is alive behind its back.
LEMMA ProbeStep ==
  ASSUME TypeOK, LockInv, OwnerInv, FifoInv, ProbeInv, [Next]_vars
  PROVE  ProbeInv'
<1> SUFFICES ASSUME NEW y \in Yo,
                    \/ pc'[y] = "probe3" /\ saw'[y].mig # "unread" /\ ~saw'[y].fifo
                    \/ pc'[y] = "kill"
             PROVE  NoLiveHelper'
  BY DEF ProbeInv, NoLiveHelper
<1>1. NoLiveHelper
  <2>1. CASE ProbeFifos(y)
    <3>1. ~FifoExists
      BY <2>1 DEF ProbeFifos, TypeOK, Goto
    <3> QED
      BY <2>1, <3>1, NoFifoNoHelper DEF ProbeFifos
  <2>2. CASE ProbeAsks(y)
    <3>1. ~saw[y].fifo
      BY <2>2 DEF ProbeAsks, Classify, TypeOK, Goto
    <3> QED
      BY <2>2, <3>1 DEF ProbeAsks, ProbeInv
  <2>3. CASE ~ProbeFifos(y) /\ ~ProbeAsks(y)
    BY <2>3, WayToKill DEF ProbeInv, NoSight
  <2> QED
    BY <2>1, <2>2, <2>3
<1>2. ASSUME NEW z \in Yo, UpConnect(z) PROVE FALSE
  <2>1. lock = z /\ pc'[z] = "session" /\ (z # y => pc'[y] = pc[y])
    BY <1>2 DEF UpConnect, LockInv, Holding, Goto, TypeOK
  <2> QED
    BY <2>1 DEF LockInv, Holding, ProbePcs
<1> QED
  BY <1>1, <1>2, HelpersAreStarted

\* The verdict "waiting" names a box that waits.
LEMMA WaitingIsIdle ==
  ASSUME TypeOK, InitrdInv, NEW y \in Yo, ProbeAsks(y), pc'[y] = "kill"
  PROVE  vm = "initrd" /\ mig # "write" /\ crypt \in {"inactive", "ask"}
<1>1. saw[y].mig # "unread" /\ Asks # {}
  BY DEF ProbeAsks, Classify, Goto, TypeOK
<1>2. vm = "initrd"
  BY <1>1 DEF InitrdInv, NoSight
<1>3. mig = "ask" \/ crypt = "ask"
  BY <1>1 DEF Asks
<1> QED
  BY <1>2, <1>3 DEF InitrdInv

\* With no helper alive, a box that waits goes on waiting, or goes off.
LEMMA IdleStays ==
  ASSUME TypeOK, InitrdInv, NoLiveHelper, [Next]_vars,
         \/ vm = "off"
         \/ vm = "initrd" /\ mig # "write" /\ crypt \in {"inactive", "ask"}
  PROVE  \/ vm' = "off"
         \/ vm' = "initrd" /\ mig' # "write" /\ crypt' \in {"inactive", "ask"}
<1>1. CASE Box
  BY <1>1 DEF InitrdInv, Box, MigStart, MigDetect, MigEnd, CryptStart, CryptEnd, MountRoot,
              SwitchRoot, GuestReboot, VmDies
<1>2. ASSUME NEW h \in Helpers, Helper(h)
      PROVE  UNCHANGED <<vm, mig, crypt>>
  BY <1>2 DEF NoLiveHelper, Live, Helper, HelperRetry, HelperMkfifo, HelperAnswer,
              HelperCheck, OrphanEnds
<1>3. ASSUME NEW y \in Yo, Up(y)
      PROVE  UNCHANGED <<mig, crypt>> /\ (vm' = vm \/ (vm = "off" /\ vm' = "initrd"))
  <2>1. CASE UpStart(y)
    BY <2>1 DEF UpStart, initrdVars
  <2>2. CASE UpConnect(y)
    BY <2>2 DEF UpConnect
  <2>3. CASE UpSessionEnds(y)
    BY <2>3 DEF UpSessionEnds
  <2>4. CASE UpSessionDrops(y)
    BY <2>4 DEF UpSessionDrops
  <2>5. CASE UpBegin(y) \/ UpAcquire(y) \/ UpConnectFails(y) \/ UpJudge(y) \/ UpOperator(y)
    BY <2>5 DEF initrdVars, UpBegin, UpAcquire, UpConnectFails, UpJudge, UpOperator
  <2> QED
    BY <1>3, <2>1, <2>2, <2>3, <2>4, <2>5 DEF Up
<1>4. ASSUME NEW y \in Yo, Down(y)
      PROVE  vm' = "off" \/ UNCHANGED <<vm, mig, crypt>>
  BY <1>4 DEF initrdVars, Down, DownBegin, DownStop, DownLock, ProbeUnit, ProbeFifos,
              ProbeAsks, ProbeLost, DownKill
<1>5. ASSUME NEW y \in Yo, Crash(y) PROVE UNCHANGED <<vm, mig, crypt>>
  BY <1>5 DEF Crash
<1>6. CASE UNCHANGED vars
  BY <1>6 DEF vars
<1> QED
  BY <1>1, <1>2, <1>3, <1>4, <1>5, <1>6 DEF Next, InitrdInv

\* PowerOffOnlyIdle is kept by every step, given the rest of GateInv.
LEMMA PowerOffStep ==
  ASSUME TypeOK, InitrdInv, ProbeInv, PowerOffOnlyIdle, [Next]_vars
  PROVE  PowerOffOnlyIdle'
<1> SUFFICES ASSUME NEW y \in Yo, pc'[y] = "kill"
             PROVE  \/ vm' = "off"
                    \/ vm' = "initrd" /\ mig' # "write" /\ crypt' \in {"inactive", "ask"}
  BY DEF PowerOffOnlyIdle
<1>1. CASE pc[y] = "kill"
  BY <1>1, IdleStays DEF ProbeInv, PowerOffOnlyIdle
<1>2. CASE ProbeAsks(y)
  BY <1>2, WaitingIsIdle DEF ProbeAsks, initrdVars
<1> QED
  BY <1>1, <1>2, WayToKill

\* `yo down` never cuts the power of a box whose disk is being written or whose
\* ask has been answered, as long as no session drops in the instant before its
\* helper makes its FIFO (cmd_down, initrd_state, unlock_lock).
THEOREM PowerOffSafe ==
  ASSUME ~DropBeforeFifo
  PROVE  Spec => []PowerOffOnlyIdle
<1>1. Init => GateInv
  <2> SUFFICES ASSUME Init PROVE GateInv
    OBVIOUS
  <2>1. TypeOK
    BY InitTyped
  <2> QED
    BY <2>1, NoneAssumption DEF GateInv, Init, LockInv, Holding, ProbePcs, InitrdInv,
         OwnerInv, FifoInv, ProbeInv, PowerOffOnlyIdle, NoHelper
<1>2. GateInv /\ [Next]_vars => GateInv'
  BY TypeStep, LockStep, InitrdStep, OwnerStep, FifoStep, ProbeStep, PowerOffStep DEF GateInv
<1>3. GateInv => PowerOffOnlyIdle
  BY DEF GateInv
<1> QED
  BY <1>1, <1>2, <1>3, PTL DEF Spec

-----------------------------------------------------------------------------
(* The verdict on the passphrase.                                          *)

\* A live helper hears of every failure of the cryptsetup unit, and begins by
\* clearing an old one.
LEMMA FreshStep == FreshInv /\ [Next]_vars => FreshInv'
<1> SUFFICES ASSUME FreshInv, [Next]_vars PROVE FreshInv'
  OBVIOUS
<1>0. TypeOK' /\ InitrdInv'
  BY TypeStep, InitrdStep DEF FreshInv
<1> DEFINE Fresh(slot, unit) ==
             /\ slot.pc = "exit1" => slot.fail
             /\ slot.pc \in {"ready", "loop"} /\ unit = "failed" => slot.fail
<1>a. \A h \in Helpers : Fresh(helper[h], crypt)
  BY DEF FreshInv, WrongKeyIsFresh
<1>b. SUFFICES ASSUME NEW h \in Helpers PROVE Fresh(helper'[h], crypt')
  BY <1>0 DEF FreshInv, WrongKeyIsFresh
<1>c. helper'[h] \in {NoHelper, Leftover} => Fresh(helper'[h], crypt')
  BY DEF NoHelper, Leftover
<1>d. helper'[h].pc = helper[h].pc /\ helper'[h].fail = helper[h].fail /\ crypt' \in {crypt, "inactive", "ask", "opening", "active"}
        => Fresh(helper'[h], crypt')
  BY <1>a
<1> USE DEF FreshInv, TypeOK, Slot
<1>1. CASE Box
  <2>1. CASE CryptEnd
    BY <1>a, <2>1 DEF CryptEnd, Live
  <2>2. CASE InitrdGone
    BY <2>2, <1>c DEF InitrdGone
  <2> QED
    BY <1>1, <1>d, <2>1, <2>2 DEF Box, MigStart, MigDetect, MigEnd, CryptStart, MountRoot,
         SwitchRoot, GuestReboot, VmDies
<1>2. ASSUME NEW g \in Helpers, Helper(g) PROVE Fresh(helper'[h], crypt')
  <2>1. CASE HelperRetry(g)
    BY <1>a, <2>1 DEF HelperRetry, InitrdInv
  <2>2. CASE HelperMkfifo(g)
    BY <1>a, <2>2 DEF HelperMkfifo
  <2>3. CASE HelperAnswer(g)
    BY <1>d, <2>3 DEF HelperAnswer
  <2>4. CASE HelperCheck(g)
    BY <1>a, <2>4 DEF HelperCheck, UnitVerdict
  <2>5. CASE OrphanEnds(g)
    BY <1>c, <1>d, <2>5 DEF OrphanEnds
  <2> QED
    BY <1>2, <2>1, <2>2, <2>3, <2>4, <2>5 DEF Helper
<1>3. ASSUME NEW y \in Yo, Detach(y), UNCHANGED crypt PROVE Fresh(helper'[h], crypt')
  BY <1>3, <1>c, <1>d DEF Detach
<1>4. ASSUME NEW y \in Yo, Up(y) PROVE Fresh(helper'[h], crypt')
  <2>1. CASE UpConnect(y)
    BY <1>d, <2>1 DEF UpConnect
  <2>2. CASE UpSessionEnds(y)
    BY <1>c, <1>d, <2>2 DEF UpSessionEnds
  <2>3. CASE UpSessionDrops(y)
    BY <1>3, <2>3 DEF UpSessionDrops
  <2> QED
    BY <1>4, <1>d, <2>1, <2>2, <2>3 DEF Up, UpBegin, UpStart, UpAcquire, UpConnectFails,
         UpJudge, UpOperator, initrdVars
<1>5. ASSUME NEW y \in Yo, Down(y) PROVE Fresh(helper'[h], crypt')
  <2>1. CASE DownKill(y)
    BY <1>c, <2>1 DEF DownKill, InitrdGone
  <2> QED
    BY <1>5, <1>d, <2>1 DEF Down, DownBegin, DownStop, DownLock, ProbeUnit, ProbeFifos,
         ProbeAsks, ProbeLost, initrdVars
<1>6. ASSUME NEW y \in Yo, Crash(y) PROVE Fresh(helper'[h], crypt')
  BY <1>3, <1>6 DEF Crash
<1>7. CASE UNCHANGED vars
  BY <1>d, <1>7 DEF vars
<1> QED
  BY <1>1, <1>2, <1>4, <1>5, <1>6, <1>7 DEF Next

\* A helper says "the passphrase does not open the disk" only after the unit
\* failed in its own run, for all numbers of helpers, orphans included
\* (retry_failed_unlock, check_units).
THEOREM WrongKeyFresh == Spec => []WrongKeyIsFresh
<1>1. Init => FreshInv
  <2> SUFFICES ASSUME Init PROVE FreshInv
    OBVIOUS
  <2> QED
    BY InitTyped DEF FreshInv, Init, InitrdInv, WrongKeyIsFresh, NoHelper
<1>2. FreshInv => WrongKeyIsFresh
  BY DEF FreshInv
<1> QED
  BY <1>1, <1>2, FreshStep, PTL DEF Spec
============================================================================
