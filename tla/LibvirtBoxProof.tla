-------------------------- MODULE LibvirtBoxProof ---------------------------
(***************************************************************************)
(* The safety of `yo up` and `yo destroy` on the libvirt host, for any     *)
(* number of yos and keys: what holds however they overlap, and what holds *)
(* when none begins among another's pieces.                                *)
(***************************************************************************)
EXTENDS LibvirtBox, TLAPS

-----------------------------------------------------------------------------
(* The list of a destroy.                                                  *)

Steps == DestroyPcs \ {"list"}

\* The next step is on the list, and none of the domain's is left behind a volume's.
LEMMA FirstOfList ==
  ASSUME NEW steps \in SUBSET Steps, steps # {}
  PROVE  /\ First(steps) \in steps
         /\ First(steps) \notin {"power off", "force stop"} => "force stop" \notin steps
         /\ First(steps) \in {"delete disk", "drop cidata", "remove dir"} =>
              "undefine" \notin steps
<1> DEFINE P(i) == Order[i] \in steps /\ \A j \in 1 .. i - 1 : Order[j] \notin steps
<1>1. /\ Order[1] = "power off" /\ Order[2] = "force stop" /\ Order[3] = "undefine"
      /\ Order[4] = "delete disk" /\ Order[5] = "drop cidata" /\ Order[6] = "remove dir"
  BY DEF Order
<1>2. \A j \in 1 .. 6 : j = 1 \/ j = 2 \/ j = 3 \/ j = 4 \/ j = 5 \/ j = 6
  OBVIOUS
<1>3. \E i \in 1 .. 6 : Order[i] \in steps
  <2>1. PICK s \in steps : TRUE OBVIOUS
  <2>2. s \in {"power off", "force stop", "undefine", "delete disk", "drop cidata", "remove dir"}
    BY DEF Steps, DestroyPcs
  <2>3. \/ s = Order[1] \/ s = Order[2] \/ s = Order[3]
        \/ s = Order[4] \/ s = Order[5] \/ s = Order[6]
    BY <1>1, <2>2
  <2>4. 1 \in 1 .. 6 /\ 2 \in 1 .. 6 /\ 3 \in 1 .. 6 /\ 4 \in 1 .. 6 /\ 5 \in 1 .. 6 /\ 6 \in 1 .. 6
    OBVIOUS
  <2> QED BY <2>3, <2>4
<1>4. \E i \in 1 .. 6 : P(i)
  <2>1. CASE Order[1] \in steps BY <2>1
  <2>2. CASE Order[1] \notin steps /\ Order[2] \in steps BY <2>2
  <2>3. CASE Order[1] \notin steps /\ Order[2] \notin steps /\ Order[3] \in steps
    BY <2>3
  <2>4. CASE /\ Order[1] \notin steps /\ Order[2] \notin steps /\ Order[3] \notin steps
             /\ Order[4] \in steps
    BY <2>4
  <2>5. CASE /\ Order[1] \notin steps /\ Order[2] \notin steps /\ Order[3] \notin steps
             /\ Order[4] \notin steps /\ Order[5] \in steps
    BY <2>5
  <2>6. CASE /\ Order[1] \notin steps /\ Order[2] \notin steps /\ Order[3] \notin steps
             /\ Order[4] \notin steps /\ Order[5] \notin steps
    <3>1. Order[6] \in steps BY <2>6, <1>2, <1>3
    <3> QED BY <2>6, <3>1
  <2> QED BY <2>1, <2>2, <2>3, <2>4, <2>5, <2>6
<1>5. PICK i \in 1 .. 6 : First(steps) = Order[i] /\ P(i)
  <2> DEFINE least == CHOOSE i \in 1 .. 6 : P(i)
  <2>1. First(steps) = Order[least] BY Zenon DEF First
  <2>2. least \in 1 .. 6 /\ P(least)
    <3> HIDE DEF P
    <3> QED BY <1>4
  <2> HIDE DEF least
  <2> QED BY <2>1, <2>2
<1>6. First(steps) \notin {"power off", "force stop"} => "force stop" \notin steps
  <2>1. CASE i \in {1, 2} BY <1>1, <1>5, <2>1
  <2>2. CASE i \notin {1, 2}
    <3>1. 2 \in 1 .. i - 1 BY <2>2
    <3> QED BY <1>1, <1>5, <3>1
  <2> QED BY <2>1, <2>2
<1>7. First(steps) \in {"delete disk", "drop cidata", "remove dir"} => "undefine" \notin steps
  <2>1. CASE i \in {1, 2, 3} BY <1>1, <1>5, <2>1
  <2>2. CASE i \notin {1, 2, 3}
    <3>1. 3 \in 1 .. i - 1 BY <2>2
    <3> QED BY <1>1, <1>5, <3>1
  <2> QED BY <2>1, <2>2
<1> QED BY <1>5, <1>6, <1>7

-----------------------------------------------------------------------------
(* How a yo moves.                                                         *)

Control ==
  /\ pc \in [Yo -> {"idle"} \cup UpPcs \cup DestroyPcs]
  /\ made \in [Yo -> BOOLEAN]
  /\ wants \in [Yo -> Key \cup {None}]
  /\ todo \in [Yo -> SUBSET DestroyPcs]

\* A yo that leaves is idle, and the others are where they were.
LEMMA Leaving ==
  ASSUME Control, TodoInv, WantsInv, NEW y \in Yo, Leave(y)
  PROVE  /\ Control' /\ TodoInv' /\ WantsInv'
         /\ pc'[y] = "idle"
         /\ \A z \in Yo : z # y => /\ pc'[z] = pc[z] /\ made'[z] = made[z]
                                   /\ wants'[z] = wants[z] /\ todo'[z] = todo[z]
<1>1. Control' BY DEF Control, Leave
<1>2. /\ pc'[y] = "idle" /\ todo'[y] = {}
      /\ \A z \in Yo : z # y => /\ pc'[z] = pc[z] /\ made'[z] = made[z]
                                /\ wants'[z] = wants[z] /\ todo'[z] = todo[z]
  BY DEF Control, Leave
<1>3. TodoInv' BY <1>2 DEF TodoInv, DestroyPcs
<1>4. WantsInv' BY <1>2 DEF WantsInv, Keyed, MakingDisk, MakingCidata
<1> QED BY <1>1, <1>2, <1>3, <1>4

\* A destroy that has done a step goes on to one of those left, or is over.
LEMMA Stepping ==
  ASSUME Control, TodoInv, WantsInv, NEW y \in Yo, pc[y] \in Steps, StepDone(y, pc[y])
  PROVE  /\ Control' /\ TodoInv' /\ WantsInv'
         /\ pc'[y] \in Steps \cup {"idle"}
         /\ pc'[y] # "idle" => todo'[y] = todo[y] \ {pc[y]}
         /\ \A z \in Yo : z # y => /\ pc'[z] = pc[z] /\ made'[z] = made[z]
                                   /\ wants'[z] = wants[z] /\ todo'[z] = todo[z]
<1> DEFINE rest == todo[y] \ {pc[y]}
<1>1. CASE rest = {}
  <2>1. Leave(y) BY <1>1 DEF StepDone
  <2> QED BY <2>1, Leaving
<1>2. CASE rest # {}
  <2>1. rest \in SUBSET Steps BY DEF Control, TodoInv, Steps
  <2>2. First(rest) \in rest BY <1>2, <2>1, FirstOfList
  <2>3. /\ pc' = [pc EXCEPT ![y] = First(rest)] /\ todo' = [todo EXCEPT ![y] = rest]
        /\ UNCHANGED <<made, wants>>
    BY <1>2 DEF StepDone
  <2> HIDE DEF rest
  <2>4. /\ First(rest) \in Steps /\ First(rest) \in DestroyPcs /\ rest \subseteq DestroyPcs
    BY <2>1, <2>2 DEF Steps
  <2>5. Control' BY <2>3, <2>4 DEF Control
  <2>6. /\ pc'[y] = First(rest) /\ todo'[y] = rest
        /\ \A z \in Yo : z # y => /\ pc'[z] = pc[z] /\ made'[z] = made[z]
                                  /\ wants'[z] = wants[z] /\ todo'[z] = todo[z]
    BY <2>3 DEF Control
  <2>7. TodoInv' BY <1>2, <2>1, <2>6 DEF TodoInv, Steps
  <2>8. WantsInv'
    <3>1. pc'[y] \notin Keyed
      BY <2>4, <2>6 DEF Steps, DestroyPcs, Keyed, MakingDisk, MakingCidata
    <3> QED BY <3>1, <2>6, <2>3 DEF WantsInv
  <2>9. pc'[y] # "idle" => todo'[y] = todo[y] \ {pc[y]} BY <2>6 DEF rest
  <2> QED BY <2>4, <2>5, <2>6, <2>7, <2>8, <2>9
<1> QED BY <1>1, <1>2

\* A `yo up`, or a destroy that lists, goes where its action says.
LEMMA Going ==
  ASSUME Control, TodoInv, WantsInv, NEW y \in Yo,
         NEW there \in UpPcs \cup {"list"}, Goto(y, there),
         there \in Keyed => wants[y] \in Key
  PROVE  /\ Control' /\ TodoInv' /\ WantsInv'
         /\ pc'[y] = there
         /\ \A z \in Yo : z # y => pc'[z] = pc[z]
         /\ UNCHANGED <<made, wants, todo>>
<1>1. /\ pc' = [pc EXCEPT ![y] = there] /\ UNCHANGED <<made, wants, todo>>
      /\ pc'[y] = there
      /\ \A z \in Yo : z # y => pc'[z] = pc[z]
  BY DEF Control, Goto
<1>2. there \in {"idle"} \cup UpPcs \cup DestroyPcs BY DEF DestroyPcs
<1>3. Control' BY <1>1, <1>2 DEF Control
<1>4. TodoInv'
  <2>1. there \notin DestroyPcs \ {"list"} BY DEF UpPcs, DestroyPcs
  <2> QED BY <1>1, <2>1 DEF TodoInv
<1>5. WantsInv' BY <1>1 DEF WantsInv
<1> QED BY <1>1, <1>3, <1>4, <1>5

-----------------------------------------------------------------------------
(* Whatever the flags say.                                                 *)

\* No yo, no volume, no domain.
LEMMA InitStep == Init => StepInv
<1> SUFFICES ASSUME Init PROVE StepInv OBVIOUS
<1>1. TypeOK
  <2>1. pc \in [Yo -> {"idle"} \cup UpPcs \cup DestroyPcs] BY DEF Init
  <2>2. made \in [Yo -> BOOLEAN] BY DEF Init
  <2>3. grown \in BOOLEAN BY DEF Init
  <2> QED BY <2>1, <2>2, <2>3 DEF Init, TypeOK, DiskStates, CidataStates
<1>2. UploadInv /\ WantsInv /\ TodoInv /\ NotDestroyedUnlocking
  BY DEF Init, UploadInv, WantsInv, TodoInv, NotDestroyedUnlocking, Keyed,
         MakingDisk, MakingCidata, DestroyPcs
<1> QED BY <1>1, <1>2 DEF StepInv

\* How each action moves the yo that takes it, and what it writes down.
LEMMA Moves ==
  ASSUME StepInv, NEW y \in Yo,
         UpBegin(y) \/ Up(y) \/ DestroyBegin(y) \/ Destroy(y) \/ Killed(y)
  PROVE  /\ Control' /\ TodoInv' /\ WantsInv'
         /\ \A z \in Yo : z # y => /\ pc'[z] = pc[z] /\ made'[z] = made[z]
                                   /\ wants'[z] = wants[z] /\ todo'[z] = todo[z]
<1>0. Control /\ TodoInv /\ WantsInv
  BY DEF StepInv, TypeOK, Control
<1> DEFINE Moved ==
         /\ Control' /\ TodoInv' /\ WantsInv'
         /\ \A z \in Yo : z # y => /\ pc'[z] = pc[z] /\ made'[z] = made[z]
                                   /\ wants'[z] = wants[z] /\ todo'[z] = todo[z]
<1>L. Leave(y) => Moved BY <1>0, Leaving
<1>G. ASSUME NEW there \in UpPcs \cup {"list"}, Goto(y, there),
             there \in Keyed => wants[y] \in Key
      PROVE  Moved
  BY <1>0, <1>G, Going
<1>S. ASSUME pc[y] \in Steps, StepDone(y, pc[y]) PROVE Moved
  BY <1>0, <1>S, Stepping
<1>K. pc[y] \in Keyed => wants[y] \in Key BY <1>0 DEF WantsInv
<1> DEFINE Past == {"disk", "create disk", "upload disk", "disk uploading", "resize disk",
                    "cidata", "delete cidata", "create cidata", "upload cidata",
                    "cidata uploading", "unstage", "stage", "define", "start"}
<1>P. Past = Keyed /\ Past \subseteq UpPcs
  BY DEF Keyed, MakingDisk, MakingCidata, UpPcs
<1>T. "take lock" \in UpPcs \ Keyed /\ "unlock" \in UpPcs \ Keyed /\ "list" \notin Keyed
      /\ "look" \in UpPcs \ Keyed
  BY DEF Keyed, MakingDisk, MakingCidata, UpPcs
<1>Q. ASSUME pc[y] \in Past, NEW there \in Past, Goto(y, there) PROVE Moved
  BY <1>G, <1>K, <1>P, <1>Q
<1> SUFFICES Moved OBVIOUS
<1> HIDE DEF Moved
<1>1. CASE UpBegin(y)
  <2>1. /\ pc' = [pc EXCEPT ![y] = "look"] /\ UNCHANGED <<wants, todo>>
        /\ made' = [made EXCEPT ![y] = (dom = "none")]
    BY <1>1 DEF UpBegin
  <2>2. /\ pc'[y] = "look"
        /\ \A z \in Yo : z # y => pc'[z] = pc[z] /\ made'[z] = made[z]
    BY <2>1, <1>0 DEF Control
  <2>3. pc' \in [Yo -> {"idle"} \cup UpPcs \cup DestroyPcs] BY <2>1, <1>0, <1>T DEF Control
  <2>4. made' \in [Yo -> BOOLEAN] BY <2>1, <1>0 DEF Control
  <2>5. TodoInv' BY <2>1, <2>2, <1>0 DEF TodoInv, DestroyPcs
  <2>6. WantsInv' BY <2>1, <2>2, <1>0, <1>T DEF WantsInv
  <2> QED BY <2>1, <2>2, <2>3, <2>4, <2>5, <2>6, <1>0 DEF Moved, Control
<1>2. CASE Look(y)
  <2>1. CASE Leave(y) BY <2>1, <1>L
  <2>2. CASE ~Leave(y)
    <3> DEFINE there == IF dom = "none" THEN "disk" ELSE "cidata"
    <3>1. /\ pc' = [pc EXCEPT ![y] = there] /\ UNCHANGED todo
          /\ made' = [made EXCEPT ![y] = (dom = "none")]
          /\ wants' = [wants EXCEPT ![y] = key]
      BY <1>2, <2>2 DEF Look
    <3>2. there \in Past /\ there \notin DestroyPcs BY DEF DestroyPcs
    <3>3. key \in Key BY DEF StepInv, TypeOK
    <3> HIDE DEF there
    <3>4. /\ pc'[y] = there /\ wants'[y] = key
          /\ \A z \in Yo : z # y => pc'[z] = pc[z] /\ made'[z] = made[z] /\ wants'[z] = wants[z]
      BY <3>1, <1>0 DEF Control
    <3>5. pc' \in [Yo -> {"idle"} \cup UpPcs \cup DestroyPcs]
      BY <3>1, <3>2, <1>0, <1>P DEF Control
    <3>6. made' \in [Yo -> BOOLEAN] /\ wants' \in [Yo -> Key \cup {None}]
      BY <3>1, <3>3, <1>0 DEF Control
    <3>7. TodoInv' BY <3>1, <3>2, <3>4, <1>0 DEF TodoInv
    <3>8. WantsInv' BY <3>3, <3>4, <1>0 DEF WantsInv
    <3> QED BY <3>1, <3>4, <3>5, <3>6, <3>7, <3>8, <1>0 DEF Moved, Control
  <2> QED BY <2>1, <2>2
<1>3. CASE EnsureDiskVolume(y) \/ CreateDisk(y) \/ UploadDisk(y) \/ DiskUploaded(y) \/ ResizeDisk(y)
  <2>1. CASE EnsureDiskVolume(y) BY <2>1, <1>L, <1>Q DEF EnsureDiskVolume
  <2>2. CASE CreateDisk(y) BY <2>2, <1>L, <1>Q DEF CreateDisk
  <2>3. CASE UploadDisk(y) BY <2>3, <1>L, <1>Q DEF UploadDisk
  <2>4. CASE DiskUploaded(y) BY <2>4, <1>L, <1>Q DEF DiskUploaded
  <2>5. CASE ResizeDisk(y) BY <2>5, <1>L, <1>Q DEF ResizeDisk
  <2> QED BY <1>3, <2>1, <2>2, <2>3, <2>4, <2>5
<1>4. CASE SyncCidata(y)
  <2> DEFINE there == IF staged = wants[y] /\ cidata # "none" THEN "define"
                      ELSE IF cidata # "none" THEN "delete cidata" ELSE "create cidata"
  <2>1. pc[y] \in Past /\ there \in Past /\ Goto(y, there) BY <1>4 DEF SyncCidata
  <2> QED BY <2>1, <1>Q
<1>5. CASE DeleteCidata(y) \/ CreateCidata(y) \/ UploadCidata(y) \/ CidataUploaded(y)
  <2>1. CASE DeleteCidata(y) BY <2>1, <1>L, <1>Q DEF DeleteCidata
  <2>2. CASE CreateCidata(y) BY <2>2, <1>L, <1>Q DEF CreateCidata
  <2>3. CASE UploadCidata(y) BY <2>3, <1>L, <1>Q DEF UploadCidata
  <2>4. CASE CidataUploaded(y) BY <2>4, <1>L, <1>Q DEF CidataUploaded
  <2> QED BY <1>5, <2>1, <2>2, <2>3, <2>4
<1>6. CASE Unstage(y) \/ Stage(y) \/ Define(y)
  <2>1. CASE Unstage(y) BY <2>1, <1>L, <1>Q DEF Unstage
  <2>2. CASE Stage(y) BY <2>2, <1>L, <1>Q DEF Stage
  <2>3. CASE Define(y) BY <2>3, <1>L, <1>Q DEF Define
  <2> QED BY <1>6, <2>1, <2>2, <2>3
<1>7. CASE Start(y) \/ Unlock(y)
  BY <1>7, <1>L, <1>G, <1>T DEF Start, Unlock
<1>8. CASE DestroyBegin(y)
  BY <1>8, <1>G, <1>T DEF DestroyBegin
<1>9. CASE List(y)
  <2>1. PICK found \in SUBSET Steps :
          IF found = {} THEN Leave(y)
          ELSE /\ pc' = [pc EXCEPT ![y] = First(found)]
               /\ todo' = [todo EXCEPT ![y] = found]
               /\ UNCHANGED <<made, wants>>
    <3> DEFINE found == {step \in DestroyPcs :
                     \/ step = "power off" /\ dom \in {"running", "transient"}
                     \/ step \in {"force stop", "undefine"} /\ dom # "none"
                     \/ step = "delete disk" /\ disk # "none"
                     \/ step = "drop cidata" /\ cidata # "none"
                     \/ step = "remove dir" /\ staged # None}
    <3>1. IF found = {} THEN Leave(y)
          ELSE /\ pc' = [pc EXCEPT ![y] = First(found)]
               /\ todo' = [todo EXCEPT ![y] = found]
               /\ UNCHANGED <<made, wants>>
      BY <1>9 DEF List
    <3>2. found \in SUBSET Steps BY DEF Steps
    <3> HIDE DEF found
    <3> QED BY <3>1, <3>2
  <2>2. CASE found = {} BY <2>1, <2>2, <1>L
  <2>3. CASE found # {}
    <3>1. First(found) \in found BY <2>3, FirstOfList
    <3>2. /\ First(found) \in Steps /\ First(found) \in DestroyPcs /\ found \subseteq DestroyPcs
      BY <3>1 DEF Steps
    <3>3. /\ pc' = [pc EXCEPT ![y] = First(found)] /\ todo' = [todo EXCEPT ![y] = found]
          /\ UNCHANGED <<made, wants>>
      BY <2>1, <2>3
    <3>4. Control' BY <3>2, <3>3, <1>0 DEF Control
    <3>5. /\ pc'[y] = First(found) /\ todo'[y] = found
          /\ \A z \in Yo : z # y => /\ pc'[z] = pc[z] /\ todo'[z] = todo[z]
      BY <3>3, <1>0 DEF Control
    <3>6. TodoInv' BY <2>3, <3>5, <1>0 DEF TodoInv, Steps
    <3>7. First(found) \notin Keyed
      BY <3>2 DEF Steps, DestroyPcs, Keyed, MakingDisk, MakingCidata
    <3>8. WantsInv' BY <3>3, <3>5, <3>7, <1>0 DEF WantsInv
    <3> QED BY <3>3, <3>4, <3>5, <3>6, <3>8 DEF Moved
  <2> QED BY <2>2, <2>3
<1>10. CASE PowerOff(y) \/ Undefine(y) \/ DeleteVolumes(y) \/ RemoveDir(y)
  <2>1. CASE PowerOff(y) BY <2>1, <1>L, <1>S DEF PowerOff, Steps, DestroyPcs
  <2>2. CASE Undefine(y) BY <2>2, <1>L, <1>S DEF Undefine, Steps, DestroyPcs
  <2>3. CASE DeleteVolumes(y) BY <2>3, <1>L, <1>S DEF DeleteVolumes, Steps, DestroyPcs
  <2>4. CASE RemoveDir(y) BY <2>4, <1>L, <1>S DEF RemoveDir, Steps, DestroyPcs
  <2> QED BY <1>10, <2>1, <2>2, <2>3, <2>4
<1>11. CASE Killed(y) BY <1>11, <1>L DEF Killed
<1> QED
  BY <1>1, <1>2, <1>3, <1>4, <1>5, <1>6, <1>7, <1>8, <1>9, <1>10, <1>11 DEF Up, Destroy

\* A destroy works down the list it has made; a domain it finds is on it twice.
LEMMA DestroyMoves ==
  ASSUME StepInv, NEW y \in Yo, Destroy(y)
  PROVE  /\ pc[y] \in DestroyPcs /\ pc'[y] \in Steps \cup {"idle"}
         /\ pc[y] # "list" /\ pc'[y] # "idle" => todo'[y] = todo[y] \ {pc[y]}
         /\ pc[y] = "list" /\ pc'[y] # "idle" /\ dom # "none" =>
              "undefine" \in todo'[y] /\ "force stop" \in todo'[y]
<1>0. Control /\ TodoInv /\ WantsInv
  BY DEF StepInv, TypeOK, Control
<1>1. CASE List(y)
  <2>1. pc[y] = "list" /\ pc[y] \in DestroyPcs BY <1>1 DEF List, DestroyPcs
  <2>2. CASE Leave(y)
    <3>1. pc'[y] = "idle" BY <2>2, <1>0, Leaving
    <3> QED BY <2>1, <3>1
  <2>3. CASE ~Leave(y)
    <3> DEFINE found == {step \in DestroyPcs :
                     \/ step = "power off" /\ dom \in {"running", "transient"}
                     \/ step \in {"force stop", "undefine"} /\ dom # "none"
                     \/ step = "delete disk" /\ disk # "none"
                     \/ step = "drop cidata" /\ cidata # "none"
                     \/ step = "remove dir" /\ staged # None}
    <3>1. /\ found # {} /\ pc' = [pc EXCEPT ![y] = First(found)]
          /\ todo' = [todo EXCEPT ![y] = found]
      BY <1>1, <2>3 DEF List
    <3>2. found \in SUBSET Steps BY DEF Steps
    <3>3. dom # "none" => "undefine" \in found /\ "force stop" \in found BY DEF DestroyPcs
    <3> HIDE DEF found
    <3>4. First(found) \in found BY <3>1, <3>2, FirstOfList
    <3>5. pc'[y] = First(found) /\ todo'[y] = found BY <3>1, <1>0 DEF Control
    <3> QED BY <2>1, <3>2, <3>3, <3>4, <3>5
  <2> QED BY <2>2, <2>3
<1>2. CASE PowerOff(y) \/ Undefine(y) \/ DeleteVolumes(y) \/ RemoveDir(y)
  <2>1. pc[y] \in Steps /\ pc[y] \in DestroyPcs /\ pc[y] # "list"
    BY <1>2 DEF PowerOff, Undefine, DeleteVolumes, RemoveDir, Steps, DestroyPcs
  <2>2. Leave(y) \/ StepDone(y, pc[y])
    BY <1>2 DEF PowerOff, Undefine, DeleteVolumes, RemoveDir
  <2>3. CASE Leave(y)
    <3>1. pc'[y] = "idle" BY <2>3, <1>0, Leaving
    <3> QED BY <2>1, <3>1
  <2>4. CASE StepDone(y, pc[y])
    <3>1. pc'[y] \in Steps \cup {"idle"} /\ (pc'[y] # "idle" => todo'[y] = todo[y] \ {pc[y]})
      BY <2>1, <2>4, <1>0, Stepping
    <3> QED BY <2>1, <3>1
  <2> QED BY <2>2, <2>3, <2>4
<1> QED BY <1>1, <1>2 DEF Destroy

\* A `yo up` comes to no step of a destroy, and takes the lock only when it is free.
LEMMA UpMoves ==
  ASSUME StepInv, NEW y \in Yo, UpBegin(y) \/ Up(y) \/ Killed(y)
  PROVE  pc'[y] \notin DestroyPcs /\ (pc'[y] = "unlock" => LockFree)
<1>0. Control BY DEF StepInv, TypeOK, Control
<1>L. Leave(y) => pc'[y] = "idle" BY <1>0 DEF Leave, Control
<1>G. \A there : Goto(y, there) => pc'[y] = there BY <1>0 DEF Goto, Control
<1>D. \A there \in Keyed \cup {"idle", "look", "take lock"} : there \notin DestroyPcs /\ there # "unlock"
  BY DEF Keyed, MakingDisk, MakingCidata, DestroyPcs
<1>1. CASE UpBegin(y) \/ Look(y) \/ Killed(y)
  BY <1>1, <1>L, <1>0, <1>D DEF UpBegin, Look, Killed, Control, Keyed
<1>2. CASE EnsureDiskVolume(y) \/ CreateDisk(y) \/ UploadDisk(y) \/ DiskUploaded(y) \/ ResizeDisk(y)
  BY <1>2, <1>L, <1>G, <1>D
     DEF EnsureDiskVolume, CreateDisk, UploadDisk, DiskUploaded, ResizeDisk, Keyed, MakingDisk
<1>3. CASE SyncCidata(y) \/ DeleteCidata(y) \/ CreateCidata(y) \/ UploadCidata(y)
  BY <1>3, <1>L, <1>G, <1>D
     DEF SyncCidata, DeleteCidata, CreateCidata, UploadCidata, Keyed, MakingCidata
<1>4. CASE CidataUploaded(y) \/ Unstage(y) \/ Stage(y) \/ Define(y) \/ Start(y)
  BY <1>4, <1>L, <1>G, <1>D
     DEF CidataUploaded, Unstage, Stage, Define, Start, Keyed, MakingCidata
<1>5. CASE Unlock(y)
  BY <1>5, <1>L, <1>G, <1>D DEF Unlock, DestroyPcs
<1> QED BY <1>1, <1>2, <1>3, <1>4, <1>5 DEF Up

\* The unlock lock keeps the sending of a passphrase and a destroy apart.
LEMMA LockStep ==
  ASSUME StepInv, [Next]_vars
  PROVE  NotDestroyedUnlocking'
<1>0. NotDestroyedUnlocking BY DEF StepInv
<1>1. ASSUME NEW y \in Yo, UpBegin(y) \/ Up(y) \/ Killed(y) PROVE NotDestroyedUnlocking'
  <2>1. pc'[y] \notin DestroyPcs /\ (pc'[y] = "unlock" => LockFree) BY <1>1, UpMoves
  <2>2. \A z \in Yo : z # y => pc'[z] = pc[z] BY <1>1, Moves
  <2> QED BY <1>0, <2>1, <2>2 DEF NotDestroyedUnlocking, LockFree
<1>2. ASSUME NEW y \in Yo, DestroyBegin(y) PROVE NotDestroyedUnlocking'
  <2>1. LockFree /\ pc'[y] = "list"
    BY <1>2 DEF DestroyBegin, Goto, StepInv, TypeOK
  <2>2. \A z \in Yo : z # y => pc'[z] = pc[z] BY <1>2, Moves
  <2> QED BY <1>0, <2>1, <2>2 DEF NotDestroyedUnlocking, LockFree
<1>3. ASSUME NEW y \in Yo, Destroy(y) PROVE NotDestroyedUnlocking'
  <2>1. pc[y] \in DestroyPcs /\ pc'[y] # "unlock"
    BY <1>3, DestroyMoves DEF Steps, DestroyPcs
  <2>2. \A z \in Yo : z # y => pc'[z] = pc[z] BY <1>3, Moves
  <2> QED BY <1>0, <2>1, <2>2 DEF NotDestroyedUnlocking
<1>4. CASE BoxStops \/ KeyChanges \/ UNCHANGED vars
  <2>1. UNCHANGED pc BY <1>4 DEF BoxStops, KeyChanges, vars, yos
  <2> QED BY <1>0, <2>1 DEF NotDestroyedUnlocking
<1> QED BY <1>1, <1>2, <1>3, <1>4 DEF Next

\* The pieces keep their types, and nothing but its own yo disturbs an upload.
LEMMA PiecesStep ==
  ASSUME StepInv, [Next]_vars
  PROVE  TypeOK' /\ UploadInv'
<1>0. TypeOK /\ UploadInv /\ WantsInv BY DEF StepInv
<1> DEFINE Types ==
      /\ dom \in {"none", "off", "running", "transient"}
      /\ disk \in DiskStates /\ cidata \in CidataStates
      /\ staged \in Key \cup {None} /\ key \in Key
    Size == grown \in BOOLEAN /\ (disk \notin {"whole", "partial"} => ~grown)
<1>00. Types /\ Size /\ Control BY <1>0 DEF TypeOK, Control
<1>T. Types' /\ Size' /\ Control' => TypeOK' BY DEF TypeOK, Control
<1> SUFFICES Control' /\ Types' /\ Size' /\ UploadInv' BY <1>T
<1>1. ASSUME NEW y \in Yo, UpBegin(y) \/ Up(y) \/ DestroyBegin(y) \/ Destroy(y) \/ Killed(y)
      PROVE  Types'
  <2>0. Types BY <1>00
  <2> USE <2>0 DEF DiskStates, CidataStates
  <2>W. pc[y] \in {"cidata uploading", "stage"} => wants[y] \in Key
    BY <1>0 DEF WantsInv, Keyed, MakingCidata
  <2>S. UNCHANGED <<pieces, key>> => Types' BY DEF pieces
  <2>1. CASE UpBegin(y) \/ Look(y) \/ DestroyBegin(y) \/ List(y) \/ SyncCidata(y) \/ Unlock(y)
    BY <2>1, <2>S DEF UpBegin, Look, DestroyBegin, List, SyncCidata, Unlock
  <2>2. CASE EnsureDiskVolume(y) BY <2>2 DEF EnsureDiskVolume, pieces
  <2>3. CASE CreateDisk(y) BY <2>3 DEF CreateDisk, pieces
  <2>4. CASE UploadDisk(y) BY <2>4 DEF UploadDisk, DeleteDisk
  <2>5. CASE DiskUploaded(y) BY <2>5 DEF DiskUploaded
  <2>6. CASE ResizeDisk(y) BY <2>6 DEF ResizeDisk, pieces
  <2>7. CASE DeleteCidata(y) \/ CreateCidata(y)
    BY <2>7 DEF DeleteCidata, CreateCidata, pieces
  <2>8. CASE UploadCidata(y) BY <2>8 DEF UploadCidata, DeleteCidataAgain
  <2>9. CASE CidataUploaded(y) BY <2>9, <2>W DEF CidataUploaded
  <2>10. CASE Unstage(y) \/ Stage(y) BY <2>10, <2>W DEF Unstage, Stage
  <2>11. CASE Define(y) \/ Start(y) BY <2>11 DEF Define, Start
  <2>12. CASE PowerOff(y) \/ Undefine(y) BY <2>12 DEF PowerOff, Undefine
  <2>13. CASE DeleteVolumes(y) \/ RemoveDir(y) BY <2>13 DEF DeleteVolumes, RemoveDir
  <2>14. CASE Killed(y) BY <2>14 DEF Killed
  <2> QED
    BY <1>1, <2>1, <2>2, <2>3, <2>4, <2>5, <2>6, <2>7, <2>8, <2>9, <2>10, <2>11, <2>12,
       <2>13, <2>14 DEF Up, Destroy
<1>S. ASSUME NEW y \in Yo, UpBegin(y) \/ Up(y) \/ DestroyBegin(y) \/ Destroy(y) \/ Killed(y)
      PROVE  Size'
  <2>K. ASSUME \/ UNCHANGED <<disk, grown>>
               \/ grown' = FALSE
               \/ grown' = TRUE /\ disk' \in {"whole", "partial"}
               \/ UNCHANGED grown /\ disk' \in {"whole", "partial"}
               \/ UNCHANGED grown /\ disk \notin {"whole", "partial"}
        PROVE  Size'
    <3>1. CASE UNCHANGED <<disk, grown>> BY <1>00, <3>1
    <3>2. CASE grown' = FALSE BY <3>2
    <3>3. CASE grown' = TRUE /\ disk' \in {"whole", "partial"} BY <3>3
    <3>4. CASE UNCHANGED grown /\ disk' \in {"whole", "partial"} BY <1>00, <3>4, Zenon
    <3>5. CASE UNCHANGED grown /\ disk \notin {"whole", "partial"} BY <1>00, <3>5, Zenon
    <3> QED BY <2>K, <3>1, <3>2, <3>3, <3>4, <3>5
  <2>U. pc[y] = "disk uploading" => disk \notin {"whole", "partial"} BY <1>0 DEF UploadInv
  <2> HIDE DEF Size
  <2>1. CASE UpBegin(y) \/ Look(y) \/ DestroyBegin(y) \/ List(y) \/ SyncCidata(y) \/ Unlock(y)
    BY <2>1, <2>K DEF UpBegin, Look, DestroyBegin, List, SyncCidata, Unlock, pieces
  <2>2. CASE EnsureDiskVolume(y)
    <3>1. UNCHANGED <<disk, grown>> \/ (UNCHANGED grown /\ ~Finished)
      BY <2>2 DEF EnsureDiskVolume, pieces
    <3>2. grown \in BOOLEAN BY <1>00 DEF Size
    <3>3. UNCHANGED <<disk, grown>> \/ grown' = FALSE
      BY <3>1, <3>2, Zenon DEF Finished
    <3> QED BY <2>K, <3>3
  <2>3. CASE CreateDisk(y) BY <2>3, <2>K DEF CreateDisk, pieces
  <2>4. CASE UploadDisk(y) BY <2>4, <2>K DEF UploadDisk, DeleteDisk
  <2>5. CASE DiskUploaded(y) BY <2>5, <2>K, <2>U DEF DiskUploaded
  <2>6. CASE ResizeDisk(y) BY <2>6, <2>K DEF ResizeDisk, pieces
  <2>7. CASE DeleteCidata(y) \/ CreateCidata(y) \/ UploadCidata(y) \/ CidataUploaded(y)
    BY <2>7, <2>K DEF DeleteCidata, CreateCidata, UploadCidata, CidataUploaded, pieces
  <2>8. CASE Unstage(y) \/ Stage(y) \/ Define(y) \/ Start(y)
    BY <2>8, <2>K DEF Unstage, Stage, Define, Start
  <2>9. CASE PowerOff(y) \/ Undefine(y) \/ RemoveDir(y)
    BY <2>9, <2>K DEF PowerOff, Undefine, RemoveDir
  <2>10. CASE DeleteVolumes(y) BY <2>10, <2>K DEF DeleteVolumes
  <2>11. CASE Killed(y) BY <2>11, <2>K, <2>U DEF Killed
  <2> QED
    BY <1>S, <2>1, <2>2, <2>3, <2>4, <2>5, <2>6, <2>7, <2>8, <2>9, <2>10, <2>11 DEF Up, Destroy
<1>U. ASSUME NEW y \in Yo, UpBegin(y) \/ Up(y) \/ DestroyBegin(y) \/ Destroy(y) \/ Killed(y)
      PROVE  UploadInv'
  <2>0. \A z \in Yo : z # y => pc'[z] = pc[z] BY <1>U, Moves
  <2>L. Leave(y) => pc'[y] = "idle" BY <1>00 DEF Leave, Control
  <2>G. \A there : Goto(y, there) => pc'[y] = there BY <1>00 DEF Goto, Control
  <2>S. pc'[y] # "disk uploading" /\ (disk = "uploading" => disk' = "uploading") => UploadInv'
    BY <1>0, <2>0 DEF UploadInv
  <2>1. CASE UploadDisk(y)
    <3>1. CASE pc'[y] = "disk uploading"
      <4>1. disk # "uploading" /\ disk' = "uploading"
        BY <2>1, <2>L, <3>1 DEF UploadDisk
      <4> QED BY <1>0, <2>0, <4>1 DEF UploadInv
    <3>2. CASE pc'[y] # "disk uploading"
      BY <2>1, <2>S, <2>G, <3>2 DEF UploadDisk, DeleteDisk
    <3> QED BY <3>1, <3>2
  <2>2. CASE DiskUploaded(y)
    <3>1. pc[y] = "disk uploading" /\ pc'[y] # "disk uploading"
      BY <2>2, <2>L, <2>G DEF DiskUploaded
    <3> QED BY <1>0, <2>0, <3>1 DEF UploadInv
  <2>3. CASE Killed(y)
    <3>1. pc'[y] = "idle" BY <2>3, <2>L DEF Killed
    <3>2. pc[y] # "disk uploading" => disk' = disk BY <2>3 DEF Killed
    <3> QED BY <1>0, <2>0, <3>1, <3>2 DEF UploadInv
  <2>4. CASE UpBegin(y) \/ Look(y) \/ SyncCidata(y)
    BY <2>4, <2>S, <2>L, <2>G, <1>00 DEF UpBegin, Look, SyncCidata, Control, pieces
  <2>5. CASE EnsureDiskVolume(y) \/ CreateDisk(y) \/ ResizeDisk(y)
    BY <2>5, <2>S, <2>L, <2>G DEF EnsureDiskVolume, CreateDisk, ResizeDisk, pieces
  <2>6. CASE DeleteCidata(y) \/ CreateCidata(y) \/ UploadCidata(y)
    BY <2>6, <2>S, <2>L, <2>G DEF DeleteCidata, CreateCidata, UploadCidata, pieces
  <2>7. CASE CidataUploaded(y) \/ Unstage(y) \/ Stage(y)
    BY <2>7, <2>S, <2>L, <2>G DEF CidataUploaded, Unstage, Stage
  <2>8. CASE Define(y) \/ Start(y) \/ Unlock(y) \/ DestroyBegin(y)
    BY <2>8, <2>S, <2>L, <2>G DEF Define, Start, Unlock, DestroyBegin, pieces
  <2>9. CASE Destroy(y)
    <3>1. pc'[y] # "disk uploading" BY <2>9, DestroyMoves DEF Steps, DestroyPcs
    <3>2. disk = "uploading" => disk' = "uploading"
      BY <2>9 DEF Destroy, List, PowerOff, Undefine, DeleteVolumes, RemoveDir, pieces
    <3> QED BY <2>S, <3>1, <3>2
  <2> QED BY <1>U, <2>1, <2>2, <2>3, <2>4, <2>5, <2>6, <2>7, <2>8, <2>9 DEF Up
<1>2. ASSUME NEW y \in Yo, UpBegin(y) \/ Up(y) \/ DestroyBegin(y) \/ Destroy(y) \/ Killed(y)
      PROVE  Control'
  BY <1>2, Moves
<1>3. CASE BoxStops \/ KeyChanges \/ UNCHANGED vars
  <2>1. Control' BY <1>00, <1>3 DEF BoxStops, KeyChanges, vars, yos, Control
  <2>2. Types' BY <1>00, <1>3 DEF BoxStops, KeyChanges, vars, pieces
  <2>4. Size'
    <3>1. UNCHANGED <<disk, grown>> BY <1>3 DEF BoxStops, KeyChanges, vars, pieces
    <3> QED BY <1>00, <3>1
  <2>3. UploadInv' BY <1>0, <1>3 DEF BoxStops, KeyChanges, vars, pieces, yos, UploadInv
  <2> QED BY <2>1, <2>2, <2>3, <2>4
<1> QED BY <1>1, <1>S, <1>U, <1>2, <1>3 DEF Next

\* StepInv holds in every state, however the yos overlap.
THEOREM StepInductive == Spec => []StepInv
<1>1. StepInv /\ [Next]_vars => StepInv'
  <2> SUFFICES ASSUME StepInv, [Next]_vars PROVE StepInv' OBVIOUS
  <2>1. TodoInv' /\ WantsInv'
    <3>1. CASE BoxStops \/ KeyChanges \/ UNCHANGED vars
      BY <3>1 DEF BoxStops, KeyChanges, vars, yos, StepInv, TodoInv, WantsInv
    <3>2. ASSUME NEW y \in Yo, UpBegin(y) \/ Up(y) \/ DestroyBegin(y) \/ Destroy(y) \/ Killed(y)
          PROVE  TodoInv' /\ WantsInv'
      BY <3>2, Moves
    <3> QED BY <3>1, <3>2 DEF Next
  <2> QED BY <2>1, PiecesStep, LockStep DEF StepInv
<1> QED BY <1>1, InitStep, PTL DEF Spec

\* The variables stay in their types.
THEOREM TypeCorrect == Spec => []TypeOK
<1>1. StepInv => TypeOK BY DEF StepInv
<1> QED BY <1>1, StepInductive, PTL

\* No box is destroyed while its passphrase is sent (unlock_disk, destruction_steps).
THEOREM LockSpansBoth == Spec => []NotDestroyedUnlocking
<1>1. StepInv => NotDestroyedUnlocking BY DEF StepInv
<1> QED BY <1>1, StepInductive, PTL

-----------------------------------------------------------------------------
(* Where no yo begins among another's pieces.                              *)

\* A step of a yo that works on the pieces.
Works(y) ==
  UpBegin(y) \/ (Up(y) /\ ~Unlock(y)) \/ DestroyBegin(y) \/ Destroy(y)
    \/ (Killed(y) /\ pc[y] \notin Quiet)

\* A step of a yo that only waits for the lock or holds it.
Waits(y) == Unlock(y) \/ (Killed(y) /\ pc[y] \in Quiet)

\* A yo that works is the only one.
LEMMA WorksAlone ==
  ASSUME StepInv, AloneInv, ~Overlapping, NEW y \in Yo, Works(y), NEW z \in Yo, z # y
  PROVE  pc[z] \in Quiet /\ pc'[z] \in Quiet
<1>1. pc'[z] = pc[z] BY Moves DEF Works
<1>2. CASE UpBegin(y) \/ DestroyBegin(y)
  BY <1>1, <1>2 DEF UpBegin, DestroyBegin, MayBegin, Quiet
<1>3. CASE Up(y) /\ ~Unlock(y)
  <2>1. pc[y] \notin Quiet
    <3>1. CASE Look(y) \/ EnsureDiskVolume(y) \/ CreateDisk(y) \/ UploadDisk(y)
               \/ DiskUploaded(y) \/ ResizeDisk(y) \/ SyncCidata(y)
      BY <3>1 DEF Look, EnsureDiskVolume, CreateDisk, UploadDisk, DiskUploaded, ResizeDisk,
                  SyncCidata, Quiet
    <3>2. CASE DeleteCidata(y) \/ CreateCidata(y) \/ UploadCidata(y) \/ CidataUploaded(y)
               \/ Unstage(y) \/ Stage(y) \/ Define(y) \/ Start(y)
      BY <3>2 DEF DeleteCidata, CreateCidata, UploadCidata, CidataUploaded, Unstage, Stage,
                  Define, Start, Quiet
    <3> QED BY <1>3, <3>1, <3>2 DEF Up
  <2> QED BY <1>1, <2>1 DEF AloneInv
<1>4. CASE Destroy(y)
  <2>1. pc[y] \notin Quiet BY <1>4, DestroyMoves DEF DestroyPcs, Quiet
  <2> QED BY <1>1, <2>1 DEF AloneInv
<1>5. CASE Killed(y) /\ pc[y] \notin Quiet BY <1>1, <1>5 DEF AloneInv
<1> QED BY <1>2, <1>3, <1>4, <1>5 DEF Works

\* A yo that waits changes nothing, and is waiting or over.
LEMMA WaitsQuietly ==
  ASSUME StepInv, NEW y \in Yo, Waits(y)
  PROVE  /\ UNCHANGED pieces
         /\ pc'[y] \in Quiet
         /\ \A z \in Yo : z # y => /\ pc'[z] = pc[z] /\ made'[z] = made[z]
                                   /\ wants'[z] = wants[z] /\ todo'[z] = todo[z]
<1>0. Control BY DEF StepInv, TypeOK, Control
<1>1. pc'[y] \in Quiet
  BY <1>0 DEF Waits, Unlock, Killed, Leave, Goto, Control, Quiet
<1>2. UNCHANGED pieces
  BY DEF Waits, Unlock, Killed, Quiet, pieces
<1>3. Up(y) \/ Killed(y) BY DEF Waits, Up
<1> QED BY <1>1, <1>2, <1>3, Moves

\* Every step is of one of these kinds.
LEMMA Kinds ==
  ASSUME [Next]_vars
  PROVE  \/ \E y \in Yo : Works(y)
         \/ \E y \in Yo : Waits(y)
         \/ BoxStops
         \/ UNCHANGED <<pieces, pc, made, wants, todo>>
BY DEF Next, Works, Waits, Up, KeyChanges, vars, yos

\* Two yos never work at once.
LEMMA AloneStep ==
  ASSUME StepInv, AloneInv, ~Overlapping, [Next]_vars
  PROVE  AloneInv'
<1>1. ASSUME NEW y \in Yo, Works(y) PROVE AloneInv'
  <2>1. \A z \in Yo : z # y => pc'[z] \in Quiet BY <1>1, WorksAlone
  <2> QED BY <2>1 DEF AloneInv, Quiet
<1>2. ASSUME NEW y \in Yo, Waits(y) PROVE AloneInv'
  BY <1>2, WaitsQuietly DEF AloneInv, Quiet
<1>3. CASE BoxStops \/ UNCHANGED <<pieces, pc, made, wants, todo>>
  BY <1>3 DEF BoxStops, yos, AloneInv, Quiet
<1> QED BY <1>1, <1>2, <1>3, Kinds

\* What DiskInv and NamesAreFree say of one yo, DestroyInv too, and what holds of the disk.
DiskOf(y) ==
  /\ pc[y] \in {"disk"} \cup MakingDisk => made[y] = TRUE
  /\ pc[y] \in MakingDisk => grown = FALSE
  /\ pc[y] = "create disk" => disk = "none"
  /\ pc[y] = "resize disk" => disk = "whole"
  /\ made[y] = TRUE /\ pc[y] \in Keyed \ {"start"} => dom = "none"
  /\ made[y] = TRUE /\ pc[y] \in {"cidata", "define"} \cup MakingCidata =>
       disk = "whole" /\ grown = TRUE
  /\ pc[y] = "create cidata" => cidata = "none"

DestroyOf(y) ==
  pc[y] \in Steps =>
    /\ dom # "none" => "undefine" \in todo[y]
    /\ dom \in {"running", "transient"} => "force stop" \in todo[y]

DiskWhole ==
  /\ disk = "whole" \/ grown = FALSE
  /\ dom # "none" => disk = "whole" /\ grown = TRUE

\* The parts of BoxInv, said of one yo at a time.
LEMMA Parts ==
  ASSUME StepInv
  PROVE  /\ FinishedIsWhole /\ DomainHasDisk <=> DiskWhole
         /\ NamesAreFree /\ DiskInv <=> \A y \in Yo : DiskOf(y)
         /\ DestroyInv <=> \A y \in Yo : DestroyOf(y)
<1>1. grown \in BOOLEAN /\ \A y \in Yo : made[y] \in BOOLEAN
  BY DEF StepInv, TypeOK
<1>2. FinishedIsWhole /\ DomainHasDisk <=> DiskWhole
  BY <1>1, Zenon DEF FinishedIsWhole, DomainHasDisk, DiskWhole
<1>3. NamesAreFree /\ DiskInv <=> \A y \in Yo : DiskOf(y)
  <2>1. ASSUME NamesAreFree, DiskInv, NEW y \in Yo PROVE DiskOf(y)
    BY <1>1, <2>1, Zenon DEF NamesAreFree, DiskInv, DiskOf
  <2>2. ASSUME \A y \in Yo : DiskOf(y) PROVE NamesAreFree /\ DiskInv
    <3>1. NamesAreFree
      <4> SUFFICES ASSUME NEW y \in Yo
                   PROVE  /\ pc[y] = "create disk" => disk = "none"
                          /\ pc[y] = "create cidata" => cidata = "none"
        BY DEF NamesAreFree
      <4> QED BY <2>2, Zenon DEF DiskOf
    <3>2. DiskInv BY <1>1, <2>2, Zenon DEF DiskInv, DiskOf
    <3> QED BY <3>1, <3>2
  <2> QED BY <2>1, <2>2
<1>4. DestroyInv <=> \A y \in Yo : DestroyOf(y)
  BY DEF DestroyInv, DestroyOf, Steps
<1> QED BY <1>2, <1>3, <1>4

\* A yo that is quiet, or out of both pipelines, has nothing to keep.
LEMMA Aside ==
  ASSUME NEW y \in Yo, pc[y] \in Quiet \cup {"look"} \cup DestroyPcs
  PROVE  DiskOf(y)
BY DEF DiskOf, Quiet, DestroyPcs, Keyed, MakingDisk, MakingCidata

LEMMA AsideAfter ==
  ASSUME NEW y \in Yo, pc'[y] \in Quiet \cup {"look"} \cup DestroyPcs
  PROVE  DiskOf(y)'
BY DEF DiskOf, Quiet, DestroyPcs, Keyed, MakingDisk, MakingCidata

\* A yo up, at its own step, keeps what DiskOf says of it and of the disk.
LEMMA UpDisk ==
  ASSUME StepInv, DiskWhole, NEW y \in Yo, DiskOf(y),
         UpBegin(y) \/ (Up(y) /\ ~Unlock(y)) \/ Killed(y)
  PROVE  DiskOf(y)' /\ DiskWhole'
<1>0. Control BY DEF StepInv, TypeOK, Control
<1>L. Leave(y) => DiskOf(y)'
  <2>1. Leave(y) => pc'[y] \in Quiet BY <1>0 DEF Leave, Control, Quiet
  <2> QED BY <2>1, AsideAfter
<1>G. \A there : Goto(y, there) => pc'[y] = there
  BY <1>0 DEF Goto, Control
<1>M. \A there : Goto(y, there) => made'[y] = made[y]
  BY DEF Goto
<1>W. UNCHANGED <<dom, disk, grown>> => DiskWhole' BY DEF DiskWhole
<1>C. ASSUME UNCHANGED <<dom, disk, grown>>, made'[y] = made[y],
             pc[y] \in {"cidata", "define"} \cup MakingCidata,
             pc'[y] \in {"define"} \cup MakingCidata,
             pc'[y] = "create cidata" => cidata' = "none"
      PROVE  DiskOf(y)'
  BY <1>C DEF DiskOf, Keyed, MakingDisk, MakingCidata
<1>1. CASE UpBegin(y)
  <2>1. pc'[y] = "look" /\ UNCHANGED <<dom, disk, grown>>
    BY <1>0, <1>1 DEF UpBegin, Control, pieces
  <2> QED BY <1>W, <2>1, AsideAfter
<1>2. CASE Look(y)
  <2>0. UNCHANGED <<dom, disk, grown>> BY <1>2 DEF Look, pieces
  <2>1. CASE Leave(y) BY <1>L, <1>W, <2>0, <2>1
  <2>2. CASE ~Leave(y) /\ dom = "none"
    <3>1. pc'[y] = "disk" BY <1>0, <1>2, <2>2 DEF Look, Control
    <3>2. made'[y] = TRUE BY <1>0, <1>2, <2>2 DEF Look, Control
    <3> QED BY <1>W, <2>0, <2>2, <3>1, <3>2 DEF DiskOf, Keyed, MakingDisk, MakingCidata
  <2>3. CASE ~Leave(y) /\ dom # "none"
    <3>1. pc'[y] = "cidata" BY <1>0, <1>2, <2>3 DEF Look, Control
    <3>2. made'[y] = FALSE BY <1>0, <1>2, <2>3 DEF Look, Control
    <3> QED BY <1>W, <2>0, <3>1, <3>2 DEF DiskOf, Keyed, MakingDisk, MakingCidata
  <2> QED BY <2>1, <2>2, <2>3
<1>3. CASE EnsureDiskVolume(y)
  <2>1. made[y] = TRUE /\ dom = "none" BY <1>3 DEF EnsureDiskVolume, DiskOf, Keyed
  <2>2. grown \in BOOLEAN BY DEF StepInv, TypeOK
  <2>3. (Finished => grown = TRUE) /\ (~Finished => grown = FALSE) BY <2>2, Zenon DEF Finished
  <2>4. UNCHANGED <<dom, grown>> BY <1>3 DEF EnsureDiskVolume, pieces
  <2>5. CASE Leave(y) /\ UNCHANGED pieces BY <1>L, <1>W, <2>5 DEF pieces
  <2>6. CASE Goto(y, "cidata") /\ Finished /\ UNCHANGED pieces
    <3>1. UNCHANGED <<dom, disk, grown>> /\ disk = "whole" /\ grown = TRUE
      BY <2>3, <2>6 DEF DiskWhole, pieces
    <3>2. pc'[y] = "cidata" /\ made'[y] = TRUE BY <1>G, <1>M, <2>1, <2>6
    <3> QED BY <1>W, <2>1, <3>1, <3>2 DEF DiskOf, MakingDisk
  <2>7. CASE Goto(y, "create disk") /\ disk' = "none"
    <3>1. grown = FALSE
      BY <1>3, <1>G, <2>3, <2>7 DEF EnsureDiskVolume, DiskWhole, pieces
    <3>2. pc'[y] = "create disk" /\ made'[y] = TRUE BY <1>G, <1>M, <2>1, <2>7
    <3> QED BY <2>1, <2>4, <2>7, <3>1, <3>2 DEF DiskOf, DiskWhole, MakingCidata
  <2> QED BY <1>3, <2>5, <2>6, <2>7 DEF EnsureDiskVolume, pieces
<1>4. CASE CreateDisk(y) \/ UploadDisk(y) \/ DiskUploaded(y)
  <2>1. made[y] = TRUE /\ dom = "none" /\ grown = FALSE
    BY <1>4 DEF CreateDisk, UploadDisk, DiskUploaded, DiskOf, MakingDisk, Keyed
  <2>2. UNCHANGED dom /\ grown' = FALSE
    BY <1>4, <2>1 DEF CreateDisk, UploadDisk, DiskUploaded, DeleteDisk, pieces
  <2>3. Leave(y) \/ (/\ pc'[y] \in {"upload disk", "disk uploading", "resize disk"}
                     /\ pc'[y] = "resize disk" => disk' = "whole")
    BY <1>4, <1>G DEF CreateDisk, UploadDisk, DiskUploaded
  <2>4. Leave(y) \/ made'[y] = made[y]
    BY <1>4, <1>M DEF CreateDisk, UploadDisk, DiskUploaded
  <2>5. DiskWhole' BY <2>1, <2>2 DEF DiskWhole
  <2>6. ~Leave(y) => DiskOf(y)' BY <2>1, <2>2, <2>3, <2>4 DEF DiskOf, MakingCidata
  <2> QED BY <1>L, <2>5, <2>6
<1>5. CASE ResizeDisk(y)
  <2>1. made[y] = TRUE /\ dom = "none" /\ disk = "whole"
    BY <1>5 DEF ResizeDisk, DiskOf, MakingDisk, Keyed
  <2>2. CASE Leave(y) /\ UNCHANGED pieces BY <1>L, <1>W, <2>2 DEF pieces
  <2>3. CASE Goto(y, "cidata") /\ grown' = TRUE /\ UNCHANGED <<dom, disk, cidata, staged>>
    <3>1. pc'[y] = "cidata" BY <1>G, <2>3
    <3>2. made'[y] = TRUE BY <1>M, <2>1, <2>3
    <3> QED BY <2>1, <2>3, <3>1, <3>2 DEF DiskOf, DiskWhole, MakingDisk, MakingCidata
  <2> QED BY <1>5, <2>2, <2>3 DEF ResizeDisk
<1>6. CASE \/ SyncCidata(y) \/ DeleteCidata(y) \/ CreateCidata(y) \/ UploadCidata(y)
           \/ CidataUploaded(y) \/ Unstage(y) \/ Stage(y)
  <2>1. UNCHANGED <<dom, disk, grown>>
    BY <1>6 DEF SyncCidata, DeleteCidata, CreateCidata, UploadCidata, CidataUploaded, Unstage,
                Stage, pieces
  <2>2. pc[y] \in {"cidata", "define"} \cup MakingCidata
    BY <1>6 DEF SyncCidata, DeleteCidata, CreateCidata, UploadCidata, CidataUploaded, Unstage,
                Stage, MakingCidata
  <2>3. Leave(y) \/ (/\ pc'[y] \in {"define"} \cup MakingCidata
                     /\ pc'[y] = "create cidata" => cidata' = "none")
    <3>1. CASE SyncCidata(y) \/ DeleteCidata(y) \/ CreateCidata(y)
      BY <1>G, <3>1 DEF SyncCidata, DeleteCidata, CreateCidata, MakingCidata, pieces
    <3>2. CASE UploadCidata(y) \/ CidataUploaded(y) \/ Unstage(y) \/ Stage(y)
      BY <1>G, <3>2 DEF UploadCidata, CidataUploaded, Unstage, Stage, MakingCidata
    <3> QED BY <1>6, <3>1, <3>2
  <2>4. Leave(y) \/ made'[y] = made[y]
    BY <1>6, <1>M DEF SyncCidata, DeleteCidata, CreateCidata, UploadCidata, CidataUploaded,
                      Unstage, Stage
  <2> QED BY <1>L, <1>W, <1>C, <2>1, <2>2, <2>3, <2>4
<1>7. CASE Define(y)
  <2>1. CASE Leave(y) /\ UNCHANGED dom BY <1>7, <1>L, <1>W, <2>1 DEF Define
  <2>2. CASE Goto(y, "start")
    <3>1. pc'[y] = "start" BY <1>G, <2>2
    <3>2. DiskOf(y)' BY <3>1 DEF DiskOf, Keyed, MakingDisk, MakingCidata
    <3>3. made[y] \in BOOLEAN BY DEF StepInv, TypeOK
    <3>4. dom' = dom \/ (made[y] = TRUE /\ pc[y] = "define")
      <4>1. dom' = dom \/ (made[y] /\ pc[y] = "define") BY <1>7, Zenon DEF Define
      <4> QED BY <3>3, <4>1, Zenon
    <3>5. UNCHANGED <<disk, grown>> BY <1>7 DEF Define
    <3> QED BY <3>2, <3>4, <3>5 DEF DiskWhole, DiskOf
  <2> QED BY <1>7, <2>1, <2>2 DEF Define
<1>8. CASE Start(y)
  <2>1. pc'[y] \in Quiet BY <1>8, <1>G, <1>0 DEF Start, Leave, Control, Quiet
  <2>2. DiskWhole' BY <1>8 DEF Start, DiskWhole
  <2> QED BY <2>1, <2>2, AsideAfter
<1>9. CASE Killed(y)
  <2>1. UNCHANGED <<dom, grown>> BY <1>9 DEF Killed
  <2>2. disk' = disk \/ (pc[y] = "disk uploading") BY <1>9 DEF Killed
  <2>3. pc[y] = "disk uploading" => grown = FALSE /\ dom = "none"
    BY DEF DiskOf, MakingDisk, Keyed
  <2>4. DiskWhole' BY <2>1, <2>2, <2>3 DEF DiskWhole
  <2> QED BY <1>9, <1>L, <2>4 DEF Killed
<1> QED BY <1>1, <1>2, <1>3, <1>4, <1>5, <1>6, <1>7, <1>8, <1>9 DEF Up

\* A destroy takes a volume only when the domain is gone.
LEMMA DestroyDisk ==
  ASSUME StepInv, DiskWhole, NEW y \in Yo, DestroyOf(y), Destroy(y)
  PROVE  DestroyOf(y)' /\ DiskWhole'
<1>0. pc[y] \in Steps => todo[y] \in SUBSET Steps /\ todo[y] # {} /\ pc[y] = First(todo[y])
  BY DEF StepInv, TypeOK, TodoInv, Steps
<1>1. pc[y] \in {"delete disk", "drop cidata", "remove dir"} => dom = "none"
  <2>1. pc[y] \in {"delete disk", "drop cidata", "remove dir"} => pc[y] \in Steps
    BY DEF Steps, DestroyPcs
  <2> QED BY <1>0, <2>1, FirstOfList DEF DestroyOf
<1>2. pc[y] = "undefine" => dom \notin {"running", "transient"}
  <2>1. pc[y] = "undefine" => pc[y] \in Steps /\ "undefine" \notin {"power off", "force stop"}
    BY DEF Steps, DestroyPcs
  <2> QED BY <1>0, <2>1, FirstOfList DEF DestroyOf
<1>3. CASE PowerOff(y)
  <2>1. pc[y] \in {"power off", "force stop"} /\ pc[y] \in Steps /\ pc[y] # "list"
    BY <1>3 DEF PowerOff, Steps, DestroyPcs
  <2>2. /\ dom' # "none" => dom # "none"
        /\ dom' \in {"running", "transient"} => pc'[y] = "idle"
    BY <1>3 DEF PowerOff, Leave, StepInv, TypeOK
  <2>3. pc'[y] # "idle" => todo'[y] = todo[y] \ {pc[y]} BY <2>1, DestroyMoves
  <2>4. dom # "none" => "undefine" \in todo[y] BY <2>1 DEF DestroyOf
  <2>5. pc'[y] # "idle" /\ dom' # "none" => "undefine" \in todo'[y]
    BY <2>1, <2>2, <2>3, <2>4
  <2>6. DestroyOf(y)' BY <2>2, <2>5 DEF DestroyOf, Steps, DestroyPcs
  <2> QED BY <1>3, <2>2, <2>6 DEF PowerOff, DiskWhole
<1>4. CASE Undefine(y)
  <2>1. pc[y] = "undefine" BY <1>4 DEF Undefine
  <2>2. pc'[y] = "idle" \/ dom' = "none"
    BY <1>2, <1>4, <2>1 DEF Undefine, Leave, StepInv, TypeOK
  <2>3. dom' # "none" => dom # "none" BY <1>4 DEF Undefine
  <2>4. DestroyOf(y)' BY <2>2 DEF DestroyOf, Steps, DestroyPcs
  <2> QED BY <1>4, <2>3, <2>4 DEF Undefine, DiskWhole
<1>5. CASE DeleteVolumes(y) \/ RemoveDir(y)
  <2>1. dom = "none" /\ dom' = "none"
    BY <1>1, <1>5 DEF DeleteVolumes, RemoveDir
  <2>2. DestroyOf(y)' BY <2>1 DEF DestroyOf
  <2>3. UNCHANGED <<disk, grown>> \/ grown' = FALSE
    BY <1>5 DEF DeleteVolumes, RemoveDir
  <2> QED BY <2>1, <2>2, <2>3 DEF DiskWhole
<1>6. CASE List(y)
  <2>1. pc[y] = "list" /\ UNCHANGED <<dom, disk, grown>> BY <1>6 DEF List, pieces
  <2>2. DestroyOf(y)'
    BY <2>1, DestroyMoves DEF DestroyOf, Steps, DestroyPcs
  <2> QED BY <2>1, <2>2 DEF DiskWhole
<1> QED BY <1>3, <1>4, <1>5, <1>6 DEF Destroy

\* No piece, no yo at work.
LEMMA InitBox == Init => BoxInv
<1> SUFFICES ASSUME Init PROVE BoxInv OBVIOUS
<1>1. StepInv BY InitStep
<1>2. AloneInv BY DEF Init, AloneInv, Quiet
<1>3. DiskWhole BY DEF Init, DiskWhole
<1>4. \A y \in Yo : DiskOf(y)
  <2>1. \A y \in Yo : pc[y] \in Quiet BY DEF Init, Quiet
  <2> QED BY <2>1, Aside
<1>5. \A y \in Yo : DestroyOf(y) BY DEF Init, DestroyOf, Steps, DestroyPcs
<1> QED BY <1>1, <1>2, <1>3, <1>4, <1>5, Parts DEF BoxInv

\* One yo at work keeps its own part, the others have none to keep.
LEMMA BoxStep ==
  ASSUME BoxInv, StepInv', ~Overlapping, [Next]_vars
  PROVE  BoxInv'
<1>0. StepInv /\ AloneInv BY DEF BoxInv
<1>1. DiskWhole /\ \A y \in Yo : DiskOf(y) /\ DestroyOf(y)
  BY <1>0, Parts DEF BoxInv
<1>P. DiskWhole' /\ (\A y \in Yo : DiskOf(y)' /\ DestroyOf(y)') =>
        /\ FinishedIsWhole' /\ DomainHasDisk' /\ NamesAreFree' /\ DiskInv' /\ DestroyInv'
  <2>1. /\ (FinishedIsWhole /\ DomainHasDisk <=> DiskWhole)'
        /\ (NamesAreFree /\ DiskInv <=> \A y \in Yo : DiskOf(y))'
        /\ (DestroyInv <=> \A y \in Yo : DestroyOf(y))'
    BY Parts, PTL
  <2> QED BY <2>1
<1>A. AloneInv' BY <1>0, AloneStep
<1> SUFFICES DiskWhole' /\ \A y \in Yo : DiskOf(y)' /\ DestroyOf(y)'
  BY <1>P, <1>A DEF BoxInv
<1>2. ASSUME NEW y \in Yo, Works(y)
      PROVE  DiskWhole' /\ \A z \in Yo : DiskOf(z)' /\ DestroyOf(z)'
  <2>1. \A z \in Yo : z # y => pc'[z] \in Quiet BY <1>0, <1>2, WorksAlone
  <2>2. \A z \in Yo : z # y => DiskOf(z)' /\ DestroyOf(z)'
    <3> SUFFICES ASSUME NEW z \in Yo, z # y PROVE DiskOf(z)' /\ DestroyOf(z)' OBVIOUS
    <3>1. pc'[z] \in Quiet BY <2>1
    <3>2. DestroyOf(z)' BY <3>1 DEF DestroyOf, Steps, DestroyPcs, Quiet
    <3> QED BY <3>1, <3>2, AsideAfter
  <2>3. CASE UpBegin(y) \/ (Up(y) /\ ~Unlock(y)) \/ Killed(y)
    <3>1. DiskOf(y)' /\ DiskWhole' BY <1>0, <1>1, <2>3, UpDisk
    <3>2. pc'[y] \notin DestroyPcs BY <1>0, <2>3, UpMoves
    <3>3. DestroyOf(y)' BY <3>2 DEF DestroyOf, Steps
    <3> QED BY <2>2, <3>1, <3>3
  <2>4. CASE DestroyBegin(y)
    <3>1. pc'[y] = "list" /\ UNCHANGED <<dom, disk, grown>>
      BY <1>0, <2>4 DEF DestroyBegin, Goto, StepInv, TypeOK, pieces
    <3>2. DestroyOf(y)' BY <3>1 DEF DestroyOf, Steps
    <3>3. DiskOf(y)' BY <3>1, AsideAfter DEF DestroyPcs
    <3>4. DiskWhole' BY <1>1, <3>1 DEF DiskWhole
    <3> QED BY <2>2, <3>2, <3>3, <3>4
  <2>5. CASE Destroy(y)
    <3>1. DestroyOf(y)' /\ DiskWhole' BY <1>0, <1>1, <2>5, DestroyDisk
    <3>2. pc'[y] \in Quiet \cup DestroyPcs BY <1>0, <2>5, DestroyMoves DEF Steps, Quiet
    <3>3. DiskOf(y)' BY <3>2, AsideAfter
    <3> QED BY <2>2, <3>1, <3>3
  <2> QED BY <1>2, <2>3, <2>4, <2>5 DEF Works
<1>3. ASSUME NEW y \in Yo, Waits(y)
      PROVE  DiskWhole' /\ \A z \in Yo : DiskOf(z)' /\ DestroyOf(z)'
  <2>1. /\ UNCHANGED <<dom, disk, grown, cidata>> /\ pc'[y] \in Quiet
        /\ \A z \in Yo : z # y => pc'[z] = pc[z] /\ made'[z] = made[z] /\ todo'[z] = todo[z]
    BY <1>0, <1>3, WaitsQuietly DEF pieces
  <2>2. DiskWhole' BY <1>1, <2>1 DEF DiskWhole
  <2>3. DiskOf(y)' BY <2>1, AsideAfter
  <2>4. DestroyOf(y)' BY <2>1 DEF DestroyOf, Steps, DestroyPcs, Quiet
  <2>5. ASSUME NEW z \in Yo, z # y PROVE DiskOf(z)' /\ DestroyOf(z)'
    <3>1. pc'[z] = pc[z] /\ todo'[z] = todo[z] BY <2>1, <2>5
    <3>2. made'[z] = made[z] BY <2>1, <2>5
    <3>3. DiskOf(z) /\ DestroyOf(z) BY <1>1
    <3>4. DiskOf(z)' BY <2>1, <3>1, <3>2, <3>3 DEF DiskOf
    <3>5. DestroyOf(z)' BY <2>1, <3>1, <3>3 DEF DestroyOf
    <3> QED BY <3>4, <3>5
  <2> QED BY <2>2, <2>3, <2>4, <2>5
<1>4. CASE BoxStops \/ UNCHANGED <<pieces, pc, made, wants, todo>>
  <2>1. UNCHANGED <<disk, grown, cidata, pc, made, todo>>
    BY <1>4 DEF BoxStops, yos, pieces
  <2>2. \/ dom' = dom
        \/ dom # "none" /\ dom' \in {"off", "none"}
    BY <1>4 DEF BoxStops, pieces
  <2>3. DiskWhole' BY <1>1, <2>1, <2>2 DEF DiskWhole
  <2>4. \A z \in Yo : DiskOf(z)' BY <1>1, <2>1, <2>2 DEF DiskOf
  <2>5. \A z \in Yo : DestroyOf(z)' BY <1>1, <2>1, <2>2 DEF DestroyOf
  <2> QED BY <2>3, <2>4, <2>5
<1> QED BY <1>2, <1>3, <1>4, Kinds

\* BoxInv holds in every state when no yo begins among another's pieces.
THEOREM BoxInductive == ~Overlapping => (Spec => []BoxInv)
<1> SUFFICES ASSUME ~Overlapping PROVE Spec => []BoxInv OBVIOUS
<1>1. BoxInv /\ StepInv' /\ [Next]_vars => BoxInv' BY BoxStep
<1> QED BY <1>1, InitBox, StepInductive, PTL DEF Spec

\* What ensure_disk_volume adopts by its capacity is a disk filled from the seed,
\* whatever the yos before it left (disk_volume_finished).
THEOREM AdoptedIsWhole == ~Overlapping => (Spec => []FinishedIsWhole)
<1>1. BoxInv => FinishedIsWhole BY DEF BoxInv
<1> QED BY <1>1, BoxInductive, PTL

\* A domain keeps its finished disk as long as it exists (start, undefine_domain).
THEOREM DomainKeepsDisk == ~Overlapping => (Spec => []DomainHasDisk)
<1>1. BoxInv => DomainHasDisk BY DEF BoxInv
<1> QED BY <1>1, BoxInductive, PTL

\* No leftover of an earlier yo bears the name of a volume to be made (create_volume).
THEOREM NoNameTaken == ~Overlapping => (Spec => []NamesAreFree)
<1>1. BoxInv => NamesAreFree BY DEF BoxInv
<1> QED BY <1>1, BoxInductive, PTL

-----------------------------------------------------------------------------
(* The box as BuiltBox sees it, where no yo begins among another's pieces. *)

\* A destroy is at a removal: the domain is gone before its disk is, and off before that.
LEMMA Removal ==
  ASSUME BoxInv, NEW y \in Yo
  PROVE  /\ pc[y] = "delete disk" => dom = "none"
         /\ pc[y] = "undefine" => dom \notin {"running", "transient"}
<1>1. DestroyOf(y) /\ StepInv BY Parts DEF BoxInv
<1>2. pc[y] \in Steps => todo[y] \in SUBSET Steps /\ todo[y] # {} /\ pc[y] = First(todo[y])
  BY <1>1 DEF StepInv, TypeOK, TodoInv, Steps
<1>3. {"delete disk", "undefine"} \subseteq Steps BY DEF Steps, DestroyPcs
<1> QED BY <1>1, <1>2, <1>3, FirstOfList DEF DestroyOf

\* undefine_domain is never left with a domain that runs on undefined.
NeverTransient == dom # "transient"

\* Each step that changes the disk or the domain is one of BuiltBox's.
Same == UNCHANGED <<disk, grown>> /\ dom' = dom

LEMMA UpBuilds ==
  ASSUME BoxInv, dom # "transient", NEW y \in Yo, Up(y) \/ UpBegin(y) \/ Killed(y)
  PROVE  dom' # "transient" /\ (Same \/ Box!Next \/ UNCHANGED <<Built, dom>>)
<1> DEFINE Goal == dom' # "transient" /\ (Same \/ Box!Next \/ UNCHANGED <<Built, dom>>)
<1> SUFFICES Goal OBVIOUS
<1>0. /\ disk \in DiskStates /\ grown \in BOOLEAN
      /\ DiskOf(y) /\ DiskWhole
      /\ pc[y] = "disk uploading" => disk = "uploading"
  BY Parts DEF BoxInv, StepInv, TypeOK, UploadInv
<1> USE DEF Same, pieces
<1>1. CASE UpBegin(y) \/ Look(y) \/ SyncCidata(y) \/ DeleteCidata(y) \/ CreateCidata(y)
           \/ UploadCidata(y) \/ CidataUploaded(y) \/ Unstage(y) \/ Stage(y) \/ Unlock(y)
  BY <1>1 DEF UpBegin, Look, SyncCidata, DeleteCidata, CreateCidata, UploadCidata, CidataUploaded,
              Unstage, Stage, Unlock
<1>2. CASE pc[y] \in {"disk"} \cup MakingDisk /\ ~Same
           /\ (EnsureDiskVolume(y) \/ CreateDisk(y) \/ UploadDisk(y) \/ DiskUploaded(y)
                \/ ResizeDisk(y))
  <2>1. dom = "none" /\ dom' = dom
    BY <1>0, <1>2
    DEF DiskOf, Keyed, EnsureDiskVolume, CreateDisk, UploadDisk, DeleteDisk, DiskUploaded, ResizeDisk
  <2>2. grown = FALSE
    BY <1>0, <1>2 DEF DiskOf, EnsureDiskVolume, CreateDisk, UploadDisk, DiskUploaded, ResizeDisk,
                      Finished, MakingDisk
  <2>3. \/ disk # "none" /\ disk' = "none" /\ grown' = FALSE
        \/ disk = "none" /\ disk' = "partial" /\ grown' = FALSE
        \/ disk # "none" /\ disk' # "none" /\ grown' = FALSE
        \/ disk = "whole" /\ disk' = "whole" /\ grown' = TRUE
    BY <1>0, <1>2, <2>2
    DEF DiskOf, EnsureDiskVolume, CreateDisk, UploadDisk, DeleteDisk, DiskUploaded, ResizeDisk
  <2>4. Box!Next \/ UNCHANGED Built
    BY <2>1, <2>2, <2>3
    DEF Built, Box!Next, Box!Create, Box!Finish, Box!Discard
  <2> QED BY <2>1, <2>4
<1>3. CASE Define(y)
  <2>1. CASE dom' = dom BY <1>3, <2>1 DEF Define
  <2>2. CASE dom' # dom
    <3>1. dom = "none" /\ dom' = "off" /\ disk = "whole" /\ grown = TRUE
      BY <1>0, <1>3, <2>2 DEF Define, DiskOf
    <3>2. Built = "finished" /\ Built' = Built BY <1>3, <3>1 DEF Built, Define
    <3> QED BY <3>1, <3>2 DEF Box!Next, Box!Define
  <2> QED BY <2>1, <2>2
<1>4. CASE Start(y)
  <2>1. Built' = Built BY <1>4 DEF Built, Start
  <2> QED BY <1>4, <2>1 DEF Start, Box!Next, Box!Switch
<1>5. CASE Killed(y)
  <2>1. Built' = Built
    <3>1. CASE pc[y] = "disk uploading"
      <4>1. grown = FALSE /\ grown' = FALSE /\ disk = "uploading" /\ disk' = "partial"
        BY <1>0, <1>5, <3>1 DEF DiskOf, MakingDisk, Killed
      <4> QED BY <4>1 DEF Built
    <3>2. CASE pc[y] # "disk uploading" BY <1>5, <3>2 DEF Built, Killed
    <3> QED BY <3>1, <3>2
  <2> QED BY <1>5, <2>1 DEF Killed
<1>6. EnsureDiskVolume(y) \/ CreateDisk(y) \/ UploadDisk(y) \/ DiskUploaded(y) \/ ResizeDisk(y) =>
        pc[y] \in {"disk"} \cup MakingDisk /\ dom' = dom
  BY DEF EnsureDiskVolume, CreateDisk, UploadDisk, DeleteDisk, DiskUploaded, ResizeDisk, MakingDisk
<1> QED BY <1>1, <1>2, <1>3, <1>4, <1>5, <1>6 DEF Up

LEMMA DestroyBuilds ==
  ASSUME BoxInv, dom # "transient", NEW y \in Yo, DestroyBegin(y) \/ Destroy(y)
  PROVE  dom' # "transient" /\ (Same \/ Box!Next)
<1> USE DEF Same, pieces
<1>0. /\ dom \in {"none", "off", "running"}
      /\ disk \in DiskStates
      /\ grown \in BOOLEAN
  BY DEF BoxInv, StepInv, TypeOK
<1>1. CASE DestroyBegin(y) \/ List(y) \/ RemoveDir(y)
  BY <1>1 DEF DestroyBegin, List, RemoveDir
<1>2. CASE PowerOff(y)
  <2>1. Built' = Built BY <1>2 DEF Built, PowerOff
  <2> QED BY <1>0, <1>2, <2>1 DEF PowerOff, Box!Next, Box!Switch
<1>3. CASE Undefine(y)
  <2>1. Built' = Built BY <1>3 DEF Built, Undefine
  <2>2. dom # "running" BY <1>3, Removal DEF Undefine
  <2> QED BY <1>3, <2>1, <2>2 DEF Undefine, Box!Next, Box!Undefine
<1>4. CASE DeleteVolumes(y)
  <2>1. CASE UNCHANGED <<disk, grown>> BY <1>4, <2>1 DEF DeleteVolumes
  <2>2. CASE ~UNCHANGED <<disk, grown>>
    <3>1. pc[y] = "delete disk" /\ disk # "none" /\ disk' = "none" /\ dom' = dom
      BY <1>4, <2>2 DEF DeleteVolumes
    <3>2. dom = "none" BY <3>1, Removal
    <3>3. Built # "none" /\ Built' = "none" BY <3>1 DEF Built
    <3> QED BY <3>1, <3>2, <3>3 DEF Box!Next, Box!Discard
  <2> QED BY <2>1, <2>2
<1> QED BY <1>1, <1>2, <1>3, <1>4 DEF Destroy

LEMMA BuiltStep ==
  ASSUME BoxInv, dom # "transient", [Next]_vars
  PROVE  dom' # "transient" /\ [Box!Next]_<<Built, dom>>
<1>1. Same => Built' = Built BY DEF Same, Built
<1>2. CASE \E y \in Yo : Up(y) \/ UpBegin(y) \/ Killed(y)
  BY <1>1, <1>2, UpBuilds DEF Same
<1>3. CASE \E y \in Yo : DestroyBegin(y) \/ Destroy(y)
  BY <1>1, <1>3, DestroyBuilds DEF Same
<1>4. CASE BoxStops
  <2>1. Built' = Built BY <1>4 DEF BoxStops, Built
  <2> QED BY <1>4, <2>1 DEF BoxStops, Box!Next, Box!Switch
<1>5. CASE KeyChanges \/ UNCHANGED vars
  BY <1>1, <1>5 DEF KeyChanges, vars, pieces, Same
<1> QED BY <1>2, <1>3, <1>4, <1>5 DEF Next

\* Making a box in many steps, and removing one piece after the other, implements making
\* and removing its disk and its domain in one step each, in the only order that leaves no
\* domain without its disk (ensure_disk_volume, create_domain, destruction_steps).
THEOREM PiecesAsBox == ~Overlapping => (Spec => ImplementsBuiltBox)
<1> SUFFICES ASSUME ~Overlapping PROVE Spec => ImplementsBuiltBox OBVIOUS
<1>1. Init => NeverTransient /\ Box!Init BY DEF Init, NeverTransient, Box!Init, Built
<1>2. BoxInv /\ NeverTransient /\ [Next]_vars => NeverTransient' /\ [Box!Next]_Box!vars
  BY BuiltStep DEF NeverTransient, Box!vars
<1>3. Spec => []BoxInv BY BoxInductive
<1> QED BY <1>1, <1>2, <1>3, PTL DEF Spec, ImplementsBuiltBox, Box!Spec

-----------------------------------------------------------------------------
(* Where, besides, no rebuild of the cidata is cut short half way.         *)

Building == {"upload cidata", "cidata uploading", "unstage"}

\* What CidataInv says of one yo, and of the volume when that yo alone may build it.
CidataOf(y) ==
  /\ pc[y] \in {"unstage", "stage", "define", "start"} => cidata = wants[y]
  /\ pc[y] = "stage" => staged = None

CacheOf(y) ==
  cidata # "none" /\ staged # None => cidata = staged \/ pc[y] \in Building

\* A yo at work keeps both.
LEMMA CidataOfStep ==
  ASSUME StepInv, ~CutRebuilds, NEW y \in Yo, Works(y), CidataOf(y), CacheOf(y)
  PROVE  CidataOf(y)' /\ CacheOf(y)'
<1>0. Control /\ WantsInv BY DEF StepInv, TypeOK, Control
<1>L. Leave(y) => pc'[y] = "idle" BY <1>0 DEF Leave, Control
<1>G. \A there : Goto(y, there) => pc'[y] = there BY <1>0 DEF Goto, Control
<1>M. \A there : Goto(y, there) => wants'[y] = wants[y] BY DEF Goto
<1>A. pc'[y] \in {"idle", "look", "disk", "cidata", "create disk", "upload disk",
                  "disk uploading", "resize disk", "delete cidata", "create cidata",
                  "take lock"} \cup DestroyPcs => CidataOf(y)'
  BY DEF CidataOf, DestroyPcs
<1>U. UNCHANGED <<cidata, staged>> /\ pc[y] \notin Building => CacheOf(y)'
  BY DEF CacheOf
<1>1. CASE UpBegin(y) \/ Look(y) \/ DestroyBegin(y)
  <2>1. pc'[y] \in {"idle", "look", "disk", "cidata", "list"}
    BY <1>0, <1>1, <1>L, <1>G DEF UpBegin, Look, DestroyBegin, Control
  <2>2. UNCHANGED <<cidata, staged>> /\ pc[y] \notin Building
    BY <1>1 DEF UpBegin, Look, DestroyBegin, pieces, Building
  <2> QED BY <1>A, <1>U, <2>1, <2>2 DEF DestroyPcs
<1>2. CASE EnsureDiskVolume(y) \/ CreateDisk(y) \/ UploadDisk(y) \/ DiskUploaded(y)
           \/ ResizeDisk(y)
  <2>1. pc'[y] \in {"idle", "cidata", "create disk", "upload disk", "disk uploading",
                    "resize disk"}
    BY <1>2, <1>L, <1>G DEF EnsureDiskVolume, CreateDisk, UploadDisk, DiskUploaded, ResizeDisk
  <2>2. UNCHANGED <<cidata, staged>> /\ pc[y] \notin Building
    BY <1>2 DEF EnsureDiskVolume, CreateDisk, UploadDisk, DeleteDisk, DiskUploaded, ResizeDisk,
                pieces, Building
  <2> QED BY <1>A, <1>U, <2>1, <2>2
<1>3. CASE SyncCidata(y)
  <2>1. UNCHANGED <<cidata, staged>> /\ pc[y] \notin Building
    BY <1>3 DEF SyncCidata, pieces, Building
  <2>2. wants'[y] = wants[y] BY <1>3, <1>M DEF SyncCidata
  <2>3. \/ pc'[y] \in {"delete cidata", "create cidata"}
        \/ pc'[y] = "define" /\ staged = wants[y] /\ cidata # "none"
    BY <1>3, <1>G DEF SyncCidata
  <2>4. wants[y] # None
    BY <1>0, <1>3, NoneAssumption DEF SyncCidata, WantsInv, Keyed
  <2>5. CidataOf(y)'
    BY <2>1, <2>2, <2>3, <2>4 DEF CidataOf, CacheOf
  <2> QED BY <1>U, <2>1, <2>5
<1>4. CASE DeleteCidata(y) \/ CreateCidata(y)
  <2>1. pc'[y] \in {"idle", "create cidata", "upload cidata"}
    BY <1>4, <1>L, <1>G DEF DeleteCidata, CreateCidata
  <2>2. CidataOf(y)' BY <2>1 DEF CidataOf
  <2>3. \/ UNCHANGED <<cidata, staged>> /\ pc[y] \notin Building
        \/ cidata' = "none"
        \/ pc'[y] \in Building
    BY <1>4, <1>G DEF DeleteCidata, CreateCidata, pieces, Building
  <2> QED BY <1>U, <2>2, <2>3 DEF CacheOf
<1>5. CASE UploadCidata(y)
  <2>1. pc'[y] \in {"idle", "cidata uploading"} BY <1>5, <1>L, <1>G DEF UploadCidata
  <2>2. CidataOf(y)' BY <2>1 DEF CidataOf
  <2>3. pc'[y] = "cidata uploading" \/ cidata' = "none"
    BY <1>5, <1>G DEF UploadCidata, DeleteCidataAgain
  <2> QED BY <2>2, <2>3 DEF CacheOf, Building
<1>6. CASE CidataUploaded(y)
  <2>1. \/ pc'[y] = "unstage" /\ cidata' = wants[y] /\ wants'[y] = wants[y]
        \/ pc'[y] = "idle" /\ cidata' = "none"
    BY <1>6, <1>L, <1>G, <1>M DEF CidataUploaded
  <2> QED BY <2>1 DEF CidataOf, CacheOf, Building
<1>7. CASE Unstage(y)
  <2>1. pc'[y] = "stage" /\ staged' = None /\ cidata' = cidata /\ wants'[y] = wants[y]
    BY <1>7, <1>G, <1>M DEF Unstage
  <2>2. cidata = wants[y] BY <1>7 DEF Unstage, CidataOf
  <2> QED BY <2>1, <2>2 DEF CidataOf, CacheOf
<1>8. CASE Stage(y)
  <2>1. cidata = wants[y] /\ staged = None /\ cidata' = cidata
    BY <1>8 DEF Stage, CidataOf
  <2>2. \/ pc'[y] = "define" /\ staged' = wants[y] /\ wants'[y] = wants[y]
        \/ pc'[y] = "idle" /\ staged' = staged
    BY <1>8, <1>L, <1>G, <1>M DEF Stage
  <2> QED BY <2>1, <2>2 DEF CidataOf, CacheOf
<1>9. CASE Define(y) \/ Start(y)
  <2>1. UNCHANGED <<cidata, staged>> /\ pc[y] \notin Building
    BY <1>9 DEF Define, Start, Building
  <2>2. \/ pc'[y] \in {"idle", "take lock"}
        \/ pc[y] = "define" /\ pc'[y] = "start" /\ wants'[y] = wants[y]
    BY <1>9, <1>L, <1>G, <1>M DEF Define, Start
  <2>3. CidataOf(y)' BY <1>A, <2>1, <2>2 DEF CidataOf
  <2> QED BY <1>U, <2>1, <2>3
<1>10. CASE Destroy(y)
  <2>1. pc'[y] \in {"idle"} \cup DestroyPcs /\ pc[y] \notin Building
    BY <1>10, DestroyMoves DEF Steps, DestroyPcs, Building
  <2>2. CidataOf(y)' BY <1>A, <2>1
  <2>3. UNCHANGED <<cidata, staged>> \/ cidata' = "none" \/ staged' = None
    BY <1>10 DEF Destroy, List, PowerOff, Undefine, DeleteVolumes, RemoveDir, pieces
  <2> QED BY <1>U, <2>1, <2>2, <2>3 DEF CacheOf
<1>11. CASE Killed(y)
  <2>1. UNCHANGED <<cidata, staged>> /\ pc[y] \notin Building
    BY <1>11 DEF Killed, Building
  <2>2. CidataOf(y)' BY <1>A, <1>L, <1>11 DEF Killed
  <2> QED BY <1>U, <2>1, <2>2
<1> QED
  BY <1>1, <1>2, <1>3, <1>4, <1>5, <1>6, <1>7, <1>8, <1>9, <1>10, <1>11 DEF Works, Up

\* The cache key is never ahead of the volume it stands for.
LEMMA CidataStep ==
  ASSUME BoxInv, CidataInv, ~Overlapping, ~CutRebuilds, [Next]_vars
  PROVE  CidataInv'
<1>0. StepInv /\ AloneInv BY DEF BoxInv
<1>1. ASSUME NEW y \in Yo, Works(y) PROVE CidataInv'
  <2>1. \A z \in Yo : z # y => pc[z] \in Quiet /\ pc'[z] \in Quiet
    BY <1>0, <1>1, WorksAlone
  <2>2. CidataOf(y) BY DEF CidataInv, CidataOf
  <2>3. CacheOf(y) BY <2>1 DEF CidataInv, CacheOf, Building, Quiet
  <2>4. CidataOf(y)' /\ CacheOf(y)' BY <1>0, <1>1, <2>2, <2>3, CidataOfStep
  <2>5. \A z \in Yo : CidataOf(z)'
    <3>1. \A z \in Yo : z # y => CidataOf(z)' BY <2>1 DEF CidataOf, Quiet
    <3> QED BY <2>4, <3>1
  <2> QED BY <2>4, <2>5 DEF CidataInv, CidataOf, CacheOf, Building
<1>2. ASSUME NEW y \in Yo, Waits(y) PROVE CidataInv'
  <2>1. /\ UNCHANGED <<cidata, staged>> /\ pc'[y] \in Quiet
        /\ \A z \in Yo : z # y => pc'[z] = pc[z] /\ wants'[z] = wants[z]
    BY <1>0, <1>2, WaitsQuietly DEF pieces
  <2>2. pc[y] \notin Building
    BY <1>2 DEF Waits, Unlock, Quiet, Building
  <2> QED BY <2>1, <2>2 DEF CidataInv, Quiet, Building
<1>3. CASE BoxStops \/ UNCHANGED <<pieces, pc, made, wants, todo>>
  <2>1. UNCHANGED <<cidata, staged, pc, wants>> BY <1>3 DEF BoxStops, yos, pieces
  <2> QED BY <2>1 DEF CidataInv
<1> QED BY <1>1, <1>2, <1>3, Kinds

\* No box starts with another cidata than that of its operator's key (sync_cidata):
\* the staged copy, replaced last, may be trusted where no rebuild is cut short.
THEOREM SyncedAtStart == ~Overlapping /\ ~CutRebuilds => (Spec => []StartsSynced)
<1> SUFFICES ASSUME ~Overlapping, ~CutRebuilds PROVE Spec => []StartsSynced OBVIOUS
<1>1. Init => CidataInv BY DEF Init, CidataInv
<1>2. BoxInv /\ CidataInv /\ [Next]_vars => CidataInv' BY CidataStep
<1>3. CidataInv => StartsSynced BY DEF CidataInv, StartsSynced
<1>4. Spec => []BoxInv BY BoxInductive
<1> QED BY <1>1, <1>2, <1>3, <1>4, PTL DEF Spec
=============================================================================
