----------------------------- MODULE LibvirtBox -----------------------------
(***************************************************************************)
(* How the libvirt driver makes a box and takes it apart.  `yo up` builds  *)
(* the disk volume from the seed, builds the cidata volume when its files  *)
(* changed, defines the domain and starts it; `yo destroy --yes` lists the *)
(* pieces that exist and removes them in order.  A yo may be cut short at  *)
(* any step, and the next one works from what is left; nothing but the     *)
(* unlock lock, which `yo up` takes only once the domain runs, orders two  *)
(* of them.                                                                *)
(***************************************************************************)
EXTENDS Naturals, FiniteSets

CONSTANTS
  Yo,           \* the yo processes of the host
  Key,          \* the operator's login keys, which the cidata carries
  None,         \* no key, nothing
  Overlapping,  \* may a yo begin while another builds or removes the pieces?
  CutRebuilds   \* may a rebuild of the cidata be cut short half way?

ASSUME NoneAssumption == None \notin Yo \cup Key
ASSUME FlagAssumption == Overlapping \in BOOLEAN /\ CutRebuilds \in BOOLEAN

VARIABLES
  dom,      \* the domain: "none", "off", "running" or "transient"
  disk,     \* the disk volume's content
  grown,    \* its capacity is at least MIN_DISK_GIB
  cidata,   \* the cidata volume's content
  staged,   \* the key of the staged copy, the cidata's cache key
  key,      \* the key the operator's agent offers
  pc,       \* where each yo is
  made,     \* whether this `yo up` found no domain, and creates one
  wants,    \* the key its cidata is to carry
  todo      \* the pieces this `yo destroy` listed

pieces == <<dom, disk, grown, cidata, staged>>
yos == <<pc, made, wants, todo>>
vars == <<pieces, key, yos>>

\* Contents: no volume, an empty or half-filled one, one whose upload is going
\* on (libvirt refuses to delete or resize it then), a filled one.
DiskStates == {"none", "partial", "uploading", "whole"}
CidataStates == {"none", "partial", "uploading"} \cup Key

UpPcs == {"look", "disk", "create disk", "upload disk", "disk uploading", "resize disk",
          "cidata", "delete cidata", "create cidata", "upload cidata",
          "cidata uploading", "unstage", "stage", "define", "start", "take lock", "unlock"}
DestroyPcs == {"list", "power off", "force stop", "undefine", "delete disk",
               "drop cidata", "remove dir"}

TypeOK ==
  /\ dom \in {"none", "off", "running", "transient"}
  /\ disk \in DiskStates /\ grown \in BOOLEAN /\ cidata \in CidataStates
  /\ staged \in Key \cup {None}
  /\ key \in Key
  /\ pc \in [Yo -> {"idle"} \cup UpPcs \cup DestroyPcs]
  /\ made \in [Yo -> BOOLEAN]
  /\ wants \in [Yo -> Key \cup {None}]
  /\ todo \in [Yo -> SUBSET DestroyPcs]
  /\ disk \notin {"whole", "partial"} => ~grown

-----------------------------------------------------------------------------
Init ==
  /\ dom = "none" /\ disk = "none" /\ grown = FALSE
  /\ cidata = "none" /\ staged = None
  /\ key \in Key
  /\ pc = [y \in Yo |-> "idle"] /\ made = [y \in Yo |-> FALSE]
  /\ wants = [y \in Yo |-> None] /\ todo = [y \in Yo |-> {}]

Goto(y, there) ==
  /\ pc' = [pc EXCEPT ![y] = there]
  /\ UNCHANGED <<made, wants, todo>>

\* The yo is over: it succeeded, raised, or was killed.
Leave(y) ==
  /\ pc' = [pc EXCEPT ![y] = "idle"] /\ made' = [made EXCEPT ![y] = FALSE]
  /\ wants' = [wants EXCEPT ![y] = None] /\ todo' = [todo EXCEPT ![y] = {}]

MayBegin == Overlapping \/ \A z \in Yo : pc[z] \in {"idle", "take lock", "unlock"}

\* The box's unlock lock is held while its passphrase is sent, and by a destroy.
LockFree == \A y \in Yo : pc[y] # "unlock" /\ pc[y] \notin DestroyPcs

-----------------------------------------------------------------------------
(* yo up: start().                                                         *)

\* vm_up, for a box that does not run; the operator's key is read first.
UpBegin(y) ==
  /\ pc[y] = "idle" /\ MayBegin
  /\ dom \in {"none", "off"}
  /\ pc' = [pc EXCEPT ![y] = "look"]
  /\ made' = [made EXCEPT ![y] = (dom = "none")]
  /\ UNCHANGED <<wants, todo, pieces, key>>

\* start() asks again whether the domain exists: one that came meanwhile is
\* taken, one that went meanwhile has no size to be created at.
Look(y) ==
  /\ pc[y] = "look"
  /\ IF dom = "none" /\ ~made[y] THEN Leave(y)
     ELSE /\ pc' = [pc EXCEPT ![y] = IF dom = "none" THEN "disk" ELSE "cidata"]
          /\ made' = [made EXCEPT ![y] = (dom = "none")]
          /\ wants' = [wants EXCEPT ![y] = key]
          /\ UNCHANGED todo
  /\ UNCHANGED <<pieces, key>>

\* disk_volume_finished: judged by the capacity alone.
Finished == grown

\* ensure_disk_volume: a finished volume is adopted, another one rebuilt.
EnsureDiskVolume(y) ==
  /\ pc[y] = "disk"
  /\ \/ disk # "none" /\ Finished /\ Goto(y, "cidata") /\ UNCHANGED pieces
     \/ disk = "none" /\ Goto(y, "create disk") /\ UNCHANGED pieces
     \/ /\ disk # "none" /\ ~Finished
        /\ \/ Leave(y) /\ UNCHANGED pieces
           \/ /\ disk # "uploading"
              /\ Goto(y, "create disk")
              /\ disk' = "none" /\ UNCHANGED <<dom, grown, cidata, staged>>
  /\ UNCHANGED key

\* (A mutated form: the volume is created at its full size.)
CreateAtFullSize(y) ==
  /\ pc[y] = "create disk" /\ disk = "none"
  /\ Goto(y, "upload disk")
  /\ disk' = "partial" /\ grown' = TRUE
  /\ UNCHANGED <<dom, cidata, staged, key>>

\* create_volume: vol-create-as, of a name that must be free ...
CreateDisk(y) ==
  /\ pc[y] = "create disk"
  /\ \/ /\ disk = "none" /\ Goto(y, "upload disk")
        /\ disk' = "partial" /\ UNCHANGED <<dom, grown, cidata, staged>>
     \/ Leave(y) /\ UNCHANGED pieces
  /\ UNCHANGED key

\* What create_volume's except clause leaves: no volume, or the partial one when
\* its deletion fails too.  The volume is named, whoever made it.
DeleteDisk ==
  /\ \/ disk # "uploading" /\ disk' = "none" /\ grown' = FALSE
     \/ UNCHANGED <<disk, grown>>
  /\ UNCHANGED <<dom, cidata, staged>>

\* ... then vol-upload.
UploadDisk(y) ==
  /\ pc[y] = "upload disk"
  /\ \/ /\ disk \notin {"none", "uploading"} /\ Goto(y, "disk uploading")
        /\ disk' = "uploading" /\ grown' = FALSE /\ UNCHANGED <<dom, cidata, staged>>
     \/ Leave(y) /\ DeleteDisk
  /\ UNCHANGED key

DiskUploaded(y) ==
  /\ pc[y] = "disk uploading"
  /\ \/ /\ Goto(y, "resize disk")
        /\ disk' = "whole" /\ UNCHANGED <<dom, grown, cidata, staged>>
     \/ /\ Leave(y)
        /\ disk' \in {"none", "partial"} /\ UNCHANGED <<dom, grown, cidata, staged>>
  /\ UNCHANGED key

ResizeDisk(y) ==
  /\ pc[y] = "resize disk"
  /\ \/ /\ disk \in {"partial", "whole"} /\ Goto(y, "cidata")
        /\ grown' = TRUE /\ UNCHANGED <<dom, disk, cidata, staged>>
     \/ Leave(y) /\ UNCHANGED pieces
  /\ UNCHANGED key

\* (A mutated form: the staged copy is trusted whether the volume exists or not.)
SyncByKeyAlone(y) ==
  /\ pc[y] = "cidata"
  /\ Goto(y, IF staged = wants[y] THEN "define"
             ELSE IF cidata # "none" THEN "delete cidata" ELSE "create cidata")
  /\ UNCHANGED <<pieces, key>>

\* sync_cidata: the staged copy is the cache key.
SyncCidata(y) ==
  /\ pc[y] = "cidata"
  /\ Goto(y, IF staged = wants[y] /\ cidata # "none" THEN "define"
             ELSE IF cidata # "none" THEN "delete cidata" ELSE "create cidata")
  /\ UNCHANGED <<pieces, key>>

DeleteCidata(y) ==
  /\ pc[y] = "delete cidata"
  /\ \/ /\ cidata \notin {"none", "uploading"} /\ Goto(y, "create cidata")
        /\ cidata' = "none" /\ UNCHANGED <<dom, disk, grown, staged>>
     \/ Leave(y) /\ UNCHANGED pieces
  /\ UNCHANGED key

CreateCidata(y) ==
  /\ pc[y] = "create cidata"
  /\ \/ /\ cidata = "none" /\ Goto(y, "upload cidata")
        /\ cidata' = "partial" /\ UNCHANGED <<dom, disk, grown, staged>>
     \/ Leave(y) /\ UNCHANGED pieces
  /\ UNCHANGED key

\* create_volume's except clause; its deletion may fail too.
DeleteCidataAgain ==
  \/ cidata # "uploading" /\ cidata' = "none"
  \/ CutRebuilds /\ UNCHANGED cidata

UploadCidata(y) ==
  /\ pc[y] = "upload cidata"
  /\ \/ /\ cidata \notin {"none", "uploading"} /\ Goto(y, "cidata uploading")
        /\ cidata' = "uploading"
     \/ Leave(y) /\ DeleteCidataAgain
  /\ UNCHANGED <<dom, disk, grown, staged, key>>

CidataUploaded(y) ==
  /\ pc[y] = "cidata uploading"
  /\ \/ Goto(y, "unstage") /\ cidata' = wants[y]
     \/ Leave(y) /\ cidata' \in {"none"} \cup IF CutRebuilds THEN {"partial"} ELSE {}
  /\ UNCHANGED <<dom, disk, grown, staged, key>>

\* The key is replaced only after the upload succeeded: removed, then renamed.
Unstage(y) ==
  /\ pc[y] = "unstage"
  /\ \/ Goto(y, "stage") /\ staged' = None
     \/ CutRebuilds /\ Leave(y) /\ UNCHANGED staged
  /\ UNCHANGED <<dom, disk, grown, cidata, key>>

Stage(y) ==
  /\ pc[y] = "stage"
  /\ \/ Goto(y, "define") /\ staged' = wants[y]
     \/ Leave(y) /\ UNCHANGED staged
  /\ UNCHANGED <<dom, disk, grown, cidata, key>>

\* create_domain, for a domain that did not exist.
Define(y) ==
  /\ pc[y] = "define"
  /\ \/ ~made[y] /\ dom # "none" /\ Goto(y, "start") /\ UNCHANGED dom
     \/ made[y] /\ dom = "none" /\ Goto(y, "start") /\ dom' = "off"
     \/ Leave(y) /\ UNCHANGED dom
  /\ UNCHANGED <<disk, grown, cidata, staged, key>>

\* virsh start needs both volumes.
Start(y) ==
  /\ pc[y] = "start"
  /\ \/ /\ dom = "off" /\ disk # "none" /\ cidata # "none"
        /\ Goto(y, "take lock")
        /\ dom' = "running"
     \/ Leave(y) /\ UNCHANGED dom
  /\ UNCHANGED <<disk, grown, cidata, staged, key>>

\* unlock_disk waits for the lock, sends the passphrase and lets go.
Unlock(y) ==
  /\ \/ pc[y] = "take lock" /\ LockFree /\ Goto(y, "unlock")
     \/ pc[y] = "unlock" /\ Leave(y)
  /\ UNCHANGED <<pieces, key>>

-----------------------------------------------------------------------------
(* yo destroy --yes.                                                       *)

\* (A mutated form: the list is made first, without the lock.)
DestroyUnlocked(y) ==
  /\ pc[y] = "idle" /\ MayBegin
  /\ Goto(y, "list")
  /\ UNCHANGED <<pieces, key>>

\* The lock, without waiting for it.
DestroyBegin(y) ==
  /\ pc[y] = "idle" /\ MayBegin /\ LockFree
  /\ Goto(y, "list")
  /\ UNCHANGED <<pieces, key>>

\* (A mutated form: the volumes go before the domain.)
VolumesFirst == <<"power off", "delete disk", "drop cidata", "force stop", "undefine", "remove dir">>

\* destruction_steps: removals() lists the pieces in this order.
Order == <<"power off", "force stop", "undefine", "delete disk", "drop cidata", "remove dir">>

\* The first of the listed steps, "idle" when none is left.
First(steps) ==
  IF steps = {} THEN "idle"
  ELSE Order[CHOOSE i \in 1 .. 6 :
               Order[i] \in steps /\ \A j \in 1 .. i - 1 : Order[j] \notin steps]

\* The step is done: on to the next listed.
StepDone(y, step) ==
  LET rest == todo[y] \ {step} IN
    IF rest = {} THEN Leave(y)
    ELSE /\ pc' = [pc EXCEPT ![y] = First(rest)]
         /\ todo' = [todo EXCEPT ![y] = rest]
         /\ UNCHANGED <<made, wants>>

\* removals(): what exists now.
List(y) ==
  /\ pc[y] = "list"
  /\ LET found == {step \in DestroyPcs :
                     \/ step = "power off" /\ dom \in {"running", "transient"}
                     \/ step \in {"force stop", "undefine"} /\ dom # "none"
                     \/ step = "delete disk" /\ disk # "none"
                     \/ step = "drop cidata" /\ cidata # "none"
                     \/ step = "remove dir" /\ staged # None}
     IN IF found = {} THEN Leave(y)
        ELSE /\ pc' = [pc EXCEPT ![y] = First(found)]
             /\ todo' = [todo EXCEPT ![y] = found]
             /\ UNCHANGED <<made, wants>>
  /\ UNCHANGED <<pieces, key>>

\* force_stop, on its own and as the first half of undefine_domain.
PowerOff(y) ==
  /\ pc[y] \in {"power off", "force stop"}
  /\ \/ /\ dom # "none"
        /\ StepDone(y, pc[y])
        /\ dom' = IF dom = "transient" THEN "none" ELSE "off"
     \/ Leave(y) /\ UNCHANGED dom
  /\ UNCHANGED <<disk, grown, cidata, staged, key>>

\* A domain undefined while it runs goes on as a transient one.
Undefine(y) ==
  /\ pc[y] = "undefine"
  /\ \/ /\ dom \in {"off", "running"}
        /\ StepDone(y, "undefine")
        /\ dom' = IF dom = "off" THEN "none" ELSE "transient"
     \/ Leave(y) /\ UNCHANGED dom
  /\ UNCHANGED <<disk, grown, cidata, staged, key>>

\* vol-delete does not know which volumes qemu has open.
DeleteVolumes(y) ==
  /\ \/ /\ pc[y] = "delete disk"
        /\ \/ /\ disk \notin {"none", "uploading"} /\ StepDone(y, "delete disk")
              /\ disk' = "none" /\ grown' = FALSE
           \/ Leave(y) /\ UNCHANGED <<disk, grown>>
        /\ UNCHANGED cidata
     \/ /\ pc[y] = "drop cidata"
        /\ \/ /\ cidata \notin {"none", "uploading"} /\ StepDone(y, "drop cidata")
              /\ cidata' = "none"
           \/ Leave(y) /\ UNCHANGED cidata
        /\ UNCHANGED <<disk, grown>>
  /\ UNCHANGED <<dom, staged, key>>

RemoveDir(y) ==
  /\ pc[y] = "remove dir"
  /\ \/ StepDone(y, "remove dir") /\ staged' = None
     \/ Leave(y) /\ UNCHANGED staged
  /\ UNCHANGED <<dom, disk, grown, cidata, key>>

-----------------------------------------------------------------------------
\* A yo is killed, with no clean-up: virsh's upload ends with it.
Killed(y) ==
  /\ pc[y] # "idle"
  /\ CutRebuilds \/ pc[y] \notin {"upload cidata", "cidata uploading", "unstage"}
  /\ Leave(y)
  /\ disk' = IF pc[y] = "disk uploading" THEN "partial" ELSE disk
  /\ cidata' = IF pc[y] = "cidata uploading" THEN "partial" ELSE cidata
  /\ UNCHANGED <<dom, grown, staged, key>>

\* The box goes off by itself or is stopped.
BoxStops ==
  /\ dom \in {"running", "transient"}
  /\ dom' = IF dom = "running" THEN "off" ELSE "none"
  /\ UNCHANGED <<disk, grown, cidata, staged, key, yos>>

\* The operator logs in with another key from now on.
KeyChanges ==
  /\ key' \in Key \ {key}
  /\ UNCHANGED <<pieces, yos>>

Up(y) ==
  \/ Look(y) \/ EnsureDiskVolume(y) \/ CreateDisk(y) \/ UploadDisk(y)
  \/ DiskUploaded(y) \/ ResizeDisk(y) \/ SyncCidata(y) \/ DeleteCidata(y)
  \/ CreateCidata(y) \/ UploadCidata(y) \/ CidataUploaded(y) \/ Unstage(y)
  \/ Stage(y) \/ Define(y) \/ Start(y) \/ Unlock(y)

Destroy(y) ==
  List(y) \/ PowerOff(y) \/ Undefine(y) \/ DeleteVolumes(y) \/ RemoveDir(y)

Next ==
  \/ BoxStops \/ KeyChanges
  \/ \E y \in Yo : UpBegin(y) \/ Up(y) \/ DestroyBegin(y) \/ Destroy(y) \/ Killed(y)

Spec == Init /\ [][Next]_vars

-----------------------------------------------------------------------------
(* Properties.                                                             *)

\* A disk volume of full capacity was filled from the seed: what
\* ensure_disk_volume adopts without looking inside is a disk that boots
\* (disk_volume_finished).
FinishedIsWhole == grown => disk = "whole"

\* A box starts with the cidata of its operator's key, or it would let nobody in
\* (sync_cidata: the staged copy says what the volume was last built from).
StartsSynced ==
  \A y \in Yo : pc[y] = "start" => cidata = wants[y]

\* A domain has its finished volume: start() builds none for a domain that
\* exists, and undefine_domain lets none run on when its volume goes.
DomainHasDisk == dom # "none" => disk = "whole" /\ grown

\* While a yo sends the passphrase nothing of the box is destroyed, and while a
\* box is destroyed no passphrase is sent: unlock_lock spans both.
NotDestroyedUnlocking ==
  \A y, z \in Yo : pc[y] = "unlock" => pc[z] \notin DestroyPcs

\* What a yo that failed or was killed leaves is never in the next one's way:
\* the names create_volume makes its volumes under are free.
NamesAreFree ==
  \A y \in Yo :
    /\ pc[y] = "create disk" => disk = "none"
    /\ pc[y] = "create cidata" => cidata = "none"

\* A disk is finished when it was filled and has its capacity.
Built ==
  IF disk = "whole" /\ grown THEN "finished" ELSE IF disk = "none" THEN "none" ELSE "unfinished"

Box == INSTANCE BuiltBox WITH disk <- Built, domain <- dom

\* The many steps in which `yo up` makes a box, the list by which `yo destroy` removes
\* one, and what either leaves when it is cut short, are as good as making a disk and a
\* domain in that order and removing a domain that is off before its disk
\* (ensure_disk_volume, create_domain, destruction_steps, undefine_domain).
ImplementsBuiltBox == Box!Spec

-----------------------------------------------------------------------------
(* The inductive strengthenings.  The first three hold whatever the flags  *)
(* say; the others where no yo begins among another's pieces.              *)

\* One upload fills the disk volume at a time, and libvirt keeps the others off it.
UploadInv ==
  \A y \in Yo : pc[y] = "disk uploading" =>
    disk = "uploading" /\ \A z \in Yo : pc[z] = "disk uploading" => z = y

MakingDisk == {"create disk", "upload disk", "disk uploading", "resize disk"}
MakingCidata == {"delete cidata", "create cidata", "upload cidata", "cidata uploading",
                 "unstage", "stage"}
\* Past the reading of the operator's key.
Keyed == {"disk", "cidata", "define", "start"} \cup MakingDisk \cup MakingCidata

WantsInv == \A y \in Yo : pc[y] \in Keyed => wants[y] \in Key

\* A destroy is at the first step left on its list.
TodoInv ==
  \A y \in Yo :
    /\ "list" \notin todo[y]
    /\ pc[y] \in DestroyPcs \ {"list"} => todo[y] # {} /\ pc[y] = First(todo[y])

StepInv == TypeOK /\ UploadInv /\ WantsInv /\ TodoInv /\ NotDestroyedUnlocking

Quiet == {"idle", "take lock", "unlock"}

AloneInv == \A y, z \in Yo : y # z => pc[y] \in Quiet \/ pc[z] \in Quiet

\* A disk that is being made belongs to no domain yet; a new domain gets a whole one.
DiskInv ==
  \A y \in Yo :
    /\ pc[y] \in {"disk"} \cup MakingDisk => made[y]
    /\ pc[y] \in MakingDisk => ~grown
    /\ pc[y] = "create disk" => disk = "none"
    /\ pc[y] = "resize disk" => disk = "whole"
    /\ made[y] /\ pc[y] \in Keyed \ {"start"} => dom = "none"
    /\ made[y] /\ pc[y] \in {"cidata", "define"} \cup MakingCidata =>
         disk = "whole" /\ grown

\* A domain that is there while a box is destroyed is on the list, and so is its stop.
DestroyInv ==
  \A y \in Yo : pc[y] \in DestroyPcs \ {"list"} =>
    /\ dom # "none" => "undefine" \in todo[y]
    /\ dom \in {"running", "transient"} => "force stop" \in todo[y]

BoxInv ==
  /\ StepInv /\ AloneInv
  /\ FinishedIsWhole /\ DomainHasDisk /\ NamesAreFree /\ DiskInv /\ DestroyInv

\* The staged copy is what a volume that no yo is rebuilding was built from.
CidataInv ==
  /\ \A y \in Yo :
       /\ pc[y] \in {"unstage", "stage", "define", "start"} => cidata = wants[y]
       /\ pc[y] = "stage" => staged = None
  /\ (cidata # "none" /\ staged # None) =>
       \/ cidata = staged
       \/ \E y \in Yo : pc[y] \in {"upload cidata", "cidata uploading", "unstage"}
=============================================================================
