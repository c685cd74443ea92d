----------------------------- MODULE CopyDown -----------------------------
(***************************************************************************)
(* `yo cp`: a tree copied out of the box, or into it.                      *)
(*                                                                         *)
(* A download lists the build output in the guest, fetches what is left    *)
(* into a staging directory beside the destination, drops control paths    *)
(* there, plans the merge with what the host already has, and renames the  *)
(* entries into place one by one.  Each listing and each scp sees the      *)
(* guest of its own moment: the agent works on, and its shell may print    *)
(* what it likes, which is a tree that changes under the listing.          *)
(*                                                                         *)
(* A path is a sequence of names, a tree a function from the paths it has  *)
(* to what they are.  A link points at a file, which is what scp fetches   *)
(* for it.                                                                 *)
(***************************************************************************)
EXTENDS Naturals, Sequences

CONSTANTS
  GuestTrees,   \* what the guest may hold
  HostTrees,    \* what the destination may hold
  SourceLists,  \* the sources of a command
  Control,      \* names that fold to a version-control or editor path
  BuildOutput,  \* build-output names, each with the manifest it needs
  NewName,      \* a destination that is no directory
  MaxChanges,   \* how often the guest's tree changes under a copy
  None

VARIABLES
  guest,    \* the guest's tree
  host,     \* the destination's
  before,   \* the destination's as the command began
  srcs,     \* the command's sources
  toDir,    \* whether its destination is a directory
  pc,
  output,   \* the outermost build output the first listing found
  entries,  \* what the second listing said of the walked directories
  todo,     \* directories still to be made and filled one child at a time
  staging,  \* the staging directory's tree
  moves,    \* the renames planned and not yet done
  sent,     \* the tree an upload put into the guest
  said,     \* how the last command ended
  half,     \* whether an earlier run of the command landed a part
  changes   \* how often the guest's tree changed

fetch == <<output, entries, todo>>
vars == <<guest, host, before, srcs, toDir, pc, fetch, staging, moves, sent, said, half, changes>>

-----------------------------------------------------------------------------
\* What find tells apart, and what a copy made.
Kinds == {"dir", "file", "link", "fifo", "new"}
Path == Seq(STRING) \ {<<>>}
Empty == [x \in {} |-> "dir"]

Name(x) == x[Len(x)]
Parent(x) == SubSeq(x, 1, Len(x) - 1)
Above(x, y) == Len(x) < Len(y) /\ SubSeq(y, 1, Len(x)) = x
From(x, y) == x = y \/ Above(x, y)
Is(t, x, kind) == x \in DOMAIN t /\ t[x] = kind
Only(t, S) == [x \in DOMAIN t \cap S |-> t[x]]
Without(t, x) == [y \in {y \in DOMAIN t : ~From(x, y)} |-> t[y]]
With(t, x, kind) == [y \in DOMAIN t \cup {x} |-> IF y = x THEN kind ELSE t[y]]
SrcSet == {srcs[i] : i \in 1..Len(srcs)}

\* A tree is rooted if all but its top lies in a directory.
Entries(t) == \A x \in DOMAIN t : x \in Path /\ t[x] \in Kinds
Rooted(t) == \A x \in DOMAIN t : Len(x) = 1 \/ Is(t, Parent(x), "dir")
IsTree(t) == Entries(t) /\ Rooted(t)

ASSUME TreesAssumption ==
  \A t \in GuestTrees \cup HostTrees : IsTree(t) /\ \A x \in DOMAIN t : t[x] # "new"
ASSUME SourcesAssumption == SourceLists \subseteq Seq(Path) \ {<<>>}
ASSUME NamesAssumption == NewName \in STRING /\ MaxChanges \in Nat

\* Where an entry of source s lies below the destination: from the source's own
\* name down.
Landing(s, x) == SubSeq(x, Len(s), Len(x))

TypeOK ==
  /\ \A t \in {guest, host, before, entries, staging, sent} : Entries(t)
  /\ srcs \in SourceLists /\ toDir \in BOOLEAN
  /\ pc \in {"idle", "list", "whole", "list2", "walk", "drop", "plan", "land", "check",
             "mkdir", "send"}
  /\ \A x \in output : \E s \in SrcSet : Above(s, x)
  /\ \A job \in todo : job[1] \in SrcSet /\ From(job[1], job[2])
  /\ moves \subseteq DOMAIN staging
  /\ \A x \in DOMAIN staging : staging[x] \in {"dir", "new"}
  /\ said \in {"none", "ok", "sent", "usage", "refused", "changed", "failed", "linked"}
  /\ half \in BOOLEAN /\ changes \in 0..MaxChanges

Init ==
  /\ guest \in GuestTrees /\ host \in HostTrees /\ before = host
  /\ srcs \in SourceLists
  /\ toDir = TRUE
  /\ pc = "idle" /\ output = {} /\ entries = Empty /\ todo = {}
  /\ staging = Empty /\ moves = {} /\ sent = Empty
  /\ said = "none" /\ half = FALSE /\ changes = 0

-----------------------------------------------------------------------------
\* The staging directory is removed on every path.
End(out) ==
  /\ pc' = "idle" /\ said' = out
  /\ output' = {} /\ entries' = Empty /\ todo' = {} /\ staging' = Empty /\ moves' = {}
  /\ UNCHANGED <<guest, srcs, toDir, before, sent, changes>>

\* Nothing has landed yet.
Give(out) == End(out) /\ UNCHANGED <<host, half>>

Still == UNCHANGED <<guest, host, before, srcs, toDir, sent, said, half, changes>>

\* The guest's tree changes under the copy: an entry goes with all it holds,
\* or one comes.  Before the first listing that is another tree to begin with.
GuestChanges ==
  /\ pc \in {"whole", "list2", "walk"}
  /\ changes < MaxChanges
  /\ changes' = changes + 1
  /\ \/ \E x \in DOMAIN guest : guest' = Without(guest, x)
     \/ \E t \in GuestTrees : \E x \in DOMAIN t \ DOMAIN guest :
          /\ Len(x) = 1 \/ Is(guest, Parent(x), "dir")
          /\ guest' = With(guest, x, t[x])
  /\ UNCHANGED <<host, before, srcs, toDir, pc, fetch, staging, moves, sent, said, half>>

-----------------------------------------------------------------------------
(* What the command line says.                                             *)

\* Every source is on one side and the destination on the other.
Direction(flags, destIsGuest) ==
  IF flags = {TRUE} /\ ~destIsGuest THEN "from_guest"
  ELSE IF flags = {FALSE} /\ destIsGuest THEN "to_guest"
  ELSE "refused"

\* A destination that is no directory takes one source, under its own name.
\* The command may be given again, whatever became of it, and a half-landed one
\* is given again as it was.
Begin ==
  /\ pc = "idle"
  /\ toDir' \in {b \in BOOLEAN : b \/ ~(half \/ Is(host, <<NewName>>, "dir"))}
  /\ before' = host
  /\ \E flags \in SUBSET BOOLEAN \ {{}}, destIsGuest \in BOOLEAN :
       LET way == Direction(flags, destIsGuest)
           bad == way = "refused" \/ (way = "from_guest" /\ ~toDir' /\ Len(srcs) > 1)
       IN  /\ pc' = IF bad THEN "idle" ELSE IF way = "from_guest" THEN "list" ELSE "check"
           /\ said' = IF bad THEN "usage" ELSE "none"
  /\ UNCHANGED <<guest, host, srcs, fetch, staging, moves, sent, half, changes>>

-----------------------------------------------------------------------------
(* What is left out in the guest.                                          *)

\* A mutated form: the name alone counts.
ManifestNotAsked(t, x) == Name(x) \in DOMAIN BuildOutput

HasManifest(t, x) ==
  \/ BuildOutput[Name(x)] = None
  \/ Is(t, Append(Parent(x), BuildOutput[Name(x)]), "file")

\* A mutated form: judges the sources too.
ConfirmedFromSource ==
  {x \in DOMAIN guest :
     /\ guest[x] = "dir" /\ Name(x) \in DOMAIN BuildOutput /\ HasManifest(guest, x)
     /\ \E s \in SrcSet : From(s, x)}

\* A source itself is never judged: the operator named it.
Confirmed ==
  {x \in DOMAIN guest :
     /\ guest[x] = "dir" /\ Name(x) \in DOMAIN BuildOutput /\ HasManifest(guest, x)
     /\ \E s \in SrcSet : Above(s, x)}

Found == {x \in Confirmed : ~\E y \in Confirmed : Above(y, x)}

FindBuildOutput ==
  /\ pc = "list"
  /\ \/ /\ SrcSet \subseteq DOMAIN guest
        /\ pc' = "whole"
        /\ output' = Found
        /\ UNCHANGED <<entries, todo, staging, moves>> /\ Still
     \/ Give("failed")

\* A path that lies in several sources is the first one's.
Owner(x) == srcs[CHOOSE i \in 1..Len(srcs) :
                   Above(srcs[i], x) /\ \A j \in 1..(i - 1) : ~Above(srcs[j], x)]
DirectoriesDownTo(s, x) == {SubSeq(x, 1, n) : n \in Len(s)..(Len(x) - 1)}
WalkedFor(O) == UNION {DirectoriesDownTo(Owner(x), x) : x \in O}
Walked == WalkedFor(output)

\* scp -r of one source: its whole tree, links followed, and nothing of what
\* is neither file nor directory.
Fetched(x) == {y \in DOMAIN guest : From(x, y) /\ guest[y] # "fifo"}
Fetches(x) == x \in DOMAIN guest /\ guest[x] # "fifo"

\* What a transfer from source s lays down: where, and what.
Arrives(s, S) == {<<Landing(s, x), IF guest[x] = "dir" THEN "dir" ELSE "new">> : x \in S}

\* Directories merge and files replace files, also between sources of one name.
Fits(t, R) ==
  \A p \in R : /\ p[1] \in DOMAIN t => t[p[1]] = p[2]
               /\ \A q \in R : q[1] = p[1] => q[2] = p[2]
Laid(t, R) ==
  [z \in DOMAIN t \cup {p[1] : p \in R} |->
     IF z \in DOMAIN t THEN t[z] ELSE IF <<z, "dir">> \in R THEN "dir" ELSE "new"]

FetchWhole ==
  /\ pc = "whole"
  /\ LET whole == SrcSet \ Walked
         R == UNION {Arrives(s, Fetched(s)) : s \in whole}
     IN  \/ /\ \A s \in whole : Fetches(s)
            /\ Fits(staging, R) /\ staging' = Laid(staging, R)
            /\ pc' = IF Walked = {} THEN "drop" ELSE "list2"
            /\ UNCHANGED <<fetch, moves>> /\ Still
         \/ whole # {} /\ Give("failed")

\* The walked directories, each for every source it is reached from.
JobsOn(W) == {job \in (SrcSet \cap W) \X W :
                From(job[1], job[2]) /\ DirectoriesDownTo(job[1], job[2]) \subseteq W}
Jobs == JobsOn(Walked)

\* The second listing: the walked directories and what is in each of them.
ListWalked ==
  /\ pc = "list2"
  /\ \/ /\ Walked \subseteq DOMAIN guest
        /\ entries' = Only(guest, Walked \cup {x \in DOMAIN guest : Parent(x) \in Walked})
        /\ todo' = Jobs
        /\ pc' = "walk"
        /\ UNCHANGED <<output, staging, moves>> /\ Still
     \/ Give("failed")

Children(d) == {x \in DOMAIN entries : Parent(x) = d}

\* A directory that held build output must still be one that holds something:
\* else the tree changed between the listings.
Changed(d) == ~Is(entries, d, "dir") \/ Children(d) = {}

FetchWalked ==
  /\ pc = "walk"
  /\ \E job \in todo :
       LET s == job[1]
           d == job[2]
           plain == {x \in Children(d) :
                       x \notin Walked \cup output /\ entries[x] \in {"dir", "file", "link"}}
       IN  \/ Changed(d) /\ Give("changed")
           \/ /\ ~Changed(d)
              /\ \A x \in plain : Fetches(x)
              /\ LET R == {<<Landing(s, d), "dir">>}
                            \cup Arrives(s, UNION {Fetched(x) : x \in plain})
                 IN  Fits(staging, R) /\ staging' = Laid(staging, R)
              /\ todo' = todo \ {job}
              /\ pc' = IF todo' = {} THEN "drop" ELSE "walk"
              /\ UNCHANGED <<output, entries, moves>> /\ Still
           \/ ~Changed(d) /\ Give("failed")

-----------------------------------------------------------------------------
(* On the host.                                                            *)

\* A mutated form: judges only what is about to be moved by name.
DroppedOnTop(x) == x[1] \in Control

\* Judged on the host, which alone knows how its file system folds a name.
Dropped(x) == \E i \in 1..Len(x) : x[i] \in Control

DropControlPaths ==
  /\ pc = "drop"
  /\ \/ /\ staging' = Only(staging, {x \in DOMAIN staging : ~Dropped(x)})
        /\ pc' = "plan"
        /\ UNCHANGED <<fetch, moves>> /\ Still
     \/ Give("failed")

Target(x) == IF toDir THEN x ELSE <<NewName>> \o Tail(x)

\* plan_merge descends only where both sides have a directory.
Meets(x) == staging[x] = "dir" /\ Is(host, Target(x), "dir")
Reached == {x \in DOMAIN staging : \A y \in DOMAIN staging : Above(y, x) => Meets(y)}
Absent(x) == Target(x) \notin DOMAIN host

\* A mutated form: looks for a link only at the first entry.
RefusedOnTop(x) ==
  /\ ~Absent(x)
  /\ \/ host[Target(x)] = "link" /\ Len(x) = 1
     \/ (staging[x] = "dir") # (host[Target(x)] = "dir")

\* A mutated form: replaces nothing that is there.
RefusedIfThere(x) == ~Absent(x) /\ ~Meets(x)

Refused(x) ==
  /\ ~Absent(x)
  /\ \/ host[Target(x)] = "link"
     \/ (staging[x] = "dir") # (host[Target(x)] = "dir")
Moved(x) == Absent(x) \/ (staging[x] # "dir" /\ host[Target(x)] # "dir")

PlanMerge ==
  /\ pc = "plan"
  /\ \/ (\E x \in Reached : Refused(x)) /\ Give("refused")
     \/ /\ ~\E x \in Reached : Refused(x)
        /\ moves' = {x \in Reached : Moved(x)}
        /\ pc' = "land"
        /\ UNCHANGED <<fetch, staging>> /\ Still

\* One rename lands an entry with all it holds.
LandStaged ==
  /\ pc = "land"
  /\ \E x \in moves :
       /\ LET S == {y \in DOMAIN staging : From(x, y)}
          IN  host' = [z \in DOMAIN host \cup {Target(y) : y \in S} |->
                         IF \E y \in S : Target(y) = z
                         THEN staging[CHOOSE y \in S : Target(y) = z] ELSE host[z]]
       /\ moves' = moves \ {x}
  /\ UNCHANGED <<guest, before, srcs, toDir, pc, fetch, staging, sent, said, half, changes>>

LandFails ==
  /\ pc = "land" /\ moves # {}
  /\ End("failed")
  /\ half' = (half \/ host # before)
  /\ UNCHANGED host

Landed ==
  /\ pc = "land" /\ moves = {}
  /\ End("ok")
  /\ half' = FALSE
  /\ UNCHANGED host

-----------------------------------------------------------------------------
(* An upload.                                                              *)

Local(S) == {x \in DOMAIN host : \E s \in S : From(s, x)}

\* scp would send what a link points at, which nobody named.
RefuseSymlinksIn ==
  /\ pc = "check"
  /\ \/ /\ ~(SrcSet \subseteq DOMAIN host) \/ \E x \in Local(SrcSet) : host[x] = "link"
        /\ Give("linked")
     \/ /\ SrcSet \subseteq DOMAIN host
        /\ \A x \in Local(SrcSet) : host[x] # "link"
        /\ pc' = "mkdir"
        /\ UNCHANGED <<fetch, staging, moves>> /\ Still

MkdirTarget ==
  /\ pc = "mkdir"
  /\ \/ pc' = "send" /\ UNCHANGED <<fetch, staging, moves>> /\ Still
     \/ Give("failed")

Send ==
  /\ pc = "send"
  /\ \E out \in {"sent", "failed"} :
       /\ sent' = IF out = "sent" THEN Only(host, Local(SrcSet)) ELSE sent
       /\ pc' = "idle" /\ said' = out
  /\ UNCHANGED <<guest, host, before, srcs, toDir, fetch, staging, moves, half, changes>>

-----------------------------------------------------------------------------
Next ==
  \/ GuestChanges \/ Begin
  \/ FindBuildOutput \/ FetchWhole \/ ListWalked \/ FetchWalked
  \/ DropControlPaths \/ PlanMerge \/ LandStaged \/ LandFails \/ Landed
  \/ RefuseSymlinksIn \/ MkdirTarget \/ Send

Spec == Init /\ [][Next]_vars

-----------------------------------------------------------------------------
(* Properties.                                                             *)

\* What a copy of source s is to leave on the host, said without listings or
\* walks: all of its tree that scp can take, but for build output inside it and
\* for control paths.
Wanted(s) ==
  {y \in Fetched(s) :
     /\ ~Dropped(Landing(s, y))
     /\ ~\E z \in DOMAIN guest :
          /\ Above(s, z) /\ From(z, y)
          /\ guest[z] = "dir" /\ Name(z) \in DOMAIN BuildOutput
          /\ BuildOutput[Name(z)] \in
               {None} \cup {Name(f) : f \in {f \in DOMAIN guest : Parent(f) = Parent(z) /\ guest[f] = "file"}}}

\* The host has that beside what was there, and nothing else.
HasExactly ==
  LET P == {job \in SrcSet \X DOMAIN guest : job[2] \in Wanted(job[1])}
      At(job) == Target(Landing(job[1], job[2]))
  IN  /\ DOMAIN host = DOMAIN before \cup {At(job) : job \in P}
      /\ \A job \in P : host[At(job)] = IF guest[job[2]] = "dir" THEN "dir" ELSE "new"
      /\ \A z \in DOMAIN before : z \in {At(job) : job \in P} \/ host[z] = before[z]

\* A download that ends well has put exactly that beside what was there, if the
\* guest held still: nothing of it is missing after the piecewise fetch of
\* fetch_walked, no build output came along, and a copy that finishes a
\* half-landed one leaves what an undisturbed one would.
LandsExactly == said = "ok" /\ changes = 0 => HasExactly

\* BUILD_OUTPUT_NOTE of cp.py: "build output is never copied to the host", where
\* it is found inside a named source.
BuildOutputNeverCopied ==
  said = "ok" /\ changes = 0 =>
    \A s \in SrcSet : \A y \in Fetched(s) \ Wanted(s) :
      Target(Landing(s, y)) \in DOMAIN host => Target(Landing(s, y)) \in DOMAIN before

\* Whatever the guest does between the listings and the fetches, and however
\* deep in a tree that lands as one rename: nothing that git, an editor or
\* direnv would run lands (drop_control_paths).
NoControlLands ==
  \A z \in DOMAIN host :
    host[z] = "new" \/ z \notin DOMAIN before =>
      \A i \in 1..Len(z) : z[i] \in Control => i = 1 /\ z[1] = NewName

\* What a failed landing left never stops the copy that is to finish it:
\* plan_merge lets files replace files and merges directories.
HalfLandedCanFinish == half /\ changes = 0 => said # "refused"

\* A copy removes nothing of the host's, writes to no link and turns neither a
\* directory nor a link into something else: a file of the guest may take the
\* place of what is neither, and that is all (plan_merge, land_staged).
HostKept ==
  [][/\ DOMAIN host \subseteq DOMAIN host'
     /\ \A x \in DOMAIN host :
          host'[x] # host[x] => host[x] \notin {"dir", "link"} /\ host'[x] = "new"]_vars

-----------------------------------------------------------------------------
(* The inductive strengthenings of the properties.                         *)

\* What a command holds at each of its places.
StepInv ==
  /\ pc # "land" => moves = {}
  /\ pc # "walk" => todo = {}
  /\ pc \notin {"list2", "walk", "drop", "plan", "land"} => staging = Empty
  /\ pc \in {"list", "whole", "list2", "walk", "drop", "plan", "land"} /\ ~toDir => Len(srcs) = 1

TreesInv == IsTree(guest) /\ IsTree(host)

\* The staging directory fills below the names of the sources, and what has no
\* directory above it yet waits for one that is still to be made.
StagingInv ==
  \A z \in DOMAIN staging :
    /\ \E s \in SrcSet : z[1] = Name(s)
    /\ \/ Len(z) = 1 \/ Is(staging, Parent(z), "dir")
       \/ \E job \in todo : Parent(z) = Landing(job[1], job[2])

\* Every directory walked so far has been made.
WalkInv ==
  pc = "walk" =>
    /\ Walked \subseteq Path /\ todo \subseteq Jobs
    /\ \A job \in Jobs \ todo : Is(staging, Landing(job[1], job[2]), "dir")

DropInv == pc \in {"plan", "land"} => \A x \in DOMAIN staging : ~Dropped(x)

\* A planned rename still finds a directory to land in, and nothing there or
\* something that a file may replace.  None of them is inside another.
MovesInv ==
  \A x \in moves :
    /\ Len(x) = 1 \/ Is(host, Parent(Target(x)), "dir")
    /\ Absent(x) \/ (staging[x] # "dir" /\ host[Target(x)] \notin {"dir", "link"})
    /\ \A y \in moves : ~Above(x, y)

CopyInv ==
  TypeOK /\ StepInv /\ TreesInv /\ StagingInv /\ WalkInv /\ DropInv /\ MovesInv /\ NoControlLands

\* What the guest's tree and the sources make of the staging directory, if the
\* guest holds still: the sources fetched whole, and each walked directory with
\* its plain children.
FoundWalked == WalkedFor(Found)
FoundJobs == JobsOn(FoundWalked)
Plain(d) ==
  {x \in DOMAIN guest : Parent(x) = d /\ x \notin FoundWalked \cup Found
                        /\ guest[x] \in {"dir", "file", "link"}}
WholePart == UNION {Arrives(s, Fetched(s)) : s \in SrcSet \ FoundWalked}
Piece(job) ==
  {<<Landing(job[1], job[2]), "dir">>}
    \cup Arrives(job[1], UNION {Fetched(x) : x \in Plain(job[2])})
WalkedPart == UNION {Piece(job) : job \in FoundJobs \ todo}
Expected == {p \in WholePart \cup UNION {Piece(job) : job \in FoundJobs} : ~Dropped(p[1])}
Graph(t) == {<<z, t[z]>> : z \in DOMAIN t}

ExactInv ==
  changes = 0 =>
    /\ guest \in GuestTrees
    /\ pc \in {"whole", "list2", "walk", "drop", "plan", "land"} => output = Found
    /\ pc = "list2" => Graph(staging) = WholePart
    /\ pc = "walk" =>
         /\ FoundWalked \subseteq DOMAIN guest
         /\ entries = Only(guest, FoundWalked \cup {x \in DOMAIN guest : Parent(x) \in FoundWalked})
    /\ pc \in {"walk", "drop"} => Graph(staging) = WholePart \cup WalkedPart
    /\ pc \in {"plan", "land"} => Graph(staging) = Expected

\* What a command holds of the host until it lands something.
HostInv ==
  /\ pc # "idle" => said = "none"
  /\ pc \in {"list", "whole", "list2", "walk", "drop", "plan"} => host = before
  /\ half => toDir
  /\ pc \in {"list", "whole", "list2", "walk", "drop", "plan", "land"} /\ ~toDir =>
       ~Is(before, <<NewName>>, "dir")
  /\ pc = "land" /\ ~toDir => (\A x \in moves : Len(x) = 1) /\ (moves # {} => host = before)

\* Between two renames every staged entry has landed or lies in what is still to
\* be renamed, all else is as it was, and nothing has come to stand in the way.
LandInv ==
  pc = "land" =>
    /\ DOMAIN before \subseteq DOMAIN host
    /\ \A z \in DOMAIN host : (\A x \in DOMAIN staging : Target(x) # z) => Is(before, z, host[z])
    /\ \A x \in DOMAIN staging :
         (\E m \in moves : From(m, x)) \/ Is(host, Target(x), staging[x])
    /\ \A x \in Reached : ~Refused(x)

\* What the guest's tree and the sources would land meets no obstacle.
Unobstructed ==
  \A p \in Expected :
    (\A q \in Expected : Above(q[1], p[1]) => q[2] = "dir" /\ Is(host, q[1], "dir"))
      => \/ p[1] \notin DOMAIN host
         \/ host[p[1]] # "link" /\ (p[2] = "dir" <=> host[p[1]] = "dir")
HalfInv == half /\ changes = 0 => Unobstructed

ExactCopyInv == CopyInv /\ ExactInv /\ HostInv /\ LandInv /\ HalfInv /\ HalfLandedCanFinish

\* A source is named before those inside it, and no name on the way to an inner
\* one is a name of build output.
OutersFirst ==
  \A L \in SourceLists : \A i, j \in 1..Len(L) :
    Above(L[i], L[j]) =>
      i < j /\ \A n \in (Len(L[i]) + 1)..Len(L[j]) : L[j][n] \notin DOMAIN BuildOutput

=============================================================================
